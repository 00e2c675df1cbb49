--------------------------- MODULE FailoverPromise ---------------------------
(***************************************************************************)
(* What dispatchWithFailover promises its callers, handleChat and the      *)
(* native tool loop, whatever the failover policy: a request is offered a  *)
(* shrinking set of connections and gets exactly one answer, which stays   *)
(* until it is taken.  Success comes from a connection still on offer and  *)
(* only while the caller's signal has not fired; "aborted" is said only    *)
(* after it has fired; a connection that left the offer never comes back.  *)
(***************************************************************************)
EXTENDS Naturals

CONSTANTS NConns, Requests

Conns == 1..NConns

VARIABLES
  phase,     \* where the request stands
  fired,     \* the AbortSignal the caller passed has fired
  offered,   \* connections that may still serve it
  answer     \* DispatchOutcome

promiseVars == <<phase, fired, offered, answer>>

Kinds == {"none", "ok", "aborted", "noCandidates", "failed", "threw"}

PromiseTypeOK ==
  /\ phase \in [Requests -> {"idle", "open", "answered"}]
  /\ fired \in [Requests -> BOOLEAN]
  /\ offered \in [Requests -> SUBSET Conns]
  /\ answer \in [Requests -> [kind : Kinds, conn : 0..NConns]]

NotAnswered == [kind |-> "none", conn |-> 0]

Init ==
  /\ phase = [r \in Requests |-> "idle"]
  /\ fired = [r \in Requests |-> FALSE]
  /\ offered = [r \in Requests |-> {}]
  /\ answer = [r \in Requests |-> NotAnswered]

(* The caller dials out: a nonempty offer.                                 *)
Open(r) ==
  /\ phase[r] = "idle"
  /\ \E S \in (SUBSET Conns) \ {{}} : offered' = [offered EXCEPT ![r] = S]
  /\ phase' = [phase EXCEPT ![r] = "open"]
  /\ UNCHANGED <<fired, answer>>

(* A connection failed, or its credential is unreadable.                   *)
Withdraw(r) ==
  /\ phase[r] = "open"
  /\ \E S \in (SUBSET offered[r]) \ {{}, offered[r]} :
       offered' = [offered EXCEPT ![r] = S]
  /\ UNCHANGED <<phase, fired, answer>>

Close(r, kind, c) ==
  /\ phase' = [phase EXCEPT ![r] = "answered"]
  /\ offered' = [offered EXCEPT ![r] = {}]
  /\ answer' = [answer EXCEPT ![r] = [kind |-> kind, conn |-> c]]
  /\ UNCHANGED fired

Serve(r) ==
  /\ phase[r] = "open"
  /\ \E c \in offered[r], kind \in {"ok", "aborted", "threw"} :
       /\ kind = "ok" => ~fired[r]
       /\ kind = "aborted" => fired[r]
       /\ Close(r, kind, c)

(* Nothing is eligible, or no credential on the list is readable.          *)
Refuse(r) ==
  /\ phase[r] = "idle"
  /\ \E kind \in {"noCandidates", "failed"} : Close(r, kind, 0)

Fail(r) ==
  /\ phase[r] = "open"
  /\ \E c \in offered[r] : Close(r, "failed", c)

Fire(r) ==
  /\ phase[r] # "answered"
  /\ ~fired[r]
  /\ fired' = [fired EXCEPT ![r] = TRUE]
  /\ UNCHANGED <<phase, offered, answer>>

(* The next dispatch has a signal of its own, which may have fired before. *)
Take(r) ==
  /\ phase[r] = "answered"
  /\ phase' = [phase EXCEPT ![r] = "idle"]
  /\ answer' = [answer EXCEPT ![r] = NotAnswered]
  /\ \E b \in BOOLEAN : fired' = [fired EXCEPT ![r] = b]
  /\ UNCHANGED offered

Next == \E r \in Requests :
  Open(r) \/ Withdraw(r) \/ Serve(r) \/ Refuse(r) \/ Fail(r) \/ Fire(r) \/ Take(r)

Spec == Init /\ [][Next]_promiseVars
=============================================================================
