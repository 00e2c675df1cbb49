----------------------------- MODULE ChatProofs -----------------------------
(***************************************************************************)
(* Proofs about ChatRequest, for any number of requests, connections,      *)
(* rounds, tokens and tool calls.                                          *)
(*                                                                         *)
(* None of the properties is inductive.  That at most one dispatch begins  *)
(* after the client has gone needs that its signal has then fired, and     *)
(* that a dispatch whose signal has fired does not succeed, which is what  *)
(* the promise of the dispatch gives (SignalOf).  That there is one row    *)
(* needs that there is none before the answer (LedgerOf); that the loop    *)
(* resolves, that it recognizes its last round (RoundsOf).  All of it is   *)
(* about one request, whose record q changes in one step (StepKeeps); what *)
(* the promise does in that step is said once per operation of it.         *)
(***************************************************************************)
EXTENDS ChatRequest, FiniteSetTheorems, TLAPS

(* A request waits at its dispatch, p and a of the promise, if it has one. *)
SeatOf(q, p, a) ==
  /\ q.pc = "dispatching" <=> p # "idle"
  /\ p = "answered" <=> a.kind # "none"
  /\ a.kind = "ok" => a.conn \in Conns
  /\ q.pc \in {"toolset", "tooling"} => q.native
  /\ q.pc = "streaming" => ~q.native /\ q.lastConn \in Conns

(* The signal has fired when the client is gone, and fails the dispatch.   *)
SignalOf(q, f, a) ==
  /\ ~q.here => f
  /\ a.kind = "ok" => ~f
  /\ q.deaf <= 1
  /\ q.here => q.deaf = 0
  /\ q.pc \notin {"dispatching", "done"} => q.deaf = 0

WithinBudget(q) == q.dispatches <= (IF q.native THEN MaxRounds ELSE 1)

(* Rounds are numbered as they are dispatched.                             *)
RoundsOf(q) ==
  /\ WithinBudget(q)
  /\ q.pc \in {"idle", "preparing", "toolset"} => q.dispatches = 0 /\ q.round = 0
  /\ q.pc = "dispatching" /\ q.native => q.dispatches = q.round + 1 /\ q.round < MaxRounds
  /\ q.pc = "tooling" =>
       q.dispatches = q.round + 1 /\ q.round < MaxRounds - 1 /\ q.calls # 0

(* Until the answer there is no row, and the running totals are complete.  *)
LedgerOf(q) ==
  /\ q.pc # "done" => q.rows = <<>> /\ ~q.relayed
  /\ q.pc \notin {"done", "streaming"} => q.response = "none"
  /\ q.pc = "streaming" => q.response = "200"
  /\ q.pc # "done" /\ q.native => q.tokens = q.reported
  /\ q.pc \in {"idle", "preparing"} => q.tokens = 0 /\ q.reported = 0
  /\ q.pc = "dispatching" /\ ~q.native => q.reported = 0

Unlogged == {"499", "500", "rejected"}

(* The tokens that a row without an error has to have.                     *)
Counted(q) == IF q.relayed THEN 0 ELSE q.reported

(* The rows of an answered request.                                        *)
BookedOf(q) ==
  q.pc = "done" =>
    /\ q.response \notin {"none", "unresolved"}
    /\ q.response \in Unlogged => q.rows = <<>>
    /\ q.response = "503" => (q.rows # <<>> <=> q.native)
    /\ q.response \notin Unlogged \cup {"503"} => q.rows # <<>>
    /\ q.rows # <<>> =>
         /\ Len(q.rows) = 1
         /\ ~q.rows[1].error => q.rows[1].tokens = Counted(q)
         /\ q.response = "200" => q.rows[1].conn \in Conns
         /\ q.response \in {"failed", "503", "504"} => q.rows[1].error

Sound(q, p, f, a) ==
  SeatOf(q, p, a) /\ SignalOf(q, f, a) /\ RoundsOf(q) /\ LedgerOf(q) /\ BookedOf(q)

IInv ==
  /\ TypeOK
  /\ \A r \in Requests : Sound(chat[r], phase[r], fired[r], answer[r])

(* A step of request r leaves what the promise knows of the others.        *)
Elsewhere(r) ==
  \A s \in Requests \ {r} :
    phase'[s] = phase[s] /\ fired'[s] = fired[s] /\ answer'[s] = answer[s]

-----------------------------------------------------------------------------
(* What is known of a request before a step, and what is to be shown of it *)
(* afterwards.                                                             *)
LEMMA Known ==
  ASSUME IInv, NEW r \in Requests
  PROVE  /\ chat[r] \in ChatRecords
         /\ Sound(chat[r], phase[r], fired[r], answer[r])
         /\ fired[r] \in BOOLEAN
         /\ answer[r].conn \in 0..NConns
         /\ quota \in [Conns -> Nat]
BY DEF IInv, TypeOK, Failover!PromiseTypeOK

LEMMA StepKeeps ==
  ASSUME IInv, NEW r \in Requests, NEW q \in ChatRecords,
         Step(r, q), Failover!PromiseTypeOK', Elsewhere(r),
         Sound(q, phase'[r], fired'[r], answer'[r]),
         quota' \in [Conns -> Nat]
  PROVE  IInv'
<1>1. chat' = [chat EXCEPT ![r] = q] /\ chat \in [Requests -> ChatRecords]
  BY DEF Step, IInv, TypeOK
<1>2. TypeOK'
  BY <1>1 DEF TypeOK
<1>3. ASSUME NEW s \in Requests
      PROVE  Sound(chat'[s], phase'[s], fired'[s], answer'[s])
  <2>1. CASE s = r
    BY <1>1, <2>1
  <2>2. CASE s # r
    BY <1>1, <2>2 DEF IInv, Elsewhere
  <2>3. QED
    BY <2>1, <2>2
<1>4. QED
  BY <1>2, <1>3 DEF IInv, Sound, SeatOf, SignalOf, RoundsOf, WithinBudget, LedgerOf, BookedOf

-----------------------------------------------------------------------------
(* The operations of the promise.                                          *)
LEMMA Stays ==
  ASSUME IInv, NEW r \in Requests, UNCHANGED dispatchVars
  PROVE  /\ Failover!PromiseTypeOK' /\ Elsewhere(r)
         /\ phase'[r] = phase[r] /\ fired'[r] = fired[r] /\ answer'[r] = answer[r]
BY DEF IInv, TypeOK, Failover!PromiseTypeOK, Elsewhere, dispatchVars

LEMMA Opens ==
  ASSUME IInv, NEW r \in Requests, Failover!Open(r) \/ Failover!Refuse(r)
  PROVE  /\ Failover!PromiseTypeOK' /\ Elsewhere(r)
         /\ phase'[r] # "idle" /\ fired'[r] = fired[r]
         /\ phase'[r] = "answered" <=> answer'[r].kind # "none"
         /\ answer'[r].kind # "ok"
<1> USE ChatAssumption DEF Failover!Conns, Conns
<1>1. phase[r] = "idle" /\ (phase[r] = "answered" <=> answer[r].kind # "none")
  BY DEF IInv, Sound, SeatOf, Failover!Open, Failover!Refuse
<1>2. CASE Failover!Open(r)
  BY <1>1, <1>2 DEF IInv, TypeOK, Failover!PromiseTypeOK, Failover!Open, Elsewhere
<1>3. CASE Failover!Refuse(r)
  BY <1>3 DEF IInv, TypeOK, Failover!PromiseTypeOK, Failover!Refuse, Failover!Close,
              Failover!Kinds, Elsewhere
<1>4. QED
  BY <1>2, <1>3

LEMMA Takes ==
  ASSUME IInv, NEW r \in Requests, TakeAnswer(r)
  PROVE  /\ Failover!PromiseTypeOK' /\ Elsewhere(r)
         /\ phase[r] = "answered" /\ answer[r].kind # "none"
         /\ phase'[r] = "idle" /\ fired'[r] = ~chat[r].here
         /\ answer'[r].kind = "none"
<1> USE ChatAssumption DEF Failover!Conns, Conns
<1>1. phase[r] = "answered" /\ answer[r].kind # "none"
  BY DEF IInv, Sound, SeatOf, TakeAnswer, Failover!Take
<1>2. QED
  BY <1>1 DEF IInv, TypeOK, Failover!PromiseTypeOK, TakeAnswer, Failover!Take,
              Failover!NotAnswered, Failover!Kinds, Elsewhere

LEMMA Fires ==
  ASSUME IInv, NEW r \in Requests, Failover!Fire(r)
  PROVE  /\ Failover!PromiseTypeOK' /\ Elsewhere(r)
         /\ phase'[r] = phase[r] /\ fired'[r] = TRUE /\ answer'[r] = answer[r]
         /\ phase[r] # "answered"
BY DEF IInv, TypeOK, Failover!PromiseTypeOK, Failover!Fire, Elsewhere

-----------------------------------------------------------------------------
(* The ways to answer.                                                     *)
Closing(q, f) ==
  /\ q.rows = <<>> /\ WithinBudget(q)
  /\ ~q.here => f
  /\ q.deaf <= 1 /\ (q.here => q.deaf = 0)

LEMMA RespondSound ==
  ASSUME NEW q \in ChatRecords, NEW x \in Unlogged \cup {"503"},
         NEW f \in BOOLEAN, NEW a, a.kind = "none", Closing(q, f),
         x = "503" => ~q.native
  PROVE  Respond(q, x) \in ChatRecords /\ Sound(Respond(q, x), "idle", f, a)
<1> DEFINE p == Respond(q, x)
<1>1. p \in ChatRecords
  BY DEF Respond, ChatRecords, Responses, Unlogged
<1>2. SeatOf(p, "idle", a) /\ SignalOf(p, f, a)
  BY DEF Respond, ChatRecords, Closing, SeatOf, SignalOf
<1>3. RoundsOf(p) /\ LedgerOf(p)
  BY DEF Respond, ChatRecords, Closing, RoundsOf, WithinBudget, LedgerOf
<1>4. BookedOf(p)
  BY DEF Respond, ChatRecords, Closing, BookedOf, Unlogged
<1>5. QED
  BY <1>1, <1>2, <1>3, <1>4 DEF Sound

LEMMA LogSound ==
  ASSUME NEW q \in ChatRecords, NEW x \in {"200", "503", "504", "failed"},
         NEW f \in BOOLEAN, NEW a, a.kind = "none", Closing(q, f),
         NEW c \in 0..NConns, NEW t \in Nat, NEW e \in BOOLEAN,
         ~e => t = Counted(q),
         x = "200" => c \in Conns,
         x = "503" => q.native,
         x \in {"failed", "503", "504"} => e
  PROVE  /\ Respond(Log(q, c, t, e), x) \in ChatRecords
         /\ Sound(Respond(Log(q, c, t, e), x), "idle", f, a)
<1> DEFINE row == [conn |-> c, tokens |-> t, error |-> e]
           p == Respond(Log(q, c, t, e), x)
<1>1. q.rows = <<>> /\ row \in Rows
  BY DEF Closing, Rows
<1>2. /\ Append(q.rows, row) \in Seq(Rows)
      /\ Len(Append(q.rows, row)) = 1
      /\ Append(q.rows, row)[1] = row
  BY <1>1
<1>3. p = [q EXCEPT !.pc = "done", !.response = x, !.rows = Append(q.rows, row)]
  BY DEF Respond, Log, ChatRecords
<1>4. /\ p.rows = Append(q.rows, row) /\ p.pc = "done" /\ p.response = x
      /\ Counted(p) = Counted(q) /\ p.native = q.native
  BY <1>3 DEF ChatRecords, Counted
<1>5. p \in ChatRecords
  BY <1>2, <1>3 DEF ChatRecords, Responses
<1>6. SeatOf(p, "idle", a) /\ SignalOf(p, f, a)
  BY <1>3 DEF ChatRecords, Closing, SeatOf, SignalOf
<1>7. RoundsOf(p) /\ LedgerOf(p)
  BY <1>3 DEF ChatRecords, Closing, RoundsOf, WithinBudget, LedgerOf
<1>8. BookedOf(p)
  BY <1>2, <1>4 DEF BookedOf, Unlogged
<1>9. QED
  BY <1>5, <1>6, <1>7, <1>8 DEF Sound

-----------------------------------------------------------------------------
(* A dispatch begins soundly from a record that is ready for it.           *)
Ready(q) ==
  /\ q.rows = <<>> /\ ~q.relayed /\ q.response = "none" /\ q.deaf = 0
  /\ q.native => q.tokens = q.reported /\ q.dispatches = q.round /\ q.round < MaxRounds
  /\ ~q.native => q.reported = 0 /\ q.dispatches = 0

LEMMA BeginDispatchKeeps ==
  ASSUME IInv, NEW r \in Requests, NEW q \in ChatRecords, Ready(q),
         q.here = chat[r].here, BeginDispatch(r, q), UNCHANGED quota
  PROVE  IInv'
<1> USE ChatAssumption
<1> DEFINE p == [q EXCEPT !.pc = "dispatching", !.dispatches = @ + 1,
                          !.deaf = IF q.here THEN @ ELSE @ + 1]
<1>1. /\ Failover!PromiseTypeOK' /\ Elsewhere(r)
      /\ phase'[r] # "idle" /\ fired'[r] = fired[r]
      /\ phase'[r] = "answered" <=> answer'[r].kind # "none"
      /\ answer'[r].kind # "ok"
  BY Opens DEF BeginDispatch
<1>2. Step(r, p)
  BY DEF BeginDispatch
<1>3. p \in ChatRecords
  <2>1. (IF q.here THEN q.deaf ELSE q.deaf + 1) \in Nat /\ q.dispatches + 1 \in Nat
    BY DEF ChatRecords
  <2>2. QED
    BY <2>1 DEF ChatRecords
<1>4. SeatOf(p, phase'[r], answer'[r])
  BY <1>1 DEF ChatRecords, SeatOf
<1>5. SignalOf(p, fired'[r], answer'[r])
  <2>1. ~q.here => fired'[r]
    BY <1>1, Known DEF Sound, SignalOf
  <2>2. p.here = q.here /\ p.pc = "dispatching" /\ p.deaf = (IF q.here THEN 0 ELSE 1)
    BY DEF ChatRecords, Ready
  <2>3. QED
    BY <1>1, <2>1, <2>2 DEF SignalOf, ChatRecords
<1>6. RoundsOf(p)
  BY DEF ChatRecords, RoundsOf, WithinBudget, Ready
<1>7. LedgerOf(p)
  BY DEF ChatRecords, LedgerOf, Ready
<1>8. BookedOf(p)
  BY DEF ChatRecords, BookedOf
<1>9. QED
  BY <1>1, <1>2, <1>3, <1>4, <1>5, <1>6, <1>7, <1>8, StepKeeps, Known DEF Sound

LEMMA BeginRoundKeeps ==
  ASSUME IInv, NEW r \in Requests, NEW q \in ChatRecords, Ready(q), q.native,
         q.here = chat[r].here, phase[r] = "idle",
         BeginRound(r, q), UNCHANGED quota
  PROVE  IInv'
<1> USE ChatAssumption
<1>1. q.round # MaxRounds
  BY DEF Ready, ChatRecords
<1>2. CASE ~q.late
  BY <1>1, <1>2, BeginDispatchKeeps DEF BeginRound
<1>3. CASE q.late
  <2>1. Step(r, Respond(Log(q, q.lastConn, 0, TRUE), "504")) /\ UNCHANGED dispatchVars
    BY <1>1, <1>3 DEF BeginRound
  <2>2. answer[r].kind = "none" /\ (~q.here => fired[r]) /\ fired[r] \in BOOLEAN
    BY Known DEF Sound, SeatOf, SignalOf
  <2>3. Closing(q, fired[r])
    BY <2>2 DEF Closing, Ready, WithinBudget, ChatRecords
  <2>4. q.lastConn \in 0..NConns
    BY DEF ChatRecords
  <2> DEFINE p == Respond(Log(q, q.lastConn, 0, TRUE), "504")
  <2>5. p \in ChatRecords /\ Sound(p, "idle", fired[r], answer[r])
    BY <2>2, <2>3, <2>4, LogSound
  <2>6. /\ Failover!PromiseTypeOK' /\ Elsewhere(r)
        /\ phase'[r] = phase[r] /\ fired'[r] = fired[r] /\ answer'[r] = answer[r]
    BY <2>1, Stays
  <2>7. QED
    BY <2>1, <2>5, <2>6, StepKeeps, Known
<1>4. QED
  BY <1>2, <1>3 DEF ChatRecords

-----------------------------------------------------------------------------
(* One lemma per action.  Receive: the request is read.                    *)
LEMMA ReceiveKeeps ==
  ASSUME IInv, NEW r \in Requests, Receive(r)
  PROVE  IInv'
<1>1. PICK native, converted \in BOOLEAN :
        Step(r, [chat[r] EXCEPT !.pc = "preparing", !.native = native,
                               !.converted = converted])
  BY DEF Receive
<1> DEFINE q == [chat[r] EXCEPT !.pc = "preparing", !.native = native,
                               !.converted = converted]
<1>2. chat[r] \in ChatRecords /\ Sound(chat[r], phase[r], fired[r], answer[r])
  BY Known
<1>3. q \in ChatRecords
  BY <1>2 DEF ChatRecords
<1>4. SeatOf(q, phase[r], answer[r]) /\ SignalOf(q, fired[r], answer[r])
  BY <1>2 DEF ChatRecords, Sound, SeatOf, SignalOf, Receive
<1>5. RoundsOf(q)
  BY <1>2, ChatAssumption DEF ChatRecords, Sound, RoundsOf, WithinBudget, Receive
<1>6. LedgerOf(q)
  BY <1>2 DEF ChatRecords, Sound, LedgerOf, Receive
<1>7. BookedOf(q)
  BY <1>2 DEF ChatRecords, BookedOf
<1>8. UNCHANGED <<dispatchVars, quota>>
  BY DEF Receive
<1>9. QED
  BY <1>1, <1>3, <1>4, <1>5, <1>6, <1>7, <1>8, Stays, StepKeeps, Known DEF Sound

(* Reject: a request that is rejected is answered without a row.           *)
LEMMA RejectKeeps ==
  ASSUME IInv, NEW r \in Requests, Reject(r)
  PROVE  IInv'
<1>1. /\ chat[r] \in ChatRecords /\ Sound(chat[r], phase[r], fired[r], answer[r])
      /\ fired[r] \in BOOLEAN
  BY Known
<1>2. chat[r].pc = "preparing" /\ UNCHANGED <<dispatchVars, quota>>
  BY DEF Reject
<1>3. phase[r] = "idle" /\ answer[r].kind = "none" /\ Closing(chat[r], fired[r])
  BY <1>1, <1>2 DEF Sound, SeatOf, SignalOf, RoundsOf, LedgerOf, Closing
<1>4. /\ Respond(chat[r], "rejected") \in ChatRecords
      /\ Sound(Respond(chat[r], "rejected"), "idle", fired[r], answer[r])
  BY <1>1, <1>3, RespondSound DEF Unlogged
<1>5. QED
  BY <1>2, <1>3, <1>4, Stays, StepKeeps, Known DEF Reject

(* DispatchOnce: outside the tool loop this is the only dispatch.          *)
LEMMA DispatchOnceKeeps ==
  ASSUME IInv, NEW r \in Requests, DispatchOnce(r)
  PROVE  IInv'
<1>1. chat[r] \in ChatRecords /\ Sound(chat[r], phase[r], fired[r], answer[r])
  BY Known
<1>2. Ready(chat[r])
  BY <1>1 DEF DispatchOnce, Ready, Sound, SignalOf, RoundsOf, LedgerOf
<1>3. QED
  BY <1>1, <1>2, BeginDispatchKeeps DEF DispatchOnce

(* AwaitToolSet: nothing is dispatched yet.                                *)
LEMMA AwaitToolSetKeeps ==
  ASSUME IInv, NEW r \in Requests, AwaitToolSet(r)
  PROVE  IInv'
<1> DEFINE q == [chat[r] EXCEPT !.pc = "toolset"]
<1>1. chat[r] \in ChatRecords /\ Sound(chat[r], phase[r], fired[r], answer[r])
  BY Known
<1>2. /\ chat[r].pc = "preparing" /\ chat[r].native /\ Step(r, q)
      /\ UNCHANGED <<dispatchVars, quota>>
  BY DEF AwaitToolSet
<1>3. q \in ChatRecords
  BY <1>1 DEF ChatRecords
<1>4. SeatOf(q, phase[r], answer[r]) /\ SignalOf(q, fired[r], answer[r])
  BY <1>1, <1>2 DEF ChatRecords, Sound, SeatOf, SignalOf
<1>5. RoundsOf(q) /\ LedgerOf(q)
  BY <1>1, <1>2 DEF ChatRecords, Sound, RoundsOf, WithinBudget, LedgerOf
<1>6. BookedOf(q)
  BY <1>1 DEF ChatRecords, BookedOf
<1>7. QED
  BY <1>2, <1>3, <1>4, <1>5, <1>6, Stays, StepKeeps, Known DEF Sound

(* What holds when an answer of the dispatch is taken; only a dispatch     *)
(* that nobody gave up on has succeeded.                                   *)
LEMMA Taken ==
  ASSUME IInv, NEW r \in Requests, TakeAnswer(r)
  PROVE  /\ chat[r].pc = "dispatching" /\ chat[r].rows = <<>>
         /\ ~chat[r].relayed
         /\ chat[r].response = "none" /\ answer[r].kind # "none"
         /\ Closing(chat[r], fired'[r])
         /\ fired'[r] = ~chat[r].here /\ fired'[r] \in BOOLEAN
         /\ phase'[r] = "idle" /\ answer'[r].kind = "none"
         /\ answer[r].kind = "ok" =>
              /\ chat[r].here /\ chat[r].deaf = 0
              /\ answer[r].conn \in Conns
         /\ Failover!PromiseTypeOK' /\ Elsewhere(r)
<1>1. chat[r] \in ChatRecords /\ Sound(chat[r], phase[r], fired[r], answer[r])
  BY Known
<1>2. /\ Failover!PromiseTypeOK' /\ Elsewhere(r)
      /\ phase[r] = "answered" /\ answer[r].kind # "none"
      /\ phase'[r] = "idle" /\ fired'[r] = ~chat[r].here
      /\ answer'[r].kind = "none"
  BY Takes
<1>3. chat[r].pc = "dispatching" /\ (answer[r].kind = "ok" => answer[r].conn \in Conns)
  BY <1>1, <1>2 DEF Sound, SeatOf
<1>4. /\ chat[r].rows = <<>> /\ ~chat[r].relayed
      /\ chat[r].response = "none" /\ WithinBudget(chat[r])
  BY <1>1, <1>3 DEF Sound, LedgerOf, RoundsOf
<1>5. /\ chat[r].here \in BOOLEAN /\ chat[r].deaf <= 1
      /\ chat[r].here => chat[r].deaf = 0
      /\ answer[r].kind = "ok" => chat[r].here
  BY <1>1 DEF Sound, SignalOf, ChatRecords
<1>6. QED
  BY <1>2, <1>3, <1>4, <1>5 DEF Closing

(* DispatchFailed: the row of a failure is marked as one.                  *)
LEMMA DispatchFailedKeeps ==
  ASSUME IInv, NEW r \in Requests, DispatchFailed(r)
  PROVE  IInv'
<1>1. TakeAnswer(r) /\ answer[r].kind # "ok" /\ UNCHANGED quota
  BY DEF DispatchFailed
<1>2. /\ answer[r].kind # "none" /\ Closing(chat[r], fired'[r])
      /\ phase'[r] = "idle" /\ answer'[r].kind = "none" /\ fired'[r] \in BOOLEAN
      /\ Failover!PromiseTypeOK' /\ Elsewhere(r)
  BY <1>1, Taken
<1>3. /\ chat[r] \in ChatRecords /\ answer[r].conn \in 0..NConns
      /\ quota' \in [Conns -> Nat]
  BY <1>1, Known
<1>4. answer[r].kind \in {"aborted", "threw", "noCandidates", "failed"}
  BY <1>1, <1>2 DEF IInv, TypeOK, Failover!PromiseTypeOK, Failover!Kinds
<1>5. \/ \E x \in Unlogged \cup {"503"} :
           Step(r, Respond(chat[r], x)) /\ (x = "503" => ~chat[r].native)
      \/ \E x \in {"503", "failed"} :
           /\ Step(r, Respond(Log(chat[r], answer[r].conn, 0, TRUE), x))
           /\ x = "503" => chat[r].native
  <2> DEFINE m == Log(chat[r], answer[r].conn, 0, TRUE)
  <2>1. CASE chat[r].native
    <3>1. Step(r, NativeRefusal(chat[r], answer[r]))
      BY <2>1 DEF DispatchFailed
    <3>2. \/ \E x \in Unlogged : Step(r, Respond(chat[r], x))
          \/ \E x \in {"503", "failed"} : Step(r, Respond(m, x))
      BY <1>4, <3>1 DEF NativeRefusal, Unlogged
    <3>3. QED
      BY <2>1, <3>2, Zenon DEF Unlogged
  <2>2. CASE ~chat[r].native
    <3>1. Step(r, Refusal(chat[r], answer[r]))
      BY <2>2 DEF DispatchFailed
    <3>2. \/ \E x \in Unlogged \cup {"503"} : Step(r, Respond(chat[r], x))
          \/ Step(r, Respond(m, "failed"))
      BY <1>4, <3>1 DEF Refusal, Unlogged
    <3>3. QED
      BY <2>2, <3>2, Zenon DEF Unlogged
  <2>3. QED
    BY <2>1, <2>2
<1>6. ASSUME NEW x \in Unlogged \cup {"503"}, Step(r, Respond(chat[r], x)),
             x = "503" => ~chat[r].native
      PROVE  IInv'
  <2>1. /\ Respond(chat[r], x) \in ChatRecords
        /\ Sound(Respond(chat[r], x), "idle", fired'[r], answer'[r])
    BY <1>2, <1>3, <1>6, RespondSound
  <2>2. QED
    BY <1>2, <1>3, <1>6, <2>1, StepKeeps
<1>7. ASSUME NEW x \in {"503", "failed"}, x = "503" => chat[r].native,
             Step(r, Respond(Log(chat[r], answer[r].conn, 0, TRUE), x))
      PROVE  IInv'
  <2>1. /\ Respond(Log(chat[r], answer[r].conn, 0, TRUE), x) \in ChatRecords
        /\ Sound(Respond(Log(chat[r], answer[r].conn, 0, TRUE), x),
                 "idle", fired'[r], answer'[r])
    BY <1>2, <1>3, <1>7, LogSound
  <2>2. QED
    BY <1>2, <1>3, <1>7, <2>1, StepKeeps
<1>8. QED
  BY <1>5, <1>6, <1>7

(* AnswerJson: the row has the tokens of the answer.                       *)
LEMMA AnswerJsonKeeps ==
  ASSUME IInv, NEW r \in Requests, AnswerJson(r)
  PROVE  IInv'
<1> USE ChatAssumption
<1> DEFINE c == answer[r].conn
<1>1. PICK t \in Tokens :
        /\ Step(r, Respond(Log([chat[r] EXCEPT !.reported = t], c, t, FALSE), "200"))
        /\ Charge(c, t)
  BY DEF AnswerJson
<1>2. TakeAnswer(r) /\ answer[r].kind = "ok"
  BY DEF AnswerJson, Served
<1>3. /\ Closing(chat[r], fired'[r]) /\ c \in Conns
      /\ phase'[r] = "idle" /\ answer'[r].kind = "none" /\ fired'[r] \in BOOLEAN
      /\ Failover!PromiseTypeOK' /\ Elsewhere(r)
  BY <1>2, Taken
<1>4. chat[r] \in ChatRecords /\ t \in Nat /\ quota \in [Conns -> Nat]
  BY Known DEF Tokens
<1> DEFINE q == [chat[r] EXCEPT !.reported = t]
<1>5. q \in ChatRecords /\ Counted(q) = t /\ Closing(q, fired'[r])
  BY <1>2, <1>3, <1>4, Taken DEF ChatRecords, Closing, WithinBudget, Counted
<1>6. c \in 0..NConns
  BY <1>3 DEF Conns
<1> HIDE DEF q
<1>7. /\ Respond(Log(q, c, t, FALSE), "200") \in ChatRecords
      /\ Sound(Respond(Log(q, c, t, FALSE), "200"), "idle", fired'[r], answer'[r])
  BY <1>3, <1>4, <1>5, <1>6, LogSound
<1>8. quota' \in [Conns -> Nat]
  BY <1>1, <1>3, <1>4 DEF Charge
<1>9. QED
  BY <1>1, <1>3, <1>7, <1>8, StepKeeps DEF q

(* AnswerUnreadable: nothing was reported and nothing is logged of it, or  *)
(* a row without tokens.                                                   *)
LEMMA AnswerUnreadableKeeps ==
  ASSUME IInv, NEW r \in Requests, AnswerUnreadable(r)
  PROVE  IInv'
<1> USE ChatAssumption
<1>1. TakeAnswer(r) /\ answer[r].kind = "ok" /\ UNCHANGED quota
  BY DEF AnswerUnreadable, Served
<1>2. /\ Closing(chat[r], fired'[r]) /\ answer[r].conn \in Conns
      /\ chat[r].pc = "dispatching"
      /\ phase'[r] = "idle" /\ answer'[r].kind = "none" /\ fired'[r] \in BOOLEAN
      /\ Failover!PromiseTypeOK' /\ Elsewhere(r)
  BY <1>1, Taken
<1>3. /\ chat[r] \in ChatRecords /\ answer[r].conn \in 0..NConns
      /\ quota' \in [Conns -> Nat]
  BY <1>1, Known
<1>4. CASE chat[r].native \/ chat[r].converted
  <2>1. Step(r, Respond(chat[r], "500"))
    BY <1>4 DEF AnswerUnreadable
  <2>2. /\ Respond(chat[r], "500") \in ChatRecords
        /\ Sound(Respond(chat[r], "500"), "idle", fired'[r], answer'[r])
    BY <1>2, <1>3, RespondSound DEF Unlogged
  <2>3. QED
    BY <1>2, <1>3, <2>1, <2>2, StepKeeps
<1>5. CASE ~(chat[r].native \/ chat[r].converted)
  <2> DEFINE q == Respond(Log(chat[r], answer[r].conn, 0, FALSE), "200")
  <2>1. Step(r, q)
    BY <1>5 DEF AnswerUnreadable
  <2>2. Counted(chat[r]) = 0
    BY <1>2, <1>5, Known DEF Sound, LedgerOf, Counted
  <2>3. q \in ChatRecords /\ Sound(q, "idle", fired'[r], answer'[r])
    <3>1. ~FALSE => 0 = Counted(chat[r])
      BY <2>2
    <3>2. QED
      BY <1>2, <1>3, <3>1, LogSound
  <2>4. QED
    BY <1>2, <1>3, <2>1, <2>3, StepKeeps
<1>6. QED
  BY <1>4, <1>5

(* AnswerStream: the row of a stream that is relayed as it is has no       *)
(* tokens, whatever the stream reports.                                    *)
LEMMA AnswerStreamKeeps ==
  ASSUME IInv, NEW r \in Requests, AnswerStream(r)
  PROVE  IInv'
<1> USE ChatAssumption
<1>1. TakeAnswer(r) /\ answer[r].kind = "ok" /\ ~chat[r].native /\ UNCHANGED quota
  BY DEF AnswerStream, Served
<1>2. /\ Closing(chat[r], fired'[r]) /\ answer[r].conn \in Conns
      /\ chat[r].pc = "dispatching" /\ chat[r].here /\ chat[r].deaf = 0
      /\ phase'[r] = "idle" /\ answer'[r].kind = "none" /\ fired'[r] \in BOOLEAN
      /\ Failover!PromiseTypeOK' /\ Elsewhere(r)
  BY <1>1, Taken
<1>3. /\ chat[r] \in ChatRecords /\ answer[r].conn \in 0..NConns
      /\ quota' \in [Conns -> Nat]
  BY <1>1, Known
<1>4. chat[r].reported = 0 /\ ~chat[r].relayed
  BY <1>1, <1>2, Known DEF Sound, LedgerOf
<1>5. CASE chat[r].converted
  <2> DEFINE q == [chat[r] EXCEPT !.pc = "streaming", !.response = "200",
                                  !.lastConn = answer[r].conn]
  <2>1. Step(r, q)
    BY <1>5 DEF AnswerStream
  <2>2. q \in ChatRecords
    BY <1>3 DEF ChatRecords, Responses
  <2>3. SeatOf(q, phase'[r], answer'[r]) /\ SignalOf(q, fired'[r], answer'[r])
    BY <1>1, <1>2, <1>3 DEF ChatRecords, SeatOf, SignalOf
  <2>4. RoundsOf(q) /\ LedgerOf(q)
    BY <1>1, <1>2, <1>3, <1>4 DEF ChatRecords, RoundsOf, WithinBudget, LedgerOf, Closing
  <2>5. BookedOf(q)
    BY <1>3 DEF ChatRecords, BookedOf
  <2>6. QED
    BY <1>2, <1>3, <2>1, <2>2, <2>3, <2>4, <2>5, StepKeeps DEF Sound
<1>6. CASE ~chat[r].converted
  <2> DEFINE m(t) == [chat[r] EXCEPT !.relayed = TRUE, !.reported = t]
  <2>1. PICK t \in Tokens :
          Step(r, Respond(Log(m(t), answer[r].conn, 0, FALSE), "200"))
    BY <1>6 DEF AnswerStream
  <2> DEFINE q == m(t)
  <2>2. t \in Nat
    BY DEF Tokens
  <2>3. q \in ChatRecords /\ Counted(q) = 0 /\ Closing(q, fired'[r])
    BY <1>2, <1>3, <2>2 DEF ChatRecords, Closing, WithinBudget, Counted
  <2> HIDE DEF m
  <2>4. /\ Respond(Log(q, answer[r].conn, 0, FALSE), "200") \in ChatRecords
        /\ Sound(Respond(Log(q, answer[r].conn, 0, FALSE), "200"),
                 "idle", fired'[r], answer'[r])
    BY <1>2, <1>3, <2>3, LogSound
  <2>5. QED
    BY <1>2, <1>3, <2>1, <2>4, StepKeeps
<1>7. QED
  BY <1>5, <1>6

(* StreamReports: what a stream reports is counted.                        *)
LEMMA StreamReportsKeeps ==
  ASSUME IInv, NEW r \in Requests, StreamReports(r)
  PROVE  IInv'
<1> DEFINE q == [chat[r] EXCEPT !.reported = @ + 1]
<1>1. chat[r] \in ChatRecords /\ Sound(chat[r], phase[r], fired[r], answer[r])
  BY Known
<1>2. chat[r].pc = "streaming" /\ Step(r, q) /\ UNCHANGED <<dispatchVars, quota>>
  BY DEF StreamReports
<1>3. q \in ChatRecords
  <2>1. chat[r].reported + 1 \in Nat
    BY <1>1 DEF ChatRecords
  <2>2. QED
    BY <1>1, <2>1 DEF ChatRecords
<1>4. SeatOf(q, phase[r], answer[r]) /\ SignalOf(q, fired[r], answer[r])
  BY <1>1, <1>2 DEF ChatRecords, Sound, SeatOf, SignalOf
<1>5. RoundsOf(q) /\ LedgerOf(q)
  BY <1>1, <1>2 DEF ChatRecords, Sound, SeatOf, RoundsOf, WithinBudget, LedgerOf
<1>6. BookedOf(q)
  BY <1>1, <1>2 DEF ChatRecords, BookedOf
<1>7. QED
  BY <1>2, <1>3, <1>4, <1>5, <1>6, Stays, StepKeeps, Known DEF Sound

(* StreamEnds: the end writes the row and charges the connection.          *)
LEMMA StreamEndsKeeps ==
  ASSUME IInv, NEW r \in Requests, StreamEnds(r)
  PROVE  IInv'
<1> USE ChatAssumption
<1> DEFINE c == chat[r].lastConn
<1>1. PICK error \in BOOLEAN, t \in {chat[r].reported, 0} :
        /\ ~error => t = chat[r].reported
        /\ Step(r, Respond(Log(chat[r], c, t, error), "200"))
        /\ Charge(c, t)
  BY DEF StreamEnds
<1>2. chat[r].pc = "streaming" /\ UNCHANGED dispatchVars
  BY DEF StreamEnds
<1>3. /\ chat[r] \in ChatRecords /\ Sound(chat[r], phase[r], fired[r], answer[r])
      /\ fired[r] \in BOOLEAN /\ quota \in [Conns -> Nat]
  BY Known
<1>4. /\ phase[r] = "idle" /\ answer[r].kind = "none" /\ c \in Conns
      /\ Closing(chat[r], fired[r]) /\ Counted(chat[r]) = chat[r].reported
  BY <1>2, <1>3 DEF Sound, SeatOf, SignalOf, LedgerOf, RoundsOf, Closing, Counted
<1>5. t \in Nat /\ c \in 0..NConns
  BY <1>3 DEF ChatRecords
<1> DEFINE q == Respond(Log(chat[r], c, t, error), "200")
<1>6. q \in ChatRecords /\ Sound(q, "idle", fired[r], answer[r])
  BY <1>1, <1>3, <1>4, <1>5, LogSound
<1>7. quota' \in [Conns -> Nat]
  BY <1>1, <1>3, <1>4, <1>5 DEF Charge
<1>8. /\ Failover!PromiseTypeOK' /\ Elsewhere(r)
      /\ phase'[r] = phase[r] /\ fired'[r] = fired[r] /\ answer'[r] = answer[r]
  BY <1>2, Stays
<1>9. QED
  BY <1>1, <1>4, <1>6, <1>7, <1>8, StepKeeps

(* ToolSetReady: the first round begins.                                   *)
LEMMA ToolSetReadyKeeps ==
  ASSUME IInv, NEW r \in Requests, ToolSetReady(r)
  PROVE  IInv'
<1>1. chat[r] \in ChatRecords /\ Sound(chat[r], phase[r], fired[r], answer[r])
  BY Known
<1>2. chat[r].pc = "toolset" /\ BeginRound(r, chat[r]) /\ UNCHANGED quota
  BY DEF ToolSetReady
<1>3. chat[r].native /\ phase[r] = "idle"
  BY <1>1, <1>2 DEF Sound, SeatOf
<1>4. Ready(chat[r])
  BY <1>1, <1>2, <1>3, ChatAssumption DEF Ready, Sound, SignalOf, RoundsOf, LedgerOf
<1>5. QED
  BY <1>1, <1>2, <1>3, <1>4, BeginRoundKeeps

(* ToolReturns: another round begins only while one is left.               *)
LEMMA ToolReturnsKeeps ==
  ASSUME IInv, NEW r \in Requests, ToolReturns(r)
  PROVE  IInv'
<1> USE ChatAssumption
<1> DEFINE q == [chat[r] EXCEPT !.calls = @ - 1]
           n == [q EXCEPT !.round = @ + 1]
<1>1. chat[r] \in ChatRecords /\ Sound(chat[r], phase[r], fired[r], answer[r])
  BY Known
<1>2. chat[r].pc = "tooling" /\ UNCHANGED quota
  BY <1>1 DEF ToolReturns, ChatRecords
<1>3. /\ chat[r].native /\ phase[r] = "idle" /\ chat[r].deaf = 0
      /\ chat[r].dispatches = chat[r].round + 1 /\ chat[r].round < MaxRounds - 1
      /\ chat[r].calls # 0
  BY <1>1, <1>2 DEF Sound, SeatOf, SignalOf, RoundsOf
<1>4. q \in ChatRecords
  <2>1. chat[r].calls - 1 \in 0..MaxCalls
    BY <1>1, <1>3 DEF ChatRecords
  <2>2. QED
    BY <1>1, <2>1 DEF ChatRecords
<1>5. CASE q.calls > 0
  <2>1. Step(r, q) /\ UNCHANGED dispatchVars
    BY <1>5 DEF ToolReturns
  <2>2. SeatOf(q, phase[r], answer[r]) /\ SignalOf(q, fired[r], answer[r])
    BY <1>1, <1>2 DEF ChatRecords, Sound, SeatOf, SignalOf
  <2>3. RoundsOf(q) /\ LedgerOf(q)
    BY <1>1, <1>2, <1>5 DEF ChatRecords, Sound, SeatOf, RoundsOf, WithinBudget, LedgerOf
  <2>4. BookedOf(q)
    BY <1>1, <1>2 DEF ChatRecords, BookedOf
  <2>5. QED
    BY <1>2, <1>4, <2>1, <2>2, <2>3, <2>4, Stays, StepKeeps, Known DEF Sound
<1>6. CASE ~(q.calls > 0)
  <2>1. BeginRound(r, n)
    BY <1>6 DEF ToolReturns
  <2>2. n \in ChatRecords /\ n.here = chat[r].here /\ n.native
    <3>1. chat[r].round + 1 \in 0..MaxRounds
      BY <1>1, <1>3 DEF ChatRecords
    <3>2. q.round = chat[r].round /\ q.here = chat[r].here /\ q.native
      BY <1>1, <1>3 DEF ChatRecords
    <3> HIDE DEF q
    <3>3. QED
      BY <1>4, <3>1, <3>2 DEF ChatRecords
  <2>3. Ready(n)
    BY <1>1, <1>2, <1>3 DEF ChatRecords, Ready, Sound, LedgerOf
  <2>4. QED
    BY <1>2, <1>3, <2>1, <2>2, <2>3, BeginRoundKeeps
<1>7. QED
  BY <1>5, <1>6

(* RoundAnswered: the totals grow with what was reported, and the last     *)
(* round ends the loop.                                                    *)
LEMMA RoundAnsweredKeeps ==
  ASSUME IInv, NEW r \in Requests, RoundAnswered(r)
  PROVE  IInv'
<1> USE ChatAssumption
<1> DEFINE q(t) == [chat[r] EXCEPT !.lastConn = answer[r].conn, !.tokens = @ + t,
                                   !.reported = @ + t]
<1>1. PICK t \in Tokens, calls \in 0..MaxCalls :
        Step(r, IF calls = 0 \/ q(t).round = MaxRounds - 1
                THEN Finish(q(t))
                ELSE [q(t) EXCEPT !.pc = "tooling", !.calls = calls])
  BY DEF RoundAnswered
<1>2. /\ TakeAnswer(r) /\ answer[r].kind = "ok" /\ chat[r].native
      /\ quota' = quota
  BY DEF RoundAnswered, Served
<1>3. /\ Closing(chat[r], fired'[r]) /\ answer[r].conn \in Conns
      /\ chat[r].pc = "dispatching" /\ chat[r].here /\ chat[r].deaf = 0
      /\ chat[r].response = "none"
      /\ phase'[r] = "idle" /\ answer'[r].kind = "none" /\ fired'[r] \in BOOLEAN
      /\ Failover!PromiseTypeOK' /\ Elsewhere(r)
  BY <1>2, Taken
<1>4. chat[r] \in ChatRecords /\ t \in Nat /\ quota' \in [Conns -> Nat]
  BY <1>2, Known DEF Tokens
<1>5. /\ chat[r].tokens = chat[r].reported /\ ~chat[r].relayed
      /\ chat[r].round < MaxRounds
      /\ chat[r].dispatches = chat[r].round + 1
  BY <1>2, <1>3, Known DEF Sound, LedgerOf, RoundsOf
<1> DEFINE p == q(t)
<1>6. p \in ChatRecords
  <2>1. chat[r].tokens + t \in Nat /\ chat[r].reported + t \in Nat
    <3>1. chat[r].tokens \in Nat /\ chat[r].reported \in Nat
      BY <1>4 DEF ChatRecords
    <3>2. QED
      BY <1>4, <3>1
  <2>2. answer[r].conn \in 0..NConns
    BY <1>3 DEF Conns
  <2>3. QED
    BY <1>4, <2>1, <2>2 DEF ChatRecords
<1>7. /\ p.pc = "dispatching" /\ p.native /\ p.here /\ p.deaf = 0
      /\ p.rows = <<>> /\ p.response = "none" /\ p.lastConn \in Conns
      /\ p.tokens = p.reported /\ ~p.relayed /\ Counted(p) = p.tokens
      /\ p.round = chat[r].round
      /\ p.dispatches = p.round + 1 /\ p.round < MaxRounds
      /\ Closing(p, fired'[r])
  BY <1>2, <1>3, <1>4, <1>5 DEF ChatRecords, Closing, WithinBudget, Counted
<1> HIDE DEF q
<1>8. CASE calls = 0 \/ p.round = MaxRounds - 1
  <2>1. Step(r, Respond(Log(p, p.lastConn, p.tokens, FALSE), "200"))
    BY <1>1, <1>8 DEF Finish
  <2>2. p.tokens \in Nat /\ p.lastConn \in 0..NConns
    BY <1>6 DEF ChatRecords
  <2>3. /\ Respond(Log(p, p.lastConn, p.tokens, FALSE), "200") \in ChatRecords
        /\ Sound(Respond(Log(p, p.lastConn, p.tokens, FALSE), "200"),
                 "idle", fired'[r], answer'[r])
    BY <1>3, <1>6, <1>7, <2>2, LogSound
  <2>4. QED
    BY <1>3, <1>4, <2>1, <2>3, StepKeeps
<1>9. CASE ~(calls = 0 \/ p.round = MaxRounds - 1)
  <2> DEFINE n == [p EXCEPT !.pc = "tooling", !.calls = calls]
  <2>1. Step(r, n)
    BY <1>1, <1>9
  <2>2. n \in ChatRecords
    BY <1>6 DEF ChatRecords
  <2>3. SeatOf(n, phase'[r], answer'[r]) /\ SignalOf(n, fired'[r], answer'[r])
    BY <1>3, <1>6, <1>7 DEF ChatRecords, SeatOf, SignalOf
  <2>4. RoundsOf(n)
    BY <1>6, <1>7, <1>9 DEF ChatRecords, RoundsOf, WithinBudget
  <2>5. LedgerOf(n) /\ BookedOf(n)
    BY <1>6, <1>7 DEF ChatRecords, LedgerOf, BookedOf
  <2>6. QED
    BY <1>3, <1>4, <2>1, <2>2, <2>3, <2>4, <2>5, StepKeeps DEF Sound
<1>10. QED
  BY <1>8, <1>9

(* A step that changes nothing of the request's record.                    *)
LEMMA RecordStays ==
  ASSUME IInv, NEW r \in Requests, UNCHANGED <<chat, quota>>,
         Failover!PromiseTypeOK', Elsewhere(r),
         Sound(chat[r], phase'[r], fired'[r], answer'[r])
  PROVE  IInv'
<1>1. Step(r, chat[r])
  BY DEF Step, IInv, TypeOK
<1>2. QED
  BY <1>1, StepKeeps, Known

(* Settle: a dispatch that heard the signal does not succeed.              *)
LEMMA SettleKeeps ==
  ASSUME IInv, NEW r \in Requests, Settle(r)
  PROVE  IInv'
<1> USE ChatAssumption DEF Conns, Failover!Conns
<1>1. chat[r] \in ChatRecords /\ Sound(chat[r], phase[r], fired[r], answer[r])
  BY Known
<1>2. phase[r] = "open" /\ answer[r].kind = "none" /\ UNCHANGED <<chat, quota, fired>>
  BY <1>1 DEF Settle, Failover!Withdraw, Failover!Serve, Failover!Fail,
              Failover!Close, Sound, SeatOf
<1>3. CASE Failover!Withdraw(r)
  <2>1. Failover!PromiseTypeOK' /\ Elsewhere(r)
    BY <1>3 DEF IInv, TypeOK, Failover!PromiseTypeOK, Failover!Withdraw, Elsewhere
  <2>2. phase'[r] = phase[r] /\ fired'[r] = fired[r] /\ answer'[r] = answer[r]
    BY <1>3 DEF Failover!Withdraw
  <2>3. QED
    BY <1>1, <1>2, <2>1, <2>2, RecordStays
<1>4. CASE Failover!Serve(r) \/ Failover!Fail(r)
  <2>1. PICK c \in offered[r], kind \in {"ok", "aborted", "threw", "failed"} :
          Failover!Close(r, kind, c) /\ (kind = "ok" => ~fired[r])
    BY <1>4 DEF Failover!Serve, Failover!Fail
  <2>2. c \in Conns
    BY DEF IInv, TypeOK, Failover!PromiseTypeOK
  <2>3. Failover!PromiseTypeOK' /\ Elsewhere(r)
    BY <2>1, <2>2 DEF IInv, TypeOK, Failover!PromiseTypeOK, Failover!Close,
                      Failover!Kinds, Elsewhere
  <2>4. /\ phase'[r] = "answered" /\ fired'[r] = fired[r]
        /\ answer'[r] = [kind |-> kind, conn |-> c]
    BY <2>1 DEF Failover!Close, IInv, TypeOK, Failover!PromiseTypeOK
  <2>5. Sound(chat[r], phase'[r], fired'[r], answer'[r])
    BY <1>1, <1>2, <2>1, <2>2, <2>4 DEF Sound, SeatOf, SignalOf
  <2>6. QED
    BY <1>2, <2>3, <2>5, RecordStays
<1>5. QED
  BY <1>3, <1>4 DEF Settle

(* Hangup: the signal fires with the client.                               *)
LEMMA HangupKeeps ==
  ASSUME IInv, NEW r \in Requests, Hangup(r)
  PROVE  IInv'
<1> DEFINE q == [chat[r] EXCEPT !.here = FALSE]
<1>1. chat[r] \in ChatRecords /\ Sound(chat[r], phase[r], fired[r], answer[r])
  BY Known
<1>2. /\ chat[r].pc \in {"preparing", "toolset", "dispatching", "tooling"}
      /\ chat[r].here /\ phase[r] # "answered" /\ Step(r, q)
      /\ quota' = quota
  BY DEF Hangup
<1>3. /\ Failover!PromiseTypeOK' /\ Elsewhere(r)
      /\ phase'[r] = phase[r] /\ fired'[r] /\ answer'[r] = answer[r]
  <2>1. CASE fired[r]
    BY <2>1, Stays DEF Hangup
  <2>2. CASE ~fired[r]
    BY <2>2, Fires DEF Hangup
  <2>3. QED
    BY <2>1, <2>2
<1>4. q \in ChatRecords
  BY <1>1 DEF ChatRecords
<1>5. SeatOf(q, phase'[r], answer'[r])
  BY <1>1, <1>3 DEF ChatRecords, Sound, SeatOf
<1>6. SignalOf(q, fired'[r], answer'[r])
  BY <1>1, <1>2, <1>3 DEF ChatRecords, Sound, SeatOf, SignalOf
<1>7. RoundsOf(q) /\ LedgerOf(q)
  BY <1>1 DEF ChatRecords, Sound, RoundsOf, WithinBudget, LedgerOf
<1>8. BookedOf(q)
  BY <1>1, <1>2 DEF ChatRecords, BookedOf
<1>9. QED
  BY <1>2, <1>3, <1>4, <1>5, <1>6, <1>7, <1>8, StepKeeps, Known DEF Sound

(* RoundTimeout: the timer fires the same signal.                          *)
LEMMA RoundTimeoutKeeps ==
  ASSUME IInv, NEW r \in Requests, RoundTimeout(r)
  PROVE  IInv'
<1>1. chat[r] \in ChatRecords /\ Sound(chat[r], phase[r], fired[r], answer[r])
  BY Known
<1>2. /\ Failover!PromiseTypeOK' /\ Elsewhere(r)
      /\ phase'[r] = phase[r] /\ fired'[r] = TRUE /\ answer'[r] = answer[r]
      /\ phase[r] # "answered"
  BY Fires DEF RoundTimeout
<1>3. Sound(chat[r], phase'[r], fired'[r], answer'[r])
  BY <1>1, <1>2 DEF Sound, SeatOf, SignalOf
<1>4. QED
  BY <1>2, <1>3, RecordStays DEF RoundTimeout

(* DeadlinePasses: the deadline is looked at between rounds only.          *)
LEMMA DeadlinePassesKeeps ==
  ASSUME IInv, NEW r \in Requests, DeadlinePasses(r)
  PROVE  IInv'
<1> DEFINE q == [chat[r] EXCEPT !.late = TRUE]
<1>1. chat[r] \in ChatRecords /\ Sound(chat[r], phase[r], fired[r], answer[r])
  BY Known
<1>2. /\ chat[r].pc \in {"dispatching", "tooling"} /\ Step(r, q)
      /\ UNCHANGED <<dispatchVars, quota>>
  BY DEF DeadlinePasses
<1>3. q \in ChatRecords
  BY <1>1 DEF ChatRecords
<1>4. SeatOf(q, phase[r], answer[r]) /\ SignalOf(q, fired[r], answer[r])
  BY <1>1 DEF ChatRecords, Sound, SeatOf, SignalOf
<1>5. RoundsOf(q) /\ LedgerOf(q)
  BY <1>1 DEF ChatRecords, Sound, RoundsOf, WithinBudget, LedgerOf
<1>6. BookedOf(q)
  BY <1>1, <1>2 DEF ChatRecords, BookedOf
<1>7. QED
  BY <1>2, <1>3, <1>4, <1>5, <1>6, Stays, StepKeeps, Known DEF Sound

-----------------------------------------------------------------------------
LEMMA InitKeeps == Init => IInv
<1> USE ChatAssumption DEF Conns, Failover!Conns
<1> SUFFICES ASSUME Init
             PROVE  IInv
  OBVIOUS
<1>1. Failover!PromiseTypeOK
  BY DEF Init, Failover!Init, Failover!PromiseTypeOK, Failover!NotAnswered, Failover!Kinds
<1>2. Arrived \in ChatRecords
  BY DEF Arrived, ChatRecords, Responses
<1>3. TypeOK
  BY <1>1, <1>2 DEF Init, TypeOK
<1>4. ASSUME NEW r \in Requests
      PROVE  Sound(Arrived, "idle", FALSE, Failover!NotAnswered)
  BY DEF Arrived, Failover!NotAnswered, Sound, SeatOf, SignalOf, RoundsOf,
         WithinBudget, LedgerOf, BookedOf
<1>5. QED
  BY <1>3, <1>4 DEF IInv, Init, Failover!Init

(* Every step keeps the invariant.                                         *)
LEMMA NextKeeps ==
  ASSUME IInv, [Next]_vars
  PROVE  IInv'
<1>1. CASE UNCHANGED vars
  BY <1>1 DEF vars, IInv, TypeOK, Failover!PromiseTypeOK, Sound, SeatOf, SignalOf,
              RoundsOf, WithinBudget, LedgerOf, BookedOf
<1>2. ASSUME NEW r \in Requests, Handle(r)
      PROVE  IInv'
  BY <1>2, RejectKeeps, DispatchOnceKeeps, AwaitToolSetKeeps, DispatchFailedKeeps,
     AnswerJsonKeeps, AnswerUnreadableKeeps, AnswerStreamKeeps, ToolSetReadyKeeps,
     RoundAnsweredKeeps, ToolReturnsKeeps, SettleKeeps DEF Handle
<1>3. QED
  BY <1>1, <1>2, ReceiveKeeps, StreamReportsKeeps, StreamEndsKeeps, HangupKeeps,
     RoundTimeoutKeeps, DeadlinePassesKeeps DEF Next, AllDone

(* Type correctness.                                                       *)
THEOREM TypeCorrect == Spec => []TypeOK
<1>1. IInv => TypeOK
  BY DEF IInv
<1>2. QED
  BY <1>1, InitKeeps, NextKeeps, PTL DEF Spec

(* The usage row, or its absence, is the one that belongs to the answer,   *)
(* and there are never two (handleChat's six calls of logUsage).  A 503    *)
(* has its error row in native mode and none on the single-shot path.      *)
THEOREM RowsMatchAnswers == Spec => []RowsTellTheAnswer
<1>1. IInv => RowsTellTheAnswer
  <2> SUFFICES ASSUME IInv, NEW r \in Requests
               PROVE  LET q == chat[r]
                          failed == {"failed", "504", "unresolved"} \cup
                                      (IF q.native THEN {"503"} ELSE {})
                      IN /\ Len(q.rows) <= 1
                         /\ q.pc # "done" => q.rows = <<>>
                         /\ q.response \in {"499", "500", "503", "rejected"} \ failed
                              => q.rows = <<>>
                         /\ q.pc = "done" /\ q.response = "200"
                              => Len(q.rows) = 1 /\ q.rows[1].conn \in Conns
                         /\ q.response \in failed => Len(q.rows) = 1 /\ q.rows[1].error
    BY DEF RowsTellTheAnswer
  <2>1. LedgerOf(chat[r]) /\ BookedOf(chat[r])
    BY Known DEF Sound
  <2>2. Len(<<>>) = 0
    OBVIOUS
  <2>3. CASE chat[r].pc = "done"
    <3>1. /\ chat[r].response \in Unlogged => chat[r].rows = <<>>
          /\ chat[r].response = "503" => (chat[r].rows # <<>> <=> chat[r].native)
          /\ chat[r].response \notin Unlogged \cup {"503"} => chat[r].rows # <<>>
          /\ chat[r].response # "unresolved"
      BY <2>1, <2>3 DEF BookedOf
    <3>2. CASE chat[r].rows = <<>>
      BY <2>2, <2>3, <3>1, <3>2 DEF Unlogged
    <3>3. CASE chat[r].rows # <<>>
      <4>1. /\ Len(chat[r].rows) = 1
            /\ chat[r].response = "200" => chat[r].rows[1].conn \in Conns
            /\ chat[r].response \in {"failed", "503", "504"} => chat[r].rows[1].error
        BY <2>1, <2>3, <3>3 DEF BookedOf
      <4>2. /\ chat[r].response \notin Unlogged \cup {"unresolved"}
            /\ chat[r].response = "503" => chat[r].native
        BY <3>1, <3>3
      <4>3. QED
        BY <2>3, <4>1, <4>2 DEF Unlogged
    <3>4. QED
      BY <3>2, <3>3
  <2>4. CASE chat[r].pc # "done"
    BY <2>1, <2>2, <2>4 DEF LedgerOf
  <2>5. QED
    BY <2>3, <2>4
<1>2. QED
  BY <1>1, InitKeeps, NextKeeps, PTL DEF Spec

(* A row without an error has all tokens that upstreams reported, over all *)
(* rounds of the tool loop (loop.ts: totals).  The row of an OpenAI-shaped *)
(* stream has none, as handleChat.ts:475-477 admits.                       *)
THEOREM SuccessIsAccounted == Spec => []SuccessTokensComplete
<1>1. IInv => SuccessTokensComplete
  <2> SUFFICES ASSUME IInv, NEW r \in Requests, NEW i \in 1..Len(chat[r].rows),
                      ~chat[r].rows[i].error
               PROVE  chat[r].rows[i].tokens = Counted(chat[r])
    BY DEF SuccessTokensComplete, Counted
  <2>1. LedgerOf(chat[r]) /\ BookedOf(chat[r])
    BY Known DEF Sound
  <2>2. chat[r].rows # <<>>
    OBVIOUS
  <2>3. chat[r].pc = "done"
    BY <2>1, <2>2 DEF LedgerOf
  <2>4. i = 1
    BY <2>1, <2>2, <2>3 DEF BookedOf
  <2>5. QED
    BY <2>1, <2>2, <2>3, <2>4 DEF BookedOf
<1>2. QED
  BY <1>1, InitKeeps, NextKeeps, PTL DEF Spec

(* Once the client has gone at most one more dispatch begins (loop.ts).    *)
THEOREM HangupsEndLoops == Spec => []HangupEndsTheLoop
<1>1. IInv => HangupEndsTheLoop
  BY DEF IInv, Sound, SignalOf, HangupEndsTheLoop
<1>2. QED
  BY <1>1, InitKeeps, NextKeeps, PTL DEF Spec

(* The tool loop stays within its rounds and resolves (loop.ts).           *)
THEOREM RoundsAreBudgeted == Spec => []RoundBudget
<1>1. IInv => RoundBudget
  <2> SUFFICES ASSUME IInv, NEW r \in Requests
               PROVE  /\ chat[r].dispatches <= (IF chat[r].native THEN MaxRounds ELSE 1)
                      /\ chat[r].response # "unresolved"
    BY DEF RoundBudget
  <2>1. RoundsOf(chat[r]) /\ LedgerOf(chat[r]) /\ BookedOf(chat[r])
    BY Known DEF Sound
  <2>2. QED
    BY <2>1 DEF RoundsOf, WithinBudget, LedgerOf, BookedOf
<1>2. QED
  BY <1>1, InitKeeps, NextKeeps, PTL DEF Spec

-----------------------------------------------------------------------------
(* The quota windows.  TokensIn(c) only grows, by the tokens of the one    *)
(* row that a step writes: it is finite because it started out empty.      *)
BalancedOf(c) == IsFiniteSet(TokensIn(c)) /\ quota[c] = Cardinality(TokensIn(c))

Balanced == \A c \in Conns : BalancedOf(c)

(* A step that logs no tokens of a quota, and charges none.                *)
LEMMA UnloggedBalances ==
  ASSUME IInv, Balanced, NEW r \in Requests, NEW q \in ChatRecords, Step(r, q),
         UNCHANGED quota,
         \A c \in Conns : LoggedTokens(chat[r], c) = 0 /\ LoggedTokens(q, c) = 0
  PROVE  Balanced'
<1>1. chat' = [chat EXCEPT ![r] = q] /\ chat \in [Requests -> ChatRecords]
  BY DEF Step, IInv, TypeOK
<1>2. ASSUME NEW c \in Conns
      PROVE  TokensIn(c)' = TokensIn(c)
  <2>1. ASSUME NEW s \in Requests
        PROVE  LoggedTokens(chat'[s], c) = LoggedTokens(chat[s], c)
    <3>1. chat'[s] = IF s = r THEN q ELSE chat[s]
      BY <1>1
    <3>2. QED
      BY <3>1
  <2>2. QED
    BY <2>1 DEF TokensIn, TokensOf
<1>3. QED
  BY <1>2 DEF Balanced, BalancedOf

(* A step that logs t tokens of connection d, and charges them.            *)
LEMMA ChargedBalances ==
  ASSUME IInv, Balanced, NEW r \in Requests, NEW q \in ChatRecords, Step(r, q),
         NEW d \in Conns, NEW t \in Nat, Charge(d, t),
         \A c \in Conns : LoggedTokens(chat[r], c) = 0,
         \A c \in Conns : LoggedTokens(q, c) = IF c = d THEN t ELSE 0
  PROVE  Balanced'
<1>1. chat' = [chat EXCEPT ![r] = q] /\ chat \in [Requests -> ChatRecords]
  BY DEF Step, IInv, TypeOK
<1>2. quota' = [quota EXCEPT ![d] = @ + t] /\ quota \in [Conns -> Nat]
  BY DEF Charge, IInv, TypeOK
<1>3. ASSUME NEW c \in Conns
      PROVE  TokensIn(c)' = TokensIn(c) \cup (IF c = d THEN {r} \X (1..t) ELSE {})
  <2>1. ASSUME NEW s \in Requests
        PROVE  TokensOf(s, c)' = IF s = r THEN {r} \X (1..(IF c = d THEN t ELSE 0))
                                 ELSE TokensOf(s, c)
    <3>1. chat'[s] = IF s = r THEN q ELSE chat[s]
      BY <1>1
    <3>2. QED
      BY <3>1 DEF TokensOf
  <2>2. TokensOf(r, c) = {}
    <3>1. 1..LoggedTokens(chat[r], c) = {}
      OBVIOUS
    <3>2. QED
      BY <3>1 DEF TokensOf
  <2>3. {r} \X (1..(IF c = d THEN t ELSE 0)) = IF c = d THEN {r} \X (1..t) ELSE {}
    <3>1. 1..0 = {}
      OBVIOUS
    <3>2. QED
      BY <3>1
  <2>4. QED
    BY <2>1, <2>2, <2>3 DEF TokensIn
<1>4. IsFiniteSet({r} \X (1..t)) /\ Cardinality({r} \X (1..t)) = t
  <2>1. IsFiniteSet(1..t) /\ Cardinality(1..t) = t
    BY FS_Interval
  <2>2. IsFiniteSet({r}) /\ Cardinality({r}) = 1
    BY FS_Singleton
  <2>3. QED
    BY <2>1, <2>2, FS_Product
<1>5. TokensIn(d) \cap ({r} \X (1..t)) = {}
  <2>1. ASSUME NEW s \in Requests
        PROVE  TokensOf(s, d) \cap ({r} \X (1..t)) = {}
    <3>1. CASE s = r
      <4>1. 1..LoggedTokens(chat[r], d) = {}
        OBVIOUS
      <4>2. QED
        BY <3>1, <4>1 DEF TokensOf
    <3>2. CASE s # r
      BY <3>2 DEF TokensOf
    <3>3. QED
      BY <3>1, <3>2
  <2>2. QED
    BY <2>1 DEF TokensIn
<1>6. BalancedOf(d)'
  <2>1. IsFiniteSet(TokensIn(d)) /\ quota[d] = Cardinality(TokensIn(d))
    BY DEF Balanced, BalancedOf
  <2>2. TokensIn(d)' = TokensIn(d) \cup ({r} \X (1..t))
    BY <1>3
  <2>3. /\ IsFiniteSet(TokensIn(d)')
        /\ Cardinality(TokensIn(d)') = Cardinality(TokensIn(d)) + t - Cardinality({})
    <3> DEFINE old == TokensIn(d)
               gain == {r} \X (1..t)
    <3>1. /\ IsFiniteSet(old) /\ IsFiniteSet(gain) /\ old \cap gain = {}
          /\ Cardinality(gain) = t /\ TokensIn(d)' = old \cup gain
      BY <1>4, <1>5, <2>1, <2>2
    <3> HIDE DEF old, gain
    <3>2. /\ IsFiniteSet(old \cup gain)
          /\ Cardinality(old \cup gain) =
               Cardinality(old) + Cardinality(gain) - Cardinality(old \cap gain)
      BY <3>1, FS_Union
    <3>3. QED
      BY <3>1, <3>2 DEF old
  <2>4. quota'[d] = quota[d] + t
    BY <1>2
  <2>5. quota[d] \in Nat
    BY <1>2
  <2>6. QED
    BY <2>1, <2>3, <2>4, <2>5, FS_EmptySet DEF BalancedOf
<1>7. ASSUME NEW c \in Conns, c # d
      PROVE  BalancedOf(c)'
  <2>1. TokensIn(c)' = TokensIn(c) /\ quota'[c] = quota[c]
    BY <1>2, <1>3, <1>7
  <2>2. QED
    BY <2>1 DEF Balanced, BalancedOf
<1>8. QED
  BY <1>6, <1>7 DEF Balanced

(* Before its answer a request has no row, hence no tokens.                *)
LEMMA NothingLogged ==
  ASSUME IInv, NEW r \in Requests, chat[r].pc # "done"
  PROVE  /\ chat[r] \in ChatRecords /\ chat[r].rows = <<>>
         /\ \A c \in Conns : LoggedTokens(chat[r], c) = 0
BY Known DEF Sound, LedgerOf, LoggedTokens

(* A record without a row, of a native request, or with a row of nothing.  *)
Tokenless(q) == q.native \/ q.rows = <<>> \/ q.rows[1].tokens = 0

LEMMA TokenlessBalances ==
  ASSUME IInv, Balanced, NEW r \in Requests, NEW q, q \in ChatRecords, Step(r, q),
         UNCHANGED quota, chat[r].pc # "done", Tokenless(q)
  PROVE  Balanced'
<1>1. \A c \in Conns : LoggedTokens(q, c) = 0
  BY DEF Tokenless, LoggedTokens
<1>2. QED
  BY <1>1, NothingLogged, UnloggedBalances

(* What Respond and Log make of a record.                                  *)
LEMMA RespondForm ==
  ASSUME NEW q \in ChatRecords, NEW x \in Responses
  PROVE  /\ Respond(q, x) \in ChatRecords
         /\ Respond(q, x).rows = q.rows /\ Respond(q, x).native = q.native
BY DEF Respond, ChatRecords

LEMMA LogForm ==
  ASSUME NEW q \in ChatRecords, q.rows = <<>>, NEW c \in 0..NConns, NEW t \in Nat,
         NEW e \in BOOLEAN
  PROVE  /\ Log(q, c, t, e) \in ChatRecords
         /\ Log(q, c, t, e).rows = <<[conn |-> c, tokens |-> t, error |-> e]>>
         /\ Log(q, c, t, e).rows[1].tokens = t
         /\ Log(q, c, t, e).native = q.native
<1> DEFINE row == [conn |-> c, tokens |-> t, error |-> e]
<1>1. row \in Rows
  BY DEF Rows
<1>2. Append(q.rows, row) = <<row>> /\ <<row>> \in Seq(Rows) /\ <<row>>[1] = row
  BY <1>1
<1>3. row.tokens = t
  OBVIOUS
<1> HIDE DEF row
<1>4. Log(q, c, t, e) = [q EXCEPT !.rows = <<row>>]
  BY <1>2 DEF Log, row
<1>5. [q EXCEPT !.rows = <<row>>] \in ChatRecords /\ [q EXCEPT !.rows = <<row>>].rows = <<row>>
      /\ [q EXCEPT !.rows = <<row>>].native = q.native
  BY <1>2 DEF ChatRecords
<1>6. QED
  BY <1>2, <1>3, <1>4, <1>5 DEF row
(* What the answer of an upstream that did not serve makes of a record.    *)
LEMMA RefusalTokenless ==
  ASSUME NEW q \in ChatRecords, q.rows = <<>>, NEW a, a.conn \in 0..NConns,
         a.kind \in {"aborted", "threw", "noCandidates", "failed"}
  PROVE  /\ Refusal(q, a) \in ChatRecords /\ Tokenless(Refusal(q, a))
         /\ NativeRefusal(q, a) \in ChatRecords /\ Tokenless(NativeRefusal(q, a))
<1> DEFINE m == Log(q, a.conn, 0, TRUE)
<1>1. m \in ChatRecords /\ m.rows[1].tokens = 0
  BY LogForm
<1> HIDE DEF m
<1>2. ASSUME NEW x \in {"499", "500", "503", "failed"}
      PROVE  /\ Respond(q, x) \in ChatRecords /\ Tokenless(Respond(q, x))
             /\ Respond(m, x) \in ChatRecords /\ Tokenless(Respond(m, x))
  BY <1>1, RespondForm DEF Tokenless, Responses
<1>3. QED
  BY <1>2 DEF Refusal, NativeRefusal, m

LEMMA DispatchFailedBalances ==
  ASSUME IInv, Balanced, NEW r \in Requests, DispatchFailed(r)
  PROVE  Balanced'
<1>1. /\ chat[r].pc = "dispatching" /\ answer[r].kind # "ok" /\ TakeAnswer(r)
      /\ UNCHANGED quota
  BY DEF DispatchFailed
<1>2. answer[r].kind # "none" /\ answer[r].conn \in 0..NConns
  BY <1>1, Taken, Known
<1>3. answer[r].kind \in {"aborted", "threw", "noCandidates", "failed"}
  BY <1>1, <1>2 DEF IInv, TypeOK, Failover!PromiseTypeOK, Failover!Kinds
<1>4. chat[r] \in ChatRecords /\ chat[r].rows = <<>>
  BY <1>1, NothingLogged
<1>5. QED
  BY <1>1, <1>2, <1>3, <1>4, RefusalTokenless, TokenlessBalances DEF DispatchFailed

(* A row of t tokens of connection d, outside the tool loop.               *)
LEMMA RowCharged ==
  ASSUME IInv, Balanced, NEW r \in Requests, chat[r].pc # "done",
         NEW q \in ChatRecords, q.rows = <<>>, ~q.native,
         NEW d \in Conns, NEW t \in Nat, NEW e \in BOOLEAN,
         Step(r, Respond(Log(q, d, t, e), "200")), Charge(d, t)
  PROVE  Balanced'
<1> DEFINE m == Log(q, d, t, e)
           p == Respond(m, "200")
<1>1. /\ m \in ChatRecords /\ ~m.native
      /\ m.rows = <<[conn |-> d, tokens |-> t, error |-> e]>>
  BY LogForm DEF Conns
<1> HIDE DEF m
<1>2. p \in ChatRecords /\ p.rows = m.rows /\ ~p.native
  BY <1>1, RespondForm DEF Responses
<1> HIDE DEF p
<1>3. \A c \in Conns : LoggedTokens(p, c) = IF c = d THEN t ELSE 0
  BY <1>1, <1>2 DEF LoggedTokens
<1>4. Step(r, p)
  BY DEF p, m
<1>5. QED
  BY <1>2, <1>3, <1>4, NothingLogged, ChargedBalances

LEMMA AnswerJsonBalances ==
  ASSUME IInv, Balanced, NEW r \in Requests, AnswerJson(r)
  PROVE  Balanced'
<1>1. PICK t \in Tokens :
        /\ Step(r, Respond(Log([chat[r] EXCEPT !.reported = t], answer[r].conn, t, FALSE),
                           "200"))
        /\ Charge(answer[r].conn, t)
  BY DEF AnswerJson
<1>2. TakeAnswer(r) /\ answer[r].kind = "ok" /\ ~chat[r].native
  BY DEF AnswerJson, Served
<1>3. chat[r].pc = "dispatching" /\ answer[r].conn \in Conns
  BY <1>2, Taken
<1>4. chat[r] \in ChatRecords /\ chat[r].rows = <<>>
  BY <1>3, NothingLogged
<1> DEFINE q == [chat[r] EXCEPT !.reported = t]
<1>5. t \in Nat
  BY ChatAssumption DEF Tokens
<1>6. q \in ChatRecords /\ q.rows = <<>> /\ ~q.native
  BY <1>2, <1>4, <1>5 DEF ChatRecords
<1>7. QED
  BY <1>1, <1>3, <1>5, <1>6, RowCharged

LEMMA StreamEndsBalances ==
  ASSUME IInv, Balanced, NEW r \in Requests, StreamEnds(r)
  PROVE  Balanced'
<1>1. PICK error \in BOOLEAN, t \in {chat[r].reported, 0} :
        /\ Step(r, Respond(Log(chat[r], chat[r].lastConn, t, error), "200"))
        /\ Charge(chat[r].lastConn, t)
  BY DEF StreamEnds
<1>2. chat[r].pc = "streaming"
  BY DEF StreamEnds
<1>3. chat[r] \in ChatRecords /\ chat[r].rows = <<>>
  BY <1>2, NothingLogged
<1>4. ~chat[r].native /\ chat[r].lastConn \in Conns /\ t \in Nat
  BY <1>2, <1>3, Known DEF Sound, SeatOf, ChatRecords
<1>5. QED
  BY <1>1, <1>2, <1>3, <1>4, RowCharged

LEMMA AnswerUnreadableBalances ==
  ASSUME IInv, Balanced, NEW r \in Requests, AnswerUnreadable(r)
  PROVE  Balanced'
<1>1. /\ TakeAnswer(r) /\ answer[r].kind = "ok" /\ UNCHANGED quota
      /\ \/ Step(r, Respond(chat[r], "500"))
         \/ Step(r, Respond(Log(chat[r], answer[r].conn, 0, FALSE), "200"))
  BY DEF AnswerUnreadable, Served
<1>2. chat[r].pc = "dispatching" /\ answer[r].conn \in 0..NConns
  BY <1>1, Taken, Known
<1>3. chat[r] \in ChatRecords /\ chat[r].rows = <<>>
  BY <1>2, NothingLogged
<1> DEFINE m == Log(chat[r], answer[r].conn, 0, FALSE)
<1>4. m \in ChatRecords /\ m.rows[1].tokens = 0
  BY <1>2, <1>3, LogForm
<1> HIDE DEF m
<1>5. /\ Respond(chat[r], "500") \in ChatRecords /\ Tokenless(Respond(chat[r], "500"))
      /\ Respond(m, "200") \in ChatRecords /\ Tokenless(Respond(m, "200"))
  BY <1>3, <1>4, RespondForm DEF Tokenless, Responses
<1>6. QED
  BY <1>1, <1>2, <1>5, TokenlessBalances DEF m

LEMMA AnswerStreamBalances ==
  ASSUME IInv, Balanced, NEW r \in Requests, AnswerStream(r)
  PROVE  Balanced'
<1> DEFINE p == [chat[r] EXCEPT !.pc = "streaming", !.response = "200",
                                !.lastConn = answer[r].conn]
           q(t) == [chat[r] EXCEPT !.relayed = TRUE, !.reported = t]
           m(t) == Log(q(t), answer[r].conn, 0, FALSE)
<1>1. /\ TakeAnswer(r) /\ answer[r].kind = "ok" /\ UNCHANGED quota
      /\ Step(r, p) \/ \E t \in Tokens : Step(r, Respond(m(t), "200"))
  BY DEF AnswerStream, Served
<1>2. chat[r].pc = "dispatching" /\ answer[r].conn \in 0..NConns
  BY <1>1, Taken, Known
<1>3. chat[r] \in ChatRecords /\ chat[r].rows = <<>>
  BY <1>2, NothingLogged
<1>4. p \in ChatRecords /\ Tokenless(p)
  BY <1>2, <1>3 DEF Tokenless, ChatRecords, Responses
<1>5. ASSUME NEW t \in Tokens
      PROVE  Respond(m(t), "200") \in ChatRecords /\ Tokenless(Respond(m(t), "200"))
  <2>1. q(t) \in ChatRecords /\ q(t).rows = <<>>
    <3>1. t \in Nat
      BY ChatAssumption DEF Tokens
    <3>2. QED
      BY <1>3, <3>1 DEF ChatRecords
  <2> HIDE DEF q
  <2>2. m(t) \in ChatRecords /\ m(t).rows[1].tokens = 0
    BY <1>2, <2>1, LogForm
  <2> HIDE DEF m
  <2>3. QED
    BY <2>2, RespondForm DEF Tokenless, Responses
<1> HIDE DEF p, m
<1>6. QED
  BY <1>1, <1>2, <1>4, <1>5, TokenlessBalances

(* The top of the loop: a native request stays one.                        *)
LEMMA NativeBalances ==
  ASSUME IInv, Balanced, NEW r \in Requests, NEW q, chat[r].native, q.native,
         Step(r, q), q \in ChatRecords, UNCHANGED quota
  PROVE  Balanced'
<1>1. \A c \in Conns : LoggedTokens(chat[r], c) = 0 /\ LoggedTokens(q, c) = 0
  BY DEF LoggedTokens
<1>2. QED
  BY <1>1, UnloggedBalances

(* Every step keeps the balance: it ends in a record that the invariant    *)
(* after the step types, and which is native, or without a row, or whose   *)
(* row was charged.                                                        *)
LEMMA NextBalances ==
  ASSUME IInv, IInv', Balanced, [Next]_vars
  PROVE  Balanced'
<1>1. ASSUME UNCHANGED <<chat, quota>>
      PROVE  Balanced'
  BY <1>1 DEF Balanced, BalancedOf, TokensIn, TokensOf
<1>2. ASSUME NEW r \in Requests, NEW q, Step(r, q)
      PROVE  q = chat'[r] /\ q \in ChatRecords
  BY <1>2 DEF IInv, TypeOK, Step
<1>3. ASSUME NEW r \in Requests, NEW q, Step(r, q), UNCHANGED quota,
             chat[r].pc # "done", q.native \/ q.rows = chat[r].rows
      PROVE  Balanced'
  <2>1. q \in ChatRecords /\ chat[r].rows = <<>>
    BY <1>2, <1>3, NothingLogged
  <2>2. QED
    BY <1>3, <2>1, TokenlessBalances DEF Tokenless
<1>4. ASSUME NEW r \in Requests, NEW q, q.native, q \in ChatRecords, BeginRound(r, q),
             UNCHANGED quota, chat[r].pc # "done"
      PROVE  Balanced'
  <2>1. \E p : Step(r, p) /\ p.native
    <3>1. Step(r, Respond(Log(q, q.lastConn, 0, TRUE), "unresolved")) \/
          Step(r, Respond(Log(q, q.lastConn, 0, TRUE), "504")) \/
          Step(r, [q EXCEPT !.pc = "dispatching", !.dispatches = @ + 1,
                            !.deaf = IF q.here THEN @ ELSE @ + 1])
      BY <1>4 DEF BeginRound, BeginDispatch
    <3>2. "native" \in DOMAIN q
      BY <1>4 DEF ChatRecords
    <3>3. ASSUME NEW x
          PROVE  Respond(Log(q, q.lastConn, 0, TRUE), x).native
      BY <1>4, <3>2 DEF Respond, Log
    <3>4. [q EXCEPT !.pc = "dispatching", !.dispatches = @ + 1,
                    !.deaf = IF q.here THEN @ ELSE @ + 1].native
      BY <1>4, <3>2
    <3>5. QED
      BY <3>1, <3>3, <3>4
  <2>2. QED
    BY <1>3, <1>4, <2>1
<1>5. ASSUME NEW r \in Requests, Handle(r)
      PROVE  Balanced'
  <2>1. CASE Reject(r)
    BY <1>3, <2>1, Known DEF Reject, Respond, ChatRecords
  <2>2. CASE DispatchOnce(r)
    BY <1>3, <2>2, Known DEF DispatchOnce, BeginDispatch, ChatRecords
  <2>3. CASE AwaitToolSet(r)
    BY <1>3, <2>3, Known DEF AwaitToolSet, ChatRecords
  <2>4. CASE ToolSetReady(r)
    BY <1>4, <2>4, Known DEF ToolSetReady, Sound, SeatOf
  <2>5. CASE RoundAnswered(r)
    <3>1. PICK t \in Tokens, calls \in 0..MaxCalls :
            LET q == [chat[r] EXCEPT !.lastConn = answer[r].conn, !.tokens = @ + t,
                                     !.reported = @ + t]
            IN Step(r, IF calls = 0 \/ q.round = MaxRounds - 1
                       THEN Finish(q)
                       ELSE [q EXCEPT !.pc = "tooling", !.calls = calls])
      BY <2>5 DEF RoundAnswered
    <3>2. chat[r].native /\ UNCHANGED quota /\ chat[r].pc # "done"
      BY <2>5, Taken DEF RoundAnswered, Served
    <3>3. chat[r] \in ChatRecords
      BY Known
    <3> DEFINE q == [chat[r] EXCEPT !.lastConn = answer[r].conn, !.tokens = @ + t,
                                    !.reported = @ + t]
    <3>4. /\ Finish(q).native
          /\ [q EXCEPT !.pc = "tooling", !.calls = calls].native
      BY <3>2, <3>3 DEF Finish, Respond, Log, ChatRecords
    <3>5. QED
      BY <1>3, <3>1, <3>2, <3>4
  <2>6. CASE ToolReturns(r)
    <3> DEFINE q == [chat[r] EXCEPT !.calls = @ - 1]
               n == [q EXCEPT !.round = @ + 1]
    <3>1. chat[r] \in ChatRecords /\ Sound(chat[r], phase[r], fired[r], answer[r])
      BY Known
    <3>2. chat[r].pc = "tooling" /\ UNCHANGED quota
      BY <2>6, <3>1 DEF ToolReturns, ChatRecords
    <3>3. chat[r].native /\ q.native /\ n.native
      BY <3>1, <3>2 DEF Sound, SeatOf, ChatRecords
    <3>4. n \in ChatRecords
      <4>1. chat[r].calls - 1 \in 0..MaxCalls /\ chat[r].round + 1 \in 0..MaxRounds
        <5>1. /\ chat[r].calls \in 0..MaxCalls /\ chat[r].calls # 0
              /\ chat[r].round \in 0..MaxRounds /\ chat[r].round < MaxRounds - 1
          BY <3>1, <3>2 DEF Sound, RoundsOf, ChatRecords
        <5>2. QED
          BY <5>1, ChatAssumption
      <4>2. QED
        BY <3>1, <4>1 DEF ChatRecords
    <3>5. Step(r, q) \/ BeginRound(r, n)
      BY <2>6 DEF ToolReturns
    <3>6. QED
      BY <1>3, <1>4, <3>2, <3>3, <3>4, <3>5
  <2>7. QED
    BY <1>1, <1>5, <2>1, <2>2, <2>3, <2>4, <2>5, <2>6, DispatchFailedBalances,
       AnswerJsonBalances, AnswerUnreadableBalances, AnswerStreamBalances
       DEF Handle, Settle
<1>6. ASSUME NEW r \in Requests, Receive(r)
      PROVE  Balanced'
  <2>1. PICK native, converted \in BOOLEAN :
          Step(r, [chat[r] EXCEPT !.pc = "preparing", !.native = native,
                                  !.converted = converted])
    BY <1>6 DEF Receive
  <2>2. QED
    BY <1>3, <1>6, <2>1, Known DEF Receive, ChatRecords
<1>7. ASSUME NEW r \in Requests, StreamReports(r) \/ Hangup(r) \/ DeadlinePasses(r)
      PROVE  Balanced'
  <2>1. CASE StreamReports(r)
    BY <1>3, <2>1, Known DEF StreamReports, ChatRecords
  <2>2. CASE Hangup(r)
    BY <1>3, <2>2, Known DEF Hangup, ChatRecords
  <2>3. CASE DeadlinePasses(r)
    BY <1>3, <2>3, Known DEF DeadlinePasses, ChatRecords
  <2>4. QED
    BY <1>7, <2>1, <2>2, <2>3
<1>8. CASE UNCHANGED vars
  BY <1>1, <1>8 DEF vars
<1>9. QED
  BY <1>1, <1>5, <1>6, <1>7, <1>8, StreamEndsBalances DEF Next, AllDone, vars, RoundTimeout

(* Outside the tool loop a connection's quota window holds exactly the     *)
(* tokens of its usage rows (handleChat.ts: logRequest and recordTokens).  *)
THEOREM QuotaIsTheRows == Spec => []QuotaMatchesRows
<1>1. Init => Balanced
  <2> SUFFICES ASSUME Init, NEW c \in Conns
               PROVE  BalancedOf(c)
    BY DEF Balanced
  <2>1. ASSUME NEW r \in Requests
        PROVE  TokensOf(r, c) = {}
    <3>1. LoggedTokens(chat[r], c) = 0
      BY DEF Init, Arrived, LoggedTokens
    <3>2. 1..0 = {}
      OBVIOUS
    <3>3. QED
      BY <3>1, <3>2 DEF TokensOf
  <2>2. TokensIn(c) = {}
    BY <2>1 DEF TokensIn
  <2>3. quota[c] = 0
    BY DEF Init
  <2>4. QED
    BY <2>2, <2>3, FS_EmptySet DEF BalancedOf
<1>2. Balanced => QuotaMatchesRows
  BY DEF Balanced, BalancedOf, QuotaMatchesRows
<1>3. QED
  BY <1>1, <1>2, InitKeeps, NextKeeps, NextBalances, PTL DEF Spec
=============================================================================
