------------------------------ MODULE Dispatch ------------------------------
(***************************************************************************)
(* Connection dispatch with failover (jroute/dispatchAttempt.ts), together *)
(* with the database state it shares with every other request and with the *)
(* dashboard: connection rows, cooldowns, quota windows and the            *)
(* round-robin cursor.                                                     *)
(*                                                                         *)
(* better-sqlite3 is synchronous and JRoute is one Node process, so the    *)
(* code between two awaits is one atomic step.  dispatchWithFailover has   *)
(* two awaits, execute() and refreshOAuthToken(): a request is therefore   *)
(* "dialing", "refreshing", or not running, and each action below is the   *)
(* whole synchronous segment that ends in the next await or in the answer. *)
(*                                                                         *)
(* Time is relative: cool[c] is cooldown_until minus now (0 once it has    *)
(* passed or is NULL), phase is now modulo the quota window length, and    *)
(* used[c] is the request counter of the current bucket only: the code     *)
(* never reads an older bucket, because the clock does not run backwards,  *)
(* and isOverQuota reads no counter at all of a connection without a       *)
(* threshold: used[c] stays 0 for those.  Thresholds here are on requests; *)
(* none is on tokens.                                                      *)
(***************************************************************************)
EXTENDS Naturals, Sequences, FiniteSets

CONSTANTS
  NConns,        \* connections of the provider; ids 1..NConns, 0 is NULL
  Requests,      \* concurrently running dispatches (slots, reused)
  OAuth,         \* provider.kind = "oauth"
  BadTokens,     \* connections whose oauth_tokens row cannot be decrypted
  QuotaLimit,    \* [Conns -> Nat] thresholds.requests, 0 when unset
  WindowLen,     \* thresholds.windowMs in clock ticks
  BaseCooldown,  \* BASE_COOLDOWN_MS in clock ticks
  MaxCooldown,   \* MAX_COOLDOWN_MS in clock ticks
  RetryAfters,   \* retry-after hints upstreams send; 0 is "no header"
  AdminOps       \* the dashboard operations this instance performs

Conns == 1..NConns
Strategies == {"priority", "round-robin"}
AllAdminOps == {"toggle", "rekey", "reorder", "delete", "strategy"}

(* What execute() can report for a dial that was not aborted: 2xx, a       *)
(* status in RETRYABLE (or a transport failure), 401, any other status.    *)
Failures == {"retryable", "unauthorized", "fatal"}
Statuses == Failures \cup {"none"}

ASSUME DispatchAssumption ==
  /\ NConns \in Nat
  /\ IsFiniteSet(Requests)
  /\ OAuth \in BOOLEAN
  /\ BadTokens \subseteq Conns
  /\ QuotaLimit \in [Conns -> Nat]
  /\ WindowLen \in Nat \ {0}
  /\ BaseCooldown \in Nat \ {0}
  /\ MaxCooldown \in Nat \ {0}
  /\ RetryAfters \subseteq Nat
  /\ 0 \in RetryAfters
  /\ AdminOps \subseteq AllAdminOps

VARIABLES
  conn,      \* [Conns -> record]: the connections table
  cool,      \* [Conns -> Nat]: remaining cooldown
  used,      \* [Conns -> Nat]: quota_windows.requests of the current bucket
  phase,     \* position of the clock inside the quota window
  cursor,    \* provider_routing_state.last_connection_id
  strategy,  \* settings: the fallback strategy
  req        \* [Requests -> record]: the locals of each running dispatch

vars == <<conn, cool, used, phase, cursor, strategy, req>>

-----------------------------------------------------------------------------
(* The locals of one dispatch.  dials, late and lastDial are history: how  *)
(* often each candidate was dialed, how many dials began after the client  *)
(* hung up, and the last dial an upstream answered.                        *)

NoAnswer == [kind |-> "none", status |-> "none", message |-> "none", conn |-> 0]
NoDial   == [conn |-> 0, result |-> "none"]

IdleRequest ==
  [pc |-> "idle", aborted |-> FALSE, rotating |-> FALSE, cands |-> <<>>,
   badKeys |-> {}, attempt |-> 0, refreshed |-> {}, skipped |-> FALSE,
   lastStatus |-> "none", lastMessage |-> "none", lastConn |-> 0,
   answer |-> NoAnswer,
   dials |-> [c \in Conns |-> 0], late |-> 0, lastDial |-> NoDial]

Answers ==
  [kind : {"none", "ok", "aborted", "noCandidates", "failed", "threw"},
   status : Statuses \cup {"502"},
   message : Statuses \cup {"decrypt", "generic"},
   conn : 0..NConns]

RequestRecords ==
  [pc : {"idle", "dialing", "refreshing", "done"},
   aborted : BOOLEAN, rotating : BOOLEAN, cands : Seq(Conns),
   badKeys : SUBSET Conns, attempt : Nat, refreshed : SUBSET Conns,
   skipped : BOOLEAN, lastStatus : Statuses, lastMessage : Statuses,
   lastConn : 0..NConns, answer : Answers,
   dials : [Conns -> Nat], late : Nat,
   lastDial : [conn : 0..NConns, result : Statuses]]

TypeOK ==
  /\ conn \in [Conns -> [exists : BOOLEAN, enabled : BOOLEAN,
                         prio : Nat, keyOk : BOOLEAN]]
  /\ cool \in [Conns -> Nat]
  /\ used \in [Conns -> Nat]
  /\ phase \in 0..(WindowLen - 1)
  /\ cursor \in 0..NConns
  /\ strategy \in Strategies
  /\ req \in [Requests -> RequestRecords]

Init ==
  /\ conn \in [Conns -> [exists : {TRUE}, enabled : {TRUE},
                         prio : {100}, keyOk : BOOLEAN]]
  /\ cool = [c \in Conns |-> 0]
  /\ used = [c \in Conns |-> 0]
  /\ phase = 0
  /\ cursor = 0
  /\ strategy \in Strategies
  /\ req = [r \in Requests |-> IdleRequest]

-----------------------------------------------------------------------------
(* Candidate selection (selectConnection.ts, quotaWindows.ts).             *)

(* A deliberate fault: > where the code has >=.                            *)
OverQuotaOffByOne(c) == QuotaLimit[c] > 0 /\ used[c] > QuotaLimit[c]

OverQuota(c) == QuotaLimit[c] > 0 /\ used[c] >= QuotaLimit[c]

Eligible ==
  {c \in Conns : /\ conn[c].exists
                 /\ conn[c].enabled
                 /\ cool[c] = 0
                 /\ ~OverQuota(c)}

Before(a, b) ==
  \/ conn[a].prio < conn[b].prio
  \/ conn[a].prio = conn[b].prio /\ a < b

(* The one listing of S in priority-then-id order, as a singleton set.     *)
SortedListings(S) ==
  {s \in [1..Cardinality(S) -> S] :
     \A i, j \in 1..Cardinality(S) : i < j => Before(s[i], s[j])}

(* A deliberate fault: slice(lastIndex) for slice(nextIndex).              *)
RotateTo(s, k) ==
  [i \in 1..Len(s) |-> IF i + k - 1 <= Len(s) THEN s[i + k - 1] ELSE s[i + k - 1 - Len(s)]]

(* s starting right after position k.                                      *)
RotatePast(s, k) ==
  [i \in 1..Len(s) |-> IF i + k <= Len(s) THEN s[i + k] ELSE s[i + k - Len(s)]]

ApplyFallbackStrategy(s) ==
  IF strategy = "round-robin" /\ \E k \in 1..Len(s) : s[k] = cursor
  THEN RotatePast(s, CHOOSE k \in 1..Len(s) : s[k] = cursor)
  ELSE s

-----------------------------------------------------------------------------
(* One iteration of the failover loop.                                     *)

(* Skipped before dialing: the snapshot's credentialDecryptFailed, or the  *)
(* oauth_tokens row, which is read anew at every iteration.                *)
Undialable(q, c) ==
  \/ c \in q.badKeys
  \/ OAuth /\ conn[c].exists /\ c \in BadTokens

Dial(q, i) ==
  [q EXCEPT !.pc = "dialing",
            !.attempt = i,
            !.dials[q.cands[i]] = @ + 1,
            !.late = IF q.aborted THEN @ + 1 ELSE @]

Answer(q, a) == [q EXCEPT !.pc = "done", !.answer = a]

(* A deliberate fault, the one dispatchAttempt.ts:100-105 tells of: a       *)
(* skipped connection rewrites the message of a dialed one.                *)
AllFailedSharingMessage(q) ==
  Answer(q, [kind |-> "failed",
             status |-> IF q.lastStatus = "none" THEN "502" ELSE q.lastStatus,
             message |-> IF q.skipped THEN "decrypt" ELSE q.lastMessage,
             conn |-> q.lastConn])

AllFailed(q) ==
  Answer(q, [kind |-> "failed",
             status |-> IF q.lastStatus = "none" THEN "502" ELSE q.lastStatus,
             message |-> IF q.lastMessage # "none" THEN q.lastMessage
                         ELSE IF q.skipped THEN "decrypt" ELSE "generic",
             conn |-> q.lastConn])

(* Run the loop from index i until it dials or runs out of candidates.     *)
IsNextStop(q, i, j) ==
  /\ \A k \in i..(j - 1) : Undialable(q, q.cands[k])
  /\ j <= Len(q.cands) => ~Undialable(q, q.cands[j])

(* A deliberate fault: break where an unreadable credential says continue. *)
StopAtUnreadable(q, i, j) ==
  IF i = j /\ j <= Len(q.cands) THEN Dial(q, j)
  ELSE AllFailed([q EXCEPT !.skipped = @ \/ i < j])

StopAt(q, i, j) ==
  LET p == [q EXCEPT !.skipped = @ \/ i < j]
  IN IF j <= Len(q.cands) THEN Dial(p, j) ELSE AllFailed(p)

Continue(r, q, i) ==
  \E j \in i..(Len(q.cands) + 1) :
    /\ IsNextStop(q, i, j)
    /\ req' = [req EXCEPT ![r] = StopAt(q, i, j)]

Current(q) == q.cands[q.attempt]

Answered(q, result) ==
  [q EXCEPT !.lastDial = [conn |-> Current(q), result |-> result]]

Blame(q, status) ==
  [q EXCEPT !.lastStatus = status, !.lastMessage = status, !.lastConn = Current(q)]

-----------------------------------------------------------------------------
(* Writes to the shared tables.  A write to a deleted connection has no    *)
(* effect: the UPDATEs match no row, and the quota INSERT violates the     *)
(* foreign key and the error is caught.                                    *)

RecordDial(c) ==
  used' = IF conn[c].exists /\ QuotaLimit[c] > 0 THEN [used EXCEPT ![c] = @ + 1] ELSE used

AtMost(n, m) == IF n < m THEN n ELSE m

CooldownFor(attempt, retryAfter) ==
  AtMost(IF retryAfter > 0 THEN retryAfter ELSE BaseCooldown * 2^(attempt - 1),
         MaxCooldown)

(* What a failed dial can cost, over the hints the upstream may send.      *)
Cooldowns(attempt) ==
  {ticks \in 0..MaxCooldown :
     \E retryAfter \in RetryAfters : ticks = CooldownFor(attempt, retryAfter)}

MarkCooldown(c, ticks) ==
  cool' = IF conn[c].exists THEN [cool EXCEPT ![c] = ticks] ELSE cool

ClearCooldown(c) == cool' = [cool EXCEPT ![c] = 0]

-----------------------------------------------------------------------------
(* Actions of a dispatch.                                                  *)

Start(r) ==
  /\ req[r].pc = "idle"
  /\ \E sorted \in SortedListings(Eligible) :
       LET s == ApplyFallbackStrategy(sorted)
           q == [req[r] EXCEPT !.cands = s,
                               !.rotating = (strategy = "round-robin"),
                               !.badKeys = {c \in Eligible : ~conn[c].keyOk}]
       IN IF s = <<>>
          THEN req' = [req EXCEPT ![r] =
                 Answer(q, [NoAnswer EXCEPT !.kind = "noCandidates"])]
          ELSE Continue(r, q, 1)
  /\ UNCHANGED <<conn, cool, used, phase, cursor, strategy>>

(* A deliberate fault: the answer names the first candidate, not the one   *)
(* that was dialed.                                                        *)
DialOkFromFirst(r) ==
  LET q == req[r]
      c == Current(q)
  IN /\ q.pc = "dialing"
     /\ ~q.aborted
     /\ RecordDial(c)
     /\ ClearCooldown(c)
     /\ cursor' = IF q.rotating THEN c ELSE cursor
     /\ req' = [req EXCEPT ![r] =
                  Answer(Answered(q, "none"),
                         [NoAnswer EXCEPT !.kind = "ok", !.conn = q.cands[1]])]
     /\ UNCHANGED <<conn, phase, strategy>>

DialOk(r) ==
  LET q == req[r]
      c == Current(q)
  IN /\ q.pc = "dialing"
     /\ ~q.aborted
     /\ RecordDial(c)
     /\ ClearCooldown(c)
     /\ cursor' = IF q.rotating THEN c ELSE cursor
     /\ req' = [req EXCEPT ![r] =
                  Answer(Answered(q, "none"), [NoAnswer EXCEPT !.kind = "ok", !.conn = c])]
     /\ UNCHANGED <<conn, phase, strategy>>

(* Deliberate faults: an abort parks the connection; an abort fails over;  *)
(* the body is read without watching the signal and never settles.         *)
DialAbortedParks(r) ==
  LET q == req[r]
      c == Current(q)
  IN /\ q.pc = "dialing"
     /\ q.aborted
     /\ RecordDial(c)
     /\ MarkCooldown(c, BaseCooldown)
     /\ req' = [req EXCEPT ![r] =
                  Answer(q, [NoAnswer EXCEPT !.kind = "aborted", !.conn = c])]
     /\ UNCHANGED <<conn, phase, cursor, strategy>>

DialAbortedFailsOver(r) ==
  LET q == req[r]
  IN /\ q.pc = "dialing"
     /\ q.aborted
     /\ RecordDial(Current(q))
     /\ Continue(r, Blame(q, "retryable"), q.attempt + 1)
     /\ UNCHANGED <<conn, cool, phase, cursor, strategy>>

DialAbortedUnseen(r) ==
  /\ req[r].pc = "dialing"
  /\ req[r].aborted
  /\ UNCHANGED vars

(* The signal fired: execute() reports status 0 without a message.         *)
DialAborted(r) ==
  LET q == req[r]
      c == Current(q)
  IN /\ q.pc = "dialing"
     /\ q.aborted
     /\ RecordDial(c)
     /\ req' = [req EXCEPT ![r] =
                  Answer(q, [NoAnswer EXCEPT !.kind = "aborted", !.conn = c])]
     /\ UNCHANGED <<conn, cool, phase, cursor, strategy>>

DialRetryable(r) ==
  LET q == req[r]
      c == Current(q)
  IN /\ q.pc = "dialing"
     /\ ~q.aborted
     /\ RecordDial(c)
     /\ \E ticks \in Cooldowns(q.attempt) : MarkCooldown(c, ticks)
     /\ Continue(r, Blame(Answered(q, "retryable"), "retryable"), q.attempt + 1)
     /\ UNCHANGED <<conn, phase, cursor, strategy>>

(* Any other status ends the loop; so does 401 when the provider is not    *)
(* an OAuth one.                                                           *)
DialFatal(r) ==
  LET q == req[r]
      c == Current(q)
  IN /\ q.pc = "dialing"
     /\ ~q.aborted
     /\ RecordDial(c)
     /\ \E status \in (IF OAuth THEN {"fatal"} ELSE {"fatal", "unauthorized"}) :
          req' = [req EXCEPT ![r] = AllFailed(Blame(Answered(q, status), status))]
     /\ UNCHANGED <<conn, cool, phase, cursor, strategy>>

(* A deliberate fault: the refresh is not remembered.                      *)
DialUnauthorizedForgetful(r) ==
  LET q == req[r]
      c == Current(q)
  IN /\ OAuth
     /\ q.pc = "dialing"
     /\ ~q.aborted
     /\ c \notin q.refreshed
     /\ conn[c].exists
     /\ RecordDial(c)
     /\ req' = [req EXCEPT ![r] = [Answered(q, "unauthorized") EXCEPT !.pc = "refreshing"]]
     /\ UNCHANGED <<conn, cool, phase, cursor, strategy>>

(* First 401 of an OAuth connection: await refreshOAuthToken.              *)
DialUnauthorized(r) ==
  LET q == req[r]
      c == Current(q)
  IN /\ OAuth
     /\ q.pc = "dialing"
     /\ ~q.aborted
     /\ c \notin q.refreshed
     /\ conn[c].exists
     /\ RecordDial(c)
     /\ req' = [req EXCEPT ![r] =
                  [Answered(q, "unauthorized") EXCEPT !.pc = "refreshing",
                                                      !.refreshed = @ \cup {c}]]
     /\ UNCHANGED <<conn, cool, phase, cursor, strategy>>

GiveUpOn(r, q) ==
  /\ \E ticks \in Cooldowns(q.attempt) : MarkCooldown(Current(q), ticks)
  /\ Continue(r, Blame(q, "unauthorized"), q.attempt + 1)
  /\ UNCHANGED <<conn, phase, cursor, strategy>>

(* Second 401 of the same connection in this request, or a 401 of one that *)
(* was deleted meanwhile: its token row is gone, so there is no refresh.   *)
DialUnauthorizedForGood(r) ==
  LET q == req[r]
      c == Current(q)
  IN /\ OAuth
     /\ q.pc = "dialing"
     /\ ~q.aborted
     /\ c \in q.refreshed \/ ~conn[c].exists
     /\ RecordDial(c)
     /\ GiveUpOn(r, [Answered(q, "unauthorized") EXCEPT !.refreshed = @ \cup {c}])

RefreshFailed(r) ==
  /\ req[r].pc = "refreshing"
  /\ GiveUpOn(r, req[r])
  /\ UNCHANGED used

(* attempt -= 1; continue: the same candidate again.                       *)
RefreshOk(r) ==
  LET q == req[r]
  IN /\ q.pc = "refreshing"
     /\ conn[Current(q)].exists
     /\ Continue(r, q, q.attempt)
     /\ UNCHANGED <<conn, cool, used, phase, cursor, strategy>>

(* The connection was deleted during the refresh: upsertOAuthToken         *)
(* violates its foreign key and dispatchWithFailover rejects.              *)
RefreshThrew(r) ==
  LET q == req[r]
  IN /\ q.pc = "refreshing"
     /\ ~conn[Current(q)].exists
     /\ req' = [req EXCEPT ![r] =
                  Answer(q, [NoAnswer EXCEPT !.kind = "threw", !.conn = Current(q)])]
     /\ UNCHANGED <<conn, cool, used, phase, cursor, strategy>>

(* The caller takes the answer; the slot serves a new request.             *)
Release(r) ==
  /\ req[r].pc = "done"
  /\ req' = [req EXCEPT ![r] = IdleRequest]
  /\ UNCHANGED <<conn, cool, used, phase, cursor, strategy>>

(* params.signal fires, at the earliest while the caller still prepares    *)
(* the request.                                                            *)
Abort(r) ==
  /\ req[r].pc # "done"
  /\ ~req[r].aborted
  /\ req' = [req EXCEPT ![r].aborted = TRUE]
  /\ UNCHANGED <<conn, cool, used, phase, cursor, strategy>>

-----------------------------------------------------------------------------
(* The clock and the dashboard.                                            *)

Tick ==
  /\ phase' = (phase + 1) % WindowLen
  /\ used' = IF phase' = 0 THEN [c \in Conns |-> 0] ELSE used
  /\ cool' = [c \in Conns |-> IF cool[c] > 0 THEN cool[c] - 1 ELSE 0]
  /\ UNCHANGED <<conn, cursor, strategy, req>>

Toggle(c) ==
  /\ "toggle" \in AdminOps
  /\ conn[c].exists
  /\ conn' = [conn EXCEPT ![c].enabled = ~@]
  /\ UNCHANGED <<cool, used, phase, cursor, strategy, req>>

Rekey(c) ==
  /\ "rekey" \in AdminOps
  /\ conn[c].exists
  /\ conn' = [conn EXCEPT ![c].keyOk = TRUE]
  /\ UNCHANGED <<cool, used, phase, cursor, strategy, req>>

(* reorderConnections: every listed id gets its index as priority.         *)
Reorder ==
  /\ "reorder" \in AdminOps
  /\ \E rank \in [Conns -> 0..(NConns - 1)] :
       /\ \A a, b \in Conns : rank[a] = rank[b] => a = b
       /\ conn' = [c \in Conns |-> IF conn[c].exists
                                   THEN [conn[c] EXCEPT !.prio = rank[c]]
                                   ELSE conn[c]]
  /\ UNCHANGED <<cool, used, phase, cursor, strategy, req>>

(* ON DELETE CASCADE takes the quota rows; the routing cursor stays.       *)
Delete(c) ==
  /\ "delete" \in AdminOps
  /\ conn[c].exists
  /\ conn' = [conn EXCEPT ![c].exists = FALSE]
  /\ used' = [used EXCEPT ![c] = 0]
  /\ cool' = [cool EXCEPT ![c] = 0]
  /\ UNCHANGED <<phase, cursor, strategy, req>>

SetStrategy(s) ==
  /\ "strategy" \in AdminOps
  /\ strategy' = s
  /\ UNCHANGED <<conn, cool, used, phase, cursor, req>>

-----------------------------------------------------------------------------
Settle(r) ==
  \/ DialOk(r)
  \/ DialAborted(r)
  \/ DialRetryable(r)
  \/ DialFatal(r)
  \/ DialUnauthorized(r)
  \/ DialUnauthorizedForGood(r)
  \/ RefreshFailed(r)
  \/ RefreshOk(r)
  \/ RefreshThrew(r)

Admin ==
  \/ \E c \in Conns : Toggle(c) \/ Rekey(c) \/ Delete(c)
  \/ Reorder
  \/ \E s \in Strategies : SetStrategy(s)

Next ==
  \/ \E r \in Requests : Start(r) \/ Settle(r) \/ Release(r) \/ Abort(r)
  \/ Tick
  \/ Admin

Spec == Init /\ [][Next]_vars

(* Every await of the loop settles: undici bounds a silent upstream by its *)
(* headers and body timeouts, refresh.ts by REFRESH_TIMEOUT_MS.  Nothing   *)
(* forces a client to send a request, to hang up, or the admin to act.     *)
FairSpec == Spec /\ \A r \in Requests : WF_vars(Settle(r))

-----------------------------------------------------------------------------
(* Properties.                                                             *)

ListedIn(q, c) == \E i \in 1..Len(q.cands) : q.cands[i] = c

(* Dispatching never hammers an upstream: within one request a connection  *)
(* is dialed at most once, and a second time only after its one token      *)
(* refresh ("at most one refresh-then-retry per connection per request"),  *)
(* although that retry steps the loop counter backwards; and only          *)
(* connections of the request's own candidate list are dialed.             *)
DialBudget ==
  \A r \in Requests, c \in Conns :
    LET q == req[r]
    IN /\ q.dials[c] <= (IF c \in q.refreshed THEN 2 ELSE 1)
       /\ q.dials[c] > 0 => ListedIn(q, c)
       /\ q.refreshed # {} => OAuth

(* Failover order: candidates are tried strictly in the listed order, none *)
(* is passed over unless its credential could not be decrypted, and a      *)
(* request only fails without a terminal status once every candidate has   *)
(* been tried or skipped for that reason.                                  *)
Unreadable(q) == q.badKeys \cup (IF OAuth THEN BadTokens ELSE {})

TriedOrUnreadable(q, c) == q.dials[c] > 0 \/ c \in Unreadable(q)

EndedEarly(q) ==
  \/ q.lastStatus = "fatal"
  \/ ~OAuth /\ q.lastStatus = "unauthorized"

FailoverOrder ==
  \A r \in Requests :
    LET q == req[r]
    IN /\ \A i \in 1..Len(q.cands) :
            /\ i < q.attempt => TriedOrUnreadable(q, q.cands[i])
            /\ i > q.attempt => q.dials[q.cands[i]] = 0
       /\ q.answer.kind = "failed" =>
            EndedEarly(q) \/ \A i \in 1..Len(q.cands) : TriedOrUnreadable(q, q.cands[i])

(* The reported failure tells one true story: status, message and          *)
(* connection all come from the last dial an upstream answered, whatever   *)
(* unreadable connections were skipped before or behind it; the credential *)
(* reason appears exactly when nothing was ever dialed; the generic        *)
(* "All connections failed" is never what the client reads.                *)
FailureAttribution ==
  \A r \in Requests :
    LET q == req[r]
    IN q.answer.kind = "failed" =>
         IF q.lastDial = NoDial
         THEN q.answer = [kind |-> "failed", status |-> "502",
                          message |-> "decrypt", conn |-> 0]
         ELSE q.answer = [kind |-> "failed", status |-> q.lastDial.result,
                          message |-> q.lastDial.result, conn |-> q.lastDial.conn]

(* A client that hung up is not billed along the whole candidate list: at  *)
(* most one dial begins (and is counted) after the signal fired, and such  *)
(* a request never ends in success.                                        *)
HangupStopsBilling ==
  \A r \in Requests : req[r].late <= 1 /\ (req[r].late = 1 => req[r].answer.kind # "ok")

(* Candidates are snapshot before the first await, so running requests may *)
(* push a connection past its quota; they can overshoot by at most the     *)
(* dials that requests running at once can still make.                     *)
DialsPerRequest == IF OAuth THEN 2 ELSE 1

QuotaOvershootBounded ==
  \A c \in Conns :
    QuotaLimit[c] > 0 =>
      used[c] <= QuotaLimit[c] - 1 + DialsPerRequest * Cardinality(Requests)

(* A connection is parked (its cooldown grows) only by a request that got  *)
(* a retryable status or a lasting 401 from it, blames it, and has left it *)
(* for good; never by a dial that was cut off by the client.               *)
Parks(r, c) ==
  /\ req[r].pc \in {"dialing", "refreshing"}
  /\ Current(req[r]) = c
  /\ req[r].aborted => req[r].pc = "refreshing"
  /\ req'[r].lastConn = c
  /\ req'[r].lastStatus \in {"retryable", "unauthorized"}
  /\ \/ req'[r].attempt > req[r].attempt
     \/ req'[r].answer.kind = "failed"

ParkingIsBlamed ==
  [][\A c \in Conns : cool'[c] > cool[c] => \E r \in Requests : Parks(r, c)]_vars

(* Under round-robin a request that can choose does not start at the       *)
(* connection that served the last success.                                *)
RotationAdvances ==
  [][\A r \in Requests :
       (/\ req[r].cands = <<>>
        /\ Len(req'[r].cands) > 1
        /\ strategy = "round-robin") => req'[r].cands[1] # cursor]_vars

(* Every dispatch that dials ends in an answer.                            *)
EveryDispatchEnds ==
  \A r \in Requests : req[r].pc \in {"dialing", "refreshing"} ~> req[r].pc = "done"

-----------------------------------------------------------------------------
(* What the dispatch promises its callers (FailoverPromise).               *)
Offered(q) ==
  IF q.pc \in {"dialing", "refreshing"}
  THEN {q.cands[i] : i \in q.attempt..Len(q.cands)} ELSE {}

Phase(q) ==
  CASE q.pc = "idle" -> "idle"
    [] q.pc = "done" -> "answered"
    [] OTHER -> "open"

Promise == INSTANCE FailoverPromise WITH
  phase <- [r \in Requests |-> Phase(req[r])],
  fired <- [r \in Requests |-> req[r].aborted],
  offered <- [r \in Requests |-> Offered(req[r])],
  answer <- [r \in Requests |-> [kind |-> req[r].answer.kind,
                                  conn |-> req[r].answer.conn]]

(* Every step of the failover loop is a step of the promise: one answer    *)
(* per request, success only from a connection still on offer.             *)
KeepsPromise == Promise!Spec
=============================================================================
