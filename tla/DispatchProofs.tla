--------------------------- MODULE DispatchProofs ---------------------------
(***************************************************************************)
(* Proofs about Dispatch, for any number of connections and of concurrent  *)
(* requests: the type invariant, the dial budget, the failover order, the  *)
(* failure attribution, the hang-up rule, that it implements               *)
(* FailoverPromise, and what it does to the tables that requests share.    *)
(*                                                                         *)
(* All but the type invariant are facts about one request's locals, which  *)
(* no other action touches.  ReqInv strengthens them: what is true of a    *)
(* request while it waits.  ReadyAt is what is true of it at the top of    *)
(* the loop, between two awaits; the lemma LoopRuns goes from one to the   *)
(* other.                                                                  *)
(***************************************************************************)
EXTENDS Dispatch, FiniteSetTheorems, TLAPS

Injective(s) == \A i, j \in 1..Len(s) : s[i] = s[j] => i = j

Waiting(q) == q.pc \in {"dialing", "refreshing"}

Budget(q) ==
  /\ \A c \in Conns : /\ q.dials[c] <= (IF c \in q.refreshed THEN 2 ELSE 1)
                      /\ q.dials[c] > 0 => ListedIn(q, c)
                      /\ c \in q.refreshed => q.dials[c] > 0
  /\ q.refreshed # {} => OAuth

Passed(q, i) == \A k \in 1..Len(q.cands) : k < i => TriedOrUnreadable(q, q.cands[k])

Untouched(q, i) == \A k \in 1..Len(q.cands) : k >= i => q.dials[q.cands[k]] = 0

Blames(q) ==
  /\ q.lastMessage = q.lastStatus
  /\ IF q.lastStatus = "none"
     THEN q.lastConn = 0 /\ q.lastDial = NoDial
     ELSE q.lastDial = [conn |-> q.lastConn, result |-> q.lastStatus]

Attributed(q) ==
  IF q.lastDial = NoDial
  THEN q.answer = [kind |-> "failed", status |-> "502", message |-> "decrypt", conn |-> 0]
  ELSE q.answer = [kind |-> "failed", status |-> q.lastDial.result,
                   message |-> q.lastDial.result, conn |-> q.lastDial.conn]

Blank(q) ==
  /\ q.cands = <<>> /\ q.attempt = 0 /\ q.refreshed = {} /\ q.late = 0
  /\ q.dials = [c \in Conns |-> 0]
  /\ Blames(q) /\ q.lastStatus = "none"
  /\ q.answer = NoAnswer

(* At the top of the loop, about to look at candidate i.                   *)
ReadyAt(q, i) ==
  /\ q \in RequestRecords
  /\ Injective(q.cands)
  /\ Budget(q)
  /\ i \in 1..(Len(q.cands) + 1)
  /\ i = q.attempt + 1
  /\ Passed(q, i)
  /\ Untouched(q, i)
  /\ Blames(q)
  /\ q.lastStatus = "none" => q.skipped \/ (i = 1 /\ Len(q.cands) > 0)
  /\ q.answer = NoAnswer
  /\ q.late = 0

(* While the request waits, before it starts, and after it has answered.   *)
ReqInv(q) ==
  /\ q \in RequestRecords
  /\ Injective(q.cands)
  /\ Budget(q)
  /\ Passed(q, q.attempt)
  /\ Untouched(q, q.attempt + 1)
  /\ q.late <= 1
  /\ q.late > 0 => \/ q.pc = "dialing" /\ q.aborted
                   \/ q.pc = "done" /\ q.answer.kind = "aborted"
  /\ q.pc = "idle" => Blank(q)
  /\ Waiting(q) => /\ q.attempt \in 1..Len(q.cands)
                   /\ q.dials[Current(q)] > 0
                   /\ q.answer = NoAnswer
                   /\ Current(q) \notin q.badKeys
  /\ q.pc = "refreshing" => /\ OAuth
                            /\ Current(q) \in q.refreshed
                            /\ q.dials[Current(q)] = 1
                            /\ q.late = 0
                            /\ q.lastDial = [conn |-> Current(q), result |-> "unauthorized"]
  /\ q.answer.kind = "failed" =>
       /\ q.pc = "done"
       /\ Attributed(q)
       /\ EndedEarly(q) \/ Passed(q, Len(q.cands) + 1)

(* A waiting request's connection had a readable token row when dialed.    *)
Readable(q) == Waiting(q) /\ OAuth /\ conn[Current(q)].exists => Current(q) \notin BadTokens

Inv ==
  /\ TypeOK
  /\ \A r \in Requests : ReqInv(req[r]) /\ Readable(req[r])

-----------------------------------------------------------------------------
LEMMA RotationType ==
  ASSUME NEW s \in Seq(Conns), Injective(s), NEW k \in 1..Len(s)
  PROVE  RotatePast(s, k) \in Seq(Conns) /\ Injective(RotatePast(s, k))
                                         /\ Len(RotatePast(s, k)) = Len(s)
<1>1. RotatePast(s, k) \in Seq(Conns) /\ Len(RotatePast(s, k)) = Len(s)
  BY DEF RotatePast
<1>2. \A i \in 1..Len(s) : RotatePast(s, k)[i] =
        (IF i + k <= Len(s) THEN s[i + k] ELSE s[i + k - Len(s)])
  BY DEF RotatePast
<1>3. SUFFICES ASSUME NEW i \in 1..Len(s), NEW j \in 1..Len(s),
                      RotatePast(s, k)[i] = RotatePast(s, k)[j]
               PROVE  i = j
  BY <1>1 DEF Injective
<1>4. Len(s) \in Nat
  OBVIOUS
<1>5. DEFINE at(n) == IF n + k <= Len(s) THEN n + k ELSE n + k - Len(s)
<1>6. at(i) \in 1..Len(s) /\ at(j) \in 1..Len(s) /\ s[at(i)] = s[at(j)]
  BY <1>2, <1>3, <1>4
<1>7. at(i) = at(j)
  BY <1>6 DEF Injective
<1>. QED
  BY <1>4, <1>7

(* The candidate list of a new request lists connections, each once.       *)
LEMMA CandidatesType ==
  ASSUME NEW S \in SUBSET Conns, NEW sorted \in SortedListings(S), TypeOK
  PROVE  /\ ApplyFallbackStrategy(sorted) \in Seq(Conns)
         /\ Injective(ApplyFallbackStrategy(sorted))
<1>0. IsFiniteSet(Conns)
  BY FS_Interval, DispatchAssumption DEF Conns
<1>1. Cardinality(S) \in Nat
  BY <1>0, FS_Subset, FS_CardinalityType
<1>2. sorted \in Seq(Conns) /\ Len(sorted) = Cardinality(S)
  BY <1>1 DEF SortedListings
<1>3. \A a \in Conns : ~Before(a, a)
  BY DispatchAssumption DEF Before, TypeOK, Conns
<1>4. Injective(sorted)
  <2>1. SUFFICES ASSUME NEW i \in 1..Len(sorted), NEW j \in 1..Len(sorted),
                        sorted[i] = sorted[j], i # j
                 PROVE  FALSE
    BY DEF Injective
  <2>2. sorted[i] \in Conns
    BY <1>2
  <2>3. i < j \/ j < i
    BY <1>1, <1>2, <2>1
  <2>. QED
    BY <1>2, <1>3, <2>1, <2>2, <2>3 DEF SortedListings
<1>5. CASE strategy = "round-robin" /\ \E k \in 1..Len(sorted) : sorted[k] = cursor
  <2>1. (CHOOSE k \in 1..Len(sorted) : sorted[k] = cursor) \in 1..Len(sorted)
    BY <1>5
  <2>. QED
    BY <1>2, <1>4, <1>5, <2>1, RotationType DEF ApplyFallbackStrategy
<1>6. CASE ~(strategy = "round-robin" /\ \E k \in 1..Len(sorted) : sorted[k] = cursor)
  BY <1>2, <1>4, <1>6 DEF ApplyFallbackStrategy
<1>. QED
  BY <1>5, <1>6

-----------------------------------------------------------------------------
LEMMA DialType ==
  ASSUME NEW q \in RequestRecords, NEW skipped \in BOOLEAN, NEW n \in Nat,
         NEW dials \in [Conns -> Nat], NEW late \in Nat
  PROVE  [q EXCEPT !.skipped = skipped, !.pc = "dialing", !.attempt = n,
                   !.dials = dials, !.late = late] \in RequestRecords
BY DEF RequestRecords

(* Beginning a dial of candidate j, all before it being settled.           *)
LEMMA DialEffect ==
  ASSUME NEW q, NEW i, NEW j, ReadyAt(q, i),
         j \in i..Len(q.cands), IsNextStop(q, i, j)
  PROVE  /\ ReqInv(StopAt(q, i, j))
         /\ StopAt(q, i, j).pc = "dialing"
         /\ Current(StopAt(q, i, j)) = q.cands[j]
<1>. DEFINE p == StopAt(q, i, j)
<1>1. /\ q \in RequestRecords /\ q.cands \in Seq(Conns) /\ Len(q.cands) \in Nat
      /\ i \in Nat /\ j \in 1..Len(q.cands) /\ q.dials \in [Conns -> Nat]
      /\ q.cands[j] \in Conns
  BY DEF ReadyAt, RequestRecords
<1>2. p = [q EXCEPT !.skipped = q.skipped \/ i < j,
                    !.pc = "dialing",
                    !.attempt = j,
                    !.dials = [q.dials EXCEPT ![q.cands[j]] = @ + 1],
                    !.late = IF q.aborted THEN q.late + 1 ELSE q.late]
  BY <1>1 DEF StopAt, Dial, RequestRecords
<1>3. /\ p.pc = "dialing" /\ p.attempt = j /\ p.cands = q.cands /\ p.answer = q.answer
      /\ p.dials = [q.dials EXCEPT ![q.cands[j]] = @ + 1]
      /\ p.late = (IF q.aborted THEN q.late + 1 ELSE q.late)
      /\ p.refreshed = q.refreshed /\ p.badKeys = q.badKeys /\ p.aborted = q.aborted
      /\ p.lastStatus = q.lastStatus /\ p.lastMessage = q.lastMessage
      /\ p.lastConn = q.lastConn /\ p.lastDial = q.lastDial
  BY <1>1, <1>2 DEF RequestRecords
<1>4. p \in RequestRecords
  <2>1. [q.dials EXCEPT ![q.cands[j]] = @ + 1] \in [Conns -> Nat]
    BY <1>1
  <2>2. (q.skipped \/ i < j) \in BOOLEAN /\ (IF q.aborted THEN q.late + 1 ELSE q.late) \in Nat
    BY <1>1 DEF RequestRecords
  <2>3. q \in RequestRecords /\ j \in Nat
    BY <1>1
  <2>. HIDE DEF p
  <2>. QED
    BY ONLY <1>2, <2>1, <2>2, <2>3, DialType
<1>5. q.dials[q.cands[j]] = 0 /\ q.cands[j] \notin q.refreshed
  BY <1>1 DEF ReadyAt, Untouched, Budget
<1>6. \A c \in Conns : p.dials[c] = IF c = q.cands[j] THEN 1 ELSE q.dials[c]
  BY <1>1, <1>3, <1>5
<1>7. Budget(p)
  <2>. HIDE DEF p
  <2>1. Budget(q) /\ \A c \in Conns : ListedIn(p, c) <=> ListedIn(q, c)
    BY <1>3 DEF ReadyAt, ListedIn
  <2>2. ListedIn(p, q.cands[j])
    BY <1>1, <1>3 DEF ListedIn
  <2>. QED
    BY <1>1, <1>3, <1>5, <1>6, <2>1, <2>2 DEF Budget
<1>8. \A k \in 1..Len(q.cands) : q.cands[k] \in Conns /\ (k # j => q.cands[k] # q.cands[j])
  BY <1>1 DEF ReadyAt, Injective
<1>9. Passed(p, j)
  <2>. HIDE DEF p
  <2>1. ASSUME NEW k \in 1..Len(q.cands), k < i
        PROVE  TriedOrUnreadable(p, q.cands[k])
    <3>1. TriedOrUnreadable(q, q.cands[k])
      BY <2>1 DEF ReadyAt, Passed
    <3>2. q.cands[k] # q.cands[j] /\ q.cands[k] \in Conns
      BY <1>1, <1>8, <2>1
    <3>3. p.dials[q.cands[k]] = q.dials[q.cands[k]] /\ p.badKeys = q.badKeys
      BY <1>3, <1>6, <3>2
    <3>. QED
      BY <3>1, <3>3 DEF TriedOrUnreadable, Unreadable
  <2>2. ASSUME NEW k \in 1..Len(q.cands), k >= i, k < j
        PROVE  TriedOrUnreadable(p, q.cands[k])
    <3>1. k \in i..(j - 1)
      BY <1>1, <2>2
    <3>2. Undialable(q, q.cands[k])
      BY <3>1 DEF IsNextStop
    <3>. QED
      BY <1>3, <3>2 DEF Undialable, TriedOrUnreadable, Unreadable
  <2>. QED
    BY <1>1, <1>3, <2>1, <2>2 DEF Passed
<1>10. Untouched(p, j + 1)
  <2>. HIDE DEF p
  <2>1. ASSUME NEW k \in 1..Len(q.cands), k >= j + 1
        PROVE  p.dials[q.cands[k]] = 0
    <3>1. k >= i /\ k # j
      BY <1>1, <2>1
    <3>. QED
      BY <1>6, <1>8, <3>1 DEF ReadyAt, Untouched
  <2>. QED
    BY <1>3, <2>1 DEF Untouched
<1>11. Current(p) = q.cands[j] /\ p.dials[Current(p)] > 0
  BY <1>1, <1>3, <1>6 DEF Current
<1>12. Current(p) \notin p.badKeys
  BY <1>1, <1>3, <1>11 DEF IsNextStop, Undialable
<1>13. p.late <= 1 /\ (p.late > 0 => p.pc = "dialing" /\ p.aborted)
  BY <1>1, <1>3 DEF ReadyAt
<1>14. p.answer = NoAnswer /\ Injective(p.cands)
  BY <1>3 DEF ReadyAt
<1>. QED
  BY <1>1, <1>3, <1>4, <1>7, <1>9, <1>10, <1>11, <1>12, <1>13, <1>14
     DEF ReqInv, Waiting, NoAnswer

(* Running out of candidates.                                              *)
LEMMA ExhaustionEffect ==
  ASSUME NEW q, NEW i, ReadyAt(q, i), IsNextStop(q, i, Len(q.cands) + 1)
  PROVE  /\ ReqInv(StopAt(q, i, Len(q.cands) + 1))
         /\ StopAt(q, i, Len(q.cands) + 1).pc = "done"
<1>. DEFINE n == Len(q.cands)
            p == StopAt(q, i, n + 1)
<1>1. /\ q \in RequestRecords /\ q.cands \in Seq(Conns) /\ n \in Nat
      /\ i \in 1..(n + 1) /\ q.attempt \in Nat
  BY DEF ReadyAt, RequestRecords
<1>2. ~(n + 1 <= n)
  BY <1>1
<1>3. p = AllFailed([q EXCEPT !.skipped = q.skipped \/ i < n + 1])
  BY <1>1, <1>2 DEF StopAt
<1>4. /\ p.pc = "done" /\ p.attempt = q.attempt /\ p.cands = q.cands
      /\ p.dials = q.dials /\ p.late = q.late
      /\ p.refreshed = q.refreshed /\ p.badKeys = q.badKeys /\ p.aborted = q.aborted
      /\ p.lastStatus = q.lastStatus /\ p.lastDial = q.lastDial
      /\ p.answer = [kind |-> "failed",
             status |-> IF q.lastStatus = "none" THEN "502" ELSE q.lastStatus,
             message |-> IF q.lastMessage # "none" THEN q.lastMessage
                         ELSE IF q.skipped \/ i < n + 1 THEN "decrypt" ELSE "generic",
             conn |-> q.lastConn]
  BY <1>1, <1>3 DEF AllFailed, Answer, RequestRecords
<1>5. p \in RequestRecords
  <2>1. /\ q.lastStatus \in Statuses /\ q.lastMessage \in Statuses
        /\ q.lastConn \in 0..NConns /\ (q.skipped \/ i < n + 1) \in BOOLEAN
    BY <1>1 DEF RequestRecords
  <2>2. p.answer \in Answers
    BY <1>4, <2>1 DEF Answers
  <2>3. p = [q EXCEPT !.skipped = q.skipped \/ i < n + 1, !.pc = "done", !.answer = p.answer]
    BY <1>1, <1>3 DEF AllFailed, Answer, RequestRecords
  <2>. QED
    BY <1>1, <2>1, <2>2, <2>3 DEF RequestRecords
<1>6. Budget(p) /\ Injective(p.cands) /\ p.late = 0
  BY <1>4 DEF ReadyAt, Budget, ListedIn
<1>7. Passed(p, n + 1)
  <2>1. ASSUME NEW k \in 1..n, k < i
        PROVE  TriedOrUnreadable(p, q.cands[k])
    BY <1>4, <2>1 DEF ReadyAt, Passed, TriedOrUnreadable, Unreadable
  <2>2. ASSUME NEW k \in 1..n, k >= i
        PROVE  TriedOrUnreadable(p, q.cands[k])
    BY <1>1, <1>4, <2>2 DEF IsNextStop, Undialable, TriedOrUnreadable, Unreadable
  <2>. QED
    BY <1>1, <1>4, <2>1, <2>2 DEF Passed
<1>8. Passed(p, p.attempt) /\ Untouched(p, p.attempt + 1)
  BY <1>1, <1>4, <1>7 DEF ReadyAt, Passed, Untouched
<1>9. Attributed(p)
  <2>1. CASE q.lastStatus = "none"
    BY <1>1, <1>4, <2>1 DEF ReadyAt, Blames, Attributed, NoDial
  <2>2. CASE q.lastStatus # "none"
    BY <1>1, <1>4, <2>2 DEF ReadyAt, Blames, Attributed, NoDial
  <2>. QED
    BY <2>1, <2>2
<1>. QED
  BY <1>1, <1>4, <1>5, <1>6, <1>7, <1>8, <1>9 DEF ReqInv, Waiting

(* From the top of the loop to the next await or the answer.               *)
LEMMA LoopRuns ==
  ASSUME NEW r \in Requests, NEW q, NEW i, ReadyAt(q, i), Continue(r, q, i)
  PROVE  \E p : ReqInv(p) /\ Readable(p) /\ req' = [req EXCEPT ![r] = p]
<1>1. /\ q \in RequestRecords /\ q.cands \in Seq(Conns) /\ Len(q.cands) \in Nat
      /\ i \in 1..(Len(q.cands) + 1)
  BY DEF ReadyAt, RequestRecords
<1>2. PICK j \in i..(Len(q.cands) + 1) :
        IsNextStop(q, i, j) /\ req' = [req EXCEPT ![r] = StopAt(q, i, j)]
  BY DEF Continue
<1>3. CASE j = Len(q.cands) + 1
  <2>1. ReqInv(StopAt(q, i, j)) /\ StopAt(q, i, j).pc = "done"
    BY <1>2, <1>3, ExhaustionEffect
  <2>2. Readable(StopAt(q, i, j))
    BY <2>1 DEF Readable, Waiting
  <2>. QED
    BY <1>2, <2>1, <2>2
<1>4. CASE j \in i..Len(q.cands)
  <2>1. /\ ReqInv(StopAt(q, i, j))
        /\ Current(StopAt(q, i, j)) = q.cands[j]
    BY <1>2, <1>4, DialEffect
  <2>2. Readable(StopAt(q, i, j))
    BY <1>1, <1>2, <1>4, <2>1 DEF Readable, IsNextStop, Undialable
  <2>. QED
    BY <1>2, <2>1, <2>2
<1>5. j = Len(q.cands) + 1 \/ j \in i..Len(q.cands)
  BY <1>1, <1>2
<1>. QED
  BY ONLY <1>3, <1>4, <1>5

-----------------------------------------------------------------------------
(* The tables keep their types, whatever a dispatch writes to them.        *)
TablesType ==
  /\ conn \in [Conns -> [exists : BOOLEAN, enabled : BOOLEAN,
                         prio : Nat, keyOk : BOOLEAN]]
  /\ cool \in [Conns -> Nat]
  /\ used \in [Conns -> Nat]
  /\ phase \in 0..(WindowLen - 1)
  /\ cursor \in 0..NConns
  /\ strategy \in Strategies

LEMMA RecordDialType ==
  ASSUME TypeOK, NEW c \in Conns, RecordDial(c)
  PROVE  used' \in [Conns -> Nat]
BY DEF TypeOK, RecordDial

LEMMA MarkCooldownType ==
  ASSUME TypeOK, NEW c \in Conns, NEW n, NEW ticks \in Cooldowns(n), MarkCooldown(c, ticks)
  PROVE  cool' \in [Conns -> Nat]
<1>1. ticks \in Nat
  BY DispatchAssumption DEF Cooldowns
<1>. QED
  BY <1>1 DEF TypeOK, MarkCooldown

LEMMA ClearCooldownType ==
  ASSUME TypeOK, NEW c \in Conns, ClearCooldown(c)
  PROVE  cool' \in [Conns -> Nat]
BY DEF TypeOK, ClearCooldown

LEMMA CurrentType ==
  ASSUME NEW q, ReqInv(q), Waiting(q)
  PROVE  Current(q) \in Conns
<1>1. q.cands \in Seq(Conns) /\ q.attempt \in 1..Len(q.cands)
  BY DEF ReqInv, RequestRecords
<1>. QED
  BY <1>1 DEF Current

(* A step that gives one request new locals and leaves conn alone.         *)
LEMMA LocalStep ==
  ASSUME Inv, NEW r \in Requests, NEW p, ReqInv(p), Readable(p),
         req' = [req EXCEPT ![r] = p], UNCHANGED conn, TablesType'
  PROVE  Inv'
<1>1. \A s \in Requests : req'[s] = IF s = r THEN p ELSE req[s]
  BY DEF Inv, TypeOK
<1>2. p \in RequestRecords
  BY DEF ReqInv
<1>3. req' \in [Requests -> RequestRecords]
  BY <1>2 DEF Inv, TypeOK
<1>4. TypeOK'
  BY <1>3 DEF TypeOK, TablesType
<1>5. ASSUME NEW s \in Requests PROVE ReqInv(req'[s]) /\ Readable(req[s])'
  <2>1. CASE s = r
    BY <1>1, <2>1 DEF Readable
  <2>2. CASE s # r
    BY <1>1, <2>2 DEF Inv, Readable
  <2>. QED
    BY <2>1, <2>2
<1>. QED
  BY <1>4, <1>5 DEF Inv

(* A step that leaves every request's locals alone.                        *)
LEMMA EnvironmentStep ==
  ASSUME Inv, UNCHANGED req, TablesType',
         \A c \in Conns : conn'[c].exists => conn[c].exists
  PROVE  Inv'
<1>1. TypeOK'
  BY DEF Inv, TypeOK, TablesType
<1>2. ASSUME NEW s \in Requests PROVE ReqInv(req'[s]) /\ Readable(req[s])'
  <2>1. req[s] \in RequestRecords /\ ReqInv(req[s]) /\ Readable(req[s])
    BY DEF Inv, ReqInv
  <2>2. Waiting(req[s]) => Current(req[s]) \in Conns
    BY <2>1, CurrentType
  <2>. QED
    BY <2>1, <2>2 DEF Readable
<1>. QED
  BY <1>1, <1>2 DEF Inv

-----------------------------------------------------------------------------
LEMMA IdleInv == ReqInv(IdleRequest)
<1>1. NoAnswer \in Answers /\ NoDial \in [conn : 0..NConns, result : Statuses]
  BY DispatchAssumption DEF NoAnswer, NoDial, Answers, Statuses, Failures
<1>2. "none" \in Statuses /\ 0 \in 0..NConns
  BY DispatchAssumption DEF Statuses
<1>3. IdleRequest \in RequestRecords
  BY <1>1, <1>2 DEF IdleRequest, RequestRecords
<1>4. Blank(IdleRequest) /\ IdleRequest.pc = "idle"
  BY DEF IdleRequest, Blank, Blames
<1>. QED
  BY <1>3, <1>4 DEF ReqInv, Blank, Injective, Budget, Passed, Untouched, Waiting, NoAnswer

LEMMA RowsWiden ==
  ASSUME NEW A, NEW B, NEW C, NEW D, NEW A1, NEW C1,
         A \subseteq A1, B \subseteq A1, C \subseteq C1
  PROVE  [exists : A, enabled : B, prio : C, keyOk : D]
            \subseteq [exists : A1, enabled : A1, prio : C1, keyOk : D]
OBVIOUS

LEMMA InitInv == Init => Inv
<1>1. SUFFICES ASSUME Init PROVE Inv
  OBVIOUS
<1>2. IdleRequest \in RequestRecords
  BY IdleInv DEF ReqInv
<1>3. TypeOK
  <2>1. conn \in [Conns -> [exists : BOOLEAN, enabled : BOOLEAN, prio : Nat, keyOk : BOOLEAN]]
    <3>1. [exists : {TRUE}, enabled : {TRUE}, prio : {100}, keyOk : BOOLEAN]
            \subseteq [exists : BOOLEAN, enabled : BOOLEAN, prio : Nat, keyOk : BOOLEAN]
      <4>1. {TRUE} \subseteq BOOLEAN /\ {100} \subseteq Nat
        OBVIOUS
      <4>. QED
        BY <4>1, RowsWiden
    <3>. QED
      BY <1>1, <3>1 DEF Init
  <2>2. phase \in 0..(WindowLen - 1)
    BY <1>1, DispatchAssumption DEF Init
  <2>3. cursor \in 0..NConns
    BY <1>1, DispatchAssumption DEF Init
  <2>. QED
    BY <1>1, <1>2, <2>1, <2>2, <2>3 DEF Init, TypeOK
<1>4. ReqInv(IdleRequest)
  BY IdleInv
<1>5. ~Waiting(IdleRequest)
  BY DEF IdleRequest, Waiting
<1>. QED
  BY <1>1, <1>3, <1>4, <1>5 DEF Init, Inv, Readable

-----------------------------------------------------------------------------
(* One lemma per action.                                                   *)
LEMMA StartInv ==
  ASSUME Inv, NEW r \in Requests, Start(r)
  PROVE  Inv'
<1>. DEFINE q0 == req[r]
<1>1. ReqInv(q0) /\ q0 \in RequestRecords /\ Blank(q0) /\ q0.pc = "idle"
  BY DEF Inv, ReqInv, Start
<1>2. TablesType' /\ UNCHANGED conn
  BY DEF Inv, TypeOK, Start, TablesType
<1>3. Eligible \subseteq Conns
  BY DEF Eligible
<1>4. PICK sorted \in SortedListings(Eligible) :
        LET s == ApplyFallbackStrategy(sorted)
            q == [q0 EXCEPT !.cands = s,
                            !.rotating = (strategy = "round-robin"),
                            !.badKeys = {c \in Eligible : ~conn[c].keyOk}]
        IN IF s = <<>>
           THEN req' = [req EXCEPT ![r] =
                  Answer(q, [NoAnswer EXCEPT !.kind = "noCandidates"])]
           ELSE Continue(r, q, 1)
  BY DEF Start
<1>. DEFINE s == ApplyFallbackStrategy(sorted)
            bad == {c \in Eligible : ~conn[c].keyOk}
            q == [q0 EXCEPT !.cands = s,
                            !.rotating = (strategy = "round-robin"),
                            !.badKeys = bad]
<1>5. s \in Seq(Conns) /\ Injective(s) /\ Len(s) \in Nat
  BY <1>3, CandidatesType DEF Inv
<1>6. /\ q \in RequestRecords
      /\ q.cands = s /\ q.attempt = 0 /\ q.refreshed = {} /\ q.late = 0
      /\ q.dials = [c \in Conns |-> 0] /\ q.answer = NoAnswer
      /\ q.lastStatus = "none" /\ Blames(q)
  <2>1. bad \in SUBSET Conns /\ (strategy = "round-robin") \in BOOLEAN
    BY <1>3
  <2>. HIDE DEF s, bad
  <2>. QED
    BY <1>1, <1>5, <2>1 DEF RequestRecords, Blank, Blames
<1>. HIDE DEF q, s, bad
<1>7. CASE s = <<>>
  <2>. DEFINE a == [NoAnswer EXCEPT !.kind = "noCandidates"]
              p == Answer(q, a)
  <2>1. req' = [req EXCEPT ![r] = p]
    BY <1>4, <1>7 DEF q, s, bad
  <2>2. a \in Answers /\ a.kind = "noCandidates"
    BY DispatchAssumption DEF NoAnswer, Answers, Statuses, Failures
  <2>. HIDE DEF a
  <2>3. /\ p \in RequestRecords /\ p.pc = "done" /\ p.answer = a
        /\ p.cands = s /\ p.attempt = 0 /\ p.refreshed = {} /\ p.late = 0
        /\ p.dials = [c \in Conns |-> 0]
    BY <1>6, <2>2 DEF Answer, RequestRecords
  <2>. HIDE DEF p
  <2>4. ReqInv(p) /\ Readable(p)
    BY <1>5, <1>7, <2>2, <2>3
       DEF ReqInv, Readable, Injective, Budget, Passed, Untouched, Waiting
  <2>. QED
    BY <1>2, <2>1, <2>4, LocalStep
<1>8. CASE s # <<>>
  <2>1. Continue(r, q, 1)
    BY <1>4, <1>8 DEF q, s, bad
  <2>2. Len(s) > 0
    BY <1>5, <1>8
  <2>3. ReadyAt(q, 1)
    BY <1>5, <1>6, <2>2 DEF ReadyAt, Budget, Passed, Untouched
  <2>. QED
    BY <1>2, <2>1, <2>3, LoopRuns, LocalStep
<1>. QED
  BY <1>7, <1>8

(* The verdict on the current connection is in: p is q with the blame put   *)
(* on it, and is ready for the next candidate.                              *)
Verdict(p, q, status) ==
  /\ p \in RequestRecords
  /\ p.cands = q.cands /\ p.badKeys = q.badKeys /\ p.dials = q.dials
  /\ p.late = q.late /\ p.attempt = q.attempt /\ p.answer = q.answer
  /\ p.refreshed = q.refreshed \/ (OAuth /\ p.refreshed = q.refreshed \cup {Current(q)})
  /\ p.lastStatus = status /\ p.lastMessage = status /\ p.lastConn = Current(q)
  /\ p.lastDial = [conn |-> Current(q), result |-> status]

LEMMA NextCandidate ==
  ASSUME NEW q, ReqInv(q), Waiting(q), q.late = 0,
         NEW st \in Failures, NEW p, Verdict(p, q, st)
  PROVE  ReadyAt(p, p.attempt + 1)
<1>1. /\ q \in RequestRecords /\ Len(q.cands) \in Nat
      /\ q.attempt \in 1..Len(q.cands) /\ Current(q) \in Conns
      /\ q.dials[Current(q)] > 0 /\ q.answer = NoAnswer
      /\ Current(q) = q.cands[q.attempt]
  BY CurrentType DEF ReqInv, RequestRecords, Current
<1>2. Budget(p)
  <2>1. Budget(q) /\ \A c \in Conns : ListedIn(p, c) <=> ListedIn(q, c)
    BY DEF ReqInv, Verdict, ListedIn
  <2>2. \A c \in Conns : q.dials[c] \in Nat
    BY <1>1 DEF RequestRecords
  <2>. QED
    BY <1>1, <2>1, <2>2 DEF Budget, Verdict
<1>3. Passed(p, p.attempt + 1)
  <2>1. ASSUME NEW k \in 1..Len(q.cands), k < q.attempt + 1
        PROVE  TriedOrUnreadable(p, q.cands[k])
    <3>1. CASE k < q.attempt
      BY <3>1 DEF ReqInv, Passed, TriedOrUnreadable, Unreadable, Verdict
    <3>2. CASE k = q.attempt
      BY <1>1, <3>2 DEF TriedOrUnreadable, Verdict
    <3>. QED
      BY <1>1, <2>1, <3>1, <3>2
  <2>. QED
    BY <2>1 DEF Passed, Verdict
<1>4. Untouched(p, p.attempt + 1)
  BY DEF ReqInv, Untouched, Verdict
<1>5. Blames(p) /\ p.lastStatus # "none"
  BY DEF Verdict, Blames, Failures
<1>6. Injective(p.cands) /\ p.attempt + 1 \in 1..(Len(p.cands) + 1) /\ p.late = 0
  BY <1>1 DEF Verdict, ReqInv
<1>. QED
  BY <1>1, <1>2, <1>3, <1>4, <1>5, <1>6 DEF ReadyAt, Verdict

(* Closing a waiting request with an answer other than a failure.          *)
LEMMA ClosingInv ==
  ASSUME NEW q, ReqInv(q), Waiting(q), NEW a \in Answers,
         a.kind \in {"ok", "aborted", "threw"}, q.late > 0 => a.kind = "aborted",
         NEW d \in [conn : 0..NConns, result : Statuses]
  PROVE  ReqInv(Answer([q EXCEPT !.lastDial = d], a))
<1>. DEFINE p == Answer([q EXCEPT !.lastDial = d], a)
<1>1. /\ q \in RequestRecords /\ Budget(q) /\ Injective(q.cands)
      /\ Passed(q, q.attempt) /\ Untouched(q, q.attempt + 1) /\ q.late <= 1
  BY DEF ReqInv
<1>2. /\ p \in RequestRecords
      /\ p.pc = "done" /\ p.answer = a /\ p.cands = q.cands /\ p.badKeys = q.badKeys
      /\ p.dials = q.dials /\ p.late = q.late /\ p.attempt = q.attempt
      /\ p.refreshed = q.refreshed
  BY <1>1 DEF Answer, RequestRecords
<1>. HIDE DEF p
<1>3. Budget(p) /\ Passed(p, p.attempt) /\ Untouched(p, p.attempt + 1)
  BY <1>1, <1>2 DEF Budget, Passed, Untouched, ListedIn, TriedOrUnreadable, Unreadable
<1>4. ReqInv(p)
  BY <1>1, <1>2, <1>3 DEF ReqInv, Waiting
<1>. QED
  BY <1>4 DEF p

(* What every dial action may use about the request it is for.             *)
LEMMA WaitingFacts ==
  ASSUME Inv, NEW r \in Requests, Waiting(req[r])
  PROVE  /\ ReqInv(req[r]) /\ Readable(req[r]) /\ req[r] \in RequestRecords
         /\ Current(req[r]) \in Conns
         /\ ~req[r].aborted => req[r].late = 0
         /\ req[r].pc = "refreshing" => req[r].late = 0
         /\ req[r].late \in Nat
<1>1. ReqInv(req[r]) /\ Readable(req[r])
  BY DEF Inv
<1>2. req[r] \in RequestRecords /\ req[r].late \in Nat /\ Current(req[r]) \in Conns
  BY <1>1, CurrentType DEF ReqInv, RequestRecords
<1>3. ~req[r].aborted => req[r].late = 0
  BY <1>1, <1>2 DEF ReqInv, Waiting
<1>. QED
  BY <1>1, <1>2, <1>3 DEF ReqInv

LEMMA ConnInRange == \A c \in Conns : c \in 0..NConns
BY DispatchAssumption DEF Conns

LEMMA DialOkInv ==
  ASSUME Inv, NEW r \in Requests, DialOk(r)
  PROVE  Inv'
<1>. DEFINE q == req[r]
            c == Current(q)
            a == [NoAnswer EXCEPT !.kind = "ok", !.conn = c]
            d == [conn |-> c, result |-> "none"]
<1>1. /\ ReqInv(q) /\ Waiting(q) /\ q \in RequestRecords /\ c \in Conns
      /\ q.late = 0 /\ ~q.aborted
  BY WaitingFacts DEF DialOk, Waiting
<1>2. TablesType' /\ UNCHANGED conn
  <2>1. used' \in [Conns -> Nat] /\ cool' \in [Conns -> Nat]
    BY <1>1, RecordDialType, ClearCooldownType DEF DialOk, Inv
  <2>2. cursor' \in 0..NConns
    BY <1>1, ConnInRange DEF DialOk, Inv, TypeOK
  <2>. QED
    BY <2>1, <2>2 DEF DialOk, Inv, TypeOK, TablesType
<1>3. a \in Answers /\ a.kind = "ok" /\ d \in [conn : 0..NConns, result : Statuses]
  BY <1>1, ConnInRange DEF NoAnswer, Answers, Statuses
<1>4. req' = [req EXCEPT ![r] = Answer([q EXCEPT !.lastDial = d], a)]
  BY DEF DialOk, Answered
<1>. HIDE DEF a, d
<1>5. ReqInv(Answer([q EXCEPT !.lastDial = d], a))
  BY <1>1, <1>3, ClosingInv
<1>6. Readable(Answer([q EXCEPT !.lastDial = d], a))
  BY <1>1 DEF Answer, Readable, Waiting, RequestRecords
<1>. QED
  BY <1>2, <1>4, <1>5, <1>6, LocalStep

(* An answer that leaves lastDial alone.                                   *)
LEMMA ClosingStep ==
  ASSUME Inv, NEW r \in Requests, Waiting(req[r]), NEW a \in Answers,
         a.kind \in {"aborted", "threw"}, req[r].late > 0 => a.kind = "aborted",
         req' = [req EXCEPT ![r] = Answer(req[r], a)], UNCHANGED conn, TablesType'
  PROVE  Inv'
<1>. DEFINE q == req[r]
<1>1. ReqInv(q) /\ q \in RequestRecords
  BY WaitingFacts
<1>2. /\ q.lastDial \in [conn : 0..NConns, result : Statuses]
      /\ [q EXCEPT !.lastDial = q.lastDial] = q
  BY <1>1 DEF RequestRecords
<1>3. ReqInv(Answer(q, a))
  <2>1. ReqInv(Answer([q EXCEPT !.lastDial = q.lastDial], a))
    BY <1>1, <1>2, ClosingInv
  <2>. QED
    BY <1>2, <2>1
<1>4. Readable(Answer(q, a))
  BY <1>1 DEF Answer, Readable, Waiting, RequestRecords
<1>. QED
  BY <1>3, <1>4, LocalStep

LEMMA DialAbortedInv ==
  ASSUME Inv, NEW r \in Requests, DialAborted(r)
  PROVE  Inv'
<1>. DEFINE a == [NoAnswer EXCEPT !.kind = "aborted", !.conn = Current(req[r])]
<1>1. Waiting(req[r]) /\ Current(req[r]) \in Conns
  BY WaitingFacts DEF DialAborted, Waiting
<1>2. TablesType' /\ UNCHANGED conn
  <2>1. used' \in [Conns -> Nat]
    BY <1>1, RecordDialType DEF DialAborted, Inv
  <2>. QED
    BY <2>1 DEF DialAborted, Inv, TypeOK, TablesType
<1>3. a \in Answers /\ a.kind = "aborted"
  BY <1>1, ConnInRange DEF NoAnswer, Answers, Statuses
<1>4. req' = [req EXCEPT ![r] = Answer(req[r], a)]
  BY DEF DialAborted
<1>. HIDE DEF a
<1>. QED
  BY <1>1, <1>2, <1>3, <1>4, ClosingStep

LEMMA RefreshThrewInv ==
  ASSUME Inv, NEW r \in Requests, RefreshThrew(r)
  PROVE  Inv'
<1>. DEFINE a == [NoAnswer EXCEPT !.kind = "threw", !.conn = Current(req[r])]
<1>1. /\ Waiting(req[r]) /\ Current(req[r]) \in Conns /\ req[r].late = 0
  BY WaitingFacts DEF RefreshThrew, Waiting
<1>2. TablesType' /\ UNCHANGED conn
  BY DEF RefreshThrew, Inv, TypeOK, TablesType
<1>3. a \in Answers /\ a.kind = "threw"
  BY <1>1, ConnInRange DEF NoAnswer, Answers, Statuses
<1>4. req' = [req EXCEPT ![r] = Answer(req[r], a)]
  BY DEF RefreshThrew
<1>. HIDE DEF a
<1>5. ~(req[r].late > 0)
  BY <1>1
<1>. QED
  BY <1>1, <1>2, <1>3, <1>4, <1>5, ClosingStep

(* A verdict that moves the loop on to the next candidate.                 *)
LEMMA VerdictStep ==
  ASSUME Inv, NEW r \in Requests, Waiting(req[r]), req[r].late = 0,
         NEW st \in Failures, NEW p, Verdict(p, req[r], st),
         Continue(r, p, p.attempt + 1), UNCHANGED conn, TablesType'
  PROVE  Inv'
<1>1. ReadyAt(p, p.attempt + 1)
  BY WaitingFacts, NextCandidate
<1>. QED
  BY <1>1, LoopRuns, LocalStep

(* Answered and Blame compose to a verdict; the token of the connection may *)
(* count as refreshed in between.                                           *)
LEMMA VerdictOf ==
  ASSUME NEW q, ReqInv(q), Waiting(q), NEW st \in Failures,
         NEW g, g \in RequestRecords,
         g.cands = q.cands, g.badKeys = q.badKeys, g.dials = q.dials,
         g.late = q.late, g.attempt = q.attempt, g.answer = q.answer,
         g.refreshed = q.refreshed \/ (OAuth /\ g.refreshed = q.refreshed \cup {Current(q)}),
         g.lastDial = [conn |-> Current(q), result |-> st]
  PROVE  Verdict(Blame(g, st), q, st) /\ Blame(g, st).attempt = q.attempt
<1>1. Current(g) = Current(q) /\ Current(q) \in 0..NConns /\ st \in Statuses
  BY CurrentType, ConnInRange DEF Current, Statuses
<1>2. Blame(g, st) = [g EXCEPT !.lastStatus = st, !.lastMessage = st, !.lastConn = Current(q)]
  BY <1>1 DEF Blame
<1>. QED
  BY <1>1, <1>2 DEF Verdict, RequestRecords

LEMMA AnsweredType ==
  ASSUME NEW q, ReqInv(q), Waiting(q), NEW st \in Failures
  PROVE  /\ Answered(q, st) \in RequestRecords
         /\ Answered(q, st) = [q EXCEPT !.lastDial = [conn |-> Current(q), result |-> st]]
<1>1. [conn |-> Current(q), result |-> st] \in [conn : 0..NConns, result : Statuses]
  BY CurrentType, ConnInRange DEF Statuses
<1>2. Answered(q, st) = [q EXCEPT !.lastDial = [conn |-> Current(q), result |-> st]]
  BY DEF Answered
<1>. QED
  BY <1>1, <1>2 DEF ReqInv, RequestRecords

LEMMA DialRetryableInv ==
  ASSUME Inv, NEW r \in Requests, DialRetryable(r)
  PROVE  Inv'
<1>. DEFINE q == req[r]
            p == Blame(Answered(q, "retryable"), "retryable")
<1>1. /\ ReqInv(q) /\ Waiting(q) /\ q \in RequestRecords /\ Current(q) \in Conns
      /\ q.late = 0
  BY WaitingFacts DEF DialRetryable, Waiting
<1>2. TablesType' /\ UNCHANGED conn
  <2>1. used' \in [Conns -> Nat] /\ cool' \in [Conns -> Nat]
    BY <1>1, RecordDialType, MarkCooldownType DEF DialRetryable, Inv
  <2>. QED
    BY <2>1 DEF DialRetryable, Inv, TypeOK, TablesType
<1>3. Verdict(p, q, "retryable") /\ p.attempt = q.attempt
  <2>. DEFINE g == Answered(q, "retryable")
  <2>1. "retryable" \in Failures
    BY DEF Failures
  <2>2. /\ g \in RequestRecords
        /\ g = [q EXCEPT !.lastDial = [conn |-> Current(q), result |-> "retryable"]]
    BY <1>1, <2>1, AnsweredType
  <2>3. /\ g.cands = q.cands /\ g.badKeys = q.badKeys /\ g.dials = q.dials
        /\ g.late = q.late /\ g.attempt = q.attempt /\ g.answer = q.answer
        /\ g.refreshed = q.refreshed
        /\ g.lastDial = [conn |-> Current(q), result |-> "retryable"]
    BY <1>1, <2>2 DEF RequestRecords
  <2>. HIDE DEF g
  <2>4. Verdict(Blame(g, "retryable"), q, "retryable") /\ Blame(g, "retryable").attempt = q.attempt
    BY <1>1, <2>1, <2>2, <2>3, VerdictOf
  <2>. QED
    BY <2>4 DEF g
<1>4. Continue(r, p, q.attempt + 1) /\ "retryable" \in Failures
  BY DEF DialRetryable, Failures
<1>. HIDE DEF p
<1>. QED
  BY <1>1, <1>2, <1>3, <1>4, VerdictStep

LEMMA DialFatalInv ==
  ASSUME Inv, NEW r \in Requests, DialFatal(r)
  PROVE  Inv'
<1>. DEFINE q == req[r]
<1>1. /\ ReqInv(q) /\ Waiting(q) /\ q \in RequestRecords /\ Current(q) \in Conns
      /\ q.late = 0 /\ Len(q.cands) \in Nat
  BY WaitingFacts DEF DialFatal, Waiting, RequestRecords
<1>2. TablesType' /\ UNCHANGED conn
  <2>1. used' \in [Conns -> Nat]
    BY <1>1, RecordDialType DEF DialFatal, Inv
  <2>. QED
    BY <2>1 DEF DialFatal, Inv, TypeOK, TablesType
<1>3. PICK st \in (IF OAuth THEN {"fatal"} ELSE {"fatal", "unauthorized"}) :
        req' = [req EXCEPT ![r] = AllFailed(Blame(Answered(q, st), st))]
  BY DEF DialFatal
<1>4. st \in Failures /\ (st = "fatal" \/ (~OAuth /\ st = "unauthorized"))
  BY <1>3 DEF Failures
<1>. DEFINE g == Answered(q, st)
            b == Blame(g, st)
            p == AllFailed(b)
<1>5. /\ g \in RequestRecords
      /\ g = [q EXCEPT !.lastDial = [conn |-> Current(q), result |-> st]]
  BY <1>1, <1>4, AnsweredType
<1>6. /\ g.cands = q.cands /\ g.badKeys = q.badKeys /\ g.dials = q.dials
      /\ g.late = q.late /\ g.attempt = q.attempt /\ g.answer = q.answer
      /\ g.refreshed = q.refreshed
      /\ g.lastDial = [conn |-> Current(q), result |-> st]
  BY <1>1, <1>5 DEF RequestRecords
<1>. HIDE DEF g
<1>7. Verdict(b, q, st) /\ b.attempt = q.attempt
  BY <1>1, <1>4, <1>5, <1>6, VerdictOf
<1>. HIDE DEF b
<1>8. ReadyAt(b, b.attempt + 1)
  BY <1>1, <1>4, <1>7, NextCandidate
<1>9. /\ b \in RequestRecords /\ b.lastStatus = st /\ b.lastMessage = st
      /\ b.attempt \in Nat /\ st # "none" /\ b.late = 0
      /\ b.lastDial = [conn |-> b.lastConn, result |-> st]
  BY <1>4, <1>7, <1>8 DEF ReadyAt, Verdict, Failures, RequestRecords
<1>10. /\ p = [b EXCEPT !.pc = "done", !.answer = p.answer]
       /\ p.answer = [kind |-> "failed", status |-> st, message |-> st, conn |-> b.lastConn]
  BY <1>9 DEF AllFailed, Answer, RequestRecords
<1>11. p.answer \in Answers
  BY <1>4, <1>9, <1>10 DEF Answers, Statuses, RequestRecords
<1>12. /\ p \in RequestRecords /\ p.pc = "done" /\ p.cands = b.cands /\ p.dials = b.dials
       /\ p.late = 0 /\ p.attempt = b.attempt /\ p.refreshed = b.refreshed
       /\ p.badKeys = b.badKeys /\ p.lastStatus = st /\ p.lastDial = b.lastDial
  BY <1>9, <1>10, <1>11 DEF RequestRecords
<1>. HIDE DEF p
<1>13. Budget(p) /\ Injective(p.cands)
  BY <1>8, <1>12 DEF ReadyAt, Budget, ListedIn
<1>14. Passed(p, p.attempt) /\ Untouched(p, p.attempt + 1)
  BY <1>8, <1>9, <1>12 DEF ReadyAt, Passed, Untouched, TriedOrUnreadable, Unreadable
<1>15. Attributed(p) /\ EndedEarly(p) /\ p.answer.kind = "failed"
  BY <1>4, <1>9, <1>10, <1>12 DEF Attributed, NoDial, EndedEarly
<1>16. ReqInv(p) /\ Readable(p)
  BY <1>12, <1>13, <1>14, <1>15 DEF ReqInv, Readable, Waiting
<1>17. req' = [req EXCEPT ![r] = p]
  BY <1>3 DEF p, b, g
<1>. QED
  BY <1>2, <1>16, <1>17, LocalStep

LEMMA DialUnauthorizedInv ==
  ASSUME Inv, NEW r \in Requests, DialUnauthorized(r)
  PROVE  Inv'
<1>. DEFINE q == req[r]
            c == Current(q)
            g == Answered(q, "unauthorized")
            p == [g EXCEPT !.pc = "refreshing", !.refreshed = @ \cup {c}]
<1>1. /\ ReqInv(q) /\ Readable(q) /\ Waiting(q) /\ q \in RequestRecords /\ c \in Conns
      /\ q.late = 0 /\ OAuth /\ c \notin q.refreshed
  BY WaitingFacts DEF DialUnauthorized, Waiting
<1>2. TablesType' /\ UNCHANGED conn
  <2>1. used' \in [Conns -> Nat]
    BY <1>1, RecordDialType DEF DialUnauthorized, Inv
  <2>. QED
    BY <2>1 DEF DialUnauthorized, Inv, TypeOK, TablesType
<1>3. req' = [req EXCEPT ![r] = p]
  BY DEF DialUnauthorized
<1>4. /\ g \in RequestRecords
      /\ g = [q EXCEPT !.lastDial = [conn |-> c, result |-> "unauthorized"]]
  BY <1>1, AnsweredType DEF Failures
<1>. HIDE DEF g
<1>5. /\ p \in RequestRecords /\ p.pc = "refreshing" /\ p.cands = q.cands
      /\ p.dials = q.dials /\ p.late = 0 /\ p.attempt = q.attempt
      /\ p.answer = q.answer /\ p.badKeys = q.badKeys
      /\ p.refreshed = q.refreshed \cup {c}
      /\ p.lastDial = [conn |-> c, result |-> "unauthorized"]
  BY <1>1, <1>4 DEF RequestRecords
<1>. HIDE DEF p
<1>6. Current(p) = c /\ q.dials[c] \in Nat /\ q.dials[c] > 0
  BY <1>1, <1>5 DEF Current, ReqInv, RequestRecords
<1>7. q.dials[c] = 1
  BY <1>1, <1>6 DEF ReqInv, Budget
<1>8. Budget(p)
  <2>1. Budget(q) /\ \A x \in Conns : ListedIn(p, x) <=> ListedIn(q, x)
    BY <1>1, <1>5 DEF ReqInv, ListedIn
  <2>. QED
    BY <1>1, <1>5, <1>7, <2>1 DEF Budget
<1>9. Passed(p, p.attempt) /\ Untouched(p, p.attempt + 1)
  BY <1>1, <1>5 DEF ReqInv, Passed, Untouched, TriedOrUnreadable, Unreadable
<1>10. ReqInv(p)
  BY <1>1, <1>5, <1>6, <1>7, <1>8, <1>9 DEF ReqInv, Waiting, NoAnswer
<1>11. Readable(p)
  BY <1>1, <1>6 DEF Readable
<1>. QED
  BY <1>2, <1>3, <1>10, <1>11, LocalStep

LEMMA DialUnauthorizedForGoodInv ==
  ASSUME Inv, NEW r \in Requests, DialUnauthorizedForGood(r)
  PROVE  Inv'
<1>. DEFINE q == req[r]
            c == Current(q)
            a == Answered(q, "unauthorized")
            g == [a EXCEPT !.refreshed = @ \cup {c}]
            p == Blame(g, "unauthorized")
<1>1. /\ ReqInv(q) /\ Waiting(q) /\ q \in RequestRecords /\ c \in Conns
      /\ q.late = 0 /\ OAuth
  BY WaitingFacts DEF DialUnauthorizedForGood, Waiting
<1>2. GiveUpOn(r, g) /\ RecordDial(c)
  BY DEF DialUnauthorizedForGood
<1>3. "unauthorized" \in Failures
  BY DEF Failures
<1>4. /\ a \in RequestRecords
      /\ a = [q EXCEPT !.lastDial = [conn |-> c, result |-> "unauthorized"]]
  BY <1>1, <1>3, AnsweredType
<1>. HIDE DEF a
<1>5. /\ g \in RequestRecords
      /\ g.cands = q.cands /\ g.badKeys = q.badKeys /\ g.dials = q.dials
      /\ g.late = q.late /\ g.attempt = q.attempt /\ g.answer = q.answer
      /\ g.refreshed = q.refreshed \cup {c}
      /\ g.lastDial = [conn |-> c, result |-> "unauthorized"]
  BY <1>1, <1>4 DEF RequestRecords
<1>. HIDE DEF g
<1>6. Verdict(p, q, "unauthorized") /\ p.attempt = q.attempt
  BY <1>1, <1>3, <1>5, VerdictOf
<1>7. Continue(r, p, p.attempt + 1)
  BY <1>2, <1>5, <1>6 DEF GiveUpOn
<1>8. TablesType' /\ UNCHANGED conn
  <2>1. Current(g) = c
    BY <1>5 DEF Current
  <2>2. used' \in [Conns -> Nat] /\ cool' \in [Conns -> Nat]
    BY <1>1, <1>2, <2>1, RecordDialType, MarkCooldownType DEF GiveUpOn, Inv
  <2>. QED
    BY <1>2, <2>2 DEF GiveUpOn, Inv, TypeOK, TablesType
<1>. HIDE DEF p
<1>. QED
  BY <1>1, <1>3, <1>6, <1>7, <1>8, VerdictStep

LEMMA RefreshFailedInv ==
  ASSUME Inv, NEW r \in Requests, RefreshFailed(r)
  PROVE  Inv'
<1>. DEFINE q == req[r]
            p == Blame(q, "unauthorized")
<1>1. /\ ReqInv(q) /\ Waiting(q) /\ q \in RequestRecords /\ Current(q) \in Conns
      /\ q.late = 0 /\ q.lastDial = [conn |-> Current(q), result |-> "unauthorized"]
  BY WaitingFacts DEF RefreshFailed, Waiting, ReqInv
<1>2. "unauthorized" \in Failures
  BY DEF Failures
<1>3. Verdict(p, q, "unauthorized") /\ p.attempt = q.attempt
  BY <1>1, <1>2, VerdictOf
<1>4. Continue(r, p, p.attempt + 1)
  BY <1>3 DEF RefreshFailed, GiveUpOn
<1>5. TablesType' /\ UNCHANGED conn
  <2>1. cool' \in [Conns -> Nat]
    BY <1>1, MarkCooldownType DEF RefreshFailed, GiveUpOn, Inv
  <2>. QED
    BY <2>1 DEF RefreshFailed, GiveUpOn, Inv, TypeOK, TablesType
<1>. HIDE DEF p
<1>. QED
  BY <1>1, <1>2, <1>3, <1>4, <1>5, VerdictStep

(* The retry after a refresh: the same candidate is dialed a second time.  *)
LEMMA RetryEffect ==
  ASSUME NEW q, ReqInv(q), q.pc = "refreshing", NEW i, NEW j, i = q.attempt, j = i
  PROVE  /\ ReqInv(StopAt(q, i, j))
         /\ Current(StopAt(q, i, j)) = Current(q)
<1>. DEFINE p == StopAt(q, i, j)
            c == Current(q)
<1>1. /\ q \in RequestRecords /\ q.cands \in Seq(Conns) /\ Len(q.cands) \in Nat
      /\ i \in Nat /\ j \in 1..Len(q.cands) /\ q.dials \in [Conns -> Nat]
      /\ c \in Conns /\ c = q.cands[j]
  BY CurrentType DEF ReqInv, RequestRecords, Waiting, Current
<1>2. /\ c \notin q.badKeys /\ c \in q.refreshed /\ q.dials[c] = 1 /\ OAuth
      /\ q.late = 0 /\ q.answer = NoAnswer
  BY DEF ReqInv, Waiting
<1>e. q \in RequestRecords /\ i \in Nat /\ j \in Nat /\ j <= Len(q.cands)
  BY <1>1
<1>3. p = [q EXCEPT !.skipped = q.skipped \/ i < j,
                    !.pc = "dialing",
                    !.attempt = j,
                    !.dials = [q.dials EXCEPT ![q.cands[j]] = @ + 1],
                    !.late = IF q.aborted THEN q.late + 1 ELSE q.late]
  BY ONLY <1>e DEF StopAt, Dial, RequestRecords
<1>. HIDE DEF p
<1>4. p \in RequestRecords
  <2>1. [q.dials EXCEPT ![q.cands[j]] = @ + 1] \in [Conns -> Nat]
    BY <1>1
  <2>2. (q.skipped \/ i < j) \in BOOLEAN /\ (IF q.aborted THEN q.late + 1 ELSE q.late) \in Nat
    BY <1>1 DEF RequestRecords
  <2>3. q \in RequestRecords /\ j \in Nat
    BY <1>1
  <2>. QED
    BY ONLY <1>3, <2>1, <2>2, <2>3, DialType
<1>5. /\ p.pc = "dialing" /\ p.attempt = j /\ p.cands = q.cands /\ p.answer = q.answer
      /\ p.dials = [q.dials EXCEPT ![q.cands[j]] = @ + 1]
      /\ p.late = (IF q.aborted THEN q.late + 1 ELSE q.late) /\ p.aborted = q.aborted
      /\ p.refreshed = q.refreshed /\ p.badKeys = q.badKeys
  BY ONLY <1>3, <1>e DEF RequestRecords
<1>6. \A x \in Conns : p.dials[x] = IF x = c THEN 2 ELSE q.dials[x]
  BY <1>1, <1>2, <1>5
<1>. HIDE DEF c
<1>7. Budget(p)
  <2>1. Budget(q) /\ \A x \in Conns : ListedIn(p, x) <=> ListedIn(q, x)
    BY <1>1, <1>5 DEF ReqInv, ListedIn
  <2>2. ListedIn(p, c)
    BY <1>1, <1>5 DEF ListedIn
  <2>. QED
    BY <1>1, <1>2, <1>5, <1>6, <2>1, <2>2 DEF Budget
<1>8. \A k \in 1..Len(q.cands) : q.cands[k] \in Conns /\ (k # j => q.cands[k] # c)
  BY <1>1 DEF ReqInv, Injective
<1>9. Passed(p, j)
  <2>1. ASSUME NEW k \in 1..Len(q.cands), k < j
        PROVE  TriedOrUnreadable(p, q.cands[k])
    <3>1. TriedOrUnreadable(q, q.cands[k])
      BY <1>1, <2>1 DEF ReqInv, Passed
    <3>. QED
      BY <1>1, <1>5, <1>6, <1>8, <2>1, <3>1 DEF TriedOrUnreadable, Unreadable
  <2>. QED
    BY <1>5, <2>1 DEF Passed
<1>10. Untouched(p, j + 1)
  <2>1. ASSUME NEW k \in 1..Len(q.cands), k >= j + 1
        PROVE  p.dials[q.cands[k]] = 0
    <3>1. k # j /\ q.dials[q.cands[k]] = 0
      BY <1>1, <2>1 DEF ReqInv, Untouched
    <3>. QED
      BY <1>6, <1>8, <3>1
  <2>. QED
    BY <1>5, <2>1 DEF Untouched
<1>11. Current(p) = c
  BY <1>1, <1>5 DEF Current
<1>12. p.late <= 1 /\ (p.late > 0 => p.aborted) /\ Injective(p.cands)
  BY <1>2, <1>5 DEF ReqInv
<1>13. p.dials[c] = 2
  BY <1>1, <1>6
<1>14. ReqInv(p)
  BY <1>1, <1>2, <1>4, <1>5, <1>7, <1>9, <1>10, <1>11, <1>12, <1>13
     DEF ReqInv, Waiting, NoAnswer
<1>. QED
  BY <1>11, <1>14 DEF p, c

(* No candidate is skipped on the retry, because the current one was       *)
(* readable when it was first dialed.                                      *)
LEMMA RefreshOkInv ==
  ASSUME Inv, NEW r \in Requests, RefreshOk(r)
  PROVE  Inv'
<1>. DEFINE q == req[r]
            n == q.attempt
<1>1. /\ ReqInv(q) /\ Readable(q) /\ Waiting(q) /\ q \in RequestRecords
      /\ Current(q) \in Conns /\ OAuth /\ conn[Current(q)].exists /\ q.pc = "refreshing"
  BY WaitingFacts DEF RefreshOk, Waiting, ReqInv
<1>2. /\ n \in 1..Len(q.cands) /\ Len(q.cands) \in Nat /\ Current(q) = q.cands[n]
      /\ Current(q) \notin q.badKeys
  BY <1>1 DEF ReqInv, RequestRecords, Current
<1>3. TablesType' /\ UNCHANGED conn
  BY DEF RefreshOk, Inv, TypeOK, TablesType
<1>4. PICK j \in n..(Len(q.cands) + 1) :
        IsNextStop(q, n, j) /\ req' = [req EXCEPT ![r] = StopAt(q, n, j)]
  BY DEF RefreshOk, Continue
<1>5. ~Undialable(q, q.cands[n])
  BY <1>1, <1>2 DEF Undialable, Readable
<1>6. j = n
  BY <1>2, <1>4, <1>5 DEF IsNextStop
<1>7. /\ ReqInv(StopAt(q, n, j))
      /\ Current(StopAt(q, n, j)) = Current(q)
  BY <1>1, <1>6, RetryEffect
<1>8. Readable(StopAt(q, n, j))
  BY <1>1, <1>7 DEF Readable
<1>. QED
  BY <1>3, <1>4, <1>7, <1>8, LocalStep

LEMMA ReleaseInv ==
  ASSUME Inv, NEW r \in Requests, Release(r)
  PROVE  Inv'
<1>1. TablesType' /\ UNCHANGED conn
  BY DEF Release, Inv, TypeOK, TablesType
<1>2. Readable(IdleRequest)
  BY DEF Readable, Waiting, IdleRequest
<1>. QED
  BY <1>1, <1>2, IdleInv, LocalStep DEF Release

LEMMA AbortInv ==
  ASSUME Inv, NEW r \in Requests, Abort(r)
  PROVE  Inv'
<1>. DEFINE q == req[r]
            p == [q EXCEPT !.aborted = TRUE]
<1>1. TablesType' /\ UNCHANGED conn
  BY DEF Abort, Inv, TypeOK, TablesType
<1>2. ReqInv(q) /\ Readable(q) /\ q \in RequestRecords /\ q.pc # "done" /\ ~q.aborted
  BY DEF Inv, ReqInv, Abort
<1>3. /\ p \in RequestRecords /\ p.pc = q.pc /\ p.cands = q.cands
      /\ p.dials = q.dials /\ p.late = q.late /\ p.attempt = q.attempt
      /\ p.answer = q.answer /\ p.badKeys = q.badKeys /\ p.refreshed = q.refreshed
      /\ p.lastDial = q.lastDial /\ p.lastStatus = q.lastStatus
      /\ p.lastMessage = q.lastMessage /\ p.lastConn = q.lastConn
  BY <1>2 DEF RequestRecords
<1>4. req' = [req EXCEPT ![r] = p]
  BY DEF Abort
<1>. HIDE DEF p
<1>5. Budget(p) /\ Passed(p, p.attempt) /\ Untouched(p, p.attempt + 1) /\ Current(p) = Current(q)
  BY <1>2, <1>3
     DEF ReqInv, Budget, ListedIn, Passed, Untouched, TriedOrUnreadable, Unreadable, Current
<1>6. q.late = 0
  BY <1>2 DEF ReqInv, RequestRecords
<1>7. q.pc = "idle" => Blank(p)
  BY <1>2, <1>3 DEF ReqInv, Blank, Blames
<1>8. q.answer.kind # "failed"
  BY <1>2 DEF ReqInv
<1>9. ReqInv(p)
  BY <1>2, <1>3, <1>5, <1>6, <1>7, <1>8 DEF ReqInv, Waiting
<1>10. Readable(p)
  BY <1>2, <1>3, <1>5 DEF Readable, Waiting
<1>. QED
  BY <1>1, <1>4, <1>9, <1>10, LocalStep

LEMMA EnvironmentInv ==
  ASSUME Inv, Tick \/ Admin
  PROVE  Inv'
<1>1. CASE Tick
  <2>1. phase' \in 0..(WindowLen - 1)
    <3>1. phase \in Nat /\ WindowLen \in Nat \ {0}
      BY DispatchAssumption DEF Inv, TypeOK
    <3>. QED
      BY <1>1, <3>1 DEF Tick
  <2>2. used' \in [Conns -> Nat] /\ cool' \in [Conns -> Nat]
    BY <1>1 DEF Tick, Inv, TypeOK
  <2>. QED
    BY <1>1, <2>1, <2>2, EnvironmentStep DEF Tick, Inv, TypeOK, TablesType
<1>2. CASE \E c \in Conns : Toggle(c) \/ Rekey(c)
  <2>1. PICK c \in Conns : Toggle(c) \/ Rekey(c)
    BY <1>2
  <2>2. conn[c] \in [exists : BOOLEAN, enabled : BOOLEAN, prio : Nat, keyOk : BOOLEAN]
    BY DEF Inv, TypeOK
  <2>3. \E row \in [exists : BOOLEAN, enabled : BOOLEAN, prio : Nat, keyOk : BOOLEAN] :
          row.exists = conn[c].exists /\ conn' = [conn EXCEPT ![c] = row]
    <3>1. CASE Toggle(c)
      <4>. DEFINE row == [conn[c] EXCEPT !.enabled = ~conn[c].enabled]
      <4>1. /\ row \in [exists : BOOLEAN, enabled : BOOLEAN, prio : Nat, keyOk : BOOLEAN]
            /\ row.exists = conn[c].exists
        BY <2>2
      <4>2. conn' = [conn EXCEPT ![c] = row]
        BY <3>1 DEF Toggle
      <4>. QED
        BY <4>1, <4>2
    <3>2. CASE Rekey(c)
      <4>. DEFINE row == [conn[c] EXCEPT !.keyOk = TRUE]
      <4>1. /\ row \in [exists : BOOLEAN, enabled : BOOLEAN, prio : Nat, keyOk : BOOLEAN]
            /\ row.exists = conn[c].exists
        BY <2>2
      <4>2. conn' = [conn EXCEPT ![c] = row]
        BY <3>2 DEF Rekey
      <4>. QED
        BY <4>1, <4>2
    <3>. QED
      BY <2>1, <3>1, <3>2
  <2>4. /\ conn' \in [Conns -> [exists : BOOLEAN, enabled : BOOLEAN,
                                prio : Nat, keyOk : BOOLEAN]]
        /\ \A x \in Conns : conn'[x].exists => conn[x].exists
    BY <2>3 DEF Inv, TypeOK
  <2>. QED
    BY <1>2, <2>4, EnvironmentStep DEF Toggle, Rekey, Inv, TypeOK, TablesType
<1>3. CASE \E c \in Conns : Delete(c)
  <2>1. PICK c \in Conns : Delete(c)
    BY <1>3
  <2>. DEFINE row == [conn[c] EXCEPT !.exists = FALSE]
  <2>2. conn[c] \in [exists : BOOLEAN, enabled : BOOLEAN, prio : Nat, keyOk : BOOLEAN]
    BY DEF Inv, TypeOK
  <2>3. row \in [exists : BOOLEAN, enabled : BOOLEAN, prio : Nat, keyOk : BOOLEAN] /\ ~row.exists
    BY <2>2
  <2>4. conn' = [conn EXCEPT ![c] = row]
    BY <2>1 DEF Delete
  <2>. HIDE DEF row
  <2>5. /\ conn' \in [Conns -> [exists : BOOLEAN, enabled : BOOLEAN,
                                prio : Nat, keyOk : BOOLEAN]]
        /\ \A x \in Conns : conn'[x].exists => conn[x].exists
    BY <2>3, <2>4 DEF Inv, TypeOK
  <2>6. used' \in [Conns -> Nat] /\ cool' \in [Conns -> Nat]
    BY <2>1 DEF Delete, Inv, TypeOK
  <2>. QED
    BY <2>1, <2>5, <2>6, EnvironmentStep DEF Delete, Inv, TypeOK, TablesType
<1>4. CASE Reorder
  <2>1. NConns \in Nat
    BY DispatchAssumption
  <2>2. PICK rank \in [Conns -> 0..(NConns - 1)] :
          conn' = [c \in Conns |-> IF conn[c].exists
                                   THEN [conn[c] EXCEPT !.prio = rank[c]]
                                   ELSE conn[c]]
    BY <1>4 DEF Reorder
  <2>3. /\ conn' \in [Conns -> [exists : BOOLEAN, enabled : BOOLEAN,
                                prio : Nat, keyOk : BOOLEAN]]
        /\ \A c \in Conns : conn'[c].exists => conn[c].exists
    BY <2>1, <2>2 DEF Inv, TypeOK
  <2>. QED
    BY <1>4, <2>3, EnvironmentStep DEF Reorder, Inv, TypeOK, TablesType
<1>5. CASE \E s \in Strategies : SetStrategy(s)
  BY <1>5, EnvironmentStep DEF SetStrategy, Inv, TypeOK, TablesType
<1>. QED
  BY <1>1, <1>2, <1>3, <1>4, <1>5 DEF Admin

LEMMA NextInv == Inv /\ [Next]_vars => Inv'
<1>1. SUFFICES ASSUME Inv, [Next]_vars PROVE Inv'
  OBVIOUS
<1>2. CASE UNCHANGED vars
  BY <1>1, <1>2, EnvironmentStep DEF vars, Inv, TypeOK, TablesType
<1>3. ASSUME NEW r \in Requests, Start(r) PROVE Inv'
  BY <1>1, <1>3, StartInv
<1>4. ASSUME NEW r \in Requests, Settle(r) PROVE Inv'
  BY <1>1, <1>4, DialOkInv, DialAbortedInv, DialRetryableInv, DialFatalInv,
     DialUnauthorizedInv, DialUnauthorizedForGoodInv,
     RefreshFailedInv, RefreshOkInv, RefreshThrewInv DEF Settle
<1>5. ASSUME NEW r \in Requests, Release(r) \/ Abort(r) PROVE Inv'
  BY <1>1, <1>5, ReleaseInv, AbortInv
<1>6. CASE Tick \/ Admin
  BY <1>1, <1>6, EnvironmentInv
<1>. QED
  BY <1>1, <1>2, <1>3, <1>4, <1>5, <1>6 DEF Next

LEMMA OrderFromInv ==
  ASSUME NEW q, ReqInv(q)
  PROVE  /\ \A i \in 1..Len(q.cands) :
              /\ i < q.attempt => TriedOrUnreadable(q, q.cands[i])
              /\ i > q.attempt => q.dials[q.cands[i]] = 0
         /\ q.answer.kind = "failed" =>
              EndedEarly(q) \/ \A i \in 1..Len(q.cands) : TriedOrUnreadable(q, q.cands[i])
<1>1. /\ q.attempt \in Nat /\ Len(q.cands) \in Nat
      /\ Passed(q, q.attempt) /\ Untouched(q, q.attempt + 1)
      /\ q.answer.kind = "failed" => EndedEarly(q) \/ Passed(q, Len(q.cands) + 1)
  BY DEF ReqInv, RequestRecords
<1>2. Passed(q, Len(q.cands) + 1) =>
        \A i \in 1..Len(q.cands) : TriedOrUnreadable(q, q.cands[i])
  BY <1>1 DEF Passed
<1>3. ASSUME NEW i \in 1..Len(q.cands)
      PROVE  /\ i < q.attempt => TriedOrUnreadable(q, q.cands[i])
             /\ i > q.attempt => q.dials[q.cands[i]] = 0
  BY <1>1 DEF Passed, Untouched
<1>. QED
  BY <1>1, <1>2, <1>3

LEMMA HangupFromInv ==
  ASSUME NEW q, ReqInv(q)
  PROVE  q.late <= 1 /\ (q.late = 1 => q.answer.kind # "ok")
<1>1. q.late = 1 => q.late > 0
  OBVIOUS
<1>2. q.pc = "dialing" => q.answer.kind # "ok"
  BY DEF ReqInv, Waiting, NoAnswer
<1>. QED
  BY <1>1, <1>2 DEF ReqInv

LEMMA InvImpliesProperties ==
  Inv => DialBudget /\ FailoverOrder /\ FailureAttribution /\ HangupStopsBilling
<1>1. SUFFICES ASSUME Inv
      PROVE  DialBudget /\ FailoverOrder /\ FailureAttribution /\ HangupStopsBilling
  OBVIOUS
<1>2. \A r \in Requests : ReqInv(req[r]) /\ req[r] \in RequestRecords
  BY <1>1 DEF Inv, ReqInv
<1>3. DialBudget
  BY <1>2 DEF DialBudget, ReqInv, Budget
<1>4. FailoverOrder
  BY <1>2, OrderFromInv DEF FailoverOrder
<1>5. FailureAttribution
  BY <1>2 DEF FailureAttribution, ReqInv, Attributed
<1>6. HangupStopsBilling
  BY <1>2, HangupFromInv DEF HangupStopsBilling
<1>. QED
  BY <1>3, <1>4, <1>5, <1>6

-----------------------------------------------------------------------------
(* The tables and the locals of every dispatch keep their types, for any   *)
(* number of connections and concurrent requests.                          *)
THEOREM TypeCorrect == Spec => []TypeOK
<1>1. Inv => TypeOK
  BY DEF Inv
<1>. QED
  BY <1>1, InitInv, NextInv, PTL DEF Spec

(* dispatchWithFailover dials a connection at most once per request, twice  *)
(* after its one token refresh, whatever the upstreams answer and whatever *)
(* the dashboard does meanwhile (dispatchAttempt.ts:110-112, 235).         *)
THEOREM DialsAreBudgeted == Spec => []DialBudget
<1>. QED
  BY InitInv, NextInv, InvImpliesProperties, PTL DEF Spec

(* Candidates are dialed in order, none is passed over unless unreadable,  *)
(* and failure is reported only when none is left or a status forbids it.  *)
THEOREM FailoverIsOrderly == Spec => []FailoverOrder
<1>. QED
  BY InitInv, NextInv, InvImpliesProperties, PTL DEF Spec

(* The reported status, message and connection all come from the last dial *)
(* that was answered (dispatchAttempt.ts:100-105).                         *)
THEOREM FailureIsAttributed == Spec => []FailureAttribution
<1>. QED
  BY InitInv, NextInv, InvImpliesProperties, PTL DEF Spec

(* After a hang-up at most one more dial is counted.                       *)
THEOREM HangupIsHonoured == Spec => []HangupStopsBilling
<1>. QED
  BY InitInv, NextInv, InvImpliesProperties, PTL DEF Spec

-----------------------------------------------------------------------------
(* Dispatch implements FailoverPromise.  The promise of a request is a     *)
(* function of its locals, so a step that gives request r the locals p is  *)
(* judged by req[r] and p alone: one lemma per operation of the promise    *)
(* says when it is that operation.  That the offer shrinks needs that no   *)
(* connection is listed twice, and that a retry does not pass over its own *)
(* connection, which the invariant above has.                              *)
PhaseBar == [r \in Requests |-> Phase(req[r])]
FiredBar == [r \in Requests |-> req[r].aborted]
OfferedBar == [r \in Requests |-> Offered(req[r])]
Outcome(q) == [kind |-> q.answer.kind, conn |-> q.answer.conn]
AnswerBar == [r \in Requests |-> [kind |-> req[r].answer.kind, conn |-> req[r].answer.conn]]

Simulated == [Promise!Next]_(Promise!promiseVars)

(* Request r is given the locals p.                                        *)
Becomes(r, p) == req \in [Requests -> RequestRecords] /\ req' = [req EXCEPT ![r] = p]

LEMMA Lift ==
  ASSUME NEW r \in Requests, NEW p, Becomes(r, p)
  PROVE  /\ PhaseBar' = [PhaseBar EXCEPT ![r] = Phase(p)]
         /\ FiredBar' = [FiredBar EXCEPT ![r] = p.aborted]
         /\ OfferedBar' = [OfferedBar EXCEPT ![r] = Offered(p)]
         /\ AnswerBar' = [AnswerBar EXCEPT ![r] = Outcome(p)]
         /\ PhaseBar[r] = Phase(req[r]) /\ FiredBar[r] = req[r].aborted
         /\ OfferedBar[r] = Offered(req[r]) /\ AnswerBar[r] = Outcome(req[r])
<1>1. /\ \A s \in Requests : req'[s] = IF s = r THEN p ELSE req[s]
  BY DEF Becomes
<1>2. PhaseBar' = [PhaseBar EXCEPT ![r] = Phase(p)]
  BY <1>1 DEF PhaseBar, Phase
<1>3. FiredBar' = [FiredBar EXCEPT ![r] = p.aborted]
  BY <1>1 DEF FiredBar
<1>4. OfferedBar' = [OfferedBar EXCEPT ![r] = Offered(p)]
  BY <1>1 DEF OfferedBar, Offered
<1>5. AnswerBar' = [AnswerBar EXCEPT ![r] = Outcome(p)]
  BY <1>1 DEF AnswerBar, Outcome
<1>6. QED
  BY <1>2, <1>3, <1>4, <1>5 DEF PhaseBar, FiredBar, OfferedBar, AnswerBar, Outcome

LEMMA SameFunction ==
  ASSUME NEW S, NEW f, f = [s \in S |-> f[s]], NEW r
  PROVE  [f EXCEPT ![r] = f[r]] = f
OBVIOUS

LEMMA Same ==
  ASSUME NEW r \in Requests, NEW p, Becomes(r, p)
  PROVE  /\ p.aborted = req[r].aborted => UNCHANGED FiredBar
         /\ p.answer = req[r].answer => UNCHANGED AnswerBar
         /\ Phase(p) = Phase(req[r]) => UNCHANGED PhaseBar
         /\ Offered(p) = Offered(req[r]) => UNCHANGED OfferedBar
<1>1. /\ PhaseBar = [s \in Requests |-> PhaseBar[s]]
      /\ FiredBar = [s \in Requests |-> FiredBar[s]]
      /\ OfferedBar = [s \in Requests |-> OfferedBar[s]]
      /\ AnswerBar = [s \in Requests |-> AnswerBar[s]]
  BY DEF PhaseBar, FiredBar, OfferedBar, AnswerBar
<1>2. p.answer = req[r].answer => Outcome(p) = Outcome(req[r])
  BY DEF Outcome
<1>3. QED
  BY <1>1, <1>2, Lift, SameFunction

(* What the promise does not see of p is as it was.                        *)
LEMMA Unseen ==
  ASSUME NEW r \in Requests, NEW p, Becomes(r, p),
         Phase(p) = Phase(req[r]), p.aborted = req[r].aborted,
         Offered(p) = Offered(req[r]), p.answer = req[r].answer
  PROVE  Simulated
<1>1. UNCHANGED <<PhaseBar, FiredBar, OfferedBar, AnswerBar>>
  BY Same
<1>2. QED
  BY <1>1 DEF Simulated, Promise!promiseVars, PhaseBar, FiredBar, OfferedBar, AnswerBar

LEMMA OpenStep ==
  ASSUME NEW r \in Requests, NEW p, Becomes(r, p),
         Phase(req[r]) = "idle", Phase(p) = "open", p.aborted = req[r].aborted,
         p.answer = req[r].answer, Offered(p) \subseteq Conns, Offered(p) # {}
  PROVE  Simulated
<1>1. Promise!Open(r)
  <2>1. /\ PhaseBar[r] = "idle" /\ PhaseBar' = [PhaseBar EXCEPT ![r] = "open"]
        /\ OfferedBar' = [OfferedBar EXCEPT ![r] = Offered(p)]
        /\ UNCHANGED <<FiredBar, AnswerBar>>
    BY Lift, Same
  <2>2. Offered(p) \in (SUBSET Promise!Conns) \ {{}}
    BY DEF Promise!Conns, Conns
  <2>3. QED
    BY <2>1, <2>2 DEF Promise!Open, PhaseBar, FiredBar, OfferedBar, AnswerBar
<1>2. QED
  BY <1>1 DEF Simulated, Promise!Next

LEMMA WithdrawStep ==
  ASSUME NEW r \in Requests, NEW p, Becomes(r, p),
         Phase(req[r]) = "open", Phase(p) = "open", p.aborted = req[r].aborted,
         p.answer = req[r].answer, Offered(p) \subseteq Offered(req[r]),
         Offered(p) # {}, Offered(p) # Offered(req[r])
  PROVE  Simulated
<1>1. Promise!Withdraw(r)
  <2>1. /\ PhaseBar[r] = "open"
        /\ OfferedBar' = [OfferedBar EXCEPT ![r] = Offered(p)]
        /\ Offered(p) \in (SUBSET OfferedBar[r]) \ {{}, OfferedBar[r]}
        /\ UNCHANGED <<PhaseBar, FiredBar, AnswerBar>>
    BY Lift, Same
  <2>2. QED
    BY <2>1 DEF Promise!Withdraw, PhaseBar, FiredBar, OfferedBar, AnswerBar
<1>2. QED
  BY <1>1 DEF Simulated, Promise!Next

(* The offer is gone with the answer.                                      *)
LEMMA CloseStep ==
  ASSUME NEW r \in Requests, NEW p, Becomes(r, p),
         Phase(p) = "answered", p.aborted = req[r].aborted, Offered(p) = {}
  PROVE  Promise!Close(r, p.answer.kind, p.answer.conn)
<1>1. /\ PhaseBar' = [PhaseBar EXCEPT ![r] = "answered"]
      /\ OfferedBar' = [OfferedBar EXCEPT ![r] = {}]
      /\ AnswerBar' = [AnswerBar EXCEPT ![r] = [kind |-> p.answer.kind, conn |-> p.answer.conn]]
      /\ UNCHANGED FiredBar
  <2>1. /\ PhaseBar' = [PhaseBar EXCEPT ![r] = Phase(p)]
        /\ OfferedBar' = [OfferedBar EXCEPT ![r] = Offered(p)]
        /\ AnswerBar' = [AnswerBar EXCEPT ![r] = Outcome(p)]
        /\ UNCHANGED FiredBar
    BY Lift, Same
  <2>2. QED
    BY <2>1 DEF Outcome
<1>2. QED
  BY <1>1 DEF Promise!Close, PhaseBar, FiredBar, OfferedBar, AnswerBar

LEMMA ServeStep ==
  ASSUME NEW r \in Requests, NEW p, Becomes(r, p),
         Phase(req[r]) = "open", Phase(p) = "answered", p.aborted = req[r].aborted,
         Offered(p) = {}, p.answer.conn \in Offered(req[r]),
         p.answer.kind \in {"ok", "aborted", "threw"},
         p.answer.kind = "ok" => ~req[r].aborted,
         p.answer.kind = "aborted" => req[r].aborted
  PROVE  Simulated
<1>1. Promise!Serve(r)
  BY CloseStep DEF Promise!Serve
<1>2. QED
  BY <1>1 DEF Simulated, Promise!Next

LEMMA RefuseStep ==
  ASSUME NEW r \in Requests, NEW p, Becomes(r, p),
         Phase(req[r]) = "idle", Phase(p) = "answered", p.aborted = req[r].aborted,
         Offered(p) = {}, p.answer.conn = 0,
         p.answer.kind \in {"noCandidates", "failed"}
  PROVE  Simulated
<1>1. Promise!Refuse(r)
  BY CloseStep DEF Promise!Refuse
<1>2. QED
  BY <1>1 DEF Simulated, Promise!Next

LEMMA FailStep ==
  ASSUME NEW r \in Requests, NEW p, Becomes(r, p),
         Phase(req[r]) = "open", Phase(p) = "answered", p.aborted = req[r].aborted,
         Offered(p) = {}, p.answer.conn \in Offered(req[r]), p.answer.kind = "failed"
  PROVE  Simulated
<1>1. Promise!Fail(r)
  BY CloseStep DEF Promise!Fail
<1>2. QED
  BY <1>1 DEF Simulated, Promise!Next

LEMMA FireStep ==
  ASSUME NEW r \in Requests, NEW p, Becomes(r, p),
         Phase(req[r]) # "answered", ~req[r].aborted, p.aborted,
         p.aborted \in BOOLEAN, Phase(p) = Phase(req[r]), p.answer = req[r].answer,
         Offered(p) = Offered(req[r])
  PROVE  Simulated
<1>1. p.aborted = TRUE
  OBVIOUS
<1>2. Promise!Fire(r)
  <2>1. /\ PhaseBar[r] # "answered" /\ ~FiredBar[r]
        /\ FiredBar' = [FiredBar EXCEPT ![r] = TRUE]
        /\ UNCHANGED <<PhaseBar, OfferedBar, AnswerBar>>
    BY <1>1, Lift, Same
  <2>2. QED
    BY <2>1 DEF Promise!Fire, PhaseBar, FiredBar, OfferedBar, AnswerBar
<1>3. QED
  BY <1>2 DEF Simulated, Promise!Next

LEMMA TakeStep ==
  ASSUME NEW r \in Requests, NEW p, Becomes(r, p),
         Phase(req[r]) = "answered", Phase(p) = "idle", p.aborted \in BOOLEAN,
         p.answer = NoAnswer, Offered(p) = Offered(req[r])
  PROVE  Simulated
<1>1. Promise!Take(r)
  <2>1. /\ PhaseBar[r] = "answered" /\ PhaseBar' = [PhaseBar EXCEPT ![r] = "idle"]
        /\ FiredBar' = [FiredBar EXCEPT ![r] = p.aborted]
        /\ AnswerBar' = [AnswerBar EXCEPT ![r] = Promise!NotAnswered]
        /\ UNCHANGED OfferedBar
    <3>1. /\ PhaseBar[r] = "answered" /\ PhaseBar' = [PhaseBar EXCEPT ![r] = "idle"]
          /\ FiredBar' = [FiredBar EXCEPT ![r] = p.aborted]
          /\ AnswerBar' = [AnswerBar EXCEPT ![r] = Outcome(p)]
          /\ UNCHANGED OfferedBar
      BY Lift, Same
    <3>2. Outcome(p) = Promise!NotAnswered
      BY DEF Promise!NotAnswered, Outcome, NoAnswer
    <3>3. QED
      BY <3>1, <3>2
  <2>2. QED
    BY <2>1 DEF Promise!Take, PhaseBar, FiredBar, OfferedBar, AnswerBar
<1>2. QED
  BY <1>1 DEF Simulated, Promise!Next

-----------------------------------------------------------------------------
(* The offer of a request that waits, and of one that does not.            *)
LEMMA OfferOf ==
  ASSUME NEW q \in RequestRecords
  PROVE  /\ ~Waiting(q) => Offered(q) = {}
         /\ Waiting(q) => Phase(q) = "open" /\ Offered(q) = {q.cands[i] : i \in q.attempt..Len(q.cands)}
         /\ q.pc = "idle" => Phase(q) = "idle"
         /\ q.pc = "done" => Phase(q) = "answered"
BY DEF Offered, Phase, Waiting

LEMMA ListOf ==
  ASSUME NEW q, ReqInv(q), Waiting(q)
  PROVE  /\ q.cands \in Seq(Conns) /\ Len(q.cands) \in Nat
         /\ q.attempt \in 1..Len(q.cands) /\ Injective(q.cands)
BY DEF ReqInv, RequestRecords

LEMMA CurrentOffered ==
  ASSUME NEW q, ReqInv(q), Waiting(q)
  PROVE  Current(q) \in Offered(q)
<1>1. q \in RequestRecords /\ q.attempt \in 1..Len(q.cands) /\ Len(q.cands) \in Nat
  BY DEF ReqInv, RequestRecords
<1>2. q.attempt \in q.attempt..Len(q.cands)
  BY <1>1
<1>3. QED
  BY <1>1, <1>2, OfferOf DEF Current

(* What StopAt makes of a request that looks at candidate j.               *)
LEMMA Stops ==
  ASSUME NEW q \in RequestRecords, NEW i \in Nat, NEW j \in 1..(Len(q.cands) + 1)
  PROVE  LET p == StopAt(q, i, j)
         IN /\ p.aborted = q.aborted /\ p.cands = q.cands /\ p.refreshed = q.refreshed
            /\ p.lastConn = q.lastConn /\ p.lastStatus = q.lastStatus
            /\ j <= Len(q.cands) =>
                 p.pc = "dialing" /\ p.attempt = j /\ p.answer = q.answer
            /\ j > Len(q.cands) =>
                 /\ p.pc = "done" /\ p.answer.kind = "failed" /\ p.answer.conn = q.lastConn
                 /\ p.attempt = q.attempt
<1>1. Len(q.cands) \in Nat
  BY DEF RequestRecords
<1>2. CASE j <= Len(q.cands)
  BY <1>1, <1>2 DEF StopAt, Dial, RequestRecords
<1>3. CASE j > Len(q.cands)
  BY <1>1, <1>3 DEF StopAt, AllFailed, Answer, RequestRecords
<1>4. QED
  BY <1>1, <1>2, <1>3

(* The loop goes on behind the candidate that failed.                      *)
LEMMA MovesOn ==
  ASSUME Inv, NEW r \in Requests, Waiting(req[r]), NEW q \in RequestRecords,
         q.cands = req[r].cands, q.aborted = req[r].aborted, q.answer = req[r].answer,
         q.lastConn = Current(req[r]), Continue(r, q, req[r].attempt + 1)
  PROVE  Simulated
<1> DEFINE o == req[r]
<1>1. /\ ReqInv(o) /\ o \in RequestRecords /\ o.cands \in Seq(Conns) /\ Len(o.cands) \in Nat
      /\ o.attempt \in 1..Len(o.cands) /\ Injective(o.cands)
      /\ req \in [Requests -> RequestRecords]
  <2>1. ReqInv(o) /\ o \in RequestRecords /\ req \in [Requests -> RequestRecords]
    BY WaitingFacts DEF Inv, TypeOK
  <2>2. QED
    BY <2>1, ListOf
<1>2. PICK j \in (o.attempt + 1)..(Len(o.cands) + 1) :
        req' = [req EXCEPT ![r] = StopAt(q, o.attempt + 1, j)]
  BY DEF Continue
<1> DEFINE p == StopAt(q, o.attempt + 1, j)
<1>3. j \in 1..(Len(q.cands) + 1) /\ o.attempt + 1 \in Nat
  BY <1>1
<1>4. /\ p.aborted = o.aborted
      /\ j <= Len(o.cands) =>
           p.pc = "dialing" /\ p.attempt = j /\ p.cands = o.cands /\ p.answer = o.answer
      /\ j > Len(o.cands) =>
           p.pc = "done" /\ p.answer.kind = "failed" /\ p.answer.conn = Current(o)
  BY <1>3, Stops
<1>5. Becomes(r, p)
  BY <1>1, <1>2 DEF Becomes
<1> HIDE DEF p
<1>6. Phase(o) = "open" /\ Offered(o) = {o.cands[i] : i \in o.attempt..Len(o.cands)}
      /\ Current(o) \in Offered(o)
  BY <1>1, OfferOf, CurrentOffered
<1>7. CASE j <= Len(o.cands)
  <2>1. Phase(p) = "open" /\ Offered(p) = {o.cands[i] : i \in j..Len(o.cands)}
    BY <1>4, <1>7 DEF Phase, Offered
  <2>2. Offered(p) \subseteq Offered(o)
    <3>1. j..Len(o.cands) \subseteq o.attempt..Len(o.cands)
      BY <1>1
    <3>2. QED
      BY <1>6, <2>1, <3>1
  <2>3. o.cands[j] \in Offered(p)
    BY <1>1, <1>7, <2>1
  <2>4. Current(o) \notin Offered(p)
    <3>1. ASSUME NEW i \in j..Len(o.cands)
          PROVE  o.cands[i] # o.cands[o.attempt]
      <4>1. i \in 1..Len(o.cands) /\ i # o.attempt
        BY <1>1
      <4>2. QED
        BY <1>1, <4>1 DEF Injective
    <3>2. QED
      BY <2>1, <3>1 DEF Current
  <2>5. QED
    BY <1>4, <1>5, <1>6, <1>7, <2>1, <2>2, <2>3, <2>4, WithdrawStep
<1>8. CASE j > Len(o.cands)
  <2>1. Phase(p) = "answered" /\ Offered(p) = {}
    BY <1>4, <1>8 DEF Phase, Offered
  <2>2. QED
    BY <1>4, <1>5, <1>6, <1>8, <2>1, FailStep
<1>9. QED
  BY <1>1, <1>7, <1>8

-----------------------------------------------------------------------------
(* Start offers what is left of the list at the first dial, or refuses.    *)
LEMMA StartSimulates ==
  ASSUME Inv, NEW r \in Requests, Start(r)
  PROVE  Simulated
<1> DEFINE o == req[r]
<1>1. /\ o \in RequestRecords /\ Blank(o) /\ o.pc = "idle"
      /\ req \in [Requests -> RequestRecords]
  BY DEF Inv, TypeOK, ReqInv, Start
<1>2. PICK sorted \in SortedListings(Eligible) :
        LET s == ApplyFallbackStrategy(sorted)
            q == [o EXCEPT !.cands = s,
                           !.rotating = (strategy = "round-robin"),
                           !.badKeys = {c \in Eligible : ~conn[c].keyOk}]
        IN IF s = <<>>
           THEN req' = [req EXCEPT ![r] =
                  Answer(q, [NoAnswer EXCEPT !.kind = "noCandidates"])]
           ELSE Continue(r, q, 1)
  BY DEF Start
<1> DEFINE s == ApplyFallbackStrategy(sorted)
           bad == {c \in Eligible : ~conn[c].keyOk}
           q == [o EXCEPT !.cands = s, !.rotating = (strategy = "round-robin"),
                          !.badKeys = bad]
<1>3. s \in Seq(Conns) /\ Len(s) \in Nat
  <2>1. Eligible \subseteq Conns
    BY DEF Eligible
  <2>2. QED
    BY <2>1, CandidatesType DEF Inv
<1>4. /\ q \in RequestRecords /\ q.cands = s /\ q.aborted = o.aborted
      /\ q.answer = o.answer /\ q.lastConn = 0
  <2>1. bad \in SUBSET Conns /\ (strategy = "round-robin") \in BOOLEAN
    BY DEF Eligible
  <2> HIDE DEF s, bad
  <2>2. QED
    BY <1>1, <1>3, <2>1 DEF RequestRecords, Blank, Blames
<1> HIDE DEF q, s, bad
<1>5. Phase(o) = "idle" /\ o.answer = NoAnswer
  BY <1>1 DEF Phase, Blank
<1>6. CASE s = <<>>
  <2> DEFINE p == Answer(q, [NoAnswer EXCEPT !.kind = "noCandidates"])
  <2>1. Becomes(r, p)
    BY <1>1, <1>2, <1>6 DEF Becomes, q, s, bad
  <2>2. /\ p.pc = "done" /\ p.aborted = o.aborted
        /\ p.answer.kind = "noCandidates" /\ p.answer.conn = 0
    BY <1>4 DEF Answer, NoAnswer, RequestRecords
  <2> HIDE DEF p
  <2>3. Phase(p) = "answered" /\ Offered(p) = {}
    BY <2>2 DEF Phase, Offered
  <2>4. QED
    BY <1>5, <2>1, <2>2, <2>3, RefuseStep
<1>7. CASE s # <<>>
  <2>1. Continue(r, q, 1)
    BY <1>2, <1>7 DEF q, s, bad
  <2>2. PICK j \in 1..(Len(s) + 1) : req' = [req EXCEPT ![r] = StopAt(q, 1, j)]
    BY <1>4, <2>1 DEF Continue
  <2> DEFINE p == StopAt(q, 1, j)
  <2>3. /\ p.aborted = o.aborted
        /\ j <= Len(s) =>
             p.pc = "dialing" /\ p.attempt = j /\ p.cands = s /\ p.answer = o.answer
        /\ j > Len(s) => p.pc = "done" /\ p.answer.kind = "failed" /\ p.answer.conn = 0
    BY <1>4, Stops
  <2>4. Becomes(r, p)
    BY <1>1, <2>2 DEF Becomes
  <2> HIDE DEF p
  <2>5. CASE j <= Len(s)
    <3>1. Phase(p) = "open" /\ Offered(p) = {s[i] : i \in j..Len(s)}
      BY <2>3, <2>5 DEF Phase, Offered
    <3>2. Offered(p) \subseteq Conns /\ s[j] \in Offered(p)
      BY <1>3, <2>5, <3>1
    <3>3. QED
      BY <1>5, <2>3, <2>4, <2>5, <3>1, <3>2, OpenStep
  <2>6. CASE j > Len(s)
    <3>1. Phase(p) = "answered" /\ Offered(p) = {}
      BY <2>3, <2>6 DEF Phase, Offered
    <3>2. QED
      BY <1>5, <2>3, <2>4, <2>6, <3>1, RefuseStep
  <2>7. QED
    BY <1>3, <2>5, <2>6
<1>8. QED
  BY <1>6, <1>7

(* A waiting request that ends with a kind of its own.                     *)
LEMMA ServeSimulates ==
  ASSUME Inv, NEW r \in Requests, DialOk(r) \/ DialAborted(r) \/ RefreshThrew(r)
  PROVE  Simulated
<1> DEFINE o == req[r]
<1>1. Waiting(o) /\ ReqInv(o) /\ o \in RequestRecords /\ req \in [Requests -> RequestRecords]
  BY DEF DialOk, DialAborted, RefreshThrew, Waiting, Inv, TypeOK
<1>2. Phase(o) = "open" /\ Current(o) \in Offered(o)
  BY <1>1, OfferOf, CurrentOffered
<1>3. ASSUME NEW q \in RequestRecords, NEW kind, q.aborted = o.aborted,
             kind \in {"ok", "aborted", "threw"},
             kind = "ok" => ~o.aborted, kind = "aborted" => o.aborted,
             req' = [req EXCEPT ![r] =
                       Answer(q, [NoAnswer EXCEPT !.kind = kind, !.conn = Current(o)])]
      PROVE  Simulated
  <2> DEFINE p == Answer(q, [NoAnswer EXCEPT !.kind = kind, !.conn = Current(o)])
  <2>1. /\ p.pc = "done" /\ p.aborted = o.aborted
        /\ p.answer.kind = kind /\ p.answer.conn = Current(o)
    BY <1>3 DEF Answer, NoAnswer, RequestRecords
  <2>2. Becomes(r, p)
    BY <1>1, <1>3 DEF Becomes
  <2> HIDE DEF p
  <2>3. Phase(p) = "answered" /\ Offered(p) = {}
    BY <2>1 DEF Phase, Offered
  <2>4. QED
    BY <1>2, <1>3, <2>1, <2>2, <2>3, ServeStep
<1>4. CASE DialOk(r)
  <2>1. Answered(o, "none") \in RequestRecords /\ Answered(o, "none").aborted = o.aborted
    <3>1. [conn |-> Current(o), result |-> "none"] \in [conn : 0..NConns, result : Statuses]
      BY <1>1, CurrentType, ConnInRange DEF Statuses
    <3>2. QED
      BY <1>1, <3>1 DEF Answered, RequestRecords
  <2>2. QED
    BY <1>3, <1>4, <2>1 DEF DialOk
<1>5. CASE DialAborted(r)
  BY <1>1, <1>3, <1>5 DEF DialAborted
<1>6. CASE RefreshThrew(r)
  BY <1>1, <1>3, <1>6 DEF RefreshThrew
<1>7. QED
  BY <1>4, <1>5, <1>6

(* A candidate that failed for good: retryable, or a lasting 401.          *)
LEMMA FailoverSimulates ==
  ASSUME Inv, NEW r \in Requests,
         DialRetryable(r) \/ DialUnauthorizedForGood(r) \/ RefreshFailed(r)
  PROVE  Simulated
<1> DEFINE o == req[r]
<1>1. /\ Waiting(o) /\ ReqInv(o) /\ o \in RequestRecords /\ Current(o) \in Conns
  BY WaitingFacts DEF DialRetryable, DialUnauthorizedForGood, RefreshFailed, Waiting
<1>2. ASSUME NEW st \in Failures, NEW d \in [conn : 0..NConns, result : Statuses],
             NEW f \in SUBSET Conns,
             Continue(r, Blame([o EXCEPT !.lastDial = d, !.refreshed = f], st), o.attempt + 1)
      PROVE  Simulated
  <2> DEFINE g == [o EXCEPT !.lastDial = d, !.refreshed = f]
             q == Blame(g, st)
  <2>1. /\ g \in RequestRecords /\ Current(g) = Current(o)
        /\ g.cands = o.cands /\ g.aborted = o.aborted /\ g.answer = o.answer
    BY <1>1 DEF RequestRecords, Current
  <2> HIDE DEF g
  <2>2. /\ q \in RequestRecords /\ q.lastConn = Current(o)
        /\ q.cands = o.cands /\ q.aborted = o.aborted /\ q.answer = o.answer
    BY <1>1, <2>1, ConnInRange DEF Blame, RequestRecords, Statuses
  <2>3. Continue(r, q, o.attempt + 1)
    BY <1>2 DEF g
  <2> HIDE DEF q
  <2>4. QED
    BY <1>1, <2>2, <2>3, MovesOn
<1>3. CASE DialRetryable(r)
  <2>1. Blame(Answered(o, "retryable"), "retryable")
          = Blame([o EXCEPT !.lastDial = [conn |-> Current(o), result |-> "retryable"],
                            !.refreshed = o.refreshed], "retryable")
    BY <1>1 DEF Answered, RequestRecords
  <2>2. /\ [conn |-> Current(o), result |-> "retryable"] \in [conn : 0..NConns, result : Statuses]
        /\ o.refreshed \in SUBSET Conns /\ "retryable" \in Failures
    BY <1>1, ConnInRange DEF Statuses, Failures, RequestRecords
  <2>3. Continue(r, Blame(Answered(o, "retryable"), "retryable"), o.attempt + 1)
    BY <1>3 DEF DialRetryable
  <2>4. QED
    BY <1>2, <2>1, <2>2, <2>3
<1>4. CASE DialUnauthorizedForGood(r)
  <2> DEFINE d == [conn |-> Current(o), result |-> "unauthorized"]
             f == o.refreshed \cup {Current(o)}
             g == [Answered(o, "unauthorized") EXCEPT !.refreshed = @ \cup {Current(o)}]
  <2>1. g = [o EXCEPT !.lastDial = d, !.refreshed = f] /\ g.attempt = o.attempt
    BY <1>1 DEF Answered, RequestRecords
  <2>2. d \in [conn : 0..NConns, result : Statuses] /\ f \in SUBSET Conns
        /\ "unauthorized" \in Failures
    BY <1>1, ConnInRange DEF Statuses, Failures, RequestRecords
  <2>3. Continue(r, Blame(g, "unauthorized"), g.attempt + 1)
    BY <1>4 DEF DialUnauthorizedForGood, GiveUpOn
  <2> HIDE DEF d, f, g
  <2>4. QED
    BY <1>2, <2>1, <2>2, <2>3
<1>5. CASE RefreshFailed(r)
  <2>1. /\ o = [o EXCEPT !.lastDial = o.lastDial, !.refreshed = o.refreshed]
        /\ o.lastDial \in [conn : 0..NConns, result : Statuses]
        /\ o.refreshed \in SUBSET Conns /\ "unauthorized" \in Failures
    BY <1>1 DEF RequestRecords, Failures
  <2>2. Continue(r, Blame(o, "unauthorized"), o.attempt + 1)
    BY <1>5 DEF RefreshFailed, GiveUpOn
  <2>3. Continue(r, Blame([o EXCEPT !.lastDial = o.lastDial, !.refreshed = o.refreshed],
                          "unauthorized"), o.attempt + 1)
    BY <2>1, <2>2
  <2>4. QED
    BY <1>2, <2>1, <2>3
<1>6. QED
  BY <1>3, <1>4, <1>5

(* A terminal status ends the loop.                                        *)
LEMMA FatalSimulates ==
  ASSUME Inv, NEW r \in Requests, DialFatal(r)
  PROVE  Simulated
<1> DEFINE o == req[r]
<1>1. /\ Waiting(o) /\ ReqInv(o) /\ o \in RequestRecords /\ Current(o) \in Conns
      /\ req \in [Requests -> RequestRecords]
  BY WaitingFacts DEF DialFatal, Waiting, Inv, TypeOK
<1>2. PICK st \in {"fatal", "unauthorized"} :
        req' = [req EXCEPT ![r] = AllFailed(Blame(Answered(o, st), st))]
  BY DEF DialFatal
<1> DEFINE p == AllFailed(Blame(Answered(o, st), st))
<1>3. /\ p.pc = "done" /\ p.aborted = o.aborted
      /\ p.answer.kind = "failed" /\ p.answer.conn = Current(o)
  BY <1>1 DEF AllFailed, Answer, Blame, Answered, Current, RequestRecords
<1>4. Becomes(r, p)
  BY <1>1, <1>2 DEF Becomes
<1> HIDE DEF p
<1>5. Phase(p) = "answered" /\ Offered(p) = {}
  BY <1>3 DEF Phase, Offered
<1>6. Phase(o) = "open" /\ Current(o) \in Offered(o)
  BY <1>1, OfferOf, CurrentOffered
<1>7. QED
  BY <1>3, <1>4, <1>5, <1>6, FailStep

(* A refresh begins, or is over and the same candidate is dialed again:    *)
(* the promise sees neither.                                               *)
LEMMA RefreshSimulates ==
  ASSUME Inv, NEW r \in Requests, DialUnauthorized(r) \/ RefreshOk(r)
  PROVE  Simulated
<1> DEFINE o == req[r]
           n == o.attempt
<1>1. /\ Waiting(o) /\ ReqInv(o) /\ Readable(o) /\ o \in RequestRecords
      /\ req \in [Requests -> RequestRecords]
  BY WaitingFacts DEF DialUnauthorized, RefreshOk, Waiting, Inv, TypeOK
<1>2. ASSUME NEW p, Becomes(r, p), p.pc \in {"dialing", "refreshing"}, p.attempt = n,
             p.cands = o.cands, p.aborted = o.aborted, p.answer = o.answer
      PROVE  Simulated
  <2>1. Phase(p) = Phase(o) /\ Offered(p) = Offered(o)
    BY <1>1, <1>2 DEF Phase, Offered, Waiting
  <2>2. QED
    BY <1>2, <2>1, Unseen
<1>3. CASE DialUnauthorized(r)
  <2> DEFINE p == [Answered(o, "unauthorized") EXCEPT !.pc = "refreshing",
                                                      !.refreshed = @ \cup {Current(o)}]
  <2>1. Becomes(r, p)
    BY <1>1, <1>3 DEF DialUnauthorized, Becomes
  <2>2. /\ p.pc = "refreshing" /\ p.attempt = n /\ p.cands = o.cands
        /\ p.aborted = o.aborted /\ p.answer = o.answer
    BY <1>1 DEF Answered, RequestRecords
  <2> HIDE DEF p
  <2>3. QED
    BY <1>2, <2>1, <2>2
<1>4. CASE RefreshOk(r)
  <2>1. /\ n \in 1..Len(o.cands) /\ Len(o.cands) \in Nat /\ Current(o) = o.cands[n]
        /\ Current(o) \notin o.badKeys /\ OAuth /\ conn[Current(o)].exists
    BY <1>1, <1>4 DEF ReqInv, RequestRecords, Current, RefreshOk
  <2>2. PICK j \in n..(Len(o.cands) + 1) :
          IsNextStop(o, n, j) /\ req' = [req EXCEPT ![r] = StopAt(o, n, j)]
    BY <1>4 DEF RefreshOk, Continue
  <2>3. ~Undialable(o, o.cands[n])
    BY <1>1, <2>1 DEF Undialable, Readable
  <2>4. j = n
    BY <2>1, <2>2, <2>3 DEF IsNextStop
  <2> DEFINE p == StopAt(o, n, j)
  <2>5. /\ p.pc = "dialing" /\ p.attempt = n /\ p.cands = o.cands
        /\ p.aborted = o.aborted /\ p.answer = o.answer
    <3>1. j \in 1..(Len(o.cands) + 1) /\ n \in Nat /\ j <= Len(o.cands)
      BY <2>1, <2>4
    <3>2. QED
      BY <1>1, <2>4, <3>1, Stops
  <2>6. Becomes(r, p)
    BY <1>1, <2>2 DEF Becomes
  <2> HIDE DEF p
  <2>7. QED
    BY <1>2, <2>5, <2>6
<1>5. QED
  BY <1>3, <1>4

(* The client's signal, and the caller who takes the answer.               *)
LEMMA CallerSimulates ==
  ASSUME Inv, NEW r \in Requests, Abort(r) \/ Release(r)
  PROVE  Simulated
<1> DEFINE o == req[r]
<1>1. o \in RequestRecords /\ req \in [Requests -> RequestRecords]
  BY DEF Inv, TypeOK
<1>2. CASE Abort(r)
  <2> DEFINE p == [o EXCEPT !.aborted = TRUE]
  <2>1. Becomes(r, p) /\ o.pc # "done" /\ ~o.aborted
    BY <1>1, <1>2 DEF Abort, Becomes
  <2>2. /\ p.aborted = TRUE /\ p.pc = o.pc /\ p.answer = o.answer
        /\ p.cands = o.cands /\ p.attempt = o.attempt
    BY <1>1 DEF RequestRecords
  <2> HIDE DEF p
  <2>3. Phase(p) = Phase(o) /\ Offered(p) = Offered(o) /\ Phase(o) # "answered"
    BY <1>1, <2>1, <2>2 DEF Phase, Offered, RequestRecords
  <2>4. QED
    BY <2>1, <2>2, <2>3, FireStep
<1>3. CASE Release(r)
  <2>1. Becomes(r, IdleRequest) /\ o.pc = "done"
    BY <1>1, <1>3 DEF Release, Becomes
  <2>2. /\ IdleRequest.pc = "idle" /\ IdleRequest.aborted = FALSE
        /\ IdleRequest.answer = NoAnswer
    BY DEF IdleRequest
  <2>3. /\ Phase(o) = "answered" /\ Phase(IdleRequest) = "idle"
        /\ Offered(o) = {} /\ Offered(IdleRequest) = {}
    BY <2>1, <2>2 DEF Phase, Offered
  <2>4. QED
    BY <2>1, <2>2, <2>3, TakeStep
<1>4. QED
  BY <1>2, <1>3

-----------------------------------------------------------------------------
LEMMA InitSimulates == Init => Promise!Init
<1> SUFFICES ASSUME Init
             PROVE  Promise!Init
  OBVIOUS
<1>1. req = [r \in Requests |-> IdleRequest]
  BY DEF Init
<1>2. /\ IdleRequest.pc = "idle" /\ IdleRequest.aborted = FALSE
      /\ IdleRequest.answer.kind = "none" /\ IdleRequest.answer.conn = 0
  BY DEF IdleRequest, NoAnswer
<1>3. Phase(IdleRequest) = "idle" /\ Offered(IdleRequest) = {}
  BY <1>2 DEF Phase, Offered
<1>4. QED
  BY <1>1, <1>2, <1>3 DEF Promise!Init, Promise!NotAnswered

LEMMA NextSimulates == Inv /\ [Next]_vars => Simulated
<1> SUFFICES ASSUME Inv, [Next]_vars
             PROVE  Simulated
  OBVIOUS
<1>1. ASSUME NEW r \in Requests, Settle(r)
      PROVE  Simulated
  BY <1>1, ServeSimulates, FailoverSimulates, FatalSimulates, RefreshSimulates DEF Settle
<1>2. ASSUME UNCHANGED req
      PROVE  Simulated
  <2>1. UNCHANGED <<PhaseBar, FiredBar, OfferedBar, AnswerBar>>
    BY <1>2 DEF PhaseBar, FiredBar, OfferedBar, AnswerBar, Phase, Offered
  <2>2. QED
    BY <2>1 DEF Simulated, Promise!promiseVars, PhaseBar, FiredBar, OfferedBar, AnswerBar
<1>3. CASE Tick \/ Admin \/ UNCHANGED vars
  BY <1>2, <1>3 DEF Tick, Admin, Toggle, Rekey, Delete, Reorder, SetStrategy, vars
<1>4. QED
  BY <1>1, <1>3, StartSimulates, CallerSimulates DEF Next

(* Whatever fails, is deleted, refreshed or hung up on in between, the     *)
(* failover loop of dispatchAttempt.ts does what its callers may rely on:  *)
(* one answer per request, a success only from a connection still on offer *)
(* and before the signal fired, and an offer that only shrinks.            *)
THEOREM DispatchKeepsPromise == Spec => KeepsPromise
<1>1. Inv /\ [Next]_vars => [Promise!Next]_(Promise!promiseVars)
  BY NextSimulates DEF Simulated
<1>2. Spec => []Inv
  BY InitInv, NextInv, PTL DEF Spec
<1>3. QED
  BY <1>1, <1>2, InitSimulates, PTL DEF Spec, KeepsPromise, Promise!Spec

-----------------------------------------------------------------------------
(* What dispatches do to the tables they share: the quota counters, the    *)
(* cooldowns and the routing cursor.                                       *)
(*                                                                         *)
(* A step that settles an await of request r is seen here only through     *)
(* what it does to r's offer and to the tables (Settled): a dial is        *)
(* counted either because the connection leaves the offer, or because its  *)
(* one token refresh is spent.  The counters are bounded by that: the      *)
(* dials that the requests on the way can still make are booked ahead.     *)
Settled(r) ==
  LET o == req[r]
      p == req'[r]
      c == Current(o)
  IN /\ \A s \in Requests \ {r} : req'[s] = req[s]
     /\ p.cands = o.cands
     /\ Offered(p) \subseteq Offered(o)
     /\ o.refreshed \subseteq p.refreshed
     /\ \/ used' = used
        \/ /\ RecordDial(c)
           /\ \/ c \notin Offered(p)
              \/ OAuth /\ c \notin o.refreshed /\ c \in p.refreshed
     /\ \A d \in Conns : cool'[d] > cool[d] => Parks(r, d)

LEMMA BecomesOf ==
  ASSUME NEW r \in Requests, NEW p, Becomes(r, p)
  PROVE  req'[r] = p /\ \A s \in Requests \ {r} : req'[s] = req[s]
BY DEF Becomes

(* The loop goes on behind the candidate that failed: it leaves the offer, *)
(* and the request has passed it for good.                                 *)
LEMMA LeavesBehind ==
  ASSUME Inv, NEW r \in Requests, Waiting(req[r]), NEW q \in RequestRecords,
         q.cands = req[r].cands, Continue(r, q, req[r].attempt + 1)
  PROVE  LET p == req'[r]
         IN /\ \A s \in Requests \ {r} : req'[s] = req[s]
            /\ p.cands = req[r].cands /\ p.refreshed = q.refreshed
            /\ p.lastConn = q.lastConn /\ p.lastStatus = q.lastStatus
            /\ Offered(p) \subseteq Offered(req[r]) \ {Current(req[r])}
            /\ p.attempt > req[r].attempt \/ p.answer.kind = "failed"
<1> DEFINE o == req[r]
<1>1. /\ o \in RequestRecords /\ o.cands \in Seq(Conns) /\ Len(o.cands) \in Nat
      /\ o.attempt \in 1..Len(o.cands) /\ Injective(o.cands)
      /\ req \in [Requests -> RequestRecords]
  <2>1. ReqInv(o) /\ o \in RequestRecords /\ req \in [Requests -> RequestRecords]
    BY WaitingFacts DEF Inv, TypeOK
  <2>2. QED
    BY <2>1, ListOf
<1>2. PICK j \in (o.attempt + 1)..(Len(o.cands) + 1) :
        req' = [req EXCEPT ![r] = StopAt(q, o.attempt + 1, j)]
  BY DEF Continue
<1> DEFINE p == StopAt(q, o.attempt + 1, j)
<1>3. j \in 1..(Len(q.cands) + 1) /\ o.attempt + 1 \in Nat
  BY <1>1
<1>4. /\ p.cands = o.cands /\ p.refreshed = q.refreshed
      /\ p.lastConn = q.lastConn /\ p.lastStatus = q.lastStatus
      /\ j <= Len(o.cands) => p.pc = "dialing" /\ p.attempt = j
      /\ j > Len(o.cands) => p.pc = "done" /\ p.answer.kind = "failed"
  BY <1>3, Stops
<1>5. Becomes(r, p)
  BY <1>1, <1>2 DEF Becomes
<1>6. p = req'[r] /\ \A s \in Requests \ {r} : req'[s] = req[s]
  BY <1>5, BecomesOf
<1> HIDE DEF p
<1>7. Offered(o) = {o.cands[i] : i \in o.attempt..Len(o.cands)}
  BY <1>1, OfferOf
<1>8. Offered(p) \subseteq Offered(o) \ {Current(o)}
  <2>1. CASE j <= Len(o.cands)
    <3>1. Offered(p) = {o.cands[i] : i \in j..Len(o.cands)}
      BY <1>4, <2>1 DEF Offered
    <3>2. ASSUME NEW i \in j..Len(o.cands)
          PROVE  i \in o.attempt..Len(o.cands) /\ o.cands[i] # o.cands[o.attempt]
      <4>1. i \in 1..Len(o.cands) /\ i # o.attempt /\ i \in o.attempt..Len(o.cands)
        BY <1>1
      <4>2. QED
        BY <1>1, <4>1 DEF Injective
    <3>3. QED
      BY <1>7, <3>1, <3>2 DEF Current
  <2>2. CASE j > Len(o.cands)
    BY <1>4, <2>2 DEF Offered
  <2>3. QED
    BY <1>1, <2>1, <2>2
<1>9. p.attempt > o.attempt \/ p.answer.kind = "failed"
  BY <1>1, <1>4
<1>10. QED
  BY <1>4, <1>6, <1>8, <1>9

(* A request that ends has nothing on offer.                               *)
LEMMA EndsWith ==
  ASSUME Inv, NEW r \in Requests, Waiting(req[r]), NEW p,
         req' = [req EXCEPT ![r] = p], p.pc = "done", p.cands = req[r].cands,
         req[r].refreshed \subseteq p.refreshed,
         used' = used \/ RecordDial(Current(req[r])),
         \A d \in Conns : ~(cool'[d] > cool[d])
  PROVE  Settled(r)
<1>1. Becomes(r, p)
  BY DEF Becomes, Inv, TypeOK
<1>2. Offered(p) = {}
  BY DEF Offered
<1>3. QED
  BY <1>1, <1>2, BecomesOf DEF Settled

LEMMA CoolKept ==
  ASSUME Inv, UNCHANGED cool
  PROVE  \A d \in Conns : ~(cool'[d] > cool[d])
BY DEF Inv, TypeOK

LEMMA EndingsSettle ==
  ASSUME Inv, NEW r \in Requests,
         DialOk(r) \/ DialAborted(r) \/ RefreshThrew(r) \/ DialFatal(r)
  PROVE  Settled(r)
<1> DEFINE o == req[r]
<1>1. Waiting(o) /\ o \in RequestRecords
  BY DEF DialOk, DialAborted, RefreshThrew, DialFatal, Waiting, Inv, TypeOK
<1>2. CASE DialOk(r)
  <2> DEFINE p == Answer(Answered(o, "none"),
                         [NoAnswer EXCEPT !.kind = "ok", !.conn = Current(o)])
  <2>1. p.pc = "done" /\ p.cands = o.cands /\ p.refreshed = o.refreshed
    BY <1>1 DEF Answer, Answered, RequestRecords
  <2>2. /\ req' = [req EXCEPT ![r] = p] /\ RecordDial(Current(o))
        /\ cool' = [cool EXCEPT ![Current(o)] = 0]
    BY <1>2 DEF DialOk, ClearCooldown
  <2>3. \A d \in Conns : ~(cool'[d] > cool[d])
    BY <2>2 DEF Inv, TypeOK
  <2> HIDE DEF p
  <2>4. QED
    BY <1>1, <2>1, <2>2, <2>3, EndsWith
<1>3. CASE DialAborted(r)
  <2> DEFINE p == Answer(o, [NoAnswer EXCEPT !.kind = "aborted", !.conn = Current(o)])
  <2>1. p.pc = "done" /\ p.cands = o.cands /\ p.refreshed = o.refreshed
    BY <1>1 DEF Answer, RequestRecords
  <2>2. req' = [req EXCEPT ![r] = p] /\ RecordDial(Current(o)) /\ UNCHANGED cool
    BY <1>3 DEF DialAborted
  <2> HIDE DEF p
  <2>3. QED
    BY <1>1, <2>1, <2>2, CoolKept, EndsWith
<1>4. CASE RefreshThrew(r)
  <2> DEFINE p == Answer(o, [NoAnswer EXCEPT !.kind = "threw", !.conn = Current(o)])
  <2>1. p.pc = "done" /\ p.cands = o.cands /\ p.refreshed = o.refreshed
    BY <1>1 DEF Answer, RequestRecords
  <2>2. req' = [req EXCEPT ![r] = p] /\ used' = used /\ UNCHANGED cool
    BY <1>4 DEF RefreshThrew
  <2> HIDE DEF p
  <2>3. QED
    BY <1>1, <2>1, <2>2, CoolKept, EndsWith
<1>5. CASE DialFatal(r)
  <2>1. PICK st \in {"fatal", "unauthorized"} :
          req' = [req EXCEPT ![r] = AllFailed(Blame(Answered(o, st), st))]
    BY <1>5 DEF DialFatal
  <2> DEFINE p == AllFailed(Blame(Answered(o, st), st))
  <2>2. p.pc = "done" /\ p.cands = o.cands /\ p.refreshed = o.refreshed
    BY <1>1 DEF AllFailed, Answer, Blame, Answered, RequestRecords
  <2>3. req' = [req EXCEPT ![r] = p] /\ RecordDial(Current(o)) /\ UNCHANGED cool
    BY <1>5, <2>1 DEF DialFatal
  <2> HIDE DEF p
  <2>4. QED
    BY <1>1, <2>2, <2>3, CoolKept, EndsWith
<1>6. QED
  BY <1>2, <1>3, <1>4, <1>5

(* The three steps that park a connection.                                 *)
LEMMA FailoverSettles ==
  ASSUME Inv, NEW r \in Requests,
         DialRetryable(r) \/ DialUnauthorizedForGood(r) \/ RefreshFailed(r)
  PROVE  Settled(r)
<1> DEFINE o == req[r]
           c == Current(o)
<1>1. /\ Waiting(o) /\ o \in RequestRecords /\ Current(o) \in Conns
  BY WaitingFacts DEF DialRetryable, DialUnauthorizedForGood, RefreshFailed, Waiting
<1>2. ASSUME NEW st \in {"retryable", "unauthorized"},
             NEW g \in RequestRecords, g.cands = o.cands, g.attempt = o.attempt,
             o.refreshed \subseteq g.refreshed,
             Continue(r, Blame(g, st), o.attempt + 1),
             used' = used \/ RecordDial(c),
             o.aborted => o.pc = "refreshing",
             NEW k, NEW n, MarkCooldown(k, n), k = c
      PROVE  Settled(r)
  <2> DEFINE q == Blame(g, st)
             p == req'[r]
  <2>1. Current(g) = c
    BY <1>2 DEF Current
  <2>2. /\ q \in RequestRecords /\ q.lastConn = c /\ q.lastStatus = st
        /\ q.cands = o.cands /\ q.refreshed = g.refreshed
    BY <1>1, <1>2, <2>1, ConnInRange DEF Blame, RequestRecords, Statuses, Failures
  <2>3. Continue(r, q, o.attempt + 1)
    BY <1>2
  <2> HIDE DEF q
  <2>4. /\ \A s \in Requests \ {r} : req'[s] = req[s]
        /\ p.cands = o.cands /\ p.refreshed = g.refreshed
        /\ p.lastConn = c /\ p.lastStatus = st
        /\ Offered(p) \subseteq Offered(o) \ {c}
        /\ p.attempt > o.attempt \/ p.answer.kind = "failed"
    BY <1>1, <2>2, <2>3, LeavesBehind
  <2>5. Parks(r, c)
    BY <1>1, <1>2, <2>4 DEF Parks, Waiting
  <2>6. ASSUME NEW d \in Conns, cool'[d] > cool[d]
        PROVE  d = c
    <3>1. cool \in [Conns -> Nat]
      BY DEF Inv, TypeOK
    <3>2. QED
      BY <1>2, <2>6, <3>1 DEF MarkCooldown
  <2>7. QED
    BY <1>2, <2>4, <2>5, <2>6 DEF Settled
<1>3. CASE DialRetryable(r)
  <2> DEFINE g == Answered(o, "retryable")
  <2>1. g \in RequestRecords /\ g.cands = o.cands /\ g.attempt = o.attempt /\ g.refreshed = o.refreshed
    <3>1. [conn |-> c, result |-> "retryable"] \in [conn : 0..NConns, result : Statuses]
      BY <1>1, ConnInRange DEF Statuses, Failures
    <3>2. QED
      BY <1>1, <3>1 DEF Answered, RequestRecords
  <2>2. PICK n \in Cooldowns(o.attempt) : MarkCooldown(c, n)
    BY <1>3 DEF DialRetryable
  <2>3. Continue(r, Blame(g, "retryable"), o.attempt + 1) /\ RecordDial(c) /\ ~o.aborted
    BY <1>3 DEF DialRetryable
  <2> HIDE DEF g
  <2>4. QED
    BY <1>2, <2>1, <2>2, <2>3
<1>4. CASE DialUnauthorizedForGood(r)
  <2> DEFINE g == [Answered(o, "unauthorized") EXCEPT !.refreshed = @ \cup {c}]
  <2>1. /\ g \in RequestRecords /\ g.cands = o.cands /\ g.attempt = o.attempt
        /\ g.refreshed = o.refreshed \cup {c}
    <3>1. [conn |-> c, result |-> "unauthorized"] \in [conn : 0..NConns, result : Statuses]
      BY <1>1, ConnInRange DEF Statuses, Failures
    <3>2. QED
      BY <1>1, <3>1 DEF Answered, RequestRecords
  <2>2. GiveUpOn(r, g) /\ RecordDial(c) /\ ~o.aborted
    BY <1>4 DEF DialUnauthorizedForGood
  <2> HIDE DEF g
  <2>3. Current(g) = c
    BY <2>1 DEF Current
  <2>4. PICK n \in Cooldowns(g.attempt) : MarkCooldown(Current(g), n)
    BY <2>2 DEF GiveUpOn
  <2>5. Continue(r, Blame(g, "unauthorized"), o.attempt + 1)
    BY <2>1, <2>2 DEF GiveUpOn
  <2>6. QED
    BY <1>2, <2>1, <2>2, <2>3, <2>4, <2>5
<1>5. CASE RefreshFailed(r)
  <2>1. GiveUpOn(r, o) /\ used' = used /\ o.pc = "refreshing"
    BY <1>5 DEF RefreshFailed
  <2>2. PICK n \in Cooldowns(o.attempt) : MarkCooldown(c, n)
    BY <2>1 DEF GiveUpOn
  <2>3. Continue(r, Blame(o, "unauthorized"), o.attempt + 1)
    BY <2>1 DEF GiveUpOn
  <2>4. QED
    BY <1>1, <1>2, <2>1, <2>2, <2>3
<1>6. QED
  BY <1>3, <1>4, <1>5

(* A 401 spends the one refresh of its connection; what follows a refresh  *)
(* dials the same candidate again and counts nothing yet.                  *)
LEMMA RefreshSettles ==
  ASSUME Inv, NEW r \in Requests, DialUnauthorized(r) \/ RefreshOk(r)
  PROVE  Settled(r)
<1> DEFINE o == req[r]
           c == Current(o)
           n == o.attempt
<1>1. /\ Waiting(o) /\ ReqInv(o) /\ Readable(o) /\ o \in RequestRecords
      /\ req \in [Requests -> RequestRecords]
  BY WaitingFacts DEF DialUnauthorized, RefreshOk, Waiting, Inv, TypeOK
<1>2. CASE DialUnauthorized(r)
  <2> DEFINE p == [Answered(o, "unauthorized") EXCEPT !.pc = "refreshing",
                                                      !.refreshed = @ \cup {c}]
  <2>1. Becomes(r, p) /\ RecordDial(c) /\ OAuth /\ c \notin o.refreshed /\ UNCHANGED cool
    BY <1>1, <1>2 DEF DialUnauthorized, Becomes
  <2>2. /\ p.pc = "refreshing" /\ p.attempt = n /\ p.cands = o.cands
        /\ p.refreshed = o.refreshed \cup {c}
    BY <1>1 DEF Answered, RequestRecords
  <2> HIDE DEF p
  <2>3. Offered(p) = Offered(o)
    BY <1>1, <2>2 DEF Offered, Waiting
  <2>4. QED
    BY <2>1, <2>2, <2>3, BecomesOf, CoolKept DEF Settled
<1>3. CASE RefreshOk(r)
  <2>1. /\ n \in 1..Len(o.cands) /\ Len(o.cands) \in Nat /\ c = o.cands[n]
        /\ c \notin o.badKeys /\ OAuth /\ conn[c].exists
    BY <1>1, <1>3 DEF ReqInv, RequestRecords, Current, RefreshOk
  <2>2. PICK j \in n..(Len(o.cands) + 1) :
          IsNextStop(o, n, j) /\ req' = [req EXCEPT ![r] = StopAt(o, n, j)]
    BY <1>3 DEF RefreshOk, Continue
  <2>3. ~Undialable(o, o.cands[n])
    BY <1>1, <2>1 DEF Undialable, Readable
  <2>4. j = n
    BY <2>1, <2>2, <2>3 DEF IsNextStop
  <2> DEFINE p == StopAt(o, n, j)
  <2>5. /\ p.pc = "dialing" /\ p.attempt = n /\ p.cands = o.cands
        /\ p.refreshed = o.refreshed
    <3>1. j \in 1..(Len(o.cands) + 1) /\ n \in Nat /\ j <= Len(o.cands)
      BY <2>1, <2>4
    <3>2. QED
      BY <1>1, <2>4, <3>1, Stops
  <2>6. Becomes(r, p) /\ used' = used /\ UNCHANGED cool
    BY <1>1, <1>3, <2>2 DEF Becomes, RefreshOk
  <2> HIDE DEF p
  <2>7. Offered(p) = Offered(o)
    BY <1>1, <2>5 DEF Offered, Waiting
  <2>8. QED
    BY <2>5, <2>6, <2>7, BecomesOf, CoolKept DEF Settled
<1>4. QED
  BY <1>2, <1>3

LEMMA SettleSettles ==
  ASSUME Inv, NEW r \in Requests, Settle(r)
  PROVE  Settled(r)
BY EndingsSettle, FailoverSettles, RefreshSettles DEF Settle

(* The listing of the eligible connections has each once.                  *)
LEMMA SortedFacts ==
  ASSUME Inv, NEW s \in SortedListings(Eligible)
  PROVE  s \in Seq(Conns) /\ s \in Seq(Eligible) /\ Injective(s)
<1>1. Eligible \subseteq Conns /\ conn \in [Conns -> [exists : BOOLEAN, enabled : BOOLEAN,
                                                 prio : Nat, keyOk : BOOLEAN]]
  BY DEF Eligible, Inv, TypeOK
<1>2. PICK n \in Nat : /\ n = Cardinality(Eligible) /\ s \in [1..n -> Eligible]
                       /\ \A i, j \in 1..n : i < j => Before(s[i], s[j])
  <2>1. IsFiniteSet(Conns)
    BY DispatchAssumption, FS_Interval DEF Conns
  <2>2. Cardinality(Eligible) \in Nat
    BY <1>1, <2>1, FS_Subset, FS_CardinalityType
  <2>3. QED
    BY <2>2 DEF SortedListings
<1>3. s \in Seq(Conns) /\ s \in Seq(Eligible) /\ Len(s) = n
  BY <1>1, <1>2
<1>4. ASSUME NEW i \in 1..n, NEW j \in 1..n, i < j
      PROVE  s[i] # s[j]
  <2>1. Before(s[i], s[j]) /\ s[i] \in Conns
    BY <1>1, <1>2, <1>4
  <2>2. \A c \in Conns : ~Before(c, c)
    BY <1>1 DEF Before, Conns
  <2>3. QED
    BY <2>1, <2>2
<1>5. QED
  <2>1. ASSUME NEW i \in 1..n, NEW j \in 1..n, s[i] = s[j]
        PROVE  i = j
    BY <1>4, <2>1
  <2>2. QED
    BY <1>3, <2>1 DEF Injective

(* Rotating a list of S gives a list of S.                                 *)
LEMMA RotationKeeps ==
  ASSUME NEW S, NEW s \in Seq(S)
  PROVE  ApplyFallbackStrategy(s) \in Seq(S)
<1>1. ASSUME NEW k \in 1..Len(s)
      PROVE  RotatePast(s, k) \in Seq(S)
  <2>1. Len(s) \in Nat
    OBVIOUS
  <2>2. \A i \in 1..Len(s) :
          (IF i + k <= Len(s) THEN s[i + k] ELSE s[i + k - Len(s)]) \in S
    BY <1>1, <2>1
  <2>3. QED
    BY <2>1, <2>2 DEF RotatePast
<1>2. CASE \E k \in 1..Len(s) : s[k] = cursor
  <2>1. (CHOOSE k \in 1..Len(s) : s[k] = cursor) \in 1..Len(s)
    BY <1>2
  <2>2. QED
    BY <1>1, <2>1 DEF ApplyFallbackStrategy
<1>3. CASE ~\E k \in 1..Len(s) : s[k] = cursor
  BY <1>3 DEF ApplyFallbackStrategy
<1>4. QED
  BY <1>2, <1>3

(* Start lists connections that are eligible, each once.                   *)
LEMMA StartLists ==
  ASSUME Inv, NEW r \in Requests, Start(r)
  PROVE  /\ \A s \in Requests \ {r} : req'[s] = req[s]
         /\ \E sorted \in SortedListings(Eligible) :
              req'[r].cands = ApplyFallbackStrategy(sorted)
         /\ Offered(req'[r]) \subseteq Eligible
         /\ UNCHANGED <<conn, cool, used, phase, cursor, strategy>>
<1> DEFINE o == req[r]
<1>1. /\ o \in RequestRecords /\ Blank(o) /\ req \in [Requests -> RequestRecords]
  BY DEF Inv, TypeOK, ReqInv, Start
<1>2. PICK sorted \in SortedListings(Eligible) :
        LET s == ApplyFallbackStrategy(sorted)
            q == [o EXCEPT !.cands = s,
                           !.rotating = (strategy = "round-robin"),
                           !.badKeys = {c \in Eligible : ~conn[c].keyOk}]
        IN IF s = <<>>
           THEN req' = [req EXCEPT ![r] =
                  Answer(q, [NoAnswer EXCEPT !.kind = "noCandidates"])]
           ELSE Continue(r, q, 1)
  BY DEF Start
<1> DEFINE s == ApplyFallbackStrategy(sorted)
           bad == {c \in Eligible : ~conn[c].keyOk}
           q == [o EXCEPT !.cands = s, !.rotating = (strategy = "round-robin"),
                          !.badKeys = bad]
<1>3. Eligible \subseteq Conns /\ s \in Seq(Eligible) /\ s \in Seq(Conns) /\ Len(s) \in Nat
  <2>1. Eligible \subseteq Conns
    BY DEF Eligible
  <2>2. s \in Seq(Eligible)
    BY SortedFacts, RotationKeeps
  <2>3. s \in Seq(Conns)
    BY <2>1, CandidatesType DEF Inv
  <2>4. QED
    BY <2>1, <2>2, <2>3
<1>4. q \in RequestRecords /\ q.cands = s
  <2>1. bad \in SUBSET Conns /\ (strategy = "round-robin") \in BOOLEAN
    BY DEF Eligible
  <2> HIDE DEF s, bad
  <2>2. QED
    BY <1>1, <1>3, <2>1 DEF RequestRecords
<1>5. PICK p : /\ req' = [req EXCEPT ![r] = p] /\ p.cands = s
               /\ Waiting(p) => s # <<>> /\ p.attempt \in 1..Len(s)
  <2>1. CASE s = <<>>
    <3> DEFINE p == Answer(q, [NoAnswer EXCEPT !.kind = "noCandidates"])
    <3>1. req' = [req EXCEPT ![r] = p]
      BY <1>2, <2>1
    <3> HIDE DEF q
    <3>2. p.cands = s /\ p.pc = "done"
      BY <1>4 DEF Answer, RequestRecords
    <3>3. QED
      BY <3>1, <3>2 DEF Waiting
  <2>2. CASE s # <<>>
    <3>1. Continue(r, q, 1)
      BY <1>2, <2>2
    <3> HIDE DEF q, s
    <3>2. PICK j \in 1..(Len(s) + 1) : req' = [req EXCEPT ![r] = StopAt(q, 1, j)]
      BY <1>4, <3>1 DEF Continue
    <3> DEFINE p == StopAt(q, 1, j)
    <3>3. /\ p.cands = s
          /\ j <= Len(s) => p.pc = "dialing" /\ p.attempt = j
          /\ j > Len(s) => p.pc = "done"
      BY <1>4, Stops
    <3> HIDE DEF p
    <3>4. Waiting(p) => p.attempt \in 1..Len(s)
      BY <1>3, <3>3 DEF Waiting
    <3>5. QED
      BY <2>2, <3>2, <3>3, <3>4 DEF p
  <2>3. QED
    BY <2>1, <2>2
<1>6. req'[r] = p /\ \A t \in Requests \ {r} : req'[t] = req[t]
  BY <1>1, <1>5
<1> HIDE DEF q, s, bad
<1>7. Offered(p) \subseteq Eligible
  BY <1>3, <1>5 DEF Offered, Waiting
<1>8. UNCHANGED <<conn, cool, used, phase, cursor, strategy>>
  BY DEF Start
<1>9. QED
  BY <1>5, <1>6, <1>7, <1>8 DEF s

(* Whoever does not start or settle leaves a request alone, gives it the   *)
(* signal, or takes its answer: no more is on offer than before.           *)
Aside(r) ==
  /\ req'[r].cands = req[r].cands \/ req'[r].cands = <<>>
  /\ Offered(req'[r]) \subseteq Offered(req[r])
  /\ Offered(req'[r]) # {} => req'[r].refreshed = req[r].refreshed

LEMMA CallerAside ==
  ASSUME Inv, NEW r \in Requests, Abort(r) \/ Release(r)
  PROVE  \A s \in Requests : Aside(s)
<1> DEFINE o == req[r]
<1>1. o \in RequestRecords /\ req \in [Requests -> RequestRecords]
  BY DEF Inv, TypeOK
<1>2. CASE Abort(r)
  <2> DEFINE p == [o EXCEPT !.aborted = TRUE]
  <2>1. Becomes(r, p)
    BY <1>1, <1>2 DEF Abort, Becomes
  <2>2. /\ p.pc = o.pc /\ p.cands = o.cands /\ p.attempt = o.attempt
        /\ p.refreshed = o.refreshed
    BY <1>1 DEF RequestRecords
  <2> HIDE DEF p
  <2>3. Offered(p) = Offered(o)
    BY <2>2 DEF Offered
  <2>4. QED
    BY <2>1, <2>2, <2>3, BecomesOf DEF Aside
<1>3. CASE Release(r)
  <2>1. Becomes(r, IdleRequest)
    BY <1>1, <1>3 DEF Release, Becomes
  <2>2. IdleRequest.cands = <<>> /\ Offered(IdleRequest) = {}
    BY DEF IdleRequest, Offered
  <2>3. QED
    BY <2>1, <2>2, BecomesOf DEF Aside
<1>4. QED
  BY <1>2, <1>3

(* Every step, as the tables see it.                                       *)
LEMMA StepKinds ==
  ASSUME Inv, [Next]_vars
  PROVE  \/ \E r \in Requests : Start(r) \/ (Settle(r) /\ Settled(r))
         \/ /\ \A s \in Requests : Aside(s)
            /\ \A d \in Conns : ~(cool'[d] > cool[d])
            /\ \A c \in Conns : used'[c] = used[c] \/ used'[c] = 0
<1>1. cool \in [Conns -> Nat] /\ used \in [Conns -> Nat]
  BY DEF Inv, TypeOK
<1>2. ASSUME UNCHANGED req
      PROVE  \A s \in Requests : Aside(s)
  BY <1>2 DEF Aside, Offered
<1>3. CASE \E r \in Requests : Settle(r)
  BY <1>3, SettleSettles
<1>4. CASE \E r \in Requests : Abort(r) \/ Release(r)
  <2>1. UNCHANGED <<cool, used>>
    BY <1>4 DEF Abort, Release
  <2>2. QED
    BY <1>4, <2>1, CallerAside, CoolKept
<1>5. CASE Tick
  <2>1. \A d \in Conns : ~(cool'[d] > cool[d])
    BY <1>1, <1>5 DEF Tick
  <2>2. \A c \in Conns : used'[c] = used[c] \/ used'[c] = 0
    BY <1>1, <1>5 DEF Tick
  <2>3. UNCHANGED req
    BY <1>5 DEF Tick
  <2>4. QED
    BY <1>2, <2>1, <2>2, <2>3
<1>6. CASE Admin \/ UNCHANGED vars
  <2>1. UNCHANGED req
    BY <1>6 DEF Admin, Toggle, Rekey, Delete, Reorder, SetStrategy, vars
  <2>2. \/ UNCHANGED <<cool, used>>
        \/ \E c \in Conns : /\ used' = [used EXCEPT ![c] = 0]
                            /\ cool' = [cool EXCEPT ![c] = 0]
    BY <1>6 DEF Admin, Toggle, Rekey, Delete, Reorder, SetStrategy, vars
  <2>3. /\ \A d \in Conns : ~(cool'[d] > cool[d])
        /\ \A c \in Conns : used'[c] = used[c] \/ used'[c] = 0
    BY <1>1, <2>2
  <2>4. QED
    BY <1>2, <2>1, <2>3
<1>7. QED
  BY <1>3, <1>4, <1>5, <1>6 DEF Next

-----------------------------------------------------------------------------
(* Only a request that got a retryable status or a lasting 401 from a      *)
(* connection parks it, and that request blames it and has left it for     *)
(* good (dispatchAttempt.ts): a hang-up, a deletion or the clock never     *)
(* makes a cooldown longer.                                                *)
THEOREM ParkingBlames == Spec => ParkingIsBlamed
<1>1. ASSUME Inv, [Next]_vars
      PROVE  \A c \in Conns : cool'[c] > cool[c] => \E r \in Requests : Parks(r, c)
  <2>1. CASE \E r \in Requests : Start(r)
    BY <1>1, <2>1, CoolKept, StartLists
  <2>2. CASE \E r \in Requests : Settled(r)
    BY <2>2 DEF Settled
  <2>3. QED
    BY <1>1, <2>1, <2>2, StepKinds
<1>2. Inv /\ [Next]_vars =>
        [\A c \in Conns : cool'[c] > cool[c] => \E r \in Requests : Parks(r, c)]_vars
  BY <1>1
<1>3. Spec => []Inv
  BY InitInv, NextInv, PTL DEF Spec
<1>4. QED
  BY <1>2, <1>3, PTL DEF Spec, ParkingIsBlamed

(* The rotation starts behind the cursor.                                  *)
LEMMA RotationHead ==
  ASSUME NEW s \in Seq(Conns), Injective(s), strategy = "round-robin",
         Len(ApplyFallbackStrategy(s)) > 1
  PROVE  ApplyFallbackStrategy(s)[1] # cursor
<1>1. CASE \E k \in 1..Len(s) : s[k] = cursor
  <2> DEFINE k == CHOOSE i \in 1..Len(s) : s[i] = cursor
  <2>1. k \in 1..Len(s) /\ s[k] = cursor
    BY <1>1
  <2>2. ApplyFallbackStrategy(s) = RotatePast(s, k)
    BY <1>1 DEF ApplyFallbackStrategy
  <2> HIDE DEF k
  <2>3. Len(s) \in Nat /\ Len(RotatePast(s, k)) = Len(s)
    BY DEF RotatePast
  <2>4. Len(s) > 1
    BY <2>2, <2>3
  <2>5. RotatePast(s, k)[1] = IF 1 + k <= Len(s) THEN s[1 + k] ELSE s[1 + k - Len(s)]
    BY <2>3, <2>4 DEF RotatePast
  <2>6. PICK m \in 1..Len(s) : m # k /\ RotatePast(s, k)[1] = s[m]
    BY <2>1, <2>3, <2>4, <2>5
  <2>7. QED
    BY <2>1, <2>2, <2>6 DEF Injective
<1>2. CASE ~\E k \in 1..Len(s) : s[k] = cursor
  <2>1. ApplyFallbackStrategy(s) = s
    BY <1>2 DEF ApplyFallbackStrategy
  <2>2. 1 \in 1..Len(s)
    BY <2>1
  <2>3. QED
    BY <1>2, <2>1, <2>2
<1>3. QED
  BY <1>1, <1>2

(* Under round-robin a request that can choose does not start at the       *)
(* connection that served the last success (selectConnection.ts), however  *)
(* the dashboard reorders, disables or deletes connections in between.     *)
THEOREM RotationDoesAdvance == Spec => RotationAdvances
<1> DEFINE Turns(r) == (/\ req[r].cands = <<>>
                        /\ Len(req'[r].cands) > 1
                        /\ strategy = "round-robin") => req'[r].cands[1] # cursor
<1>1. ASSUME Inv, [Next]_vars, NEW r \in Requests
      PROVE  Turns(r)
  <2>1. CASE req'[r].cands = req[r].cands \/ req'[r].cands = <<>>
    <3>1. Len(<<>>) = 0
      OBVIOUS
    <3>2. QED
      BY <2>1, <3>1
  <2>2. CASE Start(r)
    <3>1. PICK s \in SortedListings(Eligible) :
            req'[r].cands = ApplyFallbackStrategy(s)
      BY <1>1, <2>2, StartLists
    <3>2. s \in Seq(Conns) /\ Injective(s)
      BY <1>1, SortedFacts
    <3>3. QED
      BY <3>1, <3>2, RotationHead
  <2>3. CASE \E s \in Requests : Start(s) \/ Settled(s)
    <3>1. PICK s \in Requests : Start(s) \/ Settled(s)
      BY <2>3
    <3>2. CASE s = r
      BY <2>1, <2>2, <3>1, <3>2 DEF Settled
    <3>3. CASE s # r
      BY <1>1, <2>1, <3>1, <3>3, StartLists DEF Settled
    <3>4. QED
      BY <3>2, <3>3
  <2>4. QED
    BY <1>1, <2>1, <2>3, StepKinds DEF Aside
<1>2. Inv /\ [Next]_vars => [\A r \in Requests : Turns(r)]_vars
  BY <1>1
<1>3. Spec => []Inv
  BY InitInv, NextInv, PTL DEF Spec
<1>4. QED
  BY <1>2, <1>3, PTL DEF Spec, RotationAdvances

-----------------------------------------------------------------------------
(* The dials that may still be counted on c: one by each request that has  *)
(* it on offer, and one more by each of those that can refresh its token.  *)
MayDial(c) == {r \in Requests : c \in Offered(req[r])}
MayRetry(c) == {r \in Requests : c \in Offered(req[r]) /\ OAuth /\ c \notin req[r].refreshed}

Booked(c) == used[c] + Cardinality(MayDial(c)) + Cardinality(MayRetry(c))

QuotaInv ==
  \A c \in Conns :
    QuotaLimit[c] > 0 =>
      Booked(c) <= QuotaLimit[c] - 1 + DialsPerRequest * Cardinality(Requests)

LEMMA BookingSizes ==
  ASSUME NEW c
  PROVE  /\ IsFiniteSet(MayDial(c)) /\ IsFiniteSet(MayRetry(c))
         /\ Cardinality(MayDial(c)) \in Nat /\ Cardinality(MayRetry(c)) \in Nat
         /\ DialsPerRequest * Cardinality(Requests) \in Nat
         /\ Cardinality(MayDial(c)) + Cardinality(MayRetry(c))
              <= DialsPerRequest * Cardinality(Requests)
<1>1. IsFiniteSet(Requests) /\ Cardinality(Requests) \in Nat
  BY DispatchAssumption, FS_CardinalityType
<1>2. MayDial(c) \subseteq Requests /\ MayRetry(c) \subseteq Requests
  BY DEF MayDial, MayRetry
<1>3. /\ IsFiniteSet(MayDial(c)) /\ Cardinality(MayDial(c)) <= Cardinality(Requests)
      /\ IsFiniteSet(MayRetry(c)) /\ Cardinality(MayRetry(c)) <= Cardinality(Requests)
  BY <1>1, <1>2, FS_Subset
<1>4. Cardinality(MayDial(c)) \in Nat /\ Cardinality(MayRetry(c)) \in Nat
  BY <1>3, FS_CardinalityType
<1>5. CASE OAuth
  BY <1>1, <1>3, <1>4, <1>5 DEF DialsPerRequest
<1>6. CASE ~OAuth
  <2>1. MayRetry(c) = {}
    BY <1>6 DEF MayRetry
  <2>2. Cardinality(MayRetry(c)) = 0
    BY <2>1, FS_EmptySet
  <2>3. QED
    BY <1>1, <1>3, <1>4, <1>6, <2>2 DEF DialsPerRequest
<1>7. QED
  BY <1>5, <1>6

LEMMA Smaller ==
  ASSUME NEW S, IsFiniteSet(S), NEW T \in SUBSET S
  PROVE  /\ Cardinality(S) \in Nat /\ Cardinality(T) \in Nat
         /\ Cardinality(T) <= Cardinality(S)
         /\ \A x \in S \ T : Cardinality(T) <= Cardinality(S) - 1
<1>1. IsFiniteSet(T) /\ Cardinality(T) <= Cardinality(S)
  BY FS_Subset
<1>2. Cardinality(S) \in Nat /\ Cardinality(T) \in Nat
  BY <1>1, FS_CardinalityType
<1>3. ASSUME NEW x \in S \ T
      PROVE  Cardinality(T) <= Cardinality(S) - 1
  <2>1. T \in SUBSET (S \ {x})
    BY <1>3
  <2>2. IsFiniteSet(S \ {x}) /\ Cardinality(S \ {x}) = Cardinality(S) - 1
    BY <1>3, FS_RemoveElement
  <2>3. QED
    BY <2>1, <2>2, FS_Subset
<1>4. QED
  BY <1>1, <1>2, <1>3

(* A step that leaves the counter and adds no booking.                     *)
LEMMA BookingsShrink ==
  ASSUME NEW c, NEW u \in Nat, used[c] = u,
         MayDial(c)' \subseteq MayDial(c), MayRetry(c)' \subseteq MayRetry(c)
  PROVE  /\ used'[c] = u => Booked(c)' <= Booked(c)
         /\ (used'[c] = u + 1 /\ (MayDial(c)' # MayDial(c) \/ MayRetry(c)' # MayRetry(c)))
              => Booked(c)' <= Booked(c)
<1> DEFINE a == Cardinality(MayDial(c))
           b == Cardinality(MayRetry(c))
           a2 == Cardinality(MayDial(c)')
           b2 == Cardinality(MayRetry(c)')
<1>1. Booked(c) = u + a + b /\ Booked(c)' = used'[c] + a2 + b2
  BY DEF Booked
<1>2. /\ a \in Nat /\ a2 \in Nat /\ a2 <= a
      /\ MayDial(c)' # MayDial(c) => a2 <= a - 1
  BY BookingSizes, Smaller
<1>3. /\ b \in Nat /\ b2 \in Nat /\ b2 <= b
      /\ MayRetry(c)' # MayRetry(c) => b2 <= b - 1
  BY BookingSizes, Smaller
<1> HIDE DEF a, b, a2, b2
<1>4. QED
  BY <1>1, <1>2, <1>3

(* A settled await books nothing, and pays for the dial it counts.         *)
LEMMA SettledBooks ==
  ASSUME Inv, NEW r \in Requests, Waiting(req[r]), Settled(r), NEW c \in Conns
  PROVE  Booked(c)' <= Booked(c)
<1> DEFINE o == req[r]
           p == req'[r]
           k == Current(o)
<1>1. used \in [Conns -> Nat] /\ k \in Conns /\ ReqInv(o)
  BY WaitingFacts DEF Inv, TypeOK
<1>2. k \in Offered(o)
  BY <1>1, CurrentOffered
<1>3. /\ \A s \in Requests \ {r} : req'[s] = req[s]
      /\ Offered(p) \subseteq Offered(o) /\ o.refreshed \subseteq p.refreshed
  BY DEF Settled
<1>4. MayDial(c)' = {s \in Requests : c \in Offered(req'[s])}
  BY DEF MayDial, Offered
<1>5. MayRetry(c)' = {s \in Requests : c \in Offered(req'[s]) /\ OAuth /\ c \notin req'[s].refreshed}
  BY DEF MayRetry, Offered
<1>6. \A s \in Requests : /\ Offered(req'[s]) \subseteq Offered(req[s])
                          /\ req[s].refreshed \subseteq req'[s].refreshed
  BY <1>3
<1>7. MayDial(c)' \subseteq MayDial(c) /\ MayRetry(c)' \subseteq MayRetry(c)
  BY <1>4, <1>5, <1>6 DEF MayDial, MayRetry
<1>8. CASE used'[c] = used[c]
  BY <1>1, <1>7, <1>8, BookingsShrink
<1>9. CASE used'[c] # used[c]
  <2>1. /\ c = k /\ used'[c] = used[c] + 1
        /\ k \notin Offered(p) \/ (OAuth /\ k \notin o.refreshed /\ k \in p.refreshed)
    BY <1>1, <1>9 DEF Settled, RecordDial
  <2>2. r \in MayDial(c) /\ (k \notin Offered(p) => r \notin MayDial(c)')
    BY <1>2, <1>4, <2>1 DEF MayDial
  <2>3. (OAuth /\ k \notin o.refreshed /\ k \in p.refreshed) =>
          r \in MayRetry(c) /\ r \notin MayRetry(c)'
    BY <1>2, <1>5, <2>1 DEF MayRetry
  <2>4. MayDial(c)' # MayDial(c) \/ MayRetry(c)' # MayRetry(c)
    BY <2>1, <2>2, <2>3
  <2>5. QED
    BY <1>1, <1>7, <2>1, <2>4, BookingsShrink
<1>10. QED
  BY <1>8, <1>9

(* Whoever does not start or settle books nothing either.                  *)
LEMMA AsideBooks ==
  ASSUME NEW c \in Conns, used \in [Conns -> Nat], used'[c] = used[c],
         \A s \in Requests : /\ c \in Offered(req'[s]) => c \in Offered(req[s])
                             /\ c \in Offered(req'[s]) =>
                                  req[s].refreshed \subseteq req'[s].refreshed
  PROVE  Booked(c)' <= Booked(c)
<1>1. MayDial(c)' = {s \in Requests : c \in Offered(req'[s])}
  BY DEF MayDial, Offered
<1>2. MayRetry(c)' = {s \in Requests : c \in Offered(req'[s]) /\ OAuth /\ c \notin req'[s].refreshed}
  BY DEF MayRetry, Offered
<1>3. MayDial(c)' \subseteq MayDial(c) /\ MayRetry(c)' \subseteq MayRetry(c)
  BY <1>1, <1>2 DEF MayDial, MayRetry
<1>4. QED
  BY <1>3, BookingsShrink

LEMMA QuotaStep ==
  ASSUME Inv, Inv', QuotaInv, [Next]_vars
  PROVE  QuotaInv'
<1> SUFFICES ASSUME NEW c \in Conns, QuotaLimit[c] > 0
             PROVE  Booked(c)' <= QuotaLimit[c] - 1 + DialsPerRequest * Cardinality(Requests)
  BY DEF QuotaInv
<1> DEFINE N == DialsPerRequest * Cardinality(Requests)
           a2 == Cardinality(MayDial(c)')
           b2 == Cardinality(MayRetry(c)')
<1>1. /\ used \in [Conns -> Nat] /\ used' \in [Conns -> Nat]
      /\ QuotaLimit[c] \in Nat /\ N \in Nat
  BY BookingSizes, DispatchAssumption DEF Inv, TypeOK
<1>2. Booked(c) <= QuotaLimit[c] - 1 + N /\ Booked(c) \in Nat
  BY <1>1, BookingSizes DEF QuotaInv, Booked
<1>3. Booked(c)' \in Nat /\ a2 \in Nat /\ b2 \in Nat /\ a2 + b2 <= N
      /\ Booked(c)' = used'[c] + a2 + b2
  <2>1. /\ (Cardinality(MayDial(c)) \in Nat)' /\ (Cardinality(MayRetry(c)) \in Nat)'
        /\ (Cardinality(MayDial(c)) + Cardinality(MayRetry(c)) <= N)'
    BY BookingSizes, PTL
  <2>2. QED
    BY <1>1, <2>1 DEF Booked
<1> HIDE DEF N, a2, b2
<1>4. ASSUME Booked(c)' <= Booked(c)
      PROVE  Booked(c)' <= QuotaLimit[c] - 1 + N
  BY <1>1, <1>2, <1>3, <1>4
<1>5. ASSUME used'[c] <= QuotaLimit[c] - 1
      PROVE  Booked(c)' <= QuotaLimit[c] - 1 + N
  BY <1>1, <1>3, <1>5
<1>6. CASE \E r \in Requests : Start(r)
  <2>1. PICK r \in Requests : Start(r)
    BY <1>6
  <2>2. /\ \A s \in Requests \ {r} : req'[s] = req[s]
        /\ Offered(req'[r]) \subseteq Eligible /\ used' = used
    BY <2>1, StartLists
  <2>3. CASE c \in Eligible
    <3>1. used[c] < QuotaLimit[c]
      BY <1>1, <2>3 DEF Eligible, OverQuota
    <3>2. QED
      BY <1>1, <1>5, <2>2, <3>1 DEF N
  <2>4. CASE c \notin Eligible
    <3>1. Booked(c)' <= Booked(c)
      BY <1>1, <2>2, <2>4, AsideBooks
    <3>2. QED
      BY <1>4, <3>1 DEF N
  <2>5. QED
    BY <2>3, <2>4
<1>7. CASE \E r \in Requests : Settle(r)
  <2>1. PICK r \in Requests : Settle(r)
    BY <1>7
  <2>2. Waiting(req[r])
    BY <2>1 DEF Settle, Waiting, DialOk, DialAborted, DialRetryable, DialFatal,
                DialUnauthorized, DialUnauthorizedForGood, RefreshFailed, RefreshOk, RefreshThrew
  <2>3. Booked(c)' <= Booked(c)
    BY <2>1, <2>2, SettleSettles, SettledBooks
  <2>4. QED
    BY <1>4, <2>3 DEF N
<1>8. CASE /\ \A s \in Requests : Aside(s)
           /\ used'[c] = used[c] \/ used'[c] = 0
  <2>1. CASE used'[c] = 0
    BY <1>1, <1>5, <2>1 DEF N
  <2>2. CASE used'[c] = used[c]
    <3>1. Booked(c)' <= Booked(c)
      BY <1>1, <1>8, <2>2, AsideBooks DEF Aside
    <3>2. QED
      BY <1>4, <3>1 DEF N
  <2>3. QED
    BY <1>8, <2>1, <2>2
<1>9. QED
  BY <1>6, <1>7, <1>8, StepKinds DEF N

(* The requests of a quota window overshoot its threshold by no more than  *)
(* the dials that requests running at once can still make, because every   *)
(* dial is counted (quotaWindows.ts) and no request lists a connection     *)
(* over its threshold (selectConnection.ts).                               *)
THEOREM QuotaOvershootIsBounded == Spec => []QuotaOvershootBounded
<1>1. Init => QuotaInv
  <2> SUFFICES ASSUME Init, NEW c \in Conns, QuotaLimit[c] > 0
               PROVE  Booked(c) <= QuotaLimit[c] - 1 + DialsPerRequest * Cardinality(Requests)
    BY DEF QuotaInv
  <2>1. used[c] = 0 /\ QuotaLimit[c] \in Nat
    BY DispatchAssumption DEF Init
  <2>2. QED
    BY <2>1, BookingSizes DEF Booked
<1>2. QuotaInv /\ Inv => QuotaOvershootBounded
  <2> SUFFICES ASSUME QuotaInv, Inv, NEW c \in Conns, QuotaLimit[c] > 0
               PROVE  used[c] <= QuotaLimit[c] - 1 + DialsPerRequest * Cardinality(Requests)
    BY DEF QuotaOvershootBounded
  <2>1. used[c] \in Nat /\ QuotaLimit[c] \in Nat
    BY DispatchAssumption DEF Inv, TypeOK
  <2>2. Booked(c) <= QuotaLimit[c] - 1 + DialsPerRequest * Cardinality(Requests)
    BY DEF QuotaInv
  <2>3. QED
    BY <2>1, <2>2, BookingSizes DEF Booked
<1>3. Inv /\ Inv' /\ QuotaInv /\ [Next]_vars => QuotaInv'
  BY QuotaStep
<1>4. Spec => []Inv
  BY InitInv, NextInv, PTL DEF Spec
<1>5. QED
  BY <1>1, <1>2, <1>3, <1>4, PTL DEF Spec
=============================================================================
