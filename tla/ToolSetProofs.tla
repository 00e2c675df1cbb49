--------------------------- MODULE ToolSetProofs ---------------------------
(***************************************************************************)
(* Proofs about ToolSet, for any number of requests, servers and tools and *)
(* any timers.                                                             *)
(*                                                                         *)
(* A discovery that is under way knows of every server it heard, and of    *)
(* none behind the one it awaits (Collected).  That stale tools fade is an *)
(* account of time: a view is no older than what the discovery has spent   *)
(* (Spent), and a cached one than a whole discovery and the time it has    *)
(* been cached (CacheLag), whichever request wrote it.                     *)
(***************************************************************************)
EXTENDS ToolSet, FiniteSetTheorems, WellFoundedInduction, TLAPS

W == ConnectTicks + AnswerTicks

(* The least that a discovery at its server may have taken, if every timer *)
(* before it ran out.                                                      *)
Spent(k) ==
  (k.at - 1) * W + (IF k.pc = "connecting" THEN ConnectTicks - k.left
                    ELSE ConnectTicks + AnswerTicks - k.left)

Offering(k, t) == {s \in k.heard : t \in k.view[s]}

Waiting(k) == k.pc \in {"connecting", "answering"}

(* What a discovery has collected from the servers before n.               *)
Collected(k, n) ==
  /\ k.heard \subseteq Listed(k.view)
  /\ \A s \in k.heard : s < n
  /\ \A t \in Tools :
       IF Offering(k, t) = {}
       THEN k.owner[t] = NoServer
       ELSE /\ k.owner[t] \in Offering(k, t)
            /\ \A s \in Offering(k, t) : k.owner[t] <= s

(* What a request knows when it got its tools; nothing was heard by one    *)
(* that found them in the cache.                                           *)
Equipped(k) ==
  k.heard # {} =>
    \A t \in Tools :
      IF Offering(k, t) = {}
      THEN k.owner[t] = NoServer
      ELSE /\ k.owner[t] \in Offering(k, t)
           /\ \A s \in Offering(k, t) : k.owner[t] <= s

Shape(k) ==
  /\ k.pc \in {"ready", "calling"} => k.mode = "fill" /\ Equipped(k)
  /\ k.pc = "done" => k.mode = "fire"
  /\ k.pc = "calling" => k.at \in Servers /\ \E t \in Tools : k.owner[t] = k.at
  /\ Waiting(k) =>
       k.mode \in {"fill", "fire"} /\ k.at \in Listed(k.view) /\ k.blocks = 0
  /\ k.pc = "connecting" => k.left <= ConnectTicks
  /\ k.pc = "answering" => k.left <= AnswerTicks
  /\ Waiting(k) /\ k.mode = "fill" => Collected(k, k.at)

Advert(r) == req[r].pc \in {"ready", "calling"} => advertised[r] = req[r].owner

(* Rows that were on in the view are not off for longer than lag.          *)
Lags(k, lag) ==
  \A s \in Servers : k.view[s] # Off /\ rows[s] = Off => offFor[s] <= lag

Behind(r) == Waiting(req[r]) /\ req[r].mode = "fill" => Lags(req[r], Spent(req[r]))

CacheLag ==
  cached.left > 0 =>
    \A t \in Tools : \A s \in Servers :
      cached.owner[t] = s /\ rows[s] = Off
        => offFor[s] <= FillTicks + (CacheTicks - cached.left)

IInv ==
  /\ TypeOK
  /\ \A r \in Requests : Shape(req[r]) /\ Advert(r) /\ Behind(r)
  /\ CacheLag
  /\ ClientsAreClosed

-----------------------------------------------------------------------------
(* Arithmetic.                                                             *)
LEMMA Constants ==
  /\ Cardinality(Servers) \in Nat /\ Servers = 1 .. Cardinality(Servers)
  /\ CacheTicks \in Nat \ {0} /\ ConnectTicks \in Nat \ {0} /\ AnswerTicks \in Nat \ {0}
  /\ W \in Nat \ {0} /\ FillTicks \in Nat /\ MaxLag = FillTicks + CacheTicks
  /\ EndOfList = Cardinality(Servers) + 1
<1>1. /\ Cardinality(Servers) \in Nat /\ Servers = 1 .. Cardinality(Servers)
      /\ CacheTicks \in Nat \ {0} /\ ConnectTicks \in Nat \ {0} /\ AnswerTicks \in Nat \ {0}
  BY ToolSetAssumption, FS_CardinalityType
<1>2. W \in Nat \ {0}
  BY <1>1 DEF W
<1>3. \A a, b \in Nat : a * b \in Nat
  OBVIOUS
<1>4. FillTicks \in Nat /\ FillTicks = Cardinality(Servers) * W
  BY <1>1, <1>2, <1>3 DEF FillTicks, W
<1>5. QED
  BY <1>1, <1>2, <1>4 DEF MaxLag, EndOfList

LEMMA FillProduct == FillTicks = (EndOfList - 1) * W
<1>1. EndOfList - 1 = Cardinality(Servers)
  BY Constants
<1>2. QED
  BY <1>1 DEF FillTicks, W

LEMMA Products ==
  ASSUME NEW a \in Nat, NEW b \in Nat, a <= b, NEW w \in Nat
  PROVE  a * w <= b * w /\ a * w \in Nat /\ (a + 1) * w = a * w + w
<1>1. PICK d \in Nat : b = a + d
  <2>1. b - a \in Nat /\ b = a + (b - a)
    OBVIOUS
  <2>2. QED
    BY <2>1
<1>2. b * w = a * w + d * w /\ d * w \in Nat /\ a * w \in Nat
  BY <1>1
<1>3. QED
  BY <1>2

LEMMA LeastElement ==
  ASSUME NEW T, T \subseteq Nat, T # {}
  PROVE  \E n \in T : \A m \in T : n <= m
<1> DEFINE Less == OpToRel(<, Nat)
<1>1. IsWellFoundedOn(Less, Nat)
  BY NatLessThanWellFounded
<1> HIDE DEF Less
<1>2. PICK n \in T : \A m \in T : ~ (<<m, n>> \in Less)
  BY <1>1, WFMin
<1>3. ASSUME NEW m \in T, m < n
      PROVE  <<m, n>> \in Less
  BY <1>3 DEF Less, OpToRel
<1>4. ASSUME NEW m \in T
      PROVE  n <= m
  <2>1. ~(m < n)
    BY <1>2, <1>3
  <2>2. m \in Nat /\ n \in Nat
    OBVIOUS
  <2>3. QED
    BY <2>1, <2>2
<1>5. QED
  BY <1>4

-----------------------------------------------------------------------------
(* The next stop of a discovery is the nearest listed server behind s.     *)
LEMMA NextStopIsNearest ==
  ASSUME NEW list, list \subseteq Servers, NEW s \in 0 .. Cardinality(Servers)
  PROVE  /\ NextStop(list, s) \in list \cup {EndOfList}
         /\ NextStop(list, s) > s
         /\ \A m \in list : m > s => NextStop(list, s) <= m
<1> USE Constants
<1> DEFINE T == {n \in list \cup {EndOfList} : n > s}
<1>1. T \subseteq Nat /\ EndOfList \in T
  OBVIOUS
<1>2. PICK n \in T : \A m \in T : n <= m
  <2>1. T # {}
    BY <1>1
  <2> HIDE DEF T
  <2>2. QED
    BY <1>1, <2>1, LeastElement
<1>3. n \in list \cup {EndOfList} /\ n > s /\ \A m \in list : m > s => n <= m
  BY <1>2
<1>4. QED
  BY <1>3 DEF NextStop

LEMMA VisitFacts ==
  ASSUME NEW k \in ReqRecords, NEW list, list \subseteq Servers,
         NEW s \in 0 .. Cardinality(Servers),
         NEW v, v = Visit(k, list, s)
  PROVE  /\ v \in ReqRecords
         /\ v.at > s /\ v.mode = k.mode /\ v.view = k.view /\ v.owner = k.owner
         /\ v.heard = k.heard /\ v.blocks = k.blocks
         /\ \/ v.pc = "done" /\ v.at = EndOfList
            \/ v.pc = "connecting" /\ v.at \in list /\ v.left = ConnectTicks
<1> USE Constants
<1> DEFINE n == NextStop(list, s)
<1>1. n \in list \cup {EndOfList} /\ n > s
  BY NextStopIsNearest
<1> HIDE DEF n
<1>2. v = [k EXCEPT !.at = n,
                    !.pc = IF n = EndOfList THEN "done" ELSE "connecting",
                    !.left = IF n = EndOfList THEN 0 ELSE ConnectTicks]
  BY DEF Visit, n
<1>3. n \in 0 .. EndOfList
  BY <1>1
<1>4. (IF n = EndOfList THEN 0 ELSE ConnectTicks) \in 0 .. ConnectTicks + AnswerTicks
  OBVIOUS
<1>5. v \in ReqRecords
  BY <1>2, <1>3, <1>4 DEF ReqRecords
<1>6. QED
  BY <1>1, <1>2, <1>5 DEF ReqRecords

LEMMA IdleTyped == IdleReq \in ReqRecords
<1> USE Constants
<1>1. /\ 0 \in 0 .. EndOfList /\ 0 \in 0 .. ConnectTicks + AnswerTicks /\ 0 \in 0 .. 1
      /\ [s \in Servers |-> Off] \in [Servers -> Allowlists \cup {Off}]
      /\ [t \in Tools |-> 0] \in [Tools -> Servers \cup {0}]
  OBVIOUS
<1>2. QED
  BY <1>1 DEF IdleReq, ReqRecords, NoServer, NoOwners

(* What is known before a step.                                            *)
LEMMA Known ==
  ASSUME IInv, NEW r \in Requests
  PROVE  /\ req \in [Requests -> ReqRecords] /\ req[r] \in ReqRecords
         /\ Shape(req[r]) /\ Advert(r) /\ Behind(r) /\ CacheLag /\ ClientsAreClosed
         /\ TypeOK
BY DEF IInv, TypeOK

(* A request that changes its own record k and what was advertised to it.  *)
LEMMA RecordKeeps ==
  ASSUME IInv, NEW r \in Requests, NEW k \in ReqRecords,
         req' = [req EXCEPT ![r] = k],
         NEW ad \in [Tools -> Servers \cup {NoServer}],
         advertised' = [advertised EXCEPT ![r] = ad],
         Shape(k), k.pc \in {"ready", "calling"} => ad = k.owner,
         Waiting(k) /\ k.mode = "fill" => Lags(k, Spent(k)),
         clients' \subseteq [req : Requests, at : Servers],
         \A c \in clients' : c \in clients \/ c.req = r,
         \A c \in clients' : c.req = r => k.pc \in {"answering", "calling"} /\ k.at = c.at,
         UNCHANGED <<rows, offFor>>, late' \subseteq Servers,
         cached' \in [left : 0 .. CacheTicks, owner : [Tools -> Servers \cup {NoServer}]],
         CacheLag'
  PROVE  IInv'
<1>1. req \in [Requests -> ReqRecords] /\ TypeOK
  BY DEF IInv, TypeOK
<1>2. TypeOK'
  BY <1>1 DEF TypeOK
<1>3. \A s \in Requests : req'[s] = IF s = r THEN k ELSE req[s]
  BY <1>1
<1>4. \A s \in Requests : advertised'[s] = IF s = r THEN ad ELSE advertised[s]
  BY <1>1 DEF TypeOK
<1>5. ASSUME NEW s \in Requests
      PROVE  Shape(req'[s]) /\ Advert(s)' /\ Behind(s)'
  <2>1. CASE s = r
    BY <1>3, <1>4, <2>1 DEF Advert, Behind, Lags
  <2>2. CASE s # r
    BY <1>3, <1>4, <2>2 DEF IInv, Advert, Behind, Lags
  <2>3. QED
    BY <2>1, <2>2
<1>6. ClientsAreClosed'
  <2> SUFFICES ASSUME NEW c \in clients'
               PROVE  req'[c.req].pc \in {"answering", "calling"} /\ req'[c.req].at = c.at
    BY DEF ClientsAreClosed
  <2>1. c.req \in Requests
    OBVIOUS
  <2>2. CASE c.req = r
    BY <1>3, <2>1, <2>2
  <2>3. CASE c.req # r
    BY <1>3, <2>1, <2>3 DEF IInv, ClientsAreClosed
  <2>4. QED
    BY <2>2, <2>3
<1>7. QED
  BY <1>2, <1>5, <1>6 DEF IInv, Shape, Equipped, Collected, Offering, Waiting, Listed

(* The same when nothing new is advertised.                                *)
LEMMA SameAdvert ==
  ASSUME IInv, NEW r \in Requests, NEW k \in ReqRecords,
         req' = [req EXCEPT ![r] = k], Shape(k),
         k.pc \in {"ready", "calling"} => advertised[r] = k.owner,
         Waiting(k) /\ k.mode = "fill" => Lags(k, Spent(k)),
         clients' \subseteq [req : Requests, at : Servers],
         \A c \in clients' : c \in clients \/ c.req = r,
         \A c \in clients' : c.req = r => k.pc \in {"answering", "calling"} /\ k.at = c.at,
         UNCHANGED <<rows, offFor, cached, advertised>>, late' \subseteq Servers
  PROVE  IInv'
<1> DEFINE ad == advertised[r]
<1>1. /\ advertised \in [Requests -> [Tools -> Servers \cup {NoServer}]]
      /\ cached' \in [left : 0 .. CacheTicks, owner : [Tools -> Servers \cup {NoServer}]]
      /\ CacheLag'
  BY DEF IInv, TypeOK, CacheLag
<1>2. ad \in [Tools -> Servers \cup {NoServer}] /\ advertised' = [advertised EXCEPT ![r] = ad]
  BY <1>1
<1>3. k.pc \in {"ready", "calling"} => ad = k.owner
  OBVIOUS
<1> HIDE DEF ad
<1>4. UNCHANGED <<rows, offFor>>
  OBVIOUS
<1>5. QED
  BY <1>1, <1>2, <1>3, <1>4, RecordKeeps

(* A request goes on to its next server, or is through.  k is its record   *)
(* with what it has collected so far.                                      *)
LEMMA SettleKeeps ==
  ASSUME IInv, NEW r \in Requests, NEW k \in ReqRecords,
         NEW list, list \subseteq Listed(k.view),
         NEW s \in 0 .. Cardinality(Servers),
         Settle(r, Visit(k, list, s)),
         k.mode \in {"fill", "fire"}, k.blocks = 0,
         k.mode = "fill" =>
           /\ Collected(k, s + 1)
           /\ Lags(k, s * W),
         clients' \subseteq clients, \A c \in clients' : c.req # r,
         UNCHANGED <<rows, offFor>>, late' \subseteq Servers
  PROVE  IInv'
<1> USE Constants
<1> DEFINE v == Visit(k, list, s)
<1>1. /\ v \in ReqRecords /\ v.at > s /\ v.mode = k.mode /\ v.view = k.view
      /\ v.owner = k.owner /\ v.heard = k.heard /\ v.blocks = k.blocks
      /\ \/ v.pc = "done" /\ v.at = EndOfList
         \/ v.pc = "connecting" /\ v.at \in list /\ v.left = ConnectTicks
  BY VisitFacts DEF Listed
<1>2. Settle(r, v)
  OBVIOUS
<1> HIDE DEF v
<1>3. v.at \in Nat \ {0} /\ v.left \in Nat
  BY <1>1 DEF ReqRecords
<1>4. ASSUME k.mode = "fill"
      PROVE  Collected(v, v.at) /\ Lags(v, (v.at - 1) * W)
  <2>1. Collected(v, v.at)
    <3>1. \A z \in k.heard : z < s + 1 => z < v.at
      BY <1>1, <1>3 DEF ReqRecords
    <3>2. QED
      BY <1>1, <1>4, <3>1 DEF Collected, Offering
  <2>2. s * W <= (v.at - 1) * W /\ s * W \in Nat /\ (v.at - 1) * W \in Nat
    <3>1. v.at - 1 \in Nat /\ s \in Nat /\ s <= v.at - 1
      BY <1>1, <1>3
    <3>2. QED
      BY <3>1, Products
  <2>3. offFor \in [Servers -> Nat]
    BY DEF IInv, TypeOK
  <2>4. Lags(k, s * W) /\ v.view = k.view
    BY <1>1, <1>4
  <2>5. Lags(v, (v.at - 1) * W)
    <3> SUFFICES ASSUME NEW z \in Servers, v.view[z] # Off, rows[z] = Off
                 PROVE  offFor[z] <= (v.at - 1) * W
      BY DEF Lags
    <3> DEFINE p == s * W
               q == (v.at - 1) * W
    <3>1. offFor[z] <= p
      BY <2>4 DEF Lags
    <3>2. p <= q /\ p \in Nat /\ q \in Nat /\ offFor[z] \in Nat
      BY <2>2, <2>3
    <3> HIDE DEF p, q
    <3>3. offFor[z] <= q
      BY <3>1, <3>2
    <3>4. QED
      BY <3>3 DEF q
  <2>6. QED
    BY <2>1, <2>5
<1>5. clients' \subseteq [req : Requests, at : Servers]
  BY DEF IInv, TypeOK
<1>6. CASE v.pc = "done" /\ v.mode = "fill"
  <2> DEFINE p == [v EXCEPT !.pc = "ready"]
  <2>1. /\ req' = [req EXCEPT ![r] = p]
        /\ cached' = [left |-> CacheTicks, owner |-> v.owner]
        /\ advertised' = [advertised EXCEPT ![r] = v.owner]
    BY <1>2, <1>6 DEF Settle
  <2>2. /\ p \in ReqRecords /\ p.pc = "ready" /\ p.mode = "fill" /\ p.owner = v.owner
        /\ p.heard = v.heard /\ p.view = v.view
    BY <1>1, <1>6 DEF ReqRecords
  <2>3. Collected(v, v.at) /\ Lags(v, FillTicks)
    BY <1>1, <1>4, <1>6, FillProduct
  <2>4. Shape(p)
    <3>1. Equipped(p)
      BY <2>2, <2>3 DEF Equipped, Collected, Offering
    <3>2. QED
      BY <2>2, <3>1 DEF Shape, Waiting
  <2>5. v.owner \in [Tools -> Servers \cup {NoServer}]
    BY <1>1 DEF ReqRecords
  <2>6. CacheLag'
    <3> SUFFICES ASSUME NEW t \in Tools, NEW z \in Servers, v.owner[t] = z, rows[z] = Off
                 PROVE  offFor[z] <= FillTicks + (CacheTicks - CacheTicks)
      BY <2>1 DEF CacheLag
    <3>1. z # NoServer
      BY DEF NoServer
    <3>2. z \in v.heard
      BY <2>3, <3>1 DEF Collected, Offering
    <3>3. v.view[z] # Off
      BY <2>3, <3>2 DEF Collected, Listed
    <3>4. QED
      BY <2>3, <3>3 DEF Lags
  <2> HIDE DEF p
  <2>7. cached' \in [left : 0 .. CacheTicks, owner : [Tools -> Servers \cup {NoServer}]]
    BY <2>1, <2>5
  <2>8. QED
    BY <1>5, <2>1, <2>2, <2>4, <2>5, <2>6, <2>7, RecordKeeps DEF Waiting
<1>7. CASE ~(v.pc = "done" /\ v.mode = "fill")
  <2>1. req' = [req EXCEPT ![r] = v] /\ UNCHANGED <<cached, advertised>>
    BY <1>2, <1>7 DEF Settle
  <2>2. Shape(v)
    BY <1>1, <1>3, <1>4, <1>7 DEF Shape, Waiting
  <2>3. Waiting(v) /\ v.mode = "fill" => Lags(v, Spent(v))
    <3> SUFFICES ASSUME Waiting(v), v.mode = "fill"
                 PROVE  Lags(v, Spent(v))
      OBVIOUS
    <3>1. v.pc = "connecting" /\ v.left = ConnectTicks
      BY <1>1 DEF Waiting
    <3>2. (v.at - 1) * W \in Nat
      BY <1>3, Products
    <3>3. Spent(v) = (v.at - 1) * W
      BY <3>1, <3>2 DEF Spent
    <3>4. QED
      BY <1>1, <1>4, <3>3
  <2>4. v \in ReqRecords /\ v.pc \notin {"ready", "calling"}
    BY <1>1
  <2>5. QED
    BY <1>5, <2>1, <2>2, <2>3, <2>4, SameAdvert
<1>8. QED
  BY <1>6, <1>7

-----------------------------------------------------------------------------
(* One lemma per action.  Hit: what the cache offers is advertised.        *)
LEMMA HitKeeps ==
  ASSUME IInv, NEW r \in Requests, Hit(r)
  PROVE  IInv'
<1> DEFINE k == [IdleReq EXCEPT !.mode = "fill", !.pc = "ready", !.owner = cached.owner]
<1>1. /\ req' = [req EXCEPT ![r] = k] /\ advertised' = [advertised EXCEPT ![r] = cached.owner]
      /\ req[r].pc = "idle" /\ UNCHANGED <<rows, cached, clients, late, offFor>>
  BY DEF Hit
<1>2. cached.owner \in [Tools -> Servers \cup {NoServer}]
  BY DEF IInv, TypeOK
<1>3. k \in ReqRecords
  BY <1>2, IdleTyped DEF ReqRecords
<1>4. k.pc = "ready" /\ k.mode = "fill" /\ k.heard = {} /\ k.owner = cached.owner
  BY DEF IdleReq
<1>5. Shape(k) /\ ~Waiting(k)
  BY <1>4 DEF Shape, Equipped, Waiting
<1> HIDE DEF k
<1>6. /\ clients' \subseteq [req : Requests, at : Servers] /\ late' \subseteq Servers
      /\ cached' \in [left : 0 .. CacheTicks, owner : [Tools -> Servers \cup {NoServer}]]
      /\ \A c \in clients' : c.req # r
      /\ CacheLag'
  BY <1>1 DEF IInv, TypeOK, ClientsAreClosed, CacheLag
<1>7. QED
  BY <1>1, <1>2, <1>3, <1>4, <1>5, <1>6, RecordKeeps

(* Miss: nothing is collected yet, and the view is the table.              *)
LEMMA MissKeeps ==
  ASSUME IInv, NEW r \in Requests, Miss(r)
  PROVE  IInv'
<1> DEFINE k == [IdleReq EXCEPT !.mode = "fill", !.view = rows]
<1>1. /\ Settle(r, Visit(k, Listed(rows), NoServer)) /\ req[r].pc = "idle"
      /\ UNCHANGED <<rows, clients, late, offFor>>
  BY DEF Miss
<1>2. rows \in [Servers -> Allowlists \cup {Off}]
  BY DEF IInv, TypeOK
<1>3. k \in ReqRecords
  BY <1>2, IdleTyped DEF ReqRecords
<1>4. /\ k.mode = "fill" /\ k.view = rows /\ k.heard = {} /\ k.blocks = 0
      /\ \A t \in Tools : k.owner[t] = NoServer
  BY DEF IdleReq, NoOwners
<1> HIDE DEF k
<1>5. Collected(k, NoServer + 1)
  BY <1>4 DEF Collected, Offering
<1>6. Lags(k, NoServer * W)
  BY <1>4 DEF Lags
<1>7. late' \subseteq Servers /\ clients' \subseteq clients /\ \A c \in clients' : c.req # r
  BY <1>1 DEF IInv, TypeOK, ClientsAreClosed
<1>8. Listed(rows) \subseteq Listed(k.view) /\ NoServer \in 0 .. Cardinality(Servers)
  BY <1>4, Constants DEF NoServer
<1>9. QED
  BY <1>1, <1>3, <1>4, <1>5, <1>6, <1>7, <1>8, SettleKeeps

(* Fire: a trigger collects nothing.                                       *)
LEMMA FireKeeps ==
  ASSUME IInv, NEW r \in Requests, Fire(r)
  PROVE  IInv'
<1>1. PICK matching \in SUBSET Exposing(rows) :
        Settle(r, Visit([IdleReq EXCEPT !.mode = "fire",
                           !.view = [s \in Servers |-> IF s \in matching THEN rows[s] ELSE Off]],
                        matching, NoServer))
  BY DEF Fire
<1> DEFINE view == [s \in Servers |-> IF s \in matching THEN rows[s] ELSE Off]
           k == [IdleReq EXCEPT !.mode = "fire", !.view = view]
<1>2. view \in [Servers -> Allowlists \cup {Off}]
  BY DEF IInv, TypeOK
<1>3. matching \subseteq Listed(view)
  BY DEF Exposing, Listed
<1> HIDE DEF view
<1>4. k \in ReqRecords /\ k.mode = "fire" /\ k.view = view /\ k.blocks = 0
  <2>1. k \in ReqRecords
    BY <1>2, IdleTyped DEF ReqRecords
  <2>2. k.mode = "fire" /\ k.view = view /\ k.blocks = 0
    BY DEF IdleReq
  <2>3. QED
    BY <2>1, <2>2
<1>5. req[r].pc = "idle" /\ UNCHANGED <<rows, clients, late, offFor>>
  BY DEF Fire
<1>6. late' \subseteq Servers /\ clients' \subseteq clients /\ \A c \in clients' : c.req # r
  BY <1>5 DEF IInv, TypeOK, ClientsAreClosed
<1>7. NoServer \in 0 .. Cardinality(Servers)
  BY Constants DEF NoServer
<1>8. Settle(r, Visit(k, matching, NoServer))
  BY <1>1 DEF view
<1> HIDE DEF k
<1>9. QED
  BY <1>3, <1>4, <1>5, <1>6, <1>7, <1>8, SettleKeeps

(* Of a request that waits at a server, wherever it is in its time.        *)
LEMMA Paused ==
  ASSUME IInv, NEW r \in Requests, Waiting(req[r])
  PROVE  /\ req[r] \in ReqRecords /\ req[r].mode \in {"fill", "fire"}
         /\ req[r].at \in Servers /\ req[r].at \in Nat \ {0}
         /\ req[r].at \in 0 .. Cardinality(Servers) /\ req[r].blocks = 0
         /\ req[r].mode = "fill" =>
              Collected(req[r], req[r].at) /\ Lags(req[r], req[r].at * W)
         /\ Spent(req[r]) \in Nat
<1> USE Constants
<1> DEFINE k == req[r]
<1>1. /\ k \in ReqRecords /\ Shape(k) /\ Behind(r)
      /\ offFor \in [Servers -> Nat]
  BY Known DEF TypeOK
<1>2. k.mode \in {"fill", "fire"} /\ k.at \in Listed(k.view) /\ k.blocks = 0
  BY <1>1 DEF Shape
<1>3. k.at \in Servers /\ k.at \in Nat \ {0} /\ k.at \in 0 .. Cardinality(Servers)
  BY <1>2 DEF Listed
<1>4. k.mode = "fill" => Collected(k, k.at) /\ Lags(k, Spent(k))
  BY <1>1 DEF Shape, Behind
<1>5. Spent(k) \in Nat /\ Spent(k) <= k.at * W /\ k.at * W \in Nat
  <2>1. k.at - 1 \in Nat /\ (k.at - 1) + 1 = k.at
    BY <1>3
  <2> DEFINE a == k.at - 1
  <2> HIDE DEF a
  <2>2. a \in Nat /\ a + 1 = k.at
    BY <2>1 DEF a
  <2>3. a * W \in Nat /\ (a + 1) * W = a * W + W
    BY <2>2, Products
  <2>4. k.at * W = a * W + W
    BY <2>2, <2>3
  <2>5. Spent(k) = a * W + (IF k.pc = "connecting" THEN ConnectTicks - k.left
                            ELSE ConnectTicks + AnswerTicks - k.left)
    BY DEF Spent, a
  <2>6. /\ k.left \in Nat
        /\ k.pc = "connecting" => k.left <= ConnectTicks
        /\ k.pc # "connecting" => k.left <= AnswerTicks
    BY <1>1 DEF Shape, ReqRecords, Waiting
  <2>7. W = ConnectTicks + AnswerTicks
    BY DEF W
  <2> DEFINE p == a * W
  <2> HIDE DEF p
  <2>8. p \in Nat /\ k.at * W = p + W /\ Spent(k) = p + (IF k.pc = "connecting"
          THEN ConnectTicks - k.left ELSE ConnectTicks + AnswerTicks - k.left)
    BY <2>3, <2>4, <2>5 DEF p
  <2>9. CASE k.pc = "connecting"
    BY <2>6, <2>7, <2>8, <2>9
  <2>10. CASE k.pc # "connecting"
    <3> DEFINE x == k.left
    <3>1. Spent(k) = p + (ConnectTicks + AnswerTicks - x) /\ x \in Nat /\ x <= AnswerTicks
      BY <2>6, <2>8, <2>10
    <3> HIDE DEF x
    <3>2. QED
      BY <2>7, <2>8, <3>1
  <2>11. QED
    BY <2>9, <2>10
<1>6. k.mode = "fill" => Lags(k, k.at * W)
  BY <1>1, <1>4, <1>5 DEF Lags
<1>7. QED
  BY <1>1, <1>2, <1>3, <1>4, <1>5, <1>6

(* The server after the one that is awaited, with nothing new collected.   *)
LEMMA GoOnKeeps ==
  ASSUME IInv, NEW r \in Requests, Waiting(req[r]), GoOn(r),
         clients' \subseteq clients, \A c \in clients' : c.req # r,
         UNCHANGED <<rows, offFor>>, late' \subseteq Servers
  PROVE  IInv'
<1> DEFINE k == req[r]
<1>1. /\ k \in ReqRecords /\ k.mode \in {"fill", "fire"} /\ k.at \in Nat
      /\ k.at \in 0 .. Cardinality(Servers) /\ k.blocks = 0
      /\ k.mode = "fill" => Collected(k, k.at) /\ Lags(k, k.at * W)
  BY Paused
<1>2. k.mode = "fill" => Collected(k, k.at + 1)
  <2>1. k.mode = "fill" => \A z \in k.heard : z < k.at => z < k.at + 1
    BY <1>1, Constants DEF ReqRecords
  <2>2. QED
    BY <1>1, <2>1 DEF Collected
<1>3. Settle(r, Visit(k, Listed(k.view), k.at))
  BY DEF GoOn
<1>4. QED
  BY <1>1, <1>2, <1>3, SettleKeeps

(* Nobody else closes, and this request closes the one client it has.      *)
LEMMA Closes ==
  ASSUME IInv, NEW r \in Requests, clients' = clients \ {Here(r)}
  PROVE  clients' \subseteq clients /\ \A c \in clients' : c.req # r
<1> SUFFICES ASSUME NEW c \in clients, c.req = r
             PROVE  c = Here(r)
  OBVIOUS
<1>1. c \in [req : Requests, at : Servers] /\ req[r].at = c.at
  BY DEF IInv, TypeOK, ClientsAreClosed
<1>2. QED
  BY <1>1 DEF Here

(* Connected: the client is open, and half of the time is spent.           *)
LEMMA ConnectedKeeps ==
  ASSUME IInv, NEW r \in Requests, Connected(r)
  PROVE  IInv'
<1> USE Constants
<1> DEFINE k == [req[r] EXCEPT !.pc = "answering", !.left = AnswerTicks]
<1>1. /\ req[r].pc = "connecting" /\ req' = [req EXCEPT ![r] = k]
      /\ clients' = clients \cup {Here(r)}
      /\ UNCHANGED <<rows, cached, late, advertised, offFor>>
  BY Known DEF Connected
<1>2. /\ req[r] \in ReqRecords /\ Shape(req[r]) /\ Behind(r) /\ TypeOK /\ CacheLag
      /\ ClientsAreClosed
  BY Known
<1>3. k \in ReqRecords
  <2>1. AnswerTicks \in 0 .. ConnectTicks + AnswerTicks
    OBVIOUS
  <2>2. QED
    BY <1>2, <2>1 DEF ReqRecords
<1>4. /\ k.pc = "answering" /\ k.left = AnswerTicks /\ k.at = req[r].at
      /\ k.mode = req[r].mode /\ k.view = req[r].view /\ k.heard = req[r].heard
      /\ k.owner = req[r].owner /\ k.blocks = req[r].blocks
  BY <1>2 DEF ReqRecords
<1> HIDE DEF k
<1>5. Shape(k)
  BY <1>1, <1>2, <1>4 DEF Shape, Waiting, Collected, Offering
<1>6. Waiting(k) /\ k.mode = "fill" => Lags(k, Spent(k))
  <2> SUFFICES ASSUME k.mode = "fill"
               PROVE  Lags(k, Spent(k))
    OBVIOUS
  <2>1. Lags(req[r], Spent(req[r]))
    BY <1>1, <1>2, <1>4 DEF Behind, Waiting
  <2>2. req[r].at \in Nat \ {0} /\ req[r].left \in Nat
    BY <1>1, <1>2, Paused DEF Waiting, ReqRecords
  <2> DEFINE p == (req[r].at - 1) * W
  <2>3. p \in Nat
    BY <2>2, Products
  <2>4. Spent(req[r]) = p + (ConnectTicks - req[r].left)
    BY <1>1 DEF Spent
  <2>5. Spent(k) = p + (ConnectTicks + AnswerTicks - AnswerTicks)
    BY <1>4 DEF Spent
  <2> HIDE DEF p
  <2>6. req[r].left <= ConnectTicks
    BY <1>1, <1>2 DEF Shape
  <2>7. Spent(req[r]) <= Spent(k) /\ Spent(req[r]) \in Int /\ Spent(k) \in Int
    BY <2>2, <2>3, <2>4, <2>5, <2>6
  <2>8. QED
    BY <1>2, <1>4, <2>1, <2>7 DEF Lags, TypeOK
<1>7. req[r].at \in Servers
  BY <1>1, Paused DEF Waiting
<1>8. /\ clients' \subseteq [req : Requests, at : Servers]
      /\ \A c \in clients' : c \in clients \/ c.req = r
      /\ \A c \in clients' : c.req = r => k.pc \in {"answering", "calling"} /\ k.at = c.at
  BY <1>1, <1>2, <1>4, <1>7 DEF Here, TypeOK, ClientsAreClosed
<1>9. late' \subseteq Servers /\ k.pc \notin {"ready", "calling"}
  BY <1>1, <1>2, <1>4 DEF TypeOK
<1>10. QED
  BY <1>1, <1>3, <1>5, <1>6, <1>8, <1>9, SameAdvert

(* Refused: nothing is collected, no client is open.                       *)
LEMMA RefusedKeeps ==
  ASSUME IInv, NEW r \in Requests, Refused(r) \/ TimedOut(r)
  PROVE  IInv'
<1>1. Waiting(req[r]) /\ req[r].pc = "connecting" /\ GoOn(r) /\ UNCHANGED <<rows, clients, offFor>>
  BY DEF Refused, TimedOut, Waiting
<1>2. late' \subseteq Servers
  BY <1>1, Paused DEF Refused, TimedOut, IInv, TypeOK
<1>3. clients' \subseteq clients /\ \A c \in clients' : c.req # r
  BY <1>1 DEF IInv, TypeOK, ClientsAreClosed
<1>4. QED
  BY <1>1, <1>2, <1>3, GoOnKeeps

(* Failed: the client is closed, nothing is collected.                     *)
LEMMA FailedKeeps ==
  ASSUME IInv, NEW r \in Requests, Failed(r)
  PROVE  IInv'
<1>1. Waiting(req[r]) /\ GoOn(r) /\ clients' = clients \ {Here(r)} /\ UNCHANGED <<rows, late, offFor>>
  BY DEF Failed, Waiting
<1>2. late' \subseteq Servers
  BY <1>1 DEF IInv, TypeOK
<1>3. QED
  BY <1>1, <1>2, Closes, GoOnKeeps

(* Listing: who was registered first among those heard keeps each name.    *)
LEMMA ListingKeeps ==
  ASSUME IInv, NEW r \in Requests, Listing(r)
  PROVE  IInv'
<1> USE Constants
<1> DEFINE k == req[r]
           n == [k EXCEPT !.owner = Merged(k), !.heard = @ \cup {k.at}]
<1>1. /\ k.pc = "answering" /\ k.mode = "fill" /\ clients' = clients \ {Here(r)}
      /\ Settle(r, Visit(n, Listed(k.view), k.at)) /\ UNCHANGED <<rows, late, offFor>>
  BY DEF Listing
<1>2. /\ k \in ReqRecords /\ k.at \in Servers /\ k.at \in Nat \ {0}
      /\ k.at \in 0 .. Cardinality(Servers) /\ k.blocks = 0
      /\ Collected(k, k.at) /\ Lags(k, k.at * W)
  BY <1>1, Paused DEF Waiting
<1>3. Merged(k) \in [Tools -> Servers \cup {NoServer}]
  BY <1>2 DEF Merged, ReqRecords
<1>4. /\ n \in ReqRecords /\ n.mode = "fill" /\ n.view = k.view /\ n.at = k.at
      /\ n.owner = Merged(k) /\ n.heard = k.heard \cup {k.at} /\ n.blocks = 0
  BY <1>1, <1>2, <1>3 DEF ReqRecords
<1>5. k.at \in Listed(k.view)
  BY <1>1, Known DEF Shape, Waiting
<1> HIDE DEF n
<1>6. Collected(n, k.at + 1)
  <2>1. n.heard \subseteq Listed(n.view)
    BY <1>2, <1>4, <1>5 DEF Collected
  <2>2. \A s \in n.heard : s < k.at + 1
    BY <1>2, <1>4 DEF Collected, ReqRecords
  <2>3. ASSUME NEW t \in Tools
        PROVE  IF Offering(n, t) = {}
               THEN n.owner[t] = NoServer
               ELSE /\ n.owner[t] \in Offering(n, t)
                    /\ \A s \in Offering(n, t) : n.owner[t] <= s
    <3>1. Offering(n, t) = Offering(k, t) \cup (IF t \in k.view[k.at] THEN {k.at} ELSE {})
      BY <1>4 DEF Offering
    <3>2. n.owner[t] = IF k.owner[t] = NoServer /\ t \in k.view[k.at]
                       THEN k.at ELSE k.owner[t]
      BY <1>4 DEF Merged
    <3>3. NoServer \notin Offering(k, t) /\ \A s \in Offering(k, t) : s < k.at /\ s \in Nat
      BY <1>2 DEF Offering, Collected, ReqRecords, NoServer
    <3>4. CASE Offering(k, t) = {}
      <4>1. k.owner[t] = NoServer
        BY <1>2, <3>4 DEF Collected
      <4>2. CASE t \in k.view[k.at]
        <5>1. Offering(n, t) = {k.at} /\ n.owner[t] = k.at
          BY <3>1, <3>2, <3>4, <4>1, <4>2
        <5>2. k.at <= k.at
          BY <1>2
        <5>3. QED
          BY <5>1, <5>2
      <4>3. CASE t \notin k.view[k.at]
        BY <3>1, <3>2, <3>4, <4>1, <4>3
      <4>4. QED
        BY <4>2, <4>3
    <3>5. CASE Offering(k, t) # {}
      <4>1. /\ k.owner[t] \in Offering(k, t)
            /\ \A s \in Offering(k, t) : k.owner[t] <= s
        BY <1>2, <3>5 DEF Collected
      <4>2. n.owner[t] = k.owner[t] /\ k.owner[t] < k.at /\ k.owner[t] \in Nat
        BY <3>2, <3>3, <4>1
      <4>3. QED
        BY <1>2, <3>1, <3>3, <3>5, <4>1, <4>2
    <3>6. QED
      BY <3>4, <3>5
  <2>4. QED
    BY <2>1, <2>2, <2>3 DEF Collected
<1>7. Lags(n, k.at * W)
  BY <1>2, <1>4 DEF Lags
<1>8. /\ clients' \subseteq clients /\ \A c \in clients' : c.req # r
      /\ late' \subseteq Servers /\ Listed(k.view) \subseteq Listed(n.view)
  BY <1>1, <1>4, Closes DEF IInv, TypeOK
<1>9. QED
  BY <1>1, <1>2, <1>4, <1>6, <1>7, <1>8, SettleKeeps

(* Fired: the client is closed, with a block or without.                   *)
LEMMA FiredKeeps ==
  ASSUME IInv, NEW r \in Requests, Fired(r)
  PROVE  IInv'
<1> DEFINE k == req[r]
           n == [k EXCEPT !.pc = "done", !.blocks = k.blocks + 1, !.left = 0,
                          !.heard = @ \cup {k.at}]
<1>1. /\ k.pc = "answering" /\ k.mode = "fire" /\ clients' = clients \ {Here(r)}
      /\ UNCHANGED <<rows, late, offFor>>
  BY DEF Fired
<1>2. /\ k \in ReqRecords /\ k.at \in Servers /\ k.blocks = 0 /\ TypeOK
      /\ late' \subseteq Servers /\ clients' \subseteq clients
      /\ \A c \in clients' : c.req # r
  BY <1>1, Known, Paused, Closes DEF Waiting, TypeOK
<1>3. CASE GoOn(r)
  BY <1>1, <1>2, <1>3, GoOnKeeps DEF Waiting
<1>4. CASE ~GoOn(r)
  <2>1. req' = [req EXCEPT ![r] = n] /\ UNCHANGED <<cached, advertised>>
    BY <1>4, Known DEF Fired
  <2>2. n \in ReqRecords
    <3>1. k.blocks + 1 \in 0 .. 1 /\ 0 \in 0 .. ConnectTicks + AnswerTicks
      BY <1>2, Constants
    <3>2. k.heard \cup {k.at} \subseteq Servers
      BY <1>2 DEF ReqRecords
    <3>3. QED
      BY <1>2, <3>1, <3>2 DEF ReqRecords
  <2>3. n.pc = "done" /\ n.mode = "fire"
    BY <1>1, <1>2 DEF ReqRecords
  <2> HIDE DEF n
  <2>4. Shape(n) /\ ~Waiting(n)
    BY <2>3 DEF Shape, Waiting
  <2>5. /\ clients' \subseteq [req : Requests, at : Servers]
        /\ \A c \in clients' : c \in clients /\ c.req # r
        /\ n.pc \notin {"ready", "calling"}
    BY <1>2, <2>3 DEF TypeOK
  <2>6. late' \subseteq Servers /\ UNCHANGED <<rows, offFor, cached, advertised>>
    BY <1>1, <1>2, <2>1
  <2>7. QED
    BY <2>1, <2>2, <2>4, <2>5, <2>6, SameAdvert
<1>5. QED
  BY <1>3, <1>4

(* Call: the server is the one that the request's own set names.           *)
LEMMA CallKeeps ==
  ASSUME IInv, NEW r \in Requests, NEW t \in Tools, Call(r, t)
  PROVE  IInv'
<1> DEFINE s == req[r].owner[t]
           n == [req[r] EXCEPT !.pc = "calling", !.at = s,
                               !.left = ConnectTicks + AnswerTicks]
<1>1. /\ req[r].pc = "ready" /\ s # NoServer /\ req' = [req EXCEPT ![r] = n]
      /\ clients' = clients \cup {[req |-> r, at |-> s]}
      /\ UNCHANGED <<rows, cached, late, advertised, offFor>>
  BY Known DEF Call, Resolve
<1>2. req[r] \in ReqRecords /\ Shape(req[r]) /\ Advert(r) /\ TypeOK /\ ClientsAreClosed
  BY Known
<1>3. s \in Servers /\ s \in 0 .. EndOfList
  BY <1>1, <1>2, Constants DEF ReqRecords
<1>4. n \in ReqRecords
  <2>1. ConnectTicks + AnswerTicks \in 0 .. ConnectTicks + AnswerTicks
    BY Constants
  <2> HIDE DEF s
  <2>2. QED
    BY <1>2, <1>3, <2>1 DEF ReqRecords
<1>5. /\ n.pc = "calling" /\ n.at = s /\ n.mode = req[r].mode /\ n.view = req[r].view
      /\ n.heard = req[r].heard /\ n.owner = req[r].owner
  BY <1>2 DEF ReqRecords
<1> HIDE DEF n
<1>6. Shape(n) /\ ~Waiting(n)
  <2>1. n.mode = "fill" /\ Equipped(n)
    BY <1>1, <1>2, <1>5 DEF Shape, Equipped, Offering
  <2>2. \E u \in Tools : n.owner[u] = n.at
    BY <1>5
  <2>3. QED
    BY <1>3, <1>5, <2>1, <2>2 DEF Shape, Waiting
<1>7. advertised[r] = n.owner /\ late' \subseteq Servers
  BY <1>1, <1>2, <1>5 DEF TypeOK, Advert
<1>8. /\ clients' \subseteq [req : Requests, at : Servers]
      /\ \A c \in clients' : c \in clients \/ c.req = r
      /\ \A c \in clients' : c.req = r => n.pc \in {"answering", "calling"} /\ n.at = c.at
  BY <1>1, <1>2, <1>3, <1>5 DEF TypeOK, ClientsAreClosed
<1>9. QED
  BY <1>1, <1>4, <1>6, <1>7, <1>8, SameAdvert

(* CallReturns: the client is closed.                                      *)
LEMMA CallReturnsKeeps ==
  ASSUME IInv, NEW r \in Requests, CallReturns(r)
  PROVE  IInv'
<1> DEFINE n == [req[r] EXCEPT !.pc = "ready", !.left = 0]
<1>1. /\ req[r].pc = "calling" /\ req' = [req EXCEPT ![r] = n]
      /\ clients' = clients \ {Here(r)}
      /\ UNCHANGED <<rows, cached, late, advertised, offFor>>
  BY Known DEF CallReturns
<1>2. req[r] \in ReqRecords /\ Shape(req[r]) /\ Advert(r) /\ TypeOK
  BY Known
<1>3. n \in ReqRecords
  <2>1. 0 \in 0 .. ConnectTicks + AnswerTicks
    BY Constants
  <2>2. QED
    BY <1>2, <2>1 DEF ReqRecords
<1>4. /\ n.pc = "ready" /\ n.mode = req[r].mode /\ n.view = req[r].view
      /\ n.heard = req[r].heard /\ n.owner = req[r].owner
  BY <1>2 DEF ReqRecords
<1> HIDE DEF n
<1>5. Shape(n) /\ ~Waiting(n)
  BY <1>1, <1>2, <1>4 DEF Shape, Equipped, Offering, Waiting
<1>6. advertised[r] = n.owner /\ late' \subseteq Servers
  BY <1>1, <1>2, <1>4 DEF TypeOK, Advert
<1>7. clients' \subseteq [req : Requests, at : Servers] /\ \A c \in clients' : c \in clients /\ c.req # r
  BY <1>1, <1>2, Closes DEF TypeOK
<1>8. QED
  BY <1>1, <1>3, <1>5, <1>6, <1>7, SameAdvert

(* Finish: the request is over.                                            *)
LEMMA FinishKeeps ==
  ASSUME IInv, NEW r \in Requests, Finish(r)
  PROVE  IInv'
<1>1. /\ req[r].pc \in {"ready", "done"} /\ req' = [req EXCEPT ![r] = IdleReq]
      /\ advertised' = [advertised EXCEPT ![r] = NoOwners]
      /\ UNCHANGED <<rows, cached, clients, late, offFor>>
  BY DEF Finish
<1>2. IdleReq.pc = "idle" /\ Shape(IdleReq) /\ ~Waiting(IdleReq)
  BY DEF IdleReq, Shape, Waiting
<1>3. NoOwners \in [Tools -> Servers \cup {NoServer}]
  BY DEF NoOwners
<1>4. clients' \subseteq [req : Requests, at : Servers] /\ \A c \in clients' : c \in clients /\ c.req # r
  BY <1>1 DEF IInv, TypeOK, ClientsAreClosed
<1>5. late' \subseteq Servers /\ CacheLag'
      /\ cached' \in [left : 0 .. CacheTicks, owner : [Tools -> Servers \cup {NoServer}]]
  BY <1>1 DEF IInv, TypeOK, CacheLag
<1>6. QED
  BY <1>1, <1>2, <1>3, <1>4, <1>5, IdleTyped, RecordKeeps

(* Configure: a row that changes is not off for any time yet.              *)
LEMMA ConfigureKeeps ==
  ASSUME IInv, NEW s \in Servers, Configure(s)
  PROVE  IInv'
<1> USE Constants
<1>1. PICK a \in Allowlists \cup {Off} :
        rows' = [rows EXCEPT ![s] = a] /\ offFor' = [offFor EXCEPT ![s] = 0]
  BY DEF Configure
<1>2. UNCHANGED <<req, cached, clients, late, advertised>>
  BY DEF Configure
<1>3. TypeOK /\ offFor \in [Servers -> 0 .. MaxLag] /\ rows \in [Servers -> Allowlists \cup {Off}]
  BY DEF IInv, TypeOK
<1>4. TypeOK'
  BY <1>1, <1>2, <1>3 DEF TypeOK
<1>5. \A z \in Servers : offFor'[z] = 0 \/ (offFor'[z] = offFor[z] /\ rows'[z] = rows[z])
  BY <1>1, <1>3
<1>6. ASSUME NEW r \in Requests
      PROVE  Shape(req'[r]) /\ Advert(r)' /\ Behind(r)'
  <2>1. Shape(req[r]) /\ Advert(r) /\ Behind(r) /\ req'[r] = req[r]
    BY <1>2, Known
  <2>2. Advert(r)'
    BY <1>2, <2>1 DEF Advert
  <2>3. ASSUME Waiting(req[r]), req[r].mode = "fill", NEW z \in Servers,
               req[r].view[z] # Off, rows'[z] = Off
        PROVE  offFor'[z] <= Spent(req[r])
    <3>1. Spent(req[r]) \in Nat
      BY <2>3, Paused
    <3>2. rows[z] = Off => offFor[z] <= Spent(req[r])
      BY <2>1, <2>3 DEF Behind, Lags
    <3>3. QED
      BY <1>5, <2>3, <3>1, <3>2
  <2>4. Behind(r)'
    BY <2>1, <2>3 DEF Behind, Lags
  <2>5. QED
    BY <2>1, <2>2, <2>4
<1>7. CacheLag'
  <2> SUFFICES ASSUME cached.left > 0, NEW t \in Tools, NEW z \in Servers,
                      cached.owner[t] = z, rows'[z] = Off
               PROVE  offFor'[z] <= FillTicks + (CacheTicks - cached.left)
    BY <1>2 DEF CacheLag
  <2>1. cached.left \in 0 .. CacheTicks
    BY <1>3 DEF TypeOK
  <2>2. rows[z] = Off => offFor[z] <= FillTicks + (CacheTicks - cached.left)
    BY DEF IInv, CacheLag
  <2> DEFINE bound == FillTicks + (CacheTicks - cached.left)
  <2>3. bound \in Nat
    BY <2>1
  <2> HIDE DEF bound
  <2>4. CASE offFor'[z] = 0
    <3>1. 0 <= bound
      BY <2>3
    <3>2. QED
      BY <2>4, <3>1 DEF bound
  <2>5. CASE offFor'[z] = offFor[z] /\ rows'[z] = rows[z]
    BY <2>2, <2>5
  <2>6. QED
    BY <1>5, <2>4, <2>5
<1>8. ClientsAreClosed'
  BY <1>2 DEF IInv, ClientsAreClosed
<1>9. QED
  BY <1>4, <1>6, <1>7, <1>8 DEF IInv, Shape, Equipped, Collected, Offering, Waiting, Listed

(* Tick: whoever waits has time left, so that what it spent grows with the *)
(* time that rows are off.                                                 *)
LEMMA TickKeeps ==
  ASSUME IInv, Tick
  PROVE  IInv'
<1> USE Constants
<1>1. /\ \A r \in Requests : Waiting(req[r]) => req[r].left > 0
      /\ req' = [r \in Requests |-> [req[r] EXCEPT !.left = IF req[r].left > 0
                                                            THEN req[r].left - 1 ELSE 0]]
      /\ cached' = [cached EXCEPT !.left = IF cached.left > 0 THEN cached.left - 1 ELSE 0]
      /\ offFor' = [s \in Servers |-> Longer(s)]
      /\ UNCHANGED <<rows, clients, late, advertised>>
  BY DEF Tick, Waiting
<1>2. TypeOK /\ req \in [Requests -> ReqRecords] /\ offFor \in [Servers -> 0 .. MaxLag]
  BY DEF IInv, TypeOK
<1>3. \A z \in Servers : /\ offFor'[z] \in 0 .. MaxLag
                         /\ offFor'[z] <= offFor[z] + 1
  BY <1>1, <1>2 DEF Longer
<1>4. /\ cached' \in [left : 0 .. CacheTicks, owner : [Tools -> Servers \cup {NoServer}]]
      /\ cached'.owner = cached.owner
      /\ cached'.left > 0 => cached.left > 0 /\ cached'.left = cached.left - 1
  <2> DEFINE l == IF cached.left > 0 THEN cached.left - 1 ELSE 0
  <2>1. cached \in [left : 0 .. CacheTicks, owner : [Tools -> Servers \cup {NoServer}]]
    BY <1>2 DEF TypeOK
  <2>2. l \in 0 .. CacheTicks
    BY <2>1
  <2>3. l > 0 => cached.left > 0 /\ l = cached.left - 1
    BY <2>1
  <2> HIDE DEF l
  <2>4. cached' = [cached EXCEPT !.left = l]
    BY <1>1 DEF l
  <2>5. QED
    BY <2>1, <2>2, <2>3, <2>4
<1>5. ASSUME NEW r \in Requests
      PROVE  /\ req'[r] \in ReqRecords
             /\ req'[r].pc = req[r].pc /\ req'[r].mode = req[r].mode
             /\ req'[r].view = req[r].view /\ req'[r].at = req[r].at
             /\ req'[r].owner = req[r].owner /\ req'[r].heard = req[r].heard
             /\ req'[r].blocks = req[r].blocks
             /\ req'[r].left <= req[r].left /\ req'[r].left \in Nat /\ req[r].left \in Nat
             /\ Waiting(req[r]) => req'[r].left = req[r].left - 1
  <2> DEFINE k == req[r]
             l == IF k.left > 0 THEN k.left - 1 ELSE 0
  <2>1. k \in ReqRecords /\ (Waiting(k) => k.left > 0)
    BY <1>1, <1>2
  <2>2. l \in 0 .. ConnectTicks + AnswerTicks /\ k.left \in Nat
    BY <2>1 DEF ReqRecords
  <2>3. l <= k.left /\ (Waiting(k) => l = k.left - 1)
    BY <2>1, <2>2
  <2>4. req'[r] = [k EXCEPT !.left = l]
    BY <1>1
  <2> HIDE DEF l, k
  <2>5. req'[r] \in ReqRecords
    BY <2>1, <2>2, <2>4 DEF ReqRecords
  <2>6. /\ req'[r].pc = k.pc /\ req'[r].mode = k.mode
        /\ req'[r].view = k.view /\ req'[r].at = k.at
        /\ req'[r].owner = k.owner /\ req'[r].heard = k.heard
        /\ req'[r].blocks = k.blocks /\ req'[r].left = l
    BY <2>1, <2>4 DEF ReqRecords
  <2>7. QED
    BY <2>2, <2>3, <2>5, <2>6 DEF k
<1>6. TypeOK'
  <2>1. req' \in [Requests -> ReqRecords]
    BY <1>1, <1>5
  <2>2. offFor' \in [Servers -> 0 .. MaxLag]
    BY <1>1, <1>3
  <2>3. QED
    BY <1>1, <1>2, <1>4, <2>1, <2>2 DEF TypeOK
<1>7. ASSUME NEW r \in Requests
      PROVE  Shape(req'[r]) /\ Advert(r)' /\ Behind(r)'
  <2> DEFINE k == req[r]
             n == req'[r]
  <2>1. /\ n.pc = k.pc /\ n.mode = k.mode /\ n.view = k.view /\ n.at = k.at
        /\ n.owner = k.owner /\ n.heard = k.heard /\ n.blocks = k.blocks
        /\ n.left <= k.left /\ n.left \in Nat /\ k.left \in Nat
        /\ Waiting(k) => n.left = k.left - 1
    BY <1>5
  <2>2. Shape(k) /\ Advert(r) /\ Behind(r)
    BY Known
  <2>3. Advert(r)'
    BY <1>1, <2>1, <2>2 DEF Advert
  <2>4. Shape(n)
    <3> HIDE DEF k, n
    <3>1. \A t \in Tools : Offering(n, t) = Offering(k, t)
      BY <2>1 DEF Offering
    <3>2. Equipped(k) => Equipped(n)
      BY <2>1, <3>1 DEF Equipped
    <3>3. Collected(k, k.at) => Collected(n, n.at)
      BY <2>1, <3>1 DEF Collected
    <3>4. /\ n.pc = "connecting" => n.left <= ConnectTicks
          /\ n.pc = "answering" => n.left <= AnswerTicks
      BY <2>1, <2>2 DEF Shape
    <3>5. QED
      BY <2>1, <2>2, <3>2, <3>3, <3>4 DEF Shape, Waiting
  <2>5. ASSUME Waiting(n), n.mode = "fill"
        PROVE  Lags(k, Spent(k)) /\ Spent(n) = Spent(k) + 1 /\ Spent(k) \in Nat
    <3>1. Waiting(k) /\ k.mode = "fill"
      BY <2>1, <2>5 DEF Waiting
    <3>2. Lags(k, Spent(k)) /\ Spent(k) \in Nat /\ k.at \in Nat \ {0}
      BY <2>2, <3>1, Paused DEF Behind
    <3>3. n.left = k.left - 1 /\ n.at = k.at /\ n.pc = k.pc /\ k.left \in Nat
      BY <2>1, <3>1
    <3> HIDE DEF k, n
    <3> DEFINE p == (k.at - 1) * W
    <3>4. p \in Nat
      BY <3>2, Products
    <3>5. /\ Spent(n) = p + (IF k.pc = "connecting" THEN ConnectTicks - n.left
                             ELSE ConnectTicks + AnswerTicks - n.left)
          /\ Spent(k) = p + (IF k.pc = "connecting" THEN ConnectTicks - k.left
                             ELSE ConnectTicks + AnswerTicks - k.left)
      BY <3>3 DEF Spent
    <3> HIDE DEF p
    <3>6. Spent(n) = Spent(k) + 1
      BY <3>3, <3>4, <3>5
    <3>7. QED
      BY <3>2, <3>6
  <2>6. ASSUME Waiting(n), n.mode = "fill", NEW z \in Servers, n.view[z] # Off, rows[z] = Off
        PROVE  offFor'[z] <= Spent(n)
    <3>1. offFor[z] <= Spent(k)
      BY <2>1, <2>5, <2>6 DEF Lags
    <3>2. offFor'[z] <= offFor[z] + 1 /\ offFor[z] \in Nat /\ offFor'[z] \in Nat
      BY <1>2, <1>3
    <3>3. Spent(n) = Spent(k) + 1 /\ Spent(k) \in Nat
      BY <2>5, <2>6
    <3>4. QED
      BY <3>1, <3>2, <3>3
  <2>7. Behind(r)'
    BY <1>1, <2>6 DEF Behind, Lags
  <2>8. QED
    BY <2>3, <2>4, <2>7
<1>8. CacheLag'
  <2> SUFFICES ASSUME cached'.left > 0, NEW t \in Tools, NEW z \in Servers,
                      cached.owner[t] = z, rows[z] = Off
               PROVE  offFor'[z] <= FillTicks + (CacheTicks - cached'.left)
    BY <1>1, <1>4 DEF CacheLag
  <2>1. offFor[z] <= FillTicks + (CacheTicks - cached.left)
    BY <1>4 DEF IInv, CacheLag
  <2>2. cached.left \in Nat /\ cached'.left = cached.left - 1
    BY <1>2, <1>4 DEF TypeOK
  <2>3. offFor'[z] <= offFor[z] + 1 /\ offFor[z] \in Nat /\ offFor'[z] \in Nat
    BY <1>2, <1>3
  <2> DEFINE f == FillTicks
             c == CacheTicks
             old == cached.left
             new == cached'.left
             o == offFor[z]
             n == offFor'[z]
  <2>4. /\ o <= f + (c - old) /\ old \in Nat /\ new = old - 1
        /\ n <= o + 1 /\ o \in Nat /\ n \in Nat /\ f \in Nat /\ c \in Nat
    BY <2>1, <2>2, <2>3
  <2> HIDE DEF f, c, old, new, o, n
  <2>5. n <= f + (c - new)
    BY <2>4
  <2>6. QED
    BY <2>5 DEF f, c, new, n
<1>9. ClientsAreClosed'
  <2> SUFFICES ASSUME NEW c \in clients
               PROVE  req'[c.req].pc \in {"answering", "calling"} /\ req'[c.req].at = c.at
    BY <1>1 DEF ClientsAreClosed
  <2>1. c.req \in Requests
    BY <1>2 DEF TypeOK
  <2>2. QED
    BY <1>5, <2>1 DEF IInv, ClientsAreClosed
<1>10. QED
  BY <1>6, <1>7, <1>8, <1>9 DEF IInv, Shape, Equipped, Collected, Offering, Waiting, Listed

-----------------------------------------------------------------------------
(* The invariant is inductive.                                             *)
LEMMA InitEstablishes == Init => IInv
<1> SUFFICES ASSUME Init
             PROVE  IInv
  OBVIOUS
<1> USE Constants
<1>1. /\ rows \in [Servers -> Allowlists \cup {Off}]
      /\ req = [r \in Requests |-> IdleReq] /\ clients = {} /\ late = {}
      /\ cached = [left |-> 0, owner |-> NoOwners]
      /\ advertised = [r \in Requests |-> NoOwners]
      /\ offFor = [s \in Servers |-> IF rows[s] = Off THEN MaxLag ELSE 0]
  BY DEF Init
<1>2. NoOwners \in [Tools -> Servers \cup {NoServer}]
  BY DEF NoOwners
<1>3. offFor \in [Servers -> 0 .. MaxLag]
  BY <1>1
<1>4. TypeOK
  BY <1>1, <1>2, <1>3, IdleTyped DEF TypeOK
<1>5. IdleReq.pc = "idle" /\ ~Waiting(IdleReq) /\ Shape(IdleReq)
  BY DEF IdleReq, Waiting, Shape
<1>6. \A r \in Requests : Shape(req[r]) /\ Advert(r) /\ Behind(r)
  BY <1>1, <1>5 DEF Advert, Behind
<1>7. CacheLag /\ ClientsAreClosed
  BY <1>1 DEF CacheLag, ClientsAreClosed
<1>8. QED
  BY <1>4, <1>6, <1>7 DEF IInv

LEMMA NextKeeps == IInv /\ [Next]_vars => IInv'
<1> SUFFICES ASSUME IInv, [Next]_vars
             PROVE  IInv'
  OBVIOUS
<1>1. CASE UNCHANGED vars
  <2>1. UNCHANGED <<rows, req, cached, clients, late, advertised, offFor>>
    BY <1>1 DEF vars
  <2>2. TypeOK' /\ CacheLag' /\ ClientsAreClosed'
    BY <2>1 DEF IInv, TypeOK, CacheLag, ClientsAreClosed
  <2>3. \A r \in Requests : Shape(req'[r]) /\ Advert(r)' /\ Behind(r)'
    BY <2>1 DEF IInv, Advert, Behind, Lags
  <2>4. QED
    BY <2>2, <2>3 DEF IInv, Shape, Equipped, Collected, Offering, Waiting, Listed
<1>2. ASSUME NEW r \in Requests, Step(r)
      PROVE  IInv'
  <2>1. CASE Hit(r) \/ Miss(r) \/ Fire(r)
    BY <2>1, HitKeeps, MissKeeps, FireKeeps
  <2>2. CASE Connected(r) \/ Refused(r) \/ TimedOut(r)
    BY <2>2, ConnectedKeeps, RefusedKeeps
  <2>3. CASE Listing(r) \/ Fired(r) \/ Failed(r)
    BY <2>3, ListingKeeps, FiredKeeps, FailedKeeps
  <2>4. CASE CallReturns(r) \/ Finish(r)
    BY <2>4, CallReturnsKeeps, FinishKeeps
  <2>5. CASE \E t \in Tools : Call(r, t)
    BY <2>5, CallKeeps
  <2>6. QED
    BY <1>2, <2>1, <2>2, <2>3, <2>4, <2>5 DEF Step
<1>3. CASE \E s \in Servers : Configure(s)
  BY <1>3, ConfigureKeeps
<1>4. CASE Tick
  BY <1>4, TickKeeps
<1>5. QED
  BY <1>1, <1>2, <1>3, <1>4 DEF Next

LEMMA Invariance == Spec => []IInv
<1>1. QED
  BY InitEstablishes, NextKeeps, PTL DEF Spec

-----------------------------------------------------------------------------
(* Rows, requests, cache and clients keep their shape.                     *)
THEOREM TypeCorrect == Spec => []TypeOK
<1>1. IInv => TypeOK
  BY DEF IInv
<1>2. QED
  BY <1>1, Invariance, PTL

(* Whatever answers, refusals and timeouts a discovery met, its tool set   *)
(* holds every name that a server that answered exposes, under the server  *)
(* registered first (nativeToolSet.ts:87-91).                              *)
THEOREM ToolsAreComplete == Spec => []ToolsOfAllWhoAnswered
<1>1. IInv => ToolsOfAllWhoAnswered
  <2> SUFFICES ASSUME IInv, NEW r \in Requests, req[r].mode = "fill", req[r].pc = "ready",
                      NEW t \in Tools
               PROVE  IF Offering(req[r], t) = {}
                      THEN req[r].heard # {} => req[r].owner[t] = NoServer
                      ELSE /\ req[r].owner[t] \in Offering(req[r], t)
                           /\ \A s \in Offering(req[r], t) : req[r].owner[t] <= s
    BY DEF ToolsOfAllWhoAnswered, Offering
  <2>1. Equipped(req[r])
    BY Known DEF Shape
  <2>2. CASE req[r].heard = {}
    BY <2>2 DEF Offering
  <2>3. CASE req[r].heard # {}
    BY <2>1, <2>3 DEF Equipped
  <2>4. QED
    BY <2>2, <2>3
<1>2. QED
  BY <1>1, Invariance, PTL

(* A tool call goes to the server that the model was shown for that name,  *)
(* whatever the shared cache holds by then (loop.ts's executeOneToolCall). *)
THEOREM CallsFindAdvertiser == Spec => []CallsReachTheAdvertiser
<1>1. IInv => CallsReachTheAdvertiser
  <2> SUFFICES ASSUME IInv, NEW r \in Requests, req[r].pc = "calling"
               PROVE  \E t \in Tools : advertised[r][t] = req[r].at
    BY DEF CallsReachTheAdvertiser
  <2>1. \E t \in Tools : req[r].owner[t] = req[r].at
    BY Known DEF Shape
  <2>2. advertised[r] = req[r].owner
    BY Known DEF Advert
  <2>3. QED
    BY <2>1, <2>2
<1>2. QED
  BY <1>1, Invariance, PTL

(* A client that a request got is open only while that request awaits it:  *)
(* every way out of the call closes it.                                    *)
THEOREM ClientsClose == Spec => []ClientsAreClosed
<1>1. IInv => ClientsAreClosed
  BY DEF IInv
<1>2. QED
  BY <1>1, Invariance, PTL

(* However many requests discover at once and overwrite one another's      *)
(* cached set, a tool of a disabled server is offered no longer than one   *)
(* discovery and one time to live (nativeToolSet.ts:29 and :61).           *)
THEOREM StaleFades == Spec => []StaleToolsFade
<1>1. IInv => StaleToolsFade
  <2> SUFFICES ASSUME IInv, cached.left > 0, NEW t \in Tools, NEW s \in Servers,
                      cached.owner[t] = s, rows[s] = Off
               PROVE  offFor[s] < MaxLag
    BY DEF StaleToolsFade
  <2>1. offFor[s] <= FillTicks + (CacheTicks - cached.left)
    BY DEF IInv, CacheLag
  <2>2. cached.left \in Nat /\ offFor[s] \in Nat
    BY DEF IInv, TypeOK
  <2>3. QED
    BY <2>1, <2>2, Constants
<1>2. QED
  BY <1>1, Invariance, PTL

=============================================================================
