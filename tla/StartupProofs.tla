---------------------------- MODULE StartupProofs ----------------------------
(***************************************************************************)
(* Proofs about Startup, for any number of processes, migration files,     *)
(* catalog providers, faults and operations.                               *)
(*                                                                         *)
(* A version may be marked by a process other than the one that goes by    *)
(* it, or because a column was there already.  Both are sound because no   *)
(* file is ever applied in part (Whole): what is marked has been applied,  *)
(* however little the tracking table remembers.  A deleted provider stays  *)
(* away because every process that may still seed has read its deletion    *)
(* (Buried), unless the two overlapped.                                    *)
(***************************************************************************)
EXTENDS Startup, WellFoundedInduction, TLAPS

Versions == 1..Len(Files)

ProcessRecords ==
  [pc : {"down", "failed", "opened", "applying", "seeded", "seeding", "up", "adding"},
   isNew : BOOLEAN, rel : 0..Len(Files), todo : SUBSET Versions,
   seen : SUBSET Catalog, adding : SUBSET Catalog]

Typed ==
  /\ exists \in BOOLEAN
  /\ release \in Versions
  /\ marked \subseteq Versions
  /\ rows \in [AllInserts -> Nat]
  /\ tombs \subseteq Catalog
  /\ proc \in [Processes -> ProcessRecords]

(* A file that left a column behind was applied as a whole.                *)
Whole == \A v \in Versions : Columns(v) \cap schema # {} => Objects(v) \subseteq schema

MarkedIsApplied == \A v \in marked : Objects(v) \subseteq schema

(* What a process has not planned has been applied.                        *)
Behind(p) ==
  \A v \in 1..proc[p].rel :
    (proc[p].pc = "applying" /\ v \in proc[p].todo) \/ Objects(v) \subseteq schema

Planned ==
  \A p \in Processes :
    proc[p].pc \in {"applying", "seeded", "seeding", "up", "adding"} => Behind(p)

InsertedOnce ==
  \A v \in Versions : \A o \in Inserts(v) :
    rows[o] <= 1 /\ (rows[o] # 0 => Objects(v) \subseteq schema)

SchemaInv == Whole /\ MarkedIsApplied /\ Planned /\ InsertedOnce

(* Every process that may still add rows knows of the deletion of c.       *)
Buried(c) ==
  /\ c \in tombs /\ c \notin providers
  /\ \A p \in Processes : /\ proc[p].pc = "seeding" => c \in proc[p].seen
                          /\ c \notin proc[p].adding

SeedInv == models \subseteq providers /\ \A c \in gone \ raced : Buried(c)

IInv == Typed /\ SchemaInv /\ SeedInv

-----------------------------------------------------------------------------
LEMMA FileFacts ==
  /\ Len(Files) \in Nat /\ DOMAIN Files = Versions
  /\ \A v \in Versions : /\ Files[v] \in Seq([op : Ops, obj : STRING])
                         /\ Len(Files[v]) \in Nat /\ DOMAIN Files[v] = 1..Len(Files[v])
  /\ \A v, w \in Versions : v # w =>
       Columns(v) \cap Objects(w) = {} /\ Inserts(v) \cap Inserts(w) = {}
  /\ \A v \in Versions : Inserts(v) # {} => Columns(v) \cup Creates(v) # {}
  /\ FirstRelease \in Versions
<1>1. Files \in Seq(Seq([op : Ops, obj : STRING]))
  BY StartupAssumption
<1>2. Len(Files) \in Nat /\ DOMAIN Files = Versions
  BY <1>1 DEF Versions
<1>3. ASSUME NEW v \in Versions
      PROVE  /\ Files[v] \in Seq([op : Ops, obj : STRING])
             /\ Len(Files[v]) \in Nat /\ DOMAIN Files[v] = 1..Len(Files[v])
  <2>1. Files[v] \in Seq([op : Ops, obj : STRING])
    BY <1>1 DEF Versions
  <2>2. QED
    BY <2>1
<1>4. QED
  BY <1>2, <1>3, StartupAssumption DEF Versions

LEMMA LeastOf ==
  ASSUME NEW S, S \subseteq Nat, S # {}
  PROVE  Min(S) \in S
<1> DEFINE Less == OpToRel(<, Nat)
<1>1. IsWellFoundedOn(Less, Nat)
  BY NatLessThanWellFounded
<1> HIDE DEF Less
<1>2. PICK n \in S : \A m \in S : ~(<<m, n>> \in Less)
  BY <1>1, WFMin
<1>3. ASSUME NEW m \in S, m < n
      PROVE  <<m, n>> \in Less
  BY <1>3 DEF Less, OpToRel
<1>4. ASSUME NEW m \in S
      PROVE  n <= m
  <2>1. ~(m < n) /\ m \in Nat /\ n \in Nat
    BY <1>2, <1>3
  <2>2. QED
    BY <2>1
<1>5. QED
  BY <1>4 DEF Min

LEMMA PartsOf ==
  ASSUME NEW v
  PROVE  Columns(v) \subseteq Objects(v) /\ Creates(v) \subseteq Objects(v)
BY DEF Columns, Creates, Objects

(* What the first failing statement tells.                                 *)
LEMMA ClashTells ==
  ASSUME NEW v \in Versions
  PROVE  /\ Clash(v) = "none" => (Columns(v) \cup Creates(v)) \cap schema = {}
         /\ Clash(v) = "column" => Columns(v) \cap schema # {}
<1> DEFINE failing == {i \in DOMAIN Files[v] :
                         Files[v][i].op \in {"column", "create"} /\ Files[v][i].obj \in schema}
<1>1. failing \subseteq Nat
  BY FileFacts
<1>2. CASE failing = {}
  <2>1. Clash(v) = "none"
    BY <1>2 DEF Clash
  <2>2. (Columns(v) \cup Creates(v)) \cap schema = {}
    BY <1>2 DEF Columns, Creates
  <2>3. QED
    BY <2>1, <2>2
<1>3. CASE failing # {}
  <2>1. Clash(v) = Files[v][Min(failing)].op
    BY <1>3 DEF Clash
  <2>2. Min(failing) \in failing
    BY <1>1, <1>3, LeastOf
  <2> HIDE DEF failing
  <2>3. /\ Min(failing) \in DOMAIN Files[v]
        /\ Files[v][Min(failing)].op \in {"column", "create"}
        /\ Files[v][Min(failing)].obj \in schema
    BY <2>2 DEF failing
  <2>4. Clash(v) = "column" => Files[v][Min(failing)].obj \in Columns(v)
    BY <2>1, <2>3 DEF Columns
  <2>5. QED
    BY <2>1, <2>3, <2>4
<1>4. QED
  BY <1>2, <1>3

-----------------------------------------------------------------------------
(* A process moves; it has planned no less and is up no sooner.            *)
Steps(p, x) == proc' = [proc EXCEPT ![p] = x] /\ x \in ProcessRecords

LEMMA SchemaKept ==
  ASSUME IInv, UNCHANGED <<schema, rows>>, marked' \subseteq marked,
         NEW p \in Processes, NEW x, Steps(p, x),
         x.pc \in {"applying", "seeded", "seeding", "up", "adding"} =>
           \A v \in 1..x.rel : (x.pc = "applying" /\ v \in x.todo) \/ Objects(v) \subseteq schema
  PROVE  SchemaInv'
<1>1. proc \in [Processes -> ProcessRecords]
  BY DEF IInv, Typed
<1>2. Planned'
  BY <1>1 DEF IInv, SchemaInv, Planned, Behind, Steps
<1>3. QED
  BY <1>2 DEF IInv, SchemaInv, Whole, MarkedIsApplied, InsertedOnce

LEMMA SchemaIdle ==
  ASSUME IInv, UNCHANGED <<schema, rows, proc>>, marked' \subseteq marked
  PROVE  SchemaInv'
BY DEF IInv, SchemaInv, Planned, Behind, Whole, MarkedIsApplied, InsertedOnce

LEMMA SeedKept ==
  ASSUME IInv, UNCHANGED <<providers, models, tombs, gone, raced>>,
         NEW p \in Processes, NEW x, Steps(p, x),
         x.pc = "seeding" => tombs \subseteq x.seen \/ (proc[p].pc = "seeding" /\ x.seen = proc[p].seen),
         x.adding \subseteq proc[p].adding
  PROVE  SeedInv'
<1>1. proc \in [Processes -> ProcessRecords]
  BY DEF IInv, Typed
<1>2. ASSUME NEW c \in gone \ raced
      PROVE  Buried(c)'
  <2>1. Buried(c)
    BY DEF IInv, SeedInv
  <2>2. ASSUME NEW q \in Processes
        PROVE  /\ proc'[q].pc = "seeding" => c \in proc'[q].seen
               /\ c \notin proc'[q].adding
    <3>1. CASE q = p
      BY <1>1, <2>1, <3>1 DEF Buried, Steps
    <3>2. CASE q # p
      BY <1>1, <2>1, <3>2 DEF Buried, Steps
    <3>3. QED
      BY <3>1, <3>2
  <2>3. QED
    BY <2>1, <2>2 DEF Buried
<1>3. QED
  BY <1>2 DEF IInv, SeedInv

LEMMA SeedIdle ==
  ASSUME IInv, UNCHANGED <<providers, models, tombs, gone, raced, proc>>
  PROVE  SeedInv'
BY DEF IInv, SeedInv, Buried

LEMMA ProcessOf ==
  ASSUME IInv, NEW p \in Processes
  PROVE  /\ proc[p] \in ProcessRecords /\ proc \in [Processes -> ProcessRecords]
         /\ proc[p].rel \in Nat /\ 1..proc[p].rel \subseteq Versions
         /\ proc[p].pc \in {"applying", "seeded", "seeding", "up", "adding"} => Behind(p)
<1>1. proc[p] \in ProcessRecords /\ proc \in [Processes -> ProcessRecords]
  BY DEF IInv, Typed
<1>2. proc[p].rel \in 0..Len(Files)
  BY <1>1 DEF ProcessRecords
<1>3. QED
  BY <1>1, <1>2, FileFacts DEF Versions, IInv, SchemaInv, Planned

-----------------------------------------------------------------------------
LEMMA InitKeeps == StartupInit => IInv
<1> SUFFICES ASSUME StartupInit
             PROVE  IInv
  OBVIOUS
<1>1. Down \in ProcessRecords /\ Down.pc = "down" /\ Down.adding = {}
  BY FileFacts DEF Down, ProcessRecords
<1>2. proc = [p \in Processes |-> Down]
  BY DEF StartupInit
<1>3. Typed
  BY <1>1, FileFacts DEF StartupInit, Typed
<1>4. SchemaInv
  <2>1. AllInserts = UNION {Inserts(v) : v \in Versions}
    BY FileFacts DEF AllInserts
  <2>2. InsertedOnce
    BY <2>1 DEF StartupInit, InsertedOnce
  <2>3. Planned
    BY <1>1, <1>2 DEF Planned
  <2>4. QED
    BY <2>2, <2>3 DEF SchemaInv, StartupInit, Whole, MarkedIsApplied
<1>5. SeedInv
  BY DEF StartupInit, SeedInv
<1>6. QED
  BY <1>3, <1>4, <1>5 DEF IInv

LEMMA OpenKeeps ==
  ASSUME IInv, NEW p \in Processes, Open(p)
  PROVE  IInv'
<1>1. PICK b \in BOOLEAN : b = ~exists
  OBVIOUS
<1> DEFINE x == [Down EXCEPT !.pc = "opened", !.isNew = b, !.rel = release]
<1>2. x \in ProcessRecords /\ x.pc = "opened" /\ x.adding = {}
  <2>1. release \in 0..Len(Files)
    BY FileFacts DEF IInv, Typed, Versions
  <2>2. QED
    BY <2>1 DEF Down, ProcessRecords
<1>3. Steps(p, x)
  BY <1>1, <1>2 DEF Open, Steps
<1> HIDE DEF x
<1>4. /\ exists' = TRUE /\ UNCHANGED <<schema, rows, marked, release>>
      /\ UNCHANGED <<providers, models, tombs, gone, raced>>
  BY DEF Open
<1>5. Typed'
  BY <1>3, <1>4 DEF IInv, Typed, Steps
<1>6. SchemaInv' /\ SeedInv'
  BY <1>2, <1>3, <1>4, SchemaKept, SeedKept
<1>7. QED
  BY <1>5, <1>6 DEF IInv

(* A process whose record changes in its counter and its plan only.        *)
LEMMA MoveKeeps ==
  ASSUME IInv, NEW p \in Processes,
         NEW to \in {"failed", "applying", "seeded", "up"}, NEW plan \in SUBSET Versions,
         proc' = [proc EXCEPT ![p].pc = to, ![p].todo = plan],
         UNCHANGED <<exists, release, marked, schema, rows, providers, models, tombs, gone, raced>>,
         to # "failed" =>
           \A v \in 1..proc[p].rel : (to = "applying" /\ v \in plan) \/ Objects(v) \subseteq schema
  PROVE  IInv'
<1> DEFINE x == [proc[p] EXCEPT !.pc = to, !.todo = plan]
<1>1. /\ x \in ProcessRecords /\ x.pc = to /\ x.todo = plan /\ x.rel = proc[p].rel
      /\ x.adding = proc[p].adding
  BY ProcessOf DEF ProcessRecords
<1>2. Steps(p, x)
  BY <1>1, ProcessOf DEF Steps
<1> HIDE DEF x
<1>3. Typed'
  BY <1>2 DEF IInv, Typed, Steps
<1>4. SchemaInv' /\ SeedInv'
  BY <1>1, <1>2, SchemaKept, SeedKept
<1>5. QED
  BY <1>3, <1>4 DEF IInv

LEMMA PlainMove ==
  ASSUME IInv, NEW p \in Processes, NEW to, Move(p, to)
  PROVE  proc' = [proc EXCEPT ![p].pc = to, ![p].todo = proc[p].todo]
<1>1. proc[p] \in ProcessRecords
  BY ProcessOf
<1>2. [proc[p] EXCEPT !.pc = to] = [proc[p] EXCEPT !.pc = to, !.todo = proc[p].todo]
  BY <1>1 DEF ProcessRecords
<1>3. QED
  BY <1>2, ProcessOf DEF Move

LEMMA PlanKeeps ==
  ASSUME IInv, NEW p \in Processes, Plan(p)
  PROVE  IInv'
<1>1. UNCHANGED <<exists, release, marked, schema, rows, providers, models, tombs, gone, raced>>
  BY DEF Plan
<1>2. CASE Move(p, "failed")
  <2>1. proc[p].todo \in SUBSET Versions
    BY ProcessOf DEF ProcessRecords
  <2>2. QED
    BY <1>1, <1>2, <2>1, PlainMove, MoveKeeps
<1>3. CASE proc' = [proc EXCEPT ![p].pc = "applying", ![p].todo = Pending(p)]
  <2>1. Pending(p) \in SUBSET Versions
    BY ProcessOf DEF Pending
  <2>2. ASSUME NEW v \in 1..proc[p].rel
        PROVE  v \in Pending(p) \/ Objects(v) \subseteq schema
    BY DEF Pending, IInv, SchemaInv, MarkedIsApplied
  <2>3. QED
    BY <1>1, <1>3, <2>1, <2>2, MoveKeeps
<1>4. QED
  BY <1>2, <1>3 DEF Plan

(* One file, or its failure.                                               *)
LEMMA ApplyKeeps ==
  ASSUME IInv, NEW p \in Processes, Apply(p)
  PROVE  IInv'
<1> DEFINE v == Min(proc[p].todo)
           rest == proc[p].todo \ {v}
           x == [proc[p] EXCEPT !.todo = rest]
<1>1. /\ proc[p] \in ProcessRecords /\ proc \in [Processes -> ProcessRecords]
      /\ proc[p].pc = "applying" /\ Behind(p)
      /\ v \in proc[p].todo /\ v \in Versions
  <2>1. proc[p] \in ProcessRecords /\ proc[p].pc = "applying" /\ proc[p].todo # {}
    BY ProcessOf DEF Apply
  <2>2. proc[p].todo \subseteq Versions /\ proc[p].todo \subseteq Nat
    BY <2>1 DEF ProcessRecords, Versions
  <2>3. QED
    BY <2>1, <2>2, LeastOf, ProcessOf
<1>2. /\ UNCHANGED <<exists, release, providers, models, tombs, gone, raced>>
      /\ \/ /\ Clash(v) = "none" /\ v \notin marked
            /\ schema' = schema \cup Objects(v)
            /\ rows' = [o \in AllInserts |-> rows[o] + (IF o \in Inserts(v) THEN 1 ELSE 0)]
            /\ marked' = marked \cup {v}
            /\ proc' = [proc EXCEPT ![p].todo = @ \ {v}]
         \/ /\ Clash(v) = "column"
            /\ marked' = marked \cup {v}
            /\ proc' = [proc EXCEPT ![p].todo = @ \ {v}]
            /\ UNCHANGED <<schema, rows>>
         \/ Move(p, "failed") /\ UNCHANGED <<marked, schema, rows>>
  BY DEF Apply
<1> HIDE DEF v
<1>3. /\ x \in ProcessRecords /\ x.pc = "applying" /\ x.todo = rest
      /\ x.rel = proc[p].rel /\ x.adding = proc[p].adding
  BY <1>1 DEF ProcessRecords
<1>4. ASSUME proc' = [proc EXCEPT ![p].todo = @ \ {v}], marked' = marked \cup {v},
             rows' \in [AllInserts -> Nat],
             Whole', InsertedOnce', schema \subseteq schema', Objects(v) \subseteq schema'
      PROVE  IInv'
  <2>1. Steps(p, x)
    BY <1>1, <1>3, <1>4 DEF Steps
  <2> HIDE DEF x, rest
  <2>2. Typed'
    BY <1>1, <1>2, <1>4, <2>1 DEF IInv, Typed, Steps
  <2>3. SeedInv'
    BY <1>2, <1>3, <2>1, SeedKept
  <2>4. MarkedIsApplied'
    BY <1>4 DEF IInv, SchemaInv, MarkedIsApplied
  <2>5. Planned'
    <3>1. ASSUME NEW q \in Processes,
                 proc'[q].pc \in {"applying", "seeded", "seeding", "up", "adding"},
                 NEW w \in 1..proc'[q].rel
          PROVE  \/ proc'[q].pc = "applying" /\ w \in proc'[q].todo
                 \/ Objects(w) \subseteq schema'
      <4>1. CASE q = p
        <5>1. proc'[q] = x
          BY <1>1, <2>1, <4>1 DEF Steps
        <5>2. CASE w = v
          BY <1>4, <5>2
        <5>3. CASE w # v
          BY <1>1, <1>3, <1>4, <3>1, <5>1, <5>3 DEF Behind, rest
        <5>4. QED
          BY <5>2, <5>3
      <4>2. CASE q # p
        <5>1. proc'[q] = proc[q]
          BY <1>1, <2>1, <4>2 DEF Steps
        <5>2. Behind(q)
          BY <3>1, <5>1, ProcessOf
        <5>3. QED
          BY <1>4, <3>1, <5>1, <5>2 DEF Behind
      <4>3. QED
        BY <4>1, <4>2
    <3>2. QED
      BY <3>1 DEF Planned, Behind
  <2>6. QED
    BY <1>4, <2>2, <2>3, <2>4, <2>5 DEF IInv, SchemaInv
<1>5. CASE /\ Clash(v) = "none" /\ v \notin marked
           /\ schema' = schema \cup Objects(v)
           /\ rows' = [o \in AllInserts |-> rows[o] + (IF o \in Inserts(v) THEN 1 ELSE 0)]
           /\ marked' = marked \cup {v}
           /\ proc' = [proc EXCEPT ![p].todo = @ \ {v}]
  <2>1. rows \in [AllInserts -> Nat] /\ rows' \in [AllInserts -> Nat]
    <3>1. rows \in [AllInserts -> Nat]
      BY DEF IInv, Typed
    <3>2. QED
      BY <1>5, <3>1
  <2>2. (Columns(v) \cup Creates(v)) \cap schema = {}
    BY <1>1, <1>5, ClashTells
  <2>3. Whole'
    <3>1. ASSUME NEW w \in Versions, Columns(w) \cap schema' # {}
          PROVE  Objects(w) \subseteq schema'
      <4>1. CASE w = v
        BY <1>5, <4>1
      <4>2. CASE w # v
        <5>1. Columns(w) \cap Objects(v) = {}
          BY <1>1, <4>2, FileFacts
        <5>2. Columns(w) \cap schema # {}
          BY <1>5, <3>1, <5>1
        <5>3. QED
          BY <1>5, <5>2 DEF IInv, SchemaInv, Whole
      <4>3. QED
        BY <4>1, <4>2
    <3>2. QED
      BY <3>1 DEF Whole, Columns, Objects
  <2>4. InsertedOnce'
    <3>1. ASSUME NEW w \in Versions, NEW o \in Inserts(w)
          PROVE  rows'[o] <= 1 /\ (rows'[o] # 0 => Objects(w) \subseteq schema')
      <4>1. o \in AllInserts
        BY FileFacts DEF AllInserts
      <4>2. rows[o] \in Nat /\ rows[o] <= 1 /\ (rows[o] # 0 => Objects(w) \subseteq schema)
        BY <2>1, <4>1 DEF IInv, SchemaInv, InsertedOnce
      <4>3. CASE w = v
        <5>1. Columns(v) \cup Creates(v) # {} /\ Columns(v) \cup Creates(v) \subseteq Objects(v)
          BY <1>1, <3>1, <4>3, FileFacts, PartsOf
        <5>2. rows[o] = 0
          BY <2>2, <4>2, <4>3, <5>1
        <5>3. rows'[o] = 1
          BY <1>5, <3>1, <4>1, <4>3, <5>2
        <5>4. QED
          BY <1>5, <4>3, <5>3
      <4>4. CASE w # v
        <5>1. o \notin Inserts(v)
          BY <1>1, <3>1, <4>4, FileFacts
        <5>2. rows'[o] = rows[o]
          BY <1>5, <4>1, <4>2, <5>1
        <5>3. QED
          BY <1>5, <4>2, <5>2
      <4>5. QED
        BY <4>3, <4>4
    <3>2. QED
      BY <3>1 DEF InsertedOnce, Inserts, Objects
  <2>5. QED
    BY <1>4, <1>5, <2>1, <2>3, <2>4
<1>6. CASE /\ Clash(v) = "column"
           /\ marked' = marked \cup {v}
           /\ proc' = [proc EXCEPT ![p].todo = @ \ {v}]
           /\ UNCHANGED <<schema, rows>>
  <2>1. Objects(v) \subseteq schema
    BY <1>1, <1>6, ClashTells DEF IInv, SchemaInv, Whole
  <2>2. rows' \in [AllInserts -> Nat] /\ Whole' /\ InsertedOnce'
    BY <1>6 DEF IInv, Typed, SchemaInv, Whole, InsertedOnce
  <2>3. QED
    BY <1>4, <1>6, <2>1, <2>2
<1>7. CASE Move(p, "failed") /\ UNCHANGED <<marked, schema, rows>>
  <2>1. proc[p].todo \in SUBSET Versions
    BY <1>1 DEF ProcessRecords
  <2>2. QED
    BY <1>2, <1>7, <2>1, PlainMove, MoveKeeps
<1>8. QED
  BY <1>2, <1>5, <1>6, <1>7

LEMMA SeedDefaultsKeeps ==
  ASSUME IInv, NEW p \in Processes, SeedDefaults(p)
  PROVE  IInv'
<1> DEFINE x == [proc[p] EXCEPT !.pc = "seeded"]
<1>1. /\ proc[p] \in ProcessRecords /\ proc \in [Processes -> ProcessRecords]
      /\ proc[p].pc = "applying" /\ proc[p].todo = {} /\ Behind(p)
  BY ProcessOf DEF SeedDefaults
<1>2. /\ x \in ProcessRecords /\ x.pc = "seeded" /\ x.rel = proc[p].rel
      /\ x.adding = proc[p].adding
  BY <1>1 DEF ProcessRecords
<1>3. Steps(p, x)
  BY <1>1, <1>2 DEF SeedDefaults, Move, Steps
<1> HIDE DEF x
<1>4. /\ UNCHANGED <<exists, release, marked, schema, rows>>
      /\ UNCHANGED <<providers, tombs, gone, raced>>
      /\ models' \subseteq models \cup providers
  BY DEF SeedDefaults
<1>5. Typed'
  BY <1>3, <1>4 DEF IInv, Typed, Steps
<1>6. \A v \in 1..x.rel : Objects(v) \subseteq schema
  BY <1>1, <1>2 DEF Behind
<1>7. SchemaInv'
  BY <1>3, <1>4, <1>6, SchemaKept
<1>8. SeedInv'
  <2>1. \A q \in Processes : proc'[q].adding = proc[q].adding /\ (proc'[q].pc = "seeding" => proc'[q] = proc[q])
    BY <1>1, <1>2, <1>3 DEF Steps
  <2>2. QED
    BY <1>4, <2>1 DEF IInv, SeedInv, Buried
<1>9. QED
  BY <1>5, <1>7, <1>8 DEF IInv

LEMMA ReadDeletedKeeps ==
  ASSUME IInv, NEW p \in Processes, ReadDeleted(p)
  PROVE  IInv'
<1> DEFINE x == [proc[p] EXCEPT !.pc = "seeding", !.seen = tombs]
<1>1. /\ proc[p] \in ProcessRecords /\ proc \in [Processes -> ProcessRecords]
      /\ proc[p].pc = "seeded" /\ Behind(p)
  BY ProcessOf DEF ReadDeleted
<1>2. /\ x \in ProcessRecords /\ x.pc = "seeding" /\ x.rel = proc[p].rel
      /\ x.adding = proc[p].adding /\ x.seen = tombs
  BY <1>1 DEF ProcessRecords, IInv, Typed
<1>3. Steps(p, x)
  BY <1>1, <1>2 DEF ReadDeleted, Steps
<1> HIDE DEF x
<1>4. /\ UNCHANGED <<exists, release, marked, schema, rows>>
      /\ UNCHANGED <<providers, models, tombs, gone, raced>>
  BY DEF ReadDeleted
<1>5. Typed'
  BY <1>3, <1>4 DEF IInv, Typed, Steps
<1>6. \A v \in 1..x.rel : Objects(v) \subseteq schema
  BY <1>1, <1>2 DEF Behind
<1>7. SchemaInv' /\ SeedInv'
  BY <1>2, <1>3, <1>4, <1>6, SchemaKept, SeedKept
<1>8. QED
  BY <1>5, <1>7 DEF IInv

(* The seeding passes over what the process has read to be deleted.        *)
LEMMA SeedCatalogKeeps ==
  ASSUME IInv, NEW p \in Processes, SeedCatalog(p)
  PROVE  IInv'
<1> DEFINE x == [proc[p] EXCEPT !.pc = "up"]
<1>1. /\ proc[p] \in ProcessRecords /\ proc \in [Processes -> ProcessRecords]
      /\ proc[p].pc = "seeding" /\ Behind(p)
  BY ProcessOf DEF SeedCatalog
<1>2. /\ x \in ProcessRecords /\ x.pc = "up" /\ x.rel = proc[p].rel
      /\ x.adding = proc[p].adding
  BY <1>1 DEF ProcessRecords
<1>3. Steps(p, x)
  BY <1>1, <1>2 DEF SeedCatalog, Move, Steps
<1> HIDE DEF x
<1>4. /\ UNCHANGED <<exists, release, marked, schema, rows>>
      /\ UNCHANGED <<tombs, gone, raced>>
      /\ providers' = providers \cup (Catalog \ proc[p].seen)
      /\ models' = models \cup (Defaults \cap providers')
  BY DEF SeedCatalog
<1>5. Typed'
  BY <1>3, <1>4 DEF IInv, Typed, Steps
<1>6. \A v \in 1..x.rel : Objects(v) \subseteq schema
  BY <1>1, <1>2 DEF Behind
<1>7. SchemaInv'
  BY <1>3, <1>4, <1>6, SchemaKept
<1>8. SeedInv'
  <2>1. \A q \in Processes : proc'[q].adding = proc[q].adding /\ (proc'[q].pc = "seeding" => proc'[q] = proc[q])
    BY <1>1, <1>2, <1>3 DEF Steps
  <2>2. ASSUME NEW c \in gone \ raced
        PROVE  Buried(c)'
    <3>1. Buried(c)
      BY DEF IInv, SeedInv
    <3>2. c \in proc[p].seen
      BY <1>1, <3>1 DEF Buried
    <3>3. QED
      BY <1>4, <2>1, <3>1, <3>2 DEF Buried
  <2>3. QED
    BY <1>4, <2>2 DEF IInv, SeedInv
<1>9. QED
  BY <1>5, <1>7, <1>8 DEF IInv

-----------------------------------------------------------------------------
LEMMA DeleteProviderKeeps ==
  ASSUME IInv, NEW p \in Processes, NEW c \in Catalog, DeleteProvider(p, c)
  PROVE  IInv'
<1>1. /\ UNCHANGED <<exists, release, marked, schema, rows, proc>>
      /\ providers' = providers \ {c} /\ models' = models \ {c}
      /\ tombs' = tombs \cup {c} /\ gone' = gone \cup {c}
      /\ raced' = IF \E q \in Processes : proc[q].pc = "seeding" \/ c \in proc[q].adding
                  THEN raced \cup {c} ELSE raced
  BY DEF DeleteProvider
<1>2. Typed'
  BY <1>1 DEF IInv, Typed
<1>3. SchemaInv'
  BY <1>1, SchemaIdle
<1>4. SeedInv'
  <2>1. ASSUME NEW d \in gone' \ raced'
        PROVE  Buried(d)'
    <3>1. CASE d = c
      <4>1. \A q \in Processes : proc[q].pc # "seeding" /\ c \notin proc[q].adding
        BY <1>1, <2>1, <3>1
      <4>2. QED
        BY <1>1, <3>1, <4>1 DEF Buried
    <3>2. CASE d # c
      <4>1. d \in gone \ raced
        BY <1>1, <2>1, <3>2
      <4>2. Buried(d)
        BY <4>1 DEF IInv, SeedInv
      <4>3. QED
        BY <1>1, <4>2 DEF Buried
    <3>3. QED
      BY <3>1, <3>2
  <2>2. QED
    BY <1>1, <2>1 DEF IInv, SeedInv
<1>5. QED
  BY <1>2, <1>3, <1>4 DEF IInv

LEMMA AddProviderKeeps ==
  ASSUME IInv, NEW p \in Processes, NEW c \in Catalog, AddProvider(p, c)
  PROVE  IInv'
<1> DEFINE x == [proc[p] EXCEPT !.pc = "adding", !.adding = {c}]
<1>1. /\ proc[p] \in ProcessRecords /\ proc \in [Processes -> ProcessRecords]
      /\ proc[p].pc = "up" /\ Behind(p)
  BY ProcessOf DEF AddProvider
<1>2. /\ x \in ProcessRecords /\ x.pc = "adding" /\ x.rel = proc[p].rel /\ x.adding = {c}
  BY <1>1 DEF ProcessRecords
<1>3. Steps(p, x)
  BY <1>1, <1>2 DEF AddProvider, Steps
<1> HIDE DEF x
<1>4. /\ UNCHANGED <<exists, release, marked, schema, rows, models, tombs>>
      /\ providers' = providers \cup {c}
      /\ gone' = gone \ {c} /\ raced' = raced \ {c}
  BY DEF AddProvider
<1>5. Typed'
  BY <1>3, <1>4 DEF IInv, Typed, Steps
<1>6. \A v \in 1..x.rel : Objects(v) \subseteq schema
  BY <1>1, <1>2 DEF Behind
<1>7. SchemaInv'
  BY <1>3, <1>4, <1>6, SchemaKept
<1>8. SeedInv'
  <2>1. \A q \in Processes :
          /\ proc'[q].adding = {c} \/ proc'[q].adding = proc[q].adding
          /\ proc'[q].pc = "seeding" => proc'[q] = proc[q]
    BY <1>1, <1>2, <1>3 DEF Steps
  <2>2. ASSUME NEW d \in gone' \ raced'
        PROVE  Buried(d)'
    <3>1. d # c /\ d \in gone \ raced
      BY <1>4, <2>2
    <3>2. Buried(d)
      BY <3>1 DEF IInv, SeedInv
    <3>3. QED
      BY <1>4, <2>1, <3>1, <3>2 DEF Buried
  <2>3. QED
    BY <1>4, <2>2 DEF IInv, SeedInv
<1>9. QED
  BY <1>5, <1>7, <1>8 DEF IInv

(* Only a deletion of what this process has just added is forgotten.       *)
LEMMA FinishAddingKeeps ==
  ASSUME IInv, NEW p \in Processes, FinishAdding(p)
  PROVE  IInv'
<1> DEFINE x == [proc[p] EXCEPT !.pc = "up", !.adding = {}]
<1>1. /\ proc[p] \in ProcessRecords /\ proc \in [Processes -> ProcessRecords]
      /\ proc[p].pc = "adding" /\ Behind(p)
  BY ProcessOf DEF FinishAdding
<1>2. /\ x \in ProcessRecords /\ x.pc = "up" /\ x.rel = proc[p].rel /\ x.adding = {}
  BY <1>1 DEF ProcessRecords
<1>3. Steps(p, x)
  BY <1>1, <1>2 DEF FinishAdding, Steps
<1> HIDE DEF x
<1>4. /\ UNCHANGED <<exists, release, marked, schema, rows, providers, gone, raced>>
      /\ tombs' = tombs \ proc[p].adding
      /\ models' = models \cup (Defaults \cap providers)
  BY DEF FinishAdding
<1>5. Typed'
  BY <1>3, <1>4 DEF IInv, Typed, Steps
<1>6. \A v \in 1..x.rel : Objects(v) \subseteq schema
  BY <1>1, <1>2 DEF Behind
<1>7. SchemaInv'
  BY <1>3, <1>4, <1>6, SchemaKept
<1>8. SeedInv'
  <2>1. \A q \in Processes :
          /\ proc'[q].adding \subseteq proc[q].adding
          /\ proc'[q].pc = "seeding" => proc'[q] = proc[q]
    BY <1>1, <1>2, <1>3 DEF Steps
  <2>2. ASSUME NEW d \in gone \ raced
        PROVE  Buried(d)'
    <3>1. Buried(d)
      BY DEF IInv, SeedInv
    <3>2. QED
      BY <1>4, <2>1, <3>1 DEF Buried
  <2>3. QED
    BY <1>4, <2>2 DEF IInv, SeedInv
<1>9. QED
  BY <1>5, <1>7, <1>8 DEF IInv

(* Operations and faults that no process's plan depends on.                *)
LEMMA AsideKeeps ==
  ASSUME IInv,
         \/ \E p \in Processes, c \in Catalog : DeleteModel(p, c)
         \/ Upgrade \/ Lose
  PROVE  IInv'
<1>1. /\ UNCHANGED <<exists, schema, rows, providers, tombs, proc, gone, raced>>
      /\ marked' \subseteq marked /\ models' \subseteq models
      /\ release' = release \/ (release < Len(Files) /\ release' = release + 1)
  BY DEF DeleteModel, Upgrade, Lose
<1>2. Typed'
  BY <1>1, FileFacts DEF IInv, Typed, Versions
<1>3. SchemaInv'
  BY <1>1, SchemaIdle
<1>4. SeedInv'
  BY <1>1 DEF IInv, SeedInv, Buried
<1>5. QED
  BY <1>2, <1>3, <1>4 DEF IInv

LEMMA StopKeeps ==
  ASSUME IInv, NEW p \in Processes, Stop(p)
  PROVE  IInv'
<1>1. Down \in ProcessRecords /\ Down.pc = "down" /\ Down.adding = {}
  BY FileFacts DEF Down, ProcessRecords
<1>2. Steps(p, Down)
  BY <1>1 DEF Stop, Steps
<1>3. /\ UNCHANGED <<exists, release, marked, schema, rows>>
      /\ UNCHANGED <<providers, models, tombs, gone, raced>>
  BY DEF Stop
<1>4. Typed'
  BY <1>2, <1>3 DEF IInv, Typed, Steps
<1>5. SchemaInv' /\ SeedInv'
  BY <1>1, <1>2, <1>3, SchemaKept, SeedKept
<1>6. QED
  BY <1>4, <1>5 DEF IInv

(* A lock timeout ends the migration, or only the seeding.                 *)
LEMMA BusyKeeps ==
  ASSUME IInv, NEW p \in Processes, Busy(p)
  PROVE  IInv'
<1>1. UNCHANGED <<exists, release, marked, schema, rows, providers, models, tombs, gone, raced>>
  BY DEF Busy
<1>2. proc[p].todo \in SUBSET Versions
  BY ProcessOf DEF ProcessRecords
<1>3. CASE Move(p, "failed")
  BY <1>1, <1>2, <1>3, PlainMove, MoveKeeps
<1>4. CASE Seeding(p) /\ Move(p, "up")
  <2>1. \A v \in 1..proc[p].rel : Objects(v) \subseteq schema
    BY <1>4, ProcessOf DEF Seeding, Behind
  <2>2. QED
    BY <1>1, <1>2, <1>4, <2>1, PlainMove, MoveKeeps
<1>5. QED
  BY <1>3, <1>4 DEF Busy

LEMMA NextKeeps == IInv /\ [Next]_vars => IInv'
<1> SUFFICES ASSUME IInv, [Next]_vars
             PROVE  IInv'
  OBVIOUS
<1>1. ASSUME NEW p \in Processes, Open(p) \/ Boot(p) \/ Stop(p) \/ Busy(p)
      PROVE  IInv'
  BY <1>1, OpenKeeps, PlanKeeps, ApplyKeeps, SeedDefaultsKeeps, ReadDeletedKeeps,
     SeedCatalogKeeps, FinishAddingKeeps, StopKeeps, BusyKeeps DEF Boot
<1>2. ASSUME NEW p \in Processes, NEW c \in Catalog,
             DeleteProvider(p, c) \/ AddProvider(p, c) \/ DeleteModel(p, c)
      PROVE  IInv'
  BY <1>2, DeleteProviderKeeps, AddProviderKeeps, AsideKeeps
<1>3. CASE UNCHANGED vars
  <2>1. Typed'
    BY <1>3 DEF vars, IInv, Typed
  <2>2. SchemaInv' /\ SeedInv'
    BY <1>3, SchemaIdle, SeedIdle DEF vars
  <2>3. QED
    BY <2>1, <2>2 DEF IInv
<1>4. QED
  BY <1>1, <1>2, <1>3, AsideKeeps DEF Next

LEMMA Invariant == StartupSpec => []IInv
BY InitKeeps, NextKeeps, PTL DEF StartupSpec

-----------------------------------------------------------------------------
(* Whoever serves requests has all of the schema of its release, however   *)
(* many processes migrate at once, are cut short, or find tracking rows    *)
(* lost (migrationRunner.ts, bootstrap.ts).                                *)
THEOREM ServersAreCurrent == StartupSpec => []UpMeansCurrent
<1>1. IInv => UpMeansCurrent
  <2> SUFFICES ASSUME IInv, NEW p \in Processes, Up(p), NEW v \in 1..proc[p].rel
               PROVE  Objects(v) \subseteq schema
    BY DEF UpMeansCurrent
  <2>1. Behind(p) /\ proc[p].pc # "applying"
    BY ProcessOf DEF Up
  <2>2. QED
    BY <2>1 DEF Behind
<1>2. QED
  BY <1>1, Invariant, PTL

(* No row of a migration file is inserted twice, although the tracking     *)
(* table may forget that it was: the file then fails as a whole.           *)
THEOREM RowsAreInsertedOnce == StartupSpec => []RowsOnce
<1>1. IInv => RowsOnce
  <2> SUFFICES ASSUME IInv, NEW o \in AllInserts
               PROVE  rows[o] <= 1
    BY DEF RowsOnce
  <2>1. PICK v \in Versions : o \in Inserts(v)
    BY FileFacts DEF AllInserts
  <2>2. QED
    BY <2>1 DEF IInv, SchemaInv, InsertedOnce
<1>2. QED
  BY <1>1, Invariant, PTL

(* A boot does not bring back a catalog provider that was deleted, or its  *)
(* model (providers.ts, seedCatalogProviders), whatever number of          *)
(* processes boots, unless the deletion fell into one's seeding or adding. *)
THEOREM DeletionsLast == StartupSpec => []DeletedProvidersStayDeleted
<1>1. IInv => DeletedProvidersStayDeleted
  BY DEF IInv, SeedInv, Buried, DeletedProvidersStayDeleted
<1>2. QED
  BY <1>1, Invariant, PTL
=============================================================================
