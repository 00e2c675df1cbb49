------------------------------ MODULE Startup ------------------------------
(***************************************************************************)
(* Opening the database: getDb (lib/db/bootstrap.ts), the migration runner *)
(* (lib/db/migrationRunner.ts), and the seeding of providers and models    *)
(* that every boot repeats (lib/db/providers.ts, lib/db/models.ts).        *)
(*                                                                         *)
(* Each process is synchronous, but two of them may share one DATA_DIR     *)
(* (`jroute dev` beside `jroute start`), so a step is one transaction or   *)
(* one autocommitted statement.  A migration file is a sequence of         *)
(* statements; rebuilding a table in place leaves the set of objects as it *)
(* is and is left out, and so are the renumbering tables of the runner,    *)
(* which name versions this repository does not have.                      *)
(***************************************************************************)
EXTENDS Naturals, Sequences, FiniteSetsExt

CONSTANTS
  Processes,    \* processes that may open the database
  Files,        \* the migration files, by version: sequences of statements
  FirstRelease, \* how many of them the release installed first has
  MaxPending,   \* OMNIROUTE_MAX_PENDING_MIGRATIONS; 0 turns the check off
  Catalog,      \* ids of CATALOG_PROVIDERS
  Defaults,     \* those of them DEFAULT_MODELS has a model for
  MaxFaults,    \* bound: crashes, lock timeouts and lost tracking rows
  MaxOps        \* bound: operations on the dashboard

(* "ensure" is CREATE ... IF NOT EXISTS, "column" ADD COLUMN, "create" a   *)
(* plain CREATE, and "insert" adds a row.                                  *)
Ops == {"ensure", "column", "create", "insert"}

Objects(v) == {Files[v][i].obj : i \in {j \in DOMAIN Files[v] : Files[v][j].op # "insert"}}
Columns(v) == {Files[v][i].obj : i \in {j \in DOMAIN Files[v] : Files[v][j].op = "column"}}
Creates(v) == {Files[v][i].obj : i \in {j \in DOMAIN Files[v] : Files[v][j].op = "create"}}
Inserts(v) == {Files[v][i].obj : i \in {j \in DOMAIN Files[v] : Files[v][j].op = "insert"}}
AllInserts == UNION {Inserts(v) : v \in DOMAIN Files}

(* A column is added by one file only.  A row is inserted by one file      *)
(* only, which also adds a column or creates a table that must not exist.  *)
ASSUME StartupAssumption ==
  /\ Files \in Seq(Seq([op : Ops, obj : STRING]))
  /\ \A v, w \in DOMAIN Files : v # w =>
       Columns(v) \cap Objects(w) = {} /\ Inserts(v) \cap Inserts(w) = {}
  /\ \A v \in DOMAIN Files : Inserts(v) # {} => Columns(v) \cup Creates(v) # {}
  /\ FirstRelease \in 1..Len(Files)
  /\ MaxPending \in Nat /\ MaxFaults \in Nat /\ MaxOps \in Nat
  /\ Defaults \subseteq Catalog

VARIABLES
  exists,     \* jroute.db is on the disk
  release,    \* how many migration files are installed
  marked,     \* versions in _omniroute_migrations
  schema,     \* tables, indexes and columns
  rows,       \* how often each inserted row is there
  providers,  \* catalog ids that have a row in providers
  models,     \* catalog ids whose default model has a row in models
  tombs,      \* deleted_catalog_provider_ids
  proc,       \* [Processes -> record]
  faults, ops,
  wiped,      \* history: tracking rows were lost
  gone,       \* history: providers deleted and not added since
  raced       \* history: those deleted while another process was seeding or adding

vars == <<exists, release, marked, schema, rows, providers, models, tombs,
          proc, faults, ops, wiped, gone, raced>>

Down == [pc |-> "down", isNew |-> FALSE, rel |-> 0, todo |-> {}, seen |-> {}, adding |-> {}]

Up(p) == proc[p].pc \in {"up", "adding"}

StartupInit ==
  /\ exists = FALSE
  /\ release = FirstRelease
  /\ marked = {} /\ schema = {}
  /\ rows = [o \in AllInserts |-> 0]
  /\ providers = {} /\ models = {} /\ tombs = {}
  /\ proc = [p \in Processes |-> Down]
  /\ faults = 0 /\ ops = 0
  /\ wiped = FALSE /\ gone = {} /\ raced = {}

-----------------------------------------------------------------------------
(* getDb, until it calls the runner.  After a failure instance is still    *)
(* null, so the next request that needs the database starts again.         *)
Open(p) ==
  /\ proc[p].pc \in {"down", "failed"}
  /\ proc' = [proc EXCEPT ![p] = [Down EXCEPT !.pc = "opened", !.isNew = ~exists,
                                               !.rel = release]]
  /\ exists' = TRUE
  /\ UNCHANGED <<release, marked, schema, rows, providers, models, tombs, faults,
                 ops, wiped, gone, raced>>

Pending(p) == {v \in 1..proc[p].rel : v \notin marked}

(* Safety check 2.  The physical baseline it would consult looks for       *)
(* tables no file here creates.                                            *)
Suspicious(pending) ==
  /\ MaxPending > 0 /\ marked # {} /\ Cardinality(pending) > MaxPending

Move(p, pc) == proc' = [proc EXCEPT ![p].pc = pc]

(* A deliberate fault: the runner plans every file, applied or not.        *)
PlanAll(p) ==
  /\ proc[p].pc = "opened"
  /\ proc' = [proc EXCEPT ![p].pc = "applying", ![p].todo = 1..proc[p].rel]
  /\ UNCHANGED <<exists, release, marked, schema, rows, providers, models, tombs,
                 faults, ops, wiped, gone, raced>>

(* runMigrations up to its loop: what is missing.                          *)
Plan(p) ==
  /\ proc[p].pc = "opened"
  /\ IF ~proc[p].isNew /\ Suspicious(Pending(p))
     THEN Move(p, "failed")
     ELSE proc' = [proc EXCEPT ![p].pc = "applying", ![p].todo = Pending(p)]
  /\ UNCHANGED <<exists, release, marked, schema, rows, providers, models, tombs,
                 faults, ops, wiped, gone, raced>>

(* A deliberate fault: the plain CREATEs are CREATE ... IF NOT EXISTS.     *)
ClashOfColumns(v) ==
  IF \E i \in DOMAIN Files[v] : Files[v][i].op = "column" /\ Files[v][i].obj \in schema
  THEN "column" ELSE "none"

(* What the first failing statement of a file is, "none" if all succeed.   *)
Clash(v) ==
  LET failing == {i \in DOMAIN Files[v] :
                    Files[v][i].op \in {"column", "create"} /\ Files[v][i].obj \in schema}
  IN IF failing = {} THEN "none" ELSE Files[v][Min(failing)].op

(* The next file, in version order.  One that fails for another reason     *)
(* ends the boot: its statements and its tracking row are one transaction, *)
(* which also fails when another process has written that row meanwhile.   *)
(* A column that is there already counts as the whole file applied.        *)
Apply(p) ==
  /\ proc[p].pc = "applying" /\ proc[p].todo # {}
  /\ LET v == Min(proc[p].todo)
         Next1 == proc' = [proc EXCEPT ![p].todo = @ \ {v}]
     IN \/ /\ Clash(v) = "none" /\ v \notin marked
           /\ schema' = schema \cup Objects(v)
           /\ rows' = [o \in AllInserts |-> rows[o] + (IF o \in Inserts(v) THEN 1 ELSE 0)]
           /\ marked' = marked \cup {v}
           /\ Next1
        \/ /\ Clash(v) = "column"
           /\ marked' = marked \cup {v}
           /\ Next1
           /\ UNCHANGED <<schema, rows>>
        \/ /\ Clash(v) = "create" \/ (Clash(v) = "none" /\ v \in marked)
           /\ Move(p, "failed")
           /\ UNCHANGED <<marked, schema, rows>>
  /\ UNCHANGED <<exists, release, providers, models, tombs, faults, ops, wiped,
                 gone, raced>>

(* instance = db, then seedDefaultModels.                                  *)
SeedDefaults(p) ==
  /\ proc[p].pc = "applying" /\ proc[p].todo = {}
  /\ models' = models \cup (Defaults \cap providers)
  /\ Move(p, "seeded")
  /\ UNCHANGED <<exists, release, marked, schema, rows, providers, tombs, faults,
                 ops, wiped, gone, raced>>

(* seedCatalogProviders reads the deleted ids ...                          *)
ReadDeleted(p) ==
  /\ proc[p].pc = "seeded"
  /\ proc' = [proc EXCEPT ![p].pc = "seeding", ![p].seen = tombs]
  /\ UNCHANGED <<exists, release, marked, schema, rows, providers, models, tombs,
                 faults, ops, wiped, gone, raced>>

(* A deliberate fault: the deleted ids are not looked at.                  *)
SeedWholeCatalog(p) ==
  /\ proc[p].pc = "seeding"
  /\ providers' = providers \cup Catalog
  /\ models' = models \cup (Defaults \cap providers')
  /\ Move(p, "up")
  /\ UNCHANGED <<exists, release, marked, schema, rows, tombs, faults, ops, wiped,
                 gone, raced>>

(* ... and then, in one transaction, inserts the others and their models.  *)
SeedCatalog(p) ==
  /\ proc[p].pc = "seeding"
  /\ providers' = providers \cup (Catalog \ proc[p].seen)
  /\ models' = models \cup (Defaults \cap providers')
  /\ Move(p, "up")
  /\ UNCHANGED <<exists, release, marked, schema, rows, tombs, faults, ops, wiped,
                 gone, raced>>

-----------------------------------------------------------------------------
Operate == ops < MaxOps /\ ops' = ops + 1

(* deleteProvider: one transaction, and the models go with the provider.   *)
DeleteProvider(p, c) ==
  /\ proc[p].pc = "up" /\ Operate
  /\ c \in providers
  /\ providers' = providers \ {c}
  /\ models' = models \ {c}
  /\ tombs' = tombs \cup {c}
  /\ gone' = gone \cup {c}
  /\ raced' = IF \E q \in Processes : proc[q].pc = "seeding" \/ c \in proc[q].adding
              THEN raced \cup {c} ELSE raced
  /\ UNCHANGED <<exists, release, marked, schema, rows, proc, faults, wiped>>

(* upsertProvider of a provider that is not there: the row, ...            *)
AddProvider(p, c) ==
  /\ proc[p].pc = "up" /\ Operate
  /\ c \notin providers
  /\ providers' = providers \cup {c}
  /\ gone' = gone \ {c} /\ raced' = raced \ {c}
  /\ proc' = [proc EXCEPT ![p].pc = "adding", ![p].adding = {c}]
  /\ UNCHANGED <<exists, release, marked, schema, rows, models, tombs, faults, wiped>>

(* ... then the deletion is forgotten and every default model seeded.      *)
FinishAdding(p) ==
  /\ proc[p].pc = "adding"
  /\ tombs' = tombs \ proc[p].adding
  /\ models' = models \cup (Defaults \cap providers)
  /\ proc' = [proc EXCEPT ![p].pc = "up", ![p].adding = {}]
  /\ UNCHANGED <<exists, release, marked, schema, rows, providers, faults, ops,
                 wiped, gone, raced>>

DeleteModel(p, c) ==
  /\ proc[p].pc = "up" /\ Operate
  /\ c \in models
  /\ models' = models \ {c}
  /\ UNCHANGED <<exists, release, marked, schema, rows, providers, tombs, proc,
                 faults, wiped, gone, raced>>

-----------------------------------------------------------------------------
Upgrade ==
  /\ release < Len(Files)
  /\ release' = release + 1
  /\ UNCHANGED <<exists, marked, schema, rows, providers, models, tombs, proc,
                 faults, ops, wiped, gone, raced>>

Fault == faults < MaxFaults /\ faults' = faults + 1

(* The process is stopped or dies; what it had committed stays.            *)
Stop(p) ==
  /\ proc[p].pc # "down" /\ Fault
  /\ proc' = [proc EXCEPT ![p] = Down]
  /\ UNCHANGED <<exists, release, marked, schema, rows, providers, models, tombs,
                 ops, wiped, gone, raced>>

Migrating(p) ==
  proc[p].pc = "opened" \/ (proc[p].pc = "applying" /\ proc[p].todo # {})

Seeding(p) ==
  proc[p].pc \in {"seeded", "seeding"} \/ (proc[p].pc = "applying" /\ proc[p].todo = {})

(* A deliberate fault: the runner logs a file that failed and goes on.     *)
BusyGoesOn(p) ==
  /\ \E q \in Processes \ {p} : proc[q].pc # "down"
  /\ Fault
  /\ proc[p].pc = "applying" /\ proc[p].todo # {}
  /\ proc' = [proc EXCEPT ![p].todo = @ \ {Min(@)}]
  /\ UNCHANGED <<exists, release, marked, schema, rows, providers, models, tombs,
                 ops, wiped, gone, raced>>

(* Another process held the write lock beyond busy_timeout.  Once instance *)
(* is set the seeding is not tried again in this process.                  *)
Busy(p) ==
  /\ \E q \in Processes \ {p} : proc[q].pc # "down"
  /\ Fault
  /\ \/ /\ Migrating(p)
        /\ Move(p, "failed")
     \/ /\ Seeding(p)
        /\ Move(p, "up")
  /\ UNCHANGED <<exists, release, marked, schema, rows, providers, models, tombs,
                 ops, wiped, gone, raced>>

(* The tracking table loses rows while nothing runs: a repair by hand, a   *)
(* restored backup.                                                        *)
Lose ==
  /\ \A p \in Processes : proc[p].pc = "down"
  /\ Fault
  /\ \E kept \in SUBSET marked : kept # marked /\ marked' = kept
  /\ wiped' = TRUE
  /\ UNCHANGED <<exists, release, schema, rows, providers, models, tombs, proc,
                 ops, gone, raced>>

Boot(p) ==
  \/ Plan(p) \/ Apply(p) \/ SeedDefaults(p) \/ ReadDeleted(p) \/ SeedCatalog(p)
  \/ FinishAdding(p)

Next ==
  \/ \E p \in Processes :
       \/ Open(p) \/ Boot(p) \/ Stop(p) \/ Busy(p)
       \/ \E c \in Catalog : DeleteProvider(p, c) \/ AddProvider(p, c) \/ DeleteModel(p, c)
  \/ Upgrade \/ Lose

StartupSpec == StartupInit /\ [][Next]_vars

(* A boot that began runs on, and after a failed one requests keep asking  *)
(* for the database.  Nobody has to start a process that is down.          *)
FairStartupSpec ==
  /\ StartupSpec
  /\ \A p \in Processes :
       WF_vars(Boot(p)) /\ WF_vars(proc[p].pc = "failed" /\ Open(p))

-----------------------------------------------------------------------------
(* A process that serves requests has every table and column of the        *)
(* release it was started from, however the boots of two processes were    *)
(* interleaved or cut short and whatever tracking rows were lost: a file   *)
(* that counts as applied because a column was there has been applied.     *)
UpMeansCurrent ==
  \A p \in Processes : Up(p) =>
    \A v \in 1..proc[p].rel : Objects(v) \subseteq schema

(* A file's rows are never inserted a second time, not even when the       *)
(* tracking table forgot that it was applied.                              *)
RowsOnce == \A o \in AllInserts : rows[o] <= 1

(* A catalog provider the operator deleted does not come back at a boot,   *)
(* nor does its model (providers.ts, seedCatalogProviders), unless it was deleted between two *)
(* statements of another process: its reading of the deleted ids and its   *)
(* seeding, or its adding of the row and forgetting of the deletion.       *)
DeletedProvidersStayDeleted == gone \cap (providers \cup models) \subseteq raced

(* Every boot ends with a process that serves requests, as long as no      *)
(* tracking row was lost and the wipe check has nothing to object to.      *)
ComesUp ==
  \A p \in Processes :
    proc[p].pc # "down" ~>
      \/ Up(p) \/ proc[p].pc = "down"
      \/ wiped \/ Suspicious({v \in 1..release : v \notin marked})

=============================================================================
