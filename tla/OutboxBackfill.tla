---------------------------- MODULE OutboxBackfill ----------------------------
(***************************************************************************)
(* The outbox backfill of hybridcloud/tasks/backfill_outboxes.py.  Each    *)
(* replicated table has a replication_version in the code; when it grows,  *)
(* runs of backfill_outboxes_for walk the table by id and produce an       *)
(* outbox row for every model row, remembering in redis how far they got.  *)
(* Runs are started every minute (enqueue_outbox_jobs) and nothing keeps   *)
(* two of them apart; a self-hosted upgrade runs them to the end.          *)
(***************************************************************************)
EXTENDS Integers, FiniteSets

CONSTANTS
    NTables,      \* replicated tables, numbered in the order of apps.all_models
    Worker,       \* processes that run backfill_outboxes_for
    Rate,         \* max_batch_rate
    Ids,          \* the ids each table may use, a finite set for TLC
    MaxVersion,   \* bound on each table's replication_version, for TLC
    MaxCrashes    \* bound on the runs that die, for TLC

Table == 1..NTables
Id == UNION {Ids[t] : t \in Table}

ASSUME CountAssumption == NTables \in Nat /\ Rate \in Nat /\ MaxCrashes \in Nat
ASSUME IdsAssumption == Ids \in [Table -> SUBSET (Nat \ {0})]
ASSUME VersionsAssumption == MaxVersion \in [Table -> Nat]

VARIABLES
    selfHosted,  \* settings.SENTRY_SELF_HOSTED
    rows,        \* ids of the model rows of each table
    used,        \* ids its sequence has given out
    coded,       \* the deployed code's replication_version of each table
    option,      \* outbox_replication.<table>.replication_version
    lower,       \* redis: the id to go on from ...
    version,     \* ... and the version being backfilled, 0 before the key exists
    covered,     \* history: the highest version a row had an outbox row for
    passed       \* history: versions the last run to finish stored a state past
                 \* without backfilling them

VARIABLES
    pc,          \* where each worker stands
    force,       \* force_synchronous
    code,        \* the replication_versions of the code it runs
    remaining,   \* remaining_to_backfill
    found,       \* backfilled > 0
    at,          \* the table of its loop
    low, up,     \* BackfillBatch.low (first the state's lower) and .up
    ver,         \* BackfillBatch.version (first the state's version)
    todo,        \* rows of the batch without their outbox row yet
    crashes      \* history: runs that died

table == <<rows, used, covered>>
redis == <<lower, version, passed>>
rollout == <<selfHosted, coded, option>>
batch == <<low, up, ver, todo>>
run == <<force, code, remaining, found, at, batch>>
vars == <<table, redis, rollout, pc, run, crashes>>

Smaller(a, b) == IF a <= b THEN a ELSE b
Larger(a, b) == IF a <= b THEN b ELSE a

TypeOK ==
    /\ selfHosted \in BOOLEAN
    /\ rows \in [Table -> SUBSET Id]
    /\ used \in [Table -> SUBSET Id]
    /\ coded \in [Table -> Nat]
    /\ option \in [Table -> Nat]
    /\ lower \in [Table -> Nat]
    /\ version \in [Table -> Nat]
    /\ covered \in [Table -> [Id -> Nat]]
    /\ passed \in [Table -> SUBSET Nat]
    /\ pc \in [Worker -> {"idle", "scan", "init", "version", "min", "upper", "rows",
                         "produce", "done"}]
    /\ force \in [Worker -> BOOLEAN]
    /\ code \in [Worker -> [Table -> Nat]]
    /\ remaining \in [Worker -> Int]
    /\ found \in [Worker -> BOOLEAN]
    /\ at \in [Worker -> 1..NTables + 1]
    /\ low \in [Worker -> Nat]
    /\ up \in [Worker -> Nat]
    /\ ver \in [Worker -> Nat]
    /\ todo \in [Worker -> SUBSET Id]
    /\ crashes \in Nat

\* find_replication_version for code whose version is v.
VersionFor(t, v, forced) == IF forced THEN v ELSE Smaller(option[t], v)

\* The version every row should reach: self-hosted installations follow the
\* code, SaaS waits for the option.
Target(t) == VersionFor(t, coded[t], selfHosted)

Init ==
    /\ selfHosted \in BOOLEAN
    /\ rows \in [Table -> SUBSET Id]
    /\ \A t \in Table : rows[t] \subseteq Ids[t]
    /\ used = rows
    /\ coded = [t \in Table |-> 1]
    /\ option = [t \in Table |-> 0]
    /\ lower = [t \in Table |-> 0]
    /\ version = [t \in Table |-> 0]
    /\ passed = [t \in Table |-> {}]
    /\ covered = [t \in Table |-> [i \in Id |-> 0]]
    /\ pc = [w \in Worker |-> "idle"]
    /\ force = [w \in Worker |-> FALSE]
    /\ code = [w \in Worker |-> [t \in Table |-> 1]]
    /\ remaining = [w \in Worker |-> 0]
    /\ found = [w \in Worker |-> FALSE]
    /\ at = [w \in Worker |-> 1]
    /\ low = [w \in Worker |-> 0]
    /\ up = [w \in Worker |-> 0]
    /\ ver = [w \in Worker |-> 0]
    /\ todo = [w \in Worker |-> {}]
    /\ crashes = 0

-----------------------------------------------------------------------------
(* The rest of the system. *)

\* Ids are given out in order but commit in any order.  A row that is created
\* produces its own outbox row, which every server in charge replicates to the
\* target or beyond.
InsertRow(t, i) ==
    /\ i \notin used[t]
    /\ rows' = [rows EXCEPT ![t] = @ \cup {i}]
    /\ used' = [used EXCEPT ![t] = @ \cup {i}]
    /\ covered' = [covered EXCEPT ![t] = [@ EXCEPT ![i] = Target(t)]]
    /\ UNCHANGED <<redis, rollout, pc, run, crashes>>

DeleteRow(t, i) ==
    /\ i \in rows[t]
    /\ rows' = [rows EXCEPT ![t] = @ \ {i}]
    /\ covered' = [covered EXCEPT ![t] = [@ EXCEPT ![i] = 0]]
    /\ UNCHANGED <<used, redis, rollout, pc, run, crashes>>

\* A deploy bumps the replication_version of a table, also while a backfill goes
\* on; runs that have started keep the code they started with.
Deploy(t) ==
    /\ coded[t] < MaxVersion[t]
    /\ coded' = [coded EXCEPT ![t] = @ + 1]
    /\ UNCHANGED <<table, redis, selfHosted, option, pc, run, crashes>>

\* "For SaaS, we wait for a sentry option to be set, bringing the version up
\* to the model.replication_version" (find_replication_version).
SetOption(t, v) ==
    /\ ~selfHosted
    /\ option[t] < v
    /\ v <= coded[t]
    /\ option' = [option EXCEPT ![t] = v]
    /\ UNCHANGED <<table, redis, selfHosted, coded, pc, run, crashes>>

-----------------------------------------------------------------------------
(* backfill_outboxes_for. *)

\* schedule_batch leaves n of the rate to the backfill; the upgrade all of it.
StartRun(w, forced, n) ==
    /\ pc[w] = "idle"
    /\ forced => selfHosted /\ n = Rate
    /\ pc' = [pc EXCEPT ![w] = "scan"]
    /\ force' = [force EXCEPT ![w] = forced]
    /\ code' = [code EXCEPT ![w] = coded]
    /\ remaining' = [remaining EXCEPT ![w] = n]
    /\ found' = [found EXCEPT ![w] = FALSE]
    /\ at' = [at EXCEPT ![w] = 1]
    /\ UNCHANGED <<table, redis, rollout, batch, crashes>>

\* The version table t is backfilled to by w's code.
Wanted(w, t) == VersionFor(t, code[w][t], force[w])

\* get_processing_state gets the state of the table ...
ReadState(w) ==
    LET t == at[w] IN
    /\ pc[w] = "scan"
    /\ t \in Table
    /\ low' = [low EXCEPT ![w] = lower[t]]
    /\ ver' = [ver EXCEPT ![w] = version[t]]
    /\ pc' = [pc EXCEPT ![w] = IF version[t] = 0 THEN "init" ELSE "version"]
    /\ UNCHANGED <<table, redis, rollout, force, code, remaining, found, at, up, todo, crashes>>

\* ... or, a call later, stores the first one.
InitState(w) ==
    /\ pc[w] = "init"
    /\ lower' = [lower EXCEPT ![at[w]] = 0]
    /\ version' = [version EXCEPT ![at[w]] = 1]
    /\ low' = [low EXCEPT ![w] = 0]
    /\ ver' = [ver EXCEPT ![w] = 1]
    /\ pc' = [pc EXCEPT ![w] = "version"]
    /\ UNCHANGED <<table, passed, rollout, force, code, remaining, found, at, up, todo, crashes>>

\* find_replication_version: nothing to do for a table whose state is past the
\* wanted version.
SkipTable(w) ==
    /\ pc[w] = "version"
    /\ ver[w] > Wanted(w, at[w])
    /\ pc' = [pc EXCEPT ![w] = "scan"]
    /\ at' = [at EXCEPT ![w] = @ + 1]
    /\ low' = [low EXCEPT ![w] = 0]
    /\ ver' = [ver EXCEPT ![w] = 0]
    /\ UNCHANGED <<table, redis, rollout, force, code, remaining, found, up, todo, crashes>>

\* Mutant: a new version goes on from the old one's cursor.
LowFor_KeepsLower(w) == low[w]

\* A new version starts from the first row.
LowFor(w) == IF ver[w] < Wanted(w, at[w]) THEN 0 ELSE low[w]

ChooseVersion(w) ==
    /\ pc[w] = "version"
    /\ ver[w] <= Wanted(w, at[w])
    /\ low' = [low EXCEPT ![w] = LowFor(w)]
    /\ ver' = [ver EXCEPT ![w] = Wanted(w, at[w])]
    /\ pc' = [pc EXCEPT ![w] = "min"]
    /\ UNCHANGED <<table, redis, rollout, force, code, remaining, found, at, up, todo, crashes>>

\* l, or the table's first id if that is higher.
IsLow(t, l, new) ==
    \/ new = l /\ (rows[t] = {} \/ \E i \in rows[t] : i <= l)
    \/ new \in rows[t] /\ \A i \in rows[t] : l < i /\ new <= i

\* The first query: the lowest id.
QueryMin(w) ==
    /\ pc[w] = "min"
    /\ \E l \in rows[at[w]] \cup {low[w]} :
          /\ IsLow(at[w], low[w], l)
          /\ low' = [low EXCEPT ![w] = l]
    /\ pc' = [pc EXCEPT ![w] = "upper"]
    /\ UNCHANGED <<table, redis, rollout, force, code, remaining, found, at, up, ver, todo, crashes>>

From(t, l) == {i \in rows[t] : i >= l}

\* The last of the first n + 1 rows from l on, 0 without any.
IsUp(t, l, n, new) ==
    \/ From(t, l) = {} /\ new = 0
    \/ /\ new \in From(t, l)
       /\ LET upTo == {i \in From(t, l) : i <= new}
          IN  \/ Cardinality(upTo) = n + 1
              \/ upTo = From(t, l) /\ Cardinality(upTo) <= n

\* The second query: the highest id of the batch, one row more than the rate has.
QueryUpper(w) ==
    /\ pc[w] = "upper"
    /\ \E u \in rows[at[w]] \cup {0} :
          /\ IsUp(at[w], low[w], remaining[w], u)
          /\ up' = [up EXCEPT ![w] = u]
    /\ pc' = [pc EXCEPT ![w] = "rows"]
    /\ UNCHANGED <<table, redis, rollout, force, code, remaining, found, at, low, ver, todo, crashes>>

\* The third one: process_outbox_backfill_batch fetches the batch's rows.
QueryRows(w) ==
    /\ pc[w] = "rows"
    /\ todo' = [todo EXCEPT ![w] = {i \in rows[at[w]] : low[w] <= i /\ i <= up[w]}]
    /\ pc' = [pc EXCEPT ![w] = "produce"]
    /\ UNCHANGED <<table, redis, rollout, force, code, remaining, found, at, low, up, ver, crashes>>

HasMore(w) == up[w] > low[w]
Count(w) == IF up[w] < low[w] THEN 0 ELSE up[w] - low[w] + 1

\* The outbox rows of one model row, in a transaction of its own; a row deleted
\* in the meantime has no coverage to speak of.
ProduceRow(w, i) ==
    /\ pc[w] = "produce"
    /\ i \in todo[w]
    /\ covered' = IF i \in rows[at[w]]
                  THEN [covered EXCEPT ![at[w]] =
                          [@ EXCEPT ![i] = Larger(covered[at[w]][i], ver[w])]]
                  ELSE covered
    /\ todo' = [todo EXCEPT ![w] = @ \ {i}]
    /\ UNCHANGED <<rows, used, redis, rollout, pc, force, code, remaining, found, at, low, up, ver, crashes>>

\* Mutant: the state is saved before the rows are produced.
Produced_Early(w) == TRUE

Produced(w) == todo[w] = {}

\* set_processing_state, and the loop's accounting: it stops when the rate is
\* used up and otherwise goes on with the next table.
SaveState(w) ==
    LET t == at[w]
        left == remaining[w] - Count(w)
    IN  /\ pc[w] = "produce"
        /\ Produced(w)
        /\ lower' = [lower EXCEPT ![t] = IF HasMore(w) THEN up[w] + 1 ELSE 0]
        /\ version' = [version EXCEPT ![t] = IF HasMore(w) THEN ver[w] ELSE code[w][t] + 1]
        /\ passed' = [passed EXCEPT ![t] = IF HasMore(w) THEN @ ELSE (ver[w] + 1)..code[w][t]]
        /\ remaining' = [remaining EXCEPT ![w] = left]
        /\ found' = [found EXCEPT ![w] = @ \/ Count(w) > 0]
        /\ pc' = [pc EXCEPT ![w] = IF left <= 0 THEN "done" ELSE "scan"]
        /\ at' = [at EXCEPT ![w] = IF left <= 0 THEN @ ELSE @ + 1]
        /\ low' = [low EXCEPT ![w] = 0]
        /\ up' = [up EXCEPT ![w] = 0]
        /\ ver' = [ver EXCEPT ![w] = 0]
        /\ todo' = [todo EXCEPT ![w] = {}]
        /\ UNCHANGED <<table, rollout, force, code, crashes>>

EndOfTables(w) ==
    /\ pc[w] = "scan"
    /\ at[w] = NTables + 1
    /\ pc' = [pc EXCEPT ![w] = "done"]
    /\ UNCHANGED <<table, redis, rollout, run, crashes>>

\* What a run knew is forgotten.
Forget(w) ==
    /\ pc' = [pc EXCEPT ![w] = "idle"]
    /\ force' = [force EXCEPT ![w] = FALSE]
    /\ code' = [code EXCEPT ![w] = [t \in Table |-> 1]]
    /\ remaining' = [remaining EXCEPT ![w] = 0]
    /\ found' = [found EXCEPT ![w] = FALSE]
    /\ at' = [at EXCEPT ![w] = 1]
    /\ low' = [low EXCEPT ![w] = 0]
    /\ up' = [up EXCEPT ![w] = 0]
    /\ ver' = [ver EXCEPT ![w] = 0]
    /\ todo' = [todo EXCEPT ![w] = {}]

Return(w) ==
    /\ pc[w] = "done"
    /\ Forget(w)
    /\ UNCHANGED <<table, redis, rollout, crashes>>

\* A statement fails or the process dies; each row committed on its own.
Crash(w) ==
    /\ pc[w] # "idle"
    /\ crashes < MaxCrashes
    /\ crashes' = crashes + 1
    /\ Forget(w)
    /\ UNCHANGED <<table, redis, rollout>>

-----------------------------------------------------------------------------
Step(w) ==
    \/ ReadState(w) \/ InitState(w) \/ SkipTable(w) \/ ChooseVersion(w)
    \/ QueryMin(w) \/ QueryUpper(w) \/ QueryRows(w)
    \/ \E i \in todo[w] : ProduceRow(w, i)
    \/ SaveState(w) \/ EndOfTables(w) \/ Return(w)

Next ==
    \/ \E t \in Table : \E i \in Ids[t] : InsertRow(t, i) \/ DeleteRow(t, i)
    \/ \E t \in Table : Deploy(t) \/ \E v \in 1..MaxVersion[t] : SetOption(t, v)
    \/ \E w \in Worker, forced \in BOOLEAN, n \in 1..Rate : StartRun(w, forced, n)
    \/ \E w \in Worker : Step(w) \/ Crash(w)

Spec == Init /\ [][Next]_vars

(* Fairness: a run that does not die goes on.  Nothing is assumed of the    *)
(* runs that are started; see EventuallyCovered.                            *)
FairSpec == Spec /\ \A w \in Worker : WF_vars(Step(w))
-----------------------------------------------------------------------------
\* When redis says that a table is done with the version it should reach, every
\* row has had an outbox row for that version: concurrent, overtaken and dying
\* runs skip nothing ("callers to process_outbox_backfill_batch will produce
\* new outboxes incrementally to replicate those models").  Exempt is a version
\* that the last run to finish stored a state past, because its code had it
\* while the option still held it back: nothing backfills that version.
DoneMeansCovered ==
    \A t \in Table :
        version[t] > Target(t) /\ Target(t) \notin passed[t]
            => \A i \in rows[t] : covered[t][i] >= Target(t)

\* While a backfill goes on, the rows behind the cursor are covered.
CursorIsCovered ==
    \A t \in Table : \A i \in rows[t] : i < lower[t] => covered[t][i] >= version[t]

\* The upgrade repeats backfill_outboxes_for until it reports no work, and then
\* every row of every table has been covered, unless a newer release has been
\* deployed since that run started (run_outbox_replications_for_self_hosted).
UpgradeCoversAll ==
    \A w \in Worker :
        pc[w] = "done" /\ force[w] /\ ~found[w]
            => \A t \in Table : code[w][t] = coded[t]
                  => \A i \in rows[t] : covered[t][i] >= coded[t]

\* Runs with a part of the rate go on being started.  Neither schedule_batch,
\* which counts old rows that are stuck against the rate, nor an upgrade, which
\* nobody repeats when it dies, makes sure of it.
RunsKeepComing ==
    []<><<\E w \in Worker, n \in 1..Rate : StartRun(w, selfHosted, n)>>_vars

\* If runs keep coming, then once versions stop changing every row is covered.
EventuallyCovered ==
    RunsKeepComing =>
        <>[](\A t \in Table : Target(t) \notin passed[t]
                => \A i \in rows[t] : covered[t][i] >= Target(t))
=============================================================================
