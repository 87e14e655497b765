-------------------------- MODULE TombstoneCascade --------------------------
(***************************************************************************)
(* Cascading deletes across silos (tasks/deletion/hybrid_cloud.py).        *)
(*                                                                         *)
(* A row refers to an object of another silo, with no constraint in the    *)
(* database.  When the object is deleted its outbox leaves a tombstone in  *)
(* the row's silo.  Two watermarks in redis say up to which row, and up to *)
(* which tombstone, the tables have been joined; a task moves the row      *)
(* watermark by a batch and, once no rows are left, the tombstone          *)
(* watermark.  A row that was there before the tombstone is found by the   *)
(* latter, one that came after it by the former.                           *)
(*                                                                         *)
(* Tasks overlap: cron starts one every 15 minutes for each foreign key,   *)
(* and a task that has more to do starts another.                          *)
(***************************************************************************)
EXTENDS Integers, FiniteSets, FiniteSetsExt

CONSTANTS
    Object,       \* what rows refer to, in the other silo
    Null,         \* the foreign key of a row that refers to nothing
    Absent,       \* an id without a row or tombstone
    Setups,       \* what foreign keys do on delete, with one database or two
    Worker,       \* what runs tasks
    BatchSize,    \* get_batch_size()
    ChunkSize,    \* rows that one deletion task deletes
    MaxRow,       \* bound on the ids of rows, for TLC
    MaxTombstone, \* bound on the ids of tombstones, for TLC
    MaxFaults     \* bound on moved rows and tasks that fail, for TLC

ASSUME ObjectAssumption == {Null, Absent} \cap Object = {} /\ Null # Absent
ASSUME SetupAssumption == Setups \subseteq {"CASCADE", "SET_NULL", "DO_NOTHING"} \X BOOLEAN
ASSUME SizeAssumption == {BatchSize, ChunkSize} \subseteq Nat \ {0}
ASSUME BoundAssumption == {MaxRow, MaxTombstone, MaxFaults} \subseteq Nat

VARIABLES
    onDelete, \* what the foreign key does
    crossDb,  \* are rows and tombstones in different databases?
    alive,    \* the objects that exist
    row,      \* the object of each row
    tomb,     \* the object of each tombstone
    rowIds,   \* ids that were given to rows (history)
    mark,     \* the watermarks in redis: mark["row"] and mark["tombstone"]
    pc,       \* what each worker does next
    kind,     \* the watermark it works on
    low,      \* the bounds of its batch: low exclusive ...
    up,       \* ... and up inclusive
    more,     \* has_more
    seen,     \* what the first query of two found, if the tables are not joined
    ids,      \* to_delete_ids
    late,     \* rows and tombstones committed after one with a higher id (history)
    moved,    \* rows given another object while a worker held them (history)
    strayed,  \* rows given an object too late for its tombstone (history)
    faults    \* moved rows and tasks that failed

setup == <<onDelete, crossDb>>
tables == <<alive, row, tomb, rowIds>>
batch == <<low, up, more>>
found == <<seen, ids>>
history == <<late, moved, strayed>>
vars == <<setup, tables, mark, pc, kind, batch, found, history, faults>>

RowId == 1..MaxRow
TombstoneId == 1..MaxTombstone
Kind == {"row", "tombstone"}
Missing == -1 \* no watermark in redis yet

Rows == {r \in RowId : row[r] # Absent}
Tombstones == {t \in TombstoneId : tomb[t] # Absent}

TypeOK ==
    /\ <<onDelete, crossDb>> \in Setups
    /\ alive \in SUBSET Object
    /\ row \in [RowId -> Object \cup {Null, Absent}]
    /\ tomb \in [TombstoneId -> Object \cup {Absent}]
    /\ rowIds \in SUBSET RowId
    /\ Rows \subseteq rowIds
    /\ mark \in [Kind -> Nat \cup {Missing}]
    /\ pc \in [Worker -> {"idle", "mark", "init", "bounds", "query", "match", "apply", "save"}]
    /\ kind \in [Worker -> Kind]
    /\ low \in [Worker -> Nat]
    /\ up \in [Worker -> Nat]
    /\ more \in [Worker -> BOOLEAN]
    /\ seen \in [Worker -> (SUBSET (RowId \X (Object \cup {Null}))) \cup SUBSET Object]
    /\ ids \in [Worker -> SUBSET RowId]
    /\ late \in [Kind -> SUBSET Nat]
    /\ moved \in [Worker -> SUBSET RowId]
    /\ strayed \in SUBSET (RowId \X TombstoneId)
    /\ faults \in Nat

Init ==
    /\ \E s \in Setups : onDelete = s[1] /\ crossDb = s[2]
    /\ alive = Object
    /\ row = [r \in RowId |-> Absent]
    /\ tomb = [t \in TombstoneId |-> Absent]
    /\ rowIds = {}
    /\ mark = [k \in Kind |-> Missing]
    /\ pc = [w \in Worker |-> "idle"]
    /\ kind = [w \in Worker |-> "row"]
    /\ low = [w \in Worker |-> 0]
    /\ up = low
    /\ more = [w \in Worker |-> FALSE]
    /\ seen = [w \in Worker |-> {}]
    /\ ids = seen
    /\ late = [k \in Kind |-> {}]
    /\ moved = seen
    /\ strayed = {}
    /\ faults = 0

-----------------------------------------------------------------------------
(* The tables. *)

\* What becomes late when an id is committed after others.
LateId(k, i, others) ==
    late' = [late EXCEPT ![k] = IF \E j \in others : i < j THEN @ \cup {i} ELSE @]

\* Ids are given out in order but commit in any order.  Nothing stops a row
\* from referring to an object that has been deleted.
InsertRow(r, o) ==
    /\ r \notin rowIds
    /\ row' = [row EXCEPT ![r] = o]
    /\ rowIds' = rowIds \cup {r}
    /\ LateId("row", r, rowIds)
    /\ UNCHANGED <<setup, alive, tomb, mark, pc, kind, batch, found, moved, strayed, faults>>

\* Worker w has r among its ids, or among the rows it is to match.
Holds(w, r) == r \in ids[w] \/ \E o \in Object \cup {Null} : <<r, o>> \in seen[w]

\* A pass will not look at id i any more, unless its watermark falls back.
Taken(k, i) ==
    \/ i <= mark[k]
    \/ \E w \in Worker :
          /\ kind[w] = k
          /\ i <= low[w] \/ (pc[w] \in {"match", "apply", "save"} /\ i <= up[w])

\* A row is given another object, as when users are merged, or none.  If both
\* passes are done with the row and with a tombstone of the object, no task
\* will bring the two together.
MoveRow(r, o) ==
    /\ faults < MaxFaults
    /\ row[r] \notin {o, Absent}
    /\ row' = [row EXCEPT ![r] = o]
    /\ moved' = [w \in Worker |-> IF Holds(w, r) THEN moved[w] \cup {r} ELSE moved[w]]
    /\ strayed' = {p \in strayed : p[1] # r} \cup
                  {p \in {r} \X TombstoneId :
                     tomb[p[2]] = o /\ Taken("row", r) /\ Taken("tombstone", p[2])}
    /\ faults' = faults + 1
    /\ UNCHANGED <<setup, alive, tomb, rowIds, mark, pc, kind, batch, found, late>>

DeleteObject(o) ==
    /\ o \in alive
    /\ alive' = alive \ {o}
    /\ UNCHANGED <<setup, row, tomb, rowIds, mark, pc, kind, batch, found, history, faults>>

\* Mutant: maybe_process_tombstone does not look for the object.
IsDeleted_Always(o) == TRUE

IsDeleted(o) == o \notin alive

\* maybe_process_tombstone and record_delete, for an outbox that may arrive
\* more than once: tombstones are not unique.
RecordTombstone(t, o) ==
    /\ IsDeleted(o)
    /\ t \notin Tombstones
    /\ tomb' = [tomb EXCEPT ![t] = o]
    /\ LateId("tombstone", t, Tombstones)
    /\ UNCHANGED <<setup, alive, row, rowIds, mark, pc, kind, batch, found, moved, strayed, faults>>

-----------------------------------------------------------------------------
(* A task: _process_hybrid_cloud_foreign_key_cascade. *)

\* A worker is done with the rows of its batch.
Forget(w) ==
    /\ seen' = [seen EXCEPT ![w] = {}]
    /\ ids' = [ids EXCEPT ![w] = {}]
    /\ moved' = [moved EXCEPT ![w] = {}]
    /\ UNCHANGED <<late, strayed>>

\* A worker goes to step p of pass k with nothing in its variables.
Restart(w, p, k) ==
    /\ pc' = [pc EXCEPT ![w] = p]
    /\ kind' = [kind EXCEPT ![w] = k]
    /\ low' = [low EXCEPT ![w] = 0]
    /\ up' = [up EXCEPT ![w] = 0]
    /\ more' = [more EXCEPT ![w] = FALSE]
    /\ Forget(w)

\* A pass ends.  The tombstones' turn comes only when there are no more rows;
\* otherwise, or if there are more tombstones, the task starts another one.
EndPass(w, hasMore) ==
    IF kind[w] = "row" /\ ~hasMore
    THEN Restart(w, "mark", "tombstone")
    ELSE Restart(w, "idle", "row")

\* get_watermark, with which a task and each pass begins, reads the watermark ...
ReadMark(w) ==
    /\ pc[w] \in {"idle", "mark"}
    /\ IF mark[kind[w]] = Missing
       THEN pc' = [pc EXCEPT ![w] = "init"] /\ low' = low
       ELSE pc' = [pc EXCEPT ![w] = "bounds"] /\ low' = [low EXCEPT ![w] = mark[kind[w]]]
    /\ UNCHANGED <<setup, tables, mark, kind, up, more, found, history, faults>>

\* ... and, if there was none, writes one over whatever is there by now.
InitMark(w) ==
    /\ pc[w] = "init"
    /\ mark' = [mark EXCEPT ![kind[w]] = 0]
    /\ pc' = [pc EXCEPT ![w] = "bounds"]
    /\ UNCHANGED <<setup, tables, kind, batch, found, history, faults>>

Existing(k) == IF k = "row" THEN Rows ELSE Tombstones

\* Mutant: an empty table has no first id to start before.
Lowest_OfEmpty(all) == IF all = {} THEN -1 ELSE Min(all) - 1

\* Before the first id, where a new watermark starts.
Lowest(all) == IF all = {} THEN 0 ELSE Min(all) - 1

\* _chunk_watermark_batch: Min and Max of the ids.
Bounds(w) ==
    LET all == Existing(kind[w])
        upper == IF all = {} THEN 0 ELSE Max(all)
        lower == IF low[w] = 0 THEN Lowest(all) ELSE low[w]
        end == Min({upper, lower + BatchSize})
    IN  /\ pc[w] = "bounds"
        /\ IF lower < end
           THEN /\ pc' = [pc EXCEPT ![w] = "query"]
                /\ low' = [low EXCEPT ![w] = lower]
                /\ up' = [up EXCEPT ![w] = end]
                /\ more' = [more EXCEPT ![w] = end < upper]
                /\ UNCHANGED <<kind, found, history>>
           ELSE EndPass(w, end < upper)
        /\ UNCHANGED <<setup, tables, mark, faults>>

\* Mutant: the lower bound is inclusive, the upper one exclusive.
InBatch_HalfOpen(w, i) == low[w] <= i /\ i < up[w]

InBatch(w, i) == low[w] < i /\ i <= up[w]

RowsInBatch(w) == {r \in Rows : kind[w] = "row" => InBatch(w, r)}
TombstonesInBatch(w) == {t \in Tombstones : kind[w] = "tombstone" => InBatch(w, t)}

\* _get_model_ids_for_tombstone_cascade: one query joins the tables.
Join(w) ==
    /\ pc[w] = "query" /\ ~crossDb
    /\ ids' = [ids EXCEPT ![w] =
                 {r \in RowsInBatch(w) : \E t \in TombstonesInBatch(w) : row[r] = tomb[t]}]
    /\ pc' = [pc EXCEPT ![w] = "apply"]
    /\ UNCHANGED <<setup, tables, mark, kind, batch, seen, history, faults>>

\* With two databases the task fails when allow_cross_db_tombstones is off, as
\* the option may be at any time ...
Refuse(w) ==
    /\ faults < MaxFaults
    /\ pc[w] = "query" /\ crossDb
    /\ Restart(w, "idle", "row")
    /\ faults' = faults + 1
    /\ UNCHANGED <<setup, tables, mark>>

\* ... and otherwise reads the batch first, rows with their objects or the objects
\* of tombstones ...
QueryBatch(w) ==
    /\ pc[w] = "query" /\ crossDb
    /\ seen' = [seen EXCEPT ![w] =
                  IF kind[w] = "row" THEN {<<r, row[r]>> : r \in RowsInBatch(w)}
                                     ELSE {tomb[t] : t \in TombstonesInBatch(w)}]
    /\ pc' = [pc EXCEPT ![w] = "match"]
    /\ UNCHANGED <<setup, tables, mark, kind, batch, ids, history, faults>>

\* ... and then matched with what is in the other database.
Match(w) ==
    /\ pc[w] = "match"
    /\ ids' = [ids EXCEPT ![w] =
                 IF kind[w] = "row"
                 THEN {r \in RowId : \E t \in Tombstones : <<r, tomb[t]>> \in seen[w]}
                 ELSE {r \in Rows : row[r] \in seen[w]}]
    /\ seen' = [seen EXCEPT ![w] = {}]
    /\ pc' = [pc EXCEPT ![w] = "apply"]
    /\ UNCHANGED <<setup, tables, mark, kind, batch, history, faults>>

\* Mutant: the watermark moves although rows may be left.
ChunkDone_Always(w) == TRUE

\* ModelDeletionTask.chunk found no rows: it has more to do after any others.
ChunkDone(w) == ids[w] \cap Rows = {}

\* CASCADE deletes a chunk of the rows that were found.
DeleteChunk(w) ==
    LET rows == ids[w] \cap Rows IN
    /\ pc[w] = "apply" /\ onDelete = "CASCADE"
    /\ \E gone \in SUBSET rows :
          /\ Cardinality(gone) = Min({ChunkSize, Cardinality(rows)})
          /\ row' = [r \in RowId |-> IF r \in gone THEN Absent ELSE row[r]]
    /\ IF ChunkDone(w)
       THEN pc' = [pc EXCEPT ![w] = "save"] /\ Forget(w) /\ UNCHANGED <<kind, batch>>
       ELSE EndPass(w, TRUE)
    /\ UNCHANGED <<setup, alive, tomb, rowIds, mark, faults>>

\* SET_NULL updates them at once, DO_NOTHING leaves them.
Update(w) ==
    /\ pc[w] = "apply" /\ onDelete # "CASCADE"
    /\ row' = IF onDelete = "DO_NOTHING" THEN row
              ELSE [r \in RowId |-> IF r \in ids[w] \cap Rows THEN Null ELSE row[r]]
    /\ pc' = [pc EXCEPT ![w] = "save"]
    /\ Forget(w)
    /\ UNCHANGED <<setup, alive, tomb, rowIds, mark, kind, batch, faults>>

\* set_watermark, which does not look at the present value.
SaveMark(w) ==
    /\ pc[w] = "save"
    /\ mark' = [mark EXCEPT ![kind[w]] = up[w]]
    /\ EndPass(w, more[w])
    /\ UNCHANGED <<setup, tables, faults>>

\* A task dies or an exception ends it.
Die(w) ==
    /\ faults < MaxFaults
    /\ pc[w] # "idle"
    /\ Restart(w, "idle", "row")
    /\ faults' = faults + 1
    /\ UNCHANGED <<setup, tables, mark>>

Run(w) ==
    \/ ReadMark(w) \/ InitMark(w) \/ Bounds(w)
    \/ Join(w) \/ QueryBatch(w) \/ Match(w) \/ DeleteChunk(w) \/ Update(w) \/ SaveMark(w)

Next ==
    \/ \E r \in RowId : (\E o \in Object : InsertRow(r, o)) \/ \E o \in Object \cup {Null} : MoveRow(r, o)
    \/ \E o \in Object : DeleteObject(o) \/ \E t \in TombstoneId : RecordTombstone(t, o)
    \/ \E w \in Worker : Run(w) \/ Refuse(w) \/ Die(w)

Spec == Init /\ [][Next]_vars

\* Cron keeps starting tasks, and a task that does not fail goes on.
FairSpec == Spec /\ \A w \in Worker : WF_vars(Run(w))

-----------------------------------------------------------------------------
(* Properties *)

\* A row of a deleted object and a tombstone that says so.  Neither became
\* visible after one with a higher id, and the row was not given the object
\* when both passes were done with it: the code may overlook such rows.
Orphan(r, t) ==
    /\ row[r] \in Object
    /\ row[r] = tomb[t]
    /\ r \notin late["row"] /\ t \notin late["tombstone"]
    /\ <<r, t>> \notin strayed

\* An orphan is still ahead of one of the watermarks, whatever tasks overlap,
\* die or write the watermarks late: no tombstone passes a row unnoticed.
NoOrphanSkipped ==
    onDelete # "DO_NOTHING" =>
        \A r \in RowId, t \in TombstoneId :
            Orphan(r, t) => mark["row"] < r \/ mark["tombstone"] < t

\* A task takes a row from a living object, or one without an object, only if
\* the application moved the row after this task had found it: rows are taken
\* by the ids of an earlier query, which the code does not check again.
LivingKeepTheirRows ==
    [][\A r \in RowId :
          pc' # pc /\ row[r] \in alive \cup {Null} /\ row'[r] # row[r] =>
              \E w \in Worker : pc'[w] # pc[w] /\ r \in moved[w]]_vars

\* Once no rows and tombstones come any more (their ids are bounded), tasks stop
\* dying and the option stops refusing them, every orphan goes or loses its
\* foreign key.
OrphansGo ==
    onDelete # "DO_NOTHING" => []<>(\A r \in RowId, t \in TombstoneId : ~Orphan(r, t))
=============================================================================
