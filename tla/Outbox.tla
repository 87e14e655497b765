------------------------------- MODULE Outbox -------------------------------
(***************************************************************************)
(* The hybrid cloud outbox of src/src/sentry/hybridcloud.  A model row in  *)
(* one silo is changed in a transaction that also inserts an outbox row;   *)
(* drains, run by celery tasks and by the request that committed the       *)
(* change, coalesce the outbox rows of an object, hand the latest one to   *)
(* the signal receiver (which replicates the object's current state to the *)
(* other silo) and delete the rows they stand for.                         *)
(*                                                                         *)
(* The database is PostgreSQL at READ COMMITTED: every statement sees the  *)
(* rows committed when it starts, ids come from a sequence when a row is   *)
(* inserted, a row becomes visible when its transaction commits, and a row *)
(* that a transaction locked or deleted blocks the others until it ends.   *)
(***************************************************************************)
EXTENDS Integers, FiniteSets

CONSTANTS
    Object,          \* coalescing keys: shard, category and object_identifier
    Shard,           \* sharding keys: (region_name,) shard_scope, shard_identifier
    ShardOf,         \* the shard of each object
    Request,         \* threads that change models and may flush on commit
    Worker,          \* celery workers running drain_outbox_shards
    Kinds,           \* the model operations in use: "save", "bulk_update", "delete"
    OptionMayChange, \* may the disabled_*_shards options change at run time?
    BatchSize,       \* rows fetched per deletion batch (100 in the code)
    MaxId,           \* bound on outbox ids, for TLC
    Poison,          \* objects whose receiver may fail for ever
    None             \* no object, no shard

ASSUME ShardOfAssumption == ShardOf \in [Object -> Shard]
ASSUME ThreadAssumption == Request \cap Worker = {}
ASSUME KindsAssumption == Kinds \subseteq {"save", "bulk_update", "delete"}
ASSUME BoundsAssumption == BatchSize \in Nat \ {0} /\ MaxId \in Nat
ASSUME PoisonAssumption == Poison \subseteq Object
ASSUME NoneAssumption == None \notin Object /\ None \notin Shard

VARIABLES
    src,       \* committed version of each object in this silo
    gone,      \* objects whose row has been deleted
    replica,   \* version of each object last replicated to the other silo
    outbox,    \* committed outbox rows
    nextId,    \* the outbox table's id sequence
    txn,       \* the open model transaction of each request
    disabled,  \* shards listed in the disabled_*_shards options
    sent,      \* history: id last handed to the receiver, per object
    mine       \* history: the last change each request committed

VARIABLES
    pc,        \* where each thread stands in drain_shard and what it calls
    shard,     \* the shard it drains
    latest,    \* the id of latest_shard_row, 0 with flush_all
    snap,      \* the ids a blocked SELECT ... FOR UPDATE goes through
    row,       \* the id of the row process_shard locked, 0 if none
    obj,       \* that row's object
    top,       \* the id of the coalesced row
    read,      \* the version of the object the receiver loaded
    doomed,    \* ids its open transaction has deleted
    final      \* the coalesced row's id once it is decided that it goes too, or none

produced == <<src, gone, nextId, txn, disabled, mine>>
group == <<row, obj, top, read, doomed, final>>
vars == <<produced, replica, outbox, sent, pc, shard, latest, snap, group>>

Thread == Request \cup Worker
Id == Nat \ {0}

\* ver is history: the version of the object the row was inserted with.
Row == [id : Id, obj : Object, ver : Nat]

Txn == [stage : {"none", "written", "queued", "both"}, kind : {"save", "bulk_update", "delete"},
        obj : Object \cup {None}, id : Nat]
NoTxn == [stage |-> "none", kind |-> "save", obj |-> None, id |-> 0]

\* The stages inside process_shard's transaction, with a row locked.  After the
\* yield process_coalesced deletes in a loop, asks should_skip_shard again and
\* commits; in "skip", "skipped" and "pass" process() saw should_skip_shard() and
\* will return False.
Holding ==
    {"locked", "signal", "apply", "delete", "deleted", "commit", "skip", "skipped", "pass"}

TypeOK ==
    /\ src \in [Object -> Nat]
    /\ gone \in SUBSET Object
    /\ replica \in [Object -> Nat]
    /\ outbox \in SUBSET Row
    /\ nextId \in Id
    /\ txn \in [Request -> Txn]
    /\ disabled \in SUBSET Shard
    /\ sent \in [Object -> Nat]
    /\ mine \in [Request -> [obj : Object \cup {None}, ver : Nat]]
    /\ pc \in [Thread -> {"idle", "flush", "loop", "wait", "done"} \cup Holding]
    /\ shard \in [Thread -> Shard \cup {None}]
    /\ latest \in [Thread -> Nat]
    /\ snap \in [Thread -> SUBSET Id]
    /\ row \in [Thread -> Nat]
    /\ obj \in [Thread -> Object \cup {None}]
    /\ top \in [Thread -> Nat]
    /\ read \in [Thread -> Nat]
    /\ doomed \in [Thread -> SUBSET Id]
    /\ final \in [Thread -> SUBSET Nat]

-----------------------------------------------------------------------------
(* Rows and locks. *)

\* selected_messages_in_shard: the committed rows of shard s.
InShard(s) == {r \in outbox : ShardOf[r.obj] = s}

\* select_coalesced_messages: the committed rows of object o.
Group(o) == {r \in outbox : r.obj = o}

Ids(rows) == {r.id : r \in rows}
First(r, rows) == r \in rows /\ \A x \in rows : r.id <= x.id
Last(r, rows) == r \in rows /\ \A x \in rows : x.id <= r.id

\* Mutant: process_shard without select_for_update.
LockedByOther_DeletesOnly(t, id) ==
    \E u \in Thread \ {t} : pc[u] \in Holding /\ id \in doomed[u]

\* A row that another thread's open transaction has locked or deleted.
LockedByOther(t, id) ==
    \E u \in Thread \ {t} :
        /\ pc[u] \in Holding
        /\ id = row[u] \/ id \in doomed[u]

\* The lock an UPDATE or DELETE of a model row takes until its transaction ends.
SourceLocked(o) ==
    \E p \in Request : txn[p].stage \in {"written", "both"} /\ txn[p].obj = o

Init ==
    /\ src = [o \in Object |-> 0]
    /\ gone = {}
    /\ replica = [o \in Object |-> 0]
    /\ outbox = {}
    /\ nextId = 1
    /\ txn = [p \in Request |-> NoTxn]
    /\ disabled \in SUBSET Shard
    /\ sent = [o \in Object |-> 0]
    /\ mine = [p \in Request |-> [obj |-> None, ver |-> 0]]
    /\ pc = [t \in Thread |-> "idle"]
    /\ shard = [t \in Thread |-> None]
    /\ latest = [t \in Thread |-> 0]
    /\ snap = [t \in Thread |-> {}]
    /\ row = [t \in Thread |-> 0]
    /\ obj = [t \in Thread |-> None]
    /\ top = [t \in Thread |-> 0]
    /\ read = [t \in Thread |-> 0]
    /\ doomed = [t \in Thread |-> {}]
    /\ final = [t \in Thread |-> {}]

-----------------------------------------------------------------------------
(* Producing: RegionOutboxProducingModel and ControlOutboxProducingModel.  *)

NoDrain == UNCHANGED <<replica, sent, pc, shard, latest, snap, group>>

Free(p) == txn[p].stage = "none" /\ pc[p] = "idle"

\* save() and update(): super().save() runs first and locks the model row ...
SaveModel(p, o) ==
    /\ "save" \in Kinds
    /\ Free(p)
    /\ o \notin gone
    /\ ~SourceLocked(o)
    /\ txn' = [txn EXCEPT ![p] =
                 [stage |-> "written", kind |-> "save", obj |-> o, id |-> 0]]
    /\ NoDrain /\ UNCHANGED <<src, gone, outbox, nextId, disabled, mine>>

\* ... then outbox_for_update().save() takes the outbox id.
SaveOutbox(p) ==
    /\ txn[p].stage = "written"
    /\ nextId <= MaxId
    /\ nextId' = nextId + 1
    /\ txn' = [txn EXCEPT ![p] =
                 [stage |-> "both", kind |-> "save", obj |-> txn[p].obj, id |-> nextId]]
    /\ NoDrain /\ UNCHANGED <<src, gone, outbox, disabled, mine>>

\* delete() with outbox_before_super, and the manager's bulk_update() and
\* bulk_delete(), insert the outbox row first ...
QueueFirst(p, o, k) ==
    /\ k \in Kinds \ {"save"}
    /\ Free(p)
    /\ o \notin gone
    /\ nextId <= MaxId
    /\ nextId' = nextId + 1
    /\ txn' = [txn EXCEPT ![p] =
                 [stage |-> "queued", kind |-> k, obj |-> o, id |-> nextId]]
    /\ NoDrain /\ UNCHANGED <<src, gone, outbox, disabled, mine>>

\* ... and super() then waits for the model row.
LockModel(p) ==
    /\ txn[p].stage = "queued"
    /\ ~SourceLocked(txn[p].obj)
    /\ txn' = [txn EXCEPT ![p].stage = "both"]
    /\ NoDrain /\ UNCHANGED <<src, gone, outbox, nextId, disabled, mine>>

\* The transaction commits; with flushing enabled on_commit runs drain_shard.
\* A statement that finds the row gone changes nothing but its outbox row stays.
CommitModel(p, flush) ==
    LET o == txn[p].obj
        v == IF o \in gone THEN src[o] ELSE src[o] + 1
    IN  /\ txn[p].stage = "both"
        /\ src' = [src EXCEPT ![o] = v]
        /\ gone' = IF txn[p].kind = "delete" THEN gone \cup {o} ELSE gone
        /\ outbox' = outbox \cup {[id |-> txn[p].id, obj |-> o, ver |-> v]}
        /\ txn' = [txn EXCEPT ![p] = NoTxn]
        /\ mine' = [mine EXCEPT ![p] = [obj |-> o, ver |-> v]]
        /\ flush => txn[p].kind # "bulk_update"
        /\ pc' = IF flush THEN [pc EXCEPT ![p] = "flush"] ELSE pc
        /\ shard' = IF flush THEN [shard EXCEPT ![p] = ShardOf[o]] ELSE shard
        /\ UNCHANGED <<replica, nextId, disabled, sent, latest, snap, group>>

RollbackModel(p) ==
    /\ txn[p].stage # "none"
    /\ txn' = [txn EXCEPT ![p] = NoTxn]
    /\ NoDrain /\ UNCHANGED <<src, gone, outbox, nextId, disabled, mine>>

-----------------------------------------------------------------------------
(* Draining.  What a drain step leaves alone unless it says otherwise.      *)
Quiet == UNCHANGED <<produced, outbox, replica, sent>>

\* process_shard's transaction is over.
Release(t) ==
    /\ row' = [row EXCEPT ![t] = 0]
    /\ obj' = [obj EXCEPT ![t] = None]
    /\ top' = [top EXCEPT ![t] = 0]
    /\ read' = [read EXCEPT ![t] = 0]
    /\ doomed' = [doomed EXCEPT ![t] = {}]
    /\ final' = [final EXCEPT ![t] = {}]

\* Mutant: batches up to the highest id and not including it.
StartTask_OffByOne(t, s) ==
    /\ pc[t] = "idle"
    /\ \E r \in InShard(s), x \in outbox : r.id < x.id
    /\ \A r \in InShard(s) : ~LockedByOther(t, r.id)
    /\ pc' = [pc EXCEPT ![t] = "loop"]
    /\ shard' = [shard EXCEPT ![t] = s]
    /\ Quiet /\ UNCHANGED <<latest, snap, group>>

\* process_outbox_batch: find_scheduled_shards names a shard that is due and
\* prepare_next_from_shard locks its first row, nowait, and reschedules every
\* row of the shard (which waits for any of them another drain holds); if the
\* first row is locked the shard is passed over.  Here any shard with rows may
\* be due.
StartTask(t, s) ==
    /\ pc[t] = "idle"
    /\ InShard(s) # {}
    /\ \A r \in InShard(s) : ~LockedByOther(t, r.id)
    /\ pc' = [pc EXCEPT ![t] = "loop"]
    /\ shard' = [shard EXCEPT ![t] = s]
    /\ Quiet /\ UNCHANGED <<latest, snap, group>>

\* drain_shard() without flush_all notes the last row of the shard, if any.
StartFlush(t) ==
    /\ pc[t] = "flush"
    /\ \/ /\ InShard(shard[t]) = {}
          /\ pc' = [pc EXCEPT ![t] = "done"]
          /\ UNCHANGED latest
       \/ \E r \in InShard(shard[t]) :
             /\ Last(r, InShard(shard[t]))
             /\ pc' = [pc EXCEPT ![t] = "loop"]
             /\ latest' = [latest EXCEPT ![t] = r.id]
    /\ Quiet /\ UNCHANGED <<shard, snap, group>>

\* The rows process_shard selects from.
Candidates(t) == {r \in InShard(shard[t]) : latest[t] = 0 \/ r.id <= latest[t]}

\* Mutant: nowait for synchronous flushes too.
EndDrain_NeverWaits(t) ==
    /\ pc[t] = "loop"
    /\ \/ Candidates(t) = {}
       \/ \E r \in Candidates(t) : First(r, Candidates(t)) /\ LockedByOther(t, r.id)
    /\ pc' = [pc EXCEPT ![t] = "done"]
    /\ Quiet /\ UNCHANGED <<shard, latest, snap, group>>

\* process_shard found no row, or, with nowait, one that is locked: the loop ends.
EndDrain(t) ==
    /\ pc[t] = "loop"
    /\ \/ Candidates(t) = {}
       \/ /\ latest[t] = 0
          /\ \E r \in Candidates(t) : First(r, Candidates(t)) /\ LockedByOther(t, r.id)
    /\ pc' = [pc EXCEPT ![t] = "done"]
    /\ Quiet /\ UNCHANGED <<shard, latest, snap, group>>

\* process_shard locks the first row.
LockRow(t) ==
    /\ pc[t] = "loop"
    /\ \E r \in Candidates(t) :
          /\ First(r, Candidates(t))
          /\ ~LockedByOther(t, r.id)
          /\ row' = [row EXCEPT ![t] = r.id]
          /\ obj' = [obj EXCEPT ![t] = r.obj]
    /\ pc' = [pc EXCEPT ![t] = "locked"]
    /\ Quiet /\ UNCHANGED <<shard, latest, snap, top, read, doomed, final>>

\* A synchronous flush does not use nowait: it blocks on the first row, with
\* the rows it selected as its snapshot.
BlockOnRow(t) ==
    /\ pc[t] = "loop"
    /\ latest[t] # 0
    /\ \E r \in Candidates(t) : First(r, Candidates(t)) /\ LockedByOther(t, r.id)
    /\ pc' = [pc EXCEPT ![t] = "wait"]
    /\ snap' = [snap EXCEPT ![t] = Ids(Candidates(t))]
    /\ Quiet /\ UNCHANGED <<shard, latest, group>>

\* When the lock is released the statement moves on to the first row of its
\* snapshot that still exists; it returns none if all of them were deleted.
Alive(t) == {r \in outbox : r.id \in snap[t]}

WakeUp(t) ==
    /\ pc[t] = "wait"
    /\ \/ /\ Alive(t) = {}
          /\ pc' = [pc EXCEPT ![t] = "done"]
          /\ UNCHANGED <<row, obj>>
       \/ \E r \in Alive(t) :
             /\ First(r, Alive(t))
             /\ ~LockedByOther(t, r.id)
             /\ pc' = [pc EXCEPT ![t] = "locked"]
             /\ row' = [row EXCEPT ![t] = r.id]
             /\ obj' = [obj EXCEPT ![t] = r.obj]
    /\ snap' = [snap EXCEPT ![t] = {}]
    /\ Quiet /\ UNCHANGED <<shard, latest, top, read, doomed, final>>

\* process_coalesced picks the last row of the object, and process() asks
\* should_skip_shard for the first time.
Coalesce(t) ==
    /\ pc[t] = "locked"
    /\ \E r \in Group(obj[t]) :
          /\ Last(r, Group(obj[t]))
          /\ top' = [top EXCEPT ![t] = r.id]
    /\ pc' = [pc EXCEPT ![t] = IF shard[t] \in disabled THEN "skip" ELSE "signal"]
    /\ Quiet /\ UNCHANGED <<shard, latest, snap, row, obj, read, doomed, final>>

\* send_signal: the receiver loads the object (maybe_process_tombstone) ...
ReadSource(t) ==
    /\ pc[t] = "signal"
    /\ pc' = [pc EXCEPT ![t] = "apply"]
    /\ read' = [read EXCEPT ![t] = src[obj[t]]]
    /\ Quiet /\ UNCHANGED <<shard, latest, snap, row, obj, top, doomed, final>>

\* ... and replicates what it read (handle_async_replication, or the tombstone
\* and handle_async_deletion) by a call to the other silo.
ApplyRemote(t) ==
    /\ pc[t] = "apply"
    /\ pc' = [pc EXCEPT ![t] = "delete"]
    /\ replica' = [replica EXCEPT ![obj[t]] = read[t]]
    /\ sent' = [sent EXCEPT ![obj[t]] = top[t]]
    /\ UNCHANGED <<produced, outbox, shard, latest, snap, group>>

\* One fetch of the deletion loop: at most BatchSize rows of the object, in no
\* particular order, among those this transaction still sees.
Fetched(t, batch) ==
    LET visible == Ids(Group(obj[t])) \ doomed[t]
    IN  /\ batch \subseteq visible
        /\ \/ batch = visible /\ Cardinality(visible) <= BatchSize
           \/ Cardinality(batch) = BatchSize

\* Mutants: the loop deletes every row of the object, or none but the last.
Older_WholeGroup(t, batch) == batch
Older_None(t, batch) == {}

\* The ids the loop deletes out of a batch.
Older(t, batch) == {i \in batch : i < top[t]}

DeleteBatch(t) ==
    /\ pc[t] \in {"delete", "skip"}
    /\ \E batch \in SUBSET Ids(Group(obj[t])) :
          /\ Fetched(t, batch)
          /\ Older(t, batch) # {}
          /\ \A i \in Older(t, batch) : ~LockedByOther(t, i)
          /\ doomed' = [doomed EXCEPT ![t] = @ \cup Older(t, batch)]
    /\ Quiet /\ UNCHANGED <<pc, shard, latest, snap, row, obj, top, read, final>>

\* The loop ends with a batch that holds nothing older.
EndLoop(t) ==
    /\ pc[t] \in {"delete", "skip"}
    /\ \E batch \in SUBSET Ids(Group(obj[t])) :
          Fetched(t, batch) /\ Older(t, batch) = {}
    /\ pc' = [pc EXCEPT ![t] = IF pc[t] = "skip" THEN "skipped" ELSE "deleted"]
    /\ Quiet /\ UNCHANGED <<shard, latest, snap, group>>

\* Mutant: the object's newest row is deleted, not the one that was processed.
LastDeleted_Newest(t) ==
    {r.id : r \in {x \in Group(obj[t]) : Last(x, Group(obj[t]))}}

\* The coalesced row is deleted unless its shard is disabled.
LastDeleted(t) == IF shard[t] \in disabled THEN {} ELSE {top[t]}

\* process_coalesced asks should_skip_shard for the second time.
AskAgain(t) ==
    /\ pc[t] \in {"deleted", "skipped"}
    /\ pc' = [pc EXCEPT ![t] = IF pc[t] = "skipped" THEN "pass" ELSE "commit"]
    /\ final' = [final EXCEPT ![t] = LastDeleted(t)]
    /\ Quiet /\ UNCHANGED <<shard, latest, snap, row, obj, top, read, doomed>>

\* The coalesced row is deleted, if that was the answer, and process_shard's
\* transaction commits.  drain_shard goes on with the next row if process()
\* returned True.
FinishGroup(t) ==
    /\ pc[t] \in {"commit", "pass"}
    /\ \A i \in final[t] : ~LockedByOther(t, i)
    /\ outbox' = {r \in outbox : r.id \notin doomed[t] \cup final[t]}
    /\ pc' = [pc EXCEPT ![t] = IF pc[t] = "pass" THEN "done" ELSE "loop"]
    /\ Release(t)
    /\ UNCHANGED <<produced, replica, sent, shard, latest, snap>>

\* The receiver raises (OutboxFlushError), the database aborts the transaction
\* or the process dies: the transaction rolls back and the drain is over.
Abort(t) ==
    /\ pc[t] \notin {"idle", "done"}
    /\ pc' = [pc EXCEPT ![t] = "idle"]
    /\ shard' = [shard EXCEPT ![t] = None]
    /\ latest' = [latest EXCEPT ![t] = 0]
    /\ snap' = [snap EXCEPT ![t] = {}]
    /\ Release(t)
    /\ Quiet

Return(t) ==
    /\ pc[t] = "done"
    /\ pc' = [pc EXCEPT ![t] = "idle"]
    /\ shard' = [shard EXCEPT ![t] = None]
    /\ latest' = [latest EXCEPT ![t] = 0]
    /\ Quiet /\ UNCHANGED <<snap, group>>

\* An operator edits hybrid_cloud.authentication.disabled_*_shards.
SetOption(s) ==
    /\ OptionMayChange
    /\ disabled' = IF s \in disabled THEN disabled \ {s} ELSE disabled \cup {s}
    /\ NoDrain /\ UNCHANGED <<src, gone, outbox, nextId, txn, mine>>

-----------------------------------------------------------------------------
Produce(p) ==
    \/ \E o \in Object : SaveModel(p, o) \/ \E k \in Kinds : QueueFirst(p, o, k)
    \/ SaveOutbox(p)
    \/ LockModel(p)
    \/ \E flush \in BOOLEAN : CommitModel(p, flush)
    \/ RollbackModel(p)

\* What a drain does when nothing goes wrong.
Progress(t) ==
    \/ StartFlush(t) \/ EndDrain(t) \/ LockRow(t) \/ BlockOnRow(t) \/ WakeUp(t)
    \/ Coalesce(t) \/ ReadSource(t) \/ ApplyRemote(t)
    \/ DeleteBatch(t) \/ EndLoop(t) \/ AskAgain(t) \/ FinishGroup(t) \/ Return(t)

Next ==
    \/ \E p \in Request : Produce(p)
    \/ \E t \in Worker, s \in Shard : StartTask(t, s)
    \/ \E t \in Thread : Progress(t) \/ Abort(t)
    \/ \E s \in Shard : SetOption(s)

Spec == Init /\ [][Next]_vars

(* Fairness.  celery beat runs enqueue_outbox_jobs every minute and its     *)
(* batches cover every id, so a worker is given each due shard again and    *)
(* again; threads do not hang inside a drain; and a receiver that is called *)
(* again and again does not fail for ever, unless the object is in Poison.  *)
Fairness ==
    /\ \A t \in Thread : WF_vars(Progress(t))
    /\ \A t \in Worker, s \in Shard :
          /\ SF_vars(StartTask(t, s))
          /\ SF_vars(shard[t] = s /\ LockRow(t))
    /\ \A t \in Worker, o \in Object \ Poison :
          /\ SF_vars(obj[t] = o /\ Coalesce(t))
          /\ SF_vars(obj[t] = o /\ ReadSource(t))
          /\ SF_vars(obj[t] = o /\ ApplyRemote(t))
          /\ SF_vars(obj[t] = o /\ DeleteBatch(t))
          /\ SF_vars(obj[t] = o /\ EndLoop(t))
          /\ SF_vars(obj[t] = o /\ AskAgain(t))
          /\ SF_vars(obj[t] = o /\ FinishGroup(t))

FairSpec == Spec /\ Fairness
-----------------------------------------------------------------------------
(* Safety. *)

\* No change is forgotten: while an object's last committed change has not
\* reached the other silo, an outbox row of the object is there to retry it
\* ("proof of failure by remaining", prepare_next_from_shard).
NoLostUpdate == \A o \in Object : replica[o] # src[o] => Group(o) # {}

\* The same for the changes made by save() and update(), even while other
\* requests delete objects: the model row's lock orders their outbox ids.
NoLostSave ==
    \A o \in Object \ gone : replica[o] # src[o] => Group(o) # {}

\* Two drains never process the same object at once, although each of them
\* locks a single row and that row need not be the one it coalesces to.
OneDrainPerObject ==
    \A t, u \in Thread :
        /\ pc[t] \in Holding
        /\ pc[u] \in Holding
        /\ obj[t] = obj[u]
        => t = u

\* The request that flushed its change on commit finds it replicated when
\* drain_shard returns, whoever delivered it ("at best our logic depends on
\* previously created outboxes"), unless its shard is disabled.
FlushIsReplicated ==
    \A p \in Request :
        pc[p] = "done" /\ shard[p] \notin disabled
            => replica[mine[p].obj] >= mine[p].ver

\* The receiver of an object is never handed an older row than one it was
\* handed before: stale payloads stay behind ("only process the highest id
\* after the others have been batch processed", process_coalesced).
SentNeverRegresses == [][\A o \in Object : sent'[o] >= sent[o]]_vars

\* The newest row of an object stays in the table until what it stands for is
\* replicated, also while operators disable and enable its shard ("failures
\* during deletion could leave an old, staler outbox alive", process_coalesced).
\* A drain that found the shard disabled when process() asked and enabled when
\* process_coalesced asked again deletes a row that it never handed over: that
\* is what NoLostSave runs into when options change, and the only exception.
UnsentRowsStay ==
    [][\A r \in outbox :
          /\ r.obj \notin gone
          /\ Last(r, Group(r.obj))
          /\ replica[r.obj] < r.ver
          /\ \A t \in Thread : pc[t] = "pass" => r.id \notin final[t]
          => r \in outbox']_vars

\* The drains implement the abstract outbox, an object being pending while the
\* table holds a row for it; in particular a replica never goes backwards.
Abstract == INSTANCE OutboxSpec WITH pending <- [o \in Object |-> Group(o) # {}]
ImplementsAbstract == Abstract!Spec

(* Liveness. *)

\* Objects that the receiver can handle catch up with their source for ever,
\* in every shard that is enabled and holds no poison; a shard whose receiver
\* keeps failing holds up nobody else's.
EventuallyReplicated ==
    \A o \in Object :
        (\A x \in Poison : ShardOf[x] # ShardOf[o])
            => []<>(\/ ShardOf[o] \in disabled
                    \/ replica[o] = src[o] /\ Group(o) = {})
=============================================================================
