---------------------------- MODULE OutboxProofs ----------------------------
(***************************************************************************)
(* Theorems about Outbox.  The inductive invariant is stated for objects   *)
(* that no committed transaction has deleted: delete() takes its outbox id *)
(* before it locks the model row, so it alone can commit an outbox id that *)
(* is lower than one already committed for the same object.                *)
(***************************************************************************)
EXTENDS Outbox, FiniteSetTheorems, TLAPS

Numbered(p) == txn[p].stage \in {"queued", "both"}
SourceHeld(p) == txn[p].stage \in {"written", "both"}
Held(t) == pc[t] \in Holding
Coalesced(t) ==
    pc[t] \in {"signal", "apply", "delete", "deleted", "commit", "skip", "skipped", "pass"}

\* Ids come from a sequence: none is used twice, or used and still in a transaction.
FreshIds ==
    /\ \A r, x \in outbox : r.id = x.id => r = x
    /\ \A r \in outbox : r.id < nextId
    /\ \A p \in Request : Numbered(p) =>
          /\ txn[p].id \in Id
          /\ txn[p].id < nextId
          /\ \A r \in outbox : r.id # txn[p].id
          /\ \A q \in Request : Numbered(q) /\ txn[q].id = txn[p].id => q = p

\* The locals of the drains hold ids of rows that were committed.
SeenIds ==
    \A t \in Thread :
        LET seen == snap[t] \cup doomed[t] \cup {top[t]}
        IN  /\ \A i \in seen : i < nextId
            /\ \A p \in Request : Numbered(p) => txn[p].id \notin seen

\* The lock on a model row, and who may hold it.
SourceLocks ==
    /\ \A p \in Request : txn[p].stage # "none" => txn[p].obj \in Object
    /\ \A p, q \in Request :
          SourceHeld(p) /\ SourceHeld(q) /\ txn[p].obj = txn[q].obj => p = q

\* A request drains after its transaction, not during it.
DrainsAfterCommit == \A p \in Request : txn[p].stage # "none" => pc[p] = "idle"

\* Until an object is deleted its outbox ids grow with its versions.
VersionsInOrder ==
    /\ \A r \in outbox : r.ver <= src[r.obj]
    /\ \A r, x \in outbox :
          r.obj = x.obj /\ r.obj \notin gone /\ r.id < x.id => r.ver < x.ver
    /\ \A p \in Request :
          txn[p].stage = "both" /\ txn[p].kind = "save" =>
             /\ txn[p].obj \notin gone
             /\ \A r \in Group(txn[p].obj) : r.id < txn[p].id
    /\ \A p \in Request :
          txn[p].stage = "written" => txn[p].obj \notin gone /\ txn[p].kind = "save"
    /\ \A p \in Request : txn[p].kind \in {"save", "delete"}
    /\ \A p \in Request : txn[p].stage = "queued" => txn[p].kind = "delete"

\* The last version is replicated or its outbox row is still there.
LastVersionQueued ==
    \A o \in Object \ gone :
        replica[o] = src[o] \/ \E r \in Group(o) : r.ver = src[o]

\* Row locks: a drain's row exists, is nobody else's, and is its object's first.
RowLocks ==
    /\ \A t \in Thread : Held(t) =>
          /\ obj[t] \in Object
          /\ \E r \in outbox : r.id = row[t] /\ r.obj = obj[t]
          /\ obj[t] \notin gone =>
                \A r \in Group(obj[t]) : row[t] <= r.id
    /\ \A t, u \in Thread :
          Held(t) /\ Held(u) /\ t # u =>
             row[t] # row[u] /\ row[t] \notin doomed[u]

\* A blocked statement's snapshot holds all the earlier rows of its objects.
SnapshotsClosed ==
    \A t \in Thread :
        pc[t] = "wait" =>
            \A r, x \in outbox :
                /\ x.id \in snap[t]
                /\ r.obj = x.obj
                /\ x.obj \notin gone
                /\ r.id < x.id
                => r.id \in snap[t]

\* The coalesced row and the rows deleted are the object's.
CoalescedRows ==
    \A t \in Thread : Coalesced(t) =>
        /\ \A r \in outbox :
              r.id = top[t] \/ r.id \in doomed[t] => r.obj = obj[t]
        /\ \A i \in doomed[t] : i < top[t]
        /\ obj[t] \notin gone => \E r \in outbox : r.id = top[t]

\* What the receiver read is at least as new as the coalesced row.
ReadIsFresh ==
    /\ \A o \in Object : replica[o] <= src[o]
    /\ \A t \in Thread :
          pc[t] = "apply" =>
             /\ read[t] <= src[obj[t]]
             /\ obj[t] \notin gone => replica[obj[t]] <= read[t]
             /\ \A r \in outbox : r.id = top[t] => r.ver <= read[t]
    /\ \A t \in Thread :
          pc[t] \in {"delete", "deleted", "commit"} /\ obj[t] \notin gone =>
             \A r \in outbox : r.id = top[t] => r.ver <= replica[obj[t]]

\* Only the stages of process_shard's transaction carry deletions.
DoomedRows ==
    \A t \in Thread :
        /\ ~Coalesced(t) => doomed[t] = {}
        /\ final[t] # {} => pc[t] \in {"commit", "pass"} /\ final[t] = {top[t]}

\* A drain passes over an object only while its shard is disabled.
SkipsAreDisabled ==
    \A t \in Thread :
        pc[t] \in {"skip", "skipped", "pass"} => shard[t] \in disabled /\ final[t] = {}

\* What the rows, ids and locks satisfy whatever happens to the options.
RowInv ==
    /\ TypeOK
    /\ FreshIds
    /\ SeenIds
    /\ SourceLocks
    /\ DrainsAfterCommit
    /\ VersionsInOrder
    /\ RowLocks
    /\ SnapshotsClosed
    /\ CoalescedRows
    /\ ReadIsFresh
    /\ DoomedRows

\* What they satisfy besides while the disabled shards stay as they are.
IInv ==
    /\ RowInv
    /\ LastVersionQueued
    /\ SkipsAreDisabled
-----------------------------------------------------------------------------
LEMMA TypeStep ==
  ASSUME TypeOK, SourceLocks, FreshIds, RowLocks, [Next]_vars
  PROVE  TypeOK'
<1> USE DEF TypeOK, NoDrain, Quiet, produced, group, Holding, Release
<1>1. CASE UNCHANGED vars
  BY <1>1 DEF vars
<1>2. ASSUME NEW p \in Request, NEW o \in Object, SaveModel(p, o) PROVE TypeOK'
  BY <1>2 DEF SaveModel, Txn
<1>3. ASSUME NEW p \in Request, NEW o \in Object, NEW k \in Kinds, QueueFirst(p, o, k) PROVE TypeOK'
  BY <1>3, KindsAssumption DEF QueueFirst, Txn, Id
<1>4. ASSUME NEW p \in Request, SaveOutbox(p) PROVE TypeOK'
  <2>1. [stage |-> "both", kind |-> "save", obj |-> txn[p].obj, id |-> nextId] \in Txn
    BY DEF Txn, Id
  <2> QED
    BY <1>4, <2>1 DEF SaveOutbox, Id
<1>5. ASSUME NEW p \in Request, LockModel(p) PROVE TypeOK'
  <2> DEFINE x == txn[p]
  <2>0. x \in Txn
    OBVIOUS
  <2>1. [x EXCEPT !.stage = "both"] \in Txn
    <3> HIDE DEF x
    <3> QED BY <2>0 DEF Txn
  <2> QED
    BY <1>5, <2>1 DEF LockModel
<1>6. ASSUME NEW p \in Request, NEW flush \in BOOLEAN, CommitModel(p, flush) PROVE TypeOK'
  <2>1. PICK o \in Object : o = txn[p].obj
    BY <1>6 DEF CommitModel, SourceLocks
  <2>2. PICK v \in Nat : v = IF o \in gone THEN src[o] ELSE src[o] + 1
    OBVIOUS
  <2>3. txn[p].id \in Id
    BY <1>6 DEF CommitModel, FreshIds, Numbered
  <2>4. outbox' \in SUBSET Row
    BY <1>6, <2>1, <2>2, <2>3 DEF CommitModel, Row
  <2> QED
    BY <1>6, <2>1, <2>2, <2>4, ShardOfAssumption DEF CommitModel, Thread, Txn, NoTxn
<1>7. ASSUME NEW p \in Request, RollbackModel(p) PROVE TypeOK'
  BY <1>7 DEF RollbackModel, Txn, NoTxn
<1>8. ASSUME NEW t \in Worker, NEW s \in Shard, StartTask(t, s) PROVE TypeOK'
  BY <1>8 DEF StartTask, Thread
<1>9. ASSUME NEW t \in Thread, StartFlush(t) PROVE TypeOK'
  BY <1>9 DEF StartFlush, InShard, Row, Id
<1>10. ASSUME NEW t \in Thread, EndDrain(t) PROVE TypeOK'
  BY <1>10 DEF EndDrain
<1>11. ASSUME NEW t \in Thread, LockRow(t) PROVE TypeOK'
  BY <1>11 DEF LockRow, Candidates, InShard, Row, Id
<1>12. ASSUME NEW t \in Thread, BlockOnRow(t) PROVE TypeOK'
  BY <1>12 DEF BlockOnRow, Candidates, InShard, Ids, Row, Id
<1>13. ASSUME NEW t \in Thread, WakeUp(t) PROVE TypeOK'
  BY <1>13 DEF WakeUp, Alive, Row, Id
<1>14. ASSUME NEW t \in Thread, Coalesce(t) PROVE TypeOK'
  BY <1>14 DEF Coalesce, Group, Row, Id
<1>15. ASSUME NEW t \in Thread, ReadSource(t) PROVE TypeOK'
  BY <1>15 DEF ReadSource, RowLocks, Held
<1>16. ASSUME NEW t \in Thread, ApplyRemote(t) PROVE TypeOK'
  BY <1>16 DEF ApplyRemote
<1>17. ASSUME NEW t \in Thread, DeleteBatch(t) PROVE TypeOK'
  BY <1>17 DEF DeleteBatch, Older, Ids, Group, Row, Id
<1>18. ASSUME NEW t \in Thread, FinishGroup(t) PROVE TypeOK'
  BY <1>18 DEF FinishGroup
<1>22. ASSUME NEW t \in Thread, EndLoop(t) PROVE TypeOK'
  BY <1>22 DEF EndLoop
<1>23. ASSUME NEW t \in Thread, AskAgain(t) PROVE TypeOK'
  BY <1>23 DEF AskAgain, LastDeleted
<1>19. ASSUME NEW t \in Thread, Abort(t) PROVE TypeOK'
  BY <1>19 DEF Abort
<1>20. ASSUME NEW t \in Thread, Return(t) PROVE TypeOK'
  BY <1>20 DEF Return
<1>21. ASSUME NEW s \in Shard, SetOption(s) PROVE TypeOK'
  BY <1>21 DEF SetOption
<1> QED
  BY <1>1, <1>2, <1>3, <1>4, <1>5, <1>6, <1>7, <1>8, <1>9, <1>10, <1>11, <1>12, <1>13,
     <1>14, <1>15, <1>16, <1>17, <1>18, <1>19, <1>20, <1>21, <1>22, <1>23 DEF Next, Produce, Progress

\* Off a deleted object, no two drains hold rows of the same object.
LEMMA OnePerObject ==
  ASSUME TypeOK, FreshIds, RowLocks,
         NEW t \in Thread, NEW u \in Thread, Held(t), Held(u),
         obj[t] = obj[u], obj[t] \notin gone
  PROVE  t = u
<1>1. PICK r \in outbox : r.id = row[t] /\ r.obj = obj[t]
  BY DEF RowLocks
<1>2. PICK x \in outbox : x.id = row[u] /\ x.obj = obj[t]
  BY DEF RowLocks
<1>3. row[t] <= row[u] /\ row[u] <= row[t]
  BY <1>1, <1>2 DEF RowLocks, Group
<1>4. row[t] \in Nat /\ row[u] \in Nat
  BY DEF TypeOK
<1>5. row[t] = row[u]
  BY <1>3, <1>4
<1> QED
  BY <1>5 DEF RowLocks

LEMMA RowsUnchanged ==
  ASSUME RowInv, UNCHANGED <<src, gone, replica, outbox, nextId, txn>>
  PROVE  FreshIds' /\ SourceLocks' /\ VersionsInOrder'
<1>1. FreshIds'
  BY DEF RowInv, FreshIds, Numbered
<1>2. SourceLocks'
  BY DEF RowInv, SourceLocks, SourceHeld
<1>3. VersionsInOrder'
  BY DEF RowInv, VersionsInOrder, Group
<1> QED
  BY <1>1, <1>2, <1>3

\* A drain moves without holding a row, before or after.
LEMMA MoveUnlocked ==
  ASSUME RowInv, TypeOK', NEW t \in Thread,
         UNCHANGED <<src, gone, replica, outbox, nextId, txn>>,
         \A u \in Thread \ {t} : /\ pc'[u] = pc[u] /\ shard'[u] = shard[u]
                                 /\ row'[u] = row[u] /\ obj'[u] = obj[u] /\ snap'[u] = snap[u]
                                 /\ top'[u] = top[u] /\ read'[u] = read[u] /\ doomed'[u] = doomed[u]
                                 /\ final'[u] = final[u],
         pc'[t] \in {"idle", "flush", "loop", "done"}, t \in Worker \/ pc[t] # "idle",
         doomed'[t] = {}, final'[t] = {}, snap'[t] \subseteq snap[t], top'[t] \in {0, top[t]}
  PROVE  RowInv'
<1>1. FreshIds' /\ SourceLocks' /\ VersionsInOrder'
  BY RowsUnchanged
<1>2. SeenIds'
  <2>1. 0 < nextId /\ \A p \in Request : Numbered(p) => txn[p].id # 0
    BY DEF RowInv, FreshIds, TypeOK, Id
  <2> QED
    BY <2>1 DEF RowInv, SeenIds, Numbered
<1>3. RowLocks'
  BY DEF RowInv, RowLocks, Held, Holding, Group
<1>4. SnapshotsClosed'
  BY DEF RowInv, SnapshotsClosed
<1>5. CoalescedRows'
  BY DEF RowInv, CoalescedRows, Coalesced
<1>6. ReadIsFresh'
  BY DEF RowInv, ReadIsFresh
<1>7. DoomedRows'
  BY DEF RowInv, DoomedRows, Coalesced
<1>8. DrainsAfterCommit'
  BY ThreadAssumption DEF RowInv, DrainsAfterCommit, Thread
<1> QED
  BY <1>1, <1>2, <1>3, <1>4, <1>5, <1>6, <1>7, <1>8 DEF RowInv

\* A drain locks the first row of an object.
LEMMA MoveToLocked ==
  ASSUME RowInv, TypeOK', NEW t \in Thread, NEW r \in outbox,
         UNCHANGED <<src, gone, replica, outbox, nextId, txn, top, read, doomed, final>>,
         \A u \in Thread \ {t} : /\ pc'[u] = pc[u] /\ row'[u] = row[u]
                                 /\ obj'[u] = obj[u] /\ snap'[u] = snap[u],
         pc[t] \in {"loop", "wait"}, pc'[t] = "locked",
         row'[t] = r.id, obj'[t] = r.obj, snap'[t] \subseteq snap[t],
         r.obj \notin gone => \A x \in Group(r.obj) : r.id <= x.id,
         ~LockedByOther(t, r.id)
  PROVE  RowInv'
<1>1. FreshIds' /\ SourceLocks' /\ VersionsInOrder'
  BY RowsUnchanged
<1>2. SeenIds'
  BY DEF RowInv, SeenIds, Numbered
<1>3. RowLocks'
  <2>1. doomed[t] = {}
    BY DEF RowInv, DoomedRows, Coalesced
  <2>2. \A u \in Thread \ {t} : Held(u) => row[u] # r.id /\ r.id \notin doomed[u]
    BY DEF LockedByOther, Held
  <2>3. r.obj \in Object
    BY DEF RowInv, TypeOK, Row
  <2>4. \A u \in Thread : Held(u)' => /\ obj'[u] \in Object
                                      /\ \E x \in outbox : x.id = row'[u] /\ x.obj = obj'[u]
    BY <2>3 DEF RowInv, RowLocks, Held
  <2>5. \A u \in Thread : Held(u)' /\ obj'[u] \notin gone =>
                             \A x \in outbox : x.obj = obj'[u] => row'[u] <= x.id
    BY DEF RowInv, RowLocks, Held, Group
  <2>6. \A u, v \in Thread : Held(u)' /\ Held(v)' /\ u # v =>
                                row'[u] # row'[v] /\ row'[u] \notin doomed'[v]
    BY <2>1, <2>2 DEF RowInv, RowLocks, Held
  <2> QED
    BY <2>4, <2>5, <2>6 DEF RowLocks, Group
<1>4. SnapshotsClosed'
  BY DEF RowInv, SnapshotsClosed
<1>5. CoalescedRows'
  BY DEF RowInv, CoalescedRows, Coalesced
<1>6. ReadIsFresh'
  BY DEF RowInv, ReadIsFresh
<1>7. DoomedRows'
  BY DEF RowInv, DoomedRows, Coalesced
<1>8. DrainsAfterCommit'
  BY ThreadAssumption DEF RowInv, DrainsAfterCommit, Thread
<1> QED
  BY <1>1, <1>2, <1>3, <1>4, <1>5, <1>6, <1>7, <1>8 DEF RowInv

-----------------------------------------------------------------------------
(* The producers. *)

\* A transaction that has not committed: only txn and the id sequence move.
LEMMA DrainsUnchanged ==
  ASSUME RowInv, NoDrain, UNCHANGED <<src, gone, outbox>>
  PROVE  /\ RowLocks' /\ SnapshotsClosed' /\ CoalescedRows'
         /\ ReadIsFresh' /\ DoomedRows'
<1> USE DEF NoDrain, group
<1>1. RowLocks'
  BY DEF RowInv, RowLocks, Held, Group
<1>2. SnapshotsClosed'
  BY DEF RowInv, SnapshotsClosed
<1>3. CoalescedRows'
  BY DEF RowInv, CoalescedRows, Coalesced
<1>4. ReadIsFresh'
  BY DEF RowInv, ReadIsFresh
<1>5. DoomedRows'
  BY DEF RowInv, DoomedRows, Coalesced
<1> QED
  BY <1>1, <1>2, <1>3, <1>4, <1>5

LEMMA SaveModelStep ==
  ASSUME RowInv, TypeOK', NEW p \in Request, NEW o \in Object, SaveModel(p, o)
  PROVE  RowInv'
<1> USE DEF SaveModel, NoDrain, group
<1>1. txn'[p] = [stage |-> "written", kind |-> "save", obj |-> o, id |-> 0]
      /\ \A q \in Request \ {p} : txn'[q] = txn[q]
  BY DEF RowInv, TypeOK
<1>2. FreshIds'
  BY <1>1 DEF RowInv, FreshIds, Numbered
<1>3. SeenIds'
  BY <1>1 DEF RowInv, SeenIds, Numbered
<1>4. SourceLocks'
  BY <1>1 DEF RowInv, SourceLocks, SourceHeld, SourceLocked
<1>5. VersionsInOrder'
  BY <1>1 DEF RowInv, VersionsInOrder, Group
<1>6. DrainsAfterCommit'
  BY <1>1 DEF RowInv, DrainsAfterCommit, Free
<1> QED
  BY <1>2, <1>3, <1>4, <1>5, <1>6, DrainsUnchanged DEF RowInv

LEMMA SaveOutboxStep ==
  ASSUME RowInv, TypeOK', NEW p \in Request, SaveOutbox(p)
  PROVE  RowInv'
<1> USE DEF SaveOutbox, NoDrain, group
<1>1. txn'[p] = [stage |-> "both", kind |-> "save", obj |-> txn[p].obj, id |-> nextId]
      /\ \A q \in Request \ {p} : txn'[q] = txn[q]
  BY DEF RowInv, TypeOK
<1>2. FreshIds'
  BY <1>1 DEF RowInv, FreshIds, Numbered, TypeOK, Row, Id
<1>3. SeenIds'
  BY <1>1 DEF RowInv, SeenIds, Numbered, TypeOK, Id
<1>4. SourceLocks'
  BY <1>1 DEF RowInv, SourceLocks, SourceHeld
<1>5. VersionsInOrder'
  BY <1>1 DEF RowInv, VersionsInOrder, FreshIds, Group
<1>6. DrainsAfterCommit'
  BY <1>1 DEF RowInv, DrainsAfterCommit
<1> QED
  BY <1>2, <1>3, <1>4, <1>5, <1>6, DrainsUnchanged DEF RowInv

LEMMA QueueFirstStep ==
  ASSUME "bulk_update" \notin Kinds, RowInv, TypeOK', NEW p \in Request, NEW o \in Object, NEW k \in Kinds, QueueFirst(p, o, k)
  PROVE  RowInv'
<1> USE DEF QueueFirst, NoDrain, group
<1>1. txn'[p] = [stage |-> "queued", kind |-> k, obj |-> o, id |-> nextId]
      /\ \A q \in Request \ {p} : txn'[q] = txn[q]
  BY DEF RowInv, TypeOK
<1>k. k = "delete"
  BY KindsAssumption
<1>2. FreshIds'
  BY <1>1 DEF RowInv, FreshIds, Numbered, TypeOK, Row, Id
<1>3. SeenIds'
  BY <1>1 DEF RowInv, SeenIds, Numbered, TypeOK, Id
<1>4. SourceLocks'
  BY <1>1 DEF RowInv, SourceLocks, SourceHeld
<1>5. VersionsInOrder'
  BY <1>1, <1>k DEF RowInv, VersionsInOrder, Group
<1>6. DrainsAfterCommit'
  BY <1>1 DEF RowInv, DrainsAfterCommit, Free
<1> QED
  BY <1>2, <1>3, <1>4, <1>5, <1>6, DrainsUnchanged DEF RowInv

LEMMA LockModelStep ==
  ASSUME RowInv, TypeOK', NEW p \in Request, LockModel(p)
  PROVE  RowInv'
<1> USE DEF LockModel, NoDrain, group
<1>1. /\ txn'[p].stage = "both" /\ txn'[p].kind = txn[p].kind
      /\ txn'[p].obj = txn[p].obj /\ txn'[p].id = txn[p].id
      /\ \A q \in Request \ {p} : txn'[q] = txn[q]
  BY DEF RowInv, TypeOK, Txn
<1>2. FreshIds'
  BY <1>1 DEF RowInv, FreshIds, Numbered
<1>3. SeenIds'
  BY <1>1 DEF RowInv, SeenIds, Numbered
<1>4. SourceLocks'
  BY <1>1 DEF RowInv, SourceLocks, SourceHeld, SourceLocked
<1>5. VersionsInOrder'
  BY <1>1 DEF RowInv, VersionsInOrder, Group
<1>6. DrainsAfterCommit'
  BY <1>1 DEF RowInv, DrainsAfterCommit
<1> QED
  BY <1>2, <1>3, <1>4, <1>5, <1>6, DrainsUnchanged DEF RowInv

LEMMA RollbackModelStep ==
  ASSUME RowInv, TypeOK', NEW p \in Request, RollbackModel(p)
  PROVE  RowInv'
<1> USE DEF RollbackModel, NoDrain, group
<1>1. txn'[p] = NoTxn /\ \A q \in Request \ {p} : txn'[q] = txn[q]
  BY DEF RowInv, TypeOK
<1>2. FreshIds'
  BY <1>1 DEF RowInv, FreshIds, Numbered, NoTxn
<1>3. SeenIds'
  BY <1>1 DEF RowInv, SeenIds, Numbered, NoTxn
<1>4. SourceLocks'
  BY <1>1 DEF RowInv, SourceLocks, SourceHeld, NoTxn
<1>5. VersionsInOrder'
  BY <1>1 DEF RowInv, VersionsInOrder, Group, NoTxn
<1>6. DrainsAfterCommit'
  BY <1>1 DEF RowInv, DrainsAfterCommit, NoTxn
<1> QED
  BY <1>2, <1>3, <1>4, <1>5, <1>6, DrainsUnchanged DEF RowInv

\* The commit adds the row with the object's highest id, or deletes the object.
LEMMA CommitModelStep ==
  ASSUME RowInv, TypeOK', NEW p \in Request, NEW flush \in BOOLEAN, CommitModel(p, flush)
  PROVE  RowInv'
<1>1. /\ txn[p].obj \in Object
      /\ pc[p] = "idle"
      /\ txn[p].stage = "both"
      /\ p \in Thread
  BY DEF CommitModel, RowInv, SourceLocks, DrainsAfterCommit, Thread
<1>o. PICK o \in Object : o = txn[p].obj
  BY <1>1
<1>v. PICK v \in Nat : v = IF o \in gone THEN src[o] ELSE src[o] + 1
  BY DEF RowInv, TypeOK
<1>2. src[o] <= v /\ (o \notin gone => src[o] < v)
  BY <1>v DEF RowInv, TypeOK
<1>new. PICK new \in Row : new = [id |-> txn[p].id, obj |-> o, ver |-> v]
  BY <1>1 DEF RowInv, FreshIds, Numbered, Row
<1>3. /\ outbox' = outbox \cup {new}
      /\ src'[o] = v
      /\ \A x \in Object \ {o} : src'[x] = src[x]
  BY <1>o, <1>v, <1>new DEF CommitModel, RowInv, TypeOK
<1>4. /\ txn'[p] = NoTxn
      /\ \A q \in Request \ {p} : txn'[q] = txn[q]
      /\ UNCHANGED <<replica, nextId, disabled, latest, snap, row, obj, top, read, doomed, final>>
  BY DEF CommitModel, RowInv, TypeOK, group
<1>5. /\ pc'[p] \in {"idle", "flush"}
      /\ \A t \in Thread \ {p} : pc'[t] = pc[t] /\ shard'[t] = shard[t]
  BY <1>1 DEF CommitModel, RowInv, TypeOK
<1>6. /\ gone \subseteq gone'
      /\ \A x \in Object \ {o} : x \in gone' => x \in gone
      /\ o \notin gone' => txn[p].kind = "save"
  BY <1>o DEF CommitModel, RowInv, TypeOK, VersionsInOrder
<1>7. /\ new.id \in Id /\ new.id < nextId
      /\ \A r \in outbox : r.id # new.id
  BY <1>1, <1>new DEF RowInv, FreshIds, Numbered
<1>8. o \notin gone' => o \notin gone /\ \A r \in Group(o) : r.id < new.id
  BY <1>1, <1>6, <1>o, <1>new DEF RowInv, VersionsInOrder
<1>9. \A t \in Thread : new.id \notin snap[t] \cup doomed[t] \cup {top[t]}
  BY <1>1, <1>new DEF RowInv, SeenIds, Numbered
<1>10. new.obj = o /\ new.ver = v
  BY <1>new
<1>11. FreshIds'
  <2>1. \A r, x \in outbox' : r.id = x.id => r = x
    BY <1>3, <1>7 DEF RowInv, FreshIds
  <2>2. \A r \in outbox' : r.id < nextId'
    BY <1>3, <1>4, <1>7 DEF RowInv, FreshIds
  <2>3. \A q \in Request : Numbered(q)' => q # p /\ Numbered(q) /\ txn'[q].id = txn[q].id
    BY <1>4 DEF Numbered, NoTxn
  <2>4. \A q \in Request : Numbered(q) /\ q # p => txn[q].id # new.id
    BY <1>1, <1>new DEF RowInv, FreshIds, Numbered
  <2> QED
    BY <2>1, <2>2, <2>3, <2>4, <1>3, <1>4 DEF RowInv, FreshIds
<1>12. SeenIds'
  BY <1>4 DEF RowInv, SeenIds, Numbered, NoTxn
<1>13. SourceLocks'
  BY <1>4 DEF RowInv, SourceLocks, SourceHeld, NoTxn
<1>14. DrainsAfterCommit'
  BY <1>4, <1>5 DEF RowInv, DrainsAfterCommit, NoTxn, Thread
<1>15. VersionsInOrder'
  <2>1. ASSUME NEW r \in outbox'
        PROVE  r.ver <= src'[r.obj]
    <3>1. CASE r \in outbox
      <4>1. /\ r.ver <= src[r.obj]
            /\ r.obj \in Object /\ r.ver \in Nat /\ src[r.obj] \in Nat
        BY <3>1 DEF RowInv, VersionsInOrder, TypeOK, Row
      <4> QED
        BY <4>1, <1>2, <1>3
    <3>2. CASE r = new
      BY <3>2, <1>3, <1>10
    <3> QED
      BY <3>1, <3>2, <1>3
  <2>2. ASSUME NEW r \in outbox', NEW x \in outbox',
               r.obj = x.obj, r.obj \notin gone', r.id < x.id
        PROVE  r.ver < x.ver
    <3>1. CASE r \in outbox /\ x \in outbox
      BY <2>2, <3>1, <1>6 DEF RowInv, VersionsInOrder
    <3>2. CASE r \in outbox /\ x = new
      BY <2>2, <3>2, <1>2, <1>6, <1>10 DEF RowInv, VersionsInOrder, TypeOK, Row
    <3>3. CASE r = new
      BY <2>2, <3>3, <1>3, <1>7, <1>8, <1>10 DEF Group, RowInv, TypeOK, Row, Id
    <3> QED
      BY <1>3, <3>1, <3>2, <3>3
  <2>3. ASSUME NEW q \in Request, txn'[q].stage = "both", txn'[q].kind = "save"
        PROVE  txn'[q].obj \notin gone' /\ \A r \in outbox' : r.obj = txn'[q].obj => r.id < txn'[q].id
    <3>1. q # p /\ txn'[q] = txn[q]
      BY <2>3, <1>4 DEF NoTxn
    <3>2. txn[q].obj # o /\ txn[q].obj \in Object
      BY <2>3, <3>1, <1>1, <1>o DEF RowInv, SourceLocks, SourceHeld
    <3> QED
      BY <2>3, <3>1, <3>2, <1>3, <1>6, <1>10 DEF RowInv, VersionsInOrder, Group
  <2>4. ASSUME NEW q \in Request, txn'[q].stage = "written"
        PROVE  txn'[q].obj \notin gone' /\ txn'[q].kind = "save"
    <3>1. q # p /\ txn'[q] = txn[q]
      BY <2>4, <1>4 DEF NoTxn
    <3>2. txn[q].obj # o /\ txn[q].obj \in Object
      BY <2>4, <3>1, <1>1, <1>o DEF RowInv, SourceLocks, SourceHeld
    <3> QED
      BY <2>4, <3>1, <3>2, <1>6 DEF RowInv, VersionsInOrder
  <2>5. \A q \in Request : /\ txn'[q].kind \in {"save", "delete"}
                           /\ txn'[q].stage = "queued" => txn'[q].kind = "delete"
    BY <1>4 DEF RowInv, VersionsInOrder, NoTxn
  <2> QED
    BY <2>1, <2>2, <2>3, <2>4, <2>5 DEF VersionsInOrder, Group
<1>16. RowLocks'
  <2>1. \A t \in Thread : Held(t)' => Held(t)
    BY <1>5 DEF Held, Holding
  <2>2. ASSUME NEW t \in Thread, Held(t)', obj[t] \notin gone',
               NEW r \in outbox', r.obj = obj[t]
        PROVE  row[t] <= r.id
    <3>1. CASE r \in outbox
      BY <2>1, <2>2, <3>1, <1>6 DEF RowInv, RowLocks, Group
    <3>2. CASE r = new
      <4>1. PICK x \in outbox : x.id = row[t] /\ x.obj = obj[t]
        BY <2>1, <2>2 DEF RowInv, RowLocks
      <4>2. x.id < new.id
        BY <2>2, <3>2, <4>1, <1>8, <1>10 DEF Group
      <4> QED
        BY <3>2, <4>1, <4>2, <1>7 DEF RowInv, TypeOK, Row, Id
    <3> QED
      BY <3>1, <3>2, <1>3
  <2> QED
    BY <2>1, <2>2, <1>3, <1>4 DEF RowInv, RowLocks, Group
<1>17. SnapshotsClosed'
  <2>1. ASSUME NEW t \in Thread, pc'[t] = "wait", NEW r \in outbox', NEW x \in outbox',
               x.id \in snap[t], r.obj = x.obj, x.obj \notin gone', r.id < x.id
        PROVE  r.id \in snap[t]
    <3>1. pc[t] = "wait"
      BY <2>1, <1>5
    <3>2. x \in outbox
      BY <2>1, <1>3, <1>9
    <3>3. r # new
      <4>1. SUFFICES ASSUME r = new PROVE FALSE
        OBVIOUS
      <4>2. x.id < new.id /\ new.id < x.id
        BY <4>1, <2>1, <3>2, <1>8, <1>10 DEF Group
      <4> QED
        BY <4>2, <3>2, <1>7 DEF RowInv, TypeOK, Row, Id
    <3> QED
      BY <2>1, <3>1, <3>2, <3>3, <1>3, <1>6 DEF RowInv, SnapshotsClosed
  <2> QED
    BY <2>1, <1>4 DEF SnapshotsClosed
<1>18. CoalescedRows'
  <2>1. \A t \in Thread : Coalesced(t)' => Coalesced(t) /\ shard'[t] = shard[t]
    BY <1>5 DEF Coalesced
  <2> QED
    BY <2>1, <1>3, <1>4, <1>5, <1>6, <1>9 DEF RowInv, CoalescedRows
<1>19. ReadIsFresh'
  <2>1. \A x \in Object : src[x] <= src'[x]
    <3>1. \A x \in Object : src[x] \in Nat
      BY DEF RowInv, TypeOK
    <3>2. src[o] <= src'[o] /\ \A x \in Object \ {o} : src[x] = src'[x]
      BY <1>2, <1>3
    <3> QED
      BY <3>1, <3>2
  <2>2. \A x \in Object : replica'[x] <= src'[x]
    BY <2>1, <1>4 DEF RowInv, ReadIsFresh, TypeOK
  <2>3. \A t \in Thread : pc'[t] \in {"apply", "delete", "deleted", "commit"} =>
           pc'[t] = pc[t] /\ obj[t] \in Object
    BY <1>5 DEF RowInv, RowLocks, Held, Holding
  <2>4. \A t \in Thread : pc'[t] = "apply" => read[t] <= src'[obj[t]]
    BY <2>1, <2>3 DEF RowInv, ReadIsFresh, TypeOK
  <2> QED
    <3>1. \A t \in Thread : \A r \in outbox' : r.id = top[t] => r \in outbox
      BY <1>3, <1>9
    <3>2. ASSUME NEW t \in Thread, pc'[t] = "apply"
          PROVE  /\ obj[t] \notin gone' => replica[obj[t]] <= read[t]
                 /\ \A r \in outbox' : r.id = top[t] => r.ver <= read[t]
      BY <2>3, <3>1, <3>2, <1>6 DEF RowInv, ReadIsFresh
    <3>3. ASSUME NEW t \in Thread, pc'[t] \in {"delete", "deleted", "commit"}, obj[t] \notin gone'
          PROVE  \A r \in outbox' : r.id = top[t] => r.ver <= replica[obj[t]]
      BY <2>3, <3>1, <3>3, <1>6 DEF RowInv, ReadIsFresh
    <3> QED
      BY <2>2, <2>4, <3>2, <3>3, <1>4 DEF ReadIsFresh
<1>20. DoomedRows'
  BY <1>1, <1>4, <1>5 DEF RowInv, DoomedRows, Coalesced
<1> QED
  BY <1>11, <1>12, <1>13, <1>14, <1>15, <1>16, <1>17, <1>18, <1>19, <1>20 DEF RowInv

-----------------------------------------------------------------------------
(* The drains. *)

LEMMA DrainsOutsideTxn ==
  ASSUME RowInv, NEW t \in Thread, pc[t] # "idle", UNCHANGED txn,
         \A u \in Thread \ {t} : pc'[u] = pc[u]
  PROVE  DrainsAfterCommit'
BY DEF RowInv, DrainsAfterCommit, Thread

LEMMA UnlockedStep ==
  ASSUME RowInv, TypeOK', NEW t \in Thread,
         \/ StartFlush(t) \/ EndDrain(t) \/ Abort(t) \/ Return(t)
         \/ t \in Worker /\ \E s \in Shard : StartTask(t, s)
  PROVE  RowInv'
<1> USE DEF Quiet, produced, group
<1>1. /\ UNCHANGED <<src, gone, replica, outbox, nextId, txn, disabled>>
      /\ t \in Worker \/ pc[t] # "idle"
  BY DEF StartFlush, EndDrain, Abort, Return, StartTask
<1>2. \A u \in Thread \ {t} : /\ pc'[u] = pc[u] /\ shard'[u] = shard[u]
                              /\ row'[u] = row[u] /\ obj'[u] = obj[u] /\ snap'[u] = snap[u]
                              /\ top'[u] = top[u] /\ read'[u] = read[u] /\ doomed'[u] = doomed[u]
                              /\ final'[u] = final[u]
  BY DEF StartFlush, EndDrain, Abort, Return, StartTask, Release, RowInv, TypeOK
<1>3. /\ pc'[t] \in {"idle", "flush", "loop", "done"}
      /\ snap'[t] \subseteq snap[t] /\ top'[t] \in {0, top[t]}
  BY DEF StartFlush, EndDrain, Abort, Return, StartTask, Release, RowInv, TypeOK
<1>4. doomed'[t] = {} /\ final'[t] = {}
  BY DEF StartFlush, EndDrain, Abort, Return, StartTask, Release, RowInv, TypeOK,
         DoomedRows, Coalesced
<1> QED
  BY <1>1, <1>2, <1>3, <1>4, MoveUnlocked

LEMMA LockRowStep ==
  ASSUME RowInv, TypeOK', NEW t \in Thread, LockRow(t)
  PROVE  RowInv'
<1> USE DEF Quiet, produced
<1>1. PICK r \in Candidates(t) :
         /\ First(r, Candidates(t)) /\ ~LockedByOther(t, r.id)
         /\ row' = [row EXCEPT ![t] = r.id] /\ obj' = [obj EXCEPT ![t] = r.obj]
  BY DEF LockRow
<1>2. r \in outbox /\ ShardOf[r.obj] = shard[t]
  BY DEF Candidates, InShard
<1>3. ASSUME NEW x \in Group(r.obj) PROVE r.id <= x.id
  <2>1. x \in InShard(shard[t])
    BY <1>2, <1>3 DEF Group, InShard
  <2>2. CASE x \in Candidates(t)
    BY <1>1, <2>2 DEF First
  <2>3. CASE x \notin Candidates(t)
    <3>1. ~(x.id <= latest[t]) /\ latest[t] # 0
      BY <2>1, <2>3 DEF Candidates
    <3>2. r.id <= latest[t]
      BY <3>1 DEF Candidates
    <3>3. r.id \in Nat /\ x.id \in Nat /\ latest[t] \in Nat
      BY <1>2, <1>3 DEF RowInv, TypeOK, Row, Id, Group
    <3> QED
      BY <3>1, <3>2, <3>3
  <2> QED
    BY <2>2, <2>3
<1>4. /\ UNCHANGED <<src, gone, replica, outbox, nextId, txn, disabled, shard, snap, top, read, doomed, final>>
      /\ pc[t] = "loop"
  BY DEF LockRow
<1>5. /\ pc'[t] = "locked" /\ row'[t] = r.id /\ obj'[t] = r.obj
      /\ \A u \in Thread \ {t} : pc'[u] = pc[u] /\ row'[u] = row[u] /\ obj'[u] = obj[u]
  BY <1>1 DEF LockRow, RowInv, TypeOK
<1> QED
  BY <1>1, <1>2, <1>3, <1>4, <1>5, MoveToLocked

LEMMA WakeUpStep ==
  ASSUME RowInv, TypeOK', NEW t \in Thread, WakeUp(t)
  PROVE  RowInv'
<1> USE DEF Quiet, produced
<1>1. /\ UNCHANGED <<src, gone, replica, outbox, nextId, txn, disabled, shard, top, read, doomed, final>>
      /\ pc[t] = "wait" /\ snap'[t] = {}
      /\ \A u \in Thread \ {t} : snap'[u] = snap[u]
  BY DEF WakeUp, RowInv, TypeOK
<1>2. doomed[t] = {} /\ final[t] = {}
  BY <1>1 DEF RowInv, DoomedRows, Coalesced
<1>3. CASE pc' = [pc EXCEPT ![t] = "done"] /\ UNCHANGED <<row, obj>>
  <2>1. pc'[t] = "done" /\ \A u \in Thread \ {t} : pc'[u] = pc[u]
    BY <1>3 DEF RowInv, TypeOK
  <2> QED
    BY <1>1, <1>2, <1>3, <2>1, MoveUnlocked
<1>4. ASSUME NEW r \in Alive(t), First(r, Alive(t)), ~LockedByOther(t, r.id),
             pc' = [pc EXCEPT ![t] = "locked"],
             row' = [row EXCEPT ![t] = r.id], obj' = [obj EXCEPT ![t] = r.obj]
      PROVE  RowInv'
  <2>1. r \in outbox /\ r.id \in snap[t]
    BY DEF Alive
  <2>2. ASSUME r.obj \notin gone, NEW x \in Group(r.obj) PROVE r.id <= x.id
    <3>1. r.id \in Nat /\ x.id \in Nat /\ x \in outbox /\ x.obj = r.obj
      BY <2>1 DEF RowInv, TypeOK, Row, Id, Group
    <3>2. CASE x.id < r.id
      <4>1. x.id \in snap[t]
        BY <1>1, <2>1, <2>2, <3>1, <3>2 DEF RowInv, SnapshotsClosed
      <4> QED
        BY <3>1, <4>1, <1>4 DEF Alive, First
    <3> QED
      BY <3>1, <3>2
  <2>3. /\ pc'[t] = "locked" /\ row'[t] = r.id /\ obj'[t] = r.obj
        /\ \A u \in Thread \ {t} : pc'[u] = pc[u] /\ row'[u] = row[u] /\ obj'[u] = obj[u]
    BY <1>4 DEF RowInv, TypeOK
  <2> QED
    BY <1>1, <1>4, <2>1, <2>2, <2>3, MoveToLocked
<1> QED
  BY <1>3, <1>4 DEF WakeUp

LEMMA BlockOnRowStep ==
  ASSUME RowInv, TypeOK', NEW t \in Thread, BlockOnRow(t)
  PROVE  RowInv'
<1> USE DEF Quiet, produced, group
<1>1. /\ UNCHANGED <<src, gone, replica, outbox, nextId, txn, disabled, shard, row, obj, top, read, doomed, final>>
      /\ pc[t] = "loop" /\ pc'[t] = "wait"
      /\ \A u \in Thread \ {t} : pc'[u] = pc[u] /\ snap'[u] = snap[u]
      /\ snap'[t] = Ids(Candidates(t))
  BY DEF BlockOnRow, RowInv, TypeOK
<1>2. FreshIds' /\ SourceLocks' /\ VersionsInOrder'
  BY <1>1, RowsUnchanged
<1>3. DrainsAfterCommit'
  BY <1>1, DrainsOutsideTxn
<1>4. SeenIds'
  <2>1. \A i \in snap'[t] : \E r \in outbox : r.id = i
    BY <1>1 DEF Ids, Candidates, InShard
  <2>2. \A i \in snap'[t] : i < nextId /\ \A p \in Request : Numbered(p) => txn[p].id # i
    BY <2>1 DEF RowInv, FreshIds
  <2> QED
    BY <1>1, <2>2 DEF RowInv, SeenIds, Numbered
<1>5. RowLocks'
  BY <1>1 DEF RowInv, RowLocks, Held, Holding, Group
<1>6. SnapshotsClosed'
  <2>1. ASSUME NEW r \in outbox, NEW x \in outbox, x.id \in snap'[t], r.obj = x.obj, r.id < x.id
        PROVE  r.id \in snap'[t]
    <3>1. x \in Candidates(t)
      BY <1>1, <2>1 DEF Ids, RowInv, FreshIds, Candidates, InShard
    <3>2. r.id \in Nat /\ x.id \in Nat /\ latest[t] \in Nat
      BY DEF RowInv, TypeOK, Row, Id
    <3>3. r \in Candidates(t)
      BY <2>1, <3>1, <3>2 DEF Candidates, InShard
    <3> QED
      BY <1>1, <3>3 DEF Ids
  <2> QED
    BY <1>1, <2>1 DEF RowInv, SnapshotsClosed
<1>7. CoalescedRows'
  BY <1>1 DEF RowInv, CoalescedRows, Coalesced
<1>8. ReadIsFresh'
  BY <1>1 DEF RowInv, ReadIsFresh
<1>9. DoomedRows'
  BY <1>1 DEF RowInv, DoomedRows, Coalesced
<1> QED
  BY <1>2, <1>3, <1>4, <1>5, <1>6, <1>7, <1>8, <1>9 DEF RowInv

LEMMA CoalesceStep ==
  ASSUME RowInv, TypeOK', NEW t \in Thread, Coalesce(t)
  PROVE  RowInv'
<1> USE DEF Quiet, produced
<1>1. /\ UNCHANGED <<src, gone, replica, outbox, nextId, txn, disabled, shard, snap, row, obj, read, doomed, final>>
      /\ pc[t] = "locked" /\ pc'[t] \in {"skip", "signal"}
      /\ \A u \in Thread \ {t} : pc'[u] = pc[u] /\ top'[u] = top[u]
  BY DEF Coalesce, RowInv, TypeOK
<1>2. PICK last \in outbox : last.obj = obj[t] /\ top'[t] = last.id
  BY DEF Coalesce, Group, RowInv, TypeOK
<1>3. FreshIds' /\ SourceLocks' /\ VersionsInOrder'
  BY <1>1, RowsUnchanged
<1>4. DrainsAfterCommit'
  BY <1>1, DrainsOutsideTxn
<1>5. SeenIds'
  BY <1>1, <1>2 DEF RowInv, SeenIds, Numbered, FreshIds
<1>6. RowLocks'
  BY <1>1 DEF RowInv, RowLocks, Held, Holding, Group
<1>7. SnapshotsClosed'
  BY <1>1 DEF RowInv, SnapshotsClosed
<1>8. CoalescedRows'
  <2>1. doomed[t] = {}
    BY <1>1 DEF RowInv, DoomedRows, Coalesced
  <2>2. \A r \in outbox : r.id = top'[t] => r.obj = obj[t]
    BY <1>2 DEF RowInv, FreshIds
  <2> QED
    BY <1>1, <1>2, <2>1, <2>2 DEF RowInv, CoalescedRows, Coalesced
<1>9. ReadIsFresh'
  BY <1>1 DEF RowInv, ReadIsFresh
<1>10. DoomedRows'
  BY <1>1 DEF RowInv, DoomedRows, Coalesced
<1> QED
  BY <1>3, <1>4, <1>5, <1>6, <1>7, <1>8, <1>9, <1>10 DEF RowInv

LEMMA ReadSourceStep ==
  ASSUME RowInv, TypeOK', NEW t \in Thread, ReadSource(t)
  PROVE  RowInv'
<1> USE DEF Quiet, produced
<1>1. /\ UNCHANGED <<src, gone, replica, outbox, nextId, txn, disabled, shard, snap, row, obj, top, doomed, final>>
      /\ pc[t] = "signal" /\ pc'[t] = "apply" /\ read'[t] = src[obj[t]]
      /\ \A u \in Thread \ {t} : pc'[u] = pc[u] /\ read'[u] = read[u]
  BY DEF ReadSource, RowInv, TypeOK
<1>2. obj[t] \in Object
  BY <1>1 DEF RowInv, RowLocks, Held, Holding
<1>3. FreshIds' /\ SourceLocks' /\ VersionsInOrder'
  BY <1>1, RowsUnchanged
<1>4. DrainsAfterCommit'
  BY <1>1, DrainsOutsideTxn
<1>5. SeenIds'
  BY <1>1 DEF RowInv, SeenIds, Numbered
<1>6. RowLocks'
  BY <1>1 DEF RowInv, RowLocks, Held, Holding, Group
<1>7. SnapshotsClosed'
  BY <1>1 DEF RowInv, SnapshotsClosed
<1>8. CoalescedRows'
  BY <1>1 DEF RowInv, CoalescedRows, Coalesced
<1>9. ReadIsFresh'
  <2>1. \A r \in outbox : r.id = top[t] => r.ver <= src[obj[t]]
    BY <1>1 DEF RowInv, CoalescedRows, Coalesced, VersionsInOrder
  <2>2. replica[obj[t]] <= src[obj[t]] /\ src[obj[t]] \in Nat
    BY <1>2 DEF RowInv, ReadIsFresh, TypeOK
  <2> QED
    BY <1>1, <2>1, <2>2 DEF RowInv, ReadIsFresh
<1>10. DoomedRows'
  BY <1>1 DEF RowInv, DoomedRows, Coalesced
<1> QED
  BY <1>3, <1>4, <1>5, <1>6, <1>7, <1>8, <1>9, <1>10 DEF RowInv

LEMMA ApplyRemoteStep ==
  ASSUME RowInv, TypeOK', NEW t \in Thread, ApplyRemote(t)
  PROVE  RowInv'
<1> USE DEF produced, group
<1>1. /\ UNCHANGED <<src, gone, outbox, nextId, txn, disabled, shard, snap, row, obj, top, read, doomed, final>>
      /\ pc[t] = "apply" /\ pc'[t] = "delete"
      /\ \A u \in Thread \ {t} : pc'[u] = pc[u]
  BY DEF ApplyRemote, RowInv, TypeOK
<1>2. PICK o \in Object : o = obj[t]
  BY <1>1 DEF RowInv, RowLocks, Held, Holding
<1>3. replica'[o] = read[t] /\ \A x \in Object \ {o} : replica'[x] = replica[x]
  BY <1>2 DEF ApplyRemote, RowInv, TypeOK
<1>4. /\ read[t] \in Nat /\ src[o] \in Nat /\ replica[o] \in Nat
      /\ read[t] <= src[o]
      /\ o \notin gone => replica[o] <= read[t]
  BY <1>1, <1>2 DEF RowInv, ReadIsFresh, TypeOK
<1>5. \A u \in Thread : Held(u) /\ obj[u] = o /\ o \notin gone => u = t
  BY <1>1, <1>2, OnePerObject DEF RowInv, Held, Holding
<1>6. FreshIds' /\ SourceLocks' /\ SeenIds'
  BY <1>1 DEF RowInv, FreshIds, Numbered, SourceLocks, SourceHeld, SeenIds
<1>7. VersionsInOrder'
  BY <1>1 DEF RowInv, VersionsInOrder, Group
<1>8. DrainsAfterCommit'
  BY <1>1, DrainsOutsideTxn
<1>9. RowLocks'
  BY <1>1 DEF RowInv, RowLocks, Held, Holding, Group
<1>10. SnapshotsClosed'
  BY <1>1 DEF RowInv, SnapshotsClosed
<1>11. CoalescedRows'
  BY <1>1 DEF RowInv, CoalescedRows, Coalesced
<1>12. ReadIsFresh'
  <2>1. \A x \in Object : replica'[x] <= src[x]
    BY <1>3, <1>4 DEF RowInv, ReadIsFresh
  <2>2. ASSUME NEW u \in Thread, u # t, pc[u] \in {"apply", "delete", "deleted", "commit"}, obj[u] \notin gone
        PROVE  replica'[obj[u]] = replica[obj[u]]
    BY <2>2, <1>3, <1>5 DEF Held, Holding, RowInv, RowLocks
  <2>3. \A r \in outbox : r.id = top[t] => r.ver <= replica'[obj[t]]
    BY <1>1, <1>2, <1>3 DEF RowInv, ReadIsFresh
  <2> QED
    BY <1>1, <2>1, <2>2, <2>3 DEF RowInv, ReadIsFresh
<1>13. DoomedRows'
  BY <1>1 DEF RowInv, DoomedRows, Coalesced
<1> QED
  BY <1>6, <1>7, <1>8, <1>9, <1>10, <1>11, <1>12, <1>13 DEF RowInv

LEMMA DeleteBatchStep ==
  ASSUME RowInv, TypeOK', NEW t \in Thread, DeleteBatch(t)
  PROVE  RowInv'
<1> USE DEF Quiet, produced
<1>1. /\ UNCHANGED <<src, gone, replica, outbox, nextId, txn, disabled, shard, snap, row, obj, top, read, final, pc>>
      /\ pc[t] \in {"delete", "skip"}
      /\ \A u \in Thread \ {t} : doomed'[u] = doomed[u]
  BY DEF DeleteBatch, RowInv, TypeOK
<1>2. PICK old \in SUBSET Ids(Group(obj[t])) :
         /\ doomed'[t] = doomed[t] \cup old
         /\ \A i \in old : i < top[t] /\ ~LockedByOther(t, i)
  BY DEF DeleteBatch, Older, RowInv, TypeOK
<1>3. \A i \in old : \E r \in outbox : r.id = i /\ r.obj = obj[t]
  BY DEF Ids, Group
<1>4. FreshIds' /\ SourceLocks' /\ VersionsInOrder'
  BY <1>1, RowsUnchanged
<1>5. DrainsAfterCommit'
  BY <1>1 DEF RowInv, DrainsAfterCommit
<1>6. SeenIds'
  BY <1>1, <1>2, <1>3 DEF RowInv, SeenIds, Numbered, FreshIds
<1>7. RowLocks'
  <2>1. \A u \in Thread \ {t} : Held(u) => row[u] \notin old
    BY <1>2 DEF LockedByOther, Held
  <2> QED
    BY <1>1, <1>2, <2>1 DEF RowInv, RowLocks, Held, Group
<1>8. SnapshotsClosed'
  BY <1>1 DEF RowInv, SnapshotsClosed
<1>9. CoalescedRows'
  <2>1. \A r \in outbox : r.id \in old => r.obj = obj[t]
    BY <1>3 DEF RowInv, FreshIds
  <2> QED
    BY <1>1, <1>2, <2>1 DEF RowInv, CoalescedRows, Coalesced
<1>10. ReadIsFresh'
  BY <1>1 DEF RowInv, ReadIsFresh
<1>11. DoomedRows'
  BY <1>1 DEF RowInv, DoomedRows, Coalesced
<1> QED
  BY <1>4, <1>5, <1>6, <1>7, <1>8, <1>9, <1>10, <1>11 DEF RowInv

\* The loop ends, and process_coalesced decides about the coalesced row.
LEMMA DecisionStep ==
  ASSUME RowInv, TypeOK', NEW t \in Thread, EndLoop(t) \/ AskAgain(t)
  PROVE  RowInv'
<1> USE DEF Quiet, produced, group
<1>1. /\ UNCHANGED <<src, gone, replica, outbox, nextId, txn, shard, snap, row, obj, top, read, doomed>>
      /\ \A u \in Thread \ {t} : pc'[u] = pc[u] /\ final'[u] = final[u]
      /\ \/ pc[t] \in {"delete", "deleted"} /\ pc'[t] \in {"deleted", "commit"}
         \/ pc[t] \in {"skip", "skipped"} /\ pc'[t] \in {"skipped", "pass"}
  BY DEF EndLoop, AskAgain, RowInv, TypeOK
<1>2. final'[t] # {} => pc'[t] \in {"commit", "pass"} /\ final'[t] = {top[t]}
  BY DEF EndLoop, AskAgain, LastDeleted, RowInv, TypeOK, DoomedRows
<1>3. FreshIds' /\ SourceLocks' /\ VersionsInOrder'
  BY <1>1, RowsUnchanged
<1>4. DrainsAfterCommit'
  BY <1>1, DrainsOutsideTxn
<1>5. SeenIds'
  BY <1>1 DEF RowInv, SeenIds, Numbered
<1>6. RowLocks'
  BY <1>1 DEF RowInv, RowLocks, Held, Holding, Group
<1>7. SnapshotsClosed'
  BY <1>1 DEF RowInv, SnapshotsClosed
<1>8. CoalescedRows'
  BY <1>1 DEF RowInv, CoalescedRows, Coalesced
<1>9. ReadIsFresh'
  BY <1>1 DEF RowInv, ReadIsFresh
<1>10. DoomedRows'
  BY <1>1, <1>2 DEF RowInv, DoomedRows, Coalesced
<1> QED
  BY <1>3, <1>4, <1>5, <1>6, <1>7, <1>8, <1>9, <1>10 DEF RowInv

\* The rows of one object leave the table.
LEMMA FinishGroupStep ==
  ASSUME RowInv, TypeOK', NEW t \in Thread, FinishGroup(t)
  PROVE  RowInv'
<1> USE DEF produced, Release
<1>1. /\ UNCHANGED <<src, gone, replica, nextId, txn, disabled, shard, snap>>
      /\ pc[t] \in {"commit", "pass"} /\ pc'[t] \in {"loop", "done"}
      /\ doomed'[t] = {} /\ final'[t] = {} /\ top'[t] = 0
      /\ \A u \in Thread \ {t} : /\ pc'[u] = pc[u] /\ row'[u] = row[u] /\ obj'[u] = obj[u]
                                 /\ top'[u] = top[u] /\ read'[u] = read[u] /\ doomed'[u] = doomed[u]
                                 /\ final'[u] = final[u]
  BY DEF FinishGroup, RowInv, TypeOK
<1> DEFINE dead == doomed[t] \cup final[t]
<1>3. /\ outbox' = {r \in outbox : r.id \notin dead}
      /\ dead \subseteq doomed[t] \cup final[t]
  BY DEF FinishGroup
<1> HIDE DEF dead
<1>4. final[t] \subseteq {top[t]}
  BY DEF RowInv, DoomedRows
<1>5. \A r \in outbox : r.id \in dead => r.obj = obj[t]
  BY <1>1, <1>3, <1>4 DEF RowInv, CoalescedRows, Coalesced
<1>6. \A u \in Thread \ {t} : Held(u) => row[u] \notin dead
  <2>1. \A i \in final[t] : ~LockedByOther(t, i)
    BY DEF FinishGroup
  <2>2. Held(t)
    BY <1>1 DEF Held, Holding
  <2> QED
    BY <1>3, <2>1, <2>2 DEF LockedByOther, Held, RowInv, RowLocks
<1>7. \A u \in Thread \ {t} : Held(u) /\ obj[u] \notin gone => obj[u] # obj[t]
  BY <1>1, OnePerObject DEF RowInv, Held, Holding
<1>8. FreshIds' /\ SourceLocks' /\ VersionsInOrder'
  BY <1>1, <1>3 DEF RowInv, FreshIds, Numbered, SourceLocks, SourceHeld, VersionsInOrder, Group
<1>9. DrainsAfterCommit'
  BY <1>1, DrainsOutsideTxn
<1>10. SeenIds'
  <2>1. 0 < nextId /\ \A p \in Request : Numbered(p) => txn[p].id # 0
    BY DEF RowInv, FreshIds, TypeOK, Id
  <2> QED
    BY <1>1, <2>1 DEF RowInv, SeenIds, Numbered
<1>11. RowLocks'
  BY <1>1, <1>3, <1>6 DEF RowInv, RowLocks, Held, Holding, Group
<1>12. SnapshotsClosed'
  BY <1>1, <1>3 DEF RowInv, SnapshotsClosed
<1>13. CoalescedRows'
  <2>1. ASSUME NEW u \in Thread \ {t}, Coalesced(u), obj[u] \notin gone
        PROVE  \E r \in outbox' : r.id = top[u]
    <3>1. PICK r \in outbox : r.id = top[u] /\ r.obj = obj[u]
      BY <2>1 DEF RowInv, CoalescedRows
    <3>2. obj[u] # obj[t]
      BY <1>7, <2>1 DEF Coalesced, Held, Holding
    <3> QED
      BY <1>3, <1>5, <3>1, <3>2
  <2> QED
    BY <1>1, <1>3, <2>1 DEF RowInv, CoalescedRows, Coalesced
<1>14. ReadIsFresh'
  <2>1. \A u \in Thread : pc'[u] \in {"apply", "delete", "deleted", "commit"} =>
           /\ pc'[u] = pc[u] /\ obj'[u] = obj[u] /\ top'[u] = top[u] /\ read'[u] = read[u]
    BY <1>1
  <2> QED
    BY <1>1, <1>3, <2>1 DEF RowInv, ReadIsFresh
<1>15. DoomedRows'
  BY <1>1 DEF RowInv, DoomedRows, Coalesced
<1> QED
  BY <1>8, <1>9, <1>10, <1>11, <1>12, <1>13, <1>14, <1>15 DEF RowInv

-----------------------------------------------------------------------------
LEMMA SetOptionStep ==
  ASSUME RowInv, TypeOK', NEW s \in Shard, SetOption(s)
  PROVE  RowInv'
<1>1. NoDrain /\ UNCHANGED <<src, gone, outbox, nextId, txn>>
  BY DEF SetOption
<1>2. FreshIds' /\ SourceLocks' /\ VersionsInOrder'
  BY <1>1, RowsUnchanged DEF NoDrain
<1>3. SeenIds' /\ DrainsAfterCommit'
  BY <1>1 DEF RowInv, SeenIds, Numbered, DrainsAfterCommit, NoDrain, group
<1> QED
  BY <1>1, <1>2, <1>3, DrainsUnchanged DEF RowInv

LEMMA Initially == Init => IInv
<1> SUFFICES ASSUME Init PROVE IInv
  OBVIOUS
<1> USE DEF Init
<1>1. TypeOK
  BY DEF TypeOK, Holding, Id, Txn, NoTxn
<1>2. FreshIds /\ SourceLocks /\ DrainsAfterCommit /\ VersionsInOrder
  BY DEF FreshIds, Numbered, SourceLocks, SourceHeld, DrainsAfterCommit, VersionsInOrder, NoTxn
<1>3. SeenIds
  BY DEF SeenIds, Numbered, NoTxn
<1>4. LastVersionQueued /\ ReadIsFresh /\ SkipsAreDisabled
  BY DEF LastVersionQueued, ReadIsFresh, SkipsAreDisabled
<1>5. RowLocks /\ SnapshotsClosed /\ CoalescedRows /\ DoomedRows
  BY DEF RowLocks, Held, Holding, SnapshotsClosed, CoalescedRows, Coalesced, DoomedRows
<1> QED
  BY <1>1, <1>2, <1>3, <1>4, <1>5 DEF IInv, RowInv

LEMMA RowStep ==
  ASSUME "bulk_update" \notin Kinds, RowInv, [Next]_vars
  PROVE  RowInv'
<1>1. TypeOK'
  BY TypeStep DEF RowInv
<1>2. CASE UNCHANGED vars
  <2>1. NoDrain /\ UNCHANGED <<src, gone, outbox, nextId, txn>>
    BY <1>2 DEF vars, produced, NoDrain
  <2>2. FreshIds' /\ SourceLocks' /\ VersionsInOrder'
    BY <2>1, RowsUnchanged DEF NoDrain
  <2>3. SeenIds' /\ DrainsAfterCommit'
    BY <2>1 DEF RowInv, SeenIds, Numbered, DrainsAfterCommit, NoDrain, group
  <2> QED
    BY <1>1, <2>1, <2>2, <2>3, DrainsUnchanged DEF RowInv
<1>3. ASSUME NEW p \in Request, Produce(p) PROVE RowInv'
  BY <1>1, <1>3, SaveModelStep, SaveOutboxStep, QueueFirstStep, LockModelStep,
     RollbackModelStep, CommitModelStep DEF Produce
<1>4. ASSUME NEW t \in Worker, NEW s \in Shard, StartTask(t, s) PROVE RowInv'
  BY <1>1, <1>4, UnlockedStep DEF Thread
<1>5. ASSUME NEW t \in Thread, Progress(t) \/ Abort(t) PROVE RowInv'
  BY <1>1, <1>5, UnlockedStep, LockRowStep, BlockOnRowStep, WakeUpStep, CoalesceStep,
     ReadSourceStep, ApplyRemoteStep, DeleteBatchStep, DecisionStep, FinishGroupStep DEF Progress
<1>6. ASSUME NEW s \in Shard, SetOption(s) PROVE RowInv'
  BY <1>1, <1>6, SetOptionStep
<1> QED
  BY <1>2, <1>3, <1>4, <1>5, <1>6 DEF Next

\* The row invariant holds whatever an operator does to the options.
LEMMA RowsInvariant ==
  ASSUME "bulk_update" \notin Kinds
  PROVE  Spec => []RowInv
<1>1. Init => RowInv
  BY Initially DEF IInv
<1>2. RowInv /\ [Next]_vars => RowInv'
  BY RowStep
<1> QED
  BY <1>1, <1>2, PTL DEF Spec

\* Every variable keeps its type (see TypeOK).
THEOREM TypeCorrect ==
  ASSUME "bulk_update" \notin Kinds
  PROVE  Spec => []TypeOK
<1>1. RowInv => TypeOK
  BY DEF RowInv
<1> QED
  BY <1>1, RowsInvariant, PTL

-----------------------------------------------------------------------------
(* While the options stay as they are: nothing committed is lost. *)

\* Which steps touch the rows, the versions and the copies.
LEMMA DataSteps ==
  ASSUME [Next]_vars,
         \A p \in Request, flush \in BOOLEAN : ~CommitModel(p, flush),
         \A t \in Thread : ~ApplyRemote(t) /\ ~FinishGroup(t)
  PROVE  UNCHANGED <<src, gone, replica, outbox, mine, sent>>
<1>1. CASE UNCHANGED vars
  BY <1>1 DEF vars, produced
<1>2. ASSUME NEW p \in Request, Produce(p)
      PROVE  UNCHANGED <<src, gone, replica, outbox, mine, sent>>
  BY <1>2 DEF Produce, SaveModel, SaveOutbox, QueueFirst, LockModel, RollbackModel, NoDrain
<1>3. ASSUME NEW t \in Thread, Progress(t) \/ Abort(t)
      PROVE  UNCHANGED <<src, gone, replica, outbox, mine, sent>>
  BY <1>3 DEF Progress, Abort, StartFlush, EndDrain, LockRow, BlockOnRow, WakeUp, Coalesce,
     ReadSource, DeleteBatch, EndLoop, AskAgain, Return, Quiet, produced
<1>4. ASSUME NEW t \in Worker, NEW s \in Shard, StartTask(t, s)
      PROVE  UNCHANGED <<src, gone, replica, outbox, mine, sent>>
  BY <1>4 DEF StartTask, Quiet, produced
<1>5. ASSUME NEW s \in Shard, SetOption(s)
      PROVE  UNCHANGED <<src, gone, replica, outbox, mine, sent>>
  BY <1>5 DEF SetOption, NoDrain
<1> QED
  BY <1>1, <1>2, <1>3, <1>4, <1>5 DEF Next

\* A row that leaves the table belongs to the drained object; it is older than
\* the coalesced row or is that row itself.
LEMMA RowsDeleted ==
  ASSUME RowInv, NEW t \in Thread, FinishGroup(t),
         NEW r \in outbox, r \notin outbox'
  PROVE  /\ r.obj = obj[t]
         /\ r.id < top[t] \/ (r.id = top[t] /\ r.id \in final[t])
<1>1. pc[t] \in {"commit", "pass"} /\ r.id \in doomed[t] \cup final[t]
  BY DEF FinishGroup
<1> QED
  BY <1>1 DEF RowInv, CoalescedRows, Coalesced, DoomedRows

LEMMA QueuedStep ==
  ASSUME IInv, RowInv', [Next]_vars
  PROVE  LastVersionQueued'
<1>1. ASSUME NEW p \in Request, NEW flush \in BOOLEAN, CommitModel(p, flush)
      PROVE  LastVersionQueued'
  <2>1. PICK o \in Object : o = txn[p].obj
    BY <1>1 DEF CommitModel, IInv, RowInv, SourceLocks
  <2>2. /\ \A x \in Object \ {o} : src'[x] = src[x]
        /\ outbox \subseteq outbox' /\ gone \subseteq gone' /\ UNCHANGED replica
    BY <1>1, <2>1 DEF CommitModel, IInv, RowInv, TypeOK
  <2>3. \E r \in outbox' : r.obj = o /\ r.ver = src'[o]
    <3>1. PICK v : /\ src' = [src EXCEPT ![o] = v]
                   /\ outbox' = outbox \cup {[id |-> txn[p].id, obj |-> o, ver |-> v]}
      BY <1>1, <2>1 DEF CommitModel
    <3>2. src'[o] = v
      BY <3>1 DEF IInv, RowInv, TypeOK
    <3>3. PICK new : new = [id |-> txn[p].id, obj |-> o, ver |-> v]
      OBVIOUS
    <3>4. new.obj = o /\ new.ver = v /\ new \in outbox'
      BY <3>1, <3>3
    <3> QED
      BY <3>2, <3>4
  <2> QED
    BY <2>2, <2>3 DEF IInv, LastVersionQueued, Group
<1>2. ASSUME NEW t \in Thread, ApplyRemote(t)
      PROVE  LastVersionQueued'
  <2>1. PICK o \in Object : o = obj[t]
    BY <1>2 DEF ApplyRemote, IInv, RowInv, RowLocks, Held, Holding
  <2>2. /\ replica'[o] = read[t] /\ \A x \in Object \ {o} : replica'[x] = replica[x]
        /\ UNCHANGED <<src, gone, outbox>>
    BY <1>2, <2>1 DEF ApplyRemote, IInv, RowInv, TypeOK, produced
  <2>3. /\ read[t] \in Nat /\ src[o] \in Nat /\ replica[o] \in Nat
        /\ read[t] <= src[o]
        /\ o \notin gone => replica[o] <= read[t]
    BY <1>2, <2>1 DEF ApplyRemote, IInv, RowInv, ReadIsFresh, TypeOK
  <2> QED
    BY <2>2, <2>3 DEF IInv, LastVersionQueued, Group
<1>3. ASSUME NEW t \in Thread, FinishGroup(t)
      PROVE  LastVersionQueued'
  <2>1. UNCHANGED <<src, gone, replica>> /\ pc[t] \in {"commit", "pass"}
    BY <1>3 DEF FinishGroup, produced
  <2>2. ASSUME NEW o \in Object \ gone, replica[o] # src[o]
        PROVE  \E r \in outbox' : r.obj = o /\ r.ver = src[o]
    <3>1. PICK r \in outbox : r.obj = o /\ r.ver = src[o]
      BY <2>2 DEF IInv, LastVersionQueued, Group
    <3>2. SUFFICES ASSUME r \notin outbox' PROVE FALSE
      BY <3>1
    <3>3. o = obj[t] /\ (r.id < top[t] \/ (r.id = top[t] /\ r.id \in final[t]))
      BY <1>3, <3>1, <3>2, RowsDeleted DEF IInv
    <3>4. CASE r.id < top[t]
      <4>1. PICK last \in outbox : last.id = top[t] /\ last.obj = o
        BY <2>1, <3>3 DEF IInv, RowInv, CoalescedRows, Coalesced
      <4>2. r.ver < last.ver /\ last.ver <= src[o]
        BY <3>1, <3>4, <4>1 DEF IInv, RowInv, VersionsInOrder
      <4>3. src[o] \in Nat /\ last.ver \in Nat
        BY <4>1 DEF IInv, RowInv, TypeOK, Row
      <4> QED
        BY <3>1, <4>2, <4>3
    <3>5. CASE r.id = top[t] /\ r.id \in final[t]
      <4>1. pc[t] = "commit"
        BY <2>1, <3>5 DEF IInv, SkipsAreDisabled
      <4>2. r.ver <= replica[o] /\ replica[o] <= src[o]
        BY <3>3, <3>5, <4>1 DEF IInv, RowInv, ReadIsFresh
      <4>3. replica[o] \in Nat /\ src[o] \in Nat
        BY DEF IInv, RowInv, TypeOK
      <4> QED
        BY <2>2, <3>1, <4>2, <4>3
    <3> QED
      BY <3>3, <3>4, <3>5
  <2> QED
    BY <2>1, <2>2 DEF LastVersionQueued, Group
<1>4. CASE UNCHANGED <<src, gone, replica, outbox>>
  BY <1>4 DEF IInv, LastVersionQueued, Group
<1> QED
  BY <1>1, <1>2, <1>3, <1>4, DataSteps

LEMMA SkipsStep ==
  ASSUME ~OptionMayChange, IInv, [Next]_vars
  PROVE  SkipsAreDisabled'
<1> USE DEF IInv, SkipsAreDisabled, RowInv
<1>1. CASE UNCHANGED vars
  BY <1>1 DEF vars, produced, group
<1>2. ASSUME NEW p \in Request, Produce(p) PROVE SkipsAreDisabled'
  <2>1. CASE NoDrain /\ UNCHANGED disabled
    BY <2>1 DEF NoDrain, group
  <2>2. ASSUME NEW flush \in BOOLEAN, CommitModel(p, flush) PROVE SkipsAreDisabled'
    <3>1. pc[p] = "idle"
      BY <2>2 DEF CommitModel, DrainsAfterCommit
    <3>2. /\ UNCHANGED <<disabled, final>> /\ pc'[p] \notin {"skip", "skipped", "pass"}
          /\ \A t \in Thread \ {p} : pc'[t] = pc[t] /\ shard'[t] = shard[t]
      BY <2>2, <3>1 DEF CommitModel, TypeOK, Thread, group
    <3> QED
      BY <3>2
  <2> QED
    BY <1>2, <2>1, <2>2 DEF Produce, SaveModel, SaveOutbox, QueueFirst, LockModel, RollbackModel
<1>3. ASSUME NEW t \in Worker, NEW s \in Shard, StartTask(t, s) PROVE SkipsAreDisabled'
  BY <1>3 DEF StartTask, Quiet, produced, group, TypeOK, Thread
<1>4. ASSUME NEW t \in Thread, Progress(t) \/ Abort(t) PROVE SkipsAreDisabled'
  <2>1. UNCHANGED disabled
    BY <1>4 DEF Progress, Abort, StartFlush, EndDrain, LockRow, BlockOnRow, WakeUp, Coalesce,
       ReadSource, ApplyRemote, DeleteBatch, EndLoop, AskAgain, FinishGroup, Return, Quiet, produced
  <2>2. \A u \in Thread \ {t} : pc'[u] = pc[u] /\ shard'[u] = shard[u] /\ final'[u] = final[u]
    BY <1>4 DEF Progress, Abort, StartFlush, EndDrain, LockRow, BlockOnRow, WakeUp, Coalesce,
       ReadSource, ApplyRemote, DeleteBatch, EndLoop, AskAgain, FinishGroup, Return, Quiet, TypeOK,
       group, Release
  <2>3. pc'[t] \in {"skip", "skipped", "pass"} => shard'[t] \in disabled /\ final'[t] = {}
    <3>1. CASE Coalesce(t)
      BY <3>1 DEF Coalesce, TypeOK, DoomedRows
    <3>2. CASE DeleteBatch(t) \/ EndLoop(t)
      BY <3>2 DEF DeleteBatch, EndLoop, TypeOK, group
    <3>3. CASE AskAgain(t)
      BY <3>3 DEF AskAgain, LastDeleted, TypeOK
    <3>4. CASE ~Coalesce(t) /\ ~DeleteBatch(t) /\ ~EndLoop(t) /\ ~AskAgain(t)
      BY <1>4, <3>4 DEF Progress, Abort, StartFlush, EndDrain, LockRow, BlockOnRow, WakeUp,
         ReadSource, ApplyRemote, FinishGroup, Return, TypeOK
    <3> QED
      BY <3>1, <3>2, <3>3, <3>4
  <2> QED
    BY <2>1, <2>2, <2>3
<1>5. ~ \E s \in Shard : SetOption(s)
  BY DEF SetOption
<1> QED
  BY <1>1, <1>2, <1>3, <1>4, <1>5 DEF Next

LEMMA Inductive ==
  ASSUME ~OptionMayChange, "bulk_update" \notin Kinds, IInv, [Next]_vars
  PROVE  IInv'
<1>1. RowInv'
  BY RowStep DEF IInv
<1> QED
  BY <1>1, QueuedStep, SkipsStep DEF IInv

\* While the disabled shards stay as they are, the inductive invariant holds.
THEOREM Invariance ==
  ASSUME ~OptionMayChange, "bulk_update" \notin Kinds
  PROVE  Spec => []IInv
<1>1. Init => IInv
  BY Initially
<1>2. IInv /\ [Next]_vars => IInv'
  BY Inductive
<1> QED
  BY <1>1, <1>2, PTL DEF Spec

\* A change made by save() or update() is replicated or its outbox row is
\* still there, for any number of requests, workers, objects and rows, whatever
\* batch the deletion loop fetches and wherever a drain dies.
THEOREM SavesAreNotLost ==
  ASSUME ~OptionMayChange, "bulk_update" \notin Kinds
  PROVE  Spec => []NoLostSave
<1>1. IInv => NoLostSave
  BY DEF IInv, LastVersionQueued, NoLostSave, Group
<1> QED
  BY <1>1, Invariance, PTL

-----------------------------------------------------------------------------
(* Without delete() no object is ever gone, and the rest follows. *)

NothingGone ==
    gone = {} /\ \A p \in Request : txn[p].stage # "queued" /\ txn[p].kind = "save"

LEMMA OnlySaves ==
  ASSUME Kinds \subseteq {"save"}
  PROVE  Spec => []NothingGone
<1>0. Spec => []TypeOK
  BY TypeCorrect
<1>1. Init => NothingGone
  BY DEF Init, NothingGone, NoTxn
<1>2. TypeOK /\ NothingGone /\ [Next]_vars => NothingGone'
  <2> SUFFICES ASSUME TypeOK, NothingGone, [Next]_vars PROVE NothingGone'
    OBVIOUS
  <2> USE DEF NothingGone
  <2>1. CASE UNCHANGED <<gone, txn>>
    BY <2>1
  <2>2. ASSUME NEW p \in Request, Produce(p) PROVE NothingGone'
    <3>1. \A o \in Object : SaveModel(p, o) => NothingGone'
      BY DEF SaveModel, TypeOK
    <3>2. SaveOutbox(p) => NothingGone'
      BY DEF SaveOutbox, TypeOK
    <3>3. ~LockModel(p) /\ ~ \E o \in Object, k \in Kinds : QueueFirst(p, o, k)
      BY DEF LockModel, QueueFirst
    <3>4. \A flush \in BOOLEAN : CommitModel(p, flush) => NothingGone'
      BY DEF CommitModel, NoTxn, TypeOK
    <3>5. RollbackModel(p) => NothingGone'
      BY DEF RollbackModel, NoTxn, TypeOK
    <3> QED
      BY <2>2, <3>1, <3>2, <3>3, <3>4, <3>5 DEF Produce
  <2>3. CASE ~ \E p \in Request : Produce(p)
    <3>1. \A t \in Thread : Progress(t) \/ Abort(t) => UNCHANGED <<gone, txn>>
      BY DEF Progress, Abort, StartFlush, EndDrain, LockRow, BlockOnRow, WakeUp, Coalesce,
         ReadSource, ApplyRemote, DeleteBatch, EndLoop, AskAgain, FinishGroup, Return, Quiet, produced
    <3>2. \A t \in Worker, s \in Shard : StartTask(t, s) => UNCHANGED <<gone, txn>>
      BY DEF StartTask, Quiet, produced
    <3>3. \A s \in Shard : SetOption(s) => UNCHANGED <<gone, txn>>
      BY DEF SetOption
    <3> QED
      BY <2>1, <2>3, <3>1, <3>2, <3>3 DEF Next, vars, produced
  <2> QED
    BY <2>2, <2>3
<1> QED
  BY <1>0, <1>1, <1>2, PTL DEF Spec

\* No two drains hold rows of one object, although each locks one row only and
\* coalesces to another (see OneDrainPerObject).
THEOREM DrainsExclude ==
  ASSUME Kinds \subseteq {"save"}
  PROVE  Spec => []OneDrainPerObject
<1>0. Spec => []RowInv
  BY RowsInvariant
<1>1. RowInv /\ NothingGone => OneDrainPerObject
  BY OnePerObject DEF RowInv, NothingGone, OneDrainPerObject, Held
<1> QED
  BY <1>0, <1>1, OnlySaves, PTL

-----------------------------------------------------------------------------
(* Drains and the shards they belong to. *)

\* A drain holds and waits for rows of its own shard only.
OwnShard ==
    \A t \in Thread :
        /\ Held(t) => ShardOf[obj[t]] = shard[t]
        /\ pc[t] = "wait" => \A r \in outbox : r.id \in snap[t] => ShardOf[r.obj] = shard[t]

\* When a deletion loop is over no row older than the coalesced one is left, or
\* a newer one is: a batch of two or more rows without an older one holds it.
LoopOver(t) ==
    \/ \A r \in Group(obj[t]) : r.id \in doomed[t] \/ top[t] <= r.id
    \/ \E r \in Group(obj[t]) : top[t] < r.id

LoopsEnd ==
    \A t \in Thread :
        /\ pc[t] \in {"deleted", "commit", "skipped", "pass"}
        /\ obj[t] \notin gone
        => LoopOver(t)

\* The receiver was last handed an id that a row still in the table, or still
\* in a transaction, or held by a drain, does not fall behind.
SentBehind ==
    /\ \A o \in Object : sent[o] < nextId
    /\ \A o \in Object \ gone : Group(o) # {} => \E r \in Group(o) : sent[o] <= r.id
    /\ \A p \in Request :
          txn[p].stage = "both" /\ txn[p].kind = "save" => sent[txn[p].obj] < txn[p].id
    /\ \A t \in Thread : Coalesced(t) /\ obj[t] \notin gone => sent[obj[t]] <= top[t]

\* A request's last change is neither given up nor replicated.
Undelivered(p) ==
    /\ mine[p].obj \notin gone
    /\ shard[p] \notin disabled
    /\ replica[mine[p].obj] < mine[p].ver

\* The row r is one that the flush of p has to go through.
InReach(p, r) ==
    /\ pc[p] # "flush" => latest[p] # 0 /\ r.id <= latest[p]
    /\ pc[p] = "wait" => r.id \in snap[p]

\* While a flush is under way its request's change is replicated or still among
\* the rows the flush has to go through.
FlushOf(p) ==
    pc[p] # "idle" =>
        /\ mine[p].obj \in Object
        /\ shard[p] = ShardOf[mine[p].obj]
        /\ Undelivered(p) =>
              /\ pc[p] # "done"
              /\ \E r \in Group(mine[p].obj) : r.ver = mine[p].ver /\ InReach(p, r)

FlushGoesOn == \A p \in Request : FlushOf(p)

\* A request that commits was not draining; its row is new to every snapshot.
LEMMA CommitFrame ==
  ASSUME RowInv, NEW p \in Request, NEW flush \in BOOLEAN, CommitModel(p, flush)
  PROVE  /\ p \in Thread /\ pc[p] = "idle" /\ pc'[p] \in {"idle", "flush"}
         /\ \A t \in Thread \ {p} : pc'[t] = pc[t] /\ shard'[t] = shard[t]
         /\ UNCHANGED <<snap, obj, top, latest, disabled, replica, sent, nextId>>
         /\ gone \subseteq gone'
         /\ \E new \in outbox' :
               /\ new.id = txn[p].id /\ new.obj = txn[p].obj /\ new.obj \in Object
               /\ outbox' = outbox \cup {new}
               /\ \A t \in Thread : new.id \notin snap[t]
<1>1. /\ txn[p].stage = "both" /\ txn[p].obj \in Object
      /\ p \in Thread /\ pc[p] = "idle"
  BY DEF CommitModel, RowInv, DrainsAfterCommit, SourceLocks, Thread
<1>2. /\ pc'[p] \in {"idle", "flush"}
      /\ \A t \in Thread \ {p} : pc'[t] = pc[t] /\ shard'[t] = shard[t]
      /\ UNCHANGED <<snap, obj, top, latest, disabled, replica, sent, nextId>>
      /\ gone \subseteq gone'
  BY <1>1 DEF CommitModel, RowInv, TypeOK, group
<1>3. PICK v : outbox' = outbox \cup {[id |-> txn[p].id, obj |-> txn[p].obj, ver |-> v]}
  BY DEF CommitModel
<1>4. PICK new : new = [id |-> txn[p].id, obj |-> txn[p].obj, ver |-> v]
  OBVIOUS
<1>5. new.id = txn[p].id /\ new.obj = txn[p].obj /\ outbox' = outbox \cup {new}
  BY <1>3, <1>4
<1>6. \A t \in Thread : new.id \notin snap[t]
  BY <1>1, <1>5 DEF RowInv, SeenIds, Numbered
<1> QED
  BY <1>1, <1>2, <1>5, <1>6

\* What every step of a drain leaves alone.
LEMMA DrainFrame ==
  ASSUME RowInv, NEW t \in Thread,
         Progress(t) \/ Abort(t) \/ (\E s \in Shard : StartTask(t, s))
  PROVE  /\ UNCHANGED <<src, gone, nextId, txn, disabled, mine>>
         /\ outbox' \subseteq outbox
         /\ \A u \in Thread \ {t} :
               /\ pc'[u] = pc[u] /\ shard'[u] = shard[u] /\ latest'[u] = latest[u]
               /\ snap'[u] = snap[u] /\ obj'[u] = obj[u] /\ top'[u] = top[u]
<1> USE DEF Quiet, produced, group, Release, RowInv, TypeOK
<1>1. /\ UNCHANGED <<src, gone, nextId, txn, disabled, mine>>
      /\ outbox' \subseteq outbox
  BY DEF Progress, Abort, StartTask, StartFlush, EndDrain, LockRow, BlockOnRow, WakeUp, Coalesce,
     ReadSource, ApplyRemote, DeleteBatch, EndLoop, AskAgain, FinishGroup, Return
<1>2. \A u \in Thread \ {t} : pc'[u] = pc[u] /\ shard'[u] = shard[u] /\ latest'[u] = latest[u]
  BY DEF Progress, Abort, StartTask, StartFlush, EndDrain, LockRow, BlockOnRow, WakeUp, Coalesce,
     ReadSource, ApplyRemote, DeleteBatch, EndLoop, AskAgain, FinishGroup, Return
<1>3. \A u \in Thread \ {t} : snap'[u] = snap[u] /\ obj'[u] = obj[u] /\ top'[u] = top[u]
  BY DEF Progress, Abort, StartTask, StartFlush, EndDrain, LockRow, BlockOnRow, WakeUp, Coalesce,
     ReadSource, ApplyRemote, DeleteBatch, EndLoop, AskAgain, FinishGroup, Return
<1> QED
  BY <1>1, <1>2, <1>3

\* The steps that touch no drain.
LEMMA QuietSteps ==
  ASSUME [Next]_vars,
         \A p \in Request, flush \in BOOLEAN : ~CommitModel(p, flush),
         \A t \in Thread : ~Progress(t) /\ ~Abort(t),
         \A t \in Worker, s \in Shard : ~StartTask(t, s)
  PROVE  UNCHANGED <<outbox, pc, shard, latest, snap, row, obj, top, read>>
<1>1. CASE UNCHANGED vars
  BY <1>1 DEF vars, group
<1>2. ASSUME NEW p \in Request, Produce(p) PROVE NoDrain /\ UNCHANGED outbox
  BY <1>2 DEF Produce, SaveModel, SaveOutbox, QueueFirst, LockModel, RollbackModel
<1>3. ASSUME NEW s \in Shard, SetOption(s) PROVE NoDrain /\ UNCHANGED outbox
  BY <1>3 DEF SetOption
<1> QED
  BY <1>1, <1>2, <1>3 DEF Next, NoDrain, group

LEMMA OwnShardStep ==
  ASSUME RowInv, OwnShard, [Next]_vars
  PROVE  OwnShard'
<1>1. ASSUME NEW p \in Request, NEW flush \in BOOLEAN, CommitModel(p, flush)
      PROVE  OwnShard'
  BY <1>1, CommitFrame DEF OwnShard, Held, Holding
<1>2. ASSUME NEW t \in Thread, Progress(t) \/ Abort(t) \/ (\E s \in Shard : StartTask(t, s))
      PROVE  OwnShard'
  <2>1. /\ outbox' \subseteq outbox
        /\ \A u \in Thread \ {t} : /\ pc'[u] = pc[u] /\ shard'[u] = shard[u]
                                   /\ snap'[u] = snap[u] /\ obj'[u] = obj[u]
    BY <1>2, DrainFrame
  <2>2. Held(t)' => ShardOf[obj'[t]] = shard'[t]
    <3> USE DEF OwnShard, Held, Holding, RowInv, TypeOK
    <3>1. CASE LockRow(t)
      BY <3>1 DEF LockRow, Candidates, InShard
    <3>2. CASE WakeUp(t)
      <4>1. pc[t] = "wait" /\ UNCHANGED shard
        BY <3>2 DEF WakeUp
      <4>2. CASE pc' = [pc EXCEPT ![t] = "done"]
        BY <4>2
      <4>3. ASSUME NEW r \in Alive(t), obj' = [obj EXCEPT ![t] = r.obj]
            PROVE  ShardOf[obj'[t]] = shard'[t]
        BY <4>1, <4>3 DEF Alive
      <4> QED
        BY <3>2, <4>2, <4>3 DEF WakeUp
    <3> QED
      BY <1>2, <3>1, <3>2 DEF Progress, Abort, StartTask, StartFlush, EndDrain, BlockOnRow, Coalesce,
         ReadSource, ApplyRemote, DeleteBatch, EndLoop, AskAgain, FinishGroup, Return, group
  <2>3. pc'[t] = "wait" => \A r \in outbox' : r.id \in snap'[t] => ShardOf[r.obj] = shard'[t]
    <3> USE DEF RowInv, TypeOK
    <3>1. CASE BlockOnRow(t)
      <4>1. /\ UNCHANGED <<outbox, shard>>
            /\ snap'[t] = Ids(Candidates(t))
        BY <3>1 DEF BlockOnRow, Quiet
      <4> QED
        BY <4>1 DEF Ids, Candidates, InShard, FreshIds
    <3>2. CASE ~BlockOnRow(t)
      BY <1>2, <3>2 DEF Progress, Abort, StartTask, StartFlush, EndDrain, LockRow, WakeUp, Coalesce,
         ReadSource, ApplyRemote, DeleteBatch, EndLoop, AskAgain, FinishGroup, Return, Holding
    <3> QED
      BY <3>1, <3>2
  <2> QED
    BY <2>1, <2>2, <2>3 DEF OwnShard, Held
<1>3. CASE UNCHANGED <<outbox, pc, shard, snap, obj>>
  BY <1>3 DEF OwnShard, Held
<1> QED
  BY <1>1, <1>2, <1>3, QuietSteps DEF Thread

LEMMA DrainsStayInTheirShard ==
  ASSUME "bulk_update" \notin Kinds
  PROVE  Spec => [](RowInv /\ OwnShard)
<1>1. Init => RowInv /\ OwnShard
  BY Initially DEF IInv, Init, OwnShard, Held, Holding
<1>2. RowInv /\ OwnShard /\ [Next]_vars => RowInv' /\ OwnShard'
  BY RowStep, OwnShardStep
<1> QED
  BY <1>1, <1>2, PTL DEF Spec

\* The newest row of an object leaves the table when the object's copy is at
\* least as new, or by a drain that asked when the shard was disabled and once
\* more when it was enabled.
LEMMA UnsentRowStays ==
  ASSUME RowInv, [Next]_vars,
         NEW r \in outbox, r.obj \notin gone, Last(r, Group(r.obj)), replica[r.obj] < r.ver,
         \A t \in Thread : pc[t] = "pass" => r.id \notin final[t]
  PROVE  r \in outbox'
<1>1. ASSUME NEW t \in Thread, FinishGroup(t), r \notin outbox'
      PROVE  FALSE
  <2>1. Coalesced(t) /\ Held(t) /\ pc[t] \in {"commit", "pass"}
    BY <1>1 DEF FinishGroup, Coalesced, Held, Holding
  <2>2. r.obj = obj[t] /\ (r.id < top[t] \/ (r.id = top[t] /\ r.id \in final[t]))
    BY <1>1, RowsDeleted
  <2>3. ~(r.id < top[t])
    <3>1. PICK last \in outbox : last.id = top[t] /\ last.obj = r.obj
      BY <2>1, <2>2 DEF RowInv, CoalescedRows
    <3>2. last.id <= r.id
      BY <3>1 DEF Last, Group
    <3> QED
      BY <3>1, <3>2 DEF RowInv, TypeOK, Row, Id
  <2>4. r.id = top[t] /\ pc[t] = "commit"
    BY <2>1, <2>2, <2>3
  <2>5. r.ver <= replica[r.obj]
    BY <2>2, <2>4 DEF RowInv, ReadIsFresh
  <2> QED
    BY <2>5 DEF RowInv, TypeOK, Row
<1>2. ASSUME NEW p \in Request, NEW flush \in BOOLEAN, CommitModel(p, flush)
      PROVE  r \in outbox'
  BY <1>2, CommitFrame
<1>3. ASSUME NEW t \in Thread, ApplyRemote(t)
      PROVE  r \in outbox'
  BY <1>3 DEF ApplyRemote
<1> QED
  BY <1>1, <1>2, <1>3, DataSteps

\* However often options change while drains are under way, and with deletes of
\* the same and other objects, an unsent row is deleted by no drain but one that
\* found its shard disabled and then enabled (see UnsentRowsStay).
THEOREM UnsentRowsRemain ==
  ASSUME "bulk_update" \notin Kinds
  PROVE  Spec => UnsentRowsStay
<1>1. RowInv /\ [Next]_vars
         => [\A r \in outbox :
                /\ r.obj \notin gone
                /\ Last(r, Group(r.obj))
                /\ replica[r.obj] < r.ver
                /\ \A t \in Thread : pc[t] = "pass" => r.id \notin final[t]
                => r \in outbox']_vars
  BY UnsentRowStays
<1> QED
  BY <1>1, RowsInvariant, PTL DEF Spec, UnsentRowsStay

-----------------------------------------------------------------------------
(* The order in which the receiver is handed the rows of an object. *)

\* The last fetch of a deletion loop.
LEMMA EndLoopStep ==
  ASSUME RowInv, BatchSize > 1, NEW t \in Thread, EndLoop(t)
  PROVE  LoopOver(t)'
<1> DEFINE o == obj[t]
<1>1. UNCHANGED <<outbox, obj, top, doomed>> /\ top[t] \in Nat
  BY DEF EndLoop, RowInv, TypeOK, Quiet, group
<1>2. PICK batch \in SUBSET Ids(Group(o)) :
         Fetched(t, batch) /\ Older(t, batch) = {}
  BY DEF EndLoop
<1>3. ASSUME NEW i \in batch
      PROVE  i \in Nat /\ top[t] <= i /\ \E r \in Group(o) : r.id = i
  <2>1. PICK r \in outbox : r.id = i /\ r.obj = o
    BY <1>2 DEF Ids, Group
  <2>2. i \in Nat /\ ~(i < top[t])
    BY <1>2, <2>1 DEF Older, RowInv, TypeOK, Row, Id
  <2> QED
    BY <1>1, <2>1, <2>2 DEF Group
<1>4. CASE \E i \in batch : i # top[t]
  <2>1. \E r \in Group(o) : top[t] < r.id
    BY <1>1, <1>3, <1>4
  <2> QED
    BY <1>1, <2>1 DEF LoopOver, Group
<1>5. CASE \A i \in batch : i = top[t]
  <2>1. batch = {} \/ batch = {top[t]}
    BY <1>5
  <2>2. Cardinality(batch) < 2
    <3>1. Cardinality({}) = 0
      BY FS_EmptySet
    <3>2. Cardinality({top[t]}) = 1
      BY FS_Singleton
    <3> QED
      BY <2>1, <3>1, <3>2
  <2>3. batch = Ids(Group(o)) \ doomed[t]
    BY <1>2, <2>2, BoundsAssumption DEF Fetched
  <2>4. \A r \in Group(o) : r.id \in doomed[t] \/ top[t] <= r.id
    BY <1>3, <2>3 DEF Ids
  <2> QED
    BY <1>1, <2>4 DEF LoopOver, Group
<1> QED
  BY <1>4, <1>5

LEMMA LoopsEndStep ==
  ASSUME "bulk_update" \notin Kinds, BatchSize > 1, RowInv, LoopsEnd, [Next]_vars
  PROVE  LoopsEnd'
<1> SUFFICES ASSUME NEW t \in Thread,
                    pc'[t] \in {"deleted", "commit", "skipped", "pass"}, obj'[t] \notin gone'
             PROVE  LoopOver(t)'
  BY DEF LoopsEnd
<1>1. ASSUME NEW p \in Request, NEW flush \in BOOLEAN, CommitModel(p, flush)
      PROVE  LoopOver(t)'
  <2>1. PICK new \in outbox' :
           /\ new.id = txn[p].id /\ new.obj = txn[p].obj /\ new.obj \in Object
           /\ outbox' = outbox \cup {new}
    BY <1>1, CommitFrame
  <2>2. /\ UNCHANGED <<obj, top, doomed>> /\ gone \subseteq gone' /\ pc'[t] = pc[t]
        /\ obj[t] \notin gone /\ LoopOver(t)
    <3>1. UNCHANGED <<obj, top, doomed>> /\ gone \subseteq gone' /\ pc'[t] = pc[t]
      BY <1>1, CommitFrame DEF CommitModel, group
    <3> QED
      BY <3>1 DEF LoopsEnd
  <2>3. CASE new.obj = obj[t]
    <3>1. txn[p].kind = "save" /\ txn[p].stage = "both"
      BY <1>1, <2>1, <2>2, <2>3 DEF CommitModel, RowInv, VersionsInOrder
    <3>2. PICK last \in outbox : last.id = top[t] /\ last.obj = obj[t]
      BY <2>2 DEF RowInv, CoalescedRows, Coalesced
    <3>3. top[t] < new.id
      BY <2>1, <2>3, <3>1, <3>2 DEF RowInv, VersionsInOrder, Group
    <3> QED
      BY <2>1, <2>2, <2>3, <3>3 DEF LoopOver, Group
  <2>4. CASE new.obj # obj[t]
    <3>1. Group(obj[t])' = Group(obj[t])
      BY <2>1, <2>2, <2>4 DEF Group
    <3> QED
      BY <2>2, <3>1 DEF LoopOver
  <2> QED
    BY <2>3, <2>4
<1>2. ASSUME NEW u \in Thread, u # t,
             Progress(u) \/ Abort(u) \/ (\E s \in Shard : StartTask(u, s))
      PROVE  LoopOver(t)'
  <2>1. /\ UNCHANGED gone /\ outbox' \subseteq outbox
        /\ pc'[t] = pc[t] /\ obj'[t] = obj[t] /\ top'[t] = top[t]
    BY <1>2, DrainFrame
  <2>2. doomed'[t] = doomed[t]
    BY <1>2 DEF Progress, Abort, StartTask, StartFlush, EndDrain, LockRow, BlockOnRow, WakeUp,
       Coalesce, ReadSource, ApplyRemote, DeleteBatch, EndLoop, AskAgain, FinishGroup, Return,
       group, Release, RowInv, TypeOK
  <2>3. LoopOver(t) /\ Held(t)
    BY <2>1 DEF LoopsEnd, Held, Holding
  <2>4. Group(obj[t])' = Group(obj[t])
    <3>1. CASE FinishGroup(u)
      <4>1. Held(u)
        BY <3>1 DEF FinishGroup, Held, Holding
      <4>2. obj[u] # obj[t]
        BY <1>2, <2>1, <2>3, <4>1, OnePerObject DEF RowInv
      <4> QED
        BY <2>1, <3>1, <4>2, RowsDeleted DEF Group
    <3>2. CASE ~FinishGroup(u)
      BY <1>2, <2>1, <3>2 DEF Progress, Abort, StartTask, StartFlush, EndDrain, LockRow, BlockOnRow,
         WakeUp, Coalesce, ReadSource, ApplyRemote, DeleteBatch, EndLoop, AskAgain, Return, Quiet,
         Group
    <3> QED
      BY <3>1, <3>2
  <2> QED
    BY <2>1, <2>2, <2>3, <2>4 DEF LoopOver
<1>3. ASSUME Progress(t) \/ Abort(t) \/ (\E s \in Shard : StartTask(t, s))
      PROVE  LoopOver(t)'
  <2>1. CASE EndLoop(t)
    BY <2>1, EndLoopStep
  <2>2. CASE AskAgain(t)
    <3>1. /\ UNCHANGED <<gone, outbox, obj, top, doomed>>
          /\ pc[t] \in {"deleted", "skipped"}
      BY <2>2 DEF AskAgain, Quiet, produced
    <3> QED
      BY <3>1 DEF LoopsEnd, LoopOver, Group
  <2>3. CASE ~EndLoop(t) /\ ~AskAgain(t)
    BY <1>3, <2>3 DEF Progress, Abort, StartTask, StartFlush, EndDrain, LockRow, BlockOnRow, WakeUp,
       Coalesce, ReadSource, ApplyRemote, DeleteBatch, FinishGroup, Return, RowInv, TypeOK
  <2> QED
    BY <2>1, <2>2, <2>3
<1>4. CASE UNCHANGED <<gone, outbox, pc, obj, top, doomed>>
  BY <1>4 DEF LoopsEnd, LoopOver, Group
<1>5. ASSUME \A p \in Request, flush \in BOOLEAN : ~CommitModel(p, flush),
             \A u \in Thread : ~Progress(u) /\ ~Abort(u),
             \A u \in Worker, s \in Shard : ~StartTask(u, s)
      PROVE  UNCHANGED <<gone, outbox, pc, obj, top, doomed>>
  <2>1. CASE UNCHANGED vars
    BY <2>1 DEF vars, produced, group
  <2>2. ASSUME NEW p \in Request, Produce(p) PROVE NoDrain /\ UNCHANGED <<gone, outbox>>
    BY <1>5, <2>2 DEF Produce, SaveModel, SaveOutbox, QueueFirst, LockModel, RollbackModel
  <2>3. ASSUME NEW s \in Shard, SetOption(s) PROVE NoDrain /\ UNCHANGED <<gone, outbox>>
    BY <2>3 DEF SetOption
  <2> QED
    BY <1>5, <2>1, <2>2, <2>3 DEF Next, NoDrain, group
<1> QED
  BY <1>1, <1>2, <1>3, <1>4, <1>5 DEF Thread

LEMMA SentStep ==
  ASSUME "bulk_update" \notin Kinds, RowInv, LoopsEnd, SentBehind, RowInv', [Next]_vars
  PROVE  SentBehind'
<1>0. /\ nextId \in Nat /\ \A o \in Object : sent[o] \in Nat
      /\ \A r \in outbox : r.id \in Nat /\ r.obj \in Object
  BY DEF RowInv, TypeOK, Row, Id
<1>1. ASSUME NEW p \in Request, NEW flush \in BOOLEAN, CommitModel(p, flush)
      PROVE  SentBehind'
  <2>1. PICK new \in outbox' :
           /\ new.id = txn[p].id /\ new.obj = txn[p].obj /\ new.obj \in Object
           /\ outbox' = outbox \cup {new}
    BY <1>1, CommitFrame
  <2>2. /\ UNCHANGED <<obj, top, sent, nextId>>
        /\ gone \subseteq gone'
        /\ \A t \in Thread : Coalesced(t)' => Coalesced(t)
    BY <1>1, CommitFrame DEF Coalesced
  <2>3. /\ txn[p].stage = "both"
        /\ txn'[p].stage = "none" /\ \A q \in Request \ {p} : txn'[q] = txn[q]
    BY <1>1 DEF CommitModel, RowInv, TypeOK, NoTxn
  <2>4. new.obj \notin gone' => sent[new.obj] < new.id
    <3>1. new.obj \notin gone' => txn[p].kind = "save"
      BY <1>1, <2>1 DEF CommitModel, RowInv, VersionsInOrder
    <3> QED
      BY <2>1, <2>3, <3>1 DEF SentBehind
  <2>5. new.id \in Nat
    BY <2>1 DEF RowInv, TypeOK, Row, Id
  <2>6. \A o \in Object \ gone' : Group(o)' # {} => \E r \in Group(o)' : sent[o] <= r.id
    <3> SUFFICES ASSUME NEW o \in Object \ gone', NEW x \in outbox', x.obj = o
                 PROVE  \E r \in outbox' : r.obj = o /\ sent[o] <= r.id
      BY DEF Group
    <3>1. CASE o = new.obj
      BY <1>0, <2>1, <2>4, <2>5, <3>1
    <3>2. CASE o # new.obj
      BY <2>1, <2>2, <3>2 DEF SentBehind, Group
    <3> QED
      BY <3>1, <3>2
  <2>7. \A q \in Request : txn'[q].stage = "both" /\ txn'[q].kind = "save"
                              => sent[txn'[q].obj] < txn'[q].id
    BY <2>3 DEF SentBehind
  <2> QED
    BY <2>2, <2>6, <2>7 DEF SentBehind
<1>2. ASSUME NEW p \in Request, Produce(p), NoDrain, UNCHANGED <<gone, outbox>>
      PROVE  SentBehind'
  <2>1. UNCHANGED <<sent, pc, obj, top>>
    BY <1>2 DEF NoDrain, group
  <2>2. nextId' \in {nextId, nextId + 1}
    BY <1>2 DEF Produce, SaveModel, SaveOutbox, QueueFirst, LockModel, CommitModel, RollbackModel
  <2>3. ASSUME NEW q \in Request, txn'[q].stage = "both", txn'[q].kind = "save"
        PROVE  sent[txn'[q].obj] < txn'[q].id
    <3>1. CASE txn'[q] = txn[q]
      BY <2>3, <3>1 DEF SentBehind
    <3>2. CASE txn'[q] # txn[q]
      <4>1. CASE SaveOutbox(p)
        <5>1. q = p /\ txn'[p].obj = txn[p].obj /\ txn'[p].id = nextId /\ txn[p].stage # "none"
          BY <3>2, <4>1 DEF SaveOutbox, RowInv, TypeOK
        <5> QED
          BY <5>1 DEF SentBehind, RowInv, SourceLocks
      <4>2. CASE LockModel(p)
        <5>1. q = p /\ txn[p].stage = "queued" /\ txn'[p].kind = txn[p].kind
          BY <3>2, <4>2 DEF LockModel, RowInv, TypeOK, Txn
        <5> QED
          BY <2>3, <5>1 DEF RowInv, VersionsInOrder
      <4>3. CASE ~SaveOutbox(p) /\ ~LockModel(p)
        BY <1>2, <2>3, <3>2, <4>3
           DEF Produce, SaveModel, QueueFirst, CommitModel, RollbackModel, NoTxn, RowInv, TypeOK
      <4> QED
        BY <4>1, <4>2, <4>3
    <3> QED
      BY <3>1, <3>2
  <2> QED
    BY <1>0, <1>2, <2>1, <2>2, <2>3 DEF SentBehind, Coalesced, Group
<1>3. ASSUME NEW t \in Thread, ApplyRemote(t)
      PROVE  SentBehind'
  <2>1. /\ UNCHANGED <<gone, outbox, nextId, txn, obj, top>>
        /\ Coalesced(t) /\ Held(t)
        /\ \A u \in Thread : Coalesced(u)' => Coalesced(u) /\ Held(u)
    BY <1>3 DEF ApplyRemote, Coalesced, Held, Holding, produced, group, RowInv, TypeOK
  <2>2. PICK o \in Object : o = obj[t]
    BY <2>1 DEF RowInv, RowLocks
  <2>3. sent'[o] = top[t] /\ \A x \in Object \ {o} : sent'[x] = sent[x]
    BY <1>3, <2>2 DEF ApplyRemote, RowInv, TypeOK
  <2>4. top[t] < nextId /\ top[t] \in Nat
    BY DEF RowInv, SeenIds, TypeOK
  <2>5. o \notin gone => \E r \in Group(o) : r.id = top[t]
    BY <2>1, <2>2 DEF RowInv, CoalescedRows, Group
  <2>6. \A p \in Request : txn[p].stage = "both" /\ txn[p].kind = "save" =>
           /\ txn[p].obj \in Object
           /\ txn[p].obj = o => top[t] < txn[p].id
    BY <2>5 DEF RowInv, VersionsInOrder, SourceLocks
  <2>7. ASSUME NEW u \in Thread, Coalesced(u)', obj[u] \notin gone
        PROVE  sent'[obj[u]] <= top[u]
    <3>1. obj[u] \in Object /\ Held(u) /\ Coalesced(u)
      BY <2>1, <2>7 DEF RowInv, RowLocks
    <3>2. CASE obj[u] = o
      <4>1. u = t
        BY <2>1, <2>2, <2>7, <3>1, <3>2, OnePerObject DEF RowInv
      <4> QED
        BY <2>2, <2>3, <2>4, <4>1
    <3>3. CASE obj[u] # o
      BY <2>3, <2>7, <3>1, <3>3 DEF SentBehind
    <3> QED
      BY <3>2, <3>3
  <2>8. \A x \in Object \ gone : Group(x)' # {} => \E r \in Group(x)' : sent'[x] <= r.id
    BY <2>1, <2>3, <2>4, <2>5 DEF SentBehind, Group
  <2>9. \A x \in Object : sent'[x] < nextId
    BY <2>3, <2>4 DEF SentBehind
  <2> QED
    BY <2>1, <2>3, <2>6, <2>7, <2>8, <2>9 DEF SentBehind
<1>4. ASSUME NEW t \in Thread, FinishGroup(t)
      PROVE  SentBehind'
  <2>1. /\ UNCHANGED <<gone, nextId, txn, sent>> /\ outbox' \subseteq outbox
        /\ Coalesced(t) /\ Held(t) /\ top[t] \in Nat
    BY <1>4 DEF FinishGroup, produced, Coalesced, Held, Holding, RowInv, TypeOK
  <2>2. \A u \in Thread : Coalesced(u)' => Coalesced(u) /\ obj'[u] = obj[u] /\ top'[u] = top[u]
    BY <1>4 DEF FinishGroup, Release, Coalesced, RowInv, TypeOK
  <2>3. ASSUME NEW o \in Object \ gone, Group(o)' # {}
        PROVE  \E r \in Group(o)' : sent[o] <= r.id
    <3>1. CASE o = obj[t]
      <4>1. PICK r \in Group(o)' : top[t] <= r.id
        <5>1. LoopOver(t) /\ outbox' = {r \in outbox : r.id \notin doomed[t] \cup final[t]}
          BY <1>4, <2>3, <3>1 DEF FinishGroup, LoopsEnd
        <5>2. CASE \A r \in Group(o) : r.id \in doomed[t] \/ top[t] <= r.id
          BY <2>3, <5>1, <5>2 DEF Group
        <5>3. ASSUME NEW r \in Group(o), top[t] < r.id PROVE r \in Group(o)'
          <6>1. r.id \notin doomed[t] /\ r.id # top[t]
            BY <1>0, <2>1, <5>3 DEF RowInv, CoalescedRows, Group
          <6> QED
            BY <5>1, <5>3, <6>1 DEF RowInv, DoomedRows, Group
        <5> QED
          BY <1>0, <2>1, <3>1, <5>1, <5>2, <5>3 DEF LoopOver, Group
      <4>2. sent[o] <= top[t]
        BY <2>1, <2>3, <3>1 DEF SentBehind
      <4>3. r.id \in Nat
        BY <1>0, <2>1 DEF Group
      <4> QED
        BY <1>0, <2>1, <4>1, <4>2, <4>3
    <3>2. CASE o # obj[t]
      <4>1. Group(o)' = Group(o)
        BY <1>4, <2>1, <3>2, RowsDeleted DEF Group
      <4> QED
        BY <2>3, <4>1 DEF SentBehind
    <3> QED
      BY <3>1, <3>2
  <2> QED
    BY <2>1, <2>2, <2>3 DEF SentBehind
<1>5. ASSUME NEW t \in Thread, Coalesce(t)
      PROVE  SentBehind'
  <2>1. /\ UNCHANGED <<gone, outbox, nextId, txn, sent, obj>>
        /\ \A u \in Thread \ {t} : pc'[u] = pc[u] /\ top'[u] = top[u]
    BY <1>5 DEF Coalesce, Quiet, produced, RowInv, TypeOK
  <2>2. PICK last \in Group(obj[t]) : Last(last, Group(obj[t])) /\ top'[t] = last.id
    BY <1>5 DEF Coalesce, RowInv, TypeOK
  <2>3. obj[t] \in Object
    BY <1>5 DEF Coalesce, RowInv, RowLocks, Held, Holding
  <2>4. obj[t] \notin gone => sent[obj[t]] <= top'[t]
    <3>1. SUFFICES ASSUME obj[t] \notin gone PROVE sent[obj[t]] <= last.id
      BY <2>2
    <3>2. PICK r \in Group(obj[t]) : sent[obj[t]] <= r.id
      BY <2>2, <2>3, <3>1 DEF SentBehind
    <3>3. r.id <= last.id /\ r.id \in Nat /\ last.id \in Nat
      BY <1>0, <2>2 DEF Last, Group
    <3> QED
      BY <1>0, <2>3, <3>2, <3>3
  <2> QED
    BY <2>1, <2>4 DEF SentBehind, Coalesced, Group
<1>6. ASSUME NEW t \in Thread, Progress(t) \/ Abort(t) \/ (\E s \in Shard : StartTask(t, s)),
             ~ApplyRemote(t), ~FinishGroup(t), ~Coalesce(t)
      PROVE  SentBehind'
  <2>1. UNCHANGED <<gone, outbox, nextId, txn, sent>>
    BY <1>6 DEF Progress, Abort, StartTask, StartFlush, EndDrain, LockRow, BlockOnRow, WakeUp,
       ReadSource, DeleteBatch, EndLoop, AskAgain, Return, Quiet, produced
  <2>2. \A u \in Thread \ {t} : pc'[u] = pc[u] /\ obj'[u] = obj[u] /\ top'[u] = top[u]
    BY <1>6, DrainFrame
  <2>3. Coalesced(t)' => Coalesced(t)
    BY <1>6 DEF Progress, Abort, StartTask, StartFlush, EndDrain, LockRow, BlockOnRow, WakeUp,
       ReadSource, DeleteBatch, EndLoop, AskAgain, Return, Coalesced, RowInv, TypeOK
  <2>4. Coalesced(t)' => obj'[t] = obj[t] /\ top'[t] = top[t]
    BY <1>6 DEF Progress, Abort, StartTask, StartFlush, EndDrain, LockRow, BlockOnRow, WakeUp,
       ReadSource, DeleteBatch, EndLoop, AskAgain, Return, group, Coalesced, RowInv, TypeOK
  <2> QED
    BY <2>1, <2>2, <2>3, <2>4 DEF SentBehind, Coalesced, Group
<1>7. CASE NoDrain /\ UNCHANGED <<gone, outbox, nextId, txn>>
  BY <1>7 DEF NoDrain, group, SentBehind, Coalesced, Group
<1>8. ASSUME NEW p \in Request, Produce(p), \A flush \in BOOLEAN : ~CommitModel(p, flush)
      PROVE  NoDrain /\ UNCHANGED <<gone, outbox>>
  BY <1>8 DEF Produce, SaveModel, SaveOutbox, QueueFirst, LockModel, RollbackModel
<1>9. ASSUME NEW s \in Shard, SetOption(s)
      PROVE  NoDrain /\ UNCHANGED <<gone, outbox, nextId, txn>>
  BY <1>9 DEF SetOption
<1>10. UNCHANGED vars => NoDrain /\ UNCHANGED <<gone, outbox, nextId, txn>>
  BY DEF vars, NoDrain, produced
<1> QED
  BY <1>1, <1>2, <1>3, <1>4, <1>5, <1>6, <1>7, <1>8, <1>9, <1>10 DEF Next, Thread

\* The receiver of an object that is not deleted is handed rows in the order of
\* their ids, whoever drains, dies or changes the options, as long as a deletion
\* batch takes two rows or more (see SentNeverRegresses).
THEOREM HandedInOrder ==
  ASSUME Kinds \subseteq {"save"}, BatchSize > 1
  PROVE  Spec => SentNeverRegresses
<1>1. Init => LoopsEnd /\ SentBehind
  BY DEF Init, LoopsEnd, SentBehind, Coalesced, Group, NoTxn, Id
<1>2. RowInv /\ RowInv' /\ LoopsEnd /\ SentBehind /\ [Next]_vars => LoopsEnd' /\ SentBehind'
  BY LoopsEndStep, SentStep
<1>3. RowInv /\ SentBehind /\ NothingGone /\ [Next]_vars
         => [\A o \in Object : sent'[o] >= sent[o]]_vars
  <2> SUFFICES ASSUME RowInv, SentBehind, NothingGone, [Next]_vars
               PROVE  \A o \in Object : sent'[o] >= sent[o]
    OBVIOUS
  <2>1. \A o \in Object : sent[o] \in Nat
    BY DEF RowInv, TypeOK
  <2>2. ASSUME NEW t \in Thread, ApplyRemote(t) PROVE \A o \in Object : sent'[o] >= sent[o]
    <3>1. sent[obj[t]] <= top[t] /\ top[t] \in Nat /\ sent' = [sent EXCEPT ![obj[t]] = top[t]]
      BY <2>2 DEF ApplyRemote, SentBehind, Coalesced, NothingGone, RowInv, TypeOK
    <3> QED
      BY <2>1, <3>1 DEF RowInv, TypeOK
  <2>3. ASSUME NEW p \in Request, NEW flush \in BOOLEAN, CommitModel(p, flush) PROVE UNCHANGED sent
    BY <2>3 DEF CommitModel
  <2>4. ASSUME NEW t \in Thread, FinishGroup(t) PROVE UNCHANGED sent
    BY <2>4 DEF FinishGroup
  <2> QED
    BY <2>1, <2>2, <2>3, <2>4, DataSteps
<1>4. Spec => []RowInv
  BY RowsInvariant
<1> QED
  BY <1>1, <1>2, <1>3, <1>4, OnlySaves, PTL DEF Spec, SentNeverRegresses

-----------------------------------------------------------------------------
(* What a flush on commit has achieved when it returns. *)

\* The copy of an object that is not deleted never goes back.
LEMMA CopiesAdvance ==
  ASSUME RowInv, NEW t \in Thread, ApplyRemote(t), NEW o \in Object \ gone
  PROVE  replica[o] <= replica'[o]
<1>1. pc[t] = "apply" /\ replica' = [replica EXCEPT ![obj[t]] = read[t]]
  BY DEF ApplyRemote
<1>2. \A x \in Object : replica[x] \in Nat
  BY DEF RowInv, TypeOK
<1> QED
  BY <1>1, <1>2 DEF RowInv, ReadIsFresh, TypeOK

\* A row of a change that the other silo does not have yet is left alone by
\* every drain that finishes.
LEMMA UndeliveredRowsStay ==
  ASSUME IInv, OwnShard, NEW t \in Thread, FinishGroup(t),
         NEW r \in outbox, r.obj \notin gone, ShardOf[r.obj] \notin disabled,
         replica[r.obj] < r.ver
  PROVE  r \in outbox'
<1> USE DEF IInv
<1>1. SUFFICES ASSUME r \notin outbox' PROVE FALSE
  OBVIOUS
<1>2. Coalesced(t) /\ Held(t) /\ pc[t] \in {"commit", "pass"}
  BY DEF FinishGroup, Coalesced, Held, Holding
<1>3. r.obj = obj[t] /\ (r.id < top[t] \/ r.id = top[t])
  BY <1>1, RowsDeleted
<1>4. pc[t] = "commit"
  BY <1>2, <1>3 DEF SkipsAreDisabled, OwnShard
<1>5. PICK last \in outbox : last.id = top[t] /\ last.obj = r.obj
  BY <1>2, <1>3 DEF RowInv, CoalescedRows
<1>6. last.ver <= replica[r.obj]
  BY <1>3, <1>4, <1>5 DEF RowInv, ReadIsFresh
<1>7. r.ver <= last.ver
  <2>1. CASE r.id < top[t]
    <3>1. r.ver < last.ver
      BY <1>5, <2>1 DEF RowInv, VersionsInOrder
    <3> QED
      BY <3>1 DEF RowInv, TypeOK, Row
  <2>2. CASE r.id = top[t]
    <3>1. r = last
      BY <1>5, <2>2 DEF RowInv, FreshIds
    <3> QED
      BY <3>1 DEF RowInv, TypeOK, Row
  <2> QED
    BY <1>3, <2>1, <2>2
<1>8. r.ver \in Nat /\ last.ver \in Nat /\ replica[r.obj] \in Nat
  BY DEF RowInv, TypeOK, Row
<1> QED
  BY <1>6, <1>7, <1>8

LEMMA FlushUntouched ==
  ASSUME RowInv, NEW p \in Request, FlushOf(p), Undelivered(p)' => Undelivered(p),
         /\ pc'[p] = pc[p] /\ shard'[p] = shard[p] /\ mine'[p] = mine[p]
         /\ latest'[p] = latest[p] /\ snap'[p] = snap[p],
         Undelivered(p) => \A r \in Group(mine[p].obj) : r.ver = mine[p].ver => r \in outbox'
  PROVE  FlushOf(p)'
BY DEF FlushOf, InReach, Group

\* The flush's own steps.
LEMMA FlushProgress ==
  ASSUME IInv, OwnShard, NEW p \in Request, FlushOf(p), Progress(p) \/ Abort(p),
         Undelivered(p)' => Undelivered(p),
         Undelivered(p) => \A r \in Group(mine[p].obj) : r.ver = mine[p].ver => r \in outbox'
  PROVE  FlushOf(p)'
<1>t. RowInv /\ TypeOK /\ SkipsAreDisabled
  BY DEF IInv, RowInv
<1>1. /\ p \in Thread /\ UNCHANGED <<mine, disabled>>
      /\ pc[p] # "idle"
  BY <1>t, DrainFrame DEF Thread, Progress, Abort, StartFlush, EndDrain, LockRow, BlockOnRow, WakeUp,
     Coalesce, ReadSource, ApplyRemote, DeleteBatch, EndLoop, AskAgain, FinishGroup, Return
<1>2. CASE Abort(p) \/ Return(p)
  BY <1>t, <1>1, <1>2 DEF Abort, Return, FlushOf, TypeOK
<1>3. CASE ~Abort(p) /\ ~Return(p)
  <2>1. UNCHANGED shard
    BY <1>3 DEF Progress, StartFlush, EndDrain, LockRow, BlockOnRow, WakeUp,
       Coalesce, ReadSource, ApplyRemote, DeleteBatch, EndLoop, AskAgain, FinishGroup
  <2>2. mine[p].obj \in Object /\ shard[p] = ShardOf[mine[p].obj]
    BY <1>1 DEF FlushOf
  <2>3. SUFFICES ASSUME Undelivered(p)'
                 PROVE  /\ pc'[p] # "done"
                        /\ \E r \in Group(mine[p].obj)' : r.ver = mine[p].ver /\ InReach(p, r)'
    BY <1>1, <2>1, <2>2 DEF FlushOf
  <2>4. PICK r \in Group(mine[p].obj) : r.ver = mine[p].ver /\ InReach(p, r)
    BY <1>1, <2>3 DEF FlushOf
  <2>5. r \in outbox /\ r.obj = mine[p].obj /\ r \in outbox' /\ r \in Group(mine[p].obj)'
    BY <1>1, <2>3, <2>4 DEF Group
  <2>6. r \in InShard(shard[p]) /\ r.id \in Id /\ pc[p] # "done"
    BY <1>t, <1>1, <2>2, <2>3, <2>5 DEF InShard, TypeOK, Row, FlushOf
  <2>7. pc[p] # "flush" => r \in Candidates(p) /\ Candidates(p) # {} /\ latest[p] # 0
    BY <2>4, <2>6 DEF Candidates, InReach
  <2>8. SUFFICES pc'[p] # "done" /\ InReach(p, r)'
    BY <1>1, <2>4, <2>5
  <2>9. CASE StartFlush(p)
    <3>1. PICK last \in InShard(shard[p]) :
             Last(last, InShard(shard[p])) /\ pc'[p] = "loop" /\ latest'[p] = last.id
      BY <1>t, <1>1, <2>6, <2>9 DEF StartFlush, TypeOK
    <3>2. last.id # 0 /\ r.id <= last.id
      BY <1>t, <2>6, <3>1 DEF Last, InShard, TypeOK, Row, Id
    <3> QED
      BY <3>1, <3>2 DEF InReach
  <2>10. CASE EndDrain(p)
    BY <2>7, <2>10 DEF EndDrain
  <2>11. CASE BlockOnRow(p)
    <3>1. /\ pc'[p] = "wait" /\ latest'[p] = latest[p] /\ snap'[p] = Ids(Candidates(p))
          /\ pc[p] = "loop"
      BY <1>t, <1>1, <2>11 DEF BlockOnRow, TypeOK
    <3> QED
      BY <2>4, <2>7, <3>1 DEF Ids, InReach
  <2>12. CASE WakeUp(p)
    <3>1. r \in Alive(p) /\ pc[p] = "wait" /\ latest'[p] = latest[p]
      BY <2>4, <2>5, <2>12 DEF Alive, WakeUp, InReach
    <3>2. pc'[p] = "locked"
      BY <1>t, <1>1, <2>12, <3>1 DEF WakeUp, TypeOK
    <3> QED
      BY <2>4, <3>1, <3>2 DEF InReach
  <2>13. CASE FinishGroup(p)
    <3>1. pc[p] # "pass"
      BY <1>t, <1>1, <2>3 DEF SkipsAreDisabled, Undelivered
    <3>2. pc[p] = "commit" /\ pc'[p] = "loop" /\ latest'[p] = latest[p]
      BY <1>t, <1>1, <2>13, <3>1 DEF FinishGroup, TypeOK
    <3> QED
      BY <2>4, <3>2 DEF InReach
  <2>14. CASE LockRow(p) \/ Coalesce(p) \/ ReadSource(p) \/ ApplyRemote(p) \/ DeleteBatch(p)
               \/ EndLoop(p) \/ AskAgain(p)
    <3>1. latest'[p] = latest[p] /\ pc[p] # "flush"
      BY <2>14 DEF LockRow, Coalesce, ReadSource, ApplyRemote, DeleteBatch, EndLoop, AskAgain
    <3>2. pc'[p] \in Holding
      BY <1>t, <1>1, <2>14 DEF LockRow, Coalesce, ReadSource, ApplyRemote, DeleteBatch, EndLoop, AskAgain,
         TypeOK, Holding
    <3> QED
      BY <2>4, <3>1, <3>2 DEF InReach, Holding
  <2> QED
    BY <1>3, <2>9, <2>10, <2>11, <2>12, <2>13, <2>14 DEF Progress
<1> QED
  BY <1>2, <1>3

LEMMA FlushStep ==
  ASSUME ~OptionMayChange, IInv, OwnShard, FlushGoesOn, [Next]_vars
  PROVE  FlushGoesOn'
<1> USE DEF IInv
<1>0. /\ \A p \in Request : p \in Thread /\ mine[p].ver \in Nat
      /\ \A o \in Object : replica[o] \in Nat
  BY DEF RowInv, TypeOK, Thread
<1>1. ASSUME NEW q \in Request, NEW flush \in BOOLEAN, CommitModel(q, flush), NEW p \in Request
      PROVE  FlushOf(p)'
  <2>1. /\ q \in Thread /\ pc[q] = "idle" /\ pc'[q] \in {"idle", "flush"}
        /\ \A t \in Thread \ {q} : pc'[t] = pc[t] /\ shard'[t] = shard[t]
        /\ UNCHANGED <<snap, latest, disabled, replica>>
        /\ gone \subseteq gone' /\ outbox \subseteq outbox'
    BY <1>1, CommitFrame
  <2>2. CASE p # q
    <3>1. mine'[p] = mine[p] /\ pc'[p] = pc[p] /\ shard'[p] = shard[p]
      BY <1>0, <1>1, <2>1, <2>2 DEF CommitModel, RowInv, TypeOK
    <3> QED
      BY <2>1, <3>1, FlushUntouched DEF FlushGoesOn, Undelivered, Group
  <2>3. CASE p = q /\ pc'[p] = "flush"
    <3>1. PICK o \in Object : o = txn[p].obj
      BY <1>1, <2>3 DEF CommitModel, RowInv, SourceLocks
    <3>2. PICK v : /\ mine' = [mine EXCEPT ![p] = [obj |-> o, ver |-> v]]
                   /\ outbox' = outbox \cup {[id |-> txn[p].id, obj |-> o, ver |-> v]}
      BY <1>1, <2>3, <3>1 DEF CommitModel
    <3>3. PICK new : new = [id |-> txn[p].id, obj |-> o, ver |-> v]
      OBVIOUS
    <3>4. new \in Group(o)' /\ new.ver = v
      BY <3>2, <3>3 DEF Group
    <3>5. mine'[p].obj = o /\ mine'[p].ver = v
      BY <3>2 DEF RowInv, TypeOK
    <3>6. shard'[p] = ShardOf[o]
      BY <1>1, <2>1, <2>3, <3>1 DEF CommitModel, RowInv, TypeOK
    <3> QED
      BY <2>3, <3>1, <3>4, <3>5, <3>6 DEF FlushOf, InReach
  <2> QED
    BY <2>1, <2>2, <2>3 DEF FlushOf
<1>2. ASSUME NEW t \in Thread,
             Progress(t) \/ Abort(t) \/ (t \in Worker /\ \E s \in Shard : StartTask(t, s)),
             NEW p \in Request
      PROVE  FlushOf(p)'
  <2>1. /\ UNCHANGED <<gone, disabled, mine>>
        /\ \A u \in Thread \ {t} : /\ pc'[u] = pc[u] /\ shard'[u] = shard[u]
                                   /\ latest'[u] = latest[u] /\ snap'[u] = snap[u]
    BY <1>2, DrainFrame
  <2>2. pc[p] # "idle" => mine[p].obj \in Object /\ shard[p] = ShardOf[mine[p].obj]
    BY DEF FlushGoesOn, FlushOf
  <2>3. p = t => (Progress(p) \/ Abort(p)) /\ pc[p] # "idle"
    BY <1>2, ThreadAssumption DEF Progress, Abort, StartFlush, EndDrain, LockRow, BlockOnRow,
       WakeUp, Coalesce, ReadSource, ApplyRemote, DeleteBatch, EndLoop, AskAgain, FinishGroup, Return
  <2>4. CASE pc[p] = "idle"
    BY <1>0, <2>1, <2>3, <2>4 DEF FlushOf
  <2>5. CASE pc[p] # "idle"
    <3>1. ~ApplyRemote(t) => UNCHANGED replica
      BY <1>2 DEF Progress, Abort, StartTask, StartFlush, EndDrain, LockRow, BlockOnRow, WakeUp,
         Coalesce, ReadSource, DeleteBatch, EndLoop, AskAgain, FinishGroup, Return, Quiet
    <3>2. ~FinishGroup(t) => UNCHANGED outbox
      BY <1>2 DEF Progress, Abort, StartTask, StartFlush, EndDrain, LockRow, BlockOnRow, WakeUp,
         Coalesce, ReadSource, ApplyRemote, DeleteBatch, EndLoop, AskAgain, Return, Quiet
    <3>3. pc'[p] # "idle" => shard'[p] = shard[p]
      <4>1. CASE p # t
        BY <1>0, <2>1, <4>1
      <4>2. CASE p = t
        BY <1>0, <2>3, <4>2 DEF Progress, Abort, StartFlush, EndDrain, LockRow, BlockOnRow, WakeUp,
           Coalesce, ReadSource, ApplyRemote, DeleteBatch, EndLoop, AskAgain, FinishGroup, Return, RowInv, TypeOK
      <4> QED
        BY <4>1, <4>2
    <3>4. SUFFICES ASSUME pc'[p] # "idle" PROVE FlushOf(p)'
      BY DEF FlushOf
    <3>5. ASSUME Undelivered(p)' PROVE Undelivered(p)
      <4>1. mine[p].obj \in Object \ gone /\ shard[p] \notin disabled
            /\ replica'[mine[p].obj] < mine[p].ver
        BY <2>1, <2>2, <2>5, <3>3, <3>4, <3>5 DEF Undelivered
      <4>2. replica[mine[p].obj] <= replica'[mine[p].obj]
        <5>1. CASE ApplyRemote(t)
          BY <4>1, <5>1, CopiesAdvance
        <5>2. CASE ~ApplyRemote(t)
          BY <1>0, <3>1, <4>1, <5>2
        <5> QED
          BY <5>1, <5>2
      <4>3. replica'[mine[p].obj] \in Nat
        BY <4>1, TypeStep DEF RowInv, TypeOK
      <4> QED
        BY <1>0, <4>1, <4>2, <4>3 DEF Undelivered
    <3>6. ASSUME Undelivered(p), NEW r \in Group(mine[p].obj), r.ver = mine[p].ver
          PROVE  r \in outbox'
      <4>1. CASE FinishGroup(t)
        BY <2>2, <2>5, <3>6, <4>1, UndeliveredRowsStay DEF Undelivered, Group
      <4>2. CASE ~FinishGroup(t)
        BY <3>2, <3>6, <4>2 DEF Group
      <4> QED
        BY <4>1, <4>2
    <3>7. CASE p = t
      BY <2>3, <3>5, <3>6, <3>7, FlushProgress DEF FlushGoesOn
    <3>8. CASE p # t
      BY <1>0, <2>1, <3>5, <3>6, <3>8, FlushUntouched DEF FlushGoesOn
    <3> QED
      BY <3>7, <3>8
  <2> QED
    BY <2>4, <2>5
<1>3. CASE UNCHANGED <<gone, replica, outbox, mine, disabled, pc, shard, latest, snap>>
  BY <1>3 DEF FlushGoesOn, FlushOf, Undelivered, InReach, Group
<1>4. ASSUME \A p \in Request, flush \in BOOLEAN : ~CommitModel(p, flush),
             \A t \in Thread : ~Progress(t) /\ ~Abort(t),
             \A t \in Worker, s \in Shard : ~StartTask(t, s)
      PROVE  UNCHANGED <<gone, replica, outbox, mine, disabled, pc, shard, latest, snap>>
  <2>1. UNCHANGED <<outbox, pc, shard, latest, snap>>
    BY <1>4, QuietSteps
  <2>2. UNCHANGED <<gone, replica, mine>>
    BY <1>4, DataSteps DEF Progress
  <2>3. UNCHANGED disabled
    BY <1>4 DEF Next, Produce, SaveModel, SaveOutbox, QueueFirst, LockModel, RollbackModel, SetOption,
       vars, produced
  <2> QED
    BY <2>1, <2>2, <2>3
<1> QED
  BY <1>1, <1>2, <1>3, <1>4 DEF FlushGoesOn, Thread

\* A flush on commit returns only when its request's change is replicated, by
\* whichever drain; other drains may take its rows, make it wait or die under it
\* (see FlushIsReplicated).
THEOREM FlushesDeliver ==
  ASSUME ~OptionMayChange, Kinds \subseteq {"save"}
  PROVE  Spec => []FlushIsReplicated
<1>1. Spec => []IInv
  BY Invariance
<1>2. Spec => [](RowInv /\ OwnShard)
  BY DrainsStayInTheirShard
<1>3. Init => FlushGoesOn
  BY DEF Init, FlushGoesOn, FlushOf, Thread
<1>4. IInv /\ OwnShard /\ FlushGoesOn /\ [Next]_vars => FlushGoesOn'
  BY FlushStep
<1>5. IInv /\ NothingGone /\ FlushGoesOn => FlushIsReplicated
  <2> SUFFICES ASSUME IInv, NothingGone, FlushGoesOn,
                      NEW p \in Request, pc[p] = "done", shard[p] \notin disabled
               PROVE  replica[mine[p].obj] >= mine[p].ver
    BY DEF FlushIsReplicated
  <2>1. mine[p].obj \in Object /\ ~Undelivered(p)
    BY DEF FlushGoesOn, FlushOf
  <2>2. replica[mine[p].obj] \in Nat /\ mine[p].ver \in Nat
    BY <2>1 DEF IInv, RowInv, TypeOK
  <2> QED
    BY <2>1, <2>2 DEF Undelivered, NothingGone
<1> QED
  BY <1>1, <1>2, <1>3, <1>4, <1>5, OnlySaves, PTL DEF Spec

\* Rows, locks and batches implement the abstract outbox: nothing is pending
\* without a reason, nothing stops being pending before it is replicated, and
\* replicas never move backwards.
THEOREM Refinement ==
  ASSUME ~OptionMayChange, Kinds \subseteq {"save"}
  PROVE  Spec => ImplementsAbstract
<1>0. Spec => []IInv
  BY Invariance
<1> DEFINE pending == [o \in Object |-> Group(o) # {}]
<1>1. Init => Abstract!Init
  BY DEF Init, Abstract!Init, Group
<1>2. IInv /\ IInv' /\ NothingGone /\ [Next]_vars
         => [Abstract!Next]_<<src, replica, pending>>
  <2> SUFFICES ASSUME IInv, IInv', NothingGone, [Next]_vars
               PROVE  Abstract!Next \/ UNCHANGED <<src, replica, pending>>
    OBVIOUS
  <2>1. CASE UNCHANGED <<src, replica, outbox>>
    BY <2>1 DEF Group
  <2>2. ASSUME NEW p \in Request, NEW flush \in BOOLEAN, CommitModel(p, flush)
        PROVE  Abstract!Next
    <3>1. PICK o \in Object : o = txn[p].obj
      BY <2>2 DEF CommitModel, IInv, RowInv, SourceLocks
    <3>2. src' = [src EXCEPT ![o] = @ + 1] /\ UNCHANGED replica
      BY <2>2, <3>1 DEF CommitModel, NothingGone
    <3>3. PICK new : new.obj = o /\ outbox' = outbox \cup {new}
      BY <2>2, <3>1 DEF CommitModel
    <3>4. pending' = [pending EXCEPT ![o] = TRUE]
      BY <3>3 DEF Group
    <3> QED
      BY <3>2, <3>4 DEF Abstract!Next, Abstract!Change
  <2>3. ASSUME NEW t \in Thread, ApplyRemote(t)
        PROVE  Abstract!Next
    <3>1. PICK o \in Object : o = obj[t]
      BY <2>3 DEF ApplyRemote, IInv, RowInv, RowLocks, Held, Holding
    <3>2. Group(o) # {}
      BY <2>3, <3>1 DEF ApplyRemote, IInv, RowInv, RowLocks, Held, Holding, Group
    <3>3. read[t] \in replica[o]..src[o]
      BY <2>3, <3>1 DEF ApplyRemote, IInv, RowInv, ReadIsFresh, NothingGone, TypeOK
    <3>4. replica' = [replica EXCEPT ![o] = read[t]]
      BY <2>3, <3>1 DEF ApplyRemote
    <3>5. UNCHANGED <<src, pending>>
      BY <2>3 DEF ApplyRemote, produced, Group
    <3> QED
      BY <3>2, <3>3, <3>4, <3>5 DEF Abstract!Next, Abstract!Replicate
  <2>4. ASSUME NEW t \in Thread, FinishGroup(t)
        PROVE  Abstract!Next \/ UNCHANGED <<src, replica, pending>>
    <3>1. PICK o \in Object : o = obj[t]
      BY <2>4 DEF FinishGroup, IInv, RowInv, RowLocks, Held, Holding
    <3>2. UNCHANGED <<src, gone, replica>> /\ outbox' \subseteq outbox
      BY <2>4 DEF FinishGroup, produced
    <3>3. \A r \in outbox \ outbox' : r.obj = o
      BY <2>4, <3>1, RowsDeleted DEF IInv
    <3>4. \A x \in Object \ {o} : Group(x)' = Group(x)
      BY <3>2, <3>3 DEF Group
    <3>5. CASE Group(o)' # {}
      <4>1. Group(o) # {}
        BY <3>2, <3>5 DEF Group
      <4> QED
        BY <3>2, <3>4, <3>5, <4>1
    <3>6. CASE Group(o)' = {}
      <4>1. replica[o] = src[o]
        BY <3>2, <3>6 DEF IInv, LastVersionQueued, NothingGone
      <4>2. Group(o) # {}
        BY <2>4, <3>1 DEF FinishGroup, IInv, RowInv, RowLocks, Held, Holding, Group
      <4>3. pending' = [pending EXCEPT ![o] = FALSE]
        BY <3>4, <3>6
      <4> QED
        BY <3>2, <4>1, <4>2, <4>3 DEF Abstract!Next, Abstract!Retire
    <3> QED
      BY <3>5, <3>6
  <2> QED
    BY <2>1, <2>2, <2>3, <2>4, DataSteps
<1> QED
  BY <1>0, <1>1, <1>2, OnlySaves, PTL DEF Spec, ImplementsAbstract, Abstract!Spec
=============================================================================
