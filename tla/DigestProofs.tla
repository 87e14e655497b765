---------------------------- MODULE DigestProofs ----------------------------
(***************************************************************************)
(* Theorems about Digest, for any tasks, records, capacity and failures.   *)
(* Why no record is lost although tasks overrun their lock and records are *)
(* added twice: whatever a step takes out of redis is carried by the task  *)
(* that closed it or given up, and what a task carries is sent, given up   *)
(* or stored again.                                                        *)
(* Why none is sent too often while locks last: a close takes a record out *)
(* of redis for every task that will send it, so the uses of a record only *)
(* grow when it is added.                                                  *)
(***************************************************************************)
EXTENDS Digest, FiniteSetTheorems, TLAPS

\* The record is where a task will find it or has it.
Kept(r) == r \in Stored \/ InTransit(r)

IInv == TypeOK /\ NonEmptyIsScheduled /\ NoRecordLost
-----------------------------------------------------------------------------
LEMMA NewestIn == ASSUME NEW R PROVE Newest(R) \subseteq R
BY DEF Newest

LEMMA IdleType == Idle \in Job
BY DEF Idle, Job

\* The counters stay within their bounds.
LEMMA Bounded ==
    ASSUME TypeOK
    PROVE  /\ Fault \/ UNCHANGED faults => faults' \in 0..MaxFaults
           /\ StartTask => queued' \in 0..MaxQueued /\ faults' \in 0..MaxFaults
<1>1. MaxFaults \in Nat /\ MaxQueued \in Nat
  BY BoundAssumption
<1>2. faults \in 0..MaxFaults /\ queued \in 0..MaxQueued
  BY DEF TypeOK
<1>3. Fault \/ UNCHANGED faults => faults' \in 0..MaxFaults
  BY <1>1, <1>2 DEF Fault
<1> QED
  BY <1>1, <1>2, <1>3 DEF StartTask

\* What a task does next is always one of its steps.
LEMMA GotoType ==
    ASSUME TypeOK, NEW t \in Task, NEW next \in {"free", "digest", "purge", "notify"} \cup Locked,
           Goto(t, next)
    PROVE  job' \in [Task -> Job]
BY DEF TypeOK, Job, Goto

LEMMA EndType ==
    ASSUME TypeOK, NEW t \in Task, job' = [job EXCEPT ![t] = Idle]
    PROVE  job' \in [Task -> Job]
BY IdleType DEF TypeOK

LEMMA LockType ==
    ASSUME TypeOK, NEW t \in Task, ReleaseLock(t)
    PROVE  lock' \in Task \cup {NoTask}
BY DEF TypeOK, ReleaseLock

-----------------------------------------------------------------------------
(* Types. *)

LEMMA InitHolds == Init => IInv
<1> SUFFICES ASSUME Init PROVE IInv
  OBVIOUS
<1>1. TypeOK
  <2>1. job \in [Task -> Job] /\ added \in [Record -> Nat] /\ sent \in [Record -> Nat]
    BY IdleType DEF Init
  <2>2. queued \in 0..MaxQueued /\ faults \in 0..MaxFaults
    BY BoundAssumption DEF Init
  <2> QED
    BY <2>1, <2>2 DEF Init, TypeOK
<1>2. NonEmptyIsScheduled /\ NoRecordLost
  BY DEF Init, NonEmptyIsScheduled, NoRecordLost
<1> QED
  BY <1>1, <1>2 DEF IInv

LEMMA TypeStep == TypeOK /\ [Next]_vars => TypeOK'
<1> SUFFICES ASSUME TypeOK, [Next]_vars PROVE TypeOK'
  OBVIOUS
<1>1. ASSUME NEW r \in Record, Add(r) PROVE TypeOK'
  <2>1. PICK kept \in {timeline \cup {r}, Newest(timeline \cup {r})} :
           /\ timeline' = kept
           /\ values' = (values \cup {r}) \ ((timeline \cup {r}) \ kept)
           /\ owed' = (owed \cup {r}) \ ((timeline \cup {r}) \ kept)
    BY <1>1 DEF Add
  <2>2. timeline' \subseteq Record /\ values' \subseteq Record /\ owed' \subseteq Record
    BY <2>1, NewestIn DEF TypeOK
  <2>3. schedule' \in {{}, {"waiting"}, {"ready"}} /\ queued' \in 0..MaxQueued
        /\ faults' \in 0..MaxFaults
    <3>1. (StartTask /\ schedule' = {"ready"}) \/ UNCHANGED <<schedule, queued, faults>>
      <4>1. IF schedule = {} THEN schedule' = {"ready"} /\ StartTask
                             ELSE UNCHANGED <<schedule, queued, faults>>
        BY <1>1 DEF Add
      <4> QED
        BY <4>1
    <3>2. CASE StartTask /\ schedule' = {"ready"}
      BY <3>2, Bounded
    <3>3. CASE UNCHANGED <<schedule, queued, faults>>
      <4>1. schedule' = schedule /\ queued' = queued /\ faults' = faults
        BY <3>3
      <4> QED
        BY <4>1 DEF TypeOK
    <3> QED
      BY <3>1, <3>2, <3>3
  <2>4. added' \in [Record -> Nat]
    BY <1>1 DEF Add, TypeOK
  <2>5. UNCHANGED <<digest, lock, job, project, sent, overrun>>
    BY <1>1 DEF Add
  <2> QED
    BY <2>2, <2>3, <2>4, <2>5 DEF TypeOK
<1>2. ASSUME NEW r \in Record, Evict(r) PROVE TypeOK'
  <2>1. faults' \in 0..MaxFaults
    BY <1>2, Bounded DEF Evict
  <2> QED
    BY <1>2, <2>1 DEF Evict, TypeOK
<1>3. CASE Schedule
  <2>1. queued' \in 0..MaxQueued /\ faults' \in 0..MaxFaults
    BY <1>3, Bounded DEF Schedule
  <2>2. schedule' \in {{}, {"waiting"}, {"ready"}}
    BY <1>3 DEF Schedule, Moved, TypeOK
  <2> QED
    BY <1>3, <2>1, <2>2 DEF Schedule, TypeOK, history
<1>4. CASE Maintenance
  <2>1. faults' \in 0..MaxFaults
    BY <1>4, Bounded DEF Maintenance
  <2>2. schedule' \in {{}, {"waiting"}, {"ready"}}
    BY <1>4 DEF Maintenance, Moved, TypeOK
  <2> QED
    BY <1>4, <2>1, <2>2 DEF Maintenance, TypeOK, history
<1>5. CASE LockExpires
  <2>1. faults' \in 0..MaxFaults
    BY <1>5, Bounded DEF LockExpires
  <2>2. overrun' \in BOOLEAN
    BY <1>5 DEF LockExpires, TypeOK
  <2> QED
    BY <1>5, <2>1, <2>2 DEF LockExpires, TypeOK, redis
<1>6. CASE LoseTask
  <2>1. faults' \in 0..MaxFaults
    BY <1>6, Bounded DEF LoseTask
  <2>2. queued' \in 0..MaxQueued
    BY <1>6, BoundAssumption DEF LoseTask, TypeOK
  <2> QED
    BY <1>6, <2>1, <2>2 DEF LoseTask, TypeOK, redis, history
<1>7. CASE DeleteProject
  BY <1>7 DEF DeleteProject, TypeOK, redis, history
<1>8. ASSUME NEW t \in Task, Take(t) PROVE TypeOK'
  <2>1. job' \in [Task -> Job]
    BY <1>8, GotoType DEF Take
  <2>2. queued' \in 0..MaxQueued
    BY <1>8, BoundAssumption DEF Take, TypeOK
  <2> QED
    BY <1>8, <2>1, <2>2 DEF Take, TypeOK, redis, history
<1>9. ASSUME NEW t \in Task, Acquire(t) PROVE TypeOK'
  <2>1. job' \in [Task -> Job]
    BY <1>9, GotoType DEF Acquire, Locked
  <2>2. lock' \in Task \cup {NoTask}
    BY <1>9 DEF Acquire, TypeOK
  <2> QED
    BY <1>9, <2>1, <2>2 DEF Acquire, TypeOK, redis, history
<1>10. ASSUME NEW t \in Task, Open(t) PROVE TypeOK'
  <2>1. CASE "ready" \in schedule
    <3>1. PICK merged : /\ merged \subseteq timeline \cup digest
                        /\ timeline' = {} /\ digest' = merged
                        /\ values' = values \ ((timeline \cup digest) \ merged)
                        /\ owed' = owed \ ((timeline \cup digest) \ merged)
                        /\ job' = [job EXCEPT ![t] = [pc |-> "close", ids |-> merged,
                                                      records |-> merged \cap values]]
      BY <1>10, <2>1, NewestIn DEF Open
    <3>2. [pc |-> "close", ids |-> merged, records |-> merged \cap values] \in Job
      BY <3>1 DEF TypeOK, Job, Locked
    <3>3. job' \in [Task -> Job]
      BY <3>1, <3>2 DEF TypeOK
    <3>4. timeline' \subseteq Record /\ digest' \subseteq Record /\ values' \subseteq Record
          /\ owed' \subseteq Record
      BY <3>1 DEF TypeOK
    <3> QED
      BY <1>10, <3>3, <3>4 DEF Open, TypeOK
  <2>2. CASE "ready" \notin schedule
    <3>1. Goto(t, "release")
      BY <1>10, <2>2 DEF Open
    <3>2. job' \in [Task -> Job]
      BY <3>1, GotoType DEF Locked
    <3> QED
      BY <1>10, <2>2, <3>2 DEF Open, TypeOK
  <2> QED
    BY <2>1, <2>2
<1>11. ASSUME NEW t \in Task, Close(t) PROVE TypeOK'
  <2>1. PICK built \in Built(t) :
           /\ job' = [job EXCEPT ![t].pc = "release", ![t].records = built]
           /\ owed' = owed \ (job[t].ids \ built)
    BY <1>11 DEF Close
  <2>2. job' \in [Task -> Job] /\ owed' \subseteq Record
    BY <2>1 DEF Built, TypeOK, Job, Locked
  <2>3. schedule' \in {{}, {"waiting"}, {"ready"}}
    BY <1>11 DEF Close, TypeOK
  <2> QED
    BY <1>11, <2>2, <2>3 DEF Close, Remaining, TypeOK
<1>12. ASSUME NEW t \in Task, DeleteTimeline(t) PROVE TypeOK'
  <2>1. job' \in [Task -> Job]
    BY <1>12, GotoType DEF DeleteTimeline, Locked
  <2> QED
    BY <1>12, <2>1 DEF DeleteTimeline, TypeOK
<1>13. ASSUME NEW t \in Task, Release(t) PROVE TypeOK'
  <2>1. job' \in [Task -> Job]
    BY <1>13, GotoType, EndType DEF Release
  <2>2. lock' \in Task \cup {NoTask} /\ faults' \in 0..MaxFaults
    BY <1>13, LockType, Bounded DEF Release, TypeOK
  <2> QED
    BY <1>13, <2>1, <2>2 DEF Release, TypeOK, redis, history
<1>14. ASSUME NEW t \in Task, Notify(t) PROVE TypeOK'
  <2>1. job' \in [Task -> Job]
    BY <1>14, EndType DEF Notify
  <2>2. sent' \in [Record -> Nat] /\ owed' \subseteq Record
    BY <1>14 DEF Notify, OwedWithout, TypeOK
  <2> QED
    BY <1>14, <2>1, <2>2 DEF Notify, TypeOK, redis
<1>15. ASSUME NEW t \in Task, Fail(t) PROVE TypeOK'
  <2>1. job' \in [Task -> Job]
    BY <1>15, EndType DEF Fail
  <2>2. lock' \in Task \cup {NoTask}
    BY <1>15, LockType DEF Fail, TypeOK
  <2>3. owed' \subseteq Record
    BY <1>15 DEF Fail, OwedWithout, TypeOK
  <2>4. faults' \in 0..MaxFaults
    BY <1>15, Bounded DEF Fail
  <2> QED
    BY <1>15, <2>1, <2>2, <2>3, <2>4 DEF Fail, TypeOK, redis
<1>16. CASE UNCHANGED vars
  BY <1>16 DEF vars, redis, history, TypeOK
<1> QED
  BY <1>1, <1>2, <1>3, <1>4, <1>5, <1>6, <1>7, <1>8, <1>9, <1>10, <1>11, <1>12, <1>13, <1>14,
     <1>15, <1>16 DEF Next, Deliver

-----------------------------------------------------------------------------
(* Records. *)

\* What a task carries it goes on to carry, until it is sent or given up or is
\* stored again.
LEMMA TransitStep ==
    ASSUME TypeOK, Next, NEW r \in Record, InTransit(r), r \in owed'
    PROVE  Kept(r)'
<1>1. PICK t \in Task : job[t].pc \in {"release", "notify"} /\ r \in job[t].records
  BY DEF InTransit
<1>2. CASE job'[t] = job[t]
  BY <1>1, <1>2 DEF Kept, InTransit
<1>3. ASSUME NEW u \in Task, u # t,
             Take(u) \/ Acquire(u) \/ Open(u) \/ Close(u) \/ DeleteTimeline(u) \/ Release(u)
             \/ Notify(u) \/ Fail(u)
      PROVE  job'[t] = job[t]
  BY <1>3 DEF Take, Acquire, Open, Close, DeleteTimeline, Release, Notify, Fail, Goto, TypeOK
<1>4. ~Take(t) /\ ~Acquire(t) /\ ~Open(t) /\ ~Close(t) /\ ~DeleteTimeline(t)
  BY <1>1 DEF Take, Acquire, Open, Close, DeleteTimeline
<1>5. CASE Release(t)
  <2>1. job'[t].records = job[t].records /\ job'[t].pc = "notify"
    BY <1>1, <1>5 DEF Release, Goto, TypeOK, Job
  <2> QED
    BY <1>1, <2>1 DEF Kept, InTransit
<1>6. CASE Notify(t) \/ Fail(t)
  <2>1. owed' = OwedWithout(t) /\ UNCHANGED redis
    BY <1>1, <1>6 DEF Notify, Fail
  <2> QED
    BY <1>1, <2>1 DEF OwedWithout, Kept, Stored, redis
<1>7. UNCHANGED job \/ \E u \in Task : Take(u) \/ Deliver(u) \/ Fail(u)
  BY DEF Next, Add, Evict, Schedule, Maintenance, LockExpires, LoseTask, DeleteProject
<1> QED
  BY <1>2, <1>3, <1>4, <1>5, <1>6, <1>7 DEF Deliver

\* Records that stay in redis.
LEMMA KeptStep ==
    ASSUME IInv, Next, owed' \subseteq owed,
           \A r \in owed' : r \in Stored => Kept(r)'
    PROVE  NoRecordLost'
<1>1. ASSUME NEW r \in owed' PROVE Kept(r)'
  <2>1. r \in Record /\ Kept(r)
    BY <1>1 DEF IInv, TypeOK, NoRecordLost, Kept
  <2> QED
    BY <1>1, <2>1, TransitStep DEF Kept, IInv
<1> QED
  BY <1>1 DEF NoRecordLost, Kept

\* Steps that leave redis alone.
LEMMA RedisStep ==
    ASSUME IInv, Next, UNCHANGED redis, owed' \subseteq owed
    PROVE  NonEmptyIsScheduled' /\ NoRecordLost'
<1>1. NonEmptyIsScheduled'
  BY DEF IInv, NonEmptyIsScheduled, redis
<1>2. \A r \in owed' : r \in Stored => Kept(r)'
  BY DEF Kept, Stored, redis
<1> QED
  BY <1>1, <1>2, KeptStep

LEMMA AddStep ==
    ASSUME IInv, Next, NEW r \in Record, Add(r)
    PROVE  NonEmptyIsScheduled' /\ NoRecordLost'
<1>1. PICK kept \in {timeline \cup {r}, Newest(timeline \cup {r})} :
         /\ timeline' = kept
         /\ values' = (values \cup {r}) \ ((timeline \cup {r}) \ kept)
         /\ owed' = (owed \cup {r}) \ ((timeline \cup {r}) \ kept)
  BY DEF Add
<1>2. UNCHANGED <<digest, job>>
  BY DEF Add
<1>3. NonEmptyIsScheduled'
  BY DEF Add, NonEmptyIsScheduled
<1>4. ASSUME NEW q \in owed' PROVE Kept(q)'
  <2>1. q = r \/ q \in Stored => q \in Stored'
    BY <1>1, <1>2, <1>4 DEF Stored
  <2>2. q # r => q \in Record /\ Kept(q)
    BY <1>1, <1>4 DEF IInv, TypeOK, NoRecordLost, Kept
  <2> QED
    BY <1>4, <2>1, <2>2, TransitStep DEF Kept, IInv
<1> QED
  BY <1>3, <1>4 DEF NoRecordLost, Kept

LEMMA EvictStep ==
    ASSUME IInv, Next, NEW r \in Record, Evict(r)
    PROVE  NonEmptyIsScheduled' /\ NoRecordLost'
<1>1. NonEmptyIsScheduled'
  BY DEF Evict, IInv, NonEmptyIsScheduled
<1>2. owed' \subseteq owed /\ \A q \in owed' : q \in Stored => Kept(q)'
  BY DEF Evict, Kept, Stored
<1> QED
  BY <1>1, <1>2, KeptStep

\* The scheduler and maintenance move the timeline between the sets.
LEMMA MoveStep ==
    ASSUME IInv, Next, Schedule \/ Maintenance
    PROVE  NonEmptyIsScheduled' /\ NoRecordLost'
<1>1. UNCHANGED <<timeline, digest, values, owed>> /\ schedule' # {}
  BY DEF Schedule, Maintenance, Moved, history
<1>2. NonEmptyIsScheduled'
  BY <1>1 DEF NonEmptyIsScheduled
<1>3. \A r \in owed' : r \in Stored => Kept(r)'
  BY <1>1 DEF Kept, Stored
<1> QED
  BY <1>1, <1>2, <1>3, KeptStep

\* What DIGEST_OPEN merges is kept or truncated.
LEMMA OpenStep ==
    ASSUME IInv, Next, NEW t \in Task, Open(t)
    PROVE  NonEmptyIsScheduled' /\ NoRecordLost'
<1>1. CASE "ready" \notin schedule
  <2>1. UNCHANGED <<redis, owed>>
    BY <1>1 DEF Open, redis
  <2> QED
    BY <2>1, RedisStep
<1>2. CASE "ready" \in schedule
  <2>1. PICK merged : /\ merged \subseteq timeline \cup digest
                      /\ timeline' = {} /\ digest' = merged
                      /\ values' = values \ ((timeline \cup digest) \ merged)
                      /\ owed' = owed \ ((timeline \cup digest) \ merged)
    BY <1>2, NewestIn DEF Open
  <2>2. NonEmptyIsScheduled'
    BY <1>2 DEF Open, NonEmptyIsScheduled
  <2>3. owed' \subseteq owed /\ \A q \in owed' : q \in Stored => Kept(q)'
    BY <2>1 DEF Kept, Stored
  <2> QED
    BY <2>2, <2>3, KeptStep
<1> QED
  BY <1>1, <1>2

\* DIGEST_CLOSE takes out of redis what the task carries or gives up.
LEMMA CloseStep ==
    ASSUME IInv, Next, NEW t \in Task, Close(t)
    PROVE  NonEmptyIsScheduled' /\ NoRecordLost'
<1>1. PICK built \in Built(t) :
         /\ job' = [job EXCEPT ![t].pc = "release", ![t].records = built]
         /\ owed' = owed \ (job[t].ids \ built)
  BY DEF Close
<1>2. timeline' = timeline /\ digest' = digest \ job[t].ids /\ values' = values \ job[t].ids
  BY DEF Close, Remaining
<1>3. job'[t].pc = "release" /\ job'[t].records = built
  BY <1>1 DEF IInv, TypeOK, Job
<1>4. NonEmptyIsScheduled'
  BY DEF Close, NonEmptyIsScheduled, Busy, Remaining
<1>5. ASSUME NEW q \in owed', q \in Stored PROVE Kept(q)'
  <2>1. CASE q \in job[t].ids
    BY <1>1, <1>3, <1>5, <2>1 DEF Kept, InTransit
  <2>2. CASE q \notin job[t].ids
    BY <1>2, <1>5, <2>2 DEF Kept, Stored
  <2> QED
    BY <2>1, <2>2
<1>6. owed' \subseteq owed
  BY <1>1
<1> QED
  BY <1>4, <1>5, <1>6, KeptStep

LEMMA DeleteStep ==
    ASSUME IInv, Next, NEW t \in Task, DeleteTimeline(t)
    PROVE  NonEmptyIsScheduled' /\ NoRecordLost'
<1>1. NonEmptyIsScheduled'
  BY DEF DeleteTimeline, NonEmptyIsScheduled
<1>2. owed' \subseteq owed /\ \A q \in owed' : q \notin Stored
  BY DEF DeleteTimeline, Stored
<1> QED
  BY <1>1, <1>2, KeptStep

\* The other steps leave redis alone and add nothing.
LEMMA QuietStep ==
    ASSUME IInv, Next,
           \/ LockExpires \/ LoseTask \/ DeleteProject
           \/ \E t \in Task : Take(t) \/ Acquire(t) \/ Release(t) \/ Notify(t) \/ Fail(t)
    PROVE  NonEmptyIsScheduled' /\ NoRecordLost'
<1>1. UNCHANGED redis /\ owed' \subseteq owed
  BY DEF LockExpires, LoseTask, DeleteProject, Take, Acquire, Release, Notify, Fail, OwedWithout,
         history
<1> QED
  BY <1>1, RedisStep

-----------------------------------------------------------------------------
LEMMA NextHolds == IInv /\ [Next]_vars => IInv'
<1> SUFFICES ASSUME IInv, [Next]_vars PROVE IInv'
  OBVIOUS
<1>1. TypeOK'
  BY TypeStep DEF IInv
<1>2. CASE Next
  <2>1. NonEmptyIsScheduled' /\ NoRecordLost'
    BY <1>2, AddStep, EvictStep, MoveStep, OpenStep, CloseStep, DeleteStep, QuietStep DEF Next, Deliver
  <2> QED
    BY <1>1, <2>1 DEF IInv
<1>3. CASE UNCHANGED vars
  <2>1. UNCHANGED <<schedule, timeline, digest, values, job, owed>>
    BY <1>3 DEF vars, redis, history
  <2> QED
    BY <1>1, <2>1 DEF IInv, NonEmptyIsScheduled, NoRecordLost, Stored, InTransit
<1> QED
  BY <1>2, <1>3

\* The inductive invariant: what is still owed is in redis with its data or
\* with a task (digests.lua, digest_timeline and close_digest).
THEOREM Invariance == Spec => []IInv
<1>1. Init => IInv
  BY InitHolds
<1>2. IInv /\ [Next]_vars => IInv'
  BY NextHolds
<1> QED
  BY <1>1, <1>2, PTL DEF Spec

\* Every variable keeps its type; in particular the timeline is never in both
\* schedule sets, whoever moves it.
THEOREM TypeCorrect == Spec => []TypeOK
<1>1. IInv => TypeOK
  BY DEF IInv
<1> QED
  BY <1>1, Invariance, PTL

\* A timeline with records is never out of both schedule sets, also when
\* records are added while its empty digest is closed.
THEOREM NeverStranded == Spec => []NonEmptyIsScheduled
<1>1. IInv => NonEmptyIsScheduled
  BY DEF IInv
<1> QED
  BY <1>1, Invariance, PTL

\* Tasks that overrun their lock, fail or meet a record twice lose none that
\* was not truncated, evicted, deleted with its project, left out of a message
\* or closed and not sent; one that is added again after that is kept again.
THEOREM NoneIsLost == Spec => []NoRecordLost
<1>1. IInv => NoRecordLost
  BY DEF IInv
<1> QED
  BY <1>1, Invariance, PTL
-----------------------------------------------------------------------------
(* How often a record is sent. *)

\* The tasks that closed a digest with the record and have not sent it yet.
Carriers(r) == {t \in Task : job[t].pc \in {"release", "notify"} /\ r \in job[t].records}

One(condition) == IF condition THEN 1 ELSE 0

\* The times a record was sent, is about to be sent or may still be opened.
Uses(r) == sent[r] + Cardinality(Carriers(r)) + One(r \in timeline) + One(r \in digest)

\* No lock has expired under a task: whoever is between the lock's acquisition
\* and its release has the lock.
LockHeld == \A t \in Task : job[t].pc \in Locked => lock = t

\* A task carries records from the opening of a digest to their sending.
NothingCarried ==
    \A t \in Task : job[t].pc \in {"free", "digest", "purge", "open", "delete"} =>
        job[t].records = {}

\* The digest a task works on has not changed since it was opened.
OpenedIsStored ==
    \A t \in Task : job[t].pc = "close" =>
        job[t].records \subseteq job[t].ids /\ job[t].ids \subseteq digest

FewCarry == \A r \in Record : IsFiniteSet(Carriers(r))

UsedAsAdded == \A r \in Record : Uses(r) <= added[r]

SendInv ==
    /\ NothingCarried
    /\ FewCarry
    /\ ~overrun => LockHeld /\ OpenedIsStored /\ UsedAsAdded

LEMMA SendInit == Init => SendInv
<1> SUFFICES ASSUME Init PROVE SendInv
  OBVIOUS
<1>1. NothingCarried /\ LockHeld /\ OpenedIsStored
  BY DEF Init, NothingCarried, LockHeld, OpenedIsStored, Idle, Locked
<1>2. ASSUME NEW r \in Record
      PROVE  IsFiniteSet(Carriers(r)) /\ Uses(r) <= added[r]
  <2>1. Carriers(r) = {}
    BY DEF Init, Carriers, Idle
  <2>2. IsFiniteSet(Carriers(r)) /\ Cardinality(Carriers(r)) = 0
    BY <2>1, FS_EmptySet
  <2> QED
    BY <2>2 DEF Init, Uses, One
<1> QED
  BY <1>1, <1>2 DEF SendInv, FewCarry, UsedAsAdded

\* A task's step is nobody else's, and only tasks move their jobs.
LEMMA JobFrame ==
    ASSUME TypeOK, Next
    PROVE  \/ UNCHANGED job
           \/ \E t \in Task : /\ Take(t) \/ Deliver(t) \/ Fail(t)
                              /\ \A u \in Task \ {t} : job'[u] = job[u]
<1>1. ASSUME NEW t \in Task, Take(t) \/ Deliver(t) \/ Fail(t)
      PROVE  \A u \in Task \ {t} : job'[u] = job[u]
  BY <1>1 DEF Take, Deliver, Acquire, Open, Close, DeleteTimeline, Release, Notify, Fail, Goto, TypeOK
<1> QED
  BY <1>1 DEF Next, Add, Evict, Schedule, Maintenance, LockExpires, LoseTask, DeleteProject

\* What a task carries after its own step.
LEMMA JobStep ==
    ASSUME TypeOK, NothingCarried, NEW t \in Task
    PROVE  /\ Take(t) \/ Acquire(t) \/ DeleteTimeline(t) =>
                 /\ job[t].records = {} /\ job'[t].records = {} /\ job[t].pc # "close"
                 /\ job'[t].pc # "close" /\ job[t].pc \notin {"release", "notify"}
           /\ Close(t) => /\ job[t].pc = "close" /\ job'[t].pc = "release"
                          /\ job'[t].records \subseteq job[t].records
           /\ Release(t) => /\ job[t].pc = "release" /\ job'[t].pc \in {"notify", "free"}
                            /\ job'[t].records = job[t].records
           /\ Notify(t) => job[t].pc = "notify" /\ job'[t] = Idle
           /\ Fail(t) => job'[t] = Idle
<1>1. job[t] \in Job
  BY DEF TypeOK
<1>2. Take(t) \/ Acquire(t) \/ DeleteTimeline(t) =>
         /\ job[t].records = {} /\ job'[t].records = {} /\ job[t].pc # "close"
         /\ job'[t].pc # "close" /\ job[t].pc \notin {"release", "notify"}
  BY <1>1 DEF Take, Acquire, DeleteTimeline, Goto, NothingCarried, TypeOK, Job
<1>3. Close(t) => /\ job[t].pc = "close" /\ job'[t].pc = "release"
                  /\ job'[t].records \subseteq job[t].records
  BY <1>1 DEF Close, Built, TypeOK, Job
<1>4. Release(t) => /\ job[t].pc = "release" /\ job'[t].pc \in {"notify", "free"}
                    /\ job'[t].records = job[t].records
  <2>1. CASE Release(t) /\ job[t].records = {}
    <3>1. job'[t] = Idle /\ job[t].pc = "release"
      BY <2>1 DEF Release, TypeOK
    <3> QED
      BY <2>1, <3>1 DEF Idle
  <2>2. CASE Release(t) /\ job[t].records # {}
    <3>1. job'[t] = [job[t] EXCEPT !.pc = "notify"] /\ job[t].pc = "release"
      BY <2>2 DEF Release, Goto, TypeOK
    <3> QED
      BY <1>1, <3>1 DEF Job
  <2> QED
    BY <2>1, <2>2
<1>5. Notify(t) => job[t].pc = "notify" /\ job'[t] = Idle
  BY DEF Notify, TypeOK
<1>6. Fail(t) => job'[t] = Idle
  BY DEF Fail, TypeOK
<1> QED
  BY <1>2, <1>3, <1>4, <1>5, <1>6

\* A task that opens leaves with the digest, or with nothing.
LEMMA OpenJob ==
    ASSUME TypeOK, NothingCarried, NEW t \in Task, Open(t)
    PROVE  /\ job[t].pc = "open" /\ job[t].records = {}
           /\ \/ /\ job'[t].pc = "close" /\ job'[t].ids = digest'
                 /\ job'[t].records \subseteq digest' /\ timeline' = {}
                 /\ digest' \subseteq timeline \cup digest
              \/ job'[t].pc = "release" /\ job'[t].records = {} /\ UNCHANGED <<timeline, digest>>
<1>1. job[t].pc = "open" /\ job[t].records = {} /\ job[t] \in Job
  BY DEF Open, NothingCarried, TypeOK
<1>2. CASE "ready" \in schedule
  <2>1. PICK merged : /\ merged \subseteq timeline \cup digest
                      /\ timeline' = {} /\ digest' = merged
                      /\ job' = [job EXCEPT ![t] = [pc |-> "close", ids |-> merged,
                                                    records |-> merged \cap values]]
    BY <1>2, NewestIn DEF Open
  <2>2. job'[t] = [pc |-> "close", ids |-> merged, records |-> merged \cap values]
    BY <2>1 DEF TypeOK
  <2> QED
    BY <1>1, <2>1, <2>2
<1>3. CASE "ready" \notin schedule
  <2>1. Goto(t, "release") /\ UNCHANGED <<timeline, digest>>
    BY <1>3 DEF Open
  <2>2. job'[t] = [job[t] EXCEPT !.pc = "release"]
    BY <2>1 DEF Goto, TypeOK
  <2>3. job'[t].pc = "release" /\ job'[t].records = {}
    BY <1>1, <2>2 DEF Job
  <2> QED
    BY <1>1, <2>1, <2>3
<1> QED
  BY <1>2, <1>3

\* A record finds a carrier when its digest is closed and loses one when it is
\* sent or its task fails.
LEMMA CarriersStep ==
    ASSUME TypeOK, NothingCarried, NEW r \in Record,
           NEW t \in Task, Take(t) \/ Deliver(t) \/ Fail(t)
    PROVE  /\ Close(t) /\ r \in job'[t].records =>
                 t \notin Carriers(r) /\ Carriers(r)' = Carriers(r) \cup {t}
           /\ (Notify(t) \/ Fail(t)) /\ t \in Carriers(r) => Carriers(r)' = Carriers(r) \ {t}
           /\ \/ Close(t) /\ r \in job'[t].records
              \/ (Notify(t) \/ Fail(t)) /\ t \in Carriers(r)
              \/ Carriers(r)' = Carriers(r)
<1> DEFINE Carries == job[t].pc \in {"release", "notify"} /\ r \in job[t].records
           CarriesNow == job'[t].pc \in {"release", "notify"} /\ r \in job'[t].records
<1>1. \A u \in Task \ {t} : job'[u] = job[u]
  BY DEF Take, Deliver, Acquire, Open, Close, DeleteTimeline, Release, Notify, Fail, Goto, TypeOK
<1>2. /\ t \in Carriers(r) <=> Carries
      /\ t \in Carriers(r)' <=> CarriesNow
      /\ \A u \in Task \ {t} : u \in Carriers(r)' <=> u \in Carriers(r)
      /\ Carriers(r) \subseteq Task /\ Carriers(r)' \subseteq Task
  BY <1>1 DEF Carriers
<1>3. Close(t) => ~Carries /\ (CarriesNow <=> r \in job'[t].records)
  BY JobStep
<1>4. Notify(t) \/ Fail(t) => ~CarriesNow
  BY JobStep DEF Idle
<1>5. Take(t) \/ Acquire(t) \/ DeleteTimeline(t) \/ Open(t) => ~Carries /\ ~CarriesNow
  BY JobStep, OpenJob
<1>6. Release(t) => (Carries <=> CarriesNow)
  BY JobStep DEF Release, Goto, TypeOK, Job
<1>7. CASE Carries <=> CarriesNow
  BY <1>2, <1>3, <1>4, <1>7
<1>8. CASE Carries /\ ~CarriesNow
  <2>1. (Notify(t) \/ Fail(t)) /\ ~Close(t)
    BY <1>3, <1>5, <1>6, <1>8 DEF Deliver
  <2> QED
    BY <1>2, <1>8, <2>1
<1>9. CASE ~Carries /\ CarriesNow
  <2>1. Close(t) /\ r \in job'[t].records /\ ~Notify(t) /\ ~Fail(t)
    BY <1>3, <1>4, <1>5, <1>6, <1>9 DEF Deliver
  <2> QED
    BY <1>2, <1>9, <2>1
<1> QED
  BY <1>7, <1>8, <1>9

\* The number of a record's carriers.
LEMMA CarriersCount ==
    ASSUME TypeOK, NothingCarried, FewCarry, NEW r \in Record,
           NEW t \in Task, Take(t) \/ Deliver(t) \/ Fail(t)
    PROVE  LET n == Cardinality(Carriers(r))
               m == Cardinality(Carriers(r)')
           IN  /\ IsFiniteSet(Carriers(r)')
               /\ n \in Nat /\ m \in Nat
               /\ Close(t) => m = n + One(r \in job'[t].records)
               /\ Notify(t) => m = n - One(r \in job[t].records)
               /\ Fail(t) => m <= n
               /\ ~Close(t) /\ ~Notify(t) /\ ~Fail(t) => m = n
<1>1. IsFiniteSet(Carriers(r))
  BY DEF FewCarry
<1>2. /\ Close(t) => job[t].pc = "close"
      /\ Notify(t) => job[t].pc = "notify"
  BY DEF Close, Notify
<1>3. Fail(t) \/ Notify(t) => job'[t] = Idle
  BY JobStep
<1>4. CASE Close(t) /\ r \in job'[t].records
  <2>1. t \notin Carriers(r) /\ Carriers(r)' = Carriers(r) \cup {t}
    BY <1>4, CarriersStep
  <2>2. IsFiniteSet(Carriers(r)') /\ Cardinality(Carriers(r)') = Cardinality(Carriers(r)) + 1
    BY <1>1, <2>1, FS_AddElement
  <2>3. ~Notify(t) /\ ~Fail(t)
    BY <1>2, <1>3, <1>4, JobStep DEF Idle
  <2>4. Cardinality(Carriers(r)) \in Nat
    BY <1>1, FS_CardinalityType
  <2> QED
    BY <1>4, <2>2, <2>3, <2>4 DEF One
<1>5. CASE (Notify(t) \/ Fail(t)) /\ t \in Carriers(r)
  <2>1. Carriers(r)' = Carriers(r) \ {t}
    BY <1>5, CarriersStep
  <2>2. IsFiniteSet(Carriers(r)') /\ Cardinality(Carriers(r)') = Cardinality(Carriers(r)) - 1
    BY <1>1, <1>5, <2>1, FS_RemoveElement
  <2>3. r \in job[t].records /\ ~Close(t)
    BY <1>5 DEF Carriers, Close
  <2>4. Cardinality(Carriers(r)) \in Nat /\ Cardinality(Carriers(r)') \in Nat
    BY <1>1, <2>2, FS_CardinalityType
  <2> QED
    BY <1>5, <2>2, <2>3, <2>4 DEF One
<1>6. CASE ~(Close(t) /\ r \in job'[t].records) /\ ~((Notify(t) \/ Fail(t)) /\ t \in Carriers(r))
  <2>1. Carriers(r)' = Carriers(r)
    BY <1>6, CarriersStep
  <2>2. Cardinality(Carriers(r)) \in Nat
    BY <1>1, FS_CardinalityType
  <2>3. Notify(t) => r \notin job[t].records
    BY <1>2, <1>6 DEF Carriers
  <2> QED
    BY <1>1, <1>6, <2>1, <2>2, <2>3 DEF One
<1> QED
  BY <1>4, <1>5, <1>6

LEMMA CarriedStep ==
    ASSUME TypeOK, NothingCarried, Next
    PROVE  NothingCarried'
<1>1. CASE UNCHANGED job
  BY <1>1 DEF NothingCarried
<1>2. ASSUME NEW t \in Task, Take(t) \/ Deliver(t) \/ Fail(t),
             \A u \in Task \ {t} : job'[u] = job[u]
      PROVE  NothingCarried'
  <2>1. job'[t].pc \in {"free", "digest", "purge", "open", "delete"} => job'[t].records = {}
    <3>1. CASE Release(t)
      BY <3>1 DEF Release, Goto, Idle, TypeOK, Job
    <3>2. CASE ~Release(t)
      BY <1>2, <3>2, JobStep, OpenJob DEF Deliver, Idle
    <3> QED
      BY <3>1, <3>2
  <2> QED
    BY <1>2, <2>1 DEF NothingCarried
<1> QED
  BY <1>1, <1>2, JobFrame

\* The lock keeps other tasks out until it is released or has expired.
LEMMA LockHeldStep ==
    ASSUME TypeOK, LockHeld, Next, ~overrun'
    PROVE  LockHeld' /\ ~overrun
<1>0. ~overrun
  BY DEF Next, Deliver, Add, Evict, Schedule, Maintenance, LockExpires, LoseTask, DeleteProject,
         Take, Acquire, Open, Close, DeleteTimeline, Release, Notify, Fail, history
<1>1. CASE UNCHANGED <<job, lock>>
  BY <1>0, <1>1 DEF LockHeld
<1>2. CASE LockExpires
  <2>1. UNCHANGED job /\ ~ \E t \in Task : Holds(t)
    BY <1>2 DEF LockExpires
  <2> QED
    BY <1>0, <2>1 DEF LockHeld, Holds
<1>3. ASSUME NEW t \in Task, Take(t) \/ Deliver(t) \/ Fail(t),
             \A u \in Task \ {t} : job'[u] = job[u]
      PROVE  LockHeld'
  <2>1. CASE Take(t) \/ Open(t) \/ Close(t) \/ DeleteTimeline(t) \/ Notify(t)
    <3>1. UNCHANGED lock /\ (job'[t].pc \in Locked => job[t].pc \in Locked)
      BY <2>1 DEF Take, Open, Close, DeleteTimeline, Notify, Goto, Locked, Idle, TypeOK, Job
    <3> QED
      BY <1>3, <3>1 DEF LockHeld
  <2>2. CASE Acquire(t)
    <3>1. CASE lock = NoTask
      <4>1. \A u \in Task : job[u].pc \notin Locked
        BY <3>1, NoTaskAssumption DEF LockHeld
      <4>2. lock' = t
        BY <2>2, <3>1 DEF Acquire, Acquirable
      <4> QED
        BY <1>3, <4>1, <4>2 DEF LockHeld
    <3>2. CASE lock # NoTask
      <4>1. UNCHANGED lock /\ job'[t].pc = "free"
        BY <2>2, <3>2 DEF Acquire, Acquirable, Goto, TypeOK, Job
      <4> QED
        BY <1>3, <4>1 DEF LockHeld, Locked
    <3> QED
      BY <3>1, <3>2
  <2>3. CASE Release(t) \/ Fail(t)
    <3>1. job'[t].pc \notin Locked
      BY <2>3 DEF Release, Fail, Goto, Locked, Idle, TypeOK, Job
    <3>2. UNCHANGED lock \/ (job[t].pc \in Locked /\ lock = t)
      BY <2>3 DEF Release, Fail, ReleaseLock, LockHeld, Locked
    <3> QED
      BY <1>3, <3>1, <3>2 DEF LockHeld
  <2> QED
    BY <1>3, <2>1, <2>2, <2>3 DEF Deliver
<1>4. ASSUME NEW t \in Task, Take(t) \/ Deliver(t) \/ Fail(t)
      PROVE  \A u \in Task \ {t} : job'[u] = job[u]
  BY <1>4 DEF Take, Deliver, Acquire, Open, Close, DeleteTimeline, Release, Notify, Fail, Goto, TypeOK
<1>5. \/ UNCHANGED <<job, lock>> \/ LockExpires
      \/ \E t \in Task : Take(t) \/ Deliver(t) \/ Fail(t)
  BY DEF Next, Add, Evict, Schedule, Maintenance, LoseTask, DeleteProject
<1>6. LockHeld'
  BY <1>1, <1>2, <1>3, <1>4, <1>5
<1> QED
  BY <1>0, <1>6

\* Nobody else touches the digest between its opening and its closing.
LEMMA OpenedStoredStep ==
    ASSUME TypeOK, NothingCarried, LockHeld, OpenedIsStored, Next
    PROVE  OpenedIsStored'
<1>1. ASSUME NEW t \in Task, Open(t) \/ Close(t) \/ DeleteTimeline(t),
             \A u \in Task \ {t} : job'[u] = job[u]
      PROVE  OpenedIsStored'
  <2>1. \A u \in Task \ {t} : job[u].pc # "close"
    <3>1. job[t].pc \in Locked
      BY <1>1 DEF Open, Close, DeleteTimeline, Locked
    <3> QED
      BY <3>1 DEF LockHeld, Locked
  <2>2. job'[t].pc = "close" => job'[t].records \subseteq job'[t].ids /\ job'[t].ids \subseteq digest'
    BY <1>1, JobStep, OpenJob
  <2> QED
    BY <1>1, <2>1, <2>2 DEF OpenedIsStored
<1>2. ASSUME NEW t \in Task, Take(t) \/ Acquire(t) \/ Release(t) \/ Notify(t) \/ Fail(t),
             \A u \in Task \ {t} : job'[u] = job[u]
      PROVE  OpenedIsStored'
  <2>1. UNCHANGED digest
    BY <1>2 DEF Take, Acquire, Release, Notify, Fail, redis
  <2>2. job'[t].pc # "close"
    BY <1>2, JobStep DEF Idle
  <2> QED
    BY <1>2, <2>1, <2>2 DEF OpenedIsStored
<1>3. CASE UNCHANGED <<job, digest>>
  BY <1>3 DEF OpenedIsStored
<1>4. \/ UNCHANGED <<job, digest>>
      \/ \E t \in Task : Take(t) \/ Deliver(t) \/ Fail(t)
  BY DEF Next, Add, Evict, Schedule, Maintenance, LockExpires, LoseTask, DeleteProject, redis
<1>5. ASSUME NEW t \in Task, Take(t) \/ Deliver(t) \/ Fail(t)
      PROVE  \A u \in Task \ {t} : job'[u] = job[u]
  BY <1>5 DEF Take, Deliver, Acquire, Open, Close, DeleteTimeline, Release, Notify, Fail, Goto, TypeOK
<1> QED
  BY <1>1, <1>2, <1>3, <1>4, <1>5 DEF Deliver

\* Where a record goes: no step uses it once more without adding it.
LEMMA UsedStep ==
    ASSUME TypeOK, TypeOK', NothingCarried, FewCarry, OpenedIsStored, UsedAsAdded, Next,
           NEW r \in Record
    PROVE  IsFiniteSet(Carriers(r)') /\ Uses(r)' <= added'[r]
<1> DEFINE n == Cardinality(Carriers(r))
           m == Cardinality(Carriers(r)')
<1>1. /\ IsFiniteSet(Carriers(r)) /\ n \in Nat
      /\ sent[r] \in Nat /\ added[r] \in Nat /\ sent'[r] \in Nat /\ added'[r] \in Nat
      /\ sent[r] + n + One(r \in timeline) + One(r \in digest) <= added[r]
  BY FS_CardinalityType DEF TypeOK, UsedAsAdded, Uses, FewCarry
<1>2. Uses(r)' = sent'[r] + m + One(r \in timeline') + One(r \in digest')
  BY DEF Uses, Carriers, One
<1>3. CASE UNCHANGED <<job, sent, digest>>
  <2>1. Carriers(r)' = Carriers(r)
    BY <1>3 DEF Carriers
  <2>2. CASE UNCHANGED <<timeline, added>>
    BY <1>1, <1>2, <1>3, <2>1, <2>2
  <2>3. ASSUME NEW q \in Record, Add(q) PROVE IsFiniteSet(Carriers(r)') /\ Uses(r)' <= added'[r]
    <3>1. /\ timeline' \subseteq timeline \cup {q}
          /\ added'[r] = IF r = q THEN added[r] + 1 ELSE added[r]
      BY <2>3, NewestIn DEF Add, TypeOK
    <3> QED
      BY <1>1, <1>2, <1>3, <2>1, <3>1 DEF One
  <2>4. (\E q \in Record : Add(q)) \/ UNCHANGED <<timeline, added>>
    <3>1. ASSUME NEW t \in Task, Take(t) \/ Deliver(t) \/ Fail(t), UNCHANGED job
          PROVE  UNCHANGED <<timeline, added>>
      <4>1. ~Open(t) /\ ~DeleteTimeline(t)
        BY <3>1, OpenJob DEF DeleteTimeline, Goto, TypeOK, Job
      <4> QED
        BY <3>1, <4>1 DEF Take, Deliver, Acquire, Close, Release, Notify, Fail, redis, history
    <3> QED
      BY <1>3, <3>1 DEF Next, Evict, Schedule, Maintenance, LockExpires, LoseTask, DeleteProject,
         redis, history
  <2> QED
    BY <2>2, <2>3, <2>4
<1>4. ASSUME NEW t \in Task, Take(t) \/ Deliver(t) \/ Fail(t)
      PROVE  IsFiniteSet(Carriers(r)') /\ Uses(r)' <= added'[r]
  <2>1. /\ IsFiniteSet(Carriers(r)') /\ m \in Nat
        /\ Close(t) => m = n + One(r \in job'[t].records)
        /\ Notify(t) => m = n - One(r \in job[t].records)
        /\ Fail(t) => m <= n
        /\ ~Close(t) /\ ~Notify(t) /\ ~Fail(t) => m = n
    BY <1>4, CarriersCount
  <2> HIDE DEF n, m
  <2>2. added' = added
    BY <1>4 DEF Take, Deliver, Acquire, Open, Close, DeleteTimeline, Release, Notify, Fail, history
  <2>3. CASE Close(t)
    <3>1. /\ timeline' = timeline /\ sent' = sent /\ digest' = digest \ job[t].ids
          /\ r \in job'[t].records => r \in job[t].ids /\ r \in digest
      BY <1>4, <2>3, JobStep DEF Close, Remaining, OpenedIsStored
    <3> QED
      BY <1>1, <1>2, <2>1, <2>2, <2>3, <3>1 DEF One
  <2>4. CASE Notify(t)
    <3>1. /\ UNCHANGED <<timeline, digest>>
          /\ sent'[r] = sent[r] + One(r \in job[t].records)
      BY <1>1, <2>4 DEF Notify, redis, One
    <3> QED
      BY <1>1, <1>2, <2>1, <2>2, <2>4, <3>1 DEF One
  <2>5. CASE Fail(t)
    <3>1. UNCHANGED <<timeline, digest, sent>>
      BY <2>5 DEF Fail, redis
    <3> QED
      BY <1>1, <1>2, <2>1, <2>2, <2>5, <3>1 DEF One
  <2>6. CASE ~Close(t) /\ ~Notify(t) /\ ~Fail(t)
    <3>1. CASE Open(t)
      <4>1. /\ sent' = sent
            /\ \/ timeline' = {} /\ digest' \subseteq timeline \cup digest
               \/ UNCHANGED <<timeline, digest>>
        BY <3>1, OpenJob DEF Open
      <4> QED
        BY <1>1, <1>2, <2>1, <2>2, <2>6, <4>1 DEF One
    <3>2. CASE ~Open(t)
      <4>1. /\ sent' = sent
            /\ timeline' \subseteq timeline /\ digest' \subseteq digest
        BY <1>4, <2>6, <3>2 DEF Take, Deliver, Acquire, DeleteTimeline, Release, redis, history
      <4> QED
        BY <1>1, <1>2, <2>1, <2>2, <2>6, <4>1 DEF One
    <3> QED
      BY <3>1, <3>2
  <2> QED
    BY <2>3, <2>4, <2>5, <2>6
<1>5. UNCHANGED <<job, sent, digest>> \/ \E t \in Task : Take(t) \/ Deliver(t) \/ Fail(t)
  BY DEF Next, Add, Evict, Schedule, Maintenance, LockExpires, LoseTask, DeleteProject, redis, history
<1> QED
  BY <1>3, <1>4, <1>5

LEMMA FewCarryStep ==
    ASSUME TypeOK, NothingCarried, FewCarry, Next
    PROVE  FewCarry'
<1>1. CASE UNCHANGED job
  BY <1>1 DEF FewCarry, Carriers
<1>2. ASSUME NEW t \in Task, Take(t) \/ Deliver(t) \/ Fail(t)
      PROVE  FewCarry'
  BY <1>2, CarriersCount DEF FewCarry
<1> QED
  BY <1>1, <1>2, JobFrame

LEMMA SendStep == TypeOK /\ TypeOK' /\ SendInv /\ [Next]_vars => SendInv'
<1> SUFFICES ASSUME TypeOK, TypeOK', SendInv, [Next]_vars PROVE SendInv'
  OBVIOUS
<1>1. CASE UNCHANGED vars
  <2>1. UNCHANGED <<job, lock, timeline, digest, sent, added, overrun>>
    BY <1>1 DEF vars, redis, history
  <2> QED
    BY <2>1 DEF SendInv, NothingCarried, FewCarry, LockHeld, OpenedIsStored, UsedAsAdded, Uses,
       Carriers, One
<1>2. CASE Next
  <2>1. NothingCarried' /\ FewCarry'
    BY <1>2, CarriedStep, FewCarryStep DEF SendInv
  <2>2. ASSUME ~overrun' PROVE LockHeld' /\ OpenedIsStored' /\ UsedAsAdded'
    <3>1. ~overrun
      BY <1>2, <2>2 DEF Next, Deliver, Add, Evict, Schedule, Maintenance, LockExpires, LoseTask,
         DeleteProject, Take, Acquire, Open, Close, DeleteTimeline, Release, Notify, Fail, history
    <3>2. LockHeld'
      BY <1>2, <2>2, <3>1, LockHeldStep DEF SendInv
    <3>3. OpenedIsStored'
      BY <1>2, <3>1, OpenedStoredStep DEF SendInv
    <3>4. UsedAsAdded'
      BY <1>2, <3>1, UsedStep DEF SendInv, UsedAsAdded
    <3> QED
      BY <3>2, <3>3, <3>4
  <2> QED
    BY <2>1, <2>2 DEF SendInv
<1> QED
  BY <1>1, <1>2

\* While no lock expires under its task a record is sent at most as often as it
\* was added: a lock that is shared, kept by a dead task or released twice does
\* not open a digest for two tasks (see NotSentTwice).
THEOREM SentAtMostOnce == Spec => []NotSentTwice
<1>1. Init => SendInv
  BY SendInit
<1>2. TypeOK /\ TypeOK' /\ SendInv /\ [Next]_vars => SendInv'
  BY SendStep
<1>3. TypeOK /\ SendInv => NotSentTwice
  <2> SUFFICES ASSUME TypeOK, SendInv, ~overrun, NEW r \in Record PROVE sent[r] <= added[r]
    BY DEF NotSentTwice
  <2>1. Uses(r) <= added[r] /\ Cardinality(Carriers(r)) \in Nat
    BY FS_CardinalityType DEF SendInv, UsedAsAdded, FewCarry
  <2>2. sent[r] \in Nat /\ added[r] \in Nat
    BY DEF TypeOK
  <2> QED
    BY <2>1, <2>2 DEF Uses, One
<1> QED
  BY <1>1, <1>2, <1>3, TypeCorrect, PTL DEF Spec
=============================================================================
