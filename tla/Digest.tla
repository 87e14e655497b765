------------------------------- MODULE Digest -------------------------------
(***************************************************************************)
(* Digests of notifications (digests/backends/redis.py, digests.lua and    *)
(* tasks/digests.py), for one timeline.                                    *)
(*                                                                         *)
(* Notifications add records to a timeline, and the first one makes it     *)
(* ready.  A task delivers it under a lock: it opens a digest, builds the  *)
(* message of the records that still matter, closes the digest, releases   *)
(* the lock and sends.  The closed timeline waits for the scheduler, which *)
(* makes it ready again and starts the next task, or takes it back when no *)
(* task has come for it.  Every script runs in redis in one step; delays   *)
(* and deadlines are not counted.                                          *)
(***************************************************************************)
EXTENDS Integers, FiniteSets, Functions

CONSTANTS
    Task,        \* deliver_digest tasks that run at a time
    NoTask,      \* the lock is free
    MaxRecord,   \* records are events, numbered by their time
    Capacity,    \* of the timeline
    MaxAdds,     \* bound on adds, for TLC
    MaxQueued,   \* bound on tasks in the queue, for TLC
    MaxFaults    \* bound on failures, late locks and early maintenance, for TLC

ASSUME CapacityAssumption == Capacity \in Nat \ {0}
ASSUME BoundAssumption == {MaxRecord, MaxAdds, MaxQueued, MaxFaults} \subseteq Nat
ASSUME NoTaskAssumption == NoTask \notin Task

VARIABLES
    schedule,    \* the schedule sets the timeline is in
    timeline,    \* records added since the digest was opened
    digest,      \* records in the digest set
    values,      \* records whose data is still stored
    lock,        \* the holder of the timeline's lock
    queued,      \* tasks in the queue
    job,         \* what each running task does next, and with which records
    project,     \* does the project exist?
    added,       \* how often each record was added (history)
    sent,        \* how often each record was sent (history)
    owed,        \* records not sent or given up since they were added (history)
    overrun,     \* has a lock expired while its task worked? (history)
    faults       \* failures so far

redis == <<schedule, timeline, digest, values>>
history == <<added, sent, owed, overrun>>
vars == <<redis, lock, queued, job, project, history, faults>>

Record == 1..MaxRecord
Locked == {"open", "delete", "close", "release"}
Job == [pc : {"free", "digest", "purge", "notify"} \cup Locked,
        ids : SUBSET Record, records : SUBSET Record]
Idle == [pc |-> "free", ids |-> {}, records |-> {}]

TypeOK ==
    /\ schedule \in {{}, {"waiting"}, {"ready"}}
    /\ timeline \subseteq Record /\ digest \subseteq Record
    /\ values \subseteq Record /\ owed \subseteq Record
    /\ lock \in Task \cup {NoTask}
    /\ queued \in 0..MaxQueued
    /\ job \in [Task -> Job]
    /\ project \in BOOLEAN /\ overrun \in BOOLEAN
    /\ added \in [Record -> Nat] /\ sent \in [Record -> Nat]
    /\ faults \in 0..MaxFaults

Init ==
    /\ schedule = {}
    /\ timeline = {}
    /\ digest = {}
    /\ values = {}
    /\ lock = NoTask
    /\ queued = 0
    /\ job = [t \in Task |-> Idle]
    /\ project = TRUE
    /\ added = [r \in Record |-> 0]
    /\ sent = [r \in Record |-> 0]
    /\ owed = {}
    /\ overrun = FALSE
    /\ faults = 0

Fault == faults < MaxFaults /\ faults' = faults + 1
Holds(t) == lock = t /\ job[t].pc \in Locked

\* A script that made the timeline ready is followed by the start of a task,
\* unless the process dies in between.
StartTask ==
    \/ queued < MaxQueued /\ queued' = queued + 1 /\ UNCHANGED faults
    \/ Fault /\ UNCHANGED queued

\* Records that a task can open with their data.
Stored == (timeline \cup digest) \cap values

\* truncate_timeline, truncate_digest: the newest records stay.
Newest(R) == {r \in R : Cardinality({q \in R : q > r}) < Capacity}

-----------------------------------------------------------------------------
(* Notifications and the scheduler. *)

Adds == FoldFunction(+, 0, added)

\* ADD, from rule_notify: only a timeline that is in neither set becomes ready
\* at once.  One add in a few truncates the timeline.  The event of a retried
\* post-process is added again.
Add(r) ==
    /\ Adds < MaxAdds
    /\ \E kept \in {timeline \cup {r}, Newest(timeline \cup {r})} :
        /\ timeline' = kept
        /\ values' = (values \cup {r}) \ ((timeline \cup {r}) \ kept)
        /\ owed' = (owed \cup {r}) \ ((timeline \cup {r}) \ kept)
    /\ IF schedule = {} THEN schedule' = {"ready"} /\ StartTask
                        ELSE UNCHANGED <<schedule, queued, faults>>
    /\ added' = [added EXCEPT ![r] = @ + 1]
    /\ UNCHANGED <<digest, lock, job, project, sent, overrun>>

\* Mutant: the timeline is not removed from the set it comes from.
Moved_Copies(from, to) == schedule \cup {to}

\* zrange_move_slice.
Moved(from, to) == (schedule \ {from}) \cup {to}

\* SCHEDULE moves a timeline that has waited long enough.
Schedule ==
    /\ "waiting" \in schedule
    /\ schedule' = Moved("waiting", "ready")
    /\ StartTask
    /\ UNCHANGED <<timeline, digest, values, lock, job, project, history>>

Delivering == queued > 0 \/ \E t \in Task : job[t].pc # "free"

\* MAINTENANCE takes back a timeline that was ready for five minutes.  That a
\* task is then still on its way counts as a failure.
Maintenance ==
    /\ "ready" \in schedule
    /\ IF Delivering THEN Fault ELSE UNCHANGED faults
    /\ schedule' = Moved("ready", "waiting")
    /\ UNCHANGED <<timeline, digest, values, lock, queued, job, project, history>>

DeleteProject ==
    /\ project
    /\ project' = FALSE
    /\ UNCHANGED <<redis, lock, queued, job, history, faults>>

-----------------------------------------------------------------------------
(* deliver_digest. *)

Goto(t, next) == job' = [job EXCEPT ![t].pc = next]

\* split_key looks for the project.
Take(t) ==
    /\ job[t].pc = "free"
    /\ queued > 0
    /\ queued' = queued - 1
    /\ Goto(t, IF project THEN "digest" ELSE "purge")
    /\ UNCHANGED <<redis, lock, project, history, faults>>

\* Mutant: the lock is taken though another task has it.
Acquirable_Always == TRUE

Acquirable == lock = NoTask

\* A task that does not get the lock fails.
Acquire(t) ==
    /\ job[t].pc \in {"digest", "purge"}
    /\ IF Acquirable
       THEN lock' = t /\ Goto(t, IF job[t].pc = "digest" THEN "open" ELSE "delete")
       ELSE UNCHANGED lock /\ Goto(t, "free")
    /\ UNCHANGED <<redis, queued, project, history, faults>>

\* DIGEST_OPEN merges the timeline into a digest that was not closed.  Records
\* without data are left out of the message.
Open(t) ==
    /\ job[t].pc = "open"
    /\ IF "ready" \in schedule
       THEN LET union == timeline \cup digest
                merged == IF timeline # {} /\ digest # {} THEN Newest(union) ELSE union
            IN /\ timeline' = {}
               /\ digest' = merged
               /\ values' = values \ (union \ merged)
               /\ owed' = owed \ (union \ merged)
               /\ job' = [job EXCEPT ![t] = [pc |-> "close", ids |-> merged,
                                             records |-> merged \cap values]]
       ELSE /\ Goto(t, "release")
            /\ UNCHANGED <<timeline, digest, values, owed>>
    /\ UNCHANGED <<schedule, lock, queued, project, added, sent, overrun, faults>>

\* Mutant: the whole digest set is deleted.
Remaining_None(ids) == {}

Remaining(ids) == digest \ ids

\* Mutant: the timeline is not looked at.
Busy_DigestOnly(ids) == ids # {} \/ Remaining(ids) # {}

\* Did the digest have records, or are any left?
Busy(ids) == ids # {} \/ timeline # {} \/ Remaining(ids) # {}

\* build_digest leaves out records of a group that is resolved or gone and of
\* rules that are gone; both may change at any time.
Built(t) == SUBSET job[t].records

\* DIGEST_CLOSE, of all that was opened.  A record that was added again since
\* loses its data too: its older copy in the message stands for it.  What is
\* not in the message is given up.
Close(t) ==
    /\ job[t].pc = "close"
    /\ digest' = Remaining(job[t].ids)
    /\ values' = values \ job[t].ids
    /\ schedule' = (schedule \ {"ready", "waiting"})
                   \cup (IF Busy(job[t].ids) THEN {"waiting"} ELSE {})
    /\ \E built \in Built(t) :
        /\ job' = [job EXCEPT ![t].pc = "release", ![t].records = built]
        /\ owed' = owed \ (job[t].ids \ built)
    /\ UNCHANGED <<timeline, lock, queued, project, added, sent, overrun, faults>>

\* DELETE, for a project that is gone.
DeleteTimeline(t) ==
    /\ job[t].pc = "delete"
    /\ owed' = owed \ (timeline \cup digest)
    /\ values' = values \ (timeline \cup digest)
    /\ schedule' = {}
    /\ timeline' = {}
    /\ digest' = {}
    /\ Goto(t, "release")
    /\ UNCHANGED <<lock, queued, project, added, sent, overrun, faults>>

\* Workers that were forked from one process share the uuid in the lock, and
\* delete each other's.
ReleaseLock(t) == lock' \in (IF lock = t THEN {NoTask} ELSE {lock, NoTask})

\* A failure to release the lock is logged and ignored.  A task without a
\* message is done.
Release(t) ==
    /\ job[t].pc = "release"
    /\ \/ ReleaseLock(t) /\ UNCHANGED faults
       \/ Fault /\ UNCHANGED lock
    /\ IF job[t].records = {} THEN job' = [job EXCEPT ![t] = Idle] ELSE Goto(t, "notify")
    /\ UNCHANGED <<redis, queued, project, history>>

\* A message was sent or failed: what was added again since it was closed is
\* still owed.
OwedWithout(t) == owed \ (job[t].records \ Stored)

Notify(t) ==
    /\ job[t].pc = "notify"
    /\ owed' = OwedWithout(t)
    /\ sent' = [r \in Record |-> IF r \in job[t].records THEN sent[r] + 1 ELSE sent[r]]
    /\ job' = [job EXCEPT ![t] = Idle]
    /\ UNCHANGED <<redis, lock, queued, project, added, overrun, faults>>

-----------------------------------------------------------------------------
(* Failures. *)

\* An exception ends a task and releases its lock; a task that dies keeps it.
\* What was closed but not sent is lost.
Fail(t) ==
    /\ job[t].pc # "free"
    /\ Fault
    /\ UNCHANGED lock \/ (job[t].pc \in Locked /\ ReleaseLock(t))
    /\ owed' = IF job[t].pc \in {"release", "notify"} THEN OwedWithout(t) ELSE owed
    /\ job' = [job EXCEPT ![t] = Idle]
    /\ UNCHANGED <<redis, queued, project, added, sent, overrun>>

\* Mutant: the lock is set without an expiry.
Expires_Never == FALSE

Expires == lock # NoTask

\* After 30 seconds redis deletes the lock.  That its task still works counts
\* as a failure.
LockExpires ==
    /\ Expires
    /\ LET working == \E t \in Task : Holds(t)
       IN /\ IF working THEN Fault ELSE UNCHANGED faults
          /\ overrun' = (overrun \/ working)
    /\ lock' = NoTask
    /\ UNCHANGED <<redis, queued, job, project, added, sent, owed>>

\* Redis evicts the data of a record.
Evict(r) ==
    /\ Fault
    /\ r \in values
    /\ values' = values \ {r}
    /\ owed' = owed \ {r}
    /\ UNCHANGED <<schedule, timeline, digest, lock, queued, job, project, added, sent, overrun>>

LoseTask ==
    /\ Fault
    /\ queued > 0
    /\ queued' = queued - 1
    /\ UNCHANGED <<redis, lock, job, project, history>>

-----------------------------------------------------------------------------
Deliver(t) ==
    \/ Acquire(t) \/ Open(t) \/ Close(t) \/ DeleteTimeline(t) \/ Release(t) \/ Notify(t)

Next ==
    \/ \E r \in Record : Add(r) \/ Evict(r)
    \/ Schedule \/ Maintenance \/ LockExpires \/ LoseTask \/ DeleteProject
    \/ \E t \in Task : Take(t) \/ Deliver(t) \/ Fail(t)

Spec == Init /\ [][Next]_vars

\* Cron runs the scheduler every 30 seconds, a timeline waits at most the
\* maximum delay after its last digest, and tasks that do not fail go on.
FairSpec ==
    /\ Spec
    /\ WF_vars(Schedule)
    /\ WF_vars(Maintenance /\ ~Delivering)
    /\ WF_vars(LockExpires /\ UNCHANGED faults)
    /\ WF_vars(\E t \in Task : Take(t))
    /\ \A t \in Task : WF_vars(Deliver(t))

-----------------------------------------------------------------------------
\* Records are never stranded in a timeline that no schedule knows, whatever
\* is added, closed, taken back or deleted meanwhile.
NonEmptyIsScheduled == timeline \cup digest # {} => schedule # {}

InTransit(r) == \E t \in Task : job[t].pc \in {"release", "notify"} /\ r \in job[t].records

\* A record that was added is stored with its data or about to be sent, until
\* it is sent or given up: truncated, evicted, deleted with its project, left
\* out of a message, or closed by a task that failed to send it.  Tasks that
\* meet at the same timeline lose no other, nor one that is added again while
\* an older copy of it is on its way.
NoRecordLost == \A r \in owed : r \in Stored \/ InTransit(r)

\* Backend.digest lets its caller act at most once: a record is not sent more
\* often than it was added.  An expired lock breaks that: a second task opens
\* the same records before the first has closed them.
NotSentTwice == ~overrun => \A r \in Record : sent[r] <= added[r]

\* An added record is sent or given up in the end, also when its task failed,
\* was lost or died with the lock, and when no task was started for it.
EventuallySent == \A r \in Record : r \in owed ~> r \notin owed
=============================================================================
