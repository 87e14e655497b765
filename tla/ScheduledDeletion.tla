------------------------- MODULE ScheduledDeletion -------------------------
(***************************************************************************)
(* Deletions that are scheduled, may be undone and run in background tasks *)
(* (tasks/deletion/scheduled.py), for one organization.                    *)
(*                                                                         *)
(* A request marks the organization and schedules a row for the next day;  *)
(* another one undoes both.  A scheduler claims the row when it is due and *)
(* starts a task, which looks at the organization again, deletes it and    *)
(* starts a second pass that removes the row.  A row that stays claimed    *)
(* for a day is released and claimed again.                                *)
(***************************************************************************)
EXTENDS Integers, FiniteSets

CONSTANTS
    Worker,      \* what runs the scheduler and the tasks
    NoRow,       \* the organization has no scheduled deletion
    MaxRows,     \* bound on rows that are ever created, for TLC
    MaxRequests, \* bound on requests, for TLC
    MaxFaults    \* bound on exceptions, and tasks and requests that die, for TLC

ASSUME BoundAssumption == {MaxRows, MaxRequests, MaxFaults} \subseteq Nat

VARIABLES
    status,      \* of the organization
    row,         \* its RegionScheduledDeletion
    created,     \* rows created so far; the last one's id
    put,         \* the PUT request in progress
    pc,          \* what each worker does next
    item,        \* the id of the row it works on
    requests,    \* requests so far
    faults,      \* exceptions, and tasks and requests that died so far
    reattempted, \* was a row released because it was a day old? (history)
    crossed      \* has one of the meetings below happened? (history)

organization == <<status, row, created>>
workers == <<pc, item>>
bounds == <<requests, faults>>
vars == <<organization, put, workers, bounds, reattempted, crossed>>

Pending == {"PENDING_DELETION", "DELETION_IN_PROGRESS"}
Status == {"ACTIVE", "GONE"} \cup Pending

\* age says how date_scheduled compares with now and with a day ago.
Row == [id : 1..MaxRows, age : {"future", "due", "old"}, in_progress : BOOLEAN]

Put == [at : {"none", "save", "find", "cancel"}, was : Status, cancel : BOOLEAN, id : 0..MaxRows]
Stage == {"free", "claim", "queued", "check", "abort", "chunk", "mark", "remove", "finish"}

ASSUME NoRowAssumption == NoRow \notin Row

NoPut == [at |-> "none", was |-> "ACTIVE", cancel |-> FALSE, id |-> 0]

TypeOK ==
    /\ status \in Status
    /\ row \in Row \cup {NoRow}
    /\ created \in 0..MaxRows
    /\ put \in Put
    /\ pc \in [Worker -> Stage]
    /\ item \in [Worker -> 0..MaxRows]
    /\ requests \in 0..MaxRequests
    /\ faults \in 0..MaxFaults
    /\ reattempted \in BOOLEAN /\ crossed \in BOOLEAN

Init ==
    /\ status = "ACTIVE"
    /\ row = NoRow
    /\ created = 0
    /\ put = NoPut
    /\ pc = [w \in Worker |-> "free"]
    /\ item = [w \in Worker |-> 0]
    /\ requests = 0
    /\ faults = 0
    /\ reattempted = FALSE
    /\ crossed = FALSE

\* A task that is neither waiting in the queue nor done.
Running(w) == pc[w] \notin {"free", "claim", "queued"}
Putting == put.at # "none"

\* A task that has seen the organization pending or in progress, and one that
\* has seen it gone or restored.
Deleting(w) == pc[w] \in {"chunk", "mark", "remove"}
Dropping(w) == pc[w] \in {"abort", "finish"}

\* The row with this id, if there is one, is deleted.
Without(id) == IF row # NoRow /\ row.id = id THEN NoRow ELSE row

-----------------------------------------------------------------------------
(* Requests, in OrganizationDetailsEndpoint. *)

\* Mutant: the row is scheduled without a date.
DelayedAge_None == "none"

DelayedAge == "future"

\* delete_organization: one transaction marks the organization and schedules
\* the deletion for the next day.  A row that is left of an earlier deletion
\* keeps its id and in_progress; it is lost if a request or a task is about to
\* delete it.
Delete ==
    /\ requests < MaxRequests
    /\ status = "ACTIVE"
    /\ row = NoRow => created < MaxRows
    /\ status' = "PENDING_DELETION"
    /\ IF row = NoRow
       THEN /\ created' = created + 1
            /\ row' = [id |-> created + 1, age |-> DelayedAge, in_progress |-> FALSE]
       ELSE /\ row' = [row EXCEPT !.age = DelayedAge]
            /\ UNCHANGED created
    /\ requests' = requests + 1
    /\ crossed' = (crossed \/ put.at \in {"find", "cancel"} \/ \E w \in Worker : Dropping(w))
    /\ UNCHANGED <<put, workers, faults, reattempted>>

\* put reads the organization; cancel is cancelDeletion in the request's data.
LoadPut(cancel) ==
    /\ requests < MaxRequests
    /\ ~Putting
    /\ status # "GONE"
    /\ put' = [at |-> "save", was |-> status, cancel |-> cancel, id |-> 0]
    /\ requests' = requests + 1
    /\ UNCHANGED <<organization, workers, faults, reattempted, crossed>>

Restores == put.cancel /\ put.was \in Pending

\* The serializer saves every field of the organization.  A pending one that is
\* only edited loses its deletion all the same, and one that becomes active
\* under a task that deletes it does not stay so.
SavePut ==
    /\ put.at = "save"
    /\ status' = IF Restores THEN "ACTIVE" ELSE put.was
    /\ put' = IF put.was \in Pending THEN [put EXCEPT !.at = "find"] ELSE NoPut
    /\ crossed' = (crossed \/ status' \in Pending \/ \E w \in Worker : Deleting(w))
    /\ UNCHANGED <<row, created, workers, bounds, reattempted>>

\* cancel finds the row only if it is not in progress ...
FindRow ==
    /\ put.at = "find"
    /\ put' = IF row # NoRow /\ ~row.in_progress
              THEN [put EXCEPT !.at = "cancel", !.id = row.id] ELSE NoPut
    /\ UNCHANGED <<organization, workers, bounds, reattempted, crossed>>

\* ... and deletes it by its id, even if a task has begun with it meanwhile.
CancelRow ==
    /\ put.at = "cancel"
    /\ row' = Without(put.id)
    /\ put' = NoPut
    /\ crossed' = (crossed \/ \E w \in Worker : Running(w) /\ item[w] = put.id)
    /\ UNCHANGED <<status, created, workers, bounds, reattempted>>

\* The request fails, as in the audit log, or dies before it has canceled.
FailPut ==
    /\ faults < MaxFaults
    /\ Putting
    /\ put' = NoPut
    /\ faults' = faults + 1
    /\ UNCHANGED <<organization, workers, requests, reattempted, crossed>>

-----------------------------------------------------------------------------
(* Time and the schedulers. *)

TimePasses ==
    /\ row # NoRow
    /\ row.age # "old"
    /\ row' = [row EXCEPT !.age = IF @ = "future" THEN "due" ELSE "old"]
    /\ UNCHANGED <<status, created, put, workers, bounds, reattempted, crossed>>

\* Mutant: rows that are not in progress are released.
Stuck_Inverted == ~row.in_progress /\ row.age = "old"

Stuck == row.in_progress /\ row.age = "old"

\* _reattempt_deletions.
Reattempt ==
    /\ row # NoRow
    /\ Stuck
    /\ row' = [row EXCEPT !.in_progress = FALSE]
    /\ reattempted' = TRUE
    /\ UNCHANGED <<status, created, put, workers, bounds, crossed>>

\* _run_scheduled_deletions finds the row ...
FindDue(w) ==
    /\ pc[w] = "free"
    /\ row # NoRow
    /\ ~row.in_progress /\ row.age # "future"
    /\ pc' = [pc EXCEPT ![w] = "claim"]
    /\ item' = [item EXCEPT ![w] = row.id]
    /\ UNCHANGED <<organization, put, bounds, reattempted, crossed>>

\* Mutant: the update does not look at in_progress again.
Claimable_Always(w) == row # NoRow /\ row.id = item[w]

Claimable(w) == row # NoRow /\ row.id = item[w] /\ ~row.in_progress

\* ... and claims it; the task is queued in its place.
Claim(w) ==
    /\ pc[w] = "claim"
    /\ IF Claimable(w)
       THEN /\ row' = [row EXCEPT !.in_progress = TRUE]
            /\ pc' = [pc EXCEPT ![w] = "queued"]
            /\ UNCHANGED item
       ELSE /\ pc' = [pc EXCEPT ![w] = "free"]
            /\ item' = [item EXCEPT ![w] = 0]
            /\ UNCHANGED row
    /\ UNCHANGED <<status, created, put, bounds, reattempted, crossed>>

-----------------------------------------------------------------------------
(* A task: _run_deletion. *)

Goto(w, next) ==
    /\ pc' = [pc EXCEPT ![w] = next]
    /\ item' = IF next = "free" THEN [item EXCEPT ![w] = 0] ELSE item

\* The row is read first; without it there is nothing to do.
Load(w) ==
    /\ pc[w] = "queued"
    /\ Goto(w, IF row # NoRow /\ row.id = item[w] THEN "check" ELSE "free")
    /\ UNCHANGED <<organization, put, bounds, reattempted, crossed>>

\* Mutant: an organization whose deletion has begun does not count.
ShouldProceed_NotBegun == status = "PENDING_DELETION"

\* Mutant: the organization is not looked at again before it is deleted.
ShouldProceed_Always == status # "GONE"

\* OrganizationDeletionTask.should_proceed, and the organization exists.
ShouldProceed == status \in Pending

Check(w) ==
    /\ pc[w] = "check"
    /\ Goto(w, IF ShouldProceed THEN "chunk" ELSE "abort")
    /\ UNCHANGED <<organization, put, bounds, reattempted, crossed>>

\* The row of a missing or restored organization is deleted, and so is that
\* of one which the last pass removed.
DropRow(w) ==
    /\ Dropping(w)
    /\ row' = Without(item[w])
    /\ Goto(w, "free")
    /\ UNCHANGED <<status, created, put, bounds, reattempted, crossed>>

\* ModelDeletionTask.chunk reads the organization once more ...
Chunk(w) ==
    /\ pc[w] = "chunk"
    /\ Goto(w, CASE status = "GONE" -> "finish"
                 [] status = "DELETION_IN_PROGRESS" -> "remove"
                 [] OTHER -> "mark")
    /\ UNCHANGED <<organization, put, bounds, reattempted, crossed>>

\* ... mark_deletion_in_progress writes the status, whatever it is by now; an
\* exception if the organization is gone ends the task and leaves its row ...
MarkInProgress(w) ==
    /\ pc[w] = "mark"
    /\ status' = IF status = "GONE" THEN "GONE" ELSE "DELETION_IN_PROGRESS"
    /\ Goto(w, IF status = "GONE" THEN "free" ELSE "remove")
    /\ UNCHANGED <<row, created, put, bounds, reattempted, crossed>>

\* ... and the organization is deleted, after all that belongs to it.  A chunk
\* that found something always has more to do.
Remove(w) ==
    /\ pc[w] = "remove"
    /\ status' = "GONE"
    /\ Goto(w, "queued")
    /\ UNCHANGED <<row, created, put, bounds, reattempted, crossed>>

\* An exception is reported and forgotten, or the task dies: the row stays in
\* progress.  A task that dies may also be delivered again.
Fail(w) ==
    /\ faults < MaxFaults
    /\ pc[w] \notin {"free", "claim"}
    /\ \E next \in {"free", "queued"} : Goto(w, next)
    /\ faults' = faults + 1
    /\ UNCHANGED <<organization, put, requests, reattempted, crossed>>

Run(w) ==
    \/ FindDue(w) \/ Claim(w) \/ Load(w) \/ Check(w) \/ DropRow(w)
    \/ Chunk(w) \/ MarkInProgress(w) \/ Remove(w)

Next ==
    \/ Delete \/ (\E cancel \in BOOLEAN : LoadPut(cancel)) \/ SavePut \/ FindRow \/ CancelRow \/ FailPut
    \/ TimePasses \/ Reattempt
    \/ \E w \in Worker : Run(w) \/ Fail(w)

Spec == Init /\ [][Next]_vars

\* Time passes, cron runs both schedulers, and whoever is alive goes on.
FairSpec ==
    /\ Spec
    /\ WF_vars(TimePasses) /\ WF_vars(Reattempt)
    /\ WF_vars(SavePut \/ FindRow \/ CancelRow)
    /\ \A w \in Worker : WF_vars(Run(w))

-----------------------------------------------------------------------------
(* Properties.  The code does not keep them once one of these has happened   *)
(* (crossed): a pending organization was edited without being restored; one  *)
(* became active under a task that had seen it pending; one was deleted again *)
(* just before a request or a task deleted the old row; a request canceled    *)
(* the row of a task that had begun after the request found it free.          *)

\* An organization that is to be deleted has a scheduled deletion: no other
\* sequence of deletes, restores, passes, failures and reattempts strands it.
PendingIsScheduled == ~crossed /\ status \in Pending => row # NoRow

\* An organization that was restored before a task looked at it is not deleted
\* any more, though restoring it could not cancel a row in progress.
RestoredIsKept ==
    [][status = "ACTIVE" /\ ~crossed' => status' \in {"ACTIVE", "PENDING_DELETION"}]_vars

\* Two tasks work on the organization only after one was given up for dead.
OneTaskWorks ==
    ~reattempted /\ ~crossed => Cardinality({w \in Worker : Deleting(w)}) <= 1

\* A deletion ends, also after exceptions and dead tasks: the organization is
\* gone or restored.  What remains of the deletion of one that is gone goes too.
EventuallySettled ==
    /\ status \in Pending ~> status \notin Pending \/ crossed
    /\ status = "GONE" ~> row = NoRow \/ crossed
=============================================================================
