--------------------------- MODULE WebhookMailbox ---------------------------
(***************************************************************************)
(* The webhook mailboxes of the control silo (models/webhookpayload.py and *)
(* tasks/deliver_webhooks.py).  A webhook is stored as a row of a mailbox; *)
(* a scheduler looks every ten seconds for mailboxes whose first row is    *)
(* due and queues a drain, sequential or parallel, that forwards rows to   *)
(* the region.  Nothing locks a row: drains that are late or slow overlap, *)
(* and each works on the copies of the rows it has read.                   *)
(* Time is abstract: a row that is not due may become due at any moment.   *)
(***************************************************************************)
EXTENDS Integers, FiniteSets

CONSTANTS
    MaxId,        \* webhooks are numbered 1..MaxId, the ids of their rows
    Box,          \* the mailbox of each webhook
    Worker,       \* celery tasks that may be queued or running at once
    MaxAttempts,  \* MAX_ATTEMPTS
    MaxDrain,     \* MAX_MAILBOX_DRAIN
    ParallelAt,   \* int(MAX_MAILBOX_DRAIN / 3)
    Slice,        \* rows a sequential drain reads at once
    Threads,      \* hybridcloud.webhookpayload.worker_threads
    LateCommit,   \* may ids become visible out of order?
    MaxCrashes    \* bound on the tasks that die, for TLC

Id == 1..MaxId

ASSUME SizesAssumption ==
    /\ MaxId \in Nat /\ MaxAttempts \in Nat /\ MaxDrain \in Nat /\ ParallelAt \in Nat
    /\ Slice \in Nat \ {0} /\ Threads \in Nat \ {0} /\ MaxCrashes \in Nat
ASSUME BoxAssumption == DOMAIN Box = Id
ASSUME CommitAssumption == LateCommit \in BOOLEAN

VARIABLES
    rows,       \* rows of hybridcloud_webhookpayload
    attempts,   \* their attempts ...
    due,        \* ... and which have schedule_for <= now
    heads       \* scheduled_mailboxes the scheduler still has to queue

VARIABLES
    pc,         \* where each task stands
    parallel,   \* drain_mailbox_parallel?
    head,       \* payload.id
    todo,       \* rows of the slice that have not been forwarded yet
    seen,       \* the attempts its copies of the rows hold
    okays,      \* parallel: rows whose answer waits to be recorded, good ones
    errs,       \* ... and bad ones
    failed      \* request_failed

VARIABLES
    received,   \* history: webhooks that have been answered 202 Accepted
    earlier,    \* history: rows of the mailbox that preceded each of them
    done,       \* history: webhooks their region took or told to drop, or too old
    tries,      \* history: attempts counted for each webhook, up to MaxAttempts
    crashes     \* history: tasks that died

rowVars == <<rows, attempts, due>>
taskVars == <<pc, parallel, head, todo, seen, okays, errs, failed>>
history == <<received, earlier, done, tries, crashes>>
vars == <<rowVars, heads, taskVars, history>>

TypeOK ==
    /\ rows \in SUBSET Id
    /\ attempts \in [Id -> 0..MaxAttempts]
    /\ due \in SUBSET Id
    /\ heads \in SUBSET Id
    /\ pc \in [Worker -> {"idle", "queued", "fetch", "again", "deliver",
                          "request", "accepted", "unwind"}]
    /\ parallel \in [Worker -> BOOLEAN]
    /\ head \in [Worker -> 0..MaxId]
    /\ todo \in [Worker -> SUBSET Id]
    /\ seen \in [Worker -> [Id -> 0..MaxAttempts]]
    /\ okays \in [Worker -> SUBSET Id]
    /\ errs \in [Worker -> SUBSET Id]
    /\ failed \in [Worker -> BOOLEAN]
    /\ received \in SUBSET Id
    /\ earlier \in [Id -> SUBSET Id]
    /\ done \in SUBSET Id
    /\ tries \in [Id -> 0..MaxAttempts]
    /\ crashes \in Nat

Nothing == [m \in Id |-> 0]

Init ==
    /\ rows = {} /\ attempts = Nothing /\ due = {} /\ heads = {}
    /\ pc = [w \in Worker |-> "idle"]
    /\ parallel = [w \in Worker |-> FALSE]
    /\ head = [w \in Worker |-> 0]
    /\ todo = [w \in Worker |-> {}]
    /\ seen = [w \in Worker |-> Nothing]
    /\ okays = [w \in Worker |-> {}]
    /\ errs = [w \in Worker |-> {}]
    /\ failed = [w \in Worker |-> FALSE]
    /\ received = {} /\ earlier = [m \in Id |-> {}]
    /\ done = {} /\ tries = Nothing /\ crashes = 0

\* The rows of h's mailbox from h on, and the first n of them.
From(h) == {m \in rows : Box[m] = Box[h] /\ h <= m}
First(n, S) == {m \in S : Cardinality({k \in S : k <= m}) <= n}
IsFirst(m, S) == m \in S /\ \A k \in S : m <= k

\* DELETE, without effect on rows that are gone.
Delete(S) ==
    /\ rows' = rows \ S
    /\ attempts' = [m \in Id |-> IF m \in S THEN 0 ELSE attempts[m]]
    /\ due' = due \ S

-----------------------------------------------------------------------------
(* Webhooks arrive and time passes. *)

\* create_from_request: a new row is due at once (THE_PAST).
Receive(m) ==
    /\ m \notin received
    /\ LateCommit \/ \A k \in Id : k < m => k \in received
    /\ rows' = rows \cup {m}
    /\ due' = due \cup {m}
    /\ received' = received \cup {m}
    /\ earlier' = [earlier EXCEPT ![m] = {k \in received : k < m /\ Box[k] = Box[m]}]
    /\ UNCHANGED <<attempts, heads, taskVars, done, tries, crashes>>

BecomeDue(m) ==
    /\ m \in rows \ due
    /\ due' = due \cup {m}
    /\ UNCHANGED <<rows, attempts, heads, taskVars, history>>

-----------------------------------------------------------------------------
(* schedule_webhook_delivery. *)

\* Mutant: any row that is due, also when the first one of its mailbox is not.
DueHeads_Any == rows \cap due

DueHeads == {m \in rows \cap due : IsFirst(m, {k \in rows : Box[k] = Box[m]})}

StartSchedule ==
    /\ heads = {}
    /\ DueHeads # {}
    /\ heads' = DueHeads
    /\ UNCHANGED <<rowVars, taskVars, history>>

\* The batch is put off, so that the next run of the scheduler leaves it alone,
\* and a drain is queued for its mailbox.
QueueDrain(m, w) ==
    LET batch == First(MaxDrain, From(m))
    IN  /\ m \in heads
        /\ pc[w] = "idle"
        /\ heads' = heads \ {m}
        /\ due' = due \ batch
        /\ pc' = [pc EXCEPT ![w] = "queued"]
        /\ head' = [head EXCEPT ![w] = m]
        /\ parallel' = [parallel EXCEPT ![w] = Cardinality(batch) >= ParallelAt]
        /\ UNCHANGED <<rows, attempts, todo, seen, okays, errs, failed, history>>

-----------------------------------------------------------------------------
(* drain_mailbox and drain_mailbox_parallel. *)

\* A task ends: its worker is free for another.
End(w) ==
    /\ pc' = [pc EXCEPT ![w] = "idle"]
    /\ parallel' = [parallel EXCEPT ![w] = FALSE]
    /\ head' = [head EXCEPT ![w] = 0]
    /\ todo' = [todo EXCEPT ![w] = {}]
    /\ seen' = [seen EXCEPT ![w] = Nothing]
    /\ okays' = [okays EXCEPT ![w] = {}]
    /\ errs' = [errs EXCEPT ![w] = {}]
    /\ failed' = [failed EXCEPT ![w] = FALSE]

\* "We could have hit a race condition": another drain has finished this row.
LoseRace(w) ==
    /\ pc[w] = "queued"
    /\ head[w] \notin rows
    /\ End(w)
    /\ UNCHANGED <<rowVars, heads, history>>

\* Mutant: the webhooks that are not too old.
TooOld_Swapped(h, last) == {m \in From(h) : last <= m}

\* Webhooks of a mailbox grow too old in the order they came.
TooOld(h, last) == {m \in From(h) : m <= last}

\* A parallel drain whose head is older than MAX_DELIVERY_AGE first deletes
\* every row of its mailbox that is.
StartDrain(w) ==
    /\ pc[w] = "queued"
    /\ head[w] \in rows
    /\ pc' = [pc EXCEPT ![w] = "fetch"]
    /\ \/ UNCHANGED <<rowVars, done>>
       \/ /\ parallel[w]
          /\ \E last \in From(head[w]) :
                /\ Delete(TooOld(head[w], last))
                /\ done' = done \cup TooOld(head[w], last)
    /\ UNCHANGED <<heads, parallel, head, todo, seen, okays, errs, failed, received, earlier, tries, crashes>>

Batch(w) == First(IF parallel[w] THEN Threads ELSE Slice, From(head[w]))

\* The drain reads copies of the next rows ...
FetchSlice(w) ==
    /\ pc[w] \in {"fetch", "again"}
    /\ Batch(w) # {}
    /\ pc' = [pc EXCEPT ![w] = "deliver"]
    /\ todo' = [todo EXCEPT ![w] = Batch(w)]
    /\ seen' = [seen EXCEPT ![w] = [m \in Id |-> IF m \in Batch(w) THEN attempts[m] ELSE 0]]
    /\ UNCHANGED <<rowVars, heads, parallel, head, okays, errs, failed, history>>

\* ... and ends when there are none.
Complete(w) ==
    /\ pc[w] \in {"fetch", "again"}
    /\ Batch(w) = {}
    /\ End(w)
    /\ UNCHANGED <<rowVars, heads, history>>

\* The deadline is looked at between slices; the first one is always tried.
Deadline(w) ==
    /\ pc[w] = "again"
    /\ End(w)
    /\ UNCHANGED <<rowVars, heads, history>>

\* Mutant: one attempt fewer.
Exhausted_Early(n) == n + 1 >= MaxAttempts

\* No attempts remain.
Exhausted(n) == n >= MaxAttempts

OneMore(n) == IF n < MaxAttempts THEN n + 1 ELSE n

\* Mutants: the whole copy is saved, which inserts a row that is gone; and the
\* attempts are not written.
CountAttempt_Saves(w, m) ==
    /\ rows' = rows \cup {m}
    /\ attempts' = [attempts EXCEPT ![m] = seen[w][m] + 1]
    /\ due' = due \ {m}
    /\ tries' = [tries EXCEPT ![m] = OneMore(@)]
CountAttempt_Forgets(w, m) ==
    /\ due' = due \ {m}
    /\ tries' = [tries EXCEPT ![m] = OneMore(@)]
    /\ UNCHANGED <<rows, attempts>>

\* schedule_next_attempt: an UPDATE from the copy, without effect on a row that
\* is gone (db/models/query.py:update).
CountAttempt(w, m) ==
    /\ attempts' = [attempts EXCEPT ![m] = IF m \in rows THEN seen[w][m] + 1 ELSE @]
    /\ due' = due \ {m}
    /\ tries' = [tries EXCEPT ![m] = OneMore(@)]
    /\ UNCHANGED rows

\* The slice goes on without m, whose copy is forgotten.
Forget(w, m) ==
    /\ todo' = [todo EXCEPT ![w] = @ \ {m}]
    /\ seen' = [seen EXCEPT ![w] = [@ EXCEPT ![m] = 0]]

\* deliver_message: a row that has no attempts left is deleted ...
Discard(w, m) ==
    /\ pc[w] = "deliver" /\ ~parallel[w]
    /\ IsFirst(m, todo[w])
    /\ Exhausted(seen[w][m])
    /\ Delete({m})
    /\ Forget(w, m)
    /\ UNCHANGED <<heads, pc, parallel, head, okays, errs, failed, history>>

\* ... another attempt is counted before the request.
Attempt(w, m) ==
    /\ pc[w] = "deliver" /\ ~parallel[w]
    /\ IsFirst(m, todo[w])
    /\ ~Exhausted(seen[w][m])
    /\ CountAttempt(w, m)
    /\ pc' = [pc EXCEPT ![w] = "request"]
    /\ UNCHANGED <<heads, parallel, head, todo, seen, okays, errs, failed,
                   received, earlier, done, crashes>>

\* Mutant: the row is deleted before the request is made.
Accepted_DeletesEarly(w, m) ==
    /\ pc[w] = "request"
    /\ IsFirst(m, todo[w])
    /\ Delete({m})
    /\ pc' = [pc EXCEPT ![w] = "accepted"]
    /\ UNCHANGED <<heads, parallel, head, todo, seen, okays, errs, failed, history>>

\* perform_request: the region takes the webhook, or answers that it is to be
\* dropped (a conflict, 400, 401, 403 or 404).
Accepted(w, m) ==
    /\ pc[w] = "request"
    /\ IsFirst(m, todo[w])
    /\ done' = done \cup {m}
    /\ pc' = [pc EXCEPT ![w] = "accepted"]
    /\ UNCHANGED <<rowVars, heads, parallel, head, todo, seen, okays, errs, failed,
                   received, earlier, tries, crashes>>

\* Mutant: the drain goes on with the next row.
Refused_GoesOn(w, m) ==
    /\ pc[w] = "request"
    /\ IsFirst(m, todo[w])
    /\ Forget(w, m)
    /\ pc' = [pc EXCEPT ![w] = "deliver"]
    /\ UNCHANGED <<rowVars, heads, parallel, head, okays, errs, failed,
                   received, earlier, done, tries, crashes>>

\* Any other answer, or none: the drain stops, with DeliveryFailed or another
\* exception.
Refused(w, m) ==
    /\ pc[w] = "request"
    /\ IsFirst(m, todo[w])
    /\ End(w)
    /\ UNCHANGED <<rowVars, heads, received, earlier, done, tries, crashes>>

Remove(w, m) ==
    /\ pc[w] = "accepted"
    /\ IsFirst(m, todo[w])
    /\ Delete({m})
    /\ Forget(w, m)
    /\ pc' = [pc EXCEPT ![w] = "deliver"]
    /\ UNCHANGED <<heads, parallel, head, okays, errs, failed, history>>

\* A thread of the pool forwards one row of the slice (deliver_message_parallel).
Answer(w, m, ok) ==
    /\ pc[w] \in {"deliver", "unwind"} /\ parallel[w]
    /\ m \in todo[w]
    /\ todo' = [todo EXCEPT ![w] = @ \ {m}]
    /\ done' = IF ok THEN done \cup {m} ELSE done
    /\ okays' = [okays EXCEPT ![w] = IF ok THEN @ \cup {m} ELSE @]
    /\ errs' = [errs EXCEPT ![w] = IF ok THEN @ ELSE @ \cup {m}]
    /\ UNCHANGED <<rowVars, heads, pc, parallel, head, seen, failed,
                   received, earlier, tries, crashes>>

\* The task takes the answers as they complete.
RecordOkay(w, m) ==
    /\ pc[w] = "deliver"
    /\ m \in okays[w]
    /\ Delete({m})
    /\ okays' = [okays EXCEPT ![w] = @ \ {m}]
    /\ seen' = [seen EXCEPT ![w] = [@ EXCEPT ![m] = 0]]
    /\ UNCHANGED <<heads, pc, parallel, head, todo, errs, failed, history>>

\* A failure on the last attempt deletes the row, another one is counted; an
\* exception that is not a DeliveryFailed is raised again.
RecordError(w, m, unexpected) ==
    /\ pc[w] = "deliver"
    /\ m \in errs[w]
    /\ \/ /\ Exhausted(seen[w][m])
          /\ Delete({m})
          /\ UNCHANGED <<tries, failed>>
       \/ /\ ~Exhausted(seen[w][m])
          /\ CountAttempt(w, m)
          /\ failed' = [failed EXCEPT ![w] = TRUE]
    /\ errs' = [errs EXCEPT ![w] = @ \ {m}]
    /\ seen' = [seen EXCEPT ![w] = [@ EXCEPT ![m] = 0]]
    /\ pc' = [pc EXCEPT ![w] = IF unexpected THEN "unwind" ELSE @]
    /\ UNCHANGED <<heads, parallel, head, todo, okays, received, earlier, done, crashes>>

\* Leaving the pool waits for its threads; their answers are not looked at.
Unwind(w) ==
    /\ pc[w] = "unwind"
    /\ todo[w] = {}
    /\ End(w)
    /\ UNCHANGED <<rowVars, heads, history>>

\* The slice is done: the drain stops after a failure and goes on without one.
SliceDone(w) ==
    /\ pc[w] = "deliver"
    /\ todo[w] = {} /\ okays[w] = {} /\ errs[w] = {}
    /\ IF failed[w]
       THEN End(w)
       ELSE /\ pc' = [pc EXCEPT ![w] = "again"]
            /\ UNCHANGED <<parallel, head, todo, seen, okays, errs, failed>>
    /\ UNCHANGED <<rowVars, heads, history>>

\* A worker is killed, or its task never arrives; the scheduler dies as well.
Crash(w) ==
    /\ pc[w] # "idle"
    /\ crashes < MaxCrashes
    /\ crashes' = crashes + 1
    /\ End(w)
    /\ UNCHANGED <<rowVars, heads, received, earlier, done, tries>>

SchedulerDies ==
    /\ heads # {}
    /\ crashes < MaxCrashes
    /\ crashes' = crashes + 1
    /\ heads' = {}
    /\ UNCHANGED <<rowVars, taskVars, received, earlier, done, tries>>

-----------------------------------------------------------------------------
Step(w) ==
    \/ LoseRace(w) \/ StartDrain(w) \/ FetchSlice(w) \/ Complete(w) \/ Deadline(w)
    \/ \E m \in Id :
          \/ Discard(w, m) \/ Attempt(w, m) \/ Accepted(w, m) \/ Refused(w, m) \/ Remove(w, m)
          \/ RecordOkay(w, m)
          \/ \E b \in BOOLEAN : Answer(w, m, b) \/ RecordError(w, m, b)
    \/ Unwind(w) \/ SliceDone(w)

Schedule == StartSchedule \/ \E m \in Id, w \in Worker : QueueDrain(m, w)

Next ==
    \/ \E m \in Id : Receive(m) \/ BecomeDue(m)
    \/ Schedule \/ SchedulerDies
    \/ \E w \in Worker : Step(w) \/ Crash(w)

Spec == Init /\ [][Next]_vars

(* Fairness.  celery beat runs the scheduler every ten seconds, time goes   *)
(* on, and tasks that do not die take their next step: requests time out.   *)
FairSpec ==
    /\ Spec
    /\ WF_vars(Schedule)
    /\ \A m \in Id : WF_vars(BecomeDue(m))
    /\ \A w \in Worker : WF_vars(Step(w))
-----------------------------------------------------------------------------
\* A webhook that was accepted and is gone from the table was taken by its
\* region, or was tried MAX_ATTEMPTS times, or was too old: overlapping drains,
\* stale copies and crashes lose none ("Once messages have successfully been
\* delivered or discarded, they are deleted", drain_mailbox).
NothingLost ==
    \A m \in received \ rows :
        m \in done \/ tries[m] >= MaxAttempts

\* Each time a sequential drain forwards a webhook, no earlier one of its mailbox
\* still waits: "Messages will be delivered in order until one fails"
\* (drain_mailbox; test_drain_success_partial: "This retains mailbox ordering").
\* A parallel drain overtakes fewer than it has threads.
Forwards(w, m) ==
    \/ pc[w] = "request" /\ pc'[w] # "request" /\ IsFirst(m, todo[w])
    \/ parallel[w] /\ m \in todo[w] /\ m \notin todo'[w] /\ pc'[w] # "idle"
OrderKept ==
    [][\A w \in Worker, m \in Id : Forwards(w, m) =>
          Cardinality({k \in earlier[m] : k \in rows \ done})
              < IF parallel[w] THEN Threads ELSE 1]_vars

\* No drain brings back a row that another one has deleted, however old the
\* copy it works on (schedule_next_attempt).
GoneStaysGone == [][\A m \in received : m \in rows' => m \in rows]_vars

\* The scheduler and its drains implement a mailbox that settles webhooks in
\* order and lets none leave before its time (MailboxSpec).
Mailbox == INSTANCE MailboxSpec WITH accepted <- received, waiting <- rows, settled <- done
ImplementsMailbox == Mailbox!Spec

\* Every webhook leaves the table, also when its region fails for ever and
\* although overlapping drains overwrite each other's attempts.
EventuallyGone == \A m \in Id : m \in rows ~> m \notin rows
=============================================================================
