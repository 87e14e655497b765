# Verification of Sentry's delivery, deletion and scheduling

Sentry splits its Django application into *silos*: one control silo and several
regions, each with its own databases. What one silo changes has to reach the
others without a distributed transaction, and much of what a request starts is
finished by celery tasks, Kafka consumers and redis scripts that nothing
synchronizes. This project models the mechanisms whose correctness rests on orders
of events that no test sets up:

| mechanism | code (under `src/src/sentry`) | modules |
|---|---|---|
| the outbox: transactional rows drained by workers and by requests | `hybridcloud/models/outbox.py`, `hybridcloud/outbox/base.py`, `hybridcloud/tasks/deliver_from_outbox.py` | `OutboxSpec`, `Outbox`, `OutboxProofs` |
| the outbox backfill: re-replicating whole tables when a version is bumped | `hybridcloud/tasks/backfill_outboxes.py` | `OutboxBackfill`, `OutboxBackfillProofs` |
| webhook mailboxes: in-order forwarding of third-party webhooks to regions | `hybridcloud/tasks/deliver_webhooks.py`, `hybridcloud/models/webhookpayload.py` | `MailboxSpec`, `WebhookMailbox`, `WebhookMailboxProofs` |
| tombstone cascades: ON DELETE across silos, by watermarks | `tasks/deletion/hybrid_cloud.py`, `models/tombstone.py`, `deletions/base.py` | `TombstoneCascade`, `TombstoneCascadeProofs` |
| scheduled deletions: claimed, retried, undone | `tasks/deletion/scheduled.py`, `models/scheduledeletion.py`, `deletions/defaults/organization.py` | `ScheduledDeletion`, `ScheduledDeletionProofs` |
| digests: timelines in redis, delivered under a lock that expires | `digests/backends/redis.py`, `scripts/digests/digests.lua`, `tasks/digests.py`, `utils/locking` | `Digest`, `DigestProofs` |
| the clock of cron monitors: ticks from the slowest Kafka partition | `monitors/clock_dispatch.py`, `monitors/consumers/monitor_consumer.py` | `MonitorClock`, `MonitorClockProofs` |

`Extrema` holds lemmas on minima and maxima that two of the proofs share. `MC*.tla`
and the `.cfg` files instantiate the modules for TLC. `PROJECT.json` maps every
definition to the lines it models, and lists runs, mutants, findings, hazards and
theorems.

## 1. Inventory

### Modelled

**Outbox.** State: rows of an outbox table (id, sharding columns, category and
object_identifier, payload), the sequence their ids come from, the model rows they
are about, the other silo's copy, and the options that disable shards. Operations:
`save`, `update`, `delete` and the managers' bulk operations insert rows in the same
transaction as the change; `schedule_batch` queues drains; `drain_shard` repeatedly
locks a row of the shard, coalesces to the last row of the same object, sends the
signal whose receiver replicates the object's *current* state, deletes the older
rows in batches and then the coalesced row. Requests drain too, when their
transaction commits (`outbox_context`). They interact through PostgreSQL row locks
and READ COMMITTED visibility only. Hard: ids are taken before commit, a lock on
one row has to stand for a whole object, rows arrive while a receiver runs,
workers die between the remote call and the commit, the disabled-shard option is
read twice. Correct means: no committed change is forgotten, drains of an object
exclude each other, receivers are never handed older rows after newer ones, a
synchronous flush returns only when its change is replicated, and a failing shard
delays nobody else.

**Outbox backfill.** State: per table a pair (lower bound, version) in redis, the
coded `replication_version`, the option that releases it on SaaS. Operations: one
run per minute walks the tables with a budget; a self-hosted upgrade runs it until
nothing is left. Nothing keeps two runs apart. Hard: overlapping runs write older
cursors, a run dies between producing and saving, rows come and go between the
queries of a batch, deploys and options move the target at any time. Correct means:
what the cursor or the version declares done is done, the upgrade's loop ends with all
rows covered, and every table gets its turn.

**Webhook mailboxes.** State: rows (mailbox, schedule_for, attempts). Operations: a
request stores a webhook and answers 202; a scheduler finds mailboxes whose first
row is due, puts a batch off and queues a sequential or parallel drain; drains
forward rows and delete them. No row is ever locked. Hard: drains overlap when
they are late or slow, each works on copies read earlier, the attempts are written
back from copies, answers of a pool of threads are recorded one by one. Correct
means: no webhook disappears untaken and untried, sequential drains keep the order and
parallel ones up to their threads, deleted rows stay deleted, and every webhook leaves
the table.

**Tombstone cascades.** State: rows with a foreign key to an object of another silo,
tombstones, and for each foreign key two watermarks in redis, one over row ids and one
over tombstone ids. Operations: an outbox receiver records a tombstone for an object that
is gone; a task joins the next batch of rows with all tombstones or the next batch of
tombstones with all rows, deletes or nulls what it finds, and moves the watermark. The
tombstones come through the outbox of section 3. Hard: cron's tasks overlap and write
watermarks they read long ago, rows and tombstones are inserted between the two passes and
between the two queries of a join across databases, a task dies between the deletes and
the watermark. Correct means: no orphan that the batches can see is behind both
watermarks, each of them goes, and rows of living objects stay.

**Scheduled deletions.** State: an organization's status and its row in
RegionScheduledDeletion (date, `in_progress`). Operations: requests mark the
organization and schedule the row, or restore it and cancel the row; a scheduler claims
due rows; a task checks, marks and deletes in passes; a daily job releases rows that
stay claimed. Hard: a restore during a claim, a second deletion while the row of the
first is still claimed, exceptions that are swallowed, requests that meet each
other or a running task, the release of a row whose task is alive. Correct means: what is
to be deleted stays scheduled, what was restored is kept, one task works at a time, and
every deletion ends.

**Digests.** State, in redis: a timeline's membership in the sets *waiting* and *ready*,
the sets of added and of opened records, the records' data, and a lock of 30 seconds.
Operations: adding a record, the scheduler's two scripts, and a task that opens a
digest, builds a message of what still matters, closes the digest, releases the lock and
sends. Hard: records added while a digest is
open, a lock that expires under its holder, tasks that die with an open digest or were
never started, maintenance that takes back what is being delivered. Correct means: a
timeline with records is always scheduled, no record is lost unnoticed, none is sent
more often than added while locks last, and each is sent or given up in the end.

**Locks** (`utils/locking`) are modelled as digests use them; other users, and waiting
for a lock, are not.

**Cron monitor clock.** State: a clock for each Kafka partition and the last tick, in
redis. Operations: a consumer stores its partition's minute, reads the slowest one,
compares the last tick, replaces it with GETSET and sends the ticks in between. Hard:
each of these is a redis command of its own; replays set clocks back; a redis error
between GETSET and tick. Correct means: a tick waits for all earlier check-ins, no
minute is ticked twice or skipped, and the clock does not stall.

### Not modelled yet

Listed with their sources in `PROJECT.json`: the outbox's scheduling and backoff, write
buffers, uptime results, the synchronized consumer, circuit breakers and rate limits,
relocations, RPC caches, and the check-ins and tasks behind the monitors' clock. Left
out on purpose: the ingestion pipeline, the event stream, the API, the frontend and the
integrations, which transform data or call other services and keep no state of their
own that a small model would show, and metric alerts, where numbers dominate. The
modelled parts are a small share of the repository's half a million lines, nearly all of
which is that kind of code.

## 2. Plan

1. `OutboxSpec`, `Outbox`: the drain and the models' transactions; refinement;
   inductive invariant and proofs. **Done.**
2. `OutboxBackfill`: the walk, overlapping runs, rollouts; proofs. **Done.**
3. `MailboxSpec`, `WebhookMailbox`: scheduler, both drains; refinement; proofs. **Done.**
4. `TombstoneCascade`: both passes, overlapping tasks; proofs. **Done.**
5. `ScheduledDeletion`: claim, passes, daily release, cancellation; proofs. **Done.**
6. `Digest`: the timelines of `digests.lua` under an expiring lock; proofs. **Done.**
7. `MonitorClock`: partitions, ticks, replays; proofs. **Done.**
8. Proofs of every invariant and action property that the runs check: the synchronous
   flush, the order of ids and the changing options of `Outbox`, the order of
   `WebhookMailbox`, the count of `Digest`. **Done.**
9. `OutboxSchedule`: the ranges of `schedule_batch` cover every id, and
   `scheduled_for` with its exponential backoff lets every shard come round;
   composed with `OutboxSpec`. Then write buffers.

## 3. Outbox

`Outbox` has one thread per request and worker; `pc` is the place in
`drain_shard`:

| action | code |
|---|---|
| `SaveModel`, `SaveOutbox` | `save`/`update`: the model row first (its lock is `SourceLocked`), then the outbox row's id |
| `QueueFirst`, `LockModel` | `delete` and the bulk operations: the outbox row first, then the model rows |
| `CommitModel`, `RollbackModel` | end of the transaction; with flushing enabled the request drains next (`StartFlush`) |
| `StartTask` | `prepare_next_from_shard`: SELECT ... FOR UPDATE NOWAIT on the first row |
| `LockRow`, `BlockOnRow`, `WakeUp`, `EndDrain` | `process_shard`: lock a first row, or wait for one and re-check it as READ COMMITTED does, or stop |
| `Coalesce` | `process_coalesced` picks the last row; `process` asks `should_skip_shard` |
| `ReadSource`, `ApplyRemote` | the receiver reads the object and calls the other silo (two steps: changes commit between them, and the call may be repeated after a crash) |
| `DeleteBatch`, `EndLoop` | the deletion loop's unordered batches of `BatchSize`, until one holds nothing older |
| `AskAgain` | `process_coalesced` asks `should_skip_shard` again |
| `FinishGroup` | it deletes the coalesced row if the shard was not disabled then, and the transaction commits |
| `Abort` | the receiver raises, a deadlock, a statement timeout or the death of the worker: the transaction is undone, what reached the other silo is not |
| `SetOption` | a shard is disabled or enabled |

Versions stand for the content of objects. `final` is what the second reading of the
option decided. `sent`, `mine` and `ver` are history.
Deletions of the open transaction are kept in `doomed` and take effect at commit.
Left out: `scheduled_for` and backoff (any shard may be due), `bulk_create`, a bulk
operation over several objects (one object at a time), several databases, and a
remote call that outlives the worker that made it.

| run | shows | bounds |
|---|---|---|
| `outbox_safety` | exclusion, synchronous flush, `NoLostSave`, order of sent ids, refinement of `OutboxSpec`, `IInv` of the proofs | 2 requests, 1 worker, 2 objects of one shard, 3 ids, `BatchSize` 2: less than a full group, so that a deletion can stop between two batches |
| `outbox_options` | `UnsentRowsStay`: an object's newest row is not deleted before it is delivered, except by a drain whose two readings of the option differ | saves and deletes of one object, 3 ids, `BatchSize` 2; the option changes at any time, also between a reading and the delete |
| `outbox_liveness` | a poisoned shard does not hold up another | 2 shards, one object's receiver fails for ever |
| `outbox_delete_race` | **violation** of `NoLostUpdate` | save and delete of one object |

Three threads are the fewest in which one drain waits on a second while a third
commits; a third object or shard adds threads that never meet.

Fairness (`Fairness`): a thread inside a drain goes on (weak); celery beat queues
every shard again each minute, so a worker gets it infinitely often (strong); a
receiver that is called for ever does not fail for ever, except for `Poison`
(strong, as aborts disable the steps again and again).

That `NoLostSave` also holds with concurrent deletes is shown by the proofs.

*Finding.* `delete()` (and `bulk_update`, `bulk_delete`) take their outbox id
before the model row's lock, so they can commit an id lower than one already
committed for the object; a drain that has read the object before deletes it as
an older row and nothing is left to retry.

*Limit of the assumption* `~OptionMayChange`: the option is read before the signal and
again before the delete, so enabling a shard in between deletes a row that was never
sent. `UnsentRowsStay` exempts such a drain (it is in `"pass"` and the coalesced row is in
`final`) and nothing else: however the option changes, every other drain deletes the newest
row of an object only when its version has reached the other silo. Disabling a shard after
the second reading deletes a row of a disabled shard, but one that was delivered. What else
holds although the option changes is `RowInv` and what rests on it alone: exclusion and the
order of the ids sent.

*Proofs* (`OutboxProofs`, for any objects, shards, threads and batch size; never with
`bulk_update`). None of the properties is inductive. `RowInv` is what holds of rows, ids
and locks whatever becomes of the options: that a drain may delete all rows below its
coalesced one needs the order of ids and versions (`VersionsInOrder`, from the model
row's lock, `SourceLocks`), that the receiver read at least the coalesced version
(`ReadIsFresh`), and that no other drain holds a row of the object (`RowLocks`: everyone
locks the *first* row of an object; `SnapshotsClosed`: a statement that waited re-checks
a snapshot closed under earlier rows). `IInv` adds what needs the options to stay: a
change that was not replicated has a row, and a drain that skips its object belongs to a
disabled shard.

| theorem | needs | argument |
|---|---|---|
| `SavesAreNotLost` | options stay | a row is deleted only after its version, or a later one, reached the other silo; deletes may run concurrently |
| `DrainsExclude` | only `save`/`update` | two drains of an object would hold its first row both |
| `UnsentRowsRemain` | never `bulk_update` | what a commit deletes is the coalesced row or older (`CoalescedRows`, `DoomedRows`); if it is the newest of its object it is the coalesced row, whose version a drain outside `"pass"` has replicated (`ReadIsFresh`) |
| `HandedInOrder` | only `save`/`update`, `BatchSize > 1` | a loop that ended has deleted all older rows (`LoopsEnd`), so an object that has a row has one at or above the last id sent (`SentBehind`), and whoever coalesces takes its last row |
| `FlushesDeliver` | only `save`/`update`, options stay | until a request's change is replicated its own row is in the table, below the id the flush stops at, and in the snapshot of any statement the request waits in (`FlushGoesOn`); so the flush cannot find its shard empty |
| `Refinement` | only `save`/`update`, options stay | steps other than the replication and the deletions map to stutters |

The restriction to `save`/`update` is the code's, for the reason in the finding: with one
object, two requests and one worker that save and delete, TLC finds `OneDrainPerObject`,
`FlushIsReplicated`, `SentNeverRegresses` and `ImplementsAbstract` violated. `BatchSize >
1` is no loss, as the code's batch is 100: a batch of one may be the coalesced row alone,
and the loop then ends with older rows in the table, which are handed out next.

## 4. Outbox backfill

A run is `backfill_outboxes_for` and what it calls. Each redis call, each query and each
per-row transaction is a step, so rows come and go between any two of them:

| action | code |
|---|---|
| `StartRun` | `schedule_batch` with a part of the rate, or the upgrade's loop with all of it |
| `ReadState`, `InitState` | `get_processing_state`: GET, and the SET of a first state if there was none (`version` 0 stands for no key) |
| `SkipTable`, `ChooseVersion` | `find_replication_version` and the comparison of versions in `_chunk_processing_batch` |
| `QueryMin`, `QueryUpper`, `QueryRows` | the lowest id; the highest id of the batch, with `has_more`; the batch's rows |
| `ProduceRow`, `SaveState` | the outbox rows of one model row; `set_processing_state` and the rate's accounting |
| `EndOfTables`, `Return` | the end of the run |
| `Crash` | a run that dies |
| `InsertRow`, `DeleteRow`, `Deploy`, `SetOption` | the rest of the system |

A version may be bumped and an option set at any moment, also in the middle of a batch; a
run keeps the code it started with. `covered` is history: the highest version an outbox
row was produced for. A new row covers itself, since creating it produces an outbox row.

*Limit.* A run whose last batch was made for the option's lower version stores the state
past the *code's* version (`model.replication_version + 1`, `backfill_outboxes.py:146`), so
raising the option later backfills nothing. `passed` (history) holds the versions that the
last run to finish a table passed in this way, and `DoneMeansCovered` exempts exactly
these. They are versions between the option and the code on SaaS; there are none on
self-hosted installations.

| run | shows | bounds |
|---|---|---|
| `backfill` | `DoneMeansCovered`, `CursorIsCovered`, `UpgradeCoversAll`, `IInv`, `EventuallyCovered` | 2 tables of 2 and 1 ids that share rate 2 (a batch reads one row more than its budget, and a run's budget ends inside and between tables), 1 crash, a version bump for the first table, one run at a time |

One run at a time can still be followed by another with the state a dead run left.
Overlapping runs are covered by the proofs, which are for any number of them.

Fairness: a run that does not die goes on (weak). Nothing is assumed of the runs that are
started, for the code guarantees nothing: `schedule_batch` estimates the queue by
`hi - lo + 1` (`deliver_from_outbox.py:84`), which stays over the rate as long as one old
row is stuck, and nobody repeats an upgrade that died. `EventuallyCovered` has it as a
premise instead: *if* runs with a part of the rate keep being started (`RunsKeepComing`),
then from some time on every row is covered, up to the exempt versions. What the property
says is that the walk then gets through, over all tables, crashes and version bumps.

*Proofs* (`OutboxBackfillProofs`, any tables, ids, rates, number of runs and rollouts, with
no assumption but those on the constants): the cursor of a slow run is older but never
ahead of what it has covered itself, at each of its queries (`Behind`); a batch's version is
neither past the target nor past the run's code (`Runs`); a state past the target was
stored by a run that passed the versions in between (`Versions`), and an upgrade run that
found nothing to do has seen covered tables only (`Seen`). A row that appears between two
queries of a batch covers itself, and one that goes does no harm: `has_more` is false only
if the second query found nothing above the batch (`LastBatch`).
The outer loop over Django apps is not modelled: `break` leaves only the inner loop,
so with outbox models in several apps a run could go on with a spent budget; all of
them live in the app `sentry`.

## 5. Webhook mailboxes

`Receive` is `create_from_request`; `StartSchedule` and `QueueDrain` are
`schedule_webhook_delivery` (the list of heads is read once, then each is put off and
queued); `LoseRace`, `StartDrain`, `FetchSlice`, `Complete`, `Deadline`, `SliceDone` are
the two drains' loops; `Discard`, `Attempt`, `Accepted`, `Refused`, `Remove` deliver in
sequence; `Answer`, `RecordOkay`, `RecordError`, `Unwind` in parallel, where an unexpected
exception leaves the loop while other answers wait. A worker stands for a task from the
moment it is queued, so drains start late and overlap. Time is abstract: `BecomeDue` lets
`schedule_for` pass at any moment, and the deadline may strike between any two slices. A
parallel drain's age limit deletes a prefix of the mailbox; that the code deletes at most
10000 rows at once is left out. `tries` counts attempts up to `MaxAttempts`. Left out: the
1000-mailbox limit of a scheduler run and two scheduler runs at once (a head can still be
queued twice, as it may become due again).

| run | shows | bounds |
|---|---|---|
| `webhook_safety` | `NothingLost`, `OrderKept` (a sequential drain overtakes nothing, a parallel one fewer rows than it has threads), `GoneStaysGone`, refinement of `MailboxSpec` | 2 drains, 3 webhooks of a mailbox (the fewest in which two can be overtaken by one), slices of 3, 2 threads, one attempt |
| `webhook_liveness` | `EventuallyGone`, and both invariants of the proofs, `IInv` and `OrderInv`, with a crash | 2 drains, 2 webhooks, 2 attempts so that stale copies overwrite counts, 1 crash |

Fairness (all weak): the scheduler runs every ten seconds, time goes on, tasks that
do not die go on since requests have a timeout.

*Limit of the assumption* `~LateCommit`: ids are taken before commit, and a drain reads
`id >= payload.id` only: a webhook that becomes visible after the head was found is
overtaken by webhooks that arrived after it was accepted. With ids visible in order, order
holds: strictly for a sequential drain, whatever other drains do, up to the threads for a
parallel one. Two sentences of the docstrings have no counterpart in the code at all:
sequential drains are not limited to 50 webhooks, and parallel drains do not look at
`schedule_for`.

*Proofs* (`WebhookMailboxProofs`, any webhooks, mailboxes, tasks and sizes). With or
without late commits, `NoneIsLost` rests on `Counted` (a copy never holds more attempts
than were counted, although the table's own count may go down when a stale copy is
written) and `Answered` (what is about to be deleted as delivered has been answered);
`DeletedForGood` on UPDATEs that do not insert. `MailboxesInOrder` assumes `~LateCommit`.
Its invariant `OrderInv` says that the head of a queued or running drain stays the first
row of its mailbox (`LeadsMailbox`: rows only go, and a new one has a higher id than all
others), so that a slice starts at the first row; then a sequential slice holds every row
that one of its own could overtake, since it drops only rows that are deleted, and in a
parallel slice fewer rows than there are threads precede each (`KeepsOrder`). Overlapping
drains delete each other's rows, which only makes these sets smaller.

`MailboxSpec` is the promise in five actions: a webhook is accepted, tried, settled in
order, expired with all that came before it, and leaves when it was settled or tried to
the limit. `Refinement` (`~LateCommit`) maps the rows to those that wait, so what a stale
drain does to a row that another has deleted is a stutter or a second settlement; besides
the invariants above it needs that a webhook's history names all that came before it
(`EarlierIsAll`).

## 6. Tombstone cascades

One foreign key. `InsertRow`, `MoveRow`, `DeleteObject` are the application and the other
silo; `RecordTombstone` is the outbox receiver `maybe_process_tombstone`, which may run
more than once for an object. A task is `_process_hybrid_cloud_foreign_key_cascade`:

| action | code |
|---|---|
| `ReadMark`, `InitMark` | `get_watermark`: GET, and the SET of a first watermark over whatever is there by then; it starts a task (cron, or a task that had more to do) and each pass |
| `Bounds` | `_chunk_watermark_batch`: Min and Max of the ids, the batch, `has_more` |
| `Join` | `_get_model_ids_for_tombstone_cascade` with one database |
| `QueryBatch`, `Match` | the two queries with two databases, either way round |
| `Refuse` | with two databases and `allow_cross_db_tombstones` off the task fails |
| `DeleteChunk` | CASCADE: a deletion task's chunk; if it found rows the watermark stays and the task runs again |
| `Update` | SET_NULL in one statement, DO_NOTHING in none |
| `SaveMark` | `set_watermark`, unconditionally; then the tombstones' pass if the rows' has no more |
| `Die` | an exception or the death of the task |

Queries, chunks and redis commands are steps of their own, so tasks overlap in all these
ways; Min and Max of the ids are one query in the code as well. `MoveRow` gives a row any
other object, also one that has been deleted. The watermark's transaction id is only logged
and left out, as are the relations of the cascaded rows and the option that turns the tasks
off.

What the code overlooks is exempt from the properties, and named:

- `late`: a row or tombstone that commits after one with a higher id; a watermark may have
  passed it.
- `strayed`: a row that was given an object when both passes were done with the row and with
  a tombstone of the object. Nothing joins the two again.
- `moved`: a row that a task has found and the application moves before the task deletes it
  or sets it to NULL. It is taken from its new object, as the code works on the ids of an
  earlier query. Only while this task holds the row is it exempt.

| run | shows | bounds |
|---|---|---|
| `tombstone` | `NoOrphanSkipped`, `LivingKeepTheirRows`, `OrphansGo` | 2 tasks, 1 object, 2 rows and 2 tombstones, batches and chunks of one (so there is always a next batch), CASCADE across two databases and SET_NULL in one, 1 moved row, dead or refused task |

Two tasks are the fewest that overlap; two ids of each kind let a watermark stop, be set
back and start at an id that is not the first. `OrphansGo` is stated as "again and again
there is no orphan"; as ids and failures are bounded, it means that the last orphan goes.

Fairness (weak): cron keeps starting tasks, and a task that does not die goes on. That the
option does not refuse tasks for ever is part of the bound on failures.

*Proofs* (`TombstoneCascadeProofs`, any objects, ids, sizes and tasks). `NoOrphanSkipped`
is not inductive, because a task may already be sure to move a watermark past an orphan.
`Behind` counts such tasks as well: those that wait to save a batch in which they left the
row alone. `Ahead` says that no orphan is behind both passes. The last of the row and its
tombstone to appear was ahead of every watermark and batch (`Reached`); from then on a
task that reads either in its batch finds the other, except if the other pass is still
ahead (`SeenRows`, `SeenTombstones` for the two queries). A row that was moved is an orphan
only if one of the passes was not done with it (`Taken`), and then that pass is ahead.
`LivingAreSafe` rests on `Dead` (tombstones are of objects that are gone for good) and on
what a task has found being doomed or moved since (`Found`).

## 7. Scheduled deletions

One organization. `Delete` is `delete_organization` (one transaction); `LoadPut`,
`SavePut`, `FindRow`, `CancelRow` are the steps of a PUT that edits or restores it, which
reads the organization first and writes all of its fields, and `FailPut` one that fails or
dies between two of them, as in the audit log; `FindDue`, `Claim` are
`_run_scheduled_deletions`, `Reattempt` the daily `_reattempt_deletions`; `Load`, `Check`,
`Chunk`, `MarkInProgress`, `Remove`, `DropRow` a pass of `_run_deletion`, which reads the
row, asks `should_proceed`, reads the organization again, marks it, deletes it with all
that belongs to it, and queues the next pass. `Fail` is an exception, which is swallowed
and leaves the row claimed, or a dead task, possibly delivered again. A row's age is
*future*, *due* or *old* (a day later).

| run | shows | bounds |
|---|---|---|
| `deletion` | `PendingIsScheduled`, `OneTaskWorks`, `RestoredIsKept`, `EventuallySettled` | 2 workers, 4 requests (delete, restore, delete again, restore again), 2 rows, 2 failures |

*Limits.* The code does not survive four meetings, and once one has happened (`crossed`,
history) the properties say nothing more:

1. a PUT leaves a pending organization pending: `put` cancels the row for any edit of a
   pending organization (`was_pending_deletion`) but restores the status only if asked, so
   the organization is stranded;
2. the organization is saved while a task that has seen it pending is deleting it: the task
   goes on all the same;
3. the organization is deleted again just before a request or a task deletes the old row, to
   which the new deletion has been given;
4. a request cancels a row that it found free and that a task has begun with since.

Everything else is covered: restores that cannot cancel a claimed row, edits that do not
meet a deletion, deletions scheduled on top of a claimed row, stale writes, failed
requests, exceptions and released rows. Meeting 2 contradicts what `should_proceed` is for
("only delete organizations that haven't been undeleted",
`deletions/defaults/organization.py:10`); no property catches it, as all that could be
said of it is that the code does it. The grace period is not a property either: a new date
on a row whose task is still queued does not hold that task up.

Fairness (weak): time passes, both schedulers run, requests and tasks that do not fail go
on.

*Proofs* (`ScheduledDeletionProofs`, any workers and bounds, with no assumption but those on
the constants; `crossed` is in the properties). `Undisturbed`: until one of the four
meetings, what a request or task has read of the organization is still true, so only workers
that saw it gone or restored drop the row.
`Exclusive`: while no row is released, a claimed row is in progress and has one owner, and
a running task's row is the organization's.

## 8. Digests

One timeline. Each script of `digests.lua` is one step, as redis runs it: `Add`,
`Schedule`, `Maintenance`, `Open`, `Close`, `DeleteTimeline`. `Take`, `Acquire`,
`Release`, `Notify` are `deliver_digest` around them: the project is looked up, the lock
taken or the task fails, and the message is sent after the lock is released. `LockExpires`
is the lock's 30 seconds, `Fail` an exception (which releases the lock) or a death (which
does not), `Evict` and `LoseTask` losses in redis and in the queue. A script that makes
the timeline ready is followed by the start of a task unless the process dies
(`StartTask`). Forked workers share the uuid in their locks, so a late task may delete
another's lock (`ReleaseLock`); a failure to release it is ignored, and the task sends
with the lock held. Delays and deadlines are not counted: a waiting timeline may be
scheduled, and a ready one taken back, at any time, but taking one back whose delivery is
under way, and a lock that expires under its holder, count as failures. `build_digest`
leaves out the records of groups that are resolved or gone and of rules that are gone, so
any part of what was opened is in the message (`Built`, chosen in `Close`; before that
nothing depends on it), and a task with nothing to send is done. The increment delay that
postpones a waiting timeline is left out.

`owed` (history) is what has been added and neither sent nor given up since. A record is given
up when it is truncated, evicted, deleted with its project, left out of a message, or closed
by a task that then fails to send it. A record that is added again is owed again, even while
an older copy is on its way.

| run | shows | bounds |
|---|---|---|
| `digest` | `NonEmptyIsScheduled`, `NoRecordLost`, `NotSentTwice`, `EventuallySent` | 2 tasks, 2 events added 3 times in all (one of them again, while its older copy is under way), a capacity of 1 (so that both truncations happen), 2 queued tasks, 2 failures |

*Limit.* `Backend.digest` is documented to let its caller act at most once per record
(`digests/backends/base.py:163`). That holds while locks last: after a lock has expired a
second task opens the same records before the first has closed them. `NotSentTwice` says
so.

Fairness (weak): cron runs the scheduler, a timeline's deadline comes, maintenance takes
back what nobody delivers, redis expires locks, and tasks that do not fail go on. Weak
fairness is enough for a task that wants the lock, since one that does not get it ends.

*Proofs* (`DigestProofs`, any tasks, records, capacity and failures): what is owed is in
redis with its data or with a task that will send it (`NoRecordLost` itself, with
`NonEmptyIsScheduled` and the types, is inductive). This survives tasks that work on the
same digest after an expired lock, since what a close removes its task carries or gives
up. `SentAtMostOnce` counts instead: `Uses` adds up, for a record, how often it was sent,
how many tasks have closed a digest with it and not yet sent it, and whether it is in the
timeline or in the digest. Only an add increases the sum (`UsedAsAdded`), as long as no
lock expired under its task: then the tasks between acquiring and releasing the lock are
at most one (`LockHeld`), and what a task opened is still in the digest when it closes it
(`OpenedIsStored`), so that a close takes as many records out of redis as it gives to its
task. A lock that a forked worker deletes by mistake does not matter here: the worker that
finishes is then the one that has the lock.

## 9. Cron monitor clock

`MinutePasses` and `Produce` are the broker, including the pulse that reaches every
partition. Each partition has a consumer: `Poll`, `HandleCheckins` are `process_batch` or
`process_single` (which tries the clock before it handles its check-in); `StoreClock`,
`ReadSlowest`, `Precheck`, `Swap`, `Dispatch` are the redis commands and the sends of
`try_monitor_clock_tick`. `ClockFails` is an exception in there, which is logged, the
first ZADD's included; `Crash` a consumer that dies, whose partition is replayed from a
committed offset. A tick of a minute *m* is counted from the GETSET that takes it. Redis
knows all partitions from the start; what the tick's tasks do is not modelled.

| run | shows | bounds |
|---|---|---|
| `clock` | `TickWaitsForCheckins`, `EveryMinuteOnce`, `ClockKeepsUp` | 2 partitions, minutes 0 to 2 (so a minute can be backfilled), 2 messages each, 1 failure |
| `clock_race` | **violation** of `NoTickSkipped` | the same, no failure |

Fairness (weak): consumers that are alive go on.

*Finding.* GETSET replaces the last tick before the values are compared. A consumer that
finds another value than it read believes that its tick was handled, but its own minute is
now the last tick: if it is a later one it is neither ticked nor backfilled. Hence
`contested` in the properties.

*Proofs* (`MonitorClockProofs`, any partitions, minutes, messages and failures): a minute
is `Synced` when every earlier check-in is handled; a partition's clock is synced for the
partition because the broker stamps in order (`InOrder`, `Places`), the minimum of the
clocks for all partitions, and what is synced stays synced although clocks go back.
`TickWaitsForCheckins` thus holds through replays, failures and lost races. `Once` counts
the consumers that hold a minute's tick together with what was sent.

## 10. What is proved, what is only checked

Proved by TLAPS for every value of the constants: the theorems of `PROJECT.json`, from
the named assumptions on constants and those stated in each theorem. They state every
invariant and every action property of the passing runs. Checked by TLC only: the liveness
properties (TLAPS does not reason about fairness here), and whatever a theorem's
hypotheses exclude, foremost bulk updates of the outbox; with deletes most of its theorems
would be false (section 3). The strengthened
invariants were model-checked on the instances of the runs before they were proved; `IInv`
of `Outbox`, `OutboxBackfill` and `WebhookMailbox` and `OrderInv` still are, and their runs
check the types as a part of it.

Every passing property has a mutant, a plausible bug written next to the definition it
replaces (`Older_WholeGroup`, `LowFor_KeepsLower`, `ChunkDone_Always`, ...), with
which TLC finds the property violated: the property depends on that line of the code.

## 11. Running

    tlc -config OutboxSafety.cfg MCOutbox.tla
    tlapm OutboxProofs.tla

Runs take between a second and about three minutes (`tombstone`) with two TLC workers.
Deadlock is not checked: ids, versions, messages and failures are bounded, so the systems
may stop.
