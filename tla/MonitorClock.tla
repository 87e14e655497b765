---------------------------- MODULE MonitorClock ----------------------------
(***************************************************************************)
(* The clock of cron monitors (monitors/clock_dispatch.py), driven by the  *)
(* check-in consumers (monitors/consumers/monitor_consumer.py).            *)
(*                                                                         *)
(* Check-ins arrive in the partitions of a Kafka topic.  Each consumer     *)
(* notes the minute of its messages in redis; when the slowest partition   *)
(* has passed into a new minute one consumer sends a tick for it, which    *)
(* starts the tasks that look for missed and timed out check-ins.  There   *)
(* is no lock: the read of the slowest partition, the read of the last     *)
(* tick and its GETSET are separate redis commands.                        *)
(*                                                                         *)
(* A partition has a consumer of its own, which is as concurrent as it     *)
(* gets, and redis knows all partitions: the clock has been running.       *)
(***************************************************************************)
EXTENDS Integers, Sequences, FiniteSets, FiniteSetsExt

CONSTANTS
    Partition,
    MaxMinute,  \* bound on the broker's clock, for TLC
    MaxLen,     \* bound on messages per partition, for TLC
    MaxFaults   \* bound on deaths of consumers and redis errors, for TLC

ASSUME PartitionAssumption == IsFiniteSet(Partition) /\ Partition # {}
ASSUME BoundAssumption == {MaxMinute, MaxLen, MaxFaults} \subseteq Nat

VARIABLES
    parallel,  \* do consumers work on batches (process_batch) or single messages?
    now,       \* the broker's minute, with which it stamps messages
    log,       \* the minutes of the messages of each partition
    pos,       \* messages of each partition that were polled
    handled,   \* messages of each partition whose check-in was processed (history)
    clocks,    \* MONITOR_TASKS_PARTITION_CLOCKS: the minute of each partition
    last,      \* MONITOR_TASKS_LAST_TRIGGERED_KEY
    pc,        \* what each consumer does next
    slow,      \* the slowest partition's minute, as read
    pre,       \* the last tick, as read before the GETSET
    due,       \* ticks a consumer still has to send
    sent,      \* how often each minute's tick was sent (history)
    contested, \* has a GETSET found another value than the read before? (history)
    faults     \* deaths of consumers and redis errors so far

broker == <<parallel, now, log>>
redis == <<clocks, last>>
try == <<slow, pre>>
vars == <<broker, pos, handled, redis, pc, try, due, sent, contested, faults>>

Minute == 0..MaxMinute

TypeOK ==
    /\ parallel \in BOOLEAN
    /\ now \in Minute
    /\ log \in [Partition -> Seq(Minute)]
    /\ pos \in [Partition -> Nat]
    /\ handled \in [Partition -> Nat]
    /\ clocks \in [Partition -> Minute]
    /\ last \in Minute
    /\ pc \in [Partition -> {"poll", "checkins", "store", "read", "check", "swap", "send"}]
    /\ slow \in [Partition -> Minute]
    /\ pre \in [Partition -> Minute]
    /\ due \in [Partition -> SUBSET Minute]
    /\ sent \in [Minute -> Nat]
    /\ contested \in BOOLEAN
    /\ faults \in Nat

\* Minute 0 has been ticked.
Init ==
    /\ parallel \in BOOLEAN
    /\ now = 0
    /\ log = [p \in Partition |-> <<>>]
    /\ pos = [p \in Partition |-> 0]
    /\ handled = pos
    /\ clocks = [p \in Partition |-> 0]
    /\ last = 0
    /\ pc = [p \in Partition |-> "poll"]
    /\ slow = clocks
    /\ pre = clocks
    /\ due = [p \in Partition |-> {}]
    /\ sent = [m \in Minute |-> IF m = 0 THEN 1 ELSE 0]
    /\ contested = FALSE
    /\ faults = 0

-----------------------------------------------------------------------------
(* The topic. *)

MinutePasses ==
    /\ now < MaxMinute
    /\ now' = now + 1
    /\ UNCHANGED <<parallel, log, pos, handled, redis, pc, try, due, sent, contested, faults>>

\* A check-in, or the pulse that clock_pulse sends to every partition each
\* minute.  The broker stamps the messages of a partition in order.
Produce(p) ==
    /\ Len(log[p]) < MaxLen
    /\ log' = [log EXCEPT ![p] = Append(@, now)]
    /\ UNCHANGED <<parallel, now, pos, handled, redis, pc, try, due, sent, contested, faults>>

-----------------------------------------------------------------------------
(* A consumer. *)

\* process_single tries the clock before it handles the check-in of its
\* message, process_batch after it has handled all of them.
Poll(p) ==
    /\ pc[p] = "poll"
    /\ \E e \in pos[p] + 1 .. Len(log[p]) :
          /\ parallel \/ e = pos[p] + 1
          /\ pos' = [pos EXCEPT ![p] = e]
    /\ pc' = [pc EXCEPT ![p] = IF parallel THEN "checkins" ELSE "store"]
    /\ UNCHANGED <<broker, handled, redis, try, due, sent, contested, faults>>

HandleCheckins(p) ==
    /\ pc[p] = "checkins"
    /\ handled' = [handled EXCEPT ![p] = Max({@, pos[p]})]
    /\ pc' = [pc EXCEPT ![p] = IF parallel THEN "store" ELSE "poll"]
    /\ UNCHANGED <<broker, pos, redis, try, due, sent, contested, faults>>

\* try_monitor_clock_tick returns.
Return(p) == pc' = [pc EXCEPT ![p] = IF parallel THEN "poll" ELSE "checkins"]

\* Mutant: the clock is that of the first message of the log, not the last.
Stored_First(p) == log[p][1]

\* The minute of the batch's last message.
Stored(p) == log[p][pos[p]]

StoreClock(p) ==
    /\ pc[p] = "store"
    /\ clocks' = [clocks EXCEPT ![p] = Stored(p)]
    /\ pc' = [pc EXCEPT ![p] = "read"]
    /\ UNCHANGED <<broker, pos, handled, last, try, due, sent, contested, faults>>

\* Mutant: the last element of the sorted set instead of the first.
Slowest_Last == Max({clocks[p] : p \in Partition})

Slowest == Min({clocks[p] : p \in Partition})

ReadSlowest(p) ==
    /\ pc[p] = "read"
    /\ slow' = [slow EXCEPT ![p] = Slowest]
    /\ pc' = [pc EXCEPT ![p] = "check"]
    /\ UNCHANGED <<broker, pos, handled, redis, pre, due, sent, contested, faults>>

Precheck(p) ==
    /\ pc[p] = "check"
    /\ pre' = [pre EXCEPT ![p] = last]
    /\ IF last >= slow[p] THEN Return(p) ELSE pc' = [pc EXCEPT ![p] = "swap"]
    /\ UNCHANGED <<broker, pos, handled, redis, slow, due, sent, contested, faults>>

\* Mutant: the backfill starts with the last tick.
TicksUpTo_FromLast(m) == last .. m

\* Mutant: the backfill runs through one minute too many.
TicksUpTo_Beyond(m) == last + 1 .. m + 1

\* The tick of minute m and those that were skipped since the last one.
TicksUpTo(m) == last + 1 .. m

\* GETSET.  A consumer that finds another value than before takes the tick
\* for handled, but has already replaced the value.
Swap(p) ==
    /\ pc[p] = "swap"
    /\ last' = slow[p]
    /\ IF pre[p] = last
       THEN /\ due' = [due EXCEPT ![p] = TicksUpTo(slow[p])]
            /\ pc' = [pc EXCEPT ![p] = "send"]
            /\ UNCHANGED contested
       ELSE /\ contested' = TRUE
            /\ Return(p)
            /\ UNCHANGED due
    /\ UNCHANGED <<broker, pos, handled, clocks, try, sent, faults>>

\* _dispatch_tick, oldest first.
Dispatch(p) ==
    /\ pc[p] = "send"
    /\ LET m == Min(due[p]) IN
          /\ sent' = [sent EXCEPT ![m] = @ + 1]
          /\ due' = [due EXCEPT ![p] = @ \ {m}]
          /\ IF due[p] = {m} THEN Return(p) ELSE UNCHANGED pc
    /\ UNCHANGED <<broker, pos, handled, redis, try, contested, faults>>

\* An exception in try_monitor_clock_tick is logged, and the consumer goes on.
ClockFails(p) ==
    /\ faults < MaxFaults
    /\ pc[p] \in {"store", "read", "check", "swap", "send"}
    /\ Return(p)
    /\ due' = [due EXCEPT ![p] = {}]
    /\ faults' = faults + 1
    /\ UNCHANGED <<broker, pos, handled, redis, try, sent, contested>>

\* A consumer dies; its partition is consumed again from an offset that was
\* committed after its messages were handled, which sets its clock back.
Crash(p) ==
    /\ faults < MaxFaults
    /\ \E e \in 0..Min({pos[p], handled[p]}) : pos' = [pos EXCEPT ![p] = e]
    /\ pc' = [pc EXCEPT ![p] = "poll"]
    /\ due' = [due EXCEPT ![p] = {}]
    /\ faults' = faults + 1
    /\ UNCHANGED <<broker, handled, redis, try, sent, contested>>

Consume(p) ==
    \/ Poll(p) \/ HandleCheckins(p) \/ StoreClock(p) \/ ReadSlowest(p)
    \/ Precheck(p) \/ Swap(p) \/ Dispatch(p)

Next ==
    \/ MinutePasses
    \/ \E p \in Partition : Produce(p) \/ Consume(p) \/ ClockFails(p) \/ Crash(p)

Spec == Init /\ [][Next]_vars

\* A consumer that is alive keeps consuming.
FairSpec == Spec /\ \A p \in Partition : WF_vars(Consume(p))

-----------------------------------------------------------------------------
(* Properties *)

\* How often the tick of minute m was sent or is about to be.
Ticks(m) == sent[m] + Cardinality({p \in Partition : m \in due[p]})

\* "Ensures all partitions have been synchronized before ticking our clock":
\* when a minute's tick is sent every check-in of an earlier minute, in
\* whatever partition, has been handled, so the tasks do not take it for
\* missed.  This also holds across faults and lost races.
TickWaitsForCheckins ==
    \A m \in Minute, p \in Partition : \A i \in DOMAIN log[p] :
        Ticks(m) > 0 /\ log[p][i] < m => i <= handled[p]

\* No minute is ticked twice and, unless a consumer fails, none is skipped,
\* however the partitions lag.  The exception are consumers that meet between
\* the read of the last tick and the GETSET.
EveryMinuteOnce ==
    ~contested => \A m \in 0..last : Ticks(m) <= 1 /\ (faults = 0 => Ticks(m) = 1)

\* A minute that the last tick has reached was ticked: whoever found another
\* value with the GETSET had nothing to do, as try_monitor_clock_tick says.
NoTickSkipped == faults = 0 => \A m \in 0..last : Ticks(m) > 0

\* When all partitions have a message of minute m or later the clock gets
\* there, unless a consumer failed or a GETSET was contested.
ClockKeepsUp ==
    \A m \in Minute :
        (\A p \in Partition : \E i \in DOMAIN log[p] : log[p][i] >= m)
            ~> (contested \/ faults > 0 \/ \E k \in m..MaxMinute : sent[k] > 0)
=============================================================================
