------------------------- MODULE MonitorClockProofs -------------------------
(***************************************************************************)
(* Theorems about MonitorClock, for any partitions and minutes.            *)
(*                                                                         *)
(* A minute is synced once every check-in of an earlier minute has been    *)
(* handled.  A partition's clock is synced for that partition, the minimum *)
(* of the clocks for all of them, and what is synced stays so: check-ins   *)
(* to come have later minutes.                                             *)
(***************************************************************************)
EXTENDS MonitorClock, Extrema, FiniteSetTheorems, TLAPS

SyncedFor(p, m) == \A i \in DOMAIN log[p] : log[p][i] < m => i <= handled[p]
Synced(m) == m <= now /\ \A p \in Partition : SyncedFor(p, m)

\* The broker stamps messages in order.
InOrder ==
    \A p \in Partition :
        /\ \A i, j \in DOMAIN log[p] : i <= j => log[p][i] <= log[p][j]
        /\ \A i \in DOMAIN log[p] : log[p][i] <= now

\* Where consumers are in their partitions.
Places ==
    \A p \in Partition :
        /\ pos[p] <= Len(log[p])
        /\ pc[p] # "poll" => pos[p] > 0
        /\ pc[p] = "poll" \/ (parallel /\ pc[p] # "checkins") => pos[p] <= handled[p]
        /\ ~parallel => pos[p] <= handled[p] + 1

Clocks == \A p \in Partition : clocks[p] <= now /\ SyncedFor(p, clocks[p])

\* What has been read, is sent or will be sent is synced.
Ticked ==
    /\ \A p \in Partition : Synced(slow[p])
    /\ \A p \in Partition : \A m \in due[p] : Synced(m)
    /\ \A m \in Minute : sent[m] > 0 => Synced(m)

\* Only consumers that are about to send have something to send.
Sending ==
    \A p \in Partition :
        /\ pc[p] = "send" <=> due[p] # {}
        /\ pc[p] = "swap" => pre[p] < slow[p]

\* Minutes are ticked up to the last tick, and no further.
Once ==
    ~contested => \A m \in Minute :
        /\ m > last => Ticks(m) = 0
        /\ m <= last => Ticks(m) <= 1 /\ (faults = 0 => Ticks(m) = 1)

IInv == TypeOK /\ InOrder /\ Places /\ Clocks /\ Ticked /\ Sending /\ Once

-----------------------------------------------------------------------------
(* Types. *)

LEMMA Bounds == MaxMinute \in Nat /\ MaxLen \in Nat /\ MaxFaults \in Nat
BY BoundAssumption

LEMMA ElementIs ==
    ASSUME NEW S, NEW s \in Seq(S), NEW i \in 1..Len(s)
    PROVE  s[i] \in S
OBVIOUS

LEMMA EntryIs ==
    ASSUME TypeOK, NEW p \in Partition
    PROVE  /\ Len(log[p]) \in Nat /\ DOMAIN log[p] = 1..Len(log[p])
           /\ \A i \in DOMAIN log[p] : i \in Nat /\ log[p][i] \in Minute /\ log[p][i] \in Nat
<1>1. log[p] \in Seq(Minute)
  BY DEF TypeOK
<1>2. Len(log[p]) \in Nat /\ DOMAIN log[p] = 1..Len(log[p])
  BY <1>1
<1>3. \A i \in 1..Len(log[p]) : log[p][i] \in Minute
  BY <1>1, ElementIs
<1> QED
  BY <1>2, <1>3 DEF Minute

LEMMA LargerIs ==
    ASSUME NEW a \in Nat, NEW b \in Nat
    PROVE  Max({a, b}) \in Nat /\ a <= Max({a, b}) /\ b <= Max({a, b})
<1>1. {a, b} \in SUBSET (0..(a + b)) /\ {a, b} # {} /\ a + b \in Nat
  OBVIOUS
<1>2. Max({a, b}) \in {a, b} /\ \A y \in {a, b} : y <= Max({a, b})
  BY <1>1, MaxIs
<1> QED
  BY <1>2

LEMMA SlowestIs ==
    ASSUME TypeOK
    PROVE  Slowest \in Minute /\ \A p \in Partition : Slowest <= clocks[p]
<1>1. {clocks[p] : p \in Partition} \in SUBSET Nat /\ {clocks[p] : p \in Partition} # {}
  BY PartitionAssumption DEF TypeOK, Minute
<1>2. /\ Min({clocks[p] : p \in Partition}) \in {clocks[p] : p \in Partition}
      /\ \A c \in {clocks[p] : p \in Partition} : Min({clocks[p] : p \in Partition}) <= c
  BY <1>1, MinIs
<1> QED
  BY <1>2 DEF TypeOK, Slowest

LEMMA NextDueIs ==
    ASSUME TypeOK, NEW p \in Partition, due[p] # {}
    PROVE  Min(due[p]) \in due[p] /\ Min(due[p]) \in Minute
<1>1. due[p] \in SUBSET Nat /\ due[p] \in SUBSET Minute
  BY DEF TypeOK, Minute
<1> QED
  BY <1>1, MinIs

LEMMA PlaceIs ==
    ASSUME TypeOK, Places, NEW p \in Partition, pc[p] # "poll"
    PROVE  pos[p] \in DOMAIN log[p] /\ log[p][pos[p]] \in Minute
<1>1. log[p] \in Seq(Minute) /\ pos[p] \in Nat
  BY DEF TypeOK
<1>2. Len(log[p]) \in Nat /\ DOMAIN log[p] = 1..Len(log[p])
  BY <1>1
<1>3. pos[p] > 0 /\ pos[p] <= Len(log[p])
  BY DEF Places
<1>4. pos[p] \in 1..Len(log[p])
  BY <1>1, <1>2, <1>3
<1> QED
  BY <1>1, <1>2, <1>4, ElementIs

LEMMA InitHolds == Init => IInv
<1> SUFFICES ASSUME Init PROVE IInv
  OBVIOUS
<1> USE Bounds
<1>1. TypeOK
  <2>1. log \in [Partition -> Seq(Minute)]
    BY DEF Init
  <2>2. 0 \in Minute /\ {} \in SUBSET Minute
    BY DEF Minute
  <2>3. sent \in [Minute -> Nat]
    BY DEF Init
  <2> QED
    BY <2>1, <2>2, <2>3 DEF Init, TypeOK
<1>2. InOrder /\ Places
  BY DEF Init, InOrder, Places
<1>3. Clocks /\ Ticked
  BY DEF Init, Clocks, Ticked, Synced, SyncedFor, Minute
<1>4. Sending
  BY DEF Init, Sending
<1>5. Once
  <2>1. \A m : {p \in Partition : m \in due[p]} = {}
    BY DEF Init
  <2>2. \A m \in Minute : Ticks(m) = sent[m]
    <3> TAKE m \in Minute
    <3>1. Cardinality({p \in Partition : m \in due[p]}) = 0
      BY <2>1, FS_EmptySet
    <3> QED
      BY <1>1, <3>1 DEF Ticks, TypeOK
  <2> QED
    BY <1>1, <2>2 DEF Init, Once, Minute
<1> QED
  BY <1>1, <1>2, <1>3, <1>4, <1>5 DEF IInv

LEMMA TypesNext == TypeOK /\ Places /\ Sending /\ Next => TypeOK'
<1> SUFFICES ASSUME TypeOK, Places, Sending, Next PROVE TypeOK'
  OBVIOUS
<1> USE Bounds
<1>r. ASSUME NEW p \in Partition, Return(p)
      PROVE  pc' \in [Partition -> {"poll", "checkins", "store", "read", "check", "swap", "send"}]
  BY <1>r DEF TypeOK, Return
<1>1. CASE MinutePasses
  BY <1>1 DEF TypeOK, MinutePasses, Minute, redis, try
<1>2. ASSUME NEW p \in Partition, Produce(p) PROVE TypeOK'
  <2>1. Append(log[p], now) \in Seq(Minute)
    BY DEF TypeOK
  <2>2. log' \in [Partition -> Seq(Minute)]
    BY <1>2, <2>1 DEF TypeOK, Produce
  <2> QED
    BY <1>2, <2>2 DEF TypeOK, Produce, redis, try
<1>3. ASSUME NEW p \in Partition, Poll(p) PROVE TypeOK'
  <2>1. pos' \in [Partition -> Nat]
    <3>1. PICK e \in pos[p] + 1 .. Len(log[p]) : pos' = [pos EXCEPT ![p] = e]
      BY <1>3 DEF Poll
    <3>2. e \in Nat
      BY DEF TypeOK
    <3> QED
      BY <3>1, <3>2 DEF TypeOK
  <2> QED
    BY <1>3, <2>1 DEF TypeOK, Poll, broker, redis, try
<1>4. ASSUME NEW p \in Partition, HandleCheckins(p) PROVE TypeOK'
  <2>1. Max({handled[p], pos[p]}) \in Nat
    BY LargerIs DEF TypeOK
  <2>2. handled' \in [Partition -> Nat]
    BY <1>4, <2>1 DEF TypeOK, HandleCheckins
  <2> QED
    BY <1>4, <2>2 DEF TypeOK, HandleCheckins, broker, redis, try
<1>5. ASSUME NEW p \in Partition, StoreClock(p) PROVE TypeOK'
  <2>1. log[p][pos[p]] \in Minute
    <3>1. pc[p] # "poll"
      BY <1>5 DEF StoreClock
    <3> QED
      BY <3>1, PlaceIs
  <2> QED
    BY <1>5, <2>1 DEF TypeOK, StoreClock, Stored, broker, try
<1>6. ASSUME NEW p \in Partition, ReadSlowest(p) PROVE TypeOK'
  BY <1>6, SlowestIs DEF TypeOK, ReadSlowest, broker, redis
<1>7. ASSUME NEW p \in Partition, Precheck(p) PROVE TypeOK'
  BY <1>7, <1>r DEF TypeOK, Precheck, broker, redis
<1>8. ASSUME NEW p \in Partition, Swap(p) PROVE TypeOK'
  <2>1. TicksUpTo(slow[p]) \in SUBSET Minute /\ slow[p] \in Minute
    BY DEF TypeOK, TicksUpTo, Minute
  <2>2. due' \in [Partition -> SUBSET Minute] /\ contested' \in BOOLEAN
    BY <1>8, <2>1 DEF TypeOK, Swap
  <2> QED
    BY <1>8, <1>r, <2>1, <2>2 DEF TypeOK, Swap, broker, try
<1>9. ASSUME NEW p \in Partition, Dispatch(p) PROVE TypeOK'
  <2>1. Min(due[p]) \in Minute
    BY <1>9, NextDueIs DEF Sending, Dispatch
  <2>2. sent' \in [Minute -> Nat] /\ due' \in [Partition -> SUBSET Minute]
    BY <1>9, <2>1 DEF TypeOK, Dispatch
  <2>3. pc' \in [Partition -> {"poll", "checkins", "store", "read", "check", "swap", "send"}]
    BY <1>9, <1>r DEF TypeOK, Dispatch
  <2> QED
    BY <1>9, <2>2, <2>3 DEF TypeOK, Dispatch, broker, redis, try
<1>10. ASSUME NEW p \in Partition, ClockFails(p) PROVE TypeOK'
  BY <1>10, <1>r DEF TypeOK, ClockFails, broker, redis, try
<1>11. ASSUME NEW p \in Partition, Crash(p) PROVE TypeOK'
  <2>1. pos' \in [Partition -> Nat]
    <3>1. PICK e \in 0..Min({pos[p], handled[p]}) : pos' = [pos EXCEPT ![p] = e]
      BY <1>11 DEF Crash
    <3>2. e \in Nat
      OBVIOUS
    <3> QED
      BY <3>1, <3>2 DEF TypeOK
  <2> QED
    BY <1>11, <2>1 DEF TypeOK, Crash, broker, redis, try
<1> QED
  BY <1>1, <1>2, <1>3, <1>4, <1>5, <1>6, <1>7, <1>8, <1>9, <1>10, <1>11 DEF Next, Consume

-----------------------------------------------------------------------------
(* What is synced stays synced. *)

\* Time passes, check-ins are handled and later ones arrive.
Grows ==
    /\ now <= now'
    /\ \A p \in Partition : handled[p] <= handled'[p]
    /\ \A p \in Partition : log'[p] = log[p] \/ log'[p] = Append(log[p], now)

LEMMA GrowsNext == TypeOK /\ Next => Grows
<1> SUFFICES ASSUME TypeOK, Next PROVE Grows
  OBVIOUS
<1>a. now \in Nat /\ now <= now /\ \A p \in Partition : handled[p] \in Nat /\ handled[p] <= handled[p]
  BY DEF TypeOK, Minute
<1>1. CASE MinutePasses
  BY <1>1, <1>a DEF MinutePasses, Grows
<1>2. ASSUME NEW p \in Partition, Produce(p) PROVE Grows
  BY <1>2, <1>a DEF TypeOK, Produce, Grows
<1>3. ASSUME NEW p \in Partition, HandleCheckins(p) PROVE Grows
  <2>1. handled[p] <= Max({handled[p], pos[p]})
    BY LargerIs DEF TypeOK
  <2> QED
    BY <1>3, <1>a, <2>1 DEF TypeOK, HandleCheckins, broker, Grows
<1>4. ASSUME NEW p \in Partition,
             Poll(p) \/ StoreClock(p) \/ ReadSlowest(p) \/ Precheck(p) \/ Swap(p)
             \/ Dispatch(p) \/ ClockFails(p) \/ Crash(p)
      PROVE  Grows
  <2>1. UNCHANGED <<broker, handled>>
    BY <1>4 DEF Poll, StoreClock, ReadSlowest, Precheck, Swap, Dispatch, ClockFails, Crash
  <2> QED
    BY <1>a, <2>1 DEF broker, Grows
<1> QED
  BY <1>1, <1>2, <1>3, <1>4 DEF Next, Consume

\* The entries of a log that has grown.
LEMMA Entries ==
    ASSUME TypeOK, Grows, NEW p \in Partition
    PROVE  /\ DOMAIN log[p] = 1..Len(log[p]) /\ Len(log[p]) \in Nat
           /\ Len(log[p]) <= Len(log'[p]) /\ Len(log'[p]) \in Nat
           /\ DOMAIN log'[p] = 1..Len(log'[p])
           /\ \A i \in DOMAIN log[p] : i \in DOMAIN log'[p] /\ log'[p][i] = log[p][i] /\ log[p][i] \in Nat
           /\ \A i \in DOMAIN log'[p] : i \notin DOMAIN log[p] => i = Len(log[p]) + 1 /\ log'[p][i] = now
<1>1. log[p] \in Seq(Minute) /\ now \in Minute /\ Minute \subseteq Nat
  BY DEF TypeOK, Minute
<1>2. \A i \in DOMAIN log[p] : log[p][i] \in Nat
  BY EntryIs
<1>3. CASE log'[p] = log[p]
  BY <1>1, <1>2, <1>3
<1>4. CASE log'[p] = Append(log[p], now)
  BY <1>1, <1>2, <1>4
<1> QED
  BY <1>3, <1>4 DEF Grows

LEMMA SyncedForStays ==
    ASSUME TypeOK, Grows, NEW p \in Partition, NEW m \in Nat, m <= now, SyncedFor(p, m),
           \A q \in Partition : handled'[q] \in Nat
    PROVE  SyncedFor(p, m)'
<1> SUFFICES ASSUME NEW i \in DOMAIN log'[p], log'[p][i] < m PROVE i <= handled'[p]
  BY DEF SyncedFor
<1>1. now \in Nat
  BY DEF TypeOK, Minute
<1>2. i \in DOMAIN log[p]
  BY <1>1, Entries
<1>3. i <= handled[p]
  BY <1>2, Entries DEF SyncedFor
<1>4. handled[p] <= handled'[p] /\ handled[p] \in Nat /\ handled'[p] \in Nat /\ i \in Nat
  BY <1>2, EntryIs DEF TypeOK, Grows
<1> QED
  BY <1>3, <1>4

LEMMA SyncedStays ==
    ASSUME TypeOK, TypeOK', Grows, NEW m \in Nat, Synced(m)
    PROVE  Synced(m)'
<1>1. m <= now'
  BY DEF TypeOK, Minute, Grows, Synced
<1>2. \A q \in Partition : handled'[q] \in Nat
  BY DEF TypeOK
<1> QED
  BY <1>1, <1>2, SyncedForStays DEF Synced

LEMMA EarlierIsSynced ==
    ASSUME TypeOK, NEW m \in Nat, NEW n \in Nat, n <= m, Synced(m)
    PROVE  Synced(n)
<1>1. \A p \in Partition : \A i \in DOMAIN log[p] : log[p][i] \in Nat
  BY EntryIs
<1> QED
  BY <1>1 DEF TypeOK, Minute, Synced, SyncedFor

-----------------------------------------------------------------------------
(* The invariant. *)

LEMMA OrderNext == TypeOK /\ TypeOK' /\ InOrder /\ Next => InOrder'
<1> SUFFICES ASSUME TypeOK, TypeOK', InOrder, Next, NEW p \in Partition
             PROVE  /\ \A i, j \in DOMAIN log'[p] : i <= j => log'[p][i] <= log'[p][j]
                    /\ \A i \in DOMAIN log'[p] : log'[p][i] <= now'
  BY DEF InOrder
<1>1. Grows
  BY GrowsNext
<1>2. now \in Nat /\ now' \in Nat /\ now <= now'
  BY <1>1 DEF TypeOK, Minute, Grows
<1>3. \A i \in DOMAIN log[p] : log[p][i] <= now /\ log[p][i] \in Nat
  BY <1>1, Entries DEF InOrder
<1>4. \A i \in DOMAIN log'[p] : log'[p][i] <= now /\ log'[p][i] \in Nat
  BY <1>1, <1>2, <1>3, Entries
<1>5. ASSUME NEW i \in DOMAIN log'[p], NEW j \in DOMAIN log'[p], i <= j
      PROVE  log'[p][i] <= log'[p][j]
  <2>1. CASE j \notin DOMAIN log[p]
    BY <1>1, <1>4, <2>1, Entries
  <2>2. CASE j \in DOMAIN log[p]
    <3>1. i \in DOMAIN log[p]
      BY <1>1, <1>5, <2>2, Entries
    <3> QED
      BY <1>1, <1>5, <2>2, <3>1, Entries DEF InOrder
  <2> QED
    BY <2>1, <2>2
<1> QED
  BY <1>2, <1>4, <1>5

LEMMA PlacesNext == TypeOK /\ TypeOK' /\ Places /\ Next => Places'
<1> SUFFICES ASSUME TypeOK, TypeOK', Places, Next PROVE Places'
  OBVIOUS
<1> DEFINE Placed(p) ==
             /\ pos[p] <= Len(log[p])
             /\ pc[p] # "poll" => pos[p] > 0
             /\ pc[p] = "poll" \/ (parallel /\ pc[p] # "checkins") => pos[p] <= handled[p]
             /\ ~parallel => pos[p] <= handled[p] + 1
<1>0. Grows /\ parallel' = parallel
  <2>1. parallel' = parallel
    BY DEF Next, Consume, MinutePasses, Produce, Poll, HandleCheckins, StoreClock, ReadSlowest,
           Precheck, Swap, Dispatch, ClockFails, Crash, broker
  <2> QED
    BY <2>1, GrowsNext
<1>a. \A q \in Partition : /\ pos[q] \in Nat /\ handled[q] \in Nat /\ handled'[q] \in Nat /\ handled[q] <= handled'[q]
                           /\ Len(log[q]) \in Nat /\ Len(log'[q]) \in Nat /\ Len(log[q]) <= Len(log'[q])
  BY <1>0, Entries DEF TypeOK, Grows
<1>b. ASSUME NEW q \in Partition, pos'[q] = pos[q], pc'[q] = pc[q] PROVE Placed(q)'
  BY <1>0, <1>a, <1>b DEF Places
\* Within try_monitor_clock_tick the place does not change.
<1>c. ASSUME NEW q \in Partition, pos'[q] = pos[q], pc[q] \notin {"poll", "checkins"},
             pc'[q] # "poll" \/ parallel
      PROVE  Placed(q)'
  BY <1>0, <1>a, <1>c DEF Places
<1>d. ASSUME NEW q \in Partition, Return(q) PROVE pc'[q] # "poll" \/ parallel
  BY <1>d DEF TypeOK, Return
<1>1. CASE MinutePasses \/ \E p \in Partition : Produce(p)
  BY <1>1, <1>b DEF MinutePasses, Produce, Places
<1>2. ASSUME NEW p \in Partition, Poll(p) PROVE Places'
  <2>1. PICK e \in pos[p] + 1 .. Len(log[p]) : (parallel \/ e = pos[p] + 1) /\ pos' = [pos EXCEPT ![p] = e]
    BY <1>2 DEF Poll
  <2>2. Placed(p)'
    <3>1. pos'[p] = e /\ e \in Nat /\ e > 0 /\ e <= Len(log[p]) /\ pos[p] <= handled[p]
      BY <1>2, <1>a, <2>1 DEF TypeOK, Poll, Places
    <3>2. pc'[p] = IF parallel THEN "checkins" ELSE "store"
      BY <1>2 DEF TypeOK, Poll
    <3> QED
      BY <1>0, <1>a, <2>1, <3>1, <3>2
  <2>3. \A q \in Partition : q # p => pos'[q] = pos[q] /\ pc'[q] = pc[q]
    BY <1>2, <2>1 DEF TypeOK, Poll
  <2> QED
    BY <1>b, <2>2, <2>3 DEF Places
<1>3. ASSUME NEW p \in Partition, HandleCheckins(p) PROVE Places'
  <2>1. Placed(p)'
    <3>1. pos[p] <= Max({handled[p], pos[p]}) /\ Max({handled[p], pos[p]}) \in Nat
      BY LargerIs DEF TypeOK
    <3>2. pos'[p] = pos[p] /\ handled'[p] = Max({handled[p], pos[p]}) /\ pos[p] > 0
      BY <1>3 DEF TypeOK, HandleCheckins, Places
    <3> QED
      BY <1>0, <1>a, <3>1, <3>2 DEF Places
  <2>2. \A q \in Partition : q # p => pos'[q] = pos[q] /\ pc'[q] = pc[q]
    BY <1>3 DEF TypeOK, HandleCheckins
  <2> QED
    BY <1>b, <2>1, <2>2 DEF Places
<1>4. ASSUME NEW p \in Partition,
             StoreClock(p) \/ ReadSlowest(p) \/ Precheck(p) \/ Swap(p) \/ Dispatch(p) \/ ClockFails(p)
      PROVE  Places'
  <2>1. pos' = pos /\ \A q \in Partition : q # p => pc'[q] = pc[q]
    BY <1>4 DEF TypeOK, StoreClock, ReadSlowest, Precheck, Swap, Dispatch, ClockFails, Return
  <2>2. pc[p] \notin {"poll", "checkins"}
    BY <1>4 DEF StoreClock, ReadSlowest, Precheck, Swap, Dispatch, ClockFails
  <2>3. pc'[p] # "poll" \/ parallel
    BY <1>4, <1>d, <2>2 DEF TypeOK, StoreClock, ReadSlowest, Precheck, Swap, Dispatch, ClockFails
  <2> QED
    BY <1>b, <1>c, <2>1, <2>2, <2>3 DEF Places
<1>5. ASSUME NEW p \in Partition, Crash(p) PROVE Places'
  <2>1. PICK e \in 0..Min({pos[p], handled[p]}) : pos' = [pos EXCEPT ![p] = e]
    BY <1>5 DEF Crash
  <2>2. e \in Nat /\ e <= pos[p] /\ e <= handled[p]
    <3>1. {pos[p], handled[p]} \in SUBSET Nat
      BY <1>a
    <3>2. /\ Min({pos[p], handled[p]}) \in Nat
          /\ Min({pos[p], handled[p]}) <= pos[p] /\ Min({pos[p], handled[p]}) <= handled[p]
      BY <3>1, MinIs
    <3> QED
      BY <1>a, <3>2
  <2>3. Placed(p)'
    <3>1. pos'[p] = e /\ pc'[p] = "poll" /\ handled' = handled /\ log' = log
      BY <1>5, <2>1 DEF TypeOK, Crash, broker
    <3>2. pos[p] <= Len(log[p])
      BY DEF Places
    <3> QED
      BY <1>a, <2>2, <3>1, <3>2
  <2>4. \A q \in Partition : q # p => pos'[q] = pos[q] /\ pc'[q] = pc[q]
    BY <1>5, <2>1 DEF TypeOK, Crash
  <2> QED
    BY <1>b, <2>3, <2>4 DEF Places
<1> QED
  BY <1>1, <1>2, <1>3, <1>4, <1>5 DEF Next, Consume

LEMMA ClocksNext == TypeOK /\ TypeOK' /\ InOrder /\ Places /\ Clocks /\ Next => Clocks'
<1> SUFFICES ASSUME TypeOK, TypeOK', InOrder, Places, Clocks, Next PROVE Clocks'
  OBVIOUS
<1>0. Grows
  BY GrowsNext
<1>a. now \in Nat /\ now' \in Nat /\ now <= now' /\ \A q \in Partition : handled'[q] \in Nat /\ clocks[q] \in Nat
  BY <1>0 DEF TypeOK, Minute, Grows
<1>b. ASSUME NEW q \in Partition, clocks'[q] = clocks[q]
      PROVE  clocks'[q] <= now' /\ SyncedFor(q, clocks[q])'
  BY <1>0, <1>a, <1>b, SyncedForStays DEF Clocks
<1>1. ASSUME NEW p \in Partition, StoreClock(p) PROVE Clocks'
  <2>1. UNCHANGED <<log, now, handled>> /\ clocks' = [clocks EXCEPT ![p] = log[p][pos[p]]] /\ pc[p] = "store"
    BY <1>1 DEF StoreClock, Stored, broker
  <2>2. pos[p] \in DOMAIN log[p] /\ log[p][pos[p]] \in Nat /\ pos[p] \in Nat
    <3>1. pc[p] # "poll"
      BY <2>1
    <3>2. pos[p] \in DOMAIN log[p] /\ log[p][pos[p]] \in Minute
      BY <3>1, PlaceIs
    <3> QED
      BY <3>2 DEF Minute, TypeOK
  <2>3. log[p][pos[p]] <= now
    BY <2>2 DEF InOrder
  <2>4. SyncedFor(p, log[p][pos[p]])
    <3> SUFFICES ASSUME NEW i \in DOMAIN log[p], log[p][i] < log[p][pos[p]] PROVE i <= handled[p]
      BY DEF SyncedFor
    <3>1. i \in Nat /\ log[p][i] \in Nat
      BY EntryIs
    <3>2. ~(pos[p] <= i)
      BY <2>2, <3>1 DEF InOrder
    <3>3. pos[p] <= handled[p] + 1 /\ handled[p] \in Nat
      <4>1. handled[p] \in Nat
        BY DEF TypeOK
      <4>2. CASE parallel
        <5>1. pos[p] <= handled[p]
          BY <2>1, <4>2 DEF Places
        <5> QED
          BY <2>2, <4>1, <5>1
      <4>3. CASE ~parallel
        BY <4>1, <4>3 DEF Places
      <4> QED
        BY <4>1, <4>2, <4>3
    <3> QED
      BY <2>2, <3>1, <3>2, <3>3
  <2>5. clocks'[p] = log[p][pos[p]] /\ \A q \in Partition : q # p => clocks'[q] = clocks[q]
    BY <2>1 DEF TypeOK
  <2>6. \A q \in Partition : clocks'[q] <= now' /\ SyncedFor(q, clocks'[q])
    BY <2>1, <2>3, <2>4, <2>5 DEF Clocks
  <2> QED
    BY <2>1, <2>6 DEF Clocks, SyncedFor
<1>2. CASE UNCHANGED clocks
  BY <1>b, <1>2 DEF Clocks
<1> QED
  BY <1>1, <1>2 DEF Next, Consume, MinutePasses, Produce, Poll, HandleCheckins, ReadSlowest,
     Precheck, Swap, Dispatch, ClockFails, Crash, redis

LEMMA SlowestIsSynced == TypeOK /\ Clocks => Synced(Slowest)
<1> SUFFICES ASSUME TypeOK, Clocks PROVE Synced(Slowest)
  OBVIOUS
<1>1. Slowest \in Nat /\ now \in Nat /\ \A p \in Partition : clocks[p] \in Nat /\ Slowest <= clocks[p]
  BY SlowestIs DEF TypeOK, Minute
<1>2. ASSUME NEW p \in Partition PROVE SyncedFor(p, Slowest)
  <2>1. \A i \in DOMAIN log[p] : log[p][i] \in Nat
    BY EntryIs
  <2> QED
    BY <1>1, <2>1 DEF Clocks, SyncedFor
<1>3. PICK p \in Partition : TRUE
  BY PartitionAssumption
<1>4. Slowest <= now
  BY <1>1, <1>3 DEF Clocks
<1> QED
  BY <1>2, <1>4 DEF Synced

LEMMA TickedNext == TypeOK /\ TypeOK' /\ Clocks /\ Ticked /\ Sending /\ Next => Ticked'
<1> SUFFICES ASSUME TypeOK, TypeOK', Clocks, Ticked, Sending, Next PROVE Ticked'
  OBVIOUS
<1>0. Grows
  BY GrowsNext
<1>a. Minute \subseteq Nat
  BY DEF Minute
<1>b. /\ \A q \in Partition : slow[q] \in Minute /\ slow'[q] \in Minute
      /\ \A q \in Partition : due[q] \subseteq Minute /\ due'[q] \subseteq Minute
      /\ \A m \in Minute : sent[m] \in Nat /\ sent'[m] \in Nat
  BY DEF TypeOK
<1>c. \A m \in Minute : Synced(m) => Synced(m)'
  BY <1>0, <1>a, SyncedStays
\* It is enough that what is new was synced before the step.
<1>d. ASSUME \A q \in Partition : Synced(slow'[q]),
             \A q \in Partition : \A m \in due'[q] : Synced(m),
             \A m \in Minute : sent'[m] > 0 => Synced(m)
      PROVE  Ticked'
  <2>1. ASSUME NEW q \in Partition PROVE Synced(slow[q])'
    <3> DEFINE s == slow'[q]
    <3>1. s \in Nat /\ Synced(s)
      BY <1>a, <1>b, <1>d
    <3>2. /\ s <= now'
          /\ \A p \in Partition : \A i \in DOMAIN log'[p] : log'[p][i] < s => i <= handled'[p]
      <4> HIDE DEF s
      <4> QED
        BY <1>0, <3>1, SyncedStays DEF Synced, SyncedFor
    <3> QED
      BY <3>2 DEF Synced, SyncedFor
  <2>2. \A q \in Partition : \A m \in due'[q] : Synced(m)'
    BY <1>b, <1>c, <1>d
  <2>3. \A m \in Minute : sent'[m] > 0 => Synced(m)'
    BY <1>c, <1>d
  <2> QED
    BY <2>1, <2>2, <2>3 DEF Ticked, Minute
<1>1. ASSUME NEW p \in Partition, ReadSlowest(p) PROVE Ticked'
  <2>1. Synced(Slowest)
    BY SlowestIsSynced
  <2>2. slow'[p] = Slowest /\ \A q \in Partition : q # p => slow'[q] = slow[q]
    BY <1>1 DEF TypeOK, ReadSlowest
  <2>3. \A q \in Partition : Synced(slow'[q])
    BY <2>1, <2>2 DEF Ticked
  <2> QED
    BY <1>1, <1>d, <2>3 DEF Ticked, ReadSlowest
<1>2. ASSUME NEW p \in Partition, Swap(p) PROVE Ticked'
  <2>1. \A m \in TicksUpTo(slow[p]) : Synced(m)
    <3> TAKE m \in TicksUpTo(slow[p])
    <3>1. m \in Nat /\ m <= slow[p] /\ slow[p] \in Nat
      BY <1>a, <1>b DEF TypeOK, TicksUpTo, Minute
    <3> QED
      BY <3>1, EarlierIsSynced DEF Ticked
  <2>2. \A q \in Partition : due'[q] = due[q] \/ (q = p /\ due'[q] = TicksUpTo(slow[p]))
    BY <1>2 DEF TypeOK, Swap
  <2>3. \A q \in Partition : \A m \in due'[q] : Synced(m)
    BY <2>1, <2>2 DEF Ticked
  <2> QED
    BY <1>2, <1>d, <2>3 DEF Ticked, Swap, try
<1>3. ASSUME NEW p \in Partition, Dispatch(p) PROVE Ticked'
  <2> DEFINE n == Min(due[p])
  <2>1. n \in due[p] /\ n \in Minute
    BY <1>3, NextDueIs DEF Sending, Dispatch
  <2>2. \A m \in Minute : m # n => sent'[m] = sent[m]
    BY <1>3 DEF TypeOK, Dispatch
  <2>3. \A q \in Partition : due'[q] \subseteq due[q]
    BY <1>3 DEF TypeOK, Dispatch
  <2> HIDE DEF n
  <2>4. \A m \in Minute : sent'[m] > 0 => Synced(m)
    BY <2>1, <2>2 DEF Ticked
  <2>5. \A q \in Partition : \A m \in due'[q] : Synced(m)
    BY <2>3 DEF Ticked
  <2>6. slow' = slow
    BY <1>3 DEF Dispatch, try
  <2> QED
    BY <1>d, <2>4, <2>5, <2>6 DEF Ticked
<1>4. ASSUME NEW p \in Partition, ClockFails(p) \/ Crash(p) PROVE Ticked'
  <2>1. \A q \in Partition : due'[q] \subseteq due[q]
    BY <1>4 DEF TypeOK, ClockFails, Crash
  <2>2. UNCHANGED <<slow, sent>>
    BY <1>4 DEF ClockFails, Crash, try
  <2> QED
    BY <1>d, <2>1, <2>2 DEF Ticked
<1>5. CASE UNCHANGED <<slow, due, sent>>
  BY <1>d, <1>5 DEF Ticked
<1> QED
  BY <1>1, <1>2, <1>3, <1>4, <1>5 DEF Next, Consume, MinutePasses, Produce, Poll, HandleCheckins,
     StoreClock, Precheck, try

LEMMA SendingNext == TypeOK /\ TypeOK' /\ Sending /\ Next => Sending'
<1> SUFFICES ASSUME TypeOK, TypeOK', Sending, Next PROVE Sending'
  OBVIOUS
<1> DEFINE Sends(q) == (pc[q] = "send" <=> due[q] # {}) /\ (pc[q] = "swap" => pre[q] < slow[q])
<1>b. ASSUME NEW q \in Partition, pc'[q] = pc[q], due'[q] = due[q], pre'[q] = pre[q], slow'[q] = slow[q]
      PROVE  Sends(q)'
  BY <1>b DEF Sending
<1>c. ASSUME NEW q \in Partition, pc'[q] \notin {"send", "swap"}, due'[q] = {} PROVE Sends(q)'
  BY <1>c
<1>d. ASSUME NEW q \in Partition, Return(q) PROVE pc'[q] \notin {"send", "swap"}
  BY <1>d DEF TypeOK, Return
<1>e. \A q \in Partition : slow[q] \in Nat /\ pre[q] \in Nat /\ last \in Nat
  BY DEF TypeOK, Minute
<1>1. CASE UNCHANGED <<pc, due, try>>
  BY <1>1 DEF Sending, try
<1>2. ASSUME NEW p \in Partition, \A q \in Partition : q # p => UNCHANGED <<pc[q], due[q], pre[q], slow[q]>>,
             Sends(p)'
      PROVE  Sending'
  BY <1>2, <1>b DEF Sending
<1>3. ASSUME NEW p \in Partition, Poll(p) \/ HandleCheckins(p) \/ StoreClock(p) \/ ReadSlowest(p) PROVE Sending'
  <2>1. \A q \in Partition : q # p => UNCHANGED <<pc[q], due[q], pre[q], slow[q]>>
    BY <1>3 DEF TypeOK, Poll, HandleCheckins, StoreClock, ReadSlowest, try
  <2>2. pc'[p] \notin {"send", "swap"} /\ due'[p] = {}
    BY <1>3 DEF TypeOK, Poll, HandleCheckins, StoreClock, ReadSlowest, Sending
  <2> QED
    BY <1>2, <1>c, <2>1, <2>2
<1>4. ASSUME NEW p \in Partition, Precheck(p) PROVE Sending'
  <2>1. \A q \in Partition : q # p => UNCHANGED <<pc[q], due[q], pre[q], slow[q]>>
    BY <1>4 DEF TypeOK, Precheck, Return
  <2>2. Sends(p)'
    <3>1. due'[p] = {} /\ pre'[p] = last /\ slow'[p] = slow[p]
      BY <1>4 DEF TypeOK, Precheck, Sending
    <3>2. CASE last >= slow[p]
      BY <1>4, <1>c, <1>d, <3>1, <3>2 DEF Precheck
    <3>3. CASE ~(last >= slow[p])
      BY <1>4, <1>e, <3>1, <3>3 DEF TypeOK, Precheck
    <3> QED
      BY <3>2, <3>3
  <2> QED
    BY <1>2, <2>1, <2>2
<1>5. ASSUME NEW p \in Partition, Swap(p) PROVE Sending'
  <2>1. \A q \in Partition : q # p => UNCHANGED <<pc[q], due[q], pre[q], slow[q]>>
    BY <1>5 DEF TypeOK, Swap, Return, try
  <2>2. Sends(p)'
    <3>1. CASE pre[p] = last
      <4>1. last < slow[p]
        BY <1>5, <3>1 DEF Swap, Sending
      <4>2. slow[p] \in TicksUpTo(slow[p])
        BY <1>e, <4>1 DEF TicksUpTo
      <4>3. due'[p] = TicksUpTo(slow[p]) /\ pc'[p] = "send"
        BY <1>5, <3>1 DEF TypeOK, Swap
      <4> QED
        BY <4>2, <4>3
    <3>2. CASE pre[p] # last
      <4>1. Return(p) /\ due'[p] = {}
        BY <1>5, <3>2 DEF Swap, Sending
      <4> QED
        BY <1>c, <1>d, <4>1
    <3> QED
      BY <3>1, <3>2
  <2> QED
    BY <1>2, <2>1, <2>2
<1>6. ASSUME NEW p \in Partition, Dispatch(p) PROVE Sending'
  <2>1. \A q \in Partition : q # p => UNCHANGED <<pc[q], due[q], pre[q], slow[q]>>
    BY <1>6 DEF TypeOK, Dispatch, Return, try
  <2>2. Sends(p)'
    <3> DEFINE n == Min(due[p])
    <3>1. n \in due[p] /\ due'[p] = due[p] \ {n} /\ pc[p] = "send"
      BY <1>6, NextDueIs DEF TypeOK, Sending, Dispatch
    <3>a. IF due[p] = {n} THEN Return(p) ELSE UNCHANGED pc
      BY <1>6 DEF Dispatch
    <3> HIDE DEF n
    <3>2. CASE due[p] = {n}
      BY <1>c, <1>d, <3>1, <3>2, <3>a
    <3>3. CASE due[p] # {n}
      <4>1. due'[p] # {} /\ pc'[p] = "send"
        BY <3>1, <3>3, <3>a
      <4> QED
        BY <4>1
    <3> QED
      BY <3>2, <3>3
  <2> QED
    BY <1>2, <2>1, <2>2
<1>7. ASSUME NEW p \in Partition, ClockFails(p) \/ Crash(p) PROVE Sending'
  <2>1. \A q \in Partition : q # p => UNCHANGED <<pc[q], due[q], pre[q], slow[q]>>
    BY <1>7 DEF TypeOK, ClockFails, Crash, Return, try
  <2>2. pc'[p] \notin {"send", "swap"} /\ due'[p] = {}
    BY <1>7, <1>d DEF TypeOK, ClockFails, Crash
  <2> QED
    BY <1>2, <1>c, <2>1, <2>2
<1> QED
  BY <1>1, <1>3, <1>4, <1>5, <1>6, <1>7 DEF Next, Consume, MinutePasses, Produce

\* The consumers that are about to send a minute's tick.
Holders(m) == {p \in Partition : m \in due[p]}

LEMMA HoldersAre ==
    /\ \A m : IsFiniteSet(Holders(m)) /\ Cardinality(Holders(m)) \in Nat
    /\ \A m : IsFiniteSet(Holders(m)') /\ Cardinality(Holders(m)') \in Nat
<1>1. \A m : IsFiniteSet(Holders(m)) /\ IsFiniteSet(Holders(m)')
  <2> TAKE m
  <2>1. Holders(m) \subseteq Partition /\ Holders(m)' \subseteq Partition
    BY DEF Holders
  <2> QED
    BY <2>1, PartitionAssumption, FS_Subset
<1> QED
  BY <1>1, FS_CardinalityType

LEMMA TicksAre ==
    /\ \A m : Ticks(m) = sent[m] + Cardinality(Holders(m))
    /\ \A m : Ticks(m)' = sent'[m] + Cardinality(Holders(m)')
BY DEF Ticks, Holders

LEMMA OnceNext == TypeOK /\ TypeOK' /\ Sending /\ Once /\ Next => Once'
<1> SUFFICES ASSUME TypeOK, TypeOK', Sending, Once, Next, ~contested' PROVE Once'
  BY DEF Once
<1>a. /\ last \in Minute /\ last' \in Minute /\ Minute \subseteq Nat /\ faults \in Nat /\ faults' \in Nat
      /\ \A m \in Minute : sent[m] \in Nat /\ sent'[m] \in Nat
  BY DEF TypeOK, Minute
<1>1. CASE UNCHANGED <<due, last, sent, contested, faults>>
  BY <1>1 DEF Once, Ticks
<1>2. ASSUME NEW p \in Partition, Swap(p) PROVE Once'
  <2>1. pre[p] = last /\ pc[p] = "swap" /\ UNCHANGED <<contested, sent, faults>> /\ last' = slow[p]
    BY <1>2 DEF Swap
  <2>2. due[p] = {} /\ last < slow[p]
    BY <2>1 DEF Sending
  <2>3. due'[p] = last + 1 .. slow[p] /\ \A q \in Partition : q # p => due'[q] = due[q]
    BY <1>2, <2>1 DEF TypeOK, Swap, TicksUpTo
  <2>4. slow[p] \in Nat /\ last \in Nat
    BY <1>a, <2>1
  <2>5. ASSUME NEW m \in Minute
        PROVE  /\ m > slow[p] => Ticks(m)' = 0
               /\ m <= slow[p] => Ticks(m)' <= 1 /\ (faults = 0 => Ticks(m)' = 1)
    <3>1. m \in Nat
      BY <1>a
    <3>2. CASE m > last /\ m <= slow[p]
      <4>1. Ticks(m) = 0
        BY <2>1, <3>2 DEF Once
      <4>2. Cardinality(Holders(m)) = 0 /\ sent[m] = 0
        BY <1>a, <4>1, HoldersAre, TicksAre
      <4>3. Holders(m)' = Holders(m) \cup {p} /\ p \notin Holders(m)
        <5>1. m \in due'[p] /\ m \notin due[p]
          BY <2>2, <2>3, <2>4, <3>1, <3>2
        <5> QED
          BY <2>3, <5>1 DEF Holders
      <4>4. Cardinality(Holders(m) \cup {p}) = Cardinality(Holders(m)) + 1
        BY <4>3, HoldersAre, FS_AddElement
      <4>5. Cardinality(Holders(m)') = 1
        BY <4>2, <4>3, <4>4
      <4> QED
        BY <2>1, <2>4, <3>1, <3>2, <4>2, <4>5, TicksAre
    <3>3. CASE ~(m > last /\ m <= slow[p])
      <4>1. Holders(m)' = Holders(m)
        <5>1. m \notin due'[p] /\ m \notin due[p]
          BY <2>2, <2>3, <2>4, <3>1, <3>3
        <5> QED
          BY <2>3, <5>1 DEF Holders
      <4>2. Ticks(m)' = Ticks(m)
        BY <2>1, <4>1, TicksAre
      <4>3. (m > slow[p] => m > last) /\ (m <= slow[p] => m <= last)
        BY <2>2, <2>4, <3>1, <3>3
      <4> QED
        BY <2>1, <4>2, <4>3 DEF Once
    <3> QED
      BY <3>2, <3>3
  <2> QED
    BY <2>1, <2>5 DEF Once, Minute
<1>3. ASSUME NEW p \in Partition, Dispatch(p) PROVE Once'
  <2> DEFINE n == Min(due[p])
  <2>1. n \in due[p] /\ n \in Minute
    BY <1>3, NextDueIs DEF Sending, Dispatch
  <2>2. /\ sent' = [sent EXCEPT ![n] = @ + 1] /\ due' = [due EXCEPT ![p] = @ \ {n}]
        /\ UNCHANGED <<last, contested, faults>>
    BY <1>3 DEF Dispatch, redis
  <2> HIDE DEF n
  <2>3. ASSUME NEW m \in Minute PROVE Ticks(m)' = Ticks(m)
    <3>1. CASE m = n
      <4>1. Holders(m)' = Holders(m) \ {p} /\ p \in Holders(m)
        BY <2>1, <2>2, <3>1 DEF TypeOK, Holders
      <4>2. Cardinality(Holders(m)') = Cardinality(Holders(m)) - 1
        BY <4>1, HoldersAre, FS_RemoveElement
      <4>3. sent'[m] = sent[m] + 1
        BY <2>1, <2>2, <3>1 DEF TypeOK
      <4> QED
        BY <1>a, <4>2, <4>3, HoldersAre, TicksAre
    <3>2. CASE m # n
      <4>1. Holders(m)' = Holders(m)
        BY <2>1, <2>2, <3>2 DEF TypeOK, Holders
      <4>2. sent'[m] = sent[m]
        BY <2>1, <2>2, <3>2 DEF TypeOK
      <4> QED
        BY <4>1, <4>2, TicksAre
    <3> QED
      BY <3>1, <3>2
  <2> QED
    BY <2>2, <2>3 DEF Once, Minute
<1>4. ASSUME NEW p \in Partition, ClockFails(p) \/ Crash(p) PROVE Once'
  <2>1. faults' = faults + 1 /\ UNCHANGED <<last, sent, contested>> /\ due' = [due EXCEPT ![p] = {}]
    BY <1>4 DEF ClockFails, Crash, redis
  <2>2. faults' # 0
    BY <1>a, <2>1
  <2>3. ASSUME NEW m \in Minute PROVE Ticks(m)' <= Ticks(m) /\ Ticks(m)' \in Nat /\ Ticks(m) \in Nat
    <3>1. Holders(m)' \subseteq Holders(m)
      BY <2>1 DEF TypeOK, Holders
    <3>2. Cardinality(Holders(m)') <= Cardinality(Holders(m))
      BY <3>1, HoldersAre, FS_Subset
    <3>3. sent'[m] = sent[m] /\ sent[m] \in Nat
      BY <1>a, <2>1
    <3> QED
      BY <3>2, <3>3, HoldersAre, TicksAre
  <2>4. ASSUME NEW m \in Minute
        PROVE  (m > last' => Ticks(m)' = 0) /\ (m <= last' => Ticks(m)' <= 1)
    <3>1. (m > last' => Ticks(m) = 0) /\ (m <= last' => Ticks(m) <= 1)
      BY <2>1 DEF Once
    <3> QED
      BY <2>3, <3>1
  <2> QED
    BY <2>2, <2>4 DEF Once, Minute
<1> QED
  BY <1>1, <1>2, <1>3, <1>4 DEF Next, Consume, MinutePasses, Produce, Poll, HandleCheckins,
     StoreClock, ReadSlowest, Precheck, redis

LEMMA IInvNext == IInv /\ [Next]_vars => IInv'
<1> SUFFICES ASSUME IInv, [Next]_vars PROVE IInv'
  OBVIOUS
<1>1. CASE Next
  <2>1. TypeOK'
    BY <1>1, TypesNext DEF IInv
  <2> QED
    BY <1>1, <2>1, OrderNext, PlacesNext, ClocksNext, TickedNext, SendingNext, OnceNext DEF IInv
<1>2. CASE UNCHANGED vars
  BY <1>2 DEF vars, broker, redis, try, IInv, TypeOK, InOrder, Places, Clocks, Ticked, Synced,
     SyncedFor, Sending, Once, Ticks
<1> QED
  BY <1>1, <1>2

-----------------------------------------------------------------------------
(* Theorems. *)

\* The invariant is inductive: it holds in every state of the clock.
THEOREM Invariance == Spec => []IInv
BY InitHolds, IInvNext, PTL DEF Spec

\* The clock's state, redis and the consumers keep their types.
THEOREM TypeCorrect == Spec => []TypeOK
<1>1. IInv => TypeOK
  BY DEF IInv
<1> QED
  BY <1>1, Invariance, PTL

\* A tick is sent only when every check-in of an earlier minute was handled,
\* with any number of partitions, faults and consumers that meet.
THEOREM TickWaits == Spec => []TickWaitsForCheckins
<1>1. IInv => TickWaitsForCheckins
  <2> SUFFICES ASSUME IInv, NEW m \in Minute, NEW p \in Partition, NEW i \in DOMAIN log[p],
                      Ticks(m) > 0, log[p][i] < m
               PROVE  i <= handled[p]
    BY DEF TickWaitsForCheckins
  <2>1. Synced(m)
    <3>1. sent[m] \in Nat
      BY DEF IInv, TypeOK
    <3>2. CASE sent[m] > 0
      BY <3>2 DEF IInv, Ticked
    <3>3. CASE sent[m] = 0
      <4>1. Cardinality(Holders(m)) > 0
        BY <3>3, HoldersAre, TicksAre
      <4>2. Holders(m) # {}
        BY <4>1, FS_EmptySet
      <4> QED
        BY <4>2 DEF Holders, IInv, Ticked
    <3> QED
      BY <3>1, <3>2, <3>3
  <2> QED
    BY <2>1 DEF Synced, SyncedFor
<1> QED
  BY <1>1, Invariance, PTL

\* As long as no GETSET was contested each minute up to the last tick is
\* ticked at most once, and exactly once unless a consumer failed.
THEOREM MinutesOnce == Spec => []EveryMinuteOnce
<1>1. IInv => EveryMinuteOnce
  <2> SUFFICES ASSUME IInv, ~contested, NEW m \in 0..last
               PROVE  Ticks(m) <= 1 /\ (faults = 0 => Ticks(m) = 1)
    BY DEF EveryMinuteOnce
  <2>1. last \in Minute
    BY DEF IInv, TypeOK
  <2>2. m \in Minute /\ m <= last
    BY <2>1, Bounds DEF Minute
  <2> QED
    BY <2>2 DEF IInv, Once
<1> QED
  BY <1>1, Invariance, PTL
=============================================================================
