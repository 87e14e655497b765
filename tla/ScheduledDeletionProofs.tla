---------------------- MODULE ScheduledDeletionProofs ----------------------
(***************************************************************************)
(* Theorems about ScheduledDeletion, for any workers, rows and requests.   *)
(* Until requests and tasks meet in one of the four ways of crossed, only  *)
(* who saw the organization gone or restored removes its row, and only who *)
(* saw it to be deleted writes its status.  As long as no row is released, *)
(* whoever is past its claim has the row to itself.                        *)
(***************************************************************************)
EXTENDS ScheduledDeletion, FiniteSetTheorems, TLAPS

\* What requests and tasks know of the organization is still true.
Undisturbed == ~crossed =>
    /\ put.at \in {"find", "cancel"} => status \notin Pending
    /\ \A w \in Worker : Dropping(w) => status \notin Pending
    /\ \A w \in Worker : Deleting(w) => status # "ACTIVE"

Claimed(w) == pc[w] \notin {"free", "claim"}

\* Nobody shares a claimed row.
Exclusive == ~reattempted =>
    /\ \A w \in Worker : Claimed(w) /\ row # NoRow /\ row.id = item[w] => row.in_progress
    /\ \A v, w \in Worker : Claimed(v) /\ Claimed(w) /\ item[v] = item[w] => v = w
    /\ ~crossed => \A w \in Worker : Running(w) => row # NoRow /\ row.id = item[w]

\* Ids are not used twice.
Fresh ==
    /\ row # NoRow => row.id <= created
    /\ \A w \in Worker : item[w] <= created

\* A request has found the organization.
Found == put.was # "GONE"

IInv == TypeOK /\ Undisturbed /\ PendingIsScheduled /\ Exclusive /\ Fresh /\ Found

-----------------------------------------------------------------------------
(* Types. *)

LEMMA Sizes == MaxRows \in Nat /\ MaxRequests \in Nat /\ MaxFaults \in Nat
BY BoundAssumption

LEMMA NoPutType == NoPut \in Put
<1>1. "none" \in {"none", "save", "find", "cancel"} /\ "ACTIVE" \in Status /\ FALSE \in BOOLEAN
      /\ 0 \in 0..MaxRows
  BY Sizes DEF Status
<1> QED
  BY <1>1 DEF NoPut, Put

LEMMA InitHolds == Init => IInv
<1> SUFFICES ASSUME Init PROVE IInv
  OBVIOUS
<1>1. put \in Put
  BY NoPutType DEF Init
<1>2. pc \in [Worker -> Stage] /\ item \in [Worker -> 0..MaxRows]
  BY Sizes DEF Init, Stage
<1>3. TypeOK
  <2>1. created \in 0..MaxRows /\ requests \in 0..MaxRequests /\ faults \in 0..MaxFaults
    BY Sizes DEF Init
  <2>2. status \in Status /\ row \in Row \cup {NoRow}
    BY DEF Init, Status
  <2>3. reattempted \in BOOLEAN /\ crossed \in BOOLEAN
    BY DEF Init
  <2> QED
    BY <1>1, <1>2, <2>1, <2>2, <2>3 DEF TypeOK
<1>4. Undisturbed /\ PendingIsScheduled
  BY DEF Init, Undisturbed, PendingIsScheduled, Pending, NoPut, Dropping, Deleting
<1>5. Exclusive /\ Fresh /\ Found
  BY DEF Init, Exclusive, Claimed, Running, Fresh, Found, NoPut
<1> QED
  BY <1>3, <1>4, <1>5 DEF IInv

LEMMA GotoType ==
    ASSUME TypeOK, NEW w \in Worker, NEW next \in Stage, Goto(w, next)
    PROVE  /\ pc' \in [Worker -> Stage] /\ item' \in [Worker -> 0..MaxRows]
           /\ pc' = [pc EXCEPT ![w] = next]
           /\ \A v \in Worker : v # w => item'[v] = item[v] /\ pc'[v] = pc[v]
           /\ pc'[w] = next
           /\ item'[w] = IF next = "free" THEN 0 ELSE item[w]
BY Sizes DEF TypeOK, Goto

LEMMA WithoutType ==
    ASSUME TypeOK, NEW id
    PROVE  Without(id) \in Row \cup {NoRow}
BY DEF TypeOK, Without

LEMMA TypeStep == TypeOK /\ [Next]_vars => TypeOK'
<1> SUFFICES ASSUME TypeOK, [Next]_vars PROVE TypeOK'
  OBVIOUS
<1> USE Sizes
<1>1. CASE Delete
  <2>1. requests' \in 0..MaxRequests /\ status' \in Status /\ crossed' \in BOOLEAN
    BY <1>1 DEF Delete, TypeOK, Status, Pending
  <2>2. created' \in 0..MaxRows /\ row' \in Row \cup {NoRow}
    <3>1. CASE row = NoRow
      <4>1. created' = created + 1 /\ created + 1 \in 1..MaxRows
        BY <1>1, <3>1 DEF Delete, TypeOK
      <4>2. row' = [id |-> created + 1, age |-> "future", in_progress |-> FALSE]
        BY <1>1, <3>1 DEF Delete, DelayedAge
      <4>3. row' \in Row
        BY <4>1, <4>2 DEF Row
      <4>4. created' \in 0..MaxRows
        BY <4>1
      <4> QED
        BY <4>3, <4>4
    <3>2. CASE row # NoRow
      BY <1>1, <3>2 DEF Delete, TypeOK, DelayedAge, Row
    <3> QED
      BY <3>1, <3>2
  <2> QED
    BY <1>1, <2>1, <2>2 DEF Delete, TypeOK, workers
<1>2. ASSUME NEW cancel \in BOOLEAN, LoadPut(cancel) PROVE TypeOK'
  <2>1. put' \in Put
    BY <1>2 DEF LoadPut, TypeOK, Put
  <2>2. requests' \in 0..MaxRequests
    BY <1>2 DEF LoadPut, TypeOK
  <2> QED
    BY <1>2, <2>1, <2>2 DEF LoadPut, TypeOK, organization, workers
<1>3. CASE SavePut
  <2>1. status' \in Status
    BY <1>3 DEF SavePut, TypeOK, Put, Status
  <2>2. put' \in Put
    BY <1>3 DEF SavePut, TypeOK, Put, NoPut, Status
  <2>3. crossed' \in BOOLEAN
    BY <1>3 DEF SavePut, TypeOK
  <2> QED
    BY <1>3, <2>1, <2>2, <2>3 DEF SavePut, TypeOK, workers, bounds
<1>4. CASE FindRow
  <2>1. row # NoRow => row.id \in 0..MaxRows
    BY DEF TypeOK, Row
  <2>2. put' = NoPut \/ (row # NoRow /\ put' = [put EXCEPT !.at = "cancel", !.id = row.id])
    BY <1>4 DEF FindRow
  <2>3. put' \in Put
    BY <2>1, <2>2, NoPutType DEF TypeOK, Put
  <2> QED
    BY <1>4, <2>3 DEF FindRow, TypeOK, organization, workers, bounds
<1>5. CASE CancelRow
  <2>1. put' \in Put
    BY <1>5 DEF CancelRow, Put, NoPut, Status
  <2>2. row' \in Row \cup {NoRow}
    BY <1>5, WithoutType DEF CancelRow
  <2>3. crossed' \in BOOLEAN
    BY <1>5 DEF CancelRow, TypeOK
  <2> QED
    BY <1>5, <2>1, <2>2, <2>3 DEF CancelRow, TypeOK, workers, bounds
<1>6. CASE TimePasses
  <2>1. row' \in Row
    BY <1>6 DEF TimePasses, TypeOK, Row
  <2> QED
    BY <1>6, <2>1 DEF TimePasses, TypeOK, workers, bounds
<1>7. CASE Reattempt
  <2>1. row' \in Row
    BY <1>7 DEF Reattempt, TypeOK, Row
  <2> QED
    BY <1>7, <2>1 DEF Reattempt, TypeOK, workers, bounds
<1>8. ASSUME NEW w \in Worker, FindDue(w) PROVE TypeOK'
  <2>1. pc' \in [Worker -> Stage] /\ item' \in [Worker -> 0..MaxRows]
    BY <1>8 DEF FindDue, TypeOK, Row, Stage
  <2> QED
    BY <1>8, <2>1 DEF FindDue, TypeOK, organization, bounds
<1>9. ASSUME NEW w \in Worker, Claim(w) PROVE TypeOK'
  <2>1. pc' \in [Worker -> Stage] /\ item' \in [Worker -> 0..MaxRows]
    BY <1>9 DEF Claim, TypeOK, Stage
  <2>2. row' \in Row \cup {NoRow}
    BY <1>9 DEF Claim, Claimable, TypeOK, Row
  <2> QED
    BY <1>9, <2>1, <2>2 DEF Claim, TypeOK, bounds
<1>10. ASSUME NEW w \in Worker, Load(w) PROVE TypeOK'
  <2>1. pc' \in [Worker -> Stage] /\ item' \in [Worker -> 0..MaxRows]
    BY <1>10, GotoType DEF Load, Stage
  <2> QED
    BY <1>10, <2>1 DEF Load, TypeOK, organization, bounds
<1>11. ASSUME NEW w \in Worker, Check(w) PROVE TypeOK'
  <2>1. pc' \in [Worker -> Stage] /\ item' \in [Worker -> 0..MaxRows]
    BY <1>11, GotoType DEF Check, Stage
  <2> QED
    BY <1>11, <2>1 DEF Check, TypeOK, organization, bounds
<1>12. ASSUME NEW w \in Worker, DropRow(w) PROVE TypeOK'
  <2>1. pc' \in [Worker -> Stage] /\ item' \in [Worker -> 0..MaxRows]
    BY <1>12, GotoType DEF DropRow, Stage
  <2>2. row' \in Row \cup {NoRow}
    BY <1>12, WithoutType DEF DropRow
  <2> QED
    BY <1>12, <2>1, <2>2 DEF DropRow, TypeOK, bounds
<1>13. ASSUME NEW w \in Worker, Chunk(w) PROVE TypeOK'
  <2>1. PICK next \in Stage : Goto(w, next)
    BY <1>13 DEF Chunk, Stage
  <2>2. pc' \in [Worker -> Stage] /\ item' \in [Worker -> 0..MaxRows]
    BY <2>1, GotoType
  <2> QED
    BY <1>13, <2>2 DEF Chunk, TypeOK, organization, bounds
<1>14. ASSUME NEW w \in Worker, MarkInProgress(w) PROVE TypeOK'
  <2>1. pc' \in [Worker -> Stage] /\ item' \in [Worker -> 0..MaxRows]
    BY <1>14, GotoType DEF MarkInProgress, Stage
  <2> QED
    BY <1>14, <2>1 DEF MarkInProgress, TypeOK, bounds, Status, Pending
<1>15. ASSUME NEW w \in Worker, Remove(w) PROVE TypeOK'
  <2>1. pc' \in [Worker -> Stage] /\ item' \in [Worker -> 0..MaxRows]
    BY <1>15, GotoType DEF Remove, Stage
  <2> QED
    BY <1>15, <2>1 DEF Remove, TypeOK, bounds, Status
<1>16. ASSUME NEW w \in Worker, Fail(w) PROVE TypeOK'
  <2>1. pc' \in [Worker -> Stage] /\ item' \in [Worker -> 0..MaxRows]
    BY <1>16, GotoType DEF Fail, Stage
  <2>2. faults' \in 0..MaxFaults
    BY <1>16 DEF Fail, TypeOK
  <2> QED
    BY <1>16, <2>1, <2>2 DEF Fail, TypeOK, organization
<1>17. CASE FailPut
  <2>1. faults' \in 0..MaxFaults
    BY <1>17 DEF FailPut, TypeOK
  <2> QED
    BY <1>17, <2>1, NoPutType DEF FailPut, TypeOK, organization, workers
<1>18. CASE UNCHANGED vars
  BY <1>18 DEF vars, organization, workers, bounds, TypeOK
<1> QED
  BY <1>1, <1>2, <1>3, <1>4, <1>5, <1>6, <1>7, <1>8, <1>9, <1>10, <1>11, <1>12, <1>13, <1>14,
     <1>15, <1>16, <1>17, <1>18 DEF Next, Run

-----------------------------------------------------------------------------
(* What requests and tasks have seen stays true until they meet. *)

\* A meeting is remembered.
LEMMA CrossedStays == TypeOK /\ Next /\ crossed => crossed'
BY DEF Next, Run, Delete, LoadPut, SavePut, FindRow, CancelRow, FailPut, TimePasses, Reattempt, FindDue,
       Claim, Load, Check, DropRow, Chunk, MarkInProgress, Remove, Fail

\* How a request goes on.
LEMMA PutStep ==
    ASSUME TypeOK
    PROVE  /\ SavePut => put'.at \in {"none", "find"}
           /\ FindRow => put'.at \in {"none", "cancel"}
           /\ CancelRow \/ FailPut => put'.at = "none"
<1>1. put \in Put /\ NoPut.at = "none"
  BY DEF TypeOK, NoPut
<1>2. [put EXCEPT !.at = "find"].at = "find"
      /\ \A id : [put EXCEPT !.at = "cancel", !.id = id].at = "cancel"
  BY <1>1 DEF Put
<1>3. SavePut => put' = NoPut \/ put' = [put EXCEPT !.at = "find"]
  BY DEF SavePut
<1>4. FindRow => put' = NoPut \/ put' = [put EXCEPT !.at = "cancel", !.id = row.id]
  BY DEF FindRow
<1>5. CancelRow \/ FailPut => put' = NoPut
  BY DEF CancelRow, FailPut
<1> QED
  BY <1>1, <1>2, <1>3, <1>4, <1>5

\* Requests read an organization that is there.
LEMMA FoundStep ==
    ASSUME IInv, Next
    PROVE  Found'
<1>1. put \in Put /\ Found /\ NoPut.was # "GONE"
  BY DEF IInv, TypeOK, NoPut
<1>2. ASSUME NEW cancel \in BOOLEAN, LoadPut(cancel) PROVE Found'
  BY <1>2 DEF LoadPut, Found
<1>3. CASE SavePut \/ FindRow \/ CancelRow \/ FailPut
  BY <1>1, <1>3 DEF SavePut, FindRow, CancelRow, FailPut, Found, Put
<1>4. CASE UNCHANGED put
  BY <1>1, <1>4 DEF Found
<1> QED
  BY <1>2, <1>3, <1>4 DEF Next, Run, Delete, TimePasses, Reattempt, FindDue,
     Claim, Load, Check, DropRow, Chunk, MarkInProgress, Remove, Fail

\* The steps of a request.
LEMMA RequestStep ==
    ASSUME IInv, Next,
           \/ Delete \/ (\E cancel \in BOOLEAN : LoadPut(cancel))
           \/ SavePut \/ FindRow \/ CancelRow \/ FailPut
    PROVE  Undisturbed' /\ PendingIsScheduled'
<1> SUFFICES ASSUME ~crossed' PROVE Undisturbed' /\ PendingIsScheduled'
  BY DEF Undisturbed, PendingIsScheduled
<1>1. ~crossed
  BY CrossedStays DEF IInv
<1>2. CASE Delete
  <2>1. put.at \notin {"find", "cancel"} /\ \A w \in Worker : ~Dropping(w)
    BY <1>2 DEF Delete, Dropping, IInv, TypeOK
  <2>2. UNCHANGED <<put, pc>> /\ status' = "PENDING_DELETION"
    BY <1>2 DEF Delete, workers
  <2>3. Undisturbed'
    BY <2>1, <2>2 DEF Undisturbed, Dropping
  <2>4. row' # NoRow
    <3>1. row' \in Row \cup {NoRow} /\ created' \in 0..MaxRows
      BY TypeStep DEF IInv, TypeOK
    <3>2. CASE row = NoRow
      <4>1. row' = [id |-> created', age |-> "future", in_progress |-> FALSE]
            /\ created' = created + 1 /\ created + 1 \in 1..MaxRows
        BY <1>2, <3>1, <3>2, Sizes DEF Delete, DelayedAge, IInv, TypeOK
      <4>2. row' \in Row
        BY <4>1 DEF Row
      <4> QED
        BY <4>2, NoRowAssumption
    <3>3. CASE row # NoRow
      <4>1. row \in Row /\ row' = [row EXCEPT !.age = "future"]
        BY <1>2, <3>3 DEF Delete, DelayedAge, IInv, TypeOK
      <4>2. row' \in Row
        BY <4>1 DEF Row
      <4> QED
        BY <4>2, NoRowAssumption
    <3> QED
      BY <3>2, <3>3
  <2> QED
    BY <2>3, <2>4 DEF PendingIsScheduled
<1>3. ASSUME NEW cancel \in BOOLEAN, LoadPut(cancel) PROVE Undisturbed' /\ PendingIsScheduled'
  <2>1. UNCHANGED <<status, row, pc>> /\ put'.at = "save"
    BY <1>3 DEF LoadPut, organization, workers
  <2> QED
    BY <1>1, <2>1 DEF Undisturbed, PendingIsScheduled, Dropping, Deleting, IInv
<1>4. CASE SavePut
  <2>1. status' \notin Pending /\ \A w \in Worker : ~Deleting(w)
    BY <1>4 DEF SavePut, Deleting, IInv, TypeOK
  <2>2. UNCHANGED pc
    BY <1>4 DEF SavePut, workers
  <2> QED
    BY <2>1, <2>2 DEF Undisturbed, PendingIsScheduled, Deleting
<1>5. CASE FindRow \/ CancelRow
  <2>1. UNCHANGED <<status, pc>> /\ put.at \in {"find", "cancel"}
    BY <1>5 DEF FindRow, CancelRow, organization, workers
  <2> QED
    BY <1>1, <2>1 DEF IInv, Undisturbed, PendingIsScheduled, Dropping, Deleting
<1>6. CASE FailPut
  <2>1. UNCHANGED <<status, row, pc>> /\ put'.at = "none"
    BY <1>6, PutStep DEF FailPut, organization, workers, IInv
  <2> QED
    BY <1>1, <2>1 DEF IInv, Undisturbed, PendingIsScheduled, Dropping, Deleting
<1> QED
  BY <1>2, <1>3, <1>4, <1>5, <1>6

\* Time, the schedulers and a row that is claimed.
LEMMA ScheduleStep ==
    ASSUME IInv, Next, TimePasses \/ Reattempt \/ \E w \in Worker : FindDue(w) \/ Claim(w)
    PROVE  Undisturbed' /\ PendingIsScheduled'
<1>1. UNCHANGED <<status, put, crossed>>
  BY DEF TimePasses, Reattempt, FindDue, Claim, organization
<1>2. \A w \in Worker : pc'[w] = pc[w] \/ pc'[w] \in {"free", "claim", "queued"}
  BY DEF TimePasses, Reattempt, FindDue, Claim, workers, IInv, TypeOK
<1>3. row # NoRow => row' # NoRow
  <2>1. row' = row \/ row' \in Row
    BY DEF TimePasses, Reattempt, FindDue, Claim, Claimable, organization, IInv, TypeOK, Row
  <2> QED
    BY <2>1, NoRowAssumption
<1>4. Undisturbed'
  BY <1>1, <1>2 DEF IInv, Undisturbed, Dropping, Deleting
<1>5. PendingIsScheduled'
  BY <1>1, <1>3 DEF IInv, PendingIsScheduled
<1> QED
  BY <1>4, <1>5

\* The steps of a task.
LEMMA TaskStep ==
    ASSUME IInv, Next, NEW w \in Worker,
           Load(w) \/ Check(w) \/ DropRow(w) \/ Chunk(w) \/ MarkInProgress(w) \/ Remove(w) \/ Fail(w)
    PROVE  Undisturbed' /\ PendingIsScheduled'
<1> SUFFICES ASSUME ~crossed' PROVE Undisturbed' /\ PendingIsScheduled'
  BY DEF Undisturbed, PendingIsScheduled
<1>1. ~crossed /\ UNCHANGED put
  BY CrossedStays DEF IInv, Load, Check, DropRow, Chunk, MarkInProgress, Remove, Fail
<1>2. CASE Fail(w)
  <2>1. PICK next \in {"free", "queued"} : Goto(w, next)
    BY <1>2 DEF Fail
  <2>2. UNCHANGED <<status, row>>
        /\ \A v \in Worker : pc'[v] = pc[v] \/ pc'[v] \in {"free", "queued"}
    BY <1>2, <2>1, GotoType DEF Fail, organization, Stage, IInv
  <2> QED
    BY <1>1, <2>2 DEF IInv, Undisturbed, PendingIsScheduled, Dropping, Deleting
<1>4. CASE Load(w) \/ Check(w) \/ Chunk(w)
  <2>1. UNCHANGED <<status, row>>
    BY <1>4 DEF Load, Check, Chunk, organization
  <2>2. PICK next \in Stage :
           /\ Goto(w, next)
           /\ next \in {"abort", "finish"} => status \notin Pending
           /\ next \in {"chunk", "mark", "remove"} => status # "ACTIVE"
    BY <1>1, <1>4 DEF Load, Check, Chunk, Stage, ShouldProceed, Pending, IInv, Undisturbed, Deleting
  <2>3. \A v \in Worker : pc'[v] = IF v = w THEN next ELSE pc[v]
    BY <2>2, GotoType DEF IInv
  <2> QED
    BY <1>1, <1>4, <2>1, <2>2, <2>3 DEF IInv, Undisturbed, PendingIsScheduled, Dropping, Deleting
<1>5. CASE DropRow(w)
  <2>1. UNCHANGED status /\ status \notin Pending
        /\ \A v \in Worker : pc'[v] = IF v = w THEN "free" ELSE pc[v]
    BY <1>1, <1>5, GotoType DEF DropRow, Dropping, Stage, IInv, Undisturbed
  <2> QED
    BY <1>1, <1>5, <2>1 DEF IInv, Undisturbed, PendingIsScheduled, Dropping, Deleting
<1>6. CASE MarkInProgress(w)
  <2>1. status # "ACTIVE" /\ row' = row
        /\ \A v \in Worker : pc'[v] = IF v = w THEN (IF status = "GONE" THEN "free" ELSE "remove")
                                                ELSE pc[v]
    BY <1>1, <1>6, GotoType DEF MarkInProgress, Stage, IInv, Undisturbed, Deleting
  <2>2. (status = "GONE" /\ status' = "GONE")
        \/ (status \in Pending /\ status' = "DELETION_IN_PROGRESS")
    BY <1>6, <2>1 DEF MarkInProgress, IInv, TypeOK, Status
  <2> QED
    BY <1>1, <1>6, <2>1, <2>2 DEF IInv, Undisturbed, PendingIsScheduled, Dropping, Deleting, Pending
<1>7. CASE Remove(w)
  <2>1. status' = "GONE" /\ \A v \in Worker : pc'[v] = IF v = w THEN "queued" ELSE pc[v]
    BY <1>7, GotoType DEF Remove, Stage, IInv
  <2> QED
    BY <1>1, <1>7, <2>1 DEF IInv, Undisturbed, PendingIsScheduled, Dropping, Deleting, Pending
<1> QED
  BY <1>2, <1>4, <1>5, <1>6, <1>7

-----------------------------------------------------------------------------
(* Workers that share no row. *)

\* Only deletes make new ids.
LEMMA FreshStep ==
    ASSUME IInv, Next
    PROVE  Fresh'
<1>1. CASE Delete
  <2>1. UNCHANGED item /\ created' \in {created, created + 1} /\ created \in Nat
    BY <1>1, Sizes DEF Delete, workers, IInv, TypeOK
  <2>2. \A w \in Worker : item[w] \in Nat
    BY Sizes DEF IInv, TypeOK
  <2>3. row'.id <= created'
    <3>1. CASE row = NoRow
      BY <1>1, <2>1, <3>1 DEF Delete
    <3>2. CASE row # NoRow
      <4>1. row'.id = row.id /\ created' = created /\ row.id <= created
        BY <1>1, <3>2 DEF Delete, IInv, TypeOK, Fresh, Row
      <4> QED
        BY <4>1
    <3> QED
      BY <3>1, <3>2
  <2> QED
    BY <2>1, <2>2, <2>3 DEF IInv, Fresh
<1>2. ASSUME UNCHANGED created,
             row' # NoRow => row # NoRow /\ row'.id = row.id,
             \A w \in Worker : \/ item'[w] = item[w]
                               \/ item'[w] = 0
                               \/ row # NoRow /\ item'[w] = row.id
      PROVE  Fresh'
  BY <1>2, Sizes DEF IInv, TypeOK, Fresh
<1>3. CASE (\E cancel \in BOOLEAN : LoadPut(cancel)) \/ SavePut \/ FindRow \/ FailPut
  BY <1>2, <1>3 DEF LoadPut, SavePut, FindRow, FailPut, organization, workers
<1>4. CASE CancelRow \/ TimePasses \/ Reattempt
  BY <1>2, <1>4 DEF CancelRow, TimePasses, Reattempt, Without, workers, IInv, TypeOK, Row
<1>5. ASSUME NEW w \in Worker, FindDue(w) \/ Claim(w) PROVE Fresh'
  BY <1>2, <1>5 DEF FindDue, Claim, Claimable, organization, IInv, TypeOK, Row
<1>6. ASSUME NEW w \in Worker,
             Load(w) \/ Check(w) \/ DropRow(w) \/ Chunk(w) \/ MarkInProgress(w) \/ Remove(w) \/ Fail(w)
      PROVE  Fresh'
  <2>1. UNCHANGED created /\ (row' = row \/ row' = Without(item[w]))
    BY <1>6 DEF Load, Check, DropRow, Chunk, MarkInProgress, Remove, Fail, organization
  <2>2. \E next \in Stage : Goto(w, next)
    BY <1>6 DEF Load, Check, DropRow, Chunk, MarkInProgress, Remove, Fail, Stage
  <2>3. \A v \in Worker : item'[v] = item[v] \/ item'[v] = 0
    BY <2>2, GotoType DEF IInv
  <2> QED
    BY <1>2, <2>1, <2>3 DEF Without
<1> QED
  BY <1>1, <1>3, <1>4, <1>5, <1>6 DEF Next, Run

\* Steps that claim no row and release none.
LEMMA ExclusiveKept ==
    ASSUME IInv, Next, UNCHANGED reattempted,
           \A w \in Worker : Claimed(w)' => Claimed(w) /\ item'[w] = item[w],
           row' # NoRow => row # NoRow /\ row'.id = row.id /\ row'.in_progress = row.in_progress,
           ~crossed' => \A w \in Worker : Running(w)' =>
              \/ row' # NoRow /\ row'.id = item'[w]
              \/ Running(w) /\ (row' = NoRow => row = NoRow)
    PROVE  Exclusive'
<1>1. ~crossed' => ~crossed
  BY CrossedStays DEF IInv
<1>2. \A w \in Worker : Running(w)' => Claimed(w)'
  BY DEF Running, Claimed
<1> QED
  BY <1>1, <1>2 DEF IInv, Exclusive

\* A worker that is past its claim keeps its row or loses it for good.
LEMMA ExclusiveStep ==
    ASSUME IInv, Next
    PROVE  Exclusive'
<1>1. CASE Delete
  <2>1. UNCHANGED <<pc, item, reattempted>>
    BY <1>1 DEF Delete, workers
  <2>2. ~crossed' => ~crossed
    BY CrossedStays DEF IInv
  <2>3. CASE row # NoRow
    <3>1. row'.id = row.id /\ row'.in_progress = row.in_progress
      BY <1>1, <2>3 DEF Delete, IInv, TypeOK, Row
    <3>2. row' # NoRow
      <4>1. row' \in Row
        BY <1>1, <2>3 DEF Delete, DelayedAge, IInv, TypeOK, Row
      <4> QED
        BY <4>1, NoRowAssumption
    <3> QED
      BY <2>1, <2>2, <2>3, <3>1, <3>2 DEF IInv, Exclusive, Claimed, Running
  <2>4. CASE row = NoRow
    <3>1. row'.id = created + 1 /\ \A w \in Worker : item[w] < created + 1 /\ item[w] # created + 1
      BY <1>1, <2>4, Sizes DEF Delete, IInv, TypeOK, Fresh
    <3>2. ~reattempted /\ ~crossed => \A w \in Worker : ~Running(w)
      BY <2>4 DEF IInv, Exclusive
    <3> QED
      BY <2>1, <2>2, <3>1, <3>2 DEF IInv, Exclusive, Claimed, Running
  <2> QED
    BY <2>3, <2>4
<1>2. CASE (\E cancel \in BOOLEAN : LoadPut(cancel)) \/ SavePut \/ FindRow \/ FailPut
  <2>1. UNCHANGED <<row, pc, item, reattempted>>
    BY <1>2 DEF LoadPut, SavePut, FindRow, FailPut, organization, workers
  <2> QED
    BY <2>1, ExclusiveKept DEF Claimed, Running
<1>3. CASE CancelRow
  <2>1. UNCHANGED <<pc, item, reattempted>> /\ (row' = row \/ (row' = NoRow /\ row.id = put.id))
    BY <1>3 DEF CancelRow, workers, Without
  <2>2. ~crossed' => \A w \in Worker : Running(w) => item[w] # put.id
    BY <1>3 DEF CancelRow, Running, IInv, TypeOK
  <2>3. ~crossed' => ~crossed
    BY CrossedStays DEF IInv
  <2> QED
    BY <2>1, <2>2, <2>3 DEF IInv, Exclusive, Claimed, Running
<1>4. CASE TimePasses
  <2>1. UNCHANGED <<pc, item, reattempted>>
        /\ row # NoRow /\ row'.id = row.id /\ row'.in_progress = row.in_progress
    BY <1>4 DEF TimePasses, workers, IInv, TypeOK, Row
  <2>2. row' # NoRow
    <3>1. row' \in Row
      BY <1>4 DEF TimePasses, IInv, TypeOK, Row
    <3> QED
      BY <3>1, NoRowAssumption
  <2> QED
    BY <2>1, <2>2, ExclusiveKept DEF Claimed, Running
<1>5. CASE Reattempt
  BY <1>5 DEF Reattempt, Exclusive
<1>6. ASSUME NEW w \in Worker, FindDue(w) PROVE Exclusive'
  <2>1. UNCHANGED <<row, reattempted>>
        /\ \A v \in Worker : Claimed(v)' => Claimed(v) /\ item'[v] = item[v] /\ pc'[v] = pc[v]
    BY <1>6 DEF FindDue, organization, Claimed, IInv, TypeOK
  <2>2. \A v \in Worker : Running(v)' => Running(v)
    BY <2>1 DEF Running, Claimed
  <2> QED
    BY <2>1, <2>2, ExclusiveKept
<1>7. ASSUME NEW w \in Worker, Claim(w) PROVE Exclusive'
  <2>1. CASE ~Claimable(w)
    <3>1. UNCHANGED <<row, reattempted>>
          /\ \A v \in Worker : Claimed(v)' => Claimed(v) /\ item'[v] = item[v] /\ pc'[v] = pc[v]
      BY <1>7, <2>1 DEF Claim, Claimed, IInv, TypeOK
    <3>2. \A v \in Worker : Running(v)' => Running(v)
      BY <3>1 DEF Running, Claimed
    <3> QED
      BY <3>1, <3>2, ExclusiveKept
  <2>2. CASE Claimable(w)
    <3>1. UNCHANGED <<item, reattempted, crossed>> /\ row # NoRow /\ row.id = item[w]
          /\ ~row.in_progress /\ row' = [row EXCEPT !.in_progress = TRUE]
          /\ \A v \in Worker : pc'[v] = IF v = w THEN "queued" ELSE pc[v]
      BY <1>7, <2>2 DEF Claim, Claimable, IInv, TypeOK
    <3>2. row \in Row /\ row' \in Row /\ row'.id = row.id /\ row'.in_progress
      BY <3>1 DEF IInv, TypeOK, Row
    <3>3. row' # NoRow
      BY <3>2, NoRowAssumption
    <3>4. ~reattempted => \A v \in Worker : Claimed(v) => item[v] # item[w]
      BY <3>1 DEF IInv, Exclusive
    <3> QED
      BY <3>1, <3>2, <3>3, <3>4 DEF IInv, Exclusive, Claimed, Running
  <2> QED
    BY <2>1, <2>2
<1>8. ASSUME NEW w \in Worker,
             Load(w) \/ Check(w) \/ Chunk(w) \/ MarkInProgress(w) \/ Remove(w) \/ Fail(w)
      PROVE  Exclusive'
  <2>1. UNCHANGED <<row, reattempted>>
    BY <1>8 DEF Load, Check, Chunk, MarkInProgress, Remove, Fail, organization
  <2>2. PICK next \in Stage :
           /\ Goto(w, next)
           /\ next # "claim"
           /\ Claimed(w)
           /\ next \notin {"free", "queued"} => Running(w) \/ (row # NoRow /\ row.id = item[w])
    BY <1>8 DEF Load, Check, Chunk, MarkInProgress, Remove, Fail, Stage, Claimed, Running
  <2>3. \A v \in Worker : /\ v # w => pc'[v] = pc[v] /\ item'[v] = item[v]
                          /\ v = w => pc'[v] = next /\ (next # "free" => item'[v] = item[v])
    BY <2>2, GotoType DEF IInv
  <2> QED
    BY <2>1, <2>2, <2>3, ExclusiveKept DEF Claimed, Running
<1>9. ASSUME NEW w \in Worker, DropRow(w) PROVE Exclusive'
  <2>1. UNCHANGED <<reattempted, crossed>> /\ (row' = row \/ row' = NoRow)
        /\ Claimed(w) /\ Running(w)
    BY <1>9 DEF DropRow, Dropping, Without, Claimed, Running
  <2>2. \A v \in Worker : /\ v # w => pc'[v] = pc[v] /\ item'[v] = item[v]
                          /\ v = w => pc'[v] = "free"
    BY <1>9, GotoType DEF DropRow, Stage, IInv
  <2>3. ~reattempted /\ ~crossed => \A v \in Worker : Running(v)' => FALSE
    BY <2>1, <2>2 DEF IInv, Exclusive, Claimed, Running
  <2> QED
    BY <2>1, <2>2, <2>3 DEF IInv, Exclusive, Claimed, Running
<1> QED
  BY <1>1, <1>2, <1>3, <1>4, <1>5, <1>6, <1>7, <1>8, <1>9 DEF Next, Run

-----------------------------------------------------------------------------
LEMMA NextHolds == IInv /\ [Next]_vars => IInv'
<1> SUFFICES ASSUME IInv, [Next]_vars PROVE IInv'
  OBVIOUS
<1>1. TypeOK'
  BY TypeStep DEF IInv
<1>2. CASE Next
  <2>1. Undisturbed' /\ PendingIsScheduled'
    BY <1>2, RequestStep, ScheduleStep, TaskStep DEF Next, Run
  <2> QED
    BY <1>1, <1>2, <2>1, FoundStep, FreshStep, ExclusiveStep DEF IInv
<1>3. CASE UNCHANGED vars
  <2>1. UNCHANGED <<status, row, created, put, pc, item, reattempted, crossed>>
    BY <1>3 DEF vars, organization, workers
  <2> QED
    BY <1>1, <2>1 DEF IInv, Undisturbed, PendingIsScheduled, Exclusive, Fresh, Found, Dropping,
       Deleting, Running, Claimed
<1> QED
  BY <1>2, <1>3

\* The inductive invariant: what a worker or a request saw is still true until
\* they meet, and nobody shares a claimed row (scheduled.py).
THEOREM Invariance == Spec => []IInv
<1>1. Init => IInv
  BY InitHolds
<1>2. IInv /\ [Next]_vars => IInv'
  BY NextHolds
<1> QED
  BY <1>1, <1>2, PTL DEF Spec

\* Every variable keeps its type; the status is one of those that deletions use.
THEOREM TypeCorrect == Spec => []TypeOK
<1>1. Init => TypeOK
  BY InitHolds DEF IInv
<1>2. TypeOK /\ [Next]_vars => TypeOK'
  BY TypeStep
<1> QED
  BY <1>1, <1>2, PTL DEF Spec

\* Until an edit keeps a pending organization pending, or one is deleted again
\* just before its old row goes, or one of the other meetings of crossed
\* happens, an organization that is to be deleted keeps its scheduled deletion.
THEOREM StaysScheduled == Spec => []PendingIsScheduled
<1>1. IInv => PendingIsScheduled
  BY DEF IInv
<1>2. Spec => []IInv
  BY Invariance
<1> QED
  BY <1>1, <1>2, PTL

\* The deletion of an organization is run by one task at a time until one is
\* given up for dead after a day or a meeting of crossed happens.
THEOREM OneAtATime == Spec => []OneTaskWorks
<1>1. IInv => OneTaskWorks
  <2> SUFFICES ASSUME IInv, ~reattempted, ~crossed
               PROVE  Cardinality({w \in Worker : Deleting(w)}) <= 1
    BY DEF OneTaskWorks
  <2> DEFINE S == {w \in Worker : Deleting(w)}
  <2>1. \A v, w \in S : v = w
    BY DEF IInv, Exclusive, Claimed, Running, Deleting
  <2>2. CASE S = {}
    BY <2>2, FS_EmptySet
  <2>3. CASE S # {}
    <3>1. PICK w \in S : S = {w}
      BY <2>1, <2>3
    <3> QED
      BY <3>1, FS_Singleton
  <2> QED
    BY <2>2, <2>3
<1>2. Spec => []IInv
  BY Invariance
<1> QED
  BY <1>1, <1>2, PTL

\* An organization that was restored is not deleted by what is left of its
\* deletion, also when restoring could not cancel a row in progress, unless a
\* task had already decided to delete it or another meeting of crossed happened.
THEOREM StaysRestored == Spec => RestoredIsKept
<1>1. IInv /\ [Next]_vars
      => [status = "ACTIVE" /\ ~crossed' => status' \in {"ACTIVE", "PENDING_DELETION"}]_vars
  <2> SUFFICES ASSUME IInv, Next, status = "ACTIVE", ~crossed'
               PROVE  status' \in {"ACTIVE", "PENDING_DELETION"}
    OBVIOUS
  <2>1. ~crossed
    BY CrossedStays DEF IInv
  <2>2. CASE SavePut
    BY <2>2 DEF SavePut, IInv, TypeOK, Status, Found, Put
  <2>3. ASSUME NEW w \in Worker, MarkInProgress(w) \/ Remove(w) PROVE FALSE
    BY <2>1, <2>3 DEF MarkInProgress, Remove, IInv, Undisturbed, Deleting
  <2> QED
    BY <2>2, <2>3 DEF Next, Run, Delete, LoadPut, FindRow, CancelRow, FailPut, TimePasses, Reattempt,
       FindDue, Claim, Load, Check, DropRow, Chunk, Fail, organization
<1>2. Spec => []IInv
  BY Invariance
<1> QED
  BY <1>1, <1>2, PTL DEF Spec, RestoredIsKept
=============================================================================
