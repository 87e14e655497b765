----------------------- MODULE TombstoneCascadeProofs -----------------------
(***************************************************************************)
(* Theorems about TombstoneCascade, for any objects, rows, tombstones,     *)
(* batches and numbers of overlapping tasks.                               *)
(*                                                                         *)
(* An id is behind a pass once the watermark has passed it, or once a task *)
(* that has not moved the watermark yet is sure to pass it without         *)
(* touching the orphan.  An orphan is never behind both passes: whichever  *)
(* of its row and its tombstone came last was ahead of every task then,    *)
(* and a task that reaches it there finds the orphan.  A row that was      *)
(* given its object later is an orphan only if a pass was not yet past it. *)
(***************************************************************************)
EXTENDS TombstoneCascade, Extrema, TLAPS

\* The ids a watermark may have reached.
Given(k) == IF k = "row" THEN rowIds ELSE Tombstones
Within(i, all) == i <= 0 \/ \E j \in all : i <= j

\* No watermark and no batch is beyond the last id.
Reached ==
    /\ \A k \in Kind : Within(mark[k], Given(k))
    /\ \A w \in Worker : Within(low[w], Given(kind[w])) /\ Within(up[w], Given(kind[w]))

\* Tombstones are of objects that are gone.
Dead == \A t \in TombstoneId : tomb[t] \notin alive

\* The task of w is past id i of kind k and will leave row r as it is.
Passed(w, k, i, r) ==
    /\ kind[w] = k
    /\ \/ i <= low[w]
       \/ /\ i <= up[w]
          /\ pc[w] = "save" \/ (pc[w] = "apply" /\ r \notin ids[w])

Behind(k, i, r) == i <= mark[k] \/ \E w \in Worker : Passed(w, k, i, r)

\* An orphan that the tombstones' pass is past or sure to pass is in what the
\* rows' pass has read.
SeenRows ==
    \A w \in Worker, r \in RowId, t \in TombstoneId :
        /\ pc[w] = "match" /\ kind[w] = "row"
        /\ Orphan(r, t) /\ low[w] < r /\ r <= up[w]
        => <<r, row[r]>> \in seen[w] \/ ~Behind("tombstone", t, r)

\* The tombstones' pass has read all of its batch.
SeenTombstones ==
    \A w \in Worker, t \in TombstoneId :
        /\ pc[w] = "match" /\ kind[w] = "tombstone"
        /\ tomb[t] # Absent /\ t \notin late["tombstone"]
        /\ low[w] < t /\ t <= up[w]
        => tomb[t] \in seen[w]

Ahead ==
    \A r \in RowId, t \in TombstoneId :
        Orphan(r, t) => ~Behind("row", r, r) \/ ~Behind("tombstone", t, r)

\* A row that w has found for the cascade refers to no living object, unless
\* the application has moved it since.
Doomed(w, r) ==
    /\ r \in rowIds
    /\ \/ r \in moved[w]
       \/ row[r] \notin alive \cup {Null}
       \/ onDelete # "CASCADE" /\ row[r] = Null

\* What the first of two queries found is still there, has been moved or is gone.
Noted(w, r, o) ==
    /\ r \in rowIds
    /\ \/ r \in moved[w]
       \/ row[r] \in {o, Absent}
       \/ onDelete # "CASCADE" /\ row[r] = Null

Found ==
    \A w \in Worker :
        /\ \A r \in ids[w] : Doomed(w, r)
        /\ pc[w] = "match" /\ kind[w] = "row" =>
              \A r \in RowId, o \in Object : <<r, o>> \in seen[w] => Noted(w, r, o)
        /\ pc[w] = "match" /\ kind[w] = "tombstone" => seen[w] \subseteq Object \ alive

IInv ==
    /\ TypeOK /\ Reached /\ Dead /\ SeenTombstones /\ Found
    /\ onDelete # "DO_NOTHING" => SeenRows /\ Ahead

-----------------------------------------------------------------------------
(* Types. *)

LEMMA Ranges ==
    /\ RowId \subseteq Nat \ {0} /\ TombstoneId \subseteq Nat \ {0}
    /\ MaxRow \in Nat /\ MaxTombstone \in Nat /\ MaxFaults \in Nat
    /\ BatchSize \in Nat \ {0}
    /\ Null \notin Object /\ Absent \notin Object /\ Null # Absent
BY BoundAssumption, SizeAssumption, ObjectAssumption DEF RowId, TombstoneId

LEMMA InitHolds == Init => IInv
<1> SUFFICES ASSUME Init PROVE IInv
  OBVIOUS
<1> USE Ranges, SetupAssumption
<1>1. TypeOK
  BY DEF Init, TypeOK, Kind, Rows, Missing
<1>2. Reached
  BY DEF Init, Reached, Within, Kind, Missing
<1>3. Dead
  BY DEF Init, Dead
<1>4. SeenTombstones /\ SeenRows
  BY DEF Init, SeenTombstones, SeenRows
<1>5. Ahead
  BY DEF Init, Ahead, Orphan
<1>6. Found
  BY DEF Init, Found
<1> QED
  BY <1>1, <1>2, <1>3, <1>4, <1>5, <1>6 DEF IInv

\* What a worker remembers has its types.
Remembered ==
    /\ pc \in [Worker -> {"idle", "mark", "init", "bounds", "query", "match", "apply", "save"}]
    /\ kind \in [Worker -> Kind]
    /\ low \in [Worker -> Nat]
    /\ up \in [Worker -> Nat]
    /\ more \in [Worker -> BOOLEAN]
    /\ seen \in [Worker -> (SUBSET (RowId \X (Object \cup {Null}))) \cup SUBSET Object]
    /\ ids \in [Worker -> SUBSET RowId]
    /\ moved \in [Worker -> SUBSET RowId]

\* A step of w does not touch the other workers.
Others(w) ==
    \A v \in Worker : v # w =>
        /\ pc'[v] = pc[v] /\ kind'[v] = kind[v] /\ low'[v] = low[v] /\ up'[v] = up[v]
        /\ seen'[v] = seen[v] /\ ids'[v] = ids[v] /\ moved'[v] = moved[v]

\* w is about to begin a pass or is without work.
Restarted(w) ==
    /\ pc'[w] \in {"idle", "mark"}
    /\ kind'[w] \in Kind
    /\ low'[w] = 0 /\ up'[w] = 0
    /\ seen'[w] = {} /\ ids'[w] = {}

LEMMA ForgetDoes ==
    ASSUME TypeOK, NEW w \in Worker, Forget(w)
    PROVE  /\ seen' \in [Worker -> (SUBSET (RowId \X (Object \cup {Null}))) \cup SUBSET Object]
           /\ ids' \in [Worker -> SUBSET RowId]
           /\ moved' \in [Worker -> SUBSET RowId]
           /\ seen'[w] = {} /\ ids'[w] = {}
           /\ \A v \in Worker : v # w => seen'[v] = seen[v] /\ ids'[v] = ids[v] /\ moved'[v] = moved[v]
           /\ late' = late /\ strayed' = strayed
<1>1. seen' = [seen EXCEPT ![w] = {}] /\ ids' = [ids EXCEPT ![w] = {}] /\ moved' = [moved EXCEPT ![w] = {}]
  BY DEF Forget
<1>2. {} \in (SUBSET (RowId \X (Object \cup {Null}))) \cup SUBSET Object /\ {} \in SUBSET RowId
  OBVIOUS
<1>3. seen' \in [Worker -> (SUBSET (RowId \X (Object \cup {Null}))) \cup SUBSET Object]
  BY <1>1, <1>2 DEF TypeOK
<1>4. ids' \in [Worker -> SUBSET RowId] /\ moved' \in [Worker -> SUBSET RowId]
  BY <1>1, <1>2 DEF TypeOK
<1> QED
  BY <1>1, <1>3, <1>4 DEF TypeOK, Forget

LEMMA RestartDoes ==
    ASSUME TypeOK, NEW w \in Worker, NEW p \in {"idle", "mark"}, NEW k \in Kind, Restart(w, p, k)
    PROVE  Remembered' /\ Others(w) /\ Restarted(w) /\ late' = late /\ strayed' = strayed
<1>1. /\ pc' = [pc EXCEPT ![w] = p] /\ kind' = [kind EXCEPT ![w] = k]
      /\ low' = [low EXCEPT ![w] = 0] /\ up' = [up EXCEPT ![w] = 0]
      /\ more' = [more EXCEPT ![w] = FALSE]
      /\ Forget(w)
  BY DEF Restart
<1>2. /\ seen' \in [Worker -> (SUBSET (RowId \X (Object \cup {Null}))) \cup SUBSET Object]
      /\ ids' \in [Worker -> SUBSET RowId] /\ moved' \in [Worker -> SUBSET RowId]
      /\ seen'[w] = {} /\ ids'[w] = {}
      /\ \A v \in Worker : v # w => seen'[v] = seen[v] /\ ids'[v] = ids[v] /\ moved'[v] = moved[v]
      /\ late' = late /\ strayed' = strayed
  BY <1>1, ForgetDoes
<1>3. Remembered'
  BY <1>1, <1>2 DEF TypeOK, Remembered
<1> QED
  BY <1>1, <1>2, <1>3 DEF TypeOK, Others, Restarted

LEMMA EndPassRestarts ==
    ASSUME TypeOK, NEW w \in Worker, NEW m, EndPass(w, m)
    PROVE  Remembered' /\ Others(w) /\ Restarted(w) /\ late' = late /\ strayed' = strayed
<1>1. Restart(w, "mark", "tombstone") \/ Restart(w, "idle", "row")
  BY DEF EndPass
<1> QED
  BY <1>1, RestartDoes DEF Kind

\* A pass begins at its watermark, or at 0 if there is none.
LEMMA MarkDoes ==
    ASSUME TypeOK, NEW w \in Worker, ReadMark(w) \/ InitMark(w)
    PROVE  /\ Remembered' /\ Others(w)
           /\ pc'[w] \in {"init", "bounds"}
           /\ kind'[w] = kind[w] /\ up'[w] = up[w] /\ ids'[w] = ids[w] /\ moved'[w] = moved[w]
           /\ low'[w] \in {low[w], mark[kind[w]]}
           /\ mark' \in [Kind -> Nat \cup {Missing}]
           /\ \A k \in Kind : mark'[k] \in {mark[k], 0}
<1>1. CASE ReadMark(w)
  <2>1. kind[w] \in Kind
    BY DEF TypeOK
  <2>2. /\ kind' = kind /\ up' = up /\ more' = more /\ seen' = seen /\ ids' = ids /\ moved' = moved
        /\ mark' = mark
    BY <1>1 DEF ReadMark, found, history
  <2>3. CASE mark[kind[w]] = Missing
    <3>1. pc' = [pc EXCEPT ![w] = "init"] /\ low' = low
      BY <1>1, <2>3 DEF ReadMark
    <3>2. Remembered'
      BY <2>2, <3>1 DEF TypeOK, Remembered
    <3> QED
      BY <2>2, <3>1, <3>2 DEF TypeOK, Others
  <2>4. CASE mark[kind[w]] # Missing
    <3>1. pc' = [pc EXCEPT ![w] = "bounds"] /\ low' = [low EXCEPT ![w] = mark[kind[w]]]
      BY <1>1, <2>4 DEF ReadMark
    <3>2. mark[kind[w]] \in Nat
      BY <2>1, <2>4 DEF TypeOK
    <3>3. Remembered'
      BY <2>2, <3>1, <3>2 DEF TypeOK, Remembered
    <3> QED
      BY <2>2, <3>1, <3>3 DEF TypeOK, Others
  <2> QED
    BY <2>3, <2>4
<1>2. CASE InitMark(w)
  <2>1. /\ pc' = [pc EXCEPT ![w] = "bounds"] /\ mark' = [mark EXCEPT ![kind[w]] = 0]
        /\ kind' = kind /\ low' = low /\ up' = up /\ more' = more
        /\ seen' = seen /\ ids' = ids /\ moved' = moved
    BY <1>2 DEF InitMark, batch, found, history
  <2>2. Remembered'
    BY <2>1 DEF TypeOK, Remembered
  <2>3. mark' \in [Kind -> Nat \cup {Missing}] /\ \A k \in Kind : mark'[k] \in {mark[k], 0}
    BY <2>1 DEF TypeOK
  <2> QED
    BY <2>1, <2>2, <2>3 DEF TypeOK, Others
<1> QED
  BY <1>1, <1>2

\* The bounds of the next batch.
LEMMA BoundsAre ==
    ASSUME TypeOK, Reached, NEW w \in Worker, Bounds(w)
    PROVE  /\ Remembered' /\ Others(w) /\ late' = late /\ strayed' = strayed
           /\ \/ Restarted(w)
              \/ /\ pc'[w] = "query" /\ kind'[w] = kind[w]
                 /\ ids'[w] = ids[w] /\ moved'[w] = moved[w]
                 /\ Within(low'[w], Given(kind[w])) /\ Within(up'[w], Given(kind[w]))
                 /\ low'[w] = low[w] \/ \A i \in Existing(kind[w]) : low'[w] < i
<1> DEFINE all == Existing(kind[w])
           upper == IF all = {} THEN 0 ELSE Max(all)
           lower == IF low[w] = 0 THEN Lowest(all) ELSE low[w]
           end == Min({upper, lower + BatchSize})
<1>1. all \subseteq Given(kind[w]) /\ all \in SUBSET Nat /\ kind[w] \in Kind
  BY Ranges DEF TypeOK, Existing, Given, Rows, Tombstones, Kind
<1>2. \E n \in Nat : all \in SUBSET (0..n)
  BY Ranges DEF Existing, Rows, Tombstones, RowId, TombstoneId
<1>3. upper \in Nat /\ Within(upper, Given(kind[w]))
  <2>1. CASE all = {}
    BY <2>1 DEF Within
  <2>2. CASE all # {}
    <3>1. Max(all) \in all
      BY <1>2, <2>2, MaxIs
    <3> QED
      BY <1>1, <2>2, <3>1 DEF Within
  <2> QED
    BY <2>1, <2>2
<1>4. /\ Lowest(all) \in Nat /\ Within(Lowest(all), Given(kind[w]))
      /\ \A i \in all : Lowest(all) < i
  <2>1. CASE all = {}
    BY <2>1 DEF Within, Lowest
  <2>2. CASE all # {}
    <3>1. Min(all) \in all /\ \A i \in all : Min(all) <= i
      BY <1>1, <2>2, MinIs
    <3>2. Min(all) \in Nat \ {0}
      BY <3>1, Ranges DEF Existing, Rows, Tombstones
    <3>3. Lowest(all) = Min(all) - 1
      BY <2>2 DEF Lowest
    <3>4. Min(all) - 1 <= Min(all) /\ Min(all) \in Given(kind[w])
      BY <1>1, <3>1, <3>2
    <3> HIDE DEF all
    <3> QED
      BY <1>1, <3>1, <3>2, <3>3, <3>4 DEF Within
  <2> QED
    BY <2>1, <2>2
<1>5. lower \in Nat /\ Within(lower, Given(kind[w]))
  BY <1>4 DEF TypeOK, Reached
<1>6. end \in Nat /\ end <= upper
  <2> HIDE DEF upper, lower
  <2>1. {upper, lower + BatchSize} \in SUBSET Nat
    BY <1>3, <1>5, Ranges
  <2> QED
    BY <2>1, MinIs
<1>7. Within(end, Given(kind[w]))
  <2> HIDE DEF upper, end
  <2>1. Given(kind[w]) \in SUBSET Nat
    BY Ranges DEF TypeOK, Given, Tombstones
  <2> QED
    BY <1>3, <1>6, <2>1 DEF Within
<1>8. CASE lower < end
  <2> HIDE DEF upper, lower, end
  <2>1. /\ pc' = [pc EXCEPT ![w] = "query"]
        /\ low' = [low EXCEPT ![w] = lower]
        /\ up' = [up EXCEPT ![w] = end]
        /\ more' = [more EXCEPT ![w] = end < upper]
        /\ kind' = kind /\ seen' = seen /\ ids' = ids
        /\ late' = late /\ moved' = moved /\ strayed' = strayed
    BY <1>8 DEF Bounds, found, history, upper, lower, end
  <2>2. Remembered'
    BY <1>5, <1>6, <2>1 DEF TypeOK, Remembered
  <2>3. Others(w)
    BY <2>1 DEF TypeOK, Others
  <2>4. pc'[w] = "query" /\ low'[w] = lower /\ up'[w] = end
    BY <2>1 DEF TypeOK
  <2>5. lower = low[w] \/ \A i \in Existing(kind[w]) : lower < i
    BY <1>4 DEF lower
  <2> QED
    BY <1>5, <1>7, <2>1, <2>2, <2>3, <2>4, <2>5
<1>9. CASE ~(lower < end)
  <2>1. EndPass(w, end < upper)
    BY <1>9 DEF Bounds
  <2> QED
    BY <2>1, EndPassRestarts
<1> QED
  BY <1>8, <1>9

LEMMA QueryDoes ==
    ASSUME TypeOK, NEW w \in Worker, Join(w) \/ QueryBatch(w) \/ Match(w)
    PROVE  Remembered' /\ Others(w) /\ moved'[w] = moved[w]
<1>1. CASE Join(w)
  <2>1. {r \in RowsInBatch(w) : \E t \in TombstonesInBatch(w) : row[r] = tomb[t]} \in SUBSET RowId
    BY DEF RowsInBatch, Rows
  <2>2. Remembered'
    BY <1>1, <2>1 DEF TypeOK, Join, Remembered, batch, history
  <2> QED
    BY <1>1, <2>2 DEF TypeOK, Join, Others, batch, history
<1>2. CASE QueryBatch(w)
  <2> DEFINE new == IF kind[w] = "row" THEN {<<r, row[r]>> : r \in RowsInBatch(w)}
                                       ELSE {tomb[t] : t \in TombstonesInBatch(w)}
  <2>1. \A r \in RowsInBatch(w) : r \in RowId /\ row[r] \in Object \cup {Null}
    BY DEF TypeOK, RowsInBatch, Rows
  <2>2. \A t \in TombstonesInBatch(w) : tomb[t] \in Object
    BY DEF TypeOK, TombstonesInBatch, Tombstones
  <2>3. new \in (SUBSET (RowId \X (Object \cup {Null}))) \cup SUBSET Object
    <3>1. CASE kind[w] = "row"
      <4>1. {<<r, row[r]>> : r \in RowsInBatch(w)} \in SUBSET (RowId \X (Object \cup {Null}))
        BY <2>1
      <4>2. new = {<<r, row[r]>> : r \in RowsInBatch(w)}
        BY <3>1
      <4> QED
        BY <4>1, <4>2
    <3>2. CASE kind[w] # "row"
      <4>1. new = {tomb[t] : t \in TombstonesInBatch(w)}
        BY <3>2
      <4>2. new \in SUBSET Object
        BY <2>2, <4>1
      <4> HIDE DEF new
      <4> QED
        BY <4>2
    <3> QED
      BY <3>1, <3>2
  <2>4. seen' = [seen EXCEPT ![w] = new]
    BY <1>2 DEF QueryBatch
  <2> HIDE DEF new
  <2>5. Remembered'
    BY <1>2, <2>3, <2>4 DEF TypeOK, QueryBatch, Remembered, batch, history
  <2> QED
    BY <1>2, <2>4, <2>5 DEF TypeOK, QueryBatch, Others, batch, history
<1>3. CASE Match(w)
  <2> DEFINE new == IF kind[w] = "row"
                    THEN {r \in RowId : \E t \in Tombstones : <<r, tomb[t]>> \in seen[w]}
                    ELSE {r \in Rows : row[r] \in seen[w]}
  <2>1. new \in SUBSET RowId
    BY DEF Rows
  <2>2. ids' = [ids EXCEPT ![w] = new] /\ seen' = [seen EXCEPT ![w] = {}]
    BY <1>3 DEF Match
  <2>3. {} \in (SUBSET (RowId \X (Object \cup {Null}))) \cup SUBSET Object
    OBVIOUS
  <2> HIDE DEF new
  <2>4. seen' \in [Worker -> (SUBSET (RowId \X (Object \cup {Null}))) \cup SUBSET Object]
    BY <2>2, <2>3 DEF TypeOK
  <2>5. Remembered'
    BY <1>3, <2>1, <2>2, <2>4 DEF TypeOK, Match, Remembered, batch, history
  <2> QED
    BY <1>3, <2>2, <2>5 DEF TypeOK, Match, Others, batch, history
<1> QED
  BY <1>1, <1>2, <1>3

\* The last steps of a batch take rows only, and only those that were found.
Cleans(w) ==
    /\ pc'[w] # pc[w]
    /\ row' \in [RowId -> Object \cup {Null, Absent}]
    /\ \A r \in RowId : row'[r] # row[r] =>
          /\ r \in ids[w] /\ row[r] # Absent
          /\ row'[r] = IF onDelete = "CASCADE" THEN Absent ELSE Null

LEMMA CleanDoes ==
    ASSUME TypeOK, NEW w \in Worker, DeleteChunk(w) \/ Update(w)
    PROVE  /\ Remembered' /\ Others(w) /\ Cleans(w)
           /\ late' = late /\ strayed' = strayed
           /\ ids'[w] = {} /\ seen'[w] = {}
           /\ \/ Restarted(w)
              \/ /\ pc'[w] = "save" /\ kind'[w] = kind[w]
                 /\ low'[w] = low[w] /\ up'[w] = up[w]
                 /\ onDelete # "DO_NOTHING" =>
                       \A r \in ids[w] : row'[r] \in {Null, Absent}
<1>a. ASSUME pc' = [pc EXCEPT ![w] = "save"], Forget(w), UNCHANGED <<kind, batch>>
      PROVE  /\ Remembered' /\ Others(w) /\ late' = late /\ strayed' = strayed
             /\ ids'[w] = {} /\ seen'[w] = {}
             /\ pc'[w] = "save" /\ kind'[w] = kind[w] /\ low'[w] = low[w] /\ up'[w] = up[w]
  <2>1. /\ seen' \in [Worker -> (SUBSET (RowId \X (Object \cup {Null}))) \cup SUBSET Object]
        /\ ids' \in [Worker -> SUBSET RowId] /\ moved' \in [Worker -> SUBSET RowId]
        /\ seen'[w] = {} /\ ids'[w] = {}
        /\ \A v \in Worker : v # w => seen'[v] = seen[v] /\ ids'[v] = ids[v] /\ moved'[v] = moved[v]
        /\ late' = late /\ strayed' = strayed
    BY <1>a, ForgetDoes
  <2>2. Remembered'
    BY <1>a, <2>1 DEF TypeOK, Remembered, batch
  <2> QED
    BY <1>a, <2>1, <2>2 DEF TypeOK, Others, batch
<1>1. CASE DeleteChunk(w)
  <2>1. PICK gone \in SUBSET (ids[w] \cap Rows) :
             row' = [r \in RowId |-> IF r \in gone THEN Absent ELSE row[r]]
    BY <1>1 DEF DeleteChunk
  <2>2. ASSUME pc'[w] # "apply" PROVE Cleans(w)
    <3>1. row' \in [RowId -> Object \cup {Null, Absent}]
      BY <2>1 DEF TypeOK
    <3>2. \A r \in RowId : row'[r] # row[r] => r \in gone /\ row'[r] = Absent
      BY <2>1
    <3>3. \A r \in gone : r \in ids[w] /\ row[r] # Absent
      BY <2>1 DEF Rows
    <3>4. onDelete = "CASCADE" /\ pc[w] = "apply"
      BY <1>1 DEF DeleteChunk
    <3> QED
      BY <2>2, <3>1, <3>2, <3>3, <3>4 DEF Cleans
  <2>3. CASE ChunkDone(w)
    <3>1. pc' = [pc EXCEPT ![w] = "save"] /\ Forget(w) /\ UNCHANGED <<kind, batch>>
      BY <1>1, <2>3 DEF DeleteChunk
    <3>2. \A r \in ids[w] : row'[r] \in {Null, Absent}
      BY <2>1, <2>3 DEF TypeOK, ChunkDone, Rows
    <3> QED
      BY <1>a, <2>2, <3>1, <3>2
  <2>4. CASE ~ChunkDone(w)
    <3>1. EndPass(w, TRUE)
      BY <1>1, <2>4 DEF DeleteChunk
    <3>2. Remembered' /\ Others(w) /\ Restarted(w) /\ late' = late /\ strayed' = strayed
      BY <3>1, EndPassRestarts
    <3>3. pc'[w] # "apply" /\ ids'[w] = {} /\ seen'[w] = {}
      BY <3>2 DEF Restarted
    <3> QED
      BY <2>2, <3>2, <3>3
  <2> QED
    BY <2>3, <2>4
<1>2. CASE Update(w)
  <2>1. /\ pc' = [pc EXCEPT ![w] = "save"] /\ Forget(w) /\ UNCHANGED <<kind, batch>>
        /\ onDelete # "CASCADE" /\ pc[w] = "apply"
    BY <1>2 DEF Update
  <2>2. /\ Remembered' /\ Others(w) /\ late' = late /\ strayed' = strayed
        /\ ids'[w] = {} /\ seen'[w] = {}
        /\ pc'[w] = "save" /\ kind'[w] = kind[w] /\ low'[w] = low[w] /\ up'[w] = up[w]
    BY <1>a, <2>1
  <2>3. row' = IF onDelete = "DO_NOTHING" THEN row
               ELSE [r \in RowId |-> IF r \in ids[w] \cap Rows THEN Null ELSE row[r]]
    BY <1>2 DEF Update
  <2>4. Cleans(w)
    BY <2>1, <2>2, <2>3 DEF TypeOK, Cleans, Rows
  <2>5. onDelete # "DO_NOTHING" => \A r \in ids[w] : row'[r] \in {Null, Absent}
    BY <2>3 DEF TypeOK, Rows
  <2> QED
    BY <2>2, <2>4, <2>5
<1> QED
  BY <1>1, <1>2

LEMMA SaveDoes ==
    ASSUME TypeOK, NEW w \in Worker, SaveMark(w)
    PROVE  /\ Remembered' /\ Others(w) /\ Restarted(w) /\ late' = late /\ strayed' = strayed
           /\ mark' \in [Kind -> Nat \cup {Missing}]
           /\ \A k \in Kind : mark'[k] = IF k = kind[w] THEN up[w] ELSE mark[k]
<1>1. EndPass(w, more[w]) /\ mark' = [mark EXCEPT ![kind[w]] = up[w]]
  BY DEF SaveMark
<1>2. Remembered' /\ Others(w) /\ Restarted(w) /\ late' = late /\ strayed' = strayed
  BY <1>1, EndPassRestarts
<1>3. /\ mark' \in [Kind -> Nat \cup {Missing}]
      /\ \A k \in Kind : mark'[k] = IF k = kind[w] THEN up[w] ELSE mark[k]
  BY <1>1 DEF TypeOK
<1> QED
  BY <1>2, <1>3

LEMMA FailDoes ==
    ASSUME TypeOK, NEW w \in Worker, Refuse(w) \/ Die(w)
    PROVE  /\ Remembered' /\ Others(w) /\ Restarted(w) /\ late' = late /\ strayed' = strayed
           /\ UNCHANGED <<setup, tables, mark>> /\ faults' \in Nat
<1>1. Restart(w, "idle", "row")
  BY DEF Refuse, Die
<1> QED
  BY <1>1, RestartDoes DEF TypeOK, Refuse, Die, Kind

LEMMA LateIs ==
    ASSUME TypeOK, NEW k \in Kind, NEW i \in Nat, NEW others, LateId(k, i, others)
    PROVE  /\ late' \in [Kind -> SUBSET Nat]
           /\ \A j \in Kind : late[j] \subseteq late'[j]
           /\ i \notin late'[k] => \A j \in others : ~(i < j)
<1>1. CASE \E j \in others : i < j
  <2>1. late' = [late EXCEPT ![k] = @ \cup {i}]
    BY <1>1 DEF LateId
  <2>2. late[k] \cup {i} \in SUBSET Nat
    BY DEF TypeOK
  <2> QED
    BY <2>1, <2>2 DEF TypeOK
<1>2. CASE ~\E j \in others : i < j
  <2>1. late' = [late EXCEPT ![k] = @]
    BY <1>2 DEF LateId
  <2> QED
    BY <1>2, <2>1 DEF TypeOK
<1> QED
  BY <1>1, <1>2

LEMMA TypesNext == TypeOK /\ Reached /\ Next => TypeOK'
<1> SUFFICES ASSUME TypeOK, Reached, Next PROVE TypeOK'
  OBVIOUS
<1>a. ASSUME setup' = setup, Remembered',
             alive' \in SUBSET Object, row' \in [RowId -> Object \cup {Null, Absent}],
             tomb' \in [TombstoneId -> Object \cup {Absent}],
             rowIds' \in SUBSET RowId, Rows' \subseteq rowIds', mark' \in [Kind -> Nat \cup {Missing}],
             late' \in [Kind -> SUBSET Nat], strayed' \in SUBSET (RowId \X TombstoneId), faults' \in Nat
      PROVE  TypeOK'
  BY <1>a DEF TypeOK, Remembered, setup
<1>b. ASSUME UNCHANGED <<pc, kind, batch, found>>, moved' \in [Worker -> SUBSET RowId]
      PROVE  Remembered'
  BY <1>b DEF TypeOK, Remembered, batch, found
<1>c. ASSUME NEW w \in Worker, Remembered', UNCHANGED <<setup, tables, late, strayed>>,
             mark' \in [Kind -> Nat \cup {Missing}], faults' \in Nat
      PROVE  TypeOK'
  BY <1>a, <1>c DEF TypeOK, tables, Rows
<1>1. ASSUME NEW r \in RowId, NEW o \in Object, InsertRow(r, o) PROVE TypeOK'
  <2>1. late' \in [Kind -> SUBSET Nat]
    BY <1>1, LateIs, Ranges DEF InsertRow, Kind
  <2>2. rowIds' \in SUBSET RowId /\ Rows' \subseteq rowIds'
    BY <1>1 DEF TypeOK, InsertRow, Rows
  <2>3. row' \in [RowId -> Object \cup {Null, Absent}]
    BY <1>1 DEF TypeOK, InsertRow
  <2> QED
    BY <1>1, <1>a, <1>b, <2>1, <2>2, <2>3 DEF TypeOK, InsertRow
<1>2. ASSUME NEW r \in RowId, NEW o \in Object \cup {Null}, MoveRow(r, o) PROVE TypeOK'
  <2>1. rowIds' \in SUBSET RowId /\ Rows' \subseteq rowIds'
    BY <1>2 DEF TypeOK, MoveRow, Rows
  <2>2. faults' \in Nat /\ moved' \in [Worker -> SUBSET RowId]
    BY <1>2 DEF TypeOK, MoveRow
  <2>4. strayed' \in SUBSET (RowId \X TombstoneId)
    BY <1>2 DEF TypeOK, MoveRow
  <2>3. row' \in [RowId -> Object \cup {Null, Absent}]
    BY <1>2 DEF TypeOK, MoveRow
  <2> QED
    BY <1>2, <1>a, <1>b, <2>1, <2>2, <2>3, <2>4 DEF TypeOK, MoveRow
<1>3. ASSUME NEW o \in Object, DeleteObject(o) PROVE TypeOK'
  <2>1. alive' \in SUBSET Object /\ Rows' = Rows
    BY <1>3 DEF TypeOK, DeleteObject, Rows
  <2> QED
    BY <1>3, <1>a, <1>b, <2>1 DEF TypeOK, DeleteObject, history
<1>4. ASSUME NEW o \in Object, NEW t \in TombstoneId, RecordTombstone(t, o) PROVE TypeOK'
  <2>1. late' \in [Kind -> SUBSET Nat]
    BY <1>4, LateIs, Ranges DEF RecordTombstone, Kind
  <2>2. tomb' \in [TombstoneId -> Object \cup {Absent}] /\ Rows' = Rows
    BY <1>4 DEF TypeOK, RecordTombstone, Rows
  <2> QED
    BY <1>4, <1>a, <1>b, <2>1, <2>2 DEF TypeOK, RecordTombstone
<1>5. ASSUME NEW w \in Worker, ReadMark(w) \/ InitMark(w) PROVE TypeOK'
  <2>1. Remembered' /\ mark' \in [Kind -> Nat \cup {Missing}]
    BY <1>5, MarkDoes
  <2>2. faults' \in Nat /\ UNCHANGED <<setup, tables, late, strayed>>
    BY <1>5 DEF TypeOK, ReadMark, InitMark, history
  <2> QED
    BY <1>c, <2>1, <2>2
<1>6. ASSUME NEW w \in Worker, Bounds(w) PROVE TypeOK'
  <2>1. Remembered' /\ late' = late /\ strayed' = strayed
    BY <1>6, BoundsAre
  <2>2. faults' = faults /\ UNCHANGED <<setup, tables, mark>>
    BY <1>6 DEF Bounds
  <2> QED
    BY <1>c, <2>1, <2>2 DEF TypeOK
<1>7. ASSUME NEW w \in Worker, Join(w) \/ QueryBatch(w) \/ Match(w) PROVE TypeOK'
  <2>1. Remembered'
    BY <1>7, QueryDoes
  <2>2. faults' = faults /\ UNCHANGED <<setup, tables, mark, late, strayed>>
    BY <1>7 DEF Join, QueryBatch, Match, history
  <2> QED
    BY <1>c, <2>1, <2>2 DEF TypeOK
<1>8. ASSUME NEW w \in Worker, DeleteChunk(w) \/ Update(w) PROVE TypeOK'
  <2>1. Remembered' /\ Cleans(w) /\ late' = late /\ strayed' = strayed
    BY <1>8, CleanDoes
  <2>2. UNCHANGED <<setup, alive, tomb, rowIds, mark, faults>>
    BY <1>8 DEF DeleteChunk, Update
  <2>3. Rows' \subseteq rowIds'
    BY <2>1, <2>2 DEF TypeOK, Cleans, Rows
  <2> QED
    BY <1>a, <2>1, <2>2, <2>3 DEF TypeOK, Cleans
<1>9. ASSUME NEW w \in Worker, SaveMark(w) PROVE TypeOK'
  <2>1. Remembered' /\ mark' \in [Kind -> Nat \cup {Missing}] /\ late' = late /\ strayed' = strayed
    BY <1>9, SaveDoes
  <2>2. faults' = faults /\ UNCHANGED <<setup, tables>>
    BY <1>9 DEF SaveMark
  <2> QED
    BY <1>c, <2>1, <2>2 DEF TypeOK
<1>10. ASSUME NEW w \in Worker, Refuse(w) \/ Die(w) PROVE TypeOK'
  <2>1. /\ Remembered' /\ late' = late /\ strayed' = strayed
        /\ UNCHANGED <<setup, tables, mark>> /\ faults' \in Nat
    BY <1>10, FailDoes
  <2> QED
    BY <1>c, <2>1 DEF TypeOK
<1> QED
  BY <1>1, <1>2, <1>3, <1>4, <1>5, <1>6, <1>7, <1>8, <1>9, <1>10 DEF Next, Run

-----------------------------------------------------------------------------
(* Watermarks and batches stay within the ids that were given. *)

\* What is left alone by the application's steps.
Untouched == UNCHANGED <<setup, mark, pc, kind, batch, found>>

\* A step of a task changes rows only, and those only by taking them.
TaskStep(w) ==
    /\ Remembered' /\ Others(w)
    /\ UNCHANGED <<setup, alive, tomb, rowIds, late, strayed>>
    /\ row' = row \/ Cleans(w)
    /\ moved'[w] = moved[w] \/ (ids'[w] = {} /\ seen'[w] = {})

\* A step of a task or its failure.
Works(w) == Run(w) \/ Refuse(w) \/ Die(w)

LEMMA TaskSteps ==
    ASSUME TypeOK, Reached, NEW w \in Worker, Works(w)
    PROVE  TaskStep(w)
<1>1. CASE ReadMark(w) \/ InitMark(w)
  BY <1>1, MarkDoes DEF ReadMark, InitMark, TaskStep, tables, history
<1>2. CASE Bounds(w)
  <2>1. /\ Remembered' /\ Others(w) /\ late' = late /\ strayed' = strayed
        /\ Restarted(w) \/ moved'[w] = moved[w]
    BY <1>2, BoundsAre
  <2> QED
    BY <1>2, <2>1 DEF Bounds, TaskStep, tables, Restarted
<1>3. CASE Join(w) \/ QueryBatch(w) \/ Match(w)
  BY <1>3, QueryDoes DEF Join, QueryBatch, Match, TaskStep, tables, history
<1>4. CASE DeleteChunk(w) \/ Update(w)
  BY <1>4, CleanDoes DEF DeleteChunk, Update, TaskStep
<1>5. CASE SaveMark(w)
  BY <1>5, SaveDoes DEF SaveMark, TaskStep, tables, Restarted
<1>6. CASE Refuse(w) \/ Die(w)
  BY <1>6, FailDoes DEF TaskStep, tables, Restarted
<1> QED
  BY <1>1, <1>2, <1>3, <1>4, <1>5, <1>6 DEF Works, Run

LEMMA ReachedByTask ==
    ASSUME TypeOK, Reached, NEW w \in Worker, TaskStep(w),
           \A k \in Kind : Within(mark'[k], Given(k)),
           Within(low'[w], Given(kind'[w])), Within(up'[w], Given(kind'[w]))
    PROVE  Reached'
<1>1. \A k : Given(k)' = Given(k)
  BY DEF TaskStep, Given, Tombstones
<1>2. \A v \in Worker : Within(low'[v], Given(kind'[v])) /\ Within(up'[v], Given(kind'[v]))
  <2> TAKE v \in Worker
  <2>1. CASE v = w
    BY <2>1
  <2>2. CASE v # w
    BY <2>2 DEF TaskStep, Others, Reached
  <2> QED
    BY <2>1, <2>2
<1> QED
  BY <1>1, <1>2 DEF Reached, Within, Given

LEMMA ReachedNext == TypeOK /\ Reached /\ Next => Reached'
<1> SUFFICES ASSUME TypeOK, Reached, Next PROVE Reached'
  OBVIOUS
<1>a. ASSUME Untouched, rowIds \subseteq rowIds', Tombstones \subseteq Tombstones' PROVE Reached'
  BY <1>a DEF Untouched, batch, Reached, Within, Given, Kind
<1>b. ASSUME NEW w \in Worker, TaskStep(w), mark' = mark, Restarted(w) PROVE Reached'
  <2>1. Within(low'[w], Given(kind'[w])) /\ Within(up'[w], Given(kind'[w]))
    BY <1>b DEF Restarted, Reached, Within
  <2> QED
    BY <1>b, <2>1, ReachedByTask DEF Reached
<1>1. ASSUME NEW r \in RowId, NEW o \in Object, InsertRow(r, o) PROVE Reached'
  BY <1>1, <1>a DEF InsertRow, Untouched, Tombstones
<1>2. ASSUME NEW r \in RowId, NEW o \in Object \cup {Null}, MoveRow(r, o) PROVE Reached'
  BY <1>2, <1>a DEF MoveRow, Untouched, Tombstones
<1>3. ASSUME NEW o \in Object, DeleteObject(o) PROVE Reached'
  BY <1>3, <1>a DEF DeleteObject, Untouched, Tombstones
<1>4. ASSUME NEW o \in Object, NEW t \in TombstoneId, RecordTombstone(t, o) PROVE Reached'
  <2>1. Tombstones \subseteq Tombstones'
    BY <1>4, Ranges DEF TypeOK, RecordTombstone, Tombstones
  <2> QED
    BY <1>4, <1>a, <2>1 DEF RecordTombstone, Untouched
<1>5. ASSUME NEW w \in Worker, ReadMark(w) \/ InitMark(w) PROVE Reached'
  <2>1. TaskStep(w)
    BY <1>5, TaskSteps DEF Works, Run
  <2>2. /\ kind'[w] = kind[w] /\ up'[w] = up[w] /\ low'[w] \in {low[w], mark[kind[w]]}
        /\ \A k \in Kind : mark'[k] \in {mark[k], 0}
    BY <1>5, MarkDoes
  <2>3. \A k \in Kind : Within(mark'[k], Given(k))
    BY <2>2 DEF Reached, Within
  <2>4. kind[w] \in Kind
    BY DEF TypeOK
  <2> QED
    BY <2>1, <2>2, <2>3, <2>4, ReachedByTask DEF Reached
<1>6. ASSUME NEW w \in Worker, Bounds(w) PROVE Reached'
  <2>1. TaskStep(w) /\ mark' = mark
    BY <1>6, TaskSteps DEF Works, Run, Bounds
  <2>2. CASE Restarted(w)
    BY <1>b, <2>1, <2>2
  <2>3. CASE ~Restarted(w)
    <3>1. kind'[w] = kind[w] /\ Within(low'[w], Given(kind[w])) /\ Within(up'[w], Given(kind[w]))
      BY <1>6, <2>3, BoundsAre
    <3> QED
      BY <2>1, <3>1, ReachedByTask DEF Reached
  <2> QED
    BY <2>2, <2>3
<1>7. ASSUME NEW w \in Worker, Join(w) \/ QueryBatch(w) \/ Match(w) PROVE Reached'
  <2>1. TaskStep(w) /\ mark' = mark
    BY <1>7, TaskSteps DEF Works, Run, Join, QueryBatch, Match
  <2>2. kind'[w] = kind[w] /\ low'[w] = low[w] /\ up'[w] = up[w]
    BY <1>7 DEF Join, QueryBatch, Match, batch
  <2> QED
    BY <2>1, <2>2, ReachedByTask DEF Reached
<1>8. ASSUME NEW w \in Worker, DeleteChunk(w) \/ Update(w) PROVE Reached'
  <2>1. TaskStep(w) /\ mark' = mark
    BY <1>8, TaskSteps DEF Works, Run, DeleteChunk, Update
  <2>2. CASE Restarted(w)
    BY <1>b, <2>1, <2>2
  <2>3. CASE ~Restarted(w)
    <3>1. kind'[w] = kind[w] /\ low'[w] = low[w] /\ up'[w] = up[w]
      BY <1>8, <2>3, CleanDoes
    <3> QED
      BY <2>1, <3>1, ReachedByTask DEF Reached
  <2> QED
    BY <2>2, <2>3
<1>9. ASSUME NEW w \in Worker, SaveMark(w) PROVE Reached'
  <2>1. TaskStep(w)
    BY <1>9, TaskSteps DEF Works, Run
  <2>2. /\ Restarted(w)
        /\ \A k \in Kind : mark'[k] = IF k = kind[w] THEN up[w] ELSE mark[k]
    BY <1>9, SaveDoes
  <2>3. \A k \in Kind : Within(mark'[k], Given(k))
    BY <2>2 DEF Reached
  <2>4. Within(low'[w], Given(kind'[w])) /\ Within(up'[w], Given(kind'[w]))
    BY <2>2 DEF Restarted, Within
  <2> QED
    BY <2>1, <2>3, <2>4, ReachedByTask
<1>10. ASSUME NEW w \in Worker, Refuse(w) \/ Die(w) PROVE Reached'
  <2>1. TaskStep(w)
    BY <1>10, TaskSteps DEF Works
  <2>2. Restarted(w) /\ mark' = mark
    BY <1>10, FailDoes
  <2> QED
    BY <1>b, <2>1, <2>2
<1> QED
  BY <1>1, <1>2, <1>3, <1>4, <1>5, <1>6, <1>7, <1>8, <1>9, <1>10 DEF Next, Run

-----------------------------------------------------------------------------
(* What makes an orphan. *)

\* A new row or tombstone that is not late is ahead of everything.
LEMMA NewIsBeyond ==
    ASSUME TypeOK, Reached, NEW k \in Kind, NEW i \in Nat \ {0}, NEW r,
           i \notin Given(k), \A j \in Given(k) : ~(i < j), Untouched
    PROVE  /\ ~Behind(k, i, r)'
           /\ \A w \in Worker : kind[w] = k => ~(i <= up[w])
<1>1. Given(k) \in SUBSET Nat
  BY Ranges DEF TypeOK, Given, Tombstones
<1>2. \A n \in Nat \cup {Missing} : Within(n, Given(k)) => n < i
  BY <1>1 DEF Within, Missing
<1>3. mark[k] < i /\ \A w \in Worker : kind[w] = k => low[w] < i /\ up[w] < i
  BY <1>2 DEF TypeOK, Reached
<1>4. ~(i <= mark[k]) /\ \A w \in Worker : kind[w] = k => ~(i <= low[w]) /\ ~(i <= up[w])
  BY <1>3 DEF TypeOK, Missing
<1> QED
  BY <1>4 DEF Untouched, batch, Behind, Passed

\* What no pass has taken is ahead of all of them.
LEMMA UntakenIsAhead ==
    ASSUME NEW k, NEW i, NEW r, ~Taken(k, i), Untouched
    PROVE  /\ ~Behind(k, i, r)'
           /\ \A w \in Worker : pc[w] = "match" /\ kind[w] = k => ~(i <= up[w])
BY DEF Taken, Untouched, batch, Behind, Passed

LEMMA OrphansOfApplication ==
    ASSUME TypeOK, Dead, NEW r \in RowId, NEW t \in TombstoneId, Orphan(r, t)',
           \/ \E i \in RowId : (\E o \in Object : InsertRow(i, o)) \/ \E o \in Object \cup {Null} : MoveRow(i, o)
           \/ \E o \in Object : DeleteObject(o) \/ \E i \in TombstoneId : RecordTombstone(i, o)
    PROVE  /\ Untouched
           /\ \/ Orphan(r, t) /\ row'[r] = row[r]
              \/ r \notin rowIds /\ \A j \in rowIds : ~(r < j)
              \/ t \notin Tombstones /\ \A j \in Tombstones : ~(t < j)
              \/ ~Taken("row", r) \/ ~Taken("tombstone", t)
<1> USE Ranges
<1>1. ASSUME NEW i \in RowId, NEW o \in Object, InsertRow(i, o)
      PROVE  Untouched /\ ((Orphan(r, t) /\ row'[r] = row[r]) \/ (r \notin rowIds /\ \A j \in rowIds : ~(r < j)))
  <2>1. Untouched /\ tomb' = tomb /\ strayed' = strayed /\ i \in Nat
    BY <1>1 DEF InsertRow, Untouched
  <2>2. \A k \in Kind : late[k] \subseteq late'[k]
    BY <1>1, <2>1, LateIs DEF InsertRow, Kind
  <2>3. i \notin late'["row"] => \A j \in rowIds : ~(i < j)
    BY <1>1, <2>1, LateIs DEF InsertRow, Kind
  <2>4. CASE r = i
    BY <1>1, <2>1, <2>3, <2>4 DEF InsertRow, Orphan
  <2>5. CASE r # i
    <3>1. row'[r] = row[r]
      BY <1>1, <2>5 DEF TypeOK, InsertRow
    <3> QED
      BY <2>1, <2>2, <3>1 DEF Orphan, Kind
  <2> QED
    BY <2>4, <2>5
<1>2. ASSUME NEW i \in RowId, NEW o \in Object \cup {Null}, MoveRow(i, o)
      PROVE  Untouched /\ ((Orphan(r, t) /\ row'[r] = row[r]) \/ ~Taken("row", r) \/ ~Taken("tombstone", t))
  <2>1. /\ Untouched /\ tomb' = tomb /\ late' = late
        /\ strayed' = {p \in strayed : p[1] # i} \cup
                      {p \in {i} \X TombstoneId :
                         tomb[p[2]] = o /\ Taken("row", i) /\ Taken("tombstone", p[2])}
    BY <1>2 DEF MoveRow, Untouched
  <2>2. CASE r = i
    <3>1. tomb[t] = o
      BY <1>2, <2>1, <2>2 DEF TypeOK, MoveRow, Orphan
    <3>2. <<r, t>> \notin strayed'
      BY DEF Orphan
    <3> QED
      BY <2>1, <2>2, <3>1, <3>2
  <2>3. CASE r # i
    <3>1. row'[r] = row[r]
      BY <1>2, <2>3 DEF TypeOK, MoveRow
    <3>2. <<r, t>> \notin strayed
      BY <2>1, <2>3 DEF Orphan
    <3> QED
      BY <2>1, <3>1, <3>2 DEF Orphan
  <2> QED
    BY <2>2, <2>3
<1>3. ASSUME NEW o \in Object, DeleteObject(o)
      PROVE  Untouched /\ Orphan(r, t) /\ row'[r] = row[r]
  BY <1>3 DEF DeleteObject, Untouched, Orphan, history
<1>4. ASSUME NEW o \in Object, NEW i \in TombstoneId, RecordTombstone(i, o)
      PROVE  Untouched /\ ((Orphan(r, t) /\ row'[r] = row[r])
                           \/ (t \notin Tombstones /\ \A j \in Tombstones : ~(t < j)))
  <2>1. Untouched /\ row' = row /\ strayed' = strayed /\ i \in Nat
    BY <1>4 DEF RecordTombstone, Untouched
  <2>2. \A k \in Kind : late[k] \subseteq late'[k]
    BY <1>4, <2>1, LateIs DEF RecordTombstone, Kind
  <2>3. i \notin late'["tombstone"] => \A j \in Tombstones : ~(i < j)
    BY <1>4, <2>1, LateIs DEF RecordTombstone, Kind
  <2>4. CASE t = i
    BY <1>4, <2>1, <2>3, <2>4 DEF RecordTombstone, Orphan
  <2>5. CASE t # i
    <3>1. tomb'[t] = tomb[t]
      BY <1>4, <2>5 DEF TypeOK, RecordTombstone
    <3> QED
      BY <2>1, <2>2, <3>1 DEF Orphan, Kind
  <2> QED
    BY <2>4, <2>5
<1> QED
  BY <1>1, <1>2, <1>3, <1>4

LEMMA OrphansOfTasks ==
    ASSUME TypeOK, NEW w \in Worker, TaskStep(w), NEW r \in RowId, NEW t \in TombstoneId,
           Orphan(r, t)'
    PROVE  Orphan(r, t) /\ row'[r] = row[r]
<1>1. row'[r] = row[r]
  BY Ranges DEF TaskStep, Cleans, Orphan
<1> QED
  BY <1>1 DEF TaskStep, Orphan

-----------------------------------------------------------------------------
(* A task that passes an orphan has found it. *)

LEMMA RestartedIsNotPast ==
    ASSUME TypeOK, NEW w \in Worker, Restarted(w), NEW k \in Kind, NEW i \in Nat \ {0}, NEW r,
           Passed(w, k, i, r)'
    PROVE  FALSE
BY DEF Restarted, Passed

LEMMA TaskKeepsAhead ==
    ASSUME TypeOK, Reached, SeenTombstones, SeenRows, onDelete # "DO_NOTHING",
           NEW w \in Worker, Works(w),
           NEW r \in RowId, NEW t \in TombstoneId, Orphan(r, t), Orphan(r, t)'
    PROVE  /\ Behind("tombstone", t, r)' => Behind("tombstone", t, r)
           /\ Behind("row", r, r)' => Behind("row", r, r) \/ ~Behind("tombstone", t, r)
<1> DEFINE Id(k) == IF k = "row" THEN r ELSE t
           Escapes(k) == k = "row" /\ ~Behind("tombstone", t, r)
<1> USE Ranges
<1>1. TaskStep(w)
  BY TaskSteps
<1>2. /\ r \in Rows /\ t \in Tombstones /\ row[r] = tomb[t] /\ t \notin late["tombstone"]
      /\ row'[r] = tomb[t] /\ row[r] \in Object
  <2>1. row'[r] = row[r]
    BY <1>1, OrphansOfTasks
  <2> QED
    BY <2>1 DEF Orphan, Rows, Tombstones
<1>a. ASSUME mark' = mark, NEW k \in Kind,
             Passed(w, k, Id(k), r)' => Behind(k, Id(k), r) \/ Escapes(k)
      PROVE  Behind(k, Id(k), r)' => Behind(k, Id(k), r) \/ Escapes(k)
  BY <1>1, <1>a DEF TaskStep, Others, Behind, Passed
<1>b. ASSUME mark' = mark, Restarted(w), NEW k \in Kind
      PROVE  Behind(k, Id(k), r)' => Behind(k, Id(k), r) \/ Escapes(k)
  <2>1. Id(k) \in Nat \ {0}
    OBVIOUS
  <2> HIDE DEF Id
  <2>2. Passed(w, k, Id(k), r)' => Behind(k, Id(k), r)
    BY <1>b, <2>1, RestartedIsNotPast
  <2> QED
    BY <1>a, <1>b, <2>2
<1>c. ASSUME NEW k \in Kind PROVE Id(k) \in Existing(k) /\ Id(k) \in Nat \ {0}
  BY <1>2 DEF Existing
<1>d. SUFFICES ASSUME NEW k \in Kind
               PROVE  Behind(k, Id(k), r)' => Behind(k, Id(k), r) \/ Escapes(k)
  <2>1. Id("row") = r /\ Id("tombstone") = t /\ "row" \in Kind /\ "tombstone" \in Kind
    BY DEF Kind
  <2> HIDE DEF Id
  <2> QED
    BY <1>d, <2>1
<1>3. CASE ReadMark(w) \/ InitMark(w)
  <2>1. /\ pc'[w] \in {"init", "bounds"} /\ kind'[w] = kind[w]
        /\ low'[w] \in {low[w], mark[kind[w]]}
        /\ mark'[k] \in {mark[k], 0}
    BY <1>3, MarkDoes
  <2>2. Id(k) \in Nat \ {0}
    BY <1>c
  <2> HIDE DEF Id
  <2>3. Id(k) <= mark'[k] => Behind(k, Id(k), r)
    BY <2>1, <2>2 DEF Behind
  <2>4. Passed(w, k, Id(k), r)' => Behind(k, Id(k), r)
    BY <2>1 DEF Behind, Passed
  <2>5. ASSUME NEW v \in Worker, v # w, Passed(v, k, Id(k), r)' PROVE Behind(k, Id(k), r)
    BY <1>1, <2>5 DEF TaskStep, Others, Behind, Passed
  <2> QED
    BY <2>3, <2>4, <2>5 DEF Behind
<1>4. CASE Bounds(w)
  <2>0. mark' = mark
    BY <1>4 DEF Bounds
  <2>1. CASE Restarted(w)
    BY <1>b, <2>0, <2>1
  <2>2. CASE ~Restarted(w)
    <3>1. /\ pc'[w] = "query" /\ kind'[w] = kind[w]
          /\ low'[w] = low[w] \/ \A i \in Existing(kind[w]) : low'[w] < i
          /\ low'[w] \in Nat
      BY <1>4, <2>2, BoundsAre DEF Remembered
    <3>2. Passed(w, k, Id(k), r)' => Passed(w, k, Id(k), r)
      <4>1. Id(k) \in Existing(k) /\ Id(k) \in Nat
        BY <1>c
      <4> HIDE DEF Id
      <4> QED
        BY <3>1, <4>1 DEF Passed
    <3> QED
      BY <1>a, <2>0, <3>2 DEF Behind
  <2> QED
    BY <2>1, <2>2
<1>5. CASE Join(w)
  <2>0. mark' = mark
    BY <1>5 DEF Join
  <2>1. /\ pc'[w] = "apply" /\ kind' = kind /\ low' = low /\ up' = up
        /\ ids'[w] = {i \in RowsInBatch(w) : \E j \in TombstonesInBatch(w) : row[i] = tomb[j]}
    BY <1>5 DEF TypeOK, Join, batch
  <2>2. Passed(w, k, Id(k), r)' => Passed(w, k, Id(k), r)
    <3>1. SUFFICES ASSUME kind[w] = k, ~(Id(k) <= low[w]), Id(k) <= up[w] PROVE r \in ids'[w]
      BY <2>1 DEF Passed
    <3>2. low[w] < Id(k)
      BY <1>c, <3>1 DEF TypeOK
    <3>3. InBatch(w, Id(k))
      BY <3>1, <3>2 DEF InBatch
    <3>4. r \in RowsInBatch(w) /\ t \in TombstonesInBatch(w)
      BY <1>2, <3>1, <3>3 DEF RowsInBatch, TombstonesInBatch, Kind
    <3> QED
      BY <1>2, <2>1, <3>4
  <2> QED
    BY <1>a, <2>0, <2>2 DEF Behind
<1>6. CASE QueryBatch(w)
  <2>0. mark' = mark /\ kind' = kind /\ low' = low /\ pc'[w] = "match"
    BY <1>6 DEF TypeOK, QueryBatch, batch
  <2>1. Passed(w, k, Id(k), r)' => Passed(w, k, Id(k), r)
    BY <2>0 DEF Passed
  <2> QED
    BY <1>a, <2>0, <2>1 DEF Behind
<1>7. CASE Match(w)
  <2>0. mark' = mark
    BY <1>7 DEF Match
  <2>1. /\ pc[w] = "match" /\ pc'[w] = "apply" /\ kind' = kind /\ low' = low /\ up' = up
        /\ ids'[w] = IF kind[w] = "row"
                     THEN {i \in RowId : \E j \in Tombstones : <<i, tomb[j]>> \in seen[w]}
                     ELSE {i \in Rows : row[i] \in seen[w]}
    BY <1>7 DEF TypeOK, Match, batch
  <2>2. Passed(w, k, Id(k), r)' => Passed(w, k, Id(k), r) \/ Escapes(k)
    <3>1. SUFFICES ASSUME kind[w] = k, ~(Id(k) <= low[w]), Id(k) <= up[w], ~Escapes(k)
                   PROVE  r \in ids'[w]
      BY <2>1 DEF Passed
    <3>2. low[w] < Id(k)
      BY <1>c, <3>1 DEF TypeOK
    <3>3. CASE k = "row"
      <4>1. <<r, row[r]>> \in seen[w]
        BY <2>1, <3>1, <3>2, <3>3 DEF SeenRows
      <4> QED
        BY <1>2, <2>1, <3>1, <3>3, <4>1
    <3>4. CASE k = "tombstone"
      <4>1. tomb[t] \in seen[w]
        BY <1>2, <2>1, <3>1, <3>2, <3>4 DEF SeenTombstones, Tombstones
      <4> QED
        BY <1>2, <2>1, <3>1, <3>4, <4>1
    <3> QED
      BY <3>3, <3>4 DEF Kind
  <2> QED
    BY <1>a, <2>0, <2>2 DEF Behind
<1>8. CASE DeleteChunk(w) \/ Update(w)
  <2>0. mark' = mark /\ pc[w] = "apply"
    BY <1>8 DEF DeleteChunk, Update
  <2>1. CASE Restarted(w)
    BY <1>b, <2>0, <2>1
  <2>2. CASE ~Restarted(w)
    <3>1. /\ kind'[w] = kind[w] /\ low'[w] = low[w] /\ up'[w] = up[w]
          /\ \A i \in ids[w] : row'[i] \in {Null, Absent}
      BY <1>8, <2>2, CleanDoes
    <3>2. r \notin ids[w]
      BY <1>2, <3>1
    <3>3. Passed(w, k, Id(k), r)' => Passed(w, k, Id(k), r)
      BY <2>0, <3>1, <3>2 DEF Passed
    <3> QED
      BY <1>a, <2>0, <3>3 DEF Behind
  <2> QED
    BY <2>1, <2>2
<1>9. CASE SaveMark(w)
  <2>1. /\ Restarted(w)
        /\ \A j \in Kind : mark'[j] = IF j = kind[w] THEN up[w] ELSE mark[j]
        /\ pc[w] = "save"
    BY <1>9, SaveDoes DEF SaveMark
  <2>2. Id(k) <= mark'[k] => Behind(k, Id(k), r)
    BY <2>1 DEF Behind, Passed
  <2>3. ~Passed(w, k, Id(k), r)'
    <3>1. Id(k) \in Nat \ {0}
      BY <1>c
    <3> HIDE DEF Id
    <3> QED
      BY <2>1, <3>1, RestartedIsNotPast
  <2>4. ASSUME NEW v \in Worker, v # w, Passed(v, k, Id(k), r)' PROVE Behind(k, Id(k), r)
    BY <1>1, <2>4 DEF TaskStep, Others, Behind, Passed
  <2> HIDE DEF Id
  <2> QED
    BY <2>2, <2>3, <2>4 DEF Behind
<1>10. CASE Refuse(w) \/ Die(w)
  BY <1>10, <1>b, FailDoes
<1> QED
  BY <1>3, <1>4, <1>5, <1>6, <1>7, <1>8, <1>9, <1>10 DEF Works, Run

-----------------------------------------------------------------------------
(* The invariant. *)

LEMMA DeadNext == TypeOK /\ Reached /\ Dead /\ Next => Dead'
<1> SUFFICES ASSUME TypeOK, Reached, Dead, Next PROVE Dead'
  OBVIOUS
<1>1. ASSUME NEW r \in RowId, NEW o \in Object \cup {Null}, InsertRow(r, o) \/ MoveRow(r, o) PROVE Dead'
  BY <1>1 DEF Dead, InsertRow, MoveRow
<1>2. ASSUME NEW o \in Object, DeleteObject(o) PROVE Dead'
  BY <1>2 DEF Dead, DeleteObject
<1>3. ASSUME NEW o \in Object, NEW t \in TombstoneId, RecordTombstone(t, o) PROVE Dead'
  BY <1>3 DEF TypeOK, Dead, RecordTombstone, IsDeleted
<1>4. ASSUME NEW w \in Worker, Works(w) PROVE Dead'
  BY <1>4, TaskSteps DEF TaskStep, Dead
<1> QED
  BY <1>1, <1>2, <1>3, <1>4 DEF Next, Works

\* A task is at the second of two queries after it has made the first.
LEMMA AtMatch ==
    ASSUME TypeOK, Reached, NEW w \in Worker, Works(w), pc'[w] = "match"
    PROVE  /\ QueryBatch(w)
           /\ kind'[w] = kind[w] /\ low'[w] = low[w] /\ up'[w] = up[w]
           /\ row' = row
           /\ seen'[w] = IF kind[w] = "row" THEN {<<r, row[r]>> : r \in RowsInBatch(w)}
                                            ELSE {tomb[t] : t \in TombstonesInBatch(w)}
<1>1. ~ReadMark(w) /\ ~InitMark(w)
  BY MarkDoes
<1>2. ~Bounds(w)
  BY BoundsAre DEF Restarted
<1>3. ~Join(w) /\ ~Match(w)
  BY DEF TypeOK, Join, Match
<1>4. ~DeleteChunk(w) /\ ~Update(w)
  BY CleanDoes DEF Restarted
<1>5. ~SaveMark(w)
  BY SaveDoes DEF Restarted
<1>6. ~Refuse(w) /\ ~Die(w)
  BY FailDoes DEF Restarted
<1>7. QueryBatch(w)
  BY <1>1, <1>2, <1>3, <1>4, <1>5, <1>6 DEF Works, Run
<1> QED
  BY <1>7 DEF TypeOK, QueryBatch, batch, tables

LEMMA SeenTombstonesNext == TypeOK /\ Reached /\ Dead /\ SeenTombstones /\ Next => SeenTombstones'
<1> SUFFICES ASSUME TypeOK, Reached, Dead, SeenTombstones, Next PROVE SeenTombstones'
  OBVIOUS
<1> USE Ranges
<1>1. ASSUME Untouched, tomb' = tomb, \A k \in Kind : late[k] \subseteq late'[k] PROVE SeenTombstones'
  BY <1>1 DEF Untouched, batch, found, SeenTombstones, Kind
<1>2. ASSUME NEW r \in RowId, NEW o \in Object, InsertRow(r, o) PROVE SeenTombstones'
  <2>1. \A k \in Kind : late[k] \subseteq late'[k]
    BY <1>2, LateIs DEF InsertRow, Kind
  <2> QED
    BY <1>1, <1>2, <2>1 DEF InsertRow, Untouched
<1>3. ASSUME NEW r \in RowId, NEW o \in Object \cup {Null}, MoveRow(r, o) PROVE SeenTombstones'
  BY <1>1, <1>3 DEF MoveRow, Untouched
<1>4. ASSUME NEW o \in Object, DeleteObject(o) PROVE SeenTombstones'
  BY <1>1, <1>4 DEF DeleteObject, Untouched, history
<1>5. ASSUME NEW o \in Object, NEW i \in TombstoneId, RecordTombstone(i, o) PROVE SeenTombstones'
  <2>1. Untouched
    BY <1>5 DEF RecordTombstone, Untouched
  <2>2. /\ \A k \in Kind : late[k] \subseteq late'[k]
        /\ i \notin late'["tombstone"] => \A j \in Tombstones : ~(i < j)
    BY <1>5, LateIs DEF RecordTombstone, Kind
  <2>3. i \notin late'["tombstone"] => \A w \in Worker : kind[w] = "tombstone" => ~(i <= up[w])
    <3>1. SUFFICES ASSUME i \notin late'["tombstone"]
                   PROVE  \A w \in Worker : kind[w] = "tombstone" => ~(i <= up[w])
      OBVIOUS
    <3>2. i \notin Given("tombstone") /\ \A j \in Given("tombstone") : ~(i < j)
      BY <1>5, <2>2, <3>1 DEF RecordTombstone, Given
    <3> QED
      BY <2>1, <3>2, NewIsBeyond DEF Kind
  <2>4. \A t \in TombstoneId : t # i => tomb'[t] = tomb[t]
    BY <1>5 DEF TypeOK, RecordTombstone
  <2> QED
    BY <2>1, <2>2, <2>3, <2>4 DEF Untouched, batch, found, SeenTombstones, Kind
<1>6. ASSUME NEW v \in Worker, Works(v) PROVE SeenTombstones'
  <2>1. TaskStep(v)
    BY <1>6, TaskSteps
  <2> SUFFICES ASSUME NEW w \in Worker, NEW t \in TombstoneId,
                      pc'[w] = "match", kind'[w] = "tombstone",
                      tomb'[t] # Absent, t \notin late'["tombstone"], low'[w] < t, t <= up'[w]
               PROVE  tomb'[t] \in seen'[w]
    BY DEF SeenTombstones
  <2>2. tomb' = tomb /\ late' = late
    BY <2>1 DEF TaskStep
  <2>3. CASE w # v
    BY <2>1, <2>2, <2>3 DEF TaskStep, Others, SeenTombstones
  <2>4. CASE w = v
    <3>1. /\ kind[w] = "tombstone" /\ low[w] < t /\ t <= up[w]
          /\ seen'[w] = {tomb[i] : i \in TombstonesInBatch(w)}
      BY <1>6, <2>4, AtMatch
    <3>2. t \in TombstonesInBatch(w)
      BY <2>2, <3>1 DEF TombstonesInBatch, Tombstones, InBatch
    <3> QED
      BY <2>2, <3>1, <3>2
  <2> QED
    BY <2>3, <2>4
<1> QED
  BY <1>2, <1>3, <1>4, <1>5, <1>6 DEF Next, Works

\* A new orphan is ahead of one of the passes, an old one stays ahead.
LEMMA AheadNext ==
    ASSUME TypeOK, Reached, Dead, SeenTombstones, SeenRows, Ahead, onDelete # "DO_NOTHING", Next
    PROVE  SeenRows' /\ Ahead'
<1> DEFINE Applied ==
              \/ \E i \in RowId : (\E o \in Object : InsertRow(i, o)) \/ \E o \in Object \cup {Null} : MoveRow(i, o)
              \/ \E o \in Object : DeleteObject(o) \/ \E i \in TombstoneId : RecordTombstone(i, o)
<1>1. CASE Applied
  <2>1. ASSUME NEW r \in RowId, NEW t \in TombstoneId, Orphan(r, t)'
        PROVE  /\ Untouched
               /\ \/ Orphan(r, t) /\ row'[r] = row[r]
                  \/ /\ ~Behind("row", r, r)'
                     /\ \A w \in Worker : pc[w] = "match" /\ kind[w] = "row" => ~(r <= up[w])
                  \/ ~Behind("tombstone", t, r)'
    <3>1. /\ Untouched
          /\ \/ Orphan(r, t) /\ row'[r] = row[r]
             \/ r \notin rowIds /\ \A j \in rowIds : ~(r < j)
             \/ t \notin Tombstones /\ \A j \in Tombstones : ~(t < j)
             \/ ~Taken("row", r) \/ ~Taken("tombstone", t)
      BY <1>1, <2>1, OrphansOfApplication
    <3>2. r \in Nat \ {0} /\ t \in Nat \ {0}
      BY Ranges
    <3>3. CASE r \notin rowIds /\ \A j \in rowIds : ~(r < j)
      BY <3>1, <3>2, <3>3, NewIsBeyond DEF Given, Kind
    <3>4. CASE t \notin Tombstones /\ \A j \in Tombstones : ~(t < j)
      BY <3>1, <3>2, <3>4, NewIsBeyond DEF Given, Kind
    <3>5. CASE ~Taken("row", r) \/ ~Taken("tombstone", t)
      BY <3>1, <3>5, UntakenIsAhead
    <3> QED
      BY <3>1, <3>3, <3>4, <3>5
  <2>2. Untouched => \A k, i, r : Behind(k, i, r)' = Behind(k, i, r)
    BY DEF Untouched, batch, found, Behind, Passed
  <2>3. Ahead'
    BY <2>1, <2>2 DEF Ahead
  <2>4. SeenRows'
    <3> SUFFICES ASSUME NEW w \in Worker, NEW r \in RowId, NEW t \in TombstoneId,
                        pc'[w] = "match", kind'[w] = "row", Orphan(r, t)',
                        low'[w] < r, r <= up'[w]
                 PROVE  <<r, row'[r]>> \in seen'[w] \/ ~Behind("tombstone", t, r)'
      BY DEF SeenRows
    <3>1. Untouched
      BY <2>1
    <3>2. pc[w] = "match" /\ kind[w] = "row" /\ low[w] < r /\ r <= up[w] /\ seen'[w] = seen[w]
      BY <3>1 DEF Untouched, batch, found
    <3>3. CASE Orphan(r, t) /\ row'[r] = row[r]
      <4>1. <<r, row[r]>> \in seen[w] \/ ~Behind("tombstone", t, r)
        BY <3>2, <3>3 DEF SeenRows
      <4> QED
        BY <2>2, <3>1, <3>2, <3>3, <4>1
    <3> QED
      BY <2>1, <3>2, <3>3
  <2> QED
    BY <2>3, <2>4
<1>2. ASSUME NEW v \in Worker, Works(v) PROVE SeenRows' /\ Ahead'
  <2>1. TaskStep(v)
    BY <1>2, TaskSteps
  <2>2. ASSUME NEW r \in RowId, NEW t \in TombstoneId, Orphan(r, t)'
        PROVE  /\ Orphan(r, t) /\ row'[r] = row[r]
               /\ Behind("tombstone", t, r)' => Behind("tombstone", t, r)
               /\ Behind("row", r, r)' => Behind("row", r, r) \/ ~Behind("tombstone", t, r)
    BY <1>2, <2>1, <2>2, OrphansOfTasks, TaskKeepsAhead
  <2>3. Ahead'
    BY <2>2 DEF Ahead
  <2>4. SeenRows'
    <3> SUFFICES ASSUME NEW w \in Worker, NEW r \in RowId, NEW t \in TombstoneId,
                        pc'[w] = "match", kind'[w] = "row", Orphan(r, t)',
                        low'[w] < r, r <= up'[w]
                 PROVE  <<r, row'[r]>> \in seen'[w] \/ ~Behind("tombstone", t, r)'
      BY DEF SeenRows
    <3>1. CASE w # v
      <4>1. pc[w] = "match" /\ kind[w] = "row" /\ low[w] < r /\ r <= up[w] /\ seen'[w] = seen[w]
        BY <2>1, <3>1 DEF TaskStep, Others
      <4> QED
        BY <2>2, <4>1 DEF SeenRows
    <3>2. CASE w = v
      <4>1. /\ kind[w] = "row" /\ low[w] < r /\ r <= up[w]
            /\ seen'[w] = {<<i, row[i]>> : i \in RowsInBatch(w)}
        BY <1>2, <3>2, AtMatch
      <4>2. r \in RowsInBatch(w)
        BY <2>2, <4>1, Ranges DEF Orphan, RowsInBatch, Rows, InBatch
      <4> QED
        BY <2>2, <4>1, <4>2
    <3> QED
      BY <3>1, <3>2
  <2> QED
    BY <2>3, <2>4
<1> QED
  BY <1>1, <1>2 DEF Next, Works

LEMMA FoundNext == TypeOK /\ Reached /\ Dead /\ Found /\ Next => Found'
<1> SUFFICES ASSUME TypeOK, Reached, Dead, Found, Next PROVE Found'
  OBVIOUS
<1> USE Ranges
<1>1. ASSUME Untouched, alive' \subseteq alive, moved' = moved,
             \A r \in RowId : r \in rowIds => r \in rowIds' /\ row'[r] = row[r]
      PROVE  Found'
  <2>1. \A w \in Worker, r \in RowId : Doomed(w, r) => Doomed(w, r)'
    BY <1>1 DEF Untouched, setup, Doomed
  <2>2. \A w \in Worker, r \in RowId, o \in Object : Noted(w, r, o) => Noted(w, r, o)'
    BY <1>1 DEF Untouched, setup, Noted
  <2>3. \A w \in Worker : ids[w] \subseteq RowId
    BY DEF TypeOK
  <2> QED
    BY <1>1, <2>1, <2>2, <2>3 DEF Untouched, batch, found, Found
<1>2. ASSUME NEW r \in RowId, NEW o \in Object, InsertRow(r, o) PROVE Found'
  BY <1>1, <1>2 DEF TypeOK, InsertRow, Untouched
<1>3. ASSUME NEW r \in RowId, NEW o \in Object \cup {Null}, MoveRow(r, o) PROVE Found'
  <2>1. /\ \A i \in RowId : i # r => row'[i] = row[i]
        /\ rowIds' = rowIds /\ alive' = alive /\ onDelete' = onDelete
    BY <1>3 DEF TypeOK, MoveRow, setup
  <2>2. \A w \in Worker : moved'[w] = IF Holds(w, r) THEN moved[w] \cup {r} ELSE moved[w]
    BY <1>3 DEF MoveRow
  <2>3. \A w \in Worker : \A i \in ids[w] : Doomed(w, i) => Doomed(w, i)'
    <3> TAKE w \in Worker
    <3> TAKE i \in ids[w]
    <3>1. i \in RowId
      BY DEF TypeOK
    <3>2. i = r => i \in moved'[w]
      BY <2>2 DEF Holds
    <3> QED
      BY <2>1, <2>2, <3>1, <3>2 DEF Doomed
  <2>4. \A w \in Worker, i \in RowId, p \in Object :
           <<i, p>> \in seen[w] /\ Noted(w, i, p) => Noted(w, i, p)'
    <3> SUFFICES ASSUME NEW w \in Worker, NEW i \in RowId, NEW p \in Object,
                        <<i, p>> \in seen[w], Noted(w, i, p)
                 PROVE  Noted(w, i, p)'
      OBVIOUS
    <3>1. i = r => i \in moved'[w]
      BY <2>2 DEF Holds
    <3> QED
      BY <2>1, <2>2, <3>1 DEF Noted
  <2> QED
    BY <1>3, <2>3, <2>4 DEF MoveRow, batch, found, Found
<1>4. ASSUME NEW o \in Object, DeleteObject(o) PROVE Found'
  BY <1>1, <1>4 DEF DeleteObject, Untouched, history
<1>5. ASSUME NEW o \in Object, NEW t \in TombstoneId, RecordTombstone(t, o) PROVE Found'
  BY <1>1, <1>5 DEF RecordTombstone, Untouched
<1>6. ASSUME NEW v \in Worker, Works(v) PROVE Found'
  <2>1. TaskStep(v)
    BY <1>6, TaskSteps
  <2>2. \A w \in Worker, r \in RowId : moved'[w] = moved[w] /\ Doomed(w, r) => Doomed(w, r)'
    BY <2>1 DEF TypeOK, TaskStep, Cleans, setup, Doomed
  <2>3. \A w \in Worker, r \in RowId, o \in Object :
           moved'[w] = moved[w] /\ Noted(w, r, o) => Noted(w, r, o)'
    BY <2>1 DEF TypeOK, TaskStep, Cleans, setup, Noted
  <2>4. \A w \in Worker : ids[w] \subseteq RowId
    BY DEF TypeOK
  <2>5. ASSUME NEW w \in Worker, w # v
        PROVE  /\ \A r \in ids'[w] : Doomed(w, r)'
               /\ pc'[w] = "match" /\ kind'[w] = "row" =>
                     \A r \in RowId, o \in Object : <<r, o>> \in seen'[w] => Noted(w, r, o)'
               /\ pc'[w] = "match" /\ kind'[w] = "tombstone" => seen'[w] \subseteq Object \ alive'
    BY <2>1, <2>2, <2>3, <2>4, <2>5 DEF TaskStep, Others, Found
  <2>6. \A r \in ids'[v] : Doomed(v, r)'
    <3>1. CASE (ids'[v] \subseteq ids[v] /\ moved'[v] = moved[v]) \/ ids'[v] = {}
      BY <2>2, <2>4, <3>1 DEF Found
    <3>0. Join(v) \/ Match(v) => moved'[v] = moved[v]
      BY QueryDoes
    <3>2. CASE Join(v)
      <4>1. ids'[v] = {r \in RowsInBatch(v) : \E t \in TombstonesInBatch(v) : row[r] = tomb[t]}
        BY <3>2 DEF TypeOK, Join
      <4>2. \A t \in TombstonesInBatch(v) : tomb[t] \notin alive \cup {Null}
        BY DEF TypeOK, TombstonesInBatch, Tombstones, Dead
      <4>3. \A r \in ids'[v] : r \in RowId /\ Doomed(v, r)
        BY <4>1, <4>2 DEF TypeOK, RowsInBatch, Rows, Doomed
      <4> QED
        BY <2>2, <3>0, <3>2, <4>3
    <3>3. CASE Match(v)
      <4>1. ids'[v] = IF kind[v] = "row"
                      THEN {r \in RowId : \E t \in Tombstones : <<r, tomb[t]>> \in seen[v]}
                      ELSE {r \in Rows : row[r] \in seen[v]}
        BY <3>3 DEF TypeOK, Match
      <4>2. pc[v] = "match" /\ kind[v] \in Kind
        BY <3>3 DEF TypeOK, Match
      <4>3. CASE kind[v] = "row"
        <5>1. \A t \in Tombstones : tomb[t] \in Object /\ tomb[t] \notin alive \cup {Null}
          BY DEF TypeOK, Tombstones, Dead
        <5>2. \A r \in RowId, t \in Tombstones : <<r, tomb[t]>> \in seen[v] => Noted(v, r, tomb[t])
          BY <4>2, <4>3, <5>1 DEF Found
        <5>3. Absent \notin alive \cup {Null}
          BY DEF TypeOK
        <5>4. \A r \in RowId, t \in Tombstones : Noted(v, r, tomb[t]) => Doomed(v, r)
          BY <5>1, <5>3 DEF Noted, Doomed
        <5> QED
          BY <2>2, <3>0, <3>3, <4>1, <4>3, <5>2, <5>4
      <4>4. CASE kind[v] = "tombstone"
        <5>1. seen[v] \subseteq Object \ alive
          BY <4>2, <4>4 DEF Found
        <5>2. \A r \in Rows : r \in RowId /\ r \in rowIds
          BY DEF TypeOK, Rows
        <5>3. \A r \in Rows : row[r] \in seen[v] => Doomed(v, r)
          BY <5>1, <5>2 DEF Doomed
        <5>4. ids'[v] = {r \in Rows : row[r] \in seen[v]}
          BY <4>1, <4>4
        <5> QED
          BY <2>2, <3>0, <3>3, <5>2, <5>3, <5>4
      <4> QED
        BY <4>2, <4>3, <4>4 DEF Kind
    <3>4. Join(v) \/ Match(v) \/ (ids'[v] \subseteq ids[v] /\ moved'[v] = moved[v]) \/ ids'[v] = {}
      <4>1. CASE ReadMark(v) \/ InitMark(v)
        BY <4>1, MarkDoes
      <4>2. CASE Bounds(v)
        BY <4>2, BoundsAre DEF Restarted
      <4>3. CASE QueryBatch(v)
        BY <4>3 DEF QueryBatch, history
      <4>4. CASE DeleteChunk(v) \/ Update(v)
        BY <4>4, CleanDoes
      <4>5. CASE SaveMark(v)
        BY <4>5, SaveDoes DEF Restarted
      <4>6. CASE Refuse(v) \/ Die(v)
        BY <4>6, FailDoes DEF Restarted
      <4> QED
        BY <1>6, <4>1, <4>2, <4>3, <4>4, <4>5, <4>6 DEF Works, Run
    <3> QED
      BY <3>1, <3>2, <3>3, <3>4
  <2>7. ASSUME pc'[v] = "match"
        PROVE  /\ kind'[v] = "row" =>
                     \A r \in RowId, o \in Object : <<r, o>> \in seen'[v] => Noted(v, r, o)'
               /\ kind'[v] = "tombstone" => seen'[v] \subseteq Object \ alive'
    <3>1. /\ kind'[v] = kind[v]
          /\ moved'[v] = moved[v]
          /\ seen'[v] = IF kind[v] = "row" THEN {<<r, row[r]>> : r \in RowsInBatch(v)}
                                           ELSE {tomb[t] : t \in TombstonesInBatch(v)}
      BY <1>6, <2>7, AtMatch, QueryDoes
    <3>2. \A r \in RowsInBatch(v) : r \in RowId /\ Noted(v, r, row[r])
      BY DEF TypeOK, RowsInBatch, Rows, Noted
    <3>3. alive' = alive /\ \A t \in TombstonesInBatch(v) : tomb[t] \in Object \ alive
      BY <2>1 DEF TypeOK, TaskStep, TombstonesInBatch, Tombstones, Dead
    <3>4. CASE kind[v] = "row"
      <4>1. \A r \in RowId, o \in Object : <<r, o>> \in seen'[v] => Noted(v, r, o)
        BY <3>1, <3>2, <3>4
      <4> QED
        BY <2>3, <3>1, <3>4, <4>1
    <3>5. CASE kind[v] # "row"
      <4>1. seen'[v] = {tomb[t] : t \in TombstonesInBatch(v)}
        BY <3>1, <3>5
      <4> QED
        BY <3>1, <3>3, <3>5, <4>1
    <3> QED
      BY <3>4, <3>5
  <2> QED
    BY <2>5, <2>6, <2>7 DEF Found
<1> QED
  BY <1>2, <1>3, <1>4, <1>5, <1>6 DEF Next, Works

LEMMA IInvNext == IInv /\ [Next]_vars => IInv'
<1> SUFFICES ASSUME IInv, [Next]_vars PROVE IInv'
  OBVIOUS
<1>1. CASE Next
  <2>1. TypeOK /\ Reached /\ Dead /\ SeenTombstones /\ Found
    BY DEF IInv
  <2>2. TypeOK' /\ Reached' /\ Dead' /\ SeenTombstones' /\ Found'
    BY <1>1, <2>1, TypesNext, ReachedNext, DeadNext, SeenTombstonesNext, FoundNext
  <2>3. onDelete' = onDelete
    <3>1. ASSUME NEW w \in Worker, Works(w) PROVE onDelete' = onDelete
      BY <2>1, <3>1, TaskSteps DEF TaskStep, setup
    <3> QED
      BY <1>1, <3>1 DEF Works, Next, InsertRow, MoveRow, DeleteObject, RecordTombstone, setup
  <2>4. onDelete # "DO_NOTHING" => SeenRows' /\ Ahead'
    BY <1>1, <2>1, AheadNext DEF IInv
  <2> QED
    BY <2>2, <2>3, <2>4 DEF IInv
<1>2. CASE UNCHANGED vars
  <2>1. TypeOK' /\ Reached' /\ Dead' /\ SeenTombstones'
    BY <1>2 DEF vars, setup, tables, batch, found, history, IInv, TypeOK, Rows,
                Reached, Within, Given, Tombstones, Dead, SeenTombstones
  <2>2. Found'
    BY <1>2 DEF vars, setup, tables, batch, found, history, IInv, Found, Doomed, Noted
  <2>3. \A r, t : Orphan(r, t)' = Orphan(r, t)
    BY <1>2 DEF vars, tables, history, Orphan
  <2>4. \A k, i, r : Behind(k, i, r)' = Behind(k, i, r)
    BY <1>2 DEF vars, batch, found, Behind, Passed
  <2>5. onDelete # "DO_NOTHING" => Ahead'
    BY <2>3, <2>4 DEF IInv, Ahead
  <2>6. onDelete # "DO_NOTHING" => SeenRows'
    BY <1>2, <2>3, <2>4 DEF vars, tables, batch, found, IInv, SeenRows
  <2> QED
    BY <1>2, <2>1, <2>2, <2>5, <2>6 DEF vars, setup, IInv
<1> QED
  BY <1>1, <1>2

\* What tasks believe of rows and tombstones is true in every reachable state
\* (_process_tombstone_reconciliation).
THEOREM Invariance == Spec => []IInv
BY InitHolds, IInvNext, PTL DEF Spec

\* Every reachable state has its types.
THEOREM TypeCorrect == Spec => []TypeOK
<1>1. IInv => TypeOK
  BY DEF IInv
<1> QED
  BY <1>1, Invariance, PTL

\* An orphan is ahead of one of the watermarks, whatever tasks overlap, die or
\* write the watermarks late: the cascade overlooks none whose ids became
\* visible in order (_chunk_watermark_batch, set_watermark).
THEOREM NoneIsSkipped == Spec => []NoOrphanSkipped
<1>1. IInv => NoOrphanSkipped
  <2> SUFFICES ASSUME IInv, onDelete # "DO_NOTHING", NEW r \in RowId, NEW t \in TombstoneId, Orphan(r, t)
               PROVE  mark["row"] < r \/ mark["tombstone"] < t
    BY DEF NoOrphanSkipped
  <2>1. ~(r <= mark["row"]) \/ ~(t <= mark["tombstone"])
    BY DEF IInv, Ahead, Behind
  <2> QED
    BY <2>1, Ranges DEF IInv, TypeOK, Kind, Missing
<1> QED
  BY <1>1, Invariance, PTL

\* A task takes a row from a living object, or one without an object, only if
\* the application moved the row after the task had found it
\* (_process_tombstone_reconciliation).
THEOREM LivingAreSafe == Spec => LivingKeepTheirRows
<1>1. ASSUME IInv, [Next]_vars, NEW r \in RowId,
             pc' # pc, row[r] \in alive \cup {Null}, row'[r] # row[r]
      PROVE  \E w \in Worker : pc'[w] # pc[w] /\ r \in moved[w]
  <2>1. TypeOK /\ Reached /\ Found
    BY <1>1 DEF IInv
  <2>2. PICK w \in Worker : Works(w)
    <3>1. Next
      BY <1>1 DEF vars
    <3>2. \A i \in RowId, o \in Object \cup {Null} : ~InsertRow(i, o) /\ ~MoveRow(i, o)
      BY <1>1 DEF InsertRow, MoveRow
    <3>3. \A o \in Object, i \in TombstoneId : ~RecordTombstone(i, o)
      BY <1>1 DEF RecordTombstone
    <3>4. \A o \in Object : ~DeleteObject(o)
      BY <1>1 DEF DeleteObject
    <3> QED
      BY <3>1, <3>2, <3>3, <3>4 DEF Next, Works
  <2>3. TaskStep(w)
    BY <2>1, <2>2, TaskSteps
  <2>4. r \in ids[w] /\ row'[r] = (IF onDelete = "CASCADE" THEN Absent ELSE Null) /\ pc'[w] # pc[w]
    BY <1>1, <2>3 DEF TaskStep, Cleans
  <2>5. Doomed(w, r)
    BY <2>1, <2>4 DEF Found
  <2> QED
    BY <1>1, <2>4, <2>5 DEF Doomed
<1>2. IInv /\ [Next]_vars =>
        [\A r \in RowId :
            pc' # pc /\ row[r] \in alive \cup {Null} /\ row'[r] # row[r] =>
                \E w \in Worker : pc'[w] # pc[w] /\ r \in moved[w]]_vars
  BY <1>1
<1> QED
  BY <1>2, Invariance, PTL DEF Spec, LivingKeepTheirRows
=============================================================================
