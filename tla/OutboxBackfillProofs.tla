------------------------- MODULE OutboxBackfillProofs -------------------------
(***************************************************************************)
(* The backfill skips no row, for any tables, ids, rates and number of     *)
(* concurrent runs, and however versions are bumped and options set; what  *)
(* it leaves out are the versions a finishing run stores the state past.   *)
(***************************************************************************)
EXTENDS OutboxBackfill, FiniteSetTheorems, TLAPS

\* Versions: the state is at most one past the deployed code; a cursor belongs to
\* a version no later than the target; and a state past the target was stored by
\* a run that passed the versions in between.
Versions ==
    \A t \in Table :
        /\ 1 <= coded[t]
        /\ version[t] <= coded[t] + 1
        /\ selfHosted => option[t] = 0 /\ passed[t] = {}
        /\ lower[t] > 0 => 1 <= version[t] /\ version[t] <= Target(t)
        /\ \A u \in Target(t) + 1..version[t] - 1 : u \in passed[t]

\* Runs: what their code and their batch can be.
RunOK(w) ==
    /\ force[w] => selfHosted
    /\ \A t \in Table : 1 <= code[w][t] /\ code[w][t] <= coded[t]
    /\ pc[w] \in {"scan", "init", "version", "min", "upper", "rows", "produce"} => remaining[w] >= 1
    /\ pc[w] \in {"init", "version", "min", "upper", "rows", "produce"} => at[w] \in Table
    /\ pc[w] = "version" =>
          /\ 1 <= ver[w]
          /\ ver[w] <= coded[at[w]] + 1
          /\ low[w] > 0 => ver[w] <= Target(at[w])
    /\ pc[w] \in {"min", "upper", "rows", "produce"} =>
          /\ 1 <= ver[w]
          /\ ver[w] <= Target(at[w])
          /\ ver[w] <= code[w][at[w]]
          /\ selfHosted => ver[w] = code[w][at[w]]

Runs == \A w \in Worker : RunOK(w)

\* What a run has behind it is covered.
BehindOK(w) ==
    /\ pc[w] \in {"version", "min", "upper"} =>
          \A i \in rows[at[w]] : i < low[w] => covered[at[w]][i] >= ver[w]
    /\ pc[w] = "rows" =>
          \A i \in rows[at[w]] :
              i < low[w] \/ (i > up[w] /\ ~HasMore(w)) => covered[at[w]][i] >= ver[w]
    /\ pc[w] = "produce" =>
          \A i \in rows[at[w]] \ todo[w] :
              i <= up[w] \/ ~HasMore(w) => covered[at[w]][i] >= ver[w]

Behind == \A w \in Worker : BehindOK(w)

\* An upgrade run that has found nothing to do has only seen covered tables, and
\* is right to skip one whose state it read as past its code, unless a newer
\* release was deployed.
SeenOK(w) ==
    /\ selfHosted /\ pc[w] = "version" /\ ver[w] > coded[at[w]] =>
          \A i \in rows[at[w]] : covered[at[w]][i] >= coded[at[w]]
    /\ force[w] /\ ~found[w] =>
          \A t \in Table :
              /\ code[w][t] = coded[t]
              /\ \/ pc[w] = "done"
                 \/ /\ pc[w] \in {"scan", "init", "version", "min", "upper", "rows", "produce"}
                    /\ t < at[w]
              => \A i \in rows[t] : covered[t][i] >= coded[t]

Seen == \A w \in Worker : SeenOK(w)

IInv ==
    /\ TypeOK
    /\ Versions
    /\ Runs
    /\ CursorIsCovered
    /\ DoneMeansCovered
    /\ Behind
    /\ Seen

-----------------------------------------------------------------------------
(* Facts about the definitions. *)

LEMMA TableNumbers ==
    /\ 1 \in 1..NTables + 1
    /\ \A t \in Table : t \in Nat /\ t \in 1..NTables + 1 /\ t + 1 \in 1..NTables + 1
    /\ \A t \in Table : t <= NTables
BY CountAssumption DEF Table

LEMMA TargetType ==
    ASSUME TypeOK, NEW t \in Table
    PROVE  Target(t) \in Nat
BY DEF TypeOK, Target, VersionFor, Smaller

LEMMA TargetKept ==
    ASSUME UNCHANGED rollout
    PROVE  \A t \in Table : Target(t)' = Target(t)
BY DEF rollout, Target, VersionFor, Smaller

\* Rows have ids above zero.
LEMMA RowIds ==
    ASSUME TypeOK, NEW t \in Table, NEW i \in rows[t]
    PROVE  /\ i \in Id /\ i \in Nat /\ i > 0
           /\ covered[t][i] \in Nat
<1>1. i \in Id /\ covered[t][i] \in Nat
  BY DEF TypeOK
<1>2. i \in Nat \ {0}
  BY <1>1, IdsAssumption DEF Id
<1> QED
  BY <1>1, <1>2

\* The target of a self-hosted installation is the code's version.
LEMMA SelfHostedTarget ==
    ASSUME selfHosted, NEW t \in Table
    PROVE  Target(t) = coded[t]
BY DEF Target, VersionFor

\* What a run holds while it works on a batch.
LEMMA BatchVersion ==
    ASSUME IInv, NEW w \in Worker, pc[w] \in {"min", "upper", "rows", "produce"}
    PROVE  /\ at[w] \in Table
           /\ ver[w] \in Nat /\ 1 <= ver[w]
           /\ code[w][at[w]] \in Nat /\ ver[w] <= code[w][at[w]]
           /\ Target(at[w]) \in Nat /\ ver[w] <= Target(at[w])
           /\ low[w] \in Nat /\ up[w] \in Nat
           /\ remaining[w] \in Int /\ remaining[w] >= 1
<1>1. /\ at[w] \in Table /\ 1 <= ver[w] /\ ver[w] <= code[w][at[w]]
      /\ ver[w] <= Target(at[w]) /\ remaining[w] >= 1
  BY DEF IInv, Runs, RunOK
<1>2. Target(at[w]) \in Nat
  BY <1>1, TargetType DEF IInv
<1> QED
  BY <1>1, <1>2 DEF IInv, TypeOK

-----------------------------------------------------------------------------
(* The rest of the system. *)

\* A row that was there keeps what covers it, and a new one reaches the target.
Grows ==
    \A t \in Table : \A i \in rows'[t] :
        \/ i \in rows[t] /\ covered'[t][i] >= covered[t][i]
        \/ covered'[t][i] >= Target(t)

\* What changes of the tables' rows preserve when the runs and redis stand still.
LEMMA TableStep ==
    ASSUME IInv, TypeOK', Grows, UNCHANGED <<redis, rollout, pc, run, crashes>>
    PROVE  IInv'
<1>1. \A t \in Table : Target(t)' = Target(t) /\ Target(t) \in Nat
  BY TargetKept, TargetType DEF IInv
<1>2. \A t \in Table : \A i \in rows'[t] : covered'[t][i] \in Nat
  BY DEF TypeOK
<1>3. \A t \in Table : \A i \in rows[t] : covered[t][i] \in Nat
  BY RowIds DEF IInv
<1>4. \A t \in Table : \A i \in rows'[t] : i \in Nat
  <2> SUFFICES ASSUME NEW t \in Table, NEW i \in rows'[t] PROVE i \in Nat
    OBVIOUS
  <2>1. i \in Id
    BY DEF TypeOK
  <2> QED
    BY <2>1, IdsAssumption DEF Id
<1>5. ASSUME NEW t \in Table, NEW i \in rows'[t], NEW v \in Nat, v <= Target(t),
             i \in rows[t] => covered[t][i] >= v
      PROVE  covered'[t][i] >= v
  BY <1>1, <1>2, <1>3, <1>5 DEF Grows
<1>6. Versions'
  BY <1>1 DEF IInv, Versions, redis, rollout
<1>7. Runs'
  BY <1>1 DEF IInv, Runs, RunOK, run, batch, rollout
<1>8. CursorIsCovered'
  <2> SUFFICES ASSUME NEW t \in Table, NEW i \in rows'[t], i < lower[t]
               PROVE  covered'[t][i] >= version[t]
    BY DEF CursorIsCovered, redis
  <2>1. lower[t] \in Nat /\ i \in Nat /\ version[t] \in Nat
    BY <1>4 DEF IInv, TypeOK
  <2>2. version[t] <= Target(t)
    BY <2>1 DEF IInv, Versions
  <2>3. i \in rows[t] => covered[t][i] >= version[t]
    BY DEF IInv, CursorIsCovered
  <2> QED
    BY <2>1, <2>2, <2>3, <1>5
<1>9. DoneMeansCovered'
  <2> SUFFICES ASSUME NEW t \in Table, version[t] > Target(t), Target(t) \notin passed[t],
                      NEW i \in rows'[t]
               PROVE  covered'[t][i] >= Target(t)
    BY <1>1 DEF DoneMeansCovered, redis
  <2>1. i \in rows[t] => covered[t][i] >= Target(t)
    BY DEF IInv, DoneMeansCovered
  <2> QED
    BY <2>1, <1>1, <1>5
<1>10. Behind'
  <2> SUFFICES ASSUME NEW w \in Worker
               PROVE  BehindOK(w)'
    BY DEF Behind
  <2>1. BehindOK(w)
    BY DEF IInv, Behind
  <2>2. ASSUME pc[w] = "version", NEW i \in rows'[at[w]], i < low[w]
        PROVE  covered'[at[w]][i] >= ver[w]
    <3>1. at[w] \in Table /\ ver[w] \in Nat /\ low[w] \in Nat
      BY <2>2 DEF IInv, TypeOK, Runs, RunOK
    <3>2. i \in Nat /\ low[w] > 0
      BY <2>2, <3>1, <1>4
    <3>3. ver[w] <= Target(at[w])
      BY <2>2, <3>2 DEF IInv, Runs, RunOK
    <3> QED
      BY <2>1, <2>2, <3>1, <3>3, <1>5 DEF BehindOK
  <2>3. ASSUME pc[w] \in {"min", "upper"}, NEW i \in rows'[at[w]], i < low[w]
        PROVE  covered'[at[w]][i] >= ver[w]
    <3>1. at[w] \in Table /\ ver[w] \in Nat /\ ver[w] <= Target(at[w])
      BY <2>3, BatchVersion
    <3> QED
      BY <2>1, <2>3, <3>1, <1>5 DEF BehindOK
  <2>4. ASSUME pc[w] = "rows", NEW i \in rows'[at[w]],
               i < low[w] \/ (i > up[w] /\ ~HasMore(w))
        PROVE  covered'[at[w]][i] >= ver[w]
    <3>1. at[w] \in Table /\ ver[w] \in Nat /\ ver[w] <= Target(at[w])
      BY <2>4, BatchVersion
    <3> QED
      BY <2>1, <2>4, <3>1, <1>5 DEF BehindOK
  <2>5. ASSUME pc[w] = "produce", NEW i \in rows'[at[w]] \ todo[w],
               i <= up[w] \/ ~HasMore(w)
        PROVE  covered'[at[w]][i] >= ver[w]
    <3>1. at[w] \in Table /\ ver[w] \in Nat /\ ver[w] <= Target(at[w])
      BY <2>5, BatchVersion
    <3> QED
      BY <2>1, <2>5, <3>1, <1>5 DEF BehindOK
  <2> QED
    BY <2>2, <2>3, <2>4, <2>5 DEF BehindOK, HasMore, run, batch
<1>11. Seen'
  <2> SUFFICES ASSUME NEW w \in Worker
               PROVE  SeenOK(w)'
    BY DEF Seen
  <2>1. SeenOK(w)
    BY DEF IInv, Seen
  <2>2. ASSUME selfHosted, pc[w] = "version", ver[w] > coded[at[w]],
               NEW i \in rows'[at[w]]
        PROVE  covered'[at[w]][i] >= coded[at[w]]
    <3>1. at[w] \in Table /\ coded[at[w]] = Target(at[w])
      BY <2>2, SelfHostedTarget DEF IInv, Runs, RunOK
    <3> QED
      BY <2>1, <2>2, <3>1, <1>1, <1>5 DEF SeenOK
  <2>3. ASSUME force[w], ~found[w], NEW t \in Table, code[w][t] = coded[t],
               \/ pc[w] = "done"
               \/ /\ pc[w] \in {"scan", "init", "version", "min", "upper", "rows", "produce"}
                  /\ t < at[w],
               NEW i \in rows'[t]
        PROVE  covered'[t][i] >= coded[t]
    <3>1. coded[t] = Target(t)
      BY <2>3, SelfHostedTarget DEF IInv, Runs, RunOK
    <3>2. i \in rows[t] => covered[t][i] >= coded[t]
      BY <2>1, <2>3 DEF SeenOK
    <3> QED
      BY <3>1, <3>2, <1>1, <1>5
  <2> QED
    BY <2>2, <2>3 DEF SeenOK, run, batch, rollout
<1> QED
  BY <1>6, <1>7, <1>8, <1>9, <1>10, <1>11 DEF IInv

LEMMA InsertStep ==
    ASSUME IInv, NEW t \in Table, NEW i \in Ids[t], InsertRow(t, i)
    PROVE  IInv'
<1>1. Target(t) \in Nat /\ i \in Id
  BY TargetType DEF IInv, Id
<1>2. TypeOK'
  BY <1>1 DEF IInv, TypeOK, InsertRow, redis, rollout, run, batch
<1>3. Grows
  <2> SUFFICES ASSUME NEW u \in Table, NEW j \in rows'[u]
               PROVE  \/ j \in rows[u] /\ covered'[u][j] >= covered[u][j]
                      \/ covered'[u][j] >= Target(u)
    BY DEF Grows
  <2>1. CASE u = t /\ j = i
    <3>1. covered'[u][j] = Target(u)
      BY <2>1, <1>1 DEF InsertRow, IInv, TypeOK
    <3> QED
      BY <3>1, <2>1, <1>1
  <2>2. CASE ~(u = t /\ j = i)
    <3>1. j \in rows[u] /\ covered'[u][j] = covered[u][j] /\ covered[u][j] \in Nat
      BY <2>2, <1>1 DEF InsertRow, IInv, TypeOK
    <3> QED
      BY <3>1
  <2> QED
    BY <2>1, <2>2
<1> QED
  BY <1>2, <1>3, TableStep DEF InsertRow

LEMMA DeleteStep ==
    ASSUME IInv, NEW t \in Table, NEW i \in Ids[t], DeleteRow(t, i)
    PROVE  IInv'
<1>1. i \in Id
  BY DEF Id
<1>2. TypeOK'
  BY <1>1 DEF IInv, TypeOK, DeleteRow, redis, rollout, run, batch
<1>3. ASSUME NEW u \in Table, NEW j \in rows'[u]
      PROVE  j \in rows[u] /\ ~(u = t /\ j = i)
  BY <1>3 DEF DeleteRow, IInv, TypeOK
<1>4. ASSUME NEW u \in Table, NEW j \in rows'[u]
      PROVE  covered'[u][j] = covered[u][j] /\ covered[u][j] \in Nat
  BY <1>1, <1>3, <1>4, RowIds DEF DeleteRow, IInv, TypeOK
<1>5. Grows
  BY <1>3, <1>4 DEF Grows
<1> QED
  BY <1>2, <1>5, TableStep DEF DeleteRow

\* What bumps and options preserve: a target only grows, and a state that was
\* past the old one either is past the new one too, which was passed, or has not
\* reached it.
LEMMA RolloutStep ==
    ASSUME IInv, TypeOK', UNCHANGED <<table, redis, selfHosted, pc, run, crashes>>,
           \A t \in Table : coded[t] <= coded'[t] /\ Target(t) <= Target(t)',
           selfHosted => option' = option
    PROVE  IInv'
<1>1. \A t \in Table :
        /\ Target(t) \in Nat /\ Target(t)' \in Nat /\ Target(t) <= Target(t)'
        /\ coded[t] \in Nat /\ coded'[t] \in Nat /\ coded[t] <= coded'[t]
        /\ version[t] \in Nat
  <2>1. \A t \in Table : Target(t)' \in Nat
    BY DEF TypeOK, Target, VersionFor, Smaller
  <2> QED
    BY <2>1, TargetType DEF IInv, TypeOK
<1>2. Versions'
  <2> SUFFICES ASSUME NEW t \in Table PROVE
          (/\ 1 <= coded[t]
           /\ version[t] <= coded[t] + 1
           /\ selfHosted => option[t] = 0 /\ passed[t] = {}
           /\ lower[t] > 0 => 1 <= version[t] /\ version[t] <= Target(t)
           /\ \A u \in Target(t) + 1..version[t] - 1 : u \in passed[t])'
    BY DEF Versions
  <2>1. /\ 1 <= coded'[t]
        /\ version[t] <= coded'[t] + 1
        /\ selfHosted => option'[t] = 0 /\ passed[t] = {}
        /\ lower[t] > 0 => 1 <= version[t] /\ version[t] <= Target(t)'
    BY <1>1 DEF IInv, Versions
  <2>2. ASSUME NEW u \in Target(t)' + 1..version[t] - 1
        PROVE  u \in passed[t]
    <3>1. u \in Target(t) + 1..version[t] - 1
      BY <1>1, <2>2
    <3> QED
      BY <3>1 DEF IInv, Versions
  <2> QED
    BY <2>1, <2>2 DEF redis
<1>3. Runs'
  <2> SUFFICES ASSUME NEW w \in Worker PROVE RunOK(w)'
    BY DEF Runs
  <2>1. RunOK(w)
    BY DEF IInv, Runs
  <2>2. \A t \in Table : code[w][t] \in Nat
    BY DEF IInv, TypeOK
  <2>3. /\ ver[w] \in Nat
        /\ \A t \in Table : 1 <= code[w][t] /\ code[w][t] <= coded'[t]
    BY <2>1, <2>2, <1>1 DEF IInv, TypeOK, RunOK
  <2>4. ASSUME pc[w] = "version"
        PROVE  /\ 1 <= ver[w]
               /\ ver[w] <= coded'[at[w]] + 1
               /\ low[w] > 0 => \A t \in Table : t = at[w] => ver[w] <= Target(t)'
    BY <2>1, <2>3, <2>4, <1>1 DEF RunOK
  <2>5. ASSUME pc[w] \in {"min", "upper", "rows", "produce"}
        PROVE  \A t \in Table : t = at[w] => ver[w] <= Target(t)'
    <3>1. at[w] \in Table /\ ver[w] \in Nat /\ ver[w] <= Target(at[w])
      BY <2>5, BatchVersion
    <3> QED
      BY <3>1, <1>1
  <2>6. /\ pc' = pc /\ force' = force /\ code' = code /\ remaining' = remaining
        /\ at' = at /\ low' = low /\ ver' = ver /\ selfHosted' = selfHosted
    BY DEF run, batch
  <2>7. /\ pc[w] = "version" /\ low[w] > 0 => ver[w] <= Target(at[w])'
        /\ pc[w] \in {"min", "upper", "rows", "produce"} => ver[w] <= Target(at[w])'
    <3>1. pc[w] \in {"version", "min", "upper", "rows", "produce"} => at[w] \in Table
      BY <2>1 DEF RunOK
    <3> QED
      BY <3>1, <2>4, <2>5, <2>6 DEF Target, VersionFor, Smaller
  <2> QED
    BY <2>1, <2>3, <2>4, <2>6, <2>7 DEF RunOK
<1>4. CursorIsCovered'
  BY DEF IInv, CursorIsCovered, redis, table
<1>5. DoneMeansCovered'
  <2> SUFFICES ASSUME NEW t \in Table, version[t] > Target(t)', Target(t)' \notin passed[t],
                      NEW i \in rows[t]
               PROVE  covered[t][i] >= Target(t)'
    BY DEF DoneMeansCovered, redis, table
  <2>1. Target(t)' \notin Target(t) + 1..version[t] - 1
    BY DEF IInv, Versions
  <2>2. Target(t)' = Target(t)
    BY <2>1, <1>1
  <2> QED
    BY <2>2 DEF IInv, DoneMeansCovered
<1>6. Behind'
  BY DEF IInv, Behind, BehindOK, HasMore, run, batch, table
<1>7. Seen'
  <2> SUFFICES ASSUME NEW w \in Worker PROVE SeenOK(w)'
    BY DEF Seen
  <2>1. SeenOK(w) /\ RunOK(w)
    BY DEF IInv, Seen, Runs
  <2>2. ver[w] \in Nat /\ \A t \in Table : code[w][t] \in Nat
    BY DEF IInv, TypeOK
  <2>3. ASSUME pc[w] = "version", ver[w] > coded'[at[w]]
        PROVE  coded'[at[w]] = coded[at[w]]
    <3>1. at[w] \in Table /\ ver[w] <= coded[at[w]] + 1
      BY <2>1, <2>3 DEF RunOK
    <3> QED
      BY <2>2, <2>3, <3>1, <1>1
  <2>4. ASSUME NEW t \in Table, code[w][t] = coded'[t]
        PROVE  coded'[t] = coded[t]
    <3>1. code[w][t] <= coded[t]
      BY <2>1 DEF RunOK
    <3> QED
      BY <2>2, <2>4, <3>1, <1>1
  <2> QED
    BY <2>1, <2>3, <2>4 DEF SeenOK, run, batch, table
<1> QED
  BY <1>2, <1>3, <1>4, <1>5, <1>6, <1>7 DEF IInv

LEMMA DeployStep ==
    ASSUME IInv, NEW t \in Table, Deploy(t)
    PROVE  IInv'
<1>1. /\ coded' = [coded EXCEPT ![t] = coded[t] + 1]
      /\ UNCHANGED <<table, redis, selfHosted, option, pc, run, crashes>>
  BY DEF Deploy
<1>2. TypeOK'
  BY <1>1 DEF IInv, TypeOK, table, redis, run, batch
<1>3. \A u \in Table : coded[u] \in Nat /\ option[u] \in Nat /\ coded[u] <= coded'[u]
                       /\ coded'[u] \in Nat
  BY <1>1 DEF IInv, TypeOK
<1>4. \A u \in Table : Target(u) <= Target(u)'
  BY <1>1, <1>3 DEF Target, VersionFor, Smaller
<1> QED
  BY <1>1, <1>2, <1>3, <1>4, RolloutStep

LEMMA SetOptionStep ==
    ASSUME IInv, NEW t \in Table, NEW v \in Nat, SetOption(t, v)
    PROVE  IInv'
<1>1. /\ ~selfHosted
      /\ option[t] < v
      /\ option' = [option EXCEPT ![t] = v]
      /\ UNCHANGED <<table, redis, selfHosted, coded, pc, run, crashes>>
  BY DEF SetOption
<1>2. TypeOK'
  BY <1>1 DEF IInv, TypeOK, table, redis, run, batch
<1>3. \A u \in Table : /\ coded[u] \in Nat /\ option[u] \in Nat /\ option'[u] \in Nat
                       /\ option[u] <= option'[u] /\ coded'[u] = coded[u]
  BY <1>1 DEF IInv, TypeOK
<1>4. \A u \in Table : Target(u) <= Target(u)'
  BY <1>1, <1>3 DEF Target, VersionFor, Smaller
<1> QED
  BY <1>1, <1>2, <1>3, <1>4, RolloutStep

-----------------------------------------------------------------------------
(* The steps of a run. *)

\* A step of w leaves the other runs alone.
OthersKept(w) ==
    \A v \in Worker \ {w} :
        /\ pc'[v] = pc[v] /\ force'[v] = force[v] /\ code'[v] = code[v]
        /\ remaining'[v] = remaining[v] /\ found'[v] = found[v] /\ at'[v] = at[v]
        /\ low'[v] = low[v] /\ up'[v] = up[v] /\ ver'[v] = ver[v] /\ todo'[v] = todo[v]

LEMMA RedisStep ==
    ASSUME IInv, NEW w \in Worker, TypeOK', UNCHANGED <<table, rollout>>,
           OthersKept(w), RunOK(w)', BehindOK(w)', SeenOK(w)',
           Versions', CursorIsCovered', DoneMeansCovered'
    PROVE  IInv'
<1>1. ASSUME NEW v \in Worker \ {w}
      PROVE  RunOK(v)' /\ BehindOK(v)' /\ SeenOK(v)'
  <2>1. RunOK(v) /\ BehindOK(v) /\ SeenOK(v)
    BY <1>1 DEF IInv, Runs, Behind, Seen
  <2>2. RunOK(v)'
    BY <1>1, <2>1 DEF OthersKept, RunOK, Target, VersionFor, Smaller, table, rollout
  <2>3. BehindOK(v)'
    BY <1>1, <2>1 DEF OthersKept, BehindOK, HasMore, table, rollout
  <2>4. SeenOK(v)'
    BY <1>1, <2>1 DEF OthersKept, SeenOK, table, rollout
  <2> QED
    BY <2>2, <2>3, <2>4
<1> QED
  BY <1>1 DEF IInv, Runs, Behind, Seen

LEMMA RunStep ==
    ASSUME IInv, NEW w \in Worker, TypeOK', UNCHANGED <<table, redis, rollout>>,
           OthersKept(w), RunOK(w)', BehindOK(w)', SeenOK(w)'
    PROVE  IInv'
<1>1. \A t \in Table : Target(t)' = Target(t)
  BY TargetKept
<1>2. Versions' /\ CursorIsCovered' /\ DoneMeansCovered'
  BY <1>1 DEF IInv, Versions, CursorIsCovered, DoneMeansCovered, table, redis, rollout
<1> QED
  BY <1>2, RedisStep

LEMMA StartStep ==
    ASSUME IInv, NEW w \in Worker, NEW forced \in BOOLEAN, NEW n \in 1..Rate,
           StartRun(w, forced, n)
    PROVE  IInv'
<1>1. TypeOK'
  BY TableNumbers DEF IInv, TypeOK, StartRun, table, redis, rollout, batch
<1>2. OthersKept(w)
  BY DEF IInv, TypeOK, StartRun, OthersKept, batch
<1>3. RunOK(w)'
  BY DEF IInv, TypeOK, Versions, StartRun, RunOK, rollout
<1>4. BehindOK(w)' /\ SeenOK(w)'
  BY DEF IInv, TypeOK, StartRun, BehindOK, SeenOK, Table
<1> QED
  BY <1>1, <1>2, <1>3, <1>4, RunStep DEF StartRun

LEMMA ReadStep ==
    ASSUME IInv, NEW w \in Worker, ReadState(w)
    PROVE  IInv'
<1> DEFINE t == at[w]
<1>1. /\ pc[w] = "scan" /\ t \in Table
      /\ low' = [low EXCEPT ![w] = lower[t]]
      /\ ver' = [ver EXCEPT ![w] = version[t]]
      /\ pc' = [pc EXCEPT ![w] = IF version[t] = 0 THEN "init" ELSE "version"]
      /\ UNCHANGED <<table, redis, rollout, force, code, remaining, found, at, up, todo, crashes>>
  BY DEF ReadState
<1>2. lower[t] \in Nat /\ version[t] \in Nat /\ coded[t] \in Nat
  BY <1>1 DEF IInv, TypeOK
<1>3. /\ low'[w] = lower[t] /\ ver'[w] = version[t] /\ at'[w] = t
      /\ pc'[w] \in {"init", "version"} /\ (pc'[w] = "version" => version[t] >= 1)
  BY <1>1, <1>2 DEF IInv, TypeOK
<1>4. TypeOK'
  BY <1>1, <1>2 DEF IInv, TypeOK, table, redis, rollout
<1>5. OthersKept(w)
  BY <1>1 DEF IInv, TypeOK, OthersKept
<1>6. RunOK(w)'
  <2>1. /\ version[t] <= coded[t] + 1
        /\ lower[t] > 0 => version[t] <= Target(t)
    BY <1>1 DEF IInv, Versions
  <2>2. RunOK(w)
    BY DEF IInv, Runs
  <2> QED
    BY <1>1, <1>3, <2>1, <2>2 DEF RunOK, rollout, Target, VersionFor, Smaller
<1>7. BehindOK(w)'
  BY <1>1, <1>3 DEF IInv, CursorIsCovered, BehindOK, table
<1>8. SeenOK(w)'
  <2>1. ASSUME selfHosted, version[t] > coded[t], NEW i \in rows[t]
        PROVE  covered[t][i] >= coded[t]
    <3>1. Target(t) = coded[t] /\ passed[t] = {}
      BY <1>1, <2>1, SelfHostedTarget DEF IInv, Versions
    <3> QED
      BY <1>1, <2>1, <3>1 DEF IInv, DoneMeansCovered
  <2>2. SeenOK(w)
    BY DEF IInv, Seen
  <2> QED
    BY <1>1, <1>3, <2>1, <2>2 DEF SeenOK, table, rollout
<1> QED
  BY <1>1, <1>4, <1>5, <1>6, <1>7, <1>8, RunStep

LEMMA InitStep ==
    ASSUME IInv, NEW w \in Worker, InitState(w)
    PROVE  IInv'
<1> DEFINE t == at[w]
<1>1. /\ pc[w] = "init"
      /\ lower' = [lower EXCEPT ![t] = 0]
      /\ version' = [version EXCEPT ![t] = 1]
      /\ low' = [low EXCEPT ![w] = 0]
      /\ ver' = [ver EXCEPT ![w] = 1]
      /\ pc' = [pc EXCEPT ![w] = "version"]
      /\ UNCHANGED <<table, passed, rollout, force, code, remaining, found, at, up, todo, crashes>>
  BY DEF InitState
<1>2. t \in Table
  BY <1>1 DEF IInv, Runs, RunOK
<1>3. /\ coded[t] \in Nat /\ 1 <= coded[t] /\ Target(t) \in Nat
      /\ low'[w] = 0 /\ ver'[w] = 1 /\ at'[w] = t /\ pc'[w] = "version"
  BY <1>1, <1>2, TargetType DEF IInv, TypeOK, Versions
<1>4. /\ lower'[t] = 0 /\ version'[t] = 1
      /\ \A u \in Table : u # t => lower'[u] = lower[u] /\ version'[u] = version[u]
  BY <1>1, <1>2 DEF IInv, TypeOK
<1>5. \A u \in Table : Target(u)' = Target(u)
  BY <1>1, TargetKept
<1>6. TypeOK'
  BY <1>1, <1>2 DEF IInv, TypeOK, table, rollout
<1>7. OthersKept(w)
  BY <1>1 DEF IInv, TypeOK, OthersKept
<1>8. RunOK(w)'
  <2>1. RunOK(w)
    BY DEF IInv, Runs
  <2> QED
    BY <1>1, <1>2, <1>3, <2>1 DEF RunOK, rollout
<1>9. BehindOK(w)'
  <2>1. \A i \in rows[t] : i \in Nat
    BY <1>2, RowIds DEF IInv
  <2> QED
    BY <1>1, <1>3, <2>1 DEF BehindOK, table
<1>10. SeenOK(w)'
  <2>1. SeenOK(w)
    BY DEF IInv, Seen
  <2> QED
    BY <1>1, <1>3, <2>1 DEF SeenOK, table, rollout
<1>11. Versions'
  <2> SUFFICES ASSUME NEW u \in Table PROVE
          (/\ 1 <= coded[u]
           /\ version[u] <= coded[u] + 1
           /\ selfHosted => option[u] = 0 /\ passed[u] = {}
           /\ lower[u] > 0 => 1 <= version[u] /\ version[u] <= Target(u)
           /\ \A v \in Target(u) + 1..version[u] - 1 : v \in passed[u])'
    BY DEF Versions
  <2>1. CASE u # t
    BY <2>1, <1>1, <1>4, <1>5 DEF IInv, Versions, rollout
  <2>2. CASE u = t
    BY <2>2, <1>1, <1>2, <1>3, <1>4, <1>5 DEF IInv, Versions, rollout
  <2> QED
    BY <2>1, <2>2
<1>12. CursorIsCovered'
  <2> SUFFICES ASSUME NEW u \in Table, NEW i \in rows[u], i < lower'[u]
               PROVE  covered[u][i] >= version'[u]
    BY <1>1 DEF CursorIsCovered, table
  <2>1. i \in Nat
    BY RowIds DEF IInv
  <2>2. u # t
    BY <2>1, <1>4
  <2> QED
    BY <2>2, <1>4 DEF IInv, CursorIsCovered
<1>13. DoneMeansCovered'
  <2> SUFFICES ASSUME NEW u \in Table, version'[u] > Target(u), Target(u) \notin passed[u],
                      NEW i \in rows[u]
               PROVE  covered[u][i] >= Target(u)
    BY <1>1, <1>5 DEF DoneMeansCovered, table
  <2>1. covered[u][i] \in Nat
    BY RowIds DEF IInv
  <2>2. CASE u # t
    BY <2>2, <1>4 DEF IInv, DoneMeansCovered
  <2>3. CASE u = t
    BY <2>1, <2>3, <1>3, <1>4
  <2> QED
    BY <2>2, <2>3
<1> QED
  BY <1>1, <1>6, <1>7, <1>8, <1>9, <1>10, <1>11, <1>12, <1>13, RedisStep

LEMMA SkipStep ==
    ASSUME IInv, NEW w \in Worker, SkipTable(w)
    PROVE  IInv'
<1>1. /\ pc[w] = "version" /\ at[w] \in Table
      /\ ver[w] > Wanted(w, at[w])
      /\ pc' = [pc EXCEPT ![w] = "scan"]
      /\ at' = [at EXCEPT ![w] = at[w] + 1]
      /\ low' = [low EXCEPT ![w] = 0]
      /\ ver' = [ver EXCEPT ![w] = 0]
      /\ UNCHANGED <<table, redis, rollout, force, code, remaining, found, up, todo, crashes>>
  BY DEF SkipTable, IInv, Runs, RunOK
<1>2. at'[w] = at[w] + 1 /\ pc'[w] = "scan" /\ at[w] \in Nat
  BY <1>1, TableNumbers DEF IInv, TypeOK
<1>3. TypeOK'
  BY <1>1, TableNumbers DEF IInv, TypeOK, table, redis, rollout
<1>4. OthersKept(w)
  BY <1>1 DEF IInv, TypeOK, OthersKept
<1>5. RunOK(w)' /\ BehindOK(w)'
  BY <1>1, <1>2 DEF IInv, TypeOK, Runs, RunOK, BehindOK, rollout
<1>6. SeenOK(w)'
  <2> SUFFICES ASSUME force[w], ~found[w], NEW t \in Table, t < at'[w],
                      code[w][t] = coded[t], NEW i \in rows[t]
               PROVE  covered[t][i] >= coded[t]
    BY <1>1, <1>2 DEF SeenOK, table, rollout
  <2>1. t \in Nat
    BY TableNumbers
  <2>2. CASE t < at[w]
    BY <2>2, <1>1 DEF IInv, Seen, SeenOK
  <2>3. CASE t = at[w]
    <3>1. selfHosted /\ ver[w] > coded[at[w]]
      BY <2>3, <1>1 DEF IInv, Runs, RunOK, Wanted, VersionFor
    <3> QED
      BY <2>3, <3>1, <1>1 DEF IInv, Seen, SeenOK
  <2> QED
    BY <2>1, <2>2, <2>3, <1>2
<1> QED
  BY <1>1, <1>3, <1>4, <1>5, <1>6, RunStep

LEMMA ChooseStep ==
    ASSUME IInv, NEW w \in Worker, ChooseVersion(w)
    PROVE  IInv'
<1> DEFINE t == at[w]
           wanted == Wanted(w, t)
<1>1. /\ pc[w] = "version" /\ t \in Table /\ 1 <= ver[w]
      /\ ver[w] <= wanted
      /\ low' = [low EXCEPT ![w] = LowFor(w)]
      /\ ver' = [ver EXCEPT ![w] = wanted]
      /\ pc' = [pc EXCEPT ![w] = "min"]
      /\ UNCHANGED <<table, redis, rollout, force, code, remaining, found, at, up, todo, crashes>>
  BY DEF ChooseVersion, IInv, Runs, RunOK
<1>2. /\ ver[w] \in Nat /\ low[w] \in Nat /\ code[w][t] \in Nat
      /\ coded[t] \in Nat /\ option[t] \in Nat
  BY <1>1 DEF IInv, TypeOK
<1>3. /\ force[w] => selfHosted
      /\ code[w][t] <= coded[t]
      /\ selfHosted => option[t] = 0
  BY <1>1 DEF IInv, Runs, RunOK, Versions
<1>4. /\ wanted \in Nat /\ wanted <= code[w][t] /\ wanted <= Target(t)
      /\ selfHosted => wanted = code[w][t]
  BY <1>1, <1>2, <1>3 DEF Wanted, Target, VersionFor, Smaller
<1>5. LowFor(w) = IF ver[w] < wanted THEN 0 ELSE low[w]
  BY DEF LowFor
<1>6. pc'[w] = "min" /\ ver'[w] = wanted /\ low'[w] = LowFor(w) /\ at'[w] = t
  BY <1>1 DEF IInv, TypeOK
<1>7. TypeOK'
  BY <1>1, <1>2, <1>4, <1>5 DEF IInv, TypeOK, table, redis, rollout
<1>8. OthersKept(w)
  BY <1>1 DEF IInv, TypeOK, OthersKept
<1>9. RunOK(w)'
  <2>1. RunOK(w)
    BY DEF IInv, Runs
  <2>2. 1 <= wanted
    BY <1>1, <1>2, <1>4
  <2> QED
    BY <1>1, <1>4, <1>6, <2>1, <2>2 DEF RunOK, rollout, Target, VersionFor, Smaller
<1>10. BehindOK(w)'
  <2>1. ASSUME NEW i \in rows[t], i < LowFor(w)
        PROVE  covered[t][i] >= wanted
    <3>1. i \in Nat
      BY <1>1, RowIds DEF IInv
    <3>2. ver[w] = wanted /\ i < low[w]
      BY <2>1, <3>1, <1>1, <1>2, <1>4, <1>5
    <3> QED
      BY <3>2, <1>1 DEF IInv, Behind, BehindOK
  <2> QED
    BY <1>1, <1>6, <2>1 DEF BehindOK, table
<1>11. SeenOK(w)'
  <2>1. SeenOK(w)
    BY DEF IInv, Seen
  <2> QED
    BY <1>1, <1>6, <2>1 DEF SeenOK, table, rollout
<1> QED
  BY <1>1, <1>7, <1>8, <1>9, <1>10, <1>11, RunStep

\* If a batch of at least two rows ends where it starts, it is the table's last.
LEMMA LastBatch ==
    ASSUME TypeOK, NEW t \in Table, NEW l \in Nat, NEW n \in Int, n >= 1, NEW u,
           IsUp(t, l, n, u), ~(u > l), NEW i \in rows[t], i >= l
    PROVE  i <= u
<1>1. \A j \in rows[t] : j \in Nat
  BY RowIds
<1>2. i \in From(t, l)
  BY DEF From
<1>3. u \in From(t, l)
  BY <1>2 DEF IsUp
<1>4. u = l
  BY <1>1, <1>3 DEF From
<1> DEFINE upTo == {j \in From(t, l) : j <= u}
<1>5. upTo = {u}
  BY <1>1, <1>3, <1>4 DEF From
<1>6. Cardinality(upTo) = 1
  BY <1>5, FS_Singleton
<1>7. Cardinality(upTo) # n + 1
  BY <1>6
<1>8. upTo = From(t, l)
  BY <1>2, <1>7 DEF IsUp
<1> QED
  BY <1>2, <1>8

\* Nothing lies between where a batch was to start and where it starts.
LEMMA NoneSkipped ==
    ASSUME TypeOK, NEW t \in Table, NEW l \in Nat, NEW new, IsLow(t, l, new),
           NEW i \in rows[t], i < new
    PROVE  i < l
BY IdsAssumption DEF IsLow, TypeOK, Id

LEMMA MinStep ==
    ASSUME IInv, NEW w \in Worker, QueryMin(w)
    PROVE  IInv'
<1>1. PICK l \in rows[at[w]] \cup {low[w]} :
        /\ IsLow(at[w], low[w], l)
        /\ low' = [low EXCEPT ![w] = l]
  BY DEF QueryMin
<1>2. /\ pc[w] = "min"
      /\ pc' = [pc EXCEPT ![w] = "upper"]
      /\ UNCHANGED <<table, redis, rollout, force, code, remaining, found, at, up, ver, todo, crashes>>
  BY DEF QueryMin
<1>3. at[w] \in Table /\ low[w] \in Nat
  BY <1>2, BatchVersion
<1>4. l \in Nat
  BY <1>3, RowIds DEF IInv
<1>5. pc'[w] = "upper" /\ low'[w] = l
  BY <1>1, <1>2 DEF IInv, TypeOK
<1>6. TypeOK'
  BY <1>1, <1>2, <1>4 DEF IInv, TypeOK, table, redis, rollout
<1>7. OthersKept(w)
  BY <1>1, <1>2 DEF IInv, TypeOK, OthersKept
<1>8. RunOK(w)'
  <2>1. RunOK(w)
    BY DEF IInv, Runs
  <2> QED
    BY <1>2, <1>5, <2>1 DEF RunOK, rollout, Target, VersionFor, Smaller
<1>9. BehindOK(w)'
  <2>1. ASSUME NEW i \in rows[at[w]], i < l
        PROVE  covered[at[w]][i] >= ver[w]
    <3>1. i < low[w]
      BY <2>1, <1>1, <1>3, NoneSkipped DEF IInv
    <3> QED
      BY <3>1, <1>2 DEF IInv, Behind, BehindOK
  <2> QED
    BY <1>2, <1>5, <2>1 DEF BehindOK, table
<1>10. SeenOK(w)'
  <2>1. SeenOK(w)
    BY DEF IInv, Seen
  <2> QED
    BY <1>2, <1>5, <2>1 DEF SeenOK, table, rollout
<1> QED
  BY <1>2, <1>6, <1>7, <1>8, <1>9, <1>10, RunStep

LEMMA UpperStep ==
    ASSUME IInv, NEW w \in Worker, QueryUpper(w)
    PROVE  IInv'
<1>1. PICK u \in rows[at[w]] \cup {0} :
        /\ IsUp(at[w], low[w], remaining[w], u)
        /\ up' = [up EXCEPT ![w] = u]
  BY DEF QueryUpper
<1>2. /\ pc[w] = "upper"
      /\ pc' = [pc EXCEPT ![w] = "rows"]
      /\ UNCHANGED <<table, redis, rollout, force, code, remaining, found, at, low, ver, todo, crashes>>
  BY DEF QueryUpper
<1>3. at[w] \in Table /\ low[w] \in Nat /\ remaining[w] \in Int /\ remaining[w] >= 1
  BY <1>2, BatchVersion
<1>4. u \in Nat
  BY <1>3, RowIds DEF IInv
<1>5. pc'[w] = "rows" /\ up'[w] = u /\ low'[w] = low[w]
  BY <1>1, <1>2 DEF IInv, TypeOK
<1>6. TypeOK'
  BY <1>1, <1>2, <1>4 DEF IInv, TypeOK, table, redis, rollout
<1>7. OthersKept(w)
  BY <1>1, <1>2 DEF IInv, TypeOK, OthersKept
<1>8. RunOK(w)'
  <2>1. RunOK(w)
    BY DEF IInv, Runs
  <2> QED
    BY <1>2, <1>5, <2>1 DEF RunOK, rollout, Target, VersionFor, Smaller
<1>9. BehindOK(w)'
  <2>1. ASSUME NEW i \in rows[at[w]], i < low[w] \/ (i > u /\ ~(u > low[w]))
        PROVE  covered[at[w]][i] >= ver[w]
    <3>1. i \in Nat
      BY <1>3, RowIds DEF IInv
    <3>2. i < low[w]
      BY <2>1, <3>1, <1>1, <1>3, <1>4, LastBatch DEF IInv
    <3> QED
      BY <3>2, <1>2 DEF IInv, Behind, BehindOK
  <2> QED
    BY <1>2, <1>5, <2>1 DEF BehindOK, HasMore, table
<1>10. SeenOK(w)'
  <2>1. SeenOK(w)
    BY DEF IInv, Seen
  <2> QED
    BY <1>2, <1>5, <2>1 DEF SeenOK, table, rollout
<1> QED
  BY <1>2, <1>6, <1>7, <1>8, <1>9, <1>10, RunStep

LEMMA RowsStep ==
    ASSUME IInv, NEW w \in Worker, QueryRows(w)
    PROVE  IInv'
<1> DEFINE batchRows == {i \in rows[at[w]] : low[w] <= i /\ i <= up[w]}
<1>1. /\ pc[w] = "rows"
      /\ todo' = [todo EXCEPT ![w] = batchRows]
      /\ pc' = [pc EXCEPT ![w] = "produce"]
      /\ UNCHANGED <<table, redis, rollout, force, code, remaining, found, at, low, up, ver, crashes>>
  BY DEF QueryRows
<1>2. at[w] \in Table /\ low[w] \in Nat /\ up[w] \in Nat
  BY <1>1, BatchVersion
<1>3. batchRows \subseteq Id
  BY <1>2, RowIds DEF IInv
<1>4. pc'[w] = "produce" /\ todo'[w] = batchRows
  BY <1>1 DEF IInv, TypeOK
<1>5. TypeOK'
  BY <1>1, <1>3 DEF IInv, TypeOK, table, redis, rollout
<1>6. OthersKept(w)
  BY <1>1 DEF IInv, TypeOK, OthersKept
<1>7. RunOK(w)'
  <2>1. RunOK(w)
    BY DEF IInv, Runs
  <2> QED
    BY <1>1, <1>4, <2>1 DEF RunOK, rollout, Target, VersionFor, Smaller
<1>8. BehindOK(w)'
  <2>1. ASSUME NEW i \in rows[at[w]] \ batchRows, i <= up[w] \/ ~HasMore(w)
        PROVE  covered[at[w]][i] >= ver[w]
    <3>1. i \in Nat
      BY <1>2, RowIds DEF IInv
    <3>2. i < low[w] \/ (i > up[w] /\ ~HasMore(w))
      BY <2>1, <3>1, <1>2
    <3> QED
      BY <3>2, <1>1 DEF IInv, Behind, BehindOK
  <2> QED
    BY <1>1, <1>4, <2>1 DEF BehindOK, HasMore, table
<1>9. SeenOK(w)'
  <2>1. SeenOK(w)
    BY DEF IInv, Seen
  <2> QED
    BY <1>1, <1>4, <2>1 DEF SeenOK, table, rollout
<1> QED
  BY <1>1, <1>5, <1>6, <1>7, <1>8, <1>9, RunStep

LEMMA ProduceStep ==
    ASSUME IInv, NEW w \in Worker, NEW i \in todo[w], ProduceRow(w, i)
    PROVE  IInv'
<1>1. /\ pc[w] = "produce"
      /\ covered' = IF i \in rows[at[w]]
                    THEN [covered EXCEPT ![at[w]] =
                            [covered[at[w]] EXCEPT ![i] = Larger(covered[at[w]][i], ver[w])]]
                    ELSE covered
      /\ todo' = [todo EXCEPT ![w] = todo[w] \ {i}]
      /\ UNCHANGED <<rows, used, redis, rollout, pc, force, code, remaining, found,
                     at, low, up, ver, crashes>>
  BY DEF ProduceRow
<1>2. /\ at[w] \in Table /\ ver[w] \in Nat /\ i \in Id
      /\ \A t \in Table, j \in Id : covered[t][j] \in Nat
  BY <1>1, BatchVersion DEF IInv, TypeOK
<1>3. Larger(covered[at[w]][i], ver[w]) \in Nat
  BY <1>2 DEF Larger
<1>4. TypeOK'
  BY <1>1, <1>2, <1>3 DEF IInv, TypeOK, redis, rollout
<1>5. /\ i \in rows[at[w]] => covered'[at[w]][i] = Larger(covered[at[w]][i], ver[w])
      /\ \A t \in Table, j \in Id :
            ~(t = at[w] /\ j = i /\ i \in rows[at[w]]) => covered'[t][j] = covered[t][j]
  BY <1>1, <1>2 DEF IInv, TypeOK
<1>6. /\ \A t \in Table, j \in Id :
            /\ covered'[t][j] \in Nat
            /\ covered'[t][j] >= covered[t][j]
      /\ i \in rows[at[w]] => covered'[at[w]][i] >= ver[w]
  BY <1>2, <1>3, <1>5 DEF Larger
<1>7. ASSUME NEW t \in Table, NEW j \in rows[t], NEW v \in Nat, covered[t][j] >= v
      PROVE  covered'[t][j] >= v
  <2>1. j \in Id
    BY RowIds DEF IInv
  <2> QED
    BY <1>7, <2>1, <1>2, <1>6
<1>8. \A t \in Table : Target(t)' = Target(t) /\ Target(t) \in Nat
  BY <1>1, TargetKept, TargetType DEF IInv
<1>9. Versions' /\ Runs'
  BY <1>1, <1>8 DEF IInv, Versions, Runs, RunOK, redis, rollout
<1>10. CursorIsCovered'
  BY <1>1, <1>7 DEF IInv, TypeOK, CursorIsCovered, redis
<1>11. DoneMeansCovered'
  BY <1>1, <1>7, <1>8 DEF IInv, DoneMeansCovered, redis
<1>12. Behind'
  <2> SUFFICES ASSUME NEW v \in Worker
               PROVE  BehindOK(v)'
    BY DEF Behind
  <2>1. BehindOK(v) /\ ver[v] \in Nat
    BY DEF IInv, Behind, TypeOK
  <2>2. pc[v] \in {"version", "min", "upper", "rows", "produce"} => at[v] \in Table
    BY DEF IInv, Runs, RunOK
  <2>3. ASSUME pc[v] \in {"version", "min", "upper"}, NEW j \in rows[at[v]], j < low[v]
        PROVE  covered'[at[v]][j] >= ver[v]
    BY <2>1, <2>2, <2>3, <1>7 DEF BehindOK
  <2>4. ASSUME pc[v] = "rows", NEW j \in rows[at[v]],
               j < low[v] \/ (j > up[v] /\ ~HasMore(v))
        PROVE  covered'[at[v]][j] >= ver[v]
    BY <2>1, <2>2, <2>4, <1>7 DEF BehindOK
  <2>5. ASSUME pc[v] = "produce", NEW j \in rows[at[v]] \ todo'[v],
               j <= up[v] \/ ~HasMore(v)
        PROVE  covered'[at[v]][j] >= ver[v]
    <3>1. CASE v = w /\ j = i
      BY <3>1, <2>5, <1>6
    <3>2. CASE ~(v = w /\ j = i)
      <4>1. j \notin todo[v]
        BY <3>2, <2>5, <1>1 DEF IInv, TypeOK
      <4> QED
        BY <4>1, <2>1, <2>2, <2>5, <1>7 DEF BehindOK
    <3> QED
      BY <3>1, <3>2
  <2> QED
    BY <1>1, <2>3, <2>4, <2>5 DEF BehindOK, HasMore
<1>13. Seen'
  <2> SUFFICES ASSUME NEW v \in Worker
               PROVE  SeenOK(v)'
    BY DEF Seen
  <2>1. SeenOK(v) /\ \A t \in Table : coded[t] \in Nat
    BY DEF IInv, Seen, TypeOK
  <2>2. pc[v] = "version" => at[v] \in Table
    BY DEF IInv, Runs, RunOK
  <2> QED
    BY <1>1, <1>7, <2>1, <2>2 DEF SeenOK, rollout
<1> QED
  BY <1>4, <1>9, <1>10, <1>11, <1>12, <1>13 DEF IInv

LEMMA SaveStep ==
    ASSUME IInv, NEW w \in Worker, SaveState(w)
    PROVE  IInv'
<1> DEFINE left == remaining[w] - Count(w)
           t == at[w]
<1>1. /\ pc[w] = "produce" /\ todo[w] = {}
      /\ lower' = [lower EXCEPT ![t] = IF HasMore(w) THEN up[w] + 1 ELSE 0]
      /\ version' = [version EXCEPT ![t] = IF HasMore(w) THEN ver[w] ELSE code[w][t] + 1]
      /\ passed' = [passed EXCEPT ![t] = IF HasMore(w) THEN passed[t]
                                         ELSE (ver[w] + 1)..code[w][t]]
      /\ remaining' = [remaining EXCEPT ![w] = left]
      /\ found' = [found EXCEPT ![w] = found[w] \/ Count(w) > 0]
      /\ pc' = [pc EXCEPT ![w] = IF left <= 0 THEN "done" ELSE "scan"]
      /\ at' = [at EXCEPT ![w] = IF left <= 0 THEN at[w] ELSE at[w] + 1]
      /\ low' = [low EXCEPT ![w] = 0] /\ up' = [up EXCEPT ![w] = 0]
      /\ ver' = [ver EXCEPT ![w] = 0] /\ todo' = [todo EXCEPT ![w] = {}]
      /\ UNCHANGED <<table, rollout, force, code, crashes>>
  BY DEF SaveState, Produced
<1>2. /\ t \in Table /\ ver[w] \in Nat /\ 1 <= ver[w]
      /\ code[w][t] \in Nat /\ ver[w] <= code[w][t]
      /\ Target(t) \in Nat /\ ver[w] <= Target(t)
      /\ low[w] \in Nat /\ up[w] \in Nat /\ remaining[w] \in Int /\ remaining[w] >= 1
  BY <1>1, BatchVersion
<1>3. /\ Count(w) \in Nat /\ left \in Int /\ at[w] \in Nat /\ at[w] <= NTables
      /\ coded[t] \in Nat /\ 1 <= coded[t] /\ code[w][t] <= coded[t]
      /\ selfHosted => ver[w] = code[w][t]
  <2>1. Count(w) \in Nat /\ left \in Int
    BY <1>2 DEF Count
  <2>2. at[w] \in Nat /\ at[w] <= NTables
    BY <1>2, TableNumbers
  <2>3. coded[t] \in Nat /\ 1 <= coded[t]
    BY <1>2 DEF IInv, TypeOK, Versions
  <2>4. code[w][t] <= coded[t] /\ (selfHosted => ver[w] = code[w][t])
    BY <1>1, <1>2 DEF IInv, Runs, RunOK
  <2> QED
    BY <2>1, <2>2, <2>3, <2>4
<1>4. \A i \in rows[t] :
        /\ i \in Nat
        /\ covered[t][i] \in Nat
        /\ i <= up[w] \/ ~HasMore(w) => covered[t][i] >= ver[w]
  BY <1>1, <1>2, RowIds DEF IInv, Behind, BehindOK
<1>5. \A u \in Table : Target(u)' = Target(u)
  BY <1>1, TargetKept
<1>6. /\ lower'[t] = (IF HasMore(w) THEN up[w] + 1 ELSE 0)
      /\ version'[t] = (IF HasMore(w) THEN ver[w] ELSE code[w][t] + 1)
      /\ passed'[t] = (IF HasMore(w) THEN passed[t] ELSE (ver[w] + 1)..code[w][t])
      /\ \A u \in Table : u # t => /\ lower'[u] = lower[u] /\ version'[u] = version[u]
                                   /\ passed'[u] = passed[u]
  BY <1>1, <1>2 DEF IInv, TypeOK
<1>7. TypeOK'
  <2>1. lower' \in [Table -> Nat] /\ version' \in [Table -> Nat]
    <3>1. (IF HasMore(w) THEN up[w] + 1 ELSE 0) \in Nat
      BY <1>2
    <3>2. (IF HasMore(w) THEN ver[w] ELSE code[w][t] + 1) \in Nat
      BY <1>2
    <3> QED
      BY <3>1, <3>2, <1>1 DEF IInv, TypeOK
  <2>2. (ver[w] + 1)..code[w][t] \subseteq Nat
    BY <1>2
  <2>3. passed' \in [Table -> SUBSET Nat]
    BY <1>1, <1>2, <2>2 DEF IInv, TypeOK
  <2>4. at' \in [Worker -> 1..NTables + 1] /\ remaining' \in [Worker -> Int]
    BY <1>1, <1>2, <1>3, TableNumbers DEF IInv, TypeOK
  <2>5. /\ pc' \in [Worker -> {"idle", "scan", "init", "version", "min", "upper", "rows",
                               "produce", "done"}]
        /\ found' \in [Worker -> BOOLEAN]
    BY <1>1, <1>3 DEF IInv, TypeOK
  <2> QED
    BY <2>1, <2>3, <2>4, <2>5, <1>1 DEF IInv, TypeOK, table, rollout
<1>8. Versions'
  <2> SUFFICES ASSUME NEW u \in Table PROVE
          (/\ 1 <= coded[u]
           /\ version[u] <= coded[u] + 1
           /\ selfHosted => option[u] = 0 /\ passed[u] = {}
           /\ lower[u] > 0 => 1 <= version[u] /\ version[u] <= Target(u)
           /\ \A v \in Target(u) + 1..version[u] - 1 : v \in passed[u])'
    BY DEF Versions
  <2>1. CASE u # t
    BY <2>1, <1>1, <1>5, <1>6 DEF IInv, Versions, rollout
  <2>2. CASE u = t /\ HasMore(w)
    <3>1. /\ version'[u] = ver[w] /\ passed'[u] = passed[u]
          /\ selfHosted => option[u] = 0 /\ passed[u] = {}
      BY <2>2, <1>6 DEF IInv, Versions
    <3>2. \A v \in Target(u) + 1..version'[u] - 1 : v \in passed'[u]
      BY <2>2, <3>1, <1>2
    <3> QED
      BY <2>2, <3>1, <3>2, <1>1, <1>2, <1>3, <1>5 DEF rollout
  <2>3. CASE u = t /\ ~HasMore(w)
    <3>1. /\ version'[u] = code[w][t] + 1 /\ passed'[u] = (ver[w] + 1)..code[w][t]
          /\ lower'[u] = 0 /\ (selfHosted => option[u] = 0)
      BY <2>3, <1>6 DEF IInv, Versions
    <3>2. \A v \in Target(u) + 1..version'[u] - 1 : v \in passed'[u]
      BY <2>3, <3>1, <1>2
    <3>3. selfHosted => passed'[u] = {}
      BY <3>1, <1>2, <1>3
    <3> QED
      BY <2>3, <3>1, <3>2, <3>3, <1>1, <1>2, <1>3, <1>5 DEF rollout
  <2> QED
    BY <2>1, <2>2, <2>3
<1>9. CursorIsCovered'
  <2> SUFFICES ASSUME NEW u \in Table, NEW i \in rows[u], i < lower'[u]
               PROVE  covered[u][i] >= version'[u]
    BY <1>1 DEF CursorIsCovered, table
  <2>1. CASE u # t
    BY <2>1, <1>6 DEF IInv, CursorIsCovered
  <2>2. CASE u = t
    <3>1. HasMore(w) /\ i <= up[w]
      BY <2>2, <1>2, <1>4, <1>6
    <3> QED
      BY <2>2, <3>1, <1>4, <1>6
  <2> QED
    BY <2>1, <2>2
<1>10. DoneMeansCovered'
  <2> SUFFICES ASSUME NEW u \in Table, version'[u] > Target(u), Target(u) \notin passed'[u],
                      NEW i \in rows[u]
               PROVE  covered[u][i] >= Target(u)
    BY <1>1, <1>5 DEF DoneMeansCovered, table
  <2>1. CASE u # t
    BY <2>1, <1>6 DEF IInv, DoneMeansCovered
  <2>2. CASE u = t
    <3>1. ~HasMore(w) /\ ver[w] = Target(t)
      BY <2>2, <1>2, <1>6
    <3> QED
      BY <2>2, <3>1, <1>4
  <2> QED
    BY <2>1, <2>2
<1>11. OthersKept(w)
  BY <1>1 DEF IInv, TypeOK, OthersKept
<1>12. RunOK(w)' /\ BehindOK(w)'
  BY <1>1, <1>3 DEF IInv, TypeOK, Runs, RunOK, BehindOK, rollout
<1>13. SeenOK(w)'
  <2> SUFFICES ASSUME force[w], ~found'[w], NEW u \in Table, code[w][u] = coded[u],
                      NEW i \in rows[u],
                      (u < at'[w] /\ pc'[w] = "scan") \/ pc'[w] = "done"
               PROVE  covered[u][i] >= coded[u]
    BY <1>1 DEF SeenOK, table, rollout, IInv, TypeOK
  <2>0. found'[w] = (found[w] \/ Count(w) > 0)
    BY <1>1 DEF IInv, TypeOK
  <2>1. ~found[w] /\ Count(w) = 0
    <3>1. ~found[w] /\ ~(Count(w) > 0)
      BY <2>0, Zenon
    <3> QED
      BY <3>1, <1>3
  <2>2. up[w] < low[w]
    BY <2>1, <1>2 DEF Count
  <2>3. left = remaining[w] /\ pc'[w] = "scan" /\ at'[w] = at[w] + 1
    BY <2>1, <1>1, <1>2 DEF IInv, TypeOK
  <2>4. CASE u < at[w]
    BY <2>1, <2>4, <1>1 DEF IInv, Seen, SeenOK
  <2>5. CASE u = t
    <3>1. selfHosted
      BY DEF IInv, Runs, RunOK
    <3> QED
      BY <2>2, <2>5, <3>1, <1>2, <1>3, <1>4 DEF HasMore
  <2>6. u \in Nat /\ at[w] \in Nat /\ u < at[w] + 1
    BY <2>3, <1>3, TableNumbers
  <2>7. u < at[w] \/ u = at[w]
    BY <2>6
  <2> QED
    BY <2>4, <2>5, <2>7
<1> QED
  BY <1>1, <1>7, <1>8, <1>9, <1>10, <1>11, <1>12, <1>13, RedisStep

LEMMA EndStep ==
    ASSUME IInv, NEW w \in Worker, EndOfTables(w)
    PROVE  IInv'
<1>1. TypeOK' /\ OthersKept(w)
  BY DEF IInv, TypeOK, EndOfTables, OthersKept, table, redis, rollout, run, batch
<1>2. RunOK(w)' /\ BehindOK(w)'
  BY DEF IInv, TypeOK, EndOfTables, Runs, RunOK, BehindOK, run, batch, rollout
<1>3. \A t \in Table : t < NTables + 1
  BY CountAssumption DEF Table
<1>4. SeenOK(w)'
  BY <1>3 DEF IInv, TypeOK, EndOfTables, Seen, SeenOK, run, table, rollout
<1> QED
  BY <1>1, <1>2, <1>4, RunStep DEF EndOfTables

LEMMA ForgetStep ==
    ASSUME IInv, NEW w \in Worker, Forget(w), crashes' \in Nat,
           UNCHANGED <<table, redis, rollout>>
    PROVE  IInv'
<1>1. TypeOK'
  BY TableNumbers DEF IInv, TypeOK, Forget, table, redis, rollout
<1>2. OthersKept(w)
  BY DEF IInv, TypeOK, Forget, OthersKept
<1>3. RunOK(w)' /\ BehindOK(w)' /\ SeenOK(w)'
  BY DEF IInv, TypeOK, Versions, Forget, RunOK, BehindOK, SeenOK, rollout
<1> QED
  BY <1>1, <1>2, <1>3, RunStep

-----------------------------------------------------------------------------
LEMMA Initially == Init => IInv
<1> SUFFICES ASSUME Init PROVE IInv
  OBVIOUS
<1>1. TypeOK
  BY CountAssumption DEF Init, TypeOK, Table
<1>2. \A t \in Table : Target(t) = IF selfHosted THEN 1 ELSE 0
  BY DEF Init, Target, VersionFor, Smaller
<1>3. \A t \in Table : /\ coded[t] = 1 /\ option[t] = 0 /\ lower[t] = 0 /\ version[t] = 0
                       /\ passed[t] = {}
  BY DEF Init
<1>4. Versions
  BY <1>2, <1>3 DEF Versions
<1>5. \A t \in Table : \A i \in rows[t] : i \in Nat /\ i > 0
  BY <1>1, RowIds
<1>6. Runs
  BY DEF Init, Runs, RunOK
<1>7. CursorIsCovered /\ DoneMeansCovered
  BY <1>2, <1>3, <1>5 DEF CursorIsCovered, DoneMeansCovered
<1>8. Behind /\ Seen
  BY DEF Init, Behind, BehindOK, Seen, SeenOK
<1> QED
  BY <1>1, <1>4, <1>6, <1>7, <1>8 DEF IInv

LEMMA Inductive == IInv /\ [Next]_vars => IInv'
<1> SUFFICES ASSUME IInv, [Next]_vars PROVE IInv'
  OBVIOUS
<1>1. ASSUME NEW t \in Table, NEW i \in Ids[t], InsertRow(t, i) \/ DeleteRow(t, i)
      PROVE  IInv'
  BY <1>1, InsertStep, DeleteStep
<1>2. ASSUME NEW t \in Table, Deploy(t)
      PROVE  IInv'
  BY <1>2, DeployStep
<1>3. ASSUME NEW t \in Table, NEW v \in 1..MaxVersion[t], SetOption(t, v)
      PROVE  IInv'
  BY <1>3, SetOptionStep, VersionsAssumption
<1>4. ASSUME NEW w \in Worker, NEW forced \in BOOLEAN, NEW n \in 1..Rate, StartRun(w, forced, n)
      PROVE  IInv'
  BY <1>4, StartStep
<1>5. ASSUME NEW w \in Worker, Step(w)
      PROVE  IInv'
  <2>1. CASE Return(w)
    BY <2>1, ForgetStep DEF Return, IInv, TypeOK
  <2> QED
    BY <1>5, <2>1, ReadStep, InitStep, SkipStep, ChooseStep, MinStep, UpperStep, RowsStep,
       ProduceStep, SaveStep, EndStep DEF Step
<1>6. ASSUME NEW w \in Worker, Crash(w)
      PROVE  IInv'
  BY <1>6, ForgetStep DEF Crash, IInv, TypeOK
<1>7. CASE UNCHANGED vars
  <2>1. \A t \in Table : Target(t)' = Target(t)
    BY <1>7, TargetKept DEF vars
  <2>2. TypeOK' /\ Versions'
    BY <2>1, <1>7 DEF IInv, TypeOK, Versions, vars, table, redis, rollout, run, batch
  <2>3. Runs'
    BY <1>7 DEF IInv, Runs, RunOK, Target, VersionFor, Smaller, vars, table, rollout, run, batch
  <2>4. CursorIsCovered' /\ DoneMeansCovered' /\ Behind' /\ Seen'
    BY <2>1, <1>7 DEF IInv, CursorIsCovered, DoneMeansCovered, Behind, BehindOK,
                      HasMore, Seen, SeenOK, vars, table, redis, rollout, run, batch
  <2> QED
    BY <2>2, <2>3, <2>4 DEF IInv
<1> QED
  BY <1>1, <1>2, <1>3, <1>4, <1>5, <1>6, <1>7 DEF Next

-----------------------------------------------------------------------------
\* The strengthened invariant holds throughout, however runs overlap and die and
\* whenever versions are bumped and options set.
THEOREM Invariance == Spec => []IInv
<1>1. IInv /\ [Next]_vars => IInv'
  BY Inductive
<1> QED
  BY <1>1, Initially, PTL DEF Spec

\* Every variable keeps its type: cursors, versions and what runs hold of them.
THEOREM TypeCorrect == Spec => []TypeOK
<1>1. IInv => TypeOK
  BY DEF IInv
<1> QED
  BY <1>1, Invariance, PTL

\* process_outbox_backfill_batch: a table whose redis version is past its target
\* has had an outbox row for each of its rows, whatever runs overlapped or died,
\* unless the target is a version the last finishing run passed.
THEOREM NothingIsSkipped == Spec => []DoneMeansCovered
<1>1. IInv => DoneMeansCovered
  BY DEF IInv
<1> QED
  BY <1>1, Invariance, PTL

\* set_processing_state: while a table's backfill goes on, every row behind its
\* cursor has had an outbox row, also when a slow run sets the cursor back.
THEOREM CursorIsTrue == Spec => []CursorIsCovered
<1>1. IInv => CursorIsCovered
  BY DEF IInv
<1> QED
  BY <1>1, Invariance, PTL

\* run_outbox_replications_for_self_hosted: when the upgrade's loop ends, every
\* row of every table is covered, unless a newer release was deployed meanwhile.
THEOREM UpgradeIsComplete == Spec => []UpgradeCoversAll
<1>1. IInv => UpgradeCoversAll
  BY DEF IInv, Seen, SeenOK, UpgradeCoversAll
<1> QED
  BY <1>1, Invariance, PTL
=============================================================================
