------------------------ MODULE WebhookMailboxProofs ------------------------
(***************************************************************************)
(* Theorems about WebhookMailbox, for any webhooks, mailboxes, tasks and   *)
(* sizes.  Why no webhook is lost although tasks work on stale copies: a   *)
(* copy never holds more attempts than have been counted, so whoever finds *)
(* a copy exhausted is right, and a row is otherwise deleted only by a     *)
(* task that has its answer.  Why order is kept although drains overlap:   *)
(* every drain starts at the first row of its mailbox.  Both together      *)
(* implement MailboxSpec.                                                  *)
(***************************************************************************)
EXTENDS WebhookMailbox, FiniteSetTheorems, TLAPS

\* Rows and copies hold no more attempts than were counted.
Counted ==
    \A m \in Id :
        /\ attempts[m] <= tries[m]
        /\ \A w \in Worker : seen[w][m] <= tries[m]

\* What a task is about to delete as answered has been answered.
Answered ==
    \A w \in Worker :
        /\ okays[w] \subseteq done
        /\ pc[w] = "accepted" => \A m \in Id : IsFirst(m, todo[w]) => m \in done

Stored == rows \subseteq received

IInv == TypeOK /\ Counted /\ Answered /\ Stored /\ NothingLost

-----------------------------------------------------------------------------
LEMMA Numbers ==
    /\ 0 \in 0..MaxAttempts
    /\ 0 \in 0..MaxId
    /\ \A m \in Id : m \in 0..MaxId
    /\ \A n \in 0..MaxAttempts : n \in Nat /\ n <= MaxAttempts /\ 0 <= n
    /\ \A n \in 0..MaxAttempts : OneMore(n) \in 0..MaxAttempts /\ n <= OneMore(n)
BY SizesAssumption DEF Id, OneMore

\* Counting an attempt of a copy that is not exhausted.
LEMMA CountedCopy ==
    ASSUME NEW s \in 0..MaxAttempts, NEW t \in 0..MaxAttempts, s <= t, ~Exhausted(s)
    PROVE  s + 1 \in 0..MaxAttempts /\ s + 1 <= OneMore(t)
BY SizesAssumption DEF Exhausted, OneMore

LEMMA NothingType == Nothing \in [Id -> 0..MaxAttempts] /\ \A m \in Id : Nothing[m] = 0
BY Numbers DEF Nothing

LEMMA InitHolds == Init => IInv
<1> SUFFICES ASSUME Init PROVE IInv
  OBVIOUS
<1>1. TypeOK
  BY Numbers, NothingType DEF Init, TypeOK
<1>2. Counted
  BY NothingType DEF Init, Counted
<1>3. Answered /\ Stored /\ NothingLost
  BY DEF Init, Answered, Stored, NothingLost
<1> QED
  BY <1>1, <1>2, <1>3 DEF IInv

\* A task that ends forgets its copies.
LEMMA EndStep ==
    ASSUME IInv, NEW w \in Worker, End(w), UNCHANGED <<rowVars, received, earlier, tries>>,
           done' \in SUBSET Id, done \subseteq done', heads' \in SUBSET Id, crashes' \in Nat
    PROVE  IInv'
<1>1. TypeOK'
  BY Numbers, NothingType DEF IInv, TypeOK, End, rowVars
<1>2. Counted'
  <2> SUFFICES ASSUME NEW m \in Id
               PROVE  attempts'[m] <= tries'[m] /\ \A v \in Worker : seen'[v][m] <= tries'[m]
    BY DEF Counted
  <2>1. attempts'[m] <= tries'[m] /\ tries'[m] = tries[m] /\ tries[m] \in 0..MaxAttempts
    BY DEF IInv, Counted, TypeOK, rowVars
  <2>2. \A v \in Worker : seen'[v][m] = IF v = w THEN 0 ELSE seen[v][m]
    BY NothingType DEF IInv, TypeOK, End
  <2> QED
    BY <2>1, <2>2, Numbers DEF IInv, Counted
<1>3. Answered'
  <2> SUFFICES ASSUME NEW v \in Worker PROVE Answered!(v)'
    BY DEF Answered
  <2>1. CASE v = w
    BY <2>1 DEF IInv, TypeOK, End
  <2>2. CASE v # w
    BY <2>2 DEF IInv, TypeOK, Answered, End, IsFirst
  <2> QED
    BY <2>1, <2>2
<1>4. Stored' /\ NothingLost'
  BY DEF IInv, Stored, NothingLost, rowVars
<1> QED
  BY <1>1, <1>2, <1>3, <1>4 DEF IInv

\* A row is deleted by someone who knows that it may go.
LEMMA DeleteKeeps ==
    ASSUME IInv, NEW S \in SUBSET Id, Delete(S), UNCHANGED <<received, tries>>,
           done \subseteq done', \A m \in S : m \in done' \/ tries[m] >= MaxAttempts
    PROVE  /\ rows' \in SUBSET Id /\ due' \in SUBSET Id
           /\ attempts' \in [Id -> 0..MaxAttempts]
           /\ \A m \in Id : attempts'[m] <= tries'[m]
           /\ Stored' /\ NothingLost'
<1>1. /\ rows' \in SUBSET Id /\ due' \in SUBSET Id
      /\ attempts' \in [Id -> 0..MaxAttempts]
  BY Numbers DEF IInv, TypeOK, Delete
<1>2. \A m \in Id : attempts'[m] <= tries'[m]
  <2> TAKE m \in Id
  <2>1. /\ attempts'[m] = IF m \in S THEN 0 ELSE attempts[m]
        /\ tries'[m] = tries[m] /\ tries[m] \in 0..MaxAttempts
    BY DEF IInv, TypeOK, Delete
  <2> QED
    BY <2>1, Numbers DEF IInv, Counted
<1>3. Stored' /\ NothingLost'
  BY DEF IInv, Stored, NothingLost, Delete
<1> QED
  BY <1>1, <1>2, <1>3

\* An attempt is counted from a copy that is not exhausted.
LEMMA CountKeeps ==
    ASSUME IInv, NEW w \in Worker, NEW m \in Id, ~Exhausted(seen[w][m]), CountAttempt(w, m),
           UNCHANGED <<received, done>>
    PROVE  /\ rows' \in SUBSET Id /\ due' \in SUBSET Id
           /\ attempts' \in [Id -> 0..MaxAttempts] /\ tries' \in [Id -> 0..MaxAttempts]
           /\ \A k \in Id : attempts'[k] <= tries'[k] /\ tries[k] <= tries'[k]
           /\ Stored' /\ NothingLost'
<1>1. /\ seen[w][m] \in 0..MaxAttempts /\ tries[m] \in 0..MaxAttempts
      /\ seen[w][m] <= tries[m]
  BY DEF IInv, TypeOK, Counted
<1>2. /\ seen[w][m] + 1 \in 0..MaxAttempts
      /\ seen[w][m] + 1 <= OneMore(tries[m])
  BY <1>1, CountedCopy
<1>3. OneMore(tries[m]) \in 0..MaxAttempts /\ tries[m] <= OneMore(tries[m])
  BY <1>1, Numbers
<1>4. /\ attempts' = [attempts EXCEPT ![m] = IF m \in rows THEN seen[w][m] + 1 ELSE attempts[m]]
      /\ tries' = [tries EXCEPT ![m] = OneMore(tries[m])]
      /\ rows' = rows /\ due' = due \ {m}
  BY DEF CountAttempt
<1>5. /\ rows' \in SUBSET Id /\ due' \in SUBSET Id
      /\ attempts' \in [Id -> 0..MaxAttempts] /\ tries' \in [Id -> 0..MaxAttempts]
  BY <1>2, <1>3, <1>4 DEF IInv, TypeOK
<1>6. \A k \in Id : attempts'[k] <= tries'[k] /\ tries[k] <= tries'[k]
  <2> TAKE k \in Id
  <2>1. /\ attempts[k] \in 0..MaxAttempts /\ tries[k] \in 0..MaxAttempts
        /\ attempts[k] <= tries[k]
    BY DEF IInv, TypeOK, Counted
  <2>2. CASE k = m
    <3>1. /\ attempts'[k] = IF m \in rows THEN seen[w][m] + 1 ELSE attempts[m]
          /\ tries'[k] = OneMore(tries[m])
      BY <2>2, <1>4 DEF IInv, TypeOK
    <3> QED
      BY <2>1, <2>2, <3>1, <1>1, <1>2, <1>3, Numbers
  <2>3. CASE k # m
    <3>1. attempts'[k] = attempts[k] /\ tries'[k] = tries[k]
      BY <2>3, <1>4 DEF IInv, TypeOK
    <3> QED
      BY <2>1, <3>1, Numbers
  <2> QED
    BY <2>2, <2>3
<1>7. Stored' /\ NothingLost'
  <2> SUFFICES ASSUME NEW k \in received' \ rows' PROVE k \in done' \/ tries'[k] >= MaxAttempts
    BY <1>4 DEF IInv, Stored, NothingLost
  <2>1. k \in Id /\ tries[k] <= tries'[k]
    BY <1>6 DEF IInv, TypeOK
  <2>2. tries[k] \in 0..MaxAttempts /\ tries'[k] \in 0..MaxAttempts
    BY <2>1, <1>5 DEF IInv, TypeOK
  <2>3. k \in done \/ tries[k] >= MaxAttempts
    BY <1>4 DEF IInv, NothingLost
  <2> QED
    BY <2>1, <2>2, <2>3, Numbers, SizesAssumption
<1> QED
  BY <1>5, <1>6, <1>7

\* What a step of task w has to show of the copies and answers it holds; it
\* leaves those of the other tasks alone.
OthersKept(w) ==
    \A v \in Worker \ {w} :
        seen'[v] = seen[v] /\ okays'[v] = okays[v] /\ pc'[v] = pc[v] /\ todo'[v] = todo[v]
CopiesOK(w) == \A m \in Id : seen[w][m] <= tries[m]
AnswersOK(w) ==
    /\ okays[w] \subseteq done
    /\ pc[w] = "accepted" => \A m \in Id : IsFirst(m, todo[w]) => m \in done

LEMMA TaskStep ==
    ASSUME IInv, NEW w \in Worker, TypeOK', OthersKept(w), CopiesOK(w)', AnswersOK(w)',
           done \subseteq done',
           \A m \in Id : attempts'[m] <= tries'[m] /\ tries[m] <= tries'[m],
           Stored', NothingLost'
    PROVE  IInv'
<1>1. Counted'
  <2> SUFFICES ASSUME NEW m \in Id, NEW v \in Worker PROVE seen'[v][m] <= tries'[m]
    BY DEF Counted
  <2>1. CASE v = w
    BY <2>1 DEF CopiesOK
  <2>2. CASE v # w
    <3>1. seen'[v][m] = seen[v][m] /\ seen[v][m] <= tries[m] /\ tries[m] <= tries'[m]
      BY <2>2 DEF IInv, Counted, OthersKept
    <3>2. seen[v][m] \in 0..MaxAttempts /\ tries[m] \in 0..MaxAttempts /\ tries'[m] \in 0..MaxAttempts
      BY DEF IInv, TypeOK
    <3> QED
      BY <3>1, <3>2, SizesAssumption
  <2> QED
    BY <2>1, <2>2
<1>2. Answered'
  <2> SUFFICES ASSUME NEW v \in Worker PROVE AnswersOK(v)'
    BY DEF Answered, AnswersOK
  <2>1. CASE v = w
    BY <2>1
  <2>2. CASE v # w
    BY <2>2 DEF IInv, Answered, AnswersOK, OthersKept, IsFirst
  <2> QED
    BY <2>1, <2>2
<1> QED
  BY <1>1, <1>2 DEF IInv

\* No row is touched: what is left of TaskStep's premises.
LEMMA RowsKept ==
    ASSUME IInv, UNCHANGED <<rowVars, received, tries>>, done \subseteq done'
    PROVE  /\ \A m \in Id : attempts'[m] <= tries'[m] /\ tries[m] <= tries'[m]
           /\ Stored' /\ NothingLost'
<1>1. \A m \in Id : attempts'[m] <= tries'[m] /\ tries[m] <= tries'[m]
  BY Numbers DEF IInv, Counted, TypeOK, rowVars
<1> QED
  BY <1>1 DEF IInv, Stored, NothingLost, rowVars

\* Steps of the environment and of the scheduler.
LEMMA ReceiveStep ==
    ASSUME IInv, NEW m \in Id, Receive(m)
    PROVE  IInv'
<1>1. TypeOK'
  BY DEF IInv, TypeOK, Receive, taskVars
<1>2. Counted' /\ Answered'
  BY DEF IInv, Counted, Answered, IsFirst, Receive, taskVars
<1>3. Stored' /\ NothingLost'
  BY DEF IInv, Stored, NothingLost, Receive
<1> QED
  BY <1>1, <1>2, <1>3 DEF IInv

LEMMA OutsideStep ==
    ASSUME IInv, due' \in SUBSET Id, heads' \in SUBSET Id, crashes' \in Nat,
           UNCHANGED <<rows, attempts, taskVars, received, earlier, done, tries>>
    PROVE  IInv'
<1>1. TypeOK'
  BY DEF IInv, TypeOK, taskVars
<1>2. Counted' /\ Answered'
  BY DEF IInv, Counted, Answered, IsFirst, taskVars
<1>3. Stored' /\ NothingLost'
  BY DEF IInv, Stored, NothingLost
<1> QED
  BY <1>1, <1>2, <1>3 DEF IInv

LEMMA QueueStep ==
    ASSUME IInv, NEW m \in Id, NEW w \in Worker, QueueDrain(m, w)
    PROVE  IInv'
<1> DEFINE batch == First(MaxDrain, From(m))
<1>1. /\ heads' = heads \ {m} /\ due' = due \ batch
      /\ pc' = [pc EXCEPT ![w] = "queued"] /\ head' = [head EXCEPT ![w] = m]
      /\ parallel' = [parallel EXCEPT ![w] = Cardinality(batch) >= ParallelAt]
      /\ UNCHANGED <<rows, attempts, todo, seen, okays, errs, failed, history>>
  BY DEF QueueDrain
<1> HIDE DEF batch
<1>2. (Cardinality(batch) >= ParallelAt) \in BOOLEAN
  OBVIOUS
<1>3. TypeOK'
  BY <1>1, <1>2, Numbers DEF IInv, TypeOK, history
<1>4. Counted' /\ Answered'
  BY <1>1 DEF IInv, TypeOK, Counted, Answered, IsFirst, history
<1>5. Stored' /\ NothingLost'
  BY <1>1 DEF IInv, Stored, NothingLost, history
<1> QED
  BY <1>3, <1>4, <1>5 DEF IInv

\* The steps of a drain that do not end it.
LEMMA StartStep ==
    ASSUME IInv, NEW w \in Worker, StartDrain(w)
    PROVE  IInv'
<1>1. /\ pc' = [pc EXCEPT ![w] = "fetch"]
      /\ UNCHANGED <<heads, parallel, head, todo, seen, okays, errs, failed, received, earlier, tries, crashes>>
  BY DEF StartDrain
<1>2. /\ rows' \in SUBSET Id /\ due' \in SUBSET Id /\ attempts' \in [Id -> 0..MaxAttempts]
      /\ done' \in SUBSET Id /\ done \subseteq done'
      /\ \A m \in Id : attempts'[m] <= tries'[m]
      /\ Stored' /\ NothingLost'
  <2>1. CASE UNCHANGED <<rowVars, done>>
    BY <1>1, <2>1, RowsKept DEF IInv, TypeOK, rowVars
  <2>2. CASE \E old \in SUBSET Id : Delete(old) /\ done' = done \cup old
    <3> PICK old \in SUBSET Id : Delete(old) /\ done' = done \cup old
      BY <2>2
    <3> QED
      BY <1>1, DeleteKeeps DEF IInv, TypeOK
  <2>3. \A last : TooOld(head[w], last) \in SUBSET Id
    BY DEF TooOld, From, IInv, TypeOK
  <2> QED
    BY <2>1, <2>2, <2>3 DEF StartDrain
<1>3. TypeOK'
  BY <1>1, <1>2 DEF IInv, TypeOK
<1>4. OthersKept(w) /\ CopiesOK(w)' /\ AnswersOK(w)'
  BY <1>1, <1>2 DEF IInv, TypeOK, Counted, Answered, OthersKept, CopiesOK, AnswersOK
<1>5. \A m \in Id : tries[m] <= tries'[m]
  BY <1>1, Numbers DEF IInv, TypeOK
<1> QED
  BY <1>2, <1>3, <1>4, <1>5, TaskStep

LEMMA FetchStep ==
    ASSUME IInv, NEW w \in Worker, FetchSlice(w)
    PROVE  IInv'
<1> DEFINE copy == [m \in Id |-> IF m \in Batch(w) THEN attempts[m] ELSE 0]
<1>1. /\ pc' = [pc EXCEPT ![w] = "deliver"]
      /\ todo' = [todo EXCEPT ![w] = Batch(w)]
      /\ seen' = [seen EXCEPT ![w] = copy]
      /\ UNCHANGED <<rowVars, heads, parallel, head, okays, errs, failed, history>>
  BY DEF FetchSlice
<1>2. Batch(w) \in SUBSET Id
  BY DEF Batch, First, From, IInv, TypeOK
<1>3. copy \in [Id -> 0..MaxAttempts] /\ \A m \in Id : copy[m] <= tries[m]
  BY Numbers DEF IInv, TypeOK, Counted
<1> HIDE DEF copy
<1>4. TypeOK'
  BY <1>1, <1>2, <1>3 DEF IInv, TypeOK, rowVars, history
<1>5. OthersKept(w) /\ CopiesOK(w)' /\ AnswersOK(w)'
  BY <1>1, <1>3 DEF IInv, TypeOK, Answered, OthersKept, CopiesOK, AnswersOK, history
<1> QED
  BY <1>1, <1>4, <1>5, RowsKept, TaskStep DEF history

LEMMA DiscardStep ==
    ASSUME IInv, NEW w \in Worker, NEW m \in Id, Discard(w, m)
    PROVE  IInv'
<1>1. /\ pc[w] = "deliver" /\ Exhausted(seen[w][m]) /\ Delete({m}) /\ Forget(w, m)
      /\ UNCHANGED <<heads, pc, parallel, head, okays, errs, failed, history>>
  BY DEF Discard
<1>2. tries[m] >= MaxAttempts
  BY <1>1, SizesAssumption DEF IInv, TypeOK, Counted, Exhausted
<1>3. /\ rows' \in SUBSET Id /\ due' \in SUBSET Id /\ attempts' \in [Id -> 0..MaxAttempts]
      /\ \A k \in Id : attempts'[k] <= tries'[k]
      /\ Stored' /\ NothingLost'
  BY <1>1, <1>2, DeleteKeeps DEF history
<1>4. TypeOK'
  BY <1>1, <1>3, Numbers DEF IInv, TypeOK, Forget, history
<1>5. OthersKept(w) /\ AnswersOK(w)'
  BY <1>1 DEF IInv, TypeOK, Answered, OthersKept, AnswersOK, Forget, history
<1>6. CopiesOK(w)' /\ \A k \in Id : tries[k] <= tries'[k]
  BY <1>1, Numbers DEF IInv, TypeOK, Counted, CopiesOK, Forget, history
<1> QED
  BY <1>1, <1>3, <1>4, <1>5, <1>6, TaskStep DEF history

LEMMA AttemptStep ==
    ASSUME IInv, NEW w \in Worker, NEW m \in Id, Attempt(w, m)
    PROVE  IInv'
<1>1. /\ ~Exhausted(seen[w][m]) /\ CountAttempt(w, m)
      /\ pc' = [pc EXCEPT ![w] = "request"]
      /\ UNCHANGED <<heads, parallel, head, todo, seen, okays, errs, failed,
                     received, earlier, done, crashes>>
  BY DEF Attempt
<1>2. /\ rows' \in SUBSET Id /\ due' \in SUBSET Id
      /\ attempts' \in [Id -> 0..MaxAttempts] /\ tries' \in [Id -> 0..MaxAttempts]
      /\ \A k \in Id : attempts'[k] <= tries'[k] /\ tries[k] <= tries'[k]
      /\ Stored' /\ NothingLost'
  BY <1>1, CountKeeps
<1>3. TypeOK'
  BY <1>1, <1>2 DEF IInv, TypeOK
<1>4. OthersKept(w) /\ AnswersOK(w)'
  BY <1>1 DEF IInv, TypeOK, Answered, OthersKept, AnswersOK
<1>5. CopiesOK(w)'
  <2> SUFFICES ASSUME NEW k \in Id PROVE seen'[w][k] <= tries'[k]
    BY DEF CopiesOK
  <2>1. seen[w][k] \in 0..MaxAttempts /\ tries[k] \in 0..MaxAttempts /\ tries'[k] \in 0..MaxAttempts
    BY <1>2 DEF IInv, TypeOK
  <2>2. seen[w][k] <= tries[k] /\ tries[k] <= tries'[k]
    BY <1>2 DEF IInv, Counted
  <2> QED
    BY <1>1, <2>1, <2>2, SizesAssumption
<1> QED
  BY <1>1, <1>2, <1>3, <1>4, <1>5, TaskStep

LEMMA AcceptedStep ==
    ASSUME IInv, NEW w \in Worker, NEW m \in Id, Accepted(w, m)
    PROVE  IInv'
<1>1. /\ IsFirst(m, todo[w]) /\ done' = done \cup {m}
      /\ pc' = [pc EXCEPT ![w] = "accepted"]
      /\ UNCHANGED <<rowVars, heads, parallel, head, todo, seen, okays, errs, failed,
                     received, earlier, tries, crashes>>
  BY DEF Accepted
<1>2. TypeOK'
  BY <1>1 DEF IInv, TypeOK, rowVars
<1>3. \A k \in Id : IsFirst(k, todo[w]) => k = m
  BY <1>1, SizesAssumption DEF IsFirst, Id
<1>4. OthersKept(w) /\ CopiesOK(w)' /\ AnswersOK(w)'
  BY <1>1, <1>3 DEF IInv, TypeOK, Counted, Answered, OthersKept, CopiesOK, AnswersOK, IsFirst
<1>5. done \subseteq done'
  BY <1>1
<1> QED
  BY <1>1, <1>2, <1>4, <1>5, RowsKept, TaskStep

LEMMA RemoveStep ==
    ASSUME IInv, NEW w \in Worker, NEW m \in Id, Remove(w, m)
    PROVE  IInv'
<1>1. /\ pc[w] = "accepted" /\ IsFirst(m, todo[w]) /\ Delete({m}) /\ Forget(w, m)
      /\ pc' = [pc EXCEPT ![w] = "deliver"]
      /\ UNCHANGED <<heads, parallel, head, okays, errs, failed, history>>
  BY DEF Remove
<1>2. m \in done
  BY <1>1 DEF IInv, Answered
<1>3. /\ rows' \in SUBSET Id /\ due' \in SUBSET Id /\ attempts' \in [Id -> 0..MaxAttempts]
      /\ \A k \in Id : attempts'[k] <= tries'[k]
      /\ Stored' /\ NothingLost'
  BY <1>1, <1>2, DeleteKeeps DEF history
<1>4. TypeOK'
  BY <1>1, <1>3, Numbers DEF IInv, TypeOK, Forget, history
<1>5. OthersKept(w) /\ AnswersOK(w)'
  BY <1>1 DEF IInv, TypeOK, Answered, OthersKept, AnswersOK, Forget, history
<1>6. CopiesOK(w)' /\ \A k \in Id : tries[k] <= tries'[k]
  BY <1>1, Numbers DEF IInv, TypeOK, Counted, CopiesOK, Forget, history
<1> QED
  BY <1>1, <1>3, <1>4, <1>5, <1>6, TaskStep DEF history

LEMMA AnswerStep ==
    ASSUME IInv, NEW w \in Worker, NEW m \in Id, NEW ok \in BOOLEAN, Answer(w, m, ok)
    PROVE  IInv'
<1>1. /\ pc[w] \in {"deliver", "unwind"} /\ m \in todo[w]
      /\ todo' = [todo EXCEPT ![w] = todo[w] \ {m}]
      /\ done' = IF ok THEN done \cup {m} ELSE done
      /\ okays' = [okays EXCEPT ![w] = IF ok THEN okays[w] \cup {m} ELSE okays[w]]
      /\ errs' = [errs EXCEPT ![w] = IF ok THEN errs[w] ELSE errs[w] \cup {m}]
      /\ UNCHANGED <<rowVars, heads, pc, parallel, head, seen, failed,
                     received, earlier, tries, crashes>>
  BY DEF Answer
<1>2. TypeOK'
  BY <1>1 DEF IInv, TypeOK, rowVars
<1>3. OthersKept(w) /\ CopiesOK(w)' /\ AnswersOK(w)'
  BY <1>1 DEF IInv, TypeOK, Counted, Answered, OthersKept, CopiesOK, AnswersOK
<1>4. done \subseteq done'
  BY <1>1
<1> QED
  BY <1>1, <1>2, <1>3, <1>4, RowsKept, TaskStep

LEMMA RecordOkayStep ==
    ASSUME IInv, NEW w \in Worker, NEW m \in Id, RecordOkay(w, m)
    PROVE  IInv'
<1>1. /\ pc[w] = "deliver" /\ m \in okays[w] /\ Delete({m})
      /\ okays' = [okays EXCEPT ![w] = okays[w] \ {m}]
      /\ seen' = [seen EXCEPT ![w] = [seen[w] EXCEPT ![m] = 0]]
      /\ UNCHANGED <<heads, pc, parallel, head, todo, errs, failed, history>>
  BY DEF RecordOkay
<1>2. m \in done
  BY <1>1 DEF IInv, Answered
<1>3. /\ rows' \in SUBSET Id /\ due' \in SUBSET Id /\ attempts' \in [Id -> 0..MaxAttempts]
      /\ \A k \in Id : attempts'[k] <= tries'[k]
      /\ Stored' /\ NothingLost'
  BY <1>1, <1>2, DeleteKeeps DEF history
<1>4. TypeOK'
  BY <1>1, <1>3, Numbers DEF IInv, TypeOK, history
<1>5. OthersKept(w) /\ AnswersOK(w)'
  BY <1>1 DEF IInv, TypeOK, Answered, OthersKept, AnswersOK, history
<1>6. CopiesOK(w)' /\ \A k \in Id : tries[k] <= tries'[k]
  BY <1>1, Numbers DEF IInv, TypeOK, Counted, CopiesOK, history
<1> QED
  BY <1>1, <1>3, <1>4, <1>5, <1>6, TaskStep DEF history

LEMMA RecordErrorStep ==
    ASSUME IInv, NEW w \in Worker, NEW m \in Id, NEW unexpected \in BOOLEAN,
           RecordError(w, m, unexpected)
    PROVE  IInv'
<1>1. /\ pc[w] = "deliver"
      /\ errs' = [errs EXCEPT ![w] = errs[w] \ {m}]
      /\ seen' = [seen EXCEPT ![w] = [seen[w] EXCEPT ![m] = 0]]
      /\ pc' = [pc EXCEPT ![w] = IF unexpected THEN "unwind" ELSE pc[w]]
      /\ UNCHANGED <<heads, parallel, head, todo, okays, received, earlier, done, crashes>>
  BY DEF RecordError
<1>2. /\ rows' \in SUBSET Id /\ due' \in SUBSET Id
      /\ attempts' \in [Id -> 0..MaxAttempts] /\ tries' \in [Id -> 0..MaxAttempts]
      /\ failed' \in [Worker -> BOOLEAN]
      /\ \A k \in Id : attempts'[k] <= tries'[k] /\ tries[k] <= tries'[k]
      /\ Stored' /\ NothingLost'
  <2>1. CASE Exhausted(seen[w][m]) /\ Delete({m}) /\ UNCHANGED <<tries, failed>>
    <3>1. tries[m] >= MaxAttempts
      BY <2>1, SizesAssumption DEF IInv, TypeOK, Counted, Exhausted
    <3>2. \A k \in Id : tries[k] <= tries'[k]
      BY <2>1, Numbers DEF IInv, TypeOK
    <3> QED
      BY <1>1, <2>1, <3>1, <3>2, DeleteKeeps DEF IInv, TypeOK
  <2>2. CASE /\ ~Exhausted(seen[w][m]) /\ CountAttempt(w, m)
             /\ failed' = [failed EXCEPT ![w] = TRUE]
    BY <1>1, <2>2, CountKeeps DEF IInv, TypeOK
  <2> QED
    BY <2>1, <2>2 DEF RecordError
<1>3. TypeOK'
  BY <1>1, <1>2, Numbers DEF IInv, TypeOK
<1>4. OthersKept(w) /\ AnswersOK(w)'
  BY <1>1 DEF IInv, TypeOK, Answered, OthersKept, AnswersOK
<1>5. CopiesOK(w)'
  <2> SUFFICES ASSUME NEW k \in Id PROVE seen'[w][k] <= tries'[k]
    BY DEF CopiesOK
  <2>1. /\ seen[w][k] \in 0..MaxAttempts /\ tries[k] \in 0..MaxAttempts /\ tries'[k] \in 0..MaxAttempts
        /\ seen[w][k] <= tries[k] /\ tries[k] <= tries'[k]
    BY <1>2 DEF IInv, TypeOK, Counted
  <2>2. seen'[w][k] = IF k = m THEN 0 ELSE seen[w][k]
    BY <1>1 DEF IInv, TypeOK
  <2> QED
    BY <2>1, <2>2, SizesAssumption
<1> QED
  BY <1>1, <1>2, <1>3, <1>4, <1>5, TaskStep

LEMMA SliceDoneStep ==
    ASSUME IInv, NEW w \in Worker, SliceDone(w)
    PROVE  IInv'
<1>1. UNCHANGED <<rowVars, heads, history>>
  BY DEF SliceDone
<1>2. CASE End(w)
  BY <1>1, <1>2, EndStep DEF IInv, TypeOK, history
<1>3. CASE /\ pc' = [pc EXCEPT ![w] = "again"]
           /\ UNCHANGED <<parallel, head, todo, seen, okays, errs, failed>>
  <2>1. TypeOK'
    BY <1>1, <1>3 DEF IInv, TypeOK, rowVars, history
  <2>2. OthersKept(w) /\ CopiesOK(w)' /\ AnswersOK(w)'
    BY <1>1, <1>3 DEF IInv, TypeOK, Counted, Answered, OthersKept, CopiesOK, AnswersOK, history
  <2> QED
    BY <1>1, <2>1, <2>2, RowsKept, TaskStep DEF history
<1> QED
  BY <1>2, <1>3 DEF SliceDone

\* The steps that end a task.
LEMMA EndSteps ==
    ASSUME IInv, NEW w \in Worker,
           \/ LoseRace(w) \/ Complete(w) \/ Deadline(w) \/ Unwind(w) \/ Crash(w)
           \/ \E m \in Id : Refused(w, m)
    PROVE  IInv'
<1>1. /\ End(w) /\ UNCHANGED <<rowVars, heads, received, earlier, done, tries>>
      /\ crashes' = crashes \/ crashes' = crashes + 1
  BY DEF LoseRace, Complete, Deadline, Unwind, Refused, Crash, history
<1>2. crashes' \in Nat /\ heads' \in SUBSET Id /\ done' \in SUBSET Id /\ done \subseteq done'
  BY <1>1 DEF IInv, TypeOK
<1> QED
  BY <1>1, <1>2, EndStep

LEMMA StepHolds ==
    ASSUME IInv, NEW w \in Worker, Step(w)
    PROVE  IInv'
<1>1. CASE LoseRace(w) \/ Complete(w) \/ Deadline(w) \/ Unwind(w)
  BY <1>1, EndSteps
<1>2. CASE StartDrain(w) \/ FetchSlice(w) \/ SliceDone(w)
  BY <1>2, StartStep, FetchStep, SliceDoneStep
<1>3. ASSUME NEW m \in Id,
             \/ Discard(w, m) \/ Attempt(w, m) \/ Accepted(w, m) \/ Refused(w, m)
             \/ Remove(w, m) \/ RecordOkay(w, m)
      PROVE  IInv'
  BY <1>3, DiscardStep, AttemptStep, AcceptedStep, EndSteps, RemoveStep, RecordOkayStep
<1>4. ASSUME NEW m \in Id, NEW b \in BOOLEAN, Answer(w, m, b) \/ RecordError(w, m, b)
      PROVE  IInv'
  BY <1>4, AnswerStep, RecordErrorStep
<1> QED
  BY <1>1, <1>2, <1>3, <1>4 DEF Step

LEMMA NextHolds == IInv /\ [Next]_vars => IInv'
<1> SUFFICES ASSUME IInv, [Next]_vars PROVE IInv'
  OBVIOUS
<1>1. ASSUME NEW m \in Id, Receive(m) PROVE IInv'
  BY <1>1, ReceiveStep
<1>2. ASSUME NEW m \in Id, BecomeDue(m) PROVE IInv'
  BY <1>2, OutsideStep DEF BecomeDue, IInv, TypeOK, history
<1>3. CASE StartSchedule
  <2>1. heads' \in SUBSET Id
    BY <1>3 DEF StartSchedule, DueHeads, IInv, TypeOK
  <2> QED
    BY <1>3, <2>1, OutsideStep DEF StartSchedule, IInv, TypeOK, rowVars, history
<1>4. ASSUME NEW m \in Id, NEW w \in Worker, QueueDrain(m, w) PROVE IInv'
  BY <1>4, QueueStep
<1>5. CASE SchedulerDies
  BY <1>5, OutsideStep DEF SchedulerDies, IInv, TypeOK, rowVars
<1>6. ASSUME NEW w \in Worker, Step(w) \/ Crash(w) PROVE IInv'
  BY <1>6, StepHolds, EndSteps
<1>7. CASE UNCHANGED vars
  BY <1>7, OutsideStep DEF vars, IInv, TypeOK, rowVars, history
<1> QED
  BY <1>1, <1>2, <1>3, <1>4, <1>5, <1>6, <1>7 DEF Next, Schedule

\* The inductive invariant: copies never hold more attempts than were counted,
\* and only answered or exhausted rows are deleted (deliver_webhooks.py).
THEOREM Invariance == Spec => []IInv
<1>1. Init => IInv
  BY InitHolds
<1>2. IInv /\ [Next]_vars => IInv'
  BY NextHolds
<1> QED
  BY <1>1, <1>2, PTL DEF Spec

\* Every variable keeps its type; in particular no row is ever tried more than
\* MAX_ATTEMPTS times by its own count.
THEOREM TypeCorrect == Spec => []TypeOK
<1>1. IInv => TypeOK
  BY DEF IInv
<1> QED
  BY <1>1, Invariance, PTL

\* Overlapping, stale and dying drains lose no webhook: one that is gone was
\* taken by its region, tried MAX_ATTEMPTS times, or too old.
THEOREM NoneIsLost == Spec => []NothingLost
<1>1. IInv => NothingLost
  BY DEF IInv
<1> QED
  BY <1>1, Invariance, PTL

-----------------------------------------------------------------------------
\* Only a new webhook adds a row.
LEMMA NoRowReturns ==
    ASSUME [Next]_vars, NEW m \in received, m \in rows'
    PROVE  m \in rows
<1>1. CASE \E k \in Id : Receive(k)
  BY <1>1 DEF Receive
<1>2. CASE rows' \subseteq rows
  BY <1>2
<1>3. (\E k \in Id : Receive(k)) \/ rows' \subseteq rows
  <2>1. ASSUME NEW k \in Id, BecomeDue(k) PROVE rows' \subseteq rows
    BY <2>1 DEF BecomeDue
  <2>2. ASSUME Schedule \/ SchedulerDies PROVE rows' \subseteq rows
    BY <2>2 DEF Schedule, StartSchedule, QueueDrain, SchedulerDies, rowVars
  <2>3. ASSUME NEW w \in Worker, Crash(w) PROVE rows' \subseteq rows
    BY <2>3 DEF Crash, rowVars
  <2>4. ASSUME NEW w \in Worker, Step(w) PROVE rows' \subseteq rows
    BY <2>4 DEF Step, LoseRace, StartDrain, FetchSlice, Complete, Deadline, Discard, Attempt,
                Accepted, Refused, Remove, RecordOkay, Answer, RecordError, Unwind, SliceDone,
                Delete, CountAttempt, rowVars
  <2>5. ASSUME UNCHANGED vars PROVE rows' \subseteq rows
    BY <2>5 DEF vars, rowVars
  <2> QED
    BY <2>1, <2>2, <2>3, <2>4, <2>5 DEF Next
<1> QED
  BY <1>1, <1>2, <1>3

\* schedule_next_attempt never brings back a row another drain has deleted.
THEOREM DeletedForGood == Spec => GoneStaysGone
<1>1. [Next]_vars => [\A m \in received : m \in rows' => m \in rows]_vars
  BY NoRowReturns
<1> QED
  BY <1>1, PTL DEF Spec, GoneStaysGone
-----------------------------------------------------------------------------
(* Order.  Unless rows are committed late, the ids of a mailbox become      *)
(* visible in order.  Then the head of a drain stays the first row of its   *)
(* mailbox, whatever other drains delete and whatever arrives, and a slice  *)
(* holds the rows that one of its own could overtake.                       *)

ReceivedInOrder == \A m \in received, k \in Id : k < m => k \in received

\* The rows that precede a webhook have arrived before it.
Precedes ==
    \A m \in Id : earlier[m] \subseteq {k \in received : k < m /\ Box[k] = Box[m]}

LeadsMailbox(h) == h \in received /\ \A k \in rows : Box[k] = Box[h] => h <= k

\* A sequential slice still has the rows before m, and fewer rows than a
\* parallel one has threads are before m.
KeepsOrder(w, m) ==
    /\ parallel[w] => Cardinality(earlier[m] \cap rows) < Threads
    /\ ~parallel[w] => earlier[m] \cap rows \subseteq todo[w]

DrainInOrder(w) ==
    /\ pc[w] # "idle" => LeadsMailbox(head[w])
    /\ todo[w] \subseteq received
    /\ pc[w] \in {"idle", "queued", "fetch", "again"} => todo[w] = {}
    /\ pc[w] \in {"request", "accepted"} => ~parallel[w]
    /\ \A m \in todo[w] : KeepsOrder(w, m)

OrderInv ==
    /\ ReceivedInOrder /\ Precedes
    /\ \A h \in heads : LeadsMailbox(h)
    /\ \A w \in Worker : DrainInOrder(w)

LEMMA IdsAreFinite ==
    ASSUME NEW S \in SUBSET Id
    PROVE  IsFiniteSet(S) /\ Cardinality(S) \in Nat
<1>1. IsFiniteSet(Id)
  BY SizesAssumption, FS_Interval DEF Id
<1>2. IsFiniteSet(S)
  BY <1>1, FS_Subset
<1> QED
  BY <1>2, FS_CardinalityType

LEMMA FewerIds ==
    ASSUME NEW S \in SUBSET Id, NEW T \in SUBSET S
    PROVE  Cardinality(T) \in Nat /\ Cardinality(S) \in Nat /\ Cardinality(T) <= Cardinality(S)
<1>1. IsFiniteSet(S) /\ Cardinality(S) \in Nat /\ Cardinality(T) \in Nat
  BY IdsAreFinite
<1> QED
  BY <1>1, FS_Subset

\* While rows only go, what was in order stays in order.
LEMMA OrderStays ==
    ASSUME TypeOK, rows' \subseteq rows, UNCHANGED <<received, earlier>>
    PROVE  /\ ReceivedInOrder /\ Precedes => ReceivedInOrder' /\ Precedes'
           /\ \A h \in Id : LeadsMailbox(h) => LeadsMailbox(h)'
           /\ \A m \in Id : Cardinality(earlier[m] \cap rows) < Threads =>
                                Cardinality(earlier'[m] \cap rows') < Threads
<1>1. ReceivedInOrder /\ Precedes => ReceivedInOrder' /\ Precedes'
  BY DEF ReceivedInOrder, Precedes
<1>2. ASSUME NEW h \in Id, LeadsMailbox(h) PROVE LeadsMailbox(h)'
  BY <1>2 DEF LeadsMailbox
<1>3. ASSUME NEW m \in Id, Cardinality(earlier[m] \cap rows) < Threads
      PROVE  Cardinality(earlier'[m] \cap rows') < Threads
  <2>1. earlier[m] \cap rows \in SUBSET Id /\ earlier'[m] \cap rows' \in SUBSET (earlier[m] \cap rows)
    BY DEF TypeOK
  <2>2. /\ Cardinality(earlier[m] \cap rows) \in Nat
        /\ Cardinality(earlier'[m] \cap rows') \in Nat
        /\ Cardinality(earlier'[m] \cap rows') <= Cardinality(earlier[m] \cap rows)
    BY <2>1, FewerIds
  <2> QED
    BY <1>3, <2>2, SizesAssumption
<1> QED
  BY <1>1, <1>2, <1>3

LEMMA DrainStays ==
    ASSUME TypeOK, rows' \subseteq rows, UNCHANGED <<received, earlier>>,
           NEW w \in Worker, DrainInOrder(w),
           pc'[w] = pc[w], parallel'[w] = parallel[w], head'[w] = head[w], todo'[w] = todo[w]
    PROVE  DrainInOrder(w)'
<1>1. pc'[w] # "idle" => LeadsMailbox(head[w])'
  BY OrderStays DEF DrainInOrder, LeadsMailbox, TypeOK
<1>2. /\ todo'[w] \subseteq received'
      /\ pc'[w] \in {"idle", "queued", "fetch", "again"} => todo'[w] = {}
      /\ pc'[w] \in {"request", "accepted"} => ~parallel'[w]
  BY DEF DrainInOrder
<1>3. ASSUME NEW m \in todo'[w] PROVE KeepsOrder(w, m)'
  <2>1. m \in Id /\ KeepsOrder(w, m)
    BY <1>3 DEF DrainInOrder, TypeOK
  <2>2. parallel'[w] => Cardinality(earlier'[m] \cap rows') < Threads
    BY <2>1, OrderStays DEF KeepsOrder
  <2>3. ~parallel'[w] => earlier'[m] \cap rows' \subseteq todo'[w]
    BY <2>1 DEF KeepsOrder
  <2> QED
    BY <2>2, <2>3 DEF KeepsOrder
<1>4. head'[w] = head[w]
  OBVIOUS
<1> QED
  BY <1>1, <1>2, <1>3, <1>4 DEF DrainInOrder, LeadsMailbox

\* Who takes a step leaves the drains of the others alone, and adds no row.
LEMMA StepFrame ==
    ASSUME TypeOK, NEW w \in Worker, Step(w) \/ Crash(w)
    PROVE  /\ rows' \subseteq rows /\ UNCHANGED <<received, earlier, heads>>
           /\ \A v \in Worker \ {w} : /\ pc'[v] = pc[v] /\ parallel'[v] = parallel[v]
                                      /\ head'[v] = head[v] /\ todo'[v] = todo[v]
<1>1. CASE LoseRace(w) \/ StartDrain(w) \/ FetchSlice(w) \/ Complete(w) \/ Deadline(w)
  BY <1>1 DEF LoseRace, StartDrain, FetchSlice, Complete, Deadline, End, Delete, TypeOK,
              rowVars, history
<1>2. CASE Unwind(w) \/ SliceDone(w) \/ Crash(w)
  BY <1>2 DEF Unwind, SliceDone, Crash, End, TypeOK, rowVars, history
<1>3. ASSUME NEW m \in Id,
             Discard(w, m) \/ Attempt(w, m) \/ Accepted(w, m) \/ Refused(w, m) \/ Remove(w, m)
      PROVE  /\ rows' \subseteq rows /\ UNCHANGED <<received, earlier, heads>>
             /\ \A v \in Worker \ {w} : /\ pc'[v] = pc[v] /\ parallel'[v] = parallel[v]
                                        /\ head'[v] = head[v] /\ todo'[v] = todo[v]
  BY <1>3 DEF Discard, Attempt, Accepted, Refused, Remove, End, Delete, Forget, CountAttempt,
              TypeOK, rowVars, history
<1>4. ASSUME NEW m \in Id, NEW b \in BOOLEAN,
             RecordOkay(w, m) \/ Answer(w, m, b) \/ RecordError(w, m, b)
      PROVE  /\ rows' \subseteq rows /\ UNCHANGED <<received, earlier, heads>>
             /\ \A v \in Worker \ {w} : /\ pc'[v] = pc[v] /\ parallel'[v] = parallel[v]
                                        /\ head'[v] = head[v] /\ todo'[v] = todo[v]
  BY <1>4 DEF RecordOkay, Answer, RecordError, Delete, CountAttempt, TypeOK, rowVars, history
<1> QED
  BY <1>1, <1>2, <1>3, <1>4 DEF Step

\* A slice of which rows have gone: a sequential one only drops rows that were
\* deleted.
LEMMA SliceShrinks ==
    ASSUME TypeOK, NEW w \in Worker, DrainInOrder(w), pc[w] # "idle",
           rows' \subseteq rows, UNCHANGED <<received, earlier>>,
           parallel'[w] = parallel[w], head'[w] = head[w], todo'[w] \subseteq todo[w],
           ~parallel[w] => (todo[w] \ todo'[w]) \cap rows' = {},
           pc'[w] \in {"deliver", "request", "accepted", "unwind"},
           pc'[w] \in {"request", "accepted"} => ~parallel[w]
    PROVE  DrainInOrder(w)'
<1>1. LeadsMailbox(head[w])'
  BY OrderStays DEF DrainInOrder, LeadsMailbox, TypeOK
<1>2. ASSUME NEW m \in todo'[w] PROVE KeepsOrder(w, m)'
  <2>1. m \in Id /\ KeepsOrder(w, m)
    BY <1>2 DEF DrainInOrder, TypeOK
  <2>2. parallel'[w] => Cardinality(earlier'[m] \cap rows') < Threads
    BY <2>1, OrderStays DEF KeepsOrder
  <2>3. ~parallel'[w] => earlier'[m] \cap rows' \subseteq todo'[w]
    BY <2>1 DEF KeepsOrder
  <2> QED
    BY <2>2, <2>3 DEF KeepsOrder
<1> QED
  BY <1>1, <1>2 DEF DrainInOrder, LeadsMailbox

\* The rows before m in a batch of n: they are in it, and fewer than n.
LEMMA BatchInOrder ==
    ASSUME TypeOK, Precedes, NEW h \in Id, LeadsMailbox(h), NEW n \in Nat,
           NEW m \in First(n, From(h))
    PROVE  /\ earlier[m] \cap rows \subseteq First(n, From(h))
           /\ Cardinality(earlier[m] \cap rows) < n
<1> DEFINE upTo(k) == {j \in From(h) : j <= k}
<1>1. m \in From(h) /\ Cardinality(upTo(m)) <= n
  BY DEF First
<1>2. m \in Id /\ Box[m] = Box[h] /\ m \in upTo(m) /\ \A k \in Id : upTo(k) \in SUBSET Id
  <2>1. m \in Id /\ Box[m] = Box[h] /\ From(h) \subseteq Id
    BY <1>1 DEF From, TypeOK
  <2>2. m <= m
    BY <2>1, SizesAssumption DEF Id
  <2> QED
    BY <1>1, <2>1, <2>2
<1>3. ASSUME NEW k \in earlier[m] \cap rows
      PROVE  k \in From(h) /\ k \in Id /\ k < m
  <2>1. k \in received /\ k < m /\ Box[k] = Box[h] /\ k \in Id
    BY <1>2, <1>3 DEF Precedes, TypeOK
  <2> QED
    BY <2>1, <1>3 DEF LeadsMailbox, From
<1>4. earlier[m] \cap rows \subseteq First(n, From(h))
  <2> SUFFICES ASSUME NEW k \in earlier[m] \cap rows
               PROVE  Cardinality(upTo(k)) <= n
    BY <1>3 DEF First
  <2>1. upTo(k) \in SUBSET upTo(m)
    BY <1>2, <1>3, SizesAssumption DEF Id, From, TypeOK
  <2>2. /\ Cardinality(upTo(k)) \in Nat /\ Cardinality(upTo(m)) \in Nat
        /\ Cardinality(upTo(k)) <= Cardinality(upTo(m))
    BY <1>2, <2>1, FewerIds
  <2> QED
    BY <1>1, <2>2
<1>5. Cardinality(earlier[m] \cap rows) < n
  <2>1. earlier[m] \cap rows \in SUBSET (upTo(m) \ {m})
    BY <1>2, <1>3, SizesAssumption DEF Id
  <2>2. upTo(m) \ {m} \in SUBSET Id
    BY <1>2
  <2>3. /\ Cardinality(earlier[m] \cap rows) \in Nat
        /\ Cardinality(upTo(m) \ {m}) \in Nat
        /\ Cardinality(earlier[m] \cap rows) <= Cardinality(upTo(m) \ {m})
    BY <2>1, <2>2, FewerIds
  <2>4. IsFiniteSet(upTo(m)) /\ Cardinality(upTo(m)) \in Nat
    BY <1>2, IdsAreFinite
  <2>5. Cardinality(upTo(m) \ {m}) = Cardinality(upTo(m)) - 1
    BY <1>2, <2>4, FS_RemoveElement
  <2> QED
    BY <1>1, <2>3, <2>4, <2>5
<1> QED
  BY <1>4, <1>5

LEMMA FetchInOrder ==
    ASSUME TypeOK, Stored, Precedes, NEW w \in Worker, DrainInOrder(w), FetchSlice(w)
    PROVE  DrainInOrder(w)'
<1>1. /\ pc[w] # "idle" /\ pc'[w] = "deliver" /\ todo'[w] = Batch(w)
      /\ UNCHANGED <<rows, parallel, head, received, earlier>>
  BY DEF FetchSlice, TypeOK, rowVars, history
<1>2. LeadsMailbox(head[w]) /\ head[w] \in Id
  BY <1>1 DEF DrainInOrder, LeadsMailbox, TypeOK
<1>3. Batch(w) \subseteq received
  BY DEF Batch, First, From, Stored
<1>4. ASSUME NEW m \in Batch(w) PROVE KeepsOrder(w, m)'
  <2>1. CASE parallel[w]
    <3>1. Batch(w) = First(Threads, From(head[w]))
      BY <2>1 DEF Batch
    <3>2. Cardinality(earlier[m] \cap rows) < Threads
      BY <1>2, <1>4, <3>1, BatchInOrder, SizesAssumption
    <3> QED
      BY <1>1, <2>1, <3>2 DEF KeepsOrder
  <2>2. CASE ~parallel[w]
    <3>1. Batch(w) = First(Slice, From(head[w]))
      BY <2>2 DEF Batch
    <3>2. earlier[m] \cap rows \subseteq Batch(w)
      BY <1>2, <1>4, <3>1, BatchInOrder, SizesAssumption
    <3> QED
      BY <1>1, <2>2, <3>2 DEF KeepsOrder
  <2> QED
    BY <2>1, <2>2
<1> QED
  BY <1>1, <1>2, <1>3, <1>4 DEF DrainInOrder, LeadsMailbox

\* The steps of a drain keep its slice in order.
LEMMA OwnSliceStep ==
    ASSUME TypeOK, Stored, Precedes, NEW w \in Worker, DrainInOrder(w), Step(w) \/ Crash(w)
    PROVE  DrainInOrder(w)'
<1>1. /\ rows' \subseteq rows /\ UNCHANGED <<received, earlier>>
  BY StepFrame
<1>2. CASE End(w)
  BY <1>2 DEF End, TypeOK, DrainInOrder
<1>3. CASE StartDrain(w)
  <2>1. /\ pc[w] = "queued" /\ pc'[w] = "fetch"
        /\ UNCHANGED <<parallel, head, todo>>
    BY <1>3 DEF StartDrain, TypeOK
  <2>2. LeadsMailbox(head[w])'
    BY <1>1, <2>1, OrderStays DEF DrainInOrder, LeadsMailbox, TypeOK
  <2> QED
    BY <1>1, <2>1, <2>2 DEF DrainInOrder, LeadsMailbox
<1>4. CASE FetchSlice(w)
  BY <1>4, FetchInOrder
<1>5. CASE \E m \in Id : Discard(w, m) \/ Remove(w, m)
  <2>1. PICK m \in Id : Discard(w, m) \/ Remove(w, m)
    BY <1>5
  <2>2. /\ pc[w] \in {"deliver", "accepted"} /\ pc'[w] = "deliver"
        /\ todo'[w] = todo[w] \ {m} /\ m \notin rows' /\ UNCHANGED <<parallel, head>>
    BY <2>1 DEF Discard, Remove, Delete, Forget, TypeOK
  <2> QED
    BY <1>1, <2>2, SliceShrinks
<1>6. CASE \E m \in Id : Attempt(w, m) \/ Accepted(w, m)
  <2>1. /\ pc[w] \in {"deliver", "request"} /\ pc'[w] \in {"request", "accepted"}
        /\ ~parallel[w] /\ UNCHANGED <<parallel, head, todo>>
    BY <1>6 DEF Attempt, Accepted, DrainInOrder, TypeOK
  <2> QED
    BY <1>1, <2>1, SliceShrinks
<1>7. CASE \E m \in Id, b \in BOOLEAN : Answer(w, m, b)
  <2>1. /\ pc[w] \in {"deliver", "unwind"} /\ pc' = pc
        /\ parallel[w] /\ todo'[w] \subseteq todo[w] /\ UNCHANGED <<parallel, head>>
    BY <1>7 DEF Answer, TypeOK
  <2> QED
    BY <1>1, <2>1, SliceShrinks
<1>8. CASE \E m \in Id : RecordOkay(w, m) \/ \E b \in BOOLEAN : RecordError(w, m, b)
  <2>1. /\ pc[w] = "deliver" /\ pc'[w] \in {"deliver", "unwind"}
        /\ UNCHANGED <<parallel, head, todo>>
    BY <1>8 DEF RecordOkay, RecordError, TypeOK
  <2> QED
    BY <1>1, <2>1, SliceShrinks
<1>9. CASE /\ SliceDone(w) /\ ~End(w)
  <2>1. /\ pc[w] = "deliver" /\ pc'[w] = "again" /\ todo[w] = {}
        /\ UNCHANGED <<parallel, head, todo>>
    BY <1>9 DEF SliceDone, TypeOK
  <2>2. LeadsMailbox(head[w])'
    BY <1>1, <2>1, OrderStays DEF DrainInOrder, LeadsMailbox, TypeOK
  <2> QED
    BY <1>1, <2>1, <2>2 DEF DrainInOrder, LeadsMailbox
<1>10. \/ End(w) \/ StartDrain(w) \/ FetchSlice(w) \/ SliceDone(w)
       \/ \E m \in Id : Discard(w, m) \/ Remove(w, m)
       \/ \E m \in Id : Attempt(w, m) \/ Accepted(w, m)
       \/ \E m \in Id, b \in BOOLEAN : Answer(w, m, b)
       \/ \E m \in Id : RecordOkay(w, m) \/ \E b \in BOOLEAN : RecordError(w, m, b)
  <2>1. LoseRace(w) \/ Complete(w) \/ Deadline(w) \/ Unwind(w) \/ Crash(w) => End(w)
    BY DEF LoseRace, Complete, Deadline, Unwind, Crash
  <2>2. \A m \in Id : Refused(w, m) => End(w)
    BY DEF Refused
  <2> QED
    BY <2>1, <2>2 DEF Step
<1> QED
  BY <1>2, <1>3, <1>4, <1>5, <1>6, <1>7, <1>8, <1>9, <1>10

\* A new row comes after all others.
LEMMA ReceiveInOrder ==
    ASSUME ~LateCommit, TypeOK, Stored, OrderInv, NEW m \in Id, Receive(m)
    PROVE  OrderInv'
<1>1. /\ m \notin received /\ \A k \in Id : k < m => k \in received
      /\ rows' = rows \cup {m} /\ received' = received \cup {m}
      /\ earlier' = [earlier EXCEPT ![m] = {k \in received : k < m /\ Box[k] = Box[m]}]
      /\ UNCHANGED <<heads, taskVars>>
  BY DEF Receive
<1>2. \A k \in received : k \in Id /\ k < m
  <2> TAKE k \in received
  <2>1. k \in Id /\ k # m /\ ~(m < k)
    BY <1>1 DEF OrderInv, ReceivedInOrder, TypeOK
  <2> QED
    BY <2>1, SizesAssumption DEF Id
<1>3. ReceivedInOrder'
  BY <1>1 DEF OrderInv, ReceivedInOrder
<1>4. Precedes'
  BY <1>1 DEF OrderInv, Precedes, TypeOK
<1>5. \A h : LeadsMailbox(h) => LeadsMailbox(h)'
  <2> SUFFICES ASSUME NEW h, LeadsMailbox(h) PROVE LeadsMailbox(h)'
    OBVIOUS
  <2>1. h < m /\ h \in Id
    BY <1>2 DEF LeadsMailbox
  <2>2. h <= m
    BY <2>1, SizesAssumption DEF Id
  <2> QED
    BY <1>1, <2>2 DEF LeadsMailbox
<1>6. ASSUME NEW w \in Worker PROVE DrainInOrder(w)'
  <2>1. DrainInOrder(w) /\ UNCHANGED <<pc, parallel, head, todo>>
    BY <1>1 DEF OrderInv, taskVars
  <2>2. ASSUME NEW k \in todo[w] PROVE KeepsOrder(w, k)'
    <3>1. k \in received /\ k \in Id /\ k # m /\ KeepsOrder(w, k)
      BY <1>1, <2>1, <2>2 DEF DrainInOrder, TypeOK
    <3>2. earlier'[k] = earlier[k]
      BY <1>1, <3>1 DEF TypeOK
    <3>3. m \notin earlier[k]
      BY <1>1, <3>1 DEF OrderInv, Precedes
    <3>4. earlier'[k] \cap rows' = earlier[k] \cap rows
      BY <1>1, <3>2, <3>3
    <3> QED
      BY <2>1, <3>1, <3>4 DEF KeepsOrder
  <2>3. pc'[w] # "idle" => LeadsMailbox(head[w])'
    BY <1>5, <2>1 DEF DrainInOrder, LeadsMailbox
  <2>4. todo'[w] \subseteq received'
    BY <1>1, <2>1 DEF DrainInOrder
  <2> QED
    BY <2>1, <2>2, <2>3, <2>4 DEF DrainInOrder, LeadsMailbox
<1> QED
  BY <1>1, <1>3, <1>4, <1>5, <1>6 DEF OrderInv, LeadsMailbox

LEMMA OrderStep ==
    ASSUME ~LateCommit, TypeOK, Stored, OrderInv, [Next]_vars
    PROVE  OrderInv'
<1>1. ASSUME NEW m \in Id, Receive(m) PROVE OrderInv'
  BY <1>1, ReceiveInOrder
<1>2. ASSUME rows' \subseteq rows, UNCHANGED <<received, earlier, taskVars>>,
             heads' \subseteq heads \cup DueHeads
      PROVE  OrderInv'
  <2>1. ReceivedInOrder' /\ Precedes'
    BY <1>2, OrderStays DEF OrderInv
  <2>2. ASSUME NEW h \in heads' PROVE LeadsMailbox(h)'
    <3>1. h \in Id /\ LeadsMailbox(h)
      BY <1>2, <2>2 DEF OrderInv, DueHeads, IsFirst, LeadsMailbox, Stored, TypeOK
    <3> QED
      BY <1>2, <3>1, OrderStays
  <2>3. \A w \in Worker : DrainInOrder(w)'
    BY <1>2, DrainStays DEF OrderInv, taskVars
  <2> QED
    BY <2>1, <2>2, <2>3 DEF OrderInv, LeadsMailbox
<1>3. ASSUME NEW m \in Id, BecomeDue(m) PROVE OrderInv'
  BY <1>2, <1>3 DEF BecomeDue, history
<1>4. CASE StartSchedule \/ SchedulerDies \/ UNCHANGED vars
  BY <1>2, <1>4 DEF StartSchedule, SchedulerDies, vars, rowVars, history
<1>5. ASSUME NEW m \in Id, NEW w \in Worker, QueueDrain(m, w) PROVE OrderInv'
  <2>1. /\ m \in heads /\ pc[w] = "idle" /\ heads' = heads \ {m}
        /\ pc' = [pc EXCEPT ![w] = "queued"] /\ head' = [head EXCEPT ![w] = m]
        /\ todo' = todo /\ \A v \in Worker \ {w} : parallel'[v] = parallel[v]
        /\ UNCHANGED <<rows, received, earlier>>
    BY <1>5 DEF QueueDrain, history, TypeOK
  <2>2. ReceivedInOrder' /\ Precedes'
    BY <2>1, OrderStays DEF OrderInv
  <2>3. \A h \in heads : LeadsMailbox(h) /\ LeadsMailbox(h)'
    BY <2>1, OrderStays DEF OrderInv, TypeOK
  <2>4. DrainInOrder(w)'
    <3>1. pc'[w] = "queued" /\ head'[w] = m /\ todo'[w] = {}
      BY <2>1 DEF OrderInv, DrainInOrder, TypeOK
    <3> QED
      BY <2>1, <2>3, <3>1 DEF DrainInOrder, LeadsMailbox
  <2>5. ASSUME NEW v \in Worker \ {w} PROVE DrainInOrder(v)'
    <3>1. pc'[v] = pc[v] /\ parallel'[v] = parallel[v] /\ head'[v] = head[v] /\ todo'[v] = todo[v]
      BY <2>1 DEF TypeOK
    <3> QED
      BY <2>1, <3>1, DrainStays DEF OrderInv
  <2> QED
    BY <2>1, <2>2, <2>3, <2>4, <2>5 DEF OrderInv, LeadsMailbox
<1>6. ASSUME NEW w \in Worker, Step(w) \/ Crash(w) PROVE OrderInv'
  <2>1. /\ rows' \subseteq rows /\ UNCHANGED <<received, earlier, heads>>
        /\ \A v \in Worker \ {w} : /\ pc'[v] = pc[v] /\ parallel'[v] = parallel[v]
                                   /\ head'[v] = head[v] /\ todo'[v] = todo[v]
    BY <1>6, StepFrame
  <2>2. ReceivedInOrder' /\ Precedes' /\ \A h \in heads : LeadsMailbox(h)'
    BY <2>1, OrderStays DEF OrderInv, TypeOK
  <2>3. DrainInOrder(w)'
    BY <1>6, OwnSliceStep DEF OrderInv
  <2>4. ASSUME NEW v \in Worker \ {w} PROVE DrainInOrder(v)'
    BY <2>1, DrainStays DEF OrderInv
  <2> QED
    BY <2>1, <2>2, <2>3, <2>4 DEF OrderInv, LeadsMailbox
<1> QED
  BY <1>1, <1>3, <1>4, <1>5, <1>6 DEF Next, Schedule

\* What is forwarded overtakes few: it is the first of a sequential slice, or
\* one of a parallel slice.
LEMMA ForwardedInOrder ==
    ASSUME TypeOK, OrderInv, NEW w \in Worker, NEW m \in Id, Forwards(w, m)
    PROVE  Cardinality({k \in earlier[m] : k \in rows \ done})
               < IF parallel[w] THEN Threads ELSE 1
<1> DEFINE over == {k \in earlier[m] : k \in rows \ done}
<1>1. /\ earlier[m] \cap rows \in SUBSET Id /\ over \in SUBSET (earlier[m] \cap rows)
      /\ m \in todo[w] /\ KeepsOrder(w, m)
  BY DEF Forwards, IsFirst, OrderInv, DrainInOrder, TypeOK
<1>2. Cardinality(earlier[m] \cap rows) < IF parallel[w] THEN Threads ELSE 1
  <2>1. CASE parallel[w]
    BY <1>1, <2>1 DEF KeepsOrder
  <2>2. CASE ~parallel[w]
    <3>1. \A k \in todo[w] : m <= k
      BY <2>2 DEF Forwards, IsFirst
    <3>2. \A k \in earlier[m] : k < m /\ k \in Id
      BY DEF OrderInv, Precedes, TypeOK
    <3>3. earlier[m] \cap rows = {}
      BY <1>1, <2>2, <3>1, <3>2, SizesAssumption DEF KeepsOrder, Id
    <3>4. Cardinality(earlier[m] \cap rows) = 0
      BY <3>3, FS_EmptySet
    <3> QED
      BY <2>2, <3>4
  <2> QED
    BY <2>1, <2>2
<1>3. /\ Cardinality(over) \in Nat /\ Cardinality(earlier[m] \cap rows) \in Nat
      /\ Cardinality(over) <= Cardinality(earlier[m] \cap rows)
  BY <1>1, FewerIds
<1> QED
  BY <1>2, <1>3, SizesAssumption

LEMMA OrderInit == Init => OrderInv
BY DEF Init, OrderInv, ReceivedInOrder, Precedes, DrainInOrder

\* Unless rows are committed late, every drain starts at the first row of its
\* mailbox and no slice holds a row that could overtake too many.
THEOREM OrderInvariance ==
    ASSUME ~LateCommit
    PROVE  Spec => []OrderInv
<1>1. Init => OrderInv
  BY OrderInit
<1>2. TypeOK /\ Stored /\ OrderInv /\ [Next]_vars => OrderInv'
  BY OrderStep
<1>3. IInv => TypeOK /\ Stored
  BY DEF IInv
<1> QED
  BY <1>1, <1>2, <1>3, Invariance, PTL DEF Spec

\* Sequential drains forward a mailbox in order and parallel ones overtake
\* fewer rows than they have threads, although drains of one mailbox overlap,
\* work on stale slices, and stop anywhere; unless rows are committed late.
THEOREM MailboxesInOrder ==
    ASSUME ~LateCommit
    PROVE  Spec => OrderKept
<1>1. Spec => []OrderInv
  BY OrderInvariance
<1>2. TypeOK /\ OrderInv =>
        [\A w \in Worker, m \in Id : Forwards(w, m) =>
            Cardinality({k \in earlier[m] : k \in rows \ done})
                < IF parallel[w] THEN Threads ELSE 1]_vars
  BY ForwardedInOrder
<1>3. IInv => TypeOK
  BY DEF IInv
<1> QED
  BY <1>1, <1>2, <1>3, Invariance, PTL DEF OrderKept

-----------------------------------------------------------------------------
(* The refinement of MailboxSpec. *)

\* What a webhook could overtake is all that came before it.
EarlierIsAll ==
    \A m \in received, k \in Id : k < m /\ Box[k] = Box[m] => k \in earlier[m]

ErrorsReceived == \A w \in Worker : errs[w] \subseteq received

LEMMA EarlierIsAllStep ==
    ASSUME ~LateCommit, TypeOK, EarlierIsAll, [Next]_vars
    PROVE  EarlierIsAll'
<1>1. ASSUME NEW m \in Id, Receive(m) PROVE EarlierIsAll'
  BY <1>1 DEF Receive, EarlierIsAll, TypeOK
<1>2. CASE UNCHANGED <<received, earlier>>
  BY <1>2 DEF EarlierIsAll
<1>3. (\E m \in Id : Receive(m)) \/ UNCHANGED <<received, earlier>>
  <2>1. \A w \in Worker : Step(w) \/ Crash(w) => UNCHANGED <<received, earlier>>
    BY StepFrame
  <2> QED
    BY <2>1 DEF Next, BecomeDue, Schedule, StartSchedule, QueueDrain, SchedulerDies, vars, history
<1> QED
  BY <1>1, <1>2, <1>3

LEMMA ErrorsReceivedStep ==
    ASSUME TypeOK, OrderInv, ErrorsReceived, [Next]_vars
    PROVE  ErrorsReceived'
<1>1. CASE UNCHANGED errs /\ received \subseteq received'
  BY <1>1 DEF ErrorsReceived
<1>2. ASSUME NEW w \in Worker, errs'[w] \subseteq errs[w] \cup todo[w],
             \A v \in Worker \ {w} : errs'[v] = errs[v], UNCHANGED received
      PROVE  ErrorsReceived'
  BY <1>2 DEF ErrorsReceived, OrderInv, DrainInOrder
<1>3. ASSUME NEW w \in Worker, End(w), UNCHANGED received PROVE ErrorsReceived'
  BY <1>2, <1>3 DEF End, TypeOK
<1>4. ASSUME NEW w \in Worker, Step(w) \/ Crash(w) PROVE ErrorsReceived'
  <2>1. UNCHANGED received
    BY <1>4, StepFrame
  <2>2. ASSUME NEW m \in Id, NEW b \in BOOLEAN, Answer(w, m, b) \/ RecordError(w, m, b)
        PROVE  ErrorsReceived'
    <3>1. errs'[w] \subseteq errs[w] \cup todo[w] /\ \A v \in Worker \ {w} : errs'[v] = errs[v]
      BY <2>2 DEF Answer, RecordError, TypeOK
    <3> QED
      BY <1>2, <2>1, <3>1
  <2>3. CASE \/ LoseRace(w) \/ StartDrain(w) \/ FetchSlice(w) \/ Complete(w) \/ Deadline(w)
             \/ Unwind(w) \/ SliceDone(w) \/ Crash(w)
    <3>1. End(w) \/ UNCHANGED errs
      BY <2>3 DEF LoseRace, StartDrain, FetchSlice, Complete, Deadline, Unwind, SliceDone, Crash
    <3> QED
      BY <1>1, <1>3, <2>1, <3>1
  <2>4. ASSUME NEW m \in Id,
               \/ Discard(w, m) \/ Attempt(w, m) \/ Accepted(w, m) \/ Refused(w, m)
               \/ Remove(w, m) \/ RecordOkay(w, m)
        PROVE  ErrorsReceived'
    <3>1. End(w) \/ UNCHANGED errs
      BY <2>4 DEF Discard, Attempt, Accepted, Refused, Remove, RecordOkay
    <3> QED
      BY <1>1, <1>3, <2>1, <3>1
  <2> QED
    BY <1>4, <2>2, <2>3, <2>4 DEF Step
<1>5. ASSUME NEW m \in Id, Receive(m) PROVE ErrorsReceived'
  BY <1>1, <1>5 DEF Receive, taskVars
<1>6. ASSUME NEW m \in Id, BecomeDue(m) PROVE ErrorsReceived'
  BY <1>1, <1>6 DEF BecomeDue, taskVars, history
<1>7. CASE Schedule \/ SchedulerDies \/ UNCHANGED vars
  BY <1>1, <1>7 DEF Schedule, StartSchedule, QueueDrain, SchedulerDies, vars, taskVars, history
<1> QED
  BY <1>4, <1>5, <1>6, <1>7 DEF Next

mailbox == <<received, rows, done, tries>>

\* A webhook whose row is deleted leaves, unless it has left before.
LEMMA DeletedLeaves ==
    ASSUME TypeOK, NEW m \in Id, Delete({m}), UNCHANGED <<received, done, tries>>,
           m \in done \/ tries[m] >= MaxAttempts
    PROVE  [Mailbox!Next]_mailbox
<1>1. CASE m \in rows
  <2>1. Mailbox!Leave(m)
    BY <1>1 DEF Delete, Mailbox!Leave
  <2> QED
    BY <2>1 DEF Mailbox!Next
<1>2. CASE m \notin rows
  BY <1>2 DEF Delete, mailbox
<1> QED
  BY <1>1, <1>2

\* An attempt that is counted is tried, up to the limit.
LEMMA CountedTries ==
    ASSUME TypeOK, NEW w \in Worker, NEW m \in received, CountAttempt(w, m),
           UNCHANGED <<received, done>>
    PROVE  [Mailbox!Next]_mailbox
<1>1. m \in Id /\ UNCHANGED rows /\ tries' = [tries EXCEPT ![m] = OneMore(tries[m])]
  BY DEF CountAttempt, TypeOK
<1>2. CASE tries[m] < MaxAttempts
  <2>1. tries' = [tries EXCEPT ![m] = tries[m] + 1]
    BY <1>1, <1>2 DEF OneMore
  <2>2. Mailbox!Try(m)
    BY <1>1, <1>2, <2>1 DEF Mailbox!Try
  <2> QED
    BY <1>1, <2>2 DEF Mailbox!Next
<1>3. CASE ~(tries[m] < MaxAttempts)
  <2>1. tries' = tries
    BY <1>1, <1>3 DEF OneMore, TypeOK
  <2> QED
    BY <1>1, <2>1 DEF mailbox
<1> QED
  BY <1>2, <1>3

\* A webhook that its region takes is settled in order.
LEMMA ForwardedSettles ==
    ASSUME TypeOK, OrderInv, EarlierIsAll, NEW w \in Worker, NEW m \in Id, Forwards(w, m),
           done' = done \cup {m}, UNCHANGED <<received, rows, tries>>
    PROVE  [Mailbox!Next]_mailbox
<1> DEFINE over == {k \in earlier[m] : k \in rows \ done}
<1>1. Cardinality(over) < Threads
  <2>1. Cardinality(over) < IF parallel[w] THEN Threads ELSE 1
    BY ForwardedInOrder
  <2>2. Cardinality(over) \in Nat
    <3>1. over \in SUBSET Id
      BY DEF TypeOK
    <3> QED
      BY <3>1, FewerIds
  <2> QED
    BY <2>1, <2>2, SizesAssumption
<1>2. m \in received
  BY DEF Forwards, IsFirst, OrderInv, DrainInOrder
<1>3. Mailbox!Before(m) \in SUBSET over /\ over \in SUBSET Id
  BY <1>2 DEF Mailbox!Before, EarlierIsAll, TypeOK
<1>4. Cardinality(Mailbox!Before(m)) < Threads
  <2>1. /\ Cardinality(Mailbox!Before(m)) \in Nat /\ Cardinality(over) \in Nat
        /\ Cardinality(Mailbox!Before(m)) <= Cardinality(over)
    BY <1>3, FewerIds
  <2> QED
    BY <1>1, <2>1, SizesAssumption
<1>5. CASE m \notin done
  <2>1. Mailbox!Cardinality(Mailbox!Before(m)) = Cardinality(Mailbox!Before(m))
    BY DEF Mailbox!Cardinality, Cardinality
  <2>2. Mailbox!Settle(m)
    BY <1>2, <1>4, <1>5, <2>1 DEF Mailbox!Settle
  <2> QED
    BY <2>2 DEF Mailbox!Next
<1>6. CASE m \in done
  BY <1>6 DEF mailbox
<1> QED
  BY <1>5, <1>6

\* The old rows of a mailbox are its first ones.
LEMMA StartExpires ==
    ASSUME TypeOK, OrderInv, NEW w \in Worker, StartDrain(w)
    PROVE  [Mailbox!Next]_mailbox
<1>1. UNCHANGED <<received, tries>> /\ pc[w] = "queued"
  BY DEF StartDrain
<1>2. CASE UNCHANGED <<rowVars, done>>
  BY <1>1, <1>2 DEF rowVars, mailbox
<1>3. ASSUME NEW last \in From(head[w]), Delete(TooOld(head[w], last)),
             done' = done \cup TooOld(head[w], last)
      PROVE  Mailbox!Next
  <2>1. last \in rows /\ last \in Id /\ Box[last] = Box[head[w]]
    BY <1>3 DEF From, TypeOK
  <2>2. TooOld(head[w], last) = {k \in rows : k <= last /\ Box[k] = Box[last]}
    BY <1>1, <2>1 DEF TooOld, From, OrderInv, DrainInOrder, LeadsMailbox
  <2>3. Mailbox!Expire(last)
    BY <1>1, <1>3, <2>1, <2>2 DEF Delete, Mailbox!Expire
  <2> QED
    BY <2>1, <2>3 DEF Mailbox!Next
<1> QED
  BY <1>2, <1>3 DEF StartDrain

\* The steps of a drain.
LEMMA DrainImplements ==
    ASSUME IInv, OrderInv, EarlierIsAll, ErrorsReceived, NEW w \in Worker, Step(w)
    PROVE  [Mailbox!Next]_mailbox
<1>0. TypeOK
  BY DEF IInv
<1>1. CASE StartDrain(w)
  BY <1>0, <1>1, StartExpires
<1>2. CASE LoseRace(w) \/ FetchSlice(w) \/ Complete(w) \/ Deadline(w) \/ Unwind(w) \/ SliceDone(w)
  BY <1>2 DEF LoseRace, FetchSlice, Complete, Deadline, Unwind, SliceDone, rowVars, history, mailbox
<1>3. ASSUME NEW m \in Id, Discard(w, m) PROVE [Mailbox!Next]_mailbox
  <2>1. Delete({m}) /\ Exhausted(seen[w][m]) /\ UNCHANGED <<received, done, tries>>
    BY <1>3 DEF Discard, history
  <2>2. tries[m] >= MaxAttempts
    BY <2>1, SizesAssumption DEF IInv, TypeOK, Counted, Exhausted
  <2> QED
    BY <1>0, <2>1, <2>2, DeletedLeaves
<1>4. ASSUME NEW m \in Id, Attempt(w, m) PROVE [Mailbox!Next]_mailbox
  <2>1. m \in received /\ CountAttempt(w, m) /\ UNCHANGED <<received, done>>
    BY <1>4 DEF Attempt, IsFirst, OrderInv, DrainInOrder
  <2> QED
    BY <1>0, <2>1, CountedTries
<1>5. ASSUME NEW m \in Id, Accepted(w, m) PROVE [Mailbox!Next]_mailbox
  <2>1. /\ done' = done \cup {m} /\ UNCHANGED <<received, rows, tries>>
        /\ pc[w] = "request" /\ pc'[w] # "request" /\ IsFirst(m, todo[w])
    BY <1>0, <1>5 DEF Accepted, rowVars, TypeOK
  <2> QED
    BY <1>0, <2>1, ForwardedSettles DEF Forwards
<1>6. ASSUME NEW m \in Id, Refused(w, m) PROVE [Mailbox!Next]_mailbox
  BY <1>6 DEF Refused, rowVars, mailbox
<1>7. ASSUME NEW m \in Id, Remove(w, m) \/ RecordOkay(w, m) PROVE [Mailbox!Next]_mailbox
  <2>1. Delete({m}) /\ m \in done /\ UNCHANGED <<received, done, tries>>
    BY <1>7 DEF Remove, RecordOkay, IInv, Answered, history
  <2> QED
    BY <1>0, <2>1, DeletedLeaves
<1>8. ASSUME NEW m \in Id, NEW ok \in BOOLEAN, Answer(w, m, ok) PROVE [Mailbox!Next]_mailbox
  <2>1. /\ parallel[w] /\ m \in todo[w] /\ m \notin todo'[w] /\ pc'[w] # "idle"
        /\ UNCHANGED <<received, rows, tries>>
        /\ done' = done \cup {m} \/ done' = done
    BY <1>0, <1>8 DEF Answer, rowVars, TypeOK
  <2> QED
    BY <1>0, <2>1, ForwardedSettles DEF Forwards, mailbox
<1>9. ASSUME NEW m \in Id, NEW b \in BOOLEAN, RecordError(w, m, b) PROVE [Mailbox!Next]_mailbox
  <2>1. m \in received /\ UNCHANGED <<received, done>>
    BY <1>9 DEF RecordError, ErrorsReceived
  <2>2. CASE Exhausted(seen[w][m]) /\ Delete({m}) /\ UNCHANGED tries
    <3>1. tries[m] >= MaxAttempts
      BY <2>2, SizesAssumption DEF IInv, TypeOK, Counted, Exhausted
    <3> QED
      BY <1>0, <2>1, <2>2, <3>1, DeletedLeaves
  <2>3. CASE CountAttempt(w, m)
    BY <1>0, <2>1, <2>3, CountedTries
  <2> QED
    BY <1>9, <2>2, <2>3 DEF RecordError
<1> QED
  BY <1>1, <1>2, <1>3, <1>4, <1>5, <1>6, <1>7, <1>8, <1>9 DEF Step

LEMMA NextImplements ==
    ASSUME ~LateCommit, IInv, OrderInv, EarlierIsAll, ErrorsReceived, [Next]_vars
    PROVE  [Mailbox!Next]_mailbox
<1>1. ASSUME NEW m \in Id, Receive(m) PROVE [Mailbox!Next]_mailbox
  <2>1. Mailbox!Accept(m)
    BY <1>1 DEF Receive, Mailbox!Accept
  <2> QED
    BY <2>1 DEF Mailbox!Next
<1>2. ASSUME NEW m \in Id, BecomeDue(m) PROVE [Mailbox!Next]_mailbox
  BY <1>2 DEF BecomeDue, history, mailbox
<1>3. ASSUME NEW w \in Worker, Crash(w) PROVE [Mailbox!Next]_mailbox
  BY <1>3 DEF Crash, rowVars, mailbox
<1>4. CASE Schedule \/ SchedulerDies \/ UNCHANGED vars
  BY <1>4 DEF Schedule, StartSchedule, QueueDrain, SchedulerDies, vars, rowVars, history, mailbox
<1> QED
  BY <1>1, <1>2, <1>3, <1>4, DrainImplements DEF Next

\* The scheduler and its overlapping drains implement a mailbox that settles
\* webhooks in order and lets none leave before its region settled it or its
\* attempts are used up; unless rows are committed late.
THEOREM Refinement ==
    ASSUME ~LateCommit
    PROVE  Spec => ImplementsMailbox
<1>1. Init => Mailbox!Init /\ EarlierIsAll /\ ErrorsReceived
  <2>1. Init => Mailbox!Init
    BY DEF Init, Mailbox!Init, Nothing
  <2>2. Init => EarlierIsAll /\ ErrorsReceived
    BY DEF Init, EarlierIsAll, ErrorsReceived
  <2> QED
    BY <2>1, <2>2
<1>2. IInv => TypeOK
  BY DEF IInv
<1>3. Spec => []OrderInv
  BY OrderInvariance
<1>4. TypeOK /\ OrderInv /\ EarlierIsAll /\ ErrorsReceived /\ [Next]_vars =>
        EarlierIsAll' /\ ErrorsReceived'
  BY EarlierIsAllStep, ErrorsReceivedStep
<1>5. IInv /\ OrderInv /\ EarlierIsAll /\ ErrorsReceived /\ [Next]_vars =>
        [Mailbox!Next]_<<received, rows, done, tries>>
  BY NextImplements DEF mailbox
<1> QED
  BY <1>1, <1>2, <1>3, <1>4, <1>5, Invariance, PTL DEF Spec, ImplementsMailbox, Mailbox!Spec
=============================================================================
