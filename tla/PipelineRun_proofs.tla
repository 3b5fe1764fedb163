-------------------------- MODULE PipelineRun_proofs --------------------------
(***************************************************************************)
(* Proofs about PipelineRun, for any definition of any number of tasks and *)
(* whatever their actions and callbacks do.                                *)
(*                                                                         *)
(* The sort's invariant is that what is sorted is sorted behind its        *)
(* upstream tasks and that the queue holds what could come next; the       *)
(* loop's, that exactly the tasks before the position have results, and    *)
(* that the skipped ones among them are the ones with a failure upstream.  *)
(***************************************************************************)
EXTENDS PipelineRun, FiniteSetTheorems, WellFoundedInduction, TLAPS

Unstarted == {"called", "sorting", "raised"}
Looping == {"running", "executing", "ended", "escaped"}

Known == \A t \in Task : upstream[t] \subseteq Task

\* No task is sorted twice, and each is sorted behind its upstream tasks.
OrderInv ==
  /\ \A i, j \in DOMAIN sorted : sorted[i] = sorted[j] => i = j
  /\ \A i \in DOMAIN sorted : \A u \in upstream[sorted[i]] :
       \E j \in DOMAIN sorted : j < i /\ sorted[j] = u

\* While the sort runs, in-degrees count what is not sorted and the queue holds
\* what waits for nothing else.
QueueInv ==
  pc = "sorting" =>
    /\ \A t \in Task : in_degree[t] = Cardinality(upstream[t] \ Sorted)
    /\ queue = {t \in Task \ Sorted : upstream[t] \subseteq Sorted}

SortInv ==
  /\ OrderInv
  /\ QueueInv
  /\ pc = "called" => sorted = <<>>
  /\ pc \notin {"called", "raised"} => Known
  /\ pc \in Looping => Sorted = Task
  /\ pc = "raised" => Cyclic \/ ~Known

\* The tasks before the position have results, skipped or not as those upstream say.
ResultsInv ==
  \A i \in DOMAIN sorted :
    /\ task_results[sorted[i]] # "none" <=> i < next
    /\ i < next => (task_results[sorted[i]] = "skipped" <=>
                      \E u \in upstream[sorted[i]] : task_results[u] \in {"failed", "skipped"})

\* A run has failed when a task has failed, or an exception has escaped; a task is
\* skipped only in a run that has failed.
StatusInv ==
  /\ (\E t \in Task : task_results[t] \in {"failed", "skipped"}) => status = "failed"
  /\ status = "failed" => pc = "escaped" \/ \E t \in Task : task_results[t] = "failed"
  /\ status = "completed" => pc = "ended"
  /\ pc \in {"ended", "escaped"} => status \in {"completed", "failed"}

LoopInv ==
  /\ pc \in Unstarted => next = 1 /\ \A t \in Task : task_results[t] = "none"
  /\ pc \in {"executing", "escaped"} => next <= Len(sorted)
  /\ pc = "executing" => /\ attempts < MaxAttempts
                         /\ \A u \in upstream[Current] : task_results[u] = "success"
  /\ pc = "ended" => next > Len(sorted)

IInv == TypeOK /\ SortInv /\ ResultsInv /\ StatusInv /\ LoopInv

-----------------------------------------------------------------------------
(* Sequences and sets.                                                     *)

\* A set of naturals that is not empty has a least element.
LEMMA LeastIndex ==
  ASSUME NEW S, S \subseteq Nat, S # {}
  PROVE  \E i \in S : \A j \in S : i <= j
<1>1. PICK i \in S : \A j \in S : ~(<<j, i>> \in OpToRel(<, Nat))
  BY NatLessThanWellFounded, WFMin
<1>2. \A j \in S : ~(j < i)
  BY <1>1, Zenon DEF OpToRel
<1> QED
  BY <1>2

\* A sequence without repetitions has as many elements as it is long.
LEMMA LengthOfOrder ==
  ASSUME TypeOK, OrderInv
  PROVE  Cardinality(Sorted) = Len(sorted) /\ Sorted \subseteq Task
<1>1. sorted \in Seq(Task) /\ Len(sorted) \in Nat /\ DOMAIN sorted = 1 .. Len(sorted)
  BY DEF TypeOK
<1>2. sorted \in [1 .. Len(sorted) -> Sorted]
  BY <1>1 DEF Sorted
<1>3. \A i, j \in 1 .. Len(sorted) : sorted[i] = sorted[j] => i = j
  BY <1>1 DEF OrderInv
<1>4. \A t \in Sorted : \E i \in 1 .. Len(sorted) : sorted[i] = t
  BY <1>1 DEF Sorted
<1>5. sorted \in Bijection(1 .. Len(sorted), Sorted)
  BY <1>2, <1>3, <1>4 DEF Bijection, Injection, Surjection, IsInjective
<1>6. Cardinality(Sorted) = Len(sorted)
  BY <1>1, <1>5, FS_CountingElements DEF ExistsBijection
<1>7. Sorted \subseteq Task
  BY <1>1 DEF Sorted
<1> QED
  BY <1>6, <1>7

\* Sorting a task puts it behind the others.
LEMMA AppendToOrder ==
  ASSUME TypeOK, NEW n \in Task, sorted' = Append(sorted, n)
  PROVE  /\ sorted' \in Seq(Task)
         /\ DOMAIN sorted' = 1 .. Len(sorted) + 1 /\ DOMAIN sorted = 1 .. Len(sorted)
         /\ Len(sorted) \in Nat /\ Len(sorted') = Len(sorted) + 1
         /\ sorted'[Len(sorted) + 1] = n
         /\ \A i \in DOMAIN sorted : i \in DOMAIN sorted' /\ sorted'[i] = sorted[i]
         /\ Sorted' = Sorted \cup {n}
<1>1. sorted \in Seq(Task)
  BY DEF TypeOK
<1>2. /\ sorted' \in Seq(Task)
      /\ DOMAIN sorted' = 1 .. Len(sorted) + 1 /\ DOMAIN sorted = 1 .. Len(sorted)
      /\ Len(sorted) \in Nat /\ Len(sorted') = Len(sorted) + 1
      /\ sorted'[Len(sorted) + 1] = n
      /\ \A i \in 1 .. Len(sorted) : sorted'[i] = sorted[i]
  BY <1>1
<1>3. \A i \in 1 .. Len(sorted) + 1 : i \in 1 .. Len(sorted) \/ i = Len(sorted) + 1
  BY <1>2
<1>4. Len(sorted) + 1 \in 1 .. Len(sorted) + 1
      /\ \A i \in 1 .. Len(sorted) : i \in 1 .. Len(sorted) + 1
  BY <1>2
<1>5. Sorted' = Sorted \cup {n}
  BY <1>2, <1>3, <1>4 DEF Sorted
<1> QED
  BY <1>2, <1>4, <1>5

\* Names of tasks can be counted, and one less is one less.
LEMMA CountTasks ==
  ASSUME NEW S \in SUBSET Task
  PROVE  /\ Cardinality(S) \in Nat
         /\ Cardinality(S) = 0 <=> S = {}
         /\ \A t \in S : Cardinality(S \ {t}) = Cardinality(S) - 1
         /\ \A t \in S : Cardinality(S) = 1 <=> S = {t}
<1>1. IsFiniteSet(S)
  BY PipelineAssumption, FS_Subset
<1>2. Cardinality(S) \in Nat /\ (Cardinality(S) = 0 <=> S = {})
  BY <1>1, FS_CardinalityType, FS_EmptySet
<1>3. ASSUME NEW t \in S
      PROVE  Cardinality(S \ {t}) = Cardinality(S) - 1 /\ (Cardinality(S) = 1 <=> S = {t})
  <2>1. IsFiniteSet(S \ {t}) /\ Cardinality(S \ {t}) = Cardinality(S) - 1
    BY <1>1, FS_RemoveElement
  <2>2. Cardinality(S \ {t}) = 0 <=> S \ {t} = {}
    BY <2>1, FS_EmptySet
  <2>3. Cardinality(S) = 1 <=> Cardinality(S \ {t}) = 0
    BY <1>2, <2>1
  <2> QED
    BY <2>1, <2>2, <2>3
<1> QED
  BY <1>2, <1>3

\* What is sorted has its upstream tasks sorted.
LEMMA SortedIsClosed ==
  ASSUME OrderInv, NEW t \in Sorted
  PROVE  upstream[t] \subseteq Sorted
BY DEF OrderInv, Sorted

-----------------------------------------------------------------------------
(* The sort.                                                               *)

\* A task that leaves the queue is sorted behind its upstream tasks, and the queue
\* and the in-degrees stay what they should be.
LEMMA SortTaskSorts ==
  ASSUME TypeOK, SortInv, NEW n \in Task, SortTask(n)
  PROVE  in_degree' \in [Task -> Nat] /\ SortInv'
<1>1. /\ pc = "sorting" /\ pc' = "sorting" /\ upstream' = upstream
      /\ sorted' = Append(sorted, n) /\ n \in queue
  BY DEF SortTask
<1>2. /\ OrderInv /\ Known
      /\ \A t \in Task : in_degree[t] = Cardinality(upstream[t] \ Sorted)
      /\ queue = {t \in Task \ Sorted : upstream[t] \subseteq Sorted}
  BY <1>1 DEF SortInv, QueueInv
<1>3. n \notin Sorted /\ upstream[n] \subseteq Sorted
  BY <1>1, <1>2
<1>4. /\ DOMAIN sorted' = 1 .. Len(sorted) + 1 /\ DOMAIN sorted = 1 .. Len(sorted)
      /\ Len(sorted) \in Nat
      /\ sorted'[Len(sorted) + 1] = n
      /\ \A i \in DOMAIN sorted : i \in DOMAIN sorted' /\ sorted'[i] = sorted[i]
      /\ Sorted' = Sorted \cup {n}
  BY <1>1, AppendToOrder
<1>5. \A i \in DOMAIN sorted' : i \in DOMAIN sorted \/ i = Len(sorted) + 1
  BY <1>4
<1>6. OrderInv'
  <2>1. ASSUME NEW i \in DOMAIN sorted', NEW j \in DOMAIN sorted', sorted'[i] = sorted'[j]
        PROVE  i = j
    <3>1. \A k \in DOMAIN sorted : sorted'[k] # n
      BY <1>3, <1>4, Zenon DEF Sorted
    <3> QED
      BY <1>2, <1>4, <1>5, <2>1, <3>1 DEF OrderInv
  <2>2. ASSUME NEW i \in DOMAIN sorted', NEW u \in upstream'[sorted'[i]]
        PROVE  \E j \in DOMAIN sorted' : j < i /\ sorted'[j] = u
    <3>1. CASE i \in DOMAIN sorted
      <4>1. PICK j \in DOMAIN sorted : j < i /\ sorted[j] = u
        BY <1>1, <1>2, <1>4, <2>2, <3>1 DEF OrderInv
      <4> QED
        BY <1>4, <4>1
    <3>2. CASE i = Len(sorted) + 1
      <4>1. u \in Sorted
        BY <1>1, <1>3, <1>4, <2>2, <3>2
      <4>2. PICK j \in DOMAIN sorted : sorted[j] = u
        BY <4>1 DEF Sorted
      <4> QED
        BY <1>4, <3>2, <4>2
    <3> QED
      BY <1>5, <3>1, <3>2
  <2> QED
    BY <2>1, <2>2 DEF OrderInv
<1>7. ASSUME NEW t \in Task
      PROVE  /\ upstream[t] \ Sorted \in SUBSET Task
             /\ upstream'[t] \ Sorted' = (upstream[t] \ Sorted) \ {n}
             /\ n \in upstream[t] <=> n \in upstream[t] \ Sorted
             /\ in_degree'[t] = IF n \in upstream[t] THEN in_degree[t] - 1 ELSE in_degree[t]
  <2>1. in_degree'[t] = IF n \in upstream[t] THEN in_degree[t] - 1 ELSE in_degree[t]
    BY DEF SortTask
  <2> QED
    BY <1>1, <1>2, <1>3, <1>4, <2>1 DEF Known
<1>8. ASSUME NEW t \in Task
      PROVE  /\ in_degree'[t] \in Nat
             /\ in_degree'[t] = Cardinality((upstream[t] \ Sorted) \ {n})
             /\ n \in upstream[t] => (in_degree[t] = 1 <=> upstream[t] \ Sorted = {n})
  <2>1. PICK D : D = upstream[t] \ Sorted
    OBVIOUS
  <2>2. D \in SUBSET Task /\ (n \in upstream[t] <=> n \in D)
    BY <1>7, <2>1
  <2>3. /\ Cardinality(D) \in Nat
        /\ Cardinality(D \ {n}) \in Nat
        /\ \A s \in D : Cardinality(D \ {s}) = Cardinality(D) - 1
        /\ \A s \in D : Cardinality(D) = 1 <=> D = {s}
    <3>1. D \ {n} \in SUBSET Task
      BY <2>2
    <3> QED
      BY <2>2, <3>1, CountTasks
  <2>4. in_degree[t] = Cardinality(D)
    BY <1>2, <2>1
  <2>5. CASE n \in upstream[t]
    BY <1>7, <2>1, <2>2, <2>3, <2>4, <2>5
  <2>6. CASE n \notin upstream[t]
    <3>1. D \ {n} = D
      BY <2>2, <2>6
    <3> QED
      BY <1>7, <2>1, <2>3, <2>4, <2>6, <3>1
  <2> QED
    BY <2>5, <2>6
<1>9. ASSUME NEW t \in Task
      PROVE  in_degree'[t] = Cardinality(upstream'[t] \ Sorted')
  <2>1. PICK D : D = (upstream[t] \ Sorted) \ {n}
    OBVIOUS
  <2>2. D = upstream'[t] \ Sorted'
    BY <1>7, <2>1
  <2> QED
    BY <1>8, <2>1, <2>2
<1>10. in_degree' \in [Task -> Nat]
  BY <1>8 DEF SortTask
<1>11. queue' = {t \in Task \ Sorted' : upstream'[t] \subseteq Sorted'}
  <2>1. queue' = (queue \ {n}) \cup {t \in Task : n \in upstream[t] /\ in_degree[t] = 1}
    BY DEF SortTask
  <2>2. ASSUME NEW t \in queue'
        PROVE  t \in Task \ Sorted' /\ upstream'[t] \subseteq Sorted'
    <3>1. CASE t \in queue \ {n}
      BY <1>1, <1>2, <1>4, <3>1
    <3>2. CASE t \in Task /\ n \in upstream[t] /\ in_degree[t] = 1
      <4>1. upstream[t] \ Sorted = {n}
        BY <1>8, <3>2
      <4>2. t \notin Sorted
        BY <1>2, <4>1, SortedIsClosed
      <4>3. t # n
        BY <1>3, <3>2
      <4> QED
        BY <1>1, <1>4, <3>2, <4>1, <4>2, <4>3
    <3> QED
      BY <2>1, <2>2, <3>1, <3>2
  <2>3. ASSUME NEW t \in Task \ Sorted', upstream'[t] \subseteq Sorted'
        PROVE  t \in queue'
    <3>1. CASE n \in upstream[t]
      <4>1. upstream[t] \ Sorted = {n}
        BY <1>1, <1>3, <1>4, <2>3, <3>1
      <4> QED
        BY <1>8, <2>1, <3>1, <4>1
    <3>2. CASE n \notin upstream[t]
      BY <1>1, <1>2, <1>4, <2>1, <2>3, <3>2
    <3> QED
      BY <3>1, <3>2
  <2> QED
    BY <2>2, <2>3
<1>12. QueueInv'
  BY <1>9, <1>11 DEF QueueInv
<1>13. Known'
  BY <1>1, <1>2 DEF Known
<1> QED
  BY <1>1, <1>6, <1>10, <1>12, <1>13 DEF SortInv, Looping

\* When the queue is empty all tasks are sorted, or some of them wait for one
\* another.
LEMMA EndSortDecides ==
  ASSUME TypeOK, SortInv, EndSort
  PROVE  SortInv'
<1>1. /\ pc = "sorting" /\ queue = {} /\ upstream' = upstream /\ sorted' = sorted
      /\ pc' = IF Len(sorted) = Cardinality(Task) THEN "running" ELSE "raised"
  BY DEF EndSort, sort_vars
<1>2. OrderInv /\ Known /\ {t \in Task \ Sorted : upstream[t] \subseteq Sorted} = {}
  BY <1>1 DEF SortInv, QueueInv
<1>3. OrderInv' /\ Known' /\ Sorted' = Sorted
  BY <1>1, <1>2 DEF OrderInv, Known, Sorted
<1>4. Cardinality(Sorted) = Len(sorted) /\ Sorted \subseteq Task
  BY <1>2, LengthOfOrder
<1>5. CASE Len(sorted) = Cardinality(Task)
  <2>1. Sorted = Task
    BY <1>4, <1>5, PipelineAssumption, FS_Subset
  <2> QED
    BY <1>1, <1>3, <1>5, <2>1 DEF SortInv, QueueInv, Looping
<1>6. CASE Len(sorted) # Cardinality(Task)
  <2>1. Task \ Sorted # {}
    <3>1. Sorted # Task
      BY <1>4, <1>6, Zenon
    <3> QED
      BY <1>4, <3>1
  <2>2. \A t \in Task \ Sorted : upstream[t] \cap (Task \ Sorted) # {}
    BY <1>2 DEF Known
  <2>3. Cyclic
    BY <2>1, <2>2 DEF Cyclic
  <2>4. Cyclic'
    BY <1>1, <2>3 DEF Cyclic
  <2> QED
    BY <1>1, <1>3, <1>6, <2>4 DEF SortInv, QueueInv, Looping
<1> QED
  BY <1>5, <1>6

\* Tasks that could all be sorted do not wait for one another.
LEMMA SortedIsAcyclic ==
  ASSUME TypeOK, OrderInv, Sorted = Task
  PROVE  ~Cyclic
<1> SUFFICES ASSUME NEW S \in SUBSET Task, S # {}, \A t \in S : upstream[t] \cap S # {}
             PROVE  FALSE
  BY DEF Cyclic
<1>1. DOMAIN sorted \subseteq Nat
  BY DEF TypeOK
<1>2. {i \in DOMAIN sorted : sorted[i] \in S} # {}
  BY DEF Sorted
<1>3. PICK i \in DOMAIN sorted : sorted[i] \in S
                              /\ \A j \in DOMAIN sorted : sorted[j] \in S => i <= j
  BY <1>1, <1>2, LeastIndex
<1>4. PICK u \in upstream[sorted[i]] : u \in S
  BY <1>3
<1>5. PICK j \in DOMAIN sorted : j < i /\ sorted[j] = u
  BY <1>3, <1>4 DEF OrderInv
<1> QED
  BY <1>1, <1>3, <1>4, <1>5

-----------------------------------------------------------------------------
(* The loop.                                                               *)

\* The task at the position, and its place among the others.
LEMMA AtPosition ==
  ASSUME TypeOK, SortInv, pc \in {"running", "executing"}, next <= Len(sorted)
  PROVE  /\ next \in DOMAIN sorted /\ Current \in Task
         /\ \A i \in DOMAIN sorted : sorted[i] = Current => i = next
         /\ \A u \in upstream[Current] :
              \E j \in DOMAIN sorted : j < next /\ sorted[j] = u
         /\ DOMAIN sorted \subseteq Nat /\ next \in Nat
<1>1. next \in DOMAIN sorted /\ DOMAIN sorted \subseteq Nat /\ next \in Nat /\ sorted[next] \in Task
  BY DEF TypeOK
<1> QED
  BY <1>1 DEF SortInv, OrderInv, Current

\* Recording the result of the task at the position moves the position past it and
\* changes no other result, so what the results say of one another stays true.
LEMMA RecordKeepsResults ==
  ASSUME TypeOK, SortInv, ResultsInv, pc \in {"running", "executing"}, next <= Len(sorted),
         NEW result \in {"success", "failed", "skipped"}, Record(result),
         UNCHANGED <<upstream, sorted>>,
         result = "skipped" <=>
           \E u \in upstream[Current] : task_results[u] \in {"failed", "skipped"}
  PROVE  /\ ResultsInv'
         /\ task_results' \in [Task -> {"none", "success", "failed", "skipped"}]
         /\ next' \in 1 .. Len(sorted') + 1
         /\ task_results[Current] = "none"
         /\ \A t \in Task : task_results'[t] = IF t = Current THEN result ELSE task_results[t]
<1>1. PICK c : c = Current
  OBVIOUS
<1>2. /\ next \in DOMAIN sorted /\ c \in Task /\ sorted[next] = c
      /\ \A i \in DOMAIN sorted : sorted[i] = c => i = next
      /\ \A u \in upstream[c] : \E j \in DOMAIN sorted : j < next /\ sorted[j] = u
      /\ DOMAIN sorted \subseteq Nat /\ next \in Nat
  BY <1>1, AtPosition DEF Current
<1>3. /\ task_results' = [task_results EXCEPT ![c] = result]
      /\ next' = next + 1 /\ upstream' = upstream /\ sorted' = sorted
  BY <1>1 DEF Record
<1>4. /\ task_results' \in [Task -> {"none", "success", "failed", "skipped"}]
      /\ \A t \in Task : task_results'[t] = IF t = c THEN result ELSE task_results[t]
  BY <1>2, <1>3 DEF TypeOK
<1>5. next' \in 1 .. Len(sorted') + 1
  BY <1>2, <1>3 DEF TypeOK
<1>6. ASSUME NEW i \in DOMAIN sorted, i <= next, NEW u \in upstream[sorted[i]]
      PROVE  task_results'[u] = task_results[u]
  <2>1. PICK j \in DOMAIN sorted : j < i /\ sorted[j] = u
    BY <1>6 DEF SortInv, OrderInv
  <2>2. j # next /\ u \in Task
    BY <1>2, <1>6, <2>1 DEF TypeOK
  <2>3. u # c
    BY <1>2, <2>1, <2>2
  <2> QED
    BY <1>4, <2>2, <2>3
<1>7. ASSUME NEW i \in DOMAIN sorted
      PROVE  /\ task_results'[sorted[i]] # "none" <=> i < next + 1
             /\ i < next + 1 => (task_results'[sorted[i]] = "skipped" <=>
                  \E u \in upstream[sorted[i]] : task_results'[u] \in {"failed", "skipped"})
  <2>1. sorted[i] \in Task
    BY DEF TypeOK
  <2>2. CASE i = next
    <3>1. task_results'[sorted[i]] = result
      BY <1>2, <1>4, <2>2
    <3>2. \A u \in upstream[c] : task_results'[u] = task_results[u]
      BY <1>2, <1>6
    <3>3. result = "skipped" <=> \E u \in upstream[c] : task_results'[u] \in {"failed", "skipped"}
      BY <1>1, <3>2
    <3> QED
      BY <1>2, <2>2, <3>1, <3>3
  <2>3. CASE i < next
    <3>1. task_results'[sorted[i]] = task_results[sorted[i]]
      BY <1>2, <1>4, <2>1, <2>3
    <3>2. \A u \in upstream[sorted[i]] : task_results'[u] = task_results[u]
      BY <1>2, <1>6, <2>3
    <3>3. /\ task_results[sorted[i]] # "none"
          /\ task_results[sorted[i]] = "skipped" <=>
               \E u \in upstream[sorted[i]] : task_results[u] \in {"failed", "skipped"}
      BY <2>3 DEF ResultsInv
    <3> QED
      BY <1>2, <2>3, <3>1, <3>2, <3>3
  <2>4. CASE i > next
    <3>1. task_results'[sorted[i]] = task_results[sorted[i]]
      BY <1>2, <1>4, <2>1, <2>4
    <3>2. task_results[sorted[i]] = "none"
      BY <1>2, <2>4 DEF ResultsInv
    <3> QED
      BY <1>2, <2>4, <3>1, <3>2
  <2> QED
    BY <1>2, <2>2, <2>3, <2>4
<1>8. ResultsInv'
  BY <1>3, <1>7 DEF ResultsInv
<1>9. task_results[c] = "none"
  BY <1>2 DEF ResultsInv
<1> QED
  BY <1>1, <1>4, <1>5, <1>8, <1>9

-----------------------------------------------------------------------------
(* The invariant.                                                          *)

\* The invariant holds of a definition handed to run_dag.
LEMMA InitIInv == Init => IInv
<1> SUFFICES ASSUME Init
             PROVE  IInv
  OBVIOUS
<1>1. TypeOK
  BY PipelineAssumption DEF Init, TypeOK
<1>2. SortInv
  BY DEF Init, SortInv, OrderInv, QueueInv, Looping
<1>3. ResultsInv /\ StatusInv /\ LoopInv
  BY DEF Init, ResultsInv, StatusInv, LoopInv, Unstarted
<1> QED
  BY <1>1, <1>2, <1>3 DEF IInv

\* What a step leaves as it is after the tasks have been sorted.
LEMMA SortIsOver ==
  ASSUME SortInv, pc \in Looping, pc' \in Looping, UNCHANGED <<upstream, sorted>>
  PROVE  SortInv'
BY DEF SortInv, OrderInv, QueueInv, Known, Sorted, Looping

\* The sort, from run_dag's call on, keeps the invariant.
LEMMA SortKeepsIInv ==
  ASSUME IInv, run_dag \/ (\E n \in Task : SortTask(n)) \/ EndSort
  PROVE  IInv'
<1> USE DEF IInv
<1>1. CASE run_dag
  <2>1. /\ pc = "called" /\ sorted = <<>> /\ next = 1 /\ status' = "running"
        /\ \A t \in Task : task_results[t] = "none"
        /\ UNCHANGED <<upstream, sorted, next, attempts, task_results>>
    BY <1>1 DEF run_dag, SortInv, LoopInv, Unstarted
  <2>2. CASE Known
    <3>1. /\ pc' = "sorting"
          /\ in_degree' = [t \in Task |-> Cardinality(upstream[t])]
          /\ queue' = {t \in Task : upstream[t] = {}}
      BY <1>1, <2>2 DEF run_dag, Known
    <3>2. \A t \in Task : Cardinality(upstream[t]) \in Nat
      BY <2>2, CountTasks DEF Known
    <3>3. TypeOK'
      BY <2>1, <3>1, <3>2 DEF TypeOK
    <3>4. Sorted' = {} /\ DOMAIN sorted' = {}
      BY <2>1 DEF Sorted
    <3>5. \A t \in Task : upstream'[t] \ Sorted' = upstream[t]
      BY <2>1, <3>4
    <3>6. ASSUME NEW t \in Task
          PROVE  in_degree'[t] = Cardinality(upstream'[t] \ Sorted')
      <4>1. in_degree'[t] = Cardinality(upstream[t])
        BY <3>1
      <4> QED
        BY <3>5, <4>1
    <3>7. queue' = {t \in Task \ Sorted' : upstream'[t] \subseteq Sorted'}
      BY <2>1, <3>1, <3>4
    <3>8. SortInv'
      BY <2>1, <2>2, <3>1, <3>4, <3>6, <3>7 DEF SortInv, OrderInv, QueueInv, Looping, Known
    <3>9. ResultsInv' /\ StatusInv' /\ LoopInv'
      BY <2>1, <3>1, <3>4 DEF ResultsInv, StatusInv, LoopInv, Unstarted
    <3> QED
      BY <3>3, <3>8, <3>9
  <2>3. CASE ~Known
    <3>1. pc' = "raised" /\ in_degree' = in_degree /\ queue' = queue
      BY <1>1, <2>3 DEF run_dag, Known
    <3>2. TypeOK'
      BY <2>1, <3>1 DEF TypeOK
    <3>3. SortInv'
      BY <2>1, <2>3, <3>1 DEF SortInv, OrderInv, QueueInv, Looping, Known
    <3>4. ResultsInv' /\ StatusInv' /\ LoopInv'
      BY <2>1, <3>1 DEF ResultsInv, StatusInv, LoopInv, Unstarted
    <3> QED
      BY <3>2, <3>3, <3>4
  <2> QED
    BY <2>2, <2>3
<1>2. ASSUME NEW n \in Task, SortTask(n)
      PROVE  IInv'
  <2>1. in_degree' \in [Task -> Nat] /\ SortInv'
    BY <1>2, SortTaskSorts
  <2>2. /\ pc = "sorting" /\ pc' = "sorting" /\ next = 1
        /\ \A t \in Task : task_results[t] = "none"
        /\ UNCHANGED <<upstream, next, attempts, task_results, status>>
    BY <1>2 DEF SortTask, LoopInv, Unstarted
  <2>3. sorted' \in Seq(Task) /\ Len(sorted') = Len(sorted) + 1 /\ Len(sorted) \in Nat
    <3>1. sorted' = Append(sorted, n)
      BY <1>2 DEF SortTask
    <3> QED
      BY <3>1, AppendToOrder
  <2>4. queue' \in SUBSET Task
    BY <1>2 DEF SortTask, TypeOK
  <2>5. TypeOK'
    BY <2>1, <2>2, <2>3, <2>4 DEF TypeOK
  <2>6. \A i \in DOMAIN sorted' : i \in Nat /\ i >= 1 /\ sorted'[i] \in Task
    BY <2>3
  <2>7. ResultsInv'
    <3>1. \A i \in DOMAIN sorted' : task_results'[sorted'[i]] = "none" /\ ~(i < next')
      BY <2>2, <2>6
    <3> QED
      BY <3>1 DEF ResultsInv
  <2>8. StatusInv' /\ LoopInv'
    BY <2>2 DEF StatusInv, LoopInv, Unstarted
  <2> QED
    BY <2>1, <2>5, <2>7, <2>8
<1>3. CASE EndSort
  <2>1. SortInv'
    BY <1>3, EndSortDecides
  <2>2. /\ pc = "sorting" /\ pc' \in {"running", "raised"}
        /\ next = 1 /\ \A t \in Task : task_results[t] = "none"
        /\ UNCHANGED <<upstream, sorted, next, attempts, task_results, status>>
    BY <1>3 DEF EndSort, sort_vars, LoopInv, Unstarted
  <2>3. TypeOK'
    BY <1>3, <2>2 DEF EndSort, sort_vars, TypeOK
  <2>4. ResultsInv' /\ StatusInv' /\ LoopInv'
    BY <2>2 DEF ResultsInv, StatusInv, LoopInv, Unstarted
  <2> QED
    BY <2>1, <2>3, <2>4
<1> QED
  BY <1>1, <1>2, <1>3

\* A step of the loop that records the result of the task at the position keeps the
\* invariant.
LEMMA RecordKeepsIInv ==
  ASSUME IInv, SkipTask \/ Succeed \/ Fail
  PROVE  IInv'
<1> USE DEF IInv
<1>1. PICK c : c = Current
  OBVIOUS
<1>2. PICK result \in {"success", "failed", "skipped"} :
        /\ Record(result)
        /\ result = "skipped" => SkipTask
        /\ result = "failed" => Fail
        /\ result = "success" => Succeed
  BY DEF SkipTask, Succeed, Fail
<1>3. /\ pc \in {"running", "executing"} /\ pc' = "running" /\ next <= Len(sorted)
      /\ pc = "executing" => attempts < MaxAttempts
                             /\ \A u \in upstream[c] : task_results[u] = "success"
      /\ UNCHANGED <<upstream, sort_vars>>
      /\ UNCHANGED <<sorted, in_degree, queue>>
      /\ attempts' \in {attempts, attempts + 1}
      /\ attempts' = attempts + 1 => pc = "executing"
      /\ status' = IF result = "failed" THEN "failed" ELSE status
  <2>1. UNCHANGED sort_vars => UNCHANGED <<sorted, in_degree, queue>>
    BY DEF sort_vars
  <2>2. pc = "executing" => /\ next <= Len(sorted) /\ attempts < MaxAttempts
                            /\ \A u \in upstream[c] : task_results[u] = "success"
    BY <1>1 DEF LoopInv
  <2>3. pc' = "running"
    BY <1>2 DEF Record
  <2>4. CASE result = "skipped"
    <3>1. attempts \in Int
      BY PipelineAssumption DEF TypeOK
    <3> QED
      BY <1>2, <2>1, <2>2, <2>3, <2>4, <3>1 DEF SkipTask
  <2>5. CASE result = "failed"
    BY <1>2, <2>1, <2>2, <2>3, <2>5 DEF Fail
  <2>6. CASE result = "success"
    BY <1>2, <2>1, <2>2, <2>3, <2>6 DEF Succeed
  <2> QED
    BY <2>4, <2>5, <2>6
<1>4. c \in Task /\ Known /\ pc \in Looping
  BY <1>1, <1>3, AtPosition DEF SortInv, Looping
<1>5. result = "skipped" <=> \E u \in upstream[c] : task_results[u] \in {"failed", "skipped"}
  <2>1. CASE result = "skipped"
    <3>1. PICK u \in upstream[c] : task_results[u] \notin {"none", "success"}
      BY <1>1, <1>2, <2>1 DEF SkipTask, FailedUpstreams
    <3>2. task_results[u] \in {"none", "success", "failed", "skipped"}
      BY <1>4 DEF Known, TypeOK
    <3> QED
      BY <2>1, <3>1, <3>2
  <2>2. CASE result # "skipped"
    <3>1. pc = "executing"
      BY <1>2, <2>2 DEF Succeed, Fail
    <3> QED
      BY <1>3, <2>2, <3>1
  <2> QED
    BY <2>1, <2>2
<1>6. /\ ResultsInv'
      /\ task_results' \in [Task -> {"none", "success", "failed", "skipped"}]
      /\ next' \in 1 .. Len(sorted') + 1
      /\ task_results[c] = "none"
      /\ \A t \in Task : task_results'[t] = IF t = c THEN result ELSE task_results[t]
  <2>1. UNCHANGED <<upstream, sorted>>
    BY <1>3
  <2> QED
    BY <1>1, <1>2, <1>3, <1>5, <2>1, RecordKeepsResults
<1>7. TypeOK'
  <2>1. attempts' \in 0 .. MaxAttempts
    BY <1>3, PipelineAssumption DEF TypeOK
  <2> QED
    BY <1>3, <1>6, <2>1 DEF TypeOK
<1>8. SortInv'
  BY <1>3, <1>4, SortIsOver DEF Looping
<1>9. StatusInv'
  <2>1. (\E t \in Task : task_results'[t] \in {"failed", "skipped"}) => status' = "failed"
    <3>1. ASSUME result = "skipped"
          PROVE  status = "failed"
      BY <1>4, <1>5, <3>1 DEF StatusInv, Known
    <3> QED
      BY <1>3, <1>6, <3>1 DEF StatusInv
  <2>2. status' = "failed" => \E t \in Task : task_results'[t] = "failed"
    <3>1. CASE result = "failed"
      BY <1>4, <1>6, <3>1
    <3>2. ASSUME result # "failed", status' = "failed"
          PROVE  \E t \in Task : task_results'[t] = "failed"
      <4>1. PICK t \in Task : task_results[t] = "failed"
        BY <1>3, <3>2 DEF StatusInv
      <4>2. t # c
        BY <1>6, <4>1
      <4> QED
        BY <1>6, <4>1, <4>2
    <3> QED
      BY <3>1, <3>2
  <2>3. status' # "completed"
    BY <1>3 DEF StatusInv
  <2> QED
    BY <1>3, <2>1, <2>2, <2>3 DEF StatusInv
<1>10. LoopInv'
  BY <1>3 DEF LoopInv, Unstarted
<1> QED
  BY <1>6, <1>7, <1>8, <1>9, <1>10

\* The other steps of the loop keep the invariant.
LEMMA LoopKeepsIInv ==
  ASSUME IInv, StartTask \/ Retry \/ Escape \/ Finish
  PROVE  IInv'
<1> USE DEF IInv
<1>1. /\ UNCHANGED <<upstream, in_degree, queue, sorted, next, task_results>>
      /\ pc \in {"running", "executing"} /\ pc' \in {"executing", "ended", "escaped"}
      /\ Current' = Current
  BY DEF StartTask, Retry, Escape, Finish, sort_vars, Current
<1>2. SortInv'
  BY <1>1, SortIsOver DEF Looping
<1>3. ResultsInv'
  BY <1>1 DEF ResultsInv
<1>4. CASE StartTask
  <2>1. /\ pc = "running" /\ pc' = "executing" /\ next <= Len(sorted)
        /\ FailedUpstreams(Current) = {} /\ attempts' = 0 /\ status' = status
    BY <1>4 DEF StartTask
  <2>2. ASSUME NEW u \in upstream[Current]
        PROVE  task_results[u] = "success"
    <3>1. PICK j \in DOMAIN sorted : j < next /\ sorted[j] = u
      BY <2>1, AtPosition
    <3>2. task_results[u] # "none"
      BY <3>1 DEF ResultsInv
    <3>3. task_results[u] \in {"none", "success"}
      BY <2>1 DEF FailedUpstreams
    <3> QED
      BY <3>2, <3>3
  <2>3. TypeOK' /\ StatusInv'
    BY <1>1, <2>1, PipelineAssumption DEF TypeOK, StatusInv
  <2>4. LoopInv'
    BY <1>1, <2>1, <2>2, PipelineAssumption DEF LoopInv, Unstarted
  <2> QED
    BY <1>2, <1>3, <2>3, <2>4
<1>5. CASE Retry
  <2>1. /\ pc = "executing" /\ pc' = "executing" /\ status' = status
        /\ attempts + 1 < MaxAttempts /\ attempts' = attempts + 1
    BY <1>5 DEF Retry
  <2>2. TypeOK' /\ StatusInv'
    BY <1>1, <2>1, PipelineAssumption DEF TypeOK, StatusInv
  <2>3. LoopInv'
    BY <1>1, <2>1 DEF LoopInv, Unstarted
  <2> QED
    BY <1>2, <1>3, <2>2, <2>3
<1>6. CASE Escape
  <2>1. /\ pc = "executing" /\ pc' = "escaped" /\ status' = "failed"
        /\ attempts < MaxAttempts /\ attempts' = attempts + 1 /\ next <= Len(sorted)
    BY <1>6 DEF Escape, LoopInv
  <2>2. TypeOK' /\ StatusInv'
    BY <1>1, <2>1, PipelineAssumption DEF TypeOK, StatusInv
  <2>3. LoopInv'
    BY <1>1, <2>1 DEF LoopInv, Unstarted
  <2> QED
    BY <1>2, <1>3, <2>2, <2>3
<1>7. CASE Finish
  <2>1. /\ pc = "running" /\ pc' = "ended" /\ next > Len(sorted) /\ attempts' = attempts
        /\ status' = IF status = "failed" THEN "failed" ELSE "completed"
    BY <1>7 DEF Finish
  <2>2. TypeOK' /\ StatusInv'
    BY <1>1, <2>1 DEF TypeOK, StatusInv
  <2>3. LoopInv'
    BY <1>1, <2>1 DEF LoopInv, Unstarted
  <2> QED
    BY <1>2, <1>3, <2>2, <2>3
<1> QED
  BY <1>4, <1>5, <1>6, <1>7

\* Every step keeps the invariant.
LEMMA NextIInv == IInv /\ [Next]_vars => IInv'
<1> SUFFICES ASSUME IInv, [Next]_vars
             PROVE  IInv'
  OBVIOUS
<1>1. CASE Next
  BY <1>1, SortKeepsIInv, RecordKeepsIInv, LoopKeepsIInv, Zenon DEF Next
<1>2. CASE UNCHANGED vars
  <2>1. UNCHANGED <<upstream, pc, in_degree, queue, sorted, next, attempts, task_results, status>>
    BY <1>2 DEF vars, sort_vars
  <2>2. TypeOK'
    BY <2>1 DEF IInv, TypeOK
  <2>3. SortInv'
    <3>1. OrderInv'
      BY <2>1 DEF IInv, SortInv, OrderInv
    <3>2. (Cyclic' <=> Cyclic) /\ (Known' <=> Known) /\ Sorted' = Sorted
      BY <2>1 DEF Cyclic, Known, Sorted
    <3>3. QueueInv'
      BY <2>1, <3>2 DEF IInv, SortInv, QueueInv
    <3> QED
      BY <2>1, <3>1, <3>2, <3>3 DEF IInv, SortInv
  <2>4. ResultsInv' /\ StatusInv'
    BY <2>1 DEF IInv, ResultsInv, StatusInv
  <2>5. LoopInv'
    BY <2>1 DEF IInv, LoopInv, Current
  <2> QED
    BY <2>2, <2>3, <2>4, <2>5 DEF IInv
<1> QED
  BY <1>1, <1>2

\* The invariant holds in every reachable state.
THEOREM Invariance == Spec => []IInv
BY InitIInv, NextIInv, PTL DEF Spec

-----------------------------------------------------------------------------
(* The properties.                                                         *)

\* Values stay in range: no in-degree becomes negative, no position leaves the order
\* and no task is attempted more often than its policy says.
THEOREM TypeCorrect == Spec => []TypeOK
<1>1. IInv => TypeOK
  BY DEF IInv
<1> QED
  BY <1>1, Invariance, PTL

\* A task is executed only when all its upstream tasks have succeeded.
THEOREM UpstreamSucceededFirstHolds == Spec => []UpstreamSucceededFirst
<1>1. ASSUME IInv, pc = "executing", NEW u \in upstream[Current]
      PROVE  u \in Task /\ task_results[u] = "success"
  <2>1. task_results[u] = "success" /\ next <= Len(sorted) /\ Known
    BY <1>1 DEF IInv, LoopInv, SortInv
  <2>2. Current \in Task
    BY <1>1, <2>1, AtPosition DEF IInv
  <2> QED
    BY <2>1, <2>2 DEF Known
<1>2. IInv => UpstreamSucceededFirst
  BY <1>1 DEF UpstreamSucceededFirst
<1> QED
  BY <1>2, Invariance, PTL

\* The sort refuses exactly the definitions with a cycle or an unknown name.
THEOREM RefusesExactlyHolds == Spec => []RefusesExactly
<1>1. IInv => RefusesExactly
  <2> SUFFICES ASSUME IInv
               PROVE  RefusesExactly
    OBVIOUS
  <2>1. pc = "raised" => Cyclic \/ ~Known
    BY DEF IInv, SortInv
  <2>2. pc \in Looping => Known /\ ~Cyclic
    BY SortedIsAcyclic DEF IInv, SortInv, Looping
  <2> QED
    BY <2>1, <2>2 DEF RefusesExactly, Known, Looping
<1> QED
  BY <1>1, Invariance, PTL

\* When the loop has ended every task has a result, and exactly those behind a failed
\* or a skipped task are skipped.
THEOREM SkippedExactlyHolds == Spec => []SkippedExactly
<1>1. ASSUME IInv, pc = "ended", NEW t \in Task
      PROVE  /\ task_results[t] # "none"
             /\ task_results[t] = "skipped" <=>
                  \E u \in upstream[t] : task_results[u] \in {"failed", "skipped"}
  <2>1. Sorted = Task /\ next > Len(sorted)
    BY <1>1 DEF IInv, SortInv, LoopInv, Looping
  <2>2. PICK i \in DOMAIN sorted : sorted[i] = t
    BY <2>1 DEF Sorted
  <2>3. i < next
    BY <1>1, <2>1 DEF IInv, TypeOK
  <2> QED
    BY <1>1, <2>2, <2>3 DEF IInv, ResultsInv
<1>2. IInv => SkippedExactly
  BY <1>1 DEF SkippedExactly
<1> QED
  BY <1>2, Invariance, PTL

\* A run is completed if and only if all its tasks have succeeded.
THEOREM CompletedExactlyHolds == Spec => []CompletedExactly
<1>1. ASSUME IInv, pc \in {"ended", "escaped"}
      PROVE  status = "completed" <=> \A t \in Task : task_results[t] = "success"
  <2>1. Sorted = Task /\ status \in {"completed", "failed"}
    BY <1>1 DEF IInv, SortInv, StatusInv, Looping
  <2>2. ASSUME status = "completed", NEW t \in Task
        PROVE  task_results[t] = "success"
    <3>1. PICK i \in DOMAIN sorted : sorted[i] = t
      BY <2>1 DEF Sorted
    <3>2. pc = "ended" /\ next > Len(sorted)
      BY <1>1, <2>2 DEF IInv, StatusInv, LoopInv
    <3>3. task_results[t] # "none"
      BY <1>1, <3>1, <3>2 DEF IInv, ResultsInv, TypeOK
    <3>4. task_results[t] \notin {"failed", "skipped"}
      BY <1>1, <2>2 DEF IInv, StatusInv
    <3> QED
      BY <1>1, <3>3, <3>4 DEF IInv, TypeOK
  <2>3. ASSUME status = "failed"
        PROVE  \E t \in Task : task_results[t] # "success"
    <3>1. CASE \E t \in Task : task_results[t] = "failed"
      BY <3>1
    <3>2. CASE pc = "escaped"
      <4>1. next \in DOMAIN sorted /\ sorted[next] \in Task /\ next \in Nat
        BY <1>1, <3>2 DEF IInv, TypeOK, LoopInv
      <4>2. task_results[sorted[next]] = "none"
        BY <1>1, <4>1 DEF IInv, ResultsInv
      <4> QED
        BY <4>1, <4>2
    <3> QED
      BY <1>1, <2>3, <3>1, <3>2 DEF IInv, StatusInv
  <2> QED
    BY <2>1, <2>2, <2>3
<1>2. IInv => CompletedExactly
  BY <1>1 DEF CompletedExactly
<1> QED
  BY <1>2, Invariance, PTL

-----------------------------------------------------------------------------
(* Termination, without fairness: how many steps a run still can take.     *)

\* The stages before it: to be sorted, to be executed, to be ended.
Stage ==
  [called |-> 3, sorting |-> 2, running |-> 1, executing |-> 1,
   ended |-> 0, escaped |-> 0, raised |-> 0]

\* The attempts that the next task, or the current one, may still take.
Effort ==
  IF pc = "executing" THEN MaxAttempts - attempts
  ELSE IF pc \in {"ended", "escaped", "raised"} THEN 0 ELSE MaxAttempts + 1

TasksToSort == Cardinality(Task) - Len(sorted)
TasksToRun == Cardinality(Task) + 1 - next

Remaining == Stage[pc] + Effort + TasksToSort + TasksToRun * (MaxAttempts + 2)

\* Every task of the order is one of the tasks, and no position is behind them.
LEMMA NothingIsNegative ==
  ASSUME IInv
  PROVE  /\ TasksToSort \in Nat /\ TasksToRun \in Nat /\ Effort \in Nat
         /\ Stage[pc] \in Nat /\ MaxAttempts \in Nat \ {0}
         /\ TasksToRun * (MaxAttempts + 2) \in Nat
<1>1. Cardinality(Sorted) = Len(sorted) /\ Sorted \subseteq Task
  BY LengthOfOrder DEF IInv, SortInv
<1>2. Cardinality(Sorted) <= Cardinality(Task) /\ Cardinality(Task) \in Nat
  BY <1>1, PipelineAssumption, FS_Subset, FS_CardinalityType
<1>3. Len(sorted) \in Nat /\ next \in 1 .. Len(sorted) + 1 /\ attempts \in 0 .. MaxAttempts
  BY DEF IInv, TypeOK
<1>4. TasksToSort \in Nat /\ TasksToRun \in Nat
  BY <1>1, <1>2, <1>3 DEF TasksToSort, TasksToRun
<1>5. Effort \in Nat /\ MaxAttempts \in Nat \ {0}
  BY <1>3, PipelineAssumption DEF Effort
<1>6. Stage[pc] \in Nat
  BY DEF IInv, TypeOK, Stage
<1>7. ASSUME NEW m \in Nat, NEW n \in Nat PROVE m * n \in Nat
  OBVIOUS
<1> QED
  BY <1>4, <1>5, <1>6, <1>7

\* An attempt that was not made yet is left.
LEMMA AttemptsLeft ==
  ASSUME NEW a \in 0 .. MaxAttempts
  PROVE  MaxAttempts - a \in Nat /\ MaxAttempts + 1 \in Nat
BY PipelineAssumption

\* Recording a result pays for the attempts of the next task.
LEMMA OneTaskLess ==
  ASSUME NEW n \in Nat, NEW k \in Nat
  PROVE  (n - 1) * k = n * k - k /\ n * k \in Nat
OBVIOUS

\* A step that leaves two of the parts of the measure alone.
LEMMA LessWithTheSame ==
  ASSUME NEW a \in Nat, NEW b \in Nat, NEW c \in Nat, NEW d \in Nat,
         NEW m \in Nat, NEW n \in Nat, c + d < a + b
  PROVE  c + d + m + n < a + b + m + n
OBVIOUS

\* Every step uses up something: a stage, an attempt, a task to sort or to run.
LEMMA StepsRunOut ==
  ASSUME IInv, Next, IInv'
  PROVE  Remaining' < Remaining
<1> DEFINE k == MaxAttempts + 2
<1>1. /\ TasksToSort \in Nat /\ TasksToRun \in Nat /\ Effort \in Nat
      /\ MaxAttempts \in Nat \ {0} /\ attempts \in Nat
      /\ TasksToRun * k \in Nat /\ (TasksToRun - 1) * k = TasksToRun * k - k
  <2>1. /\ TasksToSort \in Nat /\ TasksToRun \in Nat /\ Effort \in Nat
        /\ MaxAttempts \in Nat \ {0} /\ k \in Nat
    BY NothingIsNegative
  <2>2. attempts \in Nat
    BY <2>1 DEF IInv, TypeOK
  <2>3. TasksToRun * k \in Nat /\ (TasksToRun - 1) * k = TasksToRun * k - k
    BY <2>1, OneTaskLess
  <2> QED
    BY <2>1, <2>2, <2>3
<1>2. /\ Cardinality(Task) \in Nat /\ Len(sorted) \in Nat /\ next \in Nat
      /\ Effort' \in Nat
  <2>1. attempts' \in 0 .. MaxAttempts
    BY DEF IInv, TypeOK
  <2>2. Effort' \in Nat
    <3>1. MaxAttempts - attempts' \in Nat /\ MaxAttempts + 1 \in Nat /\ 0 \in Nat
      BY <2>1, AttemptsLeft
    <3>2. Effort' = IF pc' = "executing" THEN MaxAttempts - attempts'
                    ELSE IF pc' \in {"ended", "escaped", "raised"} THEN 0
                         ELSE MaxAttempts + 1
      BY DEF Effort
    <3> QED
      BY <3>1, <3>2, Zenon
  <2>3. Len(sorted) \in Nat /\ next \in Nat
    BY DEF IInv, TypeOK
  <2> QED
    BY <2>2, <2>3, PipelineAssumption, FS_CardinalityType
<1>3. Remaining = Stage[pc] + Effort + TasksToSort + TasksToRun * k
  BY DEF Remaining
<1>4. Remaining' = Stage[pc'] + Effort' + TasksToSort' + TasksToRun' * k
  BY DEF Remaining, Stage
<1> HIDE DEF k
<1>5. k = MaxAttempts + 2
  BY DEF k
<1>6. CASE UNCHANGED <<sorted, next>>
  <2>1. TasksToSort' = TasksToSort /\ TasksToRun' = TasksToRun
    BY <1>6 DEF TasksToSort, TasksToRun
  <2>2. Stage[pc'] + Effort' < Stage[pc] + Effort
    <3>1. CASE run_dag
      BY <1>1, <3>1 DEF run_dag, Stage, Effort
    <3>2. CASE \E n \in Task : SortTask(n)
      <4>1. Len(sorted') = Len(sorted) + 1
        BY <3>2, AppendToOrder DEF SortTask, IInv
      <4> QED
        BY <1>2, <1>6, <4>1
    <3>3. CASE EndSort
      BY <1>1, <3>3 DEF EndSort, Stage, Effort
    <3>4. CASE SkipTask \/ Succeed \/ Fail
      BY <1>2, <1>6, <3>4 DEF SkipTask, Succeed, Fail, Record
    <3>5. CASE StartTask
      BY <1>1, <3>5 DEF StartTask, Stage, Effort
    <3>6. CASE Retry
      BY <1>1, <3>6 DEF Retry, Stage, Effort
    <3>7. CASE Escape \/ Finish
      BY <1>1, <3>7 DEF Escape, Finish, Stage, Effort, IInv, LoopInv
    <3> QED
      BY <3>1, <3>2, <3>3, <3>4, <3>5, <3>6, <3>7 DEF Next
  <2>3. Stage[pc] \in Nat /\ Stage[pc'] \in Nat
    <3>1. /\ pc \in {"called", "sorting", "running", "executing", "ended", "escaped", "raised"}
          /\ pc' \in {"called", "sorting", "running", "executing", "ended", "escaped", "raised"}
      BY DEF IInv, TypeOK
    <3> QED
      BY <3>1 DEF Stage
  <2>4. Remaining' = Stage[pc'] + Effort' + TasksToSort + TasksToRun * k
    BY <1>4, <2>1
  <2>5. k \in Nat /\ TasksToRun * k \in Nat
    BY <1>1, <1>5
  <2> QED
    BY <1>1, <1>2, <1>3, <2>2, <2>3, <2>4, <2>5, LessWithTheSame
<1>7. CASE \E n \in Task : SortTask(n)
  <2>1. Len(sorted') = Len(sorted) + 1 /\ UNCHANGED <<pc, next, attempts>>
    BY <1>7, AppendToOrder DEF SortTask, IInv
  <2>2. TasksToSort' = TasksToSort - 1 /\ TasksToRun' = TasksToRun /\ Effort' = Effort
    BY <1>2, <2>1 DEF TasksToSort, TasksToRun, Effort
  <2>3. Stage[pc] \in Nat /\ pc' = pc
    BY <2>1, NothingIsNegative
  <2> QED
    BY <1>1, <1>3, <1>4, <2>2, <2>3
<1>8. CASE SkipTask \/ Succeed \/ Fail
  <2>1. /\ next' = next + 1 /\ sorted' = sorted /\ pc \in {"running", "executing"}
        /\ pc' = "running"
    BY <1>8 DEF SkipTask, Succeed, Fail, Record, sort_vars
  <2>2. TasksToSort' = TasksToSort /\ TasksToRun' = TasksToRun - 1
    BY <1>2, <2>1 DEF TasksToSort, TasksToRun
  <2>3. Effort' = MaxAttempts + 1 /\ Effort >= 0 /\ Stage[pc'] = Stage[pc]
    BY <1>1, <2>1 DEF Effort, Stage
  <2>4. Stage[pc] \in Nat /\ TasksToRun' * k = TasksToRun * k - k
    BY <1>1, <2>2, NothingIsNegative
  <2> QED
    BY <1>1, <1>3, <1>4, <1>5, <2>2, <2>3, <2>4
<1> QED
  BY <1>6, <1>7, <1>8
  DEF Next, run_dag, EndSort, StartTask, Retry, Escape, Finish, sort_vars

\* No run goes on for ever: every step, a retry and the callbacks' ways out included,
\* uses up one of the finitely many steps a definition of so many tasks and attempts
\* allows, so a run that is executed on comes to its end.
RunsOut == [][Remaining' < Remaining]_vars

THEOREM RunTerminates == Spec => [](Remaining \in Nat) /\ RunsOut
<1>1. IInv => Remaining \in Nat
  BY NothingIsNegative DEF Remaining
<1>2. IInv /\ IInv' /\ [Next]_vars => [Remaining' < Remaining]_vars
  BY StepsRunOut
<1> QED
  BY <1>1, <1>2, Invariance, PTL DEF Spec, RunsOut
=============================================================================
