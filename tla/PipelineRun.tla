------------------------------ MODULE PipelineRun ------------------------------
(***************************************************************************)
(* A run of a pipeline (astroml/pipeline/orchestrator.py):                 *)
(* LocalPipelineOrchestrator.run_dag with DAGDefinition.topological_sort.  *)
(*                                                                         *)
(* The tasks are sorted, then executed one after the other with retries; a *)
(* task behind a failed one is skipped.  Actions and callbacks may raise:  *)
(* what the retry policy names is retried, the rest ends the run.  The     *)
(* definition handed to run_dag is any graph, with cycles and with names   *)
(* no task has.  The sort's queue is a set: the order in which ready tasks *)
(* leave it depends on the order of dictionaries and sets.                 *)
(***************************************************************************)
EXTENDS Integers, Sequences, FiniteSets

CONSTANTS
  Task,           (* The tasks of the definition.                          *)
  Unknown,        (* Names in upstream_task_ids that no task has.          *)
  MaxAttempts     (* max(1, max_retries + 1), the same for every task.     *)

ASSUME PipelineAssumption ==
  /\ IsFiniteSet(Task)
  /\ Unknown \cap Task = {}
  /\ MaxAttempts \in Nat \ {0}

VARIABLES
  upstream,       (* upstream_task_ids.                                    *)
  pc,             (* Where run_dag is.                                     *)
  in_degree,      (* topological_sort: the upstream tasks not yet sorted,  *)
  queue,          (* the tasks that have none,                             *)
  sorted,         (* and the order so far: sorted_tasks, task_order.       *)
  next,           (* The position in task_order.                           *)
  attempts,       (* _execute_task_with_retry: the attempts made.          *)
  task_results,   (* The status of a task's result, or "none".             *)
  status          (* The run's status.                                     *)

sort_vars == <<in_degree, queue, sorted>>
vars == <<upstream, pc, sort_vars, next, attempts, task_results, status>>

Sorted == {sorted[i] : i \in DOMAIN sorted}

Init ==
  /\ upstream \in [Task -> SUBSET (Task \cup Unknown)]
  /\ pc = "called"
  /\ in_degree = [t \in Task |-> 0]
  /\ queue = {}
  /\ sorted = <<>>
  /\ next = 1
  /\ attempts = 0
  /\ task_results = [t \in Task |-> "none"]
  /\ status = "not_started"

-----------------------------------------------------------------------------
(* topological_sort.                                                       *)

\* The run is recorded as running before its tasks are sorted.
run_dag ==
  /\ pc = "called"
  /\ status' = "running"
  /\ IF \A t \in Task : upstream[t] \subseteq Task
     THEN /\ pc' = "sorting"
          /\ in_degree' = [t \in Task |-> Cardinality(upstream[t])]
          /\ queue' = {t \in Task : upstream[t] = {}}
     ELSE /\ pc' = "raised"
          /\ UNCHANGED <<in_degree, queue>>
  /\ UNCHANGED <<upstream, sorted, next, attempts, task_results>>

\* A task is queued as soon as one of its upstream tasks is sorted.
SortTaskBug(n) ==
  LET downstream == {t \in Task : n \in upstream[t]} IN
  /\ pc = "sorting"
  /\ n \in queue
  /\ sorted' = Append(sorted, n)
  /\ in_degree' = [t \in Task |-> IF t \in downstream THEN in_degree[t] - 1 ELSE in_degree[t]]
  /\ queue' = (queue \cup (downstream \ Sorted)) \ {n}
  /\ UNCHANGED <<upstream, pc, next, attempts, task_results, status>>

\* A task leaves the queue; what it was the last upstream task of joins it.
SortTask(n) ==
  LET downstream == {t \in Task : n \in upstream[t]} IN
  /\ pc = "sorting"
  /\ n \in queue
  /\ sorted' = Append(sorted, n)
  /\ in_degree' = [t \in Task |-> IF t \in downstream THEN in_degree[t] - 1 ELSE in_degree[t]]
  /\ queue' = (queue \ {n}) \cup {t \in downstream : in_degree[t] = 1}
  /\ UNCHANGED <<upstream, pc, next, attempts, task_results, status>>

\* A cycle is not looked for.
EndSortBug ==
  /\ pc = "sorting"
  /\ queue = {}
  /\ pc' = "running"
  /\ UNCHANGED <<upstream, sort_vars, next, attempts, task_results, status>>

\* A cycle leaves tasks unsorted: run_dag raises and its run stays "running".
EndSort ==
  /\ pc = "sorting"
  /\ queue = {}
  /\ pc' = IF Len(sorted) = Cardinality(Task) THEN "running" ELSE "raised"
  /\ UNCHANGED <<upstream, sort_vars, next, attempts, task_results, status>>

-----------------------------------------------------------------------------
(* The loop over task_order.                                               *)

Current == sorted[next]

Record(result) ==
  /\ task_results' = [task_results EXCEPT ![Current] = result]
  /\ next' = next + 1
  /\ pc' = "running"

\* Only a failure upstream counts, not a skipped task.
FailedUpstreamsBug(t) == {u \in upstream[t] : task_results[u] = "failed"}

\* An upstream task without a result does not count.
FailedUpstreams(t) == {u \in upstream[t] : task_results[u] \notin {"none", "success"}}

SkipTask ==
  /\ pc = "running" /\ next <= Len(sorted)
  /\ FailedUpstreams(Current) # {}
  /\ Record("skipped")
  /\ UNCHANGED <<upstream, sort_vars, attempts, status>>

StartTask ==
  /\ pc = "running" /\ next <= Len(sorted)
  /\ FailedUpstreams(Current) = {}
  /\ pc' = "executing"
  /\ attempts' = 0
  /\ UNCHANGED <<upstream, sort_vars, next, task_results, status>>

\* The action and its callback return.
Succeed ==
  /\ pc = "executing"
  /\ Record("success")
  /\ attempts' = attempts + 1
  /\ UNCHANGED <<upstream, sort_vars, status>>

\* The action, or the callback of an action that has returned, raises what the
\* policy retries: the action is called again.
Retry ==
  /\ pc = "executing"
  /\ attempts + 1 < MaxAttempts
  /\ attempts' = attempts + 1
  /\ UNCHANGED <<upstream, pc, sort_vars, next, task_results, status>>

\* The last attempt has failed, and the run goes on.
FailBug ==
  /\ pc = "executing"
  /\ attempts + 1 >= MaxAttempts
  /\ attempts' = attempts + 1
  /\ Record("failed")
  /\ UNCHANGED <<upstream, sort_vars, status>>

\* The last attempt has failed, and the run with it.
Fail ==
  /\ pc = "executing"
  /\ attempts + 1 >= MaxAttempts
  /\ attempts' = attempts + 1
  /\ Record("failed")
  /\ status' = "failed"
  /\ UNCHANGED <<upstream, sort_vars>>

\* What the policy does not name, or what the callback of a failure raises, ends
\* the run: the tasks that are left have no result.
Escape ==
  /\ pc = "executing"
  /\ pc' = "escaped"
  /\ attempts' = attempts + 1
  /\ status' = "failed"
  /\ UNCHANGED <<upstream, sort_vars, next, task_results>>

Finish ==
  /\ pc = "running" /\ next > Len(sorted)
  /\ pc' = "ended"
  /\ status' = IF status = "failed" THEN "failed" ELSE "completed"
  /\ UNCHANGED <<upstream, sort_vars, next, attempts, task_results>>

Next ==
  \/ run_dag
  \/ \E n \in Task : SortTask(n)
  \/ EndSort
  \/ SkipTask \/ StartTask
  \/ Succeed \/ Retry \/ Fail \/ Escape
  \/ Finish

Spec == Init /\ [][Next]_vars

-----------------------------------------------------------------------------
(* Properties.                                                             *)

\* Types: in-degrees do not become negative, and no position lies outside the
\* order.
TypeOK ==
  /\ upstream \in [Task -> SUBSET (Task \cup Unknown)]
  /\ pc \in {"called", "sorting", "running", "executing", "ended", "escaped", "raised"}
  /\ in_degree \in [Task -> Nat]
  /\ queue \in SUBSET Task
  /\ sorted \in Seq(Task)
  /\ next \in 1 .. Len(sorted) + 1
  /\ attempts \in 0 .. MaxAttempts
  /\ task_results \in [Task -> {"none", "success", "failed", "skipped"}]
  /\ status \in {"not_started", "running", "completed", "failed"}

\* A task is executed only when all its upstream tasks have succeeded, although
\* the code only looks for one that has a result and did not.
UpstreamSucceededFirst ==
  pc = "executing" => \A u \in upstream[Current] : u \in Task /\ task_results[u] = "success"

\* A cycle: tasks that all wait for one another.
Cyclic == \E S \in SUBSET Task : S # {} /\ \A t \in S : upstream[t] \cap S # {}

\* The sort refuses exactly the definitions that cannot be executed, those with a
\* cycle or an unknown name.
RefusesExactly ==
  /\ pc = "raised" => Cyclic \/ \E t \in Task : ~ upstream[t] \subseteq Task
  /\ pc \in {"running", "executing", "ended", "escaped"} =>
       ~Cyclic /\ \A t \in Task : upstream[t] \subseteq Task

\* When the loop has ended every task has a result, and the skipped ones are those
\* with a failed or a skipped task upstream: what does not depend on a failure is
\* executed, what depends on it at any distance is not.
SkippedExactly ==
  pc = "ended" => \A t \in Task :
    /\ task_results[t] # "none"
    /\ task_results[t] = "skipped" <=>
         \E u \in upstream[t] : task_results[u] \in {"failed", "skipped"}

\* A run is completed if and only if all its tasks have succeeded.
CompletedExactly ==
  pc \in {"ended", "escaped"} =>
    (status = "completed" <=> \A t \in Task : task_results[t] = "success")
=============================================================================
