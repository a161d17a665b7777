------------------------ MODULE AutomationPipeline ------------------------
(***************************************************************************)
(* The automation queue and the saved tasks together: a queue worker runs  *)
(* the saved task its item names (_execute_claimed_queue_item,             *)
(* execute_automation_target), while the owner runs the same tasks by hand *)
(* and reviews their results.  Two claims with two leases are in play: the *)
(* worker's on the queue item and the execution's on the task, either of   *)
(* which may lapse while the other is held.                                *)
(*                                                                         *)
(* This module extends the queue, whose rows and workers it keeps, by the  *)
(* saved tasks, the instance T, and says which of their steps are one step *)
(* of the composed system.                                                 *)
(***************************************************************************)
EXTENDS AutomationQueue

CONSTANTS Tasks, Tabs, NoTask, MaxRuns,    \* of SavedTask
          Callers,    \* executions that the owner starts by hand
          Target      \* Target[i]: the target_id of queue item i

ASSUME PipelineAssumption ==
    /\ Target \in [Items -> Tasks]
    /\ Workers \cap Callers = {}

VARIABLES task, runner, tab, events, reported, taskToken,
          served      \* history: served[i], the attempts that ended well for i

T == INSTANCE SavedTask WITH nextToken <- taskToken,
                             Runners <- Workers \cup Callers

\* The constants are as SavedTask assumes.
ASSUME SavedTaskAssumption == T!TaskAssumption

taskVars == <<task, runner, tab, events, reported, taskToken>>
pipelineVars == <<vars, taskVars, served>>

-----------------------------------------------------------------------------
(* The queue worker. *)

\* The claim on the item; the worker goes on when the execution it had is
\* over, also the one it cancelled.
QueueStep(w) ==
    /\ runner[w].pc = "idle"
    /\ \/ Start(w)
       \/ DequeueEmpty(w)
       \/ \E i \in Items, reply \in Replies: Dequeue(w, i, reply)
       \/ \E reply \in Replies: Ack(w, reply)
       \/ \E reply \in Replies: Nack(w, reply)
    /\ UNCHANGED <<taskVars, served>>

\* execute_saved_task begins.
Begin(w) ==
    /\ worker[w].pc = "executing"
    /\ T!Execute(w, Target[worker[w].item])
    /\ UNCHANGED <<vars, served>>

\* AutomationTargetNotFound, or the principal or the tenant is refused.
Refused(w) ==
    /\ runner[w].pc = "idle"
    /\ Fail(w)
    /\ UNCHANGED <<taskVars, served>>

TaskRuns(w) ==
    \/ \E reply \in Replies: T!Claim(w, reply)
    \/ T!ClaimRefused(w)
    \/ \E reply \in Replies: T!Heartbeat(w, reply)
    \/ \E result \in T!Results: T!Answer(w, result)
    \/ \E reply \in Replies: T!Complete(w, reply)

\* Mutant: an execution that ended without an exception is a success.
OutcomeOfAnyEnd(w) ==
    IF runner'[w].pc # "idle"
    THEN UNCHANGED <<vars, served>>
    ELSE Succeed(w) /\ UNCHANGED served

\* What the execution's step means to the item: it goes on, it returned (the
\* task now waits for review), or it raised: failed, busy, claim lost, deleted.
Outcome(w) ==
    \/ /\ runner'[w].pc # "idle"
       /\ UNCHANGED <<vars, served>>
    \/ /\ runner'[w].pc = "idle"
       /\ reported' # reported
       /\ Succeed(w)
       /\ served' = [served EXCEPT ![worker[w].item] = @ \cup {runner[w].token}]
    \/ /\ runner'[w].pc = "idle"
       /\ reported' = reported
       /\ Fail(w)
       /\ UNCHANGED served

ExecutionStep(w) ==
    /\ worker[w].pc = "executing"
    /\ runner[w].pc # "idle"
    /\ TaskRuns(w)
    /\ Outcome(w)

\* A cancelled execution: an answer in the making becomes 'Failed', a
\* transaction under way is decided without anybody hearing of it.
Cancelled(w) ==
    \/ runner[w].pc = "idle" /\ UNCHANGED taskVars
    \/ T!Claim(w, "lost")
    \/ T!ClaimRefused(w)
    \/ T!Answer(w, "error")
    \/ T!Complete(w, "lost")
    \/ runner[w].pc = "completing" /\ T!Crash(w)

\* run_with_queue_claim_heartbeat: the item's claim is lost, the execution is
\* cancelled and waited for.
QueueHeartbeat(w, reply) ==
    /\ Heartbeat(w, reply)
    /\ worker' # worker
    /\ Cancelled(w)
    /\ UNCHANGED served

\* What a cancelled execution still has to record.
Cleanup(w) ==
    /\ worker[w].pc \in {"nacking", "stopped"}
    /\ \E reply \in Replies: T!Complete(w, reply)
    /\ UNCHANGED <<vars, served>>

\* Mutant: the shutdown marks the worker's task 'Failed' by its id.
StopFailsTask(w) ==
    /\ Stop(w)
    /\ IF runner[w].pc = "executing"
       THEN /\ task' = [task EXCEPT ![runner[w].task].status = "Failed"]
            /\ runner' = [runner EXCEPT ![w] = T!IdleRunner]
            /\ UNCHANGED <<tab, events, reported, taskToken>>
       ELSE Cancelled(w)
    /\ UNCHANGED served

\* Shutdown cancels the execution too; the death of the process just ends it.
Shutdown(w) ==
    /\ Stop(w)
    /\ Cancelled(w) \/ T!Crash(w)
    /\ UNCHANGED served

TargetStep(w) ==
    \/ QueueStep(w)
    \/ Begin(w)
    \/ Refused(w)
    \/ ExecutionStep(w)
    \/ \E reply \in Replies: QueueHeartbeat(w, reply)
    \/ Cleanup(w)
    \/ Shutdown(w)

-----------------------------------------------------------------------------

\* The owner: executions by hand, reviews, definitions.
OwnerStep ==
    /\ \/ \E c \in Callers: T!RunnerStep(c)
       \/ \E u \in Tabs: T!TabStep(u)
       \/ \E t \in Tasks: T!TaskStep(t)
    /\ UNCHANGED <<vars, served>>

ItemsStep ==
    /\ \E i \in Items: ItemStep(i)
    /\ UNCHANGED <<taskVars, served>>

PipelineInit == Init /\ T!Init /\ served = [i \in Items |-> {}]

PipelineNext ==
    \/ \E w \in Workers: TargetStep(w)
    \/ OwnerStep
    \/ ItemsStep

PipelineSpec == PipelineInit /\ [][PipelineNext]_pipelineVars

-----------------------------------------------------------------------------
(* Properties. *)

\* The rows, locals and histories of both parts have their types.
PipelineTypeOK == TypeOK /\ T!TypeOK /\ served \in [Items -> SUBSET (1..MaxRuns)]

\* Seen from the tasks, queue workers and the owner's calls are executions like
\* any other: whatever SavedTask guarantees holds here.
TaskBehaves == T!Spec

\* An item is only completed for a result that can still be found: an attempt
\* made for this very item waits for the owner's review, was decided on, or
\* the owner deleted the task.
CompletedLeavesEvidence ==
    \A i \in Items: row[i].status = "completed" =>
        \E k \in served[i]:
            \/ task[Target[i]].execution = k /\ task[Target[i]].status = "ReviewRequired"
            \/ \E e \in events: e.execution = k
            \/ task[Target[i]].status = "deleted"

\* An item may be delivered again after its execution ended well (its ack was
\* late, lost or refused), and several items may name one task; yet the task
\* ends well for the queue a second time only when the owner has decided on
\* the result before.  Of two such executions one was reviewed, or the task
\* was deleted.
RerunOnlyAfterReview ==
    \A i, h \in Items: \A j \in served[i], k \in served[h]:
        Target[i] = Target[h] /\ j # k =>
            \/ \E e \in events: e.execution \in {j, k}
            \/ task[Target[i]].status = "deleted"

=============================================================================
