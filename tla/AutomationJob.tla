--------------------------- MODULE AutomationJob ---------------------------
(***************************************************************************)
(* Multi-step automation jobs: the rows of public.automation_jobs and the  *)
(* executions of them (JobService.execute_job), which a request or a queue *)
(* worker starts.  Unlike a saved task, a job has no claim: executions of  *)
(* one job may overlap and each writes the row by its job_id alone.        *)
(***************************************************************************)
EXTENDS Naturals

CONSTANTS Jobs,        \* job_id values
          Executions,  \* concurrent calls of execute_job
          NoJob,       \* "no job"
          Steps        \* the number of steps of a job; 0 is allowed

ASSUME JobAssumption == NoJob \notin Jobs /\ Steps \in Nat

VARIABLES job,     \* job[j]: the row
          exec,    \* exec[x]: where call x is
          lost     \* history: jobs with an execution that could not record its end

vars == <<job, exec, lost>>

Replies == {"ok", "lost", "failed"}

\* results counts the successful entries of last_results, flaw says whether an
\* unsuccessful one follows; error says whether last_error is set.
Row == [status: {"absent", "deleted", "Pending", "Running", "Success", "Failed"},
        results: 0..Steps, flaw: BOOLEAN, error: BOOLEAN]

Exec == [pc: {"idle", "steps", "failing", "succeeding"},
         job: Jobs \cup {NoJob}, done: 0..Steps, flaw: BOOLEAN]

Idle == [pc |-> "idle", job |-> NoJob, done |-> 0, flaw |-> FALSE]
Blank(status) == [status |-> status, results |-> 0, flaw |-> FALSE, error |-> FALSE]
Exists(j) == job[j].status \notin {"absent", "deleted"}

-----------------------------------------------------------------------------

CreateJob(j) ==
    /\ job[j].status = "absent"
    /\ job' = [job EXCEPT ![j] = Blank("Pending")]
    /\ UNCHANGED <<exec, lost>>

DeleteJob(j) ==
    /\ Exists(j)
    /\ job' = [job EXCEPT ![j] = Blank("deleted")]
    /\ UNCHANGED <<exec, lost>>

\* mark_job_running, whatever the status and whoever executes the job; a
\* missing row is JobNotFoundError.
MarkRunning(x, j, reply) ==
    /\ exec[x].pc = "idle"
    /\ Exists(j)
    /\ reply # "failed"
    /\ job' = [job EXCEPT ![j].status = "Running", ![j].error = FALSE]
    /\ exec' = IF reply = "ok"
               THEN [exec EXCEPT ![x] = [Idle EXCEPT !.pc = "steps", !.job = j]]
               ELSE exec
    /\ lost' = IF reply = "ok" THEN lost ELSE lost \cup {j}

\* Mutant: an unsuccessful step is recorded and the next one is run.
StepContinues(x, success) ==
    /\ exec[x].pc = "steps"
    /\ exec[x].done < Steps
    /\ exec' = [exec EXCEPT ![x].done = @ + 1,
                            ![x].flaw = exec[x].flaw \/ ~success]
    /\ UNCHANGED <<job, lost>>

\* One step through the runtime; an answer that is no success is recorded and
\* ends the job, as JobExecutionError.
Step(x, success) ==
    /\ exec[x].pc = "steps"
    /\ exec[x].done < Steps
    /\ exec' = IF success
               THEN [exec EXCEPT ![x].done = @ + 1]
               ELSE [exec EXCEPT ![x].pc = "failing", ![x].flaw = TRUE]
    /\ UNCHANGED <<job, lost>>

\* A step has no agent, the runtime raises, or the execution is cancelled:
\* nothing is added to the results.
Interrupt(x) ==
    /\ exec[x].pc = "steps"
    /\ exec' = [exec EXCEPT ![x].pc = "failing"]
    /\ UNCHANGED <<job, lost>>

StepsDone(x) ==
    /\ exec[x].pc = "steps"
    /\ exec[x].done = Steps
    /\ exec' = [exec EXCEPT ![x].pc = "succeeding"]
    /\ UNCHANGED <<job, lost>>

\* complete_job's columns: all of them come from this one execution.
Written(x) ==
    [status |-> IF exec[x].pc = "failing" THEN "Failed" ELSE "Success",
     results |-> exec[x].done, flaw |-> exec[x].flaw,
     error |-> exec[x].pc = "failing"]

\* Mutant: a failure is only raised, not recorded.
CompleteSuccessOnly(x, reply) ==
    LET j == exec[x].job IN
    /\ exec[x].pc \in {"failing", "succeeding"}
    /\ job' = IF Exists(j) /\ reply # "failed" /\ exec[x].pc = "succeeding"
              THEN [job EXCEPT ![j] = Written(x)] ELSE job
    /\ lost' = IF reply = "failed" THEN lost \cup {j} ELSE lost
    /\ exec' = [exec EXCEPT ![x] = Idle]

\* complete_job matches the row by its id.
Complete(x, reply) ==
    LET j == exec[x].job IN
    /\ exec[x].pc \in {"failing", "succeeding"}
    /\ job' = IF Exists(j) /\ reply # "failed"
              THEN [job EXCEPT ![j] = Written(x)] ELSE job
    /\ lost' = IF reply = "failed" THEN lost \cup {j} ELSE lost
    /\ exec' = [exec EXCEPT ![x] = Idle]

\* The process dies, or a second cancellation hits the recording of the first.
Crash(x) ==
    /\ exec[x].pc # "idle"
    /\ lost' = lost \cup {exec[x].job}
    /\ exec' = [exec EXCEPT ![x] = Idle]
    /\ UNCHANGED job

-----------------------------------------------------------------------------

Init ==
    /\ job = [j \in Jobs |-> Blank("absent")]
    /\ exec = [x \in Executions |-> Idle]
    /\ lost = {}

ExecutionStep(x) ==
    \/ \E j \in Jobs, reply \in Replies: MarkRunning(x, j, reply)
    \/ \E success \in BOOLEAN: Step(x, success)
    \/ Interrupt(x)
    \/ StepsDone(x)
    \/ \E reply \in Replies: Complete(x, reply)
    \/ Crash(x)

Next ==
    \/ \E x \in Executions: ExecutionStep(x)
    \/ \E j \in Jobs: CreateJob(j) \/ DeleteJob(j)

Spec == Init /\ [][Next]_vars

(* An execution's steps end and it goes on to record its outcome.  Nobody   *)
(* need start one.                                                          *)
Fairness ==
    \A x \in Executions:
        /\ WF_vars((\E success \in BOOLEAN: Step(x, success)) \/ StepsDone(x))
        /\ WF_vars(\E reply \in Replies: Complete(x, reply))

FairSpec == Spec /\ Fairness

-----------------------------------------------------------------------------
(* Properties. *)

\* Columns and locals have their types.
TypeOK ==
    /\ job \in [Jobs -> Row]
    /\ exec \in [Executions -> Exec]
    /\ lost \subseteq Jobs

\* Overlapping executions overwrite each other's rows but never mix: a 'Success'
\* has the results of all steps and no error, a 'Failed' job names one.
OutcomeConsistent ==
    \A j \in Jobs:
        /\ job[j].status = "Success" =>
              job[j].results = Steps /\ ~job[j].flaw /\ ~job[j].error
        /\ job[j].status = "Failed" => job[j].error

\* However executions overlap, a job says 'Running' only while one is under
\* way or after one could not record how it ended.  (The converse does not
\* hold: the first of two overlapping executions to end sets the status.)
RunningIsExecuted ==
    \A j \in Jobs: job[j].status = "Running" =>
        j \in lost \/ \E x \in Executions: exec[x].job = j

\* A running job comes to an end that is recorded, unless an execution of it
\* could not record its end.
RunningEnds ==
    \A j \in Jobs: job[j].status = "Running" ~> job[j].status # "Running" \/ j \in lost

=============================================================================
