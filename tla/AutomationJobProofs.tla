------------------------ MODULE AutomationJobProofs ------------------------
(***************************************************************************)
(* The safety of multi-step jobs, for any jobs, any number of overlapping  *)
(* executions and any number of steps.                                     *)
(***************************************************************************)
EXTENDS AutomationJob, TLAPS

\* What an execution's locals say: an execution under way names its job, has
\* seen no unsuccessful step while it goes on, and succeeds after all of them.
ExecShape ==
    \A x \in Executions:
        /\ exec[x].pc = "idle" <=> exec[x].job = NoJob
        /\ exec[x].pc \in {"steps", "succeeding"} => ~exec[x].flaw
        /\ exec[x].pc = "succeeding" => exec[x].done = Steps

\* The inductive invariant.
IInv ==
    /\ TypeOK
    /\ ExecShape
    /\ OutcomeConsistent
    /\ RunningIsExecuted

USE DEF Replies, Row, Exec

-----------------------------------------------------------------------------
(* Lemmas on rows and executions. *)

\* A blank row has its status and nothing else.
LEMMA BlankRow ==
    ASSUME NEW status \in {"absent", "deleted", "Pending"}
    PROVE  Blank(status) \in Row /\ Blank(status).status = status
  BY JobAssumption DEF Blank

\* An idle execution has no job.
LEMMA IdleExec == Idle \in Exec /\ Idle.pc = "idle" /\ Idle.job = NoJob
                  /\ Idle.done = 0 /\ ~Idle.flaw
  BY JobAssumption DEF Idle

\* What complete_job writes is one execution's outcome, as a whole.
LEMMA WrittenRow ==
    ASSUME TypeOK, ExecShape, NEW x \in Executions,
           exec[x].pc \in {"failing", "succeeding"}
    PROVE  /\ Written(x) \in Row
           /\ Written(x).status \in {"Success", "Failed"}
           /\ Written(x).status = "Success" =>
                 Written(x).results = Steps /\ ~Written(x).flaw /\ ~Written(x).error
           /\ Written(x).status = "Failed" => Written(x).error
<1>1. exec[x] \in Exec
  BY DEF TypeOK
<1>2. CASE exec[x].pc = "failing"
  BY <1>1, <1>2 DEF Written
<1>3. CASE exec[x].pc = "succeeding"
  BY <1>1, <1>3 DEF Written, ExecShape
<1> QED
  BY <1>2, <1>3

-----------------------------------------------------------------------------
(* The invariant holds initially and is preserved by every action. *)

\* No job exists and nothing is executed.
LEMMA InitInv == Init => IInv
  BY BlankRow, IdleExec
  DEF Init, IInv, TypeOK, ExecShape, OutcomeConsistent, RunningIsExecuted

\* A step that moves one execution on, which keeps its job, and no row.
LEMMA MoveStep ==
    ASSUME IInv, NEW x \in Executions, NEW e \in Exec,
           exec' = [exec EXCEPT ![x] = e], UNCHANGED <<job, lost>>,
           exec[x].pc # "idle", e.pc # "idle", e.job = exec[x].job,
           e.pc \in {"steps", "succeeding"} => ~e.flaw,
           e.pc = "succeeding" => e.done = Steps
    PROVE  IInv'
<1> USE DEF IInv, TypeOK
<1>1. /\ exec' \in [Executions -> Exec]
      /\ exec'[x] = e
      /\ \A y \in Executions \ {x}: exec'[y] = exec[y]
  OBVIOUS
<1>2. ExecShape'
  BY <1>1 DEF ExecShape
<1>3. RunningIsExecuted'
  <2>1. \A y \in Executions: exec'[y].job = exec[y].job
    BY <1>1
  <2> QED
    BY <2>1 DEF RunningIsExecuted
<1> QED
  BY <1>1, <1>2, <1>3 DEF OutcomeConsistent

\* No step of an execution or of the owner breaks the invariant.
LEMMA NextInv == IInv /\ [Next]_vars => IInv'
<1> SUFFICES ASSUME IInv, [Next]_vars PROVE IInv'
  OBVIOUS
<1>0. job \in [Jobs -> Row] /\ exec \in [Executions -> Exec] /\ lost \subseteq Jobs
  BY DEF IInv, TypeOK
<1>1. ASSUME NEW x \in Executions, NEW j \in Jobs, NEW reply \in Replies,
             MarkRunning(x, j, reply)
      PROVE  IInv'
  <2> DEFINE r == [job[j] EXCEPT !.status = "Running", !.error = FALSE]
             e == [Idle EXCEPT !.pc = "steps", !.job = j]
  <2>1. r \in Row /\ r.status = "Running"
    BY <1>0
  <2>2. e \in Exec /\ e.pc = "steps" /\ e.job = j /\ ~e.flaw
    BY IdleExec
  <2>3. /\ job' = [job EXCEPT ![j] = r]
        /\ exec[x].pc = "idle"
        /\ \/ exec' = [exec EXCEPT ![x] = e] /\ lost' = lost
           \/ exec' = exec /\ lost' = lost \cup {j}
    <3>1. job' = [job EXCEPT ![j].status = "Running", ![j].error = FALSE]
      BY <1>1 DEF MarkRunning
    <3>2. job' = [job EXCEPT ![j] = r]
      BY <1>0, <3>1
    <3> QED
      BY <1>1, <3>2 DEF MarkRunning
  <2> HIDE DEF r, e
  <2>4. /\ job' \in [Jobs -> Row] /\ job'[j] = r
        /\ \A i \in Jobs \ {j}: job'[i] = job[i]
    BY <1>0, <2>1, <2>3
  <2>5. OutcomeConsistent'
    BY <2>1, <2>4 DEF IInv, OutcomeConsistent
  <2>6. CASE exec' = [exec EXCEPT ![x] = e] /\ lost' = lost
    <3>1. /\ exec' \in [Executions -> Exec] /\ exec'[x] = e
          /\ \A y \in Executions \ {x}: exec'[y] = exec[y]
      BY <1>0, <2>2, <2>6
    <3>2. ExecShape'
      BY <2>2, <3>1, JobAssumption DEF IInv, ExecShape
    <3>3. RunningIsExecuted'
      <4> SUFFICES ASSUME NEW i \in Jobs, job'[i].status = "Running", i \notin lost
                   PROVE  \E y \in Executions: exec'[y].job = i
        BY <2>6 DEF RunningIsExecuted
      <4>1. CASE i = j
        BY <2>2, <3>1, <4>1
      <4>2. CASE i # j
        <5>1. PICK y \in Executions: exec[y].job = i
          BY <2>4, <4>2 DEF IInv, RunningIsExecuted
        <5>2. y # x
          BY <2>3, <5>1, JobAssumption DEF IInv, ExecShape
        <5> QED
          BY <3>1, <5>1, <5>2
      <4> QED
        BY <4>1, <4>2
    <3> QED
      BY <1>0, <2>4, <2>5, <2>6, <3>1, <3>2, <3>3 DEF IInv, TypeOK
  <2>7. CASE exec' = exec /\ lost' = lost \cup {j}
    BY <1>0, <2>4, <2>5, <2>7 DEF IInv, TypeOK, ExecShape, RunningIsExecuted
  <2> QED
    BY <2>3, <2>6, <2>7
<1>2. ASSUME NEW x \in Executions,
             \/ \E success \in BOOLEAN: Step(x, success)
             \/ Interrupt(x)
             \/ StepsDone(x)
      PROVE  IInv'
  <2>1. exec[x] \in Exec /\ exec[x].pc = "steps" /\ ~exec[x].flaw
        /\ UNCHANGED <<job, lost>>
    BY <1>0, <1>2 DEF Step, Interrupt, StepsDone, IInv, ExecShape
  <2>2. \E e \in Exec:
          /\ exec' = [exec EXCEPT ![x] = e]
          /\ e.pc # "idle" /\ e.job = exec[x].job
          /\ e.pc \in {"steps", "succeeding"} => ~e.flaw
          /\ e.pc = "succeeding" => e.done = Steps
    <3>1. CASE Step(x, TRUE)
      <4> DEFINE e == [exec[x] EXCEPT !.done = exec[x].done + 1]
      <4>1. exec[x].done + 1 \in 0..Steps
        BY <2>1, <3>1, JobAssumption DEF Step
      <4>2. e \in Exec /\ e.pc = "steps" /\ e.job = exec[x].job /\ e.flaw = exec[x].flaw
        BY <2>1, <4>1
      <4>3. exec' = [exec EXCEPT ![x] = e]
        BY <1>0, <3>1 DEF Step
      <4> QED
        BY <2>1, <4>2, <4>3
    <3>2. CASE Step(x, FALSE)
      <4> DEFINE e == [exec[x] EXCEPT !.pc = "failing", !.flaw = TRUE]
      <4>1. e \in Exec /\ e.pc = "failing" /\ e.job = exec[x].job
        BY <2>1
      <4>2. exec' = [exec EXCEPT ![x] = e]
        BY <1>0, <3>2 DEF Step
      <4> QED
        BY <4>1, <4>2
    <3>3. CASE Interrupt(x)
      <4> DEFINE e == [exec[x] EXCEPT !.pc = "failing"]
      <4>1. e \in Exec /\ e.pc = "failing" /\ e.job = exec[x].job
        BY <2>1
      <4>2. exec' = [exec EXCEPT ![x] = e]
        BY <1>0, <3>3 DEF Interrupt
      <4> QED
        BY <4>1, <4>2
    <3>4. CASE StepsDone(x)
      <4> DEFINE e == [exec[x] EXCEPT !.pc = "succeeding"]
      <4>1. e \in Exec /\ e.pc = "succeeding" /\ e.job = exec[x].job
            /\ e.flaw = exec[x].flaw /\ e.done = Steps
        BY <2>1, <3>4 DEF StepsDone
      <4>2. exec' = [exec EXCEPT ![x] = e]
        BY <1>0, <3>4 DEF StepsDone
      <4> QED
        BY <2>1, <4>1, <4>2
    <3> QED
      BY <1>2, <3>1, <3>2, <3>3, <3>4
  <2> QED
    BY <2>1, <2>2, MoveStep
<1>3. ASSUME NEW x \in Executions,
             Crash(x) \/ \E reply \in Replies: Complete(x, reply)
      PROVE  IInv'
  <2> DEFINE j == exec[x].job
  <2>1. exec[x] \in Exec /\ exec[x].pc # "idle" /\ j \in Jobs
    BY <1>0, <1>3 DEF Crash, Complete, IInv, ExecShape
  <2>2. /\ exec' = [exec EXCEPT ![x] = Idle]
        /\ \/ lost' = lost \cup {j} /\ job' = job
           \/ lost' = lost /\ job' = job /\ ~Exists(j)
           \/ /\ lost' = lost /\ job' = [job EXCEPT ![j] = Written(x)]
              /\ exec[x].pc \in {"failing", "succeeding"}
    BY <1>3 DEF Crash, Complete
  <2>3. /\ exec' \in [Executions -> Exec] /\ exec'[x] = Idle
        /\ \A y \in Executions \ {x}: exec'[y] = exec[y]
    BY <1>0, <2>2, IdleExec
  <2>4. ExecShape'
    BY <2>3, IdleExec DEF IInv, ExecShape
  <2>5. lost' \subseteq Jobs /\ lost \subseteq lost'
    BY <1>0, <2>1, <2>2
  <2> HIDE DEF j
  <2>6. job' \in [Jobs -> Row] /\ OutcomeConsistent'
    <3>1. CASE job' = job
      BY <1>0, <3>1 DEF IInv, OutcomeConsistent
    <3>2. CASE job' = [job EXCEPT ![j] = Written(x)]
               /\ exec[x].pc \in {"failing", "succeeding"}
      <4>1. /\ Written(x) \in Row
            /\ Written(x).status \in {"Success", "Failed"}
            /\ Written(x).status = "Success" =>
                  Written(x).results = Steps /\ ~Written(x).flaw /\ ~Written(x).error
            /\ Written(x).status = "Failed" => Written(x).error
        BY <3>2, WrittenRow DEF IInv
      <4>2. /\ job' \in [Jobs -> Row] /\ job'[j] = Written(x)
            /\ \A i \in Jobs \ {j}: job'[i] = job[i]
        BY <1>0, <2>1, <3>2, <4>1
      <4> QED
        BY <4>1, <4>2 DEF IInv, OutcomeConsistent
    <3> QED
      BY <2>2, <3>1, <3>2
  <2>7. j \in lost' \/ job'[j].status # "Running"
    <3>1. CASE job' = [job EXCEPT ![j] = Written(x)]
               /\ exec[x].pc \in {"failing", "succeeding"}
      BY <1>0, <2>1, <3>1, WrittenRow DEF IInv
    <3> QED
      BY <2>2, <3>1 DEF Exists
  <2>8. \A i \in Jobs \ {j}: job'[i] = job[i]
    BY <1>0, <2>2
  <2>9. RunningIsExecuted'
    <3> SUFFICES ASSUME NEW i \in Jobs, job'[i].status = "Running", i \notin lost'
                 PROVE  \E y \in Executions: exec'[y].job = i
      BY DEF RunningIsExecuted
    <3>1. i # j
      BY <2>7
    <3>2. PICK y \in Executions: exec[y].job = i
      BY <2>5, <2>8, <3>1 DEF IInv, RunningIsExecuted
    <3> QED
      BY <2>3, <3>1, <3>2 DEF j
  <2> QED
    BY <2>3, <2>4, <2>5, <2>6, <2>9 DEF IInv, TypeOK
<1>4. ASSUME NEW j \in Jobs, CreateJob(j) \/ DeleteJob(j) PROVE IInv'
  <2>1. PICK status \in {"Pending", "deleted"}: job' = [job EXCEPT ![j] = Blank(status)]
    BY <1>4 DEF CreateJob, DeleteJob
  <2>2. exec' = exec /\ lost' = lost
    BY <1>4 DEF CreateJob, DeleteJob
  <2>3. /\ job' \in [Jobs -> Row] /\ job'[j].status = status
        /\ \A i \in Jobs \ {j}: job'[i] = job[i]
    BY <1>0, <2>1, BlankRow
  <2> QED
    BY <1>0, <2>2, <2>3 DEF IInv, TypeOK, ExecShape, OutcomeConsistent, RunningIsExecuted
<1>5. CASE UNCHANGED vars
  BY <1>5 DEF vars, IInv, TypeOK, ExecShape, OutcomeConsistent, RunningIsExecuted
<1> QED
  BY <1>1, <1>2, <1>3, <1>4, <1>5 DEF Next, ExecutionStep

-----------------------------------------------------------------------------
(* The theorems. *)

\* The inductive invariant holds in every reachable state.
THEOREM JobInvariant == Spec => []IInv
  BY InitInv, NextInv, PTL DEF Spec

\* Columns and locals always have their types.
THEOREM JobTypes == Spec => []TypeOK
  BY JobInvariant, PTL DEF IInv

\* Overlapping executions never mix their outcomes in one row.
THEOREM JobOutcomeConsistent == Spec => []OutcomeConsistent
  BY JobInvariant, PTL DEF IInv

\* A job is 'Running' only while an execution is under way or after one could
\* not record its end.
THEOREM JobRunningIsExecuted == Spec => []RunningIsExecuted
  BY JobInvariant, PTL DEF IInv

=============================================================================
