-------------------------- MODULE SavedTaskProofs --------------------------
(***************************************************************************)
(* The safety of saved tasks and their review, for any tasks, executions   *)
(* and tabs, and any number of runs.                                       *)
(***************************************************************************)
EXTENDS SavedTask, TLAPS

\* How the columns of a row hang together.
RowShape ==
    \A t \in Tasks:
        /\ task[t].execution < nextToken
        /\ task[t].token # 0 => /\ task[t].status = "Running"
                                /\ task[t].execution = task[t].token
        /\ task[t].lease # "null" => task[t].token # 0
        /\ task[t].status = "ReviewRequired" => /\ task[t].execution # 0
                                                /\ task[t].result # "none"

\* An attempt belongs to one task.
OneTaskPerAttempt ==
    \A s, t \in Tasks: task[s].execution = task[t].execution
                         /\ task[t].execution # 0 => s = t

RunnerShape ==
    \A r \in Runners:
        /\ runner[r].pc # "idle" => runner[r].task \in Tasks
        /\ runner[r].pc \in {"idle", "claiming"} => runner[r].token = 0
        /\ runner[r].pc \in {"executing", "completing"} =>
              runner[r].token \in 1..MaxRuns /\ runner[r].token < nextToken
        /\ runner[r].pc = "completing" => runner[r].result # "none"

TabShape ==
    \A u \in Tabs:
        /\ tab[u].pc # "closed" => tab[u].task \in Tasks /\ tab[u].execution # 0
        /\ tab[u].pc = "submitting" => tab[u].decision \in Decisions

EventShape ==
    \A e \in events: e.execution # 0 /\ e.execution < nextToken

\* The inductive invariant: the three properties of the runs, and the shapes
\* of rows, locals and events they rest on.
IInv ==
    /\ TypeOK
    /\ RowShape
    /\ OneTaskPerAttempt
    /\ RunnerShape
    /\ TabShape
    /\ EventShape
    /\ ReceiptOfThisAttempt
    /\ VerdictHasEvidence
    /\ ReportedUntilReviewed

USE DEF Statuses, Leases, Replies, Decisions, Results, Row, Runner, Tab, Event

-----------------------------------------------------------------------------
(* Lemmas on the row operators. *)

\* A blank row has its status and nothing else.
LEMMA BlankRow ==
    ASSUME NEW status \in Statuses
    PROVE  /\ Blank(status) \in Row
           /\ Blank(status).status = status
           /\ Blank(status).token = 0
           /\ Blank(status).lease = "null"
           /\ Blank(status).execution = 0
           /\ Blank(status).result = "none"
  BY DEF Blank

\* A marked row runs under its token, which is its execution_id, without a
\* receipt.
LEMMA MarkedRow ==
    ASSUME NEW token \in Nat
    PROVE  /\ Marked(token) \in Row
           /\ Marked(token).status = "Running"
           /\ Marked(token).token = token
           /\ Marked(token).execution = token
           /\ Marked(token).result = "none"
<1> DEFINE b == Blank("Running")
<1>1. b \in Row /\ b.status = "Running" /\ b.result = "none"
  BY BlankRow
<1>2. Marked(token) = [b EXCEPT !.token = token, !.lease = "live",
                                !.execution = token]
  BY DEF Marked
<1> HIDE DEF b
<1> QED
  BY <1>1, <1>2

\* A completed row has lost its claim and kept its execution_id.
LEMMA CompletedRow ==
    ASSUME NEW r \in Row, NEW result \in Results \ {"none"}, NEW token \in Nat
    PROVE  /\ Completed(r, result, token) \in Row
           /\ Completed(r, result, token).status = Outcome(result)
           /\ Outcome(result) \in {"ReviewRequired", "Failed"}
           /\ Completed(r, result, token).token = 0
           /\ Completed(r, result, token).lease = "null"
           /\ Completed(r, result, token).execution = r.execution
           /\ Completed(r, result, token).result = result
           /\ Completed(r, result, token).producer = token
<1>1. Outcome(result) \in {"ReviewRequired", "Failed"}
  BY DEF Outcome
<1> HIDE DEF Outcome
<1> QED
  BY <1>1 DEF Completed

\* An execution that has its answer keeps its claim.
LEMMA AnsweredRunner ==
    ASSUME NEW q \in Runner, NEW result \in Results
    PROVE  LET a == [q EXCEPT !.pc = "completing", !.result = result]
           IN  /\ a \in Runner
               /\ a.pc = "completing" /\ a.result = result
               /\ a.task = q.task /\ a.token = q.token
  OBVIOUS

\* An execution that has claimed its task runs under the new token.
LEMMA ClaimedRunner ==
    ASSUME NEW q \in Runner, NEW token \in Nat
    PROVE  LET c == [q EXCEPT !.pc = "executing", !.token = token]
           IN  /\ c \in Runner
               /\ c.pc = "executing" /\ c.task = q.task /\ c.token = token
  OBVIOUS

\* A tab that submits a decision is still about the same attempt.
LEMMA SubmittedTab ==
    ASSUME NEW v \in Tab, NEW decision \in Decisions
    PROVE  LET a == [v EXCEPT !.pc = "submitting", !.decision = decision]
           IN  /\ a \in Tab
               /\ a.pc = "submitting" /\ a.decision = decision
               /\ a.task = v.task /\ a.execution = v.execution
  OBVIOUS

\* An expired row differs in its lease alone.
LEMMA ExpiredRow ==
    ASSUME NEW r \in Row
    PROVE  LET x == [r EXCEPT !.lease = "expired"]
           IN  /\ x \in Row
               /\ x.status = r.status /\ x.token = r.token
               /\ x.execution = r.execution /\ x.result = r.result
               /\ x.producer = r.producer
  OBVIOUS

\* A decided row differs in its status alone.
LEMMA DecidedRow ==
    ASSUME NEW r \in Row, NEW status \in Statuses
    PROVE  LET x == [r EXCEPT !.status = status]
           IN  /\ x \in Row
               /\ x.status = status /\ x.token = r.token
               /\ x.lease = r.lease
               /\ x.execution = r.execution /\ x.result = r.result
               /\ x.producer = r.producer
  OBVIOUS

-----------------------------------------------------------------------------
(* The invariant holds initially and is preserved by every action. *)

\* The rows the migrations leave behind satisfy the invariant.
LEMMA InitInv == Init => IInv
<1> SUFFICES ASSUME Init PROVE IInv
  OBVIOUS
<1>1. \A t \in Tasks: /\ task[t] \in Row
                      /\ task[t].token = 0 /\ task[t].lease = "null"
                      /\ task[t].execution = 0 /\ task[t].result = "none"
                      /\ task[t].status \in {"absent", "Running", "LegacyUnverified"}
  BY BlankRow DEF Init
<1>2. task \in [Tasks -> Row]
  BY <1>1 DEF Init
<1>3. IdleRunner \in Runner /\ IdleRunner.pc = "idle" /\ IdleRunner.token = 0
  BY DEF IdleRunner
<1>4. ClosedTab \in Tab /\ ClosedTab.pc = "closed"
  BY DEF ClosedTab
<1> QED
  BY <1>1, <1>2, <1>3, <1>4
  DEF Init, IInv, TypeOK, RowShape, OneTaskPerAttempt, RunnerShape, TabShape,
      EventShape, ReceiptOfThisAttempt, VerdictHasEvidence, ReportedUntilReviewed

\* The steps that move nothing but an execution.
LEMMA RunnerOnlyInv ==
    ASSUME IInv, NEW r \in Runners,
           \/ \E t \in Tasks: Execute(r, t)
           \/ ClaimRefused(r)
           \/ \E reply \in Replies: Heartbeat(r, reply)
           \/ \E result \in Results: Answer(r, result)
           \/ Crash(r)
    PROVE  IInv'
<1> USE DEF IInv, TypeOK, RunnerShape
<1>1. UNCHANGED <<task, tab, events, reported, nextToken>>
  BY DEF Execute, ClaimRefused, Heartbeat, Answer, Crash
<1>2. IdleRunner \in Runner /\ IdleRunner.pc = "idle" /\ IdleRunner.token = 0
  BY DEF IdleRunner
<1>3. runner' \in [Runners -> Runner] /\ RunnerShape'
  <2>1. CASE \E t \in Tasks: Execute(r, t)
    <3>1. PICK t \in Tasks: Execute(r, t)
      BY <2>1
    <3> DEFINE q == [IdleRunner EXCEPT !.pc = "claiming", !.task = t]
    <3>2. q \in Runner /\ q.pc = "claiming" /\ q.task = t /\ q.token = 0
      BY <1>2
    <3>3. runner' = [runner EXCEPT ![r] = q]
      BY <3>1 DEF Execute
    <3> HIDE DEF q
    <3> QED
      BY <1>1, <3>2, <3>3
  <2>2. CASE Finished(r)
    BY <1>1, <1>2, <2>2 DEF Finished
  <2>3. CASE \E result \in Results \ {"none"}:
                /\ runner[r].pc = "executing"
                /\ runner' = [runner EXCEPT ![r] = [@ EXCEPT !.pc = "completing",
                                                             !.result = result]]
    <3>1. PICK result \in Results \ {"none"}:
                /\ runner[r].pc = "executing"
                /\ runner' = [runner EXCEPT ![r] = [@ EXCEPT !.pc = "completing",
                                                             !.result = result]]
      BY <2>3
    <3> DEFINE q == [runner[r] EXCEPT !.pc = "completing", !.result = result]
    <3>2. /\ q \in Runner
          /\ q.pc = "completing" /\ q.result = result
          /\ q.task = runner[r].task /\ q.token = runner[r].token
      BY ZenonT(60), AnsweredRunner
    <3>3. runner' = [runner EXCEPT ![r] = q]
      BY <3>1
    <3> HIDE DEF q
    <3> QED
      BY <1>1, <3>1, <3>2, <3>3
  <2>4. CASE runner' = runner
    BY <1>1, <2>4
  <2> QED
    BY <2>1, <2>2, <2>3, <2>4 DEF ClaimRefused, Heartbeat, Answer, Crash
<1> QED
  BY <1>1, <1>3
  DEF RowShape, OneTaskPerAttempt, TabShape, EventShape, ReceiptOfThisAttempt,
      VerdictHasEvidence, Decided, ReportedUntilReviewed

\* The steps that move nothing but a tab.
LEMMA TabOnlyInv ==
    ASSUME IInv, NEW u \in Tabs,
           \/ \E t \in Tasks: View(u, t)
           \/ \E decision \in Decisions: Submit(u, decision)
    PROVE  IInv'
<1> USE DEF IInv, TypeOK, TabShape
<1>1. UNCHANGED <<task, runner, events, reported, nextToken>>
  BY DEF View, Submit
<1>2. tab' \in [Tabs -> Tab] /\ TabShape'
  <2>1. CASE \E t \in Tasks: View(u, t)
    <3>1. PICK t \in Tasks: View(u, t)
      BY <2>1
    <3> DEFINE v == [ClosedTab EXCEPT !.pc = "viewing", !.task = t,
                                      !.execution = task[t].execution]
    <3>2. ClosedTab \in Tab
      BY DEF ClosedTab
    <3>3. task[t].execution \in Nat /\ task[t].execution # 0
      BY <3>1 DEF View
    <3>4. /\ v \in Tab /\ v.pc = "viewing" /\ v.task = t
          /\ v.execution # 0
      BY <3>2, <3>3
    <3>5. tab' = [tab EXCEPT ![u] = v]
      BY <3>1 DEF View
    <3> HIDE DEF v
    <3> QED
      BY <1>1, <3>4, <3>5
  <2>2. CASE \E decision \in Decisions: Submit(u, decision)
    <3>1. PICK decision \in Decisions: Submit(u, decision)
      BY <2>2
    <3> DEFINE v == [tab[u] EXCEPT !.pc = "submitting", !.decision = decision]
    <3>2. /\ v \in Tab
          /\ v.pc = "submitting" /\ v.decision = decision
          /\ v.task = tab[u].task /\ v.execution = tab[u].execution
      BY SubmittedTab
    <3>3. tab' = [tab EXCEPT ![u] = v] /\ tab[u].pc = "viewing"
      BY <3>1 DEF Submit
    <3> HIDE DEF v
    <3> QED
      BY <1>1, <3>2, <3>3
  <2> QED
    BY <2>1, <2>2
<1> QED
  BY <1>1, <1>2
  DEF RowShape, OneTaskPerAttempt, RunnerShape, EventShape, ReceiptOfThisAttempt,
      VerdictHasEvidence, Decided, ReportedUntilReviewed

\* Creating, deleting and expiring touch one row, and never give it an
\* attempt, a receipt or a verdict.
LEMMA TaskStepInv ==
    ASSUME IInv, NEW t \in Tasks, TaskStep(t)
    PROVE  IInv'
<1> USE DEF IInv, TypeOK
<1>1. UNCHANGED <<runner, tab, events, reported, nextToken>>
  BY DEF TaskStep, CreateTask, DeleteTask, ClaimExpires
<1>2. CASE CreateTask(t) \/ DeleteTask(t)
  <2>1. PICK status \in {"Pending", "deleted"}:
          /\ task' = [task EXCEPT ![t] = Blank(status)]
          /\ task[t].status = "deleted" => status = "deleted"
          /\ status = "Pending" => task[t].status = "absent"
    BY <1>2 DEF CreateTask, DeleteTask, Exists
  <2>2. /\ task' \in [Tasks -> Row]
        /\ task'[t] = Blank(status)
        /\ \A s \in Tasks \ {t}: task'[s] = task[s]
    BY <2>1, BlankRow
  <2>3. /\ task'[t].status = status
        /\ task'[t].token = 0 /\ task'[t].lease = "null"
        /\ task'[t].execution = 0 /\ task'[t].result = "none"
    BY <2>2, BlankRow
  <2>4. RowShape' /\ OneTaskPerAttempt' /\ ReceiptOfThisAttempt'
    BY <1>1, <2>2, <2>3 DEF RowShape, OneTaskPerAttempt, ReceiptOfThisAttempt
  <2>5. VerdictHasEvidence'
    BY <1>1, <2>2, <2>3 DEF VerdictHasEvidence, Decided
  <2>6. ReportedUntilReviewed'
    BY <1>1, <2>1, <2>2, <2>3 DEF ReportedUntilReviewed
  <2> QED
    BY <1>1, <2>2, <2>4, <2>5, <2>6 DEF RunnerShape, TabShape, EventShape
<1>3. CASE ClaimExpires(t)
  <2> DEFINE x == [task[t] EXCEPT !.lease = "expired"]
  <2>1. /\ x \in Row
        /\ x.status = task[t].status /\ x.token = task[t].token
        /\ x.execution = task[t].execution /\ x.result = task[t].result
        /\ x.producer = task[t].producer
    BY ExpiredRow
  <2>2. task[t].lease = "live" /\ task' = [task EXCEPT ![t] = x]
    BY <1>3 DEF ClaimExpires
  <2> HIDE DEF x
  <2>3. /\ task' \in [Tasks -> Row]
        /\ task'[t] = x
        /\ \A s \in Tasks \ {t}: task'[s] = task[s]
    BY <2>1, <2>2
  <2>4. RowShape' /\ OneTaskPerAttempt' /\ ReceiptOfThisAttempt'
    BY <1>1, <2>1, <2>2, <2>3 DEF RowShape, OneTaskPerAttempt, ReceiptOfThisAttempt
  <2>5. VerdictHasEvidence'
    BY <1>1, <2>1, <2>3 DEF VerdictHasEvidence, Decided
  <2>6. ReportedUntilReviewed'
    BY <1>1, <2>1, <2>3, SMTT(90) DEF ReportedUntilReviewed
  <2> QED
    BY <1>1, <2>3, <2>4, <2>5, <2>6 DEF RunnerShape, TabShape, EventShape
<1> QED
  BY <1>2, <1>3 DEF TaskStep

\* A claim starts a new attempt: its id is fresh, so no event and no other
\* row can have it, and the row it takes was not waiting for a review.
LEMMA ClaimInv ==
    ASSUME IInv, NEW r \in Runners, NEW reply \in Replies, Claim(r, reply)
    PROVE  IInv'
<1> USE DEF IInv, TypeOK
<1> DEFINE t == runner[r].task
<1>1. /\ t \in Tasks /\ Claimable(task[t])
      /\ nextToken \in Nat /\ nextToken <= MaxRuns
      /\ nextToken' = nextToken + 1
      /\ task' = [task EXCEPT ![t] = Marked(nextToken)]
      /\ UNCHANGED <<tab, events, reported>>
  BY DEF Claim, RunnerShape
<1>2. nextToken # 0
  BY <1>1 DEF RowShape
<1>3. task[t].status \notin {"ReviewRequired", "deleted"}
  BY <1>1 DEF Claimable, RowShape
<1>4. runner' \in [Runners -> Runner] /\ RunnerShape'
  <2>1. CASE Finished(r)
    <3>1. IdleRunner \in Runner /\ IdleRunner.pc = "idle" /\ IdleRunner.token = 0
      BY DEF IdleRunner
    <3> QED
      BY <1>1, <2>1, <3>1 DEF Finished, RunnerShape
  <2>2. CASE runner' = [runner EXCEPT ![r] = [@ EXCEPT !.pc = "executing",
                                                      !.token = nextToken]]
    <3> DEFINE q == [runner[r] EXCEPT !.pc = "executing", !.token = nextToken]
    <3>1. /\ q \in Runner
          /\ q.pc = "executing" /\ q.task = t /\ q.token = nextToken
      BY <1>1, ClaimedRunner
    <3>2. runner' = [runner EXCEPT ![r] = q]
      BY <2>2
    <3> HIDE DEF q
    <3> QED
      BY <1>1, <1>2, <3>1, <3>2, TaskAssumption DEF RunnerShape
  <2> QED
    BY <2>1, <2>2 DEF Claim
<1>5. /\ task' \in [Tasks -> Row]
      /\ task'[t] = Marked(nextToken)
      /\ \A s \in Tasks \ {t}: task'[s] = task[s]
  BY <1>1, MarkedRow
<1>6. /\ task'[t].status = "Running"
      /\ task'[t].token = nextToken /\ task'[t].execution = nextToken
      /\ task'[t].result = "none"
  BY <1>1, <1>5, MarkedRow
<1> HIDE DEF t
<1>7. RowShape' /\ OneTaskPerAttempt' /\ ReceiptOfThisAttempt'
  BY <1>1, <1>2, <1>5, <1>6 DEF RowShape, OneTaskPerAttempt, ReceiptOfThisAttempt
<1>8. EventShape' /\ TabShape'
  BY <1>1 DEF EventShape, TabShape
<1>9. VerdictHasEvidence'
  BY <1>1, <1>5, <1>6 DEF VerdictHasEvidence, Decided, EventShape
<1>10. ReportedUntilReviewed'
  BY <1>1, <1>3, <1>5, <1>6 DEF ReportedUntilReviewed
<1> QED
  BY <1>1, <1>4, <1>5, <1>7, <1>8, <1>9, <1>10

\* complete_task writes the receipt of the row's own attempt, because the
\* token it compares is the execution_id.
LEMMA CompleteInv ==
    ASSUME IInv, NEW r \in Runners, NEW reply \in Replies, Complete(r, reply)
    PROVE  IInv'
<1> USE DEF IInv, TypeOK
<1> DEFINE t == runner[r].task
           k == runner[r].token
           result == runner[r].result
<1>1. /\ t \in Tasks /\ k \in 1..MaxRuns /\ k < nextToken
      /\ result \in Results \ {"none"}
  BY DEF Complete, RunnerShape
<1>2. UNCHANGED <<tab, events, nextToken>> /\ Finished(r)
  BY DEF Complete
<1>3. runner' \in [Runners -> Runner] /\ RunnerShape'
  <2>1. IdleRunner \in Runner /\ IdleRunner.pc = "idle" /\ IdleRunner.token = 0
    BY DEF IdleRunner
  <2> QED
    BY <1>2, <2>1 DEF Finished, RunnerShape
<1>4. CASE task' = task /\ reported' = reported
  BY <1>2, <1>3, <1>4
  DEF RowShape, OneTaskPerAttempt, TabShape, EventShape, ReceiptOfThisAttempt,
      VerdictHasEvidence, Decided, ReportedUntilReviewed
<1>5. CASE /\ Holds(r)
           /\ task' = [task EXCEPT ![t] = Completed(task[t], result, k)]
           /\ \/ reported' = reported
              \/ /\ Outcome(result) = "ReviewRequired"
                 /\ reported' = reported \cup {<<t, k>>}
  <2>1. /\ task[t].status = "Running" /\ task[t].execution = k
        /\ task[t].token = k
    BY <1>1, <1>5 DEF Holds, RowShape
  <2>2. /\ task' \in [Tasks -> Row]
        /\ task'[t] = Completed(task[t], result, k)
        /\ \A s \in Tasks \ {t}: task'[s] = task[s]
    <3>1. Completed(task[t], result, k) \in Row
      BY ZenonT(60), <1>1, CompletedRow
    <3> HIDE DEF t, k, result
    <3> QED
      BY <1>1, <1>5, <3>1
  <2>3. /\ task'[t].status = Outcome(result)
        /\ Outcome(result) \in {"ReviewRequired", "Failed"}
        /\ task'[t].token = 0 /\ task'[t].lease = "null"
        /\ task'[t].execution = k
        /\ task'[t].result = result /\ task'[t].producer = k
    <3>1. task[t] \in Row /\ k \in Nat
      BY <1>1
    <3> HIDE DEF t, k, result
    <3> QED
      BY <1>1, <2>1, <2>2, <3>1, CompletedRow
  <2>4. reported' \subseteq Tasks \X (1..MaxRuns)
    <3> HIDE DEF t, k, result
    <3> QED
      BY <1>1, <1>5
  <2> HIDE DEF t, k, result
  <2>5. /\ RowShape'
        /\ OneTaskPerAttempt'
        /\ ReceiptOfThisAttempt'
    <3>1. RowShape'
      BY <1>1, <1>2, <2>2, <2>3 DEF RowShape
    <3>2. OneTaskPerAttempt'
      BY <1>1, <2>1, <2>2, <2>3 DEF OneTaskPerAttempt
    <3>3. ReceiptOfThisAttempt'
      BY <2>2, <2>3 DEF ReceiptOfThisAttempt
    <3> QED
      BY <3>1, <3>2, <3>3
  <2>6. VerdictHasEvidence'
    BY <1>1, <1>2, <2>1, <2>2, <2>3 DEF VerdictHasEvidence, Decided
  <2>7. ReportedUntilReviewed'
    <3> SUFFICES ASSUME NEW s \in Tasks, NEW j \in 1..MaxRuns,
                        <<s, j>> \in reported'
                 PROVE  (\/ task[s].execution = j /\ task[s].status = "ReviewRequired"
                         \/ \E e \in events: e.execution = j
                         \/ task[s].status = "deleted")'
      BY DEF ReportedUntilReviewed
    <3>1. CASE <<s, j>> \in reported
      BY <1>2, <2>1, <2>2, <2>3, <3>1 DEF ReportedUntilReviewed
    <3>2. CASE s = t /\ j = k /\ Outcome(result) = "ReviewRequired"
      BY <2>3, <3>2
    <3> QED
      BY <1>5, <3>1, <3>2
  <2> QED
    BY <1>1, <1>2, <1>3, <2>2, <2>4, <2>5, <2>6, <2>7 DEF TabShape, EventShape
<1> QED
  BY <1>4, <1>5 DEF Complete

\* A review decides the current attempt of one task and records just that.
LEMMA ReviewInv ==
    ASSUME IInv, NEW u \in Tabs, NEW reply \in Replies, Review(u, reply)
    PROVE  IInv'
<1> USE DEF IInv, TypeOK
<1> DEFINE t == tab[u].task
           k == tab[u].execution
           d == tab[u].decision
           verdict == IF d = "approve" THEN "Success" ELSE "Rejected"
           e0 == [task |-> t, execution |-> k, decision |-> d,
                  result |-> task[t].result, producer |-> task[t].producer]
           x == [task[t] EXCEPT !.status = verdict]
<1>1. t \in Tasks /\ k \in Nat \ {0} /\ d \in Decisions
  BY DEF Review, TabShape
<1>2. UNCHANGED <<runner, reported, nextToken>>
  BY DEF Review
<1>3. tab' \in [Tabs -> Tab] /\ TabShape'
  <2>1. ClosedTab \in Tab /\ ClosedTab.pc = "closed"
    BY DEF ClosedTab
  <2>2. tab' = [tab EXCEPT ![u] = ClosedTab]
    BY DEF Review
  <2> QED
    BY <2>1, <2>2 DEF TabShape
<1>4. CASE task' = task /\ events' = events
  BY <1>2, <1>3, <1>4
  DEF RowShape, OneTaskPerAttempt, RunnerShape, EventShape, ReceiptOfThisAttempt,
      VerdictHasEvidence, Decided, ReportedUntilReviewed
<1>5. CASE /\ Reviewable(t, k, d)
           /\ task' = [task EXCEPT ![t] = x]
           /\ events' = events \cup {e0}
  <2>1. /\ task[t] \in Row
        /\ task[t].status = "ReviewRequired" /\ task[t].execution = k
        /\ d = "approve" => task[t].result = "complete"
    BY <1>1, <1>5 DEF Reviewable
  <2>2. task[t].producer = k /\ k < nextToken
    BY <1>1, <2>1 DEF RowShape, ReceiptOfThisAttempt
  <2>3. verdict \in Statuses
    OBVIOUS
  <2>4. /\ x \in Row
        /\ x.status = verdict /\ x.token = task[t].token
        /\ x.lease = task[t].lease
        /\ x.execution = k /\ x.result = task[t].result
        /\ x.producer = k
    <3> HIDE DEF t, k, d, verdict
    <3> HIDE DEF IInv, TypeOK
    <3>1. /\ x \in Row
          /\ x.status = verdict /\ x.token = task[t].token
          /\ x.lease = task[t].lease
          /\ x.execution = task[t].execution /\ x.result = task[t].result
          /\ x.producer = task[t].producer
      BY <2>1, <2>3, DecidedRow, SMTT(30)
    <3> HIDE DEF x
    <3> QED
      BY <2>1, <2>2, <3>1
  <2>5. /\ e0 \in Event
        /\ e0.task = t /\ e0.execution = k /\ e0.decision = d
        /\ e0.producer = k
        /\ d = "approve" => e0.result = "complete"
    BY <1>1, <2>1, <2>2
  <2>6. \/ verdict = "Success" /\ d = "approve"
        \/ verdict = "Rejected" /\ d = "reject"
    BY <1>1
  <2> HIDE DEF t, k, d, verdict, e0, x
  <2>7. /\ task' \in [Tasks -> Row]
        /\ task'[t] = x
        /\ \A s \in Tasks \ {t}: task'[s] = task[s]
    BY <1>1, <1>5, <2>4
  <2>8. events' \subseteq Event /\ EventShape'
    BY <1>1, <1>2, <1>5, <2>2, <2>5 DEF EventShape
  <2>9. RowShape'
    BY <1>2, <2>1, <2>4, <2>6, <2>7 DEF RowShape
  <2>10. OneTaskPerAttempt'
    BY <1>1, <2>1, <2>4, <2>7 DEF OneTaskPerAttempt
  <2>11. ReceiptOfThisAttempt'
    BY <2>4, <2>7 DEF ReceiptOfThisAttempt
  <2>12. VerdictHasEvidence'
    <3> SUFFICES ASSUME NEW s \in Tasks
                 PROVE  (/\ task[s].status = "Success" => Decided(s, "approve")
                         /\ task[s].status = "Rejected" => Decided(s, "reject")
                         /\ task[s].status \in {"Running", "ReviewRequired"} =>
                               \A e \in events: e.execution # task[s].execution)'
      BY DEF VerdictHasEvidence
    <3>1. CASE s = t
      <4>1. e0 \in events' /\ task'[s].execution = k /\ task'[s].status = verdict
        BY <1>5, <2>4, <2>7, <3>1
      <4> QED
        BY <2>5, <2>6, <3>1, <4>1 DEF Decided
    <3>2. CASE s # t
      <4>1. task'[s] = task[s] /\ task[s].execution # k
        BY <1>1, <2>1, <2>7, <3>2 DEF OneTaskPerAttempt
      <4> QED
        BY <1>5, <2>5, <4>1 DEF VerdictHasEvidence, Decided
    <3> QED
      BY <3>1, <3>2
  <2>13. ReportedUntilReviewed'
    BY <1>1, <1>2, <1>5, <2>1, <2>4, <2>5, <2>7 DEF ReportedUntilReviewed
  <2> QED
    BY <1>2, <1>3, <2>7, <2>8, <2>9, <2>10, <2>11, <2>12, <2>13 DEF RunnerShape
<1> QED
  BY <1>4, <1>5 DEF Review

\* No step of an execution, of a tab, of the owner or of time breaks the
\* invariant.
LEMMA NextInv == IInv /\ [Next]_vars => IInv'
<1> SUFFICES ASSUME IInv, [Next]_vars PROVE IInv'
  OBVIOUS
<1>1. ASSUME NEW r \in Runners, RunnerStep(r) PROVE IInv'
  BY <1>1, RunnerOnlyInv, ClaimInv, CompleteInv DEF RunnerStep
<1>2. ASSUME NEW u \in Tabs, TabStep(u) PROVE IInv'
  BY <1>2, TabOnlyInv, ReviewInv DEF TabStep
<1>3. ASSUME NEW t \in Tasks, TaskStep(t) PROVE IInv'
  BY <1>3, TaskStepInv
<1>4. CASE UNCHANGED vars
  BY <1>4 DEF vars, IInv, TypeOK, RowShape, OneTaskPerAttempt, RunnerShape,
              TabShape, EventShape, ReceiptOfThisAttempt, VerdictHasEvidence,
              Decided, ReportedUntilReviewed
<1> QED
  BY <1>1, <1>2, <1>3, <1>4 DEF Next

-----------------------------------------------------------------------------
(* The theorems. *)

\* The inductive invariant holds in every reachable state.
THEOREM TaskInvariant == Spec => []IInv
  BY InitInv, NextInv, PTL DEF Spec

\* Rows, locals and outcome events always have their types.
THEOREM TaskTypes == Spec => []TypeOK
  BY TaskInvariant, PTL DEF IInv

\* The receipt on a row is always the work of the attempt the row names.
THEOREM TaskReceipts == Spec => []ReceiptOfThisAttempt
  BY TaskInvariant, PTL DEF IInv

\* Success and Rejected always rest on the owner's recorded decision about the
\* current attempt, and no attempt under way or under review has one.
THEOREM TaskVerdicts == Spec => []VerdictHasEvidence
  BY TaskInvariant, PTL DEF IInv

\* A reported result is never displaced before it was reviewed.
THEOREM TaskReportedResults == Spec => []ReportedUntilReviewed
  BY TaskInvariant, PTL DEF IInv

\* A Running row that no claim protects is changed by nothing but its deletion.
THEOREM TaskLegacyRuns == Spec => LegacyRunUntouched
<1> DEFINE Untouched(t) ==
      task[t].status = "Running" /\ task[t].token = 0 =>
         task'[t] = task[t] \/ task'[t].status = "deleted"
<1>1. IInv /\ [Next]_vars => [\A t \in Tasks: Untouched(t)]_vars
  <2> SUFFICES ASSUME IInv, Next, NEW t \in Tasks PROVE Untouched(t)
    OBVIOUS
  <2>1. task \in [Tasks -> Row]
    BY DEF IInv, TypeOK
  <2>2. ASSUME NEW r \in Runners, NEW reply \in Replies, Claim(r, reply)
        PROVE  Untouched(t)
    BY <2>1, <2>2 DEF Claim, Claimable
  <2>3. ASSUME NEW r \in Runners, NEW reply \in Replies, Complete(r, reply)
        PROVE  Untouched(t)
    <3>1. runner[r].token # 0
      BY <2>3 DEF IInv, RunnerShape, Complete
    <3> QED
      BY <2>1, <2>3, <3>1 DEF Complete, Holds
  <2>4. ASSUME NEW r \in Runners, RunnerStep(r) PROVE Untouched(t)
    BY <2>2, <2>3, <2>4
    DEF RunnerStep, Execute, ClaimRefused, Heartbeat, Answer, Crash
  <2>5. ASSUME NEW u \in Tabs, TabStep(u) PROVE Untouched(t)
    BY <2>1, <2>5 DEF TabStep, View, Submit, Review, Reviewable
  <2>6. ASSUME NEW s \in Tasks, TaskStep(s) PROVE Untouched(t)
    <3>1. CASE CreateTask(s) \/ DeleteTask(s)
      BY <2>1, <3>1, BlankRow DEF CreateTask, DeleteTask
    <3>2. CASE ClaimExpires(s)
      BY <2>1, <3>2 DEF ClaimExpires, IInv, RowShape
    <3> QED
      BY <2>6, <3>1, <3>2 DEF TaskStep
  <2> QED
    BY <2>4, <2>5, <2>6 DEF Next
<1> QED
  BY <1>1, TaskInvariant, PTL DEF Spec, LegacyRunUntouched

-----------------------------------------------------------------------------
(* The refinement of the fenced lease. *)

\* An execution that ends forgets its claim.
LEMMA FinishedBelief ==
    ASSUME runner \in [Runners -> Runner], NEW r \in Runners, Finished(r)
    PROVE  [q \in Runners |-> Belief(q)]'
              = [[q \in Runners |-> Belief(q)] EXCEPT ![r] = NoTask]
<1>1. Belief(r)' = NoTask
  BY DEF Finished, IdleRunner, Belief
<1>2. \A q \in Runners \ {r}: Belief(q)' = Belief(q)
  BY DEF Finished, Belief
<1> QED
  BY <1>1, <1>2

\* Every step of the tasks is a step of the lease or leaves its state alone.
LEMMA TaskLeaseStep == IInv /\ [Next]_vars => [Lease!Next]_(Lease!vars)
<1> SUFFICES ASSUME IInv, [Next]_vars PROVE Lease!Next \/ UNCHANGED Lease!vars
  OBVIOUS
<1> DEFINE belief == [q \in Runners |-> Belief(q)]
<1>0. task \in [Tasks -> Row] /\ runner \in [Runners -> Runner] /\ nextToken \in Nat
  BY DEF IInv, TypeOK
<1>1. ASSUME NEW r \in Runners, NEW t \in Tasks, Execute(r, t)
      PROVE  UNCHANGED Lease!vars
  <2>1. runner[r].token = 0 /\ task' = task /\ nextToken' = nextToken
    BY <1>1 DEF Execute, IInv, RunnerShape
  <2>2. /\ runner'[r].token = 0
        /\ \A q \in Runners \ {r}: runner'[q] = runner[q]
    BY <1>0, <1>1 DEF Execute, IdleRunner
  <2>3. belief' = belief
    BY <2>1, <2>2 DEF Belief
  <2> QED
    BY <2>1, <2>3 DEF Lease!vars
<1>2. ASSUME NEW r \in Runners, NEW reply \in Replies, Claim(r, reply)
      PROVE  \E t \in Tasks: Lease!Acquire(r, t, {})
  <2> DEFINE t == runner[r].task
  <2>1. /\ t \in Tasks /\ runner[r].token = 0
        /\ Claimable(task[t])
        /\ task' = [task EXCEPT ![t] = Marked(nextToken)]
        /\ nextToken' = nextToken + 1
    BY <1>2 DEF Claim, IInv, RunnerShape
  <2>2. nextToken # 0
    BY <1>0, <2>1 DEF IInv, RowShape
  <2>3. task[t].lease # "live" /\ task[t].status # "deleted"
    BY <2>1 DEF Claimable, IInv, RowShape
  <2>4. /\ task'[t] = Marked(nextToken)
        /\ \A s \in Tasks \ {t}: task'[s] = task[s]
    BY <1>0, <2>1
  <2>5. Marked(nextToken).token = nextToken /\ Marked(nextToken).lease = "live"
        /\ Marked(nextToken).status = "Running"
    BY DEF Marked, Blank
  <2>6. belief' \in {belief, [belief EXCEPT ![r] = <<t, nextToken>>]}
    <3>1. CASE Finished(r)
      <4>1. Belief(r) = NoTask
        BY <2>1 DEF Belief
      <4> QED
        BY <1>0, <3>1, <4>1, FinishedBelief
    <3>2. CASE runner' = [runner EXCEPT ![r] = [@ EXCEPT !.pc = "executing",
                                                        !.token = nextToken]]
      <4> DEFINE c == [runner[r] EXCEPT !.pc = "executing", !.token = nextToken]
      <4>0. c.task = t /\ c.token = nextToken
        BY <1>0, ClaimedRunner
      <4>1. runner'[r].token = nextToken /\ runner'[r].task = t
        BY <1>0, <3>2, <4>0
      <4>2. \A q \in Runners \ {r}: runner'[q] = runner[q]
        BY <1>0, <3>2
      <4>3. Belief(r)' = <<t, nextToken>>
        BY <2>2, <4>1 DEF Belief
      <4>4. \A q \in Runners \ {r}: Belief(q)' = Belief(q)
        BY <4>2 DEF Belief
      <4> QED
        BY <4>3, <4>4
    <3> QED
      BY <1>2, <3>1, <3>2 DEF Claim
  <2> HIDE DEF t
  <2>7. Lease!Acquire(r, t, {})
    BY <1>0, <2>1, <2>3, <2>4, <2>5, <2>6 DEF Lease!Acquire
  <2> QED
    BY <2>1, <2>7 DEF Lease!Acquire
<1>3. ASSUME NEW r \in Runners, ClaimRefused(r) \/ Crash(r)
      PROVE  Lease!Forget(r)
  BY <1>0, <1>3, FinishedBelief DEF ClaimRefused, Crash, Lease!Forget
<1>4. ASSUME NEW r \in Runners,
             \/ \E reply \in Replies: Heartbeat(r, reply)
             \/ \E result \in Results: Answer(r, result)
      PROVE  Lease!Forget(r) \/ UNCHANGED Lease!vars
  <2>1. task' = task /\ nextToken' = nextToken
    BY <1>4 DEF Heartbeat, Answer
  <2>2. \/ Finished(r)
        \/ \A q \in Runners: runner'[q].task = runner[q].task
                             /\ runner'[q].token = runner[q].token
    <3>1. \/ Finished(r)
          \/ runner' = runner
          \/ \E result \in Results:
                runner' = [runner EXCEPT ![r] = [@ EXCEPT !.pc = "completing",
                                                          !.result = result]]
      BY <1>4 DEF Heartbeat, Answer
    <3>2. ASSUME NEW result \in Results,
                 runner' = [runner EXCEPT ![r] = [@ EXCEPT !.pc = "completing",
                                                           !.result = result]]
          PROVE  \A q \in Runners: runner'[q].task = runner[q].task
                                   /\ runner'[q].token = runner[q].token
      <4> DEFINE a == [runner[r] EXCEPT !.pc = "completing", !.result = result]
      <4>1. a.task = runner[r].task /\ a.token = runner[r].token
        BY ZenonT(60), <1>0, AnsweredRunner
      <4>2. runner' = [runner EXCEPT ![r] = a]
        BY <3>2
      <4> HIDE DEF a
      <4> QED
        BY <1>0, <4>1, <4>2
    <3> QED
      BY <3>1, <3>2
  <2>3. CASE Finished(r)
    BY <1>0, <2>1, <2>3, FinishedBelief DEF Lease!Forget
  <2>4. CASE \A q \in Runners: runner'[q].task = runner[q].task
                               /\ runner'[q].token = runner[q].token
    BY <2>1, <2>4 DEF Lease!vars, Belief
  <2> QED
    BY <2>2, <2>3, <2>4
<1>5. ASSUME NEW r \in Runners, NEW reply \in Replies, Complete(r, reply)
      PROVE  Lease!Release(r) \/ Lease!Forget(r)
  <2> DEFINE t == runner[r].task
             k == runner[r].token
             result == runner[r].result
  <2>1. /\ t \in Tasks /\ k \in Nat \ {0}
        /\ result \in Results \ {"none"}
        /\ Finished(r) /\ nextToken' = nextToken
    BY <1>0, <1>5 DEF Complete, IInv, RunnerShape
  <2>2. belief' = [belief EXCEPT ![r] = NoTask]
    BY <1>0, <2>1, FinishedBelief
  <2>3. CASE task' = task
    BY <2>1, <2>2, <2>3 DEF Lease!Forget
  <2>4. CASE Holds(r) /\ task' = [task EXCEPT ![t] = Completed(task[t], result, k)]
    <3>1. task[t].token = k /\ task[t].status = "Running"
      BY <2>4 DEF Holds
    <3>2. belief[r] = <<t, k>> /\ belief[r] # NoTask
      BY <2>1, TaskAssumption DEF Belief
    <3>3. Lease!Valid(r)
      BY <2>1, <3>1, <3>2 DEF Lease!Valid
    <3>4. /\ Completed(task[t], result, k).token = 0
          /\ Completed(task[t], result, k).lease = "null"
          /\ Completed(task[t], result, k).status # "deleted"
      <4>1. task[t] \in Row /\ k \in Nat
        BY <1>0, <2>1
      <4> HIDE DEF t, k, result
      <4>2. result \in Results \ {"none"}
        BY <2>1
      <4>3. /\ Completed(task[t], result, k).token = 0
            /\ Completed(task[t], result, k).lease = "null"
            /\ Completed(task[t], result, k).status = Outcome(result)
            /\ Outcome(result) \in {"ReviewRequired", "Failed"}
        BY <4>1, <4>2, CompletedRow
      <4> QED
        BY <4>3
    <3> HIDE DEF t, k, result
    <3>5. /\ [s \in Tasks |-> task[s].token]'
               = [[s \in Tasks |-> task[s].token] EXCEPT ![t] = 0]
          /\ [s \in Tasks |-> task[s].lease]'
               = [[s \in Tasks |-> task[s].lease] EXCEPT ![t] = "null"]
          /\ {s \in Tasks: task[s].status = "deleted"}'
               = {s \in Tasks: task[s].status = "deleted"}
      BY <1>0, <2>1, <2>4, <3>1, <3>4
    <3>6. belief[r][1] = t
      BY <3>2
    <3> QED
      BY <2>1, <2>2, <3>3, <3>5, <3>6 DEF Lease!Release
  <2> QED
    BY <1>5, <2>3, <2>4 DEF Complete
<1>6. ASSUME NEW u \in Tabs, TabStep(u) PROVE UNCHANGED Lease!vars
  <2>1. runner' = runner /\ nextToken' = nextToken
    BY <1>6 DEF TabStep, View, Submit, Review
  <2>2. belief' = belief
    BY <2>1 DEF Belief
  <2>3. \A s \in Tasks: /\ task'[s].token = task[s].token
                        /\ task'[s].lease = task[s].lease
                        /\ task'[s].status = "deleted" <=> task[s].status = "deleted"
    <3>1. CASE task' = task
      BY <3>1
    <3>2. ASSUME NEW s \in Tasks, NEW status \in {"Success", "Rejected"},
                 task' = [task EXCEPT ![s].status = status],
                 task[s].status = "ReviewRequired"
          PROVE  \A q \in Tasks:
                    /\ task'[q].token = task[q].token
                    /\ task'[q].lease = task[q].lease
                    /\ task'[q].status = "deleted" <=> task[q].status = "deleted"
      <4>1. \A q \in Tasks \ {s}: task'[q] = task[q]
        BY <1>0, <3>2
      <4>2. /\ task'[s].token = task[s].token
            /\ task'[s].lease = task[s].lease
            /\ task'[s].status = status
        BY <1>0, <3>2
      <4> QED
        BY <3>2, <4>1, <4>2
    <3>3. ASSUME NEW reply \in Replies, Review(u, reply)
          PROVE  \/ task' = task
                 \/ \E s \in Tasks, status \in {"Success", "Rejected"}:
                      /\ task' = [task EXCEPT ![s].status = status]
                      /\ task[s].status = "ReviewRequired"
      BY <3>3 DEF Review, Reviewable, IInv, TabShape
    <3> QED
      BY <1>6, <3>1, <3>2, <3>3 DEF TabStep, View, Submit
  <2> QED
    BY <2>1, <2>2, <2>3 DEF Lease!vars
<1>7. ASSUME NEW t \in Tasks, TaskStep(t)
      PROVE  Lease!Lapse(t) \/ Lease!Withdraw(t) \/ UNCHANGED Lease!vars
  <2>1. runner' = runner /\ nextToken' = nextToken
    BY <1>7 DEF TaskStep, CreateTask, DeleteTask, ClaimExpires
  <2>2. belief' = belief
    BY <2>1 DEF Belief
  <2>3. CASE CreateTask(t)
    <3>1. \A s \in Tasks: /\ task'[s].token = task[s].token
                          /\ task'[s].lease = task[s].lease
                          /\ task'[s].status = "deleted" <=> task[s].status = "deleted"
      BY <1>0, <2>3, BlankRow DEF CreateTask, IInv, RowShape
    <3> QED
      BY <2>1, <2>2, <3>1 DEF Lease!vars
  <2>4. CASE DeleteTask(t)
    <3>1. /\ task'[t].token = 0 /\ task'[t].lease = "null"
          /\ task'[t].status = "deleted"
          /\ \A s \in Tasks \ {t}: task'[s] = task[s]
      BY <1>0, <2>4, BlankRow DEF DeleteTask
    <3> QED
      BY <2>1, <2>2, <3>1 DEF Lease!Withdraw
  <2>5. CASE ClaimExpires(t)
    BY ZenonT(60), <1>0, <2>1, <2>2, <2>5 DEF ClaimExpires, Lease!Lapse
  <2> QED
    BY <1>7, <2>3, <2>4, <2>5 DEF TaskStep
<1>8. CASE UNCHANGED vars
  BY <1>8 DEF vars, Lease!vars, Belief
<1>9. {} \in SUBSET Lease!Expired
  OBVIOUS
<1>10. ASSUME NEW r \in Runners, NEW reply \in Replies, Claim(r, reply)
       PROVE  \E o \in Runners, t \in Tasks, swept \in SUBSET Lease!Expired:
                 Lease!Acquire(o, t, swept)
  BY <1>2, <1>9, <1>10
<1> QED
  BY <1>1, <1>3, <1>4, <1>5, <1>6, <1>7, <1>8, <1>10 DEF Next, RunnerStep, Lease!Next

\* The claims of saved tasks are fenced leases, for any tasks, executions and
\* number of runs, and whatever the owner creates, reviews and deletes.
THEOREM TaskImplementsLease == Spec => ImplementsLease
<1>1. Init => Lease!Init
  <2> SUFFICES ASSUME Init PROVE Lease!Init
    OBVIOUS
  <2>1. /\ task \in [Tasks -> {Blank("absent"), Blank("Running"),
                               Blank("LegacyUnverified")}]
        /\ \A r \in Runners: Belief(r) = NoTask
        /\ nextToken = 1
    BY DEF Init, Belief, IdleRunner
  <2>2. \A t \in Tasks: /\ task[t].token = 0 /\ task[t].lease = "null"
                        /\ task[t].status # "deleted"
    BY <2>1, BlankRow
  <2> QED
    BY <2>1, <2>2 DEF Lease!Init
<1> QED
  BY <1>1, TaskInvariant, TaskLeaseStep, PTL DEF Spec, ImplementsLease, Lease!Spec

=============================================================================
