----------------------------- MODULE SavedTask -----------------------------
(***************************************************************************)
(* Saved automation tasks: the rows of public.automation_tasks, the        *)
(* executions that claim them (execute_saved_task), and the owner's review *)
(* of what an execution produced (review_saved_task).  A repository method *)
(* is one transaction and one action; an execution may end at any await,   *)
(* and a reply may be lost after its transaction committed.                *)
(*                                                                         *)
(* One owner's tasks are modelled: every statement is scoped to tenant_id  *)
(* and created_by, so other principals match no row.                       *)
(***************************************************************************)
EXTENDS Naturals

CONSTANTS Tasks,      \* task_id values
          Runners,    \* concurrent calls of execute_saved_task
          Tabs,       \* the owner's open reviews (browser tabs)
          NoTask,     \* "no task"
          MaxRuns     \* bound: how many claims are made in one behaviour

ASSUME TaskAssumption == /\ NoTask \notin Tasks
                         /\ NoTask \notin Tasks \X Nat
                         /\ MaxRuns \in Nat

VARIABLES task,       \* task[t]: the row of task t
          runner,     \* runner[r]: where execution r is, and its claim
          tab,        \* tab[u]: the attempt a review tab is about
          events,     \* outcome_records of the reviews
          reported,   \* attempts whose caller was told they need review
          nextToken   \* the next uuid4 (0 is SQL NULL)

vars == <<task, runner, tab, events, reported, nextToken>>

Statuses == {"absent", "deleted", "Pending", "Running", "ReviewRequired",
             "Success", "Rejected", "Failed", "LegacyUnverified"}
Leases == {"null", "live", "expired"}
Replies == {"ok", "lost", "failed"}
Decisions == {"approve", "reject"}

\* A receipt is "complete" when the review accepts it for approval: machine
\* check passed, nothing truncated, no artifacts outside the reviewer's reach.
Results == {"none", "complete", "partial", "error"}

Row == [status: Statuses, token: Nat, lease: Leases, execution: Nat,
        result: Results, producer: Nat]

Runner == [pc: {"idle", "claiming", "executing", "completing"},
           task: Tasks \cup {NoTask}, token: Nat, result: Results]

Tab == [pc: {"closed", "viewing", "submitting"}, task: Tasks \cup {NoTask},
        execution: Nat, decision: Decisions \cup {"none"}]

Event == [task: Tasks, execution: Nat, decision: Decisions,
          result: Results, producer: Nat]

-----------------------------------------------------------------------------
(* The rows. *)

Blank(status) == [status |-> status, token |-> 0, lease |-> "null",
                  execution |-> 0, result |-> "none", producer |-> 0]

Exists(t) == task[t].status \notin {"absent", "deleted"}

\* Mutant: a result that waits for its review does not block a new run.
ClaimableUnreviewed(r) ==
    \/ r.status \notin {"absent", "deleted", "Running"}
    \/ r.token # 0 /\ r.lease = "expired"

\* The WHERE clause of mark_task_running.
Claimable(r) ==
    \/ r.status \notin {"absent", "deleted", "Running", "ReviewRequired"}
    \/ r.token # 0 /\ r.lease = "expired"

\* Mutant: mark_task_running sets no claim_expires_at.
MarkedWithoutExpiry(token) ==
    [Blank("Running") EXCEPT !.token = token, !.execution = token]

\* mark_task_running: the attempt's token is its execution_id, and receipt and
\* review of the attempt before are wiped.
Marked(token) ==
    [Blank("Running") EXCEPT !.token = token, !.lease = "live",
                             !.execution = token]

\* The status complete_task accepts for a result.
Outcome(result) ==
    IF result \in {"complete", "partial"} THEN "ReviewRequired" ELSE "Failed"

\* complete_task: the outcome and its receipt, the claim cleared.  producer is
\* the receipt's execution_request_id: the execution that wrote it.
Completed(r, result, token) ==
    [r EXCEPT !.status = Outcome(result), !.token = 0, !.lease = "null",
              !.result = result, !.producer = token]

\* Mutant: complete_task trusts any execution of a running task.
HoldsAnyRun(r) ==
    runner[r].task \in Tasks /\ task[runner[r].task].status = "Running"

\* The WHERE clause of renew_task_claim and complete_task.
Holds(r) ==
    LET t == runner[r].task IN
    /\ t \in Tasks
    /\ task[t].status = "Running"
    /\ task[t].token = runner[r].token
    /\ task[t].lease = "live"

\* Mutant: the review is not bound to the attempt it was made for.
ReviewableAnyAttempt(t, execution, decision) ==
    /\ task[t].status = "ReviewRequired"
    /\ task[t].token = 0
    /\ decision = "approve" => task[t].result = "complete"

\* The WHERE clause of review_task, which review_saved_task checks before.
Reviewable(t, execution, decision) ==
    /\ task[t].status = "ReviewRequired"
    /\ task[t].execution = execution
    /\ task[t].token = 0
    /\ decision = "approve" => task[t].result = "complete"

-----------------------------------------------------------------------------
(* Definitions. *)

CreateTask(t) ==
    /\ task[t].status = "absent"
    /\ task' = [task EXCEPT ![t] = Blank("Pending")]
    /\ UNCHANGED <<runner, tab, events, reported, nextToken>>

\* The row goes whatever its status: no execution holds it back.
DeleteTask(t) ==
    /\ Exists(t)
    /\ task' = [task EXCEPT ![t] = Blank("deleted")]
    /\ UNCHANGED <<runner, tab, events, reported, nextToken>>

-----------------------------------------------------------------------------
(* execute_saved_task. *)

IdleRunner == [pc |-> "idle", task |-> NoTask, token |-> 0, result |-> "none"]

Finished(r) == runner' = [runner EXCEPT ![r] = IdleRunner]

\* The execution's first read: a missing task ends it at once.
Execute(r, t) ==
    /\ runner[r].pc = "idle"
    /\ Exists(t)
    /\ runner' = [runner EXCEPT ![r] = [IdleRunner EXCEPT !.pc = "claiming",
                                                          !.task = t]]
    /\ UNCHANGED <<task, tab, events, reported, nextToken>>

\* mark_task_running takes the claim ...
Claim(r, reply) ==
    LET t == runner[r].task IN
    /\ runner[r].pc = "claiming"
    /\ Claimable(task[t])
    /\ reply # "failed"
    /\ nextToken <= MaxRuns
    /\ task' = [task EXCEPT ![t] = Marked(nextToken)]
    /\ IF reply = "ok"
       THEN runner' = [runner EXCEPT ![r] = [@ EXCEPT !.pc = "executing",
                                                      !.token = nextToken]]
       ELSE Finished(r)
    /\ nextToken' = nextToken + 1
    /\ UNCHANGED <<tab, events, reported>>

\* ... or the task is busy, was deleted meanwhile, or the call failed.
ClaimRefused(r) ==
    /\ runner[r].pc = "claiming"
    /\ Finished(r)
    /\ UNCHANGED <<task, tab, events, reported, nextToken>>

\* A refused renewal ends the execution without touching the row; a renewal
\* that raises is an error of the execution, which it will try to record.
Heartbeat(r, reply) ==
    /\ runner[r].pc = "executing"
    /\ \/ reply = "ok" /\ Holds(r) /\ UNCHANGED runner
       \/ reply = "ok" /\ ~Holds(r) /\ Finished(r)
       \/ /\ reply # "ok"
          /\ runner' = [runner EXCEPT ![r] = [@ EXCEPT !.pc = "completing",
                                                       !.result = "error"]]
    /\ UNCHANGED <<task, tab, events, reported, nextToken>>

\* The runtime answers, gates, raises, or is cancelled ("error").
Answer(r, result) ==
    /\ runner[r].pc = "executing"
    /\ result # "none"
    /\ runner' = [runner EXCEPT ![r] = [@ EXCEPT !.pc = "completing",
                                                 !.result = result]]
    /\ UNCHANGED <<task, tab, events, reported, nextToken>>

\* complete_task; only a row that came back is reported as a result.
Complete(r, reply) ==
    LET t == runner[r].task
        accepted == Holds(r) /\ reply # "failed"
    IN
    /\ runner[r].pc = "completing"
    /\ task' = IF accepted
               THEN [task EXCEPT ![t] = Completed(@, runner[r].result,
                                                  runner[r].token)]
               ELSE task
    /\ reported' = IF accepted /\ reply = "ok"
                      /\ Outcome(runner[r].result) = "ReviewRequired"
                   THEN reported \cup {<<t, runner[r].token>>}
                   ELSE reported
    /\ Finished(r)
    /\ UNCHANGED <<tab, events, nextToken>>

\* The process dies, or an exception escapes outside the guarded call.
Crash(r) ==
    /\ runner[r].pc # "idle"
    /\ Finished(r)
    /\ UNCHANGED <<task, tab, events, reported, nextToken>>

\* The claim's lease passes without a renewal.
ClaimExpires(t) ==
    /\ task[t].lease = "live"
    /\ task' = [task EXCEPT ![t].lease = "expired"]
    /\ UNCHANGED <<runner, tab, events, reported, nextToken>>

-----------------------------------------------------------------------------
(* review_saved_task. *)

ClosedTab == [pc |-> "closed", task |-> NoTask, execution |-> 0,
              decision |-> "none"]

\* get_task as the owner sees it: executionId is hidden while Running.
View(u, t) ==
    /\ tab[u].pc # "submitting"
    /\ Exists(t)
    /\ task[t].status # "Running"
    /\ task[t].execution # 0
    /\ tab' = [tab EXCEPT ![u] = [ClosedTab EXCEPT !.pc = "viewing", !.task = t,
                                        !.execution = task[t].execution]]
    /\ UNCHANGED <<task, runner, events, reported, nextToken>>

\* The service reads the row once more and checks the attempt ...
Submit(u, decision) ==
    /\ tab[u].pc = "viewing"
    /\ Reviewable(tab[u].task, tab[u].execution, decision)
    /\ tab' = [tab EXCEPT ![u] = [@ EXCEPT !.pc = "submitting",
                                           !.decision = decision]]
    /\ UNCHANGED <<task, runner, events, reported, nextToken>>

\* ... and review_task checks it again, in the transaction that changes the
\* status and appends the outcome event (whose id is the attempt's).
Review(u, reply) ==
    LET t == tab[u].task
        k == tab[u].execution
        d == tab[u].decision
    IN
    /\ tab[u].pc = "submitting"
    /\ IF /\ Reviewable(t, k, d)
          /\ \A e \in events: e.execution # k
          /\ reply # "failed"
       THEN /\ task' = [task EXCEPT ![t].status =
                            IF d = "approve" THEN "Success" ELSE "Rejected"]
            /\ events' = events \cup
                 {[task |-> t, execution |-> k, decision |-> d,
                   result |-> task[t].result, producer |-> task[t].producer]}
       ELSE UNCHANGED <<task, events>>
    /\ tab' = [tab EXCEPT ![u] = ClosedTab]
    /\ UNCHANGED <<runner, reported, nextToken>>

-----------------------------------------------------------------------------

\* Rows that migrations 28 and 29 found: claimed by nobody, reviewed by nobody.
Init ==
    /\ task \in [Tasks -> {Blank("absent"), Blank("Running"),
                           Blank("LegacyUnverified")}]
    /\ runner = [r \in Runners |-> IdleRunner]
    /\ tab = [u \in Tabs |-> ClosedTab]
    /\ events = {}
    /\ reported = {}
    /\ nextToken = 1

RunnerStep(r) ==
    \/ \E t \in Tasks: Execute(r, t)
    \/ \E reply \in Replies: Claim(r, reply)
    \/ ClaimRefused(r)
    \/ \E reply \in Replies: Heartbeat(r, reply)
    \/ \E result \in Results: Answer(r, result)
    \/ \E reply \in Replies: Complete(r, reply)
    \/ Crash(r)

TabStep(u) ==
    \/ \E t \in Tasks: View(u, t)
    \/ \E decision \in Decisions: Submit(u, decision)
    \/ \E reply \in Replies: Review(u, reply)

TaskStep(t) ==
    \/ CreateTask(t)
    \/ DeleteTask(t)
    \/ ClaimExpires(t)

Next ==
    \/ \E r \in Runners: RunnerStep(r)
    \/ \E u \in Tabs: TabStep(u)
    \/ \E t \in Tasks: TaskStep(t)

Spec == Init /\ [][Next]_vars

\* Nobody is renewing the claim of task t.
Unattended(t) ==
    \A r \in Runners: ~(runner[r].pc = "executing" /\ runner[r].task = t
                        /\ runner[r].token = task[t].token)

(* An execution ends and its process goes on to record it; the lease of a   *)
(* claim nobody renews expires.  Nobody need execute, review or delete.     *)
Fairness ==
    /\ \A r \in Runners:
         /\ WF_vars(\E result \in Results: Answer(r, result))
         /\ WF_vars(\E reply \in Replies: Complete(r, reply))
    /\ \A t \in Tasks: WF_vars(ClaimExpires(t) /\ Unattended(t))

FairSpec == Spec /\ Fairness

-----------------------------------------------------------------------------
(* Properties. *)

\* The columns, locals and outcome events have their types.
TypeOK ==
    /\ task \in [Tasks -> Row]
    /\ runner \in [Runners -> Runner]
    /\ tab \in [Tabs -> Tab]
    /\ events \subseteq Event
    /\ reported \subseteq Tasks \X (1..MaxRuns)
    /\ nextToken \in Nat

\* "Expired owners cannot overwrite newer work": the receipt on the row was
\* written by the very execution the row's execution_id names.
ReceiptOfThisAttempt ==
    \A t \in Tasks: task[t].result # "none" => task[t].producer = task[t].execution

\* The owner decided so on exactly the current attempt of t, of a receipt
\* that attempt wrote itself, and a complete one if it was approved.
Decided(t, decision) ==
    \E e \in events:
        /\ e.task = t
        /\ e.execution = task[t].execution
        /\ e.decision = decision
        /\ e.producer = e.execution
        /\ decision = "approve" => e.result = "complete"

\* "Success requires explicit human verification": a verified or rejected task
\* has the owner's recorded decision on its current attempt, and an attempt
\* that runs or waits for review has none.
VerdictHasEvidence ==
    \A t \in Tasks:
        /\ task[t].status = "Success" => Decided(t, "approve")
        /\ task[t].status = "Rejected" => Decided(t, "reject")
        /\ task[t].status \in {"Running", "ReviewRequired"} =>
              \A e \in events: e.execution # task[t].execution

\* "A scheduled run cannot overwrite the evidence awaiting review": a result
\* its caller was told of stays the task's current attempt, out of reach of
\* every other execution, until the owner has decided on it or deletes the
\* task.
ReportedUntilReviewed ==
    \A t \in Tasks, k \in 1..MaxRuns: <<t, k>> \in reported =>
        \/ task[t].execution = k /\ task[t].status = "ReviewRequired"
        \/ \E e \in events: e.execution = k
        \/ task[t].status = "deleted"

\* "Live legacy Running rows without a claim deliberately remain
\* unclaimable": only deleting them changes them.
LegacyRunUntouched ==
    [][\A t \in Tasks: task[t].status = "Running" /\ task[t].token = 0 =>
          task'[t] = task[t] \/ task'[t].status = "deleted"]_vars

\* A claimed task is never stuck: it is completed or becomes claimable again,
\* also when the execution that claimed it is gone or never learned of it.
ClaimNeverStuck ==
    \A t \in Tasks: task[t].status = "Running" /\ task[t].token # 0 ~>
                       task[t].status # "Running" \/ Claimable(task[t])

-----------------------------------------------------------------------------
(* The claims of the tasks are fenced leases. *)

\* The task and token an execution has in its memory.
Belief(r) ==
    IF runner[r].token = 0 THEN NoTask ELSE <<runner[r].task, runner[r].token>>

Lease == INSTANCE FencedLease WITH
            Resources <- Tasks,
            Owners <- Runners,
            None <- NoTask,
            token <- [t \in Tasks |-> task[t].token],
            lease <- [t \in Tasks |-> task[t].lease],
            gone <- {t \in Tasks: task[t].status = "deleted"},
            belief <- [r \in Runners |-> Belief(r)],
            next <- nextToken

\* mark_task_running, renew_task_claim and complete_task implement the fenced
\* lease; deleting the task is the only way around its token.
ImplementsLease == Lease!Spec

=============================================================================
