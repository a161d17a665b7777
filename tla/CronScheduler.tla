--------------------------- MODULE CronScheduler ---------------------------
(***************************************************************************)
(* Cron schedules: the rows of public.automation_cron_jobs, the executor   *)
(* loops that claim and dispatch one due occurrence at a time              *)
(* (_cron_executor_loop, one per process), and the owner's create, delete  *)
(* and toggle.  A repository method is one transaction and one action.     *)
(*                                                                         *)
(* next_run_at is "due" or not; the occurrence it stands for is numbered.  *)
(* A dispatch enqueues a queue item or executes the target: what counts    *)
(* here is that it took effect.                                            *)
(***************************************************************************)
EXTENDS Naturals

CONSTANTS Crons,            \* cron_id values
          Workers,          \* processes that run the executor loop
          NoCron,           \* "no schedule"
          MaxOccurrences,   \* bound: occurrences of each schedule
          MaxClaims         \* bound: claims in one behaviour

ASSUME CronAssumption ==
    /\ NoCron \notin Crons
    /\ NoCron \notin Crons \X Nat
    /\ MaxOccurrences \in Nat
    /\ MaxClaims \in Nat

VARIABLES cron,        \* cron[c]: the row
          worker,      \* worker[w]: the executor loop of process w
          nextToken,   \* the next uuid4 (0 is SQL NULL)
          sent,        \* history: dispatches that took effect, by occurrence
          lapses,      \* history: claims that expired, by occurrence
          excused,     \* history: occurrences with an error or a shutdown
          passed,      \* history: occurrences a completion moved on from
          overtaken    \* history: see Tick

vars == <<cron, worker, nextToken, sent, lapses, excused, passed, overtaken>>

Occurrences == 1..MaxOccurrences
Replies == {"ok", "lost", "failed"}

\* occ and claimed are history: the occurrence of next_run_at and the one the
\* claim is for.
Row == [status: {"absent", "deleted", "enabled", "disabled"},
        due: {"no", "yes"},
        token: Nat,                          \* claim_token
        lease: {"null", "live", "expired"},  \* claim_expires_at
        occ: 0..MaxOccurrences,
        claimed: 0..MaxOccurrences]

Worker == [pc: {"off", "idle", "dispatching", "completing"},
           cron: Crons \cup {NoCron},
           token: Nat,
           occ: 0..MaxOccurrences,
           stopping: {"no", "yes"}]

-----------------------------------------------------------------------------

Blank(status) == [status |-> status, due |-> "no", token |-> 0,
                  lease |-> "null", occ |-> 0, claimed |-> 0]

Exists(c) == cron[c].status \in {"enabled", "disabled"}

OffWorker == [pc |-> "off", cron |-> NoCron, token |-> 0, occ |-> 0,
              stopping |-> "no"]

\* Mutant: the claim of another worker is not respected.
ClaimableAnyway(r) == r.status = "enabled" /\ r.due = "yes"

\* Mutant: a claim that expired is never taken over.
ClaimableUnclaimed(r) ==
    r.status = "enabled" /\ r.due = "yes" /\ r.lease = "null"

\* The WHERE clause of claim_due_cron_jobs.
Claimable(r) ==
    /\ r.status = "enabled"
    /\ r.due = "yes"
    /\ r.lease # "live"

\* The claim that worker w renews, matched by its token while it is live.
Held(w) ==
    LET r == cron[worker[w].cron] IN
    r.token = worker[w].token /\ r.lease = "live"

\* Mutant: complete_cron_claim matches the schedule only.
OwnsSchedule(w) == Exists(worker[w].cron)

\* The WHERE clause of complete_cron_claim: the token, expired or not.
Owns(w) == cron[worker[w].cron].token = worker[w].token

\* The UPDATE of complete_cron_claim.
Completed(r) ==
    [r EXCEPT !.due = "no", !.token = 0, !.lease = "null", !.claimed = 0]

-----------------------------------------------------------------------------
(* The owner. *)

CreateCron(c, status) ==
    /\ cron[c].status = "absent"
    /\ cron' = [cron EXCEPT ![c] = Blank(status)]
    /\ UNCHANGED <<worker, nextToken, sent, lapses, excused, passed, overtaken>>

DeleteCron(c) ==
    /\ Exists(c)
    /\ cron' = [cron EXCEPT ![c] = Blank("deleted")]
    /\ UNCHANGED <<worker, nextToken, sent, lapses, excused, passed, overtaken>>

\* Enabling reschedules, whoever is executing the schedule.
ToggleCron(c) ==
    /\ Exists(c)
    /\ cron' = [cron EXCEPT ![c] =
                  IF @.status = "enabled" THEN [@ EXCEPT !.status = "disabled"]
                  ELSE [@ EXCEPT !.status = "enabled", !.due = "no"]]
    /\ UNCHANGED <<worker, nextToken, sent, lapses, excused, passed, overtaken>>

\* next_run_at is reached.  When the schedule was enabled again during a run,
\* the claim of that run is still there: the new occurrence is overtaken by it
\* until it is claimed itself.
Tick(c) ==
    /\ Exists(c)
    /\ cron[c].due = "no"
    /\ cron[c].occ < MaxOccurrences
    /\ cron' = [cron EXCEPT ![c].due = "yes", ![c].occ = @ + 1]
    /\ overtaken' = IF cron[c].claimed # 0
                    THEN overtaken \cup {<<c, cron[c].occ + 1>>} ELSE overtaken
    /\ UNCHANGED <<worker, nextToken, sent, lapses, excused, passed>>

-----------------------------------------------------------------------------
(* _cron_executor_loop. *)

\* claim_due_cron_jobs; a lost reply leaves a claim nobody knows of.
Claim(w, c, reply) ==
    /\ worker[w].pc = "idle"
    /\ Claimable(cron[c])
    /\ reply # "failed"
    /\ nextToken <= MaxClaims
    /\ cron' = [cron EXCEPT ![c] = [@ EXCEPT !.token = nextToken,
                  !.lease = "live", !.claimed = cron[c].occ]]
    /\ nextToken' = nextToken + 1
    /\ worker' = IF reply = "ok"
                 THEN [worker EXCEPT ![w] = [@ EXCEPT !.pc = "dispatching",
                         !.cron = c, !.token = nextToken, !.occ = cron[c].occ]]
                 ELSE worker
    /\ overtaken' = overtaken \ {<<c, cron[c].occ>>}
    /\ UNCHANGED <<sent, lapses, excused, passed>>

Goto(w, pc) == worker' = [worker EXCEPT ![w].pc = pc]

Excuse(w) == excused' = excused \cup {<<worker[w].cron, worker[w].occ>>}

Sent(w) == sent' = [sent EXCEPT ![worker[w].cron][worker[w].occ] = @ + 1]

\* _dispatch_claimed_cron; an error is recorded as last_error.
Dispatch(w, reply) ==
    /\ worker[w].pc = "dispatching"
    /\ IF reply = "failed" THEN UNCHANGED sent ELSE Sent(w)
    /\ IF reply = "ok" THEN UNCHANGED excused ELSE Excuse(w)
    /\ Goto(w, "completing")
    /\ UNCHANGED <<cron, nextToken, lapses, passed, overtaken>>

\* A dispatch that is cancelled may have taken effect or not.
Interrupted(w) == Excuse(w) /\ (Sent(w) \/ UNCHANGED sent)

\* The heartbeat: a refused renewal, or one that raises, cancels the dispatch.
Renew(w, reply) ==
    /\ worker[w].pc = "dispatching"
    /\ ~(reply = "ok" /\ Held(w))
    /\ Interrupted(w)
    /\ Goto(w, "completing")
    /\ UNCHANGED <<cron, nextToken, lapses, passed, overtaken>>

\* The finally block.  When its transaction raises after a cancellation, the
\* cancellation is lost: the loop goes on polling.
Complete(w, reply) ==
    LET c == worker[w].cron
        done == Owns(w) /\ reply # "failed"
    IN
    /\ worker[w].pc = "completing"
    /\ cron' = IF done THEN [cron EXCEPT ![c] = Completed(@)] ELSE cron
    /\ passed' = IF done /\ cron[c].due = "yes"
                 THEN passed \cup {<<c, cron[c].occ>>} ELSE passed
    /\ worker' = [worker EXCEPT ![w] =
                    IF reply = "ok" /\ @.stopping = "yes" THEN OffWorker
                    ELSE [@ EXCEPT !.pc = "idle", !.cron = NoCron,
                                   !.token = 0, !.occ = 0]]
    /\ UNCHANGED <<nextToken, sent, lapses, excused, overtaken>>

\* _start_cron_executor.
Start(w) ==
    /\ worker[w].pc = "off"
    /\ Goto(w, "idle")
    /\ UNCHANGED <<cron, nextToken, sent, lapses, excused, passed, overtaken>>

\* _stop_cron_executor cancels the loop once.  An interrupted dispatch is
\* completed without an error: its occurrence is not run again.
Stop(w) ==
    /\ worker[w].stopping = "no"
    /\ \/ /\ worker[w].pc = "idle"
          /\ worker' = [worker EXCEPT ![w] = OffWorker]
          /\ UNCHANGED <<excused, sent>>
       \/ /\ worker[w].pc = "dispatching"
          /\ worker' = [worker EXCEPT ![w] = [@ EXCEPT !.pc = "completing",
                                                       !.stopping = "yes"]]
          /\ Interrupted(w)
    /\ UNCHANGED <<cron, nextToken, lapses, passed, overtaken>>

Crash(w) ==
    /\ worker[w].pc # "off"
    /\ worker' = [worker EXCEPT ![w] = OffWorker]
    /\ UNCHANGED <<cron, nextToken, sent, lapses, excused, passed, overtaken>>

\* claim_expires_at passes.
ClaimExpires(c) ==
    /\ cron[c].lease = "live"
    /\ cron' = [cron EXCEPT ![c].lease = "expired"]
    /\ lapses' = [lapses EXCEPT ![c][cron[c].claimed] = @ + 1]
    /\ UNCHANGED <<worker, nextToken, sent, excused, passed, overtaken>>

-----------------------------------------------------------------------------

Init ==
    /\ cron = [c \in Crons |-> Blank("absent")]
    /\ worker = [w \in Workers |-> OffWorker]
    /\ nextToken = 1
    /\ sent = [c \in Crons |-> [o \in Occurrences |-> 0]]
    /\ lapses = [c \in Crons |-> [o \in Occurrences |-> 0]]
    /\ excused = {}
    /\ passed = {}
    /\ overtaken = {}

WorkerStep(w) ==
    \/ \E c \in Crons, reply \in Replies: Claim(w, c, reply)
    \/ \E reply \in Replies: Dispatch(w, reply)
    \/ \E reply \in Replies: Renew(w, reply)
    \/ \E reply \in Replies: Complete(w, reply)
    \/ Start(w)
    \/ Stop(w)
    \/ Crash(w)

CronStep(c) ==
    \/ \E status \in {"enabled", "disabled"}: CreateCron(c, status)
    \/ DeleteCron(c)
    \/ ToggleCron(c)
    \/ Tick(c)
    \/ ClaimExpires(c)

Next ==
    \/ \E w \in Workers: WorkerStep(w)
    \/ \E c \in Crons: CronStep(c)

Spec == Init /\ [][Next]_vars

\* Nobody is renewing the claim of schedule c.
Unattended(c) ==
    \A w \in Workers: ~(worker[w].pc = "dispatching" /\ worker[w].cron = c
                        /\ worker[w].token = cron[c].token)

(* A process is started again, its loop polls and goes on from one call to  *)
(* the next, the database answers again and again, and a claim nobody       *)
(* renews expires.                                                          *)
Fairness ==
    /\ \A w \in Workers:
         /\ WF_vars(Start(w))
         /\ \A c \in Crons: SF_vars(Claim(w, c, "ok"))
         /\ WF_vars(\E reply \in Replies: Dispatch(w, reply))
         /\ SF_vars(Complete(w, "ok"))
    /\ \A c \in Crons: WF_vars(ClaimExpires(c) /\ Unattended(c))

FairSpec == Spec /\ Fairness

-----------------------------------------------------------------------------
(* Properties. *)

\* The columns and the loops' locals have their types; claims carry a token.
TypeOK ==
    /\ cron \in [Crons -> Row]
    /\ worker \in [Workers -> Worker]
    /\ nextToken \in Nat
    /\ sent \in [Crons -> [Occurrences -> Nat]]
    /\ lapses \in [Crons -> [Occurrences -> Nat]]
    /\ excused \subseteq Crons \X Occurrences
    /\ passed \subseteq Crons \X Occurrences
    /\ overtaken \subseteq Crons \X Occurrences
    /\ \A c \in Crons: cron[c].token = 0 <=> cron[c].lease = "null"

\* An occurrence is dispatched again only after its claim was lost: two
\* executors, retries and crashes alone never run it twice.
TwiceOnlyAfterLapse ==
    \A c \in Crons, o \in Occurrences: sent[c][o] <= 1 + lapses[c][o]

\* A due occurrence that complete_cron_claim moves on from was dispatched, or
\* its dispatch failed with last_error or was cut off by a shutdown.  One kind
\* is dropped by the completion of another occurrence, and no other: one that
\* fell due during a run, after the owner disabled and enabled the schedule.
PassedWasServed ==
    \A c \in Crons, o \in Occurrences:
        <<c, o>> \in passed =>
            \/ sent[c][o] > 0
            \/ <<c, o>> \in excused
            \/ <<c, o>> \in overtaken

\* A due schedule that stays enabled is served, whatever crashes on the way
\* (as long as the model has a claim left to give).
DueIsServed ==
    \A c \in Crons: cron[c].status = "enabled" /\ cron[c].due = "yes" ~>
        \/ cron[c].status # "enabled"
        \/ cron[c].due = "no"
        \/ nextToken > MaxClaims

-----------------------------------------------------------------------------
(* The claims of the schedules are fenced leases. *)

\* The schedule and token an executor loop has in its memory.
Belief(w) ==
    IF worker[w].cron = NoCron THEN NoCron ELSE <<worker[w].cron, worker[w].token>>

Lease == INSTANCE FencedLease WITH
            Resources <- Crons,
            Owners <- Workers,
            None <- NoCron,
            token <- [c \in Crons |-> cron[c].token],
            lease <- [c \in Crons |-> cron[c].lease],
            gone <- {c \in Crons: cron[c].status = "deleted"},
            belief <- [w \in Workers |-> Belief(w)],
            next <- nextToken

\* claim_due_cron_jobs, renew_cron_claim and complete_cron_claim implement the
\* fenced lease, while the owner toggles and deletes the schedule.
ImplementsLease == Lease!Spec

=============================================================================
