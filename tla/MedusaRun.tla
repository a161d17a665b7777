----------------------------- MODULE MedusaRun -----------------------------
(***************************************************************************)
(* Agent Medusa runs: MedusaRunManager registers a coordinator's request   *)
(* in its process-local registry, in the PostgreSQL ledger and in Redis    *)
(* (an ownership claim with a time to live, and a record), beats for it    *)
(* while the agents work, and writes its end back to all three.  Operators *)
(* cancel it through any worker.  One run id is modelled; several calls    *)
(* may carry it (a client repeats request_id), on one or several workers.  *)
(*                                                                         *)
(* A coroutine of a worker is cut at its awaits: each Redis command, Lua   *)
(* script or ledger transaction is one action.  "down" is a call refused   *)
(* because the ping failed (DistributedRunStoreUnavailable), "failed" and  *)
(* "lost" are exceptions without and with the effect.  Task.cancel() takes *)
(* effect at the task's next await: the call awaited there may have landed.*)
(*                                                                         *)
(* The ledger is off, or enabled and required: AgentMedusaRuntimeSettings  *)
(* accepts nothing else.                                                   *)
(***************************************************************************)
EXTENDS Naturals, FiniteSets

CONSTANTS Workers,        \* processes, by worker_id
          Calls,          \* coordinator requests that carry the run id
          Operators,      \* cancellation requests
          NoWorker, NoCall,
          LedgerSettings, \* which values of durable_run_ledger_enabled to check
          Faults          \* which of "down", "failed", "lost", "crash" may happen

ASSUME MedusaAssumption ==
    /\ NoWorker \notin Workers
    /\ NoCall \notin Calls
    /\ LedgerSettings \subseteq BOOLEAN
    /\ Faults \subseteq {"down", "failed", "lost", "crash"}

VARIABLES ledgerOn,  \* durable_run_ledger_enabled and _required
          registry,  \* registry[w]: the call whose ExecutionRun is in w's _runs
          run,       \* run[c]: the call c, its task and its ExecutionRun
          claim,     \* Redis: the value of the claim key
          record,    \* Redis: the run hash
          ledger,    \* PostgreSQL: the agent_medusa_runs row
          op,        \* op[k]: one call of cancel()
          listing,   \* how the last get or list_runs of a bystander ended
          lapsed,    \* history: a claim ended under a call that held it
          worked     \* history: the calls that came to execute

vars == <<ledgerOn, registry, run, claim, record, ledger, op, listing, lapsed,
          worked>>

Ended == {"completed", "failed", "cancelled"}
Live == {"running", "cancelling"}            \* _ACTIVE
Open == {"created", "running", "cancellation_requested"}  \* _ACTIVE_STATUSES

Registering == {"ledger", "claim", "record", "release", "unregister", "running",
                "compensate"}
Ending == {"endledger", "endshared"}

\* cancelled: the task was cancelled and has not noticed yet.
\* beat: the heartbeat task; "asked" is its await of mark_cancelling.
Run == [pc: {"idle", "work", "over"} \cup Registering \cup Ending,
        worker: Workers \cup {NoWorker},
        status: {"none"} \cup Live \cup Ended,
        shared: BOOLEAN, durable: BOOLEAN, cancelled: BOOLEAN,
        beat: {"off", "on", "asked"}]

Record == [status: {"absent"} \cup Live \cup Ended,
           owner: Workers \cup {NoWorker}, asked: BOOLEAN,
           by: Calls \cup {NoCall}]  \* by: history, the call that wrote it

Ledger == [status: {"absent", "orphaned"} \cup Open \cup Ended, owner: Workers \cup {NoWorker}]

Op == [pc: {"idle", "shared", "durable", "remote", "remotedurable",
            "accepted", "refused"},
       worker: Workers \cup {NoWorker}, call: Calls \cup {NoCall}]

NoRecord == [status |-> "absent", owner |-> NoWorker, asked |-> FALSE,
             by |-> NoCall]

Replies(kinds) == {"ok"} \cup (kinds \cap Faults)
Raises(reply) == reply \in {"failed", "lost"}

-----------------------------------------------------------------------------
(* The stores. *)

\* Mutant: ON CONFLICT DO UPDATE.
InsertableAnyway == TRUE

\* INSERT ... ON CONFLICT (run_id) DO NOTHING.
Insertable == ledger.status = "absent"

\* Mutant: SET without NX.
ClaimableAnyway == TRUE

\* SET NX.
Claimable == claim = NoWorker

\* mark_running: the row is its owner's and still 'created'.
Startable(c) == ledger.owner = run[c].worker /\ ledger.status = "created"

\* _MARK_TERMINAL_SCRIPT: claim and record are this worker's.
Owned(w) == claim = w /\ record.owner = w

\* _CANCEL_RUN_SCRIPT.
Cancellable == claim # NoWorker /\ record.owner = claim /\ record.status = "running"
Asked == [record EXCEPT !.status = "cancelling", !.asked = TRUE]

\* mark_cancelling, and when it is refused with DurableRunLedgerConflict.
CancelRefused == ledger.status \notin {"running", "cancellation_requested"}
MarkedCancelling == IF CancelRefused THEN ledger
                    ELSE [ledger EXCEPT !.status = "cancellation_requested"]

\* Mutant: the shared record gets the response's status, not the run's.
EndStatusOfResponse(c) == IF run[c].pc = "compensate" THEN "failed" ELSE "completed"

\* The status written by distributed mark_terminal.
EndStatus(c) == IF run[c].pc = "compensate" THEN "failed" ELSE run[c].status

\* What the call c is waiting for does to the stores if it lands.  The ledger's
\* mark_terminal is not among them: its UPDATE names :outcome_status, which
\* _owned_transition does not pass, so the statement raises.
LedgerAfter(c) ==
    CASE run[c].pc = "ledger" /\ Insertable ->
            [status |-> "created", owner |-> run[c].worker]
      [] run[c].pc = "running" /\ Startable(c) ->
            [ledger EXCEPT !.status = "running"]
      [] OTHER -> ledger

ClaimAfter(c) ==
    CASE run[c].pc = "claim" /\ Claimable -> run[c].worker
      [] run[c].pc = "release" /\ claim = run[c].worker -> NoWorker
      [] run[c].pc \in {"compensate", "endshared"} /\ Owned(run[c].worker) -> NoWorker
      [] OTHER -> claim

RecordAfter(c) ==
    CASE run[c].pc = "record" -> [status |-> "running", owner |-> run[c].worker,
                                  asked |-> FALSE, by |-> c]
      [] run[c].pc \in {"compensate", "endshared"} /\ Owned(run[c].worker) ->
            [record EXCEPT !.status = EndStatus(c)]
      [] OTHER -> record

Effect(c, landed) ==
    /\ ledger' = IF landed THEN LedgerAfter(c) ELSE ledger
    /\ claim' = IF landed THEN ClaimAfter(c) ELSE claim
    /\ record' = IF landed THEN RecordAfter(c) ELSE record

\* The call goes on at pc.
Goes(c, pc) == run' = [run EXCEPT ![c].pc = pc]

\* _runs.pop(run_id) if the entry is still this run's.
Popped(c) == IF registry[run[c].worker] = c
             THEN [registry EXCEPT ![run[c].worker] = NoCall] ELSE registry

-----------------------------------------------------------------------------
(* register() *)

AfterShared(c) == IF run[c].durable THEN "running" ELSE "work"

\* The run enters the local registry, unless a live one is there.
Register(c, w) ==
    /\ run[c].pc = "idle"
    /\ IF registry[w] # NoCall /\ run[registry[w]].status \in Live
       THEN Goes(c, "over") /\ UNCHANGED registry
       ELSE /\ registry' = [registry EXCEPT ![w] = c]
            /\ run' = [run EXCEPT ![c].pc = IF ledgerOn THEN "ledger" ELSE "claim",
                                  ![c].worker = w, ![c].status = "running"]
    /\ UNCHANGED <<ledgerOn, claim, record, ledger, op, listing, lapsed, worked>>

RegisterDurable(c, reply) ==
    /\ run[c].pc = "ledger"
    /\ Effect(c, reply \in {"ok", "lost"})
    /\ IF reply = "ok" /\ Insertable
       THEN /\ run' = [run EXCEPT ![c].pc = "claim", ![c].durable = TRUE]
            /\ UNCHANGED registry
       ELSE Goes(c, "over") /\ registry' = Popped(c)
    /\ UNCHANGED <<ledgerOn, op, listing, lapsed, worked>>

\* Begins to work, or has one more call to make first.
Proceed(c, pc, shared) ==
    /\ run' = [run EXCEPT ![c].pc = pc, ![c].shared = shared,
                          ![c].beat = IF pc = "work" /\ shared THEN "on" ELSE "off"]
    /\ worked' = IF pc = "work" THEN worked \cup {c} ELSE worked

\* The claim key; without Redis the run goes on unshared.
RegisterClaim(c, reply) ==
    /\ run[c].pc = "claim"
    /\ Effect(c, reply \in {"ok", "lost"})
    /\ \/ reply = "down" /\ Proceed(c, AfterShared(c), FALSE)
       \/ reply = "ok" /\ Claimable /\ Goes(c, "record") /\ UNCHANGED worked
       \/ /\ Raises(reply) \/ (reply = "ok" /\ ~Claimable)
          /\ Goes(c, "unregister") /\ UNCHANGED worked
    /\ UNCHANGED <<ledgerOn, registry, op, listing, lapsed>>

\* The record, in one pipeline; on an error the claim is released.
RegisterRecord(c, reply) ==
    /\ run[c].pc = "record"
    /\ Effect(c, reply \in {"ok", "lost"})
    /\ IF reply = "ok" THEN Proceed(c, AfterShared(c), TRUE)
                       ELSE Goes(c, "release") /\ UNCHANGED worked
    /\ UNCHANGED <<ledgerOn, registry, op, listing, lapsed>>

ReleaseClaim(c, reply) ==
    /\ run[c].pc = "release"
    /\ Effect(c, reply \in {"ok", "lost"})
    /\ Goes(c, "unregister")
    /\ UNCHANGED <<ledgerOn, registry, op, listing, lapsed, worked>>

\* The registration failed.  With the ledger, the entry is not removed: the
\* ledger's mark_terminal raises first.
AbandonRegistration(c) ==
    /\ run[c].pc = "unregister"
    /\ registry' = IF run[c].durable THEN registry ELSE Popped(c)
    /\ Goes(c, "over")
    /\ UNCHANGED <<ledgerOn, claim, record, ledger, op, listing, lapsed, worked>>

MarkRunning(c, reply) ==
    /\ run[c].pc = "running"
    /\ Effect(c, reply \in {"ok", "lost"})
    /\ \/ reply = "ok" /\ Startable(c) /\ Proceed(c, "work", run[c].shared)
          /\ UNCHANGED registry
       \/ /\ Raises(reply) \/ ~Startable(c)
          /\ IF run[c].shared
             THEN Goes(c, "compensate") /\ UNCHANGED registry
             ELSE Goes(c, "over") /\ registry' = Popped(c)
          /\ UNCHANGED worked
    /\ UNCHANGED <<ledgerOn, op, listing, lapsed>>

\* The shared record of a run the ledger did not start; errors are swallowed.
Compensate(c, reply) ==
    /\ run[c].pc = "compensate"
    /\ Effect(c, reply \in {"ok", "lost"})
    /\ Goes(c, "over")
    /\ registry' = Popped(c)
    /\ UNCHANGED <<ledgerOn, op, listing, lapsed, worked>>

-----------------------------------------------------------------------------
(* The coordinator's request: work, and mark_cancelled, mark_failed or       *)
(* mark_response.                                                            *)

\* Mutant: a response overrules a cancellation that came first.
EndedAsResponse(c, result) == result

\* _mark_terminal: a run that is being cancelled ends as cancelled.
EndedAs(c, result) == IF run[c].status = "cancelling" THEN "cancelled" ELSE result

\* The agents' work ends, the local run with it and its heartbeat; a ledger
\* call the heartbeat was waiting for may still land.  CancelledError reaches
\* the coordinator, unless the agents' code swallows it.
MarkTerminal(c, result, landed) ==
    /\ run[c].pc = "work"
    /\ result = "cancelled" => run[c].cancelled
    /\ landed => run[c].beat = "asked"
    /\ run' = [run EXCEPT ![c].pc = CASE run[c].durable -> "endledger"
                                      [] run[c].shared /\ ~run[c].durable -> "endshared"
                                      [] OTHER -> "over",
                          ![c].status = EndedAs(c, result),
                          ![c].cancelled = FALSE, ![c].beat = "off"]
    /\ ledger' = IF landed THEN MarkedCancelling ELSE ledger
    /\ UNCHANGED <<ledgerOn, registry, claim, record, op, listing, lapsed, worked>>

\* _safe_mark_durable_terminal raises, and the shared record is left as it is.
EndLedger(c) ==
    /\ run[c].pc = "endledger"
    /\ Goes(c, "over")
    /\ UNCHANGED <<ledgerOn, registry, claim, record, ledger, op, listing, lapsed,
                   worked>>

EndShared(c, reply) ==
    /\ run[c].pc = "endshared"
    /\ Effect(c, reply \in {"ok", "lost"})
    /\ Goes(c, "over")
    /\ UNCHANGED <<ledgerOn, registry, op, listing, lapsed, worked>>

\* get() awaits a ping while it holds the lock: a task cancelled while
\* _mark_terminal waits for it leaves its run, and the heartbeat, as they are.
LockInterrupted(c) ==
    /\ run[c].pc = "work" /\ run[c].cancelled
    /\ run' = [run EXCEPT ![c].pc = "over", ![c].cancelled = FALSE]
    /\ UNCHANGED <<ledgerOn, registry, claim, record, ledger, op, listing, lapsed,
                   worked>>

\* The cancelled task's await raises CancelledError outside the work: register
\* and _mark_terminal catch only Exception, so nothing is undone.
Interrupted(c, landed) ==
    /\ run[c].cancelled
    /\ run[c].pc \in Registering \cup Ending
    /\ Effect(c, landed)
    /\ run' = [run EXCEPT ![c].pc = "over", ![c].cancelled = FALSE]
    /\ UNCHANGED <<ledgerOn, registry, op, listing, lapsed, worked>>

\* The client closes the stream and the request's task is cancelled.
ClientLeaves(c) ==
    /\ run[c].pc \notin {"idle", "over"}
    /\ ~run[c].cancelled
    /\ run' = [run EXCEPT ![c].cancelled = TRUE]
    /\ UNCHANGED <<ledgerOn, registry, claim, record, ledger, op, listing, lapsed,
                   worked>>

\* The task is not done: task.cancel() has an effect.
Active(c) == run[c].pc # "over"

\* Mutant: the request is looked for in running records only, which a request
\* turns into cancelling ones.
CancelSeenIfRunning == record.asked /\ record.status = "running"

\* What heartbeat() returns: an active record with cancel_requested_at.
CancelSeen == record.asked /\ record.status \in Live

\* _heartbeat_loop: renews the claim and looks for a request to cancel.
Heartbeat(c, reply) ==
    LET w == run[c].worker
    IN  /\ run[c].beat = "on"
        /\ Raises(reply) \/ ~Owned(w) \/ CancelSeen
        /\ IF Raises(reply) \/ ~Owned(w)
           THEN /\ run' = [run EXCEPT ![c].beat = "off"]
                /\ claim' = IF claim = w /\ ~Raises(reply) THEN NoWorker ELSE claim
           ELSE /\ run' = [run EXCEPT ![c].status = "cancelling",
                                      ![c].beat = IF run[c].durable THEN "asked"
                                                                    ELSE "off",
                                      ![c].cancelled = @ \/ (~run[c].durable /\ Active(c))]
                /\ UNCHANGED claim
        /\ UNCHANGED <<ledgerOn, registry, record, ledger, op, listing, lapsed, worked>>

\* The heartbeat's mark_cancelling; a conflict ends the loop before the task
\* is cancelled.
HeartbeatLedger(c, reply) ==
    /\ run[c].beat = "asked"
    /\ ledger' = IF reply = "failed" THEN ledger ELSE MarkedCancelling
    /\ run' = [run EXCEPT ![c].beat = "off",
                          ![c].cancelled =
                              @ \/ (Active(c) /\ (Raises(reply) \/ ~CancelRefused))]
    /\ UNCHANGED <<ledgerOn, registry, claim, record, op, listing, lapsed, worked>>

-----------------------------------------------------------------------------
(* cancel() *)

OpGoes(k, pc) == op' = [op EXCEPT ![k].pc = pc]

\* local_task.cancel().
Killed(c) == [run EXCEPT ![c].cancelled = @ \/ Active(c)]

Cancel(k, w) ==
    LET c == registry[w] IN
    /\ op[k].pc = "idle"
    /\ \/ /\ c = NoCall
          /\ op' = [op EXCEPT ![k].pc = "remote", ![k].worker = w]
          /\ UNCHANGED run
       \/ /\ c # NoCall /\ run[c].status # "running"
          /\ OpGoes(k, "refused") /\ UNCHANGED run
       \/ /\ c # NoCall /\ run[c].status = "running"
          /\ op' = [op EXCEPT ![k].worker = w, ![k].call = c,
                              ![k].pc = CASE run[c].shared -> "shared"
                                          [] ~run[c].shared /\ run[c].durable -> "durable"
                                          [] OTHER -> "accepted"]
          /\ run' = [run EXCEPT ![c].status = "cancelling",
                                ![c].cancelled = @ \/ ~(run[c].shared \/ run[c].durable)]
    /\ UNCHANGED <<ledgerOn, registry, claim, record, ledger, listing, lapsed, worked>>

\* The shared request; "down" and a refusal are passed over, any other
\* exception leaves cancel() with the run in 'cancelling'.
CancelShared(k, reply) ==
    LET c == op[k].call IN
    /\ op[k].pc = "shared"
    /\ record' = IF Cancellable /\ reply \in {"ok", "lost"} THEN Asked ELSE record
    /\ IF Raises(reply) \/ (reply = "ok" /\ record.status = "absent")
       THEN OpGoes(k, "refused") /\ UNCHANGED run
       ELSE IF run[c].durable
            THEN OpGoes(k, "durable") /\ UNCHANGED run
            ELSE OpGoes(k, "accepted") /\ run' = Killed(c)
    /\ UNCHANGED <<ledgerOn, registry, claim, ledger, listing, lapsed, worked>>

\* The ledger's transition.  Unavailable: the request is withdrawn.  Conflict
\* is not caught.
CancelDurable(k, reply) ==
    LET c == op[k].call IN
    /\ op[k].pc = "durable"
    /\ ledger' = IF reply = "failed" THEN ledger ELSE MarkedCancelling
    /\ \/ reply = "ok" /\ ~CancelRefused /\ OpGoes(k, "accepted") /\ run' = Killed(c)
       \/ reply = "ok" /\ CancelRefused /\ OpGoes(k, "refused") /\ UNCHANGED run
       \/ /\ Raises(reply)
          /\ OpGoes(k, "refused")
          /\ run' = IF registry[op[k].worker] = c
                    THEN [run EXCEPT ![c].status = "running"] ELSE run
    /\ UNCHANGED <<ledgerOn, registry, claim, record, listing, lapsed, worked>>

CancelRemote(k, reply) ==
    /\ op[k].pc = "remote"
    /\ record' = IF Cancellable /\ reply \in {"ok", "lost"} THEN Asked ELSE record
    /\ OpGoes(k, CASE reply # "ok" \/ ~Cancellable -> "refused"
                   [] reply = "ok" /\ Cancellable /\ ledgerOn -> "remotedurable"
                   [] OTHER -> "accepted")
    /\ UNCHANGED <<ledgerOn, registry, run, claim, ledger, listing, lapsed, worked>>

CancelRemoteDurable(k, reply) ==
    /\ op[k].pc = "remotedurable"
    /\ ledger' = IF reply = "failed" THEN ledger ELSE MarkedCancelling
    /\ OpGoes(k, IF Raises(reply) \/ CancelRefused THEN "refused" ELSE "accepted")
    /\ UNCHANGED <<ledgerOn, registry, run, claim, record, listing, lapsed, worked>>

-----------------------------------------------------------------------------
(* Bystanders, time and crashes. *)

\* RedisDistributedRunStore._snapshot.
SharedStatus ==
    IF record.status = "absent" \/ (record.status \in Live /\ claim # record.owner)
    THEN "orphaned" ELSE record.status

Normalized == IF SharedStatus = "cancelling" THEN "cancellation_requested"
                                             ELSE SharedStatus

\* get and list_runs of a worker that has no entry for the run begin with
\* _reconcile_tenant_from_redis.  A row that needs repair is not repaired:
\* reconcile_from_shared names outcome_status, which is not defined there, and
\* its NameError ends the listing.
ListRuns(w) ==
    /\ ledgerOn /\ ledger.status \in Open
    /\ registry[w] = NoCall
    /\ listing' = IF SharedStatus = "running" \/ Normalized = ledger.status
                  THEN "ok" ELSE "error"
    /\ UNCHANGED <<ledgerOn, registry, run, claim, record, ledger, op, lapsed, worked>>

\* _prune_locked, when enough other runs have ended since.
Prune(w) ==
    /\ registry[w] # NoCall
    /\ run[registry[w]].status \in Ended
    /\ registry' = [registry EXCEPT ![w] = NoCall]
    /\ UNCHANGED <<ledgerOn, run, claim, record, ledger, op, listing, lapsed, worked>>

Holding(c) == /\ run[c].pc \notin {"idle", "over"}
              /\ run[c].shared \/ run[c].pc = "record"

ClaimExpires ==
    /\ claim # NoWorker
    /\ claim' = NoWorker
    /\ lapsed' = (lapsed \/ \E c \in Calls: Holding(c) /\ run[c].worker = claim)
    /\ UNCHANGED <<ledgerOn, registry, run, record, ledger, op, listing, worked>>

\* The retention is at least the claim's time to live.
RecordExpires ==
    /\ claim = NoWorker /\ record # NoRecord
    /\ record' = NoRecord
    /\ UNCHANGED <<ledgerOn, registry, run, claim, ledger, op, listing, lapsed, worked>>

\* A worker process dies; it is started again with the same KAREN_WORKER_ID.
Crash(w) ==
    LET gone == {c \in Calls: run[c].worker = w /\ (Active(c) \/ run[c].beat # "off")} IN
    /\ "crash" \in Faults
    /\ gone # {} \/ registry[w] # NoCall
    /\ registry' = [registry EXCEPT ![w] = NoCall]
    /\ run' = [c \in Calls |-> IF c \in gone
                               THEN [run[c] EXCEPT !.pc = "over", !.beat = "off",
                                                   !.cancelled = FALSE]
                               ELSE run[c]]
    /\ op' = [k \in Operators |-> IF op[k].worker = w /\ op[k].pc # "accepted"
                                  THEN [op[k] EXCEPT !.pc = "refused"] ELSE op[k]]
    /\ UNCHANGED <<ledgerOn, claim, record, ledger, listing, lapsed, worked>>

-----------------------------------------------------------------------------
Init ==
    /\ ledgerOn \in LedgerSettings
    /\ registry = [w \in Workers |-> NoCall]
    /\ run = [c \in Calls |-> [pc |-> "idle", worker |-> NoWorker, status |-> "none",
                               shared |-> FALSE, durable |-> FALSE,
                               cancelled |-> FALSE, beat |-> "off"]]
    /\ claim = NoWorker
    /\ record = NoRecord
    /\ ledger = [status |-> "absent", owner |-> NoWorker]
    /\ op = [k \in Operators |-> [pc |-> "idle", worker |-> NoWorker, call |-> NoCall]]
    /\ listing = "none"
    /\ lapsed = FALSE
    /\ worked = {}

RedisReplies == Replies({"down", "failed", "lost"})
CommandReplies == Replies({"failed", "lost"})

\* What the call's own coroutine does next, apart from the agents' work.
CallStep(c) ==
    \/ \E reply \in CommandReplies: RegisterDurable(c, reply) \/ MarkRunning(c, reply)
    \/ \E reply \in RedisReplies:
          \/ RegisterClaim(c, reply) \/ EndShared(c, reply) \/ Compensate(c, reply)
    \/ \E reply \in CommandReplies: RegisterRecord(c, reply) \/ ReleaseClaim(c, reply)
    \/ AbandonRegistration(c) \/ EndLedger(c)
    \/ \E landed \in BOOLEAN: Interrupted(c, landed)
    \/ LockInterrupted(c)

WorkEnds(c) == \E result \in Ended, landed \in BOOLEAN: MarkTerminal(c, result, landed)

Beat(c) == \E reply \in CommandReplies: Heartbeat(c, reply) \/ HeartbeatLedger(c, reply)

OpStep(k) ==
    \/ \E reply \in RedisReplies: CancelShared(k, reply) \/ CancelRemote(k, reply)
    \/ \E reply \in CommandReplies: CancelDurable(k, reply) \/ CancelRemoteDurable(k, reply)

Next ==
    \/ \E c \in Calls: \/ \E w \in Workers: Register(c, w)
                       \/ CallStep(c) \/ WorkEnds(c) \/ ClientLeaves(c) \/ Beat(c)
    \/ \E k \in Operators: OpStep(k) \/ \E w \in Workers: Cancel(k, w)
    \/ \E w \in Workers: ListRuns(w) \/ Prune(w) \/ Crash(w)
    \/ ClaimExpires
    \/ RecordExpires

Spec == Init /\ [][Next]_vars

\* No heartbeat renews the claim.
Unattended == \A c \in Calls: run[c].beat = "off" \/ run[c].worker # claim

\* Coroutines go on when their awaits return, a cancelled task ends, a heartbeat
\* comes round, and an unattended claim expires.
Fairness ==
    /\ \A c \in Calls: /\ WF_vars(CallStep(c))
                       /\ WF_vars(run[c].cancelled /\ WorkEnds(c))
                       /\ WF_vars(Heartbeat(c, "ok"))
                       /\ WF_vars(\E reply \in CommandReplies: HeartbeatLedger(c, reply))
    /\ WF_vars(Unattended /\ ClaimExpires)

FairSpec == Spec /\ Fairness

-----------------------------------------------------------------------------
(* Properties. *)

\* Registries, Redis keys, ledger row and requests have their types.
TypeOK ==
    /\ ledgerOn \in BOOLEAN
    /\ registry \in [Workers -> Calls \cup {NoCall}]
    /\ run \in [Calls -> Run]
    /\ claim \in Workers \cup {NoWorker}
    /\ record \in Record
    /\ ledger \in Ledger
    /\ op \in [Operators -> Op]
    /\ listing \in {"none", "ok", "error"}
    /\ lapsed \in BOOLEAN
    /\ worked \subseteq Calls

\* A cancellation that was accepted by the worker that runs the task is never
\* overtaken by the task's own response, nor withdrawn by another request.
AcceptedCancelWins ==
    \A k \in Operators:
        op[k].pc = "accepted" /\ op[k].call # NoCall =>
            run[op[k].call].status \in {"cancelling", "cancelled"}

\* Two calls with the run id never execute at the same time under the shared
\* claim, on whatever workers, unless a claim has lapsed under its holder.
SharedRunExclusive ==
    \A c, d \in Calls:
        /\ c # d /\ ~lapsed
        /\ run[c].shared /\ run[c].pc = "work"
        => ~(run[d].shared /\ run[d].pc = "work")

\* A record that tells of an end was ended by a call of the record's own worker
\* that is over.  Without the ledger that call ended with the record's status;
\* with it, the only end ever written is the 'failed' of a call that did not come
\* to execute (the ledger's mark_terminal raises before Redis is told).  As long
\* as no claim lapsed, it is the call that wrote the record; after a lapse it may
\* be another call of that worker.
SharedAgrees ==
    record.status \in Ended =>
        \E c \in Calls:
            /\ run[c].pc = "over" /\ run[c].worker = record.owner
            /\ IF ledgerOn THEN record.status = "failed" /\ c \notin worked
                           ELSE run[c].status = record.status
            /\ lapsed \/ c = record.by

\* With the ledger, a run id is executed once and for all, whatever claims
\* lapse, workers crash and answers are lost.
LedgerRunsOnce == ledgerOn => Cardinality(worked) <= 1

\* "The owning worker observes the request during heartbeat and cancels its
\* actual local task": a shared request to cancel does not stay pending, the
\* run ends or its claim expires.
RemoteCancelResolves ==
    record.status = "cancelling" /\ claim # NoWorker
        ~> record.status # "cancelling" \/ claim = NoWorker

=============================================================================
