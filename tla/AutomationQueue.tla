-------------------------- MODULE AutomationQueue --------------------------
(***************************************************************************)
(* The durable automation queue: the rows of public.automation_queue_items *)
(* as PostgresQueueClient changes them, and the worker loops that claim,   *)
(* execute and settle the items.  A repository method is one PostgreSQL    *)
(* transaction and one action.  A worker may stop between any two of its   *)
(* calls, and the reply to a call may be lost although its transaction     *)
(* committed.                                                              *)
(*                                                                         *)
(* Only comparisons of claim_expires_at and available_at with the database *)
(* clock matter to the code, so a claim's lease is "live" or "expired" and *)
(* a row is available "now" or "later"; ClaimExpires and BecomeAvailable   *)
(* are time passing.                                                       *)
(***************************************************************************)
EXTENDS Naturals

CONSTANTS Items,        \* item_id values; an id is enqueued at most once
          Workers,      \* processes running _queue_worker_loop
          NoItem,       \* "this worker holds no item"
          MaxAttempts   \* QueueItem.max_attempts

ASSUME QueueAssumption == /\ MaxAttempts \in Nat \ {0}
                          /\ NoItem \notin Items
                          /\ NoItem \notin Items \X Nat

VARIABLES row,        \* row[i]: the table row of item i
          worker,     \* worker[w]: where w's loop is, and the claim it holds
          nextToken,  \* the next claim_token uuid4 returns (0 is SQL NULL)
          executed    \* the items whose operation has returned successfully

vars == <<row, worker, nextToken, executed>>

Statuses == {"absent", "pending", "processing", "completed", "dead_letter"}
Leases == {"null", "live", "expired"}
Replies == {"ok", "lost", "failed"}

Row == [status: Statuses, attempts: 0..MaxAttempts, token: Nat,
        lease: Leases, available: {"now", "later"}]

Worker == [pc: {"polling", "executing", "acking", "nacking", "stopped"},
           item: Items \cup {NoItem}, token: Nat]

-----------------------------------------------------------------------------
(* The rows. *)

Absent == [status |-> "absent", attempts |-> 0, token |-> 0,
           lease |-> "null", available |-> "now"]

\* The claim columns become NULL and the row leaves 'processing'.
Released(r, status) ==
    [r EXCEPT !.status = status, !.token = 0, !.lease = "null"]

Lapsed(r) == r.status = "processing" /\ r.lease = "expired"

\* Mutant: the sweep forgets to compare attempts with max_attempts.
SweptEarly(rows) ==
    [i \in Items |-> IF Lapsed(rows[i])
                     THEN Released(rows[i], "dead_letter") ELSE rows[i]]

\* dequeue's first UPDATE: abandoned rows that have spent their attempts.
Swept(rows) ==
    [i \in Items |-> IF Lapsed(rows[i]) /\ rows[i].attempts >= MaxAttempts
                     THEN Released(rows[i], "dead_letter") ELSE rows[i]]

\* Mutant: only pending rows are offered, abandoned claims are not.
CandidatePendingOnly(r) ==
    r.status = "pending" /\ r.available = "now" /\ r.attempts < MaxAttempts

\* The WHERE clause of dequeue's candidate.
Candidate(r) ==
    /\ r.status = "pending" \/ Lapsed(r)
    /\ r.available = "now"
    /\ r.attempts < MaxAttempts

Claimed(r, token) ==
    [r EXCEPT !.status = "processing", !.attempts = @ + 1,
              !.token = token, !.lease = "live"]

\* nack: another attempt after _RETRY_DELAY_SECONDS, or the dead letters.
Nacked(r) ==
    IF r.attempts >= MaxAttempts
    THEN Released(r, "dead_letter")
    ELSE [Released(r, "pending") EXCEPT !.available = "later"]

\* Mutant: ack and nack match the row by item_id alone.
OwnsByItemId(w) == worker[w].item \in Items

\* The WHERE clause of ack and nack: the expiry is not looked at.
Owns(w) ==
    LET i == worker[w].item IN
    /\ i \in Items
    /\ row[i].status = "processing"
    /\ row[i].token = worker[w].token

-----------------------------------------------------------------------------
(* The operations. *)

Idle(pc) == [pc |-> pc, item |-> NoItem, token |-> 0]

Goto(w, pc) == worker' = [worker EXCEPT ![w].pc = pc]

Enqueue(i, available) ==
    /\ row[i].status = "absent"
    /\ row' = [row EXCEPT ![i] = [Absent EXCEPT !.status = "pending",
                                                !.available = available]]
    /\ UNCHANGED <<worker, nextToken, executed>>

\* The claim commits; if its reply is lost the worker polls on without it.
\* SKIP LOCKED passes over rows that other transactions hold, so any
\* candidate may be the one that is claimed.
Dequeue(w, i, reply) ==
    /\ worker[w].pc = "polling"
    /\ Candidate(Swept(row)[i])
    /\ reply \in {"ok", "lost"}
    /\ row' = [Swept(row) EXCEPT ![i] = Claimed(@, nextToken)]
    /\ worker' = IF reply = "lost" THEN worker
                 ELSE [worker EXCEPT ![w] = [pc |-> "executing", item |-> i,
                                             token |-> nextToken]]
    /\ nextToken' = nextToken + 1
    /\ UNCHANGED executed

\* A poll that claims nothing (none free, or all locked) still sweeps.
DequeueEmpty(w) ==
    /\ worker[w].pc = "polling"
    /\ row' = Swept(row)
    /\ UNCHANGED <<worker, nextToken, executed>>

\* Mutant: losing the claim cancels the operation but raises nothing.
HeartbeatSwallowsLoss(w, reply) ==
    /\ worker[w].pc = "executing"
    /\ IF Owns(w) /\ row[worker[w].item].lease = "live" /\ reply = "ok"
       THEN UNCHANGED worker
       ELSE Goto(w, "acking")
    /\ UNCHANGED <<row, nextToken, executed>>

\* run_with_queue_claim_heartbeat: a renewal that is refused, or that gets no
\* answer, cancels the operation; QueueClaimLost then leads to nack.
Heartbeat(w, reply) ==
    /\ worker[w].pc = "executing"
    /\ IF Owns(w) /\ row[worker[w].item].lease = "live" /\ reply = "ok"
       THEN UNCHANGED worker
       ELSE Goto(w, "nacking")
    /\ UNCHANGED <<row, nextToken, executed>>

\* _execute_claimed_queue_item returns ...
Succeed(w) ==
    /\ worker[w].pc = "executing"
    /\ executed' = executed \cup {worker[w].item}
    /\ Goto(w, "acking")
    /\ UNCHANGED <<row, nextToken>>

\* ... or raises (tenant mismatch, principal unavailable, task busy, ...).
Fail(w) ==
    /\ worker[w].pc = "executing"
    /\ Goto(w, "nacking")
    /\ UNCHANGED <<row, nextToken, executed>>

Ack(w, reply) ==
    /\ worker[w].pc = "acking"
    /\ row' = IF Owns(w) /\ reply # "failed"
              THEN [row EXCEPT ![worker[w].item] = Released(@, "completed")]
              ELSE row
    /\ IF Owns(w) /\ reply = "ok"
       THEN worker' = [worker EXCEPT ![w] = Idle("polling")]
       ELSE Goto(w, "nacking")
    /\ UNCHANGED <<nextToken, executed>>

\* The result of nack is only logged: the loop goes on whatever it was.
Nack(w, reply) ==
    /\ worker[w].pc = "nacking"
    /\ row' = IF Owns(w) /\ reply # "failed"
              THEN [row EXCEPT ![worker[w].item] = Nacked(@)]
              ELSE row
    /\ worker' = [worker EXCEPT ![w] = Idle("polling")]
    /\ UNCHANGED <<nextToken, executed>>

\* Shutdown (CancelledError re-raised from any await) or process death: the
\* item stays 'processing' until its lease expires.
Stop(w) ==
    /\ worker[w].pc # "stopped"
    /\ worker' = [worker EXCEPT ![w] = Idle("stopped")]
    /\ UNCHANGED <<row, nextToken, executed>>

Start(w) ==
    /\ worker[w].pc = "stopped"
    /\ worker' = [worker EXCEPT ![w] = Idle("polling")]
    /\ UNCHANGED <<row, nextToken, executed>>

\* _QUEUE_LEASE_SECONDS pass without a renewal.
ClaimExpires(i) ==
    /\ row[i].lease = "live"
    /\ row' = [row EXCEPT ![i].lease = "expired"]
    /\ UNCHANGED <<worker, nextToken, executed>>

\* available_at is reached.
BecomeAvailable(i) ==
    /\ row[i].status = "pending"
    /\ row[i].available = "later"
    /\ row' = [row EXCEPT ![i].available = "now"]
    /\ UNCHANGED <<worker, nextToken, executed>>

-----------------------------------------------------------------------------

Init ==
    /\ row = [i \in Items |-> Absent]
    /\ worker = [w \in Workers |-> Idle("stopped")]
    /\ nextToken = 1
    /\ executed = {}

WorkerStep(w) ==
    \/ Start(w)
    \/ Stop(w)
    \/ DequeueEmpty(w)
    \/ \E i \in Items, reply \in Replies: Dequeue(w, i, reply)
    \/ \E reply \in Replies: Heartbeat(w, reply)
    \/ Succeed(w)
    \/ Fail(w)
    \/ \E reply \in Replies: Ack(w, reply)
    \/ \E reply \in Replies: Nack(w, reply)

ItemStep(i) ==
    \/ \E available \in {"now", "later"}: Enqueue(i, available)
    \/ ClaimExpires(i)
    \/ BecomeAvailable(i)

Next ==
    \/ \E w \in Workers: WorkerStep(w)
    \/ \E i \in Items: ItemStep(i)

Spec == Init /\ [][Next]_vars

\* Nobody is renewing the claim of item i.
Unattended(i) ==
    \A w \in Workers: ~(worker[w].pc = "executing" /\ worker[w].item = i
                        /\ worker[w].token = row[i].token)

(* What the code's scheduling gives.  Workers are restarted and poll again;  *)
(* a poll that keeps finding a candidate, or something to sweep, is answered *)
(* in the end (strong fairness: stops and lost replies may come in between); *)
(* an operation ends, and its worker goes on; time passes, so the lease of a *)
(* claim nobody renews expires and a retry delay ends.  No item need ever be *)
(* enqueued, no call need ever succeed at the first try.                     *)
Fairness ==
    /\ \A w \in Workers:
         /\ WF_vars(Start(w))
         /\ SF_vars(\E i \in Items: Dequeue(w, i, "ok"))
         /\ SF_vars(DequeueEmpty(w))
         /\ WF_vars(Succeed(w) \/ Fail(w))
         /\ WF_vars(\E reply \in Replies: Ack(w, reply))
         /\ WF_vars(\E reply \in Replies: Nack(w, reply))
    /\ \A i \in Items:
         /\ WF_vars(ClaimExpires(i) /\ Unattended(i))
         /\ WF_vars(BecomeAvailable(i))

FairSpec == Spec /\ Fairness

-----------------------------------------------------------------------------
(* Properties. *)

\* The columns and the worker's locals have their types.
TypeOK ==
    /\ row \in [Items -> Row]
    /\ worker \in [Workers -> Worker]
    /\ nextToken \in Nat
    /\ executed \subseteq Items

\* The claim columns agree with the status: exactly the 'processing' rows
\* have a token and a lease, and no token is one that is still to be issued.
ClaimColumns ==
    \A i \in Items:
        /\ row[i].status = "processing" <=> row[i].token # 0
        /\ row[i].status = "processing" <=> row[i].lease # "null"
        /\ row[i].token < nextToken

\* "Complete an item only when the caller still owns its claim": however the
\* leases expire and the items are claimed again, one item never has two
\* workers whose ack or nack would be accepted.
OneOwner ==
    \A v, w \in Workers:
        Owns(v) /\ Owns(w) /\ worker[v].item = worker[w].item => v = w

\* ack is reached only through an operation that returned: a completed item
\* was executed, also when its first executions were cut off or lost their
\* claim.
CompletedWasExecuted ==
    \A i \in Items: row[i].status = "completed" => i \in executed

\* No item is given up before all its attempts were claimed, and none gets
\* more: an abandoned claim (crash, lost reply) counts like a failed one.
DeadLetterSpentAttempts ==
    \A i \in Items: row[i].status = "dead_letter" => row[i].attempts = MaxAttempts

\* A live claim is ended by the worker that holds it and nobody else: no
\* other worker's dequeue, ack or nack, and no sweep, touches the row.
LiveClaimUndisturbed ==
    [][\A i \in Items:
          row[i].lease = "live" /\ row'[i].token # row[i].token =>
             \E w \in Workers: /\ Owns(w)
                               /\ worker[w].item = i
                               /\ worker[w].pc \in {"acking", "nacking"}
                               /\ worker'[w] # worker[w]]_vars

\* A completed or dead-lettered row never changes again: a late ack or nack
\* of an earlier claim does not bring the item back.
SettledIsFinal ==
    [][\A i \in Items: row[i].status \in {"completed", "dead_letter"} =>
                          row'[i] = row[i]]_vars

\* Every enqueued item is settled in the end, whatever stops, crashes, lost
\* replies and expired leases come in between.
EveryItemSettles ==
    \A i \in Items:
        row[i].status = "pending" ~> row[i].status \in {"completed", "dead_letter"}

-----------------------------------------------------------------------------
(* The queue's claims are fenced leases. *)

\* The item and token a worker has in its memory.
Belief(w) ==
    IF worker[w].item = NoItem THEN NoItem ELSE <<worker[w].item, worker[w].token>>

Lease == INSTANCE FencedLease WITH
            Resources <- Items,
            Owners <- Workers,
            None <- NoItem,
            token <- [i \in Items |-> row[i].token],
            lease <- [i \in Items |-> row[i].lease],
            gone <- {},
            belief <- [w \in Workers |-> Belief(w)],
            next <- nextToken

\* dequeue, renew_claim, ack and nack implement the fenced lease: grants under
\* fresh tokens, settled by nobody but the last grantee, whatever is lost.
ImplementsLease == Lease!Spec

=============================================================================
