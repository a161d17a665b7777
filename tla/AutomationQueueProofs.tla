----------------------- MODULE AutomationQueueProofs -----------------------
(***************************************************************************)
(* The safety of the automation queue, for any items, any workers and any  *)
(* attempt budget; then of its composition with the saved tasks, and of    *)
(* the fenced leases that the claims on items, tasks and schedules are.    *)
(***************************************************************************)
EXTENDS AutomationPipeline, TLAPS

Busy(w) == worker[w].pc \in {"executing", "acking", "nacking"}

\* What a busy worker holds was issued to it alone; an idle one holds nothing.
WorkerClaims ==
    /\ \A w \in Workers: Busy(w) => /\ worker[w].item \in Items
                                    /\ worker[w].token # 0
                                    /\ worker[w].token < nextToken
    /\ \A w \in Workers: ~Busy(w) => worker[w].item = NoItem
    /\ \A v, w \in Workers:
         Busy(v) /\ Busy(w) /\ worker[v].token = worker[w].token => v = w

AckedWasExecuted ==
    \A w \in Workers: worker[w].pc = "acking" => worker[w].item \in executed

\* The inductive invariant.  OneOwner follows from WorkerClaims (a token has
\* one holder), CompletedWasExecuted needs AckedWasExecuted, and the action
\* properties need ClaimColumns (only 'processing' rows carry a lease).
IInv ==
    /\ TypeOK
    /\ ClaimColumns
    /\ WorkerClaims
    /\ AckedWasExecuted
    /\ CompletedWasExecuted
    /\ DeadLetterSpentAttempts

USE DEF Statuses, Leases, Replies, Row, Worker

-----------------------------------------------------------------------------
(* Lemmas on the operators of the rows and of the workers. *)

\* Releasing a row clears its claim and keeps the rest.
LEMMA ReleasedRow ==
    ASSUME NEW r \in Row, NEW status \in Statuses
    PROVE  /\ Released(r, status) \in Row
           /\ Released(r, status).status = status
           /\ Released(r, status).token = 0
           /\ Released(r, status).lease = "null"
           /\ Released(r, status).attempts = r.attempts
           /\ Released(r, status).available = r.available
  BY DEF Released

\* The sweep keeps the types of the rows, and dead-letters only lapsed rows
\* whose attempts are spent.
LEMMA SweptRow ==
    ASSUME NEW rows \in [Items -> Row]
    PROVE  /\ Swept(rows) \in [Items -> Row]
           /\ \A i \in Items:
                \/ Swept(rows)[i] = rows[i]
                \/ /\ rows[i].status = "processing"
                   /\ rows[i].lease = "expired"
                   /\ Swept(rows)[i].status = "dead_letter"
                   /\ Swept(rows)[i].token = 0
                   /\ Swept(rows)[i].lease = "null"
                   /\ Swept(rows)[i].attempts = MaxAttempts
<1>1. ASSUME NEW i \in Items, Lapsed(rows[i]), rows[i].attempts >= MaxAttempts
      PROVE rows[i].attempts = MaxAttempts
  BY <1>1, QueueAssumption
<1>2. \A i \in Items: Released(rows[i], "dead_letter") \in Row
  BY ReleasedRow
<1>3. Swept(rows) \in [Items -> Row]
  BY <1>2 DEF Swept
<1>4. ASSUME NEW i \in Items
      PROVE \/ Swept(rows)[i] = rows[i]
            \/ /\ Lapsed(rows[i]) /\ rows[i].attempts >= MaxAttempts
               /\ Swept(rows)[i] = Released(rows[i], "dead_letter")
  BY DEF Swept
<1> QED
  BY <1>1, <1>3, <1>4, ReleasedRow DEF Lapsed

\* A claimed candidate is a typed row under the given token.
LEMMA ClaimedRow ==
    ASSUME NEW r \in Row, NEW token \in Nat, Candidate(r)
    PROVE  /\ Claimed(r, token) \in Row
           /\ Claimed(r, token).status = "processing"
           /\ Claimed(r, token).token = token
           /\ Claimed(r, token).lease = "live"
<1>1. r.attempts + 1 \in 0..MaxAttempts
  BY QueueAssumption DEF Candidate
<1>2. Claimed(r, token) \in Row
  BY <1>1 DEF Claimed
<1>3. Claimed(r, token).status = "processing"
  BY DEF Claimed
<1>4. Claimed(r, token).token = token
  BY DEF Claimed
<1>5. Claimed(r, token).lease = "live"
  BY DEF Claimed
<1> QED BY <1>2, <1>3, <1>4, <1>5

\* nack releases the row, to the dead letters only when the attempts are
\* spent.
LEMMA NackedRow ==
    ASSUME NEW r \in Row
    PROVE  /\ Nacked(r) \in Row
           /\ Nacked(r).status \in {"pending", "dead_letter"}
           /\ Nacked(r).token = 0
           /\ Nacked(r).lease = "null"
           /\ Nacked(r).status = "dead_letter" => Nacked(r).attempts = MaxAttempts
<1>1. CASE r.attempts >= MaxAttempts
  <2>1. Nacked(r) = Released(r, "dead_letter") /\ r.attempts = MaxAttempts
    BY <1>1, QueueAssumption DEF Nacked
  <2> QED BY <2>1, ReleasedRow
<1>2. CASE ~(r.attempts >= MaxAttempts)
  <2> DEFINE p == Released(r, "pending")
  <2>1. Nacked(r) = [p EXCEPT !.available = "later"]
    BY <1>2 DEF Nacked
  <2>2. p \in Row /\ p.status = "pending" /\ p.token = 0 /\ p.lease = "null"
    BY ReleasedRow
  <2> HIDE DEF p
  <2> QED BY <2>1, <2>2
<1> QED BY <1>1, <1>2

\* Moving a busy worker to another busy pc leaves its claim, and every other
\* worker, alone.
LEMMA GotoWorker ==
    ASSUME worker \in [Workers -> Worker], NEW w \in Workers,
           NEW pc \in {"executing", "acking", "nacking"}, Goto(w, pc)
    PROVE  /\ worker' \in [Workers -> Worker]
           /\ worker'[w].pc = pc
           /\ worker'[w].item = worker[w].item
           /\ worker'[w].token = worker[w].token
           /\ \A v \in Workers \ {w}: worker'[v] = worker[v]
  BY DEF Goto

\* A worker that becomes idle holds nothing; the others are left alone.
LEMMA IdleWorker ==
    ASSUME worker \in [Workers -> Worker], NEW w \in Workers,
           NEW pc \in {"polling", "stopped"},
           worker' = [worker EXCEPT ![w] = Idle(pc)]
    PROVE  /\ worker' \in [Workers -> Worker]
           /\ worker'[w].pc = pc
           /\ worker'[w].item = NoItem
           /\ \A v \in Workers \ {w}: worker'[v] = worker[v]
  BY DEF Idle

-----------------------------------------------------------------------------
(* The invariant holds initially and is preserved by every action. *)

\* The empty queue with stopped workers satisfies the invariant.
LEMMA InitInv == Init => IInv
  BY QueueAssumption
  DEF Init, IInv, TypeOK, ClaimColumns, WorkerClaims, AckedWasExecuted, Busy,
      CompletedWasExecuted, DeadLetterSpentAttempts, Absent, Idle

\* No step of a worker or of time breaks the invariant.
LEMMA NextInv == IInv /\ [Next]_vars => IInv'
<1> SUFFICES ASSUME IInv, [Next]_vars PROVE IInv'
  OBVIOUS
<1> USE DEF IInv, TypeOK, ClaimColumns, WorkerClaims, AckedWasExecuted, Busy,
            CompletedWasExecuted, DeadLetterSpentAttempts
<1>1. ASSUME NEW w \in Workers, Start(w) \/ Stop(w) PROVE IInv'
  <2>1. \/ worker' = [worker EXCEPT ![w] = Idle("polling")]
        \/ worker' = [worker EXCEPT ![w] = Idle("stopped")]
    BY <1>1 DEF Start, Stop
  <2>2. row' = row /\ nextToken' = nextToken /\ executed' = executed
    BY <1>1 DEF Start, Stop
  <2> QED
    BY <2>1, <2>2, IdleWorker
<1>2. ASSUME NEW w \in Workers, DequeueEmpty(w) PROVE IInv'
  BY <1>2, SweptRow DEF DequeueEmpty
<1>3. ASSUME NEW w \in Workers, NEW i \in Items, NEW reply \in Replies,
             Dequeue(w, i, reply)
      PROVE  IInv'
  <2> DEFINE s == Swept(row)
             r == Claimed(s[i], nextToken)
             held == [pc |-> "executing", item |-> i, token |-> nextToken]
  <2>1. /\ s \in [Items -> Row]
        /\ \A j \in Items: s[j].status = "processing" <=> s[j].token # 0
        /\ \A j \in Items: s[j].status = "processing" <=> s[j].lease # "null"
        /\ \A j \in Items: s[j].token < nextToken
        /\ \A j \in Items: s[j].status = "completed" => j \in executed
        /\ \A j \in Items: s[j].status = "dead_letter" => s[j].attempts = MaxAttempts
    <3> HIDE DEF s
    <3>1. s \in [Items -> Row]
      BY SweptRow DEF s
    <3> QED
      BY <3>1, SweptRow DEF s
  <2>2. /\ r \in Row
        /\ r.status = "processing"
        /\ r.token = nextToken
        /\ r.lease = "live"
    BY <1>3, <2>1, ClaimedRow DEF Dequeue
  <2>3. nextToken \in Nat /\ nextToken # 0
    BY <2>1
  <2>4. /\ row' = [s EXCEPT ![i] = r]
        /\ worker' = worker \/ worker' = [worker EXCEPT ![w] = held]
        /\ nextToken' = nextToken + 1
        /\ executed' = executed
    BY <1>3 DEF Dequeue
  <2> HIDE DEF s, r
  <2>5. /\ row' \in [Items -> Row]
        /\ row'[i] = r
        /\ \A j \in Items \ {i}: row'[j] = s[j]
    BY <2>1, <2>2, <2>4
  <2>6. ClaimColumns' /\ CompletedWasExecuted' /\ DeadLetterSpentAttempts'
    BY <2>1, <2>2, <2>3, <2>4, <2>5
  <2>7. TypeOK' /\ WorkerClaims' /\ AckedWasExecuted'
    <3>1. CASE worker' = worker
      BY <3>1, <2>3, <2>4, <2>5
    <3>2. CASE worker' = [worker EXCEPT ![w] = held]
      BY <3>2, <2>3, <2>4, <2>5
    <3> QED
      BY <3>1, <3>2, <2>4
  <2> QED
    BY <2>6, <2>7
<1>4. ASSUME NEW w \in Workers, NEW reply \in Replies, Heartbeat(w, reply)
      PROVE  IInv'
  <2>1. worker' = worker \/ Goto(w, "nacking")
    BY <1>4 DEF Heartbeat
  <2>2. /\ worker[w].pc = "executing"
        /\ row' = row /\ nextToken' = nextToken /\ executed' = executed
    BY <1>4 DEF Heartbeat
  <2> QED
    BY SMTT(30), <2>1, <2>2, GotoWorker
<1>5. ASSUME NEW w \in Workers, Succeed(w) \/ Fail(w) PROVE IInv'
  <2>1. \/ executed' = executed \cup {worker[w].item} /\ Goto(w, "acking")
        \/ executed' = executed /\ Goto(w, "nacking")
    BY <1>5 DEF Succeed, Fail
  <2>2. /\ worker[w].pc = "executing"
        /\ row' = row /\ nextToken' = nextToken
    BY <1>5 DEF Succeed, Fail
  <2> QED
    BY SMTT(30), <2>1, <2>2, GotoWorker
<1>6. ASSUME NEW w \in Workers, NEW reply \in Replies,
             Ack(w, reply) \/ Nack(w, reply)
      PROVE  IInv'
  <2> DEFINE k == worker[w].item
  <2>1. /\ Busy(w)
        /\ nextToken' = nextToken /\ executed' = executed
    BY <1>6 DEF Ack, Nack
  <2>2. \/ worker' = [worker EXCEPT ![w] = Idle("polling")]
        \/ Goto(w, "nacking")
    BY <1>6 DEF Ack, Nack
  <2>3. \/ row' = row
        \/ \E r \in Row:
             /\ k \in Items
             /\ row' = [row EXCEPT ![k] = r]
             /\ r.status \in {"completed", "pending", "dead_letter"}
             /\ r.token = 0 /\ r.lease = "null"
             /\ r.status = "completed" => k \in executed
             /\ r.status = "dead_letter" => r.attempts = MaxAttempts
    <3>1. CASE Ack(w, reply)
      <4>1. \/ row' = row
            \/ /\ k \in Items /\ k \in executed
               /\ row' = [row EXCEPT ![k] = Released(row[k], "completed")]
        BY <3>1 DEF Ack, Owns
      <4> QED
        BY <4>1, ReleasedRow
    <3>2. CASE Nack(w, reply)
      <4>1. \/ row' = row
            \/ k \in Items /\ row' = [row EXCEPT ![k] = Nacked(row[k])]
        BY <3>2 DEF Nack, Owns
      <4> QED
        BY <4>1, NackedRow
    <3> QED
      BY <1>6, <3>1, <3>2
  <2>4. /\ row' \in [Items -> Row]
        /\ ClaimColumns' /\ CompletedWasExecuted' /\ DeadLetterSpentAttempts'
    BY <2>1, <2>3
  <2>5. /\ worker' \in [Workers -> Worker]
        /\ WorkerClaims' /\ AckedWasExecuted'
    BY <2>1, <2>2, GotoWorker, IdleWorker
  <2> QED
    BY <2>1, <2>4, <2>5
<1>7. ASSUME NEW i \in Items, ItemStep(i) PROVE IInv'
  <2>1. worker' = worker /\ nextToken' = nextToken /\ executed' = executed
    BY <1>7 DEF ItemStep, Enqueue, ClaimExpires, BecomeAvailable
  <2>2. CASE \E available \in {"now", "later"}: Enqueue(i, available)
    <3>1. PICK available \in {"now", "later"}: Enqueue(i, available)
      BY <2>2
    <3> DEFINE fresh == [Absent EXCEPT !.status = "pending",
                                       !.available = available]
    <3>2. /\ fresh \in Row
          /\ fresh.status = "pending" /\ fresh.token = 0 /\ fresh.lease = "null"
      <4>1. /\ Absent \in Row
            /\ Absent.token = 0 /\ Absent.lease = "null"
        BY QueueAssumption DEF Absent
      <4> QED
        BY <4>1
    <3>3. row' = [row EXCEPT ![i] = fresh]
      BY <3>1 DEF Enqueue
    <3> HIDE DEF fresh
    <3> QED
      BY <2>1, <3>2, <3>3
  <2>3. CASE ClaimExpires(i)
    BY <2>1, <2>3 DEF ClaimExpires
  <2>4. CASE BecomeAvailable(i)
    BY <2>1, <2>4 DEF BecomeAvailable
  <2> QED
    BY <1>7, <2>2, <2>3, <2>4 DEF ItemStep
<1>8. CASE UNCHANGED vars
  BY <1>8 DEF vars
<1> QED
  BY SMTT(30), <1>1, <1>2, <1>3, <1>4, <1>5, <1>6, <1>7, <1>8 DEF Next, WorkerStep

-----------------------------------------------------------------------------
(* The theorems. *)

\* The inductive invariant holds in every reachable state.
THEOREM QueueInvariant == Spec => []IInv
  BY InitInv, NextInv, PTL DEF Spec

\* The columns and the workers' locals always have their types.
THEOREM QueueTypes == Spec => []TypeOK
  BY QueueInvariant, PTL DEF IInv

\* Never two workers whose ack or nack of one item would be accepted: a
\* claim token has one holder, and ack and nack compare it.
THEOREM QueueOneOwner == Spec => []OneOwner
<1>1. IInv => OneOwner
  BY QueueAssumption DEF IInv, TypeOK, WorkerClaims, Busy, OneOwner, Owns
<1> QED
  BY <1>1, QueueInvariant, PTL

\* A completed item was executed, and a dead-lettered one has spent every
\* attempt it was given.
THEOREM QueueSettledHonestly ==
    Spec => [](CompletedWasExecuted /\ DeadLetterSpentAttempts)
  BY QueueInvariant, PTL DEF IInv

\* A live claim is only ever ended by its holder's own ack or nack.
THEOREM QueueLiveClaims == Spec => LiveClaimUndisturbed
<1> DEFINE Undisturbed ==
      \A i \in Items:
          row[i].lease = "live" /\ row'[i].token # row[i].token =>
             \E w \in Workers: /\ Owns(w)
                               /\ worker[w].item = i
                               /\ worker[w].pc \in {"acking", "nacking"}
                               /\ worker'[w] # worker[w]
<1>1. IInv /\ [Next]_vars => [Undisturbed]_vars
  <2> SUFFICES ASSUME IInv, Next PROVE Undisturbed
    OBVIOUS
  <2> USE DEF IInv, TypeOK, ClaimColumns
  <2>1. ASSUME NEW w \in Workers,
               Start(w) \/ Stop(w) \/ Succeed(w) \/ Fail(w)
        PROVE  Undisturbed
    BY <2>1 DEF Start, Stop, Succeed, Fail
  <2>2. ASSUME NEW w \in Workers, NEW reply \in Replies, Heartbeat(w, reply)
        PROVE  Undisturbed
    BY <2>2 DEF Heartbeat
  <2>3. ASSUME NEW w \in Workers, DequeueEmpty(w) PROVE Undisturbed
    BY <2>3, SweptRow DEF DequeueEmpty
  <2>4. ASSUME NEW w \in Workers, NEW i \in Items, NEW reply \in Replies,
               Dequeue(w, i, reply)
        PROVE  Undisturbed
    <3>1. Swept(row) \in [Items -> Row]
      BY SweptRow
    <3>2. Swept(row)[i] = row[i]
      BY <2>4, SweptRow DEF Dequeue, Candidate, Lapsed
    <3>3. row[i].lease # "live"
      BY <2>4, <3>2 DEF Dequeue, Candidate, Lapsed
    <3>4. \A j \in Items: j # i => row'[j] = Swept(row)[j]
      BY <2>4, <3>1 DEF Dequeue
    <3> QED
      BY <3>3, <3>4, SweptRow
  <2>5. ASSUME NEW w \in Workers, NEW reply \in Replies,
               Ack(w, reply) \/ Nack(w, reply)
        PROVE  Undisturbed
    <3>1. worker'[w] # worker[w] /\ worker[w].pc \in {"acking", "nacking"}
      BY <2>5 DEF Ack, Nack, Goto, Idle
    <3>2. \A j \in Items: row'[j] # row[j] => Owns(w) /\ worker[w].item = j
      BY <2>5 DEF Ack, Nack
    <3> QED
      BY <3>1, <3>2
  <2>6. ASSUME NEW i \in Items, ItemStep(i) PROVE Undisturbed
    BY <2>6 DEF ItemStep, Enqueue, ClaimExpires, BecomeAvailable
  <2> QED
    BY <2>1, <2>2, <2>3, <2>4, <2>5, <2>6 DEF Next, WorkerStep
<1> QED
  BY <1>1, QueueInvariant, PTL DEF Spec, LiveClaimUndisturbed

\* Settled rows are never touched again, by no late call and no sweep.
THEOREM QueueSettledIsFinal == Spec => SettledIsFinal
<1> DEFINE Final ==
      \A i \in Items: row[i].status \in {"completed", "dead_letter"} =>
                         row'[i] = row[i]
<1>1. IInv /\ [Next]_vars => [Final]_vars
  <2> SUFFICES ASSUME IInv, Next PROVE Final
    OBVIOUS
  <2> USE DEF IInv, TypeOK, ClaimColumns
  <2>1. ASSUME NEW w \in Workers,
               Start(w) \/ Stop(w) \/ Succeed(w) \/ Fail(w)
        PROVE  Final
    BY <2>1 DEF Start, Stop, Succeed, Fail
  <2>2. ASSUME NEW w \in Workers, NEW reply \in Replies, Heartbeat(w, reply)
        PROVE  Final
    BY <2>2 DEF Heartbeat
  <2>3. ASSUME NEW w \in Workers, DequeueEmpty(w) PROVE Final
    BY <2>3, SweptRow DEF DequeueEmpty
  <2>4. ASSUME NEW w \in Workers, NEW i \in Items, NEW reply \in Replies,
               Dequeue(w, i, reply)
        PROVE  Final
    <3>1. Swept(row) \in [Items -> Row]
      BY SweptRow
    <3>2. row[i].status \in {"pending", "processing"}
      BY <2>4, SweptRow DEF Dequeue, Candidate, Lapsed
    <3>3. \A j \in Items: j # i => row'[j] = Swept(row)[j]
      BY <2>4, <3>1 DEF Dequeue
    <3> QED
      BY <3>2, <3>3, SweptRow
  <2>5. ASSUME NEW w \in Workers, NEW reply \in Replies,
               Ack(w, reply) \/ Nack(w, reply)
        PROVE  Final
    BY <2>5 DEF Ack, Nack, Owns
  <2>6. ASSUME NEW i \in Items, ItemStep(i) PROVE Final
    BY <2>6 DEF ItemStep, Enqueue, ClaimExpires, BecomeAvailable
  <2> QED
    BY <2>1, <2>2, <2>3, <2>4, <2>5, <2>6 DEF Next, WorkerStep
<1> QED
  BY <1>1, QueueInvariant, PTL DEF Spec, SettledIsFinal

-----------------------------------------------------------------------------
(* The refinement of the fenced lease. *)

\* Moving a worker from one pc to another leaves what it believes alone.
LEMMA GotoBelief ==
    ASSUME worker \in [Workers -> Worker], NEW w \in Workers,
           NEW pc \in {"executing", "acking", "nacking"}, Goto(w, pc)
    PROVE  \A v \in Workers: Belief(v)' = Belief(v)
<1>1. \A v \in Workers: worker'[v].item = worker[v].item
                        /\ worker'[v].token = worker[v].token
  BY GotoWorker
<1> QED
  BY <1>1 DEF Belief

\* A worker that becomes idle forgets its claim.
LEMMA IdleBelief ==
    ASSUME worker \in [Workers -> Worker], NEW w \in Workers,
           NEW pc \in {"polling", "stopped"},
           worker' = [worker EXCEPT ![w] = Idle(pc)]
    PROVE  [v \in Workers |-> Belief(v)]'
              = [[v \in Workers |-> Belief(v)] EXCEPT ![w] = NoItem]
<1>1. Belief(w)' = NoItem
  BY IdleWorker DEF Belief
<1>2. \A v \in Workers \ {w}: Belief(v)' = Belief(v)
  BY IdleWorker DEF Belief
<1> QED
  BY <1>1, <1>2

\* A claim that ack or nack accepts is a valid grant of the lease.
LEMMA OwnsIsValid ==
    ASSUME IInv, NEW w \in Workers, Owns(w)
    PROVE  /\ Lease!Valid(w)
           /\ Belief(w) = <<worker[w].item, worker[w].token>>
<1>1. worker[w].item \in Items /\ worker[w].token \in Nat
      /\ row[worker[w].item].token = worker[w].token
  BY DEF IInv, TypeOK, Owns
<1>2. Belief(w) = <<worker[w].item, worker[w].token>> /\ Belief(w) # NoItem
  BY <1>1, QueueAssumption DEF Belief
<1> QED
  BY <1>1, <1>2 DEF Lease!Valid

\* The sweep of dequeue is a sweep of expired grants.
LEMMA SweepIsSweep ==
    ASSUME IInv
    PROVE  LET swept == {i \in Items: Swept(row)[i] # row[i]} IN
           /\ swept \in SUBSET Lease!Expired
           /\ \A i \in Items:
                /\ Swept(row)[i].token = IF i \in swept THEN 0 ELSE row[i].token
                /\ Swept(row)[i].lease = IF i \in swept THEN "null" ELSE row[i].lease
<1>1. row \in [Items -> Row]
  BY DEF IInv, TypeOK
<1> QED
  BY <1>1, SweptRow DEF Lease!Expired

\* Every step of the queue is a step of the lease or leaves its state alone.
LEMMA QueueLeaseStep == IInv /\ [Next]_vars => [Lease!Next]_(Lease!vars)
<1> SUFFICES ASSUME IInv, [Next]_vars PROVE Lease!Next \/ UNCHANGED Lease!vars
  OBVIOUS
<1> USE DEF IInv, TypeOK
<1>1. ASSUME NEW w \in Workers, Start(w) \/ Stop(w) PROVE Lease!Forget(w)
  <2>1. \/ worker' = [worker EXCEPT ![w] = Idle("polling")]
        \/ worker' = [worker EXCEPT ![w] = Idle("stopped")]
    BY <1>1 DEF Start, Stop
  <2>2. row' = row /\ nextToken' = nextToken
    BY <1>1 DEF Start, Stop
  <2> QED
    BY <2>1, <2>2, IdleBelief DEF Lease!Forget
<1>2. ASSUME NEW w \in Workers, DequeueEmpty(w)
      PROVE  \E swept \in SUBSET Lease!Expired: Lease!Sweep(swept)
  <2> DEFINE swept == {i \in Items: Swept(row)[i] # row[i]}
  <2>1. row' = Swept(row) /\ worker' = worker /\ nextToken' = nextToken
    BY <1>2 DEF DequeueEmpty
  <2>2. [v \in Workers |-> Belief(v)]' = [v \in Workers |-> Belief(v)]
    BY <2>1 DEF Belief
  <2>3. Lease!Sweep(swept)
    BY <2>1, <2>2, SweepIsSweep DEF Lease!Sweep
  <2>4. swept \in SUBSET Lease!Expired
    BY SweepIsSweep
  <2> HIDE DEF swept
  <2> QED
    BY <2>3, <2>4 DEF Lease!Sweep
<1>3. ASSUME NEW w \in Workers, NEW i \in Items, NEW reply \in Replies,
             Dequeue(w, i, reply)
      PROVE  \E swept \in SUBSET Lease!Expired: Lease!Acquire(w, i, swept)
  <2> DEFINE swept == {j \in Items: Swept(row)[j] # row[j]}
  <2>1. Swept(row) \in [Items -> Row]
    BY SweptRow
  <2>2. row[i].lease # "live"
    BY <1>3, SweptRow DEF Dequeue, Candidate, Lapsed, ClaimColumns
  <2>3. /\ row'[i].token = nextToken /\ row'[i].lease = "live"
        /\ \A j \in Items \ {i}: row'[j] = Swept(row)[j]
    BY <1>3, <2>1, ClaimedRow DEF Dequeue
  <2>4. [v \in Workers |-> Belief(v)]' \in
           {[v \in Workers |-> Belief(v)],
            [[v \in Workers |-> Belief(v)] EXCEPT ![w] = <<i, nextToken>>]}
    <3>1. CASE worker' = worker
      BY <3>1 DEF Belief
    <3>2. CASE worker' = [worker EXCEPT ![w] = [pc |-> "executing", item |-> i,
                                                token |-> nextToken]]
      <4>1. Belief(w)' = <<i, nextToken>>
        BY <3>2, QueueAssumption DEF Belief
      <4>2. \A v \in Workers \ {w}: Belief(v)' = Belief(v)
        BY <3>2 DEF Belief
      <4> QED
        BY <4>1, <4>2
    <3> QED
      BY <1>3, <3>1, <3>2 DEF Dequeue
  <2>5. nextToken' = nextToken + 1
    BY <1>3 DEF Dequeue
  <2>6. Lease!Acquire(w, i, swept)
    BY <2>2, <2>3, <2>4, <2>5, SweepIsSweep DEF Lease!Acquire
  <2>7. swept \in SUBSET Lease!Expired
    BY SweepIsSweep
  <2> HIDE DEF swept
  <2> QED
    BY <2>6, <2>7 DEF Lease!Acquire
<1>4. ASSUME NEW w \in Workers,
             \/ \E reply \in Replies: Heartbeat(w, reply)
             \/ Succeed(w)
             \/ Fail(w)
      PROVE  UNCHANGED Lease!vars
  <2>1. /\ worker' = worker \/ Goto(w, "nacking") \/ Goto(w, "acking")
        /\ row' = row /\ nextToken' = nextToken
    BY <1>4 DEF Heartbeat, Succeed, Fail
  <2>2. \A v \in Workers: Belief(v)' = Belief(v)
    <3>1. CASE worker' = worker
      BY <3>1 DEF Belief
    <3> QED
      BY <2>1, <3>1, GotoBelief
  <2> QED
    BY <2>1, <2>2 DEF Lease!vars
<1>5. ASSUME NEW w \in Workers, NEW reply \in Replies,
             Ack(w, reply) \/ Nack(w, reply)
      PROVE  Lease!Release(w) \/ Lease!Forget(w) \/ UNCHANGED Lease!vars
  <2> DEFINE k == worker[w].item
             belief == [v \in Workers |-> Belief(v)]
  <2>1. nextToken' = nextToken
    BY <1>5 DEF Ack, Nack
  <2>2. belief' = belief \/ belief' = [belief EXCEPT ![w] = NoItem]
    <3>1. \/ worker' = [worker EXCEPT ![w] = Idle("polling")]
          \/ Goto(w, "nacking")
      BY <1>5 DEF Ack, Nack
    <3> QED
      BY <3>1, GotoBelief, IdleBelief
  <2>3. CASE row' = row
    BY <2>1, <2>2, <2>3 DEF Lease!Forget, Lease!vars
  <2>4. CASE Owns(w) /\ reply # "failed"
    <3>1. k \in Items
      BY <2>4 DEF Owns
    <3>2. \E r \in Row: row' = [row EXCEPT ![k] = r] /\ r.token = 0 /\ r.lease = "null"
      BY <1>5, <2>4, <3>1, ReleasedRow, NackedRow DEF Ack, Nack
    <3>3. /\ [i \in Items |-> row[i].token]'
               = [[i \in Items |-> row[i].token] EXCEPT ![k] = 0]
          /\ [i \in Items |-> row[i].lease]'
               = [[i \in Items |-> row[i].lease] EXCEPT ![k] = "null"]
      BY ZenonT(60), <3>1, <3>2
    <3>4. [v \in Workers |-> Belief(v)][w][1] = k
      BY <2>4, OwnsIsValid
    <3> QED
      BY <2>1, <2>2, <2>4, <3>3, <3>4, OwnsIsValid DEF Lease!Release
  <2> QED
    BY <1>5, <2>3, <2>4 DEF Ack, Nack
<1>6. ASSUME NEW i \in Items, ItemStep(i)
      PROVE  Lease!Lapse(i) \/ UNCHANGED Lease!vars
  <2>1. worker' = worker /\ nextToken' = nextToken
    BY <1>6 DEF ItemStep, Enqueue, ClaimExpires, BecomeAvailable
  <2>2. [v \in Workers |-> Belief(v)]' = [v \in Workers |-> Belief(v)]
    BY <2>1 DEF Belief
  <2>3. CASE \E available \in {"now", "later"}: Enqueue(i, available)
    <3>1. \A j \in Items: row'[j].token = row[j].token /\ row'[j].lease = row[j].lease
      BY <2>3 DEF Enqueue, ClaimColumns, Absent
    <3> QED
      BY <2>1, <2>2, <3>1 DEF Lease!vars
  <2>4. CASE ClaimExpires(i)
    BY <2>1, <2>2, <2>4 DEF ClaimExpires, Lease!Lapse
  <2>5. CASE BecomeAvailable(i)
    BY <2>1, <2>2, <2>5 DEF BecomeAvailable, Lease!vars
  <2> QED
    BY <1>6, <2>3, <2>4, <2>5 DEF ItemStep
<1>7. CASE UNCHANGED vars
  BY <1>7 DEF vars, Lease!vars, Belief
<1> QED
  BY <1>1, <1>2, <1>3, <1>4, <1>5, <1>6, <1>7 DEF Next, WorkerStep, Lease!Next

\* The queue's claims are fenced leases, for any items, workers and attempt
\* budget: what is shown of a lease below (one settler, stale for good) holds
\* of dequeue, renew_claim, ack and nack.
THEOREM QueueImplementsLease == Spec => ImplementsLease
<1>1. Init => Lease!Init
  BY DEF Init, Lease!Init, Absent, Idle, Belief
<1> QED
  BY <1>1, QueueInvariant, QueueLeaseStep, PTL DEF Spec, ImplementsLease, Lease!Spec

-----------------------------------------------------------------------------
(* The composition with the saved tasks, for any tasks, callers and tabs.   *)

Runs == Workers \cup Callers

\* A claimed task is running, and the claim is the attempt's.
RowShape ==
    \A t \in Tasks: task[t].token # 0 => /\ task[t].status = "Running"
                                         /\ task[t].execution = task[t].token

RunnerShape ==
    \A r \in Runs:
        /\ runner[r].pc # "idle" => runner[r].task \in Tasks
        /\ runner[r].pc \in {"executing", "completing"} =>
              runner[r].token \in 1..MaxRuns

TabShape ==
    \A u \in Tabs:
        /\ tab[u].pc # "closed" => tab[u].task \in Tasks
        /\ tab[u].pc = "submitting" => tab[u].decision \in T!Decisions

\* What the tasks contribute: results that were reported stay until reviewed.
TaskInv ==
    /\ T!TypeOK
    /\ taskToken # 0
    /\ RowShape
    /\ RunnerShape
    /\ TabShape
    /\ T!ReportedUntilReviewed

\* Between the two: an execution runs the task its worker's item names, what
\* served an item was reported for its task, and an item is acknowledged and
\* completed only after something served it.
Linked ==
    /\ \A w \in Workers: worker[w].pc = "executing" /\ runner[w].pc # "idle" =>
          runner[w].task = Target[worker[w].item]
    /\ \A i \in Items: \A k \in served[i]: <<Target[i], k>> \in reported
    /\ \A w \in Workers: worker[w].pc = "acking" => served[worker[w].item] # {}
    /\ \A i \in Items: row[i].status = "completed" => served[i] # {}

PipelineInv ==
    /\ IInv
    /\ TaskInv
    /\ served \in [Items -> SUBSET (1..MaxRuns)]
    /\ Linked

-----------------------------------------------------------------------------
(* Each step is a step of the queue, or leaves it alone. *)

\* What the steps of the composition do to the queue's rows and workers.
LEMMA QueueRefined == [PipelineNext]_pipelineVars => [Next]_vars
<1> SUFFICES ASSUME [PipelineNext]_pipelineVars PROVE Next \/ UNCHANGED vars
  OBVIOUS
<1> USE DEF Replies, vars
<1>1. ASSUME NEW w \in Workers, TargetStep(w) PROVE WorkerStep(w) \/ UNCHANGED vars
  <2>1. CASE QueueStep(w)
    BY <2>1, Zenon DEF QueueStep, WorkerStep
  <2>2. CASE Begin(w) \/ Cleanup(w)
    BY <2>2 DEF Begin, Cleanup
  <2>3. CASE Refused(w)
    BY <2>3, Zenon DEF Refused, WorkerStep
  <2>4. CASE ExecutionStep(w)
    <3>1. Outcome(w)
      BY <2>4 DEF ExecutionStep
    <3>2. Succeed(w) \/ Fail(w) \/ UNCHANGED vars
      BY <3>1 DEF Outcome
    <3> QED
      BY <3>2, Zenon DEF WorkerStep
  <2>5. CASE \E reply \in Replies: QueueHeartbeat(w, reply)
    BY <2>5, Zenon DEF QueueHeartbeat, WorkerStep
  <2>6. CASE Shutdown(w)
    BY <2>6, Zenon DEF Shutdown, WorkerStep
  <2> QED
    BY <1>1, <2>1, <2>2, <2>3, <2>4, <2>5, <2>6, Zenon DEF TargetStep
<1>2. CASE OwnerStep
  BY <1>2 DEF OwnerStep
<1>3. CASE ItemsStep
  BY <1>3, Zenon DEF ItemsStep, Next
<1>4. CASE UNCHANGED pipelineVars
  BY <1>4 DEF pipelineVars
<1> QED
  BY <1>1, <1>2, <1>3, <1>4, Zenon DEF PipelineNext, Next

-----------------------------------------------------------------------------
(* What the queue's steps do to rows and workers. *)

\* What a step of the queue does to the rows: only an acknowledgement
\* completes an item, and it is the acknowledging worker's own.
LEMMA ItemRows ==
    ASSUME IInv, [Next]_vars
    PROVE  /\ row' \in [Items -> Row]
           /\ \A i \in Items: row'[i].status = "completed" =>
                 \/ row[i].status = "completed"
                 \/ \E w \in Workers: worker[w].pc = "acking" /\ worker[w].item = i
<1>0. row \in [Items -> Row] /\ nextToken \in Nat
  BY DEF IInv, TypeOK
<1>1. ASSUME NEW i \in Items, NEW x \in Row, NEW rows \in [Items -> Row],
             row' = [rows EXCEPT ![i] = x],
             \A j \in Items: rows[j].status = "completed" => row[j].status = "completed",
             x.status = "completed" =>
                \/ row[i].status = "completed"
                \/ \E w \in Workers: worker[w].pc = "acking" /\ worker[w].item = i
      PROVE  /\ row' \in [Items -> Row]
             /\ \A j \in Items: row'[j].status = "completed" =>
                   \/ row[j].status = "completed"
                   \/ \E w \in Workers: worker[w].pc = "acking" /\ worker[w].item = j
  BY <1>1
<1>2. CASE row' = row
  BY <1>0, <1>2
<1>3. ASSUME NEW w \in Workers, DequeueEmpty(w) PROVE row' = Swept(row)
  BY <1>3 DEF DequeueEmpty
<1>4. CASE row' = Swept(row)
  BY <1>0, <1>4, SweptRow
<1>5. ASSUME NEW w \in Workers, NEW i \in Items, NEW reply \in Replies,
             Dequeue(w, i, reply)
      PROVE  \E x \in Row: x.status = "processing" /\ row' = [Swept(row) EXCEPT ![i] = x]
  <2>1. Swept(row)[i] \in Row
    BY <1>0, SweptRow
  <2>2. Candidate(Swept(row)[i])
        /\ row' = [Swept(row) EXCEPT ![i] = Claimed(Swept(row)[i], nextToken)]
    BY <1>5, <1>0, <2>1, SweptRow DEF Dequeue
  <2> QED
    BY <1>0, <2>1, <2>2, ClaimedRow
<1>6. ASSUME NEW w \in Workers, NEW reply \in Replies, Ack(w, reply)
      PROVE  \/ row' = row
             \/ /\ worker[w].pc = "acking" /\ worker[w].item \in Items
                /\ \E x \in Row: row' = [row EXCEPT ![worker[w].item] = x]
  <2>1. worker[w].pc = "acking" /\ worker[w].item \in Items
    BY <1>6 DEF Ack, IInv, WorkerClaims, Busy
  <2>2. CASE row' = [row EXCEPT ![worker[w].item] =
                              Released(row[worker[w].item], "completed")]
    BY <1>0, <2>1, <2>2, ReleasedRow
  <2> QED
    BY <1>6, <2>1, <2>2 DEF Ack
<1>7. ASSUME NEW w \in Workers, NEW reply \in Replies, Nack(w, reply)
      PROVE  \/ row' = row
             \/ \E i \in Items: \E x \in Row:
                   x.status # "completed" /\ row' = [row EXCEPT ![i] = x]
  <2>1. CASE Owns(w) /\ row' = [row EXCEPT ![worker[w].item] =
                                           Nacked(row[worker[w].item])]
    BY <1>0, <2>1, NackedRow DEF Owns
  <2> QED
    BY <1>7, <2>1 DEF Nack
<1>8. ASSUME NEW i \in Items, ItemStep(i)
      PROVE  \E x \in Row: /\ row' = [row EXCEPT ![i] = x]
                           /\ x.status = "completed" => row[i].status = "completed"
  <2>0. row[i] \in Row
    BY <1>0
  <2>1. CASE \E available \in {"now", "later"}: Enqueue(i, available)
    <3>1. PICK available \in {"now", "later"}: Enqueue(i, available)
      BY <2>1
    <3>2. row' = [row EXCEPT ![i] = [Absent EXCEPT !.status = "pending",
                                                     !.available = available]]
      BY <3>1 DEF Enqueue
    <3>3. /\ [Absent EXCEPT !.status = "pending", !.available = available] \in Row
          /\ [Absent EXCEPT !.status = "pending", !.available = available].status
                = "pending"
      <4>1. MaxAttempts \in Nat
        BY QueueAssumption
      <4>2. Absent \in Row
        BY <4>1 DEF Absent
      <4> QED
        BY <4>2
    <3> QED
      BY <3>2, <3>3
  <2>2. CASE ClaimExpires(i)
    <3>1. row' = [row EXCEPT ![i] = [row[i] EXCEPT !.lease = "expired"]]
      BY <1>0, <2>2 DEF ClaimExpires
    <3>2. [row[i] EXCEPT !.lease = "expired"] \in Row
          /\ [row[i] EXCEPT !.lease = "expired"].status = row[i].status
      BY <2>0
    <3> QED
      BY <3>1, <3>2
  <2>3. CASE BecomeAvailable(i)
    <3>1. row' = [row EXCEPT ![i] = [row[i] EXCEPT !.available = "now"]]
      BY <1>0, <2>3 DEF BecomeAvailable
    <3>2. [row[i] EXCEPT !.available = "now"] \in Row
          /\ [row[i] EXCEPT !.available = "now"].status = row[i].status
      BY <2>0
    <3> QED
      BY <3>1, <3>2
  <2> QED
    BY <1>8, <2>1, <2>2, <2>3 DEF ItemStep
<1>9. ASSUME NEW w \in Workers,
             \/ Start(w) \/ Stop(w) \/ Succeed(w) \/ Fail(w)
             \/ \E reply \in Replies: Heartbeat(w, reply)
      PROVE  row' = row
  BY <1>9 DEF Start, Stop, Succeed, Fail, Heartbeat
<1>10. CASE UNCHANGED vars
  BY <1>2, <1>10 DEF vars
<1>11. ASSUME NEW w \in Workers, WorkerStep(w)
       PROVE  \/ row' = row
              \/ row' = Swept(row)
              \/ \E i \in Items: \E x \in Row:
                    x.status = "processing" /\ row' = [Swept(row) EXCEPT ![i] = x]
              \/ \E i \in Items: \E x \in Row:
                    x.status # "completed" /\ row' = [row EXCEPT ![i] = x]
              \/ /\ worker[w].pc = "acking" /\ worker[w].item \in Items
                 /\ \E x \in Row: row' = [row EXCEPT ![worker[w].item] = x]
  <2>1. CASE DequeueEmpty(w)
    BY <2>1, <1>3
  <2>2. CASE \E i \in Items, reply \in Replies: Dequeue(w, i, reply)
    BY <2>2, <1>5
  <2>3. CASE \E reply \in Replies: Ack(w, reply)
    BY <2>3, <1>6
  <2>4. CASE \E reply \in Replies: Nack(w, reply)
    BY <2>4, <1>7
  <2>5. CASE \/ Start(w) \/ Stop(w) \/ Succeed(w) \/ Fail(w)
             \/ \E reply \in Replies: Heartbeat(w, reply)
    BY <2>5, <1>9
  <2> QED
    BY <1>11, <2>1, <2>2, <2>3, <2>4, <2>5, Zenon DEF WorkerStep
<1>12. ASSUME NEW i \in Items, NEW x \in Row, x.status = "processing",
              row' = [Swept(row) EXCEPT ![i] = x]
       PROVE  /\ row' \in [Items -> Row]
              /\ \A j \in Items: row'[j].status = "completed" => row[j].status = "completed"
  <2>1. /\ Swept(row) \in [Items -> Row]
        /\ \A j \in Items: Swept(row)[j].status = "completed" =>
                              row[j].status = "completed"
    BY <1>0, SweptRow
  <2> QED
    BY <1>12, <2>1
<1>13. ASSUME NEW w \in Workers, WorkerStep(w)
       PROVE  /\ row' \in [Items -> Row]
              /\ \A i \in Items: row'[i].status = "completed" =>
                    \/ row[i].status = "completed"
                    \/ \E v \in Workers: worker[v].pc = "acking" /\ worker[v].item = i
  BY <1>0, <1>13, <1>11, <1>1, <1>2, <1>4, <1>12
<1>14. ASSUME NEW i \in Items, ItemStep(i)
       PROVE  /\ row' \in [Items -> Row]
              /\ \A j \in Items: row'[j].status = "completed" =>
                    \/ row[j].status = "completed"
                    \/ \E v \in Workers: worker[v].pc = "acking" /\ worker[v].item = j
  <2>1. PICK x \in Row: /\ row' = [row EXCEPT ![i] = x]
                        /\ x.status = "completed" => row[i].status = "completed"
    BY <1>8, <1>14, Zenon
  <2> QED
    BY <1>0, <1>1, <2>1
<1>15. CASE Next
  BY <1>13, <1>14, <1>15, Zenon DEF Next
<1> QED
  BY <1>10, <1>15, Zenon

\* What a step of the queue does to the workers: a worker keeps its item while
\* it goes on, takes another one only when it polls, and acknowledges only
\* what it has executed.
LEMMA ItemWorkers ==
    ASSUME IInv, [Next]_vars
    PROVE  /\ worker' \in [Workers -> Worker]
           /\ \A w \in Workers: worker'[w].pc \in {"executing", "acking"} =>
                 \/ /\ worker'[w].pc = "executing" /\ worker[w].pc = "polling"
                    /\ worker'[w].item \in Items
                 \/ /\ worker'[w].item = worker[w].item
                    /\ worker[w].pc \in {"executing", worker'[w].pc}
<1>0. worker \in [Workers -> Worker] /\ nextToken \in Nat
  BY DEF IInv, TypeOK
<1>1. CASE worker' = worker
  BY <1>0, <1>1
<1>2. ASSUME NEW w \in Workers, NEW x \in Worker, worker' = [worker EXCEPT ![w] = x],
             \/ x.pc \notin {"executing", "acking"}
             \/ x.pc = "executing" /\ worker[w].pc = "polling" /\ x.item \in Items
             \/ x.pc = "acking" /\ worker[w].pc = "executing" /\ x.item = worker[w].item
      PROVE  /\ worker' \in [Workers -> Worker]
             /\ \A v \in Workers: worker'[v].pc \in {"executing", "acking"} =>
                   \/ /\ worker'[v].pc = "executing" /\ worker[v].pc = "polling"
                      /\ worker'[v].item \in Items
                   \/ /\ worker'[v].item = worker[v].item
                      /\ worker[v].pc \in {"executing", worker'[v].pc}
  <2>1. worker' \in [Workers -> Worker] /\ worker'[w] = x
        /\ \A v \in Workers \ {w}: worker'[v] = worker[v]
    BY <1>0, <1>2
  <2> QED
    BY <1>2, <2>1
<1>3. \A pc \in {"polling", "stopped"}: Idle(pc) \in Worker /\ Idle(pc).pc = pc
  BY DEF Idle
<1>4. ASSUME NEW w \in Workers, NEW pc \in {"acking", "nacking"}, Goto(w, pc)
      PROVE  \E x \in Worker: /\ x.pc = pc /\ x.item = worker[w].item
                                /\ worker' = [worker EXCEPT ![w] = x]
  <2> DEFINE x == [worker[w] EXCEPT !.pc = pc]
  <2>1. x \in Worker /\ x.pc = pc /\ x.item = worker[w].item
    BY <1>0
  <2>2. worker' = [worker EXCEPT ![w] = x]
    BY <1>0, <1>4 DEF Goto
  <2> QED
    BY <2>1, <2>2
<1>5. ASSUME NEW w \in Workers, WorkerStep(w)
      PROVE  \/ worker' = worker
             \/ \E x \in Worker:
                   /\ worker' = [worker EXCEPT ![w] = x]
                   /\ \/ x.pc \notin {"executing", "acking"}
                      \/ x.pc = "executing" /\ worker[w].pc = "polling" /\ x.item \in Items
                      \/ x.pc = "acking" /\ worker[w].pc = "executing"
                         /\ x.item = worker[w].item
  <2>1. CASE Start(w) \/ Stop(w)
    BY <1>3, <2>1 DEF Start, Stop
  <2>2. CASE DequeueEmpty(w)
    BY <2>2 DEF DequeueEmpty
  <2>3. CASE \E i \in Items, reply \in Replies: Dequeue(w, i, reply)
    <3>1. PICK i \in Items, reply \in Replies: Dequeue(w, i, reply)
      BY <2>3
    <3> DEFINE x == [pc |-> "executing", item |-> i, token |-> nextToken]
    <3>2. x \in Worker /\ x.pc = "executing" /\ x.item \in Items
      BY <1>0
    <3>3. worker[w].pc = "polling"
          /\ (worker' = worker \/ worker' = [worker EXCEPT ![w] = x])
      BY <3>1 DEF Dequeue
    <3> QED
      BY <3>2, <3>3
  <2>4. CASE Succeed(w)
    BY <1>4, <2>4 DEF Succeed
  <2>5. CASE Fail(w) \/ \E reply \in Replies: Heartbeat(w, reply)
    <3>1. worker' = worker \/ Goto(w, "nacking")
      BY <2>5 DEF Fail, Heartbeat
    <3> QED
      BY <1>4, <3>1
  <2>6. CASE \/ \E reply \in Replies: Ack(w, reply)
             \/ \E reply \in Replies: Nack(w, reply)
    <3>1. worker' = [worker EXCEPT ![w] = Idle("polling")] \/ Goto(w, "nacking")
      BY <2>6 DEF Ack, Nack
    <3> QED
      BY <1>3, <1>4, <3>1
  <2> QED
    BY <1>5, <2>1, <2>2, <2>3, <2>4, <2>5, <2>6, Zenon DEF WorkerStep
<1>6. ASSUME NEW i \in Items, ItemStep(i) PROVE worker' = worker
  BY <1>6 DEF ItemStep, Enqueue, ClaimExpires, BecomeAvailable
<1>7. CASE UNCHANGED vars
  BY <1>1, <1>7 DEF vars
<1>8. ASSUME NEW w \in Workers, WorkerStep(w)
      PROVE  /\ worker' \in [Workers -> Worker]
             /\ \A v \in Workers: worker'[v].pc \in {"executing", "acking"} =>
                   \/ /\ worker'[v].pc = "executing" /\ worker[v].pc = "polling"
                      /\ worker'[v].item \in Items
                   \/ /\ worker'[v].item = worker[v].item
                      /\ worker[v].pc \in {"executing", worker'[v].pc}
  <2>1. CASE worker' = worker
    BY <1>1, <2>1
  <2>2. CASE worker' # worker
    <3>1. PICK x \in Worker:
             /\ worker' = [worker EXCEPT ![w] = x]
             /\ \/ x.pc \notin {"executing", "acking"}
                \/ x.pc = "executing" /\ worker[w].pc = "polling" /\ x.item \in Items
                \/ x.pc = "acking" /\ worker[w].pc = "executing"
                   /\ x.item = worker[w].item
      BY <1>5, <1>8, <2>2
    <3> QED
      BY <1>2, <3>1
  <2> QED
    BY <2>1, <2>2
<1> QED
  BY <1>1, <1>6, <1>7, <1>8 DEF Next

-----------------------------------------------------------------------------
(* The tasks' part of the invariant. *)

USE DEF T!Statuses, T!Leases, T!Replies, T!Decisions, T!Results,
        T!Row, T!Runner, T!Tab, T!Event, Runs

\* The rows and locals that the operators build.
LEMMA Built ==
    /\ \A status \in T!Statuses: /\ T!Blank(status) \in T!Row
                                 /\ T!Blank(status).status = status
                                 /\ T!Blank(status).token = 0
    /\ T!IdleRunner \in T!Runner /\ T!IdleRunner.pc = "idle"
    /\ T!ClosedTab \in T!Tab /\ T!ClosedTab.pc = "closed"
  BY DEF T!Blank, T!IdleRunner, T!ClosedTab

\* A marked row runs under its token.
LEMMA MarkedTask ==
    ASSUME NEW k \in Nat
    PROVE  /\ T!Marked(k) \in T!Row
           /\ T!Marked(k).status = "Running"
           /\ T!Marked(k).token = k
           /\ T!Marked(k).execution = k
<1> DEFINE b == T!Blank("Running")
<1>1. b \in T!Row /\ b.status = "Running"
  BY Built
<1>2. T!Marked(k) = [b EXCEPT !.token = k, !.lease = "live", !.execution = k]
  BY DEF T!Marked
<1> HIDE DEF b
<1> QED
  BY <1>1, <1>2

\* A completed row keeps its attempt and has no claim.
LEMMA CompletedTask ==
    ASSUME NEW r \in T!Row, NEW result \in T!Results, NEW k \in Nat
    PROVE  /\ T!Completed(r, result, k) \in T!Row
           /\ T!Completed(r, result, k).status = T!Outcome(result)
           /\ T!Completed(r, result, k).token = 0
           /\ T!Completed(r, result, k).execution = r.execution
<1>1. T!Outcome(result) \in T!Statuses
  BY DEF T!Outcome
<1> HIDE DEF T!Outcome
<1> QED
  BY <1>1 DEF T!Completed

\* One row is written: what was reported stays current, unless it was decided
\* on or its task deleted, and only a current result is newly reported.
LEMMA TaskWritten ==
    ASSUME TaskInv, NEW t \in Tasks, NEW x \in T!Row, task' = [task EXCEPT ![t] = x],
           x.token # 0 => x.status = "Running" /\ x.execution = x.token,
           events \subseteq events',
           \A s \in Tasks, k \in 1..MaxRuns: <<s, k>> \in reported' =>
              \/ <<s, k>> \in reported
              \/ s = t /\ x.execution = k /\ x.status = "ReviewRequired",
           \/ x.status = "deleted"
           \/ task[t].status \notin {"ReviewRequired", "deleted"}
           \/ /\ task[t].status = "ReviewRequired"
              /\ \E e \in events': e.execution = task[t].execution
           \/ x.status = task[t].status /\ x.execution = task[t].execution
    PROVE  task' \in [Tasks -> T!Row] /\ RowShape' /\ T!ReportedUntilReviewed'
<1>0. task \in [Tasks -> T!Row] /\ RowShape /\ T!ReportedUntilReviewed
  BY DEF TaskInv, T!TypeOK
<1>1. /\ task' \in [Tasks -> T!Row] /\ task'[t] = x
      /\ \A s \in Tasks \ {t}: task'[s] = task[s]
  BY <1>0
<1>2. RowShape'
  BY <1>0, <1>1 DEF RowShape
<1>3. T!ReportedUntilReviewed'
  <2> SUFFICES ASSUME NEW s \in Tasks, NEW k \in 1..MaxRuns, <<s, k>> \in reported'
               PROVE  \/ task'[s].execution = k /\ task'[s].status = "ReviewRequired"
                      \/ \E e \in events': e.execution = k
                      \/ task'[s].status = "deleted"
    BY DEF T!ReportedUntilReviewed
  <2>1. CASE <<s, k>> \notin reported
    BY <1>1, <2>1
  <2>2. CASE <<s, k>> \in reported
    <3>1. \/ task[s].execution = k /\ task[s].status = "ReviewRequired"
          \/ \E e \in events: e.execution = k
          \/ task[s].status = "deleted"
      BY <1>0, <2>2 DEF T!ReportedUntilReviewed
    <3>2. CASE \E e \in events: e.execution = k
      BY <3>2
    <3>3. CASE s # t
      BY <1>1, <3>1, <3>3
    <3>4. CASE s = t /\ ~\E e \in events: e.execution = k
      BY <1>1, <3>1, <3>4
    <3> QED
      BY <3>2, <3>3, <3>4
  <2> QED
    BY <2>1, <2>2
<1> QED
  BY <1>1, <1>2, <1>3

\* The rows are left alone.
LEMMA TasksAlone ==
    ASSUME TaskInv, task' = task, events' = events, reported' = reported
    PROVE  task' \in [Tasks -> T!Row] /\ RowShape' /\ T!ReportedUntilReviewed'
<1>0. task \in [Tasks -> T!Row] /\ RowShape /\ T!ReportedUntilReviewed
  BY DEF TaskInv, T!TypeOK
<1> QED
  BY <1>0 DEF RowShape, T!ReportedUntilReviewed

\* One execution moves.
LEMMA RunnerMoved ==
    ASSUME TaskInv, NEW r \in Runs, NEW q \in T!Runner, runner' = [runner EXCEPT ![r] = q],
           q.pc # "idle" => q.task \in Tasks,
           q.pc \in {"executing", "completing"} => q.token \in 1..MaxRuns
    PROVE  runner' \in [Runs -> T!Runner] /\ RunnerShape'
<1>0. runner \in [Runs -> T!Runner] /\ RunnerShape
  BY DEF TaskInv, T!TypeOK
<1>1. /\ runner' \in [Runs -> T!Runner] /\ runner'[r] = q
      /\ \A s \in Runs \ {r}: runner'[s] = runner[s]
  BY <1>0
<1> QED
  BY <1>0, <1>1 DEF RunnerShape

\* An execution that ends keeps the shape.
LEMMA RunnerEnded ==
    ASSUME TaskInv, NEW r \in Runs, T!Finished(r)
    PROVE  runner' \in [Runs -> T!Runner] /\ RunnerShape'
<1>1. runner' = [runner EXCEPT ![r] = T!IdleRunner]
  BY DEF T!Finished
<1>2. T!IdleRunner \in T!Runner /\ T!IdleRunner.pc = "idle"
  BY Built
<1> QED
  BY <1>1, <1>2, RunnerMoved

\* execute_saved_task, by a worker or by hand: its steps keep the invariant.
LEMMA RunnerKept ==
    ASSUME TaskInv, NEW r \in Runs, T!RunnerStep(r)
    PROVE  TaskInv' /\ reported \subseteq reported'
<1>0. /\ task \in [Tasks -> T!Row] /\ runner \in [Runs -> T!Runner] /\ tab \in [Tabs -> T!Tab]
      /\ events \subseteq T!Event /\ reported \subseteq Tasks \X (1..MaxRuns)
      /\ taskToken \in Nat \ {0} /\ RunnerShape /\ TabShape
  BY DEF TaskInv, T!TypeOK
<1>1. runner[r] \in T!Runner
  BY <1>0
<1>2. tab' = tab /\ events' = events
  BY DEF T!RunnerStep, T!Execute, T!Claim, T!ClaimRefused, T!Heartbeat, T!Answer,
         T!Complete, T!Crash
<1>3. tab' \in [Tabs -> T!Tab] /\ TabShape' /\ events' \subseteq T!Event
  BY <1>0, <1>2 DEF TabShape
<1> DEFINE Rest == task' = task /\ reported' = reported /\ taskToken' = taskToken
<1>4. ASSUME Rest, runner' \in [Runs -> T!Runner], RunnerShape'
      PROVE  TaskInv' /\ reported \subseteq reported'
  <2>1. task' \in [Tasks -> T!Row] /\ RowShape' /\ T!ReportedUntilReviewed'
    BY <1>2, <1>4, TasksAlone
  <2> QED
    BY <1>0, <1>3, <1>4, <2>1 DEF TaskInv, T!TypeOK
<1>5. ASSUME NEW t \in Tasks, T!Execute(r, t) PROVE TaskInv' /\ reported \subseteq reported'
  <2> DEFINE q == [T!IdleRunner EXCEPT !.pc = "claiming", !.task = t]
  <2>1. q \in T!Runner /\ q.pc = "claiming" /\ q.task = t
    BY Built
  <2>2. runner' = [runner EXCEPT ![r] = q] /\ Rest
    BY <1>5 DEF T!Execute
  <2>3. runner' \in [Runs -> T!Runner] /\ RunnerShape'
    BY <2>1, <2>2, RunnerMoved
  <2> QED
    BY <1>4, <2>2, <2>3
<1>6. CASE T!Finished(r) /\ Rest
  BY <1>4, <1>6, RunnerEnded
<1>7. ASSUME NEW result \in T!Results, runner[r].pc = "executing", Rest,
             runner' = [runner EXCEPT ![r] = [runner[r] EXCEPT !.pc = "completing",
                                                               !.result = result]]
      PROVE  TaskInv' /\ reported \subseteq reported'
  <2> DEFINE q == [runner[r] EXCEPT !.pc = "completing", !.result = result]
  <2>1. q \in T!Runner /\ q.pc = "completing" /\ q.task = runner[r].task
        /\ q.token = runner[r].token
    BY <1>1
  <2>2. q.task \in Tasks /\ q.token \in 1..MaxRuns
    BY <1>0, <1>7, <2>1 DEF RunnerShape
  <2>3. runner' = [runner EXCEPT ![r] = q]
    BY <1>7
  <2> HIDE DEF q
  <2>4. runner' \in [Runs -> T!Runner] /\ RunnerShape'
    BY <2>1, <2>2, <2>3, RunnerMoved
  <2> QED
    BY <1>4, <1>7, <2>4
<1>8. ASSUME NEW reply \in T!Replies, T!Heartbeat(r, reply)
      PROVE  TaskInv' /\ reported \subseteq reported'
  <2>1. Rest /\ runner[r].pc = "executing"
    BY <1>8 DEF T!Heartbeat
  <2>2. CASE runner' = runner
    <3>1. runner' \in [Runs -> T!Runner] /\ RunnerShape'
      BY <1>0, <2>2 DEF RunnerShape
    <3> QED
      BY <1>4, <2>1, <3>1
  <2>3. CASE runner' = [runner EXCEPT ![r] = [runner[r] EXCEPT !.pc = "completing",
                                                              !.result = "error"]]
    BY <1>7, <2>1, <2>3
  <2> HIDE DEF Rest
  <2> QED
    BY <1>6, <1>8, <2>1, <2>2, <2>3 DEF T!Heartbeat
<1>9. ASSUME NEW result \in T!Results, T!Answer(r, result)
      PROVE  TaskInv' /\ reported \subseteq reported'
  BY <1>7, <1>9 DEF T!Answer
<1>10. ASSUME NEW reply \in T!Replies, T!Claim(r, reply)
       PROVE  TaskInv' /\ reported \subseteq reported'
  <2> DEFINE t == runner[r].task
             q == [runner[r] EXCEPT !.pc = "executing", !.token = taskToken]
  <2>1. t \in Tasks /\ taskToken \in 1..MaxRuns /\ reported' = reported
        /\ taskToken' = taskToken + 1
    BY <1>0, <1>10, SavedTaskAssumption DEF T!Claim, RunnerShape, T!TaskAssumption
  <2>2. /\ task' = [task EXCEPT ![t] = T!Marked(taskToken)]
        /\ T!Claimable(task[t])
    BY <1>10 DEF T!Claim
  <2>3. q \in T!Runner /\ q.pc = "executing" /\ q.task = t /\ q.token = taskToken
    BY <1>0, <1>1
  <2>4. runner' = [runner EXCEPT ![r] = q] \/ T!Finished(r)
    BY <1>10 DEF T!Claim
  <2> HIDE DEF q
  <2>5. runner' \in [Runs -> T!Runner] /\ RunnerShape'
    BY <2>1, <2>3, <2>4, RunnerMoved, RunnerEnded
  <2> HIDE DEF t
  <2>6. task[t].status \notin {"ReviewRequired", "deleted"}
    BY <2>1, <2>2 DEF T!Claimable, TaskInv, RowShape
  <2>7. /\ T!Marked(taskToken) \in T!Row
        /\ T!Marked(taskToken).status = "Running"
        /\ T!Marked(taskToken).token = taskToken
        /\ T!Marked(taskToken).execution = taskToken
    BY <1>0, MarkedTask
  <2>8. task' \in [Tasks -> T!Row] /\ RowShape' /\ T!ReportedUntilReviewed'
    BY <1>2, <2>1, <2>2, <2>6, <2>7, TaskWritten
  <2> QED
    BY <1>0, <1>3, <2>1, <2>5, <2>8 DEF TaskInv, T!TypeOK
<1>11. ASSUME NEW reply \in T!Replies, T!Complete(r, reply)
       PROVE  TaskInv' /\ reported \subseteq reported'
  <2> DEFINE t == runner[r].task
             k == runner[r].token
             x == T!Completed(task[t], runner[r].result, k)
  <2>1. t \in Tasks /\ k \in 1..MaxRuns /\ T!Finished(r) /\ taskToken' = taskToken
    BY <1>0, <1>11 DEF T!Complete, RunnerShape
  <2>2. runner' \in [Runs -> T!Runner] /\ RunnerShape'
    BY <2>1, RunnerEnded
  <2>3. CASE task' = task /\ reported' = reported
    BY <1>4, <2>1, <2>2, <2>3
  <2>4. CASE /\ T!Holds(r)
             /\ task' = [task EXCEPT ![t] = x]
             /\ \/ reported' = reported
                \/ /\ reported' = reported \cup {<<t, k>>}
                   /\ T!Outcome(runner[r].result) = "ReviewRequired"
    <3>1. task[t].status = "Running" /\ task[t].token = k
      BY <2>4 DEF T!Holds
    <3>2. task[t].execution = k
      BY <2>1, <3>1 DEF TaskInv, RowShape
    <3>3. task[t] \in T!Row
      BY <1>0, <2>1
    <3>4. /\ x \in T!Row /\ x.status = T!Outcome(runner[r].result) /\ x.token = 0
          /\ x.execution = k
      <4>1. runner[r].result \in T!Results /\ runner[r].token \in Nat
        BY <1>1
      <4> DEFINE old == task[t]
                 result == runner[r].result
      <4>2. old \in T!Row /\ result \in T!Results /\ k \in Nat /\ old.execution = k
        BY <3>2, <3>3, <4>1
      <4> HIDE DEF old, result, k, T!Row, T!Results
      <4>3. LET c == T!Completed(old, result, k)
            IN  c \in T!Row /\ c.status = T!Outcome(result) /\ c.token = 0
                /\ c.execution = k
        BY <4>2, CompletedTask
      <4> QED
        BY <4>3 DEF old, result
    <3> DEFINE status == T!Outcome(runner[r].result)
    <3> HIDE DEF x, t, k, status
    <3>5. \A s \in Tasks, m \in 1..MaxRuns: <<s, m>> \in reported' =>
             <<s, m>> \in reported \/ (s = t /\ x.execution = m /\ x.status = "ReviewRequired")
      <4>1. CASE reported' = reported
        BY <4>1
      <4>2. CASE reported' = reported \cup {<<t, k>>} /\ x.status = "ReviewRequired"
        BY <4>2, <3>4
      <4> QED
        BY <2>4, <3>4, <4>1, <4>2 DEF status
    <3>6. task' \in [Tasks -> T!Row] /\ RowShape' /\ T!ReportedUntilReviewed'
      <4>1. task[t].status \notin {"ReviewRequired", "deleted"} /\ events \subseteq events'
        BY <1>2, <3>1
      <4>2. x.token # 0 => x.status = "Running" /\ x.execution = x.token
        BY <3>4
      <4>3. task' = [task EXCEPT ![t] = x]
        BY <2>4
      <4> QED
        BY <2>1, <3>4, <3>5, <4>1, <4>2, <4>3, TaskWritten
    <3>7. reported' \subseteq Tasks \X (1..MaxRuns) /\ reported \subseteq reported'
      BY <1>0, <2>1, <2>4
    <3> QED
      BY <1>0, <1>3, <2>1, <2>2, <3>6, <3>7 DEF TaskInv, T!TypeOK
  <2> QED
    BY <1>11, <2>3, <2>4 DEF T!Complete
<1>12. CASE T!ClaimRefused(r) \/ T!Crash(r)
  BY <1>6, <1>12 DEF T!ClaimRefused, T!Crash
<1> HIDE DEF Rest
<1> QED
  BY <1>5, <1>8, <1>9, <1>10, <1>11, <1>12 DEF T!RunnerStep

\* review_saved_task: a decision leaves its event behind.
LEMMA TabKept ==
    ASSUME TaskInv, NEW u \in Tabs, T!TabStep(u)
    PROVE  TaskInv' /\ reported \subseteq reported'
<1>0. /\ task \in [Tasks -> T!Row] /\ runner \in [Runs -> T!Runner] /\ tab \in [Tabs -> T!Tab]
      /\ events \subseteq T!Event /\ reported \subseteq Tasks \X (1..MaxRuns)
      /\ taskToken \in Nat \ {0} /\ RunnerShape /\ TabShape
  BY DEF TaskInv, T!TypeOK
<1>1. tab[u] \in T!Tab
  BY <1>0
<1>2. runner' = runner /\ reported' = reported /\ taskToken' = taskToken
  BY DEF T!TabStep, T!View, T!Submit, T!Review
<1>3. runner' \in [Runs -> T!Runner] /\ RunnerShape'
  BY <1>0, <1>2 DEF RunnerShape
<1>4. ASSUME NEW v \in T!Tab, tab' = [tab EXCEPT ![u] = v],
             v.pc # "closed" => v.task \in Tasks,
             v.pc = "submitting" => v.decision \in T!Decisions
      PROVE  tab' \in [Tabs -> T!Tab] /\ TabShape'
  <2>1. /\ tab' \in [Tabs -> T!Tab] /\ tab'[u] = v
        /\ \A s \in Tabs \ {u}: tab'[s] = tab[s]
    BY <1>0, <1>4
  <2> QED
    BY <1>0, <1>4, <2>1 DEF TabShape
<1>5. ASSUME tab' \in [Tabs -> T!Tab], TabShape', task' = task, events' = events
      PROVE  TaskInv'
  <2>1. task' \in [Tasks -> T!Row] /\ RowShape' /\ T!ReportedUntilReviewed'
    BY <1>2, <1>5, TasksAlone
  <2> QED
    BY <1>0, <1>2, <1>3, <1>5, <2>1 DEF TaskInv, T!TypeOK
<1>6. ASSUME NEW t \in Tasks, T!View(u, t) PROVE TaskInv'
  <2> DEFINE k == task[t].execution
             v == [T!ClosedTab EXCEPT !.pc = "viewing", !.task = t, !.execution = k]
  <2>1. k \in Nat
    BY <1>0
  <2> HIDE DEF k
  <2>2. v \in T!Tab /\ v.pc = "viewing" /\ v.task = t
    BY <2>1, Built
  <2>3. tab' = [tab EXCEPT ![u] = v] /\ task' = task /\ events' = events
    BY <1>6 DEF T!View, k
  <2> HIDE DEF v
  <2> QED
    BY <1>4, <1>5, <2>2, <2>3
<1>7. ASSUME NEW decision \in T!Decisions, T!Submit(u, decision) PROVE TaskInv'
  <2> DEFINE v == [tab[u] EXCEPT !.pc = "submitting", !.decision = decision]
  <2>1. tab[u].task \in Tasks
    BY <1>0, <1>7 DEF T!Submit, TabShape
  <2>2. v \in T!Tab /\ v.pc = "submitting" /\ v.task \in Tasks /\ v.decision \in T!Decisions
    BY <1>1, <2>1
  <2>3. tab' = [tab EXCEPT ![u] = v] /\ task' = task /\ events' = events
    BY <1>7 DEF T!Submit
  <2> HIDE DEF v
  <2> QED
    BY <1>4, <1>5, <2>2, <2>3
<1>8. ASSUME NEW reply \in T!Replies, T!Review(u, reply) PROVE TaskInv'
  <2> DEFINE t == tab[u].task
             k == tab[u].execution
             d == tab[u].decision
             x == [task[t] EXCEPT !.status = IF d = "approve" THEN "Success" ELSE "Rejected"]
             e == [task |-> t, execution |-> k, decision |-> d,
                   result |-> task[t].result, producer |-> task[t].producer]
  <2>1. t \in Tasks /\ d \in T!Decisions /\ k \in Nat
    BY <1>0, <1>1, <1>8 DEF T!Review, TabShape
  <2>2. tab' \in [Tabs -> T!Tab] /\ TabShape'
    BY <1>4, <1>8, Built DEF T!Review
  <2>3. CASE task' = task /\ events' = events
    BY <1>5, <2>2, <2>3
  <2>4. CASE /\ T!Reviewable(t, k, d)
             /\ task' = [task EXCEPT ![t].status =
                            IF d = "approve" THEN "Success" ELSE "Rejected"]
             /\ events' = events \cup {e}
    <3>1. task[t] \in T!Row
      BY <1>0, <2>1
    <3>2. task' = [task EXCEPT ![t] = x]
      BY <1>0, <2>1, <2>4
    <3>3. x \in T!Row /\ x.token = task[t].token /\ x.status \in {"Success", "Rejected"}
      BY <3>1
    <3>4. e \in T!Event /\ e.execution = k
      BY <2>1, <3>1
    <3>5. task[t].status = "ReviewRequired" /\ task[t].execution = k /\ task[t].token = 0
      BY <2>4 DEF T!Reviewable
    <3> HIDE DEF x, e, t, k, d
    <3>6. /\ events' \subseteq T!Event /\ events \subseteq events'
          /\ \E f \in events': f.execution = task[t].execution
      BY <1>0, <2>4, <3>4, <3>5
    <3>7. task' \in [Tasks -> T!Row] /\ RowShape' /\ T!ReportedUntilReviewed'
      BY <1>2, <2>1, <3>2, <3>3, <3>5, <3>6, TaskWritten
    <3> QED
      BY <1>0, <1>2, <1>3, <2>2, <3>6, <3>7 DEF TaskInv, T!TypeOK
  <2> QED
    BY <1>8, <2>3, <2>4 DEF T!Review
<1> QED
  BY <1>2, <1>6, <1>7, <1>8 DEF T!TabStep

\* Definitions, deletions and the passing of time.
LEMMA DefinitionKept ==
    ASSUME TaskInv, NEW t \in Tasks, T!TaskStep(t)
    PROVE  TaskInv' /\ reported \subseteq reported'
<1>0. /\ task \in [Tasks -> T!Row] /\ runner \in [Runs -> T!Runner] /\ tab \in [Tabs -> T!Tab]
      /\ events \subseteq T!Event /\ reported \subseteq Tasks \X (1..MaxRuns)
      /\ taskToken \in Nat \ {0} /\ RunnerShape /\ TabShape
  BY DEF TaskInv, T!TypeOK
<1>1. UNCHANGED <<runner, tab, events, reported, taskToken>>
  BY DEF T!TaskStep, T!CreateTask, T!DeleteTask, T!ClaimExpires
<1>2. RunnerShape' /\ TabShape'
  BY <1>0, <1>1 DEF RunnerShape, TabShape
<1>3. task' \in [Tasks -> T!Row] /\ RowShape' /\ T!ReportedUntilReviewed'
  <2>1. CASE T!CreateTask(t)
    <3>1. task[t].status = "absent" /\ task' = [task EXCEPT ![t] = T!Blank("Pending")]
      BY <2>1 DEF T!CreateTask
    <3> QED
      BY <1>1, <3>1, Built, TaskWritten
  <2>2. CASE T!DeleteTask(t)
    <3>1. task' = [task EXCEPT ![t] = T!Blank("deleted")]
      BY <2>2 DEF T!DeleteTask
    <3> QED
      BY <1>1, <3>1, Built, TaskWritten
  <2>3. CASE T!ClaimExpires(t)
    <3> DEFINE x == [task[t] EXCEPT !.lease = "expired"]
    <3>1. x \in T!Row /\ x.token = task[t].token /\ x.status = task[t].status
          /\ x.execution = task[t].execution
      BY <1>0
    <3>2. task' = [task EXCEPT ![t] = x]
      BY <1>0, <2>3 DEF T!ClaimExpires
    <3>3. x.token # 0 => x.status = "Running" /\ x.execution = x.token
      BY <3>1 DEF TaskInv, RowShape
    <3> HIDE DEF x
    <3> QED
      BY <1>1, <3>1, <3>2, <3>3, TaskWritten
  <2> QED
    BY <2>1, <2>2, <2>3 DEF T!TaskStep
<1> QED
  BY <1>0, <1>1, <1>2, <1>3 DEF TaskInv, T!TypeOK

\* The tasks' part is kept by every step of the tasks, and nothing that was
\* reported is taken back.
LEMMA TaskKept ==
    ASSUME TaskInv, [T!Next]_(T!vars)
    PROVE  TaskInv' /\ reported \subseteq reported'
<1>1. CASE UNCHANGED T!vars
  BY <1>1 DEF T!vars, TaskInv, T!TypeOK, RowShape, RunnerShape, TabShape,
              T!ReportedUntilReviewed
<1> QED
  BY <1>1, RunnerKept, TabKept, DefinitionKept DEF T!Next

-----------------------------------------------------------------------------
(* Each step is a step of the tasks, or leaves them alone. *)

\* What is left of a cancelled execution is one of its own steps.
LEMMA CancelledStep ==
    ASSUME NEW w \in Workers, Cancelled(w)
    PROVE  T!RunnerStep(w) \/ UNCHANGED taskVars
  BY Zenon DEF Cancelled, T!RunnerStep, T!Replies, T!Results

\* The execution of a worker's item is an execution of the task it names: that
\* takes the queue's invariant, since a worker without an item names none.
LEMMA TaskRefined ==
    ASSUME IInv, [PipelineNext]_pipelineVars
    PROVE  [T!Next]_(T!vars)
<1> SUFFICES T!Next \/ UNCHANGED taskVars
  BY DEF taskVars, T!vars
<1>1. ASSUME NEW w \in Workers, TargetStep(w) PROVE T!RunnerStep(w) \/ UNCHANGED taskVars
  <2>1. CASE QueueStep(w) \/ Refused(w)
    BY <2>1 DEF QueueStep, Refused
  <2>2. CASE Begin(w)
    <3>1. worker[w].item \in Items
      BY <2>2 DEF Begin, IInv, WorkerClaims, Busy
    <3>2. Target[worker[w].item] \in Tasks
      BY <3>1, PipelineAssumption
    <3> QED
      BY <2>2, <3>2, Zenon DEF Begin, T!RunnerStep
  <2>3. CASE ExecutionStep(w)
    BY <2>3, Zenon DEF ExecutionStep, TaskRuns, T!RunnerStep, Replies, T!Replies
  <2>4. CASE \E reply \in Replies: QueueHeartbeat(w, reply)
    BY <2>4, CancelledStep DEF QueueHeartbeat
  <2>5. CASE Cleanup(w)
    BY <2>5, Zenon DEF Cleanup, T!RunnerStep, Replies, T!Replies
  <2>6. CASE Shutdown(w)
    <3>1. Cancelled(w) \/ T!Crash(w)
      BY <2>6 DEF Shutdown
    <3>2. T!Crash(w) => T!RunnerStep(w)
      BY Zenon DEF T!RunnerStep
    <3> QED
      BY <3>1, <3>2, CancelledStep
  <2> QED
    BY <1>1, <2>1, <2>2, <2>3, <2>4, <2>5, <2>6, Zenon DEF TargetStep
<1>2. CASE OwnerStep
  <2>1. CASE \E c \in Callers: T!RunnerStep(c)
    BY <2>1, Zenon DEF T!Next
  <2>2. CASE \E u \in Tabs: T!TabStep(u)
    BY <2>2, Zenon DEF T!Next
  <2>3. CASE \E t \in Tasks: T!TaskStep(t)
    BY <2>3, Zenon DEF T!Next
  <2> QED
    BY <1>2, <2>1, <2>2, <2>3 DEF OwnerStep
<1>3. CASE ItemsStep
  BY <1>3 DEF ItemsStep
<1>4. CASE UNCHANGED pipelineVars
  BY <1>4 DEF pipelineVars
<1> QED
  BY <1>1, <1>2, <1>3, <1>4, Zenon DEF PipelineNext, T!Next

-----------------------------------------------------------------------------
(* What links the two. *)

\* Only a completion that was accepted and answered reports a result.
LEMMA NewlyReported ==
    ASSUME NEW w \in Workers, T!RunnerStep(w), reported' # reported
    PROVE  reported' = reported \cup {<<runner[w].task, runner[w].token>>}
           /\ runner[w].pc = "completing"
<1>1. PICK reply \in T!Replies: T!Complete(w, reply)
  BY DEF T!RunnerStep, T!Execute, T!Claim, T!ClaimRefused, T!Heartbeat, T!Answer, T!Crash
<1> QED
  BY <1>1 DEF T!Complete

\* A step of one execution leaves the others alone, and while it goes on it
\* runs the same task.
LEMMA OneRunner ==
    ASSUME TaskInv, NEW r \in Runs, T!RunnerStep(r)
    PROVE  /\ \A s \in Runs \ {r}: runner'[s] = runner[s]
           /\ runner[r].pc # "idle" /\ runner'[r].pc # "idle" =>
                 runner'[r].task = runner[r].task
<1>0. runner \in [Runs -> T!Runner] /\ runner[r] \in T!Runner
  BY DEF TaskInv, T!TypeOK
<1>1. CASE T!Finished(r)
  BY <1>0, <1>1, Built DEF T!Finished
<1>2. ASSUME NEW t \in Tasks, T!Execute(r, t)
      PROVE  runner[r].pc = "idle" /\ \E q: runner' = [runner EXCEPT ![r] = q]
  BY <1>2 DEF T!Execute
<1>3. ASSUME NEW reply \in T!Replies, T!Claim(r, reply)
      PROVE  T!Finished(r) \/ \E k:
                runner' = [runner EXCEPT ![r] = [runner[r] EXCEPT !.pc = "executing", !.token = k]]
  BY <1>3 DEF T!Claim
<1>4. ASSUME NEW reply \in T!Replies, T!Heartbeat(r, reply)
      PROVE  T!Finished(r) \/ runner' = runner \/ \E k:
                runner' = [runner EXCEPT ![r] = [runner[r] EXCEPT !.pc = "completing", !.result = k]]
  BY <1>4 DEF T!Heartbeat
<1>5. ASSUME NEW result \in T!Results, T!Answer(r, result)
      PROVE  \E k:
                runner' = [runner EXCEPT ![r] = [runner[r] EXCEPT !.pc = "completing", !.result = k]]
  BY <1>5 DEF T!Answer
<1>6. CASE \/ T!ClaimRefused(r) \/ T!Crash(r)
           \/ \E reply \in T!Replies: T!Complete(r, reply)
  BY <1>1, <1>6 DEF T!ClaimRefused, T!Crash, T!Complete
<1>7. ASSUME NEW k,
             \/ runner' = [runner EXCEPT ![r] = [runner[r] EXCEPT !.pc = "executing", !.token = k]]
             \/ runner' = [runner EXCEPT ![r] = [runner[r] EXCEPT !.pc = "completing", !.result = k]]
      PROVE  /\ \A s \in Runs \ {r}: runner'[s] = runner[s]
             /\ runner'[r].task = runner[r].task
  <2>1. CASE runner' = [runner EXCEPT ![r] = [runner[r] EXCEPT !.pc = "executing", !.token = k]]
    <3> DEFINE q == [runner[r] EXCEPT !.pc = "executing", !.token = k]
    <3>1. q.task = runner[r].task
      BY <1>0
    <3> HIDE DEF q
    <3>2. runner' = [runner EXCEPT ![r] = q]
      BY <2>1 DEF q
    <3> QED
      BY <1>0, <3>1, <3>2
  <2>2. CASE runner' = [runner EXCEPT ![r] = [runner[r] EXCEPT !.pc = "completing", !.result = k]]
    <3> DEFINE q == [runner[r] EXCEPT !.pc = "completing", !.result = k]
    <3>1. q.task = runner[r].task
      BY <1>0
    <3> HIDE DEF q
    <3>2. runner' = [runner EXCEPT ![r] = q]
      BY <2>2 DEF q
    <3> QED
      BY <1>0, <3>1, <3>2
  <2> QED
    BY <1>7, <2>1, <2>2
<1>8. CASE \E t \in Tasks: T!Execute(r, t)
  BY <1>0, <1>2, <1>8
<1>9. CASE \E reply \in T!Replies: T!Claim(r, reply)
  <2>1. \/ T!Finished(r)
        \/ \E k: runner' = [runner EXCEPT ![r] = [runner[r] EXCEPT !.pc = "executing",
                                                                  !.token = k]]
    BY <1>3, <1>9
  <2> QED
    BY <1>1, <1>7, <2>1
<1>10. CASE \E reply \in T!Replies: T!Heartbeat(r, reply)
  <2>1. \/ T!Finished(r)
        \/ runner' = runner
        \/ \E k: runner' = [runner EXCEPT ![r] = [runner[r] EXCEPT !.pc = "completing",
                                                                  !.result = k]]
    BY <1>4, <1>10
  <2> QED
    BY <1>1, <1>7, <2>1
<1>11. CASE \E result \in T!Results: T!Answer(r, result)
  BY <1>5, <1>7, <1>11
<1> QED
  BY <1>6, <1>8, <1>9, <1>10, <1>11, Zenon DEF T!RunnerStep

\* The links are kept by a step that serves nothing, in which a worker starts
\* to execute only when it has no execution, and acknowledges nothing new.
LEMMA Unserved ==
    ASSUME PipelineInv, [PipelineNext]_pipelineVars, served' = served,
           \A w \in Workers: worker'[w].pc = "acking" => worker[w].pc = "acking",
           \A w \in Workers: worker'[w].pc = "executing" /\ runner'[w].pc # "idle" =>
              runner'[w].task = Target[worker'[w].item]
    PROVE  Linked'
<1>1. reported \subseteq reported'
  BY TaskRefined, TaskKept DEF PipelineInv
<1>2. /\ \A i \in Items: row'[i].status = "completed" =>
            \/ row[i].status = "completed"
            \/ \E w \in Workers: worker[w].pc = "acking" /\ worker[w].item = i
      /\ \A w \in Workers: worker'[w].pc = "acking" => worker'[w].item = worker[w].item
  BY QueueRefined, ItemRows, ItemWorkers DEF PipelineInv
<1>3. \A i \in Items: \A k \in served'[i]: <<Target[i], k>> \in reported'
  BY <1>1 DEF PipelineInv, Linked
<1>4. \A w \in Workers: worker'[w].pc = "acking" => served'[worker'[w].item] # {}
  BY <1>2 DEF PipelineInv, Linked
<1>5. \A i \in Items: row'[i].status = "completed" => served'[i] # {}
  BY <1>2 DEF PipelineInv, Linked
<1> QED
  BY <1>3, <1>4, <1>5 DEF Linked

\* A step of one worker leaves the others alone.
LEMMA OneWorker ==
    ASSUME IInv, NEW w \in Workers, WorkerStep(w)
    PROVE  \A v \in Workers \ {w}: worker'[v] = worker[v]
<1>0. worker \in [Workers -> Worker]
  BY DEF IInv, TypeOK
<1>1. worker' = worker \/ \E x: worker' = [worker EXCEPT ![w] = x]
  <2>1. ASSUME NEW pc, Goto(w, pc) PROVE \E x: worker' = [worker EXCEPT ![w] = x]
    BY <1>0, <2>1 DEF Goto
  <2> QED
    BY <2>1 DEF WorkerStep, Start, Stop, DequeueEmpty, Dequeue,
                Heartbeat, Succeed, Fail, Ack, Nack
<1> QED
  BY <1>0, <1>1

\* A worker that leaves its execution for a nack, or stops, acknowledges
\* nothing.
LEMMA Abandons ==
    ASSUME IInv, NEW w \in Workers,
           Goto(w, "nacking") \/ Stop(w)
    PROVE  /\ worker'[w].pc \in {"nacking", "stopped"}
           /\ \A v \in Workers \ {w}: worker'[v] = worker[v]
<1>0. worker \in [Workers -> Worker] /\ worker[w] \in Worker
  BY DEF IInv, TypeOK
<1>1. CASE Goto(w, "nacking")
  BY <1>0, <1>1 DEF Goto
<1>2. CASE Stop(w)
  BY <1>0, <1>2 DEF Stop, Idle
<1> QED
  BY <1>1, <1>2

\* A worker's turn at the queue, while it executes nothing.
LEMMA QueueTurnLinked ==
    ASSUME PipelineInv, NEW w \in Workers, QueueStep(w), [PipelineNext]_pipelineVars
    PROVE  Linked'
<1>1. WorkerStep(w) /\ served' = served /\ runner' = runner /\ runner[w].pc = "idle"
  BY Zenon DEF QueueStep, WorkerStep, taskVars, Replies
<1>2. \A v \in Workers \ {w}: worker'[v] = worker[v]
  BY <1>1, OneWorker DEF PipelineInv
<1>3. worker[w].pc # "executing"
  BY DEF QueueStep, Start, DequeueEmpty, Dequeue, Ack, Nack
<1>4. \A v \in Workers: worker'[v].pc = "acking" => worker[v].pc \in {"executing", "acking"}
  BY QueueRefined, ItemWorkers DEF PipelineInv
<1>5. \A v \in Workers: worker'[v].pc = "acking" => worker[v].pc = "acking"
  BY <1>2, <1>3, <1>4
<1>6. \A v \in Workers: worker'[v].pc = "executing" /\ runner'[v].pc # "idle" =>
         runner'[v].task = Target[worker'[v].item]
  BY <1>1, <1>2 DEF PipelineInv, Linked
<1> QED
  BY <1>1, <1>5, <1>6, Unserved

\* An execution, by this worker or by hand, that goes on while the queue
\* stands still.
LEMMA RunLinked ==
    ASSUME PipelineInv, NEW r \in Runs, T!RunnerStep(r), UNCHANGED <<vars, served>>,
           [PipelineNext]_pipelineVars,
           \/ r \notin Workers
           \/ worker[r].pc # "executing"
           \/ runner[r].pc # "idle"
           \/ runner'[r].task = Target[worker[r].item]
    PROVE  Linked'
<1>1. worker' = worker /\ served' = served
  BY DEF vars
<1>2. /\ \A s \in Runs \ {r}: runner'[s] = runner[s]
      /\ runner[r].pc # "idle" /\ runner'[r].pc # "idle" =>
            runner'[r].task = runner[r].task
  BY OneRunner DEF PipelineInv
<1>3. \A v \in Workers: worker'[v].pc = "executing" /\ runner'[v].pc # "idle" =>
         runner'[v].task = Target[worker'[v].item]
  BY <1>1, <1>2 DEF PipelineInv, Linked
<1> QED
  BY <1>1, <1>3, Unserved

\* The worker leaves its execution, whatever still becomes of that.
LEMMA AbandonLinked ==
    ASSUME PipelineInv, NEW w \in Workers, Goto(w, "nacking") \/ Stop(w),
           [PipelineNext]_pipelineVars,
           T!RunnerStep(w) \/ UNCHANGED taskVars, served' = served
    PROVE  Linked'
<1>1. /\ worker'[w].pc \in {"nacking", "stopped"}
      /\ \A v \in Workers \ {w}: worker'[v] = worker[v]
  BY Abandons DEF PipelineInv
<1>2. \A s \in Runs \ {w}: runner'[s] = runner[s]
  BY OneRunner DEF PipelineInv, taskVars
<1>3. \A v \in Workers: worker'[v].pc = "executing" /\ runner'[v].pc # "idle" =>
         runner'[v].task = Target[worker'[v].item]
  BY <1>1, <1>2 DEF PipelineInv, Linked
<1> QED
  BY <1>1, <1>3, Unserved

\* The execution returned: its attempt was reported for the item's task, and
\* serves the item.
LEMMA ServedLinked ==
    ASSUME PipelineInv, NEW w \in Workers, T!RunnerStep(w), Succeed(w),
           [PipelineNext]_pipelineVars,
           runner[w].pc # "idle", runner'[w].pc = "idle", reported' # reported,
           served' = [served EXCEPT ![worker[w].item] = @ \cup {runner[w].token}]
    PROVE  Linked' /\ served' \in [Items -> SUBSET (1..MaxRuns)]
<1> DEFINE i == worker[w].item
           k == runner[w].token
<1>1. worker[w].pc = "executing" /\ i \in Items
  BY DEF Succeed, PipelineInv, IInv, WorkerClaims, Busy
<1>2. runner[w].task = Target[i]
  BY <1>1 DEF PipelineInv, Linked
<1>3. reported' = reported \cup {<<Target[i], k>>} /\ runner[w].pc = "completing"
  BY <1>2, NewlyReported
<1>4. k \in 1..MaxRuns
  BY <1>3 DEF PipelineInv, TaskInv, RunnerShape
<1>5. /\ served' \in [Items -> SUBSET (1..MaxRuns)]
      /\ served'[i] = served[i] \cup {k}
      /\ \A j \in Items \ {i}: served'[j] = served[j]
  BY <1>1, <1>4 DEF PipelineInv
<1>6. /\ worker'[w].item = i
      /\ worker'[w].pc = "acking"
      /\ \A v \in Workers \ {w}: worker'[v] = worker[v]
  <2>1. worker \in [Workers -> Worker] /\ worker[w] \in Worker
    BY DEF PipelineInv, IInv, TypeOK
  <2> QED
    BY <2>1 DEF Succeed, Goto
<1>7. \A s \in Runs \ {w}: runner'[s] = runner[s]
  BY OneRunner DEF PipelineInv
<1>8. row' = row
  BY DEF Succeed
<1> HIDE DEF i, k
<1>9. \A v \in Workers: worker'[v].pc = "executing" /\ runner'[v].pc # "idle" =>
         runner'[v].task = Target[worker'[v].item]
  BY <1>6, <1>7 DEF PipelineInv, Linked
<1>10. \A j \in Items: \A m \in served'[j]: <<Target[j], m>> \in reported'
  <2> SUFFICES ASSUME NEW j \in Items, NEW m \in served'[j]
               PROVE  <<Target[j], m>> \in reported'
    OBVIOUS
  <2>1. CASE m \in served[j]
    BY <1>3, <2>1 DEF PipelineInv, Linked
  <2>2. CASE m \notin served[j]
    BY <1>3, <1>5, <2>2
  <2> QED
    BY <2>1, <2>2
<1>11. \A v \in Workers: worker'[v].pc = "acking" => served'[worker'[v].item] # {}
  <2> SUFFICES ASSUME NEW v \in Workers, worker'[v].pc = "acking"
               PROVE  served'[worker'[v].item] # {}
    OBVIOUS
  <2>1. CASE v = w
    BY <1>5, <1>6, <2>1
  <2>2. CASE v # w
    <3>1. worker'[v] = worker[v] /\ worker[v].item \in Items
          /\ served[worker[v].item] # {}
      BY <1>6, <2>2 DEF PipelineInv, IInv, WorkerClaims, Busy, Linked
    <3> QED
      BY <1>5, <3>1
  <2> QED
    BY <2>1, <2>2
<1>12. \A j \in Items: row'[j].status = "completed" => served'[j] # {}
  BY <1>5, <1>8 DEF PipelineInv, Linked
<1> QED
  BY <1>5, <1>9, <1>10, <1>11, <1>12 DEF Linked

\* No step breaks the invariant.
LEMMA PipelineStep == PipelineInv /\ [PipelineNext]_pipelineVars => PipelineInv'
<1> SUFFICES ASSUME PipelineInv, [PipelineNext]_pipelineVars PROVE PipelineInv'
  OBVIOUS
<1>1. IInv' /\ TaskInv'
  BY QueueRefined, NextInv, TaskRefined, TaskKept DEF PipelineInv
<1>2. served' = served => served' \in [Items -> SUBSET (1..MaxRuns)]
  BY DEF PipelineInv
<1>3. ASSUME NEW w \in Workers, TargetStep(w)
      PROVE  Linked' /\ served' \in [Items -> SUBSET (1..MaxRuns)]
  <2>1. CASE QueueStep(w)
    <3>1. served' = served
      BY <2>1 DEF QueueStep
    <3> QED
      BY <1>2, <2>1, <3>1, QueueTurnLinked
  <2>2. CASE Begin(w)
    <3>1. UNCHANGED <<vars, served>> /\ T!Execute(w, Target[worker[w].item])
          /\ worker[w].pc = "executing"
      BY <2>2 DEF Begin
    <3>2. Target[worker[w].item] \in Tasks
      BY <3>1, PipelineAssumption DEF PipelineInv, IInv, WorkerClaims, Busy
    <3>3. T!RunnerStep(w)
      BY <3>1, <3>2, Zenon DEF T!RunnerStep
    <3>4. runner \in [Runs -> T!Runner]
      BY DEF PipelineInv, TaskInv, T!TypeOK
    <3>5. runner'[w].task = Target[worker[w].item]
      BY <3>1, <3>2, <3>4, Built DEF T!Execute
    <3> QED
      BY <1>2, <3>1, <3>3, <3>5, RunLinked
  <2>3. CASE Refused(w)
    <3>1. Goto(w, "nacking") /\ UNCHANGED <<taskVars, served>>
      BY <2>3 DEF Refused, Fail
    <3> QED
      BY <1>2, <3>1, AbandonLinked
  <2>4. CASE ExecutionStep(w)
    <3>1. runner[w].pc # "idle" /\ worker[w].pc = "executing" /\ Outcome(w)
      BY <2>4 DEF ExecutionStep
    <3>2. T!RunnerStep(w)
      BY <2>4, Zenon DEF ExecutionStep, TaskRuns, T!RunnerStep, Replies, T!Replies
    <3>3. CASE UNCHANGED <<vars, served>>
      BY <1>2, <3>1, <3>2, <3>3, RunLinked
    <3>4. CASE Fail(w) /\ UNCHANGED served
      <4>1. Goto(w, "nacking")
        BY <3>4 DEF Fail
      <4> QED
        BY <1>2, <3>2, <3>4, <4>1, AbandonLinked
    <3>5. CASE /\ runner'[w].pc = "idle" /\ reported' # reported /\ Succeed(w)
               /\ served' = [served EXCEPT ![worker[w].item] = @ \cup {runner[w].token}]
      BY <3>1, <3>2, <3>5, ServedLinked
    <3> QED
      BY <3>1, <3>3, <3>4, <3>5 DEF Outcome
  <2>5. CASE \E reply \in Replies: QueueHeartbeat(w, reply)
    <3>1. Goto(w, "nacking") /\ Cancelled(w) /\ served' = served
      BY <2>5 DEF QueueHeartbeat, Heartbeat
    <3> QED
      BY <1>2, <3>1, CancelledStep, AbandonLinked
  <2>6. CASE Cleanup(w)
    <3>1. T!RunnerStep(w)
      BY <2>6, Zenon DEF Cleanup, T!RunnerStep, Replies, T!Replies
    <3>2. worker[w].pc # "executing" /\ UNCHANGED <<vars, served>>
      BY <2>6 DEF Cleanup
    <3> QED
      BY <1>2, <3>1, <3>2, RunLinked
  <2>7. CASE Shutdown(w)
    <3>1. Stop(w) /\ served' = served /\ (Cancelled(w) \/ T!Crash(w))
      BY <2>7 DEF Shutdown
    <3>2. T!Crash(w) => T!RunnerStep(w)
      BY Zenon DEF T!RunnerStep
    <3> QED
      BY <1>2, <3>1, <3>2, CancelledStep, AbandonLinked
  <2> QED
    BY <1>3, <2>1, <2>2, <2>3, <2>4, <2>5, <2>6, <2>7, Zenon DEF TargetStep
<1>4. CASE OwnerStep
  <2>1. UNCHANGED <<vars, served>> /\ served' = served /\ worker' = worker
    BY <1>4 DEF OwnerStep, vars
  <2>2. ASSUME NEW c \in Callers, T!RunnerStep(c) PROVE Linked'
    <3>1. c \notin Workers
      BY PipelineAssumption
    <3> QED
      BY <2>1, <2>2, <3>1, RunLinked
  <2>3. ASSUME (\E u \in Tabs: T!TabStep(u)) \/ \E t \in Tasks: T!TaskStep(t)
        PROVE  Linked'
    <3>1. runner' = runner
      BY <2>3 DEF T!TabStep, T!View, T!Submit, T!Review,
                  T!TaskStep, T!CreateTask, T!DeleteTask, T!ClaimExpires
    <3>2. \A v \in Workers: worker'[v].pc = "executing" /\ runner'[v].pc # "idle" =>
             runner'[v].task = Target[worker'[v].item]
      BY <2>1, <3>1 DEF PipelineInv, Linked
    <3>3. \A v \in Workers: worker'[v].pc = "acking" => worker[v].pc = "acking"
      BY <2>1
    <3>4. served' = served
      BY <2>1
    <3> QED
      BY <3>2, <3>3, <3>4, Unserved
  <2> QED
    BY <1>1, <1>2, <1>4, <2>1, <2>2, <2>3 DEF OwnerStep, PipelineInv
<1>5. CASE ItemsStep
  <2>1. worker' = worker /\ runner' = runner /\ served' = served
    BY <1>5 DEF ItemsStep, taskVars, ItemStep, Enqueue, ClaimExpires, BecomeAvailable
  <2>2. \A v \in Workers: worker'[v].pc = "executing" /\ runner'[v].pc # "idle" =>
           runner'[v].task = Target[worker'[v].item]
    BY <2>1 DEF PipelineInv, Linked
  <2>3. Linked'
    BY <2>1, <2>2, Unserved
  <2> QED
    BY <1>1, <1>2, <2>1, <2>3 DEF PipelineInv
<1>6. CASE UNCHANGED pipelineVars
  <2>1. Linked'
    BY <1>6 DEF pipelineVars, vars, taskVars, PipelineInv, Linked
  <2> QED
    BY <1>1, <1>2, <1>6, <2>1 DEF pipelineVars, PipelineInv
<1>7. ASSUME NEW w \in Workers, TargetStep(w) PROVE PipelineInv'
  BY <1>1, <1>3, <1>7 DEF PipelineInv
<1> QED
  BY <1>4, <1>5, <1>6, <1>7 DEF PipelineNext

\* Nothing was queued, run or reported.
LEMMA PipelineBegins == PipelineInit => PipelineInv
<1> SUFFICES ASSUME PipelineInit PROVE PipelineInv
  OBVIOUS
<1>1. IInv
  BY InitInv DEF PipelineInit
<1>2. TaskInv
  <2>1. T!TypeOK /\ RunnerShape /\ TabShape /\ taskToken # 0
    <3>1. task \in [Tasks -> T!Row]
      BY Built DEF PipelineInit, T!Init
    <3> QED
      BY <3>1, Built DEF PipelineInit, T!Init, T!TypeOK, RunnerShape, TabShape
  <2>2. RowShape
    BY Built DEF PipelineInit, T!Init, RowShape
  <2>3. T!ReportedUntilReviewed
    BY DEF PipelineInit, T!Init, T!ReportedUntilReviewed
  <2> QED
    BY <2>1, <2>2, <2>3 DEF TaskInv
<1>3. Linked
  <2>1. \A i \in Items: row[i].status = "absent"
    BY DEF PipelineInit, Init, Absent
  <2>2. \A w \in Workers: worker[w].pc = "stopped"
    BY DEF PipelineInit, Init, Idle
  <2> QED
    BY <2>1, <2>2 DEF PipelineInit, Linked
<1> QED
  BY <1>1, <1>2, <1>3 DEF PipelineInit, PipelineInv

-----------------------------------------------------------------------------
(* The theorems on the composition. *)

\* The inductive invariant holds in every reachable state.
THEOREM PipelineInvariant == PipelineSpec => []PipelineInv
  BY PipelineBegins, PipelineStep, PTL DEF PipelineSpec

\* Rows, locals and histories of both parts always have their types.
THEOREM PipelineTypes == PipelineSpec => []PipelineTypeOK
<1>1. PipelineInv => PipelineTypeOK
  BY DEF PipelineInv, IInv, TaskInv, PipelineTypeOK
<1> QED
  BY <1>1, PipelineInvariant, PTL

\* Seen from the tasks, workers and the owner's calls are executions like any
\* other: what holds of every behaviour of SavedTask holds here.
THEOREM PipelineTasks == PipelineSpec => TaskBehaves
<1>1. PipelineInit => T!Init
  BY DEF PipelineInit
<1>2. PipelineInv => IInv
  BY DEF PipelineInv
<1>3. IInv /\ [PipelineNext]_pipelineVars => [T!Next]_(T!vars)
  BY TaskRefined
<1> QED
  BY <1>1, <1>2, <1>3, PipelineInvariant, PTL DEF PipelineSpec, TaskBehaves, T!Spec

\* _execute_claimed_queue_item completes an item only for a result that its
\* owner can still find, has decided on, or deleted: whichever of the two
\* claims lapses, whoever runs the task meanwhile.
THEOREM PipelineEvidence == PipelineSpec => []CompletedLeavesEvidence
<1>1. PipelineInv => CompletedLeavesEvidence
  <2> SUFFICES ASSUME PipelineInv, NEW i \in Items, row[i].status = "completed"
               PROVE  \E k \in served[i]:
                         \/ task[Target[i]].execution = k
                            /\ task[Target[i]].status = "ReviewRequired"
                         \/ \E e \in events: e.execution = k
                         \/ task[Target[i]].status = "deleted"
    BY DEF CompletedLeavesEvidence
  <2>1. PICK k \in served[i]: TRUE
    BY DEF PipelineInv, Linked
  <2>2. /\ <<Target[i], k>> \in reported /\ k \in 1..MaxRuns /\ Target[i] \in Tasks
        /\ T!ReportedUntilReviewed
    BY <2>1, PipelineAssumption DEF PipelineInv, Linked, TaskInv
  <2>3. \/ task[Target[i]].execution = k /\ task[Target[i]].status = "ReviewRequired"
        \/ \E e \in events: e.execution = k
        \/ task[Target[i]].status = "deleted"
    BY <2>2, Zenon DEF T!ReportedUntilReviewed
  <2> QED
    BY <2>1, <2>3
<1> QED
  BY <1>1, PipelineInvariant, PTL

-----------------------------------------------------------------------------
(* What a fenced lease guarantees, for any rows and any owners: the queue's *)
(* items and workers, the saved tasks and their executions, the schedules   *)
(* and their schedulers.                                                    *)

CONSTANTS Resources, Owners, None
VARIABLES token, lease, gone, belief, next

L == INSTANCE FencedLease

\* Rows and owners hold tokens that were issued; no token has two owners.
LeaseInv ==
    /\ next \in Nat \ {0}
    /\ token \in [Resources -> Nat]
    /\ \A r \in Resources: token[r] < next
    /\ belief \in [Owners -> (Resources \X Nat) \cup {None}]
    /\ \A o \in Owners: belief[o] # None =>
          belief[o][2] # 0 /\ belief[o][2] < next
    /\ \A o, p \in Owners:
          belief[o] # None /\ belief[p] # None /\ belief[o][2] = belief[p][2] => o = p

\* A pair's components.
LEMMA LeasePair == ASSUME NEW r, NEW k PROVE <<r, k>>[1] = r /\ <<r, k>>[2] = k
  OBVIOUS

\* A grant gives a new token to one row, and at most one owner hears of it.
LEMMA LeaseAcquire ==
    ASSUME LeaseInv, NEW o \in Owners, NEW r \in Resources,
           NEW swept \in SUBSET L!Expired, L!Acquire(o, r, swept)
    PROVE  LeaseInv'
<1>1. next' \in Nat \ {0} /\ next' = next + 1 /\ next \in Nat
  BY DEF LeaseInv, L!Acquire
<1>2. token' \in [Resources -> Nat] /\ \A x \in Resources: token'[x] < next'
  BY <1>1 DEF LeaseInv, L!Acquire
<1>3. CASE belief' = belief
  BY <1>1, <1>2, <1>3 DEF LeaseInv
<1>4. CASE belief' = [belief EXCEPT ![o] = <<r, next>>]
  <2>1. /\ belief'[o] = <<r, next>>
        /\ \A p \in Owners: p # o => belief'[p] = belief[p]
        /\ belief' \in [Owners -> (Resources \X Nat) \cup {None}]
    BY <1>1, <1>4 DEF LeaseInv
  <2>2. belief'[o][2] = next
    BY <2>1, LeasePair
  <2>3. \A p \in Owners: belief'[p] # None => belief'[p][2] # 0 /\ belief'[p][2] < next'
    BY <1>1, <2>1, <2>2 DEF LeaseInv
  <2>4. \A p \in Owners: p # o /\ belief'[p] # None => belief'[p][2] # belief'[o][2]
    BY <1>1, <2>1, <2>2 DEF LeaseInv
  <2>5. \A p, q \in Owners:
          belief'[p] # None /\ belief'[q] # None /\ belief'[p][2] = belief'[q][2]
             => p = q
    BY <2>1, <2>4 DEF LeaseInv
  <2> QED
    BY <1>1, <1>2, <2>1, <2>3, <2>5 DEF LeaseInv
<1> QED
  BY <1>3, <1>4 DEF L!Acquire

\* Every step keeps the invariant.
LEMMA LeaseStep == LeaseInv /\ [L!Next]_(L!vars) => LeaseInv'
<1> SUFFICES ASSUME LeaseInv, [L!Next]_(L!vars) PROVE LeaseInv'
  OBVIOUS
<1>1. ASSUME NEW o \in Owners, NEW r \in Resources, NEW swept \in SUBSET L!Expired,
             L!Acquire(o, r, swept)
      PROVE  LeaseInv'
  BY <1>1, LeaseAcquire
<1>2. ASSUME NEW swept \in SUBSET L!Expired, L!Sweep(swept)
      PROVE  LeaseInv'
  BY <1>2 DEF LeaseInv, L!Sweep
<1>3. ASSUME NEW o \in Owners, L!Release(o)
      PROVE  LeaseInv'
  <2>1. token' \in [Resources -> Nat] /\ (\A r \in Resources: token'[r] < next')
        /\ next' = next
    <3>1. ASSUME NEW r \in Resources
          PROVE  token'[r] \in {0, token[r]}
      BY <1>3 DEF LeaseInv, L!Release
    <3>2. DOMAIN token' = Resources /\ token' = [r \in Resources |-> token'[r]]
      BY <1>3 DEF LeaseInv, L!Release
    <3>3. token' \in [Resources -> Nat]
      BY <3>1, <3>2 DEF LeaseInv
    <3>4. \A r \in Resources: token'[r] < next
      BY <3>1 DEF LeaseInv
    <3>5. next' = next
      BY <1>3 DEF L!Release
    <3> QED
      BY <3>3, <3>4, <3>5
  <2>2. CASE belief' = belief
    BY <2>1, <2>2 DEF LeaseInv
  <2>3. CASE belief' = [belief EXCEPT ![o] = None]
    BY <2>1, <2>3 DEF LeaseInv
  <2> QED
    BY <1>3, <2>2, <2>3 DEF L!Release
<1>4. ASSUME NEW o \in Owners, L!Forget(o)
      PROVE  LeaseInv'
  BY <1>4 DEF LeaseInv, L!Forget
<1>5. ASSUME NEW r \in Resources, L!Lapse(r) \/ L!Withdraw(r)
      PROVE  LeaseInv'
  BY <1>5 DEF LeaseInv, L!Lapse, L!Withdraw
<1>6. CASE UNCHANGED L!vars
  BY <1>6 DEF LeaseInv, L!vars
<1> QED
  BY <1>1, <1>2, <1>3, <1>4, <1>5, <1>6 DEF L!Next

\* Nothing is granted or remembered at first.
LEMMA LeaseInit == L!Init => LeaseInv
  BY DEF L!Init, LeaseInv

\* The invariant always holds.
THEOREM LeaseInvariant == L!Spec => []LeaseInv
  BY LeaseInit, LeaseStep, PTL DEF L!Spec

\* No two owners may settle the same row: what ack, nack, complete_task and
\* complete_cron_claim accept is the memory of at most one process.
THEOREM LeaseOneSettler == L!Spec => []L!OneSettler
<1>1. LeaseInv => L!OneSettler
  <2> SUFFICES ASSUME LeaseInv, NEW o \in Owners, NEW p \in Owners,
                      L!Valid(o), L!Valid(p),
                      belief[o][1] = belief[p][1]
               PROVE  o = p
    BY DEF L!OneSettler
  <2>1. belief[o][2] = belief[p][2]
    BY DEF L!Valid
  <2> QED
    BY <2>1 DEF L!Valid, LeaseInv
<1> QED
  BY <1>1, LeaseInvariant, PTL

\* An owner that lost its grant never gets it back, whatever is granted,
\* released or deleted after it.
THEOREM LeaseStaleForGood == L!Spec => L!StaleForGood
<1> DEFINE Stale == \A o \in Owners:
              belief[o] # None /\ ~L!Valid(o) /\ belief'[o] = belief[o] =>
                 token'[belief[o][1]] # belief[o][2]
<1>1. LeaseInv /\ [L!Next]_(L!vars) => [Stale]_(L!vars)
  <2> SUFFICES ASSUME LeaseInv, L!Next, NEW o \in Owners,
                      belief[o] # None, ~L!Valid(o), belief'[o] = belief[o]
               PROVE  token'[belief[o][1]] # belief[o][2]
    OBVIOUS
  <2>1. /\ belief[o][1] \in Resources /\ belief[o][2] \in Nat
        /\ belief[o][2] # 0 /\ belief[o][2] < next
        /\ token[belief[o][1]] # belief[o][2]
    BY DEF LeaseInv, L!Valid
  <2>2. token'[belief[o][1]] \in {token[belief[o][1]], 0, next}
    <3>1. ASSUME NEW p \in Owners, NEW r \in Resources,
                 NEW swept \in SUBSET L!Expired, L!Acquire(p, r, swept)
          PROVE  token'[belief[o][1]] \in {token[belief[o][1]], 0, next}
      BY <2>1, <3>1 DEF L!Acquire
    <3>2. ASSUME NEW swept \in SUBSET L!Expired, L!Sweep(swept)
          PROVE  token'[belief[o][1]] \in {token[belief[o][1]], 0, next}
      BY <2>1, <3>2 DEF L!Sweep
    <3>3. ASSUME NEW p \in Owners, L!Release(p) \/ L!Forget(p)
          PROVE  token'[belief[o][1]] \in {token[belief[o][1]], 0, next}
      BY <2>1, <3>3 DEF L!Release, L!Forget, LeaseInv
    <3>4. ASSUME NEW r \in Resources, L!Lapse(r) \/ L!Withdraw(r)
          PROVE  token'[belief[o][1]] \in {token[belief[o][1]], 0, next}
      BY <2>1, <3>4 DEF L!Lapse, L!Withdraw, LeaseInv
    <3> QED
      BY <3>1, <3>2, <3>3, <3>4 DEF L!Next
  <2> QED
    BY <2>1, <2>2 DEF LeaseInv
<1> QED
  BY <1>1, LeaseInvariant, PTL DEF L!Spec, L!StaleForGood

\* However often an item is delivered, and however many items name the task:
\* of two executions that ended well for the queue, the owner has decided on
\* one, or has deleted the task.
THEOREM PipelineRerun == PipelineSpec => []RerunOnlyAfterReview
<1>1. PipelineInv => RerunOnlyAfterReview
  <2> SUFFICES ASSUME PipelineInv,
                      NEW i \in Items, NEW h \in Items,
                      NEW j \in served[i], NEW k \in served[h],
                      Target[i] = Target[h], j # k
               PROVE  \/ \E e \in events: e.execution \in {j, k}
                      \/ task[Target[i]].status = "deleted"
    BY DEF RerunOnlyAfterReview
  <2>1. /\ <<Target[i], j>> \in reported /\ <<Target[i], k>> \in reported
        /\ j \in 1..MaxRuns /\ k \in 1..MaxRuns /\ Target[i] \in Tasks
    BY PipelineAssumption DEF PipelineInv, Linked
  <2>2. ~(task[Target[i]].execution = j /\ task[Target[i]].execution = k)
    OBVIOUS
  <2> QED
    BY <2>1, <2>2 DEF PipelineInv, TaskInv, T!ReportedUntilReviewed
<1> QED
  BY <1>1, PipelineInvariant, PTL

=============================================================================
