-------------------------- MODULE MedusaRunProofs --------------------------
(***************************************************************************)
(* The safety of Agent Medusa runs, for any workers, calls, operators,     *)
(* ledger settings and faults.                                             *)
(***************************************************************************)
EXTENDS MedusaRun, FiniteSetTheorems, TLAPS

Entered == Registering \cup {"work"}

\* The call's ExecutionRun is the entry of its worker's registry: it is on its
\* way, or it left a heartbeat behind.
Kept(c) == run[c].pc \in Entered \/ run[c].beat # "off"

\* A call's fields hang together, and with the registry, the ledger's setting
\* and the history.
Shape(c) ==
    /\ run[c].pc = "idle" => run[c].status = "none"
    /\ run[c].pc \in Entered \cup Ending => run[c].worker \in Workers
    /\ Kept(c) => /\ run[c].worker \in Workers /\ run[c].status \in Live
                  /\ registry[run[c].worker] = c
    /\ run[c].pc \in {"idle", "ledger"} => ~run[c].durable
    /\ run[c].pc \in {"idle", "ledger", "claim", "record", "release", "unregister"} =>
          ~run[c].shared
    /\ run[c].pc \in {"compensate", "endshared"} => run[c].shared
    /\ run[c].pc \in {"running", "compensate", "endledger"} => run[c].durable
    /\ run[c].pc = "endshared" => ~run[c].durable /\ run[c].status \in Ended
    /\ run[c].durable \/ run[c].pc = "ledger" => ledgerOn
    /\ ledgerOn /\ run[c].pc \notin {"idle", "ledger", "over"} => run[c].durable
    /\ ledgerOn /\ c \in worked => run[c].durable
    /\ run[c].pc \in Registering \cup {"idle"} => c \notin worked
    /\ run[c].beat # "off" => run[c].pc \in {"work", "over"} /\ run[c].shared

\* The ledger's insertion succeeds for one call.
DurableOnce ==
    /\ \A c \in Calls: run[c].durable => ledger.status # "absent"
    /\ \A c, d \in Calls: run[c].durable /\ run[d].durable => c = d

\* A call's state that stands on the claim key (Holding).
Holds(r) == r.pc \notin {"idle", "over"} /\ (r.shared \/ r.pc = "record")

\* As long as no claim lapsed: a call that stands on the claim has it, alone;
\* a call about to release a claim, or a heartbeat left behind, cannot release
\* another one's; the record is that of the call that holds the claim.
ClaimInv ==
    ~lapsed =>
        /\ \A c \in Calls: Holds(run[c]) => claim = run[c].worker
        /\ \A c, d \in Calls: Holds(run[c]) /\ Holds(run[d]) => c = d
        /\ \A c, d \in Calls: Holds(run[c]) /\ run[d].pc = "release" =>
              run[c].worker # run[d].worker
        /\ \A c, d \in Calls: Holds(run[c]) /\ run[d].beat # "off" /\ c # d =>
              run[c].worker # run[d].worker
        /\ \A c \in Calls: Holds(run[c]) /\ run[c].shared =>
              record.by = c /\ record.owner = run[c].worker

\* The request of k to the worker that runs the call is under way or accepted.
Requested(k) == op[k].pc \in {"shared", "durable", "accepted"} /\ op[k].call # NoCall

\* A local request stands alone, and the call is marked with it.
OpInv ==
    /\ \A k \in Operators:
          /\ op[k].pc \in {"shared", "durable"} =>
                op[k].call \in Calls /\ op[k].worker \in Workers
          /\ op[k].pc \in {"idle", "remote", "remotedurable"} => op[k].call = NoCall
          /\ op[k].pc = "durable" => run[op[k].call].durable
          /\ Requested(k) => run[op[k].call].status \in {"cancelling", "cancelled"}
    /\ \A j, k \in Operators:
          Requested(j) /\ Requested(k) /\ op[j].call = op[k].call => j = k

\* The inductive invariant.
IInv ==
    /\ TypeOK
    /\ \A c \in Calls: Shape(c)
    /\ DurableOnce
    /\ ClaimInv
    /\ SharedAgrees
    /\ OpInv

USE DEF Ended, Live, Open, Registering, Ending, Run, Record, Ledger, Op, Entered

-----------------------------------------------------------------------------
(* Lemmas on the state of a call and on the stores. *)

\* The step changes call c alone, to r.
Becomes(c, r) == run' = [run EXCEPT ![c] = r]

\* Other calls keep their state.
LEMMA BecomesOne ==
    ASSUME TypeOK, NEW c \in Calls, NEW r \in Run, Becomes(c, r)
    PROVE  /\ run' \in [Calls -> Run] /\ run'[c] = r
           /\ \A d \in Calls \ {c}: run'[d] = run[d]
  BY DEF TypeOK, Becomes

\* What keeps its value when a call goes on at another pc.
Stays(c, r) ==
    /\ r.worker = run[c].worker
    /\ r.status = run[c].status
    /\ r.durable = run[c].durable

PCs == {"idle", "work", "over"} \cup Registering \cup Ending

\* Goes changes the pc.
LEMMA GoesMoves ==
    ASSUME TypeOK, NEW c \in Calls, NEW pc \in PCs, Goes(c, pc)
    PROVE  \E r \in Run: /\ Becomes(c, r) /\ Stays(c, r) /\ r.pc = pc
                         /\ r.shared = run[c].shared /\ r.beat = run[c].beat
<1> DEFINE r == [run[c] EXCEPT !.pc = pc]
<1>1. run[c] \in Run
  BY DEF TypeOK
<1>2. /\ r \in Run /\ r.pc = pc /\ r.shared = run[c].shared
      /\ r.beat = run[c].beat /\ Stays(c, r)
  BY <1>1 DEF PCs, Stays
<1>3. Becomes(c, r)
  BY <1>1 DEF Goes, Becomes, TypeOK
<1> HIDE DEF r
<1> QED
  BY <1>2, <1>3

\* Proceed changes the pc, shared, and the heartbeat.
LEMMA ProceedMoves ==
    ASSUME TypeOK, NEW c \in Calls, NEW pc \in PCs, NEW shared \in BOOLEAN,
           Proceed(c, pc, shared)
    PROVE  \E r \in Run: /\ Becomes(c, r) /\ Stays(c, r) /\ r.pc = pc
                         /\ r.shared = shared
                         /\ r.beat = IF pc = "work" /\ shared THEN "on" ELSE "off"
<1> DEFINE b == IF pc = "work" /\ shared THEN "on" ELSE "off"
           r == [run[c] EXCEPT !.pc = pc, !.shared = shared, !.beat = b]
<1>1. run[c] \in Run /\ b \in {"off", "on", "asked"}
  BY DEF TypeOK
<1> HIDE DEF b
<1>2. /\ r \in Run /\ r.pc = pc /\ r.shared = shared /\ r.beat = b /\ Stays(c, r)
  <2> DEFINE n == [run[c] EXCEPT !.pc = pc]
  <2>1. n \in Run /\ n.pc = pc /\ Stays(c, n)
    BY <1>1 DEF PCs, Stays
  <2>2. r = [n EXCEPT !.shared = shared, !.beat = b]
    BY <1>1
  <2> HIDE DEF n, r
  <2> QED
    BY ZenonT(60), <1>1, <2>1, <2>2 DEF Stays
<1>3. Becomes(c, r)
  BY <1>1 DEF Proceed, Becomes, TypeOK, b
<1> HIDE DEF r
<1> QED
  BY <1>2, <1>3 DEF b

\* The ledger after a request to cancel: a row it refuses stays as it is, so an
\* inserted row stays inserted.
LEMMA MarkedCancellingType ==
    ASSUME TypeOK
    PROVE  /\ MarkedCancelling \in Ledger
           /\ ledger.status # "absent" => MarkedCancelling.status # "absent"
<1> DEFINE l == [ledger EXCEPT !.status = "cancellation_requested"]
<1>1. l \in Ledger /\ l.status = "cancellation_requested"
  BY DEF TypeOK
<1>2. MarkedCancelling = ledger \/ MarkedCancelling = l
  BY DEF MarkedCancelling
<1> HIDE DEF l
<1> QED
  BY <1>1, <1>2 DEF TypeOK

\* A shared request changes neither owner nor author of the record, and ends
\* no run.
LEMMA AskedRecord ==
    ASSUME TypeOK
    PROVE  /\ Asked \in Record /\ Asked.by = record.by /\ Asked.owner = record.owner
           /\ Asked.status = "cancelling"
  BY DEF TypeOK, Asked

\* What a landed call leaves in the ledger: a row stays a row, and the insertion
\* makes one.
LEMMA LedgerAfterType ==
    ASSUME IInv, NEW c \in Calls
    PROVE  /\ LedgerAfter(c) \in Ledger
           /\ ledger.status # "absent" => LedgerAfter(c).status # "absent"
           /\ run[c].pc = "ledger" => LedgerAfter(c).status # "absent"
<1>1. run[c] \in Run /\ ledger \in Ledger
  BY DEF IInv, TypeOK
<1>2. CASE run[c].pc = "ledger" /\ Insertable
  <2>1. LedgerAfter(c) = [status |-> "created", owner |-> run[c].worker]
    BY <1>2 DEF LedgerAfter
  <2> QED
    BY <1>1, <2>1
<1>3. CASE run[c].pc = "running" /\ Startable(c)
  <2> DEFINE l == [ledger EXCEPT !.status = "running"]
  <2>1. LedgerAfter(c) = l
    BY <1>3 DEF LedgerAfter
  <2>2. l \in Ledger /\ l.status = "running"
    BY <1>1
  <2> HIDE DEF l
  <2> QED
    BY <1>3, <2>1, <2>2
<1>4. CASE ~(run[c].pc = "ledger" /\ Insertable) /\ ~(run[c].pc = "running" /\ Startable(c))
  <2>1. LedgerAfter(c) = ledger
    BY <1>4 DEF LedgerAfter
  <2> QED
    BY <1>1, <1>4, <2>1 DEF Insertable
<1> QED
  BY <1>2, <1>3, <1>4

\* What a landed call leaves in Redis, by the place of the call.
LEMMA SharedAfter ==
    ASSUME IInv, NEW c \in Calls
    PROVE  /\ run[c].pc \notin {"claim", "release", "compensate", "endshared"} =>
                ClaimAfter(c) = claim
           /\ run[c].pc = "claim" => \/ Claimable /\ ClaimAfter(c) = run[c].worker
                                     \/ ~Claimable /\ ClaimAfter(c) = claim
           /\ run[c].pc = "release" => \/ claim = run[c].worker /\ ClaimAfter(c) = NoWorker
                                       \/ ClaimAfter(c) = claim
           /\ ClaimAfter(c) \in Workers \cup {NoWorker}
           /\ run[c].pc \notin {"record", "compensate", "endshared"} =>
                RecordAfter(c) = record
           /\ run[c].pc = "record" =>
                RecordAfter(c) = [status |-> "running", owner |-> run[c].worker,
                                  asked |-> FALSE, by |-> c]
           /\ run[c].pc \in {"compensate", "endshared"} =>
                \/ RecordAfter(c) = record
                \/ RecordAfter(c) = [record EXCEPT !.status = EndStatus(c)]
           /\ RecordAfter(c) \in Record
<1>1. /\ run[c] \in Run /\ claim \in Workers \cup {NoWorker} /\ record \in Record
      /\ Shape(c)
  BY DEF IInv, TypeOK
<1>2. /\ run[c].pc \notin {"claim", "release", "compensate", "endshared"} =>
            ClaimAfter(c) = claim
      /\ run[c].pc = "claim" => \/ Claimable /\ ClaimAfter(c) = run[c].worker
                                \/ ~Claimable /\ ClaimAfter(c) = claim
      /\ run[c].pc = "release" => \/ claim = run[c].worker /\ ClaimAfter(c) = NoWorker
                                  \/ ClaimAfter(c) = claim
      /\ ClaimAfter(c) \in Workers \cup {NoWorker}
  BY <1>1 DEF ClaimAfter
<1>3. /\ run[c].pc \notin {"record", "compensate", "endshared"} =>
            RecordAfter(c) = record
      /\ run[c].pc = "record" =>
            RecordAfter(c) = [status |-> "running", owner |-> run[c].worker,
                              asked |-> FALSE, by |-> c]
      /\ run[c].pc \in {"compensate", "endshared"} =>
            \/ RecordAfter(c) = record
            \/ RecordAfter(c) = [record EXCEPT !.status = EndStatus(c)]
  BY <1>1 DEF RecordAfter
<1>4. run[c].pc \in {"compensate", "endshared"} => EndStatus(c) \in Ended
  BY <1>1 DEF Shape, EndStatus
<1>5. RecordAfter(c) \in Record
  <2>1. CASE run[c].pc = "record"
    <3>1. [status |-> "running", owner |-> run[c].worker, asked |-> FALSE, by |-> c]
            \in Record
      BY <1>1
    <3> QED
      BY <1>3, <2>1, <3>1
  <2>2. CASE run[c].pc \in {"compensate", "endshared"}
    <3>1. [record EXCEPT !.status = EndStatus(c)] \in Record
      BY <1>1, <1>4, <2>2
    <3> QED
      BY <1>1, <1>3, <2>2, <3>1
  <2> QED
    BY <1>1, <1>3, <2>1, <2>2
<1> QED
  BY <1>2, <1>3, <1>5

-----------------------------------------------------------------------------
(* The invariant holds initially and is preserved by every action. *)

\* No call has begun.
LEMMA InitInv == Init => IInv
<1> SUFFICES ASSUME Init PROVE IInv
  OBVIOUS
<1>1. TypeOK
  BY MedusaAssumption DEF Init, TypeOK, NoRecord
<1>2. \A c \in Calls: Shape(c)
  BY DEF Init, Shape, Kept
<1>3. DurableOnce
  BY DEF Init, DurableOnce
<1>4. ClaimInv /\ SharedAgrees
  BY DEF Init, ClaimInv, SharedAgrees, Holds, NoRecord
<1>5. OpInv
  BY DEF Init, OpInv, Requested
<1> QED
  BY <1>1, <1>2, <1>3, <1>4, <1>5 DEF IInv

\* The other calls' entries stay in the registries.
EntriesStay(c) ==
    \A d \in Calls \ {c}:
        Kept(d) => registry'[run[d].worker] = registry[run[d].worker]

\* A step that leaves call c well-shaped, the others alone, and inserts the
\* ledger's row for c at most once.
LEMMA CallStepInv ==
    ASSUME IInv, TypeOK', NEW c \in Calls, NEW r \in Run, Becomes(c, r),
           UNCHANGED ledgerOn,
           EntriesStay(c),
           worked' \in {worked, worked \cup {c}},
           Shape(c)',
           r.durable => run[c].durable \/ ledger.status = "absent",
           r.durable \/ ledger.status # "absent" => ledger'.status # "absent",
           ClaimInv', SharedAgrees', OpInv'
    PROVE  IInv'
<1>1. run'[c] = r /\ \A d \in Calls \ {c}: run'[d] = run[d]
  BY BecomesOne DEF IInv
<1>2. ASSUME NEW d \in Calls PROVE Shape(d)'
  <2>1. CASE d # c
    <3>1. Shape(d) /\ run'[d] = run[d]
      BY <1>1, <2>1 DEF IInv
    <3>2. Kept(d)' <=> Kept(d)
      BY <3>1 DEF Kept
    <3>3. d \in worked' <=> d \in worked
      BY <2>1 DEF IInv, TypeOK
    <3> QED
      BY <2>1, <3>1, <3>2, <3>3 DEF Shape, EntriesStay
  <2> QED
    BY <2>1
<1>3. DurableOnce'
  BY <1>1 DEF IInv, DurableOnce
<1> QED
  BY <1>2, <1>3 DEF IInv

\* The operators' requests are not touched by a step that keeps a marked call
\* marked and a durable one durable.
LEMMA OpKeeps ==
    ASSUME IInv, NEW c \in Calls, NEW r \in Run, Becomes(c, r), UNCHANGED op,
           run[c].status \in {"cancelling", "cancelled"} =>
              r.status \in {"cancelling", "cancelled"},
           run[c].durable => r.durable
    PROVE  OpInv'
<1>1. run'[c] = r /\ \A d \in Calls \ {c}: run'[d] = run[d]
  BY BecomesOne DEF IInv
<1>2. ASSUME NEW k \in Operators, Requested(k) PROVE op[k].call \in Calls
  BY <1>2 DEF IInv, TypeOK, Requested
<1> QED
  BY <1>1, <1>2 DEF IInv, OpInv, Requested

\* The record's end is told of a call that is over and stays so: a step that
\* ends no record leaves that as it is.
LEMMA AgreesKeeps ==
    ASSUME IInv, UNCHANGED ledgerOn, lapsed => lapsed',
           record'.by = record.by, record'.owner = record.owner,
           record'.status \in Ended => record'.status = record.status,
           \A d \in Calls: run[d].pc = "over" =>
              /\ run'[d].pc = "over" /\ run'[d].worker = run[d].worker
              /\ d \in worked' => d \in worked
              /\ \/ ledgerOn \/ run[d].status \notin Ended
                 \/ run'[d].status = run[d].status
    PROVE  SharedAgrees'
<1> SUFFICES ASSUME record'.status \in Ended PROVE SharedAgrees'
  BY DEF SharedAgrees
<1>1. PICK c \in Calls:
        /\ run[c].pc = "over" /\ run[c].worker = record.owner
        /\ IF ledgerOn THEN record.status = "failed" /\ c \notin worked
                       ELSE run[c].status = record.status
        /\ lapsed \/ c = record.by
  BY DEF IInv, SharedAgrees
<1>2. record'.status = record.status
  OBVIOUS
<1> HIDE DEF Ended
<1>3. /\ run'[c].pc = "over" /\ run'[c].worker = record'.owner
      /\ lapsed' \/ c = record'.by
  BY <1>1
<1>4. IF ledgerOn' THEN record'.status = "failed" /\ c \notin worked'
                   ELSE run'[c].status = record'.status
  BY <1>1, <1>2
<1> QED
  BY <1>3, <1>4 DEF SharedAgrees

\* Claim and shared record under a step of a call that gains and releases
\* nothing, and at most marks the record.
LEMMA SharedKeeps ==
    ASSUME IInv, NEW c \in Calls, NEW r \in Run, Becomes(c, r),
           UNCHANGED <<ledgerOn, claim, lapsed, worked>>,
           record'.by = record.by, record'.owner = record.owner,
           record'.status \in Ended => record'.status = record.status,
           Holds(r) => /\ Holds(run[c]) /\ r.worker = run[c].worker
                       /\ r.shared = run[c].shared,
           r.pc = "release" => run[c].pc = "release" /\ r.worker = run[c].worker,
           r.beat # "off" => run[c].beat # "off" /\ r.worker = run[c].worker,
           run[c].pc = "over" => /\ r.pc = "over" /\ r.worker = run[c].worker
                                 /\ \/ ledgerOn \/ run[c].status \notin Ended
                                    \/ r.status = run[c].status
    PROVE  ClaimInv' /\ SharedAgrees'
<1>1. run'[c] = r /\ \A d \in Calls \ {c}: run'[d] = run[d]
  BY BecomesOne DEF IInv
<1>2. \A d \in Calls: Holds(run'[d]) =>
        /\ Holds(run[d]) /\ run'[d].worker = run[d].worker
        /\ run'[d].shared = run[d].shared
  BY <1>1
<1>3. \A d \in Calls: run'[d].pc = "release" =>
        run[d].pc = "release" /\ run'[d].worker = run[d].worker
  BY <1>1
<1>4. \A d \in Calls: run'[d].beat # "off" =>
        run[d].beat # "off" /\ run'[d].worker = run[d].worker
  BY <1>1
<1>5. \A d \in Calls: run[d].pc = "over" =>
        /\ run'[d].pc = "over" /\ run'[d].worker = run[d].worker
        /\ ledgerOn \/ run[d].status \notin Ended \/ run'[d].status = run[d].status
  BY <1>1
<1>6. SharedAgrees'
  BY <1>5, AgreesKeeps
<1> HIDE DEF Ended
<1>7. ClaimInv'
  <2> SUFFICES ASSUME ~lapsed PROVE ClaimInv'
    BY DEF ClaimInv
  <2> QED
    BY <1>2, <1>3, <1>4 DEF IInv, ClaimInv
<1> QED
  BY <1>6, <1>7

\* Claim and shared record under a call's own command: the claim is gained when
\* nobody has it, the record is written and ended by the one that has it, and
\* released by it or by one that does not stand on it.
LEMMA EffectShared ==
    ASSUME IInv, NEW c \in Calls, NEW landed \in BOOLEAN, Effect(c, landed),
           NEW r \in Run, Becomes(c, r), UNCHANGED <<ledgerOn, lapsed>>,
           run[c].pc \in Registering \cup Ending,
           r.worker = run[c].worker, r.status = run[c].status,
           Holds(r) => \/ Holds(run[c])
                       \/ /\ run[c].pc = "claim" /\ landed /\ Claimable
                          /\ ~r.shared,
           Holds(r) /\ r.shared => run[c].shared \/ (run[c].pc = "record" /\ landed),
           r.pc = "release" => run[c].pc = "record" /\ ~Holds(r),
           r.beat # "off" => Holds(r) /\ run[c].pc # "claim",
           run[c].pc \in {"compensate", "endshared"} => r.pc = "over"
    PROVE  ClaimInv'
<1>1. /\ run' \in [Calls -> Run] /\ run'[c] = r
      /\ \A d \in Calls \ {c}: run'[d] = run[d]
  BY BecomesOne DEF IInv
<1>2. SUFFICES ASSUME ~lapsed PROVE ClaimInv'
  BY DEF ClaimInv
<1>3. /\ \A d \in Calls: Holds(run[d]) => claim = run[d].worker
      /\ \A d, e \in Calls: Holds(run[d]) /\ Holds(run[e]) => d = e
      /\ \A d, e \in Calls: Holds(run[d]) /\ run[e].pc = "release" =>
            run[d].worker # run[e].worker
      /\ \A d, e \in Calls: Holds(run[d]) /\ run[e].beat # "off" /\ d # e =>
            run[d].worker # run[e].worker
      /\ \A d \in Calls: Holds(run[d]) /\ run[d].shared =>
            record.by = d /\ record.owner = run[d].worker
  BY <1>2 DEF IInv, ClaimInv
<1>4. /\ claim' = IF landed THEN ClaimAfter(c) ELSE claim
      /\ record' = IF landed THEN RecordAfter(c) ELSE record
  BY DEF Effect
<1>5. Shape(c) /\ \A d \in Calls: Shape(d)
  BY DEF IInv
<1>6. run[c].pc \in {"compensate", "endshared"} => ~Holds(r)
  BY DEF Holds
<1>7. CASE claim' = claim /\ record' = record
           /\ (landed => run[c].pc # "record")
           /\ (landed /\ run[c].pc = "claim" => ~Claimable)
  <2>1. \A d \in Calls: Holds(run'[d]) =>
          /\ Holds(run[d]) /\ run'[d].worker = run[d].worker
          /\ run'[d].shared => run[d].shared
    BY <1>1, <1>7
  <2>2. \A d, e \in Calls: Holds(run'[d]) /\ run'[e].pc = "release" =>
          run'[d].worker # run'[e].worker
    <3>1. r.pc = "release" => \A d \in Calls: ~Holds(run'[d])
      <4>1. run[c].pc = "record" => Holds(run[c])
        BY DEF Holds
      <4> QED
        BY <1>1, <1>3, <2>1, <4>1
    <3> QED
      BY <1>1, <1>3, <2>1, <3>1
  <2>3. \A d, e \in Calls: Holds(run'[d]) /\ run'[e].beat # "off" /\ d # e =>
          run'[d].worker # run'[e].worker
    BY <1>1, <1>3, <2>1
  <2> QED
    BY <1>3, <1>7, <2>1, <2>2, <2>3 DEF ClaimInv
<1>8. CASE run[c].pc = "claim" /\ landed /\ Claimable
  <2>1. claim' = run[c].worker /\ record' = record /\ claim = NoWorker
    BY <1>4, <1>8, SharedAfter DEF Claimable
  <2>2. \A d \in Calls: ~Holds(run[d])
    <3>1. ASSUME NEW d \in Calls, Holds(run[d]) PROVE FALSE
      <4>1. run[d] \in Run /\ Shape(d)
        BY <1>5 DEF IInv, TypeOK
      <4>2. run[d].worker \in Workers
        BY <3>1, <4>1 DEF Holds, Shape
      <4> QED
        BY <1>3, <2>1, <3>1, <4>2, MedusaAssumption
    <3> QED
      BY <3>1
  <2>3. \A d \in Calls: Holds(run'[d]) => d = c /\ ~r.shared
    BY <1>1, <1>8, <2>2
  <2>4. \A e \in Calls: run'[e].pc = "release" => run'[e].worker # run[c].worker
    <3>1. r.pc # "release"
      BY <1>8
    <3>2. ASSUME NEW e \in Calls, e # c, run[e].pc = "release"
          PROVE  run[e].worker # run[c].worker
      BY <1>5, <1>8, <3>2 DEF Shape, Kept
    <3> QED
      BY <1>1, <3>1, <3>2
  <2>5. \A e \in Calls: run'[e].beat # "off" /\ e # c => run'[e].worker # run[c].worker
    BY <1>1, <1>5, <1>8 DEF Shape, Kept
  <2> QED
    BY <1>1, <2>1, <2>3, <2>4, <2>5 DEF ClaimInv
<1>9. CASE run[c].pc = "record" /\ landed
  <2>1. /\ claim' = claim /\ record'.status = "running" /\ record'.by = c
        /\ record'.owner = run[c].worker
    BY <1>4, <1>9, SharedAfter
  <2>2. Holds(run[c])
    BY <1>9 DEF Holds
  <2>3. \A d \in Calls: Holds(run'[d]) => d = c
    BY <1>1, <1>3, <2>2
  <2>4. \A e \in Calls: Holds(r) /\ run'[e].pc = "release" =>
          r.worker # run'[e].worker
    BY <1>1, <1>3, <2>2
  <2>5. \A e \in Calls: run'[e].beat # "off" /\ e # c => run'[e].worker # r.worker
    BY <1>1, <1>3, <2>2
  <2> QED
    BY <1>1, <1>3, <2>1, <2>2, <2>3, <2>4, <2>5 DEF ClaimInv
<1>10. CASE run[c].pc \in {"compensate", "endshared"}
  <2>1. Holds(run[c]) /\ run[c].shared
    BY <1>5, <1>10 DEF Shape, Holds
  <2>2. \A d \in Calls: ~Holds(run'[d])
    BY <1>1, <1>3, <1>6, <1>10, <2>1
  <2> QED
    BY <2>2 DEF ClaimInv
<1>11. CASE run[c].pc = "release" /\ landed /\ claim = run[c].worker
  <2>1. record' = record
    BY <1>4, <1>11, SharedAfter
  <2>2. \A d \in Calls: ~Holds(run[d])
    BY <1>3, <1>11
  <2>3. ~Holds(r) /\ r.pc # "release"
    BY <1>11, <2>2
  <2>4. \A d \in Calls: ~Holds(run'[d])
    BY <1>1, <2>2, <2>3
  <2> QED
    BY <2>4 DEF ClaimInv
<1>12. CASE ~landed
  BY <1>4, <1>7, <1>12
<1>13. CASE landed /\ run[c].pc \notin {"record", "compensate", "endshared"}
            /\ ~(run[c].pc = "claim" /\ Claimable)
            /\ ~(run[c].pc = "release" /\ claim = run[c].worker)
  <2>1. claim' = claim /\ record' = record
    BY <1>4, <1>13, SharedAfter
  <2> QED
    BY <1>7, <1>13, <2>1
<1> QED
  BY <1>8, <1>9, <1>10, <1>11, <1>12, <1>13

\* The record is ended by a call of its own worker: with its own status, or as
\* failed because the ledger did not start it.
LEMMA EffectAgrees ==
    ASSUME IInv, NEW c \in Calls, NEW landed \in BOOLEAN, Effect(c, landed),
           NEW r \in Run, Becomes(c, r), UNCHANGED <<ledgerOn, lapsed>>,
           run[c].pc \in Registering \cup Ending,
           r.worker = run[c].worker, r.status = run[c].status,
           run[c].pc \in {"compensate", "endshared"} => r.pc = "over",
           worked' \in {worked, worked \cup {c}},
           r.pc = "over" => worked' = worked
    PROVE  SharedAgrees'
<1>1. /\ run'[c] = r /\ \A d \in Calls \ {c}: run'[d] = run[d]
      /\ Shape(c) /\ run[c] \in Run /\ record \in Record
  BY BecomesOne DEF IInv, TypeOK
<1>2. \A d \in Calls: run[d].pc = "over" =>
        /\ run'[d].pc = "over" /\ run'[d].worker = run[d].worker
        /\ d \in worked' => d \in worked
        /\ run'[d].status = run[d].status
  BY <1>1
<1>3. CASE record' = record
  BY <1>2, <1>3, AgreesKeeps
<1>4. CASE record' # record /\ run[c].pc = "record"
  <2>1. record'.status = "running"
    BY <1>4, SharedAfter DEF Effect
  <2> QED
    BY <2>1 DEF SharedAgrees
<1>5. CASE record' # record /\ run[c].pc \in {"compensate", "endshared"}
  <2>1. /\ record' = [record EXCEPT !.status = EndStatus(c)]
        /\ Owned(run[c].worker)
    BY <1>5 DEF Effect, RecordAfter
  <2>2. /\ record'.by = record.by /\ record'.owner = run[c].worker
        /\ record'.status = EndStatus(c)
    BY <1>1, <2>1 DEF Owned
  <2>3. lapsed \/ record.by = c
    BY <1>1, <1>5 DEF IInv, ClaimInv, Holds, Shape
  <2>4. IF ledgerOn THEN EndStatus(c) = "failed" /\ c \notin worked
                    ELSE EndStatus(c) = run[c].status
    BY <1>1, <1>5 DEF Shape, EndStatus
  <2>5. r.pc = "over" /\ worked' = worked
    BY <1>5
  <2> QED
    BY <1>1, <2>2, <2>3, <2>4, <2>5 DEF SharedAgrees
<1>6. run[c].pc \notin {"record", "compensate", "endshared"} => record' = record
  BY SharedAfter DEF Effect
<1> QED
  BY <1>3, <1>4, <1>5, <1>6

\* A call's own command, whether it lands or not.
LEMMA EffectInv ==
    ASSUME IInv, NEW c \in Calls, NEW landed \in BOOLEAN, Effect(c, landed),
           NEW r \in Run, Becomes(c, r), UNCHANGED <<ledgerOn, op, listing, lapsed>>,
           run[c].pc \in Registering \cup Ending,
           r.worker = run[c].worker, r.status = run[c].status,
           Holds(r) => \/ Holds(run[c])
                       \/ /\ run[c].pc = "claim" /\ landed /\ Claimable
                          /\ ~r.shared,
           Holds(r) /\ r.shared => run[c].shared \/ (run[c].pc = "record" /\ landed),
           r.pc = "release" => run[c].pc = "record" /\ ~Holds(r),
           r.beat # "off" => Holds(r) /\ run[c].pc # "claim",
           run[c].pc \in {"compensate", "endshared"} => r.pc = "over",
           run[c].durable => r.durable,
           r.durable => run[c].durable \/ (run[c].pc = "ledger" /\ landed /\ Insertable),
           registry' = registry \/ registry' = Popped(c),
           worked' \in {worked, worked \cup {c}},
           r.pc = "over" => worked' = worked,
           Shape(c)'
    PROVE  IInv'
<1>1. /\ registry' \in [Workers -> Calls \cup {NoCall}] /\ EntriesStay(c)
  <2>1. registry \in [Workers -> Calls \cup {NoCall}]
    BY DEF IInv, TypeOK
  <2>2. ASSUME NEW d \in Calls \ {c}, Kept(d)
        PROVE  registry[run[d].worker] = d /\ run[d].worker \in Workers
    BY <2>2 DEF IInv, Shape
  <2> QED
    BY <2>1, <2>2 DEF Popped, EntriesStay
<1>2. ledger' = ledger \/ (landed /\ ledger' = LedgerAfter(c))
  BY DEF Effect
<1>3. /\ ledger' \in Ledger
      /\ r.durable \/ ledger.status # "absent" => ledger'.status # "absent"
  <2>1. run[c].durable => ledger.status # "absent"
    BY DEF IInv, DurableOnce
  <2>2. run[c].pc = "ledger" /\ landed => ledger' = LedgerAfter(c)
    BY DEF Effect
  <2> QED
    BY <1>2, <2>1, <2>2, LedgerAfterType DEF IInv, TypeOK
<1>4. r.durable => run[c].durable \/ ledger.status = "absent"
  BY DEF Insertable
<1>5. claim' \in Workers \cup {NoWorker} /\ record' \in Record
  BY SharedAfter DEF Effect, IInv, TypeOK
<1>6. run' \in [Calls -> Run]
  BY BecomesOne DEF IInv
<1>7. TypeOK'
  BY <1>1, <1>3, <1>5, <1>6 DEF IInv, TypeOK
<1>8. ClaimInv'
  BY EffectShared
<1>9. OpInv'
  BY OpKeeps
<1>10. SharedAgrees'
  BY EffectAgrees
<1> QED
  BY <1>1, <1>3, <1>4, <1>7, <1>8, <1>9, <1>10, CallStepInv

\* register() enters the registry where no live run is, so it displaces the
\* entry of no call that is still on its way.
LEMMA RegisterInv ==
    ASSUME IInv, NEW c \in Calls, NEW w \in Workers, Register(c, w)
    PROVE  IInv'
<1>1. /\ run[c] \in Run /\ run \in [Calls -> Run] /\ Shape(c) /\ run[c].pc = "idle"
      /\ registry \in [Workers -> Calls \cup {NoCall}] /\ ledgerOn \in BOOLEAN
  BY DEF Register, IInv, TypeOK
<1>2. UNCHANGED <<ledgerOn, claim, record, ledger, op, listing, lapsed, worked>>
  BY DEF Register
<1>3. PICK r \in Run:
        /\ Becomes(c, r) /\ r.shared = run[c].shared /\ r.durable = run[c].durable
        /\ r.beat = run[c].beat
        /\ \/ r.pc = "over" /\ r.status = "none" /\ UNCHANGED registry
           \/ /\ r.pc = IF ledgerOn THEN "ledger" ELSE "claim"
              /\ r.worker = w /\ r.status = "running"
              /\ registry' = [registry EXCEPT ![w] = c]
              /\ registry[w] # NoCall => run[registry[w]].status \notin Live
  <2>1. CASE registry[w] # NoCall /\ run[registry[w]].status \in Live
    <3>1. Goes(c, "over") /\ UNCHANGED registry
      BY <2>1 DEF Register
    <3>2. PICK r \in Run: /\ Becomes(c, r) /\ Stays(c, r) /\ r.pc = "over"
                          /\ r.shared = run[c].shared /\ r.beat = run[c].beat
      BY <3>1, GoesMoves DEF PCs, IInv
    <3> QED
      BY <1>1, <3>1, <3>2 DEF Stays, Shape
  <2>2. CASE ~(registry[w] # NoCall /\ run[registry[w]].status \in Live)
    <3> DEFINE pc == IF ledgerOn THEN "ledger" ELSE "claim"
               r == [run[c] EXCEPT !.pc = pc, !.worker = w, !.status = "running"]
    <3>1. /\ registry' = [registry EXCEPT ![w] = c]
          /\ run' = [run EXCEPT ![c].pc = pc, ![c].worker = w, ![c].status = "running"]
      BY <2>2 DEF Register
    <3>2. pc \in {"ledger", "claim"}
      OBVIOUS
    <3> HIDE DEF pc
    <3>3. /\ r \in Run /\ r.pc = pc /\ r.worker = w /\ r.status = "running"
          /\ r.shared = run[c].shared /\ r.durable = run[c].durable
          /\ r.beat = run[c].beat
      BY <1>1, <3>2
    <3>4. Becomes(c, r)
      BY <1>1, <3>1 DEF Becomes
    <3> HIDE DEF r
    <3> QED
      BY <2>2, <3>1, <3>3, <3>4 DEF pc
  <2> QED
    BY <2>1, <2>2
<1>4. run' \in [Calls -> Run] /\ run'[c] = r
  BY <1>3, BecomesOne DEF IInv
<1>5. registry' \in [Workers -> Calls \cup {NoCall}]
  BY <1>1, <1>3
<1>6. TypeOK'
  BY <1>2, <1>4, <1>5 DEF IInv, TypeOK
<1>7. Shape(c)'
  BY <1>1, <1>2, <1>3, <1>4 DEF Shape, Kept
<1>8. EntriesStay(c)
  <2> SUFFICES ASSUME NEW d \in Calls \ {c}, Kept(d)
               PROVE  registry'[run[d].worker] = registry[run[d].worker]
    BY DEF EntriesStay
  <2>1. /\ run[d].worker \in Workers /\ registry[run[d].worker] = d
        /\ run[d].status \in Live /\ d # NoCall
    BY MedusaAssumption DEF IInv, Shape
  <2> QED
    BY <1>1, <1>3, <2>1
<1>9. ClaimInv' /\ SharedAgrees'
  <2>1. ~Holds(r) /\ r.pc # "release" /\ run[c].pc # "over" /\ r.beat = "off"
    BY <1>1, <1>3 DEF Holds, Shape
  <2> QED
    BY <1>2, <1>3, <2>1, SharedKeeps
<1>10. OpInv'
  <2>1. run[c].status = "none"
    BY <1>1 DEF Shape
  <2> QED
    BY <1>2, <1>3, <2>1, OpKeeps
<1>11. ~r.durable
  BY <1>1, <1>3 DEF Shape
<1> QED
  BY <1>2, <1>3, <1>6, <1>7, <1>8, <1>9, <1>10, <1>11, CallStepInv

\* The calls' commands after which the call goes on, ends, or gives up.
LEMMA GoesInv ==
    ASSUME IInv, NEW c \in Calls, NEW landed \in BOOLEAN, Effect(c, landed),
           NEW pc \in PCs, Goes(c, pc),
           UNCHANGED <<ledgerOn, op, listing, lapsed, worked>>,
           \/ /\ run[c].pc \in Registering \cup Ending /\ pc = "over"
              /\ registry' = registry \/ registry' = Popped(c)
           \/ /\ UNCHANGED registry
              /\ \/ run[c].pc = "claim" /\ pc = "record" /\ landed /\ Claimable
                 \/ run[c].pc \in {"claim", "release"} /\ pc = "unregister"
                 \/ run[c].pc = "record" /\ pc = "release"
                 \/ run[c].pc = "running" /\ run[c].shared /\ pc = "compensate"
    PROVE  IInv'
<1>1. run[c] \in Run /\ Shape(c) /\ TypeOK
  BY DEF IInv, TypeOK
<1>2. PICK r \in Run: /\ Becomes(c, r) /\ Stays(c, r) /\ r.pc = pc
                      /\ r.shared = run[c].shared /\ r.beat = run[c].beat
  BY <1>1, GoesMoves
<1>3. run'[c] = r
  BY <1>1, <1>2, BecomesOne
<1>4. run[c].pc \in Registering \cup Ending
  OBVIOUS
<1>11. r.beat = "off"
  BY <1>1, <1>2, <1>4 DEF Shape
<1>5. Shape(c)'
  BY <1>1, <1>2, <1>3, <1>11 DEF Shape, Stays, Kept
<1>6. Holds(r) => \/ Holds(run[c])
                  \/ run[c].pc = "claim" /\ landed /\ Claimable /\ ~r.shared
  BY <1>1, <1>2 DEF Shape, Holds
<1>7. Holds(r) /\ r.shared => run[c].shared
  BY <1>2
<1>8. r.pc = "release" => run[c].pc = "record" /\ ~Holds(r)
  BY <1>1, <1>2 DEF Shape, Holds
<1>9. run[c].pc \in {"compensate", "endshared"} => r.pc = "over"
  BY <1>2
<1>10. registry' = registry \/ registry' = Popped(c)
  OBVIOUS
<1> QED
  BY <1>2, <1>4, <1>5, <1>6, <1>7, <1>8, <1>9, <1>10, <1>11, EffectInv DEF Stays

\* The calls' commands after which the call is registered, or works.
LEMMA ProceedInv ==
    ASSUME IInv, NEW c \in Calls, NEW landed \in BOOLEAN, Effect(c, landed),
           NEW shared \in BOOLEAN, NEW pc \in {"running", "work"}, Proceed(c, pc, shared),
           UNCHANGED <<ledgerOn, registry, op, listing, lapsed>>,
           \/ run[c].pc = "claim" /\ ~shared /\ pc = AfterShared(c)
           \/ run[c].pc = "record" /\ landed /\ shared /\ pc = AfterShared(c)
           \/ run[c].pc = "running" /\ shared = run[c].shared /\ pc = "work"
    PROVE  IInv'
<1>1. run[c] \in Run /\ Shape(c) /\ TypeOK
  BY DEF IInv, TypeOK
<1>2. PICK r \in Run: /\ Becomes(c, r) /\ Stays(c, r) /\ r.pc = pc
                      /\ r.shared = shared
                      /\ r.beat = IF pc = "work" /\ shared THEN "on" ELSE "off"
  BY <1>1, ProceedMoves DEF PCs
<1>3. run'[c] = r
  BY <1>1, <1>2, BecomesOne
<1>4. /\ run[c].pc \in Registering \cup Ending
      /\ worked' \in {worked, worked \cup {c}}
  BY DEF Proceed
<1>5. pc = "running" => run[c].durable
  BY DEF AfterShared
<1>6. Shape(c)'
  <2>1. pc = "running" => c \notin worked'
    BY <1>1 DEF Proceed, Shape
  <2> QED
    BY <1>1, <1>2, <1>3, <1>4, <1>5, <2>1 DEF Shape, Stays, Kept
<1>7. Holds(r) => Holds(run[c])
  BY <1>1, <1>2 DEF Shape, Holds
<1>9. r.beat # "off" => Holds(r) /\ run[c].pc # "claim"
  BY <1>2 DEF Holds
<1>8. Holds(r) /\ r.shared => run[c].shared \/ (run[c].pc = "record" /\ landed)
  BY <1>2
<1> QED
  BY <1>2, <1>4, <1>6, <1>7, <1>8, <1>9, EffectInv DEF Stays

\* A step that only marks, unmarks or ends the run of a call, and at most marks
\* the record and the ledger's row with a request to cancel.
LEMMA LocalInv ==
    ASSUME IInv, NEW c \in Calls, NEW r \in Run, Becomes(c, r),
           UNCHANGED <<ledgerOn, registry, claim, listing, lapsed, worked>>,
           record' \in {record, Asked}, ledger' \in {ledger, MarkedCancelling},
           r.worker = run[c].worker, r.shared = run[c].shared,
           r.durable = run[c].durable,
           r.beat # "off" => run[c].beat # "off",
           \/ r.pc = run[c].pc
           \/ run[c].pc = "work" /\ r.pc \in Ending \cup {"over"},
           \/ ledgerOn \/ run[c].pc # "over" \/ run[c].status \notin Ended
           \/ r.status = run[c].status,
           Shape(c)', op' \in [Operators -> Op], OpInv'
    PROVE  IInv'
<1>1. run' \in [Calls -> Run] /\ run'[c] = r /\ \A d \in Calls \ {c}: run'[d] = run[d]
  BY BecomesOne DEF IInv
<1>2. ledger' \in Ledger /\ (ledger.status # "absent" => ledger'.status # "absent")
  BY MarkedCancellingType DEF IInv, TypeOK
<1>3. TypeOK'
  BY <1>1, <1>2, AskedRecord DEF IInv, TypeOK
<1>4. r.durable => ledger.status # "absent"
  BY DEF IInv, DurableOnce
<1>5. EntriesStay(c)
  BY DEF EntriesStay
<1>6. ClaimInv' /\ SharedAgrees'
  <2>1. Holds(r) => Holds(run[c])
    BY DEF Holds
  <2>2. run[c].pc = "over" => r.pc = "over"
    OBVIOUS
  <2> QED
    BY <2>1, <2>2, AskedRecord, SharedKeeps DEF IInv
<1> QED
  BY <1>2, <1>3, <1>4, <1>5, <1>6, CallStepInv

\* The calls' commands to the ledger and to Redis, and their interruptions.
LEMMA CallInv ==
    ASSUME IInv, NEW c \in Calls, CallStep(c)
    PROVE  IInv'
<1>1. run[c] \in Run /\ Shape(c) /\ TypeOK
  BY DEF IInv, TypeOK
<1>2. ASSUME NEW reply \in CommandReplies, RegisterDurable(c, reply) PROVE IInv'
  <2> DEFINE landed == reply \in {"ok", "lost"}
  <2>1. /\ Effect(c, landed) /\ UNCHANGED <<ledgerOn, op, listing, lapsed, worked>>
        /\ run[c].pc = "ledger" /\ landed \in BOOLEAN
    BY <1>2 DEF RegisterDurable
  <2>2. CASE reply = "ok" /\ Insertable
    <3> DEFINE r == [run[c] EXCEPT !.pc = "claim", !.durable = TRUE]
    <3>1. /\ r \in Run /\ r.pc = "claim" /\ r.durable /\ r.worker = run[c].worker
          /\ r.status = run[c].status /\ r.shared = run[c].shared
          /\ r.beat = run[c].beat
      BY <1>1
    <3>2. Becomes(c, r) /\ UNCHANGED registry
      BY <1>1, <1>2, <2>2 DEF RegisterDurable, Becomes, TypeOK
    <3> HIDE DEF r
    <3>3. run'[c] = r
      BY <1>1, <3>1, <3>2, BecomesOne
    <3>4. Shape(c)'
      BY <1>1, <2>1, <3>1, <3>2, <3>3 DEF Shape, Kept
    <3>5. ~Holds(r) /\ r.beat = "off"
      BY <1>1, <2>1, <3>1 DEF Holds, Shape
    <3>6. landed
      BY <2>2
    <3> HIDE DEF landed
    <3> QED
      BY <2>1, <2>2, <3>1, <3>2, <3>4, <3>5, <3>6, EffectInv
  <2>3. CASE ~(reply = "ok" /\ Insertable)
    <3>1. Goes(c, "over") /\ registry' = Popped(c)
      BY <1>2, <2>3 DEF RegisterDurable
    <3> HIDE DEF landed
    <3> QED
      BY <2>1, <3>1, GoesInv DEF PCs
  <2> QED
    BY <2>2, <2>3
<1>3. ASSUME NEW reply \in CommandReplies, MarkRunning(c, reply) PROVE IInv'
  <2> DEFINE landed == reply \in {"ok", "lost"}
  <2>1. /\ Effect(c, landed) /\ UNCHANGED <<ledgerOn, op, listing, lapsed>>
        /\ run[c].pc = "running" /\ landed \in BOOLEAN
    BY <1>3 DEF MarkRunning
  <2> HIDE DEF landed
  <2>2. CASE Proceed(c, "work", run[c].shared) /\ UNCHANGED registry
    BY <1>1, <2>1, <2>2, ProceedInv
  <2>3. CASE run[c].shared /\ Goes(c, "compensate") /\ UNCHANGED <<registry, worked>>
    BY <2>1, <2>3, GoesInv DEF PCs
  <2>4. CASE Goes(c, "over") /\ registry' = Popped(c) /\ UNCHANGED worked
    BY <2>1, <2>4, GoesInv DEF PCs
  <2> QED
    BY <1>3, <2>2, <2>3, <2>4 DEF MarkRunning
<1>4. ASSUME NEW reply \in RedisReplies, RegisterClaim(c, reply) PROVE IInv'
  <2> DEFINE landed == reply \in {"ok", "lost"}
  <2>1. /\ Effect(c, landed) /\ UNCHANGED <<ledgerOn, registry, op, listing, lapsed>>
        /\ run[c].pc = "claim" /\ landed \in BOOLEAN
    BY <1>4 DEF RegisterClaim
  <2>2. reply = "ok" => landed
    OBVIOUS
  <2> HIDE DEF landed
  <2>3. CASE Proceed(c, AfterShared(c), FALSE)
    <3>1. AfterShared(c) \in {"running", "work"}
      BY DEF AfterShared
    <3> QED
      BY <2>1, <2>3, <3>1, ProceedInv
  <2>4. CASE landed /\ Claimable /\ Goes(c, "record") /\ UNCHANGED worked
    BY <2>1, <2>4, GoesInv DEF PCs
  <2>5. CASE Goes(c, "unregister") /\ UNCHANGED worked
    BY <2>1, <2>5, GoesInv DEF PCs
  <2> QED
    BY <1>4, <2>2, <2>3, <2>4, <2>5 DEF RegisterClaim
<1>5. ASSUME NEW reply \in CommandReplies, RegisterRecord(c, reply) PROVE IInv'
  <2> DEFINE landed == reply \in {"ok", "lost"}
  <2>1. /\ Effect(c, landed) /\ UNCHANGED <<ledgerOn, registry, op, listing, lapsed>>
        /\ run[c].pc = "record" /\ landed \in BOOLEAN
    BY <1>5 DEF RegisterRecord
  <2>2. reply = "ok" => landed
    OBVIOUS
  <2> HIDE DEF landed
  <2>3. CASE landed /\ Proceed(c, AfterShared(c), TRUE)
    <3>1. AfterShared(c) \in {"running", "work"}
      BY DEF AfterShared
    <3> QED
      BY <2>1, <2>3, <3>1, ProceedInv
  <2>4. CASE Goes(c, "release") /\ UNCHANGED worked
    BY <2>1, <2>4, GoesInv DEF PCs
  <2> QED
    BY <1>5, <2>2, <2>3, <2>4 DEF RegisterRecord
<1>6. ASSUME NEW reply \in RedisReplies,
             \/ EndShared(c, reply) \/ Compensate(c, reply) \/ ReleaseClaim(c, reply)
      PROVE  IInv'
  <2> DEFINE landed == reply \in {"ok", "lost"}
  <2>1. /\ Effect(c, landed) /\ UNCHANGED <<ledgerOn, op, listing, lapsed, worked>>
        /\ landed \in BOOLEAN
        /\ \/ /\ run[c].pc \in {"endshared", "compensate"} /\ Goes(c, "over")
              /\ registry' = registry \/ registry' = Popped(c)
           \/ run[c].pc = "release" /\ Goes(c, "unregister") /\ UNCHANGED registry
    BY <1>6 DEF EndShared, Compensate, ReleaseClaim
  <2> HIDE DEF landed
  <2> QED
    BY <2>1, GoesInv DEF PCs
<1>7. CASE AbandonRegistration(c) \/ EndLedger(c)
  <2>1. /\ Effect(c, FALSE) /\ UNCHANGED <<ledgerOn, op, listing, lapsed, worked>>
        /\ run[c].pc \in {"unregister", "endledger"} /\ Goes(c, "over")
        /\ registry' = registry \/ registry' = Popped(c)
    BY <1>7 DEF AbandonRegistration, EndLedger, Effect
  <2> QED
    BY <2>1, GoesInv DEF PCs
<1>8. ASSUME NEW landed \in BOOLEAN, Interrupted(c, landed) PROVE IInv'
  <2> DEFINE r == [run[c] EXCEPT !.pc = "over", !.cancelled = FALSE]
  <2>1. /\ Effect(c, landed)
        /\ UNCHANGED <<ledgerOn, registry, op, listing, lapsed, worked>>
        /\ run[c].pc \in Registering \cup Ending
    BY <1>8 DEF Interrupted
  <2>2. /\ r \in Run /\ r.pc = "over" /\ r.worker = run[c].worker
        /\ r.status = run[c].status /\ r.shared = run[c].shared
        /\ r.durable = run[c].durable /\ r.beat = run[c].beat
    BY <1>1
  <2>3. Becomes(c, r)
    BY <1>1, <1>8 DEF Interrupted, Becomes, TypeOK
  <2> HIDE DEF r
  <2>4. run'[c] = r
    BY <1>1, <2>2, <2>3, BecomesOne
  <2>5. Shape(c)' /\ ~Holds(r) /\ r.beat = "off"
    BY <1>1, <2>1, <2>2, <2>4 DEF Shape, Holds, Kept
  <2> QED
    BY <2>1, <2>2, <2>3, <2>5, EffectInv
<1>10. CASE LockInterrupted(c)
  <2> DEFINE r == [run[c] EXCEPT !.pc = "over", !.cancelled = FALSE]
  <2>1. /\ UNCHANGED <<ledgerOn, registry, claim, record, ledger, op, listing, lapsed, worked>>
        /\ run[c].pc = "work"
    BY <1>10 DEF LockInterrupted
  <2>2. /\ r \in Run /\ r.pc = "over" /\ Stays(c, r)
        /\ r.shared = run[c].shared /\ r.beat = run[c].beat
    BY <1>1 DEF Stays
  <2>3. Becomes(c, r)
    BY <1>1, <1>10 DEF LockInterrupted, Becomes, TypeOK
  <2> HIDE DEF r
  <2>4. run'[c] = r
    BY <1>1, <2>2, <2>3, BecomesOne
  <2>5. Shape(c)'
    BY <1>1, <2>1, <2>2, <2>4 DEF Shape, Stays, Kept
  <2>6. OpInv' /\ op' \in [Operators -> Op]
    BY <1>1, <2>1, <2>2, <2>3, OpKeeps DEF Stays, TypeOK
  <2> QED
    BY <2>1, <2>2, <2>3, <2>5, <2>6, LocalInv DEF Stays
<1>9. CommandReplies \subseteq RedisReplies
  BY DEF CommandReplies, RedisReplies, Replies
<1> QED
  BY <1>2, <1>3, <1>4, <1>5, <1>6, <1>7, <1>8, <1>9, <1>10 DEF CallStep

\* The end of the agents' work.
LEMMA WorkEndsInv ==
    ASSUME IInv, NEW c \in Calls, WorkEnds(c)
    PROVE  IInv'
<1>1. run[c] \in Run /\ Shape(c) /\ TypeOK
  BY DEF IInv, TypeOK
<1>2. PICK result \in Ended, landed \in BOOLEAN: MarkTerminal(c, result, landed)
  BY DEF WorkEnds
<1> DEFINE pc == CASE run[c].durable -> "endledger"
                   [] run[c].shared /\ ~run[c].durable -> "endshared"
                   [] OTHER -> "over"
           st == EndedAs(c, result)
           r == [run[c] EXCEPT !.pc = pc, !.status = st, !.cancelled = FALSE,
                               !.beat = "off"]
<1>3. /\ run[c].pc = "work"
      /\ UNCHANGED <<ledgerOn, registry, claim, record, op, listing, lapsed, worked>>
      /\ ledger' \in {ledger, MarkedCancelling}
  BY <1>2 DEF MarkTerminal
<1>4. /\ pc \in {"endledger", "endshared", "over"} /\ st \in Ended
      /\ run[c].status = "cancelling" => st = "cancelled"
      /\ pc = "endledger" => run[c].durable
      /\ pc = "endshared" => run[c].shared /\ ~run[c].durable
      /\ pc = "over" => ~run[c].durable
  BY <1>1 DEF EndedAs
<1>5. run' = [run EXCEPT ![c].pc = pc, ![c].status = st, ![c].cancelled = FALSE,
                         ![c].beat = "off"]
  BY <1>2 DEF MarkTerminal
<1> HIDE DEF pc, st
<1>6. /\ r \in Run /\ r.pc = pc /\ r.status = st /\ r.beat = "off"
      /\ r.worker = run[c].worker /\ r.shared = run[c].shared
      /\ r.durable = run[c].durable
  <2> DEFINE n == [run[c] EXCEPT !.pc = pc, !.status = st]
  <2>1. /\ n \in Run /\ n.pc = pc /\ n.status = st
        /\ n.worker = run[c].worker /\ n.shared = run[c].shared
        /\ n.durable = run[c].durable
    BY ZenonT(60), <1>1, <1>4
  <2>2. r = [n EXCEPT !.cancelled = FALSE, !.beat = "off"]
    BY <1>1
  <2> HIDE DEF n, r
  <2> QED
    BY <2>1, <2>2
<1>7. Becomes(c, r)
  BY <1>1, <1>5 DEF Becomes, TypeOK
<1> HIDE DEF r
<1>8. run'[c] = r
  BY <1>1, <1>6, <1>7, BecomesOne
<1>9. Shape(c)'
  BY <1>1, <1>3, <1>4, <1>6, <1>8 DEF Shape, Kept
<1>10. OpInv'
  <2>1. run[c].status \in Live
    BY <1>1, <1>3 DEF Shape, Kept
  <2> QED
    BY <1>3, <1>4, <1>6, <1>7, <2>1, OpKeeps
<1>11. op' \in [Operators -> Op]
  BY <1>1, <1>3 DEF TypeOK
<1> QED
  <2>1. run[c].pc = "work" /\ r.pc \in Ending \cup {"over"} /\ r.beat = "off"
    BY <1>3, <1>4, <1>6
  <2> QED
    BY <1>3, <1>6, <1>7, <1>9, <1>10, <1>11, <2>1, LocalInv

\* The client's leaving cancels the task, and changes nothing else.
LEMMA ClientLeavesInv ==
    ASSUME IInv, NEW c \in Calls, ClientLeaves(c)
    PROVE  IInv'
<1> DEFINE r == [run[c] EXCEPT !.cancelled = TRUE]
<1>1. run[c] \in Run /\ Shape(c) /\ TypeOK
  BY DEF IInv, TypeOK
<1>2. UNCHANGED <<ledgerOn, registry, claim, record, ledger, op, listing, lapsed, worked>>
  BY DEF ClientLeaves
<1>3. /\ r \in Run /\ Stays(c, r) /\ r.pc = run[c].pc
      /\ r.shared = run[c].shared /\ r.beat = run[c].beat
  BY <1>1 DEF Stays
<1>4. Becomes(c, r)
  BY <1>1 DEF ClientLeaves, Becomes, TypeOK
<1> HIDE DEF r
<1>5. run'[c] = r
  BY <1>1, <1>3, <1>4, BecomesOne
<1>6. Shape(c)'
  BY <1>1, <1>2, <1>3, <1>5 DEF Shape, Stays, Kept
<1>7. OpInv' /\ op' \in [Operators -> Op]
  BY <1>1, <1>2, <1>3, <1>4, OpKeeps DEF Stays, TypeOK
<1> QED
  BY <1>2, <1>3, <1>4, <1>6, <1>7, LocalInv DEF Stays

\* The heartbeat drops a claim only when its call has lost it already, and one
\* that was left behind drops no other call's claim.
LEMMA BeatInv ==
    ASSUME IInv, NEW c \in Calls, Beat(c)
    PROVE  IInv'
<1>1. run[c] \in Run /\ Shape(c) /\ TypeOK
  BY DEF IInv, TypeOK
<1>2. ASSUME NEW reply \in CommandReplies, HeartbeatLedger(c, reply) PROVE IInv'
  <2> DEFINE k == run[c].cancelled \/ (Active(c) /\ (Raises(reply) \/ ~CancelRefused))
             r == [run[c] EXCEPT !.beat = "off", !.cancelled = k]
  <2>1. /\ UNCHANGED <<ledgerOn, registry, claim, record, op, listing, lapsed, worked>>
        /\ ledger' \in {ledger, MarkedCancelling}
    BY <1>2 DEF HeartbeatLedger
  <2>2. k \in BOOLEAN
    BY <1>1
  <2>3. run' = [run EXCEPT ![c].beat = "off", ![c].cancelled = k]
    BY <1>2 DEF HeartbeatLedger
  <2> HIDE DEF k
  <2>4. /\ r \in Run /\ Stays(c, r) /\ r.pc = run[c].pc
        /\ r.shared = run[c].shared /\ r.beat = "off"
    BY <1>1, <2>2 DEF Stays
  <2>5. Becomes(c, r)
    BY <1>1, <2>3 DEF Becomes, TypeOK
  <2> HIDE DEF r
  <2>6. run'[c] = r
    BY <1>1, <2>4, <2>5, BecomesOne
  <2>7. Shape(c)'
    BY <1>1, <2>1, <2>4, <2>6 DEF Shape, Stays, Kept
  <2>8. OpInv' /\ op' \in [Operators -> Op]
    BY <1>1, <2>1, <2>4, <2>5, OpKeeps DEF Stays, TypeOK
  <2> QED
    BY <2>1, <2>4, <2>5, <2>7, <2>8, LocalInv DEF Stays
<1>3. ASSUME NEW reply \in CommandReplies, Heartbeat(c, reply) PROVE IInv'
  <2>1. /\ UNCHANGED <<ledgerOn, registry, record, ledger, op, listing, lapsed, worked>>
        /\ run[c].beat = "on"
    BY <1>3 DEF Heartbeat
  <2>2. run[c].pc \in {"work", "over"} /\ run[c].shared /\ run[c].status \in Live
    BY <1>1, <2>1 DEF Shape, Kept
  <2>3. PICK r \in Run:
          /\ Becomes(c, r) /\ r.pc = run[c].pc /\ r.shared /\ r.worker = run[c].worker
          /\ r.durable = run[c].durable
          /\ r.status \in Live
          /\ run[c].status = "cancelling" => r.status = "cancelling"
    <3>1. CASE run' = [run EXCEPT ![c].beat = "off"]
      <4> DEFINE r == [run[c] EXCEPT !.beat = "off"]
      <4>1. /\ r \in Run /\ Stays(c, r) /\ r.pc = run[c].pc /\ r.shared = run[c].shared
        BY <1>1 DEF Stays
      <4>2. Becomes(c, r)
        BY <1>1, <3>1 DEF Becomes, TypeOK
      <4> HIDE DEF r
      <4> QED
        BY <2>2, <4>1, <4>2 DEF Stays
    <3>2. CASE run' = [run EXCEPT ![c].status = "cancelling",
                                  ![c].beat = IF run[c].durable THEN "asked" ELSE "off",
                                  ![c].cancelled = @ \/ (~run[c].durable /\ Active(c))]
      <4> DEFINE b == IF run[c].durable THEN "asked" ELSE "off"
                 k == run[c].cancelled \/ (~run[c].durable /\ Active(c))
                 r == [run[c] EXCEPT !.status = "cancelling", !.beat = b, !.cancelled = k]
      <4>1. b \in {"off", "asked"} /\ k \in BOOLEAN
        BY <1>1
      <4>2. run' = [run EXCEPT ![c].status = "cancelling", ![c].beat = b,
                               ![c].cancelled = k]
        BY <3>2
      <4> HIDE DEF b, k
      <4>3. /\ r \in Run /\ r.pc = run[c].pc /\ r.shared = run[c].shared
            /\ r.worker = run[c].worker /\ r.durable = run[c].durable
            /\ r.status = "cancelling"
        BY ZenonT(60), <1>1, <4>1
      <4>4. Becomes(c, r)
        BY <1>1, <4>2 DEF Becomes, TypeOK
      <4> HIDE DEF r
      <4> QED
        BY <2>2, <4>3, <4>4
    <3> QED
      BY <1>3, <3>1, <3>2 DEF Heartbeat
  <2>4. run' \in [Calls -> Run] /\ run'[c] = r
    BY <1>1, <2>3, BecomesOne
  <2>5. claim' \in {claim, NoWorker}
    BY <1>3 DEF Heartbeat
  <2>6. TypeOK'
    BY <1>1, <2>1, <2>4, <2>5 DEF TypeOK
  <2>7. Shape(c)'
    BY <1>1, <2>1, <2>2, <2>3, <2>4 DEF Shape, Kept
  <2>8. EntriesStay(c)
    BY <2>1 DEF EntriesStay
  <2>9. OpInv'
    BY <2>1, <2>2, <2>3, OpKeeps
  <2>10. r.durable => ledger.status # "absent"
    BY <2>3 DEF IInv, DurableOnce
  <2>11. ClaimInv' /\ SharedAgrees'
    <3>1. CASE claim' = claim
      <4>1. Holds(r) => Holds(run[c])
        BY <2>2, <2>3 DEF Holds
      <4> QED
        BY <2>1, <2>2, <2>3, <3>1, <4>1, SharedKeeps
    <3>2. CASE claim' # claim
      <4>1. claim = run[c].worker /\ ~Owned(run[c].worker)
        BY <1>3, <3>2 DEF Heartbeat
      <4>2. \A d \in Calls \ {c}: run'[d] = run[d]
        BY <1>1, <2>3, BecomesOne
      <4>3. SharedAgrees'
        BY <2>1, <2>2, <2>3, <2>4, <4>2, AgreesKeeps
      <4>4. ASSUME ~lapsed, NEW d \in Calls PROVE ~Holds(run'[d])
        <5>1. ~Holds(run[c])
          BY <2>2, <4>1, <4>4 DEF IInv, ClaimInv, Owned
        <5>2. ~Holds(r)
          BY <2>2, <2>3, <5>1 DEF Holds
        <5>3. d # c => ~Holds(run[d])
          BY <2>1, <4>1, <4>4 DEF IInv, ClaimInv
        <5> QED
          BY <2>4, <4>2, <5>2, <5>3
      <4> QED
        BY <2>1, <4>3, <4>4 DEF ClaimInv
    <3> QED
      BY <3>1, <3>2
  <2> QED
    BY <2>1, <2>3, <2>6, <2>7, <2>8, <2>9, <2>10, <2>11, CallStepInv
<1> QED
  BY <1>2, <1>3 DEF Beat

\* A step that leaves the calls alone.
LEMMA StillInv ==
    ASSUME IInv, TypeOK', UNCHANGED <<ledgerOn, run, worked>>,
           \A d \in Calls: Kept(d) =>
              registry'[run[d].worker] = registry[run[d].worker],
           ledger.status # "absent" => ledger'.status # "absent",
           ClaimInv', SharedAgrees', OpInv'
    PROVE  IInv'
<1>1. ASSUME NEW d \in Calls PROVE Shape(d)'
  <2>1. Shape(d)
    BY DEF IInv
  <2> QED
    BY <2>1 DEF Shape, Kept
<1>2. DurableOnce'
  BY DEF IInv, DurableOnce
<1> QED
  BY <1>1, <1>2 DEF IInv

\* A shared request leaves what the shared stores say of the calls.
LEMMA SharedStill ==
    ASSUME IInv, UNCHANGED <<ledgerOn, run, claim, lapsed, worked>>,
           record' \in {record, Asked}
    PROVE  ClaimInv' /\ SharedAgrees'
<1>1. /\ record'.by = record.by /\ record'.owner = record.owner
      /\ record'.status \in Ended => record'.status = record.status
  BY AskedRecord DEF IInv
<1>2. SharedAgrees'
  BY <1>1, AgreesKeeps
<1> QED
  BY <1>1, <1>2 DEF IInv, ClaimInv

\* A step of one request: what it becomes agrees with its call, no other
\* request stands on that call, and the calls of the others stay marked.
LEMMA OpMoves ==
    ASSUME IInv, NEW k \in Operators, NEW o \in Op, op' = [op EXCEPT ![k] = o],
           \A d \in Calls: run[d].durable => run'[d].durable,
           \A j \in Operators \ {k}: Requested(j) =>
              run'[op[j].call].status \in {"cancelling", "cancelled"},
           o.pc \in {"shared", "durable"} => o.call \in Calls /\ o.worker \in Workers,
           o.pc \in {"idle", "remote", "remotedurable"} => o.call = NoCall,
           o.pc = "durable" => run'[o.call].durable,
           o.pc \in {"shared", "durable", "accepted"} /\ o.call # NoCall =>
              /\ run'[o.call].status \in {"cancelling", "cancelled"}
              /\ \A j \in Operators \ {k}: Requested(j) => op[j].call # o.call
    PROVE  OpInv' /\ op' \in [Operators -> Op]
<1>1. /\ op' \in [Operators -> Op] /\ op'[k] = o
      /\ \A j \in Operators \ {k}: op'[j] = op[j]
  BY DEF IInv, TypeOK
<1>2. \A j \in Operators:
        /\ op'[j].pc \in {"shared", "durable"} =>
              op'[j].call \in Calls /\ op'[j].worker \in Workers
        /\ op'[j].pc \in {"idle", "remote", "remotedurable"} => op'[j].call = NoCall
        /\ op'[j].pc = "durable" => run'[op'[j].call].durable
  BY <1>1 DEF IInv, OpInv
<1>3. \A j \in Operators:
        op'[j].pc \in {"shared", "durable", "accepted"} /\ op'[j].call # NoCall =>
            run'[op'[j].call].status \in {"cancelling", "cancelled"}
  BY <1>1 DEF Requested
<1>4. \A i, j \in Operators:
        /\ op'[i].pc \in {"shared", "durable", "accepted"} /\ op'[i].call # NoCall
        /\ op'[j].pc \in {"shared", "durable", "accepted"} /\ op'[j].call # NoCall
        /\ op'[i].call = op'[j].call
        => i = j
  BY <1>1 DEF IInv, OpInv, Requested
<1> QED
  BY <1>1, <1>2, <1>3, <1>4 DEF OpInv, Requested

\* cancel() at the worker that has the run: it marks a running call, which no
\* other request stands on.
LEMMA CancelInv ==
    ASSUME IInv, NEW k \in Operators, NEW w \in Workers, Cancel(k, w)
    PROVE  IInv'
<1>1. /\ op[k] \in Op /\ op \in [Operators -> Op] /\ op[k].pc = "idle"
      /\ op[k].call = NoCall /\ TypeOK /\ registry[w] \in Calls \cup {NoCall}
  BY DEF Cancel, IInv, OpInv, TypeOK
<1>2. UNCHANGED <<ledgerOn, registry, claim, record, ledger, listing, lapsed, worked>>
  BY DEF Cancel
<1>3. CASE UNCHANGED run
  <2>1. PICK o \in Op: /\ op' = [op EXCEPT ![k] = o] /\ o.call = NoCall
                       /\ o.pc \in {"remote", "refused"}
    <3>1. CASE op' = [op EXCEPT ![k].pc = "remote", ![k].worker = w]
      <4> DEFINE o == [op[k] EXCEPT !.pc = "remote", !.worker = w]
      <4>1. o \in Op /\ o.call = NoCall /\ o.pc = "remote"
        BY <1>1
      <4>2. op' = [op EXCEPT ![k] = o]
        BY <1>1, <3>1
      <4> HIDE DEF o
      <4> QED
        BY <4>1, <4>2
    <3>2. CASE OpGoes(k, "refused")
      <4> DEFINE o == [op[k] EXCEPT !.pc = "refused"]
      <4>1. o \in Op /\ o.call = NoCall /\ o.pc = "refused"
        BY <1>1
      <4>2. op' = [op EXCEPT ![k] = o]
        BY <1>1, <3>2 DEF OpGoes
      <4> HIDE DEF o
      <4> QED
        BY <4>1, <4>2
    <3>3. ASSUME NEW c \in Calls, run[c].status = "running",
                 run' = [run EXCEPT ![c].status = "cancelling",
                              ![c].cancelled = @ \/ ~(run[c].shared \/ run[c].durable)]
          PROVE  FALSE
      <4>1. run'[c].status = "cancelling"
        BY <1>1, <3>3 DEF TypeOK
      <4> QED
        BY <1>3, <3>3, <4>1
    <3> QED
      BY <1>1, <3>1, <3>2, <3>3 DEF Cancel
  <2>2. OpInv' /\ op' \in [Operators -> Op]
    <3>1. \A j \in Operators: Requested(j) =>
            run'[op[j].call].status \in {"cancelling", "cancelled"}
      BY <1>3 DEF IInv, OpInv
    <3> QED
      BY <1>3, <2>1, <3>1, OpMoves
  <2>3. TypeOK'
    BY <1>1, <1>2, <1>3, <2>2 DEF TypeOK
  <2> QED
    BY <1>2, <1>3, <2>2, <2>3, SharedStill, StillInv
<1>4. ASSUME NEW c \in Calls, c = registry[w], run[c].status = "running",
             op' = [op EXCEPT ![k].worker = w, ![k].call = c,
                              ![k].pc = CASE run[c].shared -> "shared"
                                          [] ~run[c].shared /\ run[c].durable -> "durable"
                                          [] OTHER -> "accepted"],
             run' = [run EXCEPT ![c].status = "cancelling",
                                ![c].cancelled = @ \/ ~(run[c].shared \/ run[c].durable)]
      PROVE  IInv'
  <2>1. run[c] \in Run /\ Shape(c)
    BY DEF IInv, TypeOK
  <2> DEFINE x == run[c].cancelled \/ ~(run[c].shared \/ run[c].durable)
             r == [run[c] EXCEPT !.status = "cancelling", !.cancelled = x]
             pc == CASE run[c].shared -> "shared"
                     [] ~run[c].shared /\ run[c].durable -> "durable"
                     [] OTHER -> "accepted"
             o == [op[k] EXCEPT !.worker = w, !.call = c, !.pc = pc]
  <2>2. x \in BOOLEAN
    BY <2>1
  <2>3. pc \in {"shared", "durable", "accepted"} /\ (pc = "durable" => run[c].durable)
    BY <2>1
  <2>4. /\ op' = [op EXCEPT ![k].worker = w, ![k].call = c, ![k].pc = pc]
        /\ run' = [run EXCEPT ![c].status = "cancelling", ![c].cancelled = x]
    BY <1>4
  <2> HIDE DEF x, pc
  <2>5. /\ r \in Run /\ r.pc = run[c].pc /\ r.worker = run[c].worker
        /\ r.status = "cancelling" /\ r.shared = run[c].shared
        /\ r.durable = run[c].durable /\ r.beat = run[c].beat
    BY <2>1, <2>2
  <2>6. Becomes(c, r)
    BY <1>1, <2>1, <2>4 DEF Becomes, TypeOK
  <2>7. o \in Op /\ o.pc = pc /\ o.call = c /\ o.worker = w
    BY <1>1, <2>1, <2>3
  <2>8. op' = [op EXCEPT ![k] = o]
    BY <1>1, <2>4
  <2> HIDE DEF r, o
  <2>9. run'[c] = r /\ \A d \in Calls \ {c}: run'[d] = run[d]
    BY <1>1, <2>1, <2>5, <2>6, BecomesOne
  <2>10. Shape(c)'
    <3>1. Kept(c)' <=> Kept(c)
      BY <2>5, <2>9 DEF Kept
    <3> QED
      BY SMTT(30), <1>2, <1>4, <2>1, <2>5, <2>9, <3>1 DEF Shape
  <2>11. \A j \in Operators: Requested(j) =>
           /\ op[j].call \in Calls /\ op[j].call # c
           /\ run[op[j].call].status \in {"cancelling", "cancelled"}
    <3>1. \A j \in Operators: Requested(j) => op[j].call \in Calls
      BY DEF IInv, TypeOK, Requested
    <3>2. run[c].status = "running"
      BY <1>4
    <3> QED
      BY <3>1, <3>2 DEF IInv, OpInv
  <2>12. OpInv' /\ op' \in [Operators -> Op]
    <3>1. \A d \in Calls: run[d].durable => run'[d].durable
      BY <2>5, <2>9
    <3>2. \A j \in Operators \ {k}: Requested(j) =>
            run'[op[j].call].status \in {"cancelling", "cancelled"}
      BY <2>9, <2>11
    <3>3. /\ o.pc \in {"shared", "durable", "accepted"}
          /\ o.pc = "durable" => run'[o.call].durable
          /\ run'[o.call].status = "cancelling"
      BY <2>3, <2>5, <2>7, <2>9
    <3>4. \A j \in Operators \ {k}: Requested(j) => op[j].call # o.call
      BY <2>7, <2>11
    <3> QED
      BY <2>7, <2>8, <3>1, <3>2, <3>3, <3>4, OpMoves
  <2>13. run[c].status \notin Ended
    BY <1>4
  <2> QED
    BY <1>2, <2>1, <2>5, <2>6, <2>10, <2>12, <2>13, LocalInv
<1> QED
  BY <1>1, <1>3, <1>4 DEF Cancel

\* The step changes request k's pc alone.
LEMMA OpGoesMoves ==
    ASSUME TypeOK, NEW k \in Operators,
           NEW pc \in {"durable", "remotedurable", "accepted", "refused"}, OpGoes(k, pc)
    PROVE  \E o \in Op: /\ op' = [op EXCEPT ![k] = o] /\ o.pc = pc
                        /\ o.call = op[k].call /\ o.worker = op[k].worker
<1> DEFINE o == [op[k] EXCEPT !.pc = pc]
<1>1. op[k] \in Op
  BY DEF TypeOK
<1>2. o \in Op /\ o.pc = pc /\ o.call = op[k].call /\ o.worker = op[k].worker
  BY <1>1
<1>3. op' = [op EXCEPT ![k] = o]
  BY DEF OpGoes, TypeOK
<1> HIDE DEF o
<1> QED
  BY <1>2, <1>3

\* A request that goes on: to the ledger's part, to its acceptance or to its
\* refusal, while the call keeps its mark or the request is the only one.
LEMMA OpGoesInv ==
    ASSUME IInv, NEW k \in Operators,
           NEW pc \in {"durable", "remotedurable", "accepted", "refused"}, OpGoes(k, pc),
           \A d \in Calls: run'[d].durable = run[d].durable,
           \A d \in Calls: \/ run'[d].status = run[d].status
                           \/ Requested(k) /\ d = op[k].call /\ pc = "refused",
           op[k].pc \in {"shared", "durable", "remote", "remotedurable"},
           pc = "durable" => op[k].pc = "shared" /\ run[op[k].call].durable,
           pc = "remotedurable" => op[k].pc = "remote"
    PROVE  OpInv' /\ op' \in [Operators -> Op]
<1>1. PICK o \in Op: /\ op' = [op EXCEPT ![k] = o] /\ o.pc = pc
                     /\ o.call = op[k].call /\ o.worker = op[k].worker
  BY OpGoesMoves DEF IInv
<1>2. \A j \in Operators: Requested(j) =>
        /\ op[j].call \in Calls
        /\ run[op[j].call].status \in {"cancelling", "cancelled"}
        /\ \A i \in Operators: Requested(i) /\ op[i].call = op[j].call => i = j
  BY DEF IInv, OpInv, TypeOK, Requested
<1>3. \A j \in Operators \ {k}: Requested(j) =>
        run'[op[j].call].status \in {"cancelling", "cancelled"}
  BY <1>2
<1>4. /\ op[k].pc \in {"shared", "durable"} =>
            op[k].call \in Calls /\ op[k].worker \in Workers
      /\ op[k].pc \in {"remote", "remotedurable"} => op[k].call = NoCall
  BY DEF IInv, OpInv
<1>5. o.pc \in {"durable", "accepted"} /\ o.call # NoCall => Requested(k)
  BY <1>1, <1>4 DEF Requested
<1>6. o.pc \in {"shared", "durable", "accepted"} /\ o.call # NoCall =>
        /\ run'[o.call].status \in {"cancelling", "cancelled"}
        /\ \A j \in Operators \ {k}: Requested(j) => op[j].call # o.call
  BY <1>1, <1>2, <1>5
<1>7. o.pc = "durable" => run'[o.call].durable
  BY <1>1, <1>4
<1> QED
  BY <1>1, <1>3, <1>4, <1>6, <1>7, OpMoves

\* The rest of cancel().
LEMMA OpStepInv ==
    ASSUME IInv, NEW k \in Operators, OpStep(k)
    PROVE  IInv'
<1>1. TypeOK /\ (op[k].pc \in {"shared", "durable"} => op[k].call \in Calls)
  BY DEF IInv, OpInv
<1>2. ASSUME NEW pc \in {"durable", "remotedurable", "accepted", "refused"}, OpGoes(k, pc),
             UNCHANGED <<ledgerOn, registry, run, claim, listing, lapsed, worked>>,
             record' \in {record, Asked}, ledger' \in {ledger, MarkedCancelling},
             op[k].pc \in {"shared", "durable", "remote", "remotedurable"},
             pc = "durable" => op[k].pc = "shared" /\ run[op[k].call].durable,
             pc = "remotedurable" => op[k].pc = "remote"
      PROVE  IInv'
  <2>1. OpInv' /\ op' \in [Operators -> Op]
    BY <1>2, OpGoesInv
  <2>2. ledger' \in Ledger /\ (ledger.status # "absent" => ledger'.status # "absent")
    BY <1>1, <1>2, MarkedCancellingType DEF TypeOK
  <2>3. record' \in Record
    BY <1>1, <1>2, AskedRecord DEF TypeOK
  <2>4. TypeOK'
    BY <1>1, <1>2, <2>1, <2>2, <2>3 DEF TypeOK
  <2> QED
    BY <1>2, <2>1, <2>2, <2>4, SharedStill, StillInv
<1>3. ASSUME NEW c \in Calls, c = op[k].call, op[k].pc \in {"shared", "durable"},
             NEW pc \in {"accepted", "refused"}, OpGoes(k, pc),
             run' = Killed(c) \/ (/\ run' = [run EXCEPT ![c].status = "running"]
                                  /\ pc = "refused" /\ op[k].pc = "durable"),
             UNCHANGED <<ledgerOn, registry, claim, listing, lapsed, worked>>,
             record' \in {record, Asked}, ledger' \in {ledger, MarkedCancelling}
      PROVE  IInv'
  <2>1. run[c] \in Run /\ Shape(c) /\ run[c].status \in {"cancelling", "cancelled"}
    <3>1. Requested(k)
      BY <1>3, MedusaAssumption DEF Requested
    <3> QED
      BY <1>3, <3>1 DEF IInv, TypeOK, OpInv
  <2>2. PICK r \in Run:
          /\ Becomes(c, r) /\ r.pc = run[c].pc /\ r.worker = run[c].worker
          /\ r.shared = run[c].shared /\ r.durable = run[c].durable
          /\ r.beat = run[c].beat
          /\ \/ r.status = run[c].status
             \/ r.status = "running" /\ pc = "refused" /\ op[k].pc = "durable"
    <3>1. CASE run' = Killed(c)
      <4> DEFINE x == run[c].cancelled \/ Active(c)
                 r == [run[c] EXCEPT !.cancelled = x]
      <4>1. x \in BOOLEAN /\ run' = [run EXCEPT ![c].cancelled = x]
        BY <2>1, <3>1 DEF Killed
      <4> HIDE DEF x
      <4>2. /\ r \in Run /\ r.pc = run[c].pc /\ r.worker = run[c].worker
            /\ r.shared = run[c].shared /\ r.durable = run[c].durable
            /\ r.beat = run[c].beat /\ r.status = run[c].status
        BY <2>1, <4>1
      <4>3. Becomes(c, r)
        BY <1>1, <4>1 DEF Becomes, TypeOK
      <4> HIDE DEF r
      <4> QED
        BY <4>2, <4>3
    <3>2. CASE /\ run' = [run EXCEPT ![c].status = "running"]
               /\ pc = "refused" /\ op[k].pc = "durable"
      <4> DEFINE r == [run[c] EXCEPT !.status = "running"]
      <4>1. /\ r \in Run /\ r.pc = run[c].pc /\ r.worker = run[c].worker
            /\ r.shared = run[c].shared /\ r.durable = run[c].durable
            /\ r.beat = run[c].beat /\ r.status = "running"
        BY <2>1
      <4>2. Becomes(c, r)
        BY <1>1, <3>2 DEF Becomes, TypeOK
      <4> HIDE DEF r
      <4> QED
        BY <3>2, <4>1, <4>2
    <3> QED
      BY <1>3, <3>1, <3>2
  <2>3. run'[c] = r /\ \A d \in Calls \ {c}: run'[d] = run[d]
    BY <1>1, <2>2, BecomesOne
  <2>4. r.status # run[c].status => run[c].durable /\ ledgerOn
    <3>1. op[k].pc = "durable" => run[c].durable
      BY <1>3 DEF IInv, OpInv
    <3> QED
      BY <2>1, <2>2, <3>1 DEF Shape
  <2>5. Shape(c)'
    <3>1. Kept(c)' <=> Kept(c)
      BY <2>2, <2>3 DEF Kept
    <3> QED
      BY <1>3, <2>1, <2>2, <2>3, <2>4, <3>1 DEF Shape
  <2>6. OpInv' /\ op' \in [Operators -> Op]
    <3>1. \A d \in Calls: run'[d].durable = run[d].durable
      BY <2>2, <2>3
    <3>2. \A d \in Calls: \/ run'[d].status = run[d].status
                          \/ Requested(k) /\ d = op[k].call /\ pc = "refused"
      BY <1>3, <2>2, <2>3, MedusaAssumption DEF Requested
    <3> QED
      BY <1>3, <3>1, <3>2, OpGoesInv
  <2> QED
    BY <1>3, <2>2, <2>4, <2>5, <2>6, LocalInv
<1>4. ASSUME NEW reply \in RedisReplies, CancelShared(k, reply) PROVE IInv'
  <2>1. /\ op[k].pc = "shared" /\ record' \in {record, Asked}
        /\ UNCHANGED <<ledgerOn, registry, claim, ledger, listing, lapsed, worked>>
    BY <1>4 DEF CancelShared
  <2>2. \/ OpGoes(k, "refused") /\ UNCHANGED run
        \/ run[op[k].call].durable /\ OpGoes(k, "durable") /\ UNCHANGED run
        \/ OpGoes(k, "accepted") /\ run' = Killed(op[k].call)
    BY <1>4 DEF CancelShared
  <2> QED
    BY <1>1, <1>2, <1>3, <2>1, <2>2
<1>5. ASSUME NEW reply \in CommandReplies, CancelDurable(k, reply) PROVE IInv'
  <2>1. /\ op[k].pc = "durable" /\ ledger' \in {ledger, MarkedCancelling}
        /\ UNCHANGED <<ledgerOn, registry, claim, record, listing, lapsed, worked>>
    BY <1>5 DEF CancelDurable
  <2>2. \/ OpGoes(k, "refused") /\ UNCHANGED run
        \/ OpGoes(k, "accepted") /\ run' = Killed(op[k].call)
        \/ /\ OpGoes(k, "refused")
           /\ run' = [run EXCEPT ![op[k].call].status = "running"]
    BY <1>5 DEF CancelDurable
  <2> QED
    BY <1>1, <1>2, <1>3, <2>1, <2>2
<1>6. ASSUME NEW reply \in RedisReplies, CancelRemote(k, reply) PROVE IInv'
  <2>1. /\ op[k].pc = "remote" /\ record' \in {record, Asked}
        /\ UNCHANGED <<ledgerOn, registry, run, claim, ledger, listing, lapsed, worked>>
    BY <1>6 DEF CancelRemote
  <2>2. \E pc \in {"refused", "remotedurable", "accepted"}: OpGoes(k, pc)
    BY <1>6 DEF CancelRemote
  <2> QED
    BY <1>2, <2>1, <2>2
<1>7. ASSUME NEW reply \in CommandReplies, CancelRemoteDurable(k, reply) PROVE IInv'
  <2>1. /\ op[k].pc = "remotedurable" /\ ledger' \in {ledger, MarkedCancelling}
        /\ UNCHANGED <<ledgerOn, registry, run, claim, record, listing, lapsed, worked>>
    BY <1>7 DEF CancelRemoteDurable
  <2>2. \E pc \in {"refused", "accepted"}: OpGoes(k, pc)
    BY <1>7 DEF CancelRemoteDurable
  <2> QED
    BY <1>2, <2>1, <2>2
<1> QED
  BY <1>4, <1>5, <1>6, <1>7 DEF OpStep

\* Bystanders and pruning change no call; only ended runs are pruned.
LEMMA BystanderInv ==
    ASSUME IInv, NEW w \in Workers, ListRuns(w) \/ Prune(w)
    PROVE  IInv'
<1>1. UNCHANGED <<ledgerOn, run, claim, record, ledger, op, lapsed, worked>>
  BY DEF ListRuns, Prune
<1>2. TypeOK'
  BY <1>1 DEF IInv, TypeOK, ListRuns, Prune
<1>3. ASSUME NEW d \in Calls, Kept(d)
      PROVE  registry'[run[d].worker] = registry[run[d].worker]
  <2>1. /\ run[d].worker \in Workers /\ run[d].status \in Live
        /\ registry[run[d].worker] = d
    BY <1>3 DEF IInv, Shape
  <2> QED
    BY <2>1 DEF IInv, TypeOK, ListRuns, Prune
<1>4. OpInv'
  BY <1>1 DEF IInv, OpInv, Requested
<1> QED
  BY <1>1, <1>2, <1>3, <1>4, SharedStill, StillInv

\* A crash ends the calls and the requests of one worker, and empties its
\* registry.
LEMMA CrashInv ==
    ASSUME IInv, NEW w \in Workers, Crash(w)
    PROVE  IInv'
<1>1. /\ run \in [Calls -> Run] /\ op \in [Operators -> Op]
      /\ registry \in [Workers -> Calls \cup {NoCall}]
  BY DEF IInv, TypeOK
<1>2. /\ UNCHANGED <<ledgerOn, claim, record, ledger, listing, lapsed, worked>>
      /\ registry' = [registry EXCEPT ![w] = NoCall]
  BY DEF Crash
<1>3. ASSUME NEW c \in Calls
      PROVE  /\ run'[c] \in Run
             /\ run'[c].status = run[c].status /\ run'[c].durable = run[c].durable
             /\ run'[c].worker = run[c].worker
             /\ \/ /\ run'[c] = run[c]
                   /\ run[c].worker # w \/ (run[c].pc = "over" /\ run[c].beat = "off")
                \/ run'[c].pc = "over" /\ run'[c].beat = "off"
  <2> DEFINE r == [run[c] EXCEPT !.pc = "over", !.beat = "off", !.cancelled = FALSE]
  <2>1. /\ r \in Run /\ r.pc = "over" /\ r.beat = "off"
        /\ r.status = run[c].status /\ r.durable = run[c].durable
        /\ r.worker = run[c].worker
    BY ZenonT(60), <1>1
  <2>2. run'[c] = IF run[c].worker = w /\ (run[c].pc # "over" \/ run[c].beat # "off")
                  THEN r ELSE run[c]
    BY DEF Crash, Active
  <2> HIDE DEF r
  <2> QED
    BY <1>1, <2>1, <2>2
<1>4. run' \in [Calls -> Run]
  <2>1. run' = [c \in Calls |-> run'[c]]
    BY DEF Crash
  <2> QED
    BY <1>3, <2>1
<1>5. ASSUME NEW k \in Operators
      PROVE  /\ op'[k] \in Op /\ op'[k].call = op[k].call /\ op'[k].worker = op[k].worker
             /\ op'[k] = op[k] \/ op'[k].pc = "refused"
  <2> DEFINE o == [op[k] EXCEPT !.pc = "refused"]
  <2>1. /\ o \in Op /\ o.pc = "refused" /\ o.call = op[k].call
        /\ o.worker = op[k].worker
    BY <1>1
  <2>2. op'[k] = op[k] \/ op'[k] = o
    BY DEF Crash
  <2> HIDE DEF o
  <2> QED
    BY <1>1, <2>1, <2>2
<1>6. op' \in [Operators -> Op]
  <2>1. op' = [k \in Operators |-> op'[k]]
    BY DEF Crash
  <2> QED
    BY <1>5, <2>1
<1>7. TypeOK'
  BY <1>1, <1>2, <1>4, <1>6 DEF IInv, TypeOK
<1>8. ASSUME NEW c \in Calls PROVE Shape(c)'
  <2>1. Shape(c)
    BY DEF IInv
  <2> QED
    BY <1>1, <1>2, <1>3, <2>1 DEF Shape, Kept
<1>9. DurableOnce'
  BY <1>2, <1>3 DEF IInv, DurableOnce
<1>10. ClaimInv' /\ SharedAgrees'
  <2>1. \A c \in Calls: Holds(run'[c]) \/ run'[c].pc = "release" \/ run'[c].beat # "off"
          => run'[c] = run[c]
    BY <1>3 DEF Holds
  <2>2. \A c \in Calls: run[c].pc = "over" => run'[c].pc = "over"
    BY <1>3
  <2>3. SharedAgrees'
    BY <1>2, <1>3, <2>2, AgreesKeeps
  <2>4. ClaimInv'
    BY <1>2, <2>1 DEF IInv, ClaimInv
  <2> QED
    BY <2>3, <2>4
<1>11. OpInv'
  <2>1. \A k \in Operators: Requested(k) => op[k].call \in Calls
    BY <1>1 DEF Requested
  <2>2. \A k \in Operators:
          op'[k].pc \in {"shared", "durable", "accepted"} /\ op'[k].call # NoCall =>
              Requested(k) /\ op'[k] = op[k]
    BY <1>5 DEF Requested
  <2>3. \A k \in Operators:
          /\ op'[k].pc \in {"shared", "durable"} =>
                op'[k].call \in Calls /\ op'[k].worker \in Workers
          /\ op'[k].pc \in {"idle", "remote", "remotedurable"} => op'[k].call = NoCall
          /\ op'[k].pc = "durable" => run'[op'[k].call].durable
    BY <1>3, <1>5 DEF IInv, OpInv
  <2> QED
    BY <1>3, <2>1, <2>2, <2>3 DEF IInv, OpInv, Requested
<1> QED
  BY <1>7, <1>8, <1>9, <1>10, <1>11 DEF IInv

\* A claim that expires under its holder is a lapse; a record outlives its claim.
LEMMA ExpiryInv ==
    ASSUME IInv, ClaimExpires \/ RecordExpires
    PROVE  IInv'
<1>1. UNCHANGED <<ledgerOn, registry, run, ledger, op, listing, worked>>
  BY DEF ClaimExpires, RecordExpires
<1>2. NoRecord \in Record /\ NoRecord.status = "absent"
  BY MedusaAssumption DEF NoRecord
<1>3. TypeOK'
  BY ZenonT(60), <1>1, <1>2 DEF IInv, TypeOK, ClaimExpires, RecordExpires
<1>4. OpInv'
  BY <1>1 DEF IInv, OpInv, Requested
<1>5. \A c \in Calls: Holds(run[c]) => run[c].worker \in Workers
  BY DEF IInv, TypeOK, Shape, Holds
<1>7. SharedAgrees'
  <2>1. CASE record' = record
    <3>1. lapsed => lapsed'
      BY DEF ClaimExpires, RecordExpires
    <3> QED
      BY <1>1, <2>1, <3>1, AgreesKeeps
  <2>2. CASE record' = NoRecord
    BY <1>2, <2>2 DEF SharedAgrees
  <2> QED
    BY <2>1, <2>2 DEF ClaimExpires, RecordExpires
<1>6. ClaimInv'
  <2> SUFFICES ASSUME ~lapsed' PROVE ClaimInv'
    BY DEF ClaimInv
  <2>1. ~lapsed
    BY DEF ClaimExpires, RecordExpires
  <2>2. \A c \in Calls: ~Holds(run[c])
    <3>1. \A c \in Calls: Holds(run[c]) => claim = run[c].worker
      BY <2>1 DEF IInv, ClaimInv
    <3> QED
      BY <1>5, <3>1, MedusaAssumption DEF ClaimExpires, RecordExpires, Holding, Holds
  <2> QED
    BY <1>1, <2>2 DEF ClaimInv
<1> QED
  BY <1>1, <1>3, <1>4, <1>6, <1>7, StillInv

\* Every step preserves the invariant.
LEMMA NextInv == IInv /\ [Next]_vars => IInv'
<1> SUFFICES ASSUME IInv, [Next]_vars PROVE IInv'
  OBVIOUS
<1>1. CASE UNCHANGED vars
  <2>1. TypeOK' /\ OpInv'
    BY <1>1 DEF IInv, TypeOK, OpInv, Requested, vars
  <2> QED
    BY <1>1, <2>1, SharedStill, StillInv DEF vars
<1> QED
  BY <1>1, RegisterInv, CallInv, WorkEndsInv, ClientLeavesInv, BeatInv, OpStepInv,
     CancelInv, BystanderInv, CrashInv, ExpiryInv DEF Next

-----------------------------------------------------------------------------
(* The theorems. *)

\* The inductive invariant of the runs.
THEOREM MedusaInvariant == Spec => []IInv
  BY InitInv, NextInv, PTL DEF Spec

\* Registries, Redis keys, the ledger's row and the requests always have their
\* types.
THEOREM MedusaTypes == Spec => []TypeOK
<1>1. IInv => TypeOK
  BY DEF IInv
<1> QED
  BY <1>1, MedusaInvariant, PTL

\* With the ledger a run id executes once and for all: register inserts the row
\* for one call, no other call gets past it, and the row is never removed.
THEOREM MedusaLedgerRunsOnce == Spec => []LedgerRunsOnce
<1>1. IInv => LedgerRunsOnce
  <2> SUFFICES ASSUME IInv, ledgerOn PROVE Cardinality(worked) <= 1
    BY DEF LedgerRunsOnce
  <2>1. \A c, d \in worked: c = d
    BY DEF IInv, TypeOK, Shape, DurableOnce
  <2>2. CASE worked = {}
    BY <2>2, FS_EmptySet
  <2>3. ASSUME NEW c \in worked PROVE Cardinality(worked) <= 1
    <3>1. worked = {c}
      BY <2>1
    <3>2. Cardinality({c}) = 1
      BY FS_Singleton
    <3> QED
      BY <3>1, <3>2
  <2> QED
    BY <2>2, <2>3
<1> QED
  BY <1>1, MedusaInvariant, PTL

\* Under the shared claim two calls with the run id never work at the same time,
\* as long as no claim has lapsed: SET NX gives it to one call, and only that
\* call, or one that does not work under it, ever deletes the key.
THEOREM MedusaSharedRunExclusive == Spec => []SharedRunExclusive
<1>1. IInv => SharedRunExclusive
  BY DEF IInv, ClaimInv, Holds, SharedRunExclusive
<1> QED
  BY <1>1, MedusaInvariant, PTL

\* A record that tells of an end was ended by a call of the record's worker that
\* is over: with that call's status, or, with the ledger, as the 'failed' of a
\* call that never executed.  It is the call that wrote the record, unless a
\* claim has lapsed.
THEOREM MedusaSharedAgrees == Spec => []SharedAgrees
<1>1. IInv => SharedAgrees
  BY DEF IInv
<1> QED
  BY <1>1, MedusaInvariant, PTL

\* An accepted local cancellation is never overtaken by the response, nor
\* withdrawn by another request: a marked run admits no second request, and
\* _mark_terminal ends it as cancelled.
THEOREM MedusaAcceptedCancelWins == Spec => []AcceptedCancelWins
<1>1. IInv => AcceptedCancelWins
  BY DEF IInv, OpInv, Requested, AcceptedCancelWins
<1> QED
  BY <1>1, MedusaInvariant, PTL

=============================================================================
