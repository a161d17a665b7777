------------------------ MODULE CronSchedulerProofs ------------------------
(***************************************************************************)
(* The safety of the cron schedules, for any schedules, any processes and  *)
(* any bounds on occurrences and claims.                                   *)
(***************************************************************************)
EXTENDS CronScheduler, FiniteSets, FiniteSetTheorems, TLAPS

\* How the columns of a row hang together.
Shaped(r) ==
    /\ r.token < nextToken
    /\ r.token = 0 <=> r.lease = "null"
    /\ r.status \in {"absent", "deleted"} => r.token = 0
    /\ r.status = "absent" => r.occ = 0
    /\ r.due = "yes" => r.occ # 0
    /\ r.lease # "null" => r.claimed # 0

RowShape == \A c \in Crons: Shaped(cron[c])

\* A claim on a due row is for the occurrence that is due, or that one fell due
\* during the run and is overtaken.
Covered(c) ==
    cron[c].token # 0 /\ cron[c].due = "yes" =>
        cron[c].claimed = cron[c].occ \/ <<c, cron[c].occ>> \in overtaken

AllCovered == \A c \in Crons: Covered(c)

\* Occurrence o of the schedule in row r will not fall due any more.
Behind(r, o) ==
    \/ r.status = "deleted"
    \/ o < r.occ
    \/ o = r.occ /\ r.due = "no"

\* What a completion moved on from is behind: no claim will be for it.
PassedBehind ==
    \A c \in Crons, o \in Occurrences: <<c, o>> \in passed => Behind(cron[c], o)

Busy(w) == worker[w].pc \in {"dispatching", "completing"}

\* A busy loop holds a token that was issued, and while the row still has that
\* token it is about the loop's occurrence.
WorkerShape ==
    \A w \in Workers:
        /\ Busy(w) => /\ worker[w].cron \in Crons
                      /\ worker[w].token # 0 /\ worker[w].token < nextToken
                      /\ worker[w].occ # 0
                      /\ cron[worker[w].cron].token = worker[w].token =>
                            cron[worker[w].cron].claimed = worker[w].occ
        /\ ~Busy(w) => worker[w].cron = NoCron

\* A loop that goes on to complete its claim has dispatched or has an excuse.
CompletingWasServed ==
    \A w \in Workers: worker[w].pc = "completing" =>
        \/ sent[worker[w].cron][worker[w].occ] > 0
        \/ <<worker[w].cron, worker[w].occ>> \in excused

\* The loops that may still dispatch occurrence o of c.
Dispatchers(c, o) ==
    {w \in Workers: /\ worker[w].pc = "dispatching"
                    /\ worker[w].cron = c /\ worker[w].occ = o}

\* Occurrence o of the schedule in row r is still to come, or due under no live
\* claim of its own.
ReclaimableRow(r, o) ==
    /\ r.status # "deleted"
    /\ \/ o > r.occ
       \/ o = r.occ /\ r.due = "yes" /\ ~(r.lease = "live" /\ r.claimed = o)

Reclaimable(c, o) == ReclaimableRow(cron[c], o)

\* The dispatches made and those still possible are paid for by the claims
\* that lapsed and by one more, which a reclaimable occurrence has left.
Counted(c, o) ==
    /\ IsFiniteSet(Dispatchers(c, o))
    /\ sent[c][o] + Cardinality(Dispatchers(c, o)) <= 1 + lapses[c][o]
    /\ Reclaimable(c, o) =>
          sent[c][o] + Cardinality(Dispatchers(c, o)) <= lapses[c][o]

AllCounted == \A c \in Crons, o \in Occurrences: Counted(c, o)

\* The inductive invariant.
IInv ==
    /\ TypeOK
    /\ RowShape
    /\ WorkerShape
    /\ CompletingWasServed
    /\ AllCounted
    /\ PassedWasServed
    /\ AllCovered
    /\ PassedBehind

USE DEF Replies, Row, Worker

-----------------------------------------------------------------------------
(* Lemmas on rows, loops and the count of dispatches. *)

\* A blank row has its status and nothing else.
LEMMA BlankRow ==
    ASSUME NEW status \in {"absent", "deleted", "enabled", "disabled"}
    PROVE  /\ Blank(status) \in Row
           /\ Blank(status).status = status
           /\ Blank(status).due = "no"
           /\ Blank(status).token = 0
           /\ Blank(status).lease = "null"
           /\ Blank(status).occ = 0
  BY CronAssumption DEF Blank

\* A completed row is not due and carries no claim.
LEMMA CompletedRow ==
    ASSUME NEW r \in Row
    PROVE  /\ Completed(r) \in Row
           /\ Completed(r).status = r.status
           /\ Completed(r).due = "no"
           /\ Completed(r).token = 0
           /\ Completed(r).lease = "null"
           /\ Completed(r).occ = r.occ
<1>0. 0 \in 0..MaxOccurrences /\ 0 \in Nat
  BY CronAssumption
<1>1. Completed(r) \in Row
  <2> DEFINE d == [r EXCEPT !.due = "no", !.lease = "null"]
  <2>1. d \in Row
    OBVIOUS
  <2>2. Completed(r) = [d EXCEPT !.token = 0, !.claimed = 0]
    BY DEF Completed
  <2> HIDE DEF d
  <2> QED
    BY <1>0, <2>1, <2>2
<1>2. /\ Completed(r).status = r.status
      /\ Completed(r).due = "no"
      /\ Completed(r).token = 0
  BY DEF Completed
<1>3. /\ Completed(r).lease = "null"
      /\ Completed(r).occ = r.occ
  BY DEF Completed
<1> QED
  BY <1>1, <1>2, <1>3

\* A loop that is off is no loop's claim.
LEMMA OffWorkerShape ==
    /\ OffWorker \in Worker
    /\ OffWorker.pc = "off"
    /\ OffWorker.cron = NoCron
  BY CronAssumption DEF OffWorker

\* The count of one occurrence does not depend on anything but its own
\* dispatches, lapses and dispatchers, and on whether it is reclaimable.
LEMMA CountedKept ==
    ASSUME TypeOK, NEW c \in Crons, NEW o \in Occurrences, Counted(c, o),
           sent'[c][o] = sent[c][o], lapses'[c][o] = lapses[c][o],
           \/ Dispatchers(c, o)' = Dispatchers(c, o)
           \/ \E w: Dispatchers(c, o)' = Dispatchers(c, o) \ {w},
           Reclaimable(c, o)' => Reclaimable(c, o)
    PROVE  Counted(c, o)'
<1> DEFINE D == Dispatchers(c, o)
<1>1. sent[c][o] \in Nat /\ lapses[c][o] \in Nat
  BY DEF TypeOK
<1>2. IsFiniteSet(D) /\ Cardinality(D) \in Nat
  BY FS_CardinalityType DEF Counted
<1>3. IsFiniteSet(D') /\ Cardinality(D') \in Nat /\ Cardinality(D') <= Cardinality(D)
  <2>1. CASE D' = D
    BY <1>2, <2>1
  <2>2. CASE \E w: D' = D \ {w}
    <3>1. PICK w: D' = D \ {w}
      BY <2>2
    <3> HIDE DEF D
    <3>2. /\ IsFiniteSet(D')
          /\ Cardinality(D') = IF w \in D THEN Cardinality(D) - 1 ELSE Cardinality(D)
      BY <1>2, <3>1, FS_RemoveElement
    <3>3. Cardinality(D') \in Nat
      BY <3>2, FS_CardinalityType
    <3> QED
      BY <1>2, <3>2, <3>3
  <2> QED
    BY <2>1, <2>2
<1> HIDE DEF D
<1>4. /\ sent[c][o] + Cardinality(D) <= 1 + lapses[c][o]
      /\ Reclaimable(c, o) => sent[c][o] + Cardinality(D) <= lapses[c][o]
  BY DEF Counted, D
<1>5. /\ sent'[c][o] + Cardinality(D') <= 1 + lapses'[c][o]
      /\ Reclaimable(c, o)' => sent'[c][o] + Cardinality(D') <= lapses'[c][o]
  BY <1>1, <1>2, <1>3, <1>4
<1> QED
  BY <1>3, <1>5 DEF Counted, D

\* Counting one dispatch touches one counter.
LEMMA SentCount ==
    ASSUME TypeOK, NEW w \in Workers, worker[w].cron \in Crons,
           worker[w].occ \in Occurrences, Sent(w)
    PROVE  /\ sent' \in [Crons -> [Occurrences -> Nat]]
           /\ sent'[worker[w].cron][worker[w].occ]
                = sent[worker[w].cron][worker[w].occ] + 1
           /\ \A c \in Crons, o \in Occurrences:
                c # worker[w].cron \/ o # worker[w].occ => sent'[c][o] = sent[c][o]
  BY DEF TypeOK, Sent

-----------------------------------------------------------------------------
(* The invariant holds initially and is preserved by every action. *)

\* No schedules and no loops: nothing was sent and nobody may send.
LEMMA InitInv == Init => IInv
<1> SUFFICES ASSUME Init PROVE IInv
  OBVIOUS
<1>1. TypeOK /\ RowShape /\ WorkerShape /\ CompletingWasServed /\ PassedWasServed
  BY BlankRow, OffWorkerShape
  DEF Init, TypeOK, RowShape, Shaped, WorkerShape, Busy, CompletingWasServed, PassedWasServed
<1>3. AllCovered /\ PassedBehind
  BY BlankRow DEF Init, AllCovered, Covered, PassedBehind
<1>2. ASSUME NEW c \in Crons, NEW o \in Occurrences PROVE Counted(c, o)
  <2>1. Dispatchers(c, o) = {}
    BY OffWorkerShape DEF Init, Dispatchers
  <2>2. sent[c][o] = 0 /\ lapses[c][o] = 0
    BY DEF Init
  <2> QED
    BY <2>1, <2>2, FS_EmptySet DEF Counted
<1> QED
  BY <1>1, <1>2, <1>3 DEF IInv, AllCounted

\* A loop that comes to rest, off or polling, with nothing else changed.
LEMMA RestStep ==
    ASSUME IInv, NEW w \in Workers, NEW q \in Worker,
           worker' = [worker EXCEPT ![w] = q],
           q.pc \in {"off", "idle"}, q.cron = NoCron,
           UNCHANGED <<cron, nextToken, sent, lapses, excused, passed, overtaken>>
    PROVE  IInv'
<1> USE DEF IInv, TypeOK
<1>1. /\ worker' \in [Workers -> Worker]
      /\ worker'[w] = q
      /\ \A v \in Workers \ {w}: worker'[v] = worker[v]
  OBVIOUS
<1>2. TypeOK' /\ RowShape' /\ PassedWasServed' /\ AllCovered' /\ PassedBehind'
  BY <1>1 DEF RowShape, Shaped, PassedWasServed, AllCovered, Covered, PassedBehind
<1>3. WorkerShape' /\ CompletingWasServed'
  BY <1>1 DEF WorkerShape, Busy, CompletingWasServed
<1>4. ASSUME NEW c \in Crons, NEW o \in Occurrences PROVE Counted(c, o)'
  <2>1. Dispatchers(c, o)' = Dispatchers(c, o) \ {w}
    BY <1>1 DEF Dispatchers
  <2>2. Reclaimable(c, o)' => Reclaimable(c, o)
    BY DEF Reclaimable
  <2> QED
    BY <2>1, <2>2, CountedKept DEF AllCounted
<1> QED
  BY <1>2, <1>3, <1>4 DEF AllCounted

\* A dispatch comes to an end: it took effect, has an excuse, or both.
LEMMA DispatchedStep ==
    ASSUME IInv, NEW w \in Workers, NEW q \in Worker,
           worker[w].pc = "dispatching",
           worker' = [worker EXCEPT ![w] = q],
           q.pc = "completing", q.cron = worker[w].cron,
           q.token = worker[w].token, q.occ = worker[w].occ,
           UNCHANGED <<cron, nextToken, lapses, passed, overtaken>>,
           sent' = sent \/ Sent(w),
           excused' = excused \/ Excuse(w),
           Sent(w) \/ Excuse(w)
    PROVE  IInv'
<1> USE DEF IInv
<1> DEFINE k == worker[w].cron
           n == worker[w].occ
<1>1. k \in Crons /\ n \in Occurrences
  BY CronAssumption DEF TypeOK, WorkerShape, Busy, Occurrences
<1>2. /\ worker' \in [Workers -> Worker]
      /\ worker'[w] = q
      /\ \A v \in Workers \ {w}: worker'[v] = worker[v]
  BY DEF TypeOK
<1>3. /\ sent' \in [Crons -> [Occurrences -> Nat]]
      /\ \A c \in Crons, o \in Occurrences: sent'[c][o] >= sent[c][o]
      /\ \A c \in Crons, o \in Occurrences: c # k \/ o # n => sent'[c][o] = sent[c][o]
      /\ sent'[k][n] <= sent[k][n] + 1
      /\ Sent(w) => sent'[k][n] > 0
  <2>1. \A c \in Crons, o \in Occurrences: sent[c][o] \in Nat
    BY DEF TypeOK
  <2>2. CASE Sent(w)
    BY <1>1, <2>1, <2>2, SentCount
  <2>3. CASE sent' = sent /\ ~Sent(w)
    BY <1>1, <2>1, <2>3 DEF TypeOK
  <2> QED
    BY <2>2, <2>3
<1>4. /\ excused' \subseteq Crons \X Occurrences
      /\ excused \subseteq excused'
      /\ Excuse(w) => <<k, n>> \in excused'
  BY <1>1 DEF TypeOK, Excuse
<1> HIDE DEF k, n
<1>5. TypeOK' /\ RowShape'
  BY <1>2, <1>3, <1>4 DEF TypeOK, RowShape, Shaped
<1>6. WorkerShape'
  BY <1>2 DEF WorkerShape, Busy
<1>7. PassedWasServed' /\ AllCovered' /\ PassedBehind'
  BY <1>3, <1>4 DEF TypeOK, PassedWasServed, AllCovered, Covered, PassedBehind
<1>8. CompletingWasServed'
  <2> SUFFICES ASSUME NEW v \in Workers, worker'[v].pc = "completing"
               PROVE  \/ sent'[worker'[v].cron][worker'[v].occ] > 0
                      \/ <<worker'[v].cron, worker'[v].occ>> \in excused'
    BY DEF CompletingWasServed
  <2>1. CASE v = w
    BY <1>2, <1>3, <1>4, <2>1 DEF k, n
  <2>2. CASE v # w
    <3>1. worker'[v] = worker[v]
      BY <1>2, <2>2
    <3>2. worker[v].cron \in Crons /\ worker[v].occ \in Occurrences
      BY <3>1, CronAssumption DEF TypeOK, WorkerShape, Busy, Occurrences
    <3>3. sent[worker[v].cron][worker[v].occ] \in Nat
          /\ sent'[worker[v].cron][worker[v].occ] \in Nat
      BY <1>3, <3>2 DEF TypeOK
    <3>4. sent'[worker[v].cron][worker[v].occ] >= sent[worker[v].cron][worker[v].occ]
      BY <1>3, <3>2
    <3>5. \/ sent[worker[v].cron][worker[v].occ] > 0
          \/ <<worker[v].cron, worker[v].occ>> \in excused
      BY <3>1 DEF CompletingWasServed
    <3> QED
      BY <1>4, <3>1, <3>3, <3>4, <3>5
  <2> QED
    BY <2>1, <2>2
<1>9. ASSUME NEW c \in Crons, NEW o \in Occurrences PROVE Counted(c, o)'
  <2>1. Dispatchers(c, o)' = Dispatchers(c, o) \ {w}
    BY <1>2 DEF Dispatchers
  <2>2. Reclaimable(c, o)' <=> Reclaimable(c, o)
    BY DEF Reclaimable
  <2>3. CASE c # k \/ o # n
    BY <1>3, <2>1, <2>2, <2>3, CountedKept DEF AllCounted
  <2>4. CASE c = k /\ o = n
    <3> DEFINE D == Dispatchers(c, o)
    <3>1. w \in D
      BY <2>4 DEF Dispatchers, k, n
    <3>2. IsFiniteSet(D) /\ Cardinality(D) \in Nat
      BY FS_CardinalityType DEF AllCounted, Counted
    <3>3. IsFiniteSet(D') /\ Cardinality(D') = Cardinality(D) - 1
      BY <2>1, <3>1, <3>2, FS_RemoveElement
    <3>4. sent[c][o] \in Nat /\ sent'[c][o] \in Nat /\ lapses[c][o] \in Nat
          /\ lapses'[c][o] = lapses[c][o] /\ sent'[c][o] <= sent[c][o] + 1
      BY <1>3, <2>4 DEF TypeOK
    <3>5. /\ sent[c][o] + Cardinality(D) <= 1 + lapses[c][o]
          /\ Reclaimable(c, o) => sent[c][o] + Cardinality(D) <= lapses[c][o]
      BY DEF AllCounted, Counted
    <3> HIDE DEF D
    <3>6. /\ sent'[c][o] + Cardinality(D') <= 1 + lapses'[c][o]
          /\ Reclaimable(c, o)' => sent'[c][o] + Cardinality(D') <= lapses'[c][o]
      BY <2>2, <3>2, <3>3, <3>4, <3>5
    <3> QED
      BY <3>3, <3>6 DEF Counted, D
  <2> QED
    BY <2>3, <2>4
<1> QED
  BY <1>5, <1>6, <1>7, <1>8, <1>9 DEF AllCounted

\* A step that changes one row, and neither its token nor the occurrence its
\* claim is for, except by clearing the claim, and that makes no occurrence
\* reclaimable or due again.
LEMMA RowStep ==
    ASSUME IInv, NEW c \in Crons, NEW r \in Row,
           cron' = [cron EXCEPT ![c] = r],
           UNCHANGED <<worker, nextToken, sent, lapses, excused, passed>>,
           overtaken \subseteq overtaken', overtaken' \subseteq Crons \X Occurrences,
           Shaped(r),
           r.token # 0 /\ r.due = "yes" =>
               r.claimed = r.occ \/ <<c, r.occ>> \in overtaken',
           \A o \in Occurrences: Behind(cron[c], o) => Behind(r, o),
           \/ r.token = 0
           \/ r.token = cron[c].token /\ r.claimed = cron[c].claimed,
           \A o \in Occurrences: ReclaimableRow(r, o) => ReclaimableRow(cron[c], o)
    PROVE  IInv'
<1> USE DEF IInv
<1>1. /\ cron' \in [Crons -> Row]
      /\ cron'[c] = r
      /\ \A d \in Crons \ {c}: cron'[d] = cron[d]
  BY DEF TypeOK
<1>2. \A d \in Crons: Shaped(cron'[d])
  BY <1>1 DEF RowShape
<1>3. TypeOK' /\ RowShape'
  BY <1>1, <1>2 DEF TypeOK, RowShape, Shaped
<1>4. WorkerShape' /\ CompletingWasServed' /\ PassedWasServed'
  BY <1>1 DEF WorkerShape, Busy, CompletingWasServed, PassedWasServed
<1>6. AllCovered' /\ PassedBehind'
  BY <1>1 DEF AllCovered, Covered, PassedBehind
<1>5. ASSUME NEW d \in Crons, NEW o \in Occurrences PROVE Counted(d, o)'
  <2>1. Dispatchers(d, o)' = Dispatchers(d, o)
    BY DEF Dispatchers
  <2>2. Reclaimable(d, o)' => Reclaimable(d, o)
    BY <1>1 DEF Reclaimable
  <2> QED
    BY <2>1, <2>2, CountedKept DEF AllCounted
<1> QED
  BY <1>3, <1>4, <1>5, <1>6 DEF AllCounted

\* The owner's calls and next_run_at being reached.
LEMMA OwnerStep ==
    ASSUME IInv, NEW c \in Crons,
           \/ \E status \in {"enabled", "disabled"}: CreateCron(c, status)
           \/ DeleteCron(c)
           \/ ToggleCron(c)
           \/ Tick(c)
    PROVE  IInv'
<1>1. /\ cron[c] \in Row /\ Shaped(cron[c]) /\ Covered(c)
      /\ cron \in [Crons -> Row] /\ nextToken \in Nat
      /\ 0 < nextToken
      /\ overtaken \subseteq Crons \X Occurrences
  BY DEF IInv, TypeOK, RowShape, Shaped, AllCovered
<1>2. UNCHANGED <<worker, nextToken, sent, lapses, excused, passed>>
  BY DEF CreateCron, DeleteCron, ToggleCron, Tick
<1>7. ~Tick(c) => overtaken' = overtaken
  BY DEF CreateCron, DeleteCron, ToggleCron
<1> DEFINE Fits(r) == /\ r \in Row
                      /\ Shaped(r)
                      /\ overtaken \subseteq overtaken'
                      /\ overtaken' \subseteq Crons \X Occurrences
                      /\ r.token # 0 /\ r.due = "yes" =>
                            r.claimed = r.occ \/ <<c, r.occ>> \in overtaken'
                      /\ \A o \in Occurrences: Behind(cron[c], o) => Behind(r, o)
                      /\ \/ r.token = 0
                         \/ r.token = cron[c].token /\ r.claimed = cron[c].claimed
                      /\ \A o \in Occurrences:
                            ReclaimableRow(r, o) => ReclaimableRow(cron[c], o)
<1>3. ASSUME NEW status \in {"enabled", "disabled"}, CreateCron(c, status)
      PROVE  IInv'
  <2>1. cron' = [cron EXCEPT ![c] = Blank(status)] /\ cron[c].status = "absent"
    BY <1>3 DEF CreateCron
  <2>2. Fits(Blank(status))
    BY <1>1, <1>3, <2>1, BlankRow, CronAssumption
    DEF Shaped, ReclaimableRow, Behind, Occurrences, CreateCron
  <2> QED
    BY <1>2, <2>1, <2>2, RowStep
<1>4. CASE DeleteCron(c)
  <2>1. cron' = [cron EXCEPT ![c] = Blank("deleted")]
    BY <1>4 DEF DeleteCron
  <2>2. Fits(Blank("deleted"))
    BY <1>1, <1>4, BlankRow DEF Shaped, ReclaimableRow, Behind, DeleteCron
  <2> QED
    BY <1>2, <2>1, <2>2, RowStep
<1>5. CASE ToggleCron(c)
  <2>1. CASE cron[c].status = "enabled"
    <3> DEFINE r == [cron[c] EXCEPT !.status = "disabled"]
    <3>1. cron' = [cron EXCEPT ![c] = r]
      BY <1>5, <2>1 DEF ToggleCron
    <3>2. r \in Row
      BY <1>1
    <3>3. /\ r.status = "disabled" /\ r.due = cron[c].due
          /\ r.token = cron[c].token /\ r.lease = cron[c].lease
          /\ r.occ = cron[c].occ /\ r.claimed = cron[c].claimed
      BY <1>1
    <3>5. overtaken' = overtaken
      BY <1>5 DEF ToggleCron
    <3> HIDE DEF r
    <3>4. Fits(r)
      BY <1>1, <2>1, <3>2, <3>3, <3>5 DEF Shaped, ReclaimableRow, Behind, Covered
    <3> QED
      BY <1>2, <3>1, <3>4, RowStep
  <2>2. CASE cron[c].status = "disabled"
    <3> DEFINE r == [cron[c] EXCEPT !.status = "enabled", !.due = "no"]
    <3>1. cron' = [cron EXCEPT ![c] = r]
      BY <1>5, <2>2 DEF ToggleCron
    <3>2. r \in Row
      BY <1>1
    <3>3. /\ r.status = "enabled" /\ r.due = "no"
          /\ r.token = cron[c].token /\ r.lease = cron[c].lease
          /\ r.occ = cron[c].occ /\ r.claimed = cron[c].claimed
      BY <1>1
    <3>5. overtaken' = overtaken
      BY <1>5 DEF ToggleCron
    <3> HIDE DEF r
    <3>4. Fits(r)
      BY <1>1, <2>2, <3>2, <3>3, <3>5 DEF Shaped, ReclaimableRow, Behind
    <3> QED
      BY <1>2, <3>1, <3>4, RowStep
  <2> QED
    BY <1>5, <2>1, <2>2 DEF ToggleCron, Exists
<1>6. CASE Tick(c)
  <2> DEFINE r == [cron[c] EXCEPT !.due = "yes", !.occ = cron[c].occ + 1]
  <2>1. /\ cron' = [cron EXCEPT ![c] = r]
        /\ cron[c].due = "no" /\ cron[c].occ < MaxOccurrences
        /\ cron[c].status \in {"enabled", "disabled"}
    BY <1>1, <1>6 DEF Tick, Exists
  <2>2. cron[c].occ + 1 \in 0..MaxOccurrences /\ cron[c].occ \in Nat
    BY <1>1, <2>1, CronAssumption
  <2>3. r \in Row
    BY <1>1, <2>2
  <2>4. /\ r.status = cron[c].status /\ r.due = "yes"
        /\ r.token = cron[c].token /\ r.lease = cron[c].lease
        /\ r.occ = cron[c].occ + 1 /\ r.claimed = cron[c].claimed
    BY <1>1
  <2>6. /\ overtaken' = IF cron[c].claimed # 0
                        THEN overtaken \cup {<<c, cron[c].occ + 1>>} ELSE overtaken
        /\ cron[c].occ + 1 \in Occurrences
    BY <1>6, <2>1, <2>2, CronAssumption DEF Tick, Occurrences
  <2> HIDE DEF r
  <2>5. Fits(r)
    <3>1. ASSUME NEW o \in Occurrences, ReclaimableRow(r, o)
          PROVE  ReclaimableRow(cron[c], o)
      BY <2>1, <2>2, <2>4, <3>1, CronAssumption DEF ReclaimableRow, Occurrences
    <3>2. Shaped(r)
      BY <1>1, <2>1, <2>2, <2>4 DEF Shaped
    <3>3. overtaken \subseteq overtaken' /\ overtaken' \subseteq Crons \X Occurrences
      BY <1>1, <2>6
    <3>4. r.token # 0 => <<c, r.occ>> \in overtaken'
      BY <1>1, <2>4, <2>6 DEF Shaped
    <3>5. ASSUME NEW o \in Occurrences, Behind(cron[c], o) PROVE Behind(r, o)
      BY <2>1, <2>2, <2>4, <3>5, CronAssumption DEF Behind, Occurrences
    <3> QED
      BY <2>3, <2>4, <3>1, <3>2, <3>3, <3>4, <3>5
  <2> QED
    BY <1>2, <2>1, <2>5, RowStep
<1> QED
  BY <1>3, <1>4, <1>5, <1>6

\* A claim that expires is counted before its occurrence becomes reclaimable.
LEMMA ExpiryStep ==
    ASSUME IInv, NEW c \in Crons, ClaimExpires(c)
    PROVE  IInv'
<1> USE DEF IInv
<1> DEFINE r == [cron[c] EXCEPT !.lease = "expired"]
           n == cron[c].claimed
<1>1. /\ cron[c] \in Row /\ Shaped(cron[c])
      /\ cron[c].lease = "live" /\ cron[c].token # 0
  BY DEF TypeOK, RowShape, Shaped, ClaimExpires
<1>2. n \in Occurrences
  BY <1>1, CronAssumption DEF Shaped, Occurrences
<1>3. /\ r \in Row
      /\ r.status = cron[c].status /\ r.due = cron[c].due
      /\ r.token = cron[c].token /\ r.lease = "expired"
      /\ r.occ = cron[c].occ /\ r.claimed = n
  BY <1>1
<1>4. /\ cron' = [cron EXCEPT ![c] = r]
      /\ lapses' = [lapses EXCEPT ![c][n] = @ + 1]
      /\ UNCHANGED <<worker, nextToken, sent, excused, passed, overtaken>>
  BY DEF ClaimExpires
<1> HIDE DEF r, n
<1>5. /\ cron' \in [Crons -> Row]
      /\ cron'[c] = r
      /\ \A d \in Crons \ {c}: cron'[d] = cron[d]
  BY <1>3, <1>4 DEF TypeOK
<1>6. /\ lapses' \in [Crons -> [Occurrences -> Nat]]
      /\ lapses'[c][n] = lapses[c][n] + 1
      /\ \A d \in Crons, o \in Occurrences:
            d # c \/ o # n => lapses'[d][o] = lapses[d][o]
  BY <1>2, <1>4 DEF TypeOK
<1>7. Shaped(r)
  BY <1>1, <1>3, <1>2 DEF Shaped, n
<1>8. TypeOK' /\ RowShape'
  <2>1. \A d \in Crons: Shaped(cron'[d])
    BY <1>5, <1>7 DEF RowShape
  <2> QED
    BY <1>4, <1>5, <1>6, <2>1 DEF TypeOK, RowShape, Shaped
<1>9. WorkerShape' /\ CompletingWasServed' /\ PassedWasServed'
  BY <1>3, <1>4, <1>5 DEF WorkerShape, Busy, CompletingWasServed, PassedWasServed, n
<1>11. AllCovered' /\ PassedBehind'
  BY <1>3, <1>4, <1>5 DEF AllCovered, Covered, PassedBehind, Behind, n
<1>10. ASSUME NEW d \in Crons, NEW o \in Occurrences PROVE Counted(d, o)'
  <2>1. Dispatchers(d, o)' = Dispatchers(d, o)
    BY <1>4 DEF Dispatchers
  <2>2. sent'[d][o] = sent[d][o]
    BY <1>4
  <2>3. CASE d # c \/ o # n
    <3>1. Reclaimable(d, o)' => Reclaimable(d, o)
      BY <1>1, <1>3, <1>5, <2>3 DEF Reclaimable, ReclaimableRow, n
    <3> QED
      BY <1>6, <2>1, <2>2, <2>3, <3>1, CountedKept DEF AllCounted
  <2>4. CASE d = c /\ o = n
    <3> DEFINE D == Dispatchers(d, o)
    <3>1. IsFiniteSet(D) /\ Cardinality(D) \in Nat
      BY FS_CardinalityType DEF AllCounted, Counted
    <3>2. sent[d][o] \in Nat /\ lapses[d][o] \in Nat /\ lapses'[d][o] = lapses[d][o] + 1
      BY <1>6, <2>4 DEF TypeOK
    <3>3. sent[d][o] + Cardinality(D) <= 1 + lapses[d][o]
      BY DEF AllCounted, Counted
    <3> HIDE DEF D
    <3>4. D' = D
      BY <2>1 DEF D
    <3>5. sent'[d][o] + Cardinality(D') <= lapses'[d][o]
          /\ sent'[d][o] + Cardinality(D') <= 1 + lapses'[d][o]
      BY <2>2, <3>1, <3>2, <3>3, <3>4
    <3> QED
      BY <3>1, <3>4, <3>5 DEF Counted, D
  <2> QED
    BY <2>3, <2>4
<1> QED
  BY <1>8, <1>9, <1>10, <1>11 DEF AllCounted

\* A claim takes the one dispatch that a reclaimable occurrence has left.
LEMMA ClaimStep ==
    ASSUME IInv, NEW w \in Workers, NEW c \in Crons, NEW reply \in Replies,
           Claim(w, c, reply)
    PROVE  IInv'
<1> USE DEF IInv
<1> DEFINE n == cron[c].occ
           r == [cron[c] EXCEPT !.token = nextToken, !.lease = "live",
                                !.claimed = n]
           q == [worker[w] EXCEPT !.pc = "dispatching", !.cron = c,
                                  !.token = nextToken, !.occ = n]
<1>1. /\ cron[c] \in Row /\ Shaped(cron[c]) /\ worker[w] \in Worker
      /\ cron[c].status = "enabled" /\ cron[c].due = "yes" /\ cron[c].lease # "live"
      /\ worker[w].pc = "idle"
      /\ nextToken \in Nat /\ nextToken # 0
  BY DEF TypeOK, RowShape, Shaped, Claim, Claimable
<1>2. n \in Occurrences /\ n \in 0..MaxOccurrences /\ n # 0
  BY <1>1, CronAssumption DEF Shaped, Occurrences
<1>3. /\ r \in Row
      /\ r.status = "enabled" /\ r.due = "yes"
      /\ r.token = nextToken /\ r.lease = "live"
      /\ r.occ = n /\ r.claimed = n
  BY <1>1, <1>2
<1>4. /\ q \in Worker
      /\ q.pc = "dispatching" /\ q.cron = c /\ q.token = nextToken /\ q.occ = n
  BY <1>1, <1>2
<1>5. /\ cron' = [cron EXCEPT ![c] = r]
      /\ worker' = worker \/ worker' = [worker EXCEPT ![w] = q]
      /\ nextToken' = nextToken + 1
      /\ overtaken' = overtaken \ {<<c, n>>}
      /\ UNCHANGED <<sent, lapses, excused, passed>>
  BY DEF Claim
<1> HIDE DEF r, q, n
<1>6. /\ cron' \in [Crons -> Row]
      /\ cron'[c] = r
      /\ \A d \in Crons \ {c}: cron'[d] = cron[d]
  BY <1>3, <1>5 DEF TypeOK
<1>7. /\ worker' \in [Workers -> Worker]
      /\ worker'[w] = worker[w] \/ worker'[w] = q
      /\ \A v \in Workers \ {w}: worker'[v] = worker[v]
  <2>1. worker \in [Workers -> Worker]
    BY DEF TypeOK
  <2>2. CASE worker' = worker
    BY <2>1, <2>2
  <2>3. CASE worker' = [worker EXCEPT ![w] = q]
    BY <1>4, <2>1, <2>3
  <2> QED
    BY <1>5, <2>2, <2>3
<1>8. \A d \in Crons: Shaped(cron[d])' /\ (cron'[d].token = 0 <=> cron'[d].lease = "null")
  BY <1>1, <1>2, <1>3, <1>5, <1>6 DEF RowShape, Shaped, TypeOK
<1>9. TypeOK' /\ RowShape'
  <2>1. TypeOK'
    BY <1>1, <1>5, <1>6, <1>7, <1>8 DEF TypeOK
  <2>2. RowShape'
    BY <1>8 DEF RowShape
  <2> QED
    BY <2>1, <2>2
<1>10. WorkerShape'
  <2> SUFFICES ASSUME NEW v \in Workers
               PROVE  (/\ Busy(v) => /\ worker[v].cron \in Crons
                                     /\ worker[v].token # 0 /\ worker[v].token < nextToken
                                     /\ worker[v].occ # 0
                                     /\ cron[worker[v].cron].token = worker[v].token =>
                                           cron[worker[v].cron].claimed = worker[v].occ
                       /\ ~Busy(v) => worker[v].cron = NoCron)'
    BY DEF WorkerShape
  <2>1. CASE worker'[v] = worker[v]
    <3>1. CASE Busy(v)
      <4>1. worker[v].cron \in Crons /\ worker[v].token # nextToken
            /\ worker[v].token \in Nat
        BY <1>1, <3>1 DEF WorkerShape, TypeOK
      <4> QED
        BY <1>1, <1>3, <1>5, <1>6, <2>1, <3>1, <4>1 DEF WorkerShape, Busy
    <3>2. CASE ~Busy(v)
      BY <2>1, <3>2 DEF WorkerShape, Busy
    <3> QED
      BY <3>1, <3>2
  <2>2. CASE v = w /\ worker'[w] = q
    BY <1>1, <1>2, <1>3, <1>4, <1>5, <1>6, <2>2 DEF Busy
  <2> QED
    BY <1>7, <2>1, <2>2
<1>11. CompletingWasServed'
  BY <1>4, <1>5, <1>7 DEF CompletingWasServed
<1>13. <<c, n>> \notin passed
  BY <1>1, <1>2, CronAssumption DEF PassedBehind, Behind, n, Occurrences
<1>14. PassedWasServed'
  BY <1>5, <1>13 DEF PassedWasServed
<1>15. AllCovered'
  BY <1>3, <1>5, <1>6 DEF AllCovered, Covered
<1>16. PassedBehind'
  BY <1>1, <1>3, <1>5, <1>6 DEF PassedBehind, Behind, n
<1>12. ASSUME NEW d \in Crons, NEW o \in Occurrences PROVE Counted(d, o)'
  <2>1. sent'[d][o] = sent[d][o] /\ lapses'[d][o] = lapses[d][o]
    BY <1>5
  <2>2. CASE d # c \/ o # n
    <3>1. Dispatchers(d, o)' = Dispatchers(d, o)
      BY <1>1, <1>4, <1>7, <2>2 DEF Dispatchers
    <3>2. Reclaimable(d, o)' => Reclaimable(d, o)
      BY <1>1, <1>3, <1>6, <2>2 DEF Reclaimable, ReclaimableRow, n
    <3> QED
      BY <2>1, <3>1, <3>2, CountedKept DEF AllCounted
  <2>3. CASE d = c /\ o = n
    <3> DEFINE D == Dispatchers(d, o)
    <3>1. D' = D \/ D' = D \cup {w}
      BY <1>1, <1>4, <1>7, <2>3 DEF Dispatchers
    <3>2. IsFiniteSet(D) /\ Cardinality(D) \in Nat
      BY FS_CardinalityType DEF AllCounted, Counted
    <3>3. Reclaimable(d, o)
      BY <1>1, <2>3 DEF Reclaimable, ReclaimableRow, n
    <3>4. sent[d][o] + Cardinality(D) <= lapses[d][o]
      BY <3>3 DEF AllCounted, Counted
    <3>5. ~Reclaimable(d, o)'
      BY <1>2, <1>3, <1>6, <2>3, CronAssumption DEF Reclaimable, ReclaimableRow
    <3>6. sent[d][o] \in Nat /\ lapses[d][o] \in Nat
      BY DEF TypeOK
    <3> HIDE DEF D
    <3>7. /\ IsFiniteSet(D') /\ Cardinality(D') \in Nat
          /\ Cardinality(D') <= Cardinality(D) + 1
      <4>1. /\ IsFiniteSet(D \cup {w})
            /\ Cardinality(D \cup {w})
                 = IF w \in D THEN Cardinality(D) ELSE Cardinality(D) + 1
        BY <3>2, FS_AddElement
      <4> QED
        BY <3>1, <3>2, <4>1
    <3>8. sent'[d][o] + Cardinality(D') <= 1 + lapses'[d][o]
      BY <2>1, <3>2, <3>4, <3>6, <3>7
    <3> QED
      BY <3>5, <3>7, <3>8 DEF Counted, D
  <2> QED
    BY <2>2, <2>3
<1> QED
  BY <1>9, <1>10, <1>11, <1>12, <1>14, <1>15, <1>16 DEF AllCounted

\* The row still has the loop's token, so what is passed is the loop's own
\* occurrence, which was served, or one that is overtaken.
LEMMA CompleteStep ==
    ASSUME IInv, NEW w \in Workers, NEW reply \in Replies, Complete(w, reply)
    PROVE  IInv'
<1> USE DEF IInv
<1> DEFINE c == worker[w].cron
           idle == [worker[w] EXCEPT !.pc = "idle", !.cron = NoCron,
                                     !.token = 0, !.occ = 0]
           r == Completed(cron[c])
<1>1. /\ c \in Crons /\ cron[c] \in Row /\ Shaped(cron[c])
      /\ worker[w] \in Worker /\ worker[w].pc = "completing"
      /\ worker[w].token # 0 /\ worker[w].occ # 0
  BY DEF TypeOK, RowShape, WorkerShape, Busy, Complete
<1>2. PICK q \in {idle, OffWorker}: worker' = [worker EXCEPT ![w] = q]
  BY DEF Complete
<1>3. q \in Worker /\ q.pc \in {"off", "idle"} /\ q.cron = NoCron
  <2>1. 0 \in 0..MaxOccurrences
    BY CronAssumption
  <2>2. idle \in Worker /\ idle.pc = "idle" /\ idle.cron = NoCron
    BY <1>1, <2>1
  <2> QED
    BY <1>2, <2>2, OffWorkerShape
<1>4. UNCHANGED <<nextToken, sent, lapses, excused, overtaken>>
  BY DEF Complete
<1>5. CASE cron' = cron /\ passed' = passed
  BY <1>2, <1>3, <1>4, <1>5, RestStep
<1>6. CASE /\ Owns(w)
           /\ cron' = [cron EXCEPT ![c] = r]
           /\ \/ passed' = passed
              \/ /\ cron[c].due = "yes"
                 /\ passed' = passed \cup {<<c, cron[c].occ>>}
  <2>1. cron[c].token = worker[w].token /\ cron[c].claimed = worker[w].occ
    BY <1>1, <1>6 DEF Owns, WorkerShape, Busy
  <2>2. /\ r \in Row /\ r.status = cron[c].status /\ r.due = "no"
        /\ r.token = 0 /\ r.lease = "null" /\ r.occ = cron[c].occ
    BY <1>1, CompletedRow
  <2>3. cron[c].status \notin {"absent", "deleted"}
    BY <1>1, <2>1 DEF Shaped
  <2>4. cron[c].due = "yes" => /\ cron[c].occ \in Occurrences
                               /\ \/ cron[c].occ = worker[w].occ
                                  \/ <<c, cron[c].occ>> \in overtaken
    BY <1>1, <2>1, CronAssumption DEF Shaped, AllCovered, Covered, Occurrences
  <2>5. worker[w].occ \in Occurrences
    BY <1>1, CronAssumption DEF Occurrences
  <2>6. \/ sent[c][worker[w].occ] > 0
        \/ <<c, worker[w].occ>> \in excused
    BY <1>1 DEF CompletingWasServed
  <2> HIDE DEF r
  <2>7. /\ cron' \in [Crons -> Row]
        /\ cron'[c] = r
        /\ \A d \in Crons \ {c}: cron'[d] = cron[d]
    BY <1>1, <1>6, <2>2 DEF TypeOK
  <2>8. /\ worker' \in [Workers -> Worker]
        /\ worker'[w] = q
        /\ \A v \in Workers \ {w}: worker'[v] = worker[v]
    BY <1>2, <1>3 DEF TypeOK
  <2>9. \A d \in Crons: Shaped(cron[d])' /\ (cron'[d].token = 0 <=> cron'[d].lease = "null")
    BY <1>1, <1>4, <2>2, <2>3, <2>7 DEF RowShape, Shaped, TypeOK
  <2>10. passed' \subseteq Crons \X Occurrences /\ PassedWasServed'
    <3>1. CASE passed' = passed
      BY <1>4, <3>1 DEF TypeOK, PassedWasServed
    <3>2. CASE /\ cron[c].due = "yes"
               /\ passed' = passed \cup {<<c, cron[c].occ>>}
      <4>2. passed' \subseteq Crons \X Occurrences
        BY <1>1, <2>4, <3>2 DEF TypeOK
      <4>3. PassedWasServed'
        BY <1>4, <2>4, <2>6, <3>2 DEF PassedWasServed
      <4> QED
        BY <4>2, <4>3
    <3> QED
      BY <1>6, <3>1, <3>2
  <2>14. AllCovered'
    BY <1>4, <2>2, <2>7 DEF AllCovered, Covered
  <2>15. PassedBehind'
    <3> SUFFICES ASSUME NEW d \in Crons, NEW o \in Occurrences, <<d, o>> \in passed'
                 PROVE  Behind(cron'[d], o)
      BY DEF PassedBehind
    <3>1. CASE <<d, o>> \in passed
      BY <2>2, <2>7, <3>1 DEF PassedBehind, Behind
    <3>2. CASE d = c /\ o = cron[c].occ
      BY <2>2, <2>7, <3>2 DEF Behind
    <3> QED
      BY <1>6, <3>1, <3>2
  <2>11. TypeOK' /\ RowShape'
    <3>1. TypeOK'
      BY <1>4, <2>7, <2>8, <2>9, <2>10 DEF TypeOK
    <3>2. RowShape'
      BY <2>9 DEF RowShape
    <3> QED
      BY <3>1, <3>2
  <2>12. WorkerShape' /\ CompletingWasServed'
    <3>1. WorkerShape'
      <4> SUFFICES ASSUME NEW v \in Workers
                   PROVE  (/\ Busy(v) => /\ worker[v].cron \in Crons
                                         /\ worker[v].token # 0
                                         /\ worker[v].token < nextToken
                                         /\ worker[v].occ # 0
                                         /\ cron[worker[v].cron].token = worker[v].token =>
                                               cron[worker[v].cron].claimed = worker[v].occ
                           /\ ~Busy(v) => worker[v].cron = NoCron)'
        BY DEF WorkerShape
      <4>1. CASE v = w
        BY <1>3, <2>8, <4>1 DEF Busy
      <4>2. CASE v # w
        <5>1. worker'[v] = worker[v]
          BY <2>8, <4>2
        <5> HIDE DEF c
        <5> QED
          BY <1>4, <2>2, <2>7, <5>1 DEF WorkerShape, Busy
      <4> QED
        BY <4>1, <4>2
    <3>2. CompletingWasServed'
      BY <1>3, <1>4, <2>8 DEF CompletingWasServed
    <3> QED
      BY <3>1, <3>2
  <2>13. ASSUME NEW d \in Crons, NEW o \in Occurrences PROVE Counted(d, o)'
    <3>1. Dispatchers(d, o)' = Dispatchers(d, o) \ {w}
      BY <1>3, <2>8 DEF Dispatchers
    <3>2. sent'[d][o] = sent[d][o] /\ lapses'[d][o] = lapses[d][o]
      BY <1>4
    <3>3. Reclaimable(d, o)' => Reclaimable(d, o)
      BY <2>2, <2>7 DEF Reclaimable, ReclaimableRow
    <3> QED
      BY <3>1, <3>2, <3>3, CountedKept DEF AllCounted
  <2> QED
    BY <2>10, <2>11, <2>12, <2>13, <2>14, <2>15 DEF AllCounted
<1> QED
  BY <1>5, <1>6 DEF Complete

\* No step of a loop, of the owner or of time breaks the invariant.
LEMMA NextInv == IInv /\ [Next]_vars => IInv'
<1> SUFFICES ASSUME IInv, [Next]_vars PROVE IInv'
  OBVIOUS
<1>1. worker \in [Workers -> Worker]
  BY DEF IInv, TypeOK
<1>2. ASSUME NEW w \in Workers,
             \/ \E reply \in Replies: Dispatch(w, reply)
             \/ \E reply \in Replies: Renew(w, reply)
             \/ Stop(w) /\ worker[w].pc = "dispatching"
      PROVE  IInv'
  <2> DEFINE q(stopping) == [worker[w] EXCEPT !.pc = "completing",
                                              !.stopping = stopping]
  <2>1. worker[w] \in Worker /\ worker[w].pc = "dispatching"
    BY <1>1, <1>2 DEF Dispatch, Renew
  <2>2. \A stopping \in {"no", "yes"}:
          /\ q(stopping) \in Worker /\ q(stopping).pc = "completing"
          /\ q(stopping).cron = worker[w].cron
          /\ q(stopping).token = worker[w].token
          /\ q(stopping).occ = worker[w].occ
    BY <2>1
  <2>3. \E stopping \in {"no", "yes"}: worker' = [worker EXCEPT ![w] = q(stopping)]
    <3>1. CASE Goto(w, "completing")
      <4>1. worker' = [worker EXCEPT ![w] = q(worker[w].stopping)]
        BY <1>1, <2>1, <3>1 DEF Goto
      <4> QED
        BY <2>1, <4>1
    <3>2. CASE Stop(w) /\ worker[w].pc = "dispatching"
      BY <3>2 DEF Stop
    <3> QED
      BY <1>2, <3>1, <3>2 DEF Dispatch, Renew
  <2>4. /\ UNCHANGED <<cron, nextToken, lapses, passed, overtaken>>
        /\ sent' = sent \/ Sent(w)
        /\ excused' = excused \/ Excuse(w)
        /\ Sent(w) \/ Excuse(w)
    BY <1>2, <2>1 DEF Dispatch, Renew, Stop, Interrupted
  <2> HIDE DEF q
  <2>5. PICK stopping \in {"no", "yes"}: worker' = [worker EXCEPT ![w] = q(stopping)]
    BY <2>3
  <2> QED
    BY <2>1, <2>2, <2>4, <2>5, DispatchedStep
<1>3. ASSUME NEW w \in Workers,
             Start(w) \/ Crash(w) \/ (Stop(w) /\ worker[w].pc # "dispatching")
      PROVE  IInv'
  <2> DEFINE on == [worker[w] EXCEPT !.pc = "idle"]
  <2>1. UNCHANGED <<cron, nextToken, sent, lapses, excused, passed, overtaken>>
    BY <1>3 DEF Start, Crash, Stop
  <2>2. CASE Start(w)
    <3>1. worker[w].cron = NoCron
      BY <2>2 DEF Start, IInv, WorkerShape, Busy
    <3>2. on \in Worker /\ on.pc = "idle" /\ on.cron = NoCron
      BY <1>1, <3>1
    <3>3. worker' = [worker EXCEPT ![w] = on]
      BY <2>2 DEF Start, Goto
    <3> QED
      BY <2>1, <3>2, <3>3, RestStep
  <2>3. CASE ~Start(w)
    <3>1. worker' = [worker EXCEPT ![w] = OffWorker]
      BY <1>3, <2>3 DEF Crash, Stop
    <3> QED
      BY <2>1, <3>1, OffWorkerShape, RestStep
  <2> QED
    BY <2>2, <2>3
<1>4. ASSUME NEW w \in Workers, WorkerStep(w) PROVE IInv'
  BY <1>2, <1>3, <1>4, ClaimStep, CompleteStep DEF WorkerStep
<1>5. ASSUME NEW c \in Crons, CronStep(c) PROVE IInv'
  BY <1>5, OwnerStep, ExpiryStep DEF CronStep
<1>6. CASE UNCHANGED vars
  BY <1>6
  DEF vars, IInv, TypeOK, RowShape, Shaped, WorkerShape, Busy, CompletingWasServed,
      AllCounted, Counted, Dispatchers, Reclaimable, ReclaimableRow, PassedWasServed,
      AllCovered, Covered, PassedBehind, Behind
<1> QED
  BY <1>4, <1>5, <1>6 DEF Next

-----------------------------------------------------------------------------
(* The theorems. *)

\* The inductive invariant holds in every reachable state.
THEOREM CronInvariant == Spec => []IInv
  BY InitInv, NextInv, PTL DEF Spec

\* The columns, the loops' locals and the counters always have their types.
THEOREM CronTypes == Spec => []TypeOK
  BY CronInvariant, PTL DEF IInv

\* An occurrence is dispatched at most once more than its claims lapsed, however
\* many loops, crashes, lost replies, toggles and deletions there are.
THEOREM CronTwiceOnlyAfterLapse == Spec => []TwiceOnlyAfterLapse
<1>1. IInv => TwiceOnlyAfterLapse
  <2> SUFFICES ASSUME IInv, NEW c \in Crons, NEW o \in Occurrences
               PROVE  sent[c][o] <= 1 + lapses[c][o]
    BY DEF TwiceOnlyAfterLapse
  <2>1. /\ IsFiniteSet(Dispatchers(c, o))
        /\ sent[c][o] + Cardinality(Dispatchers(c, o)) <= 1 + lapses[c][o]
    BY DEF IInv, AllCounted, Counted
  <2>2. Cardinality(Dispatchers(c, o)) \in Nat
    BY <2>1, FS_CardinalityType
  <2>3. sent[c][o] \in Nat /\ lapses[c][o] \in Nat
    BY DEF IInv, TypeOK
  <2> QED
    BY <2>1, <2>2, <2>3
<1> QED
  BY <1>1, CronInvariant, PTL

\* A due occurrence that a completion moves on from was dispatched, has an error
\* or a shutdown to show, or fell due during a run of a schedule that was enabled
\* again meanwhile; the last kind is dropped.
THEOREM CronPassedWasServed == Spec => []PassedWasServed
  BY CronInvariant, PTL DEF IInv

-----------------------------------------------------------------------------
(* The refinement of the fenced lease. *)

\* A loop that goes to rest forgets its claim.
LEMMA RestBelief ==
    ASSUME worker \in [Workers -> Worker], NEW w \in Workers, NEW q,
           worker' = [worker EXCEPT ![w] = q], q.cron = NoCron
    PROVE  [v \in Workers |-> Belief(v)]'
              = [[v \in Workers |-> Belief(v)] EXCEPT ![w] = NoCron]
<1>1. Belief(w)' = NoCron
  BY DEF Belief
<1>2. \A v \in Workers \ {w}: Belief(v)' = Belief(v)
  BY DEF Belief
<1> QED
  BY <1>1, <1>2

\* Every step of the schedules is a step of the lease or leaves its state alone.
LEMMA CronLeaseStep == IInv /\ [Next]_vars => [Lease!Next]_(Lease!vars)
<1> SUFFICES ASSUME IInv, [Next]_vars PROVE Lease!Next \/ UNCHANGED Lease!vars
  OBVIOUS
<1> DEFINE belief == [v \in Workers |-> Belief(v)]
           gone == {c \in Crons: cron[c].status = "deleted"}
<1>0. /\ cron \in [Crons -> Row] /\ worker \in [Workers -> Worker] /\ nextToken \in Nat
      /\ \A c \in Crons: Shaped(cron[c])
  BY DEF IInv, TypeOK, RowShape
<1>1. ASSUME NEW w \in Workers, NEW c \in Crons, NEW reply \in Replies,
             Claim(w, c, reply)
      PROVE  Lease!Acquire(w, c, {})
  <2> DEFINE r == [cron[c] EXCEPT !.token = nextToken, !.lease = "live",
                                  !.claimed = cron[c].occ]
             q == [worker[w] EXCEPT !.pc = "dispatching", !.cron = c,
                                    !.token = nextToken, !.occ = cron[c].occ]
  <2>1. /\ cron[c].lease # "live" /\ cron[c].status = "enabled"
        /\ cron' = [cron EXCEPT ![c] = r]
        /\ worker' = worker \/ worker' = [worker EXCEPT ![w] = q]
        /\ nextToken' = nextToken + 1
    BY <1>1 DEF Claim, Claimable
  <2>2. r.token = nextToken /\ r.lease = "live" /\ r.status = "enabled"
    BY <1>0, <2>1
  <2>3. q.cron = c /\ q.token = nextToken
    BY <1>0
  <2> HIDE DEF r, q
  <2>4. belief' \in {belief, [belief EXCEPT ![w] = <<c, nextToken>>]}
    <3>1. CASE worker' = worker
      BY <3>1 DEF Belief
    <3>2. CASE worker' = [worker EXCEPT ![w] = q]
      <4>1. Belief(w)' = <<c, nextToken>>
        BY <1>0, <2>3, <3>2, CronAssumption DEF Belief
      <4>2. \A v \in Workers \ {w}: Belief(v)' = Belief(v)
        BY <1>0, <3>2 DEF Belief
      <4> QED
        BY <4>1, <4>2
    <3> QED
      BY <2>1, <3>1, <3>2
  <2>5. cron'[c] = r /\ \A d \in Crons \ {c}: cron'[d] = cron[d]
    BY <1>0, <2>1
  <2> QED
    BY <2>1, <2>2, <2>4, <2>5 DEF Lease!Acquire
<1>2. ASSUME NEW w \in Workers,
             \/ \E reply \in Replies: Dispatch(w, reply) \/ Renew(w, reply)
             \/ Stop(w) /\ worker[w].pc = "dispatching"
             \/ Start(w)
      PROVE  UNCHANGED Lease!vars
  <2>1. cron' = cron /\ nextToken' = nextToken
    BY <1>2 DEF Dispatch, Renew, Stop, Start
  <2>2. \A v \in Workers: worker'[v].cron = worker[v].cron
                          /\ worker'[v].token = worker[v].token
    <3>1. CASE \E pc \in {"completing", "idle"}: Goto(w, pc)
      BY <1>0, <3>1 DEF Goto
    <3>2. CASE worker' = [worker EXCEPT ![w] = [@ EXCEPT !.pc = "completing",
                                                        !.stopping = "yes"]]
      BY <1>0, <3>2
    <3> QED
      BY <1>2, <3>1, <3>2 DEF Dispatch, Renew, Stop, Start
  <2>3. \A v \in Workers: Belief(v)' = Belief(v)
    BY <2>2 DEF Belief
  <2> QED
    BY <2>1, <2>3 DEF Lease!vars
<1>3. ASSUME NEW w \in Workers, Crash(w) \/ (Stop(w) /\ worker[w].pc # "dispatching")
      PROVE  Lease!Forget(w)
  <2>1. /\ worker' = [worker EXCEPT ![w] = OffWorker]
        /\ cron' = cron /\ nextToken' = nextToken
    BY <1>3 DEF Crash, Stop
  <2> QED
    BY <1>0, <2>1, OffWorkerShape, RestBelief DEF Lease!Forget
<1>4. ASSUME NEW w \in Workers, NEW reply \in Replies, Complete(w, reply)
      PROVE  Lease!Release(w) \/ Lease!Forget(w)
  <2> DEFINE c == worker[w].cron
             idle == [worker[w] EXCEPT !.pc = "idle", !.cron = NoCron,
                                       !.token = 0, !.occ = 0]
  <2>1. /\ c \in Crons /\ worker[w].token # 0 /\ worker[w].token \in Nat
        /\ nextToken' = nextToken
    BY <1>0, <1>4 DEF Complete, IInv, WorkerShape, Busy
  <2>2. PICK q \in {idle, OffWorker}: worker' = [worker EXCEPT ![w] = q]
    BY <1>4 DEF Complete
  <2>3. q.cron = NoCron
    <3>1. idle.cron = NoCron
      BY <1>0
    <3> QED
      BY <3>1, OffWorkerShape
  <2>4. belief' = [belief EXCEPT ![w] = NoCron]
    BY <1>0, <2>2, <2>3, RestBelief
  <2>5. CASE cron' = cron
    BY <2>1, <2>4, <2>5 DEF Lease!Forget
  <2>6. CASE Owns(w) /\ cron' = [cron EXCEPT ![c] = Completed(cron[c])]
    <3>1. belief[w] = <<c, worker[w].token>> /\ belief[w] # NoCron
      BY <2>1, CronAssumption DEF Belief
    <3>2. Lease!Valid(w)
      BY <2>1, <2>6, <3>1 DEF Lease!Valid, Owns
    <3>3. /\ Completed(cron[c]).token = 0 /\ Completed(cron[c]).lease = "null"
          /\ Completed(cron[c]).status = cron[c].status
      BY <1>0, <2>1, CompletedRow
    <3>4. belief[w][1] = c
      BY <3>1
    <3> HIDE DEF c
    <3>5. /\ [d \in Crons |-> cron[d].token]'
               = [[d \in Crons |-> cron[d].token] EXCEPT ![c] = 0]
          /\ [d \in Crons |-> cron[d].lease]'
               = [[d \in Crons |-> cron[d].lease] EXCEPT ![c] = "null"]
          /\ gone' = gone
      BY ZenonT(60), <1>0, <2>1, <2>6, <3>3
    <3> QED
      BY <2>1, <2>4, <3>2, <3>4, <3>5 DEF Lease!Release
  <2> QED
    BY <1>4, <2>5, <2>6 DEF Complete
<1>5. ASSUME NEW c \in Crons, CronStep(c)
      PROVE  Lease!Lapse(c) \/ Lease!Withdraw(c) \/ UNCHANGED Lease!vars
  <2>1. worker' = worker /\ nextToken' = nextToken
    BY <1>5 DEF CronStep, CreateCron, DeleteCron, ToggleCron, Tick, ClaimExpires
  <2>2. belief' = belief
    BY <2>1 DEF Belief
  <2>3. CASE DeleteCron(c)
    <3>1. /\ cron'[c].token = 0 /\ cron'[c].lease = "null"
          /\ cron'[c].status = "deleted"
          /\ \A d \in Crons \ {c}: cron'[d] = cron[d]
      BY <1>0, <2>3, BlankRow DEF DeleteCron
    <3> QED
      BY <2>1, <2>2, <3>1 DEF Lease!Withdraw
  <2>4. CASE ClaimExpires(c)
    BY <1>0, <2>1, <2>2, <2>4 DEF ClaimExpires, Lease!Lapse
  <2>5. CASE \A d \in Crons: /\ cron'[d].token = cron[d].token
                             /\ cron'[d].lease = cron[d].lease
                             /\ cron'[d].status = "deleted" <=> cron[d].status = "deleted"
    BY <2>1, <2>2, <2>5 DEF Lease!vars
  <2>6. CASE \E status \in {"enabled", "disabled"}: CreateCron(c, status)
    BY <1>0, <2>5, <2>6, BlankRow DEF CreateCron, Shaped
  <2>7. CASE ToggleCron(c) \/ Tick(c)
    <3>1. \A d \in Crons \ {c}: cron'[d] = cron[d]
      BY <1>0, <2>7 DEF ToggleCron, Tick
    <3>2. cron[c].status \in {"enabled", "disabled"}
      BY <2>7 DEF ToggleCron, Tick, Exists
    <3>3. CASE Tick(c)
      BY <1>0, <2>5, <3>1, <3>3 DEF Tick
    <3>4. CASE ToggleCron(c)
      <4>1. /\ cron'[c].token = cron[c].token /\ cron'[c].lease = cron[c].lease
            /\ cron'[c].status \in {"enabled", "disabled"}
        BY <1>0, <3>2, <3>4 DEF ToggleCron
      <4> QED
        BY <2>5, <3>1, <3>2, <4>1
    <3> QED
      BY <2>7, <3>3, <3>4
  <2> QED
    BY <1>5, <2>3, <2>4, <2>6, <2>7 DEF CronStep
<1>6. CASE UNCHANGED vars
  BY <1>6 DEF vars, Lease!vars, Belief
<1>7. {} \in SUBSET Lease!Expired
  OBVIOUS
<1>8. ASSUME NEW w \in Workers, WorkerStep(w)
      PROVE  \/ \E c \in Crons: Lease!Acquire(w, c, {})
             \/ Lease!Release(w) \/ Lease!Forget(w) \/ UNCHANGED Lease!vars
  BY <1>1, <1>2, <1>3, <1>4, <1>8 DEF WorkerStep
<1> QED
  BY <1>5, <1>6, <1>7, <1>8 DEF Next, Lease!Next

\* The claims of the schedules are fenced leases, for any schedules and loops,
\* while the owner toggles and deletes them.
THEOREM CronImplementsLease == Spec => ImplementsLease
<1>1. Init => Lease!Init
  BY BlankRow, OffWorkerShape DEF Init, Lease!Init, Belief
<1> QED
  BY <1>1, CronInvariant, CronLeaseStep, PTL DEF Spec, ImplementsLease, Lease!Spec

=============================================================================
