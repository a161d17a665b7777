------------------------ MODULE ModelDownloadProofs ------------------------
(***************************************************************************)
(* The safety of model downloads, for any jobs, targets, models,           *)
(* executions and tokens, through every crash, failed call, lost reply,    *)
(* late transaction and cancellation: one owner per target unless a late   *)
(* transaction makes a second one; where none has and no stray thread has  *)
(* moved a directory, an install path and a registry entry that agree with *)
(* the row, and a previous artifact that survives; and no artifact of work *)
(* that was asked to stop, anywhere.                                       *)
(***************************************************************************)
EXTENDS ModelDownload, TLAPS

-----------------------------------------------------------------------------
(* The inductive invariant. *)

\* An execution, or a thread it left behind, knows its job and its tokens.
Busy ==
    \A w \in Workers:
        worker[w].pc # "idle" \/ worker[w].thread # "none" =>
            /\ worker[w].job \in Jobs
            /\ worker[w].token \in Tokens
            /\ worker[w].source \in Tokens

\* A download that is running runs under a token.
Named == \A j \in Jobs: row[j].status \in Running => row[j].token # 0

TInv == TypeOK /\ Busy /\ Named

\* The token whose staging root holds the publication of job j.
Root(j) == IF row[j].source # 0 THEN row[j].source ELSE row[j].token
Promoting(j) == row[j].status = "promoting"
Active == Running \cup {"promoting"}

\* What the columns of a row say of each other.
RowShape ==
    \A j \in Jobs:
        /\ row[j].source # 0 => Promoting(j)
        /\ row[j].token # 0 => row[j].status \in Active
        /\ row[j].status \in Active => Root(j) # 0

\* A download that was asked to stop is marked, or is no longer running.
Refusals ==
    \A j \in Jobs: row[j].status \in Running /\ row[j].token \in refused =>
        Requested(row[j])

\* The tokens that a row or an execution knows.
Names(r) == {r.token, r.source} \ {0}

\* An execution that has not touched the install path, and one that may.
Begun == {"downloading", "staged", "reserved", "guarded"}
AtWork(x) == x.pc \in InGuard \/ x.thread # "none"

\* A token belongs to one job, an execution's own token to it alone, and a
\* target's guard to one execution; a lease's token is nobody's interrupted
\* one; and what is only staged nobody else works on.
OneOwner ==
    /\ \A i, j \in Jobs: i # j => Names(row[i]) \cap Names(row[j]) = {}
    /\ \A w \in Workers, j \in Jobs:
          Names(worker[w]) \cap Names(row[j]) # {} => worker[w].job = j
    /\ \A v, w \in Workers:
          worker[v].token = worker[w].token /\ worker[v].token # 0 => v = w
    /\ \A v, w \in Workers:
          /\ worker[v].pc \in InGuard /\ worker[w].pc \in InGuard
          /\ Target[worker[v].job] = Target[worker[w].job]
          => v = w
    /\ \A w \in Workers, j \in Jobs:
          row[j].token # 0 /\ row[j].token = worker[w].source =>
             worker[w].token = worker[w].source
    /\ \A v, w \in Workers:
          worker[v].pc \in Begun /\ AtWork(worker[w]) /\ v # w =>
             worker[v].source # worker[w].source

\* What an execution's place says of its locals and of its job's row.
PlaceOf(w) ==
    /\ worker[w].pc = "idle" /\ worker[w].thread = "none" => worker[w] = Idle
    /\ \/ worker[w].pc \in Begun \cup {"journaled", "promoted"}
       \/ worker[w].thread \in {"backup", "rename"}
       => worker[w].source = worker[w].token
    /\ worker[w].pc = "journaled" => worker[w].thread \in {"backup", "rename"}
    /\ worker[w].thread # "none" =>
          worker[w].pc \in {"journaled", "compensating", "rollback", "removing",
                            "aborting", "cancelling", "erring", "deferring", "idle"}
    /\ worker[w].pc \in InGuard =>
          /\ Promoting(worker[w].job)
          /\ row[worker[w].job].token = worker[w].token
    /\ /\ worker[w].pc # "idle" /\ Promoting(worker[w].job)
       /\ row[worker[w].job].token = worker[w].token
       => Root(worker[w].job) = worker[w].source
    /\ worker[w].pc = "cleaning" =>
          /\ row[worker[w].job].status = "completed"
          /\ installed[Target[worker[w].job]] # 0
Place == \A w \in Workers: PlaceOf(w)

\* A marker names the artifact it lies in.
Sound(d) == d.marker \in {0, d.content}

\* The registry names artifact x for target t, if it is t's alone.
Lists(t, x) == Sole(t) => registry[Model[t]] = x

\* The target holds what was completed last; or it is about to be replaced
\* from root k, or being replaced, or has been.
Whole(t) == final[t].content = installed[t] /\ Lists(t, installed[t])
Before(t, k) == Whole(t) /\ disk[k].backup = Nothing
Between(t, k) ==
    /\ final[t] = Nothing
    /\ disk[k].backup.content = installed[t]
    /\ Lists(t, installed[t])
After(t, k) ==
    /\ final[t].content = k
    /\ final[t].marker = k \/ installed[t] # 0
    /\ disk[k].backup.content = installed[t]
    /\ Lists(t, installed[t]) \/ Lists(t, k)

\* The journal in root k tells how to undo what is promoted to target t ...
Journal(t, k) == /\ Sole(t) => disk[k].prior = installed[t]
                 /\ disk[k].had <=> installed[t] # 0

\* ... and enough is left to finish it or to undo it.
Reversible(t, k) ==
    /\ disk[k].receipt => Journal(t, k)
    /\ Before(t, k) \/ (disk[k].receipt /\ (Between(t, k) \/ After(t, k)))
Undoable(j) == Reversible(Target[j], Root(j))

\* Between targets and rows: an orderly target that nobody promotes is whole,
\* and what is promoted to one can be undone.
Publication ==
    /\ \A t \in Targets: Sound(final[t])
    /\ \A k \in Tokens: Sound(disk[k].backup)
    /\ \A j \in Jobs: row[j].status \in Active =>
          \A t \in Targets: installed[t] # Root(j)
    /\ \A t \in Targets:
          Orderly(t) /\ (\A j \in Jobs: Target[j] = t => ~Promoting(j)) => Whole(t)
    /\ \A j \in Jobs: Promoting(j) /\ Orderly(Target[j]) => Undoable(j)

\* How far an execution has come with the directories of an orderly target.
FarAs(w, t, k) ==
    LET pc == worker[w].pc
        thread == worker[w].thread IN
    /\ pc = "journaled" => disk[k].receipt
    /\ pc \in {"compensating", "rollback", "removing"} => Journal(t, k)
    /\ pc = "journaled" /\ thread = "backup" => Before(t, k)
    /\ pc = "journaled" /\ thread = "rename" => Between(t, k)
    /\ pc = "promoted" => After(t, k) /\ Lists(t, installed[t])
    /\ pc = "registered" => After(t, k) /\ Lists(t, k)
    /\ pc = "rollback" => Lists(t, installed[t])
    /\ pc \in {"removing", "aborting"} => Before(t, k)

\* A staging root is removed only after the install path was put in order.
Emptied(w) ==
    LET j == worker[w].job
        k == worker[w].source IN
    Promoting(j) /\ Root(j) = k /\ Orderly(Target[j]) => Before(Target[j], k)

ProgressOf(w) ==
    LET t == Target[worker[w].job]
        k == worker[w].source IN
    /\ worker[w].pc \in Begun => ~disk[k].receipt /\ disk[k].backup = Nothing
    /\ worker[w].pc \in InGuard /\ Orderly(t) => FarAs(w, t, k)
    /\ worker[w].thread = "removing" => Emptied(w)
Progress == \A w \in Workers: ProgressOf(w)

\* An artifact that may be installed: its work was not asked to stop, and can
\* no longer be.
Clear(x) == x \notin refused /\ \A j \in Jobs: row[j].status \in Running => row[j].token # x

\* A row or an execution knows the staging root k.
Known(k) == \/ \E j \in Jobs: k \in Names(row[j])
            \/ \E w \in Workers: k \in Names(worker[w])

\* Whatever can get to an install path or into the registry is clear.
Cleared ==
    /\ \A t \in Targets: Clear(final[t].content)
    /\ \A m \in Models: Clear(registry[m])
    /\ \A j \in Jobs: Promoting(j) => Clear(Root(j))
    /\ \A w \in Workers: worker[w].thread # "none" => Clear(worker[w].source)
    /\ \A k \in Tokens: Known(k) => /\ Clear(disk[k].prior)
                                   /\ Clear(disk[k].backup.content)

\* What holds of the rows, and what holds of everything else.
RInv == TInv /\ RowShape /\ OneTargetOwner
IInv ==
    /\ RInv
    /\ Refusals
    /\ OneOwner
    /\ Place
    /\ Publication
    /\ Progress

-----------------------------------------------------------------------------
(* Types. *)

\* The rows, executions and directories that the operators build.
LEMMA Constructed ==
    /\ Idle \in Worker /\ Idle.pc = "idle" /\ Idle.thread = "none"
    /\ Idle.job = NoJob /\ Idle.token = 0 /\ Idle.source = 0
    /\ Absent \in Row /\ Absent.status = "absent" /\ Absent.token = 0
    /\ Absent.source = 0 /\ Absent.lease = "null"
    /\ Clean \in Disk /\ ~Clean.receipt /\ Clean.backup = Nothing
    /\ Nothing \in Dir /\ Nothing.content = 0 /\ Nothing.marker = 0
  BY DownloadAssumption
  DEF Idle, Worker, PCs, InGuard, Token0, Absent, Row, Statuses, Leases, Clean,
      Disk, Dir, Nothing

\* A row that is released gives up its token and keeps its requests.
LEMMA ReleasedRow ==
    ASSUME NEW r \in Row, NEW s \in Statuses
    PROVE  LET q == Released(r, s) IN
           /\ q \in Row /\ q.status = s /\ q.token = 0 /\ q.lease = "null"
           /\ q.source = r.source /\ q.cancel = r.cancel /\ q.later = r.later
  BY DEF Released, Row, Token0, Leases

\* A row that gives way is cancelled.
LEMMA SupersededRow ==
    ASSUME NEW r \in Row
    PROVE  LET q == Superseded(r) IN
           /\ q \in Row /\ q.status = "cancelled" /\ q.token = 0
           /\ q.lease = "null" /\ q.source = r.source
  BY DEF Superseded, Released, Row, Token0, Leases, Statuses

\* A claim that ends unpublished leaves a row that nobody owns.
LEMMA FailOrRetryRow ==
    ASSUME NEW r \in Row
    PROVE  LET q == FailOrRetry(r) IN
           /\ q \in Row /\ q.status \in {"cancelled", "paused", "failed", "queued"}
           /\ q.token = 0 /\ q.source = 0 /\ q.lease = "null"
<1> DEFINE s == CASE r.cancel -> "cancelled"
                  [] ~r.cancel /\ r.status = "pause_requested" -> "paused"
                  [] OTHER -> IF r.attempts >= MaxAttempts THEN "failed" ELSE "queued"
<1>1. s \in {"cancelled", "paused", "failed", "queued"}
  OBVIOUS
<1>2. FailOrRetry(r) = [Released(r, s) EXCEPT !.source = 0]
  BY DEF FailOrRetry
<1> HIDE DEF s
<1>3. s \in Statuses
  BY <1>1 DEF Statuses
<1>4. Released(r, s) \in Row /\ Released(r, s).status = s
      /\ Released(r, s).token = 0 /\ Released(r, s).lease = "null"
  BY <1>3, ReleasedRow
<1> QED
  BY <1>1, <1>2, <1>4 DEF Row, Token0

\* The sweep touches only downloads whose lease has lapsed.
LEMMA SweptRows ==
    ASSUME TypeOK, NEW late
    PROVE  /\ Swept(late) \in [Jobs -> Row]
           /\ \A j \in Jobs: \/ Swept(late)[j] = row[j]
                             \/ Lapsed(row[j]) /\ Swept(late)[j] = FailOrRetry(row[j])
  BY FailOrRetryRow DEF Swept, TypeOK

\* A fresh token is one that nothing refers to.
LEMMA FreshToken ==
    ASSUME Fresh # {}
    PROVE  NewToken \in Tokens /\ NewToken \notin Used
  BY DEF Fresh, NewToken

\* The tokens of the rows, the executions and the targets are in use.
LEMMA UsedTokens ==
    /\ \A j \in Jobs: row[j].token \in Used /\ row[j].source \in Used
    /\ \A w \in Workers: worker[w].token \in Used /\ worker[w].source \in Used
    /\ \A t \in Targets: installed[t] \in Used /\ final[t].content \in Used
    /\ \A m \in Models: registry[m] \in Used
    /\ \A k \in Tokens \cap InUse:
          disk[k].prior \in Used /\ disk[k].backup.content \in Used
<1>1. ASSUME NEW j \in Jobs PROVE row[j].token \in InUse /\ row[j].source \in InUse
  <2>1. {row[j].token, row[j].source} \in {{row[i].token, row[i].source}: i \in Jobs}
    OBVIOUS
  <2> QED
    BY <2>1, Zenon DEF InUse
<1>2. ASSUME NEW w \in Workers
      PROVE  worker[w].token \in InUse /\ worker[w].source \in InUse
  <2>1. {worker[w].token, worker[w].source}
          \in {{worker[v].token, worker[v].source}: v \in Workers}
    OBVIOUS
  <2> QED
    BY <2>1, Zenon DEF InUse
<1>3. ASSUME NEW t \in Targets PROVE installed[t] \in Used /\ final[t].content \in Used
  <2>1. {final[t].content, final[t].marker, installed[t]}
          \in {{final[u].content, final[u].marker, installed[u]}: u \in Targets}
    OBVIOUS
  <2> QED
    BY <2>1, Zenon DEF Used
<1>4. InUse \subseteq Used
  BY Zenon DEF Used
<1>5. ASSUME NEW m \in Models PROVE registry[m] \in Used
  BY Zenon DEF Used
<1>6. ASSUME NEW k \in Tokens \cap InUse
      PROVE  disk[k].prior \in Used /\ disk[k].backup.content \in Used
  <2>1. {disk[k].prior, disk[k].backup.content, disk[k].backup.marker}
          \in {{disk[x].prior, disk[x].backup.content, disk[x].backup.marker}:
                 x \in Tokens \cap InUse}
    OBVIOUS
  <2> QED
    BY <2>1, Zenon DEF Used
<1> QED
  BY <1>1, <1>2, <1>3, <1>4, <1>5, <1>6

\* The row after lease_is_valid.
LEMMA ReservedRow ==
    ASSUME TypeOK, NEW w \in Workers, Job(w) \in Jobs, NEW early
    PROVE  LET r == row[Job(w)]
               q == Reserved(w, early) IN
           /\ q \in Row
           /\ \/ q = r
              \/ /\ LeasedTo(w, early) /\ r.status \in Running
                 /\ q.status \in {"cancelled", "paused"} /\ q.token = 0
                 /\ q.lease = "null" /\ q.source = r.source
              \/ /\ LeasedTo(w, early) /\ r.status \in Running /\ ~Requested(r)
                 /\ q = [r EXCEPT !.status = "promoting"]
<1> DEFINE r == row[Job(w)]
<1>1. r \in Row
  BY DEF TypeOK
<1>2. CASE ~LeasedTo(w, early) \/ r.status \notin Running
  BY <1>1, <1>2 DEF Reserved
<1>3. CASE LeasedTo(w, early) /\ r.status \in Running /\ Requested(r)
  <2>1. Reserved(w, early) = Released(r, IF r.cancel THEN "cancelled" ELSE "paused")
    BY <1>3 DEF Reserved
  <2>2. \A s \in {"cancelled", "paused"}: s \in Statuses
    BY DEF Statuses
  <2> QED
    BY <1>1, <1>3, <2>1, <2>2, ReleasedRow
<1>4. CASE LeasedTo(w, early) /\ r.status \in Running /\ ~Requested(r)
  <2>1. Reserved(w, early) \in {Superseded(r), [r EXCEPT !.status = "promoting"]}
    BY <1>4 DEF Reserved
  <2>2. [r EXCEPT !.status = "promoting"] \in Row
    BY <1>1 DEF Row, Statuses
  <2> QED
    BY <1>1, <1>4, <2>1, <2>2, SupersededRow
<1> QED
  BY <1>2, <1>3, <1>4

-----------------------------------------------------------------------------
(* What a step does to the executions. *)

\* Only execution w changes.
Only(w) == /\ worker' \in [Workers -> Worker]
           /\ \A v \in Workers: v # w => worker'[v] = worker[v]

\* Execution w goes on with the job and the tokens it has.
Keeps(w) == /\ worker'[w].job = worker[w].job
            /\ worker'[w].token = worker[w].token
            /\ worker'[w].source = worker[w].source

\* An execution that goes on elsewhere.
LEMMA GotoWorker ==
    ASSUME TypeOK, NEW w \in Workers, NEW pc \in PCs, Goto(w, pc)
    PROVE  /\ Only(w) /\ Keeps(w)
           /\ worker'[w].pc = pc /\ worker'[w].thread = worker[w].thread
  BY DEF TypeOK, Worker, Goto, Only, Keeps

\* An execution that goes on and starts or stops a thread.
LEMMA MoveWorker ==
    ASSUME TypeOK, NEW w \in Workers, NEW pc \in PCs,
           NEW th \in {"none", "backup", "rename", "rollback", "removing"},
           worker' = [worker EXCEPT ![w].pc = pc, ![w].thread = th]
    PROVE  /\ Only(w) /\ Keeps(w)
           /\ worker'[w].pc = pc /\ worker'[w].thread = th
  BY DEF TypeOK, Worker, Only, Keeps

\* An execution that ends.
LEMMA EndWorker ==
    ASSUME TypeOK, NEW w \in Workers, End(w)
    PROVE  /\ Only(w)
           /\ \/ worker[w].thread = "none" /\ worker'[w] = Idle
              \/ /\ worker[w].thread # "none" /\ Keeps(w)
                 /\ worker'[w].pc = "idle" /\ worker'[w].thread = worker[w].thread
<1>1. worker[w] \in Worker
  BY DEF TypeOK
<1>2. worker' = [worker EXCEPT ![w] = Ended(w)]
  BY DEF End
<1>3. CASE worker[w].thread = "none"
  BY <1>2, <1>3, Constructed DEF Ended, TypeOK, Only
<1>4. CASE worker[w].thread # "none"
  <2>1. Ended(w) = [worker[w] EXCEPT !.pc = "idle"]
    BY <1>4 DEF Ended
  <2>2. /\ Ended(w) \in Worker /\ Ended(w).pc = "idle"
        /\ Ended(w).thread = worker[w].thread /\ Ended(w).job = worker[w].job
        /\ Ended(w).token = worker[w].token /\ Ended(w).source = worker[w].source
    BY <1>1, <2>1 DEF Worker, PCs
  <2>3. worker' \in [Workers -> Worker] /\ worker'[w] = Ended(w)
        /\ \A v \in Workers: v # w => worker'[v] = worker[v]
    BY <1>2, <2>2 DEF TypeOK
  <2> QED
    BY <1>4, <2>2, <2>3 DEF Only, Keeps
<1> QED
  BY <1>3, <1>4

\* An execution whose thread stops.
LEMMA ThreadWorker ==
    ASSUME TypeOK, NEW w \in Workers, NEW pc \in PCs, ThreadEnds(w, pc)
    PROVE  /\ Only(w)
           /\ \/ worker[w].pc = "idle" /\ worker'[w] = Idle
              \/ /\ worker[w].pc # "idle" /\ Keeps(w)
                 /\ worker'[w].thread = "none"
                 /\ worker'[w].pc = IF worker[w].pc = "journaled" THEN pc
                                                                  ELSE worker[w].pc
<1>1. worker[w] \in Worker
  BY DEF TypeOK
<1>2. CASE worker[w].pc = "idle"
  BY <1>2, Constructed DEF ThreadEnds, TypeOK, Only
<1>3. CASE worker[w].pc # "idle"
  <2> DEFINE e == [worker[w] EXCEPT !.thread = "none",
                          !.pc = IF worker[w].pc = "journaled"
                                 THEN pc ELSE worker[w].pc]
  <2>1. worker' = [worker EXCEPT ![w] = e]
    BY <1>3 DEF ThreadEnds
  <2>2. /\ e \in Worker /\ e.thread = "none"
        /\ e.pc = IF worker[w].pc = "journaled" THEN pc ELSE worker[w].pc
        /\ e.job = worker[w].job /\ e.token = worker[w].token
        /\ e.source = worker[w].source
    BY <1>1 DEF Worker
  <2> HIDE DEF e
  <2>3. worker' \in [Workers -> Worker] /\ worker'[w] = e
        /\ \A v \in Workers: v # w => worker'[v] = worker[v]
    BY <2>1, <2>2 DEF TypeOK
  <2> QED
    BY <1>3, <2>2, <2>3 DEF Only, Keeps
<1> QED
  BY <1>2, <1>3

\* The executions after a claim: one that was idle may have begun.
Starts(w, j, k, source) ==
    /\ worker'[w].pc = IF source = k THEN "downloading" ELSE "recovering"
    /\ worker'[w].job = j /\ worker'[w].token = k /\ worker'[w].source = source
    /\ worker'[w].thread = "none"

LEMMA IssueWorker ==
    ASSUME TypeOK, NEW w \in Workers, NEW j \in Jobs, NEW source \in Token0,
           NEW reply \in Replies, Issue(w, j, source, reply),
           source # 0 => source \in Used
    PROVE  /\ NewToken \in Tokens /\ NewToken \notin Used
           /\ Only(w)
           /\ \/ worker' = worker
              \/ Starts(w, j, NewToken, IF source = 0 THEN NewToken ELSE source)
<1>1. NewToken \in Tokens /\ NewToken \notin Used
  BY FreshToken DEF Issue
<1>2. CASE reply = "lost"
  BY <1>1, <1>2 DEF Issue, Only, TypeOK
<1>3. CASE reply # "lost"
  <2> DEFINE e == [Idle EXCEPT !.pc = IF source = 0 THEN "downloading" ELSE "recovering",
                               !.job = j, !.token = NewToken,
                               !.source = IF source = 0 THEN NewToken ELSE source]
  <2>1. worker' = [worker EXCEPT ![w] = e]
    BY <1>3 DEF Issue
  <2>2. /\ e \in Worker /\ e.thread = "none" /\ e.job = j /\ e.token = NewToken
        /\ e.source = (IF source = 0 THEN NewToken ELSE source)
        /\ e.pc = IF source = 0 THEN "downloading" ELSE "recovering"
    BY <1>1 DEF Idle, Worker, PCs, Token0
  <2> HIDE DEF e
  <2>3. worker' \in [Workers -> Worker] /\ worker'[w] = e
        /\ \A v \in Workers: v # w => worker'[v] = worker[v]
    BY <2>1, <2>2 DEF TypeOK
  <2>4. source # 0 => source # NewToken
    BY <1>1
  <2> QED
    BY <1>1, <2>2, <2>3, <2>4 DEF Only, Starts
<1> QED
  BY <1>2, <1>3

\* Busy is about one execution at a time.
LEMMA BusyKept ==
    ASSUME Busy, NEW w \in Workers, Only(w),
           \/ worker'[w] = worker[w]
           \/ worker'[w] = Idle
           \/ Keeps(w) /\ (worker[w].pc # "idle" \/ worker[w].thread # "none")
           \/ /\ worker'[w].job \in Jobs
              /\ worker'[w].token \in Tokens /\ worker'[w].source \in Tokens
    PROVE  Busy'
  BY Constructed DEF Busy, Only, Keeps

-----------------------------------------------------------------------------
(* Every step keeps the types. *)

\* What is recorded of a target stays recorded.
Watches == /\ doubled \subseteq doubled' /\ doubled' \subseteq Targets
           /\ overrun \subseteq overrun' /\ overrun' \subseteq Targets


\* A request or a lapse changes one row, a deletion also the siblings' later.
LEMMA RequestTypes ==
    ASSUME TInv, NEW j \in Jobs, Request(j), Watches
    PROVE  TypeOK' /\ Busy'
<1>0. row \in [Jobs -> Row] /\ row[j] \in Row /\ refused \subseteq Tokens
  BY DEF TInv, TypeOK
<1>1. UNCHANGED <<worker, final, registry, disk, installed>>
  BY DEF Request, CreateJob, ImportLegacyJob, CancelJob, PauseJob, ResumeJob,
         CleanupFinishedJob, LeaseExpires, NoDiskChange
<1>2. refused' \subseteq Tokens
  <2>1. {row[j].token} \ {0} \subseteq Tokens
    BY <1>0 DEF Row, Token0
  <2>2. refused' \in {refused, refused \cup ({row[j].token} \ {0})}
    BY DEF Request, CreateJob, ImportLegacyJob, CancelJob, PauseJob, ResumeJob,
           CleanupFinishedJob, LeaseExpires
  <2> QED
    BY <1>0, <2>1, <2>2
<1>3. row' \in [Jobs -> Row]
  <2>1. CASE CreateJob(j) \/ PauseJob(j) \/ ResumeJob(j)
    <3>1. PICK s \in Statuses: row' = [row EXCEPT ![j].status = s]
      BY <2>1 DEF CreateJob, PauseJob, ResumeJob, Statuses
    <3> QED
      BY <1>0, <3>1 DEF Row
  <2>2. CASE LeaseExpires(j)
    BY <1>0, <2>2 DEF LeaseExpires, Row, Leases
  <2>3. ASSUME NEW status \in Waiting, NEW later \in SUBSET Jobs,
               ImportLegacyJob(j, status, later)
        PROVE  row' \in [Jobs -> Row]
    BY <1>0, <2>3 DEF ImportLegacyJob, Row, Waiting, Statuses
  <2>4. CASE CancelJob(j)
    BY <1>0, <2>4 DEF CancelJob, Row, Statuses
  <2>5. CASE CleanupFinishedJob(j)
    <3>1. [Absent EXCEPT !.status = "deleted"] \in Row
      BY Constructed DEF Row, Statuses
    <3>2. ASSUME NEW i \in Jobs PROVE [row[i] EXCEPT !.later = @ \ {j}] \in Row
      BY <1>0 DEF Row
    <3> QED
      BY <2>5, <3>1, <3>2 DEF CleanupFinishedJob
  <2> QED
    BY <2>1, <2>2, <2>3, <2>4, <2>5 DEF Request
<1> QED
  BY <1>1, <1>2, <1>3 DEF TInv, TypeOK, Busy, Watches

\* A row that is claimed.
LEMMA ClaimedRow ==
    ASSUME NEW r \in Row, NEW k \in Tokens
    PROVE  LET q == [r EXCEPT !.status = "running",
                              !.attempts = IF @ < MaxAttempts THEN @ + 1 ELSE @,
                              !.token = k, !.lease = "live"] IN
           /\ q \in Row /\ q.status = "running" /\ q.token = k /\ q.lease = "live"
           /\ q.source = r.source /\ q.cancel = r.cancel /\ q.later = r.later
<1> DEFINE a == IF r.attempts < MaxAttempts THEN r.attempts + 1 ELSE r.attempts
<1>1. a \in 0..MaxAttempts
  BY DownloadAssumption DEF Row
<1> HIDE DEF a
<1>2. LET q == [r EXCEPT !.status = "running", !.attempts = a,
                         !.token = k, !.lease = "live"] IN
      /\ q \in Row /\ q.status = "running" /\ q.token = k /\ q.lease = "live"
      /\ q.source = r.source /\ q.cancel = r.cancel /\ q.later = r.later
  BY <1>1 DEF Row, Statuses, Leases, Token0
<1> QED
  BY <1>2, Zenon DEF a

\* A promotion that is claimed for recovery.
LEMMA RecoveredRow ==
    ASSUME NEW r \in Row, NEW k \in Tokens, NEW source \in Token0
    PROVE  LET q == [r EXCEPT !.source = source, !.token = k, !.lease = "live"] IN
           /\ q \in Row /\ q.status = r.status /\ q.token = k /\ q.source = source
           /\ q.lease = "live" /\ q.cancel = r.cancel /\ q.later = r.later
  BY DEF Row, Leases, Token0

\* A claim changes rows, starts at most one execution and cleans its root.
LEMMA ClaimTypes ==
    ASSUME TInv, NEW w \in Workers, Claim(w), Watches
    PROVE  TypeOK' /\ Busy'
<1>0. row \in [Jobs -> Row] /\ refused \subseteq Tokens /\ disk \in [Tokens -> Disk]
      /\ TypeOK /\ Busy
  BY DEF TInv, TypeOK
<1>1. CASE ClaimNothing(w)
  BY <1>0, <1>1, SweptRows DEF ClaimNothing, NoDiskChange, TypeOK, Busy, TInv,
     Watches
<1>2. ASSUME NEW j \in Jobs, NEW source \in Token0, NEW reply \in Replies,
             Issue(w, j, source, reply), source # 0 => source \in Used,
             row' \in [Jobs -> Row]
      PROVE  TypeOK' /\ Busy'
  <2>1. /\ NewToken \in Tokens /\ Only(w)
        /\ \/ worker' = worker
           \/ Starts(w, j, NewToken, IF source = 0 THEN NewToken ELSE source)
    BY <1>0, <1>2, IssueWorker
  <2>2. Busy'
    BY <1>0, <1>2, <2>1, BusyKept DEF Starts, Token0
  <2>3. disk' \in [Tokens -> Disk] /\ refused' \subseteq Tokens
        /\ UNCHANGED <<final, registry, installed>>
    BY <1>0, <1>2, <2>1, Constructed DEF Issue
  <2> QED
    BY <1>0, <1>2, <2>1, <2>2, <2>3 DEF TInv, TypeOK, Only, Watches
<1>3. ASSUME NEW j \in Jobs, NEW late \in SUBSET Overdue, NEW reply \in Replies,
             ClaimNext(w, j, late, reply)
      PROVE  TypeOK' /\ Busy'
  <2>1. NewToken \in Tokens /\ Issue(w, j, 0, reply)
    BY <1>3, FreshToken DEF ClaimNext, Issue
  <2>2. Swept(late) \in [Jobs -> Row]
    BY <1>0, SweptRows
  <2> DEFINE f(i) == CASE i = j -> [Swept(late)[i] EXCEPT
                                      !.status = "running",
                                      !.attempts = IF @ < MaxAttempts THEN @ + 1 ELSE @,
                                      !.token = NewToken,
                                      !.lease = "live"]
                       [] i \in Siblings(j) /\ Swept(late)[i].status \in Waiting ->
                            Superseded(Swept(late)[i])
                       [] OTHER -> Swept(late)[i]
  <2>3. ASSUME NEW i \in Jobs PROVE f(i) \in Row
    <3>1. Swept(late)[i] \in Row
      BY <2>2
    <3>2. f(i) \in {[Swept(late)[i] EXCEPT
                      !.status = "running",
                      !.attempts = IF @ < MaxAttempts THEN @ + 1 ELSE @,
                      !.token = NewToken,
                      !.lease = "live"], Superseded(Swept(late)[i]), Swept(late)[i]}
      BY Zenon
    <3> QED
      BY <2>1, <3>1, <3>2, ClaimedRow, SupersededRow
  <2>4. row' \in [Jobs -> Row]
    <3>1. row' = [i \in Jobs |-> f(i)]
      BY <1>3 DEF ClaimNext
    <3> HIDE DEF f
    <3> QED
      BY <2>3, <3>1
  <2> QED
    BY <1>2, <2>1, <2>4 DEF Token0
<1>4. ASSUME NEW j \in Jobs, NEW reply \in Replies, ClaimRecovery(w, j, reply)
      PROVE  TypeOK' /\ Busy'
  <2>0. Root(j) \in Token0 /\ row[j] \in Row
    BY <1>0 DEF Root, Row
  <2>1. NewToken \in Tokens /\ Issue(w, j, Root(j), reply)
    BY <1>4, FreshToken DEF ClaimRecovery, Issue, Root
  <2>2. row' = [row EXCEPT ![j].source = Root(j), ![j].token = NewToken,
                           ![j].lease = "live"]
    BY <1>4 DEF ClaimRecovery, Root
  <2>3. row' \in [Jobs -> Row]
    BY <1>0, <2>0, <2>1, <2>2 DEF Row, Leases, Token0
  <2>4. Root(j) \in Used
    BY UsedTokens DEF Root
  <2> QED
    BY <1>2, <2>0, <2>1, <2>3, <2>4
<1> QED
  BY <1>1, <1>3, <1>4 DEF Claim

\* What a step does to one staging root: only root k changes.
OnlyRoot(k) == /\ disk' \in [Tokens -> Disk]
               /\ \A x \in Tokens: x # k => disk'[x] = disk[x]

\* What a step does to one install path and its registry entry.
OnlyTarget(t) == /\ final' \in [Targets -> Dir] /\ registry' \in [Models -> Token0]
                 /\ \A u \in Targets: u # t =>
                       /\ final'[u] = final[u]
                       /\ Sole(u) => registry'[Model[u]] = registry[Model[u]]

\* An execution's job, tokens and root.
LEMMA BusyFacts ==
    ASSUME TInv, NEW w \in Workers,
           worker[w].pc # "idle" \/ worker[w].thread # "none"
    PROVE  /\ Job(w) \in Jobs /\ Tok(w) \in Tokens /\ Src(w) \in Tokens
           /\ Tok(w) # 0 /\ Src(w) # 0 /\ Tok(w) \in Token0 /\ Src(w) \in Token0
           /\ Target[Job(w)] \in Targets /\ Model[Target[Job(w)]] \in Models
           /\ row[Job(w)] \in Row /\ disk[Tok(w)] \in Disk /\ disk[Src(w)] \in Disk
           /\ final[Target[Job(w)]] \in Dir
           /\ registry[Model[Target[Job(w)]]] \in Token0
           /\ worker[w] \in Worker
  BY DownloadAssumption DEF TInv, TypeOK, Busy, Job, Tok, Src, Token0

\* The fields of a root.
LEMMA RootFields ==
    ASSUME NEW d \in Disk
    PROVE  /\ d.backup \in Dir /\ d.prior \in Token0
           /\ d.staged \in BOOLEAN /\ d.receipt \in BOOLEAN /\ d.had \in BOOLEAN
  BY DEF Disk

\* Removing a staging root leaves its backup where it is.
LEMMA StageRemovedRoot ==
    ASSUME TInv, NEW k \in Tokens, disk' = StageRemoved(k)
    PROVE  /\ OnlyRoot(k)
           /\ disk'[k].receipt = FALSE
           /\ disk'[k].had = disk[k].had /\ disk'[k].prior = disk[k].prior
           /\ disk'[k].backup = disk[k].backup
  BY DEF TInv, TypeOK, StageRemoved, OnlyRoot, Disk

\* The backup of a root is moved, or put back.
LEMMA BackupRoot ==
    ASSUME TInv, NEW k \in Tokens, NEW d \in Dir, disk' = [disk EXCEPT ![k].backup = d]
    PROVE  /\ OnlyRoot(k)
           /\ disk'[k].receipt = disk[k].receipt
           /\ disk'[k].had = disk[k].had /\ disk'[k].prior = disk[k].prior
           /\ disk'[k].backup = d
  BY DEF TInv, TypeOK, OnlyRoot, Disk

\* A download, or a rename, changes what is staged.
LEMMA StagedRoot ==
    ASSUME TInv, NEW k \in Tokens, NEW b \in BOOLEAN,
           disk' = [disk EXCEPT ![k].staged = b]
    PROVE  /\ OnlyRoot(k)
           /\ disk'[k].receipt = disk[k].receipt
           /\ disk'[k].had = disk[k].had /\ disk'[k].prior = disk[k].prior
           /\ disk'[k].backup = disk[k].backup
  BY DEF TInv, TypeOK, OnlyRoot, Disk

\* The journal is written.
LEMMA JournalRoot ==
    ASSUME TInv, NEW k \in Tokens, NEW b \in BOOLEAN, NEW p \in Token0,
           disk' = [disk EXCEPT ![k].receipt = TRUE, ![k].had = b, ![k].prior = p]
    PROVE  /\ OnlyRoot(k)
           /\ disk'[k].receipt = TRUE
           /\ disk'[k].had = b /\ disk'[k].prior = p
           /\ disk'[k].backup = disk[k].backup
  BY DEF TInv, TypeOK, OnlyRoot, Disk

\* Another directory at the install path, or another registry entry.
LEMMA TargetChange ==
    ASSUME TInv, NEW t \in Targets, NEW d \in Dir, NEW p \in Token0,
           final' \in {final, [final EXCEPT ![t] = d]},
           registry' \in {registry, [registry EXCEPT ![Model[t]] = p]}
    PROVE  OnlyTarget(t)
  BY DownloadAssumption DEF TInv, TypeOK, OnlyTarget, Sole

\* The types of a step of one execution.
LEMMA ExecutionTypes ==
    ASSUME TInv, NEW w \in Workers, Only(w), row' \in [Jobs -> Row],
           worker[w].pc # "idle" \/ worker[w].thread # "none",
           worker'[w] = Idle \/ Keeps(w),
           disk' \in [Tokens -> Disk], final' \in [Targets -> Dir],
           registry' \in [Models -> Token0], installed' \in [Targets -> Token0],
           refused' \subseteq Tokens, Watches
    PROVE  TypeOK' /\ Busy'
  BY BusyKept DEF TInv, TypeOK, Only, Watches

-----------------------------------------------------------------------------
(* What the steps on the directories and the registry do. *)

\* The places an execution can be at.
LEMMA Places ==
    /\ InGuard \subseteq PCs
    /\ {"idle", "downloading", "staged", "reserved", "recovering", "cleaning",
        "erring", "deferring", "cancelling"} \subseteq PCs
    /\ {"guarded", "journaled", "promoted", "registered", "compensating",
        "rollback", "removing", "aborting"} = InGuard
  BY DEF PCs, InGuard

\* The previous install is moved away, or the thread gives up.
LEMMA PromoteBackupEffect ==
    ASSUME TInv, NEW w \in Workers, PromoteBackup(w)
    PROVE  LET t == Target[Job(w)]
               k == Tok(w) IN
           /\ Only(w) /\ (worker'[w] = Idle \/ Keeps(w))
           /\ OnlyRoot(k) /\ OnlyTarget(t) /\ UNCHANGED <<row, installed, refused>>
           /\ registry' = registry
           /\ disk[k].had = (final[t] # Nothing) =>
                 /\ final'[t] = Nothing /\ disk'[k].backup = final[t]
                 /\ disk'[k].receipt = disk[k].receipt
                 /\ disk'[k].had = disk[k].had /\ disk'[k].prior = disk[k].prior
                 /\ Keeps(w) /\ worker'[w].thread = "rename"
                 /\ worker'[w].pc = worker[w].pc
           /\ disk[k].had # (final[t] # Nothing) =>
                 /\ UNCHANGED <<final, disk>>
                 /\ \/ worker[w].pc = "idle" /\ worker'[w] = Idle
                    \/ /\ worker[w].pc # "idle" /\ Keeps(w) /\ worker'[w].thread = "none"
                       /\ worker'[w].pc = IF worker[w].pc = "journaled"
                                          THEN "compensating" ELSE worker[w].pc
<1> DEFINE t == Target[Job(w)]
           k == Tok(w)
<1>0. /\ worker[w].thread = "backup"
      /\ UNCHANGED <<row, registry, installed, refused>>
  BY DEF PromoteBackup
<1>1. t \in Targets /\ k \in Tokens /\ final[t] \in Dir
  BY <1>0, BusyFacts
<1>2. CASE disk[k].had = (final[t] # Nothing)
  <2>1. /\ disk' = [disk EXCEPT ![k].backup = final[t]]
        /\ final' = [final EXCEPT ![t] = Nothing]
        /\ worker' = [worker EXCEPT ![w].thread = "rename"]
    BY <1>2 DEF PromoteBackup
  <2>2. /\ Only(w) /\ Keeps(w) /\ worker'[w].thread = "rename"
        /\ worker'[w].pc = worker[w].pc
    BY <2>1 DEF TInv, TypeOK, Worker, Only, Keeps
  <2>3. OnlyTarget(t) /\ final'[t] = Nothing
    <3>1. OnlyTarget(t)
      BY <1>0, <1>1, <2>1, TargetChange, Constructed DEF TInv, TypeOK
    <3>2. final'[t] = Nothing
      BY <1>1, <2>1 DEF TInv, TypeOK
    <3> QED
      BY <3>1, <3>2
  <2>4. /\ OnlyRoot(k) /\ disk'[k].backup = final[t]
        /\ disk'[k].receipt = disk[k].receipt
        /\ disk'[k].had = disk[k].had /\ disk'[k].prior = disk[k].prior
    BY <1>1, <2>1, BackupRoot
  <2> QED
    BY <1>0, <1>2, <2>2, <2>3, <2>4
<1>3. CASE disk[k].had # (final[t] # Nothing)
  <2>1. UNCHANGED <<disk, final>> /\ ThreadEnds(w, "compensating")
    BY <1>3 DEF PromoteBackup
  <2>2. /\ Only(w) /\ (worker'[w] = Idle \/ Keeps(w))
        /\ \/ worker[w].pc = "idle" /\ worker'[w] = Idle
           \/ /\ worker[w].pc # "idle" /\ Keeps(w) /\ worker'[w].thread = "none"
              /\ worker'[w].pc = IF worker[w].pc = "journaled"
                                 THEN "compensating" ELSE worker[w].pc
    BY <2>1, ThreadWorker, Places DEF TInv
  <2> QED
    BY <1>0, <1>3, <2>1, <2>2 DEF TInv, TypeOK, OnlyRoot, OnlyTarget
<1> QED
  BY <1>2, <1>3

\* The staged artifact is renamed into place, or the previous one is put back.
LEMMA PromoteRenameEffect ==
    ASSUME TInv, NEW w \in Workers, NEW ok \in BOOLEAN, PromoteRename(w, ok)
    PROVE  LET t == Target[Job(w)]
               k == Tok(w) IN
           /\ Only(w)
           /\ \/ worker[w].pc = "idle" /\ worker'[w] = Idle
              \/ /\ worker[w].pc # "idle" /\ Keeps(w) /\ worker'[w].thread = "none"
                 /\ worker'[w].pc = IF worker[w].pc # "journaled" THEN worker[w].pc
                                    ELSE IF ok THEN "promoted" ELSE "compensating"
           /\ OnlyRoot(k) /\ OnlyTarget(t) /\ UNCHANGED <<row, installed, refused>>
           /\ registry' = registry
           /\ disk'[k].receipt = disk[k].receipt
           /\ disk'[k].had = disk[k].had /\ disk'[k].prior = disk[k].prior
           /\ ok => /\ final'[t].content = k /\ final'[t].marker = k
                    /\ disk'[k].backup = disk[k].backup
           /\ ~ok /\ final[t] = Nothing => /\ final'[t] = disk[k].backup
                                           /\ disk'[k].backup = Nothing
           /\ ~ok /\ final[t] # Nothing => UNCHANGED <<final, disk>>
<1> DEFINE t == Target[Job(w)]
           k == Tok(w)
<1>0. /\ worker[w].thread = "rename"
      /\ UNCHANGED <<row, registry, installed, refused>>
  BY DEF PromoteRename
<1>1. /\ t \in Targets /\ k \in Tokens /\ k \in Token0 /\ final[t] \in Dir
      /\ disk[k] \in Disk /\ disk[k].backup \in Dir
  BY <1>0, BusyFacts, RootFields
<1>2. CASE ok
  <2> DEFINE d == [content |-> k, marker |-> k]
  <2>1. /\ disk' = [disk EXCEPT ![k].staged = FALSE]
        /\ final' = [final EXCEPT ![t] = d]
        /\ ThreadEnds(w, "promoted")
    BY <1>2 DEF PromoteRename
  <2>2. d \in Dir /\ d.content = k /\ d.marker = k
    BY <1>1 DEF Dir
  <2> HIDE DEF d
  <2>3. OnlyTarget(t) /\ final'[t] = d
    <3>1. OnlyTarget(t)
      BY <1>0, <1>1, <2>1, <2>2, TargetChange DEF TInv, TypeOK
    <3> QED
      BY <3>1, <1>1, <2>1 DEF TInv, TypeOK
  <2>4. /\ OnlyRoot(k) /\ disk'[k].backup = disk[k].backup
        /\ disk'[k].receipt = disk[k].receipt
        /\ disk'[k].had = disk[k].had /\ disk'[k].prior = disk[k].prior
    BY <1>1, <2>1, StagedRoot
  <2>5. /\ Only(w)
        /\ \/ worker[w].pc = "idle" /\ worker'[w] = Idle
           \/ /\ worker[w].pc # "idle" /\ Keeps(w) /\ worker'[w].thread = "none"
              /\ worker'[w].pc = IF worker[w].pc = "journaled" THEN "promoted"
                                                               ELSE worker[w].pc
    BY <2>1, ThreadWorker, Places DEF TInv
  <2> QED
    BY <1>0, <1>2, <2>2, <2>3, <2>4, <2>5
<1>3. CASE ~ok
  <2>1. ThreadEnds(w, "compensating")
    BY <1>3 DEF PromoteRename
  <2>2. /\ Only(w)
        /\ \/ worker[w].pc = "idle" /\ worker'[w] = Idle
           \/ /\ worker[w].pc # "idle" /\ Keeps(w) /\ worker'[w].thread = "none"
              /\ worker'[w].pc = IF worker[w].pc = "journaled" THEN "compensating"
                                                               ELSE worker[w].pc
    BY <2>1, ThreadWorker, Places DEF TInv
  <2>3. CASE final[t] = Nothing
    <3>1. /\ disk' = [disk EXCEPT ![k].backup = Nothing]
          /\ final' = [final EXCEPT ![t] = disk[k].backup]
      BY <1>3, <2>3 DEF PromoteRename
    <3>2. OnlyTarget(t) /\ final'[t] = disk[k].backup
      <4>1. OnlyTarget(t)
        BY <1>0, <1>1, <3>1, TargetChange DEF TInv, TypeOK
      <4> QED
        BY <4>1, <1>1, <3>1 DEF TInv, TypeOK
    <3>3. /\ OnlyRoot(k) /\ disk'[k].backup = Nothing
          /\ disk'[k].receipt = disk[k].receipt
          /\ disk'[k].had = disk[k].had /\ disk'[k].prior = disk[k].prior
      BY <1>1, <3>1, BackupRoot, Constructed
    <3> QED
      BY <1>0, <1>3, <2>2, <2>3, <3>2, <3>3
  <2>4. CASE final[t] # Nothing
    <3>1. UNCHANGED <<disk, final>>
      BY <1>3, <2>4 DEF PromoteRename
    <3>2. OnlyRoot(k) /\ OnlyTarget(t)
      BY <1>0, <3>1 DEF TInv, TypeOK, OnlyRoot, OnlyTarget
    <3> QED
      BY <1>0, <1>3, <2>2, <2>4, <3>1, <3>2
  <2> QED
    BY <2>3, <2>4
<1> QED
  BY <1>2, <1>3

\* The journal records what is there, or the step fails.
LEMMA CreateJournalEffect ==
    ASSUME TInv, NEW w \in Workers, NEW ok \in BOOLEAN, CreateJournal(w, ok)
    PROVE  LET t == Target[Job(w)]
               k == Tok(w) IN
           /\ Only(w) /\ Keeps(w) /\ worker[w].pc = "guarded"
           /\ worker'[w].pc = (IF ok THEN "journaled" ELSE "erring")
           /\ worker'[w].thread = (IF ok THEN "backup" ELSE "none")
           /\ OnlyRoot(k) /\ UNCHANGED <<row, final, registry, installed, refused>>
           /\ ok => /\ disk'[k].receipt /\ disk'[k].prior = registry[Model[t]]
                    /\ disk'[k].had = (final[t] # Nothing)
                    /\ disk'[k].backup = disk[k].backup
           /\ ~ok => disk' = disk
<1> DEFINE t == Target[Job(w)]
           k == Tok(w)
<1>0. worker[w].pc = "guarded" /\ UNCHANGED <<row, final, registry, installed, refused>>
  BY DEF CreateJournal
<1>1. k \in Tokens /\ registry[Model[t]] \in Token0 /\ (final[t] # Nothing) \in BOOLEAN
  BY <1>0, BusyFacts
<1>2. PICK pc \in PCs, th \in {"backup", "none"}:
         /\ pc = (IF ok THEN "journaled" ELSE "erring")
         /\ th = (IF ok THEN "backup" ELSE "none")
         /\ worker' = [worker EXCEPT ![w].pc = pc, ![w].thread = th]
  BY Places DEF CreateJournal
<1>3. /\ Only(w) /\ Keeps(w) /\ worker'[w].pc = pc /\ worker'[w].thread = th
  BY <1>2, MoveWorker, ZenonT(60) DEF TInv
<1>4. CASE ok
  <2>1. disk' = [disk EXCEPT ![k].receipt = TRUE, ![k].had = final[t] # Nothing,
                             ![k].prior = registry[Model[t]]]
    BY <1>4 DEF CreateJournal, Journaled
  <2>2. /\ OnlyRoot(k) /\ disk'[k].receipt = TRUE /\ disk'[k].prior = registry[Model[t]]
        /\ disk'[k].had = (final[t] # Nothing) /\ disk'[k].backup = disk[k].backup
    BY <1>1, <2>1, JournalRoot
  <2> QED
    BY <1>0, <1>2, <1>3, <1>4, <2>2
<1>5. CASE ~ok
  <2>1. disk' = disk
    BY <1>5 DEF CreateJournal
  <2>2. OnlyRoot(k)
    BY <2>1 DEF TInv, TypeOK, OnlyRoot
  <2> QED
    BY <1>0, <1>2, <1>3, <1>5, <2>1, <2>2
<1> QED
  BY <1>4, <1>5

\* The registry gets the new entry, or the step fails.
LEMMA ReplaceRegistryEffect ==
    ASSUME TInv, NEW w \in Workers, NEW ok \in BOOLEAN, ReplaceRegistryEntry(w, ok)
    PROVE  LET t == Target[Job(w)] IN
           /\ Only(w) /\ Keeps(w) /\ worker[w].pc = "promoted"
           /\ worker'[w].pc = (IF ok THEN "registered" ELSE "compensating")
           /\ worker'[w].thread = worker[w].thread
           /\ OnlyTarget(t) /\ UNCHANGED <<row, final, disk, installed, refused>>
           /\ registry'[Model[t]] = IF ok THEN Tok(w) ELSE registry[Model[t]]
<1> DEFINE t == Target[Job(w)]
<1>0. worker[w].pc = "promoted" /\ UNCHANGED <<row, final, disk, installed, refused>>
  BY DEF ReplaceRegistryEntry
<1>1. t \in Targets /\ Tok(w) \in Token0 /\ final[t] \in Dir /\ Model[t] \in Models
  BY <1>0, BusyFacts
<1>2. PICK pc \in PCs: pc = (IF ok THEN "registered" ELSE "compensating") /\ Goto(w, pc)
  BY Places DEF ReplaceRegistryEntry
<1>3. Only(w) /\ Keeps(w) /\ worker'[w].pc = pc /\ worker'[w].thread = worker[w].thread
  BY <1>2, GotoWorker DEF TInv
<1>4. registry' = IF ok THEN [registry EXCEPT ![Model[t]] = Tok(w)] ELSE registry
  BY DEF ReplaceRegistryEntry
<1>5. OnlyTarget(t)
  BY <1>0, <1>1, <1>4, TargetChange
<1>6. registry'[Model[t]] = IF ok THEN Tok(w) ELSE registry[Model[t]]
  BY <1>1, <1>4 DEF TInv, TypeOK
<1> QED
  BY <1>0, <1>2, <1>3, <1>5, <1>6

\* The registry entry of this publication is replaced by the one before it.
LEMMA CompensateRegistryEffect ==
    ASSUME TInv, NEW w \in Workers, NEW ok \in BOOLEAN, CompensateRegistry(w, ok)
    PROVE  LET t == Target[Job(w)]
               k == Src(w) IN
           /\ Only(w) /\ Keeps(w) /\ worker[w].pc = "compensating"
           /\ worker'[w].pc \in (IF ok THEN {"rollback"} ELSE {"deferring", "erring"})
           /\ worker'[w].thread = worker[w].thread
           /\ OnlyTarget(t) /\ UNCHANGED <<row, final, disk, installed, refused>>
           /\ registry'[Model[t]] = IF ok /\ registry[Model[t]] = k THEN disk[k].prior
                                                      ELSE registry[Model[t]]
<1> DEFINE t == Target[Job(w)]
           k == Src(w)
<1>0. worker[w].pc = "compensating" /\ UNCHANGED <<row, final, disk, installed, refused>>
  BY DEF CompensateRegistry
<1>1. t \in Targets /\ disk[k].prior \in Token0 /\ final[t] \in Dir
      /\ Model[t] \in Models
  BY <1>0, BusyFacts, RootFields
<1>2. PICK pc \in PCs, b \in BOOLEAN:
         /\ pc \in (IF ok THEN {"rollback"} ELSE {"deferring", "erring"})
         /\ worker' = [worker EXCEPT ![w].safe = b, ![w].pc = pc]
  <2> DEFINE p == CASE ok -> "rollback"
                    [] ~ok /\ Recovery(w) -> "deferring"
                    [] OTHER -> "erring"
             s == registry[Model[t]] = k \/ registry[Model[t]] = disk[k].prior
  <2>1. worker' = [worker EXCEPT ![w].safe = s, ![w].pc = p]
    BY DEF CompensateRegistry
  <2>2. p \in PCs /\ p \in (IF ok THEN {"rollback"} ELSE {"deferring", "erring"})
    BY Places
  <2>3. s \in BOOLEAN
    OBVIOUS
  <2> HIDE DEF p, s
  <2> QED
    BY <2>1, <2>2, <2>3
<1>3. Only(w) /\ Keeps(w) /\ worker'[w].pc = pc /\ worker'[w].thread = worker[w].thread
  BY <1>2 DEF TInv, TypeOK, Worker, Only, Keeps
<1>4. registry' = IF ok /\ registry[Model[t]] = k THEN [registry EXCEPT ![Model[t]] = disk[k].prior]
                                           ELSE registry
  BY DEF CompensateRegistry
<1>5. OnlyTarget(t)
  BY <1>0, <1>1, <1>4, TargetChange
<1>6. registry'[Model[t]] = IF ok /\ registry[Model[t]] = k THEN disk[k].prior ELSE registry[Model[t]]
  BY <1>1, <1>4 DEF TInv, TypeOK
<1> QED
  BY <1>0, <1>2, <1>3, <1>5, <1>6

\* The backup goes back to the install path where that is safe.
LEMMA RollbackEffect ==
    ASSUME TInv, NEW w \in Workers, NEW ok \in BOOLEAN, RollbackFilesystem(w, ok)
    PROVE  LET t == Target[Job(w)]
               k == Src(w)
               moves == final[t].marker = k \/ disk[k].backup # Nothing IN
           /\ Only(w) /\ Keeps(w) /\ worker[w].pc = "rollback"
           /\ worker'[w].pc = (IF ok /\ Restorable(t, k) THEN "removing" ELSE "deferring")
           /\ worker'[w].thread = worker[w].thread
           /\ OnlyTarget(t) /\ OnlyRoot(k)
           /\ UNCHANGED <<row, registry, installed, refused>>
           /\ disk'[k].receipt = disk[k].receipt
           /\ disk'[k].had = disk[k].had /\ disk'[k].prior = disk[k].prior
           /\ IF ok /\ Restorable(t, k) /\ moves
              THEN final'[t] = disk[k].backup /\ disk'[k].backup = Nothing
              ELSE UNCHANGED <<final, disk>>
<1> DEFINE t == Target[Job(w)]
           k == Src(w)
           moves == final[t].marker = k \/ disk[k].backup # Nothing
<1>0. worker[w].pc = "rollback" /\ UNCHANGED <<row, registry, installed, refused>>
  BY DEF RollbackFilesystem
<1>1. t \in Targets /\ k \in Tokens /\ disk[k].backup \in Dir /\ final[t] \in Dir
      /\ registry[Model[t]] \in Token0
  BY <1>0, BusyFacts, RootFields
<1>2. PICK pc \in PCs:
         /\ pc = (IF ok /\ Restorable(t, k) THEN "removing" ELSE "deferring")
         /\ Goto(w, pc)
  BY Places DEF RollbackFilesystem
<1>3. Only(w) /\ Keeps(w) /\ worker'[w].pc = pc /\ worker'[w].thread = worker[w].thread
  BY <1>2, GotoWorker DEF TInv
<1>4. CASE ok /\ Restorable(t, k) /\ moves
  <2>1. /\ final' = [final EXCEPT ![t] = disk[k].backup]
        /\ disk' = [disk EXCEPT ![k].backup = Nothing]
    BY <1>4 DEF RollbackFilesystem, Restore
  <2>2. OnlyTarget(t)
    BY <1>0, <1>1, <2>1, TargetChange
  <2>3. final'[t] = disk[k].backup
    BY <1>1, <2>1 DEF TInv, TypeOK
  <2>4. /\ OnlyRoot(k) /\ disk'[k].receipt = disk[k].receipt
        /\ disk'[k].had = disk[k].had /\ disk'[k].prior = disk[k].prior
        /\ disk'[k].backup = Nothing
    BY <1>1, <2>1, BackupRoot, Constructed
  <2> QED
    BY <1>0, <1>2, <1>3, <1>4, <2>2, <2>3, <2>4
<1>5. CASE ~(ok /\ Restorable(t, k) /\ moves)
  <2>1. UNCHANGED <<final, disk>>
    BY <1>5 DEF RollbackFilesystem, Restore
  <2>2. OnlyTarget(t) /\ OnlyRoot(k)
    BY <1>0, <2>1 DEF TInv, TypeOK, OnlyTarget, OnlyRoot
  <2> QED
    BY <1>0, <1>2, <1>3, <1>5, <2>1, <2>2
<1> QED
  BY <1>4, <1>5

\* The staging root is removed, or the step fails.
LEMMA RemoveStageRootEffect ==
    ASSUME TInv, NEW w \in Workers, NEW ok \in BOOLEAN, RemoveStageRoot(w, ok)
    PROVE  LET k == Src(w) IN
           /\ Only(w) /\ Keeps(w) /\ worker[w].pc = "removing"
           /\ worker'[w].pc \in {"aborting", "deferring"}
           /\ worker'[w].thread = worker[w].thread
           /\ OnlyRoot(k) /\ UNCHANGED <<row, final, registry, installed, refused>>
           /\ disk'[k].receipt => disk[k].receipt
           /\ disk'[k].had = disk[k].had /\ disk'[k].prior = disk[k].prior
           /\ disk'[k].backup = disk[k].backup
<1> DEFINE k == Src(w)
<1>0. worker[w].pc = "removing" /\ UNCHANGED <<row, final, registry, installed, refused>>
  BY DEF RemoveStageRoot
<1>1. k \in Tokens
  BY <1>0, BusyFacts
<1>2. PICK pc \in PCs: pc \in {"aborting", "deferring"} /\ Goto(w, pc)
  BY Places DEF RemoveStageRoot
<1>3. Only(w) /\ Keeps(w) /\ worker'[w].pc = pc /\ worker'[w].thread = worker[w].thread
  BY <1>2, GotoWorker DEF TInv
<1>4. disk' \in {disk, StageRemoved(k)}
  BY DEF RemoveStageRoot
<1>5. /\ OnlyRoot(k) /\ (disk'[k].receipt => disk[k].receipt)
      /\ disk'[k].had = disk[k].had /\ disk'[k].prior = disk[k].prior
      /\ disk'[k].backup = disk[k].backup
  <2>1. CASE disk' = disk
    BY <2>1 DEF TInv, TypeOK, OnlyRoot
  <2>2. CASE disk' = StageRemoved(k)
    BY <1>1, <2>2, StageRemovedRoot
  <2> QED
    BY <1>4, <2>1, <2>2
<1> QED
  BY <1>0, <1>2, <1>3, <1>5

\* A rollback that nobody waits for.
LEMMA StrayRollbackEffect ==
    ASSUME TInv, NEW w \in Workers, NEW ok \in BOOLEAN, StrayRollback(w, ok)
    PROVE  LET t == Target[Job(w)]
               k == Src(w)
               moves == final[t].marker = k \/ disk[k].backup # Nothing IN
           /\ Only(w) /\ worker[w].thread = "rollback"
           /\ IF ok /\ Restorable(t, k)
              THEN /\ Keeps(w) /\ worker'[w].pc = worker[w].pc
                   /\ worker'[w].thread = "removing"
              ELSE \/ worker[w].pc = "idle" /\ worker'[w] = Idle
                   \/ /\ worker[w].pc # "idle" /\ Keeps(w) /\ worker'[w].thread = "none"
                      /\ worker'[w].pc = IF worker[w].pc = "journaled" THEN "deferring"
                                                                       ELSE worker[w].pc
           /\ OnlyTarget(t) /\ OnlyRoot(k)
           /\ UNCHANGED <<row, registry, installed, refused>>
           /\ disk'[k].receipt = disk[k].receipt
           /\ disk'[k].had = disk[k].had /\ disk'[k].prior = disk[k].prior
           /\ IF ok /\ Restorable(t, k) /\ moves
              THEN final'[t] = disk[k].backup /\ disk'[k].backup = Nothing
              ELSE UNCHANGED <<final, disk>>
<1> DEFINE t == Target[Job(w)]
           k == Src(w)
           moves == final[t].marker = k \/ disk[k].backup # Nothing
<1>0. worker[w].thread = "rollback" /\ UNCHANGED <<row, registry, installed, refused>>
  BY DEF StrayRollback
<1>1. t \in Targets /\ k \in Tokens /\ disk[k].backup \in Dir /\ final[t] \in Dir
      /\ registry[Model[t]] \in Token0
  BY <1>0, BusyFacts, RootFields
<1>2. CASE ok /\ Restorable(t, k)
  <2>1. worker' = [worker EXCEPT ![w].thread = "removing"] /\ Restore(t, k)
    BY <1>2 DEF StrayRollback
  <2>2. /\ Only(w) /\ Keeps(w) /\ worker'[w].thread = "removing"
        /\ worker'[w].pc = worker[w].pc
    BY <2>1 DEF TInv, TypeOK, Worker, Only, Keeps
  <2>3. CASE moves
    <3>1. /\ final' = [final EXCEPT ![t] = disk[k].backup]
          /\ disk' = [disk EXCEPT ![k].backup = Nothing]
      BY <2>1, <2>3 DEF Restore
    <3>2. OnlyTarget(t)
      BY <1>0, <1>1, <3>1, TargetChange
    <3>3. final'[t] = disk[k].backup
      BY <1>1, <3>1 DEF TInv, TypeOK
    <3>4. /\ OnlyRoot(k) /\ disk'[k].receipt = disk[k].receipt
          /\ disk'[k].had = disk[k].had /\ disk'[k].prior = disk[k].prior
          /\ disk'[k].backup = Nothing
      BY <1>1, <3>1, BackupRoot, Constructed
    <3> QED
      BY <1>0, <1>2, <2>2, <2>3, <3>2, <3>3, <3>4
  <2>4. CASE ~moves
    <3>1. UNCHANGED <<final, disk>>
      BY <2>1, <2>4 DEF Restore
    <3>2. OnlyTarget(t) /\ OnlyRoot(k)
      BY <1>0, <3>1 DEF TInv, TypeOK, OnlyTarget, OnlyRoot
    <3> QED
      BY <1>0, <1>2, <2>2, <2>4, <3>1, <3>2
  <2> QED
    BY <2>3, <2>4
<1>3. CASE ~(ok /\ Restorable(t, k))
  <2>1. ThreadEnds(w, "deferring") /\ UNCHANGED <<final, disk>>
    BY <1>3 DEF StrayRollback
  <2>2. OnlyTarget(t) /\ OnlyRoot(k)
    BY <1>0, <2>1 DEF TInv, TypeOK, OnlyTarget, OnlyRoot
  <2>3. /\ Only(w)
        /\ \/ worker[w].pc = "idle" /\ worker'[w] = Idle
           \/ /\ worker[w].pc # "idle" /\ Keeps(w) /\ worker'[w].thread = "none"
              /\ worker'[w].pc = IF worker[w].pc = "journaled" THEN "deferring"
                                                               ELSE worker[w].pc
    BY <2>1, ThreadWorker, Places DEF TInv
  <2> QED
    BY <1>0, <1>3, <2>1, <2>2, <2>3
<1> QED
  BY <1>2, <1>3

LEMMA StrayRemovalEffect ==
    ASSUME TInv, NEW w \in Workers, NEW ok \in BOOLEAN, StrayRemoval(w, ok)
    PROVE  LET k == Src(w) IN
           /\ Only(w) /\ worker[w].thread = "removing"
           /\ \/ worker[w].pc = "idle" /\ worker'[w] = Idle
              \/ /\ worker[w].pc # "idle" /\ Keeps(w) /\ worker'[w].thread = "none"
                 /\ worker'[w].pc = IF worker[w].pc = "journaled" THEN "deferring"
                                                                  ELSE worker[w].pc
           /\ OnlyRoot(k) /\ UNCHANGED <<row, final, registry, installed, refused>>
           /\ disk'[k].receipt => disk[k].receipt
           /\ disk'[k].had = disk[k].had /\ disk'[k].prior = disk[k].prior
           /\ disk'[k].backup = disk[k].backup
<1> DEFINE k == Src(w)
<1>0. worker[w].thread = "removing" /\ UNCHANGED <<row, final, registry, installed, refused>>
      /\ ThreadEnds(w, "deferring") /\ disk' \in {disk, StageRemoved(k)}
  BY DEF StrayRemoval
<1>1. k \in Tokens
  BY <1>0, BusyFacts
<1>2. /\ OnlyRoot(k) /\ (disk'[k].receipt => disk[k].receipt)
      /\ disk'[k].had = disk[k].had /\ disk'[k].prior = disk[k].prior
      /\ disk'[k].backup = disk[k].backup
  <2>1. CASE disk' = disk
    BY <2>1 DEF TInv, TypeOK, OnlyRoot
  <2>2. CASE disk' = StageRemoved(k)
    BY <1>1, <2>2, StageRemovedRoot
  <2> QED
    BY <1>0, <2>1, <2>2
<1> QED
  BY <1>0, <1>2, ThreadWorker, Places DEF TInv

\* After the commit the root, the backup and the marker are removed.
LEMMA CleanupCommittedEffect ==
    ASSUME TInv, NEW w \in Workers, CleanupCommitted(w)
    PROVE  LET t == Target[Job(w)]
               k == Src(w) IN
           /\ Only(w) /\ (worker'[w] = Idle \/ Keeps(w)) /\ worker[w].pc = "cleaning"
           /\ worker[w].thread = "none" => worker'[w] = Idle
           /\ OnlyRoot(k) /\ OnlyTarget(t)
           /\ UNCHANGED <<row, registry, installed, refused>>
           /\ ~disk'[k].receipt /\ disk'[k].backup = Nothing
           /\ final'[t].content = final[t].content /\ final'[t].marker = 0
<1> DEFINE t == Target[Job(w)]
           k == Src(w)
<1>0. worker[w].pc = "cleaning" /\ UNCHANGED <<row, registry, installed, refused>>
  BY DEF CleanupCommitted
<1>1. t \in Targets /\ k \in Tokens /\ final[t] \in Dir /\ registry[Model[t]] \in Token0
      /\ disk[k] \in Disk
  BY <1>0, BusyFacts
<1>2. Only(w) /\ (worker'[w] = Idle \/ Keeps(w))
      /\ (worker[w].thread = "none" => worker'[w] = Idle)
  BY EndWorker DEF CleanupCommitted, TInv
<1>3. OnlyRoot(k) /\ ~disk'[k].receipt /\ disk'[k].backup = Nothing
  <2>1. disk' = [StageRemoved(k) EXCEPT ![k].backup = Nothing]
    BY DEF CleanupCommitted
  <2>2. disk' = [disk EXCEPT ![k].staged = FALSE, ![k].receipt = FALSE,
                             ![k].backup = Nothing]
    BY <2>1 DEF StageRemoved
  <2> QED
    BY <1>1, <2>2, Constructed DEF TInv, TypeOK, OnlyRoot, Disk
<1>4. OnlyTarget(t) /\ final'[t].content = final[t].content /\ final'[t].marker = 0
  <2>1. final' = [final EXCEPT ![t].marker = 0]
    BY DEF CleanupCommitted
  <2> QED
    BY <1>0, <1>1, <2>1 DEF TInv, TypeOK, OnlyTarget, Dir, Token0
<1> QED
  BY <1>0, <1>2, <1>3, <1>4

\* A download ends.
LEMMA DownloadModelEffect ==
    ASSUME TInv, NEW w \in Workers, NEW ok \in BOOLEAN, DownloadModel(w, ok)
    PROVE  LET k == Tok(w) IN
           /\ Only(w) /\ Keeps(w) /\ worker[w].pc = "downloading"
           /\ worker'[w].pc \in {"staged", "erring"}
           /\ worker'[w].thread = worker[w].thread
           /\ OnlyRoot(k) /\ UNCHANGED <<row, final, registry, installed, refused>>
           /\ disk'[k].receipt = disk[k].receipt
           /\ disk'[k].had = disk[k].had /\ disk'[k].prior = disk[k].prior
           /\ disk'[k].backup = disk[k].backup
<1>1. worker[w].pc = "downloading" /\ UNCHANGED <<row, final, registry, installed, refused>>
      /\ disk' = [disk EXCEPT ![Tok(w)].staged = ok]
  BY DEF DownloadModel
<1>2. PICK pc \in PCs: pc \in {"staged", "erring"} /\ Goto(w, pc)
  BY Places DEF DownloadModel
<1>3. Only(w) /\ Keeps(w) /\ worker'[w].pc = pc /\ worker'[w].thread = worker[w].thread
  BY <1>2, GotoWorker DEF TInv
<1> QED
  BY <1>1, <1>2, <1>3, BusyFacts, StagedRoot

-----------------------------------------------------------------------------
(* What the transactions of an execution do. *)

\* What a step does to one row.
OnlyRow(j) == /\ row' \in [Jobs -> Row]
              /\ \A i \in Jobs: i # j => row'[i] = row[i]

\* A transaction that writes row j, or that is not committed.
LEMMA RowWritten ==
    ASSUME TInv, NEW j \in Jobs, NEW r \in Row, row' \in {row, [row EXCEPT ![j] = r]}
    PROVE  OnlyRow(j) /\ row'[j] \in {row[j], r}
  BY DEF TInv, TypeOK, OnlyRow

\* An execution that leaves: it ends, or goes on to one of these places.
Leaves(w, places) ==
    /\ Only(w)
    /\ \/ worker'[w] = Idle
       \/ Keeps(w) /\ worker'[w].pc \in places /\ worker'[w].thread = worker[w].thread

\* Ending and going elsewhere.
LEMMA LeavesCases ==
    ASSUME TInv, NEW w \in Workers, NEW places \in SUBSET PCs,
           End(w) \/ \E pc \in places: Goto(w, pc)
    PROVE  /\ Leaves(w, places \cup {"idle"})
           /\ worker[w].thread = "none" => Leaves(w, places)
<1>1. CASE End(w)
  BY <1>1, EndWorker DEF TInv, Leaves
<1>2. ASSUME NEW pc \in places, Goto(w, pc)
      PROVE  Leaves(w, places)
  BY <1>2, GotoWorker DEF TInv, Leaves
<1> QED
  BY <1>1, <1>2 DEF Leaves

\* lease_is_valid and what the execution does next.
LEMMA LeaseIsValidEffect ==
    ASSUME TInv, NEW w \in Workers, NEW early, NEW reply \in Replies,
           LeaseIsValid(w, early, reply)
    PROVE  /\ worker[w].pc = "staged" /\ ~Locked(Target[Job(w)])
           /\ Leaves(w, {"erring", "reserved", "idle"})
           /\ worker[w].thread = "none" => Leaves(w, {"erring", "reserved"})
           /\ OnlyRow(Job(w)) /\ row'[Job(w)] \in {row[Job(w)], Reserved(w, early)}
           /\ disk' \in {disk, StageRemoved(Tok(w))}
           /\ UNCHANGED <<final, registry, installed, refused>>
           /\ worker'[w].pc = "reserved" =>
                 row'[Job(w)].status = "promoting" /\ LeasedTo(w, early)
<1>1. worker[w].pc = "staged" /\ ~Locked(Target[Job(w)])
      /\ UNCHANGED <<final, registry, installed, refused>>
  BY DEF LeaseIsValid
<1>2. Job(w) \in Jobs
  BY <1>1, BusyFacts
<1>3. Reserved(w, early) \in Row
  BY <1>2, ReservedRow DEF TInv
<1>4. row' \in {row, [row EXCEPT ![Job(w)] = Reserved(w, early)]}
  BY DEF LeaseIsValid
<1>5. OnlyRow(Job(w)) /\ row'[Job(w)] \in {row[Job(w)], Reserved(w, early)}
  BY <1>2, <1>3, <1>4, RowWritten
<1>6. CASE reply = "ok" /\ LeasedTo(w, early) /\ Reserved(w, early).status = "promoting"
  <2>1. Goto(w, "reserved") /\ UNCHANGED disk /\ row' = [row EXCEPT ![Job(w)] = Reserved(w, early)]
    BY <1>6 DEF LeaseIsValid
  <2>2. row'[Job(w)] = Reserved(w, early)
    BY <1>2, <2>1 DEF TInv, TypeOK
  <2>3. Leaves(w, {"reserved"})
    BY <2>1, GotoWorker, Places DEF TInv, Leaves
  <2> QED
    BY <1>1, <1>5, <1>6, <2>1, <2>2, <2>3 DEF Leaves
<1>7. CASE ~(reply = "ok" /\ LeasedTo(w, early) /\ Reserved(w, early).status = "promoting")
  <2>1. /\ End(w) \/ \E pc \in {"erring"}: Goto(w, pc)
        /\ disk' \in {disk, StageRemoved(Tok(w))}
    BY <1>7 DEF LeaseIsValid
  <2>2. /\ Leaves(w, {"erring"} \cup {"idle"})
        /\ worker[w].thread = "none" => Leaves(w, {"erring"})
    BY <2>1, LeavesCases, Places
  <2>3. worker'[w].pc # "reserved"
    BY <1>1, <2>2, Constructed DEF Leaves
  <2> QED
    BY <1>1, <1>5, <2>1, <2>2, <2>3 DEF Leaves
<1> QED
  BY <1>6, <1>7

\* A renewal that comes late.
LEMMA HeartbeatEffect ==
    ASSUME TInv, NEW w \in Workers, Heartbeat(w)
    PROVE  LET j == Job(w) IN
           /\ worker[w].pc \notin InGuard \cup {"idle"}
           /\ j \in Jobs /\ OnlyRow(j)
           /\ row[j].status \in Active /\ row[j].token = Tok(w)
           /\ row[j].lease = "expired" /\ row'[j].lease = "live"
           /\ row'[j].status = row[j].status
           /\ row'[j].token = row[j].token /\ row'[j].source = row[j].source
           /\ row'[j].cancel = row[j].cancel
           /\ UNCHANGED <<worker, final, registry, disk, installed, refused>>
<1> DEFINE j == Job(w)
           r == [row[j] EXCEPT !.lease = "live"]
<1>1. /\ worker[w].pc \notin InGuard \cup {"idle"}
      /\ row[j].status \in Active /\ row[j].token = Tok(w)
      /\ row[j].lease = "expired" /\ row' = [row EXCEPT ![j] = r]
      /\ UNCHANGED <<worker, final, registry, disk, installed, refused>>
  BY DEF Heartbeat, NoDiskChange, Active
<1>2. j \in Jobs /\ row[j] \in Row
  BY <1>1, BusyFacts
<1>3. /\ r \in Row /\ r.lease = "live" /\ r.status = row[j].status
      /\ r.token = row[j].token /\ r.source = row[j].source /\ r.cancel = row[j].cancel
  BY <1>2 DEF Row, Leases
<1> HIDE DEF r
<1>4. OnlyRow(j) /\ row'[j] = r
  BY <1>1, <1>2, <1>3 DEF TInv, TypeOK, OnlyRow
<1> QED
  BY <1>1, <1>2, <1>3, <1>4

\* The guard is entered, refused, or not reached.
LEMMA EnterGuardEffect ==
    ASSUME TInv, NEW w \in Workers, NEW reply \in Replies, EnterGuard(w, reply)
    PROVE  /\ worker[w].pc = "reserved" /\ ~Locked(Target[Job(w)])
           /\ Leaves(w, {"erring", "guarded", "idle"})
           /\ worker[w].thread = "none" => Leaves(w, {"erring", "guarded"})
           /\ disk' \in {disk, StageRemoved(Tok(w))}
           /\ UNCHANGED <<row, final, registry, installed, refused>>
           /\ worker'[w].pc = "guarded" => MayPublish(w) /\ disk' = disk
<1>1. worker[w].pc = "reserved" /\ ~Locked(Target[Job(w)])
      /\ UNCHANGED <<row, final, registry, installed, refused>>
  BY DEF EnterGuard
<1>2. CASE reply # "failed" /\ MayPublish(w)
  <2>1. Goto(w, "guarded") /\ UNCHANGED disk
    BY <1>2 DEF EnterGuard
  <2>2. Leaves(w, {"guarded"})
    BY <2>1, GotoWorker, Places DEF TInv, Leaves
  <2> QED
    BY <1>1, <1>2, <2>1, <2>2 DEF Leaves
<1>3. CASE ~(reply # "failed" /\ MayPublish(w))
  <2>1. /\ End(w) \/ \E pc \in {"erring"}: Goto(w, pc)
        /\ disk' \in {disk, StageRemoved(Tok(w))}
    BY <1>3 DEF EnterGuard
  <2>2. /\ Leaves(w, {"erring"} \cup {"idle"})
        /\ worker[w].thread = "none" => Leaves(w, {"erring"})
    BY <2>1, LeavesCases, Places
  <2>3. worker'[w].pc # "guarded"
    BY <1>1, <2>2, Constructed DEF Leaves
  <2> QED
    BY <1>1, <2>1, <2>2, <2>3 DEF Leaves
<1> QED
  BY <1>2, <1>3

\* A claim that ends with an error.
LEMMA FailClaimEffect ==
    ASSUME TInv, NEW w \in Workers, NEW reply \in Replies, FailClaim(w, reply)
    PROVE  /\ worker[w].pc = "erring" /\ Leaves(w, {"idle"})
           /\ worker[w].thread = "none" => worker'[w] = Idle
           /\ OnlyRow(Job(w))
           /\ \/ row'[Job(w)] = row[Job(w)]
              \/ /\ row[Job(w)].status # "promoting" /\ row[Job(w)].token = Tok(w)
                 /\ row'[Job(w)] = FailOrRetry(row[Job(w)])
           /\ UNCHANGED <<final, registry, disk, installed, refused>>
<1>1. worker[w].pc = "erring" /\ End(w)
      /\ UNCHANGED <<final, registry, disk, installed, refused>>
  BY DEF FailClaim, NoDiskChange
<1>2. Job(w) \in Jobs /\ row[Job(w)] \in Row
  BY <1>1, BusyFacts
<1>3. \/ row' = row
      \/ /\ row[Job(w)].status # "promoting" /\ row[Job(w)].token = Tok(w)
         /\ row' = [row EXCEPT ![Job(w)] = FailOrRetry(row[Job(w)])]
  BY DEF FailClaim
<1>4. Leaves(w, {"idle"}) /\ (worker[w].thread = "none" => worker'[w] = Idle)
  BY <1>1, EndWorker DEF TInv, Leaves
<1>5. /\ OnlyRow(Job(w))
      /\ \/ row'[Job(w)] = row[Job(w)]
         \/ /\ row[Job(w)].status # "promoting" /\ row[Job(w)].token = Tok(w)
            /\ row'[Job(w)] = FailOrRetry(row[Job(w)])
  BY <1>2, <1>3, FailOrRetryRow DEF TInv, TypeOK, OnlyRow
<1> QED
  BY <1>1, <1>4, <1>5

\* A publication is given up in the guard.
LEMMA AbortEffect ==
    ASSUME TInv, NEW w \in Workers, NEW reply \in Replies, AbortForRetry(w, reply)
    PROVE  /\ worker[w].pc = "aborting"
           /\ Leaves(w, {"deferring", "erring", "cancelling", "idle"})
           /\ worker[w].thread = "none" => Leaves(w, {"deferring", "erring", "cancelling"})
           /\ OnlyRow(Job(w))
           /\ row'[Job(w)] \in {row[Job(w)], FailOrRetry(row[Job(w)])}
           /\ UNCHANGED <<final, registry, disk, installed, refused>>
<1>1. worker[w].pc = "aborting" /\ UNCHANGED <<final, registry, disk, installed, refused>>
  BY DEF AbortForRetry, NoDiskChange
<1>2. Job(w) \in Jobs /\ row[Job(w)] \in Row
  BY <1>1, BusyFacts
<1>3. row' \in {row, [row EXCEPT ![Job(w)] = FailOrRetry(row[Job(w)])]}
  BY DEF AbortForRetry
<1>4. OnlyRow(Job(w)) /\ row'[Job(w)] \in {row[Job(w)], FailOrRetry(row[Job(w)])}
  BY <1>2, <1>3, FailOrRetryRow, RowWritten
<1>5. End(w) \/ \E pc \in {"deferring", "erring", "cancelling"}: Goto(w, pc)
  BY DEF AbortForRetry
<1>6. /\ Leaves(w, {"deferring", "erring", "cancelling"} \cup {"idle"})
      /\ worker[w].thread = "none" => Leaves(w, {"deferring", "erring", "cancelling"})
  BY <1>5, LeavesCases, Places
<1> QED
  BY <1>1, <1>4, <1>6 DEF Leaves

\* The authority to execute is given up.
LEMMA DeferEffect ==
    ASSUME TInv, NEW w \in Workers, NEW reply \in Replies, Defer(w, reply)
    PROVE  /\ worker[w].pc = "deferring" /\ Leaves(w, {"idle"})
           /\ worker[w].thread = "none" => worker'[w] = Idle
           /\ OnlyRow(Job(w))
           /\ \/ row'[Job(w)] = row[Job(w)]
              \/ /\ row[Job(w)].status = "promoting" /\ row[Job(w)].token = Tok(w)
                 /\ row'[Job(w)].status = "promoting" /\ row'[Job(w)].token = 0
                 /\ row'[Job(w)].source = Src(w) /\ row'[Job(w)].lease = "null"
           /\ UNCHANGED <<final, registry, disk, installed, refused>>
<1>1. worker[w].pc = "deferring" /\ End(w)
      /\ UNCHANGED <<final, registry, disk, installed, refused>>
  BY DEF Defer, NoDiskChange
<1>2. Job(w) \in Jobs /\ row[Job(w)] \in Row /\ Src(w) \in Token0
  BY <1>1, BusyFacts
<1> DEFINE r == [Released(row[Job(w)], "promoting") EXCEPT !.source = Src(w)]
<1>3. \/ row' = row
      \/ /\ row[Job(w)].status = "promoting" /\ row[Job(w)].token = Tok(w)
         /\ row' = [row EXCEPT ![Job(w)] = r]
  BY DEF Defer
<1>4. r \in Row /\ r.status = "promoting" /\ r.token = 0 /\ r.source = Src(w)
      /\ r.lease = "null"
  BY <1>2 DEF Released, Row, Statuses, Leases, Token0
<1> HIDE DEF r
<1>5. Leaves(w, {"idle"}) /\ (worker[w].thread = "none" => worker'[w] = Idle)
  BY <1>1, EndWorker DEF TInv, Leaves
<1>6. /\ OnlyRow(Job(w))
      /\ \/ row'[Job(w)] = row[Job(w)]
         \/ /\ row[Job(w)].status = "promoting" /\ row[Job(w)].token = Tok(w)
            /\ row'[Job(w)] = r
  BY <1>2, <1>3, <1>4 DEF TInv, TypeOK, OnlyRow
<1> QED
  BY <1>1, <1>4, <1>5, <1>6

\* A recovery finds nothing to do, defers, or enters the guard.
LEMMA RecoverEffect ==
    ASSUME TInv, NEW w \in Workers, NEW reply \in Replies, Recover(w, reply)
    PROVE  LET t == Target[Job(w)]
               k == Src(w) IN
           /\ worker[w].pc = "recovering"
           /\ Leaves(w, {"deferring", "registered", "compensating", "idle"})
           /\ worker[w].thread = "none" =>
                 Leaves(w, {"deferring", "registered", "compensating"})
           /\ UNCHANGED <<row, final, registry, disk, installed, refused>>
           /\ worker'[w].pc \in InGuard =>
                 /\ MayPublish(w) /\ ~Locked(t) /\ disk[k].receipt
                 /\ worker'[w].pc = "registered" =>
                       final[t].marker = k /\ registry[Model[t]] = k
<1> DEFINE t == Target[Job(w)]
           k == Src(w)
<1>1. worker[w].pc = "recovering"
      /\ UNCHANGED <<row, final, registry, disk, installed, refused>>
  BY DEF Recover, NoDiskChange
<1>2. CASE disk[k].receipt /\ reply # "failed" /\ MayPublish(w)
  <2> DEFINE p == IF final[t].marker = k /\ registry[Model[t]] = k THEN "registered"
                                                            ELSE "compensating"
  <2>1. ~Locked(t) /\ Goto(w, p)
    BY <1>2 DEF Recover
  <2>2. p \in PCs /\ p \in {"registered", "compensating"}
        /\ (p = "registered" => final[t].marker = k /\ registry[Model[t]] = k)
    BY Places
  <2> HIDE DEF p
  <2>3. Only(w) /\ Keeps(w) /\ worker'[w].pc = p /\ worker'[w].thread = worker[w].thread
    BY <2>1, <2>2, GotoWorker DEF TInv
  <2> QED
    BY <1>1, <1>2, <2>1, <2>2, <2>3 DEF Leaves
<1>3. CASE ~(disk[k].receipt /\ reply # "failed" /\ MayPublish(w))
  <2>1. End(w) \/ \E pc \in {"deferring"}: Goto(w, pc)
    BY <1>3 DEF Recover
  <2>2. /\ Leaves(w, {"deferring"} \cup {"idle"})
        /\ worker[w].thread = "none" => Leaves(w, {"deferring"})
    BY <2>1, LeavesCases, Places
  <2>3. worker'[w].pc \notin InGuard
    BY <2>2, Constructed, Places DEF Leaves
  <2> QED
    BY <1>1, <2>2, <2>3 DEF Leaves
<1> QED
  BY <1>2, <1>3

\* A cancelled execution gives its claim back.
LEMMA ReleaseEffect ==
    ASSUME TInv, NEW w \in Workers, NEW reply \in Replies,
           ReleaseCancelledClaim(w, reply)
    PROVE  /\ worker[w].pc = "cancelling" /\ Leaves(w, {"idle"})
           /\ worker[w].thread = "none" => worker'[w] = Idle
           /\ OnlyRow(Job(w))
           /\ \/ row'[Job(w)] = row[Job(w)]
              \/ /\ row[Job(w)].status \in Running /\ row[Job(w)].token = Tok(w)
                 /\ row'[Job(w)].status \in {"cancelled", "paused", "queued"}
                 /\ row'[Job(w)].token = 0 /\ row'[Job(w)].lease = "null"
                 /\ row'[Job(w)].source = row[Job(w)].source
           /\ UNCHANGED <<final, registry, disk, installed, refused>>
<1>1. worker[w].pc = "cancelling" /\ End(w)
      /\ UNCHANGED <<final, registry, disk, installed, refused>>
  BY DEF ReleaseCancelledClaim, NoDiskChange
<1>2. Job(w) \in Jobs /\ row[Job(w)] \in Row
  BY <1>1, BusyFacts
<1> DEFINE q == row[Job(w)]
           s == CASE q.cancel -> "cancelled"
                  [] ~q.cancel /\ q.status = "pause_requested" -> "paused"
                  [] OTHER -> "queued"
<1>3. \/ row' = row
      \/ /\ q.status \in Running /\ q.token = Tok(w)
         /\ row' = [row EXCEPT ![Job(w)] = Released(q, s)]
  BY DEF ReleaseCancelledClaim
<1>4. s \in {"cancelled", "paused", "queued"} /\ s \in Statuses
  BY DEF Statuses
<1> HIDE DEF s
<1>5. /\ Released(q, s) \in Row /\ Released(q, s).status = s
      /\ Released(q, s).token = 0 /\ Released(q, s).lease = "null"
      /\ Released(q, s).source = q.source
  BY <1>2, <1>4, ReleasedRow
<1>6. Leaves(w, {"idle"}) /\ (worker[w].thread = "none" => worker'[w] = Idle)
  BY <1>1, EndWorker DEF TInv, Leaves
<1>7. /\ OnlyRow(Job(w))
      /\ \/ row'[Job(w)] = q
         \/ /\ q.status \in Running /\ q.token = Tok(w)
            /\ row'[Job(w)] = Released(q, s)
  BY <1>2, <1>3, <1>5 DEF TInv, TypeOK, OnlyRow
<1> QED
  BY <1>1, <1>4, <1>5, <1>6, <1>7

\* The death of a process, and a cancellation.
LEMMA CrashEffect ==
    ASSUME TInv, NEW w \in Workers, Crash(w)
    PROVE  /\ Only(w) /\ worker'[w] = Idle
           /\ UNCHANGED <<row, final, registry, disk, installed, refused>>
  BY Constructed DEF Crash, NoDiskChange, TInv, TypeOK, Only

LEMMA CancelEffect ==
    ASSUME TInv, NEW w \in Workers, NEW landed \in BOOLEAN, Cancel(w, landed)
    PROVE  LET t == Target[Job(w)]
               k == Tok(w)
               stops == /\ worker[w].pc \in {"journaled", "promoted", "registered"}
                        /\ ~Recovery(w) IN
           /\ Only(w) /\ Keeps(w) /\ worker[w].pc \notin {"idle", "cancelling", "cleaning"}
           /\ worker'[w].thread = IF worker[w].pc \in {"rollback", "removing"}
                                  THEN worker[w].pc ELSE worker[w].thread
           /\ worker'[w].pc = IF stops THEN "compensating" ELSE "cancelling"
           /\ UNCHANGED <<row, final, registry, installed, refused>>
           /\ ~landed => disk' = disk
           /\ OnlyRoot(k)
           /\ landed => /\ worker[w].pc = "guarded"
                        /\ disk'[k].receipt /\ disk'[k].prior = registry[Model[t]]
                        /\ disk'[k].had = (final[t] # Nothing)
                        /\ disk'[k].backup = disk[k].backup
<1> DEFINE t == Target[Job(w)]
           k == Tok(w)
<1>1. /\ worker[w].pc \notin {"idle", "cancelling", "cleaning"}
      /\ UNCHANGED <<row, final, registry, installed, refused>>
      /\ landed => worker[w].pc = "guarded"
  BY DEF Cancel
<1>2. k \in Tokens /\ registry[Model[t]] \in Token0 /\ (final[t] # Nothing) \in BOOLEAN
      /\ worker[w] \in Worker
  BY <1>1, BusyFacts
<1> DEFINE p == IF /\ worker[w].pc \in {"journaled", "promoted", "registered"}
                   /\ ~Recovery(w)
                THEN "compensating" ELSE "cancelling"
           th == IF worker[w].pc \in {"rollback", "removing"}
                 THEN worker[w].pc ELSE worker[w].thread
<1>3. worker' = [worker EXCEPT ![w].cancelled = TRUE, ![w].thread = th, ![w].pc = p]
  BY DEF Cancel
<1>4. p \in PCs /\ p \in {"compensating", "cancelling"}
      /\ th \in {"none", "backup", "rename", "rollback", "removing"}
  BY <1>2, Places DEF Worker
<1> HIDE DEF p, th
<1>5. Only(w) /\ Keeps(w) /\ worker'[w].pc = p /\ worker'[w].thread = th
  <2> DEFINE e == [worker[w] EXCEPT !.cancelled = TRUE, !.thread = th, !.pc = p]
  <2>1. worker' = [worker EXCEPT ![w] = e]
    BY <1>3
  <2>2. /\ e \in Worker /\ e.thread = th /\ e.pc = p /\ e.job = worker[w].job
        /\ e.token = worker[w].token /\ e.source = worker[w].source
    BY <1>2, <1>4 DEF Worker
  <2> HIDE DEF e
  <2>3. worker' \in [Workers -> Worker] /\ worker'[w] = e
        /\ \A v \in Workers: v # w => worker'[v] = worker[v]
    BY <2>1, <2>2 DEF TInv, TypeOK
  <2> QED
    BY <2>2, <2>3 DEF Only, Keeps
<1>6. CASE landed
  <2>1. disk' = [disk EXCEPT ![k].receipt = TRUE, ![k].had = final[t] # Nothing,
                             ![k].prior = registry[Model[t]]]
    BY <1>6 DEF Cancel, Journaled
  <2>2. /\ OnlyRoot(k) /\ disk'[k].receipt = TRUE /\ disk'[k].prior = registry[Model[t]]
        /\ disk'[k].had = (final[t] # Nothing) /\ disk'[k].backup = disk[k].backup
    BY <1>2, <2>1, JournalRoot
  <2> QED
    BY <1>1, <1>5, <1>6, <2>2 DEF p, th
<1>7. CASE ~landed
  <2>1. disk' = disk
    BY <1>7 DEF Cancel
  <2>2. OnlyRoot(k)
    BY <2>1 DEF TInv, TypeOK, OnlyRoot
  <2> QED
    BY <1>1, <1>5, <1>7, <2>1, <2>2 DEF p, th
<1> QED
  BY <1>6, <1>7

\* The rows when a publication is completed.
LEMMA CompletedRows ==
    ASSUME TInv, NEW j \in Jobs, NEW early
    PROVE  /\ Completed(j, early) \in [Jobs -> Row]
           /\ Completed(j, early)[j].status = "completed"
           /\ Completed(j, early)[j].token = 0 /\ Completed(j, early)[j].source = 0
           /\ Completed(j, early)[j].lease = "null"
           /\ \A i \in Jobs \ {j}:
                 \/ Completed(j, early)[i] = row[i]
                 \/ row[i].status \in Waiting /\ Completed(j, early)[i] = Superseded(row[i])
                 \/ /\ row[i].status \in Running
                    /\ Completed(j, early)[i].status = row[i].status
                    /\ Completed(j, early)[i].token = row[i].token
                    /\ Completed(j, early)[i].source = row[i].source
                    /\ Completed(j, early)[i].lease = row[i].lease
                    /\ row[i].cancel => Completed(j, early)[i].cancel
           /\ \A i \in Siblings(j):
                 row[i].status \in Running /\ Sees(i, early) =>
                    Completed(j, early)[i].cancel
<1> DEFINE d == [Released(row[j], "completed") EXCEPT !.source = 0]
           s(i) == [row[i] EXCEPT !.cancel = @ \/ Sees(i, early),
                                  !.later = @ \cup {j}]
           f(i) == CASE i = j -> [Released(row[i], "completed") EXCEPT !.source = 0]
                     [] i \in Siblings(j) /\ row[i].status \in Waiting ->
                          Superseded(row[i])
                     [] i \in Siblings(j) /\ row[i].status \in Running -> s(i)
                     [] OTHER -> row[i]
<1>0. \A i \in Jobs: row[i] \in Row
  BY DEF TInv, TypeOK
<1>1. Completed(j, early) = [i \in Jobs |-> f(i)]
  BY DEF Completed
<1>2. d \in Row /\ d.status = "completed" /\ d.token = 0 /\ d.source = 0
      /\ d.lease = "null"
  <2> DEFINE q == Released(row[j], "completed")
  <2>1. q \in Row /\ q.status = "completed" /\ q.token = 0 /\ q.lease = "null"
    BY <1>0, ReleasedRow DEF Statuses
  <2>2. d = [q EXCEPT !.source = 0]
    OBVIOUS
  <2> HIDE DEF q, d
  <2> QED
    BY <2>1, <2>2 DEF Row, Token0
<1>3. ASSUME NEW i \in Jobs
      PROVE  /\ s(i) \in Row /\ s(i).status = row[i].status
             /\ s(i).token = row[i].token /\ s(i).source = row[i].source
             /\ s(i).lease = row[i].lease /\ (row[i].cancel => s(i).cancel)
             /\ Sees(i, early) => s(i).cancel
  BY <1>0, ZenonT(60) DEF Row
<1>4. f(j) = d
  <2>1. j \notin Siblings(j)
    BY DEF Siblings
  <2> HIDE DEF s
  <2> QED
    BY <2>1
<1>5. ASSUME NEW i \in Jobs, i # j
      PROVE  /\ \/ f(i) = row[i]
                \/ row[i].status \in Waiting /\ f(i) = Superseded(row[i])
                \/ row[i].status \in Running /\ f(i) = s(i)
             /\ i \in Siblings(j) /\ row[i].status \in Running => f(i) = s(i)
  <2>1. row[i].status \in Running => row[i].status \notin Waiting
    BY DEF Running, Waiting
  <2> HIDE DEF s
  <2>2. f(i) = CASE i \in Siblings(j) /\ row[i].status \in Waiting ->
                          Superseded(row[i])
                 [] i \in Siblings(j) /\ row[i].status \in Running -> s(i)
                 [] OTHER -> row[i]
    BY <1>5, <2>1
  <2> HIDE DEF f
  <2> QED
    BY <2>1, <2>2
<1> HIDE DEF d, s, f
<1>6. \A i \in Jobs: Completed(j, early)[i] = f(i)
  BY <1>1
<1>7. \A i \in Jobs: f(i) \in Row
  BY <1>0, <1>2, <1>3, <1>4, <1>5, SupersededRow
<1>8. Completed(j, early) \in [Jobs -> Row]
  BY <1>1, <1>7
<1>9. \A i \in Siblings(j): i \in Jobs /\ i # j
  BY DEF Siblings
<1> QED
  BY <1>2, <1>3, <1>4, <1>5, <1>6, <1>8, <1>9

\* complete and the commit of the guard's transaction.
LEMMA CompleteEffect ==
    ASSUME TInv, NEW w \in Workers, NEW early,
           NEW reply \in Replies \cup {"raised"}, Complete(w, early, reply)
    PROVE  LET j == Job(w) IN
           /\ worker[w].pc = "registered"
           /\ Only(w) /\ Keeps(w) /\ worker'[w].thread = worker[w].thread
           /\ worker'[w].pc \in {"cleaning", "compensating", "deferring"}
           /\ UNCHANGED <<final, registry, disk>>
           /\ \/ /\ UNCHANGED <<row, installed, refused>>
                 /\ worker'[w].pc # "cleaning"
              \/ /\ row' = Completed(j, early) /\ worker'[w].pc # "compensating"
                 /\ installed' = [installed EXCEPT ![Target[j]] = Src(w)]
                 /\ refused' = refused \cup {row[i].token: i \in
                      {i \in Siblings(j): row[i].status \in Running
                                          /\ Sees(i, early)}}
<1> DEFINE p == CASE reply = "ok" -> "cleaning"
                  [] reply = "raised" /\ ~Recovery(w) -> "compensating"
                  [] OTHER -> "deferring"
<1>1. worker[w].pc = "registered" /\ UNCHANGED <<final, registry, disk>> /\ Goto(w, p)
  BY DEF Complete
<1>2. /\ p \in {"cleaning", "compensating", "deferring"} /\ p \in PCs
      /\ p = "cleaning" => reply = "ok"
      /\ p = "compensating" => reply = "raised"
  BY Places
<1> HIDE DEF p
<1>3. Only(w) /\ Keeps(w) /\ worker'[w].pc = p /\ worker'[w].thread = worker[w].thread
  BY <1>1, <1>2, GotoWorker DEF TInv
<1>4. CASE reply \in {"ok", "lost"}
  BY <1>1, <1>2, <1>3, <1>4 DEF Complete
<1>5. CASE reply \notin {"ok", "lost"}
  BY <1>1, <1>2, <1>3, <1>5 DEF Complete
<1> QED
  BY <1>4, <1>5

-----------------------------------------------------------------------------
(* Types, for every step. *)

\* The steps on the directories.
LEMMA DiskStepTypes ==
    ASSUME TInv, NEW w \in Workers, DiskStep(w), Watches
    PROVE  TypeOK' /\ Busy' /\ row' = row
<1> USE DEF OnlyRoot, OnlyTarget
<1>0. /\ row \in [Jobs -> Row] /\ disk \in [Tokens -> Disk] /\ final \in [Targets -> Dir]
      /\ registry \in [Models -> Token0] /\ installed \in [Targets -> Token0]
      /\ refused \subseteq Tokens
  BY DEF TInv, TypeOK
<1>1. CASE PromoteBackup(w)
  <2>1. worker[w].thread # "none"
    BY <1>1 DEF PromoteBackup
  <2> QED
    BY <1>0, <1>1, <2>1, PromoteBackupEffect, ExecutionTypes
<1>2. CASE CleanupCommitted(w)
  BY <1>0, <1>2, CleanupCommittedEffect, ExecutionTypes
<1>3. ASSUME NEW ok \in BOOLEAN, DownloadModel(w, ok)
      PROVE  TypeOK' /\ Busy' /\ row' = row
  BY <1>0, <1>3, DownloadModelEffect, ExecutionTypes
<1>4. ASSUME NEW ok \in BOOLEAN, CreateJournal(w, ok)
      PROVE  TypeOK' /\ Busy' /\ row' = row
  BY <1>0, <1>4, CreateJournalEffect, ExecutionTypes
<1>5. ASSUME NEW ok \in BOOLEAN, PromoteRename(w, ok)
      PROVE  TypeOK' /\ Busy' /\ row' = row
  <2>1. worker[w].thread # "none"
    BY <1>5 DEF PromoteRename
  <2> QED
    BY <1>0, <1>5, <2>1, PromoteRenameEffect, ExecutionTypes
<1>6. ASSUME NEW ok \in BOOLEAN, ReplaceRegistryEntry(w, ok)
      PROVE  TypeOK' /\ Busy' /\ row' = row
  BY <1>0, <1>6, ReplaceRegistryEffect, ExecutionTypes
<1>7. ASSUME NEW ok \in BOOLEAN, CompensateRegistry(w, ok)
      PROVE  TypeOK' /\ Busy' /\ row' = row
  BY <1>0, <1>7, CompensateRegistryEffect, ExecutionTypes
<1>8. ASSUME NEW ok \in BOOLEAN, RollbackFilesystem(w, ok)
      PROVE  TypeOK' /\ Busy' /\ row' = row
  BY <1>0, <1>8, RollbackEffect, ExecutionTypes
<1>9. ASSUME NEW ok \in BOOLEAN, RemoveStageRoot(w, ok)
      PROVE  TypeOK' /\ Busy' /\ row' = row
  BY <1>0, <1>9, RemoveStageRootEffect, ExecutionTypes
<1>10. ASSUME NEW ok \in BOOLEAN, StrayRollback(w, ok)
       PROVE  TypeOK' /\ Busy' /\ row' = row
  <2>1. /\ worker[w].thread # "none" /\ Only(w) /\ (worker'[w] = Idle \/ Keeps(w))
        /\ disk' \in [Tokens -> Disk] /\ final' \in [Targets -> Dir]
        /\ registry' \in [Models -> Token0] /\ UNCHANGED <<row, installed, refused>>
    BY <1>10, StrayRollbackEffect
  <2> QED
    BY <1>0, <2>1, ExecutionTypes
<1>11. ASSUME NEW ok \in BOOLEAN, StrayRemoval(w, ok)
       PROVE  TypeOK' /\ Busy' /\ row' = row
  <2>1. /\ worker[w].thread # "none" /\ Only(w) /\ (worker'[w] = Idle \/ Keeps(w))
        /\ disk' \in [Tokens -> Disk]
        /\ UNCHANGED <<row, final, registry, installed, refused>>
    BY <1>11, StrayRemovalEffect
  <2> QED
    BY <1>0, <2>1, ExecutionTypes
<1> QED
  BY <1>1, <1>2, <1>3, <1>4, <1>5, <1>6, <1>7, <1>8, <1>9, <1>10, <1>11 DEF DiskStep

\* The transactions.
LEMMA RowStepTypes ==
    ASSUME TInv, NEW w \in Workers, RowStep(w), Watches
    PROVE  TypeOK' /\ Busy'
<1>0. /\ row \in [Jobs -> Row] /\ disk \in [Tokens -> Disk] /\ final \in [Targets -> Dir]
      /\ registry \in [Models -> Token0] /\ installed \in [Targets -> Token0]
      /\ refused \subseteq Tokens
  BY DEF TInv, TypeOK
<1>1. ASSUME disk' \in {disk, StageRemoved(Tok(w))}, worker[w].pc # "idle"
      PROVE  disk' \in [Tokens -> Disk]
  BY <1>0, <1>1, BusyFacts, StageRemovedRoot DEF OnlyRoot
<1>2. ASSUME NEW early, NEW reply \in Replies, LeaseIsValid(w, early, reply)
      PROVE  TypeOK' /\ Busy'
  BY <1>0, <1>1, <1>2, LeaseIsValidEffect, ExecutionTypes DEF Leaves, OnlyRow
<1>3. ASSUME NEW reply \in Replies, EnterGuard(w, reply)
      PROVE  TypeOK' /\ Busy'
  BY <1>0, <1>1, <1>3, EnterGuardEffect, ExecutionTypes DEF Leaves
<1>4. ASSUME NEW reply \in Replies, FailClaim(w, reply)
      PROVE  TypeOK' /\ Busy'
  BY <1>0, <1>4, FailClaimEffect, ExecutionTypes DEF Leaves, OnlyRow
<1>5. ASSUME NEW reply \in Replies, AbortForRetry(w, reply)
      PROVE  TypeOK' /\ Busy'
  BY <1>0, <1>5, AbortEffect, ExecutionTypes DEF Leaves, OnlyRow
<1>6. ASSUME NEW reply \in Replies, Defer(w, reply)
      PROVE  TypeOK' /\ Busy'
  BY <1>0, <1>6, DeferEffect, ExecutionTypes DEF Leaves, OnlyRow
<1>7. ASSUME NEW reply \in Replies, Recover(w, reply)
      PROVE  TypeOK' /\ Busy'
  BY <1>0, <1>7, RecoverEffect, ExecutionTypes DEF Leaves
<1>8. ASSUME NEW reply \in Replies, ReleaseCancelledClaim(w, reply)
      PROVE  TypeOK' /\ Busy'
  BY <1>0, <1>8, ReleaseEffect, ExecutionTypes DEF Leaves, OnlyRow
<1>9. ASSUME NEW early, NEW reply \in Replies \cup {"raised"}, Complete(w, early, reply)
      PROVE  TypeOK' /\ Busy'
  <2>1. worker[w].pc = "registered" /\ Only(w) /\ Keeps(w)
        /\ UNCHANGED <<final, registry, disk>>
    BY <1>9, CompleteEffect
  <2>2. Job(w) \in Jobs /\ Src(w) \in Token0
    BY <2>1, BusyFacts
  <2>3. /\ row' \in [Jobs -> Row] /\ installed' \in [Targets -> Token0]
        /\ refused' \subseteq Tokens
    <3>1. CASE UNCHANGED <<row, installed, refused>>
      BY <1>0, <3>1
    <3>2. CASE /\ row' = Completed(Job(w), early)
               /\ installed' = [installed EXCEPT ![Target[Job(w)]] = Src(w)]
               /\ refused' = refused \cup {row[i].token: i \in
                    {i \in Siblings(Job(w)): row[i].status \in Running
                                             /\ Sees(i, early)}}
      <4>1. row' \in [Jobs -> Row]
        BY <2>2, <3>2, CompletedRows
      <4>2. \A i \in Siblings(Job(w)): row[i].status \in Running => row[i].token \in Tokens
        BY <1>0 DEF Siblings, TInv, Named, Row, Token0
      <4>3. refused' \subseteq Tokens
        BY <1>0, <3>2, <4>2
      <4> QED
        BY <1>0, <2>2, <3>2, <4>1, <4>3
    <3> QED
      BY <1>9, <3>1, <3>2, CompleteEffect
  <2> QED
    BY <1>0, <2>1, <2>3, ExecutionTypes
<1>10. CASE Heartbeat(w)
  <2>1. /\ worker[w].pc # "idle" /\ row' \in [Jobs -> Row]
        /\ UNCHANGED <<worker, final, registry, disk, installed, refused>>
    BY <1>10, HeartbeatEffect DEF OnlyRow
  <2>2. Only(w) /\ Keeps(w)
    BY <2>1 DEF Only, Keeps, TInv, TypeOK
  <2> QED
    BY <1>0, <2>1, <2>2, ExecutionTypes
<1> QED
  BY <1>2, <1>3, <1>4, <1>5, <1>6, <1>7, <1>8, <1>9, <1>10 DEF RowStep

\* The histories, for every step.
LEMMA WatchesStep ==
    ASSUME TInv, [Next]_vars
    PROVE  Watches
<1>0. doubled \subseteq Targets /\ overrun \subseteq Targets
  BY DEF TInv, TypeOK
<1>1. ASSUME UNCHANGED histories PROVE Watches
  BY <1>0, <1>1 DEF histories, Watches
<1>2. ASSUME NEW w \in Workers, worker[w].pc # "idle" \/ worker[w].thread # "none",
             \/ NoteLate(Job(w)) /\ overrun' = overrun
             \/ NoteStray(w) /\ doubled' = doubled
      PROVE  Watches
  <2>1. Target[Job(w)] \in Targets
    BY <1>2, BusyFacts
  <2> QED
    BY <1>0, <1>2, <2>1 DEF NoteLate, NoteStray, Watches
<1>3. ASSUME NEW j \in Jobs, Request(j) PROVE Watches
  BY <1>1, <1>3 DEF Request, CreateJob, ImportLegacyJob, CancelJob, PauseJob,
     ResumeJob, CleanupFinishedJob, LeaseExpires, histories
<1>4. ASSUME NEW w \in Workers, Claim(w) PROVE Watches
  BY <1>1, <1>4 DEF Claim, ClaimNothing, ClaimNext, ClaimRecovery, Issue, histories
<1>5. ASSUME NEW w \in Workers, DiskStep(w) PROVE Watches
  <2>1. CASE \/ PromoteBackup(w)
             \/ \E ok \in BOOLEAN: PromoteRename(w, ok) \/ StrayRollback(w, ok)
    BY <1>2, <2>1 DEF PromoteBackup, PromoteRename, StrayRollback
  <2>2. CASE CleanupCommitted(w)
    BY <1>1, <2>2 DEF CleanupCommitted, histories
  <2>3. ASSUME NEW ok \in BOOLEAN,
               \/ DownloadModel(w, ok) \/ CreateJournal(w, ok)
               \/ ReplaceRegistryEntry(w, ok) \/ CompensateRegistry(w, ok)
               \/ RollbackFilesystem(w, ok) \/ RemoveStageRoot(w, ok)
               \/ StrayRemoval(w, ok)
        PROVE  Watches
    BY <1>1, <2>3 DEF DownloadModel, CreateJournal, ReplaceRegistryEntry,
       CompensateRegistry, RollbackFilesystem, RemoveStageRoot, StrayRemoval, histories
  <2> QED
    BY <1>5, <2>1, <2>2, <2>3 DEF DiskStep
<1>6. ASSUME NEW w \in Workers, RowStep(w) PROVE Watches
  <2>1. CASE Heartbeat(w)
    BY <1>2, <2>1 DEF Heartbeat
  <2>2. ASSUME NEW early, NEW reply, LeaseIsValid(w, early, reply) PROVE Watches
    BY <1>2, <2>2 DEF LeaseIsValid
  <2>3. ASSUME NEW early, NEW reply, Complete(w, early, reply) PROVE Watches
    BY <1>1, <2>3 DEF Complete, histories
  <2>4. ASSUME NEW reply,
               \/ EnterGuard(w, reply) \/ FailClaim(w, reply) \/ AbortForRetry(w, reply)
               \/ Defer(w, reply) \/ Recover(w, reply) \/ ReleaseCancelledClaim(w, reply)
        PROVE  Watches
    BY <1>1, <2>4 DEF EnterGuard, FailClaim, AbortForRetry, Defer, Recover,
       ReleaseCancelledClaim, histories
  <2> QED
    BY <1>6, <2>1, <2>2, <2>3, <2>4 DEF RowStep
<1>7. ASSUME NEW w \in Workers, \/ Crash(w) \/ \E landed \in BOOLEAN: Cancel(w, landed)
      PROVE  Watches
  BY <1>1, <1>7 DEF Crash, Cancel, histories
<1>8. CASE UNCHANGED vars
  BY <1>1, <1>8 DEF vars, histories
<1> QED
  BY <1>3, <1>4, <1>5, <1>6, <1>7, <1>8 DEF Next, WorkerStep

\* Every step.
LEMMA TypesStep ==
    ASSUME TInv, [Next]_vars
    PROVE  TypeOK' /\ Busy'
<1>0. Watches
  BY WatchesStep
<1>1. ASSUME NEW w \in Workers, Crash(w)
      PROVE  TypeOK' /\ Busy'
  <2>1. Only(w) /\ worker'[w] = Idle
        /\ UNCHANGED <<row, final, registry, disk, installed, refused>>
    BY <1>1, CrashEffect
  <2>2. Busy'
    BY <2>1, BusyKept DEF TInv
  <2> QED
    BY <1>0, <2>1, <2>2 DEF TInv, TypeOK, Only, Watches
<1>2. ASSUME NEW w \in Workers, NEW landed \in BOOLEAN, Cancel(w, landed)
      PROVE  TypeOK' /\ Busy'
  <2>1. /\ worker[w].pc # "idle" /\ Only(w) /\ Keeps(w)
        /\ UNCHANGED <<row, final, registry, installed, refused>>
        /\ disk' \in [Tokens -> Disk]
    BY <1>2, CancelEffect DEF OnlyRoot
  <2> QED
    BY <1>0, <2>1, ExecutionTypes DEF TInv, TypeOK
<1>3. CASE UNCHANGED vars
  BY <1>3 DEF vars, TInv, TypeOK, Busy
<1> QED
  BY <1>0, <1>1, <1>2, <1>3, RequestTypes, ClaimTypes, DiskStepTypes, RowStepTypes
  DEF Next, WorkerStep

-----------------------------------------------------------------------------
(* What a step does to the rows. *)

\* The row keeps its owner and its place in the life of a job, and its lease
\* is not renewed ...
KeptRow(j) ==
    /\ row'[j].status \in Running <=> row[j].status \in Running
    /\ row'[j].status = "promoting" <=> row[j].status = "promoting"
    /\ row[j].status = "completed" => row'[j].status = "completed"
    /\ row[j].status \in Running /\ Requested(row[j]) => Requested(row'[j])
    /\ row'[j].token = row[j].token /\ row'[j].source = row[j].source
StillRow(j) == KeptRow(j) /\ (row'[j].lease = "live" => row[j].lease = "live")

\* ... or nobody owns it any longer ...
DroppedRow(j) ==
    row'[j].token = 0 /\ row'[j].source = 0 /\ row'[j].status \notin Active

\* ... or it waits for a recovery.
DeferredRow(j) ==
    /\ Promoting(j) /\ row'[j].status = "promoting"
    /\ row'[j].token = 0 /\ row'[j].source # 0

\* A row that is not active has no owner.
LEMMA Ownerless ==
    ASSUME RowShape, NEW j \in Jobs, row[j].status \notin Active
    PROVE  row[j].token = 0 /\ row[j].source = 0
  BY DEF RowShape, Active, Promoting

\* A row that does not change is kept.
LEMMA SameRow == ASSUME NEW j \in Jobs, row'[j] = row[j] PROVE StillRow(j)
  BY DEF StillRow, KeptRow

\* The statuses are what their names say.
LEMMA StatusSets ==
    /\ \A s \in Running: s \in Active /\ s \notin Waiting /\ s # "completed"
                         /\ s # "promoting" /\ s \notin Terminal
    /\ \A s \in Waiting \cup Terminal \cup {"absent", "deleted"}: s \notin Active
    /\ "promoting" \in Active /\ "promoting" \notin Running
    /\ "running" \in Running /\ "pause_requested" \in Running
    /\ Waiting = {"queued", "paused"} /\ Terminal = {"completed", "failed", "cancelled"}
    /\ Active = {"running", "pause_requested", "promoting"}
  BY DEF Running, Waiting, Terminal, Active

\* A request keeps or drops rows, and marks the downloads it refuses.
LEMMA RequestEffect ==
    ASSUME TInv, RowShape, NEW j \in Jobs, Request(j)
    PROVE  /\ \A i \in Jobs: StillRow(i) \/ (DroppedRow(i) /\ ~Promoting(i))
           /\ \A i \in Jobs: row[i].status = "completed" =>
                 StillRow(i) \/ \A w \in Workers: worker[w].job # i
           /\ UNCHANGED <<worker, final, registry, disk, installed>>
           /\ \A x \in refused': x \in refused \/
                 \E i \in Jobs: /\ row[i].token = x /\ row[i].status \in Running
                                /\ x # 0 /\ Requested(row'[i])
<1>0. row \in [Jobs -> Row] /\ row[j] \in Row
  BY DEF TInv, TypeOK
<1>1. UNCHANGED <<worker, final, registry, disk, installed>>
  BY DEF Request, CreateJob, ImportLegacyJob, CancelJob, PauseJob, ResumeJob,
         CleanupFinishedJob, LeaseExpires, NoDiskChange
<1> DEFINE Marked(x) == \E i \in Jobs: /\ row[i].token = x /\ row[i].status \in Running
                                       /\ x # 0 /\ Requested(row'[i])
<1>2. ASSUME CreateJob(j) \/ ResumeJob(j) \/
             \E status \in Waiting, later \in SUBSET Jobs: ImportLegacyJob(j, status, later)
      PROVE  /\ \A i \in Jobs: i # j => row'[i] = row[i]
             /\ DroppedRow(j) /\ ~Promoting(j) /\ row[j].status # "completed"
             /\ refused' = refused
  <2>1. /\ \A i \in Jobs: i # j => row'[i] = row[i]
        /\ row'[j].status \in Waiting /\ row'[j].token = row[j].token
        /\ row'[j].source = row[j].source /\ row[j].status \in {"absent", "paused"}
        /\ refused' = refused
    <3>1. CASE CreateJob(j) \/ ResumeJob(j)
      BY <1>0, <3>1, StatusSets DEF CreateJob, ResumeJob, Row
    <3>2. ASSUME NEW status \in Waiting, NEW later \in SUBSET Jobs,
                 ImportLegacyJob(j, status, later)
          PROVE  /\ \A i \in Jobs: i # j => row'[i] = row[i]
                 /\ row'[j].status \in Waiting /\ row'[j].token = row[j].token
                 /\ row'[j].source = row[j].source /\ row[j].status \in {"absent", "paused"}
                 /\ refused' = refused
      BY <1>0, <3>2 DEF ImportLegacyJob, Row
    <3> QED
      BY <1>2, <3>1, <3>2
  <2>2. row[j].token = 0 /\ row[j].source = 0
    BY <2>1, Ownerless, StatusSets
  <2> QED
    BY <2>1, <2>2, StatusSets DEF DroppedRow, Promoting
<1>3. ASSUME CancelJob(j)
      PROVE  /\ \A i \in Jobs: i # j => row'[i] = row[i]
             /\ StillRow(j) \/ (DroppedRow(j) /\ ~Promoting(j))
             /\ row[j].status # "completed"
             /\ \A x \in refused': x \in refused \/ Marked(x)
  <2>0. row[j].status \in Waiting \cup Running
        /\ refused' = refused \cup ({row[j].token} \ {0})
    BY <1>3 DEF CancelJob
  <2>1. CASE row[j].token # 0
    <3> DEFINE r == [row[j] EXCEPT !.cancel = TRUE]
    <3>1. row' = [row EXCEPT ![j] = r]
      BY <1>3, <2>1 DEF CancelJob
    <3>2. r.cancel /\ r.status = row[j].status /\ r.token = row[j].token
          /\ r.source = row[j].source /\ r.lease = row[j].lease
      BY <1>0 DEF Row
    <3> HIDE DEF r
    <3>3. row'[j] = r /\ \A i \in Jobs: i # j => row'[i] = row[i]
      BY <1>0, <3>1
    <3>4. StillRow(j) /\ Requested(row'[j])
      BY <3>2, <3>3 DEF StillRow, KeptRow, Requested
    <3>5. row[j].status \in Running
      BY <2>0, <2>1, Ownerless, StatusSets
    <3>6. Marked(row[j].token)
      BY <2>1, <3>4, <3>5
    <3> QED
      BY <2>0, <3>3, <3>4, <3>5, <3>6, StatusSets
  <2>2. CASE row[j].token = 0
    <3> DEFINE r == [row[j] EXCEPT !.cancel = TRUE, !.status = "cancelled"]
    <3>1. row' = [row EXCEPT ![j] = r]
      BY <1>3, <2>2 DEF CancelJob
    <3>2. r.status = "cancelled" /\ r.token = row[j].token /\ r.source = row[j].source
      BY <1>0 DEF Row
    <3> HIDE DEF r
    <3>3. row'[j] = r /\ \A i \in Jobs: i # j => row'[i] = row[i]
      BY <1>0, <3>1
    <3>4. row[j].status \in Waiting
      BY <2>0, <2>2 DEF TInv, Named
    <3>5. row[j].source = 0 /\ ~Promoting(j) /\ row[j].status # "completed"
      BY <3>4, Ownerless, StatusSets DEF Promoting
    <3>6. DroppedRow(j)
      BY <2>2, <3>2, <3>3, <3>5, StatusSets DEF DroppedRow
    <3> QED
      BY <2>0, <2>2, <3>3, <3>5, <3>6
  <2> QED
    BY <2>1, <2>2
<1>4. ASSUME PauseJob(j)
      PROVE  /\ \A i \in Jobs: i # j => row'[i] = row[i]
             /\ StillRow(j) \/ (DroppedRow(j) /\ ~Promoting(j))
             /\ row[j].status # "completed"
             /\ \A x \in refused': x \in refused \/ Marked(x)
  <2>0. row[j].status \in {"queued", "running"}
        /\ refused' = refused \cup ({row[j].token} \ {0})
    BY <1>4 DEF PauseJob
  <2>1. CASE row[j].token # 0
    <3>1. row' = [row EXCEPT ![j].status = "pause_requested"]
      BY <1>4, <2>1 DEF PauseJob
    <3>2. /\ row'[j].status = "pause_requested" /\ row'[j].token = row[j].token
          /\ row'[j].source = row[j].source /\ row'[j].lease = row[j].lease
          /\ \A i \in Jobs: i # j => row'[i] = row[i]
      BY <1>0, <3>1 DEF Row
    <3>3. row[j].status = "running"
      BY <2>0, <2>1, Ownerless, StatusSets
    <3>4. StillRow(j) /\ Requested(row'[j])
      BY <3>2, <3>3, StatusSets DEF StillRow, KeptRow, Requested
    <3>5. Marked(row[j].token)
      BY <2>1, <3>3, <3>4, StatusSets
    <3> QED
      BY <2>0, <3>2, <3>3, <3>4, <3>5
  <2>2. CASE row[j].token = 0
    <3>1. row' = [row EXCEPT ![j].status = "paused"]
      BY <1>4, <2>2 DEF PauseJob
    <3>2. /\ row'[j].status = "paused" /\ row'[j].token = row[j].token
          /\ row'[j].source = row[j].source
          /\ \A i \in Jobs: i # j => row'[i] = row[i]
      BY <1>0, <3>1 DEF Row
    <3>3. row[j].source = 0 /\ ~Promoting(j)
      BY <2>0 DEF RowShape, Promoting
    <3>4. DroppedRow(j)
      BY <2>2, <3>2, <3>3, StatusSets DEF DroppedRow
    <3> QED
      BY <2>0, <2>2, <3>2, <3>3, <3>4
  <2> QED
    BY <2>1, <2>2
<1>5. ASSUME CleanupFinishedJob(j)
      PROVE  /\ \A i \in Jobs: i # j => StillRow(i)
             /\ DroppedRow(j) /\ ~Promoting(j)
             /\ \A w \in Workers: worker[w].job # j
             /\ refused' = refused
  <2>1. /\ row[j].status \in Terminal /\ refused' = refused
        /\ \A w \in Workers: worker[w].job # j
        /\ row' = [i \in Jobs |-> IF i = j THEN [Absent EXCEPT !.status = "deleted"]
                                  ELSE [row[i] EXCEPT !.later = @ \ {j}]]
    BY <1>5 DEF CleanupFinishedJob
  <2>2. /\ row'[j].status = "deleted" /\ row'[j].token = 0 /\ row'[j].source = 0
    BY <2>1 DEF Absent
  <2>3. ASSUME NEW i \in Jobs, i # j PROVE StillRow(i)
    <3>1. row'[i] = [row[i] EXCEPT !.later = @ \ {j}] /\ row[i] \in Row
      BY <1>0, <2>1, <2>3
    <3>2. /\ row'[i].status = row[i].status /\ row'[i].token = row[i].token
          /\ row'[i].source = row[i].source /\ row'[i].lease = row[i].lease
          /\ row'[i].cancel = row[i].cancel
      BY <3>1 DEF Row
    <3> QED
      BY <3>2 DEF StillRow, KeptRow, Requested
  <2> QED
    BY <2>1, <2>2, <2>3, StatusSets DEF DroppedRow, Promoting
<1>6. ASSUME LeaseExpires(j)
      PROVE  /\ \A i \in Jobs: StillRow(i)
             /\ refused' = refused
  <2>1. row' = [row EXCEPT ![j].lease = "expired"] /\ refused' = refused
    BY <1>6 DEF LeaseExpires
  <2>2. /\ \A i \in Jobs: i # j => row'[i] = row[i]
        /\ row'[j].status = row[j].status /\ row'[j].token = row[j].token
        /\ row'[j].source = row[j].source /\ row'[j].lease = "expired"
        /\ row'[j].cancel = row[j].cancel
    BY <1>0, <2>1 DEF Row
  <2> QED
    BY <2>1, <2>2 DEF StillRow, KeptRow, Requested
<1> HIDE DEF Marked
<1>7. /\ \A i \in Jobs: StillRow(i) \/ (DroppedRow(i) /\ ~Promoting(i))
      /\ \A i \in Jobs: row[i].status = "completed" =>
            StillRow(i) \/ \A w \in Workers: worker[w].job # i
      /\ \A x \in refused': x \in refused \/ Marked(x)
  <2>1. CASE CreateJob(j) \/ ResumeJob(j) \/
             \E status \in Waiting, later \in SUBSET Jobs: ImportLegacyJob(j, status, later)
    BY <1>2, <2>1, SameRow
  <2>2. CASE CancelJob(j)
    BY <1>3, <2>2, SameRow
  <2>3. CASE PauseJob(j)
    BY <1>4, <2>3, SameRow
  <2>4. CASE CleanupFinishedJob(j)
    BY <1>5, <2>4
  <2>5. CASE LeaseExpires(j)
    BY <1>6, <2>5
  <2> QED
    BY <2>1, <2>2, <2>3, <2>4, <2>5 DEF Request
<1> QED
  BY <1>1, <1>7 DEF Marked

\* A poll that claims nothing keeps or drops rows.
LEMMA ClaimNothingEffect ==
    ASSUME TInv, RowShape, NEW w \in Workers, ClaimNothing(w)
    PROVE  /\ \A i \in Jobs: \/ StillRow(i)
                             \/ DroppedRow(i) /\ row[i].status \in Running
           /\ UNCHANGED <<worker, final, registry, disk, installed, refused>>
<1>1. row' = Swept({}) /\ UNCHANGED <<worker, final, registry, disk, installed, refused>>
  BY DEF ClaimNothing, NoDiskChange
<1>2. ASSUME NEW i \in Jobs
      PROVE  StillRow(i) \/ (DroppedRow(i) /\ row[i].status \in Running)
  <2>1. row[i] \in Row
    BY DEF TInv, TypeOK
  <2>2. CASE row'[i] = row[i]
    BY <2>2, SameRow
  <2>3. CASE Lapsed(row[i]) /\ row'[i] = FailOrRetry(row[i])
    BY <2>1, <2>3, FailOrRetryRow, StatusSets DEF Lapsed, DroppedRow
  <2> QED
    BY <1>1, <2>2, <2>3, SweptRows DEF TInv
<1> QED
  BY <1>1, <1>2

\* What both claims do besides the rows.
Issued(w, j, source) ==
    /\ NewToken \in Tokens /\ NewToken \notin Used
    /\ worker[w] = Idle /\ Only(w) /\ source # 0
    /\ worker' = worker \/ Starts(w, j, NewToken, source)
    /\ disk' = [disk EXCEPT ![NewToken] = Clean]
    /\ refused' = refused \ {NewToken}
    /\ UNCHANGED <<final, registry, installed>>

\* claim_next: one row gets a new owner, others are kept or dropped.
LEMMA ClaimNextEffect ==
    ASSUME TInv, RowShape, NEW w \in Workers, NEW j \in Jobs, NEW late \in SUBSET Overdue,
           NEW reply \in Replies, ClaimNext(w, j, late, reply)
    PROVE  /\ Issued(w, j, NewToken)
           /\ \A i \in Jobs \ {j}:
                 \/ StillRow(i)
                 \/ /\ DroppedRow(i) /\ ~Promoting(i) /\ row[i].status # "completed"
           /\ row[j].status # "promoting" /\ row[j].status # "completed"
           /\ row'[j].status = "running" /\ row'[j].token = NewToken
           /\ row'[j].source = 0 /\ row'[j].lease = "live"
           /\ \A i \in Siblings(j): row'[i].status # "promoting" /\ ~Held(row'[i])
<1> DEFINE rows == Swept(late)
           f(i) == CASE i = j -> [rows[i] EXCEPT
                                      !.status = "running",
                                      !.attempts = IF @ < MaxAttempts THEN @ + 1 ELSE @,
                                      !.token = NewToken,
                                      !.lease = "live"]
                       [] i \in Siblings(j) /\ rows[i].status \in Waiting ->
                            Superseded(rows[i])
                       [] OTHER -> rows[i]
<1>1. /\ worker[w] = Idle /\ rows[j].status = "queued" /\ ~Blocked(rows, j)
      /\ Issue(w, j, 0, reply)
  BY DEF ClaimNext
<1>2. row' = [i \in Jobs |-> f(i)]
  BY DEF ClaimNext
<1>3. /\ NewToken \in Tokens /\ NewToken \notin Used /\ Only(w)
      /\ worker' = worker \/ Starts(w, j, NewToken, NewToken)
  BY <1>1, IssueWorker DEF TInv, Token0
<1>4. Issued(w, j, NewToken)
  <2>1. NewToken # 0
    BY <1>3, DownloadAssumption
  <2> QED
    BY <1>1, <1>3, <2>1 DEF Issue, Issued
<1>5. rows \in [Jobs -> Row]
  BY SweptRows DEF TInv
<1>6. ASSUME NEW i \in Jobs
      PROVE  \/ rows[i] = row[i]
             \/ /\ row[i].status \in Running /\ rows[i].status \notin Active
                /\ rows[i].token = 0 /\ rows[i].source = 0
  <2>1. row[i] \in Row
    BY DEF TInv, TypeOK
  <2>2. CASE Lapsed(row[i]) /\ rows[i] = FailOrRetry(row[i])
    BY <2>1, <2>2, FailOrRetryRow, StatusSets DEF Lapsed
  <2> QED
    BY <2>2, SweptRows DEF TInv
<1> HIDE DEF rows
<1>7. j \notin Siblings(j)
  BY DEF Siblings
<1>8. /\ f(j).status = "running" /\ f(j).token = NewToken
      /\ f(j).lease = "live" /\ f(j).source = rows[j].source
  <2> DEFINE q == [rows[j] EXCEPT
                      !.status = "running",
                      !.attempts = IF @ < MaxAttempts THEN @ + 1 ELSE @,
                      !.token = NewToken,
                      !.lease = "live"]
  <2>1. f(j) = q
    BY <1>7
  <2>2. rows[j] \in Row
    BY <1>5
  <2>3. /\ q.status = "running" /\ q.token = NewToken /\ q.lease = "live"
        /\ q.source = rows[j].source
    BY <1>3, <2>2, ClaimedRow, ZenonT(60)
  <2> HIDE DEF f, q
  <2> QED
    BY <2>1, <2>3
<1>9. ASSUME NEW i \in Jobs, i # j
      PROVE  IF i \in Siblings(j) /\ rows[i].status \in Waiting
             THEN f(i) = Superseded(rows[i]) ELSE f(i) = rows[i]
  BY <1>9
<1> HIDE DEF f
<1>10. \A i \in Jobs: row'[i] = f(i)
  BY <1>2
<1>11. ASSUME NEW i \in Jobs, i # j
       PROVE  \/ StillRow(i)
              \/ DroppedRow(i) /\ ~Promoting(i) /\ row[i].status # "completed"
  <2>1. CASE i \in Siblings(j) /\ rows[i].status \in Waiting
    <3>1. row'[i] = Superseded(rows[i]) /\ rows[i] \in Row
      BY <1>5, <1>9, <1>10, <1>11, <2>1
    <3>2. rows[i].source = 0 /\ row[i].status # "promoting" /\ row[i].status # "completed"
      BY <1>6, <2>1, Ownerless, StatusSets
    <3> QED
      BY <3>1, <3>2, SupersededRow, StatusSets DEF DroppedRow, Promoting
  <2>2. CASE ~(i \in Siblings(j) /\ rows[i].status \in Waiting)
    <3>1. row'[i] = rows[i]
      BY <1>9, <1>10, <1>11, <2>2
    <3> QED
      BY <1>6, <3>1, SameRow, StatusSets DEF DroppedRow, Promoting
  <2> QED
    BY <2>1, <2>2
<1>12. /\ row[j].status # "promoting" /\ row[j].status # "completed"
       /\ rows[j].source = 0
  BY <1>1, <1>6, Ownerless, StatusSets
<1>13. ASSUME NEW i \in Siblings(j)
       PROVE  row'[i].status # "promoting" /\ ~Held(row'[i])
  <2>1. i \in Jobs /\ i # j
    BY DEF Siblings
  <2>2. rows[i].status # "promoting" /\ ~(rows[i].status \in Running /\ rows[i].lease = "live")
    BY <1>1 DEF Blocked
  <2>3. CASE rows[i].status \in Waiting
    <3>1. row'[i] = Superseded(rows[i]) /\ rows[i] \in Row
      BY <1>5, <1>9, <1>10, <2>1, <2>3
    <3> QED
      BY <3>1, SupersededRow, StatusSets DEF Held
  <2>4. CASE rows[i].status \notin Waiting
    <3>1. row'[i] = rows[i]
      BY <1>9, <1>10, <2>1, <2>4
    <3> QED
      BY <2>2, <3>1 DEF Held
  <2> QED
    BY <2>3, <2>4
<1> QED
  BY <1>4, <1>8, <1>10, <1>11, <1>12, <1>13

\* claim_expired_promotion_for_recovery: the promotion gets a new owner.
LEMMA ClaimRecoveryEffect ==
    ASSUME TInv, RowShape, NEW w \in Workers, NEW j \in Jobs, NEW reply \in Replies,
           ClaimRecovery(w, j, reply)
    PROVE  /\ Issued(w, j, Root(j))
           /\ \A i \in Jobs \ {j}: row'[i] = row[i]
           /\ Promoting(j) /\ ~Locked(Target[j]) /\ row'[j].status = "promoting"
           /\ row'[j].token = NewToken /\ row'[j].source = Root(j)
<1>0. row \in [Jobs -> Row] /\ row[j] \in Row
  BY DEF TInv, TypeOK
<1>1. /\ worker[w] = Idle /\ Interrupted(row[j]) /\ ~Locked(Target[j])
      /\ Issue(w, j, Root(j), reply)
      /\ row' = [row EXCEPT ![j].source = Root(j), ![j].token = NewToken,
                            ![j].lease = "live"]
  BY DEF ClaimRecovery, Root
<1>2. Promoting(j) /\ Root(j) # 0 /\ Root(j) \in Token0 /\ Root(j) \in Used
  <2>1. Promoting(j) /\ Root(j) # 0
    BY <1>1, StatusSets DEF Interrupted, Promoting, RowShape
  <2>2. Root(j) \in Token0
    BY <1>0 DEF Root, Row
  <2>3. Root(j) \in Used
    BY UsedTokens DEF Root
  <2> QED
    BY <2>1, <2>2, <2>3
<1>3. /\ NewToken \in Tokens /\ NewToken \notin Used /\ Only(w)
      /\ worker' = worker \/ Starts(w, j, NewToken, Root(j))
  BY <1>1, <1>2, IssueWorker DEF TInv
<1>4. Issued(w, j, Root(j))
  BY <1>1, <1>2, <1>3 DEF Issue, Issued
<1>5. /\ \A i \in Jobs \ {j}: row'[i] = row[i]
      /\ row'[j].token = NewToken /\ row'[j].source = Root(j)
      /\ row'[j].status = row[j].status
  BY <1>0, <1>1 DEF Row
<1> QED
  BY <1>1, <1>2, <1>4, <1>5 DEF Promoting

-----------------------------------------------------------------------------
(* The rows, whatever the executions and the shutdown do. *)

\* One row's shape.
ShapeOf(r) ==
    /\ r.source # 0 => r.status = "promoting"
    /\ r.token # 0 => r.status \in Active
    /\ r.status \in Active => r.source # 0 \/ r.token # 0

LEMMA ShapeIs == RowShape <=> \A j \in Jobs: ShapeOf(row[j])
<1>1. ASSUME NEW j \in Jobs
      PROVE  ShapeOf(row[j]) <=>
               /\ row[j].source # 0 => Promoting(j)
               /\ row[j].token # 0 => row[j].status \in Active
               /\ row[j].status \in Active => Root(j) # 0
  BY DEF ShapeOf, Root, Promoting
<1> QED
  BY <1>1 DEF RowShape

LEMMA ShapeIsNext == RowShape' <=> \A j \in Jobs: ShapeOf(row'[j])
<1>1. ASSUME NEW j \in Jobs
      PROVE  ShapeOf(row'[j]) <=>
               /\ row'[j].source # 0 => Promoting(j)'
               /\ row'[j].token # 0 => row'[j].status \in Active
               /\ row'[j].status \in Active => Root(j)' # 0
  BY DEF ShapeOf, Root, Promoting
<1> QED
  BY <1>1 DEF RowShape

\* A running download is named by its token.
LEMMA ShapeNames == RowShape' => Named'
  BY ShapeIsNext, StatusSets DEF Named, ShapeOf

\* A row that is kept, dropped or deferred has its shape and takes no target.
LEMMA CalmRow ==
    ASSUME RInv, NEW j \in Jobs, StillRow(j) \/ DroppedRow(j) \/ DeferredRow(j)
    PROVE  ShapeOf(row'[j]) /\ (Taken(row'[j]) => Taken(row[j]))
<1>1. ShapeOf(row[j])
  BY ShapeIs DEF RInv
<1>2. CASE StillRow(j)
  BY <1>1, <1>2, StatusSets DEF StillRow, KeptRow, ShapeOf, Taken, Held
<1>3. CASE DroppedRow(j)
  BY <1>3, StatusSets DEF DroppedRow, ShapeOf, Taken, Held
<1>4. CASE DeferredRow(j)
  BY <1>4, StatusSets DEF DeferredRow, ShapeOf, Taken, Promoting
<1> QED
  BY <1>2, <1>3, <1>4

\* If no row takes a target it did not have, every target has one owner still.
LEMMA OwnerKept ==
    ASSUME OneTargetOwner, Watches, \A j \in Jobs: Taken(row'[j]) => Taken(row[j])
    PROVE  OneTargetOwner'
  BY DEF OneTargetOwner, Watches

\* Nor if one does that has no taken sibling.
LEMMA OwnerGiven ==
    ASSUME OneTargetOwner, Watches, NEW j \in Jobs,
           \A i \in Jobs \ {j}: Taken(row'[i]) => Taken(row[i]),
           \A i \in Siblings(j): ~Taken(row'[i])
    PROVE  OneTargetOwner'
  BY DEF OneTargetOwner, Watches, Siblings

\* And a second owner that a late transaction makes is recorded.
LEMMA OwnerLate ==
    ASSUME OneTargetOwner, Watches, NEW j \in Jobs, OnlyRow(j), NoteLate(j),
           row[j].lease = "expired" \/ Taken(row[j])
    PROVE  OneTargetOwner'
<1>1. CASE Taken(row'[j]) => Taken(row[j])
  BY <1>1, OwnerKept DEF OnlyRow
<1>2. CASE ~Taken(row[j]) /\ \A i \in Siblings(j): ~Taken(row[i])
  BY <1>2, OwnerGiven DEF OnlyRow, Siblings
<1>3. CASE Late(j)
  <2>1. Target[j] \in doubled'
    BY <1>3 DEF NoteLate
  <2> QED
    BY <2>1 DEF OneTargetOwner, Watches, OnlyRow
<1> QED
  BY <1>1, <1>2, <1>3 DEF Late

LEMMA CalmRows ==
    ASSUME RInv, Watches, \A j \in Jobs: StillRow(j) \/ DroppedRow(j) \/ DeferredRow(j)
    PROVE  RowShape' /\ OneTargetOwner'
  BY CalmRow, ShapeIsNext, OwnerKept DEF RInv

\* The row that lease_is_valid writes.
LEMMA ReservedCases ==
    ASSUME RInv, NEW w \in Workers, Job(w) \in Jobs, NEW early,
           row'[Job(w)] \in {row[Job(w)], Reserved(w, early)}
    PROVE  LET j == Job(w) IN
           \/ StillRow(j)
           \/ DroppedRow(j) /\ row[j].status \in Running
           \/ /\ LeasedTo(w, early) /\ row[j].status \in Running /\ ~Requested(row[j])
              /\ row'[j].status = "promoting" /\ row'[j].token = row[j].token
              /\ row'[j].source = 0 /\ row[j].source = 0
<1> DEFINE j == Job(w)
           r == row[j]
<1>0. r \in Row
  BY DEF RInv, TInv, TypeOK
<1>1. CASE row'[j] = r
  BY <1>1, SameRow
<1>2. CASE row'[j] = Reserved(w, early) /\ row'[j] # r
  <2>1. r.status \in Running /\ r.source = 0
    <3>1. r.status \in Running
      BY <1>2, ReservedRow DEF RInv, TInv
    <3> QED
      BY <3>1, StatusSets DEF RInv, RowShape, Promoting
  <2>2. CASE /\ LeasedTo(w, early) /\ r.status \in Running
             /\ Reserved(w, early).status \in {"cancelled", "paused"} /\ Reserved(w, early).token = 0
             /\ Reserved(w, early).lease = "null" /\ Reserved(w, early).source = r.source
    BY <1>2, <2>1, <2>2, StatusSets DEF DroppedRow
  <2>3. CASE /\ LeasedTo(w, early) /\ r.status \in Running /\ ~Requested(r)
             /\ Reserved(w, early) = [r EXCEPT !.status = "promoting"]
    <3>1. /\ row'[j].status = "promoting" /\ row'[j].token = r.token
          /\ row'[j].source = r.source
      BY <1>0, <1>2, <2>3 DEF Row
    <3> QED
      BY <2>1, <2>3, <3>1
  <2> QED
    BY <1>2, <2>2, <2>3, ReservedRow DEF RInv, TInv
<1> QED
  BY <1>1, <1>2

\* complete drops its row and the waiting siblings and keeps the others.
LEMMA CompletedKept ==
    ASSUME TInv, RowShape, NEW j \in Jobs, NEW early, row' = Completed(j, early)
    PROVE  /\ DroppedRow(j) /\ row'[j].status = "completed"
           /\ \A i \in Jobs \ {j}:
                 StillRow(i) \/ (DroppedRow(i) /\ row[i].status \in Waiting)
<1>1. DroppedRow(j) /\ row'[j].status = "completed"
  BY CompletedRows, StatusSets DEF DroppedRow
<1>2. ASSUME NEW i \in Jobs \ {j}
      PROVE  StillRow(i) \/ (DroppedRow(i) /\ row[i].status \in Waiting)
  <2>1. row[i] \in Row
    BY DEF TInv, TypeOK
  <2>2. CASE row[i].status \in Waiting /\ row'[i] = Superseded(row[i])
    <3>1. row[i].source = 0
      BY <2>2, Ownerless, StatusSets
    <3> QED
      BY <2>1, <2>2, <3>1, SupersededRow, StatusSets DEF DroppedRow
  <2>3. CASE /\ row[i].status \in Running /\ row'[i].status = row[i].status
             /\ row'[i].token = row[i].token /\ row'[i].source = row[i].source
             /\ row'[i].lease = row[i].lease /\ (row[i].cancel => row'[i].cancel)
    BY <2>3, StatusSets DEF StillRow, KeptRow, Requested
  <2>4. CASE row'[i] = row[i]
    BY <2>4, SameRow
  <2> QED
    BY <2>2, <2>3, <2>4, CompletedRows
<1> QED
  BY <1>1, <1>2

\* Every step keeps the shape of the rows and one owner per target.
LEMMA RowsStep ==
    ASSUME RInv, [Next]_vars
    PROVE  RowShape' /\ OneTargetOwner'
<1>0. TInv /\ RowShape /\ OneTargetOwner /\ Watches
  BY WatchesStep DEF RInv
<1>1. ASSUME row' = row
      PROVE  RowShape' /\ OneTargetOwner'
  BY <1>0, <1>1, CalmRows, SameRow
<1>2. ASSUME NEW j \in Jobs, Request(j)
      PROVE  RowShape' /\ OneTargetOwner'
  BY <1>0, <1>2, RequestEffect, CalmRows
<1>3. ASSUME NEW w \in Workers, ClaimNothing(w)
      PROVE  RowShape' /\ OneTargetOwner'
  BY <1>0, <1>3, ClaimNothingEffect, CalmRows
<1>4. ASSUME NEW w \in Workers, NEW j \in Jobs, NEW late \in SUBSET Overdue,
             NEW reply \in Replies, ClaimNext(w, j, late, reply)
      PROVE  RowShape' /\ OneTargetOwner'
  <2>1. /\ NewToken \in Tokens
        /\ \A i \in Jobs \ {j}: StillRow(i) \/ DroppedRow(i)
        /\ row'[j].status = "running" /\ row'[j].token = NewToken /\ row'[j].source = 0
        /\ \A i \in Siblings(j): row'[i].status # "promoting" /\ ~Held(row'[i])
    BY <1>0, <1>4, ClaimNextEffect DEF Issued
  <2>2. ShapeOf(row'[j])
    BY <2>1, StatusSets, DownloadAssumption DEF ShapeOf
  <2>3. \A i \in Jobs \ {j}: ShapeOf(row'[i]) /\ (Taken(row'[i]) => Taken(row[i]))
    BY <2>1, CalmRow
  <2>4. OneTargetOwner'
    BY <1>0, <2>1, <2>3, OwnerGiven DEF Taken
  <2> QED
    BY <2>2, <2>3, <2>4, ShapeIsNext
<1>5. ASSUME NEW w \in Workers, NEW j \in Jobs, NEW reply \in Replies,
             ClaimRecovery(w, j, reply)
      PROVE  RowShape' /\ OneTargetOwner'
  <2>1. /\ NewToken \in Tokens
        /\ \A i \in Jobs \ {j}: row'[i] = row[i]
        /\ row[j].status = "promoting"
        /\ row'[j].status = "promoting" /\ row'[j].token = NewToken
    BY <1>0, <1>5, ClaimRecoveryEffect DEF Issued, Promoting
  <2>2. ShapeOf(row'[j]) /\ Taken(row[j])
    BY <2>1, StatusSets, DownloadAssumption DEF ShapeOf, Taken
  <2>3. \A i \in Jobs: ShapeOf(row'[i]) /\ (Taken(row'[i]) => Taken(row[i]))
    BY <1>0, <2>1, <2>2, ShapeIs
  <2> QED
    BY <1>0, <2>3, ShapeIsNext, OwnerKept
<1>6. ASSUME NEW w \in Workers, DiskStep(w) \/ Crash(w) \/ \E landed \in BOOLEAN: Cancel(w, landed)
      PROVE  RowShape' /\ OneTargetOwner'
  BY <1>0, <1>1, <1>6, DiskStepTypes, CrashEffect, CancelEffect
<1>7. ASSUME NEW w \in Workers, RowStep(w)
      PROVE  RowShape' /\ OneTargetOwner'
  <2>1. ASSUME NEW early, NEW reply \in Replies, LeaseIsValid(w, early, reply)
        PROVE  RowShape' /\ OneTargetOwner'
    <3>1. Job(w) \in Jobs /\ OnlyRow(Job(w)) /\ NoteLate(Job(w))
          /\ row'[Job(w)] \in {row[Job(w)], Reserved(w, early)}
      BY <1>0, <2>1, LeaseIsValidEffect, BusyFacts DEF LeaseIsValid
    <3>2. CASE StillRow(Job(w)) \/ DroppedRow(Job(w))
      BY <1>0, <3>1, <3>2, CalmRows, SameRow DEF OnlyRow
    <3>3. CASE /\ LeasedTo(w, early) /\ row[Job(w)].status \in Running
               /\ row'[Job(w)].status = "promoting"
               /\ row'[Job(w)].token = row[Job(w)].token /\ row'[Job(w)].source = 0
      <4>1. ShapeOf(row'[Job(w)])
        BY <1>0, <3>1, <3>3, StatusSets DEF ShapeOf, TInv, Named
      <4>2. \A i \in Jobs: ShapeOf(row'[i])
        BY <1>0, <3>1, <4>1, ShapeIs DEF OnlyRow
      <4>3. row[Job(w)].lease = "expired" \/ Taken(row[Job(w)])
        BY <3>3 DEF LeasedTo, Sees, Overdue, Taken, Held
      <4> QED
        BY <1>0, <3>1, <4>2, <4>3, ShapeIsNext, OwnerLate
    <3> QED
      BY <3>1, <3>2, <3>3, ReservedCases
  <2>2. ASSUME NEW reply \in Replies, EnterGuard(w, reply) \/ Recover(w, reply)
        PROVE  RowShape' /\ OneTargetOwner'
    BY <1>0, <1>1, <2>2, EnterGuardEffect, RecoverEffect
  <2>3. ASSUME NEW reply \in Replies, FailClaim(w, reply) \/ AbortForRetry(w, reply)
        PROVE  RowShape' /\ OneTargetOwner'
    <3>1. /\ OnlyRow(Job(w)) /\ worker[w].pc # "idle"
          /\ row'[Job(w)] \in {row[Job(w)], FailOrRetry(row[Job(w)])}
      BY <1>0, <2>3, FailClaimEffect, AbortEffect
    <3>2. Job(w) \in Jobs /\ row[Job(w)] \in Row
      BY <1>0, <3>1, BusyFacts
    <3>3. StillRow(Job(w)) \/ DroppedRow(Job(w))
      BY <3>1, <3>2, FailOrRetryRow, SameRow, StatusSets DEF DroppedRow
    <3> QED
      BY <1>0, <3>1, <3>3, CalmRows, SameRow DEF OnlyRow
  <2>4. ASSUME NEW reply \in Replies, Defer(w, reply)
        PROVE  RowShape' /\ OneTargetOwner'
    <3>1. OnlyRow(Job(w)) /\ worker[w].pc # "idle"
      BY <1>0, <2>4, DeferEffect
    <3>2. Job(w) \in Jobs /\ Src(w) # 0
      BY <1>0, <3>1, BusyFacts
    <3>3. StillRow(Job(w)) \/ DeferredRow(Job(w))
      BY <1>0, <2>4, <3>2, DeferEffect, SameRow DEF DeferredRow, Promoting
    <3> QED
      BY <1>0, <3>1, <3>3, CalmRows, SameRow DEF OnlyRow
  <2>5. ASSUME NEW reply \in Replies, ReleaseCancelledClaim(w, reply)
        PROVE  RowShape' /\ OneTargetOwner'
    <3>1. OnlyRow(Job(w)) /\ worker[w].pc # "idle"
      BY <1>0, <2>5, ReleaseEffect
    <3>2. Job(w) \in Jobs
      BY <1>0, <3>1, BusyFacts
    <3>3. row[Job(w)].status \in Running => row[Job(w)].source = 0
      BY <1>0, <3>2, StatusSets DEF RowShape, Promoting
    <3>4. StillRow(Job(w)) \/ DroppedRow(Job(w))
      BY <1>0, <2>5, <3>2, <3>3, ReleaseEffect, SameRow, StatusSets DEF DroppedRow
    <3> QED
      BY <1>0, <3>1, <3>4, CalmRows, SameRow DEF OnlyRow
  <2>6. ASSUME NEW early, NEW reply \in Replies \cup {"raised"}, Complete(w, early, reply)
        PROVE  RowShape' /\ OneTargetOwner'
    <3>1. worker[w].pc # "idle" /\ (row' = row \/ row' = Completed(Job(w), early))
      BY <1>0, <2>6, CompleteEffect
    <3>2. Job(w) \in Jobs
      BY <1>0, <3>1, BusyFacts
    <3>3. CASE row' = Completed(Job(w), early)
      BY <1>0, <3>2, <3>3, CompletedKept, CalmRows
    <3> QED
      BY <1>1, <3>1, <3>3
  <2>7. CASE Heartbeat(w)
    <3> DEFINE j == Job(w)
    <3>1. /\ j \in Jobs /\ OnlyRow(j) /\ row[j].lease = "expired" /\ NoteLate(j)
          /\ row'[j].status = row[j].status /\ row'[j].token = row[j].token
          /\ row'[j].source = row[j].source
      BY <1>0, <2>7, HeartbeatEffect DEF Heartbeat
    <3>2. \A i \in Jobs: ShapeOf(row'[i])
      BY <1>0, <3>1, ShapeIs DEF OnlyRow, ShapeOf
    <3> QED
      BY <1>0, <3>1, <3>2, ShapeIsNext, OwnerLate
  <2> QED
    BY <1>7, <2>1, <2>2, <2>3, <2>4, <2>5, <2>6, <2>7 DEF RowStep
<1>8. CASE UNCHANGED vars
  BY <1>1, <1>8 DEF vars
<1> QED
  BY <1>2, <1>3, <1>4, <1>5, <1>6, <1>7, <1>8 DEF Next, WorkerStep, Claim

-----------------------------------------------------------------------------
(* Steps that neither claim nor publish. *)

\* An execution stays where it is, ends, leaves for a place from which it only
\* writes its row, or is left by its thread; a download comes one step further.
Moves(w) ==
    \/ worker'[w] = worker[w]
    \/ worker'[w] = Idle
    \/ /\ Keeps(w) /\ (worker[w].pc # "idle" \/ worker[w].thread # "none")
       /\ \/ /\ worker'[w].pc = worker[w].pc /\ worker[w].pc # "journaled"
             /\ worker'[w].thread # "none" => worker[w].thread # "none"
          \/ /\ worker'[w].pc \in {"erring", "deferring", "cancelling", "idle"}
             /\ worker[w].pc # "idle"
             /\ worker'[w].thread # "none" => AtWork(worker[w])
          \/ /\ worker[w].pc \in {"downloading", "staged"}
             /\ worker'[w].pc \in {"staged", "reserved"}
             /\ worker'[w].thread = "none"
       /\ worker'[w].pc = "idle" => worker'[w].thread # "none"
       /\ worker'[w].thread \in {"backup", "rename"} =>
             worker[w].thread \in {"backup", "rename"}

\* A receipt that nobody needs: what it was for has been undone.
Spent(k) ==
    /\ \A j \in Jobs: Promoting(j) /\ Root(j) = k /\ Orderly(Target[j]) =>
          Before(Target[j], k)
    /\ \A w \in Workers: worker[w].pc = "journaled" => worker[w].source # k

\* A staging root loses at most what is staged, or a spent receipt.
Light(k) == /\ disk'[k].had = disk[k].had /\ disk'[k].prior = disk[k].prior
            /\ disk'[k].backup = disk[k].backup
            /\ disk'[k].receipt => disk[k].receipt
            /\ disk[k].receipt => disk'[k].receipt \/ Spent(k)

Unguarded(j) == \A w \in Workers: worker[w].job = j => worker'[w].pc \notin InGuard

CalmJob(j) ==
    \/ KeptRow(j)
    \/ /\ DroppedRow(j)
       /\ row[j].status = "completed" => \A w \in Workers: worker[w].job # j
       /\ Promoting(j) => /\ Orderly(Target[j]) => Whole(Target[j])
                          /\ Unguarded(j)
    \/ DeferredRow(j) /\ row'[j].source = Root(j) /\ Unguarded(j)

\* Tokens are refused together with a mark on the row of their download.
Marks ==
    \A x \in refused': x \in refused \/
        \E i \in Jobs: /\ row[i].token = x /\ row[i].status \in Running
                       /\ x # 0 /\ Requested(row'[i])

Calm ==
    /\ Watches
    /\ \A w \in Workers: Moves(w)
    /\ \A w \in Workers: worker'[w].thread = "removing" => Emptied(w)
    /\ \A j \in Jobs: CalmJob(j)
    /\ \A k \in Tokens: Light(k)
    /\ Marks
    /\ UNCHANGED <<final, registry, installed>>

\* A target that is orderly was orderly before.
LEMMA OrderlyKept == ASSUME Watches, NEW t, Orderly(t)' PROVE Orderly(t)
  BY DEF Watches, Orderly

LEMMA StillKept == ASSUME NEW j, StillRow(j) PROVE KeptRow(j)
  BY DEF StillRow

\* What is left of a row and of an execution after a calm step.
LEMMA CalmJobFacts ==
    ASSUME IInv, NEW j \in Jobs, CalmJob(j)
    PROVE  /\ Names(row'[j]) \subseteq Names(row[j])
           /\ row'[j].token \in {0, row[j].token}
           /\ row'[j].status \in Active =>
                 row[j].status \in Active /\ Root(j)' = Root(j)
           /\ Promoting(j)' => Promoting(j)
           /\ Promoting(j) /\ ~Promoting(j)' /\ Orderly(Target[j]) => Whole(Target[j])
           /\ row'[j].status \in Running => KeptRow(j) /\ row[j].status \in Running
<1>1. CASE KeptRow(j)
  BY <1>1, StatusSets DEF KeptRow, Names, Root, Promoting
<1>2. CASE /\ DroppedRow(j)
           /\ Promoting(j) => (Orderly(Target[j]) => Whole(Target[j])) /\ Unguarded(j)
  BY <1>2, StatusSets DEF DroppedRow, Names, Promoting
<1>3. CASE DeferredRow(j) /\ row'[j].source = Root(j)
  BY <1>3, StatusSets DEF DeferredRow, Names, Root, Promoting
<1> QED
  BY <1>1, <1>2, <1>3 DEF CalmJob

LEMMA MovesFacts ==
    ASSUME IInv, NEW w \in Workers, Moves(w)
    PROVE  /\ worker'[w] = Idle \/ Keeps(w)
           /\ worker'[w].pc \in InGuard \cup {"cleaning", "journaled"} =>
                 worker'[w].pc = worker[w].pc /\ Keeps(w)
           /\ worker'[w].pc = "journaled" => worker'[w].thread = worker[w].thread
           /\ worker'[w].pc \in Begun => worker[w].pc \in Begun /\ Keeps(w)
           /\ AtWork(worker'[w]) => AtWork(worker[w]) /\ Keeps(w)
           /\ worker'[w].pc # "idle" => Keeps(w) /\ worker[w].pc # "idle"
<1>1. CASE worker'[w] = worker[w]
  BY <1>1 DEF Keeps
<1>2. CASE worker'[w] = Idle
  BY <1>2, Constructed DEF AtWork, InGuard, Begun
<1>3. CASE /\ Keeps(w) /\ worker'[w].pc = worker[w].pc /\ worker[w].pc # "journaled"
           /\ worker'[w].thread # "none" => worker[w].thread # "none"
  BY <1>3 DEF AtWork
<1>4. CASE /\ Keeps(w) /\ worker'[w].pc \in {"erring", "deferring", "cancelling", "idle"}
           /\ worker[w].pc # "idle"
           /\ worker'[w].thread # "none" => AtWork(worker[w])
  BY <1>4 DEF AtWork, InGuard, Begun
<1>5. CASE /\ Keeps(w) /\ worker[w].pc \in {"downloading", "staged"}
           /\ worker'[w].pc \in {"staged", "reserved"} /\ worker'[w].thread = "none"
  BY <1>5 DEF AtWork, InGuard, Begun
<1> QED
  BY <1>1, <1>2, <1>3, <1>4, <1>5 DEF Moves

\* Roots of promotions are tokens; rows of the same token are one row.
LEMMA RootToken ==
    ASSUME RInv, NEW j \in Jobs, row[j].status \in Active
    PROVE  Root(j) \in Tokens /\ Root(j) # 0 /\ Root(j) \in Names(row[j])
  BY DEF RInv, TInv, TypeOK, Row, Token0, RowShape, Root, Names

LEMMA RunningRoot ==
    ASSUME RInv, NEW j \in Jobs, row[j].status \in Running
    PROVE  Root(j) = row[j].token /\ row[j].token \in Names(row[j])
  BY StatusSets DEF RInv, TInv, Named, RowShape, Root, Promoting, Names

LEMMA OneName ==
    ASSUME OneOwner, NEW i \in Jobs, NEW j \in Jobs, NEW x,
           x \in Names(row[i]), x \in Names(row[j])
    PROVE  i = j
  BY DEF OneOwner

\* A promotion whose root an execution knows is the one it works on.
LEMMA RootOwner ==
    ASSUME IInv, NEW w \in Workers, worker[w].pc # "idle" \/ worker[w].thread # "none",
           NEW j \in Jobs, row[j].status \in Active, Root(j) = worker[w].source
    PROVE  worker[w].job = j
<1>1. Root(j) \in Names(row[j])
  BY RootToken DEF IInv
<1>2. Root(j) \in Names(worker[w])
  BY BusyFacts DEF IInv, RInv, Names, Src
<1> QED
  BY <1>1, <1>2 DEF IInv, OneOwner

\* A calm step keeps the refusals marked ...
LEMMA CalmRefusals ==
    ASSUME IInv, Calm
    PROVE  Refusals'
<1> SUFFICES ASSUME NEW j \in Jobs, row'[j].status \in Running,
                    row'[j].token \in refused'
             PROVE  Requested(row'[j])
  BY DEF Refusals
<1>1. KeptRow(j) /\ row[j].status \in Running /\ row'[j].token = row[j].token
  BY CalmJobFacts DEF Calm, KeptRow
<1>2. CASE row[j].token \in refused
  BY <1>1, <1>2 DEF IInv, Refusals, KeptRow
<1>3. ASSUME NEW i \in Jobs, row[i].token = row[j].token, row[i].status \in Running,
             Requested(row'[i])
      PROVE  Requested(row'[j])
  <2>1. i = j
    BY <1>1, <1>3, RunningRoot, OneName DEF IInv
  <2> QED
    BY <1>3, <2>1
<1> QED
  BY <1>1, <1>2, <1>3 DEF Calm, Marks

\* Names that are only given up have one owner still.
LEMMA OwnersKept ==
    ASSUME OneOwner,
           \A j \in Jobs: /\ Names(row'[j]) \subseteq Names(row[j])
                          /\ row'[j].token \in {0, row[j].token},
           \A w \in Workers: worker'[w] = Idle \/ Keeps(w),
           \A v, w \in Workers:
              /\ worker'[v].pc \in InGuard /\ worker'[w].pc \in InGuard
              /\ Target[worker'[v].job] = Target[worker'[w].job]
              => v = w,
           \A v, w \in Workers:
              worker'[v].pc \in Begun /\ AtWork(worker'[w]) /\ v # w =>
                 worker'[v].source # worker'[w].source
    PROVE  OneOwner'
<1>0. \A w \in Workers:
         \/ worker'[w].token = 0 /\ worker'[w].source = 0 /\ Names(worker'[w]) = {}
         \/ Keeps(w) /\ Names(worker'[w]) = Names(worker[w])
  BY Constructed DEF Keeps, Names
<1>1. \A i, j \in Jobs: i # j => Names(row'[i]) \cap Names(row'[j]) = {}
  <2>1. \A i, j \in Jobs: i # j => Names(row[i]) \cap Names(row[j]) = {}
    BY DEF OneOwner
  <2> HIDE DEF Names
  <2> QED
    BY <2>1
<1>2. ASSUME NEW w \in Workers, NEW j \in Jobs,
             Names(worker'[w]) \cap Names(row'[j]) # {}
      PROVE  worker'[w].job = j
  <2>1. Keeps(w) /\ Names(worker[w]) \cap Names(row[j]) # {}
    BY <1>0, <1>2
  <2> QED
    BY <2>1 DEF OneOwner, Keeps
<1>3. ASSUME NEW v \in Workers, NEW w \in Workers,
             worker'[v].token = worker'[w].token, worker'[v].token # 0
      PROVE  v = w
  <2>1. worker[v].token = worker[w].token /\ worker[v].token # 0
    BY <1>0, <1>3 DEF Keeps
  <2> QED
    BY <2>1 DEF OneOwner
<1>4. ASSUME NEW w \in Workers, NEW j \in Jobs,
             row'[j].token # 0, row'[j].token = worker'[w].source
      PROVE  worker'[w].token = worker'[w].source
  <2>1. Keeps(w) /\ row[j].token # 0 /\ row[j].token = worker[w].source
    BY <1>0, <1>4 DEF Keeps
  <2> QED
    BY <2>1 DEF OneOwner, Keeps
<1> QED
  BY <1>1, <1>2, <1>3, <1>4 DEF OneOwner

\* ... gives no token a second owner ...
LEMMA CalmOneOwner ==
    ASSUME IInv, \A j \in Jobs: /\ Names(row'[j]) \subseteq Names(row[j])
                                /\ row'[j].token \in {0, row[j].token},
           \A w \in Workers: Moves(w)
    PROVE  OneOwner'
<1>1. \A w \in Workers:
        /\ worker'[w] = Idle \/ Keeps(w)
        /\ worker'[w].pc \in InGuard => worker'[w].pc = worker[w].pc /\ Keeps(w)
        /\ worker'[w].pc \in Begun => worker[w].pc \in Begun /\ Keeps(w)
        /\ AtWork(worker'[w]) => AtWork(worker[w]) /\ Keeps(w)
  BY MovesFacts
<1>2. ASSUME NEW v \in Workers, NEW w \in Workers,
             worker'[v].pc \in InGuard, worker'[w].pc \in InGuard,
             Target[worker'[v].job] = Target[worker'[w].job]
      PROVE  v = w
  <2>1. worker'[v].pc = worker[v].pc /\ worker'[w].pc = worker[w].pc
        /\ worker'[v].job = worker[v].job /\ worker'[w].job = worker[w].job
    BY <1>1, <1>2 DEF Keeps
  <2> QED
    BY <1>2, <2>1 DEF IInv, OneOwner
<1>3. ASSUME NEW v \in Workers, NEW w \in Workers,
             worker'[v].pc \in Begun, AtWork(worker'[w]), v # w
      PROVE  worker'[v].source # worker'[w].source
  <2>1. worker[v].pc \in Begun /\ AtWork(worker[w])
        /\ worker'[v].source = worker[v].source /\ worker'[w].source = worker[w].source
    BY <1>1, <1>3 DEF Keeps
  <2> QED
    BY <1>3, <2>1 DEF IInv, OneOwner
<1> QED
  BY <1>1, <1>2, <1>3, OwnersKept DEF IInv

\* What an execution's place says without its job's row.
LocalOf(x) ==
    /\ x.pc = "idle" /\ x.thread = "none" => x = Idle
    /\ x.pc \in Begun \cup {"journaled", "promoted"} \/ x.thread \in {"backup", "rename"} =>
          x.source = x.token
    /\ x.pc = "journaled" => x.thread \in {"backup", "rename"}
    /\ x.thread # "none" =>
          x.pc \in {"journaled", "compensating", "rollback", "removing",
                    "aborting", "cancelling", "erring", "deferring", "idle"}

\* What it says of the row.
RowOf(w) ==
    /\ worker[w].pc \in InGuard =>
          /\ Promoting(worker[w].job)
          /\ row[worker[w].job].token = worker[w].token
    /\ /\ worker[w].pc # "idle" /\ Promoting(worker[w].job)
       /\ row[worker[w].job].token = worker[w].token
       => Root(worker[w].job) = worker[w].source
    /\ worker[w].pc = "cleaning" =>
          /\ row[worker[w].job].status = "completed"
          /\ installed[Target[worker[w].job]] # 0

LEMMA PlaceParts ==
    ASSUME NEW w \in Workers
    PROVE  /\ PlaceOf(w) <=> LocalOf(worker[w]) /\ RowOf(w)
           /\ PlaceOf(w)' <=> LocalOf(worker'[w]) /\ RowOf(w)'
<1>1. PlaceOf(w) <=> LocalOf(worker[w]) /\ RowOf(w)
  BY DEF PlaceOf, LocalOf, RowOf
<1>2. PlaceOf(w)' <=> LocalOf(worker'[w]) /\ RowOf(w)'
  BY DEF PlaceOf, LocalOf, RowOf
<1> QED
  BY <1>1, <1>2

\* An execution that is idle, and one that has no thread.
LEMMA LocalIdle == LocalOf(Idle)
  BY Constructed DEF LocalOf, Begun

LEMMA MovesLocal ==
    ASSUME NEW w \in Workers, LocalOf(worker[w]), Moves(w)
    PROVE  LocalOf(worker'[w])
<1>1. CASE worker'[w] \in {worker[w], Idle}
  BY <1>1, LocalIdle
<1>2. CASE /\ Keeps(w) /\ worker'[w].pc = worker[w].pc /\ worker[w].pc # "journaled"
           /\ worker'[w].thread # "none" => worker[w].thread # "none"
           /\ worker'[w].pc = "idle" => worker'[w].thread # "none"
           /\ worker'[w].thread \in {"backup", "rename"} =>
                 worker[w].thread \in {"backup", "rename"}
  BY <1>2 DEF LocalOf, Keeps
<1>3. CASE /\ Keeps(w) /\ worker'[w].pc \in {"erring", "deferring", "cancelling", "idle"}
           /\ worker'[w].pc = "idle" => worker'[w].thread # "none"
           /\ worker'[w].thread \in {"backup", "rename"} =>
                 worker[w].thread \in {"backup", "rename"}
  BY <1>3 DEF LocalOf, Keeps, Begun
<1>4. CASE /\ Keeps(w) /\ worker[w].pc \in {"downloading", "staged"}
           /\ worker'[w].pc \in {"staged", "reserved"} /\ worker'[w].thread = "none"
  BY <1>4 DEF LocalOf, Keeps, Begun
<1> QED
  BY <1>1, <1>2, <1>3, <1>4 DEF Moves

\* ... leaves every execution where its row says ...
LEMMA CalmPlace ==
    ASSUME IInv, RInv', Calm
    PROVE  Place'
<1> SUFFICES ASSUME NEW w \in Workers PROVE PlaceOf(w)'
  BY DEF Place
<1>0. LocalOf(worker[w]) /\ RowOf(w) /\ Moves(w)
  BY PlaceParts DEF IInv, Place, Calm
<1>1. /\ worker'[w].pc \in InGuard \cup {"cleaning"} => worker'[w].pc = worker[w].pc
      /\ worker'[w].pc # "idle" => Keeps(w) /\ worker[w].pc # "idle"
  BY <1>0, MovesFacts
<1>2. CASE worker'[w].pc = "idle"
  <2>1. RowOf(w)'
    BY <1>2 DEF RowOf, InGuard
  <2> QED
    BY <1>0, <2>1, MovesLocal, PlaceParts
<1>3. CASE worker'[w].pc # "idle"
  <2>1. /\ worker[w].job \in Jobs /\ CalmJob(worker[w].job)
        /\ worker[w].token # 0 /\ worker'[w].job = worker[w].job
        /\ worker'[w].token = worker[w].token
        /\ worker'[w].source = worker[w].source
    BY <1>1, <1>3, BusyFacts DEF IInv, RInv, Calm, Job, Tok, Keeps
  <2>2. PICK j \in Jobs: j = worker[w].job
    BY <2>1
  <2>3. ASSUME worker'[w].pc \in InGuard
        PROVE  Promoting(j)' /\ row'[j].token = worker'[w].token
    <3>1. KeptRow(j)
      BY <1>0, <1>1, <2>1, <2>2, <2>3 DEF CalmJob, Unguarded, RowOf
    <3> QED
      BY <1>0, <1>1, <2>1, <2>2, <2>3, <3>1 DEF RowOf, KeptRow, Promoting
  <2>4. ASSUME Promoting(j)', row'[j].token = worker'[w].token
        PROVE  Root(j)' = worker'[w].source
    <3>1. KeptRow(j)
      BY <2>1, <2>2, <2>4, StatusSets DEF CalmJob, DroppedRow, DeferredRow, Promoting
    <3>2. Promoting(j) /\ row[j].token = worker[w].token
      BY <2>1, <2>4, <3>1 DEF KeptRow, Promoting
    <3>3. Root(j) = worker[w].source
      BY <1>0, <1>1, <1>3, <2>2, <3>2 DEF RowOf
    <3> QED
      BY <2>1, <3>1, <3>3 DEF KeptRow, Root
  <2>5. ASSUME worker'[w].pc = "cleaning"
        PROVE  row'[j].status = "completed" /\ installed'[Target[j]] # 0
    <3>1. row[j].status = "completed" /\ installed[Target[j]] # 0
      BY <1>0, <1>1, <2>2, <2>5 DEF RowOf
    <3>2. KeptRow(j)
      BY <2>1, <2>2, <3>1 DEF CalmJob, DeferredRow, Promoting
    <3> QED
      BY <3>1, <3>2 DEF KeptRow, Calm
  <2>6. worker'[w].job = j
    BY <2>1, <2>2
  <2>7. RowOf(w)'
    BY <2>3, <2>4, <2>5, <2>6 DEF RowOf, Promoting, Root
  <2> QED
    BY <1>0, <2>7, MovesLocal, PlaceParts
<1> QED
  BY <1>2, <1>3

\* Nothing changes at target t, nor in its registry entry.
Same(t) == /\ final'[t] = final[t] /\ installed'[t] = installed[t]
           /\ Sole(t) => registry'[Model[t]] = registry[Model[t]]

\* The state of a publication depends on its root and its target.
LEMMA StatesKept ==
    ASSUME NEW t, NEW k, Same(t),
           disk'[k].had = disk[k].had, disk'[k].prior = disk[k].prior,
           disk'[k].backup = disk[k].backup
    PROVE  /\ Whole(t)' <=> Whole(t)
           /\ Before(t, k)' <=> Before(t, k)
           /\ Between(t, k)' <=> Between(t, k)
           /\ After(t, k)' <=> After(t, k)
           /\ Journal(t, k)' <=> Journal(t, k)
           /\ Lists(t, k)' <=> Lists(t, k)
           /\ Lists(t, installed[t])' <=> Lists(t, installed[t])
  BY DEF Same, Whole, Before, Between, After, Journal, Lists

LEMMA WholeKept == ASSUME NEW t, Same(t), Whole(t) PROVE Whole(t)'
  BY DEF Same, Whole, Lists

LEMMA ReversibleKept ==
    ASSUME NEW t, NEW k, Same(t), Light(k), Reversible(t, k),
           Spent(k) => Before(t, k)
    PROVE  Reversible(t, k)'
<1>1. /\ Before(t, k)' <=> Before(t, k)
      /\ Between(t, k)' <=> Between(t, k)
      /\ After(t, k)' <=> After(t, k)
      /\ Journal(t, k)' <=> Journal(t, k)
  BY StatesKept DEF Light
<1> HIDE DEF Spent
<1> QED
  BY <1>1 DEF Reversible, Light

LEMMA UndoableKept ==
    ASSUME NEW j \in Jobs, Promoting(j), Orderly(Target[j]), Undoable(j),
           Root(j)' = Root(j), Light(Root(j)), Same(Target[j])
    PROVE  Undoable(j)'
<1>1. PICK t, k: t = Target[j] /\ k = Root(j)
  OBVIOUS
<1>2. Same(t) /\ Light(k) /\ Reversible(t, k) /\ (Spent(k) => Before(t, k))
  BY <1>1 DEF Undoable, Spent
<1>3. Reversible(t, k)'
  BY <1>2, ReversibleKept
<1> QED
  BY <1>1, <1>3 DEF Undoable

\* ... no publication in another state ...
LEMMA CalmPublication ==
    ASSUME IInv, Calm
    PROVE  Publication'
<1>1. Publication /\ RInv /\ Watches
  BY DEF IInv, Calm
<1>2. ASSUME NEW j \in Jobs
      PROVE  /\ row'[j].status \in Active =>
                   row[j].status \in Active /\ Root(j)' = Root(j)
             /\ Promoting(j)' => Promoting(j)
             /\ Promoting(j) /\ ~Promoting(j)' /\ Orderly(Target[j]) => Whole(Target[j])
  BY CalmJobFacts DEF Calm
<1>a. \A t \in Targets: Same(t)
  BY DEF Calm, Same
<1>3. /\ \A t \in Targets: Sound(final'[t])
      /\ \A k \in Tokens: Sound(disk'[k].backup)
  BY <1>1 DEF Calm, Light, Publication
<1>4. ASSUME NEW t \in Targets, Orderly(t)',
             \A j \in Jobs: Target[j] = t => ~Promoting(j)'
      PROVE  Whole(t)'
  <2>1. Orderly(t)
    BY <1>1, <1>4, OrderlyKept
  <2>2. Whole(t)
    BY <1>1, <1>2, <1>4, <2>1 DEF Publication
  <2> QED
    BY <1>a, <2>2, WholeKept
<1>5. \A j \in Jobs: row'[j].status \in Active =>
         \A t \in Targets: installed'[t] # Root(j)'
  BY <1>1, <1>2 DEF Publication, Calm
<1>6. ASSUME NEW j \in Jobs, Promoting(j)', Orderly(Target[j])'
      PROVE  Undoable(j)'
  <2>1. Promoting(j) /\ Root(j)' = Root(j) /\ row[j].status \in Active
    BY <1>2, <1>6, StatusSets DEF Promoting
  <2>2. Root(j) \in Tokens /\ Target[j] \in Targets /\ Orderly(Target[j])
    BY <1>1, <1>6, <2>1, RootToken, OrderlyKept, DownloadAssumption
  <2>3. Undoable(j) /\ Light(Root(j)) /\ Same(Target[j])
    BY <1>1, <1>a, <2>1, <2>2 DEF Publication, Calm
  <2> QED
    BY <2>1, <2>2, <2>3, UndoableKept
<1>7. \A j \in Jobs: (Promoting(j) /\ Orderly(Target[j]))' => Undoable(j)'
  BY <1>6
<1>8. \A t \in Targets: (Orderly(t) /\ (\A j \in Jobs: Target[j] = t => ~Promoting(j)))' =>
         Whole(t)'
  BY <1>4
<1> QED
  BY <1>3, <1>5, <1>7, <1>8 DEF Publication

\* How far an execution is depends on its place, its root and its target.
LEMMA FarKept ==
    ASSUME NEW w \in Workers, NEW t, NEW k, Same(t), Light(k), FarAs(w, t, k),
           worker'[w].pc = worker[w].pc,
           worker[w].pc = "journaled" => /\ worker'[w].thread = worker[w].thread
                                         /\ ~Spent(k)
    PROVE  FarAs(w, t, k)'
<1>1. /\ Before(t, k)' <=> Before(t, k)
      /\ Between(t, k)' <=> Between(t, k)
      /\ After(t, k)' <=> After(t, k)
      /\ Journal(t, k)' <=> Journal(t, k)
      /\ Lists(t, k)' <=> Lists(t, k)
      /\ Lists(t, installed[t])' <=> Lists(t, installed[t])
  BY StatesKept DEF Light
<1>2. worker[w].pc = "journaled" => (disk[k].receipt => disk'[k].receipt)
  BY DEF Light
<1> QED
  BY <1>1, <1>2 DEF FarAs

\* A staging root stays empty, as long as its target is as it was.
LEMMA EmptiedKept ==
    ASSUME IInv, Watches, NEW w \in Workers, Emptied(w),
           worker[w].pc # "idle" \/ worker[w].thread # "none", Keeps(w),
           NEW j \in Jobs, j = worker[w].job, NEW k \in Tokens, k = worker[w].source,
           Promoting(j)' /\ Root(j)' = k => Promoting(j) /\ Root(j) = k,
           Promoting(j) /\ Root(j) = k /\ Orderly(Target[j])' =>
              (Before(Target[j], k) => Before(Target[j], k)')
    PROVE  Emptied(w)'
<1> SUFFICES ASSUME Promoting(j)', Root(j)' = k, Orderly(Target[j])'
             PROVE  Before(Target[j], k)'
  BY DEF Emptied, Keeps, Promoting, Root, Orderly
<1>1. Promoting(j) /\ Root(j) = k /\ Orderly(Target[j])
  BY OrderlyKept
<1> QED
  BY <1>1 DEF Emptied

LEMMA ProgressParts ==
    ASSUME NEW w \in Workers, NEW t, NEW k,
           t = Target[worker'[w].job], k = worker'[w].source,
           worker'[w].pc \in Begun => ~disk'[k].receipt /\ disk'[k].backup = Nothing,
           worker'[w].pc \in InGuard /\ Orderly(t)' => FarAs(w, t, k)',
           worker'[w].thread = "removing" => Emptied(w)'
    PROVE  ProgressOf(w)'
<1>1. /\ worker'[w].pc \in Begun => /\ ~disk'[worker'[w].source].receipt
                                    /\ disk'[worker'[w].source].backup = Nothing
      /\ worker'[w].pc \in InGuard /\ Orderly(t)' =>
            FarAs(w, Target[worker[w].job], worker[w].source)'
  BY DEF FarAs, Before, Between, After, Whole, Journal, Lists, Orderly
<1> QED
  BY <1>1 DEF ProgressOf, Orderly

\* ... and no execution elsewhere with the directories.
LEMMA CalmProgress ==
    ASSUME IInv, Watches, \A w \in Workers: Moves(w), \A k \in Tokens: Light(k),
           \A w \in Workers: worker'[w].thread = "removing" => Emptied(w)',
           UNCHANGED <<final, registry, installed>>
    PROVE  Progress'
<1> SUFFICES ASSUME NEW w \in Workers PROVE ProgressOf(w)'
  BY DEF Progress
<1>0. ProgressOf(w) /\ Moves(w)
  BY DEF IInv, Progress
<1>a. PICK t, k: t = Target[worker'[w].job] /\ k = worker'[w].source
  OBVIOUS
<1>1. /\ worker'[w].pc \in InGuard => worker'[w].pc = worker[w].pc /\ Keeps(w)
      /\ worker'[w].pc = "journaled" => worker'[w].thread = worker[w].thread
      /\ worker'[w].pc \in Begun => worker[w].pc \in Begun /\ Keeps(w)
      /\ worker'[w].pc # "idle" => Keeps(w) /\ worker[w].pc # "idle"
  BY <1>0, MovesFacts
<1>2. worker'[w].pc # "idle" => /\ k \in Tokens /\ t \in Targets
                                /\ t = Target[worker[w].job] /\ k = worker[w].source
  BY <1>1, <1>a, BusyFacts DEF IInv, RInv, Src, Job, Keeps
<1>3. worker'[w].pc \in Begun => ~disk'[k].receipt /\ disk'[k].backup = Nothing
  BY <1>0, <1>1, <1>2 DEF ProgressOf, Light, Begun
<1>4. ASSUME worker'[w].pc \in InGuard, Orderly(t)'
      PROVE  FarAs(w, t, k)'
  <2>1. worker'[w].pc # "idle"
    BY <1>4 DEF InGuard
  <2>2. FarAs(w, t, k) /\ Same(t) /\ Light(k)
    BY <1>0, <1>1, <1>2, <1>4, <2>1, OrderlyKept DEF ProgressOf, Same
  <2>3. worker[w].pc = "journaled" => ~Spent(k)
    BY <1>2, <2>1 DEF Spent
  <2> QED
    BY <1>1, <1>4, <2>2, <2>3, FarKept
<1> QED
  BY <1>a, <1>3, <1>4, ProgressParts

LEMMA CalmStep ==
    ASSUME IInv, RInv', Calm
    PROVE  IInv'
<1>1. \A j \in Jobs: /\ Names(row'[j]) \subseteq Names(row[j])
                     /\ row'[j].token \in {0, row[j].token}
  BY CalmJobFacts DEF Calm
<1>2. OneOwner'
  BY <1>1, CalmOneOwner DEF Calm
<1>3. ASSUME NEW w \in Workers, worker'[w].thread = "removing"
      PROVE  Emptied(w)'
  <2>1. Keeps(w) /\ (worker[w].pc # "idle" \/ worker[w].thread # "none") /\ Emptied(w)
    <3>1. AtWork(worker[w]) /\ Keeps(w)
      BY <1>3, MovesFacts DEF Calm, AtWork
    <3> QED
      BY <1>3, <3>1 DEF Calm, AtWork, InGuard
  <2>2. PICK j \in Jobs, k \in Tokens: j = worker[w].job /\ k = worker[w].source
    BY <2>1, BusyFacts DEF IInv, RInv, Job, Src
  <2>3. Promoting(j)' /\ Root(j)' = k => Promoting(j) /\ Root(j) = k
    BY CalmJobFacts, StatusSets DEF Calm, Promoting
  <2>4. Before(Target[j], k) => Before(Target[j], k)'
    <3>1. Light(k) /\ Same(Target[j])
      BY DEF Calm, Same
    <3> QED
      BY <3>1, StatesKept DEF Light
  <2> QED
    BY <2>1, <2>2, <2>3, <2>4, EmptiedKept DEF Calm
<1>4. Progress'
  BY <1>3, CalmProgress DEF Calm
<1> QED
  BY <1>2, <1>4, CalmRefusals, CalmPlace, CalmPublication DEF IInv

\* Nothing changes on disk.
LEMMA SameDisk == disk' = disk => \A k \in Tokens: Light(k)
  BY DEF Light

\* Removing a staging root without a receipt changes only what is staged.
LEMMA LightRemoval ==
    ASSUME TInv, NEW x \in Tokens, ~disk[x].receipt, disk' \in {disk, StageRemoved(x)}
    PROVE  \A k \in Tokens: Light(k)
<1>1. CASE disk' = StageRemoved(x)
  <2>1. disk[x].receipt = FALSE
    BY RootFields DEF TInv, TypeOK
  <2> QED
    BY <1>1, <2>1, StageRemovedRoot DEF OnlyRoot, Light
<1> QED
  BY <1>1, SameDisk

\* No thread begins to remove a staging root.
LEMMA ThreadsKept ==
    ASSUME IInv, \A v \in Workers: worker'[v] = Idle \/
                    worker'[v].thread \in {"none", worker[v].thread}
    PROVE  \A v \in Workers: worker'[v].thread = "removing" => Emptied(v)
  BY Constructed DEF IInv, Progress, ProgressOf

\* One execution ends or leaves, the others stay.
LEMMA LeavesMoves ==
    ASSUME IInv, NEW w \in Workers, Only(w), worker[w].pc # "idle",
           \/ worker'[w] = Idle
           \/ /\ Keeps(w) /\ worker'[w].thread = worker[w].thread
              /\ worker'[w].pc \in {"erring", "deferring", "cancelling", "idle"}
              /\ worker'[w].pc = "idle" => worker[w].thread # "none"
    PROVE  /\ \A v \in Workers: Moves(v)
           /\ \A v \in Workers: worker'[v].thread = "removing" => Emptied(v)
<1>1. \A v \in Workers: worker'[v] = Idle \/ worker'[v].thread \in {"none", worker[v].thread}
  BY DEF Only
<1>2. \A v \in Workers: Moves(v)
  BY DEF Only, Moves, AtWork
<1> QED
  BY <1>1, <1>2, ThreadsKept

\* A thread that nobody waits for stops, the others stay.
LEMMA ThreadMoves ==
    ASSUME IInv, NEW w \in Workers, Only(w), worker[w].thread # "none",
           \/ worker'[w] = Idle
           \/ /\ Keeps(w) /\ worker'[w].thread = "none"
              /\ worker'[w].pc = worker[w].pc
              /\ worker[w].pc \notin {"idle", "journaled"}
    PROVE  /\ \A v \in Workers: Moves(v)
           /\ \A v \in Workers: worker'[v].thread = "removing" => Emptied(v)
<1>1. \A v \in Workers: worker'[v] = Idle \/ worker'[v].thread \in {"none", worker[v].thread}
  BY DEF Only
<1>2. \A v \in Workers: Moves(v)
  BY DEF Only, Moves
<1> QED
  BY <1>1, <1>2, ThreadsKept

\* Executions that do not change.
LEMMA SameWorker ==
    ASSUME IInv, worker' = worker
    PROVE  /\ \A v \in Workers: Moves(v)
           /\ \A v \in Workers: worker'[v].thread = "removing" => Emptied(v)
  BY ThreadsKept DEF Moves

\* Rows that do not change, and rows of which one changes.
LEMMA SameRows == row' = row => \A j \in Jobs: CalmJob(j)
  BY SameRow, StillKept DEF CalmJob

LEMMA OneJobCalm ==
    ASSUME NEW j \in Jobs, OnlyRow(j), CalmJob(j)
    PROVE  \A i \in Jobs: CalmJob(i)
  BY SameRow, StillKept DEF OnlyRow, CalmJob

\* Requests and polls.
LEMMA QuietActions ==
    ASSUME IInv, RInv', Watches,
           \/ \E j \in Jobs: Request(j)
           \/ \E w \in Workers: ClaimNothing(w)
    PROVE  Calm
<1>0. TInv /\ RowShape
  BY DEF IInv, RInv
<1>1. ASSUME NEW j \in Jobs, Request(j)
      PROVE  Calm
  <2>1. /\ \A i \in Jobs: KeptRow(i) \/ (DroppedRow(i) /\ ~Promoting(i))
        /\ \A i \in Jobs: row[i].status = "completed" =>
              KeptRow(i) \/ \A w \in Workers: worker[w].job # i
        /\ UNCHANGED <<worker, final, registry, disk, installed>>
        /\ Marks
    BY <1>0, <1>1, RequestEffect, StillKept DEF Marks
  <2>2. \A i \in Jobs: CalmJob(i)
    BY <2>1 DEF CalmJob
  <2> QED
    BY <2>1, <2>2, SameDisk, SameWorker DEF Calm
<1>2. ASSUME NEW w \in Workers, ClaimNothing(w)
      PROVE  Calm
  <2>1. /\ \A i \in Jobs: KeptRow(i) \/ (DroppedRow(i) /\ row[i].status \in Running)
        /\ UNCHANGED <<worker, final, registry, disk, installed, refused>>
    BY <1>0, <1>2, ClaimNothingEffect, StillKept
  <2>2. \A i \in Jobs: CalmJob(i)
    BY <2>1, StatusSets DEF CalmJob, Promoting
  <2> QED
    BY <2>1, <2>2, SameDisk, SameWorker DEF Calm, Marks
<1> QED
  BY <1>1, <1>2

\* An execution in its guard owns the promotion of its job.
LEMMA InGuardOwner ==
    ASSUME IInv, NEW w \in Workers, worker[w].pc \in InGuard
    PROVE  worker[w].pc # "idle" /\ Promoting(Job(w)) /\ row[Job(w)].token = Tok(w)
           /\ Root(Job(w)) = Src(w)
  BY DEF IInv, Place, PlaceOf, InGuard, Job, Tok, Src

\* An execution that has not come to a thread has none.
LEMMA Threadless ==
    ASSUME IInv, NEW w \in Workers,
           worker[w].pc \in Begun \cup {"recovering", "promoted", "registered", "cleaning"}
    PROVE  worker[w].thread = "none"
  BY DEF IInv, Place, PlaceOf, Begun

\* While an execution is in the guard, or owns the row, no other one is in the
\* guard with its job.
LEMMA AloneInGuard ==
    ASSUME IInv, NEW w \in Workers, worker[w].pc # "idle",
           worker[w].pc \in InGuard \/ row[Job(w)].token = Tok(w),
           Only(w), worker'[w].pc \notin InGuard
    PROVE  Unguarded(Job(w))
<1> SUFFICES ASSUME NEW v \in Workers, worker[v].job = Job(w), worker'[v].pc \in InGuard
             PROVE  FALSE
  BY DEF Unguarded
<1>1. v # w /\ worker[v].pc \in InGuard
  BY DEF Only
<1>2. row[Job(w)].token = Tok(w) /\ row[Job(w)].token = Tok(v) /\ Tok(w) # 0
  BY <1>1, InGuardOwner, BusyFacts DEF Job, IInv, RInv
<1> QED
  BY <1>1, <1>2 DEF IInv, OneOwner, Tok

\* Executions that crash, fail, give up or have downloaded; and heartbeats.
LEMMA LeavingActions ==
    ASSUME IInv, RInv', Watches, NEW w \in Workers,
           \/ Crash(w) \/ Heartbeat(w)
           \/ \E ok \in BOOLEAN: DownloadModel(w, ok)
           \/ \E reply \in Replies: \/ FailClaim(w, reply) \/ AbortForRetry(w, reply)
                                    \/ Defer(w, reply)
                                    \/ ReleaseCancelledClaim(w, reply)
    PROVE  Calm
<1>0. TInv /\ RowShape /\ PlaceOf(w) /\ ProgressOf(w)
  BY DEF IInv, RInv, Place, Progress
<1>2. ASSUME refused' = refused
      PROVE  Marks
  BY <1>2 DEF Marks
<1>3. CASE Crash(w)
  <2>1. Only(w) /\ worker'[w] = Idle
        /\ UNCHANGED <<row, final, registry, disk, installed, refused>>
    BY <1>0, <1>3, CrashEffect
  <2>2. /\ \A v \in Workers: Moves(v)
        /\ \A v \in Workers: worker'[v].thread = "removing" => Emptied(v)
    <3>1. \A v \in Workers: worker'[v] = Idle \/ worker'[v].thread \in {"none", worker[v].thread}
      BY <2>1 DEF Only
    <3> QED
      BY <2>1, <3>1, ThreadsKept DEF Moves, Only
  <2> QED
    BY <1>2, <2>1, <2>2, SameRows, SameDisk DEF Calm
<1>4. CASE Heartbeat(w)
  <2>1. /\ Job(w) \in Jobs /\ OnlyRow(Job(w)) /\ KeptRow(Job(w))
        /\ UNCHANGED <<worker, final, registry, disk, installed, refused>>
    BY <1>0, <1>4, HeartbeatEffect DEF KeptRow, Requested
  <2>2. \A i \in Jobs: CalmJob(i)
    BY <2>1, OneJobCalm DEF CalmJob
  <2> QED
    BY <1>2, <2>1, <2>2, SameDisk, SameWorker DEF Calm
<1>5. ASSUME NEW ok \in BOOLEAN, DownloadModel(w, ok)
      PROVE  Calm
  <2>1. /\ Only(w) /\ Keeps(w) /\ worker[w].pc = "downloading"
        /\ worker'[w].pc \in {"staged", "erring"}
        /\ worker'[w].thread = worker[w].thread
        /\ UNCHANGED <<row, final, registry, installed, refused>>
        /\ \A k \in Tokens: Light(k)
    BY <1>0, <1>5, DownloadModelEffect DEF OnlyRoot, Light
  <2>2. worker'[w].thread = "none"
    BY <2>1, Threadless DEF Begun
  <2>3. /\ \A v \in Workers: Moves(v)
        /\ \A v \in Workers: worker'[v].thread = "removing" => Emptied(v)
    <3>1. \A v \in Workers: worker'[v] = Idle \/ worker'[v].thread \in {"none", worker[v].thread}
      BY <2>1 DEF Only
    <3> QED
      BY <2>1, <2>2, <3>1, ThreadsKept DEF Moves, Only
  <2> QED
    BY <1>2, <2>1, <2>3, SameRows DEF Calm
<1>6. ASSUME NEW reply \in Replies, FailClaim(w, reply)
      PROVE  Calm
  <2>1. /\ worker[w].pc = "erring" /\ Leaves(w, {"idle"}) /\ OnlyRow(Job(w))
        /\ worker[w].thread = "none" => worker'[w] = Idle
        /\ UNCHANGED <<final, registry, disk, installed, refused>>
        /\ \/ row'[Job(w)] = row[Job(w)]
           \/ /\ row[Job(w)].status # "promoting" /\ row[Job(w)].token = Tok(w)
              /\ row'[Job(w)] = FailOrRetry(row[Job(w)])
    BY <1>0, <1>6, FailClaimEffect
  <2>2. Job(w) \in Jobs /\ row[Job(w)] \in Row /\ Tok(w) # 0
    BY <1>0, <2>1, BusyFacts
  <2>3. CalmJob(Job(w))
    <3>1. CASE row'[Job(w)] = row[Job(w)]
      BY <2>2, <3>1, SameRow, StillKept DEF CalmJob
    <3>2. CASE /\ row[Job(w)].status # "promoting" /\ row[Job(w)].token = Tok(w)
               /\ row'[Job(w)] = FailOrRetry(row[Job(w)])
      <4>1. DroppedRow(Job(w))
        BY <2>2, <3>2, FailOrRetryRow, StatusSets DEF DroppedRow
      <4>2. row[Job(w)].status # "completed"
        BY <1>0, <2>2, <3>2, Ownerless, StatusSets
      <4> QED
        BY <3>2, <4>1, <4>2 DEF CalmJob, Promoting
    <3> QED
      BY <2>1, <3>1, <3>2
  <2>4. /\ \A v \in Workers: Moves(v)
        /\ \A v \in Workers: worker'[v].thread = "removing" => Emptied(v)
    BY <2>1, LeavesMoves DEF Leaves
  <2> QED
    BY <1>2, <2>1, <2>2, <2>3, <2>4, OneJobCalm, SameDisk DEF Calm
<1>7. ASSUME NEW reply \in Replies, AbortForRetry(w, reply)
      PROVE  Calm
  <2>1. /\ worker[w].pc = "aborting" /\ Leaves(w, {"deferring", "erring", "cancelling", "idle"})
        /\ worker[w].thread = "none" => Leaves(w, {"deferring", "erring", "cancelling"})
        /\ OnlyRow(Job(w)) /\ UNCHANGED <<final, registry, disk, installed, refused>>
        /\ row'[Job(w)] \in {row[Job(w)], FailOrRetry(row[Job(w)])}
    BY <1>0, <1>7, AbortEffect
  <2>2. Job(w) \in Jobs /\ row[Job(w)] \in Row
    BY <1>0, <2>1, BusyFacts
  <2>3. Only(w) /\ worker'[w].pc \in {"idle", "erring", "deferring", "cancelling"}
    BY <2>1, Constructed DEF Leaves
  <2>4. /\ \A v \in Workers: Moves(v)
        /\ \A v \in Workers: worker'[v].thread = "removing" => Emptied(v)
    BY <2>1, LeavesMoves DEF Leaves
  <2>5. Unguarded(Job(w))
    BY <2>1, <2>3, AloneInGuard DEF InGuard
  <2>6. Promoting(Job(w)) /\ (Orderly(Target[Job(w)]) => Whole(Target[Job(w)]))
    BY <1>0, <2>1 DEF PlaceOf, ProgressOf, FarAs, Before, InGuard, Job
  <2>7. CalmJob(Job(w))
    <3>1. CASE row'[Job(w)] = row[Job(w)]
      BY <2>2, <3>1, SameRow, StillKept DEF CalmJob
    <3>2. CASE row'[Job(w)] = FailOrRetry(row[Job(w)])
      <4>1. DroppedRow(Job(w))
        BY <2>2, <3>2, FailOrRetryRow, StatusSets DEF DroppedRow
      <4> QED
        BY <2>5, <2>6, <4>1 DEF CalmJob, Promoting
    <3> QED
      BY <2>1, <3>1, <3>2
  <2> QED
    BY <1>2, <2>1, <2>2, <2>4, <2>7, OneJobCalm, SameDisk DEF Calm
<1>8. ASSUME NEW reply \in Replies, Defer(w, reply)
      PROVE  Calm
  <2>1. /\ worker[w].pc = "deferring" /\ Leaves(w, {"idle"}) /\ OnlyRow(Job(w))
        /\ worker[w].thread = "none" => worker'[w] = Idle
        /\ UNCHANGED <<final, registry, disk, installed, refused>>
        /\ \/ row'[Job(w)] = row[Job(w)]
           \/ /\ row[Job(w)].status = "promoting" /\ row[Job(w)].token = Tok(w)
              /\ row'[Job(w)].status = "promoting" /\ row'[Job(w)].token = 0
              /\ row'[Job(w)].source = Src(w)
    BY <1>0, <1>8, DeferEffect
  <2>2. Job(w) \in Jobs /\ Tok(w) # 0 /\ Src(w) # 0
    BY <1>0, <2>1, BusyFacts
  <2>3. CalmJob(Job(w))
    <3>1. CASE row'[Job(w)] = row[Job(w)]
      BY <2>2, <3>1, SameRow, StillKept DEF CalmJob
    <3>2. CASE /\ row[Job(w)].status = "promoting" /\ row[Job(w)].token = Tok(w)
               /\ row'[Job(w)].status = "promoting" /\ row'[Job(w)].token = 0
               /\ row'[Job(w)].source = Src(w)
      <4>1. Root(Job(w)) = Src(w)
        BY <1>0, <2>1, <3>2 DEF PlaceOf, Promoting, Job, Tok, Src
      <4>2. Unguarded(Job(w))
        <5>1. Only(w) /\ worker'[w].pc = "idle"
          BY <2>1, Constructed DEF Leaves
        <5> QED
          BY <2>1, <3>2, <5>1, AloneInGuard DEF InGuard
      <4> QED
        BY <2>2, <3>2, <4>1, <4>2 DEF CalmJob, DeferredRow, Promoting
    <3> QED
      BY <2>1, <3>1, <3>2
  <2>4. /\ \A v \in Workers: Moves(v)
        /\ \A v \in Workers: worker'[v].thread = "removing" => Emptied(v)
    BY <2>1, LeavesMoves DEF Leaves
  <2> QED
    BY <1>2, <2>1, <2>2, <2>3, <2>4, OneJobCalm, SameDisk DEF Calm
<1>9. ASSUME NEW reply \in Replies, ReleaseCancelledClaim(w, reply)
      PROVE  Calm
  <2>1. /\ worker[w].pc = "cancelling" /\ Leaves(w, {"idle"}) /\ OnlyRow(Job(w))
        /\ worker[w].thread = "none" => worker'[w] = Idle
        /\ UNCHANGED <<final, registry, disk, installed, refused>>
        /\ \/ row'[Job(w)] = row[Job(w)]
           \/ /\ row[Job(w)].status \in Running
              /\ row'[Job(w)].status \in {"cancelled", "paused", "queued"}
              /\ row'[Job(w)].token = 0 /\ row'[Job(w)].source = row[Job(w)].source
    BY <1>0, <1>9, ReleaseEffect
  <2>2. Job(w) \in Jobs
    BY <1>0, <2>1, BusyFacts
  <2>3. CalmJob(Job(w))
    <3>1. CASE row'[Job(w)] = row[Job(w)]
      BY <2>2, <3>1, SameRow, StillKept DEF CalmJob
    <3>2. CASE /\ row[Job(w)].status \in Running
               /\ row'[Job(w)].status \in {"cancelled", "paused", "queued"}
               /\ row'[Job(w)].token = 0 /\ row'[Job(w)].source = row[Job(w)].source
      <4>1. row[Job(w)].source = 0
        BY <1>0, <2>2, <3>2, StatusSets DEF RowShape, Promoting
      <4> QED
        BY <3>2, <4>1, StatusSets DEF CalmJob, DroppedRow, Promoting
    <3> QED
      BY <2>1, <3>1, <3>2
  <2>4. /\ \A v \in Workers: Moves(v)
        /\ \A v \in Workers: worker'[v].thread = "removing" => Emptied(v)
    BY <2>1, LeavesMoves DEF Leaves
  <2> QED
    BY <1>2, <2>1, <2>2, <2>3, <2>4, OneJobCalm, SameDisk DEF Calm
<1> QED
  BY <1>3, <1>4, <1>5, <1>6, <1>7, <1>8, <1>9

\* lease_is_valid reserves a promotion: the target is whole, nothing of the new
\* artifact is there, and no request was made.
LEMMA ReserveStep ==
    ASSUME IInv, RInv', Watches, NEW w \in Workers, worker[w].pc = "staged",
           \A v \in Workers: Moves(v), \A k \in Tokens: Light(k),
           UNCHANGED <<final, registry, installed, refused>>,
           OnlyRow(Job(w)), row[Job(w)].token = Tok(w),
           row[Job(w)].status \in Running, ~Requested(row[Job(w)]),
           row'[Job(w)].status = "promoting",
           row'[Job(w)].token = row[Job(w)].token,
           row'[Job(w)].source = 0, row[Job(w)].source = 0,
           \A v \in Workers: worker'[v].thread \in {"none", worker[v].thread}
    PROVE  IInv'
<1>0. /\ TInv /\ RInv /\ RowShape /\ Refusals /\ OneOwner /\ Publication
      /\ PlaceOf(w) /\ ProgressOf(w) /\ OneTargetOwner'
  BY DEF IInv, RInv, Place, Progress
<1>a. PICK j \in Jobs: j = Job(w)
  BY <1>0, BusyFacts
<1>b. PICK k \in Tokens: k = Tok(w) /\ k # 0
  BY <1>0, BusyFacts
<1>c. PICK t \in Targets: t = Target[j]
  BY <1>0, <1>a, BusyFacts
<1>1. /\ worker[w].job = j
      /\ worker[w].token = k /\ worker[w].source = k /\ row[j].token = k
      /\ Root(j) = k /\ Root(j)' = k /\ ~disk[k].receipt /\ disk[k].backup = Nothing
      /\ Promoting(j)' /\ ~Promoting(j)
      /\ row[j].status \in Running /\ row'[j].token = k /\ Names(row'[j]) = Names(row[j])
      /\ row'[j].status = "promoting" /\ ~Requested(row[j])
  <2>2. worker[w].job = j /\ worker[w].token = k /\ worker[w].source = k
    BY <1>0, <1>a, <1>b DEF PlaceOf, Begun, Job, Tok
  <2>3. ~disk[k].receipt /\ disk[k].backup = Nothing
    BY <1>0, <2>2 DEF ProgressOf, Begun
  <2> QED
    BY <1>a, <1>b, <2>2, <2>3, StatusSets DEF Root, Promoting, Names
<1>2. \A i \in Jobs: i # j => /\ row'[i] = row[i] /\ Root(i)' = Root(i)
                              /\ Promoting(i)' = Promoting(i)
  BY <1>a DEF OnlyRow, Root, Promoting
<1>3. Refusals'
  BY <1>0, <1>1, <1>2, StatusSets DEF Refusals, Promoting
<1>4. OneOwner'
  <2>1. \A i \in Jobs: /\ Names(row'[i]) \subseteq Names(row[i])
                       /\ row'[i].token \in {0, row[i].token}
    BY <1>1, <1>2 DEF Names
  <2> QED
    BY <2>1, CalmOneOwner
<1>5. Place'
  <2> SUFFICES ASSUME NEW v \in Workers PROVE PlaceOf(v)'
    BY DEF Place
  <2>0. LocalOf(worker[v]) /\ RowOf(v) /\ Moves(v)
    BY PlaceParts DEF IInv, Place
  <2>1. /\ worker'[v].pc \in InGuard \cup {"cleaning"} => worker'[v].pc = worker[v].pc
        /\ worker'[v].pc # "idle" => Keeps(v) /\ worker[v].pc # "idle"
    BY <2>0, MovesFacts
  <2>2. LocalOf(worker'[v])
    BY <2>0, MovesLocal
  <2>3. CASE worker'[v].pc = "idle"
    <3>1. RowOf(v)'
      BY <2>3 DEF RowOf, InGuard
    <3> QED
      BY <2>2, <3>1, PlaceParts
  <2>4. CASE worker'[v].pc # "idle" /\ worker[v].job # j
    <3>1. row'[worker[v].job] = row[worker[v].job] /\ Keeps(v)
      BY <1>0, <1>2, <2>1, <2>4, BusyFacts DEF Job
    <3>2. RowOf(v)'
      BY <2>0, <2>1, <2>4, <3>1 DEF RowOf, Keeps, Promoting, Root
    <3> QED
      BY <2>2, <3>2, PlaceParts
  <2>5. CASE worker'[v].pc # "idle" /\ worker[v].job = j
    <3>1. worker'[v].pc \notin InGuard /\ worker'[v].pc # "cleaning"
      BY <1>0, <1>1, <2>0, <2>1, <2>5, StatusSets DEF RowOf
    <3>2. row'[j].token = worker'[v].token => v = w
      BY <1>0, <1>1, <1>b, <2>1, <2>5 DEF OneOwner, Keeps
    <3>3. worker'[v].job = j /\ worker'[v].source = worker[v].source
      BY <2>1, <2>5 DEF Keeps
    <3>4. RowOf(v)'
      BY <1>1, <3>1, <3>2, <3>3 DEF RowOf, Promoting, Root
    <3> QED
      BY <2>2, <3>4, PlaceParts
  <2> QED
    BY <2>3, <2>4, <2>5
<1>d. \A x \in Targets: Same(x)
  BY DEF Same
<1>6. Publication'
  <2>1. /\ \A x \in Targets: Sound(final'[x])
        /\ \A x \in Tokens: Sound(disk'[x].backup)
    BY <1>0 DEF Publication, Light
  <2>2. ASSUME NEW x \in Targets, Orderly(x)',
               \A i \in Jobs: Target[i] = x => ~Promoting(i)'
        PROVE  Whole(x)'
    <3>1. \A i \in Jobs: Promoting(i) => Promoting(i)'
      BY <1>1, <1>2
    <3>2. Whole(x)
      BY <1>0, <2>2, <3>1, OrderlyKept DEF Publication
    <3> QED
      BY <1>d, <3>2, WholeKept
  <2>3. \A i \in Jobs: row'[i].status \in Active => row[i].status \in Active
                                                     /\ Root(i)' = Root(i)
    BY <1>1, <1>2, StatusSets
  <2>4. ASSUME NEW i \in Jobs, i # j, Promoting(i)', Orderly(Target[i])'
        PROVE  Undoable(i)'
    <3>1. Promoting(i) /\ Root(i)' = Root(i) /\ Orderly(Target[i]) /\ Undoable(i)
      BY <1>0, <1>2, <2>4, OrderlyKept DEF Publication
    <3>2. Root(i) \in Tokens /\ Target[i] \in Targets
      BY <1>0, <3>1, RootToken, StatusSets, DownloadAssumption DEF Promoting
    <3> QED
      BY <1>d, <3>1, <3>2, UndoableKept
  <2>5. ASSUME Orderly(t)' PROVE Undoable(j)'
    <3>1. Whole(t)
      <4>1. ASSUME NEW i \in Jobs, Target[i] = t, Promoting(i)
            PROVE  FALSE
        <5>1. i # j /\ Promoting(i)'
          BY <1>1, <1>2, <4>1
        <5>2. Taken(row'[i]) /\ Taken(row'[j])
          BY <1>1, <5>1 DEF Taken, Promoting
        <5>3. t \in doubled'
          BY <1>0, <1>c, <4>1, <5>1, <5>2 DEF OneTargetOwner
        <5> QED
          BY <2>5, <5>3 DEF Orderly
      <4> QED
        BY <1>0, <2>5, <4>1, OrderlyKept DEF Publication
    <3>2. Same(t) /\ Light(k)
      BY <1>d
    <3>3. Before(t, k)' /\ ~disk'[k].receipt
      BY <1>1, <3>1, <3>2, WholeKept DEF Before, Light
    <3> QED
      BY <1>1, <1>c, <3>3 DEF Undoable, Reversible
  <2>6. \A i \in Jobs: (Promoting(i) /\ Orderly(Target[i]))' => Undoable(i)'
    BY <1>c, <2>4, <2>5
  <2>7. \A x \in Targets:
          (Orderly(x) /\ (\A i \in Jobs: Target[i] = x => ~Promoting(i)))' => Whole(x)'
    BY <2>2
  <2>8. \A i \in Jobs: row'[i].status \in Active =>
           \A x \in Targets: installed'[x] # Root(i)'
    BY <1>0, <2>3 DEF Publication
  <2> QED
    BY <2>1, <2>6, <2>7, <2>8 DEF Publication
<1>7. ASSUME NEW v \in Workers, worker'[v].thread = "removing"
      PROVE  Emptied(v)'
  <2>1. worker[v].thread = "removing" /\ Emptied(v)
    BY <1>7 DEF IInv, Progress, ProgressOf
  <2>2. Keeps(v)
    BY <1>7, MovesFacts DEF AtWork
  <2>3. PICK i \in Jobs, x \in Tokens: i = worker[v].job /\ x = worker[v].source /\ x # 0
    BY <1>0, <2>1, BusyFacts DEF Job, Src
  <2>4. ~(i = j /\ x = k)
    <3>1. worker[w].thread = "none"
      BY Threadless DEF Begun
    <3> QED
      BY <1>0, <1>1, <2>1, <2>3, <3>1, <1>b DEF OneOwner
  <2>5. Promoting(i)' /\ Root(i)' = x => Promoting(i) /\ Root(i) = x
    BY <1>1, <1>2, <2>4
  <2>6. Before(Target[i], x) => Before(Target[i], x)'
    <3>1. Light(x) /\ Same(Target[i])
      BY <1>d, DownloadAssumption
    <3> QED
      BY <3>1, StatesKept DEF Light
  <2> QED
    BY <2>1, <2>2, <2>3, <2>5, <2>6, EmptiedKept
<1>8. Progress'
  BY <1>7, CalmProgress
<1> QED
  BY <1>3, <1>4, <1>5, <1>6, <1>8 DEF IInv

LEMMA LeaseStep ==
    ASSUME IInv, RInv', Watches, NEW w \in Workers, NEW early, NEW reply \in Replies,
           LeaseIsValid(w, early, reply)
    PROVE  IInv'
<1>0. TInv /\ RInv /\ PlaceOf(w) /\ ProgressOf(w)
  BY DEF IInv, RInv, Place, Progress
<1>1. /\ worker[w].pc = "staged" /\ Leaves(w, {"erring", "reserved"})
      /\ OnlyRow(Job(w)) /\ row'[Job(w)] \in {row[Job(w)], Reserved(w, early)}
      /\ disk' \in {disk, StageRemoved(Tok(w))} /\ worker[w].thread = "none"
      /\ UNCHANGED <<final, registry, installed, refused>>
  <2>1. worker[w].pc = "staged"
    BY <1>0, LeaseIsValidEffect
  <2>2. worker[w].thread = "none"
    BY <2>1, Threadless DEF Begun
  <2> QED
    BY <1>0, <2>1, <2>2, LeaseIsValidEffect
<1>2. Job(w) \in Jobs /\ Tok(w) \in Tokens
  BY <1>0, <1>1, BusyFacts
<1>3. ~disk[Tok(w)].receipt
  BY <1>0, <1>1 DEF PlaceOf, ProgressOf, Begun, Tok
<1>4. \A k \in Tokens: Light(k)
  BY <1>0, <1>1, <1>2, <1>3, LightRemoval
<1>5. \A v \in Workers: worker'[v].thread \in {"none", worker[v].thread}
  BY <1>1, Constructed DEF Leaves, Only
<1>6. \A v \in Workers: Moves(v)
  BY <1>1 DEF Leaves, Only, Moves
<1>7. CASE CalmJob(Job(w))
  <2>1. \A i \in Jobs: CalmJob(i)
    BY <1>1, <1>2, <1>7, OneJobCalm
  <2> QED
    BY <1>1, <1>4, <1>5, <1>6, <2>1, ThreadsKept, CalmStep DEF Calm, Marks
<1>8. CASE ~CalmJob(Job(w))
  <2>1. /\ row[Job(w)].token = Tok(w)
        /\ row[Job(w)].status \in Running /\ ~Requested(row[Job(w)])
        /\ row'[Job(w)].status = "promoting" /\ row'[Job(w)].token = row[Job(w)].token
        /\ row'[Job(w)].source = 0 /\ row[Job(w)].source = 0
    BY <1>0, <1>1, <1>2, <1>8, ReservedCases, StillKept, StatusSets
    DEF CalmJob, Promoting, LeasedTo
  <2> QED
    BY <1>1, <1>4, <1>5, <1>6, <2>1, ReserveStep
<1> QED
  BY <1>7, <1>8

-----------------------------------------------------------------------------
(* Steps inside the publication guard. *)

\* What the guard of an execution rests on.
LEMMA GuardFacts ==
    ASSUME IInv, NEW w \in Workers, worker[w].pc # "idle", Promoting(Job(w)),
           row[Job(w)].token = Tok(w)
    PROVE  /\ Job(w) \in Jobs /\ Src(w) \in Tokens /\ Src(w) # 0 /\ Tok(w) # 0
           /\ Target[Job(w)] \in Targets /\ Root(Job(w)) = Src(w)
           /\ final[Target[Job(w)]] \in Dir /\ disk[Src(w)].backup \in Dir
           /\ disk[Src(w)] \in Disk
           /\ Sound(final[Target[Job(w)]]) /\ Sound(disk[Src(w)].backup)
           /\ Orderly(Target[Job(w)]) => Reversible(Target[Job(w)], Src(w))
           /\ installed[Target[Job(w)]] # Src(w)
<1>1. TInv /\ RInv /\ PlaceOf(w) /\ Publication
  BY DEF IInv, RInv, Place
<1>2. /\ Job(w) \in Jobs /\ Src(w) \in Tokens /\ Src(w) # 0 /\ Tok(w) # 0
      /\ Target[Job(w)] \in Targets /\ final[Target[Job(w)]] \in Dir
      /\ disk[Src(w)] \in Disk
  BY <1>1, BusyFacts
<1>3. Root(Job(w)) = Src(w)
  BY <1>1 DEF PlaceOf, Job, Tok, Src
<1>4. row[Job(w)].status \in Active
  BY StatusSets DEF Promoting
<1> QED
  BY <1>1, <1>2, <1>3, <1>4, RootFields DEF Publication, Undoable

\* Another execution has nothing to do with the root or the target that an
\* execution works on in its guard.
LEMMA OthersApart ==
    ASSUME IInv, NEW w \in Workers, worker[w].pc # "idle", Promoting(Job(w)),
           row[Job(w)].token = Tok(w),
           worker[w].pc \in InGuard \/ ~Locked(Target[Job(w)]),
           worker[w].pc \in InGuard \/ Src(w) = Tok(w) \/ disk[Src(w)].receipt,
           NEW v \in Workers, v # w, worker[v].pc # "idle"
    PROVE  /\ worker[v].pc \in InGuard => /\ Target[Job(v)] # Target[Job(w)]
                                          /\ Src(v) # Src(w)
           /\ worker[v].pc \in Begun => Src(v) # Src(w)
<1>1. TInv /\ RInv /\ PlaceOf(v) /\ ProgressOf(v) /\ OneOwner
  BY DEF IInv, RInv, Place, Progress
<1>2. /\ Job(w) \in Jobs /\ Root(Job(w)) = Src(w) /\ Tok(w) # 0
      /\ Src(w) \in Names(row[Job(w)])
  BY <1>1, GuardFacts, RootToken, StatusSets DEF Promoting
<1>3. ASSUME worker[v].pc \in InGuard
      PROVE  Target[Job(v)] # Target[Job(w)] /\ Src(v) # Src(w)
  <2>1. Target[Job(v)] # Target[Job(w)]
    BY <1>1, <1>3 DEF OneOwner, Locked, Job
  <2>2. Promoting(Job(v)) /\ row[Job(v)].token = Tok(v)
    BY <1>1, <1>3 DEF PlaceOf, Job, Tok
  <2>3. Job(v) \in Jobs /\ Src(v) \in Names(row[Job(v)])
    BY <1>1, <2>2, GuardFacts, RootToken, StatusSets DEF Promoting
  <2> QED
    BY <1>1, <1>2, <2>1, <2>3, OneName
<1>4. ASSUME worker[v].pc \in Begun, Src(v) = Src(w)
      PROVE  FALSE
  <2>1. Src(v) = Tok(v) /\ ~disk[Src(v)].receipt
    BY <1>1, <1>4 DEF PlaceOf, ProgressOf, Src, Tok
  <2>2. CASE Src(w) = Tok(w)
    BY <1>1, <1>2, <1>4, <2>1, <2>2 DEF OneOwner, Tok
  <2>3. CASE worker[w].pc \in InGuard
    BY <1>1, <1>4, <2>3 DEF OneOwner, AtWork, Src
  <2> QED
    BY <1>4, <2>1, <2>2, <2>3
<1> QED
  BY <1>3, <1>4

\* A thread that removes the staging root of a promotion has undone it ...
LEMMA RemoverBefore ==
    ASSUME IInv, NEW w \in Workers, worker[w].pc # "idle", Promoting(Job(w)),
           row[Job(w)].token = Tok(w), Orderly(Target[Job(w)]),
           NEW u \in Workers, worker[u].thread = "removing", Src(u) = Src(w)
    PROVE  Before(Target[Job(w)], Src(w))
<1>1. Root(Job(w)) = Src(w) /\ Job(w) \in Jobs
  BY GuardFacts
<1>2. worker[u].job = Job(w)
  BY <1>1, RootOwner, StatusSets DEF Promoting, Src
<1>3. Emptied(u)
  BY DEF IInv, Progress, ProgressOf
<1> QED
  BY <1>1, <1>2, <1>3 DEF Emptied, Src

\* ... and is never there while the lease that staged it publishes.
LEMMA NoRemover ==
    ASSUME IInv, NEW w \in Workers, worker[w].pc # "idle", Promoting(Job(w)),
           row[Job(w)].token = Tok(w), Src(w) = Tok(w), worker[w].thread # "removing",
           NEW u \in Workers, worker[u].thread = "removing"
    PROVE  Src(u) # Src(w)
<1>1. Job(w) \in Jobs /\ Tok(w) # 0
  BY GuardFacts
<1> QED
  BY <1>1 DEF IInv, OneOwner, Src, Tok

\* A step in the guard is right when it is right for its own target and root.
LEMMA GuardStep ==
    ASSUME IInv, RInv', Watches,
           NEW w \in Workers, worker[w].pc # "idle", Promoting(Job(w)),
           row[Job(w)].token = Tok(w),
           worker[w].pc \in InGuard \/ ~Locked(Target[Job(w)]),
           worker[w].pc \in InGuard \/ Src(w) = Tok(w) \/ disk[Src(w)].receipt,
           Only(w), Keeps(w), worker'[w].pc \notin {"idle", "cleaning"},
           worker'[w].pc \in Begun => worker[w].pc \in Begun,
           LocalOf(worker'[w]),
           UNCHANGED <<row, installed, refused>>,
           NEW t \in Targets, t = Target[Job(w)], NEW k \in Tokens, k = Src(w),
           OnlyTarget(t), OnlyRoot(k),
           Sound(final'[t]), Sound(disk'[k].backup),
           worker'[w].pc \in Begun => ~disk'[k].receipt /\ disk'[k].backup = Nothing,
           Orderly(t)' => Reversible(t, k)',
           Orderly(t)' /\ worker'[w].pc \in InGuard => FarAs(w, t, k)',
           \A u \in Workers: worker'[u].thread = "removing" /\ Src(u) = k
                             /\ Orderly(t)' => Before(t, k)'
    PROVE  IInv'
<1>0. TInv /\ RInv /\ OneOwner /\ Publication /\ OneTargetOwner
  BY DEF IInv, RInv
<1>a. PICK j \in Jobs: j = Job(w)
  BY GuardFacts
<1>1. /\ Promoting(j) /\ Target[j] = t /\ Root(j) = k /\ k \in Names(row[j])
      /\ worker[w].job = j /\ worker[w].source = k /\ worker[w].token = row[j].token
  BY <1>0, <1>a, GuardFacts, RootToken, StatusSets DEF Promoting, Job, Src, Tok
<1>2. Refusals'
  BY DEF IInv, Refusals
<1>3. OneOwner'
  <2>1. \A v \in Workers: Keeps(v)
    BY DEF Only, Keeps
  <2>2. ASSUME NEW v \in Workers, NEW u \in Workers, worker'[v].pc \in InGuard,
               worker'[u].pc \in InGuard, Target[worker'[v].job] = Target[worker'[u].job]
        PROVE  v = u
    <3>1. ASSUME NEW x \in Workers, x # w, worker'[x].pc \in InGuard,
                 Target[worker'[x].job] = t
          PROVE  FALSE
      <4>1. worker[x].pc \in InGuard /\ worker[x].pc # "idle"
        BY <3>1 DEF Only, InGuard
      <4> QED
        BY <2>1, <3>1, <4>1, OthersApart DEF Job, Keeps
    <3>2. v # w /\ u # w => worker'[v] = worker[v] /\ worker'[u] = worker[u]
      BY DEF Only
    <3> QED
      BY <1>0, <1>1, <2>1, <2>2, <3>1, <3>2 DEF OneOwner, Keeps
  <2>3. ASSUME NEW v \in Workers, NEW u \in Workers,
               worker'[v].pc \in Begun, AtWork(worker'[u]), v # u
        PROVE  worker'[v].source # worker'[u].source
    <3>1. worker[v].pc \in Begun
      BY <2>3 DEF Only
    <3>2. CASE u = w
      <4>1. v # w /\ worker[v].pc # "idle"
        BY <2>3, <3>1, <3>2 DEF Begun
      <4> QED
        BY <2>1, <3>1, <3>2, <4>1, OthersApart DEF Src, Keeps
    <3>3. CASE u # w
      BY <1>0, <2>1, <2>3, <3>1, <3>3 DEF OneOwner, Only, Keeps
    <3> QED
      BY <3>2, <3>3
  <2> QED
    BY <1>0, <2>1, <2>2, <2>3, OwnersKept
<1>4. Place'
  <2> SUFFICES ASSUME NEW v \in Workers PROVE PlaceOf(v)'
    BY DEF Place
  <2>1. CASE v # w
    <3>1. PlaceOf(v) /\ worker'[v] = worker[v]
      BY <2>1 DEF IInv, Place, Only
    <3> QED
      BY <3>1 DEF PlaceOf, Promoting, Root
  <2>2. CASE v = w
    <3>1. RowOf(w)'
      BY <1>1 DEF RowOf, Promoting, Root, Keeps
    <3> QED
      BY <2>2, <3>1, PlaceParts
  <2> QED
    BY <2>1, <2>2
<1>b. \A x \in Targets: x # t => Same(x)
  BY DEF Same, OnlyTarget
<1>c. \A x \in Tokens: x # k => Light(x)
  BY DEF Light, OnlyRoot
<1>d. \A i \in Jobs: Root(i)' = Root(i) /\ Promoting(i)' = Promoting(i)
  BY DEF Root, Promoting
<1>e. ASSUME NEW i \in Jobs, i # j, Promoting(i), Orderly(Target[i])'
      PROVE  Target[i] # t /\ Target[i] \in Targets /\ Root(i) # k /\ Root(i) \in Tokens
             /\ Orderly(Target[i])
  <2>1. Root(i) \in Names(row[i]) /\ Root(i) \in Tokens
    BY <1>0, <1>e, RootToken, StatusSets DEF Promoting
  <2>2. Root(i) # k
    BY <1>0, <1>1, <1>e, <2>1, OneName
  <2>3. Orderly(Target[i])
    BY <1>e, OrderlyKept
  <2>4. Target[i] # t
    BY <1>0, <1>1, <1>e, <2>3 DEF OneTargetOwner, Taken, Promoting, Orderly
  <2> QED
    BY <2>1, <2>2, <2>3, <2>4, DownloadAssumption
<1>5. Publication'
  <2>1. \A x \in Targets: Sound(final'[x])
    BY <1>0 DEF Publication, OnlyTarget
  <2>2. \A x \in Tokens: Sound(disk'[x].backup)
    BY <1>0 DEF Publication, OnlyRoot
  <2>3. ASSUME NEW x \in Targets, Orderly(x)',
               \A i \in Jobs: Target[i] = x => ~Promoting(i)'
        PROVE  Whole(x)'
    <3>1. x # t /\ \A i \in Jobs: Target[i] = x => ~Promoting(i)
      BY <1>1, <1>d, <2>3
    <3>2. Whole(x) /\ Same(x)
      BY <1>0, <1>b, <2>3, <3>1, OrderlyKept DEF Publication
    <3> QED
      BY <3>2, WholeKept
  <2>4. ASSUME NEW i \in Jobs, Promoting(i)', Orderly(Target[i])' PROVE Undoable(i)'
    <3>1. CASE i = j
      BY <1>1, <1>d, <2>4, <3>1 DEF Undoable
    <3>2. CASE i # j
      <4>1. Promoting(i) /\ Root(i)' = Root(i)
        BY <1>d, <2>4
      <4>2. Target[i] # t /\ Target[i] \in Targets /\ Root(i) # k /\ Root(i) \in Tokens
            /\ Orderly(Target[i])
        BY <1>e, <2>4, <3>2, <4>1
      <4>3. Undoable(i) /\ Light(Root(i)) /\ Same(Target[i])
        BY <1>0, <1>b, <1>c, <4>1, <4>2 DEF Publication
      <4> QED
        BY <4>1, <4>2, <4>3, UndoableKept
    <3> QED
      BY <3>1, <3>2
  <2>5. \A i \in Jobs: (Promoting(i) /\ Orderly(Target[i]))' => Undoable(i)'
    BY <2>4
  <2>6. \A x \in Targets:
          (Orderly(x) /\ (\A i \in Jobs: Target[i] = x => ~Promoting(i)))' => Whole(x)'
    BY <2>3
  <2>7. \A i \in Jobs: row'[i].status \in Active =>
           \A x \in Targets: installed'[x] # Root(i)'
    BY <1>0, <1>d DEF Publication
  <2> QED
    BY <2>1, <2>2, <2>5, <2>6, <2>7 DEF Publication
<1>6. ASSUME NEW v \in Workers, worker'[v].thread = "removing"
      PROVE  Emptied(v)'
  <2>0. Keeps(v)
    BY DEF Only, Keeps
  <2>1. worker[v].pc # "idle" \/ worker[v].thread # "none"
    BY <1>6 DEF Only
  <2>2. PICK i \in Jobs, x \in Tokens: i = worker[v].job /\ x = worker[v].source
    BY <1>0, <2>1, BusyFacts DEF Job, Src
  <2>3. CASE x = k
    <3> SUFFICES ASSUME Promoting(i)', Root(i)' = x, Orderly(Target[i])'
                 PROVE  Before(Target[i], x)'
      BY <2>0, <2>2 DEF Emptied, Keeps, Promoting, Root, Orderly
    <3>1. i = j
      BY <1>d, <1>e, <2>3
    <3>2. Orderly(t)' /\ Src(v) = k
      BY <1>1, <2>2, <2>3, <3>1 DEF Src
    <3>3. Before(t, k)'
      BY <1>6, <3>2
    <3> QED
      BY <1>1, <2>3, <3>1, <3>3
  <2>4. CASE x # k
    <3>1. worker[v].thread = "removing" /\ Emptied(v)
      BY <1>1, <1>6, <2>2, <2>4 DEF Only, IInv, Progress, ProgressOf
    <3>2. Promoting(i)' /\ Root(i)' = x => Promoting(i) /\ Root(i) = x
      BY <1>d
    <3>3. ASSUME Promoting(i), Root(i) = x, Orderly(Target[i])', Before(Target[i], x)
          PROVE  Before(Target[i], x)'
      <4>1. i # j
        BY <1>1, <2>4, <3>3
      <4>2. Same(Target[i]) /\ Light(x)
        BY <1>b, <1>c, <1>e, <2>4, <3>3, <4>1
      <4> QED
        BY <3>3, <4>2, StatesKept DEF Light
    <3> QED
      BY <2>0, <2>1, <2>2, <3>1, <3>2, <3>3, EmptiedKept
  <2> QED
    BY <2>3, <2>4
<1>7. Progress'
  <2> SUFFICES ASSUME NEW v \in Workers PROVE ProgressOf(v)'
    BY DEF Progress
  <2>0. ProgressOf(v) /\ Keeps(v)
    BY DEF IInv, Progress, Only, Keeps
  <2>1. CASE v = w
    <3>1. t = Target[worker'[w].job] /\ k = worker'[w].source
      BY <1>1 DEF Keeps
    <3> QED
      BY <1>6, <2>1, <3>1, ProgressParts
  <2>2. CASE v # w
    <3>1. worker'[v] = worker[v]
      BY <2>2 DEF Only
    <3>2. PICK s, x: s = Target[worker[v].job] /\ x = worker[v].source
      OBVIOUS
    <3>3. worker[v].pc # "idle" => x \in Tokens /\ s \in Targets
      BY <1>0, <3>2, BusyFacts DEF Job, Src
    <3>4. worker'[v].pc \in Begun => ~disk'[x].receipt /\ disk'[x].backup = Nothing
      <4> SUFFICES ASSUME worker[v].pc \in Begun
                   PROVE  ~disk'[x].receipt /\ disk'[x].backup = Nothing
        BY <3>1
      <4>1. worker[v].pc # "idle"
        BY DEF Begun
      <4>2. x # k /\ x \in Tokens
        BY <2>2, <3>2, <3>3, <4>1, OthersApart DEF Src
      <4> QED
        BY <2>0, <3>2, <4>2 DEF ProgressOf, OnlyRoot
    <3>5. ASSUME worker'[v].pc \in InGuard, Orderly(s)'
          PROVE  FarAs(v, s, x)'
      <4>1. worker[v].pc # "idle" /\ worker[v].pc \in InGuard
        BY <3>1, <3>5 DEF InGuard
      <4>2. s # t /\ x # k
        BY <2>2, <3>2, <4>1, OthersApart DEF Src, Job
      <4>3. Same(s) /\ disk'[x] = disk[x]
        BY <1>b, <3>3, <4>1, <4>2 DEF OnlyRoot
      <4>4. FarAs(v, s, x)
        BY <2>0, <3>2, <3>5, <4>1, OrderlyKept DEF ProgressOf
      <4>5. /\ Before(s, x)' <=> Before(s, x)
            /\ Between(s, x)' <=> Between(s, x)
            /\ After(s, x)' <=> After(s, x)
            /\ Journal(s, x)' <=> Journal(s, x)
            /\ Lists(s, x)' <=> Lists(s, x)
            /\ Lists(s, installed[s])' <=> Lists(s, installed[s])
        BY <4>3, StatesKept
      <4> QED
        BY <3>1, <4>3, <4>4, <4>5 DEF FarAs
    <3> QED
      BY <1>6, <3>1, <3>2, <3>4, <3>5, ProgressParts
  <2> QED
    BY <2>1, <2>2
<1> QED
  BY <1>2, <1>3, <1>4, <1>5, <1>7 DEF IInv

\* An empty directory is the one without content.
LEMMA EmptyDir ==
    ASSUME NEW d \in Dir, Sound(d)
    PROVE  d = Nothing <=> d.content = 0
  BY DEF Dir, Sound, Nothing

LEMMA SoundNothing == Sound(Nothing) /\ Nothing \in Dir /\ Nothing.content = 0
                      /\ Nothing.marker = 0
  BY Constructed DEF Sound

\* A step that leaves what is before a publication before it leaves the
\* removal of its staging root right.
LEMMA RemoversKept ==
    ASSUME IInv, Watches, NEW w \in Workers, worker[w].pc # "idle", Promoting(Job(w)),
           row[Job(w)].token = Tok(w), Only(w),
           worker'[w].thread = "removing" => worker[w].thread = "removing",
           NEW t, t = Target[Job(w)], NEW k, k = Src(w),
           Orderly(t)' /\ Before(t, k) => Before(t, k)'
    PROVE  \A u \in Workers: worker'[u].thread = "removing" /\ Src(u) = k
                             /\ Orderly(t)' => Before(t, k)'
<1> SUFFICES ASSUME NEW u \in Workers, worker'[u].thread = "removing", Src(u) = k,
                    Orderly(t)'
             PROVE  Before(t, k)'
  OBVIOUS
<1>1. worker[u].thread = "removing"
  BY DEF Only
<1>2. Orderly(t)
  BY OrderlyKept
<1>3. Before(t, k)
  BY <1>1, <1>2, RemoverBefore
<1> QED
  BY <1>3

\* publication_guard.
LEMMA EnterGuardStep ==
    ASSUME IInv, RInv', Watches, NEW w \in Workers, NEW reply \in Replies,
           EnterGuard(w, reply)
    PROVE  IInv'
<1>0. TInv /\ RInv /\ PlaceOf(w) /\ ProgressOf(w)
  BY DEF IInv, RInv, Place, Progress
<1>1. worker[w].pc = "reserved" /\ ~Locked(Target[Job(w)])
  BY <1>0, EnterGuardEffect
<1>2. worker[w].thread = "none"
  BY <1>1, Threadless DEF Begun
<1>3. /\ Leaves(w, {"erring", "guarded"}) /\ disk' \in {disk, StageRemoved(Tok(w))}
      /\ UNCHANGED <<row, final, registry, installed, refused>>
      /\ worker'[w].pc = "guarded" => MayPublish(w) /\ disk' = disk
  BY <1>0, <1>2, EnterGuardEffect
<1>4. /\ Src(w) = Tok(w) /\ ~disk[Src(w)].receipt /\ disk[Src(w)].backup = Nothing
      /\ Src(w) \in Tokens
  BY <1>0, <1>1, BusyFacts DEF PlaceOf, ProgressOf, Begun, Src, Tok
<1>5. CASE worker'[w].pc # "guarded"
  <2>1. \A k \in Tokens: Light(k)
    BY <1>0, <1>3, <1>4, LightRemoval
  <2>2. /\ \A v \in Workers: Moves(v)
        /\ \A v \in Workers: worker'[v].thread = "removing" => Emptied(v)
    BY <1>1, <1>2, <1>3, <1>5, LeavesMoves DEF Leaves
  <2> QED
    BY <1>3, <2>1, <2>2, SameRows, CalmStep DEF Calm, Marks
<1>6. CASE worker'[w].pc = "guarded"
  <2>1. Promoting(Job(w)) /\ row[Job(w)].token = Tok(w) /\ disk' = disk
    BY <1>3, <1>6 DEF MayPublish, Promoting
  <2>2. PICK t \in Targets: t = Target[Job(w)]
    BY <1>1, <2>1, GuardFacts
  <2>3. PICK k \in Tokens: k = Src(w)
    BY <1>4
  <2>4. /\ Sound(final'[t]) /\ Sound(disk'[k].backup)
        /\ ~disk'[k].receipt /\ disk'[k].backup = Nothing
    BY <1>1, <1>3, <1>4, <2>1, <2>2, <2>3, GuardFacts
  <2>5. ASSUME Orderly(t)' PROVE Reversible(t, k)'
    <3>1. Reversible(t, k)
      BY <1>1, <2>1, <2>2, <2>3, <2>5, GuardFacts, OrderlyKept
    <3> QED
      BY <1>3, <2>1, <3>1 DEF Reversible, Before, Between, After, Whole, Journal, Lists
  <2>6. /\ OnlyTarget(t) /\ OnlyRoot(k) /\ Only(w) /\ Keeps(w)
        /\ worker'[w].thread = "none"
    BY <1>0, <1>2, <1>3, <1>6, <2>1, Constructed
    DEF OnlyTarget, OnlyRoot, TInv, TypeOK, Leaves
  <2>7. LocalOf(worker'[w]) /\ worker[w].pc \in Begun
    BY <1>1, <1>4, <1>6, <2>6 DEF LocalOf, Keeps, Src, Tok, Begun
  <2>8. Before(t, k)' <=> Before(t, k)
    BY <1>3, <2>1 DEF Before, Whole, Lists
  <2>9. \A u \in Workers: worker'[u].thread = "removing" /\ Src(u) = k
                          /\ Orderly(t)' => Before(t, k)'
    BY <1>1, <2>1, <2>2, <2>3, <2>6, <2>8, RemoversKept
  <2>10. FarAs(w, t, k)'
    BY <1>6 DEF FarAs
  <2> QED
    BY <1>1, <1>3, <1>4, <1>6, <2>1, <2>2, <2>3, <2>4, <2>5, <2>6, <2>7, <2>9, <2>10,
       GuardStep
<1> QED
  BY <1>5, <1>6

\* The receipt is written in the guard: whoever asks for it next.
LEMMA WritesReceipt ==
    ASSUME IInv, RInv', Watches, NEW w \in Workers, worker[w].pc = "guarded",
           Only(w), Keeps(w), LocalOf(worker'[w]),
           \/ worker'[w].pc = "journaled" /\ worker'[w].thread = "backup"
           \/ worker'[w].pc = "cancelling" /\ worker'[w].thread = "none",
           NEW t, t = Target[Job(w)], NEW k, k = Tok(w),
           UNCHANGED <<row, final, registry, installed, refused>>, OnlyRoot(k),
           disk'[k].receipt, disk'[k].prior = registry[Model[t]],
           disk'[k].had = (final[t] # Nothing), disk'[k].backup = disk[k].backup
    PROVE  IInv'
<1>0. TInv /\ PlaceOf(w) /\ ProgressOf(w)
  BY DEF IInv, RInv, Place, Progress
<1>a. worker[w].pc \in InGuard
  BY DEF InGuard
<1>b. worker[w].pc # "idle" /\ Promoting(Job(w)) /\ row[Job(w)].token = Tok(w)
  BY <1>a, InGuardOwner
<1>1. k = Src(w) /\ ~disk[k].receipt /\ disk[k].backup = Nothing
  BY <1>0 DEF PlaceOf, ProgressOf, Begun, Src, Tok
<1>2. /\ t \in Targets /\ k \in Tokens /\ final[t] \in Dir /\ Sound(final[t])
      /\ Sound(disk[k].backup)
  BY <1>b, <1>1, GuardFacts
<1>3. OnlyTarget(t)
  BY <1>0 DEF OnlyTarget, TInv, TypeOK
<1>4. Before(t, k)' <=> Before(t, k)
  BY DEF Before, Whole, Lists
<1>5. ASSUME Orderly(t)' PROVE Before(t, k)' /\ Journal(t, k)'
  <2>1. Reversible(t, k)
    BY <1>b, <1>1, <1>5, GuardFacts, OrderlyKept
  <2>2. Before(t, k)
    BY <1>1, <2>1 DEF Reversible
  <2>3. final[t] # Nothing <=> installed[t] # 0
    BY <1>2, <2>2, EmptyDir DEF Before, Whole
  <2> QED
    BY <1>4, <2>2, <2>3 DEF Journal, Before, Whole, Lists
<1>6. Orderly(t)' => Reversible(t, k)'
  BY <1>5 DEF Reversible
<1>7. Orderly(t)' /\ worker'[w].pc \in InGuard => FarAs(w, t, k)'
  BY <1>5 DEF FarAs, InGuard
<1>8. \A u \in Workers: worker'[u].thread = "removing" /\ Src(u) = k
                        /\ Orderly(t)' => Before(t, k)'
  BY <1>b, <1>1, <1>4, RemoversKept
<1>9. worker'[w].pc \notin Begun \cup {"idle", "cleaning"}
  BY DEF Begun
<1> QED
  BY <1>a, <1>b, <1>1, <1>2, <1>3, <1>6, <1>7, <1>8, <1>9, GuardStep

\* create_journal.
LEMMA JournalStep ==
    ASSUME IInv, RInv', Watches, NEW w \in Workers, NEW ok \in BOOLEAN,
           CreateJournal(w, ok)
    PROVE  IInv'
<1>0. TInv /\ PlaceOf(w)
  BY DEF IInv, RInv, Place
<1>a. PICK t, k: t = Target[Job(w)] /\ k = Tok(w)
  OBVIOUS
<1>1. /\ Only(w) /\ Keeps(w) /\ worker[w].pc = "guarded"
      /\ worker'[w].pc = (IF ok THEN "journaled" ELSE "erring")
      /\ worker'[w].thread = (IF ok THEN "backup" ELSE "none")
      /\ OnlyRoot(k) /\ UNCHANGED <<row, final, registry, installed, refused>>
      /\ ok => /\ disk'[k].receipt /\ disk'[k].prior = registry[Model[t]]
               /\ disk'[k].had = (final[t] # Nothing)
               /\ disk'[k].backup = disk[k].backup
      /\ ~ok => disk' = disk
  BY <1>0, <1>a, CreateJournalEffect
<1>2. worker[w].thread = "none"
  BY <1>1, Threadless DEF Begun
<1>3. CASE ok
  <2>1. LocalOf(worker'[w])
    BY <1>0, <1>1, <1>3 DEF LocalOf, PlaceOf, Keeps, Begun
  <2> QED
    BY <1>a, <1>1, <1>3, <2>1, WritesReceipt
<1>4. CASE ~ok
  <2>1. /\ \A v \in Workers: Moves(v)
        /\ \A v \in Workers: worker'[v].thread = "removing" => Emptied(v)
    BY <1>1, <1>2, <1>4, LeavesMoves
  <2> QED
    BY <1>1, <1>4, <2>1, SameRows, SameDisk, CalmStep DEF Calm, Marks
<1> QED
  BY <1>3, <1>4

\* The first half of promote, while its execution waits for it.
LEMMA BackupStep ==
    ASSUME IInv, RInv', Watches, NEW w \in Workers, PromoteBackup(w),
           worker[w].pc = "journaled"
    PROVE  IInv'
<1>0. TInv /\ PlaceOf(w) /\ ProgressOf(w)
  BY DEF IInv, RInv, Place, Progress
<1>a. worker[w].thread = "backup" /\ worker[w].pc \in InGuard
  BY DEF PromoteBackup, InGuard
<1>b. worker[w].pc # "idle" /\ Promoting(Job(w)) /\ row[Job(w)].token = Tok(w)
  BY <1>a, InGuardOwner
<1>c. PICK t \in Targets: t = Target[Job(w)]
  BY <1>b, GuardFacts
<1>d. PICK k \in Tokens: k = Src(w)
  BY <1>b, GuardFacts
<1>1. k = Tok(w)
  BY <1>0, <1>d DEF PlaceOf, Src, Tok
<1>2. /\ final[t] \in Dir /\ Sound(final[t]) /\ Sound(disk[k].backup) /\ disk[k] \in Disk
  BY <1>b, <1>c, <1>d, GuardFacts
<1>3. ASSUME Orderly(t)'
      PROVE  disk[k].receipt /\ Before(t, k) /\ Journal(t, k)
             /\ disk[k].had = (final[t] # Nothing)
  <2>1. Orderly(t)
    BY <1>3, OrderlyKept
  <2>2. disk[k].receipt /\ Before(t, k) /\ Reversible(t, k)
    BY <1>0, <1>a, <1>b, <1>c, <1>d, <2>1, GuardFacts DEF ProgressOf, FarAs, Src, Job
  <2>3. Journal(t, k)
    BY <2>2 DEF Reversible
  <2>4. final[t] # Nothing <=> installed[t] # 0
    BY <1>2, <2>2, EmptyDir DEF Before, Whole
  <2> QED
    BY <1>2, <2>2, <2>3, <2>4, RootFields DEF Journal
<1>4. /\ Only(w) /\ OnlyRoot(k) /\ OnlyTarget(t) /\ UNCHANGED <<row, installed, refused>>
      /\ registry' = registry
      /\ disk[k].had = (final[t] # Nothing) =>
            /\ final'[t] = Nothing /\ disk'[k].backup = final[t]
            /\ disk'[k].receipt = disk[k].receipt
            /\ disk'[k].had = disk[k].had /\ disk'[k].prior = disk[k].prior
            /\ Keeps(w) /\ worker'[w].thread = "rename"
            /\ worker'[w].pc = worker[w].pc
      /\ disk[k].had # (final[t] # Nothing) =>
            /\ UNCHANGED <<final, disk>>
            /\ Keeps(w) /\ worker'[w].thread = "none" /\ worker'[w].pc = "compensating"
  BY <1>0, <1>b, <1>c, <1>1, PromoteBackupEffect
<1>5. CASE disk[k].had = (final[t] # Nothing)
  <2>1. ASSUME Orderly(t)' PROVE Between(t, k)' /\ Journal(t, k)' /\ disk'[k].receipt
    BY <1>3, <1>4, <1>5, <2>1 DEF Between, Before, Whole, Journal, Lists
  <2>2. Orderly(t)' => Reversible(t, k)' /\ FarAs(w, t, k)'
    BY <1>4, <1>5, <2>1 DEF Reversible, FarAs
  <2>3. \A u \in Workers: ~(worker'[u].thread = "removing" /\ Src(u) = k)
    <3>1. worker'[w].thread # "removing" /\ worker[w].thread # "removing"
      BY <1>4, <1>5, <1>a
    <3> QED
      BY <1>b, <1>d, <1>1, <1>4, <3>1, NoRemover DEF Only
  <2>4. LocalOf(worker'[w]) /\ worker'[w].pc \notin Begun \cup {"idle", "cleaning"}
    BY <1>0, <1>4, <1>5 DEF LocalOf, PlaceOf, Keeps, Begun
  <2>5. Sound(final'[t]) /\ Sound(disk'[k].backup)
    BY <1>2, <1>4, <1>5, SoundNothing
  <2> QED
    BY <1>a, <1>b, <1>c, <1>d, <1>4, <1>5, <2>2, <2>3, <2>4, <2>5, GuardStep
<1>6. CASE disk[k].had # (final[t] # Nothing)
  <2>1. ~Orderly(t)'
    BY <1>3, <1>6
  <2>2. LocalOf(worker'[w]) /\ worker'[w].pc \notin Begun \cup {"idle", "cleaning"}
    BY <1>0, <1>4, <1>6 DEF LocalOf, PlaceOf, Keeps, Begun
  <2>3. Sound(final'[t]) /\ Sound(disk'[k].backup)
    BY <1>2, <1>4, <1>6
  <2> QED
    BY <1>a, <1>b, <1>c, <1>d, <1>4, <1>6, <2>1, <2>2, <2>3, GuardStep
<1> QED
  BY <1>5, <1>6

\* The second half of promote, while its execution waits for it.
LEMMA RenameStep ==
    ASSUME IInv, RInv', Watches, NEW w \in Workers, NEW ok \in BOOLEAN,
           PromoteRename(w, ok), worker[w].pc = "journaled"
    PROVE  IInv'
<1>0. TInv /\ PlaceOf(w) /\ ProgressOf(w)
  BY DEF IInv, RInv, Place, Progress
<1>a. worker[w].thread = "rename" /\ worker[w].pc \in InGuard
  BY DEF PromoteRename, InGuard
<1>b. worker[w].pc # "idle" /\ Promoting(Job(w)) /\ row[Job(w)].token = Tok(w)
  BY <1>a, InGuardOwner
<1>c. PICK t \in Targets: t = Target[Job(w)]
  BY <1>b, GuardFacts
<1>d. PICK k \in Tokens: k = Src(w)
  BY <1>b, GuardFacts
<1>1. k = Tok(w)
  BY <1>0, <1>d DEF PlaceOf, Src, Tok
<1>2. Sound(final[t]) /\ Sound(disk[k].backup)
  BY <1>b, <1>c, <1>d, GuardFacts
<1>3. ASSUME Orderly(t)'
      PROVE  disk[k].receipt /\ Between(t, k) /\ Journal(t, k) /\ final[t] = Nothing
  <2>1. Orderly(t)
    BY <1>3, OrderlyKept
  <2>2. disk[k].receipt /\ Between(t, k) /\ Reversible(t, k)
    BY <1>0, <1>a, <1>b, <1>c, <1>d, <2>1, GuardFacts DEF ProgressOf, FarAs, Src, Job
  <2> QED
    BY <2>2 DEF Reversible, Between
<1>4. /\ Only(w) /\ Keeps(w) /\ worker'[w].thread = "none"
      /\ worker'[w].pc = (IF ok THEN "promoted" ELSE "compensating")
      /\ OnlyRoot(k) /\ OnlyTarget(t) /\ UNCHANGED <<row, installed, refused>>
      /\ registry' = registry /\ disk'[k].receipt = disk[k].receipt
      /\ disk'[k].had = disk[k].had /\ disk'[k].prior = disk[k].prior
      /\ ok => /\ final'[t].content = k /\ final'[t].marker = k
               /\ disk'[k].backup = disk[k].backup
      /\ ~ok /\ final[t] = Nothing =>
            final'[t] = disk[k].backup /\ disk'[k].backup = Nothing
      /\ ~ok /\ final[t] # Nothing => UNCHANGED <<final, disk>>
  BY <1>0, <1>b, <1>c, <1>1, PromoteRenameEffect
<1>5. Sound(final'[t]) /\ Sound(disk'[k].backup)
  BY <1>2, <1>4, SoundNothing DEF Sound
<1>6. LocalOf(worker'[w]) /\ worker'[w].pc \notin Begun \cup {"idle", "cleaning"}
  BY <1>0, <1>4 DEF LocalOf, PlaceOf, Keeps, Begun
<1>7. \A u \in Workers: ~(worker'[u].thread = "removing" /\ Src(u) = k)
  BY <1>a, <1>b, <1>d, <1>1, <1>4, NoRemover DEF Only
<1>8. ASSUME Orderly(t)' PROVE Reversible(t, k)' /\ FarAs(w, t, k)'
  <2>0. Journal(t, k)'
    BY <1>3, <1>4, <1>8 DEF Journal
  <2>1. CASE ok
    <3>1. After(t, k)' /\ Lists(t, installed[t])'
      BY <1>3, <1>4, <1>8, <2>1 DEF Between, After, Lists
    <3> QED
      BY <1>3, <1>4, <1>8, <2>0, <2>1, <3>1 DEF Reversible, FarAs
  <2>2. CASE ~ok
    <3>1. Before(t, k)'
      BY <1>3, <1>4, <1>8, <2>2 DEF Between, Before, Whole, Lists
    <3> QED
      BY <1>4, <2>0, <2>2, <3>1 DEF Reversible, FarAs
  <2> QED
    BY <2>1, <2>2
<1> QED
  BY <1>a, <1>b, <1>c, <1>d, <1>4, <1>5, <1>6, <1>7, <1>8, GuardStep

\* An execution turns to the end of a publication, or to its compensation.
LEMMA TurnStep ==
    ASSUME IInv, RInv', Watches, NEW w \in Workers, worker[w].pc # "idle",
           Promoting(Job(w)), row[Job(w)].token = Tok(w),
           worker[w].pc \in InGuard \/ (~Locked(Target[Job(w)]) /\ disk[Src(w)].receipt),
           Only(w), Keeps(w), worker'[w].thread = worker[w].thread,
           LocalOf(worker'[w]),
           worker'[w].pc \in {"compensating", "registered", "deferring"},
           UNCHANGED <<row, final, registry, disk, installed, refused>>,
           NEW t \in Targets, t = Target[Job(w)], NEW k \in Tokens, k = Src(w),
           Orderly(t) /\ worker'[w].pc = "compensating" => Journal(t, k),
           Orderly(t) /\ worker'[w].pc = "registered" => After(t, k) /\ Lists(t, k)
    PROVE  IInv'
<1>0. TInv
  BY DEF IInv, RInv
<1>1. Sound(final'[t]) /\ Sound(disk'[k].backup)
  BY GuardFacts
<1>2. OnlyTarget(t) /\ OnlyRoot(k) /\ Same(t)
  BY <1>0 DEF OnlyTarget, OnlyRoot, Same, TInv, TypeOK
<1>3. /\ Before(t, k)' <=> Before(t, k)
      /\ Between(t, k)' <=> Between(t, k)
      /\ After(t, k)' <=> After(t, k)
      /\ Journal(t, k)' <=> Journal(t, k)
      /\ Lists(t, k)' <=> Lists(t, k)
  BY <1>2, StatesKept
<1>4. ASSUME Orderly(t)' PROVE Reversible(t, k)' /\ FarAs(w, t, k)'
  <2>1. Orderly(t) /\ Reversible(t, k)
    BY <1>4, OrderlyKept, GuardFacts
  <2> QED
    BY <1>3, <2>1 DEF Reversible, FarAs
<1>5. worker'[w].pc \notin Begun \cup {"idle", "cleaning"}
  BY DEF Begun
<1>6. \A u \in Workers: worker'[u].thread = "removing" /\ Src(u) = k
                        /\ Orderly(t)' => Before(t, k)'
  BY <1>3, RemoversKept
<1> QED
  BY <1>1, <1>2, <1>4, <1>5, <1>6, GuardStep

\* What was promoted can be undone: there is a journal of it.
LEMMA AfterJournal ==
    ASSUME NEW t, NEW k, Reversible(t, k), After(t, k), installed[t] # k
    PROVE  Journal(t, k)
  BY DEF Reversible, Before, Whole, After

\* The journal of an execution in its guard.
LEMMA GuardJournal ==
    ASSUME IInv, NEW w \in Workers,
           worker[w].pc \in {"journaled", "promoted", "registered"},
           Orderly(Target[Job(w)])
    PROVE  Journal(Target[Job(w)], Src(w))
<1>0. ProgressOf(w) /\ worker[w].pc \in InGuard
  BY DEF IInv, Progress, InGuard
<1>1. worker[w].pc # "idle" /\ Promoting(Job(w)) /\ row[Job(w)].token = Tok(w)
  BY <1>0, InGuardOwner
<1>2. Reversible(Target[Job(w)], Src(w)) /\ installed[Target[Job(w)]] # Src(w)
  BY <1>1, GuardFacts
<1>3. FarAs(w, Target[Job(w)], Src(w))
  BY <1>0 DEF ProgressOf, Job, Src
<1>4. CASE worker[w].pc = "journaled"
  BY <1>2, <1>3, <1>4 DEF FarAs, Reversible
<1>5. CASE worker[w].pc \in {"promoted", "registered"}
  <2>1. After(Target[Job(w)], Src(w))
    BY <1>3, <1>5 DEF FarAs
  <2> QED
    BY <1>2, <2>1, AfterJournal
<1> QED
  BY <1>4, <1>5

\* The registry entry is replaced.
LEMMA RegisterStep ==
    ASSUME IInv, RInv', Watches, NEW w \in Workers, NEW ok \in BOOLEAN,
           ReplaceRegistryEntry(w, ok)
    PROVE  IInv'
<1>0. TInv /\ PlaceOf(w) /\ ProgressOf(w)
  BY DEF IInv, RInv, Place, Progress
<1>a. worker[w].pc = "promoted" /\ worker[w].pc \in InGuard
  BY DEF ReplaceRegistryEntry, InGuard
<1>b. worker[w].pc # "idle" /\ Promoting(Job(w)) /\ row[Job(w)].token = Tok(w)
  BY <1>a, InGuardOwner
<1>c. PICK t \in Targets: t = Target[Job(w)]
  BY <1>b, GuardFacts
<1>d. PICK k \in Tokens: k = Src(w)
  BY <1>b, GuardFacts
<1>1. k = Tok(w) /\ worker[w].thread = "none" /\ installed[t] # k
      /\ Sound(final[t]) /\ Sound(disk[k].backup)
  BY <1>0, <1>a, <1>b, <1>c, <1>d, GuardFacts, Threadless DEF PlaceOf, Src, Tok
<1>2. /\ Only(w) /\ Keeps(w) /\ worker'[w].thread = "none"
      /\ worker'[w].pc = (IF ok THEN "registered" ELSE "compensating")
      /\ OnlyTarget(t) /\ UNCHANGED <<row, final, disk, installed, refused>>
      /\ registry'[Model[t]] = IF ok THEN k ELSE registry[Model[t]]
  BY <1>0, <1>c, <1>1, ReplaceRegistryEffect
<1>3. OnlyRoot(k)
  BY <1>0, <1>2 DEF OnlyRoot, TInv, TypeOK
<1>4. LocalOf(worker'[w]) /\ worker'[w].pc \notin Begun \cup {"idle", "cleaning"}
  BY <1>2 DEF LocalOf, Begun
<1>5. ASSUME Orderly(t)'
      PROVE  /\ Reversible(t, k)' /\ FarAs(w, t, k)' /\ ~Before(t, k)
  <2>1. Orderly(t)
    BY <1>5, OrderlyKept
  <2>2. After(t, k) /\ Reversible(t, k)
    BY <1>0, <1>a, <1>b, <1>c, <1>d, <2>1, GuardFacts DEF ProgressOf, FarAs, Src, Job
  <2>3. Journal(t, k) /\ ~Before(t, k) /\ disk[k].receipt
    BY <1>1, <2>2 DEF Reversible, Before, Whole, After
  <2>4. After(t, k)' /\ Journal(t, k)' /\ disk'[k].receipt /\ (ok => Lists(t, k)')
    BY <1>2, <2>2, <2>3 DEF After, Journal, Lists
  <2> QED
    BY <1>2, <2>3, <2>4 DEF Reversible, FarAs
<1>6. \A u \in Workers: worker'[u].thread = "removing" /\ Src(u) = k
                        /\ Orderly(t)' => Before(t, k)'
  BY <1>b, <1>c, <1>d, <1>2, <1>5, RemoversKept
<1> QED
  BY <1>a, <1>b, <1>c, <1>d, <1>1, <1>2, <1>3, <1>4, <1>5, <1>6, GuardStep

\* The compensation takes its registry entry back ...
LEMMA CompensateStep ==
    ASSUME IInv, RInv', Watches, NEW w \in Workers, NEW ok \in BOOLEAN,
           CompensateRegistry(w, ok)
    PROVE  IInv'
<1>0. TInv /\ PlaceOf(w) /\ ProgressOf(w)
  BY DEF IInv, RInv, Place, Progress
<1>a. worker[w].pc = "compensating" /\ worker[w].pc \in InGuard
  BY DEF CompensateRegistry, InGuard
<1>b. worker[w].pc # "idle" /\ Promoting(Job(w)) /\ row[Job(w)].token = Tok(w)
  BY <1>a, InGuardOwner
<1>c. PICK t \in Targets: t = Target[Job(w)]
  BY <1>b, GuardFacts
<1>d. PICK k \in Tokens: k = Src(w)
  BY <1>b, GuardFacts
<1>1. installed[t] # k /\ Sound(final[t]) /\ Sound(disk[k].backup)
  BY <1>b, <1>c, <1>d, GuardFacts
<1>2. /\ Only(w) /\ Keeps(w) /\ worker'[w].thread = worker[w].thread
      /\ worker'[w].pc \in (IF ok THEN {"rollback"} ELSE {"deferring", "erring"})
      /\ OnlyTarget(t) /\ UNCHANGED <<row, final, disk, installed, refused>>
      /\ registry'[Model[t]] = IF ok /\ registry[Model[t]] = k THEN disk[k].prior
                                                 ELSE registry[Model[t]]
  BY <1>0, <1>c, <1>d, CompensateRegistryEffect
<1>3. OnlyRoot(k)
  BY <1>0, <1>2 DEF OnlyRoot, TInv, TypeOK
<1>4. LocalOf(worker'[w]) /\ worker'[w].pc \notin Begun \cup {"idle", "cleaning"}
  BY <1>0, <1>2 DEF LocalOf, PlaceOf, Keeps, Begun
<1>5. ASSUME Orderly(t)'
      PROVE  /\ Reversible(t, k)' /\ (worker'[w].pc \in InGuard => FarAs(w, t, k)')
             /\ Before(t, k) => Before(t, k)'
  <2>1. Orderly(t)
    BY <1>5, OrderlyKept
  <2>2. Journal(t, k) /\ Reversible(t, k)
    BY <1>0, <1>a, <1>b, <1>c, <1>d, <2>1, GuardFacts DEF ProgressOf, FarAs, Src, Job
  <2>3. /\ Journal(t, k)' /\ disk'[k].receipt = disk[k].receipt
        /\ Before(t, k) => Before(t, k)'
        /\ Between(t, k) => Between(t, k)'
        /\ After(t, k) => After(t, k)'
    <3>1. Journal(t, k)' /\ disk'[k].receipt = disk[k].receipt
      BY <1>2, <2>2 DEF Journal
    <3>2. Lists(t, installed[t]) => Lists(t, installed[t])'
      BY <1>1, <1>2 DEF Lists
    <3>3. Lists(t, k) => Lists(t, k)' \/ Lists(t, installed[t])'
      BY <1>2, <2>2 DEF Lists, Journal
    <3> QED
      BY <1>2, <3>1, <3>2, <3>3 DEF Before, Between, After, Whole, Lists
  <2>4. ok => Lists(t, installed[t])'
    <3>1. Lists(t, installed[t]) \/ Lists(t, k)
      BY <2>2 DEF Reversible, Before, Between, After, Whole
    <3> QED
      BY <1>1, <1>2, <2>2, <3>1 DEF Lists, Journal
  <2> QED
    BY <1>2, <2>2, <2>3, <2>4 DEF Reversible, FarAs, InGuard
<1>6. \A u \in Workers: worker'[u].thread = "removing" /\ Src(u) = k
                        /\ Orderly(t)' => Before(t, k)'
  BY <1>b, <1>c, <1>d, <1>2, <1>5, RemoversKept
<1> QED
  BY <1>a, <1>b, <1>c, <1>d, <1>1, <1>2, <1>3, <1>4, <1>5, <1>6, GuardStep

\* What a rollback leaves is as it was before the publication.
LEMMA Restored ==
    ASSUME NEW t, NEW k, k # 0, installed[t] # k, Reversible(t, k), Journal(t, k),
           Lists(t, installed[t]), Restorable(t, k),
           final[t] \in Dir, Sound(final[t]), disk[k].backup \in Dir, Sound(disk[k].backup),
           UNCHANGED <<registry, installed>>,
           IF final[t].marker = k \/ disk[k].backup # Nothing
           THEN final'[t] = disk[k].backup /\ disk'[k].backup = Nothing
           ELSE UNCHANGED <<final, disk>>
    PROVE  Before(t, k)'
<1>1. disk[k].backup = Nothing <=> disk[k].backup.content = 0
  BY EmptyDir
<1>2. Before(t, k) => final[t].marker # k /\ disk[k].backup = Nothing
  BY DEF Before, Whole, Sound
<1>3. Between(t, k) => /\ final[t] = Nothing
                       /\ disk[k].backup.content = installed[t]
  BY DEF Between
<1>4. After(t, k) => /\ final[t].marker = k
                     /\ disk[k].backup.content = installed[t]
  <2>1. final[t].content = k => final[t] # Nothing
    BY SoundNothing
  <2> QED
    BY <1>1, <2>1 DEF After, Restorable, Sound, Journal
<1>5. Lists(t, installed[t])'
  BY DEF Lists
<1>6. CASE final[t].marker = k \/ disk[k].backup # Nothing
  <2>1. final'[t] = disk[k].backup /\ disk'[k].backup = Nothing
    BY <1>6
  <2>2. disk[k].backup.content = installed[t]
    BY <1>2, <1>3, <1>4, <1>6 DEF Reversible
  <2> QED
    BY <1>5, <2>1, <2>2 DEF Before, Whole
<1>7. CASE ~(final[t].marker = k \/ disk[k].backup # Nothing)
  <2>1. UNCHANGED <<final, disk>>
    BY <1>7
  <2>2. final[t].content = installed[t]
    BY <1>1, <1>3, <1>4, <1>7, SoundNothing DEF Reversible, Before, Whole
  <2> QED
    BY <1>5, <1>7, <2>1, <2>2 DEF Before, Whole
<1> QED
  BY <1>6, <1>7

\* ... puts the previous artifact back, if it can tell that it may ...
LEMMA RollbackStep ==
    ASSUME IInv, RInv', Watches, NEW w \in Workers, NEW ok \in BOOLEAN,
           RollbackFilesystem(w, ok)
    PROVE  IInv'
<1>0. TInv /\ PlaceOf(w) /\ ProgressOf(w)
  BY DEF IInv, RInv, Place, Progress
<1>a. worker[w].pc = "rollback" /\ worker[w].pc \in InGuard
  BY DEF RollbackFilesystem, InGuard
<1>b. worker[w].pc # "idle" /\ Promoting(Job(w)) /\ row[Job(w)].token = Tok(w)
  BY <1>a, InGuardOwner
<1>c. PICK t \in Targets: t = Target[Job(w)]
  BY <1>b, GuardFacts
<1>d. PICK k \in Tokens: k = Src(w) /\ k # 0
  BY <1>b, GuardFacts
<1>1. /\ installed[t] # k /\ Sound(final[t]) /\ Sound(disk[k].backup)
      /\ final[t] \in Dir /\ disk[k].backup \in Dir
  BY <1>b, <1>c, <1>d, GuardFacts
<1>2. /\ Only(w) /\ Keeps(w) /\ worker'[w].thread = worker[w].thread
      /\ worker'[w].pc = (IF ok /\ Restorable(t, k) THEN "removing" ELSE "deferring")
      /\ OnlyTarget(t) /\ OnlyRoot(k)
      /\ UNCHANGED <<row, registry, installed, refused>>
      /\ disk'[k].receipt = disk[k].receipt
      /\ disk'[k].had = disk[k].had /\ disk'[k].prior = disk[k].prior
      /\ IF ok /\ Restorable(t, k) /\ (final[t].marker = k \/ disk[k].backup # Nothing)
         THEN final'[t] = disk[k].backup /\ disk'[k].backup = Nothing
         ELSE UNCHANGED <<final, disk>>
  BY <1>0, <1>c, <1>d, RollbackEffect
<1>3. LocalOf(worker'[w]) /\ worker'[w].pc \notin Begun \cup {"idle", "cleaning"}
  BY <1>0, <1>2 DEF LocalOf, PlaceOf, Keeps, Begun
<1>4. Sound(final'[t]) /\ Sound(disk'[k].backup)
  BY <1>1, <1>2, SoundNothing
<1>5. ASSUME Orderly(t)'
      PROVE  /\ Reversible(t, k)' /\ (worker'[w].pc \in InGuard => FarAs(w, t, k)')
             /\ Before(t, k) => Before(t, k)'
  <2>1. Orderly(t)
    BY <1>5, OrderlyKept
  <2>2. Journal(t, k) /\ Reversible(t, k) /\ Lists(t, installed[t])
    BY <1>0, <1>a, <1>b, <1>c, <1>d, <2>1, GuardFacts DEF ProgressOf, FarAs, Src, Job
  <2>3. Journal(t, k)'
    BY <1>2, <2>2 DEF Journal
  <2>4. CASE ok /\ Restorable(t, k)
    <3>1. Before(t, k)'
      BY <1>1, <1>2, <1>d, <2>2, <2>4, Restored
    <3> QED
      BY <1>2, <2>3, <2>4, <3>1 DEF Reversible, FarAs
  <2>5. CASE ~(ok /\ Restorable(t, k))
    <3>1. UNCHANGED <<final, disk>> /\ worker'[w].pc \notin InGuard
      BY <1>2, <2>5 DEF InGuard
    <3> QED
      BY <1>2, <2>2, <3>1 DEF Reversible, Before, Between, After, Whole, Journal, Lists
  <2> QED
    BY <2>4, <2>5
<1>6. \A u \in Workers: worker'[u].thread = "removing" /\ Src(u) = k
                        /\ Orderly(t)' => Before(t, k)'
  BY <1>b, <1>c, <1>d, <1>2, <1>5, RemoversKept
<1> QED
  BY <1>a, <1>b, <1>c, <1>d, <1>2, <1>3, <1>4, <1>5, <1>6, GuardStep

\* ... and then the staging root, with the receipt.
LEMMA RemoveStep ==
    ASSUME IInv, RInv', Watches, NEW w \in Workers, NEW ok \in BOOLEAN,
           RemoveStageRoot(w, ok)
    PROVE  IInv'
<1>0. TInv /\ PlaceOf(w) /\ ProgressOf(w)
  BY DEF IInv, RInv, Place, Progress
<1>a. worker[w].pc = "removing" /\ worker[w].pc \in InGuard
  BY DEF RemoveStageRoot, InGuard
<1>b. worker[w].pc # "idle" /\ Promoting(Job(w)) /\ row[Job(w)].token = Tok(w)
  BY <1>a, InGuardOwner
<1>c. PICK t \in Targets: t = Target[Job(w)]
  BY <1>b, GuardFacts
<1>d. PICK k \in Tokens: k = Src(w)
  BY <1>b, GuardFacts
<1>1. Sound(final[t]) /\ Sound(disk[k].backup)
  BY <1>b, <1>c, <1>d, GuardFacts
<1>2. /\ Only(w) /\ Keeps(w) /\ worker'[w].thread = worker[w].thread
      /\ worker'[w].pc \in {"aborting", "deferring"}
      /\ OnlyRoot(k) /\ UNCHANGED <<row, final, registry, installed, refused>>
      /\ disk'[k].receipt => disk[k].receipt
      /\ disk'[k].had = disk[k].had /\ disk'[k].prior = disk[k].prior
      /\ disk'[k].backup = disk[k].backup
  BY <1>0, <1>d, RemoveStageRootEffect
<1>3. OnlyTarget(t) /\ Same(t)
  BY <1>0, <1>2 DEF OnlyTarget, Same, TInv, TypeOK
<1>4. LocalOf(worker'[w]) /\ worker'[w].pc \notin Begun \cup {"idle", "cleaning"}
  BY <1>0, <1>2 DEF LocalOf, PlaceOf, Keeps, Begun
<1>5. Before(t, k)' <=> Before(t, k)
  BY <1>2, <1>3, StatesKept
<1>6. ASSUME Orderly(t)'
      PROVE  Reversible(t, k)' /\ FarAs(w, t, k)'
  <2>1. Orderly(t)
    BY <1>6, OrderlyKept
  <2>2. Journal(t, k) /\ Before(t, k)
    BY <1>0, <1>a, <1>c, <1>d, <2>1 DEF ProgressOf, FarAs, Src, Job
  <2>3. Journal(t, k)'
    BY <1>2, <1>3, <2>2, StatesKept
  <2> QED
    BY <1>2, <1>5, <2>2, <2>3 DEF Reversible, FarAs
<1>7. \A u \in Workers: worker'[u].thread = "removing" /\ Src(u) = k
                        /\ Orderly(t)' => Before(t, k)'
  BY <1>b, <1>c, <1>d, <1>2, <1>5, RemoversKept
<1> QED
  BY <1>a, <1>b, <1>c, <1>d, <1>1, <1>2, <1>3, <1>4, <1>6, <1>7, GuardStep

\* recover_interrupted_publication: what it takes for a finished publication
\* is one.
LEMMA RecoverStep ==
    ASSUME IInv, RInv', Watches, NEW w \in Workers, NEW reply \in Replies,
           Recover(w, reply)
    PROVE  IInv'
<1>0. TInv /\ RInv /\ PlaceOf(w) /\ ProgressOf(w)
  BY DEF IInv, RInv, Place, Progress
<1>1. worker[w].pc = "recovering" /\ worker[w].thread = "none"
  BY Threadless DEF Recover
<1>2. /\ Leaves(w, {"deferring", "registered", "compensating"})
      /\ UNCHANGED <<row, final, registry, disk, installed, refused>>
      /\ worker'[w].pc \in InGuard =>
            /\ MayPublish(w) /\ ~Locked(Target[Job(w)]) /\ disk[Src(w)].receipt
            /\ worker'[w].pc = "registered" =>
                  /\ final[Target[Job(w)]].marker = Src(w)
                  /\ registry[Model[Target[Job(w)]]] = Src(w)
  BY <1>0, <1>1, RecoverEffect
<1>3. CASE worker'[w].pc \notin InGuard
  <2>1. /\ \A v \in Workers: Moves(v)
        /\ \A v \in Workers: worker'[v].thread = "removing" => Emptied(v)
    BY <1>1, <1>2, <1>3, LeavesMoves DEF Leaves, InGuard
  <2> QED
    BY <1>2, <2>1, SameRows, SameDisk, CalmStep DEF Calm, Marks
<1>4. CASE worker'[w].pc \in InGuard
  <2>a. /\ Only(w) /\ Keeps(w) /\ worker'[w].thread = "none"
        /\ worker'[w].pc \in {"registered", "compensating"}
    BY <1>1, <1>2, <1>4, Constructed DEF Leaves, InGuard
  <2>b. worker[w].pc # "idle" /\ Promoting(Job(w)) /\ row[Job(w)].token = Tok(w)
        /\ ~Locked(Target[Job(w)])
    BY <1>1, <1>2, <1>4 DEF MayPublish, Promoting
  <2>c. PICK t \in Targets: t = Target[Job(w)]
    BY <2>b, GuardFacts
  <2>d. PICK k \in Tokens: k = Src(w) /\ k # 0
    BY <2>b, GuardFacts
  <2>1. Sound(final[t]) /\ installed[t] # k /\ disk[k].receipt
    BY <1>2, <1>4, <2>b, <2>c, <2>d, GuardFacts
  <2>2. ASSUME Orderly(t)
        PROVE  /\ Journal(t, k)
               /\ worker'[w].pc = "registered" => After(t, k) /\ Lists(t, k)
    <3>1. Reversible(t, k)
      BY <2>b, <2>c, <2>d, <2>2, GuardFacts
    <3>2. final[t].marker = k => ~Before(t, k) /\ ~Between(t, k)
      BY <2>1, <2>d, SoundNothing DEF Sound, Before, Between, Whole
    <3> QED
      BY <1>2, <1>4, <2>c, <2>d, <2>1, <3>1, <3>2 DEF Reversible, Lists
  <2>3. LocalOf(worker'[w])
    BY <2>a DEF LocalOf, Begun
  <2> QED
    BY <1>1, <1>2, <2>a, <2>b, <2>c, <2>d, <2>1, <2>2, <2>3, TurnStep
<1> QED
  BY <1>3, <1>4

\* A shutdown cancels the execution: in the guard's inner try it compensates,
\* elsewhere it leaves, and the thread it waited for stays behind.
LEMMA CancelStep ==
    ASSUME IInv, RInv', Watches, NEW w \in Workers, NEW landed \in BOOLEAN,
           Cancel(w, landed)
    PROVE  IInv'
<1>0. TInv /\ PlaceOf(w) /\ ProgressOf(w)
  BY DEF IInv, RInv, Place, Progress
<1>a. PICK t, k: t = Target[Job(w)] /\ k = Tok(w)
  OBVIOUS
<1>1. /\ Only(w) /\ Keeps(w) /\ worker[w].pc \notin {"idle", "cancelling", "cleaning"}
      /\ worker'[w].thread = IF worker[w].pc \in {"rollback", "removing"}
                             THEN worker[w].pc ELSE worker[w].thread
      /\ worker'[w].pc = IF /\ worker[w].pc \in {"journaled", "promoted", "registered"}
                            /\ ~Recovery(w)
                         THEN "compensating" ELSE "cancelling"
      /\ UNCHANGED <<row, final, registry, installed, refused>>
      /\ ~landed => disk' = disk
      /\ OnlyRoot(k)
      /\ landed => /\ worker[w].pc = "guarded"
                   /\ disk'[k].receipt /\ disk'[k].prior = registry[Model[t]]
                   /\ disk'[k].had = (final[t] # Nothing)
                   /\ disk'[k].backup = disk[k].backup
  BY <1>0, <1>a, CancelEffect
<1>2. CASE landed
  <2>1. worker'[w].pc = "cancelling" /\ worker'[w].thread = "none"
    BY <1>1, <1>2, Threadless DEF Begun
  <2>2. LocalOf(worker'[w])
    BY <2>1 DEF LocalOf, Begun
  <2> QED
    BY <1>a, <1>1, <1>2, <2>1, <2>2, WritesReceipt
<1>3. CASE ~landed /\ worker'[w].pc = "compensating"
  <2>1. /\ worker[w].pc \in {"journaled", "promoted", "registered"}
        /\ worker[w].pc \in InGuard
        /\ worker'[w].thread = worker[w].thread /\ disk' = disk
    BY <1>1, <1>3 DEF InGuard
  <2>2. worker[w].pc # "idle" /\ Promoting(Job(w)) /\ row[Job(w)].token = Tok(w)
    BY <2>1, InGuardOwner
  <2>3. PICK s \in Targets, x \in Tokens: s = Target[Job(w)] /\ x = Src(w)
    BY <2>2, GuardFacts
  <2>4. Orderly(s) => Journal(s, x)
    BY <2>1, <2>3, GuardJournal
  <2>5. LocalOf(worker'[w])
    BY <1>0, <1>1, <1>3, <2>1 DEF LocalOf, PlaceOf, Keeps, Begun
  <2> QED
    BY <1>1, <1>3, <2>1, <2>2, <2>3, <2>4, <2>5, TurnStep
<1>4. CASE ~landed /\ worker'[w].pc = "cancelling"
  <2>1. \A v \in Workers: Moves(v)
    BY <1>1, <1>4 DEF Only, Moves, AtWork, InGuard
  <2>2. ASSUME NEW v \in Workers, worker'[v].thread = "removing"
        PROVE  Emptied(v)
    <3>1. CASE worker[v].thread = "removing"
      BY <3>1 DEF IInv, Progress, ProgressOf
    <3>2. CASE v = w /\ worker[w].pc = "removing"
      BY <1>0, <3>2 DEF ProgressOf, FarAs, InGuard, Emptied
    <3> QED
      BY <1>1, <2>2, <3>1, <3>2 DEF Only
  <2> QED
    BY <1>1, <1>4, <2>1, <2>2, SameRows, SameDisk, CalmStep DEF Calm, Marks
<1> QED
  BY <1>1, <1>2, <1>3, <1>4

-----------------------------------------------------------------------------
(* Threads that nobody waits for. *)

\* A thread that changes the directories of its target after its execution has
\* left disturbs no other target.
LEMMA StrayStep ==
    ASSUME IInv, RInv', Watches, NEW w \in Workers,
           worker[w].thread # "none", worker[w].pc # "journaled",
           \A v \in Workers: Moves(v), Only(w),
           NEW t \in Targets, t = Target[Job(w)], NEW k \in Tokens, k = Src(w),
           OnlyTarget(t), OnlyRoot(k), UNCHANGED <<row, installed, refused>>,
           t \in overrun', Sound(final'[t]), Sound(disk'[k].backup)
    PROVE  IInv'
<1>0. TInv /\ RInv /\ OneOwner /\ Publication /\ AtWork(worker[w])
  BY DEF IInv, RInv, AtWork
<1>1. Refusals' /\ OneOwner'
  <2>1. \A j \in Jobs: /\ Names(row'[j]) \subseteq Names(row[j])
                       /\ row'[j].token \in {0, row[j].token}
    OBVIOUS
  <2> QED
    BY <2>1, CalmOneOwner DEF IInv, Refusals
<1>2. Place'
  <2> SUFFICES ASSUME NEW v \in Workers PROVE PlaceOf(v)'
    BY DEF Place
  <2>0. LocalOf(worker[v]) /\ RowOf(v) /\ Moves(v)
    BY PlaceParts DEF IInv, Place
  <2>1. /\ worker'[v].pc \in InGuard \cup {"cleaning"} => worker'[v].pc = worker[v].pc
        /\ worker'[v].pc # "idle" => Keeps(v) /\ worker[v].pc # "idle"
    BY <2>0, MovesFacts
  <2>2. RowOf(v)'
    BY <2>0, <2>1 DEF RowOf, Promoting, Root, Keeps, InGuard
  <2> QED
    BY <2>0, <2>2, MovesLocal, PlaceParts
<1>a. \A x \in Targets: x # t => Same(x)
  BY DEF Same, OnlyTarget
<1>b. \A i \in Jobs: Root(i)' = Root(i) /\ Promoting(i)' = Promoting(i)
  BY DEF Root, Promoting
<1>c. ~Orderly(t)'
  BY DEF Orderly
<1>d. ASSUME NEW i \in Jobs, Promoting(i), Orderly(Target[i])'
      PROVE  /\ Target[i] # t /\ Target[i] \in Targets /\ Root(i) # k
             /\ Root(i) \in Tokens /\ Light(Root(i)) /\ Same(Target[i])
             /\ Orderly(Target[i])
  <2>1. Target[i] # t /\ Target[i] \in Targets /\ Root(i) \in Tokens
    BY <1>0, <1>c, <1>d, DownloadAssumption, RootToken, StatusSets DEF Promoting
  <2>2. Root(i) # k
    BY <1>d, <2>1, RootOwner, StatusSets DEF Promoting, Src, Job
  <2> QED
    BY <1>a, <1>d, <2>1, <2>2, OrderlyKept DEF OnlyRoot, Light
<1>3. Publication'
  <2>1. \A x \in Targets: Sound(final'[x])
    BY <1>0 DEF Publication, OnlyTarget
  <2>2. \A x \in Tokens: Sound(disk'[x].backup)
    BY <1>0 DEF Publication, OnlyRoot
  <2>3. ASSUME NEW x \in Targets, Orderly(x)',
               \A i \in Jobs: Target[i] = x => ~Promoting(i)'
        PROVE  Whole(x)'
    <3>1. x # t /\ \A i \in Jobs: Target[i] = x => ~Promoting(i)
      BY <1>b, <1>c, <2>3
    <3>2. Whole(x) /\ Same(x)
      BY <1>0, <1>a, <2>3, <3>1, OrderlyKept DEF Publication
    <3> QED
      BY <3>2, WholeKept
  <2>4. ASSUME NEW i \in Jobs, Promoting(i)', Orderly(Target[i])' PROVE Undoable(i)'
    <3>1. Promoting(i) /\ Root(i)' = Root(i)
      BY <1>b, <2>4
    <3>2. Light(Root(i)) /\ Same(Target[i]) /\ Orderly(Target[i])
      BY <1>d, <2>4, <3>1
    <3>3. Undoable(i)
      BY <1>0, <3>1, <3>2 DEF Publication
    <3> QED
      BY <3>1, <3>2, <3>3, UndoableKept
  <2>5. \A i \in Jobs: (Promoting(i) /\ Orderly(Target[i]))' => Undoable(i)'
    BY <2>4
  <2>6. \A x \in Targets:
          (Orderly(x) /\ (\A i \in Jobs: Target[i] = x => ~Promoting(i)))' => Whole(x)'
    BY <2>3
  <2>7. \A i \in Jobs: row'[i].status \in Active =>
           \A x \in Targets: installed'[x] # Root(i)'
    BY <1>0, <1>b DEF Publication
  <2> QED
    BY <2>1, <2>2, <2>5, <2>6, <2>7 DEF Publication
<1>4. ASSUME NEW v \in Workers, worker'[v].thread = "removing"
      PROVE  Emptied(v)'
  <2>1. AtWork(worker[v]) /\ Keeps(v)
    BY <1>4, MovesFacts DEF AtWork
  <2>2. worker[v].pc # "idle" \/ worker[v].thread # "none"
    BY <2>1 DEF AtWork, InGuard
  <2>3. PICK i \in Jobs, x \in Tokens: i = worker[v].job /\ x = worker[v].source
    BY <1>0, <2>2, BusyFacts DEF Job, Src
  <2>4. CASE v = w
    BY <1>c, <2>1, <2>4 DEF Emptied, Keeps, Orderly, Job
  <2>5. CASE v # w
    <3>1. Emptied(v)
      BY <1>4, <2>5 DEF Only, IInv, Progress, ProgressOf
    <3>2. ASSUME Promoting(i), Root(i) = x, Orderly(Target[i])', Before(Target[i], x)
          PROVE  Before(Target[i], x)'
      <4>1. Same(Target[i]) /\ Light(x)
        BY <1>d, <3>2
      <4> QED
        BY <3>2, <4>1, StatesKept DEF Light
    <3> QED
      BY <1>b, <2>1, <2>2, <2>3, <3>1, <3>2, EmptiedKept
  <2> QED
    BY <2>4, <2>5
<1>5. Progress'
  <2> SUFFICES ASSUME NEW v \in Workers PROVE ProgressOf(v)'
    BY DEF Progress
  <2>0. ProgressOf(v) /\ Moves(v)
    BY DEF IInv, Progress
  <2>1. PICK s, x: s = Target[worker'[v].job] /\ x = worker'[v].source
    OBVIOUS
  <2>2. /\ worker'[v].pc \in InGuard => worker'[v].pc = worker[v].pc /\ Keeps(v)
        /\ worker'[v].pc = "journaled" => worker'[v].thread = worker[v].thread
        /\ worker'[v].pc \in Begun => worker[v].pc \in Begun /\ Keeps(v)
        /\ worker'[v].pc # "idle" => Keeps(v) /\ worker[v].pc # "idle"
    BY <2>0, MovesFacts
  <2>3. worker'[v].pc # "idle" => /\ x \in Tokens /\ s \in Targets
                                  /\ s = Target[worker[v].job] /\ x = worker[v].source
    BY <1>0, <2>1, <2>2, BusyFacts DEF Src, Job, Keeps
  <2>4. ASSUME worker'[v].pc \in Begun
        PROVE  ~disk'[x].receipt /\ disk'[x].backup = Nothing
    <3>1. worker[v].pc \in Begun /\ worker'[v].pc # "idle"
      BY <2>2, <2>4 DEF Begun
    <3>2. v # w
      BY <3>1, Threadless
    <3>3. x # k
      BY <1>0, <2>3, <3>1, <3>2 DEF OneOwner, Src
    <3> QED
      BY <2>0, <2>3, <3>1, <3>3 DEF ProgressOf, OnlyRoot
  <2>5. ASSUME worker'[v].pc \in InGuard, Orderly(s)'
        PROVE  FarAs(v, s, x)'
    <3>1. worker'[v].pc # "idle" /\ worker[v].pc \in InGuard
      BY <2>2, <2>5 DEF InGuard
    <3>2. Promoting(Job(v)) /\ Root(Job(v)) = x /\ Job(v) \in Jobs /\ s = Target[Job(v)]
      BY <1>0, <2>2, <2>3, <3>1, InGuardOwner, BusyFacts DEF Src, Job
    <3>3. s # t /\ x # k /\ s \in Targets
      BY <1>d, <2>5, <3>2
    <3>4. Same(s) /\ disk'[x] = disk[x]
      BY <1>a, <2>3, <3>1, <3>3 DEF OnlyRoot
    <3>5. FarAs(v, s, x)
      BY <2>0, <2>3, <2>5, <3>1, OrderlyKept DEF ProgressOf
    <3>6. /\ Before(s, x)' <=> Before(s, x)
          /\ Between(s, x)' <=> Between(s, x)
          /\ After(s, x)' <=> After(s, x)
          /\ Journal(s, x)' <=> Journal(s, x)
          /\ Lists(s, x)' <=> Lists(s, x)
          /\ Lists(s, installed[s])' <=> Lists(s, installed[s])
      BY <3>4, StatesKept
    <3>7. worker'[v].pc = worker[v].pc
      BY <2>2, <2>5
    <3> QED
      BY <2>2, <3>4, <3>5, <3>6, <3>7 DEF FarAs
  <2> QED
    BY <1>4, <2>1, <2>4, <2>5, ProgressParts
<1> QED
  BY <1>1, <1>2, <1>3, <1>5 DEF IInv

\* One that changes nothing is calm.
LEMMA StrayOrCalm ==
    ASSUME IInv, RInv', Watches, NEW w \in Workers,
           worker[w].thread # "none", worker[w].pc # "journaled", NoteStray(w),
           Moves(w), Only(w),
           NEW t \in Targets, t = Target[Job(w)], NEW k \in Tokens, k = Src(w),
           OnlyTarget(t), OnlyRoot(k), UNCHANGED <<row, registry, installed, refused>>,
           Sound(final'[t]), Sound(disk'[k].backup),
           UNCHANGED <<final, disk>> /\ worker'[w].thread = "removing" => Emptied(w)
    PROVE  IInv'
<1>1. \A v \in Workers: Moves(v)
  BY DEF Only, Moves
<1>2. CASE UNCHANGED <<final, disk>>
  <2>1. \A v \in Workers: worker'[v].thread = "removing" => Emptied(v)
    BY <1>2 DEF Only, IInv, Progress, ProgressOf
  <2> QED
    BY <1>1, <1>2, <2>1, SameRows, SameDisk, CalmStep DEF Calm, Marks
<1>3. CASE ~UNCHANGED <<final, disk>>
  <2>1. t \in overrun'
    BY <1>3 DEF NoteStray, Stray
  <2> QED
    BY <1>1, <2>1, StrayStep
<1> QED
  BY <1>2, <1>3

\* promote's thread, when its execution has been cancelled.
LEMMA StrayPromotion ==
    ASSUME IInv, RInv', Watches, NEW w \in Workers, worker[w].pc # "journaled",
           PromoteBackup(w) \/ \E ok \in BOOLEAN: PromoteRename(w, ok)
    PROVE  IInv'
<1>0. TInv /\ PlaceOf(w) /\ Publication
  BY DEF IInv, RInv, Place
<1>1. worker[w].thread \in {"backup", "rename"} /\ NoteStray(w)
  BY DEF PromoteBackup, PromoteRename
<1>2. PICK t \in Targets, k \in Tokens: t = Target[Job(w)] /\ k = Src(w)
  BY <1>0, <1>1, BusyFacts
<1>3. k = Tok(w) /\ Sound(final[t]) /\ Sound(disk[k].backup)
  BY <1>0, <1>1, <1>2 DEF PlaceOf, Src, Tok, Publication
<1>4. CASE PromoteBackup(w)
  <2>1. /\ Only(w) /\ OnlyRoot(k) /\ OnlyTarget(t)
        /\ UNCHANGED <<row, registry, installed, refused>>
        /\ \/ /\ final'[t] = Nothing /\ disk'[k].backup = final[t]
              /\ Keeps(w) /\ worker'[w].thread = "rename"
              /\ worker'[w].pc = worker[w].pc
           \/ /\ UNCHANGED <<final, disk>>
              /\ \/ worker'[w] = Idle
                 \/ /\ worker[w].pc # "idle" /\ Keeps(w) /\ worker'[w].thread = "none"
                    /\ worker'[w].pc = worker[w].pc
    BY <1>0, <1>2, <1>3, <1>4, PromoteBackupEffect
  <2>2. Moves(w) /\ worker'[w].thread # "removing"
    BY <1>1, <2>1, Constructed DEF Moves
  <2>3. Sound(final'[t]) /\ Sound(disk'[k].backup)
    BY <1>3, <2>1, SoundNothing
  <2> QED
    BY <1>1, <1>2, <2>1, <2>2, <2>3, StrayOrCalm
<1>5. ASSUME NEW ok \in BOOLEAN, PromoteRename(w, ok) PROVE IInv'
  <2>1. /\ Only(w) /\ OnlyRoot(k) /\ OnlyTarget(t)
        /\ UNCHANGED <<row, registry, installed, refused>>
        /\ \/ worker'[w] = Idle
           \/ /\ worker[w].pc # "idle" /\ Keeps(w) /\ worker'[w].thread = "none"
              /\ worker'[w].pc = worker[w].pc
        /\ \/ final'[t].content = final'[t].marker /\ disk'[k].backup = disk[k].backup
           \/ final'[t] = disk[k].backup /\ disk'[k].backup = Nothing
           \/ UNCHANGED <<final, disk>>
    BY <1>0, <1>2, <1>3, <1>5, PromoteRenameEffect
  <2>2. Moves(w) /\ worker'[w].thread # "removing"
    BY <1>1, <2>1, Constructed DEF Moves
  <2>3. Sound(final'[t]) /\ Sound(disk'[k].backup)
    BY <1>3, <2>1, SoundNothing DEF Sound
  <2> QED
    BY <1>1, <1>2, <2>1, <2>2, <2>3, StrayOrCalm
<1> QED
  BY <1>4, <1>5

\* rollback_filesystem's thread, when its execution has been cancelled.
LEMMA StrayRollbackStep ==
    ASSUME IInv, RInv', Watches, NEW w \in Workers, NEW ok \in BOOLEAN,
           StrayRollback(w, ok)
    PROVE  IInv'
<1>0. TInv /\ PlaceOf(w) /\ Publication
  BY DEF IInv, RInv, Place
<1>1. worker[w].thread = "rollback" /\ NoteStray(w) /\ worker[w].pc # "journaled"
  BY <1>0 DEF StrayRollback, PlaceOf
<1>2. PICK t \in Targets, k \in Tokens: t = Target[Job(w)] /\ k = Src(w) /\ k # 0
  BY <1>0, <1>1, BusyFacts
<1>3. /\ Sound(final[t]) /\ Sound(disk[k].backup)
      /\ final[t] \in Dir /\ disk[k].backup \in Dir
  BY <1>0, <1>1, <1>2, BusyFacts, RootFields DEF Publication
<1>4. /\ Only(w) /\ OnlyRoot(k) /\ OnlyTarget(t)
      /\ UNCHANGED <<row, registry, installed, refused>>
      /\ IF ok /\ Restorable(t, k)
         THEN /\ Keeps(w) /\ worker'[w].pc = worker[w].pc
              /\ worker'[w].thread = "removing"
         ELSE \/ worker'[w] = Idle
              \/ /\ worker[w].pc # "idle" /\ Keeps(w) /\ worker'[w].thread = "none"
                 /\ worker'[w].pc = worker[w].pc
      /\ IF ok /\ Restorable(t, k) /\ (final[t].marker = k \/ disk[k].backup # Nothing)
         THEN final'[t] = disk[k].backup /\ disk'[k].backup = Nothing
         ELSE UNCHANGED <<final, disk>>
  BY <1>0, <1>1, <1>2, StrayRollbackEffect
<1>5. Moves(w)
  BY <1>1, <1>4 DEF Moves
<1>6. Sound(final'[t]) /\ Sound(disk'[k].backup)
  BY <1>3, <1>4, SoundNothing
<1>7. ASSUME UNCHANGED <<final, disk>>, worker'[w].thread = "removing"
      PROVE  Emptied(w)
  <2> SUFFICES ASSUME Promoting(Job(w)), Root(Job(w)) = k, Orderly(t)
               PROVE  Before(t, k)
    BY <1>2 DEF Emptied, Job, Src
  <2>1. Reversible(t, k)
    BY <1>0, <1>1, <1>2, BusyFacts DEF Publication, Undoable
  <2>2. disk[k].backup = Nothing /\ final[t].marker # k
    <3>1. ok /\ Restorable(t, k)
      BY <1>4, <1>7, Constructed
    <3>2. CASE final[t].marker = k \/ disk[k].backup # Nothing
      <4>1. final[t] = disk[k].backup /\ disk[k].backup = Nothing
        BY <1>4, <1>7, <3>1, <3>2
      <4> QED
        BY <1>2, <4>1, SoundNothing
    <3> QED
      BY <3>2
  <2>3. ~After(t, k)
    BY <1>2, <2>2, SoundNothing DEF After
  <2>4. Between(t, k) => Before(t, k)
    BY <2>2, SoundNothing DEF Between, Before, Whole
  <2> QED
    BY <2>1, <2>3, <2>4 DEF Reversible
<1> QED
  BY <1>1, <1>2, <1>4, <1>5, <1>6, <1>7, StrayOrCalm

\* It removes a receipt that nobody needs.
LEMMA StrayRemovalStep ==
    ASSUME IInv, RInv', Watches, NEW w \in Workers, NEW ok \in BOOLEAN,
           StrayRemoval(w, ok)
    PROVE  IInv'
<1>0. TInv /\ RInv /\ PlaceOf(w) /\ OneOwner
  BY DEF IInv, RInv, Place
<1>1. worker[w].thread = "removing" /\ worker[w].pc # "journaled" /\ Emptied(w)
  BY <1>0 DEF StrayRemoval, PlaceOf, IInv, Progress, ProgressOf
<1>2. PICK k \in Tokens: k = Src(w) /\ k # 0
  BY <1>0, <1>1, BusyFacts
<1>3. /\ Only(w) /\ OnlyRoot(k)
      /\ UNCHANGED <<row, final, registry, installed, refused>>
      /\ \/ worker'[w] = Idle
         \/ /\ worker[w].pc # "idle" /\ Keeps(w) /\ worker'[w].thread = "none"
            /\ worker'[w].pc = worker[w].pc
      /\ disk'[k].receipt => disk[k].receipt
      /\ disk'[k].had = disk[k].had /\ disk'[k].prior = disk[k].prior
      /\ disk'[k].backup = disk[k].backup
  BY <1>0, <1>1, <1>2, StrayRemovalEffect
<1>4. Spent(k)
  <2>1. ASSUME NEW j \in Jobs, Promoting(j), Root(j) = k, Orderly(Target[j])
        PROVE  Before(Target[j], k)
    <3>1. worker[w].job = j
      BY <1>1, <1>2, <2>1, RootOwner, StatusSets DEF Promoting, Src
    <3> QED
      BY <1>1, <1>2, <2>1, <3>1 DEF Emptied, Src
  <2>2. ASSUME NEW u \in Workers, worker[u].pc = "journaled", worker[u].source = k
        PROVE  FALSE
    <3>1. /\ row[Job(u)].token = Tok(u) /\ Job(u) \in Jobs
          /\ worker[u].token = k
      <4>1. worker[u].pc \in InGuard /\ worker[u].pc # "idle"
        BY <2>2 DEF InGuard
      <4> QED
        BY <1>0, <2>2, <4>1, InGuardOwner, BusyFacts DEF IInv, Place, PlaceOf
    <3>2. worker[w].token = worker[w].source
      BY <1>0, <1>2, <3>1 DEF OneOwner, Src, Tok
    <3> QED
      BY <1>0, <1>1, <1>2, <2>2, <3>1, <3>2 DEF OneOwner, Src
  <2> QED
    BY <2>1, <2>2 DEF Spent
<1>5. \A x \in Tokens: Light(x)
  BY <1>3, <1>4 DEF Light, OnlyRoot
<1>6. /\ \A v \in Workers: Moves(v)
      /\ \A v \in Workers: worker'[v].thread = "removing" => Emptied(v)
  BY <1>1, <1>3, ThreadMoves
<1> QED
  BY <1>3, <1>5, <1>6, SameRows, CalmStep DEF Calm, Marks


-----------------------------------------------------------------------------
(* The end of a publication. *)

\* publication.complete: the guard's transaction commits.
LEMMA CommitStep ==
    ASSUME IInv, RInv', Watches, NEW w \in Workers, worker[w].pc = "registered",
           NEW early, Only(w), Keeps(w), worker'[w].thread = "none",
           worker'[w].pc \in {"cleaning", "deferring"},
           UNCHANGED <<final, registry, disk>>,
           row' = Completed(Job(w), early),
           installed' = [installed EXCEPT ![Target[Job(w)]] = Src(w)],
           refused' = refused \cup {row[i].token: i \in
              {i \in Siblings(Job(w)): row[i].status \in Running /\ Sees(i, early)}}
    PROVE  IInv'
<1>0. /\ TInv /\ RInv /\ RowShape /\ Refusals /\ OneOwner /\ Publication
      /\ PlaceOf(w) /\ ProgressOf(w) /\ OneTargetOwner
  BY DEF IInv, RInv, Place, Progress
<1>a. worker[w].pc # "idle" /\ worker[w].pc \in InGuard
      /\ Promoting(Job(w)) /\ row[Job(w)].token = Tok(w)
  BY InGuardOwner DEF InGuard
<1>b. PICK j \in Jobs: j = Job(w)
  BY <1>a, GuardFacts
<1>c. PICK t \in Targets: t = Target[j]
  BY <1>a, <1>b, GuardFacts
<1>d. PICK k \in Tokens: k = Src(w) /\ k # 0
  BY <1>a, GuardFacts
<1>1. /\ Promoting(j) /\ Root(j) = k /\ k \in Names(row[j])
      /\ Orderly(t) => final[t].content = k /\ Lists(t, k)
      /\ worker[w].job = j /\ worker[w].token # 0
  <2>1. Promoting(j) /\ Root(j) = k /\ k \in Names(row[j])
    BY <1>0, <1>a, <1>b, <1>c, <1>d, GuardFacts, RootToken, StatusSets DEF Promoting
  <2>2. Orderly(t) => After(t, k) /\ Lists(t, k)
    BY <1>0, <1>a, <1>b, <1>c, <1>d DEF ProgressOf, FarAs, Src, Job
  <2> QED
    BY <1>0, <1>a, <1>b, <2>1, <2>2, BusyFacts DEF After, Job, Tok
<1>2. installed'[t] = k /\ \A x \in Targets: x # t => installed'[x] = installed[x]
  BY <1>0, <1>b, <1>c, <1>d DEF TInv, TypeOK
<1>e. \A x \in Targets: x # t => Same(x)
  BY <1>2 DEF Same
<1>f. \A x \in Tokens: Light(x)
  BY SameDisk
<1>3. /\ DroppedRow(j) /\ row'[j].status = "completed"
      /\ \A i \in Jobs: i # j =>
            KeptRow(i) \/ (DroppedRow(i) /\ row[i].status \in Waiting)
  BY <1>0, <1>b, CompletedKept, StillKept
<1>4. \A i \in Jobs:
        /\ Names(row'[i]) \subseteq Names(row[i])
        /\ row'[i].token \in {0, row[i].token}
        /\ row'[i].status \in Active => i # j /\ KeptRow(i)
        /\ Promoting(i)' => i # j /\ Promoting(i)
        /\ Promoting(i) /\ i # j => Promoting(i)'
        /\ row'[i].status \in Active => row[i].status \in Active /\ Root(i)' = Root(i)
  BY <1>3, StatusSets DEF DroppedRow, KeptRow, Names, Promoting, Root
<1>5. \A x \in refused': x \in refused \/
         \E i \in Siblings(j): row[i].status \in Running /\ Sees(i, early)
                               /\ x = row[i].token
  BY <1>b
<1>6. \A i \in Siblings(j): i \in Jobs /\ i # j
  BY DEF Siblings
<1>7. ASSUME NEW i \in Siblings(j), row[i].status \in Running,
             NEW l \in Jobs, row[i].token \in Names(row[l])
      PROVE  i = l
  BY <1>0, <1>6, <1>7, RunningRoot, OneName
<1>8. Refusals'
  <2> SUFFICES ASSUME NEW i \in Jobs, row'[i].status \in Running,
                      row'[i].token \in refused'
               PROVE  Requested(row'[i])
    BY DEF Refusals
  <2>1. i # j /\ KeptRow(i) /\ row[i].status \in Running /\ row'[i].token = row[i].token
        /\ row[i].token \in Names(row[i])
    BY <1>0, <1>4, StatusSets, RunningRoot DEF KeptRow
  <2>2. CASE row[i].token \in refused
    BY <1>0, <2>1, <2>2 DEF Refusals, KeptRow
  <2>3. ASSUME NEW l \in Siblings(j), row[l].status \in Running, Sees(l, early),
               row[i].token = row[l].token
        PROVE  Requested(row'[i])
    <3>1. l = i
      BY <1>7, <2>1, <2>3
    <3>2. row'[i].cancel
      BY <1>0, <1>b, <2>3, <3>1, CompletedRows
    <3> QED
      BY <3>2 DEF Requested
  <2> QED
    BY <1>5, <2>1, <2>2, <2>3
<1>g. \A v \in Workers: Keeps(v) /\ (v # w => worker'[v] = worker[v])
  BY DEF Only, Keeps
<1>h. ~AtWork(worker'[w]) /\ worker'[w].pc \notin Begun \cup InGuard
  BY DEF AtWork, InGuard, Begun
<1>9. OneOwner'
  <2>2. ASSUME NEW v \in Workers, NEW u \in Workers, worker'[v].pc \in InGuard,
               worker'[u].pc \in InGuard, Target[worker'[v].job] = Target[worker'[u].job]
        PROVE  v = u
    <3>1. worker'[v] = worker[v] /\ worker'[u] = worker[u]
      BY <1>g, <1>h, <2>2
    <3> QED
      BY <1>0, <2>2, <3>1 DEF OneOwner
  <2>3. ASSUME NEW v \in Workers, NEW u \in Workers,
               worker'[v].pc \in Begun, AtWork(worker'[u]), v # u
        PROVE  worker'[v].source # worker'[u].source
    <3>1. worker'[v] = worker[v] /\ worker'[u] = worker[u]
      BY <1>g, <1>h, <2>3
    <3> QED
      BY <1>0, <2>3, <3>1 DEF OneOwner
  <2> QED
    BY <1>0, <1>4, <1>g, <2>2, <2>3, OwnersKept
<1>10. ASSUME NEW v \in Workers, v # w, worker[v].pc \in InGuard
       PROVE  /\ Target[worker[v].job] # t /\ worker[v].job # j /\ worker[v].job \in Jobs
              /\ Target[worker[v].job] \in Targets /\ worker[v].source \in Tokens
  <2>1. worker[v].pc # "idle"
    BY <1>10 DEF InGuard
  <2> QED
    BY <1>0, <1>a, <1>b, <1>c, <1>10, <2>1, OthersApart, BusyFacts DEF Job, Src
<1>11. Place'
  <2> SUFFICES ASSUME NEW v \in Workers PROVE PlaceOf(v)'
    BY DEF Place
  <2>1. CASE v = w
    <3>1. LocalOf(worker'[w])
      BY <1>h DEF LocalOf, Begun
    <3>2. worker'[w].job = j /\ worker'[w].pc \notin InGuard
      BY <1>1, <1>h DEF Keeps
    <3>3. RowOf(w)'
      BY <1>c, <1>d, <1>2, <1>3, <3>2 DEF RowOf, Promoting
    <3> QED
      BY <2>1, <3>1, <3>3, PlaceParts
  <2>2. CASE v # w
    <3>0. LocalOf(worker'[v]) /\ RowOf(v) /\ worker'[v] = worker[v]
      BY <1>g, <2>2, PlaceParts DEF IInv, Place
    <3>1. CASE worker[v].pc = "idle"
      <4>1. RowOf(v)'
        BY <3>0, <3>1 DEF RowOf, InGuard
      <4> QED
        BY <3>0, <4>1, PlaceParts
    <3>2. CASE worker[v].pc # "idle"
      <4>1. PICK i \in Jobs: i = worker[v].job /\ Target[i] \in Targets
        BY <1>0, <3>2, BusyFacts DEF Job
      <4>2. worker[v].pc \in InGuard => Promoting(i)' /\ row'[i].token = worker[v].token
        <5> SUFFICES ASSUME worker[v].pc \in InGuard
                     PROVE  Promoting(i)' /\ row'[i].token = worker[v].token
          OBVIOUS
        <5>1. i # j /\ Promoting(i) /\ row[i].token = worker[v].token
          BY <1>10, <2>2, <3>0, <4>1 DEF RowOf
        <5> QED
          BY <1>3, <5>1, StatusSets DEF KeptRow, Promoting
      <4>3. Promoting(i)' /\ row'[i].token = worker[v].token => Root(i)' = worker[v].source
        BY <1>4, <3>0, <3>2, <4>1, StatusSets DEF RowOf, KeptRow, Promoting
      <4>4. worker[v].pc = "cleaning" => row'[i].status = "completed" /\ installed'[Target[i]] # 0
        BY <1>1, <1>2, <1>3, <1>d, <3>0, <4>1, StatusSets DEF RowOf, KeptRow, Promoting
      <4>5. RowOf(v)'
        BY <3>0, <4>1, <4>2, <4>3, <4>4 DEF RowOf, Promoting, Root
      <4> QED
        BY <3>0, <4>5, PlaceParts
    <3> QED
      BY <3>1, <3>2
  <2> QED
    BY <2>1, <2>2
<1>i. ASSUME NEW i \in Jobs, Promoting(i)', Orderly(Target[i])'
      PROVE  /\ i # j /\ Promoting(i) /\ Root(i)' = Root(i) /\ Orderly(Target[i])
             /\ Target[i] \in Targets /\ Target[i] # t /\ Same(Target[i])
  <2>1. i # j /\ Promoting(i) /\ Root(i)' = Root(i) /\ Orderly(Target[i])
    BY <1>4, <1>i, StatusSets, OrderlyKept DEF Promoting
  <2>2. Target[i] \in Targets /\ Target[i] # t
    BY <1>0, <1>1, <1>c, <2>1, DownloadAssumption
    DEF OneTargetOwner, Taken, Promoting, Orderly
  <2> QED
    BY <1>e, <2>1, <2>2
<1>12. Publication'
  <2>1. (\A x \in Targets: Sound(final'[x])) /\ \A x \in Tokens: Sound(disk'[x].backup)
    BY <1>0 DEF Publication
  <2>2. ASSUME NEW x \in Targets, Orderly(x)',
               \A i \in Jobs: Target[i] = x => ~Promoting(i)'
        PROVE  Whole(x)'
    <3>0. Orderly(x)
      BY <2>2, OrderlyKept
    <3>1. CASE x = t
      BY <1>1, <1>2, <3>0, <3>1 DEF Whole, Lists
    <3>2. CASE x # t
      <4>1. Whole(x)
        BY <1>0, <1>4, <1>c, <2>2, <3>0, <3>2 DEF Publication
      <4> QED
        BY <1>e, <3>2, <4>1, WholeKept
    <3> QED
      BY <3>1, <3>2
  <2>3. ASSUME NEW i \in Jobs, row'[i].status \in Active, NEW x \in Targets
        PROVE  installed'[x] # Root(i)'
    <3>1. i # j /\ row[i].status \in Active /\ Root(i)' = Root(i)
      BY <1>4, <2>3
    <3>2. Root(i) # k
      BY <1>0, <1>1, <3>1, RootToken, OneName
    <3> QED
      BY <1>0, <1>2, <3>1, <3>2 DEF Publication
  <2>4. ASSUME NEW i \in Jobs, Promoting(i)', Orderly(Target[i])' PROVE Undoable(i)'
    <3>1. Promoting(i) /\ Root(i)' = Root(i) /\ Orderly(Target[i]) /\ Same(Target[i])
      BY <1>i, <2>4
    <3>2. Undoable(i) /\ Root(i) \in Tokens
      BY <1>0, <3>1, RootToken, StatusSets DEF Publication, Promoting
    <3> QED
      BY <1>f, <3>1, <3>2, UndoableKept
  <2>5. \A i \in Jobs: (Promoting(i) /\ Orderly(Target[i]))' => Undoable(i)'
    BY <2>4
  <2>6. \A x \in Targets:
          (Orderly(x) /\ (\A i \in Jobs: Target[i] = x => ~Promoting(i)))' => Whole(x)'
    BY <2>2
  <2>7. \A i \in Jobs: row'[i].status \in Active =>
           \A x \in Targets: installed'[x] # Root(i)'
    BY <2>3
  <2> QED
    BY <2>1, <2>5, <2>6, <2>7 DEF Publication
<1>13. Progress'
  <2> SUFFICES ASSUME NEW v \in Workers PROVE ProgressOf(v)'
    BY DEF Progress
  <2>1. CASE v = w
    BY <1>h, <2>1 DEF ProgressOf
  <2>2. CASE v # w
    <3>0. ProgressOf(v) /\ worker'[v] = worker[v]
      BY <1>g, <2>2 DEF IInv, Progress
    <3>a. PICK s, x: s = Target[worker'[v].job] /\ x = worker'[v].source
      OBVIOUS
    <3>1. worker'[v].pc \in Begun => ~disk'[x].receipt /\ disk'[x].backup = Nothing
      BY <3>0, <3>a DEF ProgressOf
    <3>2. ASSUME worker'[v].pc \in InGuard, Orderly(s)'
          PROVE  FarAs(v, s, x)'
      <4>1. s # t /\ Same(s) /\ Light(x) /\ FarAs(v, s, x) /\ disk'[x] = disk[x]
        BY <1>e, <1>f, <1>10, <2>2, <3>0, <3>a, <3>2, OrderlyKept DEF ProgressOf
      <4>2. /\ Before(s, x)' <=> Before(s, x)
            /\ Between(s, x)' <=> Between(s, x)
            /\ After(s, x)' <=> After(s, x)
            /\ Journal(s, x)' <=> Journal(s, x)
            /\ Lists(s, x)' <=> Lists(s, x)
            /\ Lists(s, installed[s])' <=> Lists(s, installed[s])
        BY <4>1, StatesKept
      <4> QED
        BY <3>0, <4>1, <4>2 DEF FarAs
    <3>3. ASSUME worker'[v].thread = "removing" PROVE Emptied(v)'
      <4>1. Emptied(v) /\ worker[v].thread # "none"
        BY <3>0, <3>3 DEF ProgressOf
      <4>2. PICK i \in Jobs, y \in Tokens: i = worker[v].job /\ y = worker[v].source
        BY <1>0, <4>1, BusyFacts DEF Job, Src
      <4>3. Promoting(i)' /\ Root(i)' = y => Promoting(i) /\ Root(i) = y
        BY <1>4, StatusSets DEF Promoting
      <4>4. ASSUME Promoting(i)', Root(i)' = y, Orderly(Target[i])'
            PROVE  Before(Target[i], y)'
        <5>1. /\ Same(Target[i]) /\ Promoting(i) /\ Root(i) = y
              /\ Orderly(Target[i])
          BY <1>i, <4>3, <4>4
        <5>2. Before(Target[i], y)
          BY <4>1, <4>2, <5>1 DEF Emptied
        <5> QED
          BY <5>1, <5>2, StatesKept
      <4> QED
        BY <1>g, <4>2, <4>4 DEF Emptied, Keeps, Promoting, Root, Orderly
    <3> QED
      BY <3>a, <3>1, <3>2, <3>3, ProgressParts
  <2> QED
    BY <2>1, <2>2
<1> QED
  BY <1>8, <1>9, <1>11, <1>12, <1>13 DEF IInv

LEMMA CompleteStep ==
    ASSUME IInv, RInv', Watches, NEW w \in Workers, NEW early,
           NEW reply \in Replies \cup {"raised"}, Complete(w, early, reply)
    PROVE  IInv'
<1>0. TInv
  BY DEF IInv, RInv
<1>a. worker[w].pc = "registered" /\ worker[w].pc \in InGuard /\ worker[w].thread = "none"
  BY Threadless DEF Complete, InGuard
<1>1. /\ Only(w) /\ Keeps(w) /\ worker'[w].thread = "none"
      /\ worker'[w].pc \in {"cleaning", "compensating", "deferring"}
      /\ UNCHANGED <<final, registry, disk>>
      /\ \/ /\ UNCHANGED <<row, installed, refused>>
            /\ worker'[w].pc # "cleaning"
         \/ /\ row' = Completed(Job(w), early) /\ worker'[w].pc # "compensating"
            /\ installed' = [installed EXCEPT ![Target[Job(w)]] = Src(w)]
            /\ refused' = refused \cup {row[i].token: i \in
                 {i \in Siblings(Job(w)): row[i].status \in Running
                                          /\ Sees(i, early)}}
  BY <1>0, <1>a, CompleteEffect
<1>2. CASE UNCHANGED <<row, installed, refused>> /\ worker'[w].pc # "cleaning"
  <2>1. worker[w].pc # "idle" /\ Promoting(Job(w)) /\ row[Job(w)].token = Tok(w)
    BY <1>a, InGuardOwner
  <2>2. PICK t \in Targets, k \in Tokens: t = Target[Job(w)] /\ k = Src(w)
    BY <2>1, GuardFacts
  <2>3. Orderly(t) => Journal(t, k)
    BY <1>a, <2>2, GuardJournal
  <2>4. LocalOf(worker'[w])
    BY <1>1, <1>2 DEF LocalOf, Begun
  <2>5. worker'[w].pc \in {"compensating", "registered", "deferring"}
        /\ worker'[w].pc # "registered" /\ worker'[w].thread = worker[w].thread
    BY <1>a, <1>1, <1>2
  <2> QED
    BY <1>a, <1>1, <1>2, <2>1, <2>2, <2>3, <2>4, <2>5, TurnStep
<1> QED
  BY <1>a, <1>1, <1>2, CommitStep

\* Removing the marker from a target with a completed artifact takes nothing
\* away that a publication needs to be undone.
LEMMA ClearedMarker ==
    ASSUME NEW t, NEW k, disk'[k] = disk[k], final[t] \in Dir, final'[t] \in Dir,
           final'[t].content = final[t].content, final'[t].marker = 0,
           UNCHANGED <<registry, installed>>, installed[t] # 0
    PROVE  /\ Before(t, k) => Before(t, k)'
           /\ Between(t, k) => Between(t, k)'
           /\ After(t, k) => After(t, k)'
<1>1. final[t] = Nothing => final'[t] = Nothing
  BY DEF Dir, Nothing
<1> QED
  BY <1>1 DEF Before, Between, After, Whole, Lists

\* cleanup_committed.
LEMMA CleanupStep ==
    ASSUME IInv, RInv', Watches, NEW w \in Workers, CleanupCommitted(w)
    PROVE  IInv'
<1>0. TInv /\ RInv /\ PlaceOf(w) /\ OneOwner /\ Publication /\ TypeOK'
  BY DEF IInv, RInv, Place, TInv
<1>a. worker[w].pc = "cleaning" /\ worker[w].thread = "none"
  BY Threadless DEF CleanupCommitted
<1>b. PICK t \in Targets: t = Target[Job(w)]
  BY <1>0, <1>a, BusyFacts
<1>c. PICK k \in Tokens: k = Src(w) /\ k # 0
  BY <1>0, <1>a, BusyFacts
<1>1. /\ Only(w) /\ worker'[w] = Idle /\ OnlyRoot(k) /\ OnlyTarget(t)
      /\ UNCHANGED <<row, registry, installed, refused>>
      /\ ~disk'[k].receipt /\ disk'[k].backup = Nothing
      /\ final'[t].content = final[t].content /\ final'[t].marker = 0
  BY <1>0, <1>a, <1>b, <1>c, CleanupCommittedEffect
<1>2. row[Job(w)].status = "completed" /\ installed[t] # 0
  BY <1>0, <1>a, <1>b DEF PlaceOf, Job
<1>3. \A v \in Workers: Moves(v)
  BY <1>1 DEF Only, Moves
<1>4. ASSUME NEW i \in Jobs, Promoting(i)
      PROVE  Root(i) # k /\ Root(i) \in Tokens /\ disk'[Root(i)] = disk[Root(i)]
  <2>1. Root(i) \in Tokens /\ Root(i) \in Names(row[i])
    BY <1>0, <1>4, RootToken, StatusSets DEF Promoting
  <2>2. Root(i) = k => i = Job(w)
    BY <1>0, <1>c, <2>1 DEF OneOwner, Names, Src, Job
  <2> QED
    BY <1>1, <1>2, <1>4, <2>1, <2>2 DEF OnlyRoot, Promoting
<1>5. ASSUME NEW x, disk'[x] = disk[x], NEW u \in Targets
      PROVE  /\ Before(u, x) => Before(u, x)'
             /\ Between(u, x) => Between(u, x)'
             /\ After(u, x) => After(u, x)'
             /\ Journal(u, x)' <=> Journal(u, x)
             /\ Lists(u, x)' <=> Lists(u, x)
             /\ Lists(u, installed[u])' <=> Lists(u, installed[u])
  <2>0. /\ Journal(u, x)' <=> Journal(u, x)
        /\ Lists(u, x)' <=> Lists(u, x)
        /\ Lists(u, installed[u])' <=> Lists(u, installed[u])
    BY <1>1, <1>5 DEF Journal, Lists
  <2>1. CASE u = t
    <3>1. final[u] \in Dir /\ final'[u] \in Dir
      BY <1>0 DEF TInv, TypeOK
    <3> QED
      BY <1>1, <1>2, <1>5, <2>0, <2>1, <3>1, ClearedMarker
  <2>2. CASE u # t
    <3>1. Same(u)
      BY <1>1, <2>2 DEF Same, OnlyTarget
    <3> QED
      BY <1>5, <2>0, <3>1, StatesKept
  <2> QED
    BY <2>1, <2>2
<1>6. Refusals'
  BY <1>1 DEF IInv, Refusals
<1>7. OneOwner'
  BY <1>1, <1>3, CalmOneOwner
<1>8. Place'
  <2> SUFFICES ASSUME NEW v \in Workers PROVE PlaceOf(v)'
    BY DEF Place
  <2>1. CASE v = w
    <3>1. RowOf(w)'
      BY <1>1, Constructed DEF RowOf, InGuard
    <3> QED
      BY <1>1, <2>1, <3>1, LocalIdle, PlaceParts
  <2>2. CASE v # w
    <3>1. PlaceOf(v) /\ worker'[v] = worker[v]
      BY <1>1, <2>2 DEF IInv, Place, Only
    <3> QED
      BY <1>1, <3>1 DEF PlaceOf, Promoting, Root
  <2> QED
    BY <2>1, <2>2
<1>d. \A i \in Jobs: Root(i)' = Root(i) /\ Promoting(i)' = Promoting(i)
  BY <1>1 DEF Root, Promoting
<1>9. Publication'
  <2>1. /\ \A x \in Targets: Sound(final'[x])
        /\ \A x \in Tokens: Sound(disk'[x].backup)
    BY <1>0, <1>1, SoundNothing DEF Publication, OnlyTarget, OnlyRoot, Sound
  <2>2. ASSUME NEW x \in Targets, Orderly(x)',
               \A i \in Jobs: Target[i] = x => ~Promoting(i)'
        PROVE  Whole(x)'
    <3>1. Whole(x)
      BY <1>0, <1>d, <2>2, OrderlyKept DEF Publication
    <3> QED
      BY <1>1, <3>1 DEF Whole, OnlyTarget, Lists
  <2>3. ASSUME NEW i \in Jobs, Promoting(i)', Orderly(Target[i])' PROVE Undoable(i)'
    <3>1. Promoting(i) /\ Undoable(i)
      BY <1>0, <1>d, <2>3, OrderlyKept DEF Publication
    <3>2. PICK u \in Targets, x \in Tokens:
             u = Target[i] /\ x = Root(i) /\ disk'[x] = disk[x]
      BY <1>4, <3>1, DownloadAssumption
    <3>3. Reversible(u, x)
      BY <3>1, <3>2 DEF Undoable
    <3>4. Reversible(u, x)'
      BY <1>5, <3>2, <3>3 DEF Reversible
    <3> QED
      BY <1>d, <3>2, <3>4 DEF Undoable
  <2>4. \A i \in Jobs: (Promoting(i) /\ Orderly(Target[i]))' => Undoable(i)'
    BY <2>3
  <2>5. \A x \in Targets:
          (Orderly(x) /\ (\A i \in Jobs: Target[i] = x => ~Promoting(i)))' => Whole(x)'
    BY <2>2
  <2>6. \A i \in Jobs: row'[i].status \in Active =>
           \A x \in Targets: installed'[x] # Root(i)'
    BY <1>0, <1>1, <1>d DEF Publication
  <2> QED
    BY <2>1, <2>4, <2>5, <2>6 DEF Publication
<1>10. Progress'
  <2> SUFFICES ASSUME NEW v \in Workers PROVE ProgressOf(v)'
    BY DEF Progress
  <2>1. CASE v = w
    BY <1>1, <2>1, Constructed DEF ProgressOf, Begun, InGuard
  <2>2. CASE v # w
    <3>0. ProgressOf(v) /\ worker'[v] = worker[v]
      BY <1>1, <2>2 DEF IInv, Progress, Only
    <3>a. PICK s, x: s = Target[worker'[v].job] /\ x = worker'[v].source
      OBVIOUS
    <3>1. ASSUME worker'[v].pc \in Begun
          PROVE  ~disk'[x].receipt /\ disk'[x].backup = Nothing
      <4>1. x \in Tokens
        BY <1>0, <3>0, <3>a, <3>1, BusyFacts DEF Begun, Src
      <4> QED
        BY <1>1, <3>0, <3>a, <3>1, <4>1 DEF ProgressOf, OnlyRoot
    <3>2. ASSUME worker'[v].pc \in InGuard, Orderly(s)'
          PROVE  FarAs(v, s, x)'
      <4>1. worker[v].pc # "idle" /\ Promoting(Job(v)) /\ row[Job(v)].token = Tok(v)
        BY <3>0, <3>2, InGuardOwner
      <4>2. s \in Targets /\ x \in Tokens /\ disk'[x] = disk[x]
        BY <1>4, <3>0, <3>a, <4>1, GuardFacts DEF Job, Src
      <4>3. FarAs(v, s, x)
        BY <3>0, <3>a, <3>2, OrderlyKept DEF ProgressOf
      <4> QED
        BY <1>5, <3>0, <4>2, <4>3 DEF FarAs
    <3>3. ASSUME worker'[v].thread = "removing" PROVE Emptied(v)'
      <4>1. Emptied(v) /\ worker[v].thread # "none"
        BY <3>0, <3>3 DEF ProgressOf
      <4>2. PICK i \in Jobs, y \in Tokens: i = worker[v].job /\ y = worker[v].source
        BY <1>0, <4>1, BusyFacts DEF Job, Src
      <4>3. Promoting(i) /\ Root(i) = y =>
               (Before(Target[i], y) => Before(Target[i], y)')
        BY <1>4, <1>5, DownloadAssumption
      <4> QED
        BY <1>d, <3>0, <4>1, <4>2, <4>3, EmptiedKept DEF Keeps
    <3> QED
      BY <3>a, <3>1, <3>2, <3>3, ProgressParts
  <2> QED
    BY <2>1, <2>2
<1> QED
  BY <1>6, <1>7, <1>8, <1>9, <1>10 DEF IInv

-----------------------------------------------------------------------------
(* Claims. *)

\* A claim under a fresh token, of a download or of a promotion's recovery.
LEMMA ClaimStep ==
    ASSUME IInv, RInv', Watches, NEW w \in Workers, NEW j \in Jobs, NEW source,
           Issued(w, j, source),
           \A i \in Jobs \ {j}:
              \/ KeptRow(i)
              \/ DroppedRow(i) /\ ~Promoting(i) /\ row[i].status # "completed",
           row[j].status # "completed", row'[j].token = NewToken,
           \/ /\ ~Promoting(j) /\ row'[j].status = "running"
              /\ row'[j].source = 0 /\ source = NewToken
           \/ /\ Promoting(j) /\ row'[j].status = "promoting"
              /\ row'[j].source = Root(j) /\ source = Root(j)
              /\ ~Locked(Target[j])
    PROVE  IInv'
<1>0. TInv /\ RInv /\ OneOwner /\ Publication /\ Refusals
  BY DEF IInv, RInv
<1>a. PICK n \in Tokens: n = NewToken /\ n # 0
  BY DownloadAssumption DEF Issued
<1>1. /\ \A i \in Jobs: n \notin Names(row[i])
      /\ \A v \in Workers: n \notin Names(worker[v]) /\ worker[v].source # n
                           /\ worker[v].token # n
      /\ \A x \in Targets: installed[x] # n
  BY <1>a, UsedTokens DEF Issued, Names
<1>2. /\ worker[w] = Idle /\ Only(w) /\ (worker' = worker \/ Starts(w, j, n, source))
      /\ disk'[n] = Clean /\ (\A x \in Tokens: x # n => disk'[x] = disk[x] /\ Light(x))
      /\ refused' = refused \ {n} /\ UNCHANGED <<final, registry, installed>>
  BY <1>0, <1>a DEF Issued, TInv, TypeOK, Light
<1>3. /\ Promoting(j) => Root(j) \in Names(row[j]) /\ Root(j) # 0 /\ row[j].status \in Active
      /\ Promoting(j) => Root(j)' = Root(j) /\ source = Root(j) /\ ~Locked(Target[j])
      /\ ~Promoting(j) => Root(j)' = n /\ source = n
      /\ Promoting(j)' = Promoting(j)
      /\ row'[j].token = n
      /\ Names(row'[j]) \subseteq Names(row[j]) \cup {n}
  <2>1. Promoting(j) => Root(j) \in Names(row[j]) /\ Root(j) # 0 /\ row[j].status \in Active
    BY <1>0, RootToken, StatusSets DEF Promoting
  <2> QED
    BY <1>a, <2>1 DEF Promoting, Root, Names
<1>4. \A i \in Jobs: i # j =>
        /\ Names(row'[i]) \subseteq Names(row[i])
        /\ row'[i].token \in {0, row[i].token}
        /\ Promoting(i)' = Promoting(i)
        /\ row'[i].status \in Active => /\ KeptRow(i) /\ row[i].status \in Active
                                        /\ Root(i)' = Root(i)
        /\ row[i].status \in Active /\ Promoting(i) => KeptRow(i)
        /\ row[i].status = "completed" => row'[i].status = "completed"
  BY StatusSets DEF DroppedRow, KeptRow, Names, Promoting, Root
<1>b. \A v \in Workers: worker'[v] = worker[v] \/ (v = w /\ Starts(w, j, n, source))
  BY <1>2 DEF Only
<1>c. ASSUME Starts(w, j, n, source)
      PROVE  /\ worker'[w].pc \in {"downloading", "recovering"}
             /\ worker'[w].thread = "none" /\ ~AtWork(worker'[w])
             /\ worker'[w].pc = "downloading" => source = n
             /\ worker'[w].job = j /\ worker'[w].source = source /\ worker'[w].token = n
             /\ worker'[w].pc \notin InGuard
  BY <1>c DEF Starts, AtWork, InGuard
<1>5. Refusals'
  <2> SUFFICES ASSUME NEW i \in Jobs, row'[i].status \in Running,
                      row'[i].token \in refused'
               PROVE  Requested(row'[i])
    BY DEF Refusals
  <2>1. i # j /\ row'[i].token \in refused
    BY <1>2, <1>3
  <2> QED
    BY <1>0, <1>4, <2>1, StatusSets DEF Refusals, KeptRow
<1>6. OneOwner'
  <2>1. ASSUME NEW i \in Jobs, NEW l \in Jobs, i # l
        PROVE  Names(row'[i]) \cap Names(row'[l]) = {}
    <3>1. Names(row[i]) \cap Names(row[l]) = {}
      BY <1>0, <2>1 DEF OneOwner
    <3>2. /\ Names(row'[i]) \subseteq Names(row[i]) \/ i = j
          /\ Names(row'[l]) \subseteq Names(row[l]) \/ l = j
      BY <1>4
    <3> HIDE DEF Names
    <3> QED
      BY <1>1, <1>3, <2>1, <3>1, <3>2
  <2>2. ASSUME NEW v \in Workers, NEW i \in Jobs, NEW x,
               x \in Names(worker'[v]), x \in Names(row'[i])
        PROVE  worker'[v].job = i
    <3>1. CASE worker'[v] = worker[v]
      <4>1. x # n
        BY <1>1, <2>2, <3>1
      <4>2. x \in Names(row[i])
        BY <1>3, <1>4, <2>2, <4>1
      <4>3. Names(worker[v]) \cap Names(row[i]) # {}
        BY <2>2, <3>1, <4>2
      <4> QED
        BY <1>0, <3>1, <4>3 DEF OneOwner
    <3>2. CASE v = w /\ Starts(w, j, n, source)
      <4>1. x \in {n, source} /\ worker'[v].job = j
        BY <1>c, <2>2, <3>2 DEF Names
      <4>2. i # j => x \in Names(row[i])
        BY <1>4, <2>2
      <4>3. CASE i # j
        <5>1. x # n
          BY <1>1, <4>2, <4>3
        <5>2. x = Root(j) /\ Promoting(j)
          BY <1>3, <4>1, <5>1
        <5> QED
          BY <1>0, <1>3, <4>2, <4>3, <5>2, OneName
      <4> QED
        BY <4>1, <4>3
    <3> QED
      BY <1>b, <3>1, <3>2
  <2>3. ASSUME NEW v \in Workers, NEW u \in Workers,
               worker'[v].token = worker'[u].token, worker'[v].token # 0
        PROVE  v = u
    <3>1. \A x \in Workers: worker'[x] = worker[x] \/ (x = w /\ worker'[x].token = n)
      BY <1>b, <1>c
    <3> QED
      BY <1>0, <1>1, <2>3, <3>1 DEF OneOwner
  <2>4. ASSUME NEW v \in Workers, NEW u \in Workers, worker'[v].pc \in InGuard,
               worker'[u].pc \in InGuard, Target[worker'[v].job] = Target[worker'[u].job]
        PROVE  v = u
    <3>1. \A x \in Workers: worker'[x].pc \in InGuard => worker'[x] = worker[x]
      BY <1>b, <1>c
    <3> QED
      BY <1>0, <2>4, <3>1 DEF OneOwner
  <2>5. ASSUME NEW v \in Workers, NEW i \in Jobs, Names(worker'[v]) \cap Names(row'[i]) # {}
        PROVE  worker'[v].job = i
    BY <2>2, <2>5
  <2>6. ASSUME NEW v \in Workers, NEW i \in Jobs,
               row'[i].token # 0, row'[i].token = worker'[v].source
        PROVE  worker'[v].token = worker'[v].source
    <3>1. CASE worker'[v] = worker[v]
      BY <1>0, <1>1, <1>3, <1>4, <2>6, <3>1 DEF OneOwner
    <3>2. CASE v = w /\ Starts(w, j, n, source)
      <4>1. CASE source = n
        BY <1>c, <3>2, <4>1
      <4>2. CASE source # n
        <5>1. source = Root(j) /\ Root(j) \in Names(row[j]) /\ i # j
          BY <1>3, <1>c, <2>6, <3>2, <4>2
        <5>2. Root(j) \in Names(row[i])
          BY <1>4, <1>c, <2>6, <3>2, <5>1 DEF Names
        <5> QED
          BY <1>0, <5>1, <5>2, OneName
      <4> QED
        BY <4>1, <4>2
    <3> QED
      BY <1>b, <3>1, <3>2
  <2>7. ASSUME NEW v \in Workers, NEW u \in Workers,
               worker'[v].pc \in Begun, AtWork(worker'[u]), v # u
        PROVE  worker'[v].source # worker'[u].source
    <3>1. worker'[u] = worker[u]
      BY <1>b, <1>c, <2>7
    <3>2. CASE worker'[v] = worker[v]
      BY <1>0, <2>7, <3>1, <3>2 DEF OneOwner
    <3>3. CASE v = w /\ Starts(w, j, n, source)
      <4>1. worker'[v].source = n
        BY <1>c, <2>7, <3>3 DEF Begun
      <4> QED
        BY <1>1, <3>1, <4>1
    <3> QED
      BY <1>b, <3>2, <3>3
  <2> QED
    BY <2>1, <2>3, <2>4, <2>5, <2>6, <2>7 DEF OneOwner
<1>7. Place'
  <2> SUFFICES ASSUME NEW v \in Workers PROVE PlaceOf(v)'
    BY DEF Place
  <2>0. LocalOf(worker[v]) /\ RowOf(v)
    BY PlaceParts DEF IInv, Place
  <2>1. CASE worker'[v] = worker[v] /\ worker[v].pc = "idle"
    <3>1. RowOf(v)'
      BY <2>1 DEF RowOf, InGuard
    <3> QED
      BY <2>0, <2>1, <3>1, PlaceParts
  <2>2. CASE worker'[v] = worker[v] /\ worker[v].pc # "idle"
    <3>1. PICK i \in Jobs: i = worker[v].job
      BY <1>0, <2>2, BusyFacts DEF Job
    <3>3. worker[v].pc \in InGuard => Promoting(i)' /\ row'[i].token = worker[v].token
      <4> SUFFICES ASSUME worker[v].pc \in InGuard
                   PROVE  Promoting(i)' /\ row'[i].token = worker[v].token
        OBVIOUS
      <4>1. Promoting(i) /\ row[i].token = worker[v].token
        BY <2>0, <3>1 DEF RowOf
      <4>2. i # j
        BY <1>3, <3>1, <4>1 DEF Locked
      <4> QED
        BY <1>4, <4>1, <4>2, StatusSets DEF KeptRow, Promoting
    <3>4. Promoting(i)' /\ row'[i].token = worker[v].token => Root(i)' = worker[v].source
      BY <1>1, <1>3, <1>4, <2>0, <2>2, <3>1, StatusSets DEF RowOf, KeptRow, Promoting
    <3>5. worker[v].pc = "cleaning" => row'[i].status = "completed" /\ installed[Target[i]] # 0
      BY <1>4, <2>0, <3>1 DEF RowOf
    <3>6. RowOf(v)'
      BY <1>2, <2>0, <2>2, <3>1, <3>3, <3>4, <3>5 DEF RowOf, Promoting, Root
    <3> QED
      BY <2>0, <2>2, <3>6, PlaceParts
  <2>3. CASE v = w /\ Starts(w, j, n, source)
    <3>1. LocalOf(worker'[v])
      BY <1>c, <2>3 DEF LocalOf, Begun
    <3>2. Promoting(j)' => Root(j)' = source
      BY <1>3
    <3>3. RowOf(v)'
      BY <1>c, <2>3, <3>2 DEF RowOf, Promoting, Root
    <3> QED
      BY <3>1, <3>3, PlaceParts
  <2> QED
    BY <1>b, <2>1, <2>2, <2>3
<1>d. \A x \in Targets: Same(x)
  BY <1>2 DEF Same
<1>e. \A i \in Jobs: /\ Promoting(i)' = Promoting(i)
                     /\ Promoting(i) => Root(i)' = Root(i) /\ Root(i) \in Tokens
                                        /\ Root(i) # n
  <2>1. \A i \in Jobs: Promoting(i)' = Promoting(i)
                       /\ (Promoting(i) => Root(i)' = Root(i))
    BY <1>3, <1>4, StatusSets DEF Promoting
  <2>2. \A i \in Jobs: Promoting(i) => Root(i) \in Tokens /\ Root(i) \in Names(row[i])
    BY <1>0, RootToken, StatusSets DEF Promoting
  <2> QED
    BY <1>1, <2>1, <2>2
<1>8. Publication'
  <2>1. /\ \A x \in Targets: Sound(final'[x])
        /\ \A x \in Tokens: Sound(disk'[x].backup)
    BY <1>0, <1>2, SoundNothing, Constructed DEF Publication, Clean
  <2>2. ASSUME NEW x \in Targets, Orderly(x)',
               \A i \in Jobs: Target[i] = x => ~Promoting(i)'
        PROVE  Whole(x)'
    <3>1. Whole(x)
      BY <1>0, <1>e, <2>2, OrderlyKept DEF Publication
    <3> QED
      BY <1>d, <3>1, WholeKept
  <2>3. ASSUME NEW i \in Jobs, row'[i].status \in Active, NEW x \in Targets
        PROVE  installed'[x] # Root(i)'
    BY <1>0, <1>1, <1>2, <1>3, <1>4, <2>3 DEF Publication
  <2>4. ASSUME NEW i \in Jobs, Promoting(i)', Orderly(Target[i])' PROVE Undoable(i)'
    <3>1. Promoting(i) /\ Root(i)' = Root(i) /\ Root(i) \in Tokens /\ Root(i) # n
      BY <1>e, <2>4
    <3>2. Orderly(Target[i]) /\ Undoable(i)
      BY <1>0, <2>4, <3>1, OrderlyKept DEF Publication
    <3>3. Light(Root(i)) /\ Same(Target[i])
      BY <1>2, <1>d, <3>1, DownloadAssumption
    <3> QED
      BY <3>1, <3>2, <3>3, UndoableKept
  <2>5. \A i \in Jobs: (Promoting(i) /\ Orderly(Target[i]))' => Undoable(i)'
    BY <2>4
  <2>6. \A x \in Targets:
          (Orderly(x) /\ (\A i \in Jobs: Target[i] = x => ~Promoting(i)))' => Whole(x)'
    BY <2>2
  <2>7. \A i \in Jobs: row'[i].status \in Active =>
           \A x \in Targets: installed'[x] # Root(i)'
    BY <2>3
  <2> QED
    BY <2>1, <2>5, <2>6, <2>7 DEF Publication
<1>9. Progress'
  <2> SUFFICES ASSUME NEW v \in Workers PROVE ProgressOf(v)'
    BY DEF Progress
  <2>a. PICK s, x: s = Target[worker'[v].job] /\ x = worker'[v].source
    OBVIOUS
  <2>1. CASE worker'[v] = worker[v]
    <3>0. ProgressOf(v)
      BY DEF IInv, Progress
    <3>1. worker[v].pc # "idle" => x \in Tokens /\ x # n /\ s \in Targets
      BY <1>0, <1>1, <2>a, <2>1, BusyFacts DEF Src, Job
    <3>2. worker'[v].pc \in Begun => ~disk'[x].receipt /\ disk'[x].backup = Nothing
      BY <1>2, <2>a, <2>1, <3>0, <3>1 DEF ProgressOf, Begun
    <3>3. ASSUME worker'[v].pc \in InGuard, Orderly(s)'
          PROVE  FarAs(v, s, x)'
      <4>1. worker[v].pc # "idle"
        BY <2>1, <3>3 DEF InGuard
      <4>2. Same(s) /\ disk'[x] = disk[x] /\ FarAs(v, s, x)
        BY <1>2, <1>d, <2>a, <2>1, <3>0, <3>1, <3>3, <4>1, OrderlyKept DEF ProgressOf
      <4>3. /\ Before(s, x)' <=> Before(s, x)
            /\ Between(s, x)' <=> Between(s, x)
            /\ After(s, x)' <=> After(s, x)
            /\ Journal(s, x)' <=> Journal(s, x)
            /\ Lists(s, x)' <=> Lists(s, x)
            /\ Lists(s, installed[s])' <=> Lists(s, installed[s])
        BY <4>2, StatesKept
      <4> QED
        BY <2>1, <4>2, <4>3 DEF FarAs
    <3>4. ASSUME worker'[v].thread = "removing" PROVE Emptied(v)'
      <4>1. Emptied(v) /\ worker[v].thread # "none"
        BY <2>1, <3>0, <3>4 DEF ProgressOf
      <4>2. PICK i \in Jobs, y \in Tokens: i = worker[v].job /\ y = worker[v].source
        BY <1>0, <4>1, BusyFacts DEF Job, Src
      <4>3. Promoting(i)' /\ Root(i)' = y => Promoting(i) /\ Root(i) = y
        BY <1>e
      <4>4. Before(Target[i], y) => Before(Target[i], y)'
        <5>1. Same(Target[i]) /\ disk'[y] = disk[y]
          BY <1>1, <1>2, <1>d, <4>2, DownloadAssumption
        <5> QED
          BY <5>1, StatesKept
      <4> QED
        BY <2>1, <4>1, <4>2, <4>3, <4>4, EmptiedKept DEF Keeps
    <3> QED
      BY <2>a, <3>2, <3>3, <3>4, ProgressParts
  <2>2. CASE v = w /\ Starts(w, j, n, source)
    <3>1. worker'[v].pc \in Begun => ~disk'[x].receipt /\ disk'[x].backup = Nothing
      BY <1>2, <1>c, <2>a, <2>2, Constructed DEF Begun, Clean
    <3> QED
      BY <1>c, <2>a, <2>2, <3>1, ProgressParts
  <2> QED
    BY <1>b, <2>1, <2>2
<1> QED
  BY <1>5, <1>6, <1>7, <1>8, <1>9 DEF IInv

\* claim_next and claim_expired_promotion_for_recovery.
LEMMA ClaimActions ==
    ASSUME IInv, RInv', Watches, NEW w \in Workers,
           \/ \E j \in Jobs, late \in SUBSET Overdue, reply \in Replies:
                 ClaimNext(w, j, late, reply)
           \/ \E j \in Jobs, reply \in Replies: ClaimRecovery(w, j, reply)
    PROVE  IInv'
<1>0. TInv /\ RowShape
  BY DEF IInv, RInv
<1>1. ASSUME NEW j \in Jobs, NEW late \in SUBSET Overdue, NEW reply \in Replies,
             ClaimNext(w, j, late, reply)
      PROVE  IInv'
  <2>1. /\ Issued(w, j, NewToken)
        /\ \A i \in Jobs \ {j}:
              KeptRow(i) \/ (DroppedRow(i) /\ ~Promoting(i) /\ row[i].status # "completed")
        /\ ~Promoting(j) /\ row[j].status # "completed" /\ row'[j].status = "running"
        /\ row'[j].token = NewToken /\ row'[j].source = 0
    BY <1>0, <1>1, ClaimNextEffect, StillKept DEF Promoting
  <2> QED
    BY <2>1, ClaimStep
<1>2. ASSUME NEW j \in Jobs, NEW reply \in Replies, ClaimRecovery(w, j, reply)
      PROVE  IInv'
  <2>1. /\ Issued(w, j, Root(j))
        /\ \A i \in Jobs \ {j}: row'[i] = row[i]
        /\ Promoting(j) /\ ~Locked(Target[j]) /\ row'[j].status = "promoting"
        /\ row'[j].token = NewToken /\ row'[j].source = Root(j)
    BY <1>0, <1>2, ClaimRecoveryEffect
  <2>2. row[j].status # "completed" /\ \A i \in Jobs \ {j}: KeptRow(i)
    BY <2>1, SameRow, StillKept DEF Promoting
  <2> QED
    BY <2>1, <2>2, ClaimStep
<1> QED
  BY <1>1, <1>2

-----------------------------------------------------------------------------
(* All steps. *)

\* Nothing has been requested, and every target is whole.
LEMMA InitInv == Init => IInv /\ Cleared
<1> SUFFICES ASSUME Init PROVE IInv /\ Cleared
  OBVIOUS
<1>1. PICK k \in Token0: /\ final = [t \in Targets |-> [content |-> k, marker |-> 0]]
                         /\ registry = [m \in Models |-> k]
                         /\ installed = [t \in Targets |-> k]
  BY DEF Init
<1>2. /\ row = [j \in Jobs |-> Absent] /\ worker = [w \in Workers |-> Idle]
      /\ disk = [x \in Tokens |-> Clean] /\ refused = {} /\ doubled = {} /\ overrun = {}
  BY DEF Init
<1>3. \A j \in Jobs: /\ row[j] = Absent /\ row[j].status = "absent" /\ row[j].token = 0
                     /\ row[j].source = 0 /\ row[j].lease = "null"
  BY <1>2, Constructed
<1>4. \A w \in Workers: /\ worker[w] = Idle /\ worker[w].pc = "idle"
                        /\ worker[w].thread = "none" /\ worker[w].token = 0
                        /\ worker[w].source = 0 /\ Names(worker[w]) = {}
  BY <1>2, Constructed DEF Names
<1>5. \A j \in Jobs: row[j].status \notin Active /\ row[j].status \notin Running
                     /\ ~Promoting(j) /\ Names(row[j]) = {}
  BY <1>3, StatusSets DEF Promoting, Names
<1>6. TypeOK
  <2>1. final \in [Targets -> Dir] /\ registry \in [Models -> Token0]
        /\ installed \in [Targets -> Token0]
    BY <1>1 DEF Dir, Token0
  <2> QED
    BY <1>2, <2>1, Constructed DEF TypeOK
<1>7. RInv
  BY <1>3, <1>4, <1>5, <1>6
  DEF RInv, TInv, Busy, Named, RowShape, OneTargetOwner, Taken, Held, Promoting
<1>8. Refusals
  BY <1>2 DEF Refusals
<1>9. OneOwner
  BY <1>4, <1>5 DEF OneOwner, InGuard, AtWork
<1>10. Place
  BY <1>4 DEF Place, PlaceOf, Begun, InGuard
<1>11. Publication
  <2>1. \A t \in Targets: Sound(final[t]) /\ Whole(t)
    BY <1>1, DownloadAssumption DEF Sound, Whole, Lists
  <2>2. \A x \in Tokens: Sound(disk[x].backup)
    BY <1>2, SoundNothing, Constructed
  <2> QED
    BY <1>5, <2>1, <2>2 DEF Publication
<1>12. Progress
  BY <1>4 DEF Progress, ProgressOf, Begun, InGuard
<1>13. Cleared
  BY <1>2, <1>4, <1>5 DEF Cleared, Clear, Known
<1> QED
  BY <1>7, <1>8, <1>9, <1>10, <1>11, <1>12, <1>13 DEF IInv

LEMMA RowsInv ==
    ASSUME RInv, [Next]_vars
    PROVE  RInv'
<1>1. TypeOK' /\ Busy'
  BY TypesStep DEF RInv
<1>2. RowShape' /\ OneTargetOwner'
  BY RowsStep
<1> QED
  BY <1>1, <1>2, ShapeNames DEF RInv, TInv

\* Nothing happens.
LEMMA StutterCalm ==
    ASSUME IInv, Watches, UNCHANGED <<row, worker, final, registry, disk, installed, refused>>
    PROVE  Calm
<1>1. \A i \in Jobs: CalmJob(i)
  BY SameRows
<1>2. \A k \in Tokens: Light(k)
  BY SameDisk
<1> QED
  BY <1>1, <1>2, SameWorker DEF Calm, Marks

\* Every step keeps the invariant.
LEMMA NextInv ==
    ASSUME IInv, [Next]_vars
    PROVE  IInv'
<1>0. RInv' /\ Watches
  BY RowsInv, WatchesStep DEF IInv, RInv
<1>1. CASE UNCHANGED vars
  <2>1. UNCHANGED <<row, worker, final, registry, disk, installed, refused>>
    BY <1>1 DEF vars
  <2> QED
    BY <1>0, <2>1, StutterCalm, CalmStep
<1>2. CASE \E j \in Jobs: Request(j)
  BY <1>0, <1>2, QuietActions, CalmStep
<1>3. ASSUME NEW w \in Workers, Claim(w) PROVE IInv'
  BY <1>0, <1>3, QuietActions, ClaimActions, CalmStep DEF Claim
<1>4. ASSUME NEW w \in Workers, DiskStep(w) PROVE IInv'
  <2>1. CASE \/ PromoteBackup(w) \/ CleanupCommitted(w)
             \/ \E ok \in BOOLEAN: PromoteRename(w, ok)
    BY <1>0, <2>1, BackupStep, RenameStep, StrayPromotion, CleanupStep
  <2>2. ASSUME NEW ok \in BOOLEAN, \/ DownloadModel(w, ok) \/ CreateJournal(w, ok)
                                   \/ ReplaceRegistryEntry(w, ok)
                                   \/ CompensateRegistry(w, ok)
        PROVE  IInv'
    BY <1>0, <2>2, LeavingActions, CalmStep, JournalStep, RegisterStep, CompensateStep
  <2>3. ASSUME NEW ok \in BOOLEAN, \/ RollbackFilesystem(w, ok) \/ RemoveStageRoot(w, ok)
                                   \/ StrayRollback(w, ok) \/ StrayRemoval(w, ok)
        PROVE  IInv'
    BY <1>0, <2>3, RollbackStep, RemoveStep, StrayRollbackStep, StrayRemovalStep
  <2> QED
    BY <1>4, <2>1, <2>2, <2>3 DEF DiskStep
<1>5. ASSUME NEW w \in Workers, RowStep(w) PROVE IInv'
  <2>1. CASE \/ Heartbeat(w)
             \/ \E reply \in Replies: \/ FailClaim(w, reply) \/ AbortForRetry(w, reply)
                                      \/ Defer(w, reply)
                                      \/ ReleaseCancelledClaim(w, reply)
    BY <1>0, <2>1, LeavingActions, CalmStep
  <2> QED
    BY <1>0, <1>5, <2>1, LeaseStep, EnterGuardStep, CompleteStep, RecoverStep
    DEF RowStep
<1>6. ASSUME NEW w \in Workers, Crash(w) \/ \E landed \in BOOLEAN: Cancel(w, landed)
      PROVE  IInv'
  BY <1>0, <1>6, LeavingActions, CalmStep, CancelStep
<1> QED
  BY <1>1, <1>2, <1>3, <1>4, <1>5, <1>6 DEF Next, WorkerStep

\* What the invariant says of the install paths.
LEMMA InvIntact == IInv => InstallIntact
  BY DEF IInv, Publication, Whole, Lists, InstallIntact, NotPromoting, Promoting

LEMMA InvSurvives == IInv => PreviousSurvives
<1> SUFFICES ASSUME IInv, NEW j \in Jobs, row[j].status = "promoting",
                    Orderly(Target[j])
             PROVE  installed[Target[j]] \in
                      {final[Target[j]].content, disk[Root(j)].backup.content}
  BY DEF PreviousSurvives, Root
<1>1. Undoable(j)
  BY DEF IInv, Publication, Promoting
<1> QED
  BY <1>1 DEF Undoable, Reversible, Before, Between, After, Whole

-----------------------------------------------------------------------------
(* Nothing that was asked to stop gets to an install path. *)

\* x is clear in the next state.
ClearNext(x) ==
    x \notin refused' /\ \A j \in Jobs: row'[j].status \in Running => row'[j].token # x

\* No download begins, and only tokens of downloads that run are refused.
Flows ==
    /\ \A i \in Jobs: row'[i].status \in Running =>
          row[i].status \in Running /\ row'[i].token = row[i].token
    /\ \A x \in refused': x \in refused \/
          \E i \in Jobs: row[i].token = x /\ row[i].status \in Running

\* Rows and executions take up no names, promotions none that is not clear.
Passes ==
    /\ Flows
    /\ \A i \in Jobs: /\ Names(row'[i]) \subseteq Names(row[i])
                      /\ Promoting(i)' => \/ Promoting(i) /\ Root(i)' = Root(i)
                                          \/ ClearNext(Root(i)')
    /\ \A w \in Workers: /\ worker'[w] = Idle \/ Keeps(w)
                         /\ worker'[w].thread # "none" => AtWork(worker[w]) /\ Keeps(w)

LEMMA ClearKept == ASSUME Flows, NEW x, Clear(x) PROVE ClearNext(x)
  BY DEF Flows, Clear, ClearNext

LEMMA ClearNothing == RInv' => ClearNext(0)
<1> SUFFICES ASSUME RInv' PROVE ClearNext(0)
  OBVIOUS
<1>1. refused' \subseteq Tokens /\ \A j \in Jobs: row'[j].status \in Running => row'[j].token # 0
  BY DEF RInv, TInv, TypeOK, Named
<1> QED
  BY <1>1, DownloadAssumption DEF ClearNext

\* What an execution may still move is clear.
LEMMA AtWorkClear ==
    ASSUME IInv, Cleared, NEW w \in Workers, AtWork(worker[w])
    PROVE  Clear(Src(w))
<1>1. CASE worker[w].pc \in InGuard
  <2>1. Promoting(Job(w)) /\ Root(Job(w)) = Src(w) /\ Job(w) \in Jobs
    BY <1>1, InGuardOwner, BusyFacts DEF IInv, RInv
  <2> QED
    BY <2>1 DEF Cleared
<1> QED
  BY <1>1 DEF AtWork, Cleared, Src

LEMMA ClearedFlow ==
    ASSUME IInv, Cleared, Passes,
           \A t \in Targets: ClearNext(final'[t].content),
           \A m \in Models: ClearNext(registry'[m]),
           \A k \in Tokens: Known(k) => /\ ClearNext(disk'[k].prior)
                                        /\ ClearNext(disk'[k].backup.content)
    PROVE  Cleared'
<1>1. ASSUME NEW j \in Jobs, Promoting(j)' PROVE ClearNext(Root(j)')
  <2>1. CASE Promoting(j) /\ Root(j)' = Root(j)
    <3>1. Clear(Root(j))
      BY <2>1 DEF Cleared
    <3> QED
      BY <2>1, <3>1, ClearKept DEF Passes
  <2> QED
    BY <1>1, <2>1 DEF Passes
<1>2. ASSUME NEW w \in Workers, worker'[w].thread # "none"
      PROVE  ClearNext(worker'[w].source)
  <2>1. Clear(Src(w)) /\ worker'[w].source = Src(w)
    BY <1>2, AtWorkClear DEF Passes, Keeps, Src
  <2> QED
    BY <2>1, ClearKept DEF Passes
<1>3. \A k \in Tokens: Known(k)' => Known(k)
  <2>1. \A w \in Workers: Names(worker'[w]) \subseteq Names(worker[w])
    BY Constructed DEF Passes, Keeps, Names
  <2>2. \A i \in Jobs: Names(row'[i]) \subseteq Names(row[i])
    BY DEF Passes
  <2> HIDE DEF Names
  <2> QED
    BY <2>1, <2>2 DEF Known
<1> QED
  BY <1>1, <1>2, <1>3 DEF Cleared, Clear, ClearNext

\* Calm steps: nothing that gets anywhere changes.
LEMMA CalmCleared ==
    ASSUME IInv, Cleared, Calm
    PROVE  Cleared'
<1>1. Passes
  <2>1. Flows
    BY CalmJobFacts DEF Calm, Marks, Flows, KeptRow
  <2>2. \A i \in Jobs: /\ Names(row'[i]) \subseteq Names(row[i])
                       /\ Promoting(i)' => Promoting(i) /\ Root(i)' = Root(i)
    BY CalmJobFacts, StatusSets DEF Calm, Promoting
  <2>3. \A w \in Workers: /\ worker'[w] = Idle \/ Keeps(w)
                          /\ worker'[w].thread # "none" => AtWork(worker[w]) /\ Keeps(w)
    BY MovesFacts DEF Calm, AtWork
  <2> QED
    BY <2>1, <2>2, <2>3 DEF Passes
<1>2. \A t \in Targets: ClearNext(final'[t].content)
  BY <1>1, ClearKept DEF Passes, Cleared, Calm
<1>3. \A m \in Models: ClearNext(registry'[m])
  BY <1>1, ClearKept DEF Passes, Cleared, Calm
<1>4. \A k \in Tokens: Known(k) => /\ ClearNext(disk'[k].prior)
                                   /\ ClearNext(disk'[k].backup.content)
  BY <1>1, ClearKept DEF Passes, Cleared, Calm, Light
<1> QED
  BY <1>1, <1>2, <1>3, <1>4, ClearedFlow

\* A step on the directories of one target, or on its registry entry: what
\* comes to the install path comes from its backup or from the staging root,
\* what goes to the backup comes from the install path.
LEMMA WorkCleared ==
    ASSUME IInv, RInv', Cleared, NEW w \in Workers,
           NEW t \in Targets, NEW k \in Tokens, k \in Names(worker[w]),
           Only(w), UNCHANGED <<row, refused>>,
           worker'[w] = Idle \/ Keeps(w),
           worker'[w].thread # "none" => AtWork(worker[w]) /\ Keeps(w),
           \A u \in Targets: u # t => final'[u] = final[u],
           \A x \in Tokens: x # k => disk'[x] = disk[x],
           \/ final'[t].content \in {0, final[t].content, disk[k].backup.content}
           \/ final'[t].content = Src(w) /\ AtWork(worker[w]),
           disk'[k].prior \in {disk[k].prior, registry[Model[t]]},
           disk'[k].backup.content \in {0, disk[k].backup.content, final[t].content},
           \A m \in Models: Clear(registry'[m])
    PROVE  Cleared'
<1>1. Passes
  <2>1. \A v \in Workers: /\ worker'[v] = Idle \/ Keeps(v)
                          /\ worker'[v].thread # "none" => AtWork(worker[v]) /\ Keeps(v)
    BY DEF Only, Keeps, AtWork
  <2> QED
    BY <2>1 DEF Passes, Flows, Promoting, Root
<1>2. Flows /\ ClearNext(0) /\ Known(k) /\ Model[t] \in Models
  BY <1>1, ClearNothing, DownloadAssumption DEF Passes, Known
<1>3. Clear(final[t].content) /\ Clear(disk[k].backup.content) /\ Clear(disk[k].prior)
      /\ Clear(registry[Model[t]]) /\ (AtWork(worker[w]) => Clear(Src(w)))
  BY <1>2, AtWorkClear DEF Cleared
<1>4. \A u \in Targets: ClearNext(final'[u].content)
  <2>1. ClearNext(final'[t].content)
    BY <1>2, <1>3, ClearKept
  <2> QED
    BY <1>2, <2>1, ClearKept DEF Cleared
<1>5. \A m \in Models: ClearNext(registry'[m])
  BY <1>2, ClearKept
<1>6. \A x \in Tokens: Known(x) => /\ ClearNext(disk'[x].prior)
                                   /\ ClearNext(disk'[x].backup.content)
  <2>1. ClearNext(disk'[k].prior) /\ ClearNext(disk'[k].backup.content)
    BY <1>2, <1>3, ClearKept
  <2> QED
    BY <1>2, <2>1, ClearKept DEF Cleared
<1> QED
  BY <1>1, <1>4, <1>5, <1>6, ClearedFlow

\* The steps of a publication on the directories.
LEMMA DirectoriesCleared ==
    ASSUME IInv, RInv', Cleared, NEW w \in Workers, NEW ok \in BOOLEAN,
           \/ CreateJournal(w, ok) \/ PromoteBackup(w) \/ PromoteRename(w, ok)
           \/ RollbackFilesystem(w, ok) \/ StrayRollback(w, ok)
           \/ RemoveStageRoot(w, ok) \/ StrayRemoval(w, ok)
           \/ CleanupCommitted(w) \/ Cancel(w, ok)
    PROVE  Cleared'
<1>0. TInv /\ PlaceOf(w)
  BY DEF IInv, RInv, Place
<1>1. worker[w].pc # "idle" \/ worker[w].thread # "none"
  BY DEF CreateJournal, PromoteBackup, PromoteRename, RollbackFilesystem, StrayRollback,
         RemoveStageRoot, StrayRemoval, CleanupCommitted, Cancel
<1>2. PICK t \in Targets, k \in Tokens: t = Target[Job(w)] /\ k = Src(w)
  BY <1>0, <1>1, BusyFacts
<1>3. PICK x \in Tokens: x = Tok(w)
  BY <1>0, <1>1, BusyFacts
<1>4. k \in Names(worker[w]) /\ x \in Names(worker[w])
  BY <1>0, <1>1, <1>2, <1>3, BusyFacts DEF Names, Src, Tok
<1>5. registry' = registry => \A m \in Models: Clear(registry'[m])
  BY DEF Cleared
<1>6. CASE CreateJournal(w, ok)
  <2>1. /\ Only(w) /\ Keeps(w) /\ worker[w].pc = "guarded"
        /\ OnlyRoot(x) /\ UNCHANGED <<row, final, registry, refused>>
        /\ disk'[x].prior \in {disk[x].prior, registry[Model[t]]}
        /\ disk'[x].backup = disk[x].backup
    BY <1>0, <1>2, <1>3, <1>6, CreateJournalEffect
  <2>2. AtWork(worker[w])
    BY <2>1 DEF AtWork, InGuard
  <2> QED
    BY <1>4, <1>5, <2>1, <2>2, WorkCleared DEF OnlyRoot
<1>7. CASE PromoteBackup(w)
  <2>1. /\ Only(w) /\ (worker'[w] = Idle \/ Keeps(w)) /\ worker[w].thread = "backup"
        /\ OnlyRoot(x) /\ OnlyTarget(t) /\ UNCHANGED <<row, registry, refused>>
        /\ \/ /\ final'[t] = Nothing /\ disk'[x].backup = final[t]
              /\ disk'[x].prior = disk[x].prior /\ Keeps(w)
           \/ UNCHANGED <<final, disk>>
    BY <1>0, <1>2, <1>3, <1>7, PromoteBackupEffect DEF PromoteBackup
  <2>2. AtWork(worker[w]) /\ (worker'[w].thread # "none" => Keeps(w))
    BY <2>1, Constructed DEF AtWork
  <2>3. /\ final'[t].content \in {0, final[t].content, disk[x].backup.content}
        /\ disk'[x].prior \in {disk[x].prior, registry[Model[t]]}
        /\ disk'[x].backup.content \in {0, disk[x].backup.content, final[t].content}
    BY <2>1, Constructed
  <2> QED
    BY <1>4, <1>5, <2>1, <2>2, <2>3, WorkCleared DEF OnlyRoot, OnlyTarget
<1>8. CASE PromoteRename(w, ok)
  <2>1. /\ Only(w) /\ (worker'[w] = Idle \/ Keeps(w)) /\ worker[w].thread = "rename"
        /\ worker'[w] # Idle => Keeps(w)
        /\ OnlyRoot(x) /\ OnlyTarget(t) /\ UNCHANGED <<row, registry, refused>>
        /\ disk'[x].prior = disk[x].prior
        /\ \/ final'[t].content = x /\ disk'[x].backup = disk[x].backup
           \/ final'[t] = disk[x].backup /\ disk'[x].backup = Nothing
           \/ UNCHANGED <<final, disk>>
    BY <1>0, <1>2, <1>3, <1>8, PromoteRenameEffect DEF PromoteRename
  <2>2. AtWork(worker[w]) /\ (worker'[w].thread # "none" => Keeps(w)) /\ x = Src(w)
    BY <1>0, <1>3, <2>1, Constructed DEF AtWork, PlaceOf, Src, Tok
  <2>3. /\ \/ final'[t].content \in {0, final[t].content, disk[x].backup.content}
           \/ final'[t].content = Src(w) /\ AtWork(worker[w])
        /\ disk'[x].prior \in {disk[x].prior, registry[Model[t]]}
        /\ disk'[x].backup.content \in {0, disk[x].backup.content, final[t].content}
    BY <2>1, <2>2, Constructed
  <2> QED
    BY <1>4, <1>5, <2>1, <2>2, <2>3, WorkCleared DEF OnlyRoot, OnlyTarget
<1>9. CASE RollbackFilesystem(w, ok) \/ StrayRollback(w, ok)
  <2>1. /\ Only(w) /\ (worker'[w] = Idle \/ Keeps(w))
        /\ worker[w].pc = "rollback" \/ worker[w].thread = "rollback"
        /\ OnlyRoot(k) /\ OnlyTarget(t) /\ UNCHANGED <<row, registry, refused>>
        /\ disk'[k].prior = disk[k].prior
        /\ \/ final'[t] = disk[k].backup /\ disk'[k].backup = Nothing
           \/ UNCHANGED <<final, disk>>
    BY <1>0, <1>2, <1>9, RollbackEffect, StrayRollbackEffect
  <2>2. AtWork(worker[w]) /\ (worker'[w].thread # "none" => Keeps(w))
    BY <2>1, Constructed DEF AtWork, InGuard
  <2>3. /\ final'[t].content \in {0, final[t].content, disk[k].backup.content}
        /\ disk'[k].prior \in {disk[k].prior, registry[Model[t]]}
        /\ disk'[k].backup.content \in {0, disk[k].backup.content, final[t].content}
    BY <2>1, Constructed
  <2> QED
    BY <1>4, <1>5, <2>1, <2>2, <2>3, WorkCleared DEF OnlyRoot, OnlyTarget
<1>10. CASE RemoveStageRoot(w, ok) \/ StrayRemoval(w, ok)
  <2>1. /\ Only(w) /\ (worker'[w] = Idle \/ Keeps(w))
        /\ worker[w].pc = "removing" \/ worker[w].thread = "removing"
        /\ OnlyRoot(k) /\ UNCHANGED <<row, final, registry, refused>>
        /\ disk'[k].prior = disk[k].prior /\ disk'[k].backup = disk[k].backup
    BY <1>0, <1>2, <1>10, RemoveStageRootEffect, StrayRemovalEffect
  <2>2. AtWork(worker[w]) /\ (worker'[w].thread # "none" => Keeps(w))
    BY <2>1, Constructed DEF AtWork, InGuard
  <2> QED
    BY <1>4, <1>5, <2>1, <2>2, WorkCleared DEF OnlyRoot
<1>11. CASE CleanupCommitted(w)
  <2>1. /\ Only(w) /\ worker[w].pc = "cleaning" /\ worker'[w] = Idle
        /\ OnlyRoot(k) /\ OnlyTarget(t) /\ UNCHANGED <<row, registry, refused>>
        /\ disk'[k].backup = Nothing /\ final'[t].content = final[t].content
    BY <1>0, <1>2, <1>11, CleanupCommittedEffect, Threadless
  <2>2. disk'[k].prior = disk[k].prior
    <3>1. disk[k] \in Disk /\ disk \in [Tokens -> Disk]
      BY <1>0, <1>2 DEF TInv, TypeOK
    <3> QED
      BY <1>2, <1>11, <3>1 DEF CleanupCommitted, StageRemoved, Disk
  <2>3. worker'[w].thread = "none" /\ disk'[k].backup.content = 0
    BY <2>1, Constructed
  <2> QED
    BY <1>4, <1>5, <2>1, <2>2, <2>3, WorkCleared DEF OnlyRoot, OnlyTarget
<1>12. CASE Cancel(w, ok)
  <2>1. /\ Only(w) /\ Keeps(w)
        /\ OnlyRoot(x) /\ UNCHANGED <<row, final, registry, refused>>
        /\ worker'[w].thread = IF worker[w].pc \in {"rollback", "removing"}
                               THEN worker[w].pc ELSE worker[w].thread
        /\ \/ disk' = disk
           \/ disk'[x].prior = registry[Model[t]] /\ disk'[x].backup = disk[x].backup
    BY <1>0, <1>2, <1>3, <1>12, CancelEffect
  <2>2. worker'[w].thread # "none" => AtWork(worker[w])
    BY <2>1 DEF AtWork, InGuard
  <2> QED
    BY <1>4, <1>5, <2>1, <2>2, WorkCleared DEF OnlyRoot
<1> QED
  BY <1>6, <1>7, <1>8, <1>9, <1>10, <1>11, <1>12

\* Its steps on the registry.
LEMMA RegistryCleared ==
    ASSUME IInv, RInv', Cleared, NEW w \in Workers, NEW ok \in BOOLEAN,
           ReplaceRegistryEntry(w, ok) \/ CompensateRegistry(w, ok)
    PROVE  Cleared'
<1>0. TInv /\ PlaceOf(w) /\ registry \in [Models -> Token0]
  BY DEF IInv, RInv, Place, TInv, TypeOK
<1>1. worker[w].pc \in {"promoted", "compensating"}
  BY DEF ReplaceRegistryEntry, CompensateRegistry
<1>2. PICK t \in Targets, k \in Tokens: t = Target[Job(w)] /\ k = Src(w)
  BY <1>0, <1>1, BusyFacts
<1>3. k \in Names(worker[w]) /\ AtWork(worker[w])
  BY <1>0, <1>1, <1>2, BusyFacts DEF Names, Src, AtWork, InGuard
<1>4. Clear(k) /\ Clear(disk[k].prior) /\ \A m \in Models: Clear(registry[m])
  BY <1>2, <1>3, AtWorkClear DEF Cleared, Known
<1>5. CASE ReplaceRegistryEntry(w, ok)
  <2>1. Only(w) /\ Keeps(w) /\ UNCHANGED <<row, final, disk, refused>>
    BY <1>0, <1>5, ReplaceRegistryEffect
  <2>2. Tok(w) = k
    BY <1>0, <1>2, <1>5 DEF ReplaceRegistryEntry, PlaceOf, Tok, Src
  <2>3. \A m \in Models: Clear(registry'[m])
    <3>1. \A m \in Models: registry'[m] \in {registry[m], k}
      BY <1>0, <1>5, <2>2 DEF ReplaceRegistryEntry
    <3> QED
      BY <1>4, <3>1
  <2> QED
    BY <1>3, <2>1, <2>3, WorkCleared
<1>6. CASE CompensateRegistry(w, ok)
  <2>1. Only(w) /\ Keeps(w) /\ UNCHANGED <<row, final, disk, refused>>
    BY <1>0, <1>6, CompensateRegistryEffect
  <2>2. \A m \in Models: Clear(registry'[m])
    <3>1. \A m \in Models: registry'[m] \in {registry[m], disk[k].prior}
      BY <1>0, <1>2, <1>6 DEF CompensateRegistry
    <3> QED
      BY <1>4, <3>1
  <2> QED
    BY <1>3, <2>1, <2>2, WorkCleared
<1> QED
  BY <1>5, <1>6

\* Steps that change neither a directory nor the registry entry, but the row.
LEMMA RowCleared ==
    ASSUME IInv, RInv', Cleared, Passes, UNCHANGED <<final, registry>>,
           \A k \in Tokens: /\ disk'[k].prior = disk[k].prior
                            /\ disk'[k].backup = disk[k].backup
    PROVE  Cleared'
<1>1. Flows
  BY DEF Passes
<1>2. \A t \in Targets: ClearNext(final'[t].content)
  BY <1>1, ClearKept DEF Cleared
<1>3. \A m \in Models: ClearNext(registry'[m])
  BY <1>1, ClearKept DEF Cleared
<1>4. \A k \in Tokens: Known(k) => /\ ClearNext(disk'[k].prior)
                                   /\ ClearNext(disk'[k].backup.content)
  BY <1>1, ClearKept DEF Cleared
<1> QED
  BY <1>2, <1>3, <1>4, ClearedFlow

\* The guard is entered, by a publication or by a recovery; or is not.
LEMMA GuardCleared ==
    ASSUME IInv, RInv', Cleared, NEW w \in Workers, NEW reply \in Replies,
           EnterGuard(w, reply) \/ Recover(w, reply)
    PROVE  Cleared'
<1>0. TInv
  BY DEF IInv, RInv
<1>1. /\ worker[w].pc \in {"reserved", "recovering"}
      /\ Only(w) /\ (worker'[w] = Idle \/ (Keeps(w) /\ worker'[w].thread = worker[w].thread))
      /\ disk' \in {disk, StageRemoved(Tok(w))}
      /\ UNCHANGED <<row, final, registry, refused>>
  BY <1>0, EnterGuardEffect, RecoverEffect DEF Leaves
<1>2. worker[w].thread = "none" /\ Tok(w) \in Tokens
  BY <1>0, <1>1, Threadless, BusyFacts DEF Begun
<1>3. Passes
  <2>1. \A v \in Workers: /\ worker'[v] = Idle \/ Keeps(v)
                          /\ worker'[v].thread # "none" => AtWork(worker[v]) /\ Keeps(v)
    BY <1>1, <1>2, Constructed DEF Only, Keeps, AtWork
  <2> QED
    BY <1>1, <2>1 DEF Passes, Flows, Promoting, Root
<1>4. \A k \in Tokens: disk'[k].prior = disk[k].prior /\ disk'[k].backup = disk[k].backup
  BY <1>0, <1>1, <1>2, StageRemovedRoot DEF OnlyRoot
<1> QED
  BY <1>1, <1>3, <1>4, RowCleared

\* A reservation: what is reserved has not been asked to stop.
LEMMA LeaseCleared ==
    ASSUME IInv, RInv', Cleared, NEW w \in Workers, NEW early, NEW reply \in Replies,
           LeaseIsValid(w, early, reply)
    PROVE  Cleared'
<1>0. TInv /\ RInv
  BY DEF IInv, RInv
<1>1. /\ worker[w].pc = "staged" /\ Leaves(w, {"erring", "reserved", "idle"})
      /\ OnlyRow(Job(w)) /\ row'[Job(w)] \in {row[Job(w)], Reserved(w, early)}
      /\ disk' \in {disk, StageRemoved(Tok(w))}
      /\ UNCHANGED <<final, registry, refused>>
  BY <1>0, LeaseIsValidEffect
<1>2. worker[w].thread = "none" /\ Tok(w) \in Tokens
  BY <1>0, <1>1, Threadless, BusyFacts DEF Begun
<1>3. PICK j \in Jobs: j = Job(w)
  BY <1>0, <1>1, BusyFacts
<1>4. \/ StillRow(j)
      \/ DroppedRow(j) /\ row[j].status \in Running
      \/ /\ row[j].status \in Running /\ ~Requested(row[j])
         /\ row'[j].status = "promoting" /\ row'[j].token = row[j].token
         /\ row'[j].source = 0 /\ row[j].source = 0
  BY <1>0, <1>1, <1>3, ReservedCases
<1>5. \A i \in Jobs: i # j => row'[i] = row[i]
  BY <1>1, <1>3 DEF OnlyRow
<1>6. Flows
  <2>1. row'[j].status \in Running => row[j].status \in Running /\ row'[j].token = row[j].token
    BY <1>4, StatusSets DEF StillRow, KeptRow, DroppedRow
  <2> QED
    BY <1>1, <1>5, <2>1 DEF Flows
<1>7. Names(row'[j]) \subseteq Names(row[j])
  BY <1>4 DEF StillRow, KeptRow, DroppedRow, Names
<1>8. ASSUME row[j].status \in Running, ~Requested(row[j]), row'[j].status = "promoting",
             row'[j].token = row[j].token, row'[j].source = 0
      PROVE  ClearNext(Root(j)')
  <2>1. Root(j)' = row[j].token /\ row[j].token \notin refused
    BY <1>8 DEF Root, IInv, Refusals
  <2>2. ASSUME NEW i \in Jobs, row'[i].status \in Running PROVE row'[i].token # row[j].token
    <3>1. i # j /\ row[i].status \in Running /\ row'[i] = row[i]
      BY <1>5, <1>8, <2>2, StatusSets
    <3> QED
      BY <1>0, <1>8, <3>1, RunningRoot, OneName DEF IInv
  <2> QED
    BY <1>1, <2>1, <2>2 DEF ClearNext
<1>9. Promoting(j)' => (Promoting(j) /\ Root(j)' = Root(j)) \/ ClearNext(Root(j)')
  BY <1>4, <1>8, StatusSets DEF StillRow, KeptRow, DroppedRow, Promoting, Root
<1>10. \A i \in Jobs: i # j => /\ Names(row'[i]) \subseteq Names(row[i])
                               /\ Promoting(i)' => Promoting(i) /\ Root(i)' = Root(i)
  BY <1>5 DEF Promoting, Root
<1>11. \A v \in Workers: /\ worker'[v] = Idle \/ Keeps(v)
                         /\ worker'[v].thread # "none" => AtWork(worker[v]) /\ Keeps(v)
  BY <1>1, <1>2, Constructed DEF Leaves, Only, Keeps, AtWork
<1>12. Passes
  BY <1>6, <1>7, <1>9, <1>10, <1>11 DEF Passes
<1>13. \A k \in Tokens: disk'[k].prior = disk[k].prior /\ disk'[k].backup = disk[k].backup
  BY <1>0, <1>1, <1>2, StageRemovedRoot DEF OnlyRoot
<1> QED
  BY <1>1, <1>12, <1>13, RowCleared

\* The commit: the downloads it asks to stop have been promoted nowhere.
LEMMA CompleteCleared ==
    ASSUME IInv, RInv', Cleared, NEW w \in Workers, NEW early,
           NEW reply \in Replies \cup {"raised"}, Complete(w, early, reply)
    PROVE  Cleared'
<1>0. TInv /\ RowShape
  BY DEF IInv, RInv
<1>1. /\ worker[w].pc = "registered" /\ Only(w) /\ Keeps(w)
      /\ worker'[w].thread = worker[w].thread /\ UNCHANGED <<final, registry, disk>>
      /\ \/ UNCHANGED <<row, refused>>
         \/ /\ row' = Completed(Job(w), early)
            /\ \A x \in refused': x \in refused \/
                  \E i \in Jobs: row[i].token = x /\ row[i].status \in Running
  BY <1>0, CompleteEffect DEF Siblings
<1>2. PICK j \in Jobs: j = Job(w)
  BY <1>0, <1>1, BusyFacts
<1>3. \A v \in Workers: /\ worker'[v] = Idle \/ Keeps(v)
                        /\ worker'[v].thread # "none" => AtWork(worker[v]) /\ Keeps(v)
  BY <1>1 DEF Only, Keeps, AtWork
<1>4. CASE UNCHANGED <<row, refused>>
  <2>1. Passes
    BY <1>3, <1>4 DEF Passes, Flows, Promoting, Root
  <2> QED
    BY <1>1, <2>1, RowCleared
<1>5. CASE /\ row' = Completed(j, early)
           /\ \A x \in refused': x \in refused \/
                 \E i \in Jobs: row[i].token = x /\ row[i].status \in Running
  <2>1. \A i \in Jobs: KeptRow(i) \/ DroppedRow(i)
    BY <1>0, <1>5, CompletedKept, StillKept
  <2>2. Flows
    BY <1>5, <2>1, StatusSets DEF Flows, KeptRow, DroppedRow
  <2>3. \A i \in Jobs: /\ Names(row'[i]) \subseteq Names(row[i])
                       /\ Promoting(i)' => Promoting(i) /\ Root(i)' = Root(i)
    BY <2>1, StatusSets DEF KeptRow, DroppedRow, Names, Promoting, Root
  <2>4. Passes
    BY <1>3, <2>2, <2>3 DEF Passes
  <2> QED
    BY <1>1, <2>4, RowCleared
<1> QED
  BY <1>1, <1>2, <1>4, <1>5

\* A claim: its token is nothing's that could be installed.
LEMMA ClaimCleared ==
    ASSUME IInv, RInv', Cleared, NEW w \in Workers, NEW j \in Jobs, NEW source,
           Issued(w, j, source),
           \A i \in Jobs \ {j}: KeptRow(i) \/ (DroppedRow(i) /\ ~Promoting(i)),
           row'[j].token = NewToken,
           \/ row'[j].status = "running" /\ row'[j].source = 0 /\ source = NewToken
           \/ /\ Promoting(j) /\ row'[j].status = "promoting"
              /\ row'[j].source = Root(j) /\ source = Root(j)
    PROVE  Cleared'
<1>0. TInv /\ RInv
  BY DEF IInv, RInv
<1>1. PICK n \in Tokens: n = NewToken /\ n # 0 /\ n \notin Used
  BY DownloadAssumption DEF Issued
<1>2. /\ worker[w] = Idle /\ Only(w) /\ (worker' = worker \/ Starts(w, j, n, source))
      /\ disk'[n] = Clean /\ (\A x \in Tokens: x # n => disk'[x] = disk[x])
      /\ refused' = refused \ {n} /\ UNCHANGED <<final, registry>>
  <2>1. disk \in [Tokens -> Disk]
    BY <1>0 DEF TInv, TypeOK
  <2> QED
    BY <1>1, <2>1 DEF Issued
<1>3. ASSUME NEW x, x # n, Clear(x) PROVE ClearNext(x)
  <2>1. x \notin refused'
    BY <1>2, <1>3 DEF Clear
  <2>2. ASSUME NEW i \in Jobs, row'[i].status \in Running PROVE row'[i].token # x
    <3>1. CASE i = j
      BY <1>1, <1>3, <3>1
    <3>2. CASE i # j
      <4>1. row[i].status \in Running /\ row'[i].token = row[i].token
        BY <2>2, <3>2, StatusSets DEF KeptRow, DroppedRow
      <4> QED
        BY <1>3, <4>1 DEF Clear
    <3> QED
      BY <3>1, <3>2
  <2> QED
    BY <2>1, <2>2 DEF ClearNext
<1>4. \A t \in Targets: ClearNext(final'[t].content)
  BY <1>1, <1>2, <1>3, UsedTokens DEF Cleared
<1>5. \A m \in Models: ClearNext(registry'[m])
  BY <1>1, <1>2, <1>3, UsedTokens DEF Cleared
<1>6. \A k \in Tokens: Known(k) => k \in InUse
  BY DEF Known, Names, InUse
<1>7. \A k \in Tokens: Known(k) => /\ ClearNext(disk'[k].prior)
                                   /\ ClearNext(disk'[k].backup.content)
  <2> SUFFICES ASSUME NEW k \in Tokens, Known(k)
               PROVE  ClearNext(disk'[k].prior) /\ ClearNext(disk'[k].backup.content)
    OBVIOUS
  <2>1. k \in InUse
    BY <1>6
  <2>2. k # n
    BY <1>1, <2>1 DEF Used
  <2>3. disk[k].prior # n /\ disk[k].backup.content # n /\ disk'[k] = disk[k]
    BY <1>1, <1>2, <2>1, <2>2, UsedTokens
  <2> QED
    BY <1>3, <2>3 DEF Cleared
<1>8. ClearNext(disk'[n].prior) /\ ClearNext(disk'[n].backup.content)
  BY <1>2, ClearNothing, Constructed DEF Clean
<1>9. ASSUME NEW i \in Jobs, Promoting(i)' PROVE ClearNext(Root(i)')
  <2>1. Promoting(i) /\ Root(i)' = Root(i)
    <3>1. CASE i = j
      <4>1. Promoting(j) /\ row'[j].source = Root(j)
        BY <1>9, <3>1, StatusSets DEF Promoting
      <4>2. Root(j) # 0
        BY <1>0, <4>1, RootToken, StatusSets DEF Promoting
      <4>3. Root(j)' = row'[j].source
        BY <4>1, <4>2 DEF Root
      <4> QED
        BY <3>1, <4>1, <4>3
    <3>2. CASE i # j
      BY <1>9, <3>2, StatusSets DEF KeptRow, DroppedRow, Promoting, Root
    <3> QED
      BY <3>1, <3>2
  <2>2. Clear(Root(i)) /\ Root(i) # n
    BY <1>1, <2>1, UsedTokens DEF Cleared, Root
  <2> QED
    BY <1>3, <2>1, <2>2
<1>10. ASSUME NEW v \in Workers, worker'[v].thread # "none"
       PROVE  ClearNext(worker'[v].source)
  <2>1. worker'[v] = worker[v]
    BY <1>2, <1>10 DEF Starts, Only
  <2> QED
    BY <1>1, <1>3, <1>10, <2>1, UsedTokens DEF Cleared
<1>11. \A k \in Tokens: Known(k)' => k = n \/ Known(k)
  <2> SUFFICES ASSUME NEW k \in Tokens, Known(k)', k # n PROVE Known(k)
    OBVIOUS
  <2>1. source # n => source = Root(j) /\ source # 0 /\ Root(j) \in {row[j].token, row[j].source}
    BY <1>1 DEF Root, Issued
  <2>2. ASSUME NEW i \in Jobs, k \in Names(row'[i]) PROVE k \in Names(row[i])
    <3>1. CASE i = j
      BY <1>1, <2>1, <2>2, <3>1 DEF Names
    <3>2. CASE i # j
      BY <2>2, <3>2 DEF KeptRow, DroppedRow, Names
    <3> QED
      BY <3>1, <3>2
  <2>3. ASSUME NEW v \in Workers, k \in Names(worker'[v]) PROVE Known(k)
    <3>1. CASE worker'[v] = worker[v]
      BY <2>3, <3>1 DEF Known
    <3>2. CASE worker'[v] # worker[v]
      <4>1. k = source /\ source # n
        BY <1>2, <2>3, <3>2 DEF Starts, Only, Names
      <4>2. k \in Names(row[j])
        BY <2>1, <4>1 DEF Names
      <4> QED
        BY <4>2 DEF Known
    <3> QED
      BY <3>1, <3>2
  <2> QED
    BY <2>2, <2>3 DEF Known
<1>12. \A k \in Tokens: Known(k)' => /\ ClearNext(disk'[k].prior)
                                     /\ ClearNext(disk'[k].backup.content)
  BY <1>7, <1>8, <1>11
<1> QED
  BY <1>4, <1>5, <1>9, <1>10, <1>12 DEF Cleared, Clear, ClearNext

LEMMA ClaimsCleared ==
    ASSUME IInv, RInv', Cleared, NEW w \in Workers,
           \/ \E j \in Jobs, late \in SUBSET Overdue, reply \in Replies:
                 ClaimNext(w, j, late, reply)
           \/ \E j \in Jobs, reply \in Replies: ClaimRecovery(w, j, reply)
    PROVE  Cleared'
<1>0. TInv /\ RowShape
  BY DEF IInv, RInv
<1>1. ASSUME NEW j \in Jobs, NEW late \in SUBSET Overdue, NEW reply \in Replies,
             ClaimNext(w, j, late, reply)
      PROVE  Cleared'
  <2>1. /\ Issued(w, j, NewToken)
        /\ \A i \in Jobs \ {j}: KeptRow(i) \/ (DroppedRow(i) /\ ~Promoting(i))
        /\ row'[j].status = "running"
        /\ row'[j].token = NewToken /\ row'[j].source = 0
    BY <1>0, <1>1, ClaimNextEffect, StillKept
  <2> QED
    BY <2>1, ClaimCleared
<1>2. ASSUME NEW j \in Jobs, NEW reply \in Replies, ClaimRecovery(w, j, reply)
      PROVE  Cleared'
  <2>1. /\ Issued(w, j, Root(j))
        /\ \A i \in Jobs \ {j}: KeptRow(i)
        /\ Promoting(j) /\ row'[j].status = "promoting"
        /\ row'[j].token = NewToken /\ row'[j].source = Root(j)
    BY <1>0, <1>2, ClaimRecoveryEffect, SameRow, StillKept
  <2> QED
    BY <2>1, ClaimCleared
<1> QED
  BY <1>1, <1>2

\* Every step keeps what can be installed clear.
LEMMA ClearedStep ==
    ASSUME IInv, Cleared, [Next]_vars
    PROVE  Cleared'
<1>0. RInv' /\ Watches
  BY RowsInv, WatchesStep DEF IInv, RInv
<1>1. CASE UNCHANGED vars
  <2>1. UNCHANGED <<row, worker, final, registry, disk, installed, refused>>
    BY <1>1 DEF vars
  <2> QED
    BY <1>0, <2>1, StutterCalm, CalmCleared
<1>2. CASE \E j \in Jobs: Request(j)
  BY <1>0, <1>2, QuietActions, CalmCleared
<1>3. ASSUME NEW w \in Workers, Claim(w) PROVE Cleared'
  BY <1>0, <1>3, QuietActions, ClaimsCleared, CalmCleared DEF Claim
<1>4. ASSUME NEW w \in Workers, DiskStep(w) PROVE Cleared'
  <2>1. TRUE \in BOOLEAN
    OBVIOUS
  <2>2. CASE PromoteBackup(w) \/ CleanupCommitted(w)
    BY <1>0, <2>1, <2>2, DirectoriesCleared
  <2>3. ASSUME NEW ok \in BOOLEAN, \/ DownloadModel(w, ok) \/ ReplaceRegistryEntry(w, ok)
                                   \/ CompensateRegistry(w, ok)
        PROVE  Cleared'
    BY <1>0, <2>3, LeavingActions, CalmCleared, RegistryCleared
  <2>4. ASSUME NEW ok \in BOOLEAN, \/ CreateJournal(w, ok) \/ PromoteRename(w, ok)
                                   \/ RollbackFilesystem(w, ok) \/ RemoveStageRoot(w, ok)
                                   \/ StrayRollback(w, ok) \/ StrayRemoval(w, ok)
        PROVE  Cleared'
    BY <1>0, <2>4, DirectoriesCleared
  <2> QED
    BY <1>4, <2>2, <2>3, <2>4 DEF DiskStep
<1>5. ASSUME NEW w \in Workers, RowStep(w) PROVE Cleared'
  <2>1. CASE \/ Heartbeat(w)
             \/ \E reply \in Replies: \/ FailClaim(w, reply) \/ AbortForRetry(w, reply)
                                      \/ Defer(w, reply)
                                      \/ ReleaseCancelledClaim(w, reply)
    BY <1>0, <2>1, LeavingActions, CalmCleared
  <2> QED
    BY <1>0, <1>5, <2>1, LeaseCleared, GuardCleared, CompleteCleared DEF RowStep
<1>6. ASSUME NEW w \in Workers, Crash(w) \/ \E landed \in BOOLEAN: Cancel(w, landed)
      PROVE  Cleared'
  BY <1>0, <1>6, LeavingActions, CalmCleared, DirectoriesCleared
<1> QED
  BY <1>1, <1>2, <1>3, <1>4, <1>5, <1>6 DEF Next, WorkerStep

LEMMA InvRefused == Cleared => RefusedNotInstalled
  BY DEF Cleared, Clear, RefusedNotInstalled

-----------------------------------------------------------------------------
(* The theorems. *)

\* Whatever is requested, claimed, published, undone, recovered, cancelled or
\* cut off, the columns, the locals and the directories keep their types, a row
\* that is downloading or being promoted knows its staging root, and a target
\* has one owner unless a late transaction made a second one.
THEOREM DownloadRows == Spec => []RInv
<1>1. Init => RInv
  BY InitInv DEF IInv
<1>2. RInv /\ [Next]_vars => RInv'
  BY RowsInv
<1> QED
  BY <1>1, <1>2, PTL DEF Spec

\* The state of the downloads is well formed in every reachable state.
THEOREM DownloadTypes == Spec => []TypeOK
<1>1. RInv => TypeOK
  BY DEF RInv, TInv
<1> QED
  BY <1>1, DownloadRows, PTL

\* create_job, claim_next, lease_is_valid, heartbeat and the recovery's claim
\* give a target a second owner only by a renewal or a reservation that began
\* before its lease expired and commits after a sibling was claimed (now() is
\* the start of its transaction): a target without such a step has one owner.
THEOREM DownloadOneTargetOwner == Spec => []OneTargetOwner
<1>1. RInv => OneTargetOwner
  BY DEF RInv
<1> QED
  BY <1>1, DownloadRows, PTL

\* The directories, the registry, the rows and the executions agree as IInv
\* says, through every crash, failed call, lost reply, late transaction and
\* cancellation, also one inside the publication's guard.
THEOREM DownloadInvariant == Spec => []IInv
<1>1. Init => IInv
  BY InitInv
<1>2. IInv /\ [Next]_vars => IInv'
  BY NextInv
<1> QED
  BY <1>1, <1>2, PTL DEF Spec

\* A target that no job promotes has the artifact that was completed last, at
\* its path and, where no other path shares its model's entry, in the registry:
\* publications and their compensation, cut off anywhere, leave nothing torn,
\* unless the target had two owners or a thread that its cancelled execution no
\* longer waited for has moved a directory.
THEOREM DownloadInstallIntact == Spec => []InstallIntact
  BY DownloadInvariant, InvIntact, PTL

\* promote's backup keeps the previous artifact until the new one is complete
\* and the row says so, with the same two exceptions.
THEOREM DownloadPreviousSurvives == Spec => []PreviousSurvives
  BY DownloadInvariant, InvSurvives, PTL

\* cancel_job and pause_job are honoured without exception: lease_is_valid
\* looks at the row again before a promotion, a promotion cannot be refused any
\* more, and no thread, late transaction or restored backup brings an artifact
\* to an install path or into the registry that was asked to stop.
THEOREM DownloadRefusedNotInstalled == Spec => []RefusedNotInstalled
<1>1. Init => IInv /\ Cleared
  BY InitInv
<1>2. IInv /\ Cleared /\ [Next]_vars => (IInv /\ Cleared)'
  BY NextInv, ClearedStep
<1>3. IInv /\ Cleared => RefusedNotInstalled
  BY InvRefused
<1> QED
  BY <1>1, <1>2, <1>3, PTL DEF Spec

=============================================================================
