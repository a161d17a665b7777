--------------------------- MODULE ModelDownload ---------------------------
(***************************************************************************)
(* Durable model downloads: the rows of public.model_download_jobs, the    *)
(* worker that claims and executes them, and the publication of a staged   *)
(* artifact: install directory, registry entry and job row, which no       *)
(* single transaction covers.                                              *)
(*                                                                         *)
(* A repository method is one transaction and one action.  The publication *)
(* guard is a transaction that stays open over several steps and holds the *)
(* target's advisory lock and the job's row.  Lease deadlines are compared *)
(* only with the database clock, so a lease is "live" or "expired"; but    *)
(* some statements use clock_timestamp() and others now(), the time their  *)
(* transaction began: to these a lease that expired since is still valid   *)
(* (Sees).                                                                 *)
(*                                                                         *)
(* available_at is left out: the worker may poll before or after a delay   *)
(* has passed, and a row that is not yet available blocks its siblings as  *)
(* an available one does.  pause_requested is true exactly in the statuses *)
(* "pause_requested" and "paused".                                         *)
(***************************************************************************)
EXTENDS Naturals, FiniteSets

CONSTANTS Jobs,         \* job_id values, numbered in the order of created_at
          Targets,      \* canonical install paths
          Target,       \* Target[j]: the install_path of job j
          Models,       \* model_id values, the keys of the registry
          Model,        \* Model[t]: the model installed at t, in some revision
          Workers,      \* executions that run concurrently
          NoJob,        \* "this execution holds no job"
          Tokens,       \* uuid4 values; one that nothing refers to is reused
          MaxAttempts,  \* max_attempts
          Limit         \* model_download_runtime_settings.max_concurrent_downloads

ASSUME DownloadAssumption ==
    /\ Jobs \subseteq Nat
    /\ Tokens \subseteq Nat \ {0}
    /\ NoJob \notin Jobs
    /\ Target \in [Jobs -> Targets]
    /\ MaxAttempts \in Nat \ {0}
    /\ Limit \in Nat \ {0}
    /\ Model \in [Targets -> Models]

VARIABLES row,       \* row[j]: the table row of job j
          worker,    \* worker[w]: where the execution w is
          final,     \* final[t]: what is at the install path
          registry,  \* registry[m]: the publication the entry of model m names
          disk,      \* disk[k]: the staging root of lease token k, its backup
          installed, \* the publication completed last, per target
          refused,   \* the tokens whose job was asked to stop while they ran
          doubled,   \* history: targets that got a second owner (Late)
          overrun    \* history: targets that a stray thread changed (Stray)

vars == <<row, worker, final, registry, disk, installed, refused, doubled, overrun>>

\* "absent": no row yet; "deleted": the row is gone.  An id is used once.
Statuses == {"absent", "queued", "running", "pause_requested", "paused",
             "promoting", "completed", "failed", "cancelled", "deleted"}
Waiting == {"queued", "paused"}
Running == {"running", "pause_requested"}
Terminal == {"completed", "failed", "cancelled"}
Leases == {"null", "live", "expired"}
Replies == {"ok", "lost", "failed"}
Token0 == Tokens \cup {0}   \* 0 is NULL, "nothing there", "no entry"

\* attempts stops at MaxAttempts: release_for_shutdown may give a job more
\* claims than that, but the code only asks whether it is reached.
\* later: the siblings whose completed_at is not before this row's created_at.
Row == [status: Statuses, attempts: 0..MaxAttempts, token: Token0, lease: Leases,
        source: Token0, cancel: BOOLEAN, later: SUBSET Jobs]

\* A directory: the publication it came from, and the marker file inside.
Dir == [content: Token0, marker: Token0]
Nothing == [content |-> 0, marker |-> 0]

\* staged: the artifact is in the staging root.  receipt: so is the journal,
\* which records had_previous_install and prior_registry_entry.
Disk == [staged: BOOLEAN, receipt: BOOLEAN, had: BOOLEAN, prior: Token0,
         backup: Dir]
Clean == [staged |-> FALSE, receipt |-> FALSE, had |-> FALSE, prior |-> 0,
          backup |-> Nothing]

\* The states in which the execution is inside publication_guard.
InGuard == {"guarded", "journaled", "promoted", "registered", "compensating",
            "rollback", "removing", "aborting"}

PCs == {"idle", "downloading", "staged", "reserved", "recovering", "cleaning",
        "erring", "deferring", "cancelling"} \cup InGuard

\* source is the token whose staging root is worked on: token itself, or the
\* interrupted token when the claim is a recovery.  thread is what promote's
\* thread does next, or what the thread of rollback_filesystem still does for
\* an execution cancelled meanwhile; safe is what the compensation has found
\* so far.
Worker == [pc: PCs, job: Jobs \cup {NoJob}, token: Token0, source: Token0,
           thread: {"none", "backup", "rename", "rollback", "removing"},
           cancelled: BOOLEAN, safe: BOOLEAN]

Idle == [pc |-> "idle", job |-> NoJob, token |-> 0, source |-> 0,
         thread |-> "none", cancelled |-> FALSE, safe |-> FALSE]

Absent == [status |-> "absent", attempts |-> 0, token |-> 0, lease |-> "null",
           source |-> 0, cancel |-> FALSE, later |-> {}]

-----------------------------------------------------------------------------
(* Helpers. *)

\* The tokens by which rows and executions still find a staging root.
InUse == (UNION {{row[j].token, row[j].source}: j \in Jobs})
         \cup (UNION {{worker[w].token, worker[w].source}: w \in Workers})

\* uuid4: a token that nothing within reach refers to.
Used == InUse
        \cup (UNION {{final[t].content, final[t].marker, installed[t]}: t \in Targets})
        \cup {registry[m]: m \in Models}
        \cup (UNION {{disk[k].prior, disk[k].backup.content,
                      disk[k].backup.marker}: k \in Tokens \cap InUse})
Fresh == Tokens \ Used
NewToken == CHOOSE k \in Fresh: TRUE

Siblings(j) == {i \in Jobs \ {j}: Target[i] = Target[j]}

\* The publication guard of target t is open: its advisory lock is held.
Locked(t) ==
    \E w \in Workers: worker[w].pc \in InGuard /\ Target[worker[w].job] = t

Held(r) == r.lease = "live" /\ r.status \in Running \cup {"promoting"}

Overdue == {j \in Jobs: row[j].lease = "expired"}

\* lease_expires_at > now(): early are the jobs whose lease has expired since
\* the transaction began.
Sees(j, early) == row[j].lease = "live" \/ j \in early \cap Overdue

\* A job of the target is being promoted or downloads under a live lease.
Taken(r) == r.status = "promoting" \/ Held(r)

\* _global_capacity_available counts the live leases of all jobs.
CapacityAvailable(rows) == Cardinality({j \in Jobs: Held(rows[j])}) < Limit

Released(r, status) ==
    [r EXCEPT !.status = status, !.token = 0, !.lease = "null"]

Superseded(r) == [Released(r, "cancelled") EXCEPT !.cancel = TRUE]

\* _fail_or_retry_in_session: what becomes of a claim that ends unpublished.
FailOrRetry(r) ==
    [Released(r, CASE r.cancel -> "cancelled"
                   [] ~r.cancel /\ r.status = "pause_requested" -> "paused"
                   [] OTHER -> IF r.attempts >= MaxAttempts THEN "failed"
                                                            ELSE "queued")
        EXCEPT !.source = 0]

\* Mutant: promotions with an expired lease are reclaimed like downloads.
LapsedAnyStatus(r) ==
    r.status \in Running \cup {"promoting"} /\ r.lease = "expired"

\* claim_next's first UPDATE reclaims these; promotions are left alone.
Lapsed(r) == r.status \in Running /\ r.lease = "expired"

\* Its clock is read before the one of the candidates' query: the rows of
\* `late` expire in between and are not swept.
Swept(late) ==
    [j \in Jobs |-> IF Lapsed(row[j]) /\ j \notin late
                    THEN FailOrRetry(row[j]) ELSE row[j]]

\* The histories only watch.
histories == <<doubled, overrun>>

-----------------------------------------------------------------------------
(* Requests. *)

NoDiskChange == UNCHANGED <<final, registry, disk, installed>>

\* create_job: one job per target that is not in a terminal status (a second
\* request gets the first one's row, or a PermissionError: nothing changes).
CreateJob(j) ==
    /\ row[j].status = "absent"
    /\ \A i \in Jobs: row[i].status # "absent" => i < j
    /\ \A i \in Siblings(j): row[i].status \in Terminal \cup {"absent", "deleted"}
    /\ row' = [row EXCEPT ![j].status = "queued"]
    /\ UNCHANGED <<worker, refused, histories>> /\ NoDiskChange

\* import_legacy_jobs: rows of the former JSON state, whatever their target.
ImportLegacyJob(j, status, later) ==
    /\ row[j].status = "absent"
    /\ status \in Waiting
    /\ later \subseteq {i \in Siblings(j): row[i].status = "completed"}
    /\ \A i \in Siblings(j): row[i].status = "completed" /\ i > j => i \in later
    /\ row' = [row EXCEPT ![j].status = status, ![j].later = later]
    /\ UNCHANGED <<worker, refused, histories>> /\ NoDiskChange

\* A leased job keeps its lease: the request is honoured when its I/O ends.
CancelJob(j) ==
    /\ row[j].status \in Waiting \cup Running
    /\ row' = [row EXCEPT ![j] =
                 IF @.token # 0 THEN [@ EXCEPT !.cancel = TRUE]
                                ELSE [@ EXCEPT !.cancel = TRUE,
                                               !.status = "cancelled"]]
    /\ refused' = refused \cup ({row[j].token} \ {0})
    /\ UNCHANGED <<worker, histories>> /\ NoDiskChange

PauseJob(j) ==
    /\ row[j].status \in {"queued", "running"}
    /\ ~row[j].cancel
    /\ row' = [row EXCEPT ![j].status =
                 IF row[j].token # 0 THEN "pause_requested" ELSE "paused"]
    /\ refused' = refused \cup ({row[j].token} \ {0})
    /\ UNCHANGED <<worker, histories>> /\ NoDiskChange

\* Mutant: a pause request that is still leased may be resumed.
ResumeStillLeased(j) ==
    /\ row[j].status \in {"paused", "pause_requested"}
    /\ row' = [row EXCEPT ![j].status =
                 IF row[j].token # 0 THEN "running" ELSE "queued"]
    /\ UNCHANGED <<worker, refused, histories>> /\ NoDiskChange

\* Only fully paused work, never a still-leased pause request.
ResumeJob(j) ==
    /\ row[j].status = "paused"
    /\ row[j].token = 0
    /\ row' = [row EXCEPT ![j].status = "queued"]
    /\ UNCHANGED <<worker, refused, histories>> /\ NoDiskChange

\* cleanup_finished_jobs deletes terminal rows of at least max_age_seconds,
\* by when their executions have ended.
CleanupFinishedJob(j) ==
    /\ row[j].status \in Terminal
    /\ \A w \in Workers: worker[w].job # j
    /\ row' = [i \in Jobs |-> IF i = j THEN [Absent EXCEPT !.status = "deleted"]
                              ELSE [row[i] EXCEPT !.later = @ \ {j}]]
    /\ UNCHANGED <<worker, refused, histories>> /\ NoDiskChange

\* lease_seconds pass without a renewal that took effect in time.
LeaseExpires(j) ==
    /\ row[j].lease = "live"
    /\ row' = [row EXCEPT ![j].lease = "expired"]
    /\ UNCHANGED <<worker, refused, histories>> /\ NoDiskChange

-----------------------------------------------------------------------------
(* Claims.  Both take the global advisory lock. *)

\* An execution starts on a fresh token (when the reply comes) with an empty
\* staging root.
Issue(w, j, source, reply) ==
    /\ Fresh # {}
    /\ reply \in {"ok", "lost"}
    /\ worker' = IF reply = "lost" THEN worker ELSE
                 [worker EXCEPT ![w] =
                    [Idle EXCEPT !.pc = IF source = 0 THEN "downloading"
                                                      ELSE "recovering",
                                 !.job = j, !.token = NewToken,
                                 !.source = IF source = 0 THEN NewToken
                                                          ELSE source]]
    /\ disk' = [disk EXCEPT ![NewToken] = Clean]
    /\ refused' = refused \ {NewToken}
    /\ UNCHANGED <<final, registry, installed, histories>>

\* Mutant: siblings that are being promoted do not block the target.
BlockedByLeaseOnly(rows, j) ==
    \E i \in Siblings(j):
        \/ rows[i].status \in Running /\ rows[i].lease = "live"
        \/ rows[i].status \in Waiting /\ i < j

\* The NOT EXISTS of claim_next's candidate.
Blocked(rows, j) ==
    \E i \in Siblings(j):
        \/ rows[i].status = "promoting"
        \/ rows[i].status \in Running /\ rows[i].lease = "live"
        \/ rows[i].status \in Waiting /\ i < j

\* claim_next: sweep, check the capacity, claim a candidate and cancel the
\* waiting duplicates of its target.
ClaimNext(w, j, late, reply) ==
    LET rows == Swept(late) IN
    /\ worker[w] = Idle
    /\ late \subseteq {i \in Jobs: Lapsed(row[i])}
    /\ CapacityAvailable(rows)
    /\ rows[j].status = "queued"
    /\ ~Blocked(rows, j)
    /\ Issue(w, j, 0, reply)
    /\ row' = [i \in Jobs |->
                 CASE i = j -> [rows[i] EXCEPT !.status = "running",
                                               !.attempts = IF @ < MaxAttempts THEN @ + 1 ELSE @,
                                               !.token = NewToken,
                                               !.lease = "live"]
                   [] i \in Siblings(j) /\ rows[i].status \in Waiting ->
                        Superseded(rows[i])
                   [] OTHER -> rows[i]]

\* A poll that claims nothing still sweeps.
ClaimNothing(w) ==
    /\ worker[w] = Idle
    /\ row' = Swept({})
    /\ UNCHANGED <<worker, refused, histories>> /\ NoDiskChange

\* The WHERE clause of claim_expired_promotion_for_recovery.
Interrupted(r) ==
    /\ r.status = "promoting"
    /\ \/ r.token # 0 /\ r.lease = "expired"
       \/ r.token = 0 /\ r.source # 0

\* claim_expired_promotion_for_recovery: the receipt keeps its identity.
ClaimRecovery(w, j, reply) ==
    LET source == IF row[j].source # 0 THEN row[j].source ELSE row[j].token IN
    /\ worker[w] = Idle
    /\ CapacityAvailable(row)
    /\ Interrupted(row[j])
    /\ ~Locked(Target[j])
    /\ Issue(w, j, source, reply)
    /\ row' = [row EXCEPT ![j].source = source, ![j].token = NewToken,
                          ![j].lease = "live"]

-----------------------------------------------------------------------------
(* One execution, until it asks for the guard. *)

Job(w) == worker[w].job
Tok(w) == worker[w].token
Src(w) == worker[w].source
Recovery(w) == Src(w) # Tok(w)

Goto(w, pc) == worker' = [worker EXCEPT ![w].pc = pc]

\* The execution is over; a thread that nobody can stop may still be running.
Ended(w) == IF worker[w].thread = "none" THEN Idle
            ELSE [worker[w] EXCEPT !.pc = "idle"]
End(w) == worker' = [worker EXCEPT ![w] = Ended(w)]

\* A statement takes effect for a claim on job j whose lease has expired, and
\* a sibling owns the target by now.
Late(j) ==
    /\ row[j].lease = "expired" /\ ~Taken(row[j]) /\ Taken(row'[j])
    /\ \E i \in Siblings(j): Taken(row[i])

\* The thread of an execution that no longer waits for it moves directories.
Stray(w) == worker[w].pc # "journaled" /\ <<final', disk'>> # <<final, disk>>

NoteLate(j) == doubled' = doubled \cup (IF Late(j) THEN {Target[j]} ELSE {})
NoteStray(w) == overrun' = overrun \cup (IF Stray(w) THEN {Target[Job(w)]} ELSE {})

\* heartbeat, when its transaction began before the lease expired and changes
\* the row only now (the guard holds the row's lock).  A renewal in time leaves
\* the lease live; one that is refused or fails only stops renewing: the
\* execution goes on.
Heartbeat(w) ==
    LET j == Job(w) IN
    /\ worker[w].pc \notin InGuard \cup {"idle"}
    /\ row[j].status \in Running \cup {"promoting"}
    /\ row[j].token = Tok(w)
    /\ row[j].lease = "expired"
    /\ row' = [row EXCEPT ![j].lease = "live"]
    /\ NoteLate(j)
    /\ UNCHANGED <<worker, refused, overrun>> /\ NoDiskChange

StageRemoved(k) == [disk EXCEPT ![k].staged = FALSE, ![k].receipt = FALSE]

DownloadModel(w, ok) ==
    /\ worker[w].pc = "downloading"
    /\ disk' = [disk EXCEPT ![Tok(w)].staged = ok]
    /\ Goto(w, IF ok THEN "staged" ELSE "erring")
    /\ UNCHANGED <<row, final, registry, installed, refused, histories>>

\* The row's owner is w, and its lease is valid to a transaction that began
\* before the leases of `early` expired.
LeasedTo(w, early) == row[Job(w)].token = Tok(w) /\ Sees(Job(w), early)

Requested(r) == r.cancel \/ r.status = "pause_requested"

\* lease_is_valid: honour a request, give way to a sibling that owns or has
\* completed the target, or reserve the promotion.
Reserved(w, early) ==
    LET j == Job(w)
        r == row[j]
        owner == LeasedTo(w, early) /\ r.status \in Running
        fenced == \/ r.later # {}
                  \/ \E i \in Siblings(j): row[i].status = "promoting" /\ Sees(i, early)
    IN CASE ~owner -> r
         [] owner /\ Requested(r) ->
              Released(r, IF r.cancel THEN "cancelled" ELSE "paused")
         [] OTHER -> IF fenced THEN Superseded(r)
                               ELSE [r EXCEPT !.status = "promoting"]

LeaseIsValid(w, early, reply) ==
    /\ worker[w].pc = "staged"
    /\ ~Locked(Target[Job(w)])
    /\ row' = IF reply = "failed" THEN row
              ELSE [row EXCEPT ![Job(w)] = Reserved(w, early)]
    /\ IF reply # "ok" THEN Goto(w, "erring") /\ UNCHANGED disk
       ELSE IF LeasedTo(w, early) /\ Reserved(w, early).status = "promoting"
       THEN Goto(w, "reserved") /\ UNCHANGED disk
       ELSE End(w) /\ disk' = StageRemoved(Tok(w))
    /\ NoteLate(Job(w))
    /\ UNCHANGED <<final, registry, installed, refused, overrun>>

\* _execute_claim's except Exception: a promotion is left to the recovery.
FailClaim(w, reply) ==
    /\ worker[w].pc = "erring"
    /\ row' = IF /\ reply # "failed"
                 /\ row[Job(w)].status # "promoting"
                 /\ row[Job(w)].token = Tok(w)
              THEN [row EXCEPT ![Job(w)] = FailOrRetry(@)] ELSE row
    /\ End(w)
    /\ UNCHANGED <<refused, histories>> /\ NoDiskChange

-----------------------------------------------------------------------------
(* The publication.  In the guard, nobody else can claim the row.          *)

\* publication_guard's checks (a promoting row has no request); its clock is
\* read after the locks are held.
MayPublish(w) ==
    /\ row[Job(w)].status = "promoting"
    /\ row[Job(w)].token = Tok(w)
    /\ row[Job(w)].lease = "live"

EnterGuard(w, reply) ==
    /\ worker[w].pc = "reserved"
    /\ ~Locked(Target[Job(w)])
    /\ reply \in {"ok", "failed"}
    /\ IF reply = "failed" THEN Goto(w, "erring") /\ UNCHANGED disk
       ELSE IF MayPublish(w) THEN Goto(w, "guarded") /\ UNCHANGED disk
       ELSE End(w) /\ disk' = StageRemoved(Tok(w))
    /\ UNCHANGED <<row, final, registry, installed, refused, histories>>

\* snapshot_registry_entry and create_journal.
Journaled(w) ==
    LET t == Target[Job(w)] IN
    [disk EXCEPT ![Tok(w)].receipt = TRUE,
                 ![Tok(w)].had = final[t] # Nothing,
                 ![Tok(w)].prior = registry[Model[t]]]

\* Promote's thread then starts.
CreateJournal(w, ok) ==
    /\ worker[w].pc = "guarded"
    /\ disk' = IF ok THEN Journaled(w) ELSE disk
    /\ worker' = [worker EXCEPT ![w].pc = IF ok THEN "journaled" ELSE "erring",
                                ![w].thread = IF ok THEN "backup" ELSE "none"]
    /\ UNCHANGED <<row, final, registry, installed, refused, histories>>

\* A thread stops; promote's awaiter goes on to pc unless it was cancelled.
ThreadEnds(w, pc) ==
    worker' = [worker EXCEPT ![w] =
                 IF @.pc = "idle" THEN Idle
                 ELSE [@ EXCEPT !.thread = "none",
                                !.pc = IF worker[w].pc = "journaled"
                                       THEN pc ELSE worker[w].pc]]

\* promote, first half: the previous install is moved to the backup path.
PromoteBackup(w) ==
    LET t == Target[Job(w)]
        k == Tok(w) IN
    /\ worker[w].thread = "backup"
    /\ IF disk[k].had = (final[t] # Nothing)
       THEN /\ disk' = [disk EXCEPT ![k].backup = final[t]]
            /\ final' = [final EXCEPT ![t] = Nothing]
            /\ worker' = [worker EXCEPT ![w].thread = "rename"]
       ELSE UNCHANGED <<disk, final>> /\ ThreadEnds(w, "compensating")
    /\ NoteStray(w)
    /\ UNCHANGED <<row, registry, installed, refused, doubled>>

\* Second half: the staged artifact, marker inside, takes its place.  When
\* that fails the previous install is put back.
PromoteRename(w, ok) ==
    LET t == Target[Job(w)]
        k == Tok(w) IN
    /\ worker[w].thread = "rename"
    /\ ok => disk[k].staged /\ final[t] = Nothing
    /\ IF ok
       THEN /\ final' = [final EXCEPT ![t] = [content |-> k, marker |-> k]]
            /\ disk' = [disk EXCEPT ![k].staged = FALSE]
            /\ ThreadEnds(w, "promoted")
       ELSE /\ IF final[t] = Nothing
               THEN /\ final' = [final EXCEPT ![t] = disk[k].backup]
                    /\ disk' = [disk EXCEPT ![k].backup = Nothing]
               ELSE UNCHANGED <<final, disk>>
            /\ ThreadEnds(w, "compensating")
    /\ NoteStray(w)
    /\ UNCHANGED <<row, registry, installed, refused, doubled>>

ReplaceRegistryEntry(w, ok) ==
    /\ worker[w].pc = "promoted"
    /\ registry' = IF ok THEN [registry EXCEPT ![Model[Target[Job(w)]]] = Tok(w)]
                         ELSE registry
    /\ Goto(w, IF ok THEN "registered" ELSE "compensating")
    /\ UNCHANGED <<row, final, disk, installed, refused, histories>>

\* The rows after _ModelDownloadPublication.complete for job j: the waiting
\* siblings are cancelled and the leased ones asked to stop.
Completed(j, early) ==
    [i \in Jobs |->
       CASE i = j -> [Released(row[i], "completed") EXCEPT !.source = 0]
         [] i \in Siblings(j) /\ row[i].status \in Waiting -> Superseded(row[i])
         [] i \in Siblings(j) /\ row[i].status \in Running ->
              [row[i] EXCEPT !.cancel = @ \/ Sees(i, early), !.later = @ \cup {j}]
         [] OTHER -> row[i]]

\* Mutant: cleanup also happens when the outcome of the commit is unknown.
CompleteCleansUp(w, early, reply) ==
    LET j == Job(w) IN
    /\ worker[w].pc = "registered"
    /\ IF reply \in {"ok", "lost"}
       THEN /\ row' = Completed(j, early)
            /\ installed' = [installed EXCEPT ![Target[j]] = Src(w)]
       ELSE UNCHANGED <<row, installed>>
    /\ Goto(w, "cleaning")
    /\ UNCHANGED <<final, registry, disk, refused, histories>>

\* publication.complete and the commit of the guard's transaction.  "raised":
\* complete fails, nothing is committed; "failed", "lost": the commit raises.
Complete(w, early, reply) ==
    LET j == Job(w) IN
    /\ worker[w].pc = "registered"
    /\ IF reply \in {"ok", "lost"}
       THEN /\ row' = Completed(j, early)
            /\ installed' = [installed EXCEPT ![Target[j]] = Src(w)]
            /\ refused' = refused \cup {row[i].token: i \in
                 {i \in Siblings(j): row[i].status \in Running /\ Sees(i, early)}}
       ELSE UNCHANGED <<row, installed, refused>>
    /\ Goto(w, CASE reply = "ok" -> "cleaning"
                 [] reply = "raised" /\ ~Recovery(w) -> "compensating"
                 [] OTHER -> "deferring")
    /\ UNCHANGED <<final, registry, disk, histories>>

\* cleanup_committed: the marker is removed from whatever is at the path.
CleanupCommitted(w) ==
    /\ worker[w].pc = "cleaning"
    /\ disk' = [StageRemoved(Src(w)) EXCEPT ![Src(w)].backup = Nothing]
    /\ final' = [final EXCEPT ![Target[Job(w)]].marker = 0]
    /\ End(w)
    /\ UNCHANGED <<row, registry, installed, refused, histories>>

-----------------------------------------------------------------------------
(* Compensation, in the guard, of an own failure or of an interrupted       *)
(* publication; and the recovery of the latter.                             *)

\* The registry half of _compensate_publication.
CompensateRegistry(w, ok) ==
    LET m == Model[Target[Job(w)]]
        mine == registry[m] = Src(w) IN
    /\ worker[w].pc = "compensating"
    /\ registry' = IF ok /\ mine THEN [registry EXCEPT ![m] = disk[Src(w)].prior]
                                 ELSE registry
    /\ worker' = [worker EXCEPT ![w].safe = mine \/ registry[m] = disk[Src(w)].prior,
                                ![w].pc = CASE ok -> "rollback"
                                            [] ~ok /\ Recovery(w) -> "deferring"
                                            [] OTHER -> "erring"]
    /\ UNCHANGED <<row, final, disk, installed, refused, histories>>

\* rollback_filesystem may touch the final path.
Restorable(t, k) ==
    IF final[t].marker = k
    THEN disk[k].had => disk[k].backup # Nothing
    ELSE disk[k].backup = Nothing \/ final[t] = Nothing

\* rollback_filesystem, without the removal of the staging root.
Restore(t, k) ==
    IF final[t].marker = k \/ disk[k].backup # Nothing
    THEN /\ final' = [final EXCEPT ![t] = disk[k].backup]
         /\ disk' = [disk EXCEPT ![k].backup = Nothing]
    ELSE UNCHANGED <<final, disk>>

RollbackFilesystem(w, ok) ==
    LET t == Target[Job(w)]
        k == Src(w) IN
    /\ worker[w].pc = "rollback"
    /\ IF ok /\ Restorable(t, k)
       THEN Restore(t, k) /\ Goto(w, "removing")
       ELSE Goto(w, "deferring") /\ UNCHANGED <<final, disk>>
    /\ UNCHANGED <<row, registry, installed, refused, histories>>

RemoveStageRoot(w, ok) ==
    /\ worker[w].pc = "removing"
    /\ disk' = IF ok THEN StageRemoved(Src(w)) ELSE disk
    /\ Goto(w, IF ok /\ worker[w].safe THEN "aborting" ELSE "deferring")
    /\ UNCHANGED <<row, final, registry, installed, refused, histories>>

\* The thread of an execution that was cancelled while it waited for
\* rollback_filesystem: it still restores the previous install ...
StrayRollback(w, ok) ==
    LET t == Target[Job(w)]
        k == Src(w) IN
    /\ worker[w].thread = "rollback"
    /\ IF ok /\ Restorable(t, k)
       THEN Restore(t, k) /\ worker' = [worker EXCEPT ![w].thread = "removing"]
       ELSE ThreadEnds(w, "deferring") /\ UNCHANGED <<final, disk>>
    /\ NoteStray(w)
    /\ UNCHANGED <<row, registry, installed, refused, doubled>>

\* ... and removes the staging root.
StrayRemoval(w, ok) ==
    /\ worker[w].thread = "removing"
    /\ disk' = IF ok THEN StageRemoved(Src(w)) ELSE disk
    /\ ThreadEnds(w, "deferring")
    /\ UNCHANGED <<row, final, registry, installed, refused, histories>>

\* abort_for_retry and the commit of the guard's transaction.
AbortForRetry(w, reply) ==
    /\ worker[w].pc = "aborting"
    /\ row' = IF reply = "failed" THEN row
              ELSE [row EXCEPT ![Job(w)] = FailOrRetry(@)]
    /\ CASE reply # "ok" -> Goto(w, IF Recovery(w) THEN "deferring" ELSE "erring")
         [] reply = "ok" /\ worker[w].cancelled -> Goto(w, "cancelling")
         [] OTHER -> End(w)
    /\ UNCHANGED <<refused, histories>> /\ NoDiskChange

\* release_publication_for_recovery and defer_publication_recovery_retry:
\* only the authority to execute is given up, the receipt stays known.
Defer(w, reply) ==
    LET j == Job(w) IN
    /\ worker[w].pc = "deferring"
    /\ row' = IF reply # "failed" /\ row[j].status = "promoting"
                 /\ row[j].token = Tok(w)
              THEN [row EXCEPT ![j] = [Released(@, "promoting") EXCEPT
                                         !.source = Src(w)]]
              ELSE row
    /\ End(w)
    /\ UNCHANGED <<refused, histories>> /\ NoDiskChange

\* recover_interrupted_publication: finish what is complete, undo the rest.
Recover(w, reply) ==
    LET t == Target[Job(w)]
        k == Src(w) IN
    /\ worker[w].pc = "recovering"
    /\ reply \in {"ok", "failed"}
    /\ IF ~disk[k].receipt \/ reply = "failed" THEN Goto(w, "deferring")
       ELSE /\ ~Locked(t)
            /\ IF ~MayPublish(w) THEN End(w)
               ELSE Goto(w, IF final[t].marker = k /\ registry[Model[t]] = k
                            THEN "registered" ELSE "compensating")
    /\ UNCHANGED <<row, refused, histories>> /\ NoDiskChange

-----------------------------------------------------------------------------
(* Stops. *)

\* The process dies: an open transaction is rolled back.
Crash(w) ==
    /\ worker[w] # Idle
    /\ worker' = [worker EXCEPT ![w] = Idle]
    /\ UNCHANGED <<row, refused, histories>> /\ NoDiskChange

\* The shutdown's grace period ends: stop cancels the task, once, where it
\* waits.  Inside the guard's inner try that is an error to compensate;
\* elsewhere in the guard it leaves it.  A thread it waits for cannot be
\* stopped: those of promote and of rollback_filesystem go on (that of
\* create_journal may have written the receipt, that of cleanup_committed is
\* the execution's last step).
Cancel(w, landed) ==
    /\ worker[w].pc \notin {"idle", "cancelling", "cleaning"}
    /\ ~worker[w].cancelled
    /\ landed => worker[w].pc = "guarded"
    /\ disk' = IF landed THEN Journaled(w) ELSE disk
    /\ worker' = [worker EXCEPT ![w].cancelled = TRUE,
                    ![w].thread = IF worker[w].pc \in {"rollback", "removing"}
                                  THEN worker[w].pc ELSE @,
                    ![w].pc = IF /\ @ \in {"journaled", "promoted", "registered"}
                                 /\ ~Recovery(w)
                              THEN "compensating" ELSE "cancelling"]
    /\ UNCHANGED <<row, final, registry, installed, refused, histories>>

\* _release_cancelled_claim and release_for_shutdown: a promotion keeps its
\* lease; the attempt that was cut off stays counted.
ReleaseCancelledClaim(w, reply) ==
    LET j == Job(w) IN
    /\ worker[w].pc = "cancelling"
    /\ row' = IF /\ reply # "failed"
                 /\ row[j].status \in Running
                 /\ row[j].token = Tok(w)
              THEN [row EXCEPT ![j] =
                      Released(@, CASE @.cancel -> "cancelled"
                                    [] ~@.cancel /\ @.status = "pause_requested"
                                         -> "paused"
                                    [] OTHER -> "queued")]
              ELSE row
    /\ End(w)
    /\ UNCHANGED <<refused, histories>> /\ NoDiskChange

-----------------------------------------------------------------------------

\* The first token stands for an artifact that may be installed already.
Init ==
    /\ row = [j \in Jobs |-> Absent]
    /\ worker = [w \in Workers |-> Idle]
    /\ \E k \in Token0:
         /\ k = 0 \/ \A i \in Tokens: k <= i
         /\ final = [t \in Targets |-> [content |-> k, marker |-> 0]]
         /\ registry = [m \in Models |-> k]
         /\ installed = [t \in Targets |-> k]
    /\ disk = [k \in Tokens |-> Clean]
    /\ refused = {}
    /\ doubled = {}
    /\ overrun = {}

Request(j) ==
    \/ CreateJob(j)
    \/ \E status \in Waiting, later \in SUBSET Jobs: ImportLegacyJob(j, status, later)
    \/ CancelJob(j)
    \/ PauseJob(j)
    \/ ResumeJob(j)
    \/ CleanupFinishedJob(j)
    \/ LeaseExpires(j)

Claim(w) ==
    \/ ClaimNothing(w)
    \/ \E j \in Jobs, late \in SUBSET Overdue, reply \in Replies:
          ClaimNext(w, j, late, reply)
    \/ \E j \in Jobs, reply \in Replies: ClaimRecovery(w, j, reply)

DiskStep(w) ==
    \/ PromoteBackup(w)
    \/ CleanupCommitted(w)
    \/ \E ok \in BOOLEAN:
         \/ DownloadModel(w, ok)
         \/ CreateJournal(w, ok)
         \/ PromoteRename(w, ok)
         \/ ReplaceRegistryEntry(w, ok)
         \/ CompensateRegistry(w, ok)
         \/ RollbackFilesystem(w, ok)
         \/ RemoveStageRoot(w, ok)
         \/ StrayRollback(w, ok)
         \/ StrayRemoval(w, ok)

RowStep(w) ==
    \/ Heartbeat(w)
    \/ \E early \in SUBSET Overdue, reply \in Replies: LeaseIsValid(w, early, reply)
    \/ \E reply \in Replies: EnterGuard(w, reply)
    \/ \E early \in SUBSET Overdue, reply \in Replies \cup {"raised"}:
          Complete(w, early, reply)
    \/ \E reply \in Replies: FailClaim(w, reply)
    \/ \E reply \in Replies: AbortForRetry(w, reply)
    \/ \E reply \in Replies: Defer(w, reply)
    \/ \E reply \in Replies: Recover(w, reply)
    \/ \E reply \in Replies: ReleaseCancelledClaim(w, reply)

WorkerStep(w) ==
    \/ Claim(w)
    \/ DiskStep(w)
    \/ RowStep(w)
    \/ Crash(w)
    \/ \E landed \in BOOLEAN: Cancel(w, landed)

Next ==
    \/ \E j \in Jobs: Request(j)
    \/ \E w \in Workers: WorkerStep(w)

Spec == Init /\ [][Next]_vars

-----------------------------------------------------------------------------
(* Properties. *)

\* The columns, the locals and the directories have their types.
TypeOK ==
    /\ row \in [Jobs -> Row]
    /\ worker \in [Workers -> Worker]
    /\ final \in [Targets -> Dir]
    /\ registry \in [Models -> Token0]
    /\ disk \in [Tokens -> Disk]
    /\ installed \in [Targets -> Token0]
    /\ refused \subseteq Tokens
    /\ doubled \subseteq Targets
    /\ overrun \subseteq Targets

\* "Serialize durable mutations for one canonical installation target":
\* a target has at most one job that is being promoted or downloads under a
\* live lease, also with imported duplicates and a lease that expires between
\* the statements of one claim.  The one way to a second owner: a renewal or a
\* reservation whose transaction began before its lease expired takes effect
\* after claim_next gave the target to another job (doubled).
OneTargetOwner ==
    \A i, j \in Jobs:
        Target[i] = Target[j] /\ Taken(row[i]) /\ Taken(row[j]) =>
            i = j \/ Target[i] \in doubled

\* No thread that outlived its execution has moved the directories of t, and
\* no late transaction has given t a second owner.
Orderly(t) == t \notin doubled \cup overrun

\* No other install path belongs to the model of t: revisions and channels of
\* one model have paths of their own but share its registry entry.
Sole(t) == \A u \in Targets: Model[u] = Model[t] => u = t

NotPromoting(t) == \A j \in Jobs: Target[j] = t => row[j].status # "promoting"

\* Whenever no job of a target is being promoted, the install path and the
\* last completed publication are the same artifact, and so is the registry
\* entry where no other path has written it: whatever crashed, failed, was
\* cancelled or undone on the way left nothing torn.  Excepted are targets
\* with two owners and those where a thread of a cancelled execution has moved
\* a directory after all (FencedUntilReconciled is about these).
InstallIntact ==
    \A t \in Targets: Orderly(t) /\ NotPromoting(t) =>
        /\ final[t].content = installed[t]
        /\ Sole(t) => registry[Model[t]] = installed[t]

\* While a promotion is under way the last completed artifact is still there,
\* at the install path or in the backup of the promotion's receipt; the same
\* two exceptions.
PreviousSurvives ==
    \A j \in Jobs:
        row[j].status = "promoting" /\ Orderly(Target[j]) =>
            LET t == Target[j]
                k == IF row[j].source # 0 THEN row[j].source ELSE row[j].token
            IN installed[t] \in {final[t].content, disk[k].backup.content}

\* "active staging will not be promoted": what was downloaded under a lease
\* during which a cancel or pause was accepted is never installed, whatever
\* threads and late transactions do.
RefusedNotInstalled ==
    /\ \A t \in Targets: final[t].content \notin refused
    /\ \A m \in Models: registry[m] \notin refused

\* "keep the lease fenced and let it expire.  A subsequent worker then claims
\* recovery before any ordinary retry" (_release_cancelled_claim): a target
\* that no job is promoting has nothing left to reconcile, also when the
\* shutdown has cancelled a publication whose thread it cannot stop.
FencedUntilReconciled ==
    \A t \in Targets: NotPromoting(t) => final[t].content = installed[t]

=============================================================================
