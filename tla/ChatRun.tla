------------------------------ MODULE ChatRun ------------------------------
(***************************************************************************)
(* Durable AG-UI chat runs: the rows of public.runtime_chat_runs and their *)
(* event journal, the request that executes a run (_ag_ui_sse around       *)
(* ChatRunCoordinator.stream around the chat runtime's generator), stop    *)
(* requests, and deletion of the conversation.  One conversation of one    *)
(* user is modelled: every statement is scoped to tenant, user and         *)
(* conversation.                                                           *)
(*                                                                         *)
(* A repository method is one transaction and one action.  The generator   *)
(* runs as a task of its own (next_chunk) while the coordinator waits for  *)
(* it, so its transactions interleave with the coordinator's heartbeats.   *)
(* A request's execution_id and lease_token are fresh uuids: the request   *)
(* itself stands for both.                                                 *)
(***************************************************************************)
EXTENDS Naturals, Sequences

CONSTANTS Runs,        \* transport_run_id values
          Requests,    \* POST /chat/ag-ui requests; each is sent once
          None,        \* SQL NULL
          MaxEvents,   \* _MAX_EVENTS_PER_RUN (2048 in the code)
          Faults       \* which of "lost", "failed", "crash" may happen

ASSUME ChatRunAssumption ==
    /\ None \notin Runs \cup Requests
    /\ MaxEvents \in Nat
    /\ Faults \subseteq {"lost", "failed", "crash"}

VARIABLES conv,        \* the conversation's row: "present" or "deleted"
          run,         \* run[x]: the row of run x
          journal,     \* journal[x]: its runtime_chat_run_events, by event_seq
          saved,       \* requests whose two messages are in the transcript
          memory,      \* requests whose answer is in durable memory
          req,         \* req[q]: where request q is
          wire,        \* wire[q]: the event types sent to q's client
          acked        \* requests whose stop was answered 202 "cancelling"

vars == <<conv, run, journal, saved, memory, req, wire, acked>>

Active == {"running", "cancelling"}
Terminal == {"completed", "failed", "cancelled", "orphaned"}

Row == [status: {"absent"} \cup Active \cup Terminal,
        exec: Requests \cup {None},      \* execution_id
        token: Requests \cup {None},     \* lease_token
        lease: {"null", "live", "expired"},
        stop: {"no", "yes"}]             \* cancel_requested_at IS NOT NULL

\* "text" stands for every event of a running model, "end" for TEXT_MESSAGE_END
\* and the receipts that follow it.
Events == {"started", "text", "end", "finished", "error"}
TerminalEvents == {"finished", "error"}

Chunks == {"none", "text", "complete", "unsaved", "gated", "error", "end"}

\* Where the coordinator can be while next_chunk runs beside it.
Listening == {"waiting", "askCancel", "askCompleted"}

Request == [pc: Listening \cup
                {"idle", "admitting", "starting", "unstarted", "projecting",
                 "checkStop", "finishing", "recheck", "closing", "settling",
                 "delivering", "reporting", "ended"},
            run: Runs \cup {None},
            chunk: Chunks,
            up: {"off", "generating", "ensured", "saved", "unsaved", "closed"},
            exit: {"none", "stop", "failed", "gone"},
            msg: {"closed", "open"}]     \* AGUIEventProjection._message_started

Replies == {"ok"} \cup (Faults \cap {"lost", "failed"})

-----------------------------------------------------------------------------
(* The repository's conditions. *)

AbsentRow == [status |-> "absent", exec |-> None, token |-> None,
              lease |-> "null", stop |-> "no"]

\* The row request q executes, if it is still there.
Mine(q) == run[req[q].run].exec = q

\* The lease condition that renew, finish, cancel_requested, the transcript
\* commit and the journal share.
Leased(q) ==
    LET r == run[req[q].run] IN
    r.exec = q /\ r.token = q /\ r.lease = "live"

\* Mutant: a heartbeat does not look at the stop request.
RenewableIgnoringStop(q) == Leased(q)

\* The WHERE clause of renew, and of the transcript commit.
Renewable(q) ==
    /\ Leased(q)
    /\ run[req[q].run].status = "running"
    /\ run[req[q].run].stop = "no"

\* cancel_requested.
CancelSeen(q) ==
    /\ Leased(q)
    /\ run[req[q].run].status = "cancelling"
    /\ run[req[q].run].stop = "yes"

\* The WHERE clause of finish.
Finishable(q, status) ==
    /\ Leased(q)
    /\ \/ status = "cancelled" /\ run[req[q].run].status \in Active
       \/ status = "failed" /\ run[req[q].run].status = "running"
                            /\ run[req[q].run].stop = "no"

\* committed_turn.
CommittedTurn(q) ==
    /\ Mine(q)
    /\ run[req[q].run].status = "completed"
    /\ conv = "present"
    /\ q \in saved

Settled(r, status) ==
    [r EXCEPT !.status = status, !.token = None, !.lease = "null"]

\* The UPDATE of finish, when its transaction commits.
Finish(q, status, reply) ==
    run' = IF Finishable(q, status) /\ reply # "failed"
           THEN [run EXCEPT ![req[q].run] = Settled(@, status)]
           ELSE run

\* Mutant: the journal takes any event of a run that has not failed.
AllowedAnyTime(q, e) == Mine(q) /\ run[req[q].run].status # "failed"

\* append_projected_event: what the run's state allows.
Allowed(q, e) ==
    LET r == run[req[q].run] IN
    /\ Mine(q)
    /\ CASE e = "finished" -> r.status = "completed"
         [] e = "error" -> r.status \in {"failed", "cancelled", "orphaned"}
         [] e = "end" /\ r.status = "completed" -> TRUE
         [] OTHER -> Renewable(q)

\* ... the bound on the journal, and "a retry cannot duplicate" its terminal.
Appendable(q, e) ==
    LET j == journal[req[q].run] IN
    /\ Allowed(q, e)
    /\ Len(j) < MaxEvents
    /\ e \in TerminalEvents => \A i \in 1..Len(j): j[i] \notin TerminalEvents

Record(q, e, reply) ==
    journal' = IF Appendable(q, e) /\ reply # "failed"
               THEN [journal EXCEPT ![req[q].run] = Append(@, e)]
               ELSE journal

\* frame(): the append returned a sequence number.
Recorded(q, e, reply) == Appendable(q, e) /\ reply = "ok"

Sent(q, e) == wire' = [wire EXCEPT ![q] = @ \cup {e}]

-----------------------------------------------------------------------------
(* Admission. *)

IdleRequest == [pc |-> "idle", run |-> None, chunk |-> "none", up |-> "off",
                exit |-> "none", msg |-> "closed"]

Goto(q, pc) == req' = [req EXCEPT ![q].pc = pc]

\* The request is over: its finally blocks close the generator.
Ended(q) == [IdleRequest EXCEPT !.pc = "ended", !.run = req[q].run, !.up = "closed"]

End(q) == req' = [req EXCEPT ![q] = Ended(q)]

\* ChatRunCoordinator.admit verifies that the conversation is there ...
Send(q, x) ==
    /\ req[q].pc = "idle"
    /\ conv = "present"
    /\ req' = [req EXCEPT ![q] = [@ EXCEPT !.pc = "admitting", !.run = x]]
    /\ UNCHANGED <<conv, run, journal, saved, memory, wire, acked>>

\* Mutant: a lease that is NULL counts as expired.
SweptNotCompleted(r) ==
    IF r.status \notin {"absent", "completed"} /\ r.lease # "live"
    THEN Settled(r, "orphaned") ELSE r

\* The first UPDATE of admit.
Swept(r) == IF r.status \in Active /\ r.lease = "expired"
            THEN Settled(r, "orphaned") ELSE r

\* ... and the repository orphans the user's expired runs and inserts the new
\* one, unless its transport id was admitted before.
Admit(q, reply) ==
    LET x == req[q].run
        swept == [y \in Runs |-> Swept(run[y])]
        fresh == run[x].status = "absent"
        row == [status |-> "running", exec |-> q, token |-> q,
                lease |-> "live", stop |-> "no"]
    IN
    /\ req[q].pc = "admitting"
    /\ run' = IF reply = "failed" THEN run
              ELSE IF fresh THEN [swept EXCEPT ![x] = row] ELSE swept
    /\ IF fresh /\ reply = "ok" THEN Goto(q, "starting") ELSE End(q)
    /\ UNCHANGED <<conv, journal, saved, memory, wire, acked>>

-----------------------------------------------------------------------------
(* _ag_ui_sse: begin. *)

Begin(q, reply) ==
    /\ req[q].pc = "starting"
    /\ Record(q, "started", reply)
    /\ IF Recorded(q, "started", reply)
       THEN /\ req' = [req EXCEPT ![q] = [@ EXCEPT !.pc = "waiting",
                                                   !.up = "generating"]]
            /\ Sent(q, "started")
       ELSE Goto(q, "unstarted") /\ UNCHANGED wire
    /\ UNCHANGED <<conv, run, saved, memory, acked>>

\* fail_unstarted_event_journal, whose own failure is suppressed.
FailUnstarted(q, reply) ==
    /\ req[q].pc = "unstarted"
    /\ Finish(q, "failed", reply)
    /\ Goto(q, "reporting")
    /\ UNCHANGED <<conv, journal, saved, memory, wire, acked>>

-----------------------------------------------------------------------------
(* The chat runtime's generator.  While the coordinator closes it, the      *)
(* transaction it has in flight may still land; nothing follows it.         *)

Generates(q) ==
    /\ req[q].pc \in Listening \cup {"closing"}
    /\ req[q].chunk = "none"

Advance(q, up) ==
    req' = [req EXCEPT ![q].up = IF @ = "closed" \/ req[q].pc = "closing"
                                 THEN "closed" ELSE up]

Yields(q, chunk) ==
    /\ Generates(q)
    /\ req[q].pc # "closing"
    /\ chunk # "none"
    /\ CASE chunk = "complete" -> req[q].up = "saved"
         [] chunk = "unsaved" -> req[q].up \in {"generating", "unsaved"}
         [] OTHER -> req[q].up = "generating"
    /\ req' = [req EXCEPT ![q].chunk = chunk]
    /\ UNCHANGED <<conv, run, journal, saved, memory, wire, acked>>

\* persist_completed_turn first ensures the conversation: one that was deleted
\* meanwhile is created again.
Ensure(q, reply) ==
    /\ Generates(q)
    /\ req[q].up = "generating"
    /\ conv' = IF reply = "failed" THEN conv ELSE "present"
    /\ Advance(q, IF reply = "ok" THEN "ensured" ELSE "unsaved")
    /\ UNCHANGED <<run, journal, saved, memory, wire, acked>>

\* add_completed_turn: both messages and the run's completion, or nothing.
Commit(q, reply) ==
    LET committed == Renewable(q) /\ conv = "present" /\ reply # "failed" IN
    /\ Generates(q)
    /\ req[q].up = "ensured"
    /\ IF committed
       THEN /\ run' = [run EXCEPT ![req[q].run] = Settled(@, "completed")]
            /\ saved' = saved \cup {q}
       ELSE UNCHANGED <<run, saved>>
    /\ Advance(q, IF committed /\ reply = "ok" THEN "saved" ELSE "unsaved")
    /\ UNCHANGED <<conv, journal, memory, wire, acked>>

\* Mutant: the answer is remembered before the transcript is committed.
RememberFirst(q) ==
    /\ Generates(q)
    /\ req[q].up \in {"generating", "ensured", "saved"}
    /\ memory' = memory \cup {q}
    /\ UNCHANGED <<conv, run, journal, saved, req, wire, acked>>

\* persist_authorized_memory, after a transcript that is known committed.
Remember(q) ==
    /\ Generates(q)
    /\ req[q].up = "saved"
    /\ q \notin memory
    /\ memory' = memory \cup {q}
    /\ Advance(q, "saved")
    /\ UNCHANGED <<conv, run, journal, saved, wire, acked>>

-----------------------------------------------------------------------------
(* ChatRunCoordinator.stream. *)

Leave(q, exit) ==
    req' = [req EXCEPT ![q] = [@ EXCEPT !.pc = "closing", !.exit = exit]]

\* A call that raises, or whose reply is lost, ends in the handler of every
\* other exception.
Branch(q, reply, holds, yes, no) ==
    \/ reply # "ok" /\ Leave(q, "failed")
    \/ reply = "ok" /\ holds /\ yes
    \/ reply = "ok" /\ ~holds /\ no

\* require_active_lease: renew ...
Renew(q, reply) ==
    /\ req[q].pc = "waiting"
    /\ req[q].chunk # "end"
    /\ Branch(q, reply, Renewable(q), UNCHANGED req, Goto(q, "askCancel"))
    /\ UNCHANGED <<conv, run, journal, saved, memory, wire, acked>>

\* ... else a stop request ...
AskCancel(q, reply) ==
    /\ req[q].pc = "askCancel"
    /\ Branch(q, reply, CancelSeen(q), Leave(q, "stop"), Goto(q, "askCompleted"))
    /\ UNCHANGED <<conv, run, journal, saved, memory, wire, acked>>

\* ... else a transcript that has just committed, else the lease is lost.
AskCompleted(q, reply) ==
    /\ req[q].pc = "askCompleted"
    /\ Branch(q, reply, Mine(q) /\ run[req[q].run].status = "completed",
              Goto(q, "waiting"), Leave(q, "failed"))
    /\ UNCHANGED <<conv, run, journal, saved, memory, wire, acked>>

\* The generator raises.
UpstreamRaises(q) ==
    /\ req[q].pc = "waiting"
    /\ req[q].chunk = "none"
    /\ Leave(q, "failed")
    /\ UNCHANGED <<conv, run, journal, saved, memory, wire, acked>>

Take(q) ==
    /\ req[q].pc = "waiting"
    /\ req[q].chunk # "none"
    /\ Goto(q, CASE req[q].chunk = "text" -> "projecting"
                 [] req[q].chunk = "end" -> "finishing"
                 [] OTHER -> "checkStop")
    /\ UNCHANGED <<conv, run, journal, saved, memory, wire, acked>>

\* A chunk is yielded to _ag_ui_sse, which journals its events before it sends
\* them; one with content opens the message, a status or a tool's does not.  An
\* append that fails is reported, then the stream is closed.
Project(q, reply, content) ==
    LET msg == IF content THEN "open" ELSE req[q].msg IN
    /\ req[q].pc = "projecting"
    /\ Record(q, "text", reply)
    /\ IF Recorded(q, "text", reply)
       THEN /\ req' = [req EXCEPT ![q] = [@ EXCEPT !.pc = "waiting",
                                            !.chunk = "none", !.msg = msg]]
            /\ Sent(q, "text")
       ELSE /\ req' = [req EXCEPT ![q] = [@ EXCEPT !.pc = "reporting",
                                            !.exit = "gone", !.msg = msg]]
            /\ UNCHANGED wire
    /\ UNCHANGED <<conv, run, saved, memory, acked>>

\* "A stopped task can yield one last chunk while stop wins the race."
CheckStop(q, reply) ==
    /\ req[q].pc = "checkStop"
    /\ Branch(q, reply, CancelSeen(q), Leave(q, "stop"), Goto(q, "finishing"))
    /\ UNCHANGED <<conv, run, journal, saved, memory, wire, acked>>

\* COMPLETE of a persisted turn: the commit is read back before it is forwarded.
Verify(q, reply) ==
    /\ req[q].pc = "finishing"
    /\ req[q].chunk = "complete"
    /\ Branch(q, reply, CommittedTurn(q), Goto(q, "delivering"), Goto(q, "recheck"))
    /\ UNCHANGED <<conv, run, journal, saved, memory, wire, acked>>

\* Every other end of the generator: the run is failed first.
FailRun(q, reply) ==
    /\ req[q].pc = "finishing"
    /\ req[q].chunk # "complete"
    /\ Finish(q, "failed", reply)
    /\ Branch(q, reply, Finishable(q, "failed"),
              Goto(q, IF req[q].chunk = "end" THEN "reporting" ELSE "delivering"),
              Goto(q, "recheck"))
    /\ UNCHANGED <<conv, journal, saved, memory, wire, acked>>

\* A refused end is a stop that won, or the lease is lost.
Recheck(q, reply) ==
    /\ req[q].pc = "recheck"
    /\ Branch(q, reply, CancelSeen(q), Leave(q, "stop"), Leave(q, "failed"))
    /\ UNCHANGED <<conv, run, journal, saved, memory, wire, acked>>

\* Mutant: the terminal status is written while the generator still runs.
CloseLater(q, closed) ==
    /\ req[q].pc = "closing"
    /\ Goto(q, "settling")
    /\ UNCHANGED <<conv, run, journal, saved, memory, wire, acked>>

\* close_upstream(strict): without it the run is not confirmed cancelled.
Close(q, closed) ==
    /\ req[q].pc = "closing"
    /\ \/ ~closed /\ req[q].exit = "gone" /\ End(q)
       \/ /\ closed \/ req[q].exit # "gone"
          /\ req' = [req EXCEPT ![q] = [@ EXCEPT !.up = "closed", !.chunk = "none",
                       !.pc = IF closed THEN "settling" ELSE "reporting"]]
    /\ UNCHANGED <<conv, run, journal, saved, memory, wire, acked>>

Settle(q, reply) ==
    /\ req[q].pc = "settling"
    /\ Finish(q, IF req[q].exit = "failed" THEN "failed" ELSE "cancelled", reply)
    /\ IF req[q].exit = "gone" THEN End(q) ELSE Goto(q, "reporting")
    /\ UNCHANGED <<conv, journal, saved, memory, wire, acked>>

-----------------------------------------------------------------------------
(* _ag_ui_sse: the end of the stream. *)

\* The terminal chunk's events, one append each; the first that fails is
\* reported instead.
Deliver(q, reply) ==
    LET e == IF req[q].msg = "open" THEN "end"
             ELSE IF req[q].chunk = "complete" THEN "finished" ELSE "error"
    IN
    /\ req[q].pc = "delivering"
    /\ Record(q, e, reply)
    /\ IF Recorded(q, e, reply)
       THEN /\ Sent(q, e)
            /\ IF e = "end" THEN req' = [req EXCEPT ![q].msg = "closed"]
                            ELSE End(q)
       ELSE /\ req' = [req EXCEPT ![q] = [@ EXCEPT !.msg = "closed",
                                    !.chunk = "none", !.pc = "reporting"]]
            /\ UNCHANGED wire
    /\ UNCHANGED <<conv, run, saved, memory, acked>>

\* error_frames: an event whose append fails is sent without a sequence number.
\* A stream that is still open is closed after the report.
Report(q, reply) ==
    LET e == IF req[q].msg = "open" THEN "end" ELSE "error" IN
    /\ req[q].pc = "reporting"
    /\ Record(q, e, reply)
    /\ Sent(q, e)
    /\ CASE e = "end" -> req' = [req EXCEPT ![q].msg = "closed"]
         [] e = "error" /\ req[q].exit = "gone" -> Goto(q, "closing")
         [] OTHER -> End(q)
    /\ UNCHANGED <<conv, run, saved, memory, acked>>

\* The client goes away: before the stream starts and after its terminal chunk
\* nothing is recorded, in between the run is to be cancelled.
Disconnect(q) ==
    /\ \/ /\ \/ req[q].pc \in {"starting", "unstarted", "delivering"}
             \/ req[q].pc = "reporting" /\ req[q].exit # "gone"
          /\ End(q)
       \/ /\ \/ req[q].pc \in Listening \cup {"projecting", "checkStop",
                                              "finishing", "recheck"}
             \/ req[q].pc = "reporting" /\ req[q].exit = "gone"
          /\ Leave(q, "gone")
    /\ UNCHANGED <<conv, run, journal, saved, memory, wire, acked>>

\* The process dies, and the generator with it.
Crash(q) ==
    /\ "crash" \in Faults
    /\ req[q].pc \notin {"idle", "ended"}
    /\ End(q)
    /\ UNCHANGED <<conv, run, journal, saved, memory, wire, acked>>

-----------------------------------------------------------------------------
(* The other actors. *)

\* The UPDATE of request_cancel: an expired worker cannot be stopped any more.
Stopped(r) ==
    IF r.lease = "live"
    THEN [r EXCEPT !.status = "cancelling", !.stop = "yes"]
    ELSE [r EXCEPT !.status = "orphaned", !.stop = "no", !.token = None]

RequestCancel(x, reply) ==
    /\ conv = "present"
    /\ run[x].status \in Active
    /\ reply # "failed"
    /\ run' = [run EXCEPT ![x] = Stopped(@)]
    /\ acked' = IF reply = "ok" /\ run[x].lease = "live"
                THEN acked \cup {run[x].exec} ELSE acked
    /\ UNCHANGED <<conv, journal, saved, memory, req, wire>>

\* lease_expires_at passes.
LeaseExpires(x) ==
    /\ run[x].status \in Active
    /\ run[x].lease = "live"
    /\ run' = [run EXCEPT ![x].lease = "expired"]
    /\ UNCHANGED <<conv, journal, saved, memory, req, wire, acked>>

\* delete_conversation: the runs, by cascade their journals and messages.
DeleteConversation ==
    /\ conv = "present"
    /\ conv' = "deleted"
    /\ run' = [x \in Runs |-> AbsentRow]
    /\ journal' = [x \in Runs |-> <<>>]
    /\ saved' = {}
    /\ UNCHANGED <<memory, req, wire, acked>>

-----------------------------------------------------------------------------

Init ==
    /\ conv = "present"
    /\ run = [x \in Runs |-> AbsentRow]
    /\ journal = [x \in Runs |-> <<>>]
    /\ saved = {}
    /\ memory = {}
    /\ req = [q \in Requests |-> IdleRequest]
    /\ wire = [q \in Requests |-> {}]
    /\ acked = {}

GeneratorStep(q) ==
    \/ \E chunk \in Chunks: Yields(q, chunk)
    \/ \E reply \in Replies: Ensure(q, reply) \/ Commit(q, reply)
    \/ Remember(q)
    \/ UpstreamRaises(q)

Heartbeat(q) == \E reply \in Replies: Renew(q, reply)

CoordinatorStep(q) ==
    \/ Take(q)
    \/ \E closed \in {TRUE, "failed" \notin Faults}: Close(q, closed)
    \/ \E reply \in Replies:
         \/ Admit(q, reply)
         \/ Begin(q, reply)
         \/ FailUnstarted(q, reply)
         \/ AskCancel(q, reply)
         \/ AskCompleted(q, reply)
         \/ \E content \in BOOLEAN: Project(q, reply, content)
         \/ CheckStop(q, reply)
         \/ Verify(q, reply)
         \/ FailRun(q, reply)
         \/ Recheck(q, reply)
         \/ Settle(q, reply)
         \/ Deliver(q, reply)
         \/ Report(q, reply)

Next ==
    \/ \E q \in Requests:
         \/ \E x \in Runs: Send(q, x)
         \/ GeneratorStep(q)
         \/ Heartbeat(q)
         \/ CoordinatorStep(q)
         \/ Disconnect(q)
         \/ Crash(q)
    \/ \E x \in Runs:
         \/ \E reply \in Replies: RequestCancel(x, reply)
         \/ LeaseExpires(x)
    \/ DeleteConversation

Spec == Init /\ [][Next]_vars

\* The request that executes run x will not renew its lease any more.
Unattended(x) ==
    run[x].exec \in Requests =>
        req[run[x].exec].pc \notin Listening \cup {"projecting", "checkStop"}

(* A request goes on from one call to the next; its heartbeat comes round   *)
(* however fast or slow the model streams (both are timed), and where it is *)
(* not granted it has its effect (a granted one is a stuttering step); a    *)
(* lease nobody renews expires.  Nothing is assumed of the model, the       *)
(* client or the user.                                                      *)
Fairness ==
    /\ \A q \in Requests: /\ WF_vars(CoordinatorStep(q))
                          /\ SF_vars(Heartbeat(q) /\ ~Renewable(q))
    /\ \A x \in Runs: WF_vars(LeaseExpires(x) /\ Unattended(x))

FairSpec == Spec /\ Fairness

-----------------------------------------------------------------------------
(* Properties. *)

\* The columns, the journal and the requests' locals have their types.
TypeOK ==
    /\ conv \in {"present", "deleted"}
    /\ run \in [Runs -> Row]
    /\ \A x \in Runs: journal[x] \in Seq(Events) /\ Len(journal[x]) <= MaxEvents
    /\ saved \subseteq Requests
    /\ memory \subseteq Requests
    /\ req \in [Requests -> Request]
    /\ wire \in [Requests -> SUBSET Events]
    /\ acked \subseteq Requests

\* "Terminal statuses are immutable": a run ends once, however many of its
\* worker, its stop requests and other requests' sweeps try to end it; only
\* deletion of the conversation removes it.
TerminalOnce ==
    [][\A x \in Runs: run[x].status \in Terminal =>
          run'[x] = run[x] \/ run'[x] = AbsentRow]_vars

\* "A concurrent stop must win BEFORE this commit": a stop that was answered
\* "cancelling" is never followed by a saved answer, a remembered answer or
\* RUN_FINISHED on the wire.
StopWins ==
    \A q \in acked: q \notin saved \cup memory /\ "finished" \notin wire[q]

\* "A lost lease or a failed insert/terminal update cannot produce a success":
\* what a client was told finished, and what was remembered, is a completed run
\* with both messages in the transcript, as long as the run is on record.
SuccessIsCommitted ==
    \A q \in Requests: req[q].run \in Runs /\ Mine(q) =>
        /\ q \in memory \/ "finished" \in wire[q] =>
              run[req[q].run].status = "completed"
        /\ run[req[q].run].status = "completed" <=> q \in saved

\* read_projected_events' "chat_run_journal_terminal_state_mismatch" and
\* completed_agent_activity's "chat_activity_post_terminal_event" cannot
\* happen: the journal's one terminal event agrees with the run's status, and
\* nothing of the answer follows it.
JournalAgrees ==
    \A x \in Runs: \A i \in 1..Len(journal[x]):
        /\ journal[x][i] = "finished" => run[x].status = "completed"
        /\ journal[x][i] = "error" =>
              run[x].status \in {"failed", "cancelled", "orphaned"}
        /\ journal[x][i] \in TerminalEvents => i = Len(journal[x])

\* "Stop the actual model generator before confirming its terminal
\* cancellation": of a cancelled run the generator is closed.
CancelledIsStopped ==
    \A x \in Runs: run[x].status = "cancelled" => req[run[x].exec].up = "closed"

\* A stop request is not left pending: the run ends, or its lease expires and
\* read_status reports it interrupted, even if the model never yields again.
StopResolves ==
    \A x \in Runs: run[x].status = "cancelling" ~>
        run[x].status # "cancelling" \/ run[x].lease = "expired"

\* delete_conversation: "Never leave an audit/replay payload behind after
\* transcript erasure."
ErasureLeavesNoRun ==
    conv = "deleted" => \A x \in Runs: run[x].status = "absent"

=============================================================================
