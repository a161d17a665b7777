------------------------------ MODULE Channel ------------------------------
(***************************************************************************)
(* Communication channels: verified inbound events in channel_inbox, the   *)
(* host's inbox worker that claims one, runs a chat turn for it and stages *)
(* the reply in channel_outbox, and the one-shot delivery of that reply    *)
(* through the provider's adapter.  One connection of one tenant is        *)
(* modelled; an operator may revoke and activate it at any time.           *)
(*                                                                         *)
(* A repository method is one transaction and one action; its reply may be *)
(* lost after the commit.  A claim's lease is "live" or "expired".  A reply*)
(* has one delivery_id, derived from the event's inbox_id, so outbox rows  *)
(* are indexed by the event.  The inbox's attempt_count is left out:       *)
(* nothing reads it.                                                       *)
(***************************************************************************)
EXTENDS Naturals, FiniteSets

CONSTANTS Events,        \* native event ids
          Hosts,         \* processes that run a channel host
          Operator,      \* the process slot of recover_outbox
          NoEvent,       \* "no event"
          Tokens,        \* uuid4 values; one that nothing refers to is reused
          MaxScheduled,  \* max_scheduled
          MaxInflight,   \* max_inflight
          MaxRevision    \* bound: revisions of the connection

ASSUME ChannelAssumption ==
    /\ Operator \notin Events
    /\ NoEvent \notin Events
    /\ Tokens \subseteq Nat \ {0}
    /\ MaxInflight \in Nat \ {0}
    /\ MaxScheduled \in Nat \ {0}
    /\ MaxRevision \in Nat \ {0}

VARIABLES conn,       \* the channel_connections row
          userActive, \* auth_users: is_active and is_verified
          inbox,      \* inbox[e]: the channel_inbox row of event e
          outbox,     \* outbox[e]: the channel_outbox row of e's reply
          up,         \* the hosts that run
          proc,       \* proc[p]: the coroutine p of a host
          received,   \* history: how often the provider took e's reply
          overtaken   \* history: events revoked before their reply was sent

vars == <<conn, userActive, inbox, outbox, up, proc, received, overtaken>>

Leases == {"null", "live", "expired"}
Replies == {"ok", "lost", "failed"}
Verdicts == {"allowed", "denied", "error"}
Token0 == Tokens \cup {0}   \* 0 is SQL NULL

Connection == [enabled: BOOLEAN, revision: 1..MaxRevision]

Inbox == [status: {"absent", "pending", "processing", "completed", "failed"},
          token: Token0, lease: Leases,
          revision: 0..MaxRevision]   \* connection_revision

\* "sent" also stands for delivered and read, which need more evidence.
Outbox == [status: {"absent", "accepted", "sent", "failed", "unknown"},
           token: Token0, lease: Leases, attempts: 0..1]

\* Task <<h, e>> is the worker task of event e in host h (submit admits one at
\* a time), <<h, Operator>> is a call of recover_outbox.
Procs == Hosts \X (Events \cup {Operator})
Running(p) == p[1]

ExecutionPCs == {"claimed", "chatting", "committing", "failing"}
DispatchPCs == {"preflight", "reserving", "rechecking", "calling", "finalizing"}
\* receipt is the outcome to finalize; todo the deliveries recover_outbox
\* listed and has not come to yet.
Proc == [pc: {"none", "queued", "next"} \cup ExecutionPCs \cup DispatchPCs,
         event: Events \cup {NoEvent}, token: Token0,
         receipt: {"none", "sent", "failed", "unknown"},
         todo: SUBSET Events]

Gone == [pc |-> "none", event |-> NoEvent, token |-> 0, receipt |-> "none",
         todo |-> {}]

-----------------------------------------------------------------------------
(* The rows. *)

NoInbox == [status |-> "absent", token |-> 0, lease |-> "null", revision |-> 0]
NoOutbox == [status |-> "absent", token |-> 0, lease |-> "null", attempts |-> 0]

Used == {inbox[e].token: e \in Events} \cup {outbox[e].token: e \in Events}
        \cup {proc[p].token: p \in Procs}
Fresh == Tokens \ Used
NewToken == CHOOSE k \in Fresh: TRUE

\* The connection is enabled and has the revision of the event's admission.
\* (Bindings are never revoked by the code, so they are active.)
Connected(e) == conn.enabled /\ conn.revision = inbox[e].revision

\* claim_inbound's and list_recoverable_inbound's condition on the row.
Claimable(e) ==
    \/ inbox[e].status = "pending"
    \/ inbox[e].status = "processing" /\ inbox[e].lease = "expired"

\* The claim that renew, load, complete and fail ask for.
OwnsInbound(p) ==
    LET r == inbox[proc[p].event] IN
    r.status = "processing" /\ r.token = proc[p].token /\ r.lease = "live"

\* The claim that renew_outbound_claim and finalize_outbound_claim ask for.
OwnsOutbound(p) ==
    LET r == outbox[proc[p].event] IN
    r.status = "accepted" /\ r.token = proc[p].token /\ r.lease = "live"

\* Mutant: an expired claim may be taken over, as in the inbox.
UnattemptedOrExpired(r) == r.status = "accepted" /\ r.lease # "live"

\* A delivery that was never claimed.
Unattempted(r) ==
    /\ r.status = "accepted"
    /\ r.token = 0
    /\ r.lease = "null"
    /\ r.attempts = 0

-----------------------------------------------------------------------------
(* Processes. *)

Set(p, state) == proc' = [proc EXCEPT ![p] = state]
Goto(p, pc) == Set(p, [proc[p] EXCEPT !.pc = pc])
End(p) == Set(p, Gone)

Scheduled(h) == {e \in Events: proc[<<h, e>>].pc # "none"}

\* Tasks that hold a slot of the semaphore.
Inflight(h) == {e \in Scheduled(h): proc[<<h, e>>].pc # "queued"}

\* submit, for several receipts: a receipt that is scheduled already, or that
\* finds the budget spent, is left to a later call.
Submitted(h, es) ==
    {new \in SUBSET (es \ Scheduled(h)):
        \/ new = es \ Scheduled(h)
           /\ Cardinality(new) + Cardinality(Scheduled(h)) <= MaxScheduled
        \/ new # es \ Scheduled(h)
           /\ Cardinality(new) + Cardinality(Scheduled(h)) = MaxScheduled}

Submit(h, es) ==
    \E new \in Submitted(h, es):
        proc' = [p \in Procs |->
                   IF p[1] = h /\ p[2] \in new
                   THEN [Gone EXCEPT !.pc = "queued", !.event = p[2]]
                   ELSE proc[p]]

\* The end of one delivery: the worker task ends, recover_outbox goes on with
\* the next one ...
Returned(p) ==
    IF p[2] = Operator
    THEN Set(p, [Gone EXCEPT !.pc = "next",
                             !.todo = proc[p].todo \ {proc[p].event}])
    ELSE End(p)

\* ... unless an exception ends the whole call.
Raised(p) == End(p)

-----------------------------------------------------------------------------
(* Admission. *)

\* Mutant: a duplicate of an event that failed makes it pending again.
AdmitFailedAgain(h, e, reply) ==
    /\ h \in up
    /\ conn.enabled
    /\ reply # "failed"
    /\ inbox[e].status = "absent" \/ Connected(e)
    /\ inbox' = IF inbox[e].status \in {"absent", "failed"}
                THEN [inbox EXCEPT ![e] = [NoInbox EXCEPT !.status = "pending",
                                             !.revision = conn.revision]]
                ELSE inbox
    /\ IF reply = "ok" THEN Submit(h, {e}) ELSE UNCHANGED proc
    /\ UNCHANGED <<conn, userActive, outbox, up, received, overtaken>>

\* admit_verified_inbound: a new row, or the row of a duplicate event that was
\* admitted under the same revision; either receipt is submitted.
Admit(h, e, reply) ==
    /\ h \in up
    /\ conn.enabled
    /\ reply # "failed"
    /\ inbox[e].status = "absent" \/ Connected(e)
    /\ inbox' = IF inbox[e].status = "absent"
                THEN [inbox EXCEPT ![e] = [NoInbox EXCEPT !.status = "pending",
                                             !.revision = conn.revision]]
                ELSE inbox
    /\ IF reply = "ok" THEN Submit(h, {e}) ELSE UNCHANGED proc
    /\ UNCHANGED <<conn, userActive, outbox, up, received, overtaken>>

\* list_recoverable_inbound.
Recoverable(e) == Connected(e) /\ userActive /\ Claimable(e)

RecoverInbox(h) ==
    /\ h \in up
    /\ \E e \in Events: Recoverable(e)
    /\ Submit(h, {e \in Events: Recoverable(e)})
    /\ UNCHANGED <<conn, userActive, inbox, outbox, up, received, overtaken>>

-----------------------------------------------------------------------------
(* The worker task: claim, execute_claimed_text. *)

\* claim_inbound, once the semaphore has a slot.
ClaimInbound(p, reply) ==
    LET e == proc[p].event
        free == Connected(e) /\ userActive /\ Claimable(e)
    IN
    /\ proc[p].pc = "queued"
    /\ Cardinality(Inflight(Running(p))) < MaxInflight
    /\ free => Fresh # {}
    /\ inbox' = IF free /\ reply # "failed"
                THEN [inbox EXCEPT ![e].status = "processing",
                        ![e].token = NewToken, ![e].lease = "live"]
                ELSE inbox
    /\ IF free /\ reply = "ok"
       THEN Set(p, [proc[p] EXCEPT !.pc = "claimed", !.token = NewToken])
       ELSE End(p)
    /\ UNCHANGED <<conn, userActive, outbox, up, received, overtaken>>

\* load_claimed_message: None is ChannelClaimLost, an exception is a failure.
LoadMessage(p, reply) ==
    /\ proc[p].pc = "claimed"
    /\ CASE reply # "ok" -> Goto(p, "failing")
         [] reply = "ok" /\ OwnsInbound(p) /\ Connected(proc[p].event) ->
              Goto(p, "chatting")
         [] OTHER -> End(p)
    /\ UNCHANGED <<conn, userActive, inbox, outbox, up, received, overtaken>>

\* The principal is looked up and ChatRuntime.execute answers, or either is
\* refused (ChannelExecutionDenied).
Chat(p, answered) ==
    /\ proc[p].pc = "chatting"
    /\ answered => userActive
    /\ Goto(p, IF answered THEN "committing" ELSE "failing")
    /\ UNCHANGED <<conn, userActive, inbox, outbox, up, received, overtaken>>

\* complete_and_stage_delivery, one statement over both tables; a refusal is
\* ChannelClaimLost.
Commit(p, reply) ==
    LET e == proc[p].event
        done == OwnsInbound(p) /\ Connected(e) /\ reply # "failed"
    IN
    /\ proc[p].pc = "committing"
    /\ inbox' = IF done THEN [inbox EXCEPT ![e].status = "completed",
                                ![e].token = 0, ![e].lease = "null"]
                ELSE inbox
    /\ outbox' = IF done THEN [outbox EXCEPT ![e] =
                                 [NoOutbox EXCEPT !.status = "accepted"]]
                 ELSE outbox
    /\ CASE reply # "ok" -> Goto(p, "failing")
         [] reply = "ok" /\ done ->
              Set(p, [proc[p] EXCEPT !.pc = "preflight", !.token = 0])
         [] OTHER -> End(p)
    /\ UNCHANGED <<conn, userActive, up, received, overtaken>>

\* Mutant: the failure is recorded by inbox_id, whoever owns the row.
FailInboundUnfenced(p, reply) ==
    /\ proc[p].pc = "failing"
    /\ inbox' = IF reply # "failed"
                THEN [inbox EXCEPT ![proc[p].event].status = "failed",
                        ![proc[p].event].token = 0, ![proc[p].event].lease = "null"]
                ELSE inbox
    /\ End(p)
    /\ UNCHANGED <<conn, userActive, outbox, up, received, overtaken>>

\* fail_inbound_claim; the task ends whether it was recorded or not.
FailInbound(p, reply) ==
    /\ proc[p].pc = "failing"
    /\ inbox' = IF OwnsInbound(p) /\ reply # "failed"
                THEN [inbox EXCEPT ![proc[p].event].status = "failed",
                        ![proc[p].event].token = 0, ![proc[p].event].lease = "null"]
                ELSE inbox
    /\ End(p)
    /\ UNCHANGED <<conn, userActive, outbox, up, received, overtaken>>

\* run_with_claim_heartbeat around _process: a refused renewal cancels it and
\* raises ChannelClaimLost, one that raises is a failure of the execution.
HeartbeatInbound(p, reply) ==
    /\ proc[p].pc \in {"claimed", "chatting", "committing"}
    /\ \/ reply = "failed" /\ Goto(p, "failing")
       \/ reply = "ok" /\ ~OwnsInbound(p) /\ End(p)
    /\ UNCHANGED <<conn, userActive, inbox, outbox, up, received, overtaken>>

-----------------------------------------------------------------------------
(* Delivery: recover_outbox, dispatch_authorized_outbox, dispatch. *)

\* list_unattempted_outbound.
ListUnattempted ==
    {e \in Events: /\ Unattempted(outbox[e])
                   /\ inbox[e].status = "completed"
                   /\ Connected(e)
                   /\ userActive}

RecoverOutbox(h) ==
    /\ h \in up
    /\ proc[<<h, Operator>>].pc = "none"
    /\ ListUnattempted # {}
    /\ Set(<<h, Operator>>, [Gone EXCEPT !.pc = "next", !.todo = ListUnattempted])
    /\ UNCHANGED <<conn, userActive, inbox, outbox, up, received, overtaken>>

\* recover_outbox's loop: the next delivery, or the end.
NextDelivery(p) ==
    /\ proc[p].pc = "next"
    /\ IF proc[p].todo = {} THEN End(p)
       ELSE \E e \in proc[p].todo:
               Set(p, [proc[p] EXCEPT !.pc = "preflight", !.event = e])
    /\ UNCHANGED <<conn, userActive, inbox, outbox, up, received, overtaken>>

\* get_delivery_preflight, the enabled connection and RuntimePolicy's plan,
\* which the worker, the host and the delivery service each ask for in turn.
Preflight(p, allowed) ==
    /\ proc[p].pc = "preflight"
    /\ \/ allowed /\ ~Unattempted(outbox[proc[p].event]) /\ Returned(p)
       \/ /\ allowed /\ Unattempted(outbox[proc[p].event]) /\ conn.enabled
          /\ Goto(p, "reserving")
       \/ ~(allowed /\ conn.enabled) /\ Raised(p)
    /\ UNCHANGED <<conn, userActive, inbox, outbox, up, received, overtaken>>

\* claim_outbound: the one-use reservation.
ClaimOutbound(p, reply) ==
    LET e == proc[p].event
        free == /\ Unattempted(outbox[e])
                /\ inbox[e].status = "completed"
                /\ Connected(e)
                /\ userActive
    IN
    /\ proc[p].pc = "reserving"
    /\ free => Fresh # {}
    /\ outbox' = IF free /\ reply # "failed"
                 THEN [outbox EXCEPT ![e].token = NewToken, ![e].lease = "live",
                                     ![e].attempts = 1]
                 ELSE outbox
    /\ CASE reply # "ok" -> Raised(p)
         [] reply = "ok" /\ free ->
              Set(p, [proc[p] EXCEPT !.pc = "rechecking", !.token = NewToken])
         [] OTHER -> Returned(p)
    /\ UNCHANGED <<conn, userActive, inbox, up, received, overtaken>>

\* Mutant: attempt relies on the checks made before the claim.
RecheckSkipped(p, verdict) ==
    /\ proc[p].pc = "rechecking"
    /\ \/ verdict = "allowed" /\ Goto(p, "calling")
       \/ verdict = "denied" /\ Set(p, [proc[p] EXCEPT !.pc = "finalizing",
                                                       !.receipt = "failed"])
       \/ verdict = "error" /\ Raised(p)
    /\ UNCHANGED <<conn, userActive, inbox, outbox, up, received, overtaken>>

\* attempt: only while the plan still allows it and the connection has not
\* changed is the adapter called; otherwise the delivery is 'failed'.
Recheck(p, verdict) ==
    /\ proc[p].pc = "rechecking"
    /\ \/ /\ verdict = "allowed" /\ Connected(proc[p].event)
          /\ Goto(p, "calling")
       \/ /\ verdict = "allowed" => ~Connected(proc[p].event)
          /\ verdict # "error"
          /\ Set(p, [proc[p] EXCEPT !.pc = "finalizing", !.receipt = "failed"])
       \/ verdict = "error" /\ Raised(p)
    /\ UNCHANGED <<conn, userActive, inbox, outbox, up, received, overtaken>>

\* What adapter.send may give: evidence (a provider message id), a success
\* without evidence, a failure with an error code, an exception or timeout.
Values == {"evidence", "bare", "error", "raised"}

\* _provider_receipt.
ProviderReceipt(value) ==
    CASE value = "evidence" -> "sent"
      [] value = "error" -> "failed"
      [] OTHER -> "unknown"

\* adapter.send: a message id means that the provider took the message, any
\* other outcome leaves it open.
Send(p, value, taken) ==
    /\ proc[p].pc = "calling"
    /\ value = "evidence" => taken = 1
    /\ received' = [received EXCEPT ![proc[p].event] = @ + taken]
    /\ Set(p, [proc[p] EXCEPT !.pc = "finalizing",
                              !.receipt = ProviderReceipt(value)])
    /\ UNCHANGED <<conn, userActive, inbox, outbox, up, overtaken>>

\* finalize_outbound_claim; a refusal raises ChannelDeliveryClaimLost.
Finalize(p, reply) ==
    LET e == proc[p].event
        done == OwnsOutbound(p) /\ reply # "failed"
    IN
    /\ proc[p].pc = "finalizing"
    /\ outbox' = IF done
                 THEN [outbox EXCEPT ![e].status = proc[p].receipt,
                         ![e].token = 0, ![e].lease = "null"]
                 ELSE outbox
    /\ IF done /\ reply = "ok" THEN Returned(p) ELSE Raised(p)
    /\ UNCHANGED <<conn, userActive, inbox, up, received, overtaken>>

\* run_with_claim_heartbeat around attempt: a renewal that is refused or
\* raises cancels it, and a call to the provider that is under way with it.
HeartbeatOutbound(p, reply, taken) ==
    /\ proc[p].pc \in {"rechecking", "calling", "finalizing"}
    /\ reply = "ok" => ~OwnsOutbound(p)
    /\ taken = 1 => proc[p].pc = "calling"
    /\ received' = [received EXCEPT ![proc[p].event] = @ + taken]
    /\ Raised(p)
    /\ UNCHANGED <<conn, userActive, inbox, outbox, up, overtaken>>

\* quarantine_expired_outbound_claims: offered by the repository, called by
\* nothing in the program.
Quarantine ==
    /\ \E e \in Events: outbox[e].status = "accepted" /\ outbox[e].lease = "expired"
    /\ outbox' = [e \in Events |->
                    IF outbox[e].status = "accepted" /\ outbox[e].lease = "expired"
                    THEN [outbox[e] EXCEPT !.status = "unknown", !.token = 0,
                                           !.lease = "null"]
                    ELSE outbox[e]]
    /\ UNCHANGED <<conn, userActive, inbox, up, proc, received, overtaken>>

-----------------------------------------------------------------------------
(* The environment. *)

Start(h) ==
    /\ h \notin up
    /\ up' = up \cup {h}
    /\ UNCHANGED <<conn, userActive, inbox, outbox, proc, received, overtaken>>

\* shutdown, or the death of the process: every task is cancelled, a provider
\* call that is under way may still have gone out.
Stop(h) ==
    /\ h \in up
    /\ up' = up \ {h}
    /\ proc' = [p \in Procs |-> IF p[1] = h THEN Gone ELSE proc[p]]
    /\ \E out \in SUBSET {p \in Procs: p[1] = h /\ proc[p].pc = "calling"}:
          received' = [e \in Events |->
                         received[e]
                         + Cardinality({p \in out: proc[p].event = e})]
    /\ UNCHANGED <<conn, userActive, inbox, outbox, overtaken>>

\* set_connection_enabled: activation or revocation, a new revision each.
SetConnectionEnabled ==
    /\ conn.revision < MaxRevision
    /\ conn' = [enabled |-> ~conn.enabled, revision |-> conn.revision + 1]
    /\ overtaken' = overtaken \cup
          {e \in Events: /\ inbox[e].status # "absent"
                         /\ received[e] = 0
                         /\ \A p \in Procs: ~(proc[p].pc = "calling"
                                              /\ proc[p].event = e)}
    /\ UNCHANGED <<userActive, inbox, outbox, up, proc, received>>

SetUserActive ==
    /\ userActive' = ~userActive
    /\ UNCHANGED <<conn, inbox, outbox, up, proc, received, overtaken>>

InboundExpires(e) ==
    /\ inbox[e].lease = "live"
    /\ inbox' = [inbox EXCEPT ![e].lease = "expired"]
    /\ UNCHANGED <<conn, userActive, outbox, up, proc, received, overtaken>>

OutboundExpires(e) ==
    /\ outbox[e].lease = "live"
    /\ outbox' = [outbox EXCEPT ![e].lease = "expired"]
    /\ UNCHANGED <<conn, userActive, inbox, up, proc, received, overtaken>>

-----------------------------------------------------------------------------

\* create_connection: disabled, revision 1.
Init ==
    /\ conn = [enabled |-> FALSE, revision |-> 1]
    /\ userActive = TRUE
    /\ inbox = [e \in Events |-> NoInbox]
    /\ outbox = [e \in Events |-> NoOutbox]
    /\ up = {}
    /\ proc = [p \in Procs |-> Gone]
    /\ received = [e \in Events |-> 0]
    /\ overtaken = {}

ExecutionStep(p) ==
    \/ \E reply \in Replies: ClaimInbound(p, reply)
    \/ \E reply \in Replies: LoadMessage(p, reply)
    \/ \E answered \in BOOLEAN: Chat(p, answered)
    \/ \E reply \in Replies: Commit(p, reply)
    \/ \E reply \in Replies: FailInbound(p, reply)
    \/ \E reply \in {"ok", "failed"}: HeartbeatInbound(p, reply)

DeliveryStep(p) ==
    \/ NextDelivery(p)
    \/ \E allowed \in BOOLEAN: Preflight(p, allowed)
    \/ \E reply \in Replies: ClaimOutbound(p, reply)
    \/ \E verdict \in Verdicts: Recheck(p, verdict)
    \/ \E value \in Values, taken \in 0..1: Send(p, value, taken)
    \/ \E reply \in Replies: Finalize(p, reply)
    \/ \E reply \in {"ok", "failed"}, taken \in 0..1:
          HeartbeatOutbound(p, reply, taken)

HostStep(h) ==
    \/ \E e \in Events, reply \in Replies: Admit(h, e, reply)
    \/ RecoverInbox(h)
    \/ RecoverOutbox(h)
    \/ Start(h)
    \/ Stop(h)

Environment ==
    \/ SetConnectionEnabled
    \/ SetUserActive
    \/ Quarantine
    \/ \E e \in Events: InboundExpires(e)
    \/ \E e \in Events: OutboundExpires(e)

Next ==
    \/ \E p \in Procs: ExecutionStep(p) \/ DeliveryStep(p)
    \/ \E h \in Hosts: HostStep(h)
    \/ Environment

Spec == Init /\ [][Next]_vars

-----------------------------------------------------------------------------
(* Properties. *)

\* Rows, coroutines and histories have their types.
TypeOK ==
    /\ conn \in Connection
    /\ userActive \in BOOLEAN
    /\ inbox \in [Events -> Inbox]
    /\ outbox \in [Events -> Outbox]
    /\ up \subseteq Hosts
    /\ proc \in [Procs -> Proc]
    /\ received \in [Events -> Nat]
    /\ overtaken \subseteq Events

\* "Never a blind resend that could deliver duplicate messages": however often
\* the event is delivered, its chat turn repeated, and its reply taken up by
\* workers and operators of several hosts that stop, stall and lose replies,
\* the provider takes the reply at most once.
SentAtMostOnce == \A e \in Events: received[e] <= 1

\* "Revocation stops NEW sends": once the connection was revoked, a reply to an
\* event admitted before is not sent any more, not even after the connection
\* is activated again.
RevokedNeverSent == \A e \in overtaken: received[e] = 0

\* A reply exists exactly for the completed events: none without a chat turn
\* that kept its claim to the end, and a "durable failure" is "never mistaken
\* for a delivered AI response", whichever execution comes late.
AnswerMatchesInbox ==
    \A e \in Events: inbox[e].status = "completed" <=> outbox[e].status # "absent"

\* Settled rows stay: a duplicate of the native event, a late execution and a
\* late provider answer change neither a settled event nor a settled reply.
SettledStays ==
    [][\A e \in Events:
          /\ inbox[e].status \in {"completed", "failed"} => inbox'[e] = inbox[e]
          /\ outbox[e].status \in {"sent", "failed", "unknown"} =>
                outbox'[e] = outbox[e]]_vars

=============================================================================
