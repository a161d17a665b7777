--------------------------- MODULE ChannelProofs ---------------------------
(***************************************************************************)
(* The safety of channel replies, for any events, hosts, tokens, budgets   *)
(* and number of revocations.                                              *)
(***************************************************************************)
EXTENDS Channel, FiniteSetTheorems, TLAPS

SendPCs == {"rechecking", "calling", "finalizing"}

\* The coroutine holds the one-use reservation of its event's reply.
Sending(p) == proc[p].pc \in SendPCs

\* A coroutine's state that holds no reservation.
Calm(s) == /\ s.pc \notin SendPCs
           /\ s.pc \notin {"none", "next"} => s.event \in Events

\* Coroutines know their event, and what they will finalize; a reservation is
\* recorded in the row and has one holder, and up to the provider call the
\* reply has not gone out.
Senders ==
    /\ \A p \in Procs: proc[p].pc \notin {"none", "next"} => proc[p].event \in Events
    /\ \A p \in Procs: proc[p].pc = "finalizing" => proc[p].receipt # "none"
    /\ \A p \in Procs: Sending(p) => outbox[proc[p].event].attempts = 1
    /\ \A p, q \in Procs:
          Sending(p) /\ Sending(q) /\ proc[p].event = proc[q].event => p = q
    /\ \A p \in Procs: proc[p].pc \in {"rechecking", "calling"} =>
          received[proc[p].event] = 0

\* The columns of the two rows of an event hang together.
Rows(e) ==
    /\ inbox[e].lease # "null" => inbox[e].status = "processing"
    /\ outbox[e].lease # "null" => outbox[e].status = "accepted"
    /\ outbox[e].status = "absent" => outbox[e].attempts = 0
    /\ inbox[e].status = "completed" <=> outbox[e].status # "absent"
    /\ inbox[e].revision <= conn.revision

\* Only a reserved reply was ever taken, and only once.
Received(e) ==
    /\ outbox[e].attempts = 0 => received[e] = 0
    /\ received[e] <= 1

\* An overtaken event was admitted under an older revision for good, and its
\* reply is neither sent nor being sent.
Overtaken(e) ==
    /\ inbox[e].status # "absent"
    /\ inbox[e].revision < conn.revision
    /\ received[e] = 0
    /\ \A p \in Procs: ~(proc[p].pc = "calling" /\ proc[p].event = e)

\* The inductive invariant.
IInv ==
    /\ TypeOK
    /\ Senders
    /\ \A e \in Events: Rows(e) /\ Received(e)
    /\ \A e \in overtaken: Overtaken(e)

USE DEF Leases, Replies, Verdicts, Token0, Connection, Inbox, Outbox,
        ExecutionPCs, DispatchPCs, Proc

-----------------------------------------------------------------------------
(* Lemmas on rows and coroutines. *)

\* A new token is a token.
LEMMA NewTokenType == Fresh # {} => NewToken \in Tokens
  BY DEF Fresh, NewToken

\* A coroutine that is gone is calm.
LEMMA GoneCalm == Gone \in Proc /\ Calm(Gone) /\ Gone.pc = "none" /\ Gone.todo = {}
  BY DEF Gone, Calm, SendPCs

\* Missing rows have their types.
LEMMA NoRows == /\ NoInbox \in Inbox /\ NoInbox.status = "absent"
                /\ NoInbox.lease = "null" /\ NoInbox.revision = 0
                /\ NoOutbox \in Outbox /\ NoOutbox.status = "absent"
                /\ NoOutbox.lease = "null" /\ NoOutbox.attempts = 0
  BY ChannelAssumption DEF NoInbox, NoOutbox

\* The step leaves coroutine p without a reservation, and the others alone.
CalmStep(p) == \E s \in Proc: Calm(s) /\ proc' = [proc EXCEPT ![p] = s]

\* A coroutine that ends, returns from a delivery, or goes on to a pc outside a
\* delivery's critical part holds no reservation.
LEMMA CalmSteps ==
    ASSUME IInv, NEW p \in Procs
    PROVE  /\ End(p) => CalmStep(p)
           /\ Raised(p) => CalmStep(p)
           /\ Returned(p) => CalmStep(p)
           /\ \A pc \in {"claimed", "chatting", "committing", "failing",
                         "preflight", "reserving"}:
                 Goto(p, pc) /\ proc[p].event \in Events => CalmStep(p)
<1>1. proc[p] \in Proc
  BY DEF IInv, TypeOK
<1>2. End(p) => CalmStep(p)
  BY GoneCalm DEF End, Set, CalmStep
<1>3. ASSUME Returned(p), p[2] = Operator PROVE CalmStep(p)
  <2> DEFINE s == [Gone EXCEPT !.pc = "next", !.todo = proc[p].todo \ {proc[p].event}]
  <2>1. proc[p].todo \ {proc[p].event} \in SUBSET Events
    BY <1>1
  <2>2. s \in Proc /\ s.pc = "next"
    BY <2>1, GoneCalm
  <2>3. Calm(s)
    BY <2>2 DEF Calm, SendPCs
  <2>4. proc' = [proc EXCEPT ![p] = s]
    BY <1>3 DEF Returned, Set
  <2> HIDE DEF s
  <2> QED
    BY <2>2, <2>3, <2>4 DEF CalmStep
<1>4. ASSUME NEW pc \in {"claimed", "chatting", "committing", "failing",
                         "preflight", "reserving"},
             Goto(p, pc), proc[p].event \in Events
      PROVE  CalmStep(p)
  <2> DEFINE s == [proc[p] EXCEPT !.pc = pc]
  <2>1. s \in Proc /\ s.pc = pc /\ s.event = proc[p].event
    BY <1>1
  <2>2. Calm(s)
    BY <1>4, <2>1 DEF Calm, SendPCs
  <2>3. proc' = [proc EXCEPT ![p] = s]
    BY <1>4 DEF Goto, Set
  <2> HIDE DEF s
  <2> QED
    BY <2>1, <2>2, <2>3 DEF CalmStep
<1> QED
  BY <1>2, <1>3, <1>4 DEF Returned, Raised

-----------------------------------------------------------------------------
(* The invariant holds initially and is preserved by every action. *)

\* No events, no coroutines.
LEMMA InitInv == Init => IInv
<1> SUFFICES ASSUME Init PROVE IInv
  OBVIOUS
<1>1. TypeOK
  BY GoneCalm, NoRows, ChannelAssumption DEF Init, TypeOK
<1>2. Senders
  BY GoneCalm DEF Init, Senders, Sending, SendPCs
<1>3. \A e \in Events: Rows(e) /\ Received(e)
  BY NoRows, ChannelAssumption DEF Init, Rows, Received
<1> QED
  BY <1>1, <1>2, <1>3 DEF Init, IInv

\* A step that makes no reservation and sends nothing: every coroutine stays as
\* it is or is calm after it, the reservations stay, and an admitted event
\* keeps its revision.
LEMMA QuietStep ==
    ASSUME IInv, TypeOK',
           UNCHANGED <<conn, received, overtaken>>,
           \A q \in Procs: proc'[q] = proc[q] \/ Calm(proc'[q]),
           \A e \in Events: outbox'[e].attempts = outbox[e].attempts,
           \A e \in Events: inbox[e].status # "absent" =>
              inbox'[e].status # "absent" /\ inbox'[e].revision = inbox[e].revision,
           \A e \in Events: Rows(e)'
    PROVE  IInv'
<1>1. Senders'
  BY DEF IInv, Senders, Sending, Calm, SendPCs
<1>2. ASSUME NEW e \in Events PROVE Received(e)'
  BY DEF IInv, Received
<1>3. ASSUME NEW e \in overtaken PROVE Overtaken(e)'
  <2>1. e \in Events /\ Overtaken(e)
    BY DEF IInv, TypeOK
  <2> QED
    BY <2>1 DEF Overtaken, Calm, SendPCs
<1> QED
  BY <1>1, <1>2, <1>3 DEF IInv

\* A calm step of one coroutine that changes at most the rows of one event, and
\* no reservation.
LEMMA CalmRowStep ==
    ASSUME IInv, NEW p \in Procs, CalmStep(p), NEW e \in Events,
           UNCHANGED <<conn, userActive, up, received, overtaken>>,
           NEW i \in Inbox, NEW o \in Outbox,
           inbox' = [inbox EXCEPT ![e] = i],
           outbox' = [outbox EXCEPT ![e] = o],
           o.attempts = outbox[e].attempts,
           i.status # "absent" \/ inbox[e].status = "absent",
           i.revision = inbox[e].revision,
           i.lease # "null" => i.status = "processing",
           o.lease # "null" => o.status = "accepted",
           o.status = "absent" => o.attempts = 0,
           i.status = "completed" <=> o.status # "absent"
    PROVE  IInv'
<1>1. PICK s \in Proc: Calm(s) /\ proc' = [proc EXCEPT ![p] = s]
  BY DEF CalmStep
<1>2. /\ inbox \in [Events -> Inbox] /\ outbox \in [Events -> Outbox]
      /\ proc \in [Procs -> Proc]
  BY DEF IInv, TypeOK
<1>3. /\ inbox' \in [Events -> Inbox] /\ inbox'[e] = i
      /\ \A f \in Events \ {e}: inbox'[f] = inbox[f]
      /\ outbox' \in [Events -> Outbox] /\ outbox'[e] = o
      /\ \A f \in Events \ {e}: outbox'[f] = outbox[f]
  BY <1>2
<1>4. /\ proc' \in [Procs -> Proc] /\ proc'[p] = s
      /\ \A q \in Procs \ {p}: proc'[q] = proc[q]
  BY <1>1, <1>2
<1>5. TypeOK'
  BY <1>3, <1>4 DEF IInv, TypeOK
<1>6. ASSUME NEW f \in Events PROVE Rows(f)'
  <2>1. Rows(f)
    BY DEF IInv
  <2> QED
    BY <1>3, <2>1 DEF Rows
<1> QED
  BY <1>1, <1>3, <1>4, <1>5, <1>6, QuietStep

\* A calm step of one coroutine that changes nothing else.
LEMMA CalmOnlyStep ==
    ASSUME IInv, NEW p \in Procs, CalmStep(p),
           UNCHANGED <<conn, userActive, inbox, outbox, up, received, overtaken>>
    PROVE  IInv'
<1>1. PICK s \in Proc: Calm(s) /\ proc' = [proc EXCEPT ![p] = s]
  BY DEF CalmStep
<1>2. /\ proc' \in [Procs -> Proc] /\ proc'[p] = s
      /\ \A q \in Procs \ {p}: proc'[q] = proc[q]
  BY <1>1 DEF IInv, TypeOK
<1>3. TypeOK'
  BY <1>2 DEF IInv, TypeOK
<1>4. ASSUME NEW e \in Events PROVE Rows(e)'
  BY DEF IInv, Rows
<1> QED
  BY <1>1, <1>2, <1>3, <1>4, QuietStep

\* The worker task: claiming, executing and committing reserve nothing.
LEMMA ExecutionInv ==
    ASSUME IInv, NEW p \in Procs, ExecutionStep(p)
    PROVE  IInv'
<1> DEFINE e == proc[p].event
<1>1. /\ proc[p] \in Proc /\ inbox \in [Events -> Inbox] /\ outbox \in [Events -> Outbox]
      /\ proc \in [Procs -> Proc]
  BY DEF IInv, TypeOK
<1>2. e \in Events
  BY DEF ExecutionStep, ClaimInbound, LoadMessage, Chat, Commit, FailInbound,
         HeartbeatInbound, IInv, Senders
<1>3. inbox[e] \in Inbox /\ outbox[e] \in Outbox /\ Rows(e)
  BY <1>1, <1>2 DEF IInv
<1>4. outbox = [outbox EXCEPT ![e] = outbox[e]]
  BY <1>1, <1>2
<1>5. ASSUME NEW reply \in Replies, ClaimInbound(p, reply) PROVE IInv'
  <2>1. UNCHANGED <<conn, userActive, outbox, up, received, overtaken>>
    BY <1>5 DEF ClaimInbound
  <2>2. CASE inbox' = inbox /\ End(p)
    BY <2>1, <2>2, CalmSteps, CalmOnlyStep
  <2>3. CASE /\ Claimable(e) /\ Fresh # {}
             /\ inbox' = [inbox EXCEPT ![e].status = "processing",
                            ![e].token = NewToken, ![e].lease = "live"]
             /\ \/ Set(p, [proc[p] EXCEPT !.pc = "claimed", !.token = NewToken])
                \/ End(p)
    <3> DEFINE i == [inbox[e] EXCEPT !.status = "processing",
                                     !.token = NewToken, !.lease = "live"]
               s == [proc[p] EXCEPT !.pc = "claimed", !.token = NewToken]
    <3>1. NewToken \in Token0
      BY <2>3, NewTokenType
    <3>2. /\ i \in Inbox /\ i.status = "processing" /\ i.lease = "live"
          /\ i.revision = inbox[e].revision
      BY <1>3, <3>1
    <3>3. s \in Proc /\ s.pc = "claimed" /\ s.event = e
      BY <1>1, <3>1
    <3>4. Calm(s)
      BY <1>2, <3>3 DEF Calm, SendPCs
    <3>5. CalmStep(p)
      <4>1. CASE proc' = [proc EXCEPT ![p] = s]
        <5> HIDE DEF s
        <5> QED
          BY <3>3, <3>4, <4>1 DEF CalmStep
      <4> QED
        BY <2>3, <4>1, CalmSteps DEF Set
    <3>6. inbox' = [inbox EXCEPT ![e] = i]
      BY <1>1, <1>2, <2>3
    <3>7. outbox[e].status = "absent" /\ inbox[e].status # "absent"
      BY <1>3, <2>3 DEF Claimable, Rows
    <3>8. outbox' = [outbox EXCEPT ![e] = outbox[e]]
      BY <1>4, <2>1
    <3> HIDE DEF i, e
    <3> QED
      BY <1>2, <1>3, <2>1, <3>2, <3>5, <3>6, <3>7, <3>8, CalmRowStep DEF Rows
  <2> QED
    BY <1>5, <2>2, <2>3 DEF ClaimInbound
<1>6. ASSUME \/ \E reply \in Replies: LoadMessage(p, reply)
             \/ \E answered \in BOOLEAN: Chat(p, answered)
             \/ \E reply \in {"ok", "failed"}: HeartbeatInbound(p, reply)
      PROVE  IInv'
  <2>1. UNCHANGED <<conn, userActive, inbox, outbox, up, received, overtaken>>
    BY <1>6 DEF LoadMessage, Chat, HeartbeatInbound
  <2>2. End(p) \/ \E pc \in {"chatting", "committing", "failing"}: Goto(p, pc)
    BY <1>6 DEF LoadMessage, Chat, HeartbeatInbound
  <2> QED
    BY <1>2, <2>1, <2>2, CalmSteps, CalmOnlyStep
<1>7. ASSUME NEW reply \in Replies, Commit(p, reply) PROVE IInv'
  <2>1. UNCHANGED <<conn, userActive, up, received, overtaken>>
    BY <1>7 DEF Commit
  <2> DEFINE s == [proc[p] EXCEPT !.pc = "preflight", !.token = 0]
  <2>2. s \in Proc /\ s.pc = "preflight" /\ s.event = e
    BY <1>1
  <2>3. Calm(s)
    BY <1>2, <2>2 DEF Calm, SendPCs
  <2>4. CalmStep(p)
    <3>1. CASE proc' = [proc EXCEPT ![p] = s]
      <4> HIDE DEF s
      <4> QED
        BY <2>2, <2>3, <3>1 DEF CalmStep
    <3>2. Goto(p, "failing") \/ End(p) \/ proc' = [proc EXCEPT ![p] = s]
      BY <1>7 DEF Commit, Set
    <3> QED
      BY <1>2, <3>1, <3>2, CalmSteps
  <2>5. CASE inbox' = inbox /\ outbox' = outbox
    BY <2>1, <2>4, <2>5, CalmOnlyStep
  <2>6. CASE /\ OwnsInbound(p)
             /\ inbox' = [inbox EXCEPT ![e].status = "completed",
                            ![e].token = 0, ![e].lease = "null"]
             /\ outbox' = [outbox EXCEPT ![e] = [NoOutbox EXCEPT !.status = "accepted"]]
    <3> DEFINE i == [inbox[e] EXCEPT !.status = "completed", !.token = 0,
                                     !.lease = "null"]
               o == [NoOutbox EXCEPT !.status = "accepted"]
    <3>1. inbox[e].status = "processing"
      BY <2>6 DEF OwnsInbound
    <3>2. outbox[e].attempts = 0
      BY <1>3, <3>1 DEF Rows
    <3>3. /\ i \in Inbox /\ i.status = "completed" /\ i.lease = "null"
          /\ i.revision = inbox[e].revision
      BY <1>3
    <3>4. /\ o \in Outbox /\ o.status = "accepted" /\ o.lease = "null"
          /\ o.attempts = 0
      BY NoRows
    <3>5. inbox' = [inbox EXCEPT ![e] = i] /\ outbox' = [outbox EXCEPT ![e] = o]
      BY <1>1, <1>2, <2>6
    <3> HIDE DEF i, o, e
    <3> QED
      BY <1>2, <2>1, <2>4, <3>1, <3>2, <3>3, <3>4, <3>5, CalmRowStep
  <2> QED
    BY <1>7, <2>5, <2>6 DEF Commit
<1>8. ASSUME NEW reply \in Replies, FailInbound(p, reply) PROVE IInv'
  <2>1. UNCHANGED <<conn, userActive, outbox, up, received, overtaken>> /\ CalmStep(p)
    BY <1>8, CalmSteps DEF FailInbound
  <2>2. CASE inbox' = inbox
    BY <2>1, <2>2, CalmOnlyStep
  <2>3. CASE /\ OwnsInbound(p)
             /\ inbox' = [inbox EXCEPT ![e].status = "failed",
                            ![e].token = 0, ![e].lease = "null"]
    <3> DEFINE i == [inbox[e] EXCEPT !.status = "failed", !.token = 0,
                                     !.lease = "null"]
    <3>1. inbox[e].status = "processing"
      BY <2>3 DEF OwnsInbound
    <3>2. outbox[e].status = "absent"
      BY <1>3, <3>1 DEF Rows
    <3>3. /\ i \in Inbox /\ i.status = "failed" /\ i.lease = "null"
          /\ i.revision = inbox[e].revision
      BY <1>3
    <3>4. inbox' = [inbox EXCEPT ![e] = i]
      BY <1>1, <1>2, <2>3
    <3>5. outbox' = [outbox EXCEPT ![e] = outbox[e]]
      BY <1>4, <2>1
    <3> HIDE DEF i, e
    <3> QED
      BY <1>2, <1>3, <2>1, <3>1, <3>2, <3>3, <3>4, <3>5, CalmRowStep DEF Rows
  <2> QED
    BY <1>8, <2>2, <2>3 DEF FailInbound
<1> QED
  BY <1>5, <1>6, <1>7, <1>8 DEF ExecutionStep

\* claim_outbound's one-use reservation: no coroutine can hold one already, and
\* the reply has not gone out.
LEMMA ReserveStep ==
    ASSUME IInv, NEW p \in Procs, NEW e \in Events, NEW s \in Proc,
           Calm(s) \/ (s.pc = "rechecking" /\ s.event = e),
           proc' = [proc EXCEPT ![p] = s],
           Unattempted(outbox[e]), NEW o \in Outbox,
           o.status = "accepted", o.attempts = 1,
           outbox' = [outbox EXCEPT ![e] = o],
           UNCHANGED <<conn, userActive, inbox, up, received, overtaken>>
    PROVE  IInv'
<1>1. /\ proc' \in [Procs -> Proc] /\ proc'[p] = s
      /\ \A q \in Procs \ {p}: proc'[q] = proc[q]
  BY DEF IInv, TypeOK
<1>2. /\ outbox' \in [Events -> Outbox] /\ outbox'[e] = o
      /\ \A f \in Events \ {e}: outbox'[f] = outbox[f]
  BY DEF IInv, TypeOK
<1>3. /\ outbox[e].status = "accepted" /\ outbox[e].attempts = 0
      /\ received[e] = 0
  BY DEF Unattempted, IInv, Received
<1>4. \A q \in Procs: Sending(q) => proc[q].event # e
  BY <1>3 DEF IInv, Senders
<1>5. TypeOK'
  BY <1>1, <1>2 DEF IInv, TypeOK
<1>6. Senders'
  <2>1. \A q \in Procs: proc'[q].pc \notin {"none", "next"} => proc'[q].event \in Events
    BY <1>1 DEF IInv, Senders, Calm
  <2>2. \A q \in Procs: proc'[q].pc = "finalizing" => proc'[q].receipt # "none"
    BY <1>1 DEF IInv, Senders, Calm, SendPCs
  <2>3. \A q \in Procs: proc'[q].pc \in SendPCs => outbox'[proc'[q].event].attempts = 1
    BY <1>1, <1>2, <1>4 DEF IInv, Senders, Sending, Calm
  <2>4. \A q, r \in Procs:
          /\ proc'[q].pc \in SendPCs /\ proc'[r].pc \in SendPCs
          /\ proc'[q].event = proc'[r].event
          => q = r
    BY <1>1, <1>4 DEF IInv, Senders, Sending, Calm
  <2>5. \A q \in Procs: proc'[q].pc \in {"rechecking", "calling"} =>
          received'[proc'[q].event] = 0
    BY <1>1, <1>3 DEF IInv, Senders, Calm, SendPCs
  <2> QED
    BY <2>1, <2>2, <2>3, <2>4, <2>5 DEF Senders, Sending
<1>7. ASSUME NEW f \in Events PROVE Rows(f)' /\ Received(f)'
  <2>1. Rows(f) /\ Received(f)
    BY DEF IInv
  <2> QED
    BY <1>2, <1>3, <2>1 DEF Rows, Received
<1>8. ASSUME NEW f \in overtaken PROVE Overtaken(f)'
  <2>1. Overtaken(f)
    BY DEF IInv
  <2> QED
    BY <1>1, <2>1 DEF Overtaken, Calm, SendPCs
<1> QED
  BY <1>5, <1>6, <1>7, <1>8 DEF IInv

\* A coroutine with a reservation goes on to the call, which it does for no
\* overtaken event, or to its end.
LEMMA SenderMoves ==
    ASSUME IInv, NEW p \in Procs, proc[p].pc = "rechecking",
           NEW s \in Proc, proc' = [proc EXCEPT ![p] = s],
           s.event = proc[p].event,
           \/ s.pc = "calling" /\ s.event \notin overtaken
           \/ s.pc = "finalizing" /\ s.receipt # "none",
           UNCHANGED <<conn, userActive, inbox, outbox, up, received, overtaken>>
    PROVE  IInv'
<1>1. /\ proc' \in [Procs -> Proc] /\ proc'[p] = s
      /\ \A q \in Procs \ {p}: proc'[q] = proc[q]
  BY DEF IInv, TypeOK
<1>2. TypeOK'
  BY <1>1 DEF IInv, TypeOK
<1>3. Senders'
  BY <1>1 DEF IInv, Senders, Sending, SendPCs
<1>4. ASSUME NEW f \in Events PROVE Rows(f)' /\ Received(f)'
  BY DEF IInv, Rows, Received
<1>5. ASSUME NEW f \in overtaken PROVE Overtaken(f)'
  <2>1. Overtaken(f)
    BY DEF IInv
  <2> QED
    BY <1>1, <2>1 DEF Overtaken
<1> QED
  BY <1>2, <1>3, <1>4, <1>5 DEF IInv

\* The provider may have taken the message of the coroutine that calls it, the
\* only one that may send this reply.
LEMMA CallEnds ==
    ASSUME IInv, NEW p \in Procs, proc[p].pc = "calling", NEW taken \in 0..1,
           NEW s \in Proc, proc' = [proc EXCEPT ![p] = s],
           \/ Calm(s)
           \/ s.pc = "finalizing" /\ s.event = proc[p].event /\ s.receipt # "none",
           received' = [received EXCEPT ![proc[p].event] = @ + taken],
           UNCHANGED <<conn, userActive, inbox, outbox, up, overtaken>>
    PROVE  IInv'
<1> DEFINE e == proc[p].event
<1>1. /\ proc' \in [Procs -> Proc] /\ proc'[p] = s
      /\ \A q \in Procs \ {p}: proc'[q] = proc[q]
  BY DEF IInv, TypeOK
<1>2. /\ e \in Events /\ received[e] = 0 /\ outbox[e].attempts = 1
      /\ \A q \in Procs: Sending(q) /\ proc[q].event = e => q = p
  BY DEF IInv, Senders, Sending, SendPCs
<1>3. e \notin overtaken
  BY DEF IInv, Overtaken
<1> HIDE DEF e
<1>4. /\ received' \in [Events -> Nat] /\ received'[e] = taken
      /\ \A f \in Events \ {e}: received'[f] = received[f]
  BY <1>2 DEF IInv, TypeOK, e
<1>5. TypeOK'
  BY <1>1, <1>4 DEF IInv, TypeOK
<1>6. Senders'
  <2>1. \A q \in Procs: proc'[q].pc \notin {"none", "next"} => proc'[q].event \in Events
    BY <1>1, <1>2 DEF IInv, Senders, Calm, e
  <2>2. \A q \in Procs: proc'[q].pc = "finalizing" => proc'[q].receipt # "none"
    BY <1>1 DEF IInv, Senders, Calm, SendPCs
  <2>3. \A q \in Procs: proc'[q].pc \in SendPCs => outbox'[proc'[q].event].attempts = 1
    BY <1>1, <1>2 DEF IInv, Senders, Sending, Calm, e
  <2>4. \A q, r \in Procs:
          /\ proc'[q].pc \in SendPCs /\ proc'[r].pc \in SendPCs
          /\ proc'[q].event = proc'[r].event
          => q = r
    BY <1>1, <1>2 DEF IInv, Senders, Sending, Calm, e
  <2>5. ASSUME NEW q \in Procs, proc'[q].pc \in {"rechecking", "calling"}
        PROVE  received'[proc'[q].event] = 0
    <3>1. q # p
      BY <1>1, <2>5 DEF Calm, SendPCs
    <3>2. proc'[q] = proc[q]
      BY <1>1, <3>1
    <3>3. proc[q].event \in Events /\ proc[q].event # e /\ received[proc[q].event] = 0
      BY <1>2, <2>5, <3>1, <3>2 DEF IInv, Senders, Sending, SendPCs
    <3> QED
      BY <1>4, <3>2, <3>3
  <2> QED
    BY <2>1, <2>2, <2>3, <2>4, <2>5 DEF Senders, Sending
<1>7. ASSUME NEW f \in Events PROVE Rows(f)' /\ Received(f)'
  <2>1. Rows(f) /\ Received(f)
    BY DEF IInv
  <2> QED
    BY <1>2, <1>4, <2>1 DEF Rows, Received
<1>8. ASSUME NEW f \in overtaken PROVE Overtaken(f)'
  <2>1. Overtaken(f) /\ f \in Events /\ f # e
    BY <1>3 DEF IInv, TypeOK
  <2> QED
    BY <1>1, <1>4, <2>1 DEF Overtaken, Calm, SendPCs
<1> QED
  BY <1>5, <1>6, <1>7, <1>8 DEF IInv

\* The delivery of a reply.
LEMMA DeliveryInv ==
    ASSUME IInv, NEW p \in Procs, DeliveryStep(p)
    PROVE  IInv'
<1> DEFINE e == proc[p].event
<1>1. /\ proc[p] \in Proc /\ inbox \in [Events -> Inbox] /\ outbox \in [Events -> Outbox]
      /\ proc \in [Procs -> Proc]
  BY DEF IInv, TypeOK
<1>2. proc[p].pc # "next" => e \in Events
  BY DEF DeliveryStep, NextDelivery, Preflight, ClaimOutbound, Recheck, Send,
         Finalize, HeartbeatOutbound, IInv, Senders
<1>3. CASE NextDelivery(p)
  <2>1. UNCHANGED <<conn, userActive, inbox, outbox, up, received, overtaken>>
    BY <1>3 DEF NextDelivery
  <2>2. ASSUME NEW f \in proc[p].todo,
               Set(p, [proc[p] EXCEPT !.pc = "preflight", !.event = f])
        PROVE  CalmStep(p)
    <3> DEFINE s == [proc[p] EXCEPT !.pc = "preflight", !.event = f]
    <3>1. f \in Events
      BY <1>1
    <3>2. s \in Proc /\ s.pc = "preflight" /\ s.event = f
      BY <1>1, <3>1
    <3>3. Calm(s)
      BY <3>1, <3>2 DEF Calm, SendPCs
    <3>4. proc' = [proc EXCEPT ![p] = s]
      BY <2>2 DEF Set
    <3> HIDE DEF s
    <3> QED
      BY <3>2, <3>3, <3>4 DEF CalmStep
  <2> QED
    BY <1>3, <2>1, <2>2, CalmSteps, CalmOnlyStep DEF NextDelivery
<1>4. ASSUME NEW allowed \in BOOLEAN, Preflight(p, allowed) PROVE IInv'
  <2>1. UNCHANGED <<conn, userActive, inbox, outbox, up, received, overtaken>>
    BY <1>4 DEF Preflight
  <2>2. e \in Events /\ (Returned(p) \/ Raised(p) \/ Goto(p, "reserving"))
    BY <1>2, <1>4 DEF Preflight
  <2> QED
    BY <2>1, <2>2, CalmSteps, CalmOnlyStep
<1>5. ASSUME NEW reply \in Replies, ClaimOutbound(p, reply) PROVE IInv'
  <2> DEFINE s == [proc[p] EXCEPT !.pc = "rechecking", !.token = NewToken]
             o == [outbox[e] EXCEPT !.token = NewToken, !.lease = "live",
                                    !.attempts = 1]
  <2>1. /\ UNCHANGED <<conn, userActive, inbox, up, received, overtaken>>
        /\ e \in Events /\ outbox[e] \in Outbox
    BY <1>1, <1>2, <1>5 DEF ClaimOutbound
  <2>2. CASE outbox' = outbox /\ (Raised(p) \/ Returned(p))
    BY <2>1, <2>2, CalmSteps, CalmOnlyStep
  <2>3. CASE /\ Unattempted(outbox[e]) /\ Fresh # {}
             /\ outbox' = [outbox EXCEPT ![e].token = NewToken, ![e].lease = "live",
                                         ![e].attempts = 1]
             /\ Raised(p) \/ Set(p, s)
    <3>1. NewToken \in Token0
      BY <2>3, NewTokenType
    <3>2. s \in Proc /\ s.pc = "rechecking" /\ s.event = e
      BY <1>1, <3>1
    <3>3. o \in Outbox /\ o.status = "accepted" /\ o.attempts = 1
      <4>1. outbox[e].status = "accepted" /\ 1 \in 0..1
        BY <2>3 DEF Unattempted
      <4> DEFINE n == [outbox[e] EXCEPT !.token = NewToken, !.lease = "live"]
      <4>2. n \in Outbox /\ n.status = outbox[e].status
        BY <2>1, <3>1
      <4>3. o = [n EXCEPT !.attempts = 1]
        BY <2>1
      <4> HIDE DEF n, o
      <4> QED
        BY <4>1, <4>2, <4>3
    <3>4. outbox' = [outbox EXCEPT ![e] = o]
      BY <1>1, <2>1, <2>3
    <3>5. Unattempted(outbox[e]) /\ e \in Events
      BY <2>1, <2>3
    <3> HIDE DEF o, s, e
    <3>6. CASE Raised(p)
      <4>1. PICK r \in Proc: Calm(r) /\ proc' = [proc EXCEPT ![p] = r]
        BY <3>6, CalmSteps DEF CalmStep
      <4> QED
        BY <2>1, <3>3, <3>4, <3>5, <4>1, ReserveStep
    <3>7. CASE Set(p, s)
      <4>1. proc' = [proc EXCEPT ![p] = s]
        BY <3>7 DEF Set
      <4> QED
        BY <2>1, <3>2, <3>3, <3>4, <3>5, <4>1, ReserveStep
    <3> QED
      BY <2>3, <3>6, <3>7
  <2>4. CASE /\ Unattempted(outbox[e]) /\ inbox[e].status = "completed"
             /\ Connected(e) /\ userActive
    BY <1>5, <2>2, <2>3, <2>4 DEF ClaimOutbound
  <2>5. CASE ~(/\ Unattempted(outbox[e]) /\ inbox[e].status = "completed"
               /\ Connected(e) /\ userActive)
    BY <1>5, <2>2, <2>5 DEF ClaimOutbound
  <2> QED
    BY <2>4, <2>5
<1>6. ASSUME NEW verdict \in Verdicts, Recheck(p, verdict) PROVE IInv'
  <2>1. /\ UNCHANGED <<conn, userActive, inbox, outbox, up, received, overtaken>>
        /\ proc[p].pc = "rechecking"
    BY <1>6 DEF Recheck
  <2>2. CASE Connected(e) /\ Goto(p, "calling")
    <3> DEFINE s == [proc[p] EXCEPT !.pc = "calling"]
    <3>1. s \in Proc /\ s.pc = "calling" /\ s.event = e
      BY <1>1
    <3>2. e \notin overtaken
      BY <2>2 DEF Connected, IInv, Overtaken, TypeOK
    <3>3. proc' = [proc EXCEPT ![p] = s]
      BY <2>2 DEF Goto, Set
    <3> HIDE DEF s
    <3> QED
      BY <2>1, <3>1, <3>2, <3>3, SenderMoves
  <2>3. CASE Set(p, [proc[p] EXCEPT !.pc = "finalizing", !.receipt = "failed"])
    <3> DEFINE s == [proc[p] EXCEPT !.pc = "finalizing", !.receipt = "failed"]
    <3>1. s \in Proc /\ s.pc = "finalizing" /\ s.event = e /\ s.receipt = "failed"
      BY <1>1
    <3>2. proc' = [proc EXCEPT ![p] = s]
      BY <2>3 DEF Set
    <3> HIDE DEF s
    <3> QED
      BY <2>1, <3>1, <3>2, SenderMoves
  <2>4. CASE Raised(p)
    BY <2>1, <2>4, CalmSteps, CalmOnlyStep
  <2> QED
    BY <1>6, <2>2, <2>3, <2>4 DEF Recheck
<1>7. ASSUME NEW value \in Values, NEW taken \in 0..1, Send(p, value, taken)
      PROVE  IInv'
  <2> DEFINE s == [proc[p] EXCEPT !.pc = "finalizing",
                                  !.receipt = ProviderReceipt(value)]
  <2>1. ProviderReceipt(value) \in {"sent", "failed", "unknown"}
    BY DEF ProviderReceipt
  <2>2. /\ s \in Proc /\ s.pc = "finalizing" /\ s.event = e
        /\ s.receipt # "none"
    BY <1>1, <2>1
  <2>3. /\ proc[p].pc = "calling" /\ proc' = [proc EXCEPT ![p] = s]
        /\ received' = [received EXCEPT ![proc[p].event] = @ + taken]
        /\ UNCHANGED <<conn, userActive, inbox, outbox, up, overtaken>>
    BY <1>7 DEF Send, Set
  <2> HIDE DEF s
  <2> QED
    BY <2>2, <2>3, CallEnds
<1>8. ASSUME NEW reply \in Replies, Finalize(p, reply) PROVE IInv'
  <2>1. /\ UNCHANGED <<conn, userActive, inbox, up, received, overtaken>>
        /\ e \in Events /\ outbox[e] \in Outbox /\ inbox[e] \in Inbox
        /\ proc[p].receipt \in {"sent", "failed", "unknown"}
    BY <1>1, <1>2, <1>8 DEF Finalize, IInv, Senders
  <2>2. CalmStep(p)
    BY <1>8, CalmSteps DEF Finalize
  <2>3. CASE outbox' = outbox
    BY <2>1, <2>2, <2>3, CalmOnlyStep
  <2>4. CASE /\ OwnsOutbound(p)
             /\ outbox' = [outbox EXCEPT ![e].status = proc[p].receipt,
                             ![e].token = 0, ![e].lease = "null"]
    <3> DEFINE o == [outbox[e] EXCEPT !.status = proc[p].receipt, !.token = 0,
                                      !.lease = "null"]
    <3>1. outbox[e].status = "accepted"
      BY <2>4 DEF OwnsOutbound
    <3>2. /\ o \in Outbox /\ o.status = proc[p].receipt /\ o.lease = "null"
          /\ o.attempts = outbox[e].attempts
      BY <2>1
    <3>3. Rows(e)
      BY <2>1 DEF IInv
    <3>4. outbox' = [outbox EXCEPT ![e] = o] /\ inbox' = [inbox EXCEPT ![e] = inbox[e]]
      BY <1>1, <2>1, <2>4
    <3> HIDE DEF o, e
    <3> QED
      BY <2>1, <2>2, <3>1, <3>2, <3>3, <3>4, CalmRowStep DEF Rows
  <2> QED
    BY <1>8, <2>3, <2>4 DEF Finalize
<1>9. ASSUME NEW reply \in {"ok", "failed"}, NEW taken \in 0..1,
             HeartbeatOutbound(p, reply, taken)
      PROVE  IInv'
  <2>1. /\ UNCHANGED <<conn, userActive, inbox, outbox, up, overtaken>>
        /\ e \in Events /\ received \in [Events -> Nat]
        /\ received' = [received EXCEPT ![e] = @ + taken]
        /\ CalmStep(p)
    BY <1>2, <1>9, CalmSteps DEF HeartbeatOutbound, IInv, TypeOK
  <2>2. CASE proc[p].pc = "calling"
    <3>1. PICK r \in Proc: Calm(r) /\ proc' = [proc EXCEPT ![p] = r]
      BY <2>1 DEF CalmStep
    <3> QED
      BY <2>1, <2>2, <3>1, CallEnds
  <2>3. CASE proc[p].pc # "calling"
    <3>1. taken = 0
      BY <1>9, <2>3 DEF HeartbeatOutbound
    <3>2. received' = received
      BY <2>1, <3>1
    <3> QED
      BY <2>1, <3>2, CalmOnlyStep
  <2> QED
    BY <2>2, <2>3
<1> QED
  BY <1>3, <1>4, <1>5, <1>6, <1>7, <1>8, <1>9 DEF DeliveryStep

\* Submitted events get queued tasks.
LEMMA SubmitCalm ==
    ASSUME IInv, NEW h \in Hosts, NEW es \in SUBSET Events, Submit(h, es)
    PROVE  /\ proc' \in [Procs -> Proc]
           /\ \A q \in Procs: proc'[q] = proc[q] \/ Calm(proc'[q])
<1>1. PICK new \in SUBSET Events:
        proc' = [p \in Procs |->
                   IF p[1] = h /\ p[2] \in new
                   THEN [Gone EXCEPT !.pc = "queued", !.event = p[2]]
                   ELSE proc[p]]
  BY DEF Submit, Submitted
<1>2. ASSUME NEW q \in Procs
      PROVE  proc'[q] \in Proc /\ (proc'[q] = proc[q] \/ Calm(proc'[q]))
  <2>1. proc[q] \in Proc
    BY DEF IInv, TypeOK
  <2>2. CASE q[1] = h /\ q[2] \in new
    <3> DEFINE s == [Gone EXCEPT !.pc = "queued", !.event = q[2]]
    <3>1. proc'[q] = s
      BY <1>1, <2>2
    <3>2. s \in Proc /\ s.pc = "queued" /\ s.event = q[2] /\ q[2] \in Events
      BY <2>2, GoneCalm
    <3>3. Calm(s)
      BY <3>2 DEF Calm, SendPCs
    <3> QED
      BY <3>1, <3>2, <3>3
  <2> QED
    BY <1>1, <2>1, <2>2
<1>3. DOMAIN proc' = Procs /\ proc' = [q \in Procs |-> proc'[q]]
  BY <1>1
<1> QED
  BY <1>2, <1>3

\* Admission and the recovery of the inbox.
LEMMA AdmissionInv ==
    ASSUME IInv, NEW h \in Hosts,
           \/ \E e \in Events, reply \in Replies: Admit(h, e, reply)
           \/ RecoverInbox(h)
    PROVE  IInv'
<1>1. /\ inbox \in [Events -> Inbox] /\ proc \in [Procs -> Proc]
      /\ conn \in Connection
  BY DEF IInv, TypeOK
<1>2. ASSUME NEW e \in Events, NEW reply \in Replies, Admit(h, e, reply)
      PROVE  IInv'
  <2>1. UNCHANGED <<conn, userActive, outbox, up, received, overtaken>>
    BY <1>2 DEF Admit
  <2>2. /\ proc' \in [Procs -> Proc]
        /\ \A q \in Procs: proc'[q] = proc[q] \/ Calm(proc'[q])
    BY <1>1, <1>2, SubmitCalm DEF Admit
  <2> DEFINE i == [NoInbox EXCEPT !.status = "pending", !.revision = conn.revision]
  <2>3. conn.revision \in 0..MaxRevision
    BY <1>1, ChannelAssumption
  <2>4. /\ i \in Inbox /\ i.status = "pending" /\ i.lease = "null"
        /\ i.revision = conn.revision
    BY <2>3, NoRows
  <2> HIDE DEF i
  <2>5. \/ inbox' = inbox
        \/ inbox[e].status = "absent" /\ inbox' = [inbox EXCEPT ![e] = i]
    BY <1>2 DEF Admit, i
  <2>6. inbox' \in [Events -> Inbox]
    BY <1>1, <2>4, <2>5
  <2>7. TypeOK'
    BY <2>1, <2>2, <2>6 DEF IInv, TypeOK
  <2>8. ASSUME NEW f \in Events PROVE Rows(f)'
    <3>1. Rows(f)
      BY DEF IInv
    <3>2. inbox'[f] = inbox[f] \/ (inbox[f].status = "absent" /\ inbox'[f] = i)
      BY <1>1, <2>5
    <3> QED
      BY <2>1, <2>3, <2>4, <3>1, <3>2 DEF Rows
  <2>9. \A f \in Events: inbox[f].status # "absent" =>
           inbox'[f].status # "absent" /\ inbox'[f].revision = inbox[f].revision
    BY <1>1, <2>5
  <2> QED
    BY <2>1, <2>2, <2>7, <2>8, <2>9, QuietStep
<1>3. CASE RecoverInbox(h)
  <2>1. UNCHANGED <<conn, userActive, inbox, outbox, up, received, overtaken>>
    BY <1>3 DEF RecoverInbox
  <2>2. /\ proc' \in [Procs -> Proc]
        /\ \A q \in Procs: proc'[q] = proc[q] \/ Calm(proc'[q])
    BY <1>3, SubmitCalm DEF RecoverInbox
  <2>3. TypeOK'
    BY <2>1, <2>2 DEF IInv, TypeOK
  <2>4. ASSUME NEW f \in Events PROVE Rows(f)'
    BY <2>1 DEF IInv, Rows
  <2> QED
    BY <2>1, <2>2, <2>3, <2>4, QuietStep
<1> QED
  BY <1>2, <1>3

\* A host that stops: of the calls under way at most one is for this event.
LEMMA StopInv ==
    ASSUME IInv, NEW h \in Hosts, Stop(h)
    PROVE  IInv'
<1>1. PICK out \in SUBSET {p \in Procs: p[1] = h /\ proc[p].pc = "calling"}:
         received' = [e \in Events |->
                        received[e] + Cardinality({p \in out: proc[p].event = e})]
  BY DEF Stop
<1>2. /\ UNCHANGED <<conn, userActive, inbox, outbox, overtaken>>
      /\ up' \subseteq up
      /\ proc' = [p \in Procs |-> IF p[1] = h THEN Gone ELSE proc[p]]
  BY DEF Stop
<1>3. ASSUME NEW e \in Events
      PROVE  \/ received'[e] = received[e]
             \/ /\ received'[e] = 1 /\ received[e] = 0 /\ outbox[e].attempts = 1
                /\ e \notin overtaken
                /\ \E p \in Procs: /\ p[1] = h /\ proc[p].pc = "calling"
                                   /\ proc[p].event = e
  <2> DEFINE S == {p \in out: proc[p].event = e}
  <2>1. received'[e] = received[e] + Cardinality(S) /\ received[e] \in Nat
    BY <1>1 DEF IInv, TypeOK
  <2>2. CASE S = {}
    <3> HIDE DEF S
    <3>1. Cardinality(S) = 0
      BY <2>2, FS_EmptySet
    <3> QED
      BY <2>1, <3>1
  <2>3. ASSUME NEW p \in S
        PROVE  /\ received'[e] = 1 /\ received[e] = 0 /\ outbox[e].attempts = 1
               /\ e \notin overtaken
               /\ p \in Procs /\ p[1] = h /\ proc[p].pc = "calling"
               /\ proc[p].event = e
    <3>1. \A q \in S: /\ q \in Procs /\ q[1] = h /\ proc[q].pc = "calling"
                      /\ proc[q].event = e
      OBVIOUS
    <3>2. \A q \in S: q = p
      BY <3>1 DEF IInv, Senders, Sending, SendPCs
    <3>3. S = {p}
      BY <3>2
    <3>4. Cardinality(S) = 1
      BY <3>3, FS_Singleton
    <3>5. received[e] = 0 /\ outbox[e].attempts = 1
      BY <3>1 DEF IInv, Senders, Sending, SendPCs
    <3>6. e \notin overtaken
      BY <3>1 DEF IInv, Overtaken
    <3> HIDE DEF S
    <3> QED
      BY <2>1, <3>1, <3>4, <3>5, <3>6
  <2>4. S = {} \/ \E p \in S: TRUE
    OBVIOUS
  <2> HIDE DEF S
  <2>5. CASE \E p \in S: TRUE
    <3>1. PICK p \in S: TRUE
      BY <2>5
    <3> QED
      BY <2>3, <3>1
  <2> QED
    BY <2>2, <2>4, <2>5
<1>4. \A q \in Procs: proc'[q] = IF q[1] = h THEN Gone ELSE proc[q]
  BY <1>2
<1>5. TypeOK'
  <2>1. proc' \in [Procs -> Proc]
    BY <1>2, GoneCalm DEF IInv, TypeOK
  <2>2. \A e \in Events: received'[e] \in Nat
    BY <1>3 DEF IInv, TypeOK
  <2>3. received' \in [Events -> Nat]
    BY <1>1, <2>2
  <2> QED
    BY <1>2, <2>1, <2>3 DEF IInv, TypeOK
<1>6. Senders'
  <2>1. ASSUME NEW q \in Procs, proc'[q].pc \in {"rechecking", "calling"}
        PROVE  received'[proc'[q].event] = 0
    <3>1. proc'[q] = proc[q] /\ q[1] # h
      BY <1>4, <2>1, GoneCalm
    <3>2. proc[q].event \in Events /\ received[proc[q].event] = 0
      BY <2>1, <3>1 DEF IInv, Senders
    <3>3. \A p \in Procs: proc[p].pc = "calling" /\ proc[p].event = proc[q].event => p = q
      BY <2>1, <3>1 DEF IInv, Senders, Sending, SendPCs
    <3> QED
      BY <1>3, <3>1, <3>2, <3>3
  <2>2. \A q \in Procs: proc'[q].pc = "none" \/ proc'[q] = proc[q]
    BY <1>4, GoneCalm
  <2> QED
    BY <1>2, <2>1, <2>2 DEF IInv, Senders, Sending, SendPCs
<1>7. ASSUME NEW e \in Events PROVE Rows(e)' /\ Received(e)'
  <2>1. Rows(e) /\ Received(e)
    BY DEF IInv
  <2>2. outbox[e].attempts \in 0..1 /\ received[e] \in Nat
    BY DEF IInv, TypeOK
  <2> QED
    BY <1>2, <1>3, <2>1, <2>2 DEF Rows, Received
<1>8. ASSUME NEW e \in overtaken PROVE Overtaken(e)'
  <2>1. Overtaken(e) /\ e \in Events
    BY DEF IInv, TypeOK
  <2>2. received'[e] = 0
    BY <1>3, <2>1 DEF Overtaken
  <2> QED
    BY <1>2, <1>4, <2>1, <2>2, GoneCalm DEF Overtaken
<1> QED
  BY <1>2, <1>5, <1>6, <1>7, <1>8 DEF IInv

\* The steps of a host outside its coroutines.
LEMMA HostInv ==
    ASSUME IInv, NEW h \in Hosts, HostStep(h)
    PROVE  IInv'
<1>1. CASE RecoverOutbox(h)
  <2> DEFINE p == <<h, Operator>>
             s == [Gone EXCEPT !.pc = "next", !.todo = ListUnattempted]
  <2>1. /\ p \in Procs
        /\ UNCHANGED <<conn, userActive, inbox, outbox, up, received, overtaken>>
    BY <1>1 DEF RecoverOutbox, Procs
  <2>2. ListUnattempted \in SUBSET Events
    BY DEF ListUnattempted
  <2>3. s \in Proc /\ s.pc = "next"
    BY <2>2, GoneCalm
  <2>4. Calm(s)
    BY <2>3 DEF Calm, SendPCs
  <2>5. proc' = [proc EXCEPT ![p] = s]
    BY <1>1 DEF RecoverOutbox, Set
  <2>6. CalmStep(p)
    <3> HIDE DEF s
    <3> QED
      BY <2>3, <2>4, <2>5 DEF CalmStep
  <2> HIDE DEF p
  <2> QED
    BY <2>1, <2>6, CalmOnlyStep
<1>2. CASE Start(h)
  <2>1. UNCHANGED <<conn, userActive, inbox, outbox, proc, received, overtaken>>
    BY <1>2 DEF Start
  <2>2. TypeOK'
    BY <1>2, <2>1 DEF IInv, TypeOK, Start
  <2>3. ASSUME NEW f \in Events PROVE Rows(f)'
    BY <2>1 DEF IInv, Rows
  <2> QED
    BY <2>1, <2>2, <2>3, QuietStep
<1> QED
  BY <1>1, <1>2, AdmissionInv, StopInv DEF HostStep

\* The environment: a revocation overtakes the events whose reply is neither
\* sent nor being sent; time makes leases expire.
LEMMA EnvironmentInv ==
    ASSUME IInv, Environment
    PROVE  IInv'
<1>1. /\ inbox \in [Events -> Inbox] /\ outbox \in [Events -> Outbox]
      /\ conn \in Connection
  BY DEF IInv, TypeOK
<1>2. CASE SetConnectionEnabled
  <2>1. UNCHANGED <<userActive, inbox, outbox, up, proc, received>>
    BY <1>2 DEF SetConnectionEnabled
  <2>2. /\ conn' \in Connection /\ conn'.revision = conn.revision + 1
        /\ conn.revision \in Nat
    BY <1>1, <1>2, ChannelAssumption DEF SetConnectionEnabled
  <2>3. overtaken' \subseteq Events
    BY <1>2 DEF SetConnectionEnabled, IInv, TypeOK
  <2>4. TypeOK'
    BY <2>1, <2>2, <2>3 DEF IInv, TypeOK
  <2>5. Senders'
    BY <2>1 DEF IInv, Senders, Sending
  <2>6. ASSUME NEW e \in Events
        PROVE  Rows(e)' /\ Received(e)' /\ inbox[e].revision < conn'.revision
    <3>1. inbox[e].revision \in Nat
      BY <1>1, ChannelAssumption
    <3>2. Rows(e) /\ Received(e)
      BY DEF IInv
    <3> QED
      BY <2>1, <2>2, <3>1, <3>2 DEF Rows, Received
  <2>7. ASSUME NEW e \in overtaken' PROVE Overtaken(e)'
    <3>1. e \in Events
      BY <2>3, <2>7
    <3>2. /\ inbox[e].status # "absent" /\ received[e] = 0
          /\ \A p \in Procs: ~(proc[p].pc = "calling" /\ proc[p].event = e)
      BY <1>2, <2>7 DEF SetConnectionEnabled, IInv, Overtaken
    <3> QED
      BY <2>1, <2>6, <3>1, <3>2 DEF Overtaken
  <2> QED
    BY <2>4, <2>5, <2>6, <2>7 DEF IInv
<1>3. CASE SetUserActive
  <2>1. UNCHANGED <<conn, inbox, outbox, up, proc, received, overtaken>>
    BY <1>3 DEF SetUserActive
  <2>2. TypeOK'
    BY <1>3, <2>1 DEF IInv, TypeOK, SetUserActive
  <2>3. ASSUME NEW f \in Events PROVE Rows(f)'
    BY <2>1 DEF IInv, Rows
  <2> QED
    BY <2>1, <2>2, <2>3, QuietStep
<1>4. CASE Quarantine
  <2>1. UNCHANGED <<conn, userActive, inbox, up, proc, received, overtaken>>
    BY <1>4 DEF Quarantine
  <2>2. ASSUME NEW f \in Events
        PROVE  /\ outbox'[f] \in Outbox /\ outbox'[f].attempts = outbox[f].attempts
               /\ \/ outbox'[f] = outbox[f]
                  \/ /\ outbox[f].status = "accepted" /\ outbox'[f].status = "unknown"
                     /\ outbox'[f].lease = "null"
    <3>1. outbox[f] \in Outbox
      BY <1>1
    <3> DEFINE o == [outbox[f] EXCEPT !.status = "unknown", !.token = 0, !.lease = "null"]
    <3>2. /\ o \in Outbox /\ o.attempts = outbox[f].attempts
          /\ o.status = "unknown" /\ o.lease = "null"
      BY <3>1
    <3>3. outbox'[f] = outbox[f] \/ (outbox[f].status = "accepted" /\ outbox'[f] = o)
      BY <1>4 DEF Quarantine
    <3> HIDE DEF o
    <3> QED
      BY <3>1, <3>2, <3>3
  <2>3. outbox' \in [Events -> Outbox]
    <3>1. outbox' = [f \in Events |-> outbox'[f]]
      BY <1>4 DEF Quarantine
    <3> QED
      BY <2>2, <3>1
  <2>4. TypeOK'
    BY <2>1, <2>3 DEF IInv, TypeOK
  <2>5. ASSUME NEW f \in Events PROVE Rows(f)'
    <3>1. Rows(f)
      BY DEF IInv
    <3> QED
      BY <2>1, <2>2, <3>1 DEF Rows
  <2> QED
    BY <2>1, <2>2, <2>4, <2>5, QuietStep
<1>5. ASSUME NEW e \in Events, InboundExpires(e) PROVE IInv'
  <2> DEFINE i == [inbox[e] EXCEPT !.lease = "expired"]
  <2>1. UNCHANGED <<conn, userActive, outbox, up, proc, received, overtaken>>
    BY <1>5 DEF InboundExpires
  <2>2. /\ i \in Inbox /\ i.status = inbox[e].status
        /\ i.revision = inbox[e].revision
    BY <1>1
  <2>3. inbox' = [inbox EXCEPT ![e] = i] /\ inbox[e].lease = "live"
    BY <1>1, <1>5 DEF InboundExpires
  <2> HIDE DEF i
  <2>4. /\ inbox' \in [Events -> Inbox] /\ inbox'[e] = i
        /\ \A f \in Events \ {e}: inbox'[f] = inbox[f]
    BY <1>1, <2>2, <2>3
  <2>5. TypeOK'
    BY <2>1, <2>4 DEF IInv, TypeOK
  <2>6. ASSUME NEW f \in Events PROVE Rows(f)'
    <3>1. Rows(f)
      BY DEF IInv
    <3> QED
      BY <2>1, <2>2, <2>3, <2>4, <3>1 DEF Rows
  <2>7. \A f \in Events: inbox'[f].status = inbox[f].status
                         /\ inbox'[f].revision = inbox[f].revision
    BY <2>2, <2>4
  <2> QED
    BY <2>1, <2>5, <2>6, <2>7, QuietStep
<1>6. ASSUME NEW e \in Events, OutboundExpires(e) PROVE IInv'
  <2> DEFINE o == [outbox[e] EXCEPT !.lease = "expired"]
  <2>1. UNCHANGED <<conn, userActive, inbox, up, proc, received, overtaken>>
    BY <1>6 DEF OutboundExpires
  <2>2. /\ o \in Outbox /\ o.status = outbox[e].status
        /\ o.attempts = outbox[e].attempts
    BY ZenonT(60), <1>1
  <2>3. outbox' = [outbox EXCEPT ![e] = o] /\ outbox[e].lease = "live"
    BY <1>1, <1>6 DEF OutboundExpires
  <2> HIDE DEF o
  <2>4. /\ outbox' \in [Events -> Outbox] /\ outbox'[e] = o
        /\ \A f \in Events \ {e}: outbox'[f] = outbox[f]
    BY <1>1, <2>2, <2>3
  <2>5. TypeOK'
    BY <2>1, <2>4 DEF IInv, TypeOK
  <2>6. ASSUME NEW f \in Events PROVE Rows(f)'
    <3>1. Rows(f)
      BY DEF IInv
    <3> QED
      BY <2>1, <2>2, <2>3, <2>4, <3>1 DEF Rows
  <2>7. \A f \in Events: outbox'[f].attempts = outbox[f].attempts
    BY <2>2, <2>4
  <2> QED
    BY <2>1, <2>5, <2>6, <2>7, QuietStep
<1> QED
  BY <1>2, <1>3, <1>4, <1>5, <1>6 DEF Environment

\* Every step of the channel preserves the invariant.
LEMMA NextInv == IInv /\ [Next]_vars => IInv'
<1> SUFFICES ASSUME IInv, [Next]_vars PROVE IInv'
  OBVIOUS
<1>1. CASE UNCHANGED vars
  BY <1>1 DEF IInv, TypeOK, Senders, Sending, Rows, Received, Overtaken, vars
<1> QED
  BY <1>1, ExecutionInv, DeliveryInv, HostInv, EnvironmentInv DEF Next

-----------------------------------------------------------------------------
(* The theorems. *)

\* The inductive invariant of the channels.
THEOREM ChannelInvariant == Spec => []IInv
  BY InitInv, NextInv, PTL DEF Spec

\* Rows, coroutines and histories always have their types.
THEOREM ChannelTypes == Spec => []TypeOK
<1>1. IInv => TypeOK
  BY DEF IInv
<1> QED
  BY <1>1, ChannelInvariant, PTL

\* The provider takes the reply to an event at most once: claim_outbound's
\* reservation is made once, has one holder, and only the holder's call sends.
THEOREM ChannelSentAtMostOnce == Spec => []SentAtMostOnce
<1>1. IInv => SentAtMostOnce
  BY DEF IInv, Received, SentAtMostOnce
<1> QED
  BY <1>1, ChannelInvariant, PTL

\* A revocation that comes before the call to the provider keeps the reply from
\* being sent for good: attempt compares the connection's revision with the one
\* of the admission, and revisions only grow.
THEOREM ChannelRevokedNeverSent == Spec => []RevokedNeverSent
<1>1. IInv => RevokedNeverSent
  BY DEF IInv, Overtaken, RevokedNeverSent
<1> QED
  BY <1>1, ChannelInvariant, PTL

\* A reply is staged exactly for the events whose chat turn was completed under
\* a claim that was kept (complete_and_stage_delivery).
THEOREM ChannelAnswerMatchesInbox == Spec => []AnswerMatchesInbox
<1>1. IInv => AnswerMatchesInbox
  BY DEF IInv, Rows, AnswerMatchesInbox
<1> QED
  BY <1>1, ChannelInvariant, PTL

\* A step leaves settled rows alone.
Settled(e) ==
    /\ inbox[e].status \in {"completed", "failed"} => inbox'[e] = inbox[e]
    /\ outbox[e].status \in {"sent", "failed", "unknown"} => outbox'[e] = outbox[e]

\* A step that rewrites an inbox row rewrites a missing, pending or processing
\* one, and a step that rewrites an outbox row a missing or accepted one.
LEMMA SettledStep == IInv /\ [Next]_vars => \A e \in Events: Settled(e)
<1> SUFFICES ASSUME IInv, [Next]_vars, NEW e \in Events PROVE Settled(e)
  OBVIOUS
<1>1. /\ inbox \in [Events -> Inbox] /\ outbox \in [Events -> Outbox]
      /\ proc \in [Procs -> Proc] /\ \A f \in Events: Rows(f)
  BY DEF IInv, TypeOK
<1>2. CASE UNCHANGED vars
  BY <1>2 DEF Settled, vars
<1>3. ASSUME NEW p \in Procs, ExecutionStep(p) PROVE Settled(e)
  <2> DEFINE f == proc[p].event
  <2>1. \/ inbox' = inbox
        \/ /\ inbox[f].status \in {"pending", "processing"}
           /\ \A g \in Events \ {f}: inbox'[g] = inbox[g]
    <3>1. ASSUME NEW reply \in Replies, ClaimInbound(p, reply)
          PROVE  \/ inbox' = inbox
                 \/ /\ Claimable(f)
                    /\ inbox' = [inbox EXCEPT ![f].status = "processing",
                                   ![f].token = NewToken, ![f].lease = "live"]
      BY <3>1 DEF ClaimInbound
    <3>2. ASSUME NEW reply \in Replies, Commit(p, reply)
          PROVE  \/ inbox' = inbox
                 \/ /\ OwnsInbound(p)
                    /\ inbox' = [inbox EXCEPT ![f].status = "completed",
                                   ![f].token = 0, ![f].lease = "null"]
      BY <3>2 DEF Commit
    <3>3. ASSUME NEW reply \in Replies, FailInbound(p, reply)
          PROVE  \/ inbox' = inbox
                 \/ /\ OwnsInbound(p)
                    /\ inbox' = [inbox EXCEPT ![f].status = "failed",
                                   ![f].token = 0, ![f].lease = "null"]
      BY <3>3 DEF FailInbound
    <3>4. ASSUME \/ \E reply \in Replies: LoadMessage(p, reply)
                 \/ \E answered \in BOOLEAN: Chat(p, answered)
                 \/ \E reply \in {"ok", "failed"}: HeartbeatInbound(p, reply)
          PROVE  inbox' = inbox
      BY <3>4 DEF LoadMessage, Chat, HeartbeatInbound
    <3> QED
      BY <1>1, <1>3, <3>1, <3>2, <3>3, <3>4
      DEF ExecutionStep, Claimable, OwnsInbound
  <2>2. \/ outbox' = outbox
        \/ /\ outbox[f].status = "absent"
           /\ \A g \in Events \ {f}: outbox'[g] = outbox[g]
    <3>1. ASSUME NEW reply \in Replies, Commit(p, reply)
          PROVE  \/ outbox' = outbox
                 \/ /\ OwnsInbound(p)
                    /\ outbox' = [outbox EXCEPT ![f] =
                                    [NoOutbox EXCEPT !.status = "accepted"]]
      BY <3>1 DEF Commit
    <3>2. ASSUME NEW reply \in Replies, Commit(p, reply) PROVE f \in Events
      BY <3>2 DEF Commit, IInv, Senders
    <3> QED
      BY ZenonT(60), <1>1, <1>3, <3>1, <3>2
      DEF ExecutionStep, ClaimInbound, LoadMessage, Chat, FailInbound,
          HeartbeatInbound, OwnsInbound, Rows
  <2> HIDE DEF f
  <2> QED
    BY <1>1, <2>1, <2>2 DEF Settled
<1>4. ASSUME NEW p \in Procs, DeliveryStep(p) PROVE Settled(e)
  <2> DEFINE f == proc[p].event
  <2>1. inbox' = inbox
    BY <1>4 DEF DeliveryStep, NextDelivery, Preflight, ClaimOutbound, Recheck,
                Send, Finalize, HeartbeatOutbound
  <2>2. \/ outbox' = outbox
        \/ /\ outbox[f].status = "accepted"
           /\ \A g \in Events \ {f}: outbox'[g] = outbox[g]
    <3>1. ASSUME NEW reply \in Replies, ClaimOutbound(p, reply)
          PROVE  \/ outbox' = outbox
                 \/ /\ Unattempted(outbox[f])
                    /\ outbox' = [outbox EXCEPT ![f].token = NewToken,
                                    ![f].lease = "live", ![f].attempts = 1]
      BY <3>1 DEF ClaimOutbound
    <3>2. ASSUME NEW reply \in Replies, Finalize(p, reply)
          PROVE  \/ outbox' = outbox
                 \/ /\ OwnsOutbound(p)
                    /\ outbox' = [outbox EXCEPT ![f].status = proc[p].receipt,
                                    ![f].token = 0, ![f].lease = "null"]
      BY <3>2 DEF Finalize
    <3> QED
      BY <1>1, <1>4, <3>1, <3>2
      DEF DeliveryStep, NextDelivery, Preflight, Recheck, Send,
          HeartbeatOutbound, Unattempted, OwnsOutbound
  <2> HIDE DEF f
  <2> QED
    BY <1>1, <2>1, <2>2 DEF Settled
<1>5. ASSUME NEW h \in Hosts, HostStep(h) PROVE Settled(e)
  <2>1. outbox' = outbox
    BY <1>5 DEF HostStep, Admit, RecoverInbox, RecoverOutbox, Start, Stop
  <2>2. ASSUME NEW f \in Events, NEW reply \in Replies, Admit(h, f, reply)
        PROVE  inbox[e].status = "absent" \/ inbox'[e] = inbox[e]
    BY <1>1, <2>2 DEF Admit
  <2>3. inbox[e].status = "absent" \/ inbox'[e] = inbox[e]
    BY <1>5, <2>2 DEF HostStep, RecoverInbox, RecoverOutbox, Start, Stop
  <2> QED
    BY <2>1, <2>3 DEF Settled
<1>6. CASE Environment
  <2>1. inbox'[e] = inbox[e] \/ inbox[e].lease = "live"
    BY <1>1, <1>6 DEF Environment, SetConnectionEnabled, SetUserActive, Quarantine,
                      InboundExpires, OutboundExpires
  <2>2. outbox'[e] = outbox[e] \/ outbox[e].lease = "live"
        \/ outbox[e].status = "accepted"
    BY ZenonT(60), <1>1, <1>6 DEF Environment, SetConnectionEnabled, SetUserActive, Quarantine,
                      InboundExpires, OutboundExpires
  <2> QED
    BY <1>1, <2>1, <2>2 DEF Settled, Rows
<1> QED
  BY <1>2, <1>3, <1>4, <1>5, <1>6 DEF Next

\* No duplicate of an event, late execution or late answer of the provider
\* rewrites a settled event or a settled reply.
THEOREM ChannelSettledStays == Spec => SettledStays
<1>1. IInv /\ [Next]_vars =>
        [\A e \in Events:
            /\ inbox[e].status \in {"completed", "failed"} => inbox'[e] = inbox[e]
            /\ outbox[e].status \in {"sent", "failed", "unknown"} =>
                  outbox'[e] = outbox[e]]_vars
  BY SettledStep DEF Settled
<1> QED
  BY <1>1, ChannelInvariant, PTL DEF Spec, SettledStays

=============================================================================
