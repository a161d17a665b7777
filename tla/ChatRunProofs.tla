--------------------------- MODULE ChatRunProofs ---------------------------
(***************************************************************************)
(* The safety of durable chat runs, for any runs, requests, journal bound  *)
(* and faults.                                                             *)
(***************************************************************************)
EXTENDS ChatRun, TLAPS

\* Where a request is once nothing of the answer can follow.
Quiet == {"reporting", "closing", "settling", "ended"}

\* A request that has no run yet has left no trace; a request that records a
\* cancellation has closed the generator.
ReqShape(q) ==
    /\ req[q].pc # "idle" => req[q].run \in Runs
    /\ req[q].pc \in {"idle", "admitting", "starting"} => req[q].up = "off"
    /\ req[q].pc \in {"idle", "admitting"} =>
          /\ q \notin saved \cup memory \cup acked
          /\ wire[q] = {}
          /\ \A x \in Runs: run[x].exec # q
    /\ req[q].pc = "settling" => req[q].up = "closed"

\* A row on record belongs to the request that was admitted with it.
RowShape(x) ==
    /\ run[x].status = "absent" => run[x].exec = None /\ journal[x] = <<>>
    /\ run[x].status # "absent" => run[x].exec \in Requests
    /\ run[x].exec \in Requests => req[run[x].exec].run = x
    /\ run[x].status = "cancelled" => req[run[x].exec].up = "closed"

\* Success is a row's "completed", for every trace that success leaves.
Succeeded(x, q) ==
    run[x].exec = q =>
        /\ run[x].status = "completed" <=> q \in saved
        /\ q \in memory \/ "finished" \in wire[q] \/ req[q].up = "saved" =>
              run[x].status = "completed"

\* A request whose stop was answered has left no success, and its run, while on
\* record, can neither run nor complete any more.
StopStands(q) ==
    q \in acked =>
        /\ q \notin saved \cup memory
        /\ "finished" \notin wire[q]
        /\ req[q].up # "saved"
        /\ \A x \in Runs: run[x].exec = q => run[x].status \notin {"running", "completed"}

\* The journal's terminal event agrees with the run's status and is its last
\* event, and the request that could append to it has nothing to say.
JournalShape(x) ==
    \A i \in 1..Len(journal[x]):
        /\ journal[x][i] = "finished" => run[x].status = "completed"
        /\ journal[x][i] = "error" =>
              run[x].status \in {"failed", "cancelled", "orphaned"}
        /\ journal[x][i] \in TerminalEvents =>
              /\ i = Len(journal[x])
              /\ req[run[x].exec].pc \in Quiet
              /\ req[run[x].exec].msg = "closed"

\* The inductive invariant.
IInv ==
    /\ TypeOK
    /\ journal \in [Runs -> Seq(Events)]
    /\ \A q \in Requests: ReqShape(q) /\ StopStands(q)
    /\ \A x \in Runs: RowShape(x) /\ JournalShape(x)
    /\ \A x \in Runs, q \in Requests: Succeeded(x, q)

USE DEF Active, Terminal, Row, Events, TerminalEvents, Chunks, Listening, Request

-----------------------------------------------------------------------------
(* The invariant holds initially. *)

\* Missing rows and idle requests have their types.
LEMMA NoRow == /\ AbsentRow \in Row /\ AbsentRow.status = "absent"
               /\ AbsentRow.exec = None
               /\ IdleRequest \in Request /\ IdleRequest.pc = "idle"
               /\ IdleRequest.up = "off" /\ IdleRequest.msg = "closed"
  BY DEF AbsentRow, IdleRequest

\* No run, no request.
LEMMA InitInv == Init => IInv
<1> SUFFICES ASSUME Init PROVE IInv
  OBVIOUS
<1>1. journal \in [Runs -> Seq(Events)] /\ \A x \in Runs: journal[x] = <<>>
  BY DEF Init
<1>2. TypeOK
  BY <1>1, NoRow, ChatRunAssumption DEF Init, TypeOK
<1>3. \A q \in Requests: ReqShape(q) /\ StopStands(q)
  BY NoRow, ChatRunAssumption DEF Init, ReqShape, StopStands
<1>4. ASSUME NEW x \in Runs PROVE RowShape(x) /\ JournalShape(x)
  <2>1. RowShape(x)
    BY <1>1, NoRow, ChatRunAssumption DEF Init, RowShape
  <2>2. Len(journal[x]) = 0
    BY <1>1
  <2>3. ~\E i \in 1..Len(journal[x]): TRUE
    BY <2>2
  <2> QED
    BY <2>1, <2>3 DEF JournalShape
<1>5. \A x \in Runs, q \in Requests: Succeeded(x, q)
  BY NoRow, ChatRunAssumption DEF Init, Succeeded
<1> QED
  BY <1>1, <1>2, <1>3, <1>4, <1>5 DEF IInv

-----------------------------------------------------------------------------
(* What a step of one request may do to the request. *)

\* The step changes request q alone, to r.
Becomes(q, r) == req' = [req EXCEPT ![q] = r]

\* A request that was admitted goes on with its run: a closed generator stays
\* closed, only a commit gives it a known success, and a quiet request with no
\* open message stays that.
GoesOn(q, r) ==
    /\ req[q].pc # "idle"
    /\ r.run = req[q].run
    /\ r.pc \notin {"idle", "admitting"}
    /\ r.pc = "starting" => r.up = "off"
    /\ r.pc = "settling" => r.up = "closed"
    /\ req[q].up = "closed" => r.up = "closed"
    /\ req[q].pc \in Quiet /\ req[q].msg = "closed" => r.pc \in Quiet /\ r.msg = "closed"

\* Other requests keep their state.
LEMMA BecomesOne ==
    ASSUME IInv, NEW q \in Requests, NEW r \in Request, Becomes(q, r)
    PROVE  /\ req' \in [Requests -> Request] /\ req'[q] = r
           /\ \A p \in Requests \ {q}: req'[p] = req[p]
  BY DEF IInv, TypeOK, Becomes

\* The request's own row, if it has one, is that of its run id; and a request
\* with a run is under way.
LEMMA OwnRow ==
    ASSUME IInv, NEW q \in Requests, NEW x \in Runs, run[x].exec = q
    PROVE  req[q].run = x /\ req[q].pc \notin {"idle", "admitting"}
  BY DEF IInv, RowShape, ReqShape

\* What an append does to a journal.
LEMMA AppendEvent ==
    ASSUME NEW S, NEW s \in Seq(S), NEW e \in S
    PROVE  /\ Append(s, e) \in Seq(S) /\ Len(s) \in Nat
           /\ Len(Append(s, e)) = Len(s) + 1
           /\ Append(s, e)[Len(s) + 1] = e
           /\ \A i \in 1..Len(s): Append(s, e)[i] = s[i]
  OBVIOUS

\* An append that the bound admits keeps to it.
LEMMA AppendBound ==
    ASSUME NEW S, NEW s \in Seq(S), NEW e \in S, Len(s) < MaxEvents
    PROVE  Len(Append(s, e)) <= MaxEvents
  BY AppendEvent, ChatRunAssumption

\* A journal and a row that stay, while its request stays quiet.
LEMMA JournalKept ==
    ASSUME NEW x, JournalShape(x), journal'[x] = journal[x], run'[x] = run[x],
           \A i \in 1..Len(journal[x]): journal[x][i] \in TerminalEvents =>
              req'[run[x].exec].pc \in Quiet /\ req'[run[x].exec].msg = "closed"
    PROVE  JournalShape(x)'
  BY DEF JournalShape

\* The fields of a request, one at a time.
LEMMA WithPc ==
    ASSUME NEW r \in Request, NEW pc \in Listening \cup
              {"idle", "admitting", "starting", "unstarted", "projecting",
               "checkStop", "finishing", "recheck", "closing", "settling",
               "delivering", "reporting", "ended"}
    PROVE  /\ [r EXCEPT !.pc = pc] \in Request
           /\ [r EXCEPT !.pc = pc].pc = pc
           /\ [r EXCEPT !.pc = pc].run = r.run
           /\ [r EXCEPT !.pc = pc].up = r.up
           /\ [r EXCEPT !.pc = pc].msg = r.msg
  BY SMTT(30)

\* The same for exit.
LEMMA WithExit ==
    ASSUME NEW r \in Request, NEW exit \in {"none", "stop", "failed", "gone"}
    PROVE  /\ [r EXCEPT !.exit = exit] \in Request
           /\ [r EXCEPT !.exit = exit].pc = r.pc
           /\ [r EXCEPT !.exit = exit].run = r.run
           /\ [r EXCEPT !.exit = exit].up = r.up
           /\ [r EXCEPT !.exit = exit].msg = r.msg
  BY SMTT(30)

\* A step of a request that leaves rows, transcript, memory and acknowledged
\* stops alone, and appends at most one event that the repository takes.
LEMMA RequestStep ==
    ASSUME IInv, NEW q \in Requests, NEW r \in Request, Becomes(q, r), GoesOn(q, r),
           r.up = "saved" => req[q].up = "saved",
           UNCHANGED <<run, saved, memory, acked>>, conv' \in {"present", "deleted"},
           \/ wire' = wire
           \/ \E e \in Events: /\ wire' = [wire EXCEPT ![q] = @ \cup {e}]
                               /\ e = "finished" => Allowed(q, e),
           \/ journal' = journal
           \/ \E e \in Events:
                 /\ Appendable(q, e)
                 /\ journal' = [journal EXCEPT ![req[q].run] = Append(@, e)]
                 /\ e = "end" => req[q].msg = "open"
                 /\ e \in TerminalEvents => r.pc \in Quiet /\ r.msg = "closed"
    PROVE  IInv'
<1>1. /\ req' \in [Requests -> Request] /\ req'[q] = r
      /\ \A p \in Requests \ {q}: req'[p] = req[p]
  BY BecomesOne
<1>2. /\ journal \in [Runs -> Seq(Events)] /\ wire \in [Requests -> SUBSET Events]
      /\ run \in [Runs -> Row] /\ req[q].run \in Runs
      /\ \A x \in Runs: Len(journal[x]) \in Nat /\ Len(journal[x]) <= MaxEvents
  BY SMTT(30) DEF IInv, TypeOK, ReqShape, GoesOn
<1> DEFINE x0 == req[q].run
<1>3. /\ wire' \in [Requests -> SUBSET Events]
      /\ \A p \in Requests \ {q}: wire'[p] = wire[p]
      /\ "finished" \in wire'[q] => "finished" \in wire[q] \/ Allowed(q, "finished")
  <2>1. ASSUME NEW e \in Events, wire' = [wire EXCEPT ![q] = @ \cup {e}],
               e = "finished" => Allowed(q, e)
        PROVE  /\ wire' \in [Requests -> SUBSET Events]
               /\ \A p \in Requests \ {q}: wire'[p] = wire[p]
               /\ "finished" \in wire'[q] =>
                     "finished" \in wire[q] \/ Allowed(q, "finished")
    <3>1. wire'[q] = wire[q] \cup {e} /\ \A p \in Requests \ {q}: wire'[p] = wire[p]
      BY <1>2, <2>1
    <3>2. wire' \in [Requests -> SUBSET Events]
      BY <1>2, <2>1
    <3> QED
      BY <2>1, <3>1, <3>2
  <2> QED
    BY <1>2, <2>1
<1>4. Allowed(q, "finished") => run[x0].exec = q /\ run[x0].status = "completed"
  BY DEF Allowed, Mine
<1>5. /\ journal' \in [Runs -> Seq(Events)]
      /\ \A x \in Runs \ {x0}: journal'[x] = journal[x]
      /\ \/ journal'[x0] = journal[x0]
         \/ \E e \in Events: /\ Appendable(q, e)
                             /\ journal'[x0] = Append(journal[x0], e)
                             /\ e = "end" => req[q].msg = "open"
                             /\ e \in TerminalEvents => r.pc \in Quiet /\ r.msg = "closed"
  <2>1. CASE journal' = journal
    BY <1>2, <2>1
  <2>2. ASSUME NEW e \in Events, journal' = [journal EXCEPT ![x0] = Append(@, e)]
        PROVE  /\ journal' \in [Runs -> Seq(Events)]
               /\ \A x \in Runs \ {x0}: journal'[x] = journal[x]
               /\ journal'[x0] = Append(journal[x0], e)
    <3> HIDE DEF Events
    <3>1. Append(journal[x0], e) \in Seq(Events)
      BY <1>2, AppendEvent
    <3> QED
      BY <1>2, <2>2, <3>1
  <2> HIDE DEF Events, TerminalEvents
  <2> QED
    BY <2>1, <2>2
<1>6. \A x \in Runs: journal'[x] \in Seq(Events) /\ Len(journal'[x]) <= MaxEvents
  <2>1. ASSUME NEW e \in Events, Appendable(q, e)
        PROVE  Len(Append(journal[x0], e)) <= MaxEvents
    <3>1. Len(journal[x0]) < MaxEvents
      BY <2>1 DEF Appendable
    <3> HIDE DEF Events
    <3> QED
      BY <1>2, <3>1, AppendBound
  <2> QED
    BY <1>2, <1>5, <2>1
<1>7. TypeOK'
  BY <1>1, <1>3, <1>6 DEF IInv, TypeOK
<1>8. ASSUME NEW p \in Requests PROVE ReqShape(p)'
  <2>1. ReqShape(p)
    BY DEF IInv
  <2>2. CASE p = q
    BY <1>1, <1>2, <2>2 DEF ReqShape, GoesOn
  <2>3. CASE p # q
    <3>1. req'[p] = req[p] /\ wire'[p] = wire[p]
      BY <1>1, <1>3, <2>3
    <3> QED
      BY <2>1, <3>1 DEF ReqShape
  <2> QED
    BY <2>2, <2>3
<1>9. ASSUME NEW p \in Requests PROVE StopStands(p)'
  <2>1. StopStands(p)
    BY DEF IInv
  <2>2. CASE p # q
    BY SMTT(30), <1>1, <1>3, <2>1, <2>2 DEF StopStands
  <2>3. CASE p = q
    <3>1. q \in acked => "finished" \notin wire'[q]
      BY <1>2, <1>3, <1>4, <2>1, <2>3 DEF StopStands
    <3> QED
      BY <1>1, <2>1, <2>3, <3>1 DEF StopStands
  <2> QED
    BY <2>2, <2>3
<1>10. ASSUME NEW x \in Runs PROVE RowShape(x)'
  <2>1. RowShape(x)
    BY DEF IInv
  <2>2. run[x].status = "absent" => journal'[x] = <<>>
    <3>1. ASSUME NEW e \in Events, Appendable(q, e) PROVE run[x0].status # "absent"
      <4>1. RowShape(x0) /\ run[x0].exec = q
        BY <1>2, <3>1 DEF IInv, Appendable, Allowed, Mine
      <4> QED
        BY <4>1, ChatRunAssumption DEF RowShape
    <3> QED
      BY <1>5, <2>1, <3>1 DEF RowShape
  <2> QED
    BY SMTT(30), <1>1, <2>1, <2>2 DEF RowShape, GoesOn
<1>11. ASSUME NEW x \in Runs PROVE JournalShape(x)'
  <2>1. JournalShape(x) /\ RowShape(x)
    BY DEF IInv
  <2>2. \A i \in 1..Len(journal[x]): journal[x][i] \in TerminalEvents =>
          req'[run[x].exec].pc \in Quiet /\ req'[run[x].exec].msg = "closed"
    <3> SUFFICES ASSUME NEW i \in 1..Len(journal[x]), journal[x][i] \in TerminalEvents
                 PROVE  req'[run[x].exec].pc \in Quiet /\ req'[run[x].exec].msg = "closed"
      OBVIOUS
    <3>1. journal[x] # <<>>
      <4>1. ASSUME journal[x] = <<>> PROVE FALSE
        <5>1. Len(journal[x]) = 0
          BY SMTT(30), <4>1
        <5> QED
          BY SMTT(30), <5>1
      <4> QED
        BY <4>1
    <3>2. run[x].exec \in Requests
      BY <2>1, <3>1 DEF RowShape
    <3>3. req[run[x].exec].pc \in Quiet /\ req[run[x].exec].msg = "closed"
      BY <2>1 DEF JournalShape
    <3>4. CASE run[x].exec = q
      BY <1>1, <3>3, <3>4 DEF GoesOn
    <3>5. CASE run[x].exec # q
      BY <1>1, <3>2, <3>3, <3>5
    <3> QED
      BY <3>4, <3>5
  <2>3. CASE journal'[x] = journal[x]
    <3>1. run'[x] = run[x]
      OBVIOUS
    <3> QED
      BY <2>1, <2>2, <2>3, <3>1, JournalKept
  <2>4. ASSUME NEW e \in Events, x = x0, Appendable(q, e),
               journal'[x] = Append(journal[x], e),
               e = "end" => req[q].msg = "open",
               e \in TerminalEvents => r.pc \in Quiet /\ r.msg = "closed"
        PROVE  JournalShape(x)'
    <3>1. run[x].exec = q
      BY <2>4 DEF Appendable, Allowed, Mine
    <3>2. \A i \in 1..Len(journal[x]): journal[x][i] \notin TerminalEvents
      <4>1. CASE e \in TerminalEvents
        BY <2>4, <4>1 DEF Appendable
      <4>2. CASE e \notin TerminalEvents
        <5>1. run[x].status = "running" \/ (e = "end" /\ run[x].status = "completed")
          BY <2>4, <4>2 DEF Appendable, Allowed, Renewable
        <5> QED
          BY <2>1, <2>4, <3>1, <5>1 DEF JournalShape
      <4> QED
        BY <4>1, <4>2
    <3>3. /\ e = "finished" => run[x].status = "completed"
          /\ e = "error" => run[x].status \in {"failed", "cancelled", "orphaned"}
      BY <2>4 DEF Appendable, Allowed
    <3>4. /\ Len(journal'[x]) = Len(journal[x]) + 1
          /\ journal'[x][Len(journal[x]) + 1] = e
          /\ \A i \in 1..Len(journal[x]): journal'[x][i] = journal[x][i]
      <4> HIDE DEF Events
      <4> QED
        BY <1>2, <2>4, AppendEvent
    <3>5. ASSUME NEW i \in 1..Len(journal'[x])
          PROVE  /\ journal'[x][i] = "finished" => run[x].status = "completed"
                 /\ journal'[x][i] = "error" =>
                       run[x].status \in {"failed", "cancelled", "orphaned"}
                 /\ journal'[x][i] \in TerminalEvents =>
                       /\ i = Len(journal'[x])
                       /\ r.pc \in Quiet /\ r.msg = "closed"
      <4>1. i \in 1..Len(journal[x]) \/ i = Len(journal[x]) + 1
        BY SMTT(30), <1>2, <3>4
      <4>2. CASE i \in 1..Len(journal[x])
        BY <3>2, <3>4, <4>2
      <4>3. CASE i = Len(journal[x]) + 1
        BY <2>4, <3>3, <3>4, <4>3
      <4> QED
        BY <4>1, <4>2, <4>3
    <3> QED
      BY <1>1, <3>1, <3>5 DEF JournalShape
  <2> QED
    BY <1>5, <2>3, <2>4
<1>12. ASSUME NEW x \in Runs, NEW p \in Requests PROVE Succeeded(x, p)'
  <2>1. Succeeded(x, p)
    BY DEF IInv
  <2>2. run[x].exec = q => x = x0
    BY OwnRow
  <2> QED
    BY SMTT(30), <1>1, <1>3, <1>4, <2>1, <2>2 DEF Succeeded
<1> QED
  BY <1>5, <1>7, <1>8, <1>9, <1>10, <1>11, <1>12 DEF IInv

-----------------------------------------------------------------------------
(* The steps that only move their request. *)

\* A step of a request that leaves everything but the request alone.
LEMMA MoveStep ==
    ASSUME IInv, NEW q \in Requests, NEW r \in Request, Becomes(q, r), GoesOn(q, r),
           r.up = "saved" => req[q].up = "saved",
           UNCHANGED <<conv, run, journal, saved, memory, wire, acked>>
    PROVE  IInv'
<1>1. conv' \in {"present", "deleted"} /\ wire' = wire /\ journal' = journal
  BY DEF IInv, TypeOK
<1> QED
  BY <1>1, RequestStep

\* The request is over.
LEMMA EndedGoesOn ==
    ASSUME IInv, NEW q \in Requests, req[q].pc # "idle"
    PROVE  /\ Ended(q) \in Request /\ GoesOn(q, Ended(q))
           /\ Ended(q).up = "closed" /\ Ended(q).pc = "ended" /\ Ended(q).msg = "closed"
           /\ End(q) => Becomes(q, Ended(q))
  BY DEF IInv, TypeOK, Ended, IdleRequest, GoesOn, Quiet, End, Becomes

\* The request goes on at another place.
LEMMA GotoGoesOn ==
    ASSUME IInv, NEW q \in Requests, NEW pc, Goto(q, pc),
           req[q].pc \notin {"idle", "admitting"},
           pc \in {"waiting", "askCancel", "askCompleted", "unstarted", "projecting",
                   "checkStop", "finishing", "recheck", "closing", "delivering",
                   "reporting"},
           req[q].pc \in Quiet => pc \in Quiet
    PROVE  \E r \in Request: /\ Becomes(q, r) /\ GoesOn(q, r) /\ r.up = req[q].up
                             /\ r.pc = pc /\ r.msg = req[q].msg
<1> DEFINE r == [req[q] EXCEPT !.pc = pc]
<1>1. req[q] \in Request /\ req \in [Requests -> Request]
  BY DEF IInv, TypeOK
<1>2. r \in Request /\ r.up = req[q].up /\ r.pc = pc /\ r.msg = req[q].msg
      /\ r.run = req[q].run
  BY <1>1
<1>3. Becomes(q, r)
  BY <1>1 DEF Goto, Becomes
<1> HIDE DEF r
<1>4. GoesOn(q, r)
  BY <1>2 DEF GoesOn
<1> QED
  BY <1>2, <1>3, <1>4

\* The coordinator leaves its loop.
LEMMA LeaveGoesOn ==
    ASSUME IInv, NEW q \in Requests, NEW exit \in {"stop", "failed", "gone"}, Leave(q, exit),
           req[q].pc \notin {"idle", "admitting"}
    PROVE  \E r \in Request: Becomes(q, r) /\ GoesOn(q, r) /\ r.up = req[q].up
<1> DEFINE n == [req[q] EXCEPT !.pc = "closing"]
           r == [n EXCEPT !.exit = exit]
<1>1. req[q] \in Request /\ req \in [Requests -> Request]
  BY DEF IInv, TypeOK
<1>a. n \in Request /\ n.up = req[q].up /\ n.pc = "closing" /\ n.msg = req[q].msg
      /\ n.run = req[q].run
  <2> HIDE DEF Request
  <2> QED
    BY <1>1, WithPc
<1>2. r \in Request /\ r.up = req[q].up /\ r.pc = "closing" /\ r.msg = req[q].msg
      /\ r.run = req[q].run
  <2> HIDE DEF n
  <2> QED
    BY <1>a, WithExit
<1>3. Becomes(q, r)
  BY <1>1 DEF Leave, Becomes
<1> HIDE DEF r
<1>4. GoesOn(q, r)
  BY <1>2 DEF GoesOn, Quiet
<1> QED
  BY <1>2, <1>3, <1>4

\* Everything but the requests.
Rest == <<conv, run, journal, saved, memory, wire, acked>>

\* Ending, going on and leaving keep the invariant where nothing else changes.
LEMMA MoveInv ==
    ASSUME IInv, NEW q \in Requests, UNCHANGED Rest, req[q].pc \notin {"idle", "admitting"},
           \/ End(q)
           \/ \E exit \in {"stop", "failed", "gone"}: Leave(q, exit)
           \/ \E pc \in {"waiting", "askCancel", "askCompleted", "unstarted", "projecting",
                         "checkStop", "finishing", "recheck", "closing", "delivering",
                         "reporting"}:
                 Goto(q, pc) /\ (req[q].pc \in Quiet => pc \in Quiet)
    PROVE  IInv'
<1>1. CASE End(q)
  BY <1>1, EndedGoesOn, MoveStep DEF Rest
<1>2. ASSUME NEW exit \in {"stop", "failed", "gone"}, Leave(q, exit) PROVE IInv'
  <2>1. PICK r \in Request: Becomes(q, r) /\ GoesOn(q, r) /\ r.up = req[q].up
    BY <1>2, LeaveGoesOn
  <2> QED
    BY <2>1, MoveStep DEF Rest
<1>3. ASSUME NEW pc \in {"waiting", "askCancel", "askCompleted", "unstarted", "projecting",
                         "checkStop", "finishing", "recheck", "closing", "delivering",
                         "reporting"},
             Goto(q, pc), req[q].pc \in Quiet => pc \in Quiet
      PROVE  IInv'
  <2>1. PICK r \in Request: Becomes(q, r) /\ GoesOn(q, r) /\ r.up = req[q].up
    BY <1>3, GotoGoesOn
  <2> QED
    BY <2>1, MoveStep DEF Rest
<1> QED
  BY <1>1, <1>2, <1>3

\* The calls of ChatRunCoordinator.stream, and a client or a process that goes
\* away.
LEMMA CoordinatorMoves ==
    ASSUME IInv, NEW q \in Requests, NEW reply \in Replies,
           \/ Renew(q, reply) \/ AskCancel(q, reply) \/ AskCompleted(q, reply)
           \/ CheckStop(q, reply) \/ Verify(q, reply) \/ Recheck(q, reply)
           \/ UpstreamRaises(q) \/ Take(q) \/ Disconnect(q)
    PROVE  IInv'
<1>1. CASE Renew(q, reply)
  <2>1. CASE UNCHANGED req
    <3> DEFINE r == req[q]
    <3>1. r \in Request /\ Becomes(q, r) /\ r.up = req[q].up
      BY <2>1 DEF IInv, TypeOK, Becomes
    <3>2. GoesOn(q, r)
      BY <1>1 DEF GoesOn, Renew
    <3> HIDE DEF r
    <3> QED
      BY <1>1, <3>1, <3>2, MoveStep DEF Renew
  <2>2. CASE Leave(q, "failed") \/ Goto(q, "askCancel")
    BY <1>1, <2>2, MoveInv DEF Renew, Rest, Quiet
  <2> QED
    BY <1>1, <2>1, <2>2 DEF Renew, Branch
<1>2. CASE AskCancel(q, reply)
  <2>1. Leave(q, "failed") \/ Leave(q, "stop") \/ Goto(q, "askCompleted")
    BY <1>2 DEF AskCancel, Branch
  <2> QED
    BY <1>2, <2>1, MoveInv DEF AskCancel, Rest, Quiet
<1>3. CASE AskCompleted(q, reply)
  <2>1. Leave(q, "failed") \/ Goto(q, "waiting")
    BY <1>3 DEF AskCompleted, Branch
  <2> QED
    BY <1>3, <2>1, MoveInv DEF AskCompleted, Rest, Quiet
<1>4. CASE CheckStop(q, reply)
  <2>1. Leave(q, "failed") \/ Leave(q, "stop") \/ Goto(q, "finishing")
    BY <1>4 DEF CheckStop, Branch
  <2> QED
    BY <1>4, <2>1, MoveInv DEF CheckStop, Rest, Quiet
<1>5. CASE Verify(q, reply)
  <2>1. Leave(q, "failed") \/ Goto(q, "delivering") \/ Goto(q, "recheck")
    BY <1>5 DEF Verify, Branch
  <2> QED
    BY <1>5, <2>1, MoveInv DEF Verify, Rest, Quiet
<1>6. CASE Recheck(q, reply)
  <2>1. Leave(q, "failed") \/ Leave(q, "stop")
    BY <1>6 DEF Recheck, Branch
  <2> QED
    BY <1>6, <2>1, MoveInv DEF Recheck, Rest
<1>7. CASE UpstreamRaises(q)
  BY <1>7, MoveInv DEF UpstreamRaises, Rest
<1>8. CASE Take(q)
  <2>1. PICK pc \in {"projecting", "finishing", "checkStop"}: Goto(q, pc)
    BY <1>8 DEF Take
  <2> QED
    BY <1>8, <2>1, MoveInv DEF Take, Rest, Quiet
<1>9. CASE Disconnect(q)
  <2>1. (End(q) \/ Leave(q, "gone")) /\ req[q].pc \notin {"idle", "admitting"}
    BY <1>9 DEF Disconnect
  <2> QED
    BY <1>9, <2>1, MoveInv DEF Disconnect, Rest
<1> QED
  BY <1>1, <1>2, <1>3, <1>4, <1>5, <1>6, <1>7, <1>8, <1>9

\* The process dies at any point of a request.
LEMMA CrashInv ==
    ASSUME IInv, NEW q \in Requests, Crash(q)
    PROVE  IInv'
<1>1. /\ Ended(q) \in Request /\ GoesOn(q, Ended(q)) /\ Ended(q).up = "closed"
      /\ Becomes(q, Ended(q))
  BY EndedGoesOn DEF Crash
<1> QED
  BY <1>1, MoveStep DEF Crash

\* close_upstream leaves a closed generator, whether or not it confirms it.
LEMMA CloseInv ==
    ASSUME IInv, NEW q \in Requests, NEW closed \in BOOLEAN, Close(q, closed)
    PROVE  IInv'
<1>1. CASE End(q)
  BY <1>1, MoveInv DEF Close, Rest
<1>2. CASE req' = [req EXCEPT ![q] = [@ EXCEPT !.up = "closed", !.chunk = "none",
                       !.pc = IF closed THEN "settling" ELSE "reporting"]]
  <2> DEFINE pc == IF closed THEN "settling" ELSE "reporting"
             n == [req[q] EXCEPT !.up = "closed", !.chunk = "none"]
             r == [n EXCEPT !.pc = pc]
  <2>1. req[q] \in Request /\ req \in [Requests -> Request]
    BY DEF IInv, TypeOK
  <2>a. pc \in {"settling", "reporting"}
    OBVIOUS
  <2>3. Becomes(q, r)
    BY <1>2, <2>1 DEF Becomes
  <2> HIDE DEF pc
  <2>2. r \in Request /\ r.up = "closed" /\ r.pc \in {"settling", "reporting"}
        /\ r.msg = req[q].msg /\ r.run = req[q].run
    <3>1. n \in Request /\ n.up = "closed" /\ n.msg = req[q].msg /\ n.run = req[q].run
      BY ZenonT(60), <2>1
    <3> HIDE DEF n
    <3> QED
      BY ZenonT(60), <2>a, <3>1, WithPc
  <2> HIDE DEF r
  <2>4. GoesOn(q, r)
    BY <2>2 DEF GoesOn, Quiet, Close
  <2> QED
    BY <2>2, <2>3, <2>4, MoveStep DEF Close
<1> QED
  BY <1>1, <1>2 DEF Close

-----------------------------------------------------------------------------
(* The generator. *)

\* What the generator's step makes of its request.
LEMMA AdvanceGoesOn ==
    ASSUME IInv, NEW q \in Requests, Generates(q), req[q].up # "off",
           NEW up \in {"ensured", "saved", "unsaved"}, Advance(q, up)
    PROVE  \E r \in Request:
             /\ Becomes(q, r) /\ GoesOn(q, r)
             /\ r.up = IF req[q].up = "closed" \/ req[q].pc = "closing"
                       THEN "closed" ELSE up
<1> DEFINE u == IF req[q].up = "closed" \/ req[q].pc = "closing" THEN "closed" ELSE up
           r == [req[q] EXCEPT !.up = u]
<1>1. req[q] \in Request /\ req \in [Requests -> Request]
  BY DEF IInv, TypeOK
<1>2. r \in Request /\ r.up = u /\ r.pc = req[q].pc /\ r.msg = req[q].msg
      /\ r.run = req[q].run
  BY <1>1
<1>3. Becomes(q, r)
  BY <1>1 DEF Advance, Becomes
<1> HIDE DEF r
<1>4. GoesOn(q, r)
  BY <1>2 DEF GoesOn, Generates
<1> QED
  BY <1>2, <1>3, <1>4

\* A chunk is handed over.
LEMMA YieldsInv ==
    ASSUME IInv, NEW q \in Requests, NEW chunk \in Chunks, Yields(q, chunk)
    PROVE  IInv'
<1> DEFINE r == [req[q] EXCEPT !.chunk = chunk]
<1>1. req[q] \in Request /\ req \in [Requests -> Request]
  BY DEF IInv, TypeOK
<1>2. r \in Request /\ r.up = req[q].up /\ r.pc = req[q].pc /\ r.msg = req[q].msg
      /\ r.run = req[q].run
  BY <1>1
<1>3. Becomes(q, r)
  BY <1>1 DEF Yields, Becomes
<1> HIDE DEF r
<1>4. GoesOn(q, r)
  BY <1>2 DEF GoesOn, Yields, Generates
<1> QED
  BY <1>2, <1>3, <1>4, MoveStep DEF Yields

\* The conversation is ensured.
LEMMA EnsureInv ==
    ASSUME IInv, NEW q \in Requests, NEW reply \in Replies, Ensure(q, reply)
    PROVE  IInv'
<1>1. PICK up \in {"ensured", "unsaved"}: Advance(q, up)
  BY DEF Ensure
<1>2. PICK r \in Request:
             /\ Becomes(q, r) /\ GoesOn(q, r)
             /\ r.up = IF req[q].up = "closed" \/ req[q].pc = "closing"
                       THEN "closed" ELSE up
  BY <1>1, AdvanceGoesOn DEF Ensure
<1>3. r.up # "saved"
  BY <1>1, <1>2
<1>4. conv' \in {"present", "deleted"}
  BY DEF Ensure, IInv, TypeOK
<1> QED
  BY <1>2, <1>3, <1>4, RequestStep DEF Ensure

-----------------------------------------------------------------------------
(* The steps that journal an event. *)

\* One append of the repository by a request that goes on as r.
LEMMA RecordStep ==
    ASSUME IInv, NEW q \in Requests, NEW r \in Request, Becomes(q, r), GoesOn(q, r),
           r.up = "saved" => req[q].up = "saved",
           UNCHANGED <<conv, run, saved, memory, acked>>,
           NEW e \in Events, NEW reply, Record(q, e, reply),
           \/ wire' = wire
           \/ Sent(q, e) /\ (e = "finished" => Allowed(q, e)),
           e = "end" => req[q].msg = "open",
           e \in TerminalEvents => r.pc \in Quiet /\ r.msg = "closed"
    PROVE  IInv'
<1>1. conv' \in {"present", "deleted"}
  BY DEF IInv, TypeOK
<1>2. \/ wire' = wire
      \/ \E f \in Events: /\ wire' = [wire EXCEPT ![q] = @ \cup {f}]
                          /\ f = "finished" => Allowed(q, f)
  BY DEF Sent
<1>3. \/ journal' = journal
      \/ \E f \in Events:
            /\ Appendable(q, f)
            /\ journal' = [journal EXCEPT ![req[q].run] = Append(@, f)]
            /\ f = "end" => req[q].msg = "open"
            /\ f \in TerminalEvents => r.pc \in Quiet /\ r.msg = "closed"
  BY DEF Record
<1> QED
  BY <1>1, <1>2, <1>3, RequestStep

\* RUN_STARTED.
LEMMA BeginInv ==
    ASSUME IInv, NEW q \in Requests, NEW reply \in Replies, Begin(q, reply)
    PROVE  IInv'
<1>1. req[q] \in Request /\ req \in [Requests -> Request] /\ "started" \in Events
      /\ "started" \notin {"finished", "error", "end"}
  BY DEF IInv, TypeOK
<1>2. CASE Recorded(q, "started", reply)
  <2> DEFINE r == [req[q] EXCEPT !.pc = "waiting", !.up = "generating"]
  <2>1. r \in Request /\ r.up = "generating" /\ r.pc = "waiting" /\ r.run = req[q].run
    BY ZenonT(60), <1>1
  <2>2. Becomes(q, r)
    BY <1>1, <1>2 DEF Begin, Becomes
  <2> HIDE DEF r
  <2>3. req[q].up = "off"
    BY DEF IInv, ReqShape, Begin
  <2>4. GoesOn(q, r)
    BY <2>1, <2>3 DEF GoesOn, Begin, Quiet
  <2> HIDE DEF Events
  <2> QED
    BY <1>1, <1>2, <2>1, <2>2, <2>4, RecordStep DEF Begin
<1>3. CASE ~Recorded(q, "started", reply)
  <2>1. PICK r \in Request: Becomes(q, r) /\ GoesOn(q, r) /\ r.up = req[q].up
    BY <1>3, GotoGoesOn DEF Begin, Quiet
  <2> HIDE DEF Events
  <2> QED
    BY <1>1, <1>3, <2>1, RecordStep DEF Begin
<1> QED
  BY <1>2, <1>3

\* A chunk of a running model.
LEMMA ProjectInv ==
    ASSUME IInv, NEW q \in Requests, NEW reply \in Replies, NEW content \in BOOLEAN,
           Project(q, reply, content)
    PROVE  IInv'
<1>1. req[q] \in Request /\ req \in [Requests -> Request] /\ "text" \in Events
      /\ "text" \notin {"finished", "error", "end"}
  BY DEF IInv, TypeOK
<1>2. PICK msg \in {"closed", "open"}: msg = IF content THEN "open" ELSE req[q].msg
  BY <1>1
<1>3. CASE Recorded(q, "text", reply)
  <2> DEFINE r == [req[q] EXCEPT !.pc = "waiting", !.chunk = "none", !.msg = msg]
  <2>2. Becomes(q, r)
    BY <1>1, <1>2, <1>3 DEF Project, Becomes
  <2>1. r \in Request /\ r.up = req[q].up /\ r.pc = "waiting" /\ r.run = req[q].run
    <3> DEFINE n == [req[q] EXCEPT !.pc = "waiting", !.chunk = "none"]
    <3>1. n \in Request /\ n.up = req[q].up /\ n.pc = "waiting" /\ n.run = req[q].run
      BY ZenonT(60), <1>1
    <3>2. r = [n EXCEPT !.msg = msg]
      BY <1>1
    <3> HIDE DEF n, r
    <3> QED
      BY <3>1, <3>2
  <2> HIDE DEF r
  <2>4. GoesOn(q, r)
    BY <2>1 DEF GoesOn, Project, Quiet
  <2> HIDE DEF Events
  <2> QED
    BY <1>1, <1>3, <2>1, <2>2, <2>4, RecordStep DEF Project
<1>4. CASE ~Recorded(q, "text", reply)
  <2> DEFINE r == [req[q] EXCEPT !.pc = "reporting", !.exit = "gone", !.msg = msg]
  <2>2. Becomes(q, r)
    BY <1>1, <1>2, <1>4 DEF Project, Becomes
  <2>1. r \in Request /\ r.up = req[q].up /\ r.pc = "reporting" /\ r.run = req[q].run
    <3> DEFINE m == [req[q] EXCEPT !.pc = "reporting"]
               n == [m EXCEPT !.exit = "gone"]
    <3>a. m \in Request /\ m.up = req[q].up /\ m.pc = "reporting" /\ m.run = req[q].run
      BY ZenonT(60), <1>1, WithPc
    <3>1. n \in Request /\ n.up = req[q].up /\ n.pc = "reporting" /\ n.run = req[q].run
      <4> HIDE DEF m
      <4> QED
        BY <3>a, WithExit
    <3>2. r = [n EXCEPT !.msg = msg]
      BY <1>1
    <3> HIDE DEF n, r
    <3> QED
      BY <3>1, <3>2
  <2> HIDE DEF r
  <2>4. GoesOn(q, r)
    BY <2>1 DEF GoesOn, Project, Quiet
  <2> HIDE DEF Events
  <2> QED
    BY <1>1, <1>4, <2>1, <2>2, <2>4, RecordStep DEF Project
<1> QED
  BY <1>3, <1>4

\* The message of a request is ended.
LEMMA MessageEnds ==
    ASSUME IInv, NEW q \in Requests, req[q].pc \notin {"idle", "admitting"},
           req' = [req EXCEPT ![q].msg = "closed"]
    PROVE  \E r \in Request: /\ Becomes(q, r) /\ GoesOn(q, r) /\ r.up = req[q].up
                             /\ r.pc = req[q].pc
<1> DEFINE r == [req[q] EXCEPT !.msg = "closed"]
<1>1. req[q] \in Request /\ req \in [Requests -> Request]
  BY DEF IInv, TypeOK
<1>2. r \in Request /\ r.up = req[q].up /\ r.pc = req[q].pc /\ r.msg = "closed"
      /\ r.run = req[q].run
  BY <1>1
<1>3. Becomes(q, r)
  BY <1>1 DEF Becomes
<1> HIDE DEF r
<1>4. GoesOn(q, r)
  BY <1>2 DEF GoesOn, IInv, ReqShape
<1> QED
  BY <1>2, <1>3, <1>4

\* The events of the terminal chunk.
LEMMA DeliverInv ==
    ASSUME IInv, NEW q \in Requests, NEW reply \in Replies, Deliver(q, reply)
    PROVE  IInv'
<1>1. req[q] \in Request /\ req \in [Requests -> Request] /\ req[q].pc = "delivering"
  BY DEF IInv, TypeOK, Deliver
<1>2. PICK e \in {"end", "finished", "error"}:
        e = IF req[q].msg = "open" THEN "end"
            ELSE IF req[q].chunk = "complete" THEN "finished" ELSE "error"
  BY <1>1
<1>3. /\ Record(q, e, reply) /\ e \in Events
      /\ e = "end" => req[q].msg = "open"
      /\ UNCHANGED <<conv, run, saved, memory, acked>>
  BY <1>2 DEF Deliver
<1>4. CASE Recorded(q, e, reply)
  <2>1. Sent(q, e) /\ Allowed(q, e)
    BY <1>2, <1>4 DEF Deliver, Recorded, Appendable
  <2>2. PICK r \in Request: /\ Becomes(q, r) /\ GoesOn(q, r)
                            /\ r.up \in {"closed", req[q].up}
                            /\ e \in TerminalEvents => r.pc \in Quiet /\ r.msg = "closed"
    <3>1. CASE e = "end"
      BY <1>1, <1>2, <1>4, <3>1, MessageEnds DEF Deliver
    <3>2. CASE e # "end"
      BY <1>1, <1>2, <1>4, <3>2, EndedGoesOn DEF Deliver, Quiet
    <3> QED
      BY <3>1, <3>2
  <2>3. r.up = "saved" => req[q].up = "saved"
    BY <2>2
  <2> HIDE DEF Events, TerminalEvents
  <2> QED
    BY <1>3, <2>1, <2>2, <2>3, RecordStep
<1>5. CASE ~Recorded(q, e, reply)
  <2> DEFINE r == [req[q] EXCEPT !.msg = "closed", !.chunk = "none", !.pc = "reporting"]
  <2>1. r \in Request /\ r.up = req[q].up /\ r.pc = "reporting" /\ r.msg = "closed"
        /\ r.run = req[q].run
    BY <1>1
  <2>2. Becomes(q, r) /\ wire' = wire
    BY <1>1, <1>2, <1>5 DEF Deliver, Becomes
  <2> HIDE DEF r
  <2>3. GoesOn(q, r)
    BY <1>1, <2>1 DEF GoesOn, Quiet
  <2>4. r.pc \in Quiet
    BY <2>1 DEF Quiet
  <2> HIDE DEF Events, TerminalEvents
  <2> QED
    BY <1>3, <2>1, <2>2, <2>3, <2>4, RecordStep
<1> QED
  BY <1>4, <1>5

\* The error frames.
LEMMA ReportInv ==
    ASSUME IInv, NEW q \in Requests, NEW reply \in Replies, Report(q, reply)
    PROVE  IInv'
<1>1. req[q] \in Request /\ req \in [Requests -> Request] /\ req[q].pc = "reporting"
  BY DEF IInv, TypeOK, Report
<1>2. PICK e \in {"end", "error"}: e = IF req[q].msg = "open" THEN "end" ELSE "error"
  OBVIOUS
<1>3. /\ Record(q, e, reply) /\ e \in Events /\ e # "finished" /\ Sent(q, e)
      /\ e = "end" => req[q].msg = "open"
      /\ UNCHANGED <<conv, run, saved, memory, acked>>
  BY <1>2 DEF Report
<1>4. PICK r \in Request: /\ Becomes(q, r) /\ GoesOn(q, r)
                          /\ r.up \in {"closed", req[q].up}
                          /\ e \in TerminalEvents => r.pc \in Quiet /\ r.msg = "closed"
  <2>1. CASE e = "end"
    <3>1. req' = [req EXCEPT ![q].msg = "closed"]
      BY <1>2, <2>1 DEF Report
    <3> QED
      BY <1>1, <2>1, <3>1, MessageEnds
  <2>2. CASE e # "end"
    <3>1. req[q].msg = "closed" /\ (Goto(q, "closing") \/ End(q))
      BY <1>1, <1>2, <2>2 DEF Report
    <3>2. CASE Goto(q, "closing")
      BY <1>1, <3>1, <3>2, GotoGoesOn DEF Quiet
    <3>3. CASE End(q)
      BY <1>1, <3>3, EndedGoesOn DEF Quiet
    <3> QED
      BY <3>1, <3>2, <3>3
  <2> QED
    BY <2>1, <2>2
<1>5. r.up = "saved" => req[q].up = "saved"
  BY <1>4
<1> HIDE DEF Events, TerminalEvents
<1> QED
  BY <1>3, <1>4, <1>5, RecordStep

-----------------------------------------------------------------------------
(* The steps that change rows. *)

\* What may become of a row under a step of request q: it stays, or one that is
\* active ends or is asked to; only q completes it, while nobody asked to stop.
RowGoesOn(x, q) ==
    \/ run'[x] = run[x]
    \/ /\ run[x].status \in Active
       /\ run'[x].exec = run[x].exec
       /\ run'[x].status # "absent"
       /\ run'[x].status = "running" => run[x].status = "running"
       /\ run'[x].status = "completed" =>
             run[x].exec = q /\ run[x].status = "running" /\ q \in saved'
       /\ run'[x].status = "cancelled" => req'[run[x].exec].up = "closed"

\* A step of request q that ends rows, or acknowledges a stop.
LEMMA RowsStep ==
    ASSUME IInv, NEW q \in Requests, NEW r \in Request, Becomes(q, r), GoesOn(q, r),
           r.up = "saved" => req[q].up = "saved" \/ (q \in saved' /\ q \notin saved),
           UNCHANGED <<conv, journal, memory, wire>>,
           run' \in [Runs -> Row], \A x \in Runs: RowGoesOn(x, q),
           \/ saved' = saved
           \/ /\ saved' = saved \cup {q}
              /\ \E x \in Runs: /\ run[x].exec = q /\ run[x].status = "running"
                                /\ run'[x].status = "completed",
           \/ acked' = acked
           \/ \E x \in Runs: /\ acked' = acked \cup {run[x].exec}
                             /\ run[x].status \in Active
                             /\ run'[x].status = "cancelling"
    PROVE  IInv'
<1>1. /\ req' \in [Requests -> Request] /\ req'[q] = r
      /\ \A p \in Requests \ {q}: req'[p] = req[p]
  BY BecomesOne
<1>2. /\ run \in [Runs -> Row] /\ req[q].run \in Runs
      /\ \A x \in Runs: RowShape(x) /\ JournalShape(x)
      /\ \A p \in Requests: ReqShape(p) /\ StopStands(p)
      /\ \A x \in Runs, p \in Requests: Succeeded(x, p)
  BY DEF IInv, TypeOK, ReqShape, GoesOn
<1>3. \A x \in Runs: run'[x].exec = run[x].exec
  BY DEF RowGoesOn
<1>4. \A x, y \in Runs: run[x].exec = q /\ run[y].exec = q => x = y
  BY OwnRow
<1>5. \A x \in Runs: run[x].status \in Active => run[x].exec \in Requests
  BY <1>2 DEF RowShape
<1>6. TypeOK'
  BY <1>1, <1>5 DEF IInv, TypeOK
<1>7. ASSUME NEW p \in Requests PROVE ReqShape(p)'
  <2>1. ReqShape(p)
    BY <1>2
  <2>2. CASE p = q
    BY <1>1, <1>2, <2>2 DEF ReqShape, GoesOn
  <2>3. CASE p # q
    <3>1. req[p].pc \in {"idle", "admitting"} => p \notin acked'
      BY <2>1 DEF ReqShape
    <3> QED
      BY <1>1, <1>3, <2>1, <2>3, <3>1 DEF ReqShape
  <2> QED
    BY <2>2, <2>3
<1>8. ASSUME NEW p \in Requests PROVE StopStands(p)'
  <2> SUFFICES ASSUME p \in acked' PROVE StopStands(p)'
    BY DEF StopStands
  <2>1. CASE p \in acked
    <3>1. /\ p \notin saved \cup memory /\ "finished" \notin wire[p] /\ req[p].up # "saved"
          /\ \A x \in Runs: run[x].exec = p =>
                run[x].status \notin {"running", "completed"}
      BY <1>2, <2>1 DEF StopStands
    <3>2. p \notin saved'
      BY <3>1
    <3>3. req'[p].up # "saved"
      BY <1>1, <3>1, <3>2
    <3>4. \A x \in Runs: run[x].exec = p => run'[x].status \notin {"running", "completed"}
      BY <3>1 DEF RowGoesOn
    <3> QED
      BY <1>3, <3>1, <3>2, <3>3, <3>4 DEF StopStands
  <2>2. CASE p \notin acked
    <3>1. PICK x \in Runs: /\ p = run[x].exec /\ run[x].status \in Active
                           /\ run'[x].status = "cancelling"
      BY <2>2
    <3>2. p \notin saved \cup memory /\ "finished" \notin wire[p] /\ req[p].up # "saved"
      BY <1>2, <3>1 DEF Succeeded
    <3>3. \A y \in Runs: run[y].exec = p => y = x
      BY <3>1, OwnRow
    <3>4. p \notin saved'
      BY <3>1, <3>2, <3>3
    <3>5. req'[p].up # "saved"
      BY <1>1, <3>2, <3>4
    <3> QED
      BY <1>3, <3>1, <3>2, <3>3, <3>4, <3>5 DEF StopStands
  <2> QED
    BY <2>1, <2>2
<1>9. ASSUME NEW x \in Runs PROVE RowShape(x)'
  <2>1. RowShape(x) /\ RowGoesOn(x, q)
    BY <1>2
  <2>2. run[x].exec \in Requests => req'[run[x].exec].run = x
    BY <1>1, <2>1 DEF RowShape, GoesOn
  <2>3. CASE run'[x] = run[x]
    BY <1>1, <2>1, <2>2, <2>3 DEF RowShape, GoesOn
  <2>4. CASE run'[x] # run[x]
    BY <1>3, <2>1, <2>2, <2>4 DEF RowShape, RowGoesOn
  <2> QED
    BY <2>3, <2>4
<1>10. ASSUME NEW x \in Runs PROVE JournalShape(x)'
  <2>1. RowShape(x) /\ JournalShape(x) /\ RowGoesOn(x, q)
    BY <1>2
  <2>2. CASE run'[x] = run[x]
    <3>1. run[x].exec = q \/ run[x].exec \in Requests \ {q} \/ journal[x] = <<>>
      BY <2>1 DEF RowShape
    <3>2. \A i \in 1..Len(journal[x]): journal[x][i] \in TerminalEvents =>
            req'[run[x].exec].pc \in Quiet /\ req'[run[x].exec].msg = "closed"
      BY <1>1, <2>1, <3>1 DEF JournalShape, GoesOn
    <3> QED
      BY <2>1, <2>2, <3>2 DEF JournalShape
  <2>3. CASE run'[x] # run[x]
    <3>1. \A i \in 1..Len(journal[x]): journal[x][i] \notin TerminalEvents
      BY <2>1, <2>3 DEF RowGoesOn, JournalShape
    <3> QED
      BY <3>1 DEF JournalShape
  <2> QED
    BY <2>2, <2>3
<1>11. ASSUME NEW x \in Runs, NEW p \in Requests PROVE Succeeded(x, p)'
  <2>1. Succeeded(x, p) /\ RowGoesOn(x, q)
    BY <1>2
  <2> SUFFICES ASSUME run[x].exec = p
               PROVE  /\ run'[x].status = "completed" <=> p \in saved'
                      /\ p \in memory \/ "finished" \in wire[p] \/ req'[p].up = "saved" =>
                            run'[x].status = "completed"
    BY <1>3 DEF Succeeded
  <2>2. p \in saved' => run'[x].status = "completed"
    BY <1>4, <2>1 DEF Succeeded, RowGoesOn
  <2>3. run'[x].status = "completed" => p \in saved'
    BY <2>1 DEF Succeeded, RowGoesOn
  <2>4. p \in memory \/ "finished" \in wire[p] => run'[x].status = "completed"
    BY <2>1 DEF Succeeded, RowGoesOn
  <2>5. req'[p].up = "saved" => run'[x].status = "completed"
    BY <1>1, <2>1, <2>2 DEF Succeeded, RowGoesOn
  <2> QED
    BY <2>2, <2>3, <2>4, <2>5
<1> QED
  BY <1>6, <1>7, <1>8, <1>9, <1>10, <1>11 DEF IInv

\* A settled row.
LEMMA SettledRow ==
    ASSUME NEW w \in Row, NEW status \in Terminal
    PROVE  /\ Settled(w, status) \in Row /\ Settled(w, status).status = status
           /\ Settled(w, status).exec = w.exec
  BY DEF Settled

\* The UPDATE of finish by a request that goes on as r.
LEMMA FinishStep ==
    ASSUME IInv, NEW q \in Requests, NEW r \in Request, Becomes(q, r), GoesOn(q, r),
           r.up = "saved" => req[q].up = "saved",
           UNCHANGED <<conv, journal, saved, memory, wire, acked>>,
           NEW status \in {"failed", "cancelled"}, NEW reply, Finish(q, status, reply),
           status = "cancelled" => r.up = "closed"
    PROVE  IInv'
<1>1. run \in [Runs -> Row] /\ req[q].run \in Runs
  BY DEF IInv, TypeOK, ReqShape, GoesOn
<1>2. req'[q] = r
  BY BecomesOne
<1>3. run' \in [Runs -> Row] /\ \A x \in Runs: RowGoesOn(x, q)
  <2>1. CASE run' = run
    BY <1>1, <2>1 DEF RowGoesOn
  <2>2. CASE run' # run
    <3> DEFINE w == Settled(run[req[q].run], status)
    <3>1. /\ run' = [run EXCEPT ![req[q].run] = w]
          /\ run[req[q].run].status \in Active /\ run[req[q].run].exec = q
      BY <1>1, <2>2 DEF Finish, Finishable, Leased
    <3>2. w \in Row /\ w.status = status /\ w.exec = q
      BY <1>1, <3>1, SettledRow
    <3> HIDE DEF w
    <3>3. run' \in [Runs -> Row]
      BY <1>1, <3>1, <3>2
    <3>4. run'[req[q].run] = w /\ \A x \in Runs \ {req[q].run}: run'[x] = run[x]
      BY <1>1, <3>1
    <3> QED
      BY <1>2, <3>1, <3>2, <3>3, <3>4 DEF RowGoesOn
  <2> QED
    BY <2>1, <2>2
<1> QED
  BY <1>3, RowsStep

\* fail_unstarted_event_journal.
LEMMA FailUnstartedInv ==
    ASSUME IInv, NEW q \in Requests, NEW reply \in Replies, FailUnstarted(q, reply)
    PROVE  IInv'
<1>1. PICK r \in Request: Becomes(q, r) /\ GoesOn(q, r) /\ r.up = req[q].up
  BY GotoGoesOn DEF FailUnstarted, Quiet
<1> QED
  BY <1>1, FinishStep DEF FailUnstarted

\* The run is failed before the generator's end is forwarded.
LEMMA FailRunInv ==
    ASSUME IInv, NEW q \in Requests, NEW reply \in Replies, FailRun(q, reply)
    PROVE  IInv'
<1>1. \/ Leave(q, "failed")
      \/ \E pc \in {"reporting", "delivering", "recheck"}: Goto(q, pc)
  BY DEF FailRun, Branch
<1>2. PICK r \in Request: Becomes(q, r) /\ GoesOn(q, r) /\ r.up = req[q].up
  <2>1. CASE Leave(q, "failed")
    BY <2>1, LeaveGoesOn DEF FailRun
  <2>2. ASSUME NEW pc \in {"reporting", "delivering", "recheck"}, Goto(q, pc)
        PROVE  \E r \in Request: Becomes(q, r) /\ GoesOn(q, r) /\ r.up = req[q].up
    BY <2>2, GotoGoesOn DEF FailRun, Quiet
  <2> QED
    BY <1>1, <2>1, <2>2
<1> QED
  BY <1>2, FinishStep DEF FailRun

\* The run is settled after the generator was closed.
LEMMA SettleInv ==
    ASSUME IInv, NEW q \in Requests, NEW reply \in Replies, Settle(q, reply)
    PROVE  IInv'
<1>1. req[q].up = "closed"
  BY DEF IInv, ReqShape, Settle
<1>2. PICK r \in Request: Becomes(q, r) /\ GoesOn(q, r) /\ r.up = "closed"
  <2>1. CASE End(q)
    BY <2>1, EndedGoesOn DEF Settle
  <2>2. CASE Goto(q, "reporting")
    BY <1>1, <2>2, GotoGoesOn DEF Settle, Quiet
  <2> QED
    BY <2>1, <2>2 DEF Settle
<1>3. PICK status \in {"failed", "cancelled"}: Finish(q, status, reply)
  BY DEF Settle
<1> QED
  BY <1>2, <1>3, FinishStep DEF Settle

\* add_completed_turn.
LEMMA CommitInv ==
    ASSUME IInv, NEW q \in Requests, NEW reply \in Replies, Commit(q, reply)
    PROVE  IInv'
<1> DEFINE committed == Renewable(q) /\ conv = "present" /\ reply # "failed"
<1>1. PICK up \in {"saved", "unsaved"}: Advance(q, up) /\ (up = "saved" => committed)
  BY DEF Commit
<1>2. PICK r \in Request:
             /\ Becomes(q, r) /\ GoesOn(q, r)
             /\ r.up = IF req[q].up = "closed" \/ req[q].pc = "closing"
                       THEN "closed" ELSE up
  BY <1>1, AdvanceGoesOn DEF Commit
<1>3. r.up = "saved" => committed
  BY <1>1, <1>2
<1>4. run \in [Runs -> Row] /\ req[q].run \in Runs
  BY <1>2 DEF IInv, TypeOK, ReqShape, GoesOn
<1>5. CASE committed
  <2> DEFINE x0 == req[q].run
             w == Settled(run[x0], "completed")
  <2>1. /\ run' = [run EXCEPT ![x0] = w] /\ saved' = saved \cup {q}
        /\ run[x0].status = "running" /\ run[x0].exec = q
    BY <1>4, <1>5 DEF Commit, Renewable, Leased
  <2>2. w \in Row /\ w.status = "completed" /\ w.exec = q
    BY <1>4, <2>1, SettledRow
  <2> HIDE DEF w
  <2>3. run' \in [Runs -> Row]
    BY <1>4, <2>1, <2>2
  <2>4. run'[x0] = w /\ \A x \in Runs \ {x0}: run'[x] = run[x]
    BY <1>4, <2>1
  <2>5. \A x \in Runs: RowGoesOn(x, q)
    BY <2>1, <2>2, <2>4 DEF RowGoesOn
  <2>6. q \notin saved /\ q \in saved'
    <3>1. Succeeded(x0, q)
      BY <1>4 DEF IInv
    <3> QED
      BY <2>1, <3>1 DEF Succeeded
  <2>7. \E x \in Runs: run[x].exec = q /\ run[x].status = "running"
                       /\ run'[x].status = "completed"
    BY <1>4, <2>1, <2>2, <2>4
  <2>8. UNCHANGED <<conv, journal, memory, wire, acked>>
    BY DEF Commit
  <2> QED
    BY <1>2, <2>1, <2>3, <2>5, <2>6, <2>7, <2>8, RowsStep
<1>6. CASE ~committed
  BY <1>2, <1>3, <1>6, MoveStep DEF Commit
<1> QED
  BY <1>5, <1>6

\* request_cancel and a lease that passes are steps beside the request that
\* executes the run.
LEMMA ExecutorGoesOn ==
    ASSUME IInv, NEW x \in Runs, run[x].status \in Active, UNCHANGED req
    PROVE  /\ run[x].exec \in Requests /\ req[run[x].exec] \in Request
           /\ Becomes(run[x].exec, req[run[x].exec])
           /\ GoesOn(run[x].exec, req[run[x].exec])
<1>1. run[x].exec \in Requests
  BY DEF IInv, RowShape
<1>2. req[run[x].exec].pc \notin {"idle", "admitting"}
  BY <1>1, OwnRow
<1>3. req[run[x].exec] \in Request /\ req \in [Requests -> Request]
      /\ ReqShape(run[x].exec)
  BY <1>1 DEF IInv, TypeOK
<1> QED
  BY <1>1, <1>2, <1>3 DEF ReqShape, Becomes, GoesOn

\* A stop request.
LEMMA RequestCancelInv ==
    ASSUME IInv, NEW x \in Runs, NEW reply \in Replies, RequestCancel(x, reply)
    PROVE  IInv'
<1>1. PICK q \in Requests: q = run[x].exec /\ req[q] \in Request
                           /\ Becomes(q, req[q]) /\ GoesOn(q, req[q])
  BY ExecutorGoesOn DEF RequestCancel
<1>2. PICK r \in Request: r = req[q]
  BY <1>1
<1>3. run \in [Runs -> Row] /\ run[x].status \in Active
  BY DEF IInv, TypeOK, RequestCancel
<1> DEFINE w == Stopped(run[x])
<1>4. /\ w \in Row /\ w.exec = run[x].exec
      /\ w.status = IF run[x].lease = "live" THEN "cancelling" ELSE "orphaned"
  BY ZenonT(60), <1>3 DEF Stopped
<1>5. run' = [run EXCEPT ![x] = w]
  BY <1>3 DEF RequestCancel
<1> HIDE DEF w
<1>6. run' \in [Runs -> Row] /\ run'[x] = w /\ \A y \in Runs \ {x}: run'[y] = run[y]
  BY <1>3, <1>4, <1>5
<1>7. \A y \in Runs: RowGoesOn(y, q)
  BY <1>3, <1>4, <1>6 DEF RowGoesOn
<1>8. \/ acked' = acked
      \/ \E y \in Runs: /\ acked' = acked \cup {run[y].exec}
                        /\ run[y].status \in Active
                        /\ run'[y].status = "cancelling"
  BY <1>3, <1>4, <1>6 DEF RequestCancel
<1>9. UNCHANGED <<conv, journal, memory, wire, saved>>
  BY DEF RequestCancel
<1>10. Becomes(q, r) /\ GoesOn(q, r) /\ (r.up = "saved" => req[q].up = "saved")
  BY <1>1, <1>2
<1> QED
  BY <1>6, <1>7, <1>8, <1>9, <1>10, RowsStep

\* A lease passes.
LEMMA LeaseExpiresInv ==
    ASSUME IInv, NEW x \in Runs, LeaseExpires(x)
    PROVE  IInv'
<1>1. PICK q \in Requests: q = run[x].exec /\ req[q] \in Request
                           /\ Becomes(q, req[q]) /\ GoesOn(q, req[q])
  BY ExecutorGoesOn DEF LeaseExpires
<1>2. PICK r \in Request: r = req[q]
  BY <1>1
<1>3. run \in [Runs -> Row] /\ run[x].status \in Active
  BY DEF IInv, TypeOK, LeaseExpires
<1> DEFINE w == [run[x] EXCEPT !.lease = "expired"]
<1>4. w \in Row /\ w.exec = run[x].exec /\ w.status = run[x].status
  BY <1>3
<1>5. run' = [run EXCEPT ![x] = w]
  BY <1>3 DEF LeaseExpires
<1> HIDE DEF w
<1>6. run' \in [Runs -> Row] /\ run'[x] = w /\ \A y \in Runs \ {x}: run'[y] = run[y]
  BY <1>3, <1>4, <1>5
<1>7. \A y \in Runs: RowGoesOn(y, q)
  BY <1>3, <1>4, <1>6 DEF RowGoesOn
<1>8. UNCHANGED <<conv, journal, memory, wire, saved, acked>>
  BY DEF LeaseExpires
<1>9. Becomes(q, r) /\ GoesOn(q, r) /\ (r.up = "saved" => req[q].up = "saved")
  BY <1>1, <1>2
<1> QED
  BY <1>6, <1>7, <1>8, <1>9, RowsStep

-----------------------------------------------------------------------------
(* The steps that fit no pattern: a request is sent and admitted, an answer  *)
(* is remembered, a conversation is deleted.                                 *)

\* A request is sent.
LEMMA SendInv ==
    ASSUME IInv, NEW q \in Requests, NEW x \in Runs, Send(q, x)
    PROVE  IInv'
<1> DEFINE r == [req[q] EXCEPT !.pc = "admitting", !.run = x]
<1>1. req[q] \in Request /\ req \in [Requests -> Request] /\ req[q].pc = "idle"
      /\ ReqShape(q)
  BY DEF IInv, TypeOK, Send
<1>2. r \in Request /\ r.pc = "admitting" /\ r.run = x /\ r.up = req[q].up
  BY <1>1
<1>3. Becomes(q, r)
  BY <1>1 DEF Send, Becomes
<1> HIDE DEF r
<1>4. /\ req' \in [Requests -> Request] /\ req'[q] = r
      /\ \A p \in Requests \ {q}: req'[p] = req[p]
  BY <1>2, <1>3, BecomesOne
<1>5. UNCHANGED Rest
  BY DEF Send, Rest
<1>6. \A y \in Runs: run[y].exec # q
  BY <1>1 DEF ReqShape
<1>7. TypeOK' /\ journal' \in [Runs -> Seq(Events)]
  BY <1>4, <1>5 DEF IInv, TypeOK, Rest
<1>8. ASSUME NEW p \in Requests PROVE ReqShape(p)' /\ StopStands(p)'
  <2>1. ReqShape(p) /\ StopStands(p)
    BY DEF IInv
  <2>2. CASE p = q
    BY <1>1, <1>2, <1>4, <1>5, <2>1, <2>2 DEF ReqShape, StopStands, Rest
  <2>3. CASE p # q
    BY <1>4, <1>5, <2>1, <2>3 DEF ReqShape, StopStands, Rest
  <2> QED
    BY <2>2, <2>3
<1>9. ASSUME NEW y \in Runs PROVE RowShape(y)' /\ JournalShape(y)'
  <2>1. RowShape(y) /\ JournalShape(y)
    BY DEF IInv
  <2>2. run[y].exec \in Requests \ {q} \/ run[y].status = "absent"
    BY <1>6, <2>1 DEF RowShape
  <2>3. RowShape(y)'
    BY <1>4, <1>5, <1>6, <2>1, <2>2 DEF RowShape, Rest
  <2>4. JournalShape(y)'
    BY <1>4, <1>5, <2>1, <2>2 DEF RowShape, JournalShape, Rest
  <2> QED
    BY <2>3, <2>4
<1>10. ASSUME NEW y \in Runs, NEW p \in Requests PROVE Succeeded(y, p)'
  <2>1. Succeeded(y, p)
    BY DEF IInv
  <2> QED
    BY <1>4, <1>5, <1>6, <2>1 DEF Succeeded, Rest
<1> QED
  BY <1>7, <1>8, <1>9, <1>10 DEF IInv

\* The sweep of admit.
LEMMA SweptRow ==
    ASSUME NEW w \in Row
    PROVE  /\ Swept(w) \in Row
           /\ Swept(w) = w \/ /\ w.status \in Active /\ Swept(w).exec = w.exec
                              /\ Swept(w).status = "orphaned"
  BY SettledRow DEF Swept

\* A transport id that was admitted before: expired runs are orphaned.
LEMMA AdmitKnown ==
    ASSUME IInv, NEW q \in Requests, req[q].pc = "admitting", End(q),
           run' = [y \in Runs |-> Swept(run[y])],
           UNCHANGED <<conv, journal, saved, memory, wire, acked>>
    PROVE  IInv'
<1>1. /\ Ended(q) \in Request /\ GoesOn(q, Ended(q)) /\ Ended(q).up = "closed"
      /\ Becomes(q, Ended(q))
  BY EndedGoesOn
<1>2. \A y \in Runs: run[y] \in Row
  BY DEF IInv, TypeOK
<1>3. run' \in [Runs -> Row] /\ \A y \in Runs: run'[y] = Swept(run[y])
  BY <1>2, SweptRow
<1>4. \A y \in Runs: RowGoesOn(y, q)
  BY <1>2, <1>3, SweptRow DEF RowGoesOn
<1> QED
  BY <1>1, <1>3, <1>4, RowsStep

\* A new run.
LEMMA AdmitFresh ==
    ASSUME IInv, NEW q \in Requests, NEW x \in Runs, req[q].pc = "admitting",
           NEW r \in Request, Becomes(q, r), r.run = x,
           r.pc \in {"starting", "ended"}, r.up \in {"off", "closed"},
           r.pc = "starting" => r.up = "off",
           run[x].status = "absent",
           NEW row \in Row, row.status = "running", row.exec = q,
           run' = [[y \in Runs |-> Swept(run[y])] EXCEPT ![x] = row],
           UNCHANGED <<conv, journal, saved, memory, wire, acked>>
    PROVE  IInv'
<1>1. /\ req' \in [Requests -> Request] /\ req'[q] = r
      /\ \A p \in Requests \ {q}: req'[p] = req[p]
  BY BecomesOne
<1>2. /\ \A y \in Runs: run[y] \in Row /\ RowShape(y) /\ JournalShape(y)
      /\ \A p \in Requests: ReqShape(p) /\ StopStands(p)
      /\ \A y \in Runs, p \in Requests: Succeeded(y, p)
  BY DEF IInv, TypeOK
<1>3. \A y \in Runs: Swept(run[y]) \in Row
  BY <1>2, SweptRow
<1>4. /\ run' \in [Runs -> Row] /\ run'[x] = row
      /\ \A y \in Runs \ {x}: run'[y] = Swept(run[y])
  BY <1>3
<1>5. \A y \in Runs \ {x}:
        \/ run'[y] = run[y]
        \/ /\ run[y].status \in Active /\ run'[y].exec = run[y].exec
           /\ run'[y].status = "orphaned"
  BY <1>2, <1>4, SweptRow
<1>6. /\ q \notin saved \cup memory \cup acked /\ wire[q] = {}
      /\ \A y \in Runs: run[y].exec # q
  BY <1>2 DEF ReqShape
<1>7. journal[x] = <<>> /\ run[x].exec = None
  BY <1>2 DEF RowShape
<1>8. TypeOK'
  BY <1>1, <1>4 DEF IInv, TypeOK
<1>9. ASSUME NEW p \in Requests PROVE ReqShape(p)' /\ StopStands(p)'
  <2>1. CASE p = q
    BY <1>1, <1>6, <2>1 DEF ReqShape, StopStands
  <2>2. CASE p # q
    <3>1. req'[p] = req[p] /\ ReqShape(p) /\ StopStands(p)
      BY <1>1, <1>2, <2>2
    <3>2. \A y \in Runs: run'[y].exec = p => run[y].exec = p
      BY <1>4, <1>5, <2>2
    <3>3. ReqShape(p)'
      BY <3>1, <3>2 DEF ReqShape
    <3>4. \A y \in Runs: run'[y].exec = p =>
            \/ run'[y] = run[y] \/ run'[y].status = "orphaned"
      BY <1>4, <1>5, <2>2
    <3>5. StopStands(p)'
      BY <3>1, <3>2, <3>4 DEF StopStands
    <3> QED
      BY <3>3, <3>5
  <2> QED
    BY <2>1, <2>2
<1>10. ASSUME NEW y \in Runs PROVE RowShape(y)' /\ JournalShape(y)'
  <2>1. RowShape(y) /\ JournalShape(y)
    BY <1>2
  <2>2. CASE y = x
    <3>1. RowShape(y)'
      BY <1>1, <1>4, <2>2 DEF RowShape
    <3>2. ~\E i \in 1..Len(journal[y]): TRUE
      BY <1>7, <2>2
    <3> QED
      BY <3>1, <3>2 DEF JournalShape
  <2>3. CASE y # x
    <3>1. run[y].exec \in Requests => req'[run[y].exec] = req[run[y].exec]
      BY <1>1, <1>6
    <3>2. CASE run'[y] = run[y]
      <4>1. RowShape(y)'
        BY <2>1, <3>1, <3>2 DEF RowShape
      <4>2. run[y].exec \in Requests \/ journal[y] = <<>>
        BY <2>1 DEF RowShape
      <4>3. JournalShape(y)'
        BY <2>1, <3>1, <3>2, <4>2 DEF JournalShape
      <4> QED
        BY <4>1, <4>3
    <3>3. CASE run'[y] # run[y]
      <4>1. /\ run[y].status \in Active /\ run'[y].exec = run[y].exec
            /\ run'[y].status = "orphaned"
        BY <1>5, <2>3, <3>3
      <4>2. RowShape(y)'
        BY <2>1, <3>1, <4>1 DEF RowShape
      <4>3. \A i \in 1..Len(journal[y]): journal[y][i] \notin TerminalEvents
        BY <2>1, <4>1 DEF JournalShape
      <4> QED
        BY <4>2, <4>3 DEF JournalShape
    <3> QED
      BY <3>2, <3>3
  <2> QED
    BY <2>2, <2>3
<1>11. ASSUME NEW y \in Runs, NEW p \in Requests PROVE Succeeded(y, p)'
  <2>1. Succeeded(y, p)
    BY <1>2
  <2>2. CASE y = x
    BY <1>1, <1>4, <1>6, <2>2 DEF Succeeded
  <2>3. CASE y # x
    BY <1>1, <1>5, <1>6, <2>1, <2>3 DEF Succeeded
  <2> QED
    BY <2>2, <2>3
<1> QED
  BY <1>8, <1>9, <1>10, <1>11 DEF IInv

\* Admission.
LEMMA AdmitInv ==
    ASSUME IInv, NEW q \in Requests, NEW reply \in Replies, Admit(q, reply)
    PROVE  IInv'
<1>1. /\ req[q] \in Request /\ req \in [Requests -> Request] /\ req[q].pc = "admitting"
      /\ req[q].run \in Runs /\ req[q].up = "off"
      /\ UNCHANGED <<conv, journal, saved, memory, wire, acked>>
  BY DEF IInv, TypeOK, ReqShape, Admit
<1>2. CASE reply = "failed"
  <2>1. End(q) /\ run' = run
    BY <1>2 DEF Admit
  <2>2. /\ Ended(q) \in Request /\ GoesOn(q, Ended(q)) /\ Ended(q).up = "closed"
        /\ Becomes(q, Ended(q))
    BY <1>1, <2>1, EndedGoesOn
  <2> QED
    BY <1>1, <2>1, <2>2, MoveStep
<1>3. CASE reply # "failed" /\ run[req[q].run].status # "absent"
  BY <1>1, <1>3, AdmitKnown DEF Admit
<1>4. CASE reply # "failed" /\ run[req[q].run].status = "absent"
  <2> DEFINE row == [status |-> "running", exec |-> q, token |-> q,
                     lease |-> "live", stop |-> "no"]
  <2>1. row \in Row /\ row.status = "running" /\ row.exec = q
    OBVIOUS
  <2>2. run' = [[y \in Runs |-> Swept(run[y])] EXCEPT ![req[q].run] = row]
    BY <1>4 DEF Admit
  <2> HIDE DEF row
  <2>3. PICK r \in Request: /\ Becomes(q, r) /\ r.run = req[q].run
                            /\ r.pc \in {"starting", "ended"} /\ r.up \in {"off", "closed"}
                            /\ r.pc = "starting" => r.up = "off"
    <3>1. CASE End(q)
      BY <1>1, <3>1, EndedGoesOn DEF GoesOn
    <3>2. CASE Goto(q, "starting")
      <4> DEFINE r == [req[q] EXCEPT !.pc = "starting"]
      <4>1. r \in Request /\ r.run = req[q].run /\ r.pc = "starting" /\ r.up = "off"
        BY <1>1
      <4>2. Becomes(q, r)
        BY <1>1, <3>2 DEF Goto, Becomes
      <4> HIDE DEF r
      <4> QED
        BY <4>1, <4>2
    <3> QED
      BY <3>1, <3>2 DEF Admit
  <2> QED
    BY <1>1, <1>4, <2>1, <2>2, <2>3, AdmitFresh
<1> QED
  BY <1>2, <1>3, <1>4

\* persist_authorized_memory: the transcript is known committed, so no stop was
\* acknowledged.
LEMMA RememberInv ==
    ASSUME IInv, NEW q \in Requests, Remember(q)
    PROVE  IInv'
<1>1. Generates(q) /\ req[q].up = "saved" /\ Advance(q, "saved")
      /\ memory' = memory \cup {q}
      /\ UNCHANGED <<conv, run, journal, saved, wire, acked>>
  BY DEF Remember
<1>2. PICK r \in Request: Becomes(q, r) /\ GoesOn(q, r)
  BY <1>1, AdvanceGoesOn
<1>3. /\ req' \in [Requests -> Request] /\ req'[q] = r
      /\ \A p \in Requests \ {q}: req'[p] = req[p]
  BY <1>2, BecomesOne
<1>4. /\ req[q].run \in Runs
      /\ \A x \in Runs: RowShape(x) /\ JournalShape(x)
      /\ \A p \in Requests: ReqShape(p) /\ StopStands(p)
      /\ \A x \in Runs, p \in Requests: Succeeded(x, p)
  BY <1>2 DEF IInv, ReqShape, GoesOn
<1>5. TypeOK' /\ journal' \in [Runs -> Seq(Events)]
  BY <1>1, <1>3 DEF IInv, TypeOK
<1>6. q \notin acked
  BY <1>1, <1>4 DEF StopStands
<1>7. ASSUME NEW p \in Requests PROVE ReqShape(p)' /\ StopStands(p)'
  <2>1. CASE p = q
    BY <1>1, <1>2, <1>3, <1>4, <1>6, <2>1 DEF ReqShape, StopStands, GoesOn
  <2>2. CASE p # q
    BY <1>1, <1>3, <1>4, <2>2 DEF ReqShape, StopStands
  <2> QED
    BY <2>1, <2>2
<1>8. ASSUME NEW x \in Runs PROVE RowShape(x)' /\ JournalShape(x)'
  <2>1. RowShape(x) /\ JournalShape(x)
    BY <1>4
  <2>2. RowShape(x)'
    BY <1>1, <1>2, <1>3, <2>1 DEF RowShape, GoesOn
  <2>3. run[x].exec = q \/ run[x].exec \in Requests \ {q} \/ journal[x] = <<>>
    BY <2>1 DEF RowShape
  <2>4. \A i \in 1..Len(journal[x]): journal[x][i] \in TerminalEvents =>
          req'[run[x].exec].pc \in Quiet /\ req'[run[x].exec].msg = "closed"
    BY <1>2, <1>3, <2>1, <2>3 DEF JournalShape, GoesOn
  <2> QED
    BY <1>1, <2>1, <2>2, <2>4 DEF JournalShape
<1>9. ASSUME NEW x \in Runs, NEW p \in Requests PROVE Succeeded(x, p)'
  BY <1>1, <1>3, <1>4 DEF Succeeded
<1> QED
  BY <1>5, <1>7, <1>8, <1>9 DEF IInv

\* delete_conversation.
LEMMA DeleteInv ==
    ASSUME IInv, DeleteConversation
    PROVE  IInv'
<1>1. /\ \A x \in Runs: run'[x] = AbsentRow /\ journal'[x] = <<>>
      /\ run' \in [Runs -> Row] /\ journal' \in [Runs -> Seq(Events)]
      /\ saved' = {} /\ conv' = "deleted" /\ UNCHANGED <<memory, req, wire, acked>>
  BY NoRow DEF DeleteConversation
<1>2. TypeOK'
  BY <1>1, ChatRunAssumption DEF IInv, TypeOK
<1>3. ASSUME NEW q \in Requests PROVE ReqShape(q)' /\ StopStands(q)'
  <2>1. ReqShape(q) /\ StopStands(q) /\ \A x \in Runs: run'[x].exec # q
    BY <1>1, NoRow, ChatRunAssumption DEF IInv
  <2> QED
    BY <1>1, <2>1 DEF ReqShape, StopStands
<1>4. ASSUME NEW x \in Runs PROVE RowShape(x)' /\ JournalShape(x)'
  <2>1. RowShape(x)'
    BY <1>1, NoRow, ChatRunAssumption DEF RowShape
  <2>2. ~\E i \in 1..Len(journal'[x]): TRUE
    BY <1>1
  <2> QED
    BY <2>1, <2>2 DEF JournalShape
<1>5. \A x \in Runs, q \in Requests: Succeeded(x, q)'
  BY <1>1, NoRow, ChatRunAssumption DEF Succeeded
<1> QED
  BY <1>1, <1>2, <1>3, <1>4, <1>5 DEF IInv

-----------------------------------------------------------------------------
(* The theorems. *)

\* Every step keeps the invariant.
LEMMA NextInv == IInv /\ [Next]_vars => IInv'
<1> SUFFICES ASSUME IInv, [Next]_vars PROVE IInv'
  OBVIOUS
<1>1. ASSUME NEW q \in Requests, GeneratorStep(q) PROVE IInv'
  <2>1. ASSUME NEW chunk \in Chunks, Yields(q, chunk) PROVE IInv'
    BY <2>1, YieldsInv
  <2>2. ASSUME NEW reply \in Replies, Ensure(q, reply) \/ Commit(q, reply) PROVE IInv'
    BY <2>2, EnsureInv, CommitInv
  <2>3. CASE Remember(q)
    BY <2>3, RememberInv
  <2>4. CASE UpstreamRaises(q)
    <3>1. "ok" \in Replies
      BY DEF Replies
    <3> QED
      BY <2>4, <3>1, CoordinatorMoves
  <2> QED
    BY <1>1, <2>1, <2>2, <2>3, <2>4 DEF GeneratorStep
<1>2. ASSUME NEW q \in Requests, CoordinatorStep(q) PROVE IInv'
  <2>1. CASE Take(q)
    <3>1. "ok" \in Replies
      BY DEF Replies
    <3> QED
      BY <2>1, <3>1, CoordinatorMoves
  <2>2. ASSUME NEW closed \in {TRUE, "failed" \notin Faults}, Close(q, closed) PROVE IInv'
    <3>1. closed \in BOOLEAN
      OBVIOUS
    <3> QED
      BY <2>2, <3>1, CloseInv
  <2>3. ASSUME NEW reply \in Replies,
               \/ Admit(q, reply) \/ Begin(q, reply) \/ FailUnstarted(q, reply)
               \/ \E content \in BOOLEAN: Project(q, reply, content)
               \/ FailRun(q, reply) \/ Settle(q, reply) \/ Deliver(q, reply)
               \/ Report(q, reply)
        PROVE  IInv'
    BY <2>3, AdmitInv, BeginInv, FailUnstartedInv, ProjectInv, FailRunInv, SettleInv,
       DeliverInv, ReportInv
  <2>4. ASSUME NEW reply \in Replies,
               \/ AskCancel(q, reply) \/ AskCompleted(q, reply) \/ CheckStop(q, reply)
               \/ Verify(q, reply) \/ Recheck(q, reply)
        PROVE  IInv'
    BY <2>4, CoordinatorMoves
  <2> QED
    BY <1>2, <2>1, <2>2, <2>3, <2>4 DEF CoordinatorStep
<1>3. ASSUME NEW q \in Requests, Heartbeat(q) PROVE IInv'
  BY <1>3, CoordinatorMoves DEF Heartbeat
<1>4. ASSUME NEW q \in Requests, Disconnect(q) PROVE IInv'
  <2>1. "ok" \in Replies
    BY DEF Replies
  <2> QED
    BY <1>4, <2>1, CoordinatorMoves
<1>5. CASE UNCHANGED vars
  BY <1>5 DEF vars, IInv, TypeOK, ReqShape, StopStands, RowShape, JournalShape, Succeeded
<1> QED
  BY <1>1, <1>2, <1>3, <1>4, <1>5, SendInv, CrashInv, RequestCancelInv, LeaseExpiresInv,
     DeleteInv DEF Next

\* The inductive invariant holds of every behaviour.
THEOREM ChatInvariant == Spec => []IInv
<1> QED
  BY InitInv, NextInv, PTL DEF Spec

\* The rows, the journals and the requests of durable chat runs have their
\* types; no journal grows past _MAX_EVENTS_PER_RUN.
THEOREM ChatTypes == Spec => []TypeOK
<1>1. IInv => TypeOK
  BY DEF IInv
<1> QED
  BY <1>1, ChatInvariant, PTL

\* A stop that request_cancel answered "cancelling" is never followed by a saved
\* or remembered answer, or by RUN_FINISHED.
THEOREM ChatStopWins == Spec => []StopWins
<1>1. IInv => StopWins
  BY DEF IInv, TypeOK, StopStands, StopWins
<1> QED
  BY <1>1, ChatInvariant, PTL

\* What was remembered or reported finished is a completed run whose messages
\* add_completed_turn committed.
THEOREM ChatSuccessIsCommitted == Spec => []SuccessIsCommitted
<1>1. IInv => SuccessIsCommitted
  BY DEF IInv, Succeeded, Mine, SuccessIsCommitted
<1> QED
  BY <1>1, ChatInvariant, PTL

\* append_projected_event's conditions suffice: a journal has at most one terminal
\* event, its last, and it agrees with the run's status.
THEOREM ChatJournalAgrees == Spec => []JournalAgrees
<1>1. IInv => JournalAgrees
  BY DEF IInv, JournalShape, JournalAgrees
<1> QED
  BY <1>1, ChatInvariant, PTL

\* A run that is recorded cancelled has its generator closed by
\* close_upstream(strict).
THEOREM ChatCancelledIsStopped == Spec => []CancelledIsStopped
<1>1. IInv => CancelledIsStopped
  BY DEF IInv, RowShape, CancelledIsStopped
<1> QED
  BY <1>1, ChatInvariant, PTL

\* A terminal row: finish, add_completed_turn, request_cancel, the sweep of admit
\* and a passing lease do not touch it, deletion removes it.
LEMMA TerminalStep ==
    ASSUME IInv, Next, NEW x \in Runs, run[x].status \in Terminal
    PROVE  run'[x] = run[x] \/ run'[x] = AbsentRow
<1>1. run \in [Runs -> Row]
  BY DEF IInv, TypeOK
<1>2. ASSUME NEW q \in Requests, NEW status \in {"failed", "cancelled"}, NEW reply,
             Finish(q, status, reply)
      PROVE  run'[x] = run[x]
  BY <1>1, <1>2 DEF Finish, Finishable
<1>3. ASSUME NEW q \in Requests, NEW reply \in Replies, Admit(q, reply)
      PROVE  run'[x] = run[x]
  <2>1. Swept(run[x]) = run[x]
    BY DEF Swept
  <2> QED
    BY <1>1, <1>3, <2>1 DEF Admit
<1>4. ASSUME NEW q \in Requests, NEW reply \in Replies, Commit(q, reply)
      PROVE  run'[x] = run[x]
  BY <1>1, <1>4 DEF Commit, Renewable
<1>5. ASSUME NEW y \in Runs, \/ LeaseExpires(y)
                             \/ \E reply \in Replies: RequestCancel(y, reply)
      PROVE  run'[x] = run[x]
  BY <1>1, <1>5 DEF LeaseExpires, RequestCancel
<1>6. DeleteConversation => run'[x] = AbsentRow
  BY DEF DeleteConversation
<1>7. ASSUME NEW q \in Requests, GeneratorStep(q) PROVE run'[x] = run[x]
  BY <1>4, <1>7 DEF GeneratorStep, Yields, Ensure, Remember, UpstreamRaises
<1>8. ASSUME NEW q \in Requests, CoordinatorStep(q) PROVE run'[x] = run[x]
  <2>1. ASSUME NEW reply \in Replies,
               FailUnstarted(q, reply) \/ FailRun(q, reply) \/ Settle(q, reply)
        PROVE  run'[x] = run[x]
    <3>1. PICK status \in {"failed", "cancelled"}: Finish(q, status, reply)
      BY <2>1 DEF FailUnstarted, FailRun, Settle
    <3> QED
      BY <1>2, <3>1
  <2>2. ASSUME NEW reply \in Replies,
               \/ Begin(q, reply) \/ AskCancel(q, reply) \/ AskCompleted(q, reply)
               \/ \E content \in BOOLEAN: Project(q, reply, content)
               \/ CheckStop(q, reply) \/ Verify(q, reply) \/ Recheck(q, reply)
               \/ Deliver(q, reply) \/ Report(q, reply)
        PROVE  run' = run
    BY <2>2 DEF Begin, AskCancel, AskCompleted, Project, CheckStop, Verify, Recheck,
                Deliver, Report
  <2>3. ASSUME NEW closed, Take(q) \/ Close(q, closed) PROVE run' = run
    BY <2>3 DEF Take, Close
  <2> QED
    BY <1>3, <1>8, <2>1, <2>2, <2>3 DEF CoordinatorStep
<1>9. ASSUME NEW q \in Requests,
             \/ \E y \in Runs: Send(q, y)
             \/ Heartbeat(q) \/ Disconnect(q) \/ Crash(q)
      PROVE  run' = run
  BY <1>9 DEF Send, Heartbeat, Renew, Disconnect, Crash
<1> QED
  BY <1>5, <1>6, <1>7, <1>8, <1>9 DEF Next

\* A run ends once, whoever tries to end it.
THEOREM ChatTerminalOnce == Spec => TerminalOnce
<1>1. IInv /\ [Next]_vars =>
        [\A x \in Runs: run[x].status \in Terminal =>
            run'[x] = run[x] \/ run'[x] = AbsentRow]_vars
  <2> HIDE DEF Terminal
  <2> QED
    BY TerminalStep
<1> QED
  BY <1>1, ChatInvariant, PTL DEF Spec, TerminalOnce

=============================================================================
