---------------------------- MODULE FencedLease ----------------------------
(***************************************************************************)
(* What every claim in the automation repositories promises, whatever it   *)
(* is a claim on: a row (resource) is granted to one owner at a time under *)
(* a fresh token; the grant lapses with time; only the token it was        *)
(* granted under settles the row; nobody's knowledge of a token has to be  *)
(* current.  Queue items, saved tasks and cron schedules implement it.     *)
(***************************************************************************)
EXTENDS Naturals

CONSTANTS Resources,   \* rows that can be claimed
          Owners,      \* processes that claim them
          None         \* "believes to hold nothing"

VARIABLES token,       \* token[r]: claim_token, 0 for NULL
          lease,       \* lease[r]: claim_expires_at, compared with the clock
          gone,        \* rows that were deleted
          belief,      \* belief[o]: the row and token o holds in its memory
          next         \* the next token

vars == <<token, lease, gone, belief, next>>

\* What o believes is what the row says: o may settle the row.
Valid(o) == belief[o] # None /\ token[belief[o][1]] = belief[o][2]

Expired == {r \in Resources: lease[r] = "expired"}

\* A row without a live grant is granted under a token never used before; the
\* new owner may not hear of it, and expired grants may be swept on the way.
Acquire(o, r, swept) ==
    /\ r \notin gone
    /\ lease[r] # "live"
    /\ token' = [x \in Resources |-> IF x = r THEN next
                                     ELSE IF x \in swept THEN 0 ELSE token[x]]
    /\ lease' = [x \in Resources |-> IF x = r THEN "live"
                                     ELSE IF x \in swept THEN "null" ELSE lease[x]]
    /\ belief' \in {belief, [belief EXCEPT ![o] = <<r, next>>]}
    /\ next' = next + 1
    /\ UNCHANGED gone

Sweep(swept) ==
    /\ token' = [x \in Resources |-> IF x \in swept THEN 0 ELSE token[x]]
    /\ lease' = [x \in Resources |-> IF x \in swept THEN "null" ELSE lease[x]]
    /\ UNCHANGED <<gone, belief, next>>

\* The row is settled by the owner it was granted to last.
Release(o) ==
    /\ Valid(o)
    /\ token' = [token EXCEPT ![belief[o][1]] = 0]
    /\ lease' = [lease EXCEPT ![belief[o][1]] = "null"]
    /\ belief' \in {belief, [belief EXCEPT ![o] = None]}
    /\ UNCHANGED <<gone, next>>

Forget(o) ==
    /\ belief' = [belief EXCEPT ![o] = None]
    /\ UNCHANGED <<token, lease, gone, next>>

Lapse(r) ==
    /\ lease[r] = "live"
    /\ lease' = [lease EXCEPT ![r] = "expired"]
    /\ UNCHANGED <<token, gone, belief, next>>

\* The row is deleted, granted or not, and never granted again.
Withdraw(r) ==
    /\ token' = [token EXCEPT ![r] = 0]
    /\ lease' = [lease EXCEPT ![r] = "null"]
    /\ gone' = gone \cup {r}
    /\ UNCHANGED <<belief, next>>

-----------------------------------------------------------------------------

Init ==
    /\ token = [r \in Resources |-> 0]
    /\ lease = [r \in Resources |-> "null"]
    /\ gone = {}
    /\ belief = [o \in Owners |-> None]
    /\ next = 1

Next ==
    \/ \E o \in Owners, r \in Resources, swept \in SUBSET Expired:
          Acquire(o, r, swept)
    \/ \E swept \in SUBSET Expired: Sweep(swept)
    \/ \E o \in Owners: Release(o) \/ Forget(o)
    \/ \E r \in Resources: Lapse(r) \/ Withdraw(r)

Spec == Init /\ [][Next]_vars

-----------------------------------------------------------------------------
(* What it guarantees. *)

\* No two owners may settle the same row.
OneSettler ==
    \A o, p \in Owners:
        Valid(o) /\ Valid(p) /\ belief[o][1] = belief[p][1] => o = p

\* An owner that lost its grant never gets it back.
StaleForGood ==
    [][\A o \in Owners: belief[o] # None /\ ~Valid(o) /\ belief'[o] = belief[o] =>
          token'[belief[o][1]] # belief[o][2]]_vars

=============================================================================
