-------------------------- MODULE MCModelDownload --------------------------
(* ModelDownload for TLC: the jobs share one target; the executions are     *)
(* interchangeable.                                                         *)
EXTENDS ModelDownload, TLC

OneModel == [t \in Targets |-> CHOOSE m \in Models: TRUE]
OneTarget == [j \in Jobs |-> CHOOSE t \in Targets: TRUE]

Symmetry == Permutations(Workers)

\* Where a target has had two owners, only RefusedNotInstalled is claimed: the
\* run does not go on from there.
Undoubled == doubled = {}

\* The view leaves out what no later step and no property tells apart: how a
\* row that will not change again got there, locals that are not read again,
\* and what tokens out of reach left behind on the disk.
RowView(r) ==
    IF r.status \in {"failed", "cancelled", "deleted"} THEN "over"
    ELSE IF r.status = "completed" THEN "completed" ELSE r
WorkerView(x) ==
    [x EXCEPT !.safe = @ /\ x.pc \in {"rollback", "removing"},
              !.cancelled = @ \/ x.pc \in {"idle", "cancelling", "cleaning"}]
View == LET k0 == InUse IN
        <<[j \in Jobs |-> RowView(row[j])], [w \in Workers |-> WorkerView(worker[w])],
          final, registry, installed, refused \cap Used, doubled, overrun,
          [k \in Tokens \cap k0 |-> disk[k]]>>

=============================================================================
