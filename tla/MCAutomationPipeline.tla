----------------------- MODULE MCAutomationPipeline -----------------------
(* AutomationPipeline for TLC: every item names the same task.              *)
EXTENDS AutomationPipeline, TLC

OneTask == [i \in Items |-> CHOOSE t \in Tasks: TRUE]

Symmetry == Permutations(Workers)

=============================================================================
