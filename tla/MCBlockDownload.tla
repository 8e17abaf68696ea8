-------------------------- MODULE MCBlockDownload --------------------------
(* A chain g-a1-a2, an honest peer and one that need not answer.             *)
EXTENDS BlockDownload

CONSTANTS g, a1, a2, honest, silent

TreeParent == [b \in Blocks \ {Genesis} |-> IF b = a2 THEN a1 ELSE g]
TreeAncestry == [b \in Blocks |-> {b, g} \cup (IF b = a2 THEN {a1} ELSE {})]
TreeHeight == [b \in Blocks |-> Cardinality(TreeAncestry[b]) - 1]
UnitWork == [b \in Blocks |-> Cardinality(TreeAncestry[b])]
=============================================================================
