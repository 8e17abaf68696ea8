---------------------------- MODULE MCChainState ----------------------------
(* Three branches: a1-a2-a3-a4 and b1-b2 from the genesis block, c2 from a1.  *)
(* A configuration uses the part of the tree its Blocks name.                *)
EXTENDS ChainState, TLC

CONSTANTS g, a1, a2, a3, a4, b1, b2, c2

TreeParent ==
  LET parent == a1 :> g @@ a2 :> a1 @@ a3 :> a2 @@ a4 :> a3 @@ b1 :> g @@ b2 :> b1 @@ c2 :> a1
  IN  [b \in Blocks \ {Genesis} |-> parent[b]]
AncestryOf[b \in Blocks] == IF b = Genesis THEN {b} ELSE {b} \cup AncestryOf[Parent[b]]
TreeAncestry == [b \in Blocks |-> AncestryOf[b]]
TreeHeight == [b \in Blocks |-> Cardinality(TreeAncestry[b]) - 1]
TreeAddress ==
  LET address == g :> 1 @@ a1 :> 2 @@ b1 :> 3 @@ c2 :> 4 @@ a2 :> 5 @@ b2 :> 6 @@ a3 :> 7 @@ a4 :> 8
  IN  [b \in Blocks |-> address[b]]
UnitWork == [b \in Blocks |-> Cardinality(TreeAncestry[b])]
\* a2 has less work than c2, c2 than b1 and b1 than a3: without a3 the best chain
\* is b1, which is too deep to switch to from a2, and c2 is the next.
UnevenWork ==
  LET work == g :> 1 @@ a1 :> 2 @@ a2 :> 3 @@ c2 :> 4 @@ b1 :> 5 @@ a3 :> 6 @@ a4 :> 7
  IN  [b \in Blocks |-> work[b]]
=============================================================================
