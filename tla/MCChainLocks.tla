---------------------------- MODULE MCChainLocks ----------------------------
(***************************************************************************)
(* Instances of ChainLocks: a chain a1-a2 and a chain b1-b2 from the       *)
(* genesis block g.                                                        *)
(***************************************************************************)
EXTENDS ChainLocks, TLC

CONSTANTS g, a1, a2, b1, b2

ASSUME Roles == Threads = {msghand, scheduler} /\ sigshares \notin Threads

TreeParent ==
  LET parent == a1 :> g @@ a2 :> a1 @@ b1 :> g @@ b2 :> b1
  IN  [b \in Blocks \ {Genesis} |-> parent[b]]
AncestryOf[b \in Blocks] == IF b = Genesis THEN {b} ELSE {b} \cup AncestryOf[Parent[b]]
TreeAncestry == [b \in Blocks |-> AncestryOf[b]]
TreeHeight == [b \in Blocks |-> Cardinality(TreeAncestry[b]) - 1]
TreeAddress ==
  LET address == g :> 1 @@ a1 :> 2 @@ b1 :> 3 @@ a2 :> 4 @@ b2 :> 5
  IN  [b \in Blocks |-> address[b]]
UnitWork == [b \in Blocks |-> Cardinality(TreeAncestry[b])]

CLSig(b) == [nHeight |-> Height[b], blockHash |-> b]

LockA1A2 == {CLSig(a1), CLSig(a2)}
LockA1 == {CLSig(a1)}
LockA2 == {CLSig(a2)}
NoCLSigs == {}
=============================================================================
