-------------------------- MODULE MCQuorumSigning --------------------------
(* One quorum of two masternodes, one of which need not follow the code.      *)
EXTENDS QuorumSigning, TLC

CONSTANTS n1, n2, q1, id1, m1, m2, v1

TwoMembers == q1 :> {n1, n2}
OnlyFirst == [v \in Views |-> [id \in Ids |-> q1]]

Symmetric == Permutations(Honest) \cup Permutations(Msgs)
=============================================================================
