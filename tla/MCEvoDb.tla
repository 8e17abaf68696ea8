------------------------------- MODULE MCEvoDb -------------------------------
(* Two branches over genesis, one of three blocks and one of two; evo       *)
(* records start at height 2.                                               *)
EXTENDS EvoDb, TLC

CONSTANTS g, a1, a2, a3, b1, b2

MCBlocks == {g, a1, a2, a3, b1, b2}
MCParent == a1 :> g @@ a2 :> a1 @@ a3 :> a2 @@ b1 :> g @@ b2 :> b1
MCHeight == g :> 0 @@ a1 :> 1 @@ a2 :> 2 @@ a3 :> 3 @@ b1 :> 1 @@ b2 :> 2
MCAncestors ==
  g :> {g} @@ a1 :> {g, a1} @@ a2 :> {g, a1, a2} @@ a3 :> {g, a1, a2, a3}
  @@ b1 :> {g, b1} @@ b2 :> {g, b1, b2}
=============================================================================
