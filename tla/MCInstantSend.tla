--------------------------- MODULE MCInstantSend ---------------------------
(* Two competing blocks: a1 confirms tp; b1, which has more work, confirms tx, *)
(* which spends the same coin.  tc spends tp; tf is an old transaction that    *)
(* pays for both tp and tx.                                                    *)
EXTENDS InstantSend, TLC

CONSTANTS g, a1, b1, tf, tp, tc, tx

TreeParent == (a1 :> g) @@ (b1 :> g)
TreeAncestry == (g :> {g}) @@ (a1 :> {g, a1}) @@ (b1 :> {g, b1})
TreeHeight == (g :> 0) @@ (a1 :> 1) @@ (b1 :> 1)
TreeWork == (g :> 1) @@ (a1 :> 2) @@ (b1 :> 3)

MCInputs == (tp :> {<<tf, 0>>}) @@ (tx :> {<<tf, 0>>}) @@ (tc :> {<<tp, 0>>})
MCBlockTxs == (g :> <<>>) @@ (a1 :> <<tp>>) @@ (b1 :> <<tx>>)
=============================================================================
