----------------------------- MODULE MCLelantus -----------------------------
(* Two branches over a1.  Groups hold 4 coins and borrow 3, so each branch    *)
(* opens groups 2 and 3.                                                      *)
EXTENDS Lelantus

CONSTANTS g, a1, a2, a3, a4, b2, b3, b4

TreeParent ==
  (a1 :> g) @@ (a2 :> a1) @@ (a3 :> a2) @@ (a4 :> a3) @@ (b2 :> a1) @@ (b3 :> b2) @@ (b4 :> b3)
TreeAncestry ==
  [b \in Blocks |->
     {g} \cup (CASE b = g -> {} [] b = a1 -> {a1} [] b = a2 -> {a1, a2}
                 [] b = a3 -> {a1, a2, a3} [] b = a4 -> {a1, a2, a3, a4}
                 [] b = b2 -> {a1, b2} [] b = b3 -> {a1, b2, b3} [] b = b4 -> {a1, b2, b3, b4})]
TreeHeight == [b \in Blocks |-> Cardinality(TreeAncestry[b]) - 1]
TreeAddress ==
  LET address == g :> 1 @@ a1 :> 2 @@ a2 :> 3 @@ b2 :> 4 @@ a3 :> 5 @@ b3 :> 6 @@ a4 :> 7 @@ b4 :> 8
  IN  [b \in Blocks |-> address[b]]
UnitWork == [b \in Blocks |-> Cardinality(TreeAncestry[b])]

Spend(c, id) == [coin |-> c, group |-> id]

Mints ==
  (g :> {}) @@ (a1 :> {1, 2}) @@ (a2 :> {3, 4}) @@ (a3 :> {5}) @@ (a4 :> {6}) @@
  (b2 :> {5}) @@ (b3 :> {3, 4}) @@ (b4 :> {6, 7})

\* Spends of borrowed coins in either group, twice the same coin along a branch,
\* and a serial without a coin.
SpendChoices ==
  {(g :> {}) @@ (a1 :> {}) @@ (a2 :> x2) @@ (a3 :> x3) @@ (a4 :> x4) @@
   (b2 :> y[1]) @@ (b3 :> {}) @@ (b4 :> y[2]) :
     x2 \in {{}, {Spend(1, 1)}, {Spend(8, 1), Spend(9, 1), Spend(1, 1)}},
     x3 \in {{}, {Spend(3, 1)}, {Spend(1, 1), Spend(2, 1)}, {Spend(2, 1), Spend(3, 1)}},
     x4 \in {{}, {Spend(3, 2), Spend(4, 2)}, {Spend(1, 2)}, {Spend(4, 1), Spend(4, 2)},
             {Spend(c, 2) : c \in 1..4}},
     y \in {<<{}, {}>>, <<{}, {Spend(1, 2), Spend(5, 2)}>>, <<{Spend(1, 1)}, {Spend(1, 2), Spend(5, 2)}>>}}

MCBodies == {[b \in Blocks |-> [mints |-> Mints[b], spends |-> sp[b]]] : sp \in SpendChoices}

\* A group whose borrowed blocks have unlike numbers of coins.
UnevenMints ==
  (g :> {}) @@ (a1 :> {1, 2, 3}) @@ (a2 :> {4}) @@ (a3 :> {5}) @@ (a4 :> {6}) @@
  (b2 :> {}) @@ (b3 :> {}) @@ (b4 :> {})
UnevenBodies == {[b \in Blocks |-> [mints |-> UnevenMints[b], spends |-> {}]]}
=============================================================================
