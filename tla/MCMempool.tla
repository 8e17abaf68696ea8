------------------------------ MODULE MCMempool ------------------------------
(* Block m, then two branches: a2 a3, and b2 b3 b4 which conflicts with the    *)
(* first one.  tp - tc - td and tp - tc - tn are chains of payments that       *)
(* branch a confirms in part, tx spends tp's coin on branch b, te replaces tc, *)
(* tk spends the coinbase of m, tl has a lock time, and the joinsplit js of b2 *)
(* uses the serials of j1 and j2.  f is an old transaction that pays for all   *)
(* of it.                                                                      *)
EXTENDS Mempool

CONSTANTS g, f, m, a2, a3, b2, b3, b4, tp, tq, tc, td, tn, te, tx, tk, tl, j1, j2, js

TreeParent == (m :> g) @@ (a2 :> m) @@ (a3 :> a2) @@ (b2 :> m) @@ (b3 :> b2) @@ (b4 :> b3)
TreeAncestry ==
  [b \in Blocks |->
     {g} \cup (CASE b = g -> {} [] b = m -> {m} [] b = a2 -> {m, a2} [] b = a3 -> {m, a2, a3}
                 [] b = b2 -> {m, b2} [] b = b3 -> {m, b2, b3} [] b = b4 -> {m, b2, b3, b4})]
TreeHeight == [b \in Blocks |-> Cardinality(TreeAncestry[b]) - 1]
TreeAddress ==
  LET address == g :> 1 @@ m :> 2 @@ a2 :> 3 @@ b2 :> 4 @@ a3 :> 5 @@ b3 :> 6 @@ b4 :> 7
  IN  [b \in Blocks |-> address[b]]
UnitWork == [b \in Blocks |-> Cardinality(TreeAncestry[b])]

F == <<f, 1>>
H == <<f, 2>>
MCFunding == {F, H}

MCInputs ==
  (tp :> {F}) @@ (tq :> {H}) @@ (tc :> {<<tp, 1>>}) @@ (td :> {<<tc, 1>>, <<tp, 2>>}) @@
  (tn :> {<<tc, 2>>}) @@ (te :> {<<tp, 1>>}) @@ (tx :> {F}) @@ (tk :> {<<m, 1>>}) @@ (tl :> {<<tq, 1>>}) @@
  (j1 :> {}) @@ (j2 :> {}) @@ (js :> {})

MCSerials ==
  [t \in Txs |-> CASE t = j1 -> <<1>> [] t = j2 -> <<2>> [] t = js -> <<1, 2>> [] OTHER -> <<>>]

MCFee ==
  (tp :> 1) @@ (tq :> 9) @@ (tc :> 4) @@ (td :> 3) @@ (tn :> 12) @@ (te :> 13) @@ (tx :> 2) @@ (tk :> 5) @@
  (tl :> 6) @@ (j1 :> 7) @@ (j2 :> 8) @@ (js :> 10)

MCLockTime == [t \in Txs |-> IF t = tl THEN 2 ELSE 0]
MCDeltas == tc :> 20
MCBlockTxs ==
  [b \in Blocks |-> CASE b = a2 -> <<tp, tq>> [] b = a3 -> <<tc, tn>> [] b = b2 -> <<tx, js>>
                      [] OTHER -> <<>>]
=============================================================================
