--------------------------- MODULE SigningService ---------------------------
(***************************************************************************)
(* What CSigningManager promises the code that uses it (ChainLocks,        *)
(* InstantSend; quorums_signing.h): one after the other, recovered         *)
(* signatures come into being, and within one quorum an id gets only one   *)
(* message signed until votes are old enough to be forgotten.  Nodes,      *)
(* votes, shares, crashes and messages do not show.                        *)
(***************************************************************************)
EXTENDS Naturals

CONSTANTS Quorums, Ids, Msgs, maxAge

VARIABLES now, recovered

Session == [quorum : Quorums, id : Ids, msgHash : Msgs]

Conflict(r, s) == r.quorum = s.quorum /\ r.id = s.id /\ r.msgHash # s.msgHash

Init == now = 0 /\ recovered = {}

Recover(s) ==
  /\ \A r \in recovered : Conflict(r, s) => now > maxAge
  /\ recovered' = recovered \cup {s}
  /\ UNCHANGED now

Tick == now' = now + 1 /\ UNCHANGED recovered

Next == Tick \/ \E s \in Session : Recover(s)

Spec == Init /\ [][Next]_<<now, recovered>>
=============================================================================
