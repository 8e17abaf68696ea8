---------------------------- MODULE QuorumSigning ----------------------------
(***************************************************************************)
(* Threshold signing among masternodes: CSigningManager (votes, recovered  *)
(* signatures, llmq/quorums_signing.cpp) and the part of CSigSharesManager *)
(* that signs, collects and combines signature shares.  ChainLocks and     *)
(* InstantSend both rest on it: they ask for a signature on (id, msgHash)  *)
(* and rely on at most one msgHash per id being signed.                    *)
(*                                                                         *)
(* The network is two growing sets, every share and every recovered        *)
(* signature ever sent; receiving is choosing from them, so messages may   *)
(* be lost, delayed, reordered and repeated.  Faulty masternodes sign      *)
(* anything.  The others run this code, may crash and restart, and keep    *)
(* votes and recovered signatures on disk.                                 *)
(***************************************************************************)
EXTENDS Integers, FiniteSets

CONSTANTS
  Nodes,        \* masternodes
  Faulty,       \* those that do not run this code
  Quorums, Members, threshold,
  Ids, Msgs,
  Views,        \* what a node's active chain says about the quorums
  SelectQuorumForSigning,  \* the quorum for an id in a view
  NoQuorum,     \* no quorum could be selected
  None,         \* no entry in the database
  maxAge,       \* -recsigsmaxage
  MaxTime       \* bound on the clock

ASSUME SigningAssumption ==
  /\ Faulty \subseteq Nodes
  /\ Members \in [Quorums -> SUBSET Nodes]
  /\ \A q \in Quorums : IsFiniteSet(Members[q])
  /\ threshold \in Nat \ {0}
  /\ SelectQuorumForSigning \in [Views -> [Ids -> Quorums \cup {NoQuorum}]]
  /\ NoQuorum \notin Quorums
  /\ maxAge \in Nat /\ MaxTime \in Nat

\* The threshold parameters are chosen so that two sets of signers of one quorum
\* share a member that is not faulty.
ASSUME ThresholdAssumption ==
  \A q \in Quorums :
    2 * threshold > Cardinality(Members[q]) + Cardinality(Members[q] \cap Faulty)

Session == [quorum : Quorums, id : Ids, msgHash : Msgs]
SigShare == [session : Session, member : Nodes]
Vote == [msgHash : Msgs, time : Nat]
Stored == [sig : Session, time : Nat]
Honest == Nodes \ Faulty

ASSUME NoneAssumption == None \notin Vote /\ None \notin Stored

VARIABLES
  now,            \* GetAdjustedTime
  view,           \* per node, the view of its active chain
  votes,          \* per node and id, the "rs_v" and "rs_vt" entries
  recSigs,        \* per node and id, the "rs_r" and "rs_t" entries
  pendingSigns,   \* per node, sessions waiting for the worker thread
  sigShares,      \* per node, verified shares it holds
  shares,         \* every share ever sent
  recovered,      \* every recovered signature ever made
  history         \* every vote ever written: node, id, msgHash and time

vars == <<now, view, votes, recSigs, pendingSigns, sigShares, shares, recovered, history>>

\* The variables have their types; the entries of an id in the database are for it.
TypeOK ==
  /\ now \in Nat
  /\ view \in [Honest -> Views]
  /\ votes \in [Honest -> [Ids -> Vote \cup {None}]]
  /\ recSigs \in [Honest -> [Ids -> Stored \cup {None}]]
  /\ \A n \in Honest, id \in Ids : recSigs[n][id] # None => recSigs[n][id].sig.id = id
  /\ pendingSigns \in [Honest -> SUBSET Session]
  /\ sigShares \in [Honest -> SUBSET SigShare]
  /\ shares \subseteq SigShare
  /\ recovered \subseteq Session
  /\ history \subseteq [node : Honest, id : Ids, msgHash : Msgs, time : Nat]

Init ==
  /\ now = 0
  /\ view \in [Honest -> Views]
  /\ votes = [n \in Honest |-> [id \in Ids |-> None]]
  /\ recSigs = [n \in Honest |-> [id \in Ids |-> None]]
  /\ pendingSigns = [n \in Honest |-> {}]
  /\ sigShares = [n \in Honest |-> {}]
  /\ shares = {}
  /\ recovered = {}
  /\ history = {}

-----------------------------------------------------------------------------
HasRecoveredSigForId(n, id) == recSigs[n][id] # None

AsyncSignWithoutVote(n, id, msg, allowReSign) ==
  /\ ~HasRecoveredSigForId(n, id)
  /\ LET q == SelectQuorumForSigning[view[n]][id]
     IN  /\ q # NoQuorum /\ n \in Members[q]
         /\ pendingSigns' = [pendingSigns EXCEPT ![n] =
                               @ \cup {[quorum |-> q, id |-> id, msgHash |-> msg]}]
  /\ UNCHANGED <<now, view, votes, recSigs, sigShares, shares, recovered, history>>

\* AsyncSignIfMember up to the queue of the worker thread.  The vote is written
\* before the quorum is selected, so it stays when the node is no member.
AsyncSignIfMember(n, id, msg, allowReSign) ==
  LET hasVoted == votes[n][id] # None
      q == SelectQuorumForSigning[view[n]][id]
  IN  /\ hasVoted => votes[n][id].msgHash = msg /\ allowReSign
      /\ ~HasRecoveredSigForId(n, id)
      /\ votes' = IF hasVoted THEN votes
                  ELSE [votes EXCEPT ![n][id] = [msgHash |-> msg, time |-> now]]
      /\ history' = IF hasVoted THEN history
                    ELSE history \cup {[node |-> n, id |-> id, msgHash |-> msg, time |-> now]}
      /\ pendingSigns' = IF q # NoQuorum /\ n \in Members[q]
                         THEN [pendingSigns EXCEPT ![n] =
                                 @ \cup {[quorum |-> q, id |-> id, msgHash |-> msg]}]
                         ELSE pendingSigns
      /\ UNCHANGED <<now, view, recSigs, sigShares, shares, recovered>>

-----------------------------------------------------------------------------
SignersOf(held, s) == {n \in Nodes : [session |-> s, member |-> n] \in held}

\* Mutant: the entry lacks the time by which it is cleaned up.
ProcessRecoveredSigNoTime(n, s) ==
  recSigs' = IF HasRecoveredSigForId(n, s.id) THEN recSigs
             ELSE [recSigs EXCEPT ![n][s.id] = s]

\* ProcessRecoveredSig: the first recovered signature of an id is kept.
ProcessRecoveredSig(n, s) ==
  recSigs' = IF HasRecoveredSigForId(n, s.id) THEN recSigs
             ELSE [recSigs EXCEPT ![n][s.id] = [sig |-> s, time |-> now]]

\* Mutant: one share less than the threshold is enough.
ProcessSigShareOffByOne(n, share) ==
  LET s == share.session
      held == sigShares[n] \cup {share}
  IN  IF HasRecoveredSigForId(n, s.id) \/ share \in sigShares[n]
      THEN UNCHANGED <<sigShares, recSigs, recovered>>
      ELSE /\ sigShares' = [sigShares EXCEPT ![n] = held]
           /\ IF Cardinality(SignersOf(held, s)) >= threshold - 1
              THEN ProcessRecoveredSig(n, s) /\ recovered' = recovered \cup {s}
              ELSE UNCHANGED <<recSigs, recovered>>

\* ProcessSigShare and TryRecoverSig: keep a verified share and, with enough of
\* them, make the recovered signature.
ProcessSigShare(n, share) ==
  LET s == share.session
      held == sigShares[n] \cup {share}
  IN  IF HasRecoveredSigForId(n, s.id) \/ share \in sigShares[n]
      THEN UNCHANGED <<sigShares, recSigs, recovered>>
      ELSE /\ sigShares' = [sigShares EXCEPT ![n] = held]
           /\ IF Cardinality(SignersOf(held, s)) >= threshold
              THEN ProcessRecoveredSig(n, s) /\ recovered' = recovered \cup {s}
              ELSE UNCHANGED <<recSigs, recovered>>

\* Sign, by the worker thread.  The share is sent to the other members only if it
\* was kept, that is if the id had no recovered signature by then.
Sign(n, s) ==
  /\ s \in pendingSigns[n]
  /\ pendingSigns' = [pendingSigns EXCEPT ![n] = @ \ {s}]
  /\ ProcessSigShare(n, [session |-> s, member |-> n])
  /\ shares' = IF HasRecoveredSigForId(n, s.id) THEN shares
               ELSE shares \cup {[session |-> s, member |-> n]}
  /\ UNCHANGED <<now, view, votes, history>>

\* A verified share of a valid member reaches another member.
ReceiveSigShare(n, share) ==
  /\ n \in Members[share.session.quorum]
  /\ share.member \in Members[share.session.quorum]
  /\ ProcessSigShare(n, share)
  /\ UNCHANGED <<now, view, votes, pendingSigns, shares, history>>

\* A recovered signature reaches a node, as QRECSIG or inside another message.
ReceiveRecoveredSig(n, s) ==
  /\ ProcessRecoveredSig(n, s)
  /\ UNCHANGED <<now, view, votes, pendingSigns, sigShares, shares, recovered, history>>

-----------------------------------------------------------------------------
\* Mutant: votes expire one second early.
CleanupVotesEarly(n) ==
  /\ votes' = [votes EXCEPT ![n] = [id \in Ids |->
                 IF @[id] # None /\ @[id].time <= now - maxAge THEN None ELSE @[id]]]
  /\ UNCHANGED <<now, view, recSigs, pendingSigns, sigShares, shares, recovered, history>>

CleanupOldVotes(n) ==
  /\ votes' = [votes EXCEPT ![n] = [id \in Ids |->
                 IF @[id] # None /\ @[id].time < now - maxAge THEN None ELSE @[id]]]
  /\ UNCHANGED <<now, view, recSigs, pendingSigns, sigShares, shares, recovered, history>>

CleanupOldRecoveredSigs(n) ==
  /\ recSigs' = [recSigs EXCEPT ![n] = [id \in Ids |->
                   IF @[id] # None /\ @[id].time < now - maxAge THEN None ELSE @[id]]]
  /\ UNCHANGED <<now, view, votes, pendingSigns, sigShares, shares, recovered, history>>

\* A user of the signatures no longer needs the one for this id.
RemoveRecoveredSig(n, id) ==
  /\ recSigs' = [recSigs EXCEPT ![n][id] = None]
  /\ UNCHANGED <<now, view, votes, pendingSigns, sigShares, shares, recovered, history>>

\* CSigSharesManager::Cleanup forgets sessions that are done, timed out or of a
\* quorum that is no longer active.
RemoveSigSharesForSession(n, s) ==
  /\ sigShares' = [sigShares EXCEPT ![n] = {x \in @ : x.session # s}]
  /\ UNCHANGED <<now, view, votes, recSigs, pendingSigns, shares, recovered, history>>

\* Only the database survives.
Restart(n) ==
  /\ pendingSigns' = [pendingSigns EXCEPT ![n] = {}]
  /\ sigShares' = [sigShares EXCEPT ![n] = {}]
  /\ UNCHANGED <<now, view, votes, recSigs, shares, recovered, history>>

NewView(n) ==
  /\ \E v \in Views : view' = [view EXCEPT ![n] = v]
  /\ UNCHANGED <<now, votes, recSigs, pendingSigns, sigShares, shares, recovered, history>>

Tick ==
  /\ now < MaxTime
  /\ now' = now + 1
  /\ UNCHANGED <<view, votes, recSigs, pendingSigns, sigShares, shares, recovered, history>>

FaultySign(f, s) ==
  /\ shares' = shares \cup {[session |-> s, member |-> f]}
  /\ UNCHANGED <<now, view, votes, recSigs, pendingSigns, sigShares, recovered, history>>

Next ==
  \/ \E n \in Honest :
       \/ \E id \in Ids, msg \in Msgs, re \in BOOLEAN : AsyncSignIfMember(n, id, msg, re)
       \/ \E s \in Session : Sign(n, s) \/ RemoveSigSharesForSession(n, s)
       \/ \E share \in shares : ReceiveSigShare(n, share)
       \/ \E s \in recovered : ReceiveRecoveredSig(n, s)
       \/ \E id \in Ids : RemoveRecoveredSig(n, id)
       \/ CleanupOldVotes(n) \/ CleanupOldRecoveredSigs(n)
       \/ Restart(n) \/ NewView(n)
  \/ \E f \in Faulty, s \in Session : FaultySign(f, s)
  \/ Tick

Spec == Init /\ [][Next]_vars

-----------------------------------------------------------------------------
\* AsyncSignIfMember with CleanupOldVotes: two votes of one masternode on one id
\* are more than maxAge apart, whatever crashes and signatures come in between.
VotesFarApart ==
  \A e, f \in history :
    (e.node = f.node /\ e.id = f.id /\ e.msgHash # f.msgHash)
      => e.time + maxAge < f.time \/ f.time + maxAge < e.time

\* ProcessSigShare: a share of a node that runs this code comes from a vote.
SharesHaveVotes ==
  \A x \in shares :
    x.member \in Honest =>
      \E e \in history :
        /\ e.node = x.member
        /\ e.id = x.session.id
        /\ e.msgHash = x.session.msgHash

\* A recovered signature was made from shares of enough members of its quorum.
RecoveredFromThreshold ==
  \A s \in recovered :
    \E S \in SUBSET Members[s.quorum] :
      Cardinality(S) >= threshold /\ S \subseteq SignersOf(shares, s)

\* The database keeps the votes that matter: the current vote of a node on an id is
\* its latest, and every other vote on the id had expired when it was written; with
\* no current vote all have expired.
VotesCurrent ==
  /\ \A n \in Honest, id \in Ids :
       votes[n][id] # None =>
         /\ votes[n][id].time <= now
         /\ \E e \in history : /\ e.node = n /\ e.id = id
                               /\ e.msgHash = votes[n][id].msgHash
                               /\ e.time = votes[n][id].time
  /\ \A e \in history :
       LET v == votes[e.node][e.id]
       IN  IF v = None THEN e.time + maxAge < now
           ELSE (e.msgHash = v.msgHash /\ e.time = v.time) \/ e.time + maxAge < v.time

\* What the worker thread holds: sessions to sign that were voted for, by a member,
\* and shares of members that were really sent.
WorkHasVotes ==
  \A n \in Honest :
    /\ \A s \in pendingSigns[n] :
         /\ n \in Members[s.quorum]
         /\ \E e \in history : e.node = n /\ e.id = s.id /\ e.msgHash = s.msgHash
    /\ sigShares[n] \subseteq shares
    /\ \A x \in sigShares[n] : x.member \in Members[x.session.quorum]

\* The inductive invariant behind the theorems: votes are remembered as long as they
\* count (AsyncSignIfMember, CleanupOldVotes), every share and recovered signature
\* goes back to votes (Sign, ProcessSigShare).
IndInv ==
  /\ TypeOK
  /\ VotesCurrent
  /\ VotesFarApart
  /\ WorkHasVotes
  /\ SharesHaveVotes
  /\ RecoveredFromThreshold

\* quorums_signing.cpp:675-676 within one quorum: two recovered signatures of one
\* quorum for one id agree on the msgHash, or a masternode has voted on it twice with
\* more than maxAge in between.
OneMsgPerQuorumAndId ==
  \A r, s \in recovered :
    (r.quorum = s.quorum /\ r.id = s.id /\ r.msgHash # s.msgHash)
      => \E e, f \in history :
           /\ e.node = f.node /\ e.id = r.id /\ f.id = r.id
           /\ e.msgHash = r.msgHash /\ f.msgHash = s.msgHash
           /\ e.time + maxAge < f.time \/ f.time + maxAge < e.time

Service == INSTANCE SigningService WITH now <- now, recovered <- recovered

\* The votes, shares and recoveries of all nodes implement the service their users
\* rely on: no step makes a recovered signature that conflicts with an earlier one
\* of the same quorum while votes are still remembered.
ImplementsService == Service!Spec
=============================================================================
