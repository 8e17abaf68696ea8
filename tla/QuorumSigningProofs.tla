------------------------- MODULE QuorumSigningProofs -------------------------
(***************************************************************************)
(* Proofs about QuorumSigning, for any masternodes, quorums, ids, messages *)
(* and chain views.                                                        *)
(***************************************************************************)
EXTENDS QuorumSigning, FiniteSetTheorems, TLAPS

\* The threshold of a quorum: two sets of signers as large as the threshold have a
\* member in common that runs this code.
LEMMA SignersIntersect ==
  ASSUME NEW q \in Quorums,
         NEW S \in SUBSET Members[q], NEW T \in SUBSET Members[q],
         Cardinality(S) >= threshold, Cardinality(T) >= threshold
  PROVE  \E n \in S \cap T : n \in Honest
<1>1. Members[q] \in SUBSET Nodes /\ IsFiniteSet(Members[q])
  BY SigningAssumption
<1>2. IsFiniteSet(S) /\ IsFiniteSet(T) /\ IsFiniteSet(S \cap T) /\ IsFiniteSet(S \cup T)
  BY <1>1, FS_Subset, FS_Union, FS_Intersection
<1>3. IsFiniteSet(Members[q] \cap Faulty)
  BY <1>1, FS_Intersection
<1>4. Cardinality(S \cup T) = Cardinality(S) + Cardinality(T) - Cardinality(S \cap T)
  BY <1>2, FS_Union
<1>5. Cardinality(S \cup T) <= Cardinality(Members[q])
  <2>1. S \cup T \subseteq Members[q]
    OBVIOUS
  <2> QED BY <1>1, <2>1, FS_Subset
<1>6. SUFFICES ASSUME S \cap T \subseteq Members[q] \cap Faulty
               PROVE  FALSE
  BY <1>1 DEF Honest
<1>7. Cardinality(S \cap T) <= Cardinality(Members[q] \cap Faulty)
  BY <1>3, <1>6, FS_Subset
<1>8. /\ Cardinality(S) \in Nat /\ Cardinality(T) \in Nat /\ Cardinality(S \cap T) \in Nat
      /\ Cardinality(S \cup T) \in Nat /\ Cardinality(Members[q]) \in Nat
      /\ Cardinality(Members[q] \cap Faulty) \in Nat
  BY <1>1, <1>2, <1>3, FS_CardinalityType
<1>9. 2 * threshold > Cardinality(Members[q]) + Cardinality(Members[q] \cap Faulty)
  BY ThresholdAssumption
<1>10. threshold \in Nat
  BY SigningAssumption
<1> QED
  BY <1>4, <1>5, <1>7, <1>8, <1>9, <1>10
-----------------------------------------------------------------------------
(* Type correctness. *)

LEMMA TypeInit == Init => TypeOK
<1> SUFFICES ASSUME Init PROVE TypeOK
  OBVIOUS
<1> QED
  BY DEF Init, TypeOK, Session, SigShare

\* AsyncSignIfMember writes a vote and queues a session of the right shape.
LEMMA AsyncSignType ==
  ASSUME TypeOK, NEW n \in Honest, NEW id \in Ids, NEW msg \in Msgs, NEW re \in BOOLEAN,
         AsyncSignIfMember(n, id, msg, re)
  PROVE  TypeOK'
<1> DEFINE q == SelectQuorumForSigning[view[n]][id]
           v == [msgHash |-> msg, time |-> now]
           s == [quorum |-> q, id |-> id, msgHash |-> msg]
           e == [node |-> n, id |-> id, msgHash |-> msg, time |-> now]
<1>1. v \in Vote /\ e \in [node : Honest, id : Ids, msgHash : Msgs, time : Nat]
  BY DEF TypeOK, Vote
<1>2. votes' \in [Honest -> [Ids -> Vote \cup {None}]]
  <2>1. votes' = votes \/ votes' = [votes EXCEPT ![n][id] = v]
    BY DEF AsyncSignIfMember
  <2>2. votes \in [Honest -> [Ids -> Vote \cup {None}]]
    BY DEF TypeOK
  <2>3. [votes[n] EXCEPT ![id] = v] \in [Ids -> Vote \cup {None}]
    BY <1>1, <2>2
  <2> QED BY <2>1, <2>2, <2>3
<1>3. history' \subseteq [node : Honest, id : Ids, msgHash : Msgs, time : Nat]
  <2>1. history' = history \/ history' = history \cup {e}
    BY DEF AsyncSignIfMember
  <2> QED BY <1>1, <2>1 DEF TypeOK
<1>4. pendingSigns' \in [Honest -> SUBSET Session]
  <2>1. CASE q # NoQuorum /\ n \in Members[q]
    <3>1. q \in Quorums
      BY <2>1, SigningAssumption DEF TypeOK
    <3>2. s \in Session
      BY <3>1 DEF Session
    <3>3. pendingSigns' = [pendingSigns EXCEPT ![n] = @ \cup {s}]
      BY <2>1 DEF AsyncSignIfMember
    <3> QED BY <3>2, <3>3 DEF TypeOK
  <2>2. CASE ~(q # NoQuorum /\ n \in Members[q])
    <3>1. pendingSigns' = pendingSigns
      BY <2>2 DEF AsyncSignIfMember
    <3> QED BY <3>1 DEF TypeOK
  <2> QED BY <2>1, <2>2
<1>5. UNCHANGED <<now, view, recSigs, sigShares, shares, recovered>>
  BY DEF AsyncSignIfMember
<1> QED
  BY <1>2, <1>3, <1>4, <1>5 DEF TypeOK

\* ProcessRecoveredSig files a signature under its own id.
LEMMA RecoveredSigType ==
  ASSUME TypeOK, NEW n \in Honest, NEW s \in Session, ProcessRecoveredSig(n, s)
  PROVE  /\ recSigs' \in [Honest -> [Ids -> Stored \cup {None}]]
         /\ \A m \in Honest, id \in Ids :
              recSigs'[m][id] # None => recSigs'[m][id].sig.id = id
<1> DEFINE r == [sig |-> s, time |-> now]
<1>1. r \in Stored /\ s.id \in Ids
  BY DEF TypeOK, Stored, Session
<1>2. CASE recSigs' = recSigs
  BY <1>2 DEF TypeOK
<1>3. CASE recSigs' = [recSigs EXCEPT ![n][s.id] = r]
  <2>1. \A m \in Honest, id \in Ids :
          recSigs'[m][id] = IF m = n /\ id = s.id THEN r ELSE recSigs[m][id]
    BY <1>1, <1>3 DEF TypeOK
  <2>2. recSigs' \in [Honest -> [Ids -> Stored \cup {None}]]
    BY <1>1, <1>3 DEF TypeOK
  <2>3. r.sig.id = s.id
    OBVIOUS
  <2> QED BY <2>1, <2>2, <2>3 DEF TypeOK
<1> QED
  BY <1>2, <1>3 DEF ProcessRecoveredSig

\* ProcessSigShare keeps shares and signatures well typed.
LEMMA SigShareType ==
  ASSUME TypeOK, NEW n \in Honest, NEW share \in SigShare, ProcessSigShare(n, share)
  PROVE  /\ sigShares' \in [Honest -> SUBSET SigShare]
         /\ recSigs' \in [Honest -> [Ids -> Stored \cup {None}]]
         /\ \A m \in Honest, id \in Ids :
              recSigs'[m][id] # None => recSigs'[m][id].sig.id = id
         /\ recovered' \subseteq Session
<1> DEFINE s == share.session
<1>1. s \in Session
  BY DEF SigShare
<1>2. sigShares' \in [Honest -> SUBSET SigShare]
  <2>1. sigShares' = sigShares \/ sigShares' = [sigShares EXCEPT ![n] = sigShares[n] \cup {share}]
    BY DEF ProcessSigShare
  <2> QED BY <2>1 DEF TypeOK
<1>3. CASE UNCHANGED <<recSigs, recovered>>
  BY <1>2, <1>3 DEF TypeOK
<1>4. CASE ProcessRecoveredSig(n, s) /\ recovered' = recovered \cup {s}
  BY <1>1, <1>2, <1>4, RecoveredSigType DEF TypeOK
<1> QED
  BY <1>3, <1>4 DEF ProcessSigShare

LEMMA TypeStep == TypeOK /\ [Next]_vars => TypeOK'
<1> SUFFICES ASSUME TypeOK, [Next]_vars PROVE TypeOK'
  OBVIOUS
<1>1. ASSUME NEW n \in Honest, NEW id \in Ids, NEW msg \in Msgs, NEW re \in BOOLEAN,
             AsyncSignIfMember(n, id, msg, re)
      PROVE  TypeOK'
  BY <1>1, AsyncSignType
<1>2. ASSUME NEW n \in Honest, NEW s \in Session, Sign(n, s) PROVE TypeOK'
  <2> DEFINE share == [session |-> s, member |-> n]
  <2>1. share \in SigShare
    BY DEF SigShare, Honest
  <2>2. ProcessSigShare(n, share)
    BY <1>2 DEF Sign
  <2>3. shares' \subseteq SigShare
    BY <1>2, <2>1 DEF Sign, TypeOK
  <2>4. pendingSigns' \in [Honest -> SUBSET Session]
    BY <1>2 DEF Sign, TypeOK
  <2> QED BY <1>2, <2>1, <2>2, <2>3, <2>4, SigShareType DEF Sign, TypeOK
<1>3. ASSUME NEW n \in Honest, NEW share \in shares, ReceiveSigShare(n, share)
      PROVE  TypeOK'
  <2>1. share \in SigShare
    BY DEF TypeOK
  <2> QED BY <1>3, <2>1, SigShareType DEF ReceiveSigShare, TypeOK
<1>4. ASSUME NEW n \in Honest, NEW s \in recovered, ReceiveRecoveredSig(n, s)
      PROVE  TypeOK'
  <2>1. s \in Session
    BY DEF TypeOK
  <2> QED BY <1>4, <2>1, RecoveredSigType DEF ReceiveRecoveredSig, TypeOK
<1>5. ASSUME NEW n \in Honest, NEW id \in Ids, RemoveRecoveredSig(n, id) PROVE TypeOK'
  BY <1>5 DEF RemoveRecoveredSig, TypeOK
<1>6. ASSUME NEW n \in Honest, CleanupOldVotes(n) PROVE TypeOK'
  BY <1>6 DEF CleanupOldVotes, TypeOK
<1>7. ASSUME NEW n \in Honest, CleanupOldRecoveredSigs(n) PROVE TypeOK'
  BY <1>7 DEF CleanupOldRecoveredSigs, TypeOK
<1>8. ASSUME NEW n \in Honest, NEW s \in Session, RemoveSigSharesForSession(n, s)
      PROVE  TypeOK'
  BY <1>8 DEF RemoveSigSharesForSession, TypeOK
<1>9. ASSUME NEW n \in Honest, Restart(n) PROVE TypeOK'
  BY <1>9 DEF Restart, TypeOK
<1>10. ASSUME NEW n \in Honest, NewView(n) PROVE TypeOK'
  BY <1>10 DEF NewView, TypeOK
<1>11. ASSUME NEW f \in Faulty, NEW s \in Session, FaultySign(f, s) PROVE TypeOK'
  <2>1. [session |-> s, member |-> f] \in SigShare
    BY SigningAssumption DEF SigShare
  <2> QED BY <1>11, <2>1 DEF FaultySign, TypeOK
<1>12. ASSUME Tick PROVE TypeOK'
  BY <1>12 DEF Tick, TypeOK
<1>13. ASSUME UNCHANGED vars PROVE TypeOK'
  BY <1>13 DEF vars, TypeOK
<1> QED
  BY <1>1, <1>2, <1>3, <1>4, <1>5, <1>6, <1>7, <1>8, <1>9, <1>10, <1>11, <1>12, <1>13
     DEF Next

\* The variables of CSigningManager and CSigSharesManager keep their types in every
\* reachable state, for any masternodes, quorums and messages.
THEOREM TypeCorrect == Spec => []TypeOK
  BY TypeInit, TypeStep, PTL DEF Spec
-----------------------------------------------------------------------------
(* Votes. *)

\* A new vote is written only when all earlier ones on the id have expired.
LEMMA AsyncSignVotes ==
  ASSUME TypeOK, VotesCurrent, VotesFarApart,
         NEW n \in Honest, NEW id \in Ids, NEW msg \in Msgs, NEW re \in BOOLEAN,
         AsyncSignIfMember(n, id, msg, re)
  PROVE  VotesCurrent' /\ VotesFarApart'
<1>1. CASE votes[n][id] # None
  <2>1. UNCHANGED <<now, votes, history>>
    BY <1>1 DEF AsyncSignIfMember
  <2> QED BY <2>1 DEF VotesCurrent, VotesFarApart
<1>2. CASE votes[n][id] = None
  <2> DEFINE v == [msgHash |-> msg, time |-> now]
             h == [node |-> n, id |-> id, msgHash |-> msg, time |-> now]
  <2>1. /\ votes' = [votes EXCEPT ![n][id] = v]
        /\ history' = history \cup {h}
        /\ now' = now
    BY <1>2 DEF AsyncSignIfMember
  <2>2. \A m \in Honest, i \in Ids :
          votes'[m][i] = IF m = n /\ i = id THEN v ELSE votes[m][i]
    BY <2>1 DEF TypeOK
  <2>3. v \in Vote /\ v # None /\ now \in Nat
    BY NoneAssumption DEF Vote, TypeOK
  <2>4. \A e \in history : e.node \in Honest /\ e.id \in Ids /\ e.time \in Nat
    BY DEF TypeOK
  <2>5. \A e \in history : e.node = n /\ e.id = id => e.time + maxAge < now
    BY <1>2, <2>4 DEF VotesCurrent
  <2>6. VotesCurrent'
    <3>1. ASSUME NEW m \in Honest, NEW i \in Ids, votes'[m][i] # None
          PROVE  /\ votes'[m][i].time <= now'
                 /\ \E e \in history' : /\ e.node = m /\ e.id = i
                                        /\ e.msgHash = votes'[m][i].msgHash
                                        /\ e.time = votes'[m][i].time
      <4>1. CASE m = n /\ i = id
        <5>1. votes'[m][i] = v
          BY <2>2, <4>1
        <5>2. h \in history' /\ h.node = m /\ h.id = i
          BY <2>1, <4>1
        <5>3. h.msgHash = v.msgHash /\ h.time = v.time /\ v.time = now
          OBVIOUS
        <5> HIDE DEF h, v
        <5>4. v.time <= now'
          BY <2>1, <2>3, <5>3
        <5> QED BY <5>1, <5>2, <5>3, <5>4
      <4>2. CASE ~(m = n /\ i = id)
        BY <2>1, <2>2, <3>1, <4>2 DEF VotesCurrent
      <4> QED BY <4>1, <4>2
    <3>2. ASSUME NEW e \in history'
          PROVE  LET w == votes'[e.node][e.id]
                 IN  IF w = None THEN e.time + maxAge < now'
                     ELSE \/ e.msgHash = w.msgHash /\ e.time = w.time
                          \/ e.time + maxAge < w.time
      <4>1. CASE e = h
        BY <2>2, <2>3, <4>1
      <4>2. CASE e \in history /\ e.node = n /\ e.id = id
        BY <2>2, <2>3, <2>5, <4>2
      <4>3. CASE e \in history /\ ~(e.node = n /\ e.id = id)
        <5>1. votes'[e.node][e.id] = votes[e.node][e.id]
          BY <2>2, <2>4, <4>3
        <5> QED BY <2>1, <4>3, <5>1 DEF VotesCurrent
      <4> QED BY <2>1, <4>1, <4>2, <4>3
    <3> QED BY <3>1, <3>2 DEF VotesCurrent
  <2>7. VotesFarApart'
    <3> SUFFICES ASSUME NEW e \in history', NEW f \in history',
                        e.node = f.node, e.id = f.id, e.msgHash # f.msgHash
                 PROVE  e.time + maxAge < f.time \/ f.time + maxAge < e.time
      BY DEF VotesFarApart
    <3>1. CASE e \in history /\ f \in history
      BY <3>1 DEF VotesFarApart
    <3>2. CASE e = h
      <4>1. f \in history
        BY <2>1, <3>2
      <4> QED BY <2>5, <3>2, <4>1
    <3>3. CASE f = h
      <4>1. e \in history
        BY <2>1, <3>3
      <4> QED BY <2>5, <3>3, <4>1
    <3> QED BY <2>1, <3>1, <3>2, <3>3
  <2> QED BY <2>6, <2>7
<1> QED
  BY <1>1, <1>2

\* CleanupOldVotes removes a vote only once it has expired.
LEMMA CleanupVotes ==
  ASSUME TypeOK, VotesCurrent, VotesFarApart, NEW n \in Honest, CleanupOldVotes(n)
  PROVE  VotesCurrent' /\ VotesFarApart'
<1>1. UNCHANGED <<now, history>>
  BY DEF CleanupOldVotes
<1>2. \A m \in Honest, i \in Ids :
        \/ votes'[m][i] = votes[m][i]
        \/ votes[m][i] # None /\ votes[m][i].time < now - maxAge /\ votes'[m][i] = None
  BY DEF CleanupOldVotes, TypeOK
<1>3. \A e \in history : e.node \in Honest /\ e.id \in Ids /\ e.time \in Nat
  BY DEF TypeOK
<1>4. \A m \in Honest, i \in Ids : votes[m][i] # None => votes[m][i].time \in Nat
  BY DEF TypeOK, Vote
<1>5. now \in Nat /\ maxAge \in Nat
  BY SigningAssumption DEF TypeOK
<1>6. ASSUME NEW m \in Honest, NEW i \in Ids, votes'[m][i] # None
      PROVE  /\ votes'[m][i].time <= now'
             /\ \E e \in history' : /\ e.node = m /\ e.id = i
                                    /\ e.msgHash = votes'[m][i].msgHash
                                    /\ e.time = votes'[m][i].time
  BY <1>1, <1>2, <1>6 DEF VotesCurrent
<1>7. ASSUME NEW e \in history
      PROVE  LET w == votes'[e.node][e.id]
             IN  IF w = None THEN e.time + maxAge < now
                 ELSE \/ e.msgHash = w.msgHash /\ e.time = w.time
                      \/ e.time + maxAge < w.time
  <2> DEFINE u == votes[e.node][e.id]
  <2>1. IF u = None THEN e.time + maxAge < now
        ELSE (e.msgHash = u.msgHash /\ e.time = u.time) \/ e.time + maxAge < u.time
    BY DEF VotesCurrent
  <2>2. CASE votes'[e.node][e.id] = u
    BY <2>1, <2>2
  <2>3. CASE u # None /\ u.time < now - maxAge /\ votes'[e.node][e.id] = None
    <3>1. u.time \in Nat
      BY <1>3, <1>4, <2>3
    <3> QED BY <1>3, <1>5, <2>1, <2>3, <3>1
  <2> QED BY <1>2, <1>3, <2>2, <2>3
<1>8. VotesFarApart'
  BY <1>1 DEF VotesFarApart
<1> QED
  BY <1>1, <1>6, <1>7, <1>8 DEF VotesCurrent

LEMMA TickVotes ==
  ASSUME TypeOK, VotesCurrent, VotesFarApart, Tick
  PROVE  VotesCurrent' /\ VotesFarApart'
<1>1. now' = now + 1 /\ UNCHANGED <<votes, history>>
  BY DEF Tick
<1>2. now \in Nat /\ maxAge \in Nat /\ \A e \in history : e.time \in Nat
  BY SigningAssumption DEF TypeOK
<1>3. \A m \in Honest, i \in Ids : votes[m][i] # None => votes[m][i].time \in Nat
  BY DEF TypeOK, Vote
<1>4. VotesCurrent'
  BY <1>1, <1>2, <1>3 DEF VotesCurrent
<1>5. VotesFarApart'
  BY <1>1 DEF VotesFarApart
<1> QED
  BY <1>4, <1>5

LEMMA VotesStep ==
  TypeOK /\ VotesCurrent /\ VotesFarApart /\ [Next]_vars => VotesCurrent' /\ VotesFarApart'
<1> SUFFICES ASSUME TypeOK, VotesCurrent, VotesFarApart, [Next]_vars
             PROVE  VotesCurrent' /\ VotesFarApart'
  OBVIOUS
<1>1. ASSUME UNCHANGED <<now, votes, history>> PROVE VotesCurrent' /\ VotesFarApart'
  BY <1>1 DEF VotesCurrent, VotesFarApart
<1>2. \/ \E n \in Honest, id \in Ids, msg \in Msgs, re \in BOOLEAN :
           AsyncSignIfMember(n, id, msg, re)
      \/ \E n \in Honest : CleanupOldVotes(n)
      \/ Tick
      \/ UNCHANGED <<now, votes, history>>
  BY DEF Next, vars, Sign, RemoveSigSharesForSession, ReceiveSigShare, ReceiveRecoveredSig,
         RemoveRecoveredSig, CleanupOldRecoveredSigs, Restart, NewView, FaultySign
<1> QED
  BY <1>1, <1>2, AsyncSignVotes, CleanupVotes, TickVotes
-----------------------------------------------------------------------------
(* Sessions, shares and recovered signatures. *)

\* No step takes back a vote, a share that was sent or a recovered signature.
LEMMA NothingTakenBack ==
  ASSUME [Next]_vars
  PROVE  history \subseteq history' /\ shares \subseteq shares' /\ recovered \subseteq recovered'
<1>1. ASSUME NEW n, NEW share, ProcessSigShare(n, share) PROVE recovered \subseteq recovered'
  BY <1>1 DEF ProcessSigShare
<1>2. ASSUME NEW n \in Honest, NEW id \in Ids, NEW msg \in Msgs, NEW re \in BOOLEAN,
             AsyncSignIfMember(n, id, msg, re)
      PROVE  history \subseteq history' /\ UNCHANGED <<shares, recovered>>
  BY <1>2 DEF AsyncSignIfMember
<1>3. ASSUME NEW n \in Honest, NEW s \in Session, Sign(n, s)
      PROVE  shares \subseteq shares' /\ recovered \subseteq recovered' /\ history' = history
  BY <1>1, <1>3 DEF Sign
<1>4. ASSUME NEW n \in Honest, NEW share \in shares, ReceiveSigShare(n, share)
      PROVE  recovered \subseteq recovered' /\ UNCHANGED <<shares, history>>
  BY <1>1, <1>4 DEF ReceiveSigShare
<1>5. ASSUME NEW f \in Faulty, NEW s \in Session, FaultySign(f, s)
      PROVE  shares \subseteq shares' /\ UNCHANGED <<recovered, history>>
  BY <1>5 DEF FaultySign
<1>6. \/ \E n \in Honest, id \in Ids, msg \in Msgs, re \in BOOLEAN :
           AsyncSignIfMember(n, id, msg, re)
      \/ \E n \in Honest, s \in Session : Sign(n, s)
      \/ \E n \in Honest, share \in shares : ReceiveSigShare(n, share)
      \/ \E f \in Faulty, s \in Session : FaultySign(f, s)
      \/ UNCHANGED <<shares, recovered, history>>
  BY DEF Next, vars, RemoveSigSharesForSession, ReceiveRecoveredSig, RemoveRecoveredSig,
         CleanupOldVotes, CleanupOldRecoveredSigs, Restart, NewView, Tick
<1> QED
  BY <1>2, <1>3, <1>4, <1>5, <1>6

\* The session AsyncSignIfMember queues was voted for.
LEMMA AsyncSignWork ==
  ASSUME TypeOK, VotesCurrent, WorkHasVotes,
         NEW n \in Honest, NEW id \in Ids, NEW msg \in Msgs, NEW re \in BOOLEAN,
         AsyncSignIfMember(n, id, msg, re)
  PROVE  WorkHasVotes'
<1> DEFINE q == SelectQuorumForSigning[view[n]][id]
           s == [quorum |-> q, id |-> id, msgHash |-> msg]
<1>1. history \subseteq history' /\ UNCHANGED <<sigShares, shares>>
  BY DEF AsyncSignIfMember
<1>2. \E e \in history' : e.node = n /\ e.id = id /\ e.msgHash = msg
  <2>1. CASE votes[n][id] # None
    <3>1. votes[n][id].msgHash = msg /\ history' = history
      BY <2>1 DEF AsyncSignIfMember
    <3> QED BY <2>1, <3>1 DEF VotesCurrent
  <2>2. CASE votes[n][id] = None
    <3> DEFINE h == [node |-> n, id |-> id, msgHash |-> msg, time |-> now]
    <3>1. h \in history'
      BY <2>2 DEF AsyncSignIfMember
    <3>2. h.node = n /\ h.id = id /\ h.msgHash = msg
      OBVIOUS
    <3> HIDE DEF h
    <3> QED BY <3>1, <3>2
  <2> QED BY <2>1, <2>2
<1>3. ASSUME NEW m \in Honest, NEW x \in pendingSigns'[m]
      PROVE  x \in pendingSigns[m] \/ (m = n /\ x = s /\ n \in Members[q])
  BY <1>3 DEF AsyncSignIfMember, TypeOK
<1>4. s.quorum = q /\ s.id = id /\ s.msgHash = msg
  OBVIOUS
<1>5. ASSUME NEW m \in Honest, NEW x \in pendingSigns'[m]
      PROVE  /\ m \in Members[x.quorum]
             /\ \E e \in history' : e.node = m /\ e.id = x.id /\ e.msgHash = x.msgHash
  <2>1. CASE x \in pendingSigns[m]
    BY <1>1, <2>1 DEF WorkHasVotes
  <2>2. CASE m = n /\ x = s /\ n \in Members[q]
    <3> HIDE DEF s, q
    <3> QED BY <1>2, <1>4, <2>2
  <2> QED BY <1>3, <1>5, <2>1, <2>2
<1> QED
  BY <1>1, <1>5 DEF WorkHasVotes

\* What ProcessSigShare does to the shares a node holds and to the signatures made.
LEMMA ProcessSigShareEffect ==
  ASSUME TypeOK, NEW n \in Honest, NEW share, ProcessSigShare(n, share)
  PROVE  /\ \A m \in Honest : sigShares'[m] = sigShares[m]
                              \/ (m = n /\ sigShares'[m] = sigShares[n] \cup {share})
         /\ \/ recovered' = recovered
            \/ /\ recovered' = recovered \cup {share.session}
               /\ Cardinality(SignersOf(sigShares'[n], share.session)) >= threshold
<1> DEFINE held == sigShares[n] \cup {share}
<1>1. CASE HasRecoveredSigForId(n, share.session.id) \/ share \in sigShares[n]
  BY <1>1 DEF ProcessSigShare
<1>2. CASE ~(HasRecoveredSigForId(n, share.session.id) \/ share \in sigShares[n])
  <2>1. sigShares' = [sigShares EXCEPT ![n] = held]
    BY <1>2 DEF ProcessSigShare
  <2>2. sigShares'[n] = held
    BY <2>1 DEF TypeOK
  <2>3. \A m \in Honest : sigShares'[m] = sigShares[m] \/ (m = n /\ sigShares'[m] = held)
    BY <2>1 DEF TypeOK
  <2>4. \/ recovered' = recovered
        \/ /\ recovered' = recovered \cup {share.session}
           /\ Cardinality(SignersOf(held, share.session)) >= threshold
    BY <1>2 DEF ProcessSigShare
  <2> QED BY <2>2, <2>3, <2>4
<1> QED
  BY <1>1, <1>2

\* A share that was sent, by a member, leaves the worker's data in order and gives
\* only signatures from enough members.
LEMMA ProcessSigShareWork ==
  ASSUME TypeOK, WorkHasVotes, RecoveredFromThreshold,
         NEW n \in Honest, NEW share \in SigShare, ProcessSigShare(n, share),
         share \in shares', shares \subseteq shares', history' = history,
         share.member \in Members[share.session.quorum],
         \A m \in Honest : pendingSigns'[m] \subseteq pendingSigns[m]
  PROVE  WorkHasVotes' /\ RecoveredFromThreshold'
<1>1. ASSUME NEW m \in Honest
      PROVE  sigShares'[m] \subseteq shares' /\ \A x \in sigShares'[m] :
                                                 x.member \in Members[x.session.quorum]
  <2>1. sigShares[m] \subseteq shares
        /\ \A x \in sigShares[m] : x.member \in Members[x.session.quorum]
    BY DEF WorkHasVotes
  <2> QED BY <2>1, ProcessSigShareEffect
<1>2. WorkHasVotes'
  BY <1>1 DEF WorkHasVotes
<1>3. ASSUME NEW s \in recovered'
      PROVE  \E S \in SUBSET Members[s.quorum] :
               Cardinality(S) >= threshold /\ S \subseteq SignersOf(shares', s)
  <2>1. CASE s \in recovered
    <3>1. PICK S \in SUBSET Members[s.quorum] :
            Cardinality(S) >= threshold /\ S \subseteq SignersOf(shares, s)
      BY <2>1 DEF RecoveredFromThreshold
    <3>2. SignersOf(shares, s) \subseteq SignersOf(shares', s)
      BY DEF SignersOf
    <3> QED BY <3>1, <3>2
  <2>2. CASE s \notin recovered
    <3> DEFINE S == SignersOf(sigShares'[n], s)
    <3>1. s = share.session /\ Cardinality(S) >= threshold
      BY <1>3, <2>2, ProcessSigShareEffect
    <3>2. S \subseteq Members[s.quorum]
      BY <1>1 DEF SignersOf
    <3>3. S \subseteq SignersOf(shares', s)
      BY <1>1 DEF SignersOf
    <3> QED BY <3>1, <3>2, <3>3
  <2> QED BY <2>1, <2>2
<1> QED
  BY <1>2, <1>3 DEF RecoveredFromThreshold

LEMMA WorkStep == IndInv /\ [Next]_vars => (WorkHasVotes /\ SharesHaveVotes /\ RecoveredFromThreshold)'
<1> DEFINE Goal == (WorkHasVotes /\ SharesHaveVotes /\ RecoveredFromThreshold)'
<1> SUFFICES ASSUME IndInv, [Next]_vars PROVE Goal
  OBVIOUS
<1>1. TypeOK /\ VotesCurrent /\ WorkHasVotes /\ SharesHaveVotes /\ RecoveredFromThreshold
  BY DEF IndInv
<1>2. history \subseteq history' /\ shares \subseteq shares'
  BY NothingTakenBack
<1>3. ASSUME shares' = shares PROVE SharesHaveVotes'
  BY <1>1, <1>2, <1>3 DEF SharesHaveVotes
<1>4. ASSUME recovered' = recovered PROVE RecoveredFromThreshold'
  BY <1>1, <1>2, <1>4 DEF RecoveredFromThreshold, SignersOf
<1>5. ASSUME \A n \in Honest : /\ pendingSigns'[n] \subseteq pendingSigns[n]
                               /\ sigShares'[n] \subseteq sigShares[n]
      PROVE  WorkHasVotes'
  BY <1>1, <1>2, <1>5 DEF WorkHasVotes
<1>6. ASSUME NEW n \in Honest, NEW id \in Ids, NEW msg \in Msgs, NEW re \in BOOLEAN,
             AsyncSignIfMember(n, id, msg, re)
      PROVE  Goal
  <2>1. UNCHANGED <<shares, recovered>>
    BY <1>6 DEF AsyncSignIfMember
  <2> QED BY <1>1, <1>3, <1>4, <1>6, <2>1, AsyncSignWork
<1>7. ASSUME NEW n \in Honest, NEW s \in Session, Sign(n, s) PROVE Goal
  <2> DEFINE share == [session |-> s, member |-> n]
  <2>1. s \in pendingSigns[n] /\ ProcessSigShare(n, share) /\ history' = history
    BY <1>7 DEF Sign
  <2>2. share \in SigShare /\ share.session = s /\ share.member = n
    BY DEF SigShare, Honest
  <2>3. /\ n \in Members[s.quorum]
        /\ \E e \in history : e.node = n /\ e.id = s.id /\ e.msgHash = s.msgHash
    BY <1>1, <2>1 DEF WorkHasVotes
  <2>4. \A m \in Honest : pendingSigns'[m] \subseteq pendingSigns[m]
    BY <1>1, <1>7 DEF Sign, TypeOK
  <2>5. shares' \subseteq shares \cup {share}
    BY <1>7 DEF Sign
  <2> HIDE DEF share
  <2>6. SharesHaveVotes'
    BY <1>1, <2>1, <2>2, <2>3, <2>5 DEF SharesHaveVotes
  <2>7. CASE HasRecoveredSigForId(n, s.id)
    <3>1. UNCHANGED <<sigShares, recovered>>
      BY <2>1, <2>2, <2>7 DEF ProcessSigShare
    <3> QED BY <1>4, <1>5, <2>4, <2>6, <3>1
  <2>8. CASE ~HasRecoveredSigForId(n, s.id)
    <3>1. share \in shares'
      BY <1>7, <2>8 DEF Sign, share
    <3> QED BY <1>1, <1>2, <2>1, <2>2, <2>3, <2>4, <2>6, <3>1, ProcessSigShareWork
  <2> QED BY <2>7, <2>8
<1>8. ASSUME NEW n \in Honest, NEW share \in shares, ReceiveSigShare(n, share)
      PROVE  Goal
  <2>1. /\ share \in SigShare
        /\ share.member \in Members[share.session.quorum]
        /\ ProcessSigShare(n, share)
        /\ UNCHANGED <<pendingSigns, shares, history>>
    BY <1>1, <1>8 DEF ReceiveSigShare, TypeOK
  <2>2. WorkHasVotes' /\ RecoveredFromThreshold'
    BY <1>1, <2>1, ProcessSigShareWork
  <2> QED BY <1>3, <2>1, <2>2
<1>9. ASSUME NEW f \in Faulty, NEW s \in Session, FaultySign(f, s) PROVE Goal
  <2> DEFINE share == [session |-> s, member |-> f]
  <2>1. shares' = shares \cup {share} /\ UNCHANGED <<pendingSigns, sigShares, recovered, history>>
    BY <1>9 DEF FaultySign
  <2>2. share.member \notin Honest
    BY DEF Honest
  <2>3. SharesHaveVotes'
    BY <1>1, <2>1, <2>2 DEF SharesHaveVotes
  <2> QED BY <1>4, <1>5, <2>1, <2>3
<1>10. ASSUME NEW n \in Honest, NEW s \in Session, RemoveSigSharesForSession(n, s)
       PROVE  Goal
  <2>1. UNCHANGED <<pendingSigns, shares, recovered>>
    BY <1>10 DEF RemoveSigSharesForSession
  <2>2. \A m \in Honest : sigShares'[m] \subseteq sigShares[m]
    BY <1>1, <1>10 DEF RemoveSigSharesForSession, TypeOK
  <2> QED BY <1>3, <1>4, <1>5, <2>1, <2>2
<1>11. ASSUME NEW n \in Honest, Restart(n) PROVE Goal
  <2>1. UNCHANGED <<shares, recovered>>
    BY <1>11 DEF Restart
  <2>2. \A m \in Honest : /\ pendingSigns'[m] \subseteq pendingSigns[m]
                          /\ sigShares'[m] \subseteq sigShares[m]
    BY <1>1, <1>11 DEF Restart, TypeOK
  <2> QED BY <1>3, <1>4, <1>5, <2>1, <2>2
<1>12. ASSUME UNCHANGED <<pendingSigns, sigShares, shares, recovered>> PROVE Goal
  BY <1>3, <1>4, <1>5, <1>12
<1>13. \/ \E n \in Honest, id \in Ids, msg \in Msgs, re \in BOOLEAN :
            AsyncSignIfMember(n, id, msg, re)
       \/ \E n \in Honest, s \in Session : Sign(n, s) \/ RemoveSigSharesForSession(n, s)
       \/ \E n \in Honest, share \in shares : ReceiveSigShare(n, share)
       \/ \E n \in Honest : Restart(n)
       \/ \E f \in Faulty, s \in Session : FaultySign(f, s)
       \/ UNCHANGED <<pendingSigns, sigShares, shares, recovered>>
  BY DEF Next, vars, ReceiveRecoveredSig, RemoveRecoveredSig, CleanupOldVotes,
         CleanupOldRecoveredSigs, NewView, Tick
<1> QED
  BY <1>6, <1>7, <1>8, <1>9, <1>10, <1>11, <1>12, <1>13

-----------------------------------------------------------------------------
\* The inductive invariant holds initially and every step of CSigningManager and
\* CSigSharesManager keeps it.
THEOREM IndInvHolds == Spec => []IndInv
<1>1. Init => IndInv
  <2> SUFFICES ASSUME Init PROVE IndInv
    OBVIOUS
  <2>1. VotesCurrent /\ VotesFarApart /\ WorkHasVotes /\ SharesHaveVotes /\ RecoveredFromThreshold
    BY DEF Init, VotesCurrent, VotesFarApart, WorkHasVotes, SharesHaveVotes,
           RecoveredFromThreshold
  <2> QED BY <2>1, TypeInit DEF IndInv
<1>2. IndInv /\ [Next]_vars => IndInv'
  BY TypeStep, VotesStep, WorkStep DEF IndInv
<1> QED
  BY <1>1, <1>2, PTL DEF Spec

\* Two recovered signatures of one quorum for one id disagree only if a masternode
\* voted twice on the id with more than maxAge in between.
LEMMA IndInvImpliesOneMsg == IndInv => OneMsgPerQuorumAndId
<1> SUFFICES ASSUME IndInv, NEW r \in recovered, NEW s \in recovered,
                    r.quorum = s.quorum, r.id = s.id, r.msgHash # s.msgHash
             PROVE  \E e, f \in history :
                      /\ e.node = f.node /\ e.id = r.id /\ f.id = r.id
                      /\ e.msgHash = r.msgHash /\ f.msgHash = s.msgHash
                      /\ e.time + maxAge < f.time \/ f.time + maxAge < e.time
  BY DEF OneMsgPerQuorumAndId
<1>1. r.quorum \in Quorums
  BY DEF IndInv, TypeOK, Session
<1>2. PICK S \in SUBSET Members[r.quorum] :
        Cardinality(S) >= threshold /\ S \subseteq SignersOf(shares, r)
  BY DEF IndInv, RecoveredFromThreshold
<1>3. PICK T \in SUBSET Members[r.quorum] :
        Cardinality(T) >= threshold /\ T \subseteq SignersOf(shares, s)
  BY DEF IndInv, RecoveredFromThreshold
<1>4. PICK n \in S \cap T : n \in Honest
  BY <1>1, <1>2, <1>3, SignersIntersect
<1>5. PICK e \in history : e.node = n /\ e.id = r.id /\ e.msgHash = r.msgHash
  <2> DEFINE x == [session |-> r, member |-> n]
  <2>1. x \in shares /\ x.member = n /\ x.session = r
    BY <1>2, <1>4 DEF SignersOf
  <2> HIDE DEF x
  <2> QED BY <1>4, <2>1 DEF IndInv, SharesHaveVotes
<1>6. PICK f \in history : f.node = n /\ f.id = s.id /\ f.msgHash = s.msgHash
  <2> DEFINE x == [session |-> s, member |-> n]
  <2>1. x \in shares /\ x.member = n /\ x.session = s
    BY <1>3, <1>4 DEF SignersOf
  <2> HIDE DEF x
  <2> QED BY <1>4, <2>1 DEF IndInv, SharesHaveVotes
<1>7. e.time + maxAge < f.time \/ f.time + maxAge < e.time
  BY <1>5, <1>6 DEF IndInv, VotesFarApart
<1> QED
  BY <1>5, <1>6, <1>7

\* For any quorums whose thresholds outweigh their faulty members: whatever crashes,
\* losses, delays and cleanups happen, conflicting recovered signatures of one quorum
\* need a masternode whose vote expired before it voted again.
THEOREM RecoveredSigsAgree == Spec => []OneMsgPerQuorumAndId
  BY IndInvHolds, IndInvImpliesOneMsg, PTL

\* A masternode that runs AsyncSignIfMember never votes for two messages on one id
\* within maxAge, across crashes and restarts.
THEOREM NoDoubleVote == Spec => []VotesFarApart
<1>1. IndInv => VotesFarApart
  BY DEF IndInv
<1> QED
  BY <1>1, IndInvHolds, PTL
-----------------------------------------------------------------------------
(* Refinement. *)

NoFutureVote == \A e \in history : e.time \in Nat /\ e.time <= now

\* No vote lies in the future.
LEMMA VotesInThePast == IndInv => NoFutureVote
<1> SUFFICES ASSUME IndInv, NEW e \in history
             PROVE  e.time \in Nat /\ e.time <= now
  BY DEF NoFutureVote
<1> DEFINE v == votes[e.node][e.id]
<1>1. e.node \in Honest /\ e.id \in Ids /\ e.time \in Nat /\ now \in Nat /\ maxAge \in Nat
  BY SigningAssumption DEF IndInv, TypeOK
<1>2. CASE v = None
  BY <1>1, <1>2 DEF IndInv, VotesCurrent
<1>3. CASE v # None
  <2>1. v.time \in Nat /\ v.time <= now
    BY <1>1, <1>3 DEF IndInv, TypeOK, VotesCurrent, Vote
  <2>2. v.time = e.time \/ e.time + maxAge < v.time
    BY <1>3 DEF IndInv, VotesCurrent
  <2> QED BY <1>1, <2>1, <2>2
<1> QED BY <1>2, <1>3

\* Only a tick changes the clock, and only one signature is made in a step.
LEMMA ServiceVariables ==
  ASSUME TypeOK, [Next]_vars
  PROVE  \/ UNCHANGED <<now, recovered>>
         \/ now' = now + 1 /\ recovered' = recovered
         \/ now' = now /\ \E s \in Session : recovered' = recovered \cup {s}
<1>1. ASSUME NEW n \in Honest, NEW share \in SigShare, ProcessSigShare(n, share), now' = now
      PROVE  \/ UNCHANGED <<now, recovered>>
             \/ now' = now /\ \E s \in Session : recovered' = recovered \cup {s}
  <2>1. share.session \in Session
    BY DEF SigShare
  <2> QED BY <1>1, <2>1, ProcessSigShareEffect
<1>2. ASSUME NEW n \in Honest, NEW s \in Session, Sign(n, s)
      PROVE  \/ UNCHANGED <<now, recovered>>
             \/ now' = now /\ \E t \in Session : recovered' = recovered \cup {t}
  <2>1. [session |-> s, member |-> n] \in SigShare
    BY DEF SigShare, Honest
  <2> QED BY <1>1, <1>2, <2>1 DEF Sign
<1>3. ASSUME NEW n \in Honest, NEW share \in shares, ReceiveSigShare(n, share)
      PROVE  \/ UNCHANGED <<now, recovered>>
             \/ now' = now /\ \E t \in Session : recovered' = recovered \cup {t}
  <2>1. share \in SigShare
    BY DEF TypeOK
  <2> QED BY <1>1, <1>3, <2>1 DEF ReceiveSigShare
<1>4. \/ \E n \in Honest, s \in Session : Sign(n, s)
      \/ \E n \in Honest, share \in shares : ReceiveSigShare(n, share)
      \/ Tick
      \/ UNCHANGED <<now, recovered>>
  BY DEF Next, vars, AsyncSignIfMember, RemoveSigSharesForSession, ReceiveRecoveredSig,
         RemoveRecoveredSig, CleanupOldVotes, CleanupOldRecoveredSigs, Restart, NewView,
         FaultySign
<1> QED
  BY <1>2, <1>3, <1>4 DEF Tick

\* Every run of the nodes is a run of the service: CSigningManager makes no second
\* message's signature for an id of a quorum before votes have expired.
THEOREM SigningImplementsService == Spec => ImplementsService
<1>1. Init => Service!Init
  BY DEF Init, Service!Init
<1>2. IndInv /\ IndInv' /\ [Next]_vars => [Service!Next]_<<now, recovered>>
  <2> SUFFICES ASSUME IndInv, IndInv', [Next]_vars
               PROVE  Service!Next \/ UNCHANGED <<now, recovered>>
    OBVIOUS
  <2>1. ASSUME NEW s \in Session, now' = now, recovered' = recovered \cup {s}
        PROVE  Service!Recover(s)
    <3> SUFFICES ASSUME NEW r \in recovered, Service!Conflict(r, s)
                 PROVE  now > maxAge
      BY <2>1 DEF Service!Recover
    <3>1. r \in recovered' /\ s \in recovered'
      BY <2>1
    <3>2. OneMsgPerQuorumAndId'
      BY IndInvImpliesOneMsg, PTL
    <3>3. PICK e \in history', f \in history' :
            e.time + maxAge < f.time \/ f.time + maxAge < e.time
      BY <3>1, <3>2 DEF OneMsgPerQuorumAndId, Service!Conflict
    <3>4. NoFutureVote'
      BY VotesInThePast, PTL
    <3>5. now \in Nat /\ maxAge \in Nat
      BY SigningAssumption DEF IndInv, TypeOK
    <3> QED BY <2>1, <3>3, <3>4, <3>5 DEF NoFutureVote
  <2>2. Service!Session = Session
    BY DEF Session, Service!Session
  <2>3. CASE UNCHANGED <<now, recovered>>
    BY <2>3
  <2>4. CASE now' = now + 1 /\ recovered' = recovered
    BY <2>4 DEF Service!Next, Service!Tick
  <2>5. CASE now' = now /\ \E s \in Session : recovered' = recovered \cup {s}
    BY <2>1, <2>2, <2>5 DEF Service!Next
  <2> QED
    BY <2>3, <2>4, <2>5, ServiceVariables DEF IndInv
<1> QED
  BY <1>1, <1>2, IndInvHolds, PTL DEF Spec, Service!Spec, ImplementsService
=============================================================================
