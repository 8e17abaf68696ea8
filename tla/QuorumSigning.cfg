CONSTANTS
  n1 = n1  n2 = n2  q1 = q1  id1 = id1  m1 = m1  m2 = m2  v1 = v1
  Nodes = {n1, n2}
  Faulty = {n2}
  Quorums = {q1}
  Members <- TwoMembers
  threshold = 2
  Ids = {id1}
  Msgs = {m1, m2}
  Views = {v1}
  SelectQuorumForSigning <- OnlyFirst
  NoQuorum = NoQuorum
  None = None
  maxAge = 1
  MaxTime = 4
SPECIFICATION Spec
SYMMETRY Symmetric
INVARIANTS
  TypeOK OneMsgPerQuorumAndId VotesFarApart
 
