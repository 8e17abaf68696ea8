------------------------- MODULE InstantSendProofs -------------------------
(***************************************************************************)
(* The invariants of InstantSend.tla hold for every tree of blocks, every  *)
(* set of transactions and every set of islocks.                           *)
(***************************************************************************)
EXTENDS InstantSend, TLAPS

MinedBlocks == Blocks \ {Genesis}
BlockOrNone == Blocks \cup {NoBlock}
MinedOrNone == MinedBlocks \cup {NoBlock}
Info == [tx : BOOLEAN, mined : MinedOrNone, children : SUBSET Txs]
Entry == [op : {"resurrect", "insert", "sync", "process", "add", "remove"},
          tx : Txs, pindex : BlockOrNone, inBlock : BOOLEAN]
Calls == [now : Seq(Entry), base : BlockOrNone, target : BlockOrNone,
          freed : Seq(Entry), late : Seq(Entry)]

ChainType ==
  chain \in [tip : Blocks, failed : SUBSET Blocks, txIndex : [LookedUp -> MinedOrNone],
             chainLock : BlockOrNone, notified : BlockOrNone, notifying : BlockOrNone]
Tracks == [info : [Ids -> Info], byInputs : SUBSET (Outpoints \X Txs), retry : SUBSET Txs]
Places == {"idle", "next", "store", "mempool", "untrack", "collect", "prune", "pruning",
           "resolve", "invalidate", "activate", "retry"}
WorkerType ==
  /\ worker \in [pc : Places, locks : SUBSET Islocks, lock : Islocks \cup {None}, mined : MinedOrNone,
                 txs : SUBSET (Txs \cup (MinedBlocks \X Txs)), retry : SUBSET Txs]
  /\ worker.pc = "store" => worker.lock \in Islocks
  /\ worker.pc = "invalidate" => worker.mined \in MinedBlocks
  /\ worker.pc = "untrack" => worker.txs \subseteq Txs
  /\ worker.pc # "untrack" => worker.txs \subseteq MinedBlocks \X Txs

TypeOK ==
  /\ ChainType
  /\ pool \in SUBSET Txs
  /\ db \in [islocks : SUBSET Islocks, mined : SUBSET (Nat \X Txs)]
  /\ track \in Tracks
  /\ DOMAIN votes = Outpoints
  /\ pending \in SUBSET Islocks
  /\ WorkerType
  /\ calls \in Calls
  /\ ghost \in [overtaken : SUBSET Txs, stale : SUBSET Islocks]

-----------------------------------------------------------------------------
(* Sequences. *)

\* What is in a sequence is its head or in its tail.
LEMMA HeadAndTail ==
  ASSUME NEW S, NEW s \in Seq(S), s # <<>>
  PROVE  /\ Head(s) \in S /\ Tail(s) \in Seq(S)
         /\ Head(s) \in Range(s)
         /\ \A c : c \in Range(s) <=> c = Head(s) \/ c \in Range(Tail(s))
  <1>1. Head(s) \in S /\ Tail(s) \in Seq(S) /\ Len(s) >= 1 /\ Head(s) = s[1]
    OBVIOUS
  <1>2. \A i \in 1 .. Len(Tail(s)) : Tail(s)[i] = s[i + 1]
    OBVIOUS
  <1>3. Len(Tail(s)) = Len(s) - 1 /\ Len(s) \in Nat /\ DOMAIN s = 1 .. Len(s)
    OBVIOUS
  <1>4. Head(s) \in Range(s)
    BY <1>1 DEF Range
  <1>5. ASSUME NEW c \in Range(Tail(s)) PROVE c \in Range(s)
    <2>1. PICK i \in 1 .. Len(Tail(s)) : c = Tail(s)[i]
      BY <1>1 DEF Range
    <2>2. i + 1 \in 1 .. Len(s) /\ c = s[i + 1]
      BY <2>1, <1>2, <1>3
    <2> QED BY <2>2 DEF Range
  <1>6. ASSUME NEW c \in Range(s), c # Head(s) PROVE c \in Range(Tail(s))
    <2>1. PICK i \in 1 .. Len(s) : c = s[i]
      BY DEF Range
    <2>2. i - 1 \in 1 .. Len(Tail(s)) /\ c = Tail(s)[i - 1]
      BY <2>1, <1>1, <1>2, <1>3, <1>6
    <2>3. ASSUME NEW r \in Seq(S), NEW j \in 1 .. Len(r) PROVE r[j] \in Range(r)
      BY DEF Range
    <2> QED BY <1>1, <2>2, <2>3, Zenon
  <1> QED BY <1>1, <1>4, <1>5, <1>6, Zenon

\* What is in a concatenation is in one of its parts.
LEMMA Concatenated ==
  ASSUME NEW S, NEW s \in Seq(S), NEW u \in Seq(S)
  PROVE  /\ s \o u \in Seq(S)
         /\ \A c : c \in Range(s \o u) <=> c \in Range(s) \/ c \in Range(u)
  <1>1. s \o u \in Seq(S) /\ Len(s \o u) = Len(s) + Len(u) /\ Len(s) \in Nat /\ Len(u) \in Nat
    OBVIOUS
  <1>2. \A i \in 1 .. Len(s) : (s \o u)[i] = s[i]
    OBVIOUS
  <1>3. \A i \in 1 .. Len(u) : (s \o u)[Len(s) + i] = u[i]
    OBVIOUS
  <1>4. ASSUME NEW c \in Range(s) PROVE c \in Range(s \o u)
    <2>1. PICK i \in 1 .. Len(s) : c = s[i]
      BY DEF Range
    <2>2. i \in 1 .. Len(s \o u) /\ c = (s \o u)[i]
      BY <2>1, <1>1, <1>2
    <2> QED BY <2>2, <1>1 DEF Range
  <1>5. ASSUME NEW c \in Range(u) PROVE c \in Range(s \o u)
    <2>1. PICK i \in 1 .. Len(u) : c = u[i]
      BY DEF Range
    <2>2. Len(s) + i \in 1 .. Len(s \o u) /\ c = (s \o u)[Len(s) + i]
      BY <2>1, <1>1, <1>3
    <2> QED BY <2>2, <1>1 DEF Range
  <1>6. ASSUME NEW c \in Range(s \o u), c \notin Range(s) PROVE c \in Range(u)
    <2>1. PICK i \in 1 .. Len(s \o u) : c = (s \o u)[i]
      BY <1>1 DEF Range
    <2>2. i \notin 1 .. Len(s)
      BY <2>1, <1>2, <1>6 DEF Range
    <2>3. i - Len(s) \in 1 .. Len(u) /\ c = u[i - Len(s)]
      BY <2>1, <2>2, <1>1, <1>3
    <2> QED BY <2>3 DEF Range
  <1> QED BY <1>1, <1>4, <1>5, <1>6, Zenon

\* Sequences of no and of one call.
LEMMA Short ==
  ASSUME NEW S
  PROVE  /\ <<>> \in Seq(S) /\ Range(<<>>) = {}
         /\ \A c \in S : <<c>> \in Seq(S) /\ Range(<<c>>) = {c}
         /\ \A s \in Seq(S) : Range(s) = {} <=> s = <<>>
  <1>1. <<>> \in Seq(S) /\ Range(<<>>) = {}
    BY DEF Range
  <1>2. ASSUME NEW c \in S PROVE <<c>> \in Seq(S) /\ Range(<<c>>) = {c}
    <2>1. <<c>> \in Seq(S) /\ DOMAIN <<c>> = {1} /\ <<c>>[1] = c
      OBVIOUS
    <2> QED BY <2>1, Zenon DEF Range
  <1>3. ASSUME NEW s \in Seq(S), s # <<>> PROVE Range(s) # {}
    BY <1>3, HeadAndTail, Zenon
  <1> QED BY <1>1, <1>2, <1>3, Zenon

-----------------------------------------------------------------------------
(* The section of cs_main. *)

Reports == Range(calls.freed) \cup Range(calls.late)

\* What comes after the current call.
Behind ==
  IF calls.now # <<>> THEN Range(Tail(calls.now)) \cup Reports
  ELSE IF calls.freed # <<>> THEN Range(Tail(calls.freed)) \cup Range(calls.late)
  ELSE Range(Tail(calls.late))

ReportedLate(t) == \E l \in Range(calls.late) : l.tx = t

\* What a report says of the active chain; a conflict removal may be followed by the
\* report of the block the transaction is in.
EntryOK(c) ==
  /\ c.inBlock => c.pindex \in MinedBlocks /\ MinedIn(c.tx, chain.tip) = {c.pindex}
  /\ ~c.inBlock => MinedIn(c.tx, chain.tip) = {} \/ (c.pindex = NoBlock /\ ReportedLate(c.tx))
  /\ IsDisconnect(c) => c.pindex = chain.tip
  /\ c.op \in {"resurrect", "insert"} => c.pindex = NoBlock /\ ~c.inBlock /\ MinedIn(c.tx, chain.tip) = {}

QueueOK ==
  /\ \A c \in Pending : EntryOK(c)
  /\ calls.now # <<>> => \A c \in Range(Tail(calls.now)) : c.op \in {"resurrect", "sync"} /\ ~c.inBlock
  /\ \A c \in Range(calls.freed) : c.op = "sync" /\ c.pindex = NoBlock /\ ~c.inBlock
  /\ \A c \in Range(calls.late) : c.op = "sync" /\ c.inBlock
  /\ Reports # {} => /\ calls.base = NoBlock
                     /\ \A c \in Range(calls.now) : c.op # "resurrect" /\ ~IsDisconnect(c)

\* The current call and what comes after it are all there is.
LEMMA CurrentPending ==
  ASSUME calls \in Calls, NEW n, Running(n)
  PROVE  /\ Current \in Entry /\ Current.op = n
         /\ \A c : c \in Pending <=> c = Current \/ c \in Behind
         /\ \A c \in Pending : c \in Entry
  <1>1. calls.now \in Seq(Entry) /\ calls.freed \in Seq(Entry) /\ calls.late \in Seq(Entry)
    BY Zenon DEF Calls
  <1>2. Current.op = n /\ (calls.now # <<>> \/ calls.freed # <<>> \/ calls.late # <<>>)
    BY Zenon DEF Running
  <1>3. \A c \in Pending : c \in Entry
    BY <1>1 DEF Pending, Range
  <1>4. CASE calls.now # <<>>
    BY <1>1, <1>2, <1>3, <1>4, HeadAndTail, Zenon DEF Current, Behind, Pending, Reports
  <1>5. CASE calls.now = <<>> /\ calls.freed # <<>>
    BY <1>1, <1>2, <1>3, <1>5, HeadAndTail, Short, Zenon DEF Current, Behind, Pending, Reports
  <1>6. CASE calls.now = <<>> /\ calls.freed = <<>> /\ calls.late # <<>>
    BY <1>1, <1>2, <1>3, <1>6, HeadAndTail, Short, Zenon DEF Current, Behind, Pending, Reports
  <1> QED BY <1>2, <1>4, <1>5, <1>6, Zenon

\* What is left when the current call becomes d.
LEMMA AdvancePending ==
  ASSUME calls \in Calls, NEW n, Running(n), NEW d \in Entry, Then(<<d>>)
  PROVE  /\ calls' \in Calls
         /\ \A c : c \in Pending' <=> c = d \/ c \in Behind
         /\ calls'.base = calls.base /\ calls'.target = calls.target
         /\ calls'.now # <<>>
         /\ \A c : c \in Range(calls'.now) <=> c = d \/ (calls.now # <<>> /\ c \in Range(Tail(calls.now)))
         /\ \A c : c \in Range(Tail(calls'.now)) <=> calls.now # <<>> /\ c \in Range(Tail(calls.now))
         /\ \A c \in Range(calls'.freed) : c \in Range(calls.freed)
         /\ \A c \in Range(calls'.late) : c \in Range(calls.late)
         /\ calls.now # <<>> \/ calls.freed # <<>> => calls'.late = calls.late
  <1>1. calls.now \in Seq(Entry) /\ calls.freed \in Seq(Entry) /\ calls.late \in Seq(Entry)
    BY Zenon DEF Calls
  <1>2. <<d>> \in Seq(Entry) /\ Range(<<d>>) = {d} /\ Range(<<>>) = {} /\ <<>> \in Seq(Entry)
    BY Short, Zenon
  <1>3. ASSUME NEW s \in Seq(Entry) PROVE <<d>> \o s # <<>> /\ Tail(<<d>> \o s) = s
    <2> DEFINE w == <<d>> \o s
    <2>1. w \in Seq(Entry) /\ Len(w) = Len(s) + 1 /\ Len(s) \in Nat /\ \A i \in 1 .. Len(s) : w[i + 1] = s[i]
      OBVIOUS
    <2>2. w # <<>>
      BY <2>1
    <2> HIDE DEF w
    <2>3. Tail(w) \in Seq(Entry) /\ Len(Tail(w)) = Len(s) /\ \A i \in 1 .. Len(s) : Tail(w)[i] = w[i + 1]
      BY <2>1, <2>2
    <2>4. ASSUME NEW r \in Seq(Entry), Len(r) = Len(s), \A i \in 1 .. Len(s) : r[i] = s[i] PROVE r = s
      <3>1. r = [i \in 1 .. Len(r) |-> r[i]] /\ s = [i \in 1 .. Len(s) |-> s[i]]
        OBVIOUS
      <3> QED BY <3>1, <2>4, Zenon
    <2>5. \A i \in 1 .. Len(s) : Tail(w)[i] = s[i]
      BY <2>1, <2>3, Zenon
    <2>6. Tail(w) = s
      BY <2>3, <2>4, <2>5, Zenon
    <2> QED BY <2>2, <2>6, Zenon DEF w
  <1>7. ASSUME NEW s \in Seq(Entry)
        PROVE  /\ <<d>> \o s \in Seq(Entry)
               /\ \A c : c \in Range(<<d>> \o s) <=> c = d \/ c \in Range(s)
    <2> DEFINE u == <<d>>
    <2>1. u \in Seq(Entry) /\ \A c : c \in Range(u) <=> c = d
      BY <1>2, Zenon
    <2> HIDE DEF u
    <2>2. u \o s \in Seq(Entry) /\ \A c : c \in Range(u \o s) <=> c \in Range(u) \/ c \in Range(s)
      BY <2>1, Concatenated, Zenon
    <2> QED BY <2>1, <2>2, Zenon DEF u
  <1>4. CASE calls.now # <<>>
    <2>1. Tail(calls.now) \in Seq(Entry)
      BY <1>1, <1>4, HeadAndTail, Zenon
    <2>2. calls' = [calls EXCEPT !.now = <<d>> \o Tail(calls.now)]
      BY <1>4, Zenon DEF Then
    <2>3. <<d>> \o Tail(calls.now) \in Seq(Entry)
          /\ \A c : c \in Range(<<d>> \o Tail(calls.now)) <=> c = d \/ c \in Range(Tail(calls.now))
      BY <2>1, <1>7, Zenon
    <2>4. /\ calls' \in Calls /\ calls'.now = <<d>> \o Tail(calls.now)
          /\ calls'.freed = calls.freed /\ calls'.late = calls.late
          /\ calls'.base = calls.base /\ calls'.target = calls.target
      BY <2>2, <2>3, Zenon DEF Calls
    <2> QED BY <1>3, <1>4, <2>1, <2>3, <2>4, Zenon DEF Pending, Behind, Reports
  <1>5. CASE calls.now = <<>> /\ calls.freed # <<>>
    <2>1. Tail(calls.freed) \in Seq(Entry) /\ \A c \in Range(Tail(calls.freed)) : c \in Range(calls.freed)
      BY <1>1, <1>5, HeadAndTail, Zenon
    <2>2. calls' = [calls EXCEPT !.now = <<d>>, !.freed = Tail(calls.freed)]
      BY <1>5, Zenon DEF Then
    <2>3. /\ calls' \in Calls /\ calls'.now = <<d>>
          /\ calls'.freed = Tail(calls.freed) /\ calls'.late = calls.late
          /\ calls'.base = calls.base /\ calls'.target = calls.target
      BY <2>1, <2>2, <1>2, Zenon DEF Calls
    <2>4. Tail(<<d>>) = <<>> /\ <<d>> # <<>>
      OBVIOUS
    <2> QED BY <1>2, <1>5, <2>1, <2>3, <2>4, Zenon DEF Pending, Behind, Reports
  <1>6. CASE calls.now = <<>> /\ calls.freed = <<>> /\ calls.late # <<>>
    <2>1. Tail(calls.late) \in Seq(Entry) /\ \A c \in Range(Tail(calls.late)) : c \in Range(calls.late)
      BY <1>1, <1>6, HeadAndTail, Zenon
    <2>2. calls' = [calls EXCEPT !.now = <<d>>, !.late = Tail(calls.late)]
      BY <1>6, Zenon DEF Then
    <2>3. /\ calls' \in Calls /\ calls'.now = <<d>>
          /\ calls'.late = Tail(calls.late) /\ calls'.freed = calls.freed
          /\ calls'.base = calls.base /\ calls'.target = calls.target
      BY <2>1, <2>2, <1>2, Zenon DEF Calls
    <2>4. Tail(<<d>>) = <<>> /\ <<d>> # <<>>
      OBVIOUS
    <2> QED BY <1>2, <1>6, <2>1, <2>3, <2>4, Zenon DEF Pending, Behind, Reports
  <1> QED BY <1>4, <1>5, <1>6, Zenon DEF Running

\* What is left when the current call is over.
LEMMA DropPending ==
  ASSUME calls \in Calls, NEW n, Running(n), Then(<<>>)
  PROVE  /\ calls' \in Calls
         /\ \A c : c \in Pending' <=> c \in Behind
         /\ calls'.base = calls.base /\ calls'.target = calls.target
         /\ \A c : c \in Range(calls'.now) <=> calls.now # <<>> /\ c \in Range(Tail(calls.now))
         /\ \A c \in Range(calls'.freed) : c \in Range(calls.freed)
         /\ \A c \in Range(calls'.late) : c \in Range(calls.late)
         /\ calls.now # <<>> \/ calls.freed # <<>> => calls'.late = calls.late
  <1>1. calls.now \in Seq(Entry) /\ calls.freed \in Seq(Entry) /\ calls.late \in Seq(Entry)
    BY Zenon DEF Calls
  <1>2. Range(<<>>) = {} /\ <<>> \in Seq(Entry)
    BY Short, Zenon
  <1>4. CASE calls.now # <<>>
    <2>1. Tail(calls.now) \in Seq(Entry)
      BY <1>1, <1>4, HeadAndTail, Zenon
    <2>2. calls' = [calls EXCEPT !.now = <<>> \o Tail(calls.now)] /\ <<>> \o Tail(calls.now) = Tail(calls.now)
      BY <1>4, <2>1 DEF Then
    <2>4. /\ calls' \in Calls /\ calls'.now = Tail(calls.now)
          /\ calls'.freed = calls.freed /\ calls'.late = calls.late
          /\ calls'.base = calls.base /\ calls'.target = calls.target
      BY <2>1, <2>2, Zenon DEF Calls
    <2> QED BY <1>4, <2>4, Zenon DEF Pending, Behind, Reports
  <1>5. CASE calls.now = <<>> /\ calls.freed # <<>>
    <2>1. Tail(calls.freed) \in Seq(Entry) /\ \A c \in Range(Tail(calls.freed)) : c \in Range(calls.freed)
      BY <1>1, <1>5, HeadAndTail, Zenon
    <2>2. calls' = [calls EXCEPT !.now = <<>>, !.freed = Tail(calls.freed)]
      BY <1>5, Zenon DEF Then
    <2>3. /\ calls' \in Calls /\ calls'.now = <<>>
          /\ calls'.freed = Tail(calls.freed) /\ calls'.late = calls.late
          /\ calls'.base = calls.base /\ calls'.target = calls.target
      BY <2>1, <2>2, <1>2, Zenon DEF Calls
    <2> QED BY <1>2, <1>5, <2>1, <2>3, Zenon DEF Pending, Behind, Reports
  <1>6. CASE calls.now = <<>> /\ calls.freed = <<>> /\ calls.late # <<>>
    <2>1. Tail(calls.late) \in Seq(Entry) /\ \A c \in Range(Tail(calls.late)) : c \in Range(calls.late)
      BY <1>1, <1>6, HeadAndTail, Zenon
    <2>2. calls' = [calls EXCEPT !.now = <<>>, !.late = Tail(calls.late)]
      BY <1>6, Zenon DEF Then
    <2>3. /\ calls' \in Calls /\ calls'.now = <<>>
          /\ calls'.late = Tail(calls.late) /\ calls'.freed = calls.freed
          /\ calls'.base = calls.base /\ calls'.target = calls.target
      BY <2>1, <2>2, <1>2, Zenon DEF Calls
    <2> QED BY <1>2, <1>6, <2>1, <2>3, Zenon DEF Pending, Behind, Reports
  <1> QED BY <1>4, <1>5, <1>6, Zenon DEF Running

\* Nothing but block reports is left once the late reports are being taken.
LEMMA LateBehind ==
  ASSUME calls \in Calls, QueueOK, calls.now = <<>>, calls.freed = <<>>, calls.late # <<>>
  PROVE  Current.inBlock /\ \A c \in Behind : c.inBlock
  <1>1. calls.late \in Seq(Entry)
    BY Zenon DEF Calls
  <1>2. Current \in Range(calls.late) /\ \A c \in Behind : c \in Range(calls.late)
    BY <1>1, HeadAndTail, Zenon DEF Current, Behind
  <1> QED BY <1>2, Zenon DEF QueueOK

\* A call goes on to its next part.
LEMMA AdvanceQueue ==
  ASSUME calls \in Calls, QueueOK, NEW n, Running(n), NEW d \in Entry, Then(<<d>>),
         chain'.tip = chain.tip,
         d.tx = Current.tx, d.pindex = Current.pindex, d.inBlock = Current.inBlock,
         d.op # "resurrect", d.op = "insert" => Current.op = "resurrect"
  PROVE  QueueOK'
  <1>1. /\ Current \in Entry
        /\ \A c : c \in Pending <=> c = Current \/ c \in Behind
    BY CurrentPending, Zenon
  <1>2. /\ \A c : c \in Pending' <=> c = d \/ c \in Behind
        /\ calls'.base = calls.base
        /\ calls'.now # <<>>
        /\ \A c : c \in Range(calls'.now) <=> c = d \/ (calls.now # <<>> /\ c \in Range(Tail(calls.now)))
        /\ \A c : c \in Range(Tail(calls'.now)) <=> calls.now # <<>> /\ c \in Range(Tail(calls.now))
        /\ \A c \in Range(calls'.freed) : c \in Range(calls.freed)
        /\ \A c \in Range(calls'.late) : c \in Range(calls.late)
        /\ calls.now # <<>> \/ calls.freed # <<>> => calls'.late = calls.late
    BY AdvancePending, Zenon
  <1>3. calls.now # <<>> \/ calls.freed # <<>> \/ calls.late # <<>>
    BY Zenon DEF Running
  <1>4. ASSUME NEW c \in Pending, c.inBlock \/ calls'.late = calls.late, EntryOK(c)
        PROVE  EntryOK(c)'
    BY <1>4, Zenon DEF EntryOK, MinedIn, IsDisconnect, ReportedLate
  <1>5. \A c \in Pending : c.inBlock \/ calls'.late = calls.late
    BY <1>1, <1>2, <1>3, LateBehind, Zenon
  <1>6. \A c \in Pending : EntryOK(c) /\ EntryOK(c)'
    BY <1>4, <1>5, Zenon DEF QueueOK
  <1>7. EntryOK(d)'
    <2>1. PICK e \in Pending : e = Current
      BY <1>1, Zenon
    <2>2. EntryOK(e)'
      BY <1>6, Zenon
    <2>3. EntryOK(e)
      BY <1>6, Zenon
    <2> QED BY <2>1, <2>2, <2>3, Zenon DEF EntryOK, IsDisconnect, ReportedLate
  <1>8. \A c \in Pending' : EntryOK(c)'
    BY <1>1, <1>2, <1>6, <1>7, Zenon
  <1>9. Reports' # {} => /\ calls'.base = NoBlock
                         /\ \A c \in Range(calls'.now) : c.op # "resurrect" /\ ~IsDisconnect(c)
    <2> SUFFICES ASSUME Reports' # {} PROVE /\ calls'.base = NoBlock
                         /\ \A c \in Range(calls'.now) : c.op # "resurrect" /\ ~IsDisconnect(c)
      OBVIOUS
    <2>1. Reports # {}
      BY <1>2, Zenon DEF Reports
    <2>2. calls.base = NoBlock /\ \A c \in Range(calls.now) : c.op # "resurrect" /\ ~IsDisconnect(c)
      BY <2>1, Zenon DEF QueueOK
    <2>3. calls.now # <<>> => Current \in Range(calls.now) /\ \A c \in Range(Tail(calls.now)) : c \in Range(calls.now)
      BY HeadAndTail, Zenon DEF Calls, Current
    <2>4. calls.now = <<>> => Current \in Range(calls.freed) \/ Current \in Range(calls.late)
      BY <1>3, HeadAndTail, Zenon DEF Calls, Current
    <2>5. ~IsDisconnect(Current)
      BY <2>2, <2>3, <2>4, Zenon DEF QueueOK, IsDisconnect
    <2>6. ~IsDisconnect(d)
      BY <2>5, Zenon DEF IsDisconnect
    <2> QED BY <1>2, <2>2, <2>3, <2>6, Zenon
  <1>10. \A c \in Range(Tail(calls'.now)) : c.op \in {"resurrect", "sync"} /\ ~c.inBlock
    BY <1>2, Zenon DEF QueueOK
  <1>11. /\ \A c \in Range(calls'.freed) : c.op = "sync" /\ c.pindex = NoBlock /\ ~c.inBlock
         /\ \A c \in Range(calls'.late) : c.op = "sync" /\ c.inBlock
    BY <1>2, Zenon DEF QueueOK
  <1> QED BY <1>8, <1>9, <1>10, <1>11, Zenon DEF QueueOK, IsDisconnect

\* A call ends.
LEMMA DropQueue ==
  ASSUME calls \in Calls, QueueOK, NEW n, Running(n), Then(<<>>), chain'.tip = chain.tip
  PROVE  QueueOK'
  <1>1. /\ Current \in Entry
        /\ \A c : c \in Pending <=> c = Current \/ c \in Behind
    BY CurrentPending, Zenon
  <1>2. /\ calls' \in Calls
        /\ \A c : c \in Pending' <=> c \in Behind
        /\ calls'.base = calls.base
        /\ \A c : c \in Range(calls'.now) <=> calls.now # <<>> /\ c \in Range(Tail(calls.now))
        /\ \A c \in Range(calls'.freed) : c \in Range(calls.freed)
        /\ \A c \in Range(calls'.late) : c \in Range(calls.late)
        /\ calls.now # <<>> \/ calls.freed # <<>> => calls'.late = calls.late
    BY DropPending, Zenon
  <1>3. calls.now # <<>> \/ calls.freed # <<>> \/ calls.late # <<>>
    BY Zenon DEF Running
  <1>4. ASSUME NEW c \in Pending, c.inBlock \/ calls'.late = calls.late, EntryOK(c)
        PROVE  EntryOK(c)'
    BY <1>4, Zenon DEF EntryOK, MinedIn, IsDisconnect, ReportedLate
  <1>5. \A c \in Pending : c.inBlock \/ calls'.late = calls.late
    BY <1>1, <1>2, <1>3, LateBehind, Zenon
  <1>6. \A c \in Pending' : EntryOK(c)'
    BY <1>1, <1>2, <1>4, <1>5, Zenon DEF QueueOK
  <1>7. calls.now # <<>> => \A c \in Range(Tail(calls.now)) : c \in Range(calls.now)
    BY HeadAndTail, Zenon DEF Calls
  <1>8. Reports' # {} => /\ calls'.base = NoBlock
                         /\ \A c \in Range(calls'.now) : c.op # "resurrect" /\ ~IsDisconnect(c)
    BY <1>2, <1>7, Zenon DEF QueueOK, Reports
  <1>9. calls'.now # <<>> => \A c \in Range(Tail(calls'.now)) : c \in Range(calls'.now)
    BY <1>2, HeadAndTail, Zenon DEF Calls
  <1>10. calls'.now # <<>> => \A c \in Range(Tail(calls'.now)) : c.op \in {"resurrect", "sync"} /\ ~c.inBlock
    BY <1>2, <1>9, Zenon DEF QueueOK
  <1>11. /\ \A c \in Range(calls'.freed) : c.op = "sync" /\ c.pindex = NoBlock /\ ~c.inBlock
         /\ \A c \in Range(calls'.late) : c.op = "sync" /\ c.inBlock
    BY <1>2, Zenon DEF QueueOK
  <1> QED BY <1>6, <1>8, <1>10, <1>11, Zenon DEF QueueOK, IsDisconnect

-----------------------------------------------------------------------------
(* Types. *)

LEMMA AddType ==
  ASSUME track \in Tracks, NEW t \in Txs, NEW b \in MinedOrNone
  PROVE  AddNonLockedTx(track, t, b) \in Tracks
  <1>1. track.info \in [Ids -> Info] /\ track.byInputs \in SUBSET (Outpoints \X Txs) /\ track.retry \in SUBSET Txs
    BY Zenon DEF Tracks
  <1>2. Inputs[t] \X {t} \subseteq Outpoints \X Txs
    BY Zenon DEF Outpoints
  <1>3. \A q \in Ids : /\ track.info[q].tx \in BOOLEAN /\ track.info[q].mined \in MinedOrNone
                       /\ track.info[q].children \in SUBSET Txs
    BY <1>1, Zenon DEF Info
  <1>4. \A q \in Ids, kids \in SUBSET Txs :
          [tx       |-> q = t \/ track.info[q].tx,
           mined    |-> IF q = t THEN b ELSE track.info[q].mined,
           children |-> kids] \in Info
    BY <1>3, Zenon DEF Info
  <1>5. AddNonLockedTx(track, t, b).info \in [Ids -> Info]
    BY <1>3, <1>4, Zenon DEF AddNonLockedTx
  <1>6. AddNonLockedTx(track, t, b).byInputs \in SUBSET (Outpoints \X Txs)
    BY <1>1, <1>2, Zenon DEF AddNonLockedTx
  <1>7. AddNonLockedTx(track, t, b)
          = [info |-> AddNonLockedTx(track, t, b).info, byInputs |-> AddNonLockedTx(track, t, b).byInputs,
             retry |-> track.retry]
    BY Zenon DEF AddNonLockedTx
  <1> QED BY <1>1, <1>5, <1>6, <1>7 DEF Tracks

LEMMA RemoveType ==
  ASSUME track \in Tracks, NEW txs, NEW retried \in SUBSET Txs
  PROVE  RemoveNonLockedTxs(track, txs, retried) \in Tracks
  <1>1. track.info \in [Ids -> Info] /\ track.byInputs \in SUBSET (Outpoints \X Txs) /\ track.retry \in SUBSET Txs
    BY Zenon DEF Tracks
  <1>2. NoInfo \in Info
    BY Zenon DEF NoInfo, Info, MinedOrNone
  <1>3. \A q \in Ids, kids \in SUBSET Txs : [track.info[q] EXCEPT !.children = kids] \in Info
    BY <1>1, Zenon DEF Info
  <1>4. \A q \in Ids : track.info[q].children \in SUBSET Txs
    BY <1>1, Zenon DEF Info
  <1>5. RemoveNonLockedTxs(track, txs, retried).info \in [Ids -> Info]
    BY <1>2, <1>3, <1>4, Zenon DEF RemoveNonLockedTxs
  <1>6. /\ RemoveNonLockedTxs(track, txs, retried).byInputs \in SUBSET (Outpoints \X Txs)
        /\ RemoveNonLockedTxs(track, txs, retried).retry \in SUBSET Txs
    BY <1>1, Zenon DEF RemoveNonLockedTxs
  <1>7. RemoveNonLockedTxs(track, txs, retried)
          = [info |-> RemoveNonLockedTxs(track, txs, retried).info,
             byInputs |-> RemoveNonLockedTxs(track, txs, retried).byInputs,
             retry |-> RemoveNonLockedTxs(track, txs, retried).retry]
    BY Zenon DEF RemoveNonLockedTxs
  <1> QED BY <1>5, <1>6, <1>7, Zenon DEF Tracks

\* One transaction is removed, its children retried or not.
LEMMA RemoveOneType ==
  ASSUME track \in Tracks, NEW t \in Txs, NEW retryChildren \in BOOLEAN
  PROVE  RemoveNonLockedTx(track, t, retryChildren) \in Tracks
  <1>1. track.info[t].children \in SUBSET Txs
    BY Zenon DEF Tracks, Info, Ids
  <1>2. (IF retryChildren THEN track.info[t].children ELSE {}) \in SUBSET Txs
    BY <1>1, Zenon
  <1> QED BY <1>2, RemoveType, Zenon DEF RemoveNonLockedTx

\* The reports of a block and of a set of transactions.
LEMMA ReportTypes ==
  ASSUME NEW s \in Seq(Txs), NEW b \in BlockOrNone, NEW i \in BOOLEAN
  PROVE  /\ [k \in DOMAIN s |-> SyncTransaction(s[k], b, i)] \in Seq(Entry)
         /\ [k \in DOMAIN s |-> Op("resurrect", s[k])] \in Seq(Entry)
         /\ \A c : c \in Range([k \in DOMAIN s |-> SyncTransaction(s[k], b, i)])
                     <=> \E t \in Range(s) : c = SyncTransaction(t, b, i)
         /\ \A c : c \in Range([k \in DOMAIN s |-> Op("resurrect", s[k])])
                     <=> \E t \in Range(s) : c = Op("resurrect", t)
  <1>1. \A t \in Txs : SyncTransaction(t, b, i) \in Entry /\ Op("resurrect", t) \in Entry
    BY Zenon DEF SyncTransaction, Op, Entry, BlockOrNone
  <1>2. DOMAIN s = 1 .. Len(s) /\ Len(s) \in Nat /\ \A k \in DOMAIN s : s[k] \in Txs
    OBVIOUS
  <1>3. [k \in DOMAIN s |-> SyncTransaction(s[k], b, i)] \in Seq(Entry)
    BY <1>1, <1>2
  <1>4. [k \in DOMAIN s |-> Op("resurrect", s[k])] \in Seq(Entry)
    BY <1>1, <1>2
  <1>5. \A c : c \in Range([k \in DOMAIN s |-> SyncTransaction(s[k], b, i)])
                 <=> \E t \in Range(s) : c = SyncTransaction(t, b, i)
    BY Zenon DEF Range
  <1>6. \A c : c \in Range([k \in DOMAIN s |-> Op("resurrect", s[k])])
                 <=> \E t \in Range(s) : c = Op("resurrect", t)
    BY Zenon DEF Range
  <1> QED BY <1>3, <1>4, <1>5, <1>6, Zenon

\* An order of a set of transactions is a sequence of them.
LEMMA OrderType ==
  ASSUME NEW S \in SUBSET Txs, NEW s \in Orders(S)
  PROVE  s \in Seq(Txs) /\ Range(s) \subseteq S
  <1>1. PICK n \in 0 .. Cardinality(S) : s \in [1 .. n -> S]
    BY Zenon DEF Orders, Bijection, Injection
  <1>2. n \in Nat
    OBVIOUS
  <1> QED BY <1>1, <1>2 DEF Range

\* The calls of a new section.
LEMMA NewCalls ==
  /\ NoCalls \in Calls
  /\ \A s \in Seq(Entry) : [NoCalls EXCEPT !.now = s] \in Calls /\ [NoCalls EXCEPT !.now = s].now = s
  /\ \A b, m \in BlockOrNone : [NoCalls EXCEPT !.base = b, !.target = m] \in Calls
  /\ \A b \in BlockOrNone : [NoCalls EXCEPT !.base = b] \in Calls
  BY Short, Zenon DEF NoCalls, Calls, BlockOrNone

LEMMA TypeInit == Init => TypeOK
  <1> SUFFICES ASSUME Init PROVE TypeOK
    OBVIOUS
  <1>1. ChainType
    BY BlockTree, Zenon DEF Init, ChainType, BlockOrNone, MinedOrNone
  <1>2. track \in Tracks
    BY Zenon DEF Init, Untracked, Tracks, NoInfo, Info, MinedOrNone
  <1>3. WorkerType
    <2>1. /\ worker.pc = "idle" /\ worker.locks = {} /\ worker.lock = None /\ worker.mined = NoBlock
          /\ worker.txs = {} /\ worker.retry = {} /\ worker = Resting
      BY Zenon DEF Init, Resting
    <2> QED BY <2>1, Zenon DEF WorkerType, MinedOrNone, Resting, Places
  <1>4. calls \in Calls
    BY NewCalls, Zenon DEF Init
  <1> QED BY <1>1, <1>2, <1>3, <1>4, Zenon DEF Init, TypeOK

\* DisconnectTip queues the transactions of the block twice.
LEMMA DisconnectCalls ==
  ASSUME TypeOK, DisconnectTip
  PROVE  /\ chain.tip \in MinedBlocks /\ Parent[chain.tip] \in Blocks
         /\ calls' \in Calls /\ chain'.tip = Parent[chain.tip]
         /\ calls'.freed = calls.freed /\ calls'.late = calls.late
         /\ \A c : c \in Range(calls'.now) <=>
              \E t \in TxsOf(chain.tip) :
                c \in {Op("resurrect", t), SyncTransaction(t, Parent[chain.tip], FALSE)}
  <1> DEFINE b == chain.tip
             vtx == BlockTxs[b]
             one == [i \in DOMAIN vtx |-> Op("resurrect", vtx[i])]
             two == [i \in DOMAIN vtx |-> SyncTransaction(vtx[i], Parent[b], FALSE)]
  <1>1. b \in MinedBlocks /\ Parent[b] \in Blocks /\ vtx \in Seq(Txs)
    BY BlockTree, InstantSendAssumption, Zenon DEF TypeOK, ChainType, DisconnectTip, MinedBlocks
  <1>2. /\ one \in Seq(Entry) /\ two \in Seq(Entry)
        /\ \A c : c \in Range(one) <=> \E t \in Range(vtx) : c = Op("resurrect", t)
        /\ \A c : c \in Range(two) <=> \E t \in Range(vtx) : c = SyncTransaction(t, Parent[b], FALSE)
    <2>1. Parent[b] \in BlockOrNone
      BY <1>1, Zenon DEF BlockOrNone
    <2> HIDE DEF vtx
    <2> QED BY <1>1, <2>1, ReportTypes, Zenon
  <1>3. calls' = [calls EXCEPT !.base = IF Descends(calls.base, Parent[b]) THEN NoBlock ELSE calls.base,
                               !.now = one \o two]
    BY Zenon DEF DisconnectTip
  <1>4. chain'.tip = Parent[b]
    BY Zenon DEF DisconnectTip, TypeOK, ChainType
  <1> HIDE DEF one, two
  <1>5. one \o two \in Seq(Entry) /\ \A c : c \in Range(one \o two) <=> c \in Range(one) \/ c \in Range(two)
    BY <1>2, Concatenated, Zenon
  <1>6. /\ calls' \in Calls /\ calls'.now = one \o two
        /\ calls'.freed = calls.freed /\ calls'.late = calls.late
    BY <1>3, <1>5, Zenon DEF TypeOK, Calls, BlockOrNone
  <1> QED BY <1>1, <1>2, <1>4, <1>5, <1>6, Zenon DEF TxsOf

\* ConnectTip appends its reports to those of the blocks before.
LEMMA ConnectCalls ==
  ASSUME TypeOK, NEW b \in Blocks, ConnectTip(b)
  PROVE  /\ b \in MinedBlocks /\ Parent[b] = chain.tip
         /\ calls' \in Calls /\ calls.now = <<>> /\ calls'.now = <<>> /\ calls'.base = NoBlock
         /\ \/ /\ chain'.tip = chain.tip
               /\ calls'.freed = calls.freed /\ calls'.late = calls.late
               /\ pool' = pool /\ db' = db /\ ghost' = ghost
            \/ /\ chain'.tip = b
               /\ pool' \in SUBSET pool /\ pool' \cap TxsOf(b) = {}
               /\ db' = RemoveChainedInstantSendLocks(UNION {ConflictingLocks(t) : t \in TxsOf(b)})
               /\ ghost' = [ghost EXCEPT !.overtaken = @ \ TxsOf(b), !.stale = @ \cap db'.islocks]
               /\ \A c \in Range(calls.freed) : c \in Range(calls'.freed)
               /\ \A c \in Range(calls'.freed) :
                    c \in Range(calls.freed) \/ \E t \in pool : c = SyncTransaction(t, NoBlock, FALSE)
               /\ \A c : c \in Range(calls'.late) <=>
                    c \in Range(calls.late) \/ \E t \in TxsOf(b) : c = SyncTransaction(t, b, TRUE)
  <1> DEFINE bad == UNION {ConflictingLocks(t) : t \in TxsOf(b)}
             spent == UNION {Inputs[t] : t \in TxsOf(b)}
             gone == WithDescendants({t \in pool \ TxsOf(b) : Inputs[t] \cap spent # {}})
             vtx == BlockTxs[b]
             late == [i \in DOMAIN vtx |-> SyncTransaction(vtx[i], b, TRUE)]
  <1>1. b \in MinedBlocks /\ Parent[b] = chain.tip /\ calls.now = <<>> /\ calls.base = NoBlock
    BY BlockTree, Zenon DEF ConnectTip, MinedBlocks
  <1>2. calls \in Calls /\ NoBlock \in BlockOrNone
    BY Zenon DEF TypeOK, BlockOrNone
  <1>3. CASE bad # {} /\ ~HasChainLock(b)
    <2>1. calls' = [calls EXCEPT !.target = NoBlock] /\ UNCHANGED <<pool, db, ghost>>
          /\ chain' = [chain EXCEPT !.failed = @ \cup {b}]
      BY <1>3, Zenon DEF ConnectTip
    <2>2. chain'.tip = chain.tip
      BY <2>1, Zenon DEF TypeOK, ChainType
    <2>3. /\ calls' \in Calls /\ calls'.now = calls.now /\ calls'.base = calls.base
          /\ calls'.freed = calls.freed /\ calls'.late = calls.late
      BY <1>2, <2>1, Zenon DEF Calls
    <2> QED BY <1>1, <2>1, <2>2, <2>3, Zenon
  <1>4. CASE ~(bad # {} /\ ~HasChainLock(b))
    <2>1. PICK removed \in Orders(gone) :
            calls' = [calls EXCEPT
                        !.target = IF b = calls.target THEN NoBlock ELSE calls.target,
                        !.freed = calls.freed \o [i \in DOMAIN removed |-> SyncTransaction(removed[i], NoBlock, FALSE)],
                        !.late = calls.late \o late]
      BY <1>4, Zenon DEF ConnectTip
    <2>2. /\ pool' = pool \ (TxsOf(b) \cup gone)
          /\ db' = RemoveChainedInstantSendLocks(bad)
          /\ ghost' = [ghost EXCEPT !.overtaken = @ \ TxsOf(b), !.stale = @ \cap db'.islocks]
      BY <1>4, Zenon DEF ConnectTip
    <2>3. chain'.tip = b
      BY <1>4, Zenon DEF ConnectTip, TypeOK, ChainType
    <2>4. gone \subseteq pool /\ gone \in SUBSET Txs
      BY Zenon DEF WithDescendants, TypeOK
    <2> DEFINE freed == [i \in DOMAIN removed |-> SyncTransaction(removed[i], NoBlock, FALSE)]
    <2>5. removed \in Seq(Txs) /\ Range(removed) \subseteq gone
      BY <2>4, OrderType, Zenon
    <2>6. /\ freed \in Seq(Entry)
          /\ \A c : c \in Range(freed) <=> \E t \in Range(removed) : c = SyncTransaction(t, NoBlock, FALSE)
      BY <1>2, <2>5, ReportTypes, Zenon
    <2>7. vtx \in Seq(Txs) /\ b \in BlockOrNone
      BY InstantSendAssumption, Zenon DEF BlockOrNone
    <2>8. /\ late \in Seq(Entry)
          /\ \A c : c \in Range(late) <=> \E t \in Range(vtx) : c = SyncTransaction(t, b, TRUE)
      BY <2>7, ReportTypes, Zenon
    <2>9. calls.freed \in Seq(Entry) /\ calls.late \in Seq(Entry)
      BY <1>2, Zenon DEF Calls
    <2> HIDE DEF freed, late, gone, vtx
    <2>10. /\ calls.freed \o freed \in Seq(Entry)
           /\ \A c : c \in Range(calls.freed \o freed) <=> c \in Range(calls.freed) \/ c \in Range(freed)
      BY <2>6, <2>9, Concatenated, Zenon
    <2>11. /\ calls.late \o late \in Seq(Entry)
           /\ \A c : c \in Range(calls.late \o late) <=> c \in Range(calls.late) \/ c \in Range(late)
      BY <2>8, <2>9, Concatenated, Zenon
    <2>12. calls' = [calls EXCEPT !.target = IF b = calls.target THEN NoBlock ELSE calls.target,
                                  !.freed = calls.freed \o freed, !.late = calls.late \o late]
      BY <2>1, Zenon DEF freed
    <2>13. /\ calls' \in Calls /\ calls'.now = calls.now /\ calls'.base = calls.base
           /\ calls'.freed = calls.freed \o freed /\ calls'.late = calls.late \o late
      BY <1>2, <2>10, <2>11, <2>12, Zenon DEF Calls
    <2>14. pool' \in SUBSET pool /\ pool' \cap TxsOf(b) = {}
      BY <2>2, Zenon
    <2>15. \A c \in Range(calls'.freed) :
             c \in Range(calls.freed) \/ \E t \in pool : c = SyncTransaction(t, NoBlock, FALSE)
      BY <2>4, <2>5, <2>6, <2>10, <2>13, Zenon
    <2>16. \A c : c \in Range(calls'.late) <=>
             c \in Range(calls.late) \/ \E t \in TxsOf(b) : c = SyncTransaction(t, b, TRUE)
      BY <2>8, <2>11, <2>13, Zenon DEF TxsOf, vtx
    <2>17. \A c \in Range(calls.freed) : c \in Range(calls'.freed)
      BY <2>10, <2>13, Zenon
    <2> QED BY <1>1, <2>2, <2>3, <2>13, <2>14, <2>15, <2>16, <2>17, Zenon
  <1> QED BY <1>3, <1>4, Zenon

\* The part of TypeOK about db and about ghost.
DbType == db \in [islocks : SUBSET Islocks, mined : SUBSET (Nat \X Txs)]
GhostType == ghost \in [overtaken : SUBSET Txs, stale : SUBSET Islocks]

LEMMA SectionTypes ==
  ASSUME TypeOK, QueueOK, Section
  PROVE  TypeOK'
  <1>1. /\ ChainType /\ pool \in SUBSET Txs /\ DbType /\ track \in Tracks /\ DOMAIN votes = Outpoints
        /\ pending \in SUBSET Islocks /\ WorkerType /\ calls \in Calls /\ GhostType
    BY Zenon DEF TypeOK, DbType, GhostType
  <1>2. ASSUME NEW n, Running(n)
        PROVE  /\ Current \in Entry /\ Current.tx \in Txs /\ Current.pindex \in BlockOrNone
               /\ Current.inBlock \in BOOLEAN /\ EntryOK(Current)
    <2>1. Current \in Entry /\ Current \in Pending
      BY <1>1, <1>2, CurrentPending, Zenon
    <2> QED BY <2>1, Zenon DEF Entry, QueueOK
  <1>3. CASE Insert
    <2>1. Running("insert") /\ Then(<<SyncTransaction(Current.tx, NoBlock, FALSE)>>)
      BY <1>3, Zenon DEF Insert
    <2>2. SyncTransaction(Current.tx, NoBlock, FALSE) \in Entry
      BY <1>2, <2>1, Zenon DEF SyncTransaction, Entry, BlockOrNone
    <2>3. calls' \in Calls
      BY <1>1, <2>1, <2>2, AdvancePending, Zenon
    <2>4. pool' \in SUBSET Txs
      BY <1>1, <1>2, <1>3, <2>1, Zenon DEF Insert
    <2> QED BY <1>1, <1>3, <2>3, <2>4, Zenon DEF Insert, TypeOK, ChainType, DbType, WorkerType, GhostType
  <1>4. CASE Resurrect
    <2>1. Running("resurrect") /\ pool' \subseteq pool
          /\ (Then(<<Op("insert", Current.tx)>>) \/ Then(<<>>))
      BY <1>4, Zenon DEF Resurrect, WithDescendants
    <2>2. Op("insert", Current.tx) \in Entry
      BY <1>2, <2>1, Zenon DEF Op, Entry, BlockOrNone
    <2>3. calls' \in Calls
      BY <1>1, <2>1, <2>2, AdvancePending, DropPending, Zenon
    <2>4. ghost' \in [overtaken : SUBSET Txs, stale : SUBSET Islocks]
      BY <1>1, <1>4, Zenon DEF Resurrect, GhostType
    <2> QED BY <1>1, <1>4, <2>1, <2>3, <2>4, Zenon DEF Resurrect, TypeOK, ChainType, DbType, WorkerType
  <1>5. CASE DisconnectTip
    <2>1. calls' \in Calls /\ Parent[chain.tip] \in Blocks
      BY <1>5, DisconnectCalls, Zenon
    <2>2. ChainType'
      BY <1>1, <1>5, <2>1, Zenon DEF DisconnectTip, ChainType
    <2> QED BY <1>1, <1>5, <2>1, <2>2, Zenon DEF DisconnectTip, TypeOK, DbType, WorkerType, GhostType
  <1>6. ASSUME NEW b \in Blocks, ConnectTip(b) PROVE TypeOK'
    <2>1. /\ calls' \in Calls /\ b \in MinedBlocks /\ pool' \in SUBSET pool
          /\ db' = db \/ db' = RemoveChainedInstantSendLocks(UNION {ConflictingLocks(t) : t \in TxsOf(b)})
          /\ ghost' = ghost \/ ghost' = [ghost EXCEPT !.overtaken = @ \ TxsOf(b), !.stale = @ \cap db'.islocks]
      BY <1>6, ConnectCalls, Zenon
    <2>2. chain' = [chain EXCEPT !.failed = @ \cup {b}]
          \/ chain' = [chain EXCEPT !.tip = b,
                         !.txIndex = [t \in LookedUp |-> IF t \in TxsOf(b) THEN b ELSE @[t]]]
      BY <1>6, Zenon DEF ConnectTip
    <2>3. chain.txIndex \in [LookedUp -> MinedOrNone]
      BY <1>1, Zenon DEF ChainType
    <2>4. [t \in LookedUp |-> IF t \in TxsOf(b) THEN b ELSE chain.txIndex[t]] \in [LookedUp -> MinedOrNone]
      BY <2>1, <2>3, Zenon DEF MinedOrNone
    <2>5. ChainType'
      BY <1>1, <2>2, <2>4, Zenon DEF ChainType
    <2>6. DbType'
      BY <1>1, <2>1, Zenon DEF DbType, RemoveChainedInstantSendLocks
    <2>7. GhostType'
      BY <1>1, <2>1, Zenon DEF GhostType
    <2> QED BY <1>1, <1>6, <2>1, <2>5, <2>6, <2>7, Zenon
               DEF ConnectTip, TypeOK, DbType, WorkerType, GhostType
  <1>7. CASE SyncTransactionRead
    <2>1. Running("sync")
      BY <1>7, Zenon DEF SyncTransactionRead
    <2>2. \A o \in {"process", "remove"} : [Current EXCEPT !.op = o] \in Entry
      BY <1>2, <2>1, Zenon DEF Entry
    <2>3. Then(<<>>) \/ \E o \in {"process", "remove"} : Then(<<[Current EXCEPT !.op = o]>>)
      BY <1>7, Zenon DEF SyncTransactionRead
    <2>4. calls' \in Calls
      BY <1>1, <2>1, <2>2, <2>3, AdvancePending, DropPending, Zenon
    <2>5. Current.pindex # NoBlock => MinedRecord(Current) \in Nat \X Txs
      BY <1>2, <2>1, BlockTree DEF MinedRecord, BlockOrNone
    <2>6. db' = db \/ (Current.pindex # NoBlock /\ (\/ db' = [db EXCEPT !.mined = @ \cup {MinedRecord(Current)}]
                                                   \/ db' = [db EXCEPT !.mined = @ \ {MinedRecord(Current)}]))
      BY <1>7, Zenon DEF SyncTransactionRead
    <2>7. DbType'
      BY <1>1, <2>5, <2>6 DEF DbType
    <2>8. track' = track \/ track' = RemoveNonLockedTx(track, Current.tx, FALSE)
      BY <1>7, Zenon DEF SyncTransactionRead
    <2>9. track' \in Tracks
      BY <1>1, <1>2, <2>1, <2>8, RemoveOneType, Zenon
    <2>10. GhostType'
      BY <1>1, <1>7 DEF SyncTransactionRead, GhostType, DbType
    <2> QED BY <1>1, <1>7, <2>4, <2>7, <2>9, <2>10, Zenon
        DEF SyncTransactionRead, TypeOK, ChainType, DbType, WorkerType, GhostType
  <1>8. CASE SyncTransactionProcess
    <2>1. Running("process") /\ Then(<<[Current EXCEPT !.op = "add"]>>)
      BY <1>8, Zenon DEF SyncTransactionProcess
    <2>2. [Current EXCEPT !.op = "add"] \in Entry
      BY <1>2, <2>1, Zenon DEF Entry
    <2>3. calls' \in Calls
      BY <1>1, <2>1, <2>2, AdvancePending, Zenon
    <2>4. DOMAIN votes' = Outpoints
      BY <1>8, Zenon DEF SyncTransactionProcess, ProcessTx
    <2> QED BY <1>1, <1>8, <2>3, <2>4, Zenon
               DEF SyncTransactionProcess, TypeOK, ChainType, DbType, WorkerType, GhostType
  <1>9. CASE SyncTransactionAdd
    <2>1. Running("add") /\ Then(<<>>)
          /\ track' = AddNonLockedTx(track, Current.tx, IF IsDisconnect(Current) THEN NoBlock ELSE Current.pindex)
      BY <1>9, Zenon DEF SyncTransactionAdd
    <2>2. calls' \in Calls
      BY <1>1, <2>1, DropPending, Zenon
    <2>3. (IF IsDisconnect(Current) THEN NoBlock ELSE Current.pindex) \in MinedOrNone
      BY <1>2, <2>1, Zenon DEF EntryOK, IsDisconnect, MinedOrNone
    <2>4. track' \in Tracks
      BY <1>1, <1>2, <2>1, <2>3, AddType, Zenon
    <2> QED BY <1>1, <1>9, <2>2, <2>4, Zenon
               DEF SyncTransactionAdd, TypeOK, ChainType, DbType, WorkerType, GhostType
  <1>10. CASE SyncTransactionRemove
    <2>1. Running("remove") /\ Then(<<>>) /\ track' = RemoveNonLockedTx(track, Current.tx, TRUE)
      BY <1>10, Zenon DEF SyncTransactionRemove
    <2>2. calls' \in Calls
      BY <1>1, <2>1, DropPending, Zenon
    <2>3. track' \in Tracks
      BY <1>1, <1>2, <2>1, RemoveOneType, Zenon
    <2> QED BY <1>1, <1>10, <2>2, <2>3, Zenon
               DEF SyncTransactionRemove, TypeOK, ChainType, DbType, WorkerType, GhostType
  <1> QED BY <1>3, <1>4, <1>5, <1>6, <1>7, <1>8, <1>9, <1>10, Zenon DEF Section

LEMMA WorkTypes ==
  ASSUME TypeOK, Work
  PROVE  TypeOK'
  <1>1. /\ ChainType /\ pool \in SUBSET Txs /\ DbType /\ track \in Tracks /\ DOMAIN votes = Outpoints
        /\ pending \in SUBSET Islocks /\ WorkerType /\ calls \in Calls /\ GhostType
    BY Zenon DEF TypeOK, DbType, GhostType
  <1>2. /\ worker.pc \in Places /\ worker.locks \in SUBSET Islocks /\ worker.lock \in Islocks \cup {None}
        /\ worker.mined \in MinedOrNone /\ worker.retry \in SUBSET Txs
        /\ \A p \in Places : worker.pc = p /\ p # "untrack" => worker.txs \in SUBSET (MinedBlocks \X Txs)
        /\ worker.pc = "untrack" => worker.txs \in SUBSET Txs
    BY <1>1, Zenon DEF WorkerType
  <1>3. ASSUME NEW p \in Places \ {"store", "invalidate", "untrack"}, NEW k \in SUBSET Islocks,
               NEW l \in Islocks \cup {None}, NEW m \in MinedOrNone,
               NEW x \in SUBSET (MinedBlocks \X Txs), NEW r \in SUBSET Txs,
               worker' = [pc |-> p, locks |-> k, lock |-> l, mined |-> m, txs |-> x, retry |-> r]
        PROVE  WorkerType'
    BY <1>3, Zenon DEF WorkerType
  <1>31. ASSUME NEW p \in {"store", "invalidate"}, NEW k \in SUBSET Islocks,
                NEW l \in Islocks \cup {None}, NEW m \in MinedOrNone,
                NEW x \in SUBSET (MinedBlocks \X Txs), NEW r \in SUBSET Txs,
                worker' = [pc |-> p, locks |-> k, lock |-> l, mined |-> m, txs |-> x, retry |-> r],
                p = "store" => l \in Islocks, p = "invalidate" => m \in MinedBlocks
         PROVE  WorkerType'
    BY <1>31, Zenon DEF WorkerType, Places
  <1>32. ASSUME NEW k \in SUBSET Islocks, NEW l \in Islocks \cup {None}, NEW m \in MinedOrNone,
                NEW x \in SUBSET Txs, NEW r \in SUBSET Txs,
                worker' = [pc |-> "untrack", locks |-> k, lock |-> l, mined |-> m, txs |-> x, retry |-> r]
         PROVE  WorkerType'
    BY <1>32, Zenon DEF WorkerType, Places
  <1>33. /\ {} \in SUBSET (MinedBlocks \X Txs) /\ {} \in SUBSET Txs /\ {} \in SUBSET Islocks
         /\ NoBlock \in MinedOrNone /\ None \in Islocks \cup {None}
    BY Zenon DEF MinedOrNone
  <1>34. \A p \in {"idle", "next", "mempool", "collect", "prune", "pruning", "resolve", "activate", "retry"} :
           p \in Places \ {"store", "invalidate", "untrack"}
    BY Zenon DEF Places
  <1>4. worker = [pc |-> worker.pc, locks |-> worker.locks, lock |-> worker.lock, mined |-> worker.mined,
                  txs |-> worker.txs, retry |-> worker.retry]
    BY <1>1, Zenon DEF WorkerType
  <1>5. worker' = Done => WorkerType'
    <2> SUFFICES ASSUME worker' = Done PROVE WorkerType'
      OBVIOUS
    <2>1. worker' = [pc |-> "next", locks |-> worker.locks \ {worker.lock}, lock |-> None, mined |-> NoBlock,
                     txs |-> {}, retry |-> worker.retry]
      BY <1>4, Zenon DEF Done
    <2>2. worker.locks \ {worker.lock} \in SUBSET Islocks
      BY <1>2, Zenon
    <2> QED BY <1>2, <1>3, <1>33, <1>34, <2>1, <2>2, Zenon
  <1>6. worker' = Resting => WorkerType'
    BY <1>3, <1>33, <1>34, Zenon DEF Resting
  <1>7. ASSUME NEW txs \in SUBSET Txs, worker' = Retrying(txs) PROVE WorkerType'
    <2>1. worker' = Resting
          \/ worker' = [pc |-> "retry", locks |-> {}, lock |-> None, mined |-> NoBlock, txs |-> {}, retry |-> txs]
      BY <1>7, Zenon DEF Retrying, Resting
    <2> QED BY <1>3, <1>33, <1>34, <1>6, <2>1, Zenon
  <1>8. CASE ProcessPendingInstantSendLocks
    <2>1. worker' = [pc |-> "next", locks |-> pending, lock |-> None, mined |-> NoBlock, txs |-> {}, retry |-> {}]
      BY <1>8, Zenon DEF ProcessPendingInstantSendLocks, Resting
    <2>2. WorkerType'
      BY <1>1, <1>3, <1>33, <1>34, <2>1, Zenon
    <2> QED BY <1>1, <1>8, <2>2, Zenon
               DEF ProcessPendingInstantSendLocks, TypeOK, ChainType, DbType, GhostType
  <1>9. CASE Store
    <2>1. CASE worker.lock \in db.islocks
      <3>1. worker' = Done /\ UNCHANGED <<db, track, ghost>>
        BY <1>9, <2>1, Zenon DEF Store
      <3> QED BY <1>1, <1>5, <1>9, <3>1, Zenon DEF Store, TypeOK, ChainType, DbType, GhostType
    <2>2. CASE worker.lock \notin db.islocks
      <3> DEFINE t == worker.lock
      <3>1. t \in Islocks /\ t \in Txs
        BY <1>1, <1>9, InstantSendAssumption, Zenon DEF Store, At, WorkerType
      <3>2. worker' = [worker EXCEPT !.pc = "mempool", !.mined = NoBlock]
            /\ track' = RemoveNonLockedTx(track, t, TRUE)
        BY <1>9, <2>2, Zenon DEF Store
      <3>3. worker' = [pc |-> "mempool", locks |-> worker.locks, lock |-> t, mined |-> NoBlock,
                       txs |-> worker.txs, retry |-> worker.retry]
        BY <1>4, <3>2, Zenon
      <3>4. worker.txs \in SUBSET (MinedBlocks \X Txs)
        BY <1>2, <1>9, Zenon DEF Store, At, Places
      <3>5. WorkerType'
        BY <1>2, <1>3, <1>33, <1>34, <3>1, <3>3, <3>4, Zenon
      <3>6. track' \in Tracks
        BY <1>1, <3>1, <3>2, RemoveOneType, Zenon
      <3>7. db' = [db EXCEPT !.islocks = @ \cup {t},
                             !.mined = IF worker.mined = NoBlock THEN @ ELSE @ \cup {<<Height[worker.mined], t>>}]
        BY <1>9, <2>2, Zenon DEF Store
      <3>8. worker.mined # NoBlock => <<Height[worker.mined], t>> \in Nat \X Txs
        BY <1>2, <3>1, BlockTree, Zenon DEF MinedOrNone, MinedBlocks
      <3>9. DbType'
        BY <1>1, <3>1, <3>7, <3>8, Zenon DEF DbType
      <3>10. \E more \in SUBSET Txs : \E stale \in SUBSET Islocks :
               ghost' = [ghost EXCEPT !.overtaken = @ \cup more, !.stale = stale]
        <4> DEFINE near == {u \in UnderWay : u = t \/ Conflict(u, t) \/ t \in Parents(u)}
                   lost == {u \in pool : t \in Parents(u)} \ track.info[t].children
        <4>1. \E stale \in {ghost.stale \ {t}, ghost.stale \cup {t}} :
                ghost' = [ghost EXCEPT !.overtaken = @ \cup (near \cup lost), !.stale = stale]
          <5>1. PICK stale \in {ghost.stale \ {t}, ghost.stale \cup {t}} :
                  ghost' = [ghost EXCEPT !.overtaken = @ \cup near \cup lost, !.stale = stale]
            BY <1>9, <2>2, Zenon DEF Store
          <5>2. ghost.overtaken \cup near \cup lost = ghost.overtaken \cup (near \cup lost)
            OBVIOUS
          <5> QED BY <5>1, <5>2, Zenon
        <4>2. \A c \in Pending : c.tx \in Txs
          <5>1. \A s \in Seq(Entry) : \A c \in Range(s) : c.tx \in Txs
            <6>1. \A s \in Seq(Entry) : \A c \in Range(s) : c \in Entry
              BY DEF Range
            <6> QED BY <6>1, Zenon DEF Entry
          <5> QED BY <1>1, <5>1, Zenon DEF Calls, Pending
        <4>3. near \cup lost \in SUBSET Txs
          BY <1>1, <4>2, Zenon DEF UnderWay
        <4>4. ghost.stale \in SUBSET Islocks
          BY <1>1, Zenon DEF GhostType
        <4> QED BY <3>1, <4>1, <4>3, <4>4, Zenon
      <3>11. GhostType'
        BY <1>1, <3>10, Zenon DEF GhostType
      <3> QED BY <1>1, <1>9, <3>5, <3>6, <3>9, <3>11, Zenon
                 DEF Store, TypeOK, ChainType, DbType, GhostType
    <2> QED BY <2>1, <2>2, Zenon
  <1>10. CASE RemoveMempoolConflictsForLock
    <2> DEFINE toDelete == {u \in pool : Conflict(u, worker.lock)}
    <2>1. \E p \in {"collect", "untrack"} : /\ worker' = [worker EXCEPT !.pc = p, !.txs = toDelete] /\ (p = "collect" => toDelete = {})
      BY <1>10, Zenon DEF RemoveMempoolConflictsForLock
    <2>2. toDelete \in SUBSET Txs /\ pool' \in SUBSET Txs
      BY <1>1, <1>10, Zenon DEF RemoveMempoolConflictsForLock
    <2> HIDE DEF toDelete
    <2>3. PICK p \in {"collect", "untrack"} : /\ worker' = [worker EXCEPT !.pc = p, !.txs = toDelete] /\ (p = "collect" => toDelete = {})
      BY <2>1, Zenon
    <2>5. worker' = [pc |-> p, locks |-> worker.locks, lock |-> worker.lock, mined |-> worker.mined,
                     txs |-> toDelete, retry |-> worker.retry]
      BY <1>4, <2>3, Zenon
    <2>4. WorkerType'
      <3>1. CASE p = "collect"
        <4>1. worker' = [pc |-> "collect", locks |-> worker.locks, lock |-> worker.lock, mined |-> worker.mined,
                         txs |-> {}, retry |-> worker.retry]
          BY <2>3, <2>5, <3>1, Zenon
        <4> QED BY <1>2, <1>3, <1>33, <1>34, <4>1, Zenon
      <3>2. CASE p = "untrack"
        BY <1>2, <1>32, <2>2, <2>5, <3>2, Zenon
      <3> QED BY <3>1, <3>2, Zenon
    <2> QED BY <1>1, <1>10, <2>2, <2>4, Zenon
               DEF RemoveMempoolConflictsForLock, TypeOK, ChainType, DbType, GhostType
  <1>11. CASE RemoveMempoolConflictsTracking
    <2>1. worker' = [pc |-> "collect", locks |-> worker.locks, lock |-> worker.lock, mined |-> worker.mined,
                     txs |-> {}, retry |-> worker.retry]
      BY <1>4, <1>11, Zenon DEF RemoveMempoolConflictsTracking
    <2>2. WorkerType'
      BY <1>2, <1>3, <1>33, <1>34, <2>1, Zenon
    <2>3. track' \in Tracks
      BY <1>1, <1>11, RemoveType, Zenon DEF RemoveMempoolConflictsTracking, RemoveConflictedTxs
    <2> QED BY <1>1, <1>11, <2>2, <2>3, Zenon
               DEF RemoveMempoolConflictsTracking, TypeOK, ChainType, DbType, GhostType
  <1>12. CASE CollectBlockConflicts
    <2> DEFINE found == MinedConflicts(worker.lock)
    <2>1. found \in SUBSET (MinedBlocks \X Txs)
      <3>1. \A e \in track.byInputs : e[2] \in Txs
        BY <1>1, Zenon DEF Tracks
      <3>2. \A u \in Txs : track.info[u].mined \in MinedOrNone
        BY <1>1, Zenon DEF Tracks, Ids, Info
      <3> QED BY <3>1, <3>2 DEF MinedConflicts, MinedOrNone
    <2>2. \/ worker' = Done
          \/ \E p \in {"prune", "resolve"} : worker' = [worker EXCEPT !.txs = found, !.pc = p]
      BY <1>12, Zenon DEF CollectBlockConflicts
    <2> HIDE DEF found
    <2>3. \/ worker' = Done
          \/ \E p \in {"prune", "resolve"} :
               worker' = [pc |-> p, locks |-> worker.locks, lock |-> worker.lock, mined |-> worker.mined,
                          txs |-> found, retry |-> worker.retry]
      BY <1>4, <2>2, Zenon
    <2>4. WorkerType'
      BY <1>2, <1>3, <1>34, <1>5, <2>1, <2>3, Zenon
    <2> QED BY <1>1, <1>12, <2>4, Zenon DEF CollectBlockConflicts, TypeOK, ChainType, DbType, GhostType
  <1>13. CASE ResolveBlock
    <2>1. PICK f \in worker.txs :
            LET here == {x \in worker.txs : x[1] = f[1]}
            IN  /\ RemoveConflictedTxs({x[2] : x \in here})
                /\ worker' = [worker EXCEPT !.pc = "invalidate", !.mined = f[1], !.txs = @ \ here]
      BY <1>13, Zenon DEF ResolveBlock
    <2>2. worker.txs \in SUBSET (MinedBlocks \X Txs) /\ f[1] \in MinedBlocks
      BY <1>2, <1>13, Zenon DEF ResolveBlock, At, Places
    <2>3. \E rest \in SUBSET (MinedBlocks \X Txs) :
            worker' = [pc |-> "invalidate", locks |-> worker.locks, lock |-> worker.lock, mined |-> f[1],
                       txs |-> rest, retry |-> worker.retry]
      BY <1>4, <2>1, <2>2, Zenon
    <2>4. WorkerType'
      BY <1>2, <1>31, <2>2, <2>3, Zenon DEF MinedOrNone
    <2>5. track' \in Tracks
      BY <1>1, <2>1, RemoveType, Zenon DEF RemoveConflictedTxs
    <2> QED BY <1>1, <1>13, <2>4, <2>5, Zenon DEF ResolveBlock, TypeOK, ChainType, DbType, GhostType
  <1>14. CASE WaitForTipHeight
    <2>1. worker' = [pc |-> "pruning", locks |-> worker.locks, lock |-> worker.lock, mined |-> worker.mined,
                     txs |-> worker.txs, retry |-> worker.retry]
      BY <1>4, <1>14, Zenon DEF WaitForTipHeight
    <2>2. worker.txs \in SUBSET (MinedBlocks \X Txs)
      BY <1>2, <1>14, Zenon DEF WaitForTipHeight, At, Places
    <2>3. WorkerType'
      BY <1>2, <1>3, <1>34, <2>1, <2>2, Zenon
    <2> QED BY <1>1, <1>14, <2>3, Zenon DEF WaitForTipHeight, TypeOK, ChainType, DbType, GhostType
  <1>15. CASE RemoveChainLockConflictingLock
    <2>1. worker' = Done /\ db' = RemoveChainedInstantSendLocks({worker.lock})
          /\ ghost' = [ghost EXCEPT !.stale = @ \cap db'.islocks]
      BY <1>15, Zenon DEF RemoveChainLockConflictingLock
    <2>2. DbType' /\ GhostType'
      BY <1>1, <2>1, Zenon DEF DbType, GhostType, RemoveChainedInstantSendLocks
    <2> QED BY <1>1, <1>5, <1>15, <2>1, <2>2, Zenon
               DEF RemoveChainLockConflictingLock, TypeOK, ChainType, DbType, GhostType
  <1>16. CASE InvalidateConflictingBlock
    <2>1. worker.mined \in MinedBlocks /\ worker.txs \in SUBSET (MinedBlocks \X Txs)
      BY <1>1, <1>2, <1>16, Zenon DEF InvalidateConflictingBlock, At, WorkerType, Places
    <2>2. worker' = [pc |-> "activate", locks |-> worker.locks, lock |-> worker.lock, mined |-> worker.mined,
                     txs |-> worker.txs, retry |-> worker.retry]
      BY <1>4, <1>16, Zenon DEF InvalidateConflictingBlock
    <2>3. WorkerType'
      BY <1>2, <1>3, <1>34, <2>1, <2>2, Zenon
    <2>4. ChainType'
      BY <1>1, <1>16, <2>1, Zenon DEF InvalidateConflictingBlock, ChainType, MinedBlocks
    <2>5. \E b \in BlockOrNone : calls' = [NoCalls EXCEPT !.base = b]
      BY <1>16, <2>1, BlockTree, Zenon DEF InvalidateConflictingBlock, BlockOrNone, MinedBlocks
    <2>6. calls' \in Calls
      BY <2>5, NewCalls, Zenon
    <2> QED BY <1>1, <1>16, <2>3, <2>4, <2>6, Zenon
               DEF InvalidateConflictingBlock, TypeOK, DbType, GhostType
  <1>17. CASE Invalidated
    <2>1. \/ worker' = Done
          \/ worker' = [pc |-> "resolve", locks |-> worker.locks, lock |-> worker.lock, mined |-> worker.mined,
                        txs |-> worker.txs, retry |-> worker.retry]
      BY <1>4, <1>17, Zenon DEF Invalidated
    <2>2. worker.txs \in SUBSET (MinedBlocks \X Txs)
      BY <1>2, <1>17, Zenon DEF Invalidated, At, Places
    <2>3. WorkerType'
      BY <1>2, <1>3, <1>34, <1>5, <2>1, <2>2, Zenon
    <2> QED BY <1>1, <1>17, <2>3, Zenon DEF Invalidated, TypeOK, ChainType, DbType, GhostType
  <1>18. CASE ProcessPendingRetryLockTxs
    <2>1. worker' = Retrying(track.retry) /\ track' = [track EXCEPT !.retry = {}]
      BY <1>18, Zenon DEF ProcessPendingRetryLockTxs
    <2>2. track' \in Tracks /\ track.retry \in SUBSET Txs
      BY <1>1, <2>1, Zenon DEF Tracks
    <2>3. WorkerType'
      BY <1>7, <2>1, <2>2, Zenon
    <2> QED BY <1>1, <1>18, <2>2, <2>3, Zenon
               DEF ProcessPendingRetryLockTxs, TypeOK, ChainType, DbType, GhostType
  <1>19. ASSUME NEW t \in Txs, LookUp(t) PROVE TypeOK'
    <2> DEFINE hashBlock == IF t \in pool THEN NoBlock ELSE chain.txIndex[t]
    <2>1. t \in worker.locks /\ t \in Islocks /\ worker.pc = "next"
      BY <1>2, <1>19, Zenon DEF LookUp, At
    <2>2. t \in LookedUp /\ chain.txIndex \in [LookedUp -> MinedOrNone]
      BY <1>1, <2>1, Zenon DEF LookedUp, ChainType
    <2>3. hashBlock \in MinedOrNone
      BY <2>2, Zenon DEF MinedOrNone
    <2>4. worker' = [worker EXCEPT !.locks = @ \ {t}]
          \/ worker' = [worker EXCEPT !.pc = "store", !.lock = t, !.mined = hashBlock]
      BY <1>19, Zenon DEF LookUp
    <2> HIDE DEF hashBlock
    <2>5. \/ worker' = [pc |-> "next", locks |-> worker.locks \ {t}, lock |-> worker.lock, mined |-> worker.mined,
                        txs |-> worker.txs, retry |-> worker.retry]
          \/ worker' = [pc |-> "store", locks |-> worker.locks, lock |-> t, mined |-> hashBlock,
                        txs |-> worker.txs, retry |-> worker.retry]
      BY <1>4, <2>1, <2>4, Zenon
    <2>6. worker.txs \in SUBSET (MinedBlocks \X Txs)
      BY <1>2, <2>1, Zenon DEF Places
    <2>7. WorkerType'
      BY <1>2, <1>3, <1>31, <1>34, <2>1, <2>3, <2>5, <2>6, Zenon
    <2> QED BY <1>1, <1>19, <2>7, Zenon DEF LookUp, TypeOK, ChainType, DbType, GhostType
  <1>20. ASSUME NEW t \in Txs, RetryTx(t) PROVE TypeOK'
    <2>1. worker' = Retrying(worker.retry \ {t})
      BY <1>20, Zenon DEF RetryTx
    <2>2. worker.retry \ {t} \in SUBSET Txs
      BY <1>2, Zenon
    <2>3. WorkerType'
      BY <1>7, <2>1, <2>2, Zenon
    <2>4. DOMAIN votes' = Outpoints
      BY <1>1, <1>20, Zenon DEF RetryTx, ProcessTx
    <2> QED BY <1>1, <1>20, <2>3, <2>4, Zenon DEF RetryTx, TypeOK, ChainType, DbType, GhostType
  <1> QED BY <1>8, <1>9, <1>10, <1>11, <1>12, <1>13, <1>14, <1>15, <1>16, <1>17, <1>18, <1>19, <1>20,
             Zenon DEF Work

\* The steps that begin a section of cs_main without reporting anything yet.
Begins ==
  /\ calls = NoCalls
  /\ calls'.now = <<>> /\ calls'.freed = <<>> /\ calls'.late = <<>>
  /\ chain'.tip = chain.tip
  /\ UNCHANGED <<pool, db, track, votes, pending, ghost>>
  /\ worker' = worker \/ (InvalidateConflictingBlock /\ worker' = [worker EXCEPT !.pc = "activate"])

\* The steps of the worker and of the ChainLocks between the calls of a section.
Quiet ==
  \/ ProcessPendingInstantSendLocks \/ Store \/ RemoveMempoolConflictsForLock
  \/ RemoveMempoolConflictsTracking \/ CollectBlockConflicts \/ ResolveBlock
  \/ WaitForTipHeight \/ RemoveChainLockConflictingLock \/ Invalidated
  \/ ProcessPendingRetryLockTxs
  \/ \E t \in Txs : LookUp(t) \/ RetryTx(t)
  \/ \E t \in Islocks : ProcessMessageInstantSendLock(t)
  \/ \E b \in CLSigs : ProcessNewChainLock(b)
  \/ DecideToNotify \/ NotifyChainLock
  \/ UNCHANGED vars

LEMMA OtherTypes ==
  ASSUME TypeOK, [Next]_vars, ~Section, ~Work
  PROVE  TypeOK'
  <1>1. /\ ChainType /\ pool \in SUBSET Txs /\ DbType /\ track \in Tracks /\ DOMAIN votes = Outpoints
        /\ pending \in SUBSET Islocks /\ WorkerType /\ calls \in Calls /\ GhostType
    BY Zenon DEF TypeOK, DbType, GhostType
  <1>2. ASSUME NEW t \in Txs, AcceptToMemoryPool(t) PROVE TypeOK'
    <2>1. <<Op("insert", t)>> \in Seq(Entry)
      BY DEF Op, Entry, BlockOrNone
    <2>2. calls' \in Calls
      BY <1>2, <2>1, NewCalls, Zenon DEF AcceptToMemoryPool
    <2>3. GhostType'
      BY <1>1, <1>2, Zenon DEF AcceptToMemoryPool, GhostType
    <2> QED BY <1>1, <1>2, <2>2, <2>3, Zenon
               DEF AcceptToMemoryPool, TypeOK, ChainType, DbType, WorkerType, GhostType
  <1>3. ASSUME NEW t \in Islocks, ProcessMessageInstantSendLock(t) PROVE TypeOK'
    BY <1>1, <1>3, Zenon
       DEF ProcessMessageInstantSendLock, TypeOK, ChainType, DbType, WorkerType, GhostType
  <1>4. ASSUME NEW b \in Blocks, ActivateStep(b) PROVE TypeOK'
    <2>1. calls' \in Calls
      BY <1>4, NewCalls, Zenon DEF ActivateStep, DownTo, BlockOrNone
    <2> QED BY <1>1, <1>4, <2>1, Zenon DEF ActivateStep, TypeOK, ChainType, DbType, WorkerType, GhostType
  <1>5. ASSUME NEW b \in Blocks, Restart(b) PROVE TypeOK'
    <2>1. ChainType'
      BY <1>1, <1>5, Zenon DEF Restart, ChainType, BlockOrNone
    <2>2. track' \in Tracks
      BY <1>5, Zenon DEF Restart, Untracked, Tracks, NoInfo, Info, MinedOrNone
    <2>3. WorkerType'
      <3>1. /\ worker'.pc = "idle" /\ worker'.locks = {} /\ worker'.lock = None /\ worker'.mined = NoBlock
            /\ worker'.txs = {} /\ worker'.retry = {} /\ worker' = Resting
        BY <1>5, Zenon DEF Restart, Resting
      <3> QED BY <3>1, Zenon DEF WorkerType, MinedOrNone, Resting, Places
    <2>4. calls' \in Calls
      BY <1>5, NewCalls, Zenon DEF Restart
    <2>5. GhostType'
      BY <1>1, <1>5, Zenon DEF Restart, GhostType, DbType
    <2> QED BY <1>1, <1>5, <2>1, <2>2, <2>3, <2>4, <2>5, Zenon DEF Restart, TypeOK, DbType, GhostType
  <1>6. ASSUME NEW b \in CLSigs, ProcessNewChainLock(b) PROVE TypeOK'
    <2>1. ChainType'
      BY <1>1, <1>6, InstantSendAssumption, Zenon DEF ProcessNewChainLock, ChainType, BlockOrNone
    <2> QED BY <1>1, <1>6, <2>1, Zenon DEF ProcessNewChainLock, TypeOK, DbType, WorkerType, GhostType
  <1>7. CASE EnforceBestChainLock
    <2>1. \E more \in SUBSET Blocks : chain' = [chain EXCEPT !.failed = more]
      BY <1>1, <1>7, Zenon DEF EnforceBestChainLock, ChainType
    <2>2. ChainType'
      BY <1>1, <2>1, Zenon DEF ChainType
    <2>3. \E b \in BlockOrNone : calls' = [NoCalls EXCEPT !.base = b]
      BY <1>1, <1>7, Zenon DEF EnforceBestChainLock, ChainType, DownTo, BlockOrNone
    <2>4. calls' \in Calls
      BY <2>3, NewCalls, Zenon
    <2> QED BY <1>1, <1>7, <2>2, <2>4, Zenon
               DEF EnforceBestChainLock, TypeOK, DbType, WorkerType, GhostType
  <1>8. CASE DecideToNotify
    <2>1. ChainType'
      BY <1>1, <1>8, Zenon DEF DecideToNotify, ChainType
    <2> QED BY <1>1, <1>8, <2>1, Zenon DEF DecideToNotify, TypeOK, DbType, WorkerType, GhostType
  <1>9. CASE NotifyChainLock
    <2> DEFINE b == chain.notifying
    <2>1. ChainType'
      BY <1>1, <1>9, Zenon DEF NotifyChainLock, ChainType, BlockOrNone
    <2>2. db' = RemoveConfirmedInstantSendLocks(db, Height[b])
      BY <1>9, Zenon DEF NotifyChainLock, HandleFullyConfirmedBlock
    <2>3. DbType'
      BY <1>1, <2>2, Zenon DEF RemoveConfirmedInstantSendLocks, DbType
    <2>4. \E txs, retried \in SUBSET Txs : track' = RemoveNonLockedTxs(track, txs, retried)
      <3> DEFINE confirmed == {t \in Txs : track.info[t].mined # NoBlock /\ track.info[t].mined \in Ancestry[b]}
                 children == UNION {track.info[t].children : t \in confirmed}
      <3>1. PICK early \in SUBSET (children \cap confirmed) :
              track' = RemoveNonLockedTxs(track, confirmed, children \ early)
        BY <1>9, Zenon DEF NotifyChainLock, HandleFullyConfirmedBlock
      <3>2. \A t \in Txs : track.info[t].children \in SUBSET Txs
        BY <1>1, Zenon DEF Tracks, Ids, Info
      <3>3. confirmed \in SUBSET Txs /\ children \ early \in SUBSET Txs
        BY <3>2, Zenon
      <3> QED BY <3>1, <3>3, Zenon
    <2>5. track' \in Tracks
      BY <1>1, <2>4, RemoveType, Zenon
    <2>6. GhostType'
      <3>1. \A c \in Pending : c.tx \in Txs
        <4>1. \A s \in Seq(Entry) : \A c \in Range(s) : c \in Entry
          BY DEF Range
        <4>2. \A s \in Seq(Entry) : \A c \in Range(s) : c.tx \in Txs
          BY <4>1, Zenon DEF Entry
        <4> QED BY <1>1, <4>2, Zenon DEF Calls, Pending
      <3>2. ghost' = [overtaken |-> ghost.overtaken \cup (UnderWay \cap ChainTxs(b)),
                      stale |-> ghost.stale \cap db'.islocks]
        BY <1>9, Zenon DEF NotifyChainLock, HandleFullyConfirmedBlock
      <3> QED BY <1>1, <3>1, <3>2, Zenon DEF GhostType, UnderWay
    <2> QED BY <1>1, <1>9, <2>1, <2>3, <2>5, <2>6, Zenon
               DEF NotifyChainLock, TypeOK, DbType, WorkerType, GhostType
  <1>10. CASE UNCHANGED vars
    BY <1>10, Zenon DEF vars, TypeOK, ChainType, WorkerType
  <1> QED BY <1>2, <1>3, <1>4, <1>5, <1>6, <1>7, <1>8, <1>9, <1>10, Zenon DEF Next

LEMMA TypeStep ==
  ASSUME TypeOK, QueueOK, [Next]_vars
  PROVE  TypeOK'
  BY SectionTypes, WorkTypes, OtherTypes, Zenon

\* What a step is, as far as the section of cs_main is concerned.
LEMMA StepKinds ==
  ASSUME TypeOK, [Next]_vars
  PROVE  Section \/ (\E t \in Txs : AcceptToMemoryPool(t)) \/ (\E b \in Blocks : Restart(b)) \/ Begins \/ Quiet
  <1>2. \A b, m : /\ [NoCalls EXCEPT !.base = b].now = <<>> /\ [NoCalls EXCEPT !.base = b, !.target = m].now = <<>>
                 /\ [NoCalls EXCEPT !.base = b].freed = <<>> /\ [NoCalls EXCEPT !.base = b, !.target = m].freed = <<>>
                 /\ [NoCalls EXCEPT !.base = b].late = <<>> /\ [NoCalls EXCEPT !.base = b, !.target = m].late = <<>>
    BY Zenon DEF NoCalls
  <1>3. ASSUME NEW b \in Blocks, ActivateStep(b) PROVE Begins
    BY <1>2, <1>3, Zenon DEF ActivateStep, Begins
  <1>4. ASSUME EnforceBestChainLock PROVE Begins
    <2>1. chain'.tip = chain.tip
      BY <1>4, Zenon DEF EnforceBestChainLock, TypeOK, ChainType
    <2> QED BY <1>2, <1>4, <2>1, Zenon DEF EnforceBestChainLock, Begins
  <1>5. ASSUME InvalidateConflictingBlock PROVE Begins
    <2>1. chain'.tip = chain.tip
      BY <1>5, Zenon DEF InvalidateConflictingBlock, TypeOK, ChainType
    <2> QED BY <1>2, <1>5, <2>1, Zenon DEF InvalidateConflictingBlock, Begins
  <1> QED BY <1>3, <1>4, <1>5, Zenon DEF Next, Work, Quiet

\* Between the calls of a section nothing of it changes.
LEMMA QuietFrame ==
  ASSUME TypeOK, Quiet
  PROVE  calls' = calls /\ chain'.tip = chain.tip /\ pool' \subseteq pool
  <1>1. CASE DecideToNotify \/ NotifyChainLock \/ \E b \in CLSigs : ProcessNewChainLock(b)
    BY <1>1, Zenon DEF DecideToNotify, NotifyChainLock, ProcessNewChainLock, TypeOK, ChainType
  <1>2. CASE ProcessPendingInstantSendLocks \/ Store \/ RemoveMempoolConflictsTracking \/ CollectBlockConflicts
             \/ ResolveBlock \/ WaitForTipHeight \/ RemoveChainLockConflictingLock \/ Invalidated
    BY <1>2, Zenon DEF ProcessPendingInstantSendLocks, Store, RemoveMempoolConflictsTracking,
         CollectBlockConflicts, ResolveBlock, WaitForTipHeight, RemoveChainLockConflictingLock, Invalidated
  <1>3. CASE RemoveMempoolConflictsForLock
    BY <1>3, Zenon DEF RemoveMempoolConflictsForLock
  <1>4. CASE ProcessPendingRetryLockTxs \/ (\E t \in Txs : LookUp(t) \/ RetryTx(t))
             \/ (\E t \in Islocks : ProcessMessageInstantSendLock(t)) \/ UNCHANGED vars
    BY <1>4, Zenon DEF ProcessPendingRetryLockTxs, LookUp, RetryTx, ProcessMessageInstantSendLock, vars
  <1> QED BY <1>1, <1>2, <1>3, <1>4, Zenon DEF Quiet

-----------------------------------------------------------------------------
(* The reports of a section are true of the active chain. *)

PoolOK == \A t \in pool : MinedIn(t, chain.tip) = {}

\* The block a transaction is mined in, from a block to the next.
LEMMA MinedStep ==
  ASSUME NEW b \in MinedBlocks, NEW t
  PROVE  /\ MinedIn(t, b) = MinedIn(t, Parent[b]) \cup {a \in {b} : t \in TxsOf(b)}
         /\ t \in TxsOf(b) => MinedIn(t, Parent[b]) = {}
  <1>1. b \in Blocks /\ Ancestry[b] = {b} \cup Ancestry[Parent[b]] /\ b \notin Ancestry[Parent[b]]
    BY BlockTree, Zenon DEF MinedBlocks
  <1>2. MinedIn(t, b) = MinedIn(t, Parent[b]) \cup {a \in {b} : t \in TxsOf(b)}
    BY <1>1, Zenon DEF MinedIn
  <1>3. ASSUME t \in TxsOf(b), NEW a \in MinedIn(t, Parent[b]) PROVE FALSE
    BY <1>1, <1>3, MinedOnce, Zenon DEF MinedIn
  <1> QED BY <1>2, <1>3, Zenon

\* A section that begins has nothing to report.
LEMMA NothingPending ==
  /\ calls = NoCalls => Pending = {} /\ calls.now = <<>>
  /\ calls'.now = <<>> /\ calls'.freed = <<>> /\ calls'.late = <<>> => Pending' = {}
  BY Short DEF NoCalls, Pending

LEMMA QueueInit == Init => QueueOK /\ PoolOK
  <1> SUFFICES ASSUME Init PROVE QueueOK /\ PoolOK
    OBVIOUS
  <1>1. calls.now = <<>> /\ calls.freed = <<>> /\ calls.late = <<>> /\ Pending = {}
    BY NothingPending, Zenon DEF Init, NoCalls
  <1>2. Range(<<>>) = {}
    BY Short, Zenon
  <1> QED BY <1>1, <1>2, Zenon DEF Init, QueueOK, PoolOK, Reports

\* An empty section reports nothing.
LEMMA EmptyQueue ==
  ASSUME calls'.now = <<>>, calls'.freed = <<>>, calls'.late = <<>>
  PROVE  QueueOK'
  <1>1. Range(<<>>) = {}
    BY Short, Zenon
  <1> QED BY <1>1, Zenon DEF QueueOK, Reports, Pending

LEMMA DisconnectQueue ==
  ASSUME TypeOK, QueueOK, PoolOK, DisconnectTip
  PROVE  QueueOK' /\ PoolOK'
  <1> DEFINE b == chain.tip
  <1>1. /\ b \in MinedBlocks /\ Parent[b] \in Blocks
        /\ calls' \in Calls /\ chain'.tip = Parent[b]
        /\ calls'.freed = calls.freed /\ calls'.late = calls.late
        /\ \A c : c \in Range(calls'.now) <=>
              \E t \in TxsOf(b) : c \in {Op("resurrect", t), SyncTransaction(t, Parent[b], FALSE)}
    BY DisconnectCalls, Zenon
  <1>2. Range(calls.freed) = {} /\ Range(calls.late) = {}
    BY Zenon DEF DisconnectTip, QueueOK, Reports
  <1>3. ASSUME NEW c \in Range(calls'.now)
        PROVE  EntryOK(c)' /\ c.op \in {"resurrect", "sync"} /\ ~c.inBlock
    <2>1. PICK t \in TxsOf(b) : c \in {Op("resurrect", t), SyncTransaction(t, Parent[b], FALSE)}
      BY <1>1, <1>3, Zenon
    <2>2. MinedIn(t, Parent[b]) = {}
      BY <1>1, <2>1, MinedStep, Zenon
    <2>3. /\ c.tx = t /\ ~c.inBlock /\ c.pindex \in {NoBlock, Parent[b]} /\ c.op \in {"resurrect", "sync"}
          /\ c.op = "resurrect" => c.pindex = NoBlock
      BY <2>1 DEF Op, SyncTransaction
    <2>4. MinedIn(c.tx, chain.tip)' = {}
      BY <1>1, <2>2, <2>3, Zenon DEF MinedIn
    <2> QED BY <1>1, <2>3, <2>4, Zenon DEF EntryOK, IsDisconnect
  <1>4. calls'.now # <<>> => \A c \in Range(Tail(calls'.now)) : c \in Range(calls'.now)
    BY <1>1, HeadAndTail, Zenon DEF Calls
  <1>5. QueueOK'
    BY <1>1, <1>2, <1>3, <1>4, Zenon DEF QueueOK, Pending, Reports
  <1>6. PoolOK'
    <2>1. \A t : MinedIn(t, Parent[b]) \subseteq MinedIn(t, b)
      BY <1>1, MinedStep
    <2>2. pool' = pool
      BY Zenon DEF DisconnectTip
    <2> QED BY <1>1, <2>1, <2>2, Zenon DEF PoolOK, MinedIn
  <1> QED BY <1>5, <1>6, Zenon

LEMMA ConnectQueue ==
  ASSUME TypeOK, QueueOK, PoolOK, NEW b \in Blocks, ConnectTip(b)
  PROVE  QueueOK' /\ PoolOK'
  <1>1. b \in MinedBlocks /\ Parent[b] = chain.tip /\ calls.now = <<>> /\ calls'.now = <<>> /\ calls'.base = NoBlock
    BY ConnectCalls, Zenon
  <1>2. Range(<<>>) = {}
    BY Short, Zenon
  <1>3. CASE /\ chain'.tip = chain.tip
             /\ calls'.freed = calls.freed /\ calls'.late = calls.late
             /\ pool' = pool
    <2>1. Pending' = Pending /\ Reports' = Reports
      BY <1>1, <1>3, Zenon DEF Pending, Reports
    <2>2. \A c : EntryOK(c)' = EntryOK(c)
      BY <1>3, Zenon DEF EntryOK, MinedIn, IsDisconnect, ReportedLate
    <2>3. QueueOK'
      BY <1>1, <1>2, <1>3, <2>1, <2>2, Zenon DEF QueueOK
    <2> QED BY <1>3, <2>3, Zenon DEF PoolOK, MinedIn
  <1>4. CASE /\ chain'.tip = b
             /\ pool' \in SUBSET pool /\ pool' \cap TxsOf(b) = {}
             /\ \A c \in Range(calls.freed) : c \in Range(calls'.freed)
             /\ \A c \in Range(calls'.freed) :
                  c \in Range(calls.freed) \/ \E t \in pool : c = SyncTransaction(t, NoBlock, FALSE)
             /\ \A c : c \in Range(calls'.late) <=>
                  c \in Range(calls.late) \/ \E t \in TxsOf(b) : c = SyncTransaction(t, b, TRUE)
    <2>1. \A t : MinedIn(t, b) = MinedIn(t, chain.tip) \cup {a \in {b} : t \in TxsOf(b)}
      BY <1>1, MinedStep
    <2>2. \A t : t \in TxsOf(b) => MinedIn(t, chain.tip) = {}
      BY <1>1, MinedStep, Zenon
    <2>3. \A t : MinedIn(t, chain.tip)' = MinedIn(t, b)
      BY <1>4, Zenon DEF MinedIn
    <2>4. ASSUME NEW c \in Range(calls'.late)
          PROVE  EntryOK(c)' /\ c.op = "sync" /\ c.inBlock
      <3>1. CASE c \in Range(calls.late)
        <4>1. c.op = "sync" /\ c.inBlock /\ EntryOK(c)
          BY <3>1, Zenon DEF QueueOK, Pending
        <4>2. c.pindex \in MinedBlocks /\ MinedIn(c.tx, chain.tip) = {c.pindex}
          BY <4>1, Zenon DEF EntryOK
        <4>3. MinedIn(c.tx, chain.tip)' = {c.pindex}
          BY <2>1, <2>2, <2>3, <4>2, Zenon
        <4> QED BY <4>1, <4>2, <4>3, Zenon DEF EntryOK, IsDisconnect
      <3>2. CASE \E t \in TxsOf(b) : c = SyncTransaction(t, b, TRUE)
        <4>1. PICK t \in TxsOf(b) : c = SyncTransaction(t, b, TRUE)
          BY <3>2, Zenon
        <4>2. c.op = "sync" /\ c.inBlock /\ c.pindex = b /\ c.tx = t
          BY <4>1, Zenon DEF SyncTransaction
        <4>3. MinedIn(c.tx, chain.tip)' = {b}
          BY <2>1, <2>2, <2>3, <4>2, Zenon
        <4> QED BY <1>1, <4>2, <4>3, Zenon DEF EntryOK, IsDisconnect
      <3> QED BY <1>4, <2>4, <3>1, <3>2, Zenon
    <2>5. ASSUME NEW c \in Range(calls'.freed)
          PROVE  EntryOK(c)' /\ c.op = "sync" /\ c.pindex = NoBlock /\ ~c.inBlock
      <3>1. /\ c.op = "sync" /\ c.pindex = NoBlock /\ ~c.inBlock
            /\ MinedIn(c.tx, chain.tip) = {} \/ ReportedLate(c.tx)
        <4>1. CASE c \in Range(calls.freed)
          BY <4>1, Zenon DEF QueueOK, Pending, EntryOK
        <4>2. CASE \E t \in pool : c = SyncTransaction(t, NoBlock, FALSE)
          BY <4>2 DEF SyncTransaction, PoolOK
        <4> QED BY <1>4, <2>5, <4>1, <4>2, Zenon
      <3>2. c.tx \in TxsOf(b) => ReportedLate(c.tx)'
        <4>1. SyncTransaction(c.tx, b, TRUE).tx = c.tx
          BY Zenon DEF SyncTransaction
        <4>2. c.tx \in TxsOf(b) => SyncTransaction(c.tx, b, TRUE) \in Range(calls'.late)
          BY <1>4, Zenon
        <4> QED BY <4>1, <4>2, Zenon DEF ReportedLate
      <3>3. ReportedLate(c.tx) => ReportedLate(c.tx)'
        BY <1>4, Zenon DEF ReportedLate
      <3>4. MinedIn(c.tx, chain.tip)' = {} \/ ReportedLate(c.tx)'
        BY <2>1, <2>3, <3>1, <3>2, <3>3, Zenon
      <3> QED BY <3>1, <3>4, Zenon DEF EntryOK, IsDisconnect
    <2>6. QueueOK'
      BY <1>1, <1>2, <2>4, <2>5, Zenon DEF QueueOK, Pending, Reports
    <2>7. PoolOK'
      BY <1>4, <2>1, <2>3, Zenon DEF PoolOK
    <2> QED BY <2>6, <2>7, Zenon
  <1> QED BY <1>3, <1>4, ConnectCalls, Zenon

LEMMA QueueStep ==
  ASSUME TypeOK, QueueOK, PoolOK, [Next]_vars
  PROVE  QueueOK' /\ PoolOK'
  <1>1. calls \in Calls
    BY Zenon DEF TypeOK
  <1>2. ASSUME NEW n, Running(n)
        PROVE  Current \in Entry /\ Current.op = n /\ EntryOK(Current) /\ Current \in Pending
    BY <1>1, <1>2, CurrentPending, Zenon DEF QueueOK
  <1>3. CASE Section
    <2>1. CASE Insert
      <3>1. Running("insert") /\ Then(<<SyncTransaction(Current.tx, NoBlock, FALSE)>>)
            /\ chain' = chain /\ pool' = pool \cup {Current.tx}
        BY <2>1, Zenon DEF Insert
      <3>2. Current.pindex = NoBlock /\ Current.inBlock = FALSE /\ MinedIn(Current.tx, chain.tip) = {}
            /\ Current.tx \in Txs
        BY <1>2, <3>1, Zenon DEF EntryOK, Entry
      <3> DEFINE d == SyncTransaction(Current.tx, NoBlock, FALSE)
      <3>3. d \in Entry /\ d.tx = Current.tx /\ d.pindex = NoBlock /\ d.inBlock = FALSE /\ d.op = "sync"
        BY <3>2, Zenon DEF SyncTransaction, Entry, BlockOrNone
      <3> HIDE DEF d
      <3>4. QueueOK'
        <4>1. Then(<<d>>)
          BY <3>1, Zenon DEF d
        <4> QED BY <1>1, <3>1, <3>2, <3>3, <4>1, AdvanceQueue, Zenon
      <3>5. PoolOK'
        BY <3>1, <3>2, Zenon DEF PoolOK, MinedIn
      <3> QED BY <3>4, <3>5, Zenon
    <2>2. CASE Resurrect
      <3>1. Running("resurrect") /\ pool' \subseteq pool /\ chain' = chain
            /\ (Then(<<Op("insert", Current.tx)>>) \/ Then(<<>>))
        BY <2>2, Zenon DEF Resurrect, WithDescendants
      <3>2. Current.pindex = NoBlock /\ Current.inBlock = FALSE /\ Current.tx \in Txs /\ Current.op = "resurrect"
        BY <1>2, <3>1, Zenon DEF EntryOK, Entry
      <3> DEFINE d == Op("insert", Current.tx)
      <3>3. d \in Entry /\ d.tx = Current.tx /\ d.pindex = NoBlock /\ d.inBlock = FALSE /\ d.op = "insert"
        BY <3>2, Zenon DEF Op, Entry, BlockOrNone
      <3> HIDE DEF d
      <3>4. QueueOK'
        <4>1. Then(<<d>>) \/ Then(<<>>)
          BY <3>1, Zenon DEF d
        <4> QED BY <1>1, <3>1, <3>2, <3>3, <4>1, AdvanceQueue, DropQueue, Zenon
      <3>5. PoolOK'
        BY <3>1, Zenon DEF PoolOK, MinedIn
      <3> QED BY <3>4, <3>5, Zenon
    <2>3. CASE DisconnectTip
      BY <2>3, DisconnectQueue, Zenon
    <2>4. CASE \E b \in Blocks : ConnectTip(b)
      BY <2>4, ConnectQueue, Zenon
    <2>5. CASE SyncTransactionRead \/ SyncTransactionProcess \/ SyncTransactionAdd \/ SyncTransactionRemove
      <3>1. /\ chain' = chain /\ pool' = pool
            /\ \E n \in {"sync", "process", "add", "remove"} : Running(n)
            /\ Then(<<>>) \/ \E o \in {"process", "remove", "add"} : Then(<<[Current EXCEPT !.op = o]>>)
        BY <2>5, Zenon
           DEF SyncTransactionRead, SyncTransactionProcess, SyncTransactionAdd, SyncTransactionRemove
      <3>2. PICK n \in {"sync", "process", "add", "remove"} : Running(n)
        BY <3>1, Zenon
      <3>3. ASSUME NEW o \in {"process", "remove", "add"}, Then(<<[Current EXCEPT !.op = o]>>)
            PROVE  QueueOK'
        <4> DEFINE d == [Current EXCEPT !.op = o]
        <4>1. /\ d \in Entry /\ d.tx = Current.tx /\ d.pindex = Current.pindex /\ d.inBlock = Current.inBlock
              /\ d.op = o
          BY <1>2, <3>2, Zenon DEF Entry
        <4>2. Then(<<d>>)
          BY <3>3, Zenon
        <4> HIDE DEF d
        <4> QED BY <1>1, <3>1, <3>2, <4>1, <4>2, AdvanceQueue, Zenon
      <3>4. QueueOK'
        BY <1>1, <3>1, <3>2, <3>3, DropQueue, Zenon
      <3> QED BY <3>1, <3>4, Zenon DEF PoolOK, MinedIn
    <2> QED BY <1>3, <2>1, <2>2, <2>3, <2>4, <2>5, Zenon DEF Section
  <1>4. ASSUME NEW t \in Txs, AcceptToMemoryPool(t) PROVE QueueOK' /\ PoolOK'
    <2> DEFINE d == Op("insert", t)
    <2>1. calls' = [NoCalls EXCEPT !.now = <<d>>] /\ chain' = chain /\ pool' = pool
      BY <1>4, Zenon DEF AcceptToMemoryPool
    <2>2. d.op = "insert" /\ d.tx = t /\ d.pindex = NoBlock /\ d.inBlock = FALSE
      BY Zenon DEF Op
    <2>3. MinedIn(t, chain.tip) = {}
      BY <1>4, Zenon DEF AcceptToMemoryPool, Acceptable, ChainTxs, MinedIn
    <2> HIDE DEF d
    <2>4. calls'.now = <<d>> /\ calls'.freed = <<>> /\ calls'.late = <<>> /\ calls'.base = NoBlock
      BY <2>1, Zenon DEF NoCalls
    <2>5. Range(<<d>>) = {d} /\ Range(<<>>) = {}
      BY Short, Zenon
    <2>8. Tail(<<d>>) = <<>>
      OBVIOUS
    <2>6. EntryOK(d)'
      BY <2>1, <2>2, <2>3, Zenon DEF EntryOK, MinedIn, IsDisconnect
    <2>7. QueueOK'
      BY <2>2, <2>4, <2>5, <2>6, <2>8, Zenon DEF QueueOK, Pending, Reports, IsDisconnect
    <2> QED BY <2>1, <2>7, Zenon DEF PoolOK, MinedIn
  <1>5. ASSUME NEW b \in Blocks, Restart(b) PROVE QueueOK' /\ PoolOK'
    <2>1. calls'.now = <<>> /\ calls'.freed = <<>> /\ calls'.late = <<>> /\ pool' = {}
      BY <1>5, Zenon DEF Restart, NoCalls
    <2> QED BY <2>1, EmptyQueue, Zenon DEF PoolOK
  <1>6. CASE Begins
    <2>1. calls'.now = <<>> /\ calls'.freed = <<>> /\ calls'.late = <<>> /\ pool' = pool /\ chain'.tip = chain.tip
      BY <1>6, Zenon DEF Begins
    <2> QED BY <2>1, EmptyQueue, Zenon DEF PoolOK, MinedIn
  <1>7. CASE Quiet
    <2>1. calls' = calls /\ chain'.tip = chain.tip /\ pool' \subseteq pool
      BY <1>7, QuietFrame, Zenon
    <2>2. \A c : EntryOK(c)' = EntryOK(c)
      BY <2>1, Zenon DEF EntryOK, MinedIn, IsDisconnect, ReportedLate
    <2> QED BY <2>1, <2>2, Zenon DEF QueueOK, PoolOK, MinedIn, Pending, Reports
  <1> QED BY <1>3, <1>4, <1>5, <1>6, <1>7, StepKinds, Zenon

-----------------------------------------------------------------------------
(* The steps of a section, by the call c they take. *)

\* c goes on as d, or ends; the calls after it are those of blocks and transactions
\* whose turn has not come.
Waits(c) == c \in Pending /\ c.op \in {"resurrect", "sync"}
Moves(c, d) ==
  /\ d \in Pending' /\ d.tx = c.tx /\ d.pindex = c.pindex /\ d.inBlock = c.inBlock
  /\ \A x \in Pending' : x = d \/ Waits(x)
  /\ \A x \in Pending : x = c \/ x \in Pending'
Ends(c) ==
  /\ \A x \in Pending' : Waits(x)
  /\ \A x \in Pending : x = c \/ x \in Pending'

Inserts(c) ==
  /\ c.op = "insert"
  /\ \E d : Moves(c, d) /\ d.op = "sync"
  /\ pool' = pool \cup {c.tx}
  /\ UNCHANGED <<chain, db, track, votes, worker, ghost>>
Accepts(c) ==
  /\ c.op = "resurrect" /\ Acceptable(c.tx)
  /\ \E d : Moves(c, d) /\ d.op = "insert"
  /\ ghost' = [ghost EXCEPT !.overtaken = @ \ {c.tx}]
  /\ UNCHANGED <<chain, pool, db, track, votes, worker>>
Refuses(c) ==
  /\ c.op = "resurrect"
  /\ Ends(c)
  /\ pool' \subseteq pool
  /\ UNCHANGED <<chain, db, track, votes, worker, ghost>>
Forgets(c) ==
  /\ c.op = "sync" /\ Ends(c)
  /\ track' = RemoveNonLockedTx(track, c.tx, FALSE)
  /\ ghost' = [ghost EXCEPT !.stale = @ \cup ({c.tx} \cap db.islocks)]
  /\ UNCHANGED <<chain, pool, db, votes, worker>>
Reads(c) ==
  /\ c.op = "sync"
  /\ \E d : Moves(c, d) /\ d.op \in {"process", "remove"} /\ (d.op = "process" => c.tx \notin db.islocks)
  /\ db' = IF c.tx \notin db.islocks \/ c.pindex = NoBlock THEN db
           ELSE IF c.inBlock THEN [db EXCEPT !.mined = @ \cup {MinedRecord(c)}]
           ELSE [db EXCEPT !.mined = @ \ {MinedRecord(c)}]
  /\ UNCHANGED <<chain, pool, track, votes, worker, ghost>>
Processes(c) ==
  /\ c.op = "process"
  /\ \E d : Moves(c, d) /\ d.op = "add"
  /\ votes' = ProcessTx(c.tx)
  /\ UNCHANGED <<chain, pool, db, track, worker, ghost>>
Adds(c) ==
  /\ c.op = "add" /\ Ends(c)
  /\ track' = AddNonLockedTx(track, c.tx, IF IsDisconnect(c) THEN NoBlock ELSE c.pindex)
  /\ UNCHANGED <<chain, pool, db, votes, worker, ghost>>
Removes(c) ==
  /\ c.op = "remove" /\ Ends(c)
  /\ track' = RemoveNonLockedTx(track, c.tx, TRUE)
  /\ UNCHANGED <<chain, pool, db, votes, worker, ghost>>

\* Only the current call is past its first part.
LEMMA BehindWaits ==
  ASSUME calls \in Calls, QueueOK, NEW n, Running(n)
  PROVE  \A c \in Behind : Waits(c)
  <1>1. \A c \in Behind : c \in Pending
    BY CurrentPending, Zenon
  <1>2. calls.freed \in Seq(Entry) /\ calls.late \in Seq(Entry)
    BY Zenon DEF Calls
  <1>3. calls.now # <<>> \/ calls.freed # <<>> \/ calls.late # <<>>
    BY Zenon DEF Running
  <1>4. CASE calls.now # <<>>
    BY <1>1, <1>4, Zenon DEF Behind, Reports, QueueOK, Waits
  <1>5. CASE calls.now = <<>> /\ calls.freed # <<>>
    <2>1. \A c \in Behind : c \in Range(calls.freed) \/ c \in Range(calls.late)
      BY <1>2, <1>5, HeadAndTail, Zenon DEF Behind
    <2> QED BY <1>1, <2>1, Zenon DEF QueueOK, Waits
  <1>6. CASE calls.now = <<>> /\ calls.freed = <<>> /\ calls.late # <<>>
    <2>1. \A c \in Behind : c \in Range(calls.late)
      BY <1>2, <1>6, HeadAndTail, Zenon DEF Behind
    <2> QED BY <1>1, <2>1, Zenon DEF QueueOK, Waits
  <1> QED BY <1>3, <1>4, <1>5, <1>6, Zenon

LEMMA Goes ==
  ASSUME calls \in Calls, QueueOK, NEW n, Running(n), NEW c, c = Current, NEW d \in Entry, Then(<<d>>),
         d.tx = c.tx, d.pindex = c.pindex, d.inBlock = c.inBlock
  PROVE  Moves(c, d)
  <1>1. \A x : x \in Pending <=> x = c \/ x \in Behind
    BY CurrentPending, Zenon
  <1>2. \A x : x \in Pending' <=> x = d \/ x \in Behind
    BY AdvancePending, Zenon
  <1>3. \A x \in Behind : Waits(x)
    BY BehindWaits, Zenon
  <1> QED BY <1>1, <1>2, <1>3, Zenon DEF Moves

LEMMA Stops ==
  ASSUME calls \in Calls, QueueOK, NEW n, Running(n), NEW c, c = Current, Then(<<>>)
  PROVE  Ends(c)
  <1>1. \A x : x \in Pending <=> x = c \/ x \in Behind
    BY CurrentPending, Zenon
  <1>2. \A x : x \in Pending' <=> x \in Behind
    BY DropPending, Zenon
  <1>3. \A x \in Behind : Waits(x)
    BY BehindWaits, Zenon
  <1> QED BY <1>1, <1>2, <1>3, Zenon DEF Ends

LEMMA SectionForms ==
  ASSUME TypeOK, QueueOK, Section
  PROVE  \/ \E c \in Pending : /\ c \in Entry /\ EntryOK(c)
                               /\ \/ Inserts(c) \/ Accepts(c) \/ Refuses(c) \/ Forgets(c)
                                  \/ Reads(c) \/ Processes(c) \/ Adds(c) \/ Removes(c)
         \/ DisconnectTip
         \/ \E b \in Blocks : ConnectTip(b)
  <1>1. calls \in Calls
    BY Zenon DEF TypeOK
  <1>2. ASSUME NEW n, Running(n)
        PROVE  \E c \in Pending : c = Current /\ c \in Entry /\ EntryOK(c) /\ c.op = n
    BY <1>1, <1>2, CurrentPending, Zenon DEF QueueOK
  <1>3. CASE Insert
    <2>1. Running("insert") /\ Then(<<SyncTransaction(Current.tx, NoBlock, FALSE)>>)
      BY <1>3, Zenon DEF Insert
    <2>2. PICK c \in Pending : c = Current /\ c \in Entry /\ EntryOK(c) /\ c.op = "insert"
      BY <1>2, <2>1, Zenon
    <2> DEFINE d == SyncTransaction(c.tx, NoBlock, FALSE)
    <2>3. d \in Entry /\ d.tx = c.tx /\ d.pindex = c.pindex /\ d.inBlock = c.inBlock /\ d.op = "sync"
      <3>1. c.tx \in Txs /\ c.pindex = NoBlock /\ c.inBlock = FALSE
        BY <2>2, Zenon DEF EntryOK, Entry
      <3> QED BY <3>1, Zenon DEF SyncTransaction, Entry, BlockOrNone
    <2>4. Then(<<d>>)
      BY <2>1, <2>2, Zenon
    <2> HIDE DEF d
    <2>5. Moves(c, d)
      BY <1>1, <2>1, <2>2, <2>3, <2>4, Goes, Zenon
    <2>6. Inserts(c)
      BY <1>3, <2>2, <2>3, <2>5, Zenon DEF Insert, Inserts
    <2> QED BY <2>2, <2>6, Zenon
  <1>4. CASE Resurrect
    <2>1. Running("resurrect") /\ UNCHANGED <<chain, db, track, votes, worker>>
      BY <1>4, Zenon DEF Resurrect
    <2>2. PICK c \in Pending : c = Current /\ c \in Entry /\ EntryOK(c) /\ c.op = "resurrect"
      BY <1>2, <2>1, Zenon
    <2>3. CASE /\ Acceptable(c.tx) /\ Then(<<Op("insert", c.tx)>>)
               /\ ghost' = [ghost EXCEPT !.overtaken = @ \ {c.tx}] /\ pool' = pool
      <3> DEFINE d == Op("insert", c.tx)
      <3>1. d \in Entry /\ d.tx = c.tx /\ d.pindex = c.pindex /\ d.inBlock = c.inBlock /\ d.op = "insert"
        <4>1. c.tx \in Txs /\ c.pindex = NoBlock /\ c.inBlock = FALSE
          BY <2>2, Zenon DEF EntryOK, Entry
        <4> QED BY <4>1, Zenon DEF Op, Entry, BlockOrNone
      <3>2. Then(<<d>>)
        BY <2>3, Zenon
      <3> HIDE DEF d
      <3>3. Moves(c, d)
        BY <1>1, <2>1, <2>2, <3>1, <3>2, Goes, Zenon
      <3>4. Accepts(c)
        BY <2>1, <2>2, <2>3, <3>1, <3>3, Zenon DEF Accepts
      <3> QED BY <2>2, <3>4, Zenon
    <2>4. CASE pool' = pool \ WithDescendants({c.tx}) /\ Then(<<>>) /\ ghost' = ghost
      <3>1. Ends(c)
        BY <1>1, <2>1, <2>2, <2>4, Stops, Zenon
      <3>2. Refuses(c)
        BY <2>1, <2>2, <2>4, <3>1, Zenon DEF Refuses
      <3> QED BY <2>2, <3>2, Zenon
    <2> QED BY <1>4, <2>2, <2>3, <2>4, Zenon DEF Resurrect
  <1>5. CASE SyncTransactionRead
    <2>1. Running("sync") /\ UNCHANGED <<chain, pool, votes, worker>>
      BY <1>5, Zenon DEF SyncTransactionRead
    <2>2. PICK c \in Pending : c = Current /\ c \in Entry /\ EntryOK(c) /\ c.op = "sync"
      BY <1>2, <2>1, Zenon
    <2>3. CASE IsDisconnect(c) /\ c.tx \notin pool
      <3>1. /\ track' = RemoveNonLockedTx(track, c.tx, FALSE)
            /\ ghost' = [ghost EXCEPT !.stale = @ \cup ({c.tx} \cap db.islocks)]
            /\ Then(<<>>) /\ db' = db
        BY <1>5, <2>2, <2>3, Zenon DEF SyncTransactionRead
      <3>2. Ends(c)
        BY <1>1, <2>1, <2>2, <3>1, Stops, Zenon
      <3>3. Forgets(c)
        BY <2>1, <2>2, <3>1, <3>2, Zenon DEF Forgets
      <3> QED BY <2>2, <3>3, Zenon
    <2>4. CASE ~(IsDisconnect(c) /\ c.tx \notin pool)
      <3>1. /\ db' = IF c.tx \notin db.islocks \/ c.pindex = NoBlock THEN db
                     ELSE IF c.inBlock THEN [db EXCEPT !.mined = @ \cup {MinedRecord(c)}]
                     ELSE [db EXCEPT !.mined = @ \ {MinedRecord(c)}]
            /\ track' = track /\ ghost' = ghost
        BY <1>5, <2>2, <2>4, Zenon DEF SyncTransactionRead, IsLocked
      <3>2. PICK o \in {"process", "remove"} : /\ Then(<<[c EXCEPT !.op = o]>>)
                                               /\ o = "process" => c.tx \notin db.islocks
        <4>1. Then(<<[c EXCEPT !.op = IF IsLocked(c.tx) \/ HasChainLock(c.pindex) THEN "remove" ELSE "process"]>>)
          BY <1>5, <2>2, <2>4, Zenon DEF SyncTransactionRead
        <4>2. CASE IsLocked(c.tx) \/ HasChainLock(c.pindex)
          BY <4>1, <4>2, Zenon
        <4>3. CASE ~(IsLocked(c.tx) \/ HasChainLock(c.pindex))
          BY <4>1, <4>3, Zenon DEF IsLocked
        <4> QED BY <4>2, <4>3, Zenon
      <3> DEFINE d == [c EXCEPT !.op = o]
      <3>3. d \in Entry /\ d.tx = c.tx /\ d.pindex = c.pindex /\ d.inBlock = c.inBlock /\ d.op = o
        BY <2>2, Zenon DEF Entry
      <3>4. Then(<<d>>)
        BY <3>2, Zenon
      <3> HIDE DEF d
      <3>5. Moves(c, d)
        BY <1>1, <2>1, <2>2, <3>3, <3>4, Goes, Zenon
      <3>6. Reads(c)
        BY <2>1, <2>2, <3>1, <3>2, <3>3, <3>5, Zenon DEF Reads
      <3> QED BY <2>2, <3>6, Zenon
    <2> QED BY <2>3, <2>4, Zenon
  <1>6. CASE SyncTransactionProcess
    <2>1. Running("process") /\ Then(<<[Current EXCEPT !.op = "add"]>>)
      BY <1>6, Zenon DEF SyncTransactionProcess
    <2>2. PICK c \in Pending : c = Current /\ c \in Entry /\ EntryOK(c) /\ c.op = "process"
      BY <1>2, <2>1, Zenon
    <2> DEFINE d == [c EXCEPT !.op = "add"]
    <2>3. d \in Entry /\ d.tx = c.tx /\ d.pindex = c.pindex /\ d.inBlock = c.inBlock /\ d.op = "add"
      BY <2>2, Zenon DEF Entry
    <2>4. Then(<<d>>)
      BY <2>1, <2>2, Zenon
    <2> HIDE DEF d
    <2>5. Moves(c, d)
      BY <1>1, <2>1, <2>2, <2>3, <2>4, Goes, Zenon
    <2>6. Processes(c)
      BY <1>6, <2>2, <2>3, <2>5, Zenon DEF SyncTransactionProcess, Processes
    <2> QED BY <2>2, <2>6, Zenon
  <1>7. CASE SyncTransactionAdd \/ SyncTransactionRemove
    <2>1. Then(<<>>) /\ \E n \in {"add", "remove"} : Running(n)
      BY <1>7, Zenon DEF SyncTransactionAdd, SyncTransactionRemove
    <2>2. PICK n \in {"add", "remove"} : Running(n)
      BY <2>1, Zenon
    <2>3. PICK c \in Pending : c = Current /\ c \in Entry /\ EntryOK(c) /\ c.op = n
      BY <1>2, <2>2, Zenon
    <2>4. Ends(c)
      BY <1>1, <2>1, <2>2, <2>3, Stops, Zenon
    <2>5. Adds(c) \/ Removes(c)
      BY <1>7, <2>3, <2>4, Zenon DEF SyncTransactionAdd, SyncTransactionRemove, Adds, Removes, Running
    <2> QED BY <2>3, <2>5, Zenon
  <1> QED BY <1>3, <1>4, <1>5, <1>6, <1>7, Zenon DEF Section

LEMMA MovesUnderWay ==
  ASSUME NEW c \in Pending, NEW d, Moves(c, d), d.op # "resurrect"
  PROVE  \A t : t \in UnderWay \/ t = c.tx => t \in UnderWay'
  BY Zenon DEF Moves, UnderWay

LEMMA EndsUnderWay ==
  ASSUME NEW c \in Pending, Ends(c)
  PROVE  \A t \in UnderWay : t \in UnderWay' \/ (t = c.tx /\ c.op # "resurrect")
  BY Zenon DEF Ends, UnderWay

\* Nothing is under way outside a section.
LEMMA NothingUnderWay == Pending = {} => UnderWay = {}
  BY Zenon DEF UnderWay

\* What a removal leaves of the entries.
LEMMA Removed ==
  ASSUME track \in Tracks, NEW txs, NEW retried, track' = RemoveNonLockedTxs(track, txs, retried)
  PROVE  /\ \A t \in Txs : track'.info[t].tx =>
              t \notin txs /\ track.info[t].tx /\ track'.info[t].mined = track.info[t].mined
         /\ track'.byInputs \subseteq track.byInputs
         /\ track'.retry = track.retry \cup retried
  <1>1. track'.info = [q \in Ids |->
                         IF q \in txs THEN NoInfo
                         ELSE [track.info[q] EXCEPT
                                 !.children = @ \ {t \in {u \in txs : track.info[u].tx} : q \in Parents(t)}]]
    BY Zenon DEF RemoveNonLockedTxs
  <1>2. ASSUME NEW t \in Txs, track'.info[t].tx
        PROVE  t \notin txs /\ track.info[t].tx /\ track'.info[t].mined = track.info[t].mined
    <2>1. t \in Ids /\ track.info[t] \in Info
      BY Zenon DEF Ids, Tracks
    <2>2. t \notin txs
      BY <1>1, <1>2, <2>1 DEF NoInfo
    <2>3. \E kids : track'.info[t] = [track.info[t] EXCEPT !.children = kids]
      BY <1>1, <2>1, <2>2, Zenon
    <2> QED BY <1>2, <2>1, <2>2, <2>3, Zenon DEF Info
  <1> QED BY <1>2, Zenon DEF RemoveNonLockedTxs

\* What an addition changes.
LEMMA Added ==
  ASSUME track \in Tracks, NEW u \in Txs, NEW b, track' = AddNonLockedTx(track, u, b)
  PROVE  /\ track'.info[u].tx /\ track'.info[u].mined = b
         /\ \A t \in Txs \ {u} : track'.info[t].tx = track.info[t].tx /\ track'.info[t].mined = track.info[t].mined
         /\ \A e \in track'.byInputs : e \in track.byInputs \/ (e[1] \in Inputs[u] /\ e[2] = u)
         /\ track'.retry = track.retry
  <1>1. \A t \in Txs : t \in Ids /\ track.info[t] \in Info
    BY Zenon DEF Ids, Tracks
  <1> QED BY <1>1, Zenon DEF AddNonLockedTx, Info

\* A disconnection ends a chain that had nothing left to report.
LEMMA Disconnected ==
  ASSUME TypeOK, QueueOK, DisconnectTip
  PROVE  /\ chain.tip \in MinedBlocks /\ chain'.tip = Parent[chain.tip]
         /\ Pending = {} /\ UnderWay = {}
         /\ \A c \in Pending' : c.op \in {"resurrect", "sync"} /\ ~c.inBlock
         /\ \A t \in TxsOf(chain.tip) : SyncTransaction(t, Parent[chain.tip], FALSE) \in Pending' /\ t \in UnderWay'
         /\ UNCHANGED <<pool, db, track, votes, worker, ghost>>
  <1> DEFINE b == chain.tip
  <1>1. /\ b \in MinedBlocks /\ Parent[b] \in Blocks /\ chain'.tip = Parent[b]
        /\ calls'.freed = calls.freed /\ calls'.late = calls.late
        /\ \A c : c \in Range(calls'.now) <=>
              \E t \in TxsOf(b) : c \in {Op("resurrect", t), SyncTransaction(t, Parent[b], FALSE)}
    BY DisconnectCalls, Zenon
  <1>2. Range(calls.freed) = {} /\ Range(calls.late) = {} /\ calls.now = <<>>
    BY Zenon DEF DisconnectTip, QueueOK, Reports
  <1>3. Pending = {}
    BY <1>2, Short, Zenon DEF Pending
  <1>4. \A c : c \in Pending' <=> c \in Range(calls'.now)
    BY <1>1, <1>2, Zenon DEF Pending
  <1>5. \A t : /\ Op("resurrect", t).op = "resurrect" /\ ~Op("resurrect", t).inBlock
               /\ SyncTransaction(t, Parent[b], FALSE).op = "sync" /\ ~SyncTransaction(t, Parent[b], FALSE).inBlock
               /\ SyncTransaction(t, Parent[b], FALSE).tx = t
    BY Zenon DEF Op, SyncTransaction
  <1>6. \A c \in Pending' : c.op \in {"resurrect", "sync"} /\ ~c.inBlock
    <2>1. TAKE c \in Pending'
    <2>2. PICK t \in TxsOf(b) : c = Op("resurrect", t) \/ c = SyncTransaction(t, Parent[b], FALSE)
      BY <1>1, <1>4, Zenon
    <2> QED BY <1>5, <2>2, Zenon
  <1>7. ASSUME NEW t \in TxsOf(b) PROVE SyncTransaction(t, Parent[b], FALSE) \in Pending' /\ t \in UnderWay'
    <2>1. SyncTransaction(t, Parent[b], FALSE) \in Pending'
      BY <1>1, <1>4, Zenon
    <2> QED BY <1>5, <2>1, Zenon DEF UnderWay
  <1>8. UNCHANGED <<pool, db, track, votes, worker, ghost>>
    BY Zenon DEF DisconnectTip
  <1> QED BY <1>1, <1>3, <1>6, <1>7, <1>8, NothingUnderWay, Zenon

\* A lock belongs to what is removed with it.
LEMMA Unchained ==
  ASSUME TypeOK, NEW txs, db' = RemoveChainedInstantSendLocks(txs)
  PROVE  /\ \A l \in txs : l \notin db'.islocks
         /\ db'.islocks \subseteq db.islocks
         /\ db'.mined = db.mined
  <1>1. \A l : l \in db.islocks => l \in Chained(l)
    BY Zenon DEF Chained
  <1>2. db'.islocks = db.islocks \ UNION {Chained(t) : t \in txs} /\ db'.mined = db.mined
    BY Zenon DEF RemoveChainedInstantSendLocks, TypeOK
  <1> QED BY <1>1, <1>2, Zenon

\* A connection reports the block after what is left to report.
Connects(b) ==
  /\ b \in MinedBlocks /\ Parent[b] = chain.tip
  /\ chain'.tip = b
  /\ pool' \subseteq pool /\ pool' \cap TxsOf(b) = {}
  /\ db' = RemoveChainedInstantSendLocks(UNION {ConflictingLocks(t) : t \in TxsOf(b)})
  /\ ghost'.overtaken = ghost.overtaken \ TxsOf(b) /\ ghost'.stale = ghost.stale \cap db'.islocks
  /\ \A c \in Pending : c \in Pending' /\ c.op = "sync" /\ (c.pindex = NoBlock \/ c.inBlock)
  /\ \A c \in Pending' :
       \/ c \in Pending
       \/ c.op = "sync" /\ c.pindex = NoBlock /\ ~c.inBlock
       \/ \E t \in TxsOf(b) : c = SyncTransaction(t, b, TRUE)
  /\ \A t \in TxsOf(b) : SyncTransaction(t, b, TRUE) \in Pending'
  /\ UNCHANGED <<track, votes, worker>>

LEMMA Connected ==
  ASSUME TypeOK, QueueOK, NEW b \in Blocks, ConnectTip(b)
  PROVE  \/ Pending' = Pending /\ chain'.tip = chain.tip /\ UNCHANGED <<pool, db, track, votes, worker, ghost>>
         \/ Connects(b)
  <1>1. /\ b \in MinedBlocks /\ Parent[b] = chain.tip
        /\ calls.now = <<>> /\ calls'.now = <<>> /\ Range(<<>>) = {}
    BY ConnectCalls, Short, Zenon
  <1>2. UNCHANGED <<track, votes, worker>>
    BY Zenon DEF ConnectTip
  <1>3. CASE /\ chain'.tip = chain.tip
             /\ calls'.freed = calls.freed /\ calls'.late = calls.late
             /\ pool' = pool /\ db' = db /\ ghost' = ghost
    BY <1>1, <1>2, <1>3, Zenon DEF Pending
  <1>4. CASE /\ chain'.tip = b
             /\ pool' \in SUBSET pool /\ pool' \cap TxsOf(b) = {}
             /\ db' = RemoveChainedInstantSendLocks(UNION {ConflictingLocks(t) : t \in TxsOf(b)})
             /\ ghost' = [ghost EXCEPT !.overtaken = @ \ TxsOf(b), !.stale = @ \cap db'.islocks]
             /\ \A c \in Range(calls.freed) : c \in Range(calls'.freed)
             /\ \A c \in Range(calls'.freed) :
                  c \in Range(calls.freed) \/ \E t \in pool : c = SyncTransaction(t, NoBlock, FALSE)
             /\ \A c : c \in Range(calls'.late) <=>
                  c \in Range(calls.late) \/ \E t \in TxsOf(b) : c = SyncTransaction(t, b, TRUE)
    <2>1. ghost'.overtaken = ghost.overtaken \ TxsOf(b) /\ ghost'.stale = ghost.stale \cap db'.islocks
      BY <1>4, Zenon DEF TypeOK
    <2>2. \A c : (c \in Pending <=> c \in Range(calls.freed) \/ c \in Range(calls.late))
              /\ (c \in Pending' <=> c \in Range(calls'.freed) \/ c \in Range(calls'.late))
      BY <1>1, Zenon DEF Pending
    <2>3. \A c \in Pending : c \in Pending' /\ c.op = "sync" /\ (c.pindex = NoBlock \/ c.inBlock)
      BY <1>4, <2>2, Zenon DEF QueueOK
    <2>4. \A t : SyncTransaction(t, NoBlock, FALSE).op = "sync" /\ SyncTransaction(t, NoBlock, FALSE).pindex = NoBlock
                 /\ ~SyncTransaction(t, NoBlock, FALSE).inBlock
      BY Zenon DEF SyncTransaction
    <2>5. \A c \in Pending' : \/ c \in Pending
                              \/ c.op = "sync" /\ c.pindex = NoBlock /\ ~c.inBlock
                              \/ \E t \in TxsOf(b) : c = SyncTransaction(t, b, TRUE)
      <3>1. TAKE c \in Pending'
      <3>2. CASE c \in Range(calls'.freed)
        <4>1. c \in Range(calls.freed) \/ \E t \in pool : c = SyncTransaction(t, NoBlock, FALSE)
          BY <1>4, <3>2, Zenon
        <4>2. CASE \E t \in pool : c = SyncTransaction(t, NoBlock, FALSE)
          BY <2>4, <4>2, Zenon
        <4> QED BY <2>2, <4>1, <4>2, Zenon
      <3>3. CASE c \in Range(calls'.late)
        BY <1>4, <2>2, <3>3, Zenon
      <3> QED BY <2>2, <3>2, <3>3, Zenon
    <2>6. \A t \in TxsOf(b) : SyncTransaction(t, b, TRUE) \in Pending'
      BY <1>4, <2>2, Zenon
    <2> QED BY <1>1, <1>2, <1>4, <2>1, <2>3, <2>5, <2>6, Zenon DEF Connects
  <1> QED BY <1>3, <1>4, ConnectCalls, Zenon

LEMMA ConnectsUnderWay ==
  ASSUME NEW b, Connects(b)
  PROVE  \A t : t \in UnderWay \/ t \in TxsOf(b) => t \in UnderWay'
  <1>1. ASSUME NEW t \in UnderWay PROVE t \in UnderWay'
    BY Zenon DEF Connects, UnderWay
  <1>2. ASSUME NEW t \in TxsOf(b) PROVE t \in UnderWay'
    <2>1. SyncTransaction(t, b, TRUE) \in Pending'
      BY Zenon DEF Connects
    <2>2. SyncTransaction(t, b, TRUE).op = "sync" /\ SyncTransaction(t, b, TRUE).tx = t
      BY Zenon DEF SyncTransaction
    <2> QED BY <2>1, <2>2, Zenon DEF UnderWay
  <1> QED BY <1>1, <1>2, Zenon

\* The quiet steps, by what they do to islocks and to what is tracked.
Stores ==
  LET t == worker.lock
  IN  /\ At("store") /\ t \in Islocks /\ t \notin db.islocks
      /\ db'.islocks = db.islocks \cup {t}
      /\ \A u \in UnderWay : u = t \/ Conflict(u, t) \/ t \in Parents(u) => u \in ghost'.overtaken
      /\ \A u \in pool : t \in Parents(u) => u \in ghost'.overtaken \/ u \in track'.retry
      /\ ghost.overtaken \subseteq ghost'.overtaken
      /\ track' = RemoveNonLockedTx(track, t, TRUE)
      /\ worker' = [worker EXCEPT !.pc = "mempool", !.mined = NoBlock]
      /\ UNCHANGED <<pool, votes>>

LEMMA StoreForms ==
  ASSUME TypeOK, Store
  PROVE  \/ Stores
         \/ At("store") /\ worker' = Done /\ UNCHANGED <<chain, pool, db, track, votes, calls, ghost>>
  <1> DEFINE t == worker.lock
  <1>1. CASE t \in db.islocks
    BY <1>1, Zenon DEF Store
  <1>2. CASE t \notin db.islocks
    <2> DEFINE near == {u \in UnderWay : u = t \/ Conflict(u, t) \/ t \in Parents(u)}
               lost == {u \in pool : t \in Parents(u)} \ track.info[t].children
    <2>1. At("store") /\ t \in Islocks /\ UNCHANGED <<pool, votes>>
          /\ track' = RemoveNonLockedTx(track, t, TRUE)
          /\ worker' = [worker EXCEPT !.pc = "mempool", !.mined = NoBlock]
      BY <1>2, Zenon DEF Store, TypeOK, WorkerType, At
    <2>2. db'.islocks = db.islocks \cup {t}
      BY <1>2, Zenon DEF Store, TypeOK
    <2>3. ghost'.overtaken = ghost.overtaken \cup near \cup lost
      BY <1>2, Zenon DEF Store, TypeOK
    <2>4. track'.retry = track.retry \cup track.info[t].children
      BY <2>1, Zenon DEF RemoveNonLockedTx, RemoveNonLockedTxs
    <2>5. \A u \in pool : t \in Parents(u) => u \in ghost'.overtaken \/ u \in track'.retry
      BY <2>3, <2>4, Zenon
    <2>6. \A u \in UnderWay : u = t \/ Conflict(u, t) \/ t \in Parents(u) => u \in ghost'.overtaken
      BY <2>3, Zenon
    <2>7. ghost.overtaken \subseteq ghost'.overtaken
      BY <2>3, Zenon
    <2> QED BY <1>2, <2>1, <2>2, <2>5, <2>6, <2>7, Zenon DEF Stores
  <1> QED BY <1>1, <1>2, Zenon

-----------------------------------------------------------------------------
(* Calls past their checks. *)

LEMMA AcceptPending ==
  ASSUME NEW t \in Txs, AcceptToMemoryPool(t)
  PROVE  /\ Pending = {} /\ UnderWay = {}
         /\ \A c : c \in Pending' <=> c = Op("insert", t)
         /\ t \in UnderWay'
         /\ ConflictingLocks(t) = {} /\ t \notin ChainTxs(chain.tip)
         /\ ghost' = [ghost EXCEPT !.overtaken = @ \ {t}]
         /\ UNCHANGED <<chain, pool, db, track, votes, worker>>
  <1>1. Pending = {} /\ UnderWay = {}
    BY NothingPending, NothingUnderWay, Zenon DEF AcceptToMemoryPool
  <1>2. calls'.now = <<Op("insert", t)>> /\ calls'.freed = <<>> /\ calls'.late = <<>>
    BY Zenon DEF AcceptToMemoryPool, NoCalls
  <1>3. Range(<<Op("insert", t)>>) = {Op("insert", t)} /\ Range(<<>>) = {}
    <2>1. Op("insert", t) \in {Op("insert", t)}
      OBVIOUS
    <2> QED BY <2>1, Short, Zenon
  <1>4. \A c : c \in Pending' <=> c = Op("insert", t)
    BY <1>2, <1>3, Zenon DEF Pending
  <1>5. t \in UnderWay'
    <2>1. Op("insert", t) \in Pending' /\ Op("insert", t).op # "resurrect" /\ Op("insert", t).tx = t
      BY <1>4, Zenon DEF Op
    <2> QED BY <2>1, Zenon DEF UnderWay
  <1> QED BY <1>1, <1>4, <1>5, Zenon DEF AcceptToMemoryPool, Acceptable

LEMMA FreshSection ==
  ASSUME Begins \/ \E b \in Blocks : Restart(b)
  PROVE  Pending' = {} /\ UnderWay' = {} /\ (Begins => Pending = {} /\ UnderWay = {})
  <1>1. CASE Begins
    BY <1>1, NothingPending, NothingUnderWay, Zenon DEF Begins, UnderWay
  <1>2. CASE \E b \in Blocks : Restart(b)
    <2>1. calls' = NoCalls
      BY <1>2, Zenon DEF Restart
    <2>2. calls'.now = <<>> /\ calls'.freed = <<>> /\ calls'.late = <<>>
      BY <2>1, Zenon DEF NoCalls
    <2>3. Pending' = {}
      BY <2>2, NothingPending, Zenon
    <2>4. Begins => Pending = {} /\ UnderWay = {}
      BY NothingPending, NothingUnderWay, Zenon DEF Begins
    <2> QED BY <2>3, <2>4, Zenon DEF UnderWay
  <1> QED BY <1>1, <1>2, Zenon

\* What the worker and the ChainLocks do to the locks and to what is tracked.
LEMMA QuietFacts ==
  ASSUME TypeOK, Quiet
  PROVE  /\ Pending' = Pending /\ UnderWay' = UnderWay
         /\ chain'.tip = chain.tip /\ pool' \subseteq pool
         /\ ghost.overtaken \subseteq ghost'.overtaken
         /\ Stores \/ db'.islocks \subseteq db.islocks
         /\ \A t \in Txs : track'.info[t].tx => track.info[t].tx /\ track'.info[t].mined = track.info[t].mined
         /\ track'.byInputs \subseteq track.byInputs
  <1>0. track \in Tracks /\ GhostType
    BY Zenon DEF TypeOK, GhostType
  <1>1. /\ Pending' = Pending /\ UnderWay' = UnderWay
        /\ chain'.tip = chain.tip /\ pool' \subseteq pool
    BY QuietFrame, Zenon DEF Pending, UnderWay
  <1> DEFINE LocksKept == ghost.overtaken \subseteq ghost'.overtaken /\ db'.islocks \subseteq db.islocks
             TrackKept == /\ \A t \in Txs : track'.info[t].tx =>
                               track.info[t].tx /\ track'.info[t].mined = track.info[t].mined
                          /\ track'.byInputs \subseteq track.byInputs
  <1>2. CASE Store
    <2>1. Stores \/ (db' = db /\ ghost' = ghost /\ track' = track)
      BY <1>2, StoreForms, Zenon
    <2>2. CASE Stores
      <3>1. TrackKept
        BY <1>0, <2>2, Removed, Zenon DEF Stores, RemoveNonLockedTx
      <3> QED BY <1>1, <2>2, <3>1, Zenon DEF Stores
    <2> QED BY <1>1, <2>1, <2>2, Zenon
  <1>3. CASE db' = db /\ ghost' = ghost /\ track' = track
    BY <1>1, <1>3, Zenon
  <1>4. CASE \/ ProcessPendingInstantSendLocks \/ RemoveMempoolConflictsForLock \/ CollectBlockConflicts
             \/ WaitForTipHeight \/ Invalidated \/ (\E t \in Txs : LookUp(t) \/ RetryTx(t))
             \/ (\E t \in Islocks : ProcessMessageInstantSendLock(t))
             \/ (\E b \in CLSigs : ProcessNewChainLock(b)) \/ DecideToNotify \/ UNCHANGED vars
    <2>1. db' = db /\ ghost' = ghost /\ track' = track
      BY <1>4, Zenon
         DEF ProcessPendingInstantSendLocks, RemoveMempoolConflictsForLock, CollectBlockConflicts,
        WaitForTipHeight, Invalidated, LookUp, RetryTx, ProcessMessageInstantSendLock, ProcessNewChainLock,
        DecideToNotify, vars
    <2> QED BY <1>3, <2>1, Zenon
  <1>5. CASE RemoveMempoolConflictsTracking \/ ResolveBlock
    <2>1. db' = db /\ ghost' = ghost /\ \E txs : track' = RemoveNonLockedTxs(track, txs, {})
      BY <1>5, Zenon DEF RemoveMempoolConflictsTracking, ResolveBlock, RemoveConflictedTxs
    <2>2. TrackKept
      BY <1>0, <2>1, Removed, Zenon
    <2> QED BY <1>1, <2>1, <2>2, Zenon
  <1>6. CASE ProcessPendingRetryLockTxs
    <2>1. db' = db /\ ghost' = ghost /\ track'.info = track.info /\ track'.byInputs = track.byInputs
      BY <1>0, <1>6, Zenon DEF ProcessPendingRetryLockTxs, Tracks
    <2> QED BY <1>1, <2>1, Zenon
  <1>7. CASE RemoveChainLockConflictingLock
    <2>1. db'.islocks \subseteq db.islocks
      BY <1>7, Unchained, Zenon DEF RemoveChainLockConflictingLock
    <2>2. ghost'.overtaken = ghost.overtaken /\ track' = track
      BY <1>0, <1>7, Zenon DEF RemoveChainLockConflictingLock, GhostType
    <2> QED BY <1>1, <2>1, <2>2, Zenon
  <1>8. CASE NotifyChainLock
    <2>1. db'.islocks \subseteq db.islocks /\ ghost.overtaken \subseteq ghost'.overtaken
      BY <1>8, Zenon DEF NotifyChainLock, HandleFullyConfirmedBlock, RemoveConfirmedInstantSendLocks
    <2>2. \E txs, retried : track' = RemoveNonLockedTxs(track, txs, retried)
      BY <1>8, Zenon DEF NotifyChainLock, HandleFullyConfirmedBlock
    <2>3. TrackKept
      BY <1>0, <2>2, Removed, Zenon
    <2> QED BY <1>1, <2>1, <2>3, Zenon
  <1> QED BY <1>2, <1>4, <1>5, <1>6, <1>7, <1>8, Zenon DEF Quiet

\* A transaction that is processed or tracked is not locked, one that enters the pool or
\* is reported with a block conflicts with no lock, unless the lock came in between.
ActiveInv ==
  \A c \in Pending :
    /\ c.op \in {"process", "add"} => c.tx \notin db.islocks \/ c.tx \in ghost.overtaken
    /\ c.op = "insert" \/ c.inBlock => ConflictingLocks(c.tx) = {} \/ c.tx \in ghost.overtaken

LEMMA ActiveSection ==
  ASSUME TypeOK, QueueOK, ActiveInv, NEW c \in Pending, c \in Entry,
         Inserts(c) \/ Accepts(c) \/ Refuses(c) \/ Forgets(c) \/ Reads(c) \/ Processes(c) \/ Adds(c) \/ Removes(c)
  PROVE  ActiveInv'
  <1>1. db'.islocks = db.islocks
    BY Zenon DEF Inserts, Accepts, Refuses, Forgets, Reads, Processes, Adds, Removes, TypeOK
  <1>2. ghost'.overtaken = ghost.overtaken \/ (Accepts(c) /\ ghost'.overtaken = ghost.overtaken \ {c.tx})
    BY Zenon DEF Inserts, Accepts, Refuses, Forgets, Reads, Processes, Adds, Removes, TypeOK
  <1>3. \A t : ConflictingLocks(t)' = ConflictingLocks(t)
    BY <1>1, Zenon DEF ConflictingLocks
  <1>4. Accepts(c) => ConflictingLocks(c.tx) = {}
    BY Zenon DEF Accepts, Acceptable
  <1>5. ASSUME NEW x \in Pending', Waits(x)
        PROVE  /\ x.op \in {"process", "add"} => x.tx \notin db'.islocks \/ x.tx \in ghost'.overtaken
               /\ x.op = "insert" \/ x.inBlock => ConflictingLocks(x.tx)' = {} \/ x.tx \in ghost'.overtaken
    BY <1>2, <1>3, <1>4, <1>5, Zenon DEF Waits, ActiveInv
  <1>6. CASE Refuses(c) \/ Forgets(c) \/ Adds(c) \/ Removes(c)
    <2>1. Ends(c)
      BY <1>6, Zenon DEF Refuses, Forgets, Adds, Removes
    <2> QED BY <1>5, <2>1, Zenon DEF Ends, ActiveInv
  <1>7. CASE Inserts(c) \/ Accepts(c) \/ Reads(c) \/ Processes(c)
    <2>1. PICK d : /\ Moves(c, d)
                   /\ d.op \in {"process", "add"} =>
                        (Reads(c) /\ c.tx \notin db.islocks) \/ (Processes(c) /\ c.op = "process")
                   /\ d.op = "insert" => Accepts(c)
                   /\ Accepts(c) => c.op = "resurrect"
      BY <1>7, Zenon DEF Inserts, Accepts, Reads, Processes
    <2>2. d.tx = c.tx /\ d.inBlock = c.inBlock
      BY <2>1, Zenon DEF Moves
    <2>3. Accepts(c) => ~c.inBlock
      BY <2>1, Zenon DEF QueueOK, EntryOK
    <2>4. d.op \in {"process", "add"} => d.tx \notin db'.islocks \/ d.tx \in ghost'.overtaken
      <3>1. CASE Reads(c) /\ c.tx \notin db.islocks
        BY <1>1, <2>2, <3>1, Zenon
      <3>2. CASE Processes(c) /\ c.op = "process"
        BY <1>1, <2>2, <3>2, Zenon DEF ActiveInv, Processes
      <3> QED BY <2>1, <3>1, <3>2, Zenon
    <2>5. d.op = "insert" \/ d.inBlock => ConflictingLocks(d.tx)' = {} \/ d.tx \in ghost'.overtaken
      <3>1. CASE Accepts(c)
        BY <1>3, <1>4, <2>2, <3>1, Zenon
      <3>2. CASE ~Accepts(c) /\ d.inBlock
        BY <1>2, <1>3, <2>2, <3>2, Zenon DEF ActiveInv
      <3> QED BY <2>1, <3>1, <3>2, Zenon
    <2> QED BY <1>5, <2>1, <2>4, <2>5, Zenon DEF Moves, ActiveInv
  <1> QED BY <1>6, <1>7, Zenon

LEMMA ActiveStep ==
  ASSUME TypeOK, QueueOK, ActiveInv, [Next]_vars
  PROVE  ActiveInv'
  <1>1. CASE Section
    <2>1. CASE \E c \in Pending : /\ c \in Entry /\ EntryOK(c)
                                  /\ \/ Inserts(c) \/ Accepts(c) \/ Refuses(c) \/ Forgets(c)
                                     \/ Reads(c) \/ Processes(c) \/ Adds(c) \/ Removes(c)
      BY <2>1, ActiveSection, Zenon
    <2>2. CASE DisconnectTip
      <3>1. \A c \in Pending' : c.op \in {"resurrect", "sync"} /\ ~c.inBlock
        BY <2>2, Disconnected, Zenon
      <3> QED BY <3>1, Zenon DEF ActiveInv
    <2>3. ASSUME NEW b \in Blocks, ConnectTip(b) PROVE ActiveInv'
      <3>1. CASE Pending' = Pending /\ db' = db /\ ghost' = ghost
        <4>1. \A t : ConflictingLocks(t)' = ConflictingLocks(t)
          BY <3>1, Zenon DEF ConflictingLocks
        <4> QED BY <3>1, <4>1, Zenon DEF ActiveInv
      <3>2. CASE Connects(b)
        <4> DEFINE bad == UNION {ConflictingLocks(t) : t \in TxsOf(b)}
        <4>1. db'.islocks \subseteq db.islocks /\ \A l \in bad : l \notin db'.islocks
          BY <3>2, Unchained, Zenon DEF Connects
        <4>2. \A t : ConflictingLocks(t)' \subseteq ConflictingLocks(t)
          BY <4>1, Zenon DEF ConflictingLocks
        <4>3. \A t \in TxsOf(b) : ConflictingLocks(t)' = {}
          BY <4>1, <4>2, Zenon DEF ConflictingLocks
        <4>4. ASSUME NEW c \in Pending'
              PROVE  /\ c.op = "sync"
                     /\ c.inBlock => ConflictingLocks(c.tx)' = {} \/ c.tx \in ghost'.overtaken
          <5>1. CASE c \in Pending /\ c.inBlock
            <6>1. MinedIn(c.tx, chain.tip) = {c.pindex}
              BY <5>1, Zenon DEF QueueOK, EntryOK
            <6>2. c.tx \notin TxsOf(b)
              BY <3>2, <6>1, MinedStep, Zenon DEF Connects
            <6> QED BY <3>2, <4>2, <5>1, <6>2, Zenon DEF ActiveInv, Connects
          <5>2. CASE c \in Pending /\ ~c.inBlock
            BY <3>2, <5>2, Zenon DEF Connects
          <5>3. CASE c.op = "sync" /\ ~c.inBlock
            BY <5>3, Zenon
          <5>4. ASSUME NEW t \in TxsOf(b), c = SyncTransaction(t, b, TRUE)
                PROVE  c.op = "sync" /\ ConflictingLocks(c.tx)' = {}
            <6>1. c.op = "sync" /\ c.tx = t
              BY <5>4, Zenon DEF SyncTransaction
            <6> QED BY <4>3, <6>1, Zenon
          <5> QED BY <3>2, <5>1, <5>2, <5>3, <5>4, Zenon DEF Connects
        <4> QED BY <4>4, Zenon DEF ActiveInv
      <3> QED BY <2>3, <3>1, <3>2, Connected, Zenon
    <2> QED BY <1>1, <2>1, <2>2, <2>3, SectionForms, Zenon
  <1>2. ASSUME NEW t \in Txs, AcceptToMemoryPool(t) PROVE ActiveInv'
    <2>1. /\ \A c : c \in Pending' <=> c = Op("insert", t)
          /\ ConflictingLocks(t) = {} /\ db' = db
      BY <1>2, AcceptPending, Zenon
    <2>2. ConflictingLocks(t)' = {}
      BY <2>1, Zenon DEF ConflictingLocks
    <2>3. \A c \in Pending' : c.op = "insert" /\ c.tx = t
      BY <2>1 DEF Op
    <2> QED BY <2>2, <2>3, Zenon DEF ActiveInv
  <1>3. CASE Begins \/ \E b \in Blocks : Restart(b)
    <2>1. Pending' = {}
      BY <1>3, FreshSection, Zenon
    <2> QED BY <2>1, Zenon DEF ActiveInv
  <1>4. CASE Quiet
    <2>1. /\ Pending' = Pending /\ UnderWay' = UnderWay /\ ghost.overtaken \subseteq ghost'.overtaken
          /\ Stores \/ db'.islocks \subseteq db.islocks
      BY <1>4, QuietFacts, Zenon
    <2>2. CASE db'.islocks \subseteq db.islocks
      <3>1. \A t : ConflictingLocks(t)' \subseteq ConflictingLocks(t)
        BY <2>2, Zenon DEF ConflictingLocks
      <3> QED BY <2>1, <2>2, <3>1, Zenon DEF ActiveInv
    <2>3. CASE Stores
      <3> DEFINE t == worker.lock
      <3>1. db'.islocks = db.islocks \cup {t}
            /\ \A u \in UnderWay : u = t \/ Conflict(u, t) \/ t \in Parents(u) => u \in ghost'.overtaken
        BY <2>3, Zenon DEF Stores
      <3>2. ASSUME NEW c \in Pending
            PROVE  /\ c.op \in {"process", "add"} => c.tx \notin db'.islocks \/ c.tx \in ghost'.overtaken
                   /\ c.op = "insert" \/ c.inBlock => ConflictingLocks(c.tx)' = {} \/ c.tx \in ghost'.overtaken
        <4>1. c.op \in {"process", "add", "insert"} \/ c.inBlock => c.tx \in UnderWay
          BY Zenon DEF QueueOK, EntryOK, UnderWay
        <4>2. Conflict(t, c.tx) => Conflict(c.tx, t)
          BY Zenon DEF Conflict
        <4>3. \A l \in ConflictingLocks(c.tx)' : l \in ConflictingLocks(c.tx) \/ Conflict(c.tx, t)
          BY <3>1, <4>2, Zenon DEF ConflictingLocks
        <4> QED BY <2>1, <3>1, <4>1, <4>3, Zenon DEF ActiveInv
      <3> QED BY <2>1, <3>2, Zenon DEF ActiveInv
    <2> QED BY <2>1, <2>2, <2>3, Zenon
  <1> QED BY <1>1, <1>2, <1>3, <1>4, StepKinds, Zenon

-----------------------------------------------------------------------------
(* What is tracked is not locked, and in the block it is tracked with. *)

LEMMA TrackingSection ==
  ASSUME TypeOK, QueueOK, ActiveInv, TrackingExact, NEW c \in Pending, c \in Entry, EntryOK(c),
         Inserts(c) \/ Accepts(c) \/ Refuses(c) \/ Forgets(c) \/ Reads(c) \/ Processes(c) \/ Adds(c) \/ Removes(c)
  PROVE  TrackingExact'
  <1>1. db'.islocks = db.islocks /\ chain' = chain /\ track \in Tracks /\ c.tx \in Txs
    BY Zenon DEF Inserts, Accepts, Refuses, Forgets, Reads, Processes, Adds, Removes, TypeOK, Entry
  <1>2. \A t : t # c.tx \/ ~Accepts(c) => (t \in ghost.overtaken => t \in ghost'.overtaken)
    BY Zenon DEF Inserts, Accepts, Refuses, Forgets, Reads, Processes, Adds, Removes, TypeOK
  <1>3. ASSUME NEW t \in Txs \ UnderWay, track.info[t].tx, track'.info[t].mined = track.info[t].mined,
               t # c.tx \/ ~Accepts(c)
        PROVE  /\ ~IsLocked(t)' \/ t \in ghost'.overtaken
               /\ MinedIn(t, chain'.tip) = {track'.info[t].mined} \ {NoBlock}
    BY <1>1, <1>2, <1>3, Zenon DEF TrackingExact, IsLocked
  <1>4. CASE Inserts(c) \/ Accepts(c) \/ Reads(c) \/ Processes(c)
    <2>1. \E d : Moves(c, d) /\ d.op # "resurrect"
      BY <1>4, Zenon DEF Inserts, Accepts, Reads, Processes
    <2>2. \A t : t \in UnderWay \/ t = c.tx => t \in UnderWay'
      BY <2>1, MovesUnderWay, Zenon
    <2>3. track' = track
      BY <1>4, Zenon DEF Inserts, Accepts, Reads, Processes
    <2> QED BY <1>1, <1>3, <2>2, <2>3, Zenon DEF TrackingExact, MinedIn
  <1>5. CASE Refuses(c)
    <2>1. track' = track /\ Ends(c) /\ c.op = "resurrect"
      BY <1>5, Zenon DEF Refuses
    <2>2. ~Accepts(c)
      BY <2>1, Zenon DEF Accepts, Moves, Ends, Waits
    <2>3. \A t \in UnderWay : t \in UnderWay'
      BY <2>1, EndsUnderWay, Zenon
    <2> QED BY <1>1, <1>3, <2>1, <2>2, <2>3, Zenon DEF TrackingExact, MinedIn
  <1>6. CASE Forgets(c) \/ Removes(c)
    <2>1. ~Accepts(c) /\ Ends(c) /\ \E r : track' = RemoveNonLockedTxs(track, {c.tx}, r)
      BY <1>6, Zenon DEF Forgets, Removes, Accepts, RemoveNonLockedTx
    <2>2. \A t \in UnderWay : t \in UnderWay' \/ t = c.tx
      BY <2>1, EndsUnderWay, Zenon
    <2>3. \A t \in Txs : track'.info[t].tx =>
            t # c.tx /\ track.info[t].tx /\ track'.info[t].mined = track.info[t].mined
      <3>1. PICK r : track' = RemoveNonLockedTxs(track, {c.tx}, r)
        BY <2>1, Zenon
      <3>2. \A t \in Txs : track'.info[t].tx =>
              t \notin {c.tx} /\ track.info[t].tx /\ track'.info[t].mined = track.info[t].mined
        BY <1>1, <3>1, Removed, Zenon
      <3> QED BY <3>2, Zenon
    <2> QED BY <1>1, <1>3, <2>1, <2>2, <2>3, Zenon DEF TrackingExact, MinedIn
  <1>7. CASE Adds(c)
    <2>1. /\ ~Accepts(c) /\ Ends(c) /\ c.op = "add"
          /\ track' = AddNonLockedTx(track, c.tx, IF IsDisconnect(c) THEN NoBlock ELSE c.pindex)
      BY <1>7, Zenon DEF Adds, Accepts
    <2>2. \A t \in UnderWay : t \in UnderWay' \/ t = c.tx
      BY <2>1, EndsUnderWay, Zenon
    <2>3. /\ track'.info[c.tx].mined = IF IsDisconnect(c) THEN NoBlock ELSE c.pindex
          /\ \A t \in Txs \ {c.tx} : track'.info[t].tx = track.info[t].tx /\ track'.info[t].mined = track.info[t].mined
      BY <1>1, <2>1, Added
    <2>4. ASSUME c.tx \notin UnderWay'
          PROVE  /\ ~IsLocked(c.tx)' \/ c.tx \in ghost'.overtaken
                 /\ MinedIn(c.tx, chain'.tip) = {track'.info[c.tx].mined} \ {NoBlock}
      <3>1. ~IsLocked(c.tx)' \/ c.tx \in ghost'.overtaken
        BY <1>1, <1>2, <2>1, Zenon DEF ActiveInv, IsLocked
      <3>2. ~ReportedLate(c.tx)
        <4> SUFFICES ASSUME NEW l \in Range(calls.late), l.tx = c.tx PROVE FALSE
          BY Zenon DEF ReportedLate
        <4>1. l \in Pending /\ l.op = "sync"
          BY Zenon DEF Pending, QueueOK
        <4>2. l \in Pending'
          BY <2>1, <4>1, Zenon DEF Ends
        <4> QED BY <2>4, <4>1, <4>2, Zenon DEF UnderWay
      <3>3. MinedIn(c.tx, chain.tip) = {track'.info[c.tx].mined} \ {NoBlock}
        <4>1. CASE c.inBlock
          BY <2>3, <4>1, BlockTree DEF EntryOK, IsDisconnect, MinedBlocks
        <4>2. CASE ~c.inBlock
          BY <2>3, <3>2, <4>2, Zenon DEF EntryOK, IsDisconnect
        <4> QED BY <4>1, <4>2, Zenon
      <3> QED BY <1>1, <3>1, <3>3, Zenon
    <2> QED BY <1>1, <1>3, <2>1, <2>2, <2>3, <2>4 DEF TrackingExact, MinedIn
  <1> QED BY <1>4, <1>5, <1>6, <1>7, Zenon

LEMMA TrackingStep ==
  ASSUME TypeOK, QueueOK, ActiveInv, TrackingExact, [Next]_vars
  PROVE  TrackingExact'
  <1>1. CASE Section
    <2>1. CASE \E c \in Pending : /\ c \in Entry /\ EntryOK(c)
                                  /\ \/ Inserts(c) \/ Accepts(c) \/ Refuses(c) \/ Forgets(c)
                                     \/ Reads(c) \/ Processes(c) \/ Adds(c) \/ Removes(c)
      BY <2>1, TrackingSection, Zenon
    <2>2. CASE DisconnectTip
      <3>1. /\ chain.tip \in MinedBlocks /\ chain'.tip = Parent[chain.tip] /\ UnderWay = {}
            /\ \A t \in TxsOf(chain.tip) : t \in UnderWay'
            /\ UNCHANGED <<db, track, ghost>>
        BY <2>2, Disconnected, Zenon
      <3>2. \A t \in Txs \ UnderWay' : MinedIn(t, chain'.tip) = MinedIn(t, chain.tip)
        <4>1. TAKE t \in Txs \ UnderWay'
        <4>2. t \notin TxsOf(chain.tip)
          BY <3>1, Zenon
        <4>3. MinedIn(t, chain.tip) = MinedIn(t, Parent[chain.tip]) \cup {a \in {chain.tip} : t \in TxsOf(chain.tip)}
          BY <3>1, MinedStep, Zenon
        <4> QED BY <3>1, <4>2, <4>3, Zenon
      <3> QED BY <3>1, <3>2, Zenon DEF TrackingExact, IsLocked, MinedIn
    <2>3. ASSUME NEW b \in Blocks, ConnectTip(b) PROVE TrackingExact'
      <3>1. CASE Pending' = Pending /\ chain'.tip = chain.tip /\ db' = db /\ ghost' = ghost /\ track' = track
        BY <3>1, Zenon DEF TrackingExact, UnderWay, IsLocked, MinedIn
      <3>2. CASE Connects(b)
        <4>1. /\ b \in MinedBlocks /\ Parent[b] = chain.tip /\ chain'.tip = b /\ track' = track
              /\ ghost'.overtaken = ghost.overtaken \ TxsOf(b)
          BY <3>2, Zenon DEF Connects
        <4>2. \A t : t \in UnderWay \/ t \in TxsOf(b) => t \in UnderWay'
          BY <3>2, ConnectsUnderWay, Zenon
        <4>3. db'.islocks \subseteq db.islocks
          BY <3>2, Unchained, Zenon DEF Connects
        <4>4. \A t \in Txs \ UnderWay' : MinedIn(t, chain'.tip) = MinedIn(t, chain.tip)
          <5>1. TAKE t \in Txs \ UnderWay'
          <5>2. t \notin TxsOf(b)
            BY <4>2, Zenon
          <5>3. MinedIn(t, b) = MinedIn(t, Parent[b]) \cup {a \in {b} : t \in TxsOf(b)}
            BY <4>1, MinedStep
          <5> QED BY <4>1, <5>2, <5>3, Zenon
        <4> QED BY <4>1, <4>2, <4>3, <4>4, Zenon DEF TrackingExact, IsLocked, MinedIn
      <3> QED BY <2>3, <3>1, <3>2, Connected, Zenon
    <2> QED BY <1>1, <2>1, <2>2, <2>3, SectionForms, Zenon
  <1>2. ASSUME NEW u \in Txs, AcceptToMemoryPool(u) PROVE TrackingExact'
    <2>1. /\ UnderWay = {} /\ u \in UnderWay' /\ UNCHANGED <<chain, db, track>>
          /\ ghost' = [ghost EXCEPT !.overtaken = @ \ {u}]
      BY <1>2, AcceptPending, Zenon
    <2>2. ghost'.overtaken = ghost.overtaken \ {u}
      BY <2>1, Zenon DEF TypeOK
    <2> QED BY <2>1, <2>2, Zenon DEF TrackingExact, IsLocked, MinedIn
  <1>3. CASE Begins
    <2>1. UnderWay = {} /\ chain'.tip = chain.tip /\ UNCHANGED <<db, track, ghost>>
      BY <1>3, FreshSection, Zenon DEF Begins
    <2> QED BY <2>1, Zenon DEF TrackingExact, IsLocked, MinedIn
  <1>4. ASSUME NEW b \in Blocks, Restart(b) PROVE TrackingExact'
    <2>1. \A t \in Txs : ~track'.info[t].tx
      BY <1>4, Zenon DEF Restart, Untracked, NoInfo, Ids
    <2> QED BY <2>1, Zenon DEF TrackingExact
  <1>5. CASE Quiet
    <2>1. /\ UnderWay' = UnderWay /\ chain'.tip = chain.tip /\ ghost.overtaken \subseteq ghost'.overtaken
          /\ Stores \/ db'.islocks \subseteq db.islocks
          /\ \A t \in Txs : track'.info[t].tx => track.info[t].tx /\ track'.info[t].mined = track.info[t].mined
      BY <1>5, QuietFacts, Zenon
    <2>2. CASE db'.islocks \subseteq db.islocks
      BY <2>1, <2>2, Zenon DEF TrackingExact, IsLocked, MinedIn
    <2>3. CASE Stores
      <3>1. track \in Tracks /\ worker.lock \in Txs
        BY <2>3, InstantSendAssumption, Zenon DEF TypeOK, Stores
      <3>2. ~track'.info[worker.lock].tx
        <4>1. PICK r : track' = RemoveNonLockedTxs(track, {worker.lock}, r)
          BY <2>3, Zenon DEF Stores, RemoveNonLockedTx
        <4>2. \A t \in Txs : track'.info[t].tx => t \notin {worker.lock}
          BY <3>1, <4>1, Removed, Zenon
        <4> QED BY <3>1, <4>2, Zenon
      <3>3. \A t \in Txs : track'.info[t].tx => (IsLocked(t)' => IsLocked(t))
        BY <2>3, <3>2, Zenon DEF Stores, IsLocked
      <3> QED BY <2>1, <3>3, Zenon DEF TrackingExact, IsLocked, MinedIn
    <2> QED BY <2>1, <2>2, <2>3, Zenon
  <1> QED BY <1>1, <1>2, <1>3, <1>4, <1>5, StepKinds, Zenon

-----------------------------------------------------------------------------
(* The pool and the islocks. *)

\* What the worker has to retry it holds only while it retries.
RetryInv == worker.retry # {} => At("retry")

\* What the worker does to the votes and to what is to be retried.
Idles == /\ worker' = worker \/ (~At("mempool") /\ worker.retry = {} /\ worker'.retry = {})
         /\ votes' = votes /\ track.retry \subseteq track'.retry

LEMMA QuietWorker ==
  ASSUME TypeOK, RetryInv, Quiet
  PROVE  Idles \/ RemoveMempoolConflictsForLock \/ ProcessPendingRetryLockTxs \/ \E t \in Txs : RetryTx(t)
  <1>0. WorkerType /\ track \in Tracks
    BY Zenon DEF TypeOK
  <1>1. Done.retry = worker.retry
    BY <1>0, Zenon DEF Done, WorkerType
  <1>2. CASE \/ (\E t \in Islocks : ProcessMessageInstantSendLock(t))
             \/ (\E b \in CLSigs : ProcessNewChainLock(b)) \/ DecideToNotify \/ UNCHANGED vars
    BY <1>2, Zenon DEF ProcessMessageInstantSendLock, ProcessNewChainLock, DecideToNotify, vars, Idles
  <1>3. CASE NotifyChainLock
    <2>1. worker' = worker /\ votes' = votes /\ \E txs, r : track' = RemoveNonLockedTxs(track, txs, r)
      BY <1>3, Zenon DEF NotifyChainLock, HandleFullyConfirmedBlock
    <2>2. track.retry \subseteq track'.retry
      BY <2>1 DEF RemoveNonLockedTxs
    <2> QED BY <2>1, <2>2, Zenon DEF Idles
  <1>4. CASE ProcessPendingInstantSendLocks
    <2>1. At("idle") /\ worker'.retry = {} /\ UNCHANGED <<votes, track>>
      BY <1>4, Zenon DEF ProcessPendingInstantSendLocks, Resting
    <2> QED BY <2>1, Zenon DEF Idles, RetryInv, At
  <1>5. CASE Store
    <2>1. At("store") /\ worker'.retry = worker.retry /\ votes' = votes
      BY <1>0, <1>1, <1>5, Zenon DEF Store, WorkerType
    <2>2. track.retry \subseteq track'.retry
      BY <1>5 DEF Store, RemoveNonLockedTx, RemoveNonLockedTxs
    <2> QED BY <2>1, <2>2, Zenon DEF Idles, RetryInv, At
  <1>6. CASE RemoveMempoolConflictsTracking \/ ResolveBlock
    <2>1. ~At("mempool") /\ ~At("retry") /\ worker'.retry = worker.retry /\ votes' = votes
      BY <1>0, <1>6, Zenon DEF RemoveMempoolConflictsTracking, ResolveBlock, WorkerType, At
    <2>2. track.retry \subseteq track'.retry
      <3>1. \E txs : track' = RemoveNonLockedTxs(track, txs, {})
        BY <1>6, Zenon DEF RemoveMempoolConflictsTracking, ResolveBlock, RemoveConflictedTxs
      <3> QED BY <3>1 DEF RemoveNonLockedTxs
    <2> QED BY <2>1, <2>2, Zenon DEF Idles, RetryInv
  <1>7. CASE \/ CollectBlockConflicts \/ WaitForTipHeight \/ RemoveChainLockConflictingLock \/ Invalidated
             \/ \E t \in Txs : LookUp(t)
    <2>1. UNCHANGED <<votes, track>> /\ ~At("mempool") /\ ~At("retry")
      BY <1>7, Zenon
         DEF CollectBlockConflicts, WaitForTipHeight, RemoveChainLockConflictingLock, Invalidated, LookUp, At
    <2>2. CASE CollectBlockConflicts
      <3>1. worker' = Done \/ worker'.retry = worker.retry
        BY <1>0, <2>2, Zenon DEF CollectBlockConflicts, WorkerType
      <3> QED BY <1>1, <2>1, <3>1, Zenon DEF Idles, RetryInv
    <2>3. CASE WaitForTipHeight \/ RemoveChainLockConflictingLock \/ Invalidated \/ \E t \in Txs : LookUp(t)
      <3>1. worker' = Done \/ worker'.retry = worker.retry
        BY <1>0, <2>3, Zenon
           DEF WaitForTipHeight, RemoveChainLockConflictingLock, Invalidated, LookUp, WorkerType
      <3> QED BY <1>1, <2>1, <3>1, Zenon DEF Idles, RetryInv
    <2> QED BY <1>7, <2>2, <2>3, Zenon
  <1> QED BY <1>2, <1>3, <1>4, <1>5, <1>6, <1>7, Zenon DEF Quiet

LEMMA RetryStep ==
  ASSUME TypeOK, RetryInv, [Next]_vars
  PROVE  RetryInv'
  <1>0. WorkerType
    BY Zenon DEF TypeOK
  <1>1. CASE Quiet
    <2>1. CASE Idles
      BY <2>1, Zenon DEF Idles, RetryInv, At
    <2>2. CASE RemoveMempoolConflictsForLock
      <3>1. worker'.retry = worker.retry /\ At("mempool")
        BY <1>0, <2>2, Zenon DEF RemoveMempoolConflictsForLock, WorkerType
      <3> QED BY <3>1, Zenon DEF RetryInv, At
    <2>3. \A txs : Retrying(txs).retry # {} => Retrying(txs).pc = "retry"
      BY Zenon DEF Retrying, Resting
    <2>4. CASE ProcessPendingRetryLockTxs \/ \E t \in Txs : RetryTx(t)
      <3>1. \E txs : worker' = Retrying(txs)
        BY <2>4, Zenon DEF ProcessPendingRetryLockTxs, RetryTx
      <3> QED BY <2>3, <3>1, Zenon DEF RetryInv, At
    <2> QED BY <1>1, <2>1, <2>2, <2>4, QuietWorker, Zenon
  <1>2. CASE Section \/ \E t \in Txs : AcceptToMemoryPool(t)
    <2>1. worker' = worker
      BY <1>2, Zenon DEF Section, Insert, Resurrect, DisconnectTip, ConnectTip, SyncTransactionRead,
        SyncTransactionProcess, SyncTransactionAdd, SyncTransactionRemove, AcceptToMemoryPool
    <2> QED BY <2>1, Zenon DEF RetryInv, At
  <1>3. CASE Begins
    <2>1. CASE worker' = worker
      BY <2>1, Zenon DEF RetryInv, At
    <2>2. CASE InvalidateConflictingBlock /\ worker' = [worker EXCEPT !.pc = "activate"]
      <3>1. worker'.retry = worker.retry /\ At("invalidate")
        BY <1>0, <2>2, Zenon DEF InvalidateConflictingBlock, WorkerType
      <3> QED BY <3>1, Zenon DEF RetryInv, At
    <2> QED BY <1>3, <2>1, <2>2, Zenon DEF Begins
  <1>4. ASSUME NEW b \in Blocks, Restart(b) PROVE RetryInv'
    BY <1>4, Zenon DEF Restart, Resting, RetryInv
  <1> QED BY <1>1, <1>2, <1>3, <1>4, StepKinds, Zenon

\* What enters the pool conflicts with no lock, and what leaves it comes back through the
\* same checks.
LEMMA PoolStep ==
  ASSUME TypeOK, QueueOK, ActiveInv, RetryInv, PoolFollowsLocks, [Next]_vars
  PROVE  PoolFollowsLocks'
  <1>0. GhostType /\ WorkerType
    BY Zenon DEF TypeOK, GhostType
  <1>1. ASSUME worker' = worker, db'.islocks \subseteq db.islocks,
               \A t \in pool' : t \in ghost'.overtaken \/ ConflictingLocks(t) = {}
                                \/ (t \in pool /\ t \notin ghost.overtaken)
        PROVE  PoolFollowsLocks'
    <2>1. \A t : ConflictingLocks(t)' \subseteq ConflictingLocks(t)
      BY <1>1, Zenon DEF ConflictingLocks
    <2> QED BY <1>1, <2>1, Zenon DEF PoolFollowsLocks, At
  <1>2. CASE Section
    <2>1. ASSUME NEW c \in Pending, c \in Entry, Inserts(c) \/ Accepts(c)
          PROVE  PoolFollowsLocks'
      <3>1. CASE Inserts(c)
        <4>1. worker' = worker /\ db' = db /\ ghost' = ghost /\ pool' = pool \cup {c.tx} /\ c.op = "insert"
          BY <3>1, Zenon DEF Inserts
        <4>2. ConflictingLocks(c.tx) = {} \/ c.tx \in ghost.overtaken
          BY <4>1, Zenon DEF ActiveInv
        <4> QED BY <1>1, <4>1, <4>2, Zenon
      <3>2. CASE Accepts(c)
        <4>1. worker' = worker /\ db' = db /\ ghost'.overtaken = ghost.overtaken \ {c.tx} /\ pool' = pool
          BY <1>0, <3>2, Zenon DEF Accepts, GhostType
        <4>2. ConflictingLocks(c.tx) = {}
          BY <3>2, Zenon DEF Accepts, Acceptable
        <4> QED BY <1>1, <4>1, <4>2, Zenon
      <3> QED BY <2>1, <3>1, <3>2, Zenon
    <2>2. ASSUME NEW c \in Pending, Refuses(c) \/ Forgets(c) \/ Reads(c) \/ Processes(c) \/ Adds(c) \/ Removes(c)
          PROVE  PoolFollowsLocks'
      <3>1. worker' = worker /\ db'.islocks = db.islocks /\ ghost'.overtaken = ghost.overtaken /\ pool' \subseteq pool
        BY <1>0, <2>2, Zenon DEF Refuses, Forgets, Reads, Processes, Adds, Removes, GhostType, TypeOK
      <3> QED BY <1>1, <3>1, Zenon
    <2>3. CASE DisconnectTip
      BY <1>1, <2>3, Zenon DEF DisconnectTip
    <2>4. ASSUME NEW b \in Blocks, ConnectTip(b) PROVE PoolFollowsLocks'
      <3>1. CASE UNCHANGED <<pool, db, worker, ghost>>
        BY <1>1, <3>1, Zenon
      <3>2. CASE Connects(b)
        <4>1. db'.islocks \subseteq db.islocks
          BY <3>2, Unchained, Zenon DEF Connects
        <4> QED BY <1>1, <3>2, <4>1, Zenon DEF Connects
      <3> QED BY <2>4, <3>1, <3>2, Connected, Zenon
    <2> QED BY <1>2, <2>1, <2>2, <2>3, <2>4, SectionForms, Zenon
  <1>3. ASSUME NEW u \in Txs, AcceptToMemoryPool(u) PROVE PoolFollowsLocks'
    <2>1. ConflictingLocks(u) = {} /\ worker' = worker /\ db' = db /\ pool' = pool
          /\ ghost' = [ghost EXCEPT !.overtaken = @ \ {u}]
      BY <1>3, AcceptPending, Zenon
    <2>2. ghost'.overtaken = ghost.overtaken \ {u}
      BY <1>0, <2>1, Zenon DEF GhostType
    <2> QED BY <1>1, <2>1, <2>2, Zenon
  <1>4. CASE Begins
    <2>1. CASE worker' = worker
      BY <1>1, <1>4, <2>1, Zenon DEF Begins
    <2>2. CASE InvalidateConflictingBlock
      <3>1. \A t \in pool \ ghost.overtaken : ConflictingLocks(t) = {}
        BY <2>2, Zenon DEF InvalidateConflictingBlock, At, PoolFollowsLocks
      <3>2. UNCHANGED <<pool, db, ghost>>
        BY <1>4, Zenon DEF Begins
      <3> QED BY <3>1, <3>2, Zenon DEF PoolFollowsLocks, ConflictingLocks
    <2> QED BY <1>4, <2>1, <2>2, Zenon DEF Begins
  <1>5. ASSUME NEW b \in Blocks, Restart(b) PROVE PoolFollowsLocks'
    BY <1>5, Zenon DEF Restart, PoolFollowsLocks
  <1>6. CASE Quiet
    <2>1. /\ pool' \subseteq pool /\ ghost.overtaken \subseteq ghost'.overtaken
          /\ Stores \/ db'.islocks \subseteq db.islocks
      BY <1>6, QuietFacts, Zenon
    <2>2. CASE Stores
      <3>1. \A t \in pool \ ghost.overtaken : ConflictingLocks(t) = {}
        BY <2>2, Zenon DEF Stores, At, PoolFollowsLocks
      <3>2. db'.islocks = db.islocks \cup {worker.lock} /\ worker'.pc = "mempool" /\ worker'.lock = worker.lock
        BY <1>0, <2>2, Zenon DEF Stores, WorkerType
      <3>3. \A t \in pool' \ ghost'.overtaken : \A l \in ConflictingLocks(t)' : l = worker.lock
        BY <2>1, <3>1, <3>2, Zenon DEF ConflictingLocks
      <3> QED BY <3>2, <3>3, Zenon DEF PoolFollowsLocks, At
    <2>3. CASE db'.islocks \subseteq db.islocks /\ worker' = worker
      BY <1>1, <2>1, <2>3, Zenon
    <2>4. CASE db'.islocks \subseteq db.islocks /\ ~At("mempool")
      <3>1. \A t \in pool \ ghost.overtaken : ConflictingLocks(t) = {}
        BY <2>4, Zenon DEF PoolFollowsLocks
      <3>2. \A t : ConflictingLocks(t)' \subseteq ConflictingLocks(t)
        BY <2>4, Zenon DEF ConflictingLocks
      <3> QED BY <2>1, <3>1, <3>2, Zenon DEF PoolFollowsLocks
    <2>5. CASE db'.islocks \subseteq db.islocks /\ RemoveMempoolConflictsForLock
      <3>1. \A t \in pool' : t \in pool /\ ~Conflict(t, worker.lock)
        BY <2>5, Zenon DEF RemoveMempoolConflictsForLock, WithDescendants
      <3>2. \A t : ConflictingLocks(t)' \subseteq ConflictingLocks(t)
        BY <2>5, Zenon DEF ConflictingLocks
      <3>3. \A t \in pool' \ ghost'.overtaken : ConflictingLocks(t) = {}
        <4>1. ASSUME NEW t \in pool' \ ghost'.overtaken, NEW l \in ConflictingLocks(t) PROVE FALSE
          <5>1. worker.lock = l /\ Conflict(l, t)
            BY <2>1, <3>1, Zenon DEF PoolFollowsLocks, ConflictingLocks
          <5> QED BY <3>1, <5>1, Zenon DEF Conflict
        <4> QED BY <4>1, Zenon
      <3> QED BY <3>2, <3>3, Zenon DEF PoolFollowsLocks
    <2>6. Idles \/ RemoveMempoolConflictsForLock \/ ~At("mempool")
      BY <1>6, QuietWorker, Zenon DEF ProcessPendingRetryLockTxs, RetryTx, At
    <2> QED BY <2>1, <2>2, <2>3, <2>4, <2>5, <2>6, Zenon DEF Idles
  <1> QED BY <1>2, <1>3, <1>4, <1>5, <1>6, StepKinds, Zenon

-----------------------------------------------------------------------------
(* The heights of mined transactions. *)

\* The is_m records of a lock are those of the active chain, or differ from them by what
\* a report under way will correct.
Reported(t) ==
  \E c \in Pending : /\ c.op = "sync" /\ c.tx = t /\ c.pindex # NoBlock
                     /\ MinedRecords(db, t) \subseteq {MinedRecord(c)}
MinedInv == \A t \in db.islocks \ ghost.stale : MinedExact(db, t, chain.tip) \/ Reported(t)

\* Steps that change neither the records of t nor the chain.
LEMMA RecordsKept ==
  ASSUME NEW t, MinedRecords(db', t) = MinedRecords(db, t), chain'.tip = chain.tip,
         MinedExact(db, t, chain.tip) \/ Reported(t),
         \A c \in Pending : c.op = "sync" /\ c.tx = t /\ c.pindex # NoBlock => c \in Pending'
  PROVE  MinedExact(db', t, chain'.tip) \/ Reported(t)'
  <1>1. CASE MinedExact(db, t, chain.tip)
    BY <1>1, Zenon DEF MinedExact
  <1>2. CASE Reported(t)
    <2>1. PICK c \in Pending : /\ c.op = "sync" /\ c.tx = t /\ c.pindex # NoBlock
                               /\ MinedRecords(db, t) \subseteq {MinedRecord(c)}
      BY <1>2, Zenon DEF Reported
    <2> QED BY <2>1, Zenon DEF Reported
  <1> QED BY <1>1, <1>2, Zenon

\* A report that is read leaves exact records.
LEMMA ReadExact ==
  ASSUME TypeOK, QueueOK, NEW c \in Pending, c \in Entry, EntryOK(c), Reads(c),
         c.tx \in db.islocks, c.pindex # NoBlock,
         MinedExact(db, c.tx, chain.tip) \/ Reported(c.tx)
  PROVE  MinedExact(db', c.tx, chain.tip)
  <1> DEFINE t == c.tx
  <1>1. /\ c.inBlock => MinedIn(t, chain.tip) = {c.pindex}
        /\ ~c.inBlock => MinedIn(t, chain.tip) = {} /\ c.pindex = chain.tip
    BY Zenon DEF EntryOK, IsDisconnect
  <1>2. ASSUME NEW w \in Pending, w.tx = t, w.pindex # NoBlock
        PROVE  MinedRecord(w) = MinedRecord(c)
    <2>1. /\ w.inBlock => MinedIn(t, chain.tip) = {w.pindex}
          /\ ~w.inBlock => MinedIn(t, chain.tip) = {} /\ w.pindex = chain.tip
      BY <1>2, Zenon DEF EntryOK, IsDisconnect, QueueOK
    <2>2. w.pindex = c.pindex /\ (w.inBlock <=> c.inBlock)
      BY <1>1, <2>1, Zenon
    <2> QED BY <1>2, <2>2, Zenon DEF MinedRecord
  <1>3. CASE c.inBlock
    <2>1. MinedRecord(c) = <<Height[c.pindex], t>>
      <3>1. Height[c.pindex] \in Nat
        BY <1>3, BlockTree, Zenon DEF EntryOK, MinedBlocks
      <3> QED BY <1>3, <3>1 DEF MinedRecord
    <2>2. {<<Height[a], t>> : a \in MinedIn(t, chain.tip)} = {MinedRecord(c)}
      BY <1>1, <1>3, <2>1, Zenon
    <2>3. MinedRecords(db, t) \subseteq {MinedRecord(c)}
      BY <1>2, <2>2, Zenon DEF MinedExact, Reported
    <2>4. db'.mined = db.mined \cup {MinedRecord(c)}
      BY <1>3, Zenon DEF Reads, TypeOK
    <2>5. MinedRecords(db', t) = {MinedRecord(c)}
      BY <2>1, <2>3, <2>4 DEF MinedRecords
    <2> QED BY <2>2, <2>5, Zenon DEF MinedExact
  <1>4. CASE ~c.inBlock
    <2>1. {<<Height[a], t>> : a \in MinedIn(t, chain.tip)} = {}
      BY <1>1, <1>4, Zenon
    <2>2. MinedRecords(db, t) \subseteq {MinedRecord(c)}
      BY <1>2, <2>1, Zenon DEF MinedExact, Reported
    <2>3. db'.mined = db.mined \ {MinedRecord(c)}
      BY <1>4, Zenon DEF Reads, TypeOK
    <2>4. MinedRecords(db', t) = {}
      BY <2>2, <2>3, Zenon DEF MinedRecords
    <2> QED BY <2>1, <2>4, Zenon DEF MinedExact
  <1> QED BY <1>3, <1>4, Zenon

LEMMA MinedSection ==
  ASSUME TypeOK, QueueOK, MinedInv, NEW c \in Pending, c \in Entry, EntryOK(c),
         Inserts(c) \/ Accepts(c) \/ Refuses(c) \/ Forgets(c) \/ Reads(c) \/ Processes(c) \/ Adds(c) \/ Removes(c)
  PROVE  MinedInv'
  <1>0. GhostType /\ chain' = chain
    BY Zenon DEF TypeOK, GhostType, Inserts, Accepts, Refuses, Forgets, Reads, Processes, Adds, Removes
  <1>1. \A x \in Pending : x = c \/ x \in Pending'
    BY Zenon DEF Inserts, Accepts, Refuses, Forgets, Reads, Processes, Adds, Removes, Moves, Ends
  <1>2. ASSUME NEW t \in db.islocks \ ghost.stale, MinedRecords(db', t) = MinedRecords(db, t),
               c.op # "sync" \/ c.tx # t \/ c.pindex = NoBlock
        PROVE  MinedExact(db', t, chain'.tip) \/ Reported(t)'
    BY <1>0, <1>1, <1>2, RecordsKept, Zenon DEF MinedInv
  <1>3. CASE Inserts(c) \/ Accepts(c) \/ Refuses(c) \/ Processes(c) \/ Adds(c) \/ Removes(c)
    <2>1. db' = db /\ ghost'.stale = ghost.stale /\ c.op # "sync"
      BY <1>0, <1>3, Zenon DEF Inserts, Accepts, Refuses, Processes, Adds, Removes, GhostType
    <2> QED BY <1>2, <2>1, Zenon DEF MinedInv, MinedExact
  <1>4. CASE Forgets(c)
    <2>1. db' = db /\ ghost'.stale = ghost.stale \cup ({c.tx} \cap db.islocks)
      BY <1>0, <1>4, Zenon DEF Forgets, GhostType
    <2> QED BY <1>2, <2>1, Zenon DEF MinedInv, MinedExact
  <1>5. CASE Reads(c)
    <2>1. db'.islocks = db.islocks /\ ghost' = ghost
      BY <1>5, Zenon DEF Reads, TypeOK
    <2>2. ASSUME NEW t \in db.islocks \ ghost.stale
          PROVE  MinedExact(db', t, chain'.tip) \/ Reported(t)'
      <3>1. CASE t # c.tx
        <4>1. MinedRecord(c)[2] # t
          BY <3>1, Zenon DEF MinedRecord
        <4>2. MinedRecords(db', t) = MinedRecords(db, t)
          <5>1. db'.mined \in {db.mined, db.mined \cup {MinedRecord(c)}, db.mined \ {MinedRecord(c)}}
            BY <1>5, Zenon DEF Reads, TypeOK
          <5> QED BY <4>1, <5>1, Zenon DEF MinedRecords
        <4> QED BY <1>2, <3>1, <4>2, Zenon
      <3>2. CASE t = c.tx /\ c.pindex = NoBlock
        <4>1. db' = db
          BY <1>5, <3>2, Zenon DEF Reads
        <4> QED BY <1>2, <3>2, <4>1, Zenon
      <3>3. CASE t = c.tx /\ c.pindex # NoBlock
        BY <1>0, <1>5, <2>2, <3>3, ReadExact, Zenon DEF MinedInv
      <3> QED BY <3>1, <3>2, <3>3, Zenon
    <2> QED BY <2>1, <2>2, Zenon DEF MinedInv, MinedExact
  <1> QED BY <1>3, <1>4, <1>5, Zenon

\* Locks that are given up take no record of another lock with them.
LEMMA GivenUp ==
  ASSUME TypeOK, MinedInv, Pending' = Pending, chain'.tip = chain.tip, db'.islocks \subseteq db.islocks,
         ghost'.stale = ghost.stale \cap db'.islocks,
         \A t \in db'.islocks : MinedRecords(db', t) = MinedRecords(db, t)
  PROVE  MinedInv'
  <1>1. ASSUME NEW t \in db'.islocks \ ghost'.stale
        PROVE  MinedExact(db', t, chain'.tip) \/ Reported(t)'
    <2>1. t \in db.islocks \ ghost.stale
      OBVIOUS
    <2> QED BY <2>1, RecordsKept, Zenon DEF MinedInv
  <1> QED BY <1>1, Zenon DEF MinedInv, MinedExact

LEMMA MinedInvStep ==
  ASSUME TypeOK, QueueOK, MinedInv, [Next]_vars
  PROVE  MinedInv'
  <1>0. GhostType
    BY Zenon DEF TypeOK, GhostType
  <1>1. CASE Section
    <2>1. CASE \E c \in Pending : /\ c \in Entry /\ EntryOK(c)
                                  /\ \/ Inserts(c) \/ Accepts(c) \/ Refuses(c) \/ Forgets(c)
                                     \/ Reads(c) \/ Processes(c) \/ Adds(c) \/ Removes(c)
      BY <2>1, MinedSection, Zenon
    <2>2. CASE DisconnectTip
      <3> DEFINE b == chain.tip
      <3>1. /\ b \in MinedBlocks /\ chain'.tip = Parent[b] /\ Pending = {} /\ db' = db /\ ghost' = ghost
            /\ \A t \in TxsOf(b) : SyncTransaction(t, Parent[b], FALSE) \in Pending'
        BY <2>2, Disconnected, Zenon
      <3>2. Parent[b] \in Blocks /\ Parent[b] # NoBlock /\ Height[b] = Height[Parent[b]] + 1
        BY <3>1, BlockTree DEF MinedBlocks
      <3>3. ASSUME NEW t \in db.islocks \ ghost.stale
            PROVE  MinedExact(db', t, chain'.tip) \/ Reported(t)'
        <4>1. MinedExact(db, t, b)
          BY <3>1, Zenon DEF MinedInv, Reported
        <4>2. /\ MinedIn(t, b) = MinedIn(t, Parent[b]) \cup {a \in {b} : t \in TxsOf(b)}
              /\ t \in TxsOf(b) => MinedIn(t, Parent[b]) = {}
          BY <3>1, MinedStep, Zenon
        <4>3. CASE t \in TxsOf(b)
          <5> DEFINE c == SyncTransaction(t, Parent[b], FALSE)
          <5>1. MinedIn(t, b) = {b}
            BY <4>2, <4>3, Zenon
          <5>2. MinedRecords(db, t) = {<<Height[b], t>>}
            BY <4>1, <5>1, Zenon DEF MinedExact
          <5>3. c.op = "sync" /\ c.tx = t /\ c.pindex = Parent[b] /\ MinedRecord(c) = <<Height[b], t>>
            BY <3>2, Zenon DEF SyncTransaction, MinedRecord
          <5>4. c \in Pending'
            BY <3>1, <4>3, Zenon
          <5> HIDE DEF c
          <5>5. MinedRecords(db', t) \subseteq {MinedRecord(c)}
            BY <3>1, <5>2, <5>3, Zenon
          <5>6. Reported(t)'
            BY <3>2, <5>3, <5>4, <5>5, Zenon DEF Reported
          <5> QED BY <5>6, Zenon
        <4>4. CASE t \notin TxsOf(b)
          <5>1. MinedIn(t, b) = MinedIn(t, Parent[b])
            BY <4>2, <4>4, Zenon
          <5> QED BY <3>1, <4>1, <5>1, Zenon DEF MinedExact
        <4> QED BY <4>3, <4>4, Zenon
      <3> QED BY <3>1, <3>3, Zenon DEF MinedInv, MinedExact
    <2>3. ASSUME NEW b \in Blocks, ConnectTip(b) PROVE MinedInv'
      <3>1. CASE Pending' = Pending /\ chain'.tip = chain.tip /\ db' = db /\ ghost' = ghost
        BY <3>1, Zenon DEF MinedInv, MinedExact, Reported
      <3>2. CASE Connects(b)
        <4>1. /\ b \in MinedBlocks /\ Parent[b] = chain.tip /\ chain'.tip = b
              /\ \A c \in Pending : c \in Pending'
              /\ \A t \in TxsOf(b) : SyncTransaction(t, b, TRUE) \in Pending'
              /\ ghost'.stale = ghost.stale \cap db'.islocks
          BY <3>2, Zenon DEF Connects
        <4>2. db'.islocks \subseteq db.islocks /\ db'.mined = db.mined
          BY <3>2, Unchained, Zenon DEF Connects
        <4>3. \A t : MinedRecords(db', t) = MinedRecords(db, t)
          BY <4>2, Zenon DEF MinedRecords
        <4>4. ASSUME NEW t \in db'.islocks \ ghost'.stale
              PROVE  MinedExact(db', t, chain'.tip) \/ Reported(t)'
          <5>1. MinedExact(db, t, chain.tip) \/ Reported(t)
            BY <4>1, <4>2, <4>4, Zenon DEF MinedInv
          <5>2. /\ MinedIn(t, b) = MinedIn(t, Parent[b]) \cup {a \in {b} : t \in TxsOf(b)}
                /\ t \in TxsOf(b) => MinedIn(t, Parent[b]) = {}
            BY <4>1, MinedStep
          <5>3. CASE Reported(t)
            <6>1. Reported(t)'
              BY <4>1, <4>3, <5>3, Zenon DEF Reported
            <6> QED BY <6>1, Zenon
          <5>4. CASE MinedExact(db, t, chain.tip) /\ t \notin TxsOf(b)
            <6>1. MinedIn(t, b) = MinedIn(t, chain.tip)
              BY <4>1, <5>2, <5>4, Zenon
            <6> QED BY <4>1, <4>3, <5>4, <6>1, Zenon DEF MinedExact
          <5>5. CASE MinedExact(db, t, chain.tip) /\ t \in TxsOf(b)
            <6> DEFINE c == SyncTransaction(t, b, TRUE)
            <6>1. MinedRecords(db', t) = {}
              BY <4>1, <4>3, <5>2, <5>5, Zenon DEF MinedExact
            <6>2. c \in Pending' /\ c.op = "sync" /\ c.tx = t /\ c.pindex = b
              BY <4>1, <5>5, Zenon DEF SyncTransaction
            <6> HIDE DEF c
            <6>3. Reported(t)'
              BY <4>1, <6>1, <6>2, BlockTree, Zenon DEF Reported, MinedBlocks
            <6> QED BY <6>3, Zenon
          <5> QED BY <5>1, <5>3, <5>4, <5>5, Zenon
        <4> QED BY <4>4, Zenon DEF MinedInv, MinedExact
      <3> QED BY <2>3, <3>1, <3>2, Connected, Zenon
    <2> QED BY <1>1, <2>1, <2>2, <2>3, SectionForms, Zenon
  <1>2. CASE Begins \/ \E t \in Txs : AcceptToMemoryPool(t)
    <2>1. Pending = {} /\ chain'.tip = chain.tip /\ db' = db /\ ghost'.stale = ghost.stale
      BY <1>0, <1>2, FreshSection, AcceptPending, Zenon DEF Begins, GhostType
    <2>2. \A t \in db.islocks \ ghost.stale : MinedExact(db, t, chain.tip)
      BY <2>1, Zenon DEF MinedInv, Reported
    <2> QED BY <2>1, <2>2, Zenon DEF MinedInv, MinedExact
  <1>3. ASSUME NEW b \in Blocks, Restart(b) PROVE MinedInv'
    <2>1. /\ db' = db /\ ghost'.stale = ghost.stale \cup {t \in db.islocks : ~MinedExact(db, t, b)}
          /\ chain'.tip = b
      BY <1>3, Zenon DEF Restart, TypeOK, ChainType
    <2> QED BY <2>1, Zenon DEF MinedInv, MinedExact
  <1>4. CASE Quiet
    <2>1. Pending' = Pending /\ chain'.tip = chain.tip
      BY <1>4, QuietFacts, Zenon
    <2>2. CASE db' = db /\ ghost' = ghost
      BY <2>1, <2>2, Zenon DEF MinedInv, MinedExact, Reported
    <2>3. CASE RemoveChainLockConflictingLock
      <3>1. db'.islocks \subseteq db.islocks /\ db'.mined = db.mined
        BY <2>3, Unchained, Zenon DEF RemoveChainLockConflictingLock
      <3>2. ghost'.stale = ghost.stale \cap db'.islocks
        BY <1>0, <2>3, Zenon DEF RemoveChainLockConflictingLock, GhostType
      <3>3. \A t : MinedRecords(db', t) = MinedRecords(db, t)
        BY <3>1, Zenon DEF MinedRecords
      <3> QED BY <2>1, <3>1, <3>2, <3>3, GivenUp, Zenon
    <2>4. CASE NotifyChainLock
      <3> DEFINE confirmed == {r \in db.mined : r[1] =< Height[chain.notifying]}
      <3>1. /\ db'.islocks = {t \in db.islocks : \A r \in confirmed : r[2] # t}
            /\ db'.mined = db.mined \ confirmed
            /\ ghost'.stale = ghost.stale \cap db'.islocks
        BY <2>4, Zenon DEF NotifyChainLock, HandleFullyConfirmedBlock, RemoveConfirmedInstantSendLocks
      <3> HIDE DEF confirmed
      <3>2. \A t \in db'.islocks : MinedRecords(db', t) = MinedRecords(db, t)
        BY <3>1, Zenon DEF MinedRecords
      <3> QED BY <2>1, <3>1, <3>2, GivenUp, Zenon
    <2>5. CASE Store
      <3>0. PICK u : u = worker.lock
        OBVIOUS
      <3> DEFINE d == [db EXCEPT !.islocks = @ \cup {u},
                                 !.mined = IF worker.mined = NoBlock THEN @
                                           ELSE @ \cup {<<Height[worker.mined], u>>}]
                 reported == \E c \in Pending : /\ c.op = "sync" /\ c.tx = u /\ c.pindex # NoBlock
                                                /\ MinedRecords(d, u) \subseteq {MinedRecord(c)}
      <3>1. CASE u \in db.islocks
        BY <2>2, <2>5, <3>0, <3>1, Zenon DEF Store
      <3>2. CASE u \notin db.islocks
        <4>1. db' = d /\ ghost'.stale = IF reported \/ MinedExact(d, u, chain.tip) THEN ghost.stale \ {u}
                                        ELSE ghost.stale \cup {u}
          BY <1>0, <2>5, <3>0, <3>2, Zenon DEF Store, GhostType
        <4>2. d.islocks = db.islocks \cup {u}
              /\ d.mined \in {db.mined, db.mined \cup {<<Height[worker.mined], u>>}}
          BY Zenon DEF TypeOK
        <4>3. ASSUME NEW t \in db.islocks \ ghost.stale, t # u
              PROVE  MinedExact(db', t, chain'.tip) \/ Reported(t)'
          <5>1. MinedRecords(db', t) = MinedRecords(db, t)
            BY <4>1, <4>2, <4>3 DEF MinedRecords
          <5> QED BY <2>1, <5>1, RecordsKept, Zenon DEF MinedInv
        <4>4. ASSUME u \notin ghost'.stale
              PROVE  MinedExact(db', u, chain'.tip) \/ Reported(u)'
          <5>1. reported \/ MinedExact(d, u, chain.tip)
            BY <4>1, <4>4, Zenon
          <5>2. CASE reported
            <6>1. Reported(u)'
              BY <2>1, <4>1, <5>2, Zenon DEF Reported
            <6> QED BY <6>1, Zenon
          <5>3. CASE MinedExact(d, u, chain.tip)
            BY <2>1, <4>1, <5>3, Zenon
          <5> QED BY <5>1, <5>2, <5>3, Zenon
        <4>5. db'.islocks = db.islocks \cup {u} /\ \A t : t # u => (t \in ghost'.stale <=> t \in ghost.stale)
          BY <4>1, <4>2
        <4> HIDE DEF d, reported
        <4>6. ASSUME NEW t \in db'.islocks \ ghost'.stale
              PROVE  MinedExact(db', t, chain'.tip) \/ Reported(t)'
          BY <4>3, <4>4, <4>5, Zenon
        <4> QED BY <4>6, Zenon DEF MinedInv, MinedExact
      <3> QED BY <3>1, <3>2, Zenon
    <2>6. (db' = db /\ ghost' = ghost) \/ RemoveChainLockConflictingLock \/ NotifyChainLock \/ Store
      BY <1>4, Zenon DEF Quiet, ProcessPendingInstantSendLocks, RemoveMempoolConflictsForLock,
        RemoveMempoolConflictsTracking, CollectBlockConflicts, ResolveBlock, WaitForTipHeight, Invalidated,
        ProcessPendingRetryLockTxs, LookUp, RetryTx, ProcessMessageInstantSendLock, ProcessNewChainLock,
        DecideToNotify, vars
    <2> QED BY <2>2, <2>3, <2>4, <2>5, <2>6, Zenon
  <1> QED BY <1>1, <1>2, <1>3, <1>4, StepKinds, Zenon

LEMMA MinedInvImplies == MinedInv => MinedHeightsExact
  <1>1. \A t : Reported(t) => t \in UnderWay
    BY Zenon DEF Reported, UnderWay
  <1> QED BY <1>1, Zenon DEF MinedInv, MinedHeightsExact

-----------------------------------------------------------------------------
(* Mined transactions that conflict with a lock. *)

\* nonLockedTxsByInputs shows u as a mined transaction with an input of l.
Indexed(l, u) ==
  /\ u # l /\ track.info[u].tx /\ track.info[u].mined # NoBlock
  /\ \E e \in track.byInputs : e[2] = u /\ e[1] \in Inputs[l]

\* The worker has yet to look at u, or has it among the conflicts it resolves.
Resolving(l, u) ==
  /\ worker.lock = l
  /\ \/ worker.pc \in {"mempool", "untrack", "collect", "prune", "pruning"}
     \/ /\ worker.pc \in {"resolve", "invalidate", "activate"}
        /\ \E b \in MinedBlocks : <<b, u>> \in worker.txs

IndexInv ==
  /\ \A e \in track.byInputs : e[1] \in Inputs[e[2]]
  /\ \A l \in db.islocks : \A u \in Txs :
       Indexed(l, u) => u \in UnderWay \/ u \in ghost.overtaken \/ Resolving(l, u)

\* A step that neither tracks more nor locks more, and keeps what the worker does.
LEMMA IndexKept ==
  ASSUME IndexInv, worker' = worker, db'.islocks \subseteq db.islocks,
         track'.byInputs \subseteq track.byInputs,
         \A t \in Txs : track'.info[t].tx =>
           \/ t \in UnderWay' \/ t \in ghost'.overtaken
           \/ /\ track.info[t].tx /\ track'.info[t].mined = track.info[t].mined
              /\ t \notin UnderWay /\ t \notin ghost.overtaken
  PROVE  IndexInv'
  <1>1. ASSUME NEW l \in db'.islocks, NEW u \in Txs, Indexed(l, u)'
        PROVE  u \in UnderWay' \/ u \in ghost'.overtaken \/ Resolving(l, u)'
    <2>1. CASE u \in UnderWay' \/ u \in ghost'.overtaken
      BY <2>1, Zenon
    <2>2. CASE u \notin UnderWay' /\ u \notin ghost'.overtaken
      <3>1. Indexed(l, u) /\ u \notin UnderWay /\ u \notin ghost.overtaken
        BY <1>1, <2>2, Zenon DEF Indexed
      <3>2. Resolving(l, u)
        BY <3>1, Zenon DEF IndexInv
      <3>3. Resolving(l, u)'
        BY <3>2, Zenon DEF Resolving
      <3> QED BY <3>3, Zenon
    <2> QED BY <2>1, <2>2, Zenon
  <1> QED BY <1>1, Zenon DEF IndexInv

LEMMA IndexSection ==
  ASSUME TypeOK, QueueOK, ActiveInv, IndexInv, NEW c \in Pending, c \in Entry, EntryOK(c),
         Inserts(c) \/ Accepts(c) \/ Refuses(c) \/ Forgets(c) \/ Reads(c) \/ Processes(c) \/ Adds(c) \/ Removes(c)
  PROVE  IndexInv'
  <1>1. db'.islocks = db.islocks /\ worker' = worker /\ track \in Tracks /\ c.tx \in Txs
    BY Zenon DEF Inserts, Accepts, Refuses, Forgets, Reads, Processes, Adds, Removes, TypeOK, Entry
  <1>2. CASE Inserts(c) \/ Accepts(c) \/ Reads(c) \/ Processes(c)
    <2>1. \E d : Moves(c, d) /\ d.op # "resurrect"
      BY <1>2, Zenon DEF Inserts, Accepts, Reads, Processes
    <2>2. \A t : t \in UnderWay \/ t = c.tx => t \in UnderWay'
      BY <2>1, MovesUnderWay, Zenon
    <2>3. track' = track /\ \A t \in ghost.overtaken : t = c.tx \/ t \in ghost'.overtaken
      BY <1>2, Zenon DEF Inserts, Accepts, Reads, Processes, TypeOK
    <2> QED BY <1>1, <2>2, <2>3, IndexKept, Zenon
  <1>3. CASE Refuses(c)
    <2>1. track' = track /\ ghost' = ghost /\ Ends(c) /\ c.op = "resurrect"
      BY <1>3, Zenon DEF Refuses
    <2>2. \A t \in UnderWay : t \in UnderWay'
      BY <2>1, EndsUnderWay, Zenon
    <2> QED BY <1>1, <2>1, <2>2, IndexKept, Zenon
  <1>4. CASE Forgets(c) \/ Removes(c)
    <2>1. Ends(c) /\ ghost'.overtaken = ghost.overtaken
      BY <1>4, Zenon DEF Forgets, Removes, TypeOK
    <2>2. PICK r : track' = RemoveNonLockedTxs(track, {c.tx}, r)
      BY <1>4, Zenon DEF Forgets, Removes, RemoveNonLockedTx
    <2>3. \A t \in UnderWay : t \in UnderWay' \/ t = c.tx
      BY <2>1, EndsUnderWay, Zenon
    <2>4. /\ \A t \in Txs : track'.info[t].tx =>
               t \notin {c.tx} /\ track.info[t].tx /\ track'.info[t].mined = track.info[t].mined
          /\ track'.byInputs \subseteq track.byInputs
      BY <1>1, <2>2, Removed, Zenon
    <2> QED BY <1>1, <2>1, <2>3, <2>4, IndexKept, Zenon
  <1>5. CASE Adds(c)
    <2>1. /\ Ends(c) /\ c.op = "add" /\ ghost' = ghost
          /\ track' = AddNonLockedTx(track, c.tx, IF IsDisconnect(c) THEN NoBlock ELSE c.pindex)
      BY <1>5, Zenon DEF Adds
    <2>2. \A t \in UnderWay : t \in UnderWay' \/ t = c.tx
      BY <2>1, EndsUnderWay, Zenon
    <2>3. /\ track'.info[c.tx].mined = IF IsDisconnect(c) THEN NoBlock ELSE c.pindex
          /\ \A t \in Txs \ {c.tx} : track'.info[t].tx = track.info[t].tx /\ track'.info[t].mined = track.info[t].mined
          /\ \A e \in track'.byInputs : e \in track.byInputs \/ (e[1] \in Inputs[c.tx] /\ e[2] = c.tx)
      BY <1>1, <2>1, Added
    <2>4. \A e \in track'.byInputs : e[1] \in Inputs[e[2]]
      BY <2>3, Zenon DEF IndexInv
    <2>5. ASSUME NEW l \in db.islocks, NEW u \in Txs, Indexed(l, u)', u # c.tx
          PROVE  u \in UnderWay' \/ u \in ghost'.overtaken \/ Resolving(l, u)'
      <3>1. Indexed(l, u)
        BY <2>3, <2>5, Zenon DEF Indexed
      <3>2. u \in UnderWay \/ u \in ghost.overtaken \/ Resolving(l, u)
        BY <3>1, Zenon DEF IndexInv
      <3>3. Resolving(l, u) => Resolving(l, u)'
        BY <1>1, Zenon DEF Resolving
      <3> QED BY <2>1, <2>2, <2>5, <3>2, <3>3, Zenon
    <2>6. ASSUME NEW l \in db.islocks, Indexed(l, c.tx)'
          PROVE  c.tx \in ghost'.overtaken
      <3>2. l # c.tx /\ track'.info[c.tx].mined # NoBlock
        BY <2>6, Zenon DEF Indexed
      <3>3. c.inBlock
        BY <2>3, <3>2, Zenon DEF IsDisconnect
      <3>4. \E e \in track'.byInputs : e[2] = c.tx /\ e[1] \in Inputs[l]
        BY <2>6, Zenon DEF Indexed
      <3>5. Conflict(l, c.tx)
        BY <2>4, <3>2, <3>4, Zenon DEF Conflict
      <3>6. l \in ConflictingLocks(c.tx)
        BY <3>5, Zenon DEF ConflictingLocks
      <3> QED BY <2>1, <3>3, <3>6, Zenon DEF ActiveInv
    <2> QED BY <1>1, <2>4, <2>5, <2>6, Zenon DEF IndexInv
  <1> QED BY <1>2, <1>3, <1>4, <1>5, Zenon

\* The worker goes on with the conflicts of its lock until the lock is given up or none
\* is left that it collected.
LEMMA ResolvingStep ==
  ASSUME TypeOK, Quiet, ~Stores, NEW l \in db'.islocks, NEW u \in Txs,
         Resolving(l, u), Indexed(l, u), Indexed(l, u)'
  PROVE  Resolving(l, u)'
  <1>0. WorkerType /\ track \in Tracks
    BY Zenon DEF TypeOK
  <1>1. CASE worker' = worker
    BY <1>1, Zenon DEF Resolving
  <1>2. CASE RemoveMempoolConflictsForLock
    <2>1. worker'.lock = worker.lock /\ worker'.pc \in {"collect", "untrack"}
      BY <1>0, <1>2, Zenon DEF RemoveMempoolConflictsForLock, WorkerType
    <2> QED BY <2>1, Zenon DEF Resolving
  <1>3. CASE RemoveMempoolConflictsTracking
    <2>1. worker'.lock = worker.lock /\ worker'.pc = "collect"
      BY <1>0, <1>3, Zenon DEF RemoveMempoolConflictsTracking, WorkerType
    <2> QED BY <2>1, Zenon DEF Resolving
  <1>4. CASE CollectBlockConflicts
    <2> DEFINE found == MinedConflicts(worker.lock)
    <2>1. <<track.info[u].mined, u>> \in found /\ track.info[u].mined \in MinedBlocks
      <3>1. track.info[u] \in Info
        BY <1>0, Zenon DEF Tracks, Ids
      <3>2. track.info[u].mined \in MinedBlocks
        BY <3>1, Zenon DEF Info, MinedOrNone, Indexed
      <3>3. worker.lock = l
        BY Zenon DEF Resolving
      <3> QED BY <3>2, <3>3, Zenon DEF Indexed, MinedConflicts
    <2>2. \E p \in {"prune", "resolve"} : worker' = [worker EXCEPT !.txs = found, !.pc = p]
      BY <1>4, <2>1, Zenon DEF CollectBlockConflicts
    <2> HIDE DEF found
    <2>3. worker'.lock = worker.lock /\ worker'.pc \in {"prune", "resolve"} /\ worker'.txs = found
      BY <1>0, <2>2, Zenon DEF WorkerType
    <2> QED BY <2>1, <2>3, Zenon DEF Resolving
  <1>5. CASE WaitForTipHeight
    <2>1. worker'.lock = worker.lock /\ worker'.pc = "pruning"
      BY <1>0, <1>5, Zenon DEF WaitForTipHeight, WorkerType
    <2> QED BY <2>1, Zenon DEF Resolving
  <1>6. CASE RemoveChainLockConflictingLock
    <2>1. worker.lock \notin db'.islocks
      BY <1>6, Unchained, Zenon DEF RemoveChainLockConflictingLock
    <2> QED BY <2>1, Zenon DEF Resolving
  <1>7. CASE ResolveBlock
    <2>1. PICK f \in worker.txs :
            /\ track' = RemoveNonLockedTxs(track, {x[2] : x \in {y \in worker.txs : y[1] = f[1]}}, {})
            /\ worker' = [worker EXCEPT !.pc = "invalidate", !.mined = f[1],
                                        !.txs = @ \ {y \in worker.txs : y[1] = f[1]}]
      BY <1>7, Zenon DEF ResolveBlock, RemoveConflictedTxs
    <2> DEFINE here == {y \in worker.txs : y[1] = f[1]}
    <2>2. u \notin {x[2] : x \in here}
      <3>1. track'.info[u].tx
        BY Zenon DEF Indexed
      <3> QED BY <1>0, <2>1, <3>1, Removed, Zenon
    <2>3. worker'.lock = worker.lock /\ worker'.pc = "invalidate" /\ worker'.txs = worker.txs \ here
      BY <1>0, <2>1, Zenon DEF WorkerType
    <2>4. PICK b \in MinedBlocks : <<b, u>> \in worker.txs
      BY <1>7, Zenon DEF Resolving, ResolveBlock, At
    <2>5. <<b, u>> \notin here
      BY <2>2
    <2> QED BY <2>3, <2>4, <2>5, Zenon DEF Resolving
  <1>8. CASE Invalidated
    <2>1. PICK b \in MinedBlocks : <<b, u>> \in worker.txs
      BY <1>8, Zenon DEF Resolving, Invalidated, At
    <2>2. worker' = [worker EXCEPT !.pc = "resolve"]
      BY <1>8, <2>1, Zenon DEF Invalidated
    <2>3. worker'.lock = worker.lock /\ worker'.pc = "resolve" /\ worker'.txs = worker.txs
      BY <1>0, <2>2, Zenon DEF WorkerType
    <2> QED BY <2>1, <2>3, Zenon DEF Resolving
  <1>9. CASE Store \/ ProcessPendingInstantSendLocks \/ ProcessPendingRetryLockTxs \/ \E t \in Txs : LookUp(t) \/ RetryTx(t)
    BY <1>9, Zenon
       DEF Store, ProcessPendingInstantSendLocks, ProcessPendingRetryLockTxs, LookUp, RetryTx, At, Resolving
  <1> QED BY <1>1, <1>2, <1>3, <1>4, <1>5, <1>6, <1>7, <1>8, <1>9, Zenon
             DEF Quiet, ProcessMessageInstantSendLock,
        ProcessNewChainLock, DecideToNotify, NotifyChainLock, vars

LEMMA IndexStep ==
  ASSUME TypeOK, QueueOK, ActiveInv, IndexInv, [Next]_vars
  PROVE  IndexInv'
  <1>0. GhostType /\ WorkerType
    BY Zenon DEF TypeOK, GhostType
  <1>1. CASE Section
    <2>1. CASE \E c \in Pending : /\ c \in Entry /\ EntryOK(c)
                                  /\ \/ Inserts(c) \/ Accepts(c) \/ Refuses(c) \/ Forgets(c)
                                     \/ Reads(c) \/ Processes(c) \/ Adds(c) \/ Removes(c)
      BY <2>1, IndexSection, Zenon
    <2>2. CASE DisconnectTip
      <3>1. UnderWay = {} /\ UNCHANGED <<db, track, worker, ghost>>
        BY <2>2, Disconnected, Zenon
      <3> QED BY <3>1, IndexKept, Zenon
    <2>3. ASSUME NEW b \in Blocks, ConnectTip(b) PROVE IndexInv'
      <3>1. CASE Pending' = Pending /\ UNCHANGED <<db, track, worker, ghost>>
        <4>1. UnderWay' = UnderWay
          BY <3>1, Zenon DEF UnderWay
        <4> QED BY <3>1, <4>1, IndexKept, Zenon
      <3>2. CASE Connects(b)
        <4>1. /\ track' = track /\ worker' = worker
              /\ ghost'.overtaken = ghost.overtaken \ TxsOf(b)
          BY <3>2, Zenon DEF Connects
        <4>2. \A t : t \in UnderWay \/ t \in TxsOf(b) => t \in UnderWay'
          BY <3>2, ConnectsUnderWay, Zenon
        <4>3. db'.islocks \subseteq db.islocks
          BY <3>2, Unchained, Zenon DEF Connects
        <4> QED BY <4>1, <4>2, <4>3, IndexKept, Zenon
      <3> QED BY <2>3, <3>1, <3>2, Connected, Zenon
    <2> QED BY <1>1, <2>1, <2>2, <2>3, SectionForms, Zenon
  <1>2. ASSUME NEW t \in Txs, AcceptToMemoryPool(t) PROVE IndexInv'
    <2>1. /\ UnderWay = {} /\ t \in UnderWay' /\ UNCHANGED <<db, track, worker>>
          /\ ghost' = [ghost EXCEPT !.overtaken = @ \ {t}]
      BY <1>2, AcceptPending, Zenon
    <2>2. ghost'.overtaken = ghost.overtaken \ {t}
      BY <1>0, <2>1, Zenon DEF GhostType
    <2> QED BY <2>1, <2>2, IndexKept, Zenon
  <1>3. CASE Begins
    <2>1. UnderWay = {} /\ UNCHANGED <<db, track, ghost>>
      BY <1>3, FreshSection, Zenon DEF Begins
    <2>2. CASE worker' = worker
      BY <2>1, <2>2, IndexKept, Zenon
    <2>3. CASE InvalidateConflictingBlock /\ worker' = [worker EXCEPT !.pc = "activate"]
      <3>1. worker'.lock = worker.lock /\ worker'.txs = worker.txs /\ worker.pc = "invalidate" /\ worker'.pc = "activate"
        BY <1>0, <2>3, Zenon DEF InvalidateConflictingBlock, WorkerType, At
      <3>2. \A l, u : Indexed(l, u)' => Indexed(l, u)
        BY <2>1, Zenon DEF Indexed
      <3>3. \A l, u : Resolving(l, u) => Resolving(l, u)'
        BY <3>1, Zenon DEF Resolving
      <3> QED BY <2>1, <3>2, <3>3, Zenon DEF IndexInv
    <2> QED BY <1>3, <2>2, <2>3, Zenon DEF Begins
  <1>4. ASSUME NEW b \in Blocks, Restart(b) PROVE IndexInv'
    <2>1. track'.byInputs = {}
      BY <1>4, Zenon DEF Restart, Untracked
    <2> QED BY <2>1, Zenon DEF IndexInv, Indexed
  <1>5. CASE Quiet
    <2>1. /\ UnderWay' = UnderWay /\ ghost.overtaken \subseteq ghost'.overtaken
          /\ Stores \/ db'.islocks \subseteq db.islocks
          /\ \A t \in Txs : track'.info[t].tx => track.info[t].tx /\ track'.info[t].mined = track.info[t].mined
          /\ track'.byInputs \subseteq track.byInputs
      BY <1>5, QuietFacts, Zenon
    <2>2. \A l : \A u \in Txs : Indexed(l, u)' => Indexed(l, u)
      BY <2>1, Zenon DEF Indexed
    <2>3. CASE Stores
      <3>1. /\ db'.islocks = db.islocks \cup {worker.lock} /\ worker.pc = "store"
            /\ worker'.lock = worker.lock /\ worker'.pc = "mempool"
        BY <1>0, <2>3, Zenon DEF Stores, WorkerType, At
      <3>2. \A l, u : ~Resolving(l, u)
        BY <3>1, Zenon DEF Resolving
      <3>3. \A l, u : l = worker.lock => Resolving(l, u)'
        BY <3>1, Zenon DEF Resolving
      <3> QED BY <2>1, <2>2, <3>1, <3>2, <3>3, Zenon DEF IndexInv
    <2>4. CASE ~Stores
      <3>1. ASSUME NEW l \in db'.islocks, NEW u \in Txs, Indexed(l, u)'
            PROVE  u \in UnderWay' \/ u \in ghost'.overtaken \/ Resolving(l, u)'
        <4>1. Indexed(l, u) /\ l \in db.islocks
          BY <2>1, <2>2, <2>4, <3>1, Zenon
        <4>2. u \in UnderWay \/ u \in ghost.overtaken \/ Resolving(l, u)
          BY <4>1, Zenon DEF IndexInv
        <4>3. Resolving(l, u) => Resolving(l, u)'
          BY <1>5, <2>4, <3>1, <4>1, ResolvingStep, Zenon
        <4> QED BY <2>1, <4>2, <4>3, Zenon
      <3> QED BY <2>1, <3>1, Zenon DEF IndexInv
    <2> QED BY <2>3, <2>4, Zenon
  <1> QED BY <1>1, <1>2, <1>3, <1>4, <1>5, StepKinds, Zenon

LEMMA IndexImplies ==
  ASSUME TypeOK, IndexInv
  PROVE  IndexedConflictsResolved
  <1>1. ASSUME NEW l \in db.islocks, NEW f \in MinedConflicts(l)
        PROVE  f[2] \in UnderWay \cup ghost.overtaken \/ Handling(l)
    <2>1. PICK e \in track.byInputs :
            /\ f = <<track.info[e[2]].mined, e[2]>> /\ e[1] \in Inputs[l] /\ e[2] # l
            /\ track.info[e[2]].tx /\ track.info[e[2]].mined # NoBlock
      BY Zenon DEF MinedConflicts
    <2>2. e[2] \in Txs /\ f[2] = e[2]
      BY <2>1, Zenon DEF TypeOK, Tracks
    <2>3. Indexed(l, e[2])
      BY <2>1, Zenon DEF Indexed
    <2>4. Resolving(l, e[2]) => Handling(l)
      BY Zenon DEF Resolving, Handling
    <2> QED BY <2>2, <2>3, <2>4, Zenon DEF IndexInv
  <1> QED BY <1>1, Zenon DEF IndexedConflictsResolved

-----------------------------------------------------------------------------
(* Votes for transactions whose parents are locked. *)

Voted(t) == \/ \A o \in Inputs[t] : votes[o] = t
            \/ \E o \in Inputs[t] : votes[o] \notin {None, t}
Conflicting(t) == At("mempool") /\ Conflict(worker.lock, t)
Due(t) ==
  /\ t \in pool /\ t \notin ghost.overtaken
  /\ Parents(t) \subseteq db.islocks \cup Funding

ChildInv ==
  /\ \A t \in Txs : Due(t) /\ track.info[t].tx =>
       t \in UnderWay \/ Voted(t) \/ Conflicting(t) \/ t \in track.retry \/ t \in worker.retry
  /\ \A c \in Pending : c.op = "add" /\ Due(c.tx) => Voted(c.tx) \/ Conflicting(c.tx)

\* A vote is never taken back.
LEMMA VotesKept ==
  ASSUME TypeOK, NEW t \in Txs, votes' = ProcessTx(t), NEW u \in Txs, Voted(u)
  PROVE  Voted(u)'
  <1>1. \A o \in Inputs[u] : o \in Outpoints
    BY Zenon DEF Outpoints
  <1>2. \A o \in Outpoints : votes'[o] = votes[o] \/ (votes'[o] = t /\ votes[o] \in {None, t})
    BY Zenon DEF ProcessTx, MayVote
  <1>3. u # None /\ t # None
    BY InstantSendAssumption, Zenon
  <1>4. CASE \A o \in Inputs[u] : votes[o] = u
    BY <1>1, <1>2, <1>3, <1>4, Zenon DEF Voted
  <1>5. CASE \E o \in Inputs[u] : votes[o] \notin {None, u}
    BY <1>1, <1>2, <1>3, <1>5, Zenon DEF Voted
  <1> QED BY <1>4, <1>5, Zenon DEF Voted

\* ProcessTx votes for a transaction whose parents are locked, unless it conflicts with a
\* lock or the node has voted for another one.
LEMMA DueVoted ==
  ASSUME NEW t \in Txs, votes' = ProcessTx(t), ConflictingLocks(t) = {},
         Parents(t) \subseteq db.islocks \cup Funding
  PROVE  Voted(t)'
  <1>1. \A o \in Inputs[t] : o \in Outpoints
    BY Zenon DEF Outpoints
  <1>2. \A o \in Inputs[t] : CanLockInput(o)
    BY Zenon DEF CanLockInput, IsLocked, Parents
  <1>3. CASE MayVote(t)
    BY <1>1, <1>3, Zenon DEF ProcessTx, Voted
  <1>4. CASE ~MayVote(t)
    <2>1. Inputs[t] = {} \/ \E o \in Inputs[t] : votes[o] \notin {None, t}
      BY <1>2, <1>4, Zenon DEF MayVote, CheckCanLock
    <2>2. \A o \in Inputs[t] : votes'[o] = votes[o]
      BY <1>1, <1>4, Zenon DEF ProcessTx
    <2> QED BY <2>1, <2>2, Zenon DEF Voted
  <1> QED BY <1>3, <1>4, Zenon

\* Steps that leave the votes, the worker and what is due.
LEMMA ChildrenKept ==
  ASSUME ChildInv, worker' = worker, votes' = votes, track.retry \subseteq track'.retry,
         \A t \in Txs : Due(t)' => t \in UnderWay' \/ Due(t),
         \A t \in Txs : track'.info[t].tx =>
           t \in UnderWay' \/ (track.info[t].tx /\ t \notin UnderWay) \/ (Due(t) => Voted(t) \/ Conflicting(t)),
         \A c \in Pending' : c.op # "add"
  PROVE  ChildInv'
  <1>1. \A t : (Voted(t) => Voted(t)') /\ (Conflicting(t) => Conflicting(t)')
    BY Zenon DEF Voted, Conflicting, At
  <1>2. ASSUME NEW t \in Txs, Due(t)', track'.info[t].tx
        PROVE  t \in UnderWay' \/ Voted(t)' \/ Conflicting(t)' \/ t \in track'.retry \/ t \in worker'.retry
    BY <1>1, <1>2, Zenon DEF ChildInv
  <1> QED BY <1>2, Zenon DEF ChildInv

LEMMA ChildSection ==
  ASSUME TypeOK, QueueOK, PoolFollowsLocks, ChildInv, NEW c \in Pending, c \in Entry, EntryOK(c),
         Inserts(c) \/ Accepts(c) \/ Refuses(c) \/ Forgets(c) \/ Reads(c) \/ Processes(c) \/ Adds(c) \/ Removes(c)
  PROVE  ChildInv'
  <1>1. /\ db'.islocks = db.islocks /\ worker' = worker /\ track \in Tracks /\ c.tx \in Txs
        /\ \A t \in pool' : t \in pool \/ (Inserts(c) /\ t = c.tx)
    BY Zenon DEF Inserts, Accepts, Refuses, Forgets, Reads, Processes, Adds, Removes, TypeOK, Entry
  <1>2. \A t \in ghost.overtaken : t \in ghost'.overtaken \/ (Accepts(c) /\ t = c.tx)
    BY Zenon DEF Inserts, Accepts, Refuses, Forgets, Reads, Processes, Adds, Removes, TypeOK
  <1>3. \A t : Due(t)' => Due(t) \/ ((Inserts(c) \/ Accepts(c)) /\ t = c.tx)
    BY <1>1, <1>2, Zenon DEF Due
  <1>4. CASE Inserts(c) \/ Accepts(c) \/ Reads(c)
    <2>1. PICK d : Moves(c, d) /\ d.op \notin {"resurrect", "add"}
      BY <1>4, Zenon DEF Inserts, Accepts, Reads
    <2>2. \A t : t \in UnderWay \/ t = c.tx => t \in UnderWay'
      BY <2>1, MovesUnderWay, Zenon
    <2>3. track' = track /\ votes' = votes
      BY <1>4, Zenon DEF Inserts, Accepts, Reads
    <2>4. \A x \in Pending' : x.op # "add"
      BY <2>1, Zenon DEF Moves, Waits
    <2> QED BY <1>1, <1>3, <2>2, <2>3, <2>4, ChildrenKept, Zenon
  <1>5. CASE Refuses(c)
    <2>1. track' = track /\ votes' = votes /\ Ends(c) /\ c.op = "resurrect"
      BY <1>5, Zenon DEF Refuses
    <2>2. \A t \in UnderWay : t \in UnderWay'
      BY <2>1, EndsUnderWay, Zenon
    <2>3. ~Inserts(c) /\ ~Accepts(c) /\ \A x \in Pending' : x.op # "add"
      BY <2>1, Zenon DEF Inserts, Accepts, Moves, Ends, Waits
    <2> QED BY <1>1, <1>3, <2>1, <2>2, <2>3, ChildrenKept, Zenon
  <1>6. CASE Forgets(c) \/ Removes(c)
    <2>1. Ends(c) /\ votes' = votes /\ c.op \in {"sync", "remove"}
      BY <1>6, Zenon DEF Forgets, Removes
    <2>2. PICK r : track' = RemoveNonLockedTxs(track, {c.tx}, r)
      BY <1>6, Zenon DEF Forgets, Removes, RemoveNonLockedTx
    <2>3. \A t \in UnderWay : t \in UnderWay' \/ t = c.tx
      BY <2>1, EndsUnderWay, Zenon
    <2>4. /\ \A t \in Txs : track'.info[t].tx => t \notin {c.tx} /\ track.info[t].tx
          /\ track.retry \subseteq track'.retry
      BY <1>1, <2>2, Removed, Zenon
    <2>5. ~Inserts(c) /\ ~Accepts(c) /\ \A x \in Pending' : x.op # "add"
      BY <2>1, Zenon DEF Inserts, Accepts, Ends, Waits
    <2> QED BY <1>1, <1>3, <2>1, <2>3, <2>4, <2>5, ChildrenKept, Zenon
  <1>7. CASE Processes(c)
    <2>1. PICK d : Moves(c, d) /\ d.op = "add"
      BY <1>7, Zenon DEF Processes
    <2>2. votes' = ProcessTx(c.tx) /\ UNCHANGED <<pool, db, track, worker, ghost>>
      BY <1>7, Zenon DEF Processes
    <2>3. \A t : t \in UnderWay \/ t = c.tx => t \in UnderWay'
      BY <2>1, MovesUnderWay, Zenon
    <2>4. \A t \in Txs : Voted(t) => Voted(t)'
      BY <1>1, <2>2, VotesKept, Zenon
    <2>5. \A t : (Conflicting(t) => Conflicting(t)') /\ (Due(t)' => Due(t))
      BY <2>2, Zenon DEF Conflicting, Due, At
    <2>6. ASSUME Due(c.tx) PROVE Voted(c.tx)' \/ Conflicting(c.tx)
      <3>1. CASE ConflictingLocks(c.tx) = {}
        BY <1>1, <2>2, <2>6, <3>1, DueVoted, Zenon DEF Due
      <3>2. CASE ConflictingLocks(c.tx) # {}
        BY <2>6, <3>2, Zenon DEF Due, PoolFollowsLocks, Conflicting, ConflictingLocks
      <3> QED BY <3>1, <3>2, Zenon
    <2>7. PICK u \in Txs : u = c.tx
      BY <1>1, Zenon
    <2>8. Due(u)' => Voted(u)' \/ Conflicting(u)'
      BY <2>5, <2>6, <2>7, Zenon
    <2>9. \A x \in Pending' : x.op = "add" => x.tx = u
      BY <2>1, <2>7, Zenon DEF Moves, Waits
    <2>10. \A t \in Txs : Due(t)' /\ track'.info[t].tx =>
             t \in UnderWay' \/ Voted(t)' \/ Conflicting(t)' \/ t \in track'.retry \/ t \in worker'.retry
      BY <2>2, <2>3, <2>4, <2>5, Zenon DEF ChildInv
    <2> QED BY <2>8, <2>9, <2>10, Zenon DEF ChildInv
  <1>8. CASE Adds(c)
    <2>1. /\ Ends(c) /\ c.op = "add" /\ votes' = votes
          /\ track' = AddNonLockedTx(track, c.tx, IF IsDisconnect(c) THEN NoBlock ELSE c.pindex)
      BY <1>8, Zenon DEF Adds
    <2>2. \A t \in UnderWay : t \in UnderWay' \/ t = c.tx
      BY <2>1, EndsUnderWay, Zenon
    <2>3. /\ \A t \in Txs \ {c.tx} : track'.info[t].tx = track.info[t].tx
          /\ track'.retry = track.retry
      BY <1>1, <2>1, Added
    <2>4. ~Inserts(c) /\ ~Accepts(c) /\ \A x \in Pending' : x.op # "add"
      BY <2>1, Zenon DEF Inserts, Accepts, Ends, Waits
    <2>5. Due(c.tx) => Voted(c.tx) \/ Conflicting(c.tx)
      BY <2>1, Zenon DEF ChildInv
    <2> QED BY <1>1, <1>3, <2>1, <2>2, <2>3, <2>4, <2>5, ChildrenKept, Zenon
  <1> QED BY <1>4, <1>5, <1>6, <1>7, <1>8, Zenon

LEMMA ChildStore ==
  ASSUME TypeOK, RetryInv, ChildInv, Quiet, Stores
  PROVE  ChildInv'
  <1> DEFINE l == worker.lock
  <1>0. WorkerType /\ track \in Tracks
    BY Zenon DEF TypeOK
  <1>1. /\ Pending' = Pending /\ UnderWay' = UnderWay /\ ghost.overtaken \subseteq ghost'.overtaken
        /\ \A t \in Txs : track'.info[t].tx => track.info[t].tx
    BY QuietFacts, Zenon
  <1>2. /\ worker.pc = "store" /\ worker'.retry = worker.retry /\ votes' = votes /\ pool' = pool
        /\ db'.islocks = db.islocks \cup {l}
        /\ \A u \in UnderWay : u = l \/ Conflict(u, l) \/ l \in Parents(u) => u \in ghost'.overtaken
        /\ \A u \in pool : l \in Parents(u) => u \in ghost'.overtaken \/ u \in track'.retry
    BY <1>0, Zenon DEF Stores, WorkerType, At
  <1>3. track.retry \subseteq track'.retry
    BY Zenon DEF Stores, RemoveNonLockedTx, RemoveNonLockedTxs
  <1>4. \A t : (Voted(t) => Voted(t)') /\ ~Conflicting(t)
    BY <1>2, Zenon DEF Voted, Conflicting, At
  <1>5. \A t : Due(t)' => Due(t) \/ (l \in Parents(t) /\ t \in track'.retry /\ t \notin UnderWay)
    <2>1. TAKE t
    <2>2. CASE l \in Parents(t)
      BY <1>2, <2>2, Zenon DEF Due
    <2>3. CASE l \notin Parents(t)
      BY <1>1, <1>2, <2>3, Zenon DEF Due
    <2> QED BY <2>2, <2>3, Zenon
  <1>6. ASSUME NEW t \in Txs, Due(t)', track'.info[t].tx
        PROVE  t \in UnderWay' \/ Voted(t)' \/ Conflicting(t)' \/ t \in track'.retry \/ t \in worker'.retry
    BY <1>1, <1>2, <1>3, <1>4, <1>5, <1>6, Zenon DEF ChildInv
  <1>7. ASSUME NEW c \in Pending, c.op = "add", Due(c.tx)' PROVE Voted(c.tx)'
    <2>1. c.tx \in UnderWay
      BY <1>7, Zenon DEF UnderWay
    <2>2. PICK u : u = c.tx
      OBVIOUS
    <2>3. Due(u)
      BY <1>5, <1>7, <2>1, <2>2, Zenon
    <2> QED BY <1>4, <1>7, <2>2, <2>3, Zenon DEF ChildInv
  <1> QED BY <1>1, <1>6, <1>7, Zenon DEF ChildInv

LEMMA ChildQuiet ==
  ASSUME TypeOK, RetryInv, TrackingExact, PoolFollowsLocks, ChildInv, Quiet, ~Stores
  PROVE  ChildInv'
  <1>0. WorkerType /\ track \in Tracks
    BY Zenon DEF TypeOK
  <1>1. /\ Pending' = Pending /\ UnderWay' = UnderWay /\ ghost.overtaken \subseteq ghost'.overtaken
        /\ pool' \subseteq pool /\ db'.islocks \subseteq db.islocks
        /\ \A t \in Txs : track'.info[t].tx => track.info[t].tx
    BY QuietFacts, Zenon
  <1>2. \A t : Due(t)' => Due(t)
    BY <1>1, Zenon DEF Due
  \* It is enough to follow one transaction.
  <1>3. ASSUME \A t \in Txs : Voted(t) => Voted(t)',
               \A t \in Txs : Due(t)' /\ Conflicting(t) => Conflicting(t)',
               \A t \in Txs : Due(t)' /\ track'.info[t].tx /\ t \in track.retry \cup worker.retry =>
                 t \in UnderWay \/ Voted(t)' \/ t \in track'.retry \/ t \in worker'.retry
        PROVE  ChildInv'
    <2>1. ASSUME NEW t \in Txs, Due(t)', track'.info[t].tx
          PROVE  t \in UnderWay' \/ Voted(t)' \/ Conflicting(t)' \/ t \in track'.retry \/ t \in worker'.retry
      BY <1>1, <1>2, <1>3, <2>1, Zenon DEF ChildInv
    <2>2. \A c \in Pending : c.tx \in Txs
      <3>1. calls.now \in Seq(Entry) /\ calls.freed \in Seq(Entry) /\ calls.late \in Seq(Entry)
        BY Zenon DEF TypeOK, Calls
      <3>2. \A c \in Pending : c \in Entry
        BY <3>1 DEF Pending, Range
      <3> QED BY <3>2, Zenon DEF Entry
    <2>3. ASSUME NEW c \in Pending, c.op = "add", Due(c.tx)' PROVE Voted(c.tx)' \/ Conflicting(c.tx)'
      <3>1. PICK u \in Txs : u = c.tx
        BY <2>2, Zenon
      <3>2. Voted(u) \/ Conflicting(u)
        BY <1>2, <2>3, <3>1, Zenon DEF ChildInv
      <3> QED BY <1>3, <2>3, <3>1, <3>2, Zenon
    <2> QED BY <1>1, <2>1, <2>3, Zenon DEF ChildInv
  <1>4. CASE Idles
    <2>1. \A t : Voted(t) => Voted(t)'
      BY <1>4, Zenon DEF Idles, Voted
    <2>2. \A t : Conflicting(t) => Conflicting(t)'
      BY <1>4, Zenon DEF Idles, Conflicting, At
    <2>3. \A t : t \in track.retry \cup worker.retry => t \in track'.retry \/ t \in worker'.retry
      BY <1>4, Zenon DEF Idles
    <2> QED BY <1>3, <2>1, <2>2, <2>3, Zenon
  <1>5. CASE RemoveMempoolConflictsForLock
    <2>1. votes' = votes /\ track' = track /\ worker'.retry = worker.retry
      BY <1>0, <1>5, Zenon DEF RemoveMempoolConflictsForLock, WorkerType
    <2>2. \A t \in pool' : t \in pool /\ ~Conflict(t, worker.lock)
      BY <1>5, Zenon DEF RemoveMempoolConflictsForLock, WithDescendants
    <2>3. \A t : Due(t)' => ~Conflicting(t)
      <3>1. \A t : Conflict(worker.lock, t) => Conflict(t, worker.lock)
        BY Zenon DEF Conflict
      <3> QED BY <2>2, <3>1, Zenon DEF Due, Conflicting
    <2>4. \A t : Voted(t) => Voted(t)'
      BY <2>1, Zenon DEF Voted
    <2> QED BY <1>3, <2>1, <2>3, <2>4, Zenon
  <1>6. CASE ProcessPendingRetryLockTxs
    <2>1. votes' = votes /\ ~At("mempool") /\ ~At("retry") /\ worker' = Retrying(track.retry)
      BY <1>6, Zenon DEF ProcessPendingRetryLockTxs, At
    <2>2. worker.retry = {} /\ worker'.retry = track.retry
      BY <2>1, Zenon DEF RetryInv, Retrying, Resting
    <2>3. \A t : (Voted(t) => Voted(t)') /\ ~Conflicting(t)
      BY <2>1, Zenon DEF Voted, Conflicting
    <2> QED BY <1>3, <2>2, <2>3, Zenon
  <1>7. ASSUME NEW u \in Txs, RetryTx(u) PROVE ChildInv'
    <2>1. /\ ~At("mempool") /\ worker' = Retrying(worker.retry \ {u}) /\ track' = track /\ db' = db
          /\ votes' = IF track.info[u].tx /\ ~IsLocked(u) THEN ProcessTx(u) ELSE votes
      BY <1>7, Zenon DEF RetryTx, At
    <2>2. worker'.retry = worker.retry \ {u}
      BY <2>1, Zenon DEF Retrying, Resting
    <2>3. \A t \in Txs : Voted(t) => Voted(t)'
      <3>1. CASE votes' = votes
        BY <3>1, Zenon DEF Voted
      <3>2. CASE votes' = ProcessTx(u)
        BY <3>2, VotesKept, Zenon
      <3> QED BY <2>1, <3>1, <3>2, Zenon
    <2>4. \A t : ~Conflicting(t)
      BY <2>1, Zenon DEF Conflicting
    <2>5. ASSUME Due(u), track.info[u].tx, u \notin UnderWay PROVE Voted(u)'
      <3>1. u \in pool /\ u \notin ghost.overtaken /\ Parents(u) \subseteq db.islocks \cup Funding
        BY <2>5, Zenon DEF Due
      <3>2. ~IsLocked(u)
        BY <2>5, <3>1, Zenon DEF TrackingExact
      <3>3. ConflictingLocks(u) = {}
        BY <2>1, <3>1, Zenon DEF PoolFollowsLocks
      <3> QED BY <2>1, <2>5, <3>1, <3>2, <3>3, DueVoted, Zenon
    <2> QED BY <1>2, <1>3, <2>1, <2>2, <2>3, <2>4, <2>5, Zenon
  <1> QED BY <1>4, <1>5, <1>6, <1>7, QuietWorker, Zenon

LEMMA ChildStep ==
  ASSUME TypeOK, QueueOK, RetryInv, TrackingExact, PoolFollowsLocks, ChildInv, [Next]_vars
  PROVE  ChildInv'
  <1>0. GhostType /\ WorkerType
    BY Zenon DEF TypeOK, GhostType
  <1>1. CASE Section
    <2>1. CASE \E c \in Pending : /\ c \in Entry /\ EntryOK(c)
                                  /\ \/ Inserts(c) \/ Accepts(c) \/ Refuses(c) \/ Forgets(c)
                                     \/ Reads(c) \/ Processes(c) \/ Adds(c) \/ Removes(c)
      BY <2>1, ChildSection, Zenon
    <2>2. CASE DisconnectTip
      <3>1. /\ UnderWay = {} /\ UNCHANGED <<pool, db, track, votes, worker, ghost>>
            /\ \A c \in Pending' : c.op \in {"resurrect", "sync"}
        BY <2>2, Disconnected, Zenon
      <3>2. \A t : Due(t)' => Due(t)
        BY <3>1, Zenon DEF Due
      <3> QED BY <3>1, <3>2, ChildrenKept, Zenon
    <2>3. ASSUME NEW b \in Blocks, ConnectTip(b) PROVE ChildInv'
      <3>1. CASE Pending' = Pending /\ UNCHANGED <<pool, db, track, votes, worker, ghost>>
        <4>1. \A t : /\ Due(t)' <=> Due(t)
                     /\ Voted(t)' <=> Voted(t)
                     /\ Conflicting(t)' <=> Conflicting(t)
          BY <3>1, Zenon DEF Due, Voted, Conflicting, At
        <4>2. UnderWay' = UnderWay
          BY <3>1, Zenon DEF UnderWay
        <4> QED BY <3>1, <4>1, <4>2, Zenon DEF ChildInv
      <3>2. CASE Connects(b)
        <4>1. /\ track' = track /\ worker' = worker /\ votes' = votes
              /\ pool' \subseteq pool /\ pool' \cap TxsOf(b) = {}
              /\ ghost'.overtaken = ghost.overtaken \ TxsOf(b)
          BY <3>2, Zenon DEF Connects
        <4>2. \A t \in UnderWay : t \in UnderWay'
          BY <3>2, ConnectsUnderWay, Zenon
        <4>3. db'.islocks \subseteq db.islocks
          BY <3>2, Unchained, Zenon DEF Connects
        <4>4. \A t : Due(t)' => Due(t)
          BY <4>1, <4>3, Zenon DEF Due
        <4>5. \A c \in Pending' : c.op = "sync"
          <5>1. \A t : SyncTransaction(t, b, TRUE).op = "sync"
            BY Zenon DEF SyncTransaction
          <5> QED BY <3>2, <5>1, Zenon DEF Connects
        <4> QED BY <4>1, <4>2, <4>4, <4>5, ChildrenKept, Zenon
      <3> QED BY <2>3, <3>1, <3>2, Connected, Zenon
    <2> QED BY <1>1, <2>1, <2>2, <2>3, SectionForms, Zenon
  <1>2. ASSUME NEW u \in Txs, AcceptToMemoryPool(u) PROVE ChildInv'
    <2>1. /\ UnderWay = {} /\ u \in UnderWay' /\ UNCHANGED <<pool, db, track, votes, worker>>
          /\ ghost' = [ghost EXCEPT !.overtaken = @ \ {u}]
          /\ \A c : c \in Pending' <=> c = Op("insert", u)
      BY <1>2, AcceptPending, Zenon
    <2>2. ghost'.overtaken = ghost.overtaken \ {u}
      BY <1>0, <2>1, Zenon DEF GhostType
    <2>3. \A t : Due(t)' => t = u \/ Due(t)
      BY <2>1, <2>2, Zenon DEF Due
    <2>4. \A c \in Pending' : c.op # "add"
      BY <2>1 DEF Op
    <2> QED BY <2>1, <2>3, <2>4, ChildrenKept, Zenon
  <1>3. CASE Begins
    <2>1. UnderWay = {} /\ Pending' = {} /\ UNCHANGED <<pool, db, track, votes, ghost>>
      BY <1>3, FreshSection, Zenon DEF Begins
    <2>2. \A t : Due(t)' => Due(t)
      BY <2>1, Zenon DEF Due
    <2>3. CASE worker' = worker
      BY <2>1, <2>2, <2>3, ChildrenKept, Zenon
    <2>4. CASE InvalidateConflictingBlock /\ worker' = [worker EXCEPT !.pc = "activate"]
      <3>1. worker'.retry = worker.retry /\ worker.pc = "invalidate"
        BY <1>0, <2>4, Zenon DEF InvalidateConflictingBlock, WorkerType, At
      <3>2. \A t : (Voted(t) => Voted(t)') /\ ~Conflicting(t)
        BY <2>1, <3>1, Zenon DEF Voted, Conflicting, At
      <3> QED BY <2>1, <2>2, <3>1, <3>2, Zenon DEF ChildInv
    <2> QED BY <1>3, <2>3, <2>4, Zenon DEF Begins
  <1>4. ASSUME NEW b \in Blocks, Restart(b) PROVE ChildInv'
    <2>1. pool' = {}
      BY <1>4, Zenon DEF Restart
    <2> QED BY <2>1, Zenon DEF ChildInv, Due
  <1>5. CASE Quiet
    BY <1>5, ChildStore, ChildQuiet, Zenon
  <1> QED BY <1>1, <1>2, <1>3, <1>4, <1>5, StepKinds, Zenon

LEMMA ChildImplies ==
  ASSUME TypeOK, RetryInv, ChildInv
  PROVE  NoForgottenChild
  <1> SUFFICES ASSUME calls = NoCalls, At("idle"), track.retry = {},
                      NEW t \in pool \ ghost.overtaken, track.info[t].tx,
                      Parents(t) \subseteq db.islocks \cup Funding
               PROVE  Voted(t)
    BY Zenon DEF NoForgottenChild, Voted
  <1>1. UnderWay = {} /\ worker.retry = {} /\ ~Conflicting(t)
    BY NothingPending, NothingUnderWay, Zenon DEF RetryInv, At, Conflicting
  <1>2. Due(t) /\ t \in Txs
    BY Zenon DEF Due, TypeOK
  <1> QED BY <1>1, <1>2, Zenon DEF ChildInv

-----------------------------------------------------------------------------
(* The theorems. *)

\* The inductive invariant: what the section of cs_main still has to report is true of the
\* active chain, what is past its checks still passes them unless it was overtaken, and
\* the database, the pool, the index and the votes agree up to what is under way.
IInv ==
  /\ TypeOK /\ QueueOK /\ PoolOK /\ ActiveInv /\ RetryInv
  /\ TrackingExact /\ PoolFollowsLocks /\ MinedInv /\ IndexInv /\ ChildInv

LEMMA InvInit == Init => IInv
  <1> SUFFICES ASSUME Init PROVE IInv
    OBVIOUS
  <1>1. TypeOK /\ QueueOK /\ PoolOK
    BY TypeInit, QueueInit, Zenon
  <1>2. Pending = {}
    BY NothingPending, Zenon DEF Init
  <1>3. /\ pool = {} /\ db.islocks = {} /\ worker.retry = {} /\ track.byInputs = {}
        /\ \A t \in Txs : ~track.info[t].tx
    BY Zenon DEF Init, Resting, Untracked, NoInfo, Ids
  <1>4. ActiveInv /\ RetryInv /\ TrackingExact
    BY <1>2, <1>3, Zenon DEF ActiveInv, RetryInv, TrackingExact
  <1>5. PoolFollowsLocks /\ MinedInv /\ IndexInv /\ ChildInv
    BY <1>2, <1>3, Zenon DEF PoolFollowsLocks, MinedInv, IndexInv, Indexed, ChildInv, Due
  <1> QED BY <1>1, <1>4, <1>5, Zenon DEF IInv

LEMMA InvStep == IInv /\ [Next]_vars => IInv'
  <1> SUFFICES ASSUME IInv, [Next]_vars PROVE IInv'
    OBVIOUS
  <1>1. /\ TypeOK /\ QueueOK /\ PoolOK /\ ActiveInv /\ RetryInv
        /\ TrackingExact /\ PoolFollowsLocks /\ MinedInv /\ IndexInv /\ ChildInv
    BY Zenon DEF IInv
  <1>2. TypeOK' /\ QueueOK' /\ PoolOK'
    BY <1>1, TypeStep, QueueStep, Zenon
  <1>3. ActiveInv' /\ RetryInv' /\ TrackingExact'
    BY <1>1, ActiveStep, RetryStep, TrackingStep, Zenon
  <1>4. PoolFollowsLocks' /\ MinedInv'
    BY <1>1, PoolStep, MinedInvStep, Zenon
  <1>5. IndexInv' /\ ChildInv'
    BY <1>1, IndexStep, ChildStep, Zenon
  <1> QED BY <1>2, <1>3, <1>4, <1>5, Zenon DEF IInv

LEMMA InvImplies ==
  IInv => /\ MinedHeightsExact /\ PoolFollowsLocks /\ IndexedConflictsResolved
          /\ TrackingExact /\ NoForgottenChild
  BY MinedInvImplies, IndexImplies, ChildImplies, Zenon DEF IInv

LEMMA InvAlways == Spec => []IInv
  BY InvInit, InvStep, PTL DEF Spec

\* WriteInstantSendLockMined and RemoveInstantSendLockMined: the database has the height at
\* which every locked transaction is mined, whatever order the lock, the blocks and their
\* disconnections come in.
THEOREM MinedHeightsAlwaysExact == Spec => []MinedHeightsExact
  BY InvAlways, InvImplies, PTL

\* AcceptToMemoryPoolWorker and RemoveMempoolConflictsForLock: no transaction stays in the
\* pool with an islock that conflicts with it, once the worker has handled the islock.
THEOREM PoolAlwaysFollowsLocks == Spec => []PoolFollowsLocks
  BY InvAlways, InvImplies, PTL

\* ResolveBlockConflicts: a block of the active chain that holds a conflict of an islock,
\* as nonLockedTxsByInputs shows it, is being invalidated or the islock given up.
THEOREM IndexedConflictsAlwaysResolved == Spec => []IndexedConflictsResolved
  BY InvAlways, InvImplies, PTL

\* SyncTransaction: what nonLockedTxs tracks is not locked, and is mined in the block of
\* the active chain that pindexMined says.
THEOREM TrackingAlwaysExact == Spec => []TrackingExact
  BY InvAlways, InvImplies, PTL

\* ProcessInstantSendLock and ProcessPendingRetryLockTxs: when the worker rests, it has
\* voted for every transaction of the pool whose parents are all locked, or for another
\* one that spends an input of it.
THEOREM NoChildForgotten == Spec => []NoForgottenChild
  BY InvAlways, InvImplies, PTL
=============================================================================
