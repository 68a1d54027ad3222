-------------------------- MODULE SharedLogProofs ---------------------------
(***************************************************************************)
(* Proofs about SharedLog: for any number of processes of either kind, any *)
(* clocks and any bounds.                                                  *)
(***************************************************************************)
EXTENDS SharedLog, BlocksProofs

\* The block a process builds is a block, and carries what its place calls for.
LEMMA BlockOfFacts ==
    ASSUME TypeOK, NEW p \in Processes, NEW time \in Nat
    PROVE  BlockOf(p, time) \in Block /\ Shaped(BlockOf(p, time))
  <1>1. /\ <<Coinbase>> \in TxLists /\ <<SignedTx>> \in TxLists
        /\ <<>> \in Seq(Block) /\ blocks[p] \in Seq(Block)
    <2>1. <<>> \in Seq(Block) /\ blocks[p] \in Seq(Block)
      BY DEF TypeOK
    <2> QED BY <2>1, SharedLogAssumption, Zenon
  <1>2. CASE blocks[p] = <<>>
    <2>1. BlockOf(p, time) = build_block_from_transactions(<<>>, <<Coinbase>>, time)
      BY <1>2 DEF BlockOf, make_genesis_block
    <2>2. BlockOf(p, time) \in Block
      BY <1>1, <2>1, BuiltType, Zenon
    <2>3. /\ BlockOf(p, time).transactions = <<Coinbase>>
          /\ BlockOf(p, time).header.prev_hash = ZeroHash
      BY <2>1 DEF build_block_from_transactions, TipHash
    <2> QED BY <2>2, <2>3 DEF Shaped
  <1>3. CASE blocks[p] # <<>>
    <2>1. BlockOf(p, time) = build_block_from_transactions(blocks[p], <<SignedTx>>, time)
      BY <1>3 DEF BlockOf
    <2>2. BlockOf(p, time) \in Block
      BY <1>1, <2>1, BuiltType, Zenon
    <2>3. /\ BlockOf(p, time).transactions = <<SignedTx>>
          /\ BlockOf(p, time).header.prev_hash = hash(blocks[p][Len(blocks[p])].header)
      BY <1>3, <2>1 DEF build_block_from_transactions, TipHash
    <2>4. hash(blocks[p][Len(blocks[p])].header) # ZeroHash
      <3>1. blocks[p][Len(blocks[p])] \in Block
        BY <1>1, <1>3
      <3> DEFINE tip == blocks[p][Len(blocks[p])]
      <3> HIDE DEF tip
      <3>2. /\ hash(tip.header) = Append(tip.header.prev_hash, LinkOf(tip))
            /\ tip.header.prev_hash \in Seq(Link) /\ LinkOf(tip) \in Link
        BY <3>1, BlockFields DEF tip
      <3>3. hash(tip.header) # <<>>
        BY <3>2
      <3> QED BY <3>3 DEF tip, ZeroHash
    <2> QED BY <2>2, <2>3, <2>4 DEF Shaped
  <1> QED BY <1>2, <1>3

\* Two sound chains of shaped blocks with the same tip hash are the same chain.
LEMMA SameTip ==
    ASSUME NEW s \in Seq(Block), NEW t \in Seq(Block), ChainOK(s), ChainOK(t),
           \A i \in DOMAIN s : Shaped(s[i]), \A i \in DOMAIN t : Shaped(t[i]),
           TipHash(s) = TipHash(t)
    PROVE  s = t
  <1>1. Len(s) = Len(t) /\ \A i \in 1 .. Len(s) : s[i].header = t[i].header
    BY SameTipHeaders DEF ChainOK
  <1>2. ASSUME NEW i \in 1 .. Len(s) PROVE s[i] = t[i]
    <2>1. /\ s[i] \in Block /\ t[i] \in Block /\ s[i].header = t[i].header
          /\ Shaped(s[i]) /\ Shaped(t[i])
      BY <1>1
    <2>2. s[i].transactions = t[i].transactions
      BY <2>1 DEF Shaped
    <2> DEFINE a == s[i]
               b == t[i]
    <2>3. /\ a \in Block /\ b \in Block
          /\ a.header = b.header /\ a.transactions = b.transactions
      BY <2>1, <2>2
    <2> HIDE DEF a, b
    <2>4. a = b
      BY <2>3 DEF Block
    <2> QED BY <2>4 DEF a, b
  <1> QED BY <1>1, <1>2

\* A block valid on top of two such chains tells them to be one.
LEMMA SameParent ==
    ASSUME NEW s \in Seq(Block), NEW t \in Seq(Block), ChainOK(s), ChainOK(t),
           \A i \in DOMAIN s : Shaped(s[i]), \A i \in DOMAIN t : Shaped(t[i]),
           NEW b, validate_block(s, 0, b) = "None", validate_block(t, 0, b) = "None"
    PROVE  s = t
  <1>1. TipHash(s) = TipHash(t)
    BY ValidBlock
  <1> QED BY <1>1, SameTip

\* The last block of a chain that was built is shaped.
LEMMA RecordsShaped ==
    ASSUME built \subseteq Seq(Block), BuiltSound, NEW file \in Seq(Block),
           \A i \in DOMAIN file : EndsAChain(file[i])
    PROVE  \A i \in DOMAIN file : Shaped(file[i])
  <1>1. ASSUME NEW i \in DOMAIN file PROVE Shaped(file[i])
    <2>1. PICK e \in built : e # <<>> /\ file[i] = e[Len(e)]
      BY DEF EndsAChain
    <2>2. e \in Seq(Block) /\ Len(e) \in DOMAIN e
      BY <2>1
    <2> QED BY <2>1, <2>2 DEF BuiltSound
  <1> QED BY <1>1

\* Any chain restored from records is one of the chains that were built: the last
\* block restored ends such a chain, and its hash leaves no other.
LEMMA RestoredIsBuilt ==
    ASSUME built \subseteq Seq(Block), BuiltSound, NEW file \in Seq(Block),
           \A i \in DOMAIN file : EndsAChain(file[i])
    PROVE  OnRecord(file) \in built
  <1>1. PICK n \in 0 .. Len(file) : OnRecord(file) = SubSeq(file, 1, n)
    BY RestoreFacts DEF OnRecord
  <1> DEFINE chain == SubSeq(file, 1, n)
  <1>2. chain \in Seq(Block) /\ Len(chain) = n /\ \A i \in 1 .. n : chain[i] = file[i]
    OBVIOUS
  <1>3. ChainOK(chain)
    BY <1>1, RestoredChainOK DEF OnRecord
  <1> HIDE DEF chain
  <1>4. CASE n = 0
    <2>1. chain = <<>>
      BY <1>2, <1>4
    <2> QED BY <1>1, <2>1 DEF BuiltSound, chain
  <1>5. CASE n # 0
    <2>1. n \in DOMAIN file
      BY <1>5
    <2>2. PICK c \in built : c # <<>> /\ file[n] = c[Len(c)]
      BY <2>1 DEF EndsAChain
    <2>3. c \in Seq(Block) /\ ChainOK(c) /\ \A i \in DOMAIN c : Shaped(c[i])
      BY DEF BuiltSound, Sound
    <2>4. \A i \in DOMAIN file : Shaped(file[i])
      BY RecordsShaped
    <2>5. \A i \in DOMAIN chain : Shaped(chain[i])
      BY <1>2, <2>4
    <2>6. TipHash(chain) = TipHash(c)
      <3>1. chain # <<>> /\ chain[Len(chain)] = c[Len(c)]
        BY <1>2, <1>5, <2>2
      <3> QED BY <2>2, <3>1 DEF TipHash
    <2>7. chain = c
      BY <1>2, <1>3, <2>3, <2>5, <2>6, SameTip
    <2> QED BY <1>1, <2>7 DEF chain
  <1> QED BY <1>4, <1>5

-----------------------------------------------------------------------------
\* The step of a write, in terms of the block that is written.
LEMMA WriteEffect ==
    ASSUME IndInv, NEW p \in Processes, Write(p)
    PROVE  \E b \in Block :
              /\ Shaped(b) /\ validate_block(blocks[p], 0, b) = "None"
              /\ pc[p] = "write" /\ log' = Append(log, b)
              /\ blocks[p] \o pending[p] = Append(blocks[p], b)
              /\ built' = built \cup {Append(blocks[p], b)}
              /\ forked' = (forked \/ blocks[p] # log)
  <1>1. pc[p] = "write" /\ pending[p] \in Seq(Block) /\ Len(pending[p]) = 1
        /\ blocks[p] \in Seq(Block)
    BY DEF IndInv, TypeOK, Write, Written
  <1>2. pending[p][1] \in Block
    BY <1>1
  <1>3. blocks[p] \o pending[p] = Append(blocks[p], pending[p][1])
    BY <1>1, ConcatOne
  <1>4. Shaped(pending[p][1]) /\ validate_block(blocks[p], 0, pending[p][1]) = "None"
    BY <1>1 DEF IndInv, PendingValid
  <1>5. /\ log' = Append(log, pending[p][1])
        /\ built' = built \cup {blocks[p] \o pending[p]}
        /\ forked' = (forked \/ blocks[p] # log)
    BY DEF Write, Written
  <1> QED BY <1>1, <1>2, <1>3, <1>4, <1>5

\* The step of an append, likewise.
LEMMA QueueEffect ==
    ASSUME TypeOK, NEW p \in Processes, TuiAppend(p) \/ DemoAppend(p)
    PROVE  \E b \in Block :
              /\ Shaped(b) /\ validate_block(blocks[p], 0, b) = "None"
              /\ pc' = [pc EXCEPT ![p] = "write"]
              /\ pending' = [pending EXCEPT ![p] = <<b>>]
              /\ UNCHANGED <<log, got, next, blocks, built, forked>>
  <1>1. PICK time \in Nat : Validate(p, time)
    <2>1. CASE TuiAppend(p)
      BY <2>1, SharedLogAssumption DEF TuiAppend
    <2>2. CASE DemoAppend(p)
      <3>1. DemoTime(p) \in Nat
        BY SharedLogAssumption DEF DemoTime, TypeOK
      <3> QED BY <2>2, <3>1 DEF DemoAppend
    <2> QED BY <2>1, <2>2
  <1>2. BlockOf(p, time) \in Block /\ Shaped(BlockOf(p, time))
    BY BlockOfFacts
  <1> QED BY <1>1, <1>2 DEF Validate, Queue

\* A process moves on, with or without a block to write.
LEMMA MoveType ==
    ASSUME TypeOK, NEW p \in Processes, NEW s \in Seq(Block),
           NEW c \in {"down", "reading", "idle", "write"},
           Len(s) = IF c = "write" THEN 1 ELSE 0,
           pc' = [pc EXCEPT ![p] = c], pending' = [pending EXCEPT ![p] = s]
    PROVE  /\ pc' \in [Processes -> {"down", "reading", "idle", "write"}]
           /\ pending' \in [Processes -> Seq(Block)]
           /\ \A q \in Processes : Len(pending'[q]) = IF pc'[q] = "write" THEN 1 ELSE 0
  <1>1. /\ pc' \in [Processes -> {"down", "reading", "idle", "write"}]
        /\ pending' \in [Processes -> Seq(Block)]
    BY DEF TypeOK
  <1>2. ASSUME NEW q \in Processes
        PROVE  Len(pending'[q]) = IF pc'[q] = "write" THEN 1 ELSE 0
    <2>1. CASE q = p
      <3>1. pc'[q] = c /\ pending'[q] = s
        BY <2>1 DEF TypeOK
      <3> QED BY <3>1
    <2>2. CASE q # p
      <3>1. pc'[q] = pc[q] /\ pending'[q] = pending[q]
        BY <2>2 DEF TypeOK
      <3> QED BY <3>1 DEF TypeOK
    <2> QED BY <2>1, <2>2
  <1> QED BY <1>1, <1>2

\* Every step keeps the types.
LEMMA TypeStep == IndInv /\ [Next]_vars => TypeOK'
  <1> SUFFICES ASSUME IndInv, [Next]_vars PROVE TypeOK'
    OBVIOUS
  <1>0. TypeOK /\ <<>> \in Seq(Block) /\ Len(<<>>) = 0
    BY DEF IndInv
  <1>1. ASSUME NEW p \in Processes, Open(p) PROVE TypeOK'
    BY <1>0, <1>1 DEF Open, TypeOK
  <1>2. ASSUME NEW p \in Processes, ReadRecord(p) PROVE TypeOK'
    <2>1. PICK i \in DOMAIN log : /\ got' = [got EXCEPT ![p] = Append(got[p], log[i])]
                                 /\ next' = [next EXCEPT ![p] = i + 1]
      BY <1>2 DEF ReadRecord
    <2>2. log[i] \in Block /\ i + 1 \in Nat /\ got[p] \in Seq(Block)
      BY <1>0 DEF TypeOK
    <2>3. Append(got[p], log[i]) \in Seq(Block)
      BY <2>2
    <2>4. got' \in [Processes -> Seq(Block)] /\ next' \in [Processes -> Nat]
      BY <1>0, <2>1, <2>2, <2>3 DEF TypeOK
    <2> QED BY <1>0, <1>2, <2>4 DEF ReadRecord, TypeOK
  <1>3. ASSUME NEW p \in Processes, ReadEnd(p) PROVE TypeOK'
    <2>1. OnRecord(got[p]) \in Seq(Block)
      BY <1>0, RestoredChainOK DEF OnRecord, TypeOK
    <2> QED BY <1>0, <1>3, <2>1 DEF ReadEnd, TypeOK
  <1>4. ASSUME NEW p \in Processes, TuiAppend(p) \/ DemoAppend(p) PROVE TypeOK'
    <2>1. PICK b \in Block :
              /\ pc' = [pc EXCEPT ![p] = "write"]
              /\ pending' = [pending EXCEPT ![p] = <<b>>]
              /\ UNCHANGED <<log, got, next, blocks, built, forked>>
      BY <1>0, <1>4, QueueEffect
    <2>2. <<b>> \in Seq(Block) /\ Len(<<b>>) = IF "write" = "write" THEN 1 ELSE 0
      OBVIOUS
    <2>3. /\ pc' \in [Processes -> {"down", "reading", "idle", "write"}]
          /\ pending' \in [Processes -> Seq(Block)]
          /\ \A q \in Processes : Len(pending'[q]) = IF pc'[q] = "write" THEN 1 ELSE 0
      BY <1>0, <2>1, <2>2, MoveType
    <2> QED BY <1>0, <2>1, <2>3 DEF TypeOK
  <1>5. ASSUME NEW p \in Processes, Write(p) PROVE TypeOK'
    <2>1. PICK b \in Block :
              /\ log' = Append(log, b)
              /\ blocks[p] \o pending[p] = Append(blocks[p], b)
              /\ built' = built \cup {Append(blocks[p], b)}
              /\ forked' = (forked \/ blocks[p] # log)
      BY <1>5, WriteEffect
    <2>2. Append(log, b) \in Seq(Block) /\ Append(blocks[p], b) \in Seq(Block)
      BY <1>0 DEF TypeOK
    <2>3. log' \in Seq(Block) /\ built' \subseteq Seq(Block)
      BY <1>0, <2>1, <2>2 DEF TypeOK
    <2>4. forked' \in BOOLEAN
      BY <1>0, <2>1, Zenon DEF TypeOK
    <2>5. blocks' = [blocks EXCEPT ![p] = IF p \in Stores THEN <<>>
                                          ELSE Append(blocks[p], b)]
      BY <1>5, <2>1 DEF Write, Written
    <2>6. blocks' \in [Processes -> Seq(Block)]
      BY <1>0, <2>2, <2>5 DEF TypeOK
    <2>7. /\ pc' \in [Processes -> {"down", "reading", "idle", "write"}]
          /\ pending' \in [Processes -> Seq(Block)]
          /\ \A q \in Processes : Len(pending'[q]) = IF pc'[q] = "write" THEN 1 ELSE 0
      <3> DEFINE c == IF p \in Stores THEN "down" ELSE "idle"
      <3>1. c \in {"down", "reading", "idle", "write"} /\ c # "write"
        OBVIOUS
      <3>2. pc' = [pc EXCEPT ![p] = c] /\ pending' = [pending EXCEPT ![p] = <<>>]
        BY <1>5 DEF Write, Written
      <3> HIDE DEF c
      <3>3. Len(<<>>) = IF c = "write" THEN 1 ELSE 0
        BY <3>1, <1>0
      <3> QED BY <1>0, <3>1, <3>2, <3>3, MoveType
    <2>8. got' = got /\ next' = next
      BY <1>5 DEF Write, Written
    <2> QED BY <1>0, <2>3, <2>4, <2>6, <2>7, <2>8 DEF TypeOK
  <1>6. ASSUME NEW p \in Processes, Clear(p) PROVE TypeOK'
    <2>1. next' \in [Processes -> Nat]
      BY <1>6 DEF Clear
    <2>2. blocks' \in [Processes -> Seq(Block)]
      BY <1>0, <1>6 DEF Clear, TypeOK
    <2> QED BY <1>0, <1>6, <2>1, <2>2 DEF Clear, TypeOK
  <1>7. ASSUME NEW p \in Processes, End(p) PROVE TypeOK'
    <2>1. Len(<<>>) = IF "down" = "write" THEN 1 ELSE 0
      BY <1>0
    <2>2. /\ pc' \in [Processes -> {"down", "reading", "idle", "write"}]
          /\ pending' \in [Processes -> Seq(Block)]
          /\ \A q \in Processes : Len(pending'[q]) = IF pc'[q] = "write" THEN 1 ELSE 0
      BY <1>0, <1>7, <2>1, MoveType DEF End
    <2>3. /\ got' \in [Processes -> Seq(Block)] /\ next' \in [Processes -> Nat]
          /\ blocks' \in [Processes -> Seq(Block)]
      BY <1>0, <1>7 DEF End, TypeOK
    <2> QED BY <1>0, <1>7, <2>2, <2>3 DEF End, TypeOK
  <1>8. CASE UNCHANGED vars
    BY <1>0, <1>8 DEF vars, TypeOK
  <1> QED BY <1>1, <1>2, <1>3, <1>4, <1>5, <1>6, <1>7, <1>8 DEF Next

-----------------------------------------------------------------------------
\* A process does not touch another one's chain or block.
LEMMA Others ==
    ASSUME TypeOK, NEW p \in Processes, NEW q \in Processes, q # p,
           \/ Open(p) \/ ReadRecord(p) \/ ReadEnd(p)
           \/ TuiAppend(p) \/ DemoAppend(p) \/ Write(p) \/ Clear(p) \/ End(p)
    PROVE  pc'[q] = pc[q] /\ blocks'[q] = blocks[q] /\ pending'[q] = pending[q]
  <1>1. CASE Open(p) \/ ReadRecord(p) \/ ReadEnd(p)
    BY <1>1 DEF Open, ReadRecord, ReadEnd, TypeOK
  <1>2. CASE TuiAppend(p) \/ DemoAppend(p)
    BY <1>2, QueueEffect DEF TypeOK
  <1>3. CASE Write(p)
    BY <1>3 DEF Write, Written, TypeOK
  <1>4. CASE Clear(p) \/ End(p)
    BY <1>4 DEF Clear, End, TypeOK
  <1> QED BY <1>1, <1>2, <1>3, <1>4

\* A block about to be written stays valid on the chain of its writer: nobody else
\* can change that chain.
LEMMA PendingStep == IndInv /\ [Next]_vars => PendingValid'
  <1> SUFFICES ASSUME IndInv, [Next]_vars PROVE PendingValid'
    OBVIOUS
  <1>0. TypeOK /\ PendingValid
    BY DEF IndInv
  <1>1. CASE UNCHANGED vars
    BY <1>0, <1>1 DEF vars, PendingValid
  <1>2. ASSUME NEW p \in Processes,
               \/ Open(p) \/ ReadRecord(p) \/ ReadEnd(p)
               \/ TuiAppend(p) \/ DemoAppend(p) \/ Write(p) \/ Clear(p) \/ End(p)
        PROVE  PendingValid'
    <2>1. pc'[p] = "write" => /\ Shaped(pending'[p][1])
                              /\ validate_block(blocks'[p], 0, pending'[p][1]) = "None"
      <3>1. CASE TuiAppend(p) \/ DemoAppend(p)
        <4>1. PICK b \in Block :
                  /\ Shaped(b) /\ validate_block(blocks[p], 0, b) = "None"
                  /\ pending' = [pending EXCEPT ![p] = <<b>>] /\ blocks' = blocks
          BY <1>0, <3>1, QueueEffect
        <4>2. pending'[p][1] = b /\ blocks'[p] = blocks[p]
          BY <1>0, <4>1 DEF TypeOK
        <4> QED BY <4>1, <4>2
      <3>2. CASE Open(p) \/ ReadRecord(p) \/ ReadEnd(p) \/ Write(p) \/ Clear(p) \/ End(p)
        BY <1>0, <3>2 DEF Open, ReadRecord, ReadEnd, Write, Written, Clear, End, TypeOK
      <3> QED BY <1>2, <3>1, <3>2
    <2>2. ASSUME NEW q \in Processes, pc'[q] = "write", q # p
          PROVE  /\ Shaped(pending'[q][1])
                 /\ validate_block(blocks'[q], 0, pending'[q][1]) = "None"
      BY <1>0, <1>2, <2>2, Others DEF PendingValid
    <2> QED BY <2>1, <2>2 DEF PendingValid
  <1> QED BY <1>1, <1>2 DEF Next

\* The steps that are not a write leave `built` alone.
LEMMA BuiltGrows ==
    ASSUME IndInv, [Next]_vars
    PROVE  /\ built \subseteq built'
           /\ built' = built \/ \E p \in Processes : Write(p)
  <1>1. CASE \E p \in Processes : Write(p)
    BY <1>1, WriteEffect
  <1>2. CASE UNCHANGED vars
    BY <1>2 DEF vars
  <1>3. ASSUME NEW p \in Processes, TuiAppend(p) \/ DemoAppend(p) PROVE built' = built
    BY <1>3, QueueEffect DEF IndInv
  <1>4. ASSUME NEW p \in Processes,
               Open(p) \/ ReadRecord(p) \/ ReadEnd(p) \/ Clear(p) \/ End(p)
        PROVE  built' = built
    BY <1>4 DEF Open, ReadRecord, ReadEnd, Clear, End
  <1> QED BY <1>1, <1>2, <1>3, <1>4 DEF Next

\* The chains that are built stay sound.
LEMMA BuiltStep == IndInv /\ [Next]_vars => BuiltSound'
  <1> SUFFICES ASSUME IndInv, [Next]_vars PROVE BuiltSound'
    OBVIOUS
  <1>1. CASE built' = built
    BY <1>1 DEF IndInv, BuiltSound
  <1>2. ASSUME NEW p \in Processes, Write(p) PROVE BuiltSound'
    <2>1. PICK b \in Block : /\ Shaped(b) /\ validate_block(blocks[p], 0, b) = "None"
                             /\ built' = built \cup {Append(blocks[p], b)}
      BY <1>2, WriteEffect
    <2>2. /\ blocks[p] \in Seq(Block) /\ Sound(blocks[p])
          /\ \A i \in DOMAIN blocks[p] : Shaped(blocks[p][i])
      BY DEF IndInv, TypeOK, NoMixture, BuiltSound
    <2>3. Sound(Append(blocks[p], b))
      BY <2>1, <2>2, SoundAppend
    <2>4. \A i \in DOMAIN Append(blocks[p], b) : Shaped(Append(blocks[p], b)[i])
      <3> DEFINE chain == blocks[p]
      <3>1. chain \in Seq(Block) /\ \A i \in DOMAIN chain : Shaped(chain[i])
        BY <2>2
      <3> HIDE DEF chain
      <3>2. \A i \in DOMAIN Append(chain, b) :
                \/ i \in DOMAIN chain /\ Append(chain, b)[i] = chain[i]
                \/ Append(chain, b)[i] = b
        BY <3>1
      <3>3. \A i \in DOMAIN Append(chain, b) : Shaped(Append(chain, b)[i])
        BY <2>1, <3>1, <3>2
      <3> QED BY <3>3 DEF chain
    <2> QED BY <2>1, <2>3, <2>4 DEF IndInv, BuiltSound
  <1> QED BY <1>1, <1>2, BuiltGrows

\* Every record ends a chain: the one that is written now, and the old ones still.
LEMMA RecordsStep == IndInv /\ [Next]_vars => RecordsBuilt'
  <1> SUFFICES ASSUME IndInv, [Next]_vars PROVE RecordsBuilt'
    OBVIOUS
  <1> DEFINE Ends(b) == \E c \in built' : c # <<>> /\ b = c[Len(c)]
  <1>0. TypeOK /\ RecordsBuilt
    BY DEF IndInv
  <1>1. \A b : EndsAChain(b) => Ends(b)
    BY BuiltGrows DEF EndsAChain
  <1>2. /\ \A i \in DOMAIN log : Ends(log[i])
        /\ \A p \in Processes : \A i \in DOMAIN got[p] : Ends(got[p][i])
    BY <1>0, <1>1 DEF RecordsBuilt
  <1>3. SUFFICES /\ \A i \in DOMAIN log' : Ends(log'[i])
                 /\ \A p \in Processes : \A i \in DOMAIN got'[p] : Ends(got'[p][i])
    BY DEF RecordsBuilt, EndsAChain
  <1>4. ASSUME NEW p \in Processes, Write(p)
        PROVE  got' = got /\ \A i \in DOMAIN log' : Ends(log'[i])
    <2>1. PICK b \in Block : /\ log' = Append(log, b)
                             /\ built' = built \cup {Append(blocks[p], b)}
      BY <1>4, WriteEffect
    <2>2. Ends(b)
      <3> DEFINE c == Append(blocks[p], b)
      <3>1. blocks[p] \in Seq(Block)
        BY <1>0 DEF TypeOK
      <3>2. c # <<>> /\ b = c[Len(c)]
        BY <3>1
      <3>3. c \in built'
        BY <2>1
      <3> QED BY <3>2, <3>3, Zenon
    <2> HIDE DEF Ends
    <2>3. \A i \in DOMAIN log' : \/ i \in DOMAIN log /\ log'[i] = log[i]
                                \/ log'[i] = b
      BY <1>0, <2>1 DEF TypeOK
    <2>4. got' = got
      BY <1>4 DEF Write, Written
    <2> QED BY <1>2, <2>2, <2>3, <2>4
  <1> HIDE DEF Ends
  <1>5. ASSUME NEW p \in Processes, ReadRecord(p)
        PROVE  log' = log /\ \A q \in Processes : \A i \in DOMAIN got'[q] : Ends(got'[q][i])
    <2>1. PICK n \in DOMAIN log : got' = [got EXCEPT ![p] = Append(got[p], log[n])]
      BY <1>5 DEF ReadRecord
    <2> DEFINE g == got[p]
               block == log[n]
    <2>2. g \in Seq(Block) /\ log' = log /\ got' = [got EXCEPT ![p] = Append(g, block)]
      BY <1>0, <1>5, <2>1 DEF ReadRecord, TypeOK
    <2>3. Ends(block) /\ \A i \in DOMAIN g : Ends(g[i])
      BY <1>2
    <2>4. got'[p] = Append(g, block) /\ \A q \in Processes : q # p => got'[q] = got[q]
      BY <1>0, <2>2 DEF TypeOK
    <2> HIDE DEF g, block
    <2>5. \A i \in DOMAIN Append(g, block) :
             \/ i \in DOMAIN g /\ Append(g, block)[i] = g[i]
             \/ Append(g, block)[i] = block
      BY <2>2
    <2> QED BY <1>2, <2>2, <2>3, <2>4, <2>5
  <1>6. ASSUME NEW p \in Processes, ReadEnd(p) \/ End(p)
        PROVE  log' = log /\ \A q \in Processes : \A i \in DOMAIN got'[q] : Ends(got'[q][i])
    <2>1. log' = log /\ got' = [got EXCEPT ![p] = <<>>]
      BY <1>6 DEF ReadEnd, End
    <2>2. got'[p] = <<>> /\ \A q \in Processes : q # p => got'[q] = got[q]
      BY <1>0, <2>1 DEF TypeOK
    <2> QED BY <1>2, <2>1, <2>2
  <1>7. ASSUME NEW p \in Processes, Clear(p) PROVE log' = <<>> /\ got' = got
    BY <1>7 DEF Clear
  <1>8. ASSUME NEW p \in Processes, Open(p) \/ TuiAppend(p) \/ DemoAppend(p)
        PROVE  log' = log /\ got' = got
    BY <1>0, <1>8, QueueEffect DEF Open
  <1>9. CASE UNCHANGED vars
    BY <1>2, <1>9 DEF vars
  <1> QED BY <1>2, <1>4, <1>5, <1>6, <1>7, <1>8, <1>9 DEF Next

\* What every process has in memory was built.
LEMMA MixtureStep == IndInv /\ [Next]_vars => NoMixture'
  <1> SUFFICES ASSUME IndInv, [Next]_vars PROVE NoMixture'
    OBVIOUS
  <1>0. TypeOK /\ NoMixture /\ <<>> \in built /\ built \subseteq built'
    BY BuiltGrows DEF IndInv, BuiltSound
  <1>1. CASE UNCHANGED vars
    BY <1>0, <1>1 DEF vars, NoMixture
  <1>2. ASSUME NEW p \in Processes,
               \/ Open(p) \/ ReadRecord(p) \/ ReadEnd(p)
               \/ TuiAppend(p) \/ DemoAppend(p) \/ Write(p) \/ Clear(p) \/ End(p)
        PROVE  NoMixture'
    <2>1. blocks'[p] \in built'
      <3>1. CASE ReadEnd(p)
        <4>1. blocks'[p] = OnRecord(got[p])
          BY <1>0, <3>1 DEF ReadEnd, TypeOK
        <4>2. OnRecord(got[p]) \in built
          BY RestoredIsBuilt DEF IndInv, TypeOK, RecordsBuilt
        <4> QED BY <1>0, <4>1, <4>2
      <3>2. CASE Write(p)
        <4>1. PICK b \in Block : /\ blocks[p] \o pending[p] = Append(blocks[p], b)
                                 /\ built' = built \cup {Append(blocks[p], b)}
          BY <3>2, WriteEffect
        <4>2. blocks'[p] = IF p \in Stores THEN <<>> ELSE blocks[p] \o pending[p]
          BY <1>0, <3>2 DEF Write, Written, TypeOK
        <4> QED BY <1>0, <4>1, <4>2
      <3>3. CASE Clear(p) \/ End(p)
        BY <1>0, <3>3 DEF Clear, End, TypeOK
      <3>4. CASE Open(p) \/ ReadRecord(p) \/ TuiAppend(p) \/ DemoAppend(p)
        <4>1. blocks' = blocks
          BY <1>0, <3>4, QueueEffect DEF Open, ReadRecord
        <4> QED BY <1>0, <4>1 DEF NoMixture
      <3> QED BY <1>2, <3>1, <3>2, <3>3, <3>4
    <2>2. ASSUME NEW q \in Processes, q # p PROVE blocks'[q] \in built'
      BY <1>0, <1>2, <2>2, Others DEF NoMixture
    <2> QED BY <2>1, <2>2 DEF NoMixture
  <1> QED BY <1>1, <1>2 DEF Next

-----------------------------------------------------------------------------
\* What a write does to the chain of record: it extends it when the writer's memory
\* is the record and the record is all there is in the file, and otherwise nothing.
LEMMA WriteRecord ==
    ASSUME IndInv, NEW p \in Processes, Write(p)
    PROVE  OnRecord(log') = IF blocks[p] = log /\ OnRecord(log) = log
                            THEN log' ELSE OnRecord(log)
  <1>1. PICK b \in Block : /\ validate_block(blocks[p], 0, b) = "None"
                           /\ log' = Append(log, b)
    BY WriteEffect
  <1>2. /\ log \in Seq(Block) /\ blocks[p] \in Seq(Block) /\ built \subseteq Seq(Block)
        /\ BuiltSound /\ \A i \in DOMAIN log : EndsAChain(log[i])
    BY DEF IndInv, TypeOK, RecordsBuilt
  <1>3. OnRecord(log') = IF OnRecord(log) = log /\ validate_block(log, 0, b) = "None"
                         THEN log' ELSE OnRecord(log)
    BY <1>1, <1>2, RestoreAppend DEF OnRecord
  <1>4. CASE OnRecord(log) # log
    BY <1>3, <1>4
  <1>5. CASE OnRecord(log) = log
    <2>1. ChainOK(log)
      BY <1>2, <1>5, RestoredChainOK DEF OnRecord
    <2>2. ChainOK(blocks[p]) /\ \A i \in DOMAIN blocks[p] : Shaped(blocks[p][i])
      BY DEF IndInv, NoMixture, BuiltSound, Sound
    <2>3. \A i \in DOMAIN log : Shaped(log[i])
      BY <1>2, RecordsShaped
    <2>4. validate_block(log, 0, b) = "None" <=> blocks[p] = log
      BY <1>1, <1>2, <2>1, <2>2, <2>3, SameParent
    <2> QED BY <1>3, <1>5, <2>4
  <1> QED BY <1>4, <1>5

\* Every block in the file is restored as long as nobody wrote from another memory.
LEMMA LostStep == IndInv /\ [Next]_vars => LostIffForked'
  <1> SUFFICES ASSUME IndInv, [Next]_vars PROVE LostIffForked'
    OBVIOUS
  <1>0. TypeOK /\ LostIffForked /\ log \in Seq(Block)
    BY DEF IndInv, TypeOK
  <1>1. ASSUME NEW p \in Processes, Write(p) PROVE LostIffForked'
    <2>1. PICK b \in Block : /\ log' = Append(log, b)
                             /\ forked' = (forked \/ blocks[p] # log)
      BY <1>1, WriteEffect
    <2>2. OnRecord(log) # log'
      <3>1. PICK n \in 0 .. Len(log) : OnRecord(log) = SubSeq(log, 1, n)
        BY <1>0, RestoreFacts DEF OnRecord
      <3>2. Len(OnRecord(log)) = n /\ Len(log') = Len(log) + 1
        BY <1>0, <2>1, <3>1
      <3> QED BY <1>0, <3>2
    <2>3. OnRecord(log') = IF blocks[p] = log /\ OnRecord(log) = log
                           THEN log' ELSE OnRecord(log)
      BY <1>1, WriteRecord
    <2> QED BY <1>0, <2>1, <2>2, <2>3 DEF LostIffForked
  <1>2. ASSUME NEW p \in Processes, Clear(p) PROVE LostIffForked'
    <2>1. log' = <<>> /\ forked' = FALSE /\ <<>> \in Seq(Block)
      BY <1>2 DEF Clear
    <2>2. OnRecord(<<>>) = <<>>
      BY <2>1, SoundEmpty, SoundRestore DEF OnRecord
    <2> QED BY <2>1, <2>2 DEF LostIffForked
  <1>3. CASE log' = log /\ forked' = forked
    BY <1>0, <1>3 DEF LostIffForked
  <1>4. ASSUME NEW p \in Processes,
               Open(p) \/ ReadRecord(p) \/ ReadEnd(p) \/ TuiAppend(p) \/ DemoAppend(p) \/ End(p)
        PROVE  log' = log /\ forked' = forked
    BY <1>0, <1>4, QueueEffect DEF Open, ReadRecord, ReadEnd, End
  <1> QED BY <1>1, <1>2, <1>3, <1>4 DEF Next, vars

-----------------------------------------------------------------------------
\* The inductive invariant holds at first.
LEMMA IndInit == Init => IndInv
  <1> SUFFICES ASSUME Init PROVE IndInv
    OBVIOUS
  <1>0. <<>> \in Seq(Block) /\ Len(<<>>) = 0 /\ DOMAIN <<>> = {}
    OBVIOUS
  <1>1. TypeOK
    <2>1. /\ pc \in [Processes -> {"down", "reading", "idle", "write"}]
          /\ next \in [Processes -> Nat]
          /\ \A p \in Processes : pc[p] = "down" /\ pending[p] = <<>>
      BY DEF Init
    <2>2. /\ got \in [Processes -> Seq(Block)] /\ blocks \in [Processes -> Seq(Block)]
          /\ pending \in [Processes -> Seq(Block)]
      BY <1>0, Zenon DEF Init
    <2>3. log \in Seq(Block) /\ forked \in BOOLEAN /\ built \subseteq Seq(Block)
      BY <1>0, Zenon DEF Init
    <2>4. ASSUME NEW p \in Processes
          PROVE  Len(pending[p]) = IF pc[p] = "write" THEN 1 ELSE 0
      BY <1>0, <2>1
    <2> QED BY <2>1, <2>2, <2>3, <2>4 DEF TypeOK
  <1>2. PendingValid /\ NoMixture
    BY DEF Init, PendingValid, NoMixture
  <1>3. BuiltSound
    BY <1>0, SoundEmpty DEF Init, BuiltSound
  <1>4. RecordsBuilt
    BY <1>0 DEF Init, RecordsBuilt
  <1>5. LostIffForked
    <2>1. OnRecord(<<>>) = <<>>
      BY <1>0, SoundEmpty, SoundRestore DEF OnRecord
    <2> QED BY <2>1 DEF Init, LostIffForked
  <1> QED BY <1>1, <1>2, <1>3, <1>4, <1>5 DEF IndInv

\* The inductive invariant about file, memories and the chains that were built.
THEOREM SharedLogInductive == Spec => []IndInv
  <1>1. IndInv /\ [Next]_vars => IndInv'
    BY TypeStep, PendingStep, BuiltStep, RecordsStep, MixtureStep, LostStep DEF IndInv
  <1> QED BY <1>1, IndInit, PTL DEF Spec

\* However load_all_blocks interleaves with the appends and truncations of others,
\* a process starts with a chain that some process built block by block.
THEOREM SharedLogNoMixture == Spec => []NoMixture
  <1>1. IndInv => NoMixture
    BY DEF IndInv
  <1> QED BY <1>1, SharedLogInductive, PTL

\* Blocks are lost exactly after a write from a memory that was not the file.
THEOREM SharedLogLostIffForked == Spec => []LostIffForked
  <1>1. IndInv => LostIffForked
    BY DEF IndInv
  <1> QED BY <1>1, SharedLogInductive, PTL

\* Nothing but a truncation takes a block off the record, and only a writer that has
\* the record in memory adds one to it.
THEOREM SharedLogRecordGrows == Spec => RecordGrowsByItself
  <1> DEFINE Grows ==
         log' \notin {log, <<>>} =>
            /\ IsPrefix(OnRecord(log), OnRecord(log'))
            /\ \A p \in Processes :
                  pc[p] = "write" /\ pc'[p] # "write" /\ blocks[p] # OnRecord(log) =>
                      OnRecord(log') = OnRecord(log)
  <1>1. ASSUME IndInv, [Next]_vars PROVE [Grows]_vars
    <2>0. TypeOK /\ log \in Seq(Block) /\ OnRecord(log) \in Seq(Block)
      BY <1>1, RestoredChainOK DEF IndInv, TypeOK, OnRecord
    <2>1. ASSUME NEW q \in Processes, Write(q) PROVE Grows
      <3>1. OnRecord(log') = IF blocks[q] = log /\ OnRecord(log) = log
                             THEN log' ELSE OnRecord(log)
        BY <1>1, <2>1, WriteRecord
      <3>2. IsPrefix(OnRecord(log), OnRecord(log'))
        <4>1. CASE blocks[q] = log /\ OnRecord(log) = log
          <5>1. PICK b \in Block : log' = Append(log, b)
            BY <1>1, <2>1, WriteEffect
          <5>2. /\ Append(log, b) \in Seq(Block) /\ Len(log) <= Len(Append(log, b))
                /\ \A i \in 1 .. Len(log) : Append(log, b)[i] = log[i]
            BY <2>0
          <5>3. IsPrefix(log, Append(log, b))
            BY <2>0, <5>2, PrefixSame, PrefixLonger
          <5> QED BY <3>1, <4>1, <5>1, <5>3
        <4>2. CASE ~(blocks[q] = log /\ OnRecord(log) = log)
          BY <2>0, <3>1, <4>2, PrefixSame
        <4> QED BY <4>1, <4>2
      <3>3. ASSUME NEW p \in Processes, pc[p] = "write", pc'[p] # "write",
                   blocks[p] # OnRecord(log)
            PROVE  OnRecord(log') = OnRecord(log)
        <4>1. p = q
          BY <2>0, <2>1, <3>3, Others
        <4> QED BY <3>1, <3>3, <4>1
      <3> QED BY <3>2, <3>3
    <2>2. ASSUME NEW q \in Processes, Clear(q) PROVE Grows
      BY <2>2 DEF Clear
    <2>3. ASSUME NEW q \in Processes,
                 Open(q) \/ ReadRecord(q) \/ ReadEnd(q) \/ TuiAppend(q) \/ DemoAppend(q)
                    \/ End(q)
          PROVE  Grows
      <3>1. log' = log
        BY <2>0, <2>3, QueueEffect DEF Open, ReadRecord, ReadEnd, End
      <3> QED BY <3>1
    <2> QED BY <1>1, <2>1, <2>2, <2>3 DEF Next
  <1> QED BY <1>1, SharedLogInductive, PTL DEF Spec, RecordGrowsByItself
=============================================================================
