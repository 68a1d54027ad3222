---------------------------- MODULE BlocksProofs ----------------------------
(***************************************************************************)
(* What the rules of module Blocks guarantee: lemmas shared by the proofs  *)
(* about Ledger, Node, Tui and SharedLog.                                  *)
(***************************************************************************)
EXTENDS Blocks, SequencesExt, SequenceTheorems, WellFoundedInduction, TLAPS

\* What a "None" from validate_block establishes.
LEMMA ValidBlock ==
    ASSUME NEW chain, NEW d, NEW b, validate_block(chain, d, b) = "None"
    PROVE  /\ b.header.prev_hash = TipHash(chain)
           /\ chain # <<>> =>
                 ~(b.header.timestamp < chain[Len(chain)].header.timestamp)
           /\ chain # <<>> =>
                 \A k \in DOMAIN b.transactions : ~IsCoinbase(b.transactions[k])
           /\ chain = <<>> => CoinbaseFirst(b.transactions)
           /\ b.header.merkle_root = compute_merkle_root(b.transactions)
           /\ Unverified(b.transactions, chain = <<>>) = {}
  <1>1. CASE chain = <<>>
    BY <1>1 DEF validate_block, TipHash
  <1>2. CASE chain # <<>>
    BY <1>2 DEF validate_block
  <1> QED BY <1>1, <1>2

\* Validity at some difficulty is validity at difficulty zero, the difficulty
\* restore_from_store validates with.
LEMMA ValidAtZero ==
    ASSUME NEW chain, NEW d, NEW b, validate_block(chain, d, b) = "None"
    PROVE  validate_block(chain, 0, b) = "None"
  BY DEF validate_block, PowWaived

\* A block's fields have the types of the header's.
LEMMA BlockFields ==
    ASSUME NEW b \in Block
    PROVE  /\ b.header.prev_hash \in Seq(Link)
           /\ b.header.timestamp \in Nat
           /\ LinkOf(b) \in Link
           /\ hash(b.header) = Append(b.header.prev_hash, LinkOf(b))
           /\ hash(b.header) \in Seq(Link)
           /\ b.transactions \in Seq(Transaction)
  BY BlocksAssumption DEF Block, Header, Hash256, Link, LinkOf, hash

\* The hash of a valid block commits to the chain it extends.
LEMMA HashesCommitAppend ==
    ASSUME NEW chain \in Seq(Block), NEW b \in Block, HashesCommit(chain),
           b.header.prev_hash = TipHash(chain)
    PROVE  HashesCommit(Append(chain, b))
  <1> DEFINE n == Len(chain)
             longer == Append(chain, b)
  <1>1. /\ longer \in Seq(Block) /\ Len(longer) = n + 1 /\ n \in Nat
        /\ \A i \in 1 .. n : longer[i] = chain[i]
        /\ longer[n + 1] = b
    OBVIOUS
  <1>2. TipHash(chain) = [k \in 1 .. n |-> LinkOf(chain[k])]
    BY DEF TipHash, HashesCommit, ZeroHash
  <1>3. hash(b.header) = [k \in 1 .. n + 1 |-> LinkOf(longer[k])]
    <2>1. hash(b.header) = Append([k \in 1 .. n |-> LinkOf(chain[k])], LinkOf(b))
      BY BlockFields, <1>2
    <2>2. \A k \in 1 .. n : LinkOf(chain[k]) \in Link
      BY BlockFields
    <2>3. [k \in 1 .. n |-> LinkOf(chain[k])] \in Seq(Link)
      BY <2>2
    <2>4. LinkOf(b) \in Link
      BY BlockFields
    <2> QED BY <2>1, <2>3, <2>4, <1>1
  <1>4. ASSUME NEW i \in 1 .. n
        PROVE  hash(longer[i].header) = [k \in 1 .. i |-> LinkOf(longer[k])]
    BY <1>1, <1>4 DEF HashesCommit
  <1> QED BY <1>1, <1>3, <1>4 DEF HashesCommit

\* Appending a valid block to a well-formed chain keeps it well formed.
LEMMA ChainOKAppend ==
    ASSUME NEW chain \in Seq(Block), NEW b \in Block, NEW d,
           ChainOK(chain), validate_block(chain, d, b) = "None"
    PROVE  ChainOK(Append(chain, b))
  <1> DEFINE n == Len(chain)
             longer == Append(chain, b)
  <1>1. /\ longer \in Seq(Block) /\ Len(longer) = n + 1 /\ n \in Nat
        /\ \A i \in 1 .. n : longer[i] = chain[i] /\ chain[i] \in Block
        /\ longer[n + 1] = b
    OBVIOUS
  <1>2. HashesCommit(longer)
    BY HashesCommitAppend, ValidBlock DEF ChainOK
  <1>3. TimesMonotone(longer)
    <2>1. \A i \in 1 .. n : chain[i].header.timestamp <= b.header.timestamp
      <3>1. SUFFICES ASSUME NEW i \in 1 .. n
                     PROVE  chain[i].header.timestamp <= b.header.timestamp
        OBVIOUS
      <3>2. chain[i].header.timestamp <= chain[n].header.timestamp
        BY DEF ChainOK, TimesMonotone
      <3>3. ~(b.header.timestamp < chain[n].header.timestamp)
        BY ValidBlock
      <3> QED BY <1>1, <3>2, <3>3, BlockFields
    <2>2. b.header.timestamp <= b.header.timestamp
      BY BlockFields
    <2> QED BY <1>1, <2>1, <2>2 DEF ChainOK, TimesMonotone
  <1>4. RootsMatch(longer)
    BY <1>1, ValidBlock DEF ChainOK, RootsMatch
  <1>5. TransactionsSound(longer)
    <2>1. ASSUME NEW k \in DOMAIN b.transactions
          PROVE  IF n = 0 /\ k = 1 THEN IsCoinbase(b.transactions[k])
                 ELSE verify(b.transactions[k]) = "good"
      <3>1. chain = <<>> <=> n = 0
        OBVIOUS
      <3>2. k \notin Unverified(b.transactions, chain = <<>>)
        BY ValidBlock
      <3>3. verify(b.transactions[k]) = "good"
               \/ (chain = <<>> /\ k = 1 /\ IsCoinbase(b.transactions[k]))
        BY <2>1, <3>2 DEF Unverified
      <3>4. chain = <<>> /\ k = 1 => IsCoinbase(b.transactions[k])
        BY <2>1, ValidBlock, BlockFields DEF CoinbaseFirst
      <3> QED BY <3>1, <3>3, <3>4
    <2> QED BY <1>1, <2>1 DEF ChainOK, TransactionsSound
  <1> QED BY <1>2, <1>3, <1>4, <1>5 DEF ChainOK

\* A part of a well-formed chain, from its genesis on, is well formed.
LEMMA ChainOKPrefix ==
    ASSUME NEW chain \in Seq(Block), NEW part \in Seq(Block),
           IsPrefix(part, chain), ChainOK(chain)
    PROVE  ChainOK(part)
  <1>1. /\ Len(part) \in Nat /\ Len(chain) \in Nat /\ Len(part) <= Len(chain)
        /\ \A i \in 1 .. Len(part) : part[i] = chain[i]
    BY DEF IsPrefix
  <1>2. HashesCommit(part)
    BY <1>1 DEF ChainOK, HashesCommit
  <1>3. TimesMonotone(part)
    BY <1>1 DEF ChainOK, TimesMonotone
  <1>4. RootsMatch(part)
    BY <1>1 DEF ChainOK, RootsMatch
  <1>5. TransactionsSound(part)
    BY <1>1 DEF ChainOK, TransactionsSound
  <1> QED BY <1>2, <1>3, <1>4, <1>5 DEF ChainOK

\* The empty chain is well formed.
LEMMA ChainOKEmpty == ChainOK(<<>>)
  BY DEF ChainOK, HashesCommit, TimesMonotone, RootsMatch, TransactionsSound

\* The hash a header gets for a parent has the type of one.
LEMMA TipHashType ==
    ASSUME NEW chain \in Seq(Block)
    PROVE  TipHash(chain) \in Hash256
  <1>1. CASE chain = <<>>
    BY <1>1 DEF TipHash, ZeroHash, Hash256
  <1>2. CASE chain # <<>>
    <2>1. chain[Len(chain)] \in Block
      BY <1>2
    <2> QED BY <1>2, <2>1, BlockFields DEF TipHash, Hash256
  <1> QED BY <1>1, <1>2

\* What build_block_from_transactions makes is a block.
LEMMA BuiltType ==
    ASSUME NEW chain \in Seq(Block), NEW txs \in TxLists, NEW time \in Nat
    PROVE  build_block_from_transactions(chain, txs, time) \in Block
  <1>1. compute_merkle_root(txs) \in MerkleRoot
    BY DEF MerkleRoot
  <1> QED BY <1>1, TipHashType DEF build_block_from_transactions, Block, Header

-----------------------------------------------------------------------------
\* Two sequences that agree up to k have the same first k elements.
LEMMA SubSeqAgree ==
    ASSUME NEW S, NEW s \in Seq(S), NEW t \in Seq(S), NEW k \in Nat,
           k <= Len(s), k <= Len(t), \A i \in 1 .. k : s[i] = t[i]
    PROVE  SubSeq(s, 1, k) = SubSeq(t, 1, k)
  OBVIOUS

\* restore_from_store keeps the blocks before the first it refuses.
LEMMA RestoreFacts ==
    ASSUME NEW loaded \in Seq(Block), NEW d
    PROVE  \E n \in 0 .. Len(loaded) :
              /\ restore_from_store(loaded, d) = SubSeq(loaded, 1, n)
              /\ Restorable(loaded, d, n)
              /\ n < Len(loaded) => ~Restorable(loaded, d, n + 1)
  <1> DEFINE Valid(i) == validate_block(SubSeq(loaded, 1, i - 1), d, loaded[i]) = "None"
             Bad == {i \in 1 .. Len(loaded) : ~Valid(i)}
             Stop(n) == /\ Restorable(loaded, d, n)
                        /\ n < Len(loaded) => ~Restorable(loaded, d, n + 1)
  <1>1. \A n : Restorable(loaded, d, n) <=> \A i \in 1 .. n : Valid(i)
    BY DEF Restorable
  <1> HIDE DEF Valid
  <1>2. \E n \in 0 .. Len(loaded) : Stop(n)
    <2>1. CASE Bad = {}
      <3>1. Stop(Len(loaded)) /\ Len(loaded) \in 0 .. Len(loaded)
        BY <1>1, <2>1
      <3> QED BY <3>1
    <2>2. CASE Bad # {}
      <3>1. Bad \subseteq Nat
        OBVIOUS
      <3>2. PICK m \in Bad : \A i \in Bad : ~(<<i, m>> \in OpToRel(<, Nat))
        BY <2>2, <3>1, WFMin, NatLessThanWellFounded
      <3>3. \A i \in Bad : ~(i < m)
        BY <3>1, <3>2 DEF OpToRel
      <3>4. m \in 1 .. Len(loaded) /\ ~Valid(m)
        OBVIOUS
      <3>5. \A i \in 1 .. m - 1 : Valid(i)
        BY <3>3, <3>4
      <3>6. Stop(m - 1) /\ m - 1 \in 0 .. Len(loaded)
        BY <1>1, <3>4, <3>5
      <3> QED BY <3>6
    <2> QED BY <2>1, <2>2
  <1> DEFINE n == CHOOSE k \in 0 .. Len(loaded) : Stop(k)
  <1>3. n \in 0 .. Len(loaded) /\ Stop(n)
    BY <1>2
  <1>4. restore_from_store(loaded, d) = SubSeq(loaded, 1, n)
    BY DEF restore_from_store
  <1> QED BY <1>3, <1>4

\* Blocks that each pass validate_block on top of the ones before them form a
\* well-formed chain: the shortest part that is not would be one valid block
\* longer than a part that is.
LEMMA RestorableChainOK ==
    ASSUME NEW loaded \in Seq(Block), NEW d, NEW n \in 0 .. Len(loaded),
           Restorable(loaded, d, n)
    PROVE  ChainOK(SubSeq(loaded, 1, n))
  <1> DEFINE Part(m) == SubSeq(loaded, 1, m)
             Bad == {m \in 0 .. n : ~ChainOK(Part(m))}
  <1>1. CASE Bad = {}
    BY <1>1
  <1>2. CASE Bad # {}
    <2>1. Bad \subseteq Nat
      OBVIOUS
    <2>2. PICK m \in Bad : \A i \in Bad : ~(<<i, m>> \in OpToRel(<, Nat))
      BY <1>2, <2>1, WFMin, NatLessThanWellFounded
    <2>3. \A i \in Bad : ~(i < m)
      BY <2>1, <2>2 DEF OpToRel
    <2>4. m \in 0 .. n /\ ~ChainOK(Part(m))
      OBVIOUS
    <2>5. m # 0
      <3>1. Part(0) = <<>>
        OBVIOUS
      <3> QED BY <2>4, <3>1, ChainOKEmpty
    <2>6. ChainOK(Part(m - 1))
      BY <2>3, <2>4, <2>5
    <2>7. validate_block(Part(m - 1), d, loaded[m]) = "None"
      BY <2>4, <2>5 DEF Restorable
    <2>8. Part(m - 1) \in Seq(Block) /\ loaded[m] \in Block
      BY <2>4, <2>5
    <2>9. Part(m) = Append(Part(m - 1), loaded[m])
      BY <2>4, <2>5
    <2>10. ChainOK(Append(Part(m - 1), loaded[m]))
      BY <2>6, <2>7, <2>8, ChainOKAppend
    <2> QED BY <2>4, <2>9, <2>10
  <1> QED BY <1>1, <1>2

\* Whatever blocks are loaded, the chain restored from them is well formed.
LEMMA RestoredChainOK ==
    ASSUME NEW loaded \in Seq(Block), NEW d
    PROVE  /\ restore_from_store(loaded, d) \in Seq(Block)
           /\ ChainOK(restore_from_store(loaded, d))
  <1>1. PICK n \in 0 .. Len(loaded) :
              /\ restore_from_store(loaded, d) = SubSeq(loaded, 1, n)
              /\ Restorable(loaded, d, n)
    BY RestoreFacts
  <1>2. SubSeq(loaded, 1, n) \in Seq(Block)
    OBVIOUS
  <1> QED BY <1>1, <1>2, RestorableChainOK

\* Blocks that are all valid are all restored.
LEMMA RestoreAll ==
    ASSUME NEW loaded \in Seq(Block), NEW d, Restorable(loaded, d, Len(loaded))
    PROVE  restore_from_store(loaded, d) = loaded
  <1>1. PICK n \in 0 .. Len(loaded) :
              /\ restore_from_store(loaded, d) = SubSeq(loaded, 1, n)
              /\ n < Len(loaded) => ~Restorable(loaded, d, n + 1)
    BY RestoreFacts
  <1>2. n = Len(loaded)
    BY <1>1 DEF Restorable
  <1> QED BY <1>1, <1>2

\* The two facts that carry Restorable along: one more valid block, fewer blocks.
LEMMA RestorableAppend ==
    ASSUME NEW chain \in Seq(Block), NEW b \in Block, NEW d,
           Restorable(chain, d, Len(chain)), validate_block(chain, d, b) = "None"
    PROVE  Restorable(Append(chain, b), d, Len(Append(chain, b)))
  <1> DEFINE n == Len(chain)
             longer == Append(chain, b)
  <1>1. /\ longer \in Seq(Block) /\ Len(longer) = n + 1 /\ n \in Nat
        /\ \A i \in 1 .. n : longer[i] = chain[i]
        /\ longer[n + 1] = b
    OBVIOUS
  <1> HIDE DEF longer
  <1>2. \A i \in 1 .. n + 1 : SubSeq(longer, 1, i - 1) = SubSeq(chain, 1, i - 1)
    BY <1>1, SubSeqAgree
  <1>3. SubSeq(chain, 1, n) = chain
    OBVIOUS
  <1>4. ASSUME NEW i \in 1 .. n + 1
        PROVE  validate_block(SubSeq(longer, 1, i - 1), d, longer[i]) = "None"
    <2>1. CASE i = n + 1
      <3>1. i - 1 = n
        BY <1>1, <2>1
      <3>2. SubSeq(longer, 1, i - 1) = chain
        BY <1>2, <1>3, <3>1
      <3>3. longer[i] = b
        BY <1>1, <2>1
      <3> QED BY <3>2, <3>3
    <2>2. CASE i \in 1 .. n
      BY <1>1, <1>2, <2>2 DEF Restorable
    <2> QED BY <1>1, <2>1, <2>2
  <1> QED BY <1>1, <1>4 DEF Restorable, longer

\* A part of a chain that is restored in full is restored in full.
LEMMA RestorablePrefix ==
    ASSUME NEW chain \in Seq(Block), NEW part \in Seq(Block), NEW d,
           IsPrefix(part, chain), Restorable(chain, d, Len(chain))
    PROVE  Restorable(part, d, Len(part))
  <1>1. /\ Len(part) \in Nat /\ Len(chain) \in Nat /\ Len(part) <= Len(chain)
        /\ \A i \in 1 .. Len(part) : part[i] = chain[i]
    BY DEF IsPrefix
  <1>2. ASSUME NEW i \in 1 .. Len(part)
        PROVE  SubSeq(part, 1, i - 1) = SubSeq(chain, 1, i - 1)
    BY <1>1, SubSeqAgree
  <1>3. ASSUME NEW i \in 1 .. Len(part)
        PROVE  validate_block(SubSeq(part, 1, i - 1), d, part[i]) = "None"
    <2>1. validate_block(SubSeq(chain, 1, i - 1), d, chain[i]) = "None"
      BY <1>1 DEF Restorable
    <2>2. part[i] = chain[i]
      BY <1>1
    <2> QED BY <1>2, <2>1, <2>2
  <1> QED BY <1>3 DEF Restorable

\* Sound chains: the empty one, a longer one, a shorter one, the restored one.
LEMMA SoundEmpty == Sound(<<>>)
  BY ChainOKEmpty DEF Sound, Restorable

\* A valid block keeps a chain sound.
LEMMA SoundAppend ==
    ASSUME NEW chain \in Seq(Block), NEW b \in Block, Sound(chain),
           validate_block(chain, 0, b) = "None"
    PROVE  Sound(Append(chain, b))
  BY ChainOKAppend, RestorableAppend DEF Sound

\* A part of a sound chain is sound.
LEMMA SoundPrefix ==
    ASSUME NEW chain \in Seq(Block), NEW part \in Seq(Block), Sound(chain),
           IsPrefix(part, chain)
    PROVE  Sound(part)
  BY ChainOKPrefix, RestorablePrefix DEF Sound

\* A sound chain is restored in full.
LEMMA SoundRestore ==
    ASSUME NEW chain \in Seq(Block), Sound(chain)
    PROVE  restore_from_store(chain, 0) = chain
  BY RestoreAll DEF Sound

\* Concatenating one block appends it.
LEMMA ConcatOne ==
    ASSUME NEW S, NEW s \in Seq(S), NEW t \in Seq(S), Len(t) = 1
    PROVE  s \o t = Append(s, t[1])
  <1>1. t = <<t[1]>> /\ t[1] \in S
    OBVIOUS
  <1>2. Append(s, t[1]) = s \o <<t[1]>>
    BY <1>1, AppendIsConcat
  <1> QED BY <1>1, <1>2, Zenon

\* Prefixes: of itself, of a longer sequence.
LEMMA PrefixSame == ASSUME NEW S, NEW s \in Seq(S) PROVE IsPrefix(s, s)
  BY DEF IsPrefix

\* A part stays a part when more is appended.
LEMMA PrefixLonger ==
    ASSUME NEW S, NEW s \in Seq(S), NEW t \in Seq(S), NEW u \in Seq(S),
           IsPrefix(s, t), Len(t) <= Len(u), \A i \in 1 .. Len(t) : u[i] = t[i]
    PROVE  IsPrefix(s, u)
  <1>1. Len(s) \in Nat /\ Len(t) \in Nat /\ Len(u) \in Nat /\ Len(s) <= Len(t)
    BY DEF IsPrefix
  <1>2. \A i \in 1 .. Len(s) : s[i] = t[i]
    BY <1>1 DEF IsPrefix
  <1>3. \A i \in 1 .. Len(s) : s[i] = u[i]
    BY <1>1, <1>2
  <1>4. SubSeq(s, 1, Len(s)) = SubSeq(u, 1, Len(s))
    BY <1>1, <1>3, SubSeqAgree
  <1> QED BY <1>1, <1>4 DEF IsPrefix

-----------------------------------------------------------------------------
\* In a chain whose hashes commit, so do its tip's hash and every parent's hash.
LEMMA TipCommits ==
    ASSUME NEW chain \in Seq(Block), HashesCommit(chain)
    PROVE  TipHash(chain) = [k \in 1 .. Len(chain) |-> LinkOf(chain[k])]
  BY DEF TipHash, HashesCommit, ZeroHash

\* Every block's parent hash commits to all headers before it.
LEMMA ParentCommits ==
    ASSUME NEW chain \in Seq(Block), HashesCommit(chain), NEW i \in 1 .. Len(chain)
    PROVE  chain[i].header.prev_hash = [k \in 1 .. i - 1 |-> LinkOf(chain[k])]
  <1> DEFINE prev == chain[i].header.prev_hash
             link == LinkOf(chain[i])
             all  == [k \in 1 .. i |-> LinkOf(chain[k])]
  <1>1. prev \in Seq(Link) /\ link \in Link /\ hash(chain[i].header) = Append(prev, link)
    BY BlockFields
  <1>2. hash(chain[i].header) = all
    BY DEF HashesCommit
  <1>3. \A k \in 1 .. i : all[k] = LinkOf(chain[k])
    OBVIOUS
  <1>4. DOMAIN all = 1 .. i
    OBVIOUS
  <1> HIDE DEF prev, link, all
  <1>5. /\ Len(prev) \in Nat /\ DOMAIN Append(prev, link) = 1 .. Len(prev) + 1
        /\ \A k \in 1 .. Len(prev) : Append(prev, link)[k] = prev[k]
    BY <1>1
  <1>6. Len(prev) + 1 = i
    BY <1>1, <1>2, <1>4, <1>5
  <1>7. \A k \in 1 .. i - 1 : prev[k] = LinkOf(chain[k])
    BY <1>1, <1>2, <1>3, <1>5, <1>6
  <1>8. prev = [k \in 1 .. i - 1 |-> LinkOf(chain[k])]
    BY <1>1, <1>6, <1>7
  <1> QED BY <1>8 DEF prev

\* The hash of a tip determines every header below it.
LEMMA SameTipHeaders ==
    ASSUME NEW s \in Seq(Block), NEW t \in Seq(Block), HashesCommit(s), HashesCommit(t),
           TipHash(s) = TipHash(t)
    PROVE  Len(s) = Len(t) /\ \A i \in 1 .. Len(s) : s[i].header = t[i].header
  <1>1. [k \in 1 .. Len(s) |-> LinkOf(s[k])] = [k \in 1 .. Len(t) |-> LinkOf(t[k])]
    BY TipCommits
  <1>2. Len(s) = Len(t) /\ Len(s) \in Nat
    <2>1. 1 .. Len(s) = 1 .. Len(t)
      BY <1>1
    <2> QED BY <2>1
  <1>3. \A k \in 1 .. Len(s) : LinkOf(s[k]) = LinkOf(t[k])
    BY <1>1, <1>2
  <1>4. ASSUME NEW i \in 1 .. Len(s) PROVE s[i].header = t[i].header
    <2>1. s[i] \in Block /\ t[i] \in Block
      BY <1>2
    <2>2. s[i].header.prev_hash = t[i].header.prev_hash
      <3>1. [k \in 1 .. i - 1 |-> LinkOf(s[k])] = [k \in 1 .. i - 1 |-> LinkOf(t[k])]
        BY <1>2, <1>3
      <3>2. s[i].header.prev_hash = [k \in 1 .. i - 1 |-> LinkOf(s[k])]
        BY ParentCommits
      <3>3. t[i].header.prev_hash = [k \in 1 .. i - 1 |-> LinkOf(t[k])]
        BY <1>2, ParentCommits
      <3> QED BY <3>1, <3>2, <3>3
    <2>3. LinkOf(s[i]) = LinkOf(t[i])
      BY <1>3
    <2> DEFINE a == s[i].header
               b == t[i].header
    <2>4. a \in Header /\ b \in Header
      BY <2>1 DEF Block
    <2>5. a.merkle_root = b.merkle_root /\ a.timestamp = b.timestamp /\ a.nonce = b.nonce
      BY <2>3 DEF LinkOf
    <2>6. a.prev_hash = b.prev_hash
      BY <2>2
    <2> HIDE DEF a, b
    <2>7. a = b
      BY <2>4, <2>5, <2>6 DEF Header
    <2> QED BY <2>7 DEF a, b
  <1> QED BY <1>2, <1>4

-----------------------------------------------------------------------------
\* The loop of restore_from_store can stop in one place only.
LEMMA RestoreStops ==
    ASSUME NEW loaded \in Seq(Block), NEW d, NEW n \in 0 .. Len(loaded),
           Restorable(loaded, d, n), n < Len(loaded) => ~Restorable(loaded, d, n + 1)
    PROVE  restore_from_store(loaded, d) = SubSeq(loaded, 1, n)
  <1>1. PICK m \in 0 .. Len(loaded) :
              /\ restore_from_store(loaded, d) = SubSeq(loaded, 1, m)
              /\ Restorable(loaded, d, m)
              /\ m < Len(loaded) => ~Restorable(loaded, d, m + 1)
    BY RestoreFacts
  <1>2. ~(m < n) /\ ~(n < m)
    BY <1>1 DEF Restorable
  <1> QED BY <1>1, <1>2

\* What is restored in full is what is valid block by block.
LEMMA RestoredInFull ==
    ASSUME NEW loaded \in Seq(Block), NEW d
    PROVE  restore_from_store(loaded, d) = loaded <=> Restorable(loaded, d, Len(loaded))
  <1>1. PICK n \in 0 .. Len(loaded) :
              /\ restore_from_store(loaded, d) = SubSeq(loaded, 1, n)
              /\ Restorable(loaded, d, n)
    BY RestoreFacts
  <1>2. SubSeq(loaded, 1, n) = loaded => n = Len(loaded)
    OBVIOUS
  <1> QED BY <1>1, <1>2, RestoreAll

\* One more block is restored if everything before it is and it is valid there; if
\* not, what is restored stays as it was.
LEMMA RestoreAppend ==
    ASSUME NEW loaded \in Seq(Block), NEW b \in Block, NEW d
    PROVE  restore_from_store(Append(loaded, b), d) =
              IF restore_from_store(loaded, d) = loaded
                 /\ validate_block(loaded, d, b) = "None"
              THEN Append(loaded, b) ELSE restore_from_store(loaded, d)
  <1> DEFINE n == Len(loaded)
             longer == Append(loaded, b)
  <1>1. /\ longer \in Seq(Block) /\ Len(longer) = n + 1 /\ n \in Nat
        /\ \A i \in 1 .. n : longer[i] = loaded[i]
        /\ longer[n + 1] = b
    OBVIOUS
  <1>2. CASE restore_from_store(loaded, d) = loaded /\ validate_block(loaded, d, b) = "None"
    BY <1>1, <1>2, RestoredInFull, RestorableAppend
  <1>3. CASE ~(restore_from_store(loaded, d) = loaded
               /\ validate_block(loaded, d, b) = "None")
    <2>1. PICK m \in 0 .. n :
              /\ restore_from_store(loaded, d) = SubSeq(loaded, 1, m)
              /\ Restorable(loaded, d, m)
              /\ m < n => ~Restorable(loaded, d, m + 1)
      BY RestoreFacts
    <2> HIDE DEF longer
    <2>2. \A k \in 0 .. n : SubSeq(longer, 1, k) = SubSeq(loaded, 1, k)
      BY <1>1, SubSeqAgree
    <2>3. \A k \in 0 .. n : Restorable(longer, d, k) <=> Restorable(loaded, d, k)
      <3>1. ASSUME NEW i \in 1 .. n
            PROVE  SubSeq(longer, 1, i - 1) = SubSeq(loaded, 1, i - 1)
        BY <1>1, <2>2
      <3>2. ASSUME NEW i \in 1 .. n
            PROVE  validate_block(SubSeq(longer, 1, i - 1), d, longer[i])
                      = validate_block(SubSeq(loaded, 1, i - 1), d, loaded[i])
        BY <1>1, <3>1
      <3>3. ASSUME NEW k \in 0 .. n
            PROVE  Restorable(longer, d, k) <=> Restorable(loaded, d, k)
        <4>1. \A i \in 1 .. k : i \in 1 .. n
          BY <1>1
        <4> QED BY <3>2, <4>1, Zenon DEF Restorable
      <3> QED BY <3>3
    <2>4. ~Restorable(longer, d, m + 1)
      <3>1. CASE m < n
        BY <1>1, <2>1, <2>3, <3>1
      <3>2. CASE m = n
        <4>1. SubSeq(loaded, 1, n) = loaded
          OBVIOUS
        <4>2. SubSeq(longer, 1, n) = loaded
          BY <1>1, <2>2, <4>1
        <4>3. validate_block(SubSeq(longer, 1, n), d, longer[n + 1]) # "None"
          BY <1>1, <1>3, <2>1, <3>2, <4>1, <4>2
        <4>4. n + 1 \in 1 .. n + 1 /\ (n + 1) - 1 = n
          BY <1>1
        <4>5. ~Restorable(longer, d, n + 1)
          BY <4>3, <4>4 DEF Restorable
        <4> QED BY <3>2, <4>5
      <3> QED BY <1>1, <3>1, <3>2
    <2>5. m \in 0 .. Len(longer) /\ m <= n
      BY <1>1
    <2>6. restore_from_store(longer, d) = SubSeq(longer, 1, m)
      BY <1>1, <2>1, <2>3, <2>4, <2>5, RestoreStops
    <2> QED BY <1>3, <2>1, <2>2, <2>6 DEF longer
  <1> QED BY <1>2, <1>3
=============================================================================
