----------------------------- MODULE NodeProofs -----------------------------
(***************************************************************************)
(* Proofs about Node: for every set of blocks, every file and every        *)
(* sequence of failures, not only the ones of the model-checked instances. *)
(***************************************************************************)
EXTENDS Node, BlocksProofs

USE DEF Down

\* A fragment has a place: the first one, or none.
LEMMA ReadableFacts ==
    ASSUME NEW file, Len(file) \in Nat
    PROVE  /\ Readable(file) \in 0 .. Len(file)
           /\ \A i \in 1 .. Readable(file) : file[i].end = "check"
           /\ Readable(file) < Len(file) => file[Readable(file) + 1].end # "check"
  <1> DEFINE Bad == {i \in 1 .. Len(file) : file[i].end # "check"}
             Stop(n) == /\ \A i \in 1 .. n : file[i].end = "check"
                        /\ n < Len(file) => file[n + 1].end # "check"
  <1>1. \E n \in 0 .. Len(file) : Stop(n)
    <2>1. CASE Bad = {}
      <3>1. Stop(Len(file)) /\ Len(file) \in 0 .. Len(file)
        BY <2>1
      <3> QED BY <3>1
    <2>2. CASE Bad # {}
      <3>1. Bad \subseteq Nat
        OBVIOUS
      <3>2. PICK m \in Bad : \A i \in Bad : ~(<<i, m>> \in OpToRel(<, Nat))
        BY <2>2, <3>1, WFMin, NatLessThanWellFounded
      <3>3. \A i \in Bad : ~(i < m)
        BY <3>1, <3>2 DEF OpToRel
      <3>4. m - 1 \in 0 .. Len(file) /\ Stop(m - 1)
        BY <3>3
      <3> QED BY <3>4
    <2> QED BY <2>1, <2>2
  <1> QED BY <1>1 DEF Readable

\* Only one place qualifies.
LEMMA ReadableUnique ==
    ASSUME NEW file, Len(file) \in Nat, NEW n \in 0 .. Len(file),
           \A i \in 1 .. n : file[i].end = "check",
           n < Len(file) => file[n + 1].end # "check"
    PROVE  Readable(file) = n
  <1> DEFINE r == Readable(file)
  <1>1. /\ r \in 0 .. Len(file)
        /\ \A i \in 1 .. r : file[i].end = "check"
        /\ r < Len(file) => file[r + 1].end # "check"
    BY ReadableFacts
  <1> HIDE DEF r
  <1>2. CASE r < n
    BY <1>1, <1>2
  <1>3. CASE n < r
    BY <1>1, <1>3
  <1> QED BY <1>1, <1>2, <1>3 DEF r

-----------------------------------------------------------------------------
\* What is read from a file of items is a sequence of blocks.
LEMMA LoadType ==
    ASSUME NEW file \in Seq(Item)
    PROVE  /\ load_all_blocks(file) \in Seq(Block)
           /\ Len(load_all_blocks(file)) = Readable(file)
           /\ Readable(file) \in 0 .. Len(file)
           /\ \A i \in 1 .. Readable(file) :
                 load_all_blocks(file)[i] = file[i].payload[1]
  <1>1. /\ Readable(file) \in 0 .. Len(file)
        /\ \A i \in 1 .. Readable(file) : file[i].end = "check"
    BY ReadableFacts
  <1>2. ASSUME NEW i \in 1 .. Readable(file)
        PROVE  file[i].payload[1] \in Block
    <2>1. file[i] \in Item
      BY <1>1
    <2>2. file[i].payload \in Seq(Block) /\ Len(file[i].payload) = 1
      BY <1>1, <2>1 DEF Item
    <2> QED BY <2>2
  <1> QED BY <1>1, <1>2 DEF load_all_blocks

\* A record written behind a fragment is never read; one written behind whole
\* records is read last.
LEMMA LoadAppend ==
    ASSUME NEW file \in Seq(Item), NEW b \in Block
    PROVE  /\ Append(file, Record(b)) \in Seq(Item)
           /\ Readable(file) = Len(file) =>
                 /\ load_all_blocks(Append(file, Record(b)))
                      = Append(load_all_blocks(file), b)
                 /\ Readable(Append(file, Record(b))) = Len(file) + 1
           /\ Readable(file) # Len(file) =>
                 /\ load_all_blocks(Append(file, Record(b))) = load_all_blocks(file)
                 /\ Readable(Append(file, Record(b))) = Readable(file)
  <1> DEFINE longer == Append(file, Record(b))
             n == Len(file)
             r == Readable(file)
  <1>1. Record(b) \in Item /\ Record(b).end = "check" /\ Record(b).payload[1] = b
    BY DEF Record, Item
  <1>2. /\ longer \in Seq(Item) /\ Len(longer) = n + 1 /\ n \in Nat
        /\ \A i \in 1 .. n : longer[i] = file[i]
        /\ longer[n + 1] = Record(b)
    BY <1>1
  <1> HIDE DEF longer
  <1>3. /\ r \in 0 .. n
        /\ \A i \in 1 .. r : file[i].end = "check"
        /\ r < n => file[r + 1].end # "check"
    BY ReadableFacts
  <1>4. CASE r = n
    <2>1. Readable(longer) = n + 1
      <3>1. \A i \in 1 .. n + 1 : longer[i].end = "check"
        BY <1>1, <1>2, <1>3, <1>4
      <3>2. Len(longer) \in Nat /\ n + 1 \in 0 .. Len(longer) /\ ~(n + 1 < Len(longer))
        BY <1>2
      <3> QED BY <3>1, <3>2, ReadableUnique
    <2>2. load_all_blocks(longer) = Append(load_all_blocks(file), b)
      <3>1. load_all_blocks(longer) = [i \in 1 .. n + 1 |-> longer[i].payload[1]]
        BY <2>1 DEF load_all_blocks
      <3>2. load_all_blocks(file) = [i \in 1 .. n |-> file[i].payload[1]]
        BY <1>4 DEF load_all_blocks
      <3>3. load_all_blocks(file) \in Seq(Block) /\ Len(load_all_blocks(file)) = n
        BY <1>4, LoadType
      <3> QED BY <1>1, <1>2, <3>1, <3>2, <3>3
    <2> QED BY <1>2, <1>4, <2>1, <2>2 DEF longer
  <1>5. CASE r # n
    <2>1. Readable(longer) = r
      <3>1. Len(longer) \in Nat /\ r \in 0 .. Len(longer) /\ r < n
        BY <1>2, <1>3, <1>5
      <3>2. \A i \in 1 .. r : longer[i].end = "check"
        BY <1>2, <1>3
      <3>3. longer[r + 1].end # "check"
        BY <1>2, <1>3, <3>1
      <3> HIDE DEF r
      <3> QED BY <3>1, <3>2, <3>3, ReadableUnique
    <2>2. load_all_blocks(longer) = load_all_blocks(file)
      BY <1>2, <1>3, <2>1 DEF load_all_blocks
    <2> QED BY <1>2, <1>5, <2>1, <2>2 DEF longer
  <1> QED BY <1>4, <1>5

\* Cutting the file and leaving a fragment at its end loses blocks from the end
\* of what is read, and only those that were cut.
LEMMA LoadKeeps ==
    ASSUME NEW file \in Seq(Item), NEW left \in Seq(Item), NEW n \in 0 .. Len(file),
           Len(left) \in {n, n + 1},
           \A i \in 1 .. n : left[i] = file[i],
           Len(left) = n + 1 => left[n + 1].end # "check"
    PROVE  /\ Readable(left) = IF Readable(file) < n THEN Readable(file) ELSE n
           /\ \A i \in 1 .. Readable(left) :
                 load_all_blocks(left)[i] = load_all_blocks(file)[i]
  <1> DEFINE r == Readable(file)
             m == IF r < n THEN r ELSE n
  <1>1. /\ r \in 0 .. Len(file)
        /\ \A i \in 1 .. r : file[i].end = "check"
        /\ r < Len(file) => file[r + 1].end # "check"
    BY ReadableFacts
  <1>2. Readable(left) = m
    <2>1. m \in 0 .. Len(left) /\ m <= n /\ m <= r /\ Len(left) \in Nat
      BY <1>1
    <2>2. \A i \in 1 .. m : left[i].end = "check"
      BY <1>1, <2>1
    <2>3. ASSUME m < Len(left) PROVE left[m + 1].end # "check"
      <3>1. CASE r < n
        BY <3>1, <1>1
      <3>2. CASE ~(r < n)
        BY <3>2, <2>3, <1>1
      <3> QED BY <3>1, <3>2
    <2> HIDE DEF m
    <2> QED BY <2>1, <2>2, <2>3, ReadableUnique
  <1>3. \A i \in 1 .. m : load_all_blocks(left)[i] = load_all_blocks(file)[i]
    BY <1>1, <1>2 DEF load_all_blocks
  <1> QED BY <1>2, <1>3

\* A cut is nothing or one fragment.
LEMMA CutFacts ==
    ASSUME NEW cut \in Cuts
    PROVE  /\ cut \in Seq(Item) /\ Len(cut) \in {0, 1}
           /\ Len(cut) = 0 => cut = <<>>
           /\ Len(cut) = 1 => cut[1].end # "check"
  <1>1. cut = <<>> \/ \E f \in Fragment : cut = <<f>>
    BY DEF Cuts
  <1>2. \A f \in Fragment : f \in Item /\ f.end # "check"
    <2>1. ASSUME NEW f \in Fragment
          PROVE  f \in [end : {"check", "length", "other"}, payload : Seq(Block)]
      <3>1. PICK e \in {"length", "other"} : f = [end |-> e, payload |-> <<>>]
        BY DEF Fragment
      <3>2. <<>> \in Seq(Block)
        OBVIOUS
      <3> QED BY <3>1, <3>2
    <2>2. ASSUME NEW f \in Fragment
          PROVE  f.end # "check" /\ Len(f.payload) = 0
      BY DEF Fragment
    <2> QED BY <2>1, <2>2 DEF Item
  <1>3. CASE cut = <<>>
    BY <1>3
  <1>4. ASSUME NEW f \in Fragment, cut = <<f>>
        PROVE  cut \in Seq(Item) /\ Len(cut) = 1 /\ cut[1].end # "check"
    BY <1>2, <1>4
  <1> QED BY <1>1, <1>3, <1>4

\* What a loss of power leaves is read as a part of what was read before.
LEMMA LoadCut ==
    ASSUME NEW file \in Seq(Item), NEW n \in 0 .. Len(file), NEW cut \in Cuts,
           NEW left, left = SubSeq(file, 1, n) \o cut
    PROVE  /\ left \in Seq(Item) /\ Len(left) = n + Len(cut)
           /\ \A i \in 1 .. n : left[i] = file[i]
           /\ Readable(left) = IF Readable(file) < n THEN Readable(file) ELSE n
           /\ IsPrefix(load_all_blocks(left), load_all_blocks(file))
  <1>1. /\ cut \in Seq(Item) /\ Len(cut) \in {0, 1}
        /\ Len(cut) = 1 => cut[1].end # "check"
    BY CutFacts
  <1>2. /\ left \in Seq(Item) /\ Len(left) = n + Len(cut)
        /\ \A i \in 1 .. n : left[i] = file[i]
        /\ Len(cut) = 1 => left[n + 1] = cut[1]
    BY <1>1
  <1>3. /\ Len(left) \in {n, n + 1}
        /\ Len(left) = n + 1 => left[n + 1].end # "check"
    BY <1>1, <1>2
  <1>4. /\ Readable(left) = IF Readable(file) < n THEN Readable(file) ELSE n
        /\ \A i \in 1 .. Readable(left) :
              load_all_blocks(left)[i] = load_all_blocks(file)[i]
    BY <1>2, <1>3, LoadKeeps
  <1>5. IsPrefix(load_all_blocks(left), load_all_blocks(file))
    <2>1. /\ load_all_blocks(left) \in Seq(Block)
          /\ Len(load_all_blocks(left)) = Readable(left)
      BY <1>2, LoadType
    <2>2. /\ load_all_blocks(file) \in Seq(Block)
          /\ Len(load_all_blocks(file)) = Readable(file)
          /\ Readable(file) \in Nat
      BY LoadType
    <2>3. Readable(left) <= Readable(file) /\ Readable(left) \in Nat
      BY <1>4, <2>2
    <2> QED BY <1>4, <2>1, <2>2, <2>3, SubSeqAgree DEF IsPrefix
  <1> QED BY <1>2, <1>4, <1>5

\* A fragment at the end changes nothing that is read.
LEMMA LoadFragment ==
    ASSUME NEW file \in Seq(Item), NEW cut \in Cuts
    PROVE  /\ file \o cut \in Seq(Item)
           /\ load_all_blocks(file \o cut) = load_all_blocks(file)
           /\ Readable(file \o cut) = Readable(file)
           /\ Readable(file \o cut) = Len(file \o cut) => cut = <<>>
  <1> DEFINE left == file \o cut
             n == Len(file)
  <1>1. /\ cut \in Seq(Item) /\ Len(cut) \in {0, 1}
        /\ Len(cut) = 0 => cut = <<>>
        /\ Len(cut) = 1 => cut[1].end # "check"
    BY CutFacts
  <1>2. /\ left \in Seq(Item) /\ Len(left) = n + Len(cut)
        /\ \A i \in 1 .. n : left[i] = file[i]
        /\ Len(cut) = 1 => left[n + 1] = cut[1]
    BY <1>1
  <1>n. n \in Nat /\ n \in 0 .. Len(file)
    OBVIOUS
  <1> HIDE DEF left, n
  <1>3. /\ Len(left) \in {n, n + 1}
        /\ Len(left) = n + 1 => left[n + 1].end # "check"
    <2>1. CASE Len(cut) = 0
      <3>1. Len(left) = n
        BY <1>2, <1>n, <2>1
      <3> QED BY <1>n, <3>1
    <2>2. CASE Len(cut) = 1
      <3>1. Len(left) = n + 1
        BY <1>2, <1>n, <2>2
      <3>2. left[n + 1].end # "check"
        BY <1>1, <1>2, <2>2
      <3> QED BY <3>1, <3>2
    <2> QED BY <1>1, <2>1, <2>2
  <1>4. /\ Readable(left) = IF Readable(file) < n THEN Readable(file) ELSE n
        /\ \A i \in 1 .. Readable(left) :
              load_all_blocks(left)[i] = load_all_blocks(file)[i]
    BY <1>2, <1>3, <1>n, LoadKeeps
  <1>5. Readable(left) = Readable(file) /\ Readable(file) <= n
    BY <1>4, LoadType DEF n
  <1>6. load_all_blocks(left) = load_all_blocks(file)
    BY <1>4, <1>5 DEF load_all_blocks
  <1>7. Readable(left) = Len(left) => cut = <<>>
    BY <1>1, <1>2, <1>5, <1>n
  <1> QED BY <1>2, <1>5, <1>6, <1>7 DEF left

-----------------------------------------------------------------------------
\* The blocks clients offer are blocks.
LEMMA OfferedType == ASSUME TypeOK PROVE Offered \subseteq Block
  <1> SUFFICES ASSUME NEW b \in Offered PROVE b \in Block
    OBVIOUS
  <1>1. PICK txs \in TxLists :
          \E parent \in Parents, r \in {compute_merkle_root(txs), ZeroRoot},
             time \in Times, nonce \in Nonces :
          b = [header |-> [prev_hash |-> parent, merkle_root |-> r,
                           timestamp |-> time, nonce |-> nonce],
               transactions |-> txs]
    BY DEF Offered
  <1>a. PICK parent \in Parents, r \in {compute_merkle_root(txs), ZeroRoot},
             time \in Times, nonce \in Nonces :
          b = [header |-> [prev_hash |-> parent, merkle_root |-> r,
                           timestamp |-> time, nonce |-> nonce],
               transactions |-> txs]
    BY <1>1
  <1>2. parent \in Hash256
    <2>1. ZeroHash \in Hash256
      BY DEF ZeroHash, Hash256
    <2>2. ASSUME NEW i \in DOMAIN blocks
          PROVE  hash(blocks[i].header) \in Hash256
      <3>1. blocks[i] \in Block
        BY DEF TypeOK
      <3> QED BY <3>1, BlockFields DEF Hash256
    <2> QED BY <2>1, <2>2 DEF Parents
  <1>3. r \in MerkleRoot
    BY DEF MerkleRoot
  <1>4. time \in Nat /\ nonce \in Nat
    BY NodeAssumption
  <1> QED BY <1>a, <1>2, <1>3, <1>4 DEF Block, Header

\* A block in flight is a block.
LEMMA PendingType ==
    ASSUME TypeOK, pc \in {"write", "unflushed", "fsync", "retry", "push"}
    PROVE  pending[1] \in Block /\ pending = <<pending[1]>> /\ pending # <<>>
  BY DEF TypeOK

\* Where no flush fails unnoticed, no destructor has to write again.
LEMMA NoRetry ==
    ASSUME TypeOK, "flush_error" \notin Faults
    PROVE  ~FlushFails /\ ~Retry /\ (pc \in {"fsync", "unflushed"} => AfterFsync = "push")
  BY DEF TypeOK, FlushFails, Retry, AfterFsync

\* Every step keeps the types, with every kind of failure.
LEMMA TypeStep == TypeOK /\ [Next]_vars => TypeOK'
  <1> SUFFICES ASSUME TypeOK, [Next]_vars PROVE TypeOK'
    OBVIOUS
  <1>1. CASE Start
    <2>1. load_all_blocks(log) \in Seq(Block)
      BY LoadType DEF TypeOK
    <2>2. restore_from_store(load_all_blocks(log), 0) \in Seq(Block)
      BY <2>1, RestoredChainOK
    <2> QED BY <1>1, <2>2 DEF Start, TypeOK
  <1>2. ASSUME NEW b \in Offered, AppendAndStore(b) PROVE TypeOK'
    <2>1. b \in Block
      BY OfferedType
    <2> QED BY <1>2, <2>1 DEF AppendAndStore, TypeOK
  <1>3. CASE WriteFails
    <2>1. PICK cut \in Cuts : log' = log \o cut
      BY <1>3 DEF WriteFails
    <2>2. log' \in Seq(Item)
      BY <2>1, LoadFragment DEF TypeOK
    <2>3. refused' \in SUBSET Block
      BY <1>3, PendingType DEF WriteFails, TypeOK
    <2> QED BY <1>3, <2>2, <2>3 DEF WriteFails, TypeOK
  <1>4. CASE Flush
    <2>1. log' \in Seq(Item)
      BY <1>4, PendingType, LoadAppend DEF Flush, TypeOK
    <2> QED BY <1>4, <2>1 DEF Flush, TypeOK
  <1>5. CASE FlushFails
    <2>1. PICK cut \in Cuts : log' = log \o cut
      BY <1>5 DEF FlushFails
    <2>2. log' \in Seq(Item)
      BY <2>1, LoadFragment DEF TypeOK
    <2> QED BY <1>5, <2>2 DEF FlushFails, TypeOK
  <1>6. CASE Fsync
    BY <1>6 DEF Fsync, AfterFsync, TypeOK
  <1>7. CASE FsyncFails
    BY <1>7 DEF FsyncFails, AfterFsync, TypeOK
  <1>8. CASE PushBack
    <2>1. blocks' \in Seq(Block)
      BY <1>8, PendingType DEF PushBack, TypeOK
    <2> QED BY <1>8, <2>1 DEF PushBack, TypeOK
  <1>9. ASSUME NEW b \in Bits, SetDifficulty(b) PROVE TypeOK'
    BY <1>9, NodeAssumption DEF SetDifficulty, TypeOK
  <1>10. CASE ClearStore
    BY <1>10 DEF ClearStore, TypeOK
  <1>11. CASE Crash
    <2>1. PICK cut \in Cuts : log' = log \o cut
      BY <1>11 DEF Crash, Cuts
    <2>2. log' \in Seq(Item)
      BY <2>1, LoadFragment DEF TypeOK
    <2> QED BY <1>11, <2>2 DEF Crash, TypeOK
  <1>12. CASE PowerLoss
    <2>a. /\ pc' = "down" /\ blocks' = <<>> /\ bits' = 0 /\ pending' = <<>>
          /\ disk' = log' /\ truncated' \in BOOLEAN
          /\ acked' = acked /\ refused' = refused
      BY <1>12 DEF PowerLoss
    <2>1. CASE log' = disk
      BY <2>a, <2>1 DEF TypeOK
    <2>2. CASE log' # disk
      <3>1. PICK n \in (IF truncated THEN 0 ELSE Len(disk)) .. Len(log), cut \in Cuts :
                log' = SubSeq(log, 1, n) \o cut
        BY <1>12, <2>2 DEF PowerLoss, Cuts
      <3>2. n \in 0 .. Len(log)
        BY DEF TypeOK
      <3>3. log' \in Seq(Item)
        BY <3>1, <3>2, LoadCut, ZenonT(60) DEF TypeOK
      <3> QED BY <2>a, <3>3 DEF TypeOK
    <2> QED BY <2>1, <2>2
  <1>13. CASE StartThrows
    BY <1>13 DEF StartThrows, TypeOK
  <1>14. CASE Retry
    <2>1. log \in Seq(Item) /\ pending[1] \in Block
      BY <1>14, PendingType DEF Retry, TypeOK
    <2>2. log' \in Seq(Item)
      <3>1. CASE log' = Append(log, Record(pending[1]))
        BY <2>1, <3>1, LoadAppend
      <3>2. CASE \E cut \in Cuts : log' = log \o cut
        BY <2>1, <3>2, LoadFragment
      <3> QED BY <1>14, <3>1, <3>2 DEF Retry
    <2> QED BY <1>14, <2>2 DEF Retry, TypeOK
  <1>15. CASE UNCHANGED vars
    BY <1>15 DEF vars, TypeOK
  <1> QED
    BY <1>1, <1>2, <1>3, <1>4, <1>5, <1>6, <1>7, <1>8, <1>9, <1>10, <1>11, <1>12,
       <1>13, <1>14, <1>15 DEF Next

\* The first state has the types.
LEMMA TypeInit == Init => TypeOK
  <1>1. <<>> \in Seq(Block) /\ <<>> \in Seq(Item) /\ Len(<<>>) = 0 /\ 0 \in Nat
    OBVIOUS
  <1> QED BY <1>1, Zenon DEF Init, TypeOK

\* Type correctness, for every set of failures.
THEOREM NodeTypeOK == Spec => []TypeOK
  BY TypeInit, TypeStep, PTL DEF Spec

-----------------------------------------------------------------------------
\* The block in flight stays valid for the chain it was validated against.
LEMMA PendingStep == TypeOK /\ PendingValid /\ [Next]_vars => PendingValid'
  <1> SUFFICES ASSUME TypeOK, PendingValid, [Next]_vars PROVE PendingValid'
    OBVIOUS
  <1>1. CASE Start \/ FsyncFails
    <2>1. pc \in Down => pending = <<>>
      BY DEF TypeOK
    <2> QED BY <1>1, <2>1 DEF Start, FsyncFails, PendingValid
  <1>2. ASSUME NEW b \in Offered, AppendAndStore(b) PROVE PendingValid'
    <2>1. pending'[1] = b /\ blocks' = blocks /\ validate_block(blocks, bits, b) = "None"
      BY <1>2 DEF AppendAndStore
    <2>2. validate_block(blocks, 0, b) = "None"
      BY <2>1, ValidAtZero
    <2> QED BY <2>1, <2>2 DEF PendingValid
  <1>3. CASE WriteFails \/ PushBack \/ Crash \/ PowerLoss
    <2>1. pending' = <<>>
      BY <1>3 DEF WriteFails, PushBack, Crash, PowerLoss
    <2> QED BY <2>1 DEF PendingValid
  <1>4. CASE Flush \/ FlushFails \/ Fsync \/ Retry \/ UNCHANGED vars
    <2>1. pending' = pending /\ blocks' = blocks
      BY <1>4 DEF Flush, FlushFails, Fsync, Retry, vars
    <2> QED BY <2>1 DEF PendingValid
  <1>5. ASSUME NEW b \in Bits, SetDifficulty(b) PROVE PendingValid'
    BY <1>5 DEF SetDifficulty, PendingValid
  <1>6. CASE ClearStore
    <2>1. pending' = <<>>
      BY <1>6 DEF ClearStore, TypeOK
    <2> QED BY <2>1 DEF PendingValid
  <1>7. CASE StartThrows
    BY <1>7 DEF StartThrows, PendingValid
  <1> QED BY <1>1, <1>2, <1>3, <1>4, <1>5, <1>6, <1>7 DEF Next

\* The chain in memory stays well formed.
LEMMA MemoryStep ==
    TypeOK /\ PendingValid /\ MemoryOK /\ [Next]_vars => MemoryOK'
  <1> SUFFICES ASSUME TypeOK, PendingValid, MemoryOK, [Next]_vars PROVE MemoryOK'
    OBVIOUS
  <1>1. CASE Start
    <2>1. load_all_blocks(log) \in Seq(Block)
      BY LoadType DEF TypeOK
    <2>2. ChainOK(restore_from_store(load_all_blocks(log), 0))
      BY <2>1, RestoredChainOK
    <2> QED BY <1>1, <2>2 DEF Start, MemoryOK
  <1>2. CASE PushBack
    <2>1. pending[1] \in Block /\ pending # <<>>
      BY <1>2, PendingType DEF PushBack
    <2>2. ChainOK(Append(blocks, pending[1]))
      BY <2>1, ChainOKAppend DEF TypeOK, PendingValid, MemoryOK
    <2> QED BY <1>2, <2>2 DEF PushBack, MemoryOK
  <1>3. CASE ClearStore \/ Crash \/ PowerLoss
    <2>1. blocks' = <<>>
      BY <1>3 DEF ClearStore, Crash, PowerLoss
    <2> QED BY <2>1, ChainOKEmpty DEF MemoryOK
  <1>4. CASE blocks' = blocks
    BY <1>4 DEF MemoryOK
  <1> QED
    BY <1>1, <1>2, <1>3, <1>4
    DEF Next, StartThrows, AppendAndStore, WriteFails, Flush, FlushFails, Fsync, FsyncFails,
        Retry, SetDifficulty, vars

\* Whatever fails, and whatever it leaves in the file, the chain in memory is
\* well formed: every hash commits to its whole history, time never runs
\* backwards, roots and signatures are right.
THEOREM NodeMemoryOK == Spec => []MemoryOK
  <1>1. Init => PendingValid /\ MemoryOK
    BY ChainOKEmpty DEF Init, PendingValid, MemoryOK
  <1>2. TypeOK /\ PendingValid /\ MemoryOK /\ [Next]_vars
           => (PendingValid /\ MemoryOK)'
    BY PendingStep, MemoryStep
  <1> QED BY <1>1, <1>2, NodeTypeOK, PTL DEF Spec

-----------------------------------------------------------------------------
\* An empty file holds no blocks.
LEMMA LoadEmpty == load_all_blocks(<<>>) = <<>>
  <1>1. Len(<<>>) = 0
    OBVIOUS
  <1>2. Readable(<<>>) = 0
    BY <1>1, ReadableFacts
  <1> QED BY <1>2 DEF load_all_blocks

\* How a step of the file changes what is read from it, while flush does not
\* fail unnoticed: not at all, by the block in flight, or (with the power) by
\* keeping a part of it or of the synced file.
LEMMA FlushLoads ==
    ASSUME TypeOK, FileTracks, Flush
    PROVE  /\ Readable(log) = Len(log) =>
                 /\ load_all_blocks(log') = Append(blocks, pending[1])
                 /\ load_all_blocks(log) = blocks
           /\ Readable(log) # Len(log) =>
                 /\ load_all_blocks(log') = load_all_blocks(log)
                 /\ Readable(log') # Len(log')
  <1>1. pc = "write" /\ pending[1] \in Block /\ log' = Append(log, Record(pending[1]))
    BY PendingType DEF Flush
  <1>2. log \in Seq(Item) /\ Len(log') = Len(log) + 1 /\ Len(log) \in Nat
    BY <1>1 DEF TypeOK
  <1>3. Readable(log) = Len(log) => load_all_blocks(log) = blocks
    BY <1>1 DEF FileTracks, Written
  <1>4. Readable(log) \in 0 .. Len(log)
    BY <1>2, LoadType
  <1>5. /\ Readable(log) = Len(log) =>
              load_all_blocks(log') = Append(load_all_blocks(log), pending[1])
        /\ Readable(log) # Len(log) =>
              /\ load_all_blocks(log') = load_all_blocks(log)
              /\ Readable(log') = Readable(log)
    BY <1>1, <1>2, LoadAppend
  <1> QED BY <1>2, <1>3, <1>4, <1>5

\* What a loss of power leaves in the file, as the reader sees it.
LEMMA PowerLossLoads ==
    ASSUME TypeOK, PowerLoss
    PROVE  \/ log' = disk
           \/ /\ log' \in Seq(Item)
              /\ IsPrefix(load_all_blocks(log'), load_all_blocks(log))
  <1>1. CASE log' = disk
    BY <1>1
  <1>2. CASE log' # disk
    <2>1. PICK n \in (IF truncated THEN 0 ELSE Len(disk)) .. Len(log), cut \in Cuts :
              log' = SubSeq(log, 1, n) \o cut
      BY <1>2 DEF PowerLoss, Cuts
    <2>2. n \in 0 .. Len(log) /\ log \in Seq(Item)
      BY DEF TypeOK
    <2>3. \A left : left = SubSeq(log, 1, n) \o cut =>
                       /\ left \in Seq(Item)
                       /\ IsPrefix(load_all_blocks(left), load_all_blocks(log))
      BY <2>2, LoadCut, Zenon
    <2> QED BY <2>1, <2>3, Zenon
  <1> QED BY <1>1, <1>2

\* A fragment at the end changes nothing for the reader.
LEMMA CutLoads ==
    ASSUME TypeOK, WriteFails \/ Crash
    PROVE  /\ load_all_blocks(log') = load_all_blocks(log)
           /\ Readable(log') = Readable(log)
           /\ Readable(log') = Len(log') => log' = log
           /\ Len(log) <= Len(log') /\ \A i \in 1 .. Len(log) : log'[i] = log[i]
  <1>1. PICK cut \in Cuts : log' = log \o cut
    BY DEF WriteFails, Crash, Cuts
  <1>2. log \in Seq(Item) /\ cut \in Seq(Item)
    BY CutFacts DEF TypeOK
  <1>3. log \o <<>> = log
    BY <1>2
  <1>4. Len(log) <= Len(log \o cut) /\ \A i \in 1 .. Len(log) : (log \o cut)[i] = log[i]
    BY <1>2
  <1> QED BY <1>1, <1>2, <1>3, <1>4, LoadFragment

\* Every chain there is, or may come back, stays sound.
LEMMA SoundStep ==
    ASSUME "flush_error" \notin Faults, TypeOK, PendingValid, FileSound, FileTracks,
           [Next]_vars
    PROVE  FileSound'
  <1>0. /\ log \in Seq(Item) /\ disk \in Seq(Item) /\ blocks \in Seq(Block)
        /\ load_all_blocks(log) \in Seq(Block)
        /\ load_all_blocks(disk) \in Seq(Block)
    BY LoadType DEF TypeOK
  <1>1. CASE Start
    BY <1>0, <1>1, SoundRestore DEF Start, FileSound
  <1>2. CASE WriteFails
    <2>1. load_all_blocks(log') = load_all_blocks(log)
      BY <1>2, CutLoads
    <2> QED BY <1>2, <2>1 DEF WriteFails, FileSound
  <1>3. CASE Flush
    <2>1. pending[1] \in Block /\ pending # <<>>
      BY <1>3, PendingType DEF Flush
    <2>2. Sound(Append(blocks, pending[1]))
      BY <1>0, <2>1, SoundAppend DEF FileSound, PendingValid
    <2>3. Sound(load_all_blocks(log'))
      BY <1>3, <2>2, FlushLoads DEF FileSound
    <2> QED BY <1>3, <2>3 DEF Flush, FileSound
  <1>4. CASE Fsync
    BY <1>4 DEF Fsync, FileSound
  <1>5. CASE PushBack
    <2>1. pending[1] \in Block /\ pending # <<>>
      BY <1>5, PendingType DEF PushBack
    <2>2. Sound(Append(blocks, pending[1]))
      BY <1>0, <2>1, SoundAppend DEF FileSound, PendingValid
    <2> QED BY <1>5, <2>2 DEF PushBack, FileSound
  <1>6. CASE ClearStore
    BY <1>6, LoadEmpty, SoundEmpty DEF ClearStore, FileSound
  <1>7. CASE Crash
    <2>1. load_all_blocks(log') = load_all_blocks(log)
      BY <1>7, CutLoads
    <2> QED BY <1>7, <2>1, SoundEmpty DEF Crash, FileSound
  <1>8. CASE PowerLoss
    <2>1. blocks' = <<>> /\ disk' = log'
      BY <1>8 DEF PowerLoss
    <2>2. Sound(load_all_blocks(log'))
      <3>1. CASE log' = disk
        BY <3>1 DEF FileSound
      <3>2. CASE /\ log' \in Seq(Item)
                 /\ IsPrefix(load_all_blocks(log'), load_all_blocks(log))
        <4>1. load_all_blocks(log') \in Seq(Block)
          BY <3>2, LoadType
        <4> QED BY <1>0, <3>2, <4>1, SoundPrefix DEF FileSound
      <3> QED BY <1>8, <3>1, <3>2, PowerLossLoads
    <2> QED BY <2>1, <2>2, SoundEmpty DEF FileSound
  <1>9. CASE UNCHANGED <<blocks, log, disk>>
    BY <1>9 DEF FileSound
  <1> QED
    BY <1>1, <1>2, <1>3, <1>4, <1>5, <1>6, <1>7, <1>8, <1>9, NoRetry
    DEF Next, StartThrows, AppendAndStore, FsyncFails, SetDifficulty, vars

\* The file keeps telling the story of the memory.
LEMMA TracksStep ==
    ASSUME "flush_error" \notin Faults, TypeOK, PendingValid, FileSound, FileTracks,
           [Next]_vars
    PROVE  FileTracks'
  <1>0. /\ log \in Seq(Item) /\ blocks \in Seq(Block)
        /\ load_all_blocks(log) \in Seq(Block)
    BY LoadType DEF TypeOK
  <1>1. CASE Start
    <2>1. pc' = "idle" /\ log' = log /\ blocks' = load_all_blocks(log)
      BY <1>0, <1>1, SoundRestore DEF Start, FileSound
    <2>2. Written' = load_all_blocks(log')
      BY <2>1 DEF Written
    <2> QED BY <1>0, <2>1, <2>2, PrefixSame DEF FileTracks
  <1>2. ASSUME NEW b \in Offered, AppendAndStore(b) PROVE FileTracks'
    BY <1>2 DEF AppendAndStore, FileTracks, Written
  <1>3. CASE WriteFails
    <2>1. Written' = Written /\ pc \notin Down
      BY <1>3 DEF WriteFails, Written
    <2> QED BY <1>3, <2>1, CutLoads DEF FileTracks
  <1>4. CASE Flush
    <2>1. /\ pending[1] \in Block /\ pending = <<pending[1]>>
          /\ pc = "write" /\ pc' = "fsync" /\ blocks' = blocks /\ pending' = pending
      BY <1>4, PendingType DEF Flush
    <2>a. blocks \o pending = Append(blocks, pending[1])
      BY <1>0, <2>1, ConcatOne DEF TypeOK
    <2>2. Append(blocks, pending[1]) \in Seq(Block) /\ Written' = Append(blocks, pending[1])
      BY <1>0, <2>1, <2>a DEF Written
    <2>3. CASE Readable(log) = Len(log)
      BY <1>4, <2>2, <2>3, FlushLoads, PrefixSame DEF FileTracks
    <2>4. CASE Readable(log) # Len(log)
      <3>1. IsPrefix(load_all_blocks(log), blocks)
        BY <2>1 DEF FileTracks, Written
      <3>2. /\ Len(blocks) <= Len(Append(blocks, pending[1]))
            /\ \A i \in 1 .. Len(blocks) : Append(blocks, pending[1])[i] = blocks[i]
        BY <1>0
      <3>3. IsPrefix(load_all_blocks(log), Append(blocks, pending[1]))
        BY <1>0, <2>2, <3>1, <3>2, PrefixLonger
      <3> QED BY <1>4, <2>2, <2>4, <3>3, FlushLoads DEF FileTracks
    <2> QED BY <2>3, <2>4
  <1>5. CASE Fsync \/ FsyncFails
    BY <1>5, NoRetry DEF Fsync, FsyncFails, TypeOK, FileTracks, Written
  <1>6. CASE PushBack
    <2>1. /\ pending[1] \in Block /\ pending = <<pending[1]>> /\ pc = "push"
      BY <1>6, PendingType DEF PushBack
    <2>2. blocks \o pending = Append(blocks, pending[1])
      BY <1>0, <1>6, ConcatOne DEF PushBack, TypeOK
    <2>3. Written' = Written /\ log' = log
      BY <1>6, <2>1, <2>2 DEF PushBack, Written
    <2> QED BY <2>1, <2>3 DEF FileTracks
  <1>7. ASSUME NEW b \in Bits, SetDifficulty(b) PROVE FileTracks'
    BY <1>7 DEF SetDifficulty, FileTracks, Written
  <1>8. CASE ClearStore
    <2>1. <<>> \in Seq(Block)
      OBVIOUS
    <2>2. Written' = <<>> /\ log' = <<>>
      BY <1>8 DEF ClearStore, Written
    <2> QED BY <2>1, <2>2, LoadEmpty, PrefixSame DEF FileTracks
  <1>9. CASE pc' \in Down
    BY <1>9 DEF FileTracks
  <1>10. CASE UNCHANGED vars
    BY <1>10 DEF vars, FileTracks, Written
  <1> QED
    BY <1>1, <1>2, <1>3, <1>4, <1>5, <1>6, <1>7, <1>8, <1>9, <1>10, NoRetry
    DEF Next, StartThrows, Crash, PowerLoss

\* What was synced stays in the file until it is truncated.
LEMMA SyncedStep ==
    ASSUME "flush_error" \notin Faults, TypeOK, TypeOK', SyncedKept, [Next]_vars
    PROVE  SyncedKept'
  <1>0. log \in Seq(Item) /\ disk \in Seq(Item) /\ log' \in Seq(Item)
    BY DEF TypeOK
  <1>1. CASE WriteFails \/ Crash
    <2>1. disk' = disk /\ truncated' = truncated
      BY <1>1 DEF WriteFails, Crash
    <2>2. Len(log) <= Len(log') /\ \A i \in 1 .. Len(log) : log'[i] = log[i]
      BY <1>1, CutLoads
    <2>3. IsPrefix(disk, log) => IsPrefix(disk, log')
      BY <1>0, <2>2, PrefixLonger
    <2> QED BY <2>1, <2>3 DEF SyncedKept
  <1>2. CASE Flush
    <2>1. /\ disk' = disk /\ truncated' = truncated
          /\ log' = Append(log, Record(pending[1]))
      BY <1>2 DEF Flush
    <2>2. Len(log) <= Len(log') /\ \A i \in 1 .. Len(log) : log'[i] = log[i]
      BY <1>0, <2>1
    <2>3. IsPrefix(disk, log) => IsPrefix(disk, log')
      BY <1>0, <2>2, PrefixLonger
    <2> QED BY <2>1, <2>3 DEF SyncedKept
  <1>3. CASE Fsync \/ PowerLoss
    <2>1. disk' = log'
      BY <1>3 DEF Fsync, PowerLoss
    <2> QED BY <1>0, <2>1, PrefixSame DEF SyncedKept
  <1>4. CASE ClearStore
    BY <1>4 DEF ClearStore, SyncedKept
  <1>5. CASE UNCHANGED <<log, disk, truncated>>
    BY <1>5 DEF SyncedKept
  <1> QED
    BY <1>1, <1>2, <1>3, <1>4, <1>5, NoRetry
    DEF Next, Start, StartThrows, AppendAndStore, FsyncFails, PushBack,
        SetDifficulty, vars

\* The inductive invariant, as long as no flush fails unnoticed.
THEOREM NodeInductive ==
    ASSUME "flush_error" \notin Faults
    PROVE  Spec => []IndInv
  <1>1. Init => IndInv
    <2> SUFFICES ASSUME Init PROVE IndInv
      OBVIOUS
    <2>1. <<>> \in Seq(Item)
      OBVIOUS
    <2>2. TypeOK
      BY TypeInit
    <2>3. PendingValid /\ FileTracks
      BY DEF Init, PendingValid, FileTracks
    <2>4. FileSound
      BY LoadEmpty, SoundEmpty DEF Init, FileSound
    <2>5. SyncedKept
      BY <2>1, PrefixSame DEF Init, SyncedKept
    <2> QED BY <2>2, <2>3, <2>4, <2>5 DEF IndInv
  <1>2. IndInv /\ [Next]_vars => IndInv'
    BY TypeStep, PendingStep, SoundStep, TracksStep, SyncedStep DEF IndInv
  <1> QED BY <1>1, <1>2, PTL DEF Spec

\* As long as no flush fails unnoticed, the file never tells another story than
\* the memory, whatever else fails.
THEOREM NodeFileFollowsMemory ==
    ASSUME "flush_error" \notin Faults
    PROVE  Spec => []FileFollowsMemory
  <1>1. IndInv => FileFollowsMemory
    <2> SUFFICES ASSUME IndInv, pc \notin Down
                 PROVE  IsPrefix(load_all_blocks(log), blocks \o pending)
      BY DEF FileFollowsMemory
    <2>1. IsPrefix(load_all_blocks(log), Written)
      BY DEF IndInv, FileTracks
    <2>2. /\ blocks \in Seq(Block) /\ pending \in Seq(Block) /\ log \in Seq(Item)
          /\ load_all_blocks(log) \in Seq(Block)
      BY LoadType DEF IndInv, TypeOK
    <2>3. /\ blocks \o pending \in Seq(Block)
          /\ Len(blocks) <= Len(blocks \o pending)
          /\ \A i \in 1 .. Len(blocks) : (blocks \o pending)[i] = blocks[i]
      BY <2>2
    <2>4. IsPrefix(load_all_blocks(log), blocks)
             => IsPrefix(load_all_blocks(log), blocks \o pending)
      BY <2>2, <2>3, PrefixLonger
    <2> QED BY <2>1, <2>4 DEF Written
  <1> QED BY <1>1, NodeInductive, PTL

\* As long as no flush fails unnoticed, everything that is read from the file is
\* restored, whatever else fails.
THEOREM NodeLogReplays ==
    ASSUME "flush_error" \notin Faults
    PROVE  Spec => []LogReplays
  <1>1. IndInv => LogReplays
    <2> SUFFICES ASSUME IndInv, NEW file \in {log, disk}
                 PROVE  restore_from_store(load_all_blocks(file), 0)
                           = load_all_blocks(file)
      BY DEF LogReplays
    <2>1. Sound(load_all_blocks(file)) /\ load_all_blocks(file) \in Seq(Block)
      BY LoadType DEF IndInv, TypeOK, FileSound
    <2> QED BY <2>1, SoundRestore
  <1> QED BY <1>1, NodeInductive, PTL

-----------------------------------------------------------------------------
\* A file that starts like another is read at least as far.
LEMMA LoadPrefix ==
    ASSUME NEW file \in Seq(Item), NEW longer \in Seq(Item), Len(file) <= Len(longer),
           \A i \in 1 .. Len(file) : longer[i] = file[i]
    PROVE  IsPrefix(load_all_blocks(file), load_all_blocks(longer))
  <1> DEFINE r == Readable(file)
             q == Readable(longer)
  <1>1. /\ Len(file) \in Nat /\ Len(longer) \in Nat
        /\ r \in 0 .. Len(file) /\ q \in 0 .. Len(longer)
        /\ \A i \in 1 .. r : file[i].end = "check"
        /\ q < Len(longer) => longer[q + 1].end # "check"
    BY ReadableFacts
  <1> HIDE DEF r, q
  <1>2. r <= q
    BY <1>1
  <1>3. \A i \in 1 .. r : load_all_blocks(file)[i] = load_all_blocks(longer)[i]
    BY <1>1, <1>2 DEF load_all_blocks, r, q
  <1>4. /\ load_all_blocks(file) \in Seq(Block) /\ Len(load_all_blocks(file)) = r
        /\ load_all_blocks(longer) \in Seq(Block) /\ Len(load_all_blocks(longer)) = q
    BY LoadType DEF r, q
  <1>5. SubSeq(load_all_blocks(file), 1, r) = SubSeq(load_all_blocks(longer), 1, r)
    BY <1>1, <1>2, <1>3, <1>4, SubSeqAgree
  <1> QED BY <1>2, <1>4, <1>5 DEF IsPrefix

\* Instantiating the ledger renames the rules of module Blocks, and no more.
LEMMA SameRules ==
    ASSUME NEW chain, NEW difficulty, NEW block
    PROVE  /\ Durable!Block = Block
           /\ Durable!validate_block(chain, difficulty, block)
                = validate_block(chain, difficulty, block)
  <1>1. \A leaves : Durable!root(leaves) = root(leaves)
    BY Zenon DEF Durable!root, root, Durable!NextLevel, NextLevel,
       Durable!hash_pair, hash_pair, Durable!empty_root, empty_root
  <1>2. \A txs : Durable!compute_merkle_root(txs) = compute_merkle_root(txs)
    BY <1>1, Zenon DEF Durable!compute_merkle_root, compute_merkle_root, Durable!tx_hash, tx_hash
  <1>3. Durable!Block = Block
    BY <1>2, Zenon DEF Durable!Block, Block, Durable!Header, Header, Durable!MerkleRoot,
       MerkleRoot, Durable!Hash256, Hash256, Durable!Link, Link, Durable!ZeroRoot, ZeroRoot
  <1>4. Durable!validate_block(chain, difficulty, block)
          = validate_block(chain, difficulty, block)
    BY <1>2, Zenon DEF Durable!validate_block, validate_block, Durable!Unverified, Unverified,
       Durable!verify, verify, Durable!CoinbaseFirst, CoinbaseFirst,
       Durable!IsCoinbase, IsCoinbase, Durable!TipHash, TipHash, Durable!ZeroHash, ZeroHash,
       Durable!hash, hash, Durable!PowWaived, PowWaived,
       Durable!meets_difficulty, meets_difficulty
  <1> QED BY <1>3, <1>4

\* The ledger's prefixes are those of the node.
LEMMA SamePrefix ==
    ASSUME NEW s, NEW t PROVE Durable!IsPrefix(s, t) <=> IsPrefix(s, t)
  BY DEF Durable!IsPrefix, IsPrefix

\* A loss of power maps to one of the ledger.
LEMMA PowerLossMaps ==
    ASSUME IndInv, TypeOK', PowerLoss
    PROVE  Durable!LosePower
  <1>0. /\ log \in Seq(Item) /\ disk \in Seq(Item) /\ log' \in Seq(Item)
        /\ load_all_blocks(log') \in Seq(Block)
    BY LoadType DEF IndInv, TypeOK
  <1>1. disk' = log' /\ truncated' = FALSE
    BY DEF PowerLoss
  <1>2. CASE log' = disk
    BY <1>1, <1>2 DEF Durable!LosePower
  <1>3. CASE log' # disk
    <2>1. PICK n \in (IF truncated THEN 0 ELSE Len(disk)) .. Len(log), cut \in Cuts :
              log' = SubSeq(log, 1, n) \o cut
      BY <1>3 DEF PowerLoss, Cuts
    <2>2. n \in 0 .. Len(log)
      BY <1>0
    <2>3. \A left : left = SubSeq(log, 1, n) \o cut =>
                       IsPrefix(load_all_blocks(left), load_all_blocks(log))
      BY <1>0, <2>2, LoadCut, Zenon
    <2>6. /\ cut \in Seq(Item) /\ Len(cut) \in Nat
          /\ SubSeq(log, 1, n) \in Seq(Item) /\ Len(SubSeq(log, 1, n)) = n
          /\ \A i \in 1 .. n : SubSeq(log, 1, n)[i] = log[i]
      BY <1>0, <2>2, CutFacts
    <2>4. /\ Len(log') = n + Len(cut)
          /\ \A i \in 1 .. n : log'[i] = log[i]
          /\ IsPrefix(load_all_blocks(log'), load_all_blocks(log))
      <3>1. IsPrefix(load_all_blocks(log'), load_all_blocks(log))
        BY <2>1, <2>3, Zenon
      <3>2. Len(log') = n + Len(cut) /\ \A i \in 1 .. n : log'[i] = log[i]
        BY <2>1, <2>2, <2>6
      <3> QED BY <3>1, <3>2
    <2>5. ASSUME ~truncated
          PROVE  IsPrefix(load_all_blocks(disk), load_all_blocks(log'))
      <3>1. IsPrefix(disk, log)
        BY <2>5 DEF IndInv, SyncedKept
      <3>2. Len(disk) \in Nat /\ Len(disk) <= n /\ Len(cut) \in Nat
        BY <1>0, <2>5, CutFacts
      <3>3. \A i \in 1 .. Len(disk) : log[i] = disk[i]
        BY <1>0, <3>1 DEF IsPrefix
      <3>4. Len(disk) <= Len(log')
        BY <2>2, <2>4, <3>2
      <3>5. \A i \in 1 .. Len(disk) : log'[i] = disk[i]
        BY <2>2, <2>4, <3>2, <3>3
      <3> QED BY <1>0, <3>4, <3>5, LoadPrefix
    <2> QED BY <1>0, <1>1, <2>4, <2>5, SameRules, SamePrefix DEF Durable!LosePower
  <1> QED BY <1>2, <1>3

\* The step of a flush maps to Extend, or to no step behind a fragment.
LEMMA FlushMaps ==
    ASSUME IndInv, Flush
    PROVE  Durable!Extend \/ UNCHANGED Durable!vars
  <1>1. /\ pending[1] \in Block /\ pending # <<>> /\ blocks \in Seq(Block)
        /\ disk' = disk /\ truncated' = truncated
    BY PendingType DEF Flush, IndInv, TypeOK
  <1>2. CASE Readable(log) = Len(log)
    <2>1. /\ load_all_blocks(log') = Append(blocks, pending[1])
          /\ load_all_blocks(log) = blocks
      BY <1>2, FlushLoads DEF IndInv
    <2>2. validate_block(blocks, 0, pending[1]) = "None"
      BY <1>1 DEF IndInv, PendingValid
    <2>3. /\ Len(Append(blocks, pending[1])) = Len(blocks) + 1
          /\ Append(blocks, pending[1])[Len(Append(blocks, pending[1]))] = pending[1]
      BY <1>1
    <2> QED BY <1>1, <2>1, <2>2, <2>3, SameRules DEF Durable!Extend
  <1>3. CASE Readable(log) # Len(log)
    BY <1>1, <1>3, FlushLoads DEF IndInv, Durable!vars
  <1> QED BY <1>2, <1>3

\* The node implements the ledger: as long as no flush fails unnoticed, what a
\* process would restore grows by one valid block at a time, is cleared, or
\* falls back to a part that contains what was synced, and nothing else happens
\* to it, whatever else fails.
THEOREM NodeImplementsLedger ==
    ASSUME "flush_error" \notin Faults
    PROVE  Spec => ImplementsLedger
  <1>1. Init => Durable!Init
    BY LoadEmpty DEF Init, Durable!Init
  <1>2. ASSUME IndInv, IndInv', [Next]_vars
        PROVE  [Durable!Next]_(Durable!vars)
    <2>0. TypeOK /\ TypeOK'
      BY <1>2 DEF IndInv
    <2>1. CASE Flush
      BY <1>2, <2>1, FlushMaps DEF Durable!Next
    <2>2. CASE Fsync
      BY <2>2 DEF Fsync, Durable!Next, Durable!Sync
    <2>3. CASE ClearStore
      BY <2>3, LoadEmpty DEF ClearStore, Durable!Next, Durable!Clear
    <2>4. CASE PowerLoss
      BY <1>2, <2>0, <2>4, PowerLossMaps DEF Durable!Next
    <2>5. CASE WriteFails \/ Crash
      <3>1. load_all_blocks(log') = load_all_blocks(log)
        BY <2>0, <2>5, CutLoads
      <3> QED BY <2>5, <3>1 DEF WriteFails, Crash, Durable!vars
    <2>6. CASE UNCHANGED <<log, disk, truncated>>
      BY <2>6 DEF Durable!vars
    <2> QED
      BY <1>2, <2>0, <2>1, <2>2, <2>3, <2>4, <2>5, <2>6, NoRetry
      DEF Next, Start, StartThrows, AppendAndStore, FsyncFails, PushBack,
          SetDifficulty, vars
  <1> QED BY <1>1, <1>2, NodeInductive, PTL DEF Spec, ImplementsLedger, Durable!Spec

-----------------------------------------------------------------------------
\* A block that extends a chain is in no part of it: its parent is the hash of the tip,
\* which commits to more headers than any parent in the chain does.
LEMMA ValidIsNew ==
    ASSUME NEW chain \in Seq(Block), NEW part \in Seq(Block), NEW d, NEW b \in Block,
           HashesCommit(chain), IsPrefix(part, chain), validate_block(chain, d, b) = "None"
    PROVE  \A i \in 1 .. Len(part) : part[i] # b
  <1> SUFFICES ASSUME NEW i \in 1 .. Len(part), part[i] = b PROVE FALSE
    OBVIOUS
  <1>1. i \in 1 .. Len(chain) /\ chain[i] = b /\ Len(chain) \in Nat
    BY DEF IsPrefix
  <1>2. b.header.prev_hash = [k \in 1 .. i - 1 |-> LinkOf(chain[k])]
    BY <1>1, ParentCommits
  <1>3. b.header.prev_hash = [k \in 1 .. Len(chain) |-> LinkOf(chain[k])]
    BY ValidBlock, TipCommits
  <1>4. 1 .. i - 1 = 1 .. Len(chain)
    BY <1>2, <1>3
  <1> QED BY <1>1, <1>4

\* The blocks in a file are those that are read from it.
LEMMA StoredFacts ==
    ASSUME NEW file \in Seq(Item), NEW b
    PROVE  b \in Stored(file) <=>
              \E i \in 1 .. Len(load_all_blocks(file)) : load_all_blocks(file)[i] = b
  BY LoadType DEF Stored

\* Fewer blocks in front are fewer blocks.
LEMMA StoredPrefix ==
    ASSUME NEW file \in Seq(Item), NEW left \in Seq(Item),
           IsPrefix(load_all_blocks(left), load_all_blocks(file))
    PROVE  Stored(left) \subseteq Stored(file)
  <1>1. /\ load_all_blocks(left) \in Seq(Block) /\ load_all_blocks(file) \in Seq(Block)
        /\ Len(load_all_blocks(left)) \in Nat /\ Len(load_all_blocks(file)) \in Nat
    BY LoadType
  <1>2. /\ Len(load_all_blocks(left)) <= Len(load_all_blocks(file))
        /\ \A i \in 1 .. Len(load_all_blocks(left)) :
              load_all_blocks(left)[i] = load_all_blocks(file)[i]
    BY <1>1 DEF IsPrefix
  <1> QED BY <1>1, <1>2, StoredFacts

\* The block in flight is not in the file before it is written.
LEMMA PendingIsNew ==
    ASSUME IndInv, pc = "write"
    PROVE  pending[1] \notin Stored(log)
  <1>1. pending[1] \in Block /\ pending # <<>>
    BY PendingType DEF IndInv
  <1>2. /\ log \in Seq(Item) /\ blocks \in Seq(Block)
        /\ load_all_blocks(log) \in Seq(Block)
    BY LoadType DEF IndInv, TypeOK
  <1>3. IsPrefix(load_all_blocks(log), blocks) /\ HashesCommit(blocks)
    BY DEF IndInv, FileTracks, Written, FileSound, Sound, ChainOK
  <1>4. validate_block(blocks, 0, pending[1]) = "None"
    BY <1>1 DEF IndInv, PendingValid
  <1> QED BY <1>1, <1>2, <1>3, <1>4, ValidIsNew, StoredFacts

\* A refused block stays out of the file, and out of what was synced of it.
LEMMA ZombieStep ==
    ASSUME "flush_error" \notin Faults, IndInv, IndInv', NoZombie, RefusedApart, [Next]_vars
    PROVE  (NoZombie /\ RefusedApart)'
  <1>0. /\ TypeOK /\ TypeOK'
        /\ log \in Seq(Item) /\ disk \in Seq(Item) /\ log' \in Seq(Item)
    BY DEF IndInv, TypeOK
  <1>1. CASE Start \/ StartThrows \/ UNCHANGED vars
    BY <1>1 DEF Start, StartThrows, vars, NoZombie, RefusedApart
  <1>2. ASSUME NEW b \in Offered, AppendAndStore(b) PROVE (NoZombie /\ RefusedApart)'
    <2>1. /\ pending' = <<b>> /\ refused' = refused \ {b} /\ log' = log /\ disk' = disk
      BY <1>2 DEF AppendAndStore
    <2>2. pending'[1] = b
      BY <2>1
    <2> QED BY <2>1, <2>2 DEF NoZombie, RefusedApart
  <1>3. CASE WriteFails
    <2>1. /\ pc = "write" /\ pending' = <<>> /\ disk' = disk
          /\ refused' \in {refused, {pending[1]} \ Stored(disk)}
      BY <1>3 DEF WriteFails
    <2>2. Stored(log') = Stored(log)
      BY <1>0, <1>3, CutLoads DEF Stored
    <2>3. pending[1] \notin Stored(log)
      BY <2>1, PendingIsNew
    <2> QED BY <2>1, <2>2, <2>3 DEF NoZombie, RefusedApart
  <1>4. CASE Flush
    <2>1. /\ pc = "write" /\ pending' = pending /\ disk' = disk /\ refused' = refused
          /\ log' = Append(log, Record(pending[1]))
      BY <1>4 DEF Flush
    <2>2. pending[1] \in Block /\ pending # <<>>
      BY <1>0, <2>1, PendingType
    <2>3. \/ load_all_blocks(log') = Append(load_all_blocks(log), pending[1])
          \/ load_all_blocks(log') = load_all_blocks(log)
      BY <1>0, <2>1, <2>2, LoadAppend
    <2>4. Stored(log') \subseteq Stored(log) \cup {pending[1]}
      <3>1. load_all_blocks(log) \in Seq(Block)
        BY <1>0, LoadType
      <3>2. \A i \in 1 .. Len(load_all_blocks(log')) :
               \/ load_all_blocks(log')[i] = pending[1]
               \/ /\ i \in 1 .. Len(load_all_blocks(log))
                  /\ load_all_blocks(log')[i] = load_all_blocks(log)[i]
        BY <2>2, <2>3, <3>1
      <3> QED BY <1>0, <3>2, StoredFacts
    <2> QED BY <2>1, <2>2, <2>4 DEF NoZombie, RefusedApart
  <1>5. CASE Fsync \/ FsyncFails
    BY <1>5 DEF Fsync, FsyncFails, NoZombie, RefusedApart
  <1>6. CASE PushBack
    BY <1>6 DEF PushBack, NoZombie, RefusedApart
  <1>7. ASSUME NEW b \in Bits, SetDifficulty(b) PROVE (NoZombie /\ RefusedApart)'
    BY <1>7 DEF SetDifficulty, NoZombie, RefusedApart
  <1>8. CASE ClearStore
    <2>1. Stored(log') = {}
      <3>1. load_all_blocks(log') = <<>>
        BY <1>8, LoadEmpty DEF ClearStore
      <3> QED BY <1>0, <3>1, StoredFacts
    <2> QED BY <1>8, <2>1 DEF ClearStore, NoZombie, RefusedApart
  <1>9. CASE Crash
    <2>1. Stored(log') = Stored(log)
      BY <1>0, <1>9, CutLoads DEF Stored
    <2> QED BY <1>9, <2>1 DEF Crash, NoZombie, RefusedApart
  <1>10. CASE PowerLoss
    <2>1. disk' = log' /\ refused' = refused /\ pending' = <<>>
      BY <1>10 DEF PowerLoss
    <2>2. Stored(log') \subseteq Stored(disk) \/ Stored(log') \subseteq Stored(log)
      BY <1>0, <1>10, PowerLossLoads, StoredPrefix
    <2> QED BY <2>1, <2>2 DEF NoZombie, RefusedApart
  <1> QED
    BY <1>0, <1>1, <1>2, <1>3, <1>4, <1>5, <1>6, <1>7, <1>8, <1>9, <1>10, NoRetry DEF Next

\* As long as no flush fails unnoticed, a block append_and_store reported as not stored
\* never comes back, however often writes fail, processes crash and power is lost.
THEOREM NodeNoZombie ==
    ASSUME "flush_error" \notin Faults
    PROVE  Spec => []NoZombie
  <1>1. Init => NoZombie /\ RefusedApart
    BY DEF Init, NoZombie, RefusedApart
  <1>2. IndInv /\ IndInv' /\ NoZombie /\ RefusedApart /\ [Next]_vars
           => (NoZombie /\ RefusedApart)'
    BY ZombieStep
  <1> QED BY <1>1, <1>2, NodeInductive, PTL DEF Spec

-----------------------------------------------------------------------------
\* A prefix of a prefix is a prefix.
LEMMA PrefixTrans ==
    ASSUME NEW S, NEW s \in Seq(S), NEW t \in Seq(S), NEW u \in Seq(S),
           IsPrefix(s, t), IsPrefix(t, u)
    PROVE  IsPrefix(s, u)
  <1>1. Len(t) <= Len(u) /\ \A i \in 1 .. Len(t) : u[i] = t[i]
    BY DEF IsPrefix
  <1> QED BY <1>1, PrefixLonger

\* The faults under which append_and_store keeps its word: the stream may be bad and the
\* power may fail, but no flush or sync fails unnoticed and no write is cut short.
Honest == Faults \cap {"flush_error", "fsync_error", "partial_write"} = {}

\* A whole file stays whole, and what it loses with the power was not synced.
LEMMA WholeStep ==
    ASSUME Honest, IndInv, TypeOK', AckedSynced, [Next]_vars
    PROVE  Readable(log') = Len(log') /\ Readable(disk') = Len(disk')
  <1>0. /\ TypeOK /\ log \in Seq(Item) /\ disk \in Seq(Item) /\ log' \in Seq(Item)
        /\ Readable(log) = Len(log) /\ Readable(disk) = Len(disk)
    BY DEF IndInv, TypeOK, AckedSynced
  <1>1. Cuts = {<<>>}
    BY DEF Honest, Cuts
  <1>2. CASE WriteFails \/ Crash
    <2>1. log' = log \o <<>> /\ disk' = disk
      BY <1>1, <1>2 DEF WriteFails, Crash
    <2>2. log' = log
      BY <1>0, <2>1
    <2> QED BY <1>0, <2>1, <2>2
  <1>3. CASE Flush
    <2>1. pending[1] \in Block /\ disk' = disk /\ log' = Append(log, Record(pending[1]))
      BY <1>0, <1>3, PendingType DEF Flush
    <2>2. Len(log') = Len(log) + 1
      BY <1>0, <2>1
    <2> QED BY <1>0, <2>1, <2>2, LoadAppend
  <1>4. CASE Fsync
    BY <1>0, <1>4 DEF Fsync
  <1>5. CASE ClearStore
    <2>1. log' = <<>> /\ disk' = disk
      BY <1>5 DEF ClearStore
    <2>2. Len(log') = 0
      BY <2>1
    <2>3. Readable(log') \in 0 .. Len(log')
      BY <1>0, LoadType
    <2> QED BY <1>0, <2>1, <2>2, <2>3
  <1>6. CASE PowerLoss
    <2>1. disk' = log'
      BY <1>6 DEF PowerLoss
    <2>2. CASE log' = disk
      BY <1>0, <2>1, <2>2
    <2>3. CASE log' # disk
      <3>1. PICK n \in (IF truncated THEN 0 ELSE Len(disk)) .. Len(log), cut \in Cuts :
                log' = SubSeq(log, 1, n) \o cut
        BY <1>6, <2>3 DEF PowerLoss, Cuts
      <3>2. n \in 0 .. Len(log) /\ Len(cut) = 0
        BY <1>0, <1>1
      <3>3. /\ cut = <<>> /\ SubSeq(log, 1, n) \in Seq(Item)
            /\ Len(SubSeq(log, 1, n)) = n
            /\ \A i \in 1 .. n : SubSeq(log, 1, n)[i] = log[i]
        BY <1>0, <1>1, <3>2
      <3>4. log' = SubSeq(log, 1, n)
        BY <3>1, <3>3
      <3>5. Len(log') = n /\ \A i \in 1 .. n : log'[i] = log[i]
        BY <3>3, <3>4, Zenon
      <3>6. \A i \in 1 .. n : log'[i].end = "check"
        <4>1. \A i \in 1 .. Len(log) : log[i].end = "check"
          BY <1>0, ReadableFacts
        <4> QED BY <1>0, <3>2, <3>5, <4>1
      <3>7. ASSUME NEW file, Len(file) = n, \A i \in 1 .. n : file[i].end = "check"
            PROVE  Readable(file) = Len(file)
        <4>1. n \in Nat /\ n \in 0 .. Len(file) /\ ~(n < Len(file))
          BY <1>0, <3>2, <3>7
        <4> QED BY <3>7, <4>1, ReadableUnique
      <3>8. Readable(log') = Len(log')
        BY <3>5, <3>6, <3>7, Zenon
      <3> QED BY <2>1, <3>8
    <2> QED BY <2>2, <2>3
  <1>7. CASE UNCHANGED <<log, disk>>
    BY <1>0, <1>7
  <1>8. ~FlushFails /\ ~Retry
    BY <1>0, NoRetry DEF Honest
  <1> QED
    BY <1>2, <1>3, <1>4, <1>5, <1>6, <1>7, <1>8
    DEF Honest, Next, Start, StartThrows, AppendAndStore, FsyncFails, PushBack,
        SetDifficulty, vars

\* What was reported stays in what was synced.
LEMMA AckedStep ==
    ASSUME Honest, IndInv, TypeOK', AckedSynced, [Next]_vars
    PROVE  /\ IsPrefix(acked, load_all_blocks(disk))'
           /\ (truncated => acked = <<>>)'
           /\ (pc = "push" => ~truncated /\ disk = log)'
  <1>0. /\ TypeOK /\ log \in Seq(Item) /\ disk \in Seq(Item) /\ log' \in Seq(Item)
        /\ acked \in Seq(Block) /\ blocks \in Seq(Block)
        /\ load_all_blocks(log) \in Seq(Block) /\ load_all_blocks(disk) \in Seq(Block)
        /\ load_all_blocks(log') \in Seq(Block)
        /\ Readable(log) = Len(log)
        /\ IsPrefix(acked, load_all_blocks(disk)) /\ (truncated => acked = <<>>)
    BY LoadType DEF IndInv, TypeOK, AckedSynced
  <1>1. ASSUME NEW chain \in Seq(Block) PROVE IsPrefix(<<>>, chain)
    BY DEF IsPrefix
  <1>2. IsPrefix(acked, load_all_blocks(log))
    <2>1. CASE truncated
      BY <1>0, <1>1, <2>1
    <2>2. CASE ~truncated
      <3>1. Len(disk) <= Len(log) /\ \A i \in 1 .. Len(disk) : log[i] = disk[i]
        BY <1>0, <2>2 DEF IndInv, SyncedKept, IsPrefix
      <3>2. IsPrefix(load_all_blocks(disk), load_all_blocks(log))
        BY <1>0, <3>1, LoadPrefix
      <3> QED BY <1>0, <3>2, PrefixTrans
    <2> QED BY <2>1, <2>2
  <1>3. CASE Start \/ StartThrows \/ WriteFails \/ Flush \/ Crash
    BY <1>0, <1>3 DEF Start, StartThrows, WriteFails, Flush, Crash
  <1>4. CASE \E b \in Offered : AppendAndStore(b)
    BY <1>0, <1>4 DEF AppendAndStore
  <1>5. CASE \E b \in Bits : SetDifficulty(b)
    BY <1>0, <1>5 DEF SetDifficulty
  <1>6. CASE Fsync
    BY <1>0, <1>2, <1>6 DEF Fsync
  <1>7. CASE PushBack
    <2>1. /\ pc = "push" /\ pc' = "idle" /\ blocks' = Append(blocks, pending[1])
          /\ acked' = blocks' /\ disk' = disk /\ truncated' = truncated
      BY <1>7 DEF PushBack
    <2>2. disk = log /\ ~truncated
      BY <2>1 DEF AckedSynced
    <2>3. load_all_blocks(log) = blocks \o pending
      BY <1>0, <2>1 DEF IndInv, FileTracks, Written
    <2>4. blocks \o pending = Append(blocks, pending[1])
      BY <1>0, <2>1, ConcatOne DEF TypeOK
    <2>5. acked' = load_all_blocks(disk')
      BY <2>1, <2>2, <2>3, <2>4
    <2> QED BY <1>0, <2>1, <2>2, <2>5, PrefixSame
  <1>8. CASE ClearStore
    <2>1. pc' = "idle" /\ acked' = <<>> /\ disk' = disk
      BY <1>8 DEF ClearStore
    <2> QED BY <1>0, <1>1, <2>1
  <1>9. CASE PowerLoss
    <2>1. pc' = "down" /\ disk' = log' /\ acked' = acked /\ truncated' = FALSE
      BY <1>9 DEF PowerLoss
    <2>2. IsPrefix(acked, load_all_blocks(log'))
      <3>1. CASE truncated
        BY <1>0, <1>1, <3>1
      <3>2. CASE ~truncated
        <4>1. Durable!LosePower
          BY <1>9, PowerLossMaps
        <4>2. \/ load_all_blocks(log') = load_all_blocks(disk)
              \/ IsPrefix(load_all_blocks(disk), load_all_blocks(log'))
          BY <3>2, <4>1, SamePrefix DEF Durable!LosePower
        <4> QED BY <1>0, <4>2, PrefixTrans
      <3> QED BY <3>1, <3>2
    <2> QED BY <2>1, <2>2
  <1>10. CASE UNCHANGED vars
    BY <1>10 DEF vars, AckedSynced
  <1>11. ~FlushFails /\ ~Retry
    BY <1>0, NoRetry DEF Honest
  <1> QED
    BY <1>3, <1>4, <1>5, <1>6, <1>7, <1>8, <1>9, <1>10, <1>11 DEF Honest, Next, FsyncFails

\* "Validate then append AND persist atomically": when no flush or sync fails unnoticed
\* and no write is cut short, every chain append_and_store reported is there again after
\* any number of crashes, losses of power and refused writes.
THEOREM NodeAckedSurvive ==
    ASSUME Faults \cap {"flush_error", "fsync_error", "partial_write"} = {}
    PROVE  Spec => []AckedSurvive
  <1>0. Honest /\ "flush_error" \notin Faults
    BY DEF Honest
  <1>1. Init => AckedSynced
    <2>1. Readable(<<>>) = 0 /\ Len(<<>>) = 0 /\ <<>> \in Seq(Block)
      BY ReadableFacts
    <2>2. IsPrefix(<<>>, <<>>)
      BY <2>1, PrefixSame
    <2> QED BY <2>1, <2>2, LoadEmpty, Zenon DEF Init, AckedSynced
  <1>2. IndInv /\ IndInv' /\ AckedSynced /\ [Next]_vars => AckedSynced'
    <2> SUFFICES ASSUME IndInv, IndInv', AckedSynced, [Next]_vars PROVE AckedSynced'
      OBVIOUS
    <2>1. TypeOK'
      BY DEF IndInv
    <2> QED BY <1>0, <2>1, WholeStep, AckedStep DEF AckedSynced
  <1>3. IndInv /\ AckedSynced => AckedSurvive
    <2> SUFFICES ASSUME IndInv, AckedSynced, pc = "idle" PROVE IsPrefix(acked, blocks)
      BY DEF AckedSurvive
    <2>1. /\ log \in Seq(Item) /\ disk \in Seq(Item)
          /\ acked \in Seq(Block) /\ blocks \in Seq(Block)
          /\ load_all_blocks(log) \in Seq(Block) /\ load_all_blocks(disk) \in Seq(Block)
      BY LoadType DEF IndInv, TypeOK
    <2>2. load_all_blocks(log) = blocks
      BY DEF IndInv, FileTracks, Written, AckedSynced
    <2>3. CASE truncated
      BY <2>1, <2>3 DEF AckedSynced, IsPrefix
    <2>4. CASE ~truncated
      <3>1. Len(disk) <= Len(log) /\ \A i \in 1 .. Len(disk) : log[i] = disk[i]
        BY <2>1, <2>4 DEF IndInv, SyncedKept, IsPrefix
      <3>2. IsPrefix(load_all_blocks(disk), load_all_blocks(log))
        BY <2>1, <3>1, LoadPrefix
      <3> QED BY <2>1, <2>2, <3>2, PrefixTrans DEF AckedSynced
    <2> QED BY <2>3, <2>4
  <1> QED BY <1>0, <1>1, <1>2, <1>3, NodeInductive, PTL DEF Spec
=============================================================================
