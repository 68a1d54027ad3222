----------------------------- MODULE TuiProofs ------------------------------
(***************************************************************************)
(* Proofs about Tui: for every interleaving of the main thread and the     *)
(* worker, every clock, any number of blocks and any range of              *)
(* difficulties.                                                           *)
(***************************************************************************)
EXTENDS Tui, BlocksProofs

\* The transaction lists of the keys, and the empty chain a genesis block is built on.
LEMMA Lists ==
    /\ <<Coinbase>> \in TxLists /\ <<AppendTx>> \in TxLists /\ <<MineTx>> \in TxLists
    /\ <<>> \in Seq(Block)
  <1>1. <<>> \in Seq(Block)
    OBVIOUS
  <1> QED BY <1>1, TuiAssumption, Zenon

\* The genesis block is a block.
LEMMA GenesisType == ASSUME NEW time \in Nat PROVE make_genesis_block(time) \in Block
  BY Lists, BuiltType, Zenon DEF make_genesis_block

\* So is the worker's candidate, whatever its read of blocks_ yielded,
LEMMA CandidateType ==
    ASSUME TypeOK, NEW now \in Times,
           NEW prev \in {hash(b.header) : b \in Range(blocks)} \cup {GarbageHash}
                        \cup {TipHash(blocks)}
    PROVE  [build_block_from_transactions(<<>>, <<MineTx>>, now)
              EXCEPT !.header.prev_hash = prev] \in Block
  <1>1. prev \in Hash256
    <2>1. ASSUME NEW b \in Range(blocks) PROVE hash(b.header) \in Hash256
      <3>1. b \in Block
        BY DEF TypeOK, Range
      <3> QED BY <3>1, BlockFields DEF Hash256
    <2>2. GarbageHash \in Hash256
      BY DEF GarbageHash, Hash256, Link, MerkleRoot
    <2> QED BY <2>1, <2>2, TipHashType DEF TypeOK
  <1> DEFINE built == build_block_from_transactions(<<>>, <<MineTx>>, now)
  <1>2. built \in Block
    <2>1. now \in Nat
      BY TuiAssumption
    <2> QED BY <2>1, Lists, BuiltType, Zenon
  <1> HIDE DEF built
  <1>3. built.header \in Header
    BY <1>2 DEF Block
  <1>4. [built.header EXCEPT !.prev_hash = prev] \in Header
    BY <1>1, <1>3 DEF Header
  <1>5. [built EXCEPT !.header.prev_hash = prev]
           = [built EXCEPT !.header = [built.header EXCEPT !.prev_hash = prev]]
    BY <1>2 DEF Block
  <1>6. [built EXCEPT !.header.prev_hash = prev] \in Block
    BY <1>2, <1>4, <1>5 DEF Block
  <1> QED BY <1>6 DEF built

\* and whichever header the search settles on.
LEMMA TriedType ==
    ASSUME NEW b \in Block, NEW header \in Tried(b)
    PROVE  [b EXCEPT !.header = header] \in Block
  <1>1. b.header \in Header
    BY DEF Block
  <1>2. ASSUME NEW nonce \in Nonces, NEW time \in Times
        PROVE  Retimed(b.header, nonce, time) \in Header
    <2>1. nonce \in Nat /\ time \in Nat
      BY TuiAssumption
    <2> QED BY <1>1, <2>1 DEF Retimed, Header
  <1>3. header \in Header
    BY <1>1, <1>2 DEF Tried
  <1> QED BY <1>3 DEF Block

-----------------------------------------------------------------------------
\* What append_and_store does, given a block: nothing, or it appends a valid block
\* to the chain and to the file.
LEMMA AppendEffect ==
    ASSUME TypeOK, NEW b \in Block, NEW d, append_and_store(b, d)
    PROVE  /\ blocks' \in Seq(Block) /\ log' \in Seq(Block) /\ raced' \in BOOLEAN
           /\ \/ blocks' = blocks /\ log' = log
              \/ /\ blocks' = Append(blocks, b) /\ log' = Append(log, b)
                 /\ validate_block(blocks, 0, b) = "None"
  <1>1. CASE validate_block(blocks, d, b) = "None"
    <2>1. validate_block(blocks, 0, b) = "None"
      BY <1>1, ValidAtZero
    <2>2. Append(blocks, b) \in Seq(Block) /\ Append(log, b) \in Seq(Block)
      BY DEF TypeOK
    <2>3. blocks' = Append(blocks, b) /\ log' = Append(log, b) /\ raced' \in BOOLEAN
      BY <1>1, Zenon DEF append_and_store
    <2> QED BY <2>1, <2>2, <2>3, Zenon
  <1>2. CASE validate_block(blocks, d, b) # "None"
    BY <1>2 DEF append_and_store, TypeOK
  <1> QED BY <1>1, <1>2

\* The steps that append: by which block, at which difficulty.
LEMMA Appends ==
    ASSUME TypeOK, WorkerTracked, (Poll /\ done) \/ KeyGenesis \/ KeyAppend
    PROVE  \E b \in Block, d \in Nat : append_and_store(b, d)
  <1>1. bits \in Nat /\ ui \in Nat
    BY TuiAssumption DEF TypeOK
  <1>2. CASE Poll /\ done
    <2>1. mined_block[1] \in Block
      BY <1>2 DEF TypeOK, WorkerTracked
    <2> QED BY <1>1, <1>2, <2>1 DEF Poll, TakeMined
  <1>3. CASE KeyGenesis
    <2>1. PICK time \in Times : append_and_store(make_genesis_block(time), bits)
      BY <1>3 DEF KeyGenesis
    <2>2. make_genesis_block(time) \in Block
      BY TuiAssumption, GenesisType
    <2> QED BY <1>1, <2>1, <2>2
  <1>4. CASE KeyAppend
    <2>1. PICK time \in Times :
             append_and_store(
                 build_block_from_transactions(blocks, <<AppendTx>>, time), bits)
      BY <1>4 DEF KeyAppend
    <2>2. time \in Nat
      BY TuiAssumption
    <2>3. build_block_from_transactions(blocks, <<AppendTx>>, time) \in Block
      BY <2>2, Lists, BuiltType DEF TypeOK
    <2> QED BY <1>1, <2>1, <2>3
  <1> QED BY <1>2, <1>3, <1>4

\* The empty sequence, that it may be told apart from the others' arithmetic.
LEMMA NoBlocks == <<>> \in Seq(Block) /\ Len(<<>>) <= 1
  OBVIOUS

\* The empty values a dead process leaves have the types.
LEMMA DiesType == ASSUME TypeOK, NEW how \in {"off", "terminated", "crashed"}, Dies(how)
                  PROVE  TypeOK'
  <1>1. 0 \in 0 .. UiMax /\ UiStart \in 0 .. UiMax
    BY TuiAssumption
  <1> QED BY <1>1, NoBlocks, Zenon DEF Dies, TypeOK

\* A read of blocks_ that ends, and does not end the process, yields a block.
LEMMA BuildEndEffect ==
    ASSUME TypeOK, BuildEnd, ~Dies("crashed")
    PROVE  /\ worker = "reading" /\ worker' = "search" /\ raced' = FALSE
           /\ candidate' \in Seq(Block) /\ Len(candidate') = 1
           /\ UNCHANGED <<main, running, chainVars, bits, ui, flagVars, mined_block,
                          joinable, difficulty>>
  <1>1. PICK prev \in {hash(b.header) : b \in Range(blocks)} \cup {GarbageHash}
                      \cup {TipHash(blocks)}, now \in Times :
           candidate' = <<[build_block_from_transactions(<<>>, <<MineTx>>, now)
                             EXCEPT !.header.prev_hash = prev]>>
    BY DEF BuildEnd
  <1>2. candidate' \in Seq(Block) /\ Len(candidate') = 1
    <2>1. \E b \in Block : candidate' = <<b>>
      BY <1>1, CandidateType, Zenon
    <2> QED BY <2>1
  <1>3. /\ worker = "reading" /\ worker' = "search" /\ raced' = FALSE
        /\ UNCHANGED <<main, running, chainVars, bits, ui, flagVars, mined_block,
                       joinable, difficulty>>
    BY DEF BuildEnd
  <1> QED BY <1>2, <1>3

\* Every step keeps the types.
LEMMA TypeStep == TypeOK /\ WorkerTracked /\ [Next]_vars => TypeOK'
  <1> SUFFICES ASSUME TypeOK, WorkerTracked, [Next]_vars PROVE TypeOK'
    OBVIOUS
  <1>1. CASE StartUp
    <2>1. restore_from_store(log, 0) \in Seq(Block)
      BY RestoredChainOK DEF TypeOK
    <2> QED BY <1>1, <2>1 DEF StartUp, StartUpAt, TypeOK, flagVars, workerVars
  <1>2. CASE Poll \/ KeyGenesis \/ KeyAppend
    <2>1. blocks' \in Seq(Block) /\ log' \in Seq(Block) /\ raced' \in BOOLEAN
      <3>1. CASE Poll /\ ~done
        BY <3>1 DEF Poll, TakeMined, TypeOK, chainVars
      <3>2. CASE (Poll /\ done) \/ KeyGenesis \/ KeyAppend
        BY <3>2, Appends, AppendEffect
      <3> QED BY <1>2, <3>1, <3>2
    <2>2. CASE Poll
      BY <2>1, <2>2 DEF Poll, TakeMined, TypeOK, chainVars, workerVars
    <2>3. CASE KeyGenesis
      BY <2>1, <2>3 DEF KeyGenesis, TypeOK, flagVars, workerVars
    <2>4. CASE KeyAppend
      BY <2>1, <2>4 DEF KeyAppend, TypeOK, flagVars, workerVars
    <2> QED BY <1>2, <2>2, <2>3, <2>4
  <1>3. CASE KeyMine
    <2>1. CASE joinable
      BY <1>3, <2>1, DiesType DEF KeyMine, StartMining
    <2>2. CASE ~joinable
      BY <1>3, <2>2 DEF KeyMine, StartMining, TypeOK, chainVars
    <2> QED BY <2>1, <2>2
  <1>4. CASE KeyDifficulty
    BY <1>4 DEF KeyDifficulty, SelectBits, TypeOK, chainVars, flagVars, workerVars
  <1>5. CASE KeyClear
    BY <1>5, NoBlocks, Zenon DEF KeyClear, DoClear, Clear, TypeOK, chainVars, workerVars
  <1>6. CASE ClearJoin
    BY <1>6, NoBlocks, Zenon DEF ClearJoin, Clear, TypeOK
  <1>7. CASE Quit \/ EndKeys \/ LeaveLoop
    BY <1>7, ZenonT(60) DEF Quit, EndKeys, LeaveLoop, Leave, TypeOK, chainVars, flagVars, workerVars
  <1>8. CASE ExitJoin
    BY <1>8, DiesType DEF ExitJoin
  <1>9. CASE BuildBegin \/ Test \/ Missed
    BY <1>9 DEF BuildBegin, Test, Missed, TypeOK, chainVars, flagVars
  <1>10. CASE BuildEnd
    <2>1. CASE Dies("crashed")
      BY <2>1, DiesType
    <2>2. CASE ~Dies("crashed")
      <3>1. /\ worker' = "search" /\ raced' = FALSE
            /\ candidate' \in Seq(Block) /\ Len(candidate') = 1
        BY <1>10, <2>2, BuildEndEffect, Zenon
      <3>2. UNCHANGED <<main, running, chainVars, bits, ui, flagVars, mined_block,
                        joinable, difficulty>>
        BY <1>10, <2>2, BuildEndEffect
      <3>3. Len(candidate') <= 1
        BY <3>1
      <3> QED BY <3>1, <3>2, <3>3, Zenon DEF TypeOK, chainVars, flagVars
    <2> QED BY <2>1, <2>2
  <1>11. CASE Found
    <2>1. candidate[1] \in Block
      BY <1>11 DEF Found, Return, TypeOK, WorkerTracked
    <2>2. candidate' \in Seq(Block) /\ Len(candidate') <= 1
      BY <1>11, <2>1, TriedType DEF Found, Return
    <2> QED BY <1>11, <2>2 DEF Found, Return, TypeOK, chainVars
  <1>12. CASE Publish \/ Announce \/ Finish
    BY <1>12, NoBlocks, Zenon DEF Publish, Announce, Finish, TypeOK, chainVars, flagVars
  <1>13. CASE UNCHANGED vars
    BY <1>13 DEF vars, TypeOK, chainVars, flagVars, workerVars
  <1> QED
    BY <1>1, <1>2, <1>3, <1>4, <1>5, <1>6, <1>7, <1>8, <1>9, <1>10, <1>11, <1>12, <1>13
    DEF Next, Main, Worker

-----------------------------------------------------------------------------
\* The flags and the worker.
Flags == WorkerTracked /\ FlagCoversWorker /\ NoSpuriousCancel

\* The process dies with its threads.
LEMMA DiesFlags ==
    ASSUME NEW how \in {"off", "terminated", "crashed"}, Dies(how)
    PROVE  Flags'
  <1>1. /\ main' = how /\ worker' = "none" /\ joinable' = FALSE /\ done' = FALSE
        /\ mining' = FALSE /\ cancel' = FALSE
    BY DEF Dies
  <1> QED BY <1>1 DEF Flags, WorkerTracked, FlagCoversWorker, NoSpuriousCancel

\* Every step keeps the flags true to the worker.
LEMMA FlagsStep == TypeOK /\ Flags /\ [Next]_vars => Flags'
  <1> SUFFICES ASSUME TypeOK, Flags, [Next]_vars PROVE Flags'
    OBVIOUS
  <1> USE DEF Flags, WorkerTracked, FlagCoversWorker, NoSpuriousCancel, Alive
  <1>1. CASE StartUp
    BY <1>1 DEF StartUp, StartUpAt, flagVars, workerVars
  <1>2. CASE Poll
    BY <1>2 DEF Poll, TakeMined, TypeOK, workerVars
  <1>3. CASE KeyGenesis \/ KeyAppend \/ KeyDifficulty
    BY <1>3 DEF KeyGenesis, KeyAppend, KeyDifficulty, SelectBits, flagVars, workerVars
  <1>4. CASE KeyMine
    <2>1. CASE joinable
      BY <1>4, <2>1, DiesFlags DEF KeyMine, StartMining
    <2>2. CASE ~joinable
      BY <1>4, <2>2 DEF KeyMine, StartMining
    <2> QED BY <2>1, <2>2
  <1>5. CASE KeyClear
    <2>1. CASE mining
      BY <1>5, <2>1 DEF KeyClear, DoClear, workerVars
    <2>2. CASE ~mining
      BY <1>5, <2>2 DEF KeyClear, DoClear, Clear
    <2> QED BY <2>1, <2>2
  <1>6. CASE ClearJoin
    BY <1>6 DEF ClearJoin, Clear
  <1>7. CASE Quit \/ EndKeys
    BY <1>7 DEF Quit, EndKeys, flagVars, workerVars
  <1>8. CASE LeaveLoop
    BY <1>8 DEF LeaveLoop, Leave, workerVars
  <1>9. CASE ExitJoin
    BY <1>9, DiesFlags DEF ExitJoin
  <1>10. CASE BuildBegin
    BY <1>10 DEF BuildBegin, flagVars
  <1>11. CASE BuildEnd
    <2>1. CASE Dies("crashed")
      BY <2>1, DiesFlags
    <2>2. CASE ~Dies("crashed")
      <3>1. candidate' # <<>>
        BY <1>11, <2>2, BuildEndEffect
      <3> QED BY <1>11, <2>2, <3>1, BuildEndEffect DEF flagVars
    <2> QED BY <2>1, <2>2
  <1>12. CASE Test \/ Missed
    BY <1>12 DEF Test, Missed, flagVars
  <1>13. CASE Found
    <2>1. candidate' # <<>>
      BY <1>13 DEF Found, Return
    <2> QED BY <1>13, <2>1 DEF Found, Return
  <1>14. CASE Publish
    BY <1>14 DEF Publish, flagVars
  <1>15. CASE Announce \/ Finish
    BY <1>15 DEF Announce, Finish
  <1>16. CASE UNCHANGED vars
    BY <1>16 DEF vars, flagVars, workerVars
  <1> QED
    BY <1>1, <1>2, <1>3, <1>4, <1>5, <1>6, <1>7, <1>8, <1>9, <1>10, <1>11, <1>12, <1>13,
       <1>14, <1>15, <1>16
    DEF Next, Main, Worker

-----------------------------------------------------------------------------
\* The chain and the file.  The steps of the worker only read them.
LEMMA ChainStep == TypeOK /\ WorkerTracked /\ ChainTracked /\ [Next]_vars => ChainTracked'
  <1> SUFFICES ASSUME TypeOK, WorkerTracked, ChainTracked, [Next]_vars PROVE ChainTracked'
    OBVIOUS
  <1>1. CASE StartUp
    <2>1. blocks' = log
      BY <1>1, SoundRestore DEF StartUp, StartUpAt, TypeOK, ChainTracked
    <2> QED BY <1>1, <2>1 DEF StartUp, StartUpAt, ChainTracked, Alive
  <1>2. CASE (Poll /\ done) \/ KeyGenesis \/ KeyAppend
    <2>1. PICK b \in Block, d \in Nat : append_and_store(b, d)
      BY <1>2, Appends
    <2>2. Alive /\ Alive'
      BY <1>2 DEF Poll, TakeMined, KeyGenesis, KeyAppend, Alive
    <2>3. blocks = log /\ Sound(log)
      BY <2>2 DEF ChainTracked
    <2>4. \/ blocks' = blocks /\ log' = log
          \/ /\ blocks' = Append(blocks, b) /\ log' = Append(log, b)
             /\ validate_block(blocks, 0, b) = "None"
      BY <2>1, AppendEffect
    <2>5. validate_block(log, 0, b) = "None" => Sound(Append(log, b))
      BY <2>3, SoundAppend DEF TypeOK
    <2>6. Sound(log') /\ blocks' = log'
      BY <2>3, <2>4, <2>5, Zenon
    <2> QED BY <2>2, <2>6 DEF ChainTracked
  <1>3. ASSUME NEW how \in {"off", "terminated", "crashed"}, Dies(how) PROVE ChainTracked'
    BY <1>3 DEF Dies, ChainTracked, Alive
  <1>4. CASE KeyMine
    <2>1. CASE joinable
      BY <1>3, <1>4, <2>1 DEF KeyMine, StartMining
    <2>2. CASE ~joinable
      BY <1>4, <2>2 DEF KeyMine, StartMining, ChainTracked, Alive, chainVars
    <2> QED BY <2>1, <2>2
  <1>5. CASE Clear /\ Alive
    <2>1. Alive'
      BY <1>5 DEF Clear, Alive
    <2>2. \/ blocks' = <<>> /\ log' = <<>>
          \/ blocks' = blocks /\ log' = log
      BY <1>5 DEF Clear
    <2> QED BY <1>5, <2>1, <2>2, SoundEmpty DEF ChainTracked
  <1>6. CASE KeyClear
    <2>1. CASE mining
      BY <1>6, <2>1 DEF KeyClear, DoClear, ChainTracked, Alive, chainVars
    <2>2. CASE ~mining
      BY <1>5, <1>6, <2>2 DEF KeyClear, DoClear, Alive
    <2> QED BY <2>1, <2>2
  <1>7. CASE ClearJoin
    BY <1>5, <1>7 DEF ClearJoin, Alive
  <1>8. CASE ExitJoin
    BY <1>3, <1>8 DEF ExitJoin
  <1>9. CASE BuildEnd
    <2>1. CASE Dies("crashed")
      BY <1>3, <2>1
    <2>2. CASE ~Dies("crashed")
      BY <1>9, <2>2 DEF BuildEnd, ChainTracked, Alive, chainVars
    <2> QED BY <2>1, <2>2
  <1>10. CASE Alive' = Alive /\ UNCHANGED chainVars
    BY <1>10 DEF ChainTracked, chainVars
  <1>11. CASE (Poll /\ ~done) \/ KeyDifficulty \/ Quit \/ EndKeys \/ LeaveLoop
    BY <1>10, <1>11
    DEF Poll, TakeMined, KeyDifficulty, SelectBits, Quit, EndKeys, LeaveLoop, Leave, Alive
  <1>12. CASE BuildBegin \/ Test \/ Found \/ Missed \/ Publish \/ Announce \/ Finish
    BY <1>10, <1>12
    DEF BuildBegin, Test, Found, Return, Missed, Publish, Announce, Finish, Alive
  <1>13. CASE UNCHANGED vars
    BY <1>10, <1>13 DEF vars, Alive
  <1> QED
    BY <1>1, <1>2, <1>4, <1>6, <1>7, <1>8, <1>9, <1>11, <1>12, <1>13 DEF Next, Main, Worker

-----------------------------------------------------------------------------
\* The inductive invariant holds at first,
LEMMA IndInit == Init => IndInv
  <1> SUFFICES ASSUME Init PROVE IndInv
    OBVIOUS
  <1>1. 0 \in 0 .. UiMax /\ UiStart \in 0 .. UiMax
    BY TuiAssumption
  <1>2. TypeOK
    BY <1>1, NoBlocks, Zenon DEF Init, TypeOK
  <1>3. WorkerTracked /\ FlagCoversWorker /\ NoSpuriousCancel
    BY DEF Init, WorkerTracked, FlagCoversWorker, NoSpuriousCancel
  <1>4. ChainTracked
    BY SoundEmpty DEF Init, ChainTracked, Alive
  <1> QED BY <1>2, <1>3, <1>4 DEF IndInv

\* and ever after: whatever the two threads do, in whichever order.
THEOREM TuiInductive == Spec => []IndInv
  <1>1. IndInv /\ [Next]_vars => IndInv'
    BY TypeStep, FlagsStep, ChainStep DEF IndInv, Flags
  <1> QED BY <1>1, IndInit, PTL DEF Spec

\* Type correctness of the interactive node.
THEOREM TuiTypeOK == Spec => []TypeOK
  <1>1. IndInv => TypeOK
    BY DEF IndInv
  <1> QED BY <1>1, TuiInductive, PTL

\* The chain is well formed although the worker reads it without a lock, works on a
\* tip, a time and a difficulty that age, and may be handed garbage by the race.
THEOREM TuiMemoryOK == Spec => []MemoryOK
  <1>1. IndInv => MemoryOK
    BY ChainOKEmpty DEF IndInv, ChainTracked, Sound, MemoryOK
  <1> QED BY <1>1, TuiInductive, PTL

\* A block that is accepted on top of others has the work the difficulty asks for.
LEMMA AppendWork ==
    ASSUME TypeOK, NEW b \in Block, NEW d, append_and_store(b, d), blocks # <<>>,
           Len(blocks') > Len(blocks)
    PROVE  d = 0 \/ meets_difficulty(d, TipHash(blocks'))
  <1>1. blocks \in Seq(Block)
    BY DEF TypeOK
  <1>2. validate_block(blocks, d, b) = "None" /\ blocks' = Append(blocks, b)
    <2>1. CASE validate_block(blocks, d, b) = "None"
      BY <2>1, Zenon DEF append_and_store
    <2>2. CASE validate_block(blocks, d, b) # "None"
      BY <1>1, <2>2 DEF append_and_store
    <2> QED BY <2>1, <2>2
  <1>3. d = 0 \/ meets_difficulty(d, hash(b.header))
    BY <1>2 DEF validate_block, PowWaived
  <1>4. TipHash(Append(blocks, b)) = hash(b.header)
    BY <1>1 DEF TipHash
  <1> QED BY <1>2, <1>3, <1>4

\* No block goes on the chain of a live process with less work than is asked for at
\* that moment, whatever difficulty its search was started with.
THEOREM TuiWorkInForce == Spec => WorkInForce
  <1> DEFINE Grows == blocks # <<>> /\ Len(blocks') > Len(blocks)
             Worked == CalledFor = 0 \/ meets_difficulty(CalledFor, TipHash(blocks'))
  <1>1. ASSUME IndInv, [Next]_vars PROVE [Grows => Worked]_vars
    <2> SUFFICES ASSUME Grows PROVE Worked \/ UNCHANGED vars
      OBVIOUS
    <2>0. TypeOK /\ WorkerTracked /\ ChainTracked /\ blocks \in Seq(Block)
      BY <1>1 DEF IndInv, TypeOK
    <2>1. blocks' # blocks /\ blocks' # <<>> /\ blocks # <<>>
      <3>1. Len(<<>>) = 0 /\ Len(blocks) \in Nat
        BY <2>0
      <3> QED BY <3>1
    <2>2. CASE Poll
      <3>1. done /\ main = "poll" /\ append_and_store(mined_block[1], ui)
        BY <2>1, <2>2 DEF Poll, TakeMined, chainVars
      <3>2. mined_block[1] \in Block
        BY <2>0, <3>1 DEF TypeOK, WorkerTracked
      <3>3. ui = 0 \/ meets_difficulty(ui, TipHash(blocks'))
        BY <2>0, <3>1, <3>2, AppendWork
      <3> QED BY <3>1, <3>3 DEF CalledFor
    <2>3. CASE KeyAppend
      <3>1. PICK time \in Times :
               append_and_store(
                   build_block_from_transactions(blocks, <<AppendTx>>, time), bits)
        BY <2>3 DEF KeyAppend
      <3>2. build_block_from_transactions(blocks, <<AppendTx>>, time) \in Block
        BY <2>0, Lists, BuiltType, TuiAssumption
      <3>3. bits = 0 \/ meets_difficulty(bits, TipHash(blocks'))
        BY <2>0, <3>1, <3>2, AppendWork
      <3>4. main = "keys"
        BY <2>3 DEF KeyAppend
      <3> QED BY <3>3, <3>4 DEF CalledFor
    <2>4. ASSUME NEW how, Dies(how) PROVE FALSE
      BY <2>1, <2>4 DEF Dies
    <2>5. ~StartUp
      BY <2>0, <2>1 DEF StartUp, StartUpAt, ChainTracked, Alive
    <2>6. ~KeyGenesis
      BY <2>1 DEF KeyGenesis
    <2>7. ~KeyMine /\ ~ExitJoin
      BY <2>1, <2>4 DEF KeyMine, StartMining, ExitJoin, chainVars
    <2>8. ~KeyClear /\ ~ClearJoin
      BY <2>1 DEF KeyClear, DoClear, ClearJoin, Clear, chainVars
    <2>9. ~KeyDifficulty /\ ~Quit /\ ~EndKeys /\ ~LeaveLoop
      BY <2>1 DEF KeyDifficulty, SelectBits, Quit, EndKeys, LeaveLoop, Leave, chainVars
    <2>10. ~BuildEnd
      BY <2>1, <2>4 DEF BuildEnd, chainVars
    <2>11. ~BuildBegin /\ ~Test /\ ~Found /\ ~Missed /\ ~Publish /\ ~Announce /\ ~Finish
      BY <2>1
      DEF BuildBegin, Test, Found, Return, Missed, Publish, Announce, Finish, chainVars
    <2> QED
      BY <1>1, <2>2, <2>3, <2>5, <2>6, <2>7, <2>8, <2>9, <2>10, <2>11
      DEF Next, Main, Worker
  <1> QED BY <1>1, TuiInductive, PTL DEF Spec, WorkInForce

\* The file and the chain agree, across difficulties and restarts.
THEOREM TuiStoreMatchesChain == Spec => []StoreMatchesChain
  <1>1. IndInv => StoreMatchesChain
    BY DEF IndInv, ChainTracked, StoreMatchesChain
  <1> QED BY <1>1, TuiInductive, PTL

\* A false `mining` rules out that the worker still reads the chain or writes its
\* block, so do_clear_store and start_mining may skip the join.
THEOREM TuiFlagCoversWorker == Spec => []FlagCoversWorker
  <1>1. IndInv => FlagCoversWorker
    BY DEF IndInv
  <1> QED BY <1>1, TuiInductive, PTL

\* A true `done` comes with the worker's complete block, and nobody writes it then.
THEOREM TuiDoneCoversBlock == Spec => []DoneCoversBlock
  <1>1. IndInv => DoneCoversBlock
    BY DEF IndInv, WorkerTracked, DoneCoversBlock
  <1> QED BY <1>1, TuiInductive, PTL

\* A `cancel` reaches no search but the one whose end the main thread waits for.
THEOREM TuiNoSpuriousCancel == Spec => []NoSpuriousCancel
  <1>1. IndInv => NoSpuriousCancel
    BY DEF IndInv
  <1> QED BY <1>1, TuiInductive, PTL
=============================================================================
