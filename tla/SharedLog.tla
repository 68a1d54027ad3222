------------------------------ MODULE SharedLog -----------------------------
(***************************************************************************)
(* Several processes on one ./data/chain.log: interactive nodes (tui.cpp)  *)
(* and store demos (cli/store.cpp), started in the same directory.  There  *)
(* is no lock.  Each reads the file once, record by record, when it        *)
(* starts; from then on it validates against its own memory and appends to *)
(* the file, whatever others did to it.  A record is written by a single   *)
(* write() on a stream opened for appending, so records stay whole.        *)
(*                                                                         *)
(* Nothing fails here (module Node is about that) but processes may be     *)
(* killed.  The difficulty is 0 throughout: the store demo's always is.    *)
(***************************************************************************)
EXTENDS Blocks, SequencesExt

CONSTANTS
    Tuis, Stores,  \* the processes of either kind
    SignedTx,      \* the signed transaction of a block that is not genesis
    Times,         \* wall clock readings, of the interactive nodes
    StoreTime,     \* 1700000000, which the store demo uses for a clock
    MaxBlocks,     \* bound on the height of a process's chain
    MaxLog,        \* bound on the records in the file, and on those a reader takes
                   \* (more only when it was truncated while being read)
    MaxChains      \* bound on the different chains that are built

ASSUME SharedLogAssumption ==
    /\ Tuis \cap Stores = {}
    /\ {<<Coinbase>>, <<SignedTx>>} \subseteq TxLists
    /\ Times \subseteq Nat /\ StoreTime \in Nat
    /\ MaxBlocks \in Nat /\ MaxLog \in Nat /\ MaxChains \in Nat

Processes == Tuis \cup Stores

VARIABLES
    log,      \* the blocks of the records in the file
    pc,       \* where each process is
    got,      \* load_all_blocks' result so far, of each process that reads
    next,     \* the record at which that reader goes on, 0 when the file was
              \* truncated under it and it is anywhere
    blocks,   \* Chain::blocks_ of each process
    pending,  \* the block each process is about to write, validated
    built,    \* history: the chains that processes extended block by block
    forked    \* history: since the last truncation, a process wrote whose chain
              \* was not the one in the file

vars == <<log, pc, got, next, blocks, pending, built, forked>>

\* What a process that starts now would have for a chain: the chain of record.
OnRecord(file) == restore_from_store(file, 0)

Init ==
    /\ log = <<>> /\ forked = FALSE /\ built = {<<>>}
    /\ pc = [p \in Processes |-> "down"]
    /\ got = [p \in Processes |-> <<>>] /\ next = [p \in Processes |-> 1]
    /\ blocks = [p \in Processes |-> <<>>] /\ pending = [p \in Processes |-> <<>>]

\* The process opens the store.
Open(p) ==
    /\ pc[p] = "down"
    /\ pc' = [pc EXCEPT ![p] = "reading"]
    /\ UNCHANGED <<log, got, next, blocks, pending, built, forked>>

\* load_all_blocks takes the next record where the last one ended.  In a file that
\* was truncated and written anew, any record may start at that offset.
ReadRecord(p) ==
    /\ pc[p] = "reading" /\ Len(got[p]) < MaxLog
    /\ \E i \in DOMAIN log :
          /\ next[p] \in {0, i}
          /\ got' = [got EXCEPT ![p] = Append(@, log[i])]
          /\ next' = [next EXCEPT ![p] = i + 1]
    /\ UNCHANGED <<log, pc, blocks, pending, built, forked>>

\* Mutant: what was read is taken as it is.
ReadEndUnchecked(p) ==
    /\ pc[p] = "reading" /\ next[p] \notin DOMAIN log
    /\ pc' = [pc EXCEPT ![p] = "idle"]
    /\ blocks' = [blocks EXCEPT ![p] = got[p]]
    /\ got' = [got EXCEPT ![p] = <<>>] /\ next' = [next EXCEPT ![p] = 1]
    /\ UNCHANGED <<log, pending, built, forked>>

\* It finds the end of the file, or, in a file that was truncated, the middle of a
\* record; restore_from_store appends what was read.
ReadEnd(p) ==
    /\ pc[p] = "reading" /\ next[p] \notin DOMAIN log
    /\ pc' = [pc EXCEPT ![p] = "idle"]
    /\ blocks' = [blocks EXCEPT ![p] = OnRecord(got[p])]
    /\ got' = [got EXCEPT ![p] = <<>>] /\ next' = [next EXCEPT ![p] = 1]
    /\ UNCHANGED <<log, pending, built, forked>>

\* A block built on the process's own chain, genesis if it has none.
BlockOf(p, time) ==
    IF blocks[p] = <<>> THEN make_genesis_block(time)
    ELSE build_block_from_transactions(blocks[p], <<SignedTx>>, time)

\* The block goes to be written, within the bounds.
Queue(p, block) ==
    /\ Len(blocks[p]) < MaxBlocks /\ Len(log) < MaxLog
    /\ Cardinality(built \cup {Append(blocks[p], block)}) <= MaxChains
    /\ pc' = [pc EXCEPT ![p] = "write"]
    /\ pending' = [pending EXCEPT ![p] = <<block>>]
    /\ UNCHANGED <<log, got, next, blocks, built, forked>>

\* Mutant: the block is stored whatever validation says.
Unvalidated(p, time) == Queue(p, BlockOf(p, time))

\* append_and_store up to the write.
Validate(p, time) ==
    /\ validate_block(blocks[p], 0, BlockOf(p, time)) = "None"
    /\ Queue(p, BlockOf(p, time))

\* The keys 'G' and 'B', and a mined block.
TuiAppend(p) ==
    /\ p \in Tuis /\ pc[p] = "idle"
    /\ \E time \in Times : Validate(p, time)

\* The store demo appends one block, at a time of its own.
DemoTime(p) == StoreTime + Len(blocks[p])
DemoAppend(p) == p \in Stores /\ pc[p] = "idle" /\ Validate(p, DemoTime(p))

\* The record is in the file; the store demo prints the tip and ends.
Written(p, file) ==
    /\ pc[p] = "write"
    /\ log' = file
    /\ blocks' = [blocks EXCEPT ![p] = IF p \in Stores THEN <<>> ELSE @ \o pending[p]]
    /\ built' = built \cup {blocks[p] \o pending[p]}
    /\ pending' = [pending EXCEPT ![p] = <<>>]
    /\ forked' = (forked \/ blocks[p] # log)
    /\ pc' = [pc EXCEPT ![p] = IF p \in Stores THEN "down" ELSE "idle"]
    /\ UNCHANGED <<got, next>>

\* Mutant: the file is opened for writing where the process thinks it ends.
WriteOver(p) ==
    Written(p, Append(SubSeq(log, 1, Min({Len(log), Len(blocks[p])})), pending[p][1]))

\* BlockStore::append_block and the rest of append_and_store.
Write(p) == Written(p, Append(log, pending[p][1]))

\* 'X' in an interactive node: do_clear_store, under everyone else.
Clear(p) ==
    /\ p \in Tuis /\ pc[p] = "idle"
    /\ log' = <<>>
    /\ next' = [q \in Processes |-> IF pc[q] = "reading" THEN 0 ELSE 1]
    /\ blocks' = [blocks EXCEPT ![p] = <<>>]
    /\ forked' = FALSE
    /\ UNCHANGED <<pc, got, pending, built>>

\* The process ends or is killed; the store demo also when its block was refused.
End(p) ==
    /\ pc[p] # "down"
    /\ pc' = [pc EXCEPT ![p] = "down"]
    /\ got' = [got EXCEPT ![p] = <<>>] /\ next' = [next EXCEPT ![p] = 1]
    /\ blocks' = [blocks EXCEPT ![p] = <<>>] /\ pending' = [pending EXCEPT ![p] = <<>>]
    /\ UNCHANGED <<log, built, forked>>

Next == \E p \in Processes :
           \/ Open(p) \/ ReadRecord(p) \/ ReadEnd(p)
           \/ TuiAppend(p) \/ DemoAppend(p) \/ Write(p) \/ Clear(p) \/ End(p)

Spec == Init /\ [][Next]_vars

-----------------------------------------------------------------------------
\* Every variable has its type.
TypeOK ==
    /\ log \in Seq(Block) /\ forked \in BOOLEAN /\ built \subseteq Seq(Block)
    /\ pc \in [Processes -> {"down", "reading", "idle", "write"}]
    /\ got \in [Processes -> Seq(Block)] /\ next \in [Processes -> Nat]
    /\ blocks \in [Processes -> Seq(Block)] /\ pending \in [Processes -> Seq(Block)]
    /\ \A p \in Processes : Len(pending[p]) = IF pc[p] = "write" THEN 1 ELSE 0

\* Reading record by record, while others append and truncate, never yields a
\* mixture: a process always has a chain that was built block by block in the
\* memory of some process.
NoMixture == \A p \in Processes : blocks[p] \in built

\* Nobody can take a block off the record but by truncating the file, and nobody
\* adds one but by extending the chain of record itself: a writer whose memory is
\* not the chain of record leaves the record as it was.
RecordGrowsByItself ==
    [][log' \notin {log, <<>>} =>
          /\ IsPrefix(OnRecord(log), OnRecord(log'))
          /\ \A p \in Processes :
                pc[p] = "write" /\ pc'[p] # "write" /\ blocks[p] # OnRecord(log) =>
                    OnRecord(log') = OnRecord(log)]_vars

\* Every block that was reported as stored is restored, exactly as long as each
\* was written by a process whose chain was the one in the file; after the first
\* other write, it and all that follow are lost until the file is truncated.
LostIffForked == forked <=> OnRecord(log) # log

\* What makes these inductive, whoever truncates the file and whoever writes from
\* another memory than the file: a block carries the coinbase or the signed transaction
\* according to its having no parent or one, and a block about to be written is valid
\* on its writer's chain; the chains that were built are sound; and every record, in
\* the file or already read from it, is the last block of one of them.
Shaped(block) ==
    block.transactions =
        IF block.header.prev_hash = ZeroHash THEN <<Coinbase>> ELSE <<SignedTx>>
PendingValid ==
    \A p \in Processes : pc[p] = "write" =>
        /\ Shaped(pending[p][1])
        /\ validate_block(blocks[p], 0, pending[p][1]) = "None"
BuiltSound ==
    /\ <<>> \in built
    /\ \A chain \in built : Sound(chain) /\ \A i \in DOMAIN chain : Shaped(chain[i])
EndsAChain(block) == \E chain \in built : chain # <<>> /\ block = chain[Len(chain)]
RecordsBuilt ==
    /\ \A i \in DOMAIN log : EndsAChain(log[i])
    /\ \A p \in Processes : \A i \in DOMAIN got[p] : EndsAChain(got[p][i])
IndInv == /\ TypeOK /\ PendingValid /\ BuiltSound /\ RecordsBuilt
          /\ NoMixture /\ LostIffForked
=============================================================================
