-------------------------------- MODULE Node --------------------------------
(***************************************************************************)
(* One astro process and its block store: Chain (chain.cpp) on top of      *)
(* BlockStore (block_store.cpp), with the failures the store can meet.     *)
(*                                                                         *)
(* append_and_store is split where a crash can fall between its effects:   *)
(* validate, write and flush the record, fsync, push_back.  The file is a  *)
(* sequence of items (module LogFile).  `log` is the file as a running     *)
(* system reads it, `disk` what a loss of power would leave at least.      *)
(*                                                                         *)
(* A block that validate_block refuses, or on which it throws, leaves no   *)
(* trace, so refusing is a stuttering step and is not an action.           *)
(***************************************************************************)
EXTENDS Blocks, LogFile, SequencesExt

CONSTANTS
    Bits,       \* the difficulties set_difficulty_bits is called with
    Times,      \* header timestamps offered
    Nonces,     \* header nonces offered
    Faults,     \* what may go wrong: a subset of AllFaults
    MaxBlocks,  \* bound on the height of the chain
    MaxLog      \* bound on the items in the file

AllFaults == {"open_error",     \* the log cannot be opened as a process starts
              "write_error",    \* the stream is bad when append_block checks it
              "flush_error",    \* flush fails; nobody looks
              "fsync_error",    \* fsync fails; nobody looks
              "partial_write",  \* an interrupted write leaves a fragment
              "power_loss"}     \* unsynced changes may be undone

ASSUME NodeAssumption ==
    /\ Bits \subseteq Nat /\ Times \subseteq Nat /\ Nonces \subseteq Nat
    /\ Faults \subseteq AllFaults
    /\ MaxBlocks \in Nat /\ MaxLog \in Nat

VARIABLES
    pc,        \* where the process is; "down" when there is none, "failed"
               \* when the last one died of an exception as it started
    blocks,    \* Chain::blocks_
    bits,      \* Chain::config_.difficulty_bits
    pending,   \* the argument of append_and_store, once validated
    log,       \* ./data/chain.log as the operating system shows it
    disk,      \* the file when it was last synced
    truncated, \* the file was truncated since then
    acked,     \* history: the chain append_and_store last reported
    refused    \* history: a block append_and_store reported as not stored

vars == <<pc, blocks, bits, pending, log, disk, truncated, acked, refused>>

Down == {"down", "failed"}

-----------------------------------------------------------------------------
\* A record or a fragment, whatever block it may hold.
Item == {item \in [end : {"check", "length", "other"}, payload : Seq(Block)] :
            Len(item.payload) = IF item.end = "check" THEN 1 ELSE 0}

-----------------------------------------------------------------------------
\* The blocks clients hand to the chain: any parent among the hashes of the
\* chain (the zero hash included), a right or a missing root.
Parents == {ZeroHash} \cup {hash(blocks[i].header) : i \in DOMAIN blocks}

Offered ==
    UNION {{[header |-> [prev_hash |-> parent, merkle_root |-> r,
                         timestamp |-> time, nonce |-> nonce],
             transactions |-> txs] :
               parent \in Parents, r \in {compute_merkle_root(txs), ZeroRoot},
               time \in Times, nonce \in Nonces} : txs \in TxLists}

\* What an interrupted write can leave at the end of the file.
Cuts == IF "partial_write" \in Faults
        THEN {<<>>} \cup {<<f>> : f \in Fragment} ELSE {<<>>}

Init ==
    /\ pc = "down" /\ blocks = <<>> /\ bits = 0 /\ pending = <<>>
    /\ log = <<>> /\ disk = <<>> /\ truncated = FALSE
    /\ acked = <<>> /\ refused = {}

\* The process starts: the constructors of Chain and BlockStore, then
\* restore_from_store.
Start ==
    /\ pc \in Down /\ ~RestoreThrows(load_all_blocks(log), 0)
    /\ pc' = "idle"
    /\ bits' = 0
    /\ blocks' = restore_from_store(load_all_blocks(log), 0)
    /\ UNCHANGED <<pending, log, disk, truncated, acked, refused>>

\* Opening the log may throw, for writing in the constructor or for reading in
\* load_all_blocks, and so may the reader and the restore.
MayNotStart ==
    \/ "open_error" \in Faults
    \/ MayThrow(log)
    \/ RestoreThrows(load_all_blocks(log), 0)

\* No main() catches: the process ends again.
StartThrows ==
    /\ pc \in Down /\ MayNotStart
    /\ pc' = "failed"
    /\ UNCHANGED <<blocks, bits, pending, log, disk, truncated, acked, refused>>

\* Mutant: the record goes out before the block is validated.
AppendUnchecked(block) ==
    /\ pc = "idle"
    /\ Len(blocks) < MaxBlocks /\ Len(log) < MaxLog
    /\ pc' = "write"
    /\ pending' = <<block>>
    /\ refused' = refused \ {block}
    /\ UNCHANGED <<blocks, bits, log, disk, truncated, acked>>

\* append_and_store(block): the block is valid, its record goes to the stream.
AppendAndStore(block) ==
    /\ pc = "idle"
    /\ Len(blocks) < MaxBlocks /\ Len(log) < MaxLog
    /\ validate_block(blocks, bits, block) = "None"
    /\ pc' = "write"
    /\ pending' = <<block>>
    /\ refused' = refused \ {block}
    /\ UNCHANGED <<blocks, bits, log, disk, truncated, acked>>

\* Mutant: the failure is reported when the whole record is in the file.
WriteFailsLate ==
    /\ pc = "write" /\ "write_error" \in Faults
    /\ pc' = "idle"
    /\ pending' = <<>>
    /\ log' = Append(log, Record(pending[1]))
    /\ refused' \in {refused, {pending[1]} \ Stored(disk)}
    /\ UNCHANGED <<blocks, bits, disk, truncated, acked>>

\* The stream could not be opened or is bad after the writes: append_block
\* throws and append_and_store reports failure.  The check sum is not written
\* then, whatever of the record was.  One refused block is remembered, any one
\* that an earlier file does not hold.
WriteFails ==
    /\ pc = "write" /\ "write_error" \in Faults
    /\ pc' = "idle"
    /\ pending' = <<>>
    /\ \E cut \in Cuts : log' = log \o cut
    /\ refused' \in {refused, {pending[1]} \ Stored(disk)}
    /\ UNCHANGED <<blocks, bits, disk, truncated, acked>>

\* out.flush(): the record reaches the file.
Flush ==
    /\ pc = "write"
    /\ pc' = "fsync"
    /\ log' = Append(log, Record(pending[1]))
    /\ UNCHANGED <<blocks, bits, pending, disk, truncated, acked, refused>>

\* out.flush() fails after the only test of the stream, and nothing notices.
FlushFails ==
    /\ pc = "write" /\ "flush_error" \in Faults
    /\ pc' = "unflushed"
    /\ \E cut \in Cuts : log' = log \o cut
    /\ UNCHANGED <<blocks, bits, pending, disk, truncated, acked, refused>>

\* After fsync_fd() append_block returns, and the destructor of a stream that was
\* not flushed has work left.
AfterFsync == IF pc = "fsync" THEN "push" ELSE "retry"

\* Mutant: fsync_fd() on a descriptor that is not the file's.
FsyncNothing ==
    /\ pc \in {"fsync", "unflushed"}
    /\ pc' = AfterFsync
    /\ UNCHANGED <<blocks, bits, pending, log, disk, truncated, acked, refused>>

\* fsync_fd(): the file is durable as it stands.
Fsync ==
    /\ pc \in {"fsync", "unflushed"}
    /\ pc' = AfterFsync
    /\ disk' = log
    /\ truncated' = FALSE
    /\ UNCHANGED <<blocks, bits, pending, log, acked, refused>>

\* fsync_fd() fails and its result is dropped.
FsyncFails ==
    /\ pc \in {"fsync", "unflushed"} /\ "fsync_error" \in Faults
    /\ pc' = AfterFsync
    /\ UNCHANGED <<blocks, bits, pending, log, disk, truncated, acked, refused>>

\* The destructor writes the buffer once more, and may or may not succeed; what it
\* writes is not synced.
Retry ==
    /\ pc = "retry"
    /\ pc' = "push"
    /\ \/ Len(log) < MaxLog /\ log' = Append(log, Record(pending[1]))
       \/ \E cut \in Cuts : log' = log \o cut
    /\ UNCHANGED <<blocks, bits, pending, disk, truncated, acked, refused>>

\* Mutant: the block is not pushed.
PushBackNothing ==
    /\ pc = "push"
    /\ pc' = "idle"
    /\ pending' = <<>>
    /\ UNCHANGED <<blocks, bits, log, disk, truncated, acked, refused>>

\* The block joins the chain in memory and append_and_store reports success.
PushBack ==
    /\ pc = "push"
    /\ pc' = "idle"
    /\ blocks' = Append(blocks, pending[1])
    /\ acked' = blocks'
    /\ pending' = <<>>
    /\ UNCHANGED <<bits, log, disk, truncated, refused>>

SetDifficulty(b) ==
    /\ pc = "idle"
    /\ bits' = b
    /\ UNCHANGED <<pc, blocks, pending, log, disk, truncated, acked, refused>>

\* Mutants: only the chain is replaced, and only the file is truncated.
ClearChainOnly ==
    /\ pc = "idle"
    /\ blocks' = <<>>
    /\ acked' = <<>>
    /\ UNCHANGED <<pc, bits, pending, log, disk, truncated, refused>>
ClearFileOnly ==
    /\ pc = "idle"
    /\ log' = <<>>
    /\ truncated' = TRUE
    /\ acked' = <<>>
    /\ UNCHANGED <<pc, blocks, bits, pending, disk, refused>>

\* do_clear_store: the file is truncated, not synced; the new chain keeps the
\* old configuration.
ClearStore ==
    /\ pc = "idle"
    /\ log' = <<>>
    /\ truncated' = TRUE
    /\ blocks' = <<>>
    /\ acked' = <<>>
    /\ UNCHANGED <<pc, bits, pending, disk, refused>>

\* The process ends, at any point; a write it was in may be cut short.
Crash ==
    /\ pc \notin Down
    /\ pc' = "down"
    /\ blocks' = <<>> /\ bits' = 0 /\ pending' = <<>>
    /\ \E cut \in IF pc \in {"write", "retry"} THEN Cuts ELSE {<<>>} : log' = log \o cut
    /\ UNCHANGED <<disk, truncated, acked, refused>>

\* The machine stops.  The file returns as it was synced, or as a part of what
\* was written since, the last record of it possibly cut.
PowerLoss ==
    /\ "power_loss" \in Faults
    /\ pc' = "down"
    /\ blocks' = <<>> /\ bits' = 0 /\ pending' = <<>>
    /\ \/ log' = disk
       \/ \E n \in (IF truncated THEN 0 ELSE Len(disk)) .. Len(log) :
          \E cut \in IF n < Len(log) \/ pc \in {"write", "retry"} THEN Cuts ELSE {<<>>} :
             log' = SubSeq(log, 1, n) \o cut
    /\ disk' = log'
    /\ truncated' = FALSE
    /\ UNCHANGED <<acked, refused>>

Next ==
    \/ Start \/ StartThrows
    \/ \E block \in Offered : AppendAndStore(block)
    \/ WriteFails \/ Flush \/ FlushFails \/ Fsync \/ FsyncFails \/ Retry \/ PushBack
    \/ \E b \in Bits : SetDifficulty(b)
    \/ ClearStore
    \/ Crash \/ PowerLoss

Spec == Init /\ [][Next]_vars

-----------------------------------------------------------------------------
\* Every variable has its type: a record holds its block, and a block is in flight
\* from its validation to its push_back.
TypeOK ==
    /\ pc \in Down \cup {"idle", "write", "fsync", "push"}
              \cup (IF "flush_error" \in Faults THEN {"unflushed", "retry"} ELSE {})
    /\ blocks \in Seq(Block)
    /\ bits \in Nat
    /\ pending \in Seq(Block)
    /\ Len(pending) = IF pc \in Down \cup {"idle"} THEN 0 ELSE 1
    /\ log \in Seq(Item) /\ disk \in Seq(Item)
    /\ truncated \in BOOLEAN
    /\ acked \in Seq(Block)
    /\ refused \in SUBSET Block

\* The chain in memory is well formed as a whole, however it came about: by
\* restoring any file the failures can leave, by appending at any difficulty.
MemoryOK == ChainOK(blocks)

\* While a process runs, the file never tells another story than its memory:
\* what would be restored now is a part of the chain (and of the block being
\* stored), even after fragments, failed writes and earlier crashes.
FileFollowsMemory ==
    pc \notin Down => IsPrefix(load_all_blocks(log), blocks \o pending)

\* Whatever is read from the file, now or after a loss of power, is restored
\* to the last block: restore_from_store never stops early on it.
LogReplays ==
    \A file \in {log, disk} :
        restore_from_store(load_all_blocks(file), 0) = load_all_blocks(file)

\* A block append_and_store reported as not stored does not come back, unless
\* it is offered again.
NoZombie == refused \cap Stored(log) = {}

\* What makes LogReplays and FileFollowsMemory inductive: the block in flight is
\* valid; every chain there is, or may come back, is sound (well formed and
\* restored in full); as long as the file has no fragment it holds the chain in
\* memory and the flushed block, and with one it holds a part of them; and what
\* was synced is still there unless the file was truncated.
PendingValid == pending # <<>> => validate_block(blocks, 0, pending[1]) = "None"
FileSound ==
    Sound(load_all_blocks(log)) /\ Sound(load_all_blocks(disk)) /\ Sound(blocks)
Written == IF pc \in {"fsync", "push"} THEN blocks \o pending ELSE blocks
FileTracks ==
    pc \notin Down => /\ IsPrefix(load_all_blocks(log), Written)
                      /\ Readable(log) = Len(log) => load_all_blocks(log) = Written
SyncedKept == ~truncated => IsPrefix(disk, log)
IndInv == TypeOK /\ PendingValid /\ FileSound /\ FileTracks /\ SyncedKept

\* What NoZombie needs besides: no refused block is in the file as it was synced, and
\* the block in flight, which may be offered again, no longer counts as refused.
RefusedApart ==
    /\ refused \cap Stored(disk) = {}
    /\ pending # <<>> => pending[1] \notin refused

\* "Validate then append AND persist atomically" (chain.hpp): once a process
\* is running again, the chain append_and_store last reported is there.
AckedSurvive == pc = "idle" => IsPrefix(acked, blocks)

\* What AckedSurvive needs besides IndInv, when a write leaves no fragment and a sync
\* does what it says: the file is whole, and what was reported is synced, or was
\* given up by a clear.
AckedSynced ==
    /\ Readable(log) = Len(log) /\ Readable(disk) = Len(disk)
    /\ IsPrefix(acked, load_all_blocks(disk))
    /\ truncated => acked = <<>>
    /\ pc = "push" => ~truncated /\ disk = log

\* "Persist the chain to an append-only log (./data/chain.log) and restore it"
\* (README.md): a process can always start on the file earlier ones left.
StartsUp == pc # "failed"

\* The node implements the ledger: the chain of record is what load_all_blocks
\* reads from the file.
Durable == INSTANCE Ledger WITH ledger  <- load_all_blocks(log),
                                stable  <- load_all_blocks(disk),
                                cleared <- truncated
ImplementsLedger == Durable!Spec
=============================================================================
