------------------------------- MODULE Ledger -------------------------------
(***************************************************************************)
(* What astro promises about its chain, without saying how it is kept.     *)
(*                                                                         *)
(* `ledger` is the chain of record: the one a process started now would    *)
(* restore.  `stable` is the part of history that survives the loss of     *)
(* power.  The ledger grows by one valid block at a time, is emptied by an *)
(* explicit clear, and falls back to something between `stable` and itself *)
(* when the power goes; nothing else ever happens to it.                   *)
(***************************************************************************)
EXTENDS Blocks, SequencesExt

VARIABLES
    ledger,   \* the chain of record
    stable,   \* the chain of record when it was last made durable
    cleared   \* it was cleared since then

vars == <<ledger, stable, cleared>>

Init == ledger = <<>> /\ stable = <<>> /\ cleared = FALSE

\* One block, valid on top of the ledger, is appended.
Extend ==
    /\ Len(ledger') = Len(ledger) + 1
    /\ LET block == ledger'[Len(ledger')]
       IN  /\ block \in Block
           /\ validate_block(ledger, 0, block) = "None"
           /\ ledger' = Append(ledger, block)
    /\ UNCHANGED <<stable, cleared>>

Clear == ledger' = <<>> /\ cleared' = TRUE /\ stable' = stable

Sync == stable' = ledger /\ cleared' = FALSE /\ ledger' = ledger

\* Either the last durable state returns, or a part of the newer one is kept;
\* unless the ledger was cleared since, that part contains the durable one.
LosePower ==
    /\ \/ ledger' = stable
       \/ ledger' \in Seq(Block) /\ IsPrefix(ledger', ledger)
          /\ (~cleared => IsPrefix(stable, ledger'))
    /\ stable' = ledger'
    /\ cleared' = FALSE

Next == Extend \/ Clear \/ Sync \/ LosePower

Spec == Init /\ [][Next]_vars

-----------------------------------------------------------------------------
\* The chain of record and the durable one are well formed.
LedgerOK == ChainOK(ledger) /\ ChainOK(stable)

TypeOK == ledger \in Seq(Block) /\ stable \in Seq(Block) /\ cleared \in BOOLEAN
=============================================================================
