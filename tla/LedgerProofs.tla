---------------------------- MODULE LedgerProofs ----------------------------
(***************************************************************************)
(* Ledger keeps the chain of record well formed.                           *)
(***************************************************************************)
EXTENDS Ledger, BlocksProofs

\* The inductive step: types and well-formedness are kept by every step.
LEMMA LedgerStep == TypeOK /\ LedgerOK /\ [Next]_vars => (TypeOK /\ LedgerOK)'
  <1> SUFFICES ASSUME TypeOK, LedgerOK, [Next]_vars
               PROVE  (TypeOK /\ LedgerOK)'
    OBVIOUS
  <1>1. CASE Extend
    <2>1. PICK b : b \in Block /\ validate_block(ledger, 0, b) = "None"
                    /\ ledger' = Append(ledger, b)
      BY <1>1 DEF Extend
    <2>2. ChainOK(Append(ledger, b))
      BY <2>1, ChainOKAppend DEF TypeOK, LedgerOK
    <2>3. ledger' \in Seq(Block)
      BY <2>1 DEF TypeOK
    <2> QED BY <1>1, <2>1, <2>2, <2>3 DEF Extend, TypeOK, LedgerOK
  <1>2. CASE Clear
    BY <1>2, ChainOKEmpty DEF Clear, TypeOK, LedgerOK
  <1>3. CASE Sync
    BY <1>3 DEF Sync, TypeOK, LedgerOK
  <1>4. CASE LosePower
    <2>1. CASE ledger' = stable
      BY <1>4, <2>1 DEF LosePower, TypeOK, LedgerOK
    <2>2. CASE IsPrefix(ledger', ledger) /\ ledger' \in Seq(Block)
      BY <1>4, <2>2, ChainOKPrefix DEF LosePower, TypeOK, LedgerOK
    <2> QED BY <1>4, <2>1, <2>2 DEF LosePower
  <1>5. CASE UNCHANGED vars
    BY <1>5 DEF vars, TypeOK, LedgerOK
  <1> QED BY <1>1, <1>2, <1>3, <1>4, <1>5 DEF Next

\* Whatever is appended, cleared or lost with the power, the chain of record
\* and its durable part stay well formed: every hash commits to the whole
\* history before it, time never runs backwards, roots and signatures are right.
THEOREM LedgerStaysOK == Spec => [](TypeOK /\ LedgerOK)
  <1>1. Init => TypeOK /\ LedgerOK
    <2>1. <<>> \in Seq(Block)
      OBVIOUS
    <2> QED BY <2>1, ChainOKEmpty, Zenon DEF Init, TypeOK, LedgerOK
  <1> QED BY <1>1, LedgerStep, PTL DEF Spec
=============================================================================
