------------------------------- MODULE Blocks -------------------------------
(***************************************************************************)
(* Transactions, block headers, blocks and the rules a block must meet to  *)
(* extend a chain: transaction.cpp, block.cpp, pow.hpp and                 *)
(* Chain::validate_block.                                                  *)
(*                                                                         *)
(* The hash of a header is symbolic, like the hashes of module Merkle.  A  *)
(* header commits to its parent's hash and to three fields of its own, so  *)
(* its hash is the parent's hash with those fields appended: a sequence of *)
(* links from the genesis block on.  The all-zero hash is the empty one.   *)
(***************************************************************************)
EXTENDS Merkle

CONSTANTS
    TxLists,             \* the transaction lists a block may carry
    LeadingZeroBits(_),  \* pow::leading_zero_bits of a header hash
    EnforceGenesisPow    \* ChainConfig::enforce_genesis_pow

\* `body` stands for version, nonce, amount, label and key bytes.  A key is
\* absent (a coinbase), a PEM public key, or bytes OpenSSL cannot read as one.
\* A signature is good when sign() made it for this very body and key.
Transaction == [body : Nat,
                from_pub_pem : {"empty", "pem", "malformed"},
                signature : {"good", "bad"}]

ASSUME BlocksAssumption ==
    /\ TxLists \subseteq Seq(Transaction)
    /\ EnforceGenesisPow \in BOOLEAN

-----------------------------------------------------------------------------
\* The hash leaves the signature out: serialize(for_signing = true).
tx_hash(tx) == <<[body |-> tx.body, from_pub_pem |-> tx.from_pub_pem]>>

\* verify() answers, or throws when the key cannot be read.
verify(tx) == IF tx.from_pub_pem # "pem" THEN "throws" ELSE tx.signature

compute_merkle_root(transactions) ==
    root([i \in DOMAIN transactions |-> tx_hash(transactions[i])])

\* A merkle_root field: some list's root, or 32 zero bytes.
ZeroRoot == <<0, 0, 0>>
MerkleRoot == {compute_merkle_root(txs) : txs \in TxLists} \cup {ZeroRoot}

Link    == [merkle_root : MerkleRoot, timestamp : Nat, nonce : Nat]
Hash256 == Seq(Link)
Header  == [prev_hash : Hash256, merkle_root : MerkleRoot,
            timestamp : Nat, nonce : Nat]
Block   == [header : Header, transactions : TxLists]

ZeroHash == <<>>

\* BlockHeader::hash: sha256 of the serialized header.
hash(header) == Append(header.prev_hash,
                       [merkle_root |-> header.merkle_root,
                        timestamp   |-> header.timestamp,
                        nonce       |-> header.nonce])

\* The hash of the last block, or the zero hash a header is born with.
TipHash(blocks) ==
    IF blocks = <<>> THEN ZeroHash ELSE hash(blocks[Len(blocks)].header)

\* Chain::build_block_from_transactions.
build_block_from_transactions(blocks, txs, timestamp) ==
    [header |-> [prev_hash   |-> TipHash(blocks),
                 merkle_root |-> compute_merkle_root(txs),
                 timestamp   |-> timestamp,
                 nonce       |-> 0],
     transactions |-> txs]

\* make_genesis_block: one unsigned coinbase, whose body is the note.
Coinbase == [body |-> 0, from_pub_pem |-> "empty", signature |-> "bad"]
make_genesis_block(unix_time) ==
    build_block_from_transactions(<<>>, <<Coinbase>>, unix_time)

-----------------------------------------------------------------------------
IsCoinbase(tx) == tx.from_pub_pem = "empty"

\* A genesis block that has transactions starts with its only coinbase.
CoinbaseFirst(txs) ==
    txs # <<>> => /\ IsCoinbase(txs[1])
                  /\ \A i \in 2 .. Len(txs) : ~IsCoinbase(txs[i])

\* Mutant: the first transaction of every block is taken for a coinbase.
UnverifiedButFirst(txs, is_genesis) ==
    {i \in DOMAIN txs : verify(txs[i]) # "good" /\ i # 1}

\* The transactions whose signature validate_block checks and finds wanting.
Unverified(txs, is_genesis) ==
    {i \in DOMAIN txs : /\ verify(txs[i]) # "good"
                        /\ ~(is_genesis /\ i = 1 /\ IsCoinbase(txs[i]))}

meets_difficulty(difficulty_bits, header_hash) ==
    LeadingZeroBits(header_hash) >= difficulty_bits

PowWaived(difficulty_bits, is_genesis) ==
    difficulty_bits = 0 \/ (is_genesis /\ ~EnforceGenesisPow)

\* Chain::validate_block on a chain holding `blocks`: the ValidationError it
\* returns ("None" for a valid block), or "throws" when verify() does.
validate_block(blocks, difficulty_bits, block) ==
    LET is_genesis == blocks = <<>>
        header     == block.header
        txs        == block.transactions
        unverified == Unverified(txs, is_genesis)
    IN  IF is_genesis /\ header.prev_hash # ZeroHash
          THEN "NonZeroPrevHashForGenesis"
        ELSE IF is_genesis /\ ~CoinbaseFirst(txs)
          THEN "CoinBaseMisplaced"
        ELSE IF ~is_genesis /\ header.prev_hash # TipHash(blocks)
          THEN "BadPrevLink"
        ELSE IF ~is_genesis /\ header.timestamp < blocks[Len(blocks)].header.timestamp
          THEN "NonMonotonicTimestamp"
        ELSE IF ~is_genesis /\ \E i \in DOMAIN txs : IsCoinbase(txs[i])
          THEN "CoinbaseInNonGenesisBlock"
        ELSE IF header.merkle_root # compute_merkle_root(txs)
          THEN "BadMerkleRoot"
        ELSE IF unverified # {}
          THEN LET first == CHOOSE i \in unverified : \A j \in unverified : i <= j
               IN  IF verify(txs[first]) = "throws" THEN "throws"
                   ELSE "BadTransactionSignature"
        ELSE IF ~PowWaived(difficulty_bits, is_genesis)
                /\ ~meets_difficulty(difficulty_bits, hash(header))
          THEN "InsufficientPOW"
        ELSE "None"

ValidationError == {"None", "NonZeroPrevHashForGenesis", "BadPrevLink",
                    "NonMonotonicTimestamp", "BadMerkleRoot",
                    "BadTransactionSignature", "CoinBaseMisplaced",
                    "CoinbaseInNonGenesisBlock", "InsufficientPOW", "throws"}

\* Mutant: the loaded blocks are taken as they are.
RestoreUnchecked(loaded, difficulty_bits) == loaded

\* Chain::restore_from_store's loop: blocks are appended until one is refused.
Restorable(loaded, difficulty_bits, n) ==
    \A i \in 1 .. n :
        validate_block(SubSeq(loaded, 1, i - 1), difficulty_bits, loaded[i]) = "None"
restore_from_store(loaded, difficulty_bits) ==
    LET n == CHOOSE m \in 0 .. Len(loaded) :
                /\ Restorable(loaded, difficulty_bits, m)
                /\ m < Len(loaded) => ~Restorable(loaded, difficulty_bits, m + 1)
    IN  SubSeq(loaded, 1, n)

\* The block it stops at is one on which verify() throws: the exception escapes.
RestoreThrows(loaded, difficulty_bits) ==
    LET restored == restore_from_store(loaded, difficulty_bits)
    IN  /\ Len(restored) < Len(loaded)
        /\ validate_block(restored, difficulty_bits, loaded[Len(restored) + 1]) = "throws"

-----------------------------------------------------------------------------
\* What it means for a chain to be well formed, each part for the whole chain
\* (validate_block only ever compares a block with the one before it).
LinkOf(block) == [merkle_root |-> block.header.merkle_root,
                  timestamp   |-> block.header.timestamp,
                  nonce       |-> block.header.nonce]

\* Every block's hash commits to every header up to it, in order.
HashesCommit(chain) ==
    \A i \in DOMAIN chain :
        hash(chain[i].header) = [k \in 1 .. i |-> LinkOf(chain[k])]

\* Time never runs backwards between any two blocks.
TimesMonotone(chain) ==
    \A i, j \in DOMAIN chain :
        i <= j => chain[i].header.timestamp <= chain[j].header.timestamp

\* Every root is that of the block's own transactions.
RootsMatch(chain) ==
    \A i \in DOMAIN chain :
        chain[i].header.merkle_root = compute_merkle_root(chain[i].transactions)

\* Only the first transaction of the first block is a coinbase, and every
\* other transaction is signed by the key it names.
TransactionsSound(chain) ==
    \A i \in DOMAIN chain : \A k \in DOMAIN chain[i].transactions :
        IF i = 1 /\ k = 1 THEN IsCoinbase(chain[i].transactions[k])
        ELSE verify(chain[i].transactions[k]) = "good"

ChainOK(chain) ==
    /\ HashesCommit(chain)
    /\ TimesMonotone(chain)
    /\ RootsMatch(chain)
    /\ TransactionsSound(chain)

\* A chain that is well formed and that restore_from_store returns in full.
Sound(chain) == ChainOK(chain) /\ Restorable(chain, 0, Len(chain))
=============================================================================
