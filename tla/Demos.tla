------------------------------- MODULE Demos --------------------------------
(***************************************************************************)
(* The programs that make a chain in memory and end: astro-node demo-keys, *)
(* demo-tx and demo-chain (main.cpp) and the miner demo (cli/mine.cpp)     *)
(* with the loop of mine_block, while calls of OpenSSL fail under them     *)
(* (module Crypto) and the clock is set back.  sha256 answers a failure    *)
(* with the zero hash, which meets every difficulty.                       *)
(*                                                                         *)
(* A program is the sequence of the crypto functions it calls, one step    *)
(* each, and what it does with each result.  Hashes are symbolic, but for  *)
(* that of the mined header, whose bits count.  Hashes that are computed   *)
(* to be printed are left out.                                             *)
(***************************************************************************)
EXTENDS Crypto, Pow

CONSTANTS
    Digests,       \* the hashes a mined header may turn out to have, as bytes
    Difficulties,  \* the miner demo's argument
    Times,         \* wall clock readings
    BumpEvery,     \* 1000000, how often the miner looks at the clock
    MaxNonce       \* bound on the nonces that are tried

ASSUME DemosAssumption ==
    /\ Digests \subseteq Seq(0 .. 255) \ {<<>>} /\ Difficulties \subseteq Nat
    /\ Times \subseteq Nat \ {0} /\ BumpEvery \in Nat \ {0} /\ MaxNonce \in Nat

VARIABLES
    prog, bits,   \* the program, and the difficulty its chain has in the end
    step,         \* the step it is at
    exit,         \* its exit code, "abort" for an uncaught exception
    val,          \* the hashes that were computed, by step
    height,       \* blocks in the chain
    time0, time1, \* timestamps of the genesis block and of the one built on it
    nonce, bump,  \* mine_block's nonce and the clock at its last look
    hash,         \* the true hash of the mined header, <<>> while unknown
    clock, back   \* the last reading; the clock was set back

demoVars == <<prog, bits, step, exit, val, height, time0, time1, nonce, bump, hash, clock, back>>
vars == <<cryptoVars, demoVars>>

-----------------------------------------------------------------------------
\* make_genesis_block and its validation, a signed transaction, the block built
\* with it (leaf and root of the Merkle tree, hash of the parent) and its
\* validation.
Genesis  == <<"leaf0", "root0", "vleaf0", "vroot0">>
Signing  == <<"keys", "sign">>
Building == <<"prev", "leaf1", "root1">>
Append1  == <<"tip", "vleaf1", "vroot1", "verify">>

Program ==
    [demo_keys  |-> <<"init">> \o Signing \o <<"verify">>,
     demo_tx    |-> <<"init">> \o Signing \o <<"verify">>,
     demo_chain |-> <<"init">> \o Genesis \o Signing \o Building \o Append1,
     mine       |-> <<"init">> \o Genesis \o Signing \o Building \o <<"mine">>
                    \o Append1 \o <<"pow">>]

Step == Program[prog][step]
AtStep(s) == exit = "running" /\ Step = s

FunctionOf(s) ==
    CASE s = "init"   -> "crypto_init"    [] s = "keys"   -> "generate_ec_keypair"
      [] s = "sign"   -> "sign_message"   [] s = "verify" -> "verify_message"
      [] OTHER        -> "sha256"

\* What a step hashes, as a sequence of what the hash commits to.
Input(s) ==
    CASE s \in {"leaf0", "vleaf0"} -> <<"coinbase">>
      [] s \in {"leaf1", "vleaf1"} -> <<"tx">>
      [] s = "root0"  -> Append(val["leaf0"], "root")
      [] s = "vroot0" -> Append(val["vleaf0"], "root")
      [] s = "root1"  -> Append(val["leaf1"], "root")
      [] s = "vroot1" -> Append(val["vleaf1"], "root")
      [] s \in {"prev", "tip"} -> Append(val["root0"], "header")

Zero == <<>>
Hashing == {"leaf0", "vleaf0", "root0", "vroot0", "leaf1", "vleaf1", "root1", "vroot1",
            "prev", "tip"}

Init ==
    /\ CryptoInit
    /\ prog \in DOMAIN Program
    /\ bits \in IF prog = "mine" THEN Difficulties ELSE {0}
    /\ step = 1 /\ exit = "running" /\ height = 0
    /\ val = [s \in Hashing |-> Zero]
    /\ time0 = 0 /\ time1 = 0 /\ nonce = 0 /\ bump = 0 /\ hash = <<>>
    /\ clock = 0 /\ back = FALSE

-----------------------------------------------------------------------------
ReadClock(t) == clock' = t /\ back' = (back \/ t < clock)

\* The steps that are left out: the proof of work at difficulty 0, and the parent's
\* hash where there is no parent.
Skipped == (Step = "pow" /\ bits = 0) \/ (Step \in {"prev", "tip"} /\ height = 0)

\* The step's function is called.  The timestamps are taken before the genesis
\* block is made and when mine_block starts; demo-chain counts on from the first.
Start ==
    /\ exit = "running" /\ ~Skipped /\ Begin(FunctionOf(Step))
    /\ IF Step = "leaf0" \/ (Step = "prev" /\ prog = "mine")
       THEN \E t \in Times : ReadClock(t) /\ (IF Step = "leaf0"
                                               THEN time0' = t /\ UNCHANGED time1
                                               ELSE time1' = t /\ UNCHANGED time0)
       ELSE /\ time1' = (IF Step = "prev" THEN time0 + 1 ELSE time1)
            /\ UNCHANGED <<time0, clock, back>>
    /\ hash' = IF Step = "mine" THEN <<>> ELSE hash
    /\ UNCHANGED <<prog, bits, step, exit, val, height, nonce, bump>>

\* OpenSSL's part.
Library == (Succeed \/ Fail) /\ UNCHANGED demoVars

\* The caller takes the result, and goes on,
Take == fn = "none" /\ result # "none" /\ result' = "none"
        /\ UNCHANGED <<fn, at, live, owned, erred, failures>>
GoOn == IF step = Len(Program[prog]) THEN exit' = "0" /\ UNCHANGED step
        ELSE step' = step + 1 /\ UNCHANGED exit

\* or ends.
Exit(code) == exit' = code /\ UNCHANGED step

\* crypto_init() is tested; an exception is caught in demo-keys and demo-tx only.
InitOrThrow ==
    /\ exit = "running" /\ Take
    /\ \/ AtStep("init") /\ (IF result = "done" THEN GoOn ELSE Exit("1"))
       \/ Step \in {"keys", "sign"} /\ result = "done" /\ GoOn
       \/ result = "throw" /\ Exit(IF prog \in {"demo_keys", "demo_tx"} THEN "1" ELSE "abort")
    /\ UNCHANGED <<prog, bits, val, height, time0, time1, nonce, bump, hash, clock, back>>

\* What sha256 returned.
Computed(s) == IF result = "zero" THEN Zero ELSE Input(s)

\* A hash of the blocks being built is kept.
Hashed ==
    /\ exit = "running" /\ Take
    /\ Step \in {"leaf0", "root0", "vleaf0", "leaf1", "root1", "vleaf1", "prev"}
    /\ val' = [val EXCEPT ![Step] = Computed(Step)]
    /\ GoOn
    /\ UNCHANGED <<prog, bits, height, time0, time1, nonce, bump, hash, clock, back>>

\* Each of the two blocks has one transaction; a coinbase names no sender.
from_pub_pem == <<"", "pem">>

\* Mutant: a genesis block may start with any transaction.
CoinbaseOptional(n) == from_pub_pem[n] = "" => height = 0

\* validate_block wants a coinbase first in a genesis block and none anywhere else.
CoinbaseInPlace(n) == from_pub_pem[n] = "" <=> height = 0

\* Mutant: validate_block adds the block, and append_block adds it again.
PushedTwice == height + 2

\* The height after blocks_.push_back.
Pushed == height + 1

\* validate_block on the genesis block: the root is computed again.  A refusal ends
\* the miner demo with 2; demo-chain goes on, with an empty chain.
GenesisChecked ==
    /\ AtStep("vroot0") /\ Take
    /\ val' = [val EXCEPT !["vroot0"] = Computed("vroot0")]
    /\ IF CoinbaseInPlace(1) /\ Computed("vroot0") = val["root0"]
       THEN height' = Pushed /\ GoOn
       ELSE UNCHANGED height /\ (IF prog = "mine" THEN Exit("2") ELSE GoOn)
    /\ UNCHANGED <<prog, bits, time0, time1, nonce, bump, hash, clock, back>>

\* On an empty chain the second block is built without a parent, and validate_block
\* takes it for a genesis block.
Skip ==
    /\ exit = "running" /\ Skipped /\ fn = "none" /\ result = "none"
    /\ IF Step = "tip" => val["prev"] = Zero /\ CoinbaseInPlace(2)
       THEN GoOn ELSE Exit("2")
    /\ height' = IF Step = "pow" THEN Pushed ELSE height
    /\ UNCHANGED <<prog, bits, val, time0, time1, nonce, bump, hash, clock, back, cryptoVars>>

\* Mutant: the miner is content with one bit too few.
FoundNear(digest) == leading_zero_bits(digest) + 1 >= bits

\* The miner's test of a header's hash.
Found(digest) == leading_zero_bits(digest) >= bits

\* What the hash of the mined header is taken for, given what it truly is.
Seen(digest) == IF result = "zero" THEN [i \in DOMAIN digest |-> 0] ELSE digest

\* A pass of mine_block's loop.  The clock is looked at when the nonce is a multiple
\* of BumpEvery, 0 included, and a reading above the last one becomes the timestamp.
Mined ==
    /\ AtStep("mine") /\ Take
    /\ \E digest \in Digests :
          /\ hash' = IF result = "zero" THEN <<>> ELSE digest
          /\ \/ /\ Found(Seen(digest)) /\ GoOn
                /\ UNCHANGED <<time1, nonce, bump, clock, back>>
             \/ /\ ~Found(Seen(digest)) /\ nonce < MaxNonce
                /\ nonce' = nonce + 1
                /\ IF nonce % BumpEvery # 0 THEN UNCHANGED <<time1, bump, clock, back>>
                   ELSE \E t \in Times :
                           /\ ReadClock(t)
                           /\ time1' = (IF t > bump THEN t ELSE time1)
                           /\ bump' = (IF t > bump THEN t ELSE bump)
                /\ UNCHANGED <<step, exit>>
    /\ UNCHANGED <<prog, bits, val, height, time0>>

\* What validate_block asks of a second block: its parent's hash, a timestamp no
\* earlier and no coinbase, its own root, its transaction's signature and its work.
Passes(work) ==
    CASE Step = "tip"    -> /\ Computed("tip") = val["prev"] /\ time1 >= time0
                             /\ CoinbaseInPlace(2)
      [] Step = "vroot1" -> Computed("vroot1") = val["root1"]
      [] Step = "verify" -> result = "done"
      [] Step = "pow"    -> work

\* Mutant: a mined block is taken to have the hash it was mined for.
ValidTrusting(digest) == Passes(TRUE)

\* The hash is computed again.
Valid(digest) == Passes(leading_zero_bits(Seen(digest)) >= bits)

\* The block is appended once the last check is passed; a refusal ends the program.
\* demo-keys and demo-tx only print what verify said.  A hash that mine_block did not
\* get is only now found out.
Checked ==
    /\ exit = "running" /\ Take /\ result # "throw"
    /\ Step \in {"tip", "vroot1", "verify", "pow"}
    /\ \E digest \in IF Step = "pow" /\ hash = <<>> THEN Digests ELSE {hash} :
          /\ hash' = IF result = "zero" THEN hash ELSE digest
          /\ IF Valid(digest) \/ prog \in {"demo_keys", "demo_tx"} THEN GoOn
             ELSE Exit(IF prog = "mine" THEN "3" ELSE "2")
          /\ height' = IF exit' = "0" /\ prog \in {"demo_chain", "mine"} THEN Pushed ELSE height
    /\ UNCHANGED <<prog, bits, val, time0, time1, nonce, bump, clock, back>>

Next == \/ Start \/ Library \/ InitOrThrow \/ Hashed \/ GenesisChecked
        \/ Skip \/ Mined \/ Checked

Spec == Init /\ [][Next]_vars

-----------------------------------------------------------------------------
\* Every variable has its type, no chain has more blocks than its program made, and
\* OpenSSL is called by a running program only.
TypeOK ==
    /\ CryptoTypeOK
    /\ prog \in DOMAIN Program /\ step \in DOMAIN Program[prog]
    /\ bits \in Difficulties \cup {0} /\ height \in 0 .. 2
    /\ exit \in {"running", "abort", "0", "1", "2", "3"}
    /\ (exit # "running" => fn = "none" /\ result = "none")
    /\ val \in [Hashing -> Seq({"coinbase", "tx", "root", "header"})]
    /\ time0 \in Times \cup {0} /\ time1 \in Nat /\ clock \in Times \cup {0}
    /\ nonce \in 0 .. MaxNonce /\ bump \in Times \cup {0}
    /\ hash \in Digests \cup {<<>>} /\ back \in BOOLEAN

\* leading_zero_bits agrees with the number a hash stands for: it reaches a
\* difficulty exactly when the number is below that difficulty's target.
CountsBits ==
    hash # <<>> => \A b \in 0 .. 8 * Len(hash) + 1 :
                      leading_zero_bits(hash) >= b <=> BelowTarget(hash, b)

\* One failing call of OpenSSL, whichever it is, never gets a bad block onto a
\* chain.  When demo-chain or the miner demo ends well, both blocks are there, the
\* hashes in them are those of what they name, and the mined header is below the
\* target, although a failed sha256 looks like the best hash there is.
AcceptedIsRight ==
    exit = "0" /\ prog \in {"demo_chain", "mine"} =>
        /\ height = 2
        /\ val["root0"] = <<"coinbase", "root">> /\ val["root1"] = <<"tx", "root">>
        /\ val["prev"] = <<"coinbase", "root", "header">>
        /\ bits > 0 => hash # <<>> /\ BelowTarget(hash, bits)

\* No program refuses its own blocks without cause: it ends badly only after a
\* call of OpenSSL failed or, the miner demo, the clock was set back.
RefusedForCause ==
    exit \notin {"running", "0"} => failures > 0 \/ (exit = "3" /\ back)
=============================================================================
