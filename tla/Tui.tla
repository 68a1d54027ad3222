-------------------------------- MODULE Tui --------------------------------
(***************************************************************************)
(* The interactive node, cli/tui.cpp, with mine_block (miner.cpp) in a     *)
(* worker thread.                                                          *)
(*                                                                         *)
(* The main thread loops: it takes a mined block if there is one ("poll"), *)
(* handles the keys that were pressed ("keys") and draws.  The worker runs *)
(* beside it and shares the chain, which it reads without a lock, and the  *)
(* atomic flags mining, cancel and done.  A wall clock reading is any      *)
(* member of Times: the clock may be set back.  The store does not fail    *)
(* here (module Node is about that), so append_and_store is one step, and  *)
(* `log` holds the blocks of its records.                                  *)
(***************************************************************************)
EXTENDS Blocks, SequencesExt

CONSTANTS
    AppendTx, MineTx,  \* the signed transactions of the 'B' and 'M' keys
    Times,             \* wall clock readings
    Nonces,            \* the nonces the search gets to
    UiStart, UiMax,    \* ui_difficulty_bits at first (16) and at most (32)
    MaxBlocks          \* bound: no 'G', 'B' or 'M' on a chain this high

ASSUME TuiAssumption ==
    /\ {<<Coinbase>>, <<AppendTx>>, <<MineTx>>} \subseteq TxLists
    /\ Times \subseteq Nat /\ Nonces \subseteq Nat
    /\ UiMax \in Nat /\ UiStart \in 0 .. UiMax /\ MaxBlocks \in Nat

VARIABLES
    main,         \* where the main thread is
    running,      \* g_running
    blocks, bits, \* App::chain: blocks_ and config_.difficulty_bits
    log,          \* the records of App::store
    ui,           \* ui_difficulty_bits
    mining, cancel, done,  \* the atomics of MiningState
    mined_block,  \* MiningState::mined_block, <<>> before the first
    joinable,     \* MiningState::worker is a thread nobody joined
    worker,       \* where that thread is, "none" when there is none
    difficulty,   \* the worker's copy of ui_difficulty_bits
    candidate,    \* mine_block's block, <<>> when there is none
    raced         \* blocks_ changed while the worker was reading it

chainVars  == <<blocks, log>>
flagVars   == <<mining, cancel, done>>
workerVars == <<worker, difficulty, candidate>>
vars == <<main, running, chainVars, bits, ui, flagVars, mined_block, joinable,
          workerVars, raced>>

\* What a torn read of blocks_.back() can yield instead of a hash of the chain.
GarbageHash == <<[merkle_root |-> ZeroRoot, timestamp |-> 0, nonce |-> 0]>>

Init ==
    /\ main = "off" /\ running = FALSE
    /\ blocks = <<>> /\ bits = 0 /\ log = <<>> /\ ui = UiStart
    /\ mining = FALSE /\ cancel = FALSE /\ done = FALSE
    /\ mined_block = <<>> /\ joinable = FALSE
    /\ worker = "none" /\ difficulty = 0 /\ candidate = <<>> /\ raced = FALSE

\* The process is gone, and with it everything but the file.
Dies(how) ==
    /\ main' = how
    /\ running' = FALSE
    /\ blocks' = <<>> /\ bits' = 0 /\ ui' = UiStart
    /\ mining' = FALSE /\ cancel' = FALSE /\ done' = FALSE
    /\ mined_block' = <<>> /\ joinable' = FALSE
    /\ worker' = "none" /\ difficulty' = 0 /\ candidate' = <<>> /\ raced' = FALSE
    /\ UNCHANGED log

\* main(): a new App, its chain restored from the store.
StartUpAt(difficulty_bits) ==
    /\ main \in {"off", "terminated", "crashed"}
    /\ main' = "poll"
    /\ running' = TRUE
    /\ blocks' = restore_from_store(log, difficulty_bits)
    /\ UNCHANGED <<bits, log, ui, flagVars, mined_block, joinable, workerVars, raced>>

\* Mutant: the chain is restored at the difficulty of the user interface.
StartUpAtUi == StartUpAt(UiStart)

\* A chain is born with difficulty 0.
StartUp == StartUpAt(0)

\* Mutant: the block is not validated.
append_unchecked(block, difficulty_bits) ==
    /\ blocks' = Append(blocks, block)
    /\ log' = Append(log, block)
    /\ raced' = (raced \/ worker = "reading")

\* Chain::append_and_store on a store that does not fail.  A worker inside
\* build_block_from_transactions then has the vector changed under it.
append_and_store(block, difficulty_bits) ==
    IF validate_block(blocks, difficulty_bits, block) = "None"
    THEN /\ blocks' = Append(blocks, block)
         /\ log' = Append(log, block)
         /\ raced' = (raced \/ worker = "reading")
    ELSE UNCHANGED <<blocks, log, raced>>

-----------------------------------------------------------------------------
(* The main thread. *)

\* The top of the loop: a mined block is appended.
TakeMined(left, difficulty_bits) ==
    /\ main = "poll" /\ running
    /\ main' = "keys"
    /\ done' = left
    /\ IF done
       THEN /\ mining' = FALSE
            /\ bits' = ui
            /\ append_and_store(mined_block[1], difficulty_bits)
       ELSE UNCHANGED <<mining, bits, chainVars, raced>>
    /\ UNCHANGED <<running, ui, cancel, mined_block, joinable, workerVars>>

\* Mutants: the `done` flag is read and not reset, and the difficulty is set after
\* the block was appended.
PollKeepsDone == TakeMined(done, ui)
PollAtOldBits == TakeMined(FALSE, bits)

\* The flag is reset: nobody else can set it before the next search.  The block is
\* validated at the difficulty the user has selected by now.
Poll == TakeMined(FALSE, ui)

\* 'G': do_genesis.
KeyGenesis ==
    /\ main = "keys" /\ blocks = <<>> /\ MaxBlocks > 0
    /\ \E unix_time \in Times : append_and_store(make_genesis_block(unix_time), bits)
    /\ UNCHANGED <<main, running, bits, ui, flagVars, mined_block, joinable, workerVars>>

\* 'B': do_append_signed_block.
KeyAppend ==
    /\ main = "keys" /\ blocks # <<>> /\ Len(blocks) < MaxBlocks
    /\ \E unix_time \in Times :
          append_and_store(
              build_block_from_transactions(blocks, <<AppendTx>>, unix_time), bits)
    /\ UNCHANGED <<main, running, bits, ui, flagVars, mined_block, joinable, workerVars>>

\* start_mining.  Assigning to a std::thread that is still joinable ends the process
\* with std::terminate.
StartMining(mining_flag, cancel_flag) ==
    /\ main = "keys" /\ ~mining /\ blocks # <<>> /\ Len(blocks) < MaxBlocks
    /\ IF joinable
       THEN Dies("terminated")
       ELSE /\ cancel' = cancel_flag /\ done' = FALSE /\ mining' = mining_flag
            /\ joinable' = TRUE
            /\ worker' = "start" /\ difficulty' = ui
            /\ UNCHANGED <<main, running, chainVars, bits, ui, mined_block,
                           candidate, raced>>

\* Mutants: `mining` is not set, and `cancel` is not reset.
KeyMineUnflagged   == StartMining(FALSE, FALSE)
KeyMineKeepsCancel == StartMining(TRUE, cancel)

\* 'M'.
KeyMine == StartMining(TRUE, FALSE)

SelectBits(choices) ==
    /\ main = "keys"
    /\ ui' \in choices
    /\ UNCHANGED <<main, running, chainVars, bits, flagVars, mined_block, joinable,
                   workerVars, raced>>

\* Mutant: no bounds.
KeyDifficultyUnbounded == SelectBits({ui - 1, ui + 1})

\* '[' and ']'.
KeyDifficulty == SelectBits({ui - 1, ui + 1} \cap 0 .. UiMax)

\* The last part of do_clear_store: the file is truncated and the chain replaced
\* by an empty one with the same configuration, unless the file cannot be opened.
Clear ==
    /\ main' = "keys"
    /\ \/ /\ blocks' = <<>> /\ log' = <<>>
          /\ raced' = (raced \/ worker = "reading")
       \/ UNCHANGED <<blocks, log, raced>>
    /\ UNCHANGED <<running, bits, ui, done, mined_block, difficulty>>

\* do_clear_store.  A worker still mining is cancelled and joined first.
DoClear(cancel_flag) ==
    /\ main = "keys"
    /\ IF mining
       THEN /\ cancel' = cancel_flag
            /\ main' = "clear_join"
            /\ UNCHANGED <<running, chainVars, bits, ui, mining, done, mined_block,
                           joinable, workerVars, raced>>
       ELSE Clear /\ UNCHANGED <<mining, cancel, joinable, worker, candidate>>

\* Mutant: the worker is joined without being cancelled.
KeyClearNoCancel == DoClear(cancel)

\* 'X'.
KeyClear == DoClear(TRUE)

ClearJoin ==
    /\ main = "clear_join" /\ (joinable => worker = "exited")
    /\ Clear
    /\ mining' = FALSE
    /\ joinable' = FALSE /\ worker' = "none" /\ candidate' = <<>>
    /\ UNCHANGED cancel

\* 'Q', or SIGINT at any time.
Quit ==
    /\ running
    /\ running' = FALSE
    /\ UNCHANGED <<main, chainVars, bits, ui, flagVars, mined_block, joinable,
                   workerVars, raced>>

\* No key is left; draw, sleep, and back to the top of the loop.
EndKeys ==
    /\ main = "keys"
    /\ main' = "poll"
    /\ UNCHANGED <<running, chainVars, bits, ui, flagVars, mined_block, joinable,
                   workerVars, raced>>

\* The loop is left for the join, after stop_mining.
Leave(cancel_flag) ==
    /\ main = "poll" /\ ~running
    /\ main' = "exit_join"
    /\ cancel' = cancel_flag
    /\ UNCHANGED <<running, chainVars, bits, ui, mining, done, mined_block, joinable,
                   workerVars, raced>>

\* Mutant: the worker is joined without being cancelled.
LeaveLoopNoCancel == Leave(cancel)

LeaveLoop == Leave(cancel \/ mining)

ExitJoin ==
    /\ main = "exit_join" /\ (joinable => worker = "exited")
    /\ Dies("off")

-----------------------------------------------------------------------------
(* The worker thread. *)

\* mine_block calls build_block_from_transactions, which reads blocks_.
BuildBegin ==
    /\ worker = "start"
    /\ worker' = "reading"
    /\ raced' = FALSE
    /\ UNCHANGED <<main, running, chainVars, bits, ui, flagVars, mined_block, joinable,
                   difficulty, candidate>>

\* Undisturbed, the read yields the tip's hash.  With blocks_ changed meanwhile
\* it yields the hash of an old or of the new tip, or garbage, or a fault.
BuildEnd ==
    /\ worker = "reading"
    /\ \/ /\ worker' = "search"
          /\ raced' = FALSE
          /\ \E prev \in IF raced
                         THEN {hash(b.header) : b \in Range(blocks)} \cup {GarbageHash}
                         ELSE {TipHash(blocks)} :
             \E now \in Times :
                candidate' = <<[build_block_from_transactions(<<>>, <<MineTx>>, now)
                                  EXCEPT !.header.prev_hash = prev]>>
          /\ UNCHANGED <<main, running, chainVars, bits, ui, flagVars, mined_block,
                         joinable, difficulty>>
       \/ raced /\ Dies("crashed")

\* The head of the loop: cancel_flag is tested before every hash.  When it is set
\* mine_block throws, and the worker catches.
Test ==
    /\ worker = "search"
    /\ worker' = IF cancel THEN "finish" ELSE "hash"
    /\ UNCHANGED <<main, running, chainVars, bits, ui, flagVars, mined_block, joinable,
                   difficulty, candidate, raced>>

\* The headers a hash is taken of: nonce 0 first; when that is not enough the
\* clock is read again for the timestamp, and other nonces follow.
Retimed(header, nonce, time) == [header EXCEPT !.nonce = nonce, !.timestamp = time]
Tried(block) ==
    {block.header} \cup
    {Retimed(block.header, nonce, time) :
        nonce \in IF LeadingZeroBits(hash(block.header)) >= difficulty
                  THEN {} ELSE Nonces \ {0},
        time \in Times}

\* A header meets the difficulty, and mine_block returns it.
Return(done_flag) ==
    /\ worker = "hash"
    /\ \E header \in Tried(candidate[1]) :
          /\ LeadingZeroBits(hash(header)) >= difficulty
          /\ candidate' = <<[candidate[1] EXCEPT !.header = header]>>
    /\ worker' = "publish"
    /\ done' = done_flag
    /\ UNCHANGED <<main, running, chainVars, bits, ui, mining, cancel, mined_block,
                   joinable, difficulty, raced>>

\* Mutant: `done` is set before the block is published.
FoundAndDone == Return(TRUE)

\* Nothing is announced yet.
Found == Return(done)

\* It does not, and the loop goes on.
Missed ==
    /\ worker = "hash"
    /\ \E header \in Tried(candidate[1]) : LeadingZeroBits(hash(header)) < difficulty
    /\ worker' = "search"
    /\ UNCHANGED <<main, running, chainVars, bits, ui, flagVars, mined_block, joinable,
                   difficulty, candidate, raced>>

\* Under the mutex: mined_block = mined.
Publish ==
    /\ worker = "publish"
    /\ worker' = "announce"
    /\ mined_block' = candidate
    /\ candidate' = <<>>
    /\ UNCHANGED <<main, running, chainVars, bits, ui, flagVars, joinable, difficulty,
                   raced>>

Announce ==
    /\ worker = "announce"
    /\ worker' = "finish"
    /\ done' = TRUE
    /\ UNCHANGED <<main, running, chainVars, bits, ui, mining, cancel, mined_block,
                   joinable, difficulty, candidate, raced>>

Finish ==
    /\ worker = "finish"
    /\ worker' = "exited"
    /\ mining' = FALSE
    /\ candidate' = <<>>
    /\ UNCHANGED <<main, running, chainVars, bits, ui, cancel, done, mined_block,
                   joinable, difficulty, raced>>

-----------------------------------------------------------------------------
Main == \/ StartUp \/ Poll \/ KeyGenesis \/ KeyAppend \/ KeyMine \/ KeyDifficulty
        \/ KeyClear \/ ClearJoin \/ Quit \/ EndKeys \/ LeaveLoop \/ ExitJoin
Worker == \/ BuildBegin \/ BuildEnd \/ Test \/ Found \/ Missed \/ Publish
          \/ Announce \/ Finish
Next == Main \/ Worker

\* The scheduler runs both threads, and a hash takes finite time.  Keys do not
\* arrive forever without a pause in which read_key finds none.  Nothing makes the
\* search succeed.
Fairness ==
    /\ WF_vars(Poll) /\ SF_vars(EndKeys) /\ WF_vars(ClearJoin)
    /\ WF_vars(LeaveLoop) /\ WF_vars(ExitJoin)
    /\ WF_vars(Worker)

Spec == Init /\ [][Next]_vars /\ Fairness

-----------------------------------------------------------------------------
\* Every variable has its type.
TypeOK ==
    /\ main \in {"off", "poll", "keys", "clear_join", "exit_join", "terminated",
                 "crashed"}
    /\ running \in BOOLEAN
    /\ blocks \in Seq(Block) /\ log \in Seq(Block)
    /\ bits \in 0 .. UiMax /\ ui \in 0 .. UiMax /\ difficulty \in 0 .. UiMax
    /\ mining \in BOOLEAN /\ cancel \in BOOLEAN /\ done \in BOOLEAN
    /\ joinable \in BOOLEAN /\ raced \in BOOLEAN
    /\ mined_block \in Seq(Block) /\ Len(mined_block) <= 1
    /\ candidate \in Seq(Block) /\ Len(candidate) <= 1
    /\ worker \in {"none", "start", "reading", "search", "hash", "publish",
                   "announce", "finish", "exited"}

Alive == main \in {"poll", "keys", "clear_join", "exit_join"}

\* The chain is well formed whatever the worker read while the main thread was
\* appending, and whatever became of the difficulty and the clock meanwhile.
MemoryOK == ChainOK(blocks)

\* Between two keys the file and the chain agree: what was appended at any
\* difficulty, in this process or an earlier one, is all restored.
StoreMatchesChain == Alive => blocks = log

\* A block goes on top of others only with the work that is called for when it goes
\* there: a mined one with the user's selection of that moment, however it was changed
\* since the search began, and one of the key 'B' with the chain's own difficulty.
\* Difficulty zero calls for none.
CalledFor == IF main = "poll" THEN ui ELSE bits
WorkInForce ==
    [][blocks # <<>> /\ Len(blocks') > Len(blocks) =>
          CalledFor = 0 \/ meets_difficulty(CalledFor, TipHash(blocks'))]_vars

\* When `mining` is false the worker no longer reads the chain or writes
\* mined_block: do_clear_store and start_mining rely on it to skip the join, and
\* draw to read last_done_time, which the worker writes beside mined_block.
FlagCoversWorker ==
    ~mining => worker \notin {"start", "reading", "search", "hash", "publish"}

\* A block announced by `done` is complete, and it is the worker's last word:
\* nobody writes mined_block while the main thread may read it.
DoneCoversBlock == done => mined_block # <<>> /\ worker # "publish"

\* A search is only ever cut short by a main thread that waits for its end: a
\* cancellation of an earlier search does not outlive it.
NoSpuriousCancel ==
    worker \in {"start", "reading", "search", "hash"} /\ cancel =>
        main \in {"clear_join", "exit_join"}

\* What makes these inductive: a thread is there exactly while it is joinable, and
\* only in a live process; what it works on, has published or has announced is
\* there, and it announces last; and the file, which outlives the process, is
\* sound and, while the process lives, what it has in memory.
WorkerTracked ==
    /\ joinable <=> worker # "none"
    /\ ~Alive => worker = "none"
    /\ worker \in {"search", "hash", "publish"} => candidate # <<>>
    /\ worker = "announce" => mined_block # <<>>
    /\ done => mined_block # <<>> /\ worker \in {"none", "finish", "exited"}
ChainTracked == Sound(log) /\ blocks = IF Alive THEN log ELSE <<>>
IndInv == TypeOK /\ WorkerTracked /\ FlagCoversWorker /\ NoSpuriousCancel /\ ChainTracked

\* A mined block is taken up, unless the user quits or the process dies first.
DoneIsHandled == (done /\ Alive) ~> (~done \/ ~running)

\* Quitting ends the process: the worker is cancelled and joined.
QuitExits == (Alive /\ ~running) ~> ~Alive

\* Clearing the store while mining does not hang.
ClearReturns == (main = "clear_join") ~> (main # "clear_join")

\* "Mine a block at a chosen difficulty" (README.md), again and again: no key
\* ends the process by std::terminate.
NoTerminate == main # "terminated"
=============================================================================
