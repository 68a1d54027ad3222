# astro: models, checks and proofs

astro is a small blockchain node: a chain of blocks with signed transactions,
validated one by one, kept in an append-only log and extended by hand or by a
miner thread.  This directory holds TLA+ models of it, TLC configurations that
check them on small instances, and proofs, checked by TLAPS, of the properties
that should hold for every instance.  Paths below are relative to the
repository.

## 1. The system

| Component | State | Operations | Talks to |
|---|---|---|---|
| Merkle tree (`src/core/merkle.cpp`) | none | `root`, `build_proof`, `verify_proof` | called by blocks |
| Transactions, keys (`transaction.cpp`, `keys.cpp`) | none | `tx_hash`, `sign`, `verify` | OpenSSL |
| Blocks (`block.cpp`) | none | `hash`, `compute_merkle_root`, `make_genesis_block` | called by the chain |
| Proof of work (`pow.cpp`) | none | `leading_zero_bits`, `meets_difficulty` | called by chain and miner |
| Chain (`chain.cpp`) | `blocks_`, `config_` | `validate_block`, `append_block`, `restore_from_store`, `append_and_store`, `build_block_from_transactions` | block store |
| Block store (`block_store.cpp`) | the file `chain.log` | `append_block`, `load_all_blocks` | file system |
| Miner (`miner.cpp`) | its candidate block | `mine_block` | reads the chain; a cancel flag |
| TUI (`cli/tui.cpp`) | `App`, `MiningState` | keys G, B, M, X, Q, [ and ], SIGINT, the loop | chain, store, one worker thread |
| Serializer (`serializer.hpp`) | a buffer, a position | `write_*`, `read_*` | blocks, transactions, block store |
| Hashes, keys (`hash.cpp`, `keys.cpp`) | OpenSSL handles while a call lasts | `sha256`, `generate_ec_keypair`, `sign_message`, `verify_message` | OpenSSL |
| Store demo (`cli/store.cpp`) | a chain, the shared file | restore, append one block | the same `chain.log` as the TUI |
| Miner demo, command line (`cli/mine.cpp`, `main.cpp`) | a chain in memory | straight-line programs with exit codes | the library |

What is hard about it:

* **The log and failures.** A record goes through the stream's buffer, the
  operating system and the disk.  Any step may fail or be the last one before a
  crash.  The code looks at one of these failures (`out.good()`), drops the
  others (`flush`, `fsync`), and never repairs the file it finds.
* **Two threads.** The worker reads `Chain::blocks_` without a lock while keys
  may append; three atomic flags say who may touch what.
* **Values that age.** The miner's tip, difficulty and timestamp are taken at
  the start of a search and judged at its end.  Blocks accepted at one
  difficulty are restored at another.
* **Waiting.** Quitting and clearing join a thread that may search forever.
* **Several processes.** The TUI and the store demo use the same file without a
  lock: one may truncate or extend it while another reads it, and each appends
  according to its own memory.
* **Failing calls of OpenSSL.** `sha256` answers a failure with the all-zero hash,
  which is the best proof of work there is; `sign_message` looks at some results
  and not at others.
* **Bytes.** A record cut anywhere runs into the bytes of the next one.

The properties that make each part correct: a chain is well formed *as a
whole*, though `validate_block` compares neighbours only; the file is always a
replayable part of the chain in memory; what was reported as stored survives,
and what was reported as not stored does not come back; the flags tell the
truth about the worker; everything that waits is released.  `PROJECT.json` lists
the hazards one by one, each at its line, with the properties aimed at it.

## 2. The modules

```
Merkle ─┬─ MerkleProof                     proofs of membership
        └─ Blocks ─┬─ Ledger                 the abstract promise
                   ├─ Node ── MCNode         chain and store with failures; implements Ledger
                   ├─ Tui ── MCTui           main thread and worker
                   └─ SharedLog ── MCSharedLog   several processes on one log
LogFile ─┬─ Node                           the file as records and fragments
         └─ LogFormat ── MCLogFormat       the file as bytes; shows LogFile right
Crypto ─┬─ Demos ── MCDemos                the programs in memory, OpenSSL failing
Pow ────┘
BlocksProofs ─┬─ LedgerProofs              the proofs, each about the module of its name
              ├─ NodeProofs
              ├─ TuiProofs
              └─ SharedLogProofs
MerkleProofs, DemosProofs, LogFormatProofs
```

**Merkle** is `root`: the levels are a function of the number of passes, and the
loop ends after the first pass that leaves a single hash.  Hashes are symbolic: a
leaf is a 1-tuple, the hash of a concatenation is the pair, so two hashes are
equal exactly when their inputs are.

**MerkleProof** is `build_proof` and `verify_proof`, one action per pass of
their loops, on every list up to a length and every position in it.

**Blocks** has the data (`Transaction`, `Header`, `Block`), the functions on it,
`validate_block` with its errors in the order of the code and the exception
that escapes when a key cannot be read, the loop of `restore_from_store`, and
what it means for a whole chain to be well formed (`ChainOK`: every hash commits
to every earlier header, time never runs backwards between any two blocks, every
root is that of the block's transactions, there is one coinbase and every other
transaction is signed); `Sound` adds that `restore_from_store`
returns it in full.  The hash of a header is its parent's hash with the
header's own fields appended; the zero hash is the empty sequence.  Amounts,
labels, versions and key bytes are folded into `body`.  Which hashes have how
many leading zero bits is a parameter.

**Node** is one process with its store.  `append_and_store` is split where a
crash can fall: `AppendAndStore` (validate, hand the record to the stream),
`Flush`, `Fsync`, `PushBack`.  The failures are actions of their own, enabled by
the constant `Faults`: `WriteFails` (the stream is bad when it is tested),
`FlushFails` (unnoticed; the stream's destructor tries again, after the sync:
`Retry`), `FsyncFails` (unnoticed), `Crash`, `PowerLoss`, and `StartThrows` (the
log cannot be opened, or the reader or the restore throws on the file it finds).
That the restore throws, on a block whose key cannot be read, is in the model
(`RestoreThrows`) and never happens: every block in the file was validated before
it was written, which is also why `Tui` and `SharedLog` leave it out.  The file is a sequence of whole records and of fragments left
by an interrupted write.  `log` is the file a running system sees, `disk` what
was last synced, `truncated` says that the file was truncated since.  `acked`
and `refused` are history variables: the chain `append_and_store` last reported
as stored, and a block it reported as not stored.

After a loss of power the file is what was synced, or any part of what was
written since that contains what was synced, possibly cut inside a record; after
an unsynced truncation it may be the old file or a part of the new one.  The
file system is external to the repository; this is what an append-only file on a
journalling file system does.

**Ledger** is the promise, without stream, file or process: a chain of record
that grows by one valid block, is cleared, is made durable, or falls back to
something that contains the durable part.  `Node!ImplementsLedger` reads `Node`
as a `Ledger` whose chain of record is `load_all_blocks(log)`.

**LogFile** is the file as `Node` needs it: whole records, fragments, what the
reader returns (`load_all_blocks`) and where it may throw (`MayThrow`).

**LogFormat** is the same file byte by byte: `ByteWriter` and `ByteReader`, the
`serialize()` of transactions, headers and blocks, the record of `append_block`,
and `load_all_blocks` with one action per read.  `AppendCut` stops a record after
any of its bytes, `Change` alters any byte; `OpenFails` is the file that cannot be
opened for reading.  A byte has fewer values than 256
and a hash fewer bytes than 32; every width is the code's.  A history variable
keeps the file in the words of `LogFile`, and the properties say that the reader
here does what `LogFile` says.

**SharedLog** has any number of interactive nodes and store demos in one
directory.  `Open`, `ReadRecord` and `ReadEnd` are the start of a process, record
by record; `TuiAppend`/`DemoAppend` validate against the process's own memory and
`Write` appends whatever the file has become; `Clear` truncates it under everyone;
`End` kills a process anywhere.  A record is smaller than the stream's buffer and
leaves it in one `write()` on a descriptor opened for appending, so records are
never interleaved.  After a truncation a reader stands in the middle of another
file at an old byte offset: there it may find the start of any record, and goes on
from that one, or none, and stops (`next` is the record it goes on at, 0 when it is
anywhere).

**Crypto** writes each function of `keys.cpp`, and `sha256`, as the list of OpenSSL
calls it makes: the handles a call needs, the handle it yields, the guard that is set
up over it before the next call, what is freed by hand, and what the code does when
the call fails (throw, return false or zeros after freeing by hand, or go on with a
null handle).  `live` are the handles that are allocated, `owned` those a guard is
responsible for.  `Succeed` and `Fail` walk the list; leaving a function frees what
its guards own and nothing else, so a handle without a guard or a free stays.  That a call given a null handle fails is how
OpenSSL behaves and is external.

**Pow** is the bit counting of `pow.cpp` and, as its reference, the number a hash
stands for.

**Demos** are `demo-keys`, `demo-tx`, `demo-chain` and the miner demo on top of
`Crypto` and `Pow`: which functions they call in which order, `mine_block`'s loop,
`append_block`'s checks, and every exit code (`abort` is an uncaught exception).
A hash is the sequence of what it commits to, empty when `sha256` failed.  After a
refused genesis block `demo-chain` goes on with an empty chain; its second block is
then judged as a genesis block, and it is the rule about coinbases
(`CoinbaseInPlace`) that refuses it.

**Tui** is the main thread (`main` says where it is: top of the loop, handling
keys, joining) and the worker (`worker`: started, reading the chain, testing the
cancel flag, hashing, publishing, announcing, finishing).  One action per key,
one for each access of the worker to shared state.  The read of `blocks_` by the
worker has a beginning and an end; if the main thread appends between them
(undefined behaviour) the worker gets the hash of an old or the new tip,
garbage, or the process dies.  A clock reading is any member of `Times`, so
the clock may be set back.  Keys that only scroll, inspect or draw are left out.
The store does not fail in this module, except that opening it to clear may.

Operators marked *Mutant* are wrong versions of the definition below them; they
are not used by the specifications.  Substituting one must break the property
`PROJECT.json` pairs it with.

## 3. The runs

| Run | What it shows | Bounds |
|---|---|---|
| MerkleTree | `ProofFollowsLevels` (the loop invariant of `build_proof`), `ProofExact` (a proof is accepted for its own leaf only), `RootsTell` (two lists share a root exactly when they pad to the same tree) | lists of up to 7 leaves of 2 messages |
| NodeFaults | `FileFollowsMemory`, `LogReplays`, `NoZombie`, the inductive invariant `IndInv`, `ImplementsLedger`, with failing opens, writes and syncs, torn records, crashes and loss of power | 2 blocks, 3 items in the file, 2 times |
| NodeHoles | `MemoryOK` when flushes fail unnoticed, so that the log has holes | 3 blocks, 3 items |
| NodeDurable | `MemoryOK` with six transaction lists (one or two coinbases, good, bad and unreadable signatures), wrong roots and parents, two difficulties; `AckedSurvive` when writes are whole or reported, and syncs work | 2 blocks, 3 items, 2 times, 2 nonces |
| NodeTornTail | violation of `AckedSurvive`: torn record | as NodeFaults |
| NodeNoStart | violation of `StartsUp`: torn length field | as NodeFaults |
| TuiSafety | `MemoryOK`, `StoreMatchesChain`, `FlagCoversWorker`, `DoneCoversBlock`, `NoSpuriousCancel`, the action property `WorkInForce` | 3 blocks, 2 times, difficulties 0 and 1 |
| TuiLiveness | `DoneIsHandled`, `QuitExits`, `ClearReturns` | 2 blocks, 1 time |
| TuiTerminate | violation of `NoTerminate` | as TuiLiveness |
| LogFormat | `ReadsWholeRecords`, `ThrowsOnTornLength`, `NeverMalformed`, `SigningBytesTell` | 3 records of 2 blocks, one cut at or change of any byte |
| SharedLog | `NoMixture`, `RecordGrowsByItself`, `LostIffForked`, the inductive invariant `IndInv` | 1 interactive node, 2 store demos, 3 records, 2 blocks high, 4 different chains |
| Demos | `NoLeak`, `FailsClosed`, `CountsBits`, `AcceptedIsRight`, `RefusedForCause` | one failing call, 272 hashes of two bytes, difficulties 0, 3, 10 and 17, 3 nonces, 2 times |

Deadlock is checked in every run but Demos, whose programs end.

The bounds.  Up to seven leaves, a level is odd at every height of a tree of
four levels, and the tree of one leaf is there.  Two blocks are a genesis block,
with its special rules, and one that is not; a third lets a mined and an
appended block compete behind a block that is not genesis, and lets a hole have
something on both sides.  Three items are a record, a fragment and a record
behind it.  Two times are an earlier and a later one.  In NodeFaults all blocks
are at difficulty 0; two difficulties are in NodeDurable and in the Tui runs.
In the instances a hash has as many leading zero bits as its nonce says, so
nonces 0 and 1 fail and meet difficulty 1.  The bounds `MaxBlocks` and `MaxLog`
are guards of the actions that add a block, and of SharedLog's reader.  In
LogFormat three items are a record, a damaged one and one behind it to supply
the bytes that are missing; the run with two damages and two items was made once
by hand, with the same result.  In SharedLog three processes are a reader, a
writer and one that truncates; a reader takes at most `MaxLog` records, which
matters only after a truncation, since it may be led back; the TUI's clock is
later than the store demo's fixed 1700000000 + height, as wall clocks are, so on
a chain the TUI started the demo's block is refused for its timestamp.  In Demos
every first byte of a hash occurs, and second bytes on both sides of every power
of two behind a zero byte; difficulty 17 is out of reach of a hash of two bytes,
as 257 is of the code's; `BumpEvery` is 2 for the code's 1000000, so that the
clock is read twice.

Fairness, in `Tui` only.  Weak fairness of the main thread's steps and of the
worker: the operating system schedules both, and one hash takes finite time.
Strong fairness of `EndKeys`: `read_key` finds no key again and again, since
keys do not arrive without a pause forever.  No fairness makes the search
succeed, the user press a key, or a dead process be started again.

### What the violations mean

* **NodeTornTail.** A write is cut short by a crash or a full disk.  The next
  process restores what is before the fragment and appends *behind* it;
  `append_and_store` reports success; the process after that stops reading at
  the fragment and all of it is gone.  Truncating the log to what was read would
  repair this.
* **NodeNoStart.** If the cut falls into the length field, the bytes it lacks are
  read from the next record's `ASTR`; `payload.resize` throws and no `main`
  catches.  (Depending on where in the field the cut is, the size asked for is
  gigabytes or more than an address space; the model lets `Start` succeed too.)
* **TuiTerminate.** A worker that found its block is never joined; the next 'M'
  assigns to a joinable `std::thread`.

Two more disagreements with comments are known and have no run of their own.
`out.good()` is tested before `out.flush()`, and a record smaller than the stream's
buffer is only written by the flush, whose failure is reported as success: with
`flush_error` among the `Faults` of NodeDurable, `AckedSurvive` is violated.  And
`mine_block` promises "a valid block that meets chain.config().difficulty_bits"
(`miner.hpp`) but works on the tip of the moment it started, at its own difficulty;
what it returns is validated again, at the difficulty selected by then, which is what
`MemoryOK` and `WorkInForce` of Tui rest on.

### What the newer runs taught

* A process that reads the log while another truncates it need not start with a
  chain that was ever in the file at one moment: a writer with the old chain in
  memory may append its second block behind the truncation, and a slow reader that
  already has the old first block joins the two.  The result is still a chain that
  some process built (`NoMixture`), because a block commits to its parent.
* Two writers do not corrupt the record; the second one's blocks are silently
  lost, and so is everything written afterwards by anyone, until someone
  truncates the file (`LostIffForked`).
* One failing OpenSSL call is always caught, since every hash in a block is computed
  twice, by the builder and by `validate_block`.  With `MaxFailures = 2`
  `AcceptedIsRight` is violated: the miner and the validator may both get the zero
  hash.

## 4. The proofs

`NodeProofs` proves, for every set of transaction lists, of times, nonces and
difficulties, every bound and every assignment of leading zero bits to hashes
(the only assumptions are the named `ASSUME`s: these are sets of naturals, and
transaction lists are sequences of transactions):

* `NodeTypeOK`, `NodeMemoryOK`: under **all** failures.  `MemoryOK` needs the
  block in flight to be valid for the chain it was validated against
  (`PendingValid`), and the lemmas of `BlocksProofs`: appending a valid block to
  a well-formed chain gives one (`ChainOKAppend`), and so does the restore loop
  on *any* sequence of blocks (`RestoredChainOK`).
* `NodeInductive`, and from it `NodeFileFollowsMemory` and `NodeLogReplays`:
  under all failures except an unnoticed flush error, which really breaks them.
  The invariant `IndInv` says that every chain there is or may come back is well
  formed and restored in full (`FileSound`); that a file without fragments holds
  exactly the chain in memory and the flushed block, and one with fragments a
  part of it (`FileTracks`); and that what was synced is still there unless the
  file was truncated (`SyncedKept`).  `FileTracks` is the part that makes it
  inductive: without the equality, a record flushed behind a complete file need
  not link to it.
* `NodeImplementsLedger`: under the same assumption, every step of the node is a
  step of the ledger or leaves it alone.  A record flushed behind a fragment is
  a stuttering step; a loss of power maps to `LosePower`, for which `SyncedKept`
  is needed.
* `NodeNoZombie`: under the same assumption, a block that was refused never comes
  back.  `RefusedApart` adds to `IndInv` that no refused block is in the *synced*
  file either, from which a loss of power may bring blocks back, and that a block
  offered again is no longer counted as refused while it is in flight.
* `NodeAckedSurvive`: without unnoticed flush errors, unnoticed sync errors and
  torn writes, the chain last reported as stored is there whenever a process
  runs.  `AckedSynced` says that it is part of the synced file (or was cleared)
  and that the files hold no fragment.  The three faults are left out because
  with any of them the property is violated (NodeTornTail, and section 3).

`LedgerProofs` proves of the abstract ledger that the chain of record and the
durable one are always well formed (`LedgerStaysOK`).

`TuiProofs` proves all six invariants and the action property of the run TuiSafety for
any transactions, times, nonces, difficulties and chain lengths, any assignment of
bits to hashes, and every outcome of the race on `blocks_` that leaves a block-shaped
candidate or a dead process: `TuiTypeOK`, `TuiMemoryOK`, `TuiStoreMatchesChain`,
`TuiFlagCoversWorker`, `TuiDoneCoversBlock`, `TuiNoSpuriousCancel`, `TuiWorkInForce`.
The inductive invariant (`IndInv` of `Tui`) adds `WorkerTracked` (a thread is there
exactly while it is joinable; what it works on, has published or has announced is
there, and it announces last) and `ChainTracked` (the file is sound and is what a live
process has in memory).  The chain part is the same two lemmas of `BlocksProofs` as
for the node: whatever the worker read, its block is validated again before it is
appended.

`SharedLogProofs` proves, for any set of processes and any number of records,
`SharedLogInductive`, `SharedLogNoMixture`, `SharedLogLostIffForked` and the action
property `SharedLogRecordGrows`.  The inductive invariant keeps, as a history, the
set of chains that some process built in memory: they are sound and their blocks
are of the two shapes the programs make (`BuiltSound`), a block about to be
written is valid on its writer's chain (`PendingValid`), and every record, in the
file or already read, *ends* such a chain (`RecordsBuilt`).  The argument of
`NoMixture` is that two sound chains with the same tip hash are one chain
(`SameTip`): the last block a reader restored ends a chain that was built, and
its hash leaves no other for the blocks before it.

`DemosProofs` proves, for any clock readings, nonces, difficulties and hashes,
`DemosTypeOK`, `DemosNoLeak`, `DemosFailsClosed` and `DemosRefusedForCause` for any
number of failing calls, and `DemosAcceptedIsRight` for at most one (with two it is
violated).  `NoLeak` needs to know, at every call, which handles are allocated and
which of them have a guard; both follow from the scripts up to that call (`Underway`),
a failed call whose result nobody looked at costing its handle but not its guard.  The
rest of the invariant follows each failing call to the hash it cost: a hash that was
not lost is that of its input (`Recorded`), up to the second failure every lost hash
has a failure of its own (`LossesCounted`), the height tells how far a program is past
its genesis block (`Heights`), and the checks a program is past have shown what they
are for (`ChecksShow`).  That a hash with enough leading zero bits is below its target
is `DemosCountsBits`, for hashes of any length: the masks and shifts bound a byte
between two powers of two (`OneByte`), zero bytes are those in front of the first that
is not (`ZerosAre`), every byte behind it multiplies the bounds by 256
(`LeadingZeros`), and powers of two only grow, so that no number of bits between is
missed and none beyond is claimed (`BitsCompare`).

`MerkleProofs` proves, for lists of any length over any leaves, `ProofTypeOK` (no
loop leaves its level), `ProofFollows` and `ProofIsExact`: a proof built for a leaf
is accepted for that leaf and for no other.  The invariant: after n passes
`build_proof` is at the level n passes lead to, every level before had more than
one hash, the n steps lead from the leaf to its ancestor there (`Built`), and
`verify_proof` is where as many of them lead from the leaf it was given
(`Verified`).  Exactness needs that a path tells its start (`PathTells`), since
hashes are symbolic.  What the recursive functions `level` and `at` compute is
obtained without an induction rule: finite traces of the loop exist and are
unique, by a least counterexample (`Least`, from `WFMin`), so the function made of
their ends satisfies the recursion, and with it the function `CHOOSE` picks.

`RootsTellLeaves` proves `RootsTell` in the same module, from a statement about any two
lists (`RootsTellLists`).  Padding at a height keeps the level of that height
(`PadStep`): full trees one behind the other have their levels one behind the other
(`LevelCat`), so the repeated tree adds the last hash of an odd level once more, which
the code does too (`NextLevelRepeats`).  Once one tree is left, padding stops
(`PaddedTop`).  A full tree is then told by its root, since even levels determine the
ones below (`NextLevelTells`) and a leaf is never a pair, which rules out trees of
different heights (`RootTellsTree`).

`LogFormatProofs` proves, for any set of blocks, any number of records, cuts and
reads and one changed byte, all five properties of the run LogFormat: `LogTypeOK`,
`LogReadsWholeRecords`, `LogThrowsOnTornLength`, `LogNeverMalformed`,
`LogSigningBytesTell`; and that damage never makes a block up (`LogOnlyWritten`).
So what `Node` and its theorems take from `LogFile` holds of the bytes.  It has two
halves.

* *Reading inverts writing.*  A number of n bytes is the number read from them
  (`LeRound`); a reader with the writer's widths finds the writer's fields
  (`FieldsRound`); hence transactions (`TxRound`) and blocks (`BlockRound`) come
  back as they were, and `parse_block` throws on none.
* *The file.*  The invariant `LogInd` says that the file is pieces of records one
  behind the other, each with the number of its bytes that are as written (`Layout`),
  and that the reader stands where a piece begins or inside the record it reads, all
  pieces before being whole and their blocks returned (`Place`).  It is needed
  because a record that was cut continues with bytes of the next.  The two lemmas
  that carry it: a check sum that agrees is all of a digest that was written, and
  the record it ends is the one the reader began with (`CheckedIsWhole`); a length of
  four gigabytes is read only where the length field itself is damaged
  (`HugeIsTorn`).

The assumptions, besides those on the bounds: numbers fit their fields, and the
lengths of strings, transactions and blocks fit 32 bits (`WrittenAssumption`; a block
is kept in memory, and a longer string would be written with a wrong length); and the
first byte of the magic number is neither its second, third nor fourth nor 1, as
holds for `RTSA`, the bytes of "ASTR" in the file.  Digests are symbolic: a byte of a
SHA-256 is not equal to a byte that was written as data.

Each inductive invariant but that of `LogFormatProofs` was checked by TLC on the
instance of its run before it was proved; those of `Node` and `SharedLog` are
invariants of NodeFaults and SharedLog, the others were checked once by hand.  `LogInd` says that a division of
the file into pieces *exists*, which is more than TLC can enumerate; its consequences
are the invariants of the run.

Only model-checked:

* the liveness properties `DoneIsHandled`, `QuitExits`, `ClearReturns`, which TLAPS
  cannot prove;
* and the three violations, whose point is a counterexample.

## 5. Not modelled

SHA-256, RIPEMD-160 and ECDSA themselves (OpenSSL); `hash160`, which has no caller
outside the tests; drawing, the log panel, toasts, scrolling and debouncing (a key
that is swallowed is a key that was not pressed); the progress callback; command-line
parsing, `demo-genesis` and `demo-merkle`, which print what functions modelled
elsewhere return; hashes computed to be printed; failing OpenSSL calls inside the
TUI and the store demo (an exception there ends the process, which `Crash` and `End`
include; a failed `sha256` in `append_block` leaves a record no reader accepts,
which to `Node` is a fragment left by `FlushFails`).  `basic_block_sanity` and
`EmptyChainButNotGenesis` are not used by the program.  SIGINT is a flag set at
any time; other signals end the process as `Crash` does.

## 6. Plan

Done: every component the repository has, with its runs, and a theorem for every
invariant and action property that a passing run checks.  What remains with TLC is
what section 4 lists.  When the code changes, the module of the changed file comes
first, then its run, then its proofs: an action that is no longer inductive fails in
the lemma of its name.
