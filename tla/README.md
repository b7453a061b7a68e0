# Verification of 0xbitcoin-miner

TLA+ specifications, TLC checks and TLAPS proofs for the miner in this
repository: the Node program (`index.js`, `0xbitcoinminer-accel.js`, `lib/`),
the C++ addon it drives (`cpp/cpuminer/`), and the sources of the CUDA miner
that lie beside it (the nonce scans, the kernels, the Jansson library).

1. [Inventory](#1-inventory)
2. [Modules](#2-modules)
3. [Runs](#3-runs)
4. [Fairness](#4-fairness)
5. [Proofs](#5-proofs)
6. [Disagreements found](#6-disagreements-found)
7. [What is left out](#7-what-is-left-out)
8. [Plan](#8-plan)

## 1. Inventory

| Component | State | Operations | Talks to |
|---|---|---|---|
| `Solver` (`cpp/cpuminer/solver.cpp`), one per mining thread | challenge, address; two double buffers (`m_buffer`/`m_buffer_tmp`, `m_target`/`m_target_tmp`), two mutexes, two atomic ready flags | `setChallenge`, `setAddress`, `setTarget` (JavaScript thread); `trySolution` (mining thread) | called by `CpuMiner` |
| `CpuMiner` (`cpuminer.cpp`) | `m_bExit`, `m_bSolutionFound`, `m_solution`, the threads | `run` (worker thread), `stop`, setters, `solution`, destructor (JavaScript thread), `thr_func` (mining threads) | owns the solvers |
| addon (`addon.cc`) | the one `CpuMiner`; the queue of `Nan` workers; `Solver::hashes` | `run(callback)`, `stop`, setters, `hashes`, cleanup at exit | called by the session, calls it back |
| mining session (`0xbitcoinminer-accel.js`) | `challengeNumber`, `miningTarget`, `mining`, the closure of the run under way | `initMiningProcedure` (a loop, 4 s after each turn), `refreshCPUMinerWithParameters`, `mineCoins`, its callback | collectors, addon, interfaces |
| network interface (`lib/network-interface.js`) | stack of queued solutions, busy flag, last submitted challenge | `collectMiningParameters`, `queueMiningSolution`, `sendMiningSolutions` (500 ms), `submitMiningSolution` | token contract and wallet, through the node behind `web3provider` |
| pool interface (`lib/pool-interface.js`) | stack of queued shares, busy flag, pool address | the same, by JSON-RPC | mining pool, logger |
| mining logger (`lib/mining-logger.js`) | two capped logs in memory and on disk | `init`, `appendToStandardLog`, `appendToErrorLog`, `saveLogs` | everything logs to it |
| Keccak-256 (`cpp/cpuminer/sha3.c`) | none | `keccak_256` | called by `Solver::hash` |
| CUDA scans (`cpp/cuda_*.cu`, `scanhash_*`) | the next nonce, the two result slots | one scan: launch, wait, validate, go on | kernels, CPU hash |
| CUDA kernels and helpers (`cuda_sha256*.cu`, `misc/cuda_keccak256.cu`, `cuda_helper.h`) | registers of a thread | the hash of a header, a filter behind it | called by the scans |
| Jansson (`cpp/jansson`) | values with reference counts, the hash table of an object, a lexer's stream | build, update, copy and free values; load, dump, pack, unpack | nothing else in the repository calls it yet |
| earlier addons (`cpumineralpha.cc`, `gpuminer*.cc`) | an array of solutions shared with JavaScript | start, push, read, clear | JavaScript |
| entry point (`index.js`) | none that changes | reads the configuration, starts the others | all of them |

How they interact. One JavaScript thread runs the session and the interfaces;
it gives up control only at an `await`, so what lies between two awaits is
atomic for the rest of the JavaScript. The addon's `run` queues a job for a
worker thread, which spawns one mining thread per solver, joins them, and has
the callback called on the JavaScript thread. Setters may be called at any
time, also during a run: they reach the solvers one after the other while the
mining threads hash. A solution goes from a mining thread through `m_solution`
to the callback, which verifies it against the parameters the run was started
with and pushes it on the stack of an interface; a timer of the interface pops
it and submits it, over several awaits. What the contract accepts becomes the
challenge that the session collects next.

What is hard here, and where it is looked at:

| Behaviour | Where |
|---|---|
| a setter and a try of the same solver interleave between lock, copy, flag and swap | `Solver` |
| stop, run, several finders, join and the callback interleave; a process that exits at any moment | `CpuMiner` |
| the parameters change at the source between two requests, and between a run's start and its end | `MiningSession` |
| submissions that overlap, a transaction count that is stale when used, lost answers, a transaction that is never mined | `NetworkInterface` |
| the session, the submissions and the contract as one loop: who ever submits again? | `SoloMining` |
| two files written one after the other, with a crash between them, then a restart | `MiningLogger`, `PoolInterface` |
| shares submitted in overlapping requests, an error that nobody catches | `PoolInterface` |
| a counter read and reset while others count; an array filled and cleared without a lock | `HashCount`, `AlphaMiner` |
| threads of a launch that race for two slots, a range that is no multiple of a launch, the last nonce | `ScanHash` |
| an allocation that fails half-way, an iterator over a table that is rehashed, values that contain themselves | `JsonHashtable`, `JsonValues` |
| one byte of lookahead, surrogates, duplicate keys, a number at the end of the text, a format read behind its end | `JsonLoad`, `JsonPack` |
| rounds that leave out what they do not need, a message one byte short of a block | `Keccak`, `Sha256`, `MinerWords` |

What makes each part correct:

- **Solver**: every try uses the challenge, address and target of a setter call
  that was current at some moment of the try; what was set last comes into use.
- **CpuMiner**: a run ends, and ends only, by a solution found in it, for
  parameters current during it, or, where a setter call crossed a swap, for some
  set before; it leaves no thread behind; when the process exits, nothing is left
  running.
- **Session**: the solvers hold what the session believes they hold; what a run
  finds is handed over if no parameter was set meanwhile; a run never overlaps
  another; in pool style mining goes on, in solo style each challenge is mined
  once; a solution for the parameters in force is handed over.
- **Network interface**: no nonce gap and no two pending transactions; a
  solution of the current challenge reaches the contract; no block is stuck on
  the stack.
- **Solo mining**: at most one block for a challenge; the miner rests only
  while its block is on the way.
- **Pool interface**: every share is submitted, once.
- **Logger**: after any crash the next start reads back what a save had written;
  the logs stay within their limit.
- **Counters and scans**: each try is reported once; no nonce is skipped; a
  solution is returned or still ahead.
- **Jansson**: what it accepts is JSON and nothing else; what it writes it reads
  back, except for subnormal reals, which `strconv.c:87` writes and
  `strconv.c:72` refuses as an overflow; an object is an ordered map; a reference count is the number of
  references, whatever allocation fails.
- **Hashes**: every implementation computes the function of its standard.

## 2. Modules

```
Solver ---------- SolverProofs                 one solver, all its steps
   :  (a solver again, test, swap and lowering of a flag in one step)
CpuMiner -------- CpuMinerProofs               threads, worker, JavaScript thread
   |  implements (refinement mapping, run and theorem)
MiningRun                                      what the addon promises
   |  INSTANCE
MiningSession --- MiningSessionProofs          the JavaScript session over it
   |  EXTENDS
SoloMining ------ SoloMiningProofs             session, interface and contract
   |  INSTANCE
NetworkInterface - NetworkInterfaceProofs      stack, timer, submissions, chain

MiningLogger <- PoolInterface                  logs, files, crashes; shares
MinerParts                                     an instance each of
   HashCount                                   the counter of hashes()
   AlphaMiner                                  the array of cpumineralpha.cc
   ScanHash                                    the four CUDA scans
        PoolInterface and MinerParts proved in MinerPartsProofs
JsonHashtable  implements  JsonObject          an object of Jansson: JansonProofs
JsonValues                                     its values and their counts
        all of these in MCParts

Utf8, Strconv <- JsonLoad <- JsonPack;  JsonDump                 Jansson on texts
JsonBytes (Utf8, Strbuffer)                    its bytes and its buffer: JansonProofs
Keccak | KeccakReference                       three Keccaks and FIPS 202
Sha256 <- HeaderHash | Sha256Reference         the kernels' SHA-256 and FIPS 180-4
   |  EXTENDS
MinerWords -------- MinerWordsProofs           with an instance each of
   CudaWords, SolverBytes, both Keccaks        words of the device, bytes of the solver
        all of these in MCFunctions; Inputs has what an input of theirs is
```

The `MC*` modules give the constants values for TLC. A definition named as a
mutant is a deliberately wrong variant of the definition after it, kept to show
that the properties notice it; nothing else refers to it.

### Solver

`challenge` and `address` are `work`, `m_buffer` and `m_target` are the two
slots of `active`, their `_tmp` companions those of `tmp`, the flags those of
`ready`. A setter call is a `Set...` action that writes the working value and
begins the copy, `Copy` (under the mutex), and `Publish` (the flag, after the
mutex is released). A try is `Begin`, then for the buffer and then for the
target `Check` (the flag, without the mutex), `Swap`, `Clear`, and `Hash` or
`Compare`. A mutex is held from `Swap` to `Clear` and during `Copy`: `Locked`.
One JavaScript thread sets and one mining thread tries.

The flag is raised after the mutex is released. When two setter calls follow
each other, the solver can swap between the second copy and the second raise
of the flag, and the flag then makes it swap the *old* buffer back in. The
history variable `crossing` tells whether that has happened to a slot
(`clean`, `crossed`, `spoiled`); `excused` names the slots that were disordered
when the try began, and `window` collects the contents that were current
during it. The properties are exact about the exception rather than silent.

The digest is a constant operator `Keccak`; contents are records of model
values, the target a number. `TypeOK`, `FreshUnlessCrossed`,
`UsesCurrentValues`, `HitIsCurrent` and `Converges` are its properties.

### CpuMiner and MiningRun

`CpuMiner` has the worker thread (`ResetFound`, `ResetExit`, `Spawn`, `Join`:
one step per flag and per thread of the two loops), the mining threads (`Test`,
`Hash`, `Miss`, `Hit`, `Store`, `Stop`), and the JavaScript thread (`BeginSet`,
then `CopySolver` and `PublishSolver` for one solver after the other; `Run`, which
is `stop` and the queueing; `Deliver`; `Exit` and `Destroy`).

Each solver has the two double buffers of `Solver`, so that what a crossed
publication brings back is there in the next try and in the next run. A try takes
over its buffer in `Hash` and its target in `Miss` or `Hit` (`Take`). Test, swap
and lowering of a flag are one step here, for nothing can come between them that
makes a difference: no other thread lowers the flag, no copy can fall between swap
and lowering, which hold the mutex, and a flag raised before the lowering is lowered
whether it was raised before the swap or after it. The copy and the raising of the
flag, between which the mutex is free, stay two steps.

The history is: `current`, the values of a slot that were current during the run;
`past`, all that were ever set; `late`, the slots that were last set while a run was
under way; `order`, whether a swap fell between a copy and its flag; `astray`, the
slots of a try that such a swap had set back. A solution is kept with the values it
was tried with and the slots that were astray. `RunEndsWithItsOwnHit` says, slot by
slot: a value current during the run, or if it is astray, one set before.

The scope of one run at a time is not an assumption taken on trust: `Run` needs
`worker = "none"`, and that the session never starts a second run is the
property `RunsDoNotOverlap` of `MiningSession`.

`MiningRun` is what JavaScript sees of this: idle, running, ended with a
solution, delivered, halted. What the solution is for is promised as far as
the buffers allow: of a slot last set while no run was under way, exactly the
value set last, since only a try can swap and a complete call raises the flag for
its own copy; of a slot in `late`, any value the setters have given at some time,
for a crossed publication may outlive its run until the next call between two
runs. `CpuMiner` implements it under the mapping `runPhase`, `runOutcome` (property and theorem
`ImplementsMiningRun`), and `MiningSession` is written over an instance of it,
so what is checked of the session holds for the threads below.

The flags `m_bExit` and `m_bSolutionFound` are `volatile bool`, which formally
is a data race; the builds read and write them as single bytes, and the model
treats them as atomic and sequentially consistent.

### MiningSession

One module for both styles, with `MiningStyle` a constant. An action is what
happens between two awaits: `ReadTarget` then `CompleteSolo` are the requests of
`network-interface.js:97-118`; `ReadAddress`, `ReadChallenge`, `CompletePool`
those of `pool-interface.js:96-186`. Each reads the source as it is at that
moment, and `NewBlock` and `NewShareTarget` change it in between. The last
answer of a turn runs `refreshCPUMinerWithParameters` and, if a run starts,
`mineCoins` as one action, in the order of the code. A setter is called where the
code calls it, the challenge's when the session resumes (`Resumes`), the target's
when it has changed (`Retargets`); `Called` are the slots of these, which the
addon's `late` needs, and the value of the solvers between two calls goes into its
`past`. `Find` is the addon's `End`, for whatever the addon may find; `Callback` verifies with the captured
`closure` and hands the block over. `Reject` is a rejected request; a pool
answer without a result is `"absent"` in `Faults`.

`disturbed` is history: the last run had parameters that were set during it, or
during an earlier run and not since. `PoolNext` is what of `Next` there is in
pool style.

### NetworkInterface

`queue` is the stack, `last` the challenge noted as submitted, `at` the await a
submission is at or how its function returned. `SendMiningSolutions` is the
timer's callback up to the first await; `ReadCount`, `SendTransaction`,
`Receive` and `Fail` are the rest of `submitMiningSolution`. `populateTransaction`
asks the node for nothing that matters and is part of `ReadCount`. The chain is
external: a node refuses a used nonce and the nonce of a pending transaction of
the same fee; mining takes the wallet's next nonce; a mint for a challenge that
is over reverts. Blocks may be queued in any order and for any challenge the
contract has reached, which is more than the session does.

### SoloMining

`MiningSession` in solo style, extended by the variables of `NetworkInterface`
and of the chain. `source.challenge` is the contract's challenge for both. The
callback of the session and `queueMiningSolution` are one step, `HandOver`;
`NetworkStep` is the interface's; `MineTransaction` mines the wallet's next
transaction, and if it mints, that is the session's `NewBlock`. `OthersMint`
is everybody else. The module extends the session rather than having two
instances, because a theorem of an extended module can be cited.

### PoolInterface and MiningLogger

`MiningLogger` has the two logs in memory and the two files. A line appended is
one step up to its `saveLogs`; `SaveStdout` and `SaveError` are the two writes,
each of which may fail (`SaveFails`: the catch in `saveLogs`), and `Stop` may
come between any two steps. `Start` reads what is there: `logsExist` asks for
the file of the standard log only, so after a first save that was torn the
error log is `Null`, and stays so in every process that follows. A write
replaces its file at once: `node-localstorage` writes to another file and
renames it.

`PoolInterface` extends it by `sendMiningSolutions`, `submitMiningSolution`
(`Pop`, `Log`, `Submit`, `Answer`, `Fail`) and the error that the catch block's
own logging throws (`Die`), which ends the process. `at` is where a share is.

### HashCount, AlphaMiner, ScanHash

`HashCount` is `++hashes` in the threads against the read and the reset of
`hashes()`, modulo the width of the counter; what is lost and what wraps is
history. `AlphaMiner` has one action per access to the shared array and its
count; a count that the build may read again is a choice (`Store`, `Count`).

`ScanHash` is one scan from `Call` to its return. A launch is one step: which
threads hash, which nonces they report, and which two of these end up in the
slots, by atomic compare (Keccak) or by exchange (SHA-256), is a choice over
the outcomes. What a nonce is worth to the kernel and to the host is its
quality. `Check` is the rest of the loop, one operator for each scan.

### Jansson

`JsonHashtable` has the list of pairs, the buckets as segments of it and the
rehash; an allocation may fail in each operation that makes one. It implements
`JsonObject` under the mapping that takes the values of its pairs, in the order
of their serial numbers, for the ordered map. `JsonValues` has a heap of a few
blocks. Each call of a client is a step; a call that allocates may fail, and
what it has done until then stays, as in the code. `leaked`, `freedUse` are
history.

`JsonLoad` follows `load.c` function by function, on texts that are sequences
of bytes; what a function returns is an argument of the operator for what comes
next. `Stream` is what `stream_get` returns call by call, `Unget` has its
special case of a zero byte. `JsonDump`, `JsonPack`, `Strconv`, `Utf8` and
`Strbuffer` are the files of those names; `Utf8` has the Unicode standard's
table of well-formed characters too, and `JsonBytes` sets the one against the
other. A double is a decimal of a few
digits, so that the smallest, the largest and the subnormal ones are within
reach.

### The hashes

`Keccak` has the permutation of `sha3.c`, the unrolled one of `misc/sha3.cpp`,
that of the kernels with its first and its last round cut short, and both
sponges. A loop that changes the state in place (rho and pi, the moves of the
kernels, the rows) is a recursive function of the number of its turns. `Sha256`
is the thread of the SHA-256 kernels, one action per step of a round body, with
the ring of sixteen words. `HeaderHash` lets the standard run along with it, a step of the one with a round of the other. The two
`...Reference` modules are written from FIPS 202 and FIPS 180-4, by other means:
round constants from the shift register, offsets from the walk, sums of numbers
modulo 2^32 where `Sha256` passes a carry from bit to bit, a schedule that grows
where `Sha256` has a ring, registers that move where `Sha256` moves the names.

`CudaWords` has a word as the set of its bits, and of each helper every form the
preprocessor chooses from; `SolverBytes` has the bytes of a target. `MinerWords`
says what both promise, with an input of the `functions` run as its variable,
what the SHA-256 does, and what `keccakf` does on any state: each of its rounds is
what the other permutations, and the standard's, would do.

## 3. Runs

| Run | Instance | Shows |
|---|---|---|
| `solver` | 2 challenges, 1 address, 2 targets, 1 nonce; a digest table in which each challenge needs another target | `TypeOK`, `FreshUnlessCrossed`, `UsesCurrentValues`, `HitIsCurrent`, and under fairness `Converges` |
| `solver_blocks` | the same | violates `BlocksOnlyOnChange` |
| `cpuminer` | 2 threads, 2 works and 1 target, which the solvers start from, 1 nonce, any number of runs, `MaxCalls` = 3 setter calls (788,431 states) | `TypeOK`, `NoThreadOutlivesItsRun`, `RunEndsWithItsOwnHit`, `ImplementsMiningRun`, and under fairness `FoundEndsRun` |
| `cpuminer_exit` | the same | violates `GracefulExit` |
| `session_solo` | `SoloMining`: 3 challenges, 2 targets, 2 nonces, rejected requests, failing and unanswered submissions (1,235,457 states) | `SoloTypeOK`, `SolversFollowSession`, `RestsOnlyWhenSolved`, `OneBlockPerChallenge`, `RestsWhileOnTheWay`, `RunsDoNotOverlap`, `SoloMinesEachChallengeOnce` |
| `session_pool` | 2 challenges, 2 targets, 3 nonces, rejected requests and answers without a result (282,136 states) | `UndisturbedRunsAreHandedOver`, and under fairness `PoolKeepsMining` |
| `session_found` | solo, 3 challenges, no faults | violates `HandsOverWhatItFinds` |
| `session_absent` | pool, answers without a result | violates `AssertionsHold` |
| `network` | 3 blocks, 3 challenges, failing requests and lost answers | `TypeOK`, `OnePending`, `RefusedOnlyIfOverlapped`, and under fairness `EveryBlockIsTaken` |
| `network_refused` | the same without faults | violates `SolutionsReachTheContract` |
| `parts` | the components that share nothing, one at a time (227,614 states) | see below |
| `functions` | the pure functions, on inputs put together part by part (327,692 states) | see below |

Why the bounds are enough. A solver slot has two buffers, so an old, a current
and an initial content (two challenges and zeros, two targets and zeros) make
every mixture distinguishable, and setter calls are not bounded. Two threads
give two finders, each of which must be stopped by the other, at each position of
the two loops; three setter calls give one while idle, which raises the flags, one
during a run, which crosses a swap, and one between two runs, which undoes it or
does not; the theorems remove both bounds. In the session, three challenges allow
one to be collected, one mined and one found by others at once; the digest
table has nonces that meet the easier target only, both, or none, so a stale
target or challenge changes the verdict. In the network interface two blocks
overlap and the third meets what they left behind; the theorems remove that
bound too. The bounds are `MaxChallenge` (named in the guards of `NewBlock`,
`MineTransaction` and `OthersMint`), `MaxCalls` of `CpuMiner`, those named below, and the sizes of the
constant sets; no other counter grows, except `confirmed` and the nonces, which
the number of blocks bounds.

**`parts`.** `part` picks a component in the initial state; the others stand
still. Each behaviour is one of a single component, with all its own initial
states.

| Component | Instance | Properties |
|---|---|---|
| `PoolInterface` with `MiningLogger` | a limit of 1 line, 2 shares, at most `MaxStops` = 2 crashes beside the deaths; writes fail | `LogsAreSound` (the logs stay short; the error log is lost only by a torn first save; only then does a failed request end the miner), `StackHoldsTheQueued`, `LinesStayOnDisk`, and under fairness `EveryShareIsSent` |
| `HashCount` | a counter of 3 values, at most `MaxHashes` = 8 tries: it wraps twice | `CountsAreExact`: `EveryTryAccountedFor` |
| `AlphaMiner` | an array of 3, 3 nonces, targets 0 and 3 | `CountsAreExact`: `IndexInBounds`, `CountedAreThere` |
| `ScanHash` | nonces 0 to 5, launches of 2 threads in blocks of 2, every range, every assignment of qualities with at most two reports | `ScansAreSound`: `NothingIsSkipped`, `RangeIsCovered`, `SoleSolutionIsReturned`, `HashesDoneWereHashed`; under fairness `ScanReturns` |
| `JsonHashtable` | 3 keys that collide in different ways in tables of 2, 3 and 5 buckets, 4 serial numbers | `TableIsAnObject`: `BucketsPartitionTheList`, `IterationIsComplete`, `ImplementsObject` |
| `JsonValues` | 5 blocks, one key, arrays of capacity 1 that grow to 2, at most `MaxCalls` = 5 calls | `ValuesAreSound`: `RefcountsAreExact`, `OwnArgumentsSurvive`, `ArraysFitTheirTable`; `DeepCopiesAreEqual` |

`PartsTypeOK` is the type invariant of all of them. The limit of 1 line makes a
log be emptied and refilled within a few steps; the theorems hold for any. Two
shares are enough for one to overlap or be queued behind another. Two nonces
that are reported fill the two slots and compete for them when they are in one
launch; six nonces make three launches, and ranges that end inside one.

**`functions`.** A state holds one input of one kind; a step appends a part to
it, so every input up to a length is a state: texts of five tokens or bytes,
numbers of six characters, strings of three `\u` escapes at the borders of the
surrogates, four bytes at the borders of the table of UTF-8, arrays of two and
objects of three members with every kind of value, formats of five characters,
messages up to one byte more than two blocks. The reals include a subnormal one:
`LoadsWhatItDumped` states that a text with it is refused and any other read back.
The formats include `?`: `StrictUnpacksEverything` states that strict unpacking
counts keys (`pack_unpack.c:413-425`), so that an optional key that is absent makes up
for one that was left. The hashes run round by round
over headers whose lanes are empty or not, and over the first block of Bitcoin.

| Property | Parts |
|---|---|
| `TextsAreJson` | `FormatIsNotOverrun`, `UnpacksWhatItPacked`, `ArgumentsDoNotDependOnTheValue`, `StrictUnpacksEverything`, `GrammarIsAccepted`, `NumbersAreAccepted`, `PositionEndsTheValue`, `ZerosPassOnlyBehindWords`, `DuplicatesAreSeen`, `EscapesAreUtf16`, `LoadsWhatItDumped`, `AsciiOnly`, `SortedDumpsAreCanonical` |
| `BytesAreSound` | `Utf8IsItsTable`, `AppendsStayInside` |
| `KeccakIsFips202` | `RoundsAgree`, `LastLaneIsEnough` |
| `DigestsAreTheStandards` | `ConstantsAreRight`, `PaddingIsThatOfTheSponge`, `KnownDigests` |
| `Sha256IsFips180` | `RegistersAreFips`, `LastWordsAreRight`, `FilterIsThatOfTheHost` |
| `WordsKeepTheirValue` | `HelpersDoTheirOperation`, `TargetIsItsNumber` |

Words and lanes have their real width of 32 and 64 bits, the permutations and
the compression their real number of rounds. What is scaled down: integers
(`IntMax`), doubles (`Precision`, `MaxExp`, `MinExp`, `SubExp`), `SizeMax` of
the string buffer, the sponge's `Rate` for its padding (its blocks proper have
136 bytes), and the bytes of a target (`NumBytes`). In each of these the code
is uniform in the size. Inputs that differ within a class the code does not
tell apart (one letter or another) are represented by one.

Deadlock is checked in `Solver`, `SoloMining` and `MiningSession`, whose loops
never stop. `session_absent`, whose process may abort, `CpuMiner`, which stops
when the process is gone, `NetworkInterface`, when all the blocks are dealt
with, and the last two runs, whose inputs and calls are bounded, say
`CHECK_DEADLOCK FALSE`.

## 4. Fairness

- `Solver`: the setter finishes a call it has begun, and the mining thread goes
  on with its loop. Nothing says that a setter is ever called.
- `CpuMiner`: the operating system schedules the worker and every mining
  thread, the JavaScript thread finishes its setter loop and takes the callback.
  Nothing says that a try hits, that a run is started, or that the process exits.
- `MiningSession` in pool style: the event loop runs what is due: the timer and
  the callback. A rejected request ends the turn of the loop, and the timer
  starts the next; that not every request of a kind is rejected for ever is
  strong fairness of the three reads. Nothing says that a solution is found.
- `NetworkInterface`: the timer fires, and the requests for the transaction
  count and for sending are answered, if only by an error. Nothing says that a
  transaction is mined or that anybody mints.
- `PoolInterface`: the timer fires, a save ends, and the JavaScript thread goes
  from a pop to its request. Nothing says that a request is answered. Crashes
  are not fair either: `EveryShareIsSent` counts a share as lost when one comes.
- `ScanHash`: the thread that scans goes on.

All of it but the strong fairness named above is weak: no such action is
disabled again and again by others for ever.

## 5. Proofs

Checked by TLAPS, for all values of the constants. The assumptions are those
named in the modules: at least one thread, a `None` that is no solution and no
slot, values a new solver may hold, a natural `MaxCalls`, at least one challenge, the kinds of faults, markers that are no logs, a counter, an
array and a block that are not empty, fewer keys than the largest table has
buckets, a largest size that is not zero, a target of at least one byte.

| Module | Theorem | States |
|---|---|---|
| `SolverProofs` | `TypeCorrect`, `Fresh`, `CurrentValues`, `CurrentHits` | `TypeOK`, `FreshUnlessCrossed`, `UsesCurrentValues`, `HitIsCurrent` |
| `CpuMinerProofs` | `TypeCorrect`, `NoThreadOutlives`, `OwnHit`, `Implements` | `TypeOK`, `NoThreadOutlivesItsRun`, `RunEndsWithItsOwnHit`, `ImplementsMiningRun` |
| `MiningSessionProofs` | `TypeCorrect`, `SessionFollowed`, `HandedOver`, `Rests`, `NoOverlap`, `OncePerChallenge` | `TypeOK`, `SolversFollowSession`, `UndisturbedRunsAreHandedOver`, `RestsOnlyWhenSolved`, `RunsDoNotOverlap`, `SoloMinesEachChallengeOnce` |
| `NetworkInterfaceProofs` | `TypeCorrect`, `AtMostOnePending`, `AloneIsAccepted` | `TypeOK`, `OnePending`, `RefusedOnlyIfOverlapped` |
| `SoloMiningProofs` | `SoloTypeCorrect`, `ImplementsSession`, `ImplementsNetwork`, `OneBlock`, `RestsOnTheWay` | `SoloTypeOK`, both refinements, `OneBlockPerChallenge`, `RestsWhileOnTheWay` |
| `MinerPartsProofs` | `PoolTypesCorrect`, `LogsSound`, `StackCorrect`, `LinesStay` | of `PoolInterface`: `TypeOK`, `LogsAreSound`, `StackHoldsTheQueued`, `LinesStayOnDisk` |
| | `TypesCorrect`, `CountsExact`, `ScansSound` | of `MinerParts`: `MinerPartsTypeOK`, `CountsAreExact`, `ScansAreSound` |
| `JansonProofs` | `TableTypesCorrect`, `TableCorrect` | of `JsonHashtable`: `TableTypeOK`, `TableIsAnObject`, which is the refinement of `JsonObject` and two invariants |
| | `BufferHolds` | of `Strbuffer`: `Fits` |
| | `BytesSound` | of `JsonBytes`: `BytesAreSound`, that is `Utf8IsItsTable` and `AppendsStayInside` |
| `MinerWordsProofs` | `WordsKeep`, `Sha256Keeps` | of `MinerWords`: `WordsKeepTheirValue`, `Sha256IsFips180` |
| | `KeccakKeeps` | `KeccakIsFips202`, that is `RoundsAgree` and `LastLaneIsEnough` |

The arguments.

- **Solver.** None of the three properties is inductive: they speak of the
  moment a value is used, and what makes them true is what the two buffers of a
  slot hold at every stage of a setter call and of a try, together with the flag
  and with `crossing`. The strengthening says, per slot, what `active` and `tmp`
  hold in each of these cases, and that `window` contains what is about to be
  used. Each step of one side is shown to keep it whatever the stage of the
  other.
- **CpuMiner.** `ThreadInv` places the threads that exist between the indices of
  the two loops. `OrderInv` says, per solver and slot, what the double buffer holds:
  unless its order is disturbed, the last value set, or while the setter loop has
  not come to it a current one. The key to the promise is that disorder of a
  slot outlives its run only if the slot is `late`: a crossing needs a try, so a run
  under way, and the next complete call without one undoes it. `TryInv` and
  `FoundInv` carry this to what a try has taken over and to what is stored: current,
  or noted as astray. `FoundInv` also says that, while the process is up, `m_bExit`
  in a run, or a thread that has returned, means that a solution of this run is
  stored. That needs the order of the two resets: the flag for the solution falls
  before `m_bExit` does. From the invariant each step maps to a step of `MiningRun`
  or to a stutter; the last `Join` is its `End`.
- **MiningSession.** For both styles, any digest function and any faults.
  `RestsOnlyWhenSolved` and `UndisturbedRunsAreHandedOver` are about the end of a
  run, so `RunInv` says of an undisturbed run under way that no slot is `late` and
  that the solvers hold what the callback has captured, which is why what they find
  passes `verifyAndSubmit`. A setter that is not called leaves what it would have
  set, which is what lets the session call them on change only; that holds from the
  first turn on because `ClosureInv` has no target without a challenge.
  `SoloMinesEachChallengeOnce` needs `OrderInv`: no run is ahead of the session,
  nor the session ahead of the contract. `ReadInv` says which values a turn of
  the loop has collected by the time its last answer comes. A turn is split into
  one that is rejected by an assertion, one that starts a run and one that does
  not, a lemma each.
- **NetworkInterface.** `OnePending` needs that no submission holds a count
  ahead of the chain (`CountInv`): whatever is accepted then has exactly the
  next nonce, and the mempool was empty. `RefusedOnlyIfOverlapped` needs
  `OverlapInv`: until an answer is lost, each pending transaction has a
  submission that waits for it, so whoever is refused has met one. `QueueInv`,
  each block is on the stack once and before its only submission, is what keeps
  the submissions of different blocks apart.
- **SoloMining.** Every step of the composition is a step of the session or
  leaves it alone, and the same of the interface (`ImplementsSession`,
  `ImplementsNetwork`), so what is proved of the two holds of the whole. The
  rest relates them: `HandedInv`, the blocks handed over are those the interface
  knows, each for another challenge, none later than the last run's; `QueueInv`,
  the stack holds, once, those that are not submitted, and the challenge noted as
  submitted is that of one that is, which is why taking the last and remembering
  one drops nothing; `MinedInv`, a transaction that was mined has ended its
  challenge or does not meet the target. `RestsWhileOnTheWay` adds to it what
  `RestsOnlyWhenSolved` says of the session.
- **PoolInterface.** `FilesInv`: the file of the error log is written after the
  other, and only the end of a first save leaves it behind. `DiskInv`: unless a
  write has failed, the files hold the logs between two saves, and the logs still
  to be saved continue the files; that is what makes a line stay. `StackInv`:
  whatever is on the stack is there once and queued.
- **HashCount.** The sum itself is inductive, for a counter of any positive
  width; a wrap trades `Modulus` tries of the counter for one of `wraps`.
- **AlphaMiner.** `RoomInv`: from the comparison to the increment there is room,
  whatever the build makes of the count it has read, for a clear only takes
  solutions away. `ArrayInv`: as long as nothing has crossed, a push has read
  the count that is still there, and a clear finds no push under way.
- **ScanHash.** For any `Top`, launch, block and qualities. What `ScansAreSound`
  says of the return is not inductive: it needs what a launch leaves in the slots
  and what the loop has passed. `TestedInv`: nothing behind the launch is tested,
  and with whole blocks nothing before it is left out. `SlotsInv`: the first slot
  is empty only if the launch had nothing to report, and what is in the slots is
  of this launch. `BehindInv`: what was left behind without a rival solves
  nothing. Each holds until the nonce wraps (`wrapped`), or more was reported than
  there are slots (`crowded`), which the code does not exclude. Going
  on and returning are a lemma each, which the variants of `Check` share.
- **JsonHashtable.** `ListInv`: each key is on the list once, and as long as the
  buckets were not lost to a failed allocation, each bucket is a segment of the
  list, between its first and its last pair, of exactly the keys that hash to it,
  and an empty one has no segment. That insertion at the end of a segment,
  deletion and rehash keep this is a lemma each, on sequences cut at a position and joined. `SerialInv`: there is a
  sequence of the pairs in which their serial numbers grow; it is unique, so the
  refinement mapping, which is a `CHOOSE`, is that sequence, and an insertion
  appends to it, a replacement keeps it and a deletion takes one key out.
  `IterInv`: an iteration has seen what is on the list up to its pair. The table
  of primes is assumed not to be exhausted (`TableAssumption`), which takes more
  than 1,610,612,741 keys.
- **Strbuffer.** The checks against `SizeMax` are exactly those that make sums
  and products modulo `SizeMax + 1` exact.
- **UTF-8.** For any sequence of bytes, of any length. What `utf8_check_full` adds
  up are digits to the base 64, and what `utf8_encode` divides and masks gives the
  same digits back (`TwoDigits`, `ThreeDigits`, `FourDigits`). By them the bounds on
  the sum are the table's bounds on the second byte, so a character of the table is
  what the two checks take, and its code point encodes as it was (`TableIsChecks`,
  `EncodesBytes`). The loop of `utf8_check_string` is a recursive function of the
  number of its turns, which is one function and not none (`ByRecursion`,
  `SameRecursion`): it never goes back, and where it stays it is stuck (`IndexGrows`). Where
  it has been cuts an accepted string into characters (`AcceptsOnlyUtf8`), and as
  no character begins another, each turn reaches the next cut of any string that
  has them (`AcceptsUtf8`). That the inputs of the run are bytes is
  `InputAssumption`.
- **Words.** A word is compared with a word bit by bit. `FunnelIsUnion` makes a
  funnel shift of two halves a window of the whole; every rotation is then a
  choice of windows, by cases on the side of 32. Byte permutations are shown to be
  windows for the selectors that occur, and byte orders are compared byte by
  byte. All 2^64 words and all 64 amounts are covered, which TLC samples only.
- **Targets.** The number of a sequence of digits is a recursive function, and a
  sequence whose leading part is cut or padded keeps it: zeros in front add nothing
  (`LeadingZeros`), two hexadecimal digits make a byte (`PairsOfDigits`), the sum
  of weights is Horner's scheme (`NumberAdds`, `AddsTogether`). `lte` compares up
  to the first byte that differs (`LteIsLessOrEqual`). The digits are those
  `fromAscii` knows, at most two for each byte: `IsInput`, which is what the
  inputs of the run are (`InputAssumption`).
- **SHA-256.** For any header of twenty words and any target. Words are sets of
  bits, and bits carried from one to the next make the sum modulo 2^32 of the
  numbers: the numbers of the lower bits satisfy it with the carry as the missing
  part, by one bit after the other (`PlusIsAdd`). Then a step is a round under the
  names the registers have by then (`StepIsRound`), the ring holds the last
  sixteen words of the schedule (`RingTurns`), and the blocks the kernels fill
  are those of the padded message (`RestIsPadding`). `RegistersAreFips` follows by
  induction over the steps. Of the last block two rounds are not computed: what
  they would leave in the two registers the filter looks at is there already
  (`LastWordsMove`), so `LastWordsAreRight` is of the standard's own end.
- **Keccak.** For every state, all 2^1600 of them, and every header. Theta is the
  same sum of columns in all four; chi differs only in how it is written
  (`BitSelects`). The rest is where lanes go. Lane 0 stays, the others are turned
  by the triangular numbers along the walk of the standard, which closes after 24
  steps (`WalkIs`, `OffsetIs`, `Triangles`); so each lane of the result comes from
  one lane, turned by so much, and two tables say from which and by how much. In
  place that takes care of what is overwritten: after so many turns of `sha3.c`
  (`TurnedIs`), and after so many moves of the kernels (`MovedIs`), the lanes
  already passed are right and the others are still those of before; of the
  rows, the two lanes that are overwritten too early are the ones kept
  (`SelectRowsIs`). So all are one closed form, `Rounded`. The first round for a
  header needs that the thirteen lanes it leaves out are empty (`HeaderLanes`,
  `FirstRoundIs`), which is the invariant at round 0, and the last lane needs only
  the three lanes of row 0 that chi looks at (`LastLaneIs`).

The induction theorems of the library take an operator as a parameter, which no
prover here can instantiate. Where a proof is by induction on a number, it is
from the well-foundedness of `<` on the naturals, which is stated of sets
(`LeastNat`, `Induct`).

Only model-checked:

- the liveness properties (`Converges`, `FoundEndsRun`, `PoolKeepsMining`,
  `EveryBlockIsTaken`, `EveryShareIsSent`, `ScanReturns`), which need fairness
  and `ENABLED` and are out of the prover's reach;
- the values of Jansson (`ValuesAreSound`, `DeepCopiesAreEqual`): a decrement
  cascades through the values it frees, a recursive operator;
- what Jansson makes of texts and formats (`TextsAreJson`), whose
  functions are recursive over their inputs, but for their bytes (`BytesSound`);
- of Keccak, what is around the rounds (`DigestsAreTheStandards`): the 24 round
  constants against the shift register, a computation without input, which TLC
  does once and for all; both paddings, on messages up to one byte more than two
  blocks of a small rate; and digests known from elsewhere;
- `PartsTypeOK`, all of which but the types of the values of Jansson is in
  `PoolTypesCorrect`, `TypesCorrect` and `TableTypesCorrect`;
- and the violations.

## 6. Disagreements found

Each is a run whose expected result is a counterexample to a sentence of the
repository.

- `solver_blocks`: "the trySolution() function will be blocked only when a
  change occurs" (`solver.cpp:93-94`). The flag is raised after the mutex is
  released; a swap in between is followed by a second one, which blocks for no
  change and puts the old buffer back until the next update.
- `cpuminer_exit`: "Wait for run() to terminate" (`cpuminer.cpp:21`). The
  destructor sleeps for the threads that are *not* joinable; with threads that
  are, it goes on and destroys them.
- `session_found`: the ether is used "when your miner finds a solution to the
  Proof of Work" (`README.md:79`). When the parameters change during a run, the
  solvers go on with the new ones and the callback verifies against the old
  ones. What is found is dropped, and in solo style the session then rests until
  the challenge changes again.
- `network_refused`: the same sentence. With the busy flag commented out, a
  submission may start while an older transaction is pending, is told the same
  nonce, and is refused; nobody submits the solution again.
- `session_absent`: the assertions of `solver.cpp:76` and `:83` on the length of
  address and challenge fail on a pool answer that has an error and no result.

Two more are stated inside `TextsAreJson` and have no run of their own:

- `jsonp_strtod` takes `ERANGE` with a value that is not zero for an "Overflow"
  (`strconv.c:72-75`); `strtod` may also report it of a subnormal result, and glibc
  does if the result is rounded. What `jsonp_dtostr` writes for such a real
  (`strconv.c:87`) is then refused when it is read.
- Strict unpacking fails when items are "left unpacked" (`pack_unpack.c:425-429`). It
  compares numbers of keys, and an optional key that is absent is counted as one of
  the object's.

## 7. What is left out

- The digest, in `Solver` and `MiningSession`: a constant operator. That the
  implementations compute the standard's function is `functions`.
- The difficulty, the addresses of the block data and everything printed.
- The pseudo-random draw of nonces: a choice. Its seeding says nothing about
  which solutions exist.
- Requests that are never answered, except in `NetworkInterface` and
  `PoolInterface`, where the wait for an answer may never end.
- A transaction that the node drops from its mempool, fees that differ, and
  other programs that use the same wallet.
- `index.js`, which only calls the others in order; `solidity-helper.js` and
  `debug-logger.js`, which nothing calls or which only print; the contract's
  source, which is not in the repository.
- The text of a log's line and its date.
- Of the CUDA sources: setting up a card, its memory, `__shared__` copies of
  constants, the vector types and two-word arithmetic that no modelled kernel
  uses; `misc/keccak256.cu`, a copy. `miner.h`, `sph_types.h` and the other
  headers declare functions that are not in the repository and choose integer
  types for compilers.
- Of Jansson: the wording of errors, `FILE` streams, which differ from the
  callback only, the allocator hooks, and the locale's decimal point, which is a
  dot as long as nobody calls `setlocale`, and nothing in the repository does.
- The GPU drafts (`gpuminer*.cc`): an uninitialised work, a variable that is not
  declared, a loop without a body; `binding.gyp` builds none of them.
- The test, a sample of the test runner.

## 8. Plan

All steps are done: the solver, the CPU miner and what it promises, the session,
the network interface, each with its proofs; the composition for solo style;
the pool interface and the logger; the counters; the scans; Jansson; the
hashes and the helpers of the device.

What could be added: a composition of `MiningSession` in pool style with
`PoolInterface`, as there is one for solo style; the padding of Keccak
for messages of any length; the reference counts of Jansson's values, with
the cascade written as a reachable set instead of a recursion.
