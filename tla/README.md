# TLA+ models of nccl-tests

This directory models nccl-tests: how the threads and processes of a benchmark
stay together, what its timings and its verdict are worth, what the operations
and the device kernels do to the buffers, how inputs are made that verify
exactly, how the tests of device-initiated networking pace themselves, how the
communicator test keeps its ranks in step, and what the report looks like when a
run fails half way. TLC checks the models on small instances; TLAPS proves, for
all values of the constants, the two operations that threads and processes meet
in and what they return, that the harness stays in lockstep and that no failure
is lost on the way to its verdict, that the report is well formed wherever a run
fails, the verifier's count, the sweep over communicator sizes, and the index
arithmetic of the vector and verification kernels.

Paths are relative to the repository; line numbers without a file are lines of
the file that the section is about.

## 1. The system

An MPI job starts a number of processes. Each process starts `nThreads` threads
(`-t`), each thread drives `nGpus` GPUs (`-g`), each GPU is one NCCL rank. The
threads walk through the same benchmark in lockstep; all of them meet in
`Barrier()` and `Allreduce()` of `src/common.cu`.

| Component | Source | State it keeps | Operations | Modelled |
|---|---|---|---|---|
| Barrier | `src/common.cu` 293-318 | two copies of mutex, condition variable, counter; a thread-local epoch | `Barrier()` | `ThreadBarrier`, abstract: `RoundBarrier` |
| Allreduce | `src/common.cu` 323-377 | the same, with an accumulator | `Allreduce<T>()` with five reductions | `ThreadAllreduce`, abstract: `RoundBarrier` |
| Benchmark harness | `src/common.cu` 449-970, 974-1132, 1829-1958, `src/common.h` | streams, CUDA graphs, data buffers, error counts, `std::thread`s | `TimeTest`, `BenchTime`, `startColl`, `completeColl`, `CheckData`, thread start and join, the error macros, the verdict of `run()` | `BenchRun`, in part |
| Per-iteration times | `src/common.cu` 381-447, 663-718 | process-wide scratch array | `GatherProcessMaxIterTimes`, `ReduceProcessMaxIterTimes` | no |
| Collective tests | `src/common.cu` 554-640, 928-940, 1134-1147; `getCollByteCount`, `initData`, `runColl` of `src/all_gather.cu` and its ten siblings | send, receive and expected buffers; counts and in-place offsets | `setupArgs`, the shift per iteration, input, expected output, the operation, `CheckData` | `Collectives`, in part |
| Sweep over message sizes | `src/common.cu` 942-970, 1632-1640 | byte counts | `TimeTest`'s loop, the memory cap | no |
| Communicator test | `src/comm_ops.cu` | options, timer buffers, summary tables of rank 0 | `main_init`, `main_split` (split and shrink), `main_grow`, timers, flush, summary | `CommSweep`, `CommOps`, in part |
| Report | `src/util.cu` 99-977 | stack of writer states, output file | `json*`, `write*`, `jsonOutputFinalize` | `JsonWriter`, in part |
| Tuning report | `src/util.cu` 59-97, 517-574, 983-1113, `src/profiler_v*.h` | process-wide event records with atomic counts and ready flags | callbacks of the profiler plugin | no |
| Host RMA collectives | the six `*RmaPut` of `-H` in `src/alltoall.cu` and others | windows, signal counts | put with signal, wait for signals | `Collectives` |
| alltoallv | `src/alltoallv.cu` | traffic matrix shared by the threads of a process | matrix file, counts and offsets, groups of sends and receives | `Collectives`, without the file |
| Device kernels | `src/all_reduce.cu`, `src/alltoall.cu`, `src/multimem_ops.h` | buffers of all ranks, barrier sessions per block, signals | LSA, multimem and GIN kernels, their launches | `DeviceKernels`, in part |
| GIN latency and throughput | `src/device_api/gin` | send queues, signals and counters, events, a stream | thirteen kernels, `gin_perf_run` | `GinTests`, in part |
| Data and verification | `verifiable/` | difference counts of threads, a total | crafted inputs, expected outputs, tolerances, the two kernels | `Verifiable`, in part |
| Command line, timers, OS layer, `tools/` | `src/common.cu` 1134-1514, `src/timer.cc`, `os/`, `tools/` | options | parsing, wrappers | no: what passes validation is a constant of the models |

How they interact: `run()` starts the threads, every thread calls the harness,
the harness calls `Barrier()` and `Allreduce()` and launches collectives on the
rank's stream; NCCL calls the profiler callbacks from threads of its own; the
main thread of process 0 alone writes the report, while other threads wait for
it only at the barriers. `comm_ops` is a program of its own that shares nothing
with the harness but the macros; its ranks meet in MPI and NCCL collectives and
in the flushes that full timer buffers start.

What is hard about it, and so what the properties are for:

* a barrier that is used again before everyone has left it, with notifications
  that may come early or to the wrong waiter, and an accumulator that is read
  without the mutex (`common.cu:299`, `301`, `375`);
* a `break` in a loop full of barriers (`883`): it has to fall the same way on
  every rank;
* waiting for a stream at exactly the right places, in four blocking modes, with
  groups and with graphs (`647`, `656`, `765`): too little and the clock or the
  check looks at unfinished work;
* errors that are found in one thread of one process and must reach the exit
  code of all, and calls that fail while others wait in barriers without a time
  limit (`314`, `1870`, `1955`);
* eleven operations, each with its own counts, in-place offsets and expected
  output computed apart from the transfer, windows that wander through the
  buffers, and one-sided puts whose target may be doing anything (`559`, `845`,
  `scatter.cu:71`);
* `comm_ops`: MPI collectives hidden in the timer calls, with ranks that have no
  part in a communicator and must make the same timer calls nevertheless
  (`comm_ops.cu:438`, `852`), and arithmetic on sizes (`513`, `1151`);
* kernels launched back to back without a word between the hosts, held apart by
  barriers of single blocks, and index arithmetic in warps, chunks, vectors and
  heads that has to touch every element once (`all_reduce.cu:209`,
  `alltoall.cu:228`);
* network tests that keep their own send queues from overflowing, take turns by
  polling an element or a signal, and reuse both for every size
  (`ginPutBW.cu:30`, `ginPutSignalLatency_pingPong.cu:23`);
* inputs that have to reduce to a known output exactly, in every order and with
  three bits of mantissa (`verifiable.cu:603`), and a count of differences
  shared by threads and blocks;
* the report: a writer that asserts the nesting of calls spread over four
  functions, any two of which an error may separate (`util.cu:219`, `434`).

`PROJECT.json` lists every such hazard at its line with the properties that
would show it going wrong, or with the reason why none does.

## 2. The modules

### RoundBarrier: what callers may rely on
A reusable barrier: `Enter` begins a call, `Leave` ends it once every member has
begun as many. No threads, locks or MPI. `ThreadBarrier` and `ThreadAllreduce`
implement it, which is proved; `BenchRun` uses three instances of it.

### ThreadBarrier: `Barrier()`
A step is a critical section of the mutex, and ends where the code gives the
mutex up or blocks in MPI while it holds it. `Enter` is lines 299-301 with the
first evaluation of the wait predicate; `SleepAgain` a wake-up with the
predicate still false; `EnterMpi` and `Open` the last-index thread going into
`MPI_Barrier` and coming back (303-310); `Return` the other threads (312-317).
`SpuriousWakeup` lets a wait end without notification, as C++ allows. The mutex
itself appears as `LockFree`: it outlives a step only while its owner is in MPI.
`MPI_Barrier` returns from a process's k-th call when every process has made its
k-th call. `calls` is a history variable, `MaxCalls` bounds it.

* `NoEarlyReturn`: no call returns before all matching calls have been made.
* `NoLostWakeup`: nobody sleeps while its predicate holds.
* `StragglersCanLeave`: the copy a straggler still has to leave is not counted
  in again. It is the reason for having two copies.
* `IInv`: the inductive invariant, the type invariant `TypeOK` and `RoundInv`,
  see section 4.
* `EveryCallReturns`, and `ImplementsBarrier` as a refinement.

### ThreadAllreduce: `Allreduce<T>()`
The same skeleton with the accumulator and the caller's value. `average` is the
sequence of reductions chosen for the run (0: rank 0, 1: mean, 2: min, 3: max,
4: sum). The last thread hands the process's partial result to `MPI_Allreduce`
(352-361) and publishes (365-367); everyone reads the accumulator after
unlocking (375), a step of its own (`Read`). Values are integers; the arguments
are multiples of the number of callers, so that the mean is exact as it would be
in a `double`.

* `ResultIsReduction`: every call returns the reduction of its own round.
* `NoRaceOnAccumulator`: while a thread is about to read a copy without the
  mutex, nobody is about to write that copy.
* `ImplementsBarrier`: the calls with `average` other than 0 form a
  `RoundBarrier` of all threads of all processes, whatever calls with average 0
  come in between on the same two copies.
* `EveryCallReturns`.
* Proved without a run: `ThreadsMeet`, a barrier of the process's threads for
  every reduction.

### BenchRun: the harness
A thread's code is straight-line but for the `break`, so it is a sequence of
operations assembled by operators named after the functions (`StartColl`,
`CompleteColl`, `WarmUp`, `Timed`, `CheckRound`, `BenchTime`, `TimeTest`) from a
command line `opt`, and walked with a program counter. Device state per rank:
`stream` and `finished` (collectives launched, complete), `group` (held back by
`ncclGroupStart`), `graph` (captured). A collective runs when every rank has
launched it (`RunCollective`) and finishes on each rank in its own time
(`FinishCollective`). Data is reduced to a tag, repetition and in-place flag,
that `initData` writes: a collective collects the tags of all ranks' send
buffers, and the check is clean if it finds exactly the tag it expects. A
delivery may go wrong and a call may return an error, `MaxMishaps` of both
together. `alltoall`, `alltoallv` and `sendrecv` have no in-place form: there
(`inPlace` false) a collective in place may deliver anything, the check votes on
what it finds, and `reportErrors`, which `initData` turns off in place, keeps it
from counting as an error (`Check`, 492). After the errors have been reduced over
MPI (`EnterReduce`, `LeaveReduce`) a process deregisters, destroys and frees what it
holds; that may fail (`FailToFree`, 1894-1929, history `unfreed`), and nothing tells
the others: `MPI_Comm_free` and `MPI_Finalize` (1945-1948) are not taken to
synchronise. Then comes the verdict (`Exit`), which also is `testNumResults` if
`NCCL_TESTS_MIN_BW` is set and the process's own bandwidth is too low, a free
choice here (`minBw`, `slow`). Barrier and Allreduce are `RoundBarrier`s: with `-a 0` Allreduce would
not be one, and that option is outside this module. Each thread drives one GPU.
For `-z 3` the clock of the model is the loop around the iterations, not the
events between which the code adds up (the waiting is the same).

* `Lockstep`: threads in the same barrier or vote stand at the same line.
* `NoFalseAlarm`: the check never looks at a busy stream, a collective combines
  data of one repetition only, and without a wrong delivery no rank counts an
  error and no check finds one, in place without an in-place form excepted.
* `ClockCoversWork`: the clock is started when every rank's warm-up has left its
  stream and read when everything launched has.
* `VerdictIsTrue`: `testSuccess` only if no check of any rank of any process found
  wrong data in a repetition that counts (`Counts`: all, but only those out of place
  without an in-place form), and `testNumResults` only if one did or the process was
  too slow. The history `bad` has the repetitions a check found wrong. Processes
  can disagree only about their bandwidths.
* `NoVerdictAfterFault`: after a failed call of a test no process reaches a verdict;
  next to a process with a verdict only one that failed to free may end with an
  error. (That one process may then return `testSuccess` and another an error is
  what the code does, and no property denies it.)
* `EveryProcessEnds`: if no call fails, every process ends.

What happens to the others after a failed call, and `-z 1` or `-z 2` with `-G`,
differ from what the documentation says; see the end of section 3.

### CommSweep: the sizes `comm_ops` tests
`parse_args` (396-419) clamps the bounds and turns the factor or step round,
`next_step` and `keep_testing` (1145-1175) walk. Real numbers are fractions.

* `MovesOn`: every round of a factor or step sweep moves the size, in its direction.
* `SweepEnds`: every sweep ends, except the fixed ones whose bounds admit size 0
  (`Endless`), and those never do: section 3.
* Proved without a run: `WithinBounds`, no size outside `-b` and `-e` is tested.

### CommOps: the communicator test
A rank's calls for all sizes are a sequence again (`main_init`, `main_split`,
`main_grow`, with the operators `SplitRound` and `GrowRound` for one iteration);
each call names its communicator and the timer stopped or skipped after it.
`Return` is `record_timer`: it appends to the buffer of the size under test and
starts a flush when the buffer is full. MPI and NCCL communicator operations
block until all members have called them; `ncclAllReduce` only queues work and
`cudaStreamSynchronize` waits for it. `GatherTiming` is rank 0 adding up what
the others send, `performed` the history it is compared with.

* `CollectivesMatch`: ranks waiting in the same round on the same communicator
  have made the same call.
* `TimersInLockstep`: what rank 0 adds up has the same timer at every place.
* `SummaryIsComplete`: every timed call counted once, at any flush interval.
* `RootsFillTheSlots`: `rootCount` agrees with `isRoot`.
* `EveryRankEnds`.

### JsonWriter: the report
The writer's functions are operators on the record `w` (stack, document,
aborted) that return the record after the call; the report functions are
sequences of such calls with the keys they really use; `May` marks the places
between them where the run can fail, and says whether `run()` can still return
then or the process is terminated with `std::thread`s joinable. At its end `run()`
returns `testSuccess` or `testNumResults` (`Return`, 1955-1958), which `main`
finalizes the file for alike before its `TESTCHECK` (1541, 1545). Finalization is
three actions: the end time, closing what is open one by one, closing the file.
The document is kept as what a JSON reader has made of it so far (`Read`), an
independent reading of the JSON grammar that knows nothing of the writer's
stack. Values, strings and the text on stdout are left out.

* `NoAssertion`: no `assert(0)` of the writer, whatever the options and
  wherever the run fails.
* `StackIsWhatIsOpen`: the file is at every moment the beginning of a JSON
  document, and the stack is the containers open in it, in that order, with at
  most one key and that on top.
* `ClosedIsJson`: a finalized file is one JSON value without duplicate keys.
* `ErrorsMarkTheEnd`: a reader can tell a run that came to its verdict, whichever,
  from one that a failing call ended before.

### Collectives: what the operations do to the buffers
One `BenchTime` of one message size, for all eleven collectives in each form they
have: carried out by the library (`impl` "lib"), by a group of `ncclSend` and
`ncclRecv` ("p2p", also those of `alltoall.cu`, `gather.cu` and `scatter.cu` that
newer libraries replace), or by the puts of `-H` ("rma"). `job` is the command
line, `args` what `setupArgs` makes of it. Each `...Layout` is a
`getCollByteCount`, `Input` and `...Expected` are the two halves of an `initData`,
`...Puts` and `...Waits` the two halves of a `*RmaPut`, `...Group` the sends and
receives of a `runColl`; `SendAt` and `RecvAt` are the addresses `startColl`
computes. An element is not a number but the seed, rank and index that
`ncclVerifiablePrepareInput` makes it of, so two elements are equal only if they
should be.

A rank's program is `Fill` (initData), then per iteration `Post` (runColl) and
`WaitSignal`, `GroupDone` or `RunLibrary`, `Meet` (the barrier before the check),
and the same once more with `Check` (CheckData) at its end. Timed iterations
differ from warm-up in nothing that touches a buffer, and are one sequence with
it. What is assumed of the library, and marked external: a put needs nothing of
its target and arrives at any time (`Deliver`), in any order, with its signal
after its data; signals are counted per peer, index and context, and waiting uses
them up; a receive takes the send of its peer with the same count, and the data
is then moved at once (`Exchange`); a collective runs when every rank has called it.

* `AlarmOnlyIfOvertaken`: what initData predicts is what the operation delivers,
  unless a put arrived at a rank that had not finished `Fill` of the check. The
  counts, offsets, signals and contexts of each operation are on trial in this one.
* `NoFalseAlarm` drops the "unless", and is refuted.
* `WithinBuffers`: every window, chunk, put, send and receive ends inside its
  buffer, the expected output fits what was allocated for another count and
  element size, and the number of windows is not 0.
* `CompletedIsQuiet`: a rank that has completed is not written to by a put of the
  same round any more, and no signal is left over for the next one.

`BenchRun` states `NoFalseAlarm` for operations that begin when every rank has
launched them. `Collectives` shows that this holds for the library's collectives
and for groups, and where it fails for puts.

### Verifiable: the data and its verification
The types are `half`, `bfloat16`, the two 8-bit floats and the 8-bit integers; a
float is an integer and an exponent, rounded to nearest even as the hardware
does (`Rounded`), and an overflow is a value of its own. `job` holds the
reduction and the draws: what the code takes from a hash of seed and index is
here chosen freely, so every value of the hash is met. `genSumXY`, `ShuffleRank`
and the `genInOut...` operators are the functions of those names in
`verifiable.cu`. All elements of a job are alike, and the inputs of all ranks are
one step. The library (external) combines any two of the partial results, in any
order, and for the mean premultiplies in the type itself or in a wider one, on
each rank as it likes. `PrepareInput`, `PrepareExpected` and `Verify` are the
loops of a thread of the kernels, `AddBad` its atomic addition to the total; the
library gets up to `job.faults` elements wrong.

* `NoFalseAlarm`: a correct library passes, in whatever order it reduces and
  wherever it rounds.
* `CountsEveryWrongElement`: the number reported is the number of elements that
  differ by more than the tolerance.
* `NothingIsRounded`: no partial result of a crafted sum or product is rounded or
  overflows; this is why the order does not matter.
* `ShuffleIsPermutation`: exactly one rank takes what is left of a sum.

`float` and `double` do not fit the integers of TLC; the code treats them as the
other floating-point types. Not modelled: the inline verification and the
self-test of `verifiable/`. The products of the mean are exact here. The draws
leave out the case `rn > y` of `genSumXY` described in section 3.

### GinTests: device-initiated networking
Two ranks; each is a host thread (`gin_perf_run`: sizes, warm-up, events,
synchronisation, reduction of the times), a stream, the threads of the kernel
that runs and a network interface. A kernel is a program per thread (`Iteration`
for the steps of one iteration and `AfterLoop`); the thirteen kernels of
`src/device_api/gin` are these programs for a test type and an operation. Of a
send queue the model counts what is held back, posted and read, per rank and
CTA; of the wire it keeps a bag, so that what was posted arrives in any order; of
the buffer the last element of each size, the only one a test reads. Strong and
weak signals are one, and sharing of request slots between contexts is left out.

* `NoFalseTurn`: a side of a ping-pong takes its turn only when it was given,
  whatever the warm-up, the size before or the turn before left behind.
* `QueueWithinDepth`: without credit checks, the flushes alone keep the queue
  within its depth if one iteration of a block fits into it, and within one
  iteration if not (`Bound`). (A latency test of put with signal reaches the depth
  exactly.)
* `ClockCoversMessages`: between the two events exactly the messages complete that
  the report divides by.
* `EverybodyFinishes`: also when adding or multiplying sizes wraps around.

`Valid` is what `parse_args` lets through, queues smaller than an iteration
included. What happens to the network when a queue is given more than it holds is
not modelled: the queue just grows. With the credit check a post waits for room.
Aggregated posts under the credit check into a queue smaller than an iteration,
and operations of two entries into a queue of one, are not in the runs: whether an
operation that is held back for its doorbell waits for credit is NCCL's business,
and in the model nobody would ring. The theorem covers them.

### DeviceKernels, KernelIndices: the `-D` implementations
The four kernels of all-reduce and the four of all-to-all. Per rank a host, a
stream of launches and the running kernel with a program counter per block and
progress per thread. `KernelIndices` has the numbering of the vectors in the unrolled
loops. `Accesses` are the loops of a thread as sequences of sets of
elements; the elements of a set are loaded together, then stored. `Program` is
the order of barriers, loops, puts, waits and flushes. Barriers join the block of
one number on all ranks of a team; barrier sessions, signals and puts are
NCCL's, marked external. A put reads its source when it leaves and lands with
its signal. A launch ends when all its blocks have; the hosts launch
back to back, without the barriers of the benchmark before and within the timed
loop (fewer barriers allow more behaviours), and after it fill, launch and check
twice, with different and with equal seeds. All-to-all is out of place, as the
benchmark demands; the operation is the sum.

* `DataIsDelivered`: after each of the checks' launches every rank has the
  result, although a rank may be a launch ahead of another and, in the
  `GinAlltoAll` of libraries from 2.30 on (`job.closing` false), no barrier
  closes the kernel.
* `EveryElementOnce`: the loops touch every element exactly once and no other:
  where an iteration starts at a vector, for any number of elements; where it starts
  between two, for `alltoall.cu`, which falls back on scalars, and for the vectorized
  kernel 2 of all-reduce if the head is no longer than the buffer. `startColl`'s shift
  alone does that: with a count that is no multiple of the vector the second
  iteration is misaligned without `-u`. The property also says where the kernels
  fail at it (`HeadFits`), and that they do so there and nowhere else: section 3.
* `VectorsAreAligned` is refuted for misaligned buffers. In the model,
  as on the hardware, such an access, or one beyond memory, ends the kernel and the
  run of its rank (`Trap`). Memory is the model's buffer: what else an access past it
  may hit before it traps is left out.

`MC*` modules hold the constants for TLC. `TypeOK` of a module documents the
shape of its state. Where an operator is preceded by a variant "as a bug might
have it" (a forgotten reset, a missing flush), the specification does not use the
variant: put in the operator's place it makes TLC refute a property, as do the
changed guards and updates listed under "mutants" in `PROJECT.json`, one for each
property.

## 3. The runs

| Run | Instance | States |
|---|---|---|
| `ThreadBarrier` | 2 processes, 3 threads, 3 calls each | 6 thousand |
| `ThreadAllreduce` | 2 processes, 2 threads, 3 calls, all sequences of the 5 reductions | 163 thousand |
| `BenchRun` | 2 processes, 2 threads, 6 command lines, 1 mishap | 578 thousand |
| `CommSweep` | 5 ranks, `-b` and `-e` from -1 to 6, 7 numbers, factor, step and fixed | 2.6 thousand |
| `CommOps` | 3 ranks, sizes 3, 2, 1, 288 option records | 420 thousand |
| `JsonWriter` | 128 option records, failure at every place | 28 thousand |
| `Collectives` | 11 collectives, 88 jobs, 3 ranks (2 and 4 too), buffers of 16 elements | 620 thousand |
| `Verifiable` | 6 types, 6 operations, 1 to 9 ranks, blocks and threads 2 each | 577 thousand |
| `GinTests` | 2 ranks, all kernels, 1 or 2 CTAs and threads, 1 to 3 iterations | 148 thousand |
| `DeviceKernels` | 8 kernels on 1 to 3 ranks, 1 or 2 blocks and threads, buffers of 24 elements | 472 thousand |
| `Collectives_overtaken`, `DeviceKernels_misaligned` | as above, jobs cut to the question | a statement of the repository refuted |

Why these bounds are enough to be interesting:

* Barrier: three calls make each copy of the state be used a second time; with
  three threads there is a straggler besides the leader and the thread that runs
  ahead; two processes suffice because MPI is symmetric. Allreduce has two
  threads for the sake of all 125 sequences of reductions.
* BenchRun: the command lines (`MCBenchRun`) are two check rounds, so that a
  break skips one; the same with `-z 1` and groups of two; `-z 2` with `-T`;
  `-z 3`; `-G 2`; and a collective without an in-place form with a bandwidth to
  reach. One mishap at any place of any thread is what the error paths are made for. Each run has an out-of-place and an in-place pass, so every barrier
  is reused.
* CommSweep: numbers below, at and above one, one that rounds to nothing and one
  that is exactly a half; bounds absent, out of range, equal, in both orders.
* CommOps: a flush for every timer, for every third (which falls at different
  calls in different rounds), and never; two warm-up settings; one root and a
  root for every second rank, on world sizes that are and are not multiples;
  resizes that keep half, two thirds and all but one.
* Collectives: three ranks, so that next and previous differ and two puts can
  overtake each other, four where a power of two is asked for; two contexts on
  three ranks, so that ranks share one; roots 0 and 2; buffers of two to five
  windows with three iterations; a message too small for one element per rank,
  one that is no multiple of the ranks, a traffic matrix with zeros and an
  uneven load. The elements have 8 bytes, two to the 16-byte boundary. There
  are four signal indices as in the code, more than ranks.
* JsonWriter: no and two lines, one and two processes, each option both ways.
* Verifiable: e4m3 with every sum and every discrepancy, on two and five ranks,
  shares that divide the ranks and shares that do not; `half` and `bfloat16` at
  both ends and in the middle; products that are one and that are not; every
  shuffle of up to nine ranks, powers of two and their neighbours; copies of up to
  17 elements, so that two blocks of two threads get unequal parts and a thread
  several turns; two wrong elements, and two that the tolerance of a mean forgives.
* GinTests: queues that hold one, one and a half and several iterations, and queues
  smaller than one (`Overfull`); warm-up
  or not, so that signals and polled elements have a past; two sizes; steps that
  end on the maximum, beyond it and at the wrap-around of the size (`SizeModulus`
  16); a warp of two threads where the code has 32, since only "a multiple of a
  warp" matters.
* DeviceKernels: three launches, from different offsets or from the same one if
  the buffer has room for no more; blocks
  that own one element and several; vectors of one, two and (misaligned) four
  elements; chunks that are full, partly full and absent, with a warp and an
  unrolling of two. One rank alone goes through every count from 0 to 24, in vectors of two
  and four, with the offsets of three iterations, and some counts with `-u`, because the arithmetic of a thread does not depend on the
  other ranks. GIN jobs have two ranks; three were too many for a routine run.

Deadlock is checked in all passing runs (`DeviceKernels` relies on it: its kernels
end if nobody can be stuck); the actions named `Done` say where the system may stop. After a failed call a process of `BenchRun` may wait for ever,
and its `Done` says so.

### Fairness
Weak fairness of each thread's or rank's steps: the operating system schedules
every runnable thread and a mutex that is free is handed on. Nothing is assumed
of spurious wake-ups, wrong deliveries, failing calls or timeouts. In `GinTests`
weak fairness of the whole next-state relation is enough, because a step cannot be
undone and polling without success is no step; `JsonWriter`, `Collectives`,
`Verifiable` and `DeviceKernels` have no fairness and no liveness property. NCCL
(`RunCollective`, `FinishCollective`) and MPI complete an operation that every
member has begun: without that no benchmark could end. MPI collectives are
taken to synchronise all members. MPI only promises that for a barrier, but a
program must not rely on the others not doing it, so the liveness results hold
for the stricter reading and the safety results do not use it except for
`MPI_Barrier` and all-to-all exchanges, where data forces it.

### Findings
Two statements of the repository are refuted by a run of their own, and the
properties of three passing runs say under which conditions the code falls short:

1. With `-H` nothing separates a rank's initData from the puts of the others in
   the check (`common.cu:833` and `845`): a put that arrives early is cleared, its
   signal is not, and the check reports wrong data (`Collectives_overtaken`).
2. The vector kernels promise a "graceful handling of misaligned data"
   (`all_reduce.cu:184`), but `alignment_offset` (209) is the distance from the
   boundary below, not to the one above: for a buffer one element past a boundary
   the head loop handles one element and the vectors begin two past it
   (`DeviceKernels_misaligned`, `-u 1`).
3. With a count below `alignment_offset` the length of the vector part (210, 412) wraps
   around and the loop runs far beyond the buffer. It takes no `-u`: `-b 4 -e 1M -D 2`
   does it in the third iteration (`EveryElementOnce`).
4. The head loop of kernel 4 runs to the larger of `alignment_offset` and the count
   (432) and handles everything, which the vectors then do again
   (`EveryElementOnce`, again without `-u`).
5. `comm_ops -s fixed` with `-b` below `-e` never ends (`comm_ops.cu:1147`):
   `next_step`, which "ensures progress" by its comment (1143), returns 0 for 0, and 0
   is within the bounds of an ascending sweep (`SweepEnds`). So it is, for other
   `-b`, if `-e` is negative, which is clamped to 0.
6. A GIN test without credit check fills a queue beyond `--gin_tx_depth` when one
   iteration of a block posts more than that, which nothing checks (`ginPutBW.cu:30`,
   `args.cc` 181-304): 1024 threads that put with signal into a queue of 1024, say
   (`QueueWithinDepth`).

Further differences were met while modelling and have no run:

* A thread whose call fails returns without the barriers it owes, and the others
  wait in `Barrier()` without a time limit, `-T` or not (`common.cu:314`, against
  `README.md:103`).
* A failure in the main thread returns from `run()` past joinable `std::thread`s
  (`common.cu:1870`): `std::terminate` instead of the error that `common.h:102`
  relays.
* `-z 1` or `-z 2` with `-G` waits for a stream that is being captured
  (`common.cu:647`, against `README.md:95`); only `-z 3` is refused with `-G`.
* `genSumXY` (`verifiable.cu:603`) computes the number of shares in unsigned
  arithmetic. With more ranks than the sum has units (a sum of e4m3 from 17 ranks
  on, of e5m2 from 9, its `PreMulSum` from 4, products of e4m3 from 5 to 8) it
  wraps, each share becomes 0 and the division that follows is one by zero. The jobs of
  `Verifiable` stop below that. A comment above (579) on the discrepancy avoided is
  wrong too, without effect.
* A process that fails to free its buffers or communicators (1894-1929) returns an
  error although the others return `testSuccess`, and with `NCCL_TESTS_MIN_BW` processes
  can return different codes (1955).
* `Allreduce` with `average` 0 skips MPI (`common.cu:352`), so it is not the
  "Inter-thread/process barrier" of its comment then; `pick_color` keeps the last
  `n` ranks for `step-n` (`comm_ops.cu:720`), its comment says the first.

## 4. What is proved

| Module | Theorem | States |
|---|---|---|
| `ThreadBarrierProofs` | `RoundInvariance` | `Spec => []IInv` |
| | `BarrierSafety` | `Spec => []NoEarlyReturn` |
| | `NoLostWakeups` | `Spec => []NoLostWakeup` |
| | `StragglersLeave` | `Spec => []StragglersCanLeave` |
| | `BarrierRefinement` | `Spec => ImplementsBarrier` |
| `ThreadAllreduceProofs` | `AllreduceInvariance` | `Spec => []IInv` |
| | `NoRace` | `Spec => []NoRaceOnAccumulator` |
| | `ThreadsDoMeet` | `Spec => []ThreadsMeet` |
| | `MpiInvariance` | `Spec => []MpiInv` |
| | `AllreduceRefines` | `Spec => ImplementsBarrier` |
| | `ValuesFollow` | `Spec => []ValInv` |
| | `ResultTheorem` | `Spec => []ResultIsReduction` |
| `BenchRunProofs` | `HarnessInvariance` | `Spec => []IInv` |
| | `NoFaultIsLost` | `Spec => []NoVerdictAfterFault` |
| | `VerdictTheorem` | `Spec => []VerdictIsTrue` |
| | `LockstepTheorem` | `Spec => []Lockstep` |
| `JsonWriterProofs` | `WriterInvariance` | `Spec => []WriterInv` |
| | `TypeTheorem` | `Spec => []TypeOK` |
| | `NoAssertionTheorem` | `Spec => []NoAssertion` |
| | `StackTheorem` | `Spec => []StackIsWhatIsOpen` |
| | `ClosedTheorem` | `Spec => []ClosedIsJson` |
| | `EndTheorem` | `Spec => []ErrorsMarkTheEnd` |
| `CommOpsProofs` | `CommInvariance` | `Spec => []CommIInv` |
| | `CommTypeCorrect` | `Spec => []TypeOK` |
| | `TimersAreInLockstep` | `Spec => []TimersInLockstep` |
| | `GatheringsAgree` | `Spec => [](main_ret_val = 0)` |
| | `CollectivesAlwaysMatch` | `Spec => []CollectivesMatch` |
| | `RootsAlwaysFillTheSlots` | `Spec => []RootsFillTheSlots` |
| | `SweepInvariance` | `SweepSpec => []SweepIInv` |
| | `SweepMovesOn` | `SweepSpec => MovesOn` |
| | `SweepStaysWithinBounds` | `SweepSpec => []WithinBounds` |
| `IndexProofs` | `NoVectorTwice` | no two places in the unrolled loops are the same vector |
| | `EveryVectorOnce` | every vector has a thread, a chunk and an unrolled index |
| | `WholeChunksStayWithin` | the unrolled loop stays below the number of vectors |
| | `EveryElementVisited` | every element has a block, a thread and a turn |
| | `NoElementVisitedTwice` | and only one |
| | `CountIsExact` | `Spec => []CountsEveryWrongElement` |
| `GinProofs` | `GinInvariance` | `Spec => []GinInv` |
| | `QueuesAreBounded` | `Spec => []QueueWithinDepth` |
| | `ClockAlwaysCoversMessages` | `Spec => []ClockCoversMessages` |

`FoldLemmas` holds what these proofs need of the library's folds. Its operators
are recursive functions: a sum is taken over a finite set, `FlattenSeq` over a
sequence of sequences. The induction theorems of the library take an operator
as parameter, which the provers cannot instantiate; `SetInduction`,
`FiniteInduction` and `FlattenInduction` take a set instead: the set of the
numbers, subsets or prefixes for which the claim holds. From them follow that
the recursion exists and is unique, that a sum does not depend on the order
(`SumRemove`, `SumOfSums`), when it is zero, that a least and a greatest argument
exist, and what holds of a flattened sequence piece by piece.

Nothing is assumed but what the modules assume of their constants and, by name:
whole warps in `IndexProofs` (the number of threads of the grid is a multiple of
the warp, which `Valid` asks of the vector kernels), there also positive `BlockDim`,
`MaxBlocks` and message size of the verifier, and
sweeps other than `fixed` in the theorems about the sweep: a fixed sweep goes to size 0 and stays.

### The barrier
The assumptions are that `Procs` is finite, `N` positive and `MaxCalls` a natural
number.

`NoEarlyReturn` is not inductive: it says nothing of counters or MPI, and a
state with a full counter and an absent thread would satisfy it. `RoundInv`
counts rounds by the returns of the last thread, which opens them, and says that

* every thread is at most one round off, and its epoch is that of the round it
  is in (`InStep`);
* the current copy of the counter holds exactly the number of threads that have
  arrived, and the other copy is clear (`CountsArrivals`);
* a thread in MPI is the last one and has seen a full counter, and no process
  has opened a round that another has not brought to MPI (`MpiInStep`);
* nobody sleeps past its predicate (`NoLostWakeup`).

Then a full counter means, by cardinality, that every thread has arrived
(`FullMeansAllArrived`), so that a process in MPI speaks for all its threads,
and the rounds of MPI carry this across processes. There is one lemma per
action; `SleepAgain` and `SpuriousWakeup` share one because neither changes
anything but a place. For the refinement, `Enter` maps to `Enter` of the
abstract barrier, `Open` and `Return` to `Leave`, everything else to a stutter.

### Allreduce
The invariant needs no other process: `IInv` is `ControlOK` (types, and only the
last thread is ever in MPI) and, for each process, `InStep(p)`. As in the barrier
rounds are counted by what the last thread has published; the copy of the open
round counts exactly the threads that have arrived and the other copy is clear, so a full
counter means that every thread has arrived and none is past its own read
(`FullMeansAllArrived`). A thread that still reads holds the copy of the round that
is over; whoever is outside, or is the last thread in MPI, uses the copy of the open
round (`NoRace`).

Between processes the calls with `average` 0 do not meet. `MpiInv` therefore
counts meetings, not calls: what a process has brought to MPI is the number of
its rounds with another reduction, plus one while it is inside, and no result is
out before every process has brought its own. `AllreduceRefines` maps `Enter` to
`Enter` of the abstract barrier and `Read` to `Leave` if the call meets, and to a
stutter if it does not, everything else to a stutter.

The values come on top of both invariants. `ValInv` says of each process where
the values of a round are: the copy of the open round reduces the arguments of the
threads that have arrived (`Gathering`), the other copy holds the result of the
round before (`Published`), what the process has given to `MPI_Allreduce` reduces
the values of its threads (`Handed`), and a thread that has returned took the
reduction of its own call (`Taken`). The step that needs all of them is `Open`: the
k-th meeting is the same call on every process, so what MPI combines are partial
results of one round; that their sum, mean, least or greatest is that of all
arguments is a lemma about sums of sums and extremes of extremes. `NoRace` is what
keeps a value in its copy until it has been read.

### The harness
`OptionsAssumption` (the options are those that validation lets through), a finite
set of processes, a positive number of threads; `MaxMishaps` may be any number.

The proofs go along the program counter, so they begin with the program itself. A
sequence of operations is `Whole(s, k)` if every check in it is followed by its
vote, it does not end on a check, and no vote jumps more than `k` operations past
its end. One lemma per operator of the model (`StartCollIsWhole`, ...,
`CheckLoopIsWhole`, `BenchTimeIsWhole`, `TimeTestIsWhole`) carries this up to the
whole test: a break out of the check loop never leaves it, for any command line.

None of the three properties is inductive by itself. The invariant has these parts:

* `Control`: threads stay within their program, and the main thread is past a join
  only if the thread is done;
* `Reducing`: no process is past the last reduction (`Behind`) before all take part in
  it, only a process that is has a verdict, and the ones that failed to free what they
  hold are exactly those that failed there;
* `FaultShows`: a call of the test that failed has stopped its thread or its process,
  which then is not behind the reduction. With the two above, a failed thread keeps its
  process, and so every process, from a verdict;
* `Calls`: a thread inside `Barrier()` or `Allreduce()` stands at such a line, and
  has brought as many votes as calls;
* `Together`: of any two threads, they have made the same calls and no call lies
  between the lines they stand at, or one is a call ahead of another that is still
  inside it, and stands where that call, its vote counted, leads. This is what makes
  the break fall the same way everywhere: both add up the same votes;
* `Reporting`: errors are reported exactly while the data of a repetition that counts
  are in the buffers;
* `Tally`: a rank has counted an error exactly if a check of it, or for a main thread
  one on a thread it has joined, found wrong data in such a repetition;
* `Judged`: a verdict is about the errors of all main threads and the process's own
  bandwidth.

### The report
`JsonAssumption` only gives the options their types: any number of processes, sizes,
iterations, arguments and variables.

The report of a run is a sequence whose length depends on all of these, so the
proof does not go along it but along the functions that make it up. A place in a
document (`InObject`, `AfterKey`, `InList`, `Filled`, `Unopened`) is the set of writers
that have just this open and want just that, inside any context. One lemma per call of
the writer says from which places it leads where (`KeyCall`, `ValueCall`,
`StartObjectCall`, ...), and `Leads(s, A, B)` that a sequence of calls does so at
every step. Sequences compose (`LeadsJoin`, `LeadsTimes`); `AddsKeys(s, L, X)` is what a
report function promises: in any object that has none of the keys `L` it leaves the
object open with just these added. There is one lemma per report function, up to
`ProgramLeads`.

A failure may come before any call. The invariant `WriterInv` says that the writer is
in the place before its next call, and that no place before a call that may fail has
the key "errors" in it (`Early`), which is what distinguishes the files of a failed
run. From there `jsonOutputFinalize` is a loop over whatever is open; `ClosingStep` says
that each of its rounds leads from a place to a place and keeps the keys of the
outermost object, and `EndTimePlace` that the time is only written where that object
is the innermost.

### The communicator test
Only `CommOpsAssumption`: any positive number of ranks, any sequence of sizes (also one
that repeats a size), any kind of test, numbers of rounds, flush interval, resize
and distance of the roots.

`CollectivesMatch` and `TimersInLockstep` say that ranks that meet agree; nothing in
them says where a rank is that has not come yet. The ranks run different programs (a rank
that a shrink excludes skips timers where others call NCCL, and one beyond the size under
test goes straight to the next), so the proof compares the programs of any two ranks position
by position: `Together(n, r, s, u, v)` says that the sequences have the same length and that
at each place the same timer is stopped or skipped, and that if one makes a collective call
of a communicator with the other in it, the other makes it there too. One lemma per
operator carries this up (`CreateTogether`, `WorkTogether`, `SplitRoundTogether`,
`GrowRoundTogether`, ..., `TestsTogether`).

The programs then are the parts of one score, a sequence of slots that hold each
rank's call or a rest (`Score`, `ProgramsAreParts`). In every slot `InHarmony` holds: all
members of a communicator call it together, and who is below the size under test has the
timer of rank 0; `Allotted` says that a slot of a test comes after the allocation for its size.
The `Timeline` of a score is what a rank has counted and recorded after each slot if it
keeps up, flushes included. `CommIInv` says of each rank that there is a place in the score
where it `StandsAt`: the calls left are the rest of its part from there, and its size under
test, switch, buffers, counters and the gatherings it waits for are those of the timeline, one
call ahead while it is inside a call. There is one lemma per kind of step (`Enters`, `Leaves`,
`Passes`, `Resizes`, `StartsFlush`, `EndsFlush`); a rest is passed without a step
(`PassIdle`). Rank 0's gathering is the step that needs other ranks:
counters of the timeline never fall, and grow at every call (`CallsGrow`), so a member that has
counted as many calls as rank 0 has come to the same slot, and cannot leave it before the
gathering is over (`JoinsGathering`, `AllAttend`). All buffers are then those of one
place of the timeline. By the same argument two ranks that wait with equal counters
stand at the same slot, both in its call or both in its flush (`NoMixedWait`).

That the roots fill the slots is arithmetic: `RootsCounted` goes by induction over the
number of ranks and a division that either stays or moves on (`DivisionGoesOn`).

### The sweep
`MovesOn` does not follow from the types: a factor below one would turn an ascending
sweep round. `SweepIInv` says that `parse_args` has oriented the number by the bounds (a
factor of at least or at most one, a step not below or not above zero), and that the
size has not gone back behind `-b`. The lemmas `RoundsUpTo` and `RoundsDownTo` say
that rounding does not cross a whole number; so the size never moves back, and
where it would stay the code moves it by one (`NextMovesOn`).

### Indices
`IndexProofs` is arithmetic of division with remainder. The unrolled loops give a
vector number by lane, turn, warp and chunk; `VectorTakenApart` recovers all four
from the number, which makes it unique. The verifier deals elements to
blocks by `BlockStart`, which ascends from 0 to the number of elements, and
threads take every `BlockDim`-th of their block.

With this `CountIsExact` follows from an invariant of the interleaving (`CountInv`): each
thread's `bad` is the number of wrong elements among those it has come to, and the
total is the number of wrong elements of the threads that have added theirs. At the
end these sets are disjoint and cover all elements. How far an element may be off is
not looked into: the theorem holds for any tolerance.

### The GIN tests
The assumption is that the configurations are `Valid`, that is, accepted by
`parse_args`; a queue may be smaller than an iteration.

`QueueWithinDepth` is not inductive: with the credit check off nothing in a state
of queues alone says why a thread may still post. The proof goes through the
programs. `Laid` says how one is laid out: its steps go by iterations, each
iteration posts once, those in `Flushing` flush once, after the post.
`LaidProgram` shows it of all thirteen kernels, by induction over the iterations that
`FlattenSeq` joins. A post is pending when its thread has passed it and no flush
since (`Pending`).

* The threads of a block have passed the same flushes, because a flush takes all
  of them together. So what is pending lies, for all, in the iterations between
  the same two flushes (`PendingInWindow`), and these are at most `flushEvery`
  (`WindowSmall`), which is one if an iteration takes more than half the queue.
* A queue holds at most as many operations as are pending in its block (`Block`):
  a post adds one to both; the network interface only takes away; a flush is passed when
  the queue is empty. With `flushEvery` as the code computes it the pending
  ones fit `Bound`, the depth or one iteration if that is larger (`PendingFits`,
  `BlockFits`), rounding and a quotient of zero included.
* A kernel ends only after the flush behind its loop, so with empty queues
  (`BlockEnds`); the next one starts with them.

For `ClockCoversMessages` the invariant counts (`Counted`): between the start event
and the end of the kernel, the operations completed and those in the queues of all
blocks are together the posts that the places of all threads account for. At the
end of the kernel the queues are empty and every thread has posted in every
iteration. What may be in a stream for each place of the host (`Streams`) ties the
events to the kernel, and says that no kernel of the warm-up is left when the start event is queued.

### Only model-checked
* Liveness: fairness and `ENABLED` are out of the prover's reach.
* `NoFalseAlarm` and `ClockCoversWork` of `BenchRun`, which are about streams and data
  where `IInv` is about calls and votes.
* `NoFalseAlarm`, `NothingIsRounded` and `ShuffleIsPermutation` of `Verifiable`: rounding
  and shuffling go by powers of two of a variable exponent and by bits, recursions
  over numbers that the provers cannot unfold.
* `SummaryIsComplete` of `CommOps`, a sum over the ranks' buffers whose left side is a fold
  with a `LAMBDA`, which the provers do not instantiate. What it rests on besides the sum, that
  all ranks bring the same timers, is proved.
* `NoFalseTurn` of `GinTests`, which relates what two ranks and the wire hold
  across launches.
* `Collectives`, and the interleavings of `DeviceKernels`, whose
  loops over elements are also written with `SelectSeq`, which tlapm does not know.

## 5. What is not modelled

* `GatherProcessMaxIterTimes` (381-447): the same two copies of mutex, condition
  variable and counter as `Allreduce`, with a vector under the mutex, then
  `MPI_Gather`; what `ThreadAllreduce` shows of the copies holds for it, its
  scratch array and the gathered rows are not looked at.
* The tuning plugin's events (`util.cu` 517-574): the order of its callbacks and the
  threads they run on are NCCL's, and nothing in the repository shows them.
* The loop over byte counts (955), its wrap-around, and the memory cap (1632).
* The command line: what passes validation is a constant of the models; the
  conversion of an unknown kind of sweep, accepted with the number 0.
* The OS layer, the timers and `tools/`: wrappers and a script over finished files.
* In the harness: more than one GPU per thread (a thread launches on its GPUs in
  a loop inside one group, so a rank per thread shows the same interleavings of
  threads, but not those within a group); elapsed times, bandwidths (but for the verdict on them), means and
  deviations; printing.
* In `comm_ops`: failing calls, whose macros end the whole MPI job.
* In `Collectives`: the file with the traffic matrix, and `-u`, which only
  `DeviceKernels` has.
* In `DeviceKernels`: other operations and types than the sum of integers, the
  instructions behind multimem loads and stores, failing set-up.
* In `GinTests`: set-up and teardown (`gin_context.cc`), failing calls.
* In `Verifiable`: `float`, `double` and the wider integers, the inline
  verification, the self-test.

## 6. What could follow

`GatherProcessMaxIterTimes` with its scratch array allocated and freed by one
thread; the sweep over byte counts, wrap-around and all, in the style of
`CommSweep`; the profiler plugin, once the order of its callbacks is documented.
To prove: `SummaryIsComplete` (`CommOps`), for sweeps that do not repeat a size;
`NoFalseTurn` (`GinTests`); `NoFalseAlarm` of `BenchRun` for command
lines without groups and graphs.
