--------------------------- MODULE DeviceKernels ---------------------------
(***************************************************************************)
(* The device-side implementations (-D) of all-reduce and all-to-all: the  *)
(* kernels of src/src/all_reduce.cu and src/src/alltoall.cu, launched over *)
(* and over by the benchmark without a word between the ranks' hosts.      *)
(*                                                                         *)
(* Each rank has a host thread, a stream of launches and the kernel that   *)
(* runs: blocks that meet the same block of the other ranks at a barrier,  *)
(* and threads that work through the accesses the index arithmetic gives   *)
(* them.  Buffers count elements; one is the content <<seed, rank, index>> *)
(* that the input of a rank has there.                                     *)
(***************************************************************************)
EXTENDS KernelIndices, Sequences, FiniteSets, SequencesExt

CONSTANTS
    Jobs,           \* tests: see Valid
    Elements,       \* of a buffer
    SizeModulus,    \* 2^64 of a size_t
    IntModulus,     \* 2^32 of an int
    Launches        \* of the warm-up and the timed loop

VARIABLES
    job,        \* the test
    host,       \* per rank: where BenchTime is
    round,      \* per rank: how often it has run initData
    stream,     \* per rank: iterations queued and not finished
    step,       \* per rank and block: its place in the kernel
    task,       \* per rank, block and thread: accesses done
    loaded,     \* per rank, block and thread: stores to come
    memory,     \* per rank: its send and receive buffer
    arrived,    \* per rank and block: barriers it has come to
    signal,     \* per rank: GIN signals, one per block
    before,     \* per rank and block: the signal when the kernel began
    flight      \* GIN puts on their way
blocks == <<step, task, loaded, before>>
vars == <<job, host, round, stream, blocks, memory, arrived, signal, flight>>

\* n ranks, in groups of lsa that load and store each other's memory
Ranks == 0 .. job.n - 1
Blocks == 0 .. job.ctas - 1
Threads == 0 .. job.threads - 1
startLsa(r) == r - (r % job.lsa)
Local(r) == startLsa(r) .. startLsa(r) + job.lsa - 1

UsesGin == job.coll = "AlltoAll" /\ job.impl \in {3, 4}

(***************************************************************************)
(* What GetDevCommRequirements lets run: only the GIN kernels reach ranks  *)
(* without peer-to-peer access.                                            *)
(***************************************************************************)
Valid(j) ==
    /\ j.coll \in {"AllReduce", "AlltoAll"} /\ j.impl \in 1 .. 4
    /\ j.n % j.lsa = 0
    /\ j.lsa = j.n \/ (j.coll = "AlltoAll" /\ j.impl \in {3, 4})
    /\ j.inPlace => j.coll = "AllReduce"
    /\ j.coll = "AllReduce" /\ j.impl \in {2, 4} => j.threads % WarpSize = 0

ASSUME JobsAssumption == \A j \in Jobs : Valid(j)

(***************************************************************************)
(* startColl: every iteration works further up in the buffers.             *)
(***************************************************************************)
Total == IF job.coll = "AlltoAll" THEN job.n * job.count ELSE job.count
Room == Elements - job.unalign
Offset(iter) ==
    job.unalign + (IF Total = 0 THEN 0 ELSE Total * (iter % (Room \div Total)))

(***************************************************************************)
(* The accesses of a thread: sequences of sets, each loaded, then stored.  *)
(***************************************************************************)
\* for (k = first; k < limit; k += stride)
Loop(first, limit, stride) ==
    IF first >= limit THEN <<>>
    ELSE [k \in 1 .. (limit - first - 1) \div stride + 1 |-> first + (k - 1) * stride]

Each(F(_), s) == [k \in 1 .. Len(s) |-> F(s[k])]
Access(k, len) == [at |-> k, len |-> len]
Scalars(first, ks) == Each(LAMBDA k : {Access(first + k, 1)}, ks)
AsInt(k) == LET w == k % IntModulus IN IF w < IntModulus \div 2 THEN w ELSE w - IntModulus

\* All-reduce: the threads of all ranks share the elements.
globalTid(r, b, t) == t + job.threads * (r + b * job.n)
globalNthreads == job.threads * job.ctas * job.n

allReduceLsa(g) == Scalars(0, Loop(g, job.count, globalNthreads))

HeadLimit(alignment_offset) ==
    IF alignment_offset = 0 THEN 0
    ELSE IF job.impl = 2 THEN alignment_offset
    ELSE IF alignment_offset > job.count THEN alignment_offset ELSE job.count

allReduceVectorized(g, sendoffset) ==
    LET alignment_offset == sendoffset % job.vf
        aligned_count == (job.count - alignment_offset) % SizeModulus
        vector_count  == aligned_count \div job.vf
        num_blocks    == AsInt(vector_count \div (globalNthreads * UnrollFactor))
        Vectors(chunk) == {VectorAt(globalNthreads, g, chunk, i) : i \in 0 .. UnrollFactor - 1}
        Accesses(vs) == {Access(alignment_offset + v * job.vf, job.vf) : v \in vs}
    IN  Scalars(0, Loop(g, HeadLimit(alignment_offset), globalNthreads))
        \o [c \in 1 .. (IF num_blocks > 0 THEN num_blocks ELSE 0) |-> Accesses(Vectors(c - 1))]
        \o <<Accesses({v \in Vectors(num_blocks) : v % SizeModulus < vector_count})>>
        \o Scalars(alignment_offset + vector_count * job.vf,
                   Loop(g, aligned_count % job.vf, globalNthreads))

\* All-to-all: the threads of a rank share the elements of each chunk.
localTid(b, t) == t + job.threads * b
nthreads == job.threads * job.ctas

AlltoAllScalar(tid) == Scalars(0, Loop(tid, job.count, nthreads))

AlltoAllOptimized(tid, sendoffset) ==
    LET canVectorize == job.vf > 1 /\ sendoffset % job.vf = 0 /\ job.count % job.vf = 0
        vector_count == job.count \div job.vf
        per          == nthreads * UnrollFactor
        aligned      == (vector_count \div per) * per
        Unrolled(k)  == {Access((k + i * nthreads) * job.vf, job.vf) : i \in 0 .. UnrollFactor - 1}
    IN  IF ~canVectorize THEN AlltoAllScalar(tid)
        ELSE Each(Unrolled, Loop(tid, aligned, per))
             \o Each(LAMBDA k : {Access(k * job.vf, job.vf)}, Loop(aligned + tid, vector_count, nthreads))

Accesses(r, b, t, iter) ==
    SelectSeq(CASE job.coll = "AllReduce" /\ job.impl \in {1, 3} -> allReduceLsa(globalTid(r, b, t))
                [] job.coll = "AllReduce" /\ job.impl \in {2, 4} ->
                      allReduceVectorized(globalTid(r, b, t), Offset(iter))
                [] job.coll = "AlltoAll" /\ job.impl \in {1, 4} -> AlltoAllScalar(localTid(b, t))
                [] job.coll = "AlltoAll" /\ job.impl = 2 -> AlltoAllOptimized(localTid(b, t), Offset(iter))
                [] OTHER -> <<>>,
              LAMBDA s : s # {})

\* Peers a thread puts to: with GIN all, in the hybrid those without LSA.
Puts(r, b, t) ==
    IF ~UsesGin THEN {}
    ELSE {p \in Ranks : p % nthreads = localTid(b, t) /\ (job.impl = 4 => p \notin Local(r))}
Senders(r) == IF job.impl = 4 THEN Ranks \ Local(r) ELSE Ranks
\* Mutant: forgets that with few threads a thread puts to several ranks.
CtaOfRank(r) == r \div job.threads
receivingCta(r) == (r % nthreads) \div job.threads

(***************************************************************************)
(* What a thread stores after loading its accesses: to every rank the sum, *)
(* or to every peer its part.                                              *)
(***************************************************************************)
Buffer == IF job.inPlace THEN "recv" ELSE "send"
Zero == <<0, 0, 0>>
Garbage == <<0, -1, 0>>
Sum(k) ==
    LET e == memory[0][Buffer][k]
    IN  IF e[2] = 0 /\ \A q \in Ranks : memory[q][Buffer][k] = <<e[1], q, e[3]>>
        THEN <<e[1], job.n, e[3]>> ELSE Garbage

Touched(accesses) == UNION {a.at .. a.at + a.len - 1 : a \in accesses}
StoreTo(p, k, v) == [to |-> p, at |-> k, value |-> v]
Stores(r, accesses, offset) ==
    IF job.coll = "AllReduce"
    THEN {StoreTo(p, offset + k, Sum(offset + k)) : p \in Ranks, k \in Touched(accesses)}
    ELSE {StoreTo(p, offset + r * job.count + k, memory[r]["send"][offset + p * job.count + k]) :
             p \in Local(r), k \in Touched(accesses)}

Stored(mem, stores) ==
    [r \in Ranks |-> [mem[r] EXCEPT !["recv"] =
        [k \in 0 .. Elements - 1 |->
            IF \E s \in stores : s.to = r /\ s.at = k
            THEN (CHOOSE s \in stores : s.to = r /\ s.at = k).value ELSE @[k]]]]

(***************************************************************************)
(* The kernels.                                                            *)
(***************************************************************************)
Barrier == <<"arrive", "meet">>
Kernel ==
    CASE ~UsesGin -> Barrier \o <<"work">> \o Barrier
      [] UsesGin /\ job.impl = 4 -> <<"read">> \o Barrier \o <<"work", "signal", "flush">> \o Barrier
      [] UsesGin /\ job.impl = 3 -> <<"read">> \o Barrier \o <<"work", "signal", "flush">>
                                     \o (IF job.closing THEN Barrier ELSE <<>>)

Running(r) == stream[r] # <<>>
At(r, b, do) == Running(r) /\ step[r][b] <= Len(Kernel) /\ Kernel[step[r][b]] = do
Advance(r, b) == step' = [step EXCEPT ![r][b] = @ + 1]

ReadSignal(r, b) ==
    /\ At(r, b, "read")
    /\ before' = [before EXCEPT ![r][b] = signal[r][b]]
    /\ Advance(r, b)
    /\ UNCHANGED <<job, host, round, stream, task, loaded, memory, arrived, signal, flight>>

\* bar.sync: the block shows up, and goes on when this block of every rank has.
Arrive(r, b) ==
    /\ At(r, b, "arrive")
    /\ arrived' = [arrived EXCEPT ![r][b] = @ + 1]
    /\ Advance(r, b)
    /\ UNCHANGED <<job, host, round, stream, task, loaded, before, memory, signal, flight>>

Meet(r, b) ==
    /\ At(r, b, "meet")
    /\ \A q \in Ranks : arrived[q][b] >= arrived[r][b]
    /\ Advance(r, b)
    /\ UNCHANGED <<job, host, round, stream, task, loaded, before, memory, arrived, signal, flight>>

\* Puts come first: task is 0 until a thread that has some has posted them.
FirstTask(r, b, t) == IF Puts(r, b, t) = {} THEN 1 ELSE 0
Post(r, b, t) ==
    /\ At(r, b, "work") /\ task[r][b][t] = 0
    /\ task' = [task EXCEPT ![r][b][t] = 1]
    /\ flight' = flight \cup {[from |-> r, cta |-> b, to |-> p, iter |-> Head(stream[r]), data |-> <<>>] :
                                 p \in Puts(r, b, t)}
    /\ UNCHANGED <<job, host, round, stream, step, loaded, before, memory, arrived, signal>>

Todo(r, b, t) == Accesses(r, b, t, Head(stream[r]))
Due(r, b, t) ==
    /\ At(r, b, "work") /\ loaded[r][b][t] = {}
    /\ task[r][b][t] \in 1 .. Len(Todo(r, b, t))

\* External: CUDA accesses a vector at a multiple of its size and within memory,
\* or ends the kernel with an error, which the host sees in completeColl.
Legal(r, a) ==
    LET at == Offset(Head(stream[r])) + a.at
    IN  at >= 0 /\ at + a.len <= Elements /\ (a.len > 1 => at % job.vf = 0)
Trap(r, b, t) ==
    /\ Due(r, b, t) /\ \E a \in Todo(r, b, t)[task[r][b][t]] : ~Legal(r, a)
    /\ host' = [host EXCEPT ![r] = "failed"]
    /\ stream' = [stream EXCEPT ![r] = <<>>]
    /\ UNCHANGED <<job, round, blocks, memory, arrived, signal, flight>>

Load(r, b, t) ==
    /\ Due(r, b, t) /\ \A a \in Todo(r, b, t)[task[r][b][t]] : Legal(r, a)
    /\ loaded' = [loaded EXCEPT ![r][b][t] =
                     Stores(r, Todo(r, b, t)[task[r][b][t]], Offset(Head(stream[r])))]
    /\ UNCHANGED <<job, host, round, stream, step, task, before, memory, arrived, signal, flight>>

Store(r, b, t) ==
    /\ At(r, b, "work") /\ loaded[r][b][t] # {}
    /\ memory' = Stored(memory, loaded[r][b][t])
    /\ loaded' = [loaded EXCEPT ![r][b][t] = {}]
    /\ task' = [task EXCEPT ![r][b][t] = @ + 1]
    /\ UNCHANGED <<job, host, round, stream, step, before, arrived, signal, flight>>

\* The threads meet before the block waits, or comes to the barrier.
Worked(r, b) ==
    /\ At(r, b, "work")
    /\ \A t \in Threads : task[r][b][t] = Len(Todo(r, b, t)) + 1
    /\ Advance(r, b)
    /\ UNCHANGED <<job, host, round, stream, task, loaded, before, memory, arrived, signal, flight>>

WaitSignal(r, b) ==
    /\ At(r, b, "signal")
    /\ b = receivingCta(r) => signal[r][b] >= before[r][b] + Cardinality(Senders(r))
    /\ Advance(r, b)
    /\ UNCHANGED <<job, host, round, stream, task, loaded, before, memory, arrived, signal, flight>>

Flush(r, b) ==
    /\ At(r, b, "flush")
    /\ \A p \in flight : p.from = r /\ p.cta = b => p.data # <<>>
    /\ Advance(r, b)
    /\ UNCHANGED <<job, host, round, stream, task, loaded, before, memory, arrived, signal, flight>>

KernelEnds(r) ==
    /\ Running(r) /\ \A b \in Blocks : step[r][b] > Len(Kernel)
    /\ stream' = [stream EXCEPT ![r] = Tail(@)]
    /\ step' = [step EXCEPT ![r] = [b \in Blocks |-> 1]]
    /\ task' = [task EXCEPT ![r] = [b \in Blocks |-> [t \in Threads |-> FirstTask(r, b, t)]]]
    /\ UNCHANGED <<job, host, round, loaded, before, memory, arrived, signal, flight>>

(***************************************************************************)
(* The network reads a put's source, completing it locally, and later the  *)
(* peer sees data and signal.                                              *)
(***************************************************************************)
Chunk(r, p, iter) ==
    [k \in 1 .. job.count |-> memory[r]["send"][Offset(iter) + p * job.count + k - 1]]

Send(p) ==
    /\ p.data = <<>>
    /\ flight' = (flight \ {p}) \cup {[p EXCEPT !.data = Chunk(p.from, p.to, p.iter)]}
    /\ UNCHANGED <<job, host, round, stream, blocks, memory, arrived, signal>>

Deliver(p) ==
    /\ p.data # <<>>
    /\ flight' = flight \ {p}
    /\ memory' = Stored(memory, {StoreTo(p.to, Offset(p.iter) + p.from * job.count + k - 1, p.data[k]) :
                                    k \in 1 .. job.count})
    /\ signal' = [signal EXCEPT ![p.to][p.cta] = @ + 1]
    /\ UNCHANGED <<job, host, round, stream, blocks, arrived>>

(***************************************************************************)
(* BenchTime: initData, the launches of the warm-up and of the timed loop, *)
(* and a barrier; then initData, a launch and the check, twice.  The       *)
(* barriers before and within the timed loop are left out: without them    *)
(* more can happen.                                                        *)
(***************************************************************************)
Seed(rep) == IF rep = 0 THEN 99 ELSE 1
Goto(r, pc) == host' = [host EXCEPT ![r] = pc]

InitData(r) ==
    /\ host[r] = "init"
    /\ LET input(k) == <<Seed(round[r]), r, k - job.unalign>>
           in == job.unalign .. job.unalign + Total - 1
       IN  memory' = [memory EXCEPT ![r] =
              [send |-> IF job.inPlace THEN @["send"]
                        ELSE [k \in 0 .. Elements - 1 |-> IF k \in in THEN input(k) ELSE @["send"][k]],
               recv |-> [k \in 0 .. Elements - 1 |->
                            IF k \notin in THEN @["recv"][k] ELSE IF job.inPlace THEN input(k) ELSE Zero]]]
    /\ Goto(r, "launch")
    /\ round' = [round EXCEPT ![r] = @ + 1]
    /\ UNCHANGED <<job, stream, blocks, arrived, signal, flight>>

Launch(r) ==
    /\ host[r] = "launch"
    /\ stream' = [stream EXCEPT ![r] = IF round[r] = 1 THEN [i \in 1 .. Launches |-> i - 1] ELSE <<0>>]
    /\ Goto(r, "complete")
    /\ UNCHANGED <<job, round, blocks, memory, arrived, signal, flight>>

CompleteColl(r) ==
    /\ host[r] = "complete" /\ stream[r] = <<>>
    /\ Goto(r, IF round[r] = 1 THEN "barrier" ELSE "check")
    /\ UNCHANGED <<job, round, stream, blocks, memory, arrived, signal, flight>>

CheckData(r) ==
    /\ host[r] = "check"
    /\ Goto(r, "barrier")
    /\ UNCHANGED <<job, round, stream, blocks, memory, arrived, signal, flight>>

\* Barrier, and after the check the Allreduce of what was wrong.
HostsMeet ==
    /\ \A r \in Ranks : host[r] = "barrier"
    /\ host' = [r \in Ranks |-> IF round[r] = 3 THEN "end" ELSE "init"]
    /\ UNCHANGED <<job, round, stream, blocks, memory, arrived, signal, flight>>

Init ==
    /\ job \in Jobs
    /\ host = [r \in Ranks |-> "init"] /\ round = [r \in Ranks |-> 0]
    /\ stream = [r \in Ranks |-> <<>>]
    /\ step = [r \in Ranks |-> [b \in Blocks |-> 1]]
    /\ task = [r \in Ranks |-> [b \in Blocks |-> [t \in Threads |-> FirstTask(r, b, t)]]]
    /\ loaded = [r \in Ranks |-> [b \in Blocks |-> [t \in Threads |-> {}]]]
    /\ memory = [r \in Ranks |-> [send |-> [k \in 0 .. Elements - 1 |-> Zero],
                                  recv |-> [k \in 0 .. Elements - 1 |-> Zero]]]
    /\ arrived = [r \in Ranks |-> [b \in Blocks |-> 0]]
    /\ signal = [r \in Ranks |-> [b \in Blocks |-> 0]]
    /\ before = [r \in Ranks |-> [b \in Blocks |-> 0]]
    /\ flight = {}

Host(r) == InitData(r) \/ Launch(r) \/ CompleteColl(r) \/ CheckData(r)
Block(r, b) ==
    ReadSignal(r, b) \/ Arrive(r, b) \/ Meet(r, b) \/ Worked(r, b) \/ WaitSignal(r, b) \/ Flush(r, b)
Thread(r, b, t) == Post(r, b, t) \/ Load(r, b, t) \/ Store(r, b, t) \/ Trap(r, b, t)
Ended == (\A r \in Ranks : host[r] = "end") \/ \E r \in Ranks : host[r] = "failed"
Done == Ended /\ UNCHANGED vars

Next ==
    \/ \E r \in Ranks : Host(r) \/ KernelEnds(r)
    \/ \E r \in Ranks, b \in Blocks : Block(r, b)
    \/ \E r \in Ranks, b \in Blocks, t \in Threads : Thread(r, b, t)
    \/ \E p \in flight : Send(p) \/ Deliver(p)
    \/ HostsMeet
    \/ Done

Spec == Init /\ [][Next]_vars

(***************************************************************************)
(* Properties.                                                             *)
(***************************************************************************)

(***************************************************************************)
(* When a rank checks its result every element is what this round's input  *)
(* makes it: no rank is still writing, none has read or written before     *)
(* initData was through with its memory, and no put of another launch is   *)
(* taken for one of this.  The barriers of single blocks and the signals   *)
(* are all that sees to it, and GinAlltoAll has no closing barrier.        *)
(***************************************************************************)
Expected(r, k) ==
    LET seed == Seed(round[r] - 1)
    IN  IF job.coll = "AllReduce" THEN <<seed, job.n, k>>
        ELSE <<seed, k \div job.count, r * job.count + (k % job.count)>>
DataIsDelivered ==
    \A r \in Ranks : host[r] = "check" =>
        \A k \in 0 .. Total - 1 : memory[r]["recv"][job.unalign + k] = Expected(r, k)

(***************************************************************************)
(* The loops of the kernels, vectors, unrolled chunks and all, touch every *)
(* element exactly once and no other, wherever an iteration starts and for *)
(* any number of elements.  "Handle misaligned elements first" (all_reduce *)
(* .cu:225, 430) makes two exceptions for iterations that start between    *)
(* two vectors, and there are no more: a head of scalars longer than the   *)
(* buffer, where count - alignment_offset wraps around (210, 412), and the *)
(* head of the multimem kernel, which goes on to                           *)
(* max(alignment_offset, count), 432, so that the vectors and the rest, if *)
(* there are any, do everything but the head once more.                    *)
(***************************************************************************)
Workers == Ranks \X Blocks \X Threads
\* The workers that share the elements, and the accesses of one.
Team == {w \in Workers : job.coll = "AllReduce" \/ w[1] = 0}
AllOf(w, iter) == LET s == Accesses(w[1], w[2], w[3], iter) IN UNION {{i} \X s[i] : i \in 1 .. Len(s)}
Touching(k, iter) ==
    {y \in UNION {{w} \X AllOf(w, iter) : w \in Team} : k \in Touched({y[2][2]})}
Beginning == \A r \in Ranks : round[r] = 0
TouchedOnce(iter) ==
    /\ \A k \in 0 .. job.count - 1 : Cardinality(Touching(k, iter)) = 1
    /\ \A w \in Team : \A x \in AllOf(w, iter) : x[2].at >= 0 /\ x[2].at + x[2].len <= job.count
HeadOf(iter) == IF job.coll = "AllReduce" /\ job.impl \in {2, 4} THEN Offset(iter) % job.vf ELSE 0
HeadFits(iter) == HeadOf(iter) <= job.count /\ (job.impl = 4 => HeadOf(iter) \in {0, job.count})
EveryElementOnce ==
    Beginning /\ ~(job.coll = "AlltoAll" /\ job.impl = 3) =>
        \A iter \in 0 .. Launches - 1 : TouchedOnce(iter) <=> HeadFits(iter)

(***************************************************************************)
(* "Graceful handling of misaligned data with scalar fallback"             *)
(* (all_reduce.cu:184): a vector is only read and written where the        *)
(* hardware can, at a multiple of its size.                                *)
(***************************************************************************)
VectorsAreAligned ==
    Beginning => \A iter \in 0 .. Launches - 1 : \A w \in Workers : \A x \in AllOf(w, iter) :
        x[2].len > 1 => (Offset(iter) + x[2].at) % job.vf = 0
=============================================================================
