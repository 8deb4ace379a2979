----------------------------- MODULE Collectives -----------------------------
(***************************************************************************)
(* What the tests make the ranks do with their buffers: the counts and     *)
(* in-place offsets of every collective (its getCollByteCount), the input  *)
(* and the expected output (its initData), the operation itself (its       *)
(* runColl) and the comparison (CheckData), for one message size of one    *)
(* BenchTime.  An operation is carried out by the library ("lib"), by      *)
(* groups of ncclSend and ncclRecv written in the tests ("p2p"), or by the *)
(* one-sided puts and signal waits of option -H ("rma").                   *)
(*                                                                         *)
(* A position counts elements of the type under test.  An element is the   *)
(* triple <<seed, rank, index>> that ncclVerifiablePrepareInput derives    *)
(* its value from; its rank is n for the reduction over all n ranks.       *)
(***************************************************************************)
EXTENDS Integers, FiniteSets, FiniteSetsExt

CONSTANTS Jobs,      \* the tests that may be run, see JobsAssumption
          MaxElts,   \* args->maxbytes in elements, the size of a buffer
          Align,     \* elements in 16 bytes, 16/eltSize
          NumSig,    \* NUM_RMA_SIG
          WarmUps,   \* iterations before the check (warm-up and timed ones)
          Matrix     \* Matrix[i][j], the elements of alltoallv's traffic matrix

Rooted   == {"Broadcast", "Gather", "Scatter", "Reduce"}
RmaColls == {"SendRecv", "AlltoAll", "AllGather", "Broadcast", "Gather", "Scatter"}
P2pColls == {"SendRecv", "AlltoAll", "AlltoAllv", "Gather", "Scatter", "HyperCube"}
LibColls == {"AllGather", "AllReduce", "Broadcast", "Reduce", "ReduceScatter"}

\* A job: collective, implementation, ranks, elements asked for, root, in or
\* out of place, RMA contexts (-H), pattern of alltoallv.
JobsAssumption ==
    \A j \in Jobs :
        /\ \/ j.impl = "rma" /\ j.coll \in RmaColls
           \/ j.impl = "p2p" /\ j.coll \in P2pColls
           \/ j.impl = "lib" /\ j.coll \in LibColls
        /\ j.n \in Nat \ {0, 1}
        /\ j.count \in 0 .. MaxElts
        /\ j.root \in 0 .. j.n - 1
        /\ j.inPlace \in BOOLEAN
        /\ j.nctx \in Nat \ {0}
        /\ j.pattern \in {"uniform", "distance", "matrix"}
ASSUME JobsAssumption

VARIABLES
    job,      \* the test, the same on every rank
    args,     \* its counts and in-place offsets, the fields setupArgs sets
    phase,    \* phase[r], what rank r does next (see Phases)
    round,    \* round[r], 0 before BenchTime's check, 1 in it
    iter,     \* iter[r], iteration within the round
    stage,    \* stage[r], group of sends and receives within an iteration
    mem,      \* mem[r]["send"], mem[r]["recv"]: the two buffers
    expected, \* expected[r], args->expected
    puts,     \* puts that have not arrived yet
    signals,  \* signals[r][k], signals that arrived and were not waited for
    group,    \* group[r], sends and receives posted and not carried out yet
    wrong,    \* wrong[r], CheckData found a difference
    overtaken \* overtaken[r], history: a put arrived before initData was over

vars == <<job, args, phase, round, iter, stage, mem, expected, puts, signals, group,
          wrong, overtaken>>

Ranks == 0 .. job.n - 1
Index == 0 .. MaxElts - 1
Phases == {"fill", "post", "wait", "barrier", "check", "end"}

-----------------------------------------------------------------------------
(* Counts.                                                                 *)

AlignDown(k) == k - (k % Align)         \* & ~(16/eltSize - 1)
PerRank(count, n) == AlignDown(count \div n)

Layout(sendcount, recvcount, paramcount, sendIn, recvIn) ==
    [send |-> sendcount, recv |-> recvcount, param |-> paramcount,
     sendIn |-> sendIn, recvIn |-> recvIn]

\* Every rank contributes a chunk at its place in the result.
AllGatherLayout(c, n) == LET b == PerRank(c, n) IN Layout(b, b * n, b, b, 0)
GatherLayout(c, n)    == LET b == PerRank(c, n) IN Layout(b, b * n, b, b, 0)
HyperCubeLayout(c, n) == LET b == PerRank(c, n) IN Layout(b, b * n, b, b, 0)
\* Every rank receives its chunk of the input.
ScatterLayout(c, n)       == LET b == PerRank(c, n) IN Layout(b * n, b, b, 0, b)
ReduceScatterLayout(c, n) == LET b == PerRank(c, n) IN Layout(b * n, b, b, 0, b)
AlltoAllLayout(c, n) == LET b == PerRank(c, n) IN Layout(b * n, b * n, b, 0, 0)
\* Input and result are of the same shape.
AllReduceLayout(c) == Layout(c, c, c, 0, 0)
BroadcastLayout(c) == Layout(c, c, c, 0, 0)
ReduceLayout(c)    == Layout(c, c, c, 0, 0)
SendRecvLayout(c)  == Layout(c, c, c, 0, 0)

\* AlltoAllvGetPeerBytesDistanceWeighted for spreads 0 and 1.
DistanceWeighted(i, j, n, total) ==
    LET distance == (j - i + n) % n
    IN  IF job.pattern = "uniform"
          THEN AlignDown(total \div n)
          ELSE AlignDown((distance * total) \div ((n * (n - 1)) \div 2))

\* Elements rank i sends to rank j when each has total of them in all.
PeerElts(i, j, total) ==
    IF job.pattern = "matrix" THEN AlignDown(Matrix[i][j])
                              ELSE DistanceWeighted(i, j, job.n, total)

SumOver(op(_), S) == MapThenSumSet(op, S)
MatrixRow(i)    == SumOver(LAMBDA j : PeerElts(i, j, 0), Ranks)
MatrixColumn(i) == SumOver(LAMBDA j : PeerElts(j, i, 0), Ranks)
\* AlltoAllvComputeMaxCounts: of a generated pattern rank 0 stands for all.
ComputeMaxCounts(total) ==
    IF job.pattern = "matrix"
      THEN [send |-> Max({MatrixRow(i) : i \in Ranks}), recv |-> Max({MatrixColumn(i) : i \in Ranks})]
      ELSE LET rankTotal == SumOver(LAMBDA j : PeerElts(0, j, total), Ranks)
           IN  [send |-> rankTotal, recv |-> rankTotal]

AlltoAllvLayout(c, n) ==
    LET b   == IF job.pattern = "matrix" THEN 0 ELSE PerRank(c, n)
        max == ComputeMaxCounts(b * n)
    IN  Layout(max.send, max.recv, b, 0, 0)

\* getCollByteCount of the test, with its counts for c elements.
LayoutFor(c) ==
    LET n == job.n
    IN  CASE job.coll = "AllGather"     -> AllGatherLayout(c, n)
          [] job.coll = "Gather"        -> GatherLayout(c, n)
          [] job.coll = "HyperCube"     -> HyperCubeLayout(c, n)
          [] job.coll = "Scatter"       -> ScatterLayout(c, n)
          [] job.coll = "ReduceScatter" -> ReduceScatterLayout(c, n)
          [] job.coll = "AlltoAll"      -> AlltoAllLayout(c, n)
          [] job.coll = "AlltoAllv"     -> AlltoAllvLayout(c, n)
          [] job.coll = "AllReduce"     -> AllReduceLayout(c)
          [] job.coll = "Broadcast"     -> BroadcastLayout(c)
          [] job.coll = "Reduce"        -> ReduceLayout(c)
          [] job.coll = "SendRecv"      -> SendRecvLayout(c)

\* setupArgs
SetupArgs == LayoutFor(job.count)
\* Elements allocated for args->expected, whatever size is tested
ExpectedElts == LayoutFor(MaxElts).recv

\* startColl: each iteration works further up in the buffers, round and round.
Total == Max({args.send, args.recv})
Steps == IF Total = 0 THEN 1 ELSE MaxElts \div Total
ShiftOnAndOn(i) == Total * i
Shift(i) == Total * (i % Steps)

\* Where rank r's operation reads and writes: a buffer and a position in it.
At(buff, pos) == [buff |-> buff, pos |-> pos]
SendAt(r, i) == IF job.inPlace THEN At("recv", Shift(i) + args.sendIn * r)
                               ELSE At("send", Shift(i))
RecvAt(r, i) == At("recv", Shift(i) + (IF job.inPlace THEN args.recvIn * r ELSE 0))
Beyond(a, k) == At(a.buff, a.pos + k)

-----------------------------------------------------------------------------
(* Input and expected output, initData.                                    *)

Zero    == <<0, 0, 0>>
Garbage == <<0, -1, 0>>

\* Buffer f with InitData(pos, len, offset, ..., seed, nranks, rank) applied.
Filled(f, in) ==
    [k \in Index |-> IF k \in in.pos .. in.pos + in.len - 1
                       THEN <<in.seed, in.rank, in.offset + k - in.pos>> ELSE f[k]]

\* The first of the elements rank i has for rank j, in i's input, j's result.
SendOffset(i, j, total) == SumOver(LAMBDA k : PeerElts(i, k, total), 0 .. j - 1)
RecvOffset(i, j, total) == SumOver(LAMBDA k : PeerElts(k, j, total), 0 .. i - 1)
AlltoAllvTotal == args.param * job.n

Data(len, pos, offset, seed, rank) ==
    [len |-> len, pos |-> IF job.inPlace THEN pos ELSE 0,
     offset |-> offset, seed |-> seed, rank |-> rank]
RootData(r, rep) == Data(IF r = job.root THEN args.send ELSE 0, 0, 0, rep, 0)

\* The input of rank r.
Input(r, rep) ==
    CASE job.coll \in {"AllGather", "HyperCube"} ->
             Data(args.send, r * args.send, 0, 33 * rep + r, 0)
      [] job.coll = "Gather"    -> Data(args.send, r * args.send, r * args.send, rep, 0)
      [] job.coll = "SendRecv"  -> Data(args.send, 0, r * args.send, rep, 0)
      [] job.coll = "AlltoAll"  -> Data(args.send, 0, 0, 33 * rep + r, 0)
      [] job.coll = "AlltoAllv" ->
             Data(SendOffset(r, job.n, AlltoAllvTotal), 0, 0, 33 * rep + r, 0)
      [] job.coll \in {"Scatter", "Broadcast"} -> RootData(r, rep)
      [] job.coll \in {"AllReduce", "Reduce", "ReduceScatter"} ->
             Data(args.send, 0, 0, rep, r)

\* The k-th element rank r should end up with; recv is its receive buffer
\* with the input in it.
AllGatherExpected(k, rep) == <<33 * rep + (k \div args.send), 0, k % args.send>>
HyperCubeExpected(k, rep) == AllGatherExpected(k, rep)
GatherExpected(r, k, rep, recv) == IF r = job.root THEN <<rep, 0, k>> ELSE recv[k]
ScatterExpected(r, k, rep) == <<rep, 0, r * args.recv + k>>
BroadcastExpected(k, rep)  == <<rep, 0, k>>
SendRecvExpected(r, k, rep) ==
    LET peer == (r - 1 + job.n) % job.n IN <<rep, 0, peer * args.recv + k>>
AlltoAllExpected(r, k, rep) ==
    LET partcount == args.send \div job.n
    IN  <<33 * rep + (k \div partcount), 0, r * partcount + (k % partcount)>>
AlltoAllvExpected(r, k, rep) ==
    LET total == AlltoAllvTotal
        Src == {q \in Ranks : /\ RecvOffset(q, r, total) <= k
                              /\ k < RecvOffset(q, r, total) + PeerElts(q, r, total)}
    IN  IF Src = {} THEN Zero
        ELSE LET src == Max(Src)
             IN  <<33 * rep + src, 0,
                   SendOffset(src, r, total) + k - RecvOffset(src, r, total)>>
AllReduceExpected(k, rep) == <<rep, job.n, k>>
ReduceExpected(r, k, rep, recv) == IF r = job.root THEN <<rep, job.n, k>> ELSE recv[k]
ReduceScatterExpected(r, k, rep) == <<rep, job.n, r * args.recv + k>>

ExpectedAt(r, k, rep, recv) ==
    CASE job.coll = "AllGather"     -> AllGatherExpected(k, rep)
      [] job.coll = "HyperCube"     -> HyperCubeExpected(k, rep)
      [] job.coll = "Gather"        -> GatherExpected(r, k, rep, recv)
      [] job.coll = "Scatter"       -> ScatterExpected(r, k, rep)
      [] job.coll = "Broadcast"     -> BroadcastExpected(k, rep)
      [] job.coll = "SendRecv"      -> SendRecvExpected(r, k, rep)
      [] job.coll = "AlltoAll"      -> AlltoAllExpected(r, k, rep)
      [] job.coll = "AlltoAllv"     -> AlltoAllvExpected(r, k, rep)
      [] job.coll = "AllReduce"     -> AllReduceExpected(k, rep)
      [] job.coll = "Reduce"        -> ReduceExpected(r, k, rep, recv)
      [] job.coll = "ReduceScatter" -> ReduceScatterExpected(r, k, rep)

\* args->reportErrors: these have no in-place form
ReportErrors == ~(job.inPlace /\ job.coll \in {"SendRecv", "AlltoAll", "AlltoAllv"})

-----------------------------------------------------------------------------
(* Option -H: ncclPutSignal and ncclWaitSignal.                            *)

\* A put of len elements on its way from rank r to rank t.
Put(r, i, t, src, dstpos, len, sig, ctx) ==
    [from |-> r, to |-> t, src |-> src, dst |-> At("recv", dstpos), len |-> len,
     key |-> <<r, sig, ctx>>, round |-> round[r], iter |-> i]

\* In place a rank's own chunk is there already.
AllGatherPeers(r, i) ==
    IF SendAt(r, i) = Beyond(RecvAt(r, i), r * args.param) THEN Ranks \ {r} ELSE Ranks
AllGatherPuts(r, i) ==
    {Put(r, i, t, SendAt(r, i), RecvAt(r, i).pos + r * args.param, args.param,
         r % NumSig, (r + t) % job.nctx) : t \in AllGatherPeers(r, i)}
AllGatherWaits(r, i) ==
    {<<p, p % NumSig, (p + r) % job.nctx>> : p \in AllGatherPeers(r, i)}

AlltoAllPuts(r, i) ==
    {Put(r, i, t, Beyond(SendAt(r, i), t * args.param),
         RecvAt(r, i).pos + r * args.param, args.param,
         r % NumSig, (r + t) % job.nctx) : t \in Ranks}
AlltoAllWaits(r) == {<<p, p % NumSig, (p + r) % job.nctx>> : p \in Ranks}

BroadcastPuts(r, i) ==
    {Put(r, i, t, SendAt(r, i), RecvAt(r, i).pos, args.param,
         t % NumSig, (r + t) % job.nctx) : t \in IF r = job.root THEN Ranks ELSE {}}
BroadcastWaits(r) == {<<job.root, r % NumSig, (job.root + r) % job.nctx>>}

GatherPuts(r, i) ==
    {Put(r, i, job.root, SendAt(r, i), RecvAt(r, i).pos + r * args.param, args.param,
         r % NumSig, (r + job.root) % job.nctx)}
GatherWaitsForOthers(r) ==
    {<<p, p % NumSig, (p + job.root) % job.nctx>> :
        p \in IF r = job.root THEN Ranks \ {r} ELSE {}}
GatherWaits(r) ==
    {<<p, p % NumSig, (p + job.root) % job.nctx>> : p \in IF r = job.root THEN Ranks ELSE {}}

\* In place the root keeps its chunk, and its own receive position, from which
\* the others' are computed, is that of its chunk.
ScatterNeverInPlace(r, i) == FALSE
ScatterInPlace(r, i) == RecvAt(r, i) = Beyond(SendAt(r, i), r * args.param)
ScatterPeers(r, i) ==
    IF r # job.root THEN {} ELSE IF ScatterInPlace(r, i) THEN Ranks \ {r} ELSE Ranks
ScatterPuts(r, i) ==
    {Put(r, i, t, Beyond(SendAt(r, i), t * args.param),
         RecvAt(r, i).pos + (IF ScatterInPlace(r, i) THEN (t - r) * args.param ELSE 0),
         args.param, t % NumSig, (r + t) % job.nctx) : t \in ScatterPeers(r, i)}
ScatterWaits(r, i) ==
    IF r = job.root /\ ScatterInPlace(r, i) THEN {}
    ELSE {<<job.root, r % NumSig, (job.root + r) % job.nctx>>}

\* The message of sendrecv is split over the contexts.
Chunk(c) == (args.param \div job.nctx) + (IF c < args.param % job.nctx THEN 1 ELSE 0)
Contexts == {c \in 0 .. job.nctx - 1 : Chunk(c) # 0}
ElemOff(c) == SumOver(Chunk, 0 .. c - 1)
SendRecvPuts(r, i) ==
    {Put(r, i, (r + 1) % job.n, Beyond(SendAt(r, i), ElemOff(c)),
         RecvAt(r, i).pos + ElemOff(c), Chunk(c), c % NumSig, c) : c \in Contexts}
SendRecvWaits(r) == {<<(r - 1 + job.n) % job.n, c % NumSig, c>> : c \in Contexts}

RmaPuts(r, i) ==
    CASE job.coll = "AllGather" -> AllGatherPuts(r, i)
      [] job.coll = "AlltoAll"  -> AlltoAllPuts(r, i)
      [] job.coll = "Broadcast" -> BroadcastPuts(r, i)
      [] job.coll = "Gather"    -> GatherPuts(r, i)
      [] job.coll = "Scatter"   -> ScatterPuts(r, i)
      [] job.coll = "SendRecv"  -> SendRecvPuts(r, i)

RmaWaits(r, i) ==
    CASE job.coll = "AllGather" -> AllGatherWaits(r, i)
      [] job.coll = "AlltoAll"  -> AlltoAllWaits(r)
      [] job.coll = "Broadcast" -> BroadcastWaits(r)
      [] job.coll = "Gather"    -> GatherWaits(r)
      [] job.coll = "Scatter"   -> ScatterWaits(r, i)
      [] job.coll = "SendRecv"  -> SendRecvWaits(r)

-----------------------------------------------------------------------------
(* Groups of ncclSend and ncclRecv.                                        *)

Send(t, src, len) == [to |-> t, src |-> src, len |-> len]
Recv(q, dst, len) == [from |-> q, dst |-> dst, len |-> len]
NoGroup == [sends |-> {}, recvs |-> {}]

SendRecvGroup(r, i) ==
    [sends |-> {Send((r + 1) % job.n, SendAt(r, i), args.param)},
     recvs |-> {Recv((r - 1 + job.n) % job.n, RecvAt(r, i), args.param)}]
AlltoAllGroup(r, i) ==
    [sends |-> {Send(t, Beyond(SendAt(r, i), t * args.param), args.param) : t \in Ranks},
     recvs |-> {Recv(q, Beyond(RecvAt(r, i), q * args.param), args.param) : q \in Ranks}]
GatherGroup(r, i) ==
    IF args.param = 0 THEN NoGroup
    ELSE [sends |-> {Send(job.root, SendAt(r, i), args.param)},
          recvs |-> {Recv(q, Beyond(RecvAt(r, i), q * args.param), args.param) :
                        q \in IF r = job.root THEN Ranks ELSE {}}]
ScatterGroup(r, i) ==
    IF args.param = 0 THEN NoGroup
    ELSE [sends |-> {Send(t, Beyond(SendAt(r, i), t * args.param), args.param) :
                        t \in IF r = job.root THEN Ranks ELSE {}},
          recvs |-> {Recv(job.root, RecvAt(r, i), args.param)}]
AlltoAllvGroup(r, i) ==
    LET total == AlltoAllvTotal
    IN  [sends |-> {Send(t, Beyond(SendAt(r, i), SendOffset(r, t, total)), PeerElts(r, t, total)) :
                       t \in {t \in Ranks : PeerElts(r, t, total) > 0}},
         recvs |-> {Recv(q, Beyond(RecvAt(r, i), RecvOffset(q, r, total)), PeerElts(q, r, total)) :
                       q \in {q \in Ranks : PeerElts(q, r, total) > 0}}]

\* Partners differ in the bit of mask; what has been collected so far begins
\* at the rank whose lower bits are clear.
Flip(r, mask) == IF (r \div mask) % 2 = 0 THEN r + mask ELSE r - mask
ClearBelow(r, mask) == r - (r % mask)
HyperCubeGroup(r, i, g) ==
    LET mask  == 2 ^ g
        s     == ClearBelow(r, mask)
        chunk(k) == Beyond(RecvAt(r, i), k * args.param)
    IN  [sends |-> {Send(Flip(r, mask), chunk(s), args.param * mask)},
         recvs |-> {Recv(Flip(r, mask), chunk(Flip(s, mask)), args.param * mask)}]

P2pGroup(r, i, g) ==
    CASE job.coll = "SendRecv"  -> SendRecvGroup(r, i)
      [] job.coll = "AlltoAll"  -> AlltoAllGroup(r, i)
      [] job.coll = "Gather"    -> GatherGroup(r, i)
      [] job.coll = "Scatter"   -> ScatterGroup(r, i)
      [] job.coll = "AlltoAllv" -> AlltoAllvGroup(r, i)
      [] job.coll = "HyperCube" -> HyperCubeGroup(r, i, g)

\* Groups in an iteration.
Stages == IF job.coll = "HyperCube"
            THEN Cardinality({g \in 0 .. job.n : 2 ^ g < job.n}) ELSE 1

-----------------------------------------------------------------------------
(* The library: memory, transfers, collectives.                            *)

\* Memory m of all ranks after len elements went from src of rank q to dst of r.
Copied(m, q, src, r, dst, len) ==
    [m EXCEPT ![r][dst.buff] =
        [k \in Index |-> IF k \in dst.pos .. dst.pos + len - 1
                           THEN m[q][src.buff][src.pos + k - dst.pos] ELSE @[k]]]

\* Element k of what rank q contributes to the collective.
Contribution(q, k) == LET a == SendAt(q, iter[q]) IN mem[q][a.buff][a.pos + k]
Reduced(k) ==
    LET e == Contribution(0, k)
    IN  IF \A q \in Ranks : Contribution(q, k) = <<e[1], q, e[3]>>
          THEN <<e[1], job.n, e[3]>> ELSE Garbage

\* Element k that the library's collective delivers to rank r, and how many.
LibResult(r, k) ==
    CASE job.coll = "AllGather"     -> Contribution(k \div args.param, k % args.param)
      [] job.coll = "Broadcast"     -> Contribution(job.root, k)
      [] job.coll \in {"AllReduce", "Reduce"} -> Reduced(k)
      [] job.coll = "ReduceScatter" -> Reduced(r * args.param + k)
LibCount(r) ==
    CASE job.coll = "AllGather" -> job.n * args.param
      [] job.coll = "Reduce"    -> IF r = job.root THEN args.param ELSE 0
      [] OTHER                  -> args.param

-----------------------------------------------------------------------------
(* The ranks.                                                              *)

\* What getBuffSize and runTest accept: hypercube only powers of two,
\* alltoallv's matrix only one size, large enough for every rank.
Accepted ==
    /\ job.coll = "HyperCube" => \E g \in 1 .. job.n : job.n = 2 ^ g
    /\ job.coll = "AlltoAllv" /\ job.pattern = "matrix" =>
          /\ job.count = MaxElts
          /\ Max({args.send, args.recv}) <= MaxElts

Init ==
    /\ job \in Jobs
    /\ args = SetupArgs
    /\ Accepted
    /\ phase = [r \in Ranks |-> "fill"]
    /\ round = [r \in Ranks |-> 0]
    /\ iter = [r \in Ranks |-> 0]
    /\ stage = [r \in Ranks |-> 0]
    /\ mem = [r \in Ranks |-> [b \in {"send", "recv"} |-> [k \in Index |-> Zero]]]
    /\ expected = [r \in Ranks |-> [k \in 0 .. args.recv - 1 |-> Zero]]
    /\ puts = {}
    /\ signals = [r \in Ranks |->
          [key \in Ranks \X (0 .. NumSig - 1) \X (0 .. job.nctx - 1) |-> 0]]
    /\ group = [r \in Ranks |-> NoGroup]
    /\ wrong = [r \in Ranks |-> FALSE]
    /\ overtaken = [r \in Ranks |-> FALSE]

\* initData: clear the result, write the input, predict the result.
Fill(r) ==
    LET rep     == IF round[r] = 0 THEN 99 ELSE 1
        in      == Input(r, rep)
        cleared == [k \in Index |-> IF k < args.recv THEN Zero ELSE mem[r]["recv"][k]]
        send    == IF job.inPlace THEN mem[r]["send"] ELSE Filled(mem[r]["send"], in)
        recv    == IF job.inPlace THEN Filled(cleared, in) ELSE cleared
    IN  /\ phase[r] = "fill"
        /\ mem' = [mem EXCEPT ![r] = [send |-> send, recv |-> recv]]
        /\ expected' = [expected EXCEPT ![r] =
              [k \in 0 .. args.recv - 1 |-> ExpectedAt(r, k, rep, recv)]]
        /\ phase' = [phase EXCEPT ![r] = "post"]
        /\ UNCHANGED <<job, args, round, iter, stage, puts, signals, group, wrong, overtaken>>

\* runColl: the stream of rank r begins the operation, or its next group.
\* hypercube first brings the rank's own chunk to its place in the result.
OwnChunk(r) ==
    IF job.coll = "HyperCube" /\ stage[r] = 0
      THEN Copied(mem, r, SendAt(r, iter[r]), r,
                  Beyond(RecvAt(r, iter[r]), r * args.param), args.param)
      ELSE mem
Post(r) ==
    /\ phase[r] = "post"
    /\ phase' = [phase EXCEPT ![r] = "wait"]
    /\ puts' = IF job.impl = "rma" THEN puts \cup RmaPuts(r, iter[r]) ELSE puts
    /\ group' = IF job.impl = "p2p"
                  THEN [group EXCEPT ![r] = P2pGroup(r, iter[r], stage[r])] ELSE group
    /\ mem' = OwnChunk(r)
    /\ UNCHANGED <<job, args, round, iter, stage, expected, signals, wrong, overtaken>>

\* A put arrives, in any order and whatever its target is doing, and its
\* signal with it.
Deliver(p) ==
    /\ p \in puts
    /\ puts' = puts \ {p}
    /\ mem' = Copied(mem, p.from, p.src, p.to, p.dst, p.len)
    /\ signals' = [signals EXCEPT ![p.to][p.key] = @ + 1]
    /\ overtaken' = [overtaken EXCEPT ![p.to] =
          @ \/ (phase[p.to] = "fill" /\ round[p.to] = 1)]
    /\ UNCHANGED <<job, args, phase, round, iter, stage, expected, group, wrong>>

\* What rank r receives in its group has been sent: the data moves.
Exchange(r) ==
    LET sent(x) == {y \in group[x.from].sends : y.to = r /\ y.len = x.len}
        source(x) == CHOOSE y \in sent(x) : TRUE
        moved == FoldSet(LAMBDA x, m : Copied(m, x.from, source(x).src, r, x.dst, x.len),
                         mem, group[r].recvs)
        From == {x.from : x \in group[r].recvs}
    IN  /\ group[r].recvs # {}
        /\ \A x \in group[r].recvs : sent(x) # {}
        /\ mem' = moved
        /\ group' = [q \in Ranks |->
              [sends |-> IF q \in From THEN {y \in group[q].sends : y.to # r}
                                       ELSE group[q].sends,
               recvs |-> IF q = r THEN {} ELSE group[q].recvs]]
        /\ UNCHANGED <<job, args, phase, round, iter, stage, expected, puts, signals, wrong, overtaken>>

\* Rank r goes on to its next group, iteration or phase of BenchTime.
Iterations(rnd) == IF rnd = 0 THEN WarmUps ELSE 1
NextPhase(r) ==
    IF stage[r] + 1 < Stages \/ iter[r] + 1 < Iterations(round[r]) THEN "post"
    ELSE IF round[r] = 0 THEN "barrier" ELSE "check"
NextStage(r) == IF stage[r] + 1 < Stages THEN stage[r] + 1 ELSE 0
NextIter(r) ==
    IF stage[r] + 1 < Stages THEN iter[r]
    ELSE IF iter[r] + 1 < Iterations(round[r]) THEN iter[r] + 1 ELSE 0
GoOn(S) ==
    /\ phase' = [r \in Ranks |-> IF r \in S THEN NextPhase(r) ELSE phase[r]]
    /\ stage' = [r \in Ranks |-> IF r \in S THEN NextStage(r) ELSE stage[r]]
    /\ iter'  = [r \in Ranks |-> IF r \in S THEN NextIter(r) ELSE iter[r]]

\* ncclWaitSignal has what it waits for, one signal of each.
WaitSignal(r) ==
    LET waits == RmaWaits(r, iter[r])
    IN  /\ job.impl = "rma" /\ phase[r] = "wait"
        /\ \A key \in waits : signals[r][key] >= 1
        /\ signals' = [signals EXCEPT ![r] =
              [key \in DOMAIN @ |-> @[key] - (IF key \in waits THEN 1 ELSE 0)]]
        /\ GoOn({r})
        /\ UNCHANGED <<job, args, round, mem, expected, puts, group, wrong, overtaken>>

\* ncclGroupEnd's operations are over.
GroupDone(r) ==
    /\ job.impl = "p2p" /\ phase[r] = "wait"
    /\ group[r] = NoGroup
    /\ GoOn({r})
    /\ UNCHANGED <<job, args, round, mem, expected, puts, signals, group, wrong, overtaken>>

\* The library's collective, once every rank has called it.
RunLibrary ==
    /\ job.impl = "lib"
    /\ \A r \in Ranks : phase[r] = "wait"
    /\ mem' = [r \in Ranks |-> [mem[r] EXCEPT !["recv"] =
          LET at == RecvAt(r, iter[r]).pos
          IN  [k \in Index |-> IF k \in at .. at + LibCount(r) - 1
                                 THEN LibResult(r, k - at) ELSE @[k]]]]
    /\ GoOn(Ranks)
    /\ UNCHANGED <<job, args, round, expected, puts, signals, group, wrong, overtaken>>

\* completeColl is over everywhere: the Barrier before the check.  Nothing
\* separates initData of the check from its startColl.
Meet ==
    /\ \A r \in Ranks : phase[r] = "barrier"
    /\ phase' = [r \in Ranks |-> "fill"]
    /\ round' = [r \in Ranks |-> 1]
    /\ UNCHANGED <<job, args, iter, stage, mem, expected, puts, signals, group, wrong, overtaken>>

\* CheckData
Differs(r) ==
    LET at == IF job.inPlace THEN args.recvIn * r ELSE 0
    IN  \E k \in 0 .. args.recv - 1 : mem[r]["recv"][at + k] # expected[r][k]
Check(r) ==
    /\ phase[r] = "check"
    /\ wrong' = [wrong EXCEPT ![r] = ReportErrors /\ Differs(r)]
    /\ phase' = [phase EXCEPT ![r] = "end"]
    /\ UNCHANGED <<job, args, round, iter, stage, mem, expected, puts, signals, group, overtaken>>

Done == (\A r \in Ranks : phase[r] = "end") /\ UNCHANGED vars

Next ==
    \/ \E r \in Ranks : \/ Fill(r) \/ Post(r) \/ Exchange(r) \/ WaitSignal(r)
                        \/ GroupDone(r) \/ Check(r)
    \/ \E p \in puts : Deliver(p)
    \/ RunLibrary \/ Meet \/ Done

Spec == Init /\ [][Next]_vars

-----------------------------------------------------------------------------
(* Properties.                                                             *)

Elements == Nat \X (-1 .. job.n) \X Nat

TypeOK ==
    /\ job \in Jobs
    /\ \A k \in {"send", "recv", "param"} : args[k] \in 0 .. MaxElts
    /\ phase \in [Ranks -> Phases]
    /\ round \in [Ranks -> {0, 1}]
    /\ \A r \in Ranks : /\ iter[r] \in 0 .. Iterations(round[r]) - 1
                        /\ stage[r] \in 0 .. Stages - 1
                        /\ \A b \in {"send", "recv"}, k \in Index : mem[r][b][k] \in Elements
                        /\ \A key \in DOMAIN signals[r] : signals[r][key] \in Nat
    /\ \A p \in puts : p.from \in Ranks /\ p.to \in Ranks /\ p.key \in DOMAIN signals[p.to]
    /\ \A r \in Ranks : /\ \A y \in group[r].sends : y.to \in Ranks
                        /\ \A x \in group[r].recvs : x.from \in Ranks
    /\ wrong \in [Ranks -> BOOLEAN]
    /\ overtaken \in [Ranks -> BOOLEAN]

\* A check alarms only when initData was overtaken by a put of a faster rank:
\* otherwise what initData predicts is what the operation delivers, whatever the
\* collective, the root, the implementation, in place or not, in whatever order
\* puts arrive, and no earlier iteration reaches into the check.
AlarmOnlyIfOvertaken == \A r \in Ranks : wrong[r] => overtaken[r]

\* CheckData never blames data that was delivered as sent (README, -c and -H).
NoFalseAlarm == \A r \in Ranks : ~wrong[r]

\* Every access is inside the buffers: the shifted windows of all iterations,
\* in-place chunks, puts, sends and receives; the result fits args->expected,
\* which is allocated for another count and element size; and there is room for
\* at least one window, or the shift would divide by zero.
InBuffer(at, len) == len = 0 \/ (at.pos >= 0 /\ at.pos + len <= MaxElts)
WithinBuffers ==
    /\ Steps >= 1
    /\ args.recv <= ExpectedElts
    /\ \A r \in Ranks :
          /\ InBuffer(SendAt(r, iter[r]), args.send)
          /\ InBuffer(RecvAt(r, iter[r]), args.recv)
          /\ \A y \in group[r].sends : InBuffer(y.src, y.len)
          /\ \A x \in group[r].recvs : InBuffer(x.dst, x.len)
    /\ \A p \in puts : InBuffer(p.src, p.len) /\ InBuffer(p.dst, p.len)

\* A rank that has completed its operations has had every put made to it and
\* has used up every signal: neither reaches into initData or the waits of the
\* round that follows.
CompletedIsQuiet ==
    \A r \in Ranks : phase[r] \in {"barrier", "check", "end"} =>
        /\ \A p \in puts : p.to # r
        /\ \A key \in DOMAIN signals[r] : signals[r][key] = 0
=============================================================================
