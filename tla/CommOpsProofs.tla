--------------------------- MODULE CommOpsProofs ---------------------------
(***************************************************************************)
(* Machine-checked proofs about src/comm_ops.cu for every number of ranks, *)
(* every sweep and every option record.                                    *)
(*                                                                         *)
(* What the ranks do is the parts of one score (Score): a slot holds, for  *)
(* each rank, the call it makes or a rest.  In a slot all members of a     *)
(* communicator make its collective call together, and all ranks below the *)
(* size under test stop or skip the same timer (InHarmony, Allotted).  The *)
(* timeline of the score is what a rank that keeps up with it has counted  *)
(* and recorded after each slot, flushes included.  The inductive          *)
(* invariant says where in the score each rank stands and that its         *)
(* counters and buffers are those of the timeline there (StandsAt).  Two   *)
(* ranks in the same call of a communicator then stand at the same slot.   *)
(*                                                                         *)
(* The last part is about the sweep over sizes (CommSweep): whatever the   *)
(* bounds and the number, a round goes on towards the end of the sweep,    *)
(* and no size outside the bounds is tested.                               *)
(***************************************************************************)
EXTENDS CommOps, CommSweep, FoldLemmas, SequenceTheorems

-----------------------------------------------------------------------------
(* The calls of the tests.                                                 *)

Collective == Blocking \cup {"ncclAllReduce"}
Ordinary == Collective \cup {"local", "skip", "cudaStreamSynchronize"}
Names == {<<>>, <<"world">>}
           \cup ({"sub", "parent", "smaller", "color"} \X Nat)
           \cup ({"init", "bigger"} \X Nat \X Nat)
           \cup ({"child"} \X Nat \X Nat \X Nat)
Communicators == [name : Names, members : SUBSET Ranks]
OrdinaryCalls == [do : Ordinary, on : Communicators, timer : Timers \cup {NoTimer}]
EnableCalls == [do : {"enable"}, enabled : BOOLEAN]
SizeCalls == [do : {"timing_allocate", "gather_timing"}, n : Sizes]
Calls == OrdinaryCalls \cup EnableCalls \cup SizeCalls

\* The calls x of rank r and y of rank s, at the same place of the test of size n:
\* if s belongs to the communicator r makes a collective call on, s makes that call.
Joins(n, r, s, x, y) ==
    x.do \in Collective =>
        r \in x.on.members /\ x.on.members \subseteq 0 .. n - 1 /\ (s \in x.on.members => y = x)
Matches(n, r, s, x, y) ==
    \/ x \in EnableCalls /\ y = x
    \/ /\ x \in OrdinaryCalls /\ y \in OrdinaryCalls
       /\ x.timer = y.timer
       /\ Joins(n, r, s, x, y) /\ Joins(n, s, r, y, x)
Together(n, r, s, u, v) ==
    /\ u \in Seq(Calls) /\ v \in Seq(Calls)
    /\ Len(u) = Len(v)
    /\ \A k \in 1 .. Len(u) : Matches(n, r, s, u[k], v[k])

LEMMA TogetherTurns ==
    ASSUME NEW n, NEW r, NEW s, NEW u, NEW v, Together(n, r, s, u, v)
    PROVE  Together(n, s, r, v, u)
  BY DEF Together, Matches

LEMMA NoneTogether ==
    ASSUME NEW n, NEW r, NEW s
    PROVE  Together(n, r, s, <<>>, <<>>)
<1>1. <<>> \in Seq(Calls)
  OBVIOUS
<1>2. Len(<<>>) = 0
  OBVIOUS
<1> QED
  BY <1>1, <1>2 DEF Together

LEMMA OneTogether ==
    ASSUME NEW n, NEW r, NEW s, NEW x \in Calls, NEW y \in Calls, Matches(n, r, s, x, y)
    PROVE  Together(n, r, s, <<x>>, <<y>>)
<1>1. <<x>> \in Seq(Calls) /\ <<y>> \in Seq(Calls)
  OBVIOUS
<1>2. Len(<<x>>) = 1 /\ Len(<<y>>) = 1 /\ <<x>>[1] = x /\ <<y>>[1] = y
  OBVIOUS
<1> HIDE DEF Calls
<1>3. \A k \in 1 .. Len(<<x>>) : k = 1
  BY <1>2
<1> QED
  BY <1>1, <1>2, <1>3 DEF Together

LEMMA JoinFacts ==
    ASSUME NEW X, NEW u \in Seq(X), NEW v \in Seq(X)
    PROVE  /\ u \o v \in Seq(X) /\ Len(u \o v) = Len(u) + Len(v)
           /\ Len(u) \in Nat /\ Len(v) \in Nat
           /\ \A k \in 1 .. Len(u) : (u \o v)[k] = u[k]
           /\ \A k \in 1 .. Len(v) : (u \o v)[Len(u) + k] = v[k]
           /\ \A k \in 1 .. Len(u \o v) : k \in 1 .. Len(u)
                  \/ (k - Len(u) \in 1 .. Len(v) /\ k = Len(u) + (k - Len(u)))
  OBVIOUS

LEMMA JoinTogether ==
    ASSUME NEW n, NEW r, NEW s, NEW u, NEW v, Together(n, r, s, u, v),
           NEW w, NEW x, Together(n, r, s, w, x)
    PROVE  Together(n, r, s, u \o w, v \o x)
<1>1. /\ u \in Seq(Calls) /\ v \in Seq(Calls) /\ w \in Seq(Calls) /\ x \in Seq(Calls)
      /\ Len(u) = Len(v) /\ Len(w) = Len(x)
      /\ \A k \in 1 .. Len(u) : Matches(n, r, s, u[k], v[k])
      /\ \A k \in 1 .. Len(w) : Matches(n, r, s, w[k], x[k])
  BY DEF Together
<1> HIDE DEF Calls
<1>2. /\ u \o w \in Seq(Calls) /\ v \o x \in Seq(Calls)
      /\ Len(u \o w) = Len(v \o x)
  <2>1. u \o w \in Seq(Calls) /\ Len(u \o w) = Len(u) + Len(w)
    BY <1>1, JoinFacts
  <2>2. v \o x \in Seq(Calls) /\ Len(v \o x) = Len(v) + Len(x)
    BY <1>1, JoinFacts
  <2> QED
    BY <1>1, <2>1, <2>2
<1>3. ASSUME NEW k \in 1 .. Len(u \o w) PROVE Matches(n, r, s, (u \o w)[k], (v \o x)[k])
  <2>1. CASE k \in 1 .. Len(u)
    <3>1. (u \o w)[k] = u[k] /\ (v \o x)[k] = v[k]
      BY <1>1, <2>1, JoinFacts
    <3> QED
      BY <1>1, <2>1, <3>1
  <2>2. CASE k - Len(u) \in 1 .. Len(w) /\ k = Len(u) + (k - Len(u))
    <3> DEFINE i == k - Len(u)
    <3>1. i \in 1 .. Len(w) /\ k = Len(u) + i
      BY <2>2
    <3> HIDE DEF i
    <3>2. (u \o w)[k] = w[i] /\ (v \o x)[k] = x[i]
      BY <1>1, <3>1, JoinFacts
    <3> QED
      BY <1>1, <3>1, <3>2
  <2> QED
    BY <1>1, <2>1, <2>2, JoinFacts
<1> QED
  BY <1>2, <1>3 DEF Together

\* Sequences of calls that keep together one by one, put one after the other.
LEMMA FlattenTogether ==
    ASSUME NEW n, NEW r, NEW s, NEW m \in Nat,
           NEW f \in Seq(Seq(Calls)), NEW g \in Seq(Seq(Calls)), Len(f) = m, Len(g) = m,
           \A i \in 1 .. m : Together(n, r, s, f[i], g[i])
    PROVE  Together(n, r, s, FlattenSeq(f), FlattenSeq(g))
<1>1. CASE m = 0
  <2>1. f = <<>> /\ g = <<>>
    BY <1>1
  <2> QED
    BY <2>1, NoneTogether DEF FlattenSeq
<1>2. CASE m # 0
  <2>1. PICK F : Appends(F, f, m) /\ FlattenSeq(f) = F[m]
    BY <1>2, FlattenIsRecursive
  <2>2. PICK G : Appends(G, g, m) /\ FlattenSeq(g) = G[m]
    BY <1>2, FlattenIsRecursive
  <2>3. /\ \A i \in 1 .. m : F[i] = IF i = 1 THEN f[i] ELSE F[i - 1] \o f[i]
        /\ \A i \in 1 .. m : G[i] = IF i = 1 THEN g[i] ELSE G[i - 1] \o g[i]
    BY <2>1, <2>2 DEF Appends
  <2> DEFINE K == {k \in Nat : k < m => Together(n, r, s, F[k + 1], G[k + 1])}
  <2>4. 0 \in K
    <3>1. F[1] = f[1] /\ G[1] = g[1] /\ 1 \in 1 .. m
      BY <1>2, <2>3
    <3>2. Together(n, r, s, F[0 + 1], G[0 + 1])
      BY <3>1
    <3> QED
      BY <3>2
  <2>5. ASSUME NEW k \in K PROVE k + 1 \in K
    <3>1. SUFFICES ASSUME k + 1 < m PROVE Together(n, r, s, F[(k + 1) + 1], G[(k + 1) + 1])
      BY <2>5
    <3> DEFINE i == (k + 1) + 1
    <3>2. i \in 1 .. m /\ i # 1 /\ i - 1 = k + 1 /\ k < m
      BY <3>1, <2>5
    <3>3. Together(n, r, s, F[k + 1], G[k + 1])
      BY <2>5, <3>2
    <3> HIDE DEF i
    <3>4. F[i] = F[k + 1] \o f[i] /\ G[i] = G[k + 1] \o g[i]
      BY <2>3, <3>2
    <3>5. Together(n, r, s, F[i], G[i])
      <4>1. Together(n, r, s, f[i], g[i])
        BY <3>2
      <4>2. Together(n, r, s, F[k + 1] \o f[i], G[k + 1] \o g[i])
        BY <4>1, <3>3, JoinTogether
      <4> QED
        BY <3>4, <4>2
    <3> QED
      BY <3>5 DEF i
  <2>6. K \in SUBSET Nat
    OBVIOUS
  <2> HIDE DEF K
  <2>7. K = Nat
    BY <2>4, <2>5, <2>6, SetInduction
  <2>8. m - 1 \in K /\ (m - 1) + 1 = m /\ m - 1 < m
    BY <1>2, <2>7
  <2>9. Together(n, r, s, F[m], G[m])
    BY <2>8 DEF K
  <2> QED
    BY <2>1, <2>2, <2>9
<1> QED
  BY <1>1, <1>2

LEMMA TimesTogether ==
    ASSUME NEW n, NEW r, NEW s, NEW m \in Nat, NEW u, NEW v, Together(n, r, s, u, v)
    PROVE  Together(n, r, s, Times(m, u), Times(m, v))
<1> DEFINE f == [i \in 1 .. m |-> u]
           g == [i \in 1 .. m |-> v]
<1>1. u \in Seq(Calls) /\ v \in Seq(Calls)
  BY DEF Together
<1> HIDE DEF Calls
<1>2. f \in Seq(Seq(Calls)) /\ g \in Seq(Seq(Calls)) /\ Len(f) = m /\ Len(g) = m
  BY <1>1
<1>3. \A i \in 1 .. m : f[i] = u /\ g[i] = v
  OBVIOUS
<1>4. \A i \in 1 .. m : Together(n, r, s, f[i], g[i])
  BY <1>3
<1> HIDE DEF f, g
<1>5. Together(n, r, s, FlattenSeq(f), FlattenSeq(g))
  BY <1>2, <1>4, FlattenTogether
<1> QED
  BY <1>5 DEF Times, f, g

LEMMA RoundsTogether ==
    ASSUME NEW n, NEW r, NEW s, NEW m \in Nat,
           NEW f, NEW g, f = [i \in 1 .. m |-> f[i]], g = [i \in 1 .. m |-> g[i]],
           \A i \in 1 .. m : Together(n, r, s, f[i], g[i])
    PROVE  Together(n, r, s, FlattenSeq(f), FlattenSeq(g))
<1>1. \A i \in 1 .. m : f[i] \in Seq(Calls) /\ g[i] \in Seq(Calls)
  BY DEF Together
<1> HIDE DEF Calls
<1>2. f \in [1 .. m -> Seq(Calls)] /\ g \in [1 .. m -> Seq(Calls)]
  BY <1>1
<1>3. f \in Seq(Seq(Calls)) /\ g \in Seq(Seq(Calls)) /\ Len(f) = m /\ Len(g) = m
  BY <1>2, FunctionsAreSequences
<1> QED
  BY <1>3, FlattenTogether

LEMMA EnableTogether ==
    ASSUME NEW n, NEW r, NEW s, NEW on \in BOOLEAN
    PROVE  Together(n, r, s, Enable(on), Enable(on))
<1> DEFINE x == [do |-> "enable", enabled |-> on]
<1>1. x \in EnableCalls
  BY DEF EnableCalls
<1> HIDE DEF x
<1>2. x \in Calls /\ Matches(n, r, s, x, x)
  BY <1>1 DEF Calls, Matches
<1>3. Together(n, r, s, <<x>>, <<x>>)
  BY <1>2, OneTogether
<1> QED
  BY <1>3 DEF Enable, x

LEMMA EnablesTogether ==
    ASSUME NEW n, NEW r, NEW s, NEW j, NEW w
    PROVE  /\ Together(n, r, s, Enable(j > w), Enable(j > w))
           /\ Together(n, r, s, Enable(j >= w), Enable(j >= w))
<1>1. (j > w) \in BOOLEAN /\ (j >= w) \in BOOLEAN
  OBVIOUS
<1> QED
  BY <1>1, EnableTogether

\* A rank alone, the other one alone, or both, take part in a call.
LEMMA CallsTogether ==
    ASSUME NEW n, NEW r, NEW s, NEW do \in Ordinary, NEW e \in Ordinary,
           NEW c \in Communicators, NEW d \in Communicators, NEW t \in Timers \cup {NoTimer},
           do \in Collective => r \in c.members /\ c.members \subseteq 0 .. n - 1
                                  /\ (s \in c.members => e = do /\ d = c),
           e \in Collective => s \in d.members /\ d.members \subseteq 0 .. n - 1
                                 /\ (r \in d.members => e = do /\ d = c)
    PROVE  Together(n, r, s, Call(do, c, t), Call(e, d, t))
<1> DEFINE x == [do |-> do, on |-> c, timer |-> t]
           y == [do |-> e, on |-> d, timer |-> t]
<1>1. x \in OrdinaryCalls /\ y \in OrdinaryCalls
  BY DEF OrdinaryCalls
<1>2. x.do = do /\ x.on = c /\ x.timer = t /\ y.do = e /\ y.on = d /\ y.timer = t
  OBVIOUS
<1>3. e = do /\ d = c => y = x
  OBVIOUS
<1> HIDE DEF x, y
<1>4. Joins(n, r, s, x, y) /\ Joins(n, s, r, y, x)
  BY <1>2, <1>3 DEF Joins
<1>5. x \in Calls /\ y \in Calls /\ Matches(n, r, s, x, y)
  BY <1>1, <1>2, <1>4 DEF Calls, Matches
<1>6. Together(n, r, s, <<x>>, <<y>>)
  BY <1>5, OneTogether
<1> QED
  BY <1>6 DEF Call, x, y

\* Everyone makes the same call.
LEMMA CallTogether ==
    ASSUME NEW n, NEW r, NEW s, NEW do \in Ordinary, NEW c \in Communicators,
           NEW t \in Timers \cup {NoTimer},
           do \in Collective => {r, s} \subseteq c.members /\ c.members \subseteq 0 .. n - 1
    PROVE  Together(n, r, s, Call(do, c, t), Call(do, c, t))
  BY CallsTogether

\* Calls that are nobody else's business, skipped by some.
Alone == Comm(<<>>, {})
LEMMA AloneTogether ==
    ASSUME NEW n, NEW r, NEW s, NEW t \in Timers \cup {NoTimer}
    PROVE  /\ Together(n, r, s, Local(t), Local(t))
           /\ Together(n, r, s, Local(t), Skip(t))
           /\ Together(n, r, s, Skip(t), Local(t))
           /\ Together(n, r, s, Skip(t), Skip(t))
<1>1. Alone \in Communicators
  BY DEF Alone, Comm, Communicators, Names
<1>2. {"local", "skip"} \subseteq Ordinary /\ {"local", "skip"} \cap Collective = {}
  BY DEF Ordinary, Collective, Blocking
<1>3. \A do, e \in {"local", "skip"} : Together(n, r, s, Call(do, Alone, t), Call(e, Alone, t))
  BY <1>1, <1>2, CallsTogether
<1> QED
  BY <1>3 DEF Local, Skip, Alone

\* A collective call of r that s has no part in, and skips.
LEMMA SkipTogether ==
    ASSUME NEW n, NEW r, NEW s, NEW do \in Ordinary, NEW c \in Communicators,
           NEW t \in Timers \cup {NoTimer},
           r \in c.members, s \notin c.members, c.members \subseteq 0 .. n - 1
    PROVE  Together(n, r, s, Call(do, c, t), Skip(t))
<1>1. Alone \in Communicators
  BY DEF Alone, Comm, Communicators, Names
<1>2. "skip" \in Ordinary /\ "skip" \notin Collective
  BY DEF Ordinary, Collective, Blocking
<1>3. Together(n, r, s, Call(do, c, t), Call("skip", Alone, t))
  BY <1>1, <1>2, CallsTogether
<1> QED
  BY <1>3 DEF Skip, Alone

-----------------------------------------------------------------------------
(* The tests keep the ranks below their size together.                     *)

\* What the lemmas below say about: two ranks of a test of size n.
Pair(a, n, r, s) == a \in Options /\ n \in Ranks \cup {NRanks} /\ {r, s} \subseteq 0 .. n - 1

LEMMA PairFacts ==
    ASSUME NEW a, NEW n, NEW r, NEW s, Pair(a, n, r, s)
    PROVE  /\ n \in Nat /\ 0 .. n - 1 \subseteq Ranks
           /\ r \in 0 .. n - 1 /\ s \in 0 .. n - 1
           /\ a.warmup \in Nat /\ a.iterations \in Nat /\ a.work_iterations \in Nat
           /\ Rounds(a) \in Nat /\ a.aborts \in BOOLEAN
           /\ a.test_kind \in {"init", "split", "shrink", "grow"}
<1>1. NRanks \in Nat \ {0}
  BY CommOpsAssumption
<1>2. /\ {a.warmup, a.iterations, a.work_iterations} \subseteq Nat /\ a.aborts \in BOOLEAN
      /\ a.test_kind \in {"init", "split", "shrink", "grow"}
  BY CommOpsAssumption DEF Pair
<1>3. n \in Nat /\ 0 .. n - 1 \subseteq Ranks
  BY <1>1 DEF Pair, Ranks
<1> QED
  BY <1>2, <1>3 DEF Pair, Rounds

LEMMA CommunicatorsAre ==
    ASSUME NEW n \in Nat, NEW S \in SUBSET Ranks
    PROVE  /\ Comm(<<"parent", n>>, S) \in Communicators
           /\ Comm(<<"sub", n>>, S) \in Communicators
           /\ Comm(<<"smaller", n>>, S) \in Communicators
           /\ Comm(<<"color", n>>, S) \in Communicators
           /\ \A j \in Nat : /\ Comm(<<"init", n, j>>, S) \in Communicators
                             /\ Comm(<<"bigger", n, j>>, S) \in Communicators
                             /\ \A k \in Nat : Comm(<<"child", n, j, k>>, S) \in Communicators
  BY DEF Comm, Communicators, Names

LEMMA OrdinaryAre ==
    /\ {"MPI_Barrier", "MPI_Allgatherv", "MPI_Bcast", "MPI_Comm_split", "ncclCommInitRankScalable",
        "ncclCommSplit", "ncclCommShrink", "ncclCommGrow", "ncclAllReduce",
        "cudaStreamSynchronize", "local", "skip"} \subseteq Ordinary
    /\ "cudaStreamSynchronize" \notin Collective
    /\ Timers \subseteq Timers \cup {NoTimer} /\ NoTimer \in Timers \cup {NoTimer}
    /\ {"mpi_barrier", "mpi_allgatherv", "nccl_init", "nccl_split", "nccl_shrink", "nccl_grow",
        "nccl_allreduce", "cuda_stream_sync", "nccl_finalize", "nccl_destroy", "nccl_abort"}
          \subseteq Timers \cup {NoTimer}
  BY DEF Ordinary, Collective, Blocking, Timers, NoTimer

LEMMA BarrierTogether ==
    ASSUME NEW a, NEW n, NEW r, NEW s, Pair(a, n, r, s)
    PROVE  /\ Together(n, r, s, MpiBarrier(n, "mpi_barrier"), MpiBarrier(n, "mpi_barrier"))
           /\ Together(n, r, s, MpiBarrier(n, NoTimer), MpiBarrier(n, NoTimer))
           /\ Together(n, r, s, Call("MPI_Allgatherv", Sub(n), "mpi_allgatherv"),
                                Call("MPI_Allgatherv", Sub(n), "mpi_allgatherv"))
           /\ Together(n, r, s, Call("MPI_Bcast", Sub(n), NoTimer), Call("MPI_Bcast", Sub(n), NoTimer))
           /\ Together(n, r, s, Call("MPI_Comm_split", Sub(n), NoTimer),
                                Call("MPI_Comm_split", Sub(n), NoTimer))
<1>1. Sub(n) \in Communicators /\ Sub(n).members = 0 .. n - 1
  <2>1. Sub(n).members = 0 .. n - 1
    BY DEF Sub, Comm
  <2> QED
    BY <2>1, PairFacts, CommunicatorsAre DEF Sub
<1>2. {r, s} \subseteq Sub(n).members /\ Sub(n).members \subseteq 0 .. n - 1
  BY <1>1, PairFacts
<1> QED
  BY <1>1, <1>2, OrdinaryAre, CallTogether DEF MpiBarrier

\* Work on a communicator that both, or one of the two, belong to.
LEMMA WorkTogether ==
    ASSUME NEW n, NEW r, NEW s, NEW c \in Communicators, NEW d \in Communicators,
           r \in c.members, s \in d.members,
           c.members \subseteq 0 .. n - 1, d.members \subseteq 0 .. n - 1,
           s \in c.members \/ r \in d.members => d = c
    PROVE  Together(n, r, s, DoWork(c), DoWork(d))
<1>1. Together(n, r, s, Call("ncclAllReduce", c, "nccl_allreduce"),
                        Call("ncclAllReduce", d, "nccl_allreduce"))
  BY OrdinaryAre, CallsTogether
<1>2. Together(n, r, s, Call("cudaStreamSynchronize", c, "cuda_stream_sync"),
                        Call("cudaStreamSynchronize", d, "cuda_stream_sync"))
  BY OrdinaryAre, CallsTogether
<1> QED
  BY <1>1, <1>2, JoinTogether DEF DoWork

LEMMA WorkAlone ==
    ASSUME NEW n, NEW r, NEW s, NEW c \in Communicators,
           r \in c.members, s \notin c.members, c.members \subseteq 0 .. n - 1
    PROVE  Together(n, r, s, DoWork(c), DoNoWork) /\ Together(n, s, r, DoNoWork, DoWork(c))
<1>1. Together(n, r, s, Call("ncclAllReduce", c, "nccl_allreduce"), Skip("nccl_allreduce"))
  BY OrdinaryAre, SkipTogether
<1>2. Together(n, r, s, Call("cudaStreamSynchronize", c, "cuda_stream_sync"), Skip("cuda_stream_sync"))
  BY OrdinaryAre, SkipTogether
<1>3. Together(n, r, s, DoWork(c), DoNoWork)
  BY <1>1, <1>2, JoinTogether DEF DoWork, DoNoWork
<1> QED
  BY <1>3, TogetherTurns

LEMMA NoWorkTogether ==
    ASSUME NEW n, NEW r, NEW s
    PROVE  Together(n, r, s, DoNoWork, DoNoWork)
<1>1. Together(n, r, s, Skip("nccl_allreduce"), Skip("nccl_allreduce"))
  BY OrdinaryAre, AloneTogether
<1>2. Together(n, r, s, Skip("cuda_stream_sync"), Skip("cuda_stream_sync"))
  BY OrdinaryAre, AloneTogether
<1> QED
  BY <1>1, <1>2, JoinTogether DEF DoNoWork

LEMMA TearDownTogether ==
    ASSUME NEW a, NEW n, NEW r, NEW s
    PROVE  \A u, v \in {TearDown(a), SkipTearDown(a)} : Together(n, r, s, u, v)
<1>1. \A t \in {"nccl_finalize", "nccl_destroy", "nccl_abort"} :
         \A u, v \in {Local(t), Skip(t)} : Together(n, r, s, u, v)
  BY OrdinaryAre, AloneTogether
<1>2. \A u, v \in {Local("nccl_finalize"), Skip("nccl_finalize")} :
      \A w, x \in {Local("nccl_destroy"), Skip("nccl_destroy")} : Together(n, r, s, u \o w, v \o x)
  BY <1>1, JoinTogether
<1>3. CASE a.aborts
  BY <1>1, <1>3 DEF TearDown, SkipTearDown
<1>4. CASE ~a.aborts
  BY <1>2, <1>4 DEF TearDown, SkipTearDown
<1> QED
  BY <1>3, <1>4

LEMMA CreateTogether ==
    ASSUME NEW a, NEW n, NEW r, NEW s, NEW mpi \in Communicators, NEW c \in Communicators,
           {r, s} \subseteq mpi.members, mpi.members \subseteq 0 .. n - 1,
           c.members = mpi.members
    PROVE  Together(n, r, s, CreateComm(a, mpi, c), CreateComm(a, mpi, c))
<1>1. Together(n, r, s, Call("MPI_Allgatherv", mpi, "mpi_allgatherv"),
                        Call("MPI_Allgatherv", mpi, "mpi_allgatherv"))
  BY OrdinaryAre, CallTogether
<1>2. Together(n, r, s, Call("ncclCommInitRankScalable", c, "nccl_init"),
                        Call("ncclCommInitRankScalable", c, "nccl_init"))
  BY OrdinaryAre, CallTogether
<1> QED
  BY <1>1, <1>2, JoinTogether DEF CreateComm

LEMMA CreateAlone ==
    ASSUME NEW a, NEW n, NEW r, NEW s, NEW mpi \in Communicators, NEW c \in Communicators,
           r \in mpi.members, s \notin mpi.members, mpi.members \subseteq 0 .. n - 1,
           c.members = mpi.members
    PROVE  Together(n, r, s, CreateComm(a, mpi, c), Skip("mpi_allgatherv") \o Skip("nccl_init"))
<1>1. Together(n, r, s, Call("MPI_Allgatherv", mpi, "mpi_allgatherv"), Skip("mpi_allgatherv"))
  BY OrdinaryAre, SkipTogether
<1>2. Together(n, r, s, Call("ncclCommInitRankScalable", c, "nccl_init"), Skip("nccl_init"))
  BY OrdinaryAre, SkipTogether
<1> QED
  BY <1>1, <1>2, JoinTogether DEF CreateComm

LEMMA InitTogether ==
    ASSUME NEW a, NEW n, NEW r, NEW s, Pair(a, n, r, s)
    PROVE  Together(n, r, s, main_init(a, r, n), main_init(a, s, n))
<1> DEFINE comm(j) == Comm(<<"init", n, j>>, 0 .. n - 1)
           f == [j \in 1 .. Rounds(a) |->
                   Enable(j > a.warmup)
                     \o Call("MPI_Allgatherv", Sub(n), "mpi_allgatherv")
                     \o MpiBarrier(n, "mpi_barrier")
                     \o Call("ncclCommInitRankScalable", comm(j), "nccl_init")
                     \o Times(a.work_iterations, DoWork(comm(j)))
                     \o TearDown(a)]
<1>1. \A q \in {r, s} : main_init(a, q, n) = Enable(0 >= a.warmup) \o MpiBarrier(n, "mpi_barrier")
                                              \o FlattenSeq(f)
  BY DEF main_init
<1>2. ASSUME NEW j \in 1 .. Rounds(a) PROVE Together(n, r, s, f[j], f[j])
  <2> DEFINE c == comm(j)
  <2>1. /\ f[j] = Enable(j > a.warmup)
                     \o Call("MPI_Allgatherv", Sub(n), "mpi_allgatherv")
                     \o MpiBarrier(n, "mpi_barrier")
                     \o Call("ncclCommInitRankScalable", c, "nccl_init")
                     \o Times(a.work_iterations, DoWork(c))
                     \o TearDown(a)
    OBVIOUS
  <2>2. c \in Communicators
    <3>1. n \in Nat /\ 0 .. n - 1 \in SUBSET Ranks /\ j \in Nat
      BY PairFacts
    <3> QED
      BY <3>1, CommunicatorsAre
  <2>3. c.members = 0 .. n - 1
    BY DEF Comm
  <2> HIDE DEF f, comm, c
  <2>4. Together(n, r, s, Call("ncclCommInitRankScalable", c, "nccl_init"),
                          Call("ncclCommInitRankScalable", c, "nccl_init"))
    BY <2>2, <2>3, PairFacts, OrdinaryAre, CallTogether
  <2>5. Together(n, r, s, DoWork(c), DoWork(c))
    BY <2>2, <2>3, PairFacts, WorkTogether
  <2>6. Together(n, r, s, Times(a.work_iterations, DoWork(c)), Times(a.work_iterations, DoWork(c)))
    BY <2>5, PairFacts, TimesTogether
  <2>7. Together(n, r, s, Enable(j > a.warmup), Enable(j > a.warmup))
    BY EnablesTogether
  <2> DEFINE u1 == Enable(j > a.warmup)
             u2 == Call("MPI_Allgatherv", Sub(n), "mpi_allgatherv")
             u3 == MpiBarrier(n, "mpi_barrier")
             u4 == Call("ncclCommInitRankScalable", c, "nccl_init")
             u5 == Times(a.work_iterations, DoWork(c))
             u6 == TearDown(a)
  <2>8. /\ Together(n, r, s, u1, u1) /\ Together(n, r, s, u2, u2) /\ Together(n, r, s, u3, u3)
        /\ Together(n, r, s, u4, u4) /\ Together(n, r, s, u5, u5) /\ Together(n, r, s, u6, u6)
    BY <2>4, <2>6, <2>7, BarrierTogether, TearDownTogether
  <2> HIDE DEF u1, u2, u3, u4, u5, u6
  <2>9. Together(n, r, s, u1 \o u2 \o u3 \o u4 \o u5 \o u6, u1 \o u2 \o u3 \o u4 \o u5 \o u6)
    BY <2>8, JoinTogether
  <2> QED
    BY <2>1, <2>9 DEF u1, u2, u3, u4, u5, u6
<1>3. f = [j \in 1 .. Rounds(a) |-> f[j]]
  OBVIOUS
<1> HIDE DEF f
<1>4. Together(n, r, s, FlattenSeq(f), FlattenSeq(f))
  BY <1>2, <1>3, PairFacts, RoundsTogether
<1>5. Together(n, r, s, Enable(0 >= a.warmup), Enable(0 >= a.warmup))
  BY EnablesTogether
<1>6. Together(n, r, s, Enable(0 >= a.warmup) \o MpiBarrier(n, "mpi_barrier") \o FlattenSeq(f),
                        Enable(0 >= a.warmup) \o MpiBarrier(n, "mpi_barrier") \o FlattenSeq(f))
  BY <1>4, <1>5, BarrierTogether, JoinTogether
<1> QED
  BY <1>1, <1>6

LEMMA ColorsAre ==
    ASSUME NEW a, NEW r, NEW n
    PROVE  pick_color(a, r, n) \in {0, 1}
  BY DEF pick_color

LEMMA SplitRoundTogether ==
    ASSUME NEW a, NEW n, NEW r, NEW s, Pair(a, n, r, s), NEW j \in Nat,
           a.test_kind \in {"split", "shrink"}
    PROVE  Together(n, r, s, SplitRound(a, r, n, j), SplitRound(a, s, n, j))
<1> DEFINE color(q) == pick_color(a, q, n)
           exclude(q) == {o \in 0 .. n - 1 : pick_color(a, o, n) # color(q)}
           child(q) == Comm(<<"child", n, j, color(q)>>, (0 .. n - 1) \ exclude(q))
           parent == Comm(<<"parent", n>>, 0 .. n - 1)
           has(q) == a.test_kind = "split" \/ color(q) = 0
           derive(q) == CASE a.test_kind = "split" -> Call("ncclCommSplit", parent, "nccl_split")
                          [] a.test_kind = "shrink" /\ has(q) -> Call("ncclCommShrink", child(q), "nccl_shrink")
                          [] a.test_kind = "shrink" /\ ~has(q) -> Skip("nccl_shrink")
           work(q) == IF has(q) THEN DoWork(child(q)) ELSE DoNoWork
           down(q) == IF has(q) THEN TearDown(a) ELSE SkipTearDown(a)
<1>1. \A q \in {r, s} : SplitRound(a, q, n, j) = Enable(j > a.warmup) \o MpiBarrier(n, NoTimer)
                           \o derive(q) \o Times(a.work_iterations, work(q)) \o down(q)
  BY DEF SplitRound
<1>2. n \in Nat /\ 0 .. n - 1 \in SUBSET Ranks /\ r \in 0 .. n - 1 /\ s \in 0 .. n - 1
  BY PairFacts
<1>3. parent \in Communicators /\ parent.members = 0 .. n - 1
  <2>1. parent.members = 0 .. n - 1
    BY DEF Comm
  <2> QED
    BY <1>2, <2>1, CommunicatorsAre
<1>4. ASSUME NEW q \in {r, s}
      PROVE  /\ child(q) \in Communicators /\ child(q).members \subseteq 0 .. n - 1
             /\ \A o \in 0 .. n - 1 : o \in child(q).members <=> color(o) = color(q)
             /\ \A o : color(o) = color(q) => child(o) = child(q)
  <2> DEFINE M == (0 .. n - 1) \ exclude(q)
  <2>1. M \in SUBSET Ranks /\ color(q) \in Nat /\ M \subseteq 0 .. n - 1
    BY <1>2, ColorsAre
  <2>2. \A o \in 0 .. n - 1 : o \in M <=> color(o) = color(q)
    OBVIOUS
  <2>3. child(q).members = M
    BY DEF Comm
  <2>4. child(q) \in Communicators
    <3> HIDE DEF color, M
    <3> QED
      BY <1>2, <2>1, CommunicatorsAre DEF M
  <2>5. \A o : color(o) = color(q) => child(o) = child(q)
    <3> HIDE DEF color
    <3> QED
      OBVIOUS
  <2> QED
    BY <2>1, <2>2, <2>3, <2>4, <2>5
<1> HIDE DEF child, parent, exclude
<1>5. \A q \in {r, s} : color(q) \in {0, 1}
  BY ColorsAre
<1> HIDE DEF color
<1>6. Together(n, r, s, derive(r), derive(s))
  <2>1. CASE a.test_kind = "split"
    <3>1. derive(r) = Call("ncclCommSplit", parent, "nccl_split") /\ derive(s) = derive(r)
      BY <2>1
    <3>2. Together(n, r, s, Call("ncclCommSplit", parent, "nccl_split"),
                            Call("ncclCommSplit", parent, "nccl_split"))
      BY <1>2, <1>3, OrdinaryAre, CallTogether
    <3> QED
      BY <3>1, <3>2
  <2>2. CASE a.test_kind = "shrink"
    <3>1. \A q \in {r, s} : derive(q) = IF has(q) THEN Call("ncclCommShrink", child(q), "nccl_shrink")
                                                   ELSE Skip("nccl_shrink")
      BY <2>2
    <3>2. \A q \in {r, s} : has(q) <=> color(q) = 0
      BY <2>2
    <3> HIDE DEF derive, has
    <3>3. CASE has(r) /\ has(s)
      <4>1. child(r) = child(s) /\ {r, s} \subseteq child(r).members
        BY <1>2, <1>4, <3>2, <3>3
      <4>2. Together(n, r, s, Call("ncclCommShrink", child(r), "nccl_shrink"),
                              Call("ncclCommShrink", child(r), "nccl_shrink"))
        BY <1>4, <4>1, OrdinaryAre, CallTogether
      <4> QED
        BY <3>1, <3>3, <4>1, <4>2
    <3>4. ASSUME NEW q \in {r, s}, NEW o \in {r, s}, has(q), ~has(o)
          PROVE  Together(n, q, o, derive(q), derive(o))
      <4>1. q \in child(q).members /\ o \notin child(q).members
        BY <1>2, <1>4, <3>2, <3>4
      <4>2. Together(n, q, o, Call("ncclCommShrink", child(q), "nccl_shrink"), Skip("nccl_shrink"))
        BY <1>4, <4>1, OrdinaryAre, SkipTogether
      <4> QED
        BY <3>1, <3>4, <4>2
    <3>5. CASE ~has(r) /\ ~has(s)
      <4>1. Together(n, r, s, Skip("nccl_shrink"), Skip("nccl_shrink"))
        BY OrdinaryAre, AloneTogether
      <4> QED
        BY <3>1, <3>5, <4>1
    <3> QED
      BY <3>3, <3>4, <3>5, TogetherTurns
  <2> QED
    BY <2>1, <2>2
<1>7. Together(n, r, s, work(r), work(s))
  <2>1. CASE has(r) /\ has(s)
    <3>1. r \in child(r).members /\ s \in child(s).members
      BY <1>2, <1>4
    <3>2. s \in child(r).members \/ r \in child(s).members => child(s) = child(r)
      <4>1. s \in child(r).members => child(s) = child(r)
        BY <1>2, <1>4
      <4>2. r \in child(s).members => child(s) = child(r)
        BY <1>2, <1>4
      <4> QED
        BY <4>1, <4>2
    <3>3. Together(n, r, s, DoWork(child(r)), DoWork(child(s)))
      BY <1>4, <3>1, <3>2, WorkTogether
    <3> QED
      BY <2>1, <3>3
  <2>2. ASSUME NEW q \in {r, s}, NEW o \in {r, s}, has(q), ~has(o)
        PROVE  Together(n, q, o, work(q), work(o)) /\ Together(n, o, q, work(o), work(q))
    <3>1. q \in child(q).members /\ o \notin child(q).members
      BY <1>2, <1>4, <1>5, <2>2
    <3>2. Together(n, q, o, DoWork(child(q)), DoNoWork) /\ Together(n, o, q, DoNoWork, DoWork(child(q)))
      BY <1>4, <3>1, WorkAlone
    <3> QED
      BY <2>2, <3>2
  <2>3. CASE ~has(r) /\ ~has(s)
    BY <2>3, NoWorkTogether
  <2> QED
    BY <2>1, <2>2, <2>3
<1>8. Together(n, r, s, Times(a.work_iterations, work(r)), Times(a.work_iterations, work(s)))
  BY <1>7, PairFacts, TimesTogether
<1>9. Together(n, r, s, down(r), down(s))
  BY TearDownTogether
<1>10. Together(n, r, s, Enable(j > a.warmup), Enable(j > a.warmup))
  BY EnablesTogether
<1> DEFINE t(q) == Times(a.work_iterations, work(q))
           b == MpiBarrier(n, NoTimer)
           e == Enable(j > a.warmup)
<1>11. Together(n, r, s, e, e) /\ Together(n, r, s, b, b) /\ Together(n, r, s, t(r), t(s))
  BY <1>8, <1>10, BarrierTogether
<1>12. \A q \in {r, s} : SplitRound(a, q, n, j) = e \o b \o derive(q) \o t(q) \o down(q)
  BY <1>1
<1> HIDE DEF derive, work, down, t, b, e
<1>13. Together(n, r, s, e \o b \o derive(r) \o t(r) \o down(r), e \o b \o derive(s) \o t(s) \o down(s))
  BY <1>6, <1>9, <1>11, JoinTogether
<1> QED
  BY <1>12, <1>13

LEMMA WhenTogether ==
    ASSUME NEW n, NEW r, NEW s, NEW cond \in BOOLEAN, NEW u, NEW v, Together(n, r, s, u, v)
    PROVE  Together(n, r, s, When(cond, u), When(cond, v))
  BY NoneTogether DEF When

LEMMA SplitTogether ==
    ASSUME NEW a, NEW n, NEW r, NEW s, Pair(a, n, r, s), a.test_kind \in {"split", "shrink"}
    PROVE  Together(n, r, s, main_split(a, r, n), main_split(a, s, n))
<1> DEFINE f(q) == [j \in 1 .. Rounds(a) |-> SplitRound(a, q, n, j)]
           b == MpiBarrier(n, "mpi_barrier")
           c == CreateComm(a, Sub(n), Comm(<<"parent", n>>, 0 .. n - 1))
           d == TearDown(a)
           e == Enable(0 >= a.warmup)
           l(q) == b \o c \o FlattenSeq(f(q)) \o d
<1>1. \A q \in {r, s} : main_split(a, q, n) = e \o When(n # 1, l(q))
  BY DEF main_split
<1>2. Together(n, r, s, FlattenSeq(f(r)), FlattenSeq(f(s)))
  <2> DEFINE fr == f(r)
             fs == f(s)
  <2>1. \A j \in 1 .. Rounds(a) : Together(n, r, s, fr[j], fs[j])
    BY SplitRoundTogether
  <2>2. fr = [j \in 1 .. Rounds(a) |-> fr[j]] /\ fs = [j \in 1 .. Rounds(a) |-> fs[j]]
    OBVIOUS
  <2> HIDE DEF fr, fs
  <2>3. Together(n, r, s, FlattenSeq(fr), FlattenSeq(fs))
    BY <2>1, <2>2, PairFacts, RoundsTogether
  <2> QED
    BY <2>3 DEF fr, fs
<1>3. Together(n, r, s, c, c)
  <2> DEFINE mpi == Sub(n)
             parent == Comm(<<"parent", n>>, 0 .. n - 1)
  <2>1. mpi.members = 0 .. n - 1 /\ parent.members = 0 .. n - 1
    BY DEF Sub, Comm
  <2>2. n \in Nat /\ 0 .. n - 1 \in SUBSET Ranks /\ {r, s} \subseteq 0 .. n - 1
    BY PairFacts
  <2>3. mpi \in Communicators /\ parent \in Communicators
    BY <2>2, CommunicatorsAre DEF Sub
  <2> HIDE DEF mpi, parent
  <2>4. Together(n, r, s, CreateComm(a, mpi, parent), CreateComm(a, mpi, parent))
    BY <2>1, <2>2, <2>3, CreateTogether
  <2> QED
    BY <2>4 DEF mpi, parent
<1>4. Together(n, r, s, b, b) /\ Together(n, r, s, d, d) /\ Together(n, r, s, e, e)
  BY BarrierTogether, TearDownTogether, EnablesTogether
<1> HIDE DEF b, c, d, e, f
<1>5. Together(n, r, s, l(r), l(s))
  BY <1>2, <1>3, <1>4, JoinTogether
<1> HIDE DEF l
<1>6. Together(n, r, s, When(n # 1, l(r)), When(n # 1, l(s)))
  BY <1>5, WhenTogether
<1>7. Together(n, r, s, e \o When(n # 1, l(r)), e \o When(n # 1, l(s)))
  BY <1>4, <1>6, JoinTogether
<1> QED
  BY <1>1, <1>7

LEMMA GrowRoundTogether ==
    ASSUME NEW a, NEW n, NEW r, NEW s, Pair(a, n, r, s), NEW j \in Nat
    PROVE  Together(n, r, s, GrowRound(a, r, n, j), GrowRound(a, s, n, j))
<1> DEFINE c == Comm(<<"bigger", n, j>>, 0 .. n - 1)
           e == Enable(j > a.warmup)
           b == MpiBarrier(n, NoTimer)
           i == Call("MPI_Bcast", Sub(n), NoTimer)
           g == Call("ncclCommGrow", c, "nccl_grow")
           t == Times(a.work_iterations, DoWork(c))
           d == TearDown(a)
<1>1. \A q \in {r, s} : GrowRound(a, q, n, j) = e \o b \o i \o g \o t \o d
  BY DEF GrowRound
<1>2. n \in Nat /\ 0 .. n - 1 \in SUBSET Ranks /\ {r, s} \subseteq 0 .. n - 1
  BY PairFacts
<1>3. c \in Communicators
  BY <1>2, CommunicatorsAre
<1>4. c.members = 0 .. n - 1
  BY DEF Comm
<1> HIDE DEF c
<1>5. Together(n, r, s, g, g)
  BY <1>2, <1>3, <1>4, OrdinaryAre, CallTogether
<1>6. Together(n, r, s, DoWork(c), DoWork(c))
  BY <1>2, <1>3, <1>4, WorkTogether
<1>7. Together(n, r, s, t, t)
  BY <1>6, PairFacts, TimesTogether
<1>8. /\ Together(n, r, s, e, e) /\ Together(n, r, s, b, b)
      /\ Together(n, r, s, i, i) /\ Together(n, r, s, d, d)
  BY EnablesTogether, BarrierTogether, TearDownTogether
<1> HIDE DEF e, b, i, g, t, d
<1>9. Together(n, r, s, e \o b \o i \o g \o t \o d, e \o b \o i \o g \o t \o d)
  BY <1>5, <1>7, <1>8, JoinTogether
<1> QED
  BY <1>1, <1>9

LEMMA GrowTogether ==
    ASSUME NEW a, NEW n, NEW r, NEW s, Pair(a, n, r, s)
    PROVE  Together(n, r, s, main_grow(a, r, n), main_grow(a, s, n))
<1> DEFINE initial == Color(a, n, 0)
           smaller == Comm(<<"smaller", n>>, initial)
           mpi == Comm(<<"color", n>>, initial)
           part(q) == q \in initial
           cond == initial # {} /\ initial # 0 .. n - 1
           e == Enable(0 >= a.warmup)
           b == MpiBarrier(n, "mpi_barrier")
           i == Call("MPI_Comm_split", Sub(n), NoTimer)
           none == Skip("mpi_allgatherv") \o Skip("nccl_init")
           c(q) == IF part(q) THEN CreateComm(a, mpi, smaller) ELSE none
           work(q) == IF part(q) THEN DoWork(smaller) ELSE DoNoWork
           t(q) == Times(a.work_iterations, work(q))
           f(q) == [j \in 1 .. Rounds(a) |-> GrowRound(a, q, n, j)]
           d(q) == IF part(q) THEN TearDown(a) ELSE SkipTearDown(a)
           l(q) == b \o i \o c(q) \o t(q) \o FlattenSeq(f(q)) \o d(q)
<1>1. \A q \in {r, s} : main_grow(a, q, n) = e \o When(cond, l(q))
  BY DEF main_grow
<1>2. n \in Nat /\ 0 .. n - 1 \in SUBSET Ranks /\ {r, s} \subseteq 0 .. n - 1
  BY PairFacts
<1>3. initial \in SUBSET Ranks /\ initial \subseteq 0 .. n - 1
  BY <1>2 DEF Color
<1> HIDE DEF initial
<1>4. /\ smaller \in Communicators /\ mpi \in Communicators
      /\ smaller.members = initial /\ mpi.members = initial
  <2>1. smaller.members = initial /\ mpi.members = initial
    BY DEF Comm
  <2>2. smaller \in Communicators /\ mpi \in Communicators
    BY <1>2, <1>3, CommunicatorsAre
  <2> QED
    BY <2>1, <2>2
<1> HIDE DEF smaller, mpi
<1>5. Together(n, r, s, FlattenSeq(f(r)), FlattenSeq(f(s)))
  <2> DEFINE fr == f(r)
             fs == f(s)
  <2>1. \A j \in 1 .. Rounds(a) : Together(n, r, s, fr[j], fs[j])
    BY GrowRoundTogether
  <2>2. fr = [j \in 1 .. Rounds(a) |-> fr[j]] /\ fs = [j \in 1 .. Rounds(a) |-> fs[j]]
    OBVIOUS
  <2> HIDE DEF fr, fs
  <2>3. Together(n, r, s, FlattenSeq(fr), FlattenSeq(fs))
    BY <2>1, <2>2, PairFacts, RoundsTogether
  <2> QED
    BY <2>3 DEF fr, fs
<1>6. ASSUME NEW q \in {r, s}, NEW o \in {r, s}, part(q), ~part(o)
      PROVE  /\ Together(n, q, o, c(q), c(o)) /\ Together(n, o, q, c(o), c(q))
             /\ Together(n, q, o, work(q), work(o)) /\ Together(n, o, q, work(o), work(q))
  <2>1. Together(n, q, o, CreateComm(a, mpi, smaller), none)
    BY <1>3, <1>4, <1>6, CreateAlone
  <2>2. Together(n, q, o, DoWork(smaller), DoNoWork) /\ Together(n, o, q, DoNoWork, DoWork(smaller))
    BY <1>3, <1>4, <1>6, WorkAlone
  <2>3. c(q) = CreateComm(a, mpi, smaller) /\ c(o) = none /\ work(q) = DoWork(smaller) /\ work(o) = DoNoWork
    BY <1>6
  <2> HIDE DEF none, c, work
  <2> QED
    BY <2>1, <2>2, <2>3, TogetherTurns
<1>7. Together(n, r, s, c(r), c(s)) /\ Together(n, r, s, work(r), work(s))
  <2>1. CASE part(r) /\ part(s)
    <3>1. Together(n, r, s, CreateComm(a, mpi, smaller), CreateComm(a, mpi, smaller))
      BY <1>3, <1>4, <2>1, CreateTogether
    <3>2. Together(n, r, s, DoWork(smaller), DoWork(smaller))
      BY <1>3, <1>4, <2>1, WorkTogether
    <3> QED
      BY <2>1, <3>1, <3>2
  <2>2. CASE ~part(r) /\ ~part(s)
    <3>1. Together(n, r, s, Skip("mpi_allgatherv"), Skip("mpi_allgatherv"))
      BY OrdinaryAre, AloneTogether
    <3>2. Together(n, r, s, Skip("nccl_init"), Skip("nccl_init"))
      BY OrdinaryAre, AloneTogether
    <3>3. Together(n, r, s, none, none)
      BY <3>1, <3>2, JoinTogether
    <3> QED
      BY <2>2, <3>3, NoWorkTogether
  <2>3. CASE part(r) /\ ~part(s)
    BY <1>6, <2>3
  <2>4. CASE ~part(r) /\ part(s)
    BY <1>6, <2>4
  <2> QED
    BY <2>1, <2>2, <2>3, <2>4
<1>8. Together(n, r, s, t(r), t(s))
  BY <1>7, PairFacts, TimesTogether
<1>9. /\ Together(n, r, s, e, e) /\ Together(n, r, s, b, b)
      /\ Together(n, r, s, i, i) /\ Together(n, r, s, d(r), d(s))
  <2>1. Together(n, r, s, d(r), d(s))
    BY TearDownTogether
  <2> QED
    BY <2>1, EnablesTogether, BarrierTogether
<1>10. cond \in BOOLEAN
  OBVIOUS
<1> HIDE DEF cond, e, b, i, c, t, f, d
<1>11. Together(n, r, s, l(r), l(s))
  BY <1>5, <1>7, <1>8, <1>9, JoinTogether
<1> HIDE DEF l
<1>12. Together(n, r, s, When(cond, l(r)), When(cond, l(s)))
  BY <1>10, <1>11, WhenTogether
<1>13. Together(n, r, s, e \o When(cond, l(r)), e \o When(cond, l(s)))
  BY <1>9, <1>12, JoinTogether
<1> QED
  BY <1>1, <1>13

\* Whatever the test, two ranks that take part in it make as many calls, and call by
\* call the same one as far as it concerns the other.
LEMMA TestsTogether ==
    ASSUME NEW a, NEW n, NEW r, NEW s, Pair(a, n, r, s)
    PROVE  Together(n, r, s, Test(a, r, n), Test(a, s, n))
<1>1. a.test_kind \in {"init", "split", "shrink", "grow"}
  BY PairFacts
<1>2. CASE a.test_kind = "init"
  BY <1>2, InitTogether DEF Test
<1>3. CASE a.test_kind \in {"split", "shrink"}
  <2>1. \A q \in {r, s} : Test(a, q, n) = main_split(a, q, n)
    BY <1>3 DEF Test
  <2> QED
    BY <1>3, <2>1, SplitTogether
<1>4. CASE a.test_kind = "grow"
  <2>1. \A q \in {r, s} : Test(a, q, n) = main_grow(a, q, n)
    BY <1>4 DEF Test
  <2> QED
    BY <2>1, GrowTogether
<1> QED
  BY <1>1, <1>2, <1>3, <1>4

-----------------------------------------------------------------------------
(* The score: what all ranks do, slot by slot, with rests for those that   *)
(* take no part.                                                           *)

Idle == [do |-> "idle"]
Slots == [Ranks -> Calls \cup {Idle}]

Allocation(n) == [do |-> "timing_allocate", n |-> n]
BlockCalls(a, r, n) ==
    Call("MPI_Comm_split", World, NoTimer) \o When(r < n, <<Allocation(n)>> \o Test(a, r, n))
Block(a, n) ==
    [k \in 1 .. 2 + Len(Test(a, 0, n)) |->
        [r \in Ranks |-> IF k = 1 \/ r < n THEN BlockCalls(a, r, n)[k] ELSE Idle]]
Gathering(n) ==
    <<[r \in Ranks |-> IF n = 0 \/ r < n THEN [do |-> "gather_timing", n |-> n] ELSE Idle]>>
Score(a) ==
    FlattenSeq([i \in 1 .. Len(Sweep) |-> Block(a, Sweep[i])])
      \o Gathering(0)
      \o FlattenSeq([i \in 1 .. Len(Sweep) |-> Gathering(Sweep[i])])

\* rest[j] are the calls rank r makes after slot j of U when it makes those of s in all.
IsRest(U, r, s, rest) ==
    /\ rest \in [0 .. Len(U) -> Seq(Calls)]
    /\ rest[0] = s /\ rest[Len(U)] = <<>>
    /\ \A j \in 1 .. Len(U) :
          IF U[j][r] = Idle THEN rest[j - 1] = rest[j]
          ELSE rest[j - 1] # <<>> /\ Head(rest[j - 1]) = U[j][r] /\ Tail(rest[j - 1]) = rest[j]
Part(U, r, s) == \E rest : IsRest(U, r, s, rest)

LEMMA IdleIsNoCall == Idle \notin Calls /\ \A x \in Calls : x.do # "idle"
<1>1. \A x \in Calls : x.do # "idle"
  BY DEF Calls, OrdinaryCalls, EnableCalls, SizeCalls, Ordinary, Collective, Blocking
<1>2. Idle.do = "idle"
  BY DEF Idle
<1> QED
  BY <1>1, <1>2

LEMMA HeadOfJoin ==
    ASSUME NEW X, NEW u \in Seq(X), NEW v \in Seq(X), u # <<>>
    PROVE  u \o v # <<>> /\ Head(u \o v) = Head(u) /\ Tail(u \o v) = Tail(u) \o v
  OBVIOUS

LEMMA EmptyJoin ==
    ASSUME NEW X, NEW u \in Seq(X)
    PROVE  <<>> \o u = u /\ u \o <<>> = u
  OBVIOUS

LEMMA PartOfJoin ==
    ASSUME NEW r \in Ranks, NEW U \in Seq(Slots), NEW V \in Seq(Slots), NEW s, NEW t,
           Part(U, r, s), Part(V, r, t)
    PROVE  Part(U \o V, r, s \o t)
<1>1. PICK g : IsRest(U, r, s, g)
  BY DEF Part
<1>2. PICK h : IsRest(V, r, t, h)
  BY DEF Part
<1>3. /\ g \in [0 .. Len(U) -> Seq(Calls)] /\ g[0] = s /\ g[Len(U)] = <<>>
      /\ h \in [0 .. Len(V) -> Seq(Calls)] /\ h[0] = t /\ h[Len(V)] = <<>>
  BY <1>1, <1>2 DEF IsRest
<1> DEFINE m == Len(U)
           W == U \o V
           f == [j \in 0 .. Len(W) |-> IF j <= m THEN g[j] \o t ELSE h[j - m]]
<1> HIDE DEF Calls, Slots
<1>4. /\ m \in Nat /\ Len(V) \in Nat /\ Len(W) = m + Len(V)
      /\ \A k \in 1 .. m : W[k] = U[k]
      /\ \A k \in 1 .. Len(V) : W[m + k] = V[k]
      /\ \A k \in 1 .. Len(W) : k \in 1 .. m \/ (k - m \in 1 .. Len(V) /\ k = m + (k - m))
  BY JoinFacts
<1>5. t \in Seq(Calls) /\ s \in Seq(Calls)
  <2>1. 0 \in 0 .. Len(U) /\ 0 \in 0 .. Len(V)
    BY <1>4
  <2> QED
    BY <1>3, <2>1
<1>6. \A j \in 0 .. m : f[j] = g[j] \o t
  BY <1>4
<1>7. \A k \in 0 .. Len(V) : f[m + k] = h[k]
  <2>1. f[m + 0] = h[0]
    <3>1. f[m] = g[m] \o t
      BY <1>4, <1>6
    <3>2. <<>> \o t = t
      BY <1>5, EmptyJoin
    <3> HIDE DEF f
    <3>3. m + 0 = m
      BY <1>4
    <3> QED
      BY <1>3, <3>1, <3>2, <3>3
  <2>2. ASSUME NEW k \in 1 .. Len(V) PROVE f[m + k] = h[k]
    <3>1. m + k \in 0 .. Len(W) /\ ~(m + k <= m) /\ (m + k) - m = k
      BY <1>4
    <3> QED
      BY <3>1
  <2> HIDE DEF f
  <2>3. \A k \in 0 .. Len(V) : k = 0 \/ k \in 1 .. Len(V)
    BY <1>4
  <2> QED
    BY <2>1, <2>2, <2>3
<1>8. f \in [0 .. Len(W) -> Seq(Calls)]
  <2>1. ASSUME NEW j \in 0 .. Len(W) PROVE f[j] \in Seq(Calls)
    <3>1. CASE j \in 0 .. m
      <4>1. g[j] \in Seq(Calls)
        BY <1>3, <3>1
      <4>2. g[j] \o t \in Seq(Calls)
        BY <1>5, <4>1, JoinFacts
      <4> QED
        BY <1>6, <3>1, <4>2
    <3>2. CASE j \notin 0 .. m
      <4>1. j - m \in 0 .. Len(V) /\ j = m + (j - m)
        BY <1>4, <3>2
      <4> HIDE DEF f
      <4>2. f[m + (j - m)] = h[j - m]
        BY <1>7, <4>1
      <4> QED
        BY <1>3, <4>1, <4>2
    <3> QED
      BY <3>1, <3>2
  <2> QED
    BY <2>1
<1> HIDE DEF f, W
<1>9. f[0] = s \o t
  <2>1. 0 \in 0 .. m
    BY <1>4
  <2> QED
    BY <1>3, <1>6, <2>1
<1>10. f[Len(W)] = <<>>
  BY <1>3, <1>4, <1>7
<1>11. ASSUME NEW j \in 1 .. Len(W)
       PROVE  IF W[j][r] = Idle THEN f[j - 1] = f[j]
              ELSE f[j - 1] # <<>> /\ Head(f[j - 1]) = W[j][r] /\ Tail(f[j - 1]) = f[j]
  <2>1. CASE j \in 1 .. m
    <3>1. j - 1 \in 0 .. m /\ j \in 0 .. m
      BY <1>4, <2>1
    <3>2. f[j - 1] = g[j - 1] \o t /\ f[j] = g[j] \o t /\ W[j] = U[j]
      BY <1>4, <1>6, <2>1, <3>1
    <3>3. g[j - 1] \in Seq(Calls) /\ g[j] \in Seq(Calls)
      BY <1>3, <3>1
    <3>4. IF U[j][r] = Idle THEN g[j - 1] = g[j]
          ELSE g[j - 1] # <<>> /\ Head(g[j - 1]) = U[j][r] /\ Tail(g[j - 1]) = g[j]
      BY <1>1, <2>1 DEF IsRest
    <3>5. g[j - 1] # <<>> => /\ g[j - 1] \o t # <<>> /\ Head(g[j - 1] \o t) = Head(g[j - 1])
                             /\ Tail(g[j - 1] \o t) = Tail(g[j - 1]) \o t
      BY <1>5, <3>3, HeadOfJoin
    <3> QED
      BY <3>2, <3>4, <3>5
  <2>2. ASSUME NEW k \in 1 .. Len(V), j = m + k
        PROVE  IF W[j][r] = Idle THEN f[j - 1] = f[j]
               ELSE f[j - 1] # <<>> /\ Head(f[j - 1]) = W[j][r] /\ Tail(f[j - 1]) = f[j]
    <3>1. k - 1 \in 0 .. Len(V) /\ k \in 0 .. Len(V) /\ j - 1 = m + (k - 1)
      BY <1>4, <2>2
    <3>2. f[j - 1] = h[k - 1] /\ f[j] = h[k] /\ W[j] = V[k]
      BY <1>4, <1>7, <2>2, <3>1
    <3>3. IF V[k][r] = Idle THEN h[k - 1] = h[k]
          ELSE h[k - 1] # <<>> /\ Head(h[k - 1]) = V[k][r] /\ Tail(h[k - 1]) = h[k]
      BY <1>2, <2>2 DEF IsRest
    <3> QED
      BY <3>2, <3>3
  <2> QED
    BY <1>4, <2>1, <2>2
<1>12. IsRest(W, r, s \o t, f)
  BY <1>8, <1>9, <1>10, <1>11 DEF IsRest
<1> QED
  BY <1>12 DEF Part, W

\* A rank that takes no part, and one that takes part in every slot.
LEMMA PartOfNone ==
    ASSUME NEW r, NEW U, Len(U) \in Nat, \A j \in 1 .. Len(U) : U[j][r] = Idle
    PROVE  Part(U, r, <<>>)
<1> DEFINE f == [j \in 0 .. Len(U) |-> <<>>]
<1>1. <<>> \in Seq(Calls)
  OBVIOUS
<1>2. f \in [0 .. Len(U) -> Seq(Calls)] /\ f[0] = <<>> /\ f[Len(U)] = <<>>
  BY <1>1
<1>3. \A j \in 1 .. Len(U) : f[j - 1] = f[j]
  OBVIOUS
<1> HIDE DEF f
<1>4. IsRest(U, r, <<>>, f)
  BY <1>2, <1>3 DEF IsRest
<1> QED
  BY <1>4 DEF Part

LEMMA RestOfSequence ==
    ASSUME NEW X, NEW s \in Seq(X)
    PROVE  /\ \A j \in 1 .. Len(s) :
                 /\ SubSeq(s, j + 1, Len(s)) \in Seq(X)
                 /\ SubSeq(s, j, Len(s)) # <<>> /\ Head(SubSeq(s, j, Len(s))) = s[j]
                 /\ Tail(SubSeq(s, j, Len(s))) = SubSeq(s, j + 1, Len(s))
           /\ SubSeq(s, 1, Len(s)) = s /\ SubSeq(s, Len(s) + 1, Len(s)) = <<>>
<1>1. SubSeq(s, 1, Len(s)) = s /\ SubSeq(s, Len(s) + 1, Len(s)) = <<>>
  OBVIOUS
<1>2. ASSUME NEW j \in 1 .. Len(s)
      PROVE  /\ SubSeq(s, j + 1, Len(s)) \in Seq(X)
             /\ SubSeq(s, j, Len(s)) # <<>> /\ Head(SubSeq(s, j, Len(s))) = s[j]
             /\ Tail(SubSeq(s, j, Len(s))) = SubSeq(s, j + 1, Len(s))
  <2> DEFINE n == Len(s)
             u == SubSeq(s, j, n)
             v == SubSeq(s, j + 1, n)
  <2>1. n \in Nat /\ j \in Int /\ n \in Int /\ j + 1 \in Int /\ j <= n /\ j >= 1
    OBVIOUS
  <2>2. (\A i \in j .. n : s[i] \in X) /\ (\A i \in j + 1 .. n : s[i] \in X)
    BY <2>1
  <2> HIDE DEF n
  <2>3. u \in Seq(X) /\ Len(u) = n - j + 1 /\ \A i \in 1 .. n - j + 1 : u[i] = s[j + i - 1]
    BY <2>1, <2>2, SubSeqProperties
  <2>4. v \in Seq(X) /\ Len(v) = (IF j + 1 <= n THEN n - (j + 1) + 1 ELSE 0)
        /\ \A i \in 1 .. n - (j + 1) + 1 : v[i] = s[(j + 1) + i - 1]
    BY <2>1, <2>2, SubSeqProperties
  <2> HIDE DEF u, v
  <2>5. u # <<>> /\ Head(u) = u[1] /\ Tail(u) \in Seq(X) /\ Len(Tail(u)) = Len(u) - 1
        /\ \A i \in 1 .. Len(Tail(u)) : Tail(u)[i] = u[i + 1]
    <3>1. u # <<>>
      BY <2>1, <2>3
    <3> QED
      BY <2>3, <3>1, HeadTailProperties
  <2>6. Head(u) = s[j]
    BY <2>1, <2>3, <2>5
  <2>7. Len(Tail(u)) = Len(v) /\ Len(v) = n - j
    <3>1. Len(v) = n - j
      <4>1. (IF j + 1 <= n THEN n - (j + 1) + 1 ELSE 0) = n - j
        BY <2>1
      <4> QED
        BY <2>4, <4>1
    <3>2. Len(Tail(u)) = (n - j + 1) - 1
      BY <2>3, <2>5
    <3> QED
      BY <2>1, <3>1, <3>2
  <2>8. ASSUME NEW i \in 1 .. Len(Tail(u)) PROVE Tail(u)[i] = v[i]
    <3>1. i \in 1 .. n - j /\ i + 1 \in 1 .. n - j + 1 /\ i \in 1 .. n - (j + 1) + 1
      BY <2>1, <2>7, <2>8
    <3>2. Tail(u)[i] = s[j + (i + 1) - 1] /\ v[i] = s[(j + 1) + i - 1]
      BY <2>3, <2>4, <2>5, <2>8, <3>1
    <3>3. j + (i + 1) - 1 = (j + 1) + i - 1
      BY <2>1, <3>1
    <3> QED
      BY <3>2, <3>3
  <2>9. Tail(u) = v
    BY <2>4, <2>5, <2>7, <2>8, SeqEqual
  <2> QED
    BY <2>4, <2>5, <2>6, <2>9 DEF u, v, n
<1> QED
  BY <1>1, <1>2

LEMMA PartOfAll ==
    ASSUME NEW r, NEW U, NEW s \in Seq(Calls), Len(U) = Len(s),
           \A j \in 1 .. Len(U) : U[j][r] = s[j]
    PROVE  Part(U, r, s)
<1>1. CASE s = <<>>
  <2>1. Len(U) = 0
    BY <1>1
  <2> QED
    BY <1>1, <2>1, PartOfNone
<1>2. CASE s # <<>>
  <2> HIDE DEF Calls
  <2> DEFINE n == Len(s)
             f == [j \in 0 .. n |-> SubSeq(s, j + 1, n)]
  <2>1. n \in Nat \ {0}
    BY <1>2
  <2>2. SubSeq(s, 1, n) = s /\ SubSeq(s, n + 1, n) = <<>> /\ <<>> \in Seq(Calls)
    BY <2>1, RestOfSequence
  <2>3. f[0] = s /\ f[n] = <<>>
    <3>1. 0 \in 0 .. n /\ n \in 0 .. n /\ 0 + 1 = 1
      BY <2>1
    <3> QED
      BY <2>2, <3>1
  <2>4. ASSUME NEW j \in 1 .. n
        PROVE  /\ f[j - 1] = SubSeq(s, j, n) /\ f[j] = SubSeq(s, j + 1, n)
               /\ f[j - 1] # <<>> /\ Head(f[j - 1]) = s[j] /\ Tail(f[j - 1]) = f[j]
               /\ f[j] \in Seq(Calls)
    <3>1. j - 1 \in 0 .. n /\ j \in 0 .. n /\ (j - 1) + 1 = j
      BY <2>1
    <3>2. f[j - 1] = SubSeq(s, j, n) /\ f[j] = SubSeq(s, j + 1, n)
      BY <3>1
    <3> HIDE DEF f
    <3>3. /\ SubSeq(s, j + 1, n) \in Seq(Calls)
          /\ SubSeq(s, j, n) # <<>> /\ Head(SubSeq(s, j, n)) = s[j]
          /\ Tail(SubSeq(s, j, n)) = SubSeq(s, j + 1, n)
      BY RestOfSequence
    <3> QED
      BY <3>2, <3>3
  <2>5. \A j \in 0 .. n : f[j] \in Seq(Calls)
    <3>1. f[0] \in Seq(Calls)
      BY <2>3
    <3> HIDE DEF f
    <3>2. \A j \in 0 .. n : j = 0 \/ j \in 1 .. n
      BY <2>1
    <3> QED
      BY <2>4, <3>1, <3>2
  <2>6. f \in [0 .. n -> Seq(Calls)]
    BY <2>5
  <2>7. \A j \in 1 .. n : s[j] # Idle
    <3>1. \A j \in 1 .. n : s[j] \in Calls
      OBVIOUS
    <3> QED
      BY <3>1, IdleIsNoCall
  <2> HIDE DEF f
  <2>8. IsRest(U, r, s, f)
    BY <2>3, <2>4, <2>6, <2>7 DEF IsRest
  <2> QED
    BY <2>8 DEF Part
<1> QED
  BY <1>1, <1>2

LEMMA PartOfFlatten ==
    ASSUME NEW r \in Ranks, NEW m \in Nat, NEW f \in Seq(Seq(Slots)), NEW g,
           Len(f) = m, g \in Seq(Seq(Calls)), Len(g) = m,
           \A i \in 1 .. m : Part(f[i], r, g[i])
    PROVE  Part(FlattenSeq(f), r, FlattenSeq(g))
<1> HIDE DEF Calls, Slots
<1>1. CASE m = 0
  <2>1. f = <<>> /\ g = <<>> /\ Len(<<>>) = 0
    BY <1>1
  <2>2. Part(<<>>, r, <<>>)
    BY PartOfNone
  <2> QED
    BY <2>1, <2>2 DEF FlattenSeq
<1>2. CASE m # 0
  <2>1. PICK F : Appends(F, f, m) /\ FlattenSeq(f) = F[m]
    BY <1>2, FlattenIsRecursive
  <2>2. PICK G : Appends(G, g, m) /\ FlattenSeq(g) = G[m]
    BY <1>2, FlattenIsRecursive
  <2>3. /\ \A i \in 1 .. m : F[i] = IF i = 1 THEN f[i] ELSE F[i - 1] \o f[i]
        /\ \A i \in 1 .. m : G[i] = IF i = 1 THEN g[i] ELSE G[i - 1] \o g[i]
    BY <2>1, <2>2 DEF Appends
  <2>4. \A i \in 1 .. m : f[i] \in Seq(Slots)
    OBVIOUS
  <2> DEFINE K == {k \in Nat : k < m => F[k + 1] \in Seq(Slots) /\ Part(F[k + 1], r, G[k + 1])}
  <2>5. 0 \in K
    <3>1. F[1] = f[1] /\ G[1] = g[1] /\ 1 \in 1 .. m
      BY <1>2, <2>3
    <3>2. F[0 + 1] \in Seq(Slots) /\ Part(F[0 + 1], r, G[0 + 1])
      BY <2>4, <3>1
    <3> QED
      BY <3>2
  <2>6. ASSUME NEW k \in K PROVE k + 1 \in K
    <3>1. SUFFICES ASSUME k + 1 < m
                   PROVE  F[(k + 1) + 1] \in Seq(Slots) /\ Part(F[(k + 1) + 1], r, G[(k + 1) + 1])
      BY <2>6
    <3> DEFINE i == (k + 1) + 1
    <3>2. i \in 1 .. m /\ i # 1 /\ i - 1 = k + 1 /\ k < m
      BY <3>1, <2>6
    <3>3. F[k + 1] \in Seq(Slots) /\ Part(F[k + 1], r, G[k + 1])
      BY <2>6, <3>2
    <3> HIDE DEF i
    <3>4. F[i] = F[k + 1] \o f[i] /\ G[i] = G[k + 1] \o g[i]
      BY <2>3, <3>2
    <3>5. F[k + 1] \o f[i] \in Seq(Slots)
      BY <2>4, <3>2, <3>3, JoinFacts
    <3>6. Part(F[k + 1] \o f[i], r, G[k + 1] \o g[i])
      BY <2>4, <3>2, <3>3, PartOfJoin
    <3> QED
      BY <3>4, <3>5, <3>6 DEF i
  <2>7. K \in SUBSET Nat
    OBVIOUS
  <2> HIDE DEF K
  <2>8. K = Nat
    BY <2>5, <2>6, <2>7, SetInduction
  <2>9. m - 1 \in K /\ (m - 1) + 1 = m /\ m - 1 < m
    BY <1>2, <2>8
  <2>10. Part(F[m], r, G[m])
    BY <2>9 DEF K
  <2> QED
    BY <2>1, <2>2, <2>10
<1> QED
  BY <1>1, <1>2

-----------------------------------------------------------------------------
(* What makes a score of it.                                               *)

Collects(x) == x.do \in Collective \cup {"gather_timing"}
CommOf(x) == IF x.do = "gather_timing" THEN TimingComm(x.n) ELSE x.on
InTest(x) == x \in EnableCalls \/ (x \in OrdinaryCalls /\ x.timer # NoTimer)

\* In a slot everybody does the same as far as the others are concerned.
InHarmony(u) ==
    /\ u[0] # Idle
    /\ \A r \in Ranks : u[r] # Idle =>
          /\ u[0] \in OrdinaryCalls <=> u[r] \in OrdinaryCalls
          /\ u[0] \in OrdinaryCalls => u[r].timer = u[0].timer
          /\ u[0] \notin OrdinaryCalls => u[r] = u[0]
          /\ Collects(u[r]) => /\ r \in CommOf(u[r]).members
                               /\ \A s \in CommOf(u[r]).members : s \in Ranks /\ u[s] = u[r]
    /\ u[0].do = "timing_allocate" =>
          /\ u[0].n \in Sizes \ {0}
          /\ \A r \in Ranks : u[r] # Idle <=> r < u[0].n

\* What slot j has to do with timers is the business of those below the size that was
\* allocated last.
LastSize(U, i, j) ==
    /\ U[i][0].do = "timing_allocate"
    /\ \A k \in i + 1 .. j - 1 : U[k][0].do # "timing_allocate"
Allotted(U) ==
    \A j \in 1 .. Len(U) : InTest(U[j][0]) =>
        \E i \in 1 .. j - 1 :
            LastSize(U, i, j) /\ \A r \in Ranks : U[j][r] # Idle <=> r < U[i][0].n

Scored(U) ==
    /\ U \in Seq(Slots)
    /\ \A j \in 1 .. Len(U) : InHarmony(U[j])
    /\ Allotted(U)

LEMMA ScoredJoin ==
    ASSUME NEW U, NEW V, Scored(U), Scored(V)
    PROVE  Scored(U \o V)
<1> DEFINE m == Len(U)
           W == U \o V
<1>1. U \in Seq(Slots) /\ V \in Seq(Slots)
  BY DEF Scored
<1> HIDE DEF Slots
<1>2. /\ m \in Nat /\ Len(V) \in Nat /\ Len(W) = m + Len(V) /\ W \in Seq(Slots)
      /\ \A k \in 1 .. m : W[k] = U[k]
      /\ \A k \in 1 .. Len(V) : W[m + k] = V[k]
      /\ \A k \in 1 .. Len(W) : k \in 1 .. m \/ (k - m \in 1 .. Len(V) /\ k = m + (k - m))
  BY <1>1, JoinFacts
<1> HIDE DEF W
<1>3. ASSUME NEW j \in 1 .. Len(W) PROVE InHarmony(W[j])
  <2>1. CASE j \in 1 .. m
    BY <1>2, <2>1 DEF Scored
  <2>2. ASSUME NEW k \in 1 .. Len(V), j = m + k PROVE InHarmony(W[j])
    BY <1>2, <2>2 DEF Scored
  <2> QED
    BY <1>2, <2>1, <2>2
<1>4. ASSUME NEW j \in 1 .. Len(W), InTest(W[j][0])
      PROVE  \E i \in 1 .. j - 1 : LastSize(W, i, j) /\ \A r \in Ranks : W[j][r] # Idle <=> r < W[i][0].n
  <2>1. CASE j \in 1 .. m
    <3>1. PICK i \in 1 .. j - 1 : LastSize(U, i, j) /\ \A r \in Ranks : U[j][r] # Idle <=> r < U[i][0].n
      BY <1>2, <1>4, <2>1 DEF Scored, Allotted
    <3>2. \A k \in i .. j : k \in 1 .. m /\ W[k] = U[k]
      BY <1>2, <2>1
    <3>3. i \in i .. j /\ j \in i .. j /\ \A k \in i + 1 .. j - 1 : k \in i .. j
      OBVIOUS
    <3>4. LastSize(W, i, j)
      BY <3>1, <3>2, <3>3 DEF LastSize
    <3> QED
      BY <3>1, <3>2, <3>3, <3>4
  <2>2. ASSUME NEW l \in 1 .. Len(V), j = m + l
        PROVE  \E i \in 1 .. j - 1 : LastSize(W, i, j) /\ \A r \in Ranks : W[j][r] # Idle <=> r < W[i][0].n
    <3>1. PICK i \in 1 .. l - 1 : LastSize(V, i, l) /\ \A r \in Ranks : V[l][r] # Idle <=> r < V[i][0].n
      BY <1>2, <1>4, <2>2 DEF Scored, Allotted
    <3>2. W[m + i] = V[i] /\ W[j] = V[l] /\ m + i \in 1 .. j - 1
      <4>1. i \in 1 .. Len(V) /\ i < l
        BY <1>2
      <4>2. W[m + i] = V[i] /\ W[m + l] = V[l]
        BY <1>2, <4>1
      <4>3. m + i \in 1 .. j - 1
        BY <1>2, <2>2, <4>1
      <4> QED
        BY <2>2, <4>2, <4>3
    <3>3. ASSUME NEW k \in (m + i) + 1 .. j - 1 PROVE W[k][0].do # "timing_allocate"
      <4>1. k - m \in i + 1 .. l - 1 /\ k - m \in 1 .. Len(V) /\ k = m + (k - m)
        BY <1>2, <2>2, <3>3
      <4>2. W[k] = V[k - m]
        BY <1>2, <4>1
      <4> QED
        BY <3>1, <4>1, <4>2 DEF LastSize
    <3>4. LastSize(W, m + i, j)
      BY <3>1, <3>2, <3>3 DEF LastSize
    <3> QED
      BY <3>1, <3>2, <3>4
  <2> QED
    BY <1>2, <2>1, <2>2
<1>5. Scored(W)
  BY <1>2, <1>3, <1>4 DEF Scored, Allotted
<1> QED
  BY <1>5 DEF W

LEMMA ScoredFlatten ==
    ASSUME NEW m \in Nat, NEW f, f = [i \in 1 .. m |-> f[i]], \A i \in 1 .. m : Scored(f[i])
    PROVE  Scored(FlattenSeq(f)) /\ f \in Seq(Seq(Slots)) /\ Len(f) = m
<1>1. f \in [1 .. m -> Seq(Slots)]
  BY DEF Scored
<1> HIDE DEF Slots
<1>2. f \in Seq(Seq(Slots)) /\ Len(f) = m
  BY <1>1, FunctionsAreSequences
<1>3. CASE m = 0
  <2>1. f = <<>> /\ Len(<<>>) = 0 /\ <<>> \in Seq(Slots)
    BY <1>2, <1>3
  <2>2. Scored(<<>>)
    BY <2>1 DEF Scored, Allotted
  <2> QED
    BY <1>2, <2>1, <2>2 DEF FlattenSeq
<1>4. CASE m # 0
  <2> DEFINE G == {x \in Nat \X Seq(Slots) : Scored(x[2])}
  <2>1. f # <<>> /\ 1 \in 1 .. m
    BY <1>2, <1>4
  <2>2. <<1, f[1]>> \in G
    BY <1>1, <2>1
  <2>3. ASSUME NEW i \in 1 .. Len(f) - 1, NEW u \in Seq(Slots), <<i, u>> \in G
        PROVE  <<i + 1, u \o f[i + 1]>> \in G
    <3>1. i + 1 \in 1 .. m /\ i + 1 \in Nat
      BY <1>2
    <3>2. Scored(u) /\ Scored(f[i + 1])
      BY <2>3, <3>1
    <3>3. Scored(u \o f[i + 1])
      BY <3>2, ScoredJoin
    <3>4. u \o f[i + 1] \in Seq(Slots)
      BY <3>3 DEF Scored
    <3> QED
      BY <3>1, <3>3, <3>4
  <2> HIDE DEF G
  <2>4. <<Len(f), FlattenSeq(f)>> \in G
    BY <1>2, <2>1, <2>2, <2>3, FlattenInduction
  <2> QED
    BY <1>2, <2>4 DEF G
<1> QED
  BY <1>3, <1>4

\* The part each rank has in a block, and in a gathering.
LEMMA BlockCallsType ==
    ASSUME NEW a \in Options, NEW n \in 1 .. NRanks, n \in Sizes, NEW r \in Ranks
    PROVE  /\ BlockCalls(a, r, n) \in Seq(Calls) /\ Len(BlockCalls(a, r, n)) \in Nat
           /\ BlockCalls(a, r, n)[1] = [do |-> "MPI_Comm_split", on |-> World, timer |-> NoTimer]
           /\ BlockCalls(a, r, n)[1] \in OrdinaryCalls
           /\ r < n => /\ BlockCalls(a, r, n)[2] = Allocation(n)
                       /\ Allocation(n) \in SizeCalls
                       /\ Len(BlockCalls(a, r, n)) = 2 + Len(Test(a, r, n))
                       /\ \A k \in 3 .. 2 + Len(Test(a, r, n)) :
                             BlockCalls(a, r, n)[k] = Test(a, r, n)[k - 2]
           /\ ~(r < n) => Len(BlockCalls(a, r, n)) = 1
<1> DEFINE x == [do |-> "MPI_Comm_split", on |-> World, timer |-> NoTimer]
           y == Allocation(n)
           t == Test(a, r, n)
<1>1. x \in OrdinaryCalls
  BY OrdinaryAre DEF OrdinaryCalls, World, Comm, Communicators, Names
<1>2. y \in SizeCalls
  BY DEF SizeCalls, Allocation
<1>3. r < n => t \in Seq(Calls)
  <2>1. ASSUME r < n PROVE Pair(a, n, r, r)
    <3>1. NRanks \in Nat \ {0}
      BY CommOpsAssumption
    <3> QED
      BY <2>1, <3>1 DEF Pair, Ranks
  <2> QED
    BY <2>1, TestsTogether DEF Together
<1>4. BlockCalls(a, r, n) = <<x>> \o (IF r < n THEN <<y>> \o t ELSE <<>>)
  BY DEF BlockCalls, When, Call
<1>5. x \in Calls /\ y \in Calls
  BY <1>1, <1>2 DEF Calls
<1> HIDE DEF x, y, t, Calls
<1>6. CASE r < n
  <2>1. t \in Seq(Calls) /\ BlockCalls(a, r, n) = <<x>> \o (<<y>> \o t)
    BY <1>3, <1>4, <1>6
  <2>2. /\ <<x>> \o (<<y>> \o t) \in Seq(Calls) /\ Len(<<x>> \o (<<y>> \o t)) = 2 + Len(t)
        /\ (<<x>> \o (<<y>> \o t))[1] = x /\ (<<x>> \o (<<y>> \o t))[2] = y
        /\ \A k \in 3 .. 2 + Len(t) : (<<x>> \o (<<y>> \o t))[k] = t[k - 2]
    BY <1>5, <2>1
  <2> QED
    BY <1>1, <1>2, <1>6, <2>1, <2>2 DEF x, y, t
<1>7. CASE ~(r < n)
  <2>1. BlockCalls(a, r, n) = <<x>>
    BY <1>4, <1>7
  <2>2. <<x>> \in Seq(Calls) /\ Len(<<x>>) = 1 /\ <<x>>[1] = x
    BY <1>5
  <2> QED
    BY <1>1, <1>7, <2>1, <2>2 DEF x
<1> QED
  BY <1>6, <1>7

LEMMA KindsDiffer ==
    /\ \A x \in OrdinaryCalls : x.do \in Ordinary /\ x \notin EnableCalls /\ x \notin SizeCalls
                                  /\ x.on \in Communicators /\ x.timer \in Timers \cup {NoTimer}
                                  /\ x.do # "gather_timing" /\ x.do # "timing_allocate" /\ x.do # "enable"
    /\ \A x \in EnableCalls : x.do = "enable" /\ x.enabled \in BOOLEAN /\ ~Collects(x)
                                /\ x \notin OrdinaryCalls /\ x \notin SizeCalls
    /\ \A x \in SizeCalls : x.do \in {"timing_allocate", "gather_timing"} /\ x.n \in Sizes
                              /\ x \notin OrdinaryCalls /\ x \notin EnableCalls
<1> DEFINE D(x) == x.do
<1>1. "enable" \notin Ordinary /\ "gather_timing" \notin Ordinary /\ "timing_allocate" \notin Ordinary
  BY DEF Ordinary, Collective, Blocking
<1>2. \A x \in OrdinaryCalls : x.do \in Ordinary /\ x.on \in Communicators /\ x.timer \in Timers \cup {NoTimer}
  BY DEF OrdinaryCalls
<1>3. \A x \in EnableCalls : x.do = "enable" /\ x.enabled \in BOOLEAN
  BY DEF EnableCalls
<1>4. \A x \in SizeCalls : x.do \in {"timing_allocate", "gather_timing"} /\ x.n \in Sizes
  BY DEF SizeCalls
<1>5. "enable" \notin Collective \cup {"gather_timing"}
  BY DEF Collective, Blocking
<1>6. \A x \in EnableCalls : ~Collects(x)
  BY <1>3, <1>5 DEF Collects
<1> QED
  BY <1>1, <1>2, <1>3, <1>4, <1>6

LEMMA BlockIs ==
    ASSUME NEW a \in Options, NEW n \in 1 .. NRanks, n \in Sizes
    PROVE  LET U == Block(a, n) IN
           /\ U \in Seq(Slots) /\ Len(U) = 2 + Len(Test(a, 0, n)) /\ Len(Test(a, 0, n)) \in Nat
           /\ \A r \in Ranks : U[1][r] = [do |-> "MPI_Comm_split", on |-> World, timer |-> NoTimer]
           /\ \A r \in Ranks : U[2][r] = IF r < n THEN Allocation(n) ELSE Idle
           /\ \A k \in 3 .. Len(U) : \A r \in Ranks :
                 U[k][r] = IF r < n THEN Test(a, r, n)[k - 2] ELSE Idle
           /\ \A r \in Ranks : r < n => Len(BlockCalls(a, r, n)) = Len(U)
           /\ \A r \in Ranks : r < n => \A k \in 1 .. Len(U) : U[k][r] = BlockCalls(a, r, n)[k]
<1> DEFINE U == Block(a, n)
           L == 2 + Len(Test(a, 0, n))
           W(k) == [r \in Ranks |-> IF k = 1 \/ r < n THEN BlockCalls(a, r, n)[k] ELSE Idle]
<1>1. NRanks \in Nat \ {0} /\ 0 \in Ranks /\ n \in Nat \ {0} /\ Ranks \subseteq Nat
  BY CommOpsAssumption DEF Ranks
<1>2. ASSUME NEW r \in Ranks, r < n
      PROVE  /\ Len(Test(a, r, n)) = Len(Test(a, 0, n)) /\ Len(Test(a, 0, n)) \in Nat
             /\ Len(BlockCalls(a, r, n)) = L
  <2>1. Pair(a, n, 0, r)
    BY <1>1, <1>2 DEF Pair, Ranks
  <2>2. Together(n, 0, r, Test(a, 0, n), Test(a, r, n))
    BY <2>1, TestsTogether
  <2>3. Len(Test(a, r, n)) = Len(Test(a, 0, n)) /\ Len(Test(a, 0, n)) \in Nat
    BY <2>2 DEF Together
  <2> QED
    BY <1>2, <2>3, BlockCallsType
<1>3. L \in Nat /\ Len(Test(a, 0, n)) \in Nat /\ L >= 2
  BY <1>1, <1>2
<1>4. U = [k \in 1 .. L |-> W(k)]
  BY DEF Block
<1> HIDE DEF U, L
<1>5. ASSUME NEW k \in 1 .. L PROVE W(k) \in Slots
  <2>1. ASSUME NEW r \in Ranks PROVE W(k)[r] \in Calls \cup {Idle}
    <3>1. BlockCalls(a, r, n) \in Seq(Calls) /\ Len(BlockCalls(a, r, n)) \in Nat
          /\ Len(BlockCalls(a, r, n)) >= 1
      BY <1>2, <1>3, BlockCallsType
    <3>2. k = 1 \/ r < n => k \in 1 .. Len(BlockCalls(a, r, n))
      BY <1>2, <1>3, <1>5, <3>1
    <3> HIDE DEF Calls
    <3>3. k = 1 \/ r < n => BlockCalls(a, r, n)[k] \in Calls
      BY <3>1, <3>2
    <3> QED
      BY <3>3
  <2> HIDE DEF Calls
  <2> QED
    BY <2>1 DEF Slots
<1>6. \A k \in 1 .. L : U[k] = W(k)
  BY <1>4
<1>7. U \in [1 .. L -> Slots]
  BY <1>4, <1>5
<1> HIDE DEF W
<1>8. U \in Seq(Slots) /\ Len(U) = L
  BY <1>3, <1>7, FunctionsAreSequences
<1>9. \A k \in 1 .. L : \A r \in Ranks : U[k][r] = IF k = 1 \/ r < n THEN BlockCalls(a, r, n)[k] ELSE Idle
  BY <1>6 DEF W
<1>10. 1 \in 1 .. L /\ 2 \in 1 .. L /\ \A k \in 3 .. L : k \in 1 .. L /\ k # 1
  BY <1>3
<1>11. \A r \in Ranks : U[1][r] = [do |-> "MPI_Comm_split", on |-> World, timer |-> NoTimer]
  BY <1>9, <1>10, BlockCallsType
<1>12. \A r \in Ranks : U[2][r] = IF r < n THEN Allocation(n) ELSE Idle
  BY <1>9, <1>10, BlockCallsType
<1>13. ASSUME NEW k \in 3 .. L, NEW r \in Ranks
       PROVE  U[k][r] = IF r < n THEN Test(a, r, n)[k - 2] ELSE Idle
  <2>1. r < n => BlockCalls(a, r, n)[k] = Test(a, r, n)[k - 2]
    BY <1>2, BlockCallsType DEF L
  <2> QED
    BY <1>9, <1>10, <2>1
<1> QED
  BY <1>2, <1>3, <1>8, <1>9, <1>11, <1>12, <1>13 DEF U, L

LEMMA TailOfOne ==
    ASSUME NEW X, NEW s \in Seq(X), Len(s) = 1
    PROVE  s # <<>> /\ Head(s) = s[1] /\ Tail(s) = <<>>
<1>1. s # <<>> /\ Head(s) = s[1]
  OBVIOUS
<1>2. Tail(s) \in Seq(X) /\ Len(Tail(s)) = 0
  BY <1>1, HeadTailProperties
<1> QED
  BY <1>1, <1>2, EmptySeq

LEMMA BlockParts ==
    ASSUME NEW a \in Options, NEW n \in 1 .. NRanks, n \in Sizes, NEW r \in Ranks
    PROVE  Part(Block(a, n), r, BlockCalls(a, r, n))
<1> DEFINE U == Block(a, n)
           s == BlockCalls(a, r, n)
<1>1. /\ U \in Seq(Slots) /\ Len(U) \in Nat /\ Len(U) >= 2
      /\ U[1][r] = [do |-> "MPI_Comm_split", on |-> World, timer |-> NoTimer]
      /\ U[2][r] = IF r < n THEN Allocation(n) ELSE Idle
      /\ \A k \in 3 .. Len(U) : U[k][r] = IF r < n THEN Test(a, r, n)[k - 2] ELSE Idle
      /\ r < n => Len(s) = Len(U) /\ \A k \in 1 .. Len(U) : U[k][r] = s[k]
  BY BlockIs
<1>2. /\ s \in Seq(Calls) /\ s[1] \in OrdinaryCalls
      /\ s[1] = [do |-> "MPI_Comm_split", on |-> World, timer |-> NoTimer]
      /\ ~(r < n) => Len(s) = 1
  BY BlockCallsType
<1> HIDE DEF U, s, Slots
<1>3. CASE r < n
  <2> HIDE DEF Calls
  <2> QED
    BY <1>1, <1>2, <1>3, PartOfAll DEF U, s
<1>4. CASE ~(r < n)
  <2> DEFINE f == [j \in 0 .. Len(U) |-> IF j = 0 THEN s ELSE <<>>]
  <2>1. <<>> \in Seq(Calls)
    OBVIOUS
  <2>2. s[1] \in Calls
    BY <1>2 DEF Calls
  <2>3. U[1][r] # Idle
    BY <1>1, <1>2, <2>2, IdleIsNoCall
  <2> HIDE DEF Calls
  <2>4. s # <<>> /\ Head(s) = s[1] /\ Tail(s) = <<>>
    BY <1>2, <1>4, TailOfOne
  <2>5. f \in [0 .. Len(U) -> Seq(Calls)] /\ f[0] = s /\ \A j \in 1 .. Len(U) : f[j] = <<>>
    BY <1>1, <1>2, <2>1
  <2>6. \A j \in 2 .. Len(U) : U[j][r] = Idle
    BY <1>1, <1>4
  <2> HIDE DEF f
  <2>7. ASSUME NEW j \in 1 .. Len(U)
        PROVE  IF U[j][r] = Idle THEN f[j - 1] = f[j]
               ELSE f[j - 1] # <<>> /\ Head(f[j - 1]) = U[j][r] /\ Tail(f[j - 1]) = f[j]
    <3>1. CASE j = 1
      <4>1. f[j - 1] = s /\ f[j] = <<>> /\ U[j][r] = s[1] /\ U[j][r] # Idle
        <5>1. j - 1 = 0
          BY <3>1
        <5> QED
          BY <1>1, <1>2, <2>3, <2>5, <3>1, <5>1
      <4> QED
        BY <2>4, <4>1
    <3>2. CASE j # 1
      <4>1. j \in 2 .. Len(U) /\ j - 1 \in 1 .. Len(U)
        BY <1>1, <3>2
      <4> QED
        BY <2>5, <2>6, <4>1
    <3> QED
      BY <3>1, <3>2
  <2>8. IsRest(U, r, s, f)
    BY <1>1, <2>5, <2>7 DEF IsRest
  <2> QED
    BY <2>8 DEF Part, U, s
<1> QED
  BY <1>3, <1>4

LEMMA WorldIs == World \in Communicators /\ World.members = Ranks /\ TimingComm(0) = World
  BY DEF World, Comm, Communicators, Names, TimingComm

LEMMA BlockScored ==
    ASSUME NEW a \in Options, NEW n \in 1 .. NRanks, n \in Sizes
    PROVE  Scored(Block(a, n))
<1> DEFINE U == Block(a, n)
           x == [do |-> "MPI_Comm_split", on |-> World, timer |-> NoTimer]
           y == Allocation(n)
           t(r) == Test(a, r, n)
<1>1. /\ U \in Seq(Slots) /\ Len(U) = 2 + Len(t(0)) /\ Len(t(0)) \in Nat
      /\ \A r \in Ranks : U[1][r] = x
      /\ \A r \in Ranks : U[2][r] = IF r < n THEN y ELSE Idle
      /\ \A k \in 3 .. Len(U) : \A r \in Ranks : U[k][r] = IF r < n THEN t(r)[k - 2] ELSE Idle
  BY BlockIs
<1>2. NRanks \in Nat \ {0} /\ 0 \in Ranks /\ n \in Nat \ {0} /\ Ranks \subseteq Nat /\ 0 < n
      /\ \A r \in Ranks : r < n <=> r \in 0 .. n - 1
      /\ 0 .. n - 1 \subseteq Ranks
  BY CommOpsAssumption DEF Ranks
<1>3. \A r, s \in Ranks : r < n /\ s < n => Together(n, r, s, t(r), t(s))
  <2>1. SUFFICES ASSUME NEW r \in Ranks, NEW s \in Ranks, r < n, s < n PROVE Pair(a, n, r, s)
    BY TestsTogether
  <2> QED
    BY <1>2, <2>1 DEF Pair, Ranks
<1>4. x \in OrdinaryCalls /\ x.on = World /\ x.timer = NoTimer /\ x.do = "MPI_Comm_split"
  BY OrdinaryAre, WorldIs DEF OrdinaryCalls
<1>5. y \in SizeCalls /\ y.do = "timing_allocate" /\ y.n = n
  BY DEF SizeCalls, Allocation
<1> HIDE DEF U, x, y, t, Slots
<1>6. InHarmony(U[1])
  <2>1. x # Idle /\ CommOf(x) = World /\ x.do # "timing_allocate"
    <3>1. x \in Calls
      BY <1>4 DEF Calls
    <3> QED
      BY <1>4, <3>1, IdleIsNoCall DEF CommOf
  <2> QED
    BY <1>1, <1>2, <1>4, <2>1, WorldIs DEF InHarmony
<1>7. InHarmony(U[2])
  <2>1. y # Idle /\ ~Collects(y) /\ y \notin OrdinaryCalls
    <3>1. y \in Calls
      BY <1>5 DEF Calls
    <3>2. "timing_allocate" \notin Collective \cup {"gather_timing"}
      BY DEF Collective, Blocking
    <3> QED
      BY <1>5, <3>1, <3>2, IdleIsNoCall, KindsDiffer DEF Collects
  <2>2. U[2][0] = y /\ \A r \in Ranks : U[2][r] # Idle <=> r < n
    BY <1>1, <1>2, <2>1
  <2>3. \A r \in Ranks : U[2][r] # Idle => U[2][r] = y
    BY <1>1
  <2>4. n \in Sizes \ {0}
    BY <1>2
  <2> QED
    BY <1>5, <2>1, <2>2, <2>3, <2>4 DEF InHarmony
<1>8. ASSUME NEW k \in 3 .. Len(U), NEW r \in Ranks, NEW s \in Ranks, r < n, s < n
      PROVE  /\ U[k][r] \in OrdinaryCalls \cup EnableCalls
             /\ Matches(n, r, s, U[k][r], U[k][s])
  <2>1. k - 2 \in 1 .. Len(t(r)) /\ Len(t(r)) = Len(t(0))
    BY <1>1, <1>2, <1>3, <1>8 DEF Together
  <2>2. Matches(n, r, s, t(r)[k - 2], t(s)[k - 2])
    BY <1>3, <1>8, <2>1 DEF Together
  <2>3. U[k][r] = t(r)[k - 2] /\ U[k][s] = t(s)[k - 2]
    BY <1>1, <1>8
  <2> QED
    BY <2>2, <2>3 DEF Matches
<1>9. ASSUME NEW k \in 3 .. Len(U) PROVE InHarmony(U[k]) /\ U[k][0].do # "timing_allocate"
  <2>1. \A r \in Ranks : r < n => U[k][r] \in OrdinaryCalls \cup EnableCalls /\ U[k][r] # Idle
    <3>1. \A z \in OrdinaryCalls \cup EnableCalls : z # Idle
      BY IdleIsNoCall DEF Calls
    <3> QED
      BY <1>8, <3>1
  <2>2. \A r \in Ranks : U[k][r] # Idle <=> r < n
    BY <1>1, <2>1
  <2>3. U[k][0] # Idle /\ U[k][0] \in OrdinaryCalls \cup EnableCalls /\ U[k][0].do # "timing_allocate"
    <3>1. \A z \in OrdinaryCalls \cup EnableCalls : z.do # "timing_allocate"
      BY KindsDiffer
    <3> QED
      BY <1>2, <2>1, <3>1
  <2>4. ASSUME NEW r \in Ranks, U[k][r] # Idle
        PROVE  /\ U[k][0] \in OrdinaryCalls <=> U[k][r] \in OrdinaryCalls
               /\ U[k][0] \in OrdinaryCalls => U[k][r].timer = U[k][0].timer
               /\ U[k][0] \notin OrdinaryCalls => U[k][r] = U[k][0]
    <3>1. Matches(n, 0, r, U[k][0], U[k][r])
      BY <1>2, <1>8, <2>2, <2>4
    <3> QED
      BY <3>1, KindsDiffer DEF Matches
  <2>5. ASSUME NEW r \in Ranks, U[k][r] # Idle, Collects(U[k][r])
        PROVE  /\ r \in CommOf(U[k][r]).members
               /\ \A s \in CommOf(U[k][r]).members : s \in Ranks /\ U[k][s] = U[k][r]
    <3>1. r < n /\ U[k][r] \in OrdinaryCalls
      BY <2>1, <2>2, <2>5, KindsDiffer
    <3>2. CommOf(U[k][r]) = U[k][r].on /\ U[k][r].do \in Collective
      BY <2>5, <3>1, KindsDiffer DEF CommOf, Collects
    <3>3. r \in U[k][r].on.members /\ U[k][r].on.members \subseteq 0 .. n - 1
      <4>1. Matches(n, r, r, U[k][r], U[k][r])
        BY <1>8, <3>1
      <4> QED
        BY <3>1, <3>2, <4>1, KindsDiffer DEF Matches, Joins
    <3>4. ASSUME NEW s \in U[k][r].on.members PROVE s \in Ranks /\ U[k][s] = U[k][r]
      <4>1. s \in Ranks /\ s < n
        BY <1>2, <3>3, <3>4
      <4>2. Matches(n, r, s, U[k][r], U[k][s])
        BY <1>8, <3>1, <4>1
      <4> QED
        BY <3>1, <3>2, <3>4, <4>1, <4>2, KindsDiffer DEF Matches, Joins
    <3> QED
      BY <3>2, <3>3, <3>4
  <2> QED
    BY <2>3, <2>4, <2>5 DEF InHarmony
<1>10. \A k \in 1 .. Len(U) : k = 1 \/ k = 2 \/ k \in 3 .. Len(U)
  BY <1>1
<1>11. Allotted(U)
  <2>1. SUFFICES ASSUME NEW j \in 1 .. Len(U), InTest(U[j][0])
                 PROVE  \E i \in 1 .. j - 1 : LastSize(U, i, j)
                                                /\ \A r \in Ranks : U[j][r] # Idle <=> r < U[i][0].n
    BY DEF Allotted
  <2>2. j # 1 /\ j # 2
    <3>1. U[1][0] = x /\ U[2][0] = y
      BY <1>1, <1>2
    <3>2. ~InTest(x) /\ ~InTest(y)
      BY <1>4, <1>5, KindsDiffer DEF InTest
    <3> QED
      BY <2>1, <3>1, <3>2
  <2>3. j \in 3 .. Len(U) /\ 2 \in 1 .. j - 1 /\ \A k \in 2 + 1 .. j - 1 : k \in 3 .. Len(U)
    BY <1>1, <1>10, <2>2
  <2>4. U[2][0] = y
    BY <1>1, <1>2
  <2>5. LastSize(U, 2, j)
    BY <1>5, <1>9, <2>3, <2>4 DEF LastSize
  <2>6. \A r \in Ranks : U[j][r] # Idle <=> r < n
    <3>1. \A z \in OrdinaryCalls \cup EnableCalls : z # Idle
      BY IdleIsNoCall DEF Calls
    <3> QED
      BY <1>1, <1>8, <2>3, <3>1
  <2> QED
    BY <1>5, <2>3, <2>4, <2>5, <2>6
<1> QED
  BY <1>1, <1>6, <1>7, <1>9, <1>10, <1>11 DEF Scored, U

LEMMA SizesAre ==
    /\ \A n \in Sizes : n \in Nat /\ n <= NRanks
    /\ \A n \in Sizes \ {0} : n \in 1 .. NRanks
    /\ \A i \in 1 .. Len(Sweep) : Sweep[i] \in Sizes \ {0} /\ Sweep[i] \in 1 .. NRanks
    /\ Len(Sweep) \in Nat /\ 0 \in Sizes
<1>1. Sweep \in Seq(1 .. NRanks) /\ NRanks \in Nat \ {0}
  BY CommOpsAssumption
<1>2. \A i \in 1 .. Len(Sweep) : Sweep[i] \in 1 .. NRanks /\ Sweep[i] \in ToSet(Sweep)
  BY <1>1 DEF ToSet
<1>3. \A n \in ToSet(Sweep) : n \in 1 .. NRanks
  BY <1>1 DEF ToSet
<1>4. Len(Sweep) \in Nat
  BY <1>1
<1> QED
  BY <1>1, <1>2, <1>3, <1>4 DEF Sizes

LEMMA TimingCommIs ==
    ASSUME NEW n \in Sizes
    PROVE  /\ TimingComm(n) \in Communicators /\ TimingComm(n).members \subseteq Ranks
           /\ \A r \in Ranks : r \in TimingComm(n).members <=> n = 0 \/ r < n
           /\ 0 \in TimingComm(n).members
<1>1. NRanks \in Nat \ {0} /\ n \in Nat /\ n <= NRanks /\ Ranks = 0 .. NRanks - 1
  BY CommOpsAssumption, SizesAre DEF Ranks
<1>2. CASE n = 0
  BY <1>1, <1>2, WorldIs
<1>3. CASE n # 0
  <2>1. 0 .. n - 1 \in SUBSET Ranks
    BY <1>1
  <2>2. TimingComm(n) = Comm(<<"sub", n>>, 0 .. n - 1)
    BY <1>3 DEF TimingComm, Sub
  <2>3. TimingComm(n).members = 0 .. n - 1
    BY <2>2 DEF Comm
  <2>4. TimingComm(n) \in Communicators
    BY <1>1, <2>1, <2>2, CommunicatorsAre
  <2> QED
    BY <1>1, <1>3, <2>1, <2>3, <2>4
<1> QED
  BY <1>2, <1>3

LEMMA GatheringIs ==
    ASSUME NEW n \in Sizes
    PROVE  /\ Scored(Gathering(n))
           /\ \A r \in Ranks : Part(Gathering(n), r, IF n = 0 \/ r < n THEN Gather(n) ELSE <<>>)
<1> DEFINE y == [do |-> "gather_timing", n |-> n]
           u == [r \in Ranks |-> IF n = 0 \/ r < n THEN y ELSE Idle]
           U == Gathering(n)
<1>1. y \in SizeCalls /\ y.do = "gather_timing" /\ y.n = n
  BY DEF SizeCalls
<1>2. 0 \in Ranks /\ n \in Nat /\ NRanks \in Nat
  BY CommOpsAssumption, SizesAre DEF Ranks
<1>3. U = <<u>>
  BY DEF Gathering
<1>4. y \in Calls /\ y # Idle
  <2>1. y \in Calls
    BY <1>1 DEF Calls
  <2> QED
    BY <2>1, IdleIsNoCall
<1> HIDE DEF y, U
<1>5. u \in Slots
  <2> HIDE DEF Calls
  <2> QED
    BY <1>4 DEF Slots
<1>6. \A r \in Ranks : u[r] = IF n = 0 \/ r < n THEN y ELSE Idle
  OBVIOUS
<1> HIDE DEF u, Slots
<1>7. U \in Seq(Slots) /\ Len(U) = 1 /\ U[1] = u
  BY <1>3, <1>5
<1>8. u[0] = y
  BY <1>2, <1>6
<1>9. InHarmony(u)
  <2>1. CommOf(y) = TimingComm(n) /\ y \notin OrdinaryCalls /\ y.do # "timing_allocate"
    BY <1>1, KindsDiffer DEF CommOf
  <2>2. \A r \in Ranks : u[r] # Idle <=> r \in TimingComm(n).members
    BY <1>4, <1>6, TimingCommIs
  <2>3. \A r \in Ranks : u[r] # Idle => u[r] = y
    BY <1>6
  <2>4. \A s \in TimingComm(n).members : s \in Ranks /\ u[s] = y
    BY <2>2, <2>3, TimingCommIs
  <2> QED
    BY <1>4, <1>8, <2>1, <2>2, <2>3, <2>4 DEF InHarmony
<1>10. Scored(U)
  <2>1. ~InTest(y)
    BY <1>1, KindsDiffer DEF InTest
  <2>2. \A j \in 1 .. Len(U) : U[j] = u
    BY <1>7
  <2>3. Allotted(U)
    BY <1>8, <2>1, <2>2 DEF Allotted
  <2> QED
    BY <1>7, <1>9, <2>2, <2>3 DEF Scored
<1>11. ASSUME NEW r \in Ranks PROVE Part(U, r, IF n = 0 \/ r < n THEN Gather(n) ELSE <<>>)
  <2>1. CASE n = 0 \/ r < n
    <3>1. Gather(n) = <<y>>
      BY DEF Gather, y
    <3> HIDE DEF Calls
    <3>2. <<y>> \in Seq(Calls) /\ Len(<<y>>) = 1 /\ <<y>>[1] = y
      BY <1>4
    <3>3. \A j \in 1 .. Len(U) : U[j][r] = <<y>>[j]
      BY <1>6, <1>7, <2>1, <3>2
    <3>4. Part(U, r, <<y>>)
      BY <1>7, <3>2, <3>3, PartOfAll
    <3> QED
      BY <2>1, <3>1, <3>4
  <2>2. CASE ~(n = 0 \/ r < n)
    <3>1. Len(U) \in Nat /\ \A j \in 1 .. Len(U) : U[j][r] = Idle
      BY <1>6, <1>7, <2>2
    <3>2. Part(U, r, <<>>)
      BY <3>1, PartOfNone
    <3> QED
      BY <2>2, <3>2
  <2> QED
    BY <2>1, <2>2
<1> QED
  BY <1>10, <1>11 DEF U

\* The programs of the ranks are their parts of one score.
LEMMA ProgramsAreParts ==
    ASSUME NEW a \in Options
    PROVE  Scored(Score(a)) /\ \A r \in Ranks : Part(Score(a), r, Program(a, r))
<1> DEFINE m == Len(Sweep)
           B == [i \in 1 .. m |-> Block(a, Sweep[i])]
           C == [i \in 1 .. m |-> Gathering(Sweep[i])]
           b(r) == [i \in 1 .. m |->
                      Call("MPI_Comm_split", World, NoTimer)
                        \o When(r < Sweep[i],
                              <<[do |-> "timing_allocate", n |-> Sweep[i]]>> \o Test(a, r, Sweep[i]))]
           c(r) == [i \in 1 .. m |-> When(r < Sweep[i], Gather(Sweep[i]))]
<1>1. m \in Nat /\ \A i \in 1 .. m : Sweep[i] \in Sizes \ {0} /\ Sweep[i] \in 1 .. NRanks
  BY SizesAre
<1>2. Score(a) = FlattenSeq(B) \o Gathering(0) \o FlattenSeq(C)
  BY DEF Score
<1>3. \A r : Program(a, r) = FlattenSeq(b(r)) \o Gather(0) \o FlattenSeq(c(r))
  BY DEF Program
<1>4. /\ B = [i \in 1 .. m |-> B[i]] /\ \A i \in 1 .. m : B[i] = Block(a, Sweep[i])
      /\ C = [i \in 1 .. m |-> C[i]] /\ \A i \in 1 .. m : C[i] = Gathering(Sweep[i])
  OBVIOUS
<1>5. \A r : /\ b(r) = [i \in 1 .. m |-> b(r)[i]]
             /\ \A i \in 1 .. m : b(r)[i] = BlockCalls(a, r, Sweep[i])
             /\ c(r) = [i \in 1 .. m |-> c(r)[i]]
             /\ \A i \in 1 .. m : c(r)[i] = IF r < Sweep[i] THEN Gather(Sweep[i]) ELSE <<>>
  BY DEF BlockCalls, Allocation, When
<1> HIDE DEF B, C, b, c, m, Slots, Calls
<1>6. Scored(FlattenSeq(B)) /\ B \in Seq(Seq(Slots)) /\ Len(B) = m
  <2>1. \A i \in 1 .. m : Scored(B[i])
    BY <1>1, <1>4, BlockScored
  <2> QED
    BY <1>1, <1>4, <2>1, ScoredFlatten
<1>7. Scored(FlattenSeq(C)) /\ C \in Seq(Seq(Slots)) /\ Len(C) = m
  <2>1. \A i \in 1 .. m : Scored(C[i])
    BY <1>1, <1>4, GatheringIs
  <2> QED
    BY <1>1, <1>4, <2>1, ScoredFlatten
<1>8. Scored(Gathering(0)) /\ \A r \in Ranks : Part(Gathering(0), r, Gather(0))
  BY SizesAre, GatheringIs
<1>9. Scored(Score(a))
  BY <1>2, <1>6, <1>7, <1>8, ScoredJoin
<1>10. ASSUME NEW r \in Ranks PROVE Part(Score(a), r, Program(a, r))
  <2> DEFINE br == b(r)
             cr == c(r)
  <2>1. /\ br = [i \in 1 .. m |-> br[i]] /\ \A i \in 1 .. m : br[i] = BlockCalls(a, r, Sweep[i])
        /\ cr = [i \in 1 .. m |-> cr[i]]
        /\ \A i \in 1 .. m : cr[i] = IF r < Sweep[i] THEN Gather(Sweep[i]) ELSE <<>>
    BY <1>5
  <2> HIDE DEF br, cr
  <2>2. /\ \A i \in 1 .. m : br[i] \in Seq(Calls) /\ Part(B[i], r, br[i])
        /\ br \in Seq(Seq(Calls)) /\ Len(br) = m
    <3>1. ASSUME NEW i \in 1 .. m PROVE br[i] \in Seq(Calls) /\ Part(B[i], r, br[i])
      BY <1>1, <1>4, <2>1, BlockCallsType, BlockParts
    <3>2. br \in [1 .. m -> Seq(Calls)]
      BY <2>1, <3>1
    <3> QED
      BY <1>1, <3>1, <3>2, FunctionsAreSequences
  <2>3. /\ \A i \in 1 .. m : cr[i] \in Seq(Calls) /\ Part(C[i], r, cr[i])
        /\ cr \in Seq(Seq(Calls)) /\ Len(cr) = m
    <3>1. ASSUME NEW i \in 1 .. m PROVE cr[i] \in Seq(Calls) /\ Part(C[i], r, cr[i])
      <4> DEFINE n == Sweep[i]
      <4>1. n \in Sizes /\ n # 0
        BY <1>1
      <4>2. C[i] = Gathering(n) /\ cr[i] = IF r < n THEN Gather(n) ELSE <<>>
        BY <1>4, <2>1
      <4> HIDE DEF n
      <4>3. Part(Gathering(n), r, IF n = 0 \/ r < n THEN Gather(n) ELSE <<>>)
        BY <4>1, GatheringIs
      <4>4. [do |-> "gather_timing", n |-> n] \in Calls
        BY <4>1 DEF Calls, SizeCalls
      <4>5. Gather(n) \in Seq(Calls) /\ <<>> \in Seq(Calls)
        BY <4>4 DEF Gather
      <4> QED
        BY <4>1, <4>2, <4>3, <4>5
    <3>2. cr \in [1 .. m -> Seq(Calls)]
      BY <2>1, <3>1
    <3> QED
      BY <1>1, <3>1, <3>2, FunctionsAreSequences
  <2>4. Part(FlattenSeq(B), r, FlattenSeq(br))
    BY <1>1, <1>6, <2>2, PartOfFlatten
  <2>5. Part(FlattenSeq(C), r, FlattenSeq(cr))
    BY <1>1, <1>7, <2>3, PartOfFlatten
  <2>6. FlattenSeq(B) \in Seq(Slots) /\ FlattenSeq(C) \in Seq(Slots) /\ Gathering(0) \in Seq(Slots)
    BY <1>6, <1>7, <1>8 DEF Scored
  <2>7. Part(FlattenSeq(B) \o Gathering(0), r, FlattenSeq(br) \o Gather(0))
    BY <1>8, <2>4, <2>6, PartOfJoin
  <2>8. FlattenSeq(B) \o Gathering(0) \in Seq(Slots)
    BY <2>6, JoinFacts
  <2>9. Part((FlattenSeq(B) \o Gathering(0)) \o FlattenSeq(C), r,
             (FlattenSeq(br) \o Gather(0)) \o FlattenSeq(cr))
    BY <2>5, <2>6, <2>7, <2>8, PartOfJoin
  <2> QED
    BY <1>2, <1>3, <2>9 DEF br, cr
<1> QED
  BY <1>9, <1>10

-----------------------------------------------------------------------------
(* The timeline of a score: what a rank that keeps up with every slot has  *)
(* in its variables after each.                                            *)

Recorded(u, x) == u[0] \in OrdinaryCalls /\ u[0].timer # NoTimer /\ x.enabled
Due(a, u, x) == Recorded(u, x) /\ Len(x.timers[x.size]) + 1 = a.timing_flush_interval
Extended(u, x) == Append(x.timers[x.size], u[0].timer)
Called(u, c) == \E r \in Ranks : u[r] # Idle /\ Collects(u[r]) /\ CommOf(u[r]) = c

Start(a) ==
    [size |-> 0, enabled |-> TRUE,
     timers |-> [n \in Sizes |-> IF n = 0 THEN StartUp ELSE <<>>],
     calls |-> [c \in Comms(a) |-> 0]]
After(a, u, x) ==
    [size |-> IF u[0].do = "timing_allocate" THEN u[0].n ELSE x.size,
     enabled |-> IF u[0].do = "timing_allocate" THEN TRUE
                 ELSE IF u[0].do = "enable" THEN u[0].enabled ELSE x.enabled,
     timers |-> [n \in Sizes |->
                   IF Recorded(u, x) /\ n = x.size
                     THEN IF Due(a, u, x) THEN <<>> ELSE Extended(u, x)
                     ELSE x.timers[n]],
     calls |-> [c \in Comms(a) |->
                  x.calls[c] + (IF Called(u, c) THEN 1 ELSE 0)
                    + (IF Due(a, u, x) /\ c = Sub(x.size) THEN 1 ELSE 0)]]

Length(a) == Len(Score(a))
IsTimeline(T, a, m) ==
    T = [j \in 0 .. m |-> IF j = 0 THEN Start(a) ELSE After(a, Score(a)[j], T[j - 1])]
Timeline(a) == CHOOSE T : IsTimeline(T, a, Length(a))

LEMMA TimelineExists ==
    ASSUME NEW a, NEW m \in Nat
    PROVE  \E T : IsTimeline(T, a, m)
<1> DEFINE K == {k \in Nat : \E T : IsTimeline(T, a, k)}
<1>1. 0 \in K
  <2> DEFINE T == [j \in 0 .. 0 |-> Start(a)]
  <2>1. \A j \in 0 .. 0 : j = 0
    OBVIOUS
  <2>2. IsTimeline(T, a, 0)
    BY <2>1 DEF IsTimeline
  <2> HIDE DEF T
  <2> QED
    BY <2>2
<1>2. ASSUME NEW k \in K PROVE k + 1 \in K
  <2>1. k \in Nat /\ \E T : IsTimeline(T, a, k)
    OBVIOUS
  <2>2. PICK T : IsTimeline(T, a, k)
    BY <2>1
  <2> DEFINE h == [j \in 0 .. k + 1 |-> IF j = 0 THEN Start(a) ELSE After(a, Score(a)[j], T[j - 1])]
  <2> HIDE DEF K
  <2>3. \A j \in 0 .. k : h[j] = T[j]
    <3>1. \A j \in 0 .. k : T[j] = IF j = 0 THEN Start(a) ELSE After(a, Score(a)[j], T[j - 1])
      BY <2>2 DEF IsTimeline
    <3> QED
      BY <3>1, <2>1
  <2>4. \A j \in 0 .. k + 1 : j # 0 => h[j - 1] = T[j - 1]
    <3> HIDE DEF h
    <3>1. \A j \in 0 .. k + 1 : j # 0 => j - 1 \in 0 .. k
      BY <2>1
    <3> QED
      BY <2>3, <3>1
  <2>5. \A j \in 0 .. k + 1 : h[j] = IF j = 0 THEN Start(a) ELSE After(a, Score(a)[j], h[j - 1])
    BY <2>4
  <2>6. h = [j \in 0 .. k + 1 |-> h[j]]
    OBVIOUS
  <2> HIDE DEF h
  <2>7. IsTimeline(h, a, k + 1)
    BY <2>5, <2>6 DEF IsTimeline
  <2> QED
    BY <2>1, <2>7 DEF K
<1>3. K \in SUBSET Nat
  OBVIOUS
<1> HIDE DEF K
<1>4. K = Nat
  BY <1>1, <1>2, <1>3, SetInduction
<1> QED
  BY <1>4 DEF K

LEMMA TimelineIs ==
    ASSUME NEW a \in Options
    PROVE  /\ Length(a) \in Nat
           /\ Timeline(a)[0] = Start(a)
           /\ \A j \in 1 .. Length(a) : Timeline(a)[j] = After(a, Score(a)[j], Timeline(a)[j - 1])
           /\ \A j \in 1 .. Length(a) : Score(a)[j] \in Slots /\ InHarmony(Score(a)[j])
<1>1. Score(a) \in Seq(Slots) /\ \A j \in 1 .. Len(Score(a)) : InHarmony(Score(a)[j])
  BY ProgramsAreParts DEF Scored
<1>2. Length(a) \in Nat /\ \A j \in 1 .. Length(a) : Score(a)[j] \in Slots
  <2> HIDE DEF Slots
  <2> QED
    BY <1>1 DEF Length
<1>3. IsTimeline(Timeline(a), a, Length(a))
  BY <1>2, TimelineExists DEF Timeline
<1>4. \A j \in 0 .. Length(a) :
         Timeline(a)[j] = IF j = 0 THEN Start(a) ELSE After(a, Score(a)[j], Timeline(a)[j - 1])
  BY <1>3 DEF IsTimeline
<1>5. 0 \in 0 .. Length(a) /\ \A j \in 1 .. Length(a) : j \in 0 .. Length(a) /\ j # 0
  BY <1>2
<1> QED
  BY <1>1, <1>2, <1>4, <1>5 DEF Length

\* A slot of a test finds the size of the test in the timeline.
LEMMA Attuned ==
    ASSUME NEW a \in Options, NEW j \in 1 .. Length(a), InTest(Score(a)[j][0])
    PROVE  /\ Timeline(a)[j - 1].size \in Sizes \ {0}
           /\ \A r \in Ranks : Score(a)[j][r] # Idle <=> r < Timeline(a)[j - 1].size
<1> DEFINE U == Score(a)
           T == Timeline(a)
           L == Length(a)
<1>1. L \in Nat /\ L = Len(U) /\ \A k \in 1 .. L : T[k] = After(a, U[k], T[k - 1])
  BY TimelineIs DEF Length
<1>2. \A k \in 1 .. L : T[k].size = IF U[k][0].do = "timing_allocate" THEN U[k][0].n ELSE T[k - 1].size
  <2> SUFFICES ASSUME NEW k \in 1 .. L
               PROVE  T[k].size = IF U[k][0].do = "timing_allocate" THEN U[k][0].n ELSE T[k - 1].size
    OBVIOUS
  <2>1. T[k] = After(a, U[k], T[k - 1])
    BY <1>1
  <2> HIDE DEF U, T, L
  <2> QED
    BY <2>1 DEF After
<1>3. PICK i \in 1 .. j - 1 : LastSize(U, i, j) /\ \A r \in Ranks : U[j][r] # Idle <=> r < U[i][0].n
  BY <1>1, ProgramsAreParts DEF Scored, Allotted
<1>4. U[i][0].n \in Sizes \ {0}
  <2>1. InHarmony(U[i])
    BY <1>1, TimelineIs
  <2> QED
    BY <1>3, <2>1 DEF InHarmony, LastSize
<1> HIDE DEF U, T, L
<1> DEFINE K == {k \in Nat : i + k <= j - 1 => T[i + k].size = U[i][0].n}
<1>5. 0 \in K
  <2>1. i \in 1 .. L
    BY <1>1 DEF L
  <2>2. i + 0 = i
    BY <1>1
  <2>3. T[i].size = U[i][0].n
    BY <1>2, <1>3, <2>1 DEF LastSize
  <2> QED
    BY <2>2, <2>3
<1>6. ASSUME NEW k \in K PROVE k + 1 \in K
  <2>1. SUFFICES ASSUME i + (k + 1) <= j - 1 PROVE T[i + (k + 1)].size = U[i][0].n
    OBVIOUS
  <2> DEFINE m == i + (k + 1)
  <2>2. k \in Nat /\ m \in 1 .. L /\ m \in i + 1 .. j - 1 /\ m - 1 = i + k /\ i + k <= j - 1
    BY <1>1, <2>1 DEF L
  <2> HIDE DEF m
  <2>3. T[m - 1].size = U[i][0].n
    BY <2>2
  <2>4. U[m][0].do # "timing_allocate"
    BY <1>3, <2>2 DEF LastSize
  <2>5. T[m].size = U[i][0].n
    BY <1>2, <2>2, <2>3, <2>4
  <2> QED
    BY <2>5 DEF m
<1>7. K \in SUBSET Nat
  OBVIOUS
<1> HIDE DEF K
<1>8. K = Nat
  BY <1>5, <1>6, <1>7, SetInduction
<1>9. PICK k \in Nat : i + k = j - 1
  <2>1. (j - 1) - i \in Nat /\ i + ((j - 1) - i) = j - 1
    BY <1>1 DEF L
  <2> QED
    BY <2>1
<1>10. T[j - 1].size = U[i][0].n
  <2>1. k \in K /\ i + k <= j - 1
    BY <1>1, <1>8, <1>9 DEF L
  <2> QED
    BY <1>9, <2>1 DEF K
<1> QED
  BY <1>3, <1>4, <1>10 DEF U, T

Moment(a, x) ==
    /\ x.size \in Sizes /\ x.enabled \in BOOLEAN
    /\ \A c \in Comms(a) : x.calls[c] \in Nat
    /\ \A n \in Sizes : x.timers[n] \in Seq(Timers)
    /\ \A n \in Sizes \ {0} : Len(x.timers[n]) < a.timing_flush_interval
    /\ x.timers[0] = StartUp

LEMMA TimelineType ==
    ASSUME NEW a \in Options
    PROVE  \A j \in 0 .. Length(a) : Moment(a, Timeline(a)[j])
<1> DEFINE U == Score(a)
           T == Timeline(a)
           L == Length(a)
           K == {k \in Nat : k <= L => Moment(a, T[k])}
<1>1. L \in Nat /\ T[0] = Start(a) /\ \A k \in 1 .. L : T[k] = After(a, U[k], T[k - 1])
  BY TimelineIs
<1>2. a.timing_flush_interval \in Nat \ {0}
  BY CommOpsAssumption
<1>3. 0 \in K
  <2> DEFINE x == Start(a)
  <2>1. /\ x.size = 0 /\ x.enabled = TRUE /\ \A c \in Comms(a) : x.calls[c] = 0
        /\ \A n \in Sizes : x.timers[n] = IF n = 0 THEN StartUp ELSE <<>>
    BY DEF Start
  <2>2. StartUp \in Seq(Timers) /\ <<>> \in Seq(Timers) /\ Len(<<>>) = 0
    BY DEF StartUp, Timers
  <2> HIDE DEF x
  <2>3. \A n \in Sizes : n # 0 => Len(x.timers[n]) = 0
    BY <2>1, <2>2
  <2>4. 0 < a.timing_flush_interval /\ 0 \in Sizes /\ 0 \in Nat /\ TRUE \in BOOLEAN
    BY <1>2, SizesAre
  <2>5. \A n \in Sizes : x.timers[n] \in Seq(Timers)
    BY <2>1, <2>2
  <2>6. Moment(a, x)
    BY <2>1, <2>3, <2>4, <2>5 DEF Moment
  <2> QED
    BY <1>1, <2>6 DEF x
<1>4. ASSUME NEW k \in K PROVE k + 1 \in K
  <2>1. SUFFICES ASSUME k + 1 <= L PROVE Moment(a, T[k + 1])
    OBVIOUS
  <2> DEFINE j == k + 1
             u == U[j]
             x == T[k]
             y == T[j]
  <2>2. k \in Nat /\ j \in 1 .. L /\ j - 1 = k /\ Moment(a, x)
    BY <1>1, <2>1
  <2>3. y = After(a, u, x)
    BY <1>1, <2>2
  <2>4. u \in Slots /\ InHarmony(u)
    BY <2>2, TimelineIs
  <2>5. InTest(u[0]) => x.size \in Sizes \ {0}
    BY <2>2, Attuned
  <2> HIDE DEF u, x, y, U, T, L, j, K, Slots
  <2>6. u[0] \in Calls
    <3>1. 0 \in Ranks
      BY CommOpsAssumption DEF Ranks
    <3>2. u[0] \in Calls \cup {Idle}
      <4> HIDE DEF Calls
      <4> QED
        BY <2>4, <3>1 DEF Slots
    <3> QED
      BY <2>4, <3>2 DEF InHarmony
  <2>7. y.size \in Sizes
    <3>1. u[0].do = "timing_allocate" => u[0].n \in Sizes
      BY <2>4 DEF InHarmony
    <3> QED
      BY <2>2, <2>3, <3>1 DEF Moment, After
  <2>8. y.enabled \in BOOLEAN
    <3>1. u[0].do = "enable" => u[0].enabled \in BOOLEAN
      BY <2>6, KindsDiffer DEF Calls
    <3> QED
      BY <2>2, <2>3, <3>1 DEF Moment, After
  <2>9. \A c \in Comms(a) : y.calls[c] \in Nat
    <3>1. \A c \in Comms(a) : x.calls[c] \in Nat
      BY <2>2 DEF Moment
    <3> QED
      BY <2>3, <3>1 DEF After
  <2>10. Recorded(u, x) => /\ x.size \in Sizes \ {0} /\ u[0].timer \in Timers
                           /\ Extended(u, x) \in Seq(Timers)
                           /\ Len(Extended(u, x)) = Len(x.timers[x.size]) + 1
                           /\ Len(x.timers[x.size]) < a.timing_flush_interval
                           /\ Len(x.timers[x.size]) \in Nat
    <3>1. SUFFICES ASSUME Recorded(u, x)
                   PROVE  /\ x.size \in Sizes \ {0} /\ u[0].timer \in Timers
                          /\ Extended(u, x) \in Seq(Timers)
                          /\ Len(Extended(u, x)) = Len(x.timers[x.size]) + 1
                          /\ Len(x.timers[x.size]) < a.timing_flush_interval
                          /\ Len(x.timers[x.size]) \in Nat
      OBVIOUS
    <3>2. x.size \in Sizes \ {0} /\ u[0].timer \in Timers
      BY <2>5, <3>1, KindsDiffer DEF Recorded, InTest
    <3>3. x.timers[x.size] \in Seq(Timers) /\ Len(x.timers[x.size]) < a.timing_flush_interval
      BY <2>2, <3>2 DEF Moment
    <3> QED
      BY <3>2, <3>3, AppendProperties DEF Extended
  <2>11. \A n \in Sizes : y.timers[n] = IF Recorded(u, x) /\ n = x.size
                   THEN IF Due(a, u, x) THEN <<>> ELSE Extended(u, x)
                   ELSE x.timers[n]
    BY <2>3 DEF After
  <2>12. \A n \in Sizes : y.timers[n] \in Seq(Timers)
    <3>1. <<>> \in Seq(Timers)
      OBVIOUS
    <3>2. \A n \in Sizes : x.timers[n] \in Seq(Timers)
      BY <2>2 DEF Moment
    <3> QED
      BY <2>10, <2>11, <3>1, <3>2
  <2>13. \A n \in Sizes \ {0} : Len(y.timers[n]) < a.timing_flush_interval
    <3>1. \A n \in Sizes \ {0} : Len(x.timers[n]) < a.timing_flush_interval
      BY <2>2 DEF Moment
    <3>2. Len(<<>>) = 0 /\ 0 < a.timing_flush_interval
      BY <1>2
    <3>3. Recorded(u, x) /\ ~Due(a, u, x) => Len(Extended(u, x)) < a.timing_flush_interval
      BY <1>2, <2>10 DEF Due
    <3> QED
      BY <2>11, <3>1, <3>2, <3>3
  <2>14. y.timers[0] = StartUp
    BY <2>2, <2>10, <2>11, SizesAre DEF Moment
  <2>15. Moment(a, y)
    BY <2>7, <2>8, <2>9, <2>12, <2>13, <2>14 DEF Moment
  <2> QED
    BY <2>15 DEF y, j
<1>5. K \in SUBSET Nat
  OBVIOUS
<1> HIDE DEF K
<1>6. K = Nat
  BY <1>3, <1>4, <1>5, SetInduction
<1> QED
  BY <1>1, <1>6 DEF K

\* A collective call is known to all members of its communicator.
LEMMA CalledByMembers ==
    ASSUME NEW u, InHarmony(u), NEW c, NEW r \in Ranks, r \in c.members
    PROVE  Called(u, c) <=> u[r] # Idle /\ Collects(u[r]) /\ CommOf(u[r]) = c
  BY DEF InHarmony, Called

LEMMA CallsGrow ==
    ASSUME NEW a \in Options, NEW p \in 0 .. Length(a), NEW q \in p .. Length(a), NEW c \in Comms(a)
    PROVE  /\ Timeline(a)[p].calls[c] <= Timeline(a)[q].calls[c]
           /\ Timeline(a)[p].calls[c] \in Nat /\ Timeline(a)[q].calls[c] \in Nat
<1> DEFINE T == Timeline(a)
           L == Length(a)
           K == {k \in Nat : p + k <= L => T[p].calls[c] <= T[p + k].calls[c]}
<1>1. L \in Nat /\ \A j \in 0 .. L : T[j].calls[c] \in Nat
  BY TimelineType, TimelineIs DEF Moment
<1>2. ASSUME NEW j \in 1 .. L PROVE T[j - 1].calls[c] <= T[j].calls[c]
  <2>1. T[j] = After(a, Score(a)[j], T[j - 1])
    BY TimelineIs
  <2>2. T[j - 1].calls[c] \in Nat
    BY <1>1
  <2> HIDE DEF T, L
  <2>3. T[j].calls[c] = T[j - 1].calls[c] + (IF Called(Score(a)[j], c) THEN 1 ELSE 0)
                   + (IF Due(a, Score(a)[j], T[j - 1]) /\ c = Sub(T[j - 1].size) THEN 1 ELSE 0)
    BY <2>1 DEF After
  <2> QED
    BY <2>2, <2>3
<1> HIDE DEF T, L
<1>3. 0 \in K
  <2>1. p + 0 = p /\ p \in 0 .. L
    BY <1>1 DEF L
  <2> QED
    BY <1>1, <2>1
<1>4. ASSUME NEW k \in K PROVE k + 1 \in K
  <2>1. SUFFICES ASSUME p + (k + 1) <= L PROVE T[p].calls[c] <= T[p + (k + 1)].calls[c]
    OBVIOUS
  <2>2. k \in Nat /\ p + k \in 0 .. L /\ p \in 0 .. L /\ p + (k + 1) \in 1 .. L /\ (p + (k + 1)) - 1 = p + k
    BY <1>1, <2>1 DEF L
  <2>3. T[p].calls[c] <= T[p + k].calls[c]
    BY <1>1, <1>4, <2>2
  <2>4. T[p + k].calls[c] <= T[p + (k + 1)].calls[c]
    BY <1>2, <2>2
  <2>5. T[p].calls[c] \in Nat /\ T[p + k].calls[c] \in Nat /\ T[p + (k + 1)].calls[c] \in Nat
    <3>1. p + (k + 1) \in 0 .. L
      BY <1>1, <2>2
    <3> QED
      BY <1>1, <2>2, <3>1
  <2> QED
    BY <2>3, <2>4, <2>5
<1>5. K \in SUBSET Nat
  OBVIOUS
<1> HIDE DEF K
<1>6. K = Nat
  BY <1>3, <1>4, <1>5, SetInduction
<1>7. q - p \in Nat /\ p + (q - p) = q /\ q <= L /\ q \in 0 .. L /\ p \in 0 .. L
  BY <1>1 DEF L
<1>8. q - p \in K
  BY <1>6, <1>7
<1>9. T[p].calls[c] <= T[p + (q - p)].calls[c]
  BY <1>7, <1>8 DEF K
<1> QED
  BY <1>1, <1>7, <1>9 DEF T

\* What rank r still has to do after each slot.
Rest(a, r) == CHOOSE rest : IsRest(Score(a), r, Program(a, r), rest)

LEMMA RestIs ==
    ASSUME NEW a \in Options, NEW r \in Ranks
    PROVE  /\ Rest(a, r)[0] = Program(a, r) /\ Rest(a, r)[Length(a)] = <<>>
           /\ \A j \in 1 .. Length(a) :
                IF Score(a)[j][r] = Idle THEN Rest(a, r)[j - 1] = Rest(a, r)[j]
                ELSE /\ Rest(a, r)[j - 1] # <<>> /\ Head(Rest(a, r)[j - 1]) = Score(a)[j][r]
                     /\ Tail(Rest(a, r)[j - 1]) = Rest(a, r)[j]
           /\ \A j \in 0 .. Length(a) : Rest(a, r)[j] \in Seq(Calls)
<1>1. IsRest(Score(a), r, Program(a, r), Rest(a, r))
  BY ProgramsAreParts DEF Part, Rest
<1> HIDE DEF Calls
<1> QED
  BY <1>1 DEF IsRest, Length

-----------------------------------------------------------------------------
(* Where a rank stands: after slot p of the score, or on its way into the  *)
(* next one, or about to flush what slot p filled.                         *)

Flushes == {"flush", "flushing"}
TimersOf(s) == [i \in 1 .. Len(s) |-> s[i].timer]

\* Slot j ends with rank 0 gathering the timers of size n.
Gathers(a, j, n) ==
    \/ Score(a)[j][0].do = "gather_timing" /\ Score(a)[j][0].n = n
    \/ Due(a, Score(a)[j], Timeline(a)[j - 1]) /\ Timeline(a)[j - 1].size = n

InPlace(a, r, p, td) == p \in 0 .. Length(a) /\ td = Rest(a, r)[p]
InPhase(a, r, p, ph) ==
    /\ ph \in {"ready", "inside", "flush", "flushing"}
    /\ ph = "inside" =>
          /\ p < Length(a) /\ Score(a)[p + 1][r] # Idle
          /\ Score(a)[p + 1][r].do \in Blocking \cup {"gather_timing"}
    /\ ph \in Flushes =>
          p >= 1 /\ Score(a)[p][r] # Idle /\ Due(a, Score(a)[p], Timeline(a)[p - 1])
InSize(a, r, p, sz, en) ==
    r < Timeline(a)[p].size => sz = Timeline(a)[p].size /\ en = Timeline(a)[p].enabled
InRecords(a, r, p, ph, rc) ==
    \A n \in Sizes : n = 0 \/ r < n =>
        TimersOf(rc[n]) = IF ph \in Flushes /\ n = Timeline(a)[p - 1].size
                            THEN Extended(Score(a)[p], Timeline(a)[p - 1])
                            ELSE Timeline(a)[p].timers[n]
InCount(a, r, p, ph, ct) ==
    \A c \in Comms(a) : r \in c.members =>
        ct[c] = Timeline(a)[p].calls[c]
                  + (IF ph = "inside" /\ c = CommOf(Score(a)[p + 1][r]) THEN 1 ELSE 0)
                  - (IF ph = "flush" /\ c = Sub(Timeline(a)[p - 1].size) THEN 1 ELSE 0)
InGathers(a, r, p, ph, gt) ==
    \A j \in 1 .. p, n \in Sizes :
        Gathers(a, j, n) /\ (n = 0 \/ r < n) /\ (j < p \/ ph \notin Flushes)
          => gt[n] >= Timeline(a)[j].calls[TimingComm(n)]

StandsAt(a, r, p, td, ph, sz, en, rc, ct, gt) ==
    /\ InPlace(a, r, p, td) /\ InPhase(a, r, p, ph) /\ InSize(a, r, p, sz, en)
    /\ InRecords(a, r, p, ph, rc) /\ InCount(a, r, p, ph, ct) /\ InGathers(a, r, p, ph, gt)

\* A rank passes a slot it has no part in without noticing.
LEMMA PassIdle ==
    ASSUME NEW a \in Options, NEW r \in Ranks, NEW p \in 0 .. Length(a) - 1,
           Score(a)[p + 1][r] = Idle, NEW td, NEW sz, NEW en, NEW rc, NEW ct, NEW gt,
           StandsAt(a, r, p, td, "ready", sz, en, rc, ct, gt)
    PROVE  StandsAt(a, r, p + 1, td, "ready", sz, en, rc, ct, gt)
<1> DEFINE q == p + 1
           u == Score(a)[q]
           x == Timeline(a)[p]
           y == Timeline(a)[q]
           L == Length(a)
<1>1. L \in Nat /\ p \in 0 .. L /\ q \in 1 .. L /\ q - 1 = p /\ q \in 0 .. L
  BY TimelineIs
<1>2. y = After(a, u, x) /\ u \in Slots /\ InHarmony(u) /\ u[r] = Idle
  BY <1>1, TimelineIs
<1>3. InTest(u[0]) => x.size \in Sizes \ {0} /\ ~(r < x.size)
  BY <1>1, <1>2, Attuned
<1>4. x.size \in Sizes /\ r \in Nat /\ NRanks \in Nat
  BY <1>1, TimelineType, CommOpsAssumption DEF Moment, Ranks
<1>5. Recorded(u, x) => x.size \in Sizes \ {0} /\ ~(r < x.size)
  BY <1>3 DEF Recorded, InTest
<1>6. InPlace(a, r, q, td)
  BY <1>1, <1>2, RestIs DEF InPlace, StandsAt
<1>7. InPhase(a, r, q, "ready")
  BY DEF InPhase, Flushes
<1>8. InSize(a, r, q, sz, en)
  <2>1. u[0].do = "timing_allocate" => ~(r < u[0].n)
    BY <1>2 DEF InHarmony
  <2>2. u[0].do = "enable" => InTest(u[0])
    <3>1. u[0] \in Calls
      <4>1. 0 \in Ranks
        BY CommOpsAssumption DEF Ranks
      <4>2. u[0] \in Calls \cup {Idle}
        <5> HIDE DEF Calls, u
        <5> QED
          BY <1>2, <4>1 DEF Slots
      <4> QED
        BY <1>2, <4>2 DEF InHarmony
    <3> QED
      BY <3>1, KindsDiffer DEF InTest, Calls
  <2>3. r < y.size => y.size = x.size /\ y.enabled = x.enabled
    <3>1. /\ y.size = IF u[0].do = "timing_allocate" THEN u[0].n ELSE x.size
          /\ y.enabled = IF u[0].do = "timing_allocate" THEN TRUE
                         ELSE IF u[0].do = "enable" THEN u[0].enabled ELSE x.enabled
      <4> HIDE DEF y, u, x
      <4> QED
        BY <1>2 DEF After
    <3> QED
      BY <1>3, <2>1, <2>2, <3>1
  <2> QED
    BY <2>3 DEF InSize, StandsAt
<1>9. InRecords(a, r, q, "ready", rc)
  <2>1. \A n \in Sizes : n = 0 \/ r < n => y.timers[n] = x.timers[n]
    <3> HIDE DEF y, u, x
    <3>1. \A n \in Sizes : y.timers[n] = IF Recorded(u, x) /\ n = x.size
                   THEN IF Due(a, u, x) THEN <<>> ELSE Extended(u, x)
                   ELSE x.timers[n]
      BY <1>2 DEF After
    <3> QED
      BY <1>5, <3>1
  <2>2. "ready" \notin Flushes
    BY DEF Flushes
  <2>3. InRecords(a, r, p, "ready", rc)
    BY DEF StandsAt
  <2> QED
    BY <2>1, <2>2, <2>3 DEF InRecords
<1>10. InCount(a, r, q, "ready", ct)
  <2>1. ASSUME NEW c \in Comms(a), r \in c.members PROVE y.calls[c] = x.calls[c]
    <3>1. ~Called(u, c)
      BY <1>2, <2>1, CalledByMembers
    <3>2. ~(Due(a, u, x) /\ c = Sub(x.size))
      <4>1. Sub(x.size).members = 0 .. x.size - 1
        BY DEF Sub, Comm
      <4>2. Due(a, u, x) => Recorded(u, x)
        BY DEF Due
      <4> QED
        BY <1>4, <1>5, <2>1, <4>1, <4>2, SizesAre
    <3>3. x.calls[c] \in Nat
      BY <1>1, TimelineType DEF Moment
    <3> HIDE DEF y, u, x
    <3>4. y.calls[c] = x.calls[c] + (IF Called(u, c) THEN 1 ELSE 0)
                   + (IF Due(a, u, x) /\ c = Sub(x.size) THEN 1 ELSE 0)
      BY <1>2 DEF After
    <3> QED
      BY <3>1, <3>2, <3>3, <3>4
  <2>2. InCount(a, r, p, "ready", ct)
    BY DEF StandsAt
  <2> QED
    BY <2>1, <2>2 DEF InCount
<1>11. InGathers(a, r, q, "ready", gt)
  <2>1. "ready" \notin Flushes
    BY DEF Flushes
  <2>2. SUFFICES ASSUME NEW j \in 1 .. q, NEW n \in Sizes, Gathers(a, j, n), n = 0 \/ r < n
                 PROVE  gt[n] >= Timeline(a)[j].calls[TimingComm(n)]
    BY DEF InGathers
  <2>3. CASE j \in 1 .. p
    BY <2>1, <2>2, <2>3 DEF StandsAt, InGathers
  <2>4. CASE j = q
    <3>1. CASE u[0].do = "gather_timing" /\ u[0].n = n
      <4>1. 0 \in Ranks /\ 0 \in Nat
        BY CommOpsAssumption DEF Ranks
      <4>2. Collects(u[0]) /\ CommOf(u[0]) = TimingComm(n)
        BY <3>1 DEF Collects, CommOf
      <4>3. r \in TimingComm(n).members
        BY <2>2, TimingCommIs
      <4> QED
        BY <1>2, <4>1, <4>2, <4>3 DEF InHarmony
    <3>2. CASE Due(a, u, x) /\ x.size = n
      <4>1. n # 0 /\ ~(r < n)
        BY <1>5, <3>2 DEF Due
      <4> QED
        BY <2>2, <4>1
    <3> QED
      BY <1>1, <2>2, <2>4, <3>1, <3>2 DEF Gathers
  <2> QED
    BY <1>1, <2>3, <2>4
<1> QED
  BY <1>6, <1>7, <1>8, <1>9, <1>10, <1>11 DEF StandsAt

\* A rank with calls left to make stands, before long, in front of a slot it has a part in.
LEMMA Settle ==
    ASSUME NEW a \in Options, NEW r \in Ranks, NEW td, td # <<>>,
           NEW sz, NEW en, NEW rc, NEW ct, NEW gt, NEW z,
           StandsAt(a, r, z, td, "ready", sz, en, rc, ct, gt)
    PROVE  \E q \in 0 .. Length(a) - 1 :
              /\ StandsAt(a, r, q, td, "ready", sz, en, rc, ct, gt)
              /\ Score(a)[q + 1][r] # Idle
              /\ Head(td) = Score(a)[q + 1][r] /\ Tail(td) = Rest(a, r)[q + 1]
<1> DEFINE L == Length(a)
           S(p) == StandsAt(a, r, p, td, "ready", sz, en, rc, ct, gt)
           K == {k \in Nat : \A p \in 0 .. L : p + k = L /\ S(p) =>
                    \E q \in 0 .. L - 1 : S(q) /\ Score(a)[q + 1][r] # Idle}
<1>1. L \in Nat /\ Rest(a, r)[L] = <<>>
  BY TimelineIs, RestIs
<1>2. \A p : S(p) => p \in 0 .. L /\ td = Rest(a, r)[p]
  BY DEF StandsAt, InPlace
<1>3. ASSUME NEW p \in 0 .. L - 1, S(p), Score(a)[p + 1][r] = Idle PROVE S(p + 1)
  BY <1>3, PassIdle
<1> HIDE DEF L, S
<1>4. 0 \in K
  <2>1. ASSUME NEW p \in 0 .. L, p + 0 = L, S(p) PROVE FALSE
    <3>1. p = L
      BY <1>1, <2>1
    <3> QED
      BY <1>1, <1>2, <2>1, <3>1
  <2> QED
    BY <2>1
<1>5. ASSUME NEW k \in K PROVE k + 1 \in K
  <2>1. SUFFICES ASSUME NEW p \in 0 .. L, p + (k + 1) = L, S(p)
                 PROVE  \E q \in 0 .. L - 1 : S(q) /\ Score(a)[q + 1][r] # Idle
    OBVIOUS
  <2>2. p \in 0 .. L - 1 /\ p + 1 \in 0 .. L /\ (p + 1) + k = L
    BY <1>1, <2>1
  <2>3. CASE Score(a)[p + 1][r] # Idle
    BY <2>1, <2>2, <2>3
  <2>4. CASE Score(a)[p + 1][r] = Idle
    <3>1. S(p + 1)
      BY <1>3, <2>1, <2>2, <2>4
    <3> QED
      BY <2>2, <3>1
  <2> QED
    BY <2>3, <2>4
<1>6. K \in SUBSET Nat
  OBVIOUS
<1> HIDE DEF K
<1>7. K = Nat
  BY <1>4, <1>5, <1>6, SetInduction
<1>8. PICK p \in 0 .. L : S(p)
  <2>1. \E p : S(p)
    BY DEF S
  <2> QED
    BY <1>2, <2>1
<1>9. L - p \in Nat /\ p + (L - p) = L
  BY <1>1
<1>10. \E q \in 0 .. L - 1 : S(q) /\ Score(a)[q + 1][r] # Idle
  <2>1. L - p \in K
    BY <1>7, <1>9
  <2> QED
    BY <1>8, <1>9, <2>1 DEF K
<1>11. PICK q \in 0 .. L - 1 : S(q) /\ Score(a)[q + 1][r] # Idle
  BY <1>10
<1>12. q + 1 \in 1 .. L /\ (q + 1) - 1 = q
  BY <1>1
<1>13. Head(td) = Score(a)[q + 1][r] /\ Tail(td) = Rest(a, r)[q + 1]
  <2>1. td = Rest(a, r)[q]
    BY <1>2, <1>11
  <2> HIDE DEF Calls
  <2>2. /\ Rest(a, r)[(q + 1) - 1] # <<>> /\ Head(Rest(a, r)[(q + 1) - 1]) = Score(a)[q + 1][r]
        /\ Tail(Rest(a, r)[(q + 1) - 1]) = Rest(a, r)[q + 1]
    BY <1>11, <1>12, RestIs DEF L
  <2> QED
    BY <1>12, <2>1, <2>2
<1> QED
  BY <1>11, <1>13 DEF S, L

LEMMA TimersOfAppend ==
    ASSUME NEW X, NEW s \in Seq(X), NEW t, NEW b
    PROVE  /\ TimersOf(Append(s, Record(t, b))) = Append(TimersOf(s), t)
           /\ Len(TimersOf(s)) = Len(s)
<1> DEFINE x == Record(t, b)
           w == Append(s, x)
<1>1. x.timer = t
  BY DEF Record
<1> HIDE DEF x
<1>2. /\ Len(s) \in Nat /\ Len(w) = Len(s) + 1 /\ w[Len(s) + 1] = x
      /\ \A i \in 1 .. Len(s) : w[i] = s[i]
  OBVIOUS
<1>3. TimersOf(w) = [i \in 1 .. Len(s) + 1 |-> IF i = Len(s) + 1 THEN t ELSE s[i].timer]
  <2> HIDE DEF w
  <2>1. TimersOf(w) = [i \in 1 .. Len(s) + 1 |-> w[i].timer]
    BY <1>2 DEF TimersOf
  <2>2. \A i \in 1 .. Len(s) + 1 : w[i].timer = IF i = Len(s) + 1 THEN t ELSE s[i].timer
    BY <1>1, <1>2
  <2> QED
    BY <2>1, <2>2
<1>4. Append(TimersOf(s), t) = [i \in 1 .. Len(s) + 1 |-> IF i = Len(s) + 1 THEN t ELSE s[i].timer]
  <2> DEFINE Y == {s[i].timer : i \in 1 .. Len(s)} \cup {t}
  <2>1. \A i \in 1 .. Len(s) : s[i].timer \in Y
    OBVIOUS
  <2>2. t \in Y
    OBVIOUS
  <2> HIDE DEF Y
  <2>3. TimersOf(s) \in [1 .. Len(s) -> Y]
    BY <2>1 DEF TimersOf
  <2>4. TimersOf(s) \in Seq(Y) /\ Len(TimersOf(s)) = Len(s)
    BY <1>2, <2>3, FunctionsAreSequences
  <2>5. \A i \in 1 .. Len(s) : TimersOf(s)[i] = s[i].timer
    BY DEF TimersOf
  <2> HIDE DEF TimersOf
  <2> DEFINE v == Append(TimersOf(s), t)
  <2>6. /\ v \in Seq(Y) /\ Len(v) = Len(s) + 1 /\ v[Len(s) + 1] = t
        /\ \A i \in 1 .. Len(s) : v[i] = TimersOf(s)[i]
    BY <1>2, <2>2, <2>4, AppendProperties
  <2> HIDE DEF v
  <2>7. v = [i \in 1 .. Len(s) + 1 |-> v[i]]
    BY <2>6
  <2>8. \A i \in 1 .. Len(s) + 1 : v[i] = IF i = Len(s) + 1 THEN t ELSE s[i].timer
    BY <1>2, <2>5, <2>6
  <2>9. v = [i \in 1 .. Len(s) + 1 |-> IF i = Len(s) + 1 THEN t ELSE s[i].timer]
    BY <2>7, <2>8
  <2> QED
    BY <2>9 DEF v
<1>5. Len(TimersOf(s)) = Len(s)
  <2> DEFINE Y == {s[i].timer : i \in 1 .. Len(s)}
  <2>1. \A i \in 1 .. Len(s) : s[i].timer \in Y
    OBVIOUS
  <2> HIDE DEF Y
  <2>2. TimersOf(s) \in [1 .. Len(s) -> Y]
    BY <2>1 DEF TimersOf
  <2> QED
    BY <1>2, <2>2, FunctionsAreSequences
<1> QED
  BY <1>3, <1>4, <1>5 DEF w, x

\* What rank r counts when it enters the call of a slot.
LEMMA Enters ==
    ASSUME NEW a \in Options, NEW r \in Ranks, NEW p \in 0 .. Length(a) - 1,
           Score(a)[p + 1][r] # Idle, Score(a)[p + 1][r].do \in Blocking \cup {"gather_timing"},
           NEW td, NEW sz, NEW en, NEW rc, NEW ct, NEW gt, NEW ct2,
           StandsAt(a, r, p, td, "ready", sz, en, rc, ct, gt),
           \A c \in Comms(a) : ct2[c] = ct[c] + IF c = CommOf(Score(a)[p + 1][r]) THEN 1 ELSE 0
    PROVE  StandsAt(a, r, p, td, "inside", sz, en, rc, ct2, gt)
<1> DEFINE u == Score(a)[p + 1]
           T == Timeline(a)
           L == Length(a)
<1>1. L \in Nat /\ p \in 0 .. L /\ p < L
  BY TimelineIs
<1>2. "ready" \notin Flushes /\ "inside" \notin Flushes
  BY DEF Flushes
<1>3. InPhase(a, r, p, "inside")
  BY <1>1, <1>2 DEF InPhase
<1>4. InRecords(a, r, p, "inside", rc)
  <2>1. InRecords(a, r, p, "ready", rc)
    BY DEF StandsAt
  <2> QED
    BY <1>2, <2>1 DEF InRecords
<1>5. InCount(a, r, p, "inside", ct2)
  <2>1. InCount(a, r, p, "ready", ct)
    BY DEF StandsAt
  <2>2. \A c \in Comms(a) : T[p].calls[c] \in Nat
    BY <1>1, TimelineType DEF Moment
  <2>3. ASSUME NEW c \in Comms(a), r \in c.members
        PROVE  ct2[c] = T[p].calls[c] + (IF c = CommOf(u[r]) THEN 1 ELSE 0)
    <3>1. ct[c] = T[p].calls[c] + 0 - 0
      BY <2>1, <2>3 DEF InCount
    <3>2. ct[c] = T[p].calls[c]
      BY <2>2, <3>1
    <3> QED
      BY <3>2
  <2>4. ASSUME NEW c \in Comms(a), r \in c.members
        PROVE  ct2[c] = T[p].calls[c] + (IF "inside" = "inside" /\ c = CommOf(u[r]) THEN 1 ELSE 0)
                                  - (IF "inside" = "flush" /\ c = Sub(T[p - 1].size) THEN 1 ELSE 0)
    <3> HIDE DEF T, u
    <3> QED
      BY <2>2, <2>3, <2>4
  <2> QED
    BY <2>4 DEF InCount
<1>6. InGathers(a, r, p, "inside", gt)
  BY <1>2 DEF InGathers, StandsAt
<1> QED
  BY <1>3, <1>4, <1>5, <1>6 DEF StandsAt

\* What rank r has done when an ordinary call returns: the timer is recorded if it runs.
Stopped(u, r, en) == u[r].timer # NoTimer /\ en
FullBy(a, rc, sz) == Len(rc[sz]) + 1 = a.timing_flush_interval
LEMMA Leaves ==
    ASSUME NEW a \in Options, NEW r \in Ranks, NEW p \in 0 .. Length(a) - 1,
           Score(a)[p + 1][r] \in OrdinaryCalls,
           NEW td, NEW ph, NEW sz, NEW en, NEW rc, NEW ct, NEW gt, NEW ct2, NEW rc2, NEW part,
           en \in BOOLEAN, rc \in [Sizes -> Seq([timer : Timers, participated : BOOLEAN])],
           part \in BOOLEAN, ph \in {"ready", "inside"},
           StandsAt(a, r, p, td, ph, sz, en, rc, ct, gt),
           \A c \in Comms(a) : r \in c.members =>
              ct2[c] = Timeline(a)[p].calls[c]
                         + IF Collects(Score(a)[p + 1][r]) /\ c = CommOf(Score(a)[p + 1][r]) THEN 1 ELSE 0,
           rc2 = IF Stopped(Score(a)[p + 1], r, en)
                   THEN [rc EXCEPT ![sz] =
                           IF Len(@) < a.timing_flush_interval
                             THEN Append(@, Record(Score(a)[p + 1][r].timer, part)) ELSE @]
                   ELSE rc
    PROVE  StandsAt(a, r, p + 1, Rest(a, r)[p + 1],
                    IF Stopped(Score(a)[p + 1], r, en) /\ FullBy(a, rc, sz) THEN "flush" ELSE "ready",
                    sz, en, rc2, ct2, gt)
<1> DEFINE q == p + 1
           u == Score(a)[q]
           x == Timeline(a)[p]
           y == Timeline(a)[q]
           L == Length(a)
           ph2 == IF Stopped(u, r, en) /\ FullBy(a, rc, sz) THEN "flush" ELSE "ready"
<1>1. L \in Nat /\ p \in 0 .. L /\ q \in 1 .. L /\ q - 1 = p /\ q \in 0 .. L /\ q >= 1
  BY TimelineIs
<1>2. y = After(a, u, x) /\ u \in Slots /\ InHarmony(u) /\ u[r] \in OrdinaryCalls
  BY <1>1, TimelineIs
<1>3. u[r] # Idle /\ u[r] \in Calls
  <2>1. u[r] \in Calls
    BY <1>2 DEF Calls
  <2> QED
    BY <2>1, IdleIsNoCall
<1>4. u[0] \in OrdinaryCalls /\ u[0].timer = u[r].timer
  BY <1>2, <1>3 DEF InHarmony
<1>5. /\ u[0].do # "gather_timing" /\ u[0].do # "timing_allocate" /\ u[0].do # "enable"
      /\ u[r].do # "gather_timing" /\ u[r].timer \in Timers \cup {NoTimer}
  BY <1>2, <1>4, KindsDiffer
<1>6. x.size \in Sizes /\ x.enabled \in BOOLEAN /\ \A c \in Comms(a) : x.calls[c] \in Nat
  BY <1>1, TimelineType DEF Moment
<1>7. u[r].timer # NoTimer => x.size \in Sizes \ {0} /\ r < x.size /\ sz = x.size /\ en = x.enabled
  <2>1. SUFFICES ASSUME u[r].timer # NoTimer
                 PROVE  x.size \in Sizes \ {0} /\ r < x.size /\ sz = x.size /\ en = x.enabled
    OBVIOUS
  <2>2. InTest(u[0])
    BY <1>4, <2>1 DEF InTest
  <2>3. x.size \in Sizes \ {0} /\ r < x.size
    BY <1>1, <1>3, <2>2, Attuned
  <2>4. InSize(a, r, p, sz, en)
    BY DEF StandsAt
  <2> QED
    BY <2>3, <2>4 DEF InSize
<1>8. Stopped(u, r, en) <=> Recorded(u, x)
  BY <1>4, <1>6, <1>7 DEF Stopped, Recorded
<1>9. Recorded(u, x) => /\ sz \in Sizes \ {0} /\ sz = x.size /\ r < sz
                        /\ TimersOf(rc[sz]) = x.timers[sz] /\ Len(rc[sz]) = Len(x.timers[sz])
                        /\ Len(rc[sz]) < a.timing_flush_interval /\ Len(rc[sz]) \in Nat
  <2>1. SUFFICES ASSUME Recorded(u, x)
                 PROVE  /\ sz \in Sizes \ {0} /\ sz = x.size /\ r < sz
                        /\ TimersOf(rc[sz]) = x.timers[sz] /\ Len(rc[sz]) = Len(x.timers[sz])
                        /\ Len(rc[sz]) < a.timing_flush_interval /\ Len(rc[sz]) \in Nat
    OBVIOUS
  <2>2. sz \in Sizes \ {0} /\ sz = x.size /\ r < sz
    BY <1>4, <1>7, <2>1 DEF Recorded
  <2>3. TimersOf(rc[sz]) = x.timers[sz]
    <3>1. ph \notin Flushes
      BY DEF Flushes
    <3>2. InRecords(a, r, p, ph, rc)
      BY DEF StandsAt
    <3> QED
      BY <2>2, <3>1, <3>2 DEF InRecords
  <2>4. rc[sz] \in Seq([timer : Timers, participated : BOOLEAN])
    BY <2>2
  <2>5. Len(rc[sz]) = Len(x.timers[sz])
    BY <2>3, <2>4, TimersOfAppend
  <2>6. Len(x.timers[sz]) < a.timing_flush_interval
    BY <1>1, <2>2, TimelineType DEF Moment
  <2>7. Len(rc[sz]) \in Nat
    <3> DEFINE s == rc[sz]
    <3> HIDE DEF s
    <3> QED
      BY <2>4 DEF s
  <2> QED
    BY <2>2, <2>3, <2>5, <2>6, <2>7
<1>10. Stopped(u, r, en) /\ FullBy(a, rc, sz) <=> Due(a, u, x)
  BY <1>8, <1>9 DEF FullBy, Due
<1>11. InPlace(a, r, q, Rest(a, r)[q])
  BY <1>1 DEF InPlace
<1>12. InPhase(a, r, q, ph2)
  BY <1>1, <1>3, <1>10 DEF InPhase, Flushes
<1>13. InSize(a, r, q, sz, en)
  <2>1. y.size = x.size /\ y.enabled = x.enabled
    <3> HIDE DEF y, x, u
    <3> QED
      BY <1>2, <1>5 DEF After
  <2>2. InSize(a, r, p, sz, en)
    BY DEF StandsAt
  <2> QED
    BY <2>1, <2>2 DEF InSize
<1>14. InRecords(a, r, q, ph2, rc2)
  <2>1. SUFFICES ASSUME NEW n \in Sizes, n = 0 \/ r < n
                 PROVE  TimersOf(rc2[n]) = IF ph2 \in Flushes /\ n = x.size
                                             THEN Extended(u, x) ELSE y.timers[n]
    BY <1>1 DEF InRecords
  <2>2. y.timers[n] = IF Recorded(u, x) /\ n = x.size
                        THEN IF Due(a, u, x) THEN <<>> ELSE Extended(u, x)
                        ELSE x.timers[n]
    <3> HIDE DEF y, x, u
    <3> QED
      BY <1>2 DEF After
  <2>3. ph2 \in Flushes <=> Due(a, u, x)
    BY <1>10 DEF Flushes
  <2>4. TimersOf(rc[n]) = x.timers[n]
    <3>1. ph \notin Flushes
      BY DEF Flushes
    <3>2. InRecords(a, r, p, ph, rc)
      BY DEF StandsAt
    <3> QED
      BY <2>1, <3>1, <3>2 DEF InRecords
  <2>5. CASE Recorded(u, x) /\ n = x.size
    <3>1. n = sz /\ rc2[n] = Append(rc[n], Record(u[r].timer, part))
      BY <1>8, <1>9, <2>5
    <3>2. TimersOf(rc2[n]) = Append(TimersOf(rc[n]), u[r].timer)
      BY <3>1, TimersOfAppend
    <3>3. TimersOf(rc2[n]) = Extended(u, x)
      BY <1>4, <2>4, <2>5, <3>2 DEF Extended
    <3> QED
      BY <2>2, <2>3, <2>5, <3>3
  <2>6. CASE ~(Recorded(u, x) /\ n = x.size)
    <3>1. rc2[n] = rc[n]
      BY <1>8, <1>9, <2>6
    <3>2. Due(a, u, x) => Recorded(u, x)
      BY DEF Due
    <3> QED
      BY <2>2, <2>3, <2>4, <2>6, <3>1, <3>2
  <2> QED
    BY <2>5, <2>6
<1>15. InCount(a, r, q, ph2, ct2)
  <2>1. SUFFICES ASSUME NEW c \in Comms(a), r \in c.members
                 PROVE  ct2[c] = y.calls[c]
                           + (IF ph2 = "inside" /\ c = CommOf(Score(a)[q + 1][r]) THEN 1 ELSE 0)
                           - (IF ph2 = "flush" /\ c = Sub(x.size) THEN 1 ELSE 0)
    BY <1>1 DEF InCount
  <2>2. y.calls[c] = x.calls[c] + (IF Called(u, c) THEN 1 ELSE 0)
                       + (IF Due(a, u, x) /\ c = Sub(x.size) THEN 1 ELSE 0)
    <3> HIDE DEF y, x, u
    <3> QED
      BY <1>2 DEF After
  <2>3. Called(u, c) <=> Collects(u[r]) /\ CommOf(u[r]) = c
    BY <1>2, <1>3, <2>1, CalledByMembers
  <2>4. ph2 = "flush" <=> Due(a, u, x)
    BY <1>10
  <2>5. ph2 # "inside"
    OBVIOUS
  <2>6. ct2[c] = x.calls[c] + IF Collects(u[r]) /\ c = CommOf(u[r]) THEN 1 ELSE 0
    BY <2>1
  <2>7. x.calls[c] \in Nat
    BY <1>6
  <2> HIDE DEF x, y, u, ph2
  <2> QED
    BY <2>2, <2>3, <2>4, <2>5, <2>6, <2>7
<1>16. InGathers(a, r, q, ph2, gt)
  <2>1. SUFFICES ASSUME NEW j \in 1 .. q, NEW n \in Sizes, Gathers(a, j, n), n = 0 \/ r < n,
                        j < q \/ ph2 \notin Flushes
                 PROVE  gt[n] >= Timeline(a)[j].calls[TimingComm(n)]
    BY DEF InGathers
  <2>2. CASE j \in 1 .. p
    <3>1. ph \notin Flushes
      BY DEF Flushes
    <3> QED
      BY <2>1, <2>2, <3>1 DEF StandsAt, InGathers
  <2>3. CASE j = q
    <3>1. ~Due(a, u, x)
      <4>1. ph2 \notin Flushes
        <5> HIDE DEF ph2
        <5> QED
          BY <1>1, <2>1, <2>3
      <4> QED
        BY <1>10, <4>1 DEF Flushes
    <3> QED
      BY <1>1, <1>5, <2>1, <2>3, <3>1 DEF Gathers
  <2> QED
    BY <1>1, <2>2, <2>3
<1> QED
  BY <1>11, <1>12, <1>13, <1>14, <1>15, <1>16 DEF StandsAt

\* What a rank under test makes of its size is what everybody makes of it.
LEMMA Resizes ==
    ASSUME NEW a \in Options, NEW r \in Ranks, NEW p \in 0 .. Length(a) - 1,
           Score(a)[p + 1][r] \in EnableCalls \cup SizeCalls,
           NEW sz, NEW en, NEW sz2, NEW en2, InSize(a, r, p, sz, en),
           Score(a)[p + 1][r].do = "timing_allocate" => sz2 = Score(a)[p + 1][r].n /\ en2 = TRUE,
           Score(a)[p + 1][r].do = "enable" => sz2 = sz /\ en2 = Score(a)[p + 1][r].enabled,
           Score(a)[p + 1][r].do = "gather_timing" => sz2 = sz /\ en2 = en
    PROVE  InSize(a, r, p + 1, sz2, en2)
<1> DEFINE q == p + 1
           u == Score(a)[q]
           x == Timeline(a)[p]
           y == Timeline(a)[q]
           L == Length(a)
<1>1. L \in Nat /\ p \in 0 .. L /\ q \in 1 .. L /\ q - 1 = p /\ q \in 0 .. L /\ q >= 1
  BY TimelineIs
<1>2. y = After(a, u, x) /\ u \in Slots /\ InHarmony(u)
  BY <1>1, TimelineIs
<1>3. u[r] # Idle /\ u[r] \notin OrdinaryCalls
  <2>1. u[r] \in Calls /\ u[r] \notin OrdinaryCalls
    BY KindsDiffer DEF Calls
  <2> QED
    BY <2>1, IdleIsNoCall
<1>4. u[0] = u[r]
  BY <1>2, <1>3 DEF InHarmony
<1>5. u[r].do \in {"enable", "timing_allocate", "gather_timing"}
  BY KindsDiffer
<1>7. /\ y.size = IF u[r].do = "timing_allocate" THEN u[r].n ELSE x.size
      /\ y.enabled = IF u[r].do = "timing_allocate" THEN TRUE
                     ELSE IF u[r].do = "enable" THEN u[r].enabled ELSE x.enabled
  <2> HIDE DEF y, x, u
  <2> QED
    BY <1>2, <1>4 DEF After
<1>8. r < x.size => sz = x.size /\ en = x.enabled
  BY DEF InSize
<1>9. /\ u[r].do = "timing_allocate" => sz2 = u[r].n /\ en2 = TRUE
      /\ u[r].do = "enable" => sz2 = sz /\ en2 = u[r].enabled
      /\ u[r].do = "gather_timing" => sz2 = sz /\ en2 = en
  OBVIOUS
<1>10. r < y.size => sz2 = y.size /\ en2 = y.enabled
  <2>1. CASE u[r].do = "timing_allocate"
    BY <1>7, <1>9, <2>1
  <2>2. CASE u[r].do = "enable"
    BY <1>7, <1>8, <1>9, <2>2
  <2>3. CASE u[r].do = "gather_timing"
    BY <1>7, <1>8, <1>9, <2>3
  <2> QED
    BY <1>5, <2>1, <2>2, <2>3
<1> QED
  BY <1>10 DEF InSize

\* A call to enable, to allocate or to gather leaves the timers alone.
LEMMA Passes ==
    ASSUME NEW a \in Options, NEW r \in Ranks, NEW p \in 0 .. Length(a) - 1,
           Score(a)[p + 1][r] \in EnableCalls \cup SizeCalls,
           NEW td, NEW ph, NEW sz, NEW en, NEW rc, NEW ct, NEW gt, NEW sz2, NEW en2,
           ph \in {"ready", "inside"},
           StandsAt(a, r, p, td, ph, sz, en, rc, ct, gt),
           \A c \in Comms(a) : r \in c.members =>
              ct[c] = Timeline(a)[p].calls[c]
                         + IF Collects(Score(a)[p + 1][r]) /\ c = CommOf(Score(a)[p + 1][r]) THEN 1 ELSE 0,
           InSize(a, r, p + 1, sz2, en2),
           Score(a)[p + 1][r].do = "gather_timing" =>
              gt[Score(a)[p + 1][r].n] >= ct[TimingComm(Score(a)[p + 1][r].n)]
    PROVE  StandsAt(a, r, p + 1, Rest(a, r)[p + 1], "ready", sz2, en2, rc, ct, gt)
<1> DEFINE q == p + 1
           u == Score(a)[q]
           x == Timeline(a)[p]
           y == Timeline(a)[q]
           L == Length(a)
<1>1. L \in Nat /\ p \in 0 .. L /\ q \in 1 .. L /\ q - 1 = p /\ q \in 0 .. L /\ q >= 1
  BY TimelineIs
<1>2. y = After(a, u, x) /\ u \in Slots /\ InHarmony(u)
  BY <1>1, TimelineIs
<1>3. u[r] # Idle /\ u[r] \notin OrdinaryCalls
  <2>1. u[r] \in Calls /\ u[r] \notin OrdinaryCalls
    BY KindsDiffer DEF Calls
  <2> QED
    BY <2>1, IdleIsNoCall
<1>4. u[0] \notin OrdinaryCalls /\ u[0] = u[r]
  BY <1>2, <1>3 DEF InHarmony
<1>5. u[r].do \in {"enable", "timing_allocate", "gather_timing"}
  BY KindsDiffer
<1>6. ~Recorded(u, x) /\ ~Due(a, u, x)
  BY <1>4 DEF Recorded, Due
<1>7. /\ \A n \in Sizes : y.timers[n] = x.timers[n]
      /\ \A c \in Comms(a) : r \in c.members => ct[c] = y.calls[c] /\ y.calls[c] \in Nat
  <2>1. /\ \A n \in Sizes : y.timers[n] = IF Recorded(u, x) /\ n = x.size
                        THEN IF Due(a, u, x) THEN <<>> ELSE Extended(u, x)
                        ELSE x.timers[n]
        /\ \A c \in Comms(a) : y.calls[c] = x.calls[c] + (IF Called(u, c) THEN 1 ELSE 0)
                       + (IF Due(a, u, x) /\ c = Sub(x.size) THEN 1 ELSE 0)
    <3> HIDE DEF y, x, u
    <3> QED
      BY <1>2 DEF After
  <2>2. \A c \in Comms(a) : x.calls[c] \in Nat
    BY <1>1, TimelineType DEF Moment
  <2>3. \A c \in Comms(a) : r \in c.members =>
            ct[c] = x.calls[c] + IF Collects(u[r]) /\ c = CommOf(u[r]) THEN 1 ELSE 0
    OBVIOUS
  <2>4. \A c \in Comms(a) : r \in c.members =>
            (Called(u, c) <=> Collects(u[r]) /\ CommOf(u[r]) = c)
    BY <1>2, <1>3, CalledByMembers
  <2> HIDE DEF y, x, u
  <2>5. \A c \in Comms(a) : r \in c.members => ct[c] = y.calls[c] /\ y.calls[c] \in Nat
    BY <1>6, <2>1, <2>2, <2>3, <2>4
  <2> QED
    BY <1>4, <1>6, <2>1, <2>5
<1>8. InPlace(a, r, q, Rest(a, r)[q]) /\ InPhase(a, r, q, "ready")
  BY <1>1 DEF InPlace, InPhase, Flushes
<1>9. InSize(a, r, q, sz2, en2)
  OBVIOUS
<1>10. "ready" \notin Flushes /\ ph \notin Flushes
  BY DEF Flushes
<1>11. InRecords(a, r, q, "ready", rc)
  <2>1. InRecords(a, r, p, ph, rc)
    BY DEF StandsAt
  <2> QED
    BY <1>7, <1>10, <2>1 DEF InRecords
<1>12. InCount(a, r, q, "ready", ct)
  BY <1>7 DEF InCount
<1>13. InGathers(a, r, q, "ready", gt)
  <2>1. SUFFICES ASSUME NEW j \in 1 .. q, NEW n \in Sizes, Gathers(a, j, n), n = 0 \/ r < n
                 PROVE  gt[n] >= Timeline(a)[j].calls[TimingComm(n)]
    BY DEF InGathers
  <2>2. CASE j \in 1 .. p
    BY <1>10, <2>1, <2>2 DEF StandsAt, InGathers
  <2>3. CASE j = q
    <3>1. u[r].do = "gather_timing" /\ u[r].n = n
      BY <1>1, <1>4, <1>6, <2>1, <2>3 DEF Gathers
    <3>2. gt[n] >= ct[TimingComm(n)]
      BY <3>1
    <3>3. TimingComm(n) \in Comms(a) /\ r \in TimingComm(n).members
      BY <2>1, TimingCommIs DEF Comms
    <3> QED
      BY <1>7, <2>3, <3>2, <3>3
  <2> QED
    BY <1>1, <2>2, <2>3
<1> QED
  BY <1>8, <1>9, <1>11, <1>12, <1>13 DEF StandsAt

\* A rank that flushes does so for the size under test, of which it is part.
LEMMA FlushesItsSize ==
    ASSUME NEW a \in Options, NEW r \in Ranks, NEW p, NEW ph \in Flushes,
           NEW td, NEW sz, NEW en, NEW rc, NEW ct, NEW gt,
           StandsAt(a, r, p, td, ph, sz, en, rc, ct, gt)
    PROVE  /\ p \in 1 .. Length(a) /\ p \in 0 .. Length(a)
           /\ sz = Timeline(a)[p - 1].size /\ sz \in Sizes \ {0} /\ r < sz
           /\ Due(a, Score(a)[p], Timeline(a)[p - 1])
           /\ Score(a)[p][0].do # "gather_timing"
           /\ Timeline(a)[p] = After(a, Score(a)[p], Timeline(a)[p - 1])
           /\ Sub(sz) = TimingComm(sz)
           /\ TimingComm(sz) \in Comms(a) /\ r \in TimingComm(sz).members
<1> DEFINE u == Score(a)[p]
           x == Timeline(a)[p - 1]
           y == Timeline(a)[p]
<1>1. p \in 0 .. Length(a) /\ p >= 1 /\ u[r] # Idle /\ Due(a, u, x)
  BY DEF StandsAt, InPlace, InPhase
<1>2. p \in 1 .. Length(a) /\ Length(a) \in Nat
  BY <1>1, TimelineIs
<1>3. u[0] \in OrdinaryCalls /\ InTest(u[0])
  BY <1>1 DEF Due, Recorded, InTest
<1>4. x.size \in Sizes \ {0} /\ r < x.size
  BY <1>1, <1>2, <1>3, Attuned
<1>5. u[0].do # "gather_timing" /\ u[0].do # "timing_allocate"
  BY <1>3, KindsDiffer
<1>6. y = After(a, u, x)
  BY <1>2, TimelineIs
<1>7. y.size = x.size
  <2> HIDE DEF y, x, u
  <2> QED
    BY <1>5, <1>6 DEF After
<1>8. sz = x.size
  BY <1>4, <1>7 DEF StandsAt, InSize
<1>9. Sub(sz) = TimingComm(sz)
  BY <1>4, <1>8 DEF TimingComm
<1>10. TimingComm(sz) \in Comms(a) /\ r \in TimingComm(sz).members
  BY <1>4, <1>8, TimingCommIs DEF Comms
<1> QED
  BY <1>1, <1>2, <1>4, <1>5, <1>6, <1>8, <1>9, <1>10

\* Where a rank that flushes stands.
FlushOf(a, r, p, sz) ==
    /\ p \in 1 .. Length(a) /\ p \in 0 .. Length(a)
    /\ sz = Timeline(a)[p - 1].size /\ sz \in Sizes \ {0} /\ r < sz
    /\ Due(a, Score(a)[p], Timeline(a)[p - 1])
    /\ Score(a)[p][0].do # "gather_timing"
    /\ Timeline(a)[p] = After(a, Score(a)[p], Timeline(a)[p - 1])
    /\ TimingComm(sz) \in Comms(a) /\ r \in TimingComm(sz).members

LEMMA FlushIsOf ==
    ASSUME NEW a \in Options, NEW r \in Ranks, NEW p, NEW ph \in Flushes,
           NEW td, NEW sz, NEW en, NEW rc, NEW ct, NEW gt,
           StandsAt(a, r, p, td, ph, sz, en, rc, ct, gt)
    PROVE  FlushOf(a, r, p, sz)
  BY FlushesItsSize DEF FlushOf

LEMMA StartsFlush ==
    ASSUME NEW a \in Options, NEW r \in Ranks, NEW p,
           NEW td, NEW sz, NEW en, NEW rc, NEW ct, NEW gt, NEW ct2,
           StandsAt(a, r, p, td, "flush", sz, en, rc, ct, gt),
           \A c \in Comms(a) : ct2[c] = ct[c] + IF c = Sub(sz) THEN 1 ELSE 0
    PROVE  StandsAt(a, r, p, td, "flushing", sz, en, rc, ct2, gt)
<1>1. "flush" \in Flushes /\ "flushing" \in Flushes
  BY DEF Flushes
<1>2. p \in 0 .. Length(a) /\ sz = Timeline(a)[p - 1].size
  BY <1>1, FlushesItsSize
<1>3. InPhase(a, r, p, "flushing")
  BY <1>1 DEF StandsAt, InPhase
<1>4. InRecords(a, r, p, "flushing", rc)
  <2>1. InRecords(a, r, p, "flush", rc)
    BY DEF StandsAt
  <2> QED
    BY <1>1, <2>1 DEF InRecords
<1>5. InCount(a, r, p, "flushing", ct2)
  <2> DEFINE y == Timeline(a)[p]
  <2>1. SUFFICES ASSUME NEW c \in Comms(a), r \in c.members PROVE ct2[c] = y.calls[c] + 0 - 0
    BY DEF InCount
  <2>2. ct[c] = y.calls[c] + 0 - (IF c = Sub(sz) THEN 1 ELSE 0)
    BY <1>2, <2>1 DEF StandsAt, InCount
  <2>3. y.calls[c] \in Nat
    BY <1>2, TimelineType DEF Moment
  <2>4. ct2[c] = ct[c] + IF c = Sub(sz) THEN 1 ELSE 0
    OBVIOUS
  <2> HIDE DEF y
  <2> QED
    BY <2>2, <2>3, <2>4
<1>6. InGathers(a, r, p, "flushing", gt)
  BY <1>1 DEF StandsAt, InGathers
<1> QED
  BY <1>3, <1>4, <1>5, <1>6 DEF StandsAt

LEMMA EndsFlush ==
    ASSUME NEW a \in Options, NEW r \in Ranks, NEW p,
           NEW td, NEW sz, NEW en, NEW ct, NEW gt, NEW rc2,
           NEW rc \in [Sizes -> Seq([timer : Timers, participated : BOOLEAN])],
           StandsAt(a, r, p, td, "flushing", sz, en, rc, ct, gt),
           rc2 = [rc EXCEPT ![sz] = <<>>],
           gt[sz] >= ct[Sub(sz)]
    PROVE  StandsAt(a, r, p, td, "ready", sz, en, rc2, ct, gt)
<1> DEFINE u == Score(a)[p]
           x == Timeline(a)[p - 1]
           y == Timeline(a)[p]
<1>1. "flushing" \in Flushes /\ "ready" \notin Flushes
  BY DEF Flushes
<1>2. /\ p \in 1 .. Length(a) /\ p \in 0 .. Length(a)
      /\ sz = x.size /\ sz \in Sizes \ {0} /\ r < sz
      /\ Due(a, u, x) /\ u[0].do # "gather_timing" /\ y = After(a, u, x)
      /\ Sub(sz) = TimingComm(sz) /\ TimingComm(sz) \in Comms(a) /\ r \in TimingComm(sz).members
  <2>1. /\ p \in 1 .. Length(a) /\ p \in 0 .. Length(a)
        /\ sz = x.size /\ sz \in Sizes \ {0} /\ r < sz
        /\ Due(a, u, x) /\ u[0].do # "gather_timing" /\ y = After(a, u, x)
        /\ TimingComm(sz) \in Comms(a) /\ r \in TimingComm(sz).members
    <3> DEFINE ph == "flushing"
    <3>1. ph \in Flushes /\ StandsAt(a, r, p, td, ph, sz, en, rc, ct, gt)
      BY <1>1
    <3>2. FlushOf(a, r, p, sz)
      <4> HIDE DEF x, y, u, ph
      <4> QED
        BY <3>1, FlushIsOf
    <3> QED
      BY <3>2 DEF FlushOf
  <2>2. Sub(sz) = TimingComm(sz)
    BY <2>1 DEF TimingComm
  <2> QED
    BY <2>1, <2>2
<1>3. InPhase(a, r, p, "ready")
  BY <1>1 DEF InPhase
<1>4. InRecords(a, r, p, "ready", rc2)
  <2>1. InRecords(a, r, p, "flushing", rc)
    BY DEF StandsAt
  <2>2. TimersOf(<<>>) = <<>>
    BY DEF TimersOf
  <2>3. y.timers[sz] = <<>>
    <3>1. Recorded(u, x)
      BY <1>2 DEF Due
    <3> HIDE DEF x, y, u
    <3> QED
      BY <1>2, <3>1 DEF After
  <2>4. ASSUME NEW n \in Sizes, n = 0 \/ r < n PROVE TimersOf(rc2[n]) = y.timers[n]
    <3>1. CASE n = sz
      BY <2>2, <2>3, <3>1
    <3>2. CASE n # sz
      <4>1. rc2[n] = rc[n]
        BY <3>2
      <4>2. TimersOf(rc[n]) = y.timers[n]
        BY <1>2, <2>1, <2>4, <3>2 DEF InRecords
      <4> QED
        BY <4>1, <4>2
    <3> QED
      BY <3>1, <3>2
  <2> QED
    BY <1>1, <2>4 DEF InRecords
<1>5. InCount(a, r, p, "ready", ct)
  BY DEF StandsAt, InCount
<1>6. InGathers(a, r, p, "ready", gt)
  <2>1. SUFFICES ASSUME NEW j \in 1 .. p, NEW n \in Sizes, Gathers(a, j, n), n = 0 \/ r < n
                 PROVE  gt[n] >= Timeline(a)[j].calls[TimingComm(n)]
    BY DEF InGathers
  <2>2. CASE j < p
    BY <2>1, <2>2 DEF StandsAt, InGathers
  <2>3. CASE j = p
    <3>1. n = sz
      BY <1>2, <2>1, <2>3 DEF Gathers
    <3>2. ct[TimingComm(sz)] = y.calls[TimingComm(sz)] + 0 - 0
      BY <1>2 DEF StandsAt, InCount
    <3>3. y.calls[TimingComm(sz)] \in Nat
      BY <1>2, TimelineType DEF Moment
    <3> QED
      BY <1>2, <2>3, <3>1, <3>2, <3>3
  <2> QED
    BY <1>2, <2>2, <2>3
<1> QED
  BY <1>3, <1>4, <1>5, <1>6 DEF StandsAt

\* What rank 0 has gathered only grows.
LEMMA GatheringMore ==
    ASSUME NEW a \in Options, NEW r \in Ranks, NEW p,
           NEW td, NEW ph, NEW sz, NEW en, NEW rc, NEW ct, NEW gt, NEW gt2,
           StandsAt(a, r, p, td, ph, sz, en, rc, ct, gt),
           \A n \in Sizes : gt[n] \in Nat /\ gt2[n] \in Nat /\ gt[n] <= gt2[n]
    PROVE  StandsAt(a, r, p, td, ph, sz, en, rc, ct, gt2)
<1>1. InGathers(a, r, p, ph, gt2)
  <2>1. SUFFICES ASSUME NEW j \in 1 .. p, NEW n \in Sizes, Gathers(a, j, n), n = 0 \/ r < n,
                        j < p \/ ph \notin Flushes
                 PROVE  gt2[n] >= Timeline(a)[j].calls[TimingComm(n)]
    BY DEF InGathers
  <2>2. gt[n] >= Timeline(a)[j].calls[TimingComm(n)]
    BY <2>1 DEF StandsAt, InGathers
  <2>3. Timeline(a)[j].calls[TimingComm(n)] \in Nat
    <3>1. j \in 0 .. Length(a) /\ TimingComm(n) \in Comms(a)
      BY TimelineIs DEF StandsAt, InPlace, Comms
    <3> QED
      BY <3>1, TimelineType DEF Moment
  <2> QED
    BY <2>2, <2>3
<1> QED
  BY <1>1 DEF StandsAt

\* Every collective call of the score is on one of the communicators that are counted.
LEMMA CallsOnComms ==
    ASSUME NEW a \in Options, NEW r \in Ranks, NEW j \in 1 .. Length(a),
           Score(a)[j][r] # Idle, Collects(Score(a)[j][r])
    PROVE  CommOf(Score(a)[j][r]) \in Comms(a)
<1> DEFINE L == Length(a)
           R == Rest(a, r)
           P == ToSet(Program(a, r))
           K == {k \in Nat : k <= L => \A i \in 1 .. Len(R[k]) : R[k][i] \in P}
           x == Score(a)[j][r]
<1> HIDE DEF Calls
<1>1. /\ L \in Nat /\ R[0] = Program(a, r)
      /\ \A k \in 1 .. L : IF Score(a)[k][r] = Idle THEN R[k - 1] = R[k]
                           ELSE R[k - 1] # <<>> /\ Head(R[k - 1]) = Score(a)[k][r] /\ Tail(R[k - 1]) = R[k]
      /\ \A k \in 0 .. L : R[k] \in Seq(Calls)
  BY TimelineIs, RestIs
<1>2. \A k \in 0 .. L : Len(R[k]) \in Nat
  BY <1>1
<1> HIDE DEF L, R, P
<1>3. 0 \in K
  <2>1. \A i \in 1 .. Len(R[0]) : R[0][i] \in P
    <3>1. R[0] \in Seq(Calls)
      BY <1>1
    <3>2. \A i \in 1 .. Len(R[0]) : i \in DOMAIN R[0]
      BY <3>1
    <3> QED
      BY <1>1, <3>2 DEF P, ToSet
  <2> QED
    BY <2>1
<1>4. ASSUME NEW k \in K PROVE k + 1 \in K
  <2>1. SUFFICES ASSUME k + 1 <= L, NEW i \in 1 .. Len(R[k + 1]) PROVE R[k + 1][i] \in P
    OBVIOUS
  <2>2. k \in Nat /\ k + 1 \in 1 .. L /\ (k + 1) - 1 = k /\ k \in 0 .. L /\ k + 1 \in 0 .. L
    BY <1>1, <2>1
  <2>3. \A h \in 1 .. Len(R[k]) : R[k][h] \in P
    BY <1>1, <1>4, <2>2
  <2>4. CASE Score(a)[k + 1][r] = Idle
    <3>1. R[k] = R[k + 1]
      BY <1>1, <2>2, <2>4
    <3> QED
      BY <2>3, <3>1
  <2>5. CASE Score(a)[k + 1][r] # Idle
    <3>1. R[k] # <<>> /\ Tail(R[k]) = R[k + 1] /\ R[k] \in Seq(Calls)
      BY <1>1, <2>2, <2>5
    <3> DEFINE s == R[k]
    <3> HIDE DEF s, K
    <3>2. s # <<>> /\ s \in Seq(Calls)
      BY <3>1 DEF s
    <3>3. Len(Tail(s)) = Len(s) - 1 /\ \A h \in 1 .. Len(Tail(s)) : Tail(s)[h] = s[h + 1]
      BY <3>2, HeadTailProperties
    <3>4. i + 1 \in 1 .. Len(s) /\ Tail(s)[i] = s[i + 1]
      <4>1. i \in 1 .. Len(Tail(s)) /\ Len(s) \in Nat
        BY <1>2, <2>2, <3>1 DEF s
      <4> QED
        BY <3>3, <4>1
    <3> QED
      BY <2>3, <3>1, <3>4 DEF s
  <2> QED
    BY <2>4, <2>5
<1>5. K \in SUBSET Nat
  OBVIOUS
<1> HIDE DEF K
<1>6. K = Nat
  BY <1>3, <1>4, <1>5, SetInduction
<1>7. j - 1 \in Nat /\ j - 1 <= L /\ j - 1 \in 0 .. L /\ j \in 1 .. L
  BY <1>1 DEF L
<1>8. \A i \in 1 .. Len(R[j - 1]) : R[j - 1][i] \in P
  BY <1>6, <1>7 DEF K
<1>9. x \in P
  <2>1. R[j - 1] # <<>> /\ Head(R[j - 1]) = x /\ R[j - 1] \in Seq(Calls)
    BY <1>1, <1>7
  <2> DEFINE s == R[j - 1]
  <2> HIDE DEF s, x
  <2>2. s # <<>> /\ s \in Seq(Calls) /\ Head(s) = x
    BY <2>1 DEF s
  <2>3. 1 \in 1 .. Len(s) /\ Head(s) = s[1]
    BY <2>2
  <2> QED
    BY <1>8, <2>2, <2>3 DEF s
<1>10. x \in Calls
  <2>1. Score(a)[j] \in Slots
    BY TimelineIs
  <2>2. Score(a)[j][r] \in Calls \cup {Idle}
    BY <2>1 DEF Slots
  <2> QED
    BY <2>2
<1>11. CASE x.do = "gather_timing"
  <2>1. x \in SizeCalls
    BY <1>10, <1>11, KindsDiffer DEF Calls
  <2>2. x.n \in Sizes
    BY <2>1, KindsDiffer
  <2> QED
    BY <1>11, <2>2 DEF CommOf, Comms
<1>12. CASE x.do # "gather_timing"
  <2>1. x.do \in Collective
    BY <1>12 DEF Collects
  <2>2. x.do \notin {"enable", "timing_allocate", "gather_timing"}
    BY <2>1 DEF Collective, Blocking
  <2>3. x \in OrdinaryCalls
    BY <1>10, <2>2, KindsDiffer DEF Calls
  <2> HIDE DEF x
  <2>4. "on" \in DOMAIN x
    BY <2>3 DEF OrdinaryCalls
  <2>5. x \in {d \in ToSet(Program(a, r)) : "on" \in DOMAIN d}
    BY <1>9, <2>4 DEF P
  <2>6. x.on \in Comms(a)
    BY <2>5 DEF Comms
  <2> QED
    BY <1>12, <2>6 DEF CommOf, x
<1> QED
  BY <1>11, <1>12

-----------------------------------------------------------------------------
(* The inductive invariant: each rank stands somewhere in the score.       *)

Timing == [timer : Timers, participated : BOOLEAN]
Follows(r, p) ==
    StandsAt(args, r, p, todo[r], phase[r], size[r], enabled[r], records[r], count[r], gathered)
CommTypes ==
    /\ args \in Options
    /\ todo \in [Ranks -> Seq(Calls)]
    /\ phase \in [Ranks -> {"ready", "inside", "flush", "flushing"}]
    /\ size \in [Ranks -> Sizes]
    /\ enabled \in [Ranks -> BOOLEAN]
    /\ records \in [Ranks -> [Sizes -> Seq(Timing)]]
    /\ count \in [Ranks -> [Comms(args) -> Nat]]
    /\ gathered \in [Sizes -> Nat]
\* Nobody records a timer of a test he has no part in.
NoStranger == \A r \in Ranks : \A n \in Sizes : n # 0 /\ ~(r < n) => records[r][n] = <<>>
CommIInv ==
    /\ CommTypes /\ NoStranger
    /\ \A r \in Ranks : \E p : Follows(r, p)
    /\ main_ret_val = 0

\* What a rank is about to do, or inside of.
Facing(r, q) ==
    /\ q \in 0 .. Length(args) - 1 /\ Follows(r, q)
    /\ Here(r) = Score(args)[q + 1][r] /\ Here(r) # Idle /\ Here(r) \in Calls
    /\ Tail(todo[r]) = Rest(args, r)[q + 1]
    /\ phase[r] = "inside" => Here(r).do \in Blocking \cup {"gather_timing"}

LEMMA Faces ==
    ASSUME CommIInv, NEW r \in Ranks, \/ phase[r] = "inside"
                                      \/ phase[r] = "ready" /\ ~Ended(r)
    PROVE  \E q : Facing(r, q)
<1> USE DEF CommIInv, CommTypes
<1> DEFINE L == Length(args)
<1>1. args \in Options /\ L \in Nat
  BY TimelineIs
<1>2. ASSUME NEW q \in 0 .. L - 1, Score(args)[q + 1][r] # Idle
      PROVE  Score(args)[q + 1][r] \in Calls
  <2>1. q + 1 \in 1 .. L
    BY <1>1
  <2>2. Score(args)[q + 1] \in Slots
    BY <1>1, <2>1, TimelineIs
  <2> HIDE DEF Calls
  <2>3. Score(args)[q + 1][r] \in Calls \cup {Idle}
    BY <2>2 DEF Slots
  <2> QED
    BY <1>2, <2>3
<1>3. CASE phase[r] = "inside"
  <2>1. PICK p : Follows(r, p)
    OBVIOUS
  <2>2. /\ p \in 0 .. L - 1 /\ Score(args)[p + 1][r] # Idle /\ todo[r] = Rest(args, r)[p]
        /\ Score(args)[p + 1][r].do \in Blocking \cup {"gather_timing"}
    BY <1>1, <1>3, <2>1 DEF Follows, StandsAt, InPlace, InPhase
  <2>3. p + 1 \in 1 .. L /\ (p + 1) - 1 = p
    BY <1>1, <2>2
  <2>4. Head(todo[r]) = Score(args)[p + 1][r] /\ Tail(todo[r]) = Rest(args, r)[p + 1]
    BY <1>1, <2>2, <2>3, RestIs
  <2>5. Facing(r, p)
    BY <1>2, <2>1, <2>2, <2>4 DEF Facing, Here
  <2> QED
    BY <2>5
<1>4. CASE phase[r] = "ready" /\ ~Ended(r)
  <2>1. todo[r] # <<>>
    BY <1>4 DEF Ended
  <2>2. PICK p : StandsAt(args, r, p, todo[r], "ready", size[r], enabled[r], records[r], count[r], gathered)
    BY <1>4 DEF Follows
  <2>3. PICK q \in 0 .. L - 1 :
          /\ StandsAt(args, r, q, todo[r], "ready", size[r], enabled[r], records[r], count[r], gathered)
          /\ Score(args)[q + 1][r] # Idle
          /\ Head(todo[r]) = Score(args)[q + 1][r] /\ Tail(todo[r]) = Rest(args, r)[q + 1]
    <3> DEFINE a == args
               td == todo[r]
               sz == size[r]
               en == enabled[r]
               rc == records[r]
               ct == count[r]
    <3> HIDE DEF CommIInv, CommTypes, a, td, sz, en, rc, ct
    <3>1. a \in Options /\ td # <<>> /\ StandsAt(a, r, p, td, "ready", sz, en, rc, ct, gathered)
      BY <1>1, <2>1, <2>2 DEF a, td, sz, en, rc, ct
    <3>2. \E q \in 0 .. Length(a) - 1 :
            /\ StandsAt(a, r, q, td, "ready", sz, en, rc, ct, gathered)
            /\ Score(a)[q + 1][r] # Idle
            /\ Head(td) = Score(a)[q + 1][r] /\ Tail(td) = Rest(a, r)[q + 1]
      BY <3>1, Settle
    <3> QED
      BY <3>2 DEF a, td, sz, en, rc, ct
  <2>4. Facing(r, q)
    BY <1>2, <1>4, <2>3 DEF Facing, Here, Follows
  <2> QED
    BY <2>4
<1> QED
  BY <1>3, <1>4

\* The others stay where they are.
LEMMA OthersStay ==
    ASSUME CommIInv, NEW r \in Ranks, UNCHANGED <<args, gathered>>,
           \A s \in Ranks \ {r} :
              /\ todo'[s] = todo[s] /\ phase'[s] = phase[s] /\ size'[s] = size[s]
              /\ enabled'[s] = enabled[s] /\ records'[s] = records[s] /\ count'[s] = count[s],
           \E p : Follows(r, p)'
    PROVE  \A s \in Ranks : \E p : Follows(s, p)'
<1>1. ASSUME NEW s \in Ranks \ {r} PROVE \E p : Follows(s, p)'
  <2>1. PICK p : Follows(s, p)
    BY DEF CommIInv
  <2>2. Follows(s, p)'
    BY <2>1 DEF Follows
  <2> QED
    BY <2>2
<1> QED
  BY <1>1

\* Timers are stopped by those the size under test concerns.
LEMMA StopsItsSize ==
    ASSUME NEW a \in Options, NEW r \in Ranks, NEW p \in 0 .. Length(a) - 1,
           Score(a)[p + 1][r] \in OrdinaryCalls, Score(a)[p + 1][r].timer # NoTimer,
           NEW sz, NEW en, InSize(a, r, p, sz, en)
    PROVE  sz \in Sizes \ {0} /\ r < sz /\ Score(a)[p + 1][r].timer \in Timers
<1> DEFINE u == Score(a)[p + 1]
<1>1. Length(a) \in Nat /\ p + 1 \in 1 .. Length(a) /\ (p + 1) - 1 = p
  BY TimelineIs
<1>2. InHarmony(u)
  BY <1>1, TimelineIs
<1>3. u[r] # Idle
  <2>1. u[r] \in Calls
    BY DEF Calls
  <2> QED
    BY <2>1, IdleIsNoCall
<1>4. InTest(u[0])
  BY <1>2, <1>3 DEF InHarmony, InTest
<1>5. Timeline(a)[p].size \in Sizes \ {0} /\ r < Timeline(a)[p].size
  BY <1>1, <1>3, <1>4, Attuned
<1>6. u[r].timer \in Timers
  BY KindsDiffer
<1> QED
  BY <1>5, <1>6 DEF InSize

LEMMA Returns ==
    ASSUME CommIInv, NEW r \in Ranks, NEW q, Facing(r, q), Here(r) \in OrdinaryCalls,
           phase[r] \in {"ready", "inside"}, NEW part \in BOOLEAN,
           Return(r, Here(r).timer, part),
           UNCHANGED <<args, size, enabled, gathered, main_ret_val>>,
           count' \in [Ranks -> [Comms(args) -> Nat]],
           \A s \in Ranks \ {r} : count'[s] = count[s],
           \A c \in Comms(args) : r \in c.members =>
              count'[r][c] = Timeline(args)[q].calls[c]
                               + IF Collects(Here(r)) /\ c = CommOf(Here(r)) THEN 1 ELSE 0
    PROVE  CommIInv'
<1> DEFINE a == args
           u == Score(args)[q + 1]
           td == todo[r]
           ph == phase[r]
           sz == size[r]
           en == enabled[r]
           rc == records[r]
           ct == count[r]
           td2 == todo'[r]
           ph2 == phase'[r]
           rc2 == records'[r]
           ct2 == count'[r]
<1>1. /\ args \in Options /\ todo \in [Ranks -> Seq(Calls)]
      /\ phase \in [Ranks -> {"ready", "inside", "flush", "flushing"}]
      /\ size \in [Ranks -> Sizes] /\ enabled \in [Ranks -> BOOLEAN]
      /\ records \in [Ranks -> [Sizes -> Seq(Timing)]] /\ gathered \in [Sizes -> Nat]
  BY DEF CommIInv, CommTypes
<1>2. /\ q \in 0 .. Length(a) - 1 /\ u[r] = Here(r) /\ u[r] \in OrdinaryCalls
      /\ StandsAt(a, r, q, td, ph, sz, en, rc, ct, gathered)
      /\ Tail(todo[r]) = Rest(a, r)[q + 1]
  BY DEF Facing, Follows
<1>3. todo' = [todo EXCEPT ![r] = Tail(@)]
  BY DEF Return, GoOn
<1>4. todo' \in [Ranks -> Seq(Calls)] /\ todo'[r] = Rest(a, r)[q + 1]
      /\ \A s \in Ranks \ {r} : todo'[s] = todo[s]
  <2> HIDE DEF Calls, a
  <2>1. Length(a) \in Nat /\ q + 1 \in 0 .. Length(a)
    BY <1>1, <1>2, TimelineIs DEF a
  <2>2. Rest(a, r)[q + 1] \in Seq(Calls)
    BY <1>1, <2>1, RestIs DEF a
  <2>3. todo'[r] = Tail(todo[r])
    BY <1>1, <1>3
  <2> QED
    BY <1>1, <1>2, <1>3, <2>2, <2>3
<1>5. Stopped(u, r, en) => sz \in Sizes \ {0} /\ r < sz /\ u[r].timer \in Timers
  <2> HIDE DEF u, a, sz, en
  <2>1. InSize(a, r, q, sz, en) /\ a \in Options
    BY <1>1, <1>2 DEF StandsAt, a
  <2> QED
    BY <1>2, <2>1, StopsItsSize DEF Stopped, u, a
<1>6. /\ rc2 = IF Stopped(u, r, en)
                 THEN [rc EXCEPT ![sz] = IF Len(@) < a.timing_flush_interval
                                           THEN Append(@, Record(u[r].timer, part)) ELSE @]
                 ELSE rc
      /\ ph2 = IF Stopped(u, r, en) /\ FullBy(a, rc, sz) THEN "flush" ELSE "ready"
      /\ \A s \in Ranks \ {r} : records'[s] = records[s] /\ phase'[s] = phase[s]
      /\ phase' \in [Ranks -> {"ready", "inside", "flush", "flushing"}]
      /\ records' \in [Ranks -> [Sizes -> Seq(Timing)]]
  <2>1. CASE Stopped(u, r, en)
    <3>1. ~(Here(r).timer = NoTimer \/ ~enabled[r])
      BY <1>2, <2>1 DEF Stopped
    <3>2. records' = [records EXCEPT ![r][sz] = IF Len(@) < args.timing_flush_interval
                          THEN Append(@, Record(u[r].timer, part)) ELSE @]
      BY <1>2, <3>1 DEF Return
    <3>3. phase' = [phase EXCEPT ![r] = IF FlushDue(args, Len(records[r][sz]) + 1) THEN "flush" ELSE "ready"]
      BY <3>1 DEF Return
    <3> DEFINE z == IF Len(rc[sz]) < args.timing_flush_interval
                          THEN Append(rc[sz], Record(u[r].timer, part)) ELSE rc[sz]
    <3>4. z \in Seq(Timing)
      <4>1. rc[sz] \in Seq(Timing)
        BY <1>1
      <4>2. Record(u[r].timer, part) \in Timing
        BY <1>5, <2>1 DEF Record, Timing
      <4> HIDE DEF Timing, rc, sz
      <4> QED
        BY <4>1, <4>2, AppendProperties
    <3>5. records' = [records EXCEPT ![r] = [records[r] EXCEPT ![sz] = z]]
      BY <1>1, <3>2
    <3> HIDE DEF z, Timing
    <3>6. /\ records' \in [Ranks -> [Sizes -> Seq(Timing)]]
          /\ rc2 = [rc EXCEPT ![sz] = z]
          /\ \A s \in Ranks \ {r} : records'[s] = records[s]
      BY <1>1, <3>4, <3>5
    <3>7. /\ phase' \in [Ranks -> {"ready", "inside", "flush", "flushing"}]
          /\ \A s \in Ranks \ {r} : phase'[s] = phase[s]
          /\ ph2 = IF FullBy(a, rc, sz) THEN "flush" ELSE "ready"
      BY <1>1, <3>3 DEF FullBy, FlushDue
    <3> QED
      BY <2>1, <3>6, <3>7 DEF z
  <2>2. CASE ~Stopped(u, r, en)
    <3>1. Here(r).timer = NoTimer \/ ~enabled[r]
      BY <1>2, <2>2 DEF Stopped
    <3>2. records' = records /\ phase' = [phase EXCEPT ![r] = "ready"]
      BY <3>1 DEF Return
    <3> QED
      BY <1>1, <2>2, <3>2
  <2> QED
    BY <2>1, <2>2
<1>7. \E p : Follows(r, p)'
  <2>1. /\ en \in BOOLEAN /\ rc \in [Sizes -> Seq([timer : Timers, participated : BOOLEAN])]
        /\ ph \in {"ready", "inside"} /\ a \in Options /\ u[r] \in OrdinaryCalls
    BY <1>1, <1>2 DEF Timing
  <2>2. \A c \in Comms(a) : r \in c.members =>
              ct2[c] = Timeline(a)[q].calls[c]
                         + IF Collects(u[r]) /\ c = CommOf(u[r]) THEN 1 ELSE 0
    BY <1>2
  <2> HIDE DEF td, ph, sz, en, rc, ct, td2, ph2, rc2, ct2, a
  <2>3. u = Score(a)[q + 1]
    BY DEF a
  <2> HIDE DEF u
  <2>4. StandsAt(a, r, q + 1, Rest(a, r)[q + 1],
                 IF Stopped(u, r, en) /\ FullBy(a, rc, sz) THEN "flush" ELSE "ready",
                 sz, en, rc2, ct2, gathered)
    <3>1. /\ q \in 0 .. Length(a) - 1 /\ Score(a)[q + 1][r] \in OrdinaryCalls
          /\ StandsAt(a, r, q, td, ph, sz, en, rc, ct, gathered)
      BY <1>2, <2>3
    <3>2. rc2 = IF Stopped(Score(a)[q + 1], r, en)
                 THEN [rc EXCEPT ![sz] = IF Len(@) < a.timing_flush_interval
                                           THEN Append(@, Record(Score(a)[q + 1][r].timer, part)) ELSE @]
                 ELSE rc
      BY <1>6, <2>3
    <3>3. \A c \in Comms(a) : r \in c.members =>
              ct2[c] = Timeline(a)[q].calls[c]
                         + IF Collects(Score(a)[q + 1][r]) /\ c = CommOf(Score(a)[q + 1][r]) THEN 1 ELSE 0
      BY <2>2, <2>3
    <3>4. StandsAt(a, r, q + 1, Rest(a, r)[q + 1],
                   IF Stopped(Score(a)[q + 1], r, en) /\ FullBy(a, rc, sz) THEN "flush" ELSE "ready",
                   sz, en, rc2, ct2, gathered)
      BY <2>1, <3>1, <3>2, <3>3, Leaves
    <3> QED
      BY <2>3, <3>4
  <2>5. StandsAt(a, r, q + 1, todo'[r], ph2, sz, en, rc2, ct2, gathered)
    BY <1>4, <1>6, <2>4
  <2> QED
    BY <2>5 DEF Follows, ph2, sz, en, rc2, ct2, a
<1>8. \A s \in Ranks : \E p : Follows(s, p)'
  BY <1>4, <1>6, <1>7, OthersStay
<1>9. NoStranger'
  <2>1. SUFFICES ASSUME NEW s \in Ranks, NEW n \in Sizes, n # 0, ~(s < n) PROVE records'[s][n] = <<>>
    BY DEF NoStranger
  <2>2. records[s][n] = <<>>
    BY <2>1 DEF CommIInv, NoStranger
  <2>3. CASE s # r
    BY <1>6, <2>2, <2>3
  <2>4. CASE s = r
    <3>1. Stopped(u, r, en) => n # sz
      BY <1>5, <2>1, <2>4
    <3>2. records'[r][n] = records[r][n]
      BY <1>1, <1>6, <3>1
    <3> QED
      BY <2>2, <2>4, <3>2
  <2> QED
    BY <2>3, <2>4
<1>10. CommTypes'
  BY <1>1, <1>4, <1>6 DEF CommTypes
<1> QED
  BY <1>8, <1>9, <1>10 DEF CommIInv

LEMMA Counts ==
    ASSUME CommTypes, NEW r \in Ranks, NEW c, Count(r, c)
    PROVE  /\ count' \in [Ranks -> [Comms(args) -> Nat]]
           /\ \A s \in Ranks \ {r} : count'[s] = count[s]
           /\ \A d \in Comms(args) : count'[r][d] = count[r][d] + IF d = c THEN 1 ELSE 0
<1>1. count \in [Ranks -> [Comms(args) -> Nat]] /\ count' = [count EXCEPT ![r][c] = @ + 1]
  BY DEF CommTypes, Count
<1> DEFINE D == Comms(args)
           f == [count[r] EXCEPT ![c] = @ + 1]
<1>2. count' = [count EXCEPT ![r] = f]
  BY <1>1
<1> HIDE DEF D
<1>3. count \in [Ranks -> [D -> Nat]] /\ count[r] \in [D -> Nat]
  BY <1>1 DEF D
<1>4. f \in [D -> Nat] /\ \A d \in D : f[d] = count[r][d] + IF d = c THEN 1 ELSE 0
  <2>1. f = [d \in D |-> IF d = c THEN count[r][c] + 1 ELSE count[r][d]]
    BY <1>3
  <2>2. \A d \in D : count[r][d] \in Nat
    BY <1>3
  <2> HIDE DEF f
  <2> QED
    BY <2>1, <2>2
<1> HIDE DEF f
<1>5. count' \in [Ranks -> [D -> Nat]] /\ count'[r] = f /\ \A s \in Ranks \ {r} : count'[s] = count[s]
  BY <1>2, <1>3, <1>4
<1> QED
  BY <1>4, <1>5 DEF D

LEMMA KindOf ==
    ASSUME NEW x \in Calls
    PROVE  /\ x.do \in Ordinary => x \in OrdinaryCalls
           /\ x.do = "enable" => x \in EnableCalls
           /\ x.do \in {"timing_allocate", "gather_timing"} => x \in SizeCalls
<1>1. /\ \A y \in OrdinaryCalls : y.do \in Ordinary
      /\ \A y \in EnableCalls : y.do = "enable"
      /\ \A y \in SizeCalls : y.do \in {"timing_allocate", "gather_timing"}
  BY KindsDiffer
<1>2. "enable" \notin Ordinary /\ "gather_timing" \notin Ordinary /\ "timing_allocate" \notin Ordinary
  BY DEF Ordinary, Collective, Blocking
<1> QED
  BY <1>1, <1>2 DEF Calls

\* A rank that is not flushing has counted the slots behind it.
LEMMA CountsReady ==
    ASSUME NEW a \in Options, NEW r \in Ranks, NEW p, NEW ph \in {"ready", "inside"}, NEW ct,
           p \in 0 .. Length(a), InCount(a, r, p, ph, ct), NEW c \in Comms(a), r \in c.members
    PROVE  /\ ct[c] = Timeline(a)[p].calls[c]
                        + (IF ph = "inside" /\ c = CommOf(Score(a)[p + 1][r]) THEN 1 ELSE 0)
           /\ Timeline(a)[p].calls[c] \in Nat
<1>1. Timeline(a)[p].calls[c] \in Nat
  BY TimelineType DEF Moment
<1>2. ct[c] = Timeline(a)[p].calls[c]
                  + (IF ph = "inside" /\ c = CommOf(Score(a)[p + 1][r]) THEN 1 ELSE 0) - 0
  BY DEF InCount
<1> DEFINE z == Timeline(a)[p].calls[c]
<1> HIDE DEF z
<1>3. z \in Nat /\ ct[c] = z + (IF ph = "inside" /\ c = CommOf(Score(a)[p + 1][r]) THEN 1 ELSE 0) - 0
  BY <1>1, <1>2 DEF z
<1>4. ct[c] = z + (IF ph = "inside" /\ c = CommOf(Score(a)[p + 1][r]) THEN 1 ELSE 0)
  BY <1>3
<1> QED
  BY <1>3, <1>4 DEF z

LEMMA EntersCall ==
    ASSUME CommIInv, NEW r \in Ranks, phase[r] = "ready", ~Ended(r),
           Here(r).do \in Blocking \cup {"gather_timing"},
           Count(r, CommOf(Here(r))), phase' = [phase EXCEPT ![r] = "inside"],
           UNCHANGED <<args, todo, size, enabled, records, gathered, main_ret_val>>
    PROVE  CommIInv'
<1> DEFINE a == args
           td == todo[r]
           sz == size[r]
           en == enabled[r]
           rc == records[r]
           ct == count[r]
           ct2 == count'[r]
<1>1. PICK q : Facing(r, q)
  BY Faces
<1>2. CommTypes
  BY DEF CommIInv
<1>3. phase' \in [Ranks -> {"ready", "inside", "flush", "flushing"}] /\ phase'[r] = "inside"
      /\ \A s \in Ranks \ {r} : phase'[s] = phase[s]
  BY <1>2 DEF CommTypes
<1>4. /\ count' \in [Ranks -> [Comms(args) -> Nat]]
      /\ \A s \in Ranks \ {r} : count'[s] = count[s]
      /\ \A d \in Comms(args) : count'[r][d] = count[r][d] + IF d = CommOf(Here(r)) THEN 1 ELSE 0
  BY <1>2, Counts
<1>5. /\ a \in Options /\ q \in 0 .. Length(a) - 1 /\ Score(a)[q + 1][r] # Idle
      /\ Score(a)[q + 1][r].do \in Blocking \cup {"gather_timing"}
      /\ StandsAt(a, r, q, td, "ready", sz, en, rc, ct, gathered)
      /\ \A c \in Comms(a) : ct2[c] = ct[c] + IF c = CommOf(Score(a)[q + 1][r]) THEN 1 ELSE 0
  BY <1>1, <1>2, <1>4 DEF Facing, Follows, CommTypes
<1>6. StandsAt(a, r, q, td, "inside", sz, en, rc, ct2, gathered)
  <2> HIDE DEF a, td, sz, en, rc, ct, ct2
  <2> QED
    BY <1>5, Enters
<1>7. Follows(r, q)'
  BY <1>3, <1>6 DEF Follows
<1>8. \A s \in Ranks : \E p : Follows(s, p)'
  BY <1>3, <1>4, <1>7, OthersStay
<1>9. CommTypes'
  BY <1>2, <1>3, <1>4 DEF CommTypes
<1>10. NoStranger'
  BY DEF CommIInv, NoStranger
<1> QED
  BY <1>8, <1>9, <1>10 DEF CommIInv

LEMMA PassesCall ==
    ASSUME CommIInv, NEW r \in Ranks, NEW q, Facing(r, q), Here(r) \in EnableCalls \cup SizeCalls,
           phase[r] \in {"ready", "inside"},
           Here(r).do = "gather_timing" <=> phase[r] = "inside",
           Here(r).do = "timing_allocate" => size'[r] = Here(r).n /\ enabled'[r] = TRUE,
           Here(r).do = "enable" => size'[r] = size[r] /\ enabled'[r] = Here(r).enabled,
           Here(r).do = "gather_timing" =>
              /\ size'[r] = size[r] /\ enabled'[r] = enabled[r]
              /\ gathered[Here(r).n] >= count[r][TimingComm(Here(r).n)],
           size' \in [Ranks -> Sizes], enabled' \in [Ranks -> BOOLEAN],
           \A s \in Ranks \ {r} : size'[s] = size[s] /\ enabled'[s] = enabled[s],
           phase' = [phase EXCEPT ![r] = "ready"], GoOn(r),
           UNCHANGED <<args, records, count, gathered, main_ret_val>>
    PROVE  CommIInv'
<1> DEFINE a == args
           td == todo[r]
           ph == phase[r]
           sz == size[r]
           en == enabled[r]
           rc == records[r]
           ct == count[r]
           sz2 == size'[r]
           en2 == enabled'[r]
<1>1. CommTypes
  BY DEF CommIInv
<1>2. phase' \in [Ranks -> {"ready", "inside", "flush", "flushing"}] /\ phase'[r] = "ready"
      /\ \A s \in Ranks \ {r} : phase'[s] = phase[s]
  BY <1>1 DEF CommTypes
<1>3. /\ a \in Options /\ q \in 0 .. Length(a) - 1 /\ Score(a)[q + 1][r] = Here(r)
      /\ StandsAt(a, r, q, td, ph, sz, en, rc, ct, gathered)
      /\ Tail(todo[r]) = Rest(a, r)[q + 1] /\ q \in 0 .. Length(a) /\ q + 1 \in 0 .. Length(a)
  <2>1. a \in Options
    BY <1>1 DEF CommTypes
  <2>2. Length(a) \in Nat
    BY <2>1, TimelineIs
  <2> QED
    BY <2>1, <2>2 DEF Facing, Follows
<1>4. todo' \in [Ranks -> Seq(Calls)] /\ todo'[r] = Rest(a, r)[q + 1]
      /\ \A s \in Ranks \ {r} : todo'[s] = todo[s]
  <2> HIDE DEF Calls, a
  <2>1. Rest(a, r)[q + 1] \in Seq(Calls)
    BY <1>3, RestIs
  <2>2. todo' = [todo EXCEPT ![r] = Rest(a, r)[q + 1]] /\ todo \in [Ranks -> Seq(Calls)]
    BY <1>1, <1>3 DEF CommTypes, GoOn
  <2> QED
    BY <2>1, <2>2
<1>5. ASSUME NEW c \in Comms(a), r \in c.members
      PROVE  ct[c] = Timeline(a)[q].calls[c]
                       + IF Collects(Here(r)) /\ c = CommOf(Here(r)) THEN 1 ELSE 0
  <2>1. InCount(a, r, q, ph, ct)
    BY <1>3 DEF StandsAt
  <2>2. Collects(Here(r)) <=> Here(r).do = "gather_timing"
    <3>1. Here(r).do \in {"enable", "timing_allocate", "gather_timing"}
      BY KindsDiffer
    <3> QED
      BY <3>1 DEF Collects, Collective, Blocking
  <2> HIDE DEF a, ct
  <2>3. ct[c] = Timeline(a)[q].calls[c]
                  + (IF ph = "inside" /\ c = CommOf(Score(a)[q + 1][r]) THEN 1 ELSE 0)
    BY <1>3, <1>5, <2>1, CountsReady
  <2> QED
    BY <1>3, <2>2, <2>3
<1>6. StandsAt(a, r, q + 1, Rest(a, r)[q + 1], "ready", sz2, en2, rc, ct, gathered)
  <2> DEFINE x == Score(a)[q + 1][r]
  <2>1. /\ a \in Options /\ q \in 0 .. Length(a) - 1 /\ x \in EnableCalls \cup SizeCalls
        /\ ph \in {"ready", "inside"} /\ StandsAt(a, r, q, td, ph, sz, en, rc, ct, gathered)
    BY <1>3
  <2>2. \A c \in Comms(a) : r \in c.members =>
              ct[c] = Timeline(a)[q].calls[c] + IF Collects(x) /\ c = CommOf(x) THEN 1 ELSE 0
    BY <1>3, <1>5
  <2>3. x.do = "timing_allocate" => sz2 = x.n /\ en2 = TRUE
    BY <1>3
  <2>4. x.do = "enable" => sz2 = sz /\ en2 = x.enabled
    BY <1>3
  <2>5. x.do = "gather_timing" => sz2 = sz /\ en2 = en /\ gathered[x.n] >= ct[TimingComm(x.n)]
    BY <1>3
  <2> HIDE DEF a, td, ph, sz, en, rc, ct, sz2, en2
  <2>6. InSize(a, r, q, sz, en)
    BY <2>1 DEF StandsAt
  <2>7. InSize(a, r, q + 1, sz2, en2)
    BY <2>1, <2>3, <2>4, <2>5, <2>6, Resizes
  <2> QED
    BY <2>1, <2>2, <2>5, <2>7, Passes
<1>7. Follows(r, q + 1)'
  BY <1>2, <1>4, <1>6 DEF Follows
<1>8. \A s \in Ranks : \E p : Follows(s, p)'
  <2>1. \A s \in Ranks \ {r} :
           /\ todo'[s] = todo[s] /\ phase'[s] = phase[s] /\ size'[s] = size[s]
           /\ enabled'[s] = enabled[s] /\ records'[s] = records[s] /\ count'[s] = count[s]
    BY <1>2, <1>4
  <2>2. \E p : Follows(r, p)'
    BY <1>7
  <2> QED
    BY <2>1, <2>2, OthersStay
<1>9. CommTypes'
  BY <1>1, <1>2, <1>4 DEF CommTypes
<1>10. NoStranger'
  BY DEF CommIInv, NoStranger
<1> QED
  BY <1>8, <1>9, <1>10 DEF CommIInv

LEMMA ReturnsAfter ==
    ASSUME CommIInv, NEW r \in Ranks, ~Ended(r), Here(r).do \in Ordinary,
           \/ phase[r] = "ready" /\ Here(r).do \in {"local", "skip", "cudaStreamSynchronize"} /\ count' = count
           \/ phase[r] = "ready" /\ Here(r).do = "ncclAllReduce" /\ Count(r, Here(r).on)
           \/ phase[r] = "inside" /\ Here(r).do \in Blocking /\ count' = count,
           NEW part \in BOOLEAN, Return(r, Here(r).timer, part),
           UNCHANGED <<args, size, enabled, gathered, main_ret_val>>
    PROVE  CommIInv'
<1> DEFINE a == args
           x == Here(r)
           ct == count[r]
<1>1. CommTypes /\ a \in Options
  BY DEF CommIInv, CommTypes
<1>2. PICK q : Facing(r, q)
  BY Faces
<1>3. x \in OrdinaryCalls /\ CommOf(x) = x.on
  <2>1. x \in Calls
    BY <1>2 DEF Facing
  <2>2. x \in OrdinaryCalls
    <3> HIDE DEF Calls, x
    <3> QED
      BY <2>1, KindOf DEF x
  <2>3. x.do # "gather_timing"
    BY <2>2, KindsDiffer
  <2> QED
    BY <2>2, <2>3 DEF CommOf
<1>4. q \in 0 .. Length(a) /\ InCount(a, r, q, phase[r], ct) /\ Score(a)[q + 1][r] = x
  <2>1. Length(a) \in Nat
    BY <1>1, TimelineIs
  <2> QED
    BY <1>2, <2>1 DEF Facing, Follows, StandsAt
<1>5. phase[r] \in {"ready", "inside"}
  OBVIOUS
<1>6. ASSUME NEW c \in Comms(a), r \in c.members
      PROVE  /\ ct[c] = Timeline(a)[q].calls[c] + (IF phase[r] = "inside" /\ c = CommOf(x) THEN 1 ELSE 0)
             /\ Timeline(a)[q].calls[c] \in Nat
  <2> DEFINE ph == phase[r]
  <2>1. ph \in {"ready", "inside"} /\ InCount(a, r, q, ph, ct)
    BY <1>4, <1>5
  <2> HIDE DEF ph, a, ct, x
  <2>2. /\ ct[c] = Timeline(a)[q].calls[c] + (IF ph = "inside" /\ c = CommOf(Score(a)[q + 1][r]) THEN 1 ELSE 0)
        /\ Timeline(a)[q].calls[c] \in Nat
    BY <1>1, <1>4, <1>6, <2>1, CountsReady
  <2> QED
    BY <1>4, <2>2 DEF ph
<1>7. /\ count' \in [Ranks -> [Comms(args) -> Nat]]
      /\ \A s \in Ranks \ {r} : count'[s] = count[s]
      /\ \A c \in Comms(args) : r \in c.members =>
            count'[r][c] = Timeline(args)[q].calls[c] + IF Collects(x) /\ c = CommOf(x) THEN 1 ELSE 0
  <2>1. CASE phase[r] = "ready" /\ x.do \in {"local", "skip", "cudaStreamSynchronize"} /\ count' = count
    <3>1. ~Collects(x)
      BY <2>1 DEF Collects, Collective, Blocking
    <3> HIDE DEF x, ct
    <3>2. \A c \in Comms(a) : r \in c.members => ct[c] = Timeline(a)[q].calls[c] + 0
      BY <1>6, <2>1
    <3> QED
      BY <1>1, <2>1, <3>1, <3>2 DEF CommTypes, ct
  <2>2. CASE phase[r] = "ready" /\ x.do = "ncclAllReduce" /\ Count(r, x.on)
    <3>1. Collects(x)
      BY <2>2 DEF Collects, Collective
    <3>2. /\ count' \in [Ranks -> [Comms(args) -> Nat]]
          /\ \A s \in Ranks \ {r} : count'[s] = count[s]
          /\ \A d \in Comms(args) : count'[r][d] = count[r][d] + IF d = x.on THEN 1 ELSE 0
      BY <1>1, <2>2, Counts
    <3> HIDE DEF x
    <3>3. ASSUME NEW c \in Comms(a), r \in c.members PROVE count[r][c] = Timeline(a)[q].calls[c]
      <4>1. ct[c] = Timeline(a)[q].calls[c] + 0 /\ Timeline(a)[q].calls[c] \in Nat
        BY <1>6, <2>2, <3>3
      <4> QED
        BY <4>1
    <3> QED
      BY <1>3, <3>1, <3>2, <3>3
  <2>3. CASE phase[r] = "inside" /\ x.do \in Blocking /\ count' = count
    <3>1. Collects(x)
      BY <2>3 DEF Collects, Collective
    <3> HIDE DEF x, ct
    <3>2. \A c \in Comms(a) : r \in c.members =>
             ct[c] = Timeline(a)[q].calls[c] + IF c = CommOf(x) THEN 1 ELSE 0
      BY <1>6, <2>3
    <3> QED
      BY <1>1, <2>3, <3>1, <3>2 DEF CommTypes, ct
  <2> QED
    BY <2>1, <2>2, <2>3
<1> QED
  BY <1>2, <1>3, <1>5, <1>7, Returns

LEMMA FlushBegins ==
    ASSUME CommIInv, NEW r \in Ranks, BeginFlush(r)
    PROVE  CommIInv'
<1> DEFINE a == args
           td == todo[r]
           sz == size[r]
           en == enabled[r]
           rc == records[r]
           ct == count[r]
           ct2 == count'[r]
<1>1. CommTypes
  BY DEF CommIInv
<1>2. PICK p : Follows(r, p)
  BY DEF CommIInv
<1>3. phase' \in [Ranks -> {"ready", "inside", "flush", "flushing"}] /\ phase'[r] = "flushing"
      /\ \A s \in Ranks \ {r} : phase'[s] = phase[s]
  BY <1>1 DEF CommTypes, BeginFlush
<1>4. /\ count' \in [Ranks -> [Comms(args) -> Nat]]
      /\ \A s \in Ranks \ {r} : count'[s] = count[s]
      /\ \A d \in Comms(args) : count'[r][d] = count[r][d] + IF d = Sub(sz) THEN 1 ELSE 0
  BY <1>1, Counts DEF BeginFlush
<1>5. /\ a \in Options /\ StandsAt(a, r, p, td, "flush", sz, en, rc, ct, gathered)
      /\ \A c \in Comms(a) : ct2[c] = ct[c] + IF c = Sub(sz) THEN 1 ELSE 0
  BY <1>1, <1>2, <1>4 DEF Follows, CommTypes, BeginFlush
<1>6. StandsAt(a, r, p, td, "flushing", sz, en, rc, ct2, gathered)
  <2> HIDE DEF a, td, sz, en, rc, ct, ct2
  <2> QED
    BY <1>5, StartsFlush
<1>7. UNCHANGED <<args, todo, size, enabled, records, gathered, main_ret_val>>
  BY DEF BeginFlush
<1>8. Follows(r, p)'
  BY <1>3, <1>6, <1>7 DEF Follows
<1>9. \A s \in Ranks : \E z : Follows(s, z)'
  BY <1>3, <1>4, <1>7, <1>8, OthersStay
<1>10. CommTypes' /\ NoStranger'
  BY <1>1, <1>3, <1>4, <1>7 DEF CommTypes, CommIInv, NoStranger
<1> QED
  BY <1>7, <1>9, <1>10 DEF CommIInv

LEMMA FlushEnds ==
    ASSUME CommIInv, NEW r \in Ranks, EndFlush(r)
    PROVE  CommIInv'
<1> DEFINE a == args
           td == todo[r]
           sz == size[r]
           en == enabled[r]
           rc == records[r]
           ct == count[r]
           rc2 == records'[r]
<1>1. CommTypes
  BY DEF CommIInv
<1>2. PICK p : Follows(r, p)
  BY DEF CommIInv
<1>3. phase' \in [Ranks -> {"ready", "inside", "flush", "flushing"}] /\ phase'[r] = "ready"
      /\ \A s \in Ranks \ {r} : phase'[s] = phase[s]
  BY <1>1 DEF CommTypes, EndFlush
<1>4. /\ records' \in [Ranks -> [Sizes -> Seq(Timing)]]
      /\ \A s \in Ranks \ {r} : records'[s] = records[s]
      /\ rc2 = [rc EXCEPT ![sz] = <<>>]
  <2>1. records \in [Ranks -> [Sizes -> Seq(Timing)]] /\ <<>> \in Seq(Timing)
    BY <1>1 DEF CommTypes
  <2>2. records' = [records EXCEPT ![r] = [records[r] EXCEPT ![sz] = <<>>]]
    BY <2>1 DEF EndFlush
  <2> HIDE DEF Timing
  <2> QED
    BY <2>1, <2>2
<1>5. /\ a \in Options /\ StandsAt(a, r, p, td, "flushing", sz, en, rc, ct, gathered)
      /\ gathered[sz] >= ct[Sub(sz)]
      /\ rc \in [Sizes -> Seq([timer : Timers, participated : BOOLEAN])]
  BY <1>1, <1>2 DEF Follows, CommTypes, EndFlush, Timing
<1>6. StandsAt(a, r, p, td, "ready", sz, en, rc2, ct, gathered)
  <2> HIDE DEF a, td, sz, en, rc, ct, rc2
  <2> QED
    BY <1>4, <1>5, EndsFlush
<1>7. UNCHANGED <<args, todo, size, enabled, count, gathered, main_ret_val>>
  BY DEF EndFlush
<1>8. Follows(r, p)'
  BY <1>3, <1>6, <1>7 DEF Follows
<1>9. \A s \in Ranks : \E z : Follows(s, z)'
  BY <1>3, <1>4, <1>7, <1>8, OthersStay
<1>10. CommTypes'
  BY <1>1, <1>3, <1>4, <1>7 DEF CommTypes
<1>11. NoStranger'
  <2>1. SUFFICES ASSUME NEW s \in Ranks, NEW n \in Sizes, n # 0, ~(s < n) PROVE records'[s][n] = <<>>
    BY DEF NoStranger
  <2>2. records[s][n] = <<>>
    BY <2>1 DEF CommIInv, NoStranger
  <2>3. CASE s # r
    BY <1>4, <2>2, <2>3
  <2>4. CASE s = r
    <3>1. rc \in [Sizes -> Seq(Timing)]
      BY <1>1 DEF CommTypes
    <3> HIDE DEF Timing, sz
    <3> QED
      BY <1>4, <2>2, <2>4, <3>1
  <2> QED
    BY <2>3, <2>4
<1> QED
  BY <1>7, <1>9, <1>10, <1>11 DEF CommIInv

LEMMA RankSteps ==
    ASSUME CommIInv, NEW r \in Ranks, RankStep(r)
    PROVE  CommIInv'
<1>1. CommTypes /\ phase \in [Ranks -> {"ready", "inside", "flush", "flushing"}]
      /\ size \in [Ranks -> Sizes] /\ enabled \in [Ranks -> BOOLEAN]
  BY DEF CommIInv, CommTypes
<1>2. CASE Allocate(r)
  <2>1. /\ phase[r] = "ready" /\ ~Ended(r) /\ Here(r).do = "timing_allocate" /\ GoOn(r)
        /\ size' = [size EXCEPT ![r] = Here(r).n] /\ enabled' = [enabled EXCEPT ![r] = TRUE]
        /\ UNCHANGED <<args, phase, records, count, gathered, main_ret_val>>
    BY <1>2 DEF Allocate, At
  <2>2. PICK q : Facing(r, q)
    BY <2>1, Faces
  <2>3. Here(r) \in SizeCalls /\ Here(r).n \in Sizes
    <3> DEFINE x == Here(r)
    <3>1. x \in Calls /\ x.do = "timing_allocate"
      BY <2>1, <2>2 DEF Facing
    <3> HIDE DEF x, Calls
    <3>2. x \in SizeCalls
      BY <3>1, KindOf
    <3>3. x.n \in Sizes
      BY <3>2, KindsDiffer
    <3> QED
      BY <3>2, <3>3 DEF x
  <2>4. phase' = [phase EXCEPT ![r] = "ready"]
    BY <1>1, <2>1
  <2>5. /\ size' \in [Ranks -> Sizes] /\ size'[r] = Here(r).n /\ \A s \in Ranks \ {r} : size'[s] = size[s]
        /\ enabled' \in [Ranks -> BOOLEAN] /\ enabled'[r] = TRUE
        /\ \A s \in Ranks \ {r} : enabled'[s] = enabled[s]
    BY <1>1, <2>1, <2>3
  <2> QED
    BY <2>1, <2>2, <2>3, <2>4, <2>5, PassesCall
<1>3. CASE SetEnabled(r)
  <2>1. /\ phase[r] = "ready" /\ ~Ended(r) /\ Here(r).do = "enable" /\ GoOn(r)
        /\ enabled' = [enabled EXCEPT ![r] = Here(r).enabled]
        /\ UNCHANGED <<args, phase, size, records, count, gathered, main_ret_val>>
    BY <1>3 DEF SetEnabled, At
  <2>2. PICK q : Facing(r, q)
    BY <2>1, Faces
  <2>3. Here(r) \in EnableCalls /\ Here(r).enabled \in BOOLEAN
    <3> DEFINE x == Here(r)
    <3>1. x \in Calls /\ x.do = "enable"
      BY <2>1, <2>2 DEF Facing
    <3> HIDE DEF x, Calls
    <3>2. x \in EnableCalls
      BY <3>1, KindOf
    <3>3. x.enabled \in BOOLEAN
      BY <3>2, KindsDiffer
    <3> QED
      BY <3>2, <3>3 DEF x
  <2>4. phase' = [phase EXCEPT ![r] = "ready"]
    BY <1>1, <2>1
  <2>5. /\ size' \in [Ranks -> Sizes] /\ size'[r] = size[r] /\ \A s \in Ranks \ {r} : size'[s] = size[s]
        /\ enabled' \in [Ranks -> BOOLEAN] /\ enabled'[r] = Here(r).enabled
        /\ \A s \in Ranks \ {r} : enabled'[s] = enabled[s]
    BY <1>1, <2>1, <2>3
  <2> QED
    BY <2>1, <2>2, <2>3, <2>4, <2>5, PassesCall
<1>4. CASE EndGather(r)
  <2>1. /\ phase[r] = "inside" /\ ~Ended(r) /\ Here(r).do = "gather_timing" /\ GoOn(r)
        /\ gathered[Here(r).n] >= count[r][TimingComm(Here(r).n)]
        /\ phase' = [phase EXCEPT ![r] = "ready"]
        /\ UNCHANGED <<args, size, enabled, records, count, gathered, main_ret_val>>
    BY <1>4 DEF EndGather, At
  <2>2. PICK q : Facing(r, q)
    BY <2>1, Faces
  <2>3. Here(r) \in SizeCalls
    <3> DEFINE x == Here(r)
    <3>1. x \in Calls /\ x.do = "gather_timing"
      BY <2>1, <2>2 DEF Facing
    <3> HIDE DEF x, Calls
    <3>2. x \in SizeCalls
      BY <3>1, KindOf
    <3> QED
      BY <3>2 DEF x
  <2>4. /\ size' \in [Ranks -> Sizes] /\ size'[r] = size[r] /\ \A s \in Ranks \ {r} : size'[s] = size[s]
        /\ enabled' \in [Ranks -> BOOLEAN] /\ enabled'[r] = enabled[r]
        /\ \A s \in Ranks \ {r} : enabled'[s] = enabled[s]
    BY <1>1, <2>1
  <2> QED
    BY <2>1, <2>2, <2>3, <2>4, PassesCall
<1>5. CASE Begin(r)
  <2>1. /\ phase[r] = "ready" /\ ~Ended(r) /\ Here(r).do \in Blocking
        /\ Count(r, Here(r).on) /\ phase' = [phase EXCEPT ![r] = "inside"]
        /\ UNCHANGED <<args, todo, size, enabled, records, gathered, main_ret_val>>
    BY <1>5 DEF Begin, At
  <2>2. CommOf(Here(r)) = Here(r).on
    BY <2>1 DEF CommOf, Blocking
  <2> QED
    BY <2>1, <2>2, EntersCall
<1>6. CASE BeginGather(r)
  <2>1. /\ phase[r] = "ready" /\ ~Ended(r) /\ Here(r).do = "gather_timing"
        /\ Count(r, TimingComm(Here(r).n)) /\ phase' = [phase EXCEPT ![r] = "inside"]
        /\ UNCHANGED <<args, todo, size, enabled, records, gathered, main_ret_val>>
    BY <1>6 DEF BeginGather, At
  <2>2. CommOf(Here(r)) = TimingComm(Here(r).n)
    BY <2>1 DEF CommOf
  <2> QED
    BY <2>1, <2>2, EntersCall
<1>7. CASE End(r)
  <2>1. /\ phase[r] = "inside" /\ ~Ended(r) /\ Here(r).do \in Blocking /\ count' = count
        /\ Return(r, Here(r).timer, TRUE) /\ TRUE \in BOOLEAN
        /\ UNCHANGED <<args, size, enabled, gathered, main_ret_val>>
    BY <1>7 DEF End, InBlocking, At
  <2>2. Here(r).do \in Ordinary
    BY <2>1 DEF Ordinary, Collective
  <2> QED
    BY <2>1, <2>2, ReturnsAfter
<1>8. CASE AllReduce(r)
  <2>1. /\ phase[r] = "ready" /\ ~Ended(r) /\ Here(r).do = "ncclAllReduce" /\ Count(r, Here(r).on)
        /\ Return(r, Here(r).timer, TRUE) /\ TRUE \in BOOLEAN
        /\ UNCHANGED <<args, size, enabled, gathered, main_ret_val>>
    BY <1>8 DEF AllReduce, At
  <2>2. Here(r).do \in Ordinary
    BY <2>1 DEF Ordinary, Collective
  <2> QED
    BY <2>1, <2>2, ReturnsAfter
<1>9. CASE StreamSync(r)
  <2>1. /\ phase[r] = "ready" /\ ~Ended(r) /\ Here(r).do = "cudaStreamSynchronize" /\ count' = count
        /\ Return(r, Here(r).timer, TRUE) /\ TRUE \in BOOLEAN
        /\ UNCHANGED <<args, size, enabled, gathered, main_ret_val>>
    BY <1>9 DEF StreamSync, At
  <2>2. Here(r).do \in Ordinary
    BY <2>1 DEF Ordinary
  <2> QED
    BY <2>1, <2>2, ReturnsAfter
<1>10. CASE LocalCall(r)
  <2>1. /\ phase[r] = "ready" /\ ~Ended(r) /\ Here(r).do \in {"local", "skip"} /\ count' = count
        /\ Return(r, Here(r).timer, Here(r).do = "local") /\ (Here(r).do = "local") \in BOOLEAN
        /\ UNCHANGED <<args, size, enabled, gathered, main_ret_val>>
    BY <1>10 DEF LocalCall, At
  <2>2. Here(r).do \in Ordinary
    BY <2>1 DEF Ordinary
  <2>3. PICK part \in BOOLEAN : Return(r, Here(r).timer, part)
    BY <2>1
  <2> QED
    BY <2>1, <2>2, <2>3, ReturnsAfter
<1> QED
  BY <1>2, <1>3, <1>4, <1>5, <1>6, <1>7, <1>8, <1>9, <1>10, FlushBegins, FlushEnds DEF RankStep

\* How the count of a communicator goes on from slot to slot.
LEMMA CallsOfSlot ==
    ASSUME NEW a \in Options, NEW j \in 1 .. Length(a), NEW c \in Comms(a)
    PROVE  /\ Timeline(a)[j].calls[c] =
                Timeline(a)[j - 1].calls[c] + (IF Called(Score(a)[j], c) THEN 1 ELSE 0)
                  + (IF Due(a, Score(a)[j], Timeline(a)[j - 1]) /\ c = Sub(Timeline(a)[j - 1].size)
                       THEN 1 ELSE 0)
           /\ Timeline(a)[j - 1].calls[c] \in Nat /\ Timeline(a)[j].calls[c] \in Nat
<1> DEFINE x == Timeline(a)[j - 1]
           y == Timeline(a)[j]
           u == Score(a)[j]
<1>1. y = After(a, u, x)
  BY TimelineIs
<1>2. Length(a) \in Nat /\ j - 1 \in 0 .. Length(a) /\ j \in 0 .. Length(a)
  BY TimelineIs
<1>3. x.calls[c] \in Nat /\ y.calls[c] \in Nat
  BY <1>2, TimelineType DEF Moment
<1>4. y.calls[c] = x.calls[c] + (IF Called(u, c) THEN 1 ELSE 0)
                     + (IF Due(a, u, x) /\ c = Sub(x.size) THEN 1 ELSE 0)
  <2> HIDE DEF x, y, u
  <2> QED
    BY <1>1 DEF After
<1> QED
  BY <1>3, <1>4

\* The list of timers that slot j gathers.
ToGather(a, j, n) ==
    IF Score(a)[j][0].do = "gather_timing" THEN Timeline(a)[j - 1].timers[n]
                                           ELSE Extended(Score(a)[j], Timeline(a)[j - 1])
\* A rank that has come to the gathering of slot j stands at it, in front of
\* the slot if it is for the summary and behind it if it is a flush.
Attends(a, j, p, ph) ==
    IF Score(a)[j][0].do = "gather_timing" THEN ph = "inside" /\ p = j - 1
                                           ELSE ph = "flushing" /\ p = j

LEMMA GatherKinds ==
    ASSUME NEW a \in Options, NEW j \in 1 .. Length(a), NEW n \in Sizes, Gathers(a, j, n)
    PROVE  /\ Score(a)[j][0].do = "gather_timing" =>
                 /\ Score(a)[j][0].n = n /\ Called(Score(a)[j], TimingComm(n))
                 /\ ~Due(a, Score(a)[j], Timeline(a)[j - 1])
           /\ Score(a)[j][0].do # "gather_timing" =>
                 /\ Due(a, Score(a)[j], Timeline(a)[j - 1]) /\ n = Timeline(a)[j - 1].size
                 /\ n # 0 /\ Sub(n) = TimingComm(n)
<1> DEFINE u == Score(a)[j]
           x == Timeline(a)[j - 1]
<1>1. 0 \in Ranks
  BY CommOpsAssumption DEF Ranks
<1>2. InHarmony(u)
  BY TimelineIs
<1>3. CASE u[0].do = "gather_timing"
  <2>1. ~Due(a, u, x)
    BY <1>3, KindsDiffer DEF Due, Recorded
  <2>2. u[0].n = n
    BY <1>3, <2>1 DEF Gathers
  <2>3. u[0] # Idle /\ Collects(u[0]) /\ CommOf(u[0]) = TimingComm(n)
    BY <1>2, <1>3, <2>2 DEF InHarmony, Collects, CommOf
  <2> QED
    BY <1>1, <1>3, <2>1, <2>2, <2>3 DEF Called
<1>4. CASE u[0].do # "gather_timing"
  <2>1. Due(a, u, x) /\ n = x.size
    BY <1>4 DEF Gathers
  <2>2. InTest(u[0])
    BY <2>1 DEF Due, Recorded, InTest
  <2>3. n # 0
    BY <2>1, <2>2, Attuned
  <2> QED
    BY <1>4, <2>1, <2>3 DEF TimingComm
<1> QED
  BY <1>3, <1>4

LEMMA JoinsGathering ==
    ASSUME NEW a \in Options, NEW m \in Ranks, NEW n \in Sizes, NEW j \in 1 .. Length(a),
           Gathers(a, j, n), m \in TimingComm(n).members, NEW p,
           NEW td, NEW ph, NEW sz, NEW en, NEW rc, NEW ct, NEW gt,
           StandsAt(a, m, p, td, ph, sz, en, rc, ct, gt), gt[n] \in Nat,
           gt[n] < Timeline(a)[j].calls[TimingComm(n)],
           ct[TimingComm(n)] >= Timeline(a)[j].calls[TimingComm(n)]
    PROVE  Attends(a, j, p, ph) /\ TimersOf(rc[n]) = ToGather(a, j, n)
<1> DEFINE C == TimingComm(n)
           L == Length(a)
           T == Timeline(a)
           U == Score(a)
           N(i) == T[i].calls[C]
<1>1. L \in Nat /\ p \in 0 .. L /\ C \in Comms(a) /\ (n = 0 \/ m < n)
  BY TimelineIs, TimingCommIs DEF StandsAt, InPlace, Comms
<1>2. \A i \in 0 .. L : N(i) \in Nat
  BY <1>1, TimelineType DEF Moment
<1>3. \A i \in 0 .. L : \A k \in i .. L : N(i) <= N(k)
  BY <1>1, CallsGrow
<1>4. \A i \in 1 .. L : N(i) = N(i - 1) + (IF Called(U[i], C) THEN 1 ELSE 0)
                                 + (IF Due(a, U[i], T[i - 1]) /\ C = Sub(T[i - 1].size) THEN 1 ELSE 0)
  BY <1>1, CallsOfSlot
<1>5. /\ U[j][0].do = "gather_timing" => U[j][0].n = n /\ Called(U[j], C) /\ ~Due(a, U[j], T[j - 1])
      /\ U[j][0].do # "gather_timing" => Due(a, U[j], T[j - 1]) /\ n = T[j - 1].size /\ C = Sub(n)
  BY GatherKinds
<1>6. j \in 1 .. L /\ j \in 0 .. L /\ j - 1 \in 0 .. L
  BY <1>1
<1>7. N(j - 1) + 1 <= N(j)
  <2> HIDE DEF N, C, T, U, L
  <2> QED
    BY <1>2, <1>4, <1>5, <1>6
<1>8. ct[C] = N(p) + (IF ph = "inside" /\ C = CommOf(U[p + 1][m]) THEN 1 ELSE 0)
                   - (IF ph = "flush" /\ C = Sub(T[p - 1].size) THEN 1 ELSE 0)
  BY <1>1 DEF StandsAt, InCount
<1>9. ~(j \in 1 .. p /\ (j < p \/ ph \notin Flushes))
  <2>1. ASSUME j \in 1 .. p, j < p \/ ph \notin Flushes PROVE FALSE
    <3>1. gt[n] >= N(j)
      BY <1>1, <2>1 DEF StandsAt, InGathers
    <3> HIDE DEF N
    <3>2. N(j) \in Nat
      BY <1>2, <1>6
    <3>3. gt[n] < N(j)
      BY DEF N
    <3> QED
      BY <3>1, <3>2, <3>3
  <2> QED
    BY <2>1
<1>10. /\ ph \in {"ready", "inside", "flush", "flushing"}
       /\ ph = "inside" => p < L /\ U[p + 1][m] # Idle /\ U[p + 1][m].do \in Blocking \cup {"gather_timing"}
       /\ ph \in Flushes => p >= 1 /\ Due(a, U[p], T[p - 1])
  BY DEF StandsAt, InPhase
<1>11. TimersOf(rc[n]) = IF ph \in Flushes /\ n = T[p - 1].size THEN Extended(U[p], T[p - 1]) ELSE T[p].timers[n]
  BY <1>1 DEF StandsAt, InRecords
<1>12. ct[C] >= N(j)
  OBVIOUS
<1>13. CASE j = p /\ ph \in Flushes
  <2>1. U[j][0].do # "gather_timing" /\ n = T[p - 1].size /\ C = Sub(n)
    BY <1>5, <1>10, <1>13
  <2>2. ph # "flush"
    <3>1. SUFFICES ASSUME ph = "flush" PROVE FALSE
      OBVIOUS
    <3> HIDE DEF N, C, T, U
    <3>2. ct[C] = N(p) + 0 - 1
      BY <1>8, <2>1, <3>1
    <3> QED
      BY <1>2, <1>6, <1>12, <1>13, <3>2
  <2>3. ph = "flushing"
    BY <1>13, <2>2 DEF Flushes
  <2> QED
    BY <1>11, <1>13, <2>1, <2>3 DEF Attends, ToGather
<1>14. CASE p < j
  <2>1. p \in 0 .. L /\ j - 1 \in p .. L
    BY <1>1, <1>6, <1>14
  <2>2. N(p) <= N(j - 1) /\ N(p) \in Nat /\ N(j - 1) \in Nat /\ N(j) \in Nat
    <3> HIDE DEF N
    <3> QED
      BY <1>2, <1>3, <1>6, <2>1
  <2>3. /\ ph = "inside" /\ C = CommOf(U[p + 1][m]) /\ N(j) = N(p) + 1
    <3> HIDE DEF N, C, T, U
    <3> QED
      BY <1>7, <1>8, <1>12, <2>2
  <2>4. Called(U[p + 1], C)
    <3>1. U[p + 1][m] # Idle /\ Collects(U[p + 1][m])
      BY <1>10, <2>3 DEF Collects, Collective
    <3> QED
      BY <2>3, <3>1 DEF Called
  <2>5. p + 1 \in 1 .. L /\ (p + 1) - 1 = p /\ p + 1 \in 0 .. L
    BY <1>1, <1>6, <1>14
  <2>6. N(p + 1) >= N(p) + 1 /\ N(p + 1) \in Nat
    <3> HIDE DEF N, C, T, U
    <3> QED
      BY <1>2, <1>4, <2>2, <2>4, <2>5
  <2>7. p = j - 1
    <3>1. SUFFICES ASSUME p # j - 1 PROVE FALSE
      OBVIOUS
    <3>2. j - 1 \in p + 1 .. L
      BY <1>1, <1>6, <1>14, <3>1
    <3> HIDE DEF N
    <3>3. N(p + 1) <= N(j - 1)
      BY <1>3, <2>5, <3>2
    <3> QED
      BY <1>7, <2>2, <2>3, <2>6, <3>3
  <2>8. p + 1 = j
    BY <1>1, <1>6, <2>7
  <2>9. U[j][0].do = "gather_timing"
    <3>1. SUFFICES ASSUME U[j][0].do # "gather_timing" PROVE FALSE
      OBVIOUS
    <3>2. Due(a, U[j], T[j - 1]) /\ C = Sub(T[j - 1].size)
      BY <1>5, <3>1
    <3>3. Called(U[j], C)
      BY <2>4, <2>8
    <3> HIDE DEF N, C, T, U
    <3>4. N(j) = N(j - 1) + 1 + 1
      BY <1>4, <1>6, <3>2, <3>3
    <3> QED
      BY <2>2, <2>3, <2>7, <3>4
  <2>10. ph \notin Flushes
    BY <2>3 DEF Flushes
  <2> QED
    BY <1>11, <2>3, <2>7, <2>9, <2>10 DEF Attends, ToGather
<1> QED
  BY <1>1, <1>6, <1>9, <1>13, <1>14

\* Rank 0 gathers at a slot of the score.
GathersAt(j, n) ==
    /\ j \in 1 .. Length(args) /\ n \in Sizes /\ Gathers(args, j, n)
    /\ count[0][TimingComm(n)] = Timeline(args)[j].calls[TimingComm(n)]

LEMMA GathererAt ==
    ASSUME CommIInv, Flushing(0)
    PROVE  \E j : GathersAt(j, GatheredSize)
<1> DEFINE a == args
           L == Length(args)
           n == GatheredSize
<1>1. CommTypes /\ a \in Options /\ 0 \in Ranks /\ L \in Nat
  <2>1. CommTypes /\ a \in Options
    BY DEF CommIInv, CommTypes
  <2>2. 0 \in Ranks
    BY CommOpsAssumption DEF Ranks
  <2> HIDE DEF a
  <2>3. Length(a) \in Nat
    BY <2>1, TimelineIs
  <2> QED
    BY <2>1, <2>2, <2>3 DEF a
<1>2. CASE phase[0] = "flushing"
  <2>1. PICK p : Follows(0, p)
    BY <1>1 DEF CommIInv
  <2> DEFINE td == todo[0]
             sz == size[0]
             en == enabled[0]
             rc == records[0]
             ct == count[0]
  <2>2. StandsAt(a, 0, p, td, "flushing", sz, en, rc, ct, gathered) /\ n = sz
    BY <1>2, <2>1 DEF Follows, GatheredSize
  <2>3. "flushing" \in Flushes
    BY DEF Flushes
  <2>4. /\ p \in 1 .. L /\ p \in 0 .. L /\ sz = Timeline(a)[p - 1].size /\ sz \in Sizes \ {0}
        /\ Due(a, Score(a)[p], Timeline(a)[p - 1])
        /\ TimingComm(sz) \in Comms(a) /\ 0 \in TimingComm(sz).members
    <3> DEFINE ph == "flushing"
               r == 0
    <3>1. StandsAt(a, r, p, td, ph, sz, en, rc, ct, gathered) /\ ph \in Flushes /\ r \in Ranks /\ a \in Options
      BY <1>1, <2>2, <2>3
    <3> HIDE DEF a, td, sz, en, rc, ct, ph, r
    <3>2. /\ p \in 1 .. Length(a) /\ p \in 0 .. Length(a)
          /\ sz = Timeline(a)[p - 1].size /\ sz \in Sizes \ {0}
          /\ Due(a, Score(a)[p], Timeline(a)[p - 1])
          /\ TimingComm(sz) \in Comms(a) /\ r \in TimingComm(sz).members
      BY <3>1, FlushesItsSize
    <3> QED
      BY <3>2 DEF a, r
  <2>5. ct[TimingComm(sz)] = Timeline(a)[p].calls[TimingComm(sz)] + 0 - 0
    BY <2>2, <2>4 DEF StandsAt, InCount
  <2>6. Timeline(a)[p].calls[TimingComm(sz)] \in Nat
    BY <1>1, <2>4, TimelineType DEF Moment
  <2>7. ct[TimingComm(sz)] = Timeline(a)[p].calls[TimingComm(sz)]
    BY <2>5, <2>6
  <2>8. Gathers(a, p, sz)
    BY <2>4 DEF Gathers
  <2>9. GathersAt(p, n)
    BY <2>2, <2>4, <2>7, <2>8 DEF GathersAt
  <2> QED
    BY <2>9
<1>3. CASE phase[0] = "inside" /\ At(0, {"gather_timing"})
  <2>1. PICK q : Facing(0, q)
    BY <1>1, <1>3, Faces DEF At
  <2> DEFINE x == Score(a)[q + 1][0]
             ph == "inside"
             ct == count[0]
  <2>2. /\ q \in 0 .. L - 1 /\ x = Here(0) /\ x # Idle /\ x \in Calls /\ x.do = "gather_timing" /\ n = x.n
        /\ InCount(a, 0, q, ph, ct)
    BY <1>3, <2>1 DEF Facing, At, Follows, StandsAt, GatheredSize
  <2>3. q + 1 \in 1 .. L /\ (q + 1) - 1 = q /\ q \in 0 .. L
    BY <1>1, <2>2
  <2>4. n \in Sizes
    <3> HIDE DEF x, n, Calls
    <3>1. x \in SizeCalls
      BY <2>2, KindOf
    <3>2. x.n \in Sizes
      BY <3>1, KindsDiffer
    <3> QED
      BY <2>2, <3>2
  <2>5. Gathers(a, q + 1, n)
    BY <2>2 DEF Gathers
  <2>6. TimingComm(n) \in Comms(a) /\ 0 \in TimingComm(n).members
    BY <2>4, TimingCommIs DEF Comms
  <2>7. CommOf(x) = TimingComm(n)
    BY <2>2 DEF CommOf
  <2> HIDE DEF n
  <2>8. ct[TimingComm(n)] = Timeline(a)[q].calls[TimingComm(n)] + 1
    <3>1. ph \in {"ready", "inside"}
      OBVIOUS
    <3> DEFINE c == TimingComm(n)
    <3> HIDE DEF c, ph
    <3>2. ct[c] = Timeline(a)[q].calls[c] + (IF ph = "inside" /\ c = CommOf(Score(a)[q + 1][0]) THEN 1 ELSE 0)
      <4> DEFINE r == 0
      <4>1. /\ a \in Options /\ r \in Ranks /\ q \in 0 .. Length(a) /\ InCount(a, r, q, ph, ct)
            /\ c \in Comms(a) /\ r \in c.members
        BY <1>1, <2>2, <2>3, <2>6 DEF c, ph
      <4> HIDE DEF a, ct, r
      <4>2. ct[c] = Timeline(a)[q].calls[c] + (IF ph = "inside" /\ c = CommOf(Score(a)[q + 1][r]) THEN 1 ELSE 0)
        BY <3>1, <4>1, CountsReady
      <4> QED
        BY <4>2 DEF r
    <3> QED
      BY <2>7, <3>2 DEF c, ph
  <2>9. Timeline(a)[q + 1].calls[TimingComm(n)] = Timeline(a)[q].calls[TimingComm(n)] + 1
    <3>1. Called(Score(a)[q + 1], TimingComm(n)) /\ ~Due(a, Score(a)[q + 1], Timeline(a)[q])
      BY <1>1, <2>2, <2>3, <2>4, <2>5, GatherKinds
    <3> DEFINE c == TimingComm(n)
               j == q + 1
    <3> HIDE DEF c, j, a
    <3>2. Timeline(a)[j].calls[c] =
                Timeline(a)[j - 1].calls[c] + (IF Called(Score(a)[j], c) THEN 1 ELSE 0)
                  + (IF Due(a, Score(a)[j], Timeline(a)[j - 1]) /\ c = Sub(Timeline(a)[j - 1].size)
                       THEN 1 ELSE 0)
           /\ Timeline(a)[j - 1].calls[c] \in Nat
      BY <1>1, <2>3, <2>6, CallsOfSlot DEF c, j, a
    <3>3. Called(Score(a)[j], c) /\ ~Due(a, Score(a)[j], Timeline(a)[j - 1])
      BY <2>3, <3>1 DEF c, j
    <3>4. Timeline(a)[j].calls[c] = Timeline(a)[j - 1].calls[c] + 1
      BY <3>2, <3>3
    <3> QED
      BY <2>3, <3>4 DEF c, j
  <2>10. GathersAt(q + 1, n)
    BY <2>3, <2>4, <2>5, <2>8, <2>9 DEF GathersAt
  <2> QED
    BY <2>10 DEF n
<1> QED
  BY <1>2, <1>3 DEF Flushing

\* When rank 0 gathers, everybody concerned has come to the same slot with the
\* same list of timers.
LEMMA AllAttend ==
    ASSUME CommIInv, NEW n, NEW j, GathersAt(j, n),
           gathered[n] < count[0][TimingComm(n)], Met(0, TimingComm(n)),
           NEW m \in TimingComm(n).members
    PROVE  /\ m \in Ranks
           /\ \E p : Follows(m, p) /\ Attends(args, j, p, phase[m])
           /\ TimersOf(records[m][n]) = ToGather(args, j, n)
           /\ Len(records[m][n]) = Len(ToGather(args, j, n)) /\ Len(records[m][n]) \in Nat
           /\ \A i \in 1 .. Len(records[m][n]) : records[m][n][i].timer = ToGather(args, j, n)[i]
<1> DEFINE a == args
           td == todo[m]
           ph == phase[m]
           sz == size[m]
           en == enabled[m]
           rc == records[m]
           ct == count[m]
           C == TimingComm(n)
<1>1. CommTypes /\ a \in Options
  BY DEF CommIInv, CommTypes
<1>2. /\ j \in 1 .. Length(a) /\ n \in Sizes /\ Gathers(a, j, n)
      /\ count[0][C] = Timeline(a)[j].calls[C]
  BY DEF GathersAt
<1>3. m \in Ranks
  BY <1>2, TimingCommIs
<1>4. PICK p : Follows(m, p)
  BY <1>3 DEF CommIInv
<1>5. /\ StandsAt(a, m, p, td, ph, sz, en, rc, ct, gathered) /\ gathered[n] \in Nat
      /\ gathered[n] < Timeline(a)[j].calls[C] /\ ct[C] >= Timeline(a)[j].calls[C]
  BY <1>1, <1>2, <1>4 DEF Follows, CommTypes, Met
<1>6. Attends(a, j, p, ph) /\ TimersOf(rc[n]) = ToGather(a, j, n)
  <2> HIDE DEF a, td, ph, sz, en, rc, ct
  <2> QED
    BY <1>1, <1>2, <1>3, <1>5, JoinsGathering
<1>7. rc[n] \in Seq(Timing)
  BY <1>1, <1>2, <1>3 DEF CommTypes
<1>8. Len(TimersOf(rc[n])) = Len(rc[n]) /\ Len(rc[n]) \in Nat
  <2> DEFINE s == rc[n]
  <2> HIDE DEF s, Timing
  <2>1. s \in Seq(Timing)
    BY <1>7 DEF s
  <2>2. Len(TimersOf(s)) = Len(s) /\ Len(s) \in Nat
    BY <2>1, TimersOfAppend
  <2> QED
    BY <2>2 DEF s
<1>9. \A i \in 1 .. Len(rc[n]) : TimersOf(rc[n])[i] = rc[n][i].timer
  BY DEF TimersOf
<1> QED
  BY <1>3, <1>4, <1>6, <1>8, <1>9

LEMMA GatheringSteps ==
    ASSUME CommIInv, GatherTiming
    PROVE  CommIInv'
<1> DEFINE n == GatheredSize
           C == TimingComm(n)
<1>1. /\ Flushing(0) /\ gathered[n] < count[0][C] /\ Met(0, C)
      /\ gathered' = [gathered EXCEPT ![n] = count[0][C]]
      /\ main_ret_val' = IF \A m \in C.members : Len(records[m][n]) = Len(records[0][n])
                           THEN main_ret_val ELSE 1
      /\ UNCHANGED <<args, todo, phase, size, enabled, records, count>>
  BY DEF GatherTiming
<1>2. PICK j : GathersAt(j, n)
  BY <1>1, GathererAt
<1> HIDE DEF n
<1>3. CommTypes /\ n \in Sizes /\ C \in Comms(args) /\ 0 \in Ranks /\ 0 \in C.members
  BY <1>2, TimingCommIs, CommOpsAssumption DEF CommIInv, GathersAt, Comms, Ranks
<1>4. count[0][C] \in Nat
  BY <1>3 DEF CommTypes
<1>5. gathered' \in [Sizes -> Nat]
  BY <1>1, <1>3, <1>4 DEF CommTypes
<1>6. ASSUME NEW i \in Sizes PROVE gathered[i] \in Nat /\ gathered'[i] \in Nat /\ gathered[i] <= gathered'[i]
  <2>1. gathered \in [Sizes -> Nat]
    BY <1>3 DEF CommTypes
  <2> QED
    BY <1>1, <1>4, <1>5, <2>1
<1>7. main_ret_val' = 0
  <2>1. \A m \in C.members : Len(records[m][n]) = Len(ToGather(args, j, n))
    BY <1>1, <1>2, AllAttend
  <2> QED
    BY <1>1, <1>3, <2>1 DEF CommIInv
<1>8. ASSUME NEW r \in Ranks PROVE \E p : Follows(r, p)'
  <2>1. PICK p : Follows(r, p)
    BY DEF CommIInv
  <2> DEFINE a == args
             td == todo[r]
             ph == phase[r]
             sz == size[r]
             en == enabled[r]
             rc == records[r]
             ct == count[r]
             g == gathered
             h == gathered'
  <2>2. /\ a \in Options /\ StandsAt(a, r, p, td, ph, sz, en, rc, ct, g)
        /\ \A i \in Sizes : g[i] \in Nat /\ h[i] \in Nat /\ g[i] <= h[i]
    BY <1>3, <1>6, <2>1 DEF Follows, CommTypes
  <2>3. StandsAt(a, r, p, td, ph, sz, en, rc, ct, h)
    <3> HIDE DEF a, td, ph, sz, en, rc, ct, g, h
    <3> QED
      BY <2>2, GatheringMore
  <2>4. Follows(r, p)'
    BY <1>1, <2>3 DEF Follows
  <2> QED
    BY <2>4
<1>9. CommTypes' /\ NoStranger'
  BY <1>1, <1>3, <1>5 DEF CommTypes, CommIInv, NoStranger
<1> QED
  BY <1>7, <1>8, <1>9 DEF CommIInv

LEMMA CommInit == Init => CommIInv
<1> SUFFICES ASSUME Init PROVE CommIInv
  OBVIOUS
<1>1. args \in Options
  BY DEF Init
<1> DEFINE a == args
           s0 == [i \in 1 .. Len(StartUp) |-> Record(StartUp[i], TRUE)]
<1>2. Len(StartUp) = 3 /\ StartUp[1] = "cuda_init" /\ StartUp[2] = "mpi_init" /\ StartUp[3] = "work_prepare"
  BY DEF StartUp
<1>3. s0 \in Seq(Timing) /\ Len(s0) = 3 /\ \A i \in 1 .. 3 : s0[i] = Record(StartUp[i], TRUE)
  <2>1. \A i \in 1 .. 3 : Record(StartUp[i], TRUE) \in Timing
    <3>1. \A i \in 1 .. 3 : i = 1 \/ i = 2 \/ i = 3
      OBVIOUS
    <3>2. \A i \in 1 .. 3 : StartUp[i] \in Timers
      BY <1>2, <3>1 DEF Timers
    <3> QED
      BY <3>2 DEF Record, Timing
  <2> HIDE DEF Timing
  <2>2. s0 \in [1 .. 3 -> Timing] /\ \A i \in 1 .. 3 : s0[i] = Record(StartUp[i], TRUE)
    BY <1>2, <2>1
  <2> HIDE DEF s0
  <2>3. 3 \in Nat
    OBVIOUS
  <2> QED
    BY <2>2, <2>3, FunctionsAreSequences
<1>4. TimersOf(s0) = StartUp
  <2>1. TimersOf(s0) = [i \in 1 .. 3 |-> s0[i].timer]
    BY <1>3 DEF TimersOf
  <2>2. \A i \in 1 .. 3 : s0[i].timer = StartUp[i]
    BY <1>3 DEF Record
  <2>3. StartUp = [i \in 1 .. 3 |-> StartUp[i]]
    BY DEF StartUp
  <2> HIDE DEF s0
  <2> QED
    BY <2>1, <2>2, <2>3
<1>5. TimersOf(<<>>) = <<>>
  BY DEF TimersOf
<1>6. /\ todo = [r \in Ranks |-> Program(args, r)] /\ phase = [r \in Ranks |-> "ready"]
      /\ size = [r \in Ranks |-> 0] /\ enabled = [r \in Ranks |-> TRUE]
      /\ records = [r \in Ranks |-> [n \in Sizes |-> IF n # 0 THEN <<>> ELSE s0]]
      /\ count = [r \in Ranks |-> [c \in Comms(args) |-> 0]]
      /\ gathered = [n \in Sizes |-> 0] /\ main_ret_val = 0
  BY DEF Init
<1> HIDE DEF s0
<1>7. CommTypes
  <2>1. todo \in [Ranks -> Seq(Calls)]
    <3> HIDE DEF Calls
    <3>1. ASSUME NEW r \in Ranks PROVE Program(args, r) \in Seq(Calls)
      <4>1. Length(a) \in Nat /\ 0 \in 0 .. Length(a)
        BY <1>1, TimelineIs
      <4> QED
        BY <1>1, <4>1, RestIs
    <3> QED
      BY <1>6, <3>1
  <2>2. records \in [Ranks -> [Sizes -> Seq(Timing)]]
    <3>1. <<>> \in Seq(Timing)
      OBVIOUS
    <3> HIDE DEF Timing
    <3> QED
      BY <1>3, <1>6, <3>1
  <2>3. /\ phase \in [Ranks -> {"ready", "inside", "flush", "flushing"}]
        /\ size \in [Ranks -> Sizes] /\ enabled \in [Ranks -> BOOLEAN]
        /\ count \in [Ranks -> [Comms(args) -> Nat]] /\ gathered \in [Sizes -> Nat]
    BY <1>6, SizesAre
  <2> QED
    BY <1>1, <2>1, <2>2, <2>3 DEF CommTypes
<1>8. NoStranger
  BY <1>6 DEF NoStranger
<1>9. ASSUME NEW r \in Ranks PROVE Follows(r, 0)
  <2>1. /\ todo[r] = Program(a, r) /\ phase[r] = "ready" /\ size[r] = 0 /\ enabled[r] = TRUE
        /\ \A n \in Sizes : records[r][n] = IF n # 0 THEN <<>> ELSE s0
        /\ \A c \in Comms(a) : count[r][c] = 0
    BY <1>6
  <2>2. Length(a) \in Nat /\ Timeline(a)[0] = Start(a) /\ Rest(a, r)[0] = Program(a, r)
    BY <1>1, TimelineIs, RestIs
  <2>3. "ready" \notin Flushes
    BY DEF Flushes
  <2> DEFINE x == Timeline(a)[0]
  <2>4. /\ x.size = 0 /\ x.enabled = TRUE /\ \A c \in Comms(a) : x.calls[c] = 0
        /\ \A n \in Sizes : x.timers[n] = IF n = 0 THEN StartUp ELSE <<>>
    BY <2>2 DEF Start
  <2>5. InPlace(a, r, 0, todo[r])
    BY <2>1, <2>2 DEF InPlace
  <2>6. InPhase(a, r, 0, phase[r])
    BY <2>1, <2>3 DEF InPhase
  <2>7. InSize(a, r, 0, size[r], enabled[r])
    <3>1. ~(r < x.size)
      BY <2>4, CommOpsAssumption DEF Ranks
    <3> QED
      BY <3>1 DEF InSize
  <2>8. InRecords(a, r, 0, phase[r], records[r])
    <3>1. \A n \in Sizes : TimersOf(records[r][n]) = x.timers[n]
      <4> HIDE DEF x
      <4> QED
        BY <1>4, <1>5, <2>1, <2>4
    <3> QED
      BY <2>1, <2>3, <3>1 DEF InRecords
  <2>9. InCount(a, r, 0, phase[r], count[r])
    <3> HIDE DEF x
    <3>1. \A c \in Comms(a) : count[r][c] = x.calls[c] + 0 - 0
      BY <2>1, <2>4
    <3> QED
      BY <2>1, <3>1 DEF InCount, x
  <2>10. InGathers(a, r, 0, phase[r], gathered)
    BY DEF InGathers
  <2> QED
    BY <2>5, <2>6, <2>7, <2>8, <2>9, <2>10 DEF Follows, StandsAt
<1> QED
  BY <1>6, <1>7, <1>8, <1>9 DEF CommIInv

\* In every reachable state each rank stands at its place in the score.
THEOREM CommInvariance == Spec => []CommIInv
<1>1. CommIInv /\ [Next]_vars => CommIInv'
  <2> SUFFICES ASSUME CommIInv, [Next]_vars PROVE CommIInv'
    OBVIOUS
  <2>1. CASE Next
    <3>1. CASE \E r \in Ranks : RankStep(r)
      BY <3>1, RankSteps
    <3>2. CASE GatherTiming
      BY <3>2, GatheringSteps
    <3>3. CASE Done
      BY <3>3 DEF Done, vars, CommIInv, CommTypes, NoStranger, Follows
    <3> QED
      BY <2>1, <3>1, <3>2, <3>3 DEF Next
  <2>2. CASE UNCHANGED vars
    BY <2>2 DEF vars, CommIInv, CommTypes, NoStranger, Follows
  <2> QED
    BY <2>1, <2>2
<1> QED
  BY <1>1, CommInit, PTL DEF Spec

\* The type invariant: a timer buffer overflows for no rank, and a full one is flushed at once.
THEOREM CommTypeCorrect == Spec => []TypeOK
<1>1. CommIInv => TypeOK
  <2> SUFFICES ASSUME CommIInv PROVE TypeOK
    OBVIOUS
  <2>1. CommTypes /\ main_ret_val = 0
    BY DEF CommIInv
  <2>2. ASSUME NEW r \in Ranks, NEW n \in Sizes \ {0}
        PROVE  \/ Len(records[r][n]) < args.timing_flush_interval
               \/ Len(records[r][n]) = args.timing_flush_interval /\ phase[r] \in {"flush", "flushing"}
    <3> DEFINE a == args
               rc == records[r]
               s == rc[n]
    <3>1. a \in Options /\ s \in Seq(Timing) /\ a.timing_flush_interval \in Nat \ {0}
      BY <2>1, CommOpsAssumption DEF CommTypes
    <3>2. CASE ~(r < n)
      <4>1. s = <<>>
        BY <3>2 DEF CommIInv, NoStranger
      <4>2. Len(<<>>) = 0
        OBVIOUS
      <4> HIDE DEF s
      <4>3. Len(s) < a.timing_flush_interval
        BY <3>1, <4>1, <4>2
      <4> QED
        BY <4>3 DEF s
    <3>3. CASE r < n
      <4>1. PICK p : Follows(r, p)
        BY DEF CommIInv
      <4>2. p \in 0 .. Length(a) /\ Length(a) \in Nat
        BY <3>1, <4>1, TimelineIs DEF Follows, StandsAt, InPlace
      <4>3. TimersOf(s) = IF phase[r] \in Flushes /\ n = Timeline(a)[p - 1].size
                            THEN Extended(Score(a)[p], Timeline(a)[p - 1]) ELSE Timeline(a)[p].timers[n]
        BY <3>3, <4>1 DEF Follows, StandsAt, InRecords
      <4>4. Len(TimersOf(s)) = Len(s) /\ Len(s) \in Nat
        <5> HIDE DEF s, Timing
        <5> QED
          BY <3>1, TimersOfAppend
      <4>5. CASE phase[r] \in Flushes /\ n = Timeline(a)[p - 1].size
        <5> DEFINE x == Timeline(a)[p - 1]
        <5>1. p >= 1 /\ Due(a, Score(a)[p], x)
          BY <4>1, <4>5 DEF Follows, StandsAt, InPhase
        <5>2. p - 1 \in 0 .. Length(a)
          BY <4>2, <5>1
        <5>3. x.timers[n] \in Seq(Timers)
          BY <3>1, <5>2, TimelineType DEF Moment
        <5>4. Len(x.timers[n]) + 1 = a.timing_flush_interval
          BY <4>5, <5>1 DEF Due
        <5>5. Len(Append(x.timers[n], Score(a)[p][0].timer)) = Len(x.timers[n]) + 1
          <6> DEFINE z == x.timers[n]
          <6> HIDE DEF z
          <6>1. z \in Seq(Timers) /\ Score(a)[p][0].timer \in Timers
            BY <5>1, <5>3, KindsDiffer DEF z, Due, Recorded
          <6>2. Len(Append(z, Score(a)[p][0].timer)) = Len(z) + 1
            BY <6>1, AppendProperties
          <6> QED
            BY <6>2 DEF z
        <5>6. Len(s) = a.timing_flush_interval
          BY <4>3, <4>4, <4>5, <5>4, <5>5 DEF Extended
        <5> QED
          BY <4>5, <5>6 DEF Flushes
      <4>6. CASE ~(phase[r] \in Flushes /\ n = Timeline(a)[p - 1].size)
        <5>1. Len(Timeline(a)[p].timers[n]) < a.timing_flush_interval
          BY <3>1, <4>2, TimelineType DEF Moment
        <5> QED
          BY <4>3, <4>4, <4>6, <5>1
      <4> QED
        BY <4>5, <4>6
    <3> QED
      BY <3>2, <3>3
  <2>3. \A r \in Ranks : count[r] \in [DOMAIN count[0] -> Nat]
    <3>1. 0 \in Ranks
      BY CommOpsAssumption DEF Ranks
    <3> QED
      BY <2>1, <3>1 DEF CommTypes
  <2> QED
    BY <2>1, <2>2, <2>3 DEF TypeOK, CommTypes
<1> QED
  BY <1>1, CommInvariance, PTL

\* "ALL ranks in the MPI Communicator _must_ call the same set of stop_timer or skip_timer
\* calls": when rank 0 adds up the lists, they name the same timers at the same places.
THEOREM TimersAreInLockstep == Spec => []TimersInLockstep
<1>1. CommIInv => TimersInLockstep
  <2> SUFFICES ASSUME CommIInv PROVE TimersInLockstep
    OBVIOUS
  <2> DEFINE n == GatheredSize
  <2>1. SUFFICES ASSUME Flushing(0), gathered[n] < count[0][TimingComm(n)], Met(0, TimingComm(n)),
                        NEW m \in TimingComm(n).members
                 PROVE  /\ Len(records[m][n]) = Len(records[0][n])
                        /\ \A i \in DOMAIN records[m][n] : records[m][n][i].timer = records[0][n][i].timer
    BY DEF TimersInLockstep
  <2>2. PICK j : GathersAt(j, n)
    BY <2>1, GathererAt
  <2> HIDE DEF n
  <2>3. 0 \in TimingComm(n).members /\ CommTypes /\ n \in Sizes
    BY <2>2, TimingCommIs DEF GathersAt, CommIInv
  <2>4. /\ m \in Ranks /\ Len(records[m][n]) = Len(ToGather(args, j, n))
        /\ \A i \in 1 .. Len(records[m][n]) : records[m][n][i].timer = ToGather(args, j, n)[i]
    BY <2>1, <2>2, AllAttend
  <2>5. /\ Len(records[0][n]) = Len(ToGather(args, j, n))
        /\ \A i \in 1 .. Len(records[0][n]) : records[0][n][i].timer = ToGather(args, j, n)[i]
    BY <2>1, <2>2, <2>3, AllAttend
  <2>6. DOMAIN records[m][n] = 1 .. Len(records[m][n])
    <3> DEFINE s == records[m][n]
    <3>1. s \in Seq(Timing)
      BY <2>3, <2>4 DEF CommTypes
    <3> HIDE DEF s, Timing
    <3> QED
      BY <3>1 DEF s
  <2> QED
    BY <2>4, <2>5, <2>6
<1> QED
  BY <1>1, CommInvariance, PTL

\* gather_timing never finds a rank whose list has another length, so that main returns 0
\* (the second half of SummaryIsComplete, for all ranks and at every moment).
THEOREM GatheringsAgree == Spec => [](main_ret_val = 0)
<1>1. CommIInv => main_ret_val = 0
  BY DEF CommIInv
<1> QED
  BY <1>1, CommInvariance, PTL

\* A call is the last on its communicator before those of later slots.
LEMMA CallBefore ==
    ASSUME NEW a \in Options, NEW c \in Comms(a), NEW j \in 1 .. Length(a), NEW k \in 1 .. Length(a),
           Called(Score(a)[j], c), j < k
    PROVE  Timeline(a)[j - 1].calls[c] < Timeline(a)[k - 1].calls[c]
<1> DEFINE N(i) == Timeline(a)[i].calls[c]
<1>1. Length(a) \in Nat /\ j \in 0 .. Length(a) /\ k - 1 \in j .. Length(a)
  BY TimelineIs
<1>2. N(j) <= N(k - 1) /\ N(j) \in Nat /\ N(k - 1) \in Nat
  BY <1>1, CallsGrow
<1>3. N(j) = N(j - 1) + 1 + (IF Due(a, Score(a)[j], Timeline(a)[j - 1]) /\ c = Sub(Timeline(a)[j - 1].size)
                       THEN 1 ELSE 0)
      /\ N(j - 1) \in Nat
  BY CallsOfSlot
<1> HIDE DEF N
<1>4. N(j - 1) < N(k - 1)
  BY <1>2, <1>3
<1> QED
  BY <1>4 DEF N

\* The collective call a waiting rank has made, by its place in the score.
WaitsAt(r, j, c) ==
    /\ j \in 1 .. Length(args) /\ c \in Comms(args) /\ r \in c.members
    /\ \/ /\ phase[r] = "inside" /\ Score(args)[j][r] = Here(r) /\ Here(r) # Idle
          /\ Collects(Here(r)) /\ CommOf(Here(r)) = c
          /\ count[r][c] = Timeline(args)[j - 1].calls[c] + 1
       \/ /\ phase[r] = "flushing"
          /\ Due(args, Score(args)[j], Timeline(args)[j - 1]) /\ c = Sub(Timeline(args)[j - 1].size)
          /\ count[r][c] = Timeline(args)[j].calls[c]

LEMMA WaitsSomewhere ==
    ASSUME CommIInv, NEW r \in Ranks, InBlocking(r) \/ Flushing(r)
    PROVE  \E j : WaitsAt(r, j, Waited(r))
<1> DEFINE a == args
           L == Length(args)
<1>1. CommTypes /\ a \in Options /\ L \in Nat
  BY TimelineIs DEF CommIInv, CommTypes
<1>2. CASE phase[r] = "flushing"
  <2>1. PICK p : Follows(r, p)
    BY <1>1 DEF CommIInv
  <2> DEFINE td == todo[r]
             sz == size[r]
             en == enabled[r]
             rc == records[r]
             ct == count[r]
             ph == "flushing"
  <2>2. StandsAt(a, r, p, td, ph, sz, en, rc, ct, gathered) /\ ph \in Flushes
    BY <1>2, <2>1 DEF Follows, Flushes
  <2>3. /\ p \in 1 .. Length(a) /\ p \in 0 .. Length(a) /\ sz = Timeline(a)[p - 1].size
        /\ Due(a, Score(a)[p], Timeline(a)[p - 1]) /\ Sub(sz) = TimingComm(sz)
        /\ TimingComm(sz) \in Comms(a) /\ r \in TimingComm(sz).members
    <3> HIDE DEF a, td, sz, en, rc, ct, ph
    <3> QED
      BY <1>1, <2>2, FlushesItsSize
  <2>4. ct[Sub(sz)] = Timeline(a)[p].calls[Sub(sz)] + 0 - 0
    BY <2>2, <2>3 DEF StandsAt, InCount
  <2>5. Timeline(a)[p].calls[Sub(sz)] \in Nat
    BY <1>1, <2>3, TimelineType DEF Moment
  <2>6. ct[Sub(sz)] = Timeline(a)[p].calls[Sub(sz)]
    BY <2>4, <2>5
  <2>7. Waited(r) = Sub(sz)
    BY <1>2 DEF Waited
  <2>8. WaitsAt(r, p, Sub(sz))
    BY <1>2, <2>3, <2>6 DEF WaitsAt
  <2> QED
    BY <2>7, <2>8
<1>3. CASE phase[r] # "flushing"
  <2>1. phase[r] = "inside" /\ (At(r, {"gather_timing"}) \/ At(r, Blocking))
    BY <1>3 DEF InBlocking, Flushing
  <2>2. PICK q : Facing(r, q)
    BY <2>1, Faces
  <2> DEFINE x == Here(r)
             ct == count[r]
             c == CommOf(x)
             ph == "inside"
  <2>3. /\ q \in 0 .. L - 1 /\ Score(a)[q + 1][r] = x /\ x # Idle /\ Collects(x) /\ InCount(a, r, q, ph, ct)
    BY <2>1, <2>2 DEF Facing, Follows, StandsAt, Collects, Collective, At
  <2>4. q + 1 \in 1 .. L /\ (q + 1) - 1 = q /\ q \in 0 .. L
    BY <1>1, <2>3
  <2>5. Waited(r) = c
    <3>1. At(r, Blocking) => ~At(r, {"gather_timing"}) /\ x.do # "gather_timing"
      BY DEF At, Blocking
    <3> QED
      BY <1>3, <2>1, <3>1 DEF Waited, CommOf, At
  <2>6. c \in Comms(a)
    BY <1>1, <2>3, <2>4, CallsOnComms
  <2>7. r \in c.members
    <3>1. InHarmony(Score(a)[q + 1])
      BY <1>1, <2>4, TimelineIs
    <3> QED
      BY <2>3, <3>1 DEF InHarmony
  <2>8. ct[c] = Timeline(a)[q].calls[c] + 1
    <3>1. ph \in {"ready", "inside"} /\ Score(a)[q + 1][r] = x
      BY <2>3
    <3> HIDE DEF ph, ct, a, x
    <3>2. CommOf(Score(a)[q + 1][r]) = c
      BY <3>1
    <3> HIDE DEF c
    <3>3. ct[c] = Timeline(a)[q].calls[c] + (IF ph = "inside" /\ c = CommOf(Score(a)[q + 1][r]) THEN 1 ELSE 0)
      <4>1. q \in 0 .. Length(a) /\ InCount(a, r, q, ph, ct)
        BY <2>3, <2>4 DEF a
      <4> QED
        BY <1>1, <2>6, <2>7, <3>1, <4>1, CountsReady
    <3> QED
      BY <3>2, <3>3 DEF ph
  <2>9. WaitsAt(r, q + 1, c)
    BY <2>1, <2>3, <2>4, <2>6, <2>7, <2>8 DEF WaitsAt
  <2> QED
    BY <2>5, <2>9
<1> QED
  BY <1>2, <1>3

LEMMA NoMixedWait ==
    ASSUME CommIInv, NEW r \in Ranks, NEW s \in Ranks, NEW j, NEW k, NEW c,
           WaitsAt(r, j, c), WaitsAt(s, k, c), count[r][c] = count[s][c],
           phase[r] = "inside"
    PROVE  phase[s] = "inside" /\ j = k
<1> DEFINE a == args
           L == Length(args)
           N(i) == Timeline(args)[i].calls[c]
<1>1. a \in Options /\ L \in Nat
  BY TimelineIs DEF CommIInv, CommTypes
<1>2. /\ j \in 1 .. L /\ k \in 1 .. L /\ c \in Comms(a) /\ j - 1 \in 0 .. L /\ k - 1 \in 0 .. L
      /\ j \in 0 .. L /\ k \in 0 .. L
  BY <1>1 DEF WaitsAt
<1>3. Called(Score(a)[j], c) /\ count[r][c] = N(j - 1) + 1
  BY DEF WaitsAt, Called
<1>4. \A i \in 0 .. L : N(i) \in Nat
  BY <1>1, <1>2, TimelineType DEF Moment
<1>5. j < k => N(j - 1) < N(k - 1)
  BY <1>1, <1>2, <1>3, CallBefore
<1>6. ASSUME phase[s] = "flushing" PROVE FALSE
  <2>1. /\ Due(a, Score(a)[k], Timeline(a)[k - 1]) /\ c = Sub(Timeline(a)[k - 1].size)
        /\ count[s][c] = N(k)
    BY <1>6 DEF WaitsAt
  <2>2. N(k) = N(k - 1) + (IF Called(Score(a)[k], c) THEN 1 ELSE 0) + 1
    BY <1>1, <1>2, <2>1, CallsOfSlot
  <2>3. k <= j - 1 => N(k) <= N(j - 1)
    <3>1. ASSUME k <= j - 1 PROVE j - 1 \in k .. L
      BY <1>1, <1>2, <3>1
    <3> QED
      BY <1>1, <1>2, <3>1, CallsGrow
  <2>4. N(j - 1) + 1 = N(k)
    BY <1>3, <2>1
  <2> HIDE DEF N
  <2>5. N(j - 1) \in Nat /\ N(k) \in Nat /\ N(k - 1) \in Nat
    BY <1>2, <1>4
  <2>6. CASE j = k
    BY <1>3, <2>2, <2>4, <2>5, <2>6
  <2>7. CASE j < k
    BY <1>5, <2>2, <2>4, <2>5, <2>7
  <2>8. CASE k < j
    BY <1>2, <2>3, <2>4, <2>5, <2>8
  <2> QED
    BY <1>2, <2>6, <2>7, <2>8
<1>7. phase[s] = "inside" /\ Called(Score(a)[k], c) /\ count[s][c] = N(k - 1) + 1
  <2>1. phase[s] = "inside"
    BY <1>6 DEF WaitsAt
  <2> QED
    BY <2>1 DEF WaitsAt, Called
<1>8. k < j => N(k - 1) < N(j - 1)
  BY <1>1, <1>2, <1>7, CallBefore
<1>9. N(j - 1) = N(k - 1)
  <2> HIDE DEF N
  <2>1. N(j - 1) \in Nat /\ N(k - 1) \in Nat
    BY <1>2, <1>4
  <2>2. N(j - 1) + 1 = N(k - 1) + 1
    BY <1>3, <1>7
  <2> QED
    BY <2>1, <2>2
<1>10. j = k
  <2> HIDE DEF N
  <2> QED
    BY <1>2, <1>4, <1>5, <1>8, <1>9
<1> QED
  BY <1>7, <1>10

\* No barrier is answered by a flush, no ncclCommGrow by an ncclCommShrink: ranks that wait
\* for the same collective of a communicator have made the same call.
THEOREM CollectivesAlwaysMatch == Spec => []CollectivesMatch
<1>1. CommIInv => CollectivesMatch
  <2> SUFFICES ASSUME CommIInv, NEW r \in Ranks, NEW s \in Ranks,
                      InBlocking(r) \/ Flushing(r), InBlocking(s) \/ Flushing(s),
                      Waited(s) = Waited(r), count[r][Waited(r)] = count[s][Waited(r)]
               PROVE  phase[r] = phase[s] /\ (phase[r] = "inside" => Here(r).do = Here(s).do)
    BY DEF CollectivesMatch
  <2> DEFINE c == Waited(r)
  <2>1. PICK j : WaitsAt(r, j, c)
    BY WaitsSomewhere
  <2>2. PICK k : WaitsAt(s, k, c)
    BY WaitsSomewhere
  <2>3. phase[r] \in {"inside", "flushing"} /\ phase[s] \in {"inside", "flushing"}
    BY <2>1, <2>2 DEF WaitsAt
  <2> HIDE DEF c
  <2>4. count[r][c] = count[s][c]
    BY DEF c
  <2>5. CASE phase[r] = "inside"
    <3>1. phase[s] = "inside" /\ j = k
      BY <2>1, <2>2, <2>4, <2>5, NoMixedWait
    <3>2. /\ Score(args)[j][r] = Here(r) /\ Score(args)[j][s] = Here(s) /\ Here(r) # Idle
          /\ Collects(Here(r)) /\ CommOf(Here(r)) = c /\ s \in c.members /\ j \in 1 .. Length(args)
      BY <2>1, <2>2, <2>5, <3>1 DEF WaitsAt
    <3>3. InHarmony(Score(args)[j])
      BY <3>2, TimelineIs DEF CommIInv, CommTypes
    <3>4. Here(s) = Here(r)
      BY <3>2, <3>3 DEF InHarmony
    <3> QED
      BY <2>5, <3>1, <3>4
  <2>6. CASE phase[s] = "inside"
    <3>1. phase[r] = "inside"
      BY <2>1, <2>2, <2>4, <2>6, NoMixedWait
    <3> QED
      BY <2>5, <3>1
  <2> QED
    BY <2>3, <2>5, <2>6
<1> QED
  BY <1>1, CommInvariance, PTL

LEMMA DivisionIs ==
    ASSUME NEW v \in Nat, NEW d \in Nat \ {0}
    PROVE  /\ v \div d \in Nat /\ v % d \in 0 .. d - 1
           /\ v = d * (v \div d) + (v % d)
  OBVIOUS

\* Going on by one either stays within a group or begins the next one.
LEMMA DivisionGoesOn ==
    ASSUME NEW v \in Nat, NEW d \in Nat \ {0}
    PROVE  (v + 1) \div d = (v \div d) + IF (v + 1) % d = 0 THEN 1 ELSE 0
<1> DEFINE q == v \div d
           m == v % d
           s == (v + 1) \div d
           t == (v + 1) % d
<1>1. q \in Nat /\ m \in 0 .. d - 1 /\ v = d * q + m
  BY DivisionIs
<1>2. s \in Nat /\ t \in 0 .. d - 1 /\ v + 1 = d * s + t
  <2> DEFINE w == v + 1
  <2>1. w \in Nat
    OBVIOUS
  <2> HIDE DEF w
  <2>2. w \div d \in Nat /\ w % d \in 0 .. d - 1 /\ w = d * (w \div d) + (w % d)
    BY <2>1, DivisionIs
  <2> QED
    BY <2>2 DEF w
<1> HIDE DEF q, m, s, t
<1>3. d * s + t = d * q + m + 1
  BY <1>1, <1>2
<1>4. s <= q + 1
  <2>1. SUFFICES ASSUME s >= q + 2 PROVE FALSE
    BY <1>1, <1>2
  <2>2. d * s >= d * q + d * 2
    BY <1>1, <1>2, <2>1
  <2>3. d * s \in Nat /\ d * q \in Nat
    BY <1>1, <1>2
  <2> QED
    BY <1>1, <1>2, <1>3, <2>2, <2>3
<1>5. s >= q
  <2>1. SUFFICES ASSUME s + 1 <= q PROVE FALSE
    BY <1>1, <1>2
  <2>2. d * s + d <= d * q
    BY <1>1, <1>2, <2>1
  <2>3. d * s \in Nat /\ d * q \in Nat
    BY <1>1, <1>2
  <2> QED
    BY <1>1, <1>2, <1>3, <2>2, <2>3
<1>6. CASE s = q
  <2>1. t = m + 1
    <3>1. d * q \in Nat /\ d * s = d * q
      BY <1>1, <1>6
    <3> QED
      BY <1>1, <1>2, <1>3, <3>1
  <2> QED
    BY <1>1, <1>6, <2>1 DEF q, s, t
<1>7. CASE s = q + 1
  <2>1. d * s = d * q + d
    BY <1>1, <1>7
  <2>2. d * q \in Nat
    BY <1>1
  <2>3. d + t = m + 1
    BY <1>1, <1>2, <1>3, <2>1, <2>2
  <2>4. t = 0
    BY <1>1, <1>2, <2>3
  <2> QED
    BY <1>7, <2>4 DEF q, s, t
<1> QED
  BY <1>1, <1>2, <1>4, <1>5, <1>6, <1>7

\* rootCount and isRoot agree on how many roots there are.
LEMMA RootsCounted ==
    ASSUME NEW a \in Options, NEW n \in Nat \ {0}
    PROVE  Cardinality(Roots(a, n)) = rootCount(a, n)
<1> DEFINE d == a.root_every
<1>1. d \in Nat
  BY CommOpsAssumption
<1>2. Roots(a, 1) = {0} /\ Cardinality({0}) = 1 /\ IsFiniteSet({0})
  <2>1. isRoot(a, 0)
    BY <1>1 DEF isRoot
  <2>2. 0 .. 1 - 1 = {0}
    OBVIOUS
  <2>3. Roots(a, 1) = {0}
    BY <2>1, <2>2 DEF Roots
  <2>4. Cardinality({0}) = 1 /\ IsFiniteSet({0})
    <3> DEFINE z == 0
    <3> HIDE DEF z
    <3>1. Cardinality({z}) = 1 /\ IsFiniteSet({z})
      BY FS_Singleton
    <3> QED
      BY <3>1 DEF z
  <2> QED
    BY <2>3, <2>4
<1>3. CASE d = 0
  <2>1. Roots(a, n) = {0}
    BY <1>3 DEF Roots, isRoot
  <2>2. rootCount(a, n) = 1
    BY <1>3 DEF rootCount
  <2> QED
    BY <1>2, <2>1, <2>2
<1>4. CASE d # 0
  <2> DEFINE K == {k \in Nat : IsFiniteSet(Roots(a, k + 1)) /\ Cardinality(Roots(a, k + 1)) = 1 + (k \div d)}
  <2>1. 0 \in K
    <3>1. 0 \div d = 0
      BY <1>1, <1>4
    <3>2. 0 + 1 = 1
      OBVIOUS
    <3> HIDE DEF d
    <3> QED
      BY <1>2, <3>1, <3>2
  <2>2. ASSUME NEW k \in K PROVE k + 1 \in K
    <3>1. k \in Nat /\ IsFiniteSet(Roots(a, k + 1)) /\ Cardinality(Roots(a, k + 1)) = 1 + (k \div d)
      OBVIOUS
    <3>2. (k + 1) \div d = (k \div d) + IF (k + 1) % d = 0 THEN 1 ELSE 0
      BY <1>1, <1>4, <3>1, DivisionGoesOn
    <3>3. isRoot(a, k + 1) <=> (k + 1) % d = 0
      BY <1>1, <1>4 DEF isRoot
    <3>4. 0 .. ((k + 1) + 1) - 1 = (0 .. (k + 1) - 1) \cup {k + 1} /\ k + 1 \notin 0 .. (k + 1) - 1
      BY <3>1
    <3>5. k \div d \in Nat
      BY <1>1, <1>4, <3>1, DivisionIs
    <3> HIDE DEF K, d
    <3>6. CASE (k + 1) % d = 0
      <4>1. Roots(a, (k + 1) + 1) = Roots(a, k + 1) \cup {k + 1} /\ k + 1 \notin Roots(a, k + 1)
        BY <3>3, <3>4, <3>6 DEF Roots
      <4>2. IsFiniteSet(Roots(a, (k + 1) + 1)) /\ Cardinality(Roots(a, (k + 1) + 1)) = 1 + (k \div d) + 1
        BY <3>1, <4>1, FS_AddElement
      <4> QED
        BY <3>1, <3>2, <3>5, <3>6, <4>2 DEF K
    <3>7. CASE (k + 1) % d # 0
      <4>1. Roots(a, (k + 1) + 1) = Roots(a, k + 1)
        BY <3>3, <3>4, <3>7 DEF Roots
      <4> QED
        BY <3>1, <3>2, <3>5, <3>7, <4>1 DEF K
    <3> QED
      BY <3>6, <3>7
  <2>3. K \in SUBSET Nat
    OBVIOUS
  <2> HIDE DEF K
  <2>4. K = Nat
    BY <2>1, <2>2, <2>3, SetInduction
  <2>5. n - 1 \in Nat /\ (n - 1) + 1 = n
    OBVIOUS
  <2>6. Cardinality(Roots(a, (n - 1) + 1)) = 1 + ((n - 1) \div d)
    BY <2>4, <2>5 DEF K
  <2> QED
    BY <1>1, <1>4, <2>5, <2>6 DEF rootCount
<1> QED
  BY <1>3, <1>4

LEMMA NextSlot ==
    ASSUME NEW a \in Options, NEW r \in Ranks, NEW z \in 0 .. Length(a), Rest(a, r)[z] # <<>>
    PROVE  \E j \in 1 .. Length(a) : Score(a)[j][r] # Idle /\ Head(Rest(a, r)[z]) = Score(a)[j][r]
<1> DEFINE L == Length(a)
           td == Rest(a, r)[z]
           S(p) == td = Rest(a, r)[p]
           E == \E j \in 1 .. L : Score(a)[j][r] # Idle /\ Head(td) = Score(a)[j][r]
           K == {k \in Nat : \A p \in 0 .. L : p + k = L /\ S(p) => E}
<1> HIDE DEF Calls
<1>1. L \in Nat /\ Rest(a, r)[L] = <<>>
  BY TimelineIs, RestIs
<1>2. ASSUME NEW p \in 0 .. L - 1, S(p) PROVE S(p + 1) \/ E
  <2>1. p + 1 \in 1 .. L /\ (p + 1) - 1 = p
    BY <1>1
  <2>2. IF Score(a)[p + 1][r] = Idle THEN Rest(a, r)[p] = Rest(a, r)[p + 1]
        ELSE Head(Rest(a, r)[p]) = Score(a)[p + 1][r]
    BY <2>1, RestIs
  <2> HIDE DEF td
  <2> QED
    BY <1>2, <2>1, <2>2
<1>3. td # <<>> /\ S(z)
  OBVIOUS
<1>4. S(L) => FALSE
  BY <1>1, <1>3
<1> HIDE DEF L, S, E
<1>5. 0 \in K
  <2>1. ASSUME NEW p \in 0 .. L, p + 0 = L, S(p) PROVE FALSE
    <3>1. p = L
      BY <1>1, <2>1
    <3> QED
      BY <1>4, <2>1, <3>1
  <2> QED
    BY <2>1
<1>6. ASSUME NEW k \in K PROVE k + 1 \in K
  <2>1. SUFFICES ASSUME NEW p \in 0 .. L, p + (k + 1) = L, S(p) PROVE E
    OBVIOUS
  <2>2. p \in 0 .. L - 1 /\ p + 1 \in 0 .. L /\ (p + 1) + k = L
    BY <1>1, <2>1
  <2> QED
    BY <1>2, <2>1, <2>2
<1>7. K \in SUBSET Nat
  OBVIOUS
<1> HIDE DEF K
<1>8. K = Nat
  BY <1>5, <1>6, <1>7, SetInduction
<1>9. L - z \in Nat /\ z + (L - z) = L /\ z \in 0 .. L
  BY <1>1 DEF L
<1>10. L - z \in K
  BY <1>8, <1>9
<1>11. E
  BY <1>3, <1>9, <1>10 DEF K
<1> QED
  BY <1>11 DEF E, L

\* Every ncclCommInitRankScalable of every test finds an id in each slot.
THEOREM RootsAlwaysFillTheSlots == Spec => []RootsFillTheSlots
<1>1. CommIInv => RootsFillTheSlots
  <2> SUFFICES ASSUME CommIInv, NEW r \in Ranks, At(r, {"ncclCommInitRankScalable"})
               PROVE  Cardinality(Roots(args, Cardinality(Here(r).on.members)))
                        = rootCount(args, Cardinality(Here(r).on.members))
    BY DEF RootsFillTheSlots
  <2>1. args \in Options
    BY DEF CommIInv, CommTypes
  <2>2. PICK p : Follows(r, p)
    BY DEF CommIInv
  <2>3. p \in 0 .. Length(args) /\ todo[r] = Rest(args, r)[p] /\ todo[r] # <<>>
    BY <2>2 DEF Follows, StandsAt, InPlace, At, Ended
  <2>4. PICK j \in 1 .. Length(args) : Score(args)[j][r] # Idle /\ Here(r) = Score(args)[j][r]
    BY <2>1, <2>3, NextSlot DEF Here
  <2> DEFINE x == Here(r)
             M == x.on.members
  <2>5. x.do = "ncclCommInitRankScalable"
    BY DEF At
  <2>6. Collects(x) /\ CommOf(x) = x.on
    BY <2>5 DEF Collects, CommOf, Collective, Blocking
  <2>7. r \in M /\ M \subseteq Ranks
    <3>1. InHarmony(Score(args)[j])
      BY <2>1, TimelineIs
    <3> QED
      BY <2>4, <2>6, <3>1 DEF InHarmony
  <2> HIDE DEF M
  <2>8. Cardinality(M) \in Nat \ {0}
    <3>1. IsFiniteSet(Ranks)
      <4> DEFINE lo == 0
                 hi == NRanks - 1
      <4>1. lo \in Int /\ hi \in Int /\ Ranks = lo .. hi
        BY CommOpsAssumption DEF Ranks
      <4> HIDE DEF lo, hi
      <4> QED
        BY <4>1, FS_Interval
    <3>2. IsFiniteSet(M)
      BY <2>7, <3>1, FS_Subset
    <3> QED
      BY <2>7, <3>2, FS_EmptySet, FS_CardinalityType
  <2>9. Cardinality(Roots(args, Cardinality(M))) = rootCount(args, Cardinality(M))
    BY <2>1, <2>8, RootsCounted
  <2> QED
    BY <2>9 DEF M
<1> QED
  BY <1>1, CommInvariance, PTL

-----------------------------------------------------------------------------
(* The sweep over communicator sizes.  The normalisation of the number in  *)
(* parse_args is what next_step relies on.                                 *)

\* The number points the way the sweep goes, and the sweep is past its start.
Oriented ==
    /\ sweep_args.num[2] \in Nat \ {0} /\ sweep_args.num[1] \in Int
    /\ sweep_args.kind = "factor" =>
          /\ sweep_args.num[1] \in Nat
          /\ IF Ascending THEN sweep_args.num[1] >= sweep_args.num[2] ELSE sweep_args.num[1] <= sweep_args.num[2]
    /\ sweep_args.kind = "step" => IF Ascending THEN sweep_args.num[1] >= 0 ELSE sweep_args.num[1] <= 0

SweepIInv ==
    /\ sweep_args.kind \in {"factor", "step"}
    /\ sweep_args.begin \in 0 .. nranks /\ sweep_args.end \in 0 .. nranks
    /\ Oriented
    /\ nrank_test \in Int
    /\ IF Ascending THEN sweep_args.begin <= nrank_test ELSE nrank_test <= sweep_args.begin

-----------------------------------------------------------------------------
(* Division and rounding.                                                  *)

LEMMA DivAtLeast ==
    ASSUME NEW a \in Int, NEW b \in Nat \ {0}, NEW d \in Int, b * d <= a
    PROVE  a \div b \in Int /\ a \div b >= d
  OBVIOUS

LEMMA DivAtMost ==
    ASSUME NEW a \in Int, NEW b \in Nat \ {0}, NEW d \in Int, a < b * (d + 1)
    PROVE  a \div b \in Int /\ a \div b <= d
  OBVIOUS

\* A fraction that is no less than a whole number does not round below it.
LEMMA RoundsUpTo ==
    ASSUME NEW p \in Nat, NEW q \in Nat \ {0}, NEW c \in Nat, c * q <= p
    PROVE  Round(p, q) \in Int /\ Round(p, q) >= c
<1>1. 2 * (c * q) <= 2 * p /\ c * q \in Nat
  OBVIOUS
<1>2. (2 * q) * c = 2 * (c * q)
  OBVIOUS
<1>3. (2 * q) * c <= 2 * p + q
  BY <1>1, <1>2
<1>4. 2 * p + q \in Int /\ 2 * q \in Nat \ {0}
  OBVIOUS
<1> QED
  BY <1>3, <1>4, DivAtLeast DEF Round

\* One that is no greater does not round above it.
LEMMA RoundsDownTo ==
    ASSUME NEW p \in Nat, NEW q \in Nat \ {0}, NEW c \in Nat, p <= c * q
    PROVE  Round(p, q) \in Int /\ Round(p, q) <= c
<1>1. 2 * p <= 2 * (c * q) /\ c * q \in Nat
  OBVIOUS
<1>2. (2 * q) * (c + 1) = 2 * (c * q) + 2 * q
  OBVIOUS
<1>3. 2 * p + q < (2 * q) * (c + 1)
  BY <1>1, <1>2
<1>4. 2 * p + q \in Int /\ 2 * q \in Nat \ {0}
  OBVIOUS
<1> QED
  BY <1>3, <1>4, DivAtMost DEF Round

\* Rounding keeps the sign.
LEMMA RoundKeepsSign ==
    ASSUME NEW p \in Int, NEW q \in Nat \ {0}
    PROVE  /\ Round(p, q) \in Int
           /\ p >= 0 => Round(p, q) >= 0
           /\ p <= 0 => Round(p, q) <= 0
<1>1. CASE p > 0
  BY <1>1, RoundsUpTo
<1>2. CASE p = 0
  BY <1>2, RoundsUpTo, RoundsDownTo
<1>3. CASE p < 0
  <2>1. -2 * p + q \in Int /\ 2 * q \in Nat \ {0} /\ (2 * q) * 0 <= -2 * p + q
    BY <1>3
  <2>2. (-2 * p + q) \div (2 * q) \in Int /\ (-2 * p + q) \div (2 * q) >= 0
    BY <2>1, DivAtLeast
  <2> QED
    BY <2>2, <1>3 DEF Round
<1> QED
  BY <1>1, <1>2, <1>3

-----------------------------------------------------------------------------
(* The sweep.                                                              *)

\* The bounds end up within the world.
LEMMA ClampFacts ==
    ASSUME NEW n \in Int
    PROVE  Clamp(n) \in 0 .. nranks
  BY SweepAssumption DEF Clamp, LesserOf, GreaterOf

\* parse_args makes the number point the way of the sweep.
LEMMA SweepIsOriented ==
    ASSUME "fixed" \notin Kinds, SweepInit
    PROVE  SweepIInv
<1>1. PICK b \in Bounds, e \in Bounds, kind \in Kinds, x \in Numbers : sweep_args = SweepOf(b, e, kind, x)
  BY DEF SweepInit
<1>2. kind \in {"factor", "step"}
  BY SweepAssumption
<1>3. BeginRanks(b) \in 0 .. nranks /\ EndRanks(e) \in 0 .. nranks
  BY SweepAssumption, ClampFacts DEF BeginRanks, EndRanks
<1> DEFINE up == BeginRanks(b) < EndRanks(e)
           y == ParseNumber(kind, x)
<1>4. /\ sweep_args.begin = BeginRanks(b) /\ sweep_args.end = EndRanks(e) /\ sweep_args.kind = kind
      /\ sweep_args.num = Orient(kind, y, up)
  BY <1>1 DEF SweepOf
<1>5. /\ y[1] \in Nat \ {0} /\ y[2] \in Nat \ {0}
      /\ kind = "factor" => y[1] >= y[2]
  BY SweepAssumption DEF ParseNumber
<1>6. Ascending <=> up
  BY <1>4 DEF Ascending
<1>7. Oriented
  <2>1. CASE kind = "factor"
    <3>1. sweep_args.num = IF up # (y[1] > y[2]) THEN <<y[2], y[1]>> ELSE y
      BY <2>1, <1>4 DEF Orient
    <3>2. /\ sweep_args.num[1] \in Nat /\ sweep_args.num[2] \in Nat \ {0}
          /\ IF up THEN sweep_args.num[1] >= sweep_args.num[2] ELSE sweep_args.num[1] <= sweep_args.num[2]
      BY <3>1, <1>5, <2>1
    <3> QED
      BY <3>2, <2>1, <1>4, <1>6 DEF Oriented
  <2>2. CASE kind = "step"
    <3>1. sweep_args.num = IF up THEN y ELSE <<-y[1], y[2]>>
      BY <2>2, <1>4 DEF Orient
    <3>2. /\ sweep_args.num[1] \in Int /\ sweep_args.num[2] \in Nat \ {0}
          /\ IF up THEN sweep_args.num[1] >= 0 ELSE sweep_args.num[1] <= 0
      BY <3>1, <1>5
    <3> QED
      BY <3>2, <2>2, <1>4, <1>6 DEF Oriented
  <2> QED
    BY <2>1, <2>2, <1>2
<1> QED
  BY <1>2, <1>3, <1>4, <1>7 DEF SweepIInv, SweepInit

\* A size that is tested is a natural number.
LEMMA TestedIsNatural ==
    ASSUME SweepIInv, keep_testing(sweep_args, nrank_test)
    PROVE  nrank_test \in Nat
  BY SweepAssumption DEF SweepIInv, keep_testing, Ascending

\* The calculated next size is no step back; the nudge makes it one ahead.
LEMMA NextMovesOn ==
    ASSUME SweepIInv, keep_testing(sweep_args, nrank_test)
    PROVE  /\ next_step(sweep_args, nrank_test) \in Int
           /\ IF Ascending THEN next_step(sweep_args, nrank_test) > nrank_test
                           ELSE next_step(sweep_args, nrank_test) < nrank_test
<1> DEFINE c == nrank_test
           p == sweep_args.num[1]
           q == sweep_args.num[2]
           next == Moved(sweep_args, c)
<1>1. c \in Nat /\ p \in Int /\ q \in Nat \ {0}
  BY TestedIsNatural DEF SweepIInv, Oriented
<1>2. next \in Int /\ IF Ascending THEN next >= c ELSE next <= c
  <2>1. CASE sweep_args.kind = "factor"
    <3>1. p \in Nat /\ IF Ascending THEN p >= q ELSE p <= q
      BY <2>1 DEF SweepIInv, Oriented
    <3>2. c * p \in Nat /\ IF Ascending THEN c * q <= c * p ELSE c * p <= c * q
      BY <3>1, <1>1
    <3>3. next = Round(c * p, q)
      BY <2>1 DEF Moved
    <3>4. CASE Ascending
      BY <3>2, <3>3, <3>4, <1>1, RoundsUpTo
    <3>5. CASE ~Ascending
      BY <3>2, <3>3, <3>5, <1>1, RoundsDownTo
    <3> QED
      BY <3>4, <3>5
  <2>2. CASE sweep_args.kind = "step"
    <3>1. next = c + Round(p, q)
      BY <2>2 DEF Moved
    <3>2. IF Ascending THEN p >= 0 ELSE p <= 0
      BY <2>2 DEF SweepIInv, Oriented
    <3>3. Round(p, q) \in Int /\ IF Ascending THEN Round(p, q) >= 0 ELSE Round(p, q) <= 0
      BY <3>2, <1>1, RoundKeepsSign
    <3> HIDE DEF c, p, q
    <3> QED
      BY <3>1, <3>3, <1>1
  <2> QED
    BY <2>1, <2>2 DEF SweepIInv
<1>3. next_step(sweep_args, c) = IF next # c THEN next ELSE IF Ascending THEN next + 1 ELSE next - 1
  BY DEF next_step, Nudge, SweepIInv, Ascending
<1> HIDE DEF next
<1> QED
  BY <1>1, <1>2, <1>3

\* A round of the sweep keeps the invariant.
LEMMA StepInv ==
    ASSUME SweepIInv, [SweepNext]_sweep_vars
    PROVE  SweepIInv'
<1>1. CASE TestSize
  <2>1. sweep_args' = sweep_args /\ nrank_test' = next_step(sweep_args, nrank_test) /\ keep_testing(sweep_args, nrank_test)
    BY <1>1 DEF TestSize
  <2>2. /\ nrank_test' \in Int
        /\ IF Ascending THEN nrank_test' > nrank_test ELSE nrank_test' < nrank_test
    BY <2>1, NextMovesOn
  <2>3. (Ascending <=> Ascending') /\ (Oriented <=> Oriented')
    BY <2>1 DEF Ascending, Oriented
  <2>4. sweep_args.begin \in Int /\ nrank_test \in Int
    BY DEF SweepIInv
  <2>5. IF Ascending THEN sweep_args.begin <= nrank_test' ELSE nrank_test' <= sweep_args.begin
    BY <2>2, <2>4 DEF SweepIInv
  <2> QED
    BY <2>1, <2>2, <2>3, <2>5 DEF SweepIInv
<1>2. CASE UNCHANGED <<sweep_args, nrank_test>>
  BY <1>2 DEF SweepIInv, Oriented, Ascending
<1> QED
  BY <1>1, <1>2 DEF SweepNext, Leave, SweepDone, sweep_vars

-----------------------------------------------------------------------------
(* The theorems.                                                           *)

\* The number keeps pointing the way the sweep goes (parse_args 399-419).
THEOREM SweepInvariance ==
    ASSUME "fixed" \notin Kinds
    PROVE  SweepSpec => []SweepIInv
<1>1. SweepInit => SweepIInv
  BY SweepIsOriented
<1>2. SweepIInv /\ [SweepNext]_sweep_vars => SweepIInv'
  BY StepInv
<1> QED
  BY <1>1, <1>2, PTL DEF SweepSpec

\* next_step "ensures progress" (1143): each round moves on towards the end,
\* for every factor and step.
THEOREM SweepMovesOn ==
    ASSUME "fixed" \notin Kinds
    PROVE  SweepSpec => MovesOn
<1>1. SweepIInv /\ [SweepNext]_sweep_vars =>
        [TestSize /\ sweep_args.kind # "fixed" =>
            IF Ascending THEN nrank_test' > nrank_test
                         ELSE nrank_test' < nrank_test]_sweep_vars
  BY NextMovesOn DEF TestSize
<1> QED
  BY <1>1, SweepInvariance, PTL DEF SweepSpec, MovesOn

\* No size outside the bounds, and so none above the world's, is ever tested.
THEOREM SweepStaysWithinBounds ==
    ASSUME "fixed" \notin Kinds
    PROVE  SweepSpec => []WithinBounds
<1>1. SweepIInv => WithinBounds
  BY DEF SweepIInv, WithinBounds, Tested, keep_testing, Ascending
<1> QED
  BY <1>1, SweepInvariance, PTL
=============================================================================
