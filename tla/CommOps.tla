------------------------------- MODULE CommOps -------------------------------
(***************************************************************************)
(* src/comm_ops.cu: every rank of MPI_COMM_WORLD walks through a sweep of  *)
(* communicator sizes; for each size the ranks below it create, use and    *)
(* tear down NCCL communicators (main_init, main_split, main_grow) and     *)
(* record a timer for each call.  A full timer buffer is flushed with MPI  *)
(* collectives from inside stop_timer() or skip_timer(), so the ranks stay *)
(* together only if all of them make the same timer calls, those that take *)
(* no part in an NCCL call as well.                                        *)
(*                                                                         *)
(* A rank's code for one size is straight-line once the options are fixed: *)
(* it is laid out as a sequence of calls and walked with a program         *)
(* counter.  MPI and NCCL are external: a collective returns when every    *)
(* member of its communicator has called it (MPI need not wait in each     *)
(* case, but may).                                                         *)
(***************************************************************************)
EXTENDS Integers, FiniteSets, Sequences, SequencesExt

CONSTANTS NRanks,     \* size of MPI_COMM_WORLD
          Sweep,      \* the sizes main() tests, as CommSweep yields them
          Options     \* the option records under study

Ranks == 0 .. NRanks - 1

\* resize: <<kind, p, q>> stands for factor-p/q (at least 1) or step-p/q.
ASSUME CommOpsAssumption ==
    /\ NRanks \in Nat \ {0}
    /\ Sweep \in Seq(1 .. NRanks)
    /\ \A a \in Options :
          /\ a.test_kind \in {"init", "split", "shrink", "grow"}
          /\ a.aborts \in BOOLEAN
          /\ {a.warmup, a.iterations, a.work_iterations, a.root_every} \subseteq Nat
          /\ a.timing_flush_interval \in Nat \ {0}
          /\ a.resize[1] \in {"factor", "step"}
          /\ a.resize[2] \in Nat \ {0} /\ a.resize[3] \in Nat \ {0}
          /\ a.resize[1] = "factor" => a.resize[2] >= a.resize[3]

-----------------------------------------------------------------------------
(* Who takes part in what.                                                 *)

\* pick_color (715-723).
pick_color(a, rank, count) ==
    IF a.resize[1] = "factor"
      THEN IF rank * a.resize[2] >= count * a.resize[3] THEN 1 ELSE 0
      ELSE IF rank * a.resize[3] >= count * a.resize[3] - a.resize[2] THEN 1 ELSE 0

Color(a, n, c) == {r \in 0 .. n - 1 : pick_color(a, r, n) = c}

\* rootCount (511-517) and isRoot (523-528).
FullGroupsOnly(a, n) == IF a.root_every > 0 THEN n \div a.root_every ELSE 1
rootCount(a, n) == IF a.root_every > 0 THEN 1 + (n - 1) \div a.root_every ELSE 1
isRoot(a, rank) == IF a.root_every > 0 THEN rank % a.root_every = 0 ELSE rank = 0
Roots(a, n) == {r \in 0 .. n - 1 : isRoot(a, r)}

-----------------------------------------------------------------------------
(* The calls of a rank.  "on" is the communicator, a name and a set of     *)
(* members; "timer" is the timer stopped after the call, if any.           *)

NoTimer == "none"
Comm(name, members) == [name |-> name, members |-> members]
Call(do, on, timer) == <<[do |-> do, on |-> on, timer |-> timer]>>
Local(timer) == Call("local", Comm(<<>>, {}), timer)
Skip(timer) == Call("skip", Comm(<<>>, {}), timer)
Enable(on) == <<[do |-> "enable", enabled |-> on]>>
When(cond, calls) == IF cond THEN calls ELSE <<>>
Times(n, calls) == FlattenSeq([i \in 1 .. n |-> calls])

World == Comm(<<"world">>, Ranks)
Sub(n) == Comm(<<"sub", n>>, 0 .. n - 1)
MpiBarrier(n, timer) == Call("MPI_Barrier", Sub(n), timer)

\* Every root's id reaches everyone, then everybody joins (650-680, 755-785).
CreateComm(a, mpi, comm) ==
    Call("MPI_Allgatherv", mpi, "mpi_allgatherv")
      \o Call("ncclCommInitRankScalable", comm, "nccl_init")

\* do_work (486-499) on a communicator, and without one.
DoWork(comm) == Call("ncclAllReduce", comm, "nccl_allreduce")
                  \o Call("cudaStreamSynchronize", comm, "cuda_stream_sync")
NoWork == <<>>
DoNoWork == Skip("nccl_allreduce") \o Skip("cuda_stream_sync")

\* Abort, or finalize and destroy; and the timers of those who have no part.
TearDown(a) ==
    IF a.aborts THEN Local("nccl_abort")
                ELSE Local("nccl_finalize") \o Local("nccl_destroy")
SkipTearDownAborting(a) == Skip("nccl_finalize") \o Skip("nccl_destroy")
SkipTearDown(a) ==
    IF a.aborts THEN Skip("nccl_abort")
                ELSE Skip("nccl_finalize") \o Skip("nccl_destroy")

Rounds(a) == a.iterations + a.warmup

\* main_init (633-704).
main_init(a, r, n) ==
    Enable(0 >= a.warmup) \o MpiBarrier(n, "mpi_barrier")
    \o FlattenSeq([j \in 1 .. Rounds(a) |->
        LET comm == Comm(<<"init", n, j>>, 0 .. n - 1)
        IN  Enable(j > a.warmup)
              \o Call("MPI_Allgatherv", Sub(n), "mpi_allgatherv")
              \o MpiBarrier(n, "mpi_barrier")
              \o Call("ncclCommInitRankScalable", comm, "nccl_init")
              \o Times(a.work_iterations, DoWork(comm))
              \o TearDown(a)])

\* One split or shrink of main_split (788-857).  exclude_ranks is everyone of
\* the other color; ranks a shrink excludes have no child.
SplitRound(a, r, n, j) ==
    LET color   == pick_color(a, r, n)
        exclude == {o \in 0 .. n - 1 : pick_color(a, o, n) # color}
        child   == Comm(<<"child", n, j, color>>, (0 .. n - 1) \ exclude)
        parent  == Comm(<<"parent", n>>, 0 .. n - 1)
        has     == a.test_kind = "split" \/ color = 0
    IN  Enable(j > a.warmup) \o MpiBarrier(n, NoTimer)
        \o (CASE a.test_kind = "split" -> Call("ncclCommSplit", parent, "nccl_split")
              [] a.test_kind = "shrink" /\ has -> Call("ncclCommShrink", child, "nccl_shrink")
              [] a.test_kind = "shrink" /\ ~has -> Skip("nccl_shrink"))
        \o Times(a.work_iterations, IF has THEN DoWork(child) ELSE DoNoWork)
        \o (IF has THEN TearDown(a) ELSE SkipTearDown(a))

\* main_split (734-873).
main_split(a, r, n) ==
    Enable(0 >= a.warmup)
    \o When(n # 1,
        MpiBarrier(n, "mpi_barrier")
        \o CreateComm(a, Sub(n), Comm(<<"parent", n>>, 0 .. n - 1))
        \o FlattenSeq([j \in 1 .. Rounds(a) |-> SplitRound(a, r, n, j)])
        \o TearDown(a))

\* main_grow (875-1006).
GrowRound(a, r, n, j) ==
    LET bigger == Comm(<<"bigger", n, j>>, 0 .. n - 1)
    IN  Enable(j > a.warmup) \o MpiBarrier(n, NoTimer)
        \o Call("MPI_Bcast", Sub(n), NoTimer)
        \o Call("ncclCommGrow", bigger, "nccl_grow")
        \o Times(a.work_iterations, DoWork(bigger))
        \o TearDown(a)

main_grow(a, r, n) ==
    LET initial == Color(a, n, 0)
        smaller == Comm(<<"smaller", n>>, initial)
        part    == r \in initial
    IN  Enable(0 >= a.warmup)
        \o When(initial # {} /\ initial # 0 .. n - 1,
            MpiBarrier(n, "mpi_barrier")
            \o Call("MPI_Comm_split", Sub(n), NoTimer)
            \o (IF part THEN CreateComm(a, Comm(<<"color", n>>, initial), smaller)
                        ELSE Skip("mpi_allgatherv") \o Skip("nccl_init"))
            \o Times(a.work_iterations, IF part THEN DoWork(smaller) ELSE DoNoWork)
            \o FlattenSeq([j \in 1 .. Rounds(a) |-> GrowRound(a, r, n, j)])
            \o (IF part THEN TearDown(a) ELSE SkipTearDown(a)))

Test(a, r, n) ==
    CASE a.test_kind = "init" -> main_init(a, r, n)
      [] a.test_kind \in {"split", "shrink"} -> main_split(a, r, n)
      [] a.test_kind = "grow" -> main_grow(a, r, n)

\* The loop of main (1205-1227), then timing_print_summary_grouped (1229): a
\* gathering for the timers of start-up and for each size the rank was part of.
Gather(n) == <<[do |-> "gather_timing", n |-> n]>>
Program(a, r) ==
    FlattenSeq([i \in 1 .. Len(Sweep) |->
        Call("MPI_Comm_split", World, NoTimer)
          \o When(r < Sweep[i],
                <<[do |-> "timing_allocate", n |-> Sweep[i]]>>
                  \o Test(a, r, Sweep[i]))])
    \o Gather(0)
    \o FlattenSeq([i \in 1 .. Len(Sweep) |-> When(r < Sweep[i], Gather(Sweep[i]))])

\* The communicators of a run; size 0 stands for the timers of start-up.
Sizes == {0} \cup ToSet(Sweep)
TimingComm(n) == IF n = 0 THEN World ELSE Sub(n)
Comms(a) ==
    {TimingComm(n) : n \in Sizes} \cup
    UNION {{c.on : c \in {d \in ToSet(Program(a, r)) : "on" \in DOMAIN d}} : r \in Ranks}

Timers == {"cuda_init", "mpi_init", "work_prepare", "mpi_barrier", "mpi_allgatherv",
           "nccl_init", "nccl_split", "nccl_shrink", "nccl_grow", "nccl_allreduce",
           "cuda_stream_sync", "nccl_finalize", "nccl_destroy", "nccl_abort"}
StartUp == <<"cuda_init", "mpi_init", "work_prepare">>        \* 1188-1203

-----------------------------------------------------------------------------
VARIABLES
    args,
    todo,        \* todo[r], the calls rank r still has to make
    phase,       \* "ready", "inside" a call, about to "flush", "flushing"
    size,        \* size[r], the size under test, whose timing record is in use
    enabled,     \* enabled[r], timing->currently_enabled
    records,     \* records[r][n], the timers recorded and not yet flushed
    count,       \* count[r][c], collective calls r has made on communicator c
    gathered,    \* gathered[n], of those on n's communicator, rank 0 has gathered
    by_type,     \* by_type[n][timer], rank 0's rounds_ and participant_count_by_type
    performed,   \* history: performed[n][timer], calls made with that timer running
    main_ret_val

vars == <<args, todo, phase, size, enabled, records, count, gathered, by_type,
          performed, main_ret_val>>

Record(timer, part) == [timer |-> timer, participated |-> part]

Init ==
    /\ args \in Options
    /\ todo = [r \in Ranks |-> Program(args, r)]
    /\ phase = [r \in Ranks |-> "ready"]
    /\ size = [r \in Ranks |-> 0]
    /\ enabled = [r \in Ranks |-> TRUE]
    /\ records = [r \in Ranks |-> [n \in Sizes |->
                    IF n # 0 THEN <<>>
                    ELSE [i \in 1 .. Len(StartUp) |-> Record(StartUp[i], TRUE)]]]
    /\ count = [r \in Ranks |-> [c \in Comms(args) |-> 0]]
    /\ gathered = [n \in Sizes |-> 0]
    /\ by_type = [n \in Sizes |-> [t \in Timers |-> [rounds |-> 0, participants |-> 0]]]
    /\ performed = [n \in Sizes |-> [t \in Timers |->
                      IF n = 0 /\ t \in ToSet(StartUp) THEN NRanks ELSE 0]]
    /\ main_ret_val = 0

Ended(r) == todo[r] = <<>>
Here(r) == Head(todo[r])
GoOn(r) == todo' = [todo EXCEPT ![r] = Tail(@)]
At(r, calls) == ~Ended(r) /\ Here(r).do \in calls

\* External: which calls return only when the others have made them, too.
Blocking == {"MPI_Barrier", "MPI_Allgatherv", "MPI_Bcast", "MPI_Comm_split",
             "ncclCommInitRankScalable", "ncclCommSplit", "ncclCommShrink",
             "ncclCommGrow"}

Flushing(r) == phase[r] = "flushing" \/ (phase[r] = "inside" /\ At(r, {"gather_timing"}))
InBlocking(r) == phase[r] = "inside" /\ At(r, Blocking)

\* The communicator whose members a waiting rank waits for.
Waited(r) ==
    IF phase[r] = "flushing" THEN Sub(size[r])
    ELSE IF At(r, {"gather_timing"}) THEN TimingComm(Here(r).n) ELSE Here(r).on

Met(r, c) == \A m \in c.members : count[m][c] >= count[r][c]
Count(r, c) == count' = [count EXCEPT ![r][c] = @ + 1]

\* record_timer (428-441) and the flush it may call for; the call is over.
FlushWhenOver(a, n) == n > a.timing_flush_interval
FlushDue(a, n) == n = a.timing_flush_interval
Return(r, timer, part) ==
    LET n == size[r]
    IN  /\ GoOn(r)
        /\ IF timer = NoTimer \/ ~enabled[r]
             THEN /\ phase' = [phase EXCEPT ![r] = "ready"]
                  /\ UNCHANGED <<records, performed>>
             ELSE /\ records' = [records EXCEPT ![r][n] =
                        IF Len(@) < args.timing_flush_interval
                          THEN Append(@, Record(timer, part)) ELSE @]
                  /\ phase' = [phase EXCEPT ![r] =
                        IF FlushDue(args, Len(records[r][n]) + 1) THEN "flush" ELSE "ready"]
                  /\ performed' = [performed EXCEPT ![n][timer] = @ + IF part THEN 1 ELSE 0]

\* main's subcomm for the next size.
Allocate(r) ==
    /\ phase[r] = "ready" /\ At(r, {"timing_allocate"})
    /\ size' = [size EXCEPT ![r] = Here(r).n]
    /\ enabled' = [enabled EXCEPT ![r] = TRUE]
    /\ GoOn(r)
    /\ UNCHANGED <<args, phase, records, count, gathered, by_type, performed, main_ret_val>>

SetEnabled(r) ==
    /\ phase[r] = "ready" /\ At(r, {"enable"})
    /\ enabled' = [enabled EXCEPT ![r] = Here(r).enabled]
    /\ GoOn(r)
    /\ UNCHANGED <<args, phase, size, records, count, gathered, by_type, performed, main_ret_val>>

\* A collective call that blocks.
Begin(r) ==
    /\ phase[r] = "ready" /\ At(r, Blocking)
    /\ Count(r, Here(r).on)
    /\ phase' = [phase EXCEPT ![r] = "inside"]
    /\ UNCHANGED <<args, todo, size, enabled, records, gathered, by_type, performed, main_ret_val>>

End(r) ==
    /\ InBlocking(r)
    /\ Met(r, Here(r).on)
    /\ Return(r, Here(r).timer, TRUE)
    /\ UNCHANGED <<args, size, enabled, count, gathered, by_type, main_ret_val>>

\* ncclAllReduce only queues the work; the stream is done with it when every
\* member of the communicator has queued it.
AllReduce(r) ==
    /\ phase[r] = "ready" /\ At(r, {"ncclAllReduce"})
    /\ Count(r, Here(r).on)
    /\ Return(r, Here(r).timer, TRUE)
    /\ UNCHANGED <<args, size, enabled, gathered, by_type, main_ret_val>>

StreamSync(r) ==
    /\ phase[r] = "ready" /\ At(r, {"cudaStreamSynchronize"})
    /\ Met(r, Here(r).on)
    /\ Return(r, Here(r).timer, TRUE)
    /\ UNCHANGED <<args, size, enabled, count, gathered, by_type, main_ret_val>>

\* Calls that involve no other rank, and skip_timer (463-465).
LocalCall(r) ==
    /\ phase[r] = "ready" /\ At(r, {"local", "skip"})
    /\ Return(r, Here(r).timer, Here(r).do = "local")
    /\ UNCHANGED <<args, size, enabled, count, gathered, by_type, main_ret_val>>

\* A rank enters flush_timing (606-618), or the gathering of the summary.
BeginFlush(r) ==
    /\ phase[r] = "flush"
    /\ Count(r, Sub(size[r]))
    /\ phase' = [phase EXCEPT ![r] = "flushing"]
    /\ UNCHANGED <<args, todo, size, enabled, records, gathered, by_type, performed, main_ret_val>>

BeginGather(r) ==
    /\ phase[r] = "ready" /\ At(r, {"gather_timing"})
    /\ Count(r, TimingComm(Here(r).n))
    /\ phase' = [phase EXCEPT ![r] = "inside"]
    /\ UNCHANGED <<args, todo, size, enabled, records, gathered, by_type, performed, main_ret_val>>

\* gather_timing (557-604) on rank 0: what timer is at place j is read from
\* rank 0's own list, who took part in it from everybody's.
GatheredSize == IF phase[0] = "flushing" THEN size[0] ELSE Here(0).n
Participants(n, j) ==
    Cardinality({m \in TimingComm(n).members :
                    j <= Len(records[m][n]) /\ records[m][n][j].participated})
AddRecord(n, types, j) ==
    IF Participants(n, j) = 0 THEN types
    ELSE [types EXCEPT ![records[0][n][j].timer] =
            [rounds |-> @.rounds + 1, participants |-> @.participants + Participants(n, j)]]

GatherTiming ==
    LET n == GatheredSize
        c == TimingComm(n)
    IN  /\ Flushing(0)
        /\ gathered[n] < count[0][c]
        /\ Met(0, c)
        /\ by_type' = [by_type EXCEPT ![n] =
              FoldLeft(LAMBDA types, j : AddRecord(n, types, j), @,
                       [j \in 1 .. Len(records[0][n]) |-> j])]
        /\ main_ret_val' = IF \A m \in c.members : Len(records[m][n]) = Len(records[0][n])
                             THEN main_ret_val ELSE 1
        /\ gathered' = [gathered EXCEPT ![n] = count[0][c]]
        /\ UNCHANGED <<args, todo, phase, size, enabled, records, count, performed>>

\* flush_timing ends with a barrier, and every rank starts over.
EndFlush(r) ==
    /\ phase[r] = "flushing"
    /\ gathered[size[r]] >= count[r][Sub(size[r])]
    /\ records' = [records EXCEPT ![r][size[r]] = <<>>]
    /\ phase' = [phase EXCEPT ![r] = "ready"]
    /\ UNCHANGED <<args, todo, size, enabled, count, gathered, by_type, performed, main_ret_val>>

EndGather(r) ==
    /\ phase[r] = "inside" /\ At(r, {"gather_timing"})
    /\ gathered[Here(r).n] >= count[r][TimingComm(Here(r).n)]
    /\ phase' = [phase EXCEPT ![r] = "ready"]
    /\ GoOn(r)
    /\ UNCHANGED <<args, size, enabled, records, count, gathered, by_type, performed, main_ret_val>>

AllEnded == \A r \in Ranks : Ended(r) /\ phase[r] = "ready"
Done == AllEnded /\ UNCHANGED vars

RankStep(r) ==
    \/ Allocate(r) \/ SetEnabled(r) \/ Begin(r) \/ End(r)
    \/ AllReduce(r) \/ StreamSync(r) \/ LocalCall(r)
    \/ BeginFlush(r) \/ EndFlush(r) \/ BeginGather(r) \/ EndGather(r)

Next == (\E r \in Ranks : RankStep(r)) \/ GatherTiming \/ Done
Spec == Init /\ [][Next]_vars
FairSpec == Spec /\ (\A r \in Ranks : WF_vars(RankStep(r))) /\ WF_vars(GatherTiming)

-----------------------------------------------------------------------------
(* Properties.                                                             *)

TypeOK ==
    /\ args \in Options
    /\ phase \in [Ranks -> {"ready", "inside", "flush", "flushing"}]
    /\ size \in [Ranks -> Sizes]
    /\ enabled \in [Ranks -> BOOLEAN]
    /\ \A r \in Ranks, n \in Sizes \ {0} :
          \/ Len(records[r][n]) < args.timing_flush_interval
          \/ Len(records[r][n]) = args.timing_flush_interval /\ phase[r] \in {"flush", "flushing"}
    /\ \A r \in Ranks : count[r] \in [DOMAIN count[0] -> Nat]
    /\ gathered \in [Sizes -> Nat]
    /\ main_ret_val \in {0, 1}

\* Two ranks that wait on the same communicator for the same collective of it
\* have made the same call: no barrier is ever answered by a flush, no
\* ncclCommGrow by an ncclCommShrink.
CollectivesMatch ==
    \A r, s \in Ranks :
        LET c == Waited(r)
        IN  /\ InBlocking(r) \/ Flushing(r)
            /\ InBlocking(s) \/ Flushing(s)
            /\ Waited(s) = c /\ count[r][c] = count[s][c]
            => /\ phase[r] = phase[s]
               /\ phase[r] = "inside" => Here(r).do = Here(s).do

\* "ALL ranks in the MPI Communicator _must_ call the same set of stop_timer
\* or skip_timer calls (with the same types)" (1031-1033): when rank 0 adds up
\* what the ranks send, the j-th timer of each is the same one.
TimersInLockstep ==
    Flushing(0) /\ gathered[GatheredSize] < count[0][TimingComm(GatheredSize)]
                /\ Met(0, TimingComm(GatheredSize))
      => LET n == GatheredSize
         IN  \A m \in TimingComm(n).members :
                /\ Len(records[m][n]) = Len(records[0][n])
                /\ \A j \in DOMAIN records[m][n] :
                      records[m][n][j].timer = records[0][n][j].timer

\* The summary counts every timed call of every rank once, whatever the flush
\* interval: none is lost with the buffer and none is sent twice.
SummaryIsComplete ==
    Ended(0) => /\ \A n \in Sizes, t \in Timers :
                      by_type[n][t].participants = performed[n][t]
                /\ main_ret_val = 0

\* There is a slot in id_array for each id the roots send, and an id for each
\* slot (rootCount and isRoot), also when only some ranks form the communicator.
RootsFillTheSlots ==
    \A r \in Ranks : At(r, {"ncclCommInitRankScalable"}) =>
        LET n == Cardinality(Here(r).on.members)
        IN  Cardinality(Roots(args, n)) = rootCount(args, n)

\* Every rank gets to the end of main.
EveryRankEnds == <>AllEnded
=============================================================================
