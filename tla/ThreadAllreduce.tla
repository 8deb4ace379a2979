--------------------------- MODULE ThreadAllreduce ---------------------------
(***************************************************************************)
(* Allreduce<T>() of src/common.cu (lines 323-377): every thread of every  *)
(* process brings a value and takes away the reduction of all of them.     *)
(* The skeleton is Barrier()'s, with an accumulator beside each counter:   *)
(* the first thread to arrive stores its value, the others combine theirs, *)
(* the last-index thread reduces across processes with MPI_Allreduce, and  *)
(* every thread reads the accumulator AFTER it has given the mutex up.     *)
(* That read is what the second copy of the state protects.                *)
(*                                                                         *)
(* Grain: as in ThreadBarrier; the unlocked read is a step of its own.     *)
(***************************************************************************)
EXTENDS Integers, FiniteSets, Sequences, FiniteSetsExt, Functions

CONSTANTS Procs,      \* the MPI processes
          N,          \* args->nThreads
          MaxCalls,   \* bound: calls each thread makes
          Ops,        \* the values of "average" under study, a subset of AllOps
          Args        \* Args[k][p][t]: what thread t of p passes in its call k

AllOps == {"r0", "avg", "min", "max", "sum"}      \* average = 0 .. 4

ASSUME AllreduceAssumption ==
    /\ IsFiniteSet(Procs) /\ Procs # {}
    /\ N \in Nat \ {0}
    /\ MaxCalls \in Nat
    /\ Ops \subseteq AllOps
    /\ Args \in [1 .. MaxCalls -> [Procs -> [0 .. N - 1 -> Int]]]

Threads == 0 .. N - 1
LastIndex == N - 1
Epochs == {0, 1}
Total == N * Cardinality(Procs)       \* args->totalProcs*args->nThreads

VARIABLES
    average,    \* average[k]: the reduction of call k, the same for all callers
    epoch, counter, pc, calls,        \* as in ThreadBarrier
    accumulator,                      \* accumulator[p][e]
    value,                            \* value[p][t]: the caller's *value
    mpi                               \* mpi[p]: what p gave to each MPI_Allreduce

vars == <<average, epoch, counter, pc, calls, accumulator, value, mpi>>

\* "read": out of the critical section, about to read the accumulator.
Places == {"out", "sleep", "woken", "mpi", "read"}

TypeOK ==
    /\ average \in [1 .. MaxCalls -> Ops]
    /\ epoch \in [Procs -> [Threads -> Epochs]]
    /\ counter \in [Procs -> [Epochs -> 0 .. N]]
    /\ pc \in [Procs -> [Threads -> Places]]
    /\ calls \in [Procs -> [Threads -> 0 .. MaxCalls]]
    /\ accumulator \in [Procs -> [Epochs -> Int]]
    /\ value \in [Procs -> [Threads -> Int]]
    /\ mpi \in [Procs -> Seq(Int)]

Init ==
    /\ average \in [1 .. MaxCalls -> Ops]
    /\ epoch = [p \in Procs |-> [t \in Threads |-> 0]]
    /\ counter = [p \in Procs |-> [e \in Epochs |-> 0]]
    /\ pc = [p \in Procs |-> [t \in Threads |-> "out"]]
    /\ calls = [p \in Procs |-> [t \in Threads |-> 0]]
    /\ accumulator = [p \in Procs |-> [e \in Epochs |-> 0]]
    /\ value = [p \in Procs |-> [t \in Threads |-> 0]]
    /\ mpi = [p \in Procs |-> <<>>]

-----------------------------------------------------------------------------
LockFree(p, e) == ~(pc[p][LastIndex] = "mpi" /\ epoch[p][LastIndex] = e)

\* cond[e].notify_all()
NotifyNobody(p, e) == pc[p]
NotifyAll(p, e) ==
    [t \in Threads |-> IF pc[p][t] = "sleep" /\ epoch[p][t] = e
                         THEN "woken" ELSE pc[p][t]]

\* The wait predicate of the threads that do not lead (370).
Opened(n) == n = 0

\* MPI_Allreduce number i may return once every process has begun it.
MpiReturnsAtOnce(i) == TRUE
MpiMayReturn(i) == \A q \in Procs : Len(mpi[q]) >= i

SameEpoch(e) == e
OtherEpoch(e) == 1 - e

LesserOf(a, b) == IF a <= b THEN a ELSE b
GreaterOf(a, b) == IF a >= b THEN a ELSE b

\* The accumulator after thread t brings v; n threads came before (332-342).
AlwaysCombine(op, t, n, acc, v) ==
    CASE op = "r0" -> IF t = 0 THEN v ELSE acc
      [] op \in {"avg", "sum"} -> acc + v
      [] op = "min" -> LesserOf(acc, v)
      [] op = "max" -> GreaterOf(acc, v)
Combine(op, t, n, acc, v) ==
    CASE op = "r0" -> IF t = 0 THEN v ELSE acc
      [] op # "r0" /\ n = 0 -> v
      [] op \in {"avg", "sum"} /\ n # 0 -> acc + v
      [] op = "min" /\ n # 0 -> LesserOf(acc, v)
      [] op = "max" /\ n # 0 -> GreaterOf(acc, v)

\* MPI_Allreduce over the contributions w[q] of the processes (357-361).
MpiReduce(op, w) ==
    CASE op \in {"avg", "sum"} -> SumFunction(w)
      [] op = "min" -> Min({w[q] : q \in DOMAIN w})
      [] op = "max" -> Max({w[q] : q \in DOMAIN w})

Contributed(i) == {q \in Procs : Len(mpi[q]) >= i}

\* Line 365: the sum becomes a mean over all threads of all processes.  The
\* arguments are chosen so that the division is exact, as it is for doubles.
DivideByThreads(op, v) == IF op = "avg" THEN v \div N ELSE v
Divide(op, v) == IF op = "avg" THEN v \div Total ELSE v

\* Lines 331-349 and 370-371: lock, combine, count, wait.  A last thread that
\* completes the house does not wait; it goes on like a woken one, and nobody
\* else can use its copy in between.
Enter(p, t) ==
    LET e    == epoch[p][t]
        k    == calls[p][t] + 1
        v    == Args[k][p][t]
        full == counter[p][e] + 1 = N
    IN  /\ pc[p][t] = "out"
        /\ calls[p][t] < MaxCalls
        /\ LockFree(p, e)
        /\ calls' = [calls EXCEPT ![p][t] = k]
        /\ value' = [value EXCEPT ![p][t] = v]
        /\ accumulator' = [accumulator EXCEPT ![p][e] =
                              Combine(average[k], t, counter[p][e], @, v)]
        /\ counter' = [counter EXCEPT ![p][e] = @ + 1]
        /\ pc' = [pc EXCEPT ![p] =
                    [(IF full THEN NotifyAll(p, e) ELSE pc[p])
                       EXCEPT ![t] = IF t = LastIndex /\ full THEN "woken" ELSE "sleep"]]
        /\ UNCHANGED <<average, epoch, mpi>>

\* A woken thread whose predicate does not hold waits again.
SleepAgain(p, t) ==
    LET n == counter[p][epoch[p][t]]
    IN  /\ pc[p][t] = "woken"
        /\ LockFree(p, epoch[p][t])
        /\ IF t = LastIndex THEN n # N ELSE ~Opened(n)
        /\ pc' = [pc EXCEPT ![p][t] = "sleep"]
        /\ UNCHANGED <<average, epoch, counter, calls, accumulator, value, mpi>>

\* Lines 347-361: the last thread sees everyone arrived and, except for
\* average = 0, hands the process' partial result to MPI_Allreduce.
EnterMpi(p) ==
    LET e == epoch[p][LastIndex]
    IN  /\ pc[p][LastIndex] = "woken"
        /\ counter[p][e] = N
        /\ average[calls[p][LastIndex]] # "r0"
        /\ mpi' = [mpi EXCEPT ![p] = Append(@, accumulator[p][e])]
        /\ pc' = [pc EXCEPT ![p][LastIndex] = "mpi"]
        /\ UNCHANGED <<average, epoch, counter, calls, accumulator, value>>

\* Lines 365-367 and 373: store the result, reset, wake everyone, unlock.
Publish(p, result) ==
    LET e == epoch[p][LastIndex]
    IN  /\ accumulator' = [accumulator EXCEPT ![p][e] =
                              Divide(average[calls[p][LastIndex]], result)]
        /\ counter' = [counter EXCEPT ![p][e] = 0]
        /\ pc' = [pc EXCEPT ![p] = [NotifyAll(p, e) EXCEPT ![LastIndex] = "read"]]
        /\ UNCHANGED <<average, epoch, calls, value, mpi>>

LeaveMpi(p) ==
    LET i == Len(mpi[p])
    IN  /\ pc[p][LastIndex] = "mpi"
        /\ MpiMayReturn(i)
        /\ Publish(p, MpiReduce(average[calls[p][LastIndex]],
                                [q \in Contributed(i) |-> mpi[q][i]]))

PublishLocal(p) ==
    /\ pc[p][LastIndex] = "woken"
    /\ counter[p][epoch[p][LastIndex]] = N
    /\ average[calls[p][LastIndex]] = "r0"
    /\ Publish(p, accumulator[p][epoch[p][LastIndex]])

\* Lines 369-373: another thread sees the reset and gives the mutex up.
Unlock(p, t) ==
    /\ t # LastIndex
    /\ pc[p][t] = "woken"
    /\ LockFree(p, epoch[p][t])
    /\ Opened(counter[p][epoch[p][t]])
    /\ pc' = [pc EXCEPT ![p][t] = "read"]
    /\ UNCHANGED <<average, epoch, counter, calls, accumulator, value, mpi>>

\* Lines 375-376: the unlocked read, then epoch ^= 1.
Read(p, t) ==
    /\ pc[p][t] = "read"
    /\ value' = [value EXCEPT ![p][t] = accumulator[p][epoch[p][t]]]
    /\ epoch' = [epoch EXCEPT ![p][t] = OtherEpoch(@)]
    /\ pc' = [pc EXCEPT ![p][t] = "out"]
    /\ UNCHANGED <<average, counter, calls, accumulator, mpi>>

SpuriousWakeup(p, t) ==
    /\ pc[p][t] = "sleep"
    /\ pc' = [pc EXCEPT ![p][t] = "woken"]
    /\ UNCHANGED <<average, epoch, counter, calls, accumulator, value, mpi>>

AllDone == \A p \in Procs, t \in Threads : pc[p][t] = "out" /\ calls[p][t] = MaxCalls
Done == AllDone /\ UNCHANGED vars

Step(p, t) == Enter(p, t) \/ SleepAgain(p, t) \/ Unlock(p, t) \/ Read(p, t)
Lead(p) == EnterMpi(p) \/ LeaveMpi(p) \/ PublishLocal(p)

Next ==
    \/ \E p \in Procs, t \in Threads : Step(p, t) \/ SpuriousWakeup(p, t)
    \/ \E p \in Procs : Lead(p)
    \/ Done

Spec == Init /\ [][Next]_vars

Fairness ==
    /\ \A p \in Procs, t \in Threads : WF_vars(Step(p, t))
    /\ \A p \in Procs : WF_vars(Lead(p))

FairSpec == Spec /\ Fairness

-----------------------------------------------------------------------------
(* Properties.                                                             *)

\* What call k of any thread of process p has to return.
Everyone == Procs \X Threads
Contribution(k) == [m \in Everyone |-> Args[k][m[1]][m[2]]]
Reduction(k, p) ==
    LET c   == Contribution(k)
        sum == SumFunction(c)
    IN  CASE average[k] = "r0"  -> Args[k][p][0]
          [] average[k] = "avg" -> sum \div Total
          [] average[k] = "sum" -> sum
          [] average[k] = "min" -> Min({c[m] : m \in Everyone})
          [] average[k] = "max" -> Max({c[m] : m \in Everyone})

\* Everybody takes the right result home: whatever the interleaving, a call
\* returns the reduction of exactly the values of its own round, although the
\* accumulator is read after the mutex has been given up (line 375).
ResultIsReduction ==
    \A p \in Procs, t \in Threads :
        pc[p][t] = "out" /\ calls[p][t] > 0
            => value[p][t] = Reduction(calls[p][t], p)

\* No data race on the accumulator: while one thread is about to read a copy
\* without the mutex no other thread is about to write that copy, be it the
\* first arrival of a later round (332-342) or the last thread (361-365).
NoRaceOnAccumulator ==
    \A p \in Procs : \A t, u \in Threads :
        pc[p][t] = "read" /\ t # u /\ epoch[p][u] = epoch[p][t]
            => ~(pc[p][u] = "out" /\ calls[p][u] < MaxCalls) /\ pc[p][u] # "mpi"

Returned(p, t) == IF pc[p][t] = "out" THEN calls[p][t] ELSE calls[p][t] - 1

\* Allreduce is a barrier of the threads of a process for every operation,
\* average = 0 included, which has no barrier between the processes (352).
ThreadsMeet ==
    \A p \in Procs : \A t, u \in Threads : Returned(p, t) <= calls[p][u]

\* The abstract barrier, counting the calls whose average is not 0: those go
\* through MPI.  It is what BenchRun uses in the place of Allreduce.
Meetings(n) == Cardinality({k \in 1 .. n : average[k] # "r0"})
Abstract == INSTANCE RoundBarrier
       WITH Members <- Everyone,
            entered <- [m \in Everyone |-> Meetings(calls[m[1]][m[2]])],
            left <- [m \in Everyone |-> Meetings(Returned(m[1], m[2]))]

\* Calls whose average is not 0 meet like the calls of one reusable barrier of
\* all threads of all processes, whatever calls with average 0, which take
\* turns with them on the two copies of the state, come in between.
ImplementsBarrier == Abstract!Spec

\* Every call returns.
EveryCallReturns ==
    \A p \in Procs, t \in Threads : pc[p][t] # "out" ~> pc[p][t] = "out"
=============================================================================
