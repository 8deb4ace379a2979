---------------------------- MODULE ThreadBarrier ----------------------------
(***************************************************************************)
(* Barrier() of src/common.cu (lines 293-318): the two-level barrier that  *)
(* every phase of a benchmark is separated by.  The nThreads threads of a  *)
(* process meet at a counter protected by a mutex and a condition          *)
(* variable; the thread with the last index then enters MPI_Barrier on     *)
(* behalf of its process, still holding the mutex, resets the counter and  *)
(* wakes the others.  Mutex, condition variable and counter exist twice    *)
(* and every thread alternates between the two copies with a thread_local  *)
(* epoch.                                                                  *)
(*                                                                         *)
(* Grain: a critical section of the mutex is one step, and a step ends     *)
(* wherever the code gives the mutex up or blocks inside MPI.              *)
(***************************************************************************)
EXTENDS Naturals, FiniteSets

CONSTANTS Procs,      \* the MPI processes
          N,          \* args->nThreads, the same on every process
          MaxCalls    \* bound: calls of Barrier() each thread makes

ASSUME ProcsAssumption == IsFiniteSet(Procs)
ASSUME NAssumption == N \in Nat \ {0}
ASSUME MaxCallsAssumption == MaxCalls \in Nat

Threads == 0 .. N - 1
Last == N - 1                    \* args->thread+1 == args->nThreads
Epochs == {0, 1}

VARIABLES
    epoch,      \* epoch[p][t], the thread_local index of the copy to use next
    counter,    \* counter[p][e], threads that arrived at copy e
    pc,         \* pc[p][t], where the thread is (see Places)
    mpiCalls,   \* mpiCalls[p], MPI_Barrier calls the process has begun
    calls       \* calls[p][t], history: Barrier() calls the thread has begun

vars == <<epoch, counter, pc, mpiCalls, calls>>

\* "out"   not in Barrier()      "sleep" blocked in cond[epoch].wait()
\* "woken" notified, wants the mutex back    "mpi" inside MPI_Barrier
Places == {"out", "sleep", "woken", "mpi"}

TypeOK ==
    /\ epoch \in [Procs -> [Threads -> Epochs]]
    /\ counter \in [Procs -> [Epochs -> 0 .. N]]
    /\ pc \in [Procs -> [Threads -> Places]]
    /\ mpiCalls \in [Procs -> 0 .. MaxCalls]
    /\ calls \in [Procs -> [Threads -> 0 .. MaxCalls]]

Init ==
    /\ epoch = [p \in Procs |-> [t \in Threads |-> 0]]
    /\ counter = [p \in Procs |-> [e \in Epochs |-> 0]]
    /\ pc = [p \in Procs |-> [t \in Threads |-> "out"]]
    /\ mpiCalls = [p \in Procs |-> 0]
    /\ calls = [p \in Procs |-> [t \in Threads |-> 0]]

-----------------------------------------------------------------------------
\* The mutex of copy e outlives a step only while the last thread is in MPI.
LockFree(p, e) == ~(pc[p][Last] = "mpi" /\ epoch[p][Last] = e)

\* cond[e].notify_all(): the places of p's threads once the waiters are woken.
NotifyNobody(p, e) == pc[p]
NotifyAll(p, e) ==
    [t \in Threads |-> IF pc[p][t] = "sleep" /\ epoch[p][t] = e
                         THEN "woken" ELSE pc[p][t]]

\* Whether n arrivals are all of them (301 and the wait predicate of 304).
AlmostFull(n) == n + 1 >= N
Full(n) == n = N

\* epoch ^= 1 (317)
SameEpoch(e) == e
OtherEpoch(e) == 1 - e

\* Lines 299-301 and the first test of 303/312: lock, count, wake the waiters
\* if all have arrived, then wait or, for the last thread, go on into MPI.
Enter(p, t) ==
    LET e    == epoch[p][t]
        full == Full(counter[p][e] + 1)
    IN  /\ pc[p][t] = "out"
        /\ calls[p][t] < MaxCalls
        /\ LockFree(p, e)
        /\ calls' = [calls EXCEPT ![p][t] = @ + 1]
        /\ counter' = [counter EXCEPT ![p][e] = @ + 1]
        /\ pc' = [pc EXCEPT ![p] =
                    [(IF full THEN NotifyAll(p, e) ELSE pc[p])
                       EXCEPT ![t] = IF t = Last /\ full THEN "mpi" ELSE "sleep"]]
        /\ mpiCalls' = IF t = Last /\ full
                         THEN [mpiCalls EXCEPT ![p] = @ + 1] ELSE mpiCalls
        /\ UNCHANGED epoch

\* A woken thread has the mutex again but its predicate does not hold.
SleepAgain(p, t) ==
    LET n == counter[p][epoch[p][t]]
    IN  /\ pc[p][t] = "woken"
        /\ LockFree(p, epoch[p][t])
        /\ IF t = Last THEN ~Full(n) ELSE n # 0
        /\ pc' = [pc EXCEPT ![p][t] = "sleep"]
        /\ UNCHANGED <<epoch, counter, mpiCalls, calls>>

\* Lines 304-307: the last thread sees a full counter and enters MPI_Barrier.
EnterMpi(p) ==
    /\ pc[p][Last] = "woken"
    /\ Full(counter[p][epoch[p][Last]])
    /\ pc' = [pc EXCEPT ![p][Last] = "mpi"]
    /\ mpiCalls' = [mpiCalls EXCEPT ![p] = @ + 1]
    /\ UNCHANGED <<epoch, counter, calls>>

\* MPI_Barrier may return from a process' k-th call once every process has
\* made its k-th call.
MpiReturnsAtOnce(p) == TRUE
MpiMayReturn(p) == \A q \in Procs : mpiCalls[q] >= mpiCalls[p]

\* Lines 307-310 and 316-317: back from MPI, the last thread opens the barrier.
Open(p) ==
    LET e == epoch[p][Last]
    IN  /\ pc[p][Last] = "mpi"
        /\ MpiMayReturn(p)
        /\ counter' = [counter EXCEPT ![p][e] = 0]
        /\ pc' = [pc EXCEPT ![p] = [NotifyAll(p, e) EXCEPT ![Last] = "out"]]
        /\ epoch' = [epoch EXCEPT ![p][Last] = OtherEpoch(@)]
        /\ UNCHANGED <<mpiCalls, calls>>

\* Lines 312-317: another thread sees the counter reset and returns.
Return(p, t) ==
    /\ t # Last
    /\ pc[p][t] = "woken"
    /\ LockFree(p, epoch[p][t])
    /\ counter[p][epoch[p][t]] = 0
    /\ pc' = [pc EXCEPT ![p][t] = "out"]
    /\ epoch' = [epoch EXCEPT ![p][t] = OtherEpoch(@)]
    /\ UNCHANGED <<counter, mpiCalls, calls>>

\* condition_variable::wait may return without a notification.
SpuriousWakeup(p, t) ==
    /\ pc[p][t] = "sleep"
    /\ pc' = [pc EXCEPT ![p][t] = "woken"]
    /\ UNCHANGED <<epoch, counter, mpiCalls, calls>>

\* Every thread has made its calls and left: the only place to stop.
AllDone == \A p \in Procs, t \in Threads : pc[p][t] = "out" /\ calls[p][t] = MaxCalls
Done == AllDone /\ UNCHANGED vars

Step(p, t) == Enter(p, t) \/ SleepAgain(p, t) \/ Return(p, t)

Next ==
    \/ \E p \in Procs, t \in Threads : Step(p, t) \/ SpuriousWakeup(p, t)
    \/ \E p \in Procs : EnterMpi(p) \/ Open(p)
    \/ Done

Spec == Init /\ [][Next]_vars

\* The scheduler runs every runnable thread; nobody has to wake spuriously.
Fairness ==
    /\ \A p \in Procs, t \in Threads : WF_vars(Step(p, t))
    /\ \A p \in Procs : WF_vars(EnterMpi(p)) /\ WF_vars(Open(p))

FairSpec == Spec /\ Fairness

-----------------------------------------------------------------------------
(* Properties.                                                             *)

\* Calls of Barrier() that have returned to thread t of process p.
left == [p \in Procs |-> [t \in Threads |->
            IF pc[p][t] = "out" THEN calls[p][t] ELSE calls[p][t] - 1]]

\* No call returns early: when some thread's k-th Barrier() has returned, every
\* thread of every process has made its k-th call (lines 300-313).
NoEarlyReturn ==
    \A p, q \in Procs : \A t, u \in Threads : left[p][t] <= calls[q][u]

\* No lost wake-up: a thread asleep on a condition variable is waiting for
\* something that has not happened yet (the notify_all of 301 and 310 reach
\* everyone whose predicate they make true, whichever epoch stragglers are in).
NoLostWakeup ==
    \A p \in Procs, t \in Threads :
        pc[p][t] = "sleep" =>
            LET n == counter[p][epoch[p][t]]
            IN  IF t = Last THEN n # N ELSE n # 0

\* A straggler cannot be caught by the next round: whoever still has to wake
\* from a round that was opened finds its own copy of the counter untouched,
\* because the threads that ran ahead count in the other copy.
StragglersCanLeave ==
    \A p \in Procs, t \in Threads :
        pc[p][t] # "out" /\ calls[p][t] <= left[p][Last]
            => counter[p][epoch[p][t]] = 0

\* Threads of p that have arrived in the round its last thread is to open next.
Arrived(p) == {t \in Threads : calls[p][t] > left[p][Last]}

\* The barrier in one picture, and the invariant its proof rests on.  Rounds
\* opened are counted by left[p][Last].  Within a process every thread is at
\* most one round off, the copy in use counts exactly the arrivals of the
\* current round and the other copy is clear; across processes, MPI lets no
\* process open a round that another has not reached.
InStep ==
    \A p \in Procs, t \in Threads :
        /\ left[p][t] \in Nat
        /\ left[p][t] <= left[p][Last] /\ left[p][Last] <= calls[p][t]
        /\ epoch[p][t] = IF left[p][t] = left[p][Last] THEN epoch[p][Last]
                                                     ELSE 1 - epoch[p][Last]
CountsArrivals ==
    \A p \in Procs :
        /\ counter[p][epoch[p][Last]] = Cardinality(Arrived(p))
        /\ counter[p][1 - epoch[p][Last]] = 0
MpiInStep ==
    \A p \in Procs :
        /\ \A t \in Threads :
              pc[p][t] = "mpi" => t = Last /\ counter[p][epoch[p][t]] = N
        /\ mpiCalls[p] = left[p][Last] + IF pc[p][Last] = "mpi" THEN 1 ELSE 0
        /\ \A q \in Procs : left[p][Last] <= mpiCalls[q]
RoundInv == InStep /\ CountsArrivals /\ MpiInStep /\ NoLostWakeup

\* The inductive invariant: the types of the state and the above.
IInv == TypeOK /\ RoundInv

\* Every call returns: with all threads making the same calls nobody is left
\* behind in wait() or in MPI_Barrier.
EveryCallReturns ==
    \A p \in Procs, t \in Threads : pc[p][t] # "out" ~> pc[p][t] = "out"

\* The routine implements the abstract barrier over all threads of all processes.
Members == Procs \X Threads
Abstract == INSTANCE RoundBarrier WITH
    Members <- Members,
    entered <- [m \in Members |-> calls[m[1]][m[2]]],
    left    <- [m \in Members |-> left[m[1]][m[2]]]
ImplementsBarrier == Abstract!Spec
=============================================================================
