------------------------- MODULE ThreadBarrierProofs -------------------------
(***************************************************************************)
(* Machine-checked proofs about Barrier() for every number of processes,   *)
(* threads and calls.  The inductive invariant is IInv: one lemma per      *)
(* action, under it one step per conjunct.                                 *)
(***************************************************************************)
EXTENDS ThreadBarrier, FiniteSetTheorems, TLAPS

-----------------------------------------------------------------------------
(* Facts about the threads of a process and about left.                    *)

\* The threads of a process are N in number, 0 and Last among them.
LEMMA ThreadsFacts ==
    /\ IsFiniteSet(Threads)
    /\ Cardinality(Threads) = N
    /\ Last \in Threads
    /\ N \in Nat \ {0}
    /\ Last \in Nat
    /\ Last + 1 = N
<1>1. N \in Nat \ {0}
  BY NAssumption
<1>2. /\ IsFiniteSet(0 .. N - 1)
      /\ Cardinality(0 .. N - 1) = IF 0 > N - 1 THEN 0 ELSE (N - 1) - 0 + 1
  BY <1>1, FS_Interval
<1> QED
  BY <1>1, <1>2 DEF Threads, Last

\* A set of arrivals is finite and no larger than N; it has N members only
\* when everyone has arrived.
LEMMA ArrivedFacts ==
    ASSUME NEW p \in Procs
    PROVE  /\ IsFiniteSet(Arrived(p))
           /\ Cardinality(Arrived(p)) \in 0 .. N
           /\ Cardinality(Arrived(p)) = N => Arrived(p) = Threads
<1>1. Arrived(p) \subseteq Threads
  BY DEF Arrived
<1>2. /\ IsFiniteSet(Arrived(p))
      /\ Cardinality(Arrived(p)) <= Cardinality(Threads)
      /\ Cardinality(Arrived(p)) = Cardinality(Threads) => Arrived(p) = Threads
  BY <1>1, ThreadsFacts, FS_Subset
<1>3. Cardinality(Arrived(p)) \in Nat
  BY <1>2, FS_CardinalityType
<1> QED
  BY <1>2, <1>3, ThreadsFacts

\* left is what calls says, one less while the thread is inside Barrier().
LEMMA LeftIs ==
    ASSUME NEW p \in Procs, NEW t \in Threads
    PROVE  left[p][t] = IF pc[p][t] = "out" THEN calls[p][t] ELSE calls[p][t] - 1
  BY DEF left

LEMMA LeftIsNext ==
    ASSUME NEW p \in Procs, NEW t \in Threads
    PROVE  left'[p][t] = IF pc'[p][t] = "out" THEN calls'[p][t] ELSE calls'[p][t] - 1
  BY DEF left

\* The counts of a state of the invariant are natural numbers.
LEMMA NatFacts ==
    ASSUME IInv, NEW p \in Procs, NEW t \in Threads
    PROVE  /\ calls[p][t] \in Nat /\ calls[p][t] <= MaxCalls
           /\ left[p][t] \in Nat /\ left[p][Last] \in Nat
           /\ left[p][t] <= left[p][Last] /\ left[p][Last] <= calls[p][t]
           /\ mpiCalls[p] \in Nat
           /\ epoch[p][t] \in {0, 1} /\ epoch[p][Last] \in {0, 1}
           /\ counter[p][0] \in 0 .. N /\ counter[p][1] \in 0 .. N
<1>1. /\ calls[p][t] \in 0 .. MaxCalls
      /\ mpiCalls[p] \in 0 .. MaxCalls
      /\ epoch[p][t] \in {0, 1} /\ epoch[p][Last] \in {0, 1}
      /\ counter[p][0] \in 0 .. N /\ counter[p][1] \in 0 .. N
  BY ThreadsFacts DEF IInv, TypeOK, Epochs
<1>2. /\ left[p][t] \in Nat /\ left[p][Last] \in Nat
      /\ left[p][t] <= left[p][Last] /\ left[p][Last] <= calls[p][t]
  BY ThreadsFacts DEF IInv, RoundInv, InStep
<1> QED
  BY <1>1, <1>2, MaxCallsAssumption

\* The thread that runs ahead: before Enter, a thread outside Barrier() is in
\* step with the last one, so it counts in the copy in use, not yet full.
LEMMA OutsideIsCurrent ==
    ASSUME IInv, NEW p \in Procs, NEW t \in Threads, pc[p][t] = "out"
    PROVE  /\ calls[p][t] = left[p][t]
           /\ left[p][t] = left[p][Last]
           /\ epoch[p][t] = epoch[p][Last]
           /\ t \notin Arrived(p)
           /\ counter[p][epoch[p][t]] \in 0 .. N - 1
<1>1. calls[p][t] = left[p][t]
  BY LeftIs
<1>2. left[p][t] = left[p][Last]
  BY <1>1, NatFacts
<1>3. epoch[p][t] = epoch[p][Last]
  BY <1>2 DEF IInv, RoundInv, InStep
<1>4. t \notin Arrived(p)
  BY <1>1, <1>2, NatFacts DEF Arrived
<1>5. Cardinality(Arrived(p)) \in 0 .. N - 1
  BY <1>4, ArrivedFacts, ThreadsFacts
<1> QED
  BY <1>1, <1>2, <1>3, <1>4, <1>5 DEF IInv, RoundInv, CountsArrivals

\* Once the copy in use is full, every thread of the process is in its round.
LEMMA FullMeansAllArrived ==
    ASSUME IInv, NEW p \in Procs, counter[p][epoch[p][Last]] = N
    PROVE  \A t \in Threads : /\ pc[p][t] # "out"
                              /\ left[p][t] = left[p][Last]
                              /\ calls[p][t] = left[p][Last] + 1
                              /\ epoch[p][t] = epoch[p][Last]
<1> SUFFICES ASSUME NEW t \in Threads
             PROVE  /\ pc[p][t] # "out"
                    /\ left[p][t] = left[p][Last]
                    /\ calls[p][t] = left[p][Last] + 1
                    /\ epoch[p][t] = epoch[p][Last]
  OBVIOUS
<1>1. Arrived(p) = Threads
  BY ArrivedFacts DEF IInv, RoundInv, CountsArrivals
<1>2. calls[p][t] > left[p][Last]
  BY <1>1 DEF Arrived
<1>3. /\ left[p][t] \in Nat /\ left[p][Last] \in Nat /\ calls[p][t] \in Nat
      /\ left[p][t] <= left[p][Last]
  BY NatFacts
<1>4. left[p][t] = IF pc[p][t] = "out" THEN calls[p][t] ELSE calls[p][t] - 1
  BY LeftIs
<1>5. pc[p][t] # "out" /\ left[p][t] = left[p][Last] /\ calls[p][t] = left[p][Last] + 1
  BY <1>2, <1>3, <1>4
<1> QED
  BY <1>5 DEF IInv, RoundInv, InStep

-----------------------------------------------------------------------------
(* RoundInv holds initially.                                               *)

LEMMA InitInv == Init => IInv
<1> SUFFICES ASSUME Init PROVE IInv
  OBVIOUS
<1>1. TypeOK
  BY MaxCallsAssumption, ThreadsFacts DEF Init, TypeOK, Epochs, Places
<1>2. \A p \in Procs, t \in Threads : left[p][t] = 0
  BY LeftIs DEF Init
<1>3. InStep
  BY <1>2, ThreadsFacts DEF Init, InStep
<1>4. \A p \in Procs : Arrived(p) = {}
  BY <1>2, ThreadsFacts DEF Init, Arrived
<1>5. CountsArrivals
  <2> SUFFICES ASSUME NEW p \in Procs
               PROVE  /\ counter[p][epoch[p][Last]] = Cardinality(Arrived(p))
                      /\ counter[p][1 - epoch[p][Last]] = 0
    BY DEF CountsArrivals
  <2>1. Cardinality(Arrived(p)) = 0
    BY <1>4, FS_EmptySet
  <2>2. epoch[p][Last] = 0 /\ counter[p][0] = 0 /\ counter[p][1] = 0
    BY ThreadsFacts DEF Init, Epochs
  <2> QED
    BY <2>1, <2>2
<1>6. MpiInStep
  BY <1>2, ThreadsFacts DEF Init, MpiInStep
<1>7. NoLostWakeup
  BY DEF Init, NoLostWakeup
<1> QED
  BY <1>1, <1>3, <1>5, <1>6, <1>7 DEF IInv, RoundInv

-----------------------------------------------------------------------------
(* Each action preserves it.                                               *)

LEMMA EnterInv ==
    ASSUME IInv, NEW p \in Procs, NEW t \in Threads, Enter(p, t)
    PROVE  IInv'
<1> DEFINE e == epoch[p][t]
<1> DEFINE full == counter[p][e] + 1 = N
<1>0. /\ pc[p][t] = "out"
      /\ calls[p][t] < MaxCalls
      /\ calls' = [calls EXCEPT ![p][t] = @ + 1]
      /\ counter' = [counter EXCEPT ![p][e] = @ + 1]
      /\ pc' = [pc EXCEPT ![p] = [(IF full THEN NotifyAll(p, e) ELSE pc[p])
                       EXCEPT ![t] = IF t = Last /\ full THEN "mpi" ELSE "sleep"]]
      /\ mpiCalls' = IF t = Last /\ full
                       THEN [mpiCalls EXCEPT ![p] = @ + 1] ELSE mpiCalls
      /\ epoch' = epoch
  BY DEF Enter, Full
<1>t. TypeOK
  BY DEF IInv
<1>1. /\ calls[p][t] = left[p][t]
      /\ left[p][t] = left[p][Last]
      /\ e = epoch[p][Last]
      /\ t \notin Arrived(p)
      /\ counter[p][e] \in 0 .. N - 1
      /\ e \in Epochs
  BY <1>0, <1>t, OutsideIsCurrent DEF TypeOK
<1>2. \A u \in Threads : u # t =>
         pc'[p][u] = IF full /\ pc[p][u] = "sleep" /\ epoch[p][u] = e
                       THEN "woken" ELSE pc[p][u]
  BY <1>0, <1>t DEF TypeOK, NotifyAll
<1>3. pc'[p][t] = IF t = Last /\ full THEN "mpi" ELSE "sleep"
  BY <1>0, <1>t DEF TypeOK, NotifyAll
<1>4. \A q \in Procs : q # p => pc'[q] = pc[q] /\ counter'[q] = counter[q]
                                /\ calls'[q] = calls[q]
  BY <1>0, <1>t DEF TypeOK
<1>5. /\ calls'[p][t] = calls[p][t] + 1
      /\ \A u \in Threads : u # t => calls'[p][u] = calls[p][u]
      /\ counter'[p][e] = counter[p][e] + 1
      /\ counter'[p][1 - e] = counter[p][1 - e]
  BY <1>0, <1>1, <1>t DEF TypeOK, Epochs
<1>6. \A q \in Procs, u \in Threads : left'[q][u] = left[q][u]
  <2> SUFFICES ASSUME NEW q \in Procs, NEW u \in Threads
               PROVE  left'[q][u] = left[q][u]
    OBVIOUS
  <2>1. CASE q = p /\ u = t
    <3>1. left[p][t] = calls[p][t] /\ calls[p][t] \in Nat
      BY <1>0, LeftIs, NatFacts
    <3>2. left'[p][t] = calls'[p][t] - 1
      BY <1>3, LeftIsNext
    <3> QED
      BY <2>1, <3>1, <3>2, <1>5
  <2>2. CASE q = p /\ u # t
    BY <2>2, <1>2, <1>5, LeftIs, LeftIsNext
  <2>3. CASE q # p
    BY <2>3, <1>4, LeftIs, LeftIsNext
  <2> QED
    BY <2>1, <2>2, <2>3
<1>7. Arrived(p)' = Arrived(p) \cup {t}
  <2>1. calls'[p][t] > left'[p][Last]
    BY <1>1, <1>5, <1>6, NatFacts, ThreadsFacts
  <2>2. \A u \in Threads : u # t =>
            (calls'[p][u] > left'[p][Last] <=> calls[p][u] > left[p][Last])
    BY <1>5, <1>6, ThreadsFacts
  <2> QED
    BY <2>1, <2>2 DEF Arrived
<1>8. \A q \in Procs : q # p => Arrived(q)' = Arrived(q)
  BY <1>4, <1>6, ThreadsFacts DEF Arrived
<1>9. InStep'
  <2> SUFFICES ASSUME NEW q \in Procs, NEW u \in Threads
               PROVE  /\ left'[q][u] \in Nat
                      /\ left'[q][u] <= left'[q][Last]
                      /\ left'[q][Last] <= calls'[q][u]
                      /\ epoch'[q][u] = IF left'[q][u] = left'[q][Last]
                                          THEN epoch'[q][Last] ELSE 1 - epoch'[q][Last]
    BY DEF InStep
  <2>1. calls[q][u] <= calls'[q][u] /\ calls[q][u] \in Nat /\ calls'[q][u] \in Nat
    BY <1>4, <1>5, NatFacts
  <2> QED
    BY <2>1, <1>0, <1>6, ThreadsFacts DEF IInv, RoundInv, InStep
<1>10. CountsArrivals'
  <2> SUFFICES ASSUME NEW q \in Procs
               PROVE  /\ counter'[q][epoch'[q][Last]] = Cardinality(Arrived(q)')
                      /\ counter'[q][1 - epoch'[q][Last]] = 0
    BY DEF CountsArrivals
  <2>1. CASE q = p
    <3>1. Cardinality(Arrived(p) \cup {t}) = Cardinality(Arrived(p)) + 1
      BY <1>1, ArrivedFacts, FS_AddElement
    <3> QED
      BY <2>1, <3>1, <1>0, <1>1, <1>5, <1>7 DEF IInv, RoundInv, CountsArrivals
  <2>2. CASE q # p
    BY <2>2, <1>0, <1>4, <1>8 DEF IInv, RoundInv, CountsArrivals
  <2> QED
    BY <2>1, <2>2
<1>11. pc[p][Last] # "mpi"
  BY <1>1, ThreadsFacts DEF IInv, RoundInv, MpiInStep
<1>12. mpiCalls[p] = left[p][Last]
  <2>1. mpiCalls[p] = left[p][Last] + 0
    BY <1>11 DEF IInv, RoundInv, MpiInStep
  <2> QED
    BY <2>1, NatFacts, ThreadsFacts
<1>13. \A q \in Procs : /\ mpiCalls'[q] = IF q = p /\ t = Last /\ full
                                            THEN mpiCalls[q] + 1 ELSE mpiCalls[q]
                        /\ mpiCalls[q] \in Nat
  BY <1>0, <1>t, MaxCallsAssumption DEF TypeOK
<1>14. MpiInStep'
  <2> SUFFICES ASSUME NEW q \in Procs
               PROVE  /\ \A u \in Threads : pc'[q][u] = "mpi" =>
                             u = Last /\ counter'[q][epoch'[q][u]] = N
                      /\ mpiCalls'[q] = left'[q][Last]
                                        + IF pc'[q][Last] = "mpi" THEN 1 ELSE 0
                      /\ \A r \in Procs : left'[q][Last] <= mpiCalls'[r]
    BY DEF MpiInStep
  <2>1. CASE q = p
    <3>1. \A u \in Threads : pc'[q][u] = "mpi" => u = t /\ t = Last /\ full
      BY <2>1, <1>2, <1>3, <1>11 DEF IInv, RoundInv, MpiInStep
    <3>2. pc'[q][Last] = "mpi" <=> t = Last /\ full
      BY <2>1, <3>1, <1>3, ThreadsFacts
    <3>3. mpiCalls[q] = left[q][Last]
      BY <2>1, <1>12
    <3>4. ASSUME NEW u \in Threads, pc'[q][u] = "mpi"
          PROVE  u = Last /\ counter'[q][epoch'[q][u]] = N
      BY <2>1, <3>1, <3>4, <1>0, <1>5
    <3>5. Last \in Threads /\ \A s \in Procs : left'[s][Last] = left[s][Last]
      BY <1>6, ThreadsFacts
    <3>6. mpiCalls'[q] = left'[q][Last] + IF pc'[q][Last] = "mpi" THEN 1 ELSE 0
      BY <2>1, <3>2, <3>3, <3>5, <1>13
    <3>7. \A s \in Procs : left'[q][Last] <= mpiCalls'[s]
      <4>1. \A s \in Procs : left[q][Last] <= mpiCalls[s]
        BY DEF IInv, RoundInv, MpiInStep
      <4>2. mpiCalls[q] \in Nat /\ \A s \in Procs : mpiCalls'[s] \in {mpiCalls[s], mpiCalls[s] + 1} /\ mpiCalls[s] \in Nat
        BY <1>13
      <4> QED
        BY <3>3, <3>5, <4>1, <4>2
    <3> QED
      BY <3>4, <3>6, <3>7
  <2>2. CASE q # p
    BY <2>2, <1>0, <1>4, <1>6, <1>13, ThreadsFacts
       DEF IInv, RoundInv, MpiInStep, InStep
  <2> QED
    BY <2>1, <2>2
<1>15. NoLostWakeup'
  <2> SUFFICES ASSUME NEW q \in Procs, NEW u \in Threads, pc'[q][u] = "sleep"
               PROVE  IF u = Last THEN counter'[q][epoch'[q][u]] # N
                                  ELSE counter'[q][epoch'[q][u]] # 0
    BY DEF NoLostWakeup
  <2>1. CASE q = p /\ u = t
    <3>1. counter'[q][epoch'[q][u]] = counter[p][e] + 1
      BY <2>1, <1>0, <1>5
    <3>2. ~(u = Last /\ full)
      BY <2>1, <1>3
    <3>3. counter[p][e] \in 0 .. N - 1
      BY <1>1
    <3> QED
      BY <3>1, <3>2, <3>3, ThreadsFacts
  <2>2. CASE q = p /\ u # t
    <3>1. pc[p][u] = "sleep" /\ ~(full /\ epoch[p][u] = e)
      BY <2>2, <1>2
    <3>2. CASE epoch[p][u] = e
      <4>1. counter'[q][epoch'[q][u]] = counter[p][e] + 1 /\ ~full
        BY <2>2, <3>1, <3>2, <1>0, <1>5
      <4>2. counter[p][e] \in 0 .. N - 1
        BY <1>1
      <4> QED
        BY <4>1, <4>2, ThreadsFacts
    <3>3. CASE epoch[p][u] = 1 - e
      <4>1. counter'[q][epoch'[q][u]] = counter[p][epoch[p][u]]
        BY <2>2, <3>3, <1>0, <1>5
      <4>2. IF u = Last THEN counter[p][epoch[p][u]] # N ELSE counter[p][epoch[p][u]] # 0
        BY <3>1 DEF NoLostWakeup, IInv, RoundInv
      <4> QED
        BY <4>1, <4>2
    <3> QED
      BY <3>2, <3>3, <1>1 DEF IInv, RoundInv, InStep
  <2>3. CASE q # p
    BY <2>3, <1>0, <1>4 DEF NoLostWakeup, IInv, RoundInv
  <2> QED
    BY <2>1, <2>2, <2>3
<1>16. TypeOK'
  <2>1. calls' \in [Procs -> [Threads -> 0 .. MaxCalls]]
    BY <1>0, <1>t, MaxCallsAssumption DEF TypeOK
  <2>2. counter' \in [Procs -> [Epochs -> 0 .. N]]
    BY <1>0, <1>1, <1>t, ThreadsFacts DEF TypeOK
  <2>3. pc' \in [Procs -> [Threads -> Places]]
    BY <1>0, <1>t DEF TypeOK, NotifyAll, Places
  <2>4. mpiCalls' \in [Procs -> 0 .. MaxCalls]
    <3>1. mpiCalls[p] + 1 \in 0 .. MaxCalls
      BY <1>12, <1>0, <1>1, <1>13, <1>t, MaxCallsAssumption DEF TypeOK
    <3> QED
      BY <3>1, <1>0, <1>t DEF TypeOK
  <2> QED
    BY <2>1, <2>2, <2>3, <2>4, <1>0, <1>t DEF TypeOK
<1> QED
  BY <1>9, <1>10, <1>14, <1>15, <1>16 DEF IInv, RoundInv

\* A thread inside Barrier() that moves between sleep and woken changes
\* nothing the counts depend on: SleepAgain and SpuriousWakeup.
LEMMA ShuffleInv ==
    ASSUME IInv, NEW p \in Procs, NEW t \in Threads,
           NEW w \in {"sleep", "woken"},
           pc[p][t] \in {"sleep", "woken"},
           w = "sleep" => IF t = Last THEN counter[p][epoch[p][t]] # N
                                      ELSE counter[p][epoch[p][t]] # 0,
           pc' = [pc EXCEPT ![p][t] = w],
           UNCHANGED <<epoch, counter, mpiCalls, calls>>
    PROVE  IInv'
<1>1. \A q \in Procs, u \in Threads :
         pc'[q][u] = IF q = p /\ u = t THEN w ELSE pc[q][u]
  BY DEF IInv, TypeOK
<1>2. \A q \in Procs, u \in Threads : left'[q][u] = left[q][u]
  BY <1>1, LeftIs, LeftIsNext
<1>3. \A q \in Procs : Arrived(q)' = Arrived(q)
  BY <1>2, ThreadsFacts DEF Arrived
<1>4. TypeOK'
  BY <1>1 DEF IInv, TypeOK, Places
<1>5. InStep'
  BY <1>2, ThreadsFacts DEF IInv, RoundInv, InStep
<1>6. CountsArrivals'
  BY <1>3 DEF IInv, RoundInv, CountsArrivals
<1>7. MpiInStep'
  BY <1>1, <1>2, ThreadsFacts DEF IInv, RoundInv, MpiInStep
<1>8. NoLostWakeup'
  BY <1>1 DEF IInv, RoundInv, NoLostWakeup
<1> QED
  BY <1>4, <1>5, <1>6, <1>7, <1>8 DEF IInv, RoundInv

LEMMA SleepAgainInv ==
    ASSUME IInv, NEW p \in Procs, NEW t \in Threads, SleepAgain(p, t)
    PROVE  IInv'
  BY ShuffleInv DEF SleepAgain, Full

LEMMA SpuriousWakeupInv ==
    ASSUME IInv, NEW p \in Procs, NEW t \in Threads, SpuriousWakeup(p, t)
    PROVE  IInv'
  BY ShuffleInv DEF SpuriousWakeup

\* The last thread, awake with a full counter, enters MPI_Barrier.
LEMMA EnterMpiInv ==
    ASSUME IInv, NEW p \in Procs, EnterMpi(p)
    PROVE  IInv'
<1>0. /\ pc[p][Last] = "woken"
      /\ counter[p][epoch[p][Last]] = N
      /\ pc' = [pc EXCEPT ![p][Last] = "mpi"]
      /\ mpiCalls' = [mpiCalls EXCEPT ![p] = @ + 1]
      /\ UNCHANGED <<epoch, counter, calls>>
  BY DEF EnterMpi, Full
<1>1. \A q \in Procs, u \in Threads :
         pc'[q][u] = IF q = p /\ u = Last THEN "mpi" ELSE pc[q][u]
  BY <1>0 DEF IInv, TypeOK
<1>2. \A q \in Procs, u \in Threads : left'[q][u] = left[q][u]
  BY <1>0, <1>1, LeftIs, LeftIsNext
<1>3. \A q \in Procs : Arrived(q)' = Arrived(q)
  BY <1>0, <1>2, ThreadsFacts DEF Arrived
<1>4. mpiCalls[p] = left[p][Last] /\ calls[p][Last] = left[p][Last] + 1
  BY <1>0, FullMeansAllArrived, ThreadsFacts, NatFacts DEF IInv, RoundInv, MpiInStep
<1>5. \A q \in Procs : mpiCalls'[q] = IF q = p THEN mpiCalls[p] + 1 ELSE mpiCalls[q]
  BY <1>0 DEF IInv, TypeOK
<1>6. TypeOK'
  <2>1. mpiCalls[p] + 1 \in 0 .. MaxCalls
    BY <1>4, NatFacts, ThreadsFacts, MaxCallsAssumption
  <2> QED
    BY <2>1, <1>0, ThreadsFacts DEF IInv, TypeOK, Places
<1>7. InStep'
  BY <1>0, <1>2, ThreadsFacts DEF IInv, RoundInv, InStep
<1>8. CountsArrivals'
  BY <1>0, <1>3 DEF IInv, RoundInv, CountsArrivals
<1>9. MpiInStep'
  <2> SUFFICES ASSUME NEW q \in Procs
               PROVE  /\ \A u \in Threads : pc'[q][u] = "mpi" =>
                             u = Last /\ counter'[q][epoch'[q][u]] = N
                      /\ mpiCalls'[q] = left'[q][Last]
                                        + IF pc'[q][Last] = "mpi" THEN 1 ELSE 0
                      /\ \A r \in Procs : left'[q][Last] <= mpiCalls'[r]
    BY DEF MpiInStep
  <2>1. \A u \in Threads : pc'[q][u] = "mpi" =>
             u = Last /\ counter'[q][epoch'[q][u]] = N
    BY <1>0, <1>1 DEF IInv, RoundInv, MpiInStep
  <2>2. mpiCalls'[q] = left'[q][Last] + IF pc'[q][Last] = "mpi" THEN 1 ELSE 0
    BY <1>0, <1>1, <1>2, <1>4, <1>5, ThreadsFacts DEF IInv, RoundInv, MpiInStep
  <2>3. \A r \in Procs : left'[q][Last] <= mpiCalls'[r]
    BY <1>2, <1>5, ThreadsFacts, NatFacts DEF IInv, RoundInv, MpiInStep
  <2> QED
    BY <2>1, <2>2, <2>3
<1>10. NoLostWakeup'
  BY <1>0, <1>1 DEF IInv, RoundInv, NoLostWakeup
<1> QED
  BY <1>6, <1>7, <1>8, <1>9, <1>10 DEF IInv, RoundInv

\* A thread that is not the last one leaves a round that has been opened.
LEMMA ReturnInv ==
    ASSUME IInv, NEW p \in Procs, NEW t \in Threads, Return(p, t)
    PROVE  IInv'
<1>0. /\ t # Last
      /\ pc[p][t] = "woken"
      /\ counter[p][epoch[p][t]] = 0
      /\ pc' = [pc EXCEPT ![p][t] = "out"]
      /\ epoch' = [epoch EXCEPT ![p][t] = 1 - @]
      /\ UNCHANGED <<counter, mpiCalls, calls>>
  BY DEF Return, OtherEpoch
<1>1. \A q \in Procs, u \in Threads :
         /\ pc'[q][u] = IF q = p /\ u = t THEN "out" ELSE pc[q][u]
         /\ epoch'[q][u] = IF q = p /\ u = t THEN 1 - epoch[p][t] ELSE epoch[q][u]
  BY <1>0 DEF IInv, TypeOK
<1>2. calls[p][t] = left[p][t] + 1
  BY <1>0, LeftIs, NatFacts
\* Had the round of t not been opened, t would be counted in its copy.
<1>3. left[p][t] # left[p][Last]
  <2> SUFFICES ASSUME left[p][t] = left[p][Last] PROVE FALSE
    OBVIOUS
  <2>1. epoch[p][t] = epoch[p][Last]
    BY DEF IInv, RoundInv, InStep
  <2>2. t \in Arrived(p)
    BY <1>2, NatFacts DEF Arrived
  <2>3. Cardinality(Arrived(p)) = 0
    BY <2>1, <1>0 DEF IInv, RoundInv, CountsArrivals
  <2> QED
    BY <2>2, <2>3, ArrivedFacts, FS_EmptySet
<1>4. /\ epoch[p][t] = 1 - epoch[p][Last]
      /\ left[p][Last] = left[p][t] + 1
  BY <1>2, <1>3, NatFacts DEF IInv, RoundInv, InStep
<1>5. \A q \in Procs, u \in Threads :
         left'[q][u] = IF q = p /\ u = t THEN left[p][t] + 1 ELSE left[q][u]
  BY <1>0, <1>1, <1>2, LeftIs, LeftIsNext
<1>6. \A q \in Procs : left'[q][Last] = left[q][Last] /\ epoch'[q][Last] = epoch[q][Last]
  BY <1>0, <1>1, <1>5, ThreadsFacts
<1>7. \A q \in Procs : Arrived(q)' = Arrived(q)
  BY <1>0, <1>6, ThreadsFacts DEF Arrived
<1>8. TypeOK'
  <2>1. 1 - epoch[p][t] \in Epochs
    BY NatFacts DEF Epochs
  <2>2. epoch' \in [Procs -> [Threads -> Epochs]]
    BY <2>1, <1>0 DEF IInv, TypeOK
  <2> QED
    BY <2>2, <1>0 DEF IInv, TypeOK, Places
<1>9. InStep'
  <2> SUFFICES ASSUME NEW q \in Procs, NEW u \in Threads
               PROVE  /\ left'[q][u] \in Nat
                      /\ left'[q][u] <= left'[q][Last]
                      /\ left'[q][Last] <= calls'[q][u]
                      /\ epoch'[q][u] = IF left'[q][u] = left'[q][Last]
                                          THEN epoch'[q][Last] ELSE 1 - epoch'[q][Last]
    BY DEF InStep
  <2>1. CASE q = p /\ u = t
    BY <2>1, <1>0, <1>1, <1>2, <1>4, <1>5, <1>6, NatFacts
  <2>2. CASE ~(q = p /\ u = t)
    BY <2>2, <1>0, <1>1, <1>5, <1>6 DEF IInv, RoundInv, InStep
  <2> QED
    BY <2>1, <2>2
<1>10. CountsArrivals'
  BY <1>0, <1>6, <1>7 DEF IInv, RoundInv, CountsArrivals
<1>11. MpiInStep'
  BY <1>0, <1>1, <1>6, ThreadsFacts DEF IInv, RoundInv, MpiInStep
<1>12. NoLostWakeup'
  BY <1>0, <1>1 DEF IInv, RoundInv, NoLostWakeup
<1> QED
  BY <1>8, <1>9, <1>10, <1>11, <1>12 DEF IInv, RoundInv

\* Back from MPI, the last thread opens the round for its process.
LEMMA OpenInv ==
    ASSUME IInv, NEW p \in Procs, Open(p)
    PROVE  IInv'
<1> DEFINE e == epoch[p][Last]
<1>0. /\ pc[p][Last] = "mpi"
      /\ \A q \in Procs : mpiCalls[q] >= mpiCalls[p]
      /\ counter' = [counter EXCEPT ![p][e] = 0]
      /\ pc' = [pc EXCEPT ![p] = [NotifyAll(p, e) EXCEPT ![Last] = "out"]]
      /\ epoch' = [epoch EXCEPT ![p][Last] = 1 - @]
      /\ UNCHANGED <<mpiCalls, calls>>
  BY DEF Open, OtherEpoch, MpiMayReturn
<1>1. /\ counter[p][e] = N
      /\ mpiCalls[p] = left[p][Last] + 1
  BY <1>0, ThreadsFacts DEF IInv, RoundInv, MpiInStep
<1>2. \A u \in Threads : /\ pc[p][u] # "out"
                         /\ left[p][u] = left[p][Last]
                         /\ calls[p][u] = left[p][Last] + 1
                         /\ epoch[p][u] = e
  BY <1>1, FullMeansAllArrived
<1>3. \A u \in Threads :
         pc'[p][u] = IF u = Last THEN "out"
                     ELSE IF pc[p][u] = "sleep" THEN "woken" ELSE pc[p][u]
  BY <1>0, <1>2, ThreadsFacts DEF NotifyAll, IInv, TypeOK
<1>4. /\ e \in {0, 1}
      /\ \A u \in Threads : epoch'[p][u] = IF u = Last THEN 1 - e ELSE e
      /\ counter'[p][e] = 0
      /\ counter'[p][1 - e] = counter[p][1 - e]
  BY <1>0, <1>2, ThreadsFacts, NatFacts DEF IInv, TypeOK, Epochs
<1>5. \A q \in Procs : q # p => /\ pc'[q] = pc[q]
                                /\ epoch'[q] = epoch[q]
                                /\ counter'[q] = counter[q]
  BY <1>0 DEF IInv, TypeOK
<1>6. \A u \in Threads : left'[p][u] = IF u = Last THEN left[p][Last] + 1 ELSE left[p][Last]
  BY <1>0, <1>2, <1>3, LeftIs, LeftIsNext
<1>7. \A q \in Procs, u \in Threads : q # p => left'[q][u] = left[q][u]
  BY <1>0, <1>5, LeftIs, LeftIsNext
<1>8. Arrived(p)' = {}
  BY <1>0, <1>2, <1>6, ThreadsFacts, NatFacts DEF Arrived
<1>9. \A q \in Procs : q # p => Arrived(q)' = Arrived(q)
  BY <1>0, <1>7, ThreadsFacts DEF Arrived
<1>10. TypeOK'
  <2>1. 1 - e \in Epochs
    BY <1>4 DEF Epochs
  <2>2. epoch' \in [Procs -> [Threads -> Epochs]]
    BY <2>1, <1>0 DEF IInv, TypeOK
  <2>3. counter' \in [Procs -> [Epochs -> 0 .. N]]
    BY <1>0, ThreadsFacts DEF IInv, TypeOK
  <2>4. pc' \in [Procs -> [Threads -> Places]]
    BY <1>0 DEF IInv, TypeOK, NotifyAll, Places
  <2> QED
    BY <2>2, <2>3, <2>4, <1>0 DEF IInv, TypeOK
<1>11. InStep'
  <2> SUFFICES ASSUME NEW q \in Procs, NEW u \in Threads
               PROVE  /\ left'[q][u] \in Nat
                      /\ left'[q][u] <= left'[q][Last]
                      /\ left'[q][Last] <= calls'[q][u]
                      /\ epoch'[q][u] = IF left'[q][u] = left'[q][Last]
                                          THEN epoch'[q][Last] ELSE 1 - epoch'[q][Last]
    BY DEF InStep
  <2>1. CASE q = p
    BY <2>1, <1>0, <1>2, <1>4, <1>6, NatFacts, ThreadsFacts
  <2>2. CASE q # p
    BY <2>2, <1>0, <1>5, <1>7, ThreadsFacts DEF IInv, RoundInv, InStep
  <2> QED
    BY <2>1, <2>2
<1>12. CountsArrivals'
  <2> SUFFICES ASSUME NEW q \in Procs
               PROVE  /\ counter'[q][epoch'[q][Last]] = Cardinality(Arrived(q)')
                      /\ counter'[q][1 - epoch'[q][Last]] = 0
    BY DEF CountsArrivals
  <2>1. CASE q = p
    <3>1. counter[p][1 - e] = 0
      BY DEF IInv, RoundInv, CountsArrivals
    <3>2. Cardinality(Arrived(p)') = 0
      BY <1>8, FS_EmptySet
    <3>3. epoch'[p][Last] = 1 - e /\ 1 - (1 - e) = e
      BY <1>4, ThreadsFacts
    <3> QED
      BY <2>1, <3>1, <3>2, <3>3, <1>4
  <2>2. CASE q # p
    BY <2>2, <1>5, <1>9 DEF IInv, RoundInv, CountsArrivals
  <2> QED
    BY <2>1, <2>2
<1>13. MpiInStep'
  <2> SUFFICES ASSUME NEW q \in Procs
               PROVE  /\ \A u \in Threads : pc'[q][u] = "mpi" =>
                             u = Last /\ counter'[q][epoch'[q][u]] = N
                      /\ mpiCalls'[q] = left'[q][Last]
                                        + IF pc'[q][Last] = "mpi" THEN 1 ELSE 0
                      /\ \A r \in Procs : left'[q][Last] <= mpiCalls'[r]
    BY DEF MpiInStep
  <2>1. CASE q = p
    <3>1. \A u \in Threads : pc'[p][u] # "mpi"
      BY <1>3 DEF IInv, RoundInv, MpiInStep
    <3>2. left'[p][Last] = mpiCalls[p] /\ mpiCalls[p] \in Nat
      BY <1>1, <1>6, ThreadsFacts, NatFacts
    <3>3. \A r \in Procs : mpiCalls[r] \in Nat
      BY NatFacts, ThreadsFacts
    <3> QED
      BY <2>1, <3>1, <3>2, <3>3, <1>0, ThreadsFacts
  <2>2. CASE q # p
    BY <2>2, <1>0, <1>5, <1>7, ThreadsFacts DEF IInv, RoundInv, MpiInStep
  <2> QED
    BY <2>1, <2>2
<1>14. NoLostWakeup'
  <2> SUFFICES ASSUME NEW q \in Procs, NEW u \in Threads, pc'[q][u] = "sleep"
               PROVE  IF u = Last THEN counter'[q][epoch'[q][u]] # N
                                  ELSE counter'[q][epoch'[q][u]] # 0
    BY DEF NoLostWakeup
  <2>1. q # p
    BY <1>3
  <2> QED
    BY <2>1, <1>5 DEF IInv, RoundInv, NoLostWakeup
<1> QED
  BY <1>10, <1>11, <1>12, <1>13, <1>14 DEF IInv, RoundInv

-----------------------------------------------------------------------------
(* The theorems.                                                           *)

\* Barrier()'s counters, epochs and rounds stay in step (lines 293-318), for
\* any number of processes, threads and calls.
THEOREM RoundInvariance == Spec => []IInv
<1>1. Init => IInv
  BY InitInv
<1>2. IInv /\ [Next]_vars => IInv'
  <2> SUFFICES ASSUME IInv, [Next]_vars PROVE IInv'
    OBVIOUS
  <2>1. ASSUME NEW p \in Procs, NEW t \in Threads, Step(p, t) PROVE IInv'
    BY <2>1, EnterInv, SleepAgainInv, ReturnInv DEF Step
  <2>2. ASSUME NEW p \in Procs, NEW t \in Threads, SpuriousWakeup(p, t) PROVE IInv'
    BY <2>2, SpuriousWakeupInv
  <2>3. ASSUME NEW p \in Procs, EnterMpi(p) PROVE IInv'
    BY <2>3, EnterMpiInv
  <2>4. ASSUME NEW p \in Procs, Open(p) PROVE IInv'
    BY <2>4, OpenInv
  <2>5. CASE UNCHANGED vars
    <3>1. left' = left
      BY <2>5 DEF vars, left
    <3>2. \A p \in Procs : Arrived(p)' = Arrived(p)
      BY <2>5, <3>1 DEF vars, Arrived
    <3>3. TypeOK' /\ InStep' /\ MpiInStep' /\ NoLostWakeup'
      BY <2>5, <3>1 DEF vars, IInv, RoundInv, TypeOK, InStep, MpiInStep, NoLostWakeup
    <3>4. CountsArrivals'
      BY <2>5, <3>2 DEF vars, IInv, RoundInv, CountsArrivals
    <3> QED
      BY <3>3, <3>4 DEF IInv, RoundInv
  <2> QED
    BY <2>1, <2>2, <2>3, <2>4, <2>5 DEF Next, Done
<1> QED
  BY <1>1, <1>2, PTL DEF Spec

\* The invariant says enough about left and calls to make returns safe.
LEMMA InvNoEarlyReturn == IInv => NoEarlyReturn
<1> SUFFICES ASSUME IInv, NEW p \in Procs, NEW q \in Procs,
                    NEW t \in Threads, NEW u \in Threads
             PROVE  left[p][t] <= calls[q][u]
  BY DEF NoEarlyReturn
<1>1. left[p][t] <= left[p][Last] /\ left[p][Last] <= mpiCalls[q]
  BY NatFacts DEF IInv, RoundInv, MpiInStep
<1>2. CASE pc[q][Last] = "mpi"
  <2>1. counter[q][epoch[q][Last]] = N /\ mpiCalls[q] = left[q][Last] + 1
    BY <1>2, ThreadsFacts DEF IInv, RoundInv, MpiInStep
  <2>2. calls[q][u] = left[q][Last] + 1
    BY <2>1, FullMeansAllArrived
  <2> QED
    BY <1>1, <2>1, <2>2, NatFacts
<1>3. CASE pc[q][Last] # "mpi"
  <2>1. mpiCalls[q] = left[q][Last]
    BY <1>3, NatFacts DEF IInv, RoundInv, MpiInStep
  <2> QED
    BY <1>1, <2>1, NatFacts
<1> QED
  BY <1>2, <1>3

\* No call of Barrier() returns before every thread of every process has made
\* the matching call.
THEOREM BarrierSafety == Spec => []NoEarlyReturn
  BY RoundInvariance, InvNoEarlyReturn, PTL

\* No thread sleeps on a condition that already holds: the two notify_all
\* calls are enough.
THEOREM NoLostWakeups == Spec => []NoLostWakeup
<1>1. IInv => NoLostWakeup
  BY DEF IInv, RoundInv
<1> QED
  BY <1>1, RoundInvariance, PTL

\* A thread still to wake from an opened round always finds its counter at 0,
\* however far the other threads have run ahead.
THEOREM StragglersLeave == Spec => []StragglersCanLeave
<1>1. IInv => StragglersCanLeave
  <2> SUFFICES ASSUME IInv, NEW p \in Procs, NEW t \in Threads,
                      pc[p][t] # "out", calls[p][t] <= left[p][Last]
               PROVE  counter[p][epoch[p][t]] = 0
    BY DEF StragglersCanLeave
  <2>1. left[p][t] # left[p][Last]
    BY LeftIs, NatFacts
  <2> QED
    BY <2>1 DEF IInv, RoundInv, InStep, CountsArrivals
<1> QED
  BY <1>1, RoundInvariance, PTL

-----------------------------------------------------------------------------
(* Refinement: Barrier() implements RoundBarrier.                          *)

aEntered == [m \in Members |-> calls[m[1]][m[2]]]
aLeft == [m \in Members |-> left[m[1]][m[2]]]

\* A member is named by its process and its thread.
LEMMA PairFacts ==
    ASSUME NEW p \in Procs, NEW t \in Threads, NEW o \in Members
    PROVE  /\ o[1] \in Procs /\ o[2] \in Threads
           /\ o = <<p, t>> <=> o[1] = p /\ o[2] = t
  BY DEF Members

\* A step of one thread that begins a call is Enter, one that ends a call is
\* Leave; this is what each looks like through the mapping.
LEMMA EnterMaps ==
    ASSUME IInv, NEW p \in Procs, NEW t \in Threads, Enter(p, t)
    PROVE  Abstract!Enter(<<p, t>>)
<1> DEFINE m == <<p, t>>
<1>0. m \in Members /\ m[1] = p /\ m[2] = t
  BY DEF Members
<1>1. /\ pc[p][t] = "out"
      /\ calls' = [calls EXCEPT ![p][t] = @ + 1]
      /\ \A q \in Procs, u \in Threads :
            pc'[q][u] = "out" <=> pc[q][u] = "out" /\ ~(q = p /\ u = t)
  BY DEF Enter, NotifyAll, IInv, TypeOK
<1>2. \A q \in Procs, u \in Threads :
         calls'[q][u] = IF q = p /\ u = t THEN calls[p][t] + 1 ELSE calls[q][u]
  BY <1>1 DEF IInv, TypeOK
<1>3. \A q \in Procs, u \in Threads : left'[q][u] = left[q][u]
  BY <1>1, <1>2, LeftIs, LeftIsNext, NatFacts
<1>4. aLeft' = aLeft
  BY <1>3 DEF aLeft, Members
<1>5. aEntered' = [aEntered EXCEPT ![m] = @ + 1]
  <2>1. \A o \in Members :
           calls'[o[1]][o[2]] = IF o = m THEN calls[p][t] + 1 ELSE calls[o[1]][o[2]]
    BY <1>0, <1>2, PairFacts
  <2>2. aEntered[m] = calls[p][t]
    BY <1>0 DEF aEntered
  <2> HIDE DEF m
  <2> QED
    BY <2>1, <2>2, <1>0 DEF aEntered
<1>6. aEntered[m] = aLeft[m]
  BY <1>0, <1>1, LeftIs DEF aEntered, aLeft
<1> QED
  BY <1>4, <1>5, <1>6 DEF Abstract!Enter, Abstract!Inside, aEntered, aLeft

\* Whoever leaves had been let in and leaves everybody else's count alone; that
\* all have entered is NoEarlyReturn of the state after the step.
LEMMA LeaveMaps ==
    ASSUME IInv, IInv', NEW p \in Procs, NEW t \in Threads,
           pc[p][t] # "out", pc'[p][t] = "out",
           \A q \in Procs, u \in Threads :
               ~(q = p /\ u = t) => (pc'[q][u] = "out" <=> pc[q][u] = "out"),
           calls' = calls
    PROVE  Abstract!Leave(<<p, t>>)
<1> DEFINE m == <<p, t>>
<1>0. m \in Members /\ m[1] = p /\ m[2] = t
  BY DEF Members
<1>1. left[p][t] = calls[p][t] - 1 /\ left'[p][t] = calls[p][t]
  BY LeftIs, LeftIsNext
<1>2. \A q \in Procs, u \in Threads :
         left'[q][u] = IF q = p /\ u = t THEN calls[p][t] ELSE left[q][u]
  BY <1>1, LeftIs, LeftIsNext
<1>3. aEntered' = aEntered
  BY DEF aEntered
<1>4. aLeft' = [aLeft EXCEPT ![m] = aEntered[m]]
  <2>1. \A o \in Members :
           left'[o[1]][o[2]] = IF o = m THEN calls[p][t] ELSE left[o[1]][o[2]]
    BY <1>0, <1>2, PairFacts
  <2>2. aEntered[m] = calls[p][t]
    BY <1>0 DEF aEntered
  <2> HIDE DEF m
  <2> QED
    BY <2>1, <2>2, <1>0 DEF aLeft
<1>5. aEntered[m] # aLeft[m]
  BY <1>0, <1>1, NatFacts DEF aEntered, aLeft
<1>6. \A o \in Members : aEntered[o] >= aEntered[m]
  <2>1. NoEarlyReturn'
    BY InvNoEarlyReturn, PTL
  <2>2. \A q \in Procs, u \in Threads : left'[p][t] <= calls'[q][u]
    BY <2>1 DEF NoEarlyReturn
  <2>3. \A q \in Procs, u \in Threads : calls[p][t] <= calls[q][u]
    BY <2>2, <1>1
  <2> QED
    BY <2>3, <1>0, NatFacts DEF aEntered, Members
<1> QED
  BY <1>3, <1>4, <1>5, <1>6 DEF Abstract!Leave, Abstract!Inside, aEntered, aLeft

\* Steps that move no thread in or out of Barrier() are stutters.
LEMMA StutterMaps ==
    ASSUME \A q \in Procs, u \in Threads : pc'[q][u] = "out" <=> pc[q][u] = "out",
           calls' = calls
    PROVE  UNCHANGED Abstract!barrierVars
<1>1. \A q \in Procs, u \in Threads : left'[q][u] = left[q][u]
  BY LeftIs, LeftIsNext
<1> QED
  BY <1>1 DEF Abstract!barrierVars, Members

\* Barrier() implements the abstract barrier over all threads of all processes.
THEOREM BarrierRefinement == Spec => ImplementsBarrier
<1>1. Init => Abstract!Init
  <2> SUFFICES ASSUME Init PROVE Abstract!Init
    OBVIOUS
  <2>1. \A p \in Procs, t \in Threads : left[p][t] = 0 /\ calls[p][t] = 0
    BY LeftIs DEF Init
  <2> QED
    BY <2>1 DEF Abstract!Init, Members
<1>2. IInv /\ IInv' /\ [Next]_vars => [Abstract!Next]_(Abstract!barrierVars)
  <2> SUFFICES ASSUME IInv, IInv', [Next]_vars
               PROVE  Abstract!Next \/ UNCHANGED Abstract!barrierVars
    OBVIOUS
  <2> USE DEF Abstract!Next
  <2>1. ASSUME NEW p \in Procs, NEW t \in Threads, Enter(p, t)
        PROVE  Abstract!Next
    <3>1. Abstract!Enter(<<p, t>>) /\ <<p, t>> \in Members
      BY <2>1, EnterMaps DEF Members
    <3> QED
      BY <3>1
  <2>2. ASSUME NEW p \in Procs, NEW t \in Threads, Return(p, t)
        PROVE  Abstract!Next
    <3>1. /\ pc[p][t] # "out" /\ calls' = calls
          /\ \A q \in Procs, u \in Threads :
                pc'[q][u] = IF q = p /\ u = t THEN "out" ELSE pc[q][u]
      BY <2>2 DEF Return, IInv, TypeOK
    <3>2. Abstract!Leave(<<p, t>>)
      BY <3>1, LeaveMaps
    <3> QED
      BY <3>2 DEF Members
  <2>3. ASSUME NEW p \in Procs, Open(p)
        PROVE  Abstract!Next
    <3>1. /\ pc[p][Last] # "out" /\ pc'[p][Last] = "out" /\ calls' = calls
          /\ \A q \in Procs, u \in Threads :
                ~(q = p /\ u = Last) => (pc'[q][u] = "out" <=> pc[q][u] = "out")
      BY <2>3, ThreadsFacts DEF Open, NotifyAll, IInv, TypeOK
    <3>2. Abstract!Leave(<<p, Last>>)
      BY <3>1, LeaveMaps, ThreadsFacts
    <3> QED
      BY <3>2, ThreadsFacts DEF Members
  <2>4. ASSUME NEW p \in Procs, NEW t \in Threads,
               SleepAgain(p, t) \/ SpuriousWakeup(p, t) \/ EnterMpi(p)
        PROVE  UNCHANGED Abstract!barrierVars
    BY <2>4, StutterMaps, ThreadsFacts
       DEF SleepAgain, SpuriousWakeup, EnterMpi, IInv, TypeOK
  <2>5. CASE UNCHANGED vars
    BY <2>5, StutterMaps DEF vars
  <2> QED
    BY <2>1, <2>2, <2>3, <2>4, <2>5, ThreadsFacts DEF Next, Step, Done
<1> QED
  BY <1>1, <1>2, RoundInvariance, PTL DEF Spec, ImplementsBarrier, Abstract!Spec
=============================================================================
