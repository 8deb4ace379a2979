------------------------ MODULE ThreadAllreduceProofs ------------------------
(***************************************************************************)
(* Machine-checked proofs about the synchronisation of Allreduce() for     *)
(* every number of processes, threads and calls, every sequence of         *)
(* reductions and all arguments: the threads of a process meet, and the    *)
(* accumulator that is read without the mutex has no writer then.          *)
(*                                                                         *)
(* Both are about one process at a time, whatever MPI does, so that the    *)
(* invariant is stated per process: Rounds(p) counts the calls whose       *)
(* result the last thread has published.  The second part is about all     *)
(* processes: Allreduce() implements the abstract barrier of RoundBarrier  *)
(* in the calls whose average is not 0, those with average = 0 among them. *)
(*                                                                         *)
(* The third part is about the values: every call returns the reduction of *)
(* exactly the values of its own round.  They are followed from the thread *)
(* into the accumulator of its process, from there into MPI, and back      *)
(* through the accumulator, which each thread reads after it has given the *)
(* mutex up.                                                               *)
(***************************************************************************)
EXTENDS ThreadAllreduce, FoldLemmas

Past == {"out", "read"}       \* places behind the publication of the result
Rounds(p) == IF pc[p][LastIndex] \in Past THEN calls[p][LastIndex] ELSE calls[p][LastIndex] - 1
Arrived(p) == {t \in Threads : calls[p][t] > Rounds(p)}

ControlOK ==
    /\ epoch \in [Procs -> [Threads -> Epochs]]
    /\ counter \in [Procs -> [Epochs -> 0 .. N]]
    /\ pc \in [Procs -> [Threads -> Places]]
    /\ calls \in [Procs -> [Threads -> 0 .. MaxCalls]]

\* A thread is in the round that is open or has still to leave the one before;
\* it uses the copy of the round it is in, by turns.
InRound(p, t) ==
    /\ Rounds(p) <= calls[p][t] /\ calls[p][t] <= Rounds(p) + 1
    /\ pc[p][t] \in Past => calls[p][t] = Rounds(p)
    /\ pc[p][t] # "out" => calls[p][t] > 0
    /\ epoch[p][t] = Returned(p, t) % 2
    /\ pc[p][t] = "mpi" => t = LastIndex /\ counter[p][epoch[p][t]] = N
\* The copy of the open round counts those that have arrived, the other is clear.
Counts(p) ==
    /\ counter[p][Rounds(p) % 2] = Cardinality(Arrived(p))
    /\ counter[p][1 - (Rounds(p) % 2)] = 0
InStep(p) == (\A t \in Threads : InRound(p, t)) /\ Counts(p)

IInv == ControlOK /\ \A p \in Procs : InStep(p)

-----------------------------------------------------------------------------
(* Facts about threads, arrivals and rounds.                               *)

\* The threads of a process are N in number, the last among them.
LEMMA ThreadsFacts ==
    /\ IsFiniteSet(Threads) /\ Cardinality(Threads) = N
    /\ LastIndex \in Threads /\ N \in Nat \ {0} /\ MaxCalls \in Nat
<1>1. N \in Nat \ {0} /\ MaxCalls \in Nat
  BY AllreduceAssumption
<1>2. /\ IsFiniteSet(0 .. N - 1)
      /\ Cardinality(0 .. N - 1) = IF 0 > N - 1 THEN 0 ELSE (N - 1) - 0 + 1
  BY <1>1, FS_Interval
<1> QED
  BY <1>1, <1>2 DEF Threads, LastIndex

\* The numbers of a state are natural, and there is a parity to take.
LEMMA NatFacts ==
    ASSUME IInv, NEW p \in Procs, NEW t \in Threads
    PROVE  /\ calls[p][t] \in 0 .. MaxCalls /\ calls[p][t] \in Nat
           /\ calls[p][LastIndex] \in Nat
           /\ Rounds(p) \in Nat /\ Rounds(p) % 2 \in {0, 1}
           /\ epoch[p][t] \in {0, 1}
<1>1. calls[p][t] \in 0 .. MaxCalls /\ calls[p][LastIndex] \in 0 .. MaxCalls /\ epoch[p][t] \in {0, 1}
  BY ThreadsFacts DEF IInv, ControlOK, Epochs
<1>2. pc[p][LastIndex] # "out" => calls[p][LastIndex] > 0
  BY ThreadsFacts DEF IInv, InStep, InRound
<1>3. Rounds(p) \in Nat
  BY <1>1, <1>2, ThreadsFacts DEF Rounds, Past
<1> QED
  BY <1>1, <1>3, ThreadsFacts

\* Arrivals are finite in number, N of them when everybody has arrived.
LEMMA ArrivedFacts ==
    ASSUME NEW p \in Procs
    PROVE  /\ IsFiniteSet(Arrived(p))
           /\ Cardinality(Arrived(p)) \in 0 .. N
           /\ Cardinality(Arrived(p)) = N => Arrived(p) = Threads
<1>1. Arrived(p) \subseteq Threads
  BY DEF Arrived
<1>2. /\ IsFiniteSet(Arrived(p))
      /\ Cardinality(Arrived(p)) <= Cardinality(Threads)
      /\ Cardinality(Arrived(p)) = Cardinality(Threads) => Arrived(p) = Threads
  BY <1>1, ThreadsFacts, FS_Subset
<1>3. Cardinality(Arrived(p)) \in Nat
  BY <1>2, FS_CardinalityType
<1> QED
  BY <1>2, <1>3, ThreadsFacts

\* A thread that may enter counts in the copy of the open round, and is new there.
LEMMA OutsideIsCurrent ==
    ASSUME IInv, NEW p \in Procs, NEW t \in Threads, pc[p][t] = "out"
    PROVE  /\ calls[p][t] = Rounds(p)
           /\ epoch[p][t] = Rounds(p) % 2
           /\ t \notin Arrived(p)
           /\ counter[p][epoch[p][t]] = Cardinality(Arrived(p))
           /\ Cardinality(Arrived(p)) \in 0 .. N - 1
<1>1. calls[p][t] = Rounds(p) /\ epoch[p][t] = calls[p][t] % 2
  BY DEF IInv, InStep, InRound, Past, Returned
<1>2. t \notin Arrived(p)
  BY <1>1, NatFacts DEF Arrived
<1>3. Cardinality(Arrived(p)) # N
  BY <1>2, ArrivedFacts
<1>4. Cardinality(Arrived(p)) \in 0 .. N - 1
  BY <1>3, ArrivedFacts, ThreadsFacts
<1> QED
  BY <1>1, <1>2, <1>4 DEF IInv, InStep, Counts

\* The copy the last thread waits on is that of the open round; when it is full
\* everybody is in that round.
LEMMA FullMeansAllArrived ==
    ASSUME IInv, NEW p \in Procs, pc[p][LastIndex] \notin Past, counter[p][epoch[p][LastIndex]] = N
    PROVE  /\ epoch[p][LastIndex] = Rounds(p) % 2
           /\ calls[p][LastIndex] = Rounds(p) + 1
           /\ \A t \in Threads : calls[p][t] = Rounds(p) + 1 /\ pc[p][t] \notin Past
<1>1. Rounds(p) = calls[p][LastIndex] - 1 /\ calls[p][LastIndex] \in Nat
  BY NatFacts, ThreadsFacts DEF Rounds
<1>2. epoch[p][LastIndex] = Rounds(p) % 2
  BY <1>1, ThreadsFacts DEF IInv, InStep, InRound, Returned, Past
<1>3. Arrived(p) = Threads
  BY <1>2, ArrivedFacts DEF IInv, InStep, Counts
<1>4. \A t \in Threads : calls[p][t] > Rounds(p)
  BY <1>3 DEF Arrived
<1>5. ASSUME NEW t \in Threads
      PROVE  calls[p][t] = Rounds(p) + 1 /\ pc[p][t] \notin Past
  <2>1. calls[p][t] \in Nat /\ Rounds(p) \in Nat /\ calls[p][t] > Rounds(p)
    BY <1>4, NatFacts
  <2> QED
    BY <2>1 DEF IInv, InStep, InRound
<1> QED
  BY <1>1, <1>2, <1>5

-----------------------------------------------------------------------------
(* The invariant is inductive.                                             *)

\* What a step leaves alone keeps its place in the invariant.
LEMMA OthersInStep ==
    ASSUME IInv, NEW q \in Procs, pc'[q] = pc[q], calls'[q] = calls[q],
           epoch'[q] = epoch[q], counter'[q] = counter[q]
    PROVE  InStep(q)'
<1>1. Rounds(q)' = Rounds(q)
  BY DEF Rounds
<1>2. Arrived(q)' = Arrived(q)
  BY <1>1 DEF Arrived
<1>3. \A t \in Threads : Returned(q, t)' = Returned(q, t)
  BY DEF Returned
<1>4. \A t \in Threads : InRound(q, t)'
  BY <1>1, <1>3 DEF IInv, InStep, InRound
<1> QED
  BY <1>1, <1>2, <1>4 DEF IInv, InStep, Counts

\* A step within the waiting, or out of it into MPI when the house is full.
LEMMA WaitingInStep ==
    ASSUME IInv, NEW p \in Procs, NEW t \in Threads, NEW place \in {"sleep", "woken", "mpi"},
           pc[p][t] \in {"sleep", "woken"},
           place = "mpi" => t = LastIndex /\ counter[p][epoch[p][LastIndex]] = N,
           pc' = [pc EXCEPT ![p][t] = place],
           UNCHANGED <<epoch, counter, calls>>
    PROVE  IInv'
<1>1. pc' \in [Procs -> [Threads -> Places]]
  BY DEF IInv, ControlOK, Places
<1>2. ControlOK'
  BY <1>1 DEF IInv, ControlOK
<1>3. \A u \in Threads : pc'[p][u] = IF u = t THEN place ELSE pc[p][u]
  BY DEF IInv, ControlOK
<1>4. Rounds(p)' = Rounds(p)
  BY <1>3, ThreadsFacts DEF Rounds, Past
<1>5. Arrived(p)' = Arrived(p)
  BY <1>4 DEF Arrived
<1>6. ASSUME NEW u \in Threads PROVE InRound(p, u)'
  <2>1. InRound(p, u)
    BY DEF IInv, InStep
  <2>2. Returned(p, u)' = Returned(p, u)
    BY <1>3 DEF Returned
  <2>3. pc'[p][u] \in Past <=> pc[p][u] \in Past
    BY <1>3 DEF Past
  <2> QED
    BY <2>1, <2>2, <2>3, <1>3, <1>4 DEF InRound
<1>7. InStep(p)'
  BY <1>4, <1>5, <1>6 DEF IInv, InStep, Counts
<1>8. \A q \in Procs : q # p => InStep(q)'
  <2> SUFFICES ASSUME NEW q \in Procs, q # p PROVE InStep(q)'
    OBVIOUS
  <2>1. pc'[q] = pc[q]
    BY DEF IInv, ControlOK
  <2> QED
    BY <2>1, OthersInStep
<1> QED
  BY <1>2, <1>7, <1>8 DEF IInv

\* Arriving: one more in the copy of the open round.
LEMMA EnterPlace ==
    ASSUME IInv, NEW p \in Procs, NEW t \in Threads, Enter(p, t)
    PROVE  /\ calls[p][t] = Rounds(p) /\ epoch[p][t] = Rounds(p) % 2 /\ t \notin Arrived(p)
           /\ counter[p][epoch[p][t]] = Cardinality(Arrived(p))
           /\ Cardinality(Arrived(p)) \in 0 .. N - 1
           /\ pc'[p][t] \in {"sleep", "woken"}
           /\ \A u \in Threads : u # t =>
                 pc'[p][u] = pc[p][u] \/ (pc[p][u] = "sleep" /\ pc'[p][u] = "woken")
           /\ \A u \in Threads : calls'[p][u] = IF u = t THEN calls[p][t] + 1 ELSE calls[p][u]
           /\ Rounds(p)' = Rounds(p)
           /\ Arrived(p)' = Arrived(p) \cup {t}
<1> DEFINE e == epoch[p][t]
           full == counter[p][e] + 1 = N
<1>0. /\ pc[p][t] = "out" /\ calls' = [calls EXCEPT ![p][t] = calls[p][t] + 1]
      /\ pc' = [pc EXCEPT ![p] =
                  [(IF full THEN NotifyAll(p, e) ELSE pc[p])
                     EXCEPT ![t] = IF t = LastIndex /\ full THEN "woken" ELSE "sleep"]]
  BY DEF Enter
<1>1. /\ calls[p][t] = Rounds(p) /\ e = Rounds(p) % 2 /\ t \notin Arrived(p)
      /\ counter[p][e] = Cardinality(Arrived(p)) /\ Cardinality(Arrived(p)) \in 0 .. N - 1
  BY <1>0, OutsideIsCurrent
<1>2. /\ pc'[p][t] \in {"sleep", "woken"}
      /\ \A u \in Threads : u # t =>
            pc'[p][u] = pc[p][u] \/ (pc[p][u] = "sleep" /\ pc'[p][u] = "woken")
  BY <1>0 DEF NotifyAll, IInv, ControlOK
<1>3. \A u \in Threads : calls'[p][u] = IF u = t THEN calls[p][t] + 1 ELSE calls[p][u]
  BY <1>0 DEF IInv, ControlOK
<1>5. Rounds(p)' = Rounds(p)
  <2>0. LastIndex \in Threads
    BY ThreadsFacts
  <2>1. CASE LastIndex = t
    <3>1. pc[p][t] \in Past /\ pc'[p][t] \notin Past
      BY <1>0, <1>2 DEF Past
    <3>2. calls'[p][t] = calls[p][t] + 1 /\ calls[p][t] \in Nat
      BY <1>3, NatFacts
    <3>3. Rounds(p)' = calls'[p][t] - 1
      BY <2>1, <3>1 DEF Rounds
    <3> QED
      BY <1>1, <3>2, <3>3
  <2>2. CASE LastIndex # t
    <3>1. pc'[p][LastIndex] \in Past <=> pc[p][LastIndex] \in Past
      BY <1>2, <2>0, <2>2 DEF Past
    <3>2. calls'[p][LastIndex] = calls[p][LastIndex]
      BY <1>3, <2>0, <2>2
    <3> QED
      BY <3>1, <3>2 DEF Rounds
  <2> QED
    BY <2>1, <2>2
<1>6. Arrived(p)' = Arrived(p) \cup {t}
  BY <1>1, <1>3, <1>5, NatFacts DEF Arrived
<1> QED
  BY <1>1, <1>2, <1>3, <1>5, <1>6

LEMMA EnterInv ==
    ASSUME IInv, NEW p \in Procs, NEW t \in Threads, Enter(p, t)
    PROVE  IInv'
<1> DEFINE e == epoch[p][t]
           full == counter[p][e] + 1 = N
<1>0. /\ pc[p][t] = "out" /\ calls[p][t] < MaxCalls
      /\ calls' = [calls EXCEPT ![p][t] = calls[p][t] + 1]
      /\ counter' = [counter EXCEPT ![p][e] = @ + 1]
      /\ pc' = [pc EXCEPT ![p] =
                  [(IF full THEN NotifyAll(p, e) ELSE pc[p])
                     EXCEPT ![t] = IF t = LastIndex /\ full THEN "woken" ELSE "sleep"]]
      /\ epoch' = epoch
  BY DEF Enter
<1>1. /\ calls[p][t] = Rounds(p) /\ e = Rounds(p) % 2 /\ t \notin Arrived(p)
      /\ counter[p][e] = Cardinality(Arrived(p)) /\ Cardinality(Arrived(p)) \in 0 .. N - 1
  BY EnterPlace
<1>2. /\ pc'[p][t] \in {"sleep", "woken"}
      /\ \A u \in Threads : u # t =>
            pc'[p][u] = pc[p][u] \/ (pc[p][u] = "sleep" /\ pc'[p][u] = "woken")
  BY EnterPlace
<1>3. \A u \in Threads : calls'[p][u] = IF u = t THEN calls[p][t] + 1 ELSE calls[p][u]
  BY EnterPlace
<1>4. e \in Epochs /\ counter'[p] = [counter[p] EXCEPT ![e] = @ + 1]
  BY <1>0, NatFacts DEF IInv, ControlOK, Epochs
<1>5. Rounds(p)' = Rounds(p)
  BY EnterPlace
<1>6. Arrived(p)' = Arrived(p) \cup {t}
  BY EnterPlace
<1>7. Cardinality(Arrived(p)') = Cardinality(Arrived(p)) + 1
  BY <1>1, <1>6, ArrivedFacts, FS_AddElement
<1>8. pc[p][LastIndex] # "mpi"
  <2>1. SUFFICES ASSUME pc[p][LastIndex] = "mpi" PROVE FALSE
    OBVIOUS
  <2>2. pc[p][LastIndex] \notin Past /\ counter[p][epoch[p][LastIndex]] = N
    BY <2>1, ThreadsFacts DEF IInv, InStep, InRound, Past
  <2>3. pc[p][t] \notin Past
    BY <2>2, FullMeansAllArrived
  <2> QED
    BY <2>3, <1>0 DEF Past
<1>9. ControlOK'
  <2>1. calls[p][t] + 1 \in 0 .. MaxCalls
    BY <1>0, NatFacts, ThreadsFacts
  <2>2. calls' \in [Procs -> [Threads -> 0 .. MaxCalls]]
    BY <2>1, <1>0 DEF IInv, ControlOK
  <2>3. counter[p][e] + 1 \in 0 .. N
    BY <1>1, ThreadsFacts
  <2>4. counter' \in [Procs -> [Epochs -> 0 .. N]]
    BY <2>3, <1>0 DEF IInv, ControlOK
  <2>5. pc' \in [Procs -> [Threads -> Places]]
    BY <1>0 DEF NotifyAll, Places, IInv, ControlOK
  <2> QED
    BY <2>2, <2>4, <2>5, <1>0 DEF IInv, ControlOK
<1>10. ASSUME NEW u \in Threads PROVE InRound(p, u)'
  <2>1. InRound(p, u)
    BY DEF IInv, InStep
  <2>2. pc'[p][u] # "mpi"
    BY <1>2, <1>8, <2>1 DEF InRound
  <2>3. CASE u = t
    <3>1. /\ calls'[p][t] = Rounds(p) + 1 /\ Rounds(p) \in Nat
          /\ pc'[p][t] \notin Past /\ pc'[p][t] # "out"
      BY <1>1, <1>2, <1>3, NatFacts DEF Past
    <3>2. Returned(p, t)' = Rounds(p)
      BY <3>1 DEF Returned
    <3> QED
      BY <2>2, <2>3, <3>1, <3>2, <1>0, <1>1, <1>5 DEF InRound
  <2>4. CASE u # t
    <3>1. /\ calls'[p][u] = calls[p][u] /\ (pc'[p][u] = "out" <=> pc[p][u] = "out")
          /\ (pc'[p][u] \in Past <=> pc[p][u] \in Past)
      BY <2>4, <1>2, <1>3 DEF Past
    <3>2. Returned(p, u)' = Returned(p, u)
      BY <3>1 DEF Returned
    <3> QED
      BY <2>1, <2>2, <3>1, <3>2, <1>0, <1>5 DEF InRound
  <2> QED
    BY <2>3, <2>4
<1>11. Counts(p)'
  <2>1. counter'[p][e] = Cardinality(Arrived(p)')
    BY <1>1, <1>4, <1>7 DEF IInv, ControlOK
  <2>2. counter'[p][1 - e] = counter[p][1 - e] /\ 1 - e \in Epochs
    BY <1>4 DEF IInv, ControlOK, Epochs
  <2> QED
    BY <2>1, <2>2, <1>1, <1>5 DEF IInv, InStep, Counts
<1>12. \A q \in Procs : q # p => InStep(q)'
  <2> SUFFICES ASSUME NEW q \in Procs, q # p PROVE InStep(q)'
    OBVIOUS
  <2>1. pc'[q] = pc[q] /\ calls'[q] = calls[q] /\ epoch'[q] = epoch[q] /\ counter'[q] = counter[q]
    BY <1>0 DEF IInv, ControlOK
  <2> QED
    BY <2>1, OthersInStep
<1> QED
  BY <1>9, <1>10, <1>11, <1>12 DEF IInv, InStep

\* Publishing the result opens the next round for everybody.
LEMMA PublishPlace ==
    ASSUME IInv, NEW p \in Procs, NEW result, Publish(p, result),
           pc[p][LastIndex] \in {"woken", "mpi"}, counter[p][epoch[p][LastIndex]] = N
    PROVE  /\ epoch[p][LastIndex] = Rounds(p) % 2 /\ calls[p][LastIndex] = Rounds(p) + 1
           /\ \A u \in Threads : calls[p][u] = Rounds(p) + 1 /\ pc[p][u] \notin Past
           /\ pc'[p][LastIndex] = "read"
           /\ \A u \in Threads : u # LastIndex => pc'[p][u] \in {"sleep", "woken"}
           /\ Rounds(p)' = Rounds(p) + 1 /\ Rounds(p) \in Nat
           /\ Arrived(p)' = {}
<1> DEFINE e == epoch[p][LastIndex]
<1>0. pc' = [pc EXCEPT ![p] = [NotifyAll(p, e) EXCEPT ![LastIndex] = "read"]] /\ calls' = calls
  BY DEF Publish
<1>1. /\ e = Rounds(p) % 2 /\ calls[p][LastIndex] = Rounds(p) + 1
      /\ \A u \in Threads : calls[p][u] = Rounds(p) + 1 /\ pc[p][u] \notin Past
  BY FullMeansAllArrived DEF Past
<1>2. /\ pc'[p][LastIndex] = "read"
      /\ \A u \in Threads : u # LastIndex => pc'[p][u] \in {"sleep", "woken"}
  <2>1. \A u \in Threads : u # LastIndex => pc[p][u] \in {"sleep", "woken"}
    BY <1>1 DEF IInv, InStep, InRound, ControlOK, Places, Past
  <2> QED
    BY <2>1, <1>0, ThreadsFacts DEF NotifyAll, IInv, ControlOK
<1>3. Rounds(p)' = Rounds(p) + 1 /\ Rounds(p) \in Nat
  BY <1>0, <1>1, <1>2, NatFacts, ThreadsFacts DEF Rounds, Past
<1>6. Arrived(p)' = {}
  BY <1>0, <1>1, <1>3 DEF Arrived
<1> QED
  BY <1>1, <1>2, <1>3, <1>6

LEMMA PublishInv ==
    ASSUME IInv, NEW p \in Procs, NEW result, Publish(p, result),
           pc[p][LastIndex] \in {"woken", "mpi"}, counter[p][epoch[p][LastIndex]] = N
    PROVE  IInv'
<1> DEFINE e == epoch[p][LastIndex]
<1>0. /\ counter' = [counter EXCEPT ![p][e] = 0]
      /\ pc' = [pc EXCEPT ![p] = [NotifyAll(p, e) EXCEPT ![LastIndex] = "read"]]
      /\ epoch' = epoch /\ calls' = calls
  BY DEF Publish
<1>1. /\ e = Rounds(p) % 2 /\ calls[p][LastIndex] = Rounds(p) + 1
      /\ \A u \in Threads : calls[p][u] = Rounds(p) + 1 /\ pc[p][u] \notin Past
  BY PublishPlace
<1>2. /\ pc'[p][LastIndex] = "read"
      /\ \A u \in Threads : u # LastIndex => pc'[p][u] \in {"sleep", "woken"}
  BY PublishPlace
<1>3. Rounds(p)' = Rounds(p) + 1 /\ Rounds(p) \in Nat
  BY PublishPlace
<1>4. e \in Epochs /\ 1 - e \in Epochs /\ (Rounds(p) + 1) % 2 = 1 - e /\ e = 1 - (1 - e)
  BY <1>1, <1>3 DEF Epochs
<1>5. counter'[p][e] = 0 /\ counter'[p][1 - e] = 0
  BY <1>0, <1>1, <1>4 DEF IInv, ControlOK, InStep, Counts
<1>6. Arrived(p)' = {}
  BY PublishPlace
<1>7. ControlOK'
  <2>1. pc' \in [Procs -> [Threads -> Places]]
    BY <1>0 DEF NotifyAll, Places, IInv, ControlOK
  <2>2. counter' \in [Procs -> [Epochs -> 0 .. N]]
    BY <1>0, ThreadsFacts DEF IInv, ControlOK
  <2> QED
    BY <2>1, <2>2, <1>0 DEF IInv, ControlOK
<1>8. ASSUME NEW u \in Threads PROVE InRound(p, u)'
  <2>1. pc'[p][u] \in {"sleep", "woken", "read"}
    BY <1>2
  <2>2. Returned(p, u)' = Rounds(p) /\ Returned(p, u) = Rounds(p)
    BY <2>1, <1>0, <1>1, <1>3 DEF Returned, Past
  <2>3. epoch[p][u] = Returned(p, u) % 2
    BY DEF IInv, InStep, InRound
  <2>4. calls'[p][u] = Rounds(p)' /\ calls'[p][u] > 0
    BY <1>0, <1>1, <1>3
  <2> QED
    BY <2>1, <2>2, <2>3, <2>4, <1>0, <1>3 DEF InRound, Past
<1>9. Counts(p)'
  <2>1. Cardinality(Arrived(p)') = 0
    BY <1>6, FS_EmptySet
  <2> QED
    BY <2>1, <1>3, <1>4, <1>5 DEF Counts
<1>10. \A q \in Procs : q # p => InStep(q)'
  <2> SUFFICES ASSUME NEW q \in Procs, q # p PROVE InStep(q)'
    OBVIOUS
  <2>1. pc'[q] = pc[q] /\ calls'[q] = calls[q] /\ epoch'[q] = epoch[q] /\ counter'[q] = counter[q]
    BY <1>0 DEF IInv, ControlOK
  <2> QED
    BY <2>1, OthersInStep
<1> QED
  BY <1>7, <1>8, <1>9, <1>10 DEF IInv, InStep

\* Giving the mutex up: only a thread of the round before finds its counter at 0.
LEMMA UnlockInv ==
    ASSUME IInv, NEW p \in Procs, NEW t \in Threads, Unlock(p, t)
    PROVE  IInv'
<1>0. /\ t # LastIndex /\ pc[p][t] = "woken" /\ counter[p][epoch[p][t]] = 0
      /\ pc' = [pc EXCEPT ![p][t] = "read"]
      /\ epoch' = epoch /\ counter' = counter /\ calls' = calls
  BY DEF Unlock, Opened
<1>1. calls[p][t] = Rounds(p)
  <2>1. SUFFICES ASSUME calls[p][t] # Rounds(p) PROVE FALSE
    OBVIOUS
  <2>2. calls[p][t] = Rounds(p) + 1 /\ calls[p][t] \in Nat /\ Rounds(p) \in Nat
    BY <2>1, NatFacts DEF IInv, InStep, InRound
  <2>3. epoch[p][t] = Rounds(p) % 2
    BY <2>2, <1>0 DEF IInv, InStep, InRound, Returned
  <2>4. Cardinality(Arrived(p)) = 0
    BY <2>3, <1>0 DEF IInv, InStep, Counts
  <2>5. Arrived(p) = {}
    BY <2>4, ArrivedFacts, FS_EmptySet
  <2>6. t \in Arrived(p)
    BY <2>2 DEF Arrived
  <2> QED
    BY <2>5, <2>6
<1>2. \A u \in Threads : pc'[p][u] = IF u = t THEN "read" ELSE pc[p][u]
  BY <1>0 DEF IInv, ControlOK
<1>3. Rounds(p)' = Rounds(p)
  BY <1>0, <1>2, ThreadsFacts DEF Rounds
<1>4. Arrived(p)' = Arrived(p)
  BY <1>0, <1>3 DEF Arrived
<1>5. ControlOK'
  BY <1>0 DEF IInv, ControlOK, Places
<1>6. ASSUME NEW u \in Threads PROVE InRound(p, u)'
  <2>1. InRound(p, u)
    BY DEF IInv, InStep
  <2>2. Returned(p, u)' = Returned(p, u)
    BY <1>0, <1>2 DEF Returned
  <2> QED
    BY <2>1, <2>2, <1>0, <1>1, <1>2, <1>3 DEF InRound, Past
<1>7. InStep(p)'
  BY <1>0, <1>3, <1>4, <1>6 DEF IInv, InStep, Counts
<1>8. \A q \in Procs : q # p => InStep(q)'
  <2> SUFFICES ASSUME NEW q \in Procs, q # p PROVE InStep(q)'
    OBVIOUS
  <2>1. pc'[q] = pc[q] /\ calls'[q] = calls[q] /\ epoch'[q] = epoch[q] /\ counter'[q] = counter[q]
    BY <1>0 DEF IInv, ControlOK
  <2> QED
    BY <2>1, OthersInStep
<1> QED
  BY <1>5, <1>7, <1>8 DEF IInv

\* Reading the result and turning to the other copy.
LEMMA ReadInv ==
    ASSUME IInv, NEW p \in Procs, NEW t \in Threads, Read(p, t)
    PROVE  IInv'
<1>0. /\ pc[p][t] = "read"
      /\ pc' = [pc EXCEPT ![p][t] = "out"]
      /\ epoch' = [epoch EXCEPT ![p][t] = 1 - epoch[p][t]]
      /\ counter' = counter /\ calls' = calls
  BY DEF Read, OtherEpoch
<1>1. /\ calls[p][t] = Rounds(p) /\ Rounds(p) \in Nat \ {0}
      /\ epoch[p][t] = (Rounds(p) - 1) % 2 /\ epoch[p][t] \in {0, 1}
  BY <1>0, NatFacts DEF IInv, InStep, InRound, Returned, Past
<1>2. 1 - epoch[p][t] = Rounds(p) % 2
  BY <1>1
<1>3. \A u \in Threads : /\ pc'[p][u] = IF u = t THEN "out" ELSE pc[p][u]
                         /\ epoch'[p][u] = IF u = t THEN 1 - epoch[p][t] ELSE epoch[p][u]
  BY <1>0 DEF IInv, ControlOK
<1>4. Rounds(p)' = Rounds(p)
  BY <1>0, <1>3, ThreadsFacts DEF Rounds, Past
<1>5. Arrived(p)' = Arrived(p)
  BY <1>0, <1>4 DEF Arrived
<1>6. ControlOK'
  <2>1. 1 - epoch[p][t] \in Epochs
    BY <1>1 DEF Epochs
  <2> QED
    BY <2>1, <1>0 DEF IInv, ControlOK, Places
<1>7. ASSUME NEW u \in Threads PROVE InRound(p, u)'
  <2>1. InRound(p, u)
    BY DEF IInv, InStep
  <2>2. CASE u = t
    <3>1. Returned(p, t)' = Rounds(p)
      BY <1>0, <1>1, <1>3 DEF Returned
    <3> QED
      BY <2>2, <3>1, <1>0, <1>1, <1>2, <1>3, <1>4 DEF InRound
  <2>3. CASE u # t
    <3>1. Returned(p, u)' = Returned(p, u)
      BY <2>3, <1>0, <1>3 DEF Returned
    <3> QED
      BY <2>1, <2>3, <3>1, <1>0, <1>3, <1>4 DEF InRound
  <2> QED
    BY <2>2, <2>3
<1>8. InStep(p)'
  BY <1>0, <1>4, <1>5, <1>7 DEF IInv, InStep, Counts
<1>9. \A q \in Procs : q # p => InStep(q)'
  <2> SUFFICES ASSUME NEW q \in Procs, q # p PROVE InStep(q)'
    OBVIOUS
  <2>1. pc'[q] = pc[q] /\ calls'[q] = calls[q] /\ epoch'[q] = epoch[q] /\ counter'[q] = counter[q]
    BY <1>0 DEF IInv, ControlOK
  <2> QED
    BY <2>1, OthersInStep
<1> QED
  BY <1>6, <1>8, <1>9 DEF IInv

\* The last thread on its way into and out of MPI, or past it.
LEMMA LeadInv ==
    ASSUME IInv, NEW p \in Procs, Lead(p)
    PROVE  IInv'
<1>1. CASE EnterMpi(p)
  BY <1>1, WaitingInStep, ThreadsFacts DEF EnterMpi
<1>2. CASE LeaveMpi(p)
  <2>1. pc[p][LastIndex] = "mpi" /\ counter[p][epoch[p][LastIndex]] = N
    BY <1>2, ThreadsFacts DEF LeaveMpi, IInv, InStep, InRound
  <2>2. PICK result : Publish(p, result)
    BY <1>2 DEF LeaveMpi
  <2> QED
    BY <2>1, <2>2, PublishInv
<1>3. CASE PublishLocal(p)
  BY <1>3, PublishInv DEF PublishLocal
<1> QED
  BY <1>1, <1>2, <1>3 DEF Lead

\* Nobody has arrived at first.
LEMMA InitInv == Init => IInv
<1> SUFFICES ASSUME Init PROVE IInv
  OBVIOUS
<1>1. ControlOK
  BY ThreadsFacts DEF Init, ControlOK, Epochs, Places
<1>2. ASSUME NEW p \in Procs PROVE InStep(p)
  <2>1. Rounds(p) = 0
    BY ThreadsFacts DEF Init, Rounds, Past
  <2>2. Arrived(p) = {}
    BY <2>1 DEF Init, Arrived
  <2>3. Cardinality(Arrived(p)) = 0
    BY <2>2, FS_EmptySet
  <2>4. Counts(p)
    BY <2>1, <2>3 DEF Init, Counts, Epochs
  <2>5. \A t \in Threads : InRound(p, t)
    BY <2>1 DEF Init, InRound, Returned, Past
  <2> QED
    BY <2>4, <2>5 DEF InStep
<1> QED
  BY <1>1, <1>2 DEF IInv

-----------------------------------------------------------------------------
(* The theorems.                                                           *)

\* Counters, epochs and rounds of Allreduce() stay in step (lines 323-377).
THEOREM AllreduceInvariance == Spec => []IInv
<1>1. Init => IInv
  BY InitInv
<1>2. IInv /\ [Next]_vars => IInv'
  <2> SUFFICES ASSUME IInv, [Next]_vars PROVE IInv'
    OBVIOUS
  <2>1. ASSUME NEW p \in Procs, NEW t \in Threads, Step(p, t) PROVE IInv'
    <3>1. CASE SleepAgain(p, t)
      BY <3>1, WaitingInStep DEF SleepAgain
    <3> QED
      BY <2>1, <3>1, EnterInv, UnlockInv, ReadInv DEF Step
  <2>2. ASSUME NEW p \in Procs, NEW t \in Threads, SpuriousWakeup(p, t) PROVE IInv'
    BY <2>2, WaitingInStep DEF SpuriousWakeup
  <2>3. ASSUME NEW p \in Procs, Lead(p) PROVE IInv'
    BY <2>3, LeadInv
  <2>4. CASE UNCHANGED vars
    BY <2>4, OthersInStep DEF vars, IInv, ControlOK
  <2> QED
    BY <2>1, <2>2, <2>3, <2>4 DEF Next, Done
<1> QED
  BY <1>1, <1>2, PTL DEF Spec

\* While a thread is about to read a copy of the accumulator without the mutex
\* (line 375), no other thread is about to write that copy.
THEOREM NoRace == Spec => []NoRaceOnAccumulator
<1>1. IInv => NoRaceOnAccumulator
  <2> SUFFICES ASSUME IInv, NEW p \in Procs, NEW t \in Threads, NEW u \in Threads,
                      pc[p][t] = "read", epoch[p][u] = epoch[p][t]
               PROVE  pc[p][u] # "out" /\ pc[p][u] # "mpi"
    BY DEF NoRaceOnAccumulator
  <2>1. /\ calls[p][t] = Rounds(p) /\ Rounds(p) \in Nat \ {0}
        /\ epoch[p][t] = (Rounds(p) - 1) % 2
    BY NatFacts DEF IInv, InStep, InRound, Returned, Past
  <2>2. epoch[p][t] # Rounds(p) % 2
    BY <2>1
  <2>3. pc[p][u] # "out"
    BY <2>2, OutsideIsCurrent
  <2>4. pc[p][u] # "mpi"
    <3>1. SUFFICES ASSUME pc[p][u] = "mpi" PROVE FALSE
      OBVIOUS
    <3>2. u = LastIndex /\ counter[p][epoch[p][LastIndex]] = N /\ pc[p][LastIndex] \notin Past
      BY <3>1 DEF IInv, InStep, InRound, Past
    <3> QED
      BY <2>2, <3>2, FullMeansAllArrived
  <2> QED
    BY <2>3, <2>4
<1> QED
  BY <1>1, AllreduceInvariance, PTL

\* Allreduce() is a barrier of the threads of a process, average = 0 included:
\* no call returns before every thread has made the matching call.
THEOREM ThreadsDoMeet == Spec => []ThreadsMeet
<1>1. IInv => ThreadsMeet
  <2> SUFFICES ASSUME IInv, NEW p \in Procs, NEW t \in Threads, NEW u \in Threads
               PROVE  Returned(p, t) <= calls[p][u]
    BY DEF ThreadsMeet
  <2>1. Rounds(p) <= calls[p][u] /\ calls[p][u] \in Nat /\ calls[p][t] \in Nat /\ Rounds(p) \in Nat
    BY NatFacts DEF IInv, InStep, InRound
  <2>2. Returned(p, t) <= Rounds(p)
    BY <2>1 DEF IInv, InStep, InRound, Returned, Past
  <2> QED
    BY <2>1, <2>2 DEF Returned
<1> QED
  BY <1>1, AllreduceInvariance, PTL

-----------------------------------------------------------------------------
(* The MPI_Allreduces tie the processes together: a process has begun as   *)
(* many of them as its rounds asked for, and no process publishes a result *)
(* before every process has begun the same one.                            *)

IsSeq(s) == \E S : s \in Seq(S)
InMpi(p) == pc[p][LastIndex] = "mpi"

\* What p has begun is what its published rounds needed, and what it waits in.
Begun(p) == Len(mpi[p]) = Meetings(Rounds(p)) + (IF InMpi(p) THEN 1 ELSE 0)

MpiInv ==
    /\ mpi = [p \in Procs |-> mpi[p]]
    /\ \A p \in Procs : IsSeq(mpi[p]) /\ Begun(p)
    /\ \A p \in Procs : InMpi(p) => average[calls[p][LastIndex]] # "r0"
    /\ \A p, q \in Procs : Meetings(Rounds(p)) <= Len(mpi[q])

-----------------------------------------------------------------------------
(* Facts about meetings and sequences.                                     *)

LEMMA MeetingsFacts ==
    /\ Meetings(0) = 0
    /\ \A n \in Nat : Meetings(n) \in Nat
    /\ \A n \in Nat : Meetings(n + 1) = Meetings(n) + (IF average[n + 1] # "r0" THEN 1 ELSE 0)
    /\ \A n \in Nat : \A m \in 0 .. n : Meetings(m) <= Meetings(n)
<1> DEFINE Met(n) == {k \in 1 .. n : average[k] # "r0"}
<1>1. \A n : Meetings(n) = Cardinality(Met(n))
  BY DEF Meetings
<1>2. ASSUME NEW n \in Nat
      PROVE  IsFiniteSet(Met(n)) /\ Cardinality(Met(n)) \in Nat
  <2>1. IsFiniteSet(1 .. n)
    BY FS_Interval
  <2>2. IsFiniteSet(Met(n))
    BY <2>1, FS_Subset
  <2> QED
    BY <2>2, FS_CardinalityType
<1>3. Meetings(0) = 0
  <2>1. Met(0) = {}
    OBVIOUS
  <2> QED
    BY <2>1, <1>1, FS_EmptySet
<1>4. ASSUME NEW n \in Nat
      PROVE  Meetings(n + 1) = Meetings(n) + (IF average[n + 1] # "r0" THEN 1 ELSE 0)
  <2>1. n + 1 \notin Met(n)
    OBVIOUS
  <2>2. Met(n + 1) = IF average[n + 1] # "r0" THEN Met(n) \cup {n + 1} ELSE Met(n)
    OBVIOUS
  <2>3. Cardinality(Met(n) \cup {n + 1}) = Cardinality(Met(n)) + 1
    BY <2>1, <1>2, FS_AddElement
  <2> HIDE DEF Met
  <2> QED
    BY <2>2, <2>3, <1>1, <1>2
<1>5. ASSUME NEW n \in Nat, NEW m \in 0 .. n
      PROVE  Meetings(m) <= Meetings(n)
  <2>1. Met(m) \subseteq Met(n)
    OBVIOUS
  <2> QED
    BY <2>1, <1>1, <1>2, FS_Subset
<1> QED
  BY <1>1, <1>2, <1>3, <1>4, <1>5

LEMMA AppendFacts ==
    ASSUME NEW s, IsSeq(s), NEW x
    PROVE  IsSeq(Append(s, x)) /\ Len(s) \in Nat /\ Len(Append(s, x)) = Len(s) + 1
<1>1. PICK S : s \in Seq(S)
  BY DEF IsSeq
<1>2. s \in Seq(S \cup {x}) /\ x \in S \cup {x}
  BY <1>1
<1>3. Append(s, x) \in Seq(S \cup {x}) /\ Len(s) \in Nat /\ Len(Append(s, x)) = Len(s) + 1
  BY <1>2
<1> QED
  BY <1>3 DEF IsSeq

\* The reductions were chosen at first and stay.
LEMMA SameMeetings ==
    ASSUME average' = average
    PROVE  /\ \A p \in Procs : Meetings(Rounds(p))' = Meetings(Rounds(p)')
           /\ \A p \in Procs, t \in Threads :
                 /\ Meetings(calls[p][t])' = Meetings(calls'[p][t])
                 /\ Meetings(Returned(p, t))' = Meetings(Returned(p, t)')
  BY DEF Meetings

-----------------------------------------------------------------------------
(* The invariant of the MPI_Allreduces.                                    *)

\* A step that neither enters nor leaves MPI_Allreduce nor publishes a result.
LEMMA AsideMpi ==
    ASSUME MpiInv, average' = average, mpi' = mpi,
           \A q \in Procs : /\ Rounds(q)' = Rounds(q)
                            /\ InMpi(q)' <=> InMpi(q)
                            /\ InMpi(q) => calls'[q][LastIndex] = calls[q][LastIndex]
    PROVE  MpiInv'
<1>1. \A q \in Procs : Meetings(Rounds(q))' = Meetings(Rounds(q))
  BY SameMeetings
<1> QED
  BY <1>1 DEF MpiInv, Begun

LEMMA EnterMpiInv ==
    ASSUME IInv, MpiInv, NEW p \in Procs, EnterMpi(p)
    PROVE  MpiInv'
<1>0. /\ pc[p][LastIndex] = "woken" /\ average[calls[p][LastIndex]] # "r0"
      /\ mpi' = [mpi EXCEPT ![p] = Append(mpi[p], accumulator[p][epoch[p][LastIndex]])]
      /\ pc' = [pc EXCEPT ![p][LastIndex] = "mpi"]
      /\ average' = average /\ calls' = calls
  BY DEF EnterMpi
<1>1. /\ InMpi(p)' /\ ~InMpi(p)
      /\ \A q \in Procs : Rounds(q)' = Rounds(q) /\ (q # p => (InMpi(q)' <=> InMpi(q)))
  BY <1>0, ThreadsFacts DEF InMpi, Rounds, Past, IInv, ControlOK
<1>2. \A q \in Procs : mpi'[q] = IF q = p THEN Append(mpi[p], accumulator[p][epoch[p][LastIndex]])
                                         ELSE mpi[q]
  BY <1>0 DEF MpiInv
<1>3. /\ IsSeq(mpi'[p]) /\ Len(mpi'[p]) = Len(mpi[p]) + 1 /\ Len(mpi[p]) \in Nat
  <2> DEFINE x == accumulator[p][epoch[p][LastIndex]]
  <2>1. IsSeq(mpi[p])
    BY DEF MpiInv
  <2>2. IsSeq(Append(mpi[p], x)) /\ Len(mpi[p]) \in Nat /\ Len(Append(mpi[p], x)) = Len(mpi[p]) + 1
    BY <2>1, AppendFacts
  <2>3. mpi'[p] = Append(mpi[p], x)
    BY <1>2
  <2> QED
    BY <2>2, <2>3
<1>4. \A q \in Procs : Meetings(Rounds(q))' = Meetings(Rounds(q)) /\ Meetings(Rounds(q)) \in Nat
  BY <1>0, <1>1, SameMeetings, MeetingsFacts, NatFacts, ThreadsFacts
<1>5. \A q \in Procs : IsSeq(mpi[q])' /\ Begun(q)'
  BY <1>1, <1>2, <1>3, <1>4 DEF MpiInv, Begun
<1>6. \A q, r \in Procs : Meetings(Rounds(q))' <= Len(mpi'[r])
  BY <1>2, <1>3, <1>4 DEF MpiInv
<1>7. \A q \in Procs : InMpi(q)' => average'[calls'[q][LastIndex]] # "r0"
  BY <1>0, <1>1 DEF MpiInv
<1>8. mpi' = [q \in Procs |-> mpi'[q]]
  BY <1>0 DEF MpiInv
<1> QED
  BY <1>5, <1>6, <1>7, <1>8 DEF MpiInv

\* Publishing a result is safe for the others when all have begun what is needed.
LEMMA PublishMpiInv ==
    ASSUME IInv, MpiInv, NEW p \in Procs, NEW result, Publish(p, result),
           pc[p][LastIndex] \in {"woken", "mpi"},
           \A q \in Procs : Meetings(calls[p][LastIndex]) <= Len(mpi[q]),
           Len(mpi[p]) = Meetings(calls[p][LastIndex])
    PROVE  MpiInv'
<1>0. /\ pc' = [pc EXCEPT ![p] = [NotifyAll(p, epoch[p][LastIndex]) EXCEPT ![LastIndex] = "read"]]
      /\ average' = average /\ calls' = calls /\ mpi' = mpi
  BY DEF Publish
<1>1. /\ pc'[p][LastIndex] = "read"
      /\ \A q \in Procs : q # p => pc'[q] = pc[q]
  BY <1>0, ThreadsFacts DEF NotifyAll, IInv, ControlOK
<1>2. /\ Rounds(p)' = calls[p][LastIndex] /\ ~InMpi(p)'
      /\ \A q \in Procs : q # p => Rounds(q)' = Rounds(q) /\ (InMpi(q)' <=> InMpi(q))
  BY <1>0, <1>1 DEF Rounds, Past, InMpi
<1>3. \A q \in Procs : Meetings(Rounds(q))' = IF q = p THEN Meetings(calls[p][LastIndex])
                                                       ELSE Meetings(Rounds(q))
  BY <1>0, <1>2, SameMeetings
<1>4. \A q \in Procs : Begun(q)'
  <2>1. Meetings(calls[p][LastIndex]) \in Nat
    BY NatFacts, ThreadsFacts, MeetingsFacts
  <2> QED
    BY <2>1, <1>0, <1>2, <1>3 DEF MpiInv, Begun
<1> QED
  BY <1>0, <1>2, <1>3, <1>4 DEF MpiInv

LEMMA LeadMpiInv ==
    ASSUME IInv, MpiInv, NEW p \in Procs, Lead(p)
    PROVE  MpiInv'
<1> DEFINE k == calls[p][LastIndex]
<1>1. ASSUME pc[p][LastIndex] \in {"woken", "mpi"}
      PROVE  /\ k = Rounds(p) + 1 /\ Rounds(p) \in Nat /\ Meetings(Rounds(p)) \in Nat
             /\ Meetings(k) = Meetings(Rounds(p)) + (IF average[k] # "r0" THEN 1 ELSE 0)
  <2>1. k = Rounds(p) + 1 /\ Rounds(p) \in Nat
    BY <1>1, NatFacts, ThreadsFacts DEF Rounds, Past
  <2> QED
    BY <2>1, MeetingsFacts
<1>2. CASE EnterMpi(p)
  BY <1>2, EnterMpiInv
<1>3. CASE LeaveMpi(p)
  <2>1. PICK result : Publish(p, result)
    BY <1>3 DEF LeaveMpi
  <2>2. InMpi(p) /\ pc[p][LastIndex] \in {"woken", "mpi"} /\ average[k] # "r0"
    BY <1>3 DEF LeaveMpi, InMpi, MpiInv
  <2>3. Len(mpi[p]) = Meetings(k)
    BY <2>2, <1>1 DEF MpiInv, Begun
  <2>4. \A q \in Procs : Meetings(k) <= Len(mpi[q])
    BY <2>3, <1>3 DEF LeaveMpi, MpiMayReturn
  <2> QED
    BY <2>1, <2>2, <2>3, <2>4, PublishMpiInv
<1>4. CASE PublishLocal(p)
  <2>1. PICK result : Publish(p, result)
    BY <1>4 DEF PublishLocal
  <2>2. ~InMpi(p) /\ pc[p][LastIndex] \in {"woken", "mpi"} /\ average[k] = "r0"
    BY <1>4 DEF PublishLocal, InMpi
  <2>3. Meetings(k) = Meetings(Rounds(p)) /\ Len(mpi[p]) = Meetings(k)
    BY <2>2, <1>1 DEF MpiInv, Begun
  <2>4. \A q \in Procs : Meetings(k) <= Len(mpi[q])
    BY <2>3 DEF MpiInv
  <2> QED
    BY <2>1, <2>2, <2>3, <2>4, PublishMpiInv
<1> QED
  BY <1>2, <1>3, <1>4 DEF Lead

\* No thread is outside Allreduce() while its process is in MPI.
LEMMA NobodyOutDuringMpi ==
    ASSUME IInv, NEW p \in Procs, NEW t \in Threads, pc[p][t] = "out"
    PROVE  ~InMpi(p)
<1> SUFFICES ASSUME InMpi(p) PROVE FALSE
  OBVIOUS
<1>1. pc[p][LastIndex] \notin Past /\ counter[p][epoch[p][LastIndex]] = N
  BY ThreadsFacts DEF IInv, InStep, InRound, InMpi, Past
<1>2. pc[p][t] \notin Past
  BY <1>1, FullMeansAllArrived
<1> QED
  BY <1>2 DEF Past

\* A step of one thread stays clear of MPI.
LEMMA StepMpiInv ==
    ASSUME IInv, MpiInv, NEW p \in Procs, NEW t \in Threads, Step(p, t) \/ SpuriousWakeup(p, t)
    PROVE  MpiInv'
<1>1. CASE Enter(p, t)
  <2>1. /\ average' = average /\ mpi' = mpi /\ pc[p][t] = "out"
        /\ calls' = [calls EXCEPT ![p][t] = calls[p][t] + 1]
        /\ \A q \in Procs : q # p => pc'[q] = pc[q]
    BY <1>1 DEF Enter, IInv, ControlOK
  <2>2. /\ pc'[p][t] \in {"sleep", "woken"}
        /\ \A u \in Threads : u # t =>
              pc'[p][u] = pc[p][u] \/ (pc[p][u] = "sleep" /\ pc'[p][u] = "woken")
    BY <1>1 DEF Enter, NotifyAll, IInv, ControlOK
  <2>3. ~InMpi(p)
    BY <2>1, NobodyOutDuringMpi
  <2>4. \A q \in Procs : InMpi(q)' <=> InMpi(q)
    BY <2>1, <2>2, <2>3, ThreadsFacts DEF InMpi
  <2>5. \A q \in Procs, u \in Threads :
           calls'[q][u] = IF q = p /\ u = t THEN calls[p][t] + 1 ELSE calls[q][u]
    BY <2>1 DEF IInv, ControlOK
  <2>6. Rounds(p)' = Rounds(p)
    <3>1. CASE t = LastIndex
      BY <3>1, <2>1, <2>2, <2>5, NatFacts DEF Rounds, Past
    <3>2. CASE t # LastIndex
      BY <3>2, <2>2, <2>5, ThreadsFacts DEF Rounds, Past
    <3> QED
      BY <3>1, <3>2
  <2>7. \A q \in Procs : Rounds(q)' = Rounds(q)
    BY <2>1, <2>5, <2>6, ThreadsFacts DEF Rounds
  <2> QED
    BY <2>1, <2>3, <2>4, <2>5, <2>7, ThreadsFacts, AsideMpi
<1>2. CASE SleepAgain(p, t) \/ Unlock(p, t) \/ Read(p, t) \/ SpuriousWakeup(p, t)
  <2>1. average' = average /\ mpi' = mpi /\ calls' = calls
    BY <1>2 DEF SleepAgain, Unlock, Read, SpuriousWakeup
  <2>2. PICK place \in Places :
          /\ pc' = [pc EXCEPT ![p][t] = place]
          /\ t = LastIndex => \/ {pc[p][t], place} \subseteq {"sleep", "woken"}
                         \/ {pc[p][t], place} \subseteq Past
    BY <1>2 DEF SleepAgain, Unlock, Read, SpuriousWakeup, Past, Places
  <2>3. \A q \in Procs : Rounds(q)' = Rounds(q) /\ (InMpi(q)' <=> InMpi(q))
    BY <2>1, <2>2, ThreadsFacts DEF Rounds, Past, InMpi, IInv, ControlOK
  <2> QED
    BY <2>1, <2>3, AsideMpi
<1> QED
  BY <1>1, <1>2 DEF Step

LEMMA InitMpiInv == Init => IInv /\ MpiInv
<1> SUFFICES ASSUME Init PROVE MpiInv
  BY InitInv
<1>1. \A p \in Procs : Rounds(p) = 0 /\ ~InMpi(p)
  BY ThreadsFacts DEF Init, Rounds, Past, InMpi
<1>2. mpi = [p \in Procs |-> <<>>] /\ \A p \in Procs : Len(mpi[p]) = 0
  BY DEF Init
<1>3. \A p \in Procs : IsSeq(mpi[p])
  <2>1. <<>> \in Seq({})
    OBVIOUS
  <2> QED
    BY <1>2, <2>1 DEF IsSeq
<1>4. \A p \in Procs : Meetings(Rounds(p)) = 0
  BY <1>1, MeetingsFacts
<1>5. \A p \in Procs : Begun(p)
  BY <1>1, <1>2, <1>4 DEF Begun
<1>6. mpi = [p \in Procs |-> mpi[p]]
  BY <1>2
<1>7. \A p, q \in Procs : Meetings(Rounds(p)) <= Len(mpi[q])
  BY <1>2, <1>4
<1> QED
  BY <1>1, <1>3, <1>5, <1>6, <1>7 DEF MpiInv

\* The processes begin their MPI_Allreduces in step with their rounds (349-361).
THEOREM MpiInvariance == Spec => [](IInv /\ MpiInv)
<1>1. Init => IInv /\ MpiInv
  BY InitMpiInv
<1>2. (IInv /\ MpiInv) /\ IInv' /\ [Next]_vars => (IInv /\ MpiInv)'
  <2> SUFFICES ASSUME IInv, MpiInv, [Next]_vars PROVE MpiInv'
    OBVIOUS
  <2>1. CASE UNCHANGED vars
    BY <2>1, AsideMpi DEF vars, Rounds, InMpi
  <2> QED
    BY <2>1, StepMpiInv, LeadMpiInv DEF Next, Done
<1> QED
  BY <1>1, <1>2, AllreduceInvariance, PTL DEF Spec

-----------------------------------------------------------------------------
(* The refinement.                                                         *)

\* No process has published more meetings than any thread has come to.
LEMMA MeetingsMeet ==
    ASSUME IInv, MpiInv, NEW p \in Procs, NEW q \in Procs, NEW u \in Threads
    PROVE  Meetings(Rounds(p)) <= Meetings(calls[q][u])
<1>1. Rounds(q) \in Nat /\ calls[q][u] \in Nat /\ Rounds(q) <= calls[q][u]
  BY NatFacts DEF IInv, InStep, InRound
<1>2. /\ Meetings(Rounds(q)) \in Nat /\ Meetings(calls[q][u]) \in Nat
      /\ Meetings(Rounds(q)) <= Meetings(calls[q][u])
  BY <1>1, MeetingsFacts
<1>3. Len(mpi[q]) <= Meetings(calls[q][u])
  <2>1. CASE InMpi(q)
    <3>1. pc[q][LastIndex] \notin Past /\ counter[q][epoch[q][LastIndex]] = N
      BY <2>1, ThreadsFacts DEF IInv, InStep, InRound, InMpi, Past
    <3>2. calls[q][u] = Rounds(q) + 1 /\ calls[q][LastIndex] = Rounds(q) + 1
      BY <3>1, FullMeansAllArrived
    <3>3. Meetings(calls[q][u]) = Meetings(Rounds(q)) + 1
      BY <3>2, <2>1, <1>1, MeetingsFacts DEF MpiInv
    <3> QED
      BY <3>3, <2>1, <1>2 DEF MpiInv, Begun
  <2>2. CASE ~InMpi(q)
    BY <2>2, <1>2 DEF MpiInv, Begun
  <2> QED
    BY <2>1, <2>2
<1>4. Meetings(Rounds(p)) <= Len(mpi[q]) /\ Meetings(Rounds(p)) \in Nat
  BY NatFacts, MeetingsFacts DEF MpiInv
<1>5. Len(mpi[q]) \in Nat
  BY <1>2 DEF MpiInv, Begun
<1> QED
  BY <1>2, <1>3, <1>4, <1>5

\* What the mapping gives the abstract barrier.
aEntered == [m \in Everyone |-> Meetings(calls[m[1]][m[2]])]
aLeft == [m \in Everyone |-> Meetings(Returned(m[1], m[2]))]

\* A member is named by its process and its thread.
LEMMA MemberFacts ==
    ASSUME NEW p \in Procs, NEW t \in Threads, NEW o \in Everyone
    PROVE  /\ o[1] \in Procs /\ o[2] \in Threads
           /\ o = <<p, t>> <=> o[1] = p /\ o[2] = t
  BY DEF Everyone

\* A step that neither begins nor ends a call is a stutter.
LEMMA StutterMaps ==
    ASSUME average' = average, calls' = calls,
           \A q \in Procs, u \in Threads : Returned(q, u)' = Returned(q, u)
    PROVE  UNCHANGED Abstract!barrierVars
<1>1. \A q \in Procs, u \in Threads :
         Meetings(calls[q][u])' = Meetings(calls[q][u])
         /\ Meetings(Returned(q, u))' = Meetings(Returned(q, u))
  BY SameMeetings
<1>2. aEntered' = aEntered /\ aLeft' = aLeft
  BY <1>1 DEF aEntered, aLeft, Everyone
<1> QED
  BY <1>2 DEF Abstract!barrierVars, aEntered, aLeft

\* Beginning a call is Enter, or a stutter when the call's average is 0.
LEMMA EnterMaps ==
    ASSUME IInv, NEW p \in Procs, NEW t \in Threads, Enter(p, t)
    PROVE  Abstract!Next \/ UNCHANGED Abstract!barrierVars
<1> DEFINE m == <<p, t>>
           k == calls[p][t] + 1
<1>0. /\ average' = average /\ pc[p][t] = "out"
      /\ calls' = [calls EXCEPT ![p][t] = k]
      /\ \A q \in Procs, u \in Threads :
            pc'[q][u] = "out" <=> pc[q][u] = "out" /\ ~(q = p /\ u = t)
  BY DEF Enter, NotifyAll, IInv, ControlOK
<1>1. \A q \in Procs, u \in Threads :
         calls'[q][u] = IF q = p /\ u = t THEN k ELSE calls[q][u]
  BY <1>0 DEF IInv, ControlOK
<1>2. calls[p][t] \in Nat
  BY NatFacts
<1>3. \A q \in Procs, u \in Threads : Returned(q, u)' = Returned(q, u)
  BY <1>0, <1>1, <1>2 DEF Returned
<1>4. aLeft' = aLeft
  <2>1. \A q \in Procs, u \in Threads : Meetings(Returned(q, u))' = Meetings(Returned(q, u))
    BY <1>0, <1>3, SameMeetings
  <2> QED
    BY <2>1 DEF aLeft, Everyone
<1>5. Meetings(k) = Meetings(calls[p][t]) + (IF average[k] # "r0" THEN 1 ELSE 0)
  BY <1>2, MeetingsFacts
<1>6. \A o \in Everyone :
         aEntered'[o] = IF o = m THEN Meetings(k) ELSE aEntered[o]
  <2>1. \A q \in Procs, u \in Threads :
           Meetings(calls[q][u])' = IF q = p /\ u = t THEN Meetings(k) ELSE Meetings(calls[q][u])
    BY <1>0, <1>1, SameMeetings
  <2> SUFFICES ASSUME NEW o \in Everyone
               PROVE  aEntered'[o] = IF o = m THEN Meetings(k) ELSE aEntered[o]
    OBVIOUS
  <2>2. o[1] \in Procs /\ o[2] \in Threads /\ (o = m <=> o[1] = p /\ o[2] = t)
    BY MemberFacts
  <2>3. /\ aEntered'[o] = Meetings(calls[o[1]][o[2]])'
        /\ aEntered[o] = Meetings(calls[o[1]][o[2]])
    BY DEF aEntered
  <2> HIDE DEF m, k
  <2> QED
    BY <2>1, <2>2, <2>3
<1>7. /\ aEntered = [o \in Everyone |-> aEntered[o]]
      /\ aEntered' = [o \in Everyone |-> aEntered'[o]]
      /\ m \in Everyone /\ aEntered[m] = Meetings(calls[p][t])
      /\ aLeft[m] = Meetings(calls[p][t])
  BY <1>0 DEF aEntered, aLeft, Returned, Everyone
<1>8. CASE average[k] # "r0"
  <2>1. aEntered' = [aEntered EXCEPT ![m] = @ + 1]
    <3> HIDE DEF m, k
    <3> QED
      BY <1>5, <1>6, <1>7, <1>8
  <2>2. Abstract!Enter(m)
    BY <2>1, <1>4, <1>7 DEF Abstract!Enter, Abstract!Inside, aEntered, aLeft
  <2> QED
    BY <2>2, <1>7 DEF Abstract!Next
<1>9. CASE average[k] = "r0"
  <2>1. aEntered' = aEntered
    <3>1. Meetings(calls[p][t]) \in Nat
      BY <1>2, MeetingsFacts
    <3> HIDE DEF m, k
    <3> QED
      BY <3>1, <1>5, <1>6, <1>7, <1>9
  <2> QED
    BY <2>1, <1>4 DEF Abstract!barrierVars, aEntered, aLeft
<1> QED
  BY <1>8, <1>9

\* Reading the result ends a call: Leave, or a stutter when its average is 0.
LEMMA ReadMaps ==
    ASSUME IInv, MpiInv, NEW p \in Procs, NEW t \in Threads, Read(p, t)
    PROVE  Abstract!Next \/ UNCHANGED Abstract!barrierVars
<1> DEFINE m == <<p, t>>
           k == calls[p][t]
<1>0. /\ average' = average /\ calls' = calls /\ pc[p][t] = "read"
      /\ \A q \in Procs, u \in Threads :
            pc'[q][u] = IF q = p /\ u = t THEN "out" ELSE pc[q][u]
  BY DEF Read, IInv, ControlOK
<1>1. k = Rounds(p) /\ k \in Nat \ {0} /\ k - 1 \in Nat
  BY <1>0, NatFacts DEF IInv, InStep, InRound, Past
<1>2. /\ Returned(p, t) = k - 1
      /\ \A q \in Procs, u \in Threads :
            Returned(q, u)' = IF q = p /\ u = t THEN k ELSE Returned(q, u)
  BY <1>0 DEF Returned
<1>3. aEntered' = aEntered
  <2>1. \A q \in Procs, u \in Threads : Meetings(calls[q][u])' = Meetings(calls[q][u])
    BY <1>0, SameMeetings
  <2> QED
    BY <2>1 DEF aEntered, Everyone
<1>4. /\ Meetings(k) = Meetings(k - 1) + (IF average[k] # "r0" THEN 1 ELSE 0)
      /\ Meetings(k) \in Nat /\ Meetings(k - 1) \in Nat
  <2>1. Meetings((k - 1) + 1) = Meetings(k - 1) + (IF average[(k - 1) + 1] # "r0" THEN 1 ELSE 0)
    BY <1>1, MeetingsFacts
  <2>2. (k - 1) + 1 = k
    BY <1>1
  <2> QED
    BY <2>1, <2>2, <1>1, MeetingsFacts
<1>5. \A o \in Everyone : aLeft'[o] = IF o = m THEN Meetings(k) ELSE aLeft[o]
  <2>1. \A q \in Procs, u \in Threads :
           Meetings(Returned(q, u))' =
               IF q = p /\ u = t THEN Meetings(k) ELSE Meetings(Returned(q, u))
    BY <1>0, <1>2, SameMeetings
  <2> SUFFICES ASSUME NEW o \in Everyone
               PROVE  aLeft'[o] = IF o = m THEN Meetings(k) ELSE aLeft[o]
    OBVIOUS
  <2>2. o[1] \in Procs /\ o[2] \in Threads /\ (o = m <=> o[1] = p /\ o[2] = t)
    BY MemberFacts
  <2>3. /\ aLeft'[o] = Meetings(Returned(o[1], o[2]))'
        /\ aLeft[o] = Meetings(Returned(o[1], o[2]))
    BY DEF aLeft
  <2> HIDE DEF m, k
  <2> QED
    BY <2>1, <2>2, <2>3
<1>6. /\ aLeft = [o \in Everyone |-> aLeft[o]]
      /\ aLeft' = [o \in Everyone |-> aLeft'[o]]
      /\ m \in Everyone /\ aEntered[m] = Meetings(k) /\ aLeft[m] = Meetings(k - 1)
  BY <1>2 DEF aEntered, aLeft, Everyone
<1>7. \A o \in Everyone : aEntered[o] >= aEntered[m]
  <2>1. \A q \in Procs, u \in Threads :
           Meetings(k) <= Meetings(calls[q][u]) /\ Meetings(calls[q][u]) \in Nat
    BY <1>1, MeetingsMeet, NatFacts, MeetingsFacts
  <2> SUFFICES ASSUME NEW o \in Everyone PROVE aEntered[o] >= aEntered[m]
    OBVIOUS
  <2>2. aEntered[o] = Meetings(calls[o[1]][o[2]]) /\ o[1] \in Procs /\ o[2] \in Threads
    BY MemberFacts DEF aEntered
  <2> HIDE DEF m, k
  <2> QED
    BY <2>1, <2>2, <1>4, <1>6
<1>8. CASE average[k] # "r0"
  <2>1. aLeft' = [aLeft EXCEPT ![m] = aEntered[m]] /\ aEntered[m] # aLeft[m]
    <3> HIDE DEF m, k
    <3> QED
      BY <1>4, <1>5, <1>6, <1>8
  <2>2. Abstract!Leave(m)
    BY <2>1, <1>3, <1>7 DEF Abstract!Leave, Abstract!Inside, aEntered, aLeft
  <2> QED
    BY <2>2, <1>6 DEF Abstract!Next
<1>9. CASE average[k] = "r0"
  <2>1. aLeft' = aLeft
    <3> HIDE DEF m, k
    <3> QED
      BY <1>4, <1>5, <1>6, <1>9
  <2> QED
    BY <2>1, <1>3 DEF Abstract!barrierVars, aEntered, aLeft
<1> QED
  BY <1>8, <1>9

\* The other steps move nobody in or out.
LEMMA OtherMaps ==
    ASSUME IInv, NEW p \in Procs, NEW t \in Threads,
           \/ SleepAgain(p, t) \/ Unlock(p, t) \/ SpuriousWakeup(p, t)
           \/ Lead(p)
    PROVE  UNCHANGED Abstract!barrierVars
<1>1. average' = average /\ calls' = calls
  BY DEF SleepAgain, Unlock, SpuriousWakeup, Lead, EnterMpi, LeaveMpi, PublishLocal, Publish
<1>2. \A q \in Procs, u \in Threads : pc'[q][u] = "out" <=> pc[q][u] = "out"
  <2>1. CASE SleepAgain(p, t) \/ Unlock(p, t) \/ SpuriousWakeup(p, t)
    <3>1. PICK place \in {"sleep", "woken", "read"} :
             pc' = [pc EXCEPT ![p][t] = place] /\ pc[p][t] \in {"sleep", "woken"}
      BY <2>1 DEF SleepAgain, Unlock, SpuriousWakeup
    <3> QED
      BY <3>1 DEF IInv, ControlOK
  <2>2. CASE EnterMpi(p)
    BY <2>2, ThreadsFacts DEF EnterMpi, IInv, ControlOK
  <2>3. ASSUME NEW result, Publish(p, result), pc[p][LastIndex] \in {"woken", "mpi"}
        PROVE  \A q \in Procs, u \in Threads : pc'[q][u] = "out" <=> pc[q][u] = "out"
    BY <2>3, ThreadsFacts DEF Publish, NotifyAll, IInv, ControlOK
  <2> QED
    BY <2>1, <2>2, <2>3 DEF Lead, LeaveMpi, PublishLocal
<1> QED
  BY <1>1, <1>2, StutterMaps DEF Returned

\* Allreduce() implements the abstract barrier over all threads of all
\* processes, in the calls that go through MPI (352-363).
THEOREM AllreduceRefines == Spec => ImplementsBarrier
<1>1. Init => Abstract!Init
  <2> SUFFICES ASSUME Init PROVE Abstract!Init
    OBVIOUS
  <2>1. \A p \in Procs, t \in Threads :
           Meetings(calls[p][t]) = 0 /\ Meetings(Returned(p, t)) = 0
    BY MeetingsFacts DEF Init, Returned
  <2> QED
    BY <2>1 DEF Abstract!Init, Everyone
<1>2. IInv /\ MpiInv /\ [Next]_vars => [Abstract!Next]_(Abstract!barrierVars)
  <2> SUFFICES ASSUME IInv, MpiInv, [Next]_vars
               PROVE  Abstract!Next \/ UNCHANGED Abstract!barrierVars
    OBVIOUS
  <2>1. CASE UNCHANGED vars
    BY <2>1, StutterMaps DEF vars, Returned
  <2>2. ASSUME NEW p \in Procs, NEW t \in Threads, Step(p, t) \/ SpuriousWakeup(p, t)
        PROVE  Abstract!Next \/ UNCHANGED Abstract!barrierVars
    BY <2>2, EnterMaps, ReadMaps, OtherMaps DEF Step
  <2>3. ASSUME NEW p \in Procs, Lead(p)
        PROVE  UNCHANGED Abstract!barrierVars
    BY <2>3, OtherMaps, ThreadsFacts
  <2> QED
    BY <2>1, <2>2, <2>3 DEF Next, Done
<1> QED
  BY <1>1, <1>2, MpiInvariance, PTL DEF Spec, ImplementsBarrier, Abstract!Spec
-----------------------------------------------------------------------------
(* Reductions.                                                             *)

\* v reduces the values of f over S; the least and the greatest are said to
\* be so rather than computed.
Least(v, f, S) == (\E x \in S : v = f[x]) /\ \A x \in S : v <= f[x]
Greatest(v, f, S) == (\E x \in S : v = f[x]) /\ \A x \in S : v >= f[x]
Reduces(op, v, f, S) ==
    /\ op = "r0" /\ 0 \in S => v = f[0]
    /\ op \in {"avg", "sum"} => v = SumFunctionOnSet(f, S)
    /\ op = "min" => Least(v, f, S)
    /\ op = "max" => Greatest(v, f, S)

\* The least value is unique.
LEMMA LeastIsMin ==
    ASSUME NEW S, NEW f, \A x \in S : f[x] \in Int, NEW v
    PROVE  /\ Least(v, f, S) => v = Min({f[x] : x \in S})
           /\ Greatest(v, f, S) => v = Max({f[x] : x \in S})
<1> DEFINE V == {f[x] : x \in S}
<1>1. ASSUME Least(v, f, S) PROVE v = Min(V)
  <2>1. v \in V /\ \A y \in V : v <= y
    BY <1>1 DEF Least
  <2>2. \A x \in V : (\A y \in V : x <= y) => x = v
    BY <2>1
  <2> HIDE DEF V
  <2> QED
    BY <2>1, <2>2 DEF Min
<1>2. ASSUME Greatest(v, f, S) PROVE v = Max(V)
  <2>1. v \in V /\ \A y \in V : v >= y
    BY <1>2 DEF Greatest
  <2>2. \A x \in V : (\A y \in V : x >= y) => x = v
    BY <2>1
  <2> HIDE DEF V
  <2> QED
    BY <2>1, <2>2 DEF Max
<1> QED
  BY <1>1, <1>2

\* What an arrival makes of the accumulator (332-342).
LEMMA CombineReduces ==
    ASSUME NEW op \in AllOps, NEW S \in SUBSET Threads, NEW t \in Threads \ S,
           NEW f \in [Threads -> Int], NEW acc \in Int, S # {} => Reduces(op, acc, f, S)
    PROVE  /\ Combine(op, t, Cardinality(S), acc, f[t]) \in Int
           /\ Reduces(op, Combine(op, t, Cardinality(S), acc, f[t]), f, S \cup {t})
<1> DEFINE n == Cardinality(S)
           new == Combine(op, t, n, acc, f[t])
<1>1. /\ IsFiniteSet(S) /\ IsFiniteSet(S \cup {t}) /\ (n = 0 <=> S = {})
      /\ f[t] \in Int /\ \A x \in S : f[x] \in Int
  BY ThreadsFacts, FS_Subset, FS_EmptySet, FS_AddElement
<1>2. SumFunctionOnSet(f, S \cup {t}) = f[t] + SumFunctionOnSet(f, S)
  <2>1. (S \cup {t}) \ {t} = S /\ t \in S \cup {t} /\ \A x \in S \cup {t} : f[x] \in Int
    OBVIOUS
  <2> QED
    BY <1>1, <2>1, SumRemove
<1>3. SumFunctionOnSet(f, {}) = 0
  BY SumEmpty
<1> HIDE DEF n
<1>4. CASE op = "r0"
  BY <1>1, <1>4 DEF Combine, Reduces, n
<1>5. CASE op \in {"avg", "sum"}
  <2>1. new = IF n = 0 THEN f[t] ELSE acc + f[t]
    BY <1>5 DEF Combine
  <2>2. new = f[t] + SumFunctionOnSet(f, S) /\ new \in Int
    BY <1>1, <1>3, <1>5, <2>1 DEF Reduces
  <2> HIDE DEF new
  <2>3. new \in Int /\ Reduces(op, new, f, S \cup {t})
    BY <1>2, <1>5, <2>2 DEF Reduces
  <2> QED
    BY <2>3 DEF new, n
<1>6. CASE op = "min"
  <2>1. new = IF n = 0 THEN f[t] ELSE IF acc <= f[t] THEN acc ELSE f[t]
    BY <1>6 DEF Combine, LesserOf
  <2> HIDE DEF new
  <2>2. n # 0 => Least(acc, f, S)
    BY <1>1, <1>6 DEF Reduces
  <2>3. Least(new, f, S \cup {t}) /\ new \in Int
    BY <1>1, <2>1, <2>2 DEF Least
  <2>4. new \in Int /\ Reduces(op, new, f, S \cup {t})
    BY <1>6, <2>3 DEF Reduces
  <2> QED
    BY <2>4 DEF new, n
<1>7. CASE op = "max"
  <2>1. new = IF n = 0 THEN f[t] ELSE IF acc >= f[t] THEN acc ELSE f[t]
    BY <1>7 DEF Combine, GreaterOf
  <2> HIDE DEF new
  <2>2. n # 0 => Greatest(acc, f, S)
    BY <1>1, <1>7 DEF Reduces
  <2>3. Greatest(new, f, S \cup {t}) /\ new \in Int
    BY <1>1, <2>1, <2>2 DEF Greatest
  <2>4. new \in Int /\ Reduces(op, new, f, S \cup {t})
    BY <1>7, <2>3 DEF Reduces
  <2> QED
    BY <2>4 DEF new, n
<1> QED
  BY <1>4, <1>5, <1>6, <1>7 DEF AllOps

\* What MPI_Allreduce returns reduces the contributions (357-361).
LEMMA MpiReduces ==
    ASSUME NEW op \in AllOps \ {"r0"}, NEW w \in [Procs -> Int]
    PROVE  MpiReduce(op, w) \in Int /\ Reduces(op, MpiReduce(op, w), w, Procs)
<1>1. IsFiniteSet(Procs) /\ Procs # {} /\ DOMAIN w = Procs /\ \A q \in Procs : w[q] \in Int
  BY AllreduceAssumption
<1>2. CASE op \in {"avg", "sum"}
  <2>1. MpiReduce(op, w) = SumFunctionOnSet(w, Procs)
    BY <1>1, <1>2 DEF MpiReduce, SumFunction
  <2>2. SumFunctionOnSet(w, Procs) \in Int
    BY <1>1, SumInt
  <2> QED
    BY <1>2, <2>1, <2>2 DEF Reduces
<1>3. CASE op = "min"
  <2>1. MpiReduce(op, w) = Min({w[q] : q \in Procs})
    BY <1>1, <1>3 DEF MpiReduce
  <2>2. PICK q \in Procs : \A r \in Procs : w[q] <= w[r]
    BY <1>1, LeastExists
  <2>3. Least(w[q], w, Procs) /\ w[q] \in Int
    BY <1>1, <2>2 DEF Least
  <2>4. MpiReduce(op, w) = w[q]
    BY <1>1, <2>1, <2>3, LeastIsMin
  <2> QED
    BY <1>3, <2>3, <2>4 DEF Reduces
<1>4. CASE op = "max"
  <2>1. MpiReduce(op, w) = Max({w[q] : q \in Procs})
    BY <1>1, <1>4 DEF MpiReduce
  <2>2. PICK q \in Procs : \A r \in Procs : w[q] >= w[r]
    BY <1>1, GreatestExists
  <2>3. Greatest(w[q], w, Procs) /\ w[q] \in Int
    BY <1>1, <2>2 DEF Greatest
  <2>4. MpiReduce(op, w) = w[q]
    BY <1>1, <2>1, <2>3, LeastIsMin
  <2> QED
    BY <1>4, <2>3, <2>4 DEF Reduces
<1> QED
  BY <1>2, <1>3, <1>4 DEF AllOps

\* Reducing what the processes reduced is reducing everything.
LEMMA ReducedTwice ==
    ASSUME NEW op \in AllOps \ {"r0"}, NEW k \in 1 .. MaxCalls,
           NEW w \in [Procs -> Int], \A q \in Procs : Reduces(op, w[q], Args[k][q], Threads),
           NEW v, Reduces(op, v, w, Procs)
    PROVE  Reduces(op, v, Contribution(k), Everyone)
<1> DEFINE g == Args[k]
           c == Contribution(k)
<1>1. /\ IsFiniteSet(Procs) /\ IsFiniteSet(Threads)
      /\ \A q \in Procs : \A t \in Threads : g[q][t] \in Int
  BY AllreduceAssumption, ThreadsFacts DEF Threads
<1>2. c = [m \in Procs \X Threads |-> g[m[1]][m[2]]] /\ Everyone = Procs \X Threads
  BY DEF Contribution, Everyone
<1>3. /\ \A m \in Everyone : m[1] \in Procs /\ m[2] \in Threads /\ c[m] = g[m[1]][m[2]]
      /\ \A q \in Procs, t \in Threads : <<q, t>> \in Everyone /\ c[<<q, t>>] = g[q][t]
  BY <1>2
<1>4. CASE op \in {"avg", "sum"}
  <2> DEFINE h == [q \in Procs |-> SumFunctionOnSet(g[q], Threads)]
  <2>1. \A q \in Procs : w[q] = h[q]
    BY <1>4 DEF Reduces
  <2>2. SumFunctionOnSet(w, Procs) = SumFunctionOnSet(h, Procs)
    BY <1>1, <2>1, SumSame
  <2>3. SumFunctionOnSet(c, Everyone) = SumFunctionOnSet(h, Procs)
    <3>1. Pairs(c, g, Procs, Threads)
      BY <1>3 DEF Pairs
    <3>2. Rows(h, g, Procs, Threads)
      BY DEF Rows
    <3> HIDE DEF g, c, h
    <3>3. SumFunctionOnSet(c, Procs \X Threads) = SumFunctionOnSet(h, Procs)
      BY <1>1, <3>1, <3>2, SumOfSums
    <3> QED
      BY <3>3 DEF Everyone
  <2> QED
    BY <1>4, <2>2, <2>3 DEF Reduces
<1> HIDE DEF g, c
<1>5. CASE op = "min"
  <2>1. Least(v, w, Procs) /\ \A q \in Procs : Least(w[q], g[q], Threads)
    BY <1>5 DEF Reduces, g
  <2>2. \E m \in Everyone : v = c[m]
    <3>1. PICK q \in Procs : v = w[q]
      BY <2>1 DEF Least
    <3>2. PICK t \in Threads : w[q] = g[q][t]
      BY <2>1 DEF Least
    <3>3. <<q, t>> \in Everyone /\ c[<<q, t>>] = g[q][t]
      BY <1>3
    <3>4. c[<<q, t>>] = v
      BY <3>1, <3>2, <3>3
    <3> QED
      BY <3>3, <3>4
  <2>3. ASSUME NEW m \in Everyone PROVE v <= c[m]
    <3>1. v <= w[m[1]] /\ w[m[1]] <= c[m] /\ w[m[1]] \in Int /\ c[m] \in Int
      BY <1>1, <1>3, <2>1 DEF Least
    <3>2. v \in Int
      BY <2>1 DEF Least
    <3> QED
      BY <3>1, <3>2
  <2>4. Least(v, c, Everyone)
    BY <2>2, <2>3 DEF Least
  <2> QED
    BY <1>5, <2>4 DEF Reduces, c
<1>6. CASE op = "max"
  <2>1. Greatest(v, w, Procs) /\ \A q \in Procs : Greatest(w[q], g[q], Threads)
    BY <1>6 DEF Reduces, g
  <2>2. \E m \in Everyone : v = c[m]
    <3>1. PICK q \in Procs : v = w[q]
      BY <2>1 DEF Greatest
    <3>2. PICK t \in Threads : w[q] = g[q][t]
      BY <2>1 DEF Greatest
    <3>3. <<q, t>> \in Everyone /\ c[<<q, t>>] = g[q][t]
      BY <1>3
    <3>4. c[<<q, t>>] = v
      BY <3>1, <3>2, <3>3
    <3> QED
      BY <3>3, <3>4
  <2>3. ASSUME NEW m \in Everyone PROVE v >= c[m]
    <3>1. v >= w[m[1]] /\ w[m[1]] >= c[m] /\ w[m[1]] \in Int /\ c[m] \in Int
      BY <1>1, <1>3, <2>1 DEF Greatest
    <3>2. v \in Int
      BY <2>1 DEF Greatest
    <3> QED
      BY <3>1, <3>2
  <2>4. Greatest(v, c, Everyone)
    BY <2>2, <2>3 DEF Greatest
  <2> QED
    BY <1>6, <2>4 DEF Reduces, c
<1> QED
  BY <1>4, <1>5, <1>6 DEF AllOps

\* What is published for a meeting is what the call has to return (365).
LEMMA DividedIsReduction ==
    ASSUME NEW p \in Procs, NEW k \in 1 .. MaxCalls, average[k] \in AllOps \ {"r0"}, NEW v,
           Reduces(average[k], v, Contribution(k), Everyone)
    PROVE  Divide(average[k], v) = Reduction(k, p)
<1> DEFINE c == Contribution(k)
<1>1. \A m \in Everyone : c[m] \in Int
  BY AllreduceAssumption DEF Contribution, Everyone, Threads
<1>2. DOMAIN c = Everyone
  BY DEF Contribution
<1>3. SumFunction(c) = SumFunctionOnSet(c, Everyone)
  BY <1>2 DEF SumFunction
<1> HIDE DEF c
<1>4. /\ average[k] \in {"avg", "sum"} => v = SumFunction(c)
      /\ average[k] = "min" => v = Min({c[m] : m \in Everyone})
      /\ average[k] = "max" => v = Max({c[m] : m \in Everyone})
  BY <1>1, <1>3, LeastIsMin DEF Reduces, c
<1>5. CASE average[k] = "avg"
  BY <1>4, <1>5 DEF Divide, Reduction, c
<1>6. CASE average[k] = "sum"
  BY <1>4, <1>6 DEF Divide, Reduction, c
<1>7. CASE average[k] = "min"
  BY <1>4, <1>7 DEF Divide, Reduction, c
<1>8. CASE average[k] = "max"
  BY <1>4, <1>8 DEF Divide, Reduction, c
<1> QED
  BY <1>5, <1>6, <1>7, <1>8 DEF AllOps
-----------------------------------------------------------------------------
(* The invariant: where the values of a round are.                         *)

\* The copy of the open round reduces what the arrivals brought.
Gathering(p) ==
    Arrived(p) # {} => Reduces(average[Rounds(p) + 1], accumulator[p][Rounds(p) % 2],
                               Args[Rounds(p) + 1][p], Arrived(p))
\* The other copy holds the result of the round before.
Published(p) ==
    Rounds(p) > 0 => accumulator[p][1 - (Rounds(p) % 2)] = Reduction(Rounds(p), p)
\* What a process has given to MPI reduces the values of its threads.
Handed(p) ==
    \A k \in 1 .. MaxCalls :
        average[k] # "r0" /\ (k <= Rounds(p) \/ (k = Rounds(p) + 1 /\ InMpi(p)))
            => /\ mpi[p][Meetings(k)] \in Int
               /\ Reduces(average[k], mpi[p][Meetings(k)], Args[k][p], Threads)
Taken(p) ==
    \A t \in Threads :
        pc[p][t] = "out" /\ calls[p][t] > 0 => value[p][t] = Reduction(calls[p][t], p)

ValuesOf(p) == Gathering(p) /\ Published(p) /\ Handed(p) /\ Taken(p)

ValInv ==
    /\ average \in [1 .. MaxCalls -> Ops]
    /\ accumulator \in [Procs -> [Epochs -> Int]]
    /\ value \in [Procs -> [Threads -> Int]]
    /\ \A p \in Procs : ValuesOf(p)

-----------------------------------------------------------------------------
(* The invariant is inductive.                                             *)

\* The reductions were chosen at first and stay.
LEMMA SameReductions ==
    ASSUME average' = average
    PROVE  /\ \A k \in 1 .. MaxCalls : Meetings(k)' = Meetings(k)
           /\ \A p \in Procs : Reduction(Rounds(p), p)' = Reduction(Rounds(p)', p)
           /\ \A p \in Procs, t \in Threads :
                 Reduction(calls[p][t], p)' = Reduction(calls'[p][t], p)
  BY DEF Meetings, Reduction

\* Numbers of rounds, calls and meetings.
LEMMA RoundBounds ==
    ASSUME IInv, NEW p \in Procs
    PROVE  /\ Rounds(p) \in 0 .. MaxCalls
           /\ Arrived(p) # {} => Rounds(p) + 1 \in 1 .. MaxCalls
<1>1. Rounds(p) \in Nat /\ Rounds(p) <= calls[p][LastIndex] /\ calls[p][LastIndex] \in 0 .. MaxCalls
  BY NatFacts, ThreadsFacts DEF IInv, InStep, InRound
<1>2. ASSUME NEW t \in Arrived(p) PROVE Rounds(p) + 1 <= MaxCalls
  <2>1. t \in Threads /\ calls[p][t] > Rounds(p)
    BY DEF Arrived
  <2>2. calls[p][t] \in 0 .. MaxCalls
    BY <2>1, NatFacts
  <2> QED
    BY <1>1, <2>1, <2>2, ThreadsFacts
<1> QED
  BY <1>1, <1>2, ThreadsFacts

\* A step that leaves a process' values and rounds alone, and lets nobody out.
LEMMA QuietValues ==
    ASSUME NEW q \in Procs, ValuesOf(q), average' = average,
           accumulator'[q] = accumulator[q], value'[q] = value[q], mpi'[q] = mpi[q],
           calls'[q] = calls[q], Rounds(q)' = Rounds(q), InMpi(q)' <=> InMpi(q),
           \A u \in Threads : pc'[q][u] = "out" => pc[q][u] = "out"
    PROVE  ValuesOf(q)'
<1>1. Arrived(q)' = Arrived(q)
  BY DEF Arrived
<1>2. /\ \A k \in 1 .. MaxCalls : Meetings(k)' = Meetings(k)
      /\ Reduction(Rounds(q), q)' = Reduction(Rounds(q), q)
      /\ \A t \in Threads : Reduction(calls[q][t], q)' = Reduction(calls[q][t], q)
  BY SameReductions
<1>3. Gathering(q)'
  BY <1>1 DEF ValuesOf, Gathering
<1>4. Published(q)'
  BY <1>2 DEF ValuesOf, Published
<1>5. Handed(q)'
  BY <1>2 DEF ValuesOf, Handed
<1>6. Taken(q)'
  BY <1>2 DEF ValuesOf, Taken
<1> QED
  BY <1>3, <1>4, <1>5, <1>6 DEF ValuesOf

\* The same for a process that takes no part in a step.
LEMMA OtherValues ==
    ASSUME NEW q \in Procs, ValuesOf(q), average' = average, pc'[q] = pc[q],
           accumulator'[q] = accumulator[q], value'[q] = value[q], mpi'[q] = mpi[q],
           calls'[q] = calls[q]
    PROVE  ValuesOf(q)'
<1>1. Rounds(q)' = Rounds(q) /\ (InMpi(q)' <=> InMpi(q))
  BY DEF Rounds, InMpi
<1> QED
  BY <1>1, QuietValues

\* Arriving: the value goes into the copy of the open round (331-342).
LEMMA EnterValues ==
    ASSUME IInv, ValInv, NEW p \in Procs, NEW t \in Threads, Enter(p, t)
    PROVE  ValInv'
<1> DEFINE e == epoch[p][t]
           k == calls[p][t] + 1
           v == Args[k][p][t]
           n == counter[p][e]
           new == Combine(average[k], t, n, accumulator[p][e], v)
<1>0. /\ pc[p][t] = "out" /\ calls[p][t] < MaxCalls
      /\ value' = [value EXCEPT ![p][t] = v]
      /\ accumulator' = [accumulator EXCEPT ![p][e] = new]
      /\ average' = average /\ mpi' = mpi
      /\ \A q \in Procs : q # p => pc'[q] = pc[q] /\ calls'[q] = calls[q]
  BY DEF Enter, IInv, ControlOK
<1>1. /\ k = Rounds(p) + 1 /\ e = Rounds(p) % 2 /\ t \notin Arrived(p)
      /\ n = Cardinality(Arrived(p))
      /\ pc'[p][t] # "out"
      /\ \A u \in Threads : u # t => (pc'[p][u] = "out" => pc[p][u] = "out")
      /\ \A u \in Threads : u # t => calls'[p][u] = calls[p][u]
      /\ Rounds(p)' = Rounds(p)
      /\ Arrived(p)' = Arrived(p) \cup {t}
  BY EnterPlace
<1>2. /\ k \in 1 .. MaxCalls /\ e \in Epochs /\ 1 - e \in Epochs /\ 1 - e # e
      /\ Rounds(p) \in Nat
  <2>1. calls[p][t] \in Nat /\ epoch[p][t] \in {0, 1} /\ Rounds(p) \in Nat
    BY NatFacts
  <2> QED
    BY <1>0, <2>1, ThreadsFacts DEF Epochs
<1>3. /\ average[k] \in AllOps /\ Args[k][p] \in [Threads -> Int] /\ v \in Int
      /\ accumulator[p][e] \in Int /\ Arrived(p) \in SUBSET Threads /\ t \in Threads \ Arrived(p)
      /\ v = Args[k][p][t]
  <2>1. average[k] \in Ops /\ accumulator[p][e] \in Int
    BY <1>2 DEF ValInv
  <2>2. Args[k][p] \in [Threads -> Int]
    BY <1>2, AllreduceAssumption DEF Threads
  <2> QED
    BY <2>1, <2>2, <1>1, AllreduceAssumption DEF Arrived
<1>4. Arrived(p) # {} => Reduces(average[k], accumulator[p][e], Args[k][p], Arrived(p))
  BY <1>1 DEF ValInv, ValuesOf, Gathering
<1>5. new \in Int /\ Reduces(average[k], new, Args[k][p], Arrived(p) \cup {t})
  <2> DEFINE S == Arrived(p)
             f == Args[k][p]
             op == average[k]
             acc == accumulator[p][e]
  <2>1. /\ op \in AllOps /\ S \in SUBSET Threads /\ t \in Threads \ S /\ f \in [Threads -> Int]
        /\ acc \in Int /\ (S # {} => Reduces(op, acc, f, S))
    BY <1>3, <1>4
  <2>2. new = Combine(op, t, Cardinality(S), acc, f[t])
    BY <1>1
  <2> HIDE DEF S, f, op, acc, new
  <2>3. new \in Int /\ Reduces(op, new, f, S \cup {t})
    BY <2>1, <2>2, CombineReduces
  <2> QED
    BY <2>3 DEF S, f, op
<1> HIDE DEF new, v, n
<1>6. accumulator'[p][e] = new /\ accumulator'[p][1 - e] = accumulator[p][1 - e]
  BY <1>0, <1>2 DEF ValInv
<1>7. /\ accumulator' \in [Procs -> [Epochs -> Int]]
      /\ value' \in [Procs -> [Threads -> Int]]
  BY <1>0, <1>3, <1>5 DEF ValInv
<1>8. ValuesOf(p)'
  <2>1. Gathering(p)'
    BY <1>0, <1>1, <1>5, <1>6 DEF Gathering
  <2>2. Published(p)'
    <3>1. Reduction(Rounds(p), p)' = Reduction(Rounds(p), p)
      BY <1>0, <1>1, SameReductions
    <3> QED
      BY <3>1, <1>1, <1>6 DEF ValInv, ValuesOf, Published
  <2>3. Handed(p)'
    <3>1. ~InMpi(p)
      BY <1>0, NobodyOutDuringMpi
    <3>2. ~InMpi(p)'
      <4>1. pc'[p][LastIndex] = pc[p][LastIndex] \/ pc'[p][LastIndex] \in {"sleep", "woken"}
        BY EnterPlace, ThreadsFacts
      <4> QED
        BY <3>1, <4>1 DEF InMpi
    <3>3. \A i \in 1 .. MaxCalls : Meetings(i)' = Meetings(i)
      BY <1>0, SameReductions
    <3> QED
      BY <3>1, <3>2, <3>3, <1>0, <1>1 DEF ValInv, ValuesOf, Handed
  <2>4. Taken(p)'
    <3>1. \A u \in Threads : Reduction(calls[p][u], p)' = Reduction(calls'[p][u], p)
      BY <1>0, SameReductions
    <3>2. \A u \in Threads : u # t => value'[p][u] = value[p][u]
      BY <1>0 DEF ValInv
    <3>3. ASSUME NEW u \in Threads, pc'[p][u] = "out", calls'[p][u] > 0
          PROVE  value'[p][u] = Reduction(calls[p][u], p)'
      <4>1. u # t
        BY <3>3, <1>1
      <4>2. pc[p][u] = "out" /\ calls'[p][u] = calls[p][u]
        BY <3>3, <4>1, <1>1
      <4>3. value[p][u] = Reduction(calls[p][u], p)
        BY <3>3, <4>2 DEF ValInv, ValuesOf, Taken
      <4>4. Reduction(calls[p][u], p)' = Reduction(calls[p][u], p)
        BY <3>1, <4>2
      <4> QED
        BY <3>2, <4>1, <4>3, <4>4
    <3> QED
      BY <3>3 DEF Taken
  <2> QED
    BY <2>1, <2>2, <2>3, <2>4 DEF ValuesOf
<1>9. ASSUME NEW q \in Procs, q # p PROVE ValuesOf(q)'
  <2>1. accumulator'[q] = accumulator[q] /\ value'[q] = value[q] /\ mpi'[q] = mpi[q]
    BY <1>0, <1>9 DEF ValInv
  <2>2. ValuesOf(q)
    BY DEF ValInv
  <2> QED
    BY <1>0, <1>9, <2>1, <2>2, OtherValues
<1> QED
  BY <1>0, <1>7, <1>8, <1>9 DEF ValInv

\* Reading the published result in the copy that the thread has used (375-376).
LEMMA ReadValues ==
    ASSUME IInv, ValInv, NEW p \in Procs, NEW t \in Threads, Read(p, t)
    PROVE  ValInv'
<1> DEFINE e == epoch[p][t]
<1>0. /\ pc[p][t] = "read"
      /\ value' = [value EXCEPT ![p][t] = accumulator[p][e]]
      /\ pc' = [pc EXCEPT ![p][t] = "out"]
      /\ average' = average /\ mpi' = mpi /\ calls' = calls /\ accumulator' = accumulator
  BY DEF Read
<1>1. /\ calls[p][t] = Rounds(p) /\ Rounds(p) \in Nat \ {0}
      /\ e = 1 - (Rounds(p) % 2) /\ e \in Epochs
  <2>1. /\ calls[p][t] = Rounds(p) /\ Rounds(p) \in Nat \ {0} /\ e = (Rounds(p) - 1) % 2
        /\ Rounds(p) % 2 \in {0, 1} /\ e \in {0, 1}
    BY <1>0, NatFacts DEF IInv, InStep, InRound, Returned, Past
  <2>2. (Rounds(p) - 1) % 2 = 1 - (Rounds(p) % 2)
    BY <2>1
  <2> QED
    BY <2>1, <2>2 DEF Epochs
<1>2. accumulator[p][e] = Reduction(Rounds(p), p) /\ accumulator[p][e] \in Int
  BY <1>1 DEF ValInv, ValuesOf, Published
<1>3. /\ Rounds(p)' = Rounds(p) /\ (InMpi(p)' <=> InMpi(p))
      /\ \A u \in Threads : u # t => pc'[p][u] = pc[p][u]
      /\ \A q \in Procs : q # p => pc'[q] = pc[q]
  BY <1>0, ThreadsFacts DEF Rounds, InMpi, Past, IInv, ControlOK
<1>4. Arrived(p)' = Arrived(p)
  BY <1>0, <1>3 DEF Arrived
<1>5. value' \in [Procs -> [Threads -> Int]]
  BY <1>0, <1>2 DEF ValInv
<1>6. /\ \A u \in Threads : value'[p][u] = IF u = t THEN accumulator[p][e] ELSE value[p][u]
      /\ \A q \in Procs : q # p => value'[q] = value[q]
  BY <1>0 DEF ValInv
<1>7. ValuesOf(p)'
  <2>1. /\ \A k \in 1 .. MaxCalls : Meetings(k)' = Meetings(k)
        /\ Reduction(Rounds(p), p)' = Reduction(Rounds(p), p)
        /\ \A u \in Threads : Reduction(calls[p][u], p)' = Reduction(calls[p][u], p)
    BY <1>0, <1>3, SameReductions
  <2>2. ValuesOf(p)
    BY DEF ValInv
  <2>3. Gathering(p)'
    BY <1>0, <1>3, <1>4, <2>2 DEF ValuesOf, Gathering
  <2>4. Published(p)'
    BY <1>0, <1>3, <2>1, <2>2 DEF ValuesOf, Published
  <2>5. Handed(p)'
    BY <1>0, <1>3, <2>1, <2>2 DEF ValuesOf, Handed
  <2>6. Taken(p)'
    <3>1. ASSUME NEW u \in Threads, pc'[p][u] = "out", calls'[p][u] > 0
          PROVE  value'[p][u] = Reduction(calls[p][u], p)'
      <4>1. CASE u = t
        BY <4>1, <1>1, <1>2, <1>6, <2>1
      <4>2. CASE u # t
        <5>1. value[p][u] = Reduction(calls[p][u], p)
          BY <3>1, <4>2, <1>0, <1>3, <2>2 DEF ValuesOf, Taken
        <5> QED
          BY <5>1, <4>2, <1>6, <2>1
      <4> QED
        BY <4>1, <4>2
    <3> QED
      BY <3>1 DEF Taken
  <2> QED
    BY <2>3, <2>4, <2>5, <2>6 DEF ValuesOf
<1>8. ASSUME NEW q \in Procs, q # p PROVE ValuesOf(q)'
  <2>1. ValuesOf(q)
    BY DEF ValInv
  <2> QED
    BY <1>0, <1>3, <1>6, <1>8, <2>1, OtherValues
<1> QED
  BY <1>0, <1>5, <1>7, <1>8 DEF ValInv

\* Falling asleep, waking up and giving the mutex up move no value.
LEMMA WaitingValues ==
    ASSUME IInv, ValInv, NEW p \in Procs, NEW t \in Threads,
           SleepAgain(p, t) \/ Unlock(p, t) \/ SpuriousWakeup(p, t)
    PROVE  ValInv'
<1>1. PICK place \in {"sleep", "woken", "read"} :
        /\ pc' = [pc EXCEPT ![p][t] = place] /\ pc[p][t] \in {"sleep", "woken"}
        /\ t = LastIndex => place # "read"
  BY DEF SleepAgain, Unlock, SpuriousWakeup
<1>2. /\ average' = average /\ mpi' = mpi /\ calls' = calls
      /\ accumulator' = accumulator /\ value' = value
  BY DEF SleepAgain, Unlock, SpuriousWakeup
<1>3. /\ Rounds(p)' = Rounds(p) /\ (InMpi(p)' <=> InMpi(p))
      /\ \A u \in Threads : pc'[p][u] = "out" => pc[p][u] = "out"
      /\ \A q \in Procs : q # p => pc'[q] = pc[q]
  BY <1>1, <1>2, ThreadsFacts DEF Rounds, InMpi, Past, IInv, ControlOK
<1>4. \A q \in Procs : ValuesOf(q)
  BY DEF ValInv
<1>5. ValuesOf(p)'
  BY <1>2, <1>3, <1>4, QuietValues
<1>6. ASSUME NEW q \in Procs, q # p PROVE ValuesOf(q)'
  BY <1>2, <1>3, <1>4, <1>6, OtherValues
<1> QED
  BY <1>2, <1>5, <1>6 DEF ValInv

\* What is appended comes last and the rest stays where it was.
LEMMA AppendedLast ==
    ASSUME NEW s, IsSeq(s), NEW x
    PROVE  /\ Append(s, x)[Len(s) + 1] = x
           /\ \A i \in 1 .. Len(s) : Append(s, x)[i] = s[i]
<1>1. PICK S : s \in Seq(S)
  BY DEF IsSeq
<1>2. s \in Seq(S \cup {x}) /\ x \in S \cup {x}
  BY <1>1
<1> QED
  BY <1>2

\* A call that goes through MPI is a meeting of its own.
LEMMA MeetingNumbers ==
    ASSUME NEW n \in Nat, NEW k \in 1 .. n, average[k] # "r0"
    PROVE  Meetings(k) \in 1 .. Meetings(n) /\ Meetings(k) = Meetings(k - 1) + 1
<1>1. k - 1 \in Nat /\ (k - 1) + 1 = k /\ k \in Nat /\ k \in 0 .. n
  OBVIOUS
<1>2. /\ Meetings(k) = Meetings(k - 1) + 1 /\ Meetings(k - 1) \in Nat
      /\ Meetings(k) <= Meetings(n) /\ Meetings(n) \in Nat
  <2>1. Meetings((k - 1) + 1) = Meetings(k - 1) + (IF average[(k - 1) + 1] # "r0" THEN 1 ELSE 0)
    BY <1>1, MeetingsFacts
  <2> QED
    BY <2>1, <1>1, MeetingsFacts
<1> QED
  BY <1>2

\* Handing the process' reduction to MPI (357-361).
LEMMA EnterMpiValues ==
    ASSUME IInv, MpiInv, ValInv, NEW p \in Procs, EnterMpi(p)
    PROVE  ValInv'
<1> DEFINE e == epoch[p][LastIndex]
           a == accumulator[p][e]
           k == calls[p][LastIndex]
<1>0. /\ pc[p][LastIndex] = "woken" /\ counter[p][e] = N /\ average[k] # "r0"
      /\ mpi' = [mpi EXCEPT ![p] = Append(mpi[p], a)]
      /\ pc' = [pc EXCEPT ![p][LastIndex] = "mpi"]
      /\ average' = average /\ calls' = calls /\ accumulator' = accumulator /\ value' = value
  BY DEF EnterMpi
<1>1. /\ e = Rounds(p) % 2 /\ k = Rounds(p) + 1
      /\ \A u \in Threads : calls[p][u] = Rounds(p) + 1 /\ pc[p][u] \notin Past
  BY <1>0, FullMeansAllArrived DEF Past
<1>2. Arrived(p) = Threads /\ Rounds(p) \in Nat /\ e \in Epochs
  BY <1>1, NatFacts, ThreadsFacts DEF Arrived, Epochs
<1>3. /\ Rounds(p)' = Rounds(p) /\ ~InMpi(p) /\ InMpi(p)'
      /\ \A u \in Threads : pc'[p][u] = "out" => pc[p][u] = "out"
      /\ \A q \in Procs : q # p => pc'[q] = pc[q] /\ mpi'[q] = mpi[q]
      /\ mpi'[p] = Append(mpi[p], a)
  BY <1>0, ThreadsFacts DEF Rounds, InMpi, Past, IInv, ControlOK, MpiInv
<1>4. a \in Int /\ Reduces(average[k], a, Args[k][p], Threads)
  BY <1>1, <1>2, ThreadsFacts DEF ValInv, ValuesOf, Gathering
<1> HIDE DEF a, e
<1>5. Len(mpi[p]) = Meetings(Rounds(p)) /\ Len(mpi[p]) \in Nat
  BY <1>2, <1>3, MeetingsFacts DEF MpiInv, Begun
<1>6. /\ mpi'[p][Len(mpi[p]) + 1] = a
      /\ \A i \in 1 .. Len(mpi[p]) : mpi'[p][i] = mpi[p][i]
  BY <1>3, AppendedLast DEF MpiInv
<1>7. Meetings(k) = Len(mpi[p]) + 1
  BY <1>0, <1>1, <1>2, <1>5, MeetingsFacts
<1>8. \A i \in 1 .. MaxCalls : Meetings(i)' = Meetings(i)
  BY <1>0, SameReductions
<1>9. Handed(p)'
  <2>1. ASSUME NEW i \in 1 .. MaxCalls, average[i] # "r0", i <= Rounds(p) + 1
        PROVE  /\ mpi'[p][Meetings(i)] \in Int
               /\ Reduces(average[i], mpi'[p][Meetings(i)], Args[i][p], Threads)
    <3>1. CASE i = Rounds(p) + 1
      BY <3>1, <1>1, <1>4, <1>6, <1>7
    <3>2. CASE i # Rounds(p) + 1
      <4>1. i <= Rounds(p) /\ i \in 1 .. Rounds(p)
        BY <2>1, <3>2, <1>2
      <4>2. Meetings(i) \in 1 .. Len(mpi[p])
        BY <2>1, <4>1, <1>2, <1>5, MeetingNumbers
      <4> QED
        BY <2>1, <4>1, <4>2, <1>6 DEF ValInv, ValuesOf, Handed
    <3> QED
      BY <3>1, <3>2
  <2>2. \A i \in 1 .. MaxCalls : i <= Rounds(p)' \/ i = Rounds(p)' + 1 => i <= Rounds(p) + 1
    BY <1>2, <1>3
  <2>3. \A i \in 1 .. MaxCalls : average'[i] = average[i] /\ Meetings(i)' = Meetings(i)
    BY <1>0, <1>8
  <2>4. ASSUME NEW i \in 1 .. MaxCalls, average'[i] # "r0",
               i <= Rounds(p)' \/ (i = Rounds(p)' + 1 /\ InMpi(p)')
        PROVE  /\ mpi'[p][Meetings(i)'] \in Int
               /\ Reduces(average'[i], mpi'[p][Meetings(i)'], Args[i][p], Threads)
    BY <2>1, <2>2, <2>3, <2>4
  <2> QED
    BY <2>4 DEF Handed
<1>10. ValuesOf(p)'
  <2>1. /\ Reduction(Rounds(p), p)' = Reduction(Rounds(p), p)
        /\ \A u \in Threads : Reduction(calls[p][u], p)' = Reduction(calls[p][u], p)
    BY <1>0, <1>3, SameReductions
  <2>2. ValuesOf(p) /\ Arrived(p)' = Arrived(p)
    BY <1>0, <1>3 DEF ValInv, Arrived
  <2>3. Gathering(p)'
    BY <1>0, <1>3, <2>2 DEF ValuesOf, Gathering
  <2>4. Published(p)'
    BY <1>0, <1>3, <2>1, <2>2 DEF ValuesOf, Published
  <2>5. Taken(p)'
    BY <1>0, <1>3, <2>1, <2>2 DEF ValuesOf, Taken
  <2> QED
    BY <1>9, <2>3, <2>4, <2>5 DEF ValuesOf
<1>11. ASSUME NEW q \in Procs, q # p PROVE ValuesOf(q)'
  <2>1. ValuesOf(q)
    BY DEF ValInv
  <2> QED
    BY <1>0, <1>3, <1>11, <2>1, OtherValues
<1> QED
  BY <1>0, <1>10, <1>11 DEF ValInv

\* The processes whose contributions an MPI_Allreduce combines have all of them
\* come to the same call.
LEMMA AllHanded ==
    ASSUME IInv, MpiInv, ValInv, NEW p \in Procs, NEW q \in Procs, InMpi(p),
           NEW k \in 1 .. MaxCalls, k = Rounds(p) + 1, average[k] # "r0",
           Len(mpi[q]) >= Meetings(k)
    PROVE  /\ mpi[q][Meetings(k)] \in Int
           /\ Reduces(average[k], mpi[q][Meetings(k)], Args[k][q], Threads)
<1>1. Rounds(q) \in Nat /\ Rounds(p) \in Nat /\ k \in Nat /\ k - 1 = Rounds(p)
  BY NatFacts, ThreadsFacts
<1>2. /\ Meetings(k) = Meetings(Rounds(p)) + 1 /\ Meetings(Rounds(p)) \in Nat
      /\ Meetings(Rounds(q)) \in Nat
  BY <1>1, MeetingsFacts
<1>3. Len(mpi[q]) = Meetings(Rounds(q)) + (IF InMpi(q) THEN 1 ELSE 0)
  BY DEF MpiInv, Begun
<1>4. k <= Rounds(q) \/ (k = Rounds(q) + 1 /\ InMpi(q))
  <2> SUFFICES ASSUME Rounds(q) < k, ~(k = Rounds(q) + 1 /\ InMpi(q)) PROVE FALSE
    BY <1>1
  <2>1. Rounds(q) \in 0 .. Rounds(p)
    BY <1>1
  <2>2. Meetings(Rounds(q)) <= Meetings(Rounds(p))
    BY <2>1, <1>1, MeetingsFacts
  <2>3. InMpi(q) /\ k # Rounds(q) + 1
    BY <2>2, <1>2, <1>3
  <2>4. Rounds(q) + 1 \in 0 .. Rounds(p)
    BY <2>1, <2>3, <1>1
  <2>5. Meetings(Rounds(q) + 1) <= Meetings(Rounds(p))
    BY <2>4, <1>1, MeetingsFacts
  <2>6. Meetings(Rounds(q) + 1) = Meetings(Rounds(q)) + 1
    <3>1. calls[q][LastIndex] = Rounds(q) + 1
      BY <2>3, NatFacts, ThreadsFacts DEF InMpi, Rounds, Past
    <3>2. average[Rounds(q) + 1] # "r0"
      BY <2>3, <3>1 DEF MpiInv
    <3> QED
      BY <3>2, <1>1, MeetingsFacts
  <2> QED
    BY <2>5, <2>6, <1>2, <1>3
<1> QED
  BY <1>4 DEF ValInv, ValuesOf, Handed

\* Publishing what the round has to return (361-367).
LEMMA PublishValues ==
    ASSUME IInv, ValInv, NEW p \in Procs, NEW result, Publish(p, result),
           pc[p][LastIndex] \in {"woken", "mpi"}, counter[p][epoch[p][LastIndex]] = N,
           average[calls[p][LastIndex]] # "r0" => InMpi(p),
           Divide(average[calls[p][LastIndex]], result) \in Int,
           Divide(average[calls[p][LastIndex]], result) = Reduction(calls[p][LastIndex], p)
    PROVE  ValInv'
<1> DEFINE e == epoch[p][LastIndex]
           k == calls[p][LastIndex]
           new == Divide(average[k], result)
<1>0. /\ accumulator' = [accumulator EXCEPT ![p][e] = new]
      /\ average' = average /\ calls' = calls /\ value' = value /\ mpi' = mpi
      /\ \A q \in Procs : q # p => pc'[q] = pc[q]
  BY DEF Publish, IInv, ControlOK
<1>1. /\ e = Rounds(p) % 2 /\ k = Rounds(p) + 1
      /\ pc'[p][LastIndex] = "read"
      /\ \A u \in Threads : u # LastIndex => pc'[p][u] \in {"sleep", "woken"}
      /\ Rounds(p)' = Rounds(p) + 1 /\ Rounds(p) \in Nat
      /\ Arrived(p)' = {}
  BY PublishPlace
<1>2. e \in Epochs /\ e = 1 - ((Rounds(p) + 1) % 2)
  <2>1. Rounds(p) % 2 \in {0, 1} /\ (Rounds(p) + 1) % 2 = 1 - (Rounds(p) % 2)
    BY <1>1
  <2> QED
    BY <2>1, <1>1 DEF Epochs
<1>3. new \in Int /\ new = Reduction(k, p)
  OBVIOUS
<1> HIDE DEF new, e, k
<1>4. /\ accumulator' \in [Procs -> [Epochs -> Int]]
      /\ accumulator'[p][e] = new
      /\ \A q \in Procs : q # p => accumulator'[q] = accumulator[q]
  BY <1>0, <1>2, <1>3 DEF ValInv
<1>5. Gathering(p)'
  BY <1>1 DEF Gathering
<1>6. Published(p)'
  <2>1. Reduction(Rounds(p), p)' = Reduction(Rounds(p)', p)
    BY <1>0, SameReductions
  <2>2. accumulator'[p][1 - (Rounds(p)' % 2)] = Reduction(Rounds(p)', p)
    BY <1>1, <1>2, <1>3, <1>4
  <2> QED
    BY <2>1, <2>2 DEF Published
<1>7. Handed(p)'
  <2>1. \A i \in 1 .. MaxCalls : average'[i] = average[i] /\ Meetings(i)' = Meetings(i)
    BY <1>0, SameReductions
  <2>2. ~InMpi(p)'
    BY <1>1 DEF InMpi
  <2>3. ASSUME NEW i \in 1 .. MaxCalls, average[i] # "r0", i <= Rounds(p) + 1
        PROVE  i <= Rounds(p) \/ (i = Rounds(p) + 1 /\ InMpi(p))
    BY <2>3, <1>1 DEF k
  <2>4. ASSUME NEW i \in 1 .. MaxCalls, average'[i] # "r0", i <= Rounds(p)'
        PROVE  /\ mpi'[p][Meetings(i)'] \in Int
               /\ Reduces(average'[i], mpi'[p][Meetings(i)'], Args[i][p], Threads)
    <3>1. i <= Rounds(p) \/ (i = Rounds(p) + 1 /\ InMpi(p))
      BY <2>1, <2>3, <2>4, <1>1
    <3>2. /\ mpi[p][Meetings(i)] \in Int
          /\ Reduces(average[i], mpi[p][Meetings(i)], Args[i][p], Threads)
      BY <3>1, <2>1, <2>4 DEF ValInv, ValuesOf, Handed
    <3> QED
      BY <3>2, <2>1, <1>0
  <2> QED
    BY <2>2, <2>4 DEF Handed
<1>8. Taken(p)'
  BY <1>1, ThreadsFacts DEF Taken
<1>9. ASSUME NEW q \in Procs, q # p PROVE ValuesOf(q)'
  <2>1. ValuesOf(q)
    BY DEF ValInv
  <2> QED
    BY <1>0, <1>4, <1>9, <2>1, OtherValues
<1> QED
  BY <1>0, <1>4, <1>5, <1>6, <1>7, <1>8, <1>9 DEF ValInv, ValuesOf

\* The mean is an integer, as the arguments stand for what can be divided.
LEMMA DivideInt ==
    ASSUME NEW op, NEW v \in Int
    PROVE  Divide(op, v) \in Int
<1>1. Cardinality(Procs) \in Nat \ {0}
  BY AllreduceAssumption, FS_CardinalityType, FS_EmptySet
<1>2. \A a, b \in Nat \ {0} : a * b \in Nat \ {0}
  OBVIOUS
<1>3. Total \in Nat \ {0}
  BY <1>1, <1>2, ThreadsFacts DEF Total
<1> HIDE DEF Total
<1>4. v \div Total \in Int
  BY <1>3
<1> QED
  BY <1>4 DEF Divide

LEMMA LeaveMpiValues ==
    ASSUME IInv, MpiInv, ValInv, NEW p \in Procs, LeaveMpi(p)
    PROVE  ValInv'
<1> DEFINE k == calls[p][LastIndex]
           i == Len(mpi[p])
           w == [q \in Procs |-> mpi[q][i]]
           result == MpiReduce(average[k], w)
<1>1. /\ InMpi(p) /\ pc[p][LastIndex] = "mpi" /\ counter[p][epoch[p][LastIndex]] = N
      /\ \A q \in Procs : Len(mpi[q]) >= i
  BY ThreadsFacts DEF LeaveMpi, InMpi, MpiMayReturn, IInv, InStep, InRound
<1>2. Publish(p, result)
  <2>1. Contributed(i) = Procs
    BY <1>1 DEF Contributed
  <2> QED
    BY <2>1 DEF LeaveMpi
<1>3. k = Rounds(p) + 1 /\ k \in 1 .. MaxCalls /\ average[k] \in AllOps \ {"r0"}
  <2>1. k = Rounds(p) + 1 /\ Rounds(p) \in Nat /\ k \in 0 .. MaxCalls
    BY <1>1, FullMeansAllArrived, NatFacts, ThreadsFacts DEF Past
  <2>2. average[k] # "r0"
    BY <1>1 DEF MpiInv
  <2>3. k \in 1 .. MaxCalls
    BY <2>1, ThreadsFacts
  <2> QED
    BY <2>1, <2>2, <2>3, AllreduceAssumption DEF ValInv
<1>4. i = Meetings(k)
  <2>1. Rounds(p) \in Nat
    BY NatFacts, ThreadsFacts
  <2> QED
    BY <2>1, <1>1, <1>3, MeetingsFacts DEF MpiInv, Begun
<1>5. \A q \in Procs : w[q] \in Int /\ Reduces(average[k], w[q], Args[k][q], Threads)
  <2> SUFFICES ASSUME NEW q \in Procs
               PROVE  mpi[q][i] \in Int /\ Reduces(average[k], mpi[q][i], Args[k][q], Threads)
    OBVIOUS
  <2>1. Len(mpi[q]) >= Meetings(k)
    BY <1>1, <1>4
  <2> QED
    BY <2>1, <1>1, <1>3, <1>4, AllHanded
<1>6. w \in [Procs -> Int]
  BY <1>5
<1> HIDE DEF w, i, k
<1>7. result \in Int /\ Reduces(average[k], result, w, Procs)
  BY <1>3, <1>6, MpiReduces
<1> HIDE DEF result
<1>8. Reduces(average[k], result, Contribution(k), Everyone)
  BY <1>3, <1>5, <1>6, <1>7, ReducedTwice
<1>9. Divide(average[k], result) = Reduction(k, p) /\ Divide(average[k], result) \in Int
  BY <1>3, <1>7, <1>8, DividedIsReduction, DivideInt
<1> QED
  BY <1>1, <1>2, <1>9, PublishValues DEF k

\* With average = 0 the value of thread 0 is what every thread takes (333, 352).
LEMMA PublishLocalValues ==
    ASSUME IInv, ValInv, NEW p \in Procs, PublishLocal(p)
    PROVE  ValInv'
<1> DEFINE e == epoch[p][LastIndex]
           k == calls[p][LastIndex]
           a == accumulator[p][e]
<1>1. pc[p][LastIndex] = "woken" /\ counter[p][e] = N /\ average[k] = "r0" /\ Publish(p, a)
  BY DEF PublishLocal
<1>2. /\ e = Rounds(p) % 2 /\ k = Rounds(p) + 1 /\ Rounds(p) \in Nat
      /\ Arrived(p) = Threads
  <2>1. /\ e = Rounds(p) % 2 /\ k = Rounds(p) + 1
        /\ \A u \in Threads : calls[p][u] = Rounds(p) + 1
    BY <1>1, FullMeansAllArrived DEF Past
  <2> QED
    BY <2>1, NatFacts, ThreadsFacts DEF Arrived
<1>3. e \in Epochs /\ a \in Int
  <2>1. e \in Epochs
    BY <1>2 DEF Epochs
  <2> QED
    BY <2>1 DEF ValInv
<1>4. Reduces("r0", a, Args[k][p], Threads) /\ 0 \in Threads
  <2>1. 0 \in Threads
    BY ThreadsFacts DEF Threads
  <2>2. Arrived(p) # {} /\ Rounds(p) + 1 = k
    BY <2>1, <1>2
  <2>3. Reduces(average[Rounds(p) + 1], accumulator[p][Rounds(p) % 2],
                Args[Rounds(p) + 1][p], Arrived(p))
    BY <2>2 DEF ValInv, ValuesOf, Gathering
  <2> QED
    BY <2>1, <2>2, <2>3, <1>1, <1>2
<1> HIDE DEF a
<1>5. a = Args[k][p][0]
  BY <1>4 DEF Reduces
<1>6. Divide("r0", a) = a
  BY DEF Divide
<1>7. Reduction(k, p) = Args[k][p][0]
  BY <1>1 DEF Reduction
<1> QED
  BY <1>1, <1>3, <1>5, <1>6, <1>7, PublishValues

LEMMA InitValues == Init => ValInv
<1> SUFFICES ASSUME Init PROVE ValInv
  OBVIOUS
<1>1. \A p \in Procs : Rounds(p) = 0 /\ ~InMpi(p)
  BY ThreadsFacts DEF Init, Rounds, Past, InMpi
<1>2. \A p \in Procs : Arrived(p) = {}
  BY <1>1 DEF Init, Arrived
<1>3. ASSUME NEW p \in Procs PROVE ValuesOf(p)
  BY <1>1, <1>2 DEF Init, ValuesOf, Gathering, Published, Handed, Taken
<1> QED
  BY <1>3 DEF Init, ValInv

-----------------------------------------------------------------------------
\* The values of a round are where the invariant says, in every step of the
\* interleaving: no value of one round gets into the result of another (331-376).
THEOREM ValuesFollow == Spec => [](IInv /\ MpiInv /\ ValInv)
<1>1. Init => ValInv
  BY InitValues
<1>2. IInv /\ MpiInv /\ ValInv /\ [Next]_vars => ValInv'
  <2> SUFFICES ASSUME IInv, MpiInv, ValInv, [Next]_vars PROVE ValInv'
    OBVIOUS
  <2>1. ASSUME UNCHANGED vars PROVE ValInv'
    <3>1. ASSUME NEW q \in Procs PROVE ValuesOf(q)'
      BY <2>1, OtherValues DEF vars, ValInv
    <3> QED
      BY <2>1, <3>1 DEF vars, ValInv
  <2>2. ASSUME NEW p \in Procs, NEW t \in Threads, Step(p, t) \/ SpuriousWakeup(p, t)
        PROVE  ValInv'
    BY <2>2, EnterValues, ReadValues, WaitingValues DEF Step
  <2>3. ASSUME NEW p \in Procs, Lead(p) PROVE ValInv'
    BY <2>3, EnterMpiValues, LeaveMpiValues, PublishLocalValues DEF Lead
  <2> QED
    BY <2>1, <2>2, <2>3 DEF Next, Done
<1> QED
  BY <1>1, <1>2, MpiInvariance, PTL DEF Spec

\* A call of Allreduce() returns the reduction of exactly the values of its own
\* round, although the accumulator is read after the mutex was given up (375).
THEOREM ResultTheorem == Spec => []ResultIsReduction
<1>1. ValInv => ResultIsReduction
  BY DEF ValInv, ValuesOf, Taken, ResultIsReduction
<1> QED
  BY <1>1, ValuesFollow, PTL
=============================================================================
