---------------------------- MODULE RoundBarrier ----------------------------
(***************************************************************************)
(* What the synchronisation routines of src/common.cu promise their        *)
(* callers: a reusable barrier.  Members call it again and again; the      *)
(* k-th call of a member returns only once every member has made its k-th  *)
(* call.  Nothing is said here about threads, processes, locks or MPI.     *)
(***************************************************************************)
EXTENDS Naturals

CONSTANT Members

VARIABLES entered,   \* how many calls a member has begun
          left       \* how many calls have returned to it

barrierVars == <<entered, left>>

Inside(m) == entered[m] # left[m]

Init ==
    /\ entered = [m \in Members |-> 0]
    /\ left = [m \in Members |-> 0]

Enter(m) ==
    /\ ~Inside(m)
    /\ entered' = [entered EXCEPT ![m] = @ + 1]
    /\ UNCHANGED left

Leave(m) ==
    /\ Inside(m)
    /\ \A o \in Members : entered[o] >= entered[m]
    /\ left' = [left EXCEPT ![m] = entered[m]]
    /\ UNCHANGED entered

Next == \E m \in Members : Enter(m) \/ Leave(m)

Spec == Init /\ [][Next]_barrierVars
=============================================================================
