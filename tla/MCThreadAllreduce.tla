-------------------------- MODULE MCThreadAllreduce --------------------------
(* ThreadAllreduce for TLC.  The arguments of a call are distinct powers of   *)
(* two times the number of callers, so that a sum shows exactly whose values  *)
(* went into it and a mean is an integer; the order of the values changes     *)
(* from call to call, so that the least and the greatest sit elsewhere.       *)
EXTENDS ThreadAllreduce, TLC

CONSTANTS p1, p2

ProcIndex == [p \in Procs |-> IF p = p1 THEN 0 ELSE 1]

MCArgs ==
    [k \in 1 .. MaxCalls |-> [p \in Procs |-> [t \in 0 .. N - 1 |->
        Total * 2 ^ ((ProcIndex[p] * N + t + k) % Total) * (IF k = 2 THEN -1 ELSE 1)]]]
=============================================================================
