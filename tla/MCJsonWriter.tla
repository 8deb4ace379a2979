----------------------------- MODULE MCJsonWriter -----------------------------
(* JsonWriter for TLC: every combination of the options that change the      *)
(* report, with one and two processes and sizes and with an empty list.      *)
EXTENDS JsonWriter

MCOptions ==
    {[procs |-> procs, sizes |-> sizes, iters |-> 2, args |-> 1, env |-> sizes,
      factor |-> cputime, perIter |-> perIter, tuning |-> tuning,
      cputime |-> cputime, workers |-> workers, error |-> error] :
        procs \in {1, 2}, sizes \in {0, 2}, perIter \in BOOLEAN,
        tuning \in BOOLEAN, cputime \in BOOLEAN, workers \in BOOLEAN, error \in BOOLEAN}
=============================================================================
