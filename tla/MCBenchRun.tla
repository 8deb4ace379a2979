----------------------------- MODULE MCBenchRun -----------------------------
(* BenchRun for TLC: the command lines that take every branch of the harness. *)
EXTENDS BenchRun

Plain == [warmup |-> 1, iters |-> 2, agg |-> 1, blocking |-> 0, graph |-> 0,
          datacheck |-> 1, sizes |-> 1, timeout |-> FALSE,
          inPlace |-> TRUE, minBw |-> FALSE]

\* Two check rounds, so that a vote may skip one.
Straight  == [Plain EXCEPT !.iters = 1, !.datacheck = 2]
\* -z 1 to 3; -z 1 together with -m 2, two collectives per group.
Blocking1 == [Plain EXCEPT !.blocking = 1, !.agg = 2, !.iters = 1, !.datacheck = 2]
Blocking2 == [Plain EXCEPT !.blocking = 2, !.iters = 1, !.timeout = TRUE]
Blocking3 == [Plain EXCEPT !.blocking = 3, !.iters = 1, !.warmup = 0]
\* -G 2.
Graphs    == [Plain EXCEPT !.graph = 2, !.iters = 1, !.warmup = 0]

\* A collective without an in-place form, and a bandwidth to reach.
OutOfPlace == [Plain EXCEPT !.warmup = 0, !.iters = 1, !.inPlace = FALSE, !.minBw = TRUE]

MCOptions == {Straight, Blocking1, Blocking2, Blocking3, Graphs, OutOfPlace}
=============================================================================
