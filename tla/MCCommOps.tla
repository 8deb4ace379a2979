----------------------------- MODULE MCCommOps -----------------------------
(* CommOps for TLC.                                                          *)
EXTENDS CommOps

Option(test, aborts, warmup, flush, resize, roots) ==
    [test_kind |-> test, aborts |-> aborts, warmup |-> warmup, iterations |-> 1,
     work_iterations |-> 1, timing_flush_interval |-> flush, resize |-> resize,
     root_every |-> roots]

Resizes == {<<"factor", 2, 1>>, <<"factor", 3, 2>>, <<"step", 1, 1>>}

\* Every test and way of ending it, with a flush for every timer, after every
\* third, and never before the summary.
MCOptions ==
    {Option(test, aborts, warmup, flush, resize, roots) :
        test \in {"init", "split", "shrink", "grow"}, aborts \in BOOLEAN,
        warmup \in {0, 1}, flush \in {1, 3, 100},
        resize \in Resizes, roots \in {0, 2}}

Down == <<3, 2, 1>>
=============================================================================
