----------------------------- MODULE MCGinTests -----------------------------
(***************************************************************************)
(* Every kernel, with and without the credit check, in queues of one to    *)
(* three iterations and in queues that one iteration does not fit into;    *)
(* two sizes, and steps that wrap around.                                  *)
(***************************************************************************)
EXTENDS GinTests

Config(type, op, warmup, iters, depth, skip) ==
    [type |-> type, op |-> op, num_ctas |-> 1, num_threads |-> 1, queue_depth |-> depth, skip |-> skip,
     ag |-> FALSE, bidir |-> FALSE, warmup_iters |-> warmup, iters |-> iters,
     minbytes |-> 1, maxbytes |-> 3, stepbytes |-> 0, stepfactor |-> 2]

PingPongs ==
    UNION {{Config("pingpong", op, w, n, d, skip) : w \in {0, 2}, n \in {1, 3}, d \in {2, 6}, skip \in BOOLEAN} :
             op \in {"put", "put_signal", "signal"}}
Pings ==
    UNION {{Config("ping", op, w, 3, d, skip) : w \in {0, 1}, d \in {2, 5}, skip \in BOOLEAN} : op \in Operations}
\* Two CTAs of one thread, one of two threads and, in both directions, one of two.
Throughputs ==
    UNION {{[Config("throughput", op, 1, 3, d, skip) EXCEPT
               !.num_ctas = s.ctas, !.num_threads = s.threads, !.ag = s.ag, !.bidir = s.bidir, !.maxbytes = 1] :
               d \in {4, 9}, skip \in BOOLEAN,
               s \in {[ctas |-> 2, threads |-> 1, ag |-> FALSE, bidir |-> FALSE],
                      [ctas |-> 1, threads |-> 2, ag |-> FALSE, bidir |-> FALSE],
                      [ctas |-> 1, threads |-> 2, ag |-> TRUE, bidir |-> FALSE],
                      [ctas |-> 1, threads |-> 1, ag |-> FALSE, bidir |-> TRUE]}} : op \in Operations}
Both ==
    {[Config("throughput", op, 0, 2, 4, skip) EXCEPT
        !.num_threads = 2, !.ag = ag, !.bidir = TRUE, !.maxbytes = 1] :
        op \in {"put", "put_counter"}, skip \in BOOLEAN, ag \in BOOLEAN}
\* Queues that are too small for one iteration.  With the credit check a queue
\* has room for one operation, and nobody waits for a doorbell.
Small(op, depth, skip, threads, ag) ==
    [Config("throughput", op, 1, 3, depth, skip) EXCEPT
        !.num_threads = threads, !.ag = ag, !.maxbytes = 1]
Overfull ==
    {Small(op, d, skip, 2, FALSE) : op \in {"put_signal", "put_counter"}, d \in {2, 3}, skip \in BOOLEAN}
      \cup {Small("put", 1, skip, 2, FALSE) : skip \in BOOLEAN}
      \cup {Small(op, d, TRUE, 2, TRUE) : op \in {"put", "put_signal"}, d \in {1, 3}}
      \cup {Small("put_signal", 1, TRUE, 1, FALSE)}
      \cup {Config(type, "put_signal", 1, 3, 1, TRUE) : type \in {"ping", "pingpong"}}
\* Steps that stay, that end above the maximum and that wrap around.
Sweeps ==
    {[Config("ping", "put", 0, 1, 1, FALSE) EXCEPT !.minbytes = b, !.maxbytes = 7, !.stepbytes = i] :
        b \in {1, 3}, i \in {1, 4, 13, 14, 15}}
      \cup {[Config("ping", "get", 0, 1, 1, TRUE) EXCEPT !.minbytes = b, !.maxbytes = 7, !.stepfactor = f] :
        b \in {1, 3}, f \in {2, 5, 16}}

MCConfigs == PingPongs \cup Pings \cup Throughputs \cup Both \cup Overfull \cup Sweeps
=============================================================================
