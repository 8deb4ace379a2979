---------------------------- MODULE MCCollectives ----------------------------
(***************************************************************************)
(* Collectives on buffers of 16 elements of 8 bytes, with three ranks, four *)
(* for hypercube and one alltoallv, so that a rank's part is two elements  *)
(* and two windows fit; a message too small for one element per rank; a    *)
(* traffic matrix that is not symmetric.                                   *)
(***************************************************************************)
EXTENDS Collectives

Job(coll, impl, n, count, root, inPlace, nctx) ==
    [coll |-> coll, impl |-> impl, n |-> n, count |-> count, root |-> root,
     inPlace |-> inPlace, nctx |-> nctx, pattern |-> "uniform"]

Roots(coll) == IF coll \in Rooted THEN {0, 2} ELSE {0}

LibJobs == UNION {{Job(c, "lib", 3, m, r, p, 1) : r \in Roots(c), p \in BOOLEAN, m \in {6, 7}} :
                     c \in LibColls}
P2pJobs == UNION {{Job(c, "p2p", 3, m, r, p, 1) : r \in Roots(c), p \in BOOLEAN, m \in {2, 7}} :
                     c \in P2pColls}
\* In place, the puts of alltoall are those out of place from other addresses.
RmaJobs == UNION {{Job(c, "rma", 3, 7, r, p, 2) : r \in Roots(c), p \in {FALSE, c # "AlltoAll"}} :
                     c \in RmaColls}
SmallJobs == {Job(c, "rma", 3, 2, 2, TRUE, 1) : c \in {"Scatter", "Gather", "SendRecv"}}
HyperCubeJobs == {Job("HyperCube", "p2p", n, 8, 0, p, 1) : n \in {2, 4}, p \in BOOLEAN}
AlltoAllvJobs ==
    {[Job("AlltoAllv", "p2p", n, m, 0, p, 1) EXCEPT !.pattern = pat] :
        n \in {3, 4}, m \in {13, 16}, p \in BOOLEAN, pat \in {"distance", "matrix"}}

MCJobs == LibJobs \cup P2pJobs \cup RmaJobs \cup SmallJobs \cup HyperCubeJobs
             \cup {j \in AlltoAllvJobs : j.n = 3 \/ (j.pattern = "distance" /\ ~j.inPlace)}

\* One collective is enough to see a put overtake initData.
OneJob == {Job("SendRecv", "rma", 2, 4, 0, FALSE, 1)}

MCMatrix == [i \in 0 .. 2 |-> [j \in 0 .. 2 |->
                CASE i = 0 -> IF j = 0 THEN 0 ELSE 2 * j + j - 1
                  [] i = 1 -> IF j = 1 THEN 0 ELSE 4 - j
                  [] i = 2 -> IF j = 2 THEN 1 ELSE 2 + 4 * j]]
=============================================================================
