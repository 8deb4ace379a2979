-------------------------- MODULE MCDeviceKernels --------------------------
(***************************************************************************)
(* Two or three ranks with blocks of one or two threads run every kernel;   *)
(* one rank alone goes through every number of elements up to three chunks *)
(* of vectors.                                                             *)
(***************************************************************************)
EXTENDS DeviceKernels

Job(coll, impl, n, ctas, threads, vf, count) ==
    [coll |-> coll, impl |-> impl, n |-> n, lsa |-> n, ctas |-> ctas, threads |-> threads, vf |-> vf,
     count |-> count, unalign |-> 0, inPlace |-> FALSE, closing |-> FALSE]

InPlaces(j) == {j, [j EXCEPT !.inPlace = TRUE]}
LoadStoreJobs ==
    InPlaces(Job("AllReduce", 1, 2, 2, 1, 1, 5)) \cup InPlaces(Job("AllReduce", 3, 3, 1, 1, 1, 2))
       \cup InPlaces(Job("AllReduce", 2, 2, 1, 2, 2, 6)) \cup InPlaces(Job("AllReduce", 4, 2, 1, 2, 2, 4))
       \cup {Job("AlltoAll", 1, 2, 2, 1, 1, 3), Job("AlltoAll", 1, 3, 1, 1, 1, 1), Job("AlltoAll", 2, 2, 2, 1, 2, 4)}
GinJobs ==
    {[Job("AlltoAll", 3, 2, c, 1, 1, 1) EXCEPT !.closing = b] : c \in {1, 2}, b \in BOOLEAN}
       \cup {Job("AlltoAll", 3, 2, 1, 2, 1, 1), [Job("AlltoAll", 4, 2, 1, 2, 1, 2) EXCEPT !.lsa = 1]}
       \cup {[Job("AlltoAll", 4, 2, c, 1, 1, 1) EXCEPT !.lsa = l] : c \in {1, 2}, l \in {1, 2}}
\* A number that is no multiple of the vector and leaves room for a second iteration
\* starts that between two vectors; the last line does so from the first on, by -u.
IndexJobs ==
    {Job("AllReduce", i, 1, c, 2, vf, k) : i \in {2, 4}, c \in {1, 2}, vf \in {2, 4}, k \in 0 .. 24}
       \cup {[Job("AlltoAll", 2, 1, 1, 2, 2, k) EXCEPT !.unalign = u] : k \in 0 .. 20, u \in {0, 1}}
       \cup {[Job("AllReduce", i, 1, 1, 2, 4, k) EXCEPT !.unalign = u] : i \in {2, 4}, k \in 0 .. 8, u \in 1 .. 3}

MCJobs == LoadStoreJobs \cup GinJobs \cup IndexJobs
MisalignedJobs == {[Job("AllReduce", i, 2, 1, 2, 4, 12) EXCEPT !.unalign = 1] : i \in {2, 4}}
=============================================================================
