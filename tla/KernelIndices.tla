--------------------------- MODULE KernelIndices ---------------------------
(***************************************************************************)
(* Which vectors a thread works on in the unrolled loops of the vectorized *)
(* all-reduce kernels (src/all_reduce.cu).                                 *)
(***************************************************************************)
EXTENDS Integers

CONSTANTS
    WarpSize,       \* WARP_SIZE: 32
    UnrollFactor    \* UNROLL_FACTOR: 8 vectors of 16 bytes

ASSUME SizesAssumption == WarpSize \in Nat \ {0} /\ UnrollFactor \in Nat \ {0}

\* Mutant: neighbouring vectors, as if a thread did not share its warp's.
VectorWithoutWarp(globalNthreads, g, chunk, i) ==
    (g \div WarpSize) * WarpSize * UnrollFactor + (g % WarpSize) + chunk * globalNthreads * UnrollFactor + i

\* The i-th vector thread g of all has in a chunk that all threads work on.
VectorAt(globalNthreads, g, chunk, i) ==
    (g \div WarpSize) * WarpSize * UnrollFactor + (g % WarpSize)
       + chunk * globalNthreads * UnrollFactor + i * WarpSize
=============================================================================
