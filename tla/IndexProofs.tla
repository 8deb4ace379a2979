----------------------------- MODULE IndexProofs -----------------------------
(***************************************************************************)
(* Machine-checked proofs about who works on which element.                *)
(*                                                                         *)
(* In the vectorized all-reduce kernels (src/all_reduce.cu), for every     *)
(* number of threads that is a multiple of the warp, every size of the     *)
(* warp and every degree of unrolling: the vectors the threads of all      *)
(* ranks work on, chunk after chunk, are all the vectors, and no two       *)
(* threads share one.                                                      *)
(*                                                                         *)
(* In the grid that the kernels of verifiable.cu run in, for any number of *)
(* elements, blocks and threads: the runs of elements that bid and gridDim *)
(* give the blocks cover the buffer, no element is in two of them, and so  *)
(* the verification counts every wrong element once.                       *)
(***************************************************************************)
EXTENDS Verifiable, KernelIndices, FiniteSetTheorems, TLAPS

\* The n threads of all ranks make up whole warps: what Valid asks of a job.
WholeWarps(n) == n \in Nat \ {0} /\ n % WarpSize = 0

-----------------------------------------------------------------------------
(* Division with remainder.                                                *)

LEMMA Euclid ==
    ASSUME NEW v \in Nat, NEW d \in Nat \ {0}
    PROVE  /\ v \div d \in Nat /\ v % d \in 0 .. d - 1
           /\ v = d * (v \div d) + (v % d)
  OBVIOUS

LEMMA EuclidUnique ==
    ASSUME NEW d \in Nat \ {0}, NEW q1 \in Nat, NEW q2 \in Nat,
           NEW r1 \in 0 .. d - 1, NEW r2 \in 0 .. d - 1,
           d * q1 + r1 = d * q2 + r2
    PROVE  q1 = q2 /\ r1 = r2
<1>1. (d * q1 + r1) \div d = q1 /\ (d * q2 + r2) \div d = q2
  OBVIOUS
<1> QED
  BY <1>1

\* The n-th group of d numbers lies between the groups before and after it.
LEMMA GroupBounds ==
    ASSUME NEW d \in Nat \ {0}, NEW lo \in Nat, NEW hi \in Nat, NEW n \in Nat,
           NEW r \in 0 .. d - 1, lo <= n, n + 1 <= hi
    PROVE  /\ d * n + r \in Nat
           /\ d * lo <= d * n + r
           /\ (d * n + r) + 1 <= d * hi
<1>1. d * lo <= d * n /\ d * (n + 1) <= d * hi
  OBVIOUS
<1>2. d * (n + 1) = d * n + d /\ d * n \in Nat /\ d * lo \in Nat /\ d * hi \in Nat
  OBVIOUS
<1> QED
  BY <1>1, <1>2

-----------------------------------------------------------------------------
(* The vectors of a chunk.                                                 *)

\* A vector number, taken apart into warp, turn of unrolling and lane.
LEMMA VectorTakenApart ==
    ASSUME NEW n, NEW warps \in Nat \ {0}, n = WarpSize * warps,
           NEW g \in 0 .. n - 1, NEW chunk \in Nat, NEW i \in 0 .. UnrollFactor - 1
    PROVE  /\ g \div WarpSize \in 0 .. warps - 1 /\ g % WarpSize \in 0 .. WarpSize - 1
           /\ VectorAt(n, g, chunk, i) =
                WarpSize * (UnrollFactor * (warps * chunk + g \div WarpSize) + i) + (g % WarpSize)
<1> DEFINE W == WarpSize
           U == UnrollFactor
           w == g \div WarpSize
           l == g % WarpSize
<1>1. W \in Nat \ {0} /\ U \in Nat \ {0} /\ g \in Nat
  BY SizesAssumption
<1>2. w \in Nat /\ l \in 0 .. W - 1 /\ g = W * w + l
  BY <1>1, Euclid
<1>3. w < warps
  <2>1. SUFFICES ASSUME w >= warps PROVE FALSE
    BY <1>2
  <2>2. W * w >= W * warps /\ g < W * warps /\ W * warps \in Nat /\ W * w \in Nat
    BY <2>1, <1>1, <1>2
  <2> QED
    BY <2>2, <1>2
<1>4. VectorAt(n, g, chunk, i) = w * W * U + l + chunk * (W * warps) * U + i * W
  BY DEF VectorAt
<1> HIDE DEF W, U, w, l
<1>5. w * W * U + l + chunk * (W * warps) * U + i * W = W * (U * (warps * chunk + w) + i) + l
  BY <1>1, <1>2
<1> QED
  BY <1>2, <1>3, <1>4, <1>5 DEF W, U, w, l

\* Whole warps are a number of warps.
LEMMA WarpsFacts ==
    ASSUME NEW n, WholeWarps(n)
    PROVE  \E warps \in Nat \ {0} : n = WarpSize * warps
<1> DEFINE warps == n \div WarpSize
<1>1. n \in Nat \ {0} /\ WarpSize \in Nat \ {0} /\ n % WarpSize = 0
  BY SizesAssumption DEF WholeWarps
<1>2. warps \in Nat /\ n = WarpSize * warps
  BY <1>1, Euclid
<1>3. warps # 0
  BY <1>1, <1>2
<1> QED
  BY <1>2, <1>3

\* Where the vectors of a chunk lie.
LEMMA ChunkBounds ==
    ASSUME NEW n, WholeWarps(n), NEW g \in 0 .. n - 1, NEW chunk \in Nat,
           NEW i \in 0 .. UnrollFactor - 1
    PROVE  /\ n * UnrollFactor \in Nat \ {0}
           /\ VectorAt(n, g, chunk, i) \in Nat
           /\ (n * UnrollFactor) * chunk <= VectorAt(n, g, chunk, i)
           /\ VectorAt(n, g, chunk, i) < (n * UnrollFactor) * (chunk + 1)
<1>1. PICK warps \in Nat \ {0} : n = WarpSize * warps
  BY WarpsFacts
<1> DEFINE W == WarpSize
           U == UnrollFactor
           w == g \div WarpSize
           l == g % WarpSize
           y == warps * chunk + w
           x == U * y + i
<1>2. /\ w \in 0 .. warps - 1 /\ l \in 0 .. W - 1
      /\ VectorAt(n, g, chunk, i) = W * x + l
  BY <1>1, VectorTakenApart
<1>3. W \in Nat \ {0} /\ U \in Nat \ {0} /\ warps * chunk \in Nat
  BY SizesAssumption
<1>4. y \in Nat /\ warps * chunk <= y /\ y + 1 <= warps * (chunk + 1)
  BY <1>2, <1>3
<1> HIDE DEF W, U, w, l, y
<1>5. x \in Nat /\ U * (warps * chunk) <= x /\ x + 1 <= U * (warps * (chunk + 1))
  <2>1. warps * (chunk + 1) \in Nat /\ i \in 0 .. U - 1
    BY DEF U
  <2> QED
    BY <2>1, <1>3, <1>4, GroupBounds
<1> HIDE DEF x
<1>6. /\ W * x + l \in Nat /\ W * (U * (warps * chunk)) <= W * x + l
      /\ (W * x + l) + 1 <= W * (U * (warps * (chunk + 1)))
  <2>1. U * (warps * chunk) \in Nat /\ U * (warps * (chunk + 1)) \in Nat
    BY <1>3
  <2> QED
    BY <2>1, <1>2, <1>3, <1>5, GroupBounds
<1>7. /\ ((W * warps) * U) * chunk = W * (U * (warps * chunk))
      /\ ((W * warps) * U) * (chunk + 1) = W * (U * (warps * (chunk + 1)))
      /\ (W * warps) * U \in Nat \ {0}
  BY <1>3
<1>8. W * (U * (warps * (chunk + 1))) \in Nat
  BY <1>3
<1> QED
  BY <1>1, <1>2, <1>6, <1>7, <1>8 DEF W, U

-----------------------------------------------------------------------------
(* The theorems.                                                           *)

\* No vector is worked on twice: not by two threads, nor in two chunks, nor
\* in two turns of the unrolled loop (all_reduce.cu 215-292).
THEOREM NoVectorTwice ==
    ASSUME NEW n, WholeWarps(n),
           NEW g1 \in 0 .. n - 1, NEW chunk1 \in Nat, NEW i1 \in 0 .. UnrollFactor - 1,
           NEW g2 \in 0 .. n - 1, NEW chunk2 \in Nat, NEW i2 \in 0 .. UnrollFactor - 1,
           VectorAt(n, g1, chunk1, i1) = VectorAt(n, g2, chunk2, i2)
    PROVE  g1 = g2 /\ chunk1 = chunk2 /\ i1 = i2
<1>1. PICK warps \in Nat \ {0} : n = WarpSize * warps
  BY WarpsFacts
<1> DEFINE W == WarpSize
           U == UnrollFactor
           w(g) == g \div WarpSize
           l(g) == g % WarpSize
           y(g, chunk) == warps * chunk + w(g)
           x(g, chunk, i) == U * y(g, chunk) + i
<1>2. W \in Nat \ {0} /\ U \in Nat \ {0}
  BY SizesAssumption
<1>3. /\ w(g1) \in 0 .. warps - 1 /\ l(g1) \in 0 .. W - 1
      /\ w(g2) \in 0 .. warps - 1 /\ l(g2) \in 0 .. W - 1
      /\ W * x(g1, chunk1, i1) + l(g1) = W * x(g2, chunk2, i2) + l(g2)
  BY <1>1, VectorTakenApart
<1>4. y(g1, chunk1) \in Nat /\ y(g2, chunk2) \in Nat
  BY <1>3
<1>5. x(g1, chunk1, i1) \in Nat /\ x(g2, chunk2, i2) \in Nat
  BY <1>2, <1>4
<1>6. x(g1, chunk1, i1) = x(g2, chunk2, i2) /\ l(g1) = l(g2)
  <2> HIDE DEF W, x, l
  <2> QED
    BY <1>2, <1>3, <1>5, EuclidUnique
<1>7. y(g1, chunk1) = y(g2, chunk2) /\ i1 = i2
  <2>1. U * y(g1, chunk1) + i1 = U * y(g2, chunk2) + i2
    BY <1>6
  <2>2. i1 \in 0 .. U - 1 /\ i2 \in 0 .. U - 1
    OBVIOUS
  <2> HIDE DEF U, y
  <2> QED
    BY <2>1, <2>2, <1>2, <1>4, EuclidUnique
<1>8. chunk1 = chunk2 /\ w(g1) = w(g2)
  <2> HIDE DEF w
  <2> QED
    BY <1>3, <1>7, EuclidUnique
<1>9. g1 = W * w(g1) + l(g1) /\ g2 = W * w(g2) + l(g2)
  BY <1>1, <1>2, Euclid
<1> QED
  BY <1>6, <1>7, <1>8, <1>9

\* Every vector is worked on: it lies in one of the whole chunks or in the one
\* after them (268-292), which the kernel goes through with a bound.
THEOREM EveryVectorOnce ==
    ASSUME NEW n, WholeWarps(n), NEW vector_count \in Nat, NEW v \in 0 .. vector_count - 1
    PROVE  \E g \in 0 .. n - 1, i \in 0 .. UnrollFactor - 1,
              chunk \in 0 .. vector_count \div (n * UnrollFactor) :
              VectorAt(n, g, chunk, i) = v
<1>1. PICK warps \in Nat \ {0} : n = WarpSize * warps
  BY WarpsFacts
<1> DEFINE W == WarpSize
           U == UnrollFactor
           x == v \div W
           l == v % W
           y == x \div U
           i == x % U
           chunk == y \div warps
           w == y % warps
           g == W * w + l
<1>2. W \in Nat \ {0} /\ U \in Nat \ {0} /\ v \in Nat /\ v < vector_count
  BY SizesAssumption
<1>3. x \in Nat /\ l \in 0 .. W - 1 /\ v = W * x + l
  BY <1>2, Euclid
<1>4. y \in Nat /\ i \in 0 .. U - 1 /\ x = U * y + i
  <2> HIDE DEF x
  <2> QED
    BY <1>2, <1>3, Euclid
<1>5. chunk \in Nat /\ w \in 0 .. warps - 1 /\ y = warps * chunk + w
  <2> HIDE DEF y
  <2> QED
    BY <1>4, Euclid
<1> HIDE DEF x, l, y, i, chunk, w
<1>6. g \in 0 .. n - 1
  <2>1. W * w \in Nat /\ W * (w + 1) <= W * warps /\ W * (w + 1) = W * w + W
    BY <1>2, <1>5
  <2> QED
    BY <2>1, <1>1, <1>2, <1>3
<1>7. g \div W = w /\ g % W = l
  <2>1. g \in Nat
    BY <1>2, <1>3, <1>5
  <2>2. g = W * w + l
    OBVIOUS
  <2> HIDE DEF W, g
  <2>3. g \div W \in Nat /\ g % W \in 0 .. W - 1 /\ g = W * (g \div W) + (g % W)
    BY <2>1, <1>2, Euclid
  <2>4. W * w + l = W * (g \div W) + (g % W) /\ w \in Nat
    BY <2>2, <2>3, <1>5
  <2> QED
    BY <2>3, <2>4, <1>2, <1>3, EuclidUnique
<1>8. VectorAt(n, g, chunk, i) = v
  <2> HIDE DEF g
  <2>1. VectorAt(n, g, chunk, i) = W * (U * (warps * chunk + (g \div W)) + i) + (g % W)
    BY <1>1, <1>4, <1>5, <1>6, VectorTakenApart
  <2> QED
    BY <2>1, <1>3, <1>4, <1>5, <1>7
<1>9. chunk \in 0 .. vector_count \div (n * U)
  <2> HIDE DEF g
  <2> DEFINE per == n * U
  <2>1. per \in Nat \ {0} /\ per * chunk <= v
    BY <1>4, <1>5, <1>6, <1>8, ChunkBounds
  <2> HIDE DEF per
  <2>2. /\ vector_count \div per \in Nat
        /\ vector_count < per * ((vector_count \div per) + 1)
    BY <2>1
  <2>3. chunk < (vector_count \div per) + 1
    <3>1. SUFFICES ASSUME chunk >= (vector_count \div per) + 1 PROVE FALSE
      BY <2>2, <1>5
    <3>2. per * chunk >= per * ((vector_count \div per) + 1)
      BY <3>1, <2>1, <2>2, <1>5
    <3>3. per * chunk \in Nat /\ per * ((vector_count \div per) + 1) \in Nat
      BY <2>1, <2>2, <1>5
    <3> QED
      BY <3>2, <3>3, <2>1, <2>2, <1>2
  <2> QED
    BY <2>2, <2>3, <1>5 DEF per
<1> QED
  BY <1>4, <1>6, <1>8, <1>9

\* The whole chunks, which the kernel goes through without a bound (242-266),
\* do not reach past the vectors.
THEOREM WholeChunksStayWithin ==
    ASSUME NEW n, WholeWarps(n), NEW vector_count \in Nat,
           NEW g \in 0 .. n - 1, NEW i \in 0 .. UnrollFactor - 1,
           NEW chunk \in Nat, chunk < vector_count \div (n * UnrollFactor)
    PROVE  VectorAt(n, g, chunk, i) < vector_count
<1> DEFINE per == n * UnrollFactor
<1>1. /\ per \in Nat \ {0} /\ VectorAt(n, g, chunk, i) \in Nat
      /\ VectorAt(n, g, chunk, i) < per * (chunk + 1)
  BY ChunkBounds
<1>2. chunk + 1 <= vector_count \div per
  <2>1. vector_count \div per \in Nat
    BY <1>1
  <2> QED
    BY <2>1
<1> HIDE DEF per
<1>3. per * (chunk + 1) <= vector_count
  <2>1. vector_count \div per \in Nat /\ per * (vector_count \div per) <= vector_count
    BY <1>1
  <2>2. per * (chunk + 1) <= per * (vector_count \div per)
    BY <2>1, <1>1, <1>2
  <2>3. per * (chunk + 1) \in Nat /\ per * (vector_count \div per) \in Nat
    BY <2>1, <1>1
  <2> QED
    BY <2>1, <2>2, <2>3
<1>4. per * (chunk + 1) \in Nat
  BY <1>1
<1> QED
  BY <1>1, <1>3, <1>4

-----------------------------------------------------------------------------
(* The grid of the verifier.                                               *)

\* Elements are dealt out evenly: quotient and remainder.
LEMMA Dealt ==
    ASSUME NEW eltN \in Nat, NEW grid \in Nat \ {0}
    PROVE  /\ eltN \div grid \in Nat /\ eltN % grid \in 0 .. grid - 1
           /\ eltN = grid * (eltN \div grid) + (eltN % grid)
  OBVIOUS

LEMMA QuotientFacts ==
    ASSUME NEW a \in Nat, NEW d \in Nat \ {0}
    PROVE  /\ a \div d \in Nat
           /\ (a \div d) * d <= a /\ a < ((a \div d) + 1) * d
  OBVIOUS

\* A block begins where the one before it ends, and further on.
LEMMA StartFacts ==
    ASSUME NEW eltN \in Nat, NEW grid \in Nat \ {0}, NEW b \in 0 .. grid, NEW c \in 0 .. grid, b <= c
    PROVE  /\ BlockStart(eltN, grid, b) \in Nat
           /\ BlockStart(eltN, grid, b) <= BlockStart(eltN, grid, c)
<1> DEFINE q == eltN \div grid
           m == eltN % grid
<1>1. q \in Nat /\ m \in Nat
  BY Dealt
<1>2. BlockStart(eltN, grid, b) = b * q + Least(b, m) /\ BlockStart(eltN, grid, c) = c * q + Least(c, m)
  BY DEF BlockStart
<1>3. b * q \in Nat /\ c * q \in Nat /\ b * q <= c * q
  BY <1>1
<1>4. Least(b, m) \in Nat /\ Least(c, m) \in Nat /\ Least(b, m) <= Least(c, m)
  BY <1>1 DEF Least
<1> HIDE DEF q, m
<1> QED
  BY <1>2, <1>3, <1>4

\* Every element lies in the run of some block.
LEMMA SomeBlock ==
    ASSUME NEW eltN \in Nat, NEW grid \in Nat \ {0}, NEW k \in 0 .. eltN - 1
    PROVE  \E b \in 0 .. grid - 1 :
              BlockStart(eltN, grid, b) <= k /\ k < BlockStart(eltN, grid, b + 1)
<1> DEFINE q == eltN \div grid
           m == eltN % grid
           long == (q + 1) * m
<1>1. q \in Nat /\ m \in 0 .. grid - 1 /\ eltN = grid * q + m /\ long \in Nat
  BY Dealt
<1>2. \A b \in 0 .. grid : BlockStart(eltN, grid, b) = b * q + Least(b, m)
  BY DEF BlockStart
<1>3. k \in Nat /\ k < eltN
  OBVIOUS
<1> HIDE DEF q, m
<1>4. CASE k < long
  <2> DEFINE b == k \div (q + 1)
  <2>1. b \in Nat /\ b * (q + 1) <= k /\ k < (b + 1) * (q + 1)
    BY <1>1, <1>3, QuotientFacts
  <2>2. b < m
    <3>1. SUFFICES ASSUME b >= m PROVE FALSE
      BY <2>1, <1>1
    <3>2. b * (q + 1) >= m * (q + 1)
      BY <3>1, <2>1, <1>1
    <3> HIDE DEF b
    <3> QED
      BY <3>2, <2>1, <1>1, <1>3, <1>4
  <2> HIDE DEF b
  <2>3. b \in 0 .. grid - 1 /\ b + 1 \in 0 .. grid /\ Least(b, m) = b /\ Least(b + 1, m) = b + 1
    BY <2>1, <2>2, <1>1 DEF Least
  <2>4. BlockStart(eltN, grid, b) = b * (q + 1) /\ BlockStart(eltN, grid, b + 1) = (b + 1) * (q + 1)
    BY <2>1, <2>3, <1>1, <1>2
  <2> QED
    BY <2>1, <2>3, <2>4
<1>5. CASE k >= long
  <2>1. long <= k /\ k - long \in Nat /\ k - long < (grid - m) * q
    <3>1. (grid - m) * q + long = grid * q + m
      BY <1>1
    <3>2. (grid - m) * q \in Int
      BY <1>1
    <3> QED
      BY <3>1, <3>2, <1>1, <1>3, <1>5
  <2>2. q # 0
    BY <2>1, <1>1
  <2> DEFINE d == (k - long) \div q
  <2>3. d \in Nat /\ d * q <= k - long /\ k - long < (d + 1) * q
    BY <2>1, <2>2, <1>1, QuotientFacts
  <2>4. d < grid - m
    <3>1. SUFFICES ASSUME d >= grid - m PROVE FALSE
      BY <2>3, <1>1
    <3>2. d * q >= (grid - m) * q /\ (grid - m) * q \in Int /\ d * q \in Nat
      BY <3>1, <2>3, <1>1
    <3> HIDE DEF d
    <3> QED
      BY <3>2, <2>1, <2>3
  <2> HIDE DEF d
  <2> DEFINE b == m + d
  <2>5. /\ b \in 0 .. grid - 1 /\ b + 1 \in 0 .. grid
        /\ Least(b, m) = m /\ Least(b + 1, m) = m
    BY <2>3, <2>4, <1>1 DEF Least
  <2>6. b * q + m = long + d * q /\ (b + 1) * q + m = long + (d + 1) * q
    BY <2>3, <1>1
  <2>7. /\ BlockStart(eltN, grid, b) = long + d * q
        /\ BlockStart(eltN, grid, b + 1) = long + (d + 1) * q
    BY <2>5, <2>6, <1>2
  <2>8. d * q \in Nat /\ (d + 1) * q \in Nat
    BY <2>3, <1>1
  <2> HIDE DEF b, long
  <2>9. BlockStart(eltN, grid, b) <= k /\ k < BlockStart(eltN, grid, b + 1)
    BY <2>3, <2>7, <2>8, <1>1, <1>3
  <2> QED
    BY <2>5, <2>9
<1> QED
  BY <1>1, <1>3, <1>4, <1>5

\* There is a block to launch when there is an element.
LEMMA GridFacts ==
    ASSUME NEW eltN \in Nat \ {0}, MaxBlocks \in Nat \ {0}, BlockDim \in Nat \ {0}
    PROVE  GridDim(eltN) \in Nat \ {0} /\ GridDim(eltN) <= MaxBlocks
<1> DEFINE d == 4 * BlockDim
           a == eltN + d - 1
<1>1. d \in Nat \ {0} /\ a \in Nat /\ a >= d
  OBVIOUS
<1>2. GridDim(eltN) = Least(MaxBlocks, a \div d)
  BY DEF GridDim
<1> HIDE DEF a, d
<1>3. a \div d \in Nat \ {0}
  <2>1. a \div d \in Nat /\ a < ((a \div d) + 1) * d
    BY <1>1, QuotientFacts
  <2> QED
    BY <2>1, <1>1
<1> QED
  BY <1>2, <1>3 DEF Least

-----------------------------------------------------------------------------
(* The theorems.  Turn n of thread t of block b looks at element           *)
(* BlockStart(b) + t + n * BlockDim, as long as that is before the next    *)
(* block's first.                                                          *)
VisitsAt(eltN, b, t, turn, k) ==
    /\ BlockStart(eltN, GridDim(eltN), b) + t + turn * BlockDim = k
    /\ k < BlockStart(eltN, GridDim(eltN), b + 1)

\* Every element is prepared, and compared, by some thread (verifiable.cu
\* 1004-1022, 1088-1107, 1188-1209).
THEOREM EveryElementVisited ==
    ASSUME NEW eltN \in Nat \ {0}, MaxBlocks \in Nat \ {0}, BlockDim \in Nat \ {0},
           NEW k \in 0 .. eltN - 1
    PROVE  \E b \in 0 .. GridDim(eltN) - 1, t \in 0 .. BlockDim - 1, turn \in Nat :
              VisitsAt(eltN, b, t, turn, k)
<1> DEFINE grid == GridDim(eltN)
<1>1. grid \in Nat \ {0}
  BY GridFacts
<1> HIDE DEF grid
<1>2. PICK b \in 0 .. grid - 1 :
         BlockStart(eltN, grid, b) <= k /\ k < BlockStart(eltN, grid, b + 1)
  BY <1>1, SomeBlock
<1> DEFINE start == BlockStart(eltN, grid, b)
           t == (k - start) % BlockDim
           turn == (k - start) \div BlockDim
<1>3. start \in Nat
  BY <1>1, StartFacts
<1> HIDE DEF start
<1>4. k - start \in Nat
  BY <1>2, <1>3 DEF start
<1>5. turn \in Nat /\ t \in 0 .. BlockDim - 1 /\ k - start = BlockDim * turn + t
  <2> DEFINE n == k - start
  <2>1. n \in Nat
    BY <1>4
  <2> HIDE DEF n
  <2>2. n \div BlockDim \in Nat /\ n % BlockDim \in 0 .. BlockDim - 1
        /\ n = BlockDim * (n \div BlockDim) + (n % BlockDim)
    BY <2>1, Dealt
  <2> QED
    BY <2>2 DEF n
<1> HIDE DEF t, turn
<1>6. start + t + turn * BlockDim = k
  <2>1. turn * BlockDim = BlockDim * turn /\ turn * BlockDim \in Nat
    BY <1>5
  <2> QED
    BY <2>1, <1>3, <1>5
<1> QED
  BY <1>2, <1>5, <1>6 DEF VisitsAt, start, grid

\* No element is visited twice: a difference is counted once, and two threads
\* never write the same element.
THEOREM NoElementVisitedTwice ==
    ASSUME NEW eltN \in Nat \ {0}, MaxBlocks \in Nat \ {0}, BlockDim \in Nat \ {0},
           NEW k \in 0 .. eltN - 1,
           NEW b1 \in 0 .. GridDim(eltN) - 1, NEW t1 \in 0 .. BlockDim - 1, NEW turn1 \in Nat,
           NEW b2 \in 0 .. GridDim(eltN) - 1, NEW t2 \in 0 .. BlockDim - 1, NEW turn2 \in Nat,
           VisitsAt(eltN, b1, t1, turn1, k), VisitsAt(eltN, b2, t2, turn2, k)
    PROVE  b1 = b2 /\ t1 = t2 /\ turn1 = turn2
<1> DEFINE grid == GridDim(eltN)
           start(b) == BlockStart(eltN, grid, b)
<1>1. grid \in Nat \ {0}
  BY GridFacts
<1>2. /\ start(b1) + t1 + turn1 * BlockDim = k /\ k < start(b1 + 1)
      /\ start(b2) + t2 + turn2 * BlockDim = k /\ k < start(b2 + 1)
  BY DEF VisitsAt
<1>3. /\ b1 \in 0 .. grid /\ b1 + 1 \in 0 .. grid /\ b2 \in 0 .. grid /\ b2 + 1 \in 0 .. grid
      /\ turn1 * BlockDim \in Nat /\ turn2 * BlockDim \in Nat
  BY <1>1
<1> HIDE DEF grid
<1>4. \A b \in 0 .. grid, c \in 0 .. grid :
         start(b) \in Nat /\ (b <= c => start(b) <= start(c))
  BY <1>1, StartFacts
<1> HIDE DEF start
<1>5. start(b1) <= k /\ start(b2) <= k
  BY <1>2, <1>3, <1>4
<1>6. b1 = b2
  <2>1. ASSUME b1 + 1 <= b2 PROVE FALSE
    BY <2>1, <1>2, <1>3, <1>4, <1>5
  <2>2. ASSUME b2 + 1 <= b1 PROVE FALSE
    BY <2>2, <1>2, <1>3, <1>4, <1>5
  <2> QED
    BY <2>1, <2>2, <1>3
<1>7. t1 + turn1 * BlockDim = t2 + turn2 * BlockDim
  BY <1>2, <1>3, <1>4, <1>6
<1>8. turn1 = turn2
  <2>1. ASSUME NEW n \in Nat, NEW o \in Nat, NEW t \in 0 .. BlockDim - 1, NEW u \in 0 .. BlockDim - 1,
               t + n * BlockDim = u + o * BlockDim
        PROVE  ~(n < o)
    <3>1. SUFFICES ASSUME n + 1 <= o PROVE FALSE
      OBVIOUS
    <3>2. (n + 1) * BlockDim <= o * BlockDim /\ (n + 1) * BlockDim = n * BlockDim + BlockDim
      BY <3>1
    <3>3. n * BlockDim \in Nat /\ o * BlockDim \in Nat
      OBVIOUS
    <3> QED
      BY <3>2, <3>3, <2>1
  <2>2. ~(turn1 < turn2) /\ ~(turn2 < turn1)
    BY <2>1, <1>7
  <2> QED
    BY <2>2
<1> QED
  BY <1>3, <1>6, <1>7, <1>8

-----------------------------------------------------------------------------
(* The count.  Mine(t) are the elements of thread t of the verifying       *)
(* kernel, Found(t) those it has passed and found wrong, Counted those     *)
(* that are in the total.                                                  *)
Mine(t) == {i \in Elements : /\ i < EndElement(t)
                             /\ \E turn \in Nat : i = FirstElement(t) + turn * BlockDim}
Wrong == {i \in Elements : Differs(i)}
Found(t) == {i \in Mine(t) \cap Wrong : i < at[t]}
Counted == {i \in Wrong : \E t \in added : i \in Mine(t)}

\* While the kernel runs every thread has counted what it has passed, and the
\* total is that of the threads that are through.
InCount ==
    /\ at \in [Threads -> Nat] /\ DOMAIN bad = Threads
    /\ added \subseteq Threads
    /\ \A t \in Threads :
          /\ \E turn \in Nat : at[t] = FirstElement(t) + turn * BlockDim
          /\ bad[t] = Cardinality(Found(t))
          /\ t \in added => at[t] >= EndElement(t)
    /\ badEltN = Cardinality(Counted)
CountInv ==
    /\ job \in Jobs
    /\ phase = "verify" => InCount
    /\ CountsEveryWrongElement

\* No element is beyond the end of the last block.
LEMMA ThreadFacts ==
    ASSUME job \in Jobs, NEW t \in Threads
    PROVE  /\ job.eltN \in Nat \ {0} /\ BlockDim \in Nat \ {0}
           /\ FirstElement(t) \in Nat /\ EndElement(t) \in 0 .. job.eltN
<1>1. job.eltN \in Nat /\ MaxBlocks \in Nat \ {0} /\ BlockDim \in Nat \ {0}
  BY JobsAssumption DEF JobsAssumption
<1> DEFINE eltN == job.eltN
           grid == GridDim(eltN)
<1>2. t[1] \in 0 .. grid - 1 /\ t[2] \in 0 .. BlockDim - 1
  BY DEF Threads
<1>3. eltN # 0
  <2>1. SUFFICES ASSUME eltN = 0 PROVE FALSE
    OBVIOUS
  <2> DEFINE d == 4 * BlockDim
             a == d - 1
  <2>2. d \in Nat \ {0} /\ a \in Nat /\ a < d
    BY <1>1
  <2>3. eltN + d - 1 = a
    BY <2>1, <2>2
  <2> HIDE DEF a, d, eltN
  <2>4. a \div d = 0
    <3>1. a \div d \in Nat /\ (a \div d) * d <= a
      BY <2>2, QuotientFacts
    <3>2. a \div d >= 1 => (a \div d) * d >= d
      BY <3>1, <2>2
    <3> QED
      BY <3>1, <3>2, <2>2
  <2>5. grid = 0
    BY <2>3, <2>4, <1>1 DEF GridDim, Least, d
  <2> QED
    BY <2>5, <1>2
<1>4. grid \in Nat \ {0}
  BY <1>1, <1>3, GridFacts
<1>5. BlockStart(eltN, grid, grid) = eltN
  <2> HIDE DEF eltN, grid
  <2>1. eltN % grid \in 0 .. grid - 1 /\ eltN = grid * (eltN \div grid) + (eltN % grid)
    BY <1>1, <1>4, Dealt DEF eltN
  <2> QED
    BY <2>1, <1>4 DEF BlockStart, Least
<1>6. /\ t[1] \in 0 .. grid /\ t[1] + 1 \in 0 .. grid /\ grid \in 0 .. grid
      /\ t[1] + 1 <= grid
  BY <1>2, <1>4
<1> HIDE DEF grid
<1>7. /\ BlockStart(eltN, grid, t[1]) \in Nat /\ BlockStart(eltN, grid, t[1] + 1) \in Nat
      /\ BlockStart(eltN, grid, t[1] + 1) <= eltN
  BY <1>1, <1>4, <1>5, <1>6, StartFacts
<1> QED
  BY <1>1, <1>2, <1>3, <1>7 DEF FirstElement, EndElement, grid

\* The threads share the elements out.
LEMMA MineFacts ==
    ASSUME job \in Jobs
    PROVE  /\ \A i \in Elements : \E t \in Threads : i \in Mine(t)
           /\ \A t \in Threads : \A u \in Threads : t # u => Mine(t) \cap Mine(u) = {}
           /\ IsFiniteSet(Elements)
<1> DEFINE eltN == job.eltN
           grid == GridDim(eltN)
<1>1. eltN \in Nat /\ MaxBlocks \in Nat \ {0} /\ BlockDim \in Nat \ {0}
  BY JobsAssumption DEF JobsAssumption
<1>2. ASSUME NEW i \in Elements PROVE eltN \in Nat \ {0} /\ i \in 0 .. eltN - 1
  BY <1>1 DEF Elements
<1>3. ASSUME NEW i \in Elements PROVE \E t \in Threads : i \in Mine(t)
  <2>1. PICK b \in 0 .. grid - 1, u \in 0 .. BlockDim - 1, turn \in Nat : VisitsAt(eltN, b, u, turn, i)
    BY <1>1, <1>2, EveryElementVisited
  <2>2. <<b, u>> \in Threads
    BY DEF Threads
  <2>3. i \in Mine(<<b, u>>)
    BY <2>1 DEF Mine, VisitsAt, FirstElement, EndElement
  <2> QED
    BY <2>2, <2>3
<1>4. ASSUME NEW t \in Threads, NEW u \in Threads, NEW i \in Mine(t) \cap Mine(u) PROVE t = u
  <2>1. /\ t[1] \in 0 .. grid - 1 /\ t[2] \in 0 .. BlockDim - 1 /\ t = <<t[1], t[2]>>
        /\ u[1] \in 0 .. grid - 1 /\ u[2] \in 0 .. BlockDim - 1 /\ u = <<u[1], u[2]>>
    BY DEF Threads
  <2>2. PICK n \in Nat : VisitsAt(eltN, t[1], t[2], n, i)
    BY <1>4 DEF Mine, VisitsAt, FirstElement, EndElement
  <2>3. PICK o \in Nat : VisitsAt(eltN, u[1], u[2], o, i)
    BY <1>4 DEF Mine, VisitsAt, FirstElement, EndElement
  <2>4. eltN \in Nat \ {0} /\ i \in 0 .. eltN - 1
    BY <1>2, <1>4 DEF Mine
  <2> HIDE DEF eltN
  <2>5. t[1] = u[1] /\ t[2] = u[2]
    BY <2>1, <2>2, <2>3, <2>4, <1>1, NoElementVisitedTwice DEF eltN
  <2> QED
    BY <2>1, <2>5
<1>5. IsFiniteSet(Elements)
  BY <1>1, FS_Interval DEF Elements
<1> QED
  BY <1>3, <1>4, <1>5

\* What does not change the kernel's state does not change what it has found.
LEMMA SameCount ==
    ASSUME InCount, UNCHANGED <<job, at, bad, added, expected, results, badEltN>>
    PROVE  InCount'
  BY DEF InCount, Counted, Found, Wrong, Mine, Elements, Threads, Differs, tolerance, Floating,
         FirstElement, EndElement

\* A thread looks at its next element, one of its own.
LEMMA VerifyCounts ==
    ASSUME job \in Jobs, InCount, NEW t \in Threads, Verify(t)
    PROVE  InCount'
<1>1. /\ at[t] < EndElement(t) /\ at' = [at EXCEPT ![t] = @ + BlockDim]
      /\ bad' = [bad EXCEPT ![t] = @ + IF Differs(at[t]) THEN 1 ELSE 0]
      /\ UNCHANGED <<job, added, expected, results, badEltN>>
  BY DEF Verify, Visiting
<1>2. /\ Threads' = Threads /\ Wrong' = Wrong
      /\ \A u \in Threads : /\ FirstElement(u)' = FirstElement(u) /\ EndElement(u)' = EndElement(u)
                            /\ Mine(u)' = Mine(u)
  BY <1>1 DEF Wrong, Mine, Elements, Threads, Differs, tolerance, Floating, FirstElement, EndElement
<1>3. /\ FirstElement(t) \in Nat /\ EndElement(t) \in 0 .. job.eltN
      /\ job.eltN \in Nat /\ BlockDim \in Nat \ {0}
  BY ThreadFacts
<1>4. PICK turn \in Nat : at[t] = FirstElement(t) + turn * BlockDim
  BY DEF InCount
<1>5. turn * BlockDim \in Nat /\ (turn + 1) * BlockDim = turn * BlockDim + BlockDim
  BY <1>3, <1>4
<1>6. at[t] \in Nat /\ at[t] \in Mine(t)
  BY <1>1, <1>3, <1>4, <1>5 DEF Mine, Elements
<1>7. at'[t] = at[t] + BlockDim /\ \A u \in Threads : u # t => at'[u] = at[u]
  BY <1>1 DEF InCount
<1>8. at'[t] = FirstElement(t) + (turn + 1) * BlockDim /\ turn + 1 \in Nat
  BY <1>3, <1>4, <1>5, <1>7
<1>9. t \notin added
  BY <1>1, <1>3, <1>6 DEF InCount
<1>10. Found(t)' = Found(t) \cup (IF Differs(at[t]) THEN {at[t]} ELSE {})
  <2>1. ASSUME NEW i \in Mine(t) PROVE i < at'[t] <=> i < at[t] \/ i = at[t]
    <3>1. PICK o \in Nat : i = FirstElement(t) + o * BlockDim
      BY DEF Mine
    <3>2. o * BlockDim \in Nat
      BY <1>3, <3>1
    <3>3. CASE o <= turn
      <4>1. o * BlockDim <= turn * BlockDim /\ (o = turn \/ (o + 1) * BlockDim <= turn * BlockDim)
        BY <3>3, <1>3, <1>4
      <4>2. (o + 1) * BlockDim = o * BlockDim + BlockDim
        BY <1>3, <3>1
      <4> QED
        BY <4>1, <4>2, <3>1, <3>2, <1>3, <1>4, <1>5, <1>7
    <3>4. CASE o > turn
      <4>1. o * BlockDim >= (turn + 1) * BlockDim
        BY <3>4, <1>3, <1>4
      <4> QED
        BY <4>1, <3>1, <3>2, <1>3, <1>4, <1>5, <1>7
    <3> QED
      BY <3>1, <3>3, <3>4, <1>4
  <2>2. at[t] \in Wrong <=> Differs(at[t])
    BY <1>6 DEF Mine, Wrong
  <2> QED
    BY <2>1, <2>2, <1>2, <1>6 DEF Found
<1>11. bad'[t] = Cardinality(Found(t))'
  <2>1. at[t] \notin Found(t) /\ IsFiniteSet(Found(t)) /\ Cardinality(Found(t)) \in Nat
    <3>1. at[t] \notin Found(t)
      BY <1>6 DEF Found
    <3>2. IsFiniteSet(Found(t))
      BY MineFacts, FS_Subset DEF Found, Mine
    <3> QED
      BY <3>1, <3>2, FS_CardinalityType
  <2>2. Cardinality(Found(t) \cup {at[t]}) = Cardinality(Found(t)) + 1
    BY <2>1, FS_AddElement
  <2>3. bad'[t] = Cardinality(Found(t)) + IF Differs(at[t]) THEN 1 ELSE 0
    BY <1>1 DEF InCount
  <2> QED
    BY <2>1, <2>2, <2>3, <1>10
<1>12. \A u \in Threads : u # t => Found(u)' = Found(u) /\ bad'[u] = bad[u]
  BY <1>1, <1>2, <1>7 DEF Found, InCount
<1>13. Counted' = Counted
  BY <1>1, <1>2 DEF Counted, InCount
<1>14. at' \in [Threads -> Nat] /\ DOMAIN bad' = Threads
  BY <1>1, <1>3, <1>6 DEF InCount
<1>15. added \subseteq Threads /\ badEltN = Cardinality(Counted)
       /\ \A u \in Threads : /\ \E n \in Nat : at[u] = FirstElement(u) + n * BlockDim
                             /\ bad[u] = Cardinality(Found(u))
                             /\ u \in added => at[u] >= EndElement(u)
  BY DEF InCount
<1>16. ASSUME NEW u \in Threads
       PROVE  /\ \E n \in Nat : at'[u] = FirstElement(u)' + n * BlockDim
              /\ bad'[u] = Cardinality(Found(u))'
              /\ u \in added' => at'[u] >= EndElement(u)'
  <2>1. CASE u = t
    BY <2>1, <1>1, <1>2, <1>8, <1>9, <1>11
  <2>2. CASE u # t
    BY <2>2, <1>1, <1>2, <1>7, <1>12, <1>15
  <2> QED
    BY <2>1, <2>2
<1> QED
  BY <1>1, <1>2, <1>13, <1>14, <1>15, <1>16 DEF InCount

\* A thread that is through adds what it has found to the total.
LEMMA AddBadCounts ==
    ASSUME job \in Jobs, InCount, NEW t \in Threads, AddBad(t)
    PROVE  InCount'
<1>1. /\ at[t] >= EndElement(t) /\ t \notin added /\ added' = added \cup {t}
      /\ badEltN' = badEltN + bad[t]
      /\ UNCHANGED <<job, at, bad, expected, results>>
  BY DEF AddBad
<1>2. /\ Threads' = Threads /\ Wrong' = Wrong
      /\ \A u \in Threads : /\ FirstElement(u)' = FirstElement(u) /\ EndElement(u)' = EndElement(u)
                            /\ Mine(u)' = Mine(u) /\ Found(u)' = Found(u)
  BY <1>1 DEF Wrong, Found, Mine, Elements, Threads, Differs, tolerance, Floating, FirstElement, EndElement
<1>3. Found(t) = Mine(t) \cap Wrong
  <2>1. at[t] \in Nat /\ EndElement(t) \in Nat
    BY ThreadFacts DEF InCount
  <2> QED
    BY <1>1, <2>1 DEF Found, Mine, Elements
<1>4. added \subseteq Threads /\ badEltN = Cardinality(Counted) /\ bad[t] = Cardinality(Found(t))
  BY DEF InCount
<1>5. Counted' = Counted \cup Found(t)
  BY <1>1, <1>2, <1>3, <1>4 DEF Counted
<1>6. Counted \cap Found(t) = {}
  BY <1>1, <1>3, <1>4, MineFacts DEF Counted
<1>7. IsFiniteSet(Counted) /\ IsFiniteSet(Found(t))
  BY MineFacts, FS_Subset DEF Counted, Found, Mine, Wrong
<1>8. Cardinality(Counted \cup Found(t)) = Cardinality(Counted) + Cardinality(Found(t))
  <2>1. Cardinality(Counted \cup Found(t)) = Cardinality(Counted) + Cardinality(Found(t)) - Cardinality({})
    BY <1>6, <1>7, FS_Union
  <2>2. Cardinality(Counted) \in Nat /\ Cardinality(Found(t)) \in Nat
    BY <1>7, FS_CardinalityType
  <2> QED
    BY <2>1, <2>2, FS_EmptySet
<1> QED
  BY <1>1, <1>2, <1>4, <1>5, <1>8 DEF InCount

\* The kernel is launched with nothing counted.
LEMMA DeliverCounts ==
    ASSUME job \in Jobs, Deliver
    PROVE  InCount'
<1>1. /\ at' = [t \in Threads |-> FirstElement(t)] /\ bad' = [t \in Threads |-> 0]
      /\ added' = {} /\ badEltN' = 0 /\ job' = job
  BY DEF Deliver, Launch
<1>2. Threads' = Threads /\ \A t \in Threads : FirstElement(t)' = FirstElement(t)
  BY <1>1 DEF Threads, FirstElement
<1>3. Counted' = {}
  BY <1>1 DEF Counted
<1>4. ASSUME NEW t \in Threads
      PROVE  /\ at'[t] = FirstElement(t) + 0 * BlockDim /\ at'[t] \in Nat
             /\ Found(t)' = {}
  <2>1. FirstElement(t) \in Nat /\ BlockDim \in Nat /\ at'[t] = FirstElement(t)
    BY <1>1, ThreadFacts
  <2>2. \A i \in Mine(t)' : ~(i < at'[t])
    BY <1>2, <2>1 DEF Mine
  <2> QED
    BY <2>1, <2>2 DEF Found
<1>5. Cardinality({}) = 0
  BY FS_EmptySet
<1>6. /\ at' \in [Threads' -> Nat] /\ DOMAIN bad' = Threads' /\ added' \subseteq Threads'
      /\ badEltN' = Cardinality(Counted)'
  BY <1>1, <1>2, <1>3, <1>4, <1>5
<1>7. ASSUME NEW t \in Threads'
      PROVE  /\ \E turn \in Nat : at'[t] = FirstElement(t)' + turn * BlockDim
             /\ bad'[t] = Cardinality(Found(t))'
             /\ t \in added' => at'[t] >= EndElement(t)'
  <2>1. t \in Threads /\ 0 \in Nat /\ FirstElement(t)' = FirstElement(t)
    BY <1>2
  <2>2. \E turn \in Nat : at'[t] = FirstElement(t)' + turn * BlockDim
    <3>1. at'[t] = FirstElement(t)' + 0 * BlockDim
      BY <1>4, <2>1
    <3> QED
      BY <2>1, <3>1
  <2> QED
    BY <1>1, <1>4, <1>5, <2>1, <2>2
<1> QED
  BY <1>6, <1>7 DEF InCount

\* CountInv is inductive.
LEMMA CountStep ==
    ASSUME CountInv, [Next]_vars
    PROVE  CountInv'
<1>1. job \in Jobs /\ job' = job
  BY DEF CountInv, Next, vars, PrepareInput, PrepareExpected, Verify, Visiting, AddBad, InputDone,
         StartReduction, Combine, Deliver, VerifyDone, Done
<1>2. ASSUME UNCHANGED vars PROVE CountInv'
  <2>1. InCount => InCount'
    BY <1>2, SameCount DEF vars
  <2> QED
    BY <1>2, <2>1 DEF CountInv, vars, CountsEveryWrongElement, Elements, Differs, tolerance, Floating
<1>3. ASSUME NEW t \in Threads, PrepareInput(t) \/ PrepareExpected(t) PROVE CountInv'
  BY <1>1, <1>3 DEF PrepareInput, PrepareExpected, Visiting, CountInv, CountsEveryWrongElement
<1>4. ASSUME NEW t \in Threads, Verify(t) PROVE CountInv'
  <2>1. phase = "verify" /\ phase' = "verify"
    BY <1>4 DEF Verify, Visiting
  <2> QED
    BY <1>1, <1>4, <2>1, VerifyCounts DEF CountInv, CountsEveryWrongElement
<1>5. ASSUME NEW t \in Threads, AddBad(t) PROVE CountInv'
  <2>1. phase = "verify" /\ phase' = "verify"
    BY <1>5 DEF AddBad
  <2> QED
    BY <1>1, <1>5, <2>1, AddBadCounts DEF CountInv, CountsEveryWrongElement
<1>6. ASSUME InputDone \/ StartReduction \/ Combine PROVE CountInv'
  BY <1>1, <1>6 DEF InputDone, StartReduction, Combine, Launch, CountInv, CountsEveryWrongElement
<1>7. ASSUME Deliver PROVE CountInv'
  <2>1. phase' = "verify"
    BY <1>7 DEF Deliver, Launch
  <2> QED
    BY <1>1, <1>7, <2>1, DeliverCounts DEF CountInv, CountsEveryWrongElement
<1>8. ASSUME VerifyDone PROVE CountInv'
  <2>1. /\ phase = "verify" /\ phase' = "done" /\ added = Threads
        /\ UNCHANGED <<job, expected, results, badEltN>>
    BY <1>8 DEF VerifyDone
  <2>2. Counted = Wrong
    BY <1>1, <2>1, MineFacts DEF Counted, Wrong
  <2>3. badEltN = Cardinality(Wrong)
    BY <2>1, <2>2 DEF CountInv, InCount
  <2>4. badEltN' = Cardinality(Wrong)' /\ Wrong' = Wrong
    BY <2>1, <2>3 DEF Wrong, Elements, Differs, tolerance, Floating
  <2> QED
    BY <1>1, <2>1, <2>4 DEF CountInv, CountsEveryWrongElement, Wrong
<1> QED
  BY <1>2, <1>3, <1>4, <1>5, <1>6, <1>7, <1>8 DEF Next, Done

\* Whatever the number of elements, blocks and threads, and in whatever order
\* the threads go on, the total is the number of elements that are wrong
\* (verifiable.cu 1188-1230).
THEOREM CountIsExact == Spec => []CountsEveryWrongElement
<1>1. Init => CountInv
  BY DEF Init, CountInv, CountsEveryWrongElement
<1>2. CountInv /\ [Next]_vars => CountInv'
  BY CountStep
<1>3. CountInv => CountsEveryWrongElement
  BY DEF CountInv
<1> QED
  BY <1>1, <1>2, <1>3, PTL DEF Spec
=============================================================================
