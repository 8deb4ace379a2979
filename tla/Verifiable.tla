------------------------------ MODULE Verifiable ------------------------------
(***************************************************************************)
(* The data of the tests and their verification (verifiable/): inputs that *)
(* are crafted so that the reduction over all ranks comes out exactly, in  *)
(* whatever order the library combines them; the expected output; and the  *)
(* kernels that write both and count the elements that differ.             *)
(*                                                                         *)
(* One job is one reduction of a message of eltN elements.  The job holds  *)
(* what the hash of seed and index decides (its draws), so that every      *)
(* value of the hash is checked.  All its elements are alike, and a kernel *)
(* that prepares inputs writes an element on all ranks in one step.        *)
(*                                                                         *)
(* A float is a record: m signed, e the biased exponent, of the value      *)
(* m * 2^(e - exponent_bias - mantissa_bits); subnormals have e = 1, and    *)
(* an overflow is a value of its own.  An integer is a number in its       *)
(* type's range.                                                           *)
(***************************************************************************)
EXTENDS Integers, FiniteSets, Sequences, Bags, SequencesExt

CONSTANTS Jobs,      \* the reductions and draws to consider, see JobsAssumption
          BlockDim,  \* threads of a block, 512
          MaxBlocks  \* most blocks of a kernel, 32

\* FloatLayout of the types whose arithmetic TLC can represent.
FloatLayout ==
    [half     |-> [mantissa_bits |-> 10, exponent_bits |-> 5],
     bfloat16 |-> [mantissa_bits |-> 7,  exponent_bits |-> 8],
     e4m3     |-> [mantissa_bits |-> 3,  exponent_bits |-> 4],
     e5m2     |-> [mantissa_bits |-> 2,  exponent_bits |-> 5]]
IntegerTypes == {"int8", "uint8"}
Ops == {"sum", "prod", "min", "max", "premulsum", "avg"}

\* ReduceNil stands in for every operation of a single rank.
Op(j) == IF j.n = 1 THEN "nil" ELSE j.op

JobsAssumption ==
    /\ BlockDim \in Nat \ {0} /\ MaxBlocks \in Nat \ {0}
    /\ \A j \in Jobs :
        /\ j.type \in DOMAIN FloatLayout \cup IntegerTypes /\ j.op \in Ops
        /\ j.n \in Nat \ {0} /\ j.eltN \in Nat
        /\ j.faults \in Nat                    \* elements the library gets wrong
        /\ j.sign \in {0, 1}                   \* draws: sign, exponent, mantissa,
        /\ {j.exp, j.mant} \subseteq Nat
        /\ {j.d0, j.d1} \subseteq Nat          \* the two sums of genSumXY,
        /\ {j.a0, j.b0, j.a1, j.b1} \subseteq Nat  \* two shuffles of the ranks,
        /\ j.bits \in [0 .. j.n - 1 -> Nat]    \* and what each rank draws itself
        /\ j.inT \in [0 .. j.n - 1 -> BOOLEAN] \* where the library premultiplies
ASSUME JobsAssumption

VARIABLES
    job,       \* the reduction under test
    phase,     \* kernel that runs, or what the library does
    at,        \* at[t], next element of thread t of the kernel
    bad,       \* bad[t], differences thread t has seen
    added,     \* threads that have added theirs to the total
    input,     \* elements whose input is prepared, on all ranks
    expected,  \* expected[i], bits of element i of the expected output
    results,   \* results[i], bits of element i of the result
    partials,  \* bag of what the library has combined so far
    badEltN    \* *bad_elt_n

vars == <<job, phase, at, bad, added, input, expected, results, partials, badEltN>>

Ranks == 0 .. job.n - 1
Elements == 0 .. job.eltN - 1
Old == -1           \* what a buffer holds before a kernel writes it
Least(x, y) == IF x <= y THEN x ELSE y
Distance(x, y) == IF x <= y THEN y - x ELSE x - y

-----------------------------------------------------------------------------
(* Floating point arithmetic.                                              *)

Layout == FloatLayout[job.type]
Floating == job.type \in DOMAIN FloatLayout
mantissa_bits == Layout.mantissa_bits
exponent_bias == 2 ^ (Layout.exponent_bits - 1) - 1
mant_mask == 2 ^ mantissa_bits - 1
max_mant == 2 * mant_mask + 1
exp_lo == 1 + mantissa_bits
exp_hi == 2 ^ Layout.exponent_bits - 1

Zero == [m |-> 0, e |-> 1]
Overflow == [m |-> 1, e |-> exp_hi + 1]
Finite(x) == x.e <= exp_hi

Log2(x) == CHOOSE l \in 0 .. 30 : x \div 2 ^ l = 1

\* num / den * 2^(e - bias - mantissa_bits) rounded to the nearest of job.type,
\* ties to even.
CastTo(num, den, e) ==
    LET mag  == IF num < 0 THEN -num ELSE num
        low  == e + Log2(mag) - Log2(den) - mantissa_bits - 1  \* k is low or low + 1
        Up(k)   == mag * (IF k < e THEN 2 ^ (e - k) ELSE 1)
        Down(k) == den * (IF k > e THEN 2 ^ (k - e) ELSE 1)
        k    == IF low < 1 THEN 1
                ELSE IF Up(low) \div Down(low) <= max_mant
                  THEN low ELSE low + 1
        floor == Up(k) \div Down(k)
        rest  == Up(k) % Down(k)
        near  == IF 2 * rest > Down(k) \/ (2 * rest = Down(k) /\ floor % 2 = 1)
                   THEN floor + 1 ELSE floor
        carry == near > max_mant
        m     == IF carry THEN near \div 2 ELSE near
        exp   == IF carry THEN k + 1 ELSE k
    IN  IF mag = 0 THEN Zero
        ELSE IF exp >= exp_hi /\ (job.type # "e4m3" \/ exp > exp_hi \/ m = max_mant) THEN Overflow
        ELSE [m |-> IF num < 0 THEN -m ELSE m, e |-> exp]

\* The exact sum and product, before rounding.
ExactSum(x, y) ==
    IF x.m = 0 THEN y ELSE IF y.m = 0 THEN x
    ELSE LET e == Least(x.e, y.e)
         IN  [m |-> x.m * 2 ^ (x.e - e) + y.m * 2 ^ (y.e - e), e |-> e]
ExactProd(x, y) == [m |-> x.m * y.m, e |-> x.e + y.e - exponent_bias - mantissa_bits]
Rounded(x) == CastTo(x.m, 1, x.e)

\* Shifts that bring the leading bit of a mantissa to its place (clz64).
LeadingShift(mant) == CHOOSE s \in 0 .. mantissa_bits : 2 ^ mantissa_bits <= mant * 2 ^ s /\ mant * 2 ^ s <= max_mant
\* A normal float of that sign, biased exponent and mantissa below the leading 1.
MakeFloat(sign, exp, mant) == [m |-> (IF sign = 1 THEN -1 ELSE 1) * (mant + 2 ^ mantissa_bits), e |-> exp]
ScaledUnshifted(sign, exp, mant) ==
    IF mant = 0 THEN Zero
    ELSE MakeFloat(sign, exp, mant * 2 ^ LeadingShift(mant) - 2 ^ mantissa_bits)
\* The float mant * 2^exp, as genInOutFloatSum and -PreMulSum build it.
Scaled(sign, exp, mant) ==
    IF mant = 0 THEN Zero
    ELSE LET shift == LeadingShift(mant)
         IN  MakeFloat(sign, exp - shift, mant * 2 ^ shift - 2 ^ mantissa_bits)

\* The representation that results and expected output are compared in: the
\* type's bits, of a float its magnitude below the sign.
Magnitude(x) ==
    LET mag == IF x.m < 0 THEN -x.m ELSE x.m
    IN  IF mag < 2 ^ mantissa_bits THEN mag ELSE x.e * 2 ^ mantissa_bits + mag - 2 ^ mantissa_bits
SignBit == 2 ^ (Layout.exponent_bits + mantissa_bits)
Bits(x) ==
    IF Floating THEN Magnitude(x) + (IF x.m < 0 THEN SignBit ELSE 0) ELSE x % 256

\* An integer brought into the range of its type.
Wrap(x) == LET u == x % 256 IN IF job.type = "int8" /\ u > 127 THEN u - 256 ELSE u

-----------------------------------------------------------------------------
(* The reductions.                                                         *)

ReduceSum(x, y)  == IF Floating THEN Rounded(ExactSum(x, y)) ELSE Wrap(x + y)
ReduceProd(x, y) == IF Floating THEN Rounded(ExactProd(x, y)) ELSE Wrap(x * y)
Ordinal(x) == IF ~Floating THEN x ELSE IF x.m < 0 THEN -Magnitude(x) ELSE Magnitude(x)
Smaller(x, y) == Ordinal(x) < Ordinal(y)
ReduceMin(x, y) == IF Smaller(x, y) THEN x ELSE y
ReduceMax(x, y) == IF Smaller(y, x) THEN x ELSE y

Reduce(x, y) ==
    CASE Op(job) \in {"sum", "premulsum", "avg"} -> ReduceSum(x, y)
      [] Op(job) = "prod" -> ReduceProd(x, y)
      [] Op(job) = "min"  -> ReduceMin(x, y)
      [] Op(job) = "max"  -> ReduceMax(x, y)

PremulScalar(r) == 1 + (r % 2)
One == [m |-> 2 ^ mantissa_bits, e |-> exponent_bias]
\* A premultiplication by 1/n in the type itself, or in a wider one.
AvgPreOp(x, inT) ==
    IF inT THEN ReduceProd(CastTo(1, job.n, exponent_bias + mantissa_bits), x)
           ELSE CastTo(x.m, job.n, x.e)

PreOp(x, r) ==
    CASE Op(job) = "premulsum" /\ Floating  -> ReduceProd(x, [One EXCEPT !.e = @ + (r % 2)])
      [] Op(job) = "premulsum" /\ ~Floating -> ReduceProd(x, PremulScalar(r))
      [] Op(job) = "avg" /\ Floating -> AvgPreOp(x, job.inT[r])
      [] OTHER -> x
\* x / rank_n of an integer truncates.
PostOp(x) ==
    IF Op(job) = "avg" /\ ~Floating
      THEN IF x < 0 THEN -((-x) \div job.n) ELSE x \div job.n
      ELSE x

-----------------------------------------------------------------------------
(* Shuffled ranks and shares of a sum.                                     *)

\* The largest power of two not above n
RoundDown(n) == CHOOSE p \in {2 ^ k : k \in 0 .. n} : p <= n /\ n < 2 * p
AnyPart(a) == a
OddPart(a) == a + 1 - (a % 2)            \* a|1
Scramble(r, a, b, p) == LET q == (r * OddPart(a) + b) % p IN ((q * q + q) \div 2) % p

ShuffleRank(n, me, a, b) ==
    LET p == RoundDown(n)               \* n2 + 1
        r == IF me < p THEN Scramble(me, a, b, p) + n - p ELSE me - p
    IN  IF r < p THEN Scramble(r, b, a, p) ELSE r

\* genSumXY: y in the upper half of 0 .. yMax, and with avoid_y another one than
\* given, unless y1 is brought back onto it.
PickY(yMax, d) == (yMax + 1) \div 2 + d
PickOtherY(yMax, y, d) ==
    LET y1 == y + 1 + d
    IN  IF y1 < (yMax + 1) \div 2 \/ yMax < y1 THEN y1 - yMax \div 2 ELSE y1

\* The number pn of partitions of rn ranks.  2*(y/rn) - 1 is unsigned: for y < rn
\* it wraps to a number above rn and never is the 0 the code looks for.
Partitions(rn, y) ==
    IF rn = 1 THEN 1
    ELSE IF y \div rn = 0 THEN rn ELSE Least(rn, 2 * (y \div rn) - 1)
PartitionSum(rn, y) == LET pn == Partitions(rn, y) IN (pn * (pn + 1)) \div 2
RanksPerPartition(rn, y) == Least(y \div PartitionSum(rn, y), rn \div Partitions(rn, y))
ShareWithoutRest(rn, r, y) ==
    LET s == RanksPerPartition(rn, y) IN IF r \div s < Partitions(rn, y) THEN 1 + r \div s ELSE 0
\* What (shuffled) rank r submits so that all submit y.
Share(rn, r, y) ==
    LET s == RanksPerPartition(rn, y)
    IN  (IF r \div s < Partitions(rn, y) THEN 1 + r \div s ELSE 0)
          + (IF r = rn - 1 THEN y - s * PartitionSum(rn, y) ELSE 0)

-----------------------------------------------------------------------------
(* Inputs and expected outputs.                                            *)

Evens(n) == (n + 1) \div 2
Odds(n)  == n \div 2

\* genInOutFloatSum with mixed signs: even ranks share y0 and odd ones y1.
SumY0 == PickY(max_mant, job.d0)
SumY1 == PickOtherY(max_mant, SumY0, job.d1)
FloatSumInput(r) ==
    LET me == ShuffleRank(job.n, r, job.a0, job.b0)
    IN  IF me % 2 = 0 THEN Scaled(job.sign, job.exp, Share(Evens(job.n), me \div 2, SumY0))
                      ELSE Scaled(1 - job.sign, job.exp, Share(Odds(job.n), me \div 2, SumY1))
FloatSumOutput ==
    IF SumY0 < SumY1 THEN Scaled(1 - job.sign, job.exp, SumY1 - SumY0)
                     ELSE Scaled(job.sign, job.exp, SumY0 - SumY1)

\* genInOutFloatPreMulSum: the scalar of odd ranks is 2.
PreMulY0 == PickY(max_mant \div 2, job.d0)
PreMulY1 == PickY(max_mant \div 4, job.d1)
FloatPreMulSumInput(r) ==
    Scaled(job.sign, job.exp,
           IF r % 2 = 0
             THEN Share(Evens(job.n), ShuffleRank(Evens(job.n), r \div 2, job.a0, job.b0), PreMulY0)
             ELSE Share(Odds(job.n), ShuffleRank(Odds(job.n), r \div 2, job.a1, job.b1), PreMulY1))
FloatPreMulSumOutput == Scaled(job.sign, job.exp, PreMulY0 + 2 * PreMulY1)

\* genInOutFloatProd: one rank has a mantissa, the others are powers of two.
ProdY == PickY(exponent_bias, job.d0)
ProdMant == IF job.mant = 0 THEN 1 ELSE job.mant
FloatProdInput(r) ==
    LET me == ShuffleRank(job.n, r, job.a0, job.b0)
    IN  MakeFloat(me % 2, exponent_bias + Share(job.n, me, ProdY), IF me = 0 THEN ProdMant ELSE 0)
FloatProdOutput == MakeFloat(Odds(job.n) % 2, exponent_bias + ProdY, ProdMant)

\* The average has two contributions, the second 0xbeef times the first.
AvgMant(r) == IF r = 0 THEN job.mant ELSE (job.mant * 48879) % (mant_mask + 1)
Integer(x) == CastTo(x, 1, exponent_bias + mantissa_bits)
FloatAvgInput(r) ==
    LET me == ShuffleRank(job.n, r, job.a0, job.b0)
    IN  IF me < 2 THEN Integer(1 + AvgMant(me)) ELSE Zero
FloatAvgOutput ==
    LET Part(r) == CastTo(1 + AvgMant(r), job.n, exponent_bias + mantissa_bits)
    IN  ReduceSum(Part(0), Part(1))

\* Any float with an exponent of the middle half, from a rank's own draw.
FloatAnyInput(r) ==
    MakeFloat(job.bits[r] % 2,
              2 ^ (Layout.exponent_bits - 2) + ((job.bits[r] \div 2) % 2 ^ (Layout.exponent_bits - 1)),
              (job.bits[r] \div 2 ^ Layout.exponent_bits) % (mant_mask + 1))
\* Any integer; 0 is left out of products.
IntegerInput(r) == IF Op(job) = "prod" /\ job.bits[r] % 256 = 0 THEN 1 ELSE Wrap(job.bits[r])

GenInput(r) ==
    CASE ~Floating -> IntegerInput(r)
      [] Floating /\ Op(job) = "sum"  -> FloatSumInput(r)
      [] Floating /\ Op(job) = "prod" -> FloatProdInput(r)
      [] Floating /\ Op(job) = "premulsum" -> FloatPreMulSumInput(r)
      [] Floating /\ Op(job) = "avg"  -> FloatAvgInput(r)
      [] Floating /\ Op(job) \in {"min", "max", "nil"} -> FloatAnyInput(r)

\* The general case reduces the inputs in rank order.
GenericOutput ==
    PostOp(FoldLeft(LAMBDA acc, r : Reduce(acc, PreOp(GenInput(r), r)),
                    PreOp(GenInput(0), 0), [k \in 1 .. job.n - 1 |-> k]))
GenOutput ==
    CASE Floating /\ Op(job) = "sum"  -> FloatSumOutput
      [] Floating /\ Op(job) = "prod" -> FloatProdOutput
      [] Floating /\ Op(job) = "premulsum" -> FloatPreMulSumOutput
      [] Floating /\ Op(job) = "avg"  -> FloatAvgOutput
      [] Op(job) = "nil" -> GenInput(0)
      [] OTHER -> GenericOutput

-----------------------------------------------------------------------------
(* The kernels.                                                            *)

\* Elements before that block: the first eltN % grid blocks have one more.
BlockStart(eltN, grid, block) == block * (eltN \div grid) + Least(block, eltN % grid)
GridDim(eltN) == Least(MaxBlocks, (eltN + 4 * BlockDim - 1) \div (4 * BlockDim))
Threads == (0 .. GridDim(job.eltN) - 1) \X (0 .. BlockDim - 1)
FirstElement(t) == BlockStart(job.eltN, GridDim(job.eltN), t[1]) + t[2]
EndElement(t)   == BlockStart(job.eltN, GridDim(job.eltN), t[1] + 1)

tolerance == IF Floating /\ job.op = "avg" THEN 2 ELSE 0
Differs(i) == tolerance < Distance(results[i], expected[i])

\* Every thread of a kernel that is launched begins at its first element.
Launch(kernel) ==
    /\ phase' = kernel
    /\ at' = [t \in Threads |-> FirstElement(t)]
    /\ bad' = [t \in Threads |-> 0]
    /\ added' = {}
KernelDone == \A t \in Threads : at[t] >= EndElement(t)

Visiting(kernel, t) ==
    /\ phase = kernel
    /\ at[t] < EndElement(t)
    /\ at' = [at EXCEPT ![t] = @ + BlockDim]
    /\ UNCHANGED <<job, phase, added, partials, badEltN, results>>

\* prepareInput2 and prepareExpected2
PrepareInput(t) ==
    /\ Visiting("input", t)
    /\ input' = input \cup {at[t]}
    /\ UNCHANGED <<bad, expected>>
PrepareExpected(t) ==
    /\ Visiting("expected", t)
    /\ expected' = [expected EXCEPT ![at[t]] = Bits(GenOutput)]
    /\ UNCHANGED <<bad, input>>
\* ncclVerifiablePrepareExpected after ncclVerifiablePrepareInput
InputDone ==
    /\ phase = "input" /\ KernelDone
    /\ Launch("expected")
    /\ UNCHANGED <<job, input, expected, results, partials, badEltN>>

\* The library premultiplies every rank's input ...
StartReduction ==
    /\ phase = "expected" /\ KernelDone
    /\ phase' = "reduce"
    /\ partials' = FoldLeft(LAMBDA b, r : b (+) SetToBag({PreOp(GenInput(r), r)}),
                            EmptyBag, [k \in 1 .. job.n |-> k - 1])
    /\ UNCHANGED <<job, at, bad, added, input, expected, results, badEltN>>
\* ... and combines any two partial results, in its own order.
Combine ==
    /\ phase = "reduce"
    /\ \E x, y \in DOMAIN partials :
          /\ SetToBag({x}) (+) SetToBag({y}) \sqsubseteq partials
          /\ partials' = (partials (-) (SetToBag({x}) (+) SetToBag({y}))) (+) SetToBag({Reduce(x, y)})
    /\ UNCHANGED <<job, phase, at, bad, added, input, expected, results, badEltN>>

\* The result arrives, off by some distance in some elements of a faulty run;
\* ncclVerifiableVerify is called.
Deliver ==
    /\ phase = "reduce" /\ BagCardinality(partials) = 1
    /\ \E wrong \in {w \in SUBSET Elements : Cardinality(w) <= job.faults} :
       \E off \in [wrong -> {tolerance, tolerance + 1}] :
          results' = [i \in Elements |->
                        IF i \notin input THEN Old
                        ELSE LET x == CHOOSE x \in DOMAIN partials : TRUE
                             IN  Bits(PostOp(x)) + (IF i \in wrong THEN off[i] ELSE 0)]
    /\ badEltN' = 0
    /\ Launch("verify")
    /\ UNCHANGED <<job, input, expected, partials>>

\* verifyPrepared: a thread counts, and adds its count when it is through.
Verify(t) ==
    /\ Visiting("verify", t)
    /\ bad' = [bad EXCEPT ![t] = @ + IF Differs(at[t]) THEN 1 ELSE 0]
    /\ UNCHANGED <<input, expected>>
OverwriteBad(t) ==
    /\ phase = "verify" /\ at[t] >= EndElement(t) /\ t \notin added
    /\ added' = added \cup {t}
    /\ badEltN' = bad[t]
    /\ UNCHANGED <<job, phase, at, bad, input, expected, results, partials>>
AddBad(t) ==
    /\ phase = "verify" /\ at[t] >= EndElement(t) /\ t \notin added
    /\ added' = added \cup {t}
    /\ badEltN' = badEltN + bad[t]
    /\ UNCHANGED <<job, phase, at, bad, input, expected, results, partials>>
VerifyDone ==
    /\ phase = "verify" /\ added = Threads
    /\ phase' = "done"
    /\ UNCHANGED <<job, at, bad, added, input, expected, results, partials, badEltN>>

Init ==
    /\ job \in Jobs
    /\ phase = "input"
    /\ at = [t \in Threads |-> FirstElement(t)]
    /\ bad = [t \in Threads |-> 0]
    /\ added = {}
    /\ input = {}
    /\ expected = [i \in Elements |-> Old]
    /\ results = [i \in Elements |-> Old]
    /\ partials = EmptyBag
    /\ badEltN = Old

Done == phase = "done" /\ UNCHANGED vars

Next ==
    \/ \E t \in Threads : PrepareInput(t) \/ PrepareExpected(t) \/ Verify(t) \/ AddBad(t)
    \/ InputDone \/ StartReduction \/ Combine \/ Deliver \/ VerifyDone \/ Done

Spec == Init /\ [][Next]_vars

-----------------------------------------------------------------------------
(* Properties.                                                             *)

\* A correct library passes the verification in whatever order it adds and
\* wherever it rounds: the crafted inputs of genInOutFloatSum, -PreMulSum and
\* -Prod reduce to the crafted output in any order, the average stays within
\* its tolerance of 2, and integers wrap alike.
NoFalseAlarm == phase = "done" /\ job.faults = 0 => badEltN = 0

\* The verdict of ncclVerifiableVerify is exact: *bad_elt_n is the number of
\* elements that are off by more than the tolerance, none missed and none
\* counted twice by the blocks, their threads and the atomic additions.
CountsEveryWrongElement ==
    phase = "done" => badEltN = Cardinality({i \in Elements : Differs(i)})

\* The crafted sums and products never round and never overflow on the way
\* ("exactly predictable output", verifiable.h): any two partial results the
\* library may hold combine exactly.
NothingIsRounded ==
    phase = "reduce" /\ Floating /\ Op(job) \in {"sum", "premulsum", "prod"} =>
        \A x, y \in DOMAIN partials :
            SetToBag({x}) (+) SetToBag({y}) \sqsubseteq partials =>
                LET exact == IF Op(job) = "prod" THEN ExactProd(x, y) ELSE ExactSum(x, y)
                    z == Reduce(x, y)
                IN  /\ Finite(z)
                    /\ ExactSum(exact, [z EXCEPT !.m = -@]).m = 0

\* shuffleRank permutes the ranks, so that exactly one rank takes the
\* discrepancy of a sum and the mantissa of a product.
ShuffleIsPermutation ==
    phase = "input" => {ShuffleRank(job.n, r, job.a0, job.b0) : r \in Ranks} = Ranks

=============================================================================
