---------------------------- MODULE MCVerifiable ----------------------------
(***************************************************************************)
(* Reductions over two to seven ranks in the small float types with every  *)
(* draw of the two sums, half and bfloat16 with a few, integers that wrap, *)
(* and copies of up to 17 elements by two blocks of two threads.           *)
(***************************************************************************)
EXTENDS Verifiable

Plain(type, op, n) ==
    [type |-> type, op |-> op, n |-> n, eltN |-> 1, faults |-> 0,
     sign |-> 0, exp |-> 0, mant |-> 0, d0 |-> 0, d1 |-> 0, a0 |-> 0, b0 |-> 0, a1 |-> 0, b1 |-> 0,
     bits |-> [r \in 0 .. n - 1 |-> 0], inT |-> [r \in 0 .. n - 1 |-> FALSE]]

\* ymax/2 of a type with that many mantissa bits, shifted as in -PreMulSum
Half(mbits) == 2 ^ mbits - 1
Exps(type) == LET l == FloatLayout[type]
              IN  {1 + l.mantissa_bits, 2 ^ l.exponent_bits - 2}

\* Every pair of sums; shuffles that tell the ranks apart.
SumJobs(type, n, d0s, d1s, shuffles) ==
    {[Plain(type, "sum", n) EXCEPT !.sign = s, !.exp = e, !.d0 = d0, !.d1 = d1, !.a0 = a, !.b0 = a + 1] :
        s \in {0, 1}, e \in Exps(type), d0 \in d0s, d1 \in d1s, a \in shuffles}
PreMulJobs(type, n, d0s, d1s, shuffles) ==
    {[Plain(type, "premulsum", n) EXCEPT !.exp = e, !.d0 = d0, !.d1 = d1, !.a0 = a, !.b1 = a + 1] :
        e \in Exps(type), d0 \in d0s, d1 \in d1s, a \in shuffles}
ProdJobs(type, n, d0s, shuffles) ==
    {[Plain(type, "prod", n) EXCEPT !.mant = m, !.d0 = d0, !.b0 = b] :
        m \in {0, Half(FloatLayout[type].mantissa_bits)}, d0 \in d0s, b \in shuffles}
AvgJobs(type, ns, mants) ==
    UNION {{[Plain(type, "avg", n) EXCEPT !.mant = m, !.b0 = b, !.inT = f] :
        m \in mants, b \in {0, 1}, f \in {[r \in 0 .. n - 1 |-> v] : v \in BOOLEAN}
                                      \cup {[r \in 0 .. n - 1 |-> r = 1]}} : n \in ns}
OrderJobs(type) ==
    UNION {{[Plain(type, op, 3) EXCEPT !.bits = f] : f \in [0 .. 2 -> {0, 3, 62, 255}]} : op \in {"min", "max"}}
IntegerJobs ==
    UNION {{[Plain(t, op, 3) EXCEPT !.bits = f] : f \in [0 .. 2 -> {0, 3, 100, 255}]} :
              t \in IntegerTypes, op \in Ops}
\* Every shuffle of up to nine ranks.
ShuffleJobs ==
    UNION {{[Plain("e4m3", "avg", n) EXCEPT !.a0 = a, !.b0 = b] : a \in 0 .. 7, b \in 0 .. 7} : n \in {2, 3, 5, 7, 8, 9}}
\* Copies, with up to two elements wrong.
CopyJobs ==
    {[Plain(t, "sum", 1) EXCEPT !.eltN = k, !.faults = f, !.bits = [r \in {0} |-> 7]] :
        t \in {"uint8", "e4m3"}, k \in {0, 1, 2, 3, 9, 17}, f \in {0, 2}}
\* Two differences more than the tolerance of a mean allows.
ToleranceJobs == {[Plain("e4m3", "avg", 2) EXCEPT !.eltN = 3, !.faults = 2, !.mant = 5]}

MCJobs ==
    SumJobs("e4m3", 2, 0 .. 7, 0 .. 6, {0}) \cup SumJobs("e4m3", 5, 0 .. 7, 0 .. 6, {0, 2})
       \cup SumJobs("e5m2", 4, 0 .. 3, 0 .. 2, 0 .. 3) \cup SumJobs("e5m2", 6, 0 .. 3, 0 .. 2, {1})
       \cup SumJobs("half", 3, {0, 500, 1023}, {0, 1, 1022}, {0, 1})
       \cup SumJobs("bfloat16", 4, {0, 5, 127}, {0, 6, 126}, {0})
       \cup PreMulJobs("e4m3", 3, 0 .. 3, 0 .. 1, {0, 1}) \cup PreMulJobs("e4m3", 4, 0 .. 3, 0 .. 1, {0, 1})
       \cup PreMulJobs("e5m2", 2, 0 .. 1, {0}, {0}) \cup PreMulJobs("half", 5, {0, 511}, {0, 255}, {0, 1})
       \cup ProdJobs("e4m3", 4, 0 .. 3, 0 .. 3) \cup ProdJobs("e5m2", 5, 0 .. 7, {0, 3})
       \cup ProdJobs("bfloat16", 6, {0, 63}, {0, 1})
       \cup AvgJobs("e4m3", {2, 3, 5, 6, 7}, 0 .. 7) \cup AvgJobs("e5m2", {3, 7}, 0 .. 3)
       \cup AvgJobs("half", {3}, {0, 511, 1023})
       \cup OrderJobs("e4m3") \cup IntegerJobs \cup ShuffleJobs \cup CopyJobs \cup ToleranceJobs

=============================================================================
