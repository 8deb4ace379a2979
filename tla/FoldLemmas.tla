------------------------------ MODULE FoldLemmas ------------------------------
(***************************************************************************)
(* Facts about sums over functions (SumFunctionOnSet), which the           *)
(* reductions of the models are written with, and about FlattenSeq, which  *)
(* puts the programs of threads together.  Both are recursive functions,   *)
(* so the facts are proved by induction: over the natural numbers, which   *)
(* are well founded, and over the subsets of a finite set.  The inductions *)
(* are stated with the set of what satisfies a claim, not with the claim.  *)
(***************************************************************************)
EXTENDS Integers, Sequences, FiniteSets, Functions, FiniteSetsExt,
        SequencesExt, WellFoundedInduction, FiniteSetTheorems, TLAPS

\* Induction over the natural numbers: a set that has 0 and with every number the
\* next one has them all.
LEMMA SetInduction ==
    ASSUME NEW S \in SUBSET Nat, 0 \in S, \A n \in S : n + 1 \in S
    PROVE  S = Nat
<1> DEFINE R == OpToRel(<, Nat)
           T == Nat \ S
<1>1. IsWellFoundedOn(R, Nat)
  BY NatLessThanWellFounded
<1>2. \A x \in Nat, y \in Nat : <<y, x>> \in R <=> y < x
  BY DEF OpToRel
<1>3. SUFFICES ASSUME T # {} PROVE FALSE
  OBVIOUS
<1> HIDE DEF R
<1>4. PICK x \in T : \A y \in T : ~(<<y, x>> \in R)
  BY <1>1, <1>3, WFMin
<1>5. x # 0 /\ x \in Nat /\ x - 1 \in Nat
  BY <1>4
<1>6. x - 1 \in T
  <2>1. (x - 1) + 1 = x
    BY <1>5
  <2> QED
    BY <2>1, <1>5
<1>7. x - 1 < x
  BY <1>5
<1>8. <<x - 1, x>> \in R
  BY <1>2, <1>5, <1>7
<1> QED
  BY <1>4, <1>6, <1>8

\* Induction over the subsets of a finite set: a family that has a set whenever it
\* has all that are smaller by one element has them all.
LEMMA FiniteInduction ==
    ASSUME NEW S, IsFiniteSet(S), NEW G \in SUBSET (SUBSET S),
           \A T \in SUBSET S : (\A x \in T : T \ {x} \in G) => T \in G
    PROVE  G = SUBSET S
<1> DEFINE K == {n \in Nat : \A T \in SUBSET S : Cardinality(T) = n => T \in G}
<1>1. \A T \in SUBSET S : IsFiniteSet(T) /\ Cardinality(T) \in Nat
  BY FS_Subset, FS_CardinalityType
<1>2. 0 \in K
  BY <1>1, FS_EmptySet
<1>3. ASSUME NEW n \in K PROVE n + 1 \in K
  <2>1. SUFFICES ASSUME NEW T \in SUBSET S, Cardinality(T) = n + 1 PROVE T \in G
    OBVIOUS
  <2>2. ASSUME NEW x \in T PROVE T \ {x} \in G
    <3>1. Cardinality(T \ {x}) = Cardinality(T) - 1
      BY <2>2, <1>1, FS_RemoveElement
    <3>2. Cardinality(T \ {x}) = n /\ T \ {x} \in SUBSET S
      BY <3>1, <2>1
    <3> QED
      BY <3>2
  <2> QED
    BY <2>1, <2>2
<1> HIDE DEF K
<1>4. K = Nat
  BY <1>2, <1>3, SetInduction DEF K
<1> QED
  BY <1>1, <1>4 DEF K

-----------------------------------------------------------------------------
(* Sums.                                                                   *)

\* The element that a fold over a set takes first.
Picked(s) == CHOOSE x \in s : TRUE
\* g[s] is the sum of f over s, for the sets s of D.
Recurs(g, f, D) ==
    g = [s \in D |-> IF s = {} THEN 0
                     ELSE f[Picked(s)] + g[s \ {Picked(s)}]]

\* There is a function that sums the values of f over the subsets of a finite set.
LEMMA RecursExists ==
    ASSUME NEW S, IsFiniteSet(S), NEW f
    PROVE  \E g : Recurs(g, f, SUBSET S)
<1> DEFINE D(n) == {s \in SUBSET S : Cardinality(s) <= n}
           K == {n \in Nat : \E g : Recurs(g, f, D(n))}
<1>1. \A s \in SUBSET S : IsFiniteSet(s) /\ Cardinality(s) \in Nat
  BY FS_Subset, FS_CardinalityType
<1>2. 0 \in K
  <2>1. D(0) = {{}}
    BY <1>1, FS_EmptySet
  <2> DEFINE g == [s \in D(0) |-> 0]
  <2> HIDE DEF D
  <2>2. Recurs(g, f, D(0))
    BY <2>1 DEF Recurs
  <2> HIDE DEF g
  <2> QED
    BY <2>2
<1>3. ASSUME NEW n \in K PROVE n + 1 \in K
  <2>1. PICK g : Recurs(g, f, D(n))
    OBVIOUS
  <2> DEFINE h == [s \in D(n + 1) |-> IF s = {} THEN 0
                     ELSE f[Picked(s)] + g[s \ {Picked(s)}]]
  <2>2. \A s \in D(n) : s \in D(n + 1) /\ h[s] = g[s]
    <3>1. n \in Nat /\ \A s \in D(n) : s \in D(n + 1)
      BY <1>1
    <3> HIDE DEF D, K
    <3>2. \A s \in D(n) : g[s] = IF s = {} THEN 0
                     ELSE f[Picked(s)] + g[s \ {Picked(s)}]
      BY <2>1 DEF Recurs
    <3> QED
      BY <3>1, <3>2
  <2>3. ASSUME NEW s \in D(n + 1), s # {} PROVE s \ {Picked(s)} \in D(n)
    <3> DEFINE c == Picked(s)
    <3>1. c \in s
      BY <2>3 DEF Picked
    <3> HIDE DEF c
    <3>2. Cardinality(s \ {c}) = Cardinality(s) - 1 /\ s \ {c} \in SUBSET S
      BY <3>1, <1>1, FS_RemoveElement
    <3> QED
      BY <3>2, <1>1 DEF c
  <2>4. Recurs(h, f, D(n + 1))
    <3> HIDE DEF D
    <3>1. \A s \in D(n + 1) : s # {} =>
             h[s \ {Picked(s)}] = g[s \ {Picked(s)}]
      BY <2>2, <2>3
    <3>2. \A s \in D(n + 1) : h[s] = IF s = {} THEN 0
                     ELSE f[Picked(s)] + h[s \ {Picked(s)}]
      BY <3>1
    <3>3. h = [s \in D(n + 1) |-> h[s]]
      OBVIOUS
    <3> HIDE DEF h
    <3> QED
      BY <3>2, <3>3 DEF Recurs
  <2> HIDE DEF h, D
  <2> QED
    BY <2>4
<1> HIDE DEF K
<1>4. K = Nat
  BY <1>2, <1>3, SetInduction DEF K
<1>5. D(Cardinality(S)) = SUBSET S
  BY <1>1, FS_Subset
<1>6. Cardinality(S) \in K
  BY <1>1, <1>4
<1> HIDE DEF D
<1> QED
  BY <1>5, <1>6 DEF K

\* It is the one that SumFunctionOnSet chooses.
LEMMA SumIsRecursive ==
    ASSUME NEW S, IsFiniteSet(S), NEW f
    PROVE  \E g : Recurs(g, f, SUBSET S) /\ SumFunctionOnSet(f, S) = g[S]
<1> DEFINE h == CHOOSE g : Recurs(g, f, SUBSET S)
<1>1. Recurs(h, f, SUBSET S)
  BY RecursExists
<1>2. SumFunctionOnSet(f, S) = h[S]
  BY DEF SumFunctionOnSet, FoldFunctionOnSet, MapThenFoldSet, Recurs, Picked
<1> QED
  BY <1>1, <1>2

\* All that satisfy the recursion agree.
LEMMA SumAgrees ==
    ASSUME NEW S, IsFiniteSet(S), NEW f, NEW g, Recurs(g, f, SUBSET S), NEW T \in SUBSET S
    PROVE  SumFunctionOnSet(f, T) = g[T]
<1>1. IsFiniteSet(T)
  BY FS_Subset
<1>2. PICK h : Recurs(h, f, SUBSET T) /\ SumFunctionOnSet(f, T) = h[T]
  BY <1>1, SumIsRecursive
<1> DEFINE G == {U \in SUBSET T : h[U] = g[U]}
<1>3. \A U \in SUBSET T : (\A x \in U : U \ {x} \in G) => U \in G
  <2>1. SUFFICES ASSUME NEW U \in SUBSET T, \A x \in U : U \ {x} \in G PROVE h[U] = g[U]
    OBVIOUS
  <2>2. /\ h[U] = IF U = {} THEN 0 ELSE f[Picked(U)] + h[U \ {Picked(U)}]
        /\ g[U] = IF U = {} THEN 0 ELSE f[Picked(U)] + g[U \ {Picked(U)}]
    BY <1>2 DEF Recurs
  <2>3. U # {} => Picked(U) \in U
    BY DEF Picked
  <2> QED
    BY <2>1, <2>2, <2>3
<1>4. G \in SUBSET (SUBSET T)
  OBVIOUS
<1> HIDE DEF G
<1>5. G = SUBSET T
  BY <1>4, <1>1, <1>3, FiniteInduction
<1> QED
  BY <1>2, <1>5 DEF G

\* The sum of no terms.
LEMMA SumEmpty ==
    ASSUME NEW f PROVE SumFunctionOnSet(f, {}) = 0
  BY FS_EmptySet, SumIsRecursive DEF Recurs

\* One step of the recursion.
LEMMA SumPicked ==
    ASSUME NEW S, IsFiniteSet(S), S # {}, NEW f
    PROVE  SumFunctionOnSet(f, S) = f[Picked(S)] + SumFunctionOnSet(f, S \ {Picked(S)})
<1>1. PICK g : Recurs(g, f, SUBSET S)
  BY RecursExists
<1>2. \A T \in SUBSET S : SumFunctionOnSet(f, T) = g[T]
  BY <1>1, SumAgrees
<1> QED
  BY <1>1, <1>2 DEF Recurs

\* The sum of integers is an integer.
LEMMA SumInt ==
    ASSUME NEW S, IsFiniteSet(S), NEW f, \A x \in S : f[x] \in Int
    PROVE  SumFunctionOnSet(f, S) \in Int
<1> DEFINE G == {T \in SUBSET S : SumFunctionOnSet(f, T) \in Int}
<1>1. \A T \in SUBSET S : (\A x \in T : T \ {x} \in G) => T \in G
  <2>1. SUFFICES ASSUME NEW T \in SUBSET S, T # {}, \A x \in T : T \ {x} \in G
                 PROVE  SumFunctionOnSet(f, T) \in Int
    BY SumEmpty
  <2>2. IsFiniteSet(T) /\ Picked(T) \in T
    BY <2>1, FS_Subset DEF Picked
  <2>3. SumFunctionOnSet(f, T \ {Picked(T)}) \in Int
    BY <2>1, <2>2
  <2>4. SumFunctionOnSet(f, T) = f[Picked(T)] + SumFunctionOnSet(f, T \ {Picked(T)})
    BY <2>1, <2>2, SumPicked
  <2> QED
    BY <2>2, <2>3, <2>4
<1>2. G \in SUBSET (SUBSET S)
  OBVIOUS
<1> HIDE DEF G
<1>3. G = SUBSET S
  BY <1>2, <1>1, FiniteInduction
<1> QED
  BY <1>3 DEF G

\* The sum of integers may begin with any of its terms.
LEMMA SumRemove ==
    ASSUME NEW S, IsFiniteSet(S), NEW f, \A x \in S : f[x] \in Int, NEW e \in S
    PROVE  SumFunctionOnSet(f, S) = f[e] + SumFunctionOnSet(f, S \ {e})
<1> DEFINE Sum(T) == SumFunctionOnSet(f, T)
           G == {T \in SUBSET S : \A x \in T : Sum(T) = f[x] + Sum(T \ {x})}
<1>1. \A T \in SUBSET S : IsFiniteSet(T) /\ Sum(T) \in Int
  <2>1. SUFFICES ASSUME NEW T \in SUBSET S PROVE IsFiniteSet(T) /\ Sum(T) \in Int
    OBVIOUS
  <2>2. IsFiniteSet(T)
    BY FS_Subset
  <2> QED
    BY <2>2, SumInt
<1>2. \A T \in SUBSET S : (\A x \in T : T \ {x} \in G) => T \in G
  <2>1. SUFFICES ASSUME NEW T \in SUBSET S, \A x \in T : T \ {x} \in G, NEW x \in T
                 PROVE  Sum(T) = f[x] + Sum(T \ {x})
    OBVIOUS
  <2> DEFINE c == Picked(T)
  <2>2. c \in T /\ Sum(T) = f[c] + Sum(T \ {c})
    BY <2>1, <1>1, SumPicked DEF Picked
  <2> HIDE DEF c
  <2>3. CASE x # c
    <3>1. /\ Sum(T \ {c}) = f[x] + Sum((T \ {c}) \ {x})
          /\ Sum(T \ {x}) = f[c] + Sum((T \ {x}) \ {c})
      BY <2>1, <2>2, <2>3
    <3>2. (T \ {c}) \ {x} = (T \ {x}) \ {c}
      OBVIOUS
    <3>3. f[x] \in Int /\ f[c] \in Int /\ Sum((T \ {x}) \ {c}) \in Int
      BY <2>1, <2>2, <1>1
    <3>4. /\ Sum(T) = f[c] + (f[x] + Sum((T \ {x}) \ {c}))
          /\ Sum(T \ {x}) = f[c] + Sum((T \ {x}) \ {c})
      BY <2>2, <3>1, <3>2
    <3> HIDE DEF Sum
    <3> QED
      BY <3>3, <3>4
  <2> QED
    BY <2>2, <2>3
<1>3. G \in SUBSET (SUBSET S)
  OBVIOUS
<1> HIDE DEF G
<1>4. G = SUBSET S
  BY <1>3, <1>2, FiniteInduction
<1> QED
  BY <1>4 DEF G

\* A sum of natural numbers is zero if and only if every term is.
LEMMA SumZero ==
    ASSUME NEW S, IsFiniteSet(S), NEW f, \A x \in S : f[x] \in Nat
    PROVE  /\ SumFunctionOnSet(f, S) \in Nat
           /\ SumFunctionOnSet(f, S) = 0 <=> \A x \in S : f[x] = 0
<1> DEFINE Sum(T) == SumFunctionOnSet(f, T)
           G == {T \in SUBSET S : Sum(T) \in Nat /\ (Sum(T) = 0 <=> \A x \in T : f[x] = 0)}
<1>1. \A T \in SUBSET S : (\A x \in T : T \ {x} \in G) => T \in G
  <2>1. SUFFICES ASSUME NEW T \in SUBSET S, T # {}, \A x \in T : T \ {x} \in G
                 PROVE  T \in G
    BY SumEmpty
  <2> DEFINE c == Picked(T)
  <2>2. c \in T /\ IsFiniteSet(T)
    BY <2>1, FS_Subset DEF Picked
  <2>3. Sum(T) = f[c] + Sum(T \ {c})
    BY <2>1, <2>2, SumPicked
  <2> HIDE DEF c
  <2>4. T \ {c} \in G /\ f[c] \in Nat
    BY <2>1, <2>2
  <2>5. T = (T \ {c}) \cup {c}
    BY <2>2
  <2> QED
    BY <2>2, <2>3, <2>4, <2>5
<1>2. G \in SUBSET (SUBSET S)
  OBVIOUS
<1> HIDE DEF G
<1>3. G = SUBSET S
  BY <1>2, <1>1, FiniteInduction
<1> QED
  BY <1>3 DEF G

\* What is not summed does not matter.
LEMMA SumSame ==
    ASSUME NEW S, IsFiniteSet(S), NEW f, NEW g, \A x \in S : f[x] = g[x]
    PROVE  SumFunctionOnSet(f, S) = SumFunctionOnSet(g, S)
<1> DEFINE G == {T \in SUBSET S : SumFunctionOnSet(f, T) = SumFunctionOnSet(g, T)}
<1>1. \A T \in SUBSET S : (\A x \in T : T \ {x} \in G) => T \in G
  <2>1. SUFFICES ASSUME NEW T \in SUBSET S, T # {}, \A x \in T : T \ {x} \in G
                 PROVE  SumFunctionOnSet(f, T) = SumFunctionOnSet(g, T)
    BY SumEmpty
  <2>2. IsFiniteSet(T) /\ Picked(T) \in T
    BY <2>1, FS_Subset DEF Picked
  <2>3. /\ SumFunctionOnSet(f, T) = f[Picked(T)] + SumFunctionOnSet(f, T \ {Picked(T)})
        /\ SumFunctionOnSet(g, T) = g[Picked(T)] + SumFunctionOnSet(g, T \ {Picked(T)})
    BY <2>1, <2>2, SumPicked
  <2> QED
    BY <2>1, <2>2, <2>3
<1>2. G \in SUBSET (SUBSET S)
  OBVIOUS
<1> HIDE DEF G
<1>3. G = SUBSET S
  BY <1>2, <1>1, FiniteInduction
<1> QED
  BY <1>3 DEF G

\* A sum over pairs is the sum of the sums over the second components.
Pairs(c, g, A, B) == \A a \in A, b \in B : c[<<a, b>>] = g[a][b]
Rows(h, g, A, B) == \A a \in A : h[a] = SumFunctionOnSet(g[a], B)
LEMMA SumOfSums ==
    ASSUME NEW A, IsFiniteSet(A), NEW B, IsFiniteSet(B),
           NEW g, \A a \in A : \A b \in B : g[a][b] \in Int,
           NEW c, Pairs(c, g, A, B), NEW h, Rows(h, g, A, B)
    PROVE  SumFunctionOnSet(c, A \X B) = SumFunctionOnSet(h, A)
<1> DEFINE G == {T \in SUBSET A : SumFunctionOnSet(c, T \X B) = SumFunctionOnSet(h, T)}
<1>1. /\ \A a \in A, b \in B : c[<<a, b>>] = g[a][b]
      /\ \A m \in A \X B : c[m] \in Int
      /\ \A a \in A : h[a] = SumFunctionOnSet(g[a], B) /\ h[a] \in Int
  BY SumInt DEF Pairs, Rows
<1>2. ASSUME NEW X \in SUBSET (A \X B)
      PROVE  IsFiniteSet(X) /\ SumFunctionOnSet(c, X) \in Int
  <2>1. IsFiniteSet(A \X B)
    BY FS_Product
  <2>2. IsFiniteSet(X)
    BY <2>1, FS_Subset
  <2> QED
    BY <1>1, <2>2, SumInt
<1>3. ASSUME NEW R \in SUBSET A, NEW a \in A \ R
      PROVE  SumFunctionOnSet(c, (R \cup {a}) \X B)
                 = SumFunctionOnSet(c, R \X B) + SumFunctionOnSet(g[a], B)
  <2> DEFINE with(U) == (R \X B) \cup ({a} \X U)
             H == {U \in SUBSET B : SumFunctionOnSet(c, with(U))
                                      = SumFunctionOnSet(c, R \X B) + SumFunctionOnSet(g[a], U)}
  <2>1. ASSUME NEW U \in SUBSET B, \A b \in U : U \ {b} \in H PROVE U \in H
    <3>1. SumFunctionOnSet(c, R \X B) \in Int
      BY <1>2
    <3>2. CASE U = {}
      <4>1. with({}) = R \X B
        OBVIOUS
      <4>2. SumFunctionOnSet(g[a], {}) = 0
        BY SumEmpty
      <4>3. SumFunctionOnSet(c, with({})) = SumFunctionOnSet(c, R \X B) + SumFunctionOnSet(g[a], {})
        <5> DEFINE r == SumFunctionOnSet(c, R \X B)
                   v == SumFunctionOnSet(g[a], {})
        <5>1. r \in Int /\ v = 0 /\ SumFunctionOnSet(c, with({})) = r
          BY <3>1, <4>1, <4>2
        <5> HIDE DEF r, v, with
        <5>2. SumFunctionOnSet(c, with({})) = r + v
          BY <5>1
        <5> QED
          BY <5>2 DEF r, v
      <4> QED
        BY <3>2, <4>3
    <3>3. CASE U # {}
      <4>1. PICK b \in U : TRUE
        BY <3>3
      <4>2. /\ with(U) \in SUBSET (A \X B) /\ <<a, b>> \in with(U)
            /\ with(U) \ {<<a, b>>} = with(U \ {b})
        OBVIOUS
      <4>3. IsFiniteSet(with(U)) /\ \A m \in with(U) : c[m] \in Int
        BY <1>1, <1>2, <4>2
      <4>4. SumFunctionOnSet(c, with(U)) = c[<<a, b>>] + SumFunctionOnSet(c, with(U) \ {<<a, b>>})
        BY <4>2, <4>3, SumRemove
      <4>5. IsFiniteSet(U) /\ \A x \in U : g[a][x] \in Int
        BY FS_Subset
      <4>6. SumFunctionOnSet(g[a], U) = g[a][b] + SumFunctionOnSet(g[a], U \ {b})
        BY <4>5, SumRemove
      <4>7. SumFunctionOnSet(g[a], U \ {b}) \in Int
        <5>1. IsFiniteSet(U \ {b})
          BY <4>5, FS_Subset
        <5> QED
          BY <4>5, <5>1, SumInt
      <4>8. SumFunctionOnSet(c, with(U \ {b}))
              = SumFunctionOnSet(c, R \X B) + SumFunctionOnSet(g[a], U \ {b})
        BY <2>1, <4>1
      <4>9. c[<<a, b>>] = g[a][b] /\ g[a][b] \in Int
        BY <1>1
      <4> DEFINE s == SumFunctionOnSet(c, with(U))
                 r == SumFunctionOnSet(c, R \X B)
                 u == SumFunctionOnSet(g[a], U)
                 v == SumFunctionOnSet(g[a], U \ {b})
      <4>10. s = g[a][b] + (r + v) /\ u = g[a][b] + v
        BY <4>2, <4>4, <4>6, <4>8, <4>9
      <4>11. r \in Int /\ v \in Int
        BY <3>1, <4>7
      <4> HIDE DEF s, r, u, v
      <4>12. s = r + u
        BY <4>9, <4>10, <4>11
      <4>13. SumFunctionOnSet(c, with(U)) = SumFunctionOnSet(c, R \X B) + SumFunctionOnSet(g[a], U)
        BY <4>12 DEF s, r, u
      <4> QED
        BY <4>13
    <3> QED
      BY <3>2, <3>3
  <2>2. H \in SUBSET (SUBSET B)
    OBVIOUS
  <2> HIDE DEF H
  <2>3. H = SUBSET B
    BY <2>1, <2>2, FiniteInduction
  <2>4. with(B) = (R \cup {a}) \X B
    OBVIOUS
  <2> QED
    BY <2>3, <2>4 DEF H
<1>4. \A T \in SUBSET A : (\A a \in T : T \ {a} \in G) => T \in G
  <2>1. SUFFICES ASSUME NEW T \in SUBSET A, \A a \in T : T \ {a} \in G PROVE T \in G
    OBVIOUS
  <2>2. CASE T = {}
    <3>1. T \X B = {}
      BY <2>2
    <3> QED
      BY <2>2, <3>1, SumEmpty
  <2>3. CASE T # {}
    <3>1. PICK a \in T : TRUE
      BY <2>3
    <3>2. (T \ {a}) \cup {a} = T /\ a \in A \ (T \ {a}) /\ T \ {a} \in SUBSET A
      BY <3>1
    <3>3. SumFunctionOnSet(c, T \X B) = SumFunctionOnSet(c, (T \ {a}) \X B) + h[a]
      BY <1>1, <1>3, <3>2
    <3>4. IsFiniteSet(T) /\ \A x \in T : h[x] \in Int
      BY <1>1, FS_Subset
    <3>5. SumFunctionOnSet(h, T) = h[a] + SumFunctionOnSet(h, T \ {a})
      BY <3>4, SumRemove
    <3>6. SumFunctionOnSet(c, (T \ {a}) \X B) = SumFunctionOnSet(h, T \ {a})
      BY <2>1
    <3>7. SumFunctionOnSet(c, (T \ {a}) \X B) \in Int /\ h[a] \in Int
      BY <1>1, <1>2, <3>2
    <3> QED
      BY <3>3, <3>5, <3>6, <3>7
  <2> QED
    BY <2>2, <2>3
<1>5. G \in SUBSET (SUBSET A)
  OBVIOUS
<1> HIDE DEF G
<1>6. G = SUBSET A
  BY <1>4, <1>5, FiniteInduction
<1> QED
  BY <1>6 DEF G

\* An integer function on a finite set takes a least value.
LEMMA LeastExists ==
    ASSUME NEW S, IsFiniteSet(S), S # {}, NEW f, \A x \in S : f[x] \in Int
    PROVE  \E x \in S : \A y \in S : f[x] <= f[y]
<1> DEFINE Least(x, T) == \A y \in T : f[x] <= f[y]
           G == {T \in SUBSET S : T = {} \/ \E x \in T : Least(x, T)}
<1>1. ASSUME NEW T \in SUBSET S, \A x \in T : T \ {x} \in G PROVE T \in G
  <2>1. CASE T = {}
    BY <2>1
  <2>2. ASSUME NEW c \in T PROVE \E x \in T : Least(x, T)
    <3>1. CASE T \ {c} = {}
      <4>1. Least(c, T)
        BY <3>1
      <4> QED
        BY <4>1
    <3>2. CASE T \ {c} # {}
      <4>1. PICK x \in T \ {c} : Least(x, T \ {c})
        BY <1>1, <3>2
      <4>2. Least(x, T) \/ Least(c, T)
        BY <4>1
      <4> QED
        BY <4>2
    <3> QED
      BY <3>1, <3>2
  <2> QED
    BY <2>1, <2>2
<1>2. G \in SUBSET (SUBSET S)
  OBVIOUS
<1> HIDE DEF G
<1>3. G = SUBSET S
  BY <1>1, <1>2, FiniteInduction
<1> QED
  BY <1>3 DEF G

\* And a greatest one.
LEMMA GreatestExists ==
    ASSUME NEW S, IsFiniteSet(S), S # {}, NEW f, \A x \in S : f[x] \in Int
    PROVE  \E x \in S : \A y \in S : f[x] >= f[y]
<1> DEFINE g == [x \in S |-> -f[x]]
<1>1. \A x \in S : g[x] = -f[x] /\ g[x] \in Int
  OBVIOUS
<1> HIDE DEF g
<1>2. PICK x \in S : \A y \in S : g[x] <= g[y]
  BY <1>1, LeastExists
<1> QED
  BY <1>1, <1>2
-----------------------------------------------------------------------------
(* Concatenation of a sequence of sequences.                               *)

\* A function on 1 .. n is a sequence of length n.
LEMMA FunctionsAreSequences ==
    ASSUME NEW S, NEW n \in Nat, NEW f \in [1 .. n -> S]
    PROVE  f \in Seq(S) /\ Len(f) = n
  OBVIOUS

\* g[i] is the concatenation of the first i elements of s.
Appends(g, s, n) == g = [i \in 1 .. n |-> IF i = 1 THEN s[i] ELSE g[i - 1] \o s[i]]

\* There is a function that concatenates the first elements of s.
LEMMA AppendsExists ==
    ASSUME NEW s, NEW n \in Nat
    PROVE  \E g : Appends(g, s, n)
<1> DEFINE K == {k \in Nat : \E g : Appends(g, s, k)}
<1>1. 0 \in K
  <2> DEFINE g == [i \in 1 .. 0 |-> 0]
  <2>1. Appends(g, s, 0)
    BY DEF Appends
  <2> HIDE DEF g
  <2> QED
    BY <2>1
<1>2. ASSUME NEW k \in K PROVE k + 1 \in K
  <2>1. k \in Nat /\ \E g : Appends(g, s, k)
    OBVIOUS
  <2>2. PICK g : Appends(g, s, k)
    BY <2>1
  <2> DEFINE h == [i \in 1 .. k + 1 |-> IF i = 1 THEN s[i] ELSE g[i - 1] \o s[i]]
  <2> HIDE DEF K
  <2>3. \A i \in 1 .. k : h[i] = g[i]
    <3>1. \A i \in 1 .. k : g[i] = IF i = 1 THEN s[i] ELSE g[i - 1] \o s[i]
      BY <2>2 DEF Appends
    <3> QED
      BY <3>1, <2>1
  <2>4. \A i \in 1 .. k + 1 : i # 1 => h[i - 1] = g[i - 1]
    <3> HIDE DEF h
    <3>1. \A i \in 1 .. k + 1 : i # 1 => i - 1 \in 1 .. k
      BY <2>1
    <3> QED
      BY <2>3, <3>1
  <2>5. \A i \in 1 .. k + 1 : h[i] = IF i = 1 THEN s[i] ELSE h[i - 1] \o s[i]
    BY <2>4
  <2>6. h = [i \in 1 .. k + 1 |-> h[i]]
    OBVIOUS
  <2> HIDE DEF h
  <2>7. Appends(h, s, k + 1)
    BY <2>5, <2>6 DEF Appends
  <2> QED
    BY <2>1, <2>7 DEF K
<1>3. K \in SUBSET Nat
  OBVIOUS
<1> HIDE DEF K
<1>4. K = Nat
  BY <1>1, <1>2, <1>3, SetInduction
<1> QED
  BY <1>4 DEF K

\* It is the one that FlattenSeq chooses.
LEMMA FlattenIsRecursive ==
    ASSUME NEW s, Len(s) \in Nat \ {0}
    PROVE  \E g : Appends(g, s, Len(s)) /\ FlattenSeq(s) = g[Len(s)]
<1> DEFINE h == CHOOSE g : Appends(g, s, Len(s))
<1>1. Appends(h, s, Len(s))
  BY AppendsExists
<1>2. FlattenSeq(s) = h[Len(s)]
  BY DEF FlattenSeq, Appends
<1> QED
  BY <1>1, <1>2

\* What holds of the first element, numbered 1, and of a concatenation with the
\* next element when it holds before, holds of the whole.
LEMMA FlattenInduction ==
    ASSUME NEW X, NEW s \in Seq(Seq(X)), s # <<>>, NEW G, <<1, s[1]>> \in G,
           \A i \in 1 .. Len(s) - 1 : \A u \in Seq(X) :
               <<i, u>> \in G => <<i + 1, u \o s[i + 1]>> \in G
    PROVE  <<Len(s), FlattenSeq(s)>> \in G
<1>1. Len(s) \in Nat \ {0} /\ \A i \in 1 .. Len(s) : s[i] \in Seq(X)
  OBVIOUS
<1>2. PICK g : Appends(g, s, Len(s)) /\ FlattenSeq(s) = g[Len(s)]
  BY <1>1, FlattenIsRecursive
<1>3. \A i \in 1 .. Len(s) : g[i] = IF i = 1 THEN s[i] ELSE g[i - 1] \o s[i]
  BY <1>2 DEF Appends
<1> DEFINE K == {k \in Nat : k < Len(s) => g[k + 1] \in Seq(X) /\ <<k + 1, g[k + 1]>> \in G}
<1>4. 0 \in K
  <2>1. 0 + 1 = 1 /\ 1 \in 1 .. Len(s)
    BY <1>1
  <2>2. g[1] = s[1] /\ s[1] \in Seq(X)
    BY <1>1, <1>3, <2>1
  <2>3. g[0 + 1] \in Seq(X) /\ <<0 + 1, g[0 + 1]>> \in G
    BY <2>1, <2>2
  <2> QED
    BY <2>3
<1>5. \A k \in K : k + 1 \in K
  <2>1. SUFFICES ASSUME NEW k \in Nat, k + 1 < Len(s), g[k + 1] \in Seq(X), <<k + 1, g[k + 1]>> \in G
                 PROVE  g[k + 2] \in Seq(X) /\ <<k + 2, g[k + 2]>> \in G
    BY <1>1
  <2> DEFINE i == k + 2
  <2>2. i \in 1 .. Len(s) /\ i # 1 /\ i - 1 = k + 1 /\ k + 1 \in 1 .. Len(s) - 1 /\ (k + 1) + 1 = i
    BY <2>1, <1>1
  <2> HIDE DEF i
  <2>3. g[i] = g[k + 1] \o s[i] /\ s[i] \in Seq(X)
    BY <1>1, <1>3, <2>2
  <2>4. <<(k + 1) + 1, g[k + 1] \o s[(k + 1) + 1]>> \in G
    BY <2>1, <2>2
  <2>5. g[i] \in Seq(X) /\ <<i, g[i]>> \in G
    BY <2>1, <2>2, <2>3, <2>4
  <2> QED
    BY <2>5 DEF i
<1>6. K \in SUBSET Nat
  OBVIOUS
<1> HIDE DEF K
<1>7. K = Nat
  BY <1>4, <1>5, <1>6, SetInduction
<1>8. Len(s) - 1 \in K /\ (Len(s) - 1) + 1 = Len(s)
  BY <1>7, <1>1
<1> QED
  BY <1>1, <1>2, <1>8 DEF K

\* Sequences over X are concatenated to a sequence over X.
LEMMA FlattenType ==
    ASSUME NEW X, NEW s \in Seq(Seq(X))
    PROVE  FlattenSeq(s) \in Seq(X)
<1>1. CASE s = <<>>
  BY <1>1 DEF FlattenSeq
<1>2. CASE s # <<>>
  <2> DEFINE G == Nat \X Seq(X)
  <2>1. Len(s) \in Nat /\ 1 \in 1 .. Len(s) /\ s[1] \in Seq(X)
    BY <1>2
  <2>2. <<1, s[1]>> \in G
    BY <2>1
  <2>3. ASSUME NEW i \in 1 .. Len(s) - 1, NEW u \in Seq(X), <<i, u>> \in G
        PROVE  <<i + 1, u \o s[i + 1]>> \in G
    <3>1. i + 1 \in 1 .. Len(s) /\ i + 1 \in Nat
      BY <2>1
    <3>2. s[i + 1] \in Seq(X)
      BY <3>1
    <3>3. u \o s[i + 1] \in Seq(X)
      <4> DEFINE v == s[i + 1]
      <4>1. u \in Seq(X) /\ v \in Seq(X)
        BY <2>3, <3>2
      <4> HIDE DEF v
      <4>2. u \o v \in Seq(X)
        BY <4>1
      <4> QED
        BY <4>2 DEF v
    <3> QED
      BY <3>1, <3>3
  <2> HIDE DEF G
  <2>4. <<Len(s), FlattenSeq(s)>> \in G
    BY <1>2, <2>2, <2>3, FlattenInduction
  <2> QED
    BY <2>4 DEF G
<1> QED
  BY <1>1, <1>2

===============================================================================
