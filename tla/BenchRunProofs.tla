---------------------------- MODULE BenchRunProofs ----------------------------
(***************************************************************************)
(* Machine-checked proofs about the benchmark harness, for every number of *)
(* processes and threads, all command lines and any number of mishaps: no  *)
(* failed call is lost, the exit code tells the truth, and threads in the  *)
(* same call of Barrier() or Allreduce() stand at the same line.           *)
(*                                                                         *)
(* The proofs follow the program counter through the program of a thread,  *)
(* so that they begin with the shape of that program: it is built from     *)
(* pieces in which every check is followed by the vote on it and no vote   *)
(* jumps behind the end of the piece, give or take what is still to come.  *)
(***************************************************************************)
EXTENDS BenchRun, FoldLemmas, SequenceTheorems

-----------------------------------------------------------------------------
(* The shape of the test's program.                                        *)

PlainNames == {"launch", "sync", "barrier", "groupStart", "groupEnd", "capture", "endCapture",
               "graph", "startClock", "stopClock", "allreduce", "check"}
TestNames == PlainNames \cup {"init", "vote"}
Operation == [op : PlainNames] \cup [op : {"init"}, tag : Nat \X {0, 1}]
                               \cup [op : {"vote"}, skip : Nat]

\* A piece of the program whose votes jump at most k operations past its end.
Piece(s, k) ==
    /\ s \in Seq(Operation)
    /\ \A i \in 1 .. Len(s) :
          /\ s[i].op = "vote" => i + s[i].skip <= Len(s) + k
          /\ s[i].op = "check" /\ i < Len(s) => s[i + 1].op = "vote"
\* No check is the last operation, its vote missing.
Closed(s) == s = <<>> \/ s[Len(s)].op # "check"
Whole(s, k) == Piece(s, k) /\ Closed(s)

LEMMA OperationFacts ==
    ASSUME NEW x \in Operation
    PROVE  x.op \in TestNames /\ (x.op = "vote" => x.skip \in Nat)
  BY DEF Operation, TestNames, PlainNames

\* Two pieces make one, if the first jumps no further than the second.
LEMMA PiecesJoin ==
    ASSUME NEW s, NEW a \in Nat, Piece(s, a), NEW t, NEW b \in Nat, Piece(t, b),
           a <= Len(t) + b,
           Closed(s) \/ (t # <<>> /\ t[1].op = "vote")
    PROVE  Piece(s \o t, b) /\ Len(s \o t) = Len(s) + Len(t)
<1>1. /\ s \in Seq(Operation) /\ t \in Seq(Operation) /\ s \o t \in Seq(Operation)
      /\ Len(s) \in Nat /\ Len(t) \in Nat /\ Len(s \o t) = Len(s) + Len(t)
      /\ \A i \in 1 .. Len(s) : (s \o t)[i] = s[i] /\ s[i] \in Operation
      /\ \A i \in 1 .. Len(t) : (s \o t)[Len(s) + i] = t[i] /\ t[i] \in Operation
  BY ConcatProperties DEF Piece
<1> DEFINE w == s \o t
<1>2. \A i \in 1 .. Len(s) : w[i] = s[i] /\ s[i] \in Operation
  BY <1>1
<1>3. ASSUME NEW i \in 1 .. Len(s) + Len(t), i > Len(s)
      PROVE  i - Len(s) \in 1 .. Len(t) /\ w[i] = t[i - Len(s)] /\ t[i - Len(s)] \in Operation
  <2> DEFINE j == i - Len(s)
  <2>1. j \in 1 .. Len(t) /\ i = Len(s) + j
    BY <1>1, <1>3
  <2> HIDE DEF j, w
  <2>2. w[Len(s) + j] = t[j] /\ t[j] \in Operation
    BY <1>1, <2>1 DEF w
  <2> QED
    BY <2>1, <2>2 DEF j
<1> HIDE DEF w
<1>4. ASSUME NEW i \in 1 .. Len(s) + Len(t), w[i].op = "vote"
      PROVE  i + w[i].skip <= Len(s) + Len(t) + b
  <2>1. CASE i <= Len(s)
    <3>1. i \in 1 .. Len(s) /\ w[i] = s[i] /\ w[i].skip \in Nat
      BY <1>1, <1>2, <1>4, <2>1, OperationFacts
    <3>2. i + s[i].skip <= Len(s) + a
      BY <1>4, <3>1 DEF Piece
    <3> QED
      BY <3>1, <3>2, <1>1
  <2>2. CASE i > Len(s)
    <3> DEFINE j == i - Len(s)
    <3>1. j \in 1 .. Len(t) /\ w[i] = t[j] /\ t[j].skip \in Nat
      BY <1>3, <1>4, <2>2, OperationFacts
    <3>2. i = Len(s) + j
      BY <1>1
    <3> HIDE DEF j
    <3>3. j + t[j].skip <= Len(t) + b
      BY <1>4, <3>1 DEF Piece
    <3> QED
      BY <3>1, <3>2, <3>3, <1>1
  <2> QED
    BY <2>1, <2>2, <1>1
<1>5. ASSUME NEW i \in 1 .. Len(s) + Len(t), w[i].op = "check", i < Len(s) + Len(t)
      PROVE  w[i + 1].op = "vote"
  <2>1. CASE i < Len(s)
    <3>1. i \in 1 .. Len(s) /\ i + 1 \in 1 .. Len(s)
      BY <1>1, <2>1
    <3>2. w[i] = s[i] /\ w[i + 1] = s[i + 1]
      BY <1>2, <3>1
    <3> QED
      BY <3>1, <3>2, <2>1, <1>5 DEF Piece
  <2>2. CASE i = Len(s)
    <3>1. i \in 1 .. Len(s) /\ s # <<>> /\ w[i] = s[i]
      BY <1>1, <1>2, <2>2
    <3>2. t # <<>> /\ t[1].op = "vote"
      BY <3>1, <2>2, <1>5 DEF Closed
    <3>3. i + 1 \in 1 .. Len(s) + Len(t) /\ i + 1 > Len(s) /\ (i + 1) - Len(s) = 1
      BY <1>1, <1>5, <2>2
    <3>4. w[i + 1] = t[1]
      BY <1>3, <3>3
    <3> QED
      BY <3>2, <3>4
  <2>3. CASE i > Len(s)
    <3> DEFINE j == i - Len(s)
    <3>1. /\ j \in 1 .. Len(t) /\ w[i] = t[j] /\ j < Len(t)
          /\ i + 1 \in 1 .. Len(s) + Len(t) /\ i + 1 > Len(s) /\ (i + 1) - Len(s) = j + 1
      BY <1>1, <1>3, <1>5, <2>3
    <3>2. w[i + 1] = t[j + 1]
      BY <1>3, <3>1
    <3> HIDE DEF j
    <3> QED
      BY <3>1, <3>2, <1>5 DEF Piece
  <2> QED
    BY <2>1, <2>2, <2>3, <1>1
<1> QED
  BY <1>1, <1>4, <1>5 DEF Piece, w

\* The last operation of two pieces is the second's, unless there is none.
LEMMA ClosedJoin ==
    ASSUME NEW s \in Seq(Operation), NEW t \in Seq(Operation), Closed(t), t = <<>> => Closed(s)
    PROVE  Closed(s \o t)
<1>1. CASE t = <<>>
  BY <1>1, ConcatEmptySeq
<1>2. CASE t # <<>>
  <2>1. Len(s) \in Nat /\ Len(t) \in Nat \ {0} /\ Len(s \o t) = Len(s) + Len(t)
    BY <1>2, ConcatProperties
  <2>2. \A i \in 1 .. Len(t) : (s \o t)[Len(s) + i] = t[i]
    BY ConcatProperties
  <2>3. (s \o t)[Len(s \o t)] = t[Len(t)]
    BY <2>1, <2>2
  <2> QED
    BY <2>3, <1>2 DEF Closed
<1> QED
  BY <1>1, <1>2

LEMMA WholeJoin ==
    ASSUME NEW s, NEW a \in Nat, Whole(s, a), NEW t, NEW b \in Nat, Whole(t, b), a <= Len(t) + b
    PROVE  Whole(s \o t, b)
<1>1. Piece(s, a) /\ Closed(s) /\ Piece(t, b) /\ Closed(t)
  BY DEF Whole
<1>2. Piece(s \o t, b)
  BY <1>1, PiecesJoin
<1>3. s \in Seq(Operation) /\ t \in Seq(Operation)
  BY <1>1 DEF Piece
<1>4. Closed(s \o t)
  BY <1>1, <1>3, ClosedJoin
<1> QED
  BY <1>2, <1>4 DEF Whole

\* Without jumps past the end nothing has to be asked of the second piece.
LEMMA TestJoin ==
    ASSUME NEW s, Whole(s, 0), NEW t, Whole(t, 0)
    PROVE  Whole(s \o t, 0)
<1>1. Len(t) \in Nat
  BY DEF Whole, Piece
<1> QED
  BY <1>1, WholeJoin

LEMMA NothingIsWhole == Whole(<<>>, 0)
  BY EmptySeq DEF Whole, Piece, Closed

LEMMA OneIsWhole ==
    ASSUME NEW x \in Operation, x.op \notin {"vote", "check"}
    PROVE  Whole(<<x>>, 0)
  BY DEF Whole, Piece, Closed

\* Pieces each of which jumps no further than the next make a whole.
LEMMA FlattenWhole ==
    ASSUME NEW n \in Nat, NEW s \in [1 .. n -> Seq(Operation)], NEW k \in [1 .. n -> Nat],
           \A i \in 1 .. n : Whole(s[i], k[i]),
           \A i \in 1 .. n - 1 : k[i] <= Len(s[i + 1]) + k[i + 1],
           n # 0 => k[n] = 0
    PROVE  Whole(FlattenSeq(s), 0)
<1>1. s \in Seq(Seq(Operation)) /\ Len(s) = n
  BY SeqDef
<1>2. CASE n = 0
  <2>1. s = <<>>
    BY <1>1, <1>2
  <2> QED
    BY <2>1, NothingIsWhole DEF FlattenSeq
<1>3. CASE n # 0
  <2> DEFINE G == {x \in (1 .. n) \X Seq(Operation) : Whole(x[2], k[x[1]])}
  <2>1. \A i \in 1 .. n, u \in Seq(Operation) : <<i, u>> \in G <=> Whole(u, k[i])
    OBVIOUS
  <2> HIDE DEF G
  <2>2. 1 \in 1 .. n /\ s # <<>> /\ s[1] \in Seq(Operation)
    BY <1>1, <1>3
  <2>3. <<1, s[1]>> \in G
    BY <2>1, <2>2
  <2>4. ASSUME NEW i \in 1 .. n - 1, NEW u \in Seq(Operation), <<i, u>> \in G
        PROVE  <<i + 1, u \o s[i + 1]>> \in G
    <3> DEFINE j == i + 1
    <3>1. i \in 1 .. n /\ j \in 1 .. n
      OBVIOUS
    <3>2. k[i] <= Len(s[j]) + k[j] /\ k[i] \in Nat /\ k[j] \in Nat /\ s[j] \in Seq(Operation)
      BY <3>1
    <3> HIDE DEF j
    <3>3. Whole(u, k[i]) /\ Whole(s[j], k[j])
      BY <2>1, <2>4, <3>1
    <3>4. Whole(u \o s[j], k[j])
      BY <3>2, <3>3, WholeJoin
    <3>5. u \o s[j] \in Seq(Operation)
      BY <3>4 DEF Whole, Piece
    <3>6. <<j, u \o s[j]>> \in G
      BY <2>1, <3>1, <3>4, <3>5
    <3> QED
      BY <3>6 DEF j
  <2>5. <<n, FlattenSeq(s)>> \in G
    BY <1>1, <2>2, <2>3, <2>4, FlattenInduction
  <2>6. FlattenSeq(s) \in Seq(Operation)
    BY <1>1, FlattenType
  <2> QED
    BY <2>1, <2>5, <2>6, <1>3
<1> QED
  BY <1>2, <1>3

\* A sequence of wholes is a whole.
LEMMA FlattenTest ==
    ASSUME NEW n \in Nat, NEW s, DOMAIN s = 1 .. n, s = [i \in 1 .. n |-> s[i]],
           \A i \in 1 .. n : Whole(s[i], 0)
    PROVE  Whole(FlattenSeq(s), 0)
<1> DEFINE k == [i \in 1 .. n |-> 0]
<1>1. k \in [1 .. n -> Nat] /\ \A i \in 1 .. n : k[i] = 0
  OBVIOUS
<1>2. \A i \in 1 .. n : s[i] \in Seq(Operation) /\ Len(s[i]) \in Nat
  BY DEF Whole, Piece
<1>3. s \in [1 .. n -> Seq(Operation)]
  BY <1>2
<1>4. ASSUME NEW i \in 1 .. n - 1 PROVE k[i] <= Len(s[i + 1]) + k[i + 1]
  <2>1. i \in 1 .. n /\ i + 1 \in 1 .. n
    OBVIOUS
  <2>2. k[i] = 0 /\ k[i + 1] = 0 /\ Len(s[i + 1]) \in Nat
    BY <1>1, <1>2, <2>1
  <2> QED
    BY <2>2
<1>5. n # 0 => k[n] = 0
  BY <1>1
<1>6. \A i \in 1 .. n : Whole(s[i], k[i])
  BY <1>1
<1> HIDE DEF k
<1> QED
  BY <1>1, <1>3, <1>4, <1>5, <1>6, FlattenWhole

-----------------------------------------------------------------------------
(* The functions of the code, one after the other.                         *)

LEMMA DoIsWhole ==
    ASSUME NEW name \in PlainNames, name # "check"
    PROVE  Whole(Do(name), 0)
<1>1. Op(name) \in Operation /\ Op(name).op = name /\ name # "vote"
  BY DEF Op, Operation, PlainNames
<1> QED
  BY <1>1, OneIsWhole DEF Do

LEMMA WhenIsWhole ==
    ASSUME NEW cond, NEW s, Whole(s, 0)
    PROVE  Whole(When(cond, s), 0)
  BY NothingIsWhole DEF When

LEMMA TimesIsWhole ==
    ASSUME NEW n \in Nat, NEW s, Whole(s, 0)
    PROVE  Whole(Times(n, s), 0)
<1> DEFINE w == [i \in 1 .. n |-> s]
<1>1. DOMAIN w = 1 .. n /\ w = [i \in 1 .. n |-> w[i]] /\ \A i \in 1 .. n : Whole(w[i], 0)
  OBVIOUS
<1> HIDE DEF w
<1>2. Whole(FlattenSeq(w), 0)
  BY <1>1, FlattenTest
<1> QED
  BY <1>2 DEF Times, w

LEMMA InitDataIsWhole ==
    ASSUME NEW r \in Nat, NEW in_place \in {0, 1}
    PROVE  Whole(InitData(r, in_place), 0)
<1> DEFINE x == [op |-> "init", tag |-> <<r, in_place>>]
<1>1. x \in Operation /\ x.op = "init"
  BY DEF Operation
<1> QED
  BY <1>1, OneIsWhole DEF InitData

LEMMA StartCollIsWhole == \A o : Whole(StartColl(o), 0)
<1> TAKE o
<1>1. Whole(Do("launch"), 0) /\ Whole(Do("sync"), 0) /\ Whole(Do("barrier"), 0)
  BY DoIsWhole DEF PlainNames
<1>2. Whole(When(o.blocking \in {1, 2}, Do("sync")), 0) /\ Whole(When(o.blocking = 1, Do("barrier")), 0)
  BY <1>1, WhenIsWhole
<1> QED
  BY <1>1, <1>2, TestJoin DEF StartColl

LEMMA CompleteCollIsWhole == \A o : Whole(CompleteColl(o), 0)
<1>1. Whole(Do("sync"), 0)
  BY DoIsWhole DEF PlainNames
<1> QED
  BY <1>1, WhenIsWhole DEF CompleteColl

LEMMA WarmUpIsWhole ==
    ASSUME NEW o, o.warmup \in Nat, NEW in_place \in {0, 1}
    PROVE  Whole(WarmUp(o, in_place), 0)
<1>1. Whole(When(o.datacheck > 0, InitData(99, in_place)), 0) /\ Whole(Times(o.warmup, StartColl(o)), 0)
  BY InitDataIsWhole, WhenIsWhole, TimesIsWhole, StartCollIsWhole
<1>2. Whole(Do("barrier"), 0)
  BY DoIsWhole DEF PlainNames
<1> QED
  BY <1>1, <1>2, CompleteCollIsWhole, TestJoin DEF WarmUp

LEMMA IterationIsWhole ==
    ASSUME NEW o, o.agg \in Nat
    PROVE  Whole(Iteration(o), 0)
<1>1. /\ Whole(Do("groupStart"), 0) /\ Whole(Do("groupEnd"), 0)
      /\ Whole(Do("sync"), 0) /\ Whole(Do("barrier"), 0)
  BY DoIsWhole DEF PlainNames
<1>2. Whole(Do("sync") \o Do("barrier"), 0)
  BY <1>1, TestJoin
<1>3. /\ Whole(When(o.agg > 1, Do("groupStart")), 0) /\ Whole(When(o.agg > 1, Do("groupEnd")), 0)
      /\ Whole(When(o.blocking = 3, Do("sync") \o Do("barrier")), 0)
      /\ Whole(Times(o.agg, StartColl(o)), 0)
  BY <1>1, <1>2, WhenIsWhole, TimesIsWhole, StartCollIsWhole
<1> QED
  BY <1>3, TestJoin DEF Iteration

LEMMA TimedIsWhole ==
    ASSUME NEW o, o.agg \in Nat, o.iters \in Nat, o.graph \in Nat
    PROVE  Whole(Timed(o), 0)
<1>1. /\ Whole(Do("startClock"), 0) /\ Whole(Do("capture"), 0) /\ Whole(Do("endCapture"), 0)
      /\ Whole(Do("barrier"), 0) /\ Whole(Do("graph"), 0) /\ Whole(Do("stopClock"), 0)
      /\ Whole(Do("allreduce"), 0)
  BY DoIsWhole DEF PlainNames
<1>2. Whole(Times(o.iters, Iteration(o)), 0) /\ Whole(Times(o.graph, Do("graph")), 0)
  BY <1>1, TimesIsWhole, IterationIsWhole
<1> DEFINE straight == Do("startClock") \o Times(o.iters, Iteration(o))
           captured == Do("capture") \o Times(o.iters, Iteration(o)) \o Do("endCapture")
                         \o Do("barrier") \o Do("startClock") \o Times(o.graph, Do("graph"))
           loop == IF o.graph = 0 THEN straight ELSE captured
<1>3. Whole(straight, 0)
  BY <1>1, <1>2, TestJoin
<1>4. Whole(captured, 0)
  <2>1. Whole(Do("capture") \o Times(o.iters, Iteration(o)), 0)
    BY <1>1, <1>2, TestJoin
  <2>2. Whole(Do("capture") \o Times(o.iters, Iteration(o)) \o Do("endCapture") \o Do("barrier"), 0)
    BY <1>1, <2>1, TestJoin
  <2> QED
    BY <1>1, <1>2, <2>2, TestJoin
<1>5. Whole(loop, 0)
  BY <1>3, <1>4
<1> HIDE DEF loop
<1>6. Whole(loop \o CompleteColl(o), 0)
  BY <1>5, CompleteCollIsWhole, TestJoin
<1>7. Whole(loop \o CompleteColl(o) \o Do("stopClock") \o Do("allreduce"), 0)
  BY <1>1, <1>6, TestJoin
<1>8. Whole(loop \o CompleteColl(o) \o Do("stopClock") \o Do("allreduce") \o Do("barrier"), 0)
  BY <1>1, <1>7, TestJoin
<1> QED
  BY <1>8 DEF Timed, loop

\* A round of checks ends with a check that waits for its vote.
LEMMA CheckRoundIsPiece ==
    ASSUME NEW o, NEW r \in Nat, NEW in_place \in {0, 1}
    PROVE  Piece(CheckRound(o, r, in_place), 0)
<1> DEFINE body == InitData(r, in_place) \o When(o.graph > 0, Do("capture")) \o StartColl(o)
                     \o When(o.graph > 0, Do("endCapture") \o Do("graph")) \o CompleteColl(o)
<1>1. /\ Whole(Do("capture"), 0) /\ Whole(Do("endCapture"), 0) /\ Whole(Do("graph"), 0)
  BY DoIsWhole DEF PlainNames
<1>2. Whole(Do("endCapture") \o Do("graph"), 0)
  BY <1>1, TestJoin
<1>3. /\ Whole(When(o.graph > 0, Do("capture")), 0)
      /\ Whole(When(o.graph > 0, Do("endCapture") \o Do("graph")), 0)
      /\ Whole(InitData(r, in_place), 0)
  BY <1>1, <1>2, WhenIsWhole, InitDataIsWhole
<1>4. Whole(InitData(r, in_place) \o When(o.graph > 0, Do("capture")) \o StartColl(o), 0)
  BY <1>3, StartCollIsWhole, TestJoin
<1>5. Whole(body, 0)
  BY <1>3, <1>4, StartCollIsWhole, CompleteCollIsWhole, TestJoin
<1>6. Piece(Do("check"), 0)
  <2>1. Op("check") \in Operation /\ Op("check").op = "check"
    BY DEF Op, Operation, PlainNames
  <2> QED
    BY <2>1 DEF Do, Piece
<1> HIDE DEF body
<1>7. Piece(body \o Do("check"), 0)
  <2>1. Len(Do("check")) \in Nat
    BY <1>6 DEF Piece
  <2> QED
    BY <1>5, <1>6, <2>1, PiecesJoin DEF Whole
<1> QED
  BY <1>7 DEF CheckRound, body

\* The rounds of checks, with the jumps out of them.
LEMMA CheckLoopIsWhole ==
    ASSUME NEW o, o.datacheck \in Nat, NEW r \in Nat, NEW in_place \in {0, 1}
    PROVE  Whole(CheckLoop(o, r, in_place), 0)
<1> DEFINE n == o.datacheck
           round == CheckRound(o, r, in_place)
           size == Len(round) + 1
           k == [c \in 1 .. n |-> RoundsLeft(o, c) * size]
           Vote(c) == <<[op |-> "vote", skip |-> RoundsLeft(o, c) * size]>>
           w == [c \in 1 .. n |-> round \o Vote(c)]
<1>1. Piece(round, 0) /\ size \in Nat \ {0}
  <2>1. Piece(round, 0)
    BY CheckRoundIsPiece
  <2> QED
    BY <2>1 DEF Piece
<1>2. \A c \in 1 .. n : RoundsLeft(o, c) \in Nat
  BY DEF RoundsLeft
<1>3. \A c \in 1 .. n : RoundsLeft(o, c) * size \in Nat
  <2> HIDE DEF size
  <2> QED
    BY <1>1, <1>2
<1>4. k \in [1 .. n -> Nat] /\ \A c \in 1 .. n : k[c] = RoundsLeft(o, c) * size
  BY <1>3
<1>5. ASSUME NEW c \in 1 .. n
      PROVE  w[c] \in Seq(Operation) /\ Len(w[c]) = size /\ Whole(w[c], k[c])
  <2> DEFINE v == Vote(c)
  <2>1. /\ v \in Seq(Operation) /\ Len(v) = 1 /\ v # <<>> /\ v[1].op = "vote" /\ v[1].skip = k[c]
        /\ k[c] \in Nat
    <3>1. RoundsLeft(o, c) * size \in Nat /\ k[c] = RoundsLeft(o, c) * size
      BY <1>3, <1>4
    <3> DEFINE z == RoundsLeft(o, c) * size
               x == [op |-> "vote", skip |-> z]
    <3>2. z \in Nat /\ k[c] = z /\ v = <<x>>
      BY <3>1
    <3> HIDE DEF z, v
    <3>3. x \in Operation /\ x.op = "vote" /\ x.skip = z
      BY <3>2 DEF Operation
    <3> HIDE DEF x
    <3> QED
      BY <3>2, <3>3
  <2> HIDE DEF v, k
  <2>2. Piece(v, k[c]) /\ Closed(v)
    BY <2>1 DEF Piece, Closed
  <2>3. Piece(round \o v, k[c]) /\ Len(round \o v) = size
    <3>1. 0 <= Len(v) + k[c] /\ 0 \in Nat
      BY <2>1
    <3>2. Piece(round, 0)
      BY <1>1
    <3> HIDE DEF round
    <3>3. Piece(round \o v, k[c]) /\ Len(round \o v) = Len(round) + Len(v)
      BY <2>1, <2>2, <3>1, <3>2, PiecesJoin
    <3> QED
      BY <2>1, <3>3 DEF round
  <2>4. Closed(round \o v)
    BY <1>1, <2>1, <2>2, ClosedJoin DEF Piece
  <2>5. w[c] = round \o v
    BY DEF v
  <2> QED
    BY <2>3, <2>4, <2>5 DEF Whole, Piece
<1>6. ASSUME NEW c \in 1 .. n - 1 PROVE k[c] <= Len(w[c + 1]) + k[c + 1]
  <2> DEFINE d == c + 1
  <2>1. c \in 1 .. n /\ d \in 1 .. n /\ RoundsLeft(o, c) = RoundsLeft(o, d) + 1
    BY DEF RoundsLeft
  <2> HIDE DEF d, k, w
  <2>2. Len(w[d]) = size /\ k[c] = RoundsLeft(o, c) * size /\ k[d] = RoundsLeft(o, d) * size
    BY <1>4, <1>5, <2>1
  <2>3. k[c] = size + k[d]
    <3> DEFINE y == RoundsLeft(o, d)
    <3>1. y \in Nat /\ size \in Nat
      BY <1>1, <1>2, <2>1
    <3> HIDE DEF y, size
    <3>2. (y + 1) * size = size + y * size
      BY <3>1
    <3> QED
      BY <2>1, <2>2, <3>2 DEF y
  <2>4. k[d] \in Nat
    BY <1>4, <2>1
  <2> QED
    BY <1>1, <2>2, <2>3, <2>4 DEF d
<1>7. n # 0 => k[n] = 0
  <2>1. RoundsLeft(o, n) = 0
    BY DEF RoundsLeft
  <2> HIDE DEF size
  <2> QED
    BY <2>1, <1>1
<1>8. w \in [1 .. n -> Seq(Operation)]
  BY <1>5
<1> HIDE DEF k
<1>9. Whole(FlattenSeq(w), 0)
  <2> HIDE DEF w
  <2> QED
    BY <1>4, <1>5, <1>6, <1>7, <1>8, FlattenWhole
<1> QED
  BY <1>9 DEF CheckLoop

LEMMA BenchTimeIsWhole ==
    ASSUME NEW o \in CommandLine, NEW rep \in Nat, NEW in_place \in {0, 1}
    PROVE  Whole(BenchTime(o, rep, in_place), 0)
<1>1. o.warmup \in Nat /\ o.agg \in Nat /\ o.iters \in Nat /\ o.graph \in Nat /\ o.datacheck \in Nat
  BY DEF CommandLine
<1>2. Whole(WarmUp(o, in_place), 0) /\ Whole(Timed(o), 0) /\ Whole(CheckLoop(o, rep, in_place), 0)
  BY <1>1, WarmUpIsWhole, TimedIsWhole, CheckLoopIsWhole
<1> QED
  BY <1>2, TestJoin DEF BenchTime

LEMMA TimeTestIsWhole ==
    ASSUME NEW o \in CommandLine
    PROVE  Whole(TimeTest(o), 0)
<1> DEFINE w == [s \in 1 .. o.sizes |-> BenchTime(o, 2 * s - 1, 0) \o BenchTime(o, 2 * s, 1)]
<1>1. o.sizes \in Nat
  BY DEF CommandLine
<1>2. \A s \in 1 .. o.sizes : Whole(w[s], 0)
  <2> SUFFICES ASSUME NEW s \in 1 .. o.sizes PROVE Whole(w[s], 0)
    OBVIOUS
  <2>1. 2 * s - 1 \in Nat /\ 2 * s \in Nat
    BY <1>1
  <2>2. Whole(BenchTime(o, 2 * s - 1, 0), 0) /\ Whole(BenchTime(o, 2 * s, 1), 0)
    BY <2>1, BenchTimeIsWhole
  <2> QED
    BY <2>2, TestJoin
<1>3. DOMAIN w = 1 .. o.sizes /\ w = [i \in 1 .. o.sizes |-> w[i]]
  OBVIOUS
<1> HIDE DEF w
<1>4. Whole(FlattenSeq(w), 0)
  BY <1>1, <1>2, <1>3, FlattenTest
<1>5. Whole(Do("barrier"), 0)
  BY DoIsWhole DEF PlainNames
<1> QED
  BY <1>4, <1>5, TestJoin DEF TimeTest, w

-----------------------------------------------------------------------------
(* The program of a thread: the test, and what the main thread does behind *)
(* it.                                                                     *)

Test == TimeTest(opt)
End == Len(Test)

LEMMA TestFacts ==
    ASSUME opt \in Options
    PROVE  /\ Test \in Seq(Operation) /\ End \in Nat
           /\ \A i \in 1 .. End :
                 /\ Test[i] \in Operation /\ Test[i].op \in TestNames
                 /\ Test[i].op = "vote" => Test[i].skip \in Nat /\ i + Test[i].skip <= End
                 /\ Test[i].op = "check" => i + 1 \in 1 .. End /\ Test[i + 1].op = "vote"
<1>1. Whole(Test, 0)
  BY OptionsAssumption, TimeTestIsWhole DEF OptionsAssumption, Test
<1>2. Test \in Seq(Operation) /\ End \in Nat
  BY <1>1 DEF Whole, Piece, End
<1>3. ASSUME NEW i \in 1 .. End
      PROVE  /\ Test[i] \in Operation /\ Test[i].op \in TestNames
             /\ Test[i].op = "vote" => Test[i].skip \in Nat
  BY <1>2, OperationFacts, ElementOfSeq DEF End
<1>4. \A i \in 1 .. End : Test[i].op = "vote" => i + Test[i].skip <= End + 0
  BY <1>1 DEF Whole, Piece, End
<1>5. ASSUME NEW i \in 1 .. End, Test[i].op = "check"
      PROVE  i + 1 \in 1 .. End /\ Test[i + 1].op = "vote"
  <2>1. i # End
    BY <1>1, <1>2, <1>5 DEF Whole, Closed, End
  <2> QED
    BY <1>1, <1>2, <1>5, <2>1 DEF Whole, Piece, End
<1> QED
  BY <1>2, <1>3, <1>4, <1>5

LEMMA MainProgramFacts ==
    ASSUME opt \in Options
    PROVE  /\ Len(MainProgram(opt)) = End + N + 1
           /\ \A i \in 1 .. End : MainProgram(opt)[i] = Test[i]
           /\ \A j \in 1 .. N - 1 : /\ MainProgram(opt)[End + j].op = "join"
                                    /\ MainProgram(opt)[End + j].thread = N - j
           /\ MainProgram(opt)[End + N].op = "reduce"
           /\ MainProgram(opt)[End + N + 1].op = "free"
<1> DEFINE AnyOp == Operation \cup [op : {"join"}, thread : Nat] \cup [op : {"reduce", "free"}]
           body == Test \o JoinAll
           most == body \o Do("reduce")
<1>1. N \in Nat \ {0} /\ End \in Nat
  BY OptionsAssumption, TestFacts DEF OptionsAssumption
<1>2. Test \in Seq(AnyOp)
  BY TestFacts, SeqMonotonic
<1>3. JoinAll \in Seq(AnyOp) /\ Len(JoinAll) = N - 1
  <2>1. \A i \in 1 .. N - 1 : [op |-> "join", thread |-> N - i] \in AnyOp
    BY <1>1
  <2>2. JoinAll \in [1 .. N - 1 -> AnyOp]
    BY <2>1 DEF JoinAll
  <2> HIDE DEF AnyOp
  <2>3. N - 1 \in Nat
    BY <1>1
  <2> QED
    BY <2>2, <2>3, SeqDef
<1>4. /\ body \in Seq(AnyOp) /\ Len(body) = End + (N - 1)
      /\ \A i \in 1 .. End + (N - 1) : body[i] = IF i <= End THEN Test[i] ELSE JoinAll[i - End]
  <2> HIDE DEF AnyOp
  <2>1. /\ body \in Seq(AnyOp) /\ Len(body) = Len(Test) + Len(JoinAll)
        /\ \A i \in 1 .. Len(Test) + Len(JoinAll) :
              body[i] = IF i <= Len(Test) THEN Test[i] ELSE JoinAll[i - Len(Test)]
    BY <1>2, <1>3, ConcatProperties
  <2> HIDE DEF body
  <2> QED
    BY <1>3, <2>1 DEF End
<1>5. ASSUME NEW name \in {"reduce", "free"}
      PROVE  Do(name) \in Seq(AnyOp) /\ Len(Do(name)) = 1 /\ Do(name)[1].op = name
  <2>1. Op(name) \in AnyOp
    BY DEF Op
  <2> HIDE DEF AnyOp
  <2> QED
    BY <2>1 DEF Do, Op
<1>6. /\ most \in Seq(AnyOp) /\ Len(most) = End + N
      /\ \A i \in 1 .. End + N :
            most[i] = IF i <= End + (N - 1) THEN body[i] ELSE Do("reduce")[i - (End + (N - 1))]
  <2> DEFINE last == Do("reduce")
  <2> HIDE DEF AnyOp, body
  <2>1. last \in Seq(AnyOp) /\ Len(last) = 1 /\ body \in Seq(AnyOp)
    BY <1>4, <1>5
  <2>4. most = body \o last
    OBVIOUS
  <2> HIDE DEF last, most
  <2>2. /\ most \in Seq(AnyOp) /\ Len(most) = Len(body) + Len(last)
        /\ \A i \in 1 .. Len(body) + Len(last) :
              most[i] = IF i <= Len(body) THEN body[i] ELSE last[i - Len(body)]
    BY <2>1, <2>4, ConcatProperties
  <2>3. Len(body) = End + (N - 1) /\ Len(body) + Len(last) = End + N
    BY <1>1, <1>4, <2>1
  <2> QED
    BY <2>2, <2>3 DEF last
<1> HIDE DEF body
<1>10. /\ Len(MainProgram(opt)) = End + N + 1
       /\ \A i \in 1 .. End + N : MainProgram(opt)[i] = most[i]
       /\ MainProgram(opt)[End + N + 1] = Do("free")[1]
  <2> HIDE DEF AnyOp, most
  <2>1. MainProgram(opt) = most \o Do("free")
    BY DEF MainProgram, Test, body, most
  <2> DEFINE last == Do("free")
  <2>2. last \in Seq(AnyOp) /\ Len(last) = 1 /\ most \in Seq(AnyOp) /\ Len(most) = End + N
    BY <1>5, <1>6
  <2>4. MainProgram(opt) = most \o last
    BY <2>1
  <2> HIDE DEF last, Test
  <2> DEFINE all == most \o last
  <2>3. /\ Len(all) = Len(most) + Len(last)
        /\ \A i \in 1 .. Len(most) + Len(last) :
              all[i] = IF i <= Len(most) THEN most[i] ELSE last[i - Len(most)]
    BY <2>2, ConcatProperties
  <2>5. MainProgram(opt) = all
    BY <2>4
  <2> HIDE DEF all
  <2> DEFINE e == End + N
  <2>6. e \in Nat /\ Len(most) = e /\ Len(last) = 1
    BY <1>1, <2>2
  <2> HIDE DEF e
  <2>7. /\ Len(all) = e + 1
        /\ \A i \in 1 .. e : all[i] = most[i]
        /\ all[e + 1] = last[1]
    <3>1. e + 1 \in 1 .. e + 1 /\ ~(e + 1 <= e) /\ (e + 1) - e = 1
      BY <2>6
    <3>2. \A i \in 1 .. e : i \in 1 .. e + 1 /\ i <= e
      BY <2>6
    <3> QED
      BY <2>3, <2>6, <3>1, <3>2
  <2> QED
    BY <2>5, <2>7 DEF last, e
<1> HIDE DEF most
<1>7. \A i \in 1 .. End : MainProgram(opt)[i] = Test[i]
  BY <1>1, <1>4, <1>6, <1>10
<1>8. ASSUME NEW j \in 1 .. N - 1
      PROVE  /\ MainProgram(opt)[End + j].op = "join"
             /\ MainProgram(opt)[End + j].thread = N - j
  <2> DEFINE i == End + j
  <2>1. i \in 1 .. End + (N - 1) /\ i > End /\ i - End = j /\ i \in 1 .. End + N
    BY <1>1
  <2> HIDE DEF i
  <2>2. MainProgram(opt)[i] = JoinAll[j]
    <3>1. body[i] = JoinAll[i - End]
      BY <1>1, <1>4, <2>1
    <3>2. MainProgram(opt)[i] = body[i]
      BY <1>1, <1>6, <1>10, <2>1
    <3> QED
      BY <2>1, <3>1, <3>2
  <2>3. JoinAll[j].op = "join" /\ JoinAll[j].thread = N - j
    BY DEF JoinAll
  <2> QED
    BY <2>2, <2>3 DEF i
<1>9. MainProgram(opt)[End + N].op = "reduce"
  <2> DEFINE i == End + N
  <2>1. i \in 1 .. End + N /\ ~(i <= End + (N - 1)) /\ i - (End + (N - 1)) = 1
    BY <1>1
  <2> HIDE DEF i
  <2>2. MainProgram(opt)[i] = Do("reduce")[1]
    BY <1>6, <1>10, <2>1
  <2> QED
    BY <1>5, <2>2 DEF i
<1> QED
  BY <1>5, <1>7, <1>8, <1>9, <1>10

\* Where a thread stands, and what it does there.
LEMMA HereFacts ==
    ASSUME opt \in Options, NEW m \in Members, pc[m] \in Nat \ {0}
    PROVE  /\ pc[m] <= End => /\ Here(m) = Test[pc[m]] /\ pc[m] <= Len(Code(m)) /\ pc[m] \in 1 .. End
                              /\ Here(m).op \in TestNames
           /\ m[2] # 0 => Len(Code(m)) = End
           /\ m[2] = 0 => /\ Len(Code(m)) = End + N + 1
                          /\ pc[m] > End /\ pc[m] < End + N =>
                                /\ Here(m).op = "join" /\ Here(m).thread = N - (pc[m] - End)
                                /\ pc[m] - End \in 1 .. N - 1
                          /\ pc[m] = End + N => Here(m).op = "reduce"
                          /\ pc[m] = End + N + 1 => Here(m).op = "free"
<1>1. N \in Nat \ {0} /\ End \in Nat /\ m[2] \in Threads
  BY OptionsAssumption, TestFacts DEF OptionsAssumption, Members
<1>2. Code(m) = IF m[2] = 0 THEN MainProgram(opt) ELSE Test
  BY <1>1 DEF Code, Programs, Program, Test
<1>3. pc[m] <= End => pc[m] \in 1 .. End
  BY <1>1
<1>4. CASE m[2] = 0
  <2>1. Code(m) = MainProgram(opt) /\ Len(Code(m)) = End + N + 1
    BY <1>2, <1>4, MainProgramFacts
  <2>2. pc[m] <= End => Here(m) = Test[pc[m]] /\ Here(m).op \in TestNames
    BY <1>3, <2>1, MainProgramFacts, TestFacts DEF Here
  <2>3. ASSUME pc[m] > End, pc[m] < End + N
        PROVE  /\ Here(m).op = "join" /\ Here(m).thread = N - (pc[m] - End)
               /\ pc[m] - End \in 1 .. N - 1
    <3> DEFINE j == pc[m] - End
    <3>1. j \in 1 .. N - 1 /\ End + j = pc[m]
      BY <1>1, <2>3
    <3> HIDE DEF j
    <3>2. MainProgram(opt)[End + j].op = "join" /\ MainProgram(opt)[End + j].thread = N - j
      BY <3>1, MainProgramFacts
    <3> QED
      BY <2>1, <3>1, <3>2 DEF Here, j
  <2>4. /\ pc[m] = End + N => Here(m).op = "reduce"
        /\ pc[m] = End + N + 1 => Here(m).op = "free"
    BY <2>1, MainProgramFacts DEF Here
  <2> QED
    BY <1>1, <1>3, <1>4, <2>1, <2>2, <2>3, <2>4
<1>5. CASE m[2] # 0
  BY <1>1, <1>2, <1>3, <1>5, TestFacts DEF Here, End
<1> QED
  BY <1>4, <1>5

-----------------------------------------------------------------------------
(* The invariant.                                                          *)

Statuses == {"run", "done", "failed"}
Verdicts == {"success", "numResults"}
Failures == {"error", "terminate"}

\* The main thread is past the join of thread t.
Joined(p, t) == pc[MainOf(p)] > End + N - t

\* Control: threads stay within their program; the main thread joins those that
\* are done, reduces last and ends the process.
Control ==
    /\ opt \in Options
    /\ pc \in [Members -> Nat \ {0}]
    /\ status \in [Members -> Statuses]
    /\ exit \in [Procs -> {"none"} \cup Verdicts \cup Failures]
    /\ \A m \in Members :
          /\ pc[m] <= IF m[2] = 0 THEN End + N + 1 ELSE End + 1
          /\ status[m] = "done" => pc[m] = End + 1
    /\ \A p \in Procs :
          /\ status[MainOf(p)] = "run"
          /\ \A t \in Threads \ {0} : Joined(p, t) => status[<<p, t>>] = "done"
\* The reduction of the errors: nobody is behind it before all take part, and
\* only behind it is there a verdict.  Who fails there has failed to free.
Behind(p) == pc[MainOf(p)] = End + N + 1
Reducing ==
    /\ rEntered \in [Procs -> {0, 1}] /\ rLeft \in [Procs -> {0, 1}]
    /\ \A p \in Procs :
          /\ rLeft[p] = 1 <=> Behind(p)
          /\ rEntered[p] = 1 => \/ Behind(p)
                                \/ pc[MainOf(p)] = End + N /\ exit[p] = "none"
          /\ Behind(p) => \A q \in Procs : rEntered[q] = 1
          /\ p \in unfreed <=> Behind(p) /\ exit[p] \in Failures
          /\ exit[p] \in Verdicts => Behind(p)
\* A call of the test that failed has stopped its thread or its process.
FaultShows ==
    /\ faults \in Nat
    /\ faults > 0 => \/ \E m \in Members : status[m] = "failed"
                     \/ \E p \in Procs : exit[p] \in Failures /\ p \notin unfreed

\* A thread inside a call stands at it, and has brought as many votes as calls.
Own(m) ==
    /\ bLeft[m] \in Nat /\ bEntered[m] \in {bLeft[m], bLeft[m] + 1}
    /\ aLeft[m] \in Nat /\ aEntered[m] \in {aLeft[m], aLeft[m] + 1}
    /\ B!Inside(m) => pc[m] <= End /\ Test[pc[m]].op = "barrier"
    /\ A!Inside(m) => pc[m] <= End /\ Test[pc[m]].op \in {"allreduce", "vote"}
    /\ votes[m] \in Seq({0, 1}) /\ Len(votes[m]) = aEntered[m]
Calls ==
    /\ {bEntered, bLeft, aEntered, aLeft} \subseteq [Members -> Nat]
    /\ DOMAIN votes = Members
    /\ \A m \in Members : Own(m)

\* Two threads have made the same calls, or one is a call ahead of another that
\* is still inside it; no call is left out between the places they stand at.
Meets(T, i) == i \in 1 .. Len(T) /\ T[i].op \in {"barrier", "allreduce", "vote"}
Same(T, i, j) == \A x \in Nat : (i <= x /\ x < j) \/ (j <= x /\ x < i) => ~Meets(T, x)
Beyond(T, i, total) == i + 1 + IF T[i].op = "vote" /\ total # 0 THEN T[i].skip ELSE 0

Level(m, o) == bLeft[m] = bLeft[o] /\ aLeft[m] = aLeft[o] /\ Same(Test, pc[m], pc[o])
AheadByBarrier(m, o) ==
    /\ B!Inside(o) /\ bLeft[m] = bLeft[o] + 1 /\ aLeft[m] = aLeft[o]
    /\ Same(Test, pc[m], pc[o] + 1)
AheadByAllreduce(m, o) ==
    /\ A!Inside(o) /\ aLeft[m] = aLeft[o] + 1 /\ bLeft[m] = bLeft[o]
    /\ Same(Test, pc[m], Beyond(Test, pc[o], TotalWrong(o)))
Pair(m, o) == \/ Level(m, o)
              \/ AheadByBarrier(m, o) \/ AheadByAllreduce(m, o)
              \/ AheadByBarrier(o, m) \/ AheadByAllreduce(o, m)
Together == \A m, o \in Members : Pair(m, o)

\* reportErrors tells which repetitions count.
Reporting ==
    /\ DOMAIN buf = Members /\ reportErrors \in [Members -> Nat]
    /\ opt.datacheck > 0 => \A m \in Members :
          /\ opt.inPlace => reportErrors[m] = opt.datacheck
          /\ Reports(m) <=> Counts(buf[m])
\* The errors tell what the checks have found, the main thread's what they have
\* found on the threads it has joined.
Found(m) == \E rep \in bad[m] : Counts(rep)
Tally ==
    /\ wrong \in [Members -> {0, 1}] /\ errors \in [Members -> Nat]
    /\ DOMAIN bad = Members
    /\ opt.datacheck > 0 => \A m \in Members :
          /\ Found(m) => errors[m] > 0
          /\ errors[m] > 0 => \E o \in Members : Found(o)
    /\ \A p \in Procs : \A t \in Threads \ {0} :
          Joined(p, t) /\ errors[<<p, t>>] > 0 => errors[MainOf(p)] > 0
\* A verdict is about the errors of all main threads and the own bandwidth.
Judged ==
    \A p \in Procs :
        /\ exit[p] = "success" => p \notin slow /\ \A q \in Procs : errors[MainOf(q)] = 0
        /\ exit[p] = "numResults" => p \in slow \/ \E q \in Procs : errors[MainOf(q)] > 0
        /\ p \in slow => exit[p] = "numResults"

-----------------------------------------------------------------------------
(* The steps, by what they do to the state the invariant is about.         *)

Idle == UNCHANGED <<opt, pc, status, exit, result, barriers, slow, faults, unfreed>>

\* Operations at which nobody waits and nothing is counted.
Local == TestNames \ {"barrier", "allreduce", "vote", "check"}
MovesOn(m) ==
    /\ \E name \in Local : At(m, name)
    /\ Advance(m)
    /\ UNCHANGED <<opt, status, exit, result, barriers, slow, faults, unfreed>>
LeaveAllreduce(m) == LeaveTime(m) \/ LeaveVote(m)
Stops(m) ==
    /\ \E name \in Checked : At(m, name)
    /\ GiveUp(m)
    /\ faults' \in {faults, faults + 1}
    /\ UNCHANGED <<opt, pc, result, barriers, slow, unfreed>>
Steps(m) == \/ MovesOn(m) \/ Check(m) \/ EnterBarrier(m) \/ LeaveBarrier(m)
            \/ EnterAllreduce(m) \/ LeaveAllreduce(m) \/ Return(m) \/ Stops(m)

LEMMA LocalSteps ==
    ASSUME NEW m \in Members
    PROVE  /\ DoInit(m) \/ Launch(m) \/ GroupStart(m) \/ GroupEnd(m) \/ Capture(m)
                => MovesOn(m)
           /\ EndCapture(m) \/ GraphLaunch(m) \/ Sync(m) \/ StartClock(m) \/ StopClock(m)
                => MovesOn(m)
<1>1. Local = {"launch", "sync", "groupStart", "groupEnd", "capture", "endCapture",
               "graph", "startClock", "stopClock", "init"}
  BY DEF Local, TestNames, PlainNames
<1>2. DoInit(m) => MovesOn(m)
  BY <1>1 DEF DoInit, MovesOn, mishaps
<1>3. Launch(m) => MovesOn(m)
  BY <1>1 DEF Launch, MovesOn, mishaps
<1>4. GroupStart(m) => MovesOn(m)
  BY <1>1 DEF GroupStart, MovesOn, mishaps
<1>5. GroupEnd(m) => MovesOn(m)
  BY <1>1 DEF GroupEnd, MovesOn, mishaps
<1>6. Capture(m) => MovesOn(m)
  BY <1>1 DEF Capture, MovesOn, mishaps
<1>7. EndCapture(m) => MovesOn(m)
  BY <1>1 DEF EndCapture, MovesOn, mishaps
<1>8. GraphLaunch(m) => MovesOn(m)
  BY <1>1 DEF GraphLaunch, MovesOn, mishaps
<1>9. Sync(m) => MovesOn(m)
  BY <1>1 DEF Sync, MovesOn, mishaps
<1>10. StartClock(m) => MovesOn(m)
  BY <1>1 DEF StartClock, MovesOn, mishaps
<1>11. StopClock(m) => MovesOn(m)
  BY <1>1 DEF StopClock, MovesOn, mishaps
<1> QED
  BY <1>2, <1>3, <1>4, <1>5, <1>6, <1>7, <1>8, <1>9, <1>10, <1>11

LEMMA StepCases ==
    ASSUME [Next]_vars
    PROVE  \/ Idle
           \/ \E m \in Members : Steps(m)
           \/ \E p \in Procs : \/ Join(p) \/ EnterReduce(p) \/ LeaveReduce(p)
                               \/ FailToFree(p) \/ Exit(p)
<1>1. CASE UNCHANGED vars \/ Done
  BY <1>1 DEF vars, Done, Idle, result, barriers, mishaps
<1>2. CASE RunCollective
  BY <1>2 DEF RunCollective, Idle, mishaps
<1>3. ASSUME NEW m \in Members, FinishCollective(m) PROVE Idle
  BY <1>3 DEF FinishCollective, Idle
<1>4. ASSUME NEW m \in Members, Fail(m) PROVE Steps(m)
  BY <1>4 DEF Fail, Stops, Steps
<1>5. ASSUME NEW m \in Members, ThreadStep(m) PROVE Steps(m)
  <2>1. TimeOut(m) => Stops(m)
    BY DEF TimeOut, Stops, Checked, mishaps
  <2> QED
    BY <1>5, <2>1, LocalSteps DEF ThreadStep, Steps, LeaveAllreduce
<1> QED
  BY <1>1, <1>2, <1>3, <1>4, <1>5 DEF Next, Finish

-----------------------------------------------------------------------------
(* Control.                                                                *)

LEMMA NFacts == N \in Nat \ {0} /\ Threads = 0 .. N - 1 /\ IsFiniteSet(Procs)
  BY OptionsAssumption DEF OptionsAssumption, Threads

LEMMA MemberFacts ==
    /\ \A p \in Procs : MainOf(p) \in Members /\ MainOf(p)[1] = p /\ MainOf(p)[2] = 0
    /\ \A p \in Procs, t \in Threads : <<p, t>> \in Members
    /\ \A m \in Members : /\ m[1] \in Procs /\ m[2] \in Threads /\ m = <<m[1], m[2]>>
                          /\ m[2] = 0 => m = MainOf(m[1])
  BY NFacts DEF Members, MainOf

LEMMA SameTest == opt' = opt => Test' = Test /\ End' = End
  BY DEF Test, End

\* An operation of the test is executed within the test.
LEMMA AtFacts ==
    ASSUME Control, NEW m \in Members, NEW name \in TestNames, At(m, name)
    PROVE  /\ pc[m] \in 1 .. End /\ End \in Nat
           /\ Test[pc[m]].op = name /\ Here(m) = Test[pc[m]]
           /\ status[m] = "run" /\ exit[m[1]] = "none"
<1>1. opt \in Options /\ pc[m] \in Nat \ {0} /\ pc[m] <= IF m[2] = 0 THEN End + N + 1 ELSE End + 1
  BY DEF Control
<1>2. End \in Nat /\ N \in Nat \ {0}
  BY <1>1, TestFacts, NFacts
<1>3. Running(m) /\ pc[m] <= Len(Code(m)) /\ Here(m).op = name
  BY DEF At
<1>4. name # "join" /\ name # "reduce" /\ name # "free"
  BY DEF TestNames, PlainNames
<1>5. pc[m] <= End
  BY <1>1, <1>2, <1>3, <1>4, HereFacts
<1> QED
  BY <1>1, <1>2, <1>3, <1>5, HereFacts DEF Running

\* A thread that stays within the test keeps the invariant.
LEMMA ControlWithin ==
    ASSUME Control, NEW m \in Members, status[m] = "run", pc[m] <= End,
           NEW to \in Nat \ {0}, to <= End + 1, Goto(m, to), UNCHANGED <<opt, status, exit>>
    PROVE  Control'
<1>1. Test' = Test /\ End' = End
  BY SameTest
<1>2. pc' = [pc EXCEPT ![m] = to] /\ pc \in [Members -> Nat \ {0}]
  BY DEF Goto, Control
<1>3. pc' \in [Members -> Nat \ {0}] /\ \A o \in Members : pc'[o] = IF o = m THEN to ELSE pc[o]
  BY <1>2
<1>4. N \in Nat \ {0} /\ End \in Nat
  BY NFacts, TestFacts DEF Control
<1>5. ASSUME NEW o \in Members
      PROVE  /\ pc'[o] <= IF o[2] = 0 THEN End + N + 1 ELSE End + 1
             /\ status[o] = "done" => pc'[o] = End + 1
  BY <1>3, <1>4 DEF Control
<1>6. ASSUME NEW p \in Procs, NEW t \in Threads \ {0}, Joined(p, t)' PROVE status[<<p, t>>] = "done"
  <2>1. pc'[MainOf(p)] > End + N - t
    BY <1>1, <1>6 DEF Joined, MainOf
  <2>2. t \in 1 .. N - 1
    BY NFacts
  <2>3. MainOf(p) # m
    BY <1>3, <1>4, <2>1, <2>2
  <2>4. Joined(p, t)
    BY <1>3, <2>1, <2>3, MemberFacts DEF Joined
  <2> QED
    BY <2>4 DEF Control
<1> QED
  BY <1>1, <1>3, <1>5, <1>6 DEF Control, MainOf

\* Only these operations lead out of the test; each has its place behind it.
LEMMA JoinPlace ==
    ASSUME Control, NEW p \in Procs, At(MainOf(p), "join")
    PROVE  LET m == MainOf(p)
               t == Here(m).thread
           IN  /\ pc[m] > End /\ pc[m] < End + N /\ End \in Nat /\ exit[p] = "none"
               /\ t \in Threads \ {0} /\ t = N - (pc[m] - End)
<1> DEFINE m == MainOf(p)
<1>1. /\ opt \in Options /\ m \in Members /\ m[2] = 0 /\ m[1] = p
      /\ pc[m] \in Nat \ {0} /\ pc[m] <= End + N + 1
  BY MemberFacts DEF Control
<1>2. End \in Nat /\ N \in Nat \ {0}
  BY <1>1, TestFacts, NFacts
<1>3. Here(m).op = "join" /\ exit[p] = "none"
  BY <1>1 DEF At, Running
<1>4. "join" \notin TestNames
  BY DEF TestNames, PlainNames
<1> HIDE DEF m
<1>5. pc[m] > End /\ pc[m] < End + N
  <2>1. pc[m] > End
    BY <1>1, <1>2, <1>3, <1>4, HereFacts
  <2>2. pc[m] # End + N /\ pc[m] # End + N + 1
    BY <1>1, <1>3, HereFacts
  <2> QED
    BY <1>1, <1>2, <2>1, <2>2
<1>6. Here(m).thread = N - (pc[m] - End) /\ pc[m] - End \in 1 .. N - 1
  BY <1>1, <1>5, HereFacts
<1> QED
  BY <1>2, <1>3, <1>5, <1>6, NFacts DEF m

LEMMA ReducePlace ==
    ASSUME Control, NEW p \in Procs, At(MainOf(p), "reduce")
    PROVE  pc[MainOf(p)] = End + N /\ exit[p] = "none"
<1> DEFINE m == MainOf(p)
<1>1. /\ opt \in Options /\ m \in Members /\ m[2] = 0 /\ m[1] = p
      /\ pc[m] \in Nat \ {0} /\ pc[m] <= End + N + 1
  BY MemberFacts DEF Control
<1>2. End \in Nat /\ N \in Nat \ {0}
  BY <1>1, TestFacts, NFacts
<1>3. Here(m).op = "reduce" /\ exit[p] = "none"
  BY <1>1 DEF At, Running
<1>4. "reduce" \notin TestNames
  BY DEF TestNames, PlainNames
<1> HIDE DEF m
<1> QED
  BY <1>1, <1>2, <1>3, <1>4, HereFacts DEF m

LEMMA FreePlace ==
    ASSUME Control, NEW p \in Procs, At(MainOf(p), "free")
    PROVE  Behind(p) /\ exit[p] = "none"
<1> DEFINE m == MainOf(p)
<1>1. /\ opt \in Options /\ m \in Members /\ m[2] = 0 /\ m[1] = p
      /\ pc[m] \in Nat \ {0} /\ pc[m] <= End + N + 1
  BY MemberFacts DEF Control
<1>2. End \in Nat /\ N \in Nat \ {0}
  BY <1>1, TestFacts, NFacts
<1>3. Here(m).op = "free" /\ exit[p] = "none"
  BY <1>1 DEF At, Running
<1>4. "free" \notin TestNames
  BY DEF TestNames, PlainNames
<1>5. Behind(p) <=> pc[m] = End + N + 1
  BY DEF Behind
<1> HIDE DEF m
<1> QED
  BY <1>1, <1>2, <1>3, <1>4, <1>5, HereFacts

\* What a vote decides, or a time, stays within the test.
LEMMA LeaveAllreducePlace ==
    ASSUME Control, NEW m \in Members, LeaveAllreduce(m)
    PROVE  /\ status[m] = "run" /\ pc[m] \in 1 .. End
           /\ Test[pc[m]].op \in {"allreduce", "vote"}
           /\ Beyond(Test, pc[m], TotalWrong(m)) \in Nat \ {0}
           /\ Beyond(Test, pc[m], TotalWrong(m)) <= End + 1
           /\ Goto(m, Beyond(Test, pc[m], TotalWrong(m)))
           /\ A!Leave(m)
           /\ UNCHANGED <<opt, status, exit, result, bEntered, bLeft, rEntered, rLeft, slow, mishaps>>
<1>1. CASE LeaveTime(m)
  <2>1. At(m, "allreduce") /\ Goto(m, pc[m] + 1)
    BY <1>1 DEF LeaveTime, Advance
  <2>2. "allreduce" \in TestNames
    BY DEF TestNames, PlainNames
  <2>3. /\ pc[m] \in 1 .. End /\ End \in Nat /\ Test[pc[m]].op = "allreduce" /\ status[m] = "run"
    BY <2>1, <2>2, AtFacts
  <2>4. Beyond(Test, pc[m], TotalWrong(m)) = pc[m] + 1
    BY <2>3 DEF Beyond
  <2> QED
    BY <1>1, <2>1, <2>3, <2>4 DEF LeaveTime
<1>2. CASE LeaveVote(m)
  <2>1. /\ At(m, "vote")
        /\ Goto(m, pc[m] + 1 + IF TotalWrong(m) # 0 THEN Here(m).skip ELSE 0)
    BY <1>2 DEF LeaveVote
  <2>2. "vote" \in TestNames
    BY DEF TestNames
  <2>3. /\ pc[m] \in 1 .. End /\ End \in Nat /\ Test[pc[m]].op = "vote" /\ status[m] = "run"
        /\ Here(m) = Test[pc[m]]
    BY <2>1, <2>2, AtFacts
  <2>5. Beyond(Test, pc[m], TotalWrong(m)) = pc[m] + 1 + IF TotalWrong(m) # 0 THEN Here(m).skip ELSE 0
    BY <2>3 DEF Beyond
  <2>6. Test[pc[m]].skip \in Nat /\ pc[m] + Test[pc[m]].skip <= End
    BY <2>3, TestFacts DEF Control
  <2>7. Beyond(Test, pc[m], TotalWrong(m)) \in Nat \ {0} /\ Beyond(Test, pc[m], TotalWrong(m)) <= End + 1
    <3> DEFINE k == Test[pc[m]].skip
               out == TotalWrong(m)
    <3>1. Beyond(Test, pc[m], TotalWrong(m)) = pc[m] + 1 + IF out # 0 THEN k ELSE 0
      BY <2>3 DEF Beyond
    <3>2. k \in Nat /\ pc[m] + k <= End
      BY <2>6
    <3> HIDE DEF k, out
    <3> QED
      BY <2>3, <3>1, <3>2
  <2> QED
    BY <1>2, <2>1, <2>3, <2>5, <2>7 DEF LeaveVote
<1> QED
  BY <1>1, <1>2 DEF LeaveAllreduce

\* Giving up changes how a thread or its process stands, nothing else.
LEMMA StopsPlace ==
    ASSUME Control, NEW m \in Members, Stops(m)
    PROVE  /\ pc[m] \in 1 .. End /\ status[m] = "run" /\ exit[m[1]] = "none"
           /\ \/ /\ m[2] = 0 /\ status' = status
                 /\ \E how \in Failures : exit' = [exit EXCEPT ![m[1]] = how]
              \/ m[2] # 0 /\ exit' = exit /\ status' = [status EXCEPT ![m] = "failed"]
<1>1. Checked \subseteq TestNames
  BY DEF Checked, TestNames, PlainNames
<1>2. pc[m] \in 1 .. End /\ status[m] = "run" /\ exit[m[1]] = "none"
  BY <1>1, AtFacts DEF Stops
<1>3. GiveUp(m)
  BY DEF Stops
<1>4. EarlyReturn(m[1], Threads \ {0}) \in Failures
  BY DEF EarlyReturn, Failures
<1> QED
  BY <1>2, <1>3, <1>4 DEF GiveUp

LEMMA ControlStep ==
    ASSUME Control, [Next]_vars
    PROVE  Control'
<1>1. N \in Nat \ {0} /\ End \in Nat /\ pc \in [Members -> Nat \ {0}]
  BY NFacts, TestFacts DEF Control
<1>2. CASE Idle
  BY <1>2, SameTest DEF Idle, Control, Joined
<1>3. ASSUME NEW m \in Members, Steps(m) PROVE Control'
  <2>1. CASE MovesOn(m)
    <3>1. PICK name \in Local : At(m, name)
      BY <2>1 DEF MovesOn
    <3>2. pc[m] \in 1 .. End /\ status[m] = "run"
      BY <3>1, AtFacts DEF Local
    <3> QED
      BY <1>1, <2>1, <3>2, ControlWithin DEF MovesOn, Advance
  <2>2. CASE Check(m)
    <3>1. At(m, "check") /\ "check" \in TestNames
      BY <2>2 DEF Check, TestNames, PlainNames
    <3>2. pc[m] \in 1 .. End /\ status[m] = "run"
      BY <3>1, AtFacts
    <3> QED
      BY <1>1, <2>2, <3>2, ControlWithin DEF Check, Advance
  <2>3. CASE EnterBarrier(m) \/ EnterAllreduce(m)
    BY <2>3, SameTest DEF EnterBarrier, EnterAllreduce, Control, Joined
  <2>4. CASE LeaveBarrier(m)
    <3>1. At(m, "barrier") /\ "barrier" \in TestNames
      BY <2>4 DEF LeaveBarrier, TestNames, PlainNames
    <3>2. pc[m] \in 1 .. End /\ status[m] = "run"
      BY <3>1, AtFacts
    <3> QED
      BY <1>1, <2>4, <3>2, ControlWithin DEF LeaveBarrier, Advance
  <2>5. CASE LeaveAllreduce(m)
    <3>1. /\ status[m] = "run" /\ pc[m] \in 1 .. End
          /\ Beyond(Test, pc[m], TotalWrong(m)) \in Nat \ {0} /\ Beyond(Test, pc[m], TotalWrong(m)) <= End + 1
          /\ Goto(m, Beyond(Test, pc[m], TotalWrong(m))) /\ UNCHANGED <<opt, status, exit>>
      BY <2>5, LeaveAllreducePlace
    <3> QED
      BY <1>1, <3>1, ControlWithin
  <2>6. CASE Return(m)
    <3>1. /\ status[m] = "run" /\ pc[m] > Len(Code(m)) /\ m[2] # 0
          /\ status' = [status EXCEPT ![m] = "done"] /\ UNCHANGED <<opt, pc, exit>>
      BY <2>6 DEF Return, Running
    <3>2. pc[m] = End + 1
      <4>1. Len(Code(m)) = End /\ pc[m] <= End + 1
        BY <1>1, <3>1, HereFacts DEF Control
      <4> QED
        BY <1>1, <3>1, <4>1
    <3>3. Test' = Test /\ End' = End
      BY <3>1, SameTest
    <3>4. status' \in [Members -> Statuses]
      BY <3>1 DEF Control, Statuses
    <3>5. \A o \in Members : status'[o] = IF o = m THEN "done" ELSE status[o]
      BY <3>1 DEF Control
    <3>6. \A p \in Procs : status'[MainOf(p)] = "run"
      BY <3>1, <3>5, MemberFacts DEF Control
    <3>7. \A p \in Procs, t \in Threads \ {0} : Joined(p, t)' => status'[<<p, t>>] = "done"
      BY <3>1, <3>3, <3>5, MemberFacts DEF Control, Joined, MainOf
    <3> QED
      BY <3>1, <3>2, <3>3, <3>4, <3>5, <3>6, <3>7 DEF Control, MainOf
  <2>7. CASE Stops(m)
    <3>1. /\ status[m] = "run" /\ exit[m[1]] = "none" /\ UNCHANGED <<opt, pc>>
          /\ \/ /\ m[2] = 0 /\ status' = status
                /\ \E how \in Failures : exit' = [exit EXCEPT ![m[1]] = how]
             \/ m[2] # 0 /\ exit' = exit /\ status' = [status EXCEPT ![m] = "failed"]
      BY <2>7, StopsPlace DEF Stops
    <3>2. Test' = Test /\ End' = End
      BY <3>1, SameTest
    <3>3. exit' \in [Procs -> {"none"} \cup Verdicts \cup Failures] /\ status' \in [Members -> Statuses]
      <4>1. m[1] \in Procs /\ exit \in [Procs -> {"none"} \cup Verdicts \cup Failures]
            /\ status \in [Members -> Statuses] /\ "failed" \in Statuses
        BY MemberFacts DEF Control, Statuses
      <4>2. exit' \in [Procs -> {"none"} \cup Verdicts \cup Failures]
        BY <3>1, <4>1
      <4>3. status' \in [Members -> Statuses]
        BY <3>1, <4>1
      <4> QED
        BY <4>2, <4>3
    <3>4. \A o \in Members : status'[o] = status[o] \/ (o = m /\ m[2] # 0 /\ status'[o] = "failed")
      BY <3>1 DEF Control
    <3>5. \A p \in Procs : status'[MainOf(p)] = "run"
      BY <3>4, MemberFacts DEF Control
    <3>6. \A o \in Members : status'[o] = "done" <=> status[o] = "done"
      BY <3>1, <3>4
    <3>7. \A p \in Procs, t \in Threads \ {0} : Joined(p, t)' => status'[<<p, t>>] = "done"
      BY <3>1, <3>2, <3>6, MemberFacts DEF Control, Joined, MainOf
    <3>8. \A o \in Members : /\ pc'[o] <= IF o[2] = 0 THEN End + N + 1 ELSE End + 1
                             /\ status'[o] = "done" => pc'[o] = End + 1
      BY <3>1, <3>6 DEF Control
    <3> QED
      BY <3>1, <3>2, <3>3, <3>5, <3>7, <3>8 DEF Control, MainOf
  <2> QED
    BY <1>3, <2>1, <2>2, <2>3, <2>4, <2>5, <2>6, <2>7 DEF Steps
<1>4. ASSUME NEW p \in Procs, Join(p) PROVE Control'
  <2> DEFINE m == MainOf(p)
             t == Here(m).thread
  <2>1. At(m, "join") /\ UNCHANGED <<opt, status>>
    BY <1>4 DEF Join
  <2>2. /\ pc[m] > End /\ pc[m] < End + N /\ exit[p] = "none"
        /\ t \in Threads \ {0} /\ t = N - (pc[m] - End) /\ m \in Members /\ m[2] = 0
    BY <2>1, JoinPlace, MemberFacts
  <2>3. \/ status[<<p, t>>] = "done" /\ pc' = [pc EXCEPT ![m] = pc[m] + 1] /\ exit' = exit
        \/ pc' = pc /\ \E how \in Failures : exit' = [exit EXCEPT ![p] = how]
    BY <1>4 DEF Join, Succeeded, Advance, Goto, EarlyReturn, Failures
  <2> HIDE DEF m, t
  <2>4. Test' = Test /\ End' = End
    BY <2>1, SameTest
  <2>5. exit' \in [Procs -> {"none"} \cup Verdicts \cup Failures] /\ pc' \in [Members -> Nat \ {0}]
    BY <1>1, <2>3 DEF Control
  <2>6. \A o \in Members : pc'[o] = pc[o] \/ (o = m /\ pc'[o] = pc[m] + 1)
    BY <1>1, <2>3
  <2>7. ASSUME NEW o \in Members
        PROVE  /\ pc'[o] <= IF o[2] = 0 THEN End + N + 1 ELSE End + 1
               /\ status[o] = "done" => pc'[o] = End + 1
    <3>1. status[m] # "done"
      BY DEF Control, m
    <3>2. CASE pc'[o] = pc[o]
      BY <3>2 DEF Control
    <3>3. CASE o = m /\ pc'[o] = pc[m] + 1
      BY <3>1, <3>3, <1>1, <2>2
    <3> QED
      BY <3>2, <3>3, <2>6
  <2>8. ASSUME NEW q \in Procs, NEW u \in Threads \ {0}, Joined(q, u)'
        PROVE  status[<<q, u>>] = "done"
    <3>1. pc'[MainOf(q)] > End + N - u
      BY <2>4, <2>8 DEF Joined, MainOf
    <3>2. u \in 1 .. N - 1 /\ MainOf(q) \in Members /\ pc[MainOf(q)] \in Nat
      BY <1>1, NFacts, MemberFacts
    <3>3. CASE pc'[MainOf(q)] = pc[MainOf(q)]
      BY <3>1, <3>3 DEF Joined, Control
    <3>4. CASE pc'[MainOf(q)] # pc[MainOf(q)]
      <4>1. MainOf(q) = m /\ pc'[m] = pc[m] + 1 /\ q = p
        BY <2>6, <3>2, <3>4, MemberFacts DEF m
      <4>2. status[<<p, t>>] = "done"
        BY <2>3, <3>4
      <4>3. u = t \/ pc[m] > End + N - u
        BY <1>1, <2>2, <3>1, <3>2, <4>1
      <4> QED
        BY <4>1, <4>2, <4>3 DEF Joined, Control, m
    <3> QED
      BY <3>3, <3>4
  <2> QED
    BY <2>1, <2>4, <2>5, <2>7, <2>8 DEF Control, MainOf
<1>5. ASSUME NEW p \in Procs, EnterReduce(p) PROVE Control'
  BY <1>5, SameTest DEF EnterReduce, Control, Joined
<1>6. ASSUME NEW p \in Procs, LeaveReduce(p) PROVE Control'
  <2> DEFINE m == MainOf(p)
  <2>1. At(m, "reduce") /\ UNCHANGED <<opt, status, exit>> /\ pc' = [pc EXCEPT ![m] = pc[m] + 1]
    BY <1>6 DEF LeaveReduce, Advance, Goto
  <2>2. pc[m] = End + N /\ m \in Members /\ m[2] = 0
    BY <2>1, ReducePlace, MemberFacts
  <2>3. Test' = Test /\ End' = End
    BY <2>1, SameTest
  <2>4. status[m] # "done"
    BY DEF Control, m
  <2> HIDE DEF m
  <2>5. /\ pc' \in [Members -> Nat \ {0}]
        /\ \A o \in Members : pc'[o] = IF o = m THEN End + N + 1 ELSE pc[o]
    BY <1>1, <2>1, <2>2
  <2>6. ASSUME NEW q \in Procs, NEW u \in Threads \ {0}, pc'[MainOf(q)] > End + N - u
        PROVE  status[<<q, u>>] = "done"
    <3>1. MainOf(q) \in Members /\ u \in 1 .. N - 1 /\ pc[MainOf(q)] \in Nat
      BY <1>1, MemberFacts, NFacts
    <3>2. pc[MainOf(q)] > End + N - u
      BY <1>1, <2>2, <2>5, <2>6, <3>1
    <3> QED
      BY <3>2 DEF Joined, Control
  <2>7. \A o \in Members : /\ pc'[o] <= IF o[2] = 0 THEN End + N + 1 ELSE End + 1
                           /\ status[o] = "done" => pc'[o] = End + 1
    BY <1>1, <2>2, <2>4, <2>5 DEF Control
  <2> QED
    BY <2>1, <2>3, <2>5, <2>6, <2>7 DEF Control, Joined, MainOf
<1>7. ASSUME NEW p \in Procs, Exit(p) \/ FailToFree(p) PROVE Control'
  <2>1. /\ UNCHANGED <<opt, pc, status>>
        /\ \E how \in Verdicts \cup Failures : exit' = [exit EXCEPT ![p] = how]
    BY <1>7 DEF Exit, FailToFree, EarlyReturn, Verdicts, Failures
  <2>2. exit' \in [Procs -> {"none"} \cup Verdicts \cup Failures]
    BY <2>1 DEF Control
  <2> QED
    BY <2>1, <2>2, SameTest DEF Control, Joined, MainOf
<1> QED
  BY <1>2, <1>3, <1>4, <1>5, <1>6, <1>7, StepCases

-----------------------------------------------------------------------------
(* Reducing the errors, and failures.                                      *)

\* A step of the test, unless it fails, leaves the reduction alone, and the main
\* threads that have come to it.
LEMMA ReducingKept ==
    ASSUME Control, NEW m \in Members, Steps(m), ~Stops(m)
    PROVE  /\ UNCHANGED <<opt, exit, rEntered, rLeft, slow, faults, unfreed>>
           /\ \A p \in Procs : \/ pc'[MainOf(p)] = pc[MainOf(p)]
                               \/ pc[MainOf(p)] \in 1 .. End /\ pc'[MainOf(p)] \in 1 .. End + 1
           /\ status' = status \/ Return(m)
<1>1. N \in Nat \ {0} /\ End \in Nat /\ pc \in [Members -> Nat \ {0}]
  BY NFacts, TestFacts DEF Control
<1>2. CASE Return(m)
  BY <1>2 DEF Return, barriers, mishaps
<1>3. CASE EnterBarrier(m) \/ EnterAllreduce(m)
  BY <1>3 DEF EnterBarrier, EnterAllreduce, mishaps
<1>4. CASE MovesOn(m) \/ Check(m) \/ LeaveBarrier(m) \/ LeaveAllreduce(m)
  <2>1. pc[m] \in 1 .. End
    <3>1. CASE LeaveAllreduce(m)
      BY <3>1, LeaveAllreducePlace
    <3>2. CASE ~LeaveAllreduce(m)
      <4>1. \E name \in TestNames : At(m, name)
        BY <1>4, <3>2 DEF MovesOn, Check, LeaveBarrier, Local, TestNames, PlainNames
      <4> QED
        BY <4>1, AtFacts
    <3> QED
      BY <3>1, <3>2
  <2>2. /\ UNCHANGED <<opt, status, exit, rEntered, rLeft, slow, faults, unfreed>>
        /\ \E to \in 1 .. End + 1 : pc' = [pc EXCEPT ![m] = to]
    <3>1. CASE MovesOn(m) \/ Check(m) \/ LeaveBarrier(m)
      <4>1. pc[m] + 1 \in 1 .. End + 1
        BY <1>1, <2>1
      <4> QED
        BY <3>1, <4>1 DEF MovesOn, Check, LeaveBarrier, Advance, Goto, barriers, mishaps
    <3>2. CASE LeaveAllreduce(m)
      <4> DEFINE to == Beyond(Test, pc[m], TotalWrong(m))
      <4>1. /\ UNCHANGED <<opt, status, exit, rEntered, rLeft, slow, mishaps>>
            /\ pc' = [pc EXCEPT ![m] = to] /\ to \in Nat \ {0} /\ to <= End + 1
        BY <3>2, LeaveAllreducePlace DEF Goto
      <4> HIDE DEF to
      <4>2. to \in 1 .. End + 1
        BY <1>1, <4>1
      <4> QED
        BY <4>1, <4>2 DEF mishaps
    <3> QED
      BY <1>4, <3>1, <3>2
  <2>3. PICK to \in 1 .. End + 1 : pc' = [pc EXCEPT ![m] = to]
    BY <2>2
  <2>4. \A o \in Members : pc'[o] = IF o = m THEN to ELSE pc[o]
    BY <1>1, <2>3
  <2> QED
    BY <2>1, <2>2, <2>4, MemberFacts
<1> QED
  BY <1>2, <1>3, <1>4 DEF Steps

\* What the invariant says of a process depends on these alone.
LEMMA ReducingSame ==
    ASSUME Reducing, UNCHANGED <<opt, exit, rEntered, rLeft, unfreed>>,
           \A p \in Procs : /\ Behind(p)' <=> Behind(p)
                            /\ pc[MainOf(p)] = End + N => pc'[MainOf(p)] = pc[MainOf(p)]
    PROVE  Reducing'
  BY SameTest DEF Reducing, MainOf

LEMMA ReducingStep ==
    ASSUME Control, Reducing, [Next]_vars
    PROVE  Reducing'
<1>1. N \in Nat \ {0} /\ End \in Nat /\ "none" \notin Verdicts /\ "none" \notin Failures
      /\ Failures \cap Verdicts = {}
  BY NFacts, TestFacts DEF Control, Verdicts, Failures
<1>2. CASE Idle
  BY <1>2, SameTest DEF Idle, Reducing, Behind, barriers, MainOf
<1>3. ASSUME NEW m \in Members, Steps(m) PROVE Reducing'
  <2>1. CASE ~Stops(m)
    <3>1. /\ UNCHANGED <<opt, exit, rEntered, rLeft, unfreed>>
          /\ \A p \in Procs : \/ pc'[MainOf(p)] = pc[MainOf(p)]
                              \/ pc[MainOf(p)] \in 1 .. End /\ pc'[MainOf(p)] \in 1 .. End + 1
      BY <1>3, <2>1, ReducingKept
    <3>2. ASSUME NEW p \in Procs
          PROVE  /\ Behind(p)' <=> Behind(p)
                 /\ pc[MainOf(p)] = End + N => pc'[MainOf(p)] = pc[MainOf(p)]
      <4>1. End' = End /\ MainOf(p)' = MainOf(p)
        BY <3>1, SameTest DEF MainOf
      <4> QED
        BY <1>1, <3>1, <4>1 DEF Behind
    <3> QED
      BY <3>1, <3>2, ReducingSame
  <2>2. CASE Stops(m)
    <3>1. /\ pc[m] \in 1 .. End /\ exit[m[1]] = "none"
          /\ UNCHANGED <<opt, pc, rEntered, rLeft, unfreed>>
          /\ \/ m[2] = 0 /\ \E how \in Failures : exit' = [exit EXCEPT ![m[1]] = how]
             \/ exit' = exit
      BY <2>2, StopsPlace DEF Stops, barriers
    <3>2. CASE exit' = exit
      BY <3>1, <3>2, SameTest DEF Reducing, Behind, MainOf
    <3>3. CASE m[2] = 0 /\ \E how \in Failures : exit' = [exit EXCEPT ![m[1]] = how]
      <4>1. m = MainOf(m[1]) /\ m[1] \in Procs
        BY <3>3, MemberFacts
      <4>2. rEntered[m[1]] # 1 /\ ~Behind(m[1])
        BY <1>1, <3>1, <4>1 DEF Reducing, Behind
      <4>3. \A p \in Procs : p # m[1] => exit'[p] = exit[p]
        BY <3>3 DEF Control
      <4>4. exit'[m[1]] \in Failures /\ m[1] \notin unfreed
        BY <3>3, <4>1, <4>2 DEF Control, Reducing
      <4> QED
        BY <1>1, <3>1, <4>1, <4>2, <4>3, <4>4, SameTest DEF Reducing, Behind, MainOf
    <3> QED
      BY <3>1, <3>2, <3>3
  <2> QED
    BY <2>1, <2>2
<1>4. ASSUME NEW p \in Procs, Join(p) PROVE Reducing'
  <2> DEFINE m == MainOf(p)
  <2>1. At(m, "join") /\ UNCHANGED <<opt, rEntered, rLeft, unfreed>>
    BY <1>4 DEF Join, barriers, mishaps
  <2>2. pc[m] > End /\ pc[m] < End + N /\ exit[p] = "none" /\ m \in Members
    BY <2>1, JoinPlace, MemberFacts
  <2>3. \/ pc' = [pc EXCEPT ![m] = pc[m] + 1] /\ exit' = exit
        \/ pc' = pc /\ \E how \in Failures : exit' = [exit EXCEPT ![p] = how]
    BY <1>4 DEF Join, Succeeded, Advance, Goto, EarlyReturn, Failures
  <2> HIDE DEF m
  <2>4. rEntered[p] # 1 /\ ~Behind(p) /\ p \notin unfreed
    BY <1>1, <2>2 DEF Reducing, Behind, Control, m
  <2>5. \A q \in Procs : q # p => exit'[q] = exit[q] /\ pc'[MainOf(q)] = pc[MainOf(q)]
    BY <2>3, MemberFacts DEF Control, m
  <2>6. exit'[p] = "none" \/ exit'[p] \in Failures
    BY <2>2, <2>3 DEF Control
  <2>7. pc'[m] < End + N + 1
    BY <1>1, <2>2, <2>3 DEF Control
  <2>8. ~Behind(p)' /\ \A q \in Procs : q # p => (Behind(q)' <=> Behind(q))
    BY <1>1, <2>1, <2>5, <2>7, SameTest DEF Behind, MainOf, m
  <2> QED
    BY <1>1, <2>1, <2>4, <2>5, <2>6, <2>8, SameTest DEF Reducing, MainOf
<1>5. ASSUME NEW p \in Procs, EnterReduce(p) PROVE Reducing'
  <2>1. /\ At(MainOf(p), "reduce") /\ rEntered[p] = rLeft[p]
        /\ rEntered' = [rEntered EXCEPT ![p] = @ + 1] /\ UNCHANGED <<opt, pc, exit, rLeft, unfreed>>
    BY <1>5 DEF EnterReduce, R!Enter, R!Inside, mishaps
  <2>2. pc[MainOf(p)] = End + N /\ exit[p] = "none" /\ ~Behind(p)
    BY <1>1, <2>1, ReducePlace DEF Behind
  <2>3. rEntered[p] = 0
    BY <2>1, <2>2 DEF Reducing
  <2>4. rEntered' \in [Procs -> {0, 1}] /\ \A q \in Procs : rEntered'[q] = IF q = p THEN 1 ELSE rEntered[q]
    BY <2>1, <2>3 DEF Reducing
  <2> QED
    BY <2>1, <2>2, <2>4, SameTest DEF Reducing, Behind, MainOf
<1>6. ASSUME NEW p \in Procs, LeaveReduce(p) PROVE Reducing'
  <2> DEFINE m == MainOf(p)
  <2>1. /\ rEntered[p] # rLeft[p] /\ \A q \in Procs : rEntered[q] >= rEntered[p]
        /\ rLeft' = [rLeft EXCEPT ![p] = rEntered[p]]
        /\ UNCHANGED <<opt, exit, rEntered, unfreed>>
        /\ At(m, "reduce") /\ pc' = [pc EXCEPT ![m] = pc[m] + 1]
    BY <1>6 DEF LeaveReduce, R!Leave, R!Inside, Advance, Goto, mishaps
  <2>2. exit[p] = "none" /\ pc[m] = End + N /\ m \in Members /\ ~Behind(p)
    BY <1>1, <2>1, ReducePlace, MemberFacts DEF Behind
  <2>3. rLeft[p] = 0 /\ rEntered[p] = 1 /\ p \notin unfreed
    BY <2>1, <2>2 DEF Reducing
  <2>4. \A q \in Procs : rEntered[q] = 1
    BY <2>1, <2>3 DEF Reducing
  <2> HIDE DEF m
  <2>5. pc'[m] = End + N + 1 /\ \A q \in Procs : q # p => pc'[MainOf(q)] = pc[MainOf(q)]
    BY <2>1, <2>2, MemberFacts DEF Control, m
  <2>6. Behind(p)' /\ \A q \in Procs : q # p => (Behind(q)' <=> Behind(q))
    BY <2>1, <2>5, SameTest DEF Behind, MainOf, m
  <2>7. /\ rLeft' \in [Procs -> {0, 1}] /\ rLeft'[p] = 1
        /\ \A q \in Procs : q # p => rLeft'[q] = rLeft[q]
    BY <2>1, <2>3 DEF Reducing
  <2> QED
    BY <1>1, <2>1, <2>2, <2>3, <2>4, <2>5, <2>6, <2>7, SameTest DEF Reducing, MainOf
<1>7. ASSUME NEW p \in Procs, Exit(p) PROVE Reducing'
  <2>1. /\ At(MainOf(p), "free") /\ UNCHANGED <<opt, pc, rEntered, rLeft, unfreed>>
        /\ \E how \in Verdicts : exit' = [exit EXCEPT ![p] = how]
    BY <1>7 DEF Exit, barriers, mishaps, Verdicts
  <2>2. Behind(p) /\ exit[p] = "none"
    BY <2>1, FreePlace
  <2>3. exit'[p] \in Verdicts /\ \A q \in Procs : q # p => exit'[q] = exit[q]
    BY <2>1 DEF Control
  <2> QED
    BY <1>1, <2>1, <2>2, <2>3, SameTest DEF Reducing, Behind, MainOf
<1>8. ASSUME NEW p \in Procs, FailToFree(p) PROVE Reducing'
  <2>1. /\ At(MainOf(p), "free") /\ UNCHANGED <<opt, pc, rEntered, rLeft>>
        /\ unfreed' = unfreed \cup {p}
        /\ \E how \in Failures : exit' = [exit EXCEPT ![p] = how]
    BY <1>8 DEF FailToFree, EarlyReturn, barriers, Failures
  <2>2. Behind(p) /\ exit[p] = "none"
    BY <2>1, FreePlace
  <2>3. exit'[p] \in Failures /\ \A q \in Procs : q # p => exit'[q] = exit[q]
    BY <2>1 DEF Control
  <2> QED
    BY <1>1, <2>1, <2>2, <2>3, SameTest DEF Reducing, Behind, MainOf
<1> QED
  BY <1>2, <1>3, <1>4, <1>5, <1>6, <1>7, <1>8, StepCases

LEMMA FaultShowsStep ==
    ASSUME Control, Reducing, FaultShows, [Next]_vars
    PROVE  FaultShows'
<1>1. ASSUME faults' = faults,
             \A m \in Members : status[m] = "failed" => status'[m] = "failed",
             \A p \in Procs : exit[p] \in Failures /\ p \notin unfreed =>
                                  exit'[p] \in Failures /\ p \notin unfreed'
      PROVE  FaultShows'
  BY <1>1 DEF FaultShows
<1>2. "none" \notin Failures
  BY DEF Failures
<1>3. CASE \E m \in Members : Stops(m)
  <2>1. PICK m \in Members : Stops(m)
    BY <1>3
  <2>2. m[2] # 0 => status' = [status EXCEPT ![m] = "failed"]
    BY <2>1, StopsPlace
  <2>3. m[2] = 0 => \E how \in Failures : exit' = [exit EXCEPT ![m[1]] = how]
    BY <2>1, StopsPlace
  <2>4. /\ m[1] \in Procs /\ exit[m[1]] = "none" /\ unfreed' = unfreed
        /\ faults' \in {faults, faults + 1}
    BY <2>1, StopsPlace, MemberFacts DEF Stops
  <2>5. m[1] \notin unfreed
    BY <1>2, <2>4 DEF Reducing
  <2> QED
    BY <2>2, <2>3, <2>4, <2>5 DEF FaultShows, Control
<1>4. CASE UNCHANGED <<status, exit, faults, unfreed>>
  BY <1>1, <1>4
<1>5. ASSUME NEW m \in Members, Return(m) PROVE FaultShows'
  <2>1. /\ status[m] = "run" /\ status' = [status EXCEPT ![m] = "done"] /\ exit' = exit
        /\ UNCHANGED <<faults, unfreed>>
    BY <1>5 DEF Return, Running, mishaps
  <2> QED
    BY <1>1, <2>1 DEF Control
<1>6. ASSUME NEW p \in Procs,
             Join(p) \/ EnterReduce(p) \/ LeaveReduce(p) \/ FailToFree(p) \/ Exit(p)
      PROVE  FaultShows'
  <2>1. exit[p] = "none"
    BY <1>6, JoinPlace, ReducePlace, FreePlace DEF Join, EnterReduce, LeaveReduce, FailToFree, Exit
  <2>2. /\ status' = status /\ faults' = faults
        /\ \A q \in Procs : q # p => exit'[q] = exit[q] /\ (q \in unfreed' <=> q \in unfreed)
    BY <1>6 DEF Join, EnterReduce, LeaveReduce, FailToFree, Exit, Control, mishaps
  <2> QED
    BY <1>1, <1>2, <2>1, <2>2
<1>7. ASSUME NEW m \in Members, Steps(m), ~Stops(m), ~Return(m)
      PROVE  UNCHANGED <<status, exit, faults, unfreed>>
  BY <1>7, ReducingKept
<1> QED
  BY <1>3, <1>4, <1>5, <1>6, <1>7, StepCases DEF Idle

-----------------------------------------------------------------------------
(* Calls of Barrier() and Allreduce().                                     *)

LEMMA SameFacts ==
    ASSUME NEW T, NEW i \in Nat, NEW j \in Nat, Same(T, i, j)
    PROVE  /\ Same(T, j, i)
           /\ ~Meets(T, i) => Same(T, i + 1, j)
           /\ Meets(T, i) /\ Meets(T, j) => i = j
<1>1. Same(T, j, i)
  BY DEF Same
<1>2. ASSUME ~Meets(T, i), NEW x \in Nat, (i + 1 <= x /\ x < j) \/ (j <= x /\ x < i + 1)
      PROVE  ~Meets(T, x)
  <2>1. x = i \/ (i <= x /\ x < j) \/ (j <= x /\ x < i)
    BY <1>2
  <2> QED
    BY <1>2, <2>1 DEF Same
<1>3. Meets(T, i) /\ Meets(T, j) => i = j
  BY DEF Same
<1> QED
  BY <1>1, <1>2, <1>3 DEF Same

LEMMA SameItself == ASSUME NEW T, NEW i \in Nat PROVE Same(T, i, i)
  BY DEF Same

CallsKept == UNCHANGED <<opt, votes, bEntered, bLeft, aEntered, aLeft>>
Walks(m) ==
    /\ CallsKept /\ ~Meets(Test, pc[m]) /\ pc[m] \in Nat
    /\ pc' = [pc EXCEPT ![m] = pc[m] + 1]

LEMMA CallCases ==
    ASSUME Control, [Next]_vars
    PROVE  \/ CallsKept /\ pc' = pc
           \/ \E m \in Members : Walks(m) \/ EnterBarrier(m) \/ LeaveBarrier(m)
                                 \/ EnterAllreduce(m) \/ LeaveAllreduce(m)
<1>1. pc \in [Members -> Nat \ {0}] /\ End \in Nat
  BY TestFacts DEF Control
<1>2. ASSUME NEW m \in Members, NEW name \in Local \cup {"check"}, At(m, name)
      PROVE  ~Meets(Test, pc[m])
  <2>1. name \in TestNames /\ name \notin {"barrier", "allreduce", "vote"}
    BY DEF Local, TestNames, PlainNames
  <2>2. Test[pc[m]].op = name
    BY <1>2, <2>1, AtFacts
  <2> QED
    BY <2>1, <2>2 DEF Meets
<1>3. ASSUME NEW m \in Members, MovesOn(m) \/ Check(m) PROVE Walks(m)
  <2>1. \E name \in Local \cup {"check"} : At(m, name)
    BY <1>3 DEF MovesOn, Check
  <2>2. ~Meets(Test, pc[m])
    BY <1>2, <2>1
  <2> QED
    BY <1>1, <1>3, <2>2 DEF MovesOn, Check, Walks, CallsKept, Advance, Goto, result, barriers
<1>4. ASSUME NEW m \in Members, Return(m) \/ Stops(m) PROVE CallsKept /\ pc' = pc
  BY <1>4 DEF Return, Stops, CallsKept, result, barriers
<1>5. ASSUME NEW p \in Procs, EnterReduce(p) \/ FailToFree(p) \/ Exit(p)
      PROVE  CallsKept /\ pc' = pc
  BY <1>5 DEF EnterReduce, FailToFree, Exit, CallsKept, result, barriers
<1>8. ASSUME NEW p \in Procs, LeaveReduce(p) PROVE Walks(MainOf(p))
  <2>1. CallsKept /\ pc' = [pc EXCEPT ![MainOf(p)] = pc[MainOf(p)] + 1]
    BY <1>8 DEF LeaveReduce, CallsKept, Advance, Goto, result
  <2>2. pc[MainOf(p)] = End + N /\ pc[MainOf(p)] \in Nat /\ N \in Nat \ {0}
    BY <1>1, <1>8, ReducePlace, MemberFacts, NFacts DEF LeaveReduce
  <2>3. ~Meets(Test, pc[MainOf(p)])
    BY <1>1, <2>2 DEF Meets, End
  <2> QED
    BY <2>1, <2>2, <2>3 DEF Walks
<1>6. ASSUME NEW p \in Procs, Join(p) PROVE (CallsKept /\ pc' = pc) \/ Walks(MainOf(p))
  <2>1. CallsKept /\ (pc' = pc \/ pc' = [pc EXCEPT ![MainOf(p)] = pc[MainOf(p)] + 1])
    BY <1>6 DEF Join, CallsKept, Advance, Goto, barriers
  <2>2. pc[MainOf(p)] > End /\ pc[MainOf(p)] \in Nat
    BY <1>1, <1>6, JoinPlace, MemberFacts DEF Join
  <2>3. ~Meets(Test, pc[MainOf(p)])
    BY <1>1, <2>2 DEF Meets, End
  <2> QED
    BY <2>1, <2>2, <2>3 DEF Walks
<1>7. Idle => CallsKept /\ pc' = pc
  BY DEF Idle, CallsKept, result, barriers
<1> QED
  BY <1>3, <1>4, <1>5, <1>6, <1>7, <1>8, StepCases, MemberFacts DEF Steps

\* The two ways into a call and out of it.
LEMMA BarrierPlace ==
    ASSUME Control, Calls, NEW m \in Members, EnterBarrier(m) \/ LeaveBarrier(m)
    PROVE  /\ pc[m] \in 1 .. End /\ End \in Nat /\ Test[pc[m]].op = "barrier"
           /\ Meets(Test, pc[m]) /\ ~A!Inside(m)
           /\ UNCHANGED <<opt, votes, aEntered, aLeft>>
           /\ EnterBarrier(m) => /\ pc' = pc /\ bEntered[m] = bLeft[m] /\ bLeft' = bLeft
                                 /\ bEntered' = [bEntered EXCEPT ![m] = bLeft[m] + 1]
           /\ LeaveBarrier(m) => /\ pc' = [pc EXCEPT ![m] = pc[m] + 1]
                                 /\ bEntered[m] = bLeft[m] + 1 /\ bEntered' = bEntered
                                 /\ bLeft' = [bLeft EXCEPT ![m] = bLeft[m] + 1]
                                 /\ \A o \in Members : bEntered[o] >= bLeft[m] + 1
<1>1. At(m, "barrier") /\ "barrier" \in TestNames
  BY DEF EnterBarrier, LeaveBarrier, TestNames, PlainNames
<1>2. pc[m] \in 1 .. End /\ End \in Nat /\ Test[pc[m]].op = "barrier"
  BY <1>1, AtFacts
<1>3. Meets(Test, pc[m])
  BY <1>2 DEF Meets, End
<1>4. ~A!Inside(m) /\ bEntered[m] \in {bLeft[m], bLeft[m] + 1}
  BY <1>2 DEF Calls, Own
<1>5. UNCHANGED <<opt, votes, aEntered, aLeft>>
  BY DEF EnterBarrier, LeaveBarrier, result
<1>6. ASSUME EnterBarrier(m)
      PROVE  /\ pc' = pc /\ bEntered[m] = bLeft[m] /\ bLeft' = bLeft
             /\ bEntered' = [bEntered EXCEPT ![m] = bLeft[m] + 1]
  <2>1. pc' = pc /\ bEntered[m] = bLeft[m] /\ bLeft' = bLeft /\ bEntered' = [bEntered EXCEPT ![m] = @ + 1]
    BY <1>6 DEF EnterBarrier, B!Enter, B!Inside
  <2> QED
    BY <2>1 DEF Calls
<1>7. ASSUME LeaveBarrier(m)
      PROVE  /\ pc' = [pc EXCEPT ![m] = pc[m] + 1]
             /\ bEntered[m] = bLeft[m] + 1 /\ bEntered' = bEntered
             /\ bLeft' = [bLeft EXCEPT ![m] = bLeft[m] + 1]
             /\ \A o \in Members : bEntered[o] >= bLeft[m] + 1
  <2>1. /\ pc' = [pc EXCEPT ![m] = pc[m] + 1] /\ bEntered[m] # bLeft[m]
        /\ \A o \in Members : bEntered[o] >= bEntered[m]
        /\ bLeft' = [bLeft EXCEPT ![m] = bEntered[m]] /\ bEntered' = bEntered
    BY <1>7 DEF LeaveBarrier, B!Leave, B!Inside, Advance, Goto
  <2> QED
    BY <1>4, <2>1
<1> QED
  BY <1>2, <1>3, <1>4, <1>5, <1>6, <1>7

LEMMA AllreducePlace ==
    ASSUME Control, Calls, NEW m \in Members, EnterAllreduce(m) \/ LeaveAllreduce(m)
    PROVE  /\ pc[m] \in 1 .. End /\ End \in Nat /\ Test[pc[m]].op \in {"allreduce", "vote"}
           /\ Meets(Test, pc[m]) /\ ~B!Inside(m)
           /\ UNCHANGED <<opt, bEntered, bLeft>>
           /\ EnterAllreduce(m) =>
                 /\ pc' = pc /\ aEntered[m] = aLeft[m] /\ aLeft' = aLeft
                 /\ aEntered' = [aEntered EXCEPT ![m] = aLeft[m] + 1]
                 /\ votes' = [votes EXCEPT ![m] =
                        Append(votes[m], IF Test[pc[m]].op = "vote" THEN wrong[m] ELSE 0)]
                 /\ UNCHANGED <<wrong, errors, bad>>
           /\ LeaveAllreduce(m) =>
                 /\ pc' = [pc EXCEPT ![m] = Beyond(Test, pc[m], TotalWrong(m))]
                 /\ aEntered[m] = aLeft[m] + 1 /\ aEntered' = aEntered
                 /\ aLeft' = [aLeft EXCEPT ![m] = aLeft[m] + 1]
                 /\ \A o \in Members : aEntered[o] >= aLeft[m] + 1
                 /\ UNCHANGED <<votes, wrong, errors, bad>>
<1>1. ASSUME EnterAllreduce(m)
      PROVE  /\ pc[m] \in 1 .. End /\ Test[pc[m]].op \in {"allreduce", "vote"}
             /\ Here(m) = Test[pc[m]]
  <2>1. (At(m, "allreduce") \/ At(m, "vote")) /\ "allreduce" \in TestNames /\ "vote" \in TestNames
    BY <1>1 DEF EnterAllreduce, TestNames, PlainNames
  <2> QED
    BY <2>1, AtFacts
<1>2. pc[m] \in 1 .. End /\ Test[pc[m]].op \in {"allreduce", "vote"} /\ End \in Nat
  BY <1>1, LeaveAllreducePlace, TestFacts DEF Control
<1>3. Meets(Test, pc[m])
  BY <1>2 DEF Meets, End
<1>4. ~B!Inside(m) /\ aEntered[m] \in {aLeft[m], aLeft[m] + 1}
  BY <1>2 DEF Calls, Own
<1>5. ASSUME EnterAllreduce(m)
      PROVE  /\ pc' = pc /\ aEntered[m] = aLeft[m] /\ aLeft' = aLeft
             /\ aEntered' = [aEntered EXCEPT ![m] = aLeft[m] + 1]
             /\ votes' = [votes EXCEPT ![m] =
                    Append(votes[m], IF Test[pc[m]].op = "vote" THEN wrong[m] ELSE 0)]
             /\ UNCHANGED <<opt, bEntered, bLeft, wrong, errors, bad>>
  <2>1. /\ pc' = pc /\ aEntered[m] = aLeft[m] /\ aLeft' = aLeft
        /\ aEntered' = [aEntered EXCEPT ![m] = @ + 1]
        /\ votes' = [votes EXCEPT ![m] = Append(@, IF Here(m).op = "vote" THEN wrong[m] ELSE 0)]
        /\ UNCHANGED <<opt, bEntered, bLeft, wrong, errors, bad>>
    BY <1>5 DEF EnterAllreduce, A!Enter, A!Inside
  <2> QED
    BY <1>1, <1>5, <2>1 DEF Calls
<1>6. ASSUME LeaveAllreduce(m)
      PROVE  /\ pc' = [pc EXCEPT ![m] = Beyond(Test, pc[m], TotalWrong(m))]
             /\ aEntered[m] = aLeft[m] + 1 /\ aEntered' = aEntered
             /\ aLeft' = [aLeft EXCEPT ![m] = aLeft[m] + 1]
             /\ \A o \in Members : aEntered[o] >= aLeft[m] + 1
             /\ UNCHANGED <<opt, bEntered, bLeft, votes, wrong, errors, bad>>
  <2>1. /\ Goto(m, Beyond(Test, pc[m], TotalWrong(m))) /\ A!Leave(m)
        /\ UNCHANGED <<opt, result, bEntered, bLeft>>
    BY <1>6, LeaveAllreducePlace
  <2>2. /\ aEntered[m] # aLeft[m] /\ \A o \in Members : aEntered[o] >= aEntered[m]
        /\ aLeft' = [aLeft EXCEPT ![m] = aEntered[m]] /\ aEntered' = aEntered
    BY <2>1 DEF A!Leave, A!Inside
  <2> QED
    BY <1>4, <2>1, <2>2 DEF Goto, result
<1> QED
  BY <1>2, <1>3, <1>4, <1>5, <1>6

\* Whoever is inside a call stands at it.
LEMMA InsidePlace ==
    ASSUME Control, Calls, NEW m \in Members
    PROVE  /\ B!Inside(m) => /\ bEntered[m] = bLeft[m] + 1 /\ pc[m] \in 1 .. End
                             /\ Meets(Test, pc[m]) /\ ~A!Inside(m)
           /\ A!Inside(m) => /\ aEntered[m] = aLeft[m] + 1 /\ pc[m] \in 1 .. End
                             /\ Meets(Test, pc[m]) /\ ~B!Inside(m)
           /\ ~B!Inside(m) => bEntered[m] = bLeft[m]
           /\ ~A!Inside(m) => aEntered[m] = aLeft[m]
           /\ {bLeft[m], bEntered[m], aLeft[m], aEntered[m], pc[m]} \subseteq Nat
<1>1. Own(m) /\ pc[m] \in Nat \ {0} /\ End \in Nat
  BY TestFacts DEF Calls, Control
<1> QED
  BY <1>1 DEF Own, Meets, End, A!Inside, B!Inside

LEMMA BeyondNat ==
    ASSUME Control, NEW i \in 1 .. End, NEW total
    PROVE  Beyond(Test, i, total) \in Nat
<1>1. i \in Nat /\ (Test[i].op = "vote" => Test[i].skip \in Nat)
  BY TestFacts DEF Control
<1> QED
  BY <1>1 DEF Beyond

\* Nobody has left an Allreduce() that another has still to enter.
LEMMA NobodyOvertaken ==
    ASSUME Control, Calls, Together, NEW m \in Members, NEW o \in Members
    PROVE  aLeft[m] <= aEntered[o]
<1>1. Pair(m, o)
  BY DEF Together
<1> QED
  BY <1>1, InsidePlace DEF Pair, Level, AheadByBarrier, AheadByAllreduce

LEMMA CallsStep ==
    ASSUME Control, Calls, Tally, [Next]_vars
    PROVE  Calls'
<1>1. CASE CallsKept /\ pc' = pc
  BY <1>1, SameTest DEF CallsKept, Calls, Own, A!Inside, B!Inside
<1>2. ASSUME NEW m \in Members, Walks(m) PROVE Calls'
  <2>1. ~B!Inside(m) /\ ~A!Inside(m) /\ \A o \in Members : o # m => pc'[o] = pc[o]
    BY <1>2, InsidePlace DEF Walks, Control
  <2> QED
    BY <1>2, <2>1, SameTest DEF Walks, CallsKept, Calls, Own, A!Inside, B!Inside
<1>3. ASSUME NEW m \in Members, EnterBarrier(m) PROVE Calls'
  <2>1. /\ pc[m] \in 1 .. End /\ Test[pc[m]].op = "barrier" /\ bEntered[m] = bLeft[m]
        /\ UNCHANGED <<opt, votes, aEntered, aLeft, bLeft, pc>>
        /\ bEntered' = [bEntered EXCEPT ![m] = bLeft[m] + 1]
    BY <1>3, BarrierPlace
  <2>2. bLeft[m] \in Nat
    BY InsidePlace
  <2>3. bEntered' \in [Members -> Nat] /\ \A o \in Members : bEntered'[o] = IF o = m THEN bLeft[m] + 1 ELSE bEntered[o]
    BY <2>1, <2>2 DEF Calls
  <2>4. ASSUME NEW o \in Members PROVE Own(o)'
    <3>1. Own(o) /\ Test' = Test /\ End' = End
      BY <2>1, SameTest DEF Calls
    <3> QED
      BY <2>1, <2>3, <3>1 DEF Own, A!Inside, B!Inside
  <2> QED
    BY <2>1, <2>3, <2>4 DEF Calls
<1>4. ASSUME NEW m \in Members, LeaveBarrier(m) PROVE Calls'
  <2>1. /\ UNCHANGED <<opt, votes, aEntered, aLeft, bEntered>> /\ ~A!Inside(m)
        /\ pc' = [pc EXCEPT ![m] = pc[m] + 1]
        /\ bEntered[m] = bLeft[m] + 1 /\ bLeft' = [bLeft EXCEPT ![m] = bLeft[m] + 1]
    BY <1>4, BarrierPlace
  <2>2. bLeft[m] \in Nat
    BY InsidePlace
  <2>3. /\ bLeft' \in [Members -> Nat]
        /\ \A o \in Members : /\ bLeft'[o] = IF o = m THEN bLeft[m] + 1 ELSE bLeft[o]
                              /\ o # m => pc'[o] = pc[o]
    BY <2>1, <2>2 DEF Calls, Control
  <2>4. ASSUME NEW o \in Members PROVE Own(o)'
    <3>1. Own(o) /\ Test' = Test /\ End' = End
      BY <2>1, SameTest DEF Calls
    <3> QED
      BY <2>1, <2>2, <2>3, <3>1 DEF Own, A!Inside, B!Inside
  <2> QED
    BY <2>1, <2>3, <2>4 DEF Calls
<1>5. ASSUME NEW m \in Members, EnterAllreduce(m) PROVE Calls'
  <2> DEFINE v == IF Test[pc[m]].op = "vote" THEN wrong[m] ELSE 0
  <2>1. /\ pc[m] \in 1 .. End /\ Test[pc[m]].op \in {"allreduce", "vote"} /\ aEntered[m] = aLeft[m]
        /\ UNCHANGED <<opt, bEntered, bLeft, aLeft, pc>>
        /\ aEntered' = [aEntered EXCEPT ![m] = aLeft[m] + 1]
        /\ votes' = [votes EXCEPT ![m] = Append(votes[m], v)]
    BY <1>5, AllreducePlace
  <2>2. aLeft[m] \in Nat /\ v \in {0, 1} /\ votes[m] \in Seq({0, 1}) /\ Len(votes[m]) = aEntered[m]
    BY InsidePlace DEF Tally, Calls, Own
  <2> HIDE DEF v
  <2>3. /\ aEntered' \in [Members -> Nat] /\ DOMAIN votes' = Members
        /\ \A o \in Members : /\ aEntered'[o] = IF o = m THEN aLeft[m] + 1 ELSE aEntered[o]
                              /\ votes'[o] = IF o = m THEN Append(votes[m], v) ELSE votes[o]
    BY <2>1, <2>2 DEF Calls
  <2>4. Append(votes[m], v) \in Seq({0, 1}) /\ Len(Append(votes[m], v)) = aLeft[m] + 1
    BY <2>1, <2>2
  <2>5. ASSUME NEW o \in Members PROVE Own(o)'
    <3>1. Own(o) /\ Test' = Test /\ End' = End
      BY <2>1, SameTest DEF Calls
    <3>2. votes'[o] \in Seq({0, 1}) /\ Len(votes'[o]) = aEntered'[o]
      BY <2>3, <2>4, <3>1 DEF Own
    <3> QED
      BY <2>1, <2>3, <3>1, <3>2 DEF Own, A!Inside, B!Inside
  <2> QED
    BY <2>1, <2>3, <2>5 DEF Calls
<1>6. ASSUME NEW m \in Members, LeaveAllreduce(m) PROVE Calls'
  <2> DEFINE to == Beyond(Test, pc[m], TotalWrong(m))
  <2>1. /\ UNCHANGED <<opt, votes, bEntered, bLeft, aEntered>> /\ ~B!Inside(m)
        /\ pc' = [pc EXCEPT ![m] = to]
        /\ aEntered[m] = aLeft[m] + 1 /\ aLeft' = [aLeft EXCEPT ![m] = aLeft[m] + 1]
    BY <1>6, AllreducePlace
  <2> HIDE DEF to
  <2>2. aLeft[m] \in Nat
    BY InsidePlace
  <2>3. /\ aLeft' \in [Members -> Nat]
        /\ \A o \in Members : /\ aLeft'[o] = IF o = m THEN aLeft[m] + 1 ELSE aLeft[o]
                              /\ o # m => pc'[o] = pc[o]
    BY <2>1, <2>2 DEF Calls, Control
  <2>4. ASSUME NEW o \in Members PROVE Own(o)'
    <3>1. Own(o) /\ Test' = Test /\ End' = End
      BY <2>1, SameTest DEF Calls
    <3> QED
      BY <2>1, <2>2, <2>3, <3>1 DEF Own, A!Inside, B!Inside
  <2> QED
    BY <2>1, <2>3, <2>4 DEF Calls
<1> QED
  BY <1>1, <1>2, <1>3, <1>4, <1>5, <1>6, CallCases

\* A pair is as good as its mirror image, and a thread is level with itself.
LEMMA TogetherSplit ==
    ASSUME Control', NEW m \in Members,
           \A x, o \in Members \ {m} : x # o => Pair(x, o)',
           \A o \in Members \ {m} : Pair(m, o)'
    PROVE  Together'
<1>1. ASSUME NEW o \in Members PROVE Pair(o, o)'
  <2>1. pc'[o] \in Nat
    BY DEF Control
  <2>2. Same(Test', pc'[o], pc'[o])
    BY <2>1, SameItself
  <2> QED
    BY <2>2 DEF Pair, Level
<1>2. \A o \in Members \ {m} : Pair(o, m)'
  <2>1. \A T, i, j : Same(T, i, j) => Same(T, j, i)
    BY DEF Same
  <2> QED
    BY <2>1 DEF Pair, Level
<1> QED
  BY <1>1, <1>2 DEF Together

\* What a call of another adds to the votes does not change the sum of a call that
\* everybody has entered.
LEMMA TotalKept ==
    ASSUME Control, Calls, NEW m \in Members, EnterAllreduce(m), NEW o \in Members, o # m,
           aEntered[o] \in 1 .. aEntered[m]
    PROVE  TotalWrong(o)' = TotalWrong(o)
<1> DEFINE v == IF Test[pc[m]].op = "vote" THEN wrong[m] ELSE 0
<1>1. /\ aEntered' = [aEntered EXCEPT ![m] = aLeft[m] + 1]
      /\ votes' = [votes EXCEPT ![m] = Append(votes[m], v)]
  BY AllreducePlace
<1> HIDE DEF v
<1>2. aEntered'[o] = aEntered[o]
  BY <1>1 DEF Calls
<1>3. ASSUME NEW x \in Members PROVE votes'[x][aEntered[o]] = votes[x][aEntered[o]]
  <2>1. CASE x # m
    BY <1>1, <2>1 DEF Calls
  <2>2. CASE x = m
    <3>1. votes[m] \in Seq({0, 1}) /\ Len(votes[m]) = aEntered[m] /\ votes'[m] = Append(votes[m], v)
      BY <1>1 DEF Calls, Own
    <3> QED
      BY <2>2, <3>1
  <2> QED
    BY <2>1, <2>2
<1>4. [x \in Members |-> votes'[x][aEntered[o]]] = [x \in Members |-> votes[x][aEntered[o]]]
  BY <1>3
<1> QED
  BY <1>2, <1>4 DEF TotalWrong

LEMMA TogetherStep ==
    ASSUME Control, Calls, Together, [Next]_vars
    PROVE  Together'
<1>0. Control'
  BY ControlStep
<1>1. CASE CallsKept /\ pc' = pc
  BY <1>1, SameTest DEF CallsKept, Together, Pair, Level, AheadByBarrier, AheadByAllreduce,
                        A!Inside, B!Inside, TotalWrong
<1>2. ASSUME NEW m \in Members, Walks(m) PROVE Together'
  <2>1. /\ ~B!Inside(m) /\ ~A!Inside(m) /\ pc[m] \in Nat
        /\ pc'[m] = pc[m] + 1 /\ \A o \in Members : o # m => pc'[o] = pc[o]
    BY <1>2, InsidePlace DEF Walks, Control
  <2>2. Test' = Test /\ CallsKept /\ ~Meets(Test, pc[m])
    BY <1>2, SameTest DEF Walks, CallsKept
  <2>3. \A o \in Members : TotalWrong(o)' = TotalWrong(o)
    BY <2>2 DEF CallsKept, TotalWrong
  <2>4. \A x, o \in Members \ {m} : Pair(x, o)'
    BY <2>1, <2>2, <2>3 DEF CallsKept, Together, Pair, Level, AheadByBarrier, AheadByAllreduce,
                            A!Inside, B!Inside
  <2>5. ASSUME NEW o \in Members \ {m} PROVE Pair(m, o)'
    <3>1. Pair(m, o) /\ pc[o] \in Nat /\ pc'[o] = pc[o]
      BY <2>1, InsidePlace DEF Together
    <3>2. CASE Level(m, o)
      <4>1. Same(Test, pc[m] + 1, pc[o])
        BY <2>1, <2>2, <3>1, <3>2, SameFacts DEF Level
      <4> QED
        BY <2>1, <2>2, <3>1, <3>2, <4>1 DEF CallsKept, Pair, Level
    <3>3. CASE AheadByBarrier(m, o)
      <4>1. Same(Test, pc[m] + 1, pc[o] + 1)
        BY <2>1, <2>2, <3>1, <3>3, SameFacts DEF AheadByBarrier
      <4> QED
        BY <2>1, <2>2, <3>1, <3>3, <4>1 DEF CallsKept, Pair, AheadByBarrier, B!Inside
    <3>4. CASE AheadByAllreduce(m, o)
      <4> DEFINE to == Beyond(Test, pc[o], TotalWrong(o))
      <4>1. to \in Nat
        BY <3>4, InsidePlace, BeyondNat DEF AheadByAllreduce
      <4>2. Same(Test, pc[m], to)
        BY <3>4 DEF AheadByAllreduce
      <4>3. Same(Test, pc[m] + 1, to)
        <5> HIDE DEF to
        <5> QED
          BY <2>1, <2>2, <4>1, <4>2, SameFacts
      <4> QED
        BY <2>1, <2>2, <2>3, <3>1, <3>4, <4>3 DEF CallsKept, Pair, AheadByAllreduce, A!Inside
    <3> QED
      BY <2>1, <3>1, <3>2, <3>3, <3>4 DEF Pair, AheadByBarrier, AheadByAllreduce
  <2> QED
    BY <2>4, <2>5, <1>0, TogetherSplit
<1>3. ASSUME NEW m \in Members, EnterBarrier(m) PROVE Together'
  <2>1. /\ UNCHANGED <<opt, votes, aEntered, aLeft, pc, bLeft>> /\ bEntered[m] = bLeft[m] /\ ~A!Inside(m)
        /\ \A o \in Members : o # m => bEntered'[o] = bEntered[o]
    BY <1>3, BarrierPlace DEF Calls
  <2>2. Test' = Test /\ ~B!Inside(m)
    BY <2>1, SameTest DEF B!Inside
  <2>3. \A o \in Members : TotalWrong(o)' = TotalWrong(o)
    BY <2>1 DEF TotalWrong
  <2>4. \A x, o \in Members \ {m} : Pair(x, o)'
    BY <2>1, <2>2, <2>3 DEF Together, Pair, Level, AheadByBarrier, AheadByAllreduce, A!Inside, B!Inside
  <2>5. \A o \in Members \ {m} : Pair(m, o)'
    BY <2>1, <2>2, <2>3 DEF Together, Pair, Level, AheadByBarrier, AheadByAllreduce, A!Inside, B!Inside
  <2> QED
    BY <2>4, <2>5, <1>0, TogetherSplit
<1>4. ASSUME NEW m \in Members, LeaveBarrier(m) PROVE Together'
  <2>1. /\ UNCHANGED <<opt, votes, aEntered, aLeft, bEntered>> /\ ~A!Inside(m) /\ Meets(Test, pc[m])
        /\ pc[m] \in Nat /\ pc'[m] = pc[m] + 1
        /\ bEntered[m] = bLeft[m] + 1 /\ bLeft'[m] = bLeft[m] + 1
        /\ \A o \in Members : /\ bEntered[o] >= bLeft[m] + 1
                              /\ o # m => pc'[o] = pc[o] /\ bLeft'[o] = bLeft[o]
    BY <1>4, BarrierPlace DEF Calls, Control
  <2>2. Test' = Test
    BY <2>1, SameTest
  <2>3. \A o \in Members : TotalWrong(o)' = TotalWrong(o)
    BY <2>1 DEF TotalWrong
  <2>4. \A x, o \in Members \ {m} : Pair(x, o)'
    BY <2>1, <2>2, <2>3 DEF Together, Pair, Level, AheadByBarrier, AheadByAllreduce, A!Inside, B!Inside
  <2>5. ASSUME NEW o \in Members \ {m} PROVE Pair(m, o)'
    <3>1. /\ Pair(m, o) /\ pc[o] \in Nat /\ pc'[o] = pc[o] /\ bLeft'[o] = bLeft[o]
          /\ bEntered[o] >= bLeft[m] + 1 /\ {bLeft[m], bLeft[o], bEntered[o]} \subseteq Nat
      BY <2>1, InsidePlace DEF Together
    <3>2. CASE Level(m, o)
      <4>1. B!Inside(o)
        BY <3>1, <3>2, InsidePlace DEF Level
      <4>2. pc[m] = pc[o]
        BY <2>1, <3>1, <3>2, <4>1, SameFacts, InsidePlace DEF Level
      <4>3. Same(Test, pc[m] + 1, pc[o] + 1)
        BY <3>1, <4>2, SameItself
      <4> QED
        BY <2>1, <2>2, <3>1, <3>2, <4>1, <4>3 DEF Pair, Level, AheadByBarrier, B!Inside
    <3>3. CASE AheadByBarrier(o, m)
      <4>1. Same(Test, pc[m] + 1, pc[o])
        BY <2>1, <3>1, <3>3, SameFacts DEF AheadByBarrier
      <4> QED
        BY <2>1, <2>2, <3>1, <3>3, <4>1 DEF Pair, Level, AheadByBarrier
    <3>4. ~AheadByBarrier(m, o)
      BY <3>1, InsidePlace DEF AheadByBarrier
    <3>5. ~AheadByAllreduce(m, o)
      BY <3>1, InsidePlace DEF AheadByAllreduce
    <3>6. ~AheadByAllreduce(o, m)
      BY <2>1 DEF AheadByAllreduce
    <3> QED
      BY <3>1, <3>2, <3>3, <3>4, <3>5, <3>6 DEF Pair
  <2> QED
    BY <2>4, <2>5, <1>0, TogetherSplit
<1>5. ASSUME NEW m \in Members, EnterAllreduce(m) PROVE Together'
  <2>1. /\ UNCHANGED <<opt, bEntered, bLeft, pc, aLeft>> /\ aEntered[m] = aLeft[m] /\ ~B!Inside(m)
        /\ \A o \in Members : o # m => aEntered'[o] = aEntered[o]
    BY <1>5, AllreducePlace DEF Calls
  <2>2. Test' = Test /\ ~A!Inside(m)
    BY <2>1, SameTest DEF A!Inside
  <2>3. ASSUME NEW x \in Members, NEW o \in Members \ {m}, AheadByAllreduce(x, o)
        PROVE  TotalWrong(o)' = TotalWrong(o)
    <3>1. aEntered[o] = aLeft[x] /\ aEntered[o] \in Nat \ {0} /\ aLeft[x] <= aEntered[m] /\ aEntered[m] \in Nat
      BY <2>3, InsidePlace, NobodyOvertaken DEF AheadByAllreduce
    <3>2. aEntered[o] \in 1 .. aEntered[m]
      BY <3>1
    <3> QED
      BY <1>5, <3>2, TotalKept
  <2>4. ASSUME NEW x \in Members, NEW o \in Members \ {m}, AheadByAllreduce(x, o)
        PROVE  AheadByAllreduce(x, o)'
    BY <2>1, <2>2, <2>3, <2>4 DEF AheadByAllreduce, A!Inside
  <2>5. \A x, o \in Members \ {m} : Pair(x, o)'
    BY <2>1, <2>2, <2>4 DEF Together, Pair, Level, AheadByBarrier, B!Inside
  <2>6. \A o \in Members \ {m} : Pair(m, o)'
    <3>1. \A o \in Members : ~AheadByAllreduce(o, m)
      BY <2>2 DEF AheadByAllreduce
    <3> QED
      BY <2>1, <2>2, <2>4, <3>1 DEF Together, Pair, Level, AheadByBarrier, B!Inside
  <2> QED
    BY <2>5, <2>6, <1>0, TogetherSplit
<1>6. ASSUME NEW m \in Members, LeaveAllreduce(m) PROVE Together'
  <2> DEFINE to(o) == Beyond(Test, pc[o], TotalWrong(o))
  <2>1. /\ UNCHANGED <<opt, votes, bEntered, bLeft, aEntered>> /\ ~B!Inside(m) /\ Meets(Test, pc[m])
        /\ pc[m] \in 1 .. End /\ End \in Nat /\ pc'[m] = to(m)
        /\ aEntered[m] = aLeft[m] + 1 /\ aLeft'[m] = aLeft[m] + 1
        /\ \A o \in Members : /\ aEntered[o] >= aLeft[m] + 1
                              /\ o # m => pc'[o] = pc[o] /\ aLeft'[o] = aLeft[o]
    BY <1>6, AllreducePlace DEF Calls, Control
  <2>2. Test' = Test
    BY <2>1, SameTest
  <2>3. \A o \in Members : TotalWrong(o)' = TotalWrong(o)
    BY <2>1 DEF TotalWrong
  <2>4. \A x, o \in Members \ {m} : Pair(x, o)'
    BY <2>1, <2>2, <2>3 DEF Together, Pair, Level, AheadByBarrier, AheadByAllreduce, A!Inside, B!Inside
  <2>5. ASSUME NEW o \in Members \ {m} PROVE Pair(m, o)'
    <3>1. /\ Pair(m, o) /\ pc[o] \in Nat /\ pc'[o] = pc[o] /\ aLeft'[o] = aLeft[o]
          /\ aEntered[o] >= aLeft[m] + 1 /\ {aLeft[m], aLeft[o], aEntered[o]} \subseteq Nat
      BY <2>1, InsidePlace DEF Together
    <3>2. to(m) \in Nat
      BY <2>1, BeyondNat
    <3>3. CASE Level(m, o)
      <4>1. A!Inside(o) /\ aEntered[o] = aEntered[m]
        BY <2>1, <3>1, <3>3, InsidePlace DEF Level
      <4>2. pc[m] = pc[o]
        BY <2>1, <3>1, <3>3, <4>1, SameFacts, InsidePlace DEF Level
      <4>3. TotalWrong(o) = TotalWrong(m)
        BY <4>1 DEF TotalWrong
      <4>4. to(m) = to(o)
        BY <4>2, <4>3
      <4>5. Same(Test, to(m), to(o))
        BY <3>2, <4>4, SameItself
      <4> QED
        BY <2>1, <2>2, <2>3, <3>1, <3>3, <4>1, <4>5 DEF Pair, Level, AheadByAllreduce, A!Inside
    <3>4. CASE AheadByAllreduce(o, m)
      <4>1. Same(Test, to(m), pc[o])
        <5>1. Same(Test, pc[o], to(m))
          BY <3>4 DEF AheadByAllreduce
        <5> HIDE DEF to
        <5> QED
          BY <3>1, <3>2, <5>1, SameFacts
      <4> QED
        BY <2>1, <2>2, <3>1, <3>4, <4>1 DEF Pair, Level, AheadByAllreduce
    <3>5. ~AheadByAllreduce(m, o)
      BY <3>1, InsidePlace DEF AheadByAllreduce
    <3>6. ~AheadByBarrier(m, o)
      BY <3>1, InsidePlace DEF AheadByBarrier
    <3>7. ~AheadByBarrier(o, m)
      BY <2>1 DEF AheadByBarrier
    <3> QED
      BY <3>1, <3>3, <3>4, <3>5, <3>6, <3>7 DEF Pair
  <2> QED
    BY <2>4, <2>5, <1>0, TogetherSplit
<1> QED
  BY <1>1, <1>2, <1>3, <1>4, <1>5, <1>6, CallCases

-----------------------------------------------------------------------------
(* Votes and errors.                                                       *)

\* A step of the test joins nobody, and lets nobody else move.
LEMMA TestStepPlace ==
    ASSUME Control, Calls, NEW m \in Members, Steps(m)
    PROVE  /\ UNCHANGED <<opt, rEntered, rLeft>>
           /\ \A o \in Members : o # m =>
                 /\ pc'[o] = pc[o] /\ bEntered'[o] = bEntered[o] /\ bLeft'[o] = bLeft[o]
                 /\ aEntered'[o] = aEntered[o] /\ aLeft'[o] = aLeft[o]
           /\ pc'[m] = pc[m] \/ (pc[m] \in 1 .. End /\ pc'[m] \in Nat /\ pc'[m] <= End + 1)
           /\ \A p \in Procs, t \in Threads \ {0} : Joined(p, t)' => Joined(p, t)
<1>1. N \in Nat \ {0} /\ End \in Nat /\ pc \in [Members -> Nat \ {0}]
  BY NFacts, TestFacts DEF Control
<1>2. /\ UNCHANGED <<opt, rEntered, rLeft>>
      /\ \A o \in Members : o # m =>
            /\ pc'[o] = pc[o] /\ bEntered'[o] = bEntered[o] /\ bLeft'[o] = bLeft[o]
            /\ aEntered'[o] = aEntered[o] /\ aLeft'[o] = aLeft[o]
      /\ pc'[m] = pc[m] \/ (pc[m] \in 1 .. End /\ pc'[m] \in Nat /\ pc'[m] <= End + 1)
  <2>1. CASE MovesOn(m) \/ Check(m)
    <3>1. UNCHANGED <<opt, barriers>> /\ pc' = [pc EXCEPT ![m] = pc[m] + 1]
      BY <2>1 DEF MovesOn, Check, Advance, Goto
    <3>2. \E name \in TestNames : At(m, name)
      BY <2>1 DEF MovesOn, Check, Local, TestNames, PlainNames
    <3>3. pc[m] \in 1 .. End
      BY <3>2, AtFacts
    <3> QED
      BY <1>1, <3>1, <3>3 DEF barriers
  <2>2. CASE EnterBarrier(m) \/ LeaveBarrier(m)
    <3>1. UNCHANGED <<rEntered, rLeft>>
      BY <2>2 DEF EnterBarrier, LeaveBarrier
    <3> QED
      BY <1>1, <2>2, <3>1, BarrierPlace DEF Calls
  <2>3. CASE EnterAllreduce(m)
    <3>1. UNCHANGED <<rEntered, rLeft>>
      BY <2>3 DEF EnterAllreduce
    <3> QED
      BY <1>1, <2>3, <3>1, AllreducePlace DEF Calls
  <2>4. CASE LeaveAllreduce(m)
    <3>1. /\ UNCHANGED <<rEntered, rLeft>>
          /\ Beyond(Test, pc[m], TotalWrong(m)) \in Nat
          /\ Beyond(Test, pc[m], TotalWrong(m)) <= End + 1
      BY <2>4, LeaveAllreducePlace
    <3> QED
      BY <1>1, <2>4, <3>1, AllreducePlace DEF Calls
  <2>5. CASE Return(m) \/ Stops(m)
    BY <2>5 DEF Return, Stops, barriers
  <2> QED
    BY <2>1, <2>2, <2>3, <2>4, <2>5 DEF Steps
<1>3. ASSUME NEW p \in Procs, NEW t \in Threads \ {0}, Joined(p, t)' PROVE Joined(p, t)
  <2>1. MainOf(p) \in Members /\ t \in 1 .. N - 1 /\ End' = End
    BY <1>2, MemberFacts, NFacts, SameTest
  <2>2. pc'[MainOf(p)] > End + N - t
    BY <1>3, <2>1 DEF Joined, MainOf
  <2>3. pc'[MainOf(p)] = pc[MainOf(p)]
    BY <1>1, <1>2, <2>1, <2>2
  <2> QED
    BY <2>2, <2>3 DEF Joined
<1> QED
  BY <1>2, <1>3

\* Only initData touches what the check compares with, and how it counts.
LEMMA DataCases ==
    ASSUME [Next]_vars
    PROVE  \/ UNCHANGED <<opt, buf, reportErrors>>
           \/ \E m \in Members : DoInit(m)
<1> DEFINE Kept == UNCHANGED <<opt, buf, reportErrors>>
<1>1. UNCHANGED vars \/ Done \/ RunCollective => Kept
  BY DEF vars, Done, RunCollective, data
<1>2. ASSUME NEW m \in Members PROVE FinishCollective(m) \/ Fail(m) \/ TimeOut(m) \/ Return(m) => Kept
  BY DEF FinishCollective, Fail, TimeOut, Return, data
<1>3. ASSUME NEW m \in Members
      PROVE  Launch(m) \/ GroupStart(m) \/ GroupEnd(m) \/ Capture(m) \/ EndCapture(m) => Kept
  BY DEF Launch, GroupStart, GroupEnd, Capture, EndCapture, data
<1>4. ASSUME NEW m \in Members
      PROVE  GraphLaunch(m) \/ Sync(m) \/ StartClock(m) \/ StopClock(m) \/ Check(m) => Kept
  BY DEF GraphLaunch, Sync, StartClock, StopClock, Check, data
<1>5. ASSUME NEW m \in Members
      PROVE  EnterBarrier(m) \/ LeaveBarrier(m) \/ EnterAllreduce(m) \/ LeaveTime(m) \/ LeaveVote(m)
               => Kept
  BY DEF EnterBarrier, LeaveBarrier, EnterAllreduce, LeaveTime, LeaveVote, data
<1>6. ASSUME NEW p \in Procs
      PROVE  Join(p) \/ EnterReduce(p) \/ LeaveReduce(p) \/ FailToFree(p) \/ Exit(p) => Kept
  <2>1. Join(p) => Kept
    BY DEF Join, data
  <2>2. EnterReduce(p) \/ LeaveReduce(p) => Kept
    BY DEF EnterReduce, LeaveReduce, data
  <2>3. FailToFree(p) \/ Exit(p) => Kept
    BY DEF FailToFree, Exit, data
  <2> QED
    BY <2>1, <2>2, <2>3
<1> HIDE DEF Kept
<1>7. ASSUME NEW m \in Members, ThreadStep(m) PROVE Kept \/ DoInit(m)
  <2>1. CASE DoInit(m)
    BY <2>1
  <2>2. CASE \/ Launch(m) \/ GroupStart(m) \/ GroupEnd(m) \/ Capture(m) \/ EndCapture(m)
    BY <1>3, <2>2
  <2>3. CASE \/ GraphLaunch(m) \/ Sync(m) \/ StartClock(m) \/ StopClock(m) \/ Check(m)
    BY <1>4, <2>3
  <2>4. CASE EnterBarrier(m) \/ LeaveBarrier(m) \/ EnterAllreduce(m) \/ LeaveTime(m) \/ LeaveVote(m)
    BY <1>5, <2>4
  <2>5. CASE Return(m) \/ TimeOut(m)
    BY <1>2, <2>5
  <2> QED
    BY <1>7, <2>1, <2>2, <2>3, <2>4, <2>5 DEF ThreadStep
<1>8. Kept \/ \E m \in Members : DoInit(m)
  <2>1. CASE UNCHANGED vars \/ Done \/ RunCollective
    BY <1>1, <2>1
  <2>2. ASSUME NEW m \in Members, ThreadStep(m) \/ Fail(m) \/ FinishCollective(m)
        PROVE  Kept \/ DoInit(m)
    BY <1>2, <1>7, <2>2
  <2>3. ASSUME NEW p \in Procs, Finish(p) \/ FailToFree(p) PROVE Kept
    BY <1>6, <2>3 DEF Finish
  <2> QED
    BY <2>1, <2>2, <2>3 DEF Next
<1> QED
  BY <1>8 DEF Kept

LEMMA ReportingStep ==
    ASSUME Control, Reporting, [Next]_vars
    PROVE  Reporting'
<1>1. CASE UNCHANGED <<opt, buf, reportErrors>>
  BY <1>1 DEF Reporting, Reports, Counts
<1>2. ASSUME NEW m \in Members, DoInit(m) PROVE Reporting'
  <2>1. /\ At(m, "init") /\ "init" \in TestNames /\ opt' = opt
        /\ buf' = [buf EXCEPT ![m] = Here(m).tag]
        /\ reportErrors' = IF opt.inPlace THEN reportErrors
                           ELSE [reportErrors EXCEPT ![m] = 1 - Here(m).tag[2]]
    BY <1>2 DEF DoInit, TestNames
  <2>2. Here(m) \in Operation /\ Here(m).op = "init"
    BY <2>1, AtFacts, TestFacts DEF Control
  <2>3. Here(m).tag[2] \in {0, 1}
    BY <2>2 DEF Operation, PlainNames
  <2> DEFINE tag == Here(m).tag
             mark == tag[2]
  <2>4. mark \in {0, 1}
    BY <2>3
  <2>5. DOMAIN buf' = Members /\ buf'[m] = tag /\ \A o \in Members : o # m => buf'[o] = buf[o]
    BY <2>1 DEF Reporting
  <2>6. Counts(tag) <=> opt.inPlace \/ mark = 0
    BY DEF Counts
  <2>7. reportErrors' = IF opt.inPlace THEN reportErrors ELSE [reportErrors EXCEPT ![m] = 1 - mark]
    BY <2>1
  <2> HIDE DEF mark, tag
  <2>8. CASE opt.inPlace
    BY <2>1, <2>5, <2>6, <2>7, <2>8 DEF Reporting, Reports, Counts
  <2>9. CASE ~opt.inPlace
    <3>1. 1 - mark \in Nat /\ (1 - mark # 0 <=> mark = 0)
      BY <2>4
    <3>2. /\ reportErrors' \in [Members -> Nat] /\ reportErrors'[m] = 1 - mark
          /\ \A o \in Members : o # m => reportErrors'[o] = reportErrors[o]
      BY <2>7, <2>9, <3>1 DEF Reporting
    <3>3. ASSUME opt.datacheck > 0, NEW o \in Members PROVE Reports(o)' <=> Counts(buf[o])'
      <4>1. CASE o = m
        BY <2>1, <2>5, <2>6, <2>9, <3>1, <3>2, <4>1 DEF Reports, Counts
      <4>2. CASE o # m
        BY <2>1, <2>5, <3>2, <3>3, <4>2 DEF Reporting, Reports, Counts
      <4> QED
        BY <4>1, <4>2
    <3> QED
      BY <2>1, <2>5, <2>9, <3>2, <3>3 DEF Reporting
  <2> QED
    BY <2>8, <2>9
<1> QED
  BY <1>1, <1>2, DataCases

LEMMA TallySame ==
    ASSUME Tally, UNCHANGED <<opt, wrong, errors, bad>>,
           \A p \in Procs, t \in Threads \ {0} : Joined(p, t)' => Joined(p, t)
    PROVE  Tally'
  BY DEF Tally, Found, Counts, MainOf

LEMMA TallyStep ==
    ASSUME Control, Calls, Reporting, Tally, [Next]_vars
    PROVE  Tally'
<1>1. N \in Nat \ {0} /\ End \in Nat /\ pc \in [Members -> Nat \ {0}]
  BY NFacts, TestFacts DEF Control
<1>2. CASE Idle
  BY <1>2, SameTest, TallySame DEF Idle, result, Joined, MainOf
<1>3. ASSUME NEW p \in Procs, EnterReduce(p) \/ FailToFree(p) \/ Exit(p) PROVE Tally'
  <2>1. UNCHANGED <<opt, pc, result>>
    BY <1>3 DEF EnterReduce, FailToFree, Exit
  <2> QED
    BY <2>1, SameTest, TallySame DEF result, Joined, MainOf
<1>4. ASSUME NEW p \in Procs, LeaveReduce(p) PROVE Tally'
  <2> DEFINE m == MainOf(p)
  <2>1. UNCHANGED <<opt, result>> /\ At(m, "reduce") /\ pc' = [pc EXCEPT ![m] = pc[m] + 1]
    BY <1>4 DEF LeaveReduce, Advance, Goto
  <2>2. pc[m] = End + N /\ m \in Members
    BY <2>1, ReducePlace, MemberFacts
  <2> HIDE DEF m
  <2>3. \A o \in Members : pc'[o] = IF o = m THEN End + N + 1 ELSE pc[o]
    BY <1>1, <2>1, <2>2
  <2>4. ASSUME NEW q \in Procs, NEW u \in Threads \ {0}, Joined(q, u)' PROVE Joined(q, u)
    <3>1. MainOf(q) \in Members /\ u \in 1 .. N - 1 /\ pc[MainOf(q)] \in Nat
      BY <1>1, MemberFacts, NFacts
    <3>2. pc'[MainOf(q)] > End + N - u
      BY <2>1, <2>4, SameTest DEF Joined, MainOf
    <3>3. pc[MainOf(q)] > End + N - u
      BY <1>1, <2>2, <2>3, <3>1, <3>2
    <3> QED
      BY <3>3 DEF Joined
  <2> QED
    BY <2>1, <2>4, TallySame DEF result
<1>5. ASSUME NEW m \in Members, Check(m) PROVE Tally'
  <2>1. At(m, "check") /\ "check" \in TestNames
    BY <1>5 DEF Check, TestNames, PlainNames
  <2>2. pc[m] \in 1 .. End /\ status[m] = "run"
    BY <2>1, AtFacts
  <2> DEFINE more == IF Reports(m) THEN 1 ELSE 0
             right == recv[m] = {buf[m]}
  <2>3. /\ opt' = opt
        /\ right => wrong' = [wrong EXCEPT ![m] = 0] /\ UNCHANGED <<errors, bad>>
        /\ ~right => /\ wrong' = [wrong EXCEPT ![m] = 1]
                     /\ errors' = [errors EXCEPT ![m] = @ + more]
                     /\ bad' = [bad EXCEPT ![m] = @ \cup {buf[m]}]
    BY <1>5 DEF Check
  <2>4. more \in {0, 1} /\ (more = 1 <=> Reports(m))
    OBVIOUS
  <2> HIDE DEF more, right
  <2>5. /\ wrong' \in [Members -> {0, 1}] /\ errors' \in [Members -> Nat] /\ DOMAIN bad' = Members
        /\ \A o \in Members : /\ errors'[o] >= errors[o] /\ errors[o] \in Nat
                              /\ o # m => errors'[o] = errors[o] /\ bad'[o] = bad[o]
        /\ \/ errors'[m] = errors[m] /\ bad'[m] = bad[m]
           \/ errors'[m] = errors[m] + more /\ bad'[m] = bad[m] \cup {buf[m]}
    BY <2>3, <2>4 DEF Tally
  <2>6. ASSUME opt.datacheck > 0
        PROVE  /\ \A o \in Members : Found(o)' => errors'[o] > 0
               /\ \A o \in Members : errors'[o] > 0 => \E x \in Members : Found(x)'
    <3>1. more = 1 <=> Counts(buf[m])
      BY <2>4, <2>6 DEF Reporting
    <3>2. \A rep : Counts(rep)' <=> Counts(rep)
      BY <2>3 DEF Counts
    <3>3. \A o \in Members : Found(o) => Found(o)'
      BY <2>5, <3>2 DEF Found
    <3>4. /\ \A o \in Members : Found(o) => errors[o] > 0
          /\ \A o \in Members : errors[o] > 0 => \E x \in Members : Found(x)
      BY <2>6 DEF Tally
    <3>5. ASSUME NEW o \in Members, Found(o)' PROVE errors'[o] > 0
      <4>1. PICK rep \in bad'[o] : Counts(rep)
        BY <3>2, <3>5 DEF Found
      <4>2. CASE rep \in bad[o]
        <5>1. Found(o)
          BY <4>1, <4>2 DEF Found
        <5> QED
          BY <2>5, <3>4, <5>1
      <4>3. CASE rep \notin bad[o]
        <5>1. o = m /\ rep = buf[m] /\ errors'[m] = errors[m] + more
          BY <2>5, <4>1, <4>3
        <5> QED
          BY <2>5, <3>1, <4>1, <5>1
      <4> QED
        BY <4>2, <4>3
    <3>6. ASSUME NEW o \in Members, errors'[o] > 0 PROVE \E x \in Members : Found(x)'
      <4>1. CASE errors[o] > 0
        BY <3>3, <3>4, <4>1
      <4>2. CASE ~(errors[o] > 0)
        <5>1. o = m /\ more = 1 /\ buf[m] \in bad'[m]
          BY <2>4, <2>5, <3>6, <4>2
        <5>2. Found(m)'
          BY <3>1, <3>2, <5>1 DEF Found
        <5> QED
          BY <5>2
      <4> QED
        BY <4>1, <4>2
    <3> QED
      BY <3>5, <3>6
  <2>7. ASSUME NEW p \in Procs, NEW t \in Threads \ {0}, Joined(p, t)', errors'[<<p, t>>] > 0
        PROVE  errors'[MainOf(p)] > 0
    <3>1. Joined(p, t)
      BY <1>5, <2>7, TestStepPlace DEF Steps
    <3>2. <<p, t>> # m
      BY <2>2, <3>1 DEF Control
    <3>3. MainOf(p) \in Members /\ <<p, t>> \in Members
      BY MemberFacts
    <3>4. errors[MainOf(p)] > 0
      BY <2>5, <2>7, <3>1, <3>2, <3>3 DEF Tally
    <3> QED
      BY <2>5, <3>3, <3>4
  <2> QED
    BY <2>3, <2>5, <2>6, <2>7 DEF Tally, MainOf
<1>6. ASSUME NEW m \in Members, Steps(m), ~Check(m) PROVE Tally'
  <2>1. UNCHANGED <<wrong, errors, bad>>
    <3>1. LeaveAllreduce(m) => UNCHANGED result
      BY LeaveAllreducePlace
    <3>2. EnterAllreduce(m) => UNCHANGED <<wrong, errors, bad>>
      BY DEF EnterAllreduce
    <3> QED
      BY <1>6, <3>1, <3>2 DEF Steps, MovesOn, EnterBarrier, LeaveBarrier, Return, Stops, result
  <2>2. UNCHANGED opt /\ \A p \in Procs, t \in Threads \ {0} : Joined(p, t)' => Joined(p, t)
    BY <1>6, TestStepPlace
  <2> QED
    BY <2>1, <2>2, TallySame
<1>7. ASSUME NEW p \in Procs, Join(p) PROVE Tally'
  <2> DEFINE m == MainOf(p)
             t == Here(m).thread
             o == <<p, t>>
  <2>1. At(m, "join") /\ UNCHANGED <<opt, wrong, bad>>
    BY <1>7 DEF Join
  <2>2. /\ pc[m] > End /\ pc[m] < End + N /\ t \in Threads \ {0} /\ t = N - (pc[m] - End)
        /\ m \in Members /\ o \in Members
    BY <2>1, JoinPlace, MemberFacts
  <2>3. \/ /\ status[o] = "done" /\ pc' = [pc EXCEPT ![m] = pc[m] + 1]
           /\ errors' = [errors EXCEPT ![m] = errors[m] + errors[o]]
        \/ UNCHANGED <<pc, errors>>
    BY <1>7 DEF Join, Succeeded, Advance, Goto, Add
  <2> HIDE DEF m, t
  <2>4. CASE UNCHANGED <<pc, errors>>
    BY <2>1, <2>4, SameTest, TallySame DEF Joined, MainOf
  <2>5. CASE /\ status[o] = "done" /\ pc' = [pc EXCEPT ![m] = pc[m] + 1]
             /\ errors' = [errors EXCEPT ![m] = errors[m] + errors[o]]
    <3>1. /\ errors' \in [Members -> Nat] /\ errors'[m] = errors[m] + errors[o]
          /\ errors[m] \in Nat /\ errors[o] \in Nat
          /\ \A x \in Members : x # m => errors'[x] = errors[x] /\ pc'[x] = pc[x]
          /\ pc'[m] = pc[m] + 1
      BY <1>1, <2>2, <2>5 DEF Tally
    <3>2. Test' = Test /\ End' = End /\ \A x \in Members : Found(x)' <=> Found(x)
      BY <2>1, SameTest DEF Found, Counts
    <3>3. errors'[m] > 0 => errors[m] > 0 \/ errors[o] > 0
      BY <3>1
    <3>4. \A x \in Members : errors'[x] >= errors[x] /\ errors[x] \in Nat
      BY <3>1 DEF Tally
    <3>5. ASSUME opt.datacheck > 0, NEW x \in Members
          PROVE  /\ Found(x)' => errors'[x] > 0
                 /\ errors'[x] > 0 => \E y \in Members : Found(y)'
      <4>1. /\ \A y \in Members : Found(y) => errors[y] > 0
            /\ \A y \in Members : errors[y] > 0 => \E z \in Members : Found(z)
        BY <3>5 DEF Tally
      <4>2. Found(x)' => errors'[x] > 0
        <5>1. errors'[x] >= errors[x] /\ errors[x] \in Nat /\ errors'[x] \in Nat
          BY <3>1, <3>4
        <5>2. Found(x)' => errors[x] > 0
          BY <3>2, <4>1
        <5> QED
          BY <5>1, <5>2
      <4>3. ASSUME errors'[x] > 0 PROVE \E y \in Members : Found(y)
        BY <2>2, <3>1, <3>3, <4>1, <4>3
      <4> QED
        BY <3>2, <4>2, <4>3
    <3>6. ASSUME NEW q \in Procs, NEW u \in Threads \ {0}, Joined(q, u)', errors'[<<q, u>>] > 0
          PROVE  errors'[MainOf(q)] > 0
      <4>1. /\ u \in 1 .. N - 1 /\ MainOf(q) \in Members /\ <<q, u>> \in Members
            /\ <<q, u>> # m /\ errors'[<<q, u>>] = errors[<<q, u>>]
        BY <3>1, NFacts, MemberFacts DEF m, MainOf
      <4>2. pc'[MainOf(q)] > End + N - u
        BY <3>2, <3>6 DEF Joined, MainOf
      <4>3. CASE q # p
        <5>1. MainOf(q) # m
          BY <4>3 DEF m, MainOf
        <5> QED
          BY <3>1, <3>6, <4>1, <4>2, <5>1 DEF Tally, Joined
      <4>4. CASE q = p
        <5>1. u = t \/ pc[m] > End + N - u
          BY <1>1, <2>2, <3>1, <4>1, <4>2, <4>4 DEF m
        <5>2. CASE u = t
          BY <3>1, <3>6, <4>1, <4>4, <5>2 DEF m
        <5>3. CASE pc[m] > End + N - u
          <6>1. errors[m] > 0
            BY <3>6, <4>1, <4>4, <5>3 DEF Tally, Joined, m
          <6> QED
            BY <3>1, <4>4, <6>1 DEF m
        <5> QED
          BY <5>1, <5>2, <5>3
      <4> QED
        BY <4>3, <4>4
    <3> QED
      BY <2>1, <3>1, <3>5, <3>6 DEF Tally, MainOf
  <2> QED
    BY <2>3, <2>4, <2>5
<1> QED
  BY <1>2, <1>3, <1>4, <1>5, <1>6, <1>7, StepCases

-----------------------------------------------------------------------------
(* The verdict.                                                            *)

\* The sum over the processes is zero only if every main thread counts none.
LEMMA AllErrorsZero ==
    ASSUME Tally, NEW p
    PROVE  AllErrors(p) = 0 <=> \A q \in Procs : errors[MainOf(q)] = 0
<1> DEFINE f == [q \in Procs |-> errors[MainOf(q)]]
<1>1. \A q \in Procs : f[q] = errors[MainOf(q)] /\ f[q] \in Nat
  BY MemberFacts DEF Tally
<1>2. AllErrors(p) = SumFunctionOnSet(f, Procs)
  BY DEF AllErrors, SumFunction, SumFunctionOnSet
<1> HIDE DEF f
<1>3. SumFunctionOnSet(f, Procs) = 0 <=> \A q \in Procs : f[q] = 0
  BY <1>1, NFacts, SumZero
<1> QED
  BY <1>1, <1>2, <1>3

\* Once there is a verdict the main threads are all at the reduction: no step
\* changes their errors any more.
LEMMA JudgedStep ==
    ASSUME Control, Reducing, Calls, Tally, Judged, [Next]_vars
    PROVE  Judged'
<1>1. N \in Nat \ {0} /\ End \in Nat /\ pc \in [Members -> Nat \ {0}]
  BY NFacts, TestFacts DEF Control
<1>2. ASSUME NEW p \in Procs, exit[p] \in Verdicts
      PROVE  \A q \in Procs : pc[MainOf(q)] \in {End + N, End + N + 1}
  BY <1>2 DEF Reducing, Behind
<1>3. "none" \notin Verdicts /\ Failures \cap Verdicts = {}
  BY DEF Verdicts, Failures
<1>4. ASSUME \A p \in Procs : \/ exit'[p] = exit[p]
                              \/ exit[p] = "none" /\ exit'[p] \notin Verdicts,
             slow' = slow,
             \A p \in Procs : exit[p] \in Verdicts =>
                \A q \in Procs : errors'[MainOf(q)] = errors[MainOf(q)]
      PROVE  Judged'
  BY <1>4 DEF Judged, Verdicts, MainOf
<1>5. CASE UNCHANGED <<exit, errors, slow>>
  BY <1>4, <1>5
<1>6. ASSUME NEW m \in Members, Check(m) PROVE Judged'
  <2>1. At(m, "check") /\ "check" \in TestNames /\ UNCHANGED <<exit, slow>>
    BY <1>6 DEF Check, TestNames, PlainNames
  <2>2. pc[m] \in 1 .. End
    BY <2>1, AtFacts
  <2>3. \A o \in Members : o # m => errors'[o] = errors[o]
    <3>1. errors' = errors \/ \E x : errors' = [errors EXCEPT ![m] = x]
      BY <1>6 DEF Check
    <3> QED
      BY <3>1 DEF Tally
  <2>4. \A q \in Procs : pc[MainOf(q)] \in {End + N, End + N + 1} => MainOf(q) # m
    BY <1>1, <2>2
  <2> QED
    BY <1>2, <1>4, <2>1, <2>3, <2>4, MemberFacts
<1>7. ASSUME NEW m \in Members, Stops(m) PROVE Judged'
  <2>1. UNCHANGED <<errors, slow>>
    BY <1>7 DEF Stops, result
  <2>2. exit' = exit \/ \E how \in Failures : exit' = [exit EXCEPT ![m[1]] = how]
    BY <1>7, StopsPlace
  <2>3. \A p \in Procs : exit'[p] = exit[p] \/ (exit[p] = "none" /\ exit'[p] \notin Verdicts)
    <3>1. exit[m[1]] = "none"
      BY <1>7, StopsPlace
    <3> QED
      BY <1>3, <2>2, <3>1 DEF Control
  <2> QED
    BY <1>4, <2>1, <2>3
<1>8. ASSUME NEW m \in Members, Steps(m), ~Check(m), ~Stops(m) PROVE Judged'
  <2>1. UNCHANGED <<exit, errors, slow>>
    <3>1. LeaveAllreduce(m) => UNCHANGED <<exit, errors, slow>>
      BY LeaveAllreducePlace DEF result
    <3> QED
      BY <1>8, <3>1 DEF Steps, MovesOn, EnterBarrier, LeaveBarrier, EnterAllreduce, Return, result
  <2> QED
    BY <1>5, <2>1
<1>9. ASSUME NEW p \in Procs, Join(p) PROVE Judged'
  <2>1. At(MainOf(p), "join") /\ slow' = slow
    BY <1>9 DEF Join
  <2>2. pc[MainOf(p)] < End + N /\ exit[p] = "none"
    BY <2>1, JoinPlace
  <2>3. \A q \in Procs : exit[q] \notin Verdicts
    BY <1>1, <1>2, <2>2, MemberFacts
  <2>4. exit' = exit \/ \E how \in Failures : exit' = [exit EXCEPT ![p] = how]
    BY <1>9 DEF Join, EarlyReturn, Failures
  <2>5. \A q \in Procs : exit'[q] = exit[q] \/ (exit[q] = "none" /\ exit'[q] \notin Verdicts)
    BY <1>3, <2>2, <2>4 DEF Control
  <2> QED
    BY <1>4, <2>1, <2>3, <2>5
<1>10. ASSUME NEW p \in Procs, EnterReduce(p) \/ LeaveReduce(p) PROVE Judged'
  BY <1>5, <1>10 DEF EnterReduce, LeaveReduce, result
<1>12. ASSUME NEW p \in Procs, FailToFree(p) PROVE Judged'
  <2>1. UNCHANGED <<errors, slow>> /\ \E how \in Failures : exit' = [exit EXCEPT ![p] = how]
    BY <1>12 DEF FailToFree, EarlyReturn, Failures, result
  <2>2. \A q \in Procs : exit'[q] = exit[q] \/ (exit[q] = "none" /\ exit'[q] \notin Verdicts)
    <3>1. exit[p] = "none"
      BY <1>12, FreePlace DEF FailToFree
    <3> QED
      BY <1>3, <2>1, <3>1 DEF Control
  <2> QED
    BY <1>4, <2>1, <2>2
<1>11. ASSUME NEW p \in Procs, Exit(p) PROVE Judged'
  <2>1. exit[p] = "none" /\ UNCHANGED errors
    BY <1>11, FreePlace DEF Exit, result
  <2>2. PICK tooSlow \in BOOLEAN :
           /\ slow' = IF tooSlow THEN slow \cup {p} ELSE slow
           /\ exit' = [exit EXCEPT ![p] =
                         IF AllErrors(p) # 0 \/ tooSlow THEN "numResults" ELSE "success"]
    BY <1>11 DEF Exit
  <2> DEFINE how == IF AllErrors(p) # 0 \/ tooSlow THEN "numResults" ELSE "success"
  <2>3. /\ how = "success" => ~tooSlow /\ \A q \in Procs : errors[MainOf(q)] = 0
        /\ how = "numResults" => tooSlow \/ \E q \in Procs : errors[MainOf(q)] # 0
    BY AllErrorsZero
  <2>4. exit' = [exit EXCEPT ![p] = how]
    BY <2>2
  <2> HIDE DEF how
  <2>5. \A q \in Procs : errors[MainOf(q)] \in Nat
    BY MemberFacts DEF Tally
  <2>6. \A q \in Procs : exit'[q] = IF q = p THEN how ELSE exit[q]
    BY <2>4 DEF Control
  <2>7. \A q \in Procs : q # p => (q \in slow' <=> q \in slow)
    BY <2>2
  <2>8. tooSlow => p \in slow'
    BY <2>2
  <2>9. p \notin slow
    BY <2>1 DEF Judged
  <2>10. ~tooSlow => p \notin slow'
    BY <2>2, <2>9
  <2>11. \A q \in Procs : MainOf(q)' = MainOf(q) /\ errors'[MainOf(q)] = errors[MainOf(q)]
    BY <2>1 DEF MainOf
  <2>13. ASSUME NEW q \in Procs, q # p
         PROVE  /\ exit'[q] = "success" => q \notin slow' /\ \A r \in Procs : errors[MainOf(r)] = 0
                /\ exit'[q] = "numResults" => q \in slow' \/ \E r \in Procs : errors[MainOf(r)] > 0
                /\ q \in slow' => exit'[q] = "numResults"
    BY <2>6, <2>7, <2>13 DEF Judged
  <2>14. /\ exit'[p] = "success" => p \notin slow' /\ \A r \in Procs : errors[MainOf(r)] = 0
         /\ exit'[p] = "numResults" => p \in slow' \/ \E r \in Procs : errors[MainOf(r)] > 0
         /\ p \in slow' => exit'[p] = "numResults"
    <3>1. exit'[p] = how /\ (tooSlow => how = "numResults")
      BY <2>6 DEF how
    <3>2. \A r \in Procs : errors[MainOf(r)] # 0 => errors[MainOf(r)] > 0
      BY <2>5
    <3> QED
      BY <2>3, <2>8, <2>10, <3>1, <3>2
  <2> QED
    BY <2>11, <2>13, <2>14 DEF Judged
<1> QED
  BY <1>5, <1>6, <1>7, <1>8, <1>9, <1>10, <1>11, <1>12, StepCases DEF Idle, result

-----------------------------------------------------------------------------
(* The theorems.                                                           *)

IInv == /\ Control /\ Reducing /\ FaultShows /\ Calls /\ Together
        /\ Reporting /\ Tally /\ Judged

LEMMA InitIInv ==
    ASSUME Init
    PROVE  IInv
<1>1. N \in Nat \ {0} /\ End \in Nat /\ opt \in Options
  BY NFacts, TestFacts DEF Init
<1>2. Control
  BY <1>1, MemberFacts, NFacts DEF Init, Control, Statuses, Joined
<1>3. Reducing
  <2>1. N \in Nat \ {0} /\ \A p \in Procs : pc[MainOf(p)] = 1
    BY NFacts, MemberFacts DEF Init
  <2>2. \A p \in Procs : ~Behind(p)
    BY <1>1, <2>1 DEF Behind
  <2> QED
    BY <2>2 DEF Init, R!Init, Reducing, Verdicts
<1>4. FaultShows
  BY DEF Init, FaultShows
<1>5. Calls
  <2>1. ASSUME NEW m \in Members PROVE Own(m)
    BY DEF Init, A!Init, B!Init, A!Inside, B!Inside, Own
  <2> QED
    BY <2>1 DEF Init, A!Init, B!Init, Calls
<1>6. Together
  <2>1. ASSUME NEW m \in Members, NEW o \in Members PROVE Pair(m, o)
    <3>1. pc[m] = 1 /\ pc[o] = 1 /\ bLeft[m] = bLeft[o] /\ aLeft[m] = aLeft[o]
      BY DEF Init, A!Init, B!Init
    <3> QED
      BY <3>1, SameItself DEF Pair, Level
  <2> QED
    BY <2>1 DEF Together
<1>7. Tally
  <2>1. errors = Zero /\ wrong = Zero /\ bad = [m \in Members |-> {}]
    BY DEF Init
  <2>2. \A m \in Members : errors[m] = 0 /\ ~Found(m)
    BY <2>1 DEF Zero, Found
  <2> QED
    BY <2>1, <2>2, MemberFacts DEF Zero, Tally
<1>9. Reporting
  <2>1. /\ buf = [m \in Members |-> Garbage] /\ reportErrors = [m \in Members |-> opt.datacheck]
        /\ opt.datacheck \in Nat
    BY <1>1, OptionsAssumption DEF Init, OptionsAssumption, CommandLine
  <2>2. \A m \in Members : Counts(buf[m])
    BY <2>1 DEF Counts, Garbage
  <2>3. opt.datacheck > 0 => \A m \in Members : Reports(m)
    BY <2>1 DEF Reports
  <2> QED
    BY <2>1, <2>2, <2>3 DEF Reporting
<1>8. Judged
  BY DEF Init, Judged
<1> QED
  BY <1>2, <1>3, <1>4, <1>5, <1>6, <1>7, <1>8, <1>9 DEF IInv

\* The inductive invariant: where every thread stands, what it has entered and
\* left, what it voted and counted, and what the processes concluded from it.
THEOREM HarnessInvariance == Spec => []IInv
<1>1. ASSUME IInv, [Next]_vars PROVE IInv'
  <2>1. /\ Control /\ Reducing /\ FaultShows /\ Calls /\ Together
        /\ Reporting /\ Tally /\ Judged
    BY <1>1 DEF IInv
  <2> QED
    BY <1>1, <2>1, ControlStep, ReducingStep, FaultShowsStep, CallsStep, TogetherStep,
       ReportingStep, TallyStep, JudgedStep DEF IInv
<1> QED
  BY <1>1, InitIInv, PTL DEF Spec

\* Once a process is behind the reduction, every main thread has come to it and
\* every other thread has returned without an error.
LEMMA BehindFacts ==
    ASSUME IInv, NEW p \in Procs, Behind(p)
    PROVE  /\ \A q \in Procs : pc[MainOf(q)] \in {End + N, End + N + 1}
           /\ \A q \in Procs : exit[q] \in Failures => q \in unfreed
           /\ \A m \in Members : /\ status[m] # "failed"
                                 /\ m[2] # 0 => Joined(m[1], m[2])
<1>1. N \in Nat \ {0} /\ End \in Nat
  BY NFacts, TestFacts DEF IInv, Control
<1>2. \A q \in Procs : \/ Behind(q)
                       \/ pc[MainOf(q)] = End + N /\ exit[q] = "none"
  BY DEF IInv, Reducing
<1>3. \A q \in Procs : pc[MainOf(q)] \in {End + N, End + N + 1}
  BY <1>2 DEF Behind
<1>4. \A q \in Procs : exit[q] \in Failures => q \in unfreed
  BY <1>2 DEF IInv, Reducing, Failures
<1>5. ASSUME NEW m \in Members PROVE status[m] # "failed" /\ (m[2] # 0 => Joined(m[1], m[2]))
  <2>1. m[1] \in Procs /\ m[2] \in Threads /\ m = <<m[1], m[2]>>
    BY MemberFacts
  <2>2. CASE m[2] = 0
    BY <2>1, <2>2, MemberFacts DEF IInv, Control
  <2>3. CASE m[2] # 0
    <3>1. m[2] \in 1 .. N - 1 /\ pc[MainOf(m[1])] \in {End + N, End + N + 1}
      BY <1>3, <2>1, <2>3, NFacts
    <3>2. Joined(m[1], m[2])
      BY <1>1, <3>1 DEF Joined
    <3>3. status[<<m[1], m[2]>>] = "done"
      BY <2>1, <2>3, <3>2 DEF IInv, Control
    <3> QED
      BY <2>1, <3>2, <3>3
  <2> QED
    BY <2>2, <2>3
<1> QED
  BY <1>3, <1>4, <1>5

\* No failed call of a test is lost (1126-1128, 1870-1888): a process that reaches
\* a verdict has had every process reduce its errors, and a process does so only
\* when all its threads have returned without an error.  What may still fail then
\* is the freeing (1894-1929), in a process that gets no verdict of its own.
THEOREM NoFaultIsLost == Spec => []NoVerdictAfterFault
<1>1. ASSUME IInv PROVE NoVerdictAfterFault
  <2>1. SUFFICES ASSUME NEW p \in Procs, exit[p] \in Verdicts
                 PROVE  /\ faults = 0
                        /\ \A m \in Members : status[m] # "failed"
                        /\ \A q \in Procs : exit[q] \in Failures => q \in unfreed
    BY DEF NoVerdictAfterFault, Verdicts, Failures
  <2>2. Behind(p)
    BY <1>1, <2>1 DEF IInv, Reducing
  <2>3. /\ \A m \in Members : status[m] # "failed"
        /\ \A q \in Procs : exit[q] \in Failures => q \in unfreed
    BY <1>1, <2>2, BehindFacts
  <2>4. ~(faults > 0)
    BY <1>1, <2>3 DEF IInv, FaultShows
  <2>5. faults \in Nat
    BY <1>1 DEF IInv, FaultShows
  <2> QED
    BY <2>3, <2>4, <2>5
<1> QED
  BY <1>1, HarnessInvariance, PTL

\* The exit code tells the truth (449-494, 1880, 1888, 1955): a check that fails
\* in a repetition that counts is counted by its thread, by the main thread that
\* joins it, and by everyone; apart from the bandwidth nothing else is.
THEOREM VerdictTheorem == Spec => []VerdictIsTrue
<1>1. ASSUME IInv PROVE VerdictIsTrue
  <2>1. N \in Nat \ {0} /\ End \in Nat /\ errors \in [Members -> Nat]
    BY <1>1, NFacts, TestFacts DEF IInv, Control, Tally
  <2>2. SUFFICES ASSUME opt.datacheck > 0, NEW p \in Procs
                 PROVE  /\ exit[p] = "success" =>
                              p \notin slow /\ \A m \in Members : ~Found(m)
                        /\ exit[p] = "numResults" => p \in slow \/ \E m \in Members : Found(m)
    BY DEF VerdictIsTrue, Found
  <2>3. /\ \A m \in Members : Found(m) => errors[m] > 0
        /\ \A m \in Members : errors[m] > 0 => \E o \in Members : Found(o)
    BY <1>1, <2>2 DEF IInv, Tally
  <2>4. ASSUME exit[p] = "success", NEW m \in Members, Found(m) PROVE FALSE
    <3>1. Behind(p)
      BY <1>1, <2>4 DEF IInv, Reducing, Verdicts
    <3>2. m[1] \in Procs /\ m[2] \in Threads /\ m = <<m[1], m[2]>> /\ errors[m] > 0
      BY <2>3, <2>4, MemberFacts
    <3>3. errors[MainOf(m[1])] > 0
      <4>1. CASE m[2] = 0
        BY <3>2, <4>1, MemberFacts
      <4>2. CASE m[2] # 0
        <5>1. Joined(m[1], m[2])
          BY <1>1, <3>1, <4>2, BehindFacts
        <5> QED
          BY <1>1, <3>2, <4>2, <5>1 DEF IInv, Tally
      <4> QED
        BY <4>1, <4>2
    <3>4. errors[MainOf(m[1])] = 0
      BY <1>1, <2>4, <3>2 DEF IInv, Judged
    <3> QED
      BY <3>3, <3>4
  <2>5. ASSUME exit[p] = "numResults", p \notin slow PROVE \E m \in Members : Found(m)
    <3>1. PICK q \in Procs : errors[MainOf(q)] > 0
      BY <1>1, <2>5 DEF IInv, Judged
    <3> QED
      BY <2>3, <3>1, MemberFacts
  <2>6. exit[p] = "success" => p \notin slow
    BY <1>1 DEF IInv, Judged
  <2> QED
    BY <2>4, <2>5, <2>6
<1> QED
  BY <1>1, HarnessInvariance, PTL

\* Lockstep of Barrier() and Allreduce() (common.cu 720-926): two threads in the
\* same call stand at the same line, whichever vote made whom break at 883.
THEOREM LockstepTheorem == Spec => []Lockstep
<1>1. ASSUME IInv PROVE Lockstep
  <2>1. SUFFICES ASSUME NEW m \in Members, NEW o \in Members,
                        \/ B!Inside(m) /\ B!Inside(o) /\ bEntered[m] = bEntered[o]
                        \/ A!Inside(m) /\ A!Inside(o) /\ aEntered[m] = aEntered[o]
                 PROVE  pc[m] = pc[o]
    BY DEF Lockstep
  <2>2. Control /\ Calls /\ Pair(m, o)
    BY <1>1 DEF IInv, Together
  <2>3. Meets(Test, pc[m]) /\ Meets(Test, pc[o]) /\ pc[m] \in Nat /\ pc[o] \in Nat
    BY <2>1, <2>2, InsidePlace
  <2>4. Level(m, o)
    BY <2>1, <2>2, InsidePlace DEF Pair, AheadByBarrier, AheadByAllreduce
  <2> QED
    BY <2>3, <2>4, SameFacts DEF Level
<1> QED
  BY <1>1, HarnessInvariance, PTL
=============================================================================
