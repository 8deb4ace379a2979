------------------------------ MODULE GinProofs ------------------------------
(***************************************************************************)
(* Machine-checked proofs about the GIN tests (src/device_api/gin) for     *)
(* every configuration: any number of blocks, threads and iterations, any  *)
(* depth of the send queue.                                                *)
(*                                                                         *)
(* A program is laid out by iterations (Laid): each posts once, and after  *)
(* its post may flush once.  The threads of a block have passed the same   *)
(* flushes, so what they have posted since lies in one window between two  *)
(* of them, of at most flushEvery iterations.  The inductive invariant     *)
(* (GinInv) says of either rank that a queue holds no more than the posts  *)
(* pending in that window, and, between the events, that the operations    *)
(* completed and the ones in the queues are together those posted.         *)
(***************************************************************************)
EXTENDS GinTests, FoldLemmas, FiniteSetTheorems, SequenceTheorems

-----------------------------------------------------------------------------
(* The programs of the threads.                                            *)

Others == {"gather", "meet", "turn", "count", "reset"}
Steps == [do : {"post", "flush"} \cup Others, i : Nat]

\* Step x may come before y.
Precedes(x, y) ==
    /\ x.i <= y.i
    /\ x.i = y.i /\ x.do \in {"post", "flush"} => y.do # "post"
    /\ x.i = y.i /\ x.do = "flush" => y.do # "flush"

\* The steps p are of the iterations lo .. hi - 1 in order; those in P post,
\* once, and those in F flush, once, and not before they have posted.
Laid(p, lo, hi, P, F) ==
    /\ p \in Seq(Steps)
    /\ \A j \in 1 .. Len(p) : lo <= p[j].i /\ p[j].i < hi
    /\ \A j, k \in 1 .. Len(p) : j < k => Precedes(p[j], p[k])
    /\ \A j \in 1 .. Len(p) : p[j].do = "post" => p[j].i \in P
    /\ \A j \in 1 .. Len(p) : p[j].do = "flush" => p[j].i \in F
    /\ \A i \in P : \E j \in 1 .. Len(p) : p[j].do = "post" /\ p[j].i = i
    /\ \A i \in F : \E j \in 1 .. Len(p) : p[j].do = "flush" /\ p[j].i = i

LEMMA JoinSteps ==
    ASSUME NEW u \in Seq(Steps), NEW v \in Seq(Steps)
    PROVE  /\ u \o v \in Seq(Steps) /\ Len(u \o v) = Len(u) + Len(v)
           /\ Len(u) \in Nat /\ Len(v) \in Nat
           /\ \A j \in 1 .. Len(u) : (u \o v)[j] = u[j] /\ j \in 1 .. Len(u \o v)
           /\ \A j \in 1 .. Len(v) : (u \o v)[Len(u) + j] = v[j] /\ Len(u) + j \in 1 .. Len(u \o v)
           /\ \A j \in 1 .. Len(u \o v) : ~(j \in 1 .. Len(u)) =>
                 j - Len(u) \in 1 .. Len(v) /\ (u \o v)[j] = v[j - Len(u)]
  OBVIOUS

LEMMA LaidJoin ==
    ASSUME NEW u, NEW v, NEW lo \in Nat, NEW mid \in Nat, NEW low \in Nat, NEW hi \in Nat,
           lo <= low, mid <= hi,
           NEW P, NEW Q, NEW F, NEW G, Laid(u, lo, mid, P, F), Laid(v, low, hi, Q, G),
           \A j \in 1 .. Len(u), k \in 1 .. Len(v) : Precedes(u[j], v[k])
    PROVE  Laid(u \o v, lo, hi, P \cup Q, F \cup G)
<1> DEFINE w == u \o v
           m == Len(u)
<1>1. u \in Seq(Steps) /\ v \in Seq(Steps)
  BY DEF Laid
<1>2. /\ w \in Seq(Steps) /\ Len(w) = m + Len(v) /\ m \in Nat /\ Len(v) \in Nat
      /\ \A j \in 1 .. m : w[j] = u[j] /\ j \in 1 .. Len(w)
      /\ \A j \in 1 .. Len(v) : w[m + j] = v[j] /\ m + j \in 1 .. Len(w)
      /\ \A j \in 1 .. Len(w) : ~(j \in 1 .. m) => j - m \in 1 .. Len(v) /\ w[j] = v[j - m]
  BY <1>1, JoinSteps
<1>3. /\ \A j \in 1 .. m : u[j].i \in Nat /\ lo <= u[j].i /\ u[j].i < mid
      /\ \A j \in 1 .. Len(v) : v[j].i \in Nat /\ low <= v[j].i /\ v[j].i < hi
  <2>1. \A j \in 1 .. m : lo <= u[j].i /\ u[j].i < mid
    BY DEF Laid
  <2>2. \A j \in 1 .. Len(v) : low <= v[j].i /\ v[j].i < hi
    BY DEF Laid
  <2>3. /\ \A j \in 1 .. m : u[j] \in Steps
        /\ \A j \in 1 .. Len(v) : v[j] \in Steps
    BY <1>1
  <2> QED
    BY <2>1, <2>2, <2>3 DEF Steps
<1> HIDE DEF w, m
<1>4. ASSUME NEW j \in 1 .. Len(w)
      PROVE  /\ lo <= w[j].i /\ w[j].i < hi
             /\ w[j].do = "post" => w[j].i \in P \cup Q
             /\ w[j].do = "flush" => w[j].i \in F \cup G
  <2>1. CASE j \in 1 .. m
    <3>1. w[j] = u[j] /\ lo <= u[j].i /\ u[j].i < mid /\ u[j].i \in Nat
      BY <1>2, <1>3, <2>1
    <3>2. /\ u[j].do = "post" => u[j].i \in P
          /\ u[j].do = "flush" => u[j].i \in F
      BY <2>1 DEF Laid, m
    <3> QED
      BY <3>1, <3>2
  <2>2. CASE ~(j \in 1 .. m)
    <3> DEFINE k == j - m
    <3>1. k \in 1 .. Len(v) /\ w[j] = v[k]
      BY <1>2, <2>2
    <3>2. low <= v[k].i /\ v[k].i < hi /\ v[k].i \in Nat
      BY <1>3, <3>1
    <3> HIDE DEF k
    <3>3. /\ v[k].do = "post" => v[k].i \in Q
          /\ v[k].do = "flush" => v[k].i \in G
      BY <3>1 DEF Laid
    <3> QED
      BY <3>1, <3>2, <3>3
  <2> QED
    BY <2>1, <2>2
<1>5. ASSUME NEW j \in 1 .. Len(w), NEW k \in 1 .. Len(w), j < k
      PROVE  Precedes(w[j], w[k])
  <2>1. CASE k \in 1 .. m
    <3>1. j \in 1 .. m /\ w[j] = u[j] /\ w[k] = u[k]
      <4>1. m \in Nat /\ \A i \in 1 .. m : w[i] = u[i]
        BY <1>2
      <4>2. j \in 1 .. m
        BY <4>1, <1>5, <2>1
      <4> QED
        BY <4>1, <4>2, <2>1
    <3> QED
      BY <3>1, <2>1, <1>5 DEF Laid, m
  <2>2. CASE j \in 1 .. m /\ ~(k \in 1 .. m)
    <3>1. w[j] = u[j] /\ w[k] = v[k - m] /\ k - m \in 1 .. Len(v)
      BY <1>2, <2>2
    <3> QED
      BY <3>1, <2>2 DEF m
  <2>3. CASE ~(j \in 1 .. m)
    <3>1. ~(k \in 1 .. m) /\ j - m < k - m
      BY <1>2, <1>5, <2>3
    <3>2. w[j] = v[j - m] /\ w[k] = v[k - m] /\ k - m \in 1 .. Len(v) /\ j - m \in 1 .. Len(v)
      BY <1>2, <2>3, <3>1
    <3> QED
      BY <3>1, <3>2 DEF Laid
  <2> QED
    BY <2>1, <2>2, <2>3
<1>6. ASSUME NEW i \in P \cup Q
      PROVE  \E j \in 1 .. Len(w) : w[j].do = "post" /\ w[j].i = i
  <2>1. CASE i \in P
    <3>1. PICK j \in 1 .. m : u[j].do = "post" /\ u[j].i = i
      BY <2>1 DEF Laid, m
    <3> QED
      BY <3>1, <1>2
  <2>2. CASE i \in Q
    <3>1. PICK j \in 1 .. Len(v) : v[j].do = "post" /\ v[j].i = i
      BY <2>2 DEF Laid
    <3> QED
      BY <3>1, <1>2
  <2> QED
    BY <2>1, <2>2
<1>7. ASSUME NEW i \in F \cup G
      PROVE  \E j \in 1 .. Len(w) : w[j].do = "flush" /\ w[j].i = i
  <2>1. CASE i \in F
    <3>1. PICK j \in 1 .. m : u[j].do = "flush" /\ u[j].i = i
      BY <2>1 DEF Laid, m
    <3> QED
      BY <3>1, <1>2
  <2>2. CASE i \in G
    <3>1. PICK j \in 1 .. Len(v) : v[j].do = "flush" /\ v[j].i = i
      BY <2>2 DEF Laid
    <3> QED
      BY <3>1, <1>2
  <2> QED
    BY <2>1, <2>2
<1> QED
  BY <1>2, <1>4, <1>5, <1>6, <1>7 DEF Laid, w

\* One step that neither posts nor flushes, one that does.
LEMMA LaidOne ==
    ASSUME NEW i \in Nat, NEW do \in {"post", "flush"} \cup Others, NEW P, NEW F,
           P = IF do = "post" THEN {i} ELSE {}, F = IF do = "flush" THEN {i} ELSE {}
    PROVE  Laid(<<Step(do, i)>>, i, i + 1, P, F)
<1> DEFINE p == <<Step(do, i)>>
<1>1. Step(do, i) \in Steps /\ Step(do, i).i = i /\ Step(do, i).do = do
  BY DEF Step, Steps
<1>2. p \in Seq(Steps) /\ Len(p) = 1 /\ p[1] = Step(do, i)
  BY <1>1
<1>3. \A j \in 1 .. Len(p) : j = 1 /\ p[j].i = i /\ p[j].do = do
  BY <1>1, <1>2
<1> HIDE DEF p
<1>4. 1 \in 1 .. Len(p)
  BY <1>2
<1>5. (do = "post" => P = {i}) /\ (do # "post" => P = {}) /\ (do = "flush" => F = {i}) /\ (do # "flush" => F = {})
  OBVIOUS
<1> QED
  BY <1>2, <1>3, <1>4, <1>5 DEF Laid, p

LEMMA LaidNone ==
    ASSUME NEW lo, NEW hi PROVE Laid(<<>>, lo, hi, {}, {})
<1>1. <<>> \in Seq(Steps) /\ Len(<<>>) = 0
  OBVIOUS
<1> QED
  BY <1>1 DEF Laid

\* Steps of later iterations come after.
LEMMA LaidAfter ==
    ASSUME NEW u, NEW v, NEW lo \in Nat, NEW mid \in Nat, NEW hi \in Nat, lo <= mid, mid <= hi,
           NEW P, NEW Q, NEW F, NEW G, Laid(u, lo, mid, P, F), Laid(v, mid, hi, Q, G)
    PROVE  Laid(u \o v, lo, hi, P \cup Q, F \cup G)
<1>1. ASSUME NEW j \in 1 .. Len(u), NEW k \in 1 .. Len(v) PROVE Precedes(u[j], v[k])
  <2>1. u \in Seq(Steps) /\ v \in Seq(Steps)
    BY DEF Laid
  <2>2. u[j] \in Steps /\ v[k] \in Steps
    BY <2>1
  <2>3. u[j].i < mid /\ mid <= v[k].i
    BY DEF Laid
  <2>4. u[j].i < v[k].i /\ u[j].i \in Nat /\ v[k].i \in Nat
    BY <2>2, <2>3 DEF Steps
  <2> QED
    BY <2>4 DEF Precedes
<1> QED
  BY <1>1, LaidJoin

\* Steps of the same iteration: a post after no post and no flush.
LEMMA LaidWithin ==
    ASSUME NEW u, NEW v, NEW i \in Nat,
           NEW P, NEW Q, NEW F, NEW G, Laid(u, i, i + 1, P, F), Laid(v, i, i + 1, Q, G),
           Q # {} => P = {} /\ F = {}, G # {} => F = {}
    PROVE  Laid(u \o v, i, i + 1, P \cup Q, F \cup G)
<1>1. ASSUME NEW j \in 1 .. Len(u), NEW k \in 1 .. Len(v) PROVE Precedes(u[j], v[k])
  <2>1. u \in Seq(Steps) /\ v \in Seq(Steps)
    BY DEF Laid
  <2>2. u[j] \in Steps /\ v[k] \in Steps
    BY <2>1
  <2>3. /\ i <= u[j].i /\ u[j].i < i + 1 /\ i <= v[k].i /\ v[k].i < i + 1
    BY DEF Laid
  <2>4. u[j].i = i /\ v[k].i = i
    BY <2>2, <2>3 DEF Steps
  <2>5. /\ u[j].do = "post" => P # {}
        /\ u[j].do = "flush" => F # {}
        /\ v[k].do = "post" => Q # {}
        /\ v[k].do = "flush" => G # {}
    BY DEF Laid
  <2> QED
    BY <2>4, <2>5 DEF Precedes
<1>2. i + 1 \in Nat
  OBVIOUS
<1> QED
  BY <1>1, <1>2, LaidJoin

\* The iterations that flush: what LoopFlush goes by.
LoopFlushes(c, i) == (c.type = "ping" /\ c.op # "put_counter") \/ (c.skip /\ i % flushEvery(c) = 0)

LEMMA LaidIteration ==
    ASSUME NEW c \in Configs, NEW r \in Ranks, NEW t, NEW i \in Nat
    PROVE  Laid(Iteration(c, r, t, i), i, i + 1, {i}, IF LoopFlushes(c, i) THEN {i} ELSE {})
<1> DEFINE F == IF LoopFlushes(c, i) THEN {i} ELSE {}
           S(do) == <<Step(do, i)>>
<1>1. Valid(c)
  BY ConfigsAssumption
<1>2. /\ Laid(S("post"), i, i + 1, {i}, {})
      /\ Laid(S("flush"), i, i + 1, {}, {i})
      /\ \A do \in {"gather", "meet", "turn", "count"} : Laid(S(do), i, i + 1, {}, {})
  <2>1. Laid(<<Step("post", i)>>, i, i + 1, {i}, {})
    BY LaidOne DEF Others
  <2>2. Laid(<<Step("flush", i)>>, i, i + 1, {}, {i})
    BY LaidOne DEF Others
  <2>3. ASSUME NEW do \in {"gather", "meet", "turn", "count"} PROVE Laid(S(do), i, i + 1, {}, {})
    BY LaidOne DEF Others
  <2> QED
    BY <2>1, <2>2, <2>3
<1>3. Laid(LoopFlush(c, i), i, i + 1, {}, F)
  BY <1>2, LaidNone DEF LoopFlush, LoopFlushes
<1>4. ASSUME NEW u, Laid(u, i, i + 1, {i}, {})
      PROVE  Laid(u \o LoopFlush(c, i), i, i + 1, {i}, F)
  <2> HIDE DEF F
  <2>1. Laid(u \o LoopFlush(c, i), i, i + 1, {i} \cup {}, {} \cup F)
    BY <1>3, <1>4, LaidWithin
  <2> QED
    BY <2>1
<1>5. ASSUME NEW u, NEW G, Laid(u, i, i + 1, {i}, G), NEW do \in {"gather", "meet", "turn", "count"}
      PROVE  Laid(u \o S(do), i, i + 1, {i}, G)
  <2> HIDE DEF S
  <2>1. Laid(u \o S(do), i, i + 1, {i} \cup {}, G \cup {})
    BY <1>2, <1>5, LaidWithin
  <2> QED
    BY <2>1
<1>6. ASSUME NEW do \in {"gather", "turn"}
      PROVE  Laid(S(do) \o S("post"), i, i + 1, {i}, {})
  <2> HIDE DEF S
  <2>1. Laid(S(do) \o S("post"), i, i + 1, {} \cup {i}, {} \cup {})
    BY <1>2, <1>6, LaidWithin
  <2> QED
    BY <2>1
<1>7. CASE c.type = "throughput"
  <2>1. Laid(Posting(c, t, i), i, i + 1, {i}, {})
    <3>1. /\ <<Step("post", i), Step("gather", i)>> = S("post") \o S("gather")
          /\ <<Step("gather", i), Step("post", i)>> = S("gather") \o S("post")
      OBVIOUS
    <3> HIDE DEF S
    <3>2. Laid(S("post") \o S("gather"), i, i + 1, {i}, {}) /\ Laid(S("gather") \o S("post"), i, i + 1, {i}, {})
      BY <1>2, <1>5, <1>6
    <3> QED
      BY <3>1, <3>2, <1>2 DEF Posting, S
  <2>2. Iteration(c, r, t, i) = Throughput(c, t, i)
    BY <1>7 DEF Iteration
  <2>3. CASE c.skip
    BY <2>1, <2>2, <2>3, <1>4 DEF Throughput
  <2>4. CASE ~c.skip
    <3>1. F = {}
      BY <2>4, <1>7 DEF LoopFlushes
    <3>2. Laid(Posting(c, t, i) \o S("meet"), i, i + 1, {i}, {})
      BY <2>1, <1>5
    <3> QED
      BY <3>1, <3>2, <2>2, <2>4 DEF Throughput
  <2> QED
    BY <2>3, <2>4
<1>8. CASE c.type = "pingpong"
  <2>1. Iteration(c, r, t, i) = PingPong(c, r, i)
    BY <1>8 DEF Iteration
  <2>2. CASE r = 0
    <3>1. <<Step("turn", i), Step("post", i)>> = S("turn") \o S("post")
      OBVIOUS
    <3>2. Laid((S("turn") \o S("post")) \o LoopFlush(c, i), i, i + 1, {i}, F)
      BY <1>4, <1>6
    <3> QED
      BY <3>1, <3>2, <2>1, <2>2 DEF PingPong
  <2>3. CASE r # 0
    <3>1. Laid((S("post") \o LoopFlush(c, i)) \o S("turn"), i, i + 1, {i}, F)
      BY <1>2, <1>4, <1>5
    <3> QED
      BY <3>1, <2>1, <2>3 DEF PingPong
  <2> QED
    BY <2>2, <2>3
<1>9. CASE c.type = "ping"
  <2>1. Iteration(c, r, t, i) = Ping(c, i)
    BY <1>9 DEF Iteration
  <2>2. Laid(S("post") \o LoopFlush(c, i), i, i + 1, {i}, F)
    BY <1>2, <1>4
  <2>3. CASE c.op = "put_counter"
    <3>1. Laid((S("post") \o LoopFlush(c, i)) \o S("count"), i, i + 1, {i}, F)
      BY <2>2, <1>5
    <3> QED
      BY <3>1, <2>1, <2>3 DEF Ping
  <2>4. CASE c.op # "put_counter"
    <3>1. LoopFlush(c, i) \in Seq(Steps) /\ S("post") \in Seq(Steps)
      BY <1>2, <1>3 DEF Laid
    <3>2. (S("post") \o LoopFlush(c, i)) \o <<>> = S("post") \o LoopFlush(c, i)
      <4> HIDE DEF S
      <4> QED
        BY <3>1
    <3> QED
      BY <3>2, <2>1, <2>2, <2>4 DEF Ping
  <2> QED
    BY <2>3, <2>4
<1> QED
  BY <1>1, <1>7, <1>8, <1>9 DEF Valid, Types

\* The iterations of a kernel that flush; n is what comes after the loop.
Flushing(c, n) ==
    {i \in 0 .. n - 1 : LoopFlushes(c, i)}
      \cup (IF c.type = "ping" /\ c.op # "put_counter" THEN {} ELSE {n})

LEMMA LaidLoop ==
    ASSUME NEW c \in Configs, NEW r \in Ranks, NEW t, NEW n \in Nat \ {0}
    PROVE  Laid(FlattenSeq([k \in 1 .. n |-> Iteration(c, r, t, k - 1)]), 0, n, 0 .. n - 1,
                {i \in 0 .. n - 1 : LoopFlushes(c, i)})
<1> DEFINE s == [k \in 1 .. n |-> Iteration(c, r, t, k - 1)]
           F(k) == {i \in 0 .. k - 1 : LoopFlushes(c, i)}
           G == {x \in Nat \X Seq(Steps) : Laid(x[2], 0, x[1], 0 .. x[1] - 1, F(x[1]))}
           H(i) == IF LoopFlushes(c, i) THEN {i} ELSE {}
<1>1. ASSUME NEW k \in 1 .. n
      PROVE  k - 1 \in Nat /\ Laid(s[k], k - 1, k, {k - 1}, H(k - 1)) /\ s[k] \in Seq(Steps)
  <2> DEFINE i == k - 1
  <2>1. i \in Nat /\ i + 1 = k /\ s[k] = Iteration(c, r, t, i)
    OBVIOUS
  <2> HIDE DEF i, s
  <2>2. Laid(s[k], i, i + 1, {i}, H(i))
    BY <2>1, LaidIteration
  <2>3. s[k] \in Seq(Steps)
    BY <2>2 DEF Laid
  <2> QED
    BY <2>1, <2>2, <2>3 DEF i
<1>2. s \in Seq(Seq(Steps)) /\ Len(s) = n /\ s # <<>>
  <2>1. s \in [1 .. n -> Seq(Steps)]
    <3>1. s = [k \in 1 .. n |-> s[k]]
      OBVIOUS
    <3> HIDE DEF s
    <3> QED
      BY <1>1, <3>1
  <2> HIDE DEF s
  <2>2. s \in Seq(Seq(Steps)) /\ Len(s) = n
    BY <2>1, FunctionsAreSequences
  <2> QED
    BY <2>2
<1> HIDE DEF s
<1>3. <<1, s[1]>> \in G
  <2>1. 1 \in 1 .. n
    OBVIOUS
  <2>2. Laid(s[1], 0, 1, {0}, H(0)) /\ s[1] \in Seq(Steps)
    <3>1. 1 - 1 = 0
      OBVIOUS
    <3>2. Laid(s[1], 1 - 1, 1, {1 - 1}, H(1 - 1)) /\ s[1] \in Seq(Steps)
      BY <1>1, <2>1
    <3> QED
      BY <3>1, <3>2
  <2>3. 0 .. 1 - 1 = {0} /\ F(1) = H(0)
    OBVIOUS
  <2> QED
    BY <2>2, <2>3
<1>4. ASSUME NEW i \in 1 .. Len(s) - 1, NEW u \in Seq(Steps), <<i, u>> \in G
      PROVE  <<i + 1, u \o s[i + 1]>> \in G
  <2> DEFINE k == i + 1
  <2>1. k \in 1 .. n /\ k - 1 = i /\ i \in Nat /\ k \in Nat
    BY <1>2
  <2>2. Laid(u, 0, i, 0 .. i - 1, F(i))
    BY <1>4
  <2>3. Laid(s[k], i, k, {i}, H(i)) /\ s[k] \in Seq(Steps)
    <3> HIDE DEF k, H
    <3> QED
      BY <1>1, <2>1
  <2>4. 0 .. k - 1 = (0 .. i - 1) \cup {i} /\ F(k) = F(i) \cup H(i)
    BY <2>1
  <2>5. 0 \in Nat /\ 0 <= i /\ i <= k
    BY <2>1
  <2> DEFINE z == 0
             P == 0 .. i - 1
  <2>6. Laid(u \o s[k], z, k, P \cup {i}, F(i) \cup H(i))
    <3>1. Laid(u, z, i, P, F(i)) /\ z \in Nat /\ z <= i /\ i <= k
      BY <2>2, <2>5
    <3> HIDE DEF z, P, F, H, k
    <3> QED
      BY <2>1, <2>3, <3>1, LaidAfter
  <2>7. u \o s[k] \in Seq(Steps)
    <3> HIDE DEF k
    <3> QED
      BY <2>3
  <2> QED
    BY <2>1, <2>4, <2>6, <2>7
<1>5. <<Len(s), FlattenSeq(s)>> \in G
  <2> HIDE DEF G
  <2> QED
    BY <1>2, <1>3, <1>4, FlattenInduction
<1> QED
  BY <1>2, <1>5 DEF s

\* A kernel of n iterations posts once in each, and flushes where Flushing says.
LEMMA LaidProgram ==
    ASSUME NEW c \in Configs, NEW r \in Ranks, NEW t, NEW n \in Nat \ {0}
    PROVE  Laid(Program(c, r, t, n), 0, n + 1, 0 .. n - 1, Flushing(c, n))
<1> DEFINE G == IF c.type = "ping" /\ c.op # "put_counter" THEN {} ELSE {n}
           F == {i \in 0 .. n - 1 : LoopFlushes(c, i)}
           S(do) == <<Step(do, n)>>
           u == FlattenSeq([k \in 1 .. n |-> Iteration(c, r, t, k - 1)])
           P == 0 .. n - 1
           z == 0
<1>1. Valid(c)
  BY ConfigsAssumption
<1>2. Laid(AfterLoop(c, n), n, n + 1, {}, G)
  <2>1. Laid(S("flush"), n, n + 1, {}, {n}) /\ Laid(S("reset"), n, n + 1, {}, {})
    BY LaidOne DEF Others
  <2>2. /\ Laid(S("flush") \o S("reset"), n, n + 1, {}, {n})
        /\ Laid(S("reset") \o S("flush"), n, n + 1, {}, {n})
    <3> HIDE DEF S
    <3>1. /\ Laid(S("flush") \o S("reset"), n, n + 1, {} \cup {}, {n} \cup {})
          /\ Laid(S("reset") \o S("flush"), n, n + 1, {} \cup {}, {} \cup {n})
      BY <2>1, LaidWithin
    <3> QED
      BY <3>1
  <2>3. /\ <<Step("reset", n), Step("flush", n)>> = S("reset") \o S("flush")
        /\ <<Step("flush", n), Step("reset", n)>> = S("flush") \o S("reset")
    OBVIOUS
  <2>4. CASE c.type = "pingpong" /\ c.op # "put"
    <3>1. G = {n} /\ AfterLoop(c, n) = <<Step("reset", n), Step("flush", n)>>
      BY <2>4, <1>1 DEF AfterLoop, Valid
    <3> QED
      BY <3>1, <2>2, <2>3
  <2>5. CASE c.op = "put_counter"
    <3>1. G = {n} /\ AfterLoop(c, n) = <<Step("flush", n), Step("reset", n)>>
      BY <2>5, <1>1 DEF AfterLoop, Valid
    <3> QED
      BY <3>1, <2>2, <2>3
  <2>6. CASE c.type = "ping" /\ c.op # "put_counter"
    <3>1. G = {} /\ AfterLoop(c, n) = <<>>
      BY <2>6 DEF AfterLoop
    <3> QED
      BY <3>1, LaidNone
  <2>7. CASE ~(c.type = "pingpong" /\ c.op # "put") /\ c.op # "put_counter" /\ c.type # "ping"
    <3>1. G = {n} /\ AfterLoop(c, n) = S("flush")
      BY <2>7 DEF AfterLoop
    <3> QED
      BY <3>1, <2>1
  <2> QED
    BY <2>4, <2>5, <2>6, <2>7
<1>3. Laid(u, z, n, P, F)
  BY LaidLoop
<1>4. Program(c, r, t, n) = u \o AfterLoop(c, n) /\ Flushing(c, n) = F \cup G
  BY DEF Program, Flushing
<1>5. z \in Nat /\ z <= n /\ n <= n + 1 /\ n + 1 \in Nat
  OBVIOUS
<1>6. Laid(u \o AfterLoop(c, n), z, n + 1, P \cup {}, F \cup G)
  <2> HIDE DEF u, z, P, F, G
  <2> QED
    BY <1>2, <1>3, <1>5, LaidAfter
<1> HIDE DEF u, F, G
<1> QED
  BY <1>4, <1>6

-----------------------------------------------------------------------------
(* How far a thread has come.                                              *)

\* The iterations whose step do lies before place k of the steps p.
Passed(p, k, do) == {p[j].i : j \in {m \in 1 .. k - 1 : p[m].do = do}}
\* Posted, and not flushed since.
Pending(p, k) == {i \in Passed(p, k, "post") : \A f \in Passed(p, k, "flush") : f < i}
\* What may be pending when the iterations D of F have flushed.
Window(n, F, D) == {i \in 0 .. n - 1 : (\A f \in D : f < i) /\ (\A f \in F : f < i => f \in D)}
Laying(p, n, F) == n \in Nat \ {0} /\ F \subseteq 0 .. n /\ Laid(p, 0, n + 1, 0 .. n - 1, F)

LEMMA PassedNone ==
    ASSUME NEW p, NEW do PROVE Passed(p, 1, do) = {}
<1>1. \A m \in 1 .. 1 - 1 : FALSE
  OBVIOUS
<1> QED
  BY <1>1 DEF Passed

LEMMA PassedStep ==
    ASSUME NEW p, NEW k \in Nat \ {0}, NEW do
    PROVE  Passed(p, k + 1, do) = Passed(p, k, do) \cup (IF p[k].do = do THEN {p[k].i} ELSE {})
<1>1. 1 .. (k + 1) - 1 = (1 .. k - 1) \cup {k}
  OBVIOUS
<1> QED
  BY <1>1 DEF Passed

LEMMA PassedIn ==
    ASSUME NEW p, NEW n, NEW F, Laying(p, n, F), NEW k \in 1 .. Len(p) + 1
    PROVE  /\ Passed(p, k, "post") \subseteq 0 .. n - 1
           /\ Passed(p, k, "flush") \subseteq F
<1>1. p \in Seq(Steps) /\ n \in Nat
  BY DEF Laying, Laid
<1>2. \A j \in 1 .. k - 1 : j \in 1 .. Len(p)
  BY <1>1
<1>3. \A j \in 1 .. Len(p) : (p[j].do = "post" => p[j].i \in 0 .. n - 1) /\ (p[j].do = "flush" => p[j].i \in F)
  BY DEF Laying, Laid
<1> QED
  BY <1>2, <1>3 DEF Passed

\* The steps before place k precede the one there.
LEMMA BeforeHere ==
    ASSUME NEW p, NEW n, NEW F, Laying(p, n, F), NEW k \in 1 .. Len(p), NEW do,
           NEW i \in Passed(p, k, do)
    PROVE  /\ i \in Nat /\ p[k].i \in Nat /\ i <= p[k].i
           /\ i = p[k].i /\ do \in {"post", "flush"} => p[k].do # "post"
           /\ i = p[k].i /\ do = "flush" => p[k].do # "flush"
<1>1. p \in Seq(Steps) /\ Len(p) \in Nat
  BY DEF Laying, Laid
<1>2. PICK j \in 1 .. k - 1 : p[j].do = do /\ i = p[j].i
  BY DEF Passed
<1>3. j \in 1 .. Len(p) /\ j < k
  BY <1>1
<1>4. Precedes(p[j], p[k])
  BY <1>3 DEF Laying, Laid
<1>5. p[j] \in Steps /\ p[k] \in Steps
  BY <1>1, <1>3
<1> QED
  BY <1>2, <1>4, <1>5 DEF Precedes, Steps

LEMMA PostIsNew ==
    ASSUME NEW p, NEW n, NEW F, Laying(p, n, F), NEW k \in 1 .. Len(p), p[k].do = "post"
    PROVE  /\ p[k].i \in 0 .. n - 1 /\ p[k].i \notin Passed(p, k, "post")
           /\ \A f \in Passed(p, k, "flush") : f < p[k].i
<1>1. p[k].i \in 0 .. n - 1
  BY DEF Laying, Laid
<1>2. p[k].i \notin Passed(p, k, "post")
  BY BeforeHere
<1>3. ASSUME NEW f \in Passed(p, k, "flush") PROVE f < p[k].i
  <2>1. f \in Nat /\ p[k].i \in Nat /\ f <= p[k].i /\ f # p[k].i
    BY BeforeHere
  <2> QED
    BY <2>1
<1> QED
  BY <1>1, <1>2, <1>3

\* An iteration before that of place k has made its post and its flush.
LEMMA AllBefore ==
    ASSUME NEW p, NEW n, NEW F, Laying(p, n, F), NEW k \in 1 .. Len(p)
    PROVE  /\ \A f \in F : f < p[k].i => f \in Passed(p, k, "flush")
           /\ \A i \in 0 .. n - 1 : i < p[k].i => i \in Passed(p, k, "post")
<1>1. p \in Seq(Steps) /\ Len(p) \in Nat /\ n \in Nat /\ F \subseteq Nat
  BY DEF Laying, Laid
<1>2. ASSUME NEW j \in 1 .. Len(p), p[j].i < p[k].i
      PROVE  j \in 1 .. k - 1
  <2>1. SUFFICES ASSUME ~(j < k) PROVE FALSE
    BY <1>1
  <2>2. p[j] \in Steps /\ p[k] \in Steps
    BY <1>1
  <2>3. p[j].i \in Nat /\ p[k].i \in Nat
    BY <2>2 DEF Steps
  <2>4. j # k
    BY <2>3, <1>2
  <2>5. k < j
    BY <2>1, <2>4, <1>1
  <2>6. Precedes(p[k], p[j])
    BY <2>5 DEF Laying, Laid
  <2> QED
    BY <2>3, <2>6, <1>2 DEF Precedes
<1>3. ASSUME NEW f \in F, f < p[k].i PROVE f \in Passed(p, k, "flush")
  <2>1. PICK j \in 1 .. Len(p) : p[j].do = "flush" /\ p[j].i = f
    BY DEF Laying, Laid
  <2>2. j \in 1 .. k - 1
    BY <1>2, <1>3, <2>1
  <2> QED
    BY <2>1, <2>2 DEF Passed
<1>4. ASSUME NEW i \in 0 .. n - 1, i < p[k].i PROVE i \in Passed(p, k, "post")
  <2>1. PICK j \in 1 .. Len(p) : p[j].do = "post" /\ p[j].i = i
    BY DEF Laying, Laid
  <2>2. j \in 1 .. k - 1
    BY <1>2, <1>4, <2>1
  <2> QED
    BY <2>1, <2>2 DEF Passed
<1> QED
  BY <1>3, <1>4

LEMMA FlushIsNext ==
    ASSUME NEW p, NEW n, NEW F, Laying(p, n, F), NEW k \in 1 .. Len(p), p[k].do = "flush"
    PROVE  /\ p[k].i \in F /\ p[k].i \notin Passed(p, k, "flush")
           /\ \A i \in Passed(p, k, "post") : i <= p[k].i
<1>1. p[k].i \in F
  BY DEF Laying, Laid
<1>2. p[k].i \notin Passed(p, k, "flush")
  BY BeforeHere
<1> QED
  BY <1>1, <1>2, BeforeHere

\* What is pending in any thread lies in the window of the flushes made.
LEMMA PendingInWindow ==
    ASSUME NEW p, NEW n, NEW F, Laying(p, n, F), NEW k \in 1 .. Len(p) + 1
    PROVE  Pending(p, k) \subseteq Window(n, F, Passed(p, k, "flush"))
<1>1. p \in Seq(Steps) /\ Len(p) \in Nat /\ n \in Nat /\ F \subseteq Nat
  BY DEF Laying, Laid
<1>2. SUFFICES ASSUME NEW i \in Pending(p, k) PROVE i \in Window(n, F, Passed(p, k, "flush"))
  OBVIOUS
<1>3. i \in Passed(p, k, "post") /\ \A f \in Passed(p, k, "flush") : f < i
  BY DEF Pending
<1>4. i \in 0 .. n - 1
  BY <1>3, PassedIn
<1>5. ASSUME NEW f \in F, f < i PROVE f \in Passed(p, k, "flush")
  <2>1. PICK j \in 1 .. k - 1 : p[j].do = "post" /\ i = p[j].i
    BY <1>3 DEF Passed
  <2>2. j \in 1 .. Len(p)
    BY <1>1
  <2>3. f \in Passed(p, j, "flush")
    BY <1>5, <2>1, <2>2, AllBefore
  <2>4. \A m \in 1 .. j - 1 : m \in 1 .. k - 1
    BY <1>1, <2>2
  <2> QED
    BY <2>3, <2>4 DEF Passed
<1> QED
  BY <1>3, <1>4, <1>5 DEF Window

LEMMA PassedAll ==
    ASSUME NEW p, NEW n, NEW F, Laying(p, n, F), NEW k, k = Len(p) + 1
    PROVE  Passed(p, k, "post") = 0 .. n - 1 /\ Passed(p, k, "flush") = F
<1>1. p \in Seq(Steps) /\ Len(p) \in Nat /\ k \in 1 .. Len(p) + 1
  BY DEF Laying, Laid
<1>2. 1 .. k - 1 = 1 .. Len(p)
  BY <1>1
<1>3. ASSUME NEW i \in 0 .. n - 1 PROVE i \in Passed(p, k, "post")
  <2>1. PICK j \in 1 .. Len(p) : p[j].do = "post" /\ p[j].i = i
    BY DEF Laying, Laid
  <2> QED
    BY <2>1, <1>2 DEF Passed
<1>4. ASSUME NEW i \in F PROVE i \in Passed(p, k, "flush")
  <2>1. PICK j \in 1 .. Len(p) : p[j].do = "flush" /\ p[j].i = i
    BY DEF Laying, Laid
  <2> QED
    BY <2>1, <1>2 DEF Passed
<1>5. Passed(p, k, "post") \subseteq 0 .. n - 1 /\ Passed(p, k, "flush") \subseteq F
  BY <1>1, PassedIn
<1> QED
  BY <1>3, <1>4, <1>5

-----------------------------------------------------------------------------
(* The flushes of the loop are close enough.                               *)

\* Of any d numbers in a row one is a multiple of d.
LEMMA MultipleExists ==
    ASSUME NEW a \in Nat, NEW d \in Nat \ {0}
    PROVE  \E m \in Nat : a <= m /\ m < a + d /\ m % d = 0
<1>1. CASE a % d = 0
  BY <1>1
<1>2. CASE a % d # 0
  <2> DEFINE q == a \div d
             m == d * (q + 1)
  <2>1. q \in Nat /\ a % d \in 0 .. d - 1 /\ a = d * q + (a % d)
    OBVIOUS
  <2> HIDE DEF q
  <2>2. m \in Nat /\ m = d * q + d /\ d * q \in Nat
    BY <2>1
  <2>3. a <= m /\ m < a + d
    BY <2>1, <2>2, <1>2
  <2>4. m % d = 0
    BY <2>1
  <2> QED
    BY <2>2, <2>3, <2>4
<1> QED
  BY <1>1, <1>2

LEMMA ConfigFacts ==
    ASSUME NEW c \in Configs
    PROVE  /\ Valid(c) /\ c.type \in Types /\ c.op \in Operations
           /\ c.num_threads \in Nat \ {0} /\ c.num_ctas \in Nat \ {0} /\ c.queue_depth \in Nat \ {0}
           /\ c.iters \in Nat \ {0} /\ c.warmup_iters \in Nat
           /\ c.skip \in BOOLEAN /\ c.ag \in BOOLEAN /\ c.bidir \in BOOLEAN
           /\ c.type # "throughput" => c.num_ctas = 1 /\ c.num_threads = 1 /\ ~c.ag /\ ~c.bidir
           /\ c.type = "pingpong" => c.op \in {"put", "put_signal", "signal"}
           /\ wqesPerOp(c) \in {1, 2}
           /\ wqesPerIter(c) = c.num_threads * wqesPerOp(c)
           /\ Bound(c) \in Nat /\ c.queue_depth <= Bound(c)
           /\ c.skip => wqesPerIter(c) <= Bound(c)
           /\ ~c.skip => Bound(c) = c.queue_depth
<1>1. Valid(c) /\ wqesPerOp(c) \in {1, 2} /\ wqesPerIter(c) = c.num_threads * wqesPerOp(c)
  BY ConfigsAssumption DEF Valid, wqesPerOp, wqesPerIter
<1>2. /\ c.num_threads \in Nat \ {0} /\ c.num_ctas \in Nat \ {0} /\ c.queue_depth \in Nat \ {0}
      /\ c.iters \in Nat \ {0} /\ c.warmup_iters \in Nat
  BY <1>1 DEF Valid
<1>3. wqesPerIter(c) \in Nat
  <2>1. wqesPerOp(c) = 1 \/ wqesPerOp(c) = 2
    BY <1>1
  <2>2. c.num_threads * 1 \in Nat /\ c.num_threads * 2 \in Nat
    BY <1>2
  <2> QED
    BY <1>1, <2>1, <2>2
<1>4. /\ Bound(c) \in Nat /\ c.queue_depth <= Bound(c)
      /\ c.skip => wqesPerIter(c) <= Bound(c)
      /\ ~c.skip => Bound(c) = c.queue_depth
  BY <1>2, <1>3 DEF Bound
<1> QED
  BY <1>1, <1>2, <1>4 DEF Valid

LEMMA FlushEveryFacts ==
    ASSUME NEW c \in Configs, c.skip
    PROVE  /\ flushEvery(c) \in Nat \ {0}
           /\ wqesPerOp(c) * (c.num_threads * flushEvery(c)) <= Bound(c)
<1> DEFINE o == wqesPerOp(c)
           k == c.num_threads
           d == c.queue_depth
           h == d \div 2
           b == Bound(c)
           w == IF c.type = "throughput" THEN wqesPerIter(c) ELSE 1
           e == h \div w
<1>1. /\ k \in Nat \ {0} /\ d \in Nat \ {0} /\ o \in {1, 2} /\ k * o <= b
      /\ wqesPerIter(c) = k * o /\ b \in Nat /\ d <= b
      /\ c.type # "throughput" => k = 1
  BY ConfigFacts
<1>2. h \in Nat /\ 2 * h <= d
  BY <1>1
<1>3. w \in Nat \ {0} /\ (c.type = "throughput" => w = k * o) /\ (c.type # "throughput" => w = 1)
  <2>1. k * o \in Nat \ {0}
    <3>1. CASE o = 1
      BY <1>1, <3>1
    <3>2. CASE o = 2
      BY <1>1, <3>2
    <3> QED
      BY <1>1, <3>1, <3>2
  <2> QED
    BY <1>1, <2>1
<1>4. flushEvery(c) = IF e < 1 THEN 1 ELSE e
  BY DEF flushEvery
<1> HIDE DEF o, k, d, h, b, w
<1>5. e \in Nat /\ w * e <= h
  BY <1>2, <1>3
<1> HIDE DEF e
<1>6. CASE e < 1
  <2>1. flushEvery(c) = 1 /\ k * 1 = k /\ o * k = k * o
    BY <1>1, <1>4, <1>6
  <2> QED
    BY <2>1, <1>1 DEF o, k, b
<1>7. CASE ~(e < 1)
  <2>1. flushEvery(c) = e
    BY <1>4, <1>7
  <2>2. CASE c.type = "throughput"
    <3>1. w = k * o
      BY <1>3, <2>2
    <3>2. o * (k * e) = (k * o) * e
      BY <1>1, <1>5
    <3>3. h <= b
      BY <1>1, <1>2
    <3> QED
      BY <3>1, <3>2, <3>3, <2>1, <1>1, <1>2, <1>5, <1>7 DEF o, k, b
  <2>3. CASE c.type # "throughput"
    <3>1. k = 1 /\ w = 1 /\ 1 * e = e
      BY <1>1, <1>3, <1>5, <2>3
    <3>2. e <= h
      BY <3>1, <1>5
    <3>3. o * e <= b
      <4>1. CASE o = 1
        BY <4>1, <3>2, <1>1, <1>2, <1>5
      <4>2. CASE o = 2
        BY <4>2, <3>2, <1>1, <1>2, <1>5
      <4> QED
        BY <4>1, <4>2, <1>1
    <3>4. o * (k * e) = o * e
      BY <3>1
    <3> QED
      BY <3>3, <3>4, <2>1, <1>5, <1>7 DEF o, k, b
  <2> QED
    BY <2>2, <2>3
<1> QED
  BY <1>6, <1>7

LEMMA FlushingIn ==
    ASSUME NEW c, NEW n \in Nat
    PROVE  Flushing(c, n) \subseteq 0 .. n
  BY DEF Flushing

LEMMA ProgramLaying ==
    ASSUME NEW c \in Configs, NEW r \in Ranks, NEW t, NEW n \in Nat \ {0}
    PROVE  Laying(Program(c, r, t, n), n, Flushing(c, n))
  BY LaidProgram, FlushingIn DEF Laying

LEMMA WindowSmall ==
    ASSUME NEW c \in Configs, c.skip, NEW n \in Nat, NEW D
    PROVE  LET W == Window(n, Flushing(c, n), D)
           IN  IsFiniteSet(W) /\ Cardinality(W) <= flushEvery(c)
<1> DEFINE W == Window(n, Flushing(c, n), D)
           e == flushEvery(c)
<1>1. e \in Nat \ {0}
  BY FlushEveryFacts
<1>2. W \subseteq 0 .. n - 1
  BY DEF Window
<1>3. IsFiniteSet(W)
  <2>1. IsFiniteSet(0 .. n - 1)
    BY FS_Interval
  <2> QED
    BY <1>2, <2>1, FS_Subset
<1>4. ASSUME NEW a \in W, NEW b \in W PROVE b < a + e
  <2>1. a \in Nat /\ b \in Nat /\ b <= n - 1
    BY <1>2
  <2>2. SUFFICES ASSUME a + e <= b PROVE FALSE
    BY <1>1, <2>1
  <2> HIDE DEF e
  <2>3. PICK m \in Nat : a <= m /\ m < a + e /\ m % e = 0
    BY <1>1, <2>1, MultipleExists
  <2>4. m \in 0 .. n - 1 /\ m < b
    BY <1>1, <2>1, <2>2, <2>3
  <2>5. m \in Flushing(c, n)
    BY <2>3, <2>4 DEF Flushing, LoopFlushes, e
  <2>6. m < a
    BY <2>4, <2>5 DEF Window
  <2> QED
    BY <2>1, <2>3, <2>6
<1>5. CASE W = {}
  <2>1. Cardinality(W) = 0
    BY <1>5, FS_EmptySet
  <2> QED
    BY <2>1, <1>1, <1>3
<1>6. CASE W # {}
  <2> DEFINE f == [x \in W |-> x]
  <2>1. \A x \in W : f[x] = x /\ f[x] \in Int
    BY <1>2
  <2> HIDE DEF f, W
  <2>2. PICK a \in W : \A y \in W : f[a] <= f[y]
    BY <1>3, <1>6, <2>1, LeastExists
  <2>3. a \in Nat /\ W \subseteq Nat
    BY <1>2
  <2> DEFINE b == (a + e) - 1
  <2>4. W \in SUBSET (a .. b)
    BY <1>1, <1>4, <2>1, <2>2, <2>3
  <2>5. IsFiniteSet(a .. b) /\ Cardinality(a .. b) = e
    <3>1. a \in Int /\ b \in Int /\ ~(a > b) /\ (b - a) + 1 = e
      BY <1>1, <2>3
    <3> HIDE DEF b
    <3> QED
      BY <3>1, FS_Interval
  <2> HIDE DEF b, e
  <2>6. Cardinality(W) <= e
    BY <2>4, <2>5, FS_Subset
  <2> QED
    BY <1>3, <2>6 DEF W, e
<1> QED
  BY <1>3, <1>5, <1>6

\* So the queue of a block holds no more than it can.
LEMMA PendingFits ==
    ASSUME NEW c \in Configs, c.skip, NEW n \in Nat, NEW D, NEW m \in Nat,
           NEW S, S \subseteq (0 .. c.num_threads - 1) \X Window(n, Flushing(c, n), D), m <= Cardinality(S)
    PROVE  wqesPerOp(c) * m <= Bound(c)
<1> DEFINE W == Window(n, Flushing(c, n), D)
           T == 0 .. c.num_threads - 1
           e == flushEvery(c)
           k == c.num_threads
           o == wqesPerOp(c)
<1>1. /\ k \in Nat \ {0} /\ Bound(c) \in Nat /\ o \in {1, 2}
      /\ e \in Nat /\ o * (k * e) <= Bound(c)
  BY ConfigFacts, FlushEveryFacts
<1>2. IsFiniteSet(W) /\ Cardinality(W) <= e /\ Cardinality(W) \in Nat
  BY WindowSmall, FS_CardinalityType
<1>3. IsFiniteSet(T) /\ Cardinality(T) = k
  <2>1. 0 \in Int /\ k - 1 \in Int /\ ~(0 > k - 1) /\ (k - 1) - 0 + 1 = k
    BY <1>1
  <2> QED
    BY <2>1, FS_Interval
<1> HIDE DEF W, T, k, e, o
<1>4. IsFiniteSet(T \X W) /\ Cardinality(T \X W) = k * Cardinality(W)
  BY <1>2, <1>3, FS_Product
<1>5. S \in SUBSET (T \X W)
  BY DEF T, W
<1>6. Cardinality(S) <= k * Cardinality(W) /\ Cardinality(S) \in Nat
  BY <1>4, <1>5, FS_Subset, FS_CardinalityType
<1>7. k * Cardinality(W) <= k * e /\ k * Cardinality(W) \in Nat /\ k * e \in Nat
  BY <1>1, <1>2
<1>8. m <= k * e
  BY <1>6, <1>7
<1>9. o * m <= o * (k * e)
  <2> DEFINE y == k * e
  <2>1. y \in Nat /\ m <= y
    BY <1>7, <1>8
  <2> HIDE DEF y
  <2>2. o * m <= o * y
    <3>1. CASE o = 1
      BY <2>1, <3>1
    <3>2. CASE o = 2
      BY <2>1, <3>2
    <3> QED
      BY <1>1, <3>1, <3>2
  <2> QED
    BY <2>2 DEF y
<1>10. o * m \in Nat /\ o * (k * e) \in Nat
  BY <1>1, <1>7
<1> QED
  BY <1>1, <1>9, <1>10 DEF o

-----------------------------------------------------------------------------
(* A block: k[t] is the place of its thread t in a kernel of n iterations, *)
(* q its queue.                                                            *)

ThreadsOf(c) == 0 .. c.num_threads - 1
OpsIn(q) == q.held + q.posted + q.read
PendingOf(c, r, n, k) ==
    {x \in ThreadsOf(c) \X (0 .. n - 1) : x[2] \in Pending(Program(c, r, x[1], n), k[x[1]])}
Block(c, r, n, k, q) ==
    /\ \A t \in ThreadsOf(c) : k[t] \in 1 .. Len(Program(c, r, t, n)) + 1
    /\ \A t, s \in ThreadsOf(c) :
          Passed(Program(c, r, t, n), k[t], "flush") = Passed(Program(c, r, s, n), k[s], "flush")
    /\ OpsIn(q) \in Nat /\ OpsIn(q) <= Cardinality(PendingOf(c, r, n, k))
\* A thread goes on by a step of which the queue knows nothing.
GoesOn(c, r, n, t, m, m2) ==
    \/ m2 = m
    \/ /\ m2 = m + 1 /\ m <= Len(Program(c, r, t, n))
       /\ Program(c, r, t, n)[m].do \in Others

LEMMA PendingFinite ==
    ASSUME NEW c \in Configs, NEW r, NEW n \in Nat, NEW k
    PROVE  IsFiniteSet(PendingOf(c, r, n, k)) /\ Cardinality(PendingOf(c, r, n, k)) \in Nat
<1>1. IsFiniteSet(0 .. n - 1) /\ IsFiniteSet(ThreadsOf(c))
  <2>1. c.num_threads - 1 \in Int /\ n - 1 \in Int
    BY ConfigFacts
  <2> QED
    BY <2>1, FS_Interval DEF ThreadsOf
<1>2. IsFiniteSet(ThreadsOf(c) \X (0 .. n - 1))
  BY <1>1, FS_Product
<1>3. PendingOf(c, r, n, k) \in SUBSET (ThreadsOf(c) \X (0 .. n - 1))
  BY DEF PendingOf
<1> QED
  BY <1>2, <1>3, FS_Subset, FS_CardinalityType

LEMMA StepPasses ==
    ASSUME NEW c \in Configs, NEW r \in Ranks, NEW n \in Nat \ {0}, NEW t,
           NEW m \in 1 .. Len(Program(c, r, t, n)) + 1, NEW m2, GoesOn(c, r, n, t, m, m2)
    PROVE  /\ m2 \in 1 .. Len(Program(c, r, t, n)) + 1
           /\ Passed(Program(c, r, t, n), m2, "post") = Passed(Program(c, r, t, n), m, "post")
           /\ Passed(Program(c, r, t, n), m2, "flush") = Passed(Program(c, r, t, n), m, "flush")
<1> DEFINE p == Program(c, r, t, n)
<1>1. p \in Seq(Steps) /\ Len(p) \in Nat
  BY ProgramLaying DEF Laying, Laid
<1>2. CASE m2 = m
  BY <1>2
<1>3. CASE m2 = m + 1 /\ m <= Len(p) /\ p[m].do \in Others
  <2> HIDE DEF p
  <2>1. m \in Nat \ {0} /\ m2 \in 1 .. Len(p) + 1
    BY <1>1, <1>3 DEF p
  <2>2. p[m].do # "post" /\ p[m].do # "flush"
    BY <1>3 DEF Others
  <2>3. Passed(p, m + 1, "post") = Passed(p, m, "post") /\ Passed(p, m + 1, "flush") = Passed(p, m, "flush")
    <3>1. Passed(p, m + 1, "post") = Passed(p, m, "post") \cup (IF p[m].do = "post" THEN {p[m].i} ELSE {})
      BY <2>1, PassedStep
    <3>2. Passed(p, m + 1, "flush") = Passed(p, m, "flush") \cup (IF p[m].do = "flush" THEN {p[m].i} ELSE {})
      BY <2>1, PassedStep
    <3> QED
      BY <3>1, <3>2, <2>2
  <2> QED
    BY <1>3, <2>1, <2>3 DEF p
<1> QED
  BY <1>2, <1>3 DEF GoesOn

LEMMA BlockPasses ==
    ASSUME NEW c \in Configs, NEW r \in Ranks, NEW n \in Nat \ {0}, NEW k, NEW k2, NEW q, NEW q2,
           Block(c, r, n, k, q), \A t \in ThreadsOf(c) : GoesOn(c, r, n, t, k[t], k2[t]),
           OpsIn(q2) \in Nat, OpsIn(q2) <= OpsIn(q)
    PROVE  Block(c, r, n, k2, q2)
<1> DEFINE p(t) == Program(c, r, t, n)
<1>1. ASSUME NEW t \in ThreadsOf(c)
      PROVE  /\ k2[t] \in 1 .. Len(p(t)) + 1
             /\ Passed(p(t), k2[t], "post") = Passed(p(t), k[t], "post")
             /\ Passed(p(t), k2[t], "flush") = Passed(p(t), k[t], "flush")
  <2>1. k[t] \in 1 .. Len(p(t)) + 1 /\ GoesOn(c, r, n, t, k[t], k2[t])
    BY DEF Block
  <2> QED
    BY <2>1, StepPasses
<1>2. \A t \in ThreadsOf(c) : Pending(p(t), k2[t]) = Pending(p(t), k[t])
  <2> HIDE DEF p
  <2> QED
    BY <1>1 DEF Pending
<1>3. PendingOf(c, r, n, k2) = PendingOf(c, r, n, k)
  <2> HIDE DEF p
  <2>1. \A x \in ThreadsOf(c) \X (0 .. n - 1) : x[1] \in ThreadsOf(c)
    OBVIOUS
  <2> QED
    BY <1>2, <2>1 DEF PendingOf, p
<1>4. \A t, s \in ThreadsOf(c) : Passed(p(t), k2[t], "flush") = Passed(p(s), k2[s], "flush")
  <2>1. \A t, s \in ThreadsOf(c) : Passed(p(t), k[t], "flush") = Passed(p(s), k[s], "flush")
    BY DEF Block
  <2> HIDE DEF p
  <2> QED
    BY <1>1, <2>1
<1>5. OpsIn(q) \in Nat /\ OpsIn(q) <= Cardinality(PendingOf(c, r, n, k)) /\ Cardinality(PendingOf(c, r, n, k)) \in Nat
  BY PendingFinite DEF Block
<1>6. OpsIn(q2) <= Cardinality(PendingOf(c, r, n, k))
  BY <1>5
<1> QED
  BY <1>1, <1>3, <1>4, <1>6 DEF Block

\* A thread posts: one operation more, and one more pending.
LEMMA BlockPosts ==
    ASSUME NEW c \in Configs, NEW r \in Ranks, NEW n \in Nat \ {0}, NEW k, NEW k2, NEW q, NEW q2,
           Block(c, r, n, k, q), NEW t \in ThreadsOf(c),
           k[t] <= Len(Program(c, r, t, n)), Program(c, r, t, n)[k[t]].do = "post",
           k2[t] = k[t] + 1, \A s \in ThreadsOf(c) : s # t => k2[s] = k[s],
           OpsIn(q2) = OpsIn(q) + 1
    PROVE  Block(c, r, n, k2, q2)
<1> DEFINE P(s) == Program(c, r, s, n)
           p == Program(c, r, t, n)
           i == p[k[t]].i
           F == Flushing(c, n)
           m == k[t]
<1>1. /\ m \in 1 .. Len(p) /\ Len(p) \in Nat /\ m + 1 \in 1 .. Len(p) + 1 /\ m \in Nat \ {0}
      /\ m \in 1 .. Len(p) + 1
  <2>1. p \in Seq(Steps) /\ m \in 1 .. Len(p) + 1
    BY ProgramLaying DEF Laying, Laid, Block
  <2> HIDE DEF p
  <2> QED
    BY <2>1 DEF p
<1>2. Laying(p, n, F)
  BY ProgramLaying
<1> HIDE DEF p, F, m
<1>3. p[m].do = "post" /\ k2[t] = m + 1
  BY DEF p, m
<1>4. i \in 0 .. n - 1 /\ i \notin Passed(p, m, "post") /\ \A f \in Passed(p, m, "flush") : f < i
  BY <1>1, <1>2, <1>3, PostIsNew DEF m
<1>5. /\ Passed(p, m + 1, "post") = Passed(p, m, "post") \cup {i}
      /\ Passed(p, m + 1, "flush") = Passed(p, m, "flush")
  <2>1. Passed(p, m + 1, "post") = Passed(p, m, "post") \cup (IF p[m].do = "post" THEN {p[m].i} ELSE {})
    BY <1>1, PassedStep
  <2>2. Passed(p, m + 1, "flush") = Passed(p, m, "flush") \cup (IF p[m].do = "flush" THEN {p[m].i} ELSE {})
    BY <1>1, PassedStep
  <2> QED
    BY <2>1, <2>2, <1>3 DEF m
<1> HIDE DEF i
<1>6. Pending(p, m + 1) = Pending(p, m) \cup {i} /\ i \notin Pending(p, m)
  BY <1>4, <1>5 DEF Pending
<1>7. PendingOf(c, r, n, k2) = PendingOf(c, r, n, k) \cup {<<t, i>>} /\ <<t, i>> \notin PendingOf(c, r, n, k)
  <2> DEFINE A == PendingOf(c, r, n, k)
             A2 == PendingOf(c, r, n, k2)
  <2>1. ASSUME NEW s \in ThreadsOf(c), NEW j \in 0 .. n - 1
        PROVE  <<s, j>> \in A2 <=> <<s, j>> \in A \/ <<s, j>> = <<t, i>>
    <3>1. /\ <<s, j>> \in A2 <=> j \in Pending(P(s), k2[s])
          /\ <<s, j>> \in A <=> j \in Pending(P(s), k[s])
      BY DEF PendingOf
    <3>2. CASE s = t
      <4>1. P(s) = p /\ k2[s] = m + 1 /\ k[s] = m
        BY <3>2, <1>3 DEF p, m
      <4> QED
        BY <4>1, <3>1, <3>2, <1>6
    <3>3. CASE s # t
      BY <3>1, <3>3
    <3> QED
      BY <3>2, <3>3
  <2>2. <<t, i>> \notin A
    <3>1. <<t, i>> \in A => i \in Pending(P(t), k[t])
      BY DEF PendingOf
    <3> QED
      BY <3>1, <1>6 DEF p, m
  <2>3. A \subseteq ThreadsOf(c) \X (0 .. n - 1) /\ A2 \subseteq ThreadsOf(c) \X (0 .. n - 1)
    BY DEF PendingOf
  <2> HIDE DEF A, A2
  <2>4. A2 = A \cup {<<t, i>>}
    <3>1. ASSUME NEW x \in A2 PROVE x \in A \cup {<<t, i>>}
      <4>1. PICK s \in ThreadsOf(c), j \in 0 .. n - 1 : x = <<s, j>>
        BY <2>3
      <4> QED
        BY <4>1, <2>1
    <3>2. ASSUME NEW x \in A \cup {<<t, i>>} PROVE x \in A2
      <4>1. PICK s \in ThreadsOf(c), j \in 0 .. n - 1 : x = <<s, j>>
        BY <2>3, <1>4
      <4> QED
        BY <4>1, <2>1
    <3> QED
      BY <3>1, <3>2
  <2> QED
    BY <2>2, <2>4 DEF A, A2
<1>8. Cardinality(PendingOf(c, r, n, k2)) = Cardinality(PendingOf(c, r, n, k)) + 1
  BY <1>7, PendingFinite, FS_AddElement
<1>9. \A s \in ThreadsOf(c) : /\ k2[s] \in 1 .. Len(P(s)) + 1
                              /\ Passed(P(s), k2[s], "flush") = Passed(P(s), k[s], "flush")
  <2>1. ASSUME NEW s \in ThreadsOf(c)
        PROVE  /\ k2[s] \in 1 .. Len(P(s)) + 1
               /\ Passed(P(s), k2[s], "flush") = Passed(P(s), k[s], "flush")
    <3>1. CASE s = t
      <4>1. P(s) = p /\ k2[s] = m + 1 /\ k[s] = m
        BY <3>1, <1>3 DEF p, m
      <4> HIDE DEF P
      <4> QED
        BY <4>1, <1>1, <1>5
    <3>2. CASE s # t
      BY <3>2 DEF Block
    <3> QED
      BY <3>1, <3>2
  <2> QED
    BY <2>1
<1>10. \A u, s \in ThreadsOf(c) : Passed(P(u), k2[u], "flush") = Passed(P(s), k2[s], "flush")
  <2>1. \A u, s \in ThreadsOf(c) : Passed(P(u), k[u], "flush") = Passed(P(s), k[s], "flush")
    BY DEF Block
  <2> HIDE DEF P
  <2> QED
    BY <2>1, <1>9
<1>11. OpsIn(q) \in Nat /\ OpsIn(q) <= Cardinality(PendingOf(c, r, n, k)) /\ Cardinality(PendingOf(c, r, n, k)) \in Nat
  BY PendingFinite DEF Block
<1>12. OpsIn(q2) \in Nat /\ OpsIn(q2) <= Cardinality(PendingOf(c, r, n, k2))
  BY <1>8, <1>11
<1> QED
  BY <1>9, <1>10, <1>12 DEF Block

\* All threads flush, with nothing left in the queue.
LEMMA BlockFlushes ==
    ASSUME NEW c \in Configs, NEW r \in Ranks, NEW n \in Nat \ {0}, NEW k, NEW k2, NEW q,
           Block(c, r, n, k, q), OpsIn(q) = 0,
           \A t \in ThreadsOf(c) : /\ k[t] <= Len(Program(c, r, t, n))
                                   /\ Program(c, r, t, n)[k[t]].do = "flush"
                                   /\ k2[t] = k[t] + 1
    PROVE  Block(c, r, n, k2, q)
<1> DEFINE P(t) == Program(c, r, t, n)
           F == Flushing(c, n)
           D(t) == Passed(P(t), k[t], "flush")
<1>1. ASSUME NEW t \in ThreadsOf(c)
      PROVE  /\ k[t] \in 1 .. Len(P(t)) /\ k2[t] \in 1 .. Len(P(t)) + 1
             /\ P(t)[k[t]].i \in F /\ P(t)[k[t]].i \notin D(t)
             /\ \A f \in F : f < P(t)[k[t]].i => f \in D(t)
             /\ Passed(P(t), k2[t], "flush") = D(t) \cup {P(t)[k[t]].i}
  <2> DEFINE p == P(t)
             m == k[t]
  <2>1. p \in Seq(Steps) /\ m \in 1 .. Len(p) + 1 /\ Laying(p, n, F)
    <3>1. Laying(p, n, F)
      BY ProgramLaying
    <3>2. m \in 1 .. Len(p) + 1
      BY DEF Block
    <3> HIDE DEF p
    <3>3. p \in Seq(Steps)
      BY <3>1 DEF Laying, Laid
    <3> QED
      BY <3>1, <3>2, <3>3
  <2>2. m <= Len(p) /\ p[m].do = "flush" /\ k2[t] = m + 1
    OBVIOUS
  <2> HIDE DEF p, m, F
  <2>3. m \in 1 .. Len(p) /\ m + 1 \in 1 .. Len(p) + 1 /\ m \in Nat \ {0}
    BY <2>1, <2>2
  <2>4. p[m].i \in F /\ p[m].i \notin Passed(p, m, "flush")
    BY <2>1, <2>2, <2>3, FlushIsNext
  <2>5. \A f \in F : f < p[m].i => f \in Passed(p, m, "flush")
    BY <2>1, <2>3, AllBefore
  <2>6. Passed(p, m + 1, "flush") = Passed(p, m, "flush") \cup (IF p[m].do = "flush" THEN {p[m].i} ELSE {})
    BY <2>3, PassedStep
  <2> QED
    BY <2>2, <2>3, <2>4, <2>5, <2>6 DEF p, m
<1>2. \A t, s \in ThreadsOf(c) : D(t) = D(s)
  BY DEF Block
<1>3. F \subseteq Nat
  BY FlushingIn
<1>4. ASSUME NEW t \in ThreadsOf(c), NEW s \in ThreadsOf(c)
      PROVE  Passed(P(t), k2[t], "flush") = Passed(P(s), k2[s], "flush")
  <2> HIDE DEF P, F, D
  <2> DEFINE a == P(t)[k[t]].i
             b == P(s)[k[s]].i
  <2>1. /\ a \in F /\ a \notin D(t) /\ (\A f \in F : f < a => f \in D(t))
        /\ b \in F /\ b \notin D(s) /\ (\A f \in F : f < b => f \in D(s))
        /\ Passed(P(t), k2[t], "flush") = D(t) \cup {a}
        /\ Passed(P(s), k2[s], "flush") = D(s) \cup {b}
        /\ D(t) = D(s)
    BY <1>1, <1>2
  <2> HIDE DEF a, b
  <2>2. ~(a < b) /\ ~(b < a) /\ a \in Nat /\ b \in Nat
    BY <2>1, <1>3
  <2>3. a = b
    BY <2>2
  <2> QED
    BY <2>1, <2>3
<1>5. Cardinality(PendingOf(c, r, n, k2)) \in Nat
  BY PendingFinite
<1> QED
  BY <1>1, <1>4, <1>5 DEF Block

\* A kernel starts with an empty queue, and ends with one.
LEMMA BlockStarts ==
    ASSUME NEW c \in Configs, NEW r \in Ranks, NEW n \in Nat \ {0}, NEW k, NEW q,
           \A t \in ThreadsOf(c) : k[t] = 1, OpsIn(q) = 0
    PROVE  Block(c, r, n, k, q)
<1>1. ASSUME NEW t \in ThreadsOf(c)
      PROVE  /\ k[t] \in 1 .. Len(Program(c, r, t, n)) + 1
             /\ Passed(Program(c, r, t, n), k[t], "flush") = {}
  <2> DEFINE p == Program(c, r, t, n)
  <2>1. p \in Seq(Steps)
    BY ProgramLaying DEF Laying, Laid
  <2> HIDE DEF p
  <2>2. 1 \in 1 .. Len(p) + 1 /\ k[t] = 1
    BY <2>1
  <2> QED
    BY <2>2, PassedNone DEF p
<1>2. Cardinality(PendingOf(c, r, n, k)) \in Nat
  BY PendingFinite
<1>3. OpsIn(q) \in Nat /\ OpsIn(q) <= Cardinality(PendingOf(c, r, n, k))
  BY <1>2
<1>4. \A t, s \in ThreadsOf(c) :
         Passed(Program(c, r, t, n), k[t], "flush") = Passed(Program(c, r, s, n), k[s], "flush")
  BY <1>1
<1> QED
  BY <1>1, <1>3, <1>4 DEF Block

LEMMA BlockEnds ==
    ASSUME NEW c \in Configs, NEW r \in Ranks, NEW n \in Nat \ {0}, NEW k, NEW q,
           Block(c, r, n, k, q), \A t \in ThreadsOf(c) : k[t] > Len(Program(c, r, t, n))
    PROVE  /\ OpsIn(q) = 0
           /\ \A t \in ThreadsOf(c) : Passed(Program(c, r, t, n), k[t], "post") = 0 .. n - 1
<1>1. ASSUME NEW t \in ThreadsOf(c)
      PROVE  /\ Passed(Program(c, r, t, n), k[t], "post") = 0 .. n - 1
             /\ Passed(Program(c, r, t, n), k[t], "flush") = Flushing(c, n)
             /\ Pending(Program(c, r, t, n), k[t]) = {}
  <2> DEFINE p == Program(c, r, t, n)
             m == k[t]
  <2>1. Laying(p, n, Flushing(c, n))
    BY ProgramLaying
  <2>2. m \in 1 .. Len(p) + 1 /\ m > Len(p)
    BY DEF Block
  <2> HIDE DEF p, m
  <2>3. Len(p) \in Nat
    <3>1. p \in Seq(Steps)
      BY <2>1 DEF Laying, Laid
    <3> QED
      BY <3>1
  <2>4. m = Len(p) + 1
    BY <2>2, <2>3
  <2>5. Passed(p, m, "post") = 0 .. n - 1 /\ Passed(p, m, "flush") = Flushing(c, n)
    BY <2>1, <2>4, PassedAll
  <2>6. ASSUME NEW i \in 0 .. n - 1 PROVE \E f \in Flushing(c, n) : ~(f < i)
    <3>1. CASE c.type = "ping" /\ c.op # "put_counter"
      <4>1. i \in Flushing(c, n) /\ ~(i < i)
        BY <3>1 DEF Flushing, LoopFlushes
      <4> QED
        BY <4>1
    <3>2. CASE ~(c.type = "ping" /\ c.op # "put_counter")
      <4>1. n \in Flushing(c, n) /\ ~(n < i)
        BY <3>2 DEF Flushing
      <4> QED
        BY <4>1
    <3> QED
      BY <3>1, <3>2
  <2>7. Pending(p, m) = {}
    BY <2>5, <2>6 DEF Pending
  <2> QED
    BY <2>5, <2>7 DEF p, m
<1>2. PendingOf(c, r, n, k) = {}
  <2>1. ASSUME NEW x \in PendingOf(c, r, n, k) PROVE FALSE
    <3>1. x[1] \in ThreadsOf(c) /\ x[2] \in Pending(Program(c, r, x[1], n), k[x[1]])
      BY DEF PendingOf
    <3> QED
      BY <3>1, <1>1
  <2> QED
    BY <2>1
<1>3. OpsIn(q) \in Nat /\ OpsIn(q) <= 0
  BY <1>2, FS_EmptySet DEF Block
<1> QED
  BY <1>1, <1>3

\* The flushes of the loop keep the queue within its depth.
LEMMA BlockFits ==
    ASSUME NEW c \in Configs, NEW r \in Ranks, NEW n \in Nat \ {0}, NEW k, NEW q,
           Block(c, r, n, k, q), c.skip
    PROVE  wqesPerOp(c) * OpsIn(q) <= Bound(c)
<1> DEFINE F == Flushing(c, n)
           D == Passed(Program(c, r, 0, n), k[0], "flush")
           S == PendingOf(c, r, n, k)
<1>1. 0 \in ThreadsOf(c)
  BY ConfigFacts DEF ThreadsOf
<1>2. ASSUME NEW x \in S PROVE x \in ThreadsOf(c) \X Window(n, F, D)
  <2>1. PICK t \in ThreadsOf(c), i \in 0 .. n - 1 : x = <<t, i>> /\ i \in Pending(Program(c, r, t, n), k[t])
    BY DEF PendingOf
  <2> DEFINE p == Program(c, r, t, n)
  <2>2. Laying(p, n, F) /\ k[t] \in 1 .. Len(p) + 1 /\ Passed(p, k[t], "flush") = D
    BY <1>1, ProgramLaying DEF Block
  <2> HIDE DEF p, D, F
  <2>3. Pending(p, k[t]) \subseteq Window(n, F, D)
    <3>1. Pending(p, k[t]) \subseteq Window(n, F, Passed(p, k[t], "flush"))
      BY <2>2, PendingInWindow
    <3> QED
      BY <2>2, <3>1
  <2> QED
    BY <2>1, <2>3 DEF p
<1>3. S \subseteq ThreadsOf(c) \X Window(n, F, D)
  BY <1>2
<1>4. OpsIn(q) \in Nat /\ OpsIn(q) <= Cardinality(S)
  BY DEF Block
<1> HIDE DEF S, D
<1> QED
  BY <1>3, <1>4, PendingFits DEF ThreadsOf

-----------------------------------------------------------------------------
(* A rank: pc of its host, its stream st, the places ps of its threads,    *)
(* its queues qs, and what has completed between its events.               *)

BlocksOf(c) == 0 .. c.num_ctas - 1
Places(c, ps, b) == [t \in ThreadsOf(c) |-> ps[<<b, t>>]]
Queues == [held : Nat, posted : Nat, read : Nat]
Part(c, r) == c.type = "pingpong" \/ c.bidir \/ r = 0
Measuring(c, r) == r = 0 \/ c.bidir
Runs(st) == st # <<>> /\ Head(st).do = "kernel"

\* What is left of what the host has queued.
Streams(c, r, pc) ==
    CASE pc = "warming" ->
           IF c.warmup_iters > 0 THEN {<<Kernel(c.warmup_iters)>>, <<>>} ELSE {<<>>}
      [] pc = "measuring" ->
           IF Measuring(c, r)
             THEN {<<Start, Kernel(c.iters), Stop>>, <<Kernel(c.iters), Stop>>, <<Stop>>, <<>>}
             ELSE IF Part(c, r) THEN {<<Kernel(c.iters)>>, <<>>} ELSE {<<>>}
      [] OTHER -> {<<>>}

\* Operations posted by this kernel, and operations in the queues.
PostedOf(c, r, n, ps) ==
    {x \in (BlocksOf(c) \X ThreadsOf(c)) \X (0 .. n - 1) :
        x[2] \in Passed(Program(c, r, x[1][2], n), ps[x[1]], "post")}
Outstanding(c, qs) == {x \in BlocksOf(c) \X Nat : 1 <= x[2] /\ x[2] <= OpsIn(qs[x[1]])}
Messages(c) == c.iters * c.num_ctas * c.num_threads

Counted(c, r, pc, st, ps, qs, co, ti) ==
    /\ pc = "measuring" /\ st = <<Kernel(c.iters), Stop>> =>
          co + Cardinality(Outstanding(c, qs)) = Cardinality(PostedOf(c, r, c.iters, ps))
    /\ pc = "measuring" /\ st = <<Stop>> => co = Messages(c)
    /\ pc \in {"reduce", "closing"} \/ (pc = "measuring" /\ st = <<>>) => ti = Messages(c)

InKernel(c, r, st, ps, qs) ==
    IF Runs(st) THEN \A b \in BlocksOf(c) : Block(c, r, Head(st).iters, Places(c, ps, b), qs[b])
    ELSE /\ \A x \in BlocksOf(c) \X ThreadsOf(c) : ps[x] = 1
         /\ \A b \in BlocksOf(c) : OpsIn(qs[b]) = 0

Credited(c, qs) ==
    ~c.skip => \A b \in BlocksOf(c) : wqesPerOp(c) * OpsIn(qs[b]) <= c.queue_depth

RankTypes(c, ps, qs, co, ti) ==
    /\ ps \in [BlocksOf(c) \X ThreadsOf(c) -> Nat]
    /\ qs \in [BlocksOf(c) -> Queues]
    /\ co \in Nat /\ ti \in Nat

RankInv(c, r, pc, st, ps, qs, co, ti) ==
    /\ RankTypes(c, ps, qs, co, ti)
    /\ st \in Streams(c, r, pc)
    /\ InKernel(c, r, st, ps, qs)
    /\ Credited(c, qs)
    /\ Measuring(c, r) => Counted(c, r, pc, st, ps, qs, co, ti)

LEMMA QueuesAre ==
    ASSUME NEW c, NEW qs \in [BlocksOf(c) -> Queues], NEW b \in BlocksOf(c)
    PROVE  /\ qs[b].held \in Nat /\ qs[b].posted \in Nat /\ qs[b].read \in Nat
           /\ OpsIn(qs[b]) \in Nat
  BY DEF Queues, OpsIn

\* What may be in a stream.
LEMMA StreamFacts ==
    ASSUME NEW c \in Configs, NEW r \in Ranks, NEW pc, NEW st \in Streams(c, r, pc)
    PROVE  /\ Runs(st) => /\ Head(st).iters \in Nat \ {0}
                          /\ pc \in {"warming", "measuring"}
                          /\ Tail(st) \in Streams(c, r, pc) /\ ~Runs(Tail(st))
                          /\ pc = "measuring" => Head(st).iters = c.iters
                          /\ pc = "measuring" /\ Measuring(c, r) =>
                                st = <<Kernel(c.iters), Stop>> /\ Tail(st) = <<Stop>>
           /\ st # <<>> /\ Head(st) = Start =>
                 pc = "measuring" /\ Measuring(c, r) /\ Tail(st) = <<Kernel(c.iters), Stop>>
           /\ st # <<>> /\ Head(st) = Stop =>
                 pc = "measuring" /\ Measuring(c, r) /\ st = <<Stop>> /\ Tail(st) = <<>>
<1>1. c.iters \in Nat \ {0} /\ c.warmup_iters \in Nat
  BY ConfigFacts
<1>2. /\ Start.do = "start" /\ Stop.do = "stop"
      /\ \A n : Kernel(n).do = "kernel" /\ Kernel(n).iters = n
  BY DEF Start, Stop, Kernel
<1> DEFINE k == Kernel(c.iters)
           w == Kernel(c.warmup_iters)
<1>3. k.do = "kernel" /\ k.iters = c.iters /\ w.do = "kernel" /\ w.iters = c.warmup_iters
  BY <1>2
<1>4. Start # Stop /\ k # Start /\ k # Stop /\ w # Start /\ w # Stop
  BY <1>2, <1>3
<1> HIDE DEF k, w
<1>5. CASE pc = "warming"
  <2>1. st = <<>> \/ (c.warmup_iters > 0 /\ st = <<w>> /\ <<>> \in Streams(c, r, pc))
    BY <1>5 DEF Streams, w
  <2>2. CASE st = <<>>
    BY <2>2 DEF Runs
  <2>3. CASE c.warmup_iters > 0 /\ st = <<w>> /\ <<>> \in Streams(c, r, pc)
    <3>1. Head(st) = w /\ Tail(st) = <<>>
      BY <2>3
    <3> QED
      BY <3>1, <2>3, <1>1, <1>3, <1>4, <1>5 DEF Runs
  <2> QED
    BY <2>1, <2>2, <2>3
<1>6. CASE pc = "measuring"
  <2>1. CASE st = <<>>
    BY <2>1 DEF Runs
  <2>2. CASE Measuring(c, r)
    <3>0. Streams(c, r, pc) = {<<Start, k, Stop>>, <<k, Stop>>, <<Stop>>, <<>>}
      BY <1>6, <2>2 DEF Streams, k
    <3>1. CASE st = <<Start, k, Stop>>
      <4>1. Head(st) = Start /\ Tail(st) = <<k, Stop>>
        BY <3>1
      <4> QED
        BY <4>1, <2>2, <1>2, <1>4, <1>6 DEF Runs, k
    <3>2. CASE st = <<k, Stop>>
      <4>1. Head(st) = k /\ Tail(st) = <<Stop>> /\ Head(<<Stop>>) = Stop
        BY <3>2
      <4> QED
        BY <4>1, <3>0, <3>2, <2>2, <1>1, <1>2, <1>3, <1>4, <1>6 DEF Runs, k
    <3>3. CASE st = <<Stop>>
      <4>1. Head(st) = Stop /\ Tail(st) = <<>>
        BY <3>3
      <4> QED
        BY <4>1, <3>3, <2>2, <1>2, <1>4, <1>6 DEF Runs
    <3> QED
      BY <3>0, <3>1, <3>2, <3>3, <2>1
  <2>3. CASE ~Measuring(c, r)
    <3>0. Streams(c, r, pc) = IF Part(c, r) THEN {<<k>>, <<>>} ELSE {<<>>}
      BY <1>6, <2>3 DEF Streams, k
    <3>1. CASE st = <<k>>
      <4>1. Head(st) = k /\ Tail(st) = <<>>
        BY <3>1
      <4> QED
        BY <4>1, <3>0, <2>3, <1>1, <1>3, <1>4, <1>6 DEF Runs
    <3> QED
      BY <3>0, <3>1, <2>1
  <2> QED
    BY <2>2, <2>3
<1>7. CASE pc # "warming" /\ pc # "measuring"
  <2>1. st = <<>>
    BY <1>7 DEF Streams
  <2> QED
    BY <2>1 DEF Runs
<1> QED
  BY <1>5, <1>6, <1>7

LEMMA PlacesAre ==
    ASSUME NEW c, NEW ps, NEW b, NEW t \in ThreadsOf(c)
    PROVE  Places(c, ps, b)[t] = ps[<<b, t>>]
  BY DEF Places

-----------------------------------------------------------------------------
(* Operations counted.                                                     *)

LEMMA GridFinite ==
    ASSUME NEW c \in Configs
    PROVE  /\ IsFiniteSet(BlocksOf(c)) /\ Cardinality(BlocksOf(c)) = c.num_ctas
           /\ IsFiniteSet(ThreadsOf(c)) /\ Cardinality(ThreadsOf(c)) = c.num_threads
           /\ IsFiniteSet(BlocksOf(c) \X ThreadsOf(c))
           /\ Cardinality(BlocksOf(c) \X ThreadsOf(c)) = c.num_ctas * c.num_threads
<1> DEFINE m == c.num_ctas
           k == c.num_threads
           z == 0
<1>1. m \in Nat \ {0} /\ k \in Nat \ {0}
  BY ConfigFacts
<1>2. /\ z \in Int /\ m - 1 \in Int /\ k - 1 \in Int
      /\ ~(z > m - 1) /\ ~(z > k - 1) /\ (m - 1) - z + 1 = m /\ (k - 1) - z + 1 = k
  BY <1>1
<1>3. /\ IsFiniteSet(z .. m - 1) /\ Cardinality(z .. m - 1) = m
      /\ IsFiniteSet(z .. k - 1) /\ Cardinality(z .. k - 1) = k
  <2> HIDE DEF z, m, k
  <2> QED
    BY <1>2, FS_Interval
<1>4. BlocksOf(c) = z .. m - 1 /\ ThreadsOf(c) = z .. k - 1
  BY DEF BlocksOf, ThreadsOf
<1> HIDE DEF z, m, k
<1>5. /\ IsFiniteSet(BlocksOf(c)) /\ Cardinality(BlocksOf(c)) = m
      /\ IsFiniteSet(ThreadsOf(c)) /\ Cardinality(ThreadsOf(c)) = k
  BY <1>3, <1>4
<1>6. IsFiniteSet(BlocksOf(c) \X ThreadsOf(c)) /\ Cardinality(BlocksOf(c) \X ThreadsOf(c)) = m * k
  BY <1>5, FS_Product
<1> QED
  BY <1>5, <1>6 DEF m, k

LEMMA OutstandingFinite ==
    ASSUME NEW c \in Configs, NEW qs \in [BlocksOf(c) -> Queues]
    PROVE  IsFiniteSet(Outstanding(c, qs)) /\ Cardinality(Outstanding(c, qs)) \in Nat
<1> DEFINE B == BlocksOf(c)
           f == [b \in B |-> OpsIn(qs[b])]
<1>1. \A b \in B : f[b] = OpsIn(qs[b]) /\ f[b] \in Nat /\ f[b] \in Int
  BY QueuesAre
<1>2. IsFiniteSet(B) /\ B # {}
  <2>1. c.num_ctas \in Nat \ {0}
    BY ConfigFacts
  <2>2. 0 \in B
    BY <2>1 DEF BlocksOf
  <2>3. IsFiniteSet(B)
    BY GridFinite
  <2> QED
    BY <2>2, <2>3
<1> HIDE DEF f, B
<1>3. PICK a \in B : \A b \in B : f[a] >= f[b]
  BY <1>1, <1>2, GreatestExists
<1> DEFINE M == f[a]
           z == 0
<1>4. M \in Nat /\ M \in Int /\ z \in Int
  BY <1>1
<1> HIDE DEF M, z
<1>5. IsFiniteSet(z .. M)
  BY <1>4, FS_Interval
<1>6. IsFiniteSet(B \X (z .. M))
  BY <1>2, <1>5, FS_Product
<1>7. Outstanding(c, qs) \in SUBSET (B \X (z .. M))
  <2>1. ASSUME NEW x \in Outstanding(c, qs) PROVE x \in B \X (z .. M)
    <3>1. PICK b \in B, j \in Nat : x = <<b, j>> /\ j <= OpsIn(qs[b])
      BY DEF Outstanding, B
    <3>2. j <= M /\ j >= z
      BY <3>1, <1>1, <1>3, <1>4 DEF M, z
    <3> QED
      BY <3>1, <3>2, <1>4
  <2> QED
    BY <2>1
<1> QED
  BY <1>6, <1>7, FS_Subset, FS_CardinalityType

\* One queue holds one operation more.
LEMMA OneMore ==
    ASSUME NEW c \in Configs, NEW qs \in [BlocksOf(c) -> Queues], NEW qs2 \in [BlocksOf(c) -> Queues],
           NEW b \in BlocksOf(c), OpsIn(qs2[b]) = OpsIn(qs[b]) + 1,
           \A a \in BlocksOf(c) : a # b => OpsIn(qs2[a]) = OpsIn(qs[a])
    PROVE  Cardinality(Outstanding(c, qs2)) = Cardinality(Outstanding(c, qs)) + 1
<1> DEFINE A == Outstanding(c, qs)
           A2 == Outstanding(c, qs2)
           j == OpsIn(qs[b]) + 1
<1>1. OpsIn(qs[b]) \in Nat /\ j \in Nat /\ 1 <= j
  BY QueuesAre
<1>2. ASSUME NEW a \in BlocksOf(c), NEW i \in Nat
      PROVE  <<a, i>> \in A2 <=> <<a, i>> \in A \/ <<a, i>> = <<b, j>>
  <2>1. /\ <<a, i>> \in A2 <=> 1 <= i /\ i <= OpsIn(qs2[a])
        /\ <<a, i>> \in A <=> 1 <= i /\ i <= OpsIn(qs[a])
    BY DEF Outstanding
  <2>2. CASE a = b
    <3>1. i <= OpsIn(qs2[a]) <=> i <= OpsIn(qs[a]) \/ i = j
      BY <2>2, <1>1
    <3> HIDE DEF j
    <3>2. 1 <= i /\ i <= OpsIn(qs2[a]) <=> (1 <= i /\ i <= OpsIn(qs[a])) \/ i = j
      BY <3>1, <1>1
    <3>3. <<a, i>> = <<b, j>> <=> i = j
      BY <2>2
    <3> HIDE DEF A, A2
    <3> QED
      BY <2>1, <3>2, <3>3
  <2>3. CASE a # b
    <3> HIDE DEF A, A2
    <3> QED
      BY <2>1, <2>3
  <2> QED
    BY <2>2, <2>3
<1>3. <<b, j>> \notin A
  <2>1. <<b, j>> \in A => j <= OpsIn(qs[b])
    BY DEF Outstanding
  <2> QED
    BY <1>1, <2>1
<1>4. A \subseteq BlocksOf(c) \X Nat /\ A2 \subseteq BlocksOf(c) \X Nat
  BY DEF Outstanding
<1>5. IsFiniteSet(A)
  BY OutstandingFinite
<1> HIDE DEF A, A2, j
<1>6. A2 = A \cup {<<b, j>>}
  <2>1. ASSUME NEW x \in A2 PROVE x \in A \cup {<<b, j>>}
    <3>1. PICK a \in BlocksOf(c), i \in Nat : x = <<a, i>>
      BY <1>4
    <3> QED
      BY <3>1, <1>2
  <2>2. ASSUME NEW x \in A \cup {<<b, j>>} PROVE x \in A2
    <3>1. PICK a \in BlocksOf(c), i \in Nat : x = <<a, i>>
      BY <1>1, <1>4
    <3> QED
      BY <3>1, <1>2
  <2> QED
    BY <2>1, <2>2
<1>7. Cardinality(A2) = Cardinality(A) + 1
  BY <1>3, <1>5, <1>6, FS_AddElement
<1> QED
  BY <1>7 DEF A, A2

LEMMA SameOutstanding ==
    ASSUME NEW c, NEW qs, NEW qs2, \A a \in BlocksOf(c) : OpsIn(qs2[a]) = OpsIn(qs[a])
    PROVE  Outstanding(c, qs2) = Outstanding(c, qs)
  BY DEF Outstanding

LEMMA NoneOutstanding ==
    ASSUME NEW c, NEW qs, \A a \in BlocksOf(c) : OpsIn(qs[a]) = 0
    PROVE  Cardinality(Outstanding(c, qs)) = 0
<1>1. Outstanding(c, qs) = {}
  BY DEF Outstanding
<1> QED
  BY <1>1, FS_EmptySet

LEMMA SamePosted ==
    ASSUME NEW c, NEW r, NEW n, NEW ps, NEW ps2,
           \A x \in BlocksOf(c) \X ThreadsOf(c) :
              Passed(Program(c, r, x[2], n), ps2[x], "post") = Passed(Program(c, r, x[2], n), ps[x], "post")
    PROVE  PostedOf(c, r, n, ps2) = PostedOf(c, r, n, ps)
  BY DEF PostedOf

\* One thread posts in one iteration more.
LEMMA OnePosted ==
    ASSUME NEW c \in Configs, NEW r, NEW n \in Nat, NEW ps, NEW ps2,
           NEW y \in BlocksOf(c) \X ThreadsOf(c), NEW i \in 0 .. n - 1,
           i \notin Passed(Program(c, r, y[2], n), ps[y], "post"),
           Passed(Program(c, r, y[2], n), ps2[y], "post")
              = Passed(Program(c, r, y[2], n), ps[y], "post") \cup {i},
           \A x \in BlocksOf(c) \X ThreadsOf(c) : x # y => ps2[x] = ps[x]
    PROVE  Cardinality(PostedOf(c, r, n, ps2)) = Cardinality(PostedOf(c, r, n, ps)) + 1
<1> DEFINE A == PostedOf(c, r, n, ps)
           A2 == PostedOf(c, r, n, ps2)
           G == BlocksOf(c) \X ThreadsOf(c)
<1>1. ASSUME NEW x \in G, NEW j \in 0 .. n - 1
      PROVE  <<x, j>> \in A2 <=> <<x, j>> \in A \/ <<x, j>> = <<y, i>>
  <2>1. /\ <<x, j>> \in A2 <=> j \in Passed(Program(c, r, x[2], n), ps2[x], "post")
        /\ <<x, j>> \in A <=> j \in Passed(Program(c, r, x[2], n), ps[x], "post")
    BY DEF PostedOf
  <2> HIDE DEF A, A2
  <2>2. CASE x = y
    BY <2>1, <2>2
  <2>3. CASE x # y
    BY <2>1, <2>3
  <2> QED
    BY <2>2, <2>3
<1>2. <<y, i>> \notin A
  <2>1. <<y, i>> \in A => i \in Passed(Program(c, r, y[2], n), ps[y], "post")
    BY DEF PostedOf
  <2> QED
    BY <2>1
<1>3. A \subseteq G \X (0 .. n - 1) /\ A2 \subseteq G \X (0 .. n - 1)
  BY DEF PostedOf
<1>4. IsFiniteSet(A)
  <2> DEFINE z == 0
  <2>1. z \in Int /\ n - 1 \in Int
    OBVIOUS
  <2>2. IsFiniteSet(z .. n - 1)
    <3> HIDE DEF z
    <3> QED
      BY <2>1, FS_Interval
  <2> HIDE DEF G, A
  <2>3. IsFiniteSet(G)
    BY GridFinite DEF G
  <2>4. IsFiniteSet(G \X (0 .. n - 1))
    BY <2>2, <2>3, FS_Product
  <2> QED
    BY <1>3, <2>4, FS_Subset
<1> HIDE DEF A, A2
<1>5. A2 = A \cup {<<y, i>>}
  <2> HIDE DEF G
  <2>1. ASSUME NEW e \in A2 PROVE e \in A \cup {<<y, i>>}
    <3>1. PICK x \in G, j \in 0 .. n - 1 : e = <<x, j>>
      BY <1>3
    <3> QED
      BY <3>1, <1>1
  <2>2. ASSUME NEW e \in A \cup {<<y, i>>} PROVE e \in A2
    <3>1. PICK x \in G, j \in 0 .. n - 1 : e = <<x, j>>
      BY <1>3 DEF G
    <3> QED
      BY <3>1, <1>1
  <2> QED
    BY <2>1, <2>2
<1>6. Cardinality(A2) = Cardinality(A) + 1
  BY <1>2, <1>4, <1>5, FS_AddElement
<1> QED
  BY <1>6 DEF A, A2

LEMMA NonePosted ==
    ASSUME NEW c, NEW r, NEW n, NEW ps, \A x \in BlocksOf(c) \X ThreadsOf(c) : ps[x] = 1
    PROVE  Cardinality(PostedOf(c, r, n, ps)) = 0
<1>1. PostedOf(c, r, n, ps) = {}
  BY PassedNone DEF PostedOf
<1> QED
  BY <1>1, FS_EmptySet

LEMMA AllPosted ==
    ASSUME NEW c \in Configs, NEW r, NEW n \in Nat, NEW ps,
           \A x \in BlocksOf(c) \X ThreadsOf(c) : Passed(Program(c, r, x[2], n), ps[x], "post") = 0 .. n - 1
    PROVE  Cardinality(PostedOf(c, r, n, ps)) = n * c.num_ctas * c.num_threads
<1> DEFINE G == BlocksOf(c) \X ThreadsOf(c)
           z == 0
<1>1. PostedOf(c, r, n, ps) = G \X (z .. n - 1)
  BY DEF PostedOf
<1>2. IsFiniteSet(z .. n - 1) /\ Cardinality(z .. n - 1) = n
  <2>1. z \in Int /\ n - 1 \in Int /\ (z > n - 1 => n = 0) /\ (n - 1) - z + 1 = n
    OBVIOUS
  <2> HIDE DEF z
  <2> QED
    BY <2>1, FS_Interval
<1>3. IsFiniteSet(G) /\ Cardinality(G) = c.num_ctas * c.num_threads
  BY GridFinite
<1> DEFINE S == z .. n - 1
<1>4. Cardinality(G \X S) = (c.num_ctas * c.num_threads) * n
  <2>1. IsFiniteSet(S) /\ Cardinality(S) = n
    BY <1>2
  <2> HIDE DEF G, S
  <2>2. Cardinality(G \X S) = Cardinality(G) * Cardinality(S)
    BY <1>3, <2>1, FS_Product
  <2> QED
    BY <1>3, <2>1, <2>2
<1> HIDE DEF G, z
<1>5. c.num_ctas \in Nat /\ c.num_threads \in Nat
  BY ConfigFacts
<1> DEFINE m == c.num_ctas
           k == c.num_threads
<1> HIDE DEF m, k
<1>6. m \in Nat /\ k \in Nat => (m * k) * n = n * m * k
  OBVIOUS
<1> QED
  BY <1>1, <1>4, <1>5, <1>6 DEF m, k

-----------------------------------------------------------------------------
(* The steps of a rank.                                                    *)

LEMMA KernelLength ==
    ASSUME NEW c \in Configs, NEW r \in Ranks, NEW pc, NEW st, NEW ps, NEW qs, NEW co, NEW ti,
           RankInv(c, r, pc, st, ps, qs, co, ti), Runs(st)
    PROVE  Head(st).iters \in Nat \ {0} /\ (pc = "measuring" => Head(st).iters = c.iters)
<1>1. st \in Streams(c, r, pc)
  BY DEF RankInv
<1> QED
  BY <1>1, StreamFacts

\* Threads go on by steps that neither post nor flush.
LEMMA RankPasses ==
    ASSUME NEW c \in Configs, NEW r \in Ranks, NEW pc, NEW st, NEW ps, NEW qs, NEW co, NEW ti,
           RankInv(c, r, pc, st, ps, qs, co, ti), Runs(st),
           NEW ps2 \in [BlocksOf(c) \X ThreadsOf(c) -> Nat],
           \A x \in BlocksOf(c) \X ThreadsOf(c) : GoesOn(c, r, Head(st).iters, x[2], ps[x], ps2[x])
    PROVE  RankInv(c, r, pc, st, ps2, qs, co, ti)
<1> DEFINE n == Head(st).iters
           G == BlocksOf(c) \X ThreadsOf(c)
<1>1. n \in Nat \ {0} /\ (pc = "measuring" => n = c.iters)
  BY KernelLength
<1> HIDE DEF n
<1>2. \A b \in BlocksOf(c) : Block(c, r, n, Places(c, ps, b), qs[b])
  BY DEF RankInv, InKernel, n
<1>3. \A b \in BlocksOf(c) : OpsIn(qs[b]) \in Nat
  BY QueuesAre DEF RankInv, RankTypes
<1>4. ASSUME NEW b \in BlocksOf(c) PROVE Block(c, r, n, Places(c, ps2, b), qs[b])
  <2> DEFINE k == Places(c, ps, b)
             k2 == Places(c, ps2, b)
  <2>1. \A t \in ThreadsOf(c) : k[t] = ps[<<b, t>>] /\ k2[t] = ps2[<<b, t>>]
    BY PlacesAre
  <2>2. \A t \in ThreadsOf(c) : GoesOn(c, r, n, t, ps[<<b, t>>], ps2[<<b, t>>])
    BY DEF n
  <2>3. Block(c, r, n, k, qs[b]) /\ OpsIn(qs[b]) \in Nat /\ OpsIn(qs[b]) <= OpsIn(qs[b])
    BY <1>2, <1>3
  <2> HIDE DEF k, k2
  <2>4. \A t \in ThreadsOf(c) : GoesOn(c, r, n, t, k[t], k2[t])
    BY <2>1, <2>2
  <2>5. Block(c, r, n, k2, qs[b])
    BY <1>1, <2>3, <2>4, BlockPasses
  <2> QED
    BY <2>5 DEF k2
<1>5. InKernel(c, r, st, ps2, qs)
  BY <1>4 DEF InKernel, n
<1>6. ASSUME Measuring(c, r), pc = "measuring"
      PROVE  PostedOf(c, r, c.iters, ps2) = PostedOf(c, r, c.iters, ps)
  <2>1. ASSUME NEW x \in G
        PROVE  Passed(Program(c, r, x[2], n), ps2[x], "post") = Passed(Program(c, r, x[2], n), ps[x], "post")
    <3>1. PICK b \in BlocksOf(c), t \in ThreadsOf(c) : x = <<b, t>>
      OBVIOUS
    <3>2. x[2] = t /\ GoesOn(c, r, n, t, ps[x], ps2[x])
      BY <3>1 DEF n
    <3>3. ps[x] \in 1 .. Len(Program(c, r, t, n)) + 1
      BY <3>1, <1>2, PlacesAre DEF Block
    <3> QED
      BY <1>1, <3>2, <3>3, StepPasses
  <2>2. n = c.iters
    BY <1>1, <1>6
  <2> QED
    BY <2>1, <2>2, SamePosted
<1>7. Measuring(c, r) => Counted(c, r, pc, st, ps2, qs, co, ti)
  BY <1>6 DEF RankInv, Counted
<1> QED
  BY <1>5, <1>7 DEF RankInv, RankTypes

\* A thread posts, within the credit if that is looked at.
Posts(c, r, st, ps, qs, b, t, ps2, qs2) ==
    /\ b \in BlocksOf(c) /\ t \in ThreadsOf(c)
    /\ ps[<<b, t>>] <= Len(Program(c, r, t, Head(st).iters))
    /\ Program(c, r, t, Head(st).iters)[ps[<<b, t>>]].do = "post"
    /\ ps2 \in [BlocksOf(c) \X ThreadsOf(c) -> Nat] /\ ps2[<<b, t>>] = ps[<<b, t>>] + 1
    /\ \A x \in BlocksOf(c) \X ThreadsOf(c) : x # <<b, t>> => ps2[x] = ps[x]
    /\ qs2 \in [BlocksOf(c) -> Queues] /\ OpsIn(qs2[b]) = OpsIn(qs[b]) + 1
    /\ \A a \in BlocksOf(c) : a # b => qs2[a] = qs[a]
    /\ ~c.skip => wqesPerOp(c) * OpsIn(qs2[b]) <= c.queue_depth

LEMMA RankPosts ==
    ASSUME NEW c \in Configs, NEW r \in Ranks, NEW pc, NEW st, NEW ps, NEW qs, NEW co, NEW ti,
           RankInv(c, r, pc, st, ps, qs, co, ti), Runs(st),
           NEW b, NEW t, NEW ps2, NEW qs2, Posts(c, r, st, ps, qs, b, t, ps2, qs2)
    PROVE  RankInv(c, r, pc, st, ps2, qs2, co, ti)
<1> SUFFICES ASSUME b \in BlocksOf(c),
                    t \in ThreadsOf(c),
                    ps[<<b, t>>] <= Len(Program(c, r, t, Head(st).iters)),
                    Program(c, r, t, Head(st).iters)[ps[<<b, t>>]].do = "post",
                    ps2 \in [BlocksOf(c) \X ThreadsOf(c) -> Nat],
                    ps2[<<b, t>>] = ps[<<b, t>>] + 1,
                    \A x \in BlocksOf(c) \X ThreadsOf(c) : x # <<b, t>> => ps2[x] = ps[x],
                    qs2 \in [BlocksOf(c) -> Queues],
                    OpsIn(qs2[b]) = OpsIn(qs[b]) + 1,
                    \A a \in BlocksOf(c) : a # b => qs2[a] = qs[a],
                    ~c.skip => wqesPerOp(c) * OpsIn(qs2[b]) <= c.queue_depth
             PROVE  RankInv(c, r, pc, st, ps2, qs2, co, ti)
  BY DEF Posts
<1> DEFINE n == Head(st).iters
           G == BlocksOf(c) \X ThreadsOf(c)
           p == Program(c, r, t, n)
           m == ps[<<b, t>>]
<1>1. n \in Nat \ {0} /\ (pc = "measuring" => n = c.iters)
  BY KernelLength
<1> HIDE DEF n
<1>2. \A a \in BlocksOf(c) : Block(c, r, n, Places(c, ps, a), qs[a])
  BY DEF RankInv, InKernel, n
<1>3. m <= Len(p) /\ p[m].do = "post" /\ ps2[<<b, t>>] = m + 1
  BY DEF n
<1>4. m \in 1 .. Len(p) + 1
  BY <1>2, PlacesAre DEF Block
<1>5. ASSUME NEW a \in BlocksOf(c) PROVE Block(c, r, n, Places(c, ps2, a), qs2[a])
  <2> DEFINE k == Places(c, ps, a)
             k2 == Places(c, ps2, a)
  <2>1. \A s \in ThreadsOf(c) : k[s] = ps[<<a, s>>] /\ k2[s] = ps2[<<a, s>>]
    BY PlacesAre
  <2>2. Block(c, r, n, k, qs[a])
    BY <1>2
  <2>3. CASE a = b
    <3> HIDE DEF k, k2
    <3>4. \A s \in ThreadsOf(c) : k[s] = ps[<<b, s>>] /\ k2[s] = ps2[<<b, s>>]
      BY <2>1, <2>3
    <3>5. ASSUME NEW s \in ThreadsOf(c), s # t PROVE k2[s] = k[s]
      <4>1. <<b, s>> \in G /\ <<b, s>> # <<b, t>>
        BY <3>5
      <4>2. ps2[<<b, s>>] = ps[<<b, s>>]
        BY <4>1
      <4> QED
        BY <3>4, <4>2
    <3>6. k[t] = m /\ k2[t] = ps2[<<b, t>>]
      BY <3>4
    <3>1. /\ k[t] = m /\ k2[t] = m + 1
          /\ \A s \in ThreadsOf(c) : s # t => k2[s] = k[s]
      <4> HIDE DEF m, p
      <4> QED
        BY <1>3, <3>5, <3>6
    <3>2. k[t] <= Len(Program(c, r, t, n)) /\ Program(c, r, t, n)[k[t]].do = "post" /\ k2[t] = k[t] + 1
      BY <3>1, <1>3
    <3>3. Block(c, r, n, k2, qs2[a])
      BY <1>1, <2>2, <2>3, <3>1, <3>2, BlockPosts
    <3> QED
      BY <3>3 DEF k2
  <2>4. CASE a # b
    <3>1. k2 = k /\ qs2[a] = qs[a]
      <4>1. ASSUME NEW s \in ThreadsOf(c) PROVE ps2[<<a, s>>] = ps[<<a, s>>]
        <5>1. <<a, s>> \in G /\ <<a, s>> # <<b, t>>
          BY <2>4
        <5> QED
          BY <5>1
      <4> QED
        BY <4>1, <2>4 DEF Places
    <3> QED
      BY <3>1, <2>2
  <2> QED
    BY <2>3, <2>4
<1>6. InKernel(c, r, st, ps2, qs2)
  BY <1>5 DEF InKernel, n
<1>7. Credited(c, qs2)
  BY DEF Credited, RankInv
<1>8. ASSUME Measuring(c, r), pc = "measuring"
      PROVE  /\ Cardinality(PostedOf(c, r, c.iters, ps2)) = Cardinality(PostedOf(c, r, c.iters, ps)) + 1
             /\ Cardinality(Outstanding(c, qs2)) = Cardinality(Outstanding(c, qs)) + 1
             /\ Cardinality(Outstanding(c, qs)) \in Nat
  <2>1. n = c.iters
    BY <1>1, <1>8
  <2>2. qs \in [BlocksOf(c) -> Queues]
    BY DEF RankInv, RankTypes
  <2>3. /\ Cardinality(Outstanding(c, qs2)) = Cardinality(Outstanding(c, qs)) + 1
        /\ Cardinality(Outstanding(c, qs)) \in Nat
    BY <2>2, OneMore, OutstandingFinite
  <2>4. Laying(p, n, Flushing(c, n))
    BY <1>1, ProgramLaying
  <2> DEFINE i == p[m].i
             y == <<b, t>>
  <2> HIDE DEF p, m
  <2>5. Len(p) \in Nat
    <3>1. p \in Seq(Steps)
      BY <2>4 DEF Laying, Laid
    <3> QED
      BY <3>1
  <2>6. m \in 1 .. Len(p) /\ m \in Nat \ {0}
    BY <1>3, <1>4, <2>5
  <2>7. i \in 0 .. n - 1 /\ i \notin Passed(p, m, "post")
    BY <1>3, <2>4, <2>6, PostIsNew
  <2>8. Passed(p, m + 1, "post") = Passed(p, m, "post") \cup {i}
    <3>1. Passed(p, m + 1, "post") = Passed(p, m, "post") \cup (IF p[m].do = "post" THEN {p[m].i} ELSE {})
      BY <2>6, PassedStep
    <3> QED
      BY <3>1, <1>3
  <2>9. y \in G /\ y[2] = t /\ ps[y] = m /\ ps2[y] = m + 1 /\ \A x \in G : x # y => ps2[x] = ps[x]
    BY <1>3 DEF m
  <2> HIDE DEF i, y
  <2>10. /\ i \notin Passed(Program(c, r, y[2], n), ps[y], "post")
         /\ Passed(Program(c, r, y[2], n), ps2[y], "post")
              = Passed(Program(c, r, y[2], n), ps[y], "post") \cup {i}
    BY <2>7, <2>8, <2>9 DEF p
  <2>11. Cardinality(PostedOf(c, r, n, ps2)) = Cardinality(PostedOf(c, r, n, ps)) + 1
    BY <1>1, <2>7, <2>9, <2>10, OnePosted
  <2> QED
    BY <2>1, <2>3, <2>11
<1>9. ASSUME Measuring(c, r) PROVE Counted(c, r, pc, st, ps2, qs2, co, ti)
  <2>1. Counted(c, r, pc, st, ps, qs, co, ti) /\ co \in Nat
    BY <1>9 DEF RankInv, RankTypes
  <2>2. pc = "measuring" /\ st = <<Kernel(c.iters), Stop>> =>
          co + Cardinality(Outstanding(c, qs2)) = Cardinality(PostedOf(c, r, c.iters, ps2))
    BY <1>8, <1>9, <2>1 DEF Counted
  <2> QED
    BY <2>1, <2>2 DEF Counted
<1> QED
  BY <1>6, <1>7, <1>9 DEF RankInv, RankTypes

\* A block flushes.
\* The threads of a block flush its queue, which is empty.
Flushes(c, r, st, ps, qs, b, ps2) ==
    /\ b \in BlocksOf(c) /\ OpsIn(qs[b]) = 0
    /\ \A t \in ThreadsOf(c) : /\ ps[<<b, t>>] <= Len(Program(c, r, t, Head(st).iters))
                               /\ Program(c, r, t, Head(st).iters)[ps[<<b, t>>]].do = "flush"
    /\ ps2 \in [BlocksOf(c) \X ThreadsOf(c) -> Nat]
    /\ \A x \in BlocksOf(c) \X ThreadsOf(c) : ps2[x] = IF x[1] = b THEN ps[x] + 1 ELSE ps[x]

LEMMA RankFlushes ==
    ASSUME NEW c \in Configs, NEW r \in Ranks, NEW pc, NEW st, NEW ps, NEW qs, NEW co, NEW ti,
           RankInv(c, r, pc, st, ps, qs, co, ti), Runs(st),
           NEW b, NEW ps2, Flushes(c, r, st, ps, qs, b, ps2)
    PROVE  RankInv(c, r, pc, st, ps2, qs, co, ti)
<1> SUFFICES ASSUME b \in BlocksOf(c), OpsIn(qs[b]) = 0,
                    \A t \in ThreadsOf(c) : /\ ps[<<b, t>>] <= Len(Program(c, r, t, Head(st).iters))
                                            /\ Program(c, r, t, Head(st).iters)[ps[<<b, t>>]].do = "flush",
                    ps2 \in [BlocksOf(c) \X ThreadsOf(c) -> Nat],
                    \A x \in BlocksOf(c) \X ThreadsOf(c) : ps2[x] = IF x[1] = b THEN ps[x] + 1 ELSE ps[x]
             PROVE  RankInv(c, r, pc, st, ps2, qs, co, ti)
  BY DEF Flushes
<1> DEFINE n == Head(st).iters
           G == BlocksOf(c) \X ThreadsOf(c)
<1>1. n \in Nat \ {0} /\ (pc = "measuring" => n = c.iters)
  BY KernelLength
<1>0. \A t \in ThreadsOf(c) : /\ ps[<<b, t>>] <= Len(Program(c, r, t, n))
                              /\ Program(c, r, t, n)[ps[<<b, t>>]].do = "flush"
  OBVIOUS
<1> HIDE DEF n
<1>2. \A a \in BlocksOf(c) : Block(c, r, n, Places(c, ps, a), qs[a])
  BY DEF RankInv, InKernel, n
<1>3. ASSUME NEW a \in BlocksOf(c), NEW t \in ThreadsOf(c)
      PROVE  ps2[<<a, t>>] = IF a = b THEN ps[<<a, t>>] + 1 ELSE ps[<<a, t>>]
  <2>1. <<a, t>> \in G /\ <<a, t>>[1] = a
    OBVIOUS
  <2> QED
    BY <2>1
<1>4. ASSUME NEW a \in BlocksOf(c) PROVE Block(c, r, n, Places(c, ps2, a), qs[a])
  <2> DEFINE k == Places(c, ps, a)
             k2 == Places(c, ps2, a)
  <2>1. \A s \in ThreadsOf(c) : k[s] = ps[<<a, s>>] /\ k2[s] = ps2[<<a, s>>]
    BY PlacesAre
  <2>2. Block(c, r, n, k, qs[a])
    BY <1>2
  <2>3. CASE a = b
    <3>1. \A t \in ThreadsOf(c) : k[t] = ps[<<b, t>>] /\ k2[t] = k[t] + 1
      BY <1>3, <2>1, <2>3
    <3> HIDE DEF k, k2
    <3>2. \A t \in ThreadsOf(c) : /\ k[t] <= Len(Program(c, r, t, n))
                                  /\ Program(c, r, t, n)[k[t]].do = "flush"
                                  /\ k2[t] = k[t] + 1
      <4> SUFFICES ASSUME NEW t \in ThreadsOf(c)
                   PROVE  /\ k[t] <= Len(Program(c, r, t, n))
                          /\ Program(c, r, t, n)[k[t]].do = "flush"
                          /\ k2[t] = k[t] + 1
        OBVIOUS
      <4> DEFINE w == Program(c, r, t, n)
                 m == ps[<<b, t>>]
      <4>1. m <= Len(w) /\ w[m].do = "flush"
        BY <1>0
      <4>2. k[t] = m /\ k2[t] = k[t] + 1
        BY <3>1
      <4> HIDE DEF w, m
      <4>3. k[t] <= Len(w) /\ w[k[t]].do = "flush"
        BY <4>1, <4>2
      <4> QED
        BY <4>2, <4>3 DEF w
    <3>3. Block(c, r, n, k2, qs[a])
      BY <1>1, <2>2, <2>3, <3>2, BlockFlushes
    <3> QED
      BY <3>3 DEF k2
  <2>4. CASE a # b
    <3>1. k2 = k
      BY <1>3, <2>4 DEF Places
    <3> QED
      BY <3>1, <2>2
  <2> QED
    BY <2>3, <2>4
<1>5. InKernel(c, r, st, ps2, qs)
  BY <1>4 DEF InKernel, n
<1>6. ASSUME Measuring(c, r), pc = "measuring"
      PROVE  PostedOf(c, r, c.iters, ps2) = PostedOf(c, r, c.iters, ps)
  <2>1. ASSUME NEW x \in G
        PROVE  Passed(Program(c, r, x[2], n), ps2[x], "post") = Passed(Program(c, r, x[2], n), ps[x], "post")
    <3>1. PICK a \in BlocksOf(c), t \in ThreadsOf(c) : x = <<a, t>>
      OBVIOUS
    <3> DEFINE p == Program(c, r, t, n)
               m == ps[<<a, t>>]
    <3>2. CASE a # b
      BY <3>1, <3>2, <1>3
    <3>3. CASE a = b
      <4>1. m \in 1 .. Len(p) + 1 /\ p[m].do = "flush" /\ ps2[x] = m + 1 /\ ps[x] = m /\ x[2] = t
        BY <3>1, <3>3, <1>0, <1>2, <1>3, PlacesAre DEF Block
      <4> HIDE DEF p, m
      <4>2. m \in Nat \ {0}
        BY <4>1
      <4>3. Passed(p, m + 1, "post") = Passed(p, m, "post") \cup (IF p[m].do = "post" THEN {p[m].i} ELSE {})
        BY <4>2, PassedStep
      <4> QED
        BY <4>1, <4>3 DEF p
    <3> QED
      BY <3>2, <3>3
  <2>2. n = c.iters
    BY <1>1, <1>6
  <2> QED
    BY <2>1, <2>2, SamePosted
<1>7. Measuring(c, r) => Counted(c, r, pc, st, ps2, qs, co, ti)
  BY <1>6 DEF RankInv, Counted
<1> QED
  BY <1>5, <1>7 DEF RankInv, RankTypes

\* The queues change, and no more is in them than was.
LEMMA BlocksKeep ==
    ASSUME NEW c \in Configs, NEW r \in Ranks, NEW st, NEW ps, NEW qs, NEW n \in Nat \ {0},
           NEW qs2, \A a \in BlocksOf(c) : OpsIn(qs2[a]) \in Nat /\ OpsIn(qs2[a]) <= OpsIn(qs[a]),
           \A a \in BlocksOf(c) : Block(c, r, n, Places(c, ps, a), qs[a])
    PROVE  \A a \in BlocksOf(c) : Block(c, r, n, Places(c, ps, a), qs2[a])
<1> SUFFICES ASSUME NEW a \in BlocksOf(c) PROVE Block(c, r, n, Places(c, ps, a), qs2[a])
  OBVIOUS
<1> DEFINE k == Places(c, ps, a)
           q == qs[a]
           q2 == qs2[a]
<1>1. Block(c, r, n, k, q) /\ OpsIn(q2) \in Nat /\ OpsIn(q2) <= OpsIn(q)
  OBVIOUS
<1>2. \A t \in ThreadsOf(c) : GoesOn(c, r, n, t, k[t], k[t])
  BY DEF GoesOn
<1> HIDE DEF k, q, q2
<1>3. Block(c, r, n, k, q2)
  BY <1>1, <1>2, BlockPasses
<1> QED
  BY <1>3 DEF k, q2

\* The network interface reads an operation.
LEMMA RankReads ==
    ASSUME NEW c \in Configs, NEW r \in Ranks, NEW pc, NEW st, NEW ps, NEW qs, NEW co, NEW ti,
           RankInv(c, r, pc, st, ps, qs, co, ti), NEW qs2 \in [BlocksOf(c) -> Queues],
           \A a \in BlocksOf(c) : OpsIn(qs2[a]) = OpsIn(qs[a])
    PROVE  RankInv(c, r, pc, st, ps, qs2, co, ti)
<1>1. \A a \in BlocksOf(c) : OpsIn(qs2[a]) \in Nat /\ OpsIn(qs2[a]) <= OpsIn(qs[a])
  BY QueuesAre
<1>2. InKernel(c, r, st, ps, qs2)
  <2>1. CASE Runs(st)
    <3>1. Head(st).iters \in Nat \ {0}
      BY <2>1, KernelLength
    <3>2. \A a \in BlocksOf(c) : Block(c, r, Head(st).iters, Places(c, ps, a), qs[a])
      BY <2>1 DEF RankInv, InKernel
    <3> DEFINE n == Head(st).iters
    <3> HIDE DEF n
    <3>3. \A a \in BlocksOf(c) : Block(c, r, n, Places(c, ps, a), qs2[a])
      BY <1>1, <3>1, <3>2, BlocksKeep DEF n
    <3> QED
      BY <2>1, <3>3 DEF InKernel, n
  <2>2. CASE ~Runs(st)
    BY <2>2 DEF InKernel, RankInv
  <2> QED
    BY <2>1, <2>2
<1>3. Credited(c, qs2)
  BY DEF Credited, RankInv
<1>4. Outstanding(c, qs2) = Outstanding(c, qs)
  BY SameOutstanding
<1>5. Measuring(c, r) => Counted(c, r, pc, st, ps, qs2, co, ti)
  BY <1>4 DEF RankInv, Counted
<1> QED
  BY <1>2, <1>3, <1>5 DEF RankInv, RankTypes

\* It completes one.
LEMMA RankCompletes ==
    ASSUME NEW c \in Configs, NEW r \in Ranks, NEW pc, NEW st, NEW ps, NEW qs, NEW co, NEW ti,
           RankInv(c, r, pc, st, ps, qs, co, ti), NEW qs2 \in [BlocksOf(c) -> Queues],
           NEW b \in BlocksOf(c), OpsIn(qs[b]) = OpsIn(qs2[b]) + 1,
           \A a \in BlocksOf(c) : a # b => OpsIn(qs2[a]) = OpsIn(qs[a])
    PROVE  RankInv(c, r, pc, st, ps, qs2, co + 1, ti)
<1>1. ASSUME NEW a \in BlocksOf(c) PROVE OpsIn(qs2[a]) \in Nat /\ OpsIn(qs2[a]) <= OpsIn(qs[a])
  <2>1. OpsIn(qs2[a]) \in Nat
    BY QueuesAre
  <2>2. CASE a = b
    BY <2>1, <2>2
  <2>3. CASE a # b
    BY <2>1, <2>3
  <2> QED
    BY <2>1, <2>2, <2>3
<1>2. Runs(st)
  <2>1. ~Runs(st) => OpsIn(qs[b]) = 0
    BY DEF InKernel, RankInv
  <2> QED
    BY <1>1, <2>1
<1>3. InKernel(c, r, st, ps, qs2)
  <2>1. Head(st).iters \in Nat \ {0}
    BY <1>2, KernelLength
  <2>2. \A a \in BlocksOf(c) : Block(c, r, Head(st).iters, Places(c, ps, a), qs[a])
    BY <1>2 DEF RankInv, InKernel
  <2> DEFINE n == Head(st).iters
  <2> HIDE DEF n
  <2>3. \A a \in BlocksOf(c) : Block(c, r, n, Places(c, ps, a), qs2[a])
    BY <1>1, <2>1, <2>2, BlocksKeep DEF n
  <2> QED
    BY <1>2, <2>3 DEF InKernel, n
<1>4. Credited(c, qs2)
  <2> SUFFICES ASSUME ~c.skip, NEW a \in BlocksOf(c) PROVE wqesPerOp(c) * OpsIn(qs2[a]) <= c.queue_depth
    BY DEF Credited
  <2>1. wqesPerOp(c) * OpsIn(qs[a]) <= c.queue_depth
    BY DEF Credited, RankInv
  <2>2. OpsIn(qs2[a]) \in Nat /\ OpsIn(qs[a]) \in Nat /\ OpsIn(qs2[a]) <= OpsIn(qs[a])
    BY <1>1, QueuesAre DEF RankInv, RankTypes
  <2>3. c.queue_depth \in Nat
    BY ConfigFacts
  <2> DEFINE x == OpsIn(qs2[a])
             y == OpsIn(qs[a])
  <2> HIDE DEF x, y
  <2>4. CASE wqesPerOp(c) = 1
    BY <2>1, <2>2, <2>3, <2>4 DEF x, y
  <2>5. CASE wqesPerOp(c) = 2
    BY <2>1, <2>2, <2>3, <2>5 DEF x, y
  <2> QED
    BY <2>4, <2>5 DEF wqesPerOp
<1>5. qs \in [BlocksOf(c) -> Queues] /\ co \in Nat
  BY DEF RankInv, RankTypes
<1>6. /\ Cardinality(Outstanding(c, qs)) = Cardinality(Outstanding(c, qs2)) + 1
      /\ Cardinality(Outstanding(c, qs2)) \in Nat
  <2>1. \A a \in BlocksOf(c) : a # b => OpsIn(qs[a]) = OpsIn(qs2[a])
    OBVIOUS
  <2> QED
    BY <1>5, <2>1, OneMore, OutstandingFinite
<1>7. ASSUME Measuring(c, r) PROVE Counted(c, r, pc, st, ps, qs2, co + 1, ti)
  <2>1. Counted(c, r, pc, st, ps, qs, co, ti)
    BY <1>7 DEF RankInv
  <2>2. st # <<Stop>>
    <3>1. Head(<<Stop>>) = Stop /\ Stop.do = "stop"
      BY DEF Stop
    <3> QED
      BY <1>2, <3>1 DEF Runs
  <2>3. pc = "measuring" /\ st = <<Kernel(c.iters), Stop>> =>
          (co + 1) + Cardinality(Outstanding(c, qs2)) = Cardinality(PostedOf(c, r, c.iters, ps))
    BY <1>5, <1>6, <2>1 DEF Counted
  <2> QED
    BY <2>1, <2>2, <2>3 DEF Counted
<1>8. RankTypes(c, ps, qs2, co + 1, ti) /\ st \in Streams(c, r, pc)
  BY DEF RankInv, RankTypes
<1> QED
  BY <1>3, <1>4, <1>7, <1>8 DEF RankInv

\* An event is recorded.
LEMMA RankRecordsStart ==
    ASSUME NEW c \in Configs, NEW r \in Ranks, NEW pc, NEW st, NEW ps, NEW qs, NEW co, NEW ti,
           RankInv(c, r, pc, st, ps, qs, co, ti), st # <<>>, Head(st) = Start
    PROVE  RankInv(c, r, pc, Tail(st), ps, qs, 0, 0)
<1>1. st \in Streams(c, r, pc)
  BY DEF RankInv
<1>2. pc = "measuring" /\ Measuring(c, r) /\ Tail(st) = <<Kernel(c.iters), Stop>>
  BY <1>1, StreamFacts
<1> DEFINE s == Tail(st)
           k == Kernel(c.iters)
<1>3. s = <<k, Stop>> /\ k.do = "kernel" /\ k.iters = c.iters
  BY <1>2 DEF Kernel
<1>4. s \in Streams(c, r, pc)
  BY <1>2, <1>3 DEF Streams
<1>5. ~Runs(st)
  BY DEF Runs, Start
<1>6. /\ \A x \in BlocksOf(c) \X ThreadsOf(c) : ps[x] = 1
      /\ \A b \in BlocksOf(c) : OpsIn(qs[b]) = 0
  BY <1>5 DEF RankInv, InKernel
<1> HIDE DEF s, k
<1>7. Head(s) = k /\ s # <<>> /\ s # <<Stop>>
  <2>1. k # Stop
    BY <1>3 DEF Stop
  <2> QED
    BY <1>3, <2>1
<1>8. InKernel(c, r, s, ps, qs)
  <2>1. c.iters \in Nat \ {0}
    BY ConfigFacts
  <2>2. ASSUME NEW b \in BlocksOf(c) PROVE Block(c, r, c.iters, Places(c, ps, b), qs[b])
    <3>1. ASSUME NEW t \in ThreadsOf(c) PROVE Places(c, ps, b)[t] = 1
      <4>1. Places(c, ps, b)[t] = ps[<<b, t>>] /\ <<b, t>> \in BlocksOf(c) \X ThreadsOf(c)
        BY PlacesAre
      <4> QED
        BY <1>6, <4>1
    <3> QED
      BY <1>6, <2>1, <3>1, BlockStarts
  <2> QED
    BY <1>3, <1>7, <2>2 DEF InKernel, Runs
<1>9. Counted(c, r, pc, s, ps, qs, 0, 0)
  <2>1. Cardinality(Outstanding(c, qs)) = 0 /\ Cardinality(PostedOf(c, r, c.iters, ps)) = 0
    BY <1>6, NoneOutstanding, NonePosted
  <2> QED
    BY <1>2, <1>7, <2>1 DEF Counted
<1>10. RankTypes(c, ps, qs, 0, 0) /\ Credited(c, qs)
  BY DEF RankInv, RankTypes
<1> QED
  BY <1>4, <1>8, <1>9, <1>10 DEF RankInv, s

LEMMA RankRecordsStop ==
    ASSUME NEW c \in Configs, NEW r \in Ranks, NEW pc, NEW st, NEW ps, NEW qs, NEW co, NEW ti,
           RankInv(c, r, pc, st, ps, qs, co, ti), st # <<>>, Head(st) = Stop
    PROVE  RankInv(c, r, pc, Tail(st), ps, qs, co, co)
<1>1. st \in Streams(c, r, pc)
  BY DEF RankInv
<1>2. pc = "measuring" /\ Measuring(c, r) /\ st = <<Stop>> /\ Tail(st) = <<>>
  BY <1>1, StreamFacts
<1> DEFINE s == Tail(st)
<1>3. s \in Streams(c, r, pc)
  BY <1>2 DEF Streams
<1>4. ~Runs(st) /\ ~Runs(s)
  <2>1. Stop.do = "stop"
    BY DEF Stop
  <2> QED
    BY <1>2, <2>1 DEF Runs
<1>5. InKernel(c, r, s, ps, qs)
  BY <1>4 DEF InKernel, RankInv
<1>6. co = Messages(c)
  BY <1>2 DEF RankInv, Counted
<1>7. Counted(c, r, pc, s, ps, qs, co, co)
  BY <1>2, <1>6 DEF Counted
<1>8. RankTypes(c, ps, qs, co, co) /\ Credited(c, qs)
  BY DEF RankInv, RankTypes
<1> QED
  BY <1>3, <1>5, <1>7, <1>8 DEF RankInv

\* A kernel ends.
LEMMA RankEnds ==
    ASSUME NEW c \in Configs, NEW r \in Ranks, NEW pc, NEW st, NEW ps, NEW qs, NEW co, NEW ti,
           RankInv(c, r, pc, st, ps, qs, co, ti), Runs(st),
           \A b \in BlocksOf(c), t \in ThreadsOf(c) : ps[<<b, t>>] > Len(Program(c, r, t, Head(st).iters)),
           NEW ps2 \in [BlocksOf(c) \X ThreadsOf(c) -> Nat],
           \A x \in BlocksOf(c) \X ThreadsOf(c) : ps2[x] = 1
    PROVE  RankInv(c, r, pc, Tail(st), ps2, qs, co, ti)
<1> DEFINE n == Head(st).iters
           s == Tail(st)
<1>0. st \in Streams(c, r, pc)
  BY DEF RankInv
<1>1. n \in Nat \ {0} /\ (pc = "measuring" => n = c.iters)
  BY KernelLength
<1>2. /\ s \in Streams(c, r, pc) /\ ~Runs(s) /\ pc \in {"warming", "measuring"}
      /\ pc = "measuring" /\ Measuring(c, r) => st = <<Kernel(c.iters), Stop>> /\ s = <<Stop>>
  BY <1>0, StreamFacts
<1>3. \A b \in BlocksOf(c) : Block(c, r, n, Places(c, ps, b), qs[b])
  BY DEF RankInv, InKernel
<1>4. \A b \in BlocksOf(c), t \in ThreadsOf(c) : ps[<<b, t>>] > Len(Program(c, r, t, n))
  OBVIOUS
<1> HIDE DEF n, s
<1>5. ASSUME NEW b \in BlocksOf(c)
      PROVE  /\ OpsIn(qs[b]) = 0
             /\ \A t \in ThreadsOf(c) : Passed(Program(c, r, t, n), ps[<<b, t>>], "post") = 0 .. n - 1
  <2> DEFINE k == Places(c, ps, b)
  <2>1. \A t \in ThreadsOf(c) : k[t] = ps[<<b, t>>]
    BY PlacesAre
  <2>2. Block(c, r, n, k, qs[b])
    BY <1>3
  <2> HIDE DEF k
  <2>3. \A t \in ThreadsOf(c) : k[t] > Len(Program(c, r, t, n))
    BY <1>4, <2>1
  <2>4. /\ OpsIn(qs[b]) = 0
        /\ \A t \in ThreadsOf(c) : Passed(Program(c, r, t, n), k[t], "post") = 0 .. n - 1
    BY <1>1, <2>2, <2>3, BlockEnds
  <2> QED
    BY <2>1, <2>4
<1>6. InKernel(c, r, s, ps2, qs)
  BY <1>2, <1>5 DEF InKernel
<1>7. ASSUME Measuring(c, r) PROVE Counted(c, r, pc, s, ps2, qs, co, ti)
  <2>1. CASE pc = "measuring"
    <3>1. co + Cardinality(Outstanding(c, qs)) = Cardinality(PostedOf(c, r, c.iters, ps))
      BY <1>2, <1>7, <2>1 DEF RankInv, Counted
    <3>2. Cardinality(Outstanding(c, qs)) = 0
      BY <1>5, NoneOutstanding
    <3>3. ASSUME NEW x \in BlocksOf(c) \X ThreadsOf(c)
          PROVE  Passed(Program(c, r, x[2], n), ps[x], "post") = 0 .. n - 1
      <4>1. PICK b \in BlocksOf(c), t \in ThreadsOf(c) : x = <<b, t>>
        OBVIOUS
      <4> QED
        BY <4>1, <1>5
    <3>4. Cardinality(PostedOf(c, r, n, ps)) = n * c.num_ctas * c.num_threads
      BY <1>1, <3>3, AllPosted
    <3>5. n = c.iters /\ co \in Nat
      BY <1>1, <2>1 DEF RankInv, RankTypes
    <3>6. co = Messages(c)
      BY <3>1, <3>2, <3>4, <3>5 DEF Messages
    <3> DEFINE k == Kernel(c.iters)
    <3>7. s = <<Stop>>
      BY <1>2, <1>7, <2>1
    <3>8. s # <<>> /\ s # <<k, Stop>>
      <4> HIDE DEF k
      <4> QED
        BY <3>7
    <3> QED
      BY <2>1, <3>6, <3>7, <3>8 DEF Counted
  <2>2. CASE pc = "warming"
    BY <2>2 DEF Counted
  <2> QED
    BY <1>2, <2>1, <2>2
<1>8. RankTypes(c, ps2, qs, co, ti) /\ Credited(c, qs)
  BY DEF RankInv, RankTypes
<1> QED
  BY <1>2, <1>6, <1>7, <1>8 DEF RankInv, s

\* The host goes on, with an empty stream.
LEMMA RankGoes ==
    ASSUME NEW c \in Configs, NEW r \in Ranks, NEW pc, NEW ps, NEW qs, NEW co, NEW ti,
           RankInv(c, r, pc, <<>>, ps, qs, co, ti), NEW pc2, NEW st2 \in Streams(c, r, pc2),
           pc2 \in {"reduce", "closing"} => pc \in {"measuring", "reduce", "closing"},
           pc2 = "measuring" /\ Measuring(c, r) => st2 = <<Start, Kernel(c.iters), Stop>>
    PROVE  RankInv(c, r, pc2, st2, ps, qs, co, ti)
<1>1. /\ \A x \in BlocksOf(c) \X ThreadsOf(c) : ps[x] = 1
      /\ \A b \in BlocksOf(c) : OpsIn(qs[b]) = 0
  BY DEF RankInv, InKernel, Runs
<1>2. InKernel(c, r, st2, ps, qs)
  <2>1. CASE Runs(st2)
    <3> DEFINE n == Head(st2).iters
    <3>1. n \in Nat \ {0}
      BY <2>1, StreamFacts
    <3> HIDE DEF n
    <3>2. ASSUME NEW b \in BlocksOf(c) PROVE Block(c, r, n, Places(c, ps, b), qs[b])
      <4>1. ASSUME NEW t \in ThreadsOf(c) PROVE Places(c, ps, b)[t] = 1
        <5>1. Places(c, ps, b)[t] = ps[<<b, t>>] /\ <<b, t>> \in BlocksOf(c) \X ThreadsOf(c)
          BY PlacesAre
        <5> QED
          BY <1>1, <5>1
      <4> QED
        BY <1>1, <3>1, <4>1, BlockStarts
    <3> QED
      BY <2>1, <3>2 DEF InKernel, n
  <2>2. CASE ~Runs(st2)
    BY <1>1, <2>2 DEF InKernel
  <2> QED
    BY <2>1, <2>2
<1>3. ASSUME Measuring(c, r) PROVE Counted(c, r, pc2, st2, ps, qs, co, ti)
  <2>1. CASE pc2 = "measuring"
    <3> DEFINE k == Kernel(c.iters)
    <3>1. st2 = <<Start, k, Stop>>
      BY <1>3, <2>1
    <3> HIDE DEF k
    <3>2. st2 # <<k, Stop>> /\ st2 # <<Stop>> /\ st2 # <<>>
      BY <3>1
    <3> QED
      BY <2>1, <3>2 DEF Counted, k
  <2>2. CASE pc2 # "measuring"
    <3>1. pc2 \in {"reduce", "closing"} => ti = Messages(c)
      BY <1>3 DEF RankInv, Counted
    <3> QED
      BY <2>2, <3>1 DEF Counted
  <2> QED
    BY <2>1, <2>2
<1>4. RankTypes(c, ps, qs, co, ti) /\ Credited(c, qs)
  BY DEF RankInv
<1> QED
  BY <1>2, <1>3, <1>4 DEF RankInv

-----------------------------------------------------------------------------
(* The two ranks.                                                          *)

Pcs == {"warmup", "warming", "ready", "measure", "measuring", "reduce", "closing", "next",
        "finished", "done"}
Shapes ==
    /\ host \in [Ranks -> [pc : Pcs, size : Nat]]
    /\ DOMAIN stream = Ranks /\ DOMAIN pos = Ranks /\ DOMAIN queue = Ranks
    /\ DOMAIN completed = Ranks /\ DOMAIN timed = Ranks
RankHolds(r) ==
    RankInv(config, r, host[r].pc, stream[r], pos[r], queue[r], completed[r], timed[r])

(***************************************************************************)
(* What is true of either rank at any time: where the threads are accounts *)
(* for what is in the queues, and what was posted for what has completed.  *)
(***************************************************************************)
GinInv == config \in Configs /\ Shapes /\ \A r \in Ranks : RankHolds(r)

LEMMA Grid ==
    /\ Ctas = BlocksOf(config) /\ Threads = ThreadsOf(config)
    /\ \A r : (participates(r) <=> Part(config, r)) /\ (measures(r) <=> Measuring(config, r))
    /\ \A r : Running(r) <=> Runs(stream[r])
    /\ \A q : Wqes(q) = wqesPerOp(config) * OpsIn(q)
  BY DEF Ctas, BlocksOf, Threads, ThreadsOf, participates, Part, measures, Measuring, Running, Runs,
         Wqes, OpsIn

LEMMA OneRank ==
    ASSUME GinInv, NEW r \in Ranks, config' = config, Shapes', RankHolds(r)',
           \A s \in Ranks : s # r =>
              /\ host'[s] = host[s] /\ stream'[s] = stream[s] /\ pos'[s] = pos[s]
              /\ queue'[s] = queue[s] /\ completed'[s] = completed[s] /\ timed'[s] = timed[s]
    PROVE  GinInv'
<1>1. ASSUME NEW s \in Ranks PROVE RankHolds(s)'
  <2>1. CASE s = r
    BY <2>1
  <2>2. CASE s # r
    <3>1. RankHolds(s)
      BY DEF GinInv
    <3> QED
      BY <2>2, <3>1 DEF RankHolds
  <2> QED
    BY <2>1, <2>2
<1> QED
  BY <1>1 DEF GinInv

LEMMA SameRanks ==
    ASSUME GinInv, UNCHANGED <<config, host, stream, pos, queue, completed, timed>>
    PROVE  GinInv'
  BY DEF GinInv, Shapes, RankHolds

LEMMA StartHolds ==
    ASSUME Init PROVE GinInv
<1>1. config \in Configs
  BY DEF Init
<1>2. config.minbytes \in Nat
  BY <1>1, ConfigsAssumption DEF Valid
<1>3. Shapes
  BY <1>2 DEF Init, Shapes, Pcs
<1>4. ASSUME NEW r \in Ranks PROVE RankHolds(r)
  <2>1. /\ host[r].pc = "warmup" /\ stream[r] = <<>> /\ completed[r] = 0 /\ timed[r] = 0
        /\ pos[r] = [x \in BlocksOf(config) \X ThreadsOf(config) |-> 1]
        /\ queue[r] = [b \in BlocksOf(config) |-> [held |-> 0, posted |-> 0, read |-> 0]]
    BY DEF Init, AtStart, Ctas, Threads, BlocksOf, ThreadsOf
  <2>2. /\ \A x \in BlocksOf(config) \X ThreadsOf(config) : pos[r][x] = 1
        /\ pos[r] \in [BlocksOf(config) \X ThreadsOf(config) -> Nat]
    BY <2>1
  <2>3. /\ \A b \in BlocksOf(config) : OpsIn(queue[r][b]) = 0
        /\ queue[r] \in [BlocksOf(config) -> Queues]
    BY <2>1 DEF OpsIn, Queues
  <2>4. RankTypes(config, pos[r], queue[r], 0, 0)
    BY <2>2, <2>3 DEF RankTypes
  <2>5. <<>> \in Streams(config, r, "warmup")
    BY DEF Streams
  <2>6. InKernel(config, r, <<>>, pos[r], queue[r])
    BY <2>2, <2>3 DEF InKernel, Runs
  <2>7. Credited(config, queue[r])
    <3>1. config.queue_depth \in Nat /\ wqesPerOp(config) * 0 = 0
      BY <1>1, ConfigFacts DEF wqesPerOp
    <3> QED
      BY <2>3, <3>1 DEF Credited
  <2>8. Counted(config, r, "warmup", <<>>, pos[r], queue[r], 0, 0)
    BY DEF Counted
  <2> QED
    BY <2>1, <2>4, <2>5, <2>6, <2>7, <2>8 DEF RankHolds, RankInv
<1> QED
  BY <1>1, <1>3, <1>4 DEF GinInv

\* A thread goes on.
LEMMA AdvanceHolds ==
    ASSUME GinInv, NEW r \in Ranks, NEW b \in Ctas, NEW t \in Threads, NEW do \in Others,
           Running(r), At(r, b, t, do), Advance(r, b, t),
           UNCHANGED <<config, host, stream, queue, completed, timed>>
    PROVE  GinInv'
<1> DEFINE n == Head(stream[r]).iters
           G == BlocksOf(config) \X ThreadsOf(config)
           y == <<b, t>>
           ps == pos[r]
           ps2 == [ps EXCEPT ![y] = @ + 1]
<1>1. Shapes /\ config \in Configs /\ RankHolds(r)
  BY DEF GinInv
<1>2. y \in G /\ y[2] = t /\ Runs(stream[r])
  BY Grid
<1>3. ps \in [G -> Nat]
  BY <1>1 DEF RankHolds, RankInv, RankTypes
<1>4. pos' = [pos EXCEPT ![r] = ps2]
  BY DEF Advance
<1>5. pos'[r] = ps2 /\ DOMAIN pos' = Ranks /\ \A s \in Ranks : s # r => pos'[s] = pos[s]
  BY <1>1, <1>4 DEF Shapes
<1>6. ps[y] <= Len(Program(config, r, t, n)) /\ Program(config, r, t, n)[ps[y]].do \in Others
  BY DEF At
<1> HIDE DEF G, y, ps, n
<1>7. /\ ps2 \in [G -> Nat] /\ ps2[y] = ps[y] + 1 /\ \A x \in G : x # y => ps2[x] = ps[x]
  BY <1>2, <1>3
<1> HIDE DEF ps2
<1>8. ASSUME NEW x \in G PROVE GoesOn(config, r, n, x[2], ps[x], ps2[x])
  <2>1. CASE x = y
    BY <2>1, <1>2, <1>6, <1>7 DEF GoesOn
  <2>2. CASE x # y
    BY <2>2, <1>7 DEF GoesOn
  <2> QED
    BY <2>1, <2>2
<1>9. RankInv(config, r, host[r].pc, stream[r], ps2, queue[r], completed[r], timed[r])
  <2>1. RankInv(config, r, host[r].pc, stream[r], ps, queue[r], completed[r], timed[r])
    BY <1>1 DEF RankHolds, ps
  <2>2. ps2 \in [BlocksOf(config) \X ThreadsOf(config) -> Nat]
    BY <1>7 DEF G
  <2>3. \A x \in BlocksOf(config) \X ThreadsOf(config) :
           GoesOn(config, r, Head(stream[r]).iters, x[2], ps[x], ps2[x])
    BY <1>8 DEF G, n
  <2> QED
    BY <1>1, <1>2, <2>1, <2>2, <2>3, RankPasses
<1>10. RankHolds(r)'
  BY <1>5, <1>9 DEF RankHolds
<1>11. Shapes'
  BY <1>1, <1>5 DEF Shapes
<1> QED
  BY <1>5, <1>10, <1>11, OneRank

LEMMA PostHolds ==
    ASSUME GinInv, NEW r \in Ranks, NEW b \in Ctas, NEW t \in Threads, Post(r, b, t)
    PROVE  GinInv'
<1> DEFINE n == Head(stream[r]).iters
           G == BlocksOf(config) \X ThreadsOf(config)
           y == <<b, t>>
           ps == pos[r]
           ps2 == [ps EXCEPT ![y] = @ + 1]
           qs == queue[r]
           q2 == Enqueue(qs[b], t)
           qs2 == [qs EXCEPT ![b] = q2]
<1>1. Shapes /\ config \in Configs /\ RankHolds(r)
  BY DEF GinInv
<1>2. y \in G /\ b \in BlocksOf(config) /\ t \in ThreadsOf(config) /\ Runs(stream[r])
  BY Grid DEF Post
<1>3. ps \in [G -> Nat] /\ qs \in [BlocksOf(config) -> Queues]
  BY <1>1 DEF RankHolds, RankInv, RankTypes
<1>4. pos' = [pos EXCEPT ![r] = ps2] /\ queue' = [queue EXCEPT ![r] = qs2]
  BY DEF Advance, Post
<1>5. /\ pos'[r] = ps2 /\ DOMAIN pos' = Ranks /\ \A s \in Ranks : s # r => pos'[s] = pos[s]
      /\ queue'[r] = qs2 /\ DOMAIN queue' = Ranks /\ \A s \in Ranks : s # r => queue'[s] = queue[s]
  BY <1>1, <1>4 DEF Shapes
<1>6. ps[y] <= Len(Program(config, r, t, n)) /\ Program(config, r, t, n)[ps[y]].do = "post"
  BY DEF At, Post
<1>7. UNCHANGED <<config, host, stream, completed, timed>>
  BY DEF Post
<1>8. q2 \in Queues /\ OpsIn(q2) = OpsIn(qs[b]) + 1
  <2> DEFINE q == qs[b]
  <2>1. q \in Queues
    BY <1>2, <1>3
  <2> HIDE DEF q
  <2>2. Enqueue(q, t) \in Queues /\ OpsIn(Enqueue(q, t)) = OpsIn(q) + 1
    <3>1. CASE config.ag /\ t # lastActive
      BY <2>1, <3>1 DEF Enqueue, Queues, OpsIn
    <3>2. CASE ~(config.ag /\ t # lastActive)
      <4> DEFINE e == Enqueue(q, t)
      <4>1. e = [q EXCEPT !.held = 0, !.posted = @ + q.held + 1]
        BY <3>2 DEF Enqueue
      <4> HIDE DEF e
      <4>2. q = [held |-> q.held, posted |-> q.posted, read |-> q.read] /\ q.held \in Nat /\ q.posted \in Nat /\ q.read \in Nat
        BY <2>1 DEF Queues
      <4>3. e = [held |-> 0, posted |-> q.posted + q.held + 1, read |-> q.read]
        BY <4>1, <4>2
      <4> QED
        BY <4>2, <4>3 DEF e, Queues, OpsIn
    <3> QED
      BY <3>1, <3>2
  <2> QED
    BY <2>2 DEF q
<1>9. ~config.skip => wqesPerOp(config) * OpsIn(q2) <= config.queue_depth
  <2>1. ~config.skip => wqesPerOp(config) * OpsIn(qs[b]) + wqesPerOp(config) <= config.queue_depth
    BY DEF Post, Credit, Wqes, OpsIn
  <2>2. OpsIn(qs[b]) \in Nat
    BY <1>2, <1>3, QueuesAre
  <2> DEFINE z == OpsIn(qs[b])
  <2> HIDE DEF z, q2
  <2>3. CASE wqesPerOp(config) = 1
    BY <2>1, <2>2, <2>3, <1>8 DEF z
  <2>4. CASE wqesPerOp(config) = 2
    BY <2>1, <2>2, <2>4, <1>8 DEF z
  <2> QED
    BY <2>3, <2>4 DEF wqesPerOp
<1> HIDE DEF G, y, ps, n, qs, q2
<1>10. /\ ps2 \in [G -> Nat] /\ ps2[y] = ps[y] + 1 /\ \A x \in G : x # y => ps2[x] = ps[x]
       /\ qs2 \in [BlocksOf(config) -> Queues] /\ qs2[b] = q2
       /\ \A a \in BlocksOf(config) : a # b => qs2[a] = qs[a]
  BY <1>2, <1>3, <1>8
<1> HIDE DEF ps2, qs2
<1>11. RankInv(config, r, host[r].pc, stream[r], ps2, qs2, completed[r], timed[r])
  <2>1. RankInv(config, r, host[r].pc, stream[r], ps, qs, completed[r], timed[r])
    BY <1>1 DEF RankHolds, ps, qs
  <2>2. /\ ps2 \in [BlocksOf(config) \X ThreadsOf(config) -> Nat]
        /\ \A x \in BlocksOf(config) \X ThreadsOf(config) : x # <<b, t>> => ps2[x] = ps[x]
        /\ ps2[<<b, t>>] = ps[<<b, t>>] + 1
    BY <1>10 DEF G, y
  <2>3. /\ ps[<<b, t>>] <= Len(Program(config, r, t, Head(stream[r]).iters))
        /\ Program(config, r, t, Head(stream[r]).iters)[ps[<<b, t>>]].do = "post"
    BY <1>6 DEF y, n
  <2>4. OpsIn(qs2[b]) = OpsIn(qs[b]) + 1 /\ (~config.skip => wqesPerOp(config) * OpsIn(qs2[b]) <= config.queue_depth)
    BY <1>8, <1>9, <1>10
  <2> DEFINE h == host[r].pc
             st == stream[r]
             co == completed[r]
             ti == timed[r]
  <2>5. RankInv(config, r, h, st, ps, qs, co, ti) /\ Runs(st)
    BY <1>2, <2>1
  <2>6. /\ ps[<<b, t>>] <= Len(Program(config, r, t, Head(st).iters))
        /\ Program(config, r, t, Head(st).iters)[ps[<<b, t>>]].do = "post"
    BY <2>3
  <2> HIDE DEF h, st, co, ti
  <2>8. config \in Configs /\ b \in BlocksOf(config) /\ t \in ThreadsOf(config)
    BY <1>1, <1>2
  <2>9. /\ qs2 \in [BlocksOf(config) -> Queues] 
        /\ \A a \in BlocksOf(config) : a # b => qs2[a] = qs[a]
    BY <1>10
  <2>7. Posts(config, r, st, ps, qs, b, t, ps2, qs2)
    BY <2>2, <2>4, <2>6, <2>8, <2>9 DEF Posts
  <2>10. RankInv(config, r, h, st, ps2, qs2, co, ti)
    BY <2>5, <2>7, <2>8, RankPosts
  <2> QED
    BY <2>10 DEF h, st, co, ti
<1>12. RankHolds(r)'
  BY <1>5, <1>7, <1>11 DEF RankHolds
<1>13. Shapes'
  BY <1>1, <1>5, <1>7 DEF Shapes
<1> QED
  BY <1>5, <1>7, <1>12, <1>13, OneRank

\* What AdvanceCta does to the places of the rank.
LEMMA CtaAdvances ==
    ASSUME GinInv, NEW r \in Ranks, NEW b \in Ctas, AdvanceCta(r, b)
    PROVE  /\ pos'[r] \in [BlocksOf(config) \X ThreadsOf(config) -> Nat]
           /\ \A x \in BlocksOf(config) \X ThreadsOf(config) :
                 pos'[r][x] = IF x[1] = b THEN pos[r][x] + 1 ELSE pos[r][x]
           /\ DOMAIN pos' = Ranks /\ \A s \in Ranks : s # r => pos'[s] = pos[s]
<1> DEFINE G == BlocksOf(config) \X ThreadsOf(config)
           ps == pos[r]
           ps2 == [x \in G |-> IF x[1] = b THEN ps[x] + 1 ELSE ps[x]]
<1>1. Shapes /\ RankHolds(r)
  BY DEF GinInv
<1>2. ps \in [G -> Nat]
  BY <1>1 DEF RankHolds, RankInv, RankTypes
<1>3. pos' = [pos EXCEPT ![r] = ps2]
  BY Grid DEF AdvanceCta
<1>4. pos'[r] = ps2 /\ DOMAIN pos' = Ranks /\ \A s \in Ranks : s # r => pos'[s] = pos[s]
  BY <1>1, <1>3 DEF Shapes
<1> HIDE DEF G, ps
<1>5. ps2 \in [G -> Nat] /\ \A x \in G : ps2[x] = IF x[1] = b THEN ps[x] + 1 ELSE ps[x]
  BY <1>2
<1> QED
  BY <1>4, <1>5 DEF G, ps

LEMMA SyncthreadsHolds ==
    ASSUME GinInv, NEW r \in Ranks, NEW b \in Ctas, Syncthreads(r, b)
    PROVE  GinInv'
<1> DEFINE G == BlocksOf(config) \X ThreadsOf(config)
           n == Head(stream[r]).iters
<1>1. Shapes /\ config \in Configs /\ RankHolds(r) /\ Runs(stream[r]) /\ AdvanceCta(r, b)
  BY Grid DEF GinInv, Syncthreads
<1>2. /\ pos'[r] \in [G -> Nat]
      /\ \A x \in G : pos'[r][x] = IF x[1] = b THEN pos[r][x] + 1 ELSE pos[r][x]
      /\ DOMAIN pos' = Ranks /\ \A s \in Ranks : s # r => pos'[s] = pos[s]
  BY <1>1, CtaAdvances
<1>3. UNCHANGED <<config, host, stream, queue, completed, timed>>
  BY DEF Syncthreads, gin
<1>4. \A t \in ThreadsOf(config) : /\ pos[r][<<b, t>>] <= Len(Program(config, r, t, n))
                                   /\ Program(config, r, t, n)[pos[r][<<b, t>>]].do \in Others
  <2>1. CASE CtaAt(r, b, "gather")
    BY <2>1, Grid DEF CtaAt, At, Others
  <2>2. CASE CtaAt(r, b, "meet")
    BY <2>2, Grid DEF CtaAt, At, Others
  <2> QED
    BY <2>1, <2>2 DEF Syncthreads
<1> HIDE DEF n
<1>5. ASSUME NEW x \in G PROVE GoesOn(config, r, n, x[2], pos[r][x], pos'[r][x])
  <2>1. PICK a \in BlocksOf(config), t \in ThreadsOf(config) : x = <<a, t>>
    OBVIOUS
  <2>2. CASE a = b
    <3>1. pos'[r][x] = pos[r][x] + 1 /\ x[2] = t /\ x = <<b, t>>
      BY <1>2, <2>1, <2>2
    <3> QED
      BY <1>4, <3>1 DEF GoesOn
  <2>3. CASE a # b
    BY <1>2, <2>1, <2>3 DEF GoesOn
  <2> QED
    BY <2>2, <2>3
<1>6. RankInv(config, r, host[r].pc, stream[r], pos'[r], queue[r], completed[r], timed[r])
  <2> DEFINE ps2 == pos'[r]
  <2>1. RankInv(config, r, host[r].pc, stream[r], pos[r], queue[r], completed[r], timed[r])
    BY <1>1 DEF RankHolds
  <2>2. ps2 \in [BlocksOf(config) \X ThreadsOf(config) -> Nat]
    BY <1>2 DEF G
  <2>3. \A x \in BlocksOf(config) \X ThreadsOf(config) :
           GoesOn(config, r, Head(stream[r]).iters, x[2], pos[r][x], ps2[x])
    BY <1>5 DEF G, n
  <2> HIDE DEF ps2
  <2>4. RankInv(config, r, host[r].pc, stream[r], ps2, queue[r], completed[r], timed[r])
    BY <1>1, <2>1, <2>2, <2>3, RankPasses
  <2> QED
    BY <2>4 DEF ps2
<1>7. RankHolds(r)'
  BY <1>3, <1>6 DEF RankHolds
<1>8. Shapes'
  BY <1>1, <1>2, <1>3 DEF Shapes
<1> QED
  BY <1>2, <1>3, <1>7, <1>8, OneRank

LEMMA FlushHolds ==
    ASSUME GinInv, NEW r \in Ranks, NEW b \in Ctas, Flush(r, b)
    PROVE  GinInv'
<1> DEFINE G == BlocksOf(config) \X ThreadsOf(config)
<1>1. /\ Shapes /\ config \in Configs /\ RankHolds(r) /\ Runs(stream[r]) /\ AdvanceCta(r, b)
      /\ b \in BlocksOf(config) /\ OpsIn(queue[r][b]) = 0
  BY Grid DEF GinInv, Flush, Idle, OpsIn
<1>2. /\ pos'[r] \in [G -> Nat]
      /\ \A x \in G : pos'[r][x] = IF x[1] = b THEN pos[r][x] + 1 ELSE pos[r][x]
      /\ DOMAIN pos' = Ranks /\ \A s \in Ranks : s # r => pos'[s] = pos[s]
  BY <1>1, CtaAdvances
<1>3. UNCHANGED <<config, host, stream, queue, completed, timed>>
  BY DEF Flush, gin
<1>4. \A t \in ThreadsOf(config) :
         /\ pos[r][<<b, t>>] <= Len(Program(config, r, t, Head(stream[r]).iters))
         /\ Program(config, r, t, Head(stream[r]).iters)[pos[r][<<b, t>>]].do = "flush"
  BY Grid DEF Flush, CtaAt, At
<1>5. RankInv(config, r, host[r].pc, stream[r], pos'[r], queue[r], completed[r], timed[r])
  <2> DEFINE ps2 == pos'[r]
  <2>1. RankInv(config, r, host[r].pc, stream[r], pos[r], queue[r], completed[r], timed[r])
    BY <1>1 DEF RankHolds
  <2>2. /\ ps2 \in [BlocksOf(config) \X ThreadsOf(config) -> Nat]
        /\ \A x \in BlocksOf(config) \X ThreadsOf(config) :
              ps2[x] = IF x[1] = b THEN pos[r][x] + 1 ELSE pos[r][x]
    BY <1>2 DEF G
  <2> DEFINE h == host[r].pc
             st == stream[r]
             ps == pos[r]
             qs == queue[r]
             co == completed[r]
             ti == timed[r]
  <2>3. RankInv(config, r, h, st, ps, qs, co, ti) /\ Runs(st) /\ OpsIn(qs[b]) = 0
    BY <1>1, <2>1
  <2>4. \A t \in ThreadsOf(config) : /\ ps[<<b, t>>] <= Len(Program(config, r, t, Head(st).iters))
                                     /\ Program(config, r, t, Head(st).iters)[ps[<<b, t>>]].do = "flush"
    BY <1>4
  <2>5. \A x \in BlocksOf(config) \X ThreadsOf(config) : ps2[x] = IF x[1] = b THEN ps[x] + 1 ELSE ps[x]
    BY <2>2
  <2> HIDE DEF ps2, h, st, ps, qs, co, ti
  <2>6. Flushes(config, r, st, ps, qs, b, ps2)
    BY <1>1, <2>2, <2>3, <2>4, <2>5 DEF Flushes
  <2>7. RankInv(config, r, h, st, ps2, qs, co, ti)
    BY <1>1, <2>3, <2>6, RankFlushes
  <2> QED
    BY <2>7 DEF ps2, h, st, qs, co, ti
<1>6. RankHolds(r)'
  BY <1>3, <1>5 DEF RankHolds
<1>7. Shapes'
  BY <1>1, <1>2, <1>3 DEF Shapes
<1> QED
  BY <1>2, <1>3, <1>6, <1>7, OneRank

LEMMA ReadHolds ==
    ASSUME GinInv, NEW r \in Ranks, NEW b \in Ctas, Read(r, b)
    PROVE  GinInv'
<1> DEFINE qs == queue[r]
           q == qs[b]
           q2 == [q EXCEPT !.posted = @ - 1, !.read = @ + 1]
           qs2 == [qs EXCEPT ![b] = q2]
<1>1. Shapes /\ config \in Configs /\ RankHolds(r) /\ b \in BlocksOf(config)
  BY Grid DEF GinInv
<1>2. qs \in [BlocksOf(config) -> Queues]
  BY <1>1 DEF RankHolds, RankInv, RankTypes
<1>3. queue'[r] = qs2 /\ DOMAIN queue' = Ranks /\ \A s \in Ranks : s # r => queue'[s] = queue[s]
  <2>1. queue' = [queue EXCEPT ![r] = qs2]
    <3>1. queue' = [queue EXCEPT ![r][b].posted = @ - 1, ![r][b].read = @ + 1]
      BY DEF Read
    <3>2. DOMAIN queue = Ranks /\ b \in DOMAIN qs /\ q \in Queues
      BY <1>1, <1>2 DEF Shapes
    <3> QED
      BY <3>1, <3>2 DEF Queues
  <2> HIDE DEF qs2
  <2> QED
    BY <1>1, <2>1 DEF Shapes
<1>4. UNCHANGED <<config, host, stream, pos, completed, timed>>
  BY DEF Read
<1>5. q2 \in Queues /\ OpsIn(q2) = OpsIn(q)
  <2>1. q \in Queues /\ q.posted > 0
    BY <1>1, <1>2 DEF Read
  <2> HIDE DEF q
  <2>2. /\ q = [held |-> q.held, posted |-> q.posted, read |-> q.read]
        /\ q.held \in Nat /\ q.posted \in Nat /\ q.read \in Nat
    BY <2>1 DEF Queues
  <2>3. q2 = [held |-> q.held, posted |-> q.posted - 1, read |-> q.read + 1]
    <3> DEFINE q1 == [q EXCEPT !.posted = q.posted - 1]
    <3>1. q1 = [held |-> q.held, posted |-> q.posted - 1, read |-> q.read]
      BY <2>2
    <3>2. q2 = [q1 EXCEPT !.read = q.read + 1]
      OBVIOUS
    <3> HIDE DEF q1, q2
    <3> QED
      BY <3>1, <3>2
  <2> HIDE DEF q2
  <2> QED
    BY <2>1, <2>2, <2>3 DEF Queues, OpsIn
<1> HIDE DEF q2, qs
<1>6. qs2 \in [BlocksOf(config) -> Queues] /\ \A a \in BlocksOf(config) : OpsIn(qs2[a]) = OpsIn(qs[a])
  BY <1>1, <1>2, <1>5
<1> HIDE DEF qs2
<1>7. RankInv(config, r, host[r].pc, stream[r], pos[r], qs2, completed[r], timed[r])
  <2>1. RankInv(config, r, host[r].pc, stream[r], pos[r], qs, completed[r], timed[r])
    BY <1>1 DEF RankHolds, qs
  <2> QED
    BY <1>1, <1>6, <2>1, RankReads
<1>8. RankHolds(r)'
  BY <1>3, <1>4, <1>7 DEF RankHolds
<1>9. Shapes'
  BY <1>1, <1>3, <1>4 DEF Shapes
<1> QED
  BY <1>3, <1>4, <1>8, <1>9, OneRank

LEMMA CompleteHolds ==
    ASSUME GinInv, NEW r \in Ranks, NEW b \in Ctas, Complete(r, b)
    PROVE  GinInv'
<1> DEFINE qs == queue[r]
           q == qs[b]
           q2 == [q EXCEPT !.read = @ - 1]
           qs2 == [qs EXCEPT ![b] = q2]
           co2 == completed[r] + 1
<1>1. Shapes /\ config \in Configs /\ RankHolds(r) /\ b \in BlocksOf(config)
  BY Grid DEF GinInv
<1>2. qs \in [BlocksOf(config) -> Queues]
  BY <1>1 DEF RankHolds, RankInv, RankTypes
<1>3. queue'[r] = qs2 /\ DOMAIN queue' = Ranks /\ \A s \in Ranks : s # r => queue'[s] = queue[s]
  <2>1. queue' = [queue EXCEPT ![r] = qs2]
    BY DEF Complete
  <2> HIDE DEF qs2
  <2> QED
    BY <1>1, <2>1 DEF Shapes
<1>4. UNCHANGED <<config, host, stream, pos, timed>>
  BY DEF Complete
<1>5. /\ completed'[r] = co2 /\ DOMAIN completed' = Ranks
      /\ \A s \in Ranks : s # r => completed'[s] = completed[s]
  BY <1>1 DEF Complete, Shapes
<1>6. q2 \in Queues /\ OpsIn(q) = OpsIn(q2) + 1
  <2>1. q \in Queues /\ q.read > 0
    BY <1>1, <1>2 DEF Complete
  <2> HIDE DEF q
  <2> QED
    BY <2>1 DEF Queues, OpsIn
<1>7. RankInv(config, r, host[r].pc, stream[r], pos[r], qs, completed[r], timed[r])
  BY <1>1 DEF RankHolds
<1> HIDE DEF q2, qs
<1>8. /\ qs2 \in [BlocksOf(config) -> Queues] /\ OpsIn(qs[b]) = OpsIn(qs2[b]) + 1
      /\ \A a \in BlocksOf(config) : a # b => OpsIn(qs2[a]) = OpsIn(qs[a])
  BY <1>1, <1>2, <1>6
<1> HIDE DEF qs2
<1>9. RankInv(config, r, host[r].pc, stream[r], pos[r], qs2, completed[r] + 1, timed[r])
  BY <1>1, <1>7, <1>8, RankCompletes
<1>10. RankHolds(r)'
  BY <1>3, <1>4, <1>5, <1>9 DEF RankHolds
<1>11. Shapes'
  BY <1>1, <1>3, <1>4, <1>5 DEF Shapes
<1> QED
  BY <1>3, <1>4, <1>5, <1>10, <1>11, OneRank

LEMMA RecordStartHolds ==
    ASSUME GinInv, NEW r \in Ranks, RecordStart(r)
    PROVE  GinInv'
<1>1. Shapes /\ config \in Configs /\ RankHolds(r) /\ stream[r] # <<>> /\ Head(stream[r]) = Start
  BY DEF GinInv, RecordStart
<1>2. UNCHANGED <<config, host, pos, queue>>
  BY DEF RecordStart
<1>3. /\ stream'[r] = Tail(stream[r]) /\ completed'[r] = 0 /\ timed'[r] = 0
      /\ DOMAIN stream' = Ranks /\ DOMAIN completed' = Ranks /\ DOMAIN timed' = Ranks
      /\ \A s \in Ranks : s # r =>
            stream'[s] = stream[s] /\ completed'[s] = completed[s] /\ timed'[s] = timed[s]
  BY <1>1 DEF RecordStart, Shapes
<1>4. RankInv(config, r, host[r].pc, Tail(stream[r]), pos[r], queue[r], 0, 0)
  BY <1>1, RankRecordsStart DEF RankHolds
<1>5. RankHolds(r)'
  BY <1>2, <1>3, <1>4 DEF RankHolds
<1>6. Shapes'
  BY <1>1, <1>2, <1>3 DEF Shapes
<1> QED
  BY <1>2, <1>3, <1>5, <1>6, OneRank

LEMMA RecordStopHolds ==
    ASSUME GinInv, NEW r \in Ranks, RecordStop(r)
    PROVE  GinInv'
<1>1. Shapes /\ config \in Configs /\ RankHolds(r) /\ stream[r] # <<>> /\ Head(stream[r]) = Stop
  BY DEF GinInv, RecordStop
<1>2. UNCHANGED <<config, host, pos, queue, completed>>
  BY DEF RecordStop, gin
<1>3. /\ stream'[r] = Tail(stream[r]) /\ timed'[r] = completed[r]
      /\ DOMAIN stream' = Ranks /\ DOMAIN timed' = Ranks
      /\ \A s \in Ranks : s # r => stream'[s] = stream[s] /\ timed'[s] = timed[s]
  BY <1>1 DEF RecordStop, Shapes
<1>4. RankInv(config, r, host[r].pc, Tail(stream[r]), pos[r], queue[r], completed[r], completed[r])
  BY <1>1, RankRecordsStop DEF RankHolds
<1>5. RankHolds(r)'
  BY <1>2, <1>3, <1>4 DEF RankHolds
<1>6. Shapes'
  BY <1>1, <1>2, <1>3 DEF Shapes
<1> QED
  BY <1>2, <1>3, <1>5, <1>6, OneRank

LEMMA KernelEndsHolds ==
    ASSUME GinInv, NEW r \in Ranks, KernelEnds(r)
    PROVE  GinInv'
<1> DEFINE ps2 == [x \in BlocksOf(config) \X ThreadsOf(config) |-> 1]
<1>1. Shapes /\ config \in Configs /\ RankHolds(r) /\ Runs(stream[r])
  BY Grid DEF GinInv, KernelEnds
<1>2. UNCHANGED <<config, host, queue, completed, timed>>
  BY DEF KernelEnds, gin
<1>3. /\ stream'[r] = Tail(stream[r]) /\ pos'[r] = ps2
      /\ DOMAIN stream' = Ranks /\ DOMAIN pos' = Ranks
      /\ \A s \in Ranks : s # r => stream'[s] = stream[s] /\ pos'[s] = pos[s]
  <2>1. stream' = [stream EXCEPT ![r] = Tail(@)] /\ pos' = [pos EXCEPT ![r] = ps2]
    BY Grid DEF KernelEnds, AtStart
  <2> HIDE DEF ps2
  <2> QED
    BY <1>1, <2>1 DEF Shapes
<1>4. /\ ps2 \in [BlocksOf(config) \X ThreadsOf(config) -> Nat]
      /\ \A x \in BlocksOf(config) \X ThreadsOf(config) : ps2[x] = 1
  OBVIOUS
<1>5. \A b \in BlocksOf(config), t \in ThreadsOf(config) :
         pos[r][<<b, t>>] > Len(Program(config, r, t, Head(stream[r]).iters))
  BY Grid DEF KernelEnds
<1> HIDE DEF ps2
<1>6. RankInv(config, r, host[r].pc, Tail(stream[r]), ps2, queue[r], completed[r], timed[r])
  <2> DEFINE h == host[r].pc
             st == stream[r]
             ps == pos[r]
             qs == queue[r]
             co == completed[r]
             ti == timed[r]
  <2>1. RankInv(config, r, h, st, ps, qs, co, ti) /\ Runs(st)
    BY <1>1 DEF RankHolds
  <2>2. \A b \in BlocksOf(config), t \in ThreadsOf(config) :
           ps[<<b, t>>] > Len(Program(config, r, t, Head(st).iters))
    BY <1>5
  <2> HIDE DEF h, st, ps, qs, co, ti
  <2>3. RankInv(config, r, h, Tail(st), ps2, qs, co, ti)
    BY <1>1, <1>4, <2>1, <2>2, RankEnds
  <2> QED
    BY <2>3 DEF h, st, qs, co, ti
<1>7. RankHolds(r)'
  BY <1>2, <1>3, <1>6 DEF RankHolds
<1>8. Shapes'
  BY <1>1, <1>2, <1>3 DEF Shapes
<1> QED
  BY <1>2, <1>3, <1>7, <1>8, OneRank

\* A host goes on from an empty stream.
LEMMA HostHolds ==
    ASSUME GinInv, NEW r \in Ranks, NEW pc2 \in Pcs, NEW st2 \in Streams(config, r, pc2),
           stream[r] = <<>>, HostFrame, stream'[r] = st2, DOMAIN stream' = Ranks,
           \A s \in Ranks : s # r => stream'[s] = stream[s],
           host' \in [Ranks -> [pc : Pcs, size : Nat]], host'[r].pc = pc2,
           \A s \in Ranks : s # r => host'[s] = host[s],
           pc2 \in {"reduce", "closing"} => host[r].pc \in {"measuring", "reduce", "closing"},
           pc2 = "measuring" /\ Measuring(config, r) => st2 = <<Start, Kernel(config.iters), Stop>>
    PROVE  GinInv'
<1>1. Shapes /\ config \in Configs /\ RankHolds(r)
  BY DEF GinInv
<1>2. UNCHANGED <<config, pos, queue, completed, timed>>
  BY DEF HostFrame, gin
<1>3. stream'[r] = st2 /\ DOMAIN stream' = Ranks /\ \A s \in Ranks : s # r => stream'[s] = stream[s]
  OBVIOUS
<1> DEFINE h == host[r].pc
<1>4. RankInv(config, r, h, <<>>, pos[r], queue[r], completed[r], timed[r])
  BY <1>1 DEF RankHolds
<1> HIDE DEF h
<1>5. RankInv(config, r, pc2, st2, pos[r], queue[r], completed[r], timed[r])
  BY <1>1, <1>4, RankGoes DEF h
<1>6. RankHolds(r)'
  BY <1>2, <1>3, <1>5 DEF RankHolds
<1>7. Shapes'
  BY <1>1, <1>2, <1>3 DEF Shapes
<1> QED
  BY <1>2, <1>3, <1>6, <1>7, OneRank

\* Goto on the host of a rank.
LEMMA GotoFacts ==
    ASSUME Shapes, NEW r \in Ranks, NEW pc2 \in Pcs, Goto(r, pc2)
    PROVE  /\ host' \in [Ranks -> [pc : Pcs, size : Nat]] /\ host'[r].pc = pc2
           /\ \A s \in Ranks : s # r => host'[s] = host[s]
  BY DEF Shapes, Goto

\* A host that has nothing queued, or waits for the stream.
LEMMA StreamEmpty ==
    ASSUME GinInv, NEW r \in Ranks
    PROVE  /\ stream[r] \in Streams(config, r, host[r].pc)
           /\ host[r].pc \notin {"warming", "measuring"} => stream[r] = <<>>
           /\ host[r].pc = "measuring" /\ ~participates(r) => stream[r] = <<>>
<1>1. stream[r] \in Streams(config, r, host[r].pc)
  BY DEF GinInv, RankHolds, RankInv
<1>2. host[r].pc \notin {"warming", "measuring"} => stream[r] = <<>>
  BY <1>1 DEF Streams
<1>3. ~participates(r) => ~Part(config, r) /\ ~Measuring(config, r)
  BY Grid DEF Part, Measuring
<1>4. host[r].pc = "measuring" /\ ~participates(r) => stream[r] = <<>>
  BY <1>1, <1>3 DEF Streams
<1> QED
  BY <1>1, <1>2, <1>4

LEMMA NothingQueued ==
    ASSUME NEW c \in Configs, NEW r \in Ranks, NEW pc2, pc2 # "measuring"
    PROVE  <<>> \in Streams(c, r, pc2)
  BY DEF Streams

\* A host that only goes on.
LEMMA QuietHostHolds ==
    ASSUME GinInv, NEW r \in Ranks, NEW pc2 \in Pcs \ {"measuring"}, Goto(r, pc2), stream[r] = <<>>,
           HostFrame, UNCHANGED stream,
           pc2 \in {"reduce", "closing"} => host[r].pc \in {"measuring", "reduce", "closing"}
    PROVE  GinInv'
<1>1. Shapes /\ config \in Configs /\ pc2 \in Pcs /\ pc2 # "measuring"
  BY DEF GinInv
<1>2. <<>> \in Streams(config, r, pc2) /\ DOMAIN stream' = Ranks /\ \A s \in Ranks : stream'[s] = stream[s]
  BY <1>1, NothingQueued DEF Shapes
<1>3. /\ host' \in [Ranks -> [pc : Pcs, size : Nat]] /\ host'[r].pc = pc2
      /\ \A s \in Ranks : s # r => host'[s] = host[s]
  BY <1>1, GotoFacts
<1> DEFINE e == <<>>
<1> HIDE DEF e
<1>4. e \in Streams(config, r, pc2) /\ stream'[r] = e /\ stream[r] = <<>>
  BY <1>2 DEF e
<1> QED
  BY <1>1, <1>2, <1>3, <1>4, HostHolds

LEMMA WarmUpHolds ==
    ASSUME GinInv, NEW r \in Ranks, WarmUp(r)
    PROVE  GinInv'
<1>1. Shapes /\ config \in Configs /\ host[r].pc = "warmup" /\ HostFrame
  BY DEF GinInv, WarmUp
<1>2. stream[r] = <<>>
  BY <1>1, StreamEmpty
<1>3. CASE config.warmup_iters > 0 /\ participates(r)
  <2> DEFINE st2 == <<Kernel(config.warmup_iters)>>
             w == "warming"
  <2>1. st2 \in Streams(config, r, w) /\ w \in Pcs /\ w \notin {"reduce", "closing", "measuring"}
    BY <1>3 DEF Streams, Pcs
  <2>2. stream' = [stream EXCEPT ![r] = st2] /\ Goto(r, w)
    BY <1>2, <1>3 DEF WarmUp
  <2>4. stream'[r] = st2 /\ DOMAIN stream' = Ranks /\ \A s \in Ranks : s # r => stream'[s] = stream[s]
    <3> HIDE DEF st2
    <3> QED
      BY <1>1, <2>2 DEF Shapes
  <2> HIDE DEF st2, w
  <2>3. /\ host' \in [Ranks -> [pc : Pcs, size : Nat]] /\ host'[r].pc = w
        /\ \A s \in Ranks : s # r => host'[s] = host[s]
    BY <1>1, <2>1, <2>2, GotoFacts
  <2> QED
    BY <1>1, <1>2, <2>1, <2>3, <2>4, HostHolds
<1>4. CASE ~(config.warmup_iters > 0 /\ participates(r))
  <2>1. Goto(r, "ready") /\ UNCHANGED stream
    BY <1>4 DEF WarmUp
  <2>2. "ready" \in Pcs \ {"measuring"}
    BY DEF Pcs
  <2> QED
    BY <1>1, <1>2, <2>1, <2>2, QuietHostHolds
<1> QED
  BY <1>3, <1>4

\* Sequences of what is queued, joined.
LEMMA OneAfter ==
    ASSUME NEW a, NEW k, NEW z
    PROVE  <<a>> \o <<k>> = <<a, k>> /\ <<a, k>> \o <<z>> = <<a, k, z>>
<1> DEFINE S == {a, k, z}
<1>1. <<a>> \in Seq(S) /\ <<a, k>> \in Seq(S) /\ <<k>> \in Seq(S) /\ <<z>> \in Seq(S)
  OBVIOUS
<1> DEFINE u == <<a>> \o <<k>>
           v == <<a, k>>
           x == v \o <<z>>
           y == <<a, k, z>>
<1>2. u \in Seq(S) /\ Len(u) = 2 /\ u[1] = a /\ u[2] = k
  BY <1>1, ConcatProperties
<1>3. v \in Seq(S) /\ Len(v) = 2 /\ v[1] = a /\ v[2] = k
  OBVIOUS
<1>4. x \in Seq(S) /\ Len(x) = 3 /\ x[1] = a /\ x[2] = k /\ x[3] = z
  BY <1>1, ConcatProperties
<1>5. y \in Seq(S) /\ Len(y) = 3 /\ y[1] = a /\ y[2] = k /\ y[3] = z
  OBVIOUS
<1> HIDE DEF u, v, x, y, S
<1>6. u = v
  <2>1. \A i \in 1 .. Len(u) : i = 1 \/ i = 2
    BY <1>2
  <2> QED
    BY <1>2, <1>3, <2>1, SeqEqual
<1>7. x = y
  <2>1. \A i \in 1 .. Len(x) : i = 1 \/ i = 2 \/ i = 3
    BY <1>4
  <2> QED
    BY <1>4, <1>5, <2>1, SeqEqual
<1> QED
  BY <1>6, <1>7 DEF u, v, x, y

LEMMA MeasureHolds ==
    ASSUME GinInv, NEW r \in Ranks, Measure(r)
    PROVE  GinInv'
<1> DEFINE M == measures(r)
           k == Kernel(config.iters)
           st2 == (IF M THEN <<Start>> ELSE <<>>)
                     \o (IF participates(r) THEN <<k>> ELSE <<>>)
                     \o (IF M THEN <<Stop>> ELSE <<>>)
           w == "measuring"
<1>1. Shapes /\ config \in Configs /\ host[r].pc = "measure" /\ HostFrame
  BY DEF GinInv, Measure
<1>2. stream[r] = <<>>
  BY <1>1, StreamEmpty
<1>3. (M => participates(r)) /\ (M <=> Measuring(config, r)) /\ (participates(r) <=> Part(config, r))
  BY Grid DEF measures, participates
<1>4. st2 = IF M THEN <<Start, k, Stop>> ELSE IF participates(r) THEN <<k>> ELSE <<>>
  <2> DEFINE a == Start
             z == Stop
  <2> HIDE DEF M, k, a, z
  <2>1. CASE M
    <3>1. participates(r)
      BY <1>3, <2>1
    <3>2. <<a>> \o <<k>> = <<a, k>> /\ <<a, k>> \o <<z>> = <<a, k, z>>
      BY OneAfter
    <3> QED
      BY <2>1, <3>1, <3>2 DEF a, z
  <2>2. CASE ~M /\ participates(r)
    <3>1. (<<>> \o <<k>>) \o <<>> = <<k>>
      OBVIOUS
    <3> QED
      BY <2>2, <3>1
  <2>3. CASE ~M /\ ~participates(r)
    <3>1. (<<>> \o <<>>) \o <<>> = <<>>
      OBVIOUS
    <3> QED
      BY <2>3, <3>1
  <2> QED
    BY <2>1, <2>2, <2>3
<1>5. stream' = [stream EXCEPT ![r] = st2]
  <2> DEFINE X == IF M THEN <<Start>> ELSE <<>>
             Y == IF participates(r) THEN <<k>> ELSE <<>>
             Z == IF M THEN <<Stop>> ELSE <<>>
  <2>1. stream' = [stream EXCEPT ![r] = ((<<>> \o X) \o Y) \o Z]
    BY <1>2 DEF Measure
  <2>2. <<>> \o X = X
    <3> DEFINE a == Start
    <3>1. X = <<>> \/ X = <<a>>
      OBVIOUS
    <3> HIDE DEF X, a
    <3>2. <<>> \o <<>> = <<>> /\ <<>> \o <<a>> = <<a>>
      OBVIOUS
    <3> QED
      BY <3>1, <3>2
  <2> HIDE DEF X, Y, Z
  <2> QED
    BY <2>1, <2>2 DEF X, Y, Z
<1> HIDE DEF st2
<1>9. stream'[r] = st2 /\ DOMAIN stream' = Ranks /\ \A s \in Ranks : s # r => stream'[s] = stream[s]
  BY <1>1, <1>5 DEF Shapes
<1>6. /\ st2 \in Streams(config, r, w) /\ w \in Pcs /\ w \notin {"reduce", "closing"}
      /\ Measuring(config, r) => st2 = <<Start, Kernel(config.iters), Stop>>
  BY <1>3, <1>4 DEF Streams, Pcs
<1>7. Goto(r, w)
  BY DEF Measure
<1> HIDE DEF w, k, M
<1>8. /\ host' \in [Ranks -> [pc : Pcs, size : Nat]] /\ host'[r].pc = w
      /\ \A s \in Ranks : s # r => host'[s] = host[s]
  BY <1>1, <1>6, <1>7, GotoFacts
<1> QED
  BY <1>1, <1>2, <1>6, <1>8, <1>9, HostHolds

\* A host that has no more to queue for this size.
LEMMA HostStepHolds ==
    ASSUME GinInv, NEW r \in Ranks, Host(r)
    PROVE  GinInv'
<1>0. Shapes /\ config \in Configs
  BY DEF GinInv
<1>1. CASE WarmUp(r)
  BY <1>1, WarmUpHolds
<1>2. CASE WarmedUp(r)
  <2>1. Goto(r, "ready") /\ HostFrame /\ UNCHANGED stream /\ stream[r] = <<>>
    BY <1>2 DEF WarmedUp
  <2>2. "ready" \in Pcs \ {"measuring"}
    BY DEF Pcs
  <2> QED
    BY <2>1, <2>2, QuietHostHolds
<1>3. CASE Measure(r)
  BY <1>3, MeasureHolds
<1>4. CASE Measured(r)
  <2> DEFINE w == IF config.bidir THEN "reduce" ELSE "closing"
  <2>1. Goto(r, w) /\ HostFrame /\ UNCHANGED stream /\ host[r].pc = "measuring"
    BY <1>4 DEF Measured
  <2>2. stream[r] = <<>>
    BY <1>4, StreamEmpty DEF Measured
  <2>3. w \in Pcs \ {"measuring"}
    BY DEF Pcs
  <2> HIDE DEF w
  <2> QED
    BY <2>1, <2>2, <2>3, QuietHostHolds
<1>5. CASE Reduce(r)
  <2>1. Goto(r, "closing") /\ HostFrame /\ UNCHANGED stream /\ host[r].pc = "reduce"
    BY <1>5 DEF Reduce
  <2>2. stream[r] = <<>>
    BY <2>1, StreamEmpty
  <2>3. "closing" \in Pcs \ {"measuring"}
    BY DEF Pcs
  <2> QED
    BY <2>1, <2>2, <2>3, QuietHostHolds
<1>6. CASE NextSize(r)
  <2> DEFINE next == next_size(host[r].size)
  <2>1. HostFrame /\ UNCHANGED stream /\ host[r].pc = "next"
    BY <1>6 DEF NextSize
  <2>2. stream[r] = <<>>
    BY <2>1, StreamEmpty
  <2>3. CASE next <= host[r].size \/ next > config.maxbytes
    <3>1. Goto(r, "finished")
      BY <1>6, <2>3 DEF NextSize
    <3>2. "finished" \in Pcs \ {"measuring"}
      BY DEF Pcs
    <3> QED
      BY <2>1, <2>2, <3>1, <3>2, QuietHostHolds
  <2>4. CASE ~(next <= host[r].size \/ next > config.maxbytes)
    <3>1. host' = [host EXCEPT ![r] = [pc |-> "warmup", size |-> next]]
      BY <1>6, <2>4 DEF NextSize
    <3>2. next \in Nat
      <4> DEFINE size == host[r].size
                 sum == size + config.stepbytes
                 product == size * config.stepfactor
      <4>1. size \in Nat /\ config.stepbytes \in Nat /\ config.stepfactor \in Nat /\ SizeModulus \in Nat \ {0}
        BY <1>0, ConfigsAssumption DEF Shapes, Valid
      <4>2. sum \in Nat /\ product \in Nat
        <5> HIDE DEF size
        <5> QED
          BY <4>1
      <4>3. next = IF config.stepbytes # 0 THEN sum % SizeModulus ELSE product % SizeModulus
        BY DEF next_size
      <4> HIDE DEF next, sum, product
      <4>4. sum % SizeModulus \in Nat /\ product % SizeModulus \in Nat
        BY <4>1, <4>2
      <4> QED
        BY <4>3, <4>4
    <3> HIDE DEF next
    <3>3. /\ host' \in [Ranks -> [pc : Pcs, size : Nat]] /\ host'[r].pc = "warmup"
          /\ \A s \in Ranks : s # r => host'[s] = host[s]
      BY <1>0, <3>1, <3>2 DEF Shapes, Pcs
    <3> DEFINE e == <<>>
               w == "warmup"
    <3>4. /\ e \in Streams(config, r, w) /\ stream'[r] = e /\ w \in Pcs
          /\ w \notin {"reduce", "closing", "measuring"} /\ host'[r].pc = w
      BY <2>1, <2>2, <3>3 DEF Streams, Pcs
    <3>5. DOMAIN stream' = Ranks /\ \A s \in Ranks : s # r => stream'[s] = stream[s]
      BY <1>0, <2>1 DEF Shapes
    <3> HIDE DEF e, w
    <3> QED
      BY <2>1, <2>2, <3>3, <3>4, <3>5, HostHolds
  <2> QED
    BY <2>3, <2>4
<1> QED
  BY <1>1, <1>2, <1>3, <1>4, <1>5, <1>6 DEF Host

\* Both ranks go on together.
LEMMA BarrierHolds ==
    ASSUME GinInv, NEW from, NEW to, Barrier(from, to),
           from \notin {"warming", "measuring"}, to \in Pcs, to \notin {"measuring", "reduce", "closing"}
    PROVE  GinInv'
<1>1. Shapes /\ config \in Configs /\ HostFrame /\ UNCHANGED stream
  BY DEF GinInv, Barrier
<1>2. UNCHANGED <<config, pos, queue, completed, timed>>
  BY <1>1 DEF HostFrame, gin
<1>3. host' \in [Ranks -> [pc : Pcs, size : Nat]] /\ \A r \in Ranks : host'[r].pc = to
  BY <1>1 DEF Barrier, Shapes
<1>4. ASSUME NEW r \in Ranks PROVE RankHolds(r)'
  <2>1. stream[r] = <<>>
    <3>1. host[r].pc = from
      BY DEF Barrier
    <3> QED
      BY <3>1, StreamEmpty
  <2> DEFINE h == host[r].pc
             e == <<>>
  <2>2. RankInv(config, r, h, <<>>, pos[r], queue[r], completed[r], timed[r])
    BY <2>1 DEF GinInv, RankHolds
  <2>3. e \in Streams(config, r, to)
    BY <1>1, NothingQueued
  <2> HIDE DEF h, e
  <2>4. RankInv(config, r, to, e, pos[r], queue[r], completed[r], timed[r])
    BY <1>1, <2>2, <2>3, RankGoes
  <2> QED
    BY <1>1, <1>2, <1>3, <2>1, <2>4 DEF RankHolds, e
<1>5. Shapes'
  BY <1>1, <1>2, <1>3 DEF Shapes
<1> QED
  BY <1>1, <1>2, <1>4, <1>5 DEF GinInv

LEMMA ThreadHolds ==
    ASSUME GinInv, NEW r \in Ranks, NEW b \in Ctas, NEW t \in Threads, Thread(r, b, t)
    PROVE  GinInv'
<1>0. "turn" \in Others /\ "count" \in Others /\ "reset" \in Others
  BY DEF Others
<1>1. CASE Turn(r, b, t)
  <2>1. /\ Running(r) /\ At(r, b, t, "turn") /\ Advance(r, b, t)
        /\ UNCHANGED <<config, host, stream, queue, completed, timed>>
    BY <1>1 DEF Turn
  <2> QED
    BY <1>0, <2>1, AdvanceHolds
<1>2. CASE Post(r, b, t)
  BY <1>2, PostHolds
<1>3. CASE WaitCounter(r, b, t)
  <2>1. /\ Running(r) /\ At(r, b, t, "count") /\ Advance(r, b, t)
        /\ UNCHANGED <<config, host, stream, queue, completed, timed>>
    BY <1>3 DEF WaitCounter, gin
  <2> QED
    BY <1>0, <2>1, AdvanceHolds
<1>4. CASE Reset(r, b, t)
  <2>1. /\ Running(r) /\ At(r, b, t, "reset") /\ Advance(r, b, t)
        /\ UNCHANGED <<config, host, stream, queue, completed, timed>>
    BY <1>4 DEF Reset
  <2> QED
    BY <1>0, <2>1, AdvanceHolds
<1> QED
  BY <1>1, <1>2, <1>3, <1>4 DEF Thread

LEMMA StepHolds ==
    ASSUME GinInv, [Next]_vars
    PROVE  GinInv'
<1>1. ASSUME NEW r \in Ranks, Host(r) PROVE GinInv'
  BY <1>1, HostStepHolds
<1>2. ASSUME NEW r \in Ranks, Stream(r) PROVE GinInv'
  BY <1>2, RecordStartHolds, RecordStopHolds, KernelEndsHolds DEF Stream
<1>3. ASSUME NEW r \in Ranks, Land(r) PROVE GinInv'
  <2>1. UNCHANGED <<config, host, stream, pos, queue, completed, timed>>
    BY <1>3 DEF Land
  <2> QED
    BY <2>1, SameRanks
<1>4. CASE Barriers
  <2>1. CASE Barrier("ready", "measure")
    BY <2>1, BarrierHolds DEF Pcs
  <2>2. CASE Barrier("closing", "next")
    BY <2>2, BarrierHolds DEF Pcs
  <2>3. CASE Barrier("finished", "done")
    BY <2>3, BarrierHolds DEF Pcs
  <2> QED
    BY <1>4, <2>1, <2>2, <2>3 DEF Barriers
<1>5. ASSUME NEW r \in Ranks, NEW b \in Ctas, Cta(r, b) PROVE GinInv'
  BY <1>5, SyncthreadsHolds, FlushHolds DEF Cta
<1>6. ASSUME NEW r \in Ranks, NEW b \in Ctas, Network(r, b) PROVE GinInv'
  BY <1>6, ReadHolds, CompleteHolds DEF Network
<1>7. ASSUME NEW r \in Ranks, NEW b \in Ctas, NEW t \in Threads, Thread(r, b, t) PROVE GinInv'
  BY <1>7, ThreadHolds
<1>8. CASE UNCHANGED vars
  <2>1. UNCHANGED <<config, host, stream, pos, queue, completed, timed>>
    BY <1>8 DEF vars, gin
  <2> QED
    BY <2>1, SameRanks
<1>9. CASE Done
  BY <1>8, <1>9 DEF Done
<1> QED
  BY <1>1, <1>2, <1>3, <1>4, <1>5, <1>6, <1>7, <1>8, <1>9 DEF Next

(***************************************************************************)
(* Whatever the configuration, the places of the threads account at any    *)
(* time for what is in the send queues, and the operations posted since    *)
(* the start event for those completed (GinInv).                           *)
(***************************************************************************)
THEOREM GinInvariance == Spec => []GinInv
<1>1. Init => GinInv
  BY StartHolds
<1>2. GinInv /\ [Next]_vars => GinInv'
  BY StepHolds
<1> QED
  BY <1>1, <1>2, PTL DEF Spec

(***************************************************************************)
(* No send queue ever holds more than its depth, or than one iteration of  *)
(* a block if that is more and nobody checks for room, for any number of   *)
(* blocks, threads and iterations and any depth: with the credit check off *)
(* it is the flushes of the loop, every flushEvery iterations, that see to *)
(* it.                                                                     *)
(***************************************************************************)
THEOREM QueuesAreBounded == Spec => []QueueWithinDepth
<1>1. GinInv => QueueWithinDepth
  <2> SUFFICES ASSUME GinInv, NEW r \in Ranks, NEW b \in Ctas PROVE Wqes(queue[r][b]) <= Bound(config)
    BY DEF QueueWithinDepth
  <2> DEFINE q == queue[r][b]
             st == stream[r]
             ps == pos[r]
  <2>1. /\ config \in Configs /\ b \in BlocksOf(config) /\ Wqes(q) = wqesPerOp(config) * OpsIn(q)
    BY Grid DEF GinInv
  <2>2. RankInv(config, r, host[r].pc, st, ps, queue[r], completed[r], timed[r])
    BY DEF GinInv, RankHolds
  <2>3. CASE ~config.skip
    BY <2>1, <2>2, <2>3, ConfigFacts DEF RankInv, Credited
  <2>4. CASE config.skip /\ Runs(st)
    <3> DEFINE n == Head(st).iters
               k == Places(config, ps, b)
    <3>1. n \in Nat \ {0}
      BY <2>1, <2>2, <2>4, KernelLength
    <3>2. Block(config, r, n, k, q)
      BY <2>1, <2>2, <2>4 DEF RankInv, InKernel
    <3> HIDE DEF n, k, q
    <3>3. wqesPerOp(config) * OpsIn(q) <= Bound(config)
      BY <2>1, <2>4, <3>1, <3>2, BlockFits
    <3> QED
      BY <2>1, <3>3 DEF q
  <2>5. CASE ~Runs(st)
    <3>1. OpsIn(q) = 0
      BY <2>1, <2>2, <2>5 DEF RankInv, InKernel
    <3>2. Bound(config) \in Nat /\ wqesPerOp(config) * 0 = 0
      BY <2>1, ConfigFacts DEF wqesPerOp
    <3> HIDE DEF q
    <3> QED
      BY <2>1, <3>1, <3>2 DEF q
  <2> QED
    BY <2>3, <2>4, <2>5
<1> QED
  BY <1>1, GinInvariance, PTL

(***************************************************************************)
(* What is timed is exactly the measured kernel: as many operations have   *)
(* completed between the two events as the report divides by, for any      *)
(* number of blocks, threads and iterations (gin_perf_run).                *)
(***************************************************************************)
THEOREM ClockAlwaysCoversMessages == Spec => []ClockCoversMessages
<1>1. GinInv => ClockCoversMessages
  <2> SUFFICES ASSUME GinInv, NEW r \in Ranks, measures(r), host[r].pc \in {"reduce", "closing"}
               PROVE  timed[r] = config.iters * config.num_ctas * config.num_threads
    BY DEF ClockCoversMessages
  <2>1. Measuring(config, r) /\ RankHolds(r)
    BY Grid DEF GinInv
  <2>2. timed[r] = Messages(config)
    BY <2>1 DEF RankHolds, RankInv, Counted
  <2> QED
    BY <2>2 DEF Messages
<1> QED
  BY <1>1, GinInvariance, PTL

=============================================================================
