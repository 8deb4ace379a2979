--------------------------- MODULE JsonWriterProofs ---------------------------
(***************************************************************************)
(* Machine-checked proofs about the JSON report for every number of        *)
(* processes, message sizes, iterations, arguments and variables, every    *)
(* combination of the options and a failure at any place of the run: no    *)
(* assertion of the writer goes off, the file is at every moment the       *)
(* beginning of a JSON document, a finalized file is one JSON value, and   *)
(* its reader can tell a run that came to its verdict from a broken one.   *)
(*                                                                         *)
(* The proofs follow the report functions: each is shown to lead from a    *)
(* place in the document, whatever surrounds it, to another one, and the   *)
(* places of two functions called in turn fit.                             *)
(***************************************************************************)
EXTENDS JsonWriter, FoldLemmas, SequenceTheorems

-----------------------------------------------------------------------------
(* The writer between two calls.                                           *)

\* The keys of the report.
Names ==
    {"version", "start_time", "args", "env", "nccl_version", "rank", "group",
     "pid", "hostname", "device", "device_hex", "device_info", "config",
     "nthreads", "ngpus", "minimum_bytes", "maximum_bytes", "step_factor",
     "step_bytes", "warmup_iters", "iterations", "aggregated_iterations",
     "validation", "graph", "blocking_collectives", "per_iter_timing",
     "per_iter_skip", "parallel_init", "devices", "results", "size", "count",
     "type", "redop", "root", "in_place", "cpu_time", "time", "alg_bw", "bus_bw",
     "nwrong", "out_of_place", "out_of_place_per_iter", "in_place_per_iter",
     "skipped_iterations", "min_us", "max_us", "avg_us", "p50_us", "p95_us",
     "p99_us", "stdev_us", "cv_pct", "times_us", "per_process_max_times_us",
     "tuning", "implementation", "algo", "proto", "kernelVariant", "syncStrategy",
     "#channels", "#warps", "netChunkSize", "actual_iterations", "experiment_name",
     "out_of_bounds", "okay", "average_bus_bandwidth", "bandwidth", "errors",
     "end_time"}
Brackets == {"{", "["}
States == {"KEY", "OBJECT_EMPTY", "OBJECT_SOME", "LIST_EMPTY", "LIST_SOME"}
Tokens == SUBSET {"val", "key", ",", "{", "[", "}", "]"}
Documents == [open : Seq(Brackets), keys : Seq(SUBSET Names), top : SUBSET Names,
              want : Tokens, twice : BOOLEAN, bad : BOOLEAN]
Writers == [stack : Seq(States), doc : Documents, aborted : BOOLEAN]

\* Nothing is wrong with the document, and what it has open and wants.
Shows(d, open, keys, want) ==
    /\ d \in Documents
    /\ d.open = open /\ d.keys = keys /\ d.want = want
    /\ ~d.twice /\ ~d.bad
Fine(v, stack, open, keys, want) ==
    /\ v \in Writers /\ v.stack = stack /\ ~v.aborted
    /\ Shows(v.doc, open, keys, want)

LEMMA AppendFacts ==
    ASSUME NEW S, NEW s \in Seq(S), NEW x \in S
    PROVE  /\ Append(s, x) \in Seq(S) /\ Append(s, x) # <<>>
           /\ Len(Append(s, x)) = Len(s) + 1
           /\ Front(Append(s, x)) = s /\ Last(Append(s, x)) = x
<1>1. /\ Append(s, x) \in Seq(S) /\ Append(s, x) # <<>>
      /\ Len(Append(s, x)) = Len(s) + 1 /\ Append(s, x)[Len(s) + 1] = x
      /\ \A i \in 1 .. Len(s) : Append(s, x)[i] = s[i]
  BY AppendProperties
<1>2. Last(Append(s, x)) = x
  BY <1>1 DEF Last
<1>3. Front(Append(s, x)) = SubSeq(Append(s, x), 1, Len(s))
  BY <1>1 DEF Front
<1> DEFINE u == Append(s, x)
<1> HIDE DEF u
<1>4. SubSeq(u, 1, Len(s)) = s
  <2>1. u \in Seq(S) /\ Len(u) = Len(s) + 1 /\ \A i \in 1 .. Len(s) : u[i] = s[i]
    BY <1>1 DEF u
  <2>2. SubSeq(u, 1, Len(s)) = [i \in 1 .. Len(s) |-> u[i]]
    BY <2>1
  <2>3. s = [i \in 1 .. Len(s) |-> s[i]]
    OBVIOUS
  <2> QED
    BY <2>1, <2>2, <2>3
<1> QED
  BY <1>1, <1>2, <1>3, <1>4 DEF u

\* A nonempty sequence is its front and its last element.
LEMMA FrontLast ==
    ASSUME NEW S, NEW s \in Seq(S), s # <<>>
    PROVE  /\ Front(s) \in Seq(S) /\ Last(s) \in S /\ s = Append(Front(s), Last(s))
           /\ Len(Front(s)) = Len(s) - 1
<1>1. Len(s) \in Nat \ {0} /\ \A i \in 1 .. Len(s) : s[i] \in S
  OBVIOUS
<1>2. Front(s) = [i \in 1 .. Len(s) - 1 |-> s[i]]
  BY <1>1 DEF Front
<1> DEFINE u == Front(s)
<1>3. u \in Seq(S) /\ Len(u) = Len(s) - 1
  BY <1>1, <1>2
<1>4. Last(s) \in S /\ Last(s) = s[Len(s)]
  BY <1>1 DEF Last
<1>5. Append(u, Last(s)) = s
  <2> DEFINE x == Last(s)
  <2> HIDE DEF u, x
  <2>1. u \in Seq(S) /\ x \in S /\ Len(u) = Len(s) - 1 /\ x = s[Len(s)]
    BY <1>3, <1>4 DEF x
  <2>2. /\ Append(u, x) \in Seq(S) /\ Len(Append(u, x)) = Len(s)
        /\ \A i \in 1 .. Len(u) : Append(u, x)[i] = u[i]
        /\ Append(u, x)[Len(s)] = x
    BY <2>1, <1>1, AppendProperties
  <2>3. \A i \in 1 .. Len(s) : Append(u, x)[i] = s[i]
    <3>1. \A i \in 1 .. Len(s) - 1 : u[i] = s[i]
      BY <1>2 DEF u
    <3> QED
      BY <3>1, <2>1, <2>2, <1>1
  <2>4. Append(u, x) = s
    BY <2>2, <2>3, SeqEqual
  <2> QED
    BY <2>4 DEF x
<1> QED
  BY <1>3, <1>4, <1>5

-----------------------------------------------------------------------------
(* What a token does to the document.                                      *)

LEMMA FollowType ==
    ASSUME NEW o \in Seq(Brackets)
    PROVE  Follow(o) \in Tokens
  BY DEF Follow, Closer, Tokens

LEMMA EmitFine ==
    ASSUME NEW v, NEW s, NEW o, NEW k, NEW want, Fine(v, s, o, k, want), NEW t,
           NEW o2, NEW k2, NEW want2, Shows(Read(v.doc, t), o2, k2, want2)
    PROVE  Fine(Emit(v, t), s, o2, k2, want2)
<1>1. Read(v.doc, t) \in Documents
  BY DEF Shows
<1>2. /\ Emit(v, t) \in Writers /\ Emit(v, t).stack = v.stack
      /\ Emit(v, t).aborted = v.aborted /\ Emit(v, t).doc = Read(v.doc, t)
  BY <1>1 DEF Emit, Writers, Fine
<1> QED
  BY <1>2 DEF Fine

LEMMA ValueRead ==
    ASSUME NEW v, NEW s, NEW o, NEW k, NEW want, Fine(v, s, o, k, want), "val" \in want
    PROVE  Fine(Emit(v, Mark("val")), s, o, k, Follow(o))
<1> DEFINE d == v.doc
<1>1. Shows(d, o, k, want)
  BY DEF Fine
<1>2. Follow(o) \in Tokens
  BY <1>1, FollowType DEF Shows, Documents
<1> HIDE DEF d
<1>3. Read(d, Mark("val")) = [d EXCEPT !.want = Follow(o)]
  BY <1>1 DEF Read, Shows, Mark, Token
<1>4. Shows(Read(d, Mark("val")), o, k, Follow(o))
  BY <1>1, <1>2, <1>3 DEF Shows, Documents
<1> QED
  BY <1>4, EmitFine DEF d

LEMMA CommaRead ==
    ASSUME NEW v, NEW s, NEW o, NEW k, NEW want, Fine(v, s, o, k, want), "," \in want
    PROVE  Fine(Separated(v), s, o, k, IF Last(o) = "{" THEN {"key"} ELSE Values)
<1> DEFINE d == v.doc
           next == IF Last(o) = "{" THEN {"key"} ELSE Values
<1>1. Shows(d, o, k, want)
  BY DEF Fine
<1>2. next \in Tokens
  BY DEF Values, Tokens
<1> HIDE DEF d
<1>3. Read(d, Mark(",")) = [d EXCEPT !.want = next]
  BY <1>1 DEF Read, Shows, Mark, Token
<1> HIDE DEF next
<1>4. Shows(Read(d, Mark(",")), o, k, next)
  BY <1>1, <1>2, <1>3 DEF Shows, Documents
<1>5. Fine(Emit(v, Mark(",")), s, o, k, next)
  BY <1>4, EmitFine DEF d
<1> QED
  BY <1>5 DEF Separated, next

LEMMA KeyRead ==
    ASSUME NEW v, NEW s, NEW o, NEW want, NEW b \in Seq(SUBSET Names), NEW K \in SUBSET Names,
           Fine(v, s, o, Append(b, K), want), "key" \in want,
           NEW name \in Names, name \notin K
    PROVE  Fine(Emit(v, Token("key", name)), s, o, Append(b, K \cup {name}), Values)
<1> DEFINE d == v.doc
           k == Append(b, K)
           next == Append(b, K \cup {name})
<1>1. Shows(d, o, k, want)
  BY DEF Fine
<1>2. Front(k) = b /\ Last(k) = K /\ next \in Seq(SUBSET Names)
  BY AppendFacts
<1> HIDE DEF d, k
<1>3. Read(d, Token("key", name))
        = [d EXCEPT !.keys = Append(Front(@), Last(@) \union {name}),
                    !.twice = @ \/ name \in Last(d.keys), !.want = Values]
  BY <1>1 DEF Read, Shows, Token
<1>4. Append(Front(d.keys), Last(d.keys) \union {name}) = next /\ name \notin Last(d.keys)
  BY <1>1, <1>2 DEF Shows
<1> HIDE DEF next
<1>5. Values \in Tokens
  BY DEF Values, Tokens
<1>6. Shows(Read(d, Token("key", name)), o, next, Values)
  BY <1>1, <1>2, <1>3, <1>4, <1>5 DEF Shows, Documents
<1>7. Fine(v, s, o, k, want)
  BY DEF k
<1>8. Fine(Emit(v, Token("key", name)), s, o, next, Values)
  BY <1>6, <1>7, EmitFine DEF d
<1> QED
  BY <1>8 DEF next

\* What follows the bracket t.
Within(t) == IF t = "{" THEN {"key", "}"} ELSE Values \cup {"]"}
LEMMA OpenRead ==
    ASSUME NEW v, NEW s, NEW o \in Seq(Brackets), NEW k \in Seq(SUBSET Names), NEW want,
           Fine(v, s, o, k, want), NEW t \in {"{", "["}, t \in want
    PROVE  Fine(Emit(v, Mark(t)), s, Append(o, t), Append(k, {}), Within(t))
<1> DEFINE d == v.doc
           o2 == Append(o, t)
           k2 == Append(k, {})
<1>1. Shows(d, o, k, want)
  BY DEF Fine
<1>2. o2 \in Seq(Brackets) /\ k2 \in Seq(SUBSET Names) /\ Within(t) \in Tokens
  <2>1. t \in Brackets /\ {} \in SUBSET Names
    BY DEF Brackets
  <2>2. Within(t) \in Tokens
    BY DEF Within, Values, Tokens
  <2> QED
    BY <2>1, <2>2, AppendFacts
<1> HIDE DEF d
<1>3. Read(d, Mark(t)) = [d EXCEPT !.open = Append(@, t), !.keys = Append(@, {}), !.want = Within(t)]
  BY <1>1 DEF Read, Shows, Mark, Token, Within
<1>4. Append(d.open, t) = o2 /\ Append(d.keys, {}) = k2
  BY <1>1 DEF Shows
<1> HIDE DEF o2, k2
<1>5. Shows(Read(d, Mark(t)), o2, k2, Within(t))
  BY <1>1, <1>2, <1>3, <1>4 DEF Shows, Documents
<1>6. Fine(Emit(v, Mark(t)), s, o2, k2, Within(t))
  BY <1>5, EmitFine DEF d
<1> QED
  BY <1>6 DEF o2, k2

LEMMA CloseRead ==
    ASSUME NEW v, NEW s, NEW o \in Seq(Brackets), NEW x \in Brackets,
           NEW b \in Seq(SUBSET Names), NEW K \in SUBSET Names, NEW want,
           Fine(v, s, Append(o, x), Append(b, K), want), NEW t \in {"}", "]"}, t \in want
    PROVE  /\ Fine(Emit(v, Mark(t)), s, o, b, Follow(o))
           /\ Emit(v, Mark(t)).doc.top = K
<1> DEFINE d == v.doc
           o2 == Append(o, x)
           k2 == Append(b, K)
<1>1. Shows(d, o2, k2, want) /\ Fine(v, s, o2, k2, want)
  BY DEF Fine
<1>2. Front(o2) = o /\ Front(k2) = b /\ Last(k2) = K /\ Follow(o) \in Tokens
  BY AppendFacts, FollowType
<1> HIDE DEF d, o2, k2
<1>3. Read(d, Mark(t)) = [d EXCEPT !.open = Front(@), !.keys = Front(@), !.top = Last(d.keys),
                                   !.want = Follow(Front(d.open))]
  BY <1>1 DEF Read, Shows, Mark, Token
<1>4. Front(d.open) = o /\ Front(d.keys) = b /\ Last(d.keys) = K
  BY <1>1, <1>2 DEF Shows
<1>5. Shows(Read(d, Mark(t)), o, b, Follow(o)) /\ Read(d, Mark(t)).top = K
  BY <1>1, <1>2, <1>3, <1>4 DEF Shows, Documents
<1>6. Fine(Emit(v, Mark(t)), s, o, b, Follow(o))
  BY <1>1, <1>5, EmitFine DEF d
<1>7. Emit(v, Mark(t)).doc = Read(d, Mark(t))
  BY <1>1 DEF Emit, Fine, Writers, d
<1> QED
  BY <1>5, <1>6, <1>7

-----------------------------------------------------------------------------
(* What the calls do to the stack.                                         *)

LEMMA CurrState ==
    ASSUME NEW v, NEW b \in Seq(States), NEW x \in States, v.stack = Append(b, x)
    PROVE  jsonCurrState(v) = x
  BY AppendFacts DEF jsonCurrState

LEMMA PushState ==
    ASSUME NEW v, NEW s \in Seq(States), NEW o, NEW k, NEW want, Fine(v, s, o, k, want),
           NEW x \in States
    PROVE  Fine(jsonPushState(v, x), Append(s, x), o, k, want)
<1> DEFINE u == Append(s, x)
<1>1. u \in Seq(States) /\ v.stack = s
  BY AppendFacts DEF Fine
<1>2. jsonPushState(v, x) = [v EXCEPT !.stack = u]
  BY <1>1 DEF jsonPushState
<1> HIDE DEF u
<1>3. Fine(jsonPushState(v, x), u, o, k, want)
  BY <1>1, <1>2 DEF Fine, Writers
<1> QED
  BY <1>3 DEF u

LEMMA ReplaceState ==
    ASSUME NEW v, NEW b \in Seq(States), NEW y \in States, NEW o, NEW k, NEW want,
           Fine(v, Append(b, y), o, k, want), NEW x \in States
    PROVE  Fine(jsonReplaceState(v, x), Append(b, x), o, k, want)
<1> DEFINE u == Append(b, x)
<1>1. u \in Seq(States) /\ v.stack = Append(b, y) /\ Front(v.stack) = b
  BY AppendFacts DEF Fine
<1>2. jsonReplaceState(v, x) = [v EXCEPT !.stack = u]
  BY <1>1 DEF jsonReplaceState
<1> HIDE DEF u
<1>3. Fine(jsonReplaceState(v, x), u, o, k, want)
  BY <1>1, <1>2 DEF Fine, Writers
<1> QED
  BY <1>3 DEF u

LEMMA PopState ==
    ASSUME NEW v, NEW b \in Seq(States), NEW y \in States, NEW o, NEW k, NEW want,
           Fine(v, Append(b, y), o, k, want)
    PROVE  Fine(jsonPopState(v), b, o, k, want)
<1>1. v.stack = Append(b, y) /\ Front(v.stack) = b
  BY AppendFacts DEF Fine
<1>2. jsonPopState(v) = [v EXCEPT !.stack = b]
  BY <1>1 DEF jsonPopState
<1> QED
  BY <1>1, <1>2 DEF Fine, Writers

-----------------------------------------------------------------------------
(* Places in a document.                                                   *)

\* What surrounds a place, with the keys of the objects among the names X.
StateIn(bracket) == IF bracket = "{" THEN "OBJECT_SOME" ELSE "LIST_SOME"
Contexts(X) ==
    {c \in [stack : Seq(States), open : Seq(Brackets), keys : Seq(SUBSET X)] :
        /\ Len(c.open) = Len(c.stack) /\ Len(c.keys) = Len(c.stack)
        /\ \A i \in 1 .. Len(c.stack) :
              c.stack[i] = StateIn(c.open[i]) /\ (c.open[i] = "[" => c.keys[i] = {})}
Outer == [stack |-> <<>>, open |-> <<>>, keys |-> <<>>]
Inside(c, bracket, K) ==
    [stack |-> Append(c.stack, StateIn(bracket)), open |-> Append(c.open, bracket),
     keys |-> Append(c.keys, K)]

\* In an object that has the keys K, after a key of it, in a list.
InObject(c, K) ==
    {v \in Writers :
        \/ Fine(v, Append(c.stack, "OBJECT_EMPTY"), Append(c.open, "{"), Append(c.keys, K), {"key", "}"})
        \/ Fine(v, Append(c.stack, "OBJECT_SOME"), Append(c.open, "{"), Append(c.keys, K), {",", "}"})}
AfterKey(c, K) ==
    {v \in Writers : Fine(v, Append(Append(c.stack, "OBJECT_SOME"), "KEY"),
                          Append(c.open, "{"), Append(c.keys, K), Values)}
InList(c) ==
    {v \in Writers :
        \/ Fine(v, Append(c.stack, "LIST_EMPTY"), Append(c.open, "["), Append(c.keys, {}), Values \cup {"]"})
        \/ Fine(v, Append(c.stack, "LIST_SOME"), Append(c.open, "["), Append(c.keys, {}), {",", "]"})}

\* About to write a value that c surrounds, and having written it.
Ready(c) == {v \in Writers : \E want : Values \subseteq want /\ Fine(v, c.stack, c.open, c.keys, want)}
Filled(c) == {v \in Writers : Fine(v, c.stack, c.open, c.keys, Follow(c.open))}
Unopened == {v \in Writers : Fine(v, <<>>, <<>>, <<>>, Values)}

LEMMA ContextFacts ==
    ASSUME NEW X \in SUBSET Names, NEW c \in Contexts(X)
    PROVE  /\ c.stack \in Seq(States) /\ c.open \in Seq(Brackets) /\ c.keys \in Seq(SUBSET X)
           /\ c.keys \in Seq(SUBSET Names)
           /\ Len(c.open) = Len(c.stack) /\ Len(c.keys) = Len(c.stack)
           /\ \A i \in 1 .. Len(c.stack) :
                 c.stack[i] = StateIn(c.open[i]) /\ (c.open[i] = "[" => c.keys[i] = {})
<1>1. c \in [stack : Seq(States), open : Seq(Brackets), keys : Seq(SUBSET X)]
  BY DEF Contexts
<1>2. c.stack \in Seq(States) /\ c.open \in Seq(Brackets) /\ c.keys \in Seq(SUBSET X)
  BY <1>1
<1>3. Seq(SUBSET X) \subseteq Seq(SUBSET Names)
  <2>1. SUBSET X \subseteq SUBSET Names
    OBVIOUS
  <2> QED
    BY <2>1, SeqMonotonic
<1> QED
  BY <1>2, <1>3 DEF Contexts

LEMMA StateNames ==
    /\ States = {"KEY", "OBJECT_EMPTY", "OBJECT_SOME", "LIST_EMPTY", "LIST_SOME"}
    /\ \A bracket \in Brackets : StateIn(bracket) \in States
    /\ StateIn("{") = "OBJECT_SOME" /\ StateIn("[") = "LIST_SOME"
    /\ "{" \in Brackets /\ "[" \in Brackets
  BY DEF States, StateIn, Brackets

LEMMA OuterIsContext == ASSUME NEW X \in SUBSET Names PROVE Outer \in Contexts(X)
<1>1. /\ <<>> \in Seq(States) /\ <<>> \in Seq(Brackets) /\ <<>> \in Seq(SUBSET X)
      /\ Len(<<>>) = 0
  OBVIOUS
<1> QED
  BY <1>1 DEF Contexts, Outer

LEMMA InsideIsContext ==
    ASSUME NEW X \in SUBSET Names, NEW c \in Contexts(X), NEW bracket \in Brackets, NEW K \in SUBSET X,
           bracket = "[" => K = {}
    PROVE  Inside(c, bracket, K) \in Contexts(X)
<1> DEFINE st == StateIn(bracket)
           s == Append(c.stack, st)
           o == Append(c.open, bracket)
           k == Append(c.keys, K)
<1>1. /\ c.stack \in Seq(States) /\ c.open \in Seq(Brackets) /\ c.keys \in Seq(SUBSET X)
      /\ Len(c.open) = Len(c.stack) /\ Len(c.keys) = Len(c.stack) /\ st \in States
      /\ \A i \in 1 .. Len(c.stack) :
            c.stack[i] = StateIn(c.open[i]) /\ (c.open[i] = "[" => c.keys[i] = {})
  BY ContextFacts, StateNames
<1>2. /\ s \in Seq(States) /\ o \in Seq(Brackets) /\ k \in Seq(SUBSET X)
      /\ Len(s) = Len(c.stack) + 1 /\ Len(o) = Len(c.open) + 1 /\ Len(k) = Len(c.keys) + 1
  BY <1>1, AppendFacts
<1>3. \A i \in 1 .. Len(s) : s[i] = StateIn(o[i]) /\ (o[i] = "[" => k[i] = {})
  <2>1. /\ \A i \in 1 .. Len(c.stack) : s[i] = c.stack[i] /\ o[i] = c.open[i] /\ k[i] = c.keys[i]
        /\ s[Len(c.stack) + 1] = st /\ o[Len(c.stack) + 1] = bracket /\ k[Len(c.stack) + 1] = K
    <3> HIDE DEF st
    <3>1. /\ \A i \in 1 .. Len(c.stack) : s[i] = c.stack[i]
          /\ s[Len(c.stack) + 1] = st
      BY <1>1, AppendProperties
    <3>2. /\ \A i \in 1 .. Len(c.open) : o[i] = c.open[i]
          /\ o[Len(c.open) + 1] = bracket
      BY <1>1, AppendProperties
    <3>3. /\ \A i \in 1 .. Len(c.keys) : k[i] = c.keys[i]
          /\ k[Len(c.keys) + 1] = K
      BY <1>1, AppendProperties
    <3>4. Len(c.open) = Len(c.stack) /\ Len(c.keys) = Len(c.stack)
      BY <1>1
    <3> HIDE DEF s, o, k
    <3> QED
      BY <3>1, <3>2, <3>3, <3>4
  <2> HIDE DEF s, o, k, st
  <2>2. Len(c.stack) \in Nat
    BY <1>1
  <2>3. st = StateIn(bracket)
    BY DEF st
  <2> QED
    BY <1>1, <1>2, <2>1, <2>2, <2>3
<1>4. Inside(c, bracket, K) = [stack |-> s, open |-> o, keys |-> k]
  BY DEF Inside
<1> HIDE DEF s, o, k
<1> QED
  BY <1>1, <1>2, <1>3, <1>4 DEF Contexts

-----------------------------------------------------------------------------
(* The calls of the writer, each from the places it may be made at.        *)

LEMMA KeyCall ==
    ASSUME NEW c \in Contexts(Names), NEW K \in SUBSET Names, NEW v \in InObject(c, K),
           NEW name \in Names \ K
    PROVE  jsonKey(v, name) \in AfterKey(c, K \cup {name})
<1> DEFINE o == Append(c.open, "{")
           k == Append(c.keys, K)
           s == Append(c.stack, "OBJECT_SOME")
           Keyed(u) == jsonPushState(Emit(u, Token("key", name)), "KEY")
<1>1. /\ c.stack \in Seq(States) /\ c.open \in Seq(Brackets) /\ c.keys \in Seq(SUBSET Names)
      /\ "OBJECT_SOME" \in States /\ "OBJECT_EMPTY" \in States /\ "KEY" \in States
      /\ "{" \in Brackets
  BY ContextFacts, StateNames
<1>2. s \in Seq(States) /\ Last(o) = "{"
  BY <1>1, AppendFacts
<1>3. ASSUME NEW u, Fine(u, s, o, k, {"key"}) \/ Fine(u, s, o, k, {"key", "}"})
      PROVE  Keyed(u) \in AfterKey(c, K \cup {name})
  <2>1. PICK want : Fine(u, s, o, k, want) /\ "key" \in want
    BY <1>3
  <2>2. Fine(Emit(u, Token("key", name)), s, o, Append(c.keys, K \cup {name}), Values)
    BY <2>1, <1>1, KeyRead
  <2>3. Fine(Keyed(u), Append(s, "KEY"), o, Append(c.keys, K \cup {name}), Values)
    <3> HIDE DEF s, o
    <3> QED
      BY <2>2, <1>1, <1>2, PushState
  <2> HIDE DEF Keyed
  <2>4. Keyed(u) \in Writers
    BY <2>3 DEF Fine
  <2> QED
    BY <2>3, <2>4 DEF AfterKey
<1>4. jsonKey(v, name) = CASE jsonCurrState(v) = "OBJECT_EMPTY" -> Keyed(jsonReplaceState(v, "OBJECT_SOME"))
                           [] jsonCurrState(v) = "OBJECT_SOME"  -> Keyed(Separated(v))
                           [] OTHER -> Abort(v)
  BY DEF jsonKey
<1>5. CASE Fine(v, Append(c.stack, "OBJECT_EMPTY"), o, k, {"key", "}"})
  <2>1. jsonCurrState(v) = "OBJECT_EMPTY"
    BY <1>5, <1>1, CurrState DEF Fine
  <2>2. Fine(jsonReplaceState(v, "OBJECT_SOME"), s, o, k, {"key", "}"})
    <3> HIDE DEF o, k
    <3> QED
      BY <1>5, <1>1, ReplaceState
  <2>3. Keyed(jsonReplaceState(v, "OBJECT_SOME")) \in AfterKey(c, K \cup {name})
    BY <2>2, <1>3
  <2> HIDE DEF Keyed
  <2> QED
    BY <1>4, <2>1, <2>3
<1>6. CASE Fine(v, s, o, k, {",", "}"})
  <2>1. jsonCurrState(v) = "OBJECT_SOME"
    BY <1>6, <1>1, CurrState DEF Fine
  <2>2. Fine(Separated(v), s, o, k, {"key"})
    <3> HIDE DEF o, k, s
    <3> QED
      BY <1>6, <1>2, CommaRead
  <2>3. Keyed(Separated(v)) \in AfterKey(c, K \cup {name})
    BY <2>2, <1>3
  <2> HIDE DEF Keyed
  <2> QED
    BY <1>4, <2>1, <2>3
<1> QED
  BY <1>5, <1>6 DEF InObject

\* Where a value may be written jsonValHelper leaves the writer ready for it.
LEMMA HelperAfterKey ==
    ASSUME NEW c \in Contexts(Names), NEW K \in SUBSET Names, NEW v \in AfterKey(c, K)
    PROVE  jsonValHelper(v) \in Ready(Inside(c, "{", K))
<1> DEFINE s == Append(c.stack, "OBJECT_SOME")
           o == Append(c.open, "{")
           k == Append(c.keys, K)
<1>1. c.stack \in Seq(States) /\ "OBJECT_SOME" \in States /\ "KEY" \in States
  BY ContextFacts, StateNames
<1>2. s \in Seq(States) /\ Fine(v, Append(s, "KEY"), o, k, Values)
  BY <1>1, AppendFacts DEF AfterKey
<1>3. /\ Inside(c, "{", K).stack = s /\ Inside(c, "{", K).open = o
      /\ Inside(c, "{", K).keys = k
  BY StateNames DEF Inside
<1> HIDE DEF s, o, k
<1>4. jsonCurrState(v) = "KEY"
  BY <1>1, <1>2, CurrState DEF Fine
<1>5. jsonValHelper(v) = jsonPopState(v)
  BY <1>4 DEF jsonValHelper
<1>6. Fine(jsonPopState(v), s, o, k, Values)
  BY <1>1, <1>2, PopState
<1>7. jsonPopState(v) \in Writers
  BY <1>6 DEF Fine
<1> QED
  BY <1>3, <1>5, <1>6, <1>7 DEF Ready

LEMMA HelperInList ==
    ASSUME NEW c \in Contexts(Names), NEW v \in InList(c)
    PROVE  jsonValHelper(v) \in Ready(Inside(c, "[", {}))
<1> DEFINE s == Append(c.stack, "LIST_SOME")
           o == Append(c.open, "[")
           k == Append(c.keys, {})
<1>1. /\ c.stack \in Seq(States) /\ c.open \in Seq(Brackets) /\ "[" \in Brackets
      /\ "LIST_SOME" \in States /\ "LIST_EMPTY" \in States
  BY ContextFacts, StateNames
<1>2. s \in Seq(States) /\ Last(o) = "["
  BY <1>1, AppendFacts
<1>3. /\ Inside(c, "[", {}).stack = s /\ Inside(c, "[", {}).open = o
      /\ Inside(c, "[", {}).keys = k
  BY StateNames DEF Inside
<1>4. SUFFICES \E want : Values \subseteq want /\ Fine(jsonValHelper(v), s, o, k, want)
  <2>1. ASSUME NEW want, Fine(jsonValHelper(v), s, o, k, want) PROVE jsonValHelper(v) \in Writers
    BY <2>1 DEF Fine
  <2> HIDE DEF s, o, k
  <2> QED
    BY <2>1, <1>3 DEF Ready
<1>5. CASE Fine(v, Append(c.stack, "LIST_EMPTY"), o, k, Values \cup {"]"})
  <2>1. jsonCurrState(v) = "LIST_EMPTY"
    BY <1>5, <1>1, CurrState DEF Fine
  <2>2. jsonValHelper(v) = jsonReplaceState(v, "LIST_SOME")
    BY <2>1 DEF jsonValHelper
  <2>3. Fine(jsonReplaceState(v, "LIST_SOME"), s, o, k, Values \cup {"]"})
    <3> HIDE DEF o, k
    <3> QED
      BY <1>5, <1>1, ReplaceState
  <2> QED
    BY <2>2, <2>3
<1>6. CASE Fine(v, s, o, k, {",", "]"})
  <2>1. jsonCurrState(v) = "LIST_SOME"
    BY <1>6, <1>1, CurrState DEF Fine
  <2>2. jsonValHelper(v) = Separated(v)
    BY <2>1 DEF jsonValHelper
  <2>3. Fine(Separated(v), s, o, k, Values)
    <3> HIDE DEF o, k, s
    <3>1. "," \in {",", "]"}
      OBVIOUS
    <3>2. Fine(Separated(v), s, o, k, IF Last(o) = "{" THEN {"key"} ELSE Values)
      BY <3>1, <1>6, CommaRead
    <3> QED
      BY <3>2, <1>2
  <2> QED
    BY <2>2, <2>3
<1> QED
  BY <1>5, <1>6 DEF InList

LEMMA HelperUnopened ==
    ASSUME NEW v \in Unopened
    PROVE  jsonValHelper(v) \in Ready(Outer)
<1>1. jsonCurrState(v) = "NONE"
  BY DEF Unopened, Fine, jsonCurrState
<1>2. jsonValHelper(v) = v
  BY <1>1 DEF jsonValHelper
<1> QED
  BY <1>2 DEF Ready, Outer, Unopened

\* What jsonValHelper makes ready for a value that c surrounds.
Awaiting(c) == {v \in Writers : jsonValHelper(v) \in Ready(c)}

LEMMA ValueCall ==
    ASSUME NEW c \in Contexts(Names), NEW v \in Awaiting(c)
    PROVE  jsonVal(v) \in Filled(c)
<1> DEFINE u == jsonValHelper(v)
<1>1. PICK want : Values \subseteq want /\ Fine(u, c.stack, c.open, c.keys, want)
  BY DEF Awaiting, Ready
<1> HIDE DEF u
<1>2. "val" \in want
  BY <1>1 DEF Values
<1>3. Fine(Emit(u, Mark("val")), c.stack, c.open, c.keys, Follow(c.open))
  BY <1>1, <1>2, ValueRead
<1>4. Emit(u, Mark("val")) \in Writers
  BY <1>3 DEF Fine
<1> QED
  BY <1>3, <1>4 DEF Filled, jsonVal, u

LEMMA StartObjectCall ==
    ASSUME NEW c \in Contexts(Names), NEW v \in Awaiting(c)
    PROVE  jsonStartObject(v) \in InObject(c, {})
<1> DEFINE u == jsonValHelper(v)
           o == Append(c.open, "{")
           k == Append(c.keys, {})
<1>1. PICK want : Values \subseteq want /\ Fine(u, c.stack, c.open, c.keys, want)
  BY DEF Awaiting, Ready
<1>2. /\ c.stack \in Seq(States) /\ c.open \in Seq(Brackets) /\ c.keys \in Seq(SUBSET Names)
      /\ "OBJECT_EMPTY" \in States
  BY ContextFacts, StateNames
<1> HIDE DEF u
<1>3. "{" \in want
  BY <1>1 DEF Values
<1>4. Fine(Emit(u, Mark("{")), c.stack, o, k, {"key", "}"})
  BY <1>1, <1>2, <1>3, OpenRead DEF Within
<1> HIDE DEF o, k
<1>5. Fine(jsonStartObject(v), Append(c.stack, "OBJECT_EMPTY"), o, k, {"key", "}"})
  BY <1>2, <1>4, PushState DEF jsonStartObject, jsonStart, u
<1>6. jsonStartObject(v) \in Writers
  BY <1>5 DEF Fine
<1> QED
  BY <1>5, <1>6 DEF InObject, o, k

LEMMA StartListCall ==
    ASSUME NEW c \in Contexts(Names), NEW v \in Awaiting(c)
    PROVE  jsonStartList(v) \in InList(c)
<1> DEFINE u == jsonValHelper(v)
           o == Append(c.open, "[")
           k == Append(c.keys, {})
<1>1. PICK want : Values \subseteq want /\ Fine(u, c.stack, c.open, c.keys, want)
  BY DEF Awaiting, Ready
<1>2. /\ c.stack \in Seq(States) /\ c.open \in Seq(Brackets) /\ c.keys \in Seq(SUBSET Names)
      /\ "LIST_EMPTY" \in States
  BY ContextFacts, StateNames
<1> HIDE DEF u
<1>3. "[" \in want
  BY <1>1 DEF Values
<1>4. Fine(Emit(u, Mark("[")), c.stack, o, k, Values \cup {"]"})
  BY <1>1, <1>2, <1>3, OpenRead DEF Within
<1> HIDE DEF o, k
<1>5. Fine(jsonStartList(v), Append(c.stack, "LIST_EMPTY"), o, k, Values \cup {"]"})
  BY <1>2, <1>4, PushState DEF jsonStartList, jsonStart, u
<1>6. jsonStartList(v) \in Writers
  BY <1>5 DEF Fine
<1> QED
  BY <1>5, <1>6 DEF InList, o, k

\* Closing a container leaves its keys behind.
LEMMA FinishObjectCall ==
    ASSUME NEW c \in Contexts(Names), NEW K \in SUBSET Names, NEW v \in InObject(c, K)
    PROVE  jsonFinishObject(v) \in Filled(c) /\ jsonFinishObject(v).doc.top = K
<1> DEFINE o == Append(c.open, "{")
           k == Append(c.keys, K)
<1>1. /\ c.stack \in Seq(States) /\ c.open \in Seq(Brackets) /\ c.keys \in Seq(SUBSET Names)
      /\ "OBJECT_SOME" \in States /\ "OBJECT_EMPTY" \in States /\ "{" \in Brackets
  BY ContextFacts, StateNames
<1>2. PICK st, want :
        st \in {"OBJECT_EMPTY", "OBJECT_SOME"} /\ Fine(v, Append(c.stack, st), o, k, want) /\ "}" \in want
  BY DEF InObject
<1>3. st \in States /\ jsonCurrState(v) = st
  BY <1>1, <1>2, CurrState DEF Fine
<1>4. jsonFinishObject(v) = Emit(jsonPopState(v), Mark("}"))
  BY <1>2, <1>3 DEF jsonFinishObject, jsonFinish
<1> DEFINE u == jsonPopState(v)
<1>5. Fine(jsonPopState(v), c.stack, o, k, want)
  <2> HIDE DEF o, k
  <2> QED
    BY <1>1, <1>2, <1>3, PopState
<1>6. /\ Fine(jsonFinishObject(v), c.stack, c.open, c.keys, Follow(c.open))
      /\ jsonFinishObject(v).doc.top = K
  <2>1. Fine(u, c.stack, Append(c.open, "{"), Append(c.keys, K), want) /\ "}" \in {"}", "]"}
    BY <1>5
  <2> HIDE DEF u, o, k
  <2>2. /\ Fine(Emit(u, Mark("}")), c.stack, c.open, c.keys, Follow(c.open))
        /\ Emit(u, Mark("}")).doc.top = K
    BY <2>1, <1>1, <1>2, CloseRead
  <2> QED
    BY <2>2, <1>4 DEF u
<1>7. jsonFinishObject(v) \in Writers
  BY <1>6 DEF Fine
<1> QED
  BY <1>6, <1>7 DEF Filled

LEMMA FinishListCall ==
    ASSUME NEW c \in Contexts(Names), NEW v \in InList(c)
    PROVE  jsonFinishList(v) \in Filled(c) /\ jsonFinishList(v).doc.top = {}
<1> DEFINE o == Append(c.open, "[")
           k == Append(c.keys, {})
<1>1. /\ c.stack \in Seq(States) /\ c.open \in Seq(Brackets) /\ c.keys \in Seq(SUBSET Names)
      /\ "LIST_SOME" \in States /\ "LIST_EMPTY" \in States /\ "[" \in Brackets
      /\ {} \in SUBSET Names
  BY ContextFacts, StateNames
<1>2. PICK st, want :
        st \in {"LIST_EMPTY", "LIST_SOME"} /\ Fine(v, Append(c.stack, st), o, k, want) /\ "]" \in want
  BY DEF InList
<1>3. st \in States /\ jsonCurrState(v) = st
  BY <1>1, <1>2, CurrState DEF Fine
<1>4. jsonFinishList(v) = Emit(jsonPopState(v), Mark("]"))
  BY <1>2, <1>3 DEF jsonFinishList, jsonFinish
<1> DEFINE u == jsonPopState(v)
<1>5. Fine(jsonPopState(v), c.stack, o, k, want)
  <2> HIDE DEF o, k
  <2> QED
    BY <1>1, <1>2, <1>3, PopState
<1>6. /\ Fine(jsonFinishList(v), c.stack, c.open, c.keys, Follow(c.open))
      /\ jsonFinishList(v).doc.top = {}
  <2>1. Fine(u, c.stack, Append(c.open, "["), Append(c.keys, {}), want) /\ "]" \in {"}", "]"}
    BY <1>5
  <2> HIDE DEF u, o, k
  <2>2. /\ Fine(Emit(u, Mark("]")), c.stack, c.open, c.keys, Follow(c.open))
        /\ Emit(u, Mark("]")).doc.top = {}
    BY <2>1, <1>1, <1>2, CloseRead
  <2> QED
    BY <2>2, <1>4 DEF u
<1>7. jsonFinishList(v) \in Writers
  BY <1>6 DEF Fine
<1> QED
  BY <1>6, <1>7 DEF Filled

\* A value that is complete is in its object, its list or all of the file.
LEMMA FilledPlaces ==
    ASSUME NEW c \in Contexts(Names), NEW K \in SUBSET Names
    PROVE  Filled(Inside(c, "{", K)) \subseteq InObject(c, K)
           /\ Filled(Inside(c, "[", {})) \subseteq InList(c)
<1>1. c.open \in Seq(Brackets) /\ "{" \in Brackets /\ "[" \in Brackets
  BY ContextFacts, StateNames
<1>2. /\ Last(Append(c.open, "{")) = "{" /\ Append(c.open, "{") # <<>>
      /\ Last(Append(c.open, "[")) = "[" /\ Append(c.open, "[") # <<>>
  BY <1>1, AppendFacts
<1>3. Follow(Append(c.open, "{")) = {",", "}"} /\ Follow(Append(c.open, "[")) = {",", "]"}
  BY <1>2 DEF Follow, Closer
<1>4. Filled(Inside(c, "{", K)) \subseteq InObject(c, K)
  BY <1>3, StateNames DEF Filled, Inside, InObject
<1>5. Filled(Inside(c, "[", {})) \subseteq InList(c)
  BY <1>3, StateNames DEF Filled, Inside, InList
<1> QED
  BY <1>4, <1>5

-----------------------------------------------------------------------------
(* Sequences of calls.                                                     *)

Calls == [op : {"val", "{", "}", "[", "]"}] \cup [op : {"key"}, name : Names]
            \cup [op : {"may"}, crash : {"no", "workers", "join"}]

\* The keys of a document without the errors, and those before the end time.
Early == Names \ {"errors", "end_time"}
Late == Names \ {"end_time"}

Writing(X) ==
    {v \in Writers : \E c \in Contexts(X), K \in SUBSET X :
                        v \in InObject(c, K) \/ v \in AfterKey(c, K) \/ v \in InList(c)}
Good == Unopened \cup Writing(Names) \cup Filled(Outer)

\* The call takes the writer from A to B; a call that may fail leaves it alone,
\* and the errors are not written yet.
Steps(call, A, B) ==
    /\ call \in Calls /\ A \subseteq Good /\ B \subseteq Good
    /\ \A v \in A : IF call.op = "may" THEN v \in B /\ v \in Writing(Early) ELSE Call(v, call) \in B
\* F[i] is where the writer is before the i-th call.
Follows(F, s, A, B) ==
    /\ F \in [1 .. Len(s) + 1 -> SUBSET Good]
    /\ A \subseteq F[1] /\ F[Len(s) + 1] \subseteq B
    /\ \A i \in 1 .. Len(s) : Steps(s[i], F[i], F[i + 1])
Leads(s, A, B) == s \in Seq(Calls) /\ B \subseteq Good /\ \E F : Follows(F, s, A, B)

LEMMA LeadsOne ==
    ASSUME NEW call, NEW A, NEW B, Steps(call, A, B)
    PROVE  Leads(<<call>>, A, B)
<1> DEFINE F == [i \in 1 .. 2 |-> IF i = 1 THEN A ELSE B]
<1>1. call \in Calls /\ A \subseteq Good /\ B \subseteq Good
  BY DEF Steps
<1>2. <<call>> \in Seq(Calls) /\ Len(<<call>>) = 1 /\ <<call>>[1] = call
  BY <1>1
<1>3. F \in [1 .. 1 + 1 -> SUBSET Good] /\ F[1] = A /\ F[1 + 1] = B
  BY <1>1
<1> HIDE DEF F
<1>4. Follows(F, <<call>>, A, B)
  BY <1>2, <1>3 DEF Follows
<1> QED
  BY <1>1, <1>2, <1>4 DEF Leads

LEMMA LeadsNowhere ==
    ASSUME NEW A \in SUBSET Good
    PROVE  Leads(<<>>, A, A)
<1> DEFINE F == [i \in 1 .. 1 |-> A]
<1>1. <<>> \in Seq(Calls) /\ Len(<<>>) = 0
  OBVIOUS
<1>2. F \in [1 .. 0 + 1 -> SUBSET Good] /\ F[1] = A /\ F[0 + 1] = A
  OBVIOUS
<1> HIDE DEF F
<1>3. Follows(F, <<>>, A, A)
  BY <1>1, <1>2 DEF Follows
<1> QED
  BY <1>1, <1>3 DEF Leads

LEMMA LeadsJoin ==
    ASSUME NEW s, NEW t, NEW A, NEW B, NEW C2, Leads(s, A, B), Leads(t, B, C2)
    PROVE  Leads(s \o t, A, C2)
<1> DEFINE m == Len(s)
           n == Len(t)
           u == s \o t
<1>1. s \in Seq(Calls) /\ t \in Seq(Calls) /\ C2 \subseteq Good
  BY DEF Leads
<1>2. m \in Nat /\ n \in Nat
  BY <1>1
<1>3. /\ u \in Seq(Calls) /\ Len(u) = m + n
      /\ \A i \in 1 .. m + n : u[i] = IF i <= m THEN s[i] ELSE t[i - m]
  BY <1>1, ConcatProperties
<1>4. PICK F : Follows(F, s, A, B)
  BY DEF Leads
<1>5. PICK G : Follows(G, t, B, C2)
  BY DEF Leads
<1> DEFINE H == [i \in 1 .. (m + n) + 1 |-> IF i <= m THEN F[i] ELSE G[i - m]]
<1>6. /\ F \in [1 .. m + 1 -> SUBSET Good] /\ A \subseteq F[1] /\ F[m + 1] \subseteq B
      /\ \A i \in 1 .. m : Steps(s[i], F[i], F[i + 1])
  BY <1>4 DEF Follows
<1>7. /\ G \in [1 .. n + 1 -> SUBSET Good] /\ B \subseteq G[1] /\ G[n + 1] \subseteq C2
      /\ \A i \in 1 .. n : Steps(t[i], G[i], G[i + 1])
  BY <1>5 DEF Follows
<1> HIDE DEF m, n, u
<1>8. H \in [1 .. (m + n) + 1 -> SUBSET Good]
  <2>1. ASSUME NEW i \in 1 .. (m + n) + 1 PROVE (IF i <= m THEN F[i] ELSE G[i - m]) \in SUBSET Good
    <3>1. CASE i <= m
      BY <3>1, <1>2, <1>6
    <3>2. CASE i > m
      <4>1. i - m \in 1 .. n + 1
        BY <3>2, <1>2
      <4> QED
        BY <4>1, <3>2, <1>2, <1>7
    <3> QED
      BY <3>1, <3>2, <1>2
  <2> QED
    BY <2>1
<1>9. A \subseteq H[1]
  <2>1. CASE m = 0
    <3>1. H[1] = G[1]
      BY <2>1, <1>2
    <3>2. m + 1 = 1
      BY <2>1
    <3>3. F[1] \subseteq B
      BY <3>2, <1>6
    <3> QED
      BY <3>1, <3>3, <1>6, <1>7
  <2>2. CASE m > 0
    <3>1. H[1] = F[1]
      BY <2>2, <1>2
    <3> QED
      BY <3>1, <1>6
  <2> QED
    BY <2>1, <2>2, <1>2
<1>10. H[(m + n) + 1] \subseteq C2
  <2>1. H[(m + n) + 1] = G[n + 1]
    BY <1>2
  <2> QED
    BY <2>1, <1>7
<1>11. ASSUME NEW i \in 1 .. m + n PROVE Steps(u[i], H[i], H[i + 1])
  <2>1. CASE i < m
    <3>1. H[i] = F[i] /\ H[i + 1] = F[i + 1] /\ u[i] = s[i]
      BY <2>1, <1>2, <1>3
    <3>2. Steps(s[i], F[i], F[i + 1])
      BY <2>1, <1>2, <1>6
    <3> QED
      BY <3>1, <3>2
  <2>2. CASE i = m
    <3>1. H[i] = F[m] /\ H[i + 1] = G[1] /\ u[i] = s[m] /\ m \in 1 .. m
      BY <2>2, <1>2, <1>3
    <3>2. Steps(s[m], F[m], F[m + 1]) /\ F[m + 1] \subseteq G[1] /\ G[1] \subseteq Good
      BY <3>1, <1>2, <1>6, <1>7
    <3> HIDE DEF H
    <3>3. Steps(s[m], F[m], G[1])
      BY <3>2 DEF Steps
    <3> QED
      BY <3>1, <3>3
  <2>3. CASE i > m
    <3>1. i - m \in 1 .. n /\ (i + 1) - m = (i - m) + 1
      BY <2>3, <1>2
    <3>2. H[i] = G[i - m] /\ H[i + 1] = G[(i - m) + 1] /\ u[i] = t[i - m]
      BY <2>3, <3>1, <1>2, <1>3
    <3> HIDE DEF H
    <3> QED
      BY <3>1, <3>2, <1>7
  <2> QED
    BY <2>1, <2>2, <2>3, <1>2
<1>12. Follows(H, u, A, C2)
  <2> HIDE DEF H
  <2> QED
    BY <1>3, <1>8, <1>9, <1>10, <1>11 DEF Follows, m, n
<1> QED
  BY <1>1, <1>3, <1>12 DEF Leads, u

\* What may be weakened.
LEMMA LeadsWeaker ==
    ASSUME NEW s, NEW A, NEW B, Leads(s, A, B), NEW A2 \in SUBSET A, NEW B2 \in SUBSET Good,
           B \subseteq B2
    PROVE  Leads(s, A2, B2)
<1>1. PICK F : Follows(F, s, A, B)
  BY DEF Leads
<1>2. Follows(F, s, A2, B2)
  BY <1>1 DEF Follows
<1> QED
  BY <1>2 DEF Leads

\* What leads nowhere any number of times.
LEMMA LeadsTimes ==
    ASSUME NEW s, NEW A, Leads(s, A, A), NEW n \in Nat
    PROVE  Leads(Times(n, s), A, A)
<1> DEFINE f == [i \in 1 .. n |-> s]
<1>1. s \in Seq(Calls) /\ A \in SUBSET Good
  BY DEF Leads
<1>2. f \in Seq(Seq(Calls)) /\ Len(f) = n /\ \A i \in 1 .. n : f[i] = s
  BY <1>1
<1>3. Times(n, s) = FlattenSeq(f)
  BY DEF Times
<1> HIDE DEF f
<1>4. CASE n = 0
  <2>1. f = <<>> /\ FlattenSeq(f) = <<>>
    BY <1>2, <1>4 DEF FlattenSeq
  <2> QED
    BY <2>1, <1>1, <1>3, LeadsNowhere
<1>5. CASE n # 0
  <2> DEFINE G == {x \in Nat \X Seq(Calls) : Leads(x[2], A, A)}
  <2>1. f # <<>> /\ f[1] = s /\ <<1, s>> \in G
    BY <1>1, <1>2, <1>5
  <2>2. ASSUME NEW i \in 1 .. n - 1, NEW u \in Seq(Calls), <<i, u>> \in G
        PROVE  <<i + 1, u \o f[i + 1]>> \in G
    <3>1. Leads(u, A, A) /\ f[i + 1] = s
      BY <2>2, <1>2
    <3>2. Leads(u \o s, A, A)
      BY <3>1, LeadsJoin
    <3>3. u \o s \in Seq(Calls) /\ i + 1 \in Nat
      BY <3>2 DEF Leads
    <3> QED
      BY <3>1, <3>2, <3>3
  <2> HIDE DEF G
  <2>3. <<Len(f), FlattenSeq(f)>> \in G
    BY <1>2, <2>1, <2>2, FlattenInduction
  <2> QED
    BY <2>3, <1>3 DEF G
<1> QED
  BY <1>4, <1>5

-----------------------------------------------------------------------------
(* Values, elements of lists and fields of objects, wherever they are.     *)

IsValue(s, X) ==
    s \in Seq(Calls) /\ \A c \in Contexts(X), A, B \in SUBSET Good :
        A \subseteq Awaiting(c) /\ Filled(c) \subseteq B => Leads(s, A, B)
Elements(s, X) == \A c \in Contexts(X) : Leads(s, InList(c), InList(c))
\* Fields with the keys L, none of them twice.
AddsKeys(s, L, X) ==
    L \in SUBSET X /\ \A c \in Contexts(X), K \in SUBSET X :
        K \cap L = {} => Leads(s, InObject(c, K), InObject(c, K \cup L))

\* Contexts with fewer names are contexts, and all their places are good.
LEMMA PlacesAreGood ==
    ASSUME NEW X \in SUBSET Names, NEW c \in Contexts(X), NEW K \in SUBSET X
    PROVE  /\ c \in Contexts(Names) /\ K \in SUBSET Names
           /\ InObject(c, K) \subseteq Writing(X) /\ AfterKey(c, K) \subseteq Writing(X)
           /\ InList(c) \subseteq Writing(X)
           /\ InObject(c, K) \subseteq Good /\ AfterKey(c, K) \subseteq Good /\ InList(c) \subseteq Good
<1>1. c \in Contexts(Names)
  <2>1. c \in [stack : Seq(States), open : Seq(Brackets), keys : Seq(SUBSET X)]
    BY DEF Contexts
  <2>2. c \in [stack : Seq(States), open : Seq(Brackets), keys : Seq(SUBSET Names)]
    BY <2>1, ContextFacts
  <2> QED
    BY <2>2, ContextFacts DEF Contexts
<1>2. /\ InObject(c, K) \subseteq Writers /\ AfterKey(c, K) \subseteq Writers
      /\ InList(c) \subseteq Writers
  BY DEF InObject, AfterKey, InList
<1>3. /\ InObject(c, K) \subseteq Writing(X) /\ AfterKey(c, K) \subseteq Writing(X)
      /\ InList(c) \subseteq Writing(X)
  BY <1>2 DEF Writing
<1>4. /\ InObject(c, K) \subseteq Writing(Names) /\ AfterKey(c, K) \subseteq Writing(Names)
      /\ InList(c) \subseteq Writing(Names)
  BY <1>1, <1>2 DEF Writing
<1> QED
  BY <1>1, <1>3, <1>4 DEF Good

LEMMA InsideIsLess ==
    ASSUME NEW X \in SUBSET Names, NEW c \in Contexts(X), NEW K \in SUBSET X
    PROVE  Inside(c, "{", K) \in Contexts(X) /\ Inside(c, "[", {}) \in Contexts(X)
  BY InsideIsContext, StateNames

LEMMA PlainCalls == \A op \in {"val", "{", "}", "[", "]"} : [op |-> op] \in Calls
  BY DEF Calls

LEMMA OneElement == ASSUME NEW S, NEW x \in S PROVE <<x>> \in Seq(S) /\ Len(<<x>>) = 1
  OBVIOUS

LEMMA PlainSequences == \A op \in {"val", "{", "}", "[", "]"} : C(op) \in Seq(Calls)
<1> SUFFICES ASSUME NEW op \in {"val", "{", "}", "[", "]"} PROVE C(op) \in Seq(Calls)
  OBVIOUS
<1> DEFINE call == [op |-> op]
<1>1. call \in Calls
  BY PlainCalls
<1> HIDE DEF call
<1>2. <<call>> \in Seq(Calls)
  BY <1>1, OneElement
<1> QED
  BY <1>2 DEF C, call

LEMMA Wrapped ==
    ASSUME NEW S, NEW a \in Seq(S), NEW s \in Seq(S), NEW b \in Seq(S)
    PROVE  a \o s \o b \in Seq(S)
  OBVIOUS

LEMMA KeysAreCalls ==
    ASSUME NEW X \in SUBSET Names, NEW s, NEW L, AddsKeys(s, L, X)
    PROVE  s \in Seq(Calls) /\ L \in SUBSET X
<1>1. {} \cap L = {} /\ {} \in SUBSET X /\ Outer \in Contexts(X)
  BY OuterIsContext
<1>2. Leads(s, InObject(Outer, {}), InObject(Outer, {} \cup L))
  BY <1>1 DEF AddsKeys
<1> QED
  BY <1>2 DEF Leads, AddsKeys

LEMMA ValIsValue ==
    ASSUME NEW X \in SUBSET Names
    PROVE  IsValue(C("val"), X)
<1>1. [op |-> "val"] \in Calls
  BY PlainCalls
<1>2. C("val") = <<[op |-> "val"]>> /\ C("val") \in Seq(Calls)
  BY <1>1 DEF C
<1>3. ASSUME NEW c \in Contexts(X), NEW A \in SUBSET Good, NEW B \in SUBSET Good,
             A \subseteq Awaiting(c), Filled(c) \subseteq B
      PROVE  Leads(C("val"), A, B)
  <2>1. c \in Contexts(Names)
    BY PlacesAreGood
  <2>2. \A v \in A : jsonVal(v) \in B
    BY <1>3, <2>1, ValueCall
  <2>3. Steps([op |-> "val"], A, B)
    BY <1>1, <2>2 DEF Steps, Call
  <2> QED
    BY <1>2, <2>3, LeadsOne
<1> QED
  BY <1>2, <1>3 DEF IsValue

LEMMA ObjectIsValue ==
    ASSUME NEW X \in SUBSET Names, NEW s, NEW L, AddsKeys(s, L, X)
    PROVE  IsValue(Object(s), X)
<1>1. [op |-> "{"] \in Calls /\ [op |-> "}"] \in Calls
  BY PlainCalls
<1>2. L \in SUBSET X /\ {} \in SUBSET X /\ {} \cap L = {} /\ {} \cup L = L
  BY DEF AddsKeys
<1>3. ASSUME NEW c \in Contexts(X), NEW A \in SUBSET Good, NEW B \in SUBSET Good,
             A \subseteq Awaiting(c), Filled(c) \subseteq B
      PROVE  Leads(Object(s), A, B)
  <2>1. /\ c \in Contexts(Names) /\ InObject(c, {}) \subseteq Good /\ InObject(c, L) \subseteq Good
        /\ L \in SUBSET Names
    BY <1>2, PlacesAreGood
  <2>2. \A v \in A : jsonStartObject(v) \in InObject(c, {})
    BY <1>3, <2>1, StartObjectCall
  <2>3. Steps([op |-> "{"], A, InObject(c, {}))
    BY <1>1, <2>1, <2>2 DEF Steps, Call
  <2>4. \A v \in InObject(c, L) : jsonFinishObject(v) \in B
    BY <1>3, <2>1, FinishObjectCall
  <2>5. Steps([op |-> "}"], InObject(c, L), B)
    BY <1>1, <2>1, <2>4 DEF Steps, Call
  <2>6. Leads(C("{"), A, InObject(c, {}))
    BY <2>3, LeadsOne DEF C
  <2>7. Leads(C("}"), InObject(c, L), B)
    BY <2>5, LeadsOne DEF C
  <2>8. Leads(s, InObject(c, {}), InObject(c, L))
    BY <1>2 DEF AddsKeys
  <2>9. Leads(C("{") \o s, A, InObject(c, L))
    BY <2>6, <2>8, LeadsJoin
  <2> QED
    BY <2>7, <2>9, LeadsJoin DEF Object
<1>4. Object(s) \in Seq(Calls)
  BY KeysAreCalls, PlainSequences, Wrapped DEF Object
<1> QED
  BY <1>3, <1>4 DEF IsValue

LEMMA ListIsValue ==
    ASSUME NEW X \in SUBSET Names, NEW s, Elements(s, X)
    PROVE  IsValue(List(s), X)
<1>1. [op |-> "["] \in Calls /\ [op |-> "]"] \in Calls
  BY PlainCalls
<1>2. ASSUME NEW c \in Contexts(X), NEW A \in SUBSET Good, NEW B \in SUBSET Good,
             A \subseteq Awaiting(c), Filled(c) \subseteq B
      PROVE  Leads(List(s), A, B)
  <2>1. c \in Contexts(Names) /\ InList(c) \subseteq Good
    BY PlacesAreGood
  <2>2. \A v \in A : jsonStartList(v) \in InList(c)
    BY <1>2, <2>1, StartListCall
  <2>3. Steps([op |-> "["], A, InList(c))
    BY <1>1, <2>1, <2>2 DEF Steps, Call
  <2>4. \A v \in InList(c) : jsonFinishList(v) \in B
    BY <1>2, <2>1, FinishListCall
  <2>5. Steps([op |-> "]"], InList(c), B)
    BY <1>1, <2>1, <2>4 DEF Steps, Call
  <2>6. Leads(C("["), A, InList(c))
    BY <2>3, LeadsOne DEF C
  <2>7. Leads(C("]"), InList(c), B)
    BY <2>5, LeadsOne DEF C
  <2>8. Leads(s, InList(c), InList(c))
    BY DEF Elements
  <2>9. Leads(C("[") \o s, A, InList(c))
    BY <2>6, <2>8, LeadsJoin
  <2> QED
    BY <2>7, <2>9, LeadsJoin DEF List
<1>3. List(s) \in Seq(Calls)
  <2>1. Leads(s, InList(Outer), InList(Outer))
    BY OuterIsContext DEF Elements
  <2>2. s \in Seq(Calls)
    BY <2>1 DEF Leads
  <2> QED
    BY <2>2, PlainSequences, Wrapped DEF List
<1> QED
  BY <1>2, <1>3 DEF IsValue

\* In a list a value is an element, and elements can follow one another.
LEMMA ValueIsElement ==
    ASSUME NEW X \in SUBSET Names, NEW s, IsValue(s, X)
    PROVE  Elements(s, X)
<1> SUFFICES ASSUME NEW c \in Contexts(X) PROVE Leads(s, InList(c), InList(c))
  BY DEF Elements
<1> DEFINE d == Inside(c, "[", {})
<1>1. /\ c \in Contexts(Names) /\ d \in Contexts(X) /\ InList(c) \in SUBSET Good
      /\ {} \in SUBSET Names
  BY PlacesAreGood, InsideIsLess
<1>2. InList(c) \subseteq Awaiting(d)
  <2>1. InList(c) \subseteq Writers
    BY DEF InList
  <2> QED
    BY <2>1, <1>1, HelperInList DEF Awaiting
<1>3. Filled(d) \subseteq InList(c)
  BY <1>1, FilledPlaces
<1> HIDE DEF d
<1> QED
  BY <1>1, <1>2, <1>3 DEF IsValue

LEMMA TimesElements ==
    ASSUME NEW X \in SUBSET Names, NEW s, Elements(s, X), NEW n \in Nat
    PROVE  Elements(Times(n, s), X)
  BY LeadsTimes DEF Elements

LEMMA NoElements == ASSUME NEW X \in SUBSET Names PROVE Elements(<<>>, X)
<1>1. \A c \in Contexts(X) : InList(c) \in SUBSET Good
  BY PlacesAreGood
<1> QED
  BY <1>1, LeadsNowhere DEF Elements

LEMMA KeyLeads ==
    ASSUME NEW X \in SUBSET Names, NEW c \in Contexts(X), NEW K \in SUBSET X, NEW name \in X \ K
    PROVE  Leads(Key(name), InObject(c, K), AfterKey(c, K \cup {name}))
<1> DEFINE call == [op |-> "key", name |-> name]
           L == K \cup {name}
<1>1. call \in Calls
  BY DEF Calls
<1>2. /\ c \in Contexts(Names) /\ InObject(c, K) \subseteq Good /\ AfterKey(c, L) \subseteq Good
      /\ K \in SUBSET Names /\ name \in Names \ K
  BY PlacesAreGood
<1>3. \A v \in InObject(c, K) : jsonKey(v, name) \in AfterKey(c, L)
  BY <1>2, KeyCall
<1>4. \A v \in InObject(c, K) : Call(v, call) = jsonKey(v, name)
  BY DEF Call
<1>5. call.op # "may"
  OBVIOUS
<1> HIDE DEF call, L
<1>6. Steps(call, InObject(c, K), AfterKey(c, L))
  BY <1>1, <1>2, <1>3, <1>4, <1>5 DEF Steps
<1> QED
  BY <1>6, LeadsOne DEF Key, call, L

LEMMA KeyedValue ==
    ASSUME NEW X \in SUBSET Names, NEW s, IsValue(s, X), NEW name \in X
    PROVE  AddsKeys(Key(name) \o s, {name}, X)
<1> SUFFICES ASSUME NEW c \in Contexts(X), NEW K \in SUBSET X, K \cap {name} = {}
             PROVE  Leads(Key(name) \o s, InObject(c, K), InObject(c, K \cup {name}))
  BY DEF AddsKeys
<1> DEFINE L == K \cup {name}
           d == Inside(c, "{", L)
<1>1. /\ c \in Contexts(Names) /\ L \in SUBSET X /\ L \in SUBSET Names
      /\ AfterKey(c, L) \in SUBSET Good /\ InObject(c, L) \in SUBSET Good
  BY PlacesAreGood
<1>2. d \in Contexts(X)
  BY <1>1, InsideIsLess
<1>3. AfterKey(c, L) \subseteq Awaiting(d)
  <2>1. AfterKey(c, L) \subseteq Writers
    BY DEF AfterKey
  <2> HIDE DEF L
  <2> QED
    BY <2>1, <1>1, HelperAfterKey DEF Awaiting
<1>4. Filled(d) \subseteq InObject(c, L)
  BY <1>1, FilledPlaces
<1>5. Leads(s, AfterKey(c, L), InObject(c, L))
  <2> HIDE DEF d, L
  <2> QED
    BY <1>1, <1>2, <1>3, <1>4 DEF IsValue
<1>6. Leads(Key(name), InObject(c, K), AfterKey(c, L))
  BY KeyLeads
<1> QED
  BY <1>5, <1>6, LeadsJoin

LEMMA FieldAdds ==
    ASSUME NEW X \in SUBSET Names, NEW name \in X
    PROVE  AddsKeys(Field(name), {name}, X)
  BY ValIsValue, KeyedValue DEF Field

LEMMA JoinKeys ==
    ASSUME NEW X \in SUBSET Names, NEW s, NEW t, NEW L, NEW M, AddsKeys(s, L, X),
           AddsKeys(t, M, X), L \cap M = {}
    PROVE  AddsKeys(s \o t, L \cup M, X)
<1>1. L \in SUBSET X /\ M \in SUBSET X
  BY DEF AddsKeys
<1>2. ASSUME NEW c \in Contexts(X), NEW K \in SUBSET X, K \cap (L \cup M) = {}
      PROVE  Leads(s \o t, InObject(c, K), InObject(c, K \cup (L \cup M)))
  <2>1. K \cap L = {} /\ (K \cup L) \cap M = {} /\ K \cup L \in SUBSET X
    BY <1>1, <1>2
  <2>2. Leads(s, InObject(c, K), InObject(c, K \cup L))
    BY <2>1 DEF AddsKeys
  <2>3. Leads(t, InObject(c, K \cup L), InObject(c, (K \cup L) \cup M))
    BY <2>1 DEF AddsKeys
  <2>4. (K \cup L) \cup M = K \cup (L \cup M)
    OBVIOUS
  <2> QED
    BY <2>2, <2>3, <2>4, LeadsJoin
<1> QED
  BY <1>1, <1>2 DEF AddsKeys

LEMMA NoKeys == ASSUME NEW X \in SUBSET Names PROVE AddsKeys(<<>>, {}, X)
<1> SUFFICES ASSUME NEW c \in Contexts(X), NEW K \in SUBSET X
             PROVE  Leads(<<>>, InObject(c, K), InObject(c, K \cup {}))
  BY DEF AddsKeys
<1>1. K \cup {} = K /\ InObject(c, K) \in SUBSET Good
  BY PlacesAreGood
<1> QED
  BY <1>1, LeadsNowhere

\* Several fields with single values.
Distinct(names) == \A i, j \in DOMAIN names : names[i] = names[j] => i = j
KeysOf(names) == {names[i] : i \in DOMAIN names}
LEMMA FieldsAdd ==
    ASSUME NEW X \in SUBSET Names, NEW names \in Seq(X), names # <<>>, Distinct(names)
    PROVE  AddsKeys(Fields(names), KeysOf(names), X)
<1> DEFINE n == Len(names)
           f == [i \in 1 .. n |-> Field(names[i])]
           First(i) == {names[j] : j \in 1 .. i}
<1>1. n \in Nat \ {0} /\ DOMAIN names = 1 .. n /\ \A i \in 1 .. n : names[i] \in X
  OBVIOUS
<1>2. \A i \in 1 .. n : AddsKeys(Field(names[i]), {names[i]}, X) /\ Field(names[i]) \in Seq(Calls)
  <2>1. ASSUME NEW i \in 1 .. n PROVE AddsKeys(Field(names[i]), {names[i]}, X)
    BY <1>1, FieldAdds
  <2> QED
    BY <2>1, KeysAreCalls
<1>3. f \in Seq(Seq(Calls)) /\ Len(f) = n /\ f # <<>> /\ \A i \in 1 .. n : f[i] = Field(names[i])
  <2> HIDE DEF n
  <2>1. f \in [1 .. n -> Seq(Calls)] /\ \A i \in 1 .. n : f[i] = Field(names[i])
    BY <1>2
  <2> HIDE DEF f
  <2>2. f \in Seq(Seq(Calls)) /\ Len(f) = n
    BY <2>1, <1>1, FunctionsAreSequences
  <2>3. f # <<>>
    BY <2>2, <1>1
  <2> QED
    BY <2>1, <2>2, <2>3
<1> DEFINE G == {x \in (1 .. n) \X Seq(Calls) : AddsKeys(x[2], First(x[1]), X)}
<1>4. <<1, f[1]>> \in G
  <2>1. First(1) = {names[1]} /\ 1 \in 1 .. n
    BY <1>1
  <2> HIDE DEF First, f
  <2> QED
    BY <2>1, <1>2, <1>3
<1>5. ASSUME NEW i \in 1 .. n - 1, NEW u \in Seq(Calls), <<i, u>> \in G
      PROVE  <<i + 1, u \o f[i + 1]>> \in G
  <2>1. /\ i + 1 \in 1 .. n /\ First(i + 1) = First(i) \cup {names[i + 1]}
        /\ First(i) \cap {names[i + 1]} = {}
    BY <1>1 DEF Distinct
  <2>2. AddsKeys(u, First(i), X) /\ AddsKeys(f[i + 1], {names[i + 1]}, X) /\ f[i + 1] \in Seq(Calls)
    BY <1>2, <1>3, <1>5, <2>1
  <2> DEFINE v == f[i + 1]
  <2> HIDE DEF First, f
  <2>3. AddsKeys(u \o v, First(i + 1), X)
    BY <2>1, <2>2, JoinKeys
  <2>4. u \o v \in Seq(Calls)
    BY <2>2
  <2> HIDE DEF v
  <2> QED
    BY <2>1, <2>3, <2>4 DEF v
<1> HIDE DEF G, f
<1>6. <<n, FlattenSeq(f)>> \in G
  BY <1>3, <1>4, <1>5, FlattenInduction
<1>7. Fields(names) = FlattenSeq(f) /\ First(n) = KeysOf(names)
  BY <1>1 DEF Fields, f, KeysOf
<1> QED
  BY <1>6, <1>7 DEF G

-----------------------------------------------------------------------------
(* What is written one after the other.                                    *)

LEMMA EarlyAndLate == Early \in SUBSET Names /\ Late \in SUBSET Names /\ Early \subseteq Late
  BY DEF Early, Late

LEMMA LeadsKeys ==
    ASSUME NEW X \in SUBSET Names, NEW c \in Contexts(X), NEW K \in SUBSET X, NEW A, NEW s,
           Leads(s, A, InObject(c, K)), NEW t, NEW L, AddsKeys(t, L, X), K \cap L = {}
    PROVE  Leads(s \o t, A, InObject(c, K \cup L))
<1>1. Leads(t, InObject(c, K), InObject(c, K \cup L))
  BY DEF AddsKeys
<1> QED
  BY <1>1, LeadsJoin

LEMMA ValueAfterKey ==
    ASSUME NEW X \in SUBSET Names, NEW c \in Contexts(X), NEW K \in SUBSET X, NEW s, IsValue(s, X)
    PROVE  Leads(s, AfterKey(c, K), InObject(c, K))
<1> DEFINE d == Inside(c, "{", K)
<1>1. /\ c \in Contexts(Names) /\ K \in SUBSET Names
      /\ AfterKey(c, K) \in SUBSET Good /\ InObject(c, K) \in SUBSET Good
  BY PlacesAreGood
<1>2. d \in Contexts(X)
  BY InsideIsLess
<1>3. AfterKey(c, K) \subseteq Awaiting(d)
  <2>1. AfterKey(c, K) \subseteq Writers
    BY DEF AfterKey
  <2> QED
    BY <2>1, <1>1, HelperAfterKey DEF Awaiting
<1>4. Filled(d) \subseteq InObject(c, K)
  BY <1>1, FilledPlaces
<1> HIDE DEF d
<1> QED
  BY <1>1, <1>2, <1>3, <1>4 DEF IsValue

LEMMA LeadsKeyed ==
    ASSUME NEW X \in SUBSET Names, NEW c \in Contexts(X), NEW K \in SUBSET X, NEW A, NEW s,
           Leads(s, A, InObject(c, K)), NEW name \in X \ K, NEW t, IsValue(t, X)
    PROVE  Leads(s \o Key(name) \o t, A, InObject(c, K \cup {name}))
<1> DEFINE L == K \cup {name}
<1>1. Leads(s \o Key(name), A, AfterKey(c, L))
  BY KeyLeads, LeadsJoin
<1>2. L \in SUBSET X
  OBVIOUS
<1> HIDE DEF L
<1>3. Leads(t, AfterKey(c, L), InObject(c, L))
  BY <1>2, ValueAfterKey
<1>4. Leads(s \o Key(name) \o t, A, InObject(c, L))
  BY <1>1, <1>3, LeadsJoin
<1> QED
  BY <1>4 DEF L

LEMMA JoinKeyed ==
    ASSUME NEW X \in SUBSET Names, NEW s, NEW L, AddsKeys(s, L, X), NEW name \in X \ L,
           NEW t, IsValue(t, X)
    PROVE  AddsKeys(s \o Key(name) \o t, L \cup {name}, X)
<1>1. L \in SUBSET X
  BY DEF AddsKeys
<1>2. ASSUME NEW c \in Contexts(X), NEW K \in SUBSET X, K \cap (L \cup {name}) = {}
      PROVE  Leads(s \o Key(name) \o t, InObject(c, K), InObject(c, K \cup (L \cup {name})))
  <2> DEFINE M == K \cup L
  <2>1. K \cap L = {} /\ M \in SUBSET X /\ name \in X \ M /\ M \cup {name} = K \cup (L \cup {name})
    BY <1>1, <1>2
  <2>2. Leads(s, InObject(c, K), InObject(c, M))
    BY <2>1 DEF AddsKeys
  <2> HIDE DEF M
  <2>3. Leads(s \o Key(name) \o t, InObject(c, K), InObject(c, M \cup {name}))
    BY <2>1, <2>2, LeadsKeyed
  <2> QED
    BY <2>1, <2>3
<1> QED
  BY <1>1, <1>2 DEF AddsKeys

LEMMA WhenAdds ==
    ASSUME NEW X \in SUBSET Names, NEW s, NEW L, AddsKeys(s, L, X), NEW cond \in BOOLEAN
    PROVE  AddsKeys(When(cond, s), IF cond THEN L ELSE {}, X)
  BY NoKeys DEF When

\* A call that may fail, anywhere before the errors are written.
LEMMA MayLeads ==
    ASSUME NEW A \in SUBSET Good, A \subseteq Writing(Early), NEW crash \in {"no", "workers", "join"}
    PROVE  Leads(May(crash), A, A)
<1> DEFINE call == [op |-> "may", crash |-> crash]
<1>1. call \in Calls /\ call.op = "may"
  BY DEF Calls
<1> HIDE DEF call
<1>2. Steps(call, A, A)
  BY <1>1 DEF Steps
<1> QED
  BY <1>2, LeadsOne DEF May, call

LEMMA MayAdds ==
    ASSUME NEW crash \in {"no", "workers", "join"}
    PROVE  AddsKeys(May(crash), {}, Early)
<1> SUFFICES ASSUME NEW c \in Contexts(Early), NEW K \in SUBSET Early
             PROVE  Leads(May(crash), InObject(c, K), InObject(c, K \cup {}))
  BY DEF AddsKeys
<1>1. InObject(c, K) \in SUBSET Good /\ InObject(c, K) \subseteq Writing(Early) /\ K \cup {} = K
  BY PlacesAreGood, EarlyAndLate
<1> QED
  BY <1>1, MayLeads

-----------------------------------------------------------------------------
(* The report functions.                                                   *)

\* A list of single values.
LEMMA ValuesAreList ==
    ASSUME NEW X \in SUBSET Names, NEW n \in Nat
    PROVE  IsValue(List(Times(n, C("val"))), X)
  BY ValIsValue, ValueIsElement, TimesElements, ListIsValue

LEMMA FieldsAddEarly ==
    ASSUME NEW names \in Seq(Early), names # <<>>, Distinct(names)
    PROVE  AddsKeys(Fields(names), KeysOf(names), Early)
  BY FieldsAdd, EarlyAndLate

RankInfoKeys == {"rank", "group", "pid", "hostname", "device", "device_hex", "device_info"}
LEMMA RankInfoIsValue == IsValue(jsonRankInfo, Early)
<1> DEFINE names == <<"rank", "group", "pid", "hostname", "device", "device_hex", "device_info">>
<1>1. names \in Seq(Early) /\ names # <<>> /\ Distinct(names)
  BY DEF Early, Names, Distinct
<1> HIDE DEF names
<1>2. AddsKeys(Fields(names), KeysOf(names), Early)
  BY <1>1, FieldsAddEarly
<1> QED
  BY <1>2, ObjectIsValue, EarlyAndLate DEF jsonRankInfo, names

LEMMA DeviceReportAdds ==
    ASSUME NEW a, a.procs \in Nat, a.factor \in BOOLEAN
    PROVE  AddsKeys(writeDeviceReport(a), {"config"}, Early)
<1> DEFINE step == IF a.factor THEN "step_factor" ELSE "step_bytes"
           names == <<"nthreads", "ngpus", "minimum_bytes", "maximum_bytes", step,
                      "warmup_iters", "iterations", "aggregated_iterations",
                      "validation", "graph", "blocking_collectives",
                      "per_iter_timing", "per_iter_skip", "parallel_init">>
           devices == List(Times(a.procs, jsonRankInfo))
<1>1. step \in {"step_factor", "step_bytes"}
  OBVIOUS
<1> HIDE DEF step
<1>2. names \in Seq(Early) /\ names # <<>> /\ Distinct(names) /\ "devices" \notin KeysOf(names)
  <2>1. names \in Seq(Early) /\ names # <<>>
    BY <1>1 DEF Early, Names
  <2>2. Distinct(names)
    BY <1>1 DEF Distinct
  <2>3. "devices" \notin KeysOf(names)
    BY <1>1 DEF KeysOf
  <2> QED
    BY <2>1, <2>2, <2>3
<1> HIDE DEF names
<1> DEFINE L == KeysOf(names)
           s == Fields(names)
<1>3. AddsKeys(s, L, Early) /\ "devices" \notin L
  BY <1>2, FieldsAddEarly
<1> HIDE DEF L, s
<1>4. AddsKeys(s \o May("no"), L, Early)
  <2>1. AddsKeys(s \o May("no"), L \cup {}, Early)
    BY <1>3, MayAdds, JoinKeys, EarlyAndLate
  <2> QED
    BY <2>1
<1>5. IsValue(devices, Early)
  BY RankInfoIsValue, ValueIsElement, TimesElements, ListIsValue, EarlyAndLate
<1>6. "devices" \in Early \ L /\ "config" \in Early
  BY <1>3 DEF Early, Names
<1> HIDE DEF devices
<1> DEFINE u == s \o May("no")
<1> HIDE DEF u
<1>7. AddsKeys(u \o Key("devices") \o devices, L \cup {"devices"}, Early)
  BY <1>4, <1>5, <1>6, JoinKeyed, EarlyAndLate DEF u
<1>8. IsValue(Object(u \o Key("devices") \o devices), Early)
  BY <1>7, ObjectIsValue, EarlyAndLate
<1>9. AddsKeys(Key("config") \o Object(u \o Key("devices") \o devices), {"config"}, Early)
  BY <1>6, <1>8, KeyedValue, EarlyAndLate
<1> QED
  BY <1>9 DEF writeDeviceReport, u, s, names, step, devices

\* The keys of one test of a message size.
BodyKeys(out_of_place) == {IF out_of_place THEN "out_of_place" ELSE "in_place"}
PerIterKeys(out_of_place) == {IF out_of_place THEN "out_of_place_per_iter" ELSE "in_place_per_iter"}

LEMMA BodyAdds ==
    ASSUME NEW a, a.cputime \in BOOLEAN, NEW out_of_place \in BOOLEAN
    PROVE  AddsKeys(writeBenchmarkLineBody(a, out_of_place), BodyKeys(out_of_place), Early)
<1> DEFINE time == IF a.cputime THEN "cpu_time" ELSE "time"
           name == IF out_of_place THEN "out_of_place" ELSE "in_place"
           names == <<time, "alg_bw", "bus_bw", "nwrong">>
<1>1. time \in {"cpu_time", "time"} /\ name \in Early
  BY DEF Early, Names
<1> HIDE DEF time, name
<1>2. names \in Seq(Early) /\ names # <<>> /\ Distinct(names)
  BY <1>1 DEF Early, Names, Distinct
<1> HIDE DEF names
<1>3. AddsKeys(Fields(names), KeysOf(names), Early)
  BY <1>2, FieldsAddEarly
<1>4. AddsKeys(Key(name) \o Object(Fields(names)), {name}, Early)
  BY <1>1, <1>3, ObjectIsValue, KeyedValue, EarlyAndLate
<1> QED
  BY <1>4 DEF writeBenchmarkLineBody, BodyKeys, name, names, time

LEMMA PerIterAdds ==
    ASSUME NEW a, a.procs \in Nat, a.iters \in Nat, NEW out_of_place \in BOOLEAN
    PROVE  AddsKeys(writePerIterReport(a, out_of_place), PerIterKeys(out_of_place), Early)
<1> DEFINE name == IF out_of_place THEN "out_of_place_per_iter" ELSE "in_place_per_iter"
           names == <<"skipped_iterations", "min_us", "max_us", "avg_us", "p50_us",
                      "p95_us", "p99_us", "stdev_us", "cv_pct">>
           times == List(Times(a.iters, C("val")))
           all == Key("per_process_max_times_us") \o List(Times(a.procs, times))
           many == a.procs > 1
<1>1. /\ name \in Early /\ "times_us" \in Early /\ "per_process_max_times_us" \in Early
      /\ many \in BOOLEAN
  BY DEF Early, Names
<1> HIDE DEF name, many
<1>2. /\ names \in Seq(Early) /\ names # <<>> /\ Distinct(names)
      /\ "times_us" \notin KeysOf(names) /\ "per_process_max_times_us" \notin KeysOf(names)
  <2>1. names \in Seq(Early) /\ names # <<>>
    BY DEF Early, Names
  <2>2. Distinct(names)
    BY DEF Distinct
  <2>3. "times_us" \notin KeysOf(names) /\ "per_process_max_times_us" \notin KeysOf(names)
    BY DEF KeysOf
  <2> QED
    BY <2>1, <2>2, <2>3
<1> HIDE DEF names
<1> DEFINE L == KeysOf(names)
           s == Fields(names)
<1>3. AddsKeys(s, L, Early) /\ "times_us" \notin L /\ "per_process_max_times_us" \notin L
  BY <1>2, FieldsAddEarly
<1>4. IsValue(times, Early)
  BY ValuesAreList, EarlyAndLate
<1> HIDE DEF L, s, times
<1>5. AddsKeys(s \o Key("times_us") \o times, L \cup {"times_us"}, Early)
  BY <1>1, <1>3, <1>4, JoinKeyed, EarlyAndLate
<1>6. AddsKeys(all, {"per_process_max_times_us"}, Early)
  BY <1>1, <1>4, ValueIsElement, TimesElements, ListIsValue, KeyedValue, EarlyAndLate
<1> DEFINE M == IF many THEN {"per_process_max_times_us"} ELSE {}
           u == s \o Key("times_us") \o times
           K == L \cup {"times_us"}
<1> HIDE DEF all
<1>7. AddsKeys(When(many, all), M, Early)
  BY <1>1, <1>6, WhenAdds, EarlyAndLate
<1>8. K \cap M = {}
  BY <1>3
<1> HIDE DEF M, u, K
<1>9. AddsKeys(u \o When(many, all), K \cup M, Early)
  BY <1>5, <1>7, <1>8, JoinKeys, EarlyAndLate DEF u, K
<1> DEFINE body == u \o When(many, all)
<1> HIDE DEF body
<1>10. AddsKeys(Key(name) \o Object(body), {name}, Early)
  BY <1>1, <1>9, ObjectIsValue, KeyedValue, EarlyAndLate DEF body
<1> QED
  BY <1>10 DEF writePerIterReport, PerIterKeys, body, u, s, names, times, all, many, name

LEMMA BenchTimeAdds ==
    ASSUME NEW a, a.procs \in Nat, a.iters \in Nat, a.cputime \in BOOLEAN, a.perIter \in BOOLEAN,
           NEW out_of_place \in BOOLEAN
    PROVE  \E L : /\ L \subseteq BodyKeys(out_of_place) \cup PerIterKeys(out_of_place)
                  /\ AddsKeys(BenchTime(a, out_of_place), L, Early)
<1> DEFINE may == May("workers")
           body == writeBenchmarkLineBody(a, out_of_place)
           report == When(a.perIter, writePerIterReport(a, out_of_place))
           K == BodyKeys(out_of_place)
           M == IF a.perIter THEN PerIterKeys(out_of_place) ELSE {}
<1>1. AddsKeys(may, {}, Early)
  BY MayAdds
<1>2. AddsKeys(body, K, Early)
  BY BodyAdds
<1>3. AddsKeys(report, M, Early)
  BY PerIterAdds, WhenAdds, EarlyAndLate
<1>4. K \cap M = {} /\ M \subseteq PerIterKeys(out_of_place)
  BY DEF BodyKeys, PerIterKeys
<1> HIDE DEF may, body, report, K, M
<1>5. AddsKeys(may \o body, {} \cup K, Early)
  BY <1>1, <1>2, JoinKeys, EarlyAndLate
<1>6. AddsKeys(may \o body, K, Early)
  BY <1>5
<1> DEFINE s == may \o body
<1> HIDE DEF s
<1>7. AddsKeys(s \o report, K \cup M, Early)
  BY <1>3, <1>4, <1>6, JoinKeys, EarlyAndLate DEF s
<1>8. BenchTime(a, out_of_place) = s \o report
  BY DEF BenchTime, s, may, body, report
<1>9. K \cup M \subseteq BodyKeys(out_of_place) \cup PerIterKeys(out_of_place)
  BY <1>4 DEF K
<1> QED
  BY <1>7, <1>8, <1>9

\* One line of the results is an element of their list.
LEMMA OpenObject ==
    ASSUME NEW c \in Contexts(Names), NEW A \in SUBSET Good, A \subseteq Awaiting(c)
    PROVE  Leads(C("{"), A, InObject(c, {}))
<1>1. [op |-> "{"] \in Calls /\ InObject(c, {}) \subseteq Good
  BY PlainCalls, PlacesAreGood
<1>2. \A v \in A : jsonStartObject(v) \in InObject(c, {})
  BY StartObjectCall
<1>3. Steps([op |-> "{"], A, InObject(c, {}))
  BY <1>1, <1>2 DEF Steps, Call
<1> QED
  BY <1>3, LeadsOne DEF C

LEMMA CloseObject ==
    ASSUME NEW c \in Contexts(Names), NEW K \in SUBSET Names, NEW B \in SUBSET Good, Filled(c) \subseteq B
    PROVE  Leads(C("}"), InObject(c, K), B)
<1>1. [op |-> "}"] \in Calls /\ InObject(c, K) \subseteq Good
  BY PlainCalls, PlacesAreGood
<1>2. \A v \in InObject(c, K) : jsonFinishObject(v) \in B
  BY FinishObjectCall
<1>3. Steps([op |-> "}"], InObject(c, K), B)
  BY <1>1, <1>2 DEF Steps, Call
<1> QED
  BY <1>3, LeadsOne DEF C

LineKeys == {"size", "count", "type", "redop", "root"}
LEMMA LineStarts ==
    ASSUME NEW c \in Contexts(Early)
    PROVE  Leads(writeBenchmarkLinePreamble, InList(c), InObject(Inside(c, "[", {}), LineKeys))
<1> DEFINE d == Inside(c, "[", {})
           names == <<"size", "count", "type", "redop", "root">>
<1>1. /\ c \in Contexts(Names) /\ InList(c) \in SUBSET Good /\ d \in Contexts(Early)
      /\ d \in Contexts(Names)
  BY PlacesAreGood, InsideIsLess, EarlyAndLate
<1>2. InList(c) \subseteq Awaiting(d)
  <2>1. InList(c) \subseteq Writers
    BY DEF InList
  <2> QED
    BY <2>1, <1>1, HelperInList DEF Awaiting
<1>3. names \in Seq(Early) /\ names # <<>> /\ Distinct(names) /\ KeysOf(names) = LineKeys
  <2>1. names \in Seq(Early) /\ names # <<>>
    BY DEF Early, Names
  <2>2. Distinct(names) /\ KeysOf(names) = LineKeys
    BY DEF Distinct, KeysOf, LineKeys
  <2> QED
    BY <2>1, <2>2
<1> HIDE DEF d, names
<1>4. Leads(C("{"), InList(c), InObject(d, {}))
  BY <1>1, <1>2, OpenObject
<1>5. AddsKeys(Fields(names), LineKeys, Early)
  BY <1>3, FieldsAddEarly
<1>6. Leads(C("{") \o Fields(names), InList(c), InObject(d, {} \cup LineKeys))
  BY <1>1, <1>4, <1>5, LeadsKeys, EarlyAndLate
<1>7. {} \cup LineKeys = LineKeys
  OBVIOUS
<1> QED
  BY <1>6, <1>7 DEF writeBenchmarkLinePreamble, names, d

TerminatorKeys == {"tuning", "actual_iterations", "experiment_name"}
LEMMA LineEnds ==
    ASSUME NEW a, a.tuning \in BOOLEAN, NEW c \in Contexts(Early), NEW K \in SUBSET Early,
           K \cap TerminatorKeys = {}
    PROVE  Leads(writeBenchmarkLineTerminator(a), InObject(Inside(c, "[", {}), K), InList(c))
<1> DEFINE d == Inside(c, "[", {})
           names == <<"implementation", "algo", "proto", "kernelVariant",
                      "syncStrategy", "#channels", "#warps", "netChunkSize">>
           last == <<"actual_iterations", "experiment_name">>
           tuning == Key("tuning") \o Object(Fields(names))
           M == IF a.tuning THEN {"tuning"} ELSE {}
           N == {"actual_iterations", "experiment_name"}
<1>1. /\ c \in Contexts(Names) /\ InList(c) \in SUBSET Good /\ d \in Contexts(Early)
      /\ d \in Contexts(Names) /\ "tuning" \in Early /\ {} \in SUBSET Names
  <2>1. d \in Contexts(Early)
    BY InsideIsLess, EarlyAndLate
  <2>2. "tuning" \in Early
    BY DEF Early, Names
  <2> HIDE DEF d
  <2> QED
    BY <2>1, <2>2, PlacesAreGood, EarlyAndLate
<1>2. names \in Seq(Early) /\ names # <<>> /\ Distinct(names)
  <2>1. names \in Seq(Early) /\ names # <<>>
    BY DEF Early, Names
  <2>2. Distinct(names)
    BY DEF Distinct
  <2> QED
    BY <2>1, <2>2
<1>3. last \in Seq(Early) /\ last # <<>> /\ Distinct(last) /\ KeysOf(last) = N
  <2>1. last \in Seq(Early) /\ last # <<>>
    BY DEF Early, Names
  <2>2. Distinct(last) /\ KeysOf(last) = N
    BY DEF Distinct, KeysOf
  <2> QED
    BY <2>1, <2>2
<1> HIDE DEF names, last
<1>4. AddsKeys(tuning, {"tuning"}, Early)
  BY <1>1, <1>2, FieldsAddEarly, ObjectIsValue, KeyedValue, EarlyAndLate
<1> HIDE DEF tuning
<1>5. AddsKeys(When(a.tuning, tuning), M, Early)
  BY <1>4, WhenAdds, EarlyAndLate
<1>6. AddsKeys(Fields(last), N, Early)
  BY <1>3, FieldsAddEarly
<1>7. K \cap M = {} /\ (K \cup M) \cap N = {} /\ M \subseteq Early /\ N \subseteq Early
  BY <1>1 DEF TerminatorKeys, Early, Names
<1> DEFINE t == When(a.tuning, tuning)
           u == Fields(last)
<1> HIDE DEF M, N, t, u
<1>8. AddsKeys(t \o u, M \cup N, Early)
  BY <1>5, <1>6, <1>7, JoinKeys, EarlyAndLate DEF t, u
<1>9. Leads(t \o u, InObject(d, K), InObject(d, K \cup (M \cup N)))
  <2>1. K \cap (M \cup N) = {}
    BY <1>7
  <2> HIDE DEF d
  <2> QED
    BY <2>1, <1>1, <1>8 DEF AddsKeys
<1>10. Filled(d) \subseteq InList(c)
  BY <1>1, FilledPlaces
<1>11. K \cup (M \cup N) \in SUBSET Names
  BY <1>7, EarlyAndLate
<1> HIDE DEF d
<1>12. Leads(C("}"), InObject(d, K \cup (M \cup N)), InList(c))
  BY <1>1, <1>10, <1>11, CloseObject
<1>13. Leads(t \o u \o C("}"), InObject(d, K), InList(c))
  BY <1>9, <1>12, LeadsJoin
<1>14. writeBenchmarkLineTerminator(a) = t \o u \o C("}")
  BY DEF writeBenchmarkLineTerminator, t, u, tuning, names, last
<1> QED
  BY <1>13, <1>14 DEF d

LEMMA LineIsElement ==
    ASSUME NEW a, a.procs \in Nat, a.iters \in Nat, a.cputime \in BOOLEAN, a.perIter \in BOOLEAN,
           a.tuning \in BOOLEAN
    PROVE  Elements(Line(a), Early)
<1> SUFFICES ASSUME NEW c \in Contexts(Early) PROVE Leads(Line(a), InList(c), InList(c))
  BY DEF Elements
<1> DEFINE d == Inside(c, "[", {})
<1>1. d \in Contexts(Early)
  BY InsideIsLess, EarlyAndLate
<1>2. PICK L : /\ L \subseteq BodyKeys(TRUE) \cup PerIterKeys(TRUE)
               /\ AddsKeys(BenchTime(a, TRUE), L, Early)
  BY BenchTimeAdds
<1>3. PICK M : /\ M \subseteq BodyKeys(FALSE) \cup PerIterKeys(FALSE)
               /\ AddsKeys(BenchTime(a, FALSE), M, Early)
  BY BenchTimeAdds
<1>4. /\ LineKeys \cap L = {} /\ (LineKeys \cup L) \cap M = {}
      /\ ((LineKeys \cup L) \cup M) \cap TerminatorKeys = {}
      /\ LineKeys \subseteq Early
  <2>1. L \subseteq {"out_of_place", "out_of_place_per_iter"}
    BY <1>2 DEF BodyKeys, PerIterKeys
  <2>2. M \subseteq {"in_place", "in_place_per_iter"}
    BY <1>3 DEF BodyKeys, PerIterKeys
  <2> QED
    BY <2>1, <2>2 DEF LineKeys, TerminatorKeys, Early, Names
<1>5. L \subseteq Early /\ M \subseteq Early
  BY <1>2, <1>3 DEF AddsKeys
<1> DEFINE s == writeBenchmarkLinePreamble
           t == BenchTime(a, TRUE)
           u == BenchTime(a, FALSE)
           x == writeBenchmarkLineTerminator(a)
<1>6. Leads(s, InList(c), InObject(d, LineKeys))
  BY LineStarts
<1>7. Leads(x, InObject(d, (LineKeys \cup L) \cup M), InList(c))
  BY <1>4, <1>5, LineEnds
<1> HIDE DEF d, s, t, u, x
<1>8. Leads(s \o t, InList(c), InObject(d, LineKeys \cup L))
  BY <1>1, <1>2, <1>4, <1>5, <1>6, LeadsKeys, EarlyAndLate DEF t
<1> DEFINE st == s \o t
           K == LineKeys \cup L
<1>9. K \in SUBSET Early /\ K \cap M = {} /\ Leads(st, InList(c), InObject(d, K))
  BY <1>4, <1>5, <1>8
<1> HIDE DEF st, K
<1>10. Leads(st \o u, InList(c), InObject(d, K \cup M))
  BY <1>1, <1>3, <1>9, LeadsKeys, EarlyAndLate DEF u
<1>11. Leads((st \o u) \o x, InList(c), InList(c))
  BY <1>7, <1>10, LeadsJoin DEF K
<1> QED
  BY <1>11 DEF Line, st, s, t, u, x

\* The document from its first bracket to its errors.
InitKeys == {"version", "start_time", "args", "env", "nccl_version"}
LEMMA InitLeads ==
    ASSUME NEW a, a.args \in Nat, a.env \in Nat
    PROVE  Leads(jsonOutputInit(a), Unopened, InObject(Outer, InitKeys))
<1> DEFINE names == <<"version", "start_time">>
           args == List(Times(a.args, C("val")))
           env == List(Times(a.env, C("val")))
           N == {"version", "start_time"}
           s1 == C("{") \o Fields(names)
           s2 == s1 \o Key("args") \o args
           s3 == s2 \o Key("env") \o env
<1>1. names \in Seq(Early) /\ names # <<>> /\ Distinct(names) /\ KeysOf(names) = N
  BY DEF Early, Names, Distinct, KeysOf
<1>2. /\ Outer \in Contexts(Early) /\ Outer \in Contexts(Names) /\ Unopened \in SUBSET Good
      /\ N \subseteq Early /\ "args" \in Early \ N /\ "env" \in Early /\ "nccl_version" \in Early
  <2>1. /\ N \subseteq Early /\ "args" \in Early \ N /\ "env" \in Early /\ "nccl_version" \in Early
    BY DEF Early, Names
  <2> QED
    BY <2>1, OuterIsContext, EarlyAndLate DEF Good
<1>3. Unopened \subseteq Awaiting(Outer)
  BY HelperUnopened DEF Awaiting, Unopened
<1> HIDE DEF names
<1>4. Leads(C("{"), Unopened, InObject(Outer, {}))
  BY <1>2, <1>3, OpenObject
<1>5. Leads(s1, Unopened, InObject(Outer, {} \cup N))
  BY <1>1, <1>2, <1>4, FieldsAddEarly, LeadsKeys, EarlyAndLate
<1>6. Leads(s1, Unopened, InObject(Outer, N))
  BY <1>5
<1>7. IsValue(args, Early) /\ IsValue(env, Early)
  BY ValuesAreList, EarlyAndLate
<1> HIDE DEF s1, args, env
<1>8. Leads(s2, Unopened, InObject(Outer, N \cup {"args"}))
  BY <1>2, <1>6, <1>7, LeadsKeyed, EarlyAndLate
<1> DEFINE L == N \cup {"args"}
<1>9. L \in SUBSET Early /\ "env" \in Early \ L /\ Leads(s2, Unopened, InObject(Outer, L))
  BY <1>2, <1>8
<1> HIDE DEF s2, L
<1>10. Leads(s3, Unopened, InObject(Outer, L \cup {"env"}))
  BY <1>2, <1>7, <1>9, LeadsKeyed, EarlyAndLate
<1> DEFINE M == L \cup {"env"}
<1>11. M \in SUBSET Early /\ M \cap {"nccl_version"} = {} /\ M \cup {"nccl_version"} = InitKeys
  BY <1>2, <1>9 DEF L, InitKeys
<1> HIDE DEF s3, M
<1>12. AddsKeys(Field("nccl_version"), {"nccl_version"}, Early)
  BY <1>2, FieldAdds, EarlyAndLate
<1>13. Leads(s3 \o Field("nccl_version"), Unopened, InObject(Outer, M \cup {"nccl_version"}))
  BY <1>2, <1>10, <1>11, <1>12, LeadsKeys, EarlyAndLate DEF M
<1>14. jsonOutputInit(a) = s3 \o Field("nccl_version")
  BY DEF jsonOutputInit, s3, s2, s1, names, args, env
<1> QED
  BY <1>11, <1>13, <1>14

LEMMA HeaderLeads ==
    ASSUME NEW c \in Contexts(Early), NEW K \in SUBSET Early, "results" \notin K
    PROVE  Leads(writeResultHeader, InObject(c, K), InList(Inside(c, "{", K \cup {"results"})))
<1> DEFINE L == K \cup {"results"}
           d == Inside(c, "{", L)
           call == [op |-> "["]
<1>1. "results" \in Early
  BY DEF Early, Names
<1>2. L \in SUBSET Early /\ d \in Contexts(Early)
  BY <1>1, InsideIsLess, EarlyAndLate
<1>3. Leads(Key("results"), InObject(c, K), AfterKey(c, L))
  BY <1>1, KeyLeads, EarlyAndLate
<1> HIDE DEF L
<1>4. /\ c \in Contexts(Names) /\ L \in SUBSET Names /\ AfterKey(c, L) \subseteq Good
  BY <1>2, PlacesAreGood, EarlyAndLate
<1>5. AfterKey(c, L) \subseteq Awaiting(d)
  <2>1. AfterKey(c, L) \subseteq Writers
    BY DEF AfterKey
  <2> QED
    BY <2>1, <1>4, HelperAfterKey DEF Awaiting
<1> HIDE DEF d
<1>6. d \in Contexts(Names) /\ InList(d) \subseteq Good
  BY <1>2, PlacesAreGood, EarlyAndLate
<1>7. \A v \in AfterKey(c, L) : jsonStartList(v) \in InList(d)
  BY <1>5, <1>6, StartListCall
<1>8. call \in Calls
  BY PlainCalls
<1>9. Steps(call, AfterKey(c, L), InList(d))
  BY <1>4, <1>6, <1>7, <1>8 DEF Steps, Call
<1>10. Leads(C("["), AfterKey(c, L), InList(d))
  BY <1>9, LeadsOne DEF C
<1>11. Leads(Key("results") \o C("["), InObject(c, K), InList(d))
  BY <1>3, <1>10, LeadsJoin
<1> QED
  BY <1>11 DEF writeResultHeader, d, L

FooterKeys == {"out_of_bounds", "average_bus_bandwidth"}
LEMMA FooterLeads ==
    ASSUME NEW c \in Contexts(Early), NEW K \in SUBSET Early, K \cap FooterKeys = {}
    PROVE  Leads(writeResultFooter, InList(Inside(c, "{", K)), InObject(c, K \cup FooterKeys))
<1> DEFINE d == Inside(c, "{", K)
           first == <<"count", "okay">>
           second == <<"bandwidth", "okay">>
           bounds == Object(Fields(first))
           average == Object(Fields(second))
           call == [op |-> "]"]
           s == C("]") \o Key("out_of_bounds") \o bounds
           L == K \cup {"out_of_bounds"}
<1>1. /\ c \in Contexts(Names) /\ K \in SUBSET Names /\ InObject(c, K) \in SUBSET Good
  BY PlacesAreGood, EarlyAndLate
<1>2. d \in Contexts(Early)
  BY InsideIsLess, EarlyAndLate
<1>3. Filled(d) \subseteq InObject(c, K)
  BY <1>1, FilledPlaces
<1> HIDE DEF d
<1>4. d \in Contexts(Names) /\ InList(d) \subseteq Good
  BY <1>2, PlacesAreGood, EarlyAndLate
<1>5. \A v \in InList(d) : jsonFinishList(v) \in InObject(c, K)
  BY <1>3, <1>4, FinishListCall
<1>6. call \in Calls
  BY PlainCalls
<1>7. Steps(call, InList(d), InObject(c, K))
  BY <1>1, <1>4, <1>5, <1>6 DEF Steps, Call
<1>8. Leads(C("]"), InList(d), InObject(c, K))
  BY <1>7, LeadsOne DEF C
<1>9. /\ first \in Seq(Early) /\ first # <<>> /\ Distinct(first)
      /\ second \in Seq(Early) /\ second # <<>> /\ Distinct(second)
  BY DEF Early, Names, Distinct
<1> HIDE DEF first, second
<1>10. IsValue(bounds, Early) /\ IsValue(average, Early)
  BY <1>9, FieldsAddEarly, ObjectIsValue, EarlyAndLate
<1> HIDE DEF bounds, average
<1>11. /\ "out_of_bounds" \in Early \ K /\ "average_bus_bandwidth" \in Early \ L /\ L \in SUBSET Early
       /\ L \cup {"average_bus_bandwidth"} = K \cup FooterKeys
  BY DEF Early, Names, FooterKeys
<1>12. Leads(s, InList(d), InObject(c, L))
  BY <1>8, <1>10, <1>11, LeadsKeyed, EarlyAndLate
<1> HIDE DEF s, L
<1>13. Leads(s \o Key("average_bus_bandwidth") \o average, InList(d),
             InObject(c, L \cup {"average_bus_bandwidth"}))
  BY <1>10, <1>11, <1>12, LeadsKeyed, EarlyAndLate
<1>14. writeResultFooter = s \o Key("average_bus_bandwidth") \o average
  BY DEF writeResultFooter, s, bounds, average, first, second
<1> QED
  BY <1>11, <1>13, <1>14 DEF d

LEMMA ErrorsAdd ==
    ASSUME NEW a, a.error \in BOOLEAN
    PROVE  AddsKeys(writeErrors(a), {"errors"}, Late)
<1> DEFINE s == When(a.error, C("val"))
<1>1. "errors" \in Late
  BY DEF Late, Names
<1>2. Elements(C("val"), Late)
  BY ValIsValue, ValueIsElement, EarlyAndLate
<1>3. Elements(s, Late)
  BY <1>2, NoElements, EarlyAndLate DEF When
<1> HIDE DEF s
<1>4. AddsKeys(Key("errors") \o List(s), {"errors"}, Late)
  BY <1>1, <1>3, ListIsValue, KeyedValue, EarlyAndLate
<1> QED
  BY <1>4 DEF writeErrors, s

\* The whole report, in the order main() and run() write it.
ReportKeys == InitKeys \cup {"config", "results"} \cup FooterKeys \cup {"errors"}

LEMMA ReportKeysAreLate ==
    /\ ReportKeys \in SUBSET Late /\ {"results", "errors"} \subseteq ReportKeys
    /\ "end_time" \notin ReportKeys
<1>1. ReportKeys \in SUBSET Late
  BY DEF ReportKeys, InitKeys, FooterKeys, Late, Names
<1>2. "end_time" \notin Late
  BY DEF Late
<1> QED
  BY <1>1, <1>2 DEF ReportKeys

LEMMA ProgramLeads ==
    ASSUME NEW a \in Options
    PROVE  Leads(Program(a), Unopened, InObject(Outer, ReportKeys))
<1> DEFINE K1 == InitKeys \cup {"config"}
           K2 == K1 \cup {"results"}
           K3 == K2 \cup FooterKeys
           d == Inside(Outer, "{", K2)
           s1 == jsonOutputInit(a) \o writeDeviceReport(a)
           s2 == s1 \o May("no")
           s3 == s2 \o writeResultHeader
           s4 == s3 \o May("workers")
           s5 == s4 \o Times(a.sizes, Line(a))
           s6 == s5 \o May("workers")
           s7 == s6 \o May("join")
           s8 == s7 \o May("no")
           s9 == s8 \o writeResultFooter
<1>1. /\ a.procs \in Nat /\ a.sizes \in Nat /\ a.iters \in Nat /\ a.args \in Nat /\ a.env \in Nat
      /\ a.factor \in BOOLEAN /\ a.perIter \in BOOLEAN /\ a.tuning \in BOOLEAN
      /\ a.cputime \in BOOLEAN /\ a.error \in BOOLEAN
  <2>1. a \in [procs : Nat \ {0}, sizes : Nat, iters : Nat \ {0}, args : Nat,
               env : Nat, factor : BOOLEAN, perIter : BOOLEAN,
               tuning : BOOLEAN, cputime : BOOLEAN, workers : BOOLEAN, error : BOOLEAN]
    BY JsonAssumption
  <2> QED
    BY <2>1
<1>2. /\ InitKeys \in SUBSET Early /\ K1 \in SUBSET Early /\ K2 \in SUBSET Early /\ K3 \in SUBSET Late
      /\ InitKeys \cap {"config"} = {} /\ "results" \notin K1
      /\ K2 \cap FooterKeys = {} /\ K3 \cap {"errors"} = {} /\ K3 \cup {"errors"} = ReportKeys
  <2>1. InitKeys \in SUBSET Early /\ K1 \in SUBSET Early /\ K2 \in SUBSET Early
    BY DEF InitKeys, Early, Names
  <2>2. K3 \in SUBSET Late
    BY DEF InitKeys, FooterKeys, Late, Names
  <2>3. InitKeys \cap {"config"} = {} /\ "results" \notin K1
    BY DEF InitKeys
  <2>4. K2 \cap FooterKeys = {} /\ K3 \cap {"errors"} = {} /\ K3 \cup {"errors"} = ReportKeys
    BY DEF InitKeys, FooterKeys, ReportKeys
  <2> QED
    BY <2>1, <2>2, <2>3, <2>4
<1>3. /\ Outer \in Contexts(Early) /\ Outer \in Contexts(Late) /\ d \in Contexts(Early)
  BY <1>2, OuterIsContext, InsideIsLess, EarlyAndLate
<1>4. /\ InObject(Outer, K1) \in SUBSET Good /\ InObject(Outer, K1) \subseteq Writing(Early)
      /\ InList(d) \in SUBSET Good /\ InList(d) \subseteq Writing(Early)
  <2> HIDE DEF d, K1
  <2> QED
    BY <1>2, <1>3, PlacesAreGood, EarlyAndLate
<1> HIDE DEF d
<1>5. Leads(s1, Unopened, InObject(Outer, K1))
  <2> HIDE DEF K1
  <2>1. Leads(jsonOutputInit(a), Unopened, InObject(Outer, InitKeys))
    BY <1>1, InitLeads
  <2>2. AddsKeys(writeDeviceReport(a), {"config"}, Early)
    BY <1>1, DeviceReportAdds
  <2>3. Leads(s1, Unopened, InObject(Outer, InitKeys \cup {"config"}))
    BY <2>1, <2>2, <1>2, <1>3, LeadsKeys, EarlyAndLate
  <2> QED
    BY <2>3 DEF K1
<1> HIDE DEF s1
<1>6. Leads(s2, Unopened, InObject(Outer, K1))
  <2>1. Leads(May("no"), InObject(Outer, K1), InObject(Outer, K1))
    BY <1>4, MayLeads
  <2> QED
    BY <2>1, <1>5, LeadsJoin
<1> HIDE DEF s2
<1>7. Leads(s3, Unopened, InList(d))
  <2>1. Leads(writeResultHeader, InObject(Outer, K1), InList(d))
    <3> HIDE DEF K1
    <3> QED
      BY <1>2, <1>3, HeaderLeads DEF d
  <2> QED
    BY <2>1, <1>6, LeadsJoin
<1> HIDE DEF s3, K1, K2, K3
<1>8. \A crash \in {"no", "workers", "join"} : Leads(May(crash), InList(d), InList(d))
  BY <1>4, MayLeads
<1>9. Leads(s4, Unopened, InList(d))
  BY <1>7, <1>8, LeadsJoin
<1> HIDE DEF s4
<1>10. Leads(s5, Unopened, InList(d))
  <2>1. Elements(Times(a.sizes, Line(a)), Early)
    BY <1>1, LineIsElement, TimesElements, EarlyAndLate
  <2>2. Leads(Times(a.sizes, Line(a)), InList(d), InList(d))
    BY <2>1, <1>3 DEF Elements
  <2> QED
    BY <2>2, <1>9, LeadsJoin
<1> HIDE DEF s5
<1>11. Leads(s6, Unopened, InList(d))
  BY <1>8, <1>10, LeadsJoin
<1> HIDE DEF s6
<1>12. Leads(s7, Unopened, InList(d))
  BY <1>8, <1>11, LeadsJoin
<1> HIDE DEF s7
<1>13. Leads(s8, Unopened, InList(d))
  BY <1>8, <1>12, LeadsJoin
<1> HIDE DEF s8
<1>14. Leads(s9, Unopened, InObject(Outer, K3))
  <2>1. Leads(writeResultFooter, InList(d), InObject(Outer, K3))
    BY <1>2, <1>3, FooterLeads DEF d, K3
  <2> QED
    BY <2>1, <1>13, LeadsJoin
<1> HIDE DEF s9
<1>15. Leads(s9 \o writeErrors(a), Unopened, InObject(Outer, K3 \cup {"errors"}))
  <2>1. AddsKeys(writeErrors(a), {"errors"}, Late)
    BY <1>1, ErrorsAdd
  <2> QED
    BY <2>1, <1>2, <1>3, <1>14, LeadsKeys, EarlyAndLate
<1>16. Program(a) = s9 \o writeErrors(a)
  BY DEF Program, s9, s8, s7, s6, s5, s4, s3, s2, s1
<1> QED
  BY <1>2, <1>15, <1>16

-----------------------------------------------------------------------------
(* Closing whatever is open.                                               *)

\* What surrounds a place that is not outermost is a container in a context.
LEMMA ContextSplit ==
    ASSUME NEW X \in SUBSET Names, NEW c \in Contexts(X), Len(c.stack) # 0
    PROVE  \E d \in Contexts(X), K \in SUBSET X :
               /\ c.keys = Append(d.keys, K)
               /\ \/ Filled(c) = Filled(Inside(d, "{", K))
                  \/ K = {} /\ Filled(c) = Filled(Inside(d, "[", {}))
<1> DEFINE n == Len(c.stack)
           s == Front(c.stack)
           o == Front(c.open)
           k == Front(c.keys)
           x == Last(c.stack)
           y == Last(c.open)
           K == Last(c.keys)
           d == [stack |-> s, open |-> o, keys |-> k]
<1>1. /\ c.stack \in Seq(States) /\ c.open \in Seq(Brackets) /\ c.keys \in Seq(SUBSET X)
      /\ Len(c.open) = n /\ Len(c.keys) = n /\ n \in Nat \ {0}
      /\ \A i \in 1 .. n : c.stack[i] = StateIn(c.open[i]) /\ (c.open[i] = "[" => c.keys[i] = {})
  <2>1. c.stack \in Seq(States) /\ c.open \in Seq(Brackets) /\ c.keys \in Seq(SUBSET X)
    BY ContextFacts
  <2>2. n \in Nat \ {0}
    BY <2>1
  <2> QED
    BY <2>1, <2>2, ContextFacts
<1>2. c.stack # <<>> /\ c.open # <<>> /\ c.keys # <<>>
  BY <1>1
<1>3. /\ s \in Seq(States) /\ x \in States /\ c.stack = Append(s, x) /\ Len(s) = n - 1
      /\ o \in Seq(Brackets) /\ y \in Brackets /\ c.open = Append(o, y) /\ Len(o) = n - 1
      /\ k \in Seq(SUBSET X) /\ K \in SUBSET X /\ c.keys = Append(k, K) /\ Len(k) = n - 1
  BY <1>1, <1>2, FrontLast
<1> HIDE DEF s, o, k, x, y, K
<1>4. /\ \A i \in 1 .. n - 1 : c.stack[i] = s[i] /\ c.open[i] = o[i] /\ c.keys[i] = k[i]
      /\ c.stack[n] = x /\ c.open[n] = y /\ c.keys[n] = K
  <2> HIDE DEF n
  <2>1. n = (n - 1) + 1
    BY <1>1
  <2> QED
    BY <2>1, <1>3, AppendProperties
<1>5. x = StateIn(y) /\ (y = "[" => K = {})
  BY <1>1, <1>4
<1>6. \A i \in 1 .. n - 1 : s[i] = StateIn(o[i]) /\ (o[i] = "[" => k[i] = {})
  <2> HIDE DEF n
  <2> QED
    BY <1>1, <1>4
<1>7. d \in Contexts(X)
  BY <1>1, <1>3, <1>6 DEF Contexts
<1>8. d.stack = s /\ d.open = o /\ d.keys = k
  OBVIOUS
<1> HIDE DEF d
<1>9. /\ Inside(d, y, K).stack = c.stack /\ Inside(d, y, K).open = c.open
      /\ Inside(d, y, K).keys = c.keys
  BY <1>3, <1>5, <1>8 DEF Inside
<1>10. Filled(c) = Filled(Inside(d, y, K))
  BY <1>9 DEF Filled
<1>11. y = "{" \/ y = "["
  BY <1>3 DEF Brackets
<1> QED
  BY <1>3, <1>5, <1>7, <1>8, <1>10, <1>11

\* A value that is complete inside another is in the middle of the writing.
LEMMA FilledIsWriting ==
    ASSUME NEW c \in Contexts(Names), Len(c.stack) # 0
    PROVE  Filled(c) \subseteq Writing(Names)
<1>1. PICK d \in Contexts(Names), K \in SUBSET Names :
               /\ c.keys = Append(d.keys, K)
               /\ \/ Filled(c) = Filled(Inside(d, "{", K))
                  \/ K = {} /\ Filled(c) = Filled(Inside(d, "[", {}))
  BY ContextSplit
<1>2. Filled(Inside(d, "{", K)) \subseteq InObject(d, K) /\ Filled(Inside(d, "[", {})) \subseteq InList(d)
  BY FilledPlaces
<1>3. InObject(d, K) \subseteq Writing(Names) /\ InList(d) \subseteq Writing(Names)
  BY PlacesAreGood
<1> QED
  BY <1>1, <1>2, <1>3

\* The keys of the outermost object, while it is open and after that.
Outermost(d) == IF d.keys = <<>> THEN d.top ELSE d.keys[1]

LEMMA FirstOfAppend ==
    ASSUME NEW S, NEW s \in Seq(S), NEW x \in S
    PROVE  /\ Append(s, x) # <<>>
           /\ Append(s, x)[1] = IF s = <<>> THEN x ELSE s[1]
<1>1. Append(s, x) # <<>> /\ Append(s, x)[Len(s) + 1] = x
      /\ \A i \in 1 .. Len(s) : Append(s, x)[i] = s[i]
  BY AppendProperties
<1>2. CASE s = <<>>
  <2>1. Len(s) = 0
    BY <1>2
  <2> QED
    BY <2>1, <1>1, <1>2
<1>3. CASE s # <<>>
  <2>1. 1 \in 1 .. Len(s)
    BY <1>3
  <2> QED
    BY <2>1, <1>1, <1>3
<1> QED
  BY <1>2, <1>3

\* Where a writer is that has a container c open with the keys K of its own.
LEMMA OutermostInside ==
    ASSUME NEW c \in Contexts(Names), NEW K \in SUBSET Names, NEW v,
           v.doc.keys = Append(c.keys, K)
    PROVE  Outermost(v.doc) = IF c.keys = <<>> THEN K ELSE c.keys[1]
<1>1. c.keys \in Seq(SUBSET Names)
  BY ContextFacts
<1>2. Append(c.keys, K) # <<>> /\ Append(c.keys, K)[1] = IF c.keys = <<>> THEN K ELSE c.keys[1]
  BY <1>1, FirstOfAppend
<1> QED
  BY <1>2 DEF Outermost

\* One step of the closing: out of the innermost container, or past a key.
LEMMA ClosingStep ==
    ASSUME NEW v \in Writing(Names)
    PROVE  /\ jsonFinishCurrent(v) \in Writing(Names) \cup Filled(Outer)
           /\ Outermost(jsonFinishCurrent(v).doc) = Outermost(v.doc)
<1>1. PICK c \in Contexts(Names), K \in SUBSET Names :
        v \in InObject(c, K) \/ v \in AfterKey(c, K) \/ v \in InList(c)
  BY DEF Writing
<1>2. /\ c.stack \in Seq(States) /\ c.keys \in Seq(SUBSET Names) /\ Len(c.keys) = Len(c.stack)
      /\ "KEY" \in States /\ "OBJECT_EMPTY" \in States /\ "OBJECT_SOME" \in States
      /\ "LIST_EMPTY" \in States /\ "LIST_SOME" \in States /\ {} \in SUBSET Names
  BY ContextFacts, StateNames
<1>3. CASE v \in AfterKey(c, K)
  <2> DEFINE s == Append(c.stack, "OBJECT_SOME")
  <2>1. s \in Seq(States) /\ v.stack = Append(s, "KEY") /\ v.doc.keys = Append(c.keys, K)
    BY <1>2, <1>3, AppendFacts DEF AfterKey, Fine, Shows
  <2> HIDE DEF s
  <2>2. jsonCurrState(v) = "KEY"
    BY <2>1, <1>2, CurrState
  <2>3. jsonFinishCurrent(v) = jsonVal(v)
    BY <2>2 DEF jsonFinishCurrent
  <2> DEFINE d == Inside(c, "{", K)
  <2>4. d \in Contexts(Names) /\ Filled(d) \subseteq InObject(c, K)
    BY InsideIsLess, FilledPlaces
  <2>5. v \in Awaiting(d)
    <3>1. v \in Writers
      BY <1>3 DEF AfterKey
    <3> QED
      BY <3>1, <1>3, HelperAfterKey DEF Awaiting
  <2> HIDE DEF d
  <2>6. jsonVal(v) \in InObject(c, K)
    BY <2>4, <2>5, ValueCall
  <2>7. jsonVal(v).doc.keys = Append(c.keys, K)
    BY <2>6 DEF InObject, Fine, Shows
  <2>8. jsonVal(v) \in Writing(Names)
    BY <2>6, PlacesAreGood
  <2> QED
    BY <2>1, <2>3, <2>7, <2>8, OutermostInside
<1>4. ASSUME NEW u, u \in Filled(c), NEW L \in SUBSET Names, u.doc.top = L, v.doc.keys = Append(c.keys, L)
      PROVE  u \in Writing(Names) \cup Filled(Outer) /\ Outermost(u.doc) = Outermost(v.doc)
  <2>1. Outermost(v.doc) = IF c.keys = <<>> THEN L ELSE c.keys[1]
    BY <1>4, OutermostInside
  <2>2. u.doc.keys = c.keys
    BY <1>4 DEF Filled, Fine, Shows
  <2>3. Outermost(u.doc) = Outermost(v.doc)
    BY <1>4, <2>1, <2>2 DEF Outermost
  <2>4. CASE Len(c.stack) = 0
    <3>1. c.stack = <<>> /\ c.keys = <<>> /\ c.open = <<>>
      BY <2>4, <1>2, ContextFacts
    <3>2. Filled(c) = Filled(Outer)
      BY <3>1 DEF Filled, Outer
    <3> QED
      BY <3>2, <1>4, <2>3
  <2>5. CASE Len(c.stack) # 0
    BY <2>5, <1>4, <2>3, FilledIsWriting
  <2> QED
    BY <2>4, <2>5
<1>5. CASE v \in InObject(c, K)
  <2>1. jsonCurrState(v) \in {"OBJECT_EMPTY", "OBJECT_SOME"} /\ v.doc.keys = Append(c.keys, K)
    <3>1. PICK x \in {"OBJECT_EMPTY", "OBJECT_SOME"} : v.stack = Append(c.stack, x)
      BY <1>5 DEF InObject, Fine
    <3>2. jsonCurrState(v) = x
      BY <3>1, <1>2, CurrState
    <3>3. v.doc.keys = Append(c.keys, K)
      BY <1>5 DEF InObject, Fine, Shows
    <3> QED
      BY <3>2, <3>3
  <2>2. jsonFinishCurrent(v) = jsonFinishObject(v)
    BY <2>1 DEF jsonFinishCurrent
  <2>3. jsonFinishObject(v) \in Filled(c) /\ jsonFinishObject(v).doc.top = K
    BY <1>5, FinishObjectCall
  <2> QED
    BY <1>4, <2>1, <2>2, <2>3
<1>6. CASE v \in InList(c)
  <2>1. jsonCurrState(v) \in {"LIST_EMPTY", "LIST_SOME"} /\ v.doc.keys = Append(c.keys, {})
    <3>1. PICK x \in {"LIST_EMPTY", "LIST_SOME"} : v.stack = Append(c.stack, x)
      BY <1>6 DEF InList, Fine
    <3>2. jsonCurrState(v) = x
      BY <3>1, <1>2, CurrState
    <3>3. v.doc.keys = Append(c.keys, {})
      BY <1>6 DEF InList, Fine, Shows
    <3> QED
      BY <3>2, <3>3
  <2>2. jsonFinishCurrent(v) = jsonFinishList(v)
    BY <2>1 DEF jsonFinishCurrent
  <2>3. jsonFinishList(v) \in Filled(c) /\ jsonFinishList(v).doc.top = {}
    BY <1>6, FinishListCall
  <2> QED
    BY <1>2, <1>4, <2>1, <2>2, <2>3
<1> QED
  BY <1>1, <1>3, <1>5, <1>6

-----------------------------------------------------------------------------
(* The time at the end of the report.                                      *)

\* Where the time fits only the outermost object is open.
LEMMA EndTimePlace ==
    ASSUME NEW X \in SUBSET Names, NEW v \in Writing(X), EndTimeFits(v)
    PROVE  \E K \in SUBSET X : v \in InObject(Outer, K)
<1>1. PICK c \in Contexts(X), K \in SUBSET X : v \in InObject(c, K) \/ v \in AfterKey(c, K) \/ v \in InList(c)
  BY DEF Writing
<1>2. /\ c.stack \in Seq(States) /\ "KEY" \in States /\ "OBJECT_EMPTY" \in States
      /\ "OBJECT_SOME" \in States /\ "LIST_EMPTY" \in States /\ "LIST_SOME" \in States
  BY ContextFacts, StateNames
<1>3. Len(v.stack) = 1 /\ jsonCurrState(v) \in {"OBJECT_EMPTY", "OBJECT_SOME"}
  BY DEF EndTimeFits
<1>4. v \notin AfterKey(c, K)
  <2> SUFFICES ASSUME v \in AfterKey(c, K) PROVE FALSE
    OBVIOUS
  <2>1. Append(c.stack, "OBJECT_SOME") \in Seq(States)
    BY <1>2, AppendFacts
  <2>2. v.stack = Append(Append(c.stack, "OBJECT_SOME"), "KEY")
    BY DEF AfterKey, Fine
  <2> QED
    BY <2>1, <2>2, <1>2, <1>3, CurrState
<1>5. v \notin InList(c)
  <2> SUFFICES ASSUME v \in InList(c) PROVE FALSE
    OBVIOUS
  <2>1. v.stack = Append(c.stack, "LIST_EMPTY") \/ v.stack = Append(c.stack, "LIST_SOME")
    BY DEF InList, Fine
  <2> QED
    BY <2>1, <1>2, <1>3, CurrState
<1>6. v \in InObject(c, K)
  BY <1>1, <1>4, <1>5
<1>7. c.stack = <<>> /\ c.open = <<>> /\ c.keys = <<>>
  <2>1. v.stack = Append(c.stack, "OBJECT_EMPTY") \/ v.stack = Append(c.stack, "OBJECT_SOME")
    BY <1>6 DEF InObject, Fine
  <2>2. Len(v.stack) = Len(c.stack) + 1 /\ Len(c.stack) \in Nat
    BY <2>1, <1>2, AppendFacts
  <2>3. Len(c.stack) = 0
    <3> DEFINE m == Len(c.stack)
               n == Len(v.stack)
    <3>1. n = m + 1 /\ m \in Nat /\ n = 1
      BY <2>2, <1>3
    <3> HIDE DEF m, n
    <3>2. m = 0
      BY <3>1
    <3> QED
      BY <3>2 DEF m
  <2>4. /\ c.open \in Seq(Brackets) /\ c.keys \in Seq(SUBSET X)
        /\ Len(c.open) = 0 /\ Len(c.keys) = 0
    BY <2>3, ContextFacts
  <2> QED
    BY <2>3, <2>4, <1>2
<1>8. InObject(c, K) = InObject(Outer, K)
  BY <1>7 DEF InObject, Outer
<1> QED
  BY <1>6, <1>8

\* In the outermost object the time fits.
LEMMA OutermostFits ==
    ASSUME NEW K \in SUBSET Names, NEW v \in InObject(Outer, K)
    PROVE  EndTimeFits(v)
<1>1. PICK x \in {"OBJECT_EMPTY", "OBJECT_SOME"} : v.stack = Append(<<>>, x)
  BY DEF InObject, Fine, Outer
<1> DEFINE b == <<>>
<1>2. b \in Seq(States) /\ Len(b) = 0
  OBVIOUS
<1> HIDE DEF b
<1>3. jsonCurrState(v) = x /\ Len(v.stack) = 1
  <2>1. x \in States
    BY StateNames
  <2>2. v.stack = Append(b, x)
    BY <1>1 DEF b
  <2>3. Len(Append(b, x)) = 0 + 1
    BY <2>1, <1>2, AppendFacts
  <2>4. jsonCurrState(v) = x
    BY <2>1, <2>2, <1>2, CurrState
  <2> HIDE DEF b
  <2>5. Len(v.stack) = 1
    BY <2>2, <2>3
  <2> QED
    BY <2>4, <2>5
<1> QED
  BY <1>3 DEF EndTimeFits

LEMMA EndTimeCall ==
    ASSUME NEW K \in SUBSET Late, NEW v \in InObject(Outer, K)
    PROVE  jsonVal(jsonKey(v, "end_time")) \in InObject(Outer, K \cup {"end_time"})
<1> DEFINE L == K \cup {"end_time"}
           u == jsonKey(v, "end_time")
           d == Inside(Outer, "{", L)
<1>1. K \in SUBSET Names /\ "end_time" \in Names \ K /\ L \in SUBSET Names /\ Outer \in Contexts(Names)
  <2>1. "end_time" \in Names /\ "end_time" \notin Late /\ Late \subseteq Names
    BY DEF Late, Names
  <2> QED
    BY <2>1, OuterIsContext
<1>2. u \in AfterKey(Outer, L)
  BY <1>1, KeyCall
<1> HIDE DEF L, u
<1>3. d \in Contexts(Names) /\ Filled(d) \subseteq InObject(Outer, L)
  BY <1>1, InsideIsLess, FilledPlaces
<1>4. u \in Awaiting(d)
  <2>1. u \in Writers
    BY <1>2 DEF AfterKey
  <2> QED
    BY <2>1, <1>1, <1>2, HelperAfterKey DEF Awaiting
<1> HIDE DEF d
<1>5. jsonVal(u) \in InObject(Outer, L)
  BY <1>3, <1>4, ValueCall
<1> QED
  BY <1>5 DEF L, u

\* The outermost keys of a place are among the names of its contexts.
LEMMA OutermostAmong ==
    ASSUME NEW X \in SUBSET Names, NEW v \in Writing(X)
    PROVE  Outermost(v.doc) \in SUBSET X
<1>1. PICK c \in Contexts(X), K \in SUBSET X : v \in InObject(c, K) \/ v \in AfterKey(c, K) \/ v \in InList(c)
  BY DEF Writing
<1>2. c \in Contexts(Names) /\ K \in SUBSET Names /\ {} \in SUBSET Names
  BY PlacesAreGood
<1>3. v.doc.keys = Append(c.keys, K) \/ v.doc.keys = Append(c.keys, {})
  BY <1>1 DEF InObject, AfterKey, InList, Fine, Shows
<1>4. \E L \in SUBSET X : Outermost(v.doc) = IF c.keys = <<>> THEN L ELSE c.keys[1]
  BY <1>2, <1>3, OutermostInside
<1>5. c.keys # <<>> => c.keys[1] \in SUBSET X
  <2>1. c.keys \in Seq(SUBSET X)
    BY ContextFacts
  <2> QED
    BY <2>1
<1> QED
  BY <1>4, <1>5

-----------------------------------------------------------------------------
(* The invariant.                                                          *)

\* Where the writer is before each call of the program of a.
Places(a) == CHOOSE F : Follows(F, Program(a), Unopened, InObject(Outer, ReportKeys))

Judged == result \in Verdicts
Ended(keys) ==
    IF Judged THEN {"results", "errors", "end_time"} \subseteq keys ELSE "errors" \notin keys

Running == phase = "run" /\ result = "none" /\ w \in Places(opt)[pc]
Finalizing ==
    /\ phase = "finalize"
    /\ IF Judged THEN w \in InObject(Outer, ReportKeys) ELSE w \in Writing(Early)
Closing == phase = "closing" /\ w \in Writing(Names) \cup Filled(Outer) /\ Ended(Outermost(w.doc))
Closed == phase = "closed" /\ w \in Filled(Outer) /\ Ended(Outermost(w.doc))
Crashed == phase = "crashed" /\ w \in Writing(Early)

WriterInv ==
    /\ opt \in Options /\ pc \in 1 .. Len(Program(opt)) + 1 /\ result \in {"none", "error"} \cup Verdicts
    /\ Running \/ Finalizing \/ Closing \/ Closed \/ Crashed

LEMMA PlacesFollow ==
    ASSUME NEW a \in Options
    PROVE  /\ Programs[a] = Program(a) /\ Program(a) \in Seq(Calls)
           /\ Follows(Places(a), Program(a), Unopened, InObject(Outer, ReportKeys))
<1>1. Leads(Program(a), Unopened, InObject(Outer, ReportKeys))
  BY ProgramLeads
<1>2. \E F : Follows(F, Program(a), Unopened, InObject(Outer, ReportKeys))
  BY <1>1 DEF Leads
<1>3. Follows(Places(a), Program(a), Unopened, InObject(Outer, ReportKeys))
  BY <1>2 DEF Places
<1> QED
  BY <1>1, <1>3 DEF Leads, Programs

LEMMA InitWriterInv == Init => WriterInv
<1> SUFFICES ASSUME Init PROVE WriterInv
  OBVIOUS
<1> DEFINE n == Len(Program(opt))
<1>1. opt \in Options /\ pc = 1 /\ phase = "run" /\ result = "none" /\ result \in {"none", "error"} \cup Verdicts
  BY DEF Init
<1>2. /\ n \in Nat /\ Unopened \subseteq Places(opt)[1]
  BY <1>1, PlacesFollow DEF Follows
<1> HIDE DEF n
<1>3. pc \in 1 .. n + 1
  BY <1>1, <1>2
<1>4. w \in Unopened
  <2>1. w = [stack |-> <<>>, doc |-> Nothing, aborted |-> FALSE]
    BY DEF Init
  <2>2. Values \in Tokens
    BY DEF Values, Tokens
  <2>3. Nothing \in Documents
    <3>1. <<>> \in Seq(Brackets) /\ <<>> \in Seq(SUBSET Names) /\ {} \in SUBSET Names
      OBVIOUS
    <3> QED
      BY <3>1, <2>2 DEF Nothing, Documents
  <2>4. w \in Writers
    <3>1. <<>> \in Seq(States)
      OBVIOUS
    <3> QED
      BY <3>1, <2>1, <2>3 DEF Writers
  <2>5. Fine(w, <<>>, <<>>, <<>>, Values)
    BY <2>1, <2>3, <2>4 DEF Fine, Shows, Nothing
  <2> QED
    BY <2>4, <2>5 DEF Unopened
<1> QED
  BY <1>1, <1>2, <1>3, <1>4 DEF WriterInv, Running, n

\* The call the program makes next, from the place before it to the one after.
LEMMA CallSteps ==
    ASSUME WriterInv, Calling
    PROVE  /\ phase = "run" /\ result = "none" /\ pc \in 1 .. Len(Program(opt))
           /\ pc + 1 \in 1 .. Len(Program(opt)) + 1
           /\ Here = Program(opt)[pc]
           /\ w \in Places(opt)[pc] /\ Steps(Here, Places(opt)[pc], Places(opt)[pc + 1])
<1> DEFINE n == Len(Program(opt))
<1>1. phase = "run" /\ result = "none" /\ w \in Places(opt)[pc]
  BY DEF WriterInv, Calling, Running, Finalizing, Closing, Closed, Crashed
<1>2. /\ Programs[opt] = Program(opt) /\ n \in Nat
      /\ \A i \in 1 .. n : Steps(Program(opt)[i], Places(opt)[i], Places(opt)[i + 1])
  BY PlacesFollow DEF WriterInv, Follows
<1>3. pc \in 1 .. n + 1 /\ pc <= n
  BY <1>2 DEF WriterInv, Calling
<1> HIDE DEF n
<1>4. pc \in 1 .. n /\ pc + 1 \in 1 .. n + 1
  BY <1>2, <1>3
<1>5. Here = Program(opt)[pc]
  BY <1>2 DEF Here
<1> QED
  BY <1>1, <1>2, <1>4, <1>5 DEF n

LEMMA NextWriterInv == WriterInv /\ [Next]_vars => WriterInv'
<1> SUFFICES ASSUME WriterInv, [Next]_vars PROVE WriterInv'
  OBVIOUS
<1> DEFINE n == Len(Program(opt))
<1>0. opt \in Options /\ pc \in 1 .. n + 1 /\ result \in {"none", "error"} \cup Verdicts
  BY DEF WriterInv
<1>1. CASE Write
  <2>1. /\ phase = "run" /\ result = "none" /\ pc + 1 \in 1 .. n + 1 /\ w \in Places(opt)[pc]
        /\ Steps(Here, Places(opt)[pc], Places(opt)[pc + 1])
    BY <1>1, CallSteps DEF Write
  <2>2. /\ w' = Call(w, Here) /\ Here.op # "may" /\ pc' = pc + 1
        /\ opt' = opt /\ phase' = phase /\ result' = result
    BY <1>1 DEF Write
  <2> HIDE DEF n
  <2>3. w' \in Places(opt)[pc + 1]
    BY <2>1, <2>2 DEF Steps
  <2>4. Running'
    BY <2>1, <2>2, <2>3 DEF Running
  <2> QED
    BY <1>0, <2>1, <2>2, <2>4 DEF WriterInv, n
<1>2. CASE Succeed
  <2>1. /\ phase = "run" /\ result = "none" /\ pc + 1 \in 1 .. n + 1 /\ w \in Places(opt)[pc]
        /\ Steps(Here, Places(opt)[pc], Places(opt)[pc + 1])
    BY <1>2, CallSteps DEF Succeed
  <2>2. /\ Here.op = "may" /\ pc' = pc + 1 /\ w' = w
        /\ opt' = opt /\ phase' = phase /\ result' = result
    BY <1>2 DEF Succeed
  <2> HIDE DEF n
  <2>3. w' \in Places(opt)[pc + 1]
    BY <2>1, <2>2 DEF Steps
  <2>4. Running'
    BY <2>1, <2>2, <2>3 DEF Running
  <2> QED
    BY <1>0, <2>1, <2>2, <2>4 DEF WriterInv, n
<1>3. CASE Fail
  <2>1. /\ w \in Places(opt)[pc] /\ Steps(Here, Places(opt)[pc], Places(opt)[pc + 1])
    BY <1>3, CallSteps DEF Fail
  <2>2. /\ Here.op = "may" /\ pc' = pc /\ w' = w /\ opt' = opt /\ result' = "error"
        /\ phase' = "crashed" \/ phase' = "finalize"
    BY <1>3 DEF Fail
  <2> HIDE DEF n
  <2>3. w' \in Writing(Early)
    BY <2>1, <2>2 DEF Steps
  <2>4. Finalizing' \/ Crashed'
    BY <2>2, <2>3 DEF Finalizing, Crashed, Judged, Verdicts
  <2> QED
    BY <1>0, <2>2, <2>4 DEF WriterInv, n
<1>4. CASE Return
  <2>1. phase = "run" /\ phase' = "finalize" /\ w' = w /\ pc' = pc /\ opt' = opt /\ result' \in Verdicts
    BY <1>4 DEF Return
  <2>2. w \in Places(opt)[pc]
    BY <2>1 DEF WriterInv, Running, Finalizing, Closing, Closed, Crashed
  <2>3. /\ Programs[opt] = Program(opt) /\ n \in Nat
        /\ Places(opt)[n + 1] \subseteq InObject(Outer, ReportKeys)
    BY <1>0, PlacesFollow DEF Follows
  <2>4. pc > n
    BY <1>4, <2>3 DEF Return
  <2> HIDE DEF n
  <2>5. pc = n + 1
    BY <1>0, <2>3, <2>4
  <2>6. w' \in InObject(Outer, ReportKeys)
    BY <2>1, <2>2, <2>3, <2>5
  <2>7. Finalizing'
    BY <2>1, <2>2, <2>6 DEF Finalizing, Judged
  <2> QED
    BY <1>0, <2>1, <2>7 DEF WriterInv, n
<1>5. CASE EndTime
  <2> HIDE DEF n
  <2>1. /\ phase = "finalize" /\ phase' = "closing" /\ pc' = pc /\ opt' = opt /\ result' = result
        /\ w' = IF EndTimeFits(w) THEN jsonVal(jsonKey(w, "end_time")) ELSE w
    BY <1>5 DEF EndTime
  <2>2. Finalizing
    BY <2>1 DEF WriterInv, Running, Finalizing, Closing, Closed, Crashed
  <2>3. /\ Early \in SUBSET Names /\ Early \subseteq Late /\ Late \in SUBSET Names
        /\ "errors" \notin Early /\ "end_time" \in Names /\ "errors" # "end_time"
    <3>1. "end_time" \in Names
      BY DEF Names
    <3>2. "errors" \notin Early
      BY DEF Early
    <3> QED
      BY <3>1, <3>2, EarlyAndLate
  <2>4. ASSUME NEW K \in SUBSET Late, w \in InObject(Outer, K), EndTimeFits(w)
        PROVE  w' \in Writing(Names) /\ Outermost(w'.doc) = K \cup {"end_time"}
    <3> DEFINE L == K \cup {"end_time"}
    <3>1. L \in SUBSET Names /\ Outer \in Contexts(Names)
      BY <2>3, OuterIsContext
    <3>2. w' \in InObject(Outer, L)
      BY <2>1, <2>4, EndTimeCall
    <3> HIDE DEF L
    <3>3. w' \in Writing(Names)
      BY <3>1, <3>2, PlacesAreGood
    <3>4. w'.doc.keys = Append(Outer.keys, L)
      BY <3>2 DEF InObject, Fine, Shows
    <3>5. Outer.keys = <<>>
      BY DEF Outer
    <3>6. Outermost(w'.doc) = L
      BY <3>1, <3>4, <3>5, OutermostInside
    <3> QED
      BY <3>3, <3>6 DEF L
  <2>5. ASSUME ~Judged, EndTimeFits(w) PROVE Closing'
    <3>1. w \in Writing(Early)
      BY <2>2, <2>5 DEF Finalizing
    <3>2. PICK K \in SUBSET Early : w \in InObject(Outer, K)
      BY <2>3, <2>5, <3>1, EndTimePlace
    <3>3. w' \in Writing(Names) /\ Outermost(w'.doc) = K \cup {"end_time"}
      BY <2>3, <2>4, <2>5, <3>2
    <3>4. "errors" \notin K \cup {"end_time"}
      BY <2>3
    <3>5. Ended(Outermost(w.doc))'
      BY <2>1, <2>5, <3>3, <3>4 DEF Ended, Judged
    <3> QED
      BY <2>1, <3>3, <3>5 DEF Closing
  <2>6. ASSUME ~Judged, ~EndTimeFits(w) PROVE Closing'
    <3>1. w \in Writing(Early) /\ w' = w
      BY <2>1, <2>2, <2>6 DEF Finalizing, Judged
    <3>2. Outermost(w.doc) \in SUBSET Early
      BY <2>3, <3>1, OutermostAmong
    <3>3. w \in Writing(Names)
      BY <2>3, <3>1, PlacesAreGood DEF Writing
    <3>4. Ended(Outermost(w.doc))
      BY <2>3, <2>6, <3>2 DEF Ended, Judged
    <3>5. Ended(Outermost(w.doc))'
      BY <2>1, <3>1, <3>4 DEF Ended, Judged
    <3> QED
      BY <2>1, <3>1, <3>3, <3>5 DEF Closing
  <2>7. ASSUME Judged PROVE Closing'
    <3>1. w \in InObject(Outer, ReportKeys)
      BY <2>2, <2>7 DEF Finalizing
    <3>2. /\ ReportKeys \in SUBSET Late /\ {"results", "errors"} \subseteq ReportKeys
          /\ ReportKeys \in SUBSET Names
      BY <2>3, ReportKeysAreLate
    <3>3. EndTimeFits(w)
      BY <3>1, <3>2, OutermostFits
    <3>4. w' \in Writing(Names) /\ Outermost(w'.doc) = ReportKeys \cup {"end_time"}
      BY <2>4, <3>1, <3>2, <3>3
    <3>5. {"results", "errors", "end_time"} \subseteq ReportKeys \cup {"end_time"}
      BY <3>2
    <3>6. Ended(Outermost(w.doc))'
      BY <2>1, <2>7, <3>4, <3>5 DEF Ended, Judged
    <3> QED
      BY <2>1, <3>4, <3>6 DEF Closing
  <2>8. Closing'
    BY <1>0, <2>5, <2>6, <2>7
  <2> QED
    BY <1>0, <2>1, <2>8 DEF WriterInv, n
<1>6. CASE FinishCurrent
  <2> HIDE DEF n
  <2>1. /\ phase = "closing" /\ w.stack # <<>> /\ w' = jsonFinishCurrent(w)
        /\ phase' = phase /\ pc' = pc /\ opt' = opt /\ result' = result
    BY <1>6 DEF FinishCurrent
  <2>2. Closing
    BY <2>1 DEF WriterInv, Running, Finalizing, Closing, Closed, Crashed
  <2>3. w \in Writing(Names)
    <3>1. w \notin Filled(Outer)
      BY <2>1 DEF Filled, Fine, Outer
    <3> QED
      BY <2>2, <3>1 DEF Closing
  <2>4. /\ w' \in Writing(Names) \cup Filled(Outer) /\ Outermost(w'.doc) = Outermost(w.doc)
    BY <2>1, <2>3, ClosingStep
  <2>5. Ended(Outermost(w.doc))'
    BY <2>1, <2>2, <2>4 DEF Closing, Ended, Judged
  <2>6. Closing'
    BY <2>1, <2>4, <2>5 DEF Closing
  <2> QED
    BY <1>0, <2>1, <2>6 DEF WriterInv, n
<1>7. CASE Close
  <2> HIDE DEF n
  <2>1. /\ phase = "closing" /\ w.stack = <<>> /\ w' = w
        /\ phase' = "closed" /\ pc' = pc /\ opt' = opt /\ result' = result
    BY <1>7 DEF Close
  <2>2. Closing
    BY <2>1 DEF WriterInv, Running, Finalizing, Closing, Closed, Crashed
  <2>3. w \notin Writing(Names)
    <3> SUFFICES ASSUME w \in Writing(Names) PROVE FALSE
      OBVIOUS
    <3>1. PICK c \in Contexts(Names), K \in SUBSET Names :
            w \in InObject(c, K) \/ w \in AfterKey(c, K) \/ w \in InList(c)
      BY DEF Writing
    <3>2. /\ c.stack \in Seq(States) /\ \A x \in {"KEY", "OBJECT_EMPTY", "OBJECT_SOME", "LIST_EMPTY", "LIST_SOME"} : x \in States
      BY ContextFacts, StateNames
    <3>3. PICK b \in Seq(States), x \in States : w.stack = Append(b, x)
      <4>1. Append(c.stack, "OBJECT_SOME") \in Seq(States)
        BY <3>2, AppendFacts
      <4> QED
        BY <3>1, <3>2, <4>1 DEF InObject, AfterKey, InList, Fine
    <3> QED
      BY <2>1, <3>3, AppendFacts
  <2>4. Closed'
    BY <2>1, <2>2, <2>3 DEF Closing, Closed, Ended, Judged
  <2> QED
    BY <1>0, <2>1, <2>4 DEF WriterInv, n
<1>8. CASE Done \/ UNCHANGED vars
  <2>1. /\ phase' = phase /\ pc' = pc /\ opt' = opt /\ result' = result /\ w' = w
    BY <1>8 DEF Done, vars
  <2> QED
    BY <2>1 DEF WriterInv, Running, Finalizing, Closing, Closed, Crashed, Ended, Judged
<1> QED
  BY <1>1, <1>2, <1>3, <1>4, <1>5, <1>6, <1>7, <1>8 DEF Next

\* Wherever the run is and has failed, the writer is in one of these places.
THEOREM WriterInvariance == Spec => []WriterInv
<1>1. Init => WriterInv
  BY InitWriterInv
<1>2. WriterInv /\ [Next]_vars => WriterInv'
  BY NextWriterInv
<1> QED
  BY <1>1, <1>2, PTL DEF Spec

-----------------------------------------------------------------------------
(* What the places say about the writer and the file.                      *)

LEMMA WriterIsGood == ASSUME WriterInv PROVE w \in Good
<1>1. ASSUME Running PROVE w \in Good
  <2>1. /\ Places(opt) \in [1 .. Len(Program(opt)) + 1 -> SUBSET Good]
        /\ pc \in 1 .. Len(Program(opt)) + 1
    BY PlacesFollow DEF WriterInv, Follows
  <2>2. Places(opt)[pc] \in SUBSET Good
    BY <2>1
  <2> QED
    BY <1>1, <2>2 DEF Running
<1>2. Early \in SUBSET Names /\ ReportKeys \in SUBSET Names /\ Outer \in Contexts(Names)
  BY EarlyAndLate, ReportKeysAreLate, OuterIsContext
<1>3. Writing(Early) \subseteq Writing(Names)
  BY <1>2, PlacesAreGood DEF Writing
<1>4. InObject(Outer, ReportKeys) \subseteq Writing(Names)
  BY <1>2, PlacesAreGood
<1> QED
  BY <1>1, <1>3, <1>4 DEF WriterInv, Finalizing, Closing, Closed, Crashed, Good

\* No call of the writer is out of its place.
LEMMA GoodIsAsserted == ASSUME w \in Good PROVE NoAssertion
  BY DEF Good, Unopened, Writing, Filled, InObject, AfterKey, InList, Fine, NoAssertion

\* The states of a container that has been opened with the bracket b.
StatesOf(b) == IF b = "{" THEN {"OBJECT_EMPTY", "OBJECT_SOME"} ELSE {"LIST_EMPTY", "LIST_SOME"}

LEMMA StackGrows ==
    ASSUME NEW s \in Seq(States), NEW o \in Seq(Brackets), Len(o) = Len(s),
           \A i \in 1 .. Len(s) : s[i] \in StatesOf(o[i]),
           NEW x \in States, NEW b \in Brackets, x \in StatesOf(b)
    PROVE  /\ Append(s, x) \in Seq(States) /\ Len(Append(s, x)) = Len(Append(o, b))
           /\ \A i \in 1 .. Len(Append(o, b)) : Append(s, x)[i] \in StatesOf(Append(o, b)[i])
<1> DEFINE m == Len(s)
           u == Append(s, x)
           p == Append(o, b)
<1>1. m \in Nat
  OBVIOUS
<1>2. u \in Seq(States) /\ Len(u) = m + 1 /\ Len(p) = m + 1
  BY AppendFacts
<1>3. (\A i \in 1 .. m : u[i] = s[i]) /\ u[m + 1] = x
  BY AppendProperties
<1>4. (\A i \in 1 .. m : p[i] = o[i]) /\ p[m + 1] = b
  BY AppendProperties
<1> HIDE DEF m, u, p
<1>5. \A i \in 1 .. m : u[i] \in StatesOf(p[i])
  BY <1>3, <1>4 DEF m
<1>6. u[m + 1] \in StatesOf(p[m + 1])
  BY <1>3, <1>4
<1>7. \A i \in 1 .. m + 1 : i \in 1 .. m \/ i = m + 1
  BY <1>1
<1>8. \A i \in 1 .. m + 1 : u[i] \in StatesOf(p[i])
  BY <1>5, <1>6, <1>7
<1> QED
  BY <1>2, <1>8 DEF u, p

\* A key on top of the containers does not disturb them.
LEMMA KeyOnTop ==
    ASSUME NEW s \in Seq(States), NEW o \in Seq(Brackets), Len(s) = Len(o),
           \A i \in 1 .. Len(o) : s[i] \in StatesOf(o[i])
    PROVE  /\ Append(s, "KEY") \in Seq(States) /\ Len(Append(s, "KEY")) = Len(o) + 1
           /\ \A i \in 1 .. Len(o) : Append(s, "KEY")[i] \in StatesOf(o[i])
<1>1. "KEY" \in States
  BY StateNames
<1>2. Append(s, "KEY") \in Seq(States) /\ Len(Append(s, "KEY")) = Len(s) + 1
  BY <1>1, AppendFacts
<1>3. \A i \in 1 .. Len(s) : Append(s, "KEY")[i] = s[i]
  BY <1>1, AppendProperties
<1> QED
  BY <1>2, <1>3

\* The stack of a place is what is open in the file.
LEMMA StackInside ==
    ASSUME NEW c \in Contexts(Names), NEW v, NEW bracket \in Brackets, NEW x \in States,
           x \in StatesOf(bracket), v.doc.open = Append(c.open, bracket),
           v.stack = Append(c.stack, x) \/ v.stack = Append(Append(c.stack, x), "KEY")
    PROVE  LET n == Len(v.doc.open)
           IN  /\ Len(v.stack) = IF jsonCurrState(v) = "KEY" THEN n + 1 ELSE n
               /\ \A i \in 1 .. n : v.stack[i] \in StatesOf(v.doc.open[i])
<1> DEFINE s == Append(c.stack, x)
           o == Append(c.open, bracket)
<1>1. /\ c.stack \in Seq(States) /\ c.open \in Seq(Brackets) /\ Len(c.open) = Len(c.stack)
      /\ "KEY" \in States
  BY ContextFacts, StateNames
<1>2. \A i \in 1 .. Len(c.stack) : c.stack[i] \in StatesOf(c.open[i])
  <2>1. \A b : StateIn(b) \in StatesOf(b)
    BY DEF StateIn, StatesOf
  <2>2. \A i \in 1 .. Len(c.stack) : c.stack[i] = StateIn(c.open[i])
    BY DEF Contexts
  <2> HIDE DEF s, o
  <2> QED
    BY <2>1, <2>2
<1>3. s \in Seq(States) /\ Len(s) = Len(o) /\ \A i \in 1 .. Len(o) : s[i] \in StatesOf(o[i])
  BY <1>1, <1>2, StackGrows
<1>4. o \in Seq(Brackets)
  BY <1>1, AppendFacts
<1>5. CASE v.stack = s
  <2>1. jsonCurrState(v) = x
    BY <1>1, <1>5, CurrState
  <2>2. x # "KEY"
    BY DEF StatesOf
  <2> HIDE DEF s, o
  <2> QED
    BY <1>3, <1>5, <2>1, <2>2 DEF o
<1>6. CASE v.stack = Append(s, "KEY")
  <2> HIDE DEF s, o
  <2>1. jsonCurrState(v) = "KEY"
    BY <1>1, <1>3, <1>6, CurrState
  <2>2. Len(Append(s, "KEY")) = Len(o) + 1 /\ \A i \in 1 .. Len(o) : Append(s, "KEY")[i] \in StatesOf(o[i])
    BY <1>3, <1>4, KeyOnTop
  <2> QED
    BY <1>6, <2>1, <2>2 DEF o
<1> QED
  BY <1>5, <1>6

LEMMA GoodIsOpen == ASSUME w \in Good PROVE StackIsWhatIsOpen
<1>1. ASSUME w \in Unopened \cup Filled(Outer) PROVE StackIsWhatIsOpen
  <2>1. w.stack = <<>> /\ w.doc.open = <<>> /\ ~w.doc.bad
    BY <1>1 DEF Unopened, Filled, Fine, Shows, Outer
  <2>2. Len(w.stack) = 0 /\ Len(w.doc.open) = 0 /\ jsonCurrState(w) = "NONE"
    BY <2>1 DEF jsonCurrState
  <2> QED
    BY <2>1, <2>2 DEF StackIsWhatIsOpen
<1>2. ASSUME w \in Writing(Names) PROVE StackIsWhatIsOpen
  <2>1. PICK c \in Contexts(Names), K \in SUBSET Names :
          w \in InObject(c, K) \/ w \in AfterKey(c, K) \/ w \in InList(c)
    BY <1>2 DEF Writing
  <2>2. ~w.doc.bad
    BY <2>1 DEF InObject, AfterKey, InList, Fine, Shows
  <2>3. \E bracket \in Brackets, x \in States :
          /\ x \in StatesOf(bracket)
          /\ w.doc.open = Append(c.open, bracket)
          /\ w.stack = Append(c.stack, x) \/ w.stack = Append(Append(c.stack, x), "KEY")
    <3>1. CASE w \in InObject(c, K) \/ w \in AfterKey(c, K)
      <4>1. /\ w.doc.open = Append(c.open, "{")
            /\ \E x \in {"OBJECT_EMPTY", "OBJECT_SOME"} :
                  w.stack = Append(c.stack, x) \/ w.stack = Append(Append(c.stack, x), "KEY")
        BY <3>1 DEF InObject, AfterKey, Fine, Shows
      <4> QED
        BY <4>1, StateNames DEF StatesOf
    <3>2. CASE w \in InList(c)
      <4>1. /\ w.doc.open = Append(c.open, "[")
            /\ \E x \in {"LIST_EMPTY", "LIST_SOME"} : w.stack = Append(c.stack, x)
        BY <3>2 DEF InList, Fine, Shows
      <4>2. "[" # "{"
        OBVIOUS
      <4> QED
        BY <4>1, <4>2, StateNames DEF StatesOf
    <3> QED
      BY <2>1, <3>1, <3>2
  <2> QED
    BY <2>2, <2>3, StackInside DEF StackIsWhatIsOpen, StatesOf
<1> QED
  BY <1>1, <1>2 DEF Good

\* What has been closed is one complete value without a key twice.
LEMMA ClosedFile ==
    ASSUME WriterInv, phase = "closed"
    PROVE  /\ ~w.doc.bad /\ ~w.doc.twice /\ w.doc.open = <<>> /\ w.doc.want = {}
           /\ Ended(w.doc.top)
<1>1. Closed
  BY DEF WriterInv, Running, Finalizing, Closing, Closed, Crashed
<1>2. Fine(w, <<>>, <<>>, <<>>, Follow(<<>>))
  BY <1>1 DEF Closed, Filled, Outer
<1>3. Follow(<<>>) = {} /\ w.doc.keys = <<>>
  BY <1>2 DEF Follow, Fine, Shows
<1>4. Outermost(w.doc) = w.doc.top
  BY <1>3 DEF Outermost
<1> QED
  BY <1>1, <1>2, <1>3, <1>4 DEF Closed, Fine, Shows

LEMMA WriterIsTyped == ASSUME WriterInv PROVE TypeOK
<1>1. w \in Writers
  BY WriterIsGood DEF Good, Unopened, Writing, Filled, InObject, AfterKey, InList
<1>2. w.stack \in Seq(States) /\ w.aborted \in BOOLEAN
  BY <1>1 DEF Writers
<1>3. phase = "closed" => w.stack = <<>>
  BY DEF WriterInv, Running, Finalizing, Closing, Closed, Crashed, Filled, Fine, Outer
<1>4. Programs[opt] = Program(opt)
  BY PlacesFollow DEF WriterInv
<1>5. phase \in {"run", "finalize", "closing", "closed", "crashed"}
  BY DEF WriterInv, Running, Finalizing, Closing, Closed, Crashed
<1> QED
  BY <1>2, <1>3, <1>4, <1>5, StateNames DEF WriterInv, TypeOK

\* The variables keep their types, and a closed file leaves the stack empty.
THEOREM TypeTheorem == Spec => []TypeOK
<1>1. WriterInv => TypeOK
  BY WriterIsTyped
<1> QED
  BY <1>1, WriterInvariance, PTL

\* None of the assertions of jsonKey, jsonValHelper, jsonFinishObject,
\* jsonFinishList and jsonFinishCurrent goes off, whatever the options are and
\* wherever the run fails.
THEOREM NoAssertionTheorem == Spec => []NoAssertion
<1>1. WriterInv => NoAssertion
  BY WriterIsGood, GoodIsAsserted
<1> QED
  BY <1>1, WriterInvariance, PTL

\* What has been written is at every moment the beginning of a JSON document,
\* and the writer's stack is the containers that are open in it.
THEOREM StackTheorem == Spec => []StackIsWhatIsOpen
<1>1. WriterInv => StackIsWhatIsOpen
  BY WriterIsGood, GoodIsOpen
<1> QED
  BY <1>1, WriterInvariance, PTL

\* A finalized file is one JSON value, and no object in it has a key twice.
THEOREM ClosedTheorem == Spec => []ClosedIsJson
<1>1. WriterInv => ClosedIsJson
  BY ClosedFile DEF ClosedIsJson
<1> QED
  BY <1>1, WriterInvariance, PTL

\* A finalized file has results, errors and end time if run() came to its
\* verdict, and it has errors only then.
THEOREM EndTheorem == Spec => []ErrorsMarkTheEnd
<1>1. WriterInv => ErrorsMarkTheEnd
  BY ClosedFile DEF ErrorsMarkTheEnd, Ended, Judged
<1> QED
  BY <1>1, WriterInvariance, PTL
=============================================================================
