------------------------------ MODULE JsonWriter ------------------------------
(***************************************************************************)
(* The JSON report of src/util.cu.  The writer (lines 99-458) is a stack   *)
(* machine: every value, key, object and list goes through functions that  *)
(* look at the state on top of the stack, emit the separators and assert   *)
(* that the call is in its place.  The report functions (501-977) are      *)
(* called from main(), run(), TimeTest() and BenchTime() of common.cu, and *)
(* between two of them the run may fail; jsonOutputFinalize then closes    *)
(* whatever happens to be open.                                            *)
(*                                                                         *)
(* Only the thread that write_json is set for gets this far: the main      *)
(* thread of process 0.  Its calls of the writer are laid out as a         *)
(* sequence, "may" marking the calls between reports that may fail.        *)
(* Values are left out, keys are kept.                                     *)
(***************************************************************************)
EXTENDS Integers, Sequences, SequencesExt, FiniteSets

CONSTANT Options       \* the command lines and surroundings under study

\* procs and sizes: processes, message sizes; args and env: their numbers;
\* factor: -f above 1; perIter, tuning, cputime: -I, -U, -C; workers: nThreads
\* above 1; error: NCCL has a last error to report.
ASSUME JsonAssumption ==
    Options \subseteq [procs : Nat \ {0}, sizes : Nat, iters : Nat \ {0}, args : Nat,
                       env : Nat, factor : BOOLEAN, perIter : BOOLEAN,
                       tuning : BOOLEAN, cputime : BOOLEAN, workers : BOOLEAN,
                       error : BOOLEAN]

-----------------------------------------------------------------------------
(* The document is kept as what a reader of JSON has made of it so far:    *)
(* open is the stack of containers, keys the keys each of them has, want   *)
(* the tokens that may follow, top the keys of the outermost object.       *)

Values == {"val", "{", "["}
Closer(c) == IF c = "{" THEN "}" ELSE "]"

\* What may follow a complete value inside the containers open.
Follow(open) == IF open = <<>> THEN {} ELSE {",", Closer(Last(open))}

Read(d, token) ==
    LET t == token.t
    IN  IF t \notin d.want THEN [d EXCEPT !.bad = TRUE]
        ELSE CASE t = "val" -> [d EXCEPT !.want = Follow(d.open)]
               [] t = "{"   -> [d EXCEPT !.open = Append(@, t), !.keys = Append(@, {}),
                                         !.want = {"key", "}"}]
               [] t = "["   -> [d EXCEPT !.open = Append(@, t), !.keys = Append(@, {}),
                                         !.want = Values \union {"]"}]
               [] t = "key" -> [d EXCEPT !.keys = Append(Front(@), Last(@) \union {token.name}),
                                         !.twice = @ \/ token.name \in Last(d.keys),
                                         !.want = Values]
               [] t = ","   -> [d EXCEPT !.want = IF Last(d.open) = "{" THEN {"key"} ELSE Values]
               [] OTHER     -> [d EXCEPT !.open = Front(@), !.keys = Front(@), !.top = Last(d.keys),
                                         !.want = Follow(Front(d.open))]

Nothing == [open |-> <<>>, keys |-> <<>>, top |-> {}, want |-> Values,
            twice |-> FALSE, bad |-> FALSE]

-----------------------------------------------------------------------------
(* The writer.  w.stack is states[0 .. state_n-1], w.doc the document.     *)

Token(t, name) == [t |-> t, name |-> name]
Mark(t) == Token(t, "")
Emit(w, token) == [w EXCEPT !.doc = Read(@, token)]

jsonCurrState(w) == IF w.stack = <<>> THEN "NONE" ELSE Last(w.stack)
jsonPushState(w, s) == [w EXCEPT !.stack = Append(@, s)]
jsonReplaceState(w, s) == [w EXCEPT !.stack = Append(Front(@), s)]
jsonPopState(w) == [w EXCEPT !.stack = Front(@)]
Abort(w) == [w EXCEPT !.aborted = TRUE]          \* assert(0)

Separated(w) == Emit(w, Mark(","))

\* Lines 206-222.
jsonKey(w, name) ==
    LET Keyed(v) == jsonPushState(Emit(v, Token("key", name)), "KEY")
    IN  CASE jsonCurrState(w) = "OBJECT_EMPTY" -> Keyed(jsonReplaceState(w, "OBJECT_SOME"))
          [] jsonCurrState(w) = "OBJECT_SOME"  -> Keyed(Separated(w))
          [] OTHER -> Abort(w)

\* Lines 227-243.
ValWithoutReplacing(w) ==
    CASE jsonCurrState(w) = "LIST_EMPTY" -> w
      [] jsonCurrState(w) = "LIST_SOME"  -> Separated(w)
      [] jsonCurrState(w) = "KEY"        -> jsonPopState(w)
      [] jsonCurrState(w) = "NONE"       -> w
      [] OTHER -> Abort(w)
jsonValHelper(w) ==
    CASE jsonCurrState(w) = "LIST_EMPTY" -> jsonReplaceState(w, "LIST_SOME")
      [] jsonCurrState(w) = "LIST_SOME"  -> Separated(w)
      [] jsonCurrState(w) = "KEY"        -> jsonPopState(w)
      [] jsonCurrState(w) = "NONE"       -> w
      [] OTHER -> Abort(w)

\* Lines 246-287 and 308-345: objects, lists and single values.
jsonStart(w, t, empty) == jsonPushState(Emit(jsonValHelper(w), Mark(t)), empty)
jsonStartObject(w) == jsonStart(w, "{", "OBJECT_EMPTY")
jsonStartList(w) == jsonStart(w, "[", "LIST_EMPTY")
jsonVal(w) == Emit(jsonValHelper(w), Mark("val"))

jsonFinish(w, t, open) ==
    IF jsonCurrState(w) \in open THEN Emit(jsonPopState(w), Mark(t)) ELSE Abort(w)
jsonFinishObject(w) == jsonFinish(w, "}", {"OBJECT_EMPTY", "OBJECT_SOME"})
jsonFinishList(w) == jsonFinish(w, "]", {"LIST_EMPTY", "LIST_SOME"})

\* Lines 289-305.
jsonFinishCurrent(w) ==
    CASE jsonCurrState(w) = "KEY" -> jsonVal(w)
      [] jsonCurrState(w) \in {"OBJECT_EMPTY", "OBJECT_SOME"} -> jsonFinishObject(w)
      [] jsonCurrState(w) \in {"LIST_EMPTY", "LIST_SOME"} -> jsonFinishList(w)
      [] OTHER -> Abort(w)

Call(w, c) ==
    CASE c.op = "key" -> jsonKey(w, c.name)
      [] c.op = "val" -> jsonVal(w)
      [] c.op = "{"   -> jsonStartObject(w)
      [] c.op = "}"   -> jsonFinishObject(w)
      [] c.op = "["   -> jsonStartList(w)
      [] c.op = "]"   -> jsonFinishList(w)

-----------------------------------------------------------------------------
(* The report functions as sequences of calls of the writer.               *)

C(op) == <<[op |-> op]>>
Key(name) == <<[op |-> "key", name |-> name]>>
When(cond, calls) == IF cond THEN calls ELSE <<>>
Times(n, calls) == FlattenSeq([i \in 1 .. n |-> calls])
Field(name) == Key(name) \o C("val")
Fields(names) == FlattenSeq([i \in 1 .. Len(names) |-> Field(names[i])])
Object(calls) == C("{") \o calls \o C("}")
List(calls) == C("[") \o calls \o C("]")

\* A call that may fail; crash says what becomes of the process then: see Fail.
May(crash) == <<[op |-> "may", crash |-> crash]>>

\* Lines 399-425.
jsonOutputInit(a) ==
    C("{") \o Fields(<<"version", "start_time">>)
      \o Key("args") \o List(Times(a.args, C("val")))
      \o Key("env") \o List(Times(a.env, C("val")))
      \o Field("nccl_version")

jsonRankInfo ==
    Object(Fields(<<"rank", "group", "pid", "hostname", "device", "device_hex", "device_info">>))

\* Lines 741-830: the configuration is open while the devices are looked up.
writeDeviceReport(a) ==
    Key("config")
      \o Object(Fields(<<"nthreads", "ngpus", "minimum_bytes", "maximum_bytes",
                  IF a.factor THEN "step_factor" ELSE "step_bytes",
                  "warmup_iters", "iterations", "aggregated_iterations",
                  "validation", "graph", "blocking_collectives",
                  "per_iter_timing", "per_iter_skip", "parallel_init">>)
           \o May("no")
           \o Key("devices") \o List(Times(a.procs, jsonRankInfo)))

\* Lines 887-889.
writeResultHeader == Key("results") \o C("[")

\* Lines 501-515.
writeBenchmarkLinePreamble == C("{") \o Fields(<<"size", "count", "type", "redop", "root">>)

\* Lines 594-621.
BodyUnderOneKey(a, out_of_place) ==
    Key("in_place")
      \o Object(Fields(<<IF a.cputime THEN "cpu_time" ELSE "time", "alg_bw", "bus_bw", "nwrong">>))
writeBenchmarkLineBody(a, out_of_place) ==
    Key(IF out_of_place THEN "out_of_place" ELSE "in_place")
      \o Object(Fields(<<IF a.cputime THEN "cpu_time" ELSE "time", "alg_bw", "bus_bw", "nwrong">>))

\* Lines 656-703.
writePerIterReport(a, out_of_place) ==
    Key(IF out_of_place THEN "out_of_place_per_iter" ELSE "in_place_per_iter")
      \o Object(Fields(<<"skipped_iterations", "min_us", "max_us", "avg_us", "p50_us",
                         "p95_us", "p99_us", "stdev_us", "cv_pct">>)
           \o Key("times_us") \o List(Times(a.iters, C("val")))
           \o When(a.procs > 1, Key("per_process_max_times_us")
                     \o List(Times(a.procs, List(Times(a.iters, C("val")))))))

\* Lines 517-574.
LeavingTuningOpen(a) ==
    When(a.tuning, Key("tuning") \o C("{")
           \o Fields(<<"implementation", "algo", "proto", "kernelVariant",
                       "syncStrategy", "#channels", "#warps", "netChunkSize">>))
      \o Fields(<<"actual_iterations", "experiment_name">>) \o C("}")
writeBenchmarkLineTerminator(a) ==
    When(a.tuning, Key("tuning")
           \o Object(Fields(<<"implementation", "algo", "proto", "kernelVariant",
                              "syncStrategy", "#channels", "#warps", "netChunkSize">>)))
      \o Fields(<<"actual_iterations", "experiment_name">>) \o C("}")

\* common.cu, BenchTime (720-926) as far as the report is concerned.
BenchTime(a, out_of_place) ==
    May("workers") \o writeBenchmarkLineBody(a, out_of_place)
      \o When(a.perIter, writePerIterReport(a, out_of_place))

\* common.cu, TimeTest (955-961).
Line(a) ==
    writeBenchmarkLinePreamble \o BenchTime(a, TRUE) \o BenchTime(a, FALSE)
      \o writeBenchmarkLineTerminator(a)

\* Lines 895-918 and 962-977.
writeResultFooter ==
    C("]") \o Key("out_of_bounds") \o Object(Fields(<<"count", "okay">>))
      \o Key("average_bus_bandwidth") \o Object(Fields(<<"bandwidth", "okay">>))
writeErrors(a) == Key("errors") \o List(When(a.error, C("val")))

\* common.cu, main (1533-1541) and run (1620-1950) up to the finalization.
Program(a) ==
    jsonOutputInit(a) \o writeDeviceReport(a) \o May("no") \o writeResultHeader
      \o May("workers") \o Times(a.sizes, Line(a)) \o May("workers")
      \o May("join") \o May("no") \o writeResultFooter \o writeErrors(a)
Programs == [a \in Options |-> Program(a)]

-----------------------------------------------------------------------------
VARIABLES
    opt,       \* the options
    pc,        \* next call of the program
    phase,     \* "run", "finalize", "closing", "closed", "crashed"
    result,    \* "none" before run() has come to an end, "error" if a failing
               \* call has ended it, or its verdict
    w          \* the writer: [stack, doc, aborted]

vars == <<opt, pc, phase, result, w>>

\* testSuccess, and testNumResults, which main's TESTCHECK (1545) takes for an
\* error as well: data that was wrong or a bandwidth that was too low.
Verdicts == {"success", "numResults"}

Init ==
    /\ opt \in Options
    /\ pc = 1
    /\ phase = "run"
    /\ result = "none"
    /\ w = [stack |-> <<>>, doc |-> Nothing, aborted |-> FALSE]

Here == Programs[opt][pc]
Calling == phase = "run" /\ ~w.aborted /\ pc <= Len(Programs[opt])

Write ==
    /\ Calling /\ Here.op # "may"
    /\ w' = Call(w, Here)
    /\ pc' = pc + 1
    /\ UNCHANGED <<opt, phase, result>>

Succeed ==
    /\ Calling /\ Here.op = "may"
    /\ pc' = pc + 1
    /\ UNCHANGED <<opt, phase, result, w>>

\* run() returns early with an error, and main() finalizes the document before it does
\* the same.  While std::threads are joinable run() does not return but
\* terminates the process: a failure of the main thread's own test if there
\* are other threads, a failure found on joining if others are left to join.
Crashes(crash) ==
    CASE crash = "no"      -> {FALSE}
      [] crash = "workers" -> {opt.workers}
      [] crash = "join"    -> {FALSE, opt.workers}
Fail ==
    /\ Calling /\ Here.op = "may"
    /\ result' = "error"
    /\ \E c \in Crashes(Here.crash) : phase' = IF c THEN "crashed" ELSE "finalize"
    /\ UNCHANGED <<opt, pc, w>>

\* common.cu 1955-1958: the errors have been written when run() comes to its
\* verdict, and main() finalizes the document whichever it is (1541).
Return ==
    /\ phase = "run" /\ ~w.aborted /\ pc > Len(Programs[opt])
    /\ result' \in Verdicts
    /\ phase' = "finalize"
    /\ UNCHANGED <<opt, pc, w>>

\* Lines 434-443: the time goes into the outermost object if it is the
\* innermost as well.
EndTimeIfEmpty(v) == Len(v.stack) = 1 /\ jsonCurrState(v) = "OBJECT_EMPTY"
EndTimeFits(v) == Len(v.stack) = 1 /\ jsonCurrState(v) \in {"OBJECT_EMPTY", "OBJECT_SOME"}
EndTime ==
    /\ phase = "finalize"
    /\ w' = IF EndTimeFits(w) THEN jsonVal(jsonKey(w, "end_time")) ELSE w
    /\ phase' = "closing"
    /\ UNCHANGED <<opt, pc, result>>

\* Lines 445-447.
FinishCurrent ==
    /\ phase = "closing" /\ ~w.aborted /\ w.stack # <<>>
    /\ w' = jsonFinishCurrent(w)
    /\ UNCHANGED <<opt, pc, phase, result>>

\* Lines 449-457.
Close ==
    /\ phase = "closing" /\ ~w.aborted /\ w.stack = <<>>
    /\ phase' = "closed"
    /\ UNCHANGED <<opt, pc, result, w>>

Done == (phase \in {"closed", "crashed"} \/ w.aborted) /\ UNCHANGED vars

Next == Write \/ Succeed \/ Fail \/ Return \/ EndTime \/ FinishCurrent \/ Close \/ Done

Spec == Init /\ [][Next]_vars

-----------------------------------------------------------------------------
(* Properties.                                                             *)

TypeOK ==
    /\ opt \in Options /\ pc \in 1 .. Len(Programs[opt]) + 1
    /\ phase \in {"run", "finalize", "closing", "closed", "crashed"}
    /\ w.stack \in Seq({"KEY", "OBJECT_EMPTY", "OBJECT_SOME", "LIST_EMPTY", "LIST_SOME"})
    /\ phase = "closed" => w.stack = <<>>
    /\ result \in {"none", "error"} \union Verdicts /\ w.aborted \in BOOLEAN

\* No call of the writer is out of its place, wherever the run fails: none of
\* the assertions of jsonKey, jsonValHelper, jsonFinishObject, jsonFinishList
\* and jsonFinishCurrent goes off, for any combination of options.
NoAssertion == ~w.aborted

\* What is in the file is at every moment the beginning of a JSON document,
\* and what the writer's stack says is open is what is open in the file: the
\* states are those of the containers, with a key only on top of them.
StackIsWhatIsOpen ==
    LET n == Len(w.doc.open)
    IN  /\ ~w.doc.bad
        /\ Len(w.stack) = IF jsonCurrState(w) = "KEY" THEN n + 1 ELSE n
        /\ \A i \in 1 .. n :
              w.stack[i] \in IF w.doc.open[i] = "{" THEN {"OBJECT_EMPTY", "OBJECT_SOME"}
                                                   ELSE {"LIST_EMPTY", "LIST_SOME"}

\* Whatever point the run fails at, the finalized file holds exactly one
\* complete JSON value, and no object of it has the same key twice.
ClosedIsJson ==
    phase = "closed" =>
        ~w.doc.bad /\ ~w.doc.twice /\ w.doc.open = <<>> /\ w.doc.want = {}

\* A reader of the file can tell whether run() came to its verdict, be it
\* testSuccess or testNumResults: then the file has results, errors and the end
\* time, and a file that has the errors is not from a run that a failing call
\* ended before, wherever that was and whatever was open then.
ErrorsMarkTheEnd ==
    phase = "closed" =>
        /\ result \in Verdicts => {"results", "errors", "end_time"} \subseteq w.doc.top
        /\ "errors" \in w.doc.top => result \in Verdicts
=============================================================================
