------------------------------- MODULE BenchRun -------------------------------
(***************************************************************************)
(* The benchmark harness of src/common.cu: run() starts nThreads threads   *)
(* per process, every thread walks through TimeTest and BenchTime (lines   *)
(* 720-970) for each message size, out of place and then in place, and     *)
(* thread 0 joins the others, sums their errors over MPI and turns them    *)
(* into the exit code.                                                     *)
(*                                                                         *)
(* The code of a thread is straight-line but for one break, so it is laid  *)
(* out as a sequence of operations, built function by function from the    *)
(* command-line options, and walked with a program counter.  Barrier() and *)
(* Allreduce() are the abstract RoundBarrier that ThreadBarrier and        *)
(* ThreadAllreduce implement.  NCCL is external: a collective runs once    *)
(* every rank has launched it and then finishes on each rank's stream in   *)
(* its own time.  A thread drives one GPU (nGpus = 1): one rank.           *)
(***************************************************************************)
EXTENDS Integers, FiniteSets, Sequences, SequencesExt, Functions

CONSTANTS Procs, N,          \* MPI processes; threads of a process
          Options,           \* the command lines under study
          MaxMishaps         \* bound: deliveries NCCL gets wrong and calls
                             \* that return an error, together

\* A command line: -w, -n, -m (collectives per group), -z (blocking), -G
\* (launches of a captured graph, 0 for none), -c (datacheck), the number of
\* message sizes of the sweep, and whether -T is given.  -z 3 with -G is
\* refused at 1504-1507.  inPlace: the benchmark's collective has an in-place
\* form (not so alltoall.cu, alltoallv.cu, sendrecv.cu); minBw: the environment
\* sets NCCL_TESTS_MIN_BW.
CommandLine ==
    {o \in [warmup : Nat, iters : Nat \ {0}, agg : Nat \ {0}, blocking : 0 .. 3,
            graph : Nat, datacheck : Nat, sizes : Nat \ {0}, timeout : BOOLEAN,
            inPlace : BOOLEAN, minBw : BOOLEAN] :
        ~(o.blocking = 3 /\ o.graph > 0)}

ASSUME OptionsAssumption ==
    /\ IsFiniteSet(Procs)
    /\ N \in Nat \ {0}
    /\ Options \subseteq CommandLine
    /\ MaxMishaps \in Nat

Threads == 0 .. N - 1
Members == Procs \X Threads
MainOf(p) == <<p, 0>>

-----------------------------------------------------------------------------
(* The program of a thread under the command line o.                       *)

Op(name) == [op |-> name]
Do(name) == <<Op(name)>>
When(cond, ops) == IF cond THEN ops ELSE <<>>
Times(n, ops) == FlattenSeq([i \in 1 .. n |-> ops])

\* initData: fill the buffers with the data of repetition r (99: warm-up).
InitData(r, in_place) == <<[op |-> "init", tag |-> <<r, in_place>>]>>

\* Lines 554-653.  -z 1 and 2 wait for the stream, -z 1 for everyone as well.
StartColl(o) ==
    Do("launch") \o When(o.blocking \in {1, 2}, Do("sync"))
                 \o When(o.blocking = 1, Do("barrier"))

\* Lines 655-660: no need to wait again for what startColl has waited for,
\* unless a group was open then and nothing had been launched.
CompleteCollNeverAfterBlocking(o) == When(o.blocking \notin {1, 2}, Do("sync"))
CompleteCollTrustingZ3(o) == When(~(o.blocking # 0 /\ o.agg <= 1), Do("sync"))
CompleteColl(o) == When(~(o.blocking \in {1, 2} /\ o.agg <= 1), Do("sync"))

\* Lines 720-733: warm-up, then everyone meets before the clock starts.
WarmUp(o, in_place) ==
    When(o.datacheck > 0, InitData(99, in_place)) \o Times(o.warmup, StartColl(o))
        \o CompleteColl(o) \o Do("barrier")

\* Lines 757-771, one timed iteration.
Iteration(o) ==
    When(o.agg > 1, Do("groupStart")) \o Times(o.agg, StartColl(o))
        \o When(o.agg > 1, Do("groupEnd"))
        \o When(o.blocking = 3, Do("sync") \o Do("barrier"))

\* Lines 736-811 and 826: the timed loop, straight or captured into a graph,
\* the reading of the clock and its reduction over all threads.
Timed(o) ==
    (IF o.graph = 0
       THEN Do("startClock") \o Times(o.iters, Iteration(o))
       ELSE Do("capture") \o Times(o.iters, Iteration(o)) \o Do("endCapture")
              \o Do("barrier") \o Do("startClock") \o Times(o.graph, Do("graph")))
    \o CompleteColl(o) \o Do("stopClock") \o Do("allreduce") \o Do("barrier")

\* Lines 831-884, the check of one iteration up to the vote on it.
CheckRound(o, r, in_place) ==
    InitData(r, in_place) \o When(o.graph > 0, Do("capture")) \o StartColl(o)
        \o When(o.graph > 0, Do("endCapture") \o Do("graph"))
        \o CompleteColl(o) \o Do("check")

\* The rounds the break at 883 jumps over.
RoundsLeft(o, c) == o.datacheck - c

\* All of them: a vote against the data jumps over the rounds that are left.
CheckLoop(o, r, in_place) ==
    LET size == Len(CheckRound(o, r, in_place)) + 1
    IN  FlattenSeq([c \in 1 .. o.datacheck |->
            CheckRound(o, r, in_place)
              \o <<[op |-> "vote", skip |-> RoundsLeft(o, c) * size]>>])

\* BenchTime (720-926); rep is the thread_local count of its calls.
BenchTime(o, rep, in_place) == WarmUp(o, in_place) \o Timed(o) \o CheckLoop(o, rep, in_place)

\* TimeTest (942-970): out of place and in place for every size.
TimeTest(o) ==
    Do("barrier") \o FlattenSeq([s \in 1 .. o.sizes |->
        BenchTime(o, 2 * s - 1, 0) \o BenchTime(o, 2 * s, 1)])

\* run() (1829-1958): thread 0 is the main thread; it joins the others from
\* the highest index down, reduces the errors over MPI, and frees what the
\* process holds before it comes to its verdict.
JoinAll == [i \in 1 .. N - 1 |-> [op |-> "join", thread |-> N - i]]
MainProgram(o) == TimeTest(o) \o JoinAll \o Do("reduce") \o Do("free")
Program(o, t) == IF t = 0 THEN MainProgram(o) ELSE TimeTest(o)
Programs == [o \in Options |-> [t \in Threads |-> Program(o, t)]]

-----------------------------------------------------------------------------
VARIABLES
    opt,         \* the command line
    pc,          \* pc[m], next operation of thread m
    status,      \* status[m]: "run", "done", "failed" (returned an error)
    exit,        \* exit[p]: "none" while running, or how process p ended
    stream,      \* stream[m], collectives launched on the rank's stream
    finished,    \* finished[m], of those, complete
    group,       \* group[m], launches held back by ncclGroupStart
    graph,       \* graph[m], launches captured
    inGroup, capturing,
    ran,         \* external: the tags of the buffers each collective combined
    buf,         \* buf[m], tag of the data in the send buffer
    recv,        \* recv[m], the set of tags the receive buffer was made of
    reportErrors,\* reportErrors[m], args->reportErrors
    clock,       \* clock[m]: "off", "on", "read"
    wrong,       \* wrong[m], 1 if the last check failed on this rank
    votes,       \* votes[m], what m brought to each of its Allreduce calls
    errors,      \* errors[m], *args->errors
    slow,        \* the processes that found their bandwidth too low
    bEntered, bLeft, aEntered, aLeft, rEntered, rLeft,
    \* Histories: the repetitions m's check found wrong elements in, bad
    \* deliveries, failed calls of the test, processes that failed to free.
    bad, corrupted, faults, unfreed

barriers == <<bEntered, bLeft, aEntered, aLeft, rEntered, rLeft>>
device == <<stream, finished, group, graph, inGroup, capturing, ran>>
data == <<buf, recv, reportErrors>>
result == <<wrong, votes, errors, bad>>
mishaps == <<corrupted, faults, unfreed>>
vars == <<opt, pc, status, exit, device, data, clock, result, barriers, slow, mishaps>>

B == INSTANCE RoundBarrier WITH entered <- bEntered, left <- bLeft
A == INSTANCE RoundBarrier WITH entered <- aEntered, left <- aLeft
R == INSTANCE RoundBarrier WITH Members <- Procs, entered <- rEntered, left <- rLeft

Code(m) == Programs[opt][m[2]]

Zero == [m \in Members |-> 0]
No == [m \in Members |-> FALSE]
Garbage == <<0, 0>>       \* the tag of data no initData has written

Init ==
    /\ opt \in Options
    /\ pc = [m \in Members |-> 1]
    /\ status = [m \in Members |-> "run"]
    /\ exit = [p \in Procs |-> "none"]
    /\ stream = Zero /\ finished = Zero /\ group = Zero /\ graph = Zero
    /\ inGroup = No /\ capturing = No
    /\ ran = <<>>
    /\ buf = [m \in Members |-> Garbage]
    /\ recv = [m \in Members |-> {}]
    /\ reportErrors = [m \in Members |-> opt.datacheck]
    /\ clock = [m \in Members |-> "off"]
    /\ wrong = Zero /\ errors = Zero
    /\ votes = [m \in Members |-> <<>>]
    /\ B!Init /\ A!Init /\ R!Init
    /\ slow = {} /\ unfreed = {}
    /\ bad = [m \in Members |-> {}]
    /\ corrupted = 0 /\ faults = 0

TypeOK ==
    /\ opt \in Options
    /\ \A m \in Members : pc[m] \in 1 .. Len(Code(m)) + 1
    /\ status \in [Members -> {"run", "done", "failed"}]
    /\ exit \in [Procs -> {"none", "success", "numResults", "error", "terminate"}]
    /\ {stream, finished, group, graph, errors} \subseteq [Members -> Nat]
    /\ wrong \in [Members -> {0, 1}]
    /\ \A m \in Members : finished[m] <= Len(ran) /\ Len(ran) <= stream[m]
    /\ clock \in [Members -> {"off", "on", "read"}]
    /\ reportErrors \in [Members -> Nat]
    /\ slow \subseteq Procs /\ unfreed \subseteq Procs
    /\ {corrupted, faults} \subseteq Nat

-----------------------------------------------------------------------------
Running(m) == status[m] = "run" /\ exit[m[1]] = "none"
Here(m) == Code(m)[pc[m]]
At(m, name) == Running(m) /\ pc[m] <= Len(Code(m)) /\ Here(m).op = name
Goto(m, to) == pc' = [pc EXCEPT ![m] = to]
Advance(m) == Goto(m, pc[m] + 1)

Quiet(m) == finished[m] = stream[m]

\* Without an in-place form initData also turns reportErrors off in place and
\* on out of place (alltoall.cu:44, alltoallv.cu:463, sendrecv.cu:34).
DoInit(m) ==
    /\ At(m, "init")
    /\ buf' = [buf EXCEPT ![m] = Here(m).tag]
    /\ recv' = [recv EXCEPT ![m] = {}]
    /\ reportErrors' = IF opt.inPlace THEN reportErrors
                       ELSE [reportErrors EXCEPT ![m] = 1 - Here(m).tag[2]]
    /\ Advance(m)
    /\ UNCHANGED <<opt, status, exit, device, clock, result, barriers, slow, mishaps>>

\* runColl: onto the stream, into the open group or into the graph.
Enqueue(m, n) ==
    IF capturing[m]
      THEN graph' = [graph EXCEPT ![m] = @ + n] /\ UNCHANGED stream
      ELSE stream' = [stream EXCEPT ![m] = @ + n] /\ UNCHANGED graph

Launch(m) ==
    /\ At(m, "launch")
    /\ IF inGroup[m]
         THEN group' = [group EXCEPT ![m] = @ + 1] /\ UNCHANGED <<stream, graph>>
         ELSE Enqueue(m, 1) /\ UNCHANGED group
    /\ Advance(m)
    /\ UNCHANGED <<opt, status, exit, finished, inGroup, capturing, ran, data, clock,
                   result, barriers, slow, mishaps>>

GroupStart(m) ==
    /\ At(m, "groupStart")
    /\ inGroup' = [inGroup EXCEPT ![m] = TRUE]
    /\ Advance(m)
    /\ UNCHANGED <<opt, status, exit, stream, finished, group, graph, capturing, ran,
                   data, clock, result, barriers, slow, mishaps>>

GroupEnd(m) ==
    /\ At(m, "groupEnd")
    /\ Enqueue(m, group[m])
    /\ group' = [group EXCEPT ![m] = 0]
    /\ inGroup' = [inGroup EXCEPT ![m] = FALSE]
    /\ Advance(m)
    /\ UNCHANGED <<opt, status, exit, finished, capturing, ran, data, clock, result,
                   barriers, slow, mishaps>>

Capture(m) ==
    /\ At(m, "capture")
    /\ capturing' = [capturing EXCEPT ![m] = TRUE]
    /\ graph' = [graph EXCEPT ![m] = 0]
    /\ Advance(m)
    /\ UNCHANGED <<opt, status, exit, stream, finished, group, inGroup, ran, data,
                   clock, result, barriers, slow, mishaps>>

EndCapture(m) ==
    /\ At(m, "endCapture")
    /\ capturing' = [capturing EXCEPT ![m] = FALSE]
    /\ Advance(m)
    /\ UNCHANGED <<opt, status, exit, stream, finished, group, graph, inGroup, ran,
                   data, clock, result, barriers, slow, mishaps>>

GraphLaunch(m) ==
    /\ At(m, "graph")
    /\ stream' = [stream EXCEPT ![m] = @ + graph[m]]
    /\ Advance(m)
    /\ UNCHANGED <<opt, status, exit, finished, group, graph, inGroup, capturing, ran,
                   data, clock, result, barriers, slow, mishaps>>

\* testStreamSynchronize (496-552) polls until the stream is empty.
Sync(m) ==
    /\ At(m, "sync")
    /\ ~capturing[m]
    /\ Quiet(m)
    /\ Advance(m)
    /\ UNCHANGED <<opt, status, exit, device, data, clock, result, barriers, slow, mishaps>>

StartClock(m) ==
    /\ At(m, "startClock")
    /\ clock' = [clock EXCEPT ![m] = "on"]
    /\ Advance(m)
    /\ UNCHANGED <<opt, status, exit, device, data, result, barriers, slow, mishaps>>

StopClock(m) ==
    /\ At(m, "stopClock")
    /\ clock' = [clock EXCEPT ![m] = "read"]
    /\ Advance(m)
    /\ UNCHANGED <<opt, status, exit, device, data, result, barriers, slow, mishaps>>

\* CheckData (449-494) compares with what all ranks' data of this repetition
\* should give; the wrong elements are voted on all the same, but a failed
\* check counts as an error only where errors are reported (492).
Reports(m) == reportErrors[m] # 0
Check(m) ==
    /\ At(m, "check")
    /\ IF recv[m] = {buf[m]}
         THEN /\ wrong' = [wrong EXCEPT ![m] = 0]
              /\ UNCHANGED <<errors, bad>>
         ELSE /\ wrong' = [wrong EXCEPT ![m] = 1]
              /\ errors' = [errors EXCEPT ![m] = @ + IF Reports(m) THEN 1 ELSE 0]
              /\ bad' = [bad EXCEPT ![m] = @ \cup {buf[m]}]
    /\ Advance(m)
    /\ UNCHANGED <<opt, status, exit, device, data, clock, votes, barriers, slow, mishaps>>

EnterBarrier(m) ==
    /\ At(m, "barrier")
    /\ B!Enter(m)
    /\ UNCHANGED <<opt, pc, status, exit, device, data, clock, result,
                   aEntered, aLeft, rEntered, rLeft, slow, mishaps>>

LeaveBarrier(m) ==
    /\ At(m, "barrier")
    /\ B!Leave(m)
    /\ Advance(m)
    /\ UNCHANGED <<opt, status, exit, device, data, clock, result,
                   aEntered, aLeft, rEntered, rLeft, slow, mishaps>>

\* Allreduce of the time (811) or of the number of wrong elements (881).
EnterAllreduce(m) ==
    /\ At(m, "allreduce") \/ At(m, "vote")
    /\ A!Enter(m)
    /\ votes' = [votes EXCEPT ![m] = Append(@, IF Here(m).op = "vote" THEN wrong[m] ELSE 0)]
    /\ UNCHANGED <<opt, pc, status, exit, device, data, clock, wrong, errors, bad,
                   bEntered, bLeft, rEntered, rLeft, slow, mishaps>>

LeaveTime(m) ==
    /\ At(m, "allreduce")
    /\ A!Leave(m)
    /\ Advance(m)
    /\ UNCHANGED <<opt, status, exit, device, data, clock, result,
                   bEntered, bLeft, rEntered, rLeft, slow, mishaps>>

\* The sum of wrong elements over all ranks, and the break at 883.
OwnCount(m) == wrong[m]
TotalWrong(m) == SumFunction([o \in Members |-> votes[o][aEntered[m]]])
LeaveVote(m) ==
    /\ At(m, "vote")
    /\ A!Leave(m)
    /\ Goto(m, pc[m] + 1 + IF TotalWrong(m) # 0 THEN Here(m).skip ELSE 0)
    /\ UNCHANGED <<opt, status, exit, device, data, clock, result,
                   bEntered, bLeft, rEntered, rLeft, slow, mishaps>>

\* A thread other than the main one has run its course (1126-1128).
Return(m) ==
    /\ Running(m) /\ pc[m] > Len(Code(m)) /\ m[2] # 0
    /\ status' = [status EXCEPT ![m] = "done"]
    /\ UNCHANGED <<opt, pc, exit, device, data, clock, result, barriers, slow, mishaps>>

\* Joinable threads that exist when run() returns early: std::terminate.
EarlyReturn(p, unjoined) == IF unjoined = {} THEN "error" ELSE "terminate"

\* TESTCHECK(threads[t].ret)
Succeeded(o) == status[o] = "done"

\* Lines 1880: a joined thread's errors are added to the main thread's.
Forget(a, b) == a
Add(a, b) == a + b

\* Lines 1874-1885: join, stop at a thread that failed, add its errors.
Join(p) ==
    LET m == MainOf(p)
        o == <<p, Here(m).thread>>
    IN  /\ At(m, "join")
        /\ status[o] # "run"
        /\ IF Succeeded(o)
             THEN /\ errors' = [errors EXCEPT ![m] = Add(@, errors[o])]
                  /\ Advance(m)
                  /\ UNCHANGED exit
             ELSE /\ exit' = [exit EXCEPT ![p] = EarlyReturn(p, 1 .. Here(m).thread - 1)]
                  /\ UNCHANGED <<opt, pc, errors>>
        /\ UNCHANGED <<opt, status, device, data, clock, wrong, votes, bad, barriers,
                       slow, mishaps>>

\* Line 1888, MPI_Allreduce of the errors.
EnterReduce(p) ==
    /\ At(MainOf(p), "reduce")
    /\ R!Enter(p)
    /\ UNCHANGED <<opt, pc, status, exit, device, data, clock, result,
                   bEntered, bLeft, aEntered, aLeft, slow, mishaps>>

LeaveReduce(p) ==
    /\ At(MainOf(p), "reduce")
    /\ R!Leave(p)
    /\ Advance(MainOf(p))
    /\ UNCHANGED <<opt, status, exit, device, data, clock, result,
                   bEntered, bLeft, aEntered, aLeft, slow, mishaps>>

\* Lines 1894-1929: deregistering the buffers, destroying the communicators and
\* freeing the memory may fail, and run() then returns, with no thread left to
\* join and behind the reduction: the other processes do not hear of it.
Mishaps == corrupted + faults + Cardinality(unfreed)
FailToFree(p) ==
    /\ At(MainOf(p), "free")
    /\ Mishaps < MaxMishaps
    /\ unfreed' = unfreed \cup {p}
    /\ exit' = [exit EXCEPT ![p] = EarlyReturn(p, {})]
    /\ UNCHANGED <<opt, pc, status, device, data, clock, result, barriers, slow,
                   corrupted, faults>>

\* Lines 1955-1958, the verdict.  The main threads' errors do not change any
\* more once they have entered the reduction, so that their sum may be taken
\* here.  The bandwidth is the average over the process's own threads (1882,
\* 1933); whether it falls short of the wanted one is the clock's business.
OwnErrors(p) == errors[MainOf(p)]
AllErrors(p) == SumFunction([q \in Procs |-> errors[MainOf(q)]])
Exit(p) ==
    /\ At(MainOf(p), "free")
    /\ \E tooSlow \in IF opt.minBw THEN BOOLEAN ELSE {FALSE} :
          /\ slow' = IF tooSlow THEN slow \cup {p} ELSE slow
          /\ exit' = [exit EXCEPT ![p] =
                        IF AllErrors(p) # 0 \/ tooSlow THEN "numResults" ELSE "success"]
    /\ UNCHANGED <<opt, pc, status, device, data, clock, result, barriers, mishaps>>

\* A call under TESTCHECK, NCCLCHECK or CUDACHECK returns an error and the
\* thread returns it; in the main thread run() returns with it at 1870, while
\* the other threads are joinable.  Besides the errors the bound allows,
\* polling a stream that is being captured is one (external: CUDA).
Checked == {"init", "launch", "sync", "check", "groupEnd", "graph"}
TryAgain(m) == UNCHANGED <<status, exit>>
GiveUp(m) ==
    IF m[2] = 0
      THEN /\ exit' = [exit EXCEPT ![m[1]] = EarlyReturn(m[1], Threads \ {0})]
           /\ UNCHANGED status
      ELSE /\ status' = [status EXCEPT ![m] = "failed"]
           /\ UNCHANGED exit

Fail(m) ==
    /\ \E name \in Checked : At(m, name)
    /\ Mishaps < MaxMishaps \/ (Here(m).op = "sync" /\ capturing[m])
    /\ faults' = faults + 1
    /\ GiveUp(m)
    /\ UNCHANGED <<opt, pc, device, data, clock, result, barriers, slow, corrupted, unfreed>>

\* -T: a stream that stays busy (536-546).  Only a rank that has stopped keeps
\* a collective from running, so only then does the clock run out.
Stopped(m) == ~Running(m)
TimeOut(m) ==
    /\ opt.timeout
    /\ At(m, "sync") /\ ~capturing[m]
    /\ finished[m] = Len(ran) /\ ~Quiet(m)
    /\ \E o \in Members : Stopped(o) /\ stream[o] = Len(ran)
    /\ GiveUp(m)
    /\ UNCHANGED <<opt, pc, device, data, clock, result, barriers, slow, mishaps>>

\* External: the next collective runs when every rank has launched it...
RunCollective ==
    /\ \A m \in Members : stream[m] > Len(ran)
    /\ ran' = Append(ran, {buf[m] : m \in Members})
    /\ UNCHANGED <<opt, pc, status, exit, stream, finished, group, graph, inGroup,
                   capturing, data, clock, result, barriers, slow, mishaps>>

\* ... and finishes on each rank, with the wrong data if NCCL has a bug, or if
\* it was told to overwrite the data it still has to send.
Overwrites(tags) == ~opt.inPlace /\ \E tag \in tags : tag[2] = 1
FinishCollective(m) ==
    /\ finished[m] < Len(ran)
    /\ finished' = [finished EXCEPT ![m] = @ + 1]
    /\ \/ recv' = [recv EXCEPT ![m] = ran[finished[m] + 1]] /\ UNCHANGED corrupted
       \/ /\ Mishaps < MaxMishaps
          /\ recv' = [recv EXCEPT ![m] = {Garbage}]
          /\ corrupted' = corrupted + 1
       \/ /\ Overwrites(ran[finished[m] + 1])
          /\ recv' = [recv EXCEPT ![m] = {Garbage}]
          /\ UNCHANGED corrupted
    /\ UNCHANGED <<opt, pc, status, exit, stream, group, graph, inGroup, capturing, ran,
                   buf, reportErrors, clock, result, barriers, slow, faults, unfreed>>

Ended == \A p \in Procs : exit[p] # "none"
\* After a failing call the others may wait for ever.
Done == (Ended \/ faults > 0) /\ UNCHANGED vars

ThreadStep(m) ==
    \/ DoInit(m) \/ Launch(m) \/ GroupStart(m) \/ GroupEnd(m)
    \/ Capture(m) \/ EndCapture(m) \/ GraphLaunch(m) \/ Sync(m)
    \/ StartClock(m) \/ StopClock(m) \/ Check(m)
    \/ EnterBarrier(m) \/ LeaveBarrier(m)
    \/ EnterAllreduce(m) \/ LeaveTime(m) \/ LeaveVote(m)
    \/ Return(m) \/ TimeOut(m)

\* The main thread's way from its last test to the end of its process.
Finish(p) == Join(p) \/ EnterReduce(p) \/ LeaveReduce(p) \/ Exit(p)

Next ==
    \/ \E m \in Members : ThreadStep(m) \/ Fail(m) \/ FinishCollective(m)
    \/ \E p \in Procs : Finish(p) \/ FailToFree(p)
    \/ RunCollective
    \/ Done

Spec == Init /\ [][Next]_vars

\* Threads are scheduled, and NCCL finishes what every rank has launched.
Fairness ==
    /\ \A m \in Members : WF_vars(ThreadStep(m)) /\ WF_vars(FinishCollective(m))
    /\ \A p \in Procs : WF_vars(Finish(p))
    /\ WF_vars(RunCollective)

FairSpec == Spec /\ Fairness

-----------------------------------------------------------------------------
(* Properties.                                                             *)

\* Lockstep: two threads inside the same Barrier() or Allreduce() call stand
\* at the same line of the program.  The break at 883 is the only branch; if it
\* did not fall the same way for all ranks of all processes, phases would be
\* paired up that do not belong together.
Lockstep ==
    \A m, o \in Members :
        \/ B!Inside(m) /\ B!Inside(o) /\ bEntered[m] = bEntered[o]
        \/ A!Inside(m) /\ A!Inside(o) /\ aEntered[m] = aEntered[o]
        => pc[m] = pc[o]

\* The repetitions whose data matter: all of them, but for collectives without
\* an in-place form only those out of place.
Counts(rep) == opt.inPlace \/ rep[2] = 0

\* The check never runs ahead of the stream (completeColl, 655-660), and what
\* it looks at was made by all ranks from data of the repetition it checks: no
\* rank fills its send buffer for the next one (836) while another has still to
\* launch, or the library to run, a collective of the last.  When NCCL delivers
\* correctly no rank ever counts an error, and no check finds one but in place
\* where the collective has no in-place form.
NoFalseAlarm ==
    /\ \A k \in DOMAIN ran : Cardinality(ran[k]) = 1
    /\ \A m \in Members : At(m, "check") => Quiet(m) /\ group[m] = 0
    /\ corrupted = 0 => \A m \in Members :
                           errors[m] = 0 /\ \A rep \in bad[m] : ~Counts(rep)

\* The time that is reported covers all the work and no other: when a thread
\* starts its clock, the warm-up has finished on every rank (731-733), and when
\* it reads it (800), everything it launched has left its stream, in every
\* blocking mode, grouped or not, and the graph launches as well.
ClockCoversWork ==
    /\ \A m, o \in Members : At(m, "startClock") => finished[o] >= stream[m]
    /\ \A m \in Members : At(m, "stopClock") => Quiet(m) /\ group[m] = 0

\* The exit code tells the truth.  With the check on, a process ends with
\* testSuccess only if no check of any rank of any process found wrong elements
\* in a repetition that counts (492, 1880, 1888, 1955), whatever votes about
\* others made the ranks break; and with testNumResults only if some check did
\* or its own bandwidth was too low, so that processes disagree over nothing
\* else.
VerdictIsTrue ==
    opt.datacheck > 0 =>
        \A p \in Procs :
            /\ exit[p] = "success" =>
                  /\ p \notin slow
                  /\ \A m \in Members : \A rep \in bad[m] : ~Counts(rep)
            /\ exit[p] = "numResults" =>
                  \/ p \in slow
                  \/ \E m \in Members : \E rep \in bad[m] : Counts(rep)

\* No failed call of a test is lost: if any call of any thread failed before the
\* errors were reduced, no process gets as far as a verdict, whoever failed and
\* wherever the others were then.  A process that fails afterwards, to free what
\* it holds, ends without a verdict of its own but leaves the others theirs.
NoVerdictAfterFault ==
    \A p \in Procs : exit[p] \in {"success", "numResults"} =>
        /\ faults = 0
        /\ \A m \in Members : status[m] # "failed"
        /\ \A q \in Procs : exit[q] \in {"error", "terminate"} => q \in unfreed

\* Without failing calls every process comes to its end: no barrier, vote,
\* stream or join is left waiting, whichever check fails.
EveryProcessEnds == <>(Ended \/ faults > 0)

=============================================================================
