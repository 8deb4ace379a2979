------------------------------ MODULE GinTests ------------------------------
(***************************************************************************)
(* The latency and throughput tests of device-initiated networking         *)
(* (src/src/device_api/gin): two ranks, each a host thread that walks the  *)
(* sizes, a stream it queues events and kernels on, the threads of the     *)
(* kernel that runs, and the network interface that carries out what they  *)
(* post.  Sizes count elements of four bytes.                              *)
(*                                                                         *)
(* A kernel is a program per thread: the steps of its iterations in order, *)
(* then the steps after its loop.  Of the buffer only the last element of  *)
(* each size is kept: nothing else is ever read by a test.                 *)
(***************************************************************************)
EXTENDS Integers, Sequences, FiniteSets, Bags, SequencesExt

CONSTANTS
    Configs,        \* what parse_args and configure_test_args let through
    SizeModulus,    \* 2^64 of a size_t, in elements
    WarpSize        \* --gin_ag wants a multiple of it: 32

Ranks == {0, 1}
Peer(r) == 1 - r

Types == {"ping", "pingpong", "throughput"}
Operations == {"put", "put_signal", "put_counter", "signal", "get"}

\* What an operation takes of the send queue.
wqesPerOp(c) == IF c.op \in {"put_signal", "put_counter"} THEN 2 ELSE 1
wqesPerIter(c) == c.num_threads * wqesPerOp(c)

\* Nothing asks for a queue that one iteration fits into.
Valid(c) ==
    /\ c.type \in Types /\ c.op \in Operations
    /\ {c.minbytes, c.maxbytes, c.warmup_iters, c.iters, c.num_ctas, c.num_threads, c.queue_depth}
          \subseteq Nat
    /\ {c.ag, c.bidir, c.skip} \subseteq BOOLEAN
    /\ 0 < c.minbytes /\ c.minbytes <= c.maxbytes /\ c.maxbytes < SizeModulus
    /\ c.stepbytes \in 0 .. SizeModulus - 1 /\ c.stepfactor \in Nat
    /\ c.stepfactor > 1 \/ c.stepbytes # 0
    /\ c.iters > 0
    /\ c.num_ctas > 0 /\ c.num_threads > 0 /\ c.queue_depth > 0
    /\ c.type # "throughput" => c.num_ctas = 1 /\ c.num_threads = 1 /\ ~c.ag /\ ~c.bidir
    /\ c.type = "pingpong" => c.op \in {"put", "put_signal", "signal"}
    /\ c.ag => c.num_threads % WarpSize = 0

ASSUME ConfigsAssumption ==
    /\ SizeModulus \in Nat \ {0} /\ WarpSize \in Nat \ {0}
    /\ \A c \in Configs : Valid(c)

VARIABLES
    config,      \* the command line, the same on both ranks
    host,        \* per rank: where gin_perf_run is, and the size
    stream,      \* per rank: what was queued and has not finished
    pos,         \* per rank: the next step of each thread of the kernel
    queue,       \* per rank and CTA: operations held back, posted, and read
    wire,        \* per rank: a bag of what is under way to it
    lastElem,    \* per rank and size: the last element of the buffer
    signal,      \* per rank: signal 0
    counter,     \* per rank: counter 0
    sent,        \* per rank: turns it has given away, of all launches
    taken,       \* per rank: turns it has taken, of all launches
    completed,   \* per rank: operations completed since the start event
    timed        \* per rank: completed, when the stop event was recorded
gin == <<queue, wire, lastElem, signal, counter, sent, taken, completed>>
vars == <<config, host, stream, pos, gin, timed>>

participates(r) == config.type = "pingpong" \/ config.bidir \/ r = 0
measures(r) == r = 0 \/ config.bidir
Ctas == 0 .. config.num_ctas - 1
Threads == 0 .. config.num_threads - 1
lastActive == config.num_threads - 1

(***************************************************************************)
(* The kernels.                                                            *)
(***************************************************************************)
\* As a bug might have it: the threads of the block are forgotten.
FlushEveryPerThread(c) == IF c.queue_depth \div 2 < 1 THEN 1 ELSE c.queue_depth \div 2
flushEvery(c) ==
    LET wqes == IF c.type = "throughput" THEN wqesPerIter(c) ELSE 1
        every == (c.queue_depth \div 2) \div wqes
    IN  IF every < 1 THEN 1 ELSE every

Step(name, i) == [do |-> name, i |-> i]
\* A flush of the loop: the pings make one in every iteration.
LoopFlush(c, i) ==
    IF \/ c.type = "ping" /\ c.op # "put_counter"
       \/ c.skip /\ i % flushEvery(c) = 0
    THEN <<Step("flush", i)>> ELSE <<>>

\* With --gin_ag the last thread posts when the others have: its operation
\* rings the doorbell for all.
Posting(c, t, i) ==
    IF ~c.ag THEN <<Step("post", i)>>
    ELSE IF t # c.num_threads - 1 THEN <<Step("post", i), Step("gather", i)>>
    ELSE <<Step("gather", i), Step("post", i)>>

Throughput(c, t, i) == Posting(c, t, i) \o (IF c.skip THEN LoopFlush(c, i) ELSE <<Step("meet", i)>>)

\* Rank 1 serves: it posts before it takes its turn.
PingPong(c, r, i) ==
    IF r = 0 THEN <<Step("turn", i), Step("post", i)>> \o LoopFlush(c, i)
             ELSE <<Step("post", i)>> \o LoopFlush(c, i) \o <<Step("turn", i)>>

Ping(c, i) ==
    <<Step("post", i)>> \o LoopFlush(c, i) \o (IF c.op = "put_counter" THEN <<Step("count", i)>> ELSE <<>>)

Iteration(c, r, t, i) ==
    CASE c.type = "throughput" -> Throughput(c, t, i)
      [] c.type = "pingpong" -> PingPong(c, r, i)
      [] c.type = "ping" -> Ping(c, i)

\* As a bug might have it: the signal keeps its count.
KeepSignal(c, n) == IF c.type = "ping" THEN <<>> ELSE <<Step("flush", n)>>
\* As a bug might have it: the kernel ends with the loop.
EndWithLoop(c, n) == IF c.type = "pingpong" /\ c.op # "put" THEN <<Step("reset", n)>> ELSE <<>>
AfterLoop(c, n) ==
    CASE c.type = "pingpong" /\ c.op # "put" -> <<Step("reset", n), Step("flush", n)>>
      [] c.op = "put_counter" -> <<Step("flush", n), Step("reset", n)>>
      [] c.type = "ping" /\ c.op # "put_counter" -> <<>>
      [] OTHER -> <<Step("flush", n)>>

Program(c, r, t, iters) ==
    FlattenSeq([k \in 1 .. iters |-> Iteration(c, r, t, k - 1)]) \o AfterLoop(c, iters)

Start == [do |-> "start"]
Stop == [do |-> "stop"]
Kernel(iters) == [do |-> "kernel", iters |-> iters]
AtStart == [ct \in Ctas \X Threads |-> 1]

Running(r) == stream[r] # <<>> /\ Head(stream[r]).do = "kernel"
\* What thread t of CTA c does next, on rank r.
At(r, c, t, do) ==
    LET program == Program(config, r, t, Head(stream[r]).iters)
    IN  /\ pos[r][<<c, t>>] <= Len(program)
        /\ program[pos[r][<<c, t>>]].do = do
IterationOf(r, c, t) == Program(config, r, t, Head(stream[r]).iters)[pos[r][<<c, t>>]].i
Advance(r, c, t) == pos' = [pos EXCEPT ![r][<<c, t>>] = @ + 1]
\* __syncthreads and the operations of a whole CTA.
CtaAt(r, c, do) == \A t \in Threads : At(r, c, t, do)
AdvanceCta(r, c) == pos' = [pos EXCEPT ![r] = [ct \in Ctas \X Threads |-> IF ct[1] = c THEN @[ct] + 1 ELSE @[ct]]]

(***************************************************************************)
(* The two sides of a ping-pong write 1, 2, ... and -1, -2, ...            *)
(***************************************************************************)
Sign(r, i) == IF r = 1 THEN i + 1 ELSE -(i + 1)
MyTurn(r, i) ==
    IF config.op = "put" THEN lastElem[r][host[r].size] = Sign(Peer(r), i)
                         ELSE signal[r] >= i + 1

Turn(r, c, t) ==
    /\ Running(r) /\ At(r, c, t, "turn")
    /\ MyTurn(r, IterationOf(r, c, t))
    /\ taken' = [taken EXCEPT ![r] = @ + 1]
    /\ Advance(r, c, t)
    /\ UNCHANGED <<config, host, stream, queue, wire, lastElem, signal, counter, sent, completed, timed>>

Wqes(q) == wqesPerOp(config) * (q.held + q.posted + q.read)
Credit(q) == config.skip \/ Wqes(q) + wqesPerOp(config) <= config.queue_depth

\* A held operation waits for the doorbell of one that is not.
Enqueue(q, t) ==
    IF config.ag /\ t # lastActive THEN [q EXCEPT !.held = @ + 1]
    ELSE [q EXCEPT !.held = 0, !.posted = @ + q.held + 1]

Post(r, c, t) ==
    /\ Running(r) /\ At(r, c, t, "post")
    /\ Credit(queue[r][c])
    /\ queue' = [queue EXCEPT ![r][c] = Enqueue(@, t)]
    /\ IF config.type = "pingpong"
       THEN /\ sent' = [sent EXCEPT ![r] = @ + 1]
            /\ lastElem' = IF config.op # "put" THEN lastElem
                           ELSE [lastElem EXCEPT ![r][host[r].size] = Sign(r, IterationOf(r, c, t))]
       ELSE UNCHANGED <<sent, lastElem>>
    /\ Advance(r, c, t)
    /\ UNCHANGED <<config, host, stream, wire, signal, counter, taken, completed, timed>>

\* Of the aggregated posts, or at the end of an iteration.
Syncthreads(r, c) ==
    /\ Running(r)
    /\ \/ CtaAt(r, c, "gather")
       \/ CtaAt(r, c, "meet")
    /\ AdvanceCta(r, c)
    /\ UNCHANGED <<config, host, stream, gin, timed>>

Idle(q) == q.held + q.posted + q.read = 0
Flush(r, c) ==
    /\ Running(r) /\ CtaAt(r, c, "flush")
    /\ Idle(queue[r][c])
    /\ AdvanceCta(r, c)
    /\ UNCHANGED <<config, host, stream, gin, timed>>

WaitCounter(r, c, t) ==
    /\ Running(r) /\ At(r, c, t, "count")
    /\ counter[r] >= IterationOf(r, c, t) + 1
    /\ Advance(r, c, t)
    /\ UNCHANGED <<config, host, stream, gin, timed>>

Reset(r, c, t) ==
    /\ Running(r) /\ At(r, c, t, "reset")
    /\ IF config.op = "put_counter"
       THEN counter' = [counter EXCEPT ![r] = 0] /\ UNCHANGED signal
       ELSE signal' = [signal EXCEPT ![r] = 0] /\ UNCHANGED counter
    /\ Advance(r, c, t)
    /\ UNCHANGED <<config, host, stream, queue, wire, lastElem, sent, taken, completed, timed>>

(***************************************************************************)
(* The network interface, in any order: it reads what is to be sent from   *)
(* the buffer when it comes to the operation, it completes the operation,  *)
(* and the peer sees it, each in its own time.                             *)
(***************************************************************************)
Payload(r) == IF config.op # "put" THEN [do |-> "signal"]
              ELSE [do |-> "write", size |-> host[r].size, sign |-> lastElem[r][host[r].size]]

Read(r, c) ==
    /\ queue[r][c].posted > 0
    /\ queue' = [queue EXCEPT ![r][c].posted = @ - 1, ![r][c].read = @ + 1]
    /\ wire' = IF config.type # "pingpong" THEN wire
               ELSE [wire EXCEPT ![Peer(r)] = @ (+) SetToBag({Payload(r)})]
    /\ UNCHANGED <<config, host, stream, pos, lastElem, signal, counter, sent, taken, completed, timed>>

Complete(r, c) ==
    /\ queue[r][c].read > 0
    /\ queue' = [queue EXCEPT ![r][c].read = @ - 1]
    /\ counter' = IF config.op # "put_counter" THEN counter ELSE [counter EXCEPT ![r] = @ + 1]
    /\ completed' = [completed EXCEPT ![r] = @ + 1]
    /\ UNCHANGED <<config, host, stream, pos, wire, lastElem, signal, sent, taken, timed>>

Land(r) ==
    \E m \in BagToSet(wire[r]) :
        /\ wire' = [wire EXCEPT ![r] = @ (-) SetToBag({m})]
        /\ IF m.do = "write"
           THEN lastElem' = [lastElem EXCEPT ![r][m.size] = m.sign] /\ UNCHANGED signal
           ELSE signal' = [signal EXCEPT ![r] = @ + 1] /\ UNCHANGED lastElem
        /\ UNCHANGED <<config, host, stream, pos, queue, counter, sent, taken, completed, timed>>

(***************************************************************************)
(* The stream: events are recorded, and a kernel ends when its threads     *)
(* have.                                                                   *)
(***************************************************************************)
RecordStart(r) ==
    /\ stream[r] # <<>> /\ Head(stream[r]) = Start
    /\ stream' = [stream EXCEPT ![r] = Tail(@)]
    /\ completed' = [completed EXCEPT ![r] = 0]
    /\ timed' = [timed EXCEPT ![r] = 0]
    /\ UNCHANGED <<config, host, pos, queue, wire, lastElem, signal, counter, sent, taken>>

RecordStop(r) ==
    /\ stream[r] # <<>> /\ Head(stream[r]) = Stop
    /\ stream' = [stream EXCEPT ![r] = Tail(@)]
    /\ timed' = [timed EXCEPT ![r] = completed[r]]
    /\ UNCHANGED <<config, host, pos, gin>>

KernelEnds(r) ==
    /\ Running(r)
    /\ \A c \in Ctas, t \in Threads :
           pos[r][<<c, t>>] > Len(Program(config, r, t, Head(stream[r]).iters))
    /\ stream' = [stream EXCEPT ![r] = Tail(@)]
    /\ pos' = [pos EXCEPT ![r] = AtStart]
    /\ UNCHANGED <<config, host, gin, timed>>

(***************************************************************************)
(* gin_perf_run, after the setup.                                          *)
(***************************************************************************)
Goto(r, pc) == host' = [host EXCEPT ![r].pc = pc]
HostFrame == UNCHANGED <<config, pos, gin, timed>>

next_size(size) ==
    IF config.stepbytes # 0 THEN (size + config.stepbytes) % SizeModulus
    ELSE (size * config.stepfactor) % SizeModulus

WarmUp(r) ==
    /\ host[r].pc = "warmup"
    /\ IF config.warmup_iters > 0 /\ participates(r)
       THEN /\ stream' = [stream EXCEPT ![r] = Append(@, Kernel(config.warmup_iters))]
            /\ Goto(r, "warming")
       ELSE Goto(r, "ready") /\ UNCHANGED stream
    /\ HostFrame

WarmedUp(r) ==
    /\ host[r].pc = "warming" /\ stream[r] = <<>>
    /\ Goto(r, "ready")
    /\ HostFrame /\ UNCHANGED stream

\* MPI_Barrier: nobody returns before both have called it.
Barrier(from, to) ==
    /\ \A r \in Ranks : host[r].pc = from
    /\ host' = [r \in Ranks |-> [host[r] EXCEPT !.pc = to]]
    /\ HostFrame /\ UNCHANGED stream

Measure(r) ==
    /\ host[r].pc = "measure"
    /\ stream' = [stream EXCEPT ![r] =
                     @ \o (IF measures(r) THEN <<Start>> ELSE <<>>)
                       \o (IF participates(r) THEN <<Kernel(config.iters)>> ELSE <<>>)
                       \o (IF measures(r) THEN <<Stop>> ELSE <<>>)]
    /\ Goto(r, "measuring")
    /\ HostFrame

Measured(r) ==
    /\ host[r].pc = "measuring"
    /\ participates(r) => stream[r] = <<>>
    /\ Goto(r, IF config.bidir THEN "reduce" ELSE "closing")
    /\ HostFrame /\ UNCHANGED stream

\* MPI_Reduce to rank 0, which needs what rank 1 gives; rank 1 need not wait.
Reduce(r) ==
    /\ host[r].pc = "reduce"
    /\ r = 0 => host[1].pc = "closing"
    /\ Goto(r, "closing")
    /\ HostFrame /\ UNCHANGED stream

NextSize(r) ==
    /\ host[r].pc = "next"
    /\ LET next == next_size(host[r].size)
       IN  IF next <= host[r].size \/ next > config.maxbytes
           THEN Goto(r, "finished")
           ELSE host' = [host EXCEPT ![r] = [pc |-> "warmup", size |-> next]]
    /\ HostFrame /\ UNCHANGED stream

Init ==
    /\ config \in Configs
    /\ host = [r \in Ranks |-> [pc |-> "warmup", size |-> config.minbytes]]
    /\ stream = [r \in Ranks |-> <<>>]
    /\ pos = [r \in Ranks |-> AtStart]
    /\ queue = [r \in Ranks |-> [c \in Ctas |-> [held |-> 0, posted |-> 0, read |-> 0]]]
    /\ wire = [r \in Ranks |-> EmptyBag]
    /\ lastElem = [r \in Ranks |-> [n \in config.minbytes .. config.maxbytes |-> 0]]
    /\ signal = [r \in Ranks |-> 0] /\ counter = [r \in Ranks |-> 0]
    /\ sent = [r \in Ranks |-> 0] /\ taken = [r \in Ranks |-> 0]
    /\ completed = [r \in Ranks |-> 0] /\ timed = [r \in Ranks |-> 0]

Host(r) ==
    \/ WarmUp(r) \/ WarmedUp(r) \/ Measure(r) \/ Measured(r) \/ Reduce(r) \/ NextSize(r)
\* As a bug might have it: a rank goes on with the next size by itself.
NoClosingBarrier ==
    \/ Barrier("ready", "measure")
    \/ \E r \in Ranks : host[r].pc = "closing" /\ Goto(r, "next") /\ HostFrame /\ UNCHANGED stream
    \/ Barrier("finished", "done")
Barriers ==
    \/ Barrier("ready", "measure")
    \/ Barrier("closing", "next")
    \/ Barrier("finished", "done")
Thread(r, c, t) ==
    \/ Turn(r, c, t) \/ Post(r, c, t) \/ WaitCounter(r, c, t) \/ Reset(r, c, t)
Cta(r, c) == Syncthreads(r, c) \/ Flush(r, c)
Stream(r) == RecordStart(r) \/ RecordStop(r) \/ KernelEnds(r)
Network(r, c) == Read(r, c) \/ Complete(r, c)
Done == (\A r \in Ranks : host[r].pc = "done") /\ UNCHANGED vars

Next ==
    \/ \E r \in Ranks : Host(r) \/ Stream(r) \/ Land(r)
    \/ Barriers
    \/ \E r \in Ranks, c \in Ctas : Cta(r, c) \/ Network(r, c)
    \/ \E r \in Ranks, c \in Ctas, t \in Threads : Thread(r, c, t)
    \/ Done

(***************************************************************************)
(* Hosts, streams and the network go on; the blocks of a kernel are all    *)
(* resident, so that a thread that waits does not stop another.  No step   *)
(* can be undone: fairness of the whole is enough.                         *)
(***************************************************************************)
Spec == Init /\ [][Next]_vars /\ WF_vars(Next)

(***************************************************************************)
(* Properties.                                                             *)
(***************************************************************************)

(***************************************************************************)
(* A side of a ping-pong takes its turn only when the other has given it:  *)
(* what is left of the warm-up, of an earlier size or of an earlier turn   *)
(* in the element it polls or the signal it waits for is never taken for   *)
(* an answer.                                                              *)
(***************************************************************************)
NoFalseTurn == \A r \in Ranks : taken[r] <= sent[Peer(r)]

(***************************************************************************)
(* With the credit check a send queue never holds more than its depth.     *)
(* With --gin_skip_credit_check nobody looks whether there is room, and    *)
(* the flushes of the loop alone keep the queue within its depth: they do  *)
(* whenever one iteration of a block fits into it, and let no more than    *)
(* one iteration pile up when it does not.                                 *)
(***************************************************************************)
Bound(c) ==
    IF c.skip /\ wqesPerIter(c) > c.queue_depth THEN wqesPerIter(c) ELSE c.queue_depth
QueueWithinDepth ==
    \A r \in Ranks : \A c \in Ctas : Wqes(queue[r][c]) <= Bound(config)

(***************************************************************************)
(* Between the two events exactly the messages complete that the report    *)
(* divides by: none of the warm-up, and none is still on its way.          *)
(***************************************************************************)
ClockCoversMessages ==
    \A r \in Ranks : measures(r) /\ host[r].pc \in {"reduce", "closing"} =>
        timed[r] = config.iters * config.num_ctas * config.num_threads

(***************************************************************************)
(* Both ranks come to the end: no signal is reset that a wait still needs, *)
(* no operation is left without a doorbell, and the sizes end even when    *)
(* adding or multiplying wraps around.                                     *)
(***************************************************************************)
EverybodyFinishes == <>(\A r \in Ranks : host[r].pc = "done")
=============================================================================
