------------------------------ MODULE CommSweep ------------------------------
(***************************************************************************)
(* The sweep over communicator sizes of src/comm_ops.cu: how parse_args    *)
(* (258-426) turns -b, -e and -s into a sweep and how main (1205-1227)     *)
(* walks it with keep_testing and next_step.  All ranks compute the same   *)
(* sweep.  Real numbers are fractions p/q: sweep_num is p/q, negative for  *)
(* a descending step.                                                      *)
(***************************************************************************)
EXTENDS Integers

CONSTANTS nranks,      \* size of MPI_COMM_WORLD
          Bounds,      \* the values given to -b and -e, 0 when absent
          Kinds,       \* the values given to -s: subset of {"factor", "step", "fixed"}
          Numbers      \* the numbers given to -s, as pairs <<p, q>>

ASSUME SweepAssumption ==
    /\ nranks \in Nat \ {0}
    /\ Bounds \subseteq Int
    /\ Kinds \subseteq {"factor", "step", "fixed"}
    /\ Numbers \subseteq (Nat \ {0}) \X (Nat \ {0})

-----------------------------------------------------------------------------
(* The command line.                                                       *)

LesserOf(a, b) == IF a <= b THEN a ELSE b
GreaterOf(a, b) == IF a >= b THEN a ELSE b

\* parse_step_kinds (220-256): a factor below one is turned over.
ParseNumber(kind, x) == IF kind = "factor" /\ x[1] < x[2] THEN <<x[2], x[1]>> ELSE x

\* Lines 399-407: the defaults, then the clamping to 0 .. nranks.
Clamp(n) == LesserOf(GreaterOf(n, 0), nranks)
BeginRanks(b) == Clamp(IF b = 0 THEN nranks ELSE b)
EndRanks(e) == Clamp(IF e = 0 THEN 1 ELSE e)

Unoriented(kind, x, up) == x
\* Lines 409-418: the number is turned round when it points the other way.
Orient(kind, x, up) ==
    IF kind = "factor" /\ up # (x[1] > x[2]) THEN <<x[2], x[1]>>
    ELSE IF kind = "step" /\ ~up THEN <<-x[1], x[2]>> ELSE x

SweepOf(b, e, kind, x) ==
    [begin |-> BeginRanks(b), end |-> EndRanks(e), kind |-> kind,
     num |-> Orient(kind, ParseNumber(kind, x), BeginRanks(b) < EndRanks(e))]

-----------------------------------------------------------------------------
(* next_step (1145-1160) and keep_testing (1166-1175).                     *)

\* roundf, halves away from zero.
Round(p, q) == IF p >= 0 THEN (2 * p + q) \div (2 * q)
                         ELSE -((-2 * p + q) \div (2 * q))

\* Lines 1150-1155.
Moved(a, current) ==
    IF a.kind = "factor" THEN Round(current * a.num[1], a.num[2])
                         ELSE current + Round(a.num[1], a.num[2])

\* Lines 1156-1158.
NoNudge(a, current, next) == next
Nudge(a, current, next) ==
    IF next # current THEN next
    ELSE IF a.begin < a.end THEN next + 1 ELSE next - 1

next_step(a, current) ==
    IF a.kind = "fixed" THEN 0 ELSE Nudge(a, current, Moved(a, current))

keep_testing(a, current) ==
    IF a.begin = a.end THEN current = a.end
    ELSE IF a.begin < a.end THEN current <= a.end ELSE current >= a.end

-----------------------------------------------------------------------------
VARIABLES sweep_args,   \* the sweep: [begin, end, kind, num]
          nrank_test,   \* the size under test
          running       \* main is in its loop

sweep_vars == <<sweep_args, nrank_test, running>>

SweepInit ==
    /\ \E b, e \in Bounds, kind \in Kinds, x \in Numbers : sweep_args = SweepOf(b, e, kind, x)
    /\ nrank_test = sweep_args.begin
    /\ running = TRUE

\* One round of the loop at 1206-1227: split, test, next size.
TestSize ==
    /\ running
    /\ keep_testing(sweep_args, nrank_test)
    /\ nrank_test' = next_step(sweep_args, nrank_test)
    /\ UNCHANGED <<sweep_args, running>>

Leave ==
    /\ running
    /\ ~keep_testing(sweep_args, nrank_test)
    /\ running' = FALSE
    /\ UNCHANGED <<sweep_args, nrank_test>>

SweepDone == ~running /\ UNCHANGED sweep_vars

SweepNext == TestSize \/ Leave \/ SweepDone
SweepSpec == SweepInit /\ [][SweepNext]_sweep_vars
FairSweepSpec == SweepSpec /\ WF_sweep_vars(TestSize) /\ WF_sweep_vars(Leave)

-----------------------------------------------------------------------------
(* Properties.                                                             *)

Tested == running /\ keep_testing(sweep_args, nrank_test)

SweepTypeOK ==
    /\ sweep_args.begin \in 0 .. nranks /\ sweep_args.end \in 0 .. nranks
    /\ sweep_args.kind \in {"factor", "step", "fixed"}
    /\ sweep_args.num[1] \in Int \ {0} /\ sweep_args.num[2] \in Nat \ {0}
    /\ nrank_test \in Int
    /\ running \in BOOLEAN

Ascending == sweep_args.begin < sweep_args.end

\* "Ensures progress by adding/subtracting 1 if the calculated next value equals
\* current" (1143): a factor or step, however small, takes the sweep to another
\* size, and always towards its end, never back.
MovesOn ==
    [][TestSize /\ sweep_args.kind # "fixed" =>
          IF Ascending THEN nrank_test' > nrank_test
                       ELSE nrank_test' < nrank_test]_sweep_vars

\* No size is tested that lies outside what was asked for, in particular none
\* above the size of the world, whatever factor or step is given.
WithinBounds ==
    Tested => \/ sweep_args.begin <= nrank_test /\ nrank_test <= sweep_args.end
              \/ sweep_args.end <= nrank_test /\ nrank_test <= sweep_args.begin

\* "Note begin/end ranks can be increasing or decreasing, and the comm sweep
\* will be adjusted accordingly" (1279): the sweep comes to its end, in both
\* directions and for every factor, step and fixed size but one: next_step always
\* gives 0 for a fixed sweep (1147-1148), and where keep_testing takes that for a
\* size within the bounds (1168, 1171, 1173) the sweep goes on with it for ever.
Endless ==
    sweep_args.kind = "fixed" /\ (Ascending \/ sweep_args.end = 0)
SweepEnds ==
    /\ ~Endless => <>~running
    /\ Endless => []running
=============================================================================
