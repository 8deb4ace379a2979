---------------------------- MODULE MCCommSweep ----------------------------
(* CommSweep for TLC: bounds absent, out of range and in range; numbers      *)
(* below, at and above one, whole and broken, among them one that rounds to  *)
(* nothing and one that is exactly a half.                                   *)
EXTENDS CommSweep

MCBounds == -1 .. 6
MCNumbers == {<<1, 3>>, <<1, 2>>, <<1, 1>>, <<5, 4>>, <<3, 2>>, <<2, 1>>, <<7, 1>>}
=============================================================================
