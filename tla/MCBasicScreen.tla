---------------------------- MODULE MCBasicScreen ----------------------------
(* Readings of the accelerometer for TLC: at rest, on both sides of the      *)
(* threshold, the largest sum that fits an int, and the smallest that does   *)
(* not (two axes at their negative limit).                                   *)
EXTENDS BasicScreen

MCAccel == {<<0, 0, 4>>, <<3, 5, 1>>, <<0, 6, 0>>, <<-8, 7, 3>>, <<-8, 0, -8>>}
=============================================================================
