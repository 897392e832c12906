---------------------------- MODULE MCCalibrate -----------------------------
(***************************************************************************)
(* Calibrate with numbers of 9 bits, a first guess of 2^4, and ticks from  *)
(* below that guess to beyond the last power of two.                       *)
(***************************************************************************)
EXTENDS Calibrate

Ticks == 3 .. 300
Nums == {-31, -1, 0, 1, 2, 3, 4, 9, 10, 33, 34, 100, 334}
=============================================================================
