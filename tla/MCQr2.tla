------------------------------- MODULE MCQr2 -------------------------------
(* Model checking of Qr2; the values of the constants are in the cfg files. *)
EXTENDS Qr2

CONSTANTS m1, m2
=============================================================================
