----------------------------- MODULE MCCspTask -----------------------------
(* Instances of CspTask for TLC. *)
EXTENDS CspTask, TLC

CONSTANTS i1, i2, w1, w2

MCDest == w1 :> i1 @@ w2 :> i2
=============================================================================
