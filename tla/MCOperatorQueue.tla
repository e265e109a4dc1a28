-------------------------- MODULE MCOperatorQueue --------------------------
(* Instances of OperatorQueue for TLC.                                     *)
EXTENDS OperatorQueue

(* A schedule of two waits: the first retry sooner than the later ones.    *)
TwoWaits == <<1, 2>>

(* A schedule that is at its cap from the start.                           *)
OneWait == <<1>>
=============================================================================
