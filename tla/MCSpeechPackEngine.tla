------------------------- MODULE MCSpeechPackEngine -------------------------
(* Instances of SpeechPackEngine for TLC.                                  *)
EXTENDS SpeechPackEngine

(* The packs of the queue instance are interchangeable: initialise(), the  *)
(* only one to order them, is not called, and no property is a liveness    *)
(* property.                                                               *)
PackSymmetry == Permutations(Components)
=============================================================================
