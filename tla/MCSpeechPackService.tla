------------------------ MODULE MCSpeechPackService ------------------------
(* Instances of SpeechPackService for TLC.                                 *)
EXTENDS SpeechPackService

(* The packs are interchangeable, and so are the actions; no property is a *)
(* liveness property.                                                      *)
Interchangeable == Permutations(Components) \cup Permutations(Actions)
=============================================================================
