---------------------------- MODULE SpeechPackIds ----------------------------
(* What the abstract speech-pack engine and its service are about.         *)

CONSTANTS
    Components,   \* pack ids
    None          \* no pack, no abort reason, no action

ASSUME NoneIsNothing == None \notin Components \cup {"pause", "cancel"}
=============================================================================
