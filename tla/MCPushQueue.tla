---------------------------- MODULE MCPushQueue ----------------------------
(* Instances of PushQueue for TLC.                                         *)
EXTENDS PushQueue

(* A first retry, and all later ones.                                      *)
TwoWaits == <<1, 2>>
=============================================================================
