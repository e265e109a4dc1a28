----------------------------- MODULE MCCloudStt -----------------------------
(* Instances of CloudStt for TLC.                                          *)
EXTENDS CloudStt
=============================================================================
