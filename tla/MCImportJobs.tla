---------------------------- MODULE MCImportJobs ----------------------------
(* Instances of ImportJobs for TLC.                                        *)
EXTENDS ImportJobs
=============================================================================
