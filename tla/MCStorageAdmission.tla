------------------------ MODULE MCStorageAdmission ------------------------
(* The instances of StorageAdmission that TLC checks.                      *)
EXTENDS StorageAdmission
=============================================================================
