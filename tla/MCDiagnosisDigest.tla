-------------------------- MODULE MCDiagnosisDigest ---------------------------
(***************************************************************************)
(* The instances of DiagnosisDigest for TLC are all in their .cfg files.   *)
(***************************************************************************)
EXTENDS DiagnosisDigest
=============================================================================
