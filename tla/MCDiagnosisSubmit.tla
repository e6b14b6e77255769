-------------------------- MODULE MCDiagnosisSubmit --------------------------
(* Small instances of DiagnosisSubmit for TLC.  The requests are           *)
(* interchangeable, and so are the workers.                                *)
EXTENDS DiagnosisSubmit, TLC

Interchangeable == Permutations(Requests) \cup Permutations(Workers)
=============================================================================
