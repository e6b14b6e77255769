--------------------------- MODULE MCReportPipeline ---------------------------
(* Small instances of ReportPipeline for TLC.                              *)
EXTENDS ReportPipeline

OneSvcRetry == [lambda |-> 0, fargate |-> 1]
NoRetries   == [lambda |-> 0, fargate |-> 0]
OneTick     == [lambda |-> 1, fargate |-> 1]
=============================================================================
