-------------------------- MODULE MCWorkerBackbone --------------------------
(* Small instances of WorkerBackbone for TLC.                              *)
EXTENDS WorkerBackbone

MCSvcRetries     == [lambda |-> 1, fargate |-> 1]
MCTimeoutRetries == [lambda |-> 1, fargate |-> 0]
NoRetries        == [lambda |-> 0, fargate |-> 0]
MCTaskTimeout    == [lambda |-> 1, fargate |-> 2]
=============================================================================
