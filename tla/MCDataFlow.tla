------------------------------ MODULE MCDataFlow ------------------------------
(* DataFlow on one or two adapters and sinks; the points overrun dataChan and  *)
(* fill a batch.                                                              *)
EXTENDS DataFlow
=============================================================================
