---------------------------- MODULE MCPipeline ----------------------------
(* The instance of Pipeline for TLC.                                       *)
EXTENDS Pipeline

AllSignals == [db: BOOLEAN, head: BOOLEAN]
==============================================================================
