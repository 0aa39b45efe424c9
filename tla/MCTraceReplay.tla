---------------------------- MODULE MCTraceReplay ----------------------------
(* The instance of TraceReplay for TLC.                                    *)
EXTENDS TraceReplay, TLC

CONSTANTS w1, w2, c1, c2

TwoWorkers == (c1 :> w1) @@ (c2 :> w2)
==============================================================================
