--------------------------- MODULE MCRunnerPhases ---------------------------
(* Instances of RunnerPhases for TLC: two connections, both of the first   *)
(* of the workers or one of each.                                          *)
EXTENDS RunnerPhases

TwoConns   == 1..2
SameWorker == <<1, 1>>
EachWorker == <<1, 2>>
=============================================================================
