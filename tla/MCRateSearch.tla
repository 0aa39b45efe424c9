---------------------------- MODULE MCRateSearch ----------------------------
(***************************************************************************)
(* Instances of RateSearch for TLC.                                        *)
(***************************************************************************)
EXTENDS RateSearch
=============================================================================
