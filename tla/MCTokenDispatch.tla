--------------------------- MODULE MCTokenDispatch ---------------------------
(* The instance of TokenDispatch for TLC.                                  *)
EXTENDS TokenDispatch
==============================================================================
