----------------------------- MODULE MCKvDispatch -----------------------------
(* Small instances of KvDispatch for TLC.                                  *)
EXTENDS KvDispatch, TLC

CONSTANT w1

OneWorker == [c \in Conns |-> w1]
ConnSymmetry == Permutations(Conns)
=============================================================================
