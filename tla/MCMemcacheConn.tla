--------------------------- MODULE MCMemcacheConn ---------------------------
(***************************************************************************)
(* MemcacheConn for TLC: a worker with one reader, or with one writer; two  *)
(* keys to prefill, two to append, and a pipeline of two.                  *)
(***************************************************************************)
EXTENDS MemcacheConn
=============================================================================
