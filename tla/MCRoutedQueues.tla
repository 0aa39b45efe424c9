--------------------------- MODULE MCRoutedQueues ---------------------------
(* The instance of RoutedQueues for TLC.                                   *)
EXTENDS RoutedQueues

CONSTANTS n1, n2, c1, c2, c3

(* Two connections to one node and one to another.                         *)
TwoNodes == (c1 :> n1) @@ (c2 :> n1) @@ (c3 :> n2)
=============================================================================
