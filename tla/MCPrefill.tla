----------------------------- MODULE MCPrefill -----------------------------
(***************************************************************************)
(* Instances of Prefill for TLC: two nodes discovered and a third that is  *)
(* not, and how the connections of the workers are spread over them.       *)
(***************************************************************************)
EXTENDS Prefill

CONSTANTS n1, n2, n3, c1, c2, c3, w1, w2, k1, k2, k3

(* Two workers; the second has a connection to the first node only.        *)
MixedWorkerOf == (c1 :> w1) @@ (c2 :> w1) @@ (c3 :> w2)
MixedEndpointOf == (c1 :> n1) @@ (c2 :> n2) @@ (c3 :> n1)

ThreeKeysHome == (k1 :> n1) @@ (k2 :> n1) @@ (k3 :> n2)
=============================================================================
