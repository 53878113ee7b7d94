--------------------------- MODULE MCRequestCreation ---------------------------
(* Two coin-network pairs on a network each; requests go either way. *)
EXTENDS RequestCreation, TLC
CONSTANTS c1, c2, p1, p2, n1, n2
MCNetworkOf == (p1 :> n1) @@ (p2 :> n2)
AlikeCallers == Permutations(Callers)
===============================================================================
