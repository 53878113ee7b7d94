-------------------------- MODULE MCProviderSettlement -------------------------
(* Small instances of ProviderSettlement. *)
EXTENDS ProviderSettlement, TLC

CONSTANTS r1, r2, X, Y

MCSent      == [r \in Requests |-> 2]
MCRequested == [r \in Requests |-> 2]
MCFloat     == (X :> 1 @@ Y :> 0)

(* Both swap X into Y; one does and the other has Y paid out as Y; one swaps
   what the other swaps into. *)
MCPairs == {r1 :> <<X, Y>> @@ r2 :> <<X, Y>>,
            r1 :> <<X, Y>> @@ r2 :> <<Y, Y>>,
            r1 :> <<X, Y>> @@ r2 :> <<Y, X>>}
===============================================================================
