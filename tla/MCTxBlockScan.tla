----------------------------- MODULE MCTxBlockScan -----------------------------
(* Small instances of TxBlockScan: a native and a token address, and a
   payment of each kind to the native one. *)
EXTENDS TxBlockScan

CONSTANTS a1, a2, p1, p2, p3

MCPayTo == [p \in Payments |-> IF p = p3 THEN a2 ELSE a1]
===============================================================================
