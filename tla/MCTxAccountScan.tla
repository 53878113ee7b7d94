---------------------------- MODULE MCTxAccountScan ----------------------------
(* Small instances of TxAccountScan. *)
EXTENDS TxAccountScan

CONSTANTS a1, a2
===============================================================================
