---------------------------- MODULE MCKuCoinDeposits ----------------------------
EXTENDS KuCoinDeposits
CONSTANTS r1, r2
===============================================================================
