---------------------------- MODULE ExchangeStatus ----------------------------
(***************************************************************************)
(* The pure rules every worker applies to an exchange request: the status  *)
(* machine, the classification of a received deposit and the payout        *)
(* amount.  They are the functions of lib/decimal.ts that the pipeline     *)
(* imports through pipeline/helpers.ts.  Amounts are integers counted in   *)
(* the smallest unit the ledger keeps; the code compares and subtracts     *)
(* them with arbitrary-precision decimals, so nothing is rounded here.     *)
(***************************************************************************)
EXTENDS Integers

(* STATUS_RANK: the order in which a request is supposed to advance. *)
Rank ==
  [CREATED         |-> 0,  WAITING_DEPOSIT    |-> 1,  DEPOSIT_DETECTED |-> 2,
   UNDERPAID       |-> 3,  OVERPAID           |-> 4,  REFUND_PENDING   |-> 5,
   PARTIALLY_REFUNDED |-> 6,  REFUNDED        |-> 7,  PROCESSING       |-> 8,
   COMPLETED       |-> 9,  CANCELLED          |-> 10, FAILED           |-> 11]

Status == DOMAIN Rank

FinalStatuses == {"COMPLETED", "REFUNDED", "CANCELLED", "FAILED"}

IsFinal(status) == status \in FinalStatuses

(* The statuses in which both pollers look for a deposit. *)
PollStatuses == {"CREATED", "WAITING_DEPOSIT"}

(* advanceExchangeRequestStatus: never out of a final status, never back. *)
Advance(current, next) ==
  IF IsFinal(current) \/ Rank[next] < Rank[current] THEN current ELSE next

(* Faulty: a deposit one unit short is let through. *)
KindTolerant(expected, received) ==
  CASE received > expected     -> "overpaid"
    [] received + 1 < expected -> "underpaid"
    [] OTHER                   -> "exact"

(* classifyAmount: what part of a deposit is accepted, and what follows. *)
Kind(expected, received) ==
  CASE received > expected -> "overpaid"
    [] received < expected -> "underpaid"
    [] OTHER               -> "exact"

Accepted(expected, received) ==
  IF received < expected THEN 0 ELSE expected

RefundDue(expected, received) ==
  IF received < expected THEN received ELSE received - expected

ClassifiedStatus(expected, received) ==
  CASE received > expected -> "OVERPAID"
    [] received < expected -> "UNDERPAID"
    [] OTHER               -> "DEPOSIT_DETECTED"

(* getRequestedPayoutAmount: the code throws when the net is negative. *)
Payout(toAmount, feeAmount) == toAmount - feeAmount
PayoutIsLegal(toAmount, feeAmount) == Payout(toAmount, feeAmount) >= 0
===============================================================================
