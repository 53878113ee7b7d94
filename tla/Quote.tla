--------------------------------- MODULE Quote ---------------------------------
(***************************************************************************)
(* The quote of createRequest, step 6, in integers: amounts are chosen so  *)
(* that the percentages come out even, where the code computes in floating *)
(* point.  A rate that cannot be had fails the request; a gas estimate or  *)
(* its conversion that cannot be had counts as no gas.                     *)
(***************************************************************************)
EXTENDS ExchangeStatus

CONSTANTS
  Rate,            \* toCoin for one fromCoin; 1 for a bridge
  FeePercent,      \* floatFeePercent + fixedFeePercent of the toCoin
  GasEstimate,     \* of one sweep, in toCoin
  MinimumFee, MinDeposit, MaxDeposit

ASSUME QuoteAssumption ==
  /\ Rate \in Nat \ {0} /\ FeePercent \in Nat /\ GasEstimate \in Nat
  /\ MinimumFee \in Nat /\ MinDeposit \in Nat /\ MaxDeposit \in Nat

(* Gas is charged for a sweep of ours, with a buffer, where its price is known. *)
GasFees(swept) == IF swept THEN {0, 2 * GasEstimate} ELSE {0}

Fee(gross, gasFee) ==
  LET calculated == (gross * FeePercent) \div 100 + gasFee
  IN IF calculated > MinimumFee THEN calculated ELSE MinimumFee

WithinLimits(fromAmount) == fromAmount \in MinDeposit..MaxDeposit

(* Mutant of Quotes: what the fee leaves is not looked at. *)
QuotesOfAnySign(fromAmount, swept) ==
  LET gross == fromAmount * Rate
  IN {[fee |-> Fee(gross, g), to |-> gross - Fee(gross, g)] :
        g \in {x \in GasFees(swept) : WithinLimits(fromAmount)}}

(* The quotes a request of this amount may get: none when it is refused. *)
Quotes(fromAmount, swept) ==
  LET gross == fromAmount * Rate
  IN {[fee |-> Fee(gross, g), to |-> gross - Fee(gross, g)] :
        g \in {x \in GasFees(swept) : WithinLimits(fromAmount) /\ gross > Fee(gross, x)}}
===============================================================================
