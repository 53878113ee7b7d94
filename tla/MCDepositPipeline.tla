--------------------------- MODULE MCDepositPipeline ---------------------------
(* Small instances of DepositPipeline: who sends what to which request. *)
EXTENDS DepositPipeline

CONSTANTS r1, r2, d1, d2, d3

(* Both payments go to one request: exact, then short; together too much. *)
OneRequestDepositOf == [d \in {d1, d2} |-> r1]
OneRequestAmountOf  == [d \in {d1, d2} |-> IF d = d1 THEN 2 ELSE 1]

(* An overpaid and a short payment to one request, an exact one to another. *)
TwoSortsDepositOf == [d \in {d1, d2, d3} |-> IF d = d3 THEN r2 ELSE r1]
TwoSortsAmountOf  == [d \in {d1, d2, d3} |-> CASE d = d1 -> 4 [] d = d2 -> 1 [] OTHER -> 2]

(* One payment each: the first request is overpaid, the second one exact. *)
TwoRequestsDepositOf == [d \in {d1, d2} |-> IF d = d1 THEN r1 ELSE r2]
TwoRequestsAmountOf  == [d \in {d1, d2} |-> IF d = d1 THEN 3 ELSE 2]

MCExpected  == [r \in Requests |-> 2]
MCToAmount  == [r \in Requests |-> 2]

(* The second request was quoted a fee above its amount. *)
MCFeeAmount == [r \in Requests |-> IF r = r2 THEN 3 ELSE 1]
===============================================================================
