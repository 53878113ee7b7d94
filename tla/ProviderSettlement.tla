-------------------------- MODULE ProviderSettlement --------------------------
(***************************************************************************)
(* executeSettlement of the two exchange providers: wait for the deposit,  *)
(* swap it if the client wants another coin, and withdraw to the client.   *)
(* The settlements of several requests run side by side on one account of  *)
(* the exchange, and the exchange keeps no money apart for any of them.    *)
(*                                                                         *)
(* KuCoin has a main and a trade account.  Deposits come to main, a        *)
(* conversion pays into trade, withdrawals leave from main.  Binance has   *)
(* one account, kept in main here.                                         *)
(*                                                                         *)
(* One action is one call to the exchange with what follows until the next *)
(* call.  A process that dies takes no more steps, and no settlement is    *)
(* started a second time, so restarts need no action.                      *)
(***************************************************************************)
EXTENDS Integers, FiniteSets, Functions

CONSTANTS
  Requests,
  Coins,
  Pairs,            \* choices of the coin deposited and the coin paid out
  Providers,        \* choices of EXCHANGE_PROVIDER
  Flex,             \* choices of KUCOIN_FLEX_TRANSFER_ENABLED
  Sent,             \* amount of the confirmed sweep: depositAmount
  Requested,        \* payout that was quoted: withdrawAmount
  Float,            \* the operator's own balance in main
  GasCosts,         \* what the gas of the sweep may be worth in the deposit coin
  Quotes,           \* what a swap may give
  ConvertAttempts,  \* KUCOIN_CONVERT_RETRY_COUNT
  MoveAttempts,     \* KUCOIN_INNER_TRANSFER_RETRY_COUNT
  Faults            \* "refused": a call fails without effect, "lost": it takes
                    \* effect and its answer does not come, "short": less is
                    \* credited than was sent, "locked": withdrawals wait

Positive == Nat \ {0}

ASSUME SettlementAssumption ==
  /\ IsFiniteSet(Requests)
  /\ Pairs \subseteq [Requests -> Coins \X Coins]
  /\ Providers \subseteq {"kucoin", "binance"}
  /\ Flex \subseteq BOOLEAN
  /\ Sent \in [Requests -> Positive] /\ Requested \in [Requests -> Positive]
  /\ Float \in [Coins -> Nat]
  /\ GasCosts \subseteq Nat /\ Quotes \subseteq Positive
  /\ ConvertAttempts \in Positive /\ MoveAttempts \in Positive
  /\ Faults \subseteq {"refused", "lost", "short", "locked"}

VARIABLES
  provider, flex, pair,   \* configuration and requests, chosen at the start
  deposit,   \* on its way, credited, usable, or rejected by the exchange
  credit,    \* the amount credited
  main,      \* available balance of each coin
  trade,     \* the same in KuCoin's trade account
  pc,        \* where the call of a request is
  size,      \* exchangeAmount
  out,       \* withdrawAmount
  left,      \* attempts left in a retry loop
  late,      \* the polling loop has run out of time
  landing,   \* a swap was executed and its result is not in the account yet
  spent,     \* what swaps for a request took
  got,       \* what they gave
  orders, moves, withdrawals,   \* what the exchange executed, counted
  paid       \* the amount withdrawn

call  == <<pc, size, out, left, late>>
done  == <<spent, got, orders, moves, withdrawals, paid>>
setup == <<provider, flex, pair>>
vars  == <<setup, deposit, credit, main, trade, call, landing, done>>

From(r)  == pair[r][1]
To(r)    == pair[r][2]
Swaps(r) == From(r) # To(r)     \* needsSwap

Polling  == {"deposit", "balance", "landed", "fill", "withdraw", "locked"}
Ended    == {"returned", "threw"}
Position == {"idle", "plan", "convert", "move", "flex", "order"} \cup Polling \cup Ended

TypeOK ==
  /\ provider \in Providers /\ flex \in Flex /\ pair \in Pairs
  /\ deposit \in [Requests -> {"sent", "credited", "usable", "rejected"}]
  /\ credit \in [Requests -> Nat]
  /\ main \in [Coins -> Nat] /\ trade \in [Coins -> Nat]
  /\ pc \in [Requests -> Position]
  /\ size \in [Requests -> Nat] /\ out \in [Requests -> Nat] /\ left \in [Requests -> Nat]
  /\ late \in [Requests -> BOOLEAN] /\ landing \in [Requests -> BOOLEAN]
  /\ spent \in [Requests -> Nat] /\ got \in [Requests -> Nat]
  /\ orders \in [Requests -> Nat] /\ moves \in [Requests -> Nat]
  /\ withdrawals \in [Requests -> Nat] /\ paid \in [Requests -> Nat]

Zero == [r \in Requests |-> 0]
No   == [r \in Requests |-> FALSE]

Init ==
  /\ provider \in Providers /\ flex \in Flex /\ pair \in Pairs
  /\ deposit = [r \in Requests |-> "sent"] /\ credit = Zero
  /\ main = Float /\ trade = [c \in Coins |-> 0]
  /\ pc = [r \in Requests |-> "idle"]
  /\ size = Zero /\ out = Requested /\ left = Zero /\ late = No /\ landing = No
  /\ spent = Zero /\ got = Zero /\ orders = Zero /\ moves = Zero
  /\ withdrawals = Zero /\ paid = Zero
-------------------------------------------------------------------------------
(* The exchange and the clock. *)

(* KuCoin lists the deposit as SUCCESS, Binance with status 6. *)
Credited(r) ==
  /\ deposit[r] = "sent"
  /\ \E a \in 1 .. Sent[r] :
       /\ a < Sent[r] => "short" \in Faults
       /\ credit' = [credit EXCEPT ![r] = a]
  /\ deposit' = [deposit EXCEPT ![r] = "credited"]
  /\ UNCHANGED <<setup, main, trade, call, landing, done>>

(* The amount is in the account; Binance gives the deposit status 1. *)
Usable(r) ==
  /\ deposit[r] = "credited"
  /\ deposit' = [deposit EXCEPT ![r] = "usable"]
  /\ main' = [main EXCEPT ![From(r)] = @ + credit[r]]
  /\ UNCHANGED <<setup, credit, trade, call, landing, done>>

Rejected(r) ==
  /\ provider = "binance" /\ "refused" \in Faults
  /\ deposit[r] = "sent"
  /\ deposit' = [deposit EXCEPT ![r] = "rejected"]
  /\ UNCHANGED <<setup, credit, main, trade, call, landing, done>>

(* The result of a swap arrives. *)
Lands(r) ==
  /\ landing[r]
  /\ landing' = [landing EXCEPT ![r] = FALSE]
  /\ \/ /\ provider = "kucoin"
        /\ trade' = [trade EXCEPT ![To(r)] = @ + got[r]] /\ main' = main
     \/ /\ provider = "binance"
        /\ main' = [main EXCEPT ![To(r)] = @ + got[r]] /\ trade' = trade
  /\ UNCHANGED <<setup, deposit, credit, call, done>>

TimePasses(r) ==
  /\ pc[r] \in Polling /\ ~late[r]
  /\ late' = [late EXCEPT ![r] = TRUE]
  /\ UNCHANGED <<setup, deposit, credit, main, trade, pc, size, out, left, landing, done>>
-------------------------------------------------------------------------------
(* Steps of the call. *)

(* The call goes on at p, with n attempts if p is a retry loop. *)
Goes(r, p, n) ==
  /\ pc' = [pc EXCEPT ![r] = p]
  /\ left' = [left EXCEPT ![r] = n]
  /\ late' = [late EXCEPT ![r] = FALSE]

Throws(r) == Goes(r, "threw", 0) /\ UNCHANGED <<size, out>>

Untouched == UNCHANGED <<setup, deposit, credit, main, trade, landing, done>>

Start(r) ==
  /\ pc[r] = "idle"
  /\ Goes(r, IF provider = "binance" /\ Swaps(r) THEN "plan" ELSE "deposit", 0)
  /\ Untouched /\ UNCHANGED <<size, out>>

(* A call fails without effect; no failure is tried again here. *)
Refused(r) ==
  /\ "refused" \in Faults
  /\ pc[r] \notin {"idle", "locked"} \cup Ended
  /\ Throws(r) /\ Untouched

TimedOut(r) ==
  /\ pc[r] \in Polling \ {"withdraw", "locked"} /\ late[r]
  /\ Throws(r) /\ Untouched

(* Binance: a symbol for the pair was found. *)
PlanFound(r) ==
  /\ pc[r] = "plan"
  /\ Goes(r, "deposit", 0)
  /\ Untouched /\ UNCHANGED <<size, out>>

(* Faulty: Binance's status is not looked at. *)
DepositOfAnyStatus(r) ==
  /\ pc[r] = "deposit"
  /\ deposit[r] # "sent"
  /\ \/ provider = "kucoin" /\ Goes(r, "balance", 0)
     \/ provider = "binance" /\ Goes(r, IF Swaps(r) THEN "order" ELSE "withdraw", 0)
  /\ Untouched /\ UNCHANGED <<size, out>>

(* KuCoin finds the deposit by its transaction hash, whatever its amount;
   Binance only with the amount sent, and waits for its final status. *)
DepositFound(r) ==
  /\ pc[r] = "deposit"
  /\ \/ /\ provider = "kucoin" /\ deposit[r] \in {"credited", "usable"}
        /\ Goes(r, "balance", 0)
     \/ /\ provider = "binance" /\ deposit[r] = "usable" /\ credit[r] = Sent[r]
        /\ Goes(r, IF Swaps(r) THEN "order" ELSE "withdraw", 0)
     \/ /\ deposit[r] = "rejected"
        /\ Goes(r, "threw", 0)
  /\ Untouched /\ UNCHANGED <<size, out>>

(* KuCoin: the account has the credited amount, of this deposit or another.
   The gas of the sweep stays there, unless its price is not to be had or it
   is worth more than the deposit. *)
BalanceSeen(r) ==
  /\ pc[r] = "balance"
  /\ main[From(r)] >= credit[r]
  /\ \E gas \in GasCosts \cup {0} :
       /\ gas < credit[r]
       /\ size' = [size EXCEPT ![r] = credit[r] - gas]
  /\ \/ Swaps(r) /\ Goes(r, "convert", ConvertAttempts)
     \/ ~Swaps(r) /\ size'[r] < Requested[r] /\ Goes(r, "threw", 0)
     \/ ~Swaps(r) /\ size'[r] >= Requested[r] /\ flex /\ Goes(r, "flex", MoveAttempts)
     \/ ~Swaps(r) /\ size'[r] >= Requested[r] /\ ~flex /\ Goes(r, "withdraw", 0)
  /\ Untouched /\ UNCHANGED out
-------------------------------------------------------------------------------
(* KuCoin: conversion and transfer between the accounts. *)

(* Faulty: the amount sent is converted, not the amount credited. *)
ConvertSent(r) ==
  /\ pc[r] = "convert"
  /\ \E q \in Quotes, t \in 0 .. Sent[r] :
       /\ t <= trade[From(r)] /\ Sent[r] - t <= main[From(r)]
       /\ trade' = [trade EXCEPT ![From(r)] = @ - t]
       /\ main' = [main EXCEPT ![From(r)] = @ - (Sent[r] - t)]
       /\ got' = [got EXCEPT ![r] = q]
       /\ out' = [out EXCEPT ![r] = q]
  /\ landing' = [landing EXCEPT ![r] = TRUE]
  /\ spent' = [spent EXCEPT ![r] = @ + Sent[r]]
  /\ orders' = [orders EXCEPT ![r] = @ + 1]
  /\ Goes(r, "landed", 0)
  /\ UNCHANGED <<setup, deposit, credit, size, moves, withdrawals, paid>>

(* The order takes its amount from both accounts, is executed at the quoted
   price, and is answered SUCCESS; or PROCESSING, or not at all, and the
   call throws although the swap was made. *)
Convert(r) ==
  /\ pc[r] = "convert"
  /\ \E q \in Quotes, t \in 0 .. size[r] :
       /\ t <= trade[From(r)] /\ size[r] - t <= main[From(r)]
       /\ trade' = [trade EXCEPT ![From(r)] = @ - t]
       /\ main' = [main EXCEPT ![From(r)] = @ - (size[r] - t)]
       /\ got' = [got EXCEPT ![r] = q]
       /\ out' = [out EXCEPT ![r] = q]
  /\ landing' = [landing EXCEPT ![r] = TRUE]
  /\ spent' = [spent EXCEPT ![r] = @ + size[r]]
  /\ orders' = [orders EXCEPT ![r] = @ + 1]
  /\ \/ Goes(r, "landed", 0)
     \/ "lost" \in Faults /\ Goes(r, "threw", 0)
  /\ UNCHANGED <<setup, deposit, credit, size, moves, withdrawals, paid>>

(* 102421 is tried again a number of times. *)
ConvertLacksBalance(r) ==
  /\ pc[r] = "convert"
  /\ main[From(r)] + trade[From(r)] < size[r]
  /\ \/ left[r] > 1 /\ Goes(r, "convert", left[r] - 1)
     \/ left[r] <= 1 /\ Goes(r, "threw", 0)
  /\ Untouched /\ UNCHANGED <<size, out>>

LandedSeen(r) ==
  /\ pc[r] = "landed"
  /\ trade[To(r)] >= out[r]
  /\ Goes(r, "move", MoveAttempts)
  /\ Untouched /\ UNCHANGED <<size, out>>

(* Faulty: the quoted payout is moved, not what the conversion gave. *)
MoveRequested(r) ==
  /\ pc[r] \in {"move", "flex"}
  /\ trade[To(r)] >= Requested[r]
  /\ trade' = [trade EXCEPT ![To(r)] = @ - Requested[r]]
  /\ main' = [main EXCEPT ![To(r)] = @ + Requested[r]]
  /\ moves' = [moves EXCEPT ![r] = @ + 1]
  /\ Goes(r, "withdraw", 0)
  /\ UNCHANGED <<setup, deposit, credit, size, out, landing, spent, got, orders, withdrawals, paid>>

(* From trade to main, after a conversion or, when so configured, without.  A
   lost answer throws; an error that KuCoin answers to a transfer it executed
   does not stop the optional one, which goes on as after a success. *)
Move(r) ==
  /\ pc[r] \in {"move", "flex"}
  /\ trade[To(r)] >= out[r]
  /\ trade' = [trade EXCEPT ![To(r)] = @ - out[r]]
  /\ main' = [main EXCEPT ![To(r)] = @ + out[r]]
  /\ moves' = [moves EXCEPT ![r] = @ + 1]
  /\ \/ Goes(r, "withdraw", 0)
     \/ "lost" \in Faults /\ Goes(r, "threw", 0)
  /\ UNCHANGED <<setup, deposit, credit, size, out, landing, spent, got, orders, withdrawals, paid>>

(* 230003 is tried again a number of times; without a conversion the last
   refusal is passed over. *)
MoveLacksBalance(r) ==
  /\ pc[r] \in {"move", "flex"}
  /\ trade[To(r)] < out[r]
  /\ \/ left[r] > 1 /\ Goes(r, pc[r], left[r] - 1)
     \/ left[r] <= 1 /\ Goes(r, IF pc[r] = "flex" THEN "withdraw" ELSE "threw", 0)
  /\ Untouched /\ UNCHANGED <<size, out>>

(* Another error of KuCoin's is passed over, too. *)
FlexRefused(r) ==
  /\ "refused" \in Faults
  /\ pc[r] = "flex"
  /\ Goes(r, "withdraw", 0)
  /\ Untouched /\ UNCHANGED <<size, out>>
-------------------------------------------------------------------------------
(* Binance: a market order for the amount sent. *)

Order(r) ==
  /\ pc[r] = "order"
  /\ main[From(r)] >= Sent[r]
  /\ main' = [main EXCEPT ![From(r)] = @ - Sent[r]]
  /\ \E q \in Quotes : got' = [got EXCEPT ![r] = q]
  /\ landing' = [landing EXCEPT ![r] = TRUE]
  /\ spent' = [spent EXCEPT ![r] = @ + Sent[r]]
  /\ orders' = [orders EXCEPT ![r] = @ + 1]
  /\ \/ Goes(r, "fill", 0)
     \/ "lost" \in Faults /\ Goes(r, "threw", 0)
  /\ UNCHANGED <<setup, deposit, credit, trade, size, out, moves, withdrawals, paid>>

OrderLacksBalance(r) ==
  /\ pc[r] = "order"
  /\ main[From(r)] < Sent[r]
  /\ Throws(r) /\ Untouched

(* The order is FILLED, with the first answer or when polled. *)
FillSeen(r) ==
  /\ pc[r] = "fill"
  /\ ~landing[r]
  /\ Goes(r, "withdraw", 0)
  /\ Untouched /\ UNCHANGED <<size, out>>

(* The order ends unfilled, and polling for it finds that. *)
OrderEnds(r) ==
  /\ "refused" \in Faults
  /\ pc[r] = "fill"
  /\ landing[r]
  /\ main' = [main EXCEPT ![From(r)] = @ + Sent[r]]
  /\ spent' = [spent EXCEPT ![r] = 0] /\ got' = [got EXCEPT ![r] = 0]
  /\ landing' = [landing EXCEPT ![r] = FALSE]
  /\ Throws(r)
  /\ UNCHANGED <<setup, deposit, credit, trade, orders, moves, withdrawals, paid>>
-------------------------------------------------------------------------------
(* The withdrawal.  Binance pays what was quoted; KuCoin what the conversion
   gave, after a look at the quotas, which is one of the calls that fail. *)

(* Faulty: a withdrawal whose answer is lost is sent again. *)
WithdrawAgain(r) ==
  /\ pc[r] = "withdraw"
  /\ main[To(r)] >= out[r]
  /\ main' = [main EXCEPT ![To(r)] = @ - out[r]]
  /\ paid' = [paid EXCEPT ![r] = @ + out[r]]
  /\ withdrawals' = [withdrawals EXCEPT ![r] = @ + 1]
  /\ \/ Goes(r, "returned", 0)
     \/ "lost" \in Faults /\ Goes(r, "withdraw", 0)
  /\ UNCHANGED <<setup, deposit, credit, trade, size, out, landing, spent, got, orders, moves>>

(* Faulty: the payout that was quoted is withdrawn, whatever the swap gave. *)
WithdrawRequested(r) ==
  /\ pc[r] = "withdraw"
  /\ main[To(r)] >= Requested[r]
  /\ main' = [main EXCEPT ![To(r)] = @ - Requested[r]]
  /\ paid' = [paid EXCEPT ![r] = @ + Requested[r]]
  /\ withdrawals' = [withdrawals EXCEPT ![r] = @ + 1]
  /\ \/ Goes(r, "returned", 0)
     \/ "lost" \in Faults /\ Goes(r, "threw", 0)
  /\ UNCHANGED <<setup, deposit, credit, trade, size, out, landing, spent, got, orders, moves>>

Withdraw(r) ==
  /\ pc[r] = "withdraw"
  /\ main[To(r)] >= out[r]
  /\ main' = [main EXCEPT ![To(r)] = @ - out[r]]
  /\ paid' = [paid EXCEPT ![r] = @ + out[r]]
  /\ withdrawals' = [withdrawals EXCEPT ![r] = @ + 1]
  /\ \/ Goes(r, "returned", 0)
     \/ "lost" \in Faults /\ Goes(r, "threw", 0)
  /\ UNCHANGED <<setup, deposit, credit, trade, size, out, landing, spent, got, orders, moves>>

WithdrawLacksBalance(r) ==
  /\ pc[r] = "withdraw"
  /\ main[To(r)] < out[r]
  /\ Throws(r) /\ Untouched

(* Faulty: the loop has no limit. *)
LockedForEver(r) ==
  /\ provider = "kucoin" /\ "locked" \in Faults
  /\ pc[r] = "withdraw"
  /\ pc' = [pc EXCEPT ![r] = "locked"]
  /\ Untouched /\ UNCHANGED <<size, out, left, late>>

(* KuCoin: 115008 is tried again without limit but time. *)
WithdrawLocked(r) ==
  /\ provider = "kucoin" /\ "locked" \in Faults
  /\ pc[r] = "withdraw"
  /\ \/ late[r] /\ Throws(r)
     \/ ~late[r] /\ pc' = [pc EXCEPT ![r] = "locked"] /\ UNCHANGED <<size, out, left, late>>
  /\ Untouched

TriesAgain(r) ==
  /\ pc[r] = "locked"
  /\ pc' = [pc EXCEPT ![r] = "withdraw"]
  /\ Untouched /\ UNCHANGED <<size, out, left, late>>

KuCoinStep(r) ==
  \/ BalanceSeen(r) \/ Convert(r) \/ ConvertLacksBalance(r) \/ LandedSeen(r)
  \/ Move(r) \/ MoveLacksBalance(r) \/ FlexRefused(r)
  \/ WithdrawLocked(r) \/ TriesAgain(r)

BinanceStep(r) == PlanFound(r) \/ Order(r) \/ OrderLacksBalance(r) \/ FillSeen(r) \/ OrderEnds(r)

Step(r) ==
  \/ Start(r) \/ DepositFound(r) \/ TimedOut(r) \/ Refused(r)
  \/ KuCoinStep(r) \/ BinanceStep(r) \/ Withdraw(r) \/ WithdrawLacksBalance(r)

World(r) == Credited(r) \/ Usable(r) \/ Rejected(r) \/ Lands(r) \/ TimePasses(r)

Next == \E r \in Requests : Step(r) \/ World(r)

Spec == Init /\ [][Next]_vars

(* Every call is answered or fails, and time passes. *)
FairSpec == Spec /\ \A r \in Requests : WF_vars(Step(r)) /\ WF_vars(TimePasses(r))
-------------------------------------------------------------------------------
(* Properties. *)

(* The exchange executes each step of a settlement at most once, although
   some calls are tried again and any answer may be lost. *)
NoStepTwice == \A r \in Requests : orders[r] <= 1 /\ moves[r] <= 1 /\ withdrawals[r] <= 1

(* On KuCoin a settlement takes no more than what was credited for its
   request and pays no more than what came of it, though the account holds
   the money of others and every check of a balance counts that money too. *)
OwnFundsOnly ==
  provider = "kucoin" => \A r \in Requests :
    /\ spent[r] <= credit[r]
    /\ paid[r] <= IF Swaps(r) THEN got[r] ELSE credit[r]

(* Credits and results of swaps in coin c that are not in the account yet. *)
Landing(c)  == SumFunctionOnSet(got, {r \in Requests : To(r) = c /\ landing[r]})
OnTheWay(c) ==
  SumFunctionOnSet(credit, {r \in Requests : From(r) = c /\ deposit[r] = "credited"}) + Landing(c)

(* On KuCoin the operator's own balance is never paid out: it is drawn upon
   at most as an advance on what is on its way. *)
FloatUntouched ==
  provider = "kucoin" => \A c \in Coins : main[c] + trade[c] + OnTheWay(c) >= Float[c]

(* Results of swaps into coin c that were not moved to main yet. *)
ToBeMoved(c) ==
  SumFunctionOnSet(got, {r \in Requests : To(r) = c /\ orders[r] = 1 /\ moves[r] = 0})

(* Where no request swaps a coin that another swaps into, and the optional
   transfer is off, KuCoin's trade account holds what the settlements are
   going to move out of it, so that none runs out of attempts for good. *)
TradeCovers ==
  provider = "kucoin" /\ ~flex
  /\ (\A r, s \in Requests : Swaps(r) /\ Swaps(s) => To(r) # From(s))
  => \A c \in Coins : trade[c] + Landing(c) >= ToBeMoved(c)

(* A settlement that was started ends: each of its loops has a limit. *)
SettlementEnds == \A r \in Requests : pc[r] # "idle" ~> pc[r] \in Ended

(* The inductive invariant behind these: what the position of a call says of
   the steps the exchange has executed for it, and on KuCoin of the amounts. *)
Has(r)    == deposit[r] \in {"credited", "usable"}
Before    == {"idle", "plan", "deposit", "balance", "convert", "order", "flex"}
Worth(r)  == IF Swaps(r) THEN got[r] ELSE credit[r]

StepsInv(r) ==
  /\ orders[r] <= 1 /\ moves[r] <= 1 /\ withdrawals[r] <= 1
  /\ pc[r] \in Before => orders[r] = 0 /\ spent[r] = 0
  /\ pc[r] \in Before \cup {"landed", "fill", "move"} => moves[r] = 0
  /\ pc[r] \notin Ended => withdrawals[r] = 0 /\ paid[r] = 0
  /\ pc[r] = "returned" => withdrawals[r] = 1
  /\ pc[r] \notin {"idle", "plan", "deposit"} \cup Ended => Has(r)
  /\ deposit[r] = "sent" => credit[r] = 0
  /\ withdrawals[r] > 0 => Has(r)

AmountsInv(r) ==
  provider = "kucoin" =>
    /\ pc[r] \notin {"plan", "order", "fill"}
    /\ spent[r] <= credit[r] /\ paid[r] <= Worth(r)
    /\ pc[r] \in Before /\ ~Swaps(r) => out[r] = Requested[r]
    /\ pc[r] = "convert" => Swaps(r) /\ size[r] <= credit[r]
    /\ pc[r] \in {"landed", "move"} => Swaps(r) /\ out[r] = got[r]
    /\ pc[r] = "flex" => ~Swaps(r)
    /\ pc[r] \in {"flex", "withdraw", "locked"} => out[r] <= Worth(r)

SettlementInv == TypeOK /\ \A r \in Requests : StepsInv(r) /\ AmountsInv(r)

(* Behind the two properties of the account as a whole: the books of a request
   say which steps were executed for it, and the account holds exactly the
   operator's balance and what each request brought and did not take out. *)
BooksInv(r) ==
  /\ orders[r] = 0 => spent[r] = 0 /\ got[r] = 0 /\ ~landing[r]
  /\ ~Swaps(r) => orders[r] = 0
  /\ pc[r] \in {"convert", "order"} => Swaps(r)
  /\ pc[r] \in {"landed", "move", "fill"} => orders[r] = 1
  /\ pc[r] = "fill" => spent[r] = Sent[r]
  /\ pc[r] = "flex" => flex
  /\ deposit[r] \in {"sent", "rejected"} => credit[r] = 0

Own(c) ==
  [r \in Requests |->
     (IF From(r) = c THEN credit[r] - spent[r] ELSE 0) + (IF To(r) = c THEN got[r] - paid[r] ELSE 0)]

MoneyKept ==
  \A c \in Coins : main[c] + trade[c] + OnTheWay(c) = Float[c] + SumFunctionOnSet(Own(c), Requests)

AccountInv == (\A r \in Requests : BooksInv(r)) /\ MoneyKept /\ TradeCovers

(* executeSettlement does what DepositPipeline takes it for. *)
Outcome ==
  [r \in Requests |-> IF pc[r] = "idle" THEN "none" ELSE IF pc[r] \in Ended THEN pc[r] ELSE "running"]

Promise == INSTANCE SettlementPromise WITH
  outcome <- Outcome, paid <- withdrawals,
  credited <- [r \in Requests |-> deposit[r] \in {"credited", "usable"}]

PromiseKept == Promise!Spec
===============================================================================
