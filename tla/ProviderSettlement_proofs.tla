----------------------- MODULE ProviderSettlement_proofs -----------------------
(* Proofs about ProviderSettlement, for any requests, coins, amounts, attempts
   and faults. *)
EXTENDS ProviderSettlement, FiniteSetTheorems, WellFoundedInduction, TLAPS

(* What a step of another request leaves alone. *)
SameCall(s) ==
  /\ pc'[s] = pc[s] /\ size'[s] = size[s] /\ out'[s] = out[s]
  /\ left'[s] = left[s] /\ late'[s] = late[s]

SameDone(s) ==
  /\ spent'[s] = spent[s] /\ got'[s] = got[s] /\ orders'[s] = orders[s]
  /\ moves'[s] = moves[s] /\ withdrawals'[s] = withdrawals[s] /\ paid'[s] = paid[s]

Same(s) ==
  /\ UNCHANGED setup
  /\ deposit'[s] = deposit[s] /\ credit'[s] = credit[s] /\ landing'[s] = landing[s]
  /\ SameCall(s) /\ SameDone(s)

InvAt(s) == StepsInv(s) /\ AmountsInv(s)

(* The coins of a request. *)
LEMMA CoinsOf ==
  ASSUME TypeOK, NEW r \in Requests
  PROVE  From(r) \in Coins /\ To(r) \in Coins
<1>1. pair \in [Requests -> Coins \X Coins]
  BY SettlementAssumption DEF TypeOK
<1> QED BY <1>1 DEF From, To

(* The amounts are what the assumption says. *)
LEMMA Amounts ==
  ASSUME NEW r \in Requests
  PROVE  /\ Sent[r] \in Nat /\ Sent[r] > 0 /\ Requested[r] \in Nat
         /\ ConvertAttempts \in Nat /\ MoveAttempts \in Nat
         /\ \A q \in Quotes : q \in Nat
BY SettlementAssumption DEF Positive

(* A request keeps its part of the invariant when nothing of it changes. *)
LEMMA SameKeeps ==
  ASSUME NEW s \in Requests, Same(s), InvAt(s)
  PROVE  InvAt(s)'
BY DEF Same, SameCall, SameDone, InvAt, StepsInv, AmountsInv, Has, Worth, Swaps, From, To, setup

(* A step of the call of r moves only its own place. *)
CallOf(r) ==
  /\ \E p \in Position : pc' = [pc EXCEPT ![r] = p]
  /\ \E n \in Nat : size' = [size EXCEPT ![r] = n]
  /\ \E n \in Nat : out' = [out EXCEPT ![r] = n]
  /\ \E n \in Nat : left' = [left EXCEPT ![r] = n]
  /\ \E b \in BOOLEAN : late' = [late EXCEPT ![r] = b]

CallType ==
  /\ pc \in [Requests -> Position]
  /\ size \in [Requests -> Nat] /\ out \in [Requests -> Nat] /\ left \in [Requests -> Nat]
  /\ late \in [Requests -> BOOLEAN]

LEMMA CallOfKeeps ==
  ASSUME CallType, NEW r \in Requests, CallOf(r)
  PROVE  CallType' /\ \A s \in Requests \ {r} : SameCall(s)
BY DEF CallType, CallOf, SameCall

LEMMA GoesIsCall ==
  ASSUME CallType, NEW r \in Requests, NEW p \in Position, NEW n \in Nat, Goes(r, p, n),
         UNCHANGED <<size, out>>
  PROVE  CallOf(r)
<1>1. size' = [size EXCEPT ![r] = size[r]] /\ size[r] \in Nat
  BY DEF CallType
<1>2. out' = [out EXCEPT ![r] = out[r]] /\ out[r] \in Nat
  BY DEF CallType
<1>3. FALSE \in BOOLEAN OBVIOUS
<1> QED BY <1>1, <1>2, <1>3 DEF CallOf, Goes

(* Steps that the exchange does not see. *)
Quiet(r) ==
  \/ Start(r) \/ DepositFound(r) \/ TimedOut(r) \/ Refused(r)
  \/ BalanceSeen(r) \/ ConvertLacksBalance(r) \/ LandedSeen(r) \/ MoveLacksBalance(r)
  \/ FlexRefused(r) \/ WithdrawLocked(r) \/ TriesAgain(r) \/ PlanFound(r)
  \/ OrderLacksBalance(r) \/ FillSeen(r) \/ WithdrawLacksBalance(r)

LEMMA QuietIsCall ==
  ASSUME TypeOK, NEW r \in Requests, Quiet(r)
  PROVE  CallOf(r) /\ Untouched
<1> DEFINE Simple == \E p \in Position, n \in Nat : Goes(r, p, n) /\ UNCHANGED <<size, out>>
<1>0. CallType /\ 0 \in Nat /\ left[r] \in Nat /\ ConvertAttempts \in Nat /\ MoveAttempts \in Nat
  BY Amounts DEF TypeOK, CallType
<1>1. /\ {"deposit", "plan", "threw", "balance", "order", "withdraw", "convert", "landed", "move",
           "flex", "locked"} \subseteq Position
  BY DEF Position, Polling, Ended
<1>2. Simple => CallOf(r)
  BY <1>0, GoesIsCall
<1>3. CASE Start(r) \/ PlanFound(r) \/ DepositFound(r) \/ LandedSeen(r) \/ FillSeen(r) \/ FlexRefused(r)
  <2>1. Untouched
    BY <1>3 DEF Start, PlanFound, DepositFound, LandedSeen, FillSeen, FlexRefused
  <2>2. Simple
    BY <1>0, <1>1, <1>3 DEF Start, PlanFound, DepositFound, LandedSeen, FillSeen, FlexRefused
  <2> QED BY <1>2, <2>1, <2>2
<1>4. CASE TimedOut(r) \/ Refused(r) \/ OrderLacksBalance(r) \/ WithdrawLacksBalance(r)
  <2>1. Untouched /\ Throws(r)
    BY <1>4 DEF TimedOut, Refused, OrderLacksBalance, WithdrawLacksBalance
  <2>2. Simple
    BY <1>0, <1>1, <2>1 DEF Throws
  <2> QED BY <1>2, <2>1, <2>2
<1>5. CASE ConvertLacksBalance(r) \/ MoveLacksBalance(r)
  <2>1. Untouched
    BY <1>5 DEF ConvertLacksBalance, MoveLacksBalance
  <2>2. left[r] > 1 => left[r] - 1 \in Nat
    BY <1>0
  <2>3. CASE ConvertLacksBalance(r)
    BY <1>0, <1>1, <1>2, <2>1, <2>2, <2>3 DEF ConvertLacksBalance
  <2>4. CASE MoveLacksBalance(r)
    BY <1>0, <1>1, <1>2, <2>1, <2>2, <2>4 DEF MoveLacksBalance
  <2> QED BY <1>5, <2>3, <2>4
<1>6. CASE WithdrawLocked(r)
  <2>1. CASE Throws(r)
    BY <1>0, <1>1, <1>2, <1>6, <2>1 DEF Throws, WithdrawLocked
  <2>2. CASE pc' = [pc EXCEPT ![r] = "locked"] /\ UNCHANGED <<size, out, left, late>>
    <3>1. CallOf(r)
      BY <1>0, <1>1, <2>2, ZenonT(60) DEF CallOf, CallType
    <3> QED BY <1>6, <3>1 DEF WithdrawLocked
  <2> QED BY <1>6, <2>1, <2>2 DEF WithdrawLocked
<1>7. CASE TriesAgain(r)
  <2>1. CallOf(r)
    BY <1>0, <1>1, <1>7, ZenonT(60) DEF CallOf, CallType, TriesAgain
  <2> QED BY <1>7, <2>1 DEF TriesAgain
<1>8. CASE BalanceSeen(r)
  <2>1. PICK gas \in GasCosts \cup {0} :
          gas < credit[r] /\ size' = [size EXCEPT ![r] = credit[r] - gas]
    BY <1>8 DEF BalanceSeen
  <2>2. credit[r] - gas \in Nat
    BY <2>1, SettlementAssumption DEF TypeOK
  <2>3. \E p \in Position, n \in Nat : Goes(r, p, n)
    BY <1>0, <1>1, <1>8 DEF BalanceSeen
  <2>4. out' = [out EXCEPT ![r] = out[r]] /\ out[r] \in Nat
    BY <1>8 DEF BalanceSeen, TypeOK
  <2>5. CallOf(r)
    BY <2>1, <2>2, <2>3, <2>4 DEF CallOf, Goes
  <2> QED BY <1>8, <2>5 DEF BalanceSeen
<1> QED BY <1>3, <1>4, <1>5, <1>6, <1>7, <1>8 DEF Quiet

LEMMA QuietStep ==
  ASSUME TypeOK, NEW r \in Requests, Quiet(r)
  PROVE  TypeOK' /\ \A s \in Requests \ {r} : Same(s)
<1>1. CallOf(r) /\ Untouched
  BY QuietIsCall
<1>2. CallType' /\ \A s \in Requests \ {r} : SameCall(s)
  BY <1>1, CallOfKeeps DEF TypeOK, CallType
<1>3. TypeOK'
  BY <1>1, <1>2 DEF TypeOK, CallType, Untouched, setup, done
<1>4. \A s \in Requests \ {r} : Same(s)
  BY <1>1, <1>2 DEF Untouched, Same, SameDone, done
<1> QED BY <1>3, <1>4

(* Steps of the world. *)
LEMMA WorldType ==
  ASSUME TypeOK, NEW r \in Requests, World(r)
  PROVE  TypeOK' /\ \A s \in Requests \ {r} : Same(s)
<1> USE CoinsOf, Amounts DEF TypeOK, Same, SameCall, SameDone, call, done, setup
<1>1. CASE Credited(r)
  <2>1. PICK a \in 1 .. Sent[r] : credit' = [credit EXCEPT ![r] = a]
    BY <1>1 DEF Credited
  <2> QED BY <1>1, <2>1 DEF Credited
<1>2. CASE Usable(r)
  BY <1>2 DEF Usable
<1>3. CASE Rejected(r)
  BY <1>3 DEF Rejected
<1>4. CASE Lands(r)
  BY <1>4 DEF Lands
<1>5. CASE TimePasses(r)
  BY <1>5 DEF TimePasses
<1> QED BY <1>1, <1>2, <1>3, <1>4, <1>5 DEF World

(* Steps the exchange executes. *)
Executed(r) == Convert(r) \/ Move(r) \/ Order(r) \/ OrderEnds(r) \/ Withdraw(r)

LEMMA ExecutedIsCall ==
  ASSUME TypeOK, NEW r \in Requests, Executed(r)
  PROVE  CallType' /\ \A s \in Requests \ {r} : SameCall(s)
<1>1. CallType /\ 0 \in Nat /\ size[r] \in Nat /\ out[r] \in Nat
  BY DEF TypeOK, CallType
<1>2. {"landed", "threw", "withdraw", "fill", "returned"} \subseteq Position
  BY DEF Position, Polling, Ended
<1>3. \E p \in Position : Goes(r, p, 0)
  BY <1>2 DEF Executed, Convert, Move, Order, OrderEnds, Withdraw, Throws
<1>4. \E n \in Nat : size' = [size EXCEPT ![r] = n]
  <2>1. size' = size
    BY DEF Executed, Convert, Move, Order, OrderEnds, Withdraw, Throws
  <2>2. size = [size EXCEPT ![r] = size[r]]
    BY <1>1 DEF CallType
  <2> QED BY <1>1, <2>1, <2>2
<1>5. \E n \in Nat : out' = [out EXCEPT ![r] = n]
  <2>1. CASE Convert(r)
    BY <2>1, Amounts DEF Convert
  <2>2. CASE Move(r) \/ Order(r) \/ OrderEnds(r) \/ Withdraw(r)
    <3>1. out' = out
      BY <2>2 DEF Move, Order, OrderEnds, Withdraw, Throws
    <3>2. out = [out EXCEPT ![r] = out[r]]
      BY <1>1 DEF CallType
    <3> QED BY <1>1, <3>1, <3>2
  <2> QED BY <2>1, <2>2 DEF Executed
<1>6. CallOf(r)
  <2>1. (\E n \in Nat : left' = [left EXCEPT ![r] = n]) /\ (\E b \in BOOLEAN : late' = [late EXCEPT ![r] = b])
    BY <1>1, <1>3 DEF Goes
  <2> QED BY <1>3, <1>4, <1>5, <2>1 DEF CallOf, Goes
<1> QED BY <1>1, <1>6, CallOfKeeps

LEMMA ExecutedType ==
  ASSUME TypeOK, NEW r \in Requests, Executed(r)
  PROVE  TypeOK' /\ \A s \in Requests \ {r} : Same(s)
<1>0. CallType' /\ \A s \in Requests \ {r} : SameCall(s)
  BY ExecutedIsCall
<1> USE <1>0, CoinsOf, Amounts DEF TypeOK, CallType, Same, SameDone, setup
<1>1. CASE Convert(r)
  <2>1. PICK q \in Quotes, t \in 0 .. size[r] :
          /\ t <= trade[From(r)] /\ size[r] - t <= main[From(r)]
          /\ trade' = [trade EXCEPT ![From(r)] = @ - t]
          /\ main' = [main EXCEPT ![From(r)] = @ - (size[r] - t)]
          /\ got' = [got EXCEPT ![r] = q] /\ out' = [out EXCEPT ![r] = q]
    BY <1>1 DEF Convert
  <2>2. trade[From(r)] - t \in Nat /\ main[From(r)] - (size[r] - t) \in Nat /\ q \in Nat
    BY <2>1
  <2>3. trade' \in [Coins -> Nat] /\ main' \in [Coins -> Nat]
    BY <2>1, <2>2
  <2> QED BY <1>1, <2>1, <2>2, <2>3 DEF Convert
<1>2. CASE Move(r)
  BY <1>2 DEF Move
<1>3. CASE Order(r)
  <2>1. PICK q \in Quotes : got' = [got EXCEPT ![r] = q]
    BY <1>3 DEF Order
  <2> QED BY <1>3, <2>1 DEF Order
<1>4. CASE OrderEnds(r)
  BY <1>4 DEF OrderEnds
<1>5. CASE Withdraw(r)
  BY <1>5 DEF Withdraw
<1> QED BY <1>1, <1>2, <1>3, <1>4, <1>5 DEF Executed

(* The part of the invariant of the request that moves. *)
LEMMA WorldAt ==
  ASSUME TypeOK, NEW r \in Requests, InvAt(r), World(r)
  PROVE  InvAt(r)'
<1> USE DEF TypeOK, call, done, setup, InvAt, StepsInv, AmountsInv, Has, Worth, Swaps, From, To
<1>1. CASE Credited(r)
  <2>1. PICK a \in 1 .. Sent[r] : credit' = [credit EXCEPT ![r] = a]
    BY <1>1 DEF Credited
  <2> QED BY <1>1, <2>1, Amounts DEF Credited, Before, Ended
<1>2. CASE Usable(r)
  BY <1>2 DEF Usable
<1>3. CASE Rejected(r)
  BY <1>3 DEF Rejected, Before, Ended
<1>4. CASE Lands(r)
  BY <1>4 DEF Lands
<1>5. CASE TimePasses(r)
  BY <1>5 DEF TimePasses
<1> QED BY <1>1, <1>2, <1>3, <1>4, <1>5 DEF World

LEMMA ExecutedAt ==
  ASSUME TypeOK, NEW r \in Requests, InvAt(r), Executed(r)
  PROVE  InvAt(r)'
<1> USE Amounts DEF TypeOK, setup, InvAt, StepsInv, AmountsInv, Has, Worth, Swaps, From, To,
                    Goes, Throws, Before, Ended
<1>1. CASE Convert(r)
  BY <1>1 DEF Convert
<1>2. CASE Move(r)
  BY <1>2 DEF Move
<1>3. CASE Order(r)
  BY <1>3 DEF Order
<1>4. CASE OrderEnds(r)
  BY <1>4 DEF OrderEnds
<1>5. CASE Withdraw(r)
  BY <1>5 DEF Withdraw
<1> QED BY <1>1, <1>2, <1>3, <1>4, <1>5 DEF Executed

LEMMA QuietAt ==
  ASSUME TypeOK, NEW r \in Requests, InvAt(r), Quiet(r)
  PROVE  InvAt(r)'
<1>0. Untouched
  BY QuietIsCall
<1> USE <1>0, Amounts
    DEF TypeOK, setup, done, Untouched, InvAt, StepsInv, AmountsInv, Has, Worth, Swaps, From, To,
        Goes, Throws, Before, Ended, Polling
<1>1. CASE Start(r) BY <1>1 DEF Start
<1>2. CASE DepositFound(r) BY <1>2 DEF DepositFound
<1>3. CASE TimedOut(r) BY <1>3 DEF TimedOut
<1>4. CASE Refused(r) BY <1>4 DEF Refused
<1>5. CASE BalanceSeen(r)
  <2>1. PICK gas \in GasCosts \cup {0} :
          gas < credit[r] /\ size' = [size EXCEPT ![r] = credit[r] - gas]
    BY <1>5 DEF BalanceSeen
  <2>2. gas \in Nat /\ size'[r] <= credit[r] /\ size'[r] \in Nat
    BY <2>1, SettlementAssumption
  <2> QED BY <1>5, <2>2 DEF BalanceSeen
<1>6. CASE ConvertLacksBalance(r) BY <1>6 DEF ConvertLacksBalance
<1>7. CASE LandedSeen(r) BY <1>7 DEF LandedSeen
<1>8. CASE MoveLacksBalance(r) BY <1>8 DEF MoveLacksBalance
<1>9. CASE FlexRefused(r) BY <1>9 DEF FlexRefused
<1>10. CASE WithdrawLocked(r) BY <1>10 DEF WithdrawLocked
<1>11. CASE TriesAgain(r) BY <1>11 DEF TriesAgain
<1>12. CASE PlanFound(r) BY <1>12 DEF PlanFound
<1>13. CASE OrderLacksBalance(r) BY <1>13 DEF OrderLacksBalance
<1>14. CASE FillSeen(r) BY <1>14 DEF FillSeen
<1>15. CASE WithdrawLacksBalance(r) BY <1>15 DEF WithdrawLacksBalance
<1> QED BY <1>1, <1>2, <1>3, <1>4, <1>5, <1>6, <1>7, <1>8, <1>9, <1>10, <1>11, <1>12, <1>13,
           <1>14, <1>15 DEF Quiet

LEMMA StepIs ==
  ASSUME NEW r \in Requests, Step(r)
  PROVE  Quiet(r) \/ Executed(r)
BY DEF Step, KuCoinStep, BinanceStep, Quiet, Executed

(* The invariant holds at the start. *)
LEMMA InitHolds == Init => SettlementInv
<1> SUFFICES ASSUME Init PROVE SettlementInv
  OBVIOUS
<1>1. TypeOK
  BY SettlementAssumption DEF Init, TypeOK, Zero, No, Positive, Position
<1>2. ASSUME NEW r \in Requests PROVE StepsInv(r) /\ AmountsInv(r)
  BY Amounts DEF Init, Zero, No, StepsInv, AmountsInv, Before, Ended, Has, Worth
<1> QED BY <1>1, <1>2 DEF SettlementInv

LEMMA NextKeeps == SettlementInv /\ [Next]_vars => SettlementInv'
<1> SUFFICES ASSUME SettlementInv, [Next]_vars PROVE SettlementInv'
  OBVIOUS
<1>0. TypeOK /\ \A s \in Requests : InvAt(s)
  BY DEF SettlementInv, InvAt
<1>1. CASE UNCHANGED vars
  BY <1>1 DEF SettlementInv, TypeOK, StepsInv, AmountsInv, Has, Worth, Swaps, From, To,
              vars, setup, call, done
<1>2. CASE Next
  <2>1. PICK r \in Requests : Step(r) \/ World(r)
    BY <1>2 DEF Next
  <2>2. TypeOK' /\ (\A s \in Requests \ {r} : Same(s)) /\ InvAt(r)'
    BY <1>0, <2>1, StepIs, QuietStep, ExecutedType, WorldType, QuietAt, ExecutedAt, WorldAt
  <2>3. \A s \in Requests \ {r} : InvAt(s)'
    BY <1>0, <2>2, SameKeeps
  <2> QED BY <2>2, <2>3 DEF SettlementInv, InvAt
<1> QED BY <1>1, <1>2

(* The inductive invariant holds throughout, for any number of settlements on
   one account, any amounts and any faults. *)
THEOREM SettlementCorrect == Spec => []SettlementInv
BY InitHolds, NextKeeps, PTL DEF Spec

(* The exchange executes no step of a settlement twice. *)
THEOREM StepsOnce == Spec => []NoStepTwice
<1>1. SettlementInv => NoStepTwice
  BY DEF SettlementInv, StepsInv, NoStepTwice
<1> QED BY <1>1, SettlementCorrect, PTL

(* On KuCoin no settlement takes or pays more than came in for its request. *)
THEOREM OwnFunds == Spec => []OwnFundsOnly
<1>1. SettlementInv => OwnFundsOnly
  BY DEF SettlementInv, AmountsInv, OwnFundsOnly, Worth
<1> QED BY <1>1, SettlementCorrect, PTL

-------------------------------------------------------------------------------
(* executeSettlement implements SettlementPromise. *)

OutcomeOf(p) == IF p = "idle" THEN "none" ELSE IF p \in Ended THEN p ELSE "running"
HasFn == [r \in Requests |-> deposit[r] \in {"credited", "usable"}]

(* A move of the call of r, as the promise sees it. *)
LEMMA OutcomeMoves ==
  ASSUME TypeOK, NEW r \in Requests, NEW p, pc' = [pc EXCEPT ![r] = p]
  PROVE  Outcome' = [Outcome EXCEPT ![r] = OutcomeOf(p)] /\ Outcome[r] = OutcomeOf(pc[r])
BY DEF TypeOK, Outcome, OutcomeOf

LEMMA OutcomeStays ==
  ASSUME UNCHANGED pc
  PROVE  UNCHANGED Outcome
BY DEF Outcome

(* A step without payment begins the call, goes on with it, or throws. *)
LEMMA UnpaidStep ==
  ASSUME TypeOK, NEW r \in Requests, UNCHANGED <<HasFn, withdrawals>>,
         NEW p, pc' = [pc EXCEPT ![r] = p], pc[r] \notin Ended, p \notin {"idle", "returned"},
         pc[r] = "idle" => p \notin Ended
  PROVE  Promise!Begin(r) \/ Promise!Fail(r) \/ UNCHANGED <<Outcome, HasFn, withdrawals>>
<1>1. Outcome' = [Outcome EXCEPT ![r] = OutcomeOf(p)] /\ Outcome[r] = OutcomeOf(pc[r])
  BY OutcomeMoves
<1>2. CASE pc[r] = "idle"
  <2>1. OutcomeOf(pc[r]) = "none" /\ OutcomeOf(p) = "running"
    BY <1>2 DEF OutcomeOf
  <2> QED BY <1>1, <2>1 DEF Promise!Begin, HasFn
<1>3. CASE pc[r] # "idle" /\ p \in Ended
  <2>1. OutcomeOf(pc[r]) = "running" /\ OutcomeOf(p) = "threw"
    BY <1>3 DEF OutcomeOf, Ended
  <2> QED BY <1>1, <2>1 DEF Promise!Fail, HasFn
<1>4. CASE pc[r] # "idle" /\ p \notin Ended
  <2>1. OutcomeOf(pc[r]) = "running" /\ OutcomeOf(p) = "running"
    BY <1>4 DEF OutcomeOf
  <2>2. UNCHANGED Outcome
    BY <1>1, <2>1 DEF Outcome
  <2> QED BY <2>2
<1> QED BY <1>2, <1>3, <1>4

(* The steps of the call but the withdrawal are of that kind. *)
LEMMA UnpaidMoves ==
  ASSUME TypeOK, NEW r \in Requests, Step(r), ~Withdraw(r)
  PROVE  /\ UNCHANGED <<HasFn, withdrawals>>
         /\ pc' = [pc EXCEPT ![r] = pc'[r]] /\ pc'[r] \notin {"idle", "returned"}
         /\ pc[r] \notin Ended /\ (pc[r] = "idle" => pc'[r] \notin Ended)
<1> DEFINE Goal == /\ pc'[r] \notin {"idle", "returned"}
                   /\ pc[r] \notin Ended /\ (pc[r] = "idle" => pc'[r] \notin Ended)
<1>0. pc \in [Requests -> Position]
  BY DEF TypeOK
<1>1. \E p \in Position : pc' = [pc EXCEPT ![r] = p]
  <2>1. CASE Quiet(r)
    BY <2>1, QuietIsCall DEF CallOf
  <2>2. CASE Executed(r)
    BY <2>2 DEF Executed, Convert, Move, Order, OrderEnds, Withdraw, Goes, Throws, Position, Polling, Ended
  <2> QED BY <2>1, <2>2, StepIs
<1>2. pc' = [pc EXCEPT ![r] = pc'[r]]
  BY <1>0, <1>1
<1>3. CASE Quiet(r)
  <2>1. UNCHANGED <<HasFn, withdrawals>>
    BY <1>3, QuietIsCall DEF Untouched, done, HasFn
  <2>2. (Start(r) \/ DepositFound(r) \/ TimedOut(r) \/ Refused(r) \/ PlanFound(r)) => Goal
    BY <1>0 DEF Start, DepositFound, TimedOut, Refused, PlanFound, Goes, Throws, Ended, Polling
  <2>3. (BalanceSeen(r) \/ LandedSeen(r) \/ FlexRefused(r) \/ OrderLacksBalance(r) \/ FillSeen(r)) => Goal
    BY <1>0 DEF BalanceSeen, LandedSeen, FlexRefused, OrderLacksBalance, FillSeen, Goes, Throws, Ended
  <2>4. ConvertLacksBalance(r) => Goal
    BY <1>0 DEF ConvertLacksBalance, Goes, Ended
  <2>5. MoveLacksBalance(r) => Goal
    BY <1>0 DEF MoveLacksBalance, Goes, Ended
  <2>6. (WithdrawLocked(r) \/ TriesAgain(r) \/ WithdrawLacksBalance(r)) => Goal
    BY <1>0 DEF WithdrawLocked, TriesAgain, WithdrawLacksBalance, Goes, Throws, Ended
  <2>7. Goal
    BY <1>3, <2>2, <2>3, <2>4, <2>5, <2>6 DEF Quiet
  <2> QED BY <1>2, <2>1, <2>7
<1>4. CASE Convert(r) \/ Move(r) \/ Order(r) \/ OrderEnds(r)
  <2>1. UNCHANGED <<HasFn, withdrawals>>
    BY <1>4 DEF Convert, Move, Order, OrderEnds, HasFn
  <2>2. Goal
    BY <1>0, <1>4 DEF Convert, Move, Order, OrderEnds, Goes, Throws, Ended
  <2> QED BY <1>2, <2>1, <2>2
<1> QED BY <1>3, <1>4, StepIs DEF Executed

LEMMA WithdrawPays ==
  ASSUME SettlementInv, NEW r \in Requests, Withdraw(r)
  PROVE  Promise!Pay(r)
<1>1. PICK p \in Ended : pc' = [pc EXCEPT ![r] = p]
  BY DEF Withdraw, Goes, Ended
<1>2. TypeOK /\ pc[r] = "withdraw" /\ withdrawals[r] = 0 /\ Has(r)
  BY DEF SettlementInv, StepsInv, Withdraw, Ended
<1>3. /\ Outcome' = [Outcome EXCEPT ![r] = OutcomeOf(p)]
      /\ Outcome[r] = "running" /\ OutcomeOf(p) \in {"returned", "threw"}
  BY <1>1, <1>2, OutcomeMoves DEF OutcomeOf, Ended
<1>4. withdrawals' = [withdrawals EXCEPT ![r] = 1]
  BY <1>2 DEF Withdraw
<1>5. UNCHANGED HasFn /\ HasFn[r]
  BY <1>2 DEF Withdraw, HasFn, Has
<1> QED BY <1>2, <1>3, <1>4, <1>5 DEF Promise!Pay, HasFn

LEMMA WorldCredits ==
  ASSUME TypeOK, NEW r \in Requests, World(r)
  PROVE  Promise!Credit(r) \/ UNCHANGED <<Outcome, HasFn, withdrawals>>
<1>1. UNCHANGED <<pc, withdrawals>>
  BY DEF World, Credited, Usable, Rejected, Lands, TimePasses, call, done
<1>2. UNCHANGED Outcome
  BY <1>1, OutcomeStays
<1>3. HasFn' = [HasFn EXCEPT ![r] = TRUE] \/ UNCHANGED HasFn
  <2>1. CASE Credited(r)
    BY <2>1 DEF Credited, HasFn, TypeOK
  <2>2. CASE Usable(r)
    BY <2>2 DEF Usable, HasFn, TypeOK
  <2>3. CASE Rejected(r)
    BY <2>3 DEF Rejected, HasFn, TypeOK
  <2>4. CASE Lands(r) \/ TimePasses(r)
    BY <2>4 DEF Lands, TimePasses, HasFn
  <2> QED BY <2>1, <2>2, <2>3, <2>4 DEF World
<1> QED BY <1>1, <1>2, <1>3 DEF Promise!Credit, HasFn

LEMMA PromiseStep ==
  SettlementInv /\ [Next]_vars => [Promise!Next]_<<Outcome, HasFn, withdrawals>>
<1> SUFFICES ASSUME SettlementInv, [Next]_vars
             PROVE  Promise!Next \/ UNCHANGED <<Outcome, HasFn, withdrawals>>
  OBVIOUS
<1>1. CASE UNCHANGED vars
  BY <1>1, OutcomeStays DEF vars, call, done, HasFn
<1>2. CASE Next
  <2>1. PICK r \in Requests : Step(r) \/ World(r)
    BY <1>2 DEF Next
  <2>2. TypeOK
    BY DEF SettlementInv
  <2>3. \/ Promise!Begin(r) \/ Promise!Fail(r) \/ Promise!Pay(r) \/ Promise!Credit(r)
        \/ UNCHANGED <<Outcome, HasFn, withdrawals>>
    BY <2>1, <2>2, UnpaidMoves, UnpaidStep, WithdrawPays, WorldCredits
  <2> QED BY <2>3 DEF Promise!Next
<1> QED BY <1>1, <1>2

(* What DepositPipeline takes executeSettlement for is what it does: it pays
   once, last, and only when the exchange has the deposit. *)
THEOREM KeepsSettlementPromise == Spec => PromiseKept
<1>1. Init => Promise!Init
  <2> SUFFICES ASSUME Init PROVE Promise!Init
    OBVIOUS
  <2>1. Outcome = [r \in Requests |-> "none"]
    BY DEF Init, Outcome
  <2>2. HasFn = [r \in Requests |-> FALSE]
    <3>1. \A r \in Requests : (deposit[r] \in {"credited", "usable"}) = FALSE
      BY DEF Init
    <3> QED BY <3>1 DEF HasFn
  <2> QED BY <2>1, <2>2 DEF Init, Promise!Init, Zero, HasFn
<1>2. SettlementInv /\ [Next]_vars => [Promise!Next]_<<Outcome, HasFn, withdrawals>>
  BY PromiseStep
<1> QED BY <1>1, <1>2, SettlementCorrect, PTL DEF Spec, PromiseKept, Promise!Spec, HasFn
-------------------------------------------------------------------------------
(* Sums over finite sets. *)

(* What SumFunctionOnSet folds over the subsets of S. *)
Pick(s) == CHOOSE x \in s : TRUE
Sums(f, S, g) == g = [s \in SUBSET S |-> IF s = {} THEN 0 ELSE f[Pick(s)] + g[s \ {Pick(s)}]]

(* Unfolding the operator of the library: some Sums of f gives the sum. *)
LEMMA SumIs ==
  ASSUME NEW f, NEW S
  PROVE  SumFunctionOnSet(f, S) = (CHOOSE g : Sums(f, S, g))[S]
BY DEF SumFunctionOnSet, FoldFunctionOnSet, MapThenFoldSet, Sums, Pick

(* Induction over the subsets of a finite set: a set of them that is not empty
   has a member none of whose proper subsets is a member. *)
LEMMA SmallestSubset ==
  ASSUME NEW S, IsFiniteSet(S), NEW T \in SUBSET (SUBSET S), T # {}
  PROVE  \E t \in T : \A u \in T : u \subseteq t => u = t
<1>1. IsWellFoundedOn(StrictSubsetOrdering(S), SUBSET S)
  BY FS_StrictSubsetOrderingWellFounded, FS_FiniteSubsetsOfFinite
<1>2. PICK t \in T : \A u \in T : ~(<<u, t>> \in StrictSubsetOrdering(S))
  BY <1>1, WFMin
<1> QED BY <1>2 DEF StrictSubsetOrdering

LEMMA PickIs == ASSUME NEW s, s # {} PROVE Pick(s) \in s
BY DEF Pick

(* By induction over the subsets of S there is one such function at most... *)
LEMMA SumsUnique ==
  ASSUME NEW S, IsFiniteSet(S), NEW f, NEW R, NEW g, NEW h, Sums(f, S, g), Sums(f, R, h), S \subseteq R
  PROVE  \A s \in SUBSET S : g[s] = h[s]
<1> DEFINE T == {s \in SUBSET S : g[s] # h[s]}
<1> SUFFICES ASSUME T # {} PROVE FALSE
  OBVIOUS
<1>1. PICK t \in T : \A u \in T : u \subseteq t => u = t
  <2>1. T \in SUBSET (SUBSET S)
    OBVIOUS
  <2> HIDE DEF T
  <2> QED BY <2>1, SmallestSubset
<1>2. CASE t = {}
  BY <1>2 DEF Sums
<1>3. CASE t # {}
  <2>1. Pick(t) \in t /\ t \ {Pick(t)} \in SUBSET S /\ t \ {Pick(t)} # t
    BY <1>3, PickIs
  <2>2. g[t \ {Pick(t)}] = h[t \ {Pick(t)}]
    BY <1>1, <2>1
  <2>3. g[t] = f[Pick(t)] + g[t \ {Pick(t)}] /\ h[t] = f[Pick(t)] + h[t \ {Pick(t)}]
    BY <1>3 DEF Sums
  <2> QED BY <1>1, <2>2, <2>3
<1> QED BY <1>2, <1>3

(* ... and at least one. *)
LEMMA SumsExists ==
  ASSUME NEW S, IsFiniteSet(S), NEW f PROVE \E g : Sums(f, S, g)
<1> DEFINE T == {s \in SUBSET S : ~ \E g : Sums(f, s, g)}
           Best(s) == CHOOSE g : Sums(f, s, g)
<1> SUFFICES ASSUME T # {} PROVE FALSE
  OBVIOUS
<1>1. PICK t \in T : \A u \in T : u \subseteq t => u = t
  <2>1. T \in SUBSET (SUBSET S)
    OBVIOUS
  <2> HIDE DEF T
  <2> QED BY <2>1, SmallestSubset
<1>2. ASSUME NEW u \in SUBSET t, u # t PROVE Sums(f, u, Best(u))
  BY <1>1, <1>2
<1> DEFINE g == [s \in SUBSET t |-> IF s = {} THEN 0 ELSE f[Pick(s)] + Best(s \ {Pick(s)})[s \ {Pick(s)}]]
<1>3. ASSUME NEW u \in SUBSET t, u # t PROVE g[u] = Best(u)[u]
  <2>1. Sums(f, u, Best(u))
    BY <1>2, <1>3
  <2> HIDE DEF Best
  <2>2. CASE u = {}
    BY <2>1, <2>2 DEF Sums
  <2>3. CASE u # {}
    <3> DEFINE v == u \ {Pick(u)}
    <3>1. v \in SUBSET t /\ v # t /\ v \subseteq u /\ v \in SUBSET u
      BY <1>3
    <3>2. Sums(f, v, Best(v)) /\ IsFiniteSet(v)
      BY <1>2, <3>1, FS_Subset
    <3>3. Best(v)[v] = Best(u)[v]
      BY <2>1, <3>1, <3>2, SumsUnique
    <3>4. Best(u)[u] = f[Pick(u)] + Best(u)[v]
      BY <2>1, <2>3 DEF Sums
    <3>5. g[u] = f[Pick(u)] + Best(v)[v]
      BY <2>3
    <3> QED BY <3>3, <3>4, <3>5
  <2> QED BY <2>2, <2>3
<1>4. Sums(f, t, g)
  <2>1. ASSUME NEW s \in SUBSET t, s # {} PROVE g[s \ {Pick(s)}] = Best(s \ {Pick(s)})[s \ {Pick(s)}]
    <3>1. s \ {Pick(s)} \in SUBSET t /\ s \ {Pick(s)} # t
      BY <2>1, PickIs
    <3> HIDE DEF g, Best
    <3> QED BY <1>3, <3>1
  <2>2. g = [s \in SUBSET t |-> IF s = {} THEN 0 ELSE f[Pick(s)] + g[s \ {Pick(s)}]]
    <3> HIDE DEF Best
    <3> QED BY <2>1
  <2> QED BY <2>2 DEF Sums
<1> HIDE DEF g
<1> QED BY <1>1, <1>4

(* The equation of the fold. *)
LEMMA SumEquation ==
  ASSUME NEW S, IsFiniteSet(S), NEW f
  PROVE  /\ S = {} => SumFunctionOnSet(f, S) = 0
         /\ S # {} => SumFunctionOnSet(f, S) = f[Pick(S)] + SumFunctionOnSet(f, S \ {Pick(S)})
<1> DEFINE Best(s) == CHOOSE g : Sums(f, s, g)
           rest == S \ {Pick(S)}
<1>1. IsFiniteSet(rest) /\ rest \subseteq S
  BY FS_Subset
<1>2. Sums(f, S, Best(S)) /\ Sums(f, rest, Best(rest))
  BY <1>1, SumsExists
<1>3. SumFunctionOnSet(f, S) = Best(S)[S] /\ SumFunctionOnSet(f, rest) = Best(rest)[rest]
  BY SumIs
<1> HIDE DEF Best
<1>4. Best(rest)[rest] = Best(S)[rest]
  BY <1>1, <1>2, SumsUnique
<1>5. Best(S)[S] = IF S = {} THEN 0 ELSE f[Pick(S)] + Best(S)[rest]
  BY <1>2 DEF Sums
<1> QED BY <1>3, <1>4, <1>5

(* Sums of integers, and of natural numbers. *)
LEMMA SumType ==
  ASSUME NEW S, IsFiniteSet(S), NEW f, \A x \in S : f[x] \in Int
  PROVE  \A s \in SUBSET S : SumFunctionOnSet(f, s) \in Int
<1> DEFINE T == {s \in SUBSET S : SumFunctionOnSet(f, s) \notin Int}
<1> SUFFICES ASSUME T # {} PROVE FALSE
  OBVIOUS
<1>1. PICK t \in T : \A u \in T : u \subseteq t => u = t
  <2>1. T \in SUBSET (SUBSET S)
    OBVIOUS
  <2> HIDE DEF T
  <2> QED BY <2>1, SmallestSubset
<1>2. IsFiniteSet(t) /\ t \subseteq S /\ SumFunctionOnSet(f, t) \notin Int
  BY FS_Subset
<1>3. t # {}
  <2>1. SumFunctionOnSet(f, t) # 0
    BY <1>2
  <2> QED BY <1>2, <2>1, SumEquation
<1>4. Pick(t) \in t /\ SumFunctionOnSet(f, t \ {Pick(t)}) \in Int
  BY <1>1, <1>3, PickIs
<1>5. SumFunctionOnSet(f, t) = f[Pick(t)] + SumFunctionOnSet(f, t \ {Pick(t)})
  BY <1>2, <1>3, SumEquation
<1>6. f[Pick(t)] \in Int
  BY <1>2, <1>4
<1> QED BY <1>2, <1>4, <1>5, <1>6, SMTT(30)

(* Any element can be taken out of a sum. *)
LEMMA SumTakesOut ==
  ASSUME NEW S, IsFiniteSet(S), NEW f, \A x \in S : f[x] \in Int, NEW x \in S
  PROVE  SumFunctionOnSet(f, S) = f[x] + SumFunctionOnSet(f, S \ {x})
<1> DEFINE T == {s \in SUBSET S : \E y \in s : SumFunctionOnSet(f, s) # f[y] + SumFunctionOnSet(f, s \ {y})}
<1> SUFFICES ASSUME T # {} PROVE FALSE
  <2>1. S \notin T
    OBVIOUS
  <2> QED BY <2>1
<1>1. PICK t \in T : \A u \in T : u \subseteq t => u = t
  <2>1. T \in SUBSET (SUBSET S)
    OBVIOUS
  <2> HIDE DEF T
  <2> QED BY <2>1, SmallestSubset
<1>2. PICK y \in t : SumFunctionOnSet(f, t) # f[y] + SumFunctionOnSet(f, t \ {y})
  OBVIOUS
<1> DEFINE p == Pick(t)
<1>3. p \in t /\ IsFiniteSet(t) /\ SumFunctionOnSet(f, t) = f[p] + SumFunctionOnSet(f, t \ {p})
  BY <1>2, PickIs, FS_Subset, SumEquation
<1>4. t \in SUBSET S
  OBVIOUS
<1> HIDE DEF p
<1>5. p # y
  BY <1>2, <1>3
<1>6. /\ SumFunctionOnSet(f, t \ {p}) = f[y] + SumFunctionOnSet(f, (t \ {p}) \ {y})
      /\ SumFunctionOnSet(f, t \ {y}) = f[p] + SumFunctionOnSet(f, (t \ {y}) \ {p})
  <2>1. t \ {p} \notin T /\ t \ {y} \notin T /\ t \ {p} \in SUBSET S /\ t \ {y} \in SUBSET S
    BY <1>1, <1>2, <1>3
  <2> QED BY <1>2, <1>3, <1>5, <2>1
<1>7. (t \ {p}) \ {y} = (t \ {y}) \ {p}
  OBVIOUS
<1>8. SumFunctionOnSet(f, (t \ {y}) \ {p}) \in Int /\ f[p] \in Int /\ f[y] \in Int
  BY <1>2, <1>3, <1>4, SumType
<1> DEFINE rest == SumFunctionOnSet(f, (t \ {y}) \ {p})
<1>9. /\ SumFunctionOnSet(f, t) = f[p] + (f[y] + rest) /\ SumFunctionOnSet(f, t \ {y}) = f[p] + rest
      /\ rest \in Int
  BY <1>3, <1>6, <1>7, <1>8
<1> HIDE DEF rest, T
<1> QED BY <1>2, <1>8, <1>9

(* A sum depends on what it adds up only. *)
LEMMA SumSame ==
  ASSUME NEW S, IsFiniteSet(S), NEW f, NEW g, \A x \in S : f[x] = g[x]
  PROVE  SumFunctionOnSet(f, S) = SumFunctionOnSet(g, S)
<1> DEFINE T == {s \in SUBSET S : SumFunctionOnSet(f, s) # SumFunctionOnSet(g, s)}
<1> SUFFICES ASSUME T # {} PROVE FALSE
  <2>1. S \notin T
    OBVIOUS
  <2> QED BY <2>1
<1>1. PICK t \in T : \A u \in T : u \subseteq t => u = t
  <2>1. T \in SUBSET (SUBSET S)
    OBVIOUS
  <2> HIDE DEF T
  <2> QED BY <2>1, SmallestSubset
<1>2. IsFiniteSet(t) /\ t \subseteq S /\ SumFunctionOnSet(f, t) # SumFunctionOnSet(g, t)
  BY FS_Subset
<1>3. t # {}
  BY <1>2, SumEquation
<1>4. /\ Pick(t) \in t /\ t \ {Pick(t)} \in SUBSET S /\ t \ {Pick(t)} # t
      /\ t \ {Pick(t)} \subseteq t
  BY <1>2, <1>3, PickIs
<1>5. SumFunctionOnSet(f, t \ {Pick(t)}) = SumFunctionOnSet(g, t \ {Pick(t)})
  BY <1>1, <1>4
<1>6. f[Pick(t)] = g[Pick(t)]
  BY <1>2, <1>4
<1> QED BY <1>2, <1>3, <1>5, <1>6, SumEquation

LEMMA SumNat ==
  ASSUME NEW S, IsFiniteSet(S), NEW f, \A x \in S : f[x] \in Nat
  PROVE  SumFunctionOnSet(f, S) \in Nat
<1> DEFINE T == {s \in SUBSET S : SumFunctionOnSet(f, s) \notin Nat}
<1> SUFFICES ASSUME T # {} PROVE FALSE
  <2>1. S \notin T
    OBVIOUS
  <2> QED BY <2>1
<1>1. PICK t \in T : \A u \in T : u \subseteq t => u = t
  <2>1. T \in SUBSET (SUBSET S)
    OBVIOUS
  <2> HIDE DEF T
  <2> QED BY <2>1, SmallestSubset
<1>2. IsFiniteSet(t) /\ t \subseteq S /\ SumFunctionOnSet(f, t) \notin Nat
  BY FS_Subset
<1>3. t # {}
  <2>1. SumFunctionOnSet(f, t) # 0
    BY <1>2
  <2> QED BY <1>2, <2>1, SumEquation
<1>4. Pick(t) \in t /\ SumFunctionOnSet(f, t \ {Pick(t)}) \in Nat
  BY <1>1, <1>3, PickIs
<1> QED BY <1>2, <1>3, <1>4, SumEquation

(* What one element adds to a sum. *)
PartOf(f, A, x) == IF x \in A THEN f[x] ELSE 0

LEMMA SumParts ==
  ASSUME NEW A, IsFiniteSet(A), NEW f, \A y \in A : f[y] \in Int, NEW x
  PROVE  /\ SumFunctionOnSet(f, A) = PartOf(f, A, x) + SumFunctionOnSet(f, A \ {x})
         /\ SumFunctionOnSet(f, A) \in Int /\ SumFunctionOnSet(f, A \ {x}) \in Int
<1>1. SumFunctionOnSet(f, A) \in Int /\ SumFunctionOnSet(f, A \ {x}) \in Int
  BY SumType
<1>2. CASE x \in A
  <2>1. SumFunctionOnSet(f, A) = f[x] + SumFunctionOnSet(f, A \ {x})
    BY <1>2, SumTakesOut
  <2> QED BY <1>1, <1>2, <2>1 DEF PartOf
<1>3. CASE x \notin A
  <2>1. A \ {x} = A
    BY <1>3
  <2>2. SumFunctionOnSet(f, A \ {x}) = SumFunctionOnSet(f, A)
    BY <2>1, Zenon
  <2>3. PartOf(f, A, x) = 0
    BY <1>3 DEF PartOf
  <2> HIDE DEF PartOf
  <2> QED BY <1>1, <2>2, <2>3
<1> QED BY <1>1, <1>2, <1>3

(* A step that concerns x only changes a sum by what x adds to it. *)
LEMMA SumMoves ==
  ASSUME NEW S, IsFiniteSet(S), NEW A \in SUBSET S, NEW B \in SUBSET S, NEW f, NEW g, NEW x,
         \A y \in S : f[y] \in Int /\ g[y] \in Int,
         \A y \in S \ {x} : f[y] = g[y] /\ (y \in A <=> y \in B)
  PROVE  /\ SumFunctionOnSet(f, A) \in Int /\ SumFunctionOnSet(g, B) \in Int
         /\ SumFunctionOnSet(g, B) = SumFunctionOnSet(f, A) + PartOf(g, B, x) - PartOf(f, A, x)
<1>1. IsFiniteSet(A) /\ IsFiniteSet(B) /\ IsFiniteSet(A \ {x}) /\ A \ {x} = B \ {x}
  BY FS_Subset
<1>2. SumFunctionOnSet(f, A \ {x}) = SumFunctionOnSet(g, B \ {x})
  <2>1. \A y \in A \ {x} : f[y] = g[y]
    OBVIOUS
  <2>2. SumFunctionOnSet(f, A \ {x}) = SumFunctionOnSet(g, A \ {x})
    BY <1>1, <2>1, SumSame
  <2> QED BY <1>1, <2>2, Zenon
<1>3. /\ SumFunctionOnSet(f, A) = PartOf(f, A, x) + SumFunctionOnSet(f, A \ {x})
      /\ SumFunctionOnSet(f, A) \in Int /\ SumFunctionOnSet(f, A \ {x}) \in Int
  BY <1>1, SumParts
<1>4. /\ SumFunctionOnSet(g, B) = PartOf(g, B, x) + SumFunctionOnSet(g, B \ {x})
      /\ SumFunctionOnSet(g, B) \in Int /\ SumFunctionOnSet(g, B \ {x}) \in Int
  BY <1>1, SumParts
<1>5. PartOf(f, A, x) \in Int /\ PartOf(g, B, x) \in Int
  BY DEF PartOf
<1> QED BY <1>2, <1>3, <1>4, <1>5
-------------------------------------------------------------------------------
(* The account as a whole. *)

(* What a request adds to the totals of coin c. *)
CreditPart(r, c)  == IF From(r) = c /\ deposit[r] = "credited" THEN credit[r] ELSE 0
LandingPart(r, c) == IF To(r) = c /\ landing[r] THEN got[r] ELSE 0
DuePart(r, c)     == IF To(r) = c /\ orders[r] = 1 /\ moves[r] = 0 THEN got[r] ELSE 0
OwnPart(r, c) ==
  (IF From(r) = c THEN credit[r] - spent[r] ELSE 0) + (IF To(r) = c THEN got[r] - paid[r] ELSE 0)

PartsOf(r, c) ==
  /\ CreditPart(r, c) \in Int /\ LandingPart(r, c) \in Int
  /\ DuePart(r, c) \in Int /\ OwnPart(r, c) \in Int

LEMMA PartsType ==
  ASSUME TypeOK, NEW r \in Requests, NEW c \in Coins
  PROVE  PartsOf(r, c)
BY DEF TypeOK, PartsOf, CreditPart, LandingPart, DuePart, OwnPart

(* A step of one request changes each total by what it adds. *)
LEMMA TotalsMove ==
  ASSUME TypeOK, TypeOK', UNCHANGED setup, NEW r \in Requests,
         \A s \in Requests \ {r} : Same(s), NEW c \in Coins
  PROVE  /\ Landing(c) \in Int /\ OnTheWay(c) \in Int /\ ToBeMoved(c) \in Int
         /\ SumFunctionOnSet(Own(c), Requests) \in Int
         /\ Landing(c)' = Landing(c) + LandingPart(r, c)' - LandingPart(r, c)
         /\ OnTheWay(c)' = OnTheWay(c) + CreditPart(r, c)' - CreditPart(r, c)
                             + LandingPart(r, c)' - LandingPart(r, c)
         /\ ToBeMoved(c)' = ToBeMoved(c) + DuePart(r, c)' - DuePart(r, c)
         /\ SumFunctionOnSet(Own(c), Requests)'
              = SumFunctionOnSet(Own(c), Requests) + OwnPart(r, c)' - OwnPart(r, c)
<1> DEFINE Cs == {s \in Requests : From(s) = c /\ deposit[s] = "credited"}
           Ls == {s \in Requests : To(s) = c /\ landing[s]}
           Ds == {s \in Requests : To(s) = c /\ orders[s] = 1 /\ moves[s] = 0}
<1>0. IsFiniteSet(Requests) /\ UNCHANGED pair
  BY SettlementAssumption DEF setup
<1>1. \A s \in Requests : credit[s] \in Int /\ credit'[s] \in Int /\ got[s] \in Int /\ got'[s] \in Int
  BY DEF TypeOK
<1>2. \A s \in Requests \ {r} :
        /\ credit[s] = credit'[s] /\ got[s] = got'[s]
        /\ (s \in Cs <=> s \in Cs') /\ (s \in Ls <=> s \in Ls') /\ (s \in Ds <=> s \in Ds')
  BY <1>0 DEF Same, SameDone, From, To
<1>3. /\ Cs \in SUBSET Requests /\ Cs' \in SUBSET Requests /\ Ls \in SUBSET Requests
      /\ Ls' \in SUBSET Requests /\ Ds \in SUBSET Requests /\ Ds' \in SUBSET Requests
  OBVIOUS
<1>4. /\ PartOf(credit, Cs, r) = CreditPart(r, c) /\ PartOf(credit', Cs', r) = CreditPart(r, c)'
      /\ PartOf(got, Ls, r) = LandingPart(r, c) /\ PartOf(got', Ls', r) = LandingPart(r, c)'
      /\ PartOf(got, Ds, r) = DuePart(r, c) /\ PartOf(got', Ds', r) = DuePart(r, c)'
  BY DEF PartOf, CreditPart, LandingPart, DuePart
<1>5. /\ OnTheWay(c) = SumFunctionOnSet(credit, Cs) + Landing(c)
      /\ OnTheWay(c)' = SumFunctionOnSet(credit', Cs') + Landing(c)'
      /\ Landing(c) = SumFunctionOnSet(got, Ls) /\ Landing(c)' = SumFunctionOnSet(got', Ls')
      /\ ToBeMoved(c) = SumFunctionOnSet(got, Ds) /\ ToBeMoved(c)' = SumFunctionOnSet(got', Ds')
  BY DEF OnTheWay, Landing, ToBeMoved
<1> HIDE DEF Cs, Ls, Ds
<1>6. /\ SumFunctionOnSet(credit, Cs) \in Int
      /\ SumFunctionOnSet(credit', Cs') = SumFunctionOnSet(credit, Cs) + CreditPart(r, c)' - CreditPart(r, c)
  BY <1>0, <1>1, <1>2, <1>3, <1>4, SumMoves
<1>7. /\ SumFunctionOnSet(got, Ls) \in Int
      /\ SumFunctionOnSet(got', Ls') = SumFunctionOnSet(got, Ls) + LandingPart(r, c)' - LandingPart(r, c)
  BY <1>0, <1>1, <1>2, <1>3, <1>4, SumMoves
<1>8. /\ SumFunctionOnSet(got, Ds) \in Int
      /\ SumFunctionOnSet(got', Ds') = SumFunctionOnSet(got, Ds) + DuePart(r, c)' - DuePart(r, c)
  BY <1>0, <1>1, <1>2, <1>3, <1>4, SumMoves
<1>9. /\ SumFunctionOnSet(Own(c), Requests) \in Int
      /\ SumFunctionOnSet(Own(c)', Requests)
           = SumFunctionOnSet(Own(c), Requests) + OwnPart(r, c)' - OwnPart(r, c)
  <2>1. \A s \in Requests : Own(c)[s] = OwnPart(s, c) /\ Own(c)'[s] = OwnPart(s, c)'
    BY DEF Own, OwnPart
  <2>2. \A s \in Requests : OwnPart(s, c) \in Int /\ OwnPart(s, c)' \in Int
    BY DEF TypeOK, OwnPart
  <2>3. \A s \in Requests \ {r} : OwnPart(s, c)' = OwnPart(s, c)
    BY <1>0 DEF OwnPart, Same, SameDone, From, To
  <2>4. PartOf(Own(c), Requests, r) = OwnPart(r, c) /\ PartOf(Own(c)', Requests, r) = OwnPart(r, c)'
    BY <2>1 DEF PartOf
  <2>5. \A s \in Requests : Own(c)[s] \in Int /\ Own(c)'[s] \in Int
    BY <2>1, <2>2
  <2>6. \A s \in Requests \ {r} : Own(c)[s] = Own(c)'[s]
    BY <2>1, <2>3
  <2> QED BY <1>0, <2>4, <2>5, <2>6, SumMoves
<1>10. PartsOf(r, c) /\ PartsOf(r, c)'
  BY DEF TypeOK, PartsOf, CreditPart, LandingPart, DuePart, OwnPart
<1> QED BY <1>5, <1>6, <1>7, <1>8, <1>9, <1>10 DEF PartsOf

(* The books of the requests. *)
LEMMA SameKeepsBooks ==
  ASSUME NEW s \in Requests, Same(s), BooksInv(s)
  PROVE  BooksInv(s)'
BY DEF Same, SameCall, SameDone, BooksInv, Swaps, From, To, setup

LEMMA BooksAt ==
  ASSUME TypeOK, NEW r \in Requests, InvAt(r), BooksInv(r), Step(r) \/ World(r)
  PROVE  BooksInv(r)'
<1> USE DEF BooksInv, Swaps, From, To
<1>1. CASE Quiet(r)
  <2>0. Untouched
    BY <1>1, QuietIsCall
  <2> USE <2>0 DEF TypeOK, setup, done, Untouched, Goes, Throws, Ended, Polling
  <2>1. CASE Start(r) BY <2>1 DEF Start
  <2>2. CASE DepositFound(r) BY <2>2 DEF DepositFound
  <2>3. CASE TimedOut(r) BY <2>3 DEF TimedOut
  <2>4. CASE Refused(r) BY <2>4 DEF Refused
  <2>5. CASE BalanceSeen(r) BY <2>5 DEF BalanceSeen
  <2>6. CASE ConvertLacksBalance(r) BY <2>6 DEF ConvertLacksBalance
  <2>7. CASE LandedSeen(r) BY <2>7 DEF LandedSeen
  <2>8. CASE MoveLacksBalance(r) BY <2>8 DEF MoveLacksBalance
  <2>9. CASE FlexRefused(r) BY <2>9 DEF FlexRefused
  <2>10. CASE WithdrawLocked(r) BY <2>10 DEF WithdrawLocked
  <2>11. CASE TriesAgain(r) BY <2>11 DEF TriesAgain
  <2>12. CASE PlanFound(r) BY <2>12 DEF PlanFound
  <2>13. CASE OrderLacksBalance(r) BY <2>13 DEF OrderLacksBalance
  <2>14. CASE FillSeen(r) BY <2>14 DEF FillSeen
  <2>15. CASE WithdrawLacksBalance(r) BY <2>15 DEF WithdrawLacksBalance
  <2> QED BY <1>1, <2>1, <2>2, <2>3, <2>4, <2>5, <2>6, <2>7, <2>8, <2>9, <2>10, <2>11, <2>12,
             <2>13, <2>14, <2>15 DEF Quiet
<1>2. CASE Executed(r)
  <2> USE Amounts DEF TypeOK, setup, Goes, Throws, Before, InvAt, StepsInv
  <2>1. CASE Convert(r) BY <2>1 DEF Convert
  <2>2. CASE Move(r) BY <2>2 DEF Move
  <2>3. CASE Order(r) BY <2>3 DEF Order
  <2>4. CASE OrderEnds(r) BY <2>4 DEF OrderEnds
  <2>5. CASE Withdraw(r) BY <2>5 DEF Withdraw
  <2> QED BY <1>2, <2>1, <2>2, <2>3, <2>4, <2>5 DEF Executed
<1>3. CASE World(r)
  <2> USE DEF TypeOK, call, done, setup
  <2>1. CASE Credited(r) BY <2>1 DEF Credited
  <2>2. CASE Usable(r) BY <2>2 DEF Usable
  <2>3. CASE Rejected(r) BY <2>3 DEF Rejected
  <2>4. CASE Lands(r) BY <2>4 DEF Lands
  <2>5. CASE TimePasses(r) BY <2>5 DEF TimePasses
  <2> QED BY <1>3, <2>1, <2>2, <2>3, <2>4, <2>5 DEF World
<1> QED BY <1>1, <1>2, <1>3, StepIs

(* What a step takes from the account in coin c or puts into it is what it
   enters into the books of its request. *)
Entered(r, c) == CreditPart(r, c) + LandingPart(r, c) - OwnPart(r, c)

LEMMA StepBalances ==
  ASSUME TypeOK, TypeOK', NEW r \in Requests, InvAt(r), BooksInv(r), Step(r) \/ World(r), NEW c \in Coins
  PROVE  main'[c] + trade'[c] + Entered(r, c)' = main[c] + trade[c] + Entered(r, c)
<1> USE CoinsOf, Amounts DEF Entered, CreditPart, LandingPart, OwnPart
<1>1. CASE Quiet(r)
  <2>1. Untouched
    BY <1>1, QuietIsCall
  <2> QED BY <2>1 DEF Untouched, setup, done, From, To
<1>2. CASE Executed(r)
  <2>0. UNCHANGED <<pair, deposit, credit>>
    BY <1>2 DEF Executed, Convert, Move, Order, OrderEnds, Withdraw, setup
  <2>1. CASE Convert(r)
    <3>1. PICK q \in Quotes, t \in 0 .. size[r] :
          /\ t <= trade[From(r)] /\ size[r] - t <= main[From(r)]
          /\ trade' = [trade EXCEPT ![From(r)] = @ - t]
          /\ main' = [main EXCEPT ![From(r)] = @ - (size[r] - t)]
          /\ got' = [got EXCEPT ![r] = q]
      BY <2>1 DEF Convert
    <3>2. /\ landing'[r] /\ spent'[r] = spent[r] + size[r] /\ got'[r] = q /\ paid' = paid
          /\ got[r] = 0 /\ ~landing[r] /\ size[r] \in Nat /\ spent[r] \in Nat /\ q \in Nat /\ t \in Nat
      BY <2>1, <3>1 DEF Convert, TypeOK, InvAt, StepsInv, BooksInv, Before
    <3>3. /\ c = From(r) => main'[c] + trade'[c] = main[c] + trade[c] - size[r]
          /\ c # From(r) => main'[c] + trade'[c] = main[c] + trade[c]
      BY <3>1, <3>2 DEF TypeOK
    <3> QED BY <2>0, <3>2, <3>3 DEF From, To, TypeOK
  <2>2. CASE Move(r)
    <3>1. main'[c] + trade'[c] = main[c] + trade[c]
      BY <2>2 DEF Move, TypeOK
    <3>2. Entered(r, c)' = Entered(r, c)
      BY <2>0, <2>2 DEF Move, From, To
    <3> QED BY <3>1, <3>2
  <2>3. CASE Order(r)
    <3>1. PICK q \in Quotes : got' = [got EXCEPT ![r] = q]
      BY <2>3 DEF Order
    <3>2. /\ landing'[r] /\ spent'[r] = spent[r] + Sent[r] /\ got'[r] = q /\ paid' = paid
          /\ got[r] = 0 /\ ~landing[r] /\ spent[r] \in Nat /\ q \in Nat /\ trade' = trade
      BY <2>3, <3>1 DEF Order, TypeOK, InvAt, StepsInv, BooksInv, Before
    <3>3. /\ c = From(r) => main'[c] = main[c] - Sent[r]
          /\ c # From(r) => main'[c] = main[c]
      BY <2>3 DEF Order, TypeOK
    <3> QED BY <2>0, <3>2, <3>3 DEF From, To, TypeOK
  <2>4. CASE OrderEnds(r)
    <3>1. /\ landing[r] /\ ~landing'[r] /\ spent[r] = Sent[r] /\ spent'[r] = 0 /\ got'[r] = 0
          /\ paid' = paid /\ trade' = trade
      BY <2>4 DEF OrderEnds, TypeOK, BooksInv
    <3>2. /\ c = From(r) => main'[c] = main[c] + Sent[r]
          /\ c # From(r) => main'[c] = main[c]
      BY <2>4 DEF OrderEnds, TypeOK
    <3> QED BY <2>0, <3>1, <3>2 DEF From, To, TypeOK
  <2>5. CASE Withdraw(r)
    <3>1. /\ paid'[r] = paid[r] + out[r] /\ trade' = trade /\ UNCHANGED <<landing, spent, got>>
          /\ out[r] \in Nat
      BY <2>5 DEF Withdraw, TypeOK
    <3>2. /\ c = To(r) => main'[c] = main[c] - out[r]
          /\ c # To(r) => main'[c] = main[c]
      BY <2>5 DEF Withdraw, TypeOK
    <3> QED BY <2>0, <3>1, <3>2 DEF From, To, TypeOK
  <2> QED BY <1>2, <2>1, <2>2, <2>3, <2>4, <2>5 DEF Executed
<1>3. CASE World(r)
  <2>0. UNCHANGED <<pair, spent, got, paid>>
    BY <1>3 DEF World, Credited, Usable, Rejected, Lands, TimePasses, setup, done
  <2>1. CASE Credited(r)
    <3>1. /\ deposit[r] = "sent" /\ credit[r] = 0 /\ deposit'[r] = "credited"
          /\ UNCHANGED <<main, trade, landing>>
      BY <2>1 DEF Credited, TypeOK, BooksInv
    <3> QED BY <2>0, <3>1 DEF From, To, TypeOK
  <2>2. CASE Usable(r)
    <3>1. /\ deposit[r] = "credited" /\ deposit'[r] = "usable" /\ UNCHANGED <<credit, trade, landing>>
      BY <2>2 DEF Usable, TypeOK
    <3>2. /\ c = From(r) => main'[c] = main[c] + credit[r]
          /\ c # From(r) => main'[c] = main[c]
      BY <2>2 DEF Usable, TypeOK
    <3> QED BY <2>0, <3>1, <3>2 DEF From, To, TypeOK
  <2>3. CASE Rejected(r)
    <3>1. /\ deposit[r] = "sent" /\ deposit'[r] = "rejected" /\ UNCHANGED <<main, credit, trade, landing>>
      BY <2>3 DEF Rejected, TypeOK
    <3> QED BY <2>0, <3>1 DEF From, To, TypeOK
  <2>4. CASE Lands(r)
    <3>1. landing[r] /\ ~landing'[r] /\ UNCHANGED <<deposit, credit>>
      BY <2>4 DEF Lands, TypeOK
    <3>2. /\ c = To(r) => main'[c] + trade'[c] = main[c] + trade[c] + got[r]
          /\ c # To(r) => main'[c] + trade'[c] = main[c] + trade[c]
      BY <2>4 DEF Lands, TypeOK
    <3> QED BY <2>0, <3>1, <3>2 DEF From, To, TypeOK
  <2>5. CASE TimePasses(r)
    BY <2>0, <2>5 DEF TimePasses, From, To
  <2> QED BY <1>3, <2>1, <2>2, <2>3, <2>4, <2>5 DEF World
<1> QED BY <1>1, <1>2, <1>3, StepIs

LEMMA SetupStays ==
  ASSUME TypeOK, NEW r \in Requests, Step(r) \/ World(r)
  PROVE  UNCHANGED setup
<1>1. Quiet(r) => UNCHANGED setup
  BY QuietIsCall DEF Untouched
<1>2. Executed(r) => UNCHANGED setup
  BY DEF Executed, Convert, Move, Order, OrderEnds, Withdraw
<1>3. World(r) => UNCHANGED setup
  BY DEF World, Credited, Usable, Rejected, Lands, TimePasses
<1> QED BY <1>1, <1>2, <1>3, StepIs

(* What is going to be moved out of KuCoin's trade account is in it or lands
   there: a conversion draws on trade only in a coin that nobody swaps into. *)
NoChain == \A r, s \in Requests : Swaps(r) /\ Swaps(s) => To(r) # From(s)

LEMMA TradeStep ==
  ASSUME TypeOK, TypeOK', provider = "kucoin", ~flex, NEW r \in Requests, InvAt(r), BooksInv(r),
         Step(r) \/ World(r), NEW c \in Coins, ~(Convert(r) /\ c = From(r))
  PROVE  trade'[c] + LandingPart(r, c)' - DuePart(r, c)' = trade[c] + LandingPart(r, c) - DuePart(r, c)
<1> USE DEF LandingPart, DuePart
<1>1. CASE Quiet(r)
  <2>1. Untouched
    BY <1>1, QuietIsCall
  <2> QED BY <2>1 DEF Untouched, setup, done, To
<1>2. CASE Convert(r)
  <2>1. PICK q \in Quotes, t \in 0 .. size[r] :
          trade' = [trade EXCEPT ![From(r)] = @ - t] /\ got' = [got EXCEPT ![r] = q]
    BY <1>2 DEF Convert
  <2>2. orders[r] = 0 /\ ~landing[r] /\ moves[r] = 0
    BY <1>2 DEF Convert, TypeOK, InvAt, StepsInv, BooksInv, Before
  <2>3. c # From(r)
    BY <1>2
  <2>4. trade'[c] = trade[c] /\ got'[r] = q /\ q \in Nat
    BY <2>1, <2>3, Amounts DEF TypeOK
  <2>5. landing'[r] /\ orders'[r] = 1 /\ moves'[r] = 0 /\ pair' = pair
    BY <1>2, <2>2 DEF Convert, TypeOK, setup
  <2> QED BY <2>2, <2>4, <2>5 DEF To, TypeOK
<1>3. CASE Move(r)
  <2>1. pc[r] = "move" /\ orders[r] = 1 /\ moves[r] = 0 /\ out[r] = got[r] /\ To(r) \in Coins
    BY <1>3, CoinsOf DEF Move, InvAt, StepsInv, AmountsInv, BooksInv
  <2>2. /\ UNCHANGED <<pair, landing, got, orders>> /\ moves'[r] = 1
        /\ c = To(r) => trade'[c] = trade[c] - got[r]
        /\ c # To(r) => trade'[c] = trade[c]
    BY <1>3, <2>1 DEF Move, TypeOK, setup
  <2> QED BY <2>1, <2>2 DEF To, TypeOK
<1>4. CASE Order(r) \/ OrderEnds(r)
  BY <1>4 DEF Order, OrderEnds, InvAt, AmountsInv
<1>5. CASE Withdraw(r)
  BY <1>5 DEF Withdraw, setup, To
<1>6. CASE Lands(r)
  <2>1. landing[r] /\ ~landing'[r] /\ UNCHANGED <<pair, got, orders, moves>> /\ To(r) \in Coins
    BY <1>6, CoinsOf DEF Lands, TypeOK, setup, done
  <2>2. /\ c = To(r) => trade'[c] = trade[c] + got[r]
        /\ c # To(r) => trade'[c] = trade[c]
    BY <1>6, <2>1 DEF Lands, TypeOK
  <2> QED BY <2>1, <2>2 DEF To, TypeOK
<1>7. CASE Credited(r) \/ Usable(r) \/ Rejected(r) \/ TimePasses(r)
  BY <1>7 DEF Credited, Usable, Rejected, TimePasses, setup, done, To
<1> QED BY <1>1, <1>2, <1>3, <1>4, <1>5, <1>6, <1>7, StepIs DEF Executed, World

LEMMA TradeKept ==
  ASSUME TypeOK, TypeOK', NEW r \in Requests, InvAt(r), \A s \in Requests : BooksInv(s),
         \A s \in Requests : BooksInv(s)', \A s \in Requests \ {r} : Same(s),
         Step(r) \/ World(r), TradeCovers
  PROVE  TradeCovers'
<1>0. UNCHANGED <<provider, flex, pair>>
  BY SetupStays DEF setup
<1> SUFFICES ASSUME provider = "kucoin", ~flex, NoChain, NEW c \in Coins
             PROVE  trade'[c] + Landing(c)' >= ToBeMoved(c)'
  BY <1>0 DEF TradeCovers, NoChain, Swaps, From, To
<1>1. /\ Landing(c) \in Int /\ ToBeMoved(c) \in Int
      /\ Landing(c)' = Landing(c) + LandingPart(r, c)' - LandingPart(r, c)
      /\ ToBeMoved(c)' = ToBeMoved(c) + DuePart(r, c)' - DuePart(r, c)
  BY SetupStays, TotalsMove
<1>2. PartsOf(r, c) /\ PartsOf(r, c)' /\ trade[c] \in Int /\ trade'[c] \in Nat
  BY PartsType DEF TypeOK, PartsOf, CreditPart, LandingPart, DuePart, OwnPart
<1>3. CASE Convert(r) /\ c = From(r)
  <2>1. Swaps(r) /\ UNCHANGED provider
    BY <1>3 DEF Convert, BooksInv, setup
  <2>2. Swaps(r)' /\ NoChain' /\ c = From(r)'
    BY <1>0, <1>3, <2>1 DEF NoChain, Swaps, From, To
  <2>3. ToBeMoved(c)' = 0
    <3> DEFINE Ds == {s \in Requests : To(s) = c /\ orders[s] = 1 /\ moves[s] = 0}
    <3>1. ASSUME NEW s \in Requests, To(s)' = c PROVE orders'[s] # 1
      <4>1. ~Swaps(s)'
        BY <2>2, <3>1 DEF NoChain
      <4> QED BY <4>1 DEF BooksInv
    <3>2. Ds' = {}
      BY <3>1
    <3>3. ToBeMoved(c)' = SumFunctionOnSet(got', Ds')
      BY DEF ToBeMoved
    <3>4. SumFunctionOnSet(got', {}) = 0
      BY FS_EmptySet, SumEquation
    <3> HIDE DEF Ds
    <3> QED BY <3>2, <3>3, <3>4
  <2>4. Landing(c)' \in Nat
    <3>1. \A s \in Requests : got'[s] \in Nat
      BY DEF TypeOK
    <3> DEFINE Ls == {s \in Requests : To(s) = c /\ landing[s]}
    <3>2. IsFiniteSet(Requests) /\ Ls' \subseteq Requests
      BY SettlementAssumption
    <3>3. Landing(c)' = SumFunctionOnSet(got', Ls')
      BY DEF Landing
    <3> HIDE DEF Ls
    <3>4. IsFiniteSet(Ls')
      BY <3>2, FS_Subset
    <3> QED BY <3>1, <3>2, <3>3, <3>4, SumNat
  <2> QED BY <1>2, <2>3, <2>4
<1>4. CASE ~(Convert(r) /\ c = From(r))
  <2>1. trade'[c] + LandingPart(r, c)' - DuePart(r, c)' = trade[c] + LandingPart(r, c) - DuePart(r, c)
    BY <1>4, TradeStep
  <2>2. trade[c] + Landing(c) >= ToBeMoved(c)
    BY DEF TradeCovers, NoChain
  <2> QED BY <1>1, <1>2, <2>1, <2>2 DEF PartsOf
<1> QED BY <1>3, <1>4

LEMMA MoneyStep ==
  ASSUME TypeOK, TypeOK', NEW r \in Requests, InvAt(r), BooksInv(r),
         \A s \in Requests \ {r} : Same(s), Step(r) \/ World(r), MoneyKept
  PROVE  MoneyKept'
<1> SUFFICES ASSUME NEW c \in Coins
             PROVE  main'[c] + trade'[c] + OnTheWay(c)' = Float[c] + SumFunctionOnSet(Own(c), Requests)'
  BY DEF MoneyKept
<1>1. /\ OnTheWay(c) \in Int /\ SumFunctionOnSet(Own(c), Requests) \in Int
      /\ OnTheWay(c)' = OnTheWay(c) + CreditPart(r, c)' - CreditPart(r, c)
                          + LandingPart(r, c)' - LandingPart(r, c)
      /\ SumFunctionOnSet(Own(c), Requests)'
           = SumFunctionOnSet(Own(c), Requests) + OwnPart(r, c)' - OwnPart(r, c)
  BY SetupStays, TotalsMove
<1>2. main'[c] + trade'[c] + Entered(r, c)' = main[c] + trade[c] + Entered(r, c)
  BY StepBalances
<1>3. main[c] + trade[c] + OnTheWay(c) = Float[c] + SumFunctionOnSet(Own(c), Requests)
  BY DEF MoneyKept
<1>4. PartsOf(r, c) /\ PartsOf(r, c)' /\ Float[c] \in Int
      /\ main[c] \in Int /\ trade[c] \in Int /\ main'[c] \in Int /\ trade'[c] \in Int
  BY PartsType, SettlementAssumption DEF TypeOK, PartsOf, CreditPart, LandingPart, DuePart, OwnPart
<1>5. Entered(r, c)' = CreditPart(r, c)' + LandingPart(r, c)' - OwnPart(r, c)'
  BY DEF Entered
<1>6. Entered(r, c) = CreditPart(r, c) + LandingPart(r, c) - OwnPart(r, c)
  BY DEF Entered
<1>7. /\ CreditPart(r, c) \in Int /\ LandingPart(r, c) \in Int /\ OwnPart(r, c) \in Int
      /\ CreditPart(r, c)' \in Int /\ LandingPart(r, c)' \in Int /\ OwnPart(r, c)' \in Int
  BY <1>4 DEF PartsOf
<1>8. main'[c] + trade'[c] + OnTheWay(c)' = main[c] + trade[c] + OnTheWay(c) + OwnPart(r, c)' - OwnPart(r, c)
  BY <1>1, <1>2, <1>4, <1>5, <1>6, <1>7
<1> QED BY <1>1, <1>3, <1>4, <1>7, <1>8

(* Nothing adds up to nothing. *)
LEMMA SumZero ==
  ASSUME NEW S, IsFiniteSet(S), NEW f, \A x \in S : f[x] = 0
  PROVE  SumFunctionOnSet(f, S) = 0
<1> DEFINE T == {s \in SUBSET S : SumFunctionOnSet(f, s) # 0}
<1> SUFFICES ASSUME T # {} PROVE FALSE
  <2>1. S \notin T
    OBVIOUS
  <2> QED BY <2>1
<1>1. PICK t \in T : \A u \in T : u \subseteq t => u = t
  <2>1. T \in SUBSET (SUBSET S)
    OBVIOUS
  <2> HIDE DEF T
  <2> QED BY <2>1, SmallestSubset
<1>2. IsFiniteSet(t) /\ t \subseteq S /\ SumFunctionOnSet(f, t) # 0
  BY FS_Subset
<1>3. t # {}
  BY <1>2, SumEquation
<1>4. Pick(t) \in t /\ SumFunctionOnSet(f, t \ {Pick(t)}) = 0
  BY <1>1, <1>3, PickIs
<1> QED BY <1>2, <1>3, <1>4, SumEquation

LEMMA AccountInit == Init => AccountInv
<1> SUFFICES ASSUME Init PROVE AccountInv
  OBVIOUS
<1>0. TypeOK /\ IsFiniteSet(Requests)
  BY InitHolds, SettlementAssumption DEF SettlementInv
<1>1. ASSUME NEW r \in Requests PROVE BooksInv(r)
  BY DEF Init, BooksInv, Zero, No
<1>2. ASSUME NEW c \in Coins
      PROVE  Landing(c) = 0 /\ OnTheWay(c) = 0 /\ ToBeMoved(c) = 0
             /\ SumFunctionOnSet(Own(c), Requests) = 0
  <2>1. \A s \in Requests : credit[s] = 0 /\ got[s] = 0 /\ spent[s] = 0 /\ paid[s] = 0
    BY DEF Init, Zero
  <2>2. \A s \in Requests : Own(c)[s] = 0
    BY <2>1 DEF Own
  <2>3. SumFunctionOnSet(Own(c), Requests) = 0
    BY <1>0, <2>2, SumZero
  <2>4. ASSUME NEW S \in SUBSET Requests
        PROVE  SumFunctionOnSet(got, S) = 0 /\ SumFunctionOnSet(credit, S) = 0
    <3>1. IsFiniteSet(S)
      BY <1>0, FS_Subset
    <3>2. \A s \in S : got[s] = 0 /\ credit[s] = 0
      BY <2>1
    <3> QED BY <3>1, <3>2, SumZero
  <2> QED BY <2>3, <2>4 DEF Landing, OnTheWay, ToBeMoved
<1>3. \A c \in Coins : main[c] = Float[c] /\ trade[c] = 0 /\ Float[c] \in Nat
  BY SettlementAssumption DEF Init
<1>4. MoneyKept
  BY <1>2, <1>3 DEF MoneyKept
<1>5. TradeCovers
  BY <1>2, <1>3 DEF TradeCovers
<1> QED BY <1>1, <1>4, <1>5 DEF AccountInv

LEMMA AccountNext == SettlementInv /\ AccountInv /\ [Next]_vars => AccountInv'
<1> SUFFICES ASSUME SettlementInv, AccountInv, [Next]_vars PROVE AccountInv'
  OBVIOUS
<1>0. TypeOK /\ TypeOK' /\ \A s \in Requests : InvAt(s)
  BY NextKeeps DEF SettlementInv, InvAt
<1>1. CASE UNCHANGED vars
  BY <1>1 DEF AccountInv, BooksInv, MoneyKept, TradeCovers, Landing, OnTheWay, ToBeMoved, Own,
              Swaps, From, To, vars, setup, call, done
<1>2. CASE Next
  <2>1. PICK r \in Requests : Step(r) \/ World(r)
    BY <1>2 DEF Next
  <2>2. \A s \in Requests \ {r} : Same(s)
    BY <1>0, <2>1, StepIs, QuietStep, ExecutedType, WorldType
  <2>3. \A s \in Requests : BooksInv(s)
    BY DEF AccountInv
  <2>4. \A s \in Requests : BooksInv(s)'
    BY <1>0, <2>1, <2>2, <2>3, BooksAt, SameKeepsBooks
  <2>5. MoneyKept'
    BY <1>0, <2>1, <2>2, <2>3, MoneyStep DEF AccountInv
  <2>6. TradeCovers'
    BY <1>0, <2>1, <2>2, <2>3, <2>4, TradeKept DEF AccountInv
  <2> QED BY <2>4, <2>5, <2>6 DEF AccountInv
<1> QED BY <1>1, <1>2

(* The books of the requests and the balances of the account agree throughout:
   whatever the settlements take in any order, each coin's balances and what is
   on the way are the operator's own and what the requests brought, less what
   was swapped and paid for them. *)
THEOREM BooksCorrect == Spec => [](SettlementInv /\ AccountInv)
<1>1. Init => SettlementInv /\ AccountInv
  BY InitHolds, AccountInit
<1>2. (SettlementInv /\ AccountInv) /\ [Next]_vars => (SettlementInv /\ AccountInv)'
  BY NextKeeps, AccountNext
<1> QED BY <1>1, <1>2, PTL DEF Spec

(* On KuCoin the operator's own balance is only ever drawn upon as an advance
   on what is on its way. *)
THEOREM FloatIsUntouched == Spec => []FloatUntouched
<1>1. SettlementInv /\ AccountInv => FloatUntouched
  <2> SUFFICES ASSUME SettlementInv, AccountInv, provider = "kucoin", NEW c \in Coins
               PROVE  main[c] + trade[c] + OnTheWay(c) >= Float[c]
    BY DEF FloatUntouched
  <2>1. \A r \in Requests : Own(c)[r] \in Nat
    <3> TAKE r \in Requests
    <3>1. /\ spent[r] \in Nat /\ credit[r] \in Nat /\ paid[r] \in Nat /\ got[r] \in Nat
          /\ spent[r] <= credit[r] /\ paid[r] <= Worth(r)
          /\ ~Swaps(r) => spent[r] = 0 /\ got[r] = 0
      BY DEF SettlementInv, TypeOK, AmountsInv, AccountInv, BooksInv
    <3>2. CASE Swaps(r)
      BY <3>1, <3>2 DEF Own, Worth, Swaps
    <3>3. CASE ~Swaps(r)
      BY <3>1, <3>3 DEF Own, Worth, Swaps
    <3> QED BY <3>2, <3>3
  <2>2. SumFunctionOnSet(Own(c), Requests) \in Nat
    BY <2>1, SettlementAssumption, SumNat
  <2>3. Float[c] \in Nat /\ main[c] + trade[c] + OnTheWay(c) = Float[c] + SumFunctionOnSet(Own(c), Requests)
    BY SettlementAssumption DEF AccountInv, MoneyKept
  <2> QED BY <2>2, <2>3
<1> QED BY <1>1, BooksCorrect, PTL

(* Where no swaps are chained, KuCoin's trade account covers what is going to
   be moved out of it. *)
THEOREM TradeIsCovered == Spec => []TradeCovers
BY BooksCorrect, PTL DEF AccountInv
===============================================================================
