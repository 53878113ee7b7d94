----------------------------- MODULE Webhook_proofs -----------------------------
(***************************************************************************)
(* The invariants of the webhook and of the watcher, for any number of     *)
(* requests, deliveries and payments, any amounts and fees, and any        *)
(* faults: throws of every await, reverted transactions, redeliveries.     *)
(***************************************************************************)
EXTENDS Webhook, SequenceTheorems, FiniteSetTheorems, TLAPS
-------------------------------------------------------------------------------
(* Facts about the rules of lib/decimal.ts that the webhook rests on. *)

(* The status set, spelled out: the keys of STATUS_RANK. *)
LEMMA StatusIs ==
  Status = {"CREATED", "WAITING_DEPOSIT", "DEPOSIT_DETECTED", "UNDERPAID", "OVERPAID",
            "REFUND_PENDING", "PARTIALLY_REFUNDED", "REFUNDED", "PROCESSING",
            "COMPLETED", "CANCELLED", "FAILED"}
  BY DEF Status, Rank

(* advanceExchangeRequestStatus returns one of its two arguments. *)
LEMMA AdvanceChooses ==
  ASSUME NEW current, NEW next
  PROVE  Advance(current, next) \in {current, next}
  BY DEF Advance

(* classifyAmount splits what was received without a rest: what is accepted
   and what is to be refunded add up to it, and neither is negative. *)
THEOREM ClassificationConserves ==
  ASSUME NEW expected \in Nat, NEW received \in Nat
  PROVE  /\ Accepted(expected, received) + RefundDue(expected, received) = received
         /\ Accepted(expected, received) \in Nat
         /\ RefundDue(expected, received) \in Nat
  BY DEF Accepted, RefundDue

(* A classified status is not a final one. *)
LEMMA ClassifiedIsOpen ==
  ASSUME NEW expected, NEW received
  PROVE  ClassifiedStatus(expected, received) \in {"OVERPAID", "UNDERPAID", "DEPOSIT_DETECTED"}
  BY DEF ClassifiedStatus
-------------------------------------------------------------------------------
(* What one write of an actor, of a row and of a sweep does. *)

LEMMA IdleIsTyped == Idle \in ActorState /\ Idle.at = "idle"
  BY StatusIs DEF Idle, ActorState, NoKey, Keys, Steps

LEMMA GoesIs ==
  ASSUME TypeOK, NEW a \in Actors, NEW new, Goes(a, new)
  PROVE  /\ actor'[a] = new
         /\ \A b \in Actors : b # a => actor'[b] = actor[b]
         /\ new \in ActorState => actor' \in [Actors -> ActorState]
  BY DEF TypeOK, Goes

(* The write of a whole row: the other rows stay. *)
LEMMA RowIsWritten ==
  ASSUME NEW k, NEW row, WriteRow(k, row)
  PROVE  /\ DOMAIN rows' = DOMAIN rows \cup {k}
         /\ rows'[k] = row
         /\ \A x \in DOMAIN rows : x # k => rows'[x] = rows[x]
  BY DEF WriteRow

LEMMA RowIsTyped ==
  ASSUME TypeOK, NEW k \in Keys, NEW row \in RowState, WriteRow(k, row)
  PROVE  DOMAIN rows' \subseteq Keys /\ rows' \in [DOMAIN rows' -> RowState]
  BY DEF WriteRow, TypeOK

LEMMA EndsIs ==
  ASSUME TypeOK, NEW a \in Actors, NEW ok, Ends(a, ok)
  PROVE  /\ Goes(a, Idle)
         /\ actor' \in [Actors -> ActorState]
         /\ answered' \subseteq Payments
  BY GoesIs, IdleIsTyped DEF Ends, TypeOK

(* performSweepToExchange never sends what is not there. *)
THEOREM SweepIsCovered ==
  ASSUME NEW byKey \in BOOLEAN, NEW native_ \in BOOLEAN, NEW amount \in Nat,
         NEW native \in Nat, NEW token \in Nat, NEW gas \in Nat, NEW result,
         result = PerformSweep(byKey, native_, amount, Fee, native, token, gas)
  PROVE  /\ result.status \in SweepStatus
         /\ result.sent \in Nat /\ result.reported \in Nat /\ result.gas \in Nat
         /\ result.status = "GAS_TOPUP_SENT" => result.gas <= gas
         /\ result.status = "SWEEP_SENT" /\ native_ => result.sent + Fee <= native
         /\ result.status = "SWEEP_SENT" /\ ~native_ => result.sent <= token /\ Fee <= native
<1>1. RequiredGas(Fee) = 2 * Fee /\ RequiredGas(Fee) \in Nat /\ Fee \in Nat /\ Fee > 0
  BY WebhookAssumption DEF RequiredGas, GasFeeMultiplier, GasMinReserve
<1>0. CASE ~byKey
  BY <1>0 DEF PerformSweep, SweepError, SweepStatus
<1>2. CASE byKey /\ native < RequiredGas(Fee)
  BY <1>1, <1>2 DEF PerformSweep, GasTopUp, SweepError, TopUpOf, SweepStatus
<1>3. CASE byKey /\ ~(native < RequiredGas(Fee)) /\ native_
  BY <1>1, <1>3 DEF PerformSweep, NativeSweep, SweepError, Swept, SweepStatus
<1>4. CASE byKey /\ ~(native < RequiredGas(Fee)) /\ ~native_
  BY <1>1, <1>4 DEF PerformSweep, TokenSweep, SweepError, Swept, SweepStatus
<1> QED BY <1>0, <1>2, <1>3, <1>4

LEMMA KeysAreTyped ==
  ASSUME NEW type \in {"CLIENT_DEPOSIT", "CLIENT_REFUND", "TRANSFER_TO_BINANCE"}, NEW dep \in Nat
  PROVE  /\ Key(type, dep) \in Keys
         /\ TypeOf(Key(type, dep)) = type
         /\ Key(type, dep)[3] = dep
  BY DEF Key, Keys, TypeOf

ReqState == [status : Status \cup {"ABSENT"}, received : Nat, refunded : Nat]

(* A confirmation leaves what was received alone, and only a refund of all
   of it makes a request say REFUNDED. *)
LEMMA ConfirmationIs ==
  ASSUME TypeOK, NEW k, NEW row \in RowState, NEW new, new = AfterConfirmation(k, row)
  PROVE  /\ new \in [Requests -> ReqState]
         /\ \A r \in Requests : new[r].received = request[r].received
         /\ \A r \in Requests : new[r].status = "REFUNDED" =>
              \/ request[r].status = "REFUNDED"
              \/ TypeOf(k) = "CLIENT_REFUND" /\ r = row.req /\ row.amount = request[r].received
<1> DEFINE r == row.req  full == row.amount = request[r].received
<1>1. r \in Requests /\ row.amount \in Nat /\ request \in [Requests -> ReqState]
  BY DEF RowState, TypeOK, ReqState
<1>2. ASSUME NEW status \in Status, NEW refund \in Nat, new = Noted(r, refund, status)
      PROVE  /\ new \in [Requests -> ReqState]
             /\ \A q \in Requests : q # r => new[q] = request[q]
             /\ new[r].received = request[r].received
             /\ new[r].status \in {request[r].status, status}
  <2>1. Advance(request[r].status, status) \in {request[r].status, status}
    BY AdvanceChooses
  <2> QED BY <1>1, <1>2, <2>1 DEF Noted, ReqState
<1>3. CASE IsFinal(request[r].status) \/ TypeOf(k) \notin {"TRANSFER_TO_BINANCE", "CLIENT_REFUND"}
  <2>1. new = request
    BY <1>3 DEF AfterConfirmation
  <2> QED BY <1>1, <2>1
<1>4. CASE ~IsFinal(request[r].status) /\ TypeOf(k) = "TRANSFER_TO_BINANCE"
  <2>1. new = Noted(r, 0, "PROCESSING")
    BY <1>4 DEF AfterConfirmation
  <2> QED BY <1>1, <1>2, <2>1, StatusIs
<1>5. CASE ~IsFinal(request[r].status) /\ TypeOf(k) = "CLIENT_REFUND" /\ full
  <2>1. new = Noted(r, row.amount, "REFUNDED")
    BY <1>5 DEF AfterConfirmation
  <2> QED BY <1>1, <1>2, <1>5, <2>1, StatusIs
<1>6. CASE ~IsFinal(request[r].status) /\ TypeOf(k) = "CLIENT_REFUND" /\ ~full
  <2>1. new = Noted(r, row.amount, "PARTIALLY_REFUNDED")
    BY <1>6 DEF AfterConfirmation
  <2> QED BY <1>1, <1>2, <2>1, StatusIs
<1> QED BY <1>3, <1>4, <1>5, <1>6

(* What an actor does after the step that confirmed or found a row, after
   the refund, and once it found that a sweep is to be made. *)
LEMMA FollowsUpIs ==
  ASSUME TypeOK, NEW a \in Actors, NEW k \in DOMAIN rows, NEW status, FollowsUp(a, k, status)
  PROVE  \E new \in ActorState :
           /\ Goes(a, new) /\ answered' \subseteq Payments
           /\ new.at \in {"idle", "settle", "resume"}
           /\ new.at # "idle" => new.key = k /\ new.req = rows[k].req
           /\ new.at = "settle" => TypeOf(k) = "TRANSFER_TO_BINANCE" /\ status = "CONFIRMED"
           /\ new.at = "resume" /\ new.dep # 0 => TypeOf(k) = "CLIENT_DEPOSIT" /\ new.dep = rows[k].hash
<1> DEFINE next == [Idle EXCEPT !.event = actor[a].event, !.key = k, !.req = rows[k].req,
                                !.dep = IF TypeOf(k) = "CLIENT_DEPOSIT" THEN rows[k].hash ELSE 0]
           settles == [next EXCEPT !.at = "settle"]
           resumes == [next EXCEPT !.at = "resume"]
<1>1. actor[a] \in ActorState /\ k \in Keys /\ rows[k] \in RowState
  BY DEF TypeOK
<1>2. settles \in ActorState /\ resumes \in ActorState
  BY <1>1, IdleIsTyped, ZenonT(60) DEF ActorState, RowState, Steps
<1>3. \/ Goes(a, settles) /\ UNCHANGED answered /\ TypeOf(k) = "TRANSFER_TO_BINANCE" /\ status = "CONFIRMED"
      \/ Goes(a, resumes) /\ UNCHANGED answered
      \/ Ends(a, TRUE)
  BY DEF FollowsUp
<1>4. CASE Goes(a, settles) /\ UNCHANGED answered /\ TypeOf(k) = "TRANSFER_TO_BINANCE" /\ status = "CONFIRMED"
  <2>1. settles.at = "settle" /\ settles.key = k /\ settles.req = rows[k].req
    BY <1>2, IdleIsTyped DEF ActorState, Idle
  <2> QED BY <1>2, <1>4, <2>1 DEF TypeOK
<1>5. CASE Goes(a, resumes) /\ UNCHANGED answered
  <2>1. /\ resumes.at = "resume" /\ resumes.key = k /\ resumes.req = rows[k].req
        /\ resumes.dep = IF TypeOf(k) = "CLIENT_DEPOSIT" THEN rows[k].hash ELSE 0
    BY <1>2, IdleIsTyped DEF ActorState, Idle
  <2> QED BY <1>2, <1>5, <2>1 DEF TypeOK
<1>6. CASE Ends(a, TRUE)
  BY <1>6, EndsIs, IdleIsTyped
<1> QED BY <1>3, <1>4, <1>5, <1>6

LEMMA AfterRefundIs ==
  ASSUME TypeOK, NEW a \in Actors, AfterRefund(a)
  PROVE  \E new \in ActorState :
           /\ Goes(a, new) /\ answered' \subseteq Payments
           /\ new.at \in {"idle", "transfer"}
           /\ new.at = "transfer" =>
                /\ new.req = actor[a].req /\ new.status = actor[a].status
                /\ new.received = actor[a].received /\ new.dep = actor[a].dep
<1> DEFINE new == [actor[a] EXCEPT !.at = "transfer", !.key = NoKey, !.sent = 0, !.told = 0]
<1>1. actor[a] \in ActorState
  BY DEF TypeOK
<1>2. new \in ActorState
  BY <1>1, IdleIsTyped DEF ActorState, Steps, Idle
<1>3. CASE IsUnderpaid(actor[a].received)
  BY <1>3, EndsIs, IdleIsTyped DEF AfterRefund
<1>4. CASE ~IsUnderpaid(actor[a].received)
  <2>1. Goes(a, new) /\ answered' \subseteq Payments
    BY <1>4 DEF AfterRefund, TypeOK
  <2>2. /\ new.at = "transfer" /\ new.req = actor[a].req /\ new.status = actor[a].status
        /\ new.received = actor[a].received /\ new.dep = actor[a].dep
    BY <1>1 DEF ActorState
  <2> QED BY <1>2, <2>1, <2>2
<1> QED BY <1>3, <1>4

LEMMA SweepsIs ==
  ASSUME TypeOK, NEW a \in Actors, NEW k \in Keys, Sweeps(a, k)
  PROVE  \E new \in ActorState :
           /\ Goes(a, new) /\ answered' \subseteq Payments
           /\ new.at = "send" /\ new.key = k
           /\ new.req = actor[a].req /\ new.status = actor[a].status
           /\ new.received = actor[a].received /\ new.dep = actor[a].dep
<1> DEFINE new == [actor[a] EXCEPT !.at = "send", !.key = k]
<1>1. actor[a] \in ActorState
  BY DEF TypeOK
<1>2. new \in ActorState
  BY <1>1 DEF ActorState, Steps
<1>3. Goes(a, new) /\ answered' \subseteq Payments
  BY DEF Sweeps, TypeOK
<1>4. /\ new.at = "send" /\ new.key = k /\ new.req = actor[a].req /\ new.status = actor[a].status
      /\ new.received = actor[a].received /\ new.dep = actor[a].dep
  BY <1>1 DEF ActorState
<1> QED BY <1>2, <1>3, <1>4
-------------------------------------------------------------------------------
(* Type correctness, one step after another. *)

LEMMA WorldKeepsTypes ==
  ASSUME TypeOK,
         \/ \E amount \in Amounts, sort \in Sorts : ClientPays(amount, sort)
         \/ \E r \in Requests : RequestOpens(r) \/ RequestTimesOut(r)
         \/ \E h \in DOMAIN chain : ChainConfirms(h) \/ ChainReverts(h)
  PROVE  TypeOK'
<1>0. /\ request \in [Requests -> ReqState] /\ chain \in Seq(Entries)
      /\ purse \in [native : Nat, token : Nat, gas : Nat] /\ answered \subseteq Payments
  BY DEF TypeOK, ReqState
<1>1. ASSUME NEW amount \in Amounts, NEW sort \in Sorts, ClientPays(amount, sort)
      PROVE  TypeOK'
  <2> DEFINE e == Entry("PAYMENT", 0, amount, "confirmed", sort)
  <2>1. amount \in Nat /\ e \in Entries
    BY WebhookAssumption DEF Entry, Entries
  <2>2. chain' \in Seq(Entries) /\ Payments \subseteq Payments'
    <3>1. chain' = Append(chain, e)
      BY <1>1 DEF ClientPays
    <3>2. chain' \in Seq(Entries) /\ \A h \in DOMAIN chain : h \in DOMAIN chain' /\ chain'[h] = chain[h]
      <4> HIDE DEF e
      <4> QED BY <1>0, <2>1, <3>1
    <3> QED BY <3>2 DEF Payments
  <2>3. purse' \in [native : Nat, token : Nat, gas : Nat]
    <3>1. CASE isNative
      BY <1>0, <1>1, <2>1, <3>1 DEF ClientPays
    <3>2. CASE ~isNative
      BY <1>0, <1>1, <2>1, <3>2 DEF ClientPays
    <3> QED BY <3>1, <3>2
  <2> QED BY <1>1, <2>2, <2>3 DEF ClientPays, TypeOK
<1>2. ASSUME NEW r \in Requests, RequestOpens(r) \/ RequestTimesOut(r)
      PROVE  TypeOK'
  <2>1. PICK status \in {"WAITING_DEPOSIT", "FAILED"} : request' = [request EXCEPT ![r].status = status]
    BY <1>2 DEF RequestOpens, RequestTimesOut
  <2>2. request' \in [Requests -> ReqState]
    BY <1>0, <2>1, StatusIs DEF ReqState
  <2> QED BY <1>2, <2>2 DEF RequestOpens, RequestTimesOut, TypeOK, ReqState, Payments
<1>3. ASSUME NEW h \in DOMAIN chain, ChainConfirms(h) \/ ChainReverts(h)
      PROVE  TypeOK'
  <2>0. chain[h] \in Entries
    BY <1>0
  <2>1. chain[h] \in Entries /\ chain[h].amount \in Nat
    BY <2>0 DEF Entries
  <2>2. PICK state \in {"confirmed", "failed"} : chain' = [chain EXCEPT ![h].state = state]
    BY <1>3 DEF ChainConfirms, ChainReverts
  <2>3. chain' \in Seq(Entries) /\ Payments' = Payments
    <3> DEFINE e == [chain[h] EXCEPT !.state = state]
    <3>1. e \in Entries /\ e.type = chain[h].type
      BY <2>1 DEF Entries
    <3>2. chain' = [chain EXCEPT ![h] = e]
      BY <2>2
    <3>3. chain' \in Seq(Entries) /\ DOMAIN chain' = DOMAIN chain
          /\ \A i \in DOMAIN chain : chain'[i] = IF i = h THEN e ELSE chain[i]
      <4> HIDE DEF e
      <4> QED BY <1>0, <3>1, <3>2
    <3> QED BY <3>1, <3>3 DEF Payments
  <2>4. purse' \in [native : Nat, token : Nat, gas : Nat]
    BY <1>0, <1>3, <2>1 DEF ChainConfirms, ChainReverts
  <2> QED BY <1>3, <2>3, <2>4 DEF ChainConfirms, ChainReverts, TypeOK
<1> QED BY <1>1, <1>2, <1>3

LEMMA MergesIntoIs ==
  ASSUME TypeOK, NEW d \in Actors, NEW k \in DOMAIN rows, MergesInto(d, k)
  PROVE  \E new \in ActorState :
           /\ Goes(d, new) /\ new.at = "merge" /\ new.key = k /\ new.event = actor[d].event
           /\ new.req = actor[d].req /\ new.seen = SeenOf(rows[k])
<1> DEFINE new == [actor[d] EXCEPT !.at = "merge", !.key = k, !.seen = SeenOf(rows[k])]
<1>1. actor[d] \in ActorState /\ k \in Keys /\ SeenOf(rows[k]) \in {"same", "unconfirmed", "unfilled"}
  BY DEF TypeOK, SeenOf
<1>2. /\ new \in ActorState /\ new.at = "merge" /\ new.key = k /\ new.event = actor[d].event
      /\ new.req = actor[d].req /\ new.seen = SeenOf(rows[k])
  BY <1>1 DEF ActorState, Steps
<1> QED BY <1>2 DEF MergesInto

(* A delivery that begins has heard of a confirmed transaction. *)
LEMMA DeliverIs ==
  ASSUME TypeOK, NEW d \in Deliveries, NEW h \in DOMAIN chain, Deliver(d, h)
  PROVE  \E new \in ActorState :
           /\ Goes(d, new) /\ new.event = h /\ chain[h].state = "confirmed"
           /\ \/ new.at = "lookup"
              \/ /\ new.at = "merge" /\ new.key \in DOMAIN rows /\ rows[new.key].hash = h
                 /\ new.seen = SeenOf(rows[new.key])
<1> DEFINE heard     == [Idle EXCEPT !.event = h]
           looks     == [heard EXCEPT !.at = "lookup"]
           merges(k) == [heard EXCEPT !.at = "merge", !.key = k, !.seen = SeenOf(rows[k])]
<1>0. h \in Nat
  <2>1. chain \in Seq(Entries)
    BY DEF TypeOK
  <2> QED BY <2>1
<1>1. h \in Nat /\ chain[h].state = "confirmed"
  BY <1>0 DEF Deliver
<1>2. looks \in ActorState /\ looks.at = "lookup" /\ looks.event = h
  BY <1>1, IdleIsTyped DEF ActorState, Steps
<1>3. ASSUME NEW k \in WithHash(h)
      PROVE  /\ merges(k) \in ActorState /\ merges(k).at = "merge" /\ merges(k).event = h
             /\ merges(k).key = k /\ k \in DOMAIN rows /\ rows[k].hash = h
             /\ merges(k).seen = SeenOf(rows[k])
  <2>1. k \in Keys /\ k \in DOMAIN rows /\ rows[k].hash = h
        /\ SeenOf(rows[k]) \in {"same", "unconfirmed", "unfilled"}
    BY DEF TypeOK, SeenOf, WithHash
  <2> QED BY <1>1, <2>1, IdleIsTyped DEF ActorState, Steps
<1>4. \/ Goes(d, looks) \/ \E k \in WithHash(h) : Goes(d, merges(k))
  BY DEF Deliver
<1> HIDE DEF looks, merges
<1>5. CASE Goes(d, looks)
  BY <1>1, <1>2, <1>5
<1>6. ASSUME NEW k \in WithHash(h), Goes(d, merges(k))
      PROVE  \E new \in ActorState :
               /\ Goes(d, new) /\ new.event = h
               /\ new.at = "merge" /\ new.key \in DOMAIN rows /\ rows[new.key].hash = h
               /\ new.seen = SeenOf(rows[new.key])
  BY <1>3, <1>6
<1> QED BY <1>1, <1>4, <1>5, <1>6

LEMMA ChainIsTyped ==
  ASSUME TypeOK, NEW h \in DOMAIN chain
  PROVE  /\ h \in Nat \ {0} /\ chain[h] \in Entries /\ chain[h].amount \in Nat /\ chain[h].dep \in Nat
         /\ Len(chain) + 1 \in Nat
<1>1. chain \in Seq(Entries)
  BY DEF TypeOK
<1>2. h \in Nat \ {0} /\ chain[h] \in Entries /\ Len(chain) + 1 \in Nat
  BY <1>1
<1> QED BY <1>2 DEF Entries

LEMMA RecordIsTyped ==
  ASSUME NEW r \in Requests, NEW status \in {"CREATED", "DETECTED", "BROADCASTED"},
         NEW amount \in Nat, NEW hash \in Nat, NEW filled \in BOOLEAN
  PROVE  /\ Row(r, status, amount, hash, filled) \in RowState
         /\ Row(r, status, amount, hash, filled).req = r
         /\ Row(r, status, amount, hash, filled).status = status
         /\ Row(r, status, amount, hash, filled).amount = amount
         /\ Row(r, status, amount, hash, filled).hash = hash
  BY DEF Row, RowState

LEMMA StageIs ==
  ASSUME TypeOK, NEW d \in Deliveries, Stage(d)
  PROVE  \E new \in ActorState :
           /\ Goes(d, new) /\ answered' \subseteq Payments
           /\ new.at \in {"idle", "merge", "commit"}
           /\ new.at # "idle" => new.event = actor[d].event /\ new.req = actor[d].req
           /\ new.at = "merge" =>
                new.key \in WithHash(actor[d].event) /\ new.seen = SeenOf(rows[new.key])
           /\ new.at # "commit" => UNCHANGED raced
           /\ new.at = "commit" =>
                /\ new.status = request[actor[d].req].status
                /\ WithHash(actor[d].event) = {} /\ Eligible(actor[d].req, actor[d].event)
                /\ Races(\E b \in Deliveries : At(b, "commit") /\ actor[b].req = actor[d].req,
                         Key("CLIENT_DEPOSIT", actor[d].event))
<1> DEFINE r == actor[d].req  h == actor[d].event
           commits == [actor[d] EXCEPT !.at = "commit", !.status = request[r].status]
           races == Races(\E b \in Deliveries : At(b, "commit") /\ actor[b].req = actor[d].req,
                          Key("CLIENT_DEPOSIT", actor[d].event))
<1>0. d \in Actors /\ actor[d] \in ActorState /\ request \in [Requests -> ReqState]
  BY DEF Actors, TypeOK, ReqState
<1>1. \/ (\E k \in WithHash(h) : MergesInto(d, k)) /\ UNCHANGED <<answered, raced>>
      \/ Ends(d, TRUE) /\ UNCHANGED raced
      \/ WithHash(h) = {} /\ Eligible(r, h) /\ Goes(d, commits) /\ races /\ UNCHANGED answered
  BY DEF Stage
<1>3. CASE (\E k \in WithHash(h) : MergesInto(d, k)) /\ UNCHANGED <<answered, raced>>
  <2>1. answered' \subseteq Payments
    BY <1>3 DEF TypeOK
  <2>2. PICK k \in WithHash(h) : MergesInto(d, k)
    BY <1>3
  <2>3. k \in DOMAIN rows
    BY DEF WithHash
  <2>4. PICK new \in ActorState :
          /\ Goes(d, new) /\ new.at = "merge" /\ new.key = k /\ new.event = h
          /\ new.req = r /\ new.seen = SeenOf(rows[k])
    BY <1>0, <2>2, <2>3, MergesIntoIs
  <2>5. new.at # "commit" /\ UNCHANGED raced /\ new.key \in WithHash(h)
    BY <1>3, <2>4
  <2> QED BY <2>1, <2>4, <2>5
<1>4. CASE Ends(d, TRUE) /\ UNCHANGED raced
  BY <1>0, <1>4, EndsIs, IdleIsTyped
<1>5. CASE WithHash(h) = {} /\ Eligible(r, h) /\ Goes(d, commits) /\ races /\ UNCHANGED answered
  <2>1. request[r].status \in PollStatuses
    BY <1>5 DEF Eligible
  <2>2. commits \in ActorState /\ commits.at = "commit" /\ commits.event = h /\ commits.req = r
        /\ commits.status = request[r].status
    BY <1>0, <2>1, StatusIs, ZenonT(60) DEF ActorState, Steps, PollStatuses
  <2>3. answered' \subseteq Payments
    BY <1>5 DEF TypeOK
  <2> HIDE DEF commits
  <2> QED BY <1>5, <2>2, <2>3
<1> QED BY <1>1, <1>3, <1>4, <1>5

LEMMA CommitIs ==
  ASSUME TypeOK, NEW d \in Deliveries, Fits(d, actor[d]), Commit(d)
  PROVE  LET me == actor[d]  amount == chain[actor[d].event].amount
         IN \E new \in ActorState :
              /\ Goes(d, new)
              /\ \/ /\ new.at = "merge" /\ new.event = me.event
                    /\ new.key \in WithHash(me.event) /\ new.seen = SeenOf(rows[new.key])
                    /\ UNCHANGED <<request, rows>>
                 \/ /\ new.at = "refund" /\ new.dep = me.event /\ new.req = me.req
                    /\ new.received = amount /\ ~IsFinal(new.status)
                    /\ WithHash(me.event) = {}
                    /\ WriteRow(Key("CLIENT_DEPOSIT", me.event),
                                Row(me.req, "DETECTED", amount, me.event, TRUE))
                    /\ request' \in [Requests -> ReqState]
                    /\ \A q \in Requests : q # me.req => request'[q] = request[q]
                    /\ request'[me.req].status = new.status /\ request'[me.req].received = amount
<1> DEFINE r == actor[d].req  h == actor[d].event  amount == chain[h].amount
           next == Advance(actor[d].status, ClassifiedStatus(Expected, amount))
           refunds == [actor[d] EXCEPT !.at = "refund", !.status = next, !.received = amount,
                                       !.dep = h, !.first = TRUE]
<1>1. /\ d \in Actors /\ actor[d] \in ActorState /\ request \in [Requests -> ReqState]
      /\ r \in Requests /\ h \in DOMAIN chain /\ actor[d].status \in PollStatuses
  BY DEF Actors, TypeOK, ReqState, Fits, Commit, At
<1>2. amount \in Nat /\ h \in Nat
  BY <1>1, ChainIsTyped
<1>3. next \in Status /\ ~IsFinal(next)
  <2>1. next \in {actor[d].status, ClassifiedStatus(Expected, amount)}
    BY AdvanceChooses
  <2> QED BY <1>1, <2>1, ClassifiedIsOpen, StatusIs DEF PollStatuses, IsFinal, FinalStatuses
<1>4. CASE (\E k \in WithHash(h) : MergesInto(d, k)) /\ UNCHANGED <<request, rows>>
  <2>1. PICK k \in WithHash(h) : MergesInto(d, k)
    BY <1>4
  <2>2. k \in DOMAIN rows
    BY DEF WithHash
  <2>3. PICK new \in ActorState :
          /\ Goes(d, new) /\ new.at = "merge" /\ new.key = k /\ new.event = h
          /\ new.seen = SeenOf(rows[k])
    BY <1>1, <2>1, <2>2, MergesIntoIs
  <2> QED BY <1>4, <2>3
<1>5. CASE /\ WithHash(h) = {} /\ Goes(d, refunds)
           /\ WriteRow(Key("CLIENT_DEPOSIT", h), Row(r, "DETECTED", amount, h, TRUE))
           /\ request' = [request EXCEPT ![r].status = next, ![r].received = amount]
  <2>1. /\ refunds \in ActorState /\ refunds.at = "refund" /\ refunds.dep = h /\ refunds.req = r
        /\ refunds.received = amount /\ refunds.status = next
    BY <1>1, <1>2, <1>3 DEF ActorState, Steps
  <2>2. /\ request' \in [Requests -> ReqState]
        /\ \A q \in Requests : q # r => request'[q] = request[q]
        /\ request'[r].status = next /\ request'[r].received = amount
    <3> HIDE DEF next, amount
    <3> QED BY <1>1, <1>2, <1>3, <1>5 DEF ReqState
  <2> HIDE DEF refunds
  <2> QED BY <1>3, <1>5, <2>1, <2>2
<1>6. \/ (\E k \in WithHash(h) : MergesInto(d, k)) /\ UNCHANGED <<request, rows>>
      \/ /\ WithHash(h) = {} /\ Goes(d, refunds)
         /\ WriteRow(Key("CLIENT_DEPOSIT", h), Row(r, "DETECTED", amount, h, TRUE))
         /\ request' = [request EXCEPT ![r].status = next, ![r].received = amount]
  BY DEF Commit
<1> QED BY <1>4, <1>5, <1>6

(* A row gets another status: its request, amount and hash stay. *)
Remarks(k, status) ==
  /\ DOMAIN rows' = DOMAIN rows /\ rows' \in [DOMAIN rows -> RowState]
  /\ \A x \in DOMAIN rows :
       /\ rows'[x].req = rows[x].req /\ rows'[x].amount = rows[x].amount /\ rows'[x].hash = rows[x].hash
       /\ rows'[x].status = IF x = k THEN status ELSE rows[x].status

(* What a confirmation of row k does to the requests. *)
Confirms(k) ==
  /\ request' \in [Requests -> ReqState]
  /\ \A r \in Requests :
       /\ request'[r].received = request[r].received
       /\ request'[r].status = "REFUNDED" =>
            \/ request[r].status = "REFUNDED"
            \/ /\ TypeOf(k) = "CLIENT_REFUND" /\ r = rows[k].req /\ rows[k].amount = request[r].received
               /\ rows'[k].status = "CONFIRMED"

LEMMA RemarkIs ==
  ASSUME TypeOK, NEW k \in DOMAIN rows, NEW row \in RowState, WriteRow(k, row),
         row.req = rows[k].req, row.amount = rows[k].amount, row.hash = rows[k].hash
  PROVE  Remarks(k, row.status)
<1>1. k \in Keys
  BY DEF TypeOK
<1>2. DOMAIN rows' = DOMAIN rows
  BY RowIsWritten
<1>3. rows' \in [DOMAIN rows -> RowState]
  BY <1>1, <1>2, RowIsTyped
<1>4. \A x \in DOMAIN rows : rows'[x] = IF x = k THEN row ELSE rows[x]
  BY RowIsWritten
<1> QED BY <1>2, <1>3, <1>4 DEF Remarks

LEMMA MergeIs ==
  ASSUME TypeOK, NEW d \in Deliveries, Fits(d, actor[d]), Merge(d)
  PROVE  LET me == actor[d]  k == actor[d].key
         IN /\ k \in DOMAIN rows
            /\ \E status \in {rows[k].status} \cup (IF me.seen = "unconfirmed" THEN {"CONFIRMED"} ELSE {}) :
                 /\ Remarks(k, status)
                 /\ Confirms(k)
                 /\ FollowsUp(d, k, status)
<1> DEFINE me == actor[d]  k == actor[d].key
           status == IF me.seen = "unconfirmed" THEN "CONFIRMED" ELSE rows[k].status
           merged == [rows[k] EXCEPT !.status = status, !.filled = TRUE]
<1>1. d \in Actors /\ k \in DOMAIN rows /\ request \in [Requests -> ReqState]
  BY DEF Actors, TypeOK, ReqState, Fits, Merge, At
<1>2. rows[k] \in RowState /\ rows \in [DOMAIN rows -> RowState]
  BY <1>1 DEF TypeOK
<1>3. /\ merged \in RowState /\ merged.req = rows[k].req /\ merged.amount = rows[k].amount
      /\ merged.hash = rows[k].hash /\ merged.status = status
  BY <1>2 DEF RowState
<1>4. FollowsUp(d, k, status)
  BY DEF Merge
<1>5. CASE me.seen = "same" /\ UNCHANGED <<request, rows>>
  <2>1. status = rows[k].status
    BY <1>5
  <2>2. Remarks(k, status) /\ Confirms(k)
    BY <1>1, <1>2, <1>5, <2>1 DEF Remarks, Confirms
  <2> QED BY <1>1, <1>4, <2>2
<1>6. CASE WriteRow(k, merged) /\ request' = IF status = "CONFIRMED" THEN AfterConfirmation(k, merged) ELSE request
  <2>1. Remarks(k, status)
    <3> HIDE DEF merged
    <3> QED BY <1>1, <1>3, <1>6, RemarkIs
  <2>2. CASE status = "CONFIRMED"
    <3>1. request' = AfterConfirmation(k, merged)
      BY <1>6, <2>2
    <3>2. Confirms(k)
      <4> HIDE DEF merged, status
      <4>1. /\ request' \in [Requests -> ReqState]
            /\ \A r \in Requests : request'[r].received = request[r].received
            /\ \A r \in Requests : request'[r].status = "REFUNDED" =>
                 \/ request[r].status = "REFUNDED"
                 \/ TypeOf(k) = "CLIENT_REFUND" /\ r = merged.req /\ merged.amount = request[r].received
        BY <1>3, <3>1, ConfirmationIs
      <4>2. rows'[k].status = "CONFIRMED"
        BY <1>1, <2>1, <2>2 DEF Remarks
      <4> QED BY <1>3, <4>1, <4>2 DEF Confirms
    <3> QED BY <1>1, <1>4, <2>1, <3>2
  <2>3. CASE status # "CONFIRMED"
    <3>1. Confirms(k)
      BY <1>1, <1>6, <2>3 DEF Confirms
    <3> QED BY <1>1, <1>4, <2>1, <3>1
  <2> QED BY <2>2, <2>3
<1> QED BY <1>5, <1>6 DEF Merge

LEMMA ResumeIs ==
  ASSUME TypeOK, NEW a \in Actors, Fits(a, actor[a]), Resume(a)
  PROVE  LET me == actor[a]
         IN \E new \in ActorState :
              /\ Goes(a, new) /\ answered' \subseteq Payments
              /\ new.at \in {"idle", "refund"}
              /\ new.at = "refund" =>
                   /\ new.req = me.req /\ me.req \in Requests
                   /\ new.status = request[me.req].status /\ ~IsFinal(new.status)
                   /\ new.received = request[me.req].received
                   /\ \/ me.dep # 0 /\ new.dep = me.dep
                      \/ \E k \in DepositsOf(me.req) : new.dep = rows[k].hash
<1> DEFINE me == actor[a]  r == actor[a].req
           deps == IF me.dep # 0 THEN {me.dep} ELSE {rows[k].hash : k \in DepositsOf(r)}
           refunds(dep) == [me EXCEPT !.at = "refund", !.key = NoKey, !.dep = dep,
                              !.status = request[r].status, !.received = request[r].received]
<1>1. me \in ActorState /\ request \in [Requests -> ReqState] /\ rows \in [DOMAIN rows -> RowState]
  BY DEF TypeOK, ReqState
<1>2. r \in Requests
  <2>1. me.key \in DOMAIN rows /\ r = rows[me.key].req
    BY DEF Fits, Resume, At
  <2> QED BY <1>1, <2>1 DEF RowState
<1>3. ASSUME NEW dep \in deps
      PROVE  /\ refunds(dep) \in ActorState /\ refunds(dep).at = "refund" /\ refunds(dep).req = r
             /\ refunds(dep).status = request[r].status /\ refunds(dep).received = request[r].received
             /\ refunds(dep).dep = dep
             /\ (me.dep # 0 /\ dep = me.dep) \/ \E k \in DepositsOf(r) : dep = rows[k].hash
  <2>1. (me.dep # 0 /\ dep = me.dep) \/ \E k \in DepositsOf(r) : dep = rows[k].hash
    OBVIOUS
  <2>2. dep \in Nat
    BY <1>1, <2>1 DEF ActorState, RowState, DepositsOf
  <2>3. NoKey \in Keys
    BY DEF NoKey, Keys
  <2> QED BY <1>1, <1>2, <2>1, <2>2, <2>3 DEF ActorState, ReqState, Steps
<1>4. \/ Ends(a, TRUE)
      \/ ~IsFinal(request[r].status) /\ UNCHANGED answered /\ \E dep \in deps : Goes(a, refunds(dep))
  BY DEF Resume
<1>5. CASE Ends(a, TRUE)
  BY <1>5, EndsIs, IdleIsTyped
<1>6. CASE ~IsFinal(request[r].status) /\ UNCHANGED answered /\ \E dep \in deps : Goes(a, refunds(dep))
  <2>1. PICK dep \in deps : Goes(a, refunds(dep))
    BY <1>6
  <2>2. answered' \subseteq Payments
    BY <1>6 DEF TypeOK
  <2> HIDE DEF refunds, deps
  <2> QED BY <1>2, <1>3, <1>6, <2>1, <2>2
<1> QED BY <1>4, <1>5, <1>6

LEMMA EnsureIntentIs ==
  ASSUME TypeOK, NEW k \in Keys, NEW r \in Requests, NEW amount \in Nat, EnsureIntent(k, r, amount)
  PROVE  /\ DOMAIN rows' = DOMAIN rows \cup {k} /\ rows' \in [DOMAIN rows' -> RowState]
         /\ \A x \in DOMAIN rows : rows'[x] = rows[x]
         /\ k \notin DOMAIN rows => rows'[k].req = r /\ rows'[k].hash = 0 /\ rows'[k].status = "CREATED"
<1>1. CASE k \in DOMAIN rows
  BY <1>1 DEF EnsureIntent, Known, TypeOK
<1>2. CASE k \notin DOMAIN rows
  <2> DEFINE row == Row(r, "CREATED", amount, 0, FALSE)
  <2>1. row \in RowState /\ row.req = r /\ row.hash = 0 /\ row.status = "CREATED"
    BY DEF Row, RowState
  <2>2. WriteRow(k, row)
    BY <1>2 DEF EnsureIntent, Known
  <2> HIDE DEF row
  <2> QED BY <1>2, <2>1, <2>2, RowIsWritten, RowIsTyped
<1> QED BY <1>1, <1>2

(* What an actor carries from the record of the deposit to its sweeps. *)
Carries(a, new) ==
  /\ new.req = actor[a].req /\ new.status = actor[a].status
  /\ new.received = actor[a].received /\ new.dep = actor[a].dep

(* The refund and the transfer: nothing to send, or the intent is recorded
   and the sweep of its row is next. *)
Intends(a, new, k) ==
  /\ \E amount \in Nat : EnsureIntent(k, actor[a].req, amount)
  /\ ~HasHash(k)
  /\ new.at = "send" /\ new.key = k /\ Carries(a, new)
  /\ Races(\E b \in Actors : actor[b].at \in {"send", "persist"} /\ actor[b].key = k, k)

LEMMA IntentIs ==
  ASSUME TypeOK, NEW a \in Actors, Fits(a, actor[a]), Refund(a) \/ Transfer(a)
  PROVE  \E new \in ActorState :
           /\ Goes(a, new) /\ answered' \subseteq Payments
           /\ \/ /\ UNCHANGED <<rows, raced>>
                 /\ new.at \in {"idle", "transfer"} /\ (new.at = "transfer" => Carries(a, new))
              \/ \E type \in SweepTypes :
                   /\ Intends(a, new, Key(type, actor[a].dep))
                   /\ type = "TRANSFER_TO_BINANCE" => actor[a].received >= Expected
<1> DEFINE me == actor[a]
<1>1. /\ me \in ActorState /\ me.received \in Nat /\ me.dep \in Nat /\ Expected \in Nat
      /\ me.at \in {"refund", "transfer"} /\ me.req \in Requests
  <2>1. me \in ActorState /\ Expected \in Nat
    BY WebhookAssumption DEF TypeOK
  <2>3. me.at \in {"refund", "transfer"}
    BY DEF Refund, Transfer, At
  <2>2. me.received \in Nat /\ me.dep \in Nat
    BY <2>1 DEF ActorState
  <2> QED BY <2>1, <2>2, <2>3 DEF Fits
<1>2. \A type \in SweepTypes : Key(type, me.dep) \in Keys /\ TypeOf(Key(type, me.dep)) = type
  BY <1>1, KeysAreTyped DEF SweepTypes
<1>3. ASSUME NEW type \in SweepTypes, NEW amount \in Nat, type = "TRANSFER_TO_BINANCE" => me.received >= Expected,
             EnsureIntent(Key(type, me.dep), me.req, amount), ~HasHash(Key(type, me.dep)),
             Sweeps(a, Key(type, me.dep))
      PROVE  \E new \in ActorState :
               /\ Goes(a, new) /\ answered' \subseteq Payments
               /\ Intends(a, new, Key(type, me.dep))
  <2> DEFINE k == Key(type, me.dep)
  <2>1. k \in Keys
    BY <1>2
  <2>2. PICK new \in ActorState :
          /\ Goes(a, new) /\ answered' \subseteq Payments
          /\ new.at = "send" /\ new.key = k
          /\ new.req = me.req /\ new.status = me.status
          /\ new.received = me.received /\ new.dep = me.dep
    BY <1>3, <2>1, SweepsIs
  <2>3. Races(\E b \in Actors : actor[b].at \in {"send", "persist"} /\ actor[b].key = k, k)
    BY <1>3 DEF Sweeps
  <2> QED BY <1>3, <2>2, <2>3 DEF Intends, Carries
<1>4. CASE Refund(a)
  <2> DEFINE k == Key("CLIENT_REFUND", me.dep)  due == RefundDue(Expected, me.received)
  <2>1. due \in Nat
    BY <1>1, ClassificationConserves
  <2>2. \/ AfterRefund(a) /\ UNCHANGED <<rows, raced>>
        \/ Ends(a, FALSE) /\ UNCHANGED <<rows, raced>>
        \/ EnsureIntent(k, me.req, due) /\ ~HasHash(k) /\ Sweeps(a, k)
    BY <1>4 DEF Refund, EnsureIntent, HasHash
  <2>3. CASE AfterRefund(a) /\ UNCHANGED <<rows, raced>>
    BY <2>3, AfterRefundIs DEF Carries
  <2>4. CASE Ends(a, FALSE) /\ UNCHANGED <<rows, raced>>
    BY <2>4, EndsIs, IdleIsTyped
  <2>5. CASE EnsureIntent(k, me.req, due) /\ ~HasHash(k) /\ Sweeps(a, k)
    BY <1>3, <2>1, <2>5 DEF SweepTypes
  <2> QED BY <2>2, <2>3, <2>4, <2>5
<1>5. CASE Transfer(a)
  <2> DEFINE k == Key("TRANSFER_TO_BINANCE", me.dep)  amount == Accepted(Expected, me.received)
  <2>1. amount \in Nat
    BY <1>1, ClassificationConserves
  <2>2. \/ Ends(a, TRUE) /\ UNCHANGED <<rows, raced>>
        \/ ~IsUnderpaid(me.received) /\ EnsureIntent(k, me.req, amount) /\ ~HasHash(k) /\ Sweeps(a, k)
    BY <1>5 DEF Transfer, EnsureIntent, HasHash
  <2>3. CASE Ends(a, TRUE) /\ UNCHANGED <<rows, raced>>
    BY <2>3, EndsIs, IdleIsTyped
  <2>4. CASE ~IsUnderpaid(me.received) /\ EnsureIntent(k, me.req, amount) /\ ~HasHash(k) /\ Sweeps(a, k)
    <3>1. me.received >= Expected
      BY <1>1, <2>4 DEF IsUnderpaid
    <3> QED BY <1>3, <2>1, <2>4, <3>1 DEF SweepTypes
  <2> QED BY <2>2, <2>3, <2>4
<1> QED BY <1>4, <1>5

LEMMA FindRequestIs ==
  ASSUME TypeOK, NEW d \in Deliveries, FindRequest(d)
  PROVE  \E new \in ActorState :
           /\ Goes(d, new) /\ answered' \subseteq Payments
           /\ new.at \in {"idle", "stage"}
           /\ new.at = "stage" => new.req \in Requests /\ new.event = actor[d].event
<1>1. d \in Actors /\ actor[d] \in ActorState
  BY DEF Actors, TypeOK
<1>2. CASE \E r \in OpenRequests : Goes(d, [actor[d] EXCEPT !.at = "stage", !.req = r]) /\ UNCHANGED answered
  <2>1. PICK r \in OpenRequests : Goes(d, [actor[d] EXCEPT !.at = "stage", !.req = r]) /\ UNCHANGED answered
    BY <1>2
  <2> DEFINE new == [actor[d] EXCEPT !.at = "stage", !.req = r]
  <2>2. r \in Requests
    BY DEF OpenRequests
  <2>3. new \in ActorState /\ new.at = "stage" /\ new.req = r /\ new.event = actor[d].event
    BY <1>1, <2>2 DEF ActorState, Steps
  <2>4. answered' \subseteq Payments
    BY <2>1 DEF TypeOK
  <2> HIDE DEF new
  <2> QED BY <2>1, <2>2, <2>3, <2>4 DEF new
<1>3. CASE Ends(d, TRUE)
  BY <1>1, <1>3, EndsIs, IdleIsTyped
<1> QED BY <1>2, <1>3 DEF FindRequest

LEMMA SettleIs ==
  ASSUME TypeOK, NEW a \in Actors, Fits(a, actor[a]), Settle(a)
  PROVE  /\ Goes(a, Idle) /\ answered' \subseteq Payments
         /\ At(a, "settle") /\ actor[a].req \in Requests
         /\ request' \in [Requests -> ReqState]
         /\ \A r \in Requests :
              /\ request'[r].received = request[r].received
              /\ request'[r].status = "REFUNDED" => request[r].status = "REFUNDED"
         /\ payout' \subseteq payout \cup {actor[a].req}
<1> DEFINE r == actor[a].req
<1>1. request \in [Requests -> ReqState] /\ rows \in [DOMAIN rows -> RowState]
  BY DEF TypeOK, ReqState
<1>2. r \in Requests
  <2>1. actor[a].key \in DOMAIN rows /\ r = rows[actor[a].key].req
    BY DEF Fits, Settle, At
  <2> QED BY <1>1, <2>1 DEF RowState
<1>3. Goes(a, Idle) /\ answered' \subseteq Payments /\ At(a, "settle")
  BY EndsIs DEF Settle
<1>4. CASE UNCHANGED <<request, payout>>
  BY <1>1, <1>2, <1>3, <1>4
<1>5. CASE /\ payout' = payout \cup {r}
           /\ \E result \in {"COMPLETED", "FAILED"} : request' = [request EXCEPT ![r].status = result]
  <2>1. PICK result \in {"COMPLETED", "FAILED"} : request' = [request EXCEPT ![r].status = result]
    BY <1>5
  <2>2. /\ request' \in [Requests -> ReqState]
        /\ \A q \in Requests :
             /\ request'[q].received = request[q].received
             /\ request'[q].status = "REFUNDED" => request[q].status = "REFUNDED"
    <3> HIDE DEF r
    <3> QED BY <1>1, <1>2, <2>1, StatusIs DEF ReqState
  <2> QED BY <1>2, <1>3, <1>5, <2>2
<1> QED BY <1>4, <1>5 DEF Settle

LEMMA SendIs ==
  ASSUME TypeOK, NEW a \in Actors, Fits(a, actor[a]), Send(a)
  PROVE  /\ At(a, "send")
         /\ \E new \in ActorState :
              /\ Goes(a, new) /\ answered' \subseteq Payments
              /\ \/ new.at = "idle" /\ UNCHANGED <<chain, purse>>
                 \/ /\ Carries(a, new) /\ new.key = actor[a].key /\ new.sent = Len(chain) + 1
                    /\ purse' \in [native : Nat, token : Nat, gas : Nat]
                    /\ \E e \in Entries :
                         /\ chain' = Append(chain, e) /\ e.dep = actor[a].dep /\ e.state = "pending"
                         /\ \/ e.type = "GAS_TOPUP" /\ new.at = "topup"
                            \/ e.type = TypeOf(actor[a].key) /\ new.at = "persist"
<1> DEFINE me == actor[a]  k == actor[a].key
           result == PerformSweep(SendsByKey, isNative, AmountOf(a), Fee,
                                  purse.native, purse.token, purse.gas)
           topup == result.status = "GAS_TOPUP_SENT"
           e == Entry(IF topup THEN "GAS_TOPUP" ELSE TypeOf(k), me.dep, result.sent + result.gas, "pending", "own")
           new == [me EXCEPT !.at = IF topup THEN "topup" ELSE "persist",
                             !.sent = Len(chain) + 1, !.told = result.reported]
<1>1. /\ me \in ActorState /\ isNative \in BOOLEAN /\ Len(chain) + 1 \in Nat
      /\ purse \in [native : Nat, token : Nat, gas : Nat] /\ Expected \in Nat /\ Fee \in Nat
  <2>1. chain \in Seq(Entries)
    BY DEF TypeOK
  <2> QED BY <2>1, WebhookAssumption DEF TypeOK
<1>2. TypeOf(k) \in {"CLIENT_REFUND", "TRANSFER_TO_BINANCE"} /\ me.dep \in Nat /\ At(a, "send")
  BY <1>1 DEF Fits, Send, At, SweepTypes, ActorState
<1>3. AmountOf(a) \in Nat
  BY <1>1, ClassificationConserves DEF AmountOf, ActorState
<1>4. /\ result.status \in SweepStatus
      /\ result.sent \in Nat /\ result.reported \in Nat /\ result.gas \in Nat
      /\ result.status = "GAS_TOPUP_SENT" => result.gas <= purse.gas
      /\ result.status = "SWEEP_SENT" /\ isNative => result.sent + Fee <= purse.native
      /\ result.status = "SWEEP_SENT" /\ ~isNative => result.sent <= purse.token /\ Fee <= purse.native
  <2> HIDE DEF result
  <2>1. purse.native \in Nat /\ purse.token \in Nat /\ purse.gas \in Nat
    BY <1>1
  <2> QED BY <1>1, <1>3, <2>1, SweepIsCovered, WebhookAssumption DEF result
<1> HIDE DEF result
<1>5. Spent(result) \in [native : Nat, token : Nat, gas : Nat] \/ result.status = "ERROR"
  <2>1. CASE result.status = "GAS_TOPUP_SENT"
    BY <1>1, <1>4, <2>1 DEF Spent
  <2>2. CASE result.status = "SWEEP_SENT" /\ isNative
    <3>1. Spent(result) = [purse EXCEPT !.native = @ - result.sent - Fee]
      BY <2>2 DEF Spent
    <3>2. purse.native - result.sent - Fee \in Nat
      BY <1>1, <1>4, <2>2
    <3> QED BY <1>1, <3>1, <3>2
  <2>3. CASE result.status = "SWEEP_SENT" /\ ~isNative
    <3>1. Spent(result) = [purse EXCEPT !.token = @ - result.sent, !.native = @ - Fee]
      BY <2>3 DEF Spent
    <3>2. purse.token - result.sent \in Nat /\ purse.native - Fee \in Nat
      BY <1>1, <1>4, <2>3
    <3> QED BY <1>1, <3>1, <3>2
  <2> QED BY <1>4, <2>1, <2>2, <2>3 DEF SweepStatus
<1>6. /\ e \in Entries /\ e.dep = me.dep /\ e.state = "pending"
      /\ e.type = IF topup THEN "GAS_TOPUP" ELSE TypeOf(k)
  <2>1. result.sent + result.gas \in Nat
    BY <1>4
  <2> QED BY <1>2, <2>1 DEF Entry, Entries
<1>7. /\ new \in ActorState /\ new.key = k /\ new.sent = Len(chain) + 1 /\ Carries(a, new)
      /\ new.at = IF topup THEN "topup" ELSE "persist"
  BY <1>1, <1>4 DEF ActorState, Steps, Carries
<1>8. CASE Ends(a, FALSE) /\ UNCHANGED <<chain, purse>>
  BY <1>2, <1>8, EndsIs, IdleIsTyped
<1>9. CASE /\ result.status # "ERROR" /\ chain' = Append(chain, e) /\ purse' = Spent(result)
           /\ Goes(a, new) /\ UNCHANGED answered
  <2>1. answered' \subseteq Payments
    BY <1>9 DEF TypeOK
  <2> HIDE DEF new, e
  <2> QED BY <1>2, <1>5, <1>6, <1>7, <1>9, <2>1
<1> QED BY <1>8, <1>9 DEF Send, result

LEMMA PersistIs ==
  ASSUME TypeOK, NEW a \in Actors, Fits(a, actor[a]), Persist(a)
  PROVE  LET me == actor[a]  k == actor[a].key
         IN /\ At(a, "persist")
            /\ \E new \in ActorState :
                 /\ Goes(a, new) /\ answered' \subseteq Payments
                 /\ new.at \in {"idle", "transfer"} /\ (new.at = "transfer" => Carries(a, new))
            /\ k \in DOMAIN rows /\ DOMAIN rows' = DOMAIN rows /\ rows' \in [DOMAIN rows -> RowState]
            /\ \A x \in DOMAIN rows : x # k => rows'[x] = rows[x]
            /\ rows'[k].req = rows[k].req /\ rows'[k].hash = me.sent /\ rows'[k].status = "BROADCASTED"
            /\ TypeOf(k) = "CLIENT_REFUND" => rows'[k].amount = rows[k].amount
            /\ request' \in [Requests -> ReqState]
            /\ \A r \in Requests :
                 /\ request'[r].received = request[r].received
                 /\ request'[r].status = "REFUNDED" => request[r].status = "REFUNDED"
<1> DEFINE me == actor[a]  k == actor[a].key
           next == IF TypeOf(k) = "CLIENT_REFUND" THEN "REFUND_PENDING" ELSE "PROCESSING"
           row == [rows[k] EXCEPT !.hash = me.sent, !.status = "BROADCASTED",
                     !.amount = IF TypeOf(k) = "CLIENT_REFUND" THEN @ ELSE me.told]
           status == Advance(me.status, next)
<1>1. /\ me \in ActorState /\ At(a, "persist") /\ k \in DOMAIN rows /\ k \in Keys
      /\ me.req \in Requests /\ ~IsFinal(me.status)
      /\ rows \in [DOMAIN rows -> RowState] /\ request \in [Requests -> ReqState]
  BY DEF TypeOK, ReqState, Fits, Persist, At
<1>2. /\ row \in RowState /\ row.req = rows[k].req /\ row.hash = me.sent /\ row.status = "BROADCASTED"
      /\ TypeOf(k) = "CLIENT_REFUND" => row.amount = rows[k].amount
  <2>1. rows[k] \in RowState /\ me.sent \in Nat /\ me.told \in Nat
    BY <1>1 DEF ActorState
  <2> QED BY <2>1 DEF RowState
<1>3. WriteRow(k, row) /\ request' = [request EXCEPT ![me.req].status = status]
  BY DEF Persist
<1>4. status \in {me.status, next} /\ me.status \in Status \cup {"ABSENT"}
  BY <1>1, AdvanceChooses DEF ActorState
<1>5. /\ request' \in [Requests -> ReqState]
      /\ \A r \in Requests :
           /\ request'[r].received = request[r].received
           /\ request'[r].status = "REFUNDED" => request[r].status = "REFUNDED"
  <2>1. status \in Status \cup {"ABSENT"} /\ status # "REFUNDED"
    BY <1>1, <1>4, StatusIs DEF IsFinal, FinalStatuses
  <2> HIDE DEF status
  <2> QED BY <1>1, <1>3, <2>1 DEF ReqState
<1>6. \E new \in ActorState :
        /\ Goes(a, new) /\ answered' \subseteq Payments
        /\ new.at \in {"idle", "transfer"} /\ (new.at = "transfer" => Carries(a, new))
  <2>1. CASE AfterRefund(a)
    BY <2>1, AfterRefundIs DEF Carries
  <2>2. CASE Ends(a, TRUE)
    BY <2>2, EndsIs, IdleIsTyped
  <2> QED BY <2>1, <2>2 DEF Persist
<1>7. /\ DOMAIN rows' = DOMAIN rows /\ rows' \in [DOMAIN rows -> RowState]
      /\ \A x \in DOMAIN rows : x # k => rows'[x] = rows[x]
      /\ rows'[k] = row
  <2> HIDE DEF row
  <2>1. /\ DOMAIN rows' = DOMAIN rows \cup {k} /\ rows'[k] = row
        /\ \A x \in DOMAIN rows : x # k => rows'[x] = rows[x]
    BY <1>3, RowIsWritten
  <2>2. DOMAIN rows' = DOMAIN rows
    BY <1>1, <2>1
  <2> QED BY <1>1, <1>2, <1>3, <2>1, <2>2, RowIsTyped
<1> HIDE DEF row
<1> QED BY <1>1, <1>2, <1>5, <1>6, <1>7

LEMMA TopUpIs ==
  ASSUME TypeOK, NEW a \in Actors, Fits(a, actor[a]), TopUp(a)
  PROVE  LET me == actor[a]  k == TopUpKey(actor[a].key)
         IN /\ Goes(a, Idle) /\ answered' \subseteq Payments
            /\ TypeOf(k) = "GAS_TOPUP" /\ me.req \in Requests
            /\ DOMAIN rows' \subseteq Keys /\ rows' \in [DOMAIN rows' -> RowState]
            /\ DOMAIN rows \subseteq DOMAIN rows' /\ DOMAIN rows' \subseteq DOMAIN rows \cup {k}
            /\ \A x \in DOMAIN rows : (x = k /\ rows[x].hash = 0) \/ rows'[x] = rows[x]
            /\ rows' = rows \/ (rows'[k].hash # 0 /\ rows'[k].status = "BROADCASTED")
<1> DEFINE me == actor[a]  k == TopUpKey(actor[a].key)
           row == Row(me.req, "BROADCASTED", chain[me.sent].amount, me.sent, FALSE)
<1>1. me.req \in Requests /\ me.sent \in DOMAIN chain /\ TypeOf(me.key) \in SweepTypes /\ me.key \in DOMAIN rows
  BY DEF Fits, TopUp, At
<1>2. k \in Keys /\ TypeOf(k) = "GAS_TOPUP"
  <2>1. me.key \in Keys
    BY <1>1 DEF TypeOK
  <2> QED BY <1>1, <2>1 DEF Keys, TopUpKey, TypeOf, SweepTypes
<1>3. row \in RowState /\ row.hash # 0 /\ row.status = "BROADCASTED"
  <2>1. chain[me.sent].amount \in Nat /\ me.sent \in Nat \ {0}
    BY <1>1, ChainIsTyped
  <2> QED BY <1>1, <2>1 DEF Row, RowState
<1>4. Goes(a, Idle) /\ answered' \subseteq Payments
  BY EndsIs DEF TopUp
<1>5. CASE UNCHANGED rows
  BY <1>1, <1>2, <1>4, <1>5 DEF TypeOK
<1>6. CASE ~HasHash(k) /\ WriteRow(k, row)
  <2> HIDE DEF row
  <2>1. DOMAIN rows' = DOMAIN rows \cup {k} /\ rows'[k] = row /\ \A x \in DOMAIN rows : x # k => rows'[x] = rows[x]
    BY <1>6, RowIsWritten
  <2>2. DOMAIN rows' \subseteq Keys /\ rows' \in [DOMAIN rows' -> RowState]
    BY <1>2, <1>3, <1>6, RowIsTyped
  <2>3. k \in DOMAIN rows => rows[k].hash = 0
    BY <1>6 DEF HasHash, Known
  <2> QED BY <1>1, <1>2, <1>3, <1>4, <2>1, <2>2, <2>3
<1> QED BY <1>5, <1>6 DEF TopUp

LEMMA WatcherConfirmsIs ==
  ASSUME TypeOK, NEW x \in batch, x[1] \in DOMAIN rows, WatcherConfirms(x)
  PROVE  /\ chain[x[2]].state = "confirmed" /\ batch' = batch \ {x}
         /\ Remarks(x[1], "CONFIRMED") /\ Confirms(x[1])
         /\ FollowsUp(Watcher, x[1], "CONFIRMED")
<1> DEFINE k == x[1]  row == [rows[k] EXCEPT !.status = "CONFIRMED"]
<1>1. rows[k] \in RowState
  BY DEF TypeOK
<1>2. /\ row \in RowState /\ row.req = rows[k].req /\ row.amount = rows[k].amount
      /\ row.hash = rows[k].hash /\ row.status = "CONFIRMED"
  BY <1>1 DEF RowState
<1>3. WriteRow(k, row) /\ request' = AfterConfirmation(k, row) /\ FollowsUp(Watcher, k, "CONFIRMED")
      /\ batch' = batch \ {x} /\ chain[x[2]].state = "confirmed"
  BY DEF WatcherConfirms
<1> HIDE DEF row
<1>4. Remarks(k, "CONFIRMED")
  BY <1>2, <1>3, RemarkIs
<1>5. Confirms(k)
  <2>1. /\ request' \in [Requests -> ReqState]
        /\ \A r \in Requests : request'[r].received = request[r].received
        /\ \A r \in Requests : request'[r].status = "REFUNDED" =>
             \/ request[r].status = "REFUNDED"
             \/ TypeOf(k) = "CLIENT_REFUND" /\ r = row.req /\ row.amount = request[r].received
    BY <1>2, <1>3, ConfirmationIs
  <2>2. rows'[k].status = "CONFIRMED"
    BY <1>4 DEF Remarks
  <2> QED BY <1>2, <2>1, <2>2 DEF Confirms
<1> QED BY <1>3, <1>4, <1>5

LEMMA WatcherFailsIs ==
  ASSUME TypeOK, NEW x \in batch, x[1] \in DOMAIN rows, WatcherFails(x)
  PROVE  Remarks(x[1], "FAILED") /\ batch' = batch \ {x}
<1> DEFINE k == x[1]  row == [rows[k] EXCEPT !.status = "FAILED"]
<1>1. rows[k] \in RowState
  BY DEF TypeOK
<1>2. /\ row \in RowState /\ row.req = rows[k].req /\ row.amount = rows[k].amount
      /\ row.hash = rows[k].hash /\ row.status = "FAILED"
  BY <1>1 DEF RowState
<1>3. WriteRow(k, row) /\ batch' = batch \ {x}
  BY DEF WatcherFails
<1> HIDE DEF row
<1> QED BY <1>2, <1>3, RemarkIs

LEMMA HandlersKeepTypes ==
  ASSUME TypeOK, \A a \in Actors : Fits(a, actor[a]), NEW d \in Deliveries,
         (\E h \in DOMAIN chain : Deliver(d, h)) \/ HandlerStep(d)
  PROVE  TypeOK'
<1>1. d \in Actors /\ actor[d] \in ActorState
  BY DEF Actors, TypeOK
<1>2. ASSUME NEW h \in DOMAIN chain, Deliver(d, h)
      PROVE  TypeOK'
  <2>1. actor' \in [Actors -> ActorState]
    <3>1. PICK new \in ActorState : Goes(d, new)
      BY <1>2, DeliverIs
    <3> QED BY <1>1, <3>1, GoesIs
  <2> QED BY <1>2, <2>1 DEF Deliver, TypeOK, Payments
<1>3. CASE IgnoreDirection(d)
  <2>1. actor' \in [Actors -> ActorState] /\ answered' \subseteq Payments
    BY <1>1, <1>3, EndsIs DEF IgnoreDirection
  <2> QED BY <1>3, <2>1 DEF IgnoreDirection, TypeOK, Payments
<1>4. CASE FindRequest(d)
  <2>1. PICK new \in ActorState : Goes(d, new) /\ answered' \subseteq Payments
    BY <1>4, FindRequestIs
  <2>2. actor' \in [Actors -> ActorState]
    BY <1>1, <2>1, GoesIs
  <2> QED BY <1>4, <2>1, <2>2 DEF FindRequest, TypeOK, Payments
<1>5. CASE Stage(d)
  <2>1. PICK new \in ActorState :
          /\ Goes(d, new) /\ answered' \subseteq Payments
          /\ \/ UNCHANGED raced
             \/ Races(\E b \in Deliveries : At(b, "commit") /\ actor[b].req = actor[d].req,
                      Key("CLIENT_DEPOSIT", actor[d].event))
    BY <1>5, StageIs
  <2>2. actor' \in [Actors -> ActorState]
    BY <1>1, <2>1, GoesIs
  <2>3. Key("CLIENT_DEPOSIT", actor[d].event) \in Keys
    BY <1>1, KeysAreTyped DEF ActorState
  <2>4. raced' \subseteq Keys
    BY <2>1, <2>3 DEF Races, TypeOK
  <2> QED BY <1>5, <2>1, <2>2, <2>4 DEF Stage, TypeOK, Payments
<1>6. CASE Commit(d)
  <2> DEFINE me == actor[d]  amount == chain[actor[d].event].amount
             k == Key("CLIENT_DEPOSIT", me.event)
             row == Row(me.req, "DETECTED", amount, me.event, TRUE)
  <2>1. PICK new \in ActorState :
          /\ Goes(d, new)
          /\ \/ UNCHANGED <<request, rows>>
             \/ WriteRow(k, row) /\ request' \in [Requests -> ReqState]
    BY <1>1, <1>6, CommitIs
  <2>2. actor' \in [Actors -> ActorState]
    BY <1>1, <2>1, GoesIs
  <2>3. DOMAIN rows' \subseteq Keys /\ rows' \in [DOMAIN rows' -> RowState] /\ request' \in [Requests -> ReqState]
    <3>1. CASE UNCHANGED <<request, rows>>
      BY <3>1 DEF TypeOK, ReqState
    <3>2. CASE WriteRow(k, row) /\ request' \in [Requests -> ReqState]
      <4>1. me.req \in Requests /\ me.event \in DOMAIN chain /\ me.event \in Nat
        BY <1>1, <1>6 DEF Commit, At, Fits, ActorState
      <4>2. k \in Keys
        BY <4>1, KeysAreTyped
      <4>3. row \in RowState
        BY <4>1, ChainIsTyped, RecordIsTyped
      <4> HIDE DEF k, row
      <4> QED BY <3>2, <4>2, <4>3, RowIsTyped
    <3> QED BY <2>1, <3>1, <3>2
  <2> QED BY <1>6, <2>2, <2>3 DEF Commit, TypeOK, Payments, ReqState
<1>7. CASE Merge(d)
  <2>1. PICK status : Remarks(actor[d].key, status) /\ Confirms(actor[d].key) /\ FollowsUp(d, actor[d].key, status)
    BY <1>1, <1>7, MergeIs
  <2>2. actor[d].key \in DOMAIN rows
    BY <1>1, <1>7, MergeIs
  <2>3. PICK new \in ActorState : Goes(d, new) /\ answered' \subseteq Payments
    BY <1>1, <2>1, <2>2, FollowsUpIs
  <2>4. actor' \in [Actors -> ActorState]
    BY <1>1, <2>3, GoesIs
  <2> QED BY <1>7, <2>1, <2>3, <2>4 DEF Merge, Remarks, Confirms, TypeOK, Payments, ReqState
<1> QED BY <1>2, <1>3, <1>4, <1>5, <1>6, <1>7 DEF HandlerStep

LEMMA SideEffectsKeepTypes ==
  ASSUME TypeOK, \A a \in Actors : Fits(a, actor[a]), NEW a \in Actors, SideEffectStep(a) \/ Throw(a)
  PROVE  TypeOK'
<1>1. actor[a] \in ActorState
  BY DEF TypeOK
<1>2. CASE Settle(a)
  <2>1. /\ Goes(a, Idle) /\ answered' \subseteq Payments /\ actor[a].req \in Requests
        /\ request' \in [Requests -> ReqState] /\ payout' \subseteq payout \cup {actor[a].req}
    BY <1>2, SettleIs
  <2>2. actor' \in [Actors -> ActorState]
    BY <2>1, GoesIs, IdleIsTyped
  <2> QED BY <1>2, <2>1, <2>2 DEF Settle, TypeOK, Payments, ReqState
<1>3. CASE Resume(a)
  <2>1. PICK new \in ActorState : Goes(a, new) /\ answered' \subseteq Payments
    BY <1>3, ResumeIs
  <2>2. actor' \in [Actors -> ActorState]
    BY <2>1, GoesIs
  <2> QED BY <1>3, <2>1, <2>2 DEF Resume, TypeOK, Payments
<1>4. CASE Refund(a) \/ Transfer(a)
  <2>1. PICK new \in ActorState :
           /\ Goes(a, new) /\ answered' \subseteq Payments
           /\ \/ UNCHANGED <<rows, raced>>
              \/ \E type \in SweepTypes : Intends(a, new, Key(type, actor[a].dep))
    BY <1>4, IntentIs
  <2>2. actor' \in [Actors -> ActorState]
    BY <2>1, GoesIs
  <2>3. DOMAIN rows' \subseteq Keys /\ rows' \in [DOMAIN rows' -> RowState] /\ raced' \subseteq Keys
    <3>1. CASE UNCHANGED <<rows, raced>>
      BY <3>1 DEF TypeOK
    <3>2. CASE \E type \in SweepTypes : Intends(a, new, Key(type, actor[a].dep))
      <4>1. PICK type \in SweepTypes : Intends(a, new, Key(type, actor[a].dep))
        BY <3>2
      <4> DEFINE k == Key(type, actor[a].dep)
      <4>2. k \in Keys /\ actor[a].req \in Requests
        BY <1>1, <1>4, KeysAreTyped DEF ActorState, SweepTypes, Fits, Refund, Transfer, At
      <4>3. PICK amount \in Nat : EnsureIntent(k, actor[a].req, amount)
        BY <4>1 DEF Intends
      <4> HIDE DEF k
      <4>4. DOMAIN rows' = DOMAIN rows \cup {k} /\ rows' \in [DOMAIN rows' -> RowState]
        BY <4>2, <4>3, EnsureIntentIs
      <4>5. raced' \subseteq raced \cup {k}
        BY <4>1 DEF Intends, Races, k
      <4> QED BY <4>2, <4>4, <4>5 DEF TypeOK
    <3> QED BY <2>1, <3>1, <3>2
  <2> QED BY <1>4, <2>1, <2>2, <2>3 DEF Refund, Transfer, TypeOK, Payments
<1>5. CASE Send(a)
  <2>1. PICK new \in ActorState :
          /\ Goes(a, new) /\ answered' \subseteq Payments
          /\ \/ UNCHANGED <<chain, purse>>
             \/ /\ purse' \in [native : Nat, token : Nat, gas : Nat]
                /\ \E e \in Entries : chain' = Append(chain, e)
    BY <1>5, SendIs
  <2>2. actor' \in [Actors -> ActorState]
    BY <2>1, GoesIs
  <2>3. chain \in Seq(Entries) /\ purse \in [native : Nat, token : Nat, gas : Nat]
    BY DEF TypeOK
  <2>4. /\ purse' \in [native : Nat, token : Nat, gas : Nat] /\ chain' \in Seq(Entries)
        /\ Payments \subseteq Payments'
    <3>1. CASE UNCHANGED <<chain, purse>>
      BY <2>3, <3>1 DEF Payments
    <3>2. ASSUME NEW e \in Entries, chain' = Append(chain, e)
          PROVE  chain' \in Seq(Entries) /\ Payments \subseteq Payments'
      <4>1. chain' \in Seq(Entries) /\ \A h \in DOMAIN chain : h \in DOMAIN chain' /\ chain'[h] = chain[h]
        BY <2>3, <3>2
      <4> QED BY <4>1 DEF Payments
    <3> QED BY <2>1, <3>1, <3>2
  <2> QED BY <1>5, <2>1, <2>2, <2>4 DEF Send, TypeOK
<1>6. CASE Persist(a)
  <2> DEFINE k == actor[a].key
  <2>1. /\ \E new \in ActorState : Goes(a, new) /\ answered' \subseteq Payments
        /\ DOMAIN rows' = DOMAIN rows /\ rows' \in [DOMAIN rows -> RowState]
        /\ request' \in [Requests -> ReqState]
    BY <1>6, PersistIs
  <2>2. actor' \in [Actors -> ActorState] /\ answered' \subseteq Payments
    BY <2>1, GoesIs
  <2> QED BY <1>6, <2>1, <2>2 DEF Persist, TypeOK, Payments, ReqState
<1>7. CASE TopUp(a)
  <2>1. /\ Goes(a, Idle) /\ answered' \subseteq Payments
        /\ DOMAIN rows' \subseteq Keys /\ rows' \in [DOMAIN rows' -> RowState]
    BY <1>7, TopUpIs
  <2>2. actor' \in [Actors -> ActorState]
    BY <2>1, GoesIs, IdleIsTyped
  <2> QED BY <1>7, <2>1, <2>2 DEF TopUp, TypeOK, Payments
<1>8. CASE Throw(a)
  <2>1. actor' \in [Actors -> ActorState] /\ answered' \subseteq Payments
    BY <1>8, EndsIs DEF Throw
  <2>2. lost' \subseteq Keys
    BY <1>1, <1>8 DEF Throw, TypeOK, ActorState
  <2> QED BY <1>8, <2>1, <2>2 DEF Throw, TypeOK, Payments
<1> QED BY <1>2, <1>3, <1>4, <1>5, <1>6, <1>7, <1>8 DEF SideEffectStep

LEMMA WatcherKeepsTypes ==
  ASSUME TypeOK, BatchInv, WatcherStep
  PROVE  TypeOK'
<1>1. Watcher \in Actors
  BY DEF Actors
<1>2. CASE WatcherFetches
  <2>1. batch' \subseteq Keys \X Nat
    BY <1>2 DEF WatcherFetches, TypeOK, RowState
  <2> QED BY <1>2, <2>1 DEF WatcherFetches, TypeOK, Payments
<1>3. ASSUME NEW x \in batch, WatcherSkips(x)
      PROVE  TypeOK'
  BY <1>3 DEF WatcherSkips, TypeOK, Payments
<1>4. ASSUME NEW x \in batch, WatcherConfirms(x)
      PROVE  TypeOK'
  <2>1. x[1] \in DOMAIN rows
    BY DEF BatchInv
  <2>2. Remarks(x[1], "CONFIRMED") /\ Confirms(x[1]) /\ FollowsUp(Watcher, x[1], "CONFIRMED") /\ batch' = batch \ {x}
    BY <1>4, <2>1, WatcherConfirmsIs
  <2>3. PICK new \in ActorState : Goes(Watcher, new) /\ answered' \subseteq Payments
    BY <1>1, <2>1, <2>2, FollowsUpIs
  <2>4. actor' \in [Actors -> ActorState]
    BY <1>1, <2>3, GoesIs
  <2> QED BY <1>4, <2>2, <2>3, <2>4 DEF WatcherConfirms, Remarks, Confirms, TypeOK, Payments, ReqState
<1>5. ASSUME NEW x \in batch, WatcherFails(x)
      PROVE  TypeOK'
  <2>1. x[1] \in DOMAIN rows
    BY DEF BatchInv
  <2>2. Remarks(x[1], "FAILED") /\ batch' = batch \ {x}
    BY <1>5, <2>1, WatcherFailsIs
  <2> QED BY <1>5, <2>2 DEF WatcherFails, Remarks, TypeOK, Payments
<1> QED BY <1>2, <1>3, <1>4, <1>5 DEF WatcherStep
-------------------------------------------------------------------------------
(* What no step takes back: a transaction stays what it is, and once it is
   confirmed it stays so; a row stays, with its request, the hash of a
   deposit and the amount of a refund; nobody forgets a loss or a race. *)
ChainGrows ==
  \A h \in DOMAIN chain :
    /\ h \in DOMAIN chain'
    /\ chain'[h].type = chain[h].type /\ chain'[h].dep = chain[h].dep /\ chain'[h].amount = chain[h].amount
    /\ chain[h].state = "confirmed" => chain'[h].state = "confirmed"

RowsGrow ==
  \A k \in DOMAIN rows :
    /\ k \in DOMAIN rows'
    /\ rows'[k].req = rows[k].req
    /\ TypeOf(k) = "CLIENT_DEPOSIT" => rows'[k].hash = rows[k].hash
    /\ rows[k].hash # 0 => rows'[k].hash # 0
    /\ TypeOf(k) = "CLIENT_REFUND" => rows'[k].amount = rows[k].amount

Grows == ChainGrows /\ RowsGrow /\ lost \subseteq lost' /\ raced \subseteq raced'

LEMMA AppendIs ==
  ASSUME TypeOK, NEW e \in Entries, chain' = Append(chain, e)
  PROVE  /\ DOMAIN chain' = DOMAIN chain \cup {Len(chain) + 1} /\ Len(chain) + 1 \notin DOMAIN chain
         /\ chain'[Len(chain) + 1] = e
         /\ \A h \in DOMAIN chain : chain'[h] = chain[h]
<1>1. chain \in Seq(Entries)
  BY DEF TypeOK
<1> QED BY <1>1

LEMMA PaymentIs ==
  ASSUME NEW amount \in Amounts, NEW sort \in Sorts
  PROVE  LET e == Entry("PAYMENT", 0, amount, "confirmed", sort)
         IN e \in Entries /\ e.type = "PAYMENT"
  BY WebhookAssumption DEF Entry, Entries

LEMMA InclusionIs ==
  ASSUME TypeOK, NEW h \in DOMAIN chain, ChainConfirms(h) \/ ChainReverts(h)
  PROVE  /\ DOMAIN chain' = DOMAIN chain
         /\ \A i \in DOMAIN chain :
              /\ chain'[i].type = chain[i].type /\ chain'[i].dep = chain[i].dep
              /\ chain'[i].amount = chain[i].amount
              /\ chain[i].state = "confirmed" => chain'[i].state = "confirmed"
<1>1. PICK state : chain' = [chain EXCEPT ![h].state = state] /\ chain[h].state = "pending"
  BY DEF ChainConfirms, ChainReverts
<1>2. chain \in Seq(Entries)
  BY DEF TypeOK
<1> DEFINE e == [chain[h] EXCEPT !.state = state]
<1>3. e.type = chain[h].type /\ e.dep = chain[h].dep /\ e.amount = chain[h].amount
  <2>1. chain[h] \in Entries
    BY <1>2
  <2> QED BY <2>1 DEF Entries
<1>4. chain' = [chain EXCEPT ![h] = e]
  BY <1>1
<1> HIDE DEF e
<1> QED BY <1>1, <1>2, <1>3, <1>4

LEMMA StepGrows ==
  ASSUME WebhookInv, Next
  PROVE  Grows
<1> USE DEF WebhookInv
<1>0. chain = chain' => ChainGrows
  BY DEF ChainGrows
<1>00. rows = rows' => RowsGrow
  BY DEF RowsGrow
<1>1. ASSUME NEW amount \in Amounts, NEW sort \in Sorts, ClientPays(amount, sort)
      PROVE  Grows
  <2> DEFINE e == Entry("PAYMENT", 0, amount, "confirmed", sort)
  <2>1. e \in Entries
    BY PaymentIs
  <2>2. chain' = Append(chain, e)
    BY <1>1 DEF ClientPays
  <2> HIDE DEF e
  <2>3. ChainGrows
    BY <2>1, <2>2, AppendIs DEF ChainGrows
  <2> QED BY <1>00, <1>1, <2>3 DEF ClientPays, Grows
<1>2. ASSUME NEW r \in Requests, RequestOpens(r) \/ RequestTimesOut(r)
      PROVE  Grows
  BY <1>0, <1>00, <1>2 DEF RequestOpens, RequestTimesOut, Grows
<1>3. ASSUME NEW h \in DOMAIN chain, ChainConfirms(h) \/ ChainReverts(h)
      PROVE  Grows
  <2>1. ChainGrows
    BY <1>3, InclusionIs DEF ChainGrows
  <2> QED BY <1>00, <1>3, <2>1 DEF ChainConfirms, ChainReverts, Grows
<1>4. ASSUME NEW d \in Deliveries, NEW h \in DOMAIN chain, Deliver(d, h)
      PROVE  Grows
  BY <1>0, <1>00, <1>4 DEF Deliver, Grows
<1>5. ASSUME NEW d \in Deliveries, IgnoreDirection(d) \/ FindRequest(d) \/ Stage(d)
      PROVE  Grows
  BY <1>0, <1>00, <1>5 DEF IgnoreDirection, FindRequest, Stage, Races, Grows
<1>6. ASSUME NEW d \in Deliveries, Commit(d)
      PROVE  Grows
  <2> DEFINE me == actor[d]  k == Key("CLIENT_DEPOSIT", me.event)
  <2>1. d \in Actors
    BY DEF Actors
  <2>2. CASE UNCHANGED rows
    BY <1>0, <1>00, <1>6, <2>2 DEF Commit, Grows
  <2>3. ASSUME NEW row, WithHash(me.event) = {}, WriteRow(k, row)
        PROVE  Grows
    <3>1. k \notin DOMAIN rows
      <4>1. me.event \in Nat
        BY <2>1 DEF TypeOK, ActorState
      <4>2. SUFFICES ASSUME k \in DOMAIN rows PROVE FALSE
        OBVIOUS
      <4>3. k = Key("CLIENT_DEPOSIT", rows[k].hash) /\ rows[k].hash \in Nat
        BY <4>1, <4>2, KeysAreTyped DEF RowInv, TypeOK, RowState
      <4>4. rows[k].hash = me.event
        BY <4>1, <4>3, KeysAreTyped
      <4> QED BY <2>3, <4>2, <4>4 DEF WithHash
    <3>2. RowsGrow
      <4> HIDE DEF k
      <4> QED BY <2>3, <3>1, RowIsWritten DEF RowsGrow
    <3> QED BY <1>0, <1>6, <3>2 DEF Commit, Grows
  <2> QED BY <1>6, <2>2, <2>3 DEF Commit
<1>7. ASSUME NEW d \in Deliveries, Merge(d)
      PROVE  Grows
  <2>1. d \in Actors
    BY DEF Actors
  <2>2. \E status : Remarks(actor[d].key, status)
    BY <1>7, <2>1, MergeIs
  <2>3. RowsGrow
    BY <2>2 DEF Remarks, RowsGrow
  <2> QED BY <1>0, <1>7, <2>3 DEF Merge, Grows
<1>8. ASSUME NEW a \in Actors, Settle(a) \/ Resume(a) \/ Throw(a)
      PROVE  Grows
  BY <1>0, <1>00, <1>8 DEF Settle, Resume, Throw, Grows
<1>9. ASSUME NEW a \in Actors, Refund(a) \/ Transfer(a)
      PROVE  Grows
  <2>1. \/ UNCHANGED <<rows, raced>>
        \/ \E new \in ActorState, type \in SweepTypes : Intends(a, new, Key(type, actor[a].dep))
    BY <1>9, IntentIs
  <2>2. CASE UNCHANGED <<rows, raced>>
    BY <1>0, <1>00, <1>9, <2>2 DEF Refund, Transfer, Grows
  <2>3. ASSUME NEW new \in ActorState, NEW type \in SweepTypes, Intends(a, new, Key(type, actor[a].dep))
        PROVE  Grows
    <3> DEFINE k == Key(type, actor[a].dep)
    <3>1. k \in Keys /\ actor[a].req \in Requests
      <4>1. actor[a] \in ActorState
        BY DEF TypeOK
      <4> QED BY <1>9, <4>1, KeysAreTyped DEF ActorState, SweepTypes, Fits, Refund, Transfer, At
    <3>2. PICK amount \in Nat : EnsureIntent(k, actor[a].req, amount)
      BY <2>3 DEF Intends
    <3>3. raced \subseteq raced'
      BY <2>3 DEF Intends, Races
    <3> HIDE DEF k
    <3>4. RowsGrow
      BY <3>1, <3>2, EnsureIntentIs DEF RowsGrow
    <3> QED BY <1>0, <1>9, <3>3, <3>4 DEF Refund, Transfer, Grows
  <2> QED BY <2>1, <2>2, <2>3
<1>10. ASSUME NEW a \in Actors, Send(a)
       PROVE  Grows
  <2>1. UNCHANGED chain \/ \E e \in Entries : chain' = Append(chain, e)
    BY <1>10, SendIs
  <2>2. ChainGrows
    BY <1>0, <2>1, AppendIs DEF ChainGrows
  <2> QED BY <1>00, <1>10, <2>2 DEF Send, Grows
<1>11. ASSUME NEW a \in Actors, Persist(a)
       PROVE  Grows
  <2> DEFINE k == actor[a].key
  <2>1. /\ k \in DOMAIN rows /\ DOMAIN rows' = DOMAIN rows
        /\ \A x \in DOMAIN rows : x # k => rows'[x] = rows[x]
        /\ rows'[k].req = rows[k].req /\ rows'[k].hash = actor[a].sent
        /\ TypeOf(k) = "CLIENT_REFUND" => rows'[k].amount = rows[k].amount
    BY <1>11, PersistIs
  <2>2. TypeOf(k) \in SweepTypes /\ actor[a].sent \in DOMAIN chain
    BY <1>11 DEF Persist, At, Fits, SendsOf
  <2>3. actor[a].sent # 0
    BY <2>2, ChainIsTyped
  <2>4. RowsGrow
    <3> HIDE DEF k
    <3> QED BY <2>1, <2>2, <2>3 DEF RowsGrow, SweepTypes
  <2> QED BY <1>0, <1>11, <2>4 DEF Persist, Grows
<1>12. ASSUME NEW a \in Actors, TopUp(a)
       PROVE  Grows
  <2> DEFINE k == TopUpKey(actor[a].key)
  <2>1. /\ TypeOf(k) = "GAS_TOPUP" /\ DOMAIN rows \subseteq DOMAIN rows'
        /\ \A x \in DOMAIN rows : (x = k /\ rows[x].hash = 0) \/ rows'[x] = rows[x]
    BY <1>12, TopUpIs
  <2>2. \A x \in DOMAIN rows : rows'[x] = rows[x]
    <3> HIDE DEF k
    <3> QED BY <2>1 DEF RowInv
  <2>3. RowsGrow
    BY <2>1, <2>2 DEF RowsGrow
  <2> QED BY <1>0, <1>12, <2>3 DEF TopUp, Grows
<1>13. ASSUME WatcherFetches \/ \E x \in batch : WatcherSkips(x)
       PROVE  Grows
  BY <1>0, <1>00, <1>13 DEF WatcherFetches, WatcherSkips, Grows
<1>14. ASSUME NEW x \in batch, WatcherConfirms(x) \/ WatcherFails(x)
       PROVE  Grows
  <2>1. x[1] \in DOMAIN rows
    BY DEF BatchInv
  <2>2. \E status : Remarks(x[1], status)
    BY <1>14, <2>1, WatcherConfirmsIs, WatcherFailsIs
  <2>3. RowsGrow
    BY <2>2 DEF Remarks, RowsGrow
  <2> QED BY <1>0, <1>14, <2>3 DEF WatcherConfirms, WatcherFails, Grows
<1> QED
  BY <1>1, <1>2, <1>3, <1>4, <1>5, <1>6, <1>7, <1>8, <1>9, <1>10, <1>11, <1>12, <1>13, <1>14
     DEF Next, HandlerStep, SideEffectStep, WatcherStep

(* What was sent, confirmed or raced stays so. *)
LEMMA FactsGrow ==
  ASSUME Grows
  PROVE  /\ \A k : SendsOf(k) \subseteq SendsOf(k)'
         /\ \A k : PaidOut(k) => PaidOut(k)'
         /\ DepositRace => DepositRace'
<1>1. ASSUME NEW k
      PROVE  SendsOf(k) \subseteq SendsOf(k)' /\ (PaidOut(k) => PaidOut(k)')
  BY DEF Grows, ChainGrows, SendsOf, PaidOut
<1>2. DepositRace => DepositRace'
  BY DEF Grows, DepositRace
<1> QED BY <1>1, <1>2
-------------------------------------------------------------------------------
(* What an actor carries goes on to fit. *)
LEMMA FitsGrows ==
  ASSUME Grows, NEW a, NEW me, Fits(a, me)
  PROVE  Fits(a, me)'
<1>1. SendsOf(me.key) \subseteq SendsOf(me.key)' /\ (PaidOut(me.key) => PaidOut(me.key)')
      /\ (DepositRace => DepositRace')
  BY FactsGrow
<1> QED BY <1>1 DEF Fits, Grows, ChainGrows, RowsGrow

LEMMA IdleFits ==
  ASSUME NEW a
  PROVE  Fits(a, Idle)
  BY DEF Fits, Idle

LEMMA ActorsGo ==
  ASSUME TypeOK, Grows, \A b \in Actors : Fits(b, actor[b]), NEW a \in Actors, NEW new,
         Goes(a, new), Fits(a, new)'
  PROVE  (\A b \in Actors : Fits(b, actor[b]))'
<1> SUFFICES ASSUME NEW b \in Actors PROVE Fits(b, actor[b])'
  OBVIOUS
<1>1. CASE b = a
  BY <1>1, GoesIs
<1>2. CASE b # a
  <2>1. PICK me : me = actor[b]
    OBVIOUS
  <2>2. actor'[b] = me
    BY <1>2, <2>1, GoesIs
  <2>3. Fits(b, me)'
    BY <2>1, FitsGrows
  <2> QED BY <2>2, <2>3
<1> QED BY <1>1, <1>2

LEMMA ActorsStay ==
  ASSUME Grows, \A b \in Actors : Fits(b, actor[b]), UNCHANGED actor
  PROVE  (\A b \in Actors : Fits(b, actor[b]))'
<1> SUFFICES ASSUME NEW b \in Actors PROVE Fits(b, actor[b])'
  OBVIOUS
<1>1. PICK me : me = actor[b]
  OBVIOUS
<1>2. Fits(b, me)'
  BY <1>1, FitsGrows
<1> QED BY <1>1, <1>2

LEMMA MergeFits ==
  ASSUME TypeOK, \A k \in DOMAIN rows : RowInv(k),
         NEW d \in Deliveries, NEW new \in ActorState, NEW h \in DOMAIN chain, chain[h].state = "confirmed",
         new.at = "merge", new.event = h, new.key \in WithHash(h)
  PROVE  Fits(d, new)
<1>1. new.key \in DOMAIN rows /\ rows[new.key].hash = h /\ h # 0
  BY ChainIsTyped DEF WithHash
<1>2. TypeOf(new.key) \in SweepTypes => h \in SendsOf(new.key)
  BY <1>1 DEF RowInv
<1> QED BY <1>1, <1>2 DEF Fits

LEMMA FollowUpFits ==
  ASSUME TypeOK, NEW a \in Actors, NEW k \in DOMAIN rows, NEW status, FollowsUp(a, k, status),
         status = "CONFIRMED" /\ TypeOf(k) \in SweepTypes => PaidOut(k)
  PROVE  \E new : Goes(a, new) /\ Fits(a, new)
<1>1. PICK new \in ActorState :
        /\ Goes(a, new)
        /\ new.at \in {"idle", "settle", "resume"}
        /\ new.at # "idle" => new.key = k /\ new.req = rows[k].req
        /\ new.at = "settle" => TypeOf(k) = "TRANSFER_TO_BINANCE" /\ status = "CONFIRMED"
        /\ new.at = "resume" /\ new.dep # 0 => TypeOf(k) = "CLIENT_DEPOSIT" /\ new.dep = rows[k].hash
  BY FollowsUpIs
<1>2. Fits(a, new)
  BY <1>1 DEF Fits, IsTransfer, SweepTypes
<1> QED BY <1>1, <1>2

LEMMA CarriesFits ==
  ASSUME NEW a \in Actors, Fits(a, actor[a]), NEW new,
         actor[a].at \in {"refund", "transfer", "send", "persist", "topup"},
         new.at = "idle" \/ (new.at = "transfer" /\ Carries(a, new))
  PROVE  Fits(a, new)
  BY DEF Fits, Carries

(* What each delivery and the watcher carries fits its step after any step. *)
LEMMA ActorsFit ==
  ASSUME WebhookInv, Next, Grows
  PROVE  (\A b \in Actors : Fits(b, actor[b]))'
<1> USE DEF WebhookInv
<1>0. ASSUME NEW a \in Actors, NEW new, Goes(a, new), Fits(a, new)
      PROVE  (\A b \in Actors : Fits(b, actor[b]))'
  BY <1>0, FitsGrows, ActorsGo
<1>1. ASSUME NEW a \in Actors, NEW ok, Ends(a, ok)
      PROVE  (\A b \in Actors : Fits(b, actor[b]))'
  BY <1>0, <1>1, EndsIs, IdleFits
<1>2. ASSUME UNCHANGED actor
      PROVE  (\A b \in Actors : Fits(b, actor[b]))'
  BY <1>2, ActorsStay
<1>3. ASSUME NEW d \in Deliveries, NEW h \in DOMAIN chain, Deliver(d, h)
      PROVE  (\A b \in Actors : Fits(b, actor[b]))'
  <2>1. PICK new \in ActorState :
          /\ Goes(d, new) /\ new.event = h /\ chain[h].state = "confirmed"
          /\ \/ new.at = "lookup"
             \/ new.at = "merge" /\ new.key \in WithHash(h)
    BY <1>3, DeliverIs DEF WithHash
  <2>2. Fits(d, new)
    <3>1. CASE new.at = "lookup"
      BY <2>1, <3>1 DEF Fits
    <3>2. CASE new.at = "merge" /\ new.key \in WithHash(h)
      BY <2>1, <3>2, MergeFits
    <3> QED BY <2>1, <3>1, <3>2
  <2> QED BY <1>0, <2>1, <2>2 DEF Actors
<1>4. ASSUME NEW d \in Deliveries, FindRequest(d)
      PROVE  (\A b \in Actors : Fits(b, actor[b]))'
  <2>1. PICK new \in ActorState :
          /\ Goes(d, new) /\ new.at \in {"idle", "stage"}
          /\ new.at = "stage" => new.req \in Requests /\ new.event = actor[d].event
    BY <1>4, FindRequestIs
  <2>2. Fits(d, actor[d]) /\ actor[d].at = "lookup"
    BY <1>4 DEF Actors, FindRequest, At
  <2>3. Fits(d, new)
    BY <2>1, <2>2 DEF Fits
  <2> QED BY <1>0, <2>1, <2>3 DEF Actors
<1>5. ASSUME NEW d \in Deliveries, Stage(d)
      PROVE  (\A b \in Actors : Fits(b, actor[b]))'
  <2> DEFINE h == actor[d].event
  <2>1. PICK new \in ActorState :
          /\ Goes(d, new) /\ new.at \in {"idle", "merge", "commit"}
          /\ new.at # "idle" => new.event = h /\ new.req = actor[d].req
          /\ new.at = "merge" => new.key \in WithHash(h)
          /\ new.at = "commit" => new.status = request[actor[d].req].status /\ Eligible(actor[d].req, h)
    BY <1>5, StageIs
  <2>2. Fits(d, actor[d]) /\ actor[d].at = "stage"
    BY <1>5 DEF Actors, Stage, At
  <2>3. h \in DOMAIN chain /\ chain[h].state = "confirmed" /\ actor[d].req \in Requests
    BY <2>2 DEF Fits
  <2>4. Fits(d, new)
    <3>1. CASE new.at = "idle"
      BY <3>1 DEF Fits
    <3>2. CASE new.at = "merge"
      <4> HIDE DEF h
      <4> QED BY <2>1, <2>3, <3>2, MergeFits
    <3>3. CASE new.at = "commit"
      BY <2>1, <2>3, <3>3 DEF Fits, Eligible
    <3> QED BY <2>1, <3>1, <3>2, <3>3
  <2> QED BY <1>0, <2>1, <2>4 DEF Actors
<1>6. ASSUME NEW d \in Deliveries, Commit(d)
      PROVE  (\A b \in Actors : Fits(b, actor[b]))'
  <2> DEFINE h == actor[d].event
  <2>0. Fits(d, actor[d]) /\ actor[d].at = "commit"
    BY <1>6 DEF Actors, Commit, At
  <2>1. PICK new \in ActorState :
          /\ Goes(d, new)
          /\ \/ new.at = "merge" /\ new.event = h /\ new.key \in WithHash(h)
             \/ /\ new.at = "refund" /\ new.dep = h /\ new.req = actor[d].req
                /\ new.received = chain[h].amount /\ ~IsFinal(new.status)
    BY <1>6, <2>0, CommitIs
  <2>2. h \in DOMAIN chain /\ chain[h].state = "confirmed" /\ actor[d].req \in Requests
    BY <2>0 DEF Fits
  <2>3. Fits(d, new)
    <3>1. CASE new.at = "merge" /\ new.event = h /\ new.key \in WithHash(h)
      <4> HIDE DEF h
      <4> QED BY <2>1, <2>2, <3>1, MergeFits
    <3>2. CASE /\ new.at = "refund" /\ new.dep = h /\ new.req = actor[d].req
               /\ new.received = chain[h].amount /\ ~IsFinal(new.status)
      BY <2>2, <3>2 DEF Fits
    <3> QED BY <2>1, <3>1, <3>2
  <2> QED BY <1>0, <2>1, <2>3 DEF Actors
<1>7. ASSUME NEW d \in Deliveries, Merge(d)
      PROVE  (\A b \in Actors : Fits(b, actor[b]))'
  <2> DEFINE me == actor[d]  k == actor[d].key
  <2>0. d \in Actors /\ Fits(d, me) /\ me.at = "merge"
    BY <1>7 DEF Actors, Merge, At
  <2>1. k \in DOMAIN rows
    BY <1>7, <2>0, MergeIs
  <2>2. PICK status \in {rows[k].status} \cup (IF me.seen = "unconfirmed" THEN {"CONFIRMED"} ELSE {}) :
          FollowsUp(d, k, status)
    BY <1>7, <2>0, MergeIs
  <2>3. status = "CONFIRMED" /\ TypeOf(k) \in SweepTypes => PaidOut(k)
    <3>1. CASE status = rows[k].status
      BY <2>1, <3>1 DEF RowInv
    <3>2. CASE status # rows[k].status
      BY <2>0, <3>2 DEF Fits, PaidOut
    <3> QED BY <3>1, <3>2
  <2>4. \E new : Goes(d, new) /\ Fits(d, new)
    <3> HIDE DEF k
    <3> QED BY <2>0, <2>1, <2>2, <2>3, FollowUpFits
  <2> QED BY <1>0, <2>0, <2>4
<1>8. ASSUME NEW a \in Actors, Resume(a)
      PROVE  (\A b \in Actors : Fits(b, actor[b]))'
  <2> DEFINE me == actor[a]
  <2>0. Fits(a, me) /\ me.at = "resume"
    BY <1>8 DEF Resume, At
  <2>1. PICK new \in ActorState :
              /\ Goes(a, new)
              /\ new.at \in {"idle", "refund"}
              /\ new.at = "refund" =>
                   /\ new.req = me.req /\ me.req \in Requests /\ ~IsFinal(new.status)
                   /\ new.received = request[me.req].received
                   /\ \/ me.dep # 0 /\ new.dep = me.dep
                      \/ \E k \in DepositsOf(me.req) : new.dep = rows[k].hash
    BY <1>8, <2>0, ResumeIs
  <2>2. new.at = "refund" => \E k \in DepositsOf(me.req) : new.dep = rows[k].hash
    BY <2>0, <2>1 DEF Fits, DepositsOf
  <2>3. new.at = "refund" =>
          new.dep \in DOMAIN chain /\ (DepositRace \/ new.received = chain[new.dep].amount)
    BY <2>1, <2>2 DEF RowInv, DepositsOf
  <2>4. Fits(a, new)
    BY <2>1, <2>3 DEF Fits
  <2> QED BY <1>0, <2>1, <2>4
<1>9. ASSUME NEW a \in Actors, Refund(a) \/ Transfer(a)
      PROVE  (\A b \in Actors : Fits(b, actor[b]))'
  <2> DEFINE me == actor[a]
  <2>0. /\ Fits(a, me) /\ me.at \in {"refund", "transfer"} /\ me \in ActorState
        /\ me.req \in Requests /\ me.dep \in Nat
    <3>1. me.at \in {"refund", "transfer"}
      BY <1>9 DEF Refund, Transfer, At
    <3>2. me \in ActorState
      BY DEF TypeOK
    <3> QED BY <3>1, <3>2 DEF ActorState, Fits
  <2>1. PICK new \in ActorState :
           /\ Goes(a, new)
           /\ \/ new.at \in {"idle", "transfer"} /\ (new.at = "transfer" => Carries(a, new))
              \/ \E type \in SweepTypes :
                   /\ Intends(a, new, Key(type, me.dep))
                   /\ type = "TRANSFER_TO_BINANCE" => me.received >= Expected
    BY <1>9, <2>0, IntentIs
  <2>2. CASE new.at \in {"idle", "transfer"} /\ (new.at = "transfer" => Carries(a, new))
    BY <1>0, <2>0, <2>1, <2>2, CarriesFits
  <2>3. ASSUME NEW type \in SweepTypes, Intends(a, new, Key(type, me.dep)),
               type = "TRANSFER_TO_BINANCE" => me.received >= Expected
        PROVE  Fits(a, new)'
    <3> DEFINE k == Key(type, me.dep)
    <3>1. k \in Keys /\ TypeOf(k) = type
      BY <2>0, KeysAreTyped DEF SweepTypes
    <3>2. k \in DOMAIN rows'
      <4> HIDE DEF k
      <4> QED BY <2>0, <2>3, <3>1, EnsureIntentIs DEF Intends, k
    <3>3. new.at = "send" /\ new.key = k /\ Carries(a, new)
      BY <2>3 DEF Intends
    <3>4. /\ new.req \in Requests /\ ~IsFinal(new.status) /\ new.dep \in DOMAIN chain
          /\ DepositRace \/ new.received = chain[new.dep].amount
      BY <2>0, <3>3 DEF Fits, Carries
    <3>5. new.dep \in DOMAIN chain' /\ (DepositRace' \/ new.received = chain'[new.dep].amount)
      BY <3>4, FactsGrow DEF Grows, ChainGrows
    <3>6. new.key = Key(TypeOf(new.key), new.dep) /\ (IsTransfer(new.key) => new.received >= Expected)
      BY <2>3, <3>1, <3>3 DEF Carries, IsTransfer
    <3> HIDE DEF k
    <3> QED BY <3>1, <3>2, <3>3, <3>4, <3>5, <3>6 DEF Fits
  <2> QED BY <2>1, <2>2, <2>3, ActorsGo
<1>10. ASSUME NEW a \in Actors, Send(a)
       PROVE  (\A b \in Actors : Fits(b, actor[b]))'
  <2> DEFINE me == actor[a]
  <2>0. Fits(a, me) /\ me.at = "send" /\ me.dep \in Nat
    <3>1. me \in ActorState
      BY DEF TypeOK
    <3> QED BY <1>10, <3>1 DEF Send, At, ActorState
  <2>1. PICK new \in ActorState :
              /\ Goes(a, new)
              /\ \/ new.at = "idle"
                 \/ /\ Carries(a, new) /\ new.key = me.key /\ new.sent = Len(chain) + 1
                    /\ \E e \in Entries :
                         /\ chain' = Append(chain, e) /\ e.dep = me.dep
                         /\ \/ e.type = "GAS_TOPUP" /\ new.at = "topup"
                            \/ e.type = TypeOf(me.key) /\ new.at = "persist"
    BY <1>10, <2>0, SendIs
  <2>2. CASE new.at = "idle"
    BY <1>0, <2>0, <2>1, <2>2, CarriesFits
  <2>3. ASSUME NEW e \in Entries, Carries(a, new), new.key = me.key, new.sent = Len(chain) + 1,
               chain' = Append(chain, e), e.dep = me.dep,
               \/ e.type = "GAS_TOPUP" /\ new.at = "topup"
               \/ e.type = TypeOf(me.key) /\ new.at = "persist"
        PROVE  Fits(a, new)'
    <3>1. new.sent \in DOMAIN chain' /\ chain'[new.sent] = e
      BY <2>3, AppendIs
    <3>2. /\ new.req \in Requests /\ ~IsFinal(new.status) /\ new.dep \in DOMAIN chain
          /\ DepositRace \/ new.received = chain[new.dep].amount
          /\ TypeOf(new.key) \in SweepTypes /\ new.key = Key(TypeOf(new.key), new.dep)
          /\ new.key \in DOMAIN rows /\ (IsTransfer(new.key) => new.received >= Expected)
      BY <2>0, <2>3 DEF Fits, Carries
    <3>3. /\ new.dep \in DOMAIN chain' /\ (DepositRace' \/ new.received = chain'[new.dep].amount)
          /\ new.key \in DOMAIN rows'
      BY <3>2, FactsGrow DEF Grows, ChainGrows, RowsGrow
    <3>4. new.key[3] = new.dep /\ new.dep = me.dep
      BY <2>0, <2>3, <3>2, KeysAreTyped DEF Carries, SweepTypes
    <3>5. new.at = "persist" => new.sent \in SendsOf(new.key)'
      BY <2>3, <3>1, <3>4 DEF SendsOf
    <3> QED BY <2>3, <3>1, <3>2, <3>3, <3>5 DEF Fits
  <2> QED BY <2>1, <2>2, <2>3, ActorsGo
<1>11. ASSUME NEW a \in Actors, Persist(a)
       PROVE  (\A b \in Actors : Fits(b, actor[b]))'
  <2>1. PICK new \in ActorState :
          /\ Goes(a, new) /\ new.at \in {"idle", "transfer"} /\ (new.at = "transfer" => Carries(a, new))
    BY <1>11, PersistIs
  <2>2. actor[a].at = "persist"
    BY <1>11 DEF Persist, At
  <2> QED BY <1>0, <2>1, <2>2, CarriesFits
<1>12. ASSUME NEW x \in batch, WatcherConfirms(x)
       PROVE  (\A b \in Actors : Fits(b, actor[b]))'
  <2>1. x[1] \in DOMAIN rows /\ (TypeOf(x[1]) \in SweepTypes => x[2] \in SendsOf(x[1]))
    BY DEF BatchInv
  <2>2. chain[x[2]].state = "confirmed" /\ FollowsUp(Watcher, x[1], "CONFIRMED")
    BY <1>12, <2>1, WatcherConfirmsIs
  <2>3. TypeOf(x[1]) \in SweepTypes => PaidOut(x[1])
    BY <2>1, <2>2 DEF PaidOut
  <2>4. \E new : Goes(Watcher, new) /\ Fits(Watcher, new)
    BY <2>1, <2>2, <2>3, FollowUpFits DEF Actors
  <2> QED BY <1>0, <2>4 DEF Actors
<1>13. CASE \/ \E amount \in Amounts, sort \in Sorts : ClientPays(amount, sort)
            \/ \E r \in Requests : RequestOpens(r) \/ RequestTimesOut(r)
            \/ \E h \in DOMAIN chain : ChainConfirms(h) \/ ChainReverts(h)
            \/ WatcherFetches \/ \E x \in batch : WatcherSkips(x) \/ WatcherFails(x)
  <2>1. UNCHANGED actor
    BY <1>13 DEF ClientPays, RequestOpens, RequestTimesOut, ChainConfirms, ChainReverts,
                 WatcherFetches, WatcherSkips, WatcherFails
  <2> QED BY <1>2, <2>1
<1>14. CASE (\E d \in Deliveries : IgnoreDirection(d)) \/ (\E a \in Actors : Settle(a) \/ TopUp(a) \/ Throw(a))
  <2>1. PICK a \in Actors : \E ok : Ends(a, ok)
    BY <1>14 DEF IgnoreDirection, Settle, TopUp, Throw, Actors
  <2> QED BY <1>1, <2>1
<1> QED
  BY <1>3, <1>4, <1>5, <1>6, <1>7, <1>8, <1>9, <1>10, <1>11, <1>12, <1>13, <1>14
     DEF Next, HandlerStep, SideEffectStep, WatcherStep
-------------------------------------------------------------------------------
(* Rows, transactions and the batch. *)

LEMMA RowGrows ==
  ASSUME Grows, NEW k \in DOMAIN rows, RowInv(k), rows'[k].hash = rows[k].hash,
         \/ rows'[k].status = rows[k].status
         \/ rows'[k].status \notin {"BROADCASTED", "CONFIRMED"}
         \/ rows'[k].status = "CONFIRMED" /\ (TypeOf(k) \in SweepTypes => PaidOut(k)),
         TypeOf(k) = "CLIENT_DEPOSIT" =>
           DepositRace' \/ request'[rows[k].req].received = request[rows[k].req].received
  PROVE  RowInv(k)'
<1>1. /\ SendsOf(k) \subseteq SendsOf(k)' /\ (PaidOut(k) => PaidOut(k)')
      /\ DepositRace => DepositRace'
  BY FactsGrow
<1>2. rows'[k].req = rows[k].req
  BY DEF Grows, RowsGrow
<1>3. ASSUME TypeOf(k) \in SweepTypes
      PROVE  /\ k = Key(TypeOf(k), k[3])
             /\ rows'[k].hash # 0 => rows'[k].hash \in SendsOf(k)'
             /\ rows'[k].status = "BROADCASTED" => rows'[k].hash # 0
             /\ rows'[k].status = "CONFIRMED" => PaidOut(k)'
  BY <1>1, <1>3 DEF RowInv
<1>4. ASSUME TypeOf(k) = "CLIENT_DEPOSIT"
      PROVE  /\ rows'[k].hash \in DOMAIN chain' /\ k = Key("CLIENT_DEPOSIT", rows'[k].hash)
             /\ DepositRace' \/ request'[rows'[k].req].received = chain'[rows'[k].hash].amount
  BY <1>1, <1>2, <1>4 DEF RowInv, Grows, ChainGrows
<1>5. TypeOf(k) = "GAS_TOPUP" => rows'[k].hash # 0
  BY DEF RowInv
<1> QED BY <1>3, <1>4, <1>5 DEF RowInv

(* A deposit that is being recorded has no row, and the one of another
   payment for the same request means a race. *)
LEMMA DepositIsNew ==
  ASSUME TypeOK, \A k \in DOMAIN rows : RowInv(k), DepositsInv,
         NEW d \in Deliveries, At(d, "commit"), WithHash(actor[d].event) = {}
  PROVE  /\ About(d) \notin DOMAIN rows /\ About(d) \in Keys /\ TypeOf(About(d)) = "CLIENT_DEPOSIT"
         /\ DepositsOf(actor[d].req) # {} => DepositRace
<1>1. d \in Actors /\ actor[d].event \in Nat
  BY DEF Actors, TypeOK, ActorState
<1>2. About(d) \in Keys /\ TypeOf(About(d)) = "CLIENT_DEPOSIT" /\ About(d)[3] = actor[d].event
  BY <1>1, KeysAreTyped DEF About
<1>3. About(d) \notin DOMAIN rows
  <2> SUFFICES ASSUME About(d) \in DOMAIN rows PROVE FALSE
    OBVIOUS
  <2>1. About(d) = Key("CLIENT_DEPOSIT", rows[About(d)].hash) /\ rows[About(d)].hash \in Nat
    BY <1>2 DEF RowInv, TypeOK, RowState
  <2>2. rows[About(d)].hash = actor[d].event
    BY <1>2, <2>1, KeysAreTyped
  <2> QED BY <2>2 DEF WithHash
<1>4. ASSUME NEW l \in DepositsOf(actor[d].req)
      PROVE  DepositRace
  <2>1. l \in DOMAIN rows /\ TypeOf(l) = "CLIENT_DEPOSIT"
    BY DEF DepositsOf
  <2>2. About(d) \in raced \/ l = About(d) \/ l \in raced
    BY <1>1 DEF DepositsInv
  <2> QED BY <1>2, <1>3, <2>1, <2>2 DEF DepositRace
<1> QED BY <1>2, <1>3, <1>4

LEMMA RowsFit ==
  ASSUME WebhookInv, Next, Grows, TypeOK'
  PROVE  (\A k \in DOMAIN rows : RowInv(k))'
<1> USE DEF WebhookInv
<1>1. ASSUME UNCHANGED rows, \A r \in Requests : request'[r].received = request[r].received
      PROVE  (\A k \in DOMAIN rows : RowInv(k))'
  <2> SUFFICES ASSUME NEW k \in DOMAIN rows PROVE RowInv(k)'
    BY <1>1
  <2>1. rows[k].req \in Requests
    BY DEF TypeOK, RowState
  <2> QED BY <1>1, <2>1, RowGrows
<1>2. ASSUME NEW k \in DOMAIN rows, NEW status, Remarks(k, status),
             \/ status = rows[k].status \/ status = "FAILED"
             \/ status = "CONFIRMED" /\ (TypeOf(k) \in SweepTypes => PaidOut(k)),
             \A r \in Requests : request'[r].received = request[r].received
      PROVE  (\A l \in DOMAIN rows : RowInv(l))'
  <2> SUFFICES ASSUME NEW l \in DOMAIN rows PROVE RowInv(l)'
    BY <1>2 DEF Remarks
  <2>1. rows[l].req \in Requests
    BY DEF TypeOK, RowState
  <2>2. rows'[l].hash = rows[l].hash /\ rows'[l].status = IF l = k THEN status ELSE rows[l].status
    BY <1>2 DEF Remarks
  <2> QED BY <1>2, <2>1, <2>2, RowGrows
<1>3. ASSUME NEW d \in Deliveries, Commit(d)
      PROVE  (\A k \in DOMAIN rows : RowInv(k))'
  <2> DEFINE me == actor[d]  amount == chain[actor[d].event].amount
             row == Row(me.req, "DETECTED", amount, me.event, TRUE)
  <2>9. PICK k : k = About(d)
    OBVIOUS
  <2>0. Fits(d, actor[d]) /\ At(d, "commit") /\ me.event \in DOMAIN chain /\ me.req \in Requests
    BY <1>3 DEF Actors, Commit, At, Fits
  <2>1. \/ UNCHANGED <<request, rows>>
        \/ /\ WithHash(me.event) = {} /\ WriteRow(k, row)
           /\ \A q \in Requests : q # me.req => request'[q] = request[q]
           /\ request'[me.req].received = amount
    BY <1>3, <2>0, <2>9, CommitIs DEF About
  <2>2. CASE UNCHANGED <<request, rows>>
    BY <1>1, <2>2
  <2>3. CASE /\ WithHash(me.event) = {} /\ WriteRow(k, row)
             /\ \A q \in Requests : q # me.req => request'[q] = request[q]
             /\ request'[me.req].received = amount
    <3>1. k \notin DOMAIN rows /\ TypeOf(k) = "CLIENT_DEPOSIT" /\ (DepositsOf(me.req) # {} => DepositRace)
      BY <2>0, <2>3, <2>9, DepositIsNew
    <3>2. row.req = me.req /\ row.hash = me.event
      BY DEF Row
    <3>3. DOMAIN rows' = DOMAIN rows \cup {k} /\ rows'[k] = row /\ \A x \in DOMAIN rows : rows'[x] = rows[x]
      <4> HIDE DEF row
      <4> QED BY <2>3, <3>1, RowIsWritten
    <3>4. ASSUME NEW l \in DOMAIN rows
          PROVE  RowInv(l)'
      <4>1. rows[l].req \in Requests
        BY DEF TypeOK, RowState
      <4>2. TypeOf(l) = "CLIENT_DEPOSIT" /\ rows[l].req = me.req => DepositRace'
        BY <3>1, FactsGrow DEF DepositsOf
      <4>3. rows'[l] = rows[l]
        BY <3>3
      <4>4. TypeOf(l) = "CLIENT_DEPOSIT" =>
              DepositRace' \/ request'[rows[l].req].received = request[rows[l].req].received
        BY <2>3, <4>1, <4>2
      <4> QED BY <4>3, <4>4, RowGrows
    <3>5. RowInv(k)'
      <4>1. me.event \in DOMAIN chain' /\ chain'[me.event].amount = amount
        BY <2>0 DEF Grows, ChainGrows
      <4>2. k = Key("CLIENT_DEPOSIT", me.event)
        BY <2>9 DEF About
      <4>3. rows'[k].hash = me.event /\ rows'[k].req = me.req
        BY <3>2, <3>3
      <4> HIDE DEF row, amount
      <4> QED BY <2>3, <3>1, <4>1, <4>2, <4>3 DEF RowInv, SweepTypes
    <3> QED BY <3>3, <3>4, <3>5
  <2> QED BY <2>1, <2>2, <2>3
<1>4. ASSUME NEW d \in Deliveries, Merge(d)
      PROVE  (\A k \in DOMAIN rows : RowInv(k))'
  <2> DEFINE me == actor[d]  k == actor[d].key
  <2>0. d \in Actors /\ Fits(d, me) /\ me.at = "merge"
    BY <1>4 DEF Actors, Merge, At
  <2>1. k \in DOMAIN rows
    BY <1>4, <2>0, MergeIs
  <2>2. PICK status \in {rows[k].status} \cup (IF me.seen = "unconfirmed" THEN {"CONFIRMED"} ELSE {}) :
          Remarks(k, status) /\ Confirms(k)
    BY <1>4, <2>0, MergeIs
  <2>3. status = rows[k].status \/ (status = "CONFIRMED" /\ (TypeOf(k) \in SweepTypes => PaidOut(k)))
    BY <2>0, <2>2 DEF Fits, PaidOut
  <2> HIDE DEF k
  <2> QED BY <1>2, <2>1, <2>2, <2>3 DEF Confirms
<1>5. ASSUME NEW a \in Actors, Refund(a) \/ Transfer(a)
      PROVE  (\A k \in DOMAIN rows : RowInv(k))'
  <2> DEFINE me == actor[a]
  <2>0. /\ Fits(a, me) /\ me.req \in Requests /\ me.dep \in Nat /\ UNCHANGED request
    <3>1. me.at \in {"refund", "transfer"} /\ UNCHANGED request
      BY <1>5 DEF Refund, Transfer, At
    <3>2. me \in ActorState
      BY DEF TypeOK
    <3> QED BY <3>1, <3>2 DEF ActorState, Fits
  <2>1. \/ UNCHANGED rows
        \/ \E new \in ActorState, type \in SweepTypes : Intends(a, new, Key(type, me.dep))
    BY <1>5, <2>0, IntentIs
  <2>2. ASSUME NEW new, NEW type \in SweepTypes, Intends(a, new, Key(type, me.dep))
        PROVE  (\A k \in DOMAIN rows : RowInv(k))'
    <3>0. PICK k : k = Key(type, me.dep)
      OBVIOUS
    <3>1. k \in Keys /\ TypeOf(k) = type /\ k = Key(TypeOf(k), k[3])
      BY <2>0, <3>0, KeysAreTyped DEF SweepTypes
    <3>2. PICK amount \in Nat : EnsureIntent(k, me.req, amount)
      BY <2>2, <3>0 DEF Intends
    <3>3. /\ DOMAIN rows' = DOMAIN rows \cup {k} /\ \A x \in DOMAIN rows : rows'[x] = rows[x]
          /\ k \notin DOMAIN rows => rows'[k].hash = 0 /\ rows'[k].status = "CREATED"
      BY <2>0, <3>1, <3>2, EnsureIntentIs
    <3>4. ASSUME NEW l \in DOMAIN rows
          PROVE  RowInv(l)'
      BY <2>0, <3>3, RowGrows
    <3>5. k \notin DOMAIN rows => RowInv(k)'
      BY <3>1, <3>3 DEF RowInv, SweepTypes
    <3> QED BY <3>3, <3>4, <3>5
  <2> QED BY <1>1, <2>0, <2>1, <2>2
<1>6. ASSUME NEW a \in Actors, Persist(a)
      PROVE  (\A k \in DOMAIN rows : RowInv(k))'
  <2>0. PICK k, h : k = actor[a].key /\ h = actor[a].sent
    OBVIOUS
  <2>1. /\ k \in DOMAIN rows /\ DOMAIN rows' = DOMAIN rows
        /\ \A x \in DOMAIN rows : x # k => rows'[x] = rows[x]
        /\ rows'[k].hash = h /\ rows'[k].status = "BROADCASTED"
        /\ \A r \in Requests : request'[r].received = request[r].received
    BY <1>6, <2>0, PersistIs
  <2>2. TypeOf(k) \in SweepTypes /\ h \in SendsOf(k)
    BY <1>6, <2>0 DEF Persist, At, Fits
  <2>3. h # 0
    BY <2>2, ChainIsTyped DEF SendsOf
  <2>4. ASSUME NEW l \in DOMAIN rows, l # k
        PROVE  RowInv(l)'
    <3>1. rows[l].req \in Requests
      BY DEF TypeOK, RowState
    <3> QED BY <2>1, <2>4, <3>1, RowGrows
  <2>5. RowInv(k)'
    <3>1. k = Key(TypeOf(k), k[3]) /\ h \in SendsOf(k)'
      BY <2>1, <2>2, FactsGrow DEF RowInv
    <3> QED BY <2>1, <2>2, <2>3, <3>1 DEF RowInv, SweepTypes
  <2> QED BY <2>1, <2>4, <2>5
<1>7. ASSUME NEW a \in Actors, TopUp(a)
      PROVE  (\A k \in DOMAIN rows : RowInv(k))'
  <2>0. PICK k : k = TopUpKey(actor[a].key)
    OBVIOUS
  <2>1. /\ TypeOf(k) = "GAS_TOPUP" /\ DOMAIN rows' \subseteq DOMAIN rows \cup {k}
        /\ \A x \in DOMAIN rows : (x = k /\ rows[x].hash = 0) \/ rows'[x] = rows[x]
        /\ rows' = rows \/ rows'[k].hash # 0
        /\ UNCHANGED request
    BY <1>7, <2>0, TopUpIs DEF TopUp
  <2>2. ASSUME NEW l \in DOMAIN rows
        PROVE  RowInv(l)'
    <3>1. rows'[l] = rows[l]
      BY <2>1 DEF RowInv
    <3> QED BY <2>1, <3>1, RowGrows
  <2>3. k \in DOMAIN rows' /\ k \notin DOMAIN rows => RowInv(k)'
    <3>1. SUFFICES ASSUME k \in DOMAIN rows', k \notin DOMAIN rows PROVE RowInv(k)'
      OBVIOUS
    <3>2. rows'[k].hash # 0
      BY <2>1, <3>1
    <3> QED BY <2>1, <3>2 DEF RowInv, SweepTypes
  <2> QED BY <2>1, <2>2, <2>3
<1>8. ASSUME NEW x \in batch, WatcherConfirms(x)
      PROVE  (\A k \in DOMAIN rows : RowInv(k))'
  <2>1. x[1] \in DOMAIN rows /\ (TypeOf(x[1]) \in SweepTypes => x[2] \in SendsOf(x[1]))
    BY DEF BatchInv
  <2>2. chain[x[2]].state = "confirmed" /\ Remarks(x[1], "CONFIRMED") /\ Confirms(x[1])
    BY <1>8, <2>1, WatcherConfirmsIs
  <2>3. TypeOf(x[1]) \in SweepTypes => PaidOut(x[1])
    BY <2>1, <2>2 DEF PaidOut
  <2> QED BY <1>2, <2>1, <2>2, <2>3 DEF Confirms
<1>9. ASSUME NEW x \in batch, WatcherFails(x)
      PROVE  (\A k \in DOMAIN rows : RowInv(k))'
  <2>1. x[1] \in DOMAIN rows
    BY DEF BatchInv
  <2>2. Remarks(x[1], "FAILED") /\ UNCHANGED request
    BY <1>9, <2>1, WatcherFailsIs DEF WatcherFails
  <2> QED BY <1>2, <2>1, <2>2
<1>10. ASSUME NEW r \in Requests, RequestOpens(r) \/ RequestTimesOut(r)
       PROVE  (\A k \in DOMAIN rows : RowInv(k))'
  <2>1. \A q \in Requests : request'[q].received = request[q].received
    <3>1. PICK status : request' = [request EXCEPT ![r].status = status]
      BY <1>10 DEF RequestOpens, RequestTimesOut
    <3>2. request \in [Requests -> ReqState]
      BY DEF TypeOK, ReqState
    <3> QED BY <3>1, <3>2 DEF ReqState
  <2> QED BY <1>1, <1>10, <2>1 DEF RequestOpens, RequestTimesOut
<1>11. ASSUME NEW a \in Actors, Settle(a)
       PROVE  (\A k \in DOMAIN rows : RowInv(k))'
  BY <1>1, <1>11, SettleIs DEF Settle
<1>12. CASE \/ \E amount \in Amounts, sort \in Sorts : ClientPays(amount, sort)
            \/ \E h \in DOMAIN chain : ChainConfirms(h) \/ ChainReverts(h)
            \/ \E d \in Deliveries, h \in DOMAIN chain : Deliver(d, h)
            \/ \E d \in Deliveries : IgnoreDirection(d) \/ FindRequest(d) \/ Stage(d)
            \/ \E a \in Actors : Resume(a) \/ Send(a) \/ Throw(a)
            \/ WatcherFetches \/ \E x \in batch : WatcherSkips(x)
  <2>1. UNCHANGED <<rows, request>>
    BY <1>12 DEF ClientPays, ChainConfirms, ChainReverts, Deliver, IgnoreDirection, FindRequest, Stage,
                 Resume, Send, Throw, WatcherFetches, WatcherSkips
  <2> QED BY <1>1, <2>1
<1> QED
  BY <1>3, <1>4, <1>5, <1>6, <1>7, <1>8, <1>9, <1>10, <1>11, <1>12
     DEF Next, HandlerStep, SideEffectStep, WatcherStep

LEMMA EntryGrows ==
  ASSUME Grows, NEW h \in DOMAIN chain, ChainInv(h)
  PROVE  ChainInv(h)'
<1>1. DepositRace => DepositRace'
  BY FactsGrow
<1>2. chain'[h].type = chain[h].type /\ chain'[h].dep = chain[h].dep
  BY DEF Grows, ChainGrows
<1> QED BY <1>1, <1>2 DEF ChainInv, Grows, ChainGrows, RowsGrow, SweepTypes

LEMMA ChainFits ==
  ASSUME WebhookInv, Next, Grows
  PROVE  (\A h \in DOMAIN chain : ChainInv(h))'
<1> USE DEF WebhookInv
<1>0. ASSUME DOMAIN chain' = DOMAIN chain
      PROVE  (\A h \in DOMAIN chain : ChainInv(h))'
  BY <1>0, EntryGrows
<1>1. ASSUME NEW e \in Entries, chain' = Append(chain, e),
             e.type \in SweepTypes =>
               /\ Key(e.type, e.dep) \in DOMAIN rows /\ e.dep \in DOMAIN chain
               /\ e.type = "TRANSFER_TO_BINANCE" => DepositRace \/ chain[e.dep].amount >= Expected
      PROVE  (\A h \in DOMAIN chain : ChainInv(h))'
  <2>1. PICK n : n = Len(chain) + 1
    OBVIOUS
  <2>2. DOMAIN chain' = DOMAIN chain \cup {n} /\ chain'[n] = e
    BY <1>1, <2>1, AppendIs
  <2>3. ASSUME e.type \in SweepTypes
        PROVE  /\ Key(e.type, e.dep) \in DOMAIN rows' /\ e.dep \in DOMAIN chain'
               /\ e.type = "TRANSFER_TO_BINANCE" => DepositRace' \/ chain'[e.dep].amount >= Expected
    BY <1>1, <2>3, FactsGrow DEF Grows, ChainGrows, RowsGrow
  <2>4. ChainInv(n)'
    BY <2>2, <2>3 DEF ChainInv, SweepTypes
  <2> QED BY <2>2, <2>4, EntryGrows
<1>2. ASSUME NEW amount \in Amounts, NEW sort \in Sorts, ClientPays(amount, sort)
      PROVE  (\A h \in DOMAIN chain : ChainInv(h))'
  <2> DEFINE e == Entry("PAYMENT", 0, amount, "confirmed", sort)
  <2>1. e \in Entries /\ e.type \notin SweepTypes
    BY PaymentIs DEF SweepTypes
  <2>2. chain' = Append(chain, e)
    BY <1>2 DEF ClientPays
  <2> HIDE DEF e
  <2> QED BY <1>1, <2>1, <2>2
<1>3. ASSUME NEW a \in Actors, Send(a)
      PROVE  (\A h \in DOMAIN chain : ChainInv(h))'
  <2> DEFINE me == actor[a]
  <2>0. /\ TypeOf(me.key) \in SweepTypes /\ me.key = Key(TypeOf(me.key), me.dep) /\ me.key \in DOMAIN rows
        /\ IsTransfer(me.key) => me.received >= Expected
        /\ me.dep \in DOMAIN chain /\ (DepositRace \/ me.received = chain[me.dep].amount)
    BY <1>3 DEF Send, At, Fits
  <2>1. \/ UNCHANGED chain
        \/ \E e \in Entries : /\ chain' = Append(chain, e) /\ e.dep = me.dep
                              /\ e.type = "GAS_TOPUP" \/ e.type = TypeOf(me.key)
    BY <1>3, SendIs
  <2>2. ASSUME NEW e \in Entries, chain' = Append(chain, e), e.dep = me.dep,
               e.type = "GAS_TOPUP" \/ e.type = TypeOf(me.key)
        PROVE  (\A h \in DOMAIN chain : ChainInv(h))'
    <3>1. e.type \in SweepTypes =>
               /\ Key(e.type, e.dep) \in DOMAIN rows /\ e.dep \in DOMAIN chain
               /\ e.type = "TRANSFER_TO_BINANCE" => DepositRace \/ chain[e.dep].amount >= Expected
      BY <2>0, <2>2 DEF SweepTypes, IsTransfer
    <3> QED BY <1>1, <2>2, <3>1
  <2> QED BY <1>0, <2>1, <2>2
<1>4. ASSUME NEW h \in DOMAIN chain, ChainConfirms(h) \/ ChainReverts(h)
      PROVE  (\A i \in DOMAIN chain : ChainInv(i))'
  BY <1>0, <1>4, InclusionIs
<1>5. CASE \/ \E r \in Requests : RequestOpens(r) \/ RequestTimesOut(r)
           \/ \E d \in Deliveries, h \in DOMAIN chain : Deliver(d, h)
           \/ \E d \in Deliveries : HandlerStep(d)
           \/ \E a \in Actors : Settle(a) \/ Resume(a) \/ Refund(a) \/ Transfer(a) \/ Persist(a) \/ TopUp(a) \/ Throw(a)
           \/ WatcherStep
  <2>1. UNCHANGED chain
    BY <1>5 DEF RequestOpens, RequestTimesOut, Deliver, HandlerStep, IgnoreDirection, FindRequest, Stage,
                Commit, Merge, Settle, Resume, Refund, Transfer, Persist, TopUp, Throw,
                WatcherStep, WatcherFetches, WatcherSkips, WatcherConfirms, WatcherFails
  <2> QED BY <1>0, <2>1
<1> QED BY <1>2, <1>3, <1>4, <1>5 DEF Next, SideEffectStep

LEMMA BatchFits ==
  ASSUME WebhookInv, Next, Grows
  PROVE  BatchInv'
<1> USE DEF WebhookInv
<1>1. ASSUME batch' \subseteq batch
      PROVE  BatchInv'
  <2> SUFFICES ASSUME NEW x \in batch'
               PROVE  x[1] \in DOMAIN rows' /\ (TypeOf(x[1]) \in SweepTypes => x[2] \in SendsOf(x[1])')
    BY DEF BatchInv
  <2>1. x[1] \in DOMAIN rows /\ (TypeOf(x[1]) \in SweepTypes => x[2] \in SendsOf(x[1]))
    BY <1>1 DEF BatchInv
  <2> QED BY <2>1, FactsGrow DEF Grows, RowsGrow
<1>2. CASE WatcherFetches
  <2> SUFFICES ASSUME NEW x \in batch'
               PROVE  x[1] \in DOMAIN rows' /\ (TypeOf(x[1]) \in SweepTypes => x[2] \in SendsOf(x[1])')
    BY DEF BatchInv
  <2>1. x[1] \in DOMAIN rows /\ x[2] = rows[x[1]].hash /\ rows[x[1]].status = "BROADCASTED"
    BY <1>2 DEF WatcherFetches
  <2>2. TypeOf(x[1]) \in SweepTypes => x[2] \in SendsOf(x[1])
    BY <2>1 DEF RowInv
  <2> QED BY <2>1, <2>2, FactsGrow DEF Grows, RowsGrow
<1>3. CASE WatcherStep /\ ~WatcherFetches
  BY <1>1, <1>3 DEF WatcherStep, WatcherSkips, WatcherConfirms, WatcherFails
<1>4. CASE Next /\ ~WatcherStep
  <2>1. UNCHANGED batch
    BY <1>4 DEF Next, ClientPays, RequestOpens, RequestTimesOut, ChainConfirms, ChainReverts, Deliver,
                HandlerStep, IgnoreDirection, FindRequest, Stage, Commit, Merge,
                SideEffectStep, Settle, Resume, Refund, Transfer, Send, Persist, TopUp, Throw
  <2> QED BY <1>1, <2>1
<1> QED BY <1>2, <1>3, <1>4
-------------------------------------------------------------------------------
(* Two deposits of one request. *)

LEMMA DepositsStay ==
  ASSUME DepositsInv, Grows,
         \A k \in DOMAIN rows' : TypeOf(k) = "CLIENT_DEPOSIT" => k \in DOMAIN rows,
         \A a \in Actors : actor'[a].at = "commit" => actor'[a] = actor[a]
  PROVE  DepositsInv'
<1>1. \A r : DepositsOf(r)' \subseteq DepositsOf(r)
  BY DEF DepositsOf, Grows, RowsGrow
<1>2. raced \subseteq raced'
  BY DEF Grows
<1>3. \A r \in Requests : \A k, l \in DepositsOf(r)' : k = l \/ k \in raced' \/ l \in raced'
  BY <1>1, <1>2 DEF DepositsInv
<1>4. ASSUME NEW a \in Actors, At(a, "commit")'
      PROVE  /\ At(a, "commit") /\ About(a)' = About(a) /\ actor'[a].req = actor[a].req
             /\ About(a)' \in raced' \/ \A l \in DepositsOf(actor[a].req)' : l = About(a)' \/ l \in raced'
  <2>1. At(a, "commit") /\ About(a)' = About(a) /\ actor'[a].req = actor[a].req
    BY <1>4 DEF At, About
  <2> QED BY <1>1, <1>2, <2>1 DEF DepositsInv
<1>5. ASSUME NEW a \in Actors, NEW b \in Actors, At(a, "commit")', At(b, "commit")', actor'[a].req = actor'[b].req
      PROVE  a = b \/ About(a)' \in raced' \/ About(b)' \in raced'
  BY <1>2, <1>4, <1>5 DEF DepositsInv
<1> QED BY <1>3, <1>4, <1>5 DEF DepositsInv

LEMMA DepositsFit ==
  ASSUME WebhookInv, Next, Grows
  PROVE  DepositsInv'
<1> USE DEF WebhookInv
<1>1. ASSUME \A k \in DOMAIN rows' : TypeOf(k) = "CLIENT_DEPOSIT" => k \in DOMAIN rows,
             NEW a \in Actors, NEW new, Goes(a, new), new.at # "commit"
      PROVE  DepositsInv'
  <2>1. \A b \in Actors : actor'[b].at = "commit" => actor'[b] = actor[b]
    BY <1>1, GoesIs
  <2> QED BY <1>1, <2>1, DepositsStay
<1>2. ASSUME UNCHANGED actor, \A k \in DOMAIN rows' : TypeOf(k) = "CLIENT_DEPOSIT" => k \in DOMAIN rows
      PROVE  DepositsInv'
  BY <1>2, DepositsStay
<1>3. ASSUME NEW d \in Deliveries, Stage(d)
      PROVE  DepositsInv'
  <2> DEFINE race == \E b \in Deliveries : At(b, "commit") /\ actor[b].req = actor[d].req
  <2>0. PICK h, r, k : h = actor[d].event /\ r = actor[d].req /\ k = Key("CLIENT_DEPOSIT", h)
    OBVIOUS
  <2>1. PICK new \in ActorState :
           /\ Goes(d, new) /\ new.at \in {"idle", "merge", "commit"}
           /\ new.at # "idle" => new.event = h /\ new.req = r
           /\ new.at = "commit" =>
                /\ WithHash(h) = {} /\ Eligible(r, h)
                /\ Races(race, k)
    BY <1>3, <2>0, StageIs
  <2>2. d \in Actors /\ UNCHANGED rows
    BY <1>3 DEF Stage, Actors
  <2>3. CASE new.at # "commit"
    BY <1>1, <2>1, <2>2, <2>3
  <2>4. CASE new.at = "commit"
    <3>0. TypeOf(k) = "CLIENT_DEPOSIT"
      BY <2>0 DEF Key, TypeOf
    <3>1. DepositsOf(r) = {}
      BY <2>1, <2>4 DEF Eligible, DepositsOf, WithHash
    <3>2. (race => k \in raced') /\ raced \subseteq raced'
      BY <2>1, <2>4 DEF Races
    <3>3. ~race => \A b \in Actors : At(b, "commit") => actor[b].req # r
      BY <2>0 DEF At, Fits
    <3> HIDE DEF race
    <3>4. actor'[d] = new /\ \A b \in Actors : b # d => actor'[b] = actor[b]
      BY <2>1, <2>2, GoesIs
    <3>5. About(d)' = k /\ actor'[d].req = r
      BY <2>0, <2>1, <2>4, <3>4 DEF About
    <3>6. \A b \in Actors : b # d =>
            About(b)' = About(b) /\ At(b, "commit")' = At(b, "commit") /\ actor'[b].req = actor[b].req
      BY <3>4 DEF About, At
    <3>7. \A q : DepositsOf(q)' = DepositsOf(q)
      BY <2>2 DEF DepositsOf
    <3>8. \A q \in Requests : \A i, l \in DepositsOf(q)' : i = l \/ i \in raced' \/ l \in raced'
      BY <3>2, <3>7 DEF DepositsInv
    <3>9. ASSUME NEW a \in Actors, At(a, "commit")'
          PROVE  About(a)' \in raced' \/ \A l \in DepositsOf(actor[a].req)' : l = About(a)' \/ l \in raced'
      <4>1. CASE a = d
        BY <3>1, <3>5, <3>7, <4>1
      <4>2. CASE a # d
        BY <3>2, <3>6, <3>7, <3>9, <4>2 DEF DepositsInv
      <4> QED BY <4>1, <4>2
    <3>10. ASSUME NEW a \in Actors, NEW b \in Actors,
                  At(a, "commit")', At(b, "commit")', actor'[a].req = actor'[b].req
           PROVE  a = b \/ About(a)' \in raced' \/ About(b)' \in raced'
      <4>1. CASE a = d \/ b = d
        BY <3>2, <3>3, <3>5, <3>6, <3>10, <4>1
      <4>2. CASE a # d /\ b # d
        BY <3>2, <3>6, <3>10, <4>2 DEF DepositsInv
      <4> QED BY <4>1, <4>2
    <3> QED BY <3>8, <3>9, <3>10 DEF DepositsInv
  <2> QED BY <2>3, <2>4
<1>4. ASSUME NEW d \in Deliveries, Commit(d)
      PROVE  DepositsInv'
  <2>0. PICK h, r, k, row : /\ h = actor[d].event /\ r = actor[d].req /\ k = About(d)
                            /\ row = Row(r, "DETECTED", chain[h].amount, h, TRUE)
    OBVIOUS
  <2>1. d \in Actors /\ Fits(d, actor[d]) /\ At(d, "commit") /\ r \in Requests
    BY <1>4, <2>0 DEF Actors, Commit, At, Fits
  <2>2. PICK new \in ActorState :
          /\ Goes(d, new) /\ new.at # "commit"
          /\ UNCHANGED rows \/ (WithHash(h) = {} /\ WriteRow(k, row))
    BY <1>4, <2>0, <2>1, CommitIs DEF About
  <2>3. CASE UNCHANGED rows
    BY <1>1, <2>1, <2>2, <2>3
  <2>4. CASE WithHash(h) = {} /\ WriteRow(k, row)
    <3>1. k \notin DOMAIN rows /\ TypeOf(k) = "CLIENT_DEPOSIT"
      BY <2>0, <2>1, <2>4, DepositIsNew
    <3>2. DOMAIN rows' = DOMAIN rows \cup {k} /\ rows'[k].req = r /\ \A x \in DOMAIN rows : rows'[x] = rows[x]
      <4>1. row.req = r
        BY <2>0 DEF Row
      <4>2. /\ DOMAIN rows' = DOMAIN rows \cup {k} /\ rows'[k] = row
            /\ \A x \in DOMAIN rows : x # k => rows'[x] = rows[x]
        BY <2>4, RowIsWritten
      <4> QED BY <3>1, <4>1, <4>2
    <3>3. \A q : DepositsOf(q)' = DepositsOf(q) \cup (IF q = r THEN {k} ELSE {})
      BY <3>1, <3>2 DEF DepositsOf
    <3>4. raced' = raced
      BY <1>4 DEF Commit
    <3>5. ~At(d, "commit")' /\ \A b \in Actors : b # d => actor'[b] = actor[b]
      BY <2>1, <2>2, GoesIs DEF At
    <3>6. k \in raced \/ \A l \in DepositsOf(r) : l = k \/ l \in raced
      BY <2>0, <2>1 DEF DepositsInv
    <3>7. \A q \in Requests : \A i, l \in DepositsOf(q)' : i = l \/ i \in raced' \/ l \in raced'
      BY <3>3, <3>4, <3>6 DEF DepositsInv
    <3>8. ASSUME NEW b \in Actors, At(b, "commit")'
          PROVE  b # d /\ About(b)' = About(b) /\ At(b, "commit") /\ actor'[b].req = actor[b].req
      BY <3>5, <3>8 DEF About, At
    <3>9. ASSUME NEW b \in Actors, At(b, "commit")'
          PROVE  About(b)' \in raced' \/ \A l \in DepositsOf(actor[b].req)' : l = About(b)' \/ l \in raced'
      <4>1. PICK q : q = actor[b].req
        OBVIOUS
      <4>2. actor'[b].req = q /\ b # d /\ At(b, "commit") /\ About(b)' = About(b)
        BY <3>8, <3>9, <4>1
      <4>3. About(b) \in raced \/ \A l \in DepositsOf(q) : l = About(b) \/ l \in raced
        BY <4>1, <4>2 DEF DepositsInv
      <4>4. q = r => k \in raced \/ About(b) \in raced
        BY <2>0, <2>1, <4>1, <4>2 DEF DepositsInv
      <4>5. About(b)' \in raced' \/ \A l \in DepositsOf(q)' : l = About(b)' \/ l \in raced'
        BY <3>3, <3>4, <4>2, <4>3, <4>4
      <4> QED BY <4>2, <4>5
    <3>10. ASSUME NEW a \in Actors, NEW b \in Actors,
                  At(a, "commit")', At(b, "commit")', actor'[a].req = actor'[b].req
           PROVE  a = b \/ About(a)' \in raced' \/ About(b)' \in raced'
      BY <3>4, <3>8, <3>10 DEF DepositsInv
    <3> QED BY <3>7, <3>9, <3>10 DEF DepositsInv
  <2> QED BY <2>2, <2>3, <2>4
<1>5. ASSUME NEW a \in Actors, Refund(a) \/ Transfer(a)
      PROVE  DepositsInv'
  <2>1. PICK new \in ActorState :
          /\ Goes(a, new) /\ new.at # "commit"
          /\ \/ UNCHANGED rows
             \/ \E type \in SweepTypes : Intends(a, new, Key(type, actor[a].dep))
    BY <1>5, IntentIs DEF Intends
  <2>2. ASSUME NEW type \in SweepTypes, Intends(a, new, Key(type, actor[a].dep))
        PROVE  \A k \in DOMAIN rows' : TypeOf(k) = "CLIENT_DEPOSIT" => k \in DOMAIN rows
    <3>1. PICK k : k = Key(type, actor[a].dep)
      OBVIOUS
    <3>2. TypeOf(k) # "CLIENT_DEPOSIT"
      BY <3>1 DEF Key, TypeOf, SweepTypes
    <3>3. rows' = rows \/ DOMAIN rows' = DOMAIN rows \cup {k}
      BY <2>2, <3>1, RowIsWritten DEF Intends, EnsureIntent
    <3> QED BY <3>2, <3>3
  <2> QED BY <1>1, <2>1, <2>2
<1>6. ASSUME NEW a \in Actors, TopUp(a)
      PROVE  DepositsInv'
  <2>1. PICK k : k = TopUpKey(actor[a].key)
    OBVIOUS
  <2>2. Goes(a, Idle) /\ TypeOf(k) = "GAS_TOPUP" /\ DOMAIN rows' \subseteq DOMAIN rows \cup {k}
    BY <1>6, <2>1, TopUpIs
  <2> QED BY <1>1, <2>2, IdleIsTyped
<1>7. ASSUME NEW a \in Actors, Persist(a)
      PROVE  DepositsInv'
  <2>1. DOMAIN rows' = DOMAIN rows /\ \E new : Goes(a, new) /\ new.at # "commit"
    BY <1>7, PersistIs
  <2> QED BY <1>1, <2>1
<1>8. ASSUME NEW d \in Deliveries, Merge(d)
      PROVE  DepositsInv'
  <2>1. d \in Actors /\ actor[d].key \in DOMAIN rows
        /\ \E status : Remarks(actor[d].key, status) /\ FollowsUp(d, actor[d].key, status)
    BY <1>8, MergeIs DEF Actors
  <2>2. \E new : Goes(d, new) /\ new.at # "commit"
    BY <2>1, FollowsUpIs
  <2> QED BY <1>1, <2>1, <2>2 DEF Remarks
<1>9. ASSUME NEW x \in batch, WatcherConfirms(x)
      PROVE  DepositsInv'
  <2>1. x[1] \in DOMAIN rows
    BY DEF BatchInv
  <2>2. Watcher \in Actors /\ Remarks(x[1], "CONFIRMED") /\ FollowsUp(Watcher, x[1], "CONFIRMED")
    BY <1>9, <2>1, WatcherConfirmsIs DEF Actors
  <2>3. \E new : Goes(Watcher, new) /\ new.at # "commit"
    BY <2>1, <2>2, FollowsUpIs
  <2> QED BY <1>1, <2>2, <2>3 DEF Remarks
<1>10. ASSUME NEW x \in batch, WatcherFails(x)
       PROVE  DepositsInv'
  <2>1. x[1] \in DOMAIN rows
    BY DEF BatchInv
  <2>2. Remarks(x[1], "FAILED") /\ UNCHANGED actor
    BY <1>10, <2>1, WatcherFailsIs DEF WatcherFails
  <2> QED BY <1>2, <2>2 DEF Remarks
<1>11. ASSUME NEW d \in Deliveries, (\E h \in DOMAIN chain : Deliver(d, h)) \/ FindRequest(d)
       PROVE  DepositsInv'
  <2>1. d \in Actors /\ UNCHANGED rows /\ \E new : Goes(d, new) /\ new.at # "commit"
    BY <1>11, DeliverIs, FindRequestIs DEF Actors, Deliver, FindRequest
  <2> QED BY <1>1, <2>1
<1>12. ASSUME NEW a \in Actors, Resume(a) \/ Send(a)
       PROVE  DepositsInv'
  <2>1. UNCHANGED rows /\ \E new : Goes(a, new) /\ new.at # "commit"
    <3>1. CASE Resume(a)
      BY <3>1, ResumeIs DEF Resume
    <3>2. CASE Send(a)
      BY <3>2, SendIs DEF Send
    <3> QED BY <1>12, <3>1, <3>2
  <2> QED BY <1>1, <2>1
<1>13. CASE (\E d \in Deliveries : IgnoreDirection(d)) \/ (\E a \in Actors : Settle(a) \/ Throw(a))
  <2>1. PICK a \in Actors : UNCHANGED rows /\ \E ok : Ends(a, ok)
    BY <1>13 DEF IgnoreDirection, Settle, Throw, Actors
  <2> QED BY <1>1, <2>1, EndsIs, IdleIsTyped
<1>14. CASE \/ \E amount \in Amounts, sort \in Sorts : ClientPays(amount, sort)
            \/ \E r \in Requests : RequestOpens(r) \/ RequestTimesOut(r)
            \/ \E h \in DOMAIN chain : ChainConfirms(h) \/ ChainReverts(h)
            \/ WatcherFetches \/ \E x \in batch : WatcherSkips(x)
  <2>1. UNCHANGED <<rows, actor>>
    BY <1>14 DEF ClientPays, RequestOpens, RequestTimesOut, ChainConfirms, ChainReverts,
                 WatcherFetches, WatcherSkips
  <2> QED BY <1>2, <2>1
<1> QED
  BY <1>3, <1>4, <1>5, <1>6, <1>7, <1>8, <1>9, <1>10, <1>11, <1>12, <1>13, <1>14
     DEF Next, HandlerStep, SideEffectStep, WatcherStep
-------------------------------------------------------------------------------
(* The sweeps of a row. *)

Sending == {"send", "persist"}

LEMMA SweepStays ==
  ASSUME TypeOK, Grows, NEW k \in DOMAIN rows, SweepOf(k), SendsOf(k)' = SendsOf(k), UNCHANGED actor
  PROVE  SweepOf(k)'
  BY DEF SweepOf, On, At, Grows, RowsGrow

(* An actor that does not go to send for the row, or that is done with it. *)
LEMMA SweepIsLeft ==
  ASSUME TypeOK, Grows, NEW k \in DOMAIN rows, SweepOf(k), SendsOf(k)' = SendsOf(k),
         NEW a \in Actors, NEW new, Goes(a, new), new.at \notin Sending \/ new.key # k,
         On(a, k) /\ At(a, "persist") => rows'[k].hash # 0
  PROVE  SweepOf(k)'
<1>1. \A b \in Actors : On(b, k)' => b # a /\ On(b, k) /\ At(b, "send")' = At(b, "send")
  BY GoesIs DEF On, At, Sending
<1>2. \A b \in Actors : b # a /\ On(b, k) /\ At(b, "persist") => On(b, k)' /\ At(b, "persist")'
  BY GoesIs DEF On, At
<1>3. rows[k].hash # 0 => rows'[k].hash # 0
  BY DEF Grows, RowsGrow
<1>4. \A h, i \in SendsOf(k)' : h = i
  BY DEF SweepOf
<1>5. \A b, c \in Actors : On(b, k)' /\ On(c, k)' => b = c
  BY <1>1 DEF SweepOf
<1>6. \A b \in Actors : On(b, k)' /\ At(b, "send")' => SendsOf(k)' = {}
  BY <1>1 DEF SweepOf
<1>7. SendsOf(k)' # {} => rows'[k].hash # 0 \/ \E b \in Actors : On(b, k)' /\ At(b, "persist")'
  BY <1>2, <1>3 DEF SweepOf
<1> QED BY <1>4, <1>5, <1>6, <1>7 DEF SweepOf

(* Every row but those of an actor that begins to send for it. *)
LEMMA SweepsAreLeft ==
  ASSUME WebhookInv, Grows, NEW k \in SweepRows, SendsOf(k)' = SendsOf(k),
         NEW a \in Actors, NEW new, Goes(a, new), new.at \notin Sending \/ new.key # k,
         On(a, k) /\ At(a, "persist") => rows'[k].hash # 0 \/ k \in lost'
  PROVE  k \in lost' \cup raced' \/ SweepOf(k)'
<1>1. CASE k \in lost' \cup raced'
  BY <1>1
<1>2. CASE k \notin lost' \cup raced'
  <2>1. k \in DOMAIN rows /\ SweepOf(k)
    BY <1>2 DEF WebhookInv, SweepInv, SweepRows, Grows
  <2>2. On(a, k) /\ At(a, "persist") => rows'[k].hash # 0
    BY <1>2
  <2>3. TypeOK
    BY DEF WebhookInv
  <2> QED BY <2>1, <2>2, <2>3, SweepIsLeft
<1> QED BY <1>1, <1>2

LEMMA SweepsFit ==
  ASSUME WebhookInv, Next, Grows
  PROVE  SweepInv'
<1> DEFINE NoNewRows == \A k \in DOMAIN rows' : TypeOf(k) \in SweepTypes => k \in DOMAIN rows
<1>0. TypeOK /\ (\A k \in DOMAIN rows : RowInv(k)) /\ (\A h \in DOMAIN chain : ChainInv(h))
      /\ (\A a \in Actors : Fits(a, actor[a])) /\ BatchInv
  BY DEF WebhookInv
<1>00. SweepRows = {k \in DOMAIN rows : TypeOf(k) \in SweepTypes}
  BY DEF SweepRows, SweepTypes
<1>1. ASSUME UNCHANGED actor, NoNewRows, \A k \in SweepRows : SendsOf(k)' = SendsOf(k)
      PROVE  SweepInv'
  <2> SUFFICES ASSUME NEW k \in SweepRows', k \notin lost' \cup raced' PROVE SweepOf(k)'
    BY DEF SweepInv
  <2>1. k \in SweepRows /\ k \in DOMAIN rows /\ SweepOf(k)
    BY <1>1 DEF WebhookInv, SweepInv, SweepRows, SweepTypes, Grows
  <2> QED BY <1>0, <1>1, <2>1, SweepStays
<1>2. ASSUME NEW a \in Actors, NEW new, Goes(a, new), new.at \notin Sending,
             NoNewRows, UNCHANGED chain,
             At(a, "persist") => rows'[actor[a].key].hash # 0 \/ actor[a].key \in lost'
      PROVE  SweepInv'
  <2> SUFFICES ASSUME NEW k \in SweepRows' PROVE k \in lost' \cup raced' \/ SweepOf(k)'
    BY DEF SweepInv
  <2>1. k \in SweepRows /\ SendsOf(k)' = SendsOf(k)
    BY <1>2 DEF SweepRows, SweepTypes, SendsOf
  <2>2. On(a, k) /\ At(a, "persist") => rows'[k].hash # 0 \/ k \in lost'
    BY <1>2 DEF On
  <2> QED BY <1>2, <2>1, <2>2, SweepsAreLeft
<1>3. ASSUME NEW a \in Actors, Refund(a) \/ Transfer(a)
      PROVE  SweepInv'
  <2>0. /\ actor[a].at \in {"refund", "transfer"} /\ actor[a].dep \in Nat /\ actor[a].req \in Requests
        /\ UNCHANGED <<chain, lost>>
    <3>1. actor[a].at \in {"refund", "transfer"} /\ UNCHANGED <<chain, lost>>
      BY <1>3 DEF Refund, Transfer, At
    <3>2. actor[a] \in ActorState
      BY <1>0 DEF TypeOK
    <3> QED BY <1>0, <3>1, <3>2 DEF ActorState, Fits
  <2>1. PICK new \in ActorState :
          /\ Goes(a, new)
          /\ \/ UNCHANGED rows /\ new.at \notin Sending
             \/ \E type \in SweepTypes : Intends(a, new, Key(type, actor[a].dep))
    BY <1>0, <1>3, IntentIs DEF Sending
  <2>2. CASE UNCHANGED rows /\ new.at \notin Sending
    BY <1>2, <2>0, <2>1, <2>2 DEF At
  <2>3. ASSUME NEW type \in SweepTypes, Intends(a, new, Key(type, actor[a].dep))
        PROVE  SweepInv'
    <3>0. PICK k : k = Key(type, actor[a].dep)
      OBVIOUS
    <3>1. k \in Keys /\ TypeOf(k) = type /\ k[3] = actor[a].dep
      BY <2>0, <3>0, KeysAreTyped DEF SweepTypes
    <3>2. PICK amount \in Nat : EnsureIntent(k, actor[a].req, amount)
      BY <2>3, <3>0 DEF Intends
    <3>3. DOMAIN rows' = DOMAIN rows \cup {k} /\ \A x \in DOMAIN rows : rows'[x] = rows[x]
      BY <1>0, <2>0, <3>1, <3>2, EnsureIntentIs
    <3>4. /\ ~HasHash(k) /\ new.at = "send" /\ new.key = k
          /\ (\E b \in Actors : actor[b].at \in {"send", "persist"} /\ actor[b].key = k) => k \in raced'
      BY <2>3, <3>0 DEF Intends, Races
    <3>5. \A l : SendsOf(l)' = SendsOf(l)
      BY <2>0 DEF SendsOf
    <3>6. ASSUME NEW l \in SweepRows', l # k
          PROVE  l \in lost' \cup raced' \/ SweepOf(l)'
      <4>1. l \in SweepRows
        BY <3>3, <3>6 DEF SweepRows
      <4>2. ~At(a, "persist")
        BY <2>0 DEF At
      <4> QED BY <2>1, <3>4, <3>5, <3>6, <4>1, <4>2, SweepsAreLeft
    <3>7. k \in lost' \cup raced' \/ SweepOf(k)'
      <4> SUFFICES ASSUME k \notin lost' \cup raced' PROVE SweepOf(k)'
        OBVIOUS
      <4>1. \A b \in Actors : ~On(b, k)
        BY <3>4 DEF On
      <4>2. SendsOf(k) = {}
        <5>1. CASE k \in DOMAIN rows
          <6>1. SweepOf(k)
            BY <1>00, <3>1, <5>1 DEF WebhookInv, SweepInv, Grows
          <6>2. rows[k].hash = 0
            BY <3>4, <5>1 DEF HasHash, Known
          <6> QED BY <4>1, <6>1, <6>2 DEF SweepOf
        <5>2. CASE k \notin DOMAIN rows
          <6> SUFFICES ASSUME NEW h \in SendsOf(k) PROVE FALSE
            OBVIOUS
          <6>1. h \in DOMAIN chain /\ chain[h].type = type /\ chain[h].dep = actor[a].dep
            BY <3>1 DEF SendsOf
          <6>2. Key(chain[h].type, chain[h].dep) \in DOMAIN rows
            BY <1>0, <6>1 DEF ChainInv
          <6> QED BY <3>0, <5>2, <6>1, <6>2
        <5> QED BY <5>1, <5>2
      <4>3. \A b \in Actors : On(b, k)' => b = a
        BY <1>0, <2>1, <4>1, GoesIs DEF On
      <4> QED BY <3>5, <4>2, <4>3 DEF SweepOf
    <3> QED BY <3>6, <3>7 DEF SweepInv
  <2> QED BY <2>1, <2>2, <2>3
<1>4. ASSUME NEW a \in Actors, Send(a)
      PROVE  SweepInv'
  <2>0. PICK k, n : k = actor[a].key /\ n = Len(chain) + 1
    OBVIOUS
  <2>1. /\ At(a, "send") /\ On(a, k) /\ TypeOf(k) \in SweepTypes /\ k \in DOMAIN rows
        /\ k = Key(TypeOf(k), actor[a].dep) /\ k[3] = actor[a].dep
        /\ UNCHANGED <<rows, lost, raced>>
    <3>1. At(a, "send") /\ UNCHANGED <<rows, lost, raced>>
      BY <1>4 DEF Send
    <3>2. actor[a] \in ActorState
      BY <1>0 DEF TypeOK
    <3>3. TypeOf(k) \in SweepTypes /\ k \in DOMAIN rows /\ k = Key(TypeOf(k), actor[a].dep)
      BY <1>0, <2>0, <3>1 DEF Fits, At
    <3> QED BY <2>0, <3>1, <3>2, <3>3, KeysAreTyped DEF On, At, ActorState, SweepTypes
  <2>2. PICK new \in ActorState :
          /\ Goes(a, new)
          /\ \/ new.at = "idle" /\ UNCHANGED chain
             \/ /\ new.key = k
                /\ \E e \in Entries :
                     /\ chain' = Append(chain, e) /\ e.dep = actor[a].dep
                     /\ \/ e.type = "GAS_TOPUP" /\ new.at = "topup"
                        \/ e.type = TypeOf(k) /\ new.at = "persist"
    BY <1>0, <1>4, <2>0, SendIs
  <2>3. CASE new.at = "idle" /\ UNCHANGED chain
    BY <1>2, <2>1, <2>2, <2>3 DEF At, Sending
  <2>4. ASSUME NEW e \in Entries, chain' = Append(chain, e), e.dep = actor[a].dep, new.key = k,
               \/ e.type = "GAS_TOPUP" /\ new.at = "topup"
               \/ e.type = TypeOf(k) /\ new.at = "persist"
        PROVE  SweepInv'
    <3>1. /\ DOMAIN chain' = DOMAIN chain \cup {n} /\ n \notin DOMAIN chain /\ chain'[n] = e
          /\ \A h \in DOMAIN chain : chain'[h] = chain[h]
      BY <1>0, <2>0, <2>4, AppendIs
    <3>2. ASSUME NEW l \in SweepRows, l # k \/ e.type = "GAS_TOPUP"
          PROVE  SendsOf(l)' = SendsOf(l)
      <4>1. TypeOf(l) \in SweepTypes /\ l = Key(TypeOf(l), l[3])
        BY <1>0, <1>00 DEF RowInv
      <4>2. ~(e.type = TypeOf(l) /\ e.dep = l[3])
        BY <2>1, <2>4, <3>2, <4>1 DEF SweepTypes
      <4> QED BY <3>1, <4>2 DEF SendsOf
    <3>3. ASSUME NEW l \in SweepRows, l # k \/ e.type = "GAS_TOPUP"
          PROVE  l \in lost' \cup raced' \/ SweepOf(l)'
      <4>1. SendsOf(l)' = SendsOf(l)
        BY <3>2, <3>3
      <4>2. new.at \notin Sending \/ new.key # l
        BY <2>1, <2>4, <3>3 DEF Sending, SweepTypes
      <4>3. ~At(a, "persist")
        BY <2>1 DEF At
      <4> QED BY <2>2, <4>1, <4>2, <4>3, SweepsAreLeft
    <3>4. ASSUME e.type = TypeOf(k), new.at = "persist"
          PROVE  k \in lost' \cup raced' \/ SweepOf(k)'
      <4> SUFFICES ASSUME k \notin lost' \cup raced' PROVE SweepOf(k)'
        OBVIOUS
      <4>1. SweepOf(k)
        BY <1>00, <2>1 DEF WebhookInv, SweepInv, Grows
      <4>2. SendsOf(k) = {}
        BY <2>1, <4>1 DEF SweepOf
      <4>3. SendsOf(k)' = {n}
        BY <2>1, <2>4, <3>1, <3>4, <4>2 DEF SendsOf
      <4>4. On(a, k)' /\ At(a, "persist")' /\ ~At(a, "send")'
        BY <1>0, <2>2, <2>4, <3>4, GoesIs DEF On, At
      <4>5. \A b \in Actors : On(b, k)' => b = a
        BY <1>0, <2>1, <2>2, <4>1, GoesIs DEF On, SweepOf
      <4> QED BY <4>3, <4>4, <4>5 DEF SweepOf
    <3>5. SweepRows' = SweepRows
      BY <2>1 DEF SweepRows
    <3> QED BY <2>4, <3>3, <3>4, <3>5 DEF SweepInv
  <2> QED BY <2>2, <2>3, <2>4
<1>5. ASSUME NEW a \in Actors, Persist(a)
      PROVE  SweepInv'
  <2>1. /\ \E new : Goes(a, new) /\ new.at \in {"idle", "transfer"}
        /\ DOMAIN rows' = DOMAIN rows /\ rows'[actor[a].key].hash = actor[a].sent
    BY <1>0, <1>5, PersistIs
  <2>2. actor[a].sent # 0 /\ UNCHANGED chain
    BY <1>0, <1>5, ChainIsTyped DEF Persist, At, Fits, SendsOf
  <2> QED BY <1>2, <2>1, <2>2 DEF Sending
<1>6. ASSUME NEW a \in Actors, Throw(a)
      PROVE  SweepInv'
  <2>1. Goes(a, Idle) /\ UNCHANGED <<rows, chain>> /\ (At(a, "persist") => actor[a].key \in lost')
    BY <1>6 DEF Throw, Ends
  <2> QED BY <1>2, <2>1, IdleIsTyped DEF Sending
<1>7. ASSUME NEW a \in Actors, TopUp(a)
      PROVE  SweepInv'
  <2>1. PICK k : k = TopUpKey(actor[a].key)
    OBVIOUS
  <2>2. Goes(a, Idle) /\ TypeOf(k) = "GAS_TOPUP" /\ DOMAIN rows' \subseteq DOMAIN rows \cup {k}
    BY <1>0, <1>7, <2>1, TopUpIs
  <2>3. NoNewRows
    BY <2>2 DEF SweepTypes
  <2>4. UNCHANGED chain /\ ~At(a, "persist")
    BY <1>7 DEF TopUp, At
  <2> HIDE DEF NoNewRows
  <2> QED BY <1>2, <2>2, <2>3, <2>4, IdleIsTyped DEF Sending
<1>8. ASSUME NEW d \in Deliveries, Merge(d)
      PROVE  SweepInv'
  <2>1. d \in Actors /\ actor[d].key \in DOMAIN rows /\ UNCHANGED chain /\ ~At(d, "persist")
        /\ \E status : Remarks(actor[d].key, status) /\ FollowsUp(d, actor[d].key, status)
    BY <1>0, <1>8, MergeIs DEF Actors, Merge, At
  <2>2. \E new : Goes(d, new) /\ new.at \notin Sending
    BY <1>0, <2>1, FollowsUpIs DEF Sending
  <2> QED BY <1>2, <2>1, <2>2 DEF Remarks
<1>9. ASSUME NEW x \in batch, WatcherConfirms(x)
      PROVE  SweepInv'
  <2>1. x[1] \in DOMAIN rows
    BY <1>0 DEF BatchInv
  <2>2. /\ Watcher \in Actors /\ Remarks(x[1], "CONFIRMED") /\ FollowsUp(Watcher, x[1], "CONFIRMED")
        /\ UNCHANGED chain /\ ~At(Watcher, "persist")
    BY <1>0, <1>9, <2>1, WatcherConfirmsIs DEF Actors, WatcherConfirms, At
  <2>3. \E new : Goes(Watcher, new) /\ new.at \notin Sending
    BY <1>0, <2>1, <2>2, FollowsUpIs DEF Sending
  <2> QED BY <1>2, <2>2, <2>3 DEF Remarks
<1>10. ASSUME NEW x \in batch, WatcherFails(x)
       PROVE  SweepInv'
  <2>1. x[1] \in DOMAIN rows
    BY <1>0 DEF BatchInv
  <2>2. Remarks(x[1], "FAILED") /\ UNCHANGED <<actor, chain>>
    BY <1>0, <1>10, <2>1, WatcherFailsIs DEF WatcherFails
  <2> QED BY <1>1, <2>2 DEF Remarks, SendsOf
<1>11. ASSUME NEW d \in Deliveries, (\E h \in DOMAIN chain : Deliver(d, h)) \/ FindRequest(d) \/ Stage(d)
       PROVE  SweepInv'
  <2>1. d \in Actors /\ UNCHANGED <<rows, chain>> /\ ~At(d, "persist")
    BY <1>11 DEF Actors, Deliver, FindRequest, Stage, At
  <2>2. \E new : Goes(d, new) /\ new.at \notin Sending
    BY <1>0, <1>11, DeliverIs, FindRequestIs, StageIs DEF Sending
  <2> QED BY <1>2, <2>1, <2>2
<1>12. ASSUME NEW d \in Deliveries, Commit(d)
       PROVE  SweepInv'
  <2>0. PICK k, row : k = About(d) /\ row = Row(actor[d].req, "DETECTED", chain[actor[d].event].amount, actor[d].event, TRUE)
    OBVIOUS
  <2>1. d \in Actors /\ UNCHANGED chain /\ ~At(d, "persist")
    BY <1>12 DEF Actors, Commit, At
  <2>2. PICK new \in ActorState :
          Goes(d, new) /\ new.at \notin Sending /\ (UNCHANGED rows \/ WriteRow(k, row))
    BY <1>0, <1>12, <2>0, <2>1, CommitIs DEF Sending, About
  <2>3. NoNewRows
    <3>1. TypeOf(k) \notin SweepTypes
      BY <2>0 DEF About, Key, TypeOf, SweepTypes
    <3> QED BY <2>2, <3>1, RowIsWritten
  <2> HIDE DEF NoNewRows
  <2> QED BY <1>2, <2>1, <2>2, <2>3
<1>13. ASSUME NEW a \in Actors, Resume(a) \/ Settle(a)
       PROVE  SweepInv'
  <2>1. UNCHANGED <<rows, chain>> /\ ~At(a, "persist")
    BY <1>13 DEF Resume, Settle, At
  <2>2. \E new : Goes(a, new) /\ new.at \notin Sending
    BY <1>0, <1>13, ResumeIs, SettleIs, IdleIsTyped DEF Sending
  <2> QED BY <1>2, <2>1, <2>2
<1>14. ASSUME NEW d \in Deliveries, IgnoreDirection(d)
       PROVE  SweepInv'
  <2>1. d \in Actors /\ UNCHANGED <<rows, chain>> /\ ~At(d, "persist") /\ Goes(d, Idle)
    BY <1>14 DEF IgnoreDirection, Ends, Actors, At
  <2> QED BY <1>2, <2>1, IdleIsTyped DEF Sending
<1>15. ASSUME NEW amount \in Amounts, NEW sort \in Sorts, ClientPays(amount, sort)
       PROVE  SweepInv'
  <2>0. PICK e : e = Entry("PAYMENT", 0, amount, "confirmed", sort)
    OBVIOUS
  <2>1. UNCHANGED <<actor, rows>> /\ chain' = Append(chain, e) /\ e \in Entries /\ e.type = "PAYMENT"
    BY <1>15, <2>0, PaymentIs DEF ClientPays
  <2>2. \A k \in SweepRows : SendsOf(k)' = SendsOf(k)
    BY <1>0, <2>1, AppendIs DEF SendsOf, SweepRows
  <2> QED BY <1>1, <2>1, <2>2
<1>16. ASSUME NEW h \in DOMAIN chain, ChainConfirms(h) \/ ChainReverts(h)
       PROVE  SweepInv'
  <2>1. UNCHANGED <<actor, rows>>
    BY <1>16 DEF ChainConfirms, ChainReverts
  <2>2. \A k \in SweepRows : SendsOf(k)' = SendsOf(k)
    BY <1>0, <1>16, InclusionIs DEF SendsOf
  <2> QED BY <1>1, <2>1, <2>2
<1>17. CASE \/ \E r \in Requests : RequestOpens(r) \/ RequestTimesOut(r)
            \/ WatcherFetches \/ \E x \in batch : WatcherSkips(x)
  <2>1. UNCHANGED <<actor, rows, chain>>
    BY <1>17 DEF RequestOpens, RequestTimesOut, WatcherFetches, WatcherSkips
  <2> QED BY <1>1, <2>1 DEF SendsOf
<1> QED
  BY <1>3, <1>4, <1>5, <1>6, <1>7, <1>8, <1>9, <1>10, <1>11, <1>12, <1>13, <1>14, <1>15, <1>16, <1>17
     DEF Next, HandlerStep, SideEffectStep, WatcherStep
-------------------------------------------------------------------------------
(* Refunds that are whole, and trades. *)

PaidBack(r) ==
  \E k \in DOMAIN rows :
    /\ TypeOf(k) = "CLIENT_REFUND" /\ rows[k].req = r
    /\ rows[k].amount = request[r].received
    /\ \E h \in SendsOf(k) : chain[h].state = "confirmed"

LEMMA PaidBackStays ==
  ASSUME Grows, NEW r, PaidBack(r), request'[r].received = request[r].received
  PROVE  PaidBack(r)'
<1>1. PICK k \in DOMAIN rows :
        /\ TypeOf(k) = "CLIENT_REFUND" /\ rows[k].req = r
        /\ rows[k].amount = request[r].received /\ PaidOut(k)
  BY DEF PaidBack, PaidOut
<1>2. PaidOut(k)'
  BY <1>1, FactsGrow
<1>3. k \in DOMAIN rows' /\ rows'[k].req = r /\ rows'[k].amount = request'[r].received
  BY <1>1 DEF Grows, RowsGrow
<1> QED BY <1>1, <1>2, <1>3 DEF PaidBack, PaidOut

LEMMA RefundsFit ==
  ASSUME WebhookInv, Next, Grows, (\A k \in DOMAIN rows : RowInv(k))'
  PROVE  RefundedMeansPaidBack'
<1> USE DEF WebhookInv
<1>0. \A r \in Requests : request[r].status = "REFUNDED" => PaidBack(r)
  BY DEF RefundedMeansPaidBack, PaidBack
<1>1. ASSUME \A r \in Requests : request'[r].status = "REFUNDED" =>
               \/ PaidBack(r)'
               \/ request[r].status = "REFUNDED" /\ request'[r].received = request[r].received
      PROVE  RefundedMeansPaidBack'
  <2>1. \A r \in Requests : request'[r].status = "REFUNDED" => PaidBack(r)'
    BY <1>0, <1>1, PaidBackStays
  <2> QED BY <2>1 DEF RefundedMeansPaidBack, PaidBack
<1>2. ASSUME NEW k \in DOMAIN rows, Confirms(k), rows'[k].status = "CONFIRMED" => rows'[k].amount = rows[k].amount
      PROVE  RefundedMeansPaidBack'
  <2>1. ASSUME NEW r \in Requests, TypeOf(k) = "CLIENT_REFUND", r = rows[k].req,
               rows[k].amount = request[r].received, rows'[k].status = "CONFIRMED"
        PROVE  PaidBack(r)'
    <3>1. k \in DOMAIN rows' /\ rows'[k].req = r
      BY <2>1 DEF Grows, RowsGrow
    <3>2. PaidOut(k)'
      BY <2>1, <3>1 DEF RowInv, SweepTypes
    <3>3. rows'[k].amount = request'[r].received
      BY <1>2, <2>1 DEF Confirms
    <3> QED BY <2>1, <3>1, <3>2, <3>3 DEF PaidBack, PaidOut
  <2> QED BY <1>1, <1>2, <2>1 DEF Confirms
<1>3. ASSUME NEW r \in Requests, RequestOpens(r) \/ RequestTimesOut(r)
      PROVE  RefundedMeansPaidBack'
  <2>1. PICK status \in {"WAITING_DEPOSIT", "FAILED"} : request' = [request EXCEPT ![r].status = status]
    BY <1>3 DEF RequestOpens, RequestTimesOut
  <2>2. request \in [Requests -> ReqState]
    BY DEF TypeOK, ReqState
  <2>3. \A q \in Requests : request'[q].status = "REFUNDED" =>
          request[q].status = "REFUNDED" /\ request'[q].received = request[q].received
    BY <2>1, <2>2 DEF ReqState
  <2> QED BY <1>1, <2>3
<1>4. ASSUME NEW d \in Deliveries, Commit(d)
      PROVE  RefundedMeansPaidBack'
  <2>1. Fits(d, actor[d]) /\ actor[d].req \in Requests
    BY <1>4 DEF Commit, At, Fits, Actors
  <2>2. \/ UNCHANGED request
        \/ \E new \in ActorState :
             /\ ~IsFinal(new.status) /\ request'[actor[d].req].status = new.status
             /\ \A q \in Requests : q # actor[d].req => request'[q] = request[q]
    BY <1>4, <2>1, CommitIs
  <2>3. \A q \in Requests : request'[q].status = "REFUNDED" =>
          request[q].status = "REFUNDED" /\ request'[q].received = request[q].received
    BY <2>1, <2>2 DEF IsFinal, FinalStatuses
  <2> QED BY <1>1, <2>3
<1>5. ASSUME NEW d \in Deliveries, Merge(d)
      PROVE  RefundedMeansPaidBack'
  <2>1. actor[d].key \in DOMAIN rows /\ Confirms(actor[d].key) /\ \E status : Remarks(actor[d].key, status)
    BY <1>5, MergeIs DEF Actors
  <2>2. PICK k : k = actor[d].key
    OBVIOUS
  <2> QED BY <1>2, <2>1, <2>2 DEF Remarks
<1>6. ASSUME NEW a \in Actors, Settle(a) \/ Persist(a)
      PROVE  RefundedMeansPaidBack'
  <2>1. \A r \in Requests : request'[r].received = request[r].received
                            /\ (request'[r].status = "REFUNDED" => request[r].status = "REFUNDED")
    BY <1>6, SettleIs, PersistIs
  <2> QED BY <1>1, <2>1
<1>7. ASSUME NEW x \in batch, WatcherConfirms(x)
      PROVE  RefundedMeansPaidBack'
  <2>1. x[1] \in DOMAIN rows
    BY DEF BatchInv
  <2>2. Confirms(x[1]) /\ Remarks(x[1], "CONFIRMED")
    BY <1>7, <2>1, WatcherConfirmsIs
  <2> QED BY <1>2, <2>1, <2>2 DEF Remarks
<1>8. CASE \/ \E amount \in Amounts, sort \in Sorts : ClientPays(amount, sort)
           \/ \E h \in DOMAIN chain : ChainConfirms(h) \/ ChainReverts(h)
           \/ \E d \in Deliveries, h \in DOMAIN chain : Deliver(d, h)
           \/ \E d \in Deliveries : IgnoreDirection(d) \/ FindRequest(d) \/ Stage(d)
           \/ \E a \in Actors : Resume(a) \/ Refund(a) \/ Transfer(a) \/ Send(a) \/ TopUp(a) \/ Throw(a)
           \/ WatcherFetches \/ \E x \in batch : WatcherSkips(x) \/ WatcherFails(x)
  <2>1. UNCHANGED request
    BY <1>8 DEF ClientPays, ChainConfirms, ChainReverts, Deliver, IgnoreDirection, FindRequest, Stage,
                Resume, Refund, Transfer, Send, TopUp, Throw, WatcherFetches, WatcherSkips, WatcherFails
  <2> QED BY <1>1, <2>1
<1> QED
  BY <1>3, <1>4, <1>5, <1>6, <1>7, <1>8
     DEF Next, HandlerStep, SideEffectStep, WatcherStep

LEMMA TradesFit ==
  ASSUME WebhookInv, Next, Grows
  PROVE  SettledIsBacked'
<1> USE DEF WebhookInv
<1> DEFINE Backed(r, k) == k \in DOMAIN rows /\ IsTransfer(k) /\ rows[k].req = r /\ PaidOut(k)
<1>1. ASSUME NEW r, NEW k, Backed(r, k)
      PROVE  Backed(r, k)'
  BY <1>1, FactsGrow DEF Grows, RowsGrow, IsTransfer
<1>2. ASSUME NEW r \in payout'
      PROVE  \E k : Backed(r, k)
  <2>1. CASE r \in payout
    BY <2>1 DEF SettledIsBacked, PaidOut
  <2>2. CASE r \notin payout
    <3>1. PICK a \in Actors : Settle(a)
      BY <1>2, <2>2 DEF Next, ClientPays, RequestOpens, RequestTimesOut, ChainConfirms, ChainReverts, Deliver,
                HandlerStep, IgnoreDirection, FindRequest, Stage, Commit, Merge,
                SideEffectStep, Resume, Refund, Transfer, Send, Persist, TopUp, Throw,
                WatcherStep, WatcherFetches, WatcherSkips, WatcherConfirms, WatcherFails
    <3>2. r = actor[a].req /\ At(a, "settle")
      BY <1>2, <2>2, <3>1, SettleIs
    <3>3. Backed(r, actor[a].key)
      BY <3>2 DEF Fits, At
    <3> QED BY <3>3
  <2> QED BY <2>1, <2>2
<1>3. ASSUME NEW r \in payout'
      PROVE  \E k : Backed(r, k)'
  <2>1. PICK k : Backed(r, k)
    BY <1>2, <1>3
  <2> HIDE DEF Backed
  <2> QED BY <1>1, <2>1
<1> QED BY <1>3 DEF SettledIsBacked, PaidOut
-------------------------------------------------------------------------------
(* The invariant holds at the start, and every step keeps it. *)

LEMMA InitHolds == Init => WebhookInv
<1> SUFFICES ASSUME Init PROVE WebhookInv
  OBVIOUS
<1>1. rows = <<>> /\ chain = <<>> /\ DOMAIN rows = {} /\ DOMAIN chain = {}
  BY DEF Init
<1>2. \A a \in Actors : actor[a] = Idle
  BY DEF Init
<1>3. TypeOK
  <2>1. request \in [Requests -> ReqState]
    BY StatusIs DEF Init, ReqState
  <2>2. rows \in [DOMAIN rows -> RowState]
    BY <1>1
  <2>3. purse \in [native : Nat, token : Nat, gas : Nat]
    BY WebhookAssumption DEF Init
  <2>4. actor \in [Actors -> ActorState]
    BY IdleIsTyped DEF Init
  <2>5. chain \in Seq(Entries)
    BY <1>1
  <2> QED BY <1>1, <2>1, <2>2, <2>3, <2>4, <2>5 DEF Init, TypeOK, ReqState
<1>4. \A a \in Actors : Fits(a, actor[a])
  BY <1>2, IdleFits
<1>5. BatchInv /\ DepositsInv /\ SweepInv
  BY <1>1, <1>2, IdleIsTyped DEF Init, BatchInv, DepositsInv, DepositsOf, SweepInv, SweepRows, At
<1>6. RefundedMeansPaidBack /\ SettledIsBacked
  BY DEF Init, RefundedMeansPaidBack, SettledIsBacked
<1> QED BY <1>1, <1>3, <1>4, <1>5, <1>6 DEF WebhookInv

LEMMA StepHolds == WebhookInv /\ [Next]_vars => WebhookInv'
<1> SUFFICES ASSUME WebhookInv, [Next]_vars PROVE WebhookInv'
  OBVIOUS
<1>1. CASE Next
  <2>1. Grows
    BY <1>1, StepGrows
  <2>2. TypeOK'
    BY <1>1, WorldKeepsTypes, HandlersKeepTypes, SideEffectsKeepTypes, WatcherKeepsTypes DEF Next, WebhookInv
  <2>3. (\A k \in DOMAIN rows : RowInv(k))'
    BY <1>1, <2>1, <2>2, RowsFit
  <2>4. (\A h \in DOMAIN chain : ChainInv(h))' /\ BatchInv'
    BY <1>1, <2>1, ChainFits, BatchFits
  <2>5. (\A a \in Actors : Fits(a, actor[a]))'
    BY <1>1, <2>1, ActorsFit
  <2>6. DepositsInv' /\ SweepInv'
    BY <1>1, <2>1, DepositsFit, SweepsFit
  <2>7. RefundedMeansPaidBack' /\ SettledIsBacked'
    BY <1>1, <2>1, <2>3, RefundsFit, TradesFit
  <2> QED BY <2>2, <2>3, <2>4, <2>5, <2>6, <2>7 DEF WebhookInv
<1>2. CASE UNCHANGED vars
  <2>1. TypeOK' /\ BatchInv' /\ DepositsInv' /\ SweepInv' /\ RefundedMeansPaidBack' /\ SettledIsBacked'
    BY <1>2 DEF WebhookInv, vars, TypeOK, Payments, BatchInv, DepositsInv, DepositsOf, About, At, SweepInv,
                SweepRows, SweepOf, SendsOf, On, RefundedMeansPaidBack, SettledIsBacked
  <2>2. Grows
    BY <1>2 DEF vars, Grows, ChainGrows, RowsGrow
  <2>3. (\A k \in DOMAIN rows : RowInv(k))' /\ (\A h \in DOMAIN chain : ChainInv(h))'
    BY <1>2, <2>2, RowGrows, EntryGrows DEF WebhookInv, vars
  <2>4. (\A a \in Actors : Fits(a, actor[a]))'
    BY <1>2, <2>2, ActorsStay DEF WebhookInv, vars
  <2> QED BY <2>1, <2>3, <2>4 DEF WebhookInv
<1> QED BY <1>1, <1>2

(* The invariant of the webhook and the watcher, under any faults. *)
THEOREM WebhookCorrect == Spec => []WebhookInv
<1>1. Init => WebhookInv
  BY InitHolds
<1>2. WebhookInv /\ [Next]_vars => WebhookInv'
  BY StepHolds
<1> QED BY <1>1, <1>2, PTL DEF Spec

(* The variables keep their types; the address and the gas wallet never send
   what they do not hold. *)
THEOREM WebhookTypes == Spec => []TypeOK
<1>1. WebhookInv => TypeOK
  BY DEF WebhookInv
<1> QED BY <1>1, WebhookCorrect, PTL

(* A set whose elements are all the same has at most one. *)
LEMMA AtMostOne ==
  ASSUME NEW S, \A x, y \in S : x = y
  PROVE  ~(Cardinality(S) > 1)
<1>1. CASE S = {}
  BY <1>1, FS_EmptySet
<1>2. CASE S # {}
  <2>1. PICK x : S = {x}
    BY <1>2
  <2> QED BY <2>1, FS_Singleton
<1> QED BY <1>1, <1>2

(* Two deposits of one request are recorded only where two deliveries were
   between createClientDepositAtomically's read and write at once. *)
THEOREM OneDeposit == Spec => []OneDepositPerRequest
<1>1. WebhookInv => OneDepositPerRequest
  <2> SUFFICES ASSUME WebhookInv, NEW r \in Requests, DepositsOf(r) \cap raced = {}
               PROVE  ~(Cardinality(DepositsOf(r)) > 1)
    BY DEF OneDepositPerRequest
  <2>1. \A k, l \in DepositsOf(r) : k = l
    BY DEF WebhookInv, DepositsInv
  <2> QED BY <2>1, AtMostOne
<1> QED BY <1>1, WebhookCorrect, PTL

(* A refund or a transfer is sent twice only after the loss of its hash or
   by two actors that looked for it at once. *)
THEOREM SweepOnceUnlessLost == Spec => []SweptAgainOnlyAfterLoss
<1>1. WebhookInv => SweptAgainOnlyAfterLoss
  <2> SUFFICES ASSUME WebhookInv, NEW k \in SweepRows, k \notin lost \cup raced
               PROVE  ~(Cardinality(SendsOf(k)) > 1)
    BY DEF SweptAgainOnlyAfterLoss
  <2>1. \A h, i \in SendsOf(k) : h = i
    BY DEF WebhookInv, SweepInv, SweepOf
  <2> QED BY <2>1, AtMostOne
<1> QED BY <1>1, WebhookCorrect, PTL

(* No path sends an underpaid deposit to the exchange, as long as one
   deposit of a request is recorded. *)
THEOREM UnderpaidOut == Spec => []UnderpaidStaysOut
<1>1. WebhookInv => UnderpaidStaysOut
  BY DEF WebhookInv, ChainInv, UnderpaidStaysOut, DepositRace
<1> QED BY <1>1, WebhookCorrect, PTL

(* REFUNDED is said of a request whose whole deposit was paid back. *)
THEOREM RefundsArePaidBack == Spec => []RefundedMeansPaidBack
<1>1. WebhookInv => RefundedMeansPaidBack
  BY DEF WebhookInv
<1> QED BY <1>1, WebhookCorrect, PTL

(* A trade starts for a request whose transfer the chain included. *)
THEOREM TradesAreBacked == Spec => []SettledIsBacked
<1>1. WebhookInv => SettledIsBacked
  BY DEF WebhookInv
<1> QED BY <1>1, WebhookCorrect, PTL
===============================================================================
