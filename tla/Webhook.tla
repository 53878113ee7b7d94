-------------------------------- MODULE Webhook --------------------------------
(***************************************************************************)
(* The address-event webhook of pipeline/process.ts and everything it      *)
(* starts: the deposit is recorded or merged, what is due back is swept to *)
(* the client and what is accepted to the exchange, and the transfer       *)
(* watcher confirms what was broadcast.  An event is delivered at least    *)
(* once: again while the answer was not 200, and possibly afterwards.      *)
(* All requests of the model share one deposit address, as the static      *)
(* addresses of an exchange are shared.                                    *)
(*                                                                         *)
(* A transaction hash is the transaction's place in `chain`.  An await may *)
(* throw anywhere; a restart is a throw of every actor, because nothing    *)
(* here lives in memory but the actors and the batch.                      *)
(* Bounds: MaxTrouble, and the money that is there to be sent.             *)
(***************************************************************************)
EXTENDS ExchangeStatus, Sweep, Sequences, FiniteSets

CONSTANTS
  Requests, Deliveries, Watcher, NoReq,
  Expected,       \* fromAmount of every request
  Amounts,        \* what a client may pay
  Sorts,          \* what its event may look like
  Fee,            \* the fee estimate, and the fee the chain takes
  SendsByKey,     \* the family of the chain sends with a private key alone
  GasWallet,      \* native coin in the gas wallet at the start
  Preloaded,      \* native coin the deposit address may hold at the start
  Faulty,         \* whether an await may throw and a transaction may revert
  MaxTrouble      \* faults, payments after the first, payments of another sort, deliveries no payment needs

ASSUME WebhookAssumption ==
  /\ Expected \in Nat \ {0} /\ Amounts \subseteq Nat \ {0}
  /\ Sorts \subseteq {"deposit", "senderless", "refused"}
  /\ Fee \in Nat \ {0} /\ GasWallet \in Nat /\ Preloaded \subseteq Nat
  /\ SendsByKey \in BOOLEAN /\ Faulty \in BOOLEAN /\ MaxTrouble \in Nat
  /\ Watcher \notin Deliveries /\ NoReq \notin Requests

VARIABLES
  request,    \* the ExchangeRequest rows of the shared address
  rows,       \* the Transaction rows, by type and the deposit they are for
  payout,     \* requests whose settlement was acquired
  isNative,   \* the deposited coin is the network's own
  chain,      \* every transaction that was broadcast, in order
  purse,      \* what the deposit address and the gas wallet hold
  actor,      \* what each delivery and the watcher is doing
  batch,      \* rows of the watcher's tick still to be polled
  answered,   \* payments whose event was answered with 200
  lost,       \* sweeps that were sent and whose hash was not written down
  raced,      \* rows that two actors found missing, or without a hash, at once
  trouble

vars == <<request, rows, payout, isNative, chain, purse, actor, batch, answered, lost, raced, trouble>>
-------------------------------------------------------------------------------
Actors == Deliveries \cup {Watcher}
Watched == {"CLIENT_REFUND", "TRANSFER_TO_BINANCE", "GAS_TOPUP"}

(* The idempotency keys <request>:refund:<tx>, <request>:transfer:<tx> and
   <request>:gas-topup:<step>:<tx>:kms; a deposit is found by its hash. *)
Key(type, dep)   == <<type, "", dep>>
TopUpKey(key)    == <<"GAS_TOPUP", key[1], key[3]>>
NoKey            == <<"NONE", "", 0>>
TypeOf(key)      == key[1]

Row(r, status, amount, hash, filled) ==
  [req |-> r, status |-> status, amount |-> amount, hash |-> hash, filled |-> filled]

Known(k)     == k \in DOMAIN rows
WithHash(h)  == {k \in DOMAIN rows : rows[k].hash = h}
DepositsOf(r) == {k \in DOMAIN rows : TypeOf(k) = "CLIENT_DEPOSIT" /\ rows[k].req = r}

WriteRow(k, row) ==
  rows' = [x \in DOMAIN rows \cup {k} |-> IF x = k THEN row ELSE rows[x]]

Idle ==
  [at |-> "idle", event |-> 0, key |-> NoKey, seen |-> "same", req |-> NoReq, status |-> "CREATED",
   received |-> 0, dep |-> 0, sent |-> 0, told |-> 0, first |-> FALSE]

Steps == {"idle", "lookup", "stage", "commit", "merge", "settle", "resume", "refund",
          "transfer", "send", "persist", "topup"}

Payments == {h \in DOMAIN chain : chain[h].type = "PAYMENT"}

Goes(a, new) == actor' = [actor EXCEPT ![a] = new]
At(a, step)  == actor[a].at = step
Stays(a, step) == [actor[a] EXCEPT !.at = step]

(* The call ends; the event of a payment counts as answered by a 200. *)
Ends(a, ok) ==
  /\ Goes(a, Idle)
  /\ answered' = IF ok THEN answered \cup ({actor[a].event} \cap Payments) ELSE answered

(* What the snapshot of a row lets mergeExistingTransaction write later. *)
SeenOf(row) ==
  IF row.status # "CONFIRMED" THEN "unconfirmed" ELSE IF row.filled THEN "same" ELSE "unfilled"

MergesInto(a, k) ==
  Goes(a, [actor[a] EXCEPT !.at = "merge", !.key = k, !.seen = SeenOf(rows[k])])

(* The history of races: no part of the code's state. *)
Races(race, k) == raced' = IF race THEN raced \cup {k} ELSE raced

Init ==
  /\ request  = [r \in Requests |-> [status |-> "ABSENT", received |-> 0, refunded |-> 0]]
  /\ rows     = <<>>
  /\ payout   = {}
  /\ isNative \in BOOLEAN
  /\ chain    = <<>>
  /\ \E native \in Preloaded : purse = [native |-> native, token |-> 0, gas |-> GasWallet]
  /\ actor    = [a \in Actors |-> Idle]
  /\ batch    = {}
  /\ answered = {}
  /\ lost     = {}
  /\ raced    = {}
  /\ trouble  = 0
-------------------------------------------------------------------------------
(* The world: clients, requests, the chain. *)

Entry(type, dep, amount, state, sort) ==
  [type |-> type, dep |-> dep, amount |-> amount, state |-> state, sort |-> sort]

Trouble(n) == trouble + n <= MaxTrouble /\ trouble' = trouble + n

(* A mined payment to the address of a request.  Its event may lack the
   sender, as on a UTXO chain, or come from a direction that is refused. *)
ClientPays(amount, sort) ==
  /\ Trouble((IF Payments = {} THEN 0 ELSE 1) + (IF sort = "deposit" THEN 0 ELSE 1))
  /\ \E r \in Requests : request[r].status # "ABSENT"
  /\ chain' = Append(chain, Entry("PAYMENT", 0, amount, "confirmed", sort))
  /\ purse' = IF isNative THEN [purse EXCEPT !.native = @ + amount]
                          ELSE [purse EXCEPT !.token = @ + amount]
  /\ UNCHANGED <<request, rows, payout, isNative, actor, batch, answered, lost, raced>>

(* createRequest, and the timeout of a request nobody paid. *)
RequestOpens(r) ==
  /\ request[r].status = "ABSENT"
  /\ request' = [request EXCEPT ![r].status = "WAITING_DEPOSIT"]
  /\ UNCHANGED <<rows, payout, isNative, chain, purse, actor, batch, answered, lost, raced, trouble>>

RequestTimesOut(r) ==
  /\ request[r].status \in PollStatuses
  /\ request' = [request EXCEPT ![r].status = "FAILED"]
  /\ UNCHANGED <<rows, payout, isNative, chain, purse, actor, batch, answered, lost, raced, trouble>>

ChainConfirms(h) ==
  /\ h \in DOMAIN chain /\ chain[h].state = "pending"
  /\ chain' = [chain EXCEPT ![h].state = "confirmed"]
  /\ purse' = IF chain[h].type = "GAS_TOPUP" THEN [purse EXCEPT !.native = @ + chain[h].amount] ELSE purse
  /\ UNCHANGED <<request, rows, payout, isNative, actor, batch, answered, lost, raced, trouble>>

ChainReverts(h) ==
  /\ chain[h].state = "pending" /\ Faulty /\ Trouble(1)
  /\ chain' = [chain EXCEPT ![h].state = "failed"]
  /\ purse' = IF chain[h].type = "GAS_TOPUP" THEN [purse EXCEPT !.gas = @ + chain[h].amount]
              ELSE IF isNative THEN [purse EXCEPT !.native = @ + chain[h].amount]
              ELSE [purse EXCEPT !.token = @ + chain[h].amount]
  /\ UNCHANGED <<request, rows, payout, isNative, actor, batch, answered, lost, raced>>
-------------------------------------------------------------------------------
(* processTatumAddressEventWebhook *)

(* A payment's event that is not answered and that nobody is handling. *)
Needed(h) == h \in Payments \ answered /\ \A d \in Deliveries : actor[d].event # h

(* An event arrives, for the first time or again; the hash is looked up. *)
Deliver(d, h) ==
  /\ At(d, "idle")
  /\ h \in DOMAIN chain /\ chain[h].state = "confirmed"
  /\ LET heard == [Idle EXCEPT !.event = h]
     IN IF WithHash(h) # {}
        THEN \E k \in WithHash(h) :
               Goes(d, [heard EXCEPT !.at = "merge", !.key = k, !.seen = SeenOf(rows[k])])
        ELSE Goes(d, [heard EXCEPT !.at = "lookup"])
  /\ Trouble(IF Needed(h) THEN 0 ELSE 1)
  /\ answered' = answered \ {h}
  /\ UNCHANGED <<request, rows, payout, isNative, chain, purse, batch, lost, raced>>

(* The event names no deposit address, or only as the counterparty of a
   transfer whose direction is not allowlisted: 200, ignored. *)
IgnoreDirection(d) ==
  /\ At(d, "lookup") /\ chain[actor[d].event].sort \in {"own", "refused"}
  /\ Ends(d, TRUE)
  /\ UNCHANGED <<request, rows, payout, isNative, chain, purse, batch, lost, raced, trouble>>

OpenRequests == {r \in Requests : request[r].status \notin FinalStatuses \cup {"ABSENT"}}

(* None or several open requests on the address: 200, ignored. *)
FindRequest(d) ==
  /\ At(d, "lookup") /\ chain[actor[d].event].sort # "refused"
  /\ IF Cardinality(OpenRequests) = 1
     THEN /\ \E r \in OpenRequests : Goes(d, [actor[d] EXCEPT !.at = "stage", !.req = r])
          /\ UNCHANGED answered
     ELSE Ends(d, TRUE)
  /\ UNCHANGED <<request, rows, payout, isNative, chain, purse, batch, lost, raced, trouble>>

(* Mutant of Eligible: any open request, whatever is recorded for it. *)
EligibleUntilFinal(r, h) == r \in OpenRequests

(* detectClientDepositEligibility *)
Eligible(r, h) ==
  /\ request[r].status \in PollStatuses
  /\ \A k \in DepositsOf(r) : rows[k].hash = h

(* createClientDepositAtomically reads under READ COMMITTED ... *)
Stage(d) ==
  LET r == actor[d].req  h == actor[d].event
  IN /\ At(d, "stage")
     /\ \/ /\ \E k \in WithHash(h) : MergesInto(d, k)
           /\ UNCHANGED <<answered, raced>>
        \/ /\ WithHash(h) = {} /\ ~Eligible(r, h)
           /\ Ends(d, TRUE)
           /\ UNCHANGED raced
        \/ /\ WithHash(h) = {} /\ Eligible(r, h)
           /\ Goes(d, [actor[d] EXCEPT !.at = "commit", !.status = request[r].status])
           /\ Races(\E b \in Deliveries : At(b, "commit") /\ actor[b].req = r, Key("CLIENT_DEPOSIT", h))
           /\ UNCHANGED answered
     /\ UNCHANGED <<request, rows, payout, isNative, chain, purse, batch, lost, trouble>>

(* ... and writes what it read.  A hash recorded meanwhile is a P2002. *)
Commit(d) ==
  LET r == actor[d].req  h == actor[d].event  amount == chain[h].amount
      next == Advance(actor[d].status, ClassifiedStatus(Expected, amount))
  IN /\ At(d, "commit")
     /\ \/ /\ \E k \in WithHash(h) : MergesInto(d, k)
           /\ UNCHANGED <<request, rows>>
        \/ /\ WithHash(h) = {}
           /\ WriteRow(Key("CLIENT_DEPOSIT", h), Row(r, "DETECTED", amount, h, TRUE))
           /\ request' = [request EXCEPT ![r].status = next, ![r].received = amount]
           /\ Goes(d, [actor[d] EXCEPT !.at = "refund", !.status = next, !.received = amount,
                                       !.dep = h, !.first = TRUE])
     /\ UNCHANGED <<payout, isNative, chain, purse, batch, answered, lost, raced, trouble>>

(* What a confirmation makes of its request. *)
Noted(r, refund, status) ==
  [request EXCEPT ![r] = [status   |-> Advance(request[r].status, status),
                          received |-> request[r].received,
                          refunded |-> request[r].refunded + refund]]

(* Mutant of AfterConfirmation: every confirmed refund is taken for a full one. *)
AnyRefundIsFull(k, row) ==
  IF IsFinal(request[row.req].status) THEN request
  ELSE CASE TypeOf(k) = "TRANSFER_TO_BINANCE" -> Noted(row.req, 0, "PROCESSING")
         [] TypeOf(k) = "CLIENT_REFUND" -> Noted(row.req, row.amount, "REFUNDED")
         [] OTHER -> request

(* updateRequestFromConfirmedInternalTransaction *)
AfterConfirmation(k, row) ==
  LET full == row.amount = request[row.req].received
  IN IF IsFinal(request[row.req].status) THEN request
     ELSE CASE TypeOf(k) = "TRANSFER_TO_BINANCE" -> Noted(row.req, 0, "PROCESSING")
            [] TypeOf(k) = "CLIENT_REFUND" ->
                 Noted(row.req, row.amount, IF full THEN "REFUNDED" ELSE "PARTIALLY_REFUNDED")
            [] OTHER -> request

(* What a confirmed row starts: the settlement, the resume, or nothing. *)
FollowsUp(a, k, status) ==
  LET next == [Idle EXCEPT !.event = actor[a].event, !.key = k, !.req = rows[k].req,
                           !.dep = IF TypeOf(k) = "CLIENT_DEPOSIT" THEN rows[k].hash ELSE 0]
  IN CASE TypeOf(k) = "TRANSFER_TO_BINANCE" /\ status = "CONFIRMED" ->
            Goes(a, [next EXCEPT !.at = "settle"]) /\ UNCHANGED answered
       [] \/ TypeOf(k) = "GAS_TOPUP" /\ status = "CONFIRMED"
          \/ TypeOf(k) = "CLIENT_DEPOSIT" /\ a # Watcher ->
            Goes(a, [next EXCEPT !.at = "resume"]) /\ UNCHANGED answered
       [] OTHER -> Ends(a, TRUE)

(* mergeExistingTransaction writes by id what the snapshot allowed; the row
   it gets back has the status of now. *)
Merge(d) ==
  LET k == actor[d].key
      status == IF actor[d].seen = "unconfirmed" THEN "CONFIRMED" ELSE rows[k].status
      merged == [rows[k] EXCEPT !.status = status, !.filled = TRUE]
  IN /\ At(d, "merge")
     /\ IF actor[d].seen = "same"
        THEN UNCHANGED <<request, rows>>
        ELSE /\ WriteRow(k, merged)
             /\ request' = IF status = "CONFIRMED" THEN AfterConfirmation(k, merged) ELSE request
     /\ FollowsUp(d, k, status)
     /\ UNCHANGED <<payout, isNative, chain, purse, batch, lost, raced, trouble>>
-------------------------------------------------------------------------------
(* What follows a recorded or confirmed row, in a delivery or in the watcher. *)

(* maybeStartExchangeSettlementForConfirmedTransfer, whole: DepositPipeline
   and ProviderSettlement have its steps. *)
Settle(a) ==
  LET r == actor[a].req
  IN /\ At(a, "settle")
     /\ IF IsFinal(request[r].status) \/ r \in payout
        THEN UNCHANGED <<request, payout>>
        ELSE /\ payout' = payout \cup {r}
             /\ \E result \in {"COMPLETED", "FAILED"} : request' = [request EXCEPT ![r].status = result]
     /\ Ends(a, TRUE)
     /\ UNCHANGED <<rows, isNative, chain, purse, batch, lost, raced, trouble>>

(* Mutant of Resume: the amount of the order is taken for the one received. *)
ResumeAsOrdered(a) ==
  LET r == actor[a].req
      deps == IF actor[a].dep # 0 THEN {actor[a].dep} ELSE {rows[k].hash : k \in DepositsOf(r)}
  IN /\ At(a, "resume")
     /\ IF deps = {} \/ request[r].received = 0 \/ IsFinal(request[r].status)
        THEN Ends(a, TRUE)
        ELSE /\ \E dep \in deps :
                  Goes(a, [actor[a] EXCEPT !.at = "refund", !.key = NoKey, !.dep = dep,
                             !.status = request[r].status, !.received = Expected])
             /\ UNCHANGED answered
     /\ UNCHANGED <<request, rows, payout, isNative, chain, purse, batch, lost, raced, trouble>>

(* maybeResumePipelineAfterGasTopUp looks for the deposit of the request,
   maybeResumeClientDepositPipeline has it; both go on from the row. *)
Resume(a) ==
  LET r == actor[a].req
      deps == IF actor[a].dep # 0 THEN {actor[a].dep} ELSE {rows[k].hash : k \in DepositsOf(r)}
  IN /\ At(a, "resume")
     /\ IF deps = {} \/ request[r].received = 0 \/ IsFinal(request[r].status)
        THEN Ends(a, TRUE)
        ELSE /\ \E dep \in deps :
                  Goes(a, [actor[a] EXCEPT !.at = "refund", !.key = NoKey, !.dep = dep,
                             !.status = request[r].status, !.received = request[r].received])
             /\ UNCHANGED answered
     /\ UNCHANGED <<request, rows, payout, isNative, chain, purse, batch, lost, raced, trouble>>

(* ensureSideEffectIntent *)
EnsureIntent(k, r, amount) ==
  IF Known(k) THEN UNCHANGED rows ELSE WriteRow(k, Row(r, "CREATED", amount, 0, FALSE))

(* Mutant of HasHash: a broadcast that is not confirmed yet is made again. *)
HasConfirmed(k) == Known(k) /\ rows[k].status = "CONFIRMED"

HasHash(k) == Known(k) /\ rows[k].hash # 0

IsUnderpaid(received) == received < Expected

(* The row exists now; without a hash the sweep is next. *)
Sweeps(a, k) ==
  /\ Goes(a, [actor[a] EXCEPT !.at = "send", !.key = k])
  /\ Races(\E b \in Actors : actor[b].at \in {"send", "persist"} /\ actor[b].key = k, k)
  /\ UNCHANGED answered

AfterRefund(a) ==
  IF IsUnderpaid(actor[a].received) THEN Ends(a, TRUE)
  ELSE Goes(a, [actor[a] EXCEPT !.at = "transfer", !.key = NoKey, !.sent = 0, !.told = 0])
       /\ UNCHANGED answered

(* initiateRefundIfNeeded up to the sweep; without a sender it faults. *)
Refund(a) ==
  LET dep == actor[a].dep  k == Key("CLIENT_REFUND", dep)
      due == RefundDue(Expected, actor[a].received)
  IN /\ At(a, "refund")
     /\ \/ /\ due = 0
           /\ AfterRefund(a)
           /\ UNCHANGED <<rows, raced>>
        \/ /\ due # 0 /\ chain[dep].sort = "senderless"
           /\ Ends(a, FALSE)
           /\ UNCHANGED <<rows, raced>>
        \/ /\ due # 0 /\ chain[dep].sort # "senderless"
           /\ EnsureIntent(k, actor[a].req, due)
           /\ IF HasHash(k) THEN AfterRefund(a) /\ UNCHANGED raced ELSE Sweeps(a, k)
     /\ UNCHANGED <<request, payout, isNative, chain, purse, batch, lost, trouble>>

(* initiateTransferToExchangeIfNeeded up to the sweep. *)
Transfer(a) ==
  LET k == Key("TRANSFER_TO_BINANCE", actor[a].dep)
  IN /\ At(a, "transfer")
     /\ IF IsUnderpaid(actor[a].received)
        THEN Ends(a, TRUE) /\ UNCHANGED <<rows, raced>>
        ELSE /\ EnsureIntent(k, actor[a].req, Accepted(Expected, actor[a].received))
             /\ IF HasHash(k) THEN Ends(a, TRUE) /\ UNCHANGED raced ELSE Sweeps(a, k)
     /\ UNCHANGED <<request, payout, isNative, chain, purse, batch, lost, trouble>>

AmountOf(a) ==
  IF TypeOf(actor[a].key) = "CLIENT_REFUND"
  THEN RefundDue(Expected, actor[a].received) ELSE Accepted(Expected, actor[a].received)

Spent(result) ==
  IF result.status = "GAS_TOPUP_SENT" THEN [purse EXCEPT !.gas = @ - result.gas]
  ELSE IF isNative THEN [purse EXCEPT !.native = @ - result.sent - Fee]
  ELSE [purse EXCEPT !.token = @ - result.sent, !.native = @ - Fee]

(* performSweep: the transaction is on its way before the row says so. *)
Send(a) ==
  LET k == actor[a].key
      result == PerformSweep(SendsByKey, isNative, AmountOf(a), Fee,
                             purse.native, purse.token, purse.gas)
      topup == result.status = "GAS_TOPUP_SENT"
  IN /\ At(a, "send")
     /\ IF result.status = "ERROR"
        THEN Ends(a, FALSE) /\ UNCHANGED <<chain, purse>>
        ELSE /\ chain' = Append(chain, Entry(IF topup THEN "GAS_TOPUP" ELSE TypeOf(k), actor[a].dep,
                                             result.sent + result.gas, "pending", "own"))
             /\ purse' = Spent(result)
             /\ Goes(a, [actor[a] EXCEPT !.at = IF topup THEN "topup" ELSE "persist",
                                         !.sent = Len(chain) + 1, !.told = result.reported])
             /\ UNCHANGED answered
     /\ UNCHANGED <<request, rows, payout, isNative, batch, lost, raced, trouble>>

(* The hash and the status, which was read before the sweep.  txHash is
   unique: another row that has it makes the write fail. *)
Persist(a) ==
  LET k == actor[a].key
      next == IF TypeOf(k) = "CLIENT_REFUND" THEN "REFUND_PENDING" ELSE "PROCESSING"
  IN /\ At(a, "persist")
     /\ WithHash(actor[a].sent) \subseteq {k}
     /\ WriteRow(k, [rows[k] EXCEPT !.hash = actor[a].sent, !.status = "BROADCASTED",
                       !.amount = IF TypeOf(k) = "CLIENT_REFUND" THEN @ ELSE actor[a].told])
     /\ request' = [request EXCEPT ![actor[a].req].status = Advance(actor[a].status, next)]
     /\ IF TypeOf(k) = "CLIENT_REFUND" THEN AfterRefund(a) ELSE Ends(a, TRUE)
     /\ UNCHANGED <<payout, isNative, chain, purse, batch, lost, raced, trouble>>

(* handleGasTopUpResult: the first top-up of a step is the one that is
   watched.  A first delivery is answered 500, a repeated one 200. *)
TopUp(a) ==
  LET k == TopUpKey(actor[a].key)
  IN /\ At(a, "topup")
     /\ IF HasHash(k) THEN UNCHANGED rows
        ELSE WriteRow(k, Row(actor[a].req, "BROADCASTED", chain[actor[a].sent].amount, actor[a].sent, FALSE))
     /\ Ends(a, ~actor[a].first)
     /\ UNCHANGED <<request, payout, isNative, chain, purse, batch, lost, raced, trouble>>
-------------------------------------------------------------------------------
(* The transfer watcher: one tick, one row after another. *)

WatcherFetches ==
  /\ At(Watcher, "idle") /\ batch = {}
  /\ batch' = {<<k, rows[k].hash>> : k \in {x \in DOMAIN rows :
                 TypeOf(x) \in Watched /\ rows[x].status = "BROADCASTED"}}
  /\ batch' # {}
  /\ UNCHANGED <<request, rows, payout, isNative, chain, purse, actor, answered, lost, raced, trouble>>

(* Pending, or the call of the node failed. *)
WatcherSkips(x) ==
  /\ At(Watcher, "idle") /\ x \in batch
  /\ Trouble(IF chain[x[2]].state = "pending" THEN 0 ELSE 1)
  /\ batch' = batch \ {x}
  /\ UNCHANGED <<request, rows, payout, isNative, chain, purse, actor, answered, lost, raced>>

(* Mutants of WatcherConfirms: without a look at the chain, and without the
   resume of what waited for a top-up. *)
ConfirmsUnseen(x) ==
  LET k == x[1]  confirmed == [rows[k] EXCEPT !.status = "CONFIRMED"]
  IN /\ At(Watcher, "idle") /\ x \in batch
     /\ WriteRow(k, confirmed)
     /\ request' = AfterConfirmation(k, confirmed)
     /\ batch' = batch \ {x}
     /\ FollowsUp(Watcher, k, "CONFIRMED")
     /\ UNCHANGED <<payout, isNative, chain, purse, lost, raced, trouble>>

ConfirmsWithoutResume(x) ==
  LET k == x[1]  confirmed == [rows[k] EXCEPT !.status = "CONFIRMED"]
  IN /\ At(Watcher, "idle") /\ x \in batch
     /\ chain[x[2]].state = "confirmed"
     /\ WriteRow(k, confirmed)
     /\ request' = AfterConfirmation(k, confirmed)
     /\ batch' = batch \ {x}
     /\ UNCHANGED <<payout, isNative, chain, purse, actor, answered, lost, raced, trouble>>

(* markConfirmed writes by id, whatever the row has become since the fetch. *)
WatcherConfirms(x) ==
  LET k == x[1]  confirmed == [rows[k] EXCEPT !.status = "CONFIRMED"]
  IN /\ At(Watcher, "idle") /\ x \in batch
     /\ chain[x[2]].state = "confirmed"
     /\ WriteRow(k, confirmed)
     /\ request' = AfterConfirmation(k, confirmed)
     /\ batch' = batch \ {x}
     /\ FollowsUp(Watcher, k, "CONFIRMED")
     /\ UNCHANGED <<payout, isNative, chain, purse, lost, raced, trouble>>

(* markFailed *)
WatcherFails(x) ==
  /\ At(Watcher, "idle") /\ x \in batch
  /\ chain[x[2]].state = "failed"
  /\ WriteRow(x[1], [rows[x[1]] EXCEPT !.status = "FAILED"])
  /\ batch' = batch \ {x}
  /\ UNCHANGED <<request, payout, isNative, chain, purse, actor, answered, lost, raced, trouble>>

(* An await throws; what was not written yet is not written. *)
Throw(a) ==
  /\ Faulty /\ Trouble(1)
  /\ ~At(a, "idle")
  /\ lost' = IF At(a, "persist") THEN lost \cup {actor[a].key} ELSE lost
  /\ Ends(a, FALSE)
  /\ UNCHANGED <<request, rows, payout, isNative, chain, purse, batch, raced>>
-------------------------------------------------------------------------------
HandlerStep(d) ==
  IgnoreDirection(d) \/ FindRequest(d) \/ Stage(d) \/ Commit(d) \/ Merge(d)

SideEffectStep(a) ==
  Settle(a) \/ Resume(a) \/ Refund(a) \/ Transfer(a) \/ Send(a) \/ Persist(a) \/ TopUp(a)

WatcherStep ==
  WatcherFetches \/ \E x \in batch : WatcherSkips(x) \/ WatcherConfirms(x) \/ WatcherFails(x)

Next ==
  \/ \E amount \in Amounts, sort \in Sorts : ClientPays(amount, sort)
  \/ \E r \in Requests : RequestOpens(r) \/ RequestTimesOut(r)
  \/ \E h \in DOMAIN chain : ChainConfirms(h) \/ ChainReverts(h)
  \/ \E d \in Deliveries, h \in DOMAIN chain : Deliver(d, h)
  \/ \E d \in Deliveries : HandlerStep(d)
  \/ \E a \in Actors : SideEffectStep(a) \/ Throw(a)
  \/ WatcherStep

Spec == Init /\ [][Next]_vars

(* Workers go on when they can, the chain includes what was broadcast, and
   the sender of the events repeats one until it is answered with 200. *)
FairSpec ==
  /\ Spec
  /\ WF_vars(WatcherStep)
  /\ \A a \in Actors : WF_vars(SideEffectStep(a))
  /\ \A d \in Deliveries : WF_vars(HandlerStep(d))
  /\ WF_vars(\E h \in DOMAIN chain : ChainConfirms(h))
  /\ SF_vars(\E d \in Deliveries, h \in Payments : Needed(h) /\ Deliver(d, h))
-------------------------------------------------------------------------------
(* The types of the variables; what an address or the gas wallet holds is
   never below zero. *)
Keys ==
  {"NONE", "CLIENT_DEPOSIT", "CLIENT_REFUND", "TRANSFER_TO_BINANCE", "GAS_TOPUP"}
    \X {"", "CLIENT_REFUND", "TRANSFER_TO_BINANCE"} \X Nat

RowState ==
  [req : Requests, status : {"CREATED", "DETECTED", "BROADCASTED", "CONFIRMED", "FAILED"},
   amount : Nat, hash : Nat, filled : BOOLEAN]

Entries ==
  [type : {"PAYMENT", "CLIENT_REFUND", "TRANSFER_TO_BINANCE", "GAS_TOPUP"}, dep : Nat, amount : Nat,
   state : {"pending", "confirmed", "failed"}, sort : {"deposit", "senderless", "refused", "own"}]

ActorState ==
  [at : Steps, event : Nat, key : Keys, seen : {"same", "unconfirmed", "unfilled"},
   req : Requests \cup {NoReq}, status : Status \cup {"ABSENT"}, received : Nat, dep : Nat,
   sent : Nat, told : Nat, first : BOOLEAN]

TypeOK ==
  /\ request \in [Requests -> [status : Status \cup {"ABSENT"}, received : Nat, refunded : Nat]]
  /\ DOMAIN rows \subseteq Keys /\ rows \in [DOMAIN rows -> RowState]
  /\ payout \subseteq Requests /\ isNative \in BOOLEAN
  /\ chain \in Seq(Entries)
  /\ purse \in [native : Nat, token : Nat, gas : Nat]
  /\ actor \in [Actors -> ActorState]
  /\ batch \subseteq Keys \X Nat /\ answered \subseteq Payments
  /\ lost \subseteq Keys /\ raced \subseteq Keys

SendsOf(k) == {h \in DOMAIN chain : chain[h].type = TypeOf(k) /\ chain[h].dep = k[3]}
TopUpsOf(dep) == {h \in DOMAIN chain : chain[h].type = "GAS_TOPUP" /\ chain[h].dep = dep}
SweepRows == {k \in DOMAIN rows : TypeOf(k) \in {"CLIENT_REFUND", "TRANSFER_TO_BINANCE"}}
IsTransfer(k) == TypeOf(k) = "TRANSFER_TO_BINANCE"

(* A second payment to an address is not recorded as a second deposit of the
   request, unless two deliveries were between the read and the write of
   createClientDepositAtomically at once: it reads under READ COMMITTED. *)
OneDepositPerRequest ==
  \A r \in Requests : Cardinality(DepositsOf(r)) > 1 => DepositsOf(r) \cap raced # {}

(* The same refund or transfer leaves the deposit address twice only when
   the hash of the first was never written down (a throw between the sweep
   and the update), or when two actors were between the look for the hash
   and its write at once: a redelivery, the resume of the watcher. *)
SweptAgainOnlyAfterLoss ==
  \A k \in SweepRows : Cardinality(SendsOf(k)) > 1 => k \in lost \cup raced

(* An amount below the expected one is never swept to the exchange, by no
   path: first delivery, duplicate, resume of the watcher. *)
UnderpaidStaysOut ==
  \A h \in DOMAIN chain :
    chain[h].type = "TRANSFER_TO_BINANCE" =>
      \/ chain[chain[h].dep].amount >= Expected
      \/ \E k \in raced : TypeOf(k) = "CLIENT_DEPOSIT"

(* A request that says REFUNDED has a refund of all it received, and the
   chain confirmed one: a surplus that was paid back is not a full refund. *)
RefundedMeansPaidBack ==
  \A r \in Requests : request[r].status = "REFUNDED" =>
    \E k \in DOMAIN rows :
      /\ TypeOf(k) = "CLIENT_REFUND" /\ rows[k].req = r
      /\ rows[k].amount = request[r].received
      /\ \E h \in SendsOf(k) : chain[h].state = "confirmed"

(* The trade starts only for a request whose transfer to the exchange was
   included in the chain, whoever noticed it: watcher or webhook. *)
SettledIsBacked ==
  \A r \in payout : \E k \in DOMAIN rows :
    /\ IsTransfer(k) /\ rows[k].req = r
    /\ \E h \in SendsOf(k) : chain[h].state = "confirmed"

(* What DepositIsSettled leaves out, where it stays so for good: a sweep that was
   sent twice; a top-up sent beside the one its row has, which nobody
   watches; an address that has the required gas and nothing above it. *)
Disturbed ==
  \/ \E k \in SweepRows : Cardinality(SendsOf(k)) > 1
  \/ \E h \in DOMAIN chain : chain[h].type = "GAS_TOPUP" /\ WithHash(h) = {}
  \/ isNative /\ purse.native = RequiredGas(Fee)

HasSender(r) == \A k \in DepositsOf(r) : chain[rows[k].hash].sort # "senderless"

(* A recorded deposit with a known sender comes to its end: paid back when
   it is underpaid, otherwise sent to the exchange, where the trade starts,
   after the refund of a surplus and after the top-ups of both. *)
DepositIsSettled ==
  \A r \in Requests :
    request[r].status \in {"UNDERPAID", "OVERPAID", "DEPOSIT_DETECTED"} /\ HasSender(r) ~>
      \/ IF IsUnderpaid(request[r].received) THEN request[r].status = "REFUNDED" ELSE r \in payout
      \/ []Disturbed
-------------------------------------------------------------------------------
(* What makes the invariants inductive.  Row by row: a hash is one of a sweep
   of that row, a confirmation one of the chain, and a deposit is what its
   request says it received, as long as no two deposits were recorded. *)
SweepTypes  == {"CLIENT_REFUND", "TRANSFER_TO_BINANCE"}
PaidOut(k)  == \E h \in SendsOf(k) : chain[h].state = "confirmed"
DepositRace == \E k \in raced : TypeOf(k) = "CLIENT_DEPOSIT"

RowInv(k) ==
  /\ TypeOf(k) \in SweepTypes =>
       /\ k = Key(TypeOf(k), k[3])
       /\ rows[k].hash # 0 => rows[k].hash \in SendsOf(k)
       /\ rows[k].status = "BROADCASTED" => rows[k].hash # 0
       /\ rows[k].status = "CONFIRMED" => PaidOut(k)
  /\ TypeOf(k) = "CLIENT_DEPOSIT" =>
       /\ rows[k].hash \in DOMAIN chain /\ k = Key("CLIENT_DEPOSIT", rows[k].hash)
       /\ DepositRace \/ request[rows[k].req].received = chain[rows[k].hash].amount
  /\ TypeOf(k) = "GAS_TOPUP" => rows[k].hash # 0

(* Transaction by transaction: what was swept has a row and a deposit. *)
ChainInv(h) ==
  /\ chain[h].type \in SweepTypes =>
       Key(chain[h].type, chain[h].dep) \in DOMAIN rows /\ chain[h].dep \in DOMAIN chain
  /\ chain[h].type = "TRANSFER_TO_BINANCE" => DepositRace \/ chain[chain[h].dep].amount >= Expected

(* Actor by actor: what it carries fits its step. *)
Fits(a, me) ==
  /\ me.at \in {"lookup", "stage", "commit", "merge"} =>
       a \in Deliveries /\ me.event \in DOMAIN chain /\ chain[me.event].state = "confirmed"
  /\ me.at \in {"stage", "commit"} => me.req \in Requests
  /\ me.at = "commit" => me.status \in PollStatuses
  /\ me.at \in {"merge", "settle", "resume"} => me.key \in DOMAIN rows
  /\ me.at = "merge" /\ TypeOf(me.key) \in SweepTypes => me.event \in SendsOf(me.key)
  /\ me.at \in {"settle", "resume"} => me.req = rows[me.key].req
  /\ me.at = "resume" /\ me.dep # 0 => TypeOf(me.key) = "CLIENT_DEPOSIT" /\ me.dep = rows[me.key].hash
  /\ me.at = "settle" => IsTransfer(me.key) /\ PaidOut(me.key)
  /\ me.at \in {"refund", "transfer", "send", "persist", "topup"} =>
       /\ me.req \in Requests /\ ~IsFinal(me.status) /\ me.dep \in DOMAIN chain
       /\ DepositRace \/ me.received = chain[me.dep].amount
  /\ me.at \in {"send", "persist", "topup"} =>
       /\ TypeOf(me.key) \in SweepTypes /\ me.key = Key(TypeOf(me.key), me.dep) /\ me.key \in DOMAIN rows
       /\ IsTransfer(me.key) => me.received >= Expected
  /\ me.at = "persist" => me.sent \in SendsOf(me.key)
  /\ me.at = "topup" => me.sent \in DOMAIN chain

BatchInv ==
  \A x \in batch : x[1] \in DOMAIN rows /\ (TypeOf(x[1]) \in SweepTypes => x[2] \in SendsOf(x[1]))

(* Two deposits of a request, recorded or about to be: one of them was raced. *)
About(a) == Key("CLIENT_DEPOSIT", actor[a].event)

DepositsInv ==
  /\ \A r \in Requests : \A k, l \in DepositsOf(r) : k = l \/ k \in raced \/ l \in raced
  /\ \A a \in Actors : At(a, "commit") =>
       About(a) \in raced \/ \A l \in DepositsOf(actor[a].req) : l = About(a) \/ l \in raced
  /\ \A a, b \in Actors : At(a, "commit") /\ At(b, "commit") /\ actor[a].req = actor[b].req =>
       a = b \/ About(a) \in raced \/ About(b) \in raced

(* A sweep that nobody raced and whose hash was not lost: it is about to be
   sent, on its way to its row, or written there, by one actor and once. *)
On(a, k) == actor[a].at \in {"send", "persist"} /\ actor[a].key = k

SweepOf(k) ==
  /\ \A h, i \in SendsOf(k) : h = i
  /\ \A a, b \in Actors : On(a, k) /\ On(b, k) => a = b
  /\ \A a \in Actors : On(a, k) /\ At(a, "send") => SendsOf(k) = {}
  /\ SendsOf(k) # {} => rows[k].hash # 0 \/ \E a \in Actors : On(a, k) /\ At(a, "persist")

SweepInv == \A k \in SweepRows : k \in lost \cup raced \/ SweepOf(k)

WebhookInv ==
  /\ TypeOK
  /\ \A k \in DOMAIN rows : RowInv(k)
  /\ \A h \in DOMAIN chain : ChainInv(h)
  /\ \A a \in Actors : Fits(a, actor[a])
  /\ BatchInv /\ DepositsInv /\ SweepInv
  /\ RefundedMeansPaidBack /\ SettledIsBacked
===============================================================================
