---------------------------- MODULE DepositPipeline ----------------------------
(***************************************************************************)
(* The life of an exchange request whose deposit address is an HD wallet   *)
(* address (depositSource TATUM): creation, detection of the deposit by    *)
(* one of two pollers, sweep to the exchange (with a gas top-up when the   *)
(* address cannot pay its fee), confirmation by the transfer watcher, and  *)
(* the settlement that pays the client out.                                *)
(*                                                                         *)
(* One process runs all workers; they interleave at every await and meet   *)
(* only in the database and on the chain.  A worker's memory (snapshots of *)
(* rows, batches, cursors, the position of an async function) is lost in a *)
(* crash; the database, the chain and the exchange are not.                *)
(*                                                                         *)
(* Each action is one stretch of code between two awaits that touch shared *)
(* state; a database transaction is one action.  Notifications never throw *)
(* and write only to Redis and Telegram; they are left out.                *)
(***************************************************************************)
EXTENDS ExchangeStatus, FiniteSets

CONSTANTS
  Requests,         \* exchange requests, present or to come
  Deposits,         \* the payments clients may send, one transaction hash each
  DepositOf,        \* the request whose address a payment goes to
  AmountOf,         \* the amount of a payment
  Expected,         \* fromAmount of a request
  ToAmount,         \* toAmount of a request
  FeeAmount,        \* feeAmount of a request
  TxPolled,         \* requests on a chain family of TX_POLLING_FAMILIES
  PollConcurrency,  \* POLL_CONCURRENCY of the deposit poller
  NoHash,           \* txHash: null
  NoRow,            \* no row in hand
  Faults,           \* which failures the environment may inject
  MaxCrashes        \* bound: crashes of the process in one behaviour

FaultKinds == {"throw", "rpc", "revert", "aging"}

ASSUME RequestsAssumption ==
  /\ TxPolled \subseteq Requests
  /\ DepositOf \in [Deposits -> Requests]
  /\ AmountOf  \in [Deposits -> Nat \ {0}]
  /\ Expected  \in [Requests -> Nat \ {0}]
  /\ ToAmount  \in [Requests -> Nat]
  /\ FeeAmount \in [Requests -> Nat]

ASSUME BoundsAssumption ==
  /\ PollConcurrency \in Nat \ {0}
  /\ MaxCrashes \in Nat
  /\ Faults \subseteq FaultKinds
  /\ NoHash \notin Deposits
  /\ NoRow \notin {"TRANSFER", "TOPUP"} \X Requests

VARIABLES
  \* the database
  request,      \* status and receivedAmount of each ExchangeRequest
  recorded,     \* the CLIENT_DEPOSIT rows of each request
  transfer,     \* status of its TRANSFER_TO_BINANCE row
  topup,        \* status of its GAS_TOPUP row
  payout,       \* status of its CLIENT_PAYOUT row
  \* the chain and the exchange
  landed,       \* payments that are on the chain
  onchain,      \* balance of each deposit address in the deposited coin
  gas,          \* the address holds enough native coin to pay a fee
  chain,        \* what the chain says of the last broadcast of each kind
  swept,        \* how often a request's deposit was sent to the exchange
  withdrawals,  \* how many client withdrawals the exchange accepted
  \* time and failures
  aged,         \* requests older than DEPOSIT_TIMEOUT_HOURS
  old,          \* outgoing rows older than MAX_CONFIRMATION_AGE_MS
  crashes,
  \* the deposit poller
  dpExpired,    \* requests of the cycle still to be marked FAILED
  dpPending,    \* row snapshots of the cycle still to be checked
  \* the transaction poller
  cursorSet,    \* the in-memory block cursor exists
  scanned,      \* payments at or below the cursor
  txTargets,    \* row snapshots of the cycle, before the scan
  txFound,      \* deposits of the scan still to be processed
  \* processPolledDeposit, one per request at a time
  job,
  \* the transfer watcher
  twBatch,      \* rows of the tick still to be polled
  twHook,       \* confirmed row whose follow-up has not run yet
  \* settleConfirmedTransferToExchange
  settle

dbVars      == <<request, recorded, transfer, topup, payout>>
worldVars   == <<landed, onchain, gas, chain, swept, withdrawals>>
envVars     == <<aged, old, crashes>>
dpVars      == <<dpExpired, dpPending>>
txVars      == <<cursorSet, scanned, txTargets, txFound>>
twVars      == <<twBatch, twHook>>
memoryVars  == <<dpVars, txVars, job, twVars, settle>>
vars        == <<dbVars, worldVars, envVars, memoryVars>>
-------------------------------------------------------------------------------
(* Rows and values. *)

RowStatus  == {"NONE", "CREATED", "PENDING", "BROADCASTED", "CONFIRMED", "FAILED"}
ChainState == {"none", "pending", "confirmed", "failed"}
Outgoing   == {"TRANSFER", "TOPUP"} \X Requests     \* the rows the watcher follows

DepositRow == [hash : Deposits \cup {NoHash}, amount : Nat]

(* A request as findMany returned it: later writes do not show in it. *)
RowSnapshot == [req : Requests, status : Status, deposited : BOOLEAN]

SnapshotOf(r) ==
  [req |-> r, status |-> request[r].status, deposited |-> recorded[r] # {}]

Found == [row : RowSnapshot, dep : Deposits]

JobSteps == {"idle", "record", "intent", "sweep", "persist", "topupIntent", "topupPersist"}
Job      == [pc : JobSteps, status : Status, amount : Nat, hash : Deposits \cup {NoHash}]
IdleJob  == [pc |-> "idle", status |-> "CREATED", amount |-> 0, hash |-> NoHash]

SettleSteps == {"idle", "start", "intent", "acquire", "execute", "finalize", "fail"}

(* rawPayload of a polled deposit, and what the resume path asks of it. *)
PolledPayload    == {"source", "detectedAt", "txHash"}
ResumablePayload == {"address", "amount", "txId"}

Exists(r)     == request[r].status # "ABSENT"
Active        == {r \in Requests : request[r].status \in PollStatuses}
AcceptedOf(r) == Accepted(Expected[r], request[r].received)
HasHash(row)  == row \notin {"NONE", "CREATED"}
OutgoingRow(x) == IF x[1] = "TRANSFER" THEN transfer[x[2]] ELSE topup[x[2]]

WriteStatus(r, status) == request' = [request EXCEPT ![r].status = status]

WriteOutgoing(x, status) ==
  IF x[1] = "TRANSFER"
  THEN transfer' = [transfer EXCEPT ![x[2]] = status] /\ UNCHANGED topup
  ELSE topup' = [topup EXCEPT ![x[2]] = status] /\ UNCHANGED transfer

TypeOK ==
  /\ request  \in [Requests -> [status : Status \cup {"ABSENT"}, received : Nat]]
  /\ recorded \in [Requests -> SUBSET DepositRow]
  /\ transfer \in [Requests -> RowStatus]
  /\ topup    \in [Requests -> RowStatus]
  /\ payout   \in [Requests -> RowStatus]
  /\ landed \subseteq Deposits
  /\ onchain \in [Requests -> Nat]
  /\ gas     \in [Requests -> BOOLEAN]
  /\ chain   \in [Outgoing -> ChainState]
  /\ swept   \in [Requests -> Nat]
  /\ withdrawals \in [Requests -> Nat]
  /\ aged \subseteq Requests
  /\ old \subseteq Outgoing
  /\ crashes \in Nat
  /\ dpExpired \subseteq Requests
  /\ dpPending \subseteq RowSnapshot
  /\ cursorSet \in BOOLEAN
  /\ scanned \subseteq Deposits
  /\ txTargets \subseteq RowSnapshot
  /\ txFound \subseteq Found
  /\ job \in [Requests -> Job]
  /\ twBatch \subseteq Outgoing
  /\ twHook \in Outgoing \cup {NoRow}
  /\ settle \in [Requests -> SettleSteps]

Init ==
  /\ request  = [r \in Requests |-> [status |-> "ABSENT", received |-> 0]]
  /\ recorded = [r \in Requests |-> {}]
  /\ transfer = [r \in Requests |-> "NONE"]
  /\ topup    = [r \in Requests |-> "NONE"]
  /\ payout   = [r \in Requests |-> "NONE"]
  /\ landed  = {}
  /\ onchain = [r \in Requests |-> 0]
  /\ gas \in [Requests -> BOOLEAN]
  /\ chain   = [x \in Outgoing |-> "none"]
  /\ swept   = [r \in Requests |-> 0]
  /\ withdrawals = [r \in Requests |-> 0]
  /\ aged = {} /\ old = {} /\ crashes = 0
  /\ dpExpired = {} /\ dpPending = {}
  /\ cursorSet = FALSE /\ scanned = {} /\ txTargets = {} /\ txFound = {}
  /\ job = [r \in Requests |-> IdleJob]
  /\ twBatch = {} /\ twHook = NoRow
  /\ settle = [r \in Requests |-> "idle"]
-------------------------------------------------------------------------------
(* The environment: clients, the chain and the clock. *)

(* createRequest stores the row once the address and the quote are known. *)
CreateRequest(r) ==
  /\ ~Exists(r)
  /\ WriteStatus(r, "CREATED")
  /\ UNCHANGED <<recorded, transfer, topup, payout, worldVars, envVars, memoryVars>>

(* A payment reaches the address; the client may pay late or twice. *)
ClientPays(d) ==
  /\ Exists(DepositOf[d])
  /\ d \notin landed
  /\ landed' = landed \cup {d}
  /\ onchain' = [onchain EXCEPT ![DepositOf[d]] = @ + AmountOf[d]]
  /\ UNCHANGED <<dbVars, gas, chain, swept, withdrawals, envVars, memoryVars>>

RequestAges(r) ==
  /\ Exists(r)
  /\ r \notin aged
  /\ aged' = aged \cup {r}
  /\ UNCHANGED <<dbVars, worldVars, old, crashes, memoryVars>>

OutgoingAges(x) ==
  /\ "aging" \in Faults
  /\ OutgoingRow(x) = "BROADCASTED"
  /\ x \notin old
  /\ old' = old \cup {x}
  /\ UNCHANGED <<dbVars, worldVars, aged, crashes, memoryVars>>

ChainConfirms(x) ==
  /\ chain[x] = "pending"
  /\ chain' = [chain EXCEPT ![x] = "confirmed"]
  /\ gas' = IF x[1] = "TOPUP" THEN [gas EXCEPT ![x[2]] = TRUE] ELSE gas
  /\ UNCHANGED <<dbVars, landed, onchain, swept, withdrawals, envVars, memoryVars>>

(* A reverted sweep leaves its amount at the deposit address. *)
ChainReverts(x) ==
  /\ "revert" \in Faults
  /\ chain[x] = "pending"
  /\ chain' = [chain EXCEPT ![x] = "failed"]
  /\ onchain' = IF x[1] = "TRANSFER"
                THEN [onchain EXCEPT ![x[2]] = @ + AcceptedOf(x[2])] ELSE onchain
  /\ UNCHANGED <<dbVars, landed, gas, swept, withdrawals, envVars, memoryVars>>
-------------------------------------------------------------------------------
(* The deposit poller: one cycle at a time. *)

Running(S) == {r \in S : job[r].pc # "idle"}

(* Faulty: the cycle ends without waiting for the pool's jobs. *)
PoolNotAwaited == dpExpired = {} /\ dpPending = {}

(* isRunning: a cycle starts when the last one has returned. *)
DepositPollerIdle ==
  dpExpired = {} /\ dpPending = {} /\ Running(Requests \ TxPolled) = {}

(* findMany, then the split into expired and pending rows. *)
DpPoll ==
  /\ DepositPollerIdle
  /\ Active # {}
  /\ dpExpired' = Active \cap aged
  /\ dpPending' = {SnapshotOf(r) : r \in Active \ aged}
  /\ UNCHANGED <<dbVars, worldVars, envVars, txVars, job, twVars, settle>>

(* markRequestFailed writes FAILED whatever the row has become. *)
DpExpire(r) ==
  /\ r \in dpExpired
  /\ dpExpired' = dpExpired \ {r}
  /\ WriteStatus(r, "FAILED")
  /\ UNCHANGED <<recorded, transfer, topup, payout, worldVars, envVars,
                 dpPending, txVars, job, twVars, settle>>

(* allSettled: a row that could not be marked waits for the next cycle. *)
DpExpireFails(r) ==
  /\ "throw" \in Faults
  /\ r \in dpExpired
  /\ dpExpired' = dpExpired \ {r}
  /\ UNCHANGED <<dbVars, worldVars, envVars, dpPending, txVars, job, twVars, settle>>

(* Faulty: a worker returns after one row; with fewer workers than rows the
   rest of the cycle's rows is not looked at. *)
PoolTakesAndReturns(s) ==
  /\ dpExpired = {}
  /\ s \in dpPending
  /\ Cardinality(Running(Requests \ TxPolled)) < PollConcurrency
  /\ dpPending' = {}

(* A worker of the pool takes a row when all expired ones are done. *)
PoolTakes(s) ==
  /\ dpExpired = {}
  /\ s \in dpPending
  /\ Cardinality(Running(Requests \ TxPolled)) < PollConcurrency
  /\ dpPending' = dpPending \ {s}

(* No deposit to process: other poller's chain, no balance, RPC error. *)
DpSkip(s) ==
  /\ PoolTakes(s)
  /\ \/ s.req \in TxPolled
     \/ onchain[s.req] = 0
     \/ s.deposited
     \/ "rpc" \in Faults
  /\ UNCHANGED <<dbVars, worldVars, envVars, dpExpired, txVars, job, twVars, settle>>

(* checkTatumDeposit found a balance: the whole of it is the deposit. *)
DpDetect(s) ==
  /\ PoolTakes(s)
  /\ s.req \notin TxPolled
  /\ onchain[s.req] > 0
  /\ ~s.deposited
  /\ job' = [job EXCEPT ![s.req] =
       [pc |-> "record", status |-> s.status, amount |-> onchain[s.req], hash |-> NoHash]]
  /\ UNCHANGED <<dbVars, worldVars, envVars, dpExpired, txVars, twVars, settle>>
-------------------------------------------------------------------------------
(* The transaction poller: one cycle at a time, here with one chain. *)

TxPollerIdle == txTargets = {} /\ txFound = {} /\ Running(TxPolled) = {}

TxPoll ==
  /\ TxPollerIdle
  /\ Active \cap TxPolled # {}
  /\ txTargets' = {SnapshotOf(r) : r \in Active \cap TxPolled}
  /\ UNCHANGED <<dbVars, worldVars, envVars, dpVars, cursorSet, scanned, txFound,
                 job, twVars, settle>>

(* First scan of this process: the cursor starts at the tip. *)
TxInitCursor ==
  /\ txTargets # {}
  /\ ~cursorSet
  /\ cursorSet' = TRUE
  /\ scanned' = landed
  /\ txTargets' = {}
  /\ UNCHANGED <<dbVars, worldVars, envVars, dpVars, txFound, job, twVars, settle>>

(* The cursor moves before any of the deposits found is processed. *)
TxScan ==
  /\ txTargets # {}
  /\ cursorSet
  /\ scanned' = landed
  /\ txFound' = {f \in [row : txTargets, dep : landed \ scanned] :
                   DepositOf[f.dep] = f.row.req}
  /\ txTargets' = {}
  /\ UNCHANGED <<dbVars, worldVars, envVars, dpVars, cursorSet, job, twVars, settle>>

TxScanFails ==
  /\ "rpc" \in Faults
  /\ txTargets # {}
  /\ txTargets' = {}
  /\ UNCHANGED <<dbVars, worldVars, envVars, dpVars, cursorSet, scanned, txFound,
                 job, twVars, settle>>

HashRecorded(h) == \E r \in Requests : \E row \in recorded[r] : row.hash = h

(* Deposits of a scan are processed one after the other. *)
TxTake(f) ==
  /\ f \in txFound
  /\ Running(TxPolled) = {}
  /\ txFound' = txFound \ {f}
  /\ job' = IF f.row.deposited \/ HashRecorded(f.dep) THEN job
            ELSE [job EXCEPT ![f.row.req] =
                   [pc |-> "record", status |-> f.row.status,
                    amount |-> AmountOf[f.dep], hash |-> f.dep]]
  /\ UNCHANGED <<dbVars, worldVars, envVars, dpVars, cursorSet, scanned, txTargets,
                 twVars, settle>>
-------------------------------------------------------------------------------
(* processPolledDeposit and initiateTransferToExchangeIfNeeded. *)

Goto(r, step) == job' = [job EXCEPT ![r].pc = step]
Return(r)     == job' = [job EXCEPT ![r] = IdleJob]

(* Faulty: an overpaid deposit stops as an underpaid one does. *)
RecordExactOnly(r) ==
  /\ job[r].pc = "record"
  /\ recorded[r] = {}
  /\ LET j == job[r] IN
     /\ recorded' = [recorded EXCEPT ![r] = {[hash |-> j.hash, amount |-> j.amount]}]
     /\ request' = [request EXCEPT ![r] =
          [status   |-> Advance(j.status, ClassifiedStatus(Expected[r], j.amount)),
           received |-> j.amount]]
     /\ IF Kind(Expected[r], j.amount) = "exact" THEN Goto(r, "intent") ELSE Return(r)
  /\ UNCHANGED <<transfer, topup, payout, worldVars, envVars, dpVars, txVars, twVars, settle>>

(* Faulty: the transaction does not look for an earlier deposit of the request. *)
RecordAgain(r) ==
  /\ job[r].pc = "record"
  /\ LET j == job[r] IN
     /\ recorded' = [recorded EXCEPT ![r] = @ \cup {[hash |-> j.hash, amount |-> j.amount]}]
     /\ request' = [request EXCEPT ![r] =
          [status   |-> Advance(j.status, ClassifiedStatus(Expected[r], j.amount)),
           received |-> j.amount]]
     /\ IF Kind(Expected[r], j.amount) = "underpaid" THEN Return(r) ELSE Goto(r, "intent")
  /\ UNCHANGED <<transfer, topup, payout, worldVars, envVars, dpVars, txVars, twVars, settle>>

(* The recording transaction; its status comes from the caller's snapshot. *)
JobRecord(r) ==
  /\ job[r].pc = "record"
  /\ IF recorded[r] # {}
     THEN Return(r) /\ UNCHANGED <<request, recorded>>
     ELSE LET j == job[r] IN
          /\ recorded' = [recorded EXCEPT ![r] = @ \cup {[hash |-> j.hash, amount |-> j.amount]}]
          /\ request' = [request EXCEPT ![r] =
               [status   |-> Advance(j.status, ClassifiedStatus(Expected[r], j.amount)),
                received |-> j.amount]]
          /\ IF Kind(Expected[r], j.amount) = "underpaid"
             THEN Return(r) ELSE Goto(r, "intent")
  /\ UNCHANGED <<transfer, topup, payout, worldVars, envVars, dpVars, txVars, twVars, settle>>

(* The early returns of the transfer: too little came, or a hash is there. *)
NothingToSend(r) ==
  Kind(Expected[r], job[r].amount) = "underpaid" \/ HasHash(transfer[r])

(* Re-read the request, resolve the destination, find or create the intent. *)
JobIntent(r) ==
  /\ job[r].pc = "intent"
  /\ IF NothingToSend(r)
     THEN Return(r) /\ UNCHANGED transfer
     ELSE /\ transfer' = [transfer EXCEPT ![r] = "CREATED"]
          /\ job' = [job EXCEPT ![r].pc = "sweep", ![r].status = request[r].status]
  /\ UNCHANGED <<request, recorded, topup, payout, worldVars, envVars, dpVars, txVars,
                 twVars, settle>>

(* performSweep broadcasts the accepted amount.  The request is on a chain
   whose family sends with a private key alone; on the others performSweep
   answers with an ERROR, which is JobThrows. *)
JobSweep(r) ==
  /\ job[r].pc = "sweep"
  /\ gas[r]
  /\ onchain[r] >= AcceptedOf(r)
  /\ onchain' = [onchain EXCEPT ![r] = @ - AcceptedOf(r)]
  /\ swept' = [swept EXCEPT ![r] = @ + 1]
  /\ chain' = [chain EXCEPT ![<<"TRANSFER", r>>] = "pending"]
  /\ Goto(r, "persist")
  /\ UNCHANGED <<dbVars, landed, gas, withdrawals, envVars, dpVars, txVars, twVars, settle>>

(* ... or the gas wallet pays for the fee first and the sweep is put off. *)
JobTopUp(r) ==
  /\ job[r].pc = "sweep"
  /\ ~gas[r]
  /\ chain' = [chain EXCEPT ![<<"TOPUP", r>>] = "pending"]
  /\ Goto(r, "topupIntent")
  /\ UNCHANGED <<dbVars, landed, onchain, gas, swept, withdrawals, envVars, dpVars, txVars,
                 twVars, settle>>

(* Faulty: the transaction's status is written to the request. *)
PersistWrongStatus(r) ==
  /\ job[r].pc = "persist"
  /\ transfer' = [transfer EXCEPT ![r] = "BROADCASTED"]
  /\ WriteStatus(r, "BROADCASTED")
  /\ Return(r)
  /\ UNCHANGED <<recorded, topup, payout, worldVars, envVars, dpVars, txVars, twVars, settle>>

(* The broadcast is written down; the status read by JobIntent advances. *)
JobPersist(r) ==
  /\ job[r].pc = "persist"
  /\ transfer' = [transfer EXCEPT ![r] = "BROADCASTED"]
  /\ WriteStatus(r, Advance(job[r].status, "PROCESSING"))
  /\ Return(r)
  /\ UNCHANGED <<recorded, topup, payout, worldVars, envVars, dpVars, txVars, twVars, settle>>

JobTopUpIntent(r) ==
  /\ job[r].pc = "topupIntent"
  /\ topup' = [topup EXCEPT ![r] = IF @ = "NONE" THEN "CREATED" ELSE @]
  /\ Goto(r, "topupPersist")
  /\ UNCHANGED <<request, recorded, transfer, payout, worldVars, envVars, dpVars, txVars,
                 twVars, settle>>

JobTopUpPersist(r) ==
  /\ job[r].pc = "topupPersist"
  /\ topup' = [topup EXCEPT ![r] = IF HasHash(@) THEN @ ELSE "BROADCASTED"]
  /\ Return(r)
  /\ UNCHANGED <<request, recorded, transfer, payout, worldVars, envVars, dpVars, txVars,
                 twVars, settle>>

(* Faulty: what threw past the recording is tried again from the intent on. *)
ThrowsAndRetries(r) ==
  /\ "throw" \in Faults
  /\ job[r].pc \notin {"idle", "record"}
  /\ Goto(r, "intent")
  /\ UNCHANGED <<dbVars, worldVars, envVars, dpVars, txVars, twVars, settle>>

(* Any await may throw; the poller logs the error and forgets the deposit. *)
JobThrows(r) ==
  /\ "throw" \in Faults
  /\ job[r].pc # "idle"
  /\ Return(r)
  /\ UNCHANGED <<dbVars, worldVars, envVars, dpVars, txVars, twVars, settle>>
-------------------------------------------------------------------------------
(* The transfer watcher: one tick at a time, one row after the other. *)

(* findBroadcastedTransactions. *)
TwFetch ==
  /\ twBatch = {} /\ twHook = NoRow
  /\ twBatch' = {x \in Outgoing : OutgoingRow(x) = "BROADCASTED"} \ old
  /\ twBatch' # {}
  /\ UNCHANGED <<dbVars, worldVars, envVars, dpVars, txVars, job, twHook, settle>>

TwTakes(x) ==
  /\ twHook = NoRow
  /\ x \in twBatch
  /\ twBatch' = twBatch \ {x}

TwPending(x) ==
  /\ TwTakes(x)
  /\ chain[x] = "pending" \/ "rpc" \in Faults
  /\ UNCHANGED <<dbVars, worldVars, envVars, dpVars, txVars, job, twHook, settle>>

(* Faulty: a reverted row gets the follow-up of a confirmed one. *)
FailedFollowsUp(x) ==
  /\ TwTakes(x)
  /\ chain[x] = "failed"
  /\ WriteOutgoing(x, "FAILED")
  /\ twHook' = x
  /\ UNCHANGED <<request, recorded, payout, worldVars, envVars, dpVars, txVars, job, settle>>

(* markFailed touches the transaction row only. *)
TwFailed(x) ==
  /\ TwTakes(x)
  /\ chain[x] = "failed"
  /\ WriteOutgoing(x, "FAILED")
  /\ UNCHANGED <<request, recorded, payout, worldVars, envVars, dpVars, txVars, job,
                 twHook, settle>>

(* markConfirmed and updateRequestFromConfirmedInternalTransaction. *)
TwConfirmed(x) ==
  /\ TwTakes(x)
  /\ chain[x] = "confirmed"
  /\ WriteOutgoing(x, "CONFIRMED")
  /\ IF x[1] = "TRANSFER" /\ ~IsFinal(request[x[2]].status)
     THEN WriteStatus(x[2], Advance(request[x[2]].status, "PROCESSING"))
     ELSE UNCHANGED request
  /\ twHook' = x
  /\ UNCHANGED <<recorded, payout, worldVars, envVars, dpVars, txVars, job, settle>>

(* A database error while a row is written down ends the whole tick. *)
TwTickFails ==
  /\ "throw" \in Faults
  /\ twHook = NoRow
  /\ twBatch # {}
  /\ twBatch' = {}
  /\ UNCHANGED <<dbVars, worldVars, envVars, dpVars, txVars, job, twHook, settle>>

(* Can the pipeline restart from the payload of the stored deposit?  Then
   only an exact deposit goes on: a refund needs the sender's address. *)
Resumes(r) ==
  /\ recorded[r] # {}
  /\ ResumablePayload \subseteq PolledPayload
  /\ ~IsFinal(request[r].status)

ResumedJob(r) ==
  [pc     |-> IF Kind(Expected[r], request[r].received) = "exact" THEN "intent" ELSE "idle",
   status |-> request[r].status, amount |-> request[r].received, hash |-> NoHash]

(* Faulty: the settlement of a confirmed transfer is not started. *)
FollowUpForgotten ==
  /\ twHook # NoRow
  /\ twHook' = NoRow
  /\ UNCHANGED <<dbVars, worldVars, envVars, dpVars, txVars, twBatch, job, settle>>

(* After the commit: start the settlement, or resume after a top-up. *)
TwFollowUp ==
  /\ twHook # NoRow
  /\ twHook' = NoRow
  /\ IF twHook[1] = "TRANSFER"
     THEN settle' = [settle EXCEPT ![twHook[2]] = "start"] /\ UNCHANGED job
     ELSE /\ job' = IF Resumes(twHook[2])
                    THEN [job EXCEPT ![twHook[2]] = ResumedJob(twHook[2])] ELSE job
          /\ UNCHANGED settle
  /\ UNCHANGED <<dbVars, worldVars, envVars, dpVars, txVars, twBatch>>
-------------------------------------------------------------------------------
(* settleConfirmedTransferToExchange, started and not awaited. *)

SettleGoto(r, step) == settle' = [settle EXCEPT ![r] = step]

SettleBegin(r) ==
  /\ settle[r] = "start"
  /\ SettleGoto(r, IF IsFinal(request[r].status) THEN "idle" ELSE "intent")
  /\ UNCHANGED <<dbVars, worldVars, envVars, dpVars, txVars, job, twVars>>

(* ensureClientPayoutIntent: the payout row, unless it is there already. *)
SettleIntent(r) ==
  /\ settle[r] = "intent"
  /\ PayoutIsLegal(ToAmount[r], FeeAmount[r])
  /\ payout' = [payout EXCEPT ![r] = IF @ = "NONE" THEN "CREATED" ELSE @]
  /\ SettleGoto(r, IF payout[r] = "CONFIRMED" THEN "idle" ELSE "acquire")
  /\ UNCHANGED <<request, recorded, transfer, topup, worldVars, envVars, dpVars, txVars,
                 job, twVars>>

(* Its first catch: a negative payout or a lost row fails the request. *)
SettleIntentFails(r) ==
  /\ settle[r] = "intent"
  /\ "throw" \in Faults \/ ~PayoutIsLegal(ToAmount[r], FeeAmount[r])
  /\ WriteStatus(r, "FAILED")
  /\ SettleGoto(r, "idle")
  /\ UNCHANGED <<recorded, transfer, topup, payout, worldVars, envVars, dpVars, txVars,
                 job, twVars>>

(* acquireClientPayoutExecution: compare-and-set on the payout row. *)
SettleAcquire(r) ==
  /\ settle[r] = "acquire"
  /\ IF payout[r] \in {"CREATED", "FAILED"}
     THEN payout' = [payout EXCEPT ![r] = "PENDING"] /\ SettleGoto(r, "execute")
     ELSE SettleGoto(r, "idle") /\ UNCHANGED payout
  /\ UNCHANGED <<request, recorded, transfer, topup, worldVars, envVars, dpVars, txVars,
                 job, twVars>>

(* executeSettlement returns after the exchange accepted the withdrawal. *)
SettleWithdraws(r) ==
  /\ settle[r] = "execute"
  /\ withdrawals' = [withdrawals EXCEPT ![r] = @ + 1]
  /\ SettleGoto(r, "finalize")
  /\ UNCHANGED <<dbVars, landed, onchain, gas, chain, swept, envVars, dpVars, txVars,
                 job, twVars>>

(* The withdrawal fails, with its answer lost perhaps, and goes on there. *)
RefusedThen(r, step) ==
  /\ settle[r] = "execute"
  /\ withdrawals' \in {withdrawals} \cup
       (IF "throw" \in Faults THEN {[withdrawals EXCEPT ![r] = @ + 1]} ELSE {})
  /\ SettleGoto(r, step)
  /\ UNCHANGED <<dbVars, landed, onchain, gas, chain, swept, envVars, dpVars, txVars,
                 job, twVars>>

(* Faulty: a withdrawal that failed is tried again. *)
RefusedRetries(r) == RefusedThen(r, "execute")

(* Faulty: the exception of a refused withdrawal is swallowed. *)
RefusedSwallowed(r) == RefusedThen(r, "finalize")

(* executeSettlement throws: before the withdrawal, or with its answer lost. *)
SettleRefused(r) == RefusedThen(r, "fail")

SettleFinalize(r) ==
  /\ settle[r] = "finalize"
  /\ payout' = [payout EXCEPT ![r] = "CONFIRMED"]
  /\ WriteStatus(r, "COMPLETED")
  /\ SettleGoto(r, "idle")
  /\ UNCHANGED <<recorded, transfer, topup, worldVars, envVars, dpVars, txVars, job, twVars>>

SettleFail(r) ==
  /\ settle[r] = "fail"
  /\ payout' = [payout EXCEPT ![r] = "FAILED"]
  /\ WriteStatus(r, "FAILED")
  /\ SettleGoto(r, "idle")
  /\ UNCHANGED <<recorded, transfer, topup, worldVars, envVars, dpVars, txVars, job, twVars>>

(* A database error: finalize falls into the second catch; a catch that
   cannot write, and a step outside both, ends the settlement. *)
SettleThrows(r) ==
  /\ "throw" \in Faults
  /\ settle[r] \in {"start", "intent", "acquire", "finalize", "fail"}
  /\ SettleGoto(r, IF settle[r] = "finalize" THEN "fail" ELSE "idle")
  /\ UNCHANGED <<dbVars, worldVars, envVars, dpVars, txVars, job, twVars>>
-------------------------------------------------------------------------------
(* The process dies and is started again; nothing in memory survives. *)
Crash ==
  /\ crashes < MaxCrashes
  /\ crashes' = crashes + 1
  /\ dpExpired' = {} /\ dpPending' = {}
  /\ cursorSet' = FALSE /\ scanned' = {} /\ txTargets' = {} /\ txFound' = {}
  /\ job' = [r \in Requests |-> IdleJob]
  /\ twBatch' = {} /\ twHook' = NoRow
  /\ settle' = [r \in Requests |-> "idle"]
  /\ UNCHANGED <<dbVars, worldVars, aged, old>>

Client  == \/ \E r \in Requests : CreateRequest(r) \/ RequestAges(r)
           \/ \E d \in Deposits : ClientPays(d)

Chain   == \E x \in Outgoing : ChainConfirms(x) \/ ChainReverts(x) \/ OutgoingAges(x)

DepositPoller ==
  \/ DpPoll
  \/ \E r \in dpExpired : DpExpire(r) \/ DpExpireFails(r)
  \/ \E s \in dpPending : DpSkip(s) \/ DpDetect(s)

TxPoller == TxPoll \/ TxInitCursor \/ TxScan \/ TxScanFails \/ \E f \in txFound : TxTake(f)

JobStep(r) ==
  \/ JobRecord(r) \/ JobIntent(r) \/ JobSweep(r) \/ JobTopUp(r) \/ JobPersist(r)
  \/ JobTopUpIntent(r) \/ JobTopUpPersist(r) \/ JobThrows(r)

Watcher ==
  \/ TwFetch \/ TwFollowUp \/ TwTickFails
  \/ \E x \in twBatch : TwPending(x) \/ TwFailed(x) \/ TwConfirmed(x)

SettleStep(r) ==
  \/ SettleBegin(r) \/ SettleIntent(r) \/ SettleIntentFails(r) \/ SettleAcquire(r)
  \/ SettleWithdraws(r) \/ SettleRefused(r) \/ SettleFinalize(r) \/ SettleFail(r)
  \/ SettleThrows(r)

Next ==
  \/ Client \/ Chain \/ DepositPoller \/ TxPoller \/ Watcher \/ Crash
  \/ \E r \in Requests : JobStep(r) \/ SettleStep(r)

Spec == Init /\ [][Next]_vars

(* Every worker is rescheduled by setInterval and every call it awaits
   returns; the chain decides about every broadcast. *)
Fairness ==
  /\ WF_vars(DepositPoller) /\ WF_vars(TxPoller) /\ WF_vars(Watcher)
  /\ \A r \in Requests : WF_vars(JobStep(r)) /\ WF_vars(SettleStep(r))
  /\ \A x \in Outgoing : WF_vars(ChainConfirms(x))

FairSpec == Spec /\ Fairness
-------------------------------------------------------------------------------
(* Properties. *)

(* A deposit is sent to the exchange at most once: a crash, an error or a
   second payment never makes transfer.ts broadcast a second sweep. *)
SweptAtMostOnce == \A r \in Requests : swept[r] <= 1

(* The exchange accepts at most one client withdrawal per request, also
   when settlement.ts never learns that it was accepted. *)
PaidAtMostOnce == \A r \in Requests : withdrawals[r] <= 1

(* The client is paid only from a deposit that reached the exchange: the
   sweep happened, the chain confirmed it, and the recorded deposit covers
   fromAmount. *)
PayoutIsBacked ==
  \A r \in Requests : withdrawals[r] > 0 =>
    /\ swept[r] > 0
    /\ chain[<<"TRANSFER", r>>] = "confirmed"
    /\ request[r].received >= Expected[r]

(* What finalizeExchangeSettlement reports is true: a COMPLETED request and
   a CONFIRMED payout row stand for an accepted withdrawal. *)
CompletionOf(r) ==
  request[r].status = "COMPLETED" \/ payout[r] = "CONFIRMED" =>
    withdrawals[r] > 0 /\ payout[r] = "CONFIRMED"

CompletionIsTrue == \A r \in Requests : CompletionOf(r)

(* The ledger holds one CLIENT_DEPOSIT row per request, and receivedAmount
   is its amount, whichever poller found it and however often. *)
LedgerOf(r) ==
  \/ recorded[r] = {} /\ request[r].received = 0
  \/ \E row \in recorded[r] :
       recorded[r] = {row} /\ request[r].received = row.amount

LedgerMatchesRequest == \A r \in Requests : LedgerOf(r)

(* A deposit below the expected amount stays at its address: no intent, no
   sweep, no top-up for it, whichever of the two guards of the code stops it. *)
UnderpaidStaysPut ==
  \A r \in Requests :
    recorded[r] # {} /\ request[r].received < Expected[r] =>
      transfer[r] = "NONE" /\ topup[r] = "NONE" /\ swept[r] = 0

(* The pipeline keeps the promise of ExchangePromise: in every behaviour
   the money of a request is credited, sent on and paid in that order, each
   once, whatever the workers, the failures and the crashes do. *)
Promise ==
  INSTANCE ExchangePromise
    WITH received <- [r \in Requests |-> request[r].received],
         sent     <- swept,
         paid     <- withdrawals

PromiseKept == Promise!Spec

(* A request only the deposit poller looks at never moves back and never
   leaves a final status: its expiry and its deposit are handled in turn. *)
BalancePolledMovesForward ==
  [][\A r \in Requests \ TxPolled : Exists(r) =>
       request'[r].status = Advance(request[r].status, request'[r].status)]_vars

(* A sweep that was written down reaches the end: the watcher confirms it
   and the settlement leaves the request in a final status. *)
BroadcastTransferSettles ==
  \A r \in Requests :
    transfer[r] = "BROADCASTED" ~> Exists(r) /\ IsFinal(request[r].status)

(* An accepted deposit, exact or overpaid, is swept when its address can
   pay the fee. *)
AcceptedDepositIsSwept ==
  \A r \in Requests :
    /\ recorded[r] # {} /\ request[r].received >= Expected[r]
    /\ gas[r] /\ chain[<<"TOPUP", r>>] = "none"
    ~> HasHash(transfer[r])

(* A payment that reaches a balance-polled request in time is recorded, or
   the request expires. *)
BalanceIsNoticed ==
  \A r \in Requests \ TxPolled :
    onchain[r] > 0 /\ r \in Active ~> recorded[r] # {} \/ request[r].status = "FAILED"

-------------------------------------------------------------------------------
(* The inductive invariant behind the safety properties: for one request,
   what the position of its job and of its settlement says of the rows, of
   the chain and of the exchange. *)

Beyond == JobSteps \ {"idle", "record"}

(* A job past the recording has an accepted deposit and no broadcast yet. *)
JobInv(r) ==
  /\ job[r].pc \in Beyond =>
       recorded[r] # {} /\ request[r].received >= Expected[r]
  /\ job[r].pc \in Beyond \ {"persist"} => swept[r] = 0 /\ ~HasHash(transfer[r])
  /\ job[r].pc = "sweep"   => transfer[r] = "CREATED"
  /\ job[r].pc = "persist" => transfer[r] = "CREATED" /\ swept[r] = 1
  /\ job[r].status # "COMPLETED"
  /\ job[r].pc = "record" => job[r].amount > 0

(* What left the address was recorded, accepted and swept once. *)
SweepInv(r) ==
  /\ recorded[r] = {} => swept[r] = 0 /\ transfer[r] = "NONE" /\ topup[r] = "NONE"
  /\ recorded[r] # {} => Exists(r)
  /\ swept[r] > 0 \/ transfer[r] # "NONE" \/ topup[r] # "NONE" =>
       request[r].received >= Expected[r]
  /\ swept[r] <= 1
  /\ HasHash(transfer[r]) => swept[r] = 1
  /\ transfer[r] = "CONFIRMED" => chain[<<"TRANSFER", r>>] = "confirmed"

(* A settlement follows one confirmation, and withdraws in one step. *)
SettleInv(r) ==
  /\ settle[r] # "idle" \/ twHook = <<"TRANSFER", r>> \/ payout[r] # "NONE"
       \/ withdrawals[r] > 0 => transfer[r] = "CONFIRMED"
  /\ twHook = <<"TRANSFER", r>> =>
       settle[r] = "idle" /\ payout[r] = "NONE" /\ withdrawals[r] = 0
  /\ settle[r] \in {"start", "intent", "acquire", "execute"} => withdrawals[r] = 0
  /\ settle[r] \in {"execute", "finalize", "fail"} => payout[r] = "PENDING"
  /\ settle[r] = "finalize" => withdrawals[r] = 1
  /\ withdrawals[r] <= 1

(* The watcher's batch is still BROADCASTED; no snapshot is COMPLETED. *)
MemoryInv ==
  /\ \A x \in twBatch : OutgoingRow(x) = "BROADCASTED"
  /\ \A s \in dpPending \cup txTargets : s.status # "COMPLETED"
  /\ \A f \in txFound : f.row.status # "COMPLETED"

RequestInv(r) ==
  JobInv(r) /\ SweepInv(r) /\ SettleInv(r) /\ LedgerOf(r) /\ CompletionOf(r)

PipelineInv == TypeOK /\ (\A r \in Requests : RequestInv(r)) /\ MemoryInv

(* Behind BalancePolledMovesForward: nobody writes the status of such a
   request between its reading and the write that follows from it.  Before the
   deposit only the cycle that loaded the request does; after it one job, then
   one settlement. *)
ForwardInv(r) ==
  LET status == request[r].status IN
  /\ status \in PollStatuses => recorded[r] = {}
  /\ r \in dpExpired =>
       status \in PollStatuses /\ job[r].pc = "idle" /\ \A s \in dpPending : s.req # r
  /\ \A s \in dpPending : s.req = r =>
       /\ s.status = status /\ status \in PollStatuses /\ job[r].pc = "idle"
       /\ \A t \in dpPending : t.req = r => t = s
  /\ job[r].pc = "record" => job[r].status = status /\ status \in PollStatuses
  /\ job[r].pc \in {"sweep", "persist"} => job[r].status = status
  /\ settle[r] \notin {"idle", "start"} => ~IsFinal(status)

(* The jobs the transaction poller starts are of its own requests. *)
ScansOwn ==
  /\ \A s \in txTargets : s.req \in TxPolled
  /\ \A f \in txFound : f.row.req \in TxPolled

StatusInv == ScansOwn /\ \A r \in Requests \ TxPolled : ForwardInv(r)
-------------------------------------------------------------------------------
(* What a comment of the code says and its steps do not keep.
   decimal.ts:195 of every request: "Never moves backward; never transitions
   out of a final (terminal) status". *)
FinalStatusIsFinal ==
  [][\A r \in Requests : Exists(r) /\ IsFinal(request[r].status) =>
       request'[r].status = request[r].status]_vars
===============================================================================
