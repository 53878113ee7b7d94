# Verification of the exchange pipeline

XSwapo-KMS takes a client's coin at a deposit address of its own, sends it to an
exchange, and has the exchange pay another coin to the client. This directory
holds TLA+ models of that program, the configurations that check them with TLC,
and theorems about them whose proofs TLAPS checks. Paths below are relative to
`src/`.

## 1. The system

| component | keeps | operations | works with |
|---|---|---|---|
| request creation, `trpc/routers/exchange.ts` | `ExchangeRequest` and `GasWallet` rows | check the limits, allocate an address, make gas wallets, quote, find an order id, create the row | database, allocation, rates |
| allocation and wallets, `lib/depositAddress.ts`, `lib/walletResolver.ts` | `MasterWallet` and `DepositAddress` rows, HD indices | derive an address or ask the exchange for one, migrate a wallet to KuCoin, find the signer of an address | database, exchange |
| deposit poller, `pipeline/deposit-poller.ts` | a running flag; the last balance of a request in the database | every 30 s: fail requests that timed out, then check balances with a pool | database, chain RPC, KuCoin |
| transaction poller, `pipeline/tx-deposit-poller.ts` | a cursor per chain or address, in memory | every 30 s: scan blocks or histories, match payments with requests | database, chain RPC |
| deposit processing, `pipeline/deposit-process.ts` | — | record the deposit, classify it, start the transfer | called by both pollers |
| webhook, `processTatumAddressEventWebhook` of `pipeline/process.ts` | — | look an event up, record a deposit or merge the event into its row, refund, transfer, resume | called by an HTTP front end outside `src/` |
| transfer, refund and sweep, `pipeline/transfer.ts`, `lib/sweep.ts` | `CLIENT_REFUND`, `TRANSFER_TO_BINANCE` and `GAS_TOPUP` rows | sweep the address to the client or to the exchange, or send gas first | chain, database |
| transfer watcher, `pipeline/transfer-watcher.ts` | a running flag | every 30 s: ask the chain about broadcast rows, confirm or fail them, run the follow-up | chain, settlement, resume |
| settlement, `pipeline/settlement.ts` | `CLIENT_PAYOUT` row | intent, acquire, execute at the provider, finalize or fail | provider |
| providers, `pipeline/exchange/` | clients, caches | swap, move between accounts, withdraw | KuCoin, Binance |
| KuCoin wallet monitor, `pipeline/kucoin-wallet-monitor.ts` | a cursor per currency and the deposits it told of, in memory | every minute: ask for recent deposits, notify of the new ones | KuCoin, notifications |
| notifications, `pipeline/notifications/` | event keys and index sets in Redis; whether it was initialised | route an event, store it, send it to each chat, list, delete | called everywhere, never throws |
| chains, `index.ts`, `chains/`, `gateway.ts` | — | wallets, balances, sends, status for sixteen families | RPC nodes |

All workers run in one process and are woken by timers. They share no memory: they
meet in the database, on the chain and at the exchange. A worker reads a row, awaits
something, and writes the row later, so between any two awaits another worker may
have written it. A database transaction is atomic; a broadcast and the row that
records it are not.

What makes the program hard, and so what the properties are about:

* **interleaving**: two pollers, the watcher and any number of webhook deliveries look at
  the same requests, and each computes the next status from the snapshot it loaded; two
  clients allocate from one wallet at once;
* **crash and restart**: cursors, batches and every started function are in memory
  only;
* **lost and repeated messages**: a withdrawal may be accepted although the call throws, a
  broadcast may happen although its row is never written, an event is delivered again;
* **money**: one deposit must be credited, swept and paid once each, in that order,
  and an underpaid one not at all;
* **sharing**: requests share one balance at the exchange, one gas wallet per network, and
  the static addresses of an exchange;
* **progress**: several workers must hand a request on before it ends.

## 2. What is modelled

### `ExchangeStatus`

The pure rules of `lib/decimal.ts`: the rank of the statuses, `Advance`, the
classification of a deposit and the payout. Amounts are integers in the smallest
unit; the code uses arbitrary-precision decimals.

### `DepositPipeline`

One action per stretch of code between two awaits that touch shared state.

| variables | in the code |
|---|---|
| `request`, `recorded`, `transfer`, `topup`, `payout` | database rows: status and `receivedAmount` of the request, its `CLIENT_DEPOSIT` rows, the status of its three outgoing rows |
| `landed`, `onchain`, `gas`, `chain`, `swept`, `withdrawals` | the chain and the exchange: payments, balances, whether the address can pay a fee, the fate of each broadcast, counters of what really happened |
| `aged`, `old`, `crashes` | time and failures |
| `dpExpired`, `dpPending` | the arrays of `runPollCycle` |
| `cursorSet`, `scanned`, `txTargets`, `txFound` | the cursor and the arrays of `runTxPollCycle` |
| `job` | position, snapshot status and deposit of `processPolledDeposit` and `initiateTransferToExchangeIfNeeded` for a request |
| `twBatch`, `twHook` | the rows of a tick and the confirmed row whose follow-up is to run |
| `settle` | position of `settleConfirmedTransferToExchange` |

| actions | code |
|---|---|
| `CreateRequest` | `createRequest` stores the row |
| `ClientPays`, `RequestAges`, `OutgoingAges`, `ChainConfirms`, `ChainReverts`, `Crash` | the world |
| `DpPoll`, `DpExpire`, `DpExpireFails`, `DpSkip`, `DpDetect` | `runPollCycle`, `markRequestFailed`, `promisePool`, `checkTatumDeposit` |
| `TxPoll`, `TxInitCursor`, `TxScan`, `TxScanFails`, `TxTake` | `runTxPollCycle`, `scanChain` |
| `JobRecord` | the recording transaction of `processPolledDeposit` |
| `JobIntent`, `JobSweep`, `JobPersist`, `JobTopUp`, `JobTopUpIntent`, `JobTopUpPersist`, `JobThrows` | `initiateTransferToExchangeIfNeeded`, `handleGasTopUpResult` |
| `TwFetch`, `TwPending`, `TwFailed`, `TwConfirmed`, `TwTickFails`, `TwFollowUp` | `tick`, `processPendingTransaction`, `markFailed`, `markConfirmed`, the two follow-ups |
| `Settle...` | `settlement.ts`, with the provider's `executeSettlement` as one step that may fail before or after the withdrawal was accepted |

Abstractions: one transaction-polled chain with a block cursor; a scan returns every
payment above the cursor, in any order of processing (`TxBlockScan` and `TxAccountScan`
have the limits and the errors of a scan); the limit of fifty rows per tick is above the
bounds of the instances; a sweep moves the accepted amount (`Sweep` has what a native sweep
takes off it, and the families it cannot serve). An underpaid deposit is stopped twice, where
it is recorded (`JobRecord`) and by the early return of the transfer (`NothingToSend`).
Neither poller refunds, and the webhook with its refunds is `Webhook`. Only the watcher
starts a settlement here, once for a transfer: the second starter, the merge of an address
event, belongs to `Webhook`.

Definitions whose comment begins with *Faulty* or *Mutant of* are single plausible mistakes. No
specification uses them: putting one in the place of the action below it makes TLC
refute the property it is meant for, which shows that the property can fail.

### `ExchangePromise`

The abstract specification: the received amount, the number of sweeps and the number
of withdrawals of a request, and the three steps that may change them. `PromiseKept`
is its `Spec` under the mapping `received <- request[r].received`, `sent <- swept`,
`paid <- withdrawals`.

### `TxBlockScan`

`scanChain` for the families that are read block by block: EVM, UTXO, Tron, VeChain.
`family` is chosen at the start; `cursor`, `targets` and `found` are the variables of
the poller, `tip` and `blockOf` the chain, `request` the status of each address.
`known`, `lacked` and `replays` are history variables: the cursor with which an address was
first loaded, the blocks an answer did not hold, and how often the cursor began at block 0.

An answer about the tip may lack the number (fault `"blank"`). `utxoRpc`
(`tx-deposit-poller.ts:248-257`) looks neither at the HTTP status nor for a `result`, and
`evmRpc` not for a `result`: a missing one becomes `undefined`, `Math.min` and the cursor become
`NaN`, no comparison with it is ever true, and the chain is not scanned again before a
restart. A result `null`, and on Tron a block without its number (`:1121`), count as 0: as the
first cursor that reads the chain again from block 0; later it only loses the cycle. What
VeChain calls its best block is taken to have a number, and answers otherwise to have the
shape of the types the code gives them.

| actions | code in `pipeline/tx-deposit-poller.ts` |
|---|---|
| `Load` | the query of `runTxPollCycle` |
| `InitCursor`, `InitBlank` | the first scan of a chain, which only reads the tip; the same without the number |
| `ScanEvm`, `ScanUtxo`, `ScanTron`, `ScanVeChain` | the scanner of the family and the move of the cursor |
| `ScanBlank` | the tip is `undefined` and the cursor becomes `NaN` |
| `ScanNothing` | nothing above the cursor, a tip of 0, a call that threw, or a cursor that is `NaN`: it stays |
| `Process`, `ProcessThrows` | the loop over what was found |
| `Mine`, `RequestComes`, `RequestGoes`, `Crash` | the world |

### `TxAccountScan`

The families that keep a history for each account: Solana, XRP, Stellar, Cosmos, Sui.
Each address has a cursor: an index into its history, or a ledger on XRP. `Read` is the
turn of one address within a scan; it chooses the scanner of the family, with its order
of entries, its limit and its own treatment of errors and of a missing cursor (Solana,
Stellar and Sui take the newest entry, XRP the ledger being filled, Cosmos the start).
`handed` is counted from the last start of the process; `watched` says how long a
history was when it was first looked at. `CallFails` has the calls that throw, on Solana
also the second one for any entry, and the answers without what was asked for: an empty list
on Solana and Cosmos, ledger 0 on XRP (`:581`). `StaysBelow` has two answers that are used although
the cursor stays, so that they come again: an exception amid a page of Cosmos (`:877-899`) and a page
of Sui without `nextCursor` (`:967`); `stuck` counts them. Left out are an exception on Sui
after the cursor moved, which needs an answer of another shape than its type and passes the
page over, and a `null` among the transactions of Solana.

TON is not modelled: its scan hands `lt` and `hash` of the cursor to the node and compares
`lt` as strings (`tx-deposit-poller.ts:746-827`), and whether the node answers with what is
newer or what is older than that cursor cannot be told from the source. In both modules several chains would run side by side without
sharing anything, so one is enough.

### `ProviderSettlement`

`executeSettlement` of `pipeline/exchange/kucoin/adapter.ts` and of
`pipeline/exchange/binance/`, for several requests on one account of the exchange.

| variables | in the code or at the exchange |
|---|---|
| `provider`, `flex`, `pair` | `EXCHANGE_PROVIDER`, `KUCOIN_FLEX_TRANSFER_ENABLED`, the two coins of a request |
| `deposit`, `credit` | the deposit as the exchange lists it, and the amount credited |
| `main`, `trade` | available balances; Binance has one account, kept in `main` |
| `pc`, `size`, `out`, `left`, `late` | position of the call, `exchangeAmount`, `withdrawAmount`, attempts left, whether a polling loop is out of time |
| `landing`, `spent`, `got`, `orders`, `moves`, `withdrawals`, `paid` | what the exchange did for a request |

| actions | code |
|---|---|
| `Start`, `PlanFound` | the adapters' entry; Binance looks for a symbol first |
| `DepositFound` | `waitForDeposit`, `waitForBinanceDepositSuccess` |
| `BalanceSeen` | `waitForBalance`, `computeExchangeAmount`, the branch on `needsSwap` |
| `Convert`, `ConvertLacksBalance`, `LandedSeen` | the conversion with its retries, the wait on the trade account |
| `Move`, `MoveLacksBalance`, `FlexRefused` | `transferBetweenAccounts` with its retries, and with `allowFailure` |
| `Order`, `OrderLacksBalance`, `FillSeen`, `OrderEnds` | `createBinanceMarketOrder`, `waitForBinanceOrderFill` |
| `Withdraw`, `WithdrawLacksBalance`, `WithdrawLocked`, `TriesAgain` | the withdrawal and its loop on code 115008 |
| `Refused`, `TimedOut` | an exception of any call, the time limit of a polling loop |
| `Credited`, `Usable`, `Rejected`, `Lands`, `TimePasses` | the exchange and the clock |

Abstractions: amounts are integers in the smallest unit; a conversion gives any amount of
`Quotes`; it may take its amount from both accounts in any proportion, which is what the
default `KUCOIN_CONVERT_ACCOUNT_TYPE=BOTH` allows; a quote and its order are one step,
because a quote changes nothing; a Binance order is filled or not at all; the answer
"repeated request" to a transfer is left out, because a transfer is only sent again after
an error that says it was not executed; an error that KuCoin answers to an optional transfer it
executed is passed over (`adapter.ts:948-953`), which is `Move` as after a success. A process that
dies takes no more steps, and `DepositPipeline` shows that the watcher starts no settlement
twice, so there is no restart action.

### `SettlementPromise`

What `DepositPipeline` takes `executeSettlement` for: it may pay once, and only when the
exchange has the deposit; it returns only if it paid, and may throw although it paid.
`PromiseKept` of `ProviderSettlement` is its `Spec`, with `outcome` computed from `pc`.
This is what justifies `DepositPipeline`'s treatment of the call as one step.

### `Sweep`

`performSweepToExchange` of `lib/sweep.ts` as a function of what it reads: `RequiredGas`,
`GasTopUp`, `NativeSweep`, `TokenSweep` and `PerformSweep`, which picks among them. The
result says what was sent, what the caller is told was sent, and what the gas wallet gave.
`Webhook` uses it for every sweep. The sweep hands a private key to `sendNative` and
`sendToken` and no mnemonic (`sweep.ts:322-327`), but for the UTXO families, Solana, Algorand,
NEAR, MultiversX, Cosmos, Sui and TON these ask for one (`index.ts`), and for Polkadot and Cardano
they are not implemented: `byKey` is FALSE there, and the answer is `ERROR`. The instances
have a chain that sends by key (`SendsByKey`); the proofs cover both.

### `Webhook`

The webhook beside the transfer watcher, with everything either starts.

| variables | in the code |
|---|---|
| `request`, `rows`, `payout` | `ExchangeRequest` rows, `Transaction` rows by idempotency key, requests whose settlement was acquired |
| `chain`, `purse`, `isNative` | every transaction there is, the balances of the deposit address and of the gas wallet, the kind of coin |
| `actor`, `batch` | where each delivery and the watcher is, and what it read; the rest of the watcher's tick |
| `answered`, `lost`, `raced` | history: events answered with 200, sweeps whose hash was never written, rows two actors worked on at once |

| actions | code |
|---|---|
| `Deliver`, `IgnoreDirection`, `FindRequest` | the entry of `processTatumAddressEventWebhook`, the direction, the requests on the address |
| `Stage`, `Commit` | `createClientDepositAtomically`: what it reads, and what it writes under READ COMMITTED |
| `Merge` | `mergeExistingTransaction` and `updateRequestFromConfirmedInternalTransaction` |
| `Refund`, `Transfer`, `Send`, `Persist`, `TopUp` | `initiateRefundIfNeeded`, `initiateTransferToExchangeIfNeeded`, the sweep, the update with the hash, `handleGasTopUpResult` |
| `Resume`, `Settle` | `maybeResumePipelineAfterGasTopUp`, `maybeResumeClientDepositPipeline`, the start of the settlement |
| `WatcherFetches`, `WatcherSkips`, `WatcherConfirms`, `WatcherFails` | a tick of the watcher |
| `Throw` | an await that throws, also the death of the process |
| `ClientPays`, `RequestOpens`, `RequestTimesOut`, `ChainConfirms`, `ChainReverts` | the world |

The payload forms of an event are abstracted to three sorts: a deposit, one without its
sender, one whose direction is refused. The caller of the webhook is outside `src/`; its
answers 500 and `retryable` say that it is meant to be called again. Events are those of
confirmed transactions: the code takes one without a block number for confirmed too
(`process.ts:221`, `:246`), and whether it is sent any is up to that caller. `Settle` is the whole
of `settleConfirmedTransferToExchange` in one step, so that a second starter finds it ended.
In the code the two may overlap, and one that read the request before the other failed
acquires the `FAILED` payout and executes it again (`settlement.ts:119-135`, `:257-297`): that is not
modelled, and no property here excludes it.

### `Quote` and `RequestCreation`

`Quote` is step 6 of `createRequest` as operators: the gas fee, the fee with its minimum,
the limits, and the quotes an amount may get. `RequestCreation` is `createRequest` with one
action per await, for any number of callers.

| variables | in the code |
|---|---|
| `wallet`, `deposits`, `gas`, `requests` | `MasterWallet` by pair, `DepositAddress`, `GasWallet` by network from the oldest on, `ExchangeRequest` |
| `call`, `minted` | what each caller read and where it is; how many mnemonics were generated |
| `provider`, `source`, `venue` | `EXCHANGE_PROVIDER`, `depositSource` of a network, what the exchange answers for a pair |

| actions | code |
|---|---|
| `CallStarts`, `CallFails` | the validation, and an exception of any await |
| `LookUpWallet`, `MintWallet`, `StoreAddress` | `getTatumDepositAddress`; the last one is its database transaction |
| `AskVenue`, `FindWallet`, `NewVenueWallet`, `MigrateWallet`, `AttachAddress`, `CountAddress` | `getKuCoinDepositAddress`, `getBinanceDepositAddress` |
| `FindGasWallet`, `MintGasWallet` | `ensureGasWallet`, for both networks |
| `GetQuote`, `CreateRow` | limits, rate, fee, order id; the row |
| `SourceChanges`, `VenueChanges`, `GasWalletDisabled`, `ProviderChanges` | the operator and the exchange |

The unique keys of the schema are guards (`Free`, `AddWallet`): a write that breaks one is a
`CallFails`. The reference from an address to its wallet cascades on update, which is
Prisma's default. A row gets its `createdAt` in the order of the commits. `FindWallet` merges two
lookups of the wallet and `AskVenue` two calls of the exchange, between which nothing of the
model's state is written by the caller.

A key is its sort, a mnemonic and an index; a mnemonic is its number. `GeneratedKey` is what
`generateWallet` gives as xpub, `HdAddress` what `deriveAddress` makes of it and an index,
`Signer` the mnemonic and index `resolveSignerByAddress` answers with, and `Controlled` the address
whose key they make. Most families store an extended public key or the mnemonic itself, and
what is derived from it is what the mnemonic derives (sort `"hd"`). Solana, Stellar, Algorand,
NEAR, Polkadot and Cardano store the public key or the address of index 0
(`chains/solana.ts:52-63`, `chains/stellar.ts:52-66`), and their `deriveAddress` takes it for a
mnemonic: the addresses belong to keys nobody derives again (sort `"pub"`). A network of
`PublicKeyNetworks` is one of these.

### `KuCoinDeposits`

The deposit poller for requests whose address is the exchange's own: `checkKuCoinDeposit`
measures the growth of a balance all these requests share.

| variables | in the code |
|---|---|
| `request`, `intents` | status, `lastKnownBalance` and recorded deposit; `TRANSFER_TO_BINANCE` rows without a hash |
| `ledger`, `balance` | what happened on the main account: each movement with the balance and the clients' payments up to it |
| `queue`, `job` | the rows a cycle loaded and the workers of the pool |
| `from`, `upTo`, `lost` | history: the part of the ledger a growth was measured over, and growth that was saved and not recorded |

`CycleBegins`, `PoolTakes`, `Asks`, `Saves`, `Records` and `TransferThrows` follow
`runPollCycle`, `promisePool`, `checkKuCoinDeposit`, `processPolledDeposit` and `transfer.ts`;
`ClientPays` and `OthersMove` move money, `JobThrows` and `Restart` are the failures.

### `Notices`

The wallet monitor and another emitter over the notification pipeline.

| variables | in the code |
|---|---|
| `monitor`, `cursor`, `seen` | the cycle of `KuCoinWalletMonitor`, `lastCheckMs` and `seenTxIds` |
| `started`, `pipe`, `act` | `startPipeline`, the pipeline's `initialized` and `initializing`, each emitter's call |
| `stored`, `index` | event keys and index sets in Redis with their expiry |
| `deposits`, `redisUp`, `clock` | the exchange, Redis, time |
| `handed`, `told` | history: how often this process emitted a deposit, what came of telling a chat |

| actions | code |
|---|---|
| `MonitorBegins`, `MonitorAsks`, `MonitorFails`, `MonitorTells`, `MonitorEnds` | a cycle |
| `PipelineStarts`, `OtherEmits`, `Connects`, `Awaits`, `EmitEnds` | `ensureReady`, `emitNotification` |
| `RedisStores`, `Tick`, `AdminDeletes` | `RedisNotificationStore`, the lifetimes, `handleAdminNotificationsRequest` |
| `ChatAccepts`, `ChatRefuses` | `sendToChat` with its retries |
| `DepositArrives`, `DepositSucceeds`, `WalletAppears`, `RedisChanges`, `Restart` | the world |

A deposit has a transaction `tx`, 0 if it has none as an inner one may; several deposits may
share one. The monitor drops a deposit without a transaction and one whose transaction it told
of (`kucoin-wallet-monitor.ts:94-96`); deposits of one answer are filtered before any of them is
remembered.

There is one currency; a page of recent deposits holds them all; the Redis pipeline of a
store is one step. The code keeps an event for 86400 s and tries a chat four times; an
instance keeps it two ticks and tries twice.

## 3. What is checked

| run | instance | what it shows |
|---|---|---|
| `tx` | two requests: one polled by transactions with payments of 4 and 1 for an expected 2, one polled by balance with a payment of 2; all faults, one crash | type, one sweep, one payout, payout backed by a confirmed sweep, an underpaid deposit is not moved, `COMPLETED` means paid, a balance-polled request only moves forward, refinement of `ExchangePromise` |
| `live` | two balance-polled requests that share a pool of one, no faults | three liveness properties under fairness: the worker is taken by one request while the other waits |
| `blocks` | each family of `TxBlockScan`, two addresses with a payment each, three blocks scanned one at a time, all faults, one crash | a payment is handed over at most once, and once more for each replay from block 0; while the cursor is a number no block is passed over for a known address unless the node's answer lacked it, and each payment is handed over in the end although the cursor lags behind the tip |
| `accounts` | each family of `TxAccountScan`, two addresses, two entries, one entry per answer, all faults, an answer per address that leaves the cursor, one crash | between two starts nothing is handed over twice but what such an answer gave; Stellar, Cosmos and Sui pass no deposit over; Cosmos and Sui hand over every deposit in the end |
| `settle` | two settlements on KuCoin or Binance, three pairings of two coins, an operator's balance of 1 and 0, all faults | no step is executed twice; on KuCoin no settlement spends or pays more than its own and none touches the operator's balance; what is to be moved from the trade account is there; every settlement ends; refinement of `SettlementPromise` |
| `webhook` | one request, payments of 1 and 9 for an expected 6, native coin or token, two deliveries beside the watcher, one trouble of any kind: a second payment, a needless redelivery, a throw, a revert | one deposit per request, no second sweep, underpaid money stays out, `REFUNDED` means paid back, a trade follows a confirmed transfer; each with the one race or loss that is its exception |
| `refunds` | one delivery, no faults, events with and without a sender, enough gas for two top-ups | a recorded deposit is refunded or reaches the exchange, through top-ups and the refund of a surplus |
| `wallets` | two callers, three calls over two pairs on a network each, one of which derives from a public key, all three sources, one change by the operator or the exchange, calls that fail anywhere | derived addresses are not shared and have no gap; what signs for one is its own key or, on the network that derives from a public key, the key of its wallet and index, which is another; the gas wallet in use stays |
| `kucoin` | two requests with a pool of two, two payments of 1 or 3 for an expected 3, one move of another settlement, one fault | a recorded deposit is backed by payments, growth is noticed |
| `notices` | the monitor and one emitter, one chat with one retry, two deposits without a transaction, with one each or with one between them, one event, two ticks, one trouble | a deposit is told once by a process, what is stored is listed, every chat hears of each transaction with a confirmed deposit or refused each time |
| `final`, `managed` | one request | statements of comments that the code does not keep; see below |

Why the bounds suffice. The properties of `DepositPipeline` are about one request, its
poller and further payments to it; `tx` has one request of each kind beside the other, and
`live` two that compete for a pool of one: a worker keeps a request through its check, its
recording and its sweep while the other one waits. That a payment on a transaction-polled chain is
found in the end is the matter of `blocks` and `accounts`; from the recording on both kinds
run through the same job. Amounts 1, 2, 3 and 4 against an expected 2 give
underpaid, exact and overpaid. One crash loses each piece of memory once. A scan of one
block, or an answer of one entry, with a longer chain or history behind it has every
relation of cursor, limit and tip. Two settlements and two coins give each way two calls
can draw on one balance: both swapping the same way, one paying out the coin the other
swaps into, and each swapping into what the other swaps from. A gas cost of 1 against
credits of 1 and 2 is once worth the whole deposit and once less. Two deliveries and the
watcher are three actors over the rows of one deposit, where a race needs two. A fee of 1 with a gas wallet of 2 pays one top-up, so that the
second is refused; with 4 it pays both. Two callers race over each key; the third call finds
what the first two left. Two requests on one account see each other's money, and an index
with a lifetime of two ticks can outlive, meet or predate each of its members. The
theorems of section 4 remove the bounds for the safety properties they cover.

`CHECK_DEADLOCK FALSE` is used because the systems really stop: a poll that finds nothing
changes nothing, and a settlement or a call that ended does nothing more.

**Fairness.** Each worker is woken by `setInterval` and guarded by a flag that is
reset in `finally`, so it runs again and again, and each call it awaits returns: weak
fairness of the pollers, the watcher, the monitor, and of each job, settlement, delivery
and emitter. The chain decides about each broadcast (`ChainConfirms`). For the scans a call
may throw any number of times, so that more is needed: strong fairness says that a node
asked again and again about a chain, or an address, answers in the end. For settlements weak
fairness of `Step` says that a call is answered or fails, and of `TimePasses` that the clock
goes on. For the webhook strong fairness says that an event that was not answered with 200 is
delivered again, which is what its answer `retryable` asks for; a delivery worker is not
always free, so weak fairness would not do. For the notifications weak fairness speaks of the
monitor with what it calls, and of the other emitters only where the monitor waits for them,
in the connection one of them began. Redis may go, and a chat begin to refuse, only as often
as `MaxTrouble` allows. Nothing is assumed about clients or failures. `live` and
`refunds` have no faults, because an exception ends a job for good and the program does not
retry it.

**What the code does not keep.** Two runs show it:

* `FinalStatusIsFinal` (`final`): `lib/decimal.ts:195` says a request never leaves a final
  status. The transaction poller computes the status from its snapshot and so brings a
  request back that the timeout has failed meanwhile.
* `ManagedDepositGoesOn` (`managed`): `trpc/routers/exchange.ts:163` says that a deposit the
  exchange manages needs no sweep. The transfer sweeps it all the same, finds no mnemonic in
  its wallet (`lib/depositAddress.ts:185` stores none) and throws, so that the request stays
  as it is.

More was met while modelling. No run is spent on these, but the models have the behaviour
and the properties name it where it is their exception:

* the timeout may fail a request whose deposit was recorded after the poller's query;
* the resume after a top-up needs `address`, `amount` and `txId` in the stored payload, which
  a polled deposit does not have (`process.ts:483`): such a deposit is never swept;
* of several payments to one request only the first is recorded, and of two that are
  delivered to the webhook at once both are (`process.ts:306`);
* a restart between a confirmation and its follow-up loses the settlement;
* the first transaction of a fresh Solana address, which is the deposit, is taken for the
  initial cursor;
* an answer of a UTXO node without the tip, or of an EVM node where no token is waited for,
  makes the cursor of the chain `NaN`, and it is not scanned again before a restart
  (`tx-deposit-poller.ts:248-257`, `:275-283`); a tip that counts as 0 when the cursor is first set
  has the chain read from block 0;
* an exception over one transaction of a Cosmos page keeps the deposits before it and the old
  offset, so that they are found again (`tx-deposit-poller.ts:877-899`);
* the addresses of Solana, Stellar, Algorand, NEAR, Polkadot and Cardano are derived from the
  public key or address of the wallet as if it were its mnemonic (`depositAddress.ts:90`), while
  `walletResolver.ts:75-80` signs with the mnemonic: what is paid there cannot be swept. Their gas
  wallets are derived the same way (`exchange.ts:81-82`);
* `performSweepToExchange` gives `sendNative` no mnemonic, which the UTXO families, Solana and
  others need (`sweep.ts:322-327`): the sweep ends with `ERROR`;
* a native sweep sends less than it was asked for when the gas needs it, while the row says
  it sent everything (`sweep.ts:329-334`, `transfer.ts:349-353`), and an address that holds exactly
  the required gas sends nothing (`sweep.ts:313`);
* a redelivery and the resume of the watcher may both find a row without a hash and both
  sweep (`transfer.ts:206`, `:316`), as may whoever comes after a process that died between
  the sweep and its record (`transfer.ts:208-225`);
* a refund confirmed by the watcher and by the merge of its event is added twice to
  `refundedAmount` (`process.ts:196`, `:267`);
* the quote takes the fee off `toAmount` (`exchange.ts:243-246`), and the payout takes
  `feeAmount` off it once more (`decimal.ts:153-168`);
* a wallet turned into one of KuCoin keeps its derived addresses but not their mnemonic, and
  their indices then stand in the way of the exchange's address (`depositAddress.ts:163-177`
  and the key of `masterWalletxpub` and `index`): the pair gets no further address there;
* two first requests create two primary gas wallets, and a primary that was disabled keeps
  `ensureGasWallet` from making another;
* a rejected initialisation of the notifications is kept (`notifications/pipeline.ts:35`), a loop
  that met 429 only ends as after a delivery (`telegram.ts:83`), and other 4xx are tried
  again although the comment says otherwise; a deposit that turns `SUCCESS` after the
  monitor's cursor passed its time is not told, nor is one without a `walletTxId`, nor a later
  deposit of a transaction that was told of (`kucoin-wallet-monitor.ts:94-103`).

Known limits of what the properties say, each of them visible in their wording:

* an EVM block the node answers `null` for is skipped for good (`lacked`), and what was
  mined while the process was down is not looked at by a block scan (`known` is reset). Nothing
  is said of a chain whose cursor is `NaN`, and a payment may be handed over once more for each
  start at block 0 (`replays`), where the recording finds it recorded;
* `HandedOncePerStart` allows an entry once more for each answer that left the cursor below it
  (`stuck`); the recording finds such a deposit recorded;
* the XRP scan goes on from the ledger after the cursor, so a deposit in a ledger that was
  not complete is passed over; a Stellar cursor does not move over a full page without
  deposits; Solana jumps over what is older than its newest fifty signatures:
  `NothingPassedOver` and `DepositIsHanded` name the families they speak of;
* Binance pays the quoted amount whatever the order gave, so `OwnFundsOnly` and
  `FloatUntouched` speak of KuCoin only: on Binance the operator bears the difference;
* with the optional transfer switched on, a plain payout may move the result of another
  settlement out of the trade account; and where one request swaps the coin another swaps
  into, a conversion may take it. `TradeCovers` excludes both. The settlement that lost its
  coins ends by an exception when its attempts are used up; the money stays in the account;
* `ClaimIsBacked` excludes growth that other settlements brought, which the code cannot tell
  from a payment, and lets two requests claim one payment;
* `SignersAreRight` speaks of derived addresses: Binance hangs its address on whatever wallet
  the pair has, and the resolver then answers with that wallet's mnemonic. On networks that
  derive from a public key it says only that the key of the address's own wallet and index
  signs, not that this key controls the address, which it does not;
* `DepositIsTold` speaks of deposits with a transaction, and of one deposit of each;
* `PaidAtMostOnce` and `CompletionIsTrue` are about the watcher's settlement: the second start
  by an address event, described at `Webhook`, is in no instance;
* polling the source `BINANCE` is a TODO in the code (`deposit-poller.ts:60-63`) and is not
  modelled.

## 4. What is proved

Every theorem holds for all constants that satisfy the named assumptions of its module:
any sets of requests, addresses, callers, chats and coins, any amounts, faults and limits.

| module | theorems |
|---|---|
| `DepositPipeline_proofs` | `AdvanceIsMonotone`: `Advance` never lowers a rank and never leaves a final status; `PipelineCorrect` (`Spec => []PipelineInv`); `TypeCorrect`, `SweepOnce`, `PayOnce`, `PayBacked`, `CompletionSound`, `LedgerSound`, `UnderpaidIsLeft` for the property each names; `StatusCorrect` (`Spec => [](PipelineInv /\ StatusInv)`), `MovesOnlyForward` for `BalancePolledMovesForward`; `KeepsPromise` (`Spec => PromiseKept`) |
| `TxBlockScan_proofs` | `ScanCorrect`, `HandOverOnce`, `NothingIsPassedOver` |
| `TxAccountScan_proofs` | `AccountCorrect`, `HandOverOncePerStart`; `PagesCorrect` (`Spec => [](AccountInv /\ PagesInv)`), `PagesPassNothing` for `NothingPassedOver` |
| `ProviderSettlement_proofs` | `SettlementCorrect`, `StepsOnce`, `OwnFunds`, `KeepsSettlementPromise`; `BooksCorrect` (`Spec => [](SettlementInv /\ AccountInv)`), `FloatIsUntouched`, `TradeIsCovered` for `FloatUntouched`, `TradeCovers` |
| `RequestCreation_proofs` | `CreationCorrect` (`Spec => [](CreationInv /\ PairsInv)`); `AddressesAreOwn`, `WalletsGoOn`, `SignersRight`, `GasWalletRemains`, `TypesHold` for `HdAddressesAreOwn`, `HdWalletGoesOn`, `SignersAreRight`, `GasWalletStays`, `TypeOK`; `QuoteAddsUp` about the operators of `Quote`, `QuotesAreKept` (`Spec => []RowsAreQuoted`) |
| `KuCoinDeposits_proofs` | `KuCoinCorrect` (`Spec => []KuCoinInv`), `ClaimsAreBacked` for `ClaimIsBacked` |
| `Notices_proofs` | `NoticesCorrect`, `NotifiesOnce`, `StoredIsListed` |
| `Webhook_proofs` | `ClassificationConserves`: the accepted and the refundable part add up to the deposit; `SweepIsCovered`: a sweep sends nothing that is not there; `WebhookCorrect` (`Spec => []WebhookInv`); `WebhookTypes`, `OneDeposit`, `SweepOnceUnlessLost`, `UnderpaidOut`, `RefundsArePaidBack`, `TradesAreBacked` for `TypeOK`, `OneDepositPerRequest`, `SweptAgainOnlyAfterLoss`, `UnderpaidStaysOut`, `RefundedMeansPaidBack`, `SettledIsBacked` |

**Pipeline.** The properties are not inductive by themselves. `PipelineInv` adds what the
position of a worker says about the rows: a job between its recording and its broadcast
has nothing on the chain yet (`JobInv`), a row with a hash was swept exactly once
(`SweepInv`), the watcher's batch holds only rows still `BROADCASTED`, so that a transfer
is confirmed once and starts one settlement (`MemoryInv`, `SettleInv`). A crash keeps it
because it only moves workers to `idle`. The argument that a deposit is swept once is that
exactly one recording succeeds for a request and only its job can broadcast, and no path
resumes a job that lost its broadcast. The module goes worker by worker: each lemma says
that one worker keeps the invariant of its own request, of the others, and of the memory
of the rest.

`advanceStatus` compares with the status a worker read, not with the one stored, so that
`MovesOnlyForward` rests on nobody else writing in between. `StatusInv` says so for requests
polled by balance: until the deposit is recorded only the cycle that loaded the request
writes its status, for the job of the cycle before is over; after that only the one job that
recorded it, and then the one settlement its transfer starts. Requests of the transaction
poller have several jobs at once, which is how the run of `FinalStatusIsFinal` breaks it.

**Scans.** `HandedOnce` needs to know where things lie: `ScanInv` says that whatever was
found or handed over is at or below the cursor, and that the cursor is at or below the
tip; a new scan begins above the cursor and a restart sets it to the tip, so what it finds
is new. Only a cursor that began at block 0 lies below what was found, and `replays` counts
these. `NothingIsPassedOver` adds that a running scan has every waiting address the poller
knows among its targets, and that a poller without a cursor knows none. `AccountInv` says
the same of each address, with positions in a history, but that an answer after which the
cursor stays may leave what it found above it: `stuck` is then ahead of what was handed over.
On XRP it also needs histories to be in the order of the ledgers. `PagesInv` says that between the first look at an account and its
cursor every deposit was found: a page begins right above the cursor and the cursor moves to
its last entry or, where only deposits are counted, over entries that are none. It also needs
that on Stellar and Sui a first look that succeeded leaves a cursor, for without one the next
look would be a first one again.

**Settlements.** `StepsInv` ties the counters of the exchange to the position of the call:
before a step nothing of it was executed, and after an executed step no path leads back to
it, though each may be answered or not. The loops go round only after an answer that says
nothing was done. `AmountsInv` follows the amount on KuCoin: what is converted is at most
the credit, what is moved and withdrawn is what the conversion gave, or at most the credit
if there is none. Neither needs to know what else is in the account, which is why the
other settlements do not matter. The refinement maps the withdrawal to `Pay` and each
other step that ends the call to `Fail`.

**The account the settlements share.** `FloatUntouched` and `TradeCovers` are about sums over
all settlements. `MoneyKept` is the equation behind the first: in each coin, what the account
holds and what is on its way is the operator's balance and, summed over the requests, what was
credited and not spent, and bought and not paid. Each step moves one request's amounts and the
balances by as much (`MoneyStep`), whoever else is at work; that no summand is negative is
`AmountsInv`. `BooksInv` says which amounts are still zero at a position. For `TradeCovers` a
transfer takes from the trade account what its own result put there, and without a chain of
swaps or the optional transfer nobody else takes of that coin (`TradeKept`). That the sum of
the community modules (`SumFunctionOnSet`) changes with one member by that member's change is
proved here (`SumsExists`, `SumsUnique`), by a minimal counterexample among the finite subsets:
the library's theorem that the strict subsets of a finite set are well-founded needs no
operator as a parameter. It asks for finitely many requests, which a database has.

**Allocation.** A caller reads a wallet's counter and stores an address with the next index
two awaits later, so the counter may be stale and another caller may have the same index.
What saves the addresses is the keys of the schema, and `CreationInv` says how: an index a
caller holds is at most the number of addresses its wallet gave (`CallsInv`), these have the
indices below that number (`IndicesInv`), so a store that succeeds is the next one, and a
stale one meets a key. An address in the hand of a caller is nobody else's and in no request
(`HoldersInv`). That nobody counts for a wallet that derives needs the step of a call that
attaches an address to be known to hold one that is not derived. `KeysInv` gives each address
one owner and each owner one mnemonic, from which `SignersRight` follows: the resolver finds
the wallet and the index of an address, and `GeneratedKey` and `HdAddress` tell whether the key
they make is the one the address was derived from. `GasInv` says that
all gas wallets are primary, so that the one in use is the oldest active one, and a new one
is younger.

That the types hold (`TypesHold`) is a matter of counting, for `TypeOK` bounds the mnemonics
and indices by `MaxCalls`. `BoundsInv` says that each was made by a call of its own: the
mnemonics are at most the calls that are past the step that generates one, the addresses a
wallet counts at most the calls past theirs, and a call at work may carry an index but has not
counted it (`Past`, `Waiting`). `FormsInv` has the form of each key and address. `QuotesInv`
follows a quote from its calculation to the row, over the await in between. `QuoteAddsUp` says
what that quote comes to at the end: the settlement takes the fee off once more, so that a
client is paid the gross amount less twice the fee, and a request whose fee is more than half
of the gross amount is created and paid into, and then its settlement throws.

**Deposits at the exchange.** The balance a request was last seen with is in the database, the
one a worker read is in memory, and others move the account in between. `KuCoinInv` ties each
to a position of the ledger: a saved balance is the one after the movement `from` (`SavedInv`),
a worker at work carries what the database holds, and has read the balance after a later
movement (`JobInv`), and a row of the cycle is what is still stored, because a request with a
worker or a recorded deposit has no row (`RowsInv`). A worker that dies after it saved moves
`from` to where it read. `LedgerInv` is about the account alone: between any two positions
the balance grows by no more than the clients paid, unless another settlement paid in. With
`DepositInv`, that a recorded deposit is the growth between `from` and `upTo`, this gives
`ClaimIsBacked`.

**Notifications.** `MemoryInv` says that the monitor remembers the transaction of whatever this
process told, and that no deposit on its list was told. `IndexInv` says that an index outlives its members:
storing sets the lifetime of both at the same moment, and no step shortens that of an index.

**Webhook.** Deliveries and the watcher act on what they read some awaits ago, so most of
`WebhookInv` ties what an actor carries to what is stored. `Fits` does so by its step: who
settles holds a transfer the chain confirmed, who sends holds the row of a deposit and an
accepted amount if it is a transfer. `RowInv` does it for rows: a hash is one of a sweep of
that row, and `CONFIRMED` was said by the chain; from it follow `SettledIsBacked` and
`RefundedMeansPaidBack`. `ChainInv` says that what was sent to the exchange belongs to a
deposit that suffices, from which `UnderpaidStaysOut` follows. These facts survive the
steps of others because history only grows: rows, transactions and confirmations never go
away. `DepositsInv` and `SweepInv` are about uniqueness. Two deposits of a request, recorded
or about to be, were raced; and of a sweep that was neither raced nor lost there is one
actor between the look for the hash and its write, nothing is sent before that actor sends,
and what was sent is in its row or in that actor's hand. That the types hold is not a matter
of shape here: that a balance is never below zero rests on what `PerformSweep` lets pass.

Assumed are only the named assumptions on the constants, each stated where the constant is
declared; TLC evaluates them in every run.

Only model-checked: liveness under fairness, which is beyond this prover (`BroadcastTransferSettles`,
`AcceptedDepositIsSwept`, `BalanceIsNoticed`, `KnownPaymentIsHanded`, `DepositIsHanded`,
`SettlementEnds`, `DepositIsSettled`, `PaidIsNoticed`, `DepositIsTold`), and the two runs that
expect a violation. Every invariant, action property and refinement of the passing runs has a
theorem.

## 5. Plan

Done: `ExchangeStatus`, `DepositPipeline` and `ExchangePromise`; `TxBlockScan` and
`TxAccountScan`; `ProviderSettlement` and `SettlementPromise`; `Sweep` and `Webhook`; `Quote`
and `RequestCreation`; `KuCoinDeposits`; `Notices`; with the proofs of section 4.

Left, in this order: the selection of UTXOs in `chains/`; a composition of `Webhook` with the
pollers, which record the same deposits.

## 6. What is not modelled

The chain adapters (`index.ts`, `chains/`, `gateway.ts`): key derivation, signing, JSON-RPC and
HTTP. The routers that only pass a call on to a chain. Formatting, logging, sanitising and the
templates of messages. The schema beyond the keys and enums the modules use, and the seeds,
which are data. The shutdown of the pipeline: a restart at any moment covers what it may
leave behind. Of the providers the lookup of chains, addresses and currencies, and the caching
of clients. The many forms of an event's payload. `PROJECT.json` lists every component with
its status.
