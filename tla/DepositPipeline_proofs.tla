------------------------- MODULE DepositPipeline_proofs -------------------------
(***************************************************************************)
(* Proofs about DepositPipeline, for any number of requests and payments,  *)
(* any amounts, any set of injected faults and any number of crashes.      *)
(* First the types, then the inductive invariant PipelineInv, one lemma    *)
(* per worker and one step per action; the safety properties follow.       *)
(***************************************************************************)
EXTENDS DepositPipeline, TLAPS
-------------------------------------------------------------------------------
(* Facts about the rules of lib/decimal.ts that the pipeline rests on. *)

(* The status set, spelled out: the keys of STATUS_RANK. *)
LEMMA StatusIs ==
  Status = {"CREATED", "WAITING_DEPOSIT", "DEPOSIT_DETECTED", "UNDERPAID", "OVERPAID",
            "REFUND_PENDING", "PARTIALLY_REFUNDED", "REFUNDED", "PROCESSING",
            "COMPLETED", "CANCELLED", "FAILED"}
  BY DEF Status, Rank

(* Every status has an integer rank. *)
LEMMA RankType == \A s \in Status : Rank[s] \in Int
  BY StatusIs DEF Rank

(* advanceExchangeRequestStatus returns one of its two arguments. *)
LEMMA AdvanceChooses ==
  ASSUME NEW current, NEW next
  PROVE  Advance(current, next) \in {current, next}
  BY DEF Advance

(* It never leaves a final status and never moves back in rank, whatever
   it is asked to write. *)
THEOREM AdvanceIsMonotone ==
  ASSUME NEW current \in Status, NEW next \in Status
  PROVE  /\ Advance(current, next) \in Status
         /\ IsFinal(current) => Advance(current, next) = current
         /\ Rank[Advance(current, next)] >= Rank[current]
<1>1. Advance(current, next) \in Status
  BY AdvanceChooses
<1>2. IsFinal(current) => Advance(current, next) = current
  BY DEF Advance
<1>3. Rank[Advance(current, next)] >= Rank[current]
  <2>1. Rank[current] \in Int /\ Rank[next] \in Int
    BY RankType
  <2>2. CASE IsFinal(current) \/ Rank[next] < Rank[current]
    BY <2>1, <2>2 DEF Advance
  <2>3. CASE ~(IsFinal(current) \/ Rank[next] < Rank[current])
    BY <2>1, <2>3 DEF Advance
  <2> QED BY <2>2, <2>3
<1> QED BY <1>1, <1>2, <1>3

(* A classified status is not a final one. *)
LEMMA ClassifiedIsOpen ==
  ASSUME NEW expected, NEW received
  PROVE  ClassifiedStatus(expected, received) \in {"OVERPAID", "UNDERPAID", "DEPOSIT_DETECTED"}
  BY DEF ClassifiedStatus
-------------------------------------------------------------------------------
USE DEF dbVars, worldVars, envVars, dpVars, txVars, twVars, memoryVars, vars
-------------------------------------------------------------------------------
(* Types. *)

RequestRow == [status : Status \cup {"ABSENT"}, received : Nat]

LEMMA GotoType ==
  ASSUME job \in [Requests -> Job], NEW r \in Requests, NEW step \in JobSteps, Goto(r, step)
  PROVE  job' \in [Requests -> Job]
  BY DEF Goto, Job

LEMMA ReturnType ==
  ASSUME job \in [Requests -> Job], NEW r \in Requests, Return(r)
  PROVE  job' \in [Requests -> Job]
  BY StatusIs DEF Return, Job, IdleJob, JobSteps

LEMMA StartType ==
  ASSUME job \in [Requests -> Job], NEW r \in Requests, NEW step \in JobSteps,
         NEW status \in Status, NEW amount \in Nat, NEW hash \in Deposits \cup {NoHash},
         job' = [job EXCEPT ![r] =
                   [pc |-> step, status |-> status, amount |-> amount, hash |-> hash]]
  PROVE  job' \in [Requests -> Job]
  BY DEF Job

LEMMA WriteStatusType ==
  ASSUME request \in [Requests -> RequestRow], NEW r \in Requests, NEW status \in Status,
         WriteStatus(r, status)
  PROVE  request' \in [Requests -> RequestRow]
  BY DEF WriteStatus, RequestRow

LEMMA RowType ==
  ASSUME NEW rows \in [Requests -> RowStatus], NEW r \in Requests, NEW status \in RowStatus
  PROVE  [rows EXCEPT ![r] = status] \in [Requests -> RowStatus]
  OBVIOUS

LEMMA ChainType ==
  ASSUME chain \in [Outgoing -> ChainState], NEW x \in Outgoing, NEW state \in ChainState,
         chain' = [chain EXCEPT ![x] = state]
  PROVE  chain' \in [Outgoing -> ChainState]
  OBVIOUS

LEMMA SettleType ==
  ASSUME settle \in [Requests -> SettleSteps], NEW r \in Requests, NEW step \in SettleSteps,
         SettleGoto(r, step)
  PROVE  settle' \in [Requests -> SettleSteps]
  BY DEF SettleGoto

LEMMA WriteOutgoingType ==
  ASSUME transfer \in [Requests -> RowStatus], topup \in [Requests -> RowStatus],
         NEW x \in Outgoing, NEW status \in RowStatus, WriteOutgoing(x, status)
  PROVE  transfer' \in [Requests -> RowStatus] /\ topup' \in [Requests -> RowStatus]
  BY DEF WriteOutgoing, Outgoing

(* A snapshot of a row a poller looks at. *)
LEMMA SnapshotType ==
  ASSUME TypeOK, NEW r \in Active
  PROVE  SnapshotOf(r) \in RowSnapshot /\ SnapshotOf(r).status # "COMPLETED"
  BY StatusIs DEF TypeOK, Active, PollStatuses, SnapshotOf, RowSnapshot

LEMMA AcceptedType ==
  ASSUME TypeOK, NEW r \in Requests
  PROVE  AcceptedOf(r) \in Nat
  BY RequestsAssumption DEF TypeOK, AcceptedOf, Accepted

(* A request with a recorded deposit is in the database. *)
LEMMA PresentType ==
  ASSUME PipelineInv, NEW r \in Requests, recorded[r] # {}
  PROVE  request[r].status \in Status
<1>1. request[r].status \in Status \cup {"ABSENT"}
  BY DEF PipelineInv, TypeOK
<1>2. request[r].status # "ABSENT"
  BY DEF PipelineInv, RequestInv, SweepInv, Exists
<1> QED BY <1>1, <1>2

(* The initial state has the declared types. *)
LEMMA TypeInit == Init => TypeOK
<1> SUFFICES ASSUME Init PROVE TypeOK
  OBVIOUS
<1>1. request \in [Requests -> [status : Status \cup {"ABSENT"}, received : Nat]]
  BY DEF Init
<1>2. job \in [Requests -> Job]
  BY StatusIs DEF Init, Job, IdleJob, JobSteps
<1>3. chain \in [Outgoing -> ChainState]
  BY DEF Init, ChainState
<1>4. /\ recorded \in [Requests -> SUBSET DepositRow]
      /\ dpPending \subseteq RowSnapshot /\ txTargets \subseteq RowSnapshot
      /\ txFound \subseteq Found /\ twBatch \subseteq Outgoing
  BY DEF Init
<1>5. /\ transfer \in [Requests -> RowStatus]
      /\ topup \in [Requests -> RowStatus]
      /\ payout \in [Requests -> RowStatus]
      /\ settle \in [Requests -> SettleSteps]
  BY DEF Init, RowStatus, SettleSteps
<1> QED BY <1>1, <1>2, <1>3, <1>4, <1>5 DEF Init, TypeOK

LEMMA ClientType == TypeOK /\ Client => TypeOK'
<1> SUFFICES ASSUME TypeOK, Client PROVE TypeOK'
  OBVIOUS
<1> USE DEF TypeOK
<1>1. ASSUME NEW r \in Requests, CreateRequest(r) PROVE TypeOK'
  BY <1>1, StatusIs, WriteStatusType DEF CreateRequest, RequestRow
<1>2. ASSUME NEW r \in Requests, RequestAges(r) PROVE TypeOK'
  BY <1>2 DEF RequestAges
<1>3. ASSUME NEW d \in Deposits, ClientPays(d) PROVE TypeOK'
  <2>1. DepositOf[d] \in Requests /\ AmountOf[d] \in Nat
    BY RequestsAssumption
  <2>2. onchain' \in [Requests -> Nat]
    BY <1>3, <2>1 DEF ClientPays
  <2> QED BY <1>3, <2>2 DEF ClientPays
<1> QED BY <1>1, <1>2, <1>3 DEF Client

LEMMA WorldType == TypeOK /\ Chain => TypeOK'
<1> SUFFICES ASSUME TypeOK, NEW x \in Outgoing,
                    ChainConfirms(x) \/ ChainReverts(x) \/ OutgoingAges(x)
             PROVE  TypeOK'
  BY DEF Chain
<1> USE DEF TypeOK
<1>r. x[2] \in Requests
  BY DEF Outgoing
<1>1. CASE ChainConfirms(x)
  <2>1. chain' \in [Outgoing -> ChainState]
    BY <1>1, ChainType DEF ChainConfirms, ChainState
  <2>2. gas' \in [Requests -> BOOLEAN]
    BY <1>1, <1>r DEF ChainConfirms
  <2> QED BY <1>1, <2>1, <2>2 DEF ChainConfirms
<1>2. CASE ChainReverts(x)
  <2>1. chain' \in [Outgoing -> ChainState]
    BY <1>2, ChainType DEF ChainReverts, ChainState
  <2>2. onchain' \in [Requests -> Nat]
    BY <1>2, <1>r, AcceptedType DEF ChainReverts
  <2> QED BY <1>2, <2>1, <2>2 DEF ChainReverts
<1>3. CASE OutgoingAges(x)
  BY <1>3 DEF OutgoingAges
<1> QED BY <1>1, <1>2, <1>3

LEMMA DepositPollerType == TypeOK /\ DepositPoller => TypeOK'
<1> SUFFICES ASSUME TypeOK, DepositPoller PROVE TypeOK'
  OBVIOUS
<1> USE DEF TypeOK
<1>1. CASE DpPoll
  <2>1. dpPending' \subseteq RowSnapshot
    BY <1>1, SnapshotType DEF DpPoll
  <2> QED BY <1>1, <2>1 DEF DpPoll, Active
<1>2. ASSUME NEW r \in dpExpired, DpExpire(r) PROVE TypeOK'
  BY <1>2, StatusIs, WriteStatusType DEF DpExpire, RequestRow
<1>3. ASSUME NEW r \in dpExpired, DpExpireFails(r) PROVE TypeOK'
  BY <1>3 DEF DpExpireFails
<1>4. ASSUME NEW s \in dpPending, DpSkip(s) PROVE TypeOK'
  BY <1>4 DEF DpSkip, PoolTakes
<1>5. ASSUME NEW s \in dpPending, DpDetect(s) PROVE TypeOK'
  <2>1. s.req \in Requests /\ s.status \in Status
    BY DEF RowSnapshot
  <2>2. job' \in [Requests -> Job]
    BY <1>5, <2>1, StartType DEF DpDetect, JobSteps
  <2> QED BY <1>5, <2>2 DEF DpDetect, PoolTakes
<1> QED BY <1>1, <1>2, <1>3, <1>4, <1>5 DEF DepositPoller

LEMMA TxPollerType == TypeOK /\ TxPoller => TypeOK'
<1> SUFFICES ASSUME TypeOK, TxPoller PROVE TypeOK'
  OBVIOUS
<1> USE DEF TypeOK
<1>1. CASE TxPoll
  <2>1. txTargets' \subseteq RowSnapshot
    BY <1>1, SnapshotType DEF TxPoll
  <2> QED BY <1>1, <2>1 DEF TxPoll
<1>2. CASE TxInitCursor
  BY <1>2 DEF TxInitCursor
<1>3. CASE TxScan
  <2>1. txFound' \subseteq Found
    BY <1>3 DEF TxScan, Found
  <2> QED BY <1>3, <2>1 DEF TxScan
<1>4. CASE TxScanFails
  BY <1>4 DEF TxScanFails
<1>5. ASSUME NEW f \in txFound, TxTake(f) PROVE TypeOK'
  <2>1. f.row.req \in Requests /\ f.row.status \in Status /\ f.dep \in Deposits
    BY DEF Found, RowSnapshot
  <2>2. AmountOf[f.dep] \in Nat
    BY <2>1, RequestsAssumption
  <2>3. job' \in [Requests -> Job]
    BY <1>5, <2>1, <2>2, StartType DEF TxTake, JobSteps
  <2> QED BY <1>5, <2>3 DEF TxTake
<1> QED BY <1>1, <1>2, <1>3, <1>4, <1>5 DEF TxPoller

LEMMA JobType == ASSUME PipelineInv, NEW r \in Requests, JobStep(r) PROVE TypeOK'
<1>t. TypeOK
  BY DEF PipelineInv
<1> USE <1>t DEF TypeOK
<1>1. CASE JobRecord(r)
  <2>1. job' \in [Requests -> Job]
    BY <1>1, GotoType, ReturnType DEF JobRecord, JobSteps
  <2>2. job[r].status \in Status /\ job[r].amount \in Nat /\ job[r].hash \in Deposits \cup {NoHash}
    BY DEF Job
  <2>3. Advance(job[r].status, ClassifiedStatus(Expected[r], job[r].amount)) \in Status
    BY <2>2, AdvanceChooses, ClassifiedIsOpen, StatusIs
  <2>4. request' \in [Requests -> RequestRow]
    BY <1>1, <2>2, <2>3 DEF JobRecord, RequestRow
  <2>5. recorded' \in [Requests -> SUBSET DepositRow]
    BY <1>1, <2>2 DEF JobRecord, DepositRow
  <2> QED BY <1>1, <2>1, <2>4, <2>5 DEF JobRecord, RequestRow
<1>2. CASE JobIntent(r)
  <2>1. request[r].status \in Status
    <3>1. recorded[r] # {}
      BY <1>2 DEF JobIntent, PipelineInv, RequestInv, JobInv, Beyond, JobSteps
    <3> QED BY <3>1, PresentType
  <2>2. job' \in [Requests -> Job]
    <3>1. CASE NothingToSend(r)
      BY <1>2, <3>1, ReturnType DEF JobIntent
    <3>2. CASE ~NothingToSend(r)
      <4> DEFINE next == [job[r] EXCEPT !.pc = "sweep", !.status = request[r].status]
      <4>1. next \in Job
        BY <2>1, ZenonT(60) DEF Job, JobSteps
      <4>2. job' = [job EXCEPT ![r] = next]
        BY <1>2, <3>2 DEF JobIntent
      <4> QED BY <4>1, <4>2
    <3> QED BY <3>1, <3>2
  <2>3. transfer' \in [Requests -> RowStatus]
    BY <1>2 DEF JobIntent, RowStatus
  <2> QED BY <1>2, <2>2, <2>3 DEF JobIntent
<1>3. CASE JobSweep(r)
  <2>1. job' \in [Requests -> Job]
    BY <1>3, GotoType DEF JobSweep, JobSteps
  <2>2. chain' \in [Outgoing -> ChainState]
    BY <1>3, ChainType DEF JobSweep, ChainState, Outgoing
  <2>3. onchain' \in [Requests -> Nat]
    BY <1>3, AcceptedType DEF JobSweep
  <2>4. swept' \in [Requests -> Nat]
    BY <1>3 DEF JobSweep
  <2> QED BY <1>3, <2>1, <2>2, <2>3, <2>4 DEF JobSweep
<1>4. CASE JobTopUp(r)
  <2>1. job' \in [Requests -> Job]
    BY <1>4, GotoType DEF JobTopUp, JobSteps
  <2>2. chain' \in [Outgoing -> ChainState]
    BY <1>4, ChainType DEF JobTopUp, ChainState, Outgoing
  <2> QED BY <1>4, <2>1, <2>2 DEF JobTopUp
<1>5. CASE JobPersist(r)
  <2>1. job' \in [Requests -> Job]
    BY <1>5, ReturnType DEF JobPersist
  <2>2. Advance(job[r].status, "PROCESSING") \in Status
    BY AdvanceChooses, StatusIs DEF Job
  <2>3. request' \in [Requests -> RequestRow]
    BY <1>5, <2>2, WriteStatusType DEF JobPersist, RequestRow
  <2>4. transfer' \in [Requests -> RowStatus]
    BY <1>5 DEF JobPersist, RowStatus
  <2> QED BY <1>5, <2>1, <2>3, <2>4 DEF JobPersist, RequestRow
<1>6. CASE JobTopUpIntent(r)
  <2>1. job' \in [Requests -> Job]
    BY <1>6, GotoType DEF JobTopUpIntent, JobSteps
  <2>2. topup' \in [Requests -> RowStatus]
    BY <1>6 DEF JobTopUpIntent, RowStatus
  <2> QED BY <1>6, <2>1, <2>2 DEF JobTopUpIntent
<1>7. CASE JobTopUpPersist(r)
  <2>1. job' \in [Requests -> Job]
    BY <1>7, ReturnType DEF JobTopUpPersist
  <2>2. topup' \in [Requests -> RowStatus]
    BY <1>7 DEF JobTopUpPersist, RowStatus
  <2> QED BY <1>7, <2>1, <2>2 DEF JobTopUpPersist
<1>8. CASE JobThrows(r)
  BY <1>8, ReturnType DEF JobThrows
<1> QED BY <1>1, <1>2, <1>3, <1>4, <1>5, <1>6, <1>7, <1>8 DEF JobStep

LEMMA WatcherType == PipelineInv /\ Watcher => TypeOK'
<1> SUFFICES ASSUME PipelineInv, TypeOK, Watcher PROVE TypeOK'
  BY DEF PipelineInv
<1> USE DEF TypeOK
<1>1. CASE TwFetch
  BY <1>1 DEF TwFetch
<1>2. CASE TwFollowUp
  <2>1. ~Resumes(twHook[2])
    BY DEF Resumes, ResumablePayload, PolledPayload
  <2>2. settle' \in [Requests -> SettleSteps]
    BY <1>2 DEF TwFollowUp, SettleSteps
  <2> QED BY <1>2, <2>1, <2>2 DEF TwFollowUp
<1>3. CASE TwTickFails
  BY <1>3 DEF TwTickFails
<1>4. ASSUME NEW x \in twBatch, TwPending(x) PROVE TypeOK'
  BY <1>4 DEF TwPending, TwTakes
<1>5. ASSUME NEW x \in twBatch, TwFailed(x) PROVE TypeOK'
  <2>1. transfer' \in [Requests -> RowStatus] /\ topup' \in [Requests -> RowStatus]
    BY <1>5, WriteOutgoingType DEF TwFailed, RowStatus
  <2> QED BY <1>5, <2>1 DEF TwFailed, TwTakes
<1>6. ASSUME NEW x \in twBatch, TwConfirmed(x) PROVE TypeOK'
  <2>1. transfer' \in [Requests -> RowStatus] /\ topup' \in [Requests -> RowStatus]
    BY <1>6, WriteOutgoingType DEF TwConfirmed, RowStatus
  <2>2. request' \in [Requests -> RequestRow]
    <3>1. CASE x[1] = "TRANSFER" /\ ~IsFinal(request[x[2]].status)
      <4>1. x[2] \in Requests /\ transfer[x[2]] = "BROADCASTED"
        BY <3>1 DEF PipelineInv, MemoryInv, OutgoingRow, Outgoing
      <4>2. request[x[2]].status \in Status
        BY <4>1, PresentType DEF PipelineInv, RequestInv, SweepInv
      <4>3. Advance(request[x[2]].status, "PROCESSING") \in Status
        BY <4>2, AdvanceChooses, StatusIs
      <4> QED BY <1>6, <3>1, <4>1, <4>3, WriteStatusType DEF TwConfirmed, RequestRow
    <3>2. CASE ~(x[1] = "TRANSFER" /\ ~IsFinal(request[x[2]].status))
      BY <1>6, <3>2 DEF TwConfirmed, RequestRow
    <3> QED BY <3>1, <3>2
  <2> QED BY <1>6, <2>1, <2>2 DEF TwConfirmed, TwTakes, RequestRow
<1> QED BY <1>1, <1>2, <1>3, <1>4, <1>5, <1>6 DEF Watcher

LEMMA SettlementType == ASSUME TypeOK, NEW r \in Requests, SettleStep(r) PROVE TypeOK'
<1> USE DEF TypeOK
<1>1. CASE SettleBegin(r)
  BY <1>1, SettleType DEF SettleBegin, SettleSteps
<1>2. CASE SettleIntent(r)
  <2>1. payout' \in [Requests -> RowStatus]
    BY <1>2 DEF SettleIntent, RowStatus
  <2> QED BY <1>2, <2>1, SettleType DEF SettleIntent, SettleSteps
<1>3. CASE SettleIntentFails(r)
  BY <1>3, StatusIs, WriteStatusType, SettleType DEF SettleIntentFails, SettleSteps, RequestRow
<1>4. CASE SettleAcquire(r)
  <2>1. payout' \in [Requests -> RowStatus]
    BY <1>4 DEF SettleAcquire, RowStatus
  <2> QED BY <1>4, <2>1, SettleType DEF SettleAcquire, SettleSteps
<1>5. CASE SettleWithdraws(r)
  BY <1>5, SettleType DEF SettleWithdraws, SettleSteps
<1>6. CASE SettleRefused(r)
  <2>1. withdrawals' \in [Requests -> Nat]
    BY <1>6 DEF SettleRefused, RefusedThen
  <2> QED BY <1>6, <2>1, SettleType DEF SettleRefused, RefusedThen, SettleSteps
<1>7. CASE SettleFinalize(r)
  <2>1. payout' \in [Requests -> RowStatus]
    BY <1>7 DEF SettleFinalize, RowStatus
  <2> QED BY <1>7, <2>1, StatusIs, WriteStatusType, SettleType
          DEF SettleFinalize, SettleSteps, RequestRow
<1>8. CASE SettleFail(r)
  <2>1. payout' \in [Requests -> RowStatus]
    BY <1>8 DEF SettleFail, RowStatus
  <2> QED BY <1>8, <2>1, StatusIs, WriteStatusType, SettleType
          DEF SettleFail, SettleSteps, RequestRow
<1>9. CASE SettleThrows(r)
  BY <1>9, SettleType DEF SettleThrows, SettleSteps
<1> QED BY <1>1, <1>2, <1>3, <1>4, <1>5, <1>6, <1>7, <1>8, <1>9 DEF SettleStep

LEMMA CrashType == TypeOK /\ Crash => TypeOK'
<1> SUFFICES ASSUME TypeOK, Crash PROVE TypeOK'
  OBVIOUS
<1>1. job' \in [Requests -> Job]
  BY StatusIs DEF Crash, Job, IdleJob, JobSteps
<1>2. settle' \in [Requests -> SettleSteps]
  BY DEF Crash, SettleSteps
<1>3. crashes' \in Nat
  BY DEF Crash, TypeOK
<1>4. /\ dpExpired' = {} /\ dpPending' = {} /\ cursorSet' = FALSE /\ scanned' = {}
      /\ txTargets' = {} /\ txFound' = {} /\ twBatch' = {} /\ twHook' = NoRow
      /\ UNCHANGED <<dbVars, worldVars, aged, old>>
  BY DEF Crash
<1> QED BY <1>1, <1>2, <1>3, <1>4 DEF TypeOK

(* Every step keeps the types. *)
LEMMA TypeNext == PipelineInv /\ [Next]_vars => TypeOK'
<1> SUFFICES ASSUME PipelineInv, TypeOK, [Next]_vars PROVE TypeOK'
  BY DEF PipelineInv
<1>1. CASE UNCHANGED vars
  BY <1>1 DEF TypeOK
<1> QED BY <1>1, ClientType, WorldType, DepositPollerType, TxPollerType, JobType,
           WatcherType, SettlementType, CrashType DEF Next
-------------------------------------------------------------------------------
(* The inductive invariant. *)

(* A request keeps its invariant while nothing about it changes. *)
LEMMA Untouched ==
  ASSUME NEW q \in Requests, RequestInv(q),
         request'[q] = request[q], recorded'[q] = recorded[q],
         transfer'[q] = transfer[q], topup'[q] = topup[q], payout'[q] = payout[q],
         swept'[q] = swept[q], withdrawals'[q] = withdrawals[q],
         chain'[<<"TRANSFER", q>>] = chain[<<"TRANSFER", q>>],
         job'[q] = job[q], settle'[q] = settle[q],
         twHook' = <<"TRANSFER", q>> => twHook = <<"TRANSFER", q>>
  PROVE  RequestInv(q)'
  BY DEF RequestInv, JobInv, SweepInv, SettleInv, LedgerOf, CompletionOf, Exists

(* A new status of a top-up that was there disturbs nothing else. *)
LEMMA TopUpOnly ==
  ASSUME NEW q \in Requests, RequestInv(q), topup[q] # "NONE",
         request'[q] = request[q], recorded'[q] = recorded[q],
         transfer'[q] = transfer[q], payout'[q] = payout[q],
         swept'[q] = swept[q], withdrawals'[q] = withdrawals[q],
         chain'[<<"TRANSFER", q>>] = chain[<<"TRANSFER", q>>],
         job'[q] = job[q], settle'[q] = settle[q],
         twHook' = <<"TRANSFER", q>> => twHook = <<"TRANSFER", q>>
  PROVE  RequestInv(q)'
<1>1. JobInv(q)'
  BY DEF RequestInv, JobInv
<1>2. SweepInv(q)'
  BY DEF RequestInv, SweepInv, Exists
<1>3. SettleInv(q)' /\ LedgerOf(q)' /\ CompletionOf(q)'
  BY DEF RequestInv, SettleInv, LedgerOf, CompletionOf
<1> QED BY <1>1, <1>2, <1>3 DEF RequestInv

(* A job touches its own request only. *)
LEMMA JobOfOthers ==
  ASSUME PipelineInv, NEW r \in Requests, JobStep(r), NEW q \in Requests \ {r}
  PROVE  RequestInv(q)'
<1> USE DEF TypeOK, PipelineInv, Goto, Return, WriteStatus
<1>1. /\ request'[q] = request[q] /\ recorded'[q] = recorded[q]
      /\ transfer'[q] = transfer[q] /\ topup'[q] = topup[q]
  BY DEF JobStep, JobRecord, JobIntent, JobSweep, JobTopUp, JobPersist, JobTopUpIntent,
         JobTopUpPersist, JobThrows
<1>2. /\ payout'[q] = payout[q] /\ swept'[q] = swept[q]
      /\ withdrawals'[q] = withdrawals[q]
      /\ chain'[<<"TRANSFER", q>>] = chain[<<"TRANSFER", q>>]
  BY DEF JobStep, JobRecord, JobIntent, JobSweep, JobTopUp, JobPersist, JobTopUpIntent,
         JobTopUpPersist, JobThrows, Outgoing
<1>3. job'[q] = job[q] /\ settle'[q] = settle[q] /\ twHook' = twHook
  BY DEF JobStep, JobRecord, JobIntent, JobSweep, JobTopUp, JobPersist, JobTopUpIntent,
         JobTopUpPersist, JobThrows
<1> QED BY <1>1, <1>2, <1>3, Untouched

(* Nothing is settled while the transfer is not confirmed. *)
LEMMA Unsettled ==
  ASSUME PipelineInv, NEW r \in Requests, transfer[r] # "CONFIRMED"
  PROVE  /\ settle[r] = "idle" /\ twHook # <<"TRANSFER", r>>
         /\ payout[r] = "NONE" /\ withdrawals[r] = 0
         /\ request[r].status # "COMPLETED"
<1>1. settle[r] = "idle" /\ twHook # <<"TRANSFER", r>> /\ payout[r] = "NONE"
  BY DEF PipelineInv, RequestInv, SettleInv
<1>2. withdrawals[r] \in Nat /\ ~(withdrawals[r] > 0)
  BY DEF PipelineInv, TypeOK, RequestInv, SettleInv
<1>3. request[r].status # "COMPLETED"
  BY <1>1 DEF PipelineInv, RequestInv, CompletionOf
<1> QED BY <1>1, <1>2, <1>3

LEMMA JobOfItself ==
  ASSUME PipelineInv, NEW r \in Requests, JobStep(r)
  PROVE  RequestInv(r)'
<1> USE DEF TypeOK, PipelineInv, RequestInv
<1>1. CASE JobRecord(r)
  <2> USE DEF JobRecord
  <2>1. CASE recorded[r] # {}
    <3>1. /\ job'[r] = IdleJob
          /\ UNCHANGED <<request, recorded, transfer, topup, payout, swept, withdrawals, chain,
                         settle, twHook>>
      BY <1>1, <2>1 DEF Return
    <3>2. JobInv(r)'
      BY <3>1 DEF IdleJob, JobInv, Beyond, JobSteps
    <3> HIDE DEF JobRecord, TypeOK
    <3>3. SweepInv(r)' /\ SettleInv(r)'
      BY <3>1 DEF SweepInv, SettleInv, Exists
    <3>4. LedgerOf(r)' /\ CompletionOf(r)'
      BY <3>1 DEF LedgerOf, CompletionOf
    <3> QED BY <3>2, <3>3, <3>4
  <2>2. CASE recorded[r] = {}
    <3> DEFINE row == [hash |-> job[r].hash, amount |-> job[r].amount]
               status == Advance(job[r].status, ClassifiedStatus(Expected[r], job[r].amount))
    <3>1. recorded'[r] = {row} /\ request'[r] = [status |-> status, received |-> row.amount]
      BY <1>1, <2>2
    <3>2. status \in Status /\ status # "COMPLETED"
      <4> DEFINE kind == ClassifiedStatus(Expected[r], job[r].amount)
      <4>1. job[r].status \in Status /\ job[r].status # "COMPLETED"
        BY DEF JobInv, Job
      <4>2. kind \in Status /\ kind # "COMPLETED"
        <5> HIDE DEF TypeOK, PipelineInv, RequestInv, JobRecord
        <5> QED BY ClassifiedIsOpen, StatusIs
      <4>3. status \in {job[r].status, kind}
        <5> HIDE DEF TypeOK, PipelineInv, RequestInv, JobRecord
        <5> QED BY AdvanceChooses
      <4> HIDE DEF kind, status
      <4> QED BY <4>1, <4>2, <4>3
    <3>3. /\ row.amount \in Nat /\ Expected[r] \in Nat
          /\ job'[r].pc = "intent" => row.amount >= Expected[r]
          /\ job'[r].pc \in {"idle", "intent"} /\ job'[r].status # "COMPLETED"
      <4>1. row.amount \in Nat /\ Expected[r] \in Nat
        BY RequestsAssumption DEF Job
      <4>2. CASE Kind(Expected[r], job[r].amount) = "underpaid"
        BY <1>1, <2>2, <4>1, <4>2 DEF Return, IdleJob
      <4>3. CASE Kind(Expected[r], job[r].amount) # "underpaid"
        <5>1. row.amount >= Expected[r]
          BY <4>1, <4>3 DEF Kind
        <5> QED BY <1>1, <2>2, <4>1, <4>3, <5>1 DEF Goto, JobInv, Job
      <4> QED BY <4>2, <4>3
    <3>4. /\ swept[r] = 0 /\ transfer[r] = "NONE" /\ topup[r] = "NONE"
          /\ settle[r] = "idle" /\ payout[r] = "NONE" /\ withdrawals[r] = 0
          /\ twHook # <<"TRANSFER", r>>
      BY <2>2, Unsettled DEF SweepInv
    <3>5. JobInv(r)' /\ SweepInv(r)'
      BY <1>1, <3>1, <3>2, <3>3, <3>4, StatusIs DEF JobInv, SweepInv, Beyond, JobSteps, HasHash, Exists
    <3>6. SettleInv(r)'
      BY <1>1, <3>4 DEF SettleInv
    <3>7. LedgerOf(r)' /\ CompletionOf(r)'
      BY <1>1, <3>1, <3>2, <3>4 DEF LedgerOf, CompletionOf
    <3> QED BY <3>5, <3>6, <3>7
  <2> QED BY <2>1, <2>2
<1>2. CASE JobIntent(r)
  <2> USE DEF JobIntent
  <2>1. CASE NothingToSend(r)
    BY <1>2, <2>1 DEF Return, IdleJob, JobInv, SweepInv, SettleInv, LedgerOf, CompletionOf,
                      Beyond, JobSteps, Exists
  <2>2. CASE ~NothingToSend(r)
    <3>1. /\ recorded[r] # {} /\ request[r].received >= Expected[r] /\ swept[r] = 0
          /\ withdrawals[r] = 0 /\ payout[r] = "NONE" /\ settle[r] = "idle"
          /\ twHook # <<"TRANSFER", r>> /\ request[r].status # "COMPLETED"
      BY <1>2, <2>2, Unsettled DEF NothingToSend, JobInv, Beyond, JobSteps, HasHash
    <3>2. transfer'[r] = "CREATED" /\ job'[r].pc = "sweep" /\ job'[r].status = request[r].status
      BY <1>2, <2>2 DEF Job
    <3>3. JobInv(r)' /\ SweepInv(r)'
      BY <1>2, <2>2, <3>1, <3>2 DEF NothingToSend, JobInv, SweepInv, Beyond, JobSteps, HasHash, Exists
    <3> QED BY <1>2, <3>1, <3>3 DEF SettleInv, LedgerOf, CompletionOf
  <2> QED BY <2>1, <2>2
<1>3. CASE JobSweep(r)
  <2> USE DEF JobSweep, Goto
  <2>1. transfer[r] = "CREATED" /\ recorded[r] # {} /\ swept[r] = 0
    BY <1>3 DEF JobInv, Beyond, JobSteps
  <2>2. swept'[r] = 1 /\ job'[r].pc = "persist" /\ job'[r].status = job[r].status
    BY <1>3, <2>1 DEF Job
  <2>3. JobInv(r)' /\ SweepInv(r)'
    BY <1>3, <2>1, <2>2 DEF JobInv, SweepInv, Beyond, JobSteps, HasHash, Exists
  <2> QED BY <1>3, <2>1, <2>3, Unsettled DEF SettleInv, LedgerOf, CompletionOf
<1>4. CASE JobTopUp(r)
  <2> USE DEF JobTopUp, Goto
  <2>1. job'[r].pc = "topupIntent" /\ job'[r].status = job[r].status
    BY <1>4 DEF Job
  <2>2. chain'[<<"TRANSFER", r>>] = chain[<<"TRANSFER", r>>]
    BY <1>4 DEF Outgoing
  <2>3. JobInv(r)' /\ SweepInv(r)'
    BY <1>4, <2>1, <2>2 DEF JobInv, SweepInv, Beyond, JobSteps, Exists
  <2> QED BY <1>4, <2>3 DEF SettleInv, LedgerOf, CompletionOf
<1>5. CASE JobPersist(r)
  <2> USE DEF JobPersist, WriteStatus
  <2>1. /\ recorded[r] # {} /\ request[r].received >= Expected[r] /\ swept[r] = 1
        /\ withdrawals[r] = 0 /\ payout[r] = "NONE" /\ settle[r] = "idle"
        /\ twHook # <<"TRANSFER", r>>
    BY <1>5, Unsettled DEF JobInv, Beyond, JobSteps
  <2>2. Advance(job[r].status, "PROCESSING") \in Status \ {"COMPLETED"}
    BY AdvanceChooses, StatusIs DEF JobInv, Job
  <2>3. /\ transfer'[r] = "BROADCASTED" /\ job'[r] = IdleJob
        /\ request'[r].status \in Status \ {"COMPLETED"}
        /\ request'[r].received = request[r].received
    BY <1>5, <2>2 DEF Return
  <2>4. JobInv(r)' /\ SweepInv(r)'
    BY <1>5, <2>1, <2>3, StatusIs DEF IdleJob, JobInv, SweepInv, Beyond, HasHash, Exists
  <2> QED BY <1>5, <2>1, <2>3, <2>4 DEF SettleInv, LedgerOf, CompletionOf
<1>6. CASE JobTopUpIntent(r)
  <2> USE DEF JobTopUpIntent, Goto
  <2>1. job'[r].pc = "topupPersist" /\ job'[r].status = job[r].status
    BY <1>6 DEF Job
  <2>2. recorded[r] # {} /\ request[r].received >= Expected[r]
    BY <1>6 DEF JobInv, Beyond, JobSteps
  <2>3. JobInv(r)' /\ SweepInv(r)'
    BY <1>6, <2>1, <2>2 DEF JobInv, SweepInv, Beyond, JobSteps, Exists
  <2> QED BY <1>6, <2>3 DEF SettleInv, LedgerOf, CompletionOf
<1>7. CASE JobTopUpPersist(r)
  <2> USE DEF JobTopUpPersist, Return
  <2>1. job'[r] = IdleJob
    BY <1>7
  <2>2. recorded[r] # {} /\ request[r].received >= Expected[r]
    BY <1>7 DEF JobInv, Beyond, JobSteps
  <2>3. JobInv(r)'
    BY <2>1 DEF IdleJob, JobInv, Beyond, JobSteps
  <2>4. SweepInv(r)'
    BY <1>7, <2>2 DEF SweepInv, HasHash, Exists
  <2> QED BY <1>7, <2>3, <2>4 DEF SettleInv, LedgerOf, CompletionOf
<1>8. CASE JobThrows(r)
  <2> USE DEF JobThrows, Return
  <2>1. job'[r] = IdleJob
    BY <1>8
  <2>2. JobInv(r)'
    BY <2>1 DEF IdleJob, JobInv, Beyond, JobSteps
  <2> QED BY <1>8, <2>2 DEF SweepInv, SettleInv, LedgerOf, CompletionOf, HasHash, Exists
<1> QED BY <1>1, <1>2, <1>3, <1>4, <1>5, <1>6, <1>7, <1>8 DEF JobStep

(* A job writes no row that has a hash, so the watcher's batch stays true. *)
LEMMA JobKeepsMemory ==
  ASSUME PipelineInv, NEW r \in Requests, JobStep(r)
  PROVE  MemoryInv'
<1>1. UNCHANGED <<twBatch, dpPending, txTargets, txFound>>
  BY DEF JobStep, JobRecord, JobIntent, JobSweep, JobTopUp, JobPersist, JobTopUpIntent,
         JobTopUpPersist, JobThrows
<1>2. ASSUME NEW x \in twBatch PROVE OutgoingRow(x)' = "BROADCASTED"
  <2>1. x \in Outgoing /\ OutgoingRow(x) = "BROADCASTED"
    BY DEF PipelineInv, TypeOK, MemoryInv
  <2>2. transfer' = transfer \/ \E row \in RowStatus :
          ~HasHash(transfer[r]) /\ transfer' = [transfer EXCEPT ![r] = row]
    <3>1. CASE JobIntent(r)
      BY <3>1 DEF JobIntent, NothingToSend, RowStatus
    <3>2. CASE JobPersist(r)
      BY <3>2 DEF JobPersist, PipelineInv, RequestInv, JobInv, HasHash, RowStatus
    <3> QED BY <3>1, <3>2 DEF JobStep, JobRecord, JobSweep, JobTopUp, JobTopUpIntent,
                              JobTopUpPersist, JobThrows
  <2>3. topup' = topup \/ \E row \in RowStatus :
          (~HasHash(topup[r]) \/ row = topup[r]) /\ topup' = [topup EXCEPT ![r] = row]
    BY DEF JobStep, JobRecord, JobIntent, JobSweep, JobTopUp, JobPersist, JobTopUpIntent,
           JobTopUpPersist, JobThrows, PipelineInv, TypeOK, HasHash, RowStatus
  <2> QED BY <2>1, <2>2, <2>3 DEF OutgoingRow, Outgoing, HasHash, PipelineInv, TypeOK
<1> QED BY <1>1, <1>2 DEF MemoryInv, PipelineInv

LEMMA SettlementOfOthers ==
  ASSUME PipelineInv, NEW r \in Requests, SettleStep(r), NEW q \in Requests \ {r}
  PROVE  RequestInv(q)'
<1> USE DEF TypeOK, PipelineInv, SettleGoto, WriteStatus
<1>1. /\ request'[q] = request[q] /\ payout'[q] = payout[q]
      /\ withdrawals'[q] = withdrawals[q] /\ settle'[q] = settle[q]
  BY DEF SettleStep, SettleBegin, SettleIntent, SettleIntentFails, SettleAcquire,
         SettleWithdraws, SettleRefused, RefusedThen, SettleFinalize, SettleFail, SettleThrows
<1>2. UNCHANGED <<recorded, transfer, topup, swept, chain, job, twHook>>
  BY DEF SettleStep, SettleBegin, SettleIntent, SettleIntentFails, SettleAcquire,
         SettleWithdraws, SettleRefused, RefusedThen, SettleFinalize, SettleFail, SettleThrows
<1> QED BY <1>1, <1>2, Untouched

LEMMA SettlementKeepsMemory ==
  ASSUME PipelineInv, NEW r \in Requests, SettleStep(r)
  PROVE  MemoryInv'
<1>1. UNCHANGED <<transfer, topup, twBatch, dpPending, txTargets, txFound>>
  BY DEF SettleStep, SettleBegin, SettleIntent, SettleIntentFails, SettleAcquire,
         SettleWithdraws, SettleRefused, RefusedThen, SettleFinalize, SettleFail, SettleThrows
<1> QED BY <1>1 DEF MemoryInv, OutgoingRow, PipelineInv

LEMMA SettlementOfItself ==
  ASSUME PipelineInv, NEW r \in Requests, SettleStep(r)
  PROVE  RequestInv(r)'
<1> USE DEF TypeOK, PipelineInv, RequestInv, SettleGoto
<1>1. transfer[r] = "CONFIRMED" /\ twHook # <<"TRANSFER", r>>
  BY DEF SettleInv, SettleStep, SettleBegin, SettleIntent, SettleIntentFails, SettleAcquire,
         SettleWithdraws, SettleRefused, RefusedThen, SettleFinalize, SettleFail, SettleThrows
<1>2. /\ UNCHANGED <<recorded, transfer, topup, swept, chain, job, twHook>>
      /\ request'[r].received = request[r].received
      /\ request'[r].status # "ABSENT" \/ request'[r].status = request[r].status
  BY DEF SettleStep, SettleBegin, SettleIntent, SettleIntentFails, SettleAcquire,
         SettleWithdraws, SettleRefused, RefusedThen, SettleFinalize, SettleFail, SettleThrows, WriteStatus
<1>3. JobInv(r)' /\ SweepInv(r)' /\ LedgerOf(r)'
  <2>1. JobInv(r)'
    BY <1>2 DEF JobInv
  <2>2. SweepInv(r)'
    BY <1>2 DEF SweepInv, Exists
  <2>3. LedgerOf(r)'
    BY <1>2 DEF LedgerOf
  <2> QED BY <2>1, <2>2, <2>3
<1>4. SettleInv(r)' /\ CompletionOf(r)'
  <2> USE <1>1 DEF SettleInv, CompletionOf
  <2>1. CASE SettleBegin(r)
    BY <2>1 DEF SettleBegin
  <2>2. CASE SettleIntent(r)
    BY <2>2 DEF SettleIntent
  <2>3. CASE SettleIntentFails(r)
    BY <2>3 DEF SettleIntentFails, WriteStatus
  <2>4. CASE SettleAcquire(r)
    BY <2>4 DEF SettleAcquire
  <2>5. CASE SettleWithdraws(r)
    BY <2>5 DEF SettleWithdraws
  <2>6. CASE SettleRefused(r)
    BY <2>6 DEF SettleRefused, RefusedThen
  <2>7. CASE SettleFinalize(r)
    BY <2>7 DEF SettleFinalize, WriteStatus
  <2>8. CASE SettleFail(r)
    BY <2>8 DEF SettleFail, WriteStatus
  <2>9. CASE SettleThrows(r)
    BY <2>9 DEF SettleThrows
  <2> QED BY <2>1, <2>2, <2>3, <2>4, <2>5, <2>6, <2>7, <2>8, <2>9 DEF SettleStep
<1> QED BY <1>3, <1>4

(* The request of an outgoing row. *)
LEMMA OutgoingCases ==
  ASSUME NEW x \in Outgoing
  PROVE  /\ x[1] \in {"TRANSFER", "TOPUP"} /\ x[2] \in Requests
         /\ x = <<x[1], x[2]>>
  BY DEF Outgoing

(* The watcher confirms a transfer once: its row was BROADCASTED, so no
   settlement of it has begun. *)
LEMMA ConfirmKeeps ==
  ASSUME PipelineInv, NEW x \in twBatch, TwConfirmed(x), NEW q \in Requests
  PROVE  RequestInv(q)'
<1> USE DEF TypeOK, PipelineInv, TwConfirmed, TwTakes
<1>1. x[1] \in {"TRANSFER", "TOPUP"} /\ x[2] \in Requests /\ x = <<x[1], x[2]>>
  BY OutgoingCases
<1>2. CASE x = <<"TRANSFER", q>>
  <2>1. transfer[q] = "BROADCASTED" /\ transfer'[q] = "CONFIRMED"
    BY <1>2 DEF MemoryInv, OutgoingRow, WriteOutgoing
  <2>2. /\ settle[q] = "idle" /\ payout[q] = "NONE" /\ withdrawals[q] = 0
        /\ request[q].status # "COMPLETED"
    BY <2>1, Unsettled
  <2>3. recorded[q] # {} /\ request[q].status \in Status
    BY <2>1, PresentType DEF RequestInv, SweepInv
  <2>4. /\ request'[q].received = request[q].received
        /\ request'[q].status \in Status \ {"COMPLETED"}
    BY <1>2, <2>2, <2>3, AdvanceChooses, StatusIs DEF WriteStatus
  <2>5. JobInv(q)' /\ SweepInv(q)'
    BY <1>2, <2>1, <2>3, <2>4, StatusIs
       DEF RequestInv, JobInv, SweepInv, HasHash, Exists, WriteOutgoing, Beyond, JobSteps
  <2> QED BY <1>2, <2>1, <2>2, <2>4, <2>5 DEF RequestInv, SettleInv, LedgerOf, CompletionOf
<1>3. CASE x = <<"TOPUP", q>>
  <2>1. transfer' = transfer /\ request' = request /\ topup[q] = "BROADCASTED"
    BY <1>3 DEF WriteOutgoing, MemoryInv, OutgoingRow
  <2>2. topup'[q] = "CONFIRMED" /\ twHook' # <<"TRANSFER", q>>
    BY <1>3 DEF WriteOutgoing
  <2> QED BY <2>1, <2>2, TopUpOnly
<1>4. CASE x[2] # q
  <2>1. transfer'[q] = transfer[q] /\ topup'[q] = topup[q] /\ request'[q] = request[q]
    BY <1>1, <1>4 DEF WriteOutgoing, WriteStatus
  <2>2. twHook' # <<"TRANSFER", q>>
    BY <1>1, <1>4
  <2> QED BY <2>1, <2>2, Untouched
<1> QED BY <1>1, <1>2, <1>3, <1>4

LEMMA RevertKeeps ==
  ASSUME PipelineInv, NEW x \in twBatch, TwFailed(x), NEW q \in Requests
  PROVE  RequestInv(q)'
<1> USE DEF TypeOK, PipelineInv, TwFailed, TwTakes
<1>1. x[1] \in {"TRANSFER", "TOPUP"} /\ x[2] \in Requests /\ x = <<x[1], x[2]>>
  BY OutgoingCases
<1>2. CASE x = <<"TRANSFER", q>>
  <2>1. transfer[q] = "BROADCASTED" /\ transfer'[q] = "FAILED" /\ topup' = topup
    BY <1>2 DEF MemoryInv, OutgoingRow, WriteOutgoing
  <2>2. settle[q] = "idle" /\ payout[q] = "NONE" /\ withdrawals[q] = 0 /\ twHook = NoRow
    BY <2>1, Unsettled
  <2>3. JobInv(q)' /\ SweepInv(q)'
    BY <2>1 DEF RequestInv, JobInv, SweepInv, HasHash, Exists, Beyond, JobSteps
  <2>4. twHook' # <<"TRANSFER", q>>
    BY <2>1, Unsettled
  <2> QED BY <2>1, <2>2, <2>3, <2>4 DEF RequestInv, SettleInv, LedgerOf, CompletionOf
<1>3. CASE x = <<"TOPUP", q>>
  <2>1. transfer' = transfer /\ topup[q] = "BROADCASTED"
    BY <1>3 DEF WriteOutgoing, MemoryInv, OutgoingRow
  <2>2. topup'[q] = "FAILED"
    BY <1>3 DEF WriteOutgoing
  <2> QED BY <2>1, <2>2, TopUpOnly
<1>4. CASE x[2] # q
  <2>1. transfer'[q] = transfer[q] /\ topup'[q] = topup[q]
    BY <1>1, <1>4 DEF WriteOutgoing
  <2> QED BY <2>1, Untouched
<1> QED BY <1>1, <1>2, <1>3, <1>4

(* A row leaves the batch before it is written. *)
LEMMA BatchKeeps ==
  ASSUME PipelineInv, NEW x \in twBatch, TwConfirmed(x) \/ TwFailed(x)
  PROVE  MemoryInv'
<1> USE DEF TypeOK, PipelineInv, MemoryInv, TwConfirmed, TwFailed, TwTakes
<1>1. UNCHANGED <<dpPending, txTargets, txFound>> /\ twBatch' = twBatch \ {x}
  OBVIOUS
<1>2. ASSUME NEW y \in twBatch \ {x} PROVE OutgoingRow(y)' = OutgoingRow(y)
  <2>1. y[1] \in {"TRANSFER", "TOPUP"} /\ y[2] \in Requests /\ y = <<y[1], y[2]>>
    BY OutgoingCases
  <2>2. x[1] \in {"TRANSFER", "TOPUP"} /\ x[2] \in Requests /\ x = <<x[1], x[2]>>
    BY OutgoingCases
  <2>3. x[1] # y[1] \/ x[2] # y[2]
    BY <2>1, <2>2
  <2> QED BY <2>1, <2>2, <2>3 DEF OutgoingRow, WriteOutgoing
<1> QED BY <1>1, <1>2

LEMMA WatcherKeeps == PipelineInv /\ Watcher => PipelineInv'
<1> SUFFICES ASSUME PipelineInv, Watcher
             PROVE  (\A q \in Requests : RequestInv(q)') /\ MemoryInv'
  BY WatcherType DEF PipelineInv
<1> USE DEF PipelineInv, TypeOK
<1>1. CASE TwFetch
  <2>1. \A q \in Requests : RequestInv(q)'
    BY <1>1, Untouched DEF TwFetch
  <2>2. MemoryInv'
    BY <1>1 DEF TwFetch, MemoryInv, OutgoingRow
  <2> QED BY <2>1, <2>2
<1>2. CASE TwFollowUp
  <2>1. UNCHANGED <<dbVars, worldVars, envVars, dpVars, txVars, twBatch, job>> /\ twHook' = NoRow
    BY <1>2 DEF TwFollowUp, Resumes, ResumablePayload, PolledPayload
  <2>2. MemoryInv'
    BY <2>1 DEF MemoryInv, OutgoingRow
  <2>3. \A r \in Requests : NoRow # <<"TRANSFER", r>>
    BY BoundsAssumption
  <2>4. ASSUME NEW q \in Requests PROVE RequestInv(q)'
    <3>1. CASE twHook = <<"TRANSFER", q>>
      <4>1. settle'[q] = "start"
        BY <1>2, <3>1 DEF TwFollowUp
      <4> QED BY <2>1, <2>3, <3>1, <4>1 DEF RequestInv, JobInv, SweepInv, SettleInv, LedgerOf,
                                       CompletionOf, Exists
    <3>2. CASE twHook # <<"TRANSFER", q>>
      <4>1. twHook \in Outgoing
        BY <1>2 DEF TwFollowUp
      <4>2. settle'[q] = settle[q]
        BY <1>2, <3>2, <4>1, OutgoingCases DEF TwFollowUp
      <4> QED BY <2>1, <2>3, <4>2, Untouched
    <3> QED BY <3>1, <3>2
  <2> QED BY <2>2, <2>4
<1>3. CASE TwTickFails
  <2>1. \A q \in Requests : RequestInv(q)'
    BY <1>3, Untouched DEF TwTickFails
  <2> QED BY <1>3, <2>1 DEF TwTickFails, MemoryInv
<1>4. ASSUME NEW x \in twBatch, TwPending(x)
      PROVE  (\A q \in Requests : RequestInv(q)') /\ MemoryInv'
  <2>1. \A q \in Requests : RequestInv(q)'
    BY <1>4, Untouched DEF TwPending, TwTakes
  <2> QED BY <1>4, <2>1 DEF TwPending, TwTakes, MemoryInv, OutgoingRow
<1> QED BY <1>1, <1>2, <1>3, <1>4, ConfirmKeeps, RevertKeeps, BatchKeeps DEF Watcher

(* The chain decides about a broadcast once, so confirmed stays confirmed. *)
LEMMA ChainKeeps ==
  ASSUME PipelineInv, Chain
  PROVE  (\A q \in Requests : RequestInv(q)') /\ MemoryInv'
<1> PICK x \in Outgoing : ChainConfirms(x) \/ ChainReverts(x) \/ OutgoingAges(x)
  BY DEF Chain
<1> USE DEF PipelineInv, TypeOK
<1>1. UNCHANGED <<dbVars, swept, withdrawals, memoryVars>>
  BY DEF ChainConfirms, ChainReverts, OutgoingAges
<1>2. \A q \in Requests : chain[<<"TRANSFER", q>>] = "confirmed" =>
                            chain'[<<"TRANSFER", q>>] = "confirmed"
  BY DEF ChainConfirms, ChainReverts, OutgoingAges, Outgoing
<1>3. MemoryInv'
  BY <1>1 DEF MemoryInv, OutgoingRow
<1> QED BY <1>1, <1>2, <1>3 DEF RequestInv, JobInv, SweepInv, SettleInv, LedgerOf, CompletionOf,
                            Exists

LEMMA ClientKeeps ==
  ASSUME PipelineInv, Client
  PROVE  (\A q \in Requests : RequestInv(q)') /\ MemoryInv'
<1> USE DEF PipelineInv, TypeOK
<1>1. UNCHANGED <<recorded, transfer, topup, payout, chain, swept, withdrawals, memoryVars>>
  BY DEF Client, CreateRequest, RequestAges, ClientPays
<1>2. MemoryInv'
  BY <1>1 DEF MemoryInv, OutgoingRow
<1>3. ASSUME NEW q \in Requests PROVE RequestInv(q)'
  <2>1. \/ request'[q] = request[q]
        \/ request'[q] = [request[q] EXCEPT !.status = "CREATED"]
    BY DEF Client, CreateRequest, RequestAges, ClientPays, WriteStatus
  <2>2. request'[q].received = request[q].received
    BY <2>1
  <2>3. request'[q].status \in {"CREATED", request[q].status}
    BY <2>1
  <2>4. JobInv(q)' /\ SettleInv(q)'
    BY <1>1, <2>2 DEF RequestInv, JobInv, SettleInv
  <2>5. SweepInv(q)'
    BY <1>1, <2>2, <2>3 DEF RequestInv, SweepInv, Exists
  <2>6. LedgerOf(q)'
    BY <1>1, <2>2 DEF RequestInv, LedgerOf
  <2>7. CompletionOf(q)'
    BY <1>1, <2>3 DEF RequestInv, CompletionOf
  <2> QED BY <2>4, <2>5, <2>6, <2>7 DEF RequestInv
<1> QED BY <1>2, <1>3

(* A job that starts has nothing behind it yet. *)
LEMMA StartKeeps ==
  ASSUME PipelineInv, NEW r \in Requests, NEW status, status # "COMPLETED",
         NEW amount, amount > 0, NEW hash,
         job' = [job EXCEPT ![r] =
                   [pc |-> "record", status |-> status, amount |-> amount, hash |-> hash]],
         UNCHANGED <<dbVars, worldVars, twVars, settle>>,
         NEW q \in Requests
  PROVE  RequestInv(q)'
<1> USE DEF PipelineInv, TypeOK
<1>1. CASE q = r
  <2>1. job'[q].pc = "record" /\ job'[q].status # "COMPLETED" /\ job'[q].amount > 0
    BY <1>1
  <2> QED BY <1>1, <2>1 DEF RequestInv, JobInv, SweepInv, SettleInv, LedgerOf, CompletionOf,
                            Beyond, Exists
<1>2. CASE q # r
  BY <1>2, Untouched
<1> QED BY <1>1, <1>2

LEMMA DepositPollerKeeps ==
  ASSUME PipelineInv, DepositPoller
  PROVE  (\A q \in Requests : RequestInv(q)') /\ MemoryInv'
<1> USE DEF PipelineInv, TypeOK
<1>1. CASE DpPoll
  <2>1. \A q \in Requests : RequestInv(q)'
    BY <1>1, Untouched DEF DpPoll
  <2>2. \A s \in dpPending' : s.status # "COMPLETED"
    BY <1>1, SnapshotType DEF DpPoll
  <2> QED BY <1>1, <2>1, <2>2 DEF DpPoll, MemoryInv, OutgoingRow
<1>2. ASSUME NEW r \in dpExpired, DpExpire(r)
      PROVE  (\A q \in Requests : RequestInv(q)') /\ MemoryInv'
  <2>1. MemoryInv'
    BY <1>2 DEF DpExpire, MemoryInv, OutgoingRow
  <2>2. RequestInv(r)'
    <3>1. /\ request'[r].status = "FAILED" /\ request'[r].received = request[r].received
          /\ UNCHANGED <<recorded, transfer, topup, payout, worldVars, job, twVars, settle>>
      BY <1>2 DEF DpExpire, WriteStatus
    <3>2. JobInv(r)' /\ SettleInv(r)'
      BY <3>1 DEF RequestInv, JobInv, SettleInv
    <3>3. SweepInv(r)'
      BY <3>1 DEF RequestInv, SweepInv, Exists
    <3> QED BY <3>1, <3>2, <3>3 DEF RequestInv, LedgerOf, CompletionOf
  <2>3. \A q \in Requests \ {r} : RequestInv(q)'
    BY <1>2, Untouched DEF DpExpire, WriteStatus
  <2> QED BY <2>1, <2>2, <2>3
<1>3. ASSUME NEW r \in dpExpired, DpExpireFails(r)
      PROVE  (\A q \in Requests : RequestInv(q)') /\ MemoryInv'
  BY <1>3, Untouched DEF DpExpireFails, MemoryInv, OutgoingRow
<1>4. ASSUME NEW s \in dpPending, DpSkip(s)
      PROVE  (\A q \in Requests : RequestInv(q)') /\ MemoryInv'
  BY <1>4, Untouched DEF DpSkip, PoolTakes, MemoryInv, OutgoingRow
<1>5. ASSUME NEW s \in dpPending, DpDetect(s)
      PROVE  (\A q \in Requests : RequestInv(q)') /\ MemoryInv'
  <2>1. s.req \in Requests /\ s.status # "COMPLETED"
    BY DEF MemoryInv, RowSnapshot
  <2>2. \A q \in Requests : RequestInv(q)'
    BY <1>5, <2>1, StartKeeps DEF DpDetect, PoolTakes
  <2>3. MemoryInv'
    BY <1>5 DEF DpDetect, PoolTakes, MemoryInv, OutgoingRow
  <2> QED BY <2>2, <2>3
<1> QED BY <1>1, <1>2, <1>3, <1>4, <1>5 DEF DepositPoller

LEMMA TxPollerKeeps ==
  ASSUME PipelineInv, TxPoller
  PROVE  (\A q \in Requests : RequestInv(q)') /\ MemoryInv'
<1> USE DEF PipelineInv, TypeOK
<1>1. CASE TxPoll
  <2>1. \A s \in txTargets' : s.status # "COMPLETED"
    BY <1>1, SnapshotType DEF TxPoll
  <2> QED BY <1>1, <2>1, Untouched DEF TxPoll, MemoryInv, OutgoingRow
<1>2. CASE TxInitCursor
  BY <1>2, Untouched DEF TxInitCursor, MemoryInv, OutgoingRow
<1>3. CASE TxScan
  <2>1. \A f \in txFound' : f.row.status # "COMPLETED"
    BY <1>3 DEF TxScan, MemoryInv
  <2>2. \A q \in Requests : RequestInv(q)'
    BY <1>3, Untouched DEF TxScan
  <2> QED BY <1>3, <2>1, <2>2 DEF TxScan, MemoryInv, OutgoingRow
<1>4. CASE TxScanFails
  BY <1>4, Untouched DEF TxScanFails, MemoryInv, OutgoingRow
<1>5. ASSUME NEW f \in txFound, TxTake(f)
      PROVE  (\A q \in Requests : RequestInv(q)') /\ MemoryInv'
  <2>1. f.row.req \in Requests /\ f.row.status # "COMPLETED"
    BY DEF MemoryInv, Found, RowSnapshot
  <2>2. MemoryInv'
    BY <1>5 DEF TxTake, MemoryInv, OutgoingRow
  <2>3. CASE job' = job
    BY <1>5, <2>2, <2>3, Untouched DEF TxTake
  <2>4. CASE job' # job
    <3>1. AmountOf[f.dep] > 0
      BY RequestsAssumption DEF Found
    <3>2. /\ job' = [job EXCEPT ![f.row.req] =
               [pc |-> "record", status |-> f.row.status, amount |-> AmountOf[f.dep],
                hash |-> f.dep]]
          /\ UNCHANGED <<dbVars, worldVars, twVars, settle>>
      BY <1>5, <2>4 DEF TxTake
    <3>3. \A q \in Requests : RequestInv(q)'
      BY <2>1, <3>1, <3>2, StartKeeps
    <3> QED BY <2>2, <3>3
  <2> QED BY <2>3, <2>4
<1> QED BY <1>1, <1>2, <1>3, <1>4, <1>5 DEF TxPoller

LEMMA CrashKeeps ==
  ASSUME PipelineInv, Crash
  PROVE  (\A q \in Requests : RequestInv(q)') /\ MemoryInv'
<1>1. /\ job' = [r \in Requests |-> IdleJob] /\ settle' = [r \in Requests |-> "idle"]
      /\ dpPending' = {} /\ txTargets' = {} /\ txFound' = {} /\ twBatch' = {}
      /\ twHook' = NoRow /\ UNCHANGED <<dbVars, worldVars>>
  BY DEF Crash
<1>2. MemoryInv'
  BY <1>1 DEF MemoryInv
<1>3. ASSUME NEW q \in Requests PROVE RequestInv(q)'
  <2>1. job'[q] = IdleJob /\ settle'[q] = "idle" /\ twHook' # <<"TRANSFER", q>>
    BY <1>1, BoundsAssumption
  <2>2. JobInv(q)'
    BY <2>1 DEF JobInv, IdleJob, Beyond
  <2>3. SettleInv(q)'
    BY <1>1, <2>1 DEF SettleInv, PipelineInv, RequestInv
  <2> QED BY <1>1, <2>2, <2>3 DEF PipelineInv, RequestInv, SweepInv, LedgerOf, CompletionOf, Exists
<1> QED BY <1>2, <1>3

LEMMA JobKeeps ==
  ASSUME PipelineInv, NEW r \in Requests, JobStep(r)
  PROVE  (\A q \in Requests : RequestInv(q)') /\ MemoryInv'
  BY JobOfOthers, JobOfItself, JobKeepsMemory

LEMMA SettlementKeeps ==
  ASSUME PipelineInv, NEW r \in Requests, SettleStep(r)
  PROVE  (\A q \in Requests : RequestInv(q)') /\ MemoryInv'
  BY SettlementOfOthers, SettlementOfItself, SettlementKeepsMemory

(* PipelineInv holds initially. *)
LEMMA PipelineInit == Init => PipelineInv
<1> SUFFICES ASSUME Init PROVE PipelineInv
  OBVIOUS
<1>1. MemoryInv
  BY DEF Init, MemoryInv
<1>2. ASSUME NEW r \in Requests PROVE RequestInv(r)
  <2>1. /\ request[r] = [status |-> "ABSENT", received |-> 0] /\ recorded[r] = {}
        /\ transfer[r] = "NONE" /\ topup[r] = "NONE" /\ payout[r] = "NONE"
        /\ swept[r] = 0 /\ withdrawals[r] = 0
        /\ job[r] = IdleJob /\ settle[r] = "idle" /\ twHook # <<"TRANSFER", r>>
    BY BoundsAssumption DEF Init
  <2> QED BY <2>1 DEF RequestInv, JobInv, IdleJob, Beyond, SweepInv, HasHash, SettleInv,
                      LedgerOf, CompletionOf
<1> QED BY <1>1, <1>2, TypeInit DEF PipelineInv

(* Every step of every worker, and a crash, keeps it. *)
LEMMA PipelineNext == PipelineInv /\ [Next]_vars => PipelineInv'
<1> SUFFICES ASSUME PipelineInv, [Next]_vars
             PROVE  (\A q \in Requests : RequestInv(q)') /\ MemoryInv'
  BY TypeNext DEF PipelineInv
<1>1. CASE UNCHANGED vars
  <2>1. MemoryInv'
    BY <1>1 DEF PipelineInv, MemoryInv, OutgoingRow
  <2> QED BY <1>1, <2>1, Untouched DEF PipelineInv
<1>2. CASE Watcher
  BY <1>2, WatcherKeeps DEF PipelineInv
<1> QED BY <1>1, <1>2, ChainKeeps, ClientKeeps, DepositPollerKeeps, TxPollerKeeps, CrashKeeps,
           JobKeeps, SettlementKeeps DEF Next

(* The invariant holds in every reachable state. *)
THEOREM PipelineCorrect == Spec => []PipelineInv
<1>1. Init => PipelineInv
  BY PipelineInit
<1>2. PipelineInv /\ [Next]_vars => PipelineInv'
  BY PipelineNext
<1> QED BY <1>1, <1>2, PTL DEF Spec
-------------------------------------------------------------------------------
(* What follows from it. *)

(* Every variable keeps its type. *)
THEOREM TypeCorrect == Spec => []TypeOK
<1>1. PipelineInv => TypeOK
  BY DEF PipelineInv
<1> QED BY <1>1, PipelineCorrect, PTL

(* No crash, error or repeated payment makes the pipeline sweep a deposit
   twice. *)
THEOREM SweepOnce == Spec => []SweptAtMostOnce
<1>1. PipelineInv => SweptAtMostOnce
  BY DEF PipelineInv, RequestInv, SweepInv, SweptAtMostOnce
<1> QED BY <1>1, PipelineCorrect, PTL

(* The client is paid at most once, also when the answer of the exchange is
   lost or the process dies in the middle of the settlement. *)
THEOREM PayOnce == Spec => []PaidAtMostOnce
<1>1. PipelineInv => PaidAtMostOnce
  BY DEF PipelineInv, RequestInv, SettleInv, PaidAtMostOnce
<1> QED BY <1>1, PipelineCorrect, PTL

(* Nobody is paid out of a deposit that did not reach the exchange. *)
THEOREM PayBacked == Spec => []PayoutIsBacked
<1>1. PipelineInv => PayoutIsBacked
  <2> SUFFICES ASSUME PipelineInv, NEW r \in Requests, withdrawals[r] > 0
               PROVE  /\ swept[r] > 0 /\ chain[<<"TRANSFER", r>>] = "confirmed"
                      /\ request[r].received >= Expected[r]
    BY DEF PayoutIsBacked
  <2>1. transfer[r] = "CONFIRMED"
    BY DEF PipelineInv, RequestInv, SettleInv
  <2> QED BY <2>1 DEF PipelineInv, RequestInv, SweepInv, HasHash
<1> QED BY <1>1, PipelineCorrect, PTL

(* A COMPLETED request was paid. *)
THEOREM CompletionSound == Spec => []CompletionIsTrue
<1>1. PipelineInv => CompletionIsTrue
  BY DEF PipelineInv, RequestInv, CompletionIsTrue
<1> QED BY <1>1, PipelineCorrect, PTL

(* One ledger row per request, of the amount the request shows. *)
THEOREM LedgerSound == Spec => []LedgerMatchesRequest
<1>1. PipelineInv => LedgerMatchesRequest
  BY DEF PipelineInv, RequestInv, LedgerMatchesRequest
<1> QED BY <1>1, PipelineCorrect, PTL

(* An underpaid deposit is never moved. *)
THEOREM UnderpaidIsLeft == Spec => []UnderpaidStaysPut
<1>1. PipelineInv => UnderpaidStaysPut
  <2> SUFFICES ASSUME PipelineInv, NEW r \in Requests,
                      request[r].received < Expected[r]
               PROVE  transfer[r] = "NONE" /\ topup[r] = "NONE" /\ swept[r] = 0
    BY DEF UnderpaidStaysPut
  <2>1. /\ request[r].received \in Nat /\ Expected[r] \in Nat /\ swept[r] \in Nat
    BY RequestsAssumption DEF PipelineInv, TypeOK
  <2>2. ~(request[r].received >= Expected[r])
    BY <2>1
  <2>3. swept[r] > 0 \/ transfer[r] # "NONE" \/ topup[r] # "NONE" =>
          request[r].received >= Expected[r]
    BY DEF PipelineInv, RequestInv, SweepInv
  <2> QED BY <2>1, <2>2, <2>3
<1> QED BY <1>1, PipelineCorrect, PTL
-------------------------------------------------------------------------------
(* The pipeline implements ExchangePromise: recording a deposit is Credit,
   a sweep is SendOn, an accepted withdrawal is Pay, and everything else
   changes none of the three amounts. *)

Credited == [r \in Requests |-> request[r].received]

LEMMA PromiseInit == Init => Promise!Init
  BY DEF Init, Promise!Init

LEMMA CreditStep ==
  ASSUME PipelineInv, NEW r \in Requests, JobRecord(r)
  PROVE  Promise!Credit(r) \/ UNCHANGED <<Credited, swept, withdrawals>>
<1> USE DEF PipelineInv, TypeOK
<1>1. CASE recorded[r] # {}
  BY <1>1 DEF JobRecord, Credited
<1>2. CASE recorded[r] = {}
  <2>1. job[r].amount \in Nat \ {0} /\ request[r].received = 0
    BY <1>2 DEF JobRecord, RequestInv, JobInv, LedgerOf, Job
  <2>2. request' = [request EXCEPT ![r] =
          [status   |-> Advance(job[r].status, ClassifiedStatus(Expected[r], job[r].amount)),
           received |-> job[r].amount]]
    BY <1>2 DEF JobRecord
  <2>3. Credited'[r] = job[r].amount /\ Credited' = [Credited EXCEPT ![r] = job[r].amount]
    BY <2>2 DEF Credited
  <2>4. Credited[r] = 0
    BY <2>1 DEF Credited
  <2>5. UNCHANGED <<swept, withdrawals>>
    BY DEF JobRecord
  <2> QED BY <2>1, <2>3, <2>4, <2>5 DEF Promise!Credit, Credited
<1> QED BY <1>1, <1>2

LEMMA SendOnStep ==
  ASSUME PipelineInv, NEW r \in Requests, JobSweep(r)
  PROVE  Promise!SendOn(r)
<1>1. swept[r] = 0 /\ request[r].received >= Expected[r]
  BY DEF PipelineInv, RequestInv, JobInv, JobSweep, Beyond, JobSteps
<1>2. swept' = [swept EXCEPT ![r] = 1] /\ UNCHANGED <<request, withdrawals>>
  BY <1>1 DEF JobSweep
<1> QED BY <1>1, <1>2 DEF Promise!SendOn

LEMMA PayStep ==
  ASSUME PipelineInv, NEW r \in Requests, SettleWithdraws(r) \/ SettleRefused(r)
  PROVE  Promise!Pay(r) \/ UNCHANGED <<Credited, swept, withdrawals>>
<1>1. swept[r] = 1 /\ withdrawals[r] = 0
  BY DEF PipelineInv, RequestInv, SettleInv, SweepInv, HasHash, SettleWithdraws,
         SettleRefused, RefusedThen
<1>2. UNCHANGED <<request, swept>>
  BY DEF SettleWithdraws, SettleRefused, RefusedThen
<1>3. withdrawals' = [withdrawals EXCEPT ![r] = 1] \/ withdrawals' = withdrawals
  BY <1>1 DEF SettleWithdraws, SettleRefused, RefusedThen
<1> QED BY <1>1, <1>2, <1>3 DEF Promise!Pay, Credited

(* A write of the status alone changes no amount. *)
LEMMA StatusIsNoMoney ==
  ASSUME TypeOK, NEW r \in Requests, NEW status, WriteStatus(r, status)
  PROVE  UNCHANGED Credited
  BY DEF WriteStatus, Credited, TypeOK

LEMMA PromiseStep ==
  PipelineInv /\ [Next]_vars => [Promise!Next]_<<Credited, swept, withdrawals>>
<1> SUFFICES ASSUME PipelineInv, [Next]_vars
             PROVE  \/ \E r \in Requests : Promise!Credit(r) \/ Promise!SendOn(r) \/ Promise!Pay(r)
                    \/ UNCHANGED <<Credited, swept, withdrawals>>
  BY DEF Promise!Next
<1> TypeOK
  BY DEF PipelineInv
<1>1. CASE UNCHANGED vars \/ Chain \/ TxPoller \/ Crash
  BY <1>1 DEF Chain, ChainConfirms, ChainReverts, OutgoingAges, TxPoller, TxPoll, TxInitCursor,
              TxScan, TxScanFails, TxTake, Crash, Credited
<1>2. CASE Client \/ DepositPoller
  <2>1. UNCHANGED <<swept, withdrawals>>
    BY <1>2 DEF Client, CreateRequest, RequestAges, ClientPays, DepositPoller, DpPoll, DpExpire,
                DpExpireFails, DpSkip, DpDetect
  <2>2. request' = request \/ \E r \in Requests : \E status \in Status : WriteStatus(r, status)
    BY <1>2, StatusIs
       DEF Client, CreateRequest, RequestAges, ClientPays, DepositPoller, DpPoll, DpExpire,
           DpExpireFails, DpSkip, DpDetect, TypeOK
  <2>3. UNCHANGED Credited
    BY <2>2, StatusIsNoMoney DEF Credited
  <2> QED BY <2>1, <2>3
<1>3. CASE Watcher
  <2>1. UNCHANGED <<swept, withdrawals>>
    BY <1>3 DEF Watcher, TwFetch, TwFollowUp, TwTickFails, TwPending, TwFailed, TwConfirmed
  <2>2. request' = request \/ \E r \in Requests : \E status : WriteStatus(r, status)
    BY <1>3 DEF Watcher, TwFetch, TwFollowUp, TwTickFails, TwPending, TwFailed, TwConfirmed,
                TypeOK, Outgoing
  <2>3. UNCHANGED Credited
    BY <2>2, StatusIsNoMoney DEF Credited
  <2> QED BY <2>1, <2>3
<1>4. ASSUME NEW r \in Requests, JobStep(r)
      PROVE  \/ Promise!Credit(r) \/ Promise!SendOn(r) \/ Promise!Pay(r)
             \/ UNCHANGED <<Credited, swept, withdrawals>>
  <2>1. CASE JobRecord(r)
    BY <2>1, CreditStep
  <2>2. CASE JobSweep(r)
    BY <2>2, SendOnStep
  <2>3. CASE JobPersist(r)
    BY <2>3, StatusIsNoMoney DEF JobPersist
  <2> QED BY <1>4, <2>1, <2>2, <2>3
          DEF JobStep, JobIntent, JobTopUp, JobTopUpIntent, JobTopUpPersist, JobThrows, Credited
<1>5. ASSUME NEW r \in Requests, SettleStep(r)
      PROVE  \/ Promise!Credit(r) \/ Promise!SendOn(r) \/ Promise!Pay(r)
             \/ UNCHANGED <<Credited, swept, withdrawals>>
  <2>1. CASE SettleWithdraws(r) \/ SettleRefused(r)
    BY <2>1, PayStep
  <2>2. CASE SettleIntentFails(r) \/ SettleFinalize(r) \/ SettleFail(r)
    BY <2>2, StatusIsNoMoney DEF SettleIntentFails, SettleFinalize, SettleFail
  <2> QED BY <1>5, <2>1, <2>2
          DEF SettleStep, SettleBegin, SettleIntent, SettleAcquire, SettleThrows, Credited
<1> QED BY <1>1, <1>2, <1>3, <1>4, <1>5 DEF Next

(* The detailed pipeline implements the abstract promise. *)
THEOREM KeepsPromise == Spec => PromiseKept
<1>1. Init => Promise!Init
  BY PromiseInit
<1>2. PipelineInv /\ [Next]_vars =>
        [Promise!Next]_<<[r \in Requests |-> request[r].received], swept, withdrawals>>
  BY PromiseStep DEF Credited
<1> QED BY <1>1, <1>2, PipelineCorrect, PTL DEF Spec, PromiseKept, Promise!Spec
-------------------------------------------------------------------------------
(* A request only the deposit poller looks at never moves back. *)

(* A step moves the status of q as advanceExchangeRequestStatus allows. *)
MovesForward(q) ==
  Exists(q) => request'[q].status = Advance(request[q].status, request'[q].status)

(* What Advance gives is an advance, and so is FAILED for an open status. *)
LEMMA AdvanceAgain ==
  ASSUME NEW current, NEW next
  PROVE  /\ Advance(current, current) = current
         /\ Advance(current, Advance(current, next)) = Advance(current, next)
  BY DEF Advance

LEMMA EndsAnOpenStatus ==
  ASSUME NEW current \in Status, ~IsFinal(current), NEW end \in {"FAILED", "COMPLETED"}
  PROVE  Advance(current, end) = end
  BY StatusIs DEF Advance, IsFinal, FinalStatuses, Rank

(* While the status of q stays, memory may only forget about it. *)
LEMMA ForwardUntouched ==
  ASSUME NEW q, ForwardInv(q),
         request'[q].status = request[q].status, recorded'[q] = recorded[q],
         job'[q] = job[q] \/ job'[q].pc \notin {"record", "sweep", "persist"},
         job[q].pc = "idle" => job'[q].pc = "idle",
         settle'[q] = settle[q] \/ settle'[q] \in {"idle", "start"},
         dpExpired' \subseteq dpExpired, dpPending' \subseteq dpPending
  PROVE  ForwardInv(q)' /\ MovesForward(q)
<1>1. ForwardInv(q)'
  BY DEF ForwardInv
<1> QED BY <1>1, AdvanceAgain DEF MovesForward

(* A status outside PollStatuses is of no interest to the poller. *)
LEMMA WrittenForward ==
  ASSUME NEW q, ForwardInv(q), request[q].status \notin PollStatuses,
         job[q].pc \notin {"sweep", "persist"},
         request'[q].status \notin PollStatuses, UNCHANGED <<recorded, job, dpExpired, dpPending>>,
         settle'[q] \in {"idle", "start"} \/ (settle'[q] = settle[q] /\ ~IsFinal(request'[q].status))
  PROVE  ForwardInv(q)'
  BY DEF ForwardInv

(* A row that was broadcast stands for a recorded deposit, whose job is done. *)
LEMMA BroadcastIsPast ==
  ASSUME PipelineInv, NEW q \in Requests, ForwardInv(q), HasHash(transfer[q])
  PROVE  /\ recorded[q] # {} /\ request[q].status \in Status \ PollStatuses
         /\ job[q].pc \notin {"record", "sweep", "persist"}
<1>1. recorded[q] # {}
  BY DEF PipelineInv, RequestInv, SweepInv, HasHash
<1>2. request[q].status \in Status \ PollStatuses
  BY <1>1, PresentType DEF ForwardInv
<1>3. job[q].pc \notin {"record", "sweep", "persist"}
  BY <1>2 DEF ForwardInv, PipelineInv, RequestInv, JobInv, HasHash
<1> QED BY <1>1, <1>2, <1>3

LEMMA JobMovesForward ==
  ASSUME PipelineInv, NEW q \in Requests \ TxPolled, ForwardInv(q), NEW r \in Requests, JobStep(r)
  PROVE  ForwardInv(q)' /\ MovesForward(q)
<1> USE DEF PipelineInv, TypeOK
<1>0. /\ UNCHANGED <<settle, dpExpired, dpPending>>
      /\ job[r].pc # "idle"
  BY DEF JobStep, JobRecord, JobIntent, JobSweep, JobTopUp, JobPersist, JobTopUpIntent,
         JobTopUpPersist, JobThrows
<1>1. CASE r # q
  <2>1. request'[q] = request[q] /\ recorded'[q] = recorded[q] /\ job'[q] = job[q]
    BY <1>1 DEF JobStep, JobRecord, JobIntent, JobSweep, JobTopUp, JobPersist, JobTopUpIntent,
                JobTopUpPersist, JobThrows, Goto, Return, WriteStatus
  <2> QED BY <1>0, <2>1, ForwardUntouched
<1>2. CASE r = q
  <2>0. q \notin dpExpired /\ \A s \in dpPending : s.req # q
    BY <1>0, <1>2 DEF ForwardInv
  <2>1. CASE JobRecord(q)
    <3>1. /\ job[q].pc = "record" /\ recorded[q] = {}
          /\ job[q].status = request[q].status /\ request[q].status \in PollStatuses
      BY <2>1 DEF JobRecord, ForwardInv
    <3> DEFINE kind   == ClassifiedStatus(Expected[q], job[q].amount)
               status == Advance(request[q].status, kind)
    <3>2. /\ request'[q].status = status
          /\ job'[q].pc \in {"idle", "intent"}
      <4>1. Return(q) \/ Goto(q, "intent")
        BY <2>1, <3>1 DEF JobRecord
      <4>2. job'[q].pc \in {"idle", "intent"}
        BY <4>1 DEF Return, Goto, IdleJob, Job
      <4>3. request' = [request EXCEPT ![q] = [status |-> status, received |-> job[q].amount]]
        BY <2>1, <3>1 DEF JobRecord
      <4> QED BY <4>2, <4>3
    <3>3. status \notin PollStatuses
      <4>1. kind \in {"OVERPAID", "UNDERPAID", "DEPOSIT_DETECTED"}
        BY ClassifiedIsOpen
      <4> HIDE DEF kind
      <4> QED BY <3>1, <4>1 DEF PollStatuses, Advance, IsFinal, FinalStatuses, Rank
    <3>4. settle[q] = "idle"
      <4>1. transfer[q] # "CONFIRMED"
        BY <3>1 DEF RequestInv, SweepInv
      <4> QED BY <4>1, Unsettled
    <3>5. ForwardInv(q)'
      BY <1>0, <2>0, <3>2, <3>3, <3>4 DEF ForwardInv
    <3> QED BY <3>2, <3>5, AdvanceAgain DEF MovesForward
  <2>2. CASE JobIntent(q)
    <3>1. UNCHANGED <<request, recorded>> /\ job[q].pc = "intent"
      BY <2>2 DEF JobIntent
    <3>2. CASE NothingToSend(q)
      BY <1>0, <2>2, <3>1, <3>2, ForwardUntouched, SMTT(30) DEF JobIntent, Return, IdleJob
    <3>3. CASE ~NothingToSend(q)
      <4>1. job'[q].pc = "sweep" /\ job'[q].status = request[q].status
        BY <2>2, <3>3 DEF JobIntent, Job
      <4>2. ForwardInv(q)'
        BY <1>0, <2>0, <3>1, <4>1 DEF ForwardInv
      <4> QED BY <3>1, <4>2, AdvanceAgain DEF MovesForward
    <3> QED BY <3>2, <3>3
  <2>3. CASE JobSweep(q)
    <3>1. /\ UNCHANGED <<request, recorded>> /\ job[q].pc = "sweep"
          /\ job'[q].pc = "persist" /\ job'[q].status = job[q].status
      BY <2>3 DEF JobSweep, Goto, Job
    <3>2. ForwardInv(q)'
      BY <1>0, <2>0, <3>1 DEF ForwardInv
    <3> QED BY <3>1, <3>2, AdvanceAgain DEF MovesForward
  <2>4. CASE JobPersist(q)
    <3>1. /\ job[q].pc = "persist" /\ recorded[q] # {} /\ transfer[q] = "CREATED"
          /\ job[q].status = request[q].status
      BY <2>4 DEF JobPersist, RequestInv, JobInv, Beyond, JobSteps, ForwardInv
    <3>2. /\ request'[q].status = Advance(request[q].status, "PROCESSING")
          /\ job'[q] = IdleJob /\ UNCHANGED recorded
      BY <2>4, <3>1 DEF JobPersist, WriteStatus, Return
    <3>3. request'[q].status \notin PollStatuses
      BY <3>1, <3>2, AdvanceChooses DEF ForwardInv, PollStatuses
    <3>4. settle[q] = "idle"
      BY <3>1, Unsettled
    <3>5. ForwardInv(q)'
      BY <1>0, <2>0, <3>2, <3>3, <3>4 DEF ForwardInv, IdleJob
    <3> QED BY <3>2, <3>5, AdvanceAgain DEF MovesForward
  <2>5. CASE JobTopUp(q) \/ JobTopUpIntent(q) \/ JobTopUpPersist(q) \/ JobThrows(q)
    <3>1. /\ UNCHANGED <<request, recorded>>
          /\ job'[q].pc \in {"idle", "topupIntent", "topupPersist"}
      BY <2>5 DEF JobTopUp, JobTopUpIntent, JobTopUpPersist, JobThrows, Goto, Return, IdleJob, Job
    <3> QED BY <1>0, <1>2, <3>1, ForwardUntouched
  <2> QED BY <1>2, <2>1, <2>2, <2>3, <2>4, <2>5 DEF JobStep
<1> QED BY <1>1, <1>2

LEMMA SettlementMovesForward ==
  ASSUME PipelineInv, NEW q \in Requests \ TxPolled, ForwardInv(q), NEW r \in Requests, SettleStep(r)
  PROVE  ForwardInv(q)' /\ MovesForward(q)
<1> USE DEF PipelineInv, TypeOK
<1>0. UNCHANGED <<recorded, job, dpExpired, dpPending>> /\ settle[r] # "idle"
  BY DEF SettleStep, SettleBegin, SettleIntent, SettleIntentFails, SettleAcquire, SettleWithdraws,
         SettleRefused, RefusedThen, SettleFinalize, SettleFail, SettleThrows
<1>1. CASE r # q
  <2>1. request'[q] = request[q] /\ settle'[q] = settle[q]
    BY <1>1 DEF SettleStep, SettleBegin, SettleIntent, SettleIntentFails, SettleAcquire,
                SettleWithdraws, SettleRefused, RefusedThen, SettleFinalize, SettleFail,
                SettleThrows, SettleGoto, WriteStatus
  <2> QED BY <1>0, <2>1, ForwardUntouched
<1>2. CASE r = q
  <2>0. /\ HasHash(transfer[q]) /\ request[q].status \in Status \ PollStatuses
        /\ job[q].pc \notin {"record", "sweep", "persist"}
    <3>1. HasHash(transfer[q])
      BY <1>0, <1>2 DEF RequestInv, SettleInv, HasHash
    <3> QED BY <3>1, BroadcastIsPast
  <2>1. CASE SettleIntentFails(q) \/ SettleFinalize(q) \/ SettleFail(q)
    <3>1. settle[q] \in {"intent", "finalize", "fail"} /\ ~IsFinal(request[q].status)
      BY <2>1 DEF SettleIntentFails, SettleFinalize, SettleFail, ForwardInv
    <3>2. /\ request'[q].status \in {"FAILED", "COMPLETED"}
          /\ settle'[q] = "idle"
      BY <2>1 DEF SettleIntentFails, SettleFinalize, SettleFail, WriteStatus, SettleGoto
    <3>3. ForwardInv(q)'
      BY <1>0, <2>0, <3>2, WrittenForward DEF PollStatuses
    <3> QED BY <2>0, <3>1, <3>2, <3>3, EndsAnOpenStatus DEF MovesForward
  <2>2. CASE SettleBegin(q)
    <3>1. UNCHANGED request /\ settle'[q] = IF IsFinal(request[q].status) THEN "idle" ELSE "intent"
      BY <2>2 DEF SettleBegin, SettleGoto
    <3>2. ForwardInv(q)'
      BY <1>0, <3>1 DEF ForwardInv
    <3> QED BY <3>1, <3>2, AdvanceAgain DEF MovesForward
  <2>3. CASE \/ SettleIntent(q) \/ SettleAcquire(q) \/ SettleWithdraws(q)
             \/ SettleRefused(q) \/ SettleThrows(q)
    <3>1. /\ UNCHANGED request
          /\ settle'[q] = "idle" \/ settle[q] \notin {"idle", "start"}
      BY <2>3 DEF SettleIntent, SettleAcquire, SettleWithdraws, SettleRefused, RefusedThen,
                  SettleThrows, SettleGoto
    <3>2. ForwardInv(q)'
      BY <1>0, <3>1 DEF ForwardInv
    <3> QED BY <3>1, <3>2, AdvanceAgain DEF MovesForward
  <2> QED BY <1>2, <2>1, <2>2, <2>3 DEF SettleStep
<1> QED BY <1>1, <1>2

LEMMA DepositPollerMovesForward ==
  ASSUME PipelineInv, NEW q \in Requests \ TxPolled, ForwardInv(q), DepositPoller
  PROVE  ForwardInv(q)' /\ MovesForward(q)
<1> USE DEF PipelineInv, TypeOK
<1>0. UNCHANGED <<recorded, settle>>
  BY DEF DepositPoller, DpPoll, DpExpire, DpExpireFails, DpSkip, DpDetect
<1>1. CASE DpPoll
  <2>1. /\ UNCHANGED <<request, job>> /\ job[q].pc = "idle"
        /\ dpExpired' = Active \cap aged
        /\ dpPending' = {SnapshotOf(r) : r \in Active \ aged}
    BY <1>1 DEF DpPoll, DepositPollerIdle, Running
  <2>2. /\ q \in dpExpired' => request[q].status \in PollStatuses /\ q \in aged
        /\ \A s \in dpPending' : s.req = q =>
             /\ s = SnapshotOf(q) /\ q \notin aged
             /\ s.status = request[q].status /\ s.status \in PollStatuses
    BY <2>1 DEF Active, SnapshotOf
  <2>3. ForwardInv(q)'
    BY <1>0, <2>1, <2>2 DEF ForwardInv
  <2> QED BY <2>1, <2>3, AdvanceAgain DEF MovesForward
<1>2. ASSUME NEW r \in dpExpired, DpExpire(r) PROVE ForwardInv(q)' /\ MovesForward(q)
  <2>1. /\ dpExpired' = dpExpired \ {r} /\ UNCHANGED <<dpPending, job>>
        /\ request' = [request EXCEPT ![r].status = "FAILED"] /\ r \in Requests
    BY <1>2 DEF DpExpire, WriteStatus
  <2>2. CASE r # q
    BY <1>0, <2>1, <2>2, ForwardUntouched
  <2>3. CASE r = q
    <3>1. /\ request[q].status \in PollStatuses /\ job[q].pc = "idle"
          /\ recorded[q] = {} /\ \A s \in dpPending : s.req # q
      BY <2>3 DEF ForwardInv
    <3>2. settle[q] = "idle"
      <4>1. transfer[q] # "CONFIRMED"
        BY <3>1 DEF RequestInv, SweepInv
      <4> QED BY <4>1, Unsettled
    <3>3. request'[q].status = "FAILED"
      BY <2>1, <2>3
    <3>4. ForwardInv(q)'
      BY <1>0, <2>1, <2>3, <3>1, <3>2, <3>3 DEF ForwardInv, PollStatuses
    <3>5. request[q].status \in Status /\ ~IsFinal(request[q].status)
      BY <3>1, StatusIs DEF PollStatuses, IsFinal, FinalStatuses
    <3> QED BY <3>3, <3>4, <3>5, EndsAnOpenStatus DEF MovesForward
  <2> QED BY <2>2, <2>3
<1>3. ASSUME NEW r \in dpExpired, DpExpireFails(r) PROVE ForwardInv(q)' /\ MovesForward(q)
  BY <1>0, <1>3, ForwardUntouched DEF DpExpireFails
<1>4. ASSUME NEW s \in dpPending, DpSkip(s) PROVE ForwardInv(q)' /\ MovesForward(q)
  BY <1>0, <1>4, ForwardUntouched DEF DpSkip, PoolTakes
<1>5. ASSUME NEW s \in dpPending, DpDetect(s) PROVE ForwardInv(q)' /\ MovesForward(q)
  <2>1. /\ UNCHANGED <<request, dpExpired>> /\ dpExpired = {} /\ dpPending' = dpPending \ {s}
        /\ job' = [job EXCEPT ![s.req] =
             [pc |-> "record", status |-> s.status, amount |-> onchain[s.req], hash |-> NoHash]]
        /\ s.req \in Requests
    BY <1>5 DEF DpDetect, PoolTakes, RowSnapshot
  <2>2. CASE s.req # q
    BY <1>0, <2>1, <2>2, ForwardUntouched
  <2>3. CASE s.req = q
    <3>1. /\ s.status = request[q].status /\ request[q].status \in PollStatuses
          /\ \A t \in dpPending' : t.req # q
      BY <2>1, <2>3 DEF ForwardInv
    <3>2. job'[q].pc = "record" /\ job'[q].status = s.status
      BY <2>1, <2>3
    <3>3. ForwardInv(q)'
      BY <1>0, <2>1, <3>1, <3>2 DEF ForwardInv
    <3> QED BY <2>1, <3>3, AdvanceAgain DEF MovesForward
  <2> QED BY <2>2, <2>3
<1> QED BY <1>1, <1>2, <1>3, <1>4, <1>5 DEF DepositPoller

LEMMA WatcherMovesForward ==
  ASSUME PipelineInv, NEW q \in Requests \ TxPolled, ForwardInv(q), Watcher
  PROVE  ForwardInv(q)' /\ MovesForward(q)
<1> USE DEF PipelineInv, TypeOK
<1>0. UNCHANGED <<recorded, dpExpired, dpPending>>
  BY DEF Watcher, TwFetch, TwFollowUp, TwTickFails, TwPending, TwFailed, TwConfirmed
<1>1. CASE TwFetch \/ TwTickFails \/ \E x \in twBatch : TwPending(x) \/ TwFailed(x)
  <2>1. UNCHANGED <<request, job, settle>>
    BY <1>1 DEF TwFetch, TwTickFails, TwPending, TwFailed
  <2> QED BY <1>0, <2>1, ForwardUntouched
<1>2. ASSUME NEW x \in twBatch, TwConfirmed(x) PROVE ForwardInv(q)' /\ MovesForward(q)
  <2>1. UNCHANGED <<job, settle>>
    BY <1>2 DEF TwConfirmed
  <2>2. CASE request'[q] = request[q]
    BY <1>0, <2>1, <2>2, ForwardUntouched
  <2>3. CASE request'[q] # request[q]
    <3>1. /\ x[1] = "TRANSFER" /\ x[2] = q /\ ~IsFinal(request[q].status)
          /\ request'[q].status = Advance(request[q].status, "PROCESSING")
      BY <1>2, <2>3 DEF TwConfirmed, WriteStatus, Outgoing
    <3>2. transfer[q] = "BROADCASTED"
      BY <1>2, <3>1 DEF MemoryInv, OutgoingRow
    <3>3. /\ request[q].status \in Status \ PollStatuses
          /\ job[q].pc \notin {"record", "sweep", "persist"}
      BY <3>2, BroadcastIsPast DEF HasHash
    <3>4. settle[q] = "idle"
      BY <3>2, Unsettled
    <3>5. request'[q].status \notin PollStatuses
      BY <3>1, <3>3, AdvanceChooses DEF PollStatuses
    <3>6. ForwardInv(q)'
      BY <1>0, <2>1, <3>3, <3>4, <3>5, WrittenForward
    <3> QED BY <3>1, <3>6, AdvanceAgain DEF MovesForward
  <2> QED BY <2>2, <2>3
<1>3. CASE TwFollowUp
  <2>1. UNCHANGED <<request, job>>
    BY <1>3 DEF TwFollowUp, Resumes, ResumablePayload, PolledPayload
  <2>2. settle'[q] \in {settle[q], "start"}
    BY <1>3 DEF TwFollowUp
  <2> QED BY <1>0, <2>1, <2>2, ForwardUntouched
<1> QED BY <1>1, <1>2, <1>3 DEF Watcher

LEMMA WorldMovesForward ==
  ASSUME PipelineInv, NEW q \in Requests \ TxPolled, ForwardInv(q),
         Client \/ Chain \/ Crash \/ UNCHANGED vars
  PROVE  ForwardInv(q)' /\ MovesForward(q)
<1> USE DEF PipelineInv, TypeOK
<1>1. CASE Chain \/ UNCHANGED vars
  <2>1. UNCHANGED <<request, recorded, job, settle, dpExpired, dpPending>>
    BY <1>1 DEF Chain, ChainConfirms, ChainReverts, OutgoingAges
  <2> QED BY <2>1, ForwardUntouched
<1>2. CASE Crash
  <2>1. /\ UNCHANGED <<request, recorded>> /\ job'[q] = IdleJob /\ settle'[q] = "idle"
        /\ dpExpired' = {} /\ dpPending' = {}
    BY <1>2 DEF Crash
  <2> QED BY <2>1, ForwardUntouched DEF IdleJob
<1>3. ASSUME NEW r \in Requests, CreateRequest(r) PROVE ForwardInv(q)' /\ MovesForward(q)
  <2>1. /\ UNCHANGED <<recorded, job, settle, dpExpired, dpPending>>
        /\ request' = [request EXCEPT ![r].status = "CREATED"] /\ ~Exists(r)
    BY <1>3 DEF CreateRequest, WriteStatus
  <2>2. CASE r # q
    BY <2>1, <2>2, ForwardUntouched
  <2>3. CASE r = q
    <3>1. request[q].status = "ABSENT" /\ recorded[q] = {}
      BY <2>1, <2>3 DEF Exists, RequestInv, SweepInv
    <3>2. job[q].pc \notin {"sweep", "persist"}
      BY <3>1 DEF RequestInv, JobInv, Beyond, JobSteps
    <3>3. settle[q] = "idle"
      <4>1. transfer[q] # "CONFIRMED"
        BY <3>1 DEF RequestInv, SweepInv
      <4> QED BY <4>1, Unsettled
    <3>4. q \notin dpExpired /\ job[q].pc # "record" /\ \A s \in dpPending : s.req # q
      BY <3>1 DEF ForwardInv, PollStatuses
    <3>5. ForwardInv(q)'
      BY <2>1, <3>1, <3>2, <3>3, <3>4 DEF ForwardInv
    <3> QED BY <2>1, <2>3, <3>5 DEF MovesForward
  <2> QED BY <2>2, <2>3
<1>4. CASE \/ \E r \in Requests : RequestAges(r)
           \/ \E d \in Deposits : ClientPays(d)
  <2>1. UNCHANGED <<request, recorded, job, settle, dpExpired, dpPending>>
    BY <1>4 DEF RequestAges, ClientPays
  <2> QED BY <2>1, ForwardUntouched
<1> QED BY <1>1, <1>2, <1>3, <1>4 DEF Client

LEMMA TxPollerMovesForward ==
  ASSUME PipelineInv, ScansOwn, NEW q \in Requests \ TxPolled, ForwardInv(q), TxPoller
  PROVE  ForwardInv(q)' /\ MovesForward(q)
<1>1. UNCHANGED <<request, recorded, settle, dpExpired, dpPending>>
  BY DEF TxPoller, TxPoll, TxInitCursor, TxScan, TxScanFails, TxTake
<1>2. ASSUME NEW f \in txFound, TxTake(f) PROVE job'[q] = job[q]
  <2>1. f.row.req # q
    BY DEF ScansOwn
  <2>2. job' = job \/ \E new : job' = [job EXCEPT ![f.row.req] = new]
    BY <1>2 DEF TxTake
  <2> QED BY <2>1, <2>2 DEF PipelineInv, TypeOK
<1>3. job'[q] = job[q]
  BY <1>2 DEF TxPoller, TxPoll, TxInitCursor, TxScan, TxScanFails
<1> QED BY <1>1, <1>3, ForwardUntouched

LEMMA ScansStayOwn == ASSUME TypeOK, ScansOwn, [Next]_vars PROVE ScansOwn'
<1>1. CASE TxPoller
  <2>1. CASE TxPoll
    BY <2>1 DEF TxPoll, ScansOwn, SnapshotOf
  <2>2. CASE TxScan
    BY <2>2 DEF TxScan, ScansOwn
  <2>3. CASE TxInitCursor \/ TxScanFails \/ \E f \in txFound : TxTake(f)
    BY <2>3 DEF TxInitCursor, TxScanFails, TxTake, ScansOwn
  <2> QED BY <1>1, <2>1, <2>2, <2>3 DEF TxPoller
<1>2. CASE Crash
  BY <1>2 DEF Crash, ScansOwn
<1>3. CASE UNCHANGED <<txTargets, txFound>>
  BY <1>3 DEF ScansOwn
<1>4. CASE Client \/ Chain \/ DepositPoller \/ Watcher \/ UNCHANGED vars
  <2>1. UNCHANGED <<txTargets, txFound>>
    BY <1>4 DEF Client, CreateRequest, RequestAges, ClientPays, Chain, ChainConfirms, ChainReverts,
       OutgoingAges, DepositPoller, DpPoll, DpExpire, DpExpireFails, DpSkip, DpDetect,
       Watcher, TwFetch, TwFollowUp, TwTickFails, TwPending, TwFailed, TwConfirmed
  <2> QED BY <1>3, <2>1
<1>5. ASSUME NEW r \in Requests, JobStep(r) \/ SettleStep(r) PROVE ScansOwn'
  <2>1. UNCHANGED <<txTargets, txFound>>
    BY <1>5 DEF JobStep, JobRecord, JobIntent, JobSweep, JobTopUp, JobPersist, JobTopUpIntent,
       JobTopUpPersist, JobThrows, SettleStep, SettleBegin, SettleIntent, SettleIntentFails,
       SettleAcquire, SettleWithdraws, SettleRefused, RefusedThen, SettleFinalize, SettleFail,
       SettleThrows
  <2> QED BY <1>3, <2>1
<1> QED BY <1>1, <1>2, <1>4, <1>5 DEF Next

LEMMA StatusNext ==
  PipelineInv /\ StatusInv /\ [Next]_vars =>
    StatusInv' /\ \A q \in Requests \ TxPolled : MovesForward(q)
<1> SUFFICES ASSUME PipelineInv, StatusInv, [Next]_vars
             PROVE  StatusInv' /\ \A q \in Requests \ TxPolled : MovesForward(q)
  OBVIOUS
<1>1. ScansOwn'
  BY ScansStayOwn DEF PipelineInv, StatusInv
<1>2. ASSUME NEW q \in Requests \ TxPolled PROVE ForwardInv(q)' /\ MovesForward(q)
  <2>1. ForwardInv(q) /\ ScansOwn
    BY DEF StatusInv
  <2> QED BY <2>1, JobMovesForward, SettlementMovesForward, DepositPollerMovesForward,
             WatcherMovesForward, WorldMovesForward, TxPollerMovesForward DEF Next
<1> QED BY <1>1, <1>2 DEF StatusInv

(* For each request of the deposit poller: who may write its status next, and
   that he knows the status it has. *)
THEOREM StatusCorrect == Spec => [](PipelineInv /\ StatusInv)
<1>1. Init => PipelineInv /\ StatusInv
  <2>1. ASSUME Init PROVE StatusInv
    BY <2>1 DEF Init, StatusInv, ScansOwn, ForwardInv, IdleJob, PollStatuses
  <2> QED BY <2>1, PipelineInit
<1> QED BY <1>1, PipelineNext, StatusNext, PTL DEF Spec

(* A request only the deposit poller looks at never moves back and never
   leaves a final status. *)
THEOREM MovesOnlyForward == Spec => BalancePolledMovesForward
<1>1. PipelineInv /\ StatusInv /\ [Next]_vars =>
        [\A r \in Requests \ TxPolled : Exists(r) =>
           request'[r].status = Advance(request[r].status, request'[r].status)]_vars
  BY StatusNext DEF MovesForward
<1> QED BY <1>1, StatusCorrect, PTL DEF Spec, BalancePolledMovesForward
===============================================================================
