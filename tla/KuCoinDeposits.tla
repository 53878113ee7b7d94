---------------------------- MODULE KuCoinDeposits ----------------------------
(***************************************************************************)
(* Requests whose deposit address is the exchange's own (depositSource     *)
(* KUCOIN): the deposit poller watches the balance of the main account for *)
(* growth above the one it saw first.  The account has one balance for a   *)
(* coin: all its requests read it, and the settlements of other requests   *)
(* pay into it and withdraw from it.  A request keeps its last balance in  *)
(* the database; the cycle, its pool and what a worker read are in memory. *)
(* Bounds: MaxPayments, MaxOthers and MaxFaults.                           *)
(***************************************************************************)
EXTENDS ExchangeStatus, Sequences, FiniteSets

CONSTANTS
  Requests,
  NoBalance,       \* lastKnownBalance of a request that was not polled yet
  Expected,        \* fromAmount of every request
  Amounts,         \* what a client may pay
  Float,           \* what the account holds at the start
  OtherAmount,     \* what another settlement brings or takes
  POLL_CONCURRENCY,
  MaxPayments, MaxOthers,
  MaxFaults        \* awaits that throw, and restarts

ASSUME KuCoinAssumption ==
  /\ Expected \in Nat \ {0} /\ Amounts \subseteq Nat \ {0} /\ Float \in Nat
  /\ OtherAmount \in Nat \ {0} /\ NoBalance \notin Int /\ POLL_CONCURRENCY \in Nat \ {0}
  /\ MaxPayments \in Nat /\ MaxOthers \in Nat /\ MaxFaults \in Nat

VARIABLES
  request,     \* status, lastKnownBalance and the amount of the CLIENT_DEPOSIT row, 0 for none
  intents,     \* requests with a PENDING row of a transfer to the exchange
  ledger,      \* what moved on the main account, in order, with the balance and what clients paid until then
  balance,
  queue,       \* rows of the cycle that no worker of the pool has taken
  job,         \* what a worker does for a request
  from, upTo,  \* the part of the ledger a request's growth is measured over
  lost,        \* requests whose growth was saved and then not recorded
  faults

vars == <<request, intents, ledger, balance, queue, job, from, upTo, lost, faults>>
-------------------------------------------------------------------------------
Idle    == [at |-> "idle", base |-> NoBalance, status |-> "CREATED", seen |-> 0, upTo |-> 0]
Steps   == {"idle", "ask", "baseline", "save", "record", "transfer"}
Working == {r \in Requests : job[r].at # "idle"}
At(r, step)    == job[r].at = step
Goes(r, new)   == job' = [job EXCEPT ![r] = new]
Stays(r, step) == [job[r] EXCEPT !.at = step]

Count(kinds) == Cardinality({i \in DOMAIN ledger : ledger[i].kind \in kinds})

(* The balance, and what clients had paid, after the first i movements. *)
After(i) == IF i = 0 THEN Float ELSE ledger[i].after
Paid(i)  == IF i = 0 THEN 0 ELSE ledger[i].paid

Init ==
  /\ request = [r \in Requests |-> [status |-> "ABSENT", lastKnownBalance |-> NoBalance, deposit |-> 0]]
  /\ intents = {}
  /\ ledger  = <<>>
  /\ balance = Float
  /\ queue   = {}
  /\ job     = [r \in Requests |-> Idle]
  /\ from    = [r \in Requests |-> 0]
  /\ upTo    = [r \in Requests |-> 0]
  /\ lost    = {}
  /\ faults  = 0
-------------------------------------------------------------------------------
(* The world. *)

RequestOpens(r) ==
  /\ request[r].status = "ABSENT"
  /\ request' = [request EXCEPT ![r].status = "CREATED"]
  /\ UNCHANGED <<intents, ledger, balance, queue, job, from, upTo, lost, faults>>

Moves(kind, amount) ==
  /\ balance' = balance + amount /\ balance' >= 0
  /\ ledger' = Append(ledger, [kind |-> kind, after |-> balance',
                               paid |-> Paid(Len(ledger)) + (IF kind = "client" THEN amount ELSE 0)])
  /\ UNCHANGED <<request, intents, queue, job, from, upTo, lost, faults>>

ClientPays == Count({"client"}) < MaxPayments /\ \E a \in Amounts : Moves("client", a)

(* A sweep of another request arrives or what its conversion bought is moved
   to the main account; and a withdrawal or a conversion takes it from there. *)
OthersMove ==
  /\ Count({"other", "out"}) < MaxOthers
  /\ Moves("other", OtherAmount) \/ Moves("out", -OtherAmount)
-------------------------------------------------------------------------------
(* runPollCycle.  Nobody else writes to these requests, so that the timeout
   of the expired ones is written in the step that loads the others. *)
Row(r) == [req |-> r, base |-> request[r].lastKnownBalance, status |-> request[r].status]

CycleBegins ==
  LET open == {r \in Requests : request[r].status \in PollStatuses}
  IN /\ queue = {} /\ Working = {} /\ open # {}
     /\ \E expired \in SUBSET open :
          /\ queue' = {Row(r) : r \in open \ expired}
          /\ request' = [r \in Requests |->
                           IF r \in expired THEN [request[r] EXCEPT !.status = "FAILED"] ELSE request[r]]
     /\ UNCHANGED <<intents, ledger, balance, job, from, upTo, lost, faults>>

PoolTakes(row) ==
  /\ row \in queue /\ Cardinality(Working) < POLL_CONCURRENCY
  /\ queue' = queue \ {row}
  /\ Goes(row.req, [Idle EXCEPT !.at = "ask", !.base = row.base, !.status = row.status])
  /\ UNCHANGED <<request, intents, ledger, balance, from, upTo, lost, faults>>

(* Mutant of Asks: an account that was not seen yet counts as empty. *)
AsksFromZero(r) ==
  LET base == IF job[r].base = NoBalance THEN 0 ELSE job[r].base
  IN /\ At(r, "ask")
     /\ Goes(r, IF balance > base
                THEN [Stays(r, "save") EXCEPT !.base = base, !.seen = balance, !.upTo = Len(ledger)] ELSE Idle)
     /\ UNCHANGED <<request, intents, ledger, balance, queue, from, upTo, lost, faults>>

(* Mutant of Asks: growth below the expected amount is not looked at. *)
AsksForExpected(r) ==
  LET read == [Stays(r, "save") EXCEPT !.seen = balance, !.upTo = Len(ledger)]
  IN /\ At(r, "ask")
     /\ Goes(r, CASE job[r].base = NoBalance -> [read EXCEPT !.at = "baseline"]
                  [] job[r].base # NoBalance /\ balance >= job[r].base + Expected -> read
                  [] OTHER -> Idle)
     /\ UNCHANGED <<request, intents, ledger, balance, queue, from, upTo, lost, faults>>

(* checkKuCoinDeposit: the balance, held against the row of the cycle. *)
Asks(r) ==
  LET read == [Stays(r, "save") EXCEPT !.seen = balance, !.upTo = Len(ledger)]
  IN /\ At(r, "ask")
     /\ Goes(r, CASE job[r].base = NoBalance -> [read EXCEPT !.at = "baseline"]
                  [] job[r].base # NoBalance /\ balance > job[r].base -> read
                  [] OTHER -> Idle)
     /\ UNCHANGED <<request, intents, ledger, balance, queue, from, upTo, lost, faults>>

(* The balance is saved: as the first one, or ahead of what has grown. *)
Saves(r) ==
  /\ job[r].at \in {"baseline", "save"}
  /\ request' = [request EXCEPT ![r].lastKnownBalance = job[r].seen]
  /\ IF At(r, "save") THEN Goes(r, Stays(r, "record")) /\ UNCHANGED <<from, upTo>>
     ELSE Goes(r, Idle) /\ from' = [from EXCEPT ![r] = job[r].upTo] /\ UNCHANGED upTo
  /\ UNCHANGED <<intents, ledger, balance, queue, lost, faults>>

(* processPolledDeposit with the growth: what is accepted goes on to the
   transfer, what is underpaid stays. *)
Growth(r) == job[r].seen - job[r].base

Records(r) ==
  /\ At(r, "record") /\ request[r].deposit = 0
  /\ request' = [request EXCEPT ![r].deposit = Growth(r),
                                ![r].status  = Advance(job[r].status, ClassifiedStatus(Expected, Growth(r)))]
  /\ upTo' = [upTo EXCEPT ![r] = job[r].upTo]
  /\ Goes(r, IF Kind(Expected, Growth(r)) = "underpaid" THEN Idle ELSE Stays(r, "transfer"))
  /\ UNCHANGED <<intents, ledger, balance, queue, from, lost, faults>>

(* The transfer begins as for any deposit: the intent is there when the sweep
   finds that the wallet of the address has no mnemonic, and throws. *)
TransferThrows(r) ==
  /\ At(r, "transfer")
  /\ intents' = intents \cup {r}
  /\ Goes(r, Idle)
  /\ UNCHANGED <<request, ledger, balance, queue, from, upTo, lost, faults>>
-------------------------------------------------------------------------------
Fault == faults < MaxFaults /\ faults' = faults + 1

(* Growth that was saved is measured from the new balance from then on. *)
Forget(rs) ==
  LET saved == {r \in rs : At(r, "record")}
  IN /\ lost' = lost \cup saved
     /\ from' = [r \in Requests |-> IF r \in saved THEN job[r].upTo ELSE from[r]]

JobThrows(r) ==
  /\ Fault /\ ~At(r, "idle")
  /\ Forget({r}) /\ Goes(r, Idle)
  /\ UNCHANGED <<request, intents, ledger, balance, queue, upTo>>

Restart ==
  /\ Fault
  /\ Forget(Requests) /\ job' = [r \in Requests |-> Idle] /\ queue' = {}
  /\ UNCHANGED <<request, intents, ledger, balance, upTo>>

JobStep(r) == Asks(r) \/ Saves(r) \/ Records(r) \/ TransferThrows(r)

Poller == CycleBegins \/ (\E row \in queue : PoolTakes(row)) \/ \E r \in Requests : JobStep(r)

Next ==
  \/ Poller \/ ClientPays \/ OthersMove \/ Restart
  \/ \E r \in Requests : RequestOpens(r) \/ JobThrows(r)

Spec == Init /\ [][Next]_vars

(* The interval runs the cycle, the pool and its workers again and again. *)
FairSpec == Spec /\ WF_vars(Poller)
-------------------------------------------------------------------------------
(* Another settlement paid in between the i-th and the j-th movement. *)
OthersPaid(i, j) == \E k \in (i + 1)..j : ledger[k].kind = "other"

(* The deposit recorded for a request came in for it to see: the payments
   between the balance its growth was measured from and the balance that was
   read cover it, whatever withdrawals, restarts and lost growth there were.
   Money other settlements brought in the same time is the exception the
   code does not tell apart. *)
ClaimIsBacked ==
  \A r \in Requests : request[r].deposit > 0 =>
    \/ OthersPaid(from[r], upTo[r])
    \/ Paid(upTo[r]) - Paid(from[r]) >= request[r].deposit

(* A balance above the one a waiting request has is recorded as its deposit,
   unless the request times out, a withdrawal takes the growth first, or the
   worker fails after it saved the balance. *)
PaidIsNoticed ==
  \A r \in Requests :
    (/\ request[r].status \in PollStatuses
     /\ request[r].lastKnownBalance # NoBalance /\ balance > request[r].lastKnownBalance)
    ~> (request[r].deposit > 0 \/ request[r].status = "FAILED" \/ r \in lost \/ Count({"out"}) > 0)

(* A deposit at the exchange that covers its request goes on to be settled:
   no sweep is needed where the exchange manages the address. *)
ManagedDepositGoesOn ==
  \A r \in Requests : (request[r].deposit >= Expected) ~> (request[r].status \in {"PROCESSING", "COMPLETED"})
-------------------------------------------------------------------------------
(* What makes ClaimIsBacked hold: the invariant the proof rests on. *)

RowState    == [req : Requests, base : Nat \cup {NoBalance}, status : Status]
JobState    == [at : Steps, base : Nat \cup {NoBalance}, status : Status, seen : Nat, upTo : Nat]
RequestType == [status : Status \cup {"ABSENT"}, lastKnownBalance : Nat \cup {NoBalance}, deposit : Nat]
EntryState  == [kind : {"client", "other", "out"}, after : Nat, paid : Nat]

TypesInv ==
  /\ request \in [Requests -> RequestType]
  /\ ledger \in Seq(EntryState)
  /\ balance \in Nat
  /\ queue \subseteq RowState
  /\ job \in [Requests -> JobState]
  /\ from \in [Requests -> 0..Len(ledger)] /\ upTo \in [Requests -> Nat]

(* As long as no other settlement pays in, the balance grows by no more than
   the clients paid. *)
LedgerInv ==
  /\ balance = After(Len(ledger))
  /\ \A j \in 0..Len(ledger) : \A i \in 0..j :
       ~OthersPaid(i, j) => After(j) - After(i) <= Paid(j) - Paid(i)

(* A row of the cycle is what the database still holds, and no worker has it. *)
RowsInv ==
  \A row \in queue :
    /\ row.status \in PollStatuses
    /\ request[row.req].deposit = 0 /\ request[row.req].lastKnownBalance = row.base
    /\ At(row.req, "idle")
    /\ \A other \in queue : other.req = row.req => other = row

(* A saved balance is the one at from, or the one a worker is about to record. *)
SavedInv(r) ==
  request[r].deposit = 0 /\ ~At(r, "record") =>
    request[r].lastKnownBalance \in {NoBalance, After(from[r])}

HasRead(r) == job[r].upTo \in from[r]..Len(ledger) /\ job[r].seen = After(job[r].upTo)

(* A worker at work goes on from what the database holds for its request. *)
JobInv(r) ==
  /\ job[r].at \in {"ask", "baseline", "save", "record"} =>
       job[r].status \in PollStatuses /\ request[r].deposit = 0
  /\ job[r].at \in {"ask", "baseline", "save"} => request[r].lastKnownBalance = job[r].base
  /\ job[r].at \in {"baseline", "save", "record"} => HasRead(r)
  /\ job[r].at \in {"save", "record"} => job[r].base = After(from[r]) /\ Growth(r) > 0
  /\ At(r, "record") => request[r].lastKnownBalance = job[r].seen

(* A recorded deposit is growth that was measured, and is final: the request
   is no longer polled. *)
DepositInv(r) ==
  request[r].deposit > 0 =>
    /\ request[r].status \notin PollStatuses \cup {"ABSENT"}
    /\ upTo[r] \in from[r]..Len(ledger)
    /\ request[r].deposit = After(upTo[r]) - After(from[r])

KuCoinInv ==
  /\ TypesInv /\ LedgerInv /\ RowsInv
  /\ \A r \in Requests : SavedInv(r) /\ JobInv(r) /\ DepositInv(r)
===============================================================================
