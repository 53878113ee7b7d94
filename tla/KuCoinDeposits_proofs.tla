------------------------- MODULE KuCoinDeposits_proofs -------------------------
(***************************************************************************)
(* A proof that what is recorded for a request at the exchange's address   *)
(* came in, for any number of requests that share the account, any amounts *)
(* and movements, any size of the pool and any number of faults.  The      *)
(* invariant KuCoinInv ties the saved balances and the one a worker read   *)
(* to the positions of the ledger they were read at.                       *)
(***************************************************************************)
EXTENDS KuCoinDeposits, SequenceTheorems, TLAPS
-------------------------------------------------------------------------------
(* What a step of one worker, and a write of one request, does. *)

LEMMA AfterIsNat ==
  ASSUME TypesInv, NEW i \in 0..Len(ledger)
  PROVE  After(i) \in Nat /\ Paid(i) \in Nat
<1>1. CASE i = 0
  BY <1>1, KuCoinAssumption DEF After, Paid
<1>2. CASE i # 0
  <2> DEFINE entry == ledger[i]
  <2>1. ledger \in Seq(EntryState) /\ i \in 1..Len(ledger)
    BY <1>2 DEF TypesInv
  <2>2. entry \in EntryState
    BY <2>1, ElementOfSeq
  <2> QED BY <1>2, <2>2 DEF After, Paid, EntryState
<1> QED BY <1>1, <1>2

LEMMA GoesIs ==
  ASSUME TypesInv, NEW r \in Requests, NEW new, Goes(r, new)
  PROVE  /\ job'[r] = new /\ \A q \in Requests : q # r => job'[q] = job[q]
         /\ new \in JobState => job' \in [Requests -> JobState]
  BY DEF TypesInv, Goes

LEMMA IdleIs == Idle \in JobState /\ Idle.at = "idle"
  BY DEF Idle, JobState, Steps, Status, Rank

(* A step that moves nothing on the account leaves the ledger's part of the
   invariant alone, and every position keeps its balance. *)
LEMMA LedgerStays ==
  ASSUME KuCoinInv, UNCHANGED <<ledger, balance>>
  PROVE  /\ LedgerInv'
         /\ \A i \in 0..Len(ledger) : After(i)' = After(i) /\ Paid(i)' = Paid(i)
  BY DEF KuCoinInv, LedgerInv, After, Paid, OthersPaid

(* What a movement appends: the positions so far keep what they say. *)
LEMMA LedgerGrows ==
  ASSUME KuCoinInv, NEW kind \in {"client", "other", "out"}, NEW amount \in Int,
         kind = "client" => amount \in Nat, Moves(kind, amount)
  PROVE  /\ ledger' \in Seq(EntryState) /\ balance' \in Nat
         /\ Len(ledger') = Len(ledger) + 1 /\ Len(ledger) \in Nat
         /\ \A i \in 0..Len(ledger) : After(i)' = After(i) /\ Paid(i)' = Paid(i)
         /\ \A i \in 1..Len(ledger) : ledger'[i] = ledger[i]
         /\ ledger'[Len(ledger) + 1].kind = kind
         /\ \A j : j = Len(ledger) + 1 =>
              /\ After(j)' = balance'
              /\ Paid(j)' = Paid(Len(ledger)) + (IF kind = "client" THEN amount ELSE 0)
<1> DEFINE paid  == Paid(Len(ledger)) + (IF kind = "client" THEN amount ELSE 0)
           entry == [kind |-> kind, after |-> balance', paid |-> paid]
<1>1. ledger' = Append(ledger, entry) /\ balance' = balance + amount /\ balance' >= 0
  BY DEF Moves
<1>2. TypesInv /\ ledger \in Seq(EntryState) /\ balance \in Nat /\ Len(ledger) \in Nat
  BY DEF KuCoinInv, TypesInv
<1>3. paid \in Nat
  <2>1. Paid(Len(ledger)) \in Nat
    BY <1>2, AfterIsNat
  <2> QED BY <2>1
<1>4. balance' \in Nat
  BY <1>1, <1>2
<1>5. entry \in EntryState
  <2> HIDE DEF paid
  <2> QED BY <1>3, <1>4 DEF EntryState
<1>6. entry.kind = kind /\ entry.after = balance' /\ entry.paid = paid
  OBVIOUS
<1> HIDE DEF entry
<1>7. /\ ledger' \in Seq(EntryState) /\ Len(ledger') = Len(ledger) + 1
      /\ \A i \in 1..Len(ledger) : ledger'[i] = ledger[i]
      /\ ledger'[Len(ledger) + 1] = entry
  BY <1>1, <1>2, <1>5, AppendProperties
<1>8. \A i \in 0..Len(ledger) : After(i)' = After(i) /\ Paid(i)' = Paid(i)
  BY <1>2, <1>7 DEF After, Paid
<1>9. \A j : j = Len(ledger) + 1 => After(j)' = balance' /\ Paid(j)' = paid
  <2>1. Len(ledger) + 1 # 0
    BY <1>2
  <2> QED BY <2>1, <1>6, <1>7 DEF After, Paid
<1> QED BY <1>2, <1>4, <1>6, <1>7, <1>8, <1>9

(* A movement keeps the balance and the clients' payments in step: the new
   one is another settlement's, or adds to both what a client paid, or takes. *)
LEMMA MovesLedger ==
  ASSUME KuCoinInv, NEW kind \in {"client", "other", "out"}, NEW amount \in Int,
         kind = "client" => amount \in Nat, kind = "out" => amount <= 0, Moves(kind, amount)
  PROVE  LedgerInv'
<1> DEFINE n == Len(ledger)
<1>0. TypesInv /\ LedgerInv /\ balance' = balance + amount /\ balance \in Nat /\ n \in Nat
  BY DEF KuCoinInv, TypesInv, Moves
<1>1. /\ Len(ledger') = n + 1
      /\ \A i \in 0..n : After(i)' = After(i) /\ Paid(i)' = Paid(i)
      /\ \A i \in 1..n : ledger'[i] = ledger[i]
      /\ ledger'[n + 1].kind = kind
      /\ \A j : j = n + 1 =>
           After(j)' = balance' /\ Paid(j)' = Paid(n) + (IF kind = "client" THEN amount ELSE 0)
  BY LedgerGrows
<1>2. \A i \in 0..n : After(i) \in Nat /\ Paid(i) \in Nat
  BY <1>0, AfterIsNat
<1>3. balance = After(n)
  BY <1>0 DEF LedgerInv
<1>4. ASSUME NEW j \in 0..(n + 1), NEW i \in 0..j, ~OthersPaid(i, j)'
      PROVE  After(j)' - After(i)' <= Paid(j)' - Paid(i)'
  <2>1. CASE j <= n
    <3>1. j \in 0..n /\ i \in 0..n
      BY <1>0, <2>1
    <3>2. ~OthersPaid(i, j)
      BY <1>0, <1>1, <1>4, <3>1 DEF OthersPaid
    <3>3. After(j) - After(i) <= Paid(j) - Paid(i)
      BY <1>0, <3>1, <3>2 DEF LedgerInv
    <3> QED BY <1>1, <3>1, <3>3
  <2>2. CASE j = n + 1 /\ i = n + 1
    <3>1. After(n) \in Nat /\ Paid(n) \in Nat
      BY <1>0, <1>2
    <3> QED BY <1>0, <1>1, <2>2, <3>1
  <2>3. CASE j = n + 1 /\ i \in 0..n
    <3>1. n + 1 \in (i + 1)..(n + 1)
      BY <1>0, <2>3
    <3>2. kind # "other"
      BY <1>1, <1>4, <2>3, <3>1 DEF OthersPaid
    <3>3. ~OthersPaid(i, n)
      BY <1>0, <1>1, <1>4, <2>3 DEF OthersPaid
    <3>4. n \in 0..n /\ i \in 0..n
      BY <1>0, <2>3
    <3>5. After(n) - After(i) <= Paid(n) - Paid(i)
      BY <1>0, <3>3, <3>4 DEF LedgerInv
    <3>6. After(n) \in Nat /\ Paid(n) \in Nat /\ After(i) \in Nat /\ Paid(i) \in Nat
      BY <1>2, <3>4
    <3>7. After(i)' = After(i) /\ Paid(i)' = Paid(i)
      BY <1>1, <3>4
    <3>8. /\ After(j)' = After(n) + amount
          /\ Paid(j)' = Paid(n) + (IF kind = "client" THEN amount ELSE 0)
      BY <1>0, <1>1, <1>3, <2>3
    <3>9. amount <= (IF kind = "client" THEN amount ELSE 0)
      BY <3>2
    <3> QED BY <3>5, <3>6, <3>7, <3>8, <3>9
  <2> QED BY <1>0, <1>4, <2>1, <2>2, <2>3
<1> QED BY <1>1, <1>4 DEF LedgerInv

(* A request that a step does not touch keeps its part of the invariant:
   what the ledger says up to now stays said. *)
LEMMA RestStays ==
  ASSUME KuCoinInv, NEW q \in Requests, Len(ledger') >= Len(ledger), Len(ledger') \in Nat,
         \A i \in 0..Len(ledger) : After(i)' = After(i),
         request'[q] = request[q], job'[q] = job[q], from'[q] = from[q], upTo'[q] = upTo[q]
  PROVE  (SavedInv(q) /\ JobInv(q) /\ DepositInv(q))'
<1>0. SavedInv(q) /\ JobInv(q) /\ DepositInv(q) /\ from[q] \in 0..Len(ledger) /\ Len(ledger) \in Nat
  BY DEF KuCoinInv, TypesInv
<1>1. After(from[q])' = After(from[q])
  BY <1>0
<1>2. SavedInv(q)'
  BY <1>0, <1>1 DEF SavedInv, At
<1>3. HasRead(q) => HasRead(q)'
  BY <1>0 DEF HasRead
<1>4. JobInv(q)'
  BY <1>0, <1>1, <1>3 DEF JobInv, At, Growth
<1>5. DepositInv(q)'
  <2>1. upTo[q] \in from[q]..Len(ledger) =>
          upTo[q] \in 0..Len(ledger) /\ upTo'[q] \in from'[q]..Len(ledger')
    BY <1>0
  <2> QED BY <1>0, <1>1, <2>1 DEF DepositInv
<1> QED BY <1>2, <1>4, <1>5

LEMMA MovesKeep ==
  ASSUME KuCoinInv, NEW kind \in {"client", "other", "out"}, NEW amount \in Int,
         kind = "client" => amount \in Nat, kind = "out" => amount <= 0, Moves(kind, amount)
  PROVE  KuCoinInv'
<1>0. /\ TypesInv /\ RowsInv
      /\ UNCHANGED <<request, intents, queue, job, from, upTo, lost, faults>>
  BY DEF KuCoinInv, Moves
<1>1. /\ ledger' \in Seq(EntryState) /\ balance' \in Nat
      /\ Len(ledger') = Len(ledger) + 1 /\ Len(ledger) \in Nat
      /\ \A i \in 0..Len(ledger) : After(i)' = After(i)
  BY LedgerGrows
<1>2. TypesInv'
  <2>1. from \in [Requests -> 0..Len(ledger')]
    BY <1>0, <1>1 DEF TypesInv
  <2> QED BY <1>0, <1>1, <2>1 DEF TypesInv
<1>3. LedgerInv'
  BY MovesLedger
<1>4. RowsInv'
  BY <1>0 DEF RowsInv, At
<1>5. \A q \in Requests : (SavedInv(q) /\ JobInv(q) /\ DepositInv(q))'
  <2>1. Len(ledger') >= Len(ledger) /\ Len(ledger') \in Nat
    BY <1>1
  <2> QED BY <1>0, <1>1, <2>1, RestStays
<1> QED BY <1>2, <1>3, <1>4, <1>5 DEF KuCoinInv
-------------------------------------------------------------------------------
(* The cycle. *)

(* A step that leaves the ledger alone and touches one request owes the
   invariant only for that one. *)
LEMMA OneRequest ==
  ASSUME KuCoinInv, UNCHANGED <<ledger, balance>>, NEW r \in Requests,
         \A q \in Requests : q # r =>
           request'[q] = request[q] /\ job'[q] = job[q] /\ from'[q] = from[q] /\ upTo'[q] = upTo[q],
         TypesInv', RowsInv', (SavedInv(r) /\ JobInv(r) /\ DepositInv(r))'
  PROVE  KuCoinInv'
<1>1. LedgerInv' /\ \A i \in 0..Len(ledger) : After(i)' = After(i)
  BY LedgerStays
<1>2. Len(ledger') >= Len(ledger) /\ Len(ledger') \in Nat
  BY DEF KuCoinInv, TypesInv
<1>3. ASSUME NEW q \in Requests PROVE (SavedInv(q) /\ JobInv(q) /\ DepositInv(q))'
  <2>1. CASE q = r
    BY <2>1
  <2>2. CASE q # r
    BY <1>1, <1>2, <2>2, RestStays
  <2> QED BY <2>1, <2>2
<1> QED BY <1>1, <1>3 DEF KuCoinInv

LEMMA OpensKeeps ==
  ASSUME KuCoinInv, NEW r \in Requests, RequestOpens(r)
  PROVE  KuCoinInv'
<1>0. /\ TypesInv /\ RowsInv /\ request[r].status = "ABSENT"
      /\ SavedInv(r) /\ JobInv(r) /\ DepositInv(r)
      /\ request' = [request EXCEPT ![r].status = "CREATED"]
      /\ UNCHANGED <<intents, ledger, balance, queue, job, from, upTo, lost, faults>>
  BY DEF KuCoinInv, RequestOpens
<1>1. /\ \A q \in Requests : /\ request'[q].deposit = request[q].deposit
                             /\ request'[q].lastKnownBalance = request[q].lastKnownBalance
                             /\ q # r => request'[q] = request[q]
      /\ request' \in [Requests -> RequestType]
  <2>1. request \in [Requests -> RequestType]
    BY <1>0 DEF TypesInv
  <2>2. "CREATED" \in Status \cup {"ABSENT"}
    BY DEF Status, Rank
  <2> QED BY <1>0, <2>1, <2>2 DEF RequestType
<1>2. TypesInv'
  BY <1>0, <1>1 DEF TypesInv
<1>3. RowsInv'
  BY <1>0, <1>1 DEF RowsInv, At, TypesInv, RowState
<1>4. SavedInv(r)'
  BY <1>0, <1>1 DEF SavedInv, At, After
<1>5. JobInv(r)'
  BY <1>0, <1>1 DEF JobInv, At, Growth, HasRead, After
<1>6. DepositInv(r)'
  <2>1. request[r].deposit \in Nat /\ ~(request[r].deposit > 0)
    BY <1>0 DEF DepositInv, TypesInv, RequestType
  <2> QED BY <1>1, <2>1 DEF DepositInv
<1> QED BY <1>0, <1>1, <1>2, <1>3, <1>4, <1>5, <1>6, OneRequest

LEMMA CycleKeeps ==
  ASSUME KuCoinInv, CycleBegins
  PROVE  KuCoinInv'
<1> DEFINE open == {r \in Requests : request[r].status \in PollStatuses}
<1>0. /\ TypesInv /\ queue = {} /\ Working = {}
      /\ UNCHANGED <<intents, ledger, balance, job, from, upTo, lost, faults>>
  BY DEF KuCoinInv, CycleBegins
<1>1. PICK expired \in SUBSET open :
        /\ queue' = {Row(r) : r \in open \ expired}
        /\ request' = [r \in Requests |->
                         IF r \in expired THEN [request[r] EXCEPT !.status = "FAILED"] ELSE request[r]]
  BY DEF CycleBegins
<1>2. LedgerInv' /\ \A i \in 0..Len(ledger) : After(i)' = After(i)
  BY <1>0, LedgerStays
<1>3. \A r \in Requests : At(r, "idle")
  BY <1>0 DEF Working, At
<1>4. \A r \in Requests :
        /\ request'[r] \in RequestType
        /\ request'[r].deposit = request[r].deposit /\ request'[r].lastKnownBalance = request[r].lastKnownBalance
        /\ request'[r].status \in {request[r].status, "FAILED"}
        /\ r \notin expired => request'[r] = request[r]
  <2> SUFFICES ASSUME NEW r \in Requests
               PROVE  /\ request'[r] \in RequestType
                      /\ request'[r].deposit = request[r].deposit
                      /\ request'[r].lastKnownBalance = request[r].lastKnownBalance
                      /\ request'[r].status \in {request[r].status, "FAILED"}
                      /\ r \notin expired => request'[r] = request[r]
    OBVIOUS
  <2>1. request[r] \in RequestType
    BY <1>0 DEF TypesInv
  <2>2. CASE r \in expired
    BY <1>1, <2>1, <2>2 DEF RequestType, Status, Rank
  <2>3. CASE r \notin expired
    BY <1>1, <2>1, <2>3
  <2> QED BY <2>2, <2>3
<1>5. \A r \in Requests : request[r].status \in PollStatuses => request[r].deposit = 0
  BY <1>0 DEF KuCoinInv, DepositInv, TypesInv, RequestType
<1>6. \A r \in Requests : Row(r) \in RowState \/ request[r].status = "ABSENT"
  BY <1>0 DEF Row, RowState, TypesInv, RequestType
<1>7. TypesInv'
  <2>1. queue' \subseteq RowState
    BY <1>1, <1>6 DEF PollStatuses
  <2>2. request' \in [Requests -> RequestType]
    BY <1>1, <1>4
  <2> QED BY <1>0, <2>1, <2>2 DEF TypesInv
<1>8. RowsInv'
  <2>1. ASSUME NEW row \in queue'
        PROVE  /\ row.req \in open \ expired /\ row = Row(row.req)
               /\ row.status \in PollStatuses /\ request[row.req].lastKnownBalance = row.base
    BY <1>1, <2>1 DEF Row
  <2>2. \A row \in queue' : request'[row.req].deposit = 0
    BY <1>4, <1>5, <2>1
  <2>3. \A row \in queue' : request'[row.req].lastKnownBalance = row.base
    BY <1>4, <2>1
  <2>4. \A row \in queue' : At(row.req, "idle")'
    BY <1>0, <1>3, <2>1 DEF At
  <2>5. \A row, other \in queue' : other.req = row.req => other = row
    BY <2>1
  <2> QED BY <2>1, <2>2, <2>3, <2>4, <2>5 DEF RowsInv
<1>9. ASSUME NEW r \in Requests PROVE (SavedInv(r) /\ JobInv(r) /\ DepositInv(r))'
  <2>1. SavedInv(r) /\ DepositInv(r) /\ At(r, "idle") /\ UNCHANGED <<job, from, upTo, ledger>>
    BY <1>0, <1>3 DEF KuCoinInv
  <2>2. SavedInv(r)'
    BY <1>4, <2>1 DEF SavedInv, At, After
  <2>3. JobInv(r)'
    BY <2>1 DEF JobInv, At
  <2>4. DepositInv(r)'
    BY <1>4, <2>1 DEF DepositInv, After, PollStatuses
  <2> QED BY <2>2, <2>3, <2>4
<1> QED BY <1>2, <1>7, <1>8, <1>9 DEF KuCoinInv

LEMMA TakesKeeps ==
  ASSUME KuCoinInv, NEW row \in queue, PoolTakes(row)
  PROVE  KuCoinInv'
<1> DEFINE r   == row.req
           new == [Idle EXCEPT !.at = "ask", !.base = row.base, !.status = row.status]
<1>0. /\ TypesInv /\ RowsInv /\ queue' = queue \ {row} /\ Goes(r, new)
      /\ UNCHANGED <<request, intents, ledger, balance, from, upTo, lost, faults>>
  BY DEF KuCoinInv, PoolTakes
<1>1. /\ r \in Requests /\ row \in RowState /\ row.status \in PollStatuses /\ At(r, "idle")
      /\ request[r].deposit = 0 /\ request[r].lastKnownBalance = row.base
      /\ \A other \in queue : other.req = r => other = row
  BY <1>0 DEF RowsInv, TypesInv, RowState
<1>2. new \in JobState /\ new.at = "ask" /\ new.base = row.base /\ new.status = row.status
  BY <1>1 DEF Idle, JobState, RowState, Steps
<1> HIDE DEF new
<1>3. job'[r] = new /\ job' \in [Requests -> JobState] /\ \A q \in Requests : q # r => job'[q] = job[q]
  BY <1>0, <1>1, <1>2, GoesIs
<1>4. SavedInv(r)
  BY <1>1 DEF KuCoinInv
<1>5. TypesInv'
  BY <1>0, <1>3 DEF TypesInv
<1>6. RowsInv'
  <2> SUFFICES ASSUME NEW x \in queue' PROVE RowsInv!(x)'
    BY DEF RowsInv
  <2>1. x \in queue /\ x.req # r /\ x.req \in Requests
    BY <1>0, <1>1 DEF TypesInv, RowState
  <2>2. job'[x.req] = job[x.req]
    BY <1>3, <2>1
  <2> QED BY <1>0, <2>1, <2>2 DEF RowsInv, At
<1>7. SavedInv(r)'
  BY <1>0, <1>1, <1>2, <1>3, <1>4 DEF SavedInv, At, After
<1>8. JobInv(r)'
  BY <1>0, <1>1, <1>2, <1>3 DEF JobInv, At
<1>9. DepositInv(r)'
  BY <1>0, <1>1 DEF DepositInv
<1> QED BY <1>0, <1>1, <1>3, <1>5, <1>6, <1>7, <1>8, <1>9, OneRequest
-------------------------------------------------------------------------------
(* The workers. *)

(* While a worker is at work on a request, no row of the cycle is its own. *)
LEMMA WorkersRows ==
  ASSUME KuCoinInv, NEW r \in Requests, ~At(r, "idle"), queue' \subseteq queue,
         \A q \in Requests : q # r => request'[q] = request[q] /\ job'[q] = job[q]
  PROVE  RowsInv'
<1>1. RowsInv /\ queue \subseteq RowState
  BY DEF KuCoinInv, TypesInv
<1>2. ASSUME NEW x \in queue' PROVE RowsInv!(x)'
  <2>1. x \in queue /\ x.req \in Requests /\ x.req # r
    BY <1>1 DEF RowsInv, RowState
  <2>2. job'[x.req] = job[x.req] /\ request'[x.req] = request[x.req]
    BY <2>1
  <2> QED BY <1>1, <2>1, <2>2 DEF RowsInv, At
<1> QED BY <1>2 DEF RowsInv

LEMMA AsksKeeps ==
  ASSUME KuCoinInv, NEW r \in Requests, Asks(r)
  PROVE  KuCoinInv'
<1> DEFINE old  == job[r]
           read == [Stays(r, "save") EXCEPT !.seen = balance, !.upTo = Len(ledger)]
           new  == job'[r]
<1>0. /\ TypesInv /\ LedgerInv /\ SavedInv(r) /\ JobInv(r) /\ DepositInv(r) /\ At(r, "ask")
      /\ UNCHANGED <<request, intents, ledger, balance, queue, from, upTo, lost, faults>>
  BY DEF KuCoinInv, Asks
<1>1. /\ old \in JobState /\ balance \in Nat /\ Len(ledger) \in Nat /\ from[r] \in 0..Len(ledger)
      /\ request[r] \in RequestType
  BY <1>0 DEF TypesInv
<1>2. /\ read \in JobState /\ read.at = "save" /\ read.base = old.base /\ read.status = old.status
      /\ read.seen = balance /\ read.upTo = Len(ledger)
  <2> HIDE DEF old
  <2>1. read = [old EXCEPT !.at = "save", !.seen = balance, !.upTo = Len(ledger)]
    BY <1>1 DEF old, Stays, JobState
  <2> QED BY <1>1, <2>1 DEF JobState, Steps
<1>3. /\ [read EXCEPT !.at = "baseline"] \in JobState
      /\ [read EXCEPT !.at = "baseline"].at = "baseline"
      /\ [read EXCEPT !.at = "baseline"].base = old.base
      /\ [read EXCEPT !.at = "baseline"].status = old.status
      /\ [read EXCEPT !.at = "baseline"].seen = balance
      /\ [read EXCEPT !.at = "baseline"].upTo = Len(ledger)
  <2> HIDE DEF read, old
  <2> QED BY <1>2 DEF JobState, Steps
<1>4. \/ Goes(r, [read EXCEPT !.at = "baseline"]) /\ old.base = NoBalance
      \/ Goes(r, read) /\ old.base # NoBalance /\ balance > old.base
      \/ Goes(r, Idle)
  BY DEF Asks
<1>5. /\ job' \in [Requests -> JobState] /\ \A q \in Requests : q # r => job'[q] = job[q]
      /\ \/ /\ new.at \in {"baseline", "save"} /\ new.base = old.base /\ new.status = old.status
            /\ new.seen = balance /\ new.upTo = Len(ledger)
            /\ new.at = "save" => old.base # NoBalance /\ balance > old.base
         \/ new = Idle
  <2> HIDE DEF read
  <2>1. CASE Goes(r, [read EXCEPT !.at = "baseline"]) /\ old.base = NoBalance
    BY <1>0, <1>3, <2>1, GoesIs
  <2>2. CASE Goes(r, read) /\ old.base # NoBalance /\ balance > old.base
    BY <1>0, <1>2, <2>2, GoesIs
  <2>3. CASE Goes(r, Idle)
    BY <1>0, <2>3, GoesIs, IdleIs
  <2> QED BY <1>4, <2>1, <2>2, <2>3
<1> HIDE DEF read
<1>6. /\ old.at = "ask" /\ old.status \in PollStatuses /\ request[r].deposit = 0
      /\ request[r].lastKnownBalance = old.base
      /\ old.base \in {NoBalance, After(from[r])}
  BY <1>0 DEF JobInv, SavedInv, At
<1>7. \A i \in 0..Len(ledger) : After(i)' = After(i)
  BY <1>0 DEF After
<1>8. TypesInv'
  BY <1>0, <1>5 DEF TypesInv
<1>9. RowsInv'
  BY <1>0, <1>5, WorkersRows DEF At
<1>10. SavedInv(r)'
  BY <1>0, <1>1, <1>6, <1>7 DEF SavedInv
<1>11. JobInv(r)'
  <2>1. CASE new = Idle
    BY <2>1, IdleIs DEF JobInv, At
  <2>2. CASE /\ new.at \in {"baseline", "save"} /\ new.base = old.base /\ new.status = old.status
             /\ new.seen = balance /\ new.upTo = Len(ledger)
             /\ new.at = "save" => old.base # NoBalance /\ balance > old.base
    <3>1. balance = After(Len(ledger)) /\ Len(ledger) \in from[r]..Len(ledger)
      BY <1>0, <1>1 DEF LedgerInv
    <3>2. HasRead(r)'
      BY <1>0, <1>1, <1>7, <2>2, <3>1 DEF HasRead
    <3>3. new.at = "save" => old.base = After(from[r]) /\ old.base \in Nat /\ new.seen - new.base > 0
      <4>1. After(from[r]) \in Nat
        BY <1>0, <1>1, AfterIsNat
      <4> QED BY <1>1, <1>6, <2>2, <4>1
    <3>4. new.at = "save" => new.base = After(from[r])' /\ Growth(r)' > 0
      BY <1>0, <1>1, <1>7, <2>2, <3>3 DEF Growth
    <3>5. new.status \in PollStatuses /\ request'[r].deposit = 0 /\ request'[r].lastKnownBalance = new.base
      BY <1>0, <1>6, <2>2
    <3> HIDE DEF new
    <3>6. job'[r] = new
      BY DEF new
    <3> QED BY <2>2, <3>2, <3>4, <3>5, <3>6 DEF JobInv, At
  <2> QED BY <1>5, <2>1, <2>2
<1>12. DepositInv(r)'
  BY <1>0, <1>6 DEF DepositInv
<1> QED BY <1>0, <1>5, <1>8, <1>9, <1>10, <1>11, <1>12, OneRequest

LEMMA SavesKeeps ==
  ASSUME KuCoinInv, NEW r \in Requests, Saves(r)
  PROVE  KuCoinInv'
<1> DEFINE old == job[r]
<1>0. /\ TypesInv /\ SavedInv(r) /\ JobInv(r) /\ DepositInv(r) /\ old.at \in {"baseline", "save"}
      /\ request' = [request EXCEPT ![r].lastKnownBalance = old.seen]
      /\ IF old.at = "save" THEN Goes(r, Stays(r, "record")) /\ UNCHANGED <<from, upTo>>
         ELSE Goes(r, Idle) /\ from' = [from EXCEPT ![r] = old.upTo] /\ UNCHANGED upTo
      /\ UNCHANGED <<intents, ledger, balance, queue, lost, faults>>
  BY DEF KuCoinInv, Saves, At
<1>1. /\ old \in JobState /\ request[r] \in RequestType /\ Len(ledger) \in Nat
      /\ from[r] \in 0..Len(ledger)
  BY <1>0 DEF TypesInv
<1>2. /\ old.status \in PollStatuses /\ request[r].deposit = 0 /\ HasRead(r)
      /\ old.at = "save" => old.base = After(from[r]) /\ Growth(r) > 0
  BY <1>0 DEF JobInv
<1>3. /\ request' \in [Requests -> RequestType] /\ request'[r].lastKnownBalance = old.seen
      /\ request'[r].deposit = 0 /\ \A q \in Requests : q # r => request'[q] = request[q]
  <2>1. request \in [Requests -> RequestType] /\ old.seen \in Nat
    BY <1>0, <1>1 DEF TypesInv, JobState
  <2> HIDE DEF old
  <2> QED BY <1>0, <1>2, <2>1 DEF RequestType
<1>4. After(from[r])' = After(from'[r]) /\ \A i \in Nat : After(i)' = After(i)
  BY <1>0 DEF After
<1>5. old.upTo \in 0..Len(ledger) /\ old.seen = After(old.upTo)
  BY <1>1, <1>2 DEF HasRead
<1>6. CASE old.at = "save"
  <2> DEFINE new == Stays(r, "record")
  <2>1. /\ new \in JobState /\ new.at = "record" /\ new.base = old.base /\ new.status = old.status
        /\ new.seen = old.seen /\ new.upTo = old.upTo
    BY <1>1 DEF Stays, JobState, Steps
  <2> HIDE DEF new
  <2>2. /\ job'[r] = new /\ job' \in [Requests -> JobState]
        /\ \A q \in Requests : q # r => job'[q] = job[q]
    BY <1>0, <1>6, <2>1, GoesIs DEF new
  <2>3. TypesInv'
    BY <1>0, <1>3, <1>6, <2>2 DEF TypesInv
  <2>4. RowsInv'
    BY <1>0, <1>3, <2>2, WorkersRows DEF At
  <2>5. SavedInv(r)'
    BY <2>1, <2>2 DEF SavedInv, At
  <2>6. JobInv(r)'
    <3>1. HasRead(r)'
      BY <1>0, <1>2, <1>5, <1>6, <2>1, <2>2 DEF HasRead, After
    <3>2. job'[r].base = After(from[r])' /\ Growth(r)' > 0
      BY <1>0, <1>2, <1>6, <2>1, <2>2 DEF Growth, After
    <3> QED BY <1>2, <1>3, <2>1, <2>2, <3>1, <3>2 DEF JobInv, At
  <2>7. DepositInv(r)'
    BY <1>3 DEF DepositInv
  <2>8. from'[r] = from[r] /\ \A q \in Requests : from'[q] = from[q] /\ upTo'[q] = upTo[q]
    BY <1>0, <1>6
  <2> QED BY <1>0, <1>3, <2>2, <2>3, <2>4, <2>5, <2>6, <2>7, <2>8, OneRequest
<1>7. CASE old.at = "baseline"
  <2>1. Goes(r, Idle) /\ from' = [from EXCEPT ![r] = old.upTo] /\ upTo' = upTo
    BY <1>0, <1>7
  <2>2. /\ job'[r] = Idle /\ job' \in [Requests -> JobState]
        /\ \A q \in Requests : q # r => job'[q] = job[q]
    BY <1>0, <2>1, GoesIs, IdleIs
  <2>3. /\ from' \in [Requests -> 0..Len(ledger)] /\ from'[r] = old.upTo
        /\ \A q \in Requests : q # r => from'[q] = from[q]
    <3>1. from \in [Requests -> 0..Len(ledger)]
      BY <1>0 DEF TypesInv
    <3> HIDE DEF old
    <3> QED BY <1>5, <2>1, <3>1
  <2>4. TypesInv'
    BY <1>0, <1>3, <2>2, <2>3 DEF TypesInv
  <2>5. RowsInv'
    BY <1>0, <1>3, <2>2, WorkersRows DEF At
  <2>6. SavedInv(r)'
    BY <1>0, <1>3, <1>5, <2>3 DEF SavedInv, After
  <2>7. JobInv(r)'
    BY <2>2, IdleIs DEF JobInv, At
  <2>8. DepositInv(r)'
    BY <1>3 DEF DepositInv
  <2> QED BY <1>0, <1>3, <2>1, <2>2, <2>3, <2>4, <2>5, <2>6, <2>7, <2>8, OneRequest
<1> QED BY <1>0, <1>6, <1>7

(* What is classified is polled no more. *)
LEMMA ClassifiedIsSettled ==
  ASSUME NEW status \in PollStatuses, NEW received
  PROVE  /\ Advance(status, ClassifiedStatus(Expected, received)) \in Status
         /\ Advance(status, ClassifiedStatus(Expected, received)) \notin PollStatuses \cup {"ABSENT"}
<1> DEFINE next == ClassifiedStatus(Expected, received)
<1>1. next \in {"OVERPAID", "UNDERPAID", "DEPOSIT_DETECTED"}
  BY DEF ClassifiedStatus
<1> HIDE DEF next
<1>2. status \in {"CREATED", "WAITING_DEPOSIT"}
  BY DEF PollStatuses
<1>3. Advance(status, next) = next
  BY <1>1, <1>2 DEF Advance, IsFinal, FinalStatuses, Rank
<1> QED BY <1>1, <1>3 DEF next, PollStatuses, Status, Rank

LEMMA RecordsKeeps ==
  ASSUME KuCoinInv, NEW r \in Requests, Records(r)
  PROVE  KuCoinInv'
<1> DEFINE old    == job[r]
           status == Advance(old.status, ClassifiedStatus(Expected, Growth(r)))
           new    == IF Kind(Expected, Growth(r)) = "underpaid" THEN Idle ELSE Stays(r, "transfer")
<1>0. /\ TypesInv /\ JobInv(r) /\ old.at = "record"
      /\ request' = [request EXCEPT ![r].deposit = Growth(r), ![r].status = status]
      /\ upTo' = [upTo EXCEPT ![r] = old.upTo] /\ Goes(r, new)
      /\ UNCHANGED <<intents, ledger, balance, queue, from, lost, faults>>
  BY DEF KuCoinInv, Records, At
<1>1. /\ old \in JobState /\ Len(ledger) \in Nat /\ from[r] \in 0..Len(ledger)
      /\ request \in [Requests -> RequestType]
  BY <1>0 DEF TypesInv
<1>2. /\ old.status \in PollStatuses /\ HasRead(r) /\ old.base = After(from[r]) /\ Growth(r) > 0
  BY <1>0 DEF JobInv, At
<1>3. /\ old.upTo \in from[r]..Len(ledger) /\ old.upTo \in 0..Len(ledger)
      /\ Growth(r) = After(old.upTo) - After(from[r])
  BY <1>1, <1>2 DEF HasRead, Growth
<1>4. Growth(r) \in Nat
  <2>1. After(old.upTo) \in Nat /\ After(from[r]) \in Nat
    BY <1>0, <1>1, <1>3, AfterIsNat
  <2> QED BY <1>2, <1>3, <2>1
<1>5. status \in Status /\ status \notin PollStatuses \cup {"ABSENT"}
  BY <1>2, ClassifiedIsSettled
<1>6. /\ request' \in [Requests -> RequestType]
      /\ request'[r].deposit = Growth(r) /\ request'[r].status = status
      /\ \A q \in Requests : q # r => request'[q] = request[q]
  <2> HIDE DEF status, old
  <2> QED BY <1>0, <1>1, <1>4, <1>5 DEF RequestType
<1>7. new \in JobState /\ new.at \in {"idle", "transfer"}
  BY <1>1, IdleIs DEF Stays, JobState, Steps
<1> HIDE DEF new
<1>8. /\ job'[r] = new /\ job' \in [Requests -> JobState]
      /\ \A q \in Requests : q # r => job'[q] = job[q]
  BY <1>0, <1>7, GoesIs
<1>9. /\ upTo'[r] = old.upTo /\ \A q \in Requests : q # r => upTo'[q] = upTo[q]
      /\ upTo' \in [Requests -> Nat]
  <2>1. upTo \in [Requests -> Nat] /\ old.upTo \in Nat
    BY <1>0, <1>1 DEF TypesInv, JobState
  <2> HIDE DEF old
  <2> QED BY <1>0, <2>1
<1>10. TypesInv'
  <2>1. UNCHANGED <<ledger, balance, queue, from>> /\ TypesInv
    BY <1>0
  <2>2. request' \in [Requests -> RequestType] /\ job' \in [Requests -> JobState] /\ upTo' \in [Requests -> Nat]
    BY <1>6, <1>8, <1>9
  <2> QED BY <2>1, <2>2 DEF TypesInv
<1>11. RowsInv'
  BY <1>0, <1>6, <1>8, WorkersRows DEF At
<1>12. SavedInv(r)'
  BY <1>2, <1>4, <1>6 DEF SavedInv
<1>13. JobInv(r)'
  BY <1>7, <1>8 DEF JobInv, At
<1>14. DepositInv(r)'
  <2>1. After(upTo[r])' = After(old.upTo) /\ After(from[r])' = After(from[r])
    BY <1>0, <1>9 DEF After
  <2> HIDE DEF status
  <2> QED BY <1>0, <1>3, <1>5, <1>6, <1>9, <2>1 DEF DepositInv
<1>15. \A q \in Requests : from'[q] = from[q]
  BY <1>0
<1> QED BY <1>0, <1>6, <1>8, <1>10, <1>11, <1>12, <1>13, <1>9, <1>14, <1>15, OneRequest

LEMMA ThrowsKeeps ==
  ASSUME KuCoinInv, NEW r \in Requests, TransferThrows(r)
  PROVE  KuCoinInv'
<1>0. /\ TypesInv /\ SavedInv(r) /\ DepositInv(r) /\ At(r, "transfer") /\ Goes(r, Idle)
      /\ UNCHANGED <<request, ledger, balance, queue, from, upTo, lost, faults>>
  BY DEF KuCoinInv, TransferThrows
<1>1. /\ job'[r] = Idle /\ job' \in [Requests -> JobState]
      /\ \A q \in Requests : q # r => job'[q] = job[q]
  BY <1>0, GoesIs, IdleIs
<1>2. TypesInv'
  BY <1>0, <1>1 DEF TypesInv
<1>3. RowsInv'
  BY <1>0, <1>1, WorkersRows DEF At
<1>4. SavedInv(r)'
  BY <1>0 DEF SavedInv, At, After
<1>5. JobInv(r)'
  BY <1>1, IdleIs DEF JobInv, At
<1>6. DepositInv(r)'
  BY <1>0 DEF DepositInv, After
<1> QED BY <1>0, <1>1, <1>2, <1>3, <1>4, <1>5, <1>6, OneRequest
-------------------------------------------------------------------------------
(* Faults. *)

(* A worker that is gone leaves a balance its request can go on from: the one
   it saved, when growth is forgotten. *)
LEMMA ForgetKeeps ==
  ASSUME KuCoinInv, UNCHANGED <<request, ledger, balance, upTo>>, NEW r \in Requests,
         job'[r] = Idle, from'[r] = IF At(r, "record") THEN job[r].upTo ELSE from[r]
  PROVE  (SavedInv(r) /\ JobInv(r) /\ DepositInv(r))' /\ from'[r] \in 0..Len(ledger)
<1>0. /\ SavedInv(r) /\ JobInv(r) /\ DepositInv(r) /\ from[r] \in 0..Len(ledger) /\ Len(ledger) \in Nat
      /\ request[r].deposit \in Nat
  BY DEF KuCoinInv, TypesInv, RequestType
<1>1. JobInv(r)'
  BY IdleIs DEF JobInv, At
<1>2. CASE At(r, "record")
  <2>1. /\ request[r].deposit = 0 /\ request[r].lastKnownBalance = After(job[r].upTo)
        /\ job[r].upTo \in from[r]..Len(ledger)
    BY <1>0, <1>2 DEF JobInv, At, HasRead
  <2>2. from'[r] \in 0..Len(ledger) /\ request'[r].lastKnownBalance = After(from[r])'
    BY <1>0, <1>2, <2>1 DEF After
  <2>3. SavedInv(r)'
    BY <2>2 DEF SavedInv
  <2>4. DepositInv(r)'
    BY <2>1 DEF DepositInv
  <2> QED BY <1>1, <2>2, <2>3, <2>4
<1>3. CASE ~At(r, "record")
  <2>1. from'[r] = from[r]
    BY <1>3
  <2>2. SavedInv(r)'
    BY <1>0, <1>3, <2>1 DEF SavedInv, After
  <2>3. DepositInv(r)'
    BY <1>0, <2>1 DEF DepositInv, After
  <2> QED BY <1>0, <1>1, <2>1, <2>2, <2>3
<1> QED BY <1>2, <1>3

LEMMA JobThrowsKeeps ==
  ASSUME KuCoinInv, NEW r \in Requests, JobThrows(r)
  PROVE  KuCoinInv'
<1>0. /\ TypesInv /\ ~At(r, "idle") /\ Forget({r}) /\ Goes(r, Idle)
      /\ UNCHANGED <<request, intents, ledger, balance, queue, upTo>>
  BY DEF KuCoinInv, JobThrows
<1>1. /\ job'[r] = Idle /\ job' \in [Requests -> JobState]
      /\ \A q \in Requests : q # r => job'[q] = job[q]
  BY <1>0, GoesIs, IdleIs
<1>2. /\ \A q \in Requests : q # r => from'[q] = from[q]
      /\ from'[r] = IF At(r, "record") THEN job[r].upTo ELSE from[r]
  BY <1>0 DEF Forget
<1>3. (SavedInv(r) /\ JobInv(r) /\ DepositInv(r))' /\ from'[r] \in 0..Len(ledger)
  BY <1>0, <1>1, <1>2, ForgetKeeps
<1>4. TypesInv'
  <2>1. \A q \in Requests : from'[q] \in 0..Len(ledger)
    BY <1>0, <1>2, <1>3 DEF TypesInv
  <2>2. from' = [q \in Requests |-> from'[q]]
    BY <1>0 DEF Forget
  <2>3. from' \in [Requests -> 0..Len(ledger)]
    BY <2>1, <2>2
  <2> QED BY <1>0, <1>1, <2>3 DEF TypesInv
<1>5. RowsInv'
  BY <1>0, <1>1, WorkersRows
<1> QED BY <1>0, <1>1, <1>2, <1>3, <1>4, <1>5, OneRequest

LEMMA RestartKeeps ==
  ASSUME KuCoinInv, Restart
  PROVE  KuCoinInv'
<1>0. /\ TypesInv /\ Forget(Requests) /\ job' = [r \in Requests |-> Idle] /\ queue' = {}
      /\ UNCHANGED <<request, intents, ledger, balance, upTo>>
  BY DEF KuCoinInv, Restart
<1>1. \A r \in Requests : /\ job'[r] = Idle
                          /\ from'[r] = IF At(r, "record") THEN job[r].upTo ELSE from[r]
  BY <1>0 DEF Forget
<1>2. \A r \in Requests : (SavedInv(r) /\ JobInv(r) /\ DepositInv(r))' /\ from'[r] \in 0..Len(ledger)
  BY <1>0, <1>1, ForgetKeeps
<1>3. TypesInv'
  <2>1. from' = [q \in Requests |-> from'[q]]
    BY <1>0 DEF Forget
  <2>2. from' \in [Requests -> 0..Len(ledger)]
    BY <1>2, <2>1
  <2>3. job' \in [Requests -> JobState]
    BY <1>0, IdleIs
  <2> QED BY <1>0, <2>2, <2>3 DEF TypesInv
<1>4. RowsInv'
  BY <1>0 DEF RowsInv
<1>5. LedgerInv'
  BY <1>0, LedgerStays
<1> QED BY <1>2, <1>3, <1>4, <1>5 DEF KuCoinInv
-------------------------------------------------------------------------------
(* The invariant, and what it says of a recorded deposit. *)

LEMMA KuCoinInit == Init => KuCoinInv
<1> SUFFICES ASSUME Init PROVE KuCoinInv
  OBVIOUS
<1>1. /\ request = [r \in Requests |-> [status |-> "ABSENT", lastKnownBalance |-> NoBalance, deposit |-> 0]]
      /\ ledger = <<>> /\ balance = Float /\ queue = {} /\ job = [r \in Requests |-> Idle]
      /\ from = [r \in Requests |-> 0] /\ upTo = [r \in Requests |-> 0]
  BY DEF Init
<1>2. ledger \in Seq(EntryState) /\ Len(ledger) = 0
  BY <1>1
<1>3. TypesInv
  <2>1. request \in [Requests -> RequestType]
    BY <1>1 DEF RequestType
  <2>2. job \in [Requests -> JobState]
    BY <1>1, IdleIs
  <2>3. from \in [Requests -> 0..Len(ledger)] /\ upTo \in [Requests -> Nat]
    BY <1>1, <1>2
  <2>4. balance \in Nat /\ queue \subseteq RowState
    BY <1>1, KuCoinAssumption
  <2> QED BY <1>2, <2>1, <2>2, <2>3, <2>4 DEF TypesInv
<1>4. LedgerInv
  BY <1>1, <1>2, KuCoinAssumption DEF LedgerInv, After, Paid
<1>5. RowsInv
  BY <1>1 DEF RowsInv
<1>6. ASSUME NEW r \in Requests PROVE SavedInv(r) /\ JobInv(r) /\ DepositInv(r)
  <2>1. request[r].deposit = 0 /\ request[r].lastKnownBalance = NoBalance /\ job[r] = Idle
    BY <1>1
  <2> QED BY <2>1, IdleIs DEF SavedInv, JobInv, DepositInv, At
<1> QED BY <1>3, <1>4, <1>5, <1>6 DEF KuCoinInv

LEMMA KuCoinNext == KuCoinInv /\ [Next]_vars => KuCoinInv'
<1> SUFFICES ASSUME KuCoinInv, [Next]_vars PROVE KuCoinInv'
  OBVIOUS
<1>1. CASE CycleBegins
  BY <1>1, CycleKeeps
<1>2. CASE \E row \in queue : PoolTakes(row)
  BY <1>2, TakesKeeps
<1>3. CASE \E r \in Requests : JobStep(r)
  BY <1>3, AsksKeeps, SavesKeeps, RecordsKeeps, ThrowsKeeps DEF JobStep
<1>4. CASE ClientPays
  <2>1. PICK amount \in Amounts : Moves("client", amount)
    BY <1>4 DEF ClientPays
  <2>2. amount \in Nat
    BY KuCoinAssumption
  <2> QED BY <2>1, <2>2, MovesKeep
<1>5. CASE OthersMove
  <2>1. OtherAmount \in Int /\ -OtherAmount \in Int /\ -OtherAmount <= 0
    BY KuCoinAssumption
  <2>2. CASE Moves("other", OtherAmount)
    BY <2>1, <2>2, MovesKeep
  <2>3. CASE Moves("out", -OtherAmount)
    BY <2>1, <2>3, MovesKeep
  <2> QED BY <1>5, <2>2, <2>3 DEF OthersMove
<1>6. CASE Restart
  BY <1>6, RestartKeeps
<1>7. CASE \E r \in Requests : RequestOpens(r) \/ JobThrows(r)
  BY <1>7, OpensKeeps, JobThrowsKeeps
<1>8. CASE UNCHANGED vars
  <2>1. /\ UNCHANGED <<request, ledger, balance, queue, job, from, upTo>> /\ TypesInv /\ RowsInv
        /\ LedgerInv' /\ \A i \in 0..Len(ledger) : After(i)' = After(i)
    BY <1>8, LedgerStays DEF vars, KuCoinInv
  <2>2. TypesInv' /\ RowsInv'
    BY <2>1 DEF TypesInv, RowsInv, At
  <2>3. Len(ledger') >= Len(ledger) /\ Len(ledger') \in Nat
    BY <2>1 DEF TypesInv
  <2>4. \A r \in Requests : (SavedInv(r) /\ JobInv(r) /\ DepositInv(r))'
    BY <2>1, <2>3, RestStays
  <2> QED BY <2>1, <2>2, <2>4 DEF KuCoinInv
<1> QED BY <1>1, <1>2, <1>3, <1>4, <1>5, <1>6, <1>7, <1>8 DEF Next, Poller

(* KuCoinInv holds always: the ledger, the balances the database saved and
   the ones workers carry agree, whatever interleaves, throws or restarts. *)
THEOREM KuCoinCorrect == Spec => []KuCoinInv
<1>1. Init => KuCoinInv
  BY KuCoinInit
<1>2. KuCoinInv /\ [Next]_vars => KuCoinInv'
  BY KuCoinNext
<1> QED BY <1>1, <1>2, PTL DEF Spec

(* What checkKuCoinDeposit records came in between the two balances it
   compared: from clients, or as another settlement's money. *)
THEOREM ClaimsAreBacked == Spec => []ClaimIsBacked
<1>1. KuCoinInv => ClaimIsBacked
  <2> SUFFICES ASSUME KuCoinInv, NEW r \in Requests, request[r].deposit > 0,
                      ~OthersPaid(from[r], upTo[r])
               PROVE  Paid(upTo[r]) - Paid(from[r]) >= request[r].deposit
    BY DEF ClaimIsBacked
  <2>1. /\ TypesInv /\ LedgerInv /\ from[r] \in 0..Len(ledger) /\ Len(ledger) \in Nat
        /\ upTo[r] \in from[r]..Len(ledger)
        /\ request[r].deposit = After(upTo[r]) - After(from[r])
    BY DEF KuCoinInv, DepositInv, TypesInv
  <2>2. upTo[r] \in 0..Len(ledger) /\ from[r] \in 0..upTo[r]
    BY <2>1
  <2>3. After(upTo[r]) - After(from[r]) <= Paid(upTo[r]) - Paid(from[r])
    BY <2>1, <2>2 DEF LedgerInv
  <2>4. /\ After(upTo[r]) \in Nat /\ After(from[r]) \in Nat
        /\ Paid(upTo[r]) \in Nat /\ Paid(from[r]) \in Nat
    BY <2>1, <2>2, AfterIsNat
  <2> QED BY <2>1, <2>3, <2>4
<1> QED BY <1>1, KuCoinCorrect, PTL
===============================================================================
