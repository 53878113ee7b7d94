-------------------------- MODULE TxAccountScan_proofs --------------------------
(***************************************************************************)
(* Between two starts of the process no scan of an account-read chain       *)
(* hands a deposit over twice, whichever calls fail; and on Stellar, Cosmos *)
(* and Sui no scan passes over a deposit.                                   *)
(***************************************************************************)
EXTENDS TxAccountScan, FiniteSetTheorems, TLAPS

(* What a cursor may not exceed. *)
Bound(a) == IF family = "xrp" THEN open ELSE Len(history[a])

LEMMA PositionBounds ==
  ASSUME AccountInv, NEW a \in Addresses, NEW i \in 1 .. Len(history[a])
  PROVE  /\ Position(a, i) \in Nat /\ Position(a, i) <= Bound(a)
         /\ Len(history[a]) \in Nat /\ Bound(a) \in Nat
         /\ \A j \in 1 .. Len(history[a]) : j <= i => Position(a, j) <= Position(a, i)
<1>1. history[a] \in Seq(Entry) /\ open \in Nat
  BY DEF AccountInv, TypeOK
<1>2. history[a][i] \in Entry /\ Len(history[a]) \in Nat
  BY <1>1
<1> QED BY <1>1, <1>2 DEF AccountInv, Position, Bound, Entry

(* The next cursor of an answer lies between the cursor and the end, and no
   entry of the answer lies above it. *)
LEMMA LastBounds ==
  ASSUME AccountInv, NEW a \in Addresses, cursor[a] # NoCursor,
         NEW S \in SUBSET Unread(a), NEW next \in LastPosition(a, S)
  PROVE  /\ next \in Nat /\ cursor[a] <= next /\ next <= Bound(a)
         /\ \A i \in S : cursor[a] < Position(a, i) /\ Position(a, i) <= next
<1>1. cursor[a] \in Nat /\ cursor[a] <= Bound(a)
  BY DEF AccountInv, TypeOK, Bound
<1>2. CASE S = {}
  BY <1>1, <1>2 DEF LastPosition
<1>3. CASE S # {}
  <2>1. PICK i \in S : next = Position(a, i) /\ \A k \in S : k <= i
    BY <1>3 DEF LastPosition
  <2>2. \A k \in S : k \in 1 .. Len(history[a]) /\ cursor[a] < Position(a, k)
    BY DEF Unread
  <2>3. Position(a, i) \in Nat /\ Position(a, i) <= Bound(a) /\ Bound(a) \in Nat
        /\ \A k \in S : Position(a, k) <= Position(a, i)
    BY <2>1, <2>2, PositionBounds
  <2> QED BY <1>1, <2>1, <2>2, <2>3
<1> QED BY <1>2, <1>3

(* An answer keeps the invariant when it does not move the cursor back and
   finds deposits ahead of it only: the cursor then reaches them, or the
   answer is counted. *)
LEMMA AnswersKeep ==
  ASSUME AccountInv, NEW a \in Addresses, NEW S \in SUBSET (1 .. Len(history[a])),
         NEW next \in Nat \cup {NoCursor}, Answers(a, S, next),
         UNCHANGED stuck \/ stuck' = [stuck EXCEPT ![a] = @ + 1],
         next # NoCursor => next <= Bound(a),
         cursor[a] # NoCursor => next # NoCursor /\ cursor[a] <= next,
         \A i \in DepositsAmong(a, S) :
           /\ UNCHANGED stuck => next # NoCursor /\ Position(a, i) <= next
           /\ cursor[a] # NoCursor => cursor[a] < Position(a, i)
  PROVE  AccountInv'
<1>1. /\ found' = found \cup {<<a, i>> : i \in DepositsAmong(a, S)}
      /\ cursor' = [cursor EXCEPT ![a] = next]
      /\ targets' = targets \ {a} /\ a \in targets
      /\ watched' = [watched EXCEPT ![a] = IF @ = NoCursor THEN Len(history[a]) ELSE @]
      /\ UNCHANGED <<family, history, open, request, handed, crashes>>
  BY DEF Answers
<1>2. TypeOK /\ Len(history[a]) \in Nat /\ Len(history[a]) <= MaxEntries /\ MaxEntries \in Nat
  BY AccountAssumption DEF AccountInv, TypeOK
<1>3. \A i \in DepositsAmong(a, S) : i \in 1 .. Len(history[a]) /\ <<a, i>> \in Deposit
  BY <1>2 DEF DepositsAmong, Deposit
<1>4. TypeOK'
  BY <1>1, <1>2, <1>3 DEF TypeOK
<1>5. /\ \A b \in Addresses : cursor'[b] = IF b = a THEN next ELSE cursor[b]
      /\ \A b \in Addresses : stuck[b] \in Nat /\ stuck'[b] \in Nat /\ stuck[b] <= stuck'[b]
      /\ UNCHANGED stuck \/ stuck[a] < stuck'[a]
  <2>1. stuck \in [Addresses -> Nat]
    BY <1>2 DEF TypeOK
  <2>2. \A b \in Addresses : cursor'[b] = IF b = a THEN next ELSE cursor[b]
    BY <1>1, <1>2 DEF TypeOK
  <2>3. CASE UNCHANGED stuck
    BY <2>1, <2>2, <2>3
  <2>4. CASE stuck' = [stuck EXCEPT ![a] = @ + 1]
    <3>1. \A b \in Addresses : stuck'[b] = IF b = a THEN stuck[a] + 1 ELSE stuck[b]
      BY <2>1, <2>4
    <3>2. \A b \in Addresses : stuck[b] \in Nat /\ stuck'[b] \in Nat /\ stuck[b] <= stuck'[b]
      BY <2>1, <3>1
    <3>3. stuck[a] < stuck'[a]
      BY <2>1, <3>1
    <3> QED BY <2>2, <3>2, <3>3
  <2> QED BY <2>3, <2>4
<1>6. \A b \in Addresses, i \in Nat : Position(b, i)' = Position(b, i)
  BY <1>1 DEF Position
<1>7. \A d \in Deposit : d[1] \in Addresses /\ d[2] \in Nat \ {0}
  BY <1>2 DEF Deposit
<1>8. ASSUME NEW d \in Deposit
      PROVE  /\ handed'[d] <= 1 + stuck'[d[1]]
             /\ d \in found' => d[1] \notin targets' /\ handed'[d] <= stuck'[d[1]]
             /\ d \in found' \/ handed'[d] > 0 =>
                  /\ d[2] <= Len(history'[d[1]])
                  /\ Ahead(d)' => /\ handed'[d] <= stuck'[d[1]]
                                  /\ d \in found' => handed'[d] < stuck'[d[1]]
  <2>1. /\ handed[d] \in Nat /\ handed'[d] = handed[d] /\ history' = history
        /\ d[1] \in Addresses /\ stuck[d[1]] \in Nat /\ stuck'[d[1]] \in Nat
        /\ stuck[d[1]] <= stuck'[d[1]]
    BY <1>1, <1>2, <1>5, <1>7 DEF TypeOK
  <2>2. /\ handed[d] <= 1 + stuck[d[1]]
        /\ d \in found => d[1] \notin targets /\ handed[d] <= stuck[d[1]]
        /\ d \in found \/ handed[d] > 0 =>
             /\ d[2] <= Len(history[d[1]])
             /\ Ahead(d) => /\ handed[d] <= stuck[d[1]]
                            /\ d \in found => handed[d] < stuck[d[1]]
    BY DEF AccountInv
  <2>3. ASSUME d \in found \/ handed[d] > 0 \/ d \in found', Ahead(d)' PROVE Ahead(d)
    <3>1. d[2] \in 1 .. Len(history[d[1]])
      BY <1>1, <1>2, <1>3, <1>7, <2>2, <2>3 DEF TypeOK
    <3>2. Position(d[1], d[2]) \in Nat /\ cursor[d[1]] \in Nat \cup {NoCursor}
      BY <1>2, <2>1, <3>1, PositionBounds DEF TypeOK
    <3> QED BY <1>5, <1>6, <1>7, <2>3, <3>2 DEF Ahead
  <2>4. CASE d[1] # a
    <3>1. d \in found' <=> d \in found
      BY <1>1, <2>4
    <3> QED BY <1>1, <2>1, <2>2, <2>3, <3>1
  <2>5. CASE d[1] = a /\ d \notin found'
    <3>1. d \notin found
      BY <1>1, <2>5
    <3> QED BY <2>1, <2>2, <2>3, <2>5, <3>1
  <2>6. CASE d[1] = a /\ d \in found'
    <3>1. d \notin found
      BY <1>1, <2>2, <2>6
    <3>2. PICK i \in DepositsAmong(a, S) : d = <<a, i>>
      BY <1>1, <2>6, <3>1
    <3>3. d[2] = i /\ d[2] \in 1 .. Len(history[d[1]]) /\ d[2] <= Len(history[d[1]])
      BY <1>2, <1>3, <2>6, <3>2
    <3>4. Ahead(d)
      BY <2>6, <3>2, <3>3 DEF Ahead
    <3>5. handed[d] <= stuck[a]
      BY <2>1, <2>2, <2>6, <3>4
    <3>6. Ahead(d)' => ~UNCHANGED stuck
      <4> SUFFICES ASSUME Ahead(d)', UNCHANGED stuck PROVE FALSE
        OBVIOUS
      <4>1. next # NoCursor /\ Position(a, i) <= next /\ Position(a, i) \in Nat /\ next \in Nat
        BY <1>3, <3>2, PositionBounds
      <4>2. cursor'[a] = next /\ Position(a, i)' = Position(a, i)
        BY <1>5, <1>6, <1>7, <2>6, <3>3
      <4> QED BY <2>6, <3>3, <4>1, <4>2 DEF Ahead
    <3>7. Ahead(d)' => handed[d] < stuck'[a]
      BY <1>5, <2>1, <2>6, <3>5, <3>6
    <3> QED BY <1>1, <2>1, <2>6, <3>3, <3>5, <3>7
  <2> QED BY <2>4, <2>5, <2>6
<1>9. \A b \in Addresses : cursor'[b] # NoCursor => cursor'[b] <= IF family = "xrp" THEN open ELSE Len(history[b])
  BY <1>5 DEF AccountInv, Bound
<1> QED BY <1>1, <1>4, <1>8, <1>9 DEF AccountInv

(* An answer whose cursor reaches what it found. *)
LEMMA AnsweredKeeps ==
  ASSUME AccountInv, NEW a \in Addresses, NEW S \in SUBSET (1 .. Len(history[a])),
         NEW next \in Nat \cup {NoCursor}, Answered(a, S, next),
         next # NoCursor => next <= Bound(a),
         cursor[a] # NoCursor => next # NoCursor /\ cursor[a] <= next,
         \A i \in DepositsAmong(a, S) :
           /\ next # NoCursor /\ Position(a, i) <= next
           /\ cursor[a] # NoCursor => cursor[a] < Position(a, i)
  PROVE  AccountInv'
  BY AnswersKeep DEF Answered

(* An answer of what lies ahead that leaves the cursor there is counted. *)
LEMMA StuckKeeps ==
  ASSUME AccountInv, NEW a \in Addresses, NEW S \in SUBSET (1 .. Len(history[a])),
         AnsweredStuck(a, S),
         \A i \in S : cursor[a] # NoCursor => cursor[a] < Position(a, i)
  PROVE  AccountInv'
<1>1. /\ stuck \in [Addresses -> Nat] /\ cursor[a] \in Nat \cup {NoCursor}
      /\ cursor[a] # NoCursor => cursor[a] \in Nat /\ cursor[a] <= Bound(a)
  BY DEF AccountInv, TypeOK, Bound
<1>2. stuck' = [stuck EXCEPT ![a] = @ + 1] /\ ~UNCHANGED stuck
  <2>1. stuck' = [stuck EXCEPT ![a] = @ + 1]
    BY DEF AnsweredStuck
  <2>2. stuck'[a] = stuck[a] + 1 /\ stuck[a] \in Nat
    BY <1>1, <2>1
  <2> QED BY <2>1, <2>2
<1>3. \A i \in DepositsAmong(a, S) :
        /\ UNCHANGED stuck => cursor[a] # NoCursor /\ Position(a, i) <= cursor[a]
        /\ cursor[a] # NoCursor => cursor[a] < Position(a, i)
  BY <1>2 DEF DepositsAmong
<1>4. Answers(a, S, cursor[a])
  BY DEF AnsweredStuck
<1>5. cursor[a] # NoCursor => cursor[a] <= cursor[a]
  BY <1>1
<1>6. ASSUME NEW next, next = cursor[a] PROVE AccountInv'
  BY <1>1, <1>2, <1>3, <1>4, <1>5, <1>6, AnswersKeep
<1> QED BY <1>6

LEMMA AbortedKeeps ==
  ASSUME AccountInv, NEW a \in Addresses, NEW next \in Nat \cup {NoCursor}, Aborted(a, next),
         next # NoCursor => next <= Bound(a),
         cursor[a] # NoCursor => next # NoCursor /\ cursor[a] <= next
  PROVE  AccountInv'
<1>1. /\ found' = {} /\ targets' = {}
      /\ cursor' = [cursor EXCEPT ![a] = next]
      /\ UNCHANGED <<family, history, open, request, handed, watched, stuck, crashes>>
  BY DEF Aborted
<1>2. TypeOK
  BY DEF AccountInv
<1>3. TypeOK' /\ \A b \in Addresses : cursor'[b] = IF b = a THEN next ELSE cursor[b]
  BY <1>1, <1>2 DEF TypeOK
<1>4. ASSUME NEW d \in Deposit, handed[d] > 0, Ahead(d)'
      PROVE  Ahead(d)
  <2>1. d[2] <= Len(history[d[1]]) /\ d[1] \in Addresses /\ d[2] \in Nat \ {0}
    BY <1>4, AccountAssumption DEF AccountInv, Deposit
  <2>2. Position(d[1], d[2]) \in Nat /\ cursor[d[1]] \in Nat \cup {NoCursor}
    BY <1>2, <2>1, PositionBounds DEF TypeOK
  <2>3. Position(d[1], d[2])' = Position(d[1], d[2])
    BY <1>1 DEF Position
  <2> QED BY <1>3, <1>4, <2>1, <2>2, <2>3 DEF Ahead
<1>5. \A b \in Addresses : cursor'[b] # NoCursor => cursor'[b] <= IF family = "xrp" THEN open ELSE Len(history[b])
  BY <1>3 DEF AccountInv, Bound
<1> QED BY <1>1, <1>3, <1>4, <1>5 DEF AccountInv
-------------------------------------------------------------------------------
(* The scanners that read from a cursor: the answer is among the unread
   entries, and the cursor moves to the last of the answer, of its deposits
   or, on Solana, of all there is. *)
LEMMA ReadKeeps ==
  ASSUME AccountInv, NEW a \in Addresses, cursor[a] # NoCursor,
         NEW S \in SUBSET Unread(a), NEW T \in SUBSET Unread(a), DepositsAmong(a, S) \subseteq T,
         NEW next \in LastPosition(a, T), Answered(a, S, next)
  PROVE  AccountInv'
<1>1. /\ next \in Nat /\ cursor[a] <= next /\ next <= Bound(a)
      /\ \A i \in T : cursor[a] < Position(a, i) /\ Position(a, i) <= next
  BY LastBounds
<1>2. S \in SUBSET (1 .. Len(history[a]))
  BY DEF Unread
<1>3. next # NoCursor
  BY <1>1, AccountAssumption
<1> QED BY <1>1, <1>2, <1>3, AnsweredKeeps

(* An answer that finds nothing and leaves the cursor, or sets the first. *)
LEMMA EmptyKeeps ==
  ASSUME AccountInv, NEW a \in Addresses, NEW next \in Nat \cup {NoCursor}, Answered(a, {}, next),
         next # NoCursor => next <= Bound(a), cursor[a] # NoCursor => next = cursor[a]
  PROVE  AccountInv'
<1>1. DepositsAmong(a, {}) = {}
  BY DEF DepositsAmong
<1>2. cursor[a] # NoCursor => cursor[a] <= next
  BY DEF AccountInv, TypeOK
<1> QED BY <1>1, <1>2, AnsweredKeeps

(* A page of Cosmos is the interval above the offset, so that the offset
   moved by its length is its last place. *)
LEMMA CosmosPage ==
  ASSUME NEW offset \in Nat, NEW n \in Nat, offset <= n
  PROVE  LET S == Oldest({i \in 1 .. n : i > offset})
         IN  /\ S \subseteq 1 .. n
             /\ offset + Cardinality(S) \in Nat /\ offset + Cardinality(S) <= n
             /\ \A i \in S : offset < i /\ i <= offset + Cardinality(S)
             /\ \A i \in 1 .. n : offset < i /\ i <= offset + Cardinality(S) => i \in S
<1> DEFINE R == {i \in 1 .. n : i > offset}
           m == IF offset + Limit < n THEN offset + Limit ELSE n
<1>1. ASSUME NEW i \in R PROVE Cardinality({j \in R : j <= i}) = i - offset
  <2>1. {j \in R : j <= i} = (offset + 1) .. i
    OBVIOUS
  <2>2. offset + 1 \in Int /\ i \in Int /\ ~(offset + 1 > i)
    OBVIOUS
  <2>3. Cardinality((offset + 1) .. i) = i - (offset + 1) + 1
    BY <2>2, FS_Interval
  <2>4. i - (offset + 1) + 1 = i - offset
    BY <2>2
  <2> HIDE DEF R
  <2> QED BY <2>1, <2>3, <2>4
<1>2. Limit \in Nat \ {0} /\ m \in Nat /\ offset <= m /\ m <= n
  BY AccountAssumption
<1>3. Oldest(R) = (offset + 1) .. m
  <2>1. Oldest(R) = {i \in R : i - offset <= Limit}
    BY <1>1 DEF Oldest
  <2>2. {i \in R : i - offset <= Limit} = (offset + 1) .. m
    BY <1>2
  <2> QED BY <2>1, <2>2
<1>4. Cardinality((offset + 1) .. m) = m - offset
  <2>1. offset + 1 \in Int /\ m \in Int
    BY <1>2
  <2>2. Cardinality((offset + 1) .. m) = IF offset + 1 > m THEN 0 ELSE m - (offset + 1) + 1
    BY <2>1, FS_Interval
  <2> QED BY <1>2, <2>2
<1>5. \A i \in (offset + 1) .. m : i \in 1 .. n /\ offset < i /\ i <= m
  BY <1>2
<1>6. offset + (m - offset) = m
  BY <1>2
<1> HIDE DEF R, m
<1>7. /\ Oldest(R) \subseteq 1 .. n
      /\ offset + Cardinality(Oldest(R)) = m
      /\ \A i \in Oldest(R) : offset < i /\ i <= m
      /\ \A i \in 1 .. n : offset < i /\ i <= m => i \in Oldest(R)
  <2>1. \A i \in 1 .. n : offset < i /\ i <= m => i \in (offset + 1) .. m
    BY <1>2
  <2> QED BY <1>3, <1>4, <1>5, <1>6, <2>1
<1> QED BY <1>2, <1>7 DEF R

LEMMA ReadingKeeps == ASSUME AccountInv, NEW a \in Addresses, Read(a) PROVE AccountInv'
<1>1. /\ TypeOK /\ open \in Nat /\ Len(history[a]) \in Nat /\ cursor[a] \in Nat \cup {NoCursor}
      /\ cursor[a] # NoCursor => cursor[a] <= Bound(a)
  BY DEF AccountInv, TypeOK, Bound
<1>2. Newest(Unread(a)) \subseteq Unread(a) /\ Oldest(Unread(a)) \subseteq Unread(a)
  BY DEF Newest, Oldest
<1>3. \A S : DepositsAmong(a, S) \subseteq S
  BY DEF DepositsAmong
<1>4. CASE ScanSolana(a)
  <2>1. CASE Fresh(a)
    <3>1. family = "solana" /\ Bound(a) = Len(history[a]) /\ cursor[a] = NoCursor
      BY <1>4, <2>1 DEF ScanSolana, Bound, Fresh
    <3>2. PICK next \in {NoCursor, Len(history[a])} : Answered(a, {}, next)
      BY <1>4, <2>1 DEF ScanSolana
    <3>3. /\ next \in Nat \cup {NoCursor} /\ (next # NoCursor => next <= Bound(a))
          /\ cursor[a] # NoCursor => next = cursor[a]
      BY <1>1, <3>1
    <3> QED BY <3>2, <3>3, EmptyKeeps
  <2>2. CASE ~Fresh(a)
    <3>1. PICK next \in LastPosition(a, Unread(a)) : Answered(a, Newest(Unread(a)), next)
      BY <1>4, <2>2 DEF ScanSolana
    <3> QED BY <1>2, <1>3, <2>2, <3>1, ReadKeeps DEF Fresh
  <2> QED BY <2>1, <2>2
<1>5. CASE ScanXrp(a)
  <2>1. CASE Fresh(a) /\ Answered(a, {}, open)
    <3>1. cursor[a] = NoCursor /\ open <= Bound(a)
      BY <1>1, <1>5, <2>1 DEF ScanXrp, Bound, Fresh
    <3> QED BY <1>1, <2>1, <3>1, EmptyKeeps
  <2>2. CASE ~Fresh(a)
    <3> DEFINE S == Oldest({i \in Unread(a) : history[a][i].ledger < open})
    <3>1. PICK next \in LastPosition(a, DepositsAmong(a, S)) : Answered(a, S, next)
      BY <1>5, <2>2 DEF ScanXrp
    <3>2. S \subseteq Unread(a) /\ DepositsAmong(a, S) \subseteq Unread(a)
      BY <1>3 DEF Oldest
    <3>3. cursor[a] # NoCursor
      BY <2>2 DEF Fresh
    <3> HIDE DEF S
    <3> QED BY <3>1, <3>2, <3>3, ReadKeeps
  <2> QED BY <1>5, <2>1, <2>2 DEF ScanXrp
<1>6. CASE ScanStellar(a) \/ ScanSui(a)
  <2>1. Bound(a) = Len(history[a])
    BY <1>6 DEF ScanStellar, ScanSui, Bound
  <2>2. CASE Fresh(a)
    BY <1>1, <1>6, <2>1, <2>2, EmptyKeeps DEF ScanStellar, ScanSui, Fresh
  <2>3. CASE ~Fresh(a)
    <3>1. PICK T \in {Oldest(Unread(a)), DepositsAmong(a, Oldest(Unread(a)))} :
            \E next \in LastPosition(a, T) : Answered(a, Oldest(Unread(a)), next)
      BY <1>6, <2>3 DEF ScanStellar, ScanSui
    <3>2. T \subseteq Unread(a) /\ DepositsAmong(a, Oldest(Unread(a))) \subseteq T
      BY <1>2, <1>3, <3>1
    <3> QED BY <1>2, <2>3, <3>1, <3>2, ReadKeeps DEF Fresh
  <2> QED BY <2>2, <2>3
<1>7. CASE ScanCosmos(a)
  <2> DEFINE offset == IF Fresh(a) THEN 0 ELSE cursor[a]
             S == Oldest({i \in 1 .. Len(history[a]) : i > offset})
             next == offset + Cardinality(S)
  <2>1. Answered(a, S, next) /\ Bound(a) = Len(history[a]) /\ family # "xrp"
    BY <1>7 DEF ScanCosmos, Bound
  <2>2. offset \in Nat /\ offset <= Len(history[a]) /\ (cursor[a] # NoCursor => offset = cursor[a])
    BY <1>1, <2>1 DEF Fresh
  <2> HIDE DEF offset
  <2>3. /\ S \subseteq 1 .. Len(history[a])
        /\ next \in Nat /\ next <= Len(history[a])
        /\ \A i \in S : offset < i /\ i <= next
    BY <1>1, <2>2, CosmosPage
  <2>4. next # NoCursor
    BY <2>3, AccountAssumption
  <2> HIDE DEF S, next
  <2>a. \A i \in S : i \in Nat
    BY <2>3
  <2> USE DEF next
  <2>5. offset <= next
    <3>1. CASE S = {}
      <4>1. Cardinality(S) = 0
        BY <3>1, FS_EmptySet
      <4> QED BY <2>2, <4>1
    <3>2. CASE S # {}
      <4> HIDE DEF next
      <4>1. PICK i \in S : i \in Nat /\ offset < i /\ i <= next
        BY <2>3, <2>a, <3>2
      <4> QED BY <2>2, <2>3, <4>1
    <3> QED BY <3>1, <3>2
  <2> HIDE DEF next
  <2>6. \A i \in DepositsAmong(a, S) : /\ Position(a, i) = i /\ Position(a, i) <= next
                                       /\ cursor[a] # NoCursor => cursor[a] < Position(a, i)
    BY <1>3, <2>1, <2>2, <2>3 DEF Position
  <2> QED BY <2>1, <2>2, <2>3, <2>4, <2>5, <2>6, AnsweredKeeps
<1> QED BY <1>4, <1>5, <1>6, <1>7 DEF Read

LEMMA StaysBelowKeeps ==
  ASSUME AccountInv, NEW a \in Addresses, StaysBelow(a)
  PROVE  AccountInv'
<1>1. CASE family = "cosmos"
  <2> DEFINE S == Oldest({i \in 1 .. Len(history[a]) : Fresh(a) \/ cursor[a] < i})
  <2>1. PICK k \in S : AnsweredStuck(a, {i \in S : i <= k})
    BY <1>1 DEF StaysBelow
  <2>2. \A i \in S : i \in 1 .. Len(history[a]) /\ (cursor[a] # NoCursor => cursor[a] < Position(a, i))
    BY <1>1 DEF Oldest, Fresh, Position
  <2> HIDE DEF S
  <2> QED BY <2>1, <2>2, StuckKeeps
<1>2. CASE family # "cosmos"
  <2>1. AnsweredStuck(a, Oldest(Unread(a)))
    BY <1>2 DEF StaysBelow
  <2>2. \A i \in Oldest(Unread(a)) : i \in 1 .. Len(history[a]) /\ cursor[a] < Position(a, i)
    BY DEF Oldest, Unread
  <2> QED BY <2>1, <2>2, StuckKeeps
<1> QED BY <1>1, <1>2

(* An error leaves the cursor, moves it to the end or starts it at zero. *)
LEMMA CallFailsKeeps == ASSUME AccountInv, NEW a \in Addresses, CallFails(a) PROVE AccountInv'
<1>1. /\ cursor[a] \in Nat \cup {NoCursor} /\ Bound(a) \in Nat
      /\ cursor[a] # NoCursor => cursor[a] \in Nat /\ cursor[a] <= Bound(a) /\ cursor[a] <= cursor[a]
  BY DEF AccountInv, TypeOK, Bound
<1>2. CASE Aborted(a, cursor[a])
  BY <1>1, <1>2, AbortedKeeps
<1>3. ASSUME ~Fresh(a), NEW next \in LastPosition(a, Unread(a)), Aborted(a, next) PROVE AccountInv'
  <2>1. next \in Nat /\ cursor[a] <= next /\ next <= Bound(a) /\ next # NoCursor
    BY <1>3, LastBounds, AccountAssumption DEF Fresh
  <2> QED BY <1>3, <2>1, AbortedKeeps
<1>4. CASE Answered(a, {}, cursor[a])
  BY <1>1, <1>4, EmptyKeeps
<1>5. CASE Fresh(a) /\ Answered(a, {}, 0)
  <2>1. cursor[a] = NoCursor /\ 0 <= Bound(a)
    BY <1>1, <1>5 DEF Fresh
  <2> QED BY <1>5, <2>1, EmptyKeeps
<1> QED BY <1>2, <1>3, <1>4, <1>5 DEF CallFails
-------------------------------------------------------------------------------
(* Every entry has a ledger. *)
LEMMA EntryLedger ==
  ASSUME AccountInv, NEW a \in Addresses, NEW i \in 1 .. Len(history[a])
  PROVE  history[a][i].ledger \in Nat
<1>1. history[a] \in Seq(Entry)
  BY DEF AccountInv, TypeOK
<1>2. history[a][i] \in Entry
  BY <1>1
<1> QED BY <1>2 DEF Entry

(* Histories grow at their end, in the ledger being filled. *)
LEMMA AppearsKeeps ==
  ASSUME AccountInv, NEW a \in Addresses, NEW deposit \in BOOLEAN, Appears(a, deposit)
  PROVE  AccountInv'
<1> DEFINE e == [deposit |-> deposit, ledger |-> open]
           n == Len(history[a])
<1>1. /\ n < MaxEntries /\ history' = [history EXCEPT ![a] = Append(@, e)]
      /\ UNCHANGED <<family, open, request, cursor, targets, found, handed, watched, stuck, crashes>>
  BY DEF Appears
<1>2. /\ history \in [Addresses -> Seq(Entry)] /\ open \in Nat /\ e \in Entry
      /\ n \in Nat /\ MaxEntries \in Nat
  BY AccountAssumption DEF AccountInv, TypeOK, Entry
<1>3. /\ \A b \in Addresses : b # a => history'[b] = history[b]
      /\ history'[a] = Append(history[a], e) /\ history'[a] \in Seq(Entry)
      /\ Len(history'[a]) = n + 1 /\ history'[a][n + 1] = e
      /\ \A i \in 1 .. n : history'[a][i] = history[a][i]
  BY <1>1, <1>2
<1>4. TypeOK'
  BY <1>1, <1>2, <1>3 DEF AccountInv, TypeOK
<1>5. ASSUME NEW b \in Addresses
      PROVE  /\ Len(history'[b]) <= MaxEntries
             /\ cursor'[b] # NoCursor => cursor'[b] <= IF family' = "xrp" THEN open' ELSE Len(history'[b])
             /\ \A i \in 1 .. Len(history'[b]) : history'[b][i].ledger <= open'
             /\ \A i, j \in 1 .. Len(history'[b]) : i <= j => history'[b][i].ledger <= history'[b][j].ledger
  <2>0. /\ Len(history[b]) <= MaxEntries
        /\ cursor[b] # NoCursor => cursor[b] \in Nat /\ cursor[b] <= IF family = "xrp" THEN open ELSE Len(history[b])
        /\ \A i \in 1 .. Len(history[b]) : history[b][i].ledger <= open
        /\ \A i, j \in 1 .. Len(history[b]) : i <= j => history[b][i].ledger <= history[b][j].ledger
    BY DEF AccountInv, TypeOK
  <2>1. CASE b # a
    BY <1>1, <1>3, <2>0, <2>1
  <2>2. CASE b = a
    <3>1. \A i \in 1 .. (n + 1) : history'[a][i].ledger = IF i = n + 1 THEN open ELSE history[a][i].ledger
      BY <1>2, <1>3
    <3>2. \A i \in 1 .. (n + 1) : i \in Nat /\ (i = n + 1 \/ i \in 1 .. n)
      BY <1>2
    <3>3. \A i \in 1 .. (n + 1) : history'[a][i].ledger <= open
      BY <1>2, <2>0, <2>2, <3>1, <3>2
    <3>4. \A i, j \in 1 .. (n + 1) : i <= j => history'[a][i].ledger <= history'[a][j].ledger
      BY <1>2, <2>0, <2>2, <3>1, <3>2, <3>3
    <3> QED BY <1>1, <1>2, <1>3, <2>0, <2>2, <3>3, <3>4
  <2> QED BY <2>1, <2>2
<1>6. ASSUME NEW d \in Deposit, d \in found \/ handed[d] > 0
      PROVE  d[2] <= Len(history'[d[1]]) /\ (Ahead(d)' <=> Ahead(d))
  <2>1. d[1] \in Addresses /\ d[2] \in 1 .. MaxEntries /\ d[2] <= Len(history[d[1]])
    BY <1>6 DEF AccountInv, Deposit
  <2>2. d[2] \in Nat /\ d[2] >= 1
    BY <1>2, <2>1
  <2>3. history'[d[1]][d[2]] = history[d[1]][d[2]] /\ d[2] <= Len(history'[d[1]])
    <3>1. CASE d[1] = a
      <4>1. d[2] \in 1 .. n
        BY <1>2, <2>1, <2>2, <3>1
      <4> QED BY <1>2, <1>3, <3>1, <4>1
    <3>2. CASE d[1] # a
      BY <1>3, <2>1, <3>2
    <3> QED BY <3>1, <3>2
  <2>4. family' = family /\ cursor' = cursor
    BY <1>1
  <2> HIDE DEF n, e
  <2> QED BY <2>3, <2>4 DEF Position, Ahead
<1> QED BY <1>1, <1>4, <1>5, <1>6 DEF AccountInv

LEMMA ProcessKeeps ==
  ASSUME AccountInv, NEW d \in found, Process(d)
  PROVE  AccountInv'
<1>1. /\ found' = found \ {d} /\ handed' = [handed EXCEPT ![d] = @ + 1]
      /\ request' = request \/ request' = [request EXCEPT ![d[1]] = "ended"]
      /\ UNCHANGED <<family, history, open, cursor, targets, watched, stuck, crashes>>
  BY DEF Process
<1>2. /\ TypeOK /\ d \in Deposit /\ d[1] \in Addresses /\ handed[d] \in Nat
      /\ d[2] <= Len(history[d[1]])
      /\ \A c \in Deposit : handed[c] \in Nat /\ stuck[c[1]] \in Nat
  BY DEF AccountInv, TypeOK, Deposit
<1>3. TypeOK' /\ \A c \in Deposit : handed'[c] = IF c = d THEN handed[d] + 1 ELSE handed[c]
  <2>1. request' \in [Addresses -> {"tocome", "waiting", "ended"}]
    BY <1>1, <1>2 DEF TypeOK
  <2>2. /\ handed' \in [Deposit -> Nat]
        /\ \A c \in Deposit : handed'[c] = IF c = d THEN handed[d] + 1 ELSE handed[c]
    <3> HIDE DEF Deposit
    <3> QED BY <1>1, <1>2 DEF TypeOK
  <2>3. found' \subseteq Deposit
    BY <1>1, <1>2 DEF TypeOK
  <2> QED BY <1>1, <1>2, <2>1, <2>2, <2>3 DEF TypeOK
<1>4. \A c : Ahead(c)' <=> Ahead(c)
  BY <1>1 DEF Position, Ahead
<1>5. ASSUME NEW c \in Deposit
      PROVE  /\ handed'[c] <= 1 + stuck[c[1]]
             /\ c \in found' => c[1] \notin targets /\ handed'[c] <= stuck[c[1]]
             /\ c \in found' \/ handed'[c] > 0 =>
                  /\ c[2] <= Len(history[c[1]])
                  /\ Ahead(c) => /\ handed'[c] <= stuck[c[1]]
                                 /\ c \in found' => handed'[c] < stuck[c[1]]
  <2>1. /\ handed[c] <= 1 + stuck[c[1]]
        /\ c \in found => c[1] \notin targets /\ handed[c] <= stuck[c[1]]
        /\ c \in found \/ handed[c] > 0 =>
             /\ c[2] <= Len(history[c[1]])
             /\ Ahead(c) => /\ handed[c] <= stuck[c[1]]
                            /\ c \in found => handed[c] < stuck[c[1]]
    BY DEF AccountInv
  <2>2. CASE c = d
    BY <1>1, <1>2, <1>3, <2>1, <2>2
  <2>3. CASE c # d
    BY <1>1, <1>2, <1>3, <2>1, <2>3
  <2> QED BY <2>2, <2>3
<1> QED BY <1>1, <1>3, <1>4, <1>5 DEF AccountInv

LEMMA DepositOfAddress == \A d \in Deposit : d[1] \in Addresses
  BY DEF Deposit

LEMMA AccountNext == AccountInv /\ [Next]_vars => AccountInv'
<1> SUFFICES ASSUME AccountInv, [Next]_vars PROVE AccountInv'
  OBVIOUS
<1>1. CASE UNCHANGED vars
  BY <1>1 DEF vars, AccountInv, TypeOK, Position, Ahead
<1>2. CASE Load
  BY <1>2 DEF Load, Idle, waiting, AccountInv, TypeOK, Position, Ahead
<1>3. CASE Scan
  <2>1. targets \subseteq Addresses
    BY DEF AccountInv, TypeOK
  <2> QED BY <1>3, <2>1, ReadingKeeps, StaysBelowKeeps, CallFailsKeeps DEF Scan
<1>4. ASSUME NEW a \in Addresses, RequestComes(a) \/ RequestGoes(a) PROVE AccountInv'
  <2>1. /\ request' = [request EXCEPT ![a] = "waiting"] \/ request' = [request EXCEPT ![a] = "ended"]
        /\ UNCHANGED <<family, history, open, cursor, targets, found, handed, watched, stuck, crashes>>
    BY <1>4 DEF RequestComes, RequestGoes
  <2>2. TypeOK'
    BY <2>1 DEF AccountInv, TypeOK
  <2>3. \A d : Ahead(d)' <=> Ahead(d)
    BY <2>1 DEF Position, Ahead
  <2> QED BY <2>1, <2>2, <2>3 DEF AccountInv
<1>5. CASE LedgerCloses
  <2>1. open' = open + 1 /\ open \in Nat
        /\ UNCHANGED <<family, history, request, cursor, targets, found, handed, watched, stuck, crashes>>
    BY <1>5 DEF LedgerCloses, AccountInv, TypeOK
  <2>2. ASSUME NEW a \in Addresses
        PROVE  cursor'[a] # NoCursor => cursor'[a] <= IF family' = "xrp" THEN open' ELSE Len(history'[a])
    <3>1. cursor[a] # NoCursor => cursor[a] \in Nat /\ cursor[a] <= IF family = "xrp" THEN open ELSE Len(history[a])
      BY DEF AccountInv, TypeOK
    <3> QED BY <2>1, <3>1
  <2>3. ASSUME NEW a \in Addresses, NEW i \in 1 .. Len(history[a])
        PROVE  history[a][i].ledger <= open'
    <3>1. history[a][i].ledger \in Nat /\ history[a][i].ledger <= open
      BY EntryLedger DEF AccountInv
    <3> QED BY <2>1, <3>1
  <2>4. TypeOK'
    BY <2>1 DEF AccountInv, TypeOK
  <2>5. \A d : Ahead(d)' <=> Ahead(d)
    BY <2>1 DEF Position, Ahead
  <2> QED BY <2>1, <2>2, <2>3, <2>4, <2>5 DEF AccountInv
<1>6. CASE Crash
  <2>1. /\ cursor' = [a \in Addresses |-> NoCursor] /\ targets' = {} /\ found' = {}
        /\ handed' = [d \in Deposit |-> 0] /\ watched' = [a \in Addresses |-> NoCursor]
        /\ stuck' = [a \in Addresses |-> 0] /\ crashes' = crashes + 1
        /\ UNCHANGED <<family, history, open, request>>
    BY <1>6 DEF Crash
  <2>2. TypeOK'
    BY <2>1 DEF AccountInv, TypeOK
  <2>3. \A d \in Deposit : handed'[d] = 0 /\ stuck'[d[1]] = 0
    <3> HIDE DEF Deposit
    <3> QED BY <2>1, DepositOfAddress
  <2> QED BY <2>1, <2>2, <2>3 DEF AccountInv
<1> QED BY <1>1, <1>2, <1>3, <1>4, <1>5, <1>6, AppearsKeeps, ProcessKeeps DEF Next, Cycle, World

LEMMA AccountInit == Init => AccountInv
<1> SUFFICES ASSUME Init PROVE AccountInv
  OBVIOUS
<1>1. TypeOK
  BY DEF Init, TypeOK, Deposit
<1>2. \A d \in Deposit : handed[d] = 0 /\ stuck[d[1]] = 0 /\ d \notin found
  <2> HIDE DEF Deposit
  <2> QED BY DepositOfAddress DEF Init
<1> QED BY <1>1, <1>2, AccountAssumption DEF Init, AccountInv

(* The invariant holds in every reachable state. *)
THEOREM AccountCorrect == Spec => []AccountInv
<1>1. Init => AccountInv
  BY AccountInit
<1> QED BY <1>1, AccountNext, PTL DEF Spec

(* Between two starts no entry reaches processPolledDeposit twice. *)
THEOREM HandOverOncePerStart == Spec => []HandedOncePerStart
<1>1. AccountInv => HandedOncePerStart
  BY DEF AccountInv, HandedOncePerStart
<1> QED BY <1>1, AccountCorrect, PTL
-------------------------------------------------------------------------------
(* No deposit is passed over. *)

Paged == family \in {"stellar", "cosmos", "sui"}

(* A page from the oldest on has no gap: with an entry it holds all unread
   entries before it. *)
LEMMA OldestHasNoGap ==
  ASSUME NEW n \in Nat, NEW S \in SUBSET (1 .. n), NEW i \in Oldest(S), NEW j \in S, j <= i
  PROVE  j \in Oldest(S)
<1> DEFINE Below(k) == {l \in S : l <= k}
<1>1. IsFiniteSet(Below(i)) /\ IsFiniteSet(Below(j))
  <2>1. IsFiniteSet(1 .. n)
    BY FS_Interval
  <2>2. Below(i) \in SUBSET (1 .. n) /\ Below(j) \in SUBSET (1 .. n)
    OBVIOUS
  <2> QED BY <2>1, <2>2, FS_Subset
<1>2. Below(j) \subseteq Below(i)
  <2>1. i \in Int /\ j \in Int /\ \A l \in S : l \in Int
    BY DEF Oldest
  <2>2. ASSUME NEW l \in S, l <= j PROVE l <= i
    BY <2>1, <2>2
  <2> QED BY <2>2
<1>3. Cardinality(Below(j)) <= Cardinality(Below(i))
  BY <1>1, <1>2, FS_Subset
<1>4. Cardinality(Below(i)) <= Limit /\ Limit \in Nat
  BY AccountAssumption DEF Oldest
<1>5. Cardinality(Below(j)) \in Nat /\ Cardinality(Below(i)) \in Nat
  BY <1>1, FS_CardinalityType
<1> HIDE DEF Below
<1>6. Cardinality(Below(j)) <= Limit
  BY <1>3, <1>4, <1>5
<1> QED BY <1>6 DEF Oldest, Below

(* An answer passes nothing over when the deposits between the old cursor
   and the new one are in it, or when it is the first look at the address. *)
LEMMA AnswerPassesNothing ==
  ASSUME AccountInv, PagesInv, Paged, NEW a \in Addresses, NEW S, NEW next \in Nat \cup {NoCursor},
         Answers(a, S, next),
         family \in {"stellar", "sui"} => next # NoCursor,
         watched[a] # NoCursor /\ next # NoCursor =>
           \A i \in 1 .. Len(history[a]) :
             history[a][i].deposit /\ i <= next => (cursor[a] # NoCursor /\ i <= cursor[a]) \/ i \in S
  PROVE  PagesInv'
<1>1. /\ found' = found \cup {<<a, i>> : i \in DepositsAmong(a, S)}
      /\ cursor' = [cursor EXCEPT ![a] = next]
      /\ watched' = [watched EXCEPT ![a] = IF @ = NoCursor THEN Len(history[a]) ELSE @]
      /\ UNCHANGED <<family, history, handed>>
  BY DEF Answers
<1>2. TypeOK
  BY DEF AccountInv
<1>3. \A b \in Addresses : /\ cursor'[b] = IF b = a THEN next ELSE cursor[b]
                           /\ watched'[b] = IF b = a /\ watched[a] = NoCursor THEN Len(history[a]) ELSE watched[b]
  BY <1>1, <1>2 DEF TypeOK
<1>4. family' \in {"stellar", "sui"} => \A b \in Addresses : watched'[b] # NoCursor => cursor'[b] # NoCursor
  BY <1>1, <1>3 DEF PagesInv
<1>5. ASSUME NEW b \in Addresses, NEW i \in 1 .. Len(history[b]),
             watched'[b] # NoCursor, cursor'[b] # NoCursor,
             history[b][i].deposit, i > watched'[b], i <= cursor'[b]
      PROVE  <<b, i>> \in found' \/ handed[<<b, i>>] > 0
  <2>1. CASE b # a
    BY <1>1, <1>3, <1>5, <2>1 DEF PagesInv, Paged
  <2>2. CASE b = a /\ watched[a] = NoCursor
    <3>1. watched'[a] = Len(history[a]) /\ i \in Nat /\ Len(history[a]) \in Nat /\ i <= Len(history[a])
      BY <1>2, <1>3, <1>5, <2>2 DEF TypeOK
    <3> QED BY <1>5, <2>2, <3>1
  <2>3. CASE b = a /\ watched[a] # NoCursor
    <3>1. watched'[a] = watched[a] /\ cursor'[a] = next
      BY <1>3, <2>3
    <3>2. (cursor[a] # NoCursor /\ i <= cursor[a]) \/ i \in S
      BY <1>5, <2>3, <3>1
    <3>3. CASE i \in S
      BY <1>1, <1>5, <2>3, <3>3 DEF DepositsAmong
    <3>4. CASE cursor[a] # NoCursor /\ i <= cursor[a]
      BY <1>1, <1>5, <2>3, <3>1, <3>4 DEF PagesInv, Paged
    <3> QED BY <3>2, <3>3, <3>4
  <2> QED BY <2>1, <2>2, <2>3
<1> QED BY <1>1, <1>4, <1>5 DEF PagesInv

LEMMA AnsweredPassesNothing ==
  ASSUME AccountInv, PagesInv, Paged, NEW a \in Addresses, NEW S, NEW next \in Nat \cup {NoCursor},
         Answered(a, S, next),
         family \in {"stellar", "sui"} => next # NoCursor,
         watched[a] # NoCursor /\ next # NoCursor =>
           \A i \in 1 .. Len(history[a]) :
             history[a][i].deposit /\ i <= next => (cursor[a] # NoCursor /\ i <= cursor[a]) \/ i \in S
  PROVE  PagesInv'
  BY AnswerPassesNothing DEF Answered

(* Nor is anything passed over when the cursor stays. *)
LEMMA StuckPassesNothing ==
  ASSUME AccountInv, PagesInv, Paged, NEW a \in Addresses, StaysBelow(a)
  PROVE  PagesInv'
<1>1. cursor[a] \in Nat \cup {NoCursor}
  BY DEF AccountInv, TypeOK
<1>2. PICK S : Answers(a, S, cursor[a])
  BY DEF StaysBelow, AnsweredStuck
<1>3. family \in {"stellar", "sui"} => cursor[a] # NoCursor
  BY DEF StaysBelow, Fresh
<1> QED BY <1>1, <1>2, <1>3, AnswerPassesNothing

(* The pages of Stellar and Sui end with the place the cursor moves to. *)
LEMMA PagePassesNothing ==
  ASSUME AccountInv, PagesInv, Paged, family # "cosmos", NEW a \in Addresses, cursor[a] # NoCursor,
         NEW S, S = Oldest(Unread(a)), NEW T \in SUBSET S, NEW next \in LastPosition(a, T),
         Answered(a, S, next)
  PROVE  PagesInv'
<1>1. /\ Len(history[a]) \in Nat /\ cursor[a] \in Nat
      /\ Unread(a) = {i \in 1 .. Len(history[a]) : cursor[a] < i}
  BY DEF AccountInv, TypeOK, Unread, Position, Paged
<1>2. S \subseteq Unread(a)
  BY DEF Oldest
<1>3. next = cursor[a] \/ next \in T
  BY DEF LastPosition, Position, Paged
<1>4. next \in Nat /\ next # NoCursor
  <2>1. \A i \in Unread(a) : i \in Nat
    BY <1>1
  <2>2. next \in T => next \in Unread(a)
    BY <1>2
  <2>3. next \in Nat
    BY <1>1, <1>3, <2>1, <2>2
  <2> QED BY <2>3, AccountAssumption
<1>5. ASSUME NEW i \in 1 .. Len(history[a]), i <= next, ~(i <= cursor[a])
      PROVE  i \in S
  <2>1. i \in Unread(a) /\ next \in S
    BY <1>1, <1>3, <1>5
  <2>2. Unread(a) \in SUBSET (1 .. Len(history[a]))
    BY <1>1
  <2> QED BY <1>1, <1>5, <2>1, <2>2, OldestHasNoGap
<1> QED BY <1>4, <1>5, AnsweredPassesNothing

LEMMA ReadingPassesNothing ==
  ASSUME AccountInv, PagesInv, Paged, NEW a \in Addresses, Read(a)
  PROVE  PagesInv'
<1>1. /\ Len(history[a]) \in Nat /\ Len(history[a]) # NoCursor
      /\ cursor[a] \in Nat \cup {NoCursor}
      /\ cursor[a] # NoCursor => cursor[a] <= Len(history[a])
  BY AccountAssumption DEF AccountInv, TypeOK, Paged
<1>2. CASE ScanStellar(a) \/ ScanSui(a)
  <2>1. family # "cosmos" /\ family \in {"stellar", "sui"}
    BY <1>2 DEF ScanStellar, ScanSui
  <2>2. CASE Fresh(a)
    <3>1. Answered(a, {}, Len(history[a]))
      BY <1>2, <2>2 DEF ScanStellar, ScanSui
    <3>2. watched[a] = NoCursor
      BY <2>1, <2>2 DEF PagesInv, Fresh
    <3> QED BY <1>1, <3>1, <3>2, AnsweredPassesNothing
  <2>3. CASE ~Fresh(a)
    <3>1. PICK T \in {Oldest(Unread(a)), DepositsAmong(a, Oldest(Unread(a)))} :
            \E next \in LastPosition(a, T) : Answered(a, Oldest(Unread(a)), next)
      BY <1>2, <2>3 DEF ScanStellar, ScanSui
    <3>2. T \in SUBSET Oldest(Unread(a)) /\ cursor[a] # NoCursor
      BY <2>3, <3>1 DEF DepositsAmong, Fresh
    <3> QED BY <2>1, <3>1, <3>2, PagePassesNothing
  <2> QED BY <2>2, <2>3
<1>3. CASE ScanCosmos(a)
  <2> DEFINE offset == IF Fresh(a) THEN 0 ELSE cursor[a]
             S == Oldest({i \in 1 .. Len(history[a]) : i > offset})
             next == offset + Cardinality(S)
  <2>1. Answered(a, S, next) /\ family \notin {"stellar", "sui"}
    BY <1>3 DEF ScanCosmos
  <2>2. offset \in Nat /\ offset <= Len(history[a])
    BY <1>1 DEF Fresh
  <2>3. offset = 0 \/ (cursor[a] # NoCursor /\ offset = cursor[a])
    BY DEF Fresh
  <2> HIDE DEF offset
  <2>4. /\ next \in Nat
        /\ \A i \in 1 .. Len(history[a]) : offset < i /\ i <= next => i \in S
    BY <1>1, <2>2, CosmosPage
  <2> HIDE DEF S, next
  <2>5. \A i \in 1 .. Len(history[a]) : i <= next => (cursor[a] # NoCursor /\ i <= cursor[a]) \/ i \in S
    BY <1>1, <2>2, <2>3, <2>4
  <2> QED BY <2>1, <2>4, <2>5, AnsweredPassesNothing
<1>4. ~ScanSolana(a) /\ ~ScanXrp(a)
  BY DEF ScanSolana, ScanXrp, Paged
<1> QED BY <1>2, <1>3, <1>4 DEF Read

(* A failed call finds nothing and leaves the cursor, or sets it to the
   start when it was the first look. *)
LEMMA FailurePassesNothing ==
  ASSUME AccountInv, PagesInv, Paged, NEW a \in Addresses, CallFails(a)
  PROVE  PagesInv'
<1>1. cursor[a] \in Nat \cup {NoCursor}
  BY DEF AccountInv, TypeOK
<1>2. CASE family = "cosmos"
  <2>1. Answered(a, {}, cursor[a])
    BY <1>2 DEF CallFails
  <2> QED BY <1>1, <1>2, <2>1, AnsweredPassesNothing
<1>3. CASE family # "cosmos"
  <2>1. Answered(a, {}, IF Fresh(a) THEN 0 ELSE cursor[a])
    BY <1>3 DEF CallFails, Paged
  <2>2. CASE Fresh(a)
    <3>1. \A i \in 1 .. Len(history[a]) : ~(i <= 0)
      OBVIOUS
    <3>2. 0 # NoCursor
      BY AccountAssumption
    <3> QED BY <2>1, <2>2, <3>1, <3>2, AnsweredPassesNothing
  <2>3. CASE ~Fresh(a)
    BY <1>1, <2>1, <2>3, AnsweredPassesNothing DEF Fresh
  <2> QED BY <2>2, <2>3
<1> QED BY <1>2, <1>3

LEMMA PagesNext == AccountInv /\ PagesInv /\ [Next]_vars => PagesInv'
<1> SUFFICES ASSUME AccountInv, PagesInv, [Next]_vars PROVE PagesInv'
  OBVIOUS
<1>1. CASE UNCHANGED <<family, history, cursor, found, handed, watched>>
  BY <1>1 DEF PagesInv
<1>2. CASE Scan
  <2>1. PICK a \in Addresses : Read(a) \/ StaysBelow(a) \/ CallFails(a)
    BY <1>2 DEF Scan, AccountInv, TypeOK
  <2>2. CASE Paged
    BY <2>1, <2>2, ReadingPassesNothing, StuckPassesNothing, FailurePassesNothing
  <2>3. CASE ~Paged
    <3>1. family' = family
      BY <2>1 DEF Read, CallFails, StaysBelow, ScanSolana, ScanXrp, ScanStellar, ScanCosmos, ScanSui,
                  Answered, AnsweredStuck, Answers, Aborted
    <3> QED BY <2>3, <3>1 DEF PagesInv, Paged
  <2> QED BY <2>2, <2>3
<1>3. ASSUME NEW a \in Addresses, NEW deposit \in BOOLEAN, Appears(a, deposit) PROVE PagesInv'
  <2> DEFINE n == Len(history[a])
             e == [deposit |-> deposit, ledger |-> open]
  <2>1. /\ history' = [history EXCEPT ![a] = Append(@, e)]
        /\ UNCHANGED <<family, cursor, found, handed, watched>>
    BY <1>3 DEF Appears
  <2>2. /\ history \in [Addresses -> Seq(Entry)] /\ e \in Entry /\ n \in Nat
        /\ cursor \in [Addresses -> Nat \cup {NoCursor}]
    BY DEF AccountInv, TypeOK, Entry
  <2>3. /\ \A b \in Addresses : b # a => history'[b] = history[b]
        /\ Len(history'[a]) = n + 1 /\ \A i \in 1 .. n : history'[a][i] = history[a][i]
    BY <2>1, <2>2
  <2>4. CASE Paged
    <3>1. cursor[a] # NoCursor => cursor[a] \in Nat /\ cursor[a] <= n
      BY <2>2, <2>4 DEF AccountInv, Paged
    <3>2. ASSUME NEW b \in Addresses, NEW i \in 1 .. Len(history'[b]),
                 watched[b] # NoCursor, cursor[b] # NoCursor,
                 history'[b][i].deposit, i > watched[b], i <= cursor[b]
          PROVE  <<b, i>> \in found \/ handed[<<b, i>>] > 0
      <4>1. i \in 1 .. Len(history[b]) /\ history'[b][i] = history[b][i]
        <5>1. CASE b = a
          <6>1. i \in 1 .. (n + 1) /\ i <= n
            BY <2>2, <2>3, <3>1, <3>2, <5>1
          <6> QED BY <2>2, <2>3, <5>1, <6>1
        <5>2. CASE b # a
          BY <2>3, <3>2, <5>2
        <5> QED BY <5>1, <5>2
      <4> QED BY <2>4, <3>2, <4>1 DEF PagesInv, Paged
    <3> QED BY <2>1, <3>2 DEF PagesInv
  <2>5. CASE ~Paged
    BY <2>1, <2>5 DEF PagesInv, Paged
  <2> QED BY <2>4, <2>5
<1>4. ASSUME NEW d \in found, Process(d) PROVE PagesInv'
  <2>1. /\ found' = found \ {d} /\ handed' = [handed EXCEPT ![d] = @ + 1]
        /\ UNCHANGED <<family, history, cursor, watched>>
    BY <1>4 DEF Process
  <2>2. d \in Deposit /\ handed \in [Deposit -> Nat]
    BY DEF AccountInv, TypeOK
  <2>3. ASSUME NEW a \in Addresses, NEW i \in 1 .. Len(history[a]), <<a, i>> \in found \/ handed[<<a, i>>] > 0
        PROVE  <<a, i>> \in found' \/ handed'[<<a, i>>] > 0
    <3>1. CASE <<a, i>> = d
      <4> HIDE DEF Deposit
      <4> QED BY <2>1, <2>2, <3>1
    <3>2. CASE <<a, i>> # d
      BY <2>1, <2>3, <3>2
    <3> QED BY <3>1, <3>2
  <2> QED BY <2>1, <2>3 DEF PagesInv
<1>5. CASE Crash
  BY <1>5 DEF Crash, PagesInv
<1> QED
  BY <1>1, <1>2, <1>3, <1>4, <1>5
  DEF vars, Next, Cycle, World, Load, LedgerCloses, RequestComes, RequestGoes

(* What is at or below the cursor of an address was there at the first look
   or was found, on the families that read page by page. *)
THEOREM PagesCorrect == Spec => [](AccountInv /\ PagesInv)
<1>1. Init => AccountInv /\ PagesInv
  BY AccountInit DEF Init, PagesInv
<1> QED BY <1>1, AccountNext, PagesNext, PTL DEF Spec

(* Stellar, Cosmos and Sui pass no deposit over, whichever calls fail. *)
THEOREM PagesPassNothing == Spec => []NothingPassedOver
<1>1. AccountInv /\ PagesInv => NothingPassedOver
  <2> SUFFICES ASSUME AccountInv, PagesInv, Paged,
                      NEW a \in Addresses, NEW i \in 1 .. Len(history[a]), PassedOver(a, i)
               PROVE  FALSE
    BY DEF NothingPassedOver, Paged
  <2>1. Position(a, i) = i
    BY DEF Position, Paged
  <2>2. <<a, i>> \in Deposit /\ handed[<<a, i>>] \in Nat
    <3>1. i \in 1 .. MaxEntries
      BY AccountAssumption DEF AccountInv, TypeOK
    <3>2. <<a, i>> \in Deposit
      BY <3>1 DEF Deposit
    <3> QED BY <3>2 DEF AccountInv, TypeOK
  <2> QED BY <2>1, <2>2 DEF PassedOver, PagesInv, Paged
<1> QED BY <1>1, PagesCorrect, PTL
===============================================================================
