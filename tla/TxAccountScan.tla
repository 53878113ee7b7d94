----------------------------- MODULE TxAccountScan -----------------------------
(***************************************************************************)
(* How the transaction poller reads a chain that keeps a history for each  *)
(* account: Solana, XRP, Stellar, Cosmos and Sui.  Every address has a     *)
(* cursor of its own, and the scan asks for one address after the other;   *)
(* what it finds is processed when all of them have answered.              *)
(*                                                                         *)
(* A history is a sequence of entries, deposits and others (failed or      *)
(* outgoing transactions, other assets).  A cursor is a position in it, or *)
(* on XRP a ledger; a null cursor reads from the start, as position 0 does. *)
(***************************************************************************)
EXTENDS Integers, FiniteSets, Sequences

CONSTANTS
  Addresses,    \* deposit addresses, one request each
  Families,     \* the chain families to choose from
  Limit,        \* entries in one answer
  NoCursor,     \* the cursor map has no entry
  Faults,       \* "rpc": a call throws, "throw": processPolledDeposit throws,
                \* "stuck": an answer is used and the cursor stays below it
  MaxEntries,   \* bound: entries of one history
  MaxAll,       \* bound: entries of all histories
  MaxLedger,    \* bound: ledgers of XRP
  MaxStuck,     \* bound: such answers about one address between two starts
  MaxCrashes    \* bound: restarts

ASSUME AccountAssumption ==
  /\ Families \subseteq {"solana", "xrp", "stellar", "cosmos", "sui"}
  /\ Limit \in Nat \ {0}
  /\ NoCursor \notin Nat
  /\ Faults \subseteq {"rpc", "throw", "stuck"}
  /\ MaxEntries \in Nat /\ MaxAll \in Nat /\ MaxLedger \in Nat
  /\ MaxStuck \in Nat /\ MaxCrashes \in Nat

Entry == [deposit : BOOLEAN, ledger : Nat]

VARIABLES
  family,    \* the family of the chain
  history,   \* of each address, as the chain lists it, oldest first
  open,      \* the ledger that XRP is still filling
  request,   \* of each address: to come, waiting in a poll status, ended
  cursor,    \* of each address
  targets,   \* addresses the scan has still to ask for
  found,     \* deposits of the scan still to be processed: address, index
  handed,    \* how often each reached processPolledDeposit since the start
  watched,   \* length of the history at the first look since the start
  stuck,     \* of each address, how many answers since the start left the cursor below
  crashes

vars == <<family, history, open, request, cursor, targets, found, handed, watched, stuck, crashes>>

(* An entry by its address and its place. *)
Deposit == Addresses \X (1 .. MaxEntries)

TypeOK ==
  /\ family \in Families
  /\ history \in [Addresses -> Seq(Entry)]
  /\ open \in Nat
  /\ request \in [Addresses -> {"tocome", "waiting", "ended"}]
  /\ cursor \in [Addresses -> Nat \cup {NoCursor}]
  /\ targets \subseteq Addresses
  /\ found \subseteq Deposit
  /\ handed \in [Deposit -> Nat]
  /\ watched \in [Addresses -> Nat \cup {NoCursor}]
  /\ stuck \in [Addresses -> Nat]
  /\ crashes \in Nat

waiting == {a \in Addresses : request[a] = "waiting"}

Init ==
  /\ family \in Families
  /\ history = [a \in Addresses |-> <<>>] /\ open = 1
  /\ request = [a \in Addresses |-> "tocome"]
  /\ cursor = [a \in Addresses |-> NoCursor]
  /\ targets = {} /\ found = {}
  /\ handed = [d \in Deposit |-> 0]
  /\ watched = [a \in Addresses |-> NoCursor]
  /\ stuck = [a \in Addresses |-> 0]
  /\ crashes = 0
-------------------------------------------------------------------------------
(* The world. *)

Appears(a, deposit) ==
  /\ Len(history[a]) < MaxEntries
  /\ Cardinality(UNION {{b} \X DOMAIN history[b] : b \in Addresses}) < MaxAll
  /\ history' = [history EXCEPT ![a] = Append(@, [deposit |-> deposit, ledger |-> open])]
  /\ UNCHANGED <<family, open, request, cursor, targets, found, handed, watched, stuck, crashes>>

LedgerCloses ==
  /\ family = "xrp"
  /\ open < MaxLedger
  /\ open' = open + 1
  /\ UNCHANGED <<family, history, request, cursor, targets, found, handed, watched, stuck, crashes>>

RequestComes(a) ==
  /\ request[a] = "tocome"
  /\ request' = [request EXCEPT ![a] = "waiting"]
  /\ UNCHANGED <<family, history, open, cursor, targets, found, handed, watched, stuck, crashes>>

(* The request timed out. *)
RequestGoes(a) ==
  /\ a \in waiting
  /\ request' = [request EXCEPT ![a] = "ended"]
  /\ UNCHANGED <<family, history, open, cursor, targets, found, handed, watched, stuck, crashes>>
-------------------------------------------------------------------------------
(* What an answer holds: the entries the cursor leaves unread, up to a
   limit from the oldest on, or on Solana from the newest back. *)

Position(a, i) == IF family = "xrp" THEN history[a][i].ledger ELSE i

(* Faulty: the entry at the cursor is read again. *)
UnreadFromCursor(a) == {i \in 1 .. Len(history[a]) : cursor[a] <= Position(a, i)}

Unread(a) == {i \in 1 .. Len(history[a]) : cursor[a] < Position(a, i)}

Newest(S) == {i \in S : Cardinality({j \in S : j >= i}) <= Limit}
Oldest(S) == {i \in S : Cardinality({j \in S : j <= i}) <= Limit}

DepositsAmong(a, S) == {i \in S : history[a][i].deposit}

(* The place of the last entry of S, the cursor when there is none; a set
   of one element. *)
LastPosition(a, S) ==
  IF S = {} THEN {cursor[a]}
  ELSE {Position(a, i) : i \in {j \in S : \A k \in S : k <= j}}

(* The scan is done with a: the deposits among S are found. *)
Answers(a, S, next) ==
  /\ a \in targets
  /\ found' = found \cup {<<a, i>> : i \in DepositsAmong(a, S)}
  /\ cursor' = [cursor EXCEPT ![a] = next]
  /\ targets' = targets \ {a}
  /\ watched' = [watched EXCEPT ![a] = IF @ = NoCursor THEN Len(history[a]) ELSE @]
  /\ UNCHANGED <<family, history, open, request, handed, crashes>>

Answered(a, S, next) == Answers(a, S, next) /\ UNCHANGED stuck

(* ... and S will be in the next answer again, for the cursor stays. *)
AnsweredStuck(a, S) ==
  /\ "stuck" \in Faults
  /\ stuck[a] < MaxStuck
  /\ Answers(a, S, cursor[a])
  /\ stuck' = [stuck EXCEPT ![a] = @ + 1]

(* A call throws out of the scan: what it found for other addresses goes
   with it, their cursors stay. *)
Aborted(a, next) ==
  /\ "rpc" \in Faults
  /\ a \in targets
  /\ found' = {} /\ targets' = {}
  /\ cursor' = [cursor EXCEPT ![a] = next]
  /\ UNCHANGED <<family, history, open, request, handed, watched, stuck, crashes>>
-------------------------------------------------------------------------------
(* The scanners, one address at a time. *)

Fresh(a) == cursor[a] = NoCursor

(* The first answer that is not empty is only taken as the cursor, which
   moves to the newest signature whatever the limit. *)
ScanSolana(a) ==
  /\ family = "solana"
  /\ \/ Fresh(a) /\ Answered(a, {}, IF history[a] = <<>> THEN NoCursor ELSE Len(history[a]))
     \/ /\ ~Fresh(a)
        /\ \E next \in LastPosition(a, Unread(a)) : Answered(a, Newest(Unread(a)), next)

(* The cursor starts at the ledger being filled; entries of that ledger are
   not validated yet and not in the answer. *)
ScanXrp(a) ==
  /\ family = "xrp"
  /\ \/ Fresh(a) /\ Answered(a, {}, open)
     \/ /\ ~Fresh(a)
        /\ LET S == Oldest({i \in Unread(a) : history[a][i].ledger < open})
           IN  \E next \in LastPosition(a, DepositsAmong(a, S)) : Answered(a, S, next)

(* The cursor moves to the last deposit, not over other entries. *)
ScanStellar(a) ==
  /\ family = "stellar"
  /\ \/ Fresh(a) /\ Answered(a, {}, Len(history[a]))
     \/ /\ ~Fresh(a)
        /\ LET S == Oldest(Unread(a))
           IN  \E next \in LastPosition(a, DepositsAmong(a, S)) : Answered(a, S, next)

(* Faulty: the first offset is the end of the history. *)
ScanCosmosFromEnd(a) ==
  /\ family = "cosmos"
  /\ LET offset == IF Fresh(a) THEN Len(history[a]) ELSE cursor[a]
         S      == Oldest({i \in 1 .. Len(history[a]) : i > offset})
     IN  Answered(a, S, offset + Cardinality(S))

(* An offset from the start of the history, moved by what was returned. *)
ScanCosmos(a) ==
  /\ family = "cosmos"
  /\ LET offset == IF Fresh(a) THEN 0 ELSE cursor[a]
         S      == Oldest({i \in 1 .. Len(history[a]) : i > offset})
     IN  Answered(a, S, offset + Cardinality(S))

(* The cursor of the newest transaction, null when there is none; then
   pages from the cursor on. *)
ScanSui(a) ==
  /\ family = "sui"
  /\ \/ Fresh(a) /\ Answered(a, {}, Len(history[a]))
     \/ /\ ~Fresh(a)
        /\ LET S == Oldest(Unread(a))
           IN  \E next \in LastPosition(a, S) : Answered(a, S, next)

(* On Cosmos an exception over an entry is caught, with the deposits before
   it kept; on Sui a page without nextCursor is used all the same. *)
StaysBelow(a) ==
  \/ /\ family = "cosmos"
     /\ LET S == Oldest({i \in 1 .. Len(history[a]) : Fresh(a) \/ cursor[a] < i})
        IN  \E k \in S : AnsweredStuck(a, {i \in S : i <= k})
  \/ family = "sui" /\ ~Fresh(a) /\ Unread(a) # {} /\ AnsweredStuck(a, Oldest(Unread(a)))

(* A call fails.  On Solana and XRP the error leaves the scan, on Solana
   maybe with the cursor set before the second call, and an answer without
   what was asked for is an empty one.  The others catch it; after a failed
   first look Stellar and Sui keep a null cursor, and XRP begins at ledger 0. *)
CallFails(a) ==
  /\ "rpc" \in Faults
  /\ \/ family \in {"solana", "xrp"} /\ Aborted(a, cursor[a])
     \/ /\ family = "solana" /\ ~Fresh(a)
        /\ \E next \in LastPosition(a, Unread(a)) : Aborted(a, next)
     \/ family \in {"xrp", "stellar", "sui"} /\ Answered(a, {}, IF Fresh(a) THEN 0 ELSE cursor[a])
     \/ family \in {"solana", "cosmos"} /\ Answered(a, {}, cursor[a])
-------------------------------------------------------------------------------
(* The cycle. *)

Idle == targets = {} /\ found = {}

Load ==
  /\ Idle
  /\ waiting # {}
  /\ targets' = waiting
  /\ UNCHANGED <<family, history, open, request, cursor, found, handed, watched, stuck, crashes>>

Read(a) == ScanSolana(a) \/ ScanXrp(a) \/ ScanStellar(a) \/ ScanCosmos(a) \/ ScanSui(a)

Scan == \E a \in targets : Read(a) \/ StaysBelow(a) \/ CallFails(a)

(* processPolledDeposit takes a deposit; it records it, and the request
   waits no more, or it throws, which is logged. *)
Process(d) ==
  /\ targets = {}
  /\ d \in found
  /\ found' = found \ {d}
  /\ handed' = [handed EXCEPT ![d] = @ + 1]
  /\ \/ request' = [request EXCEPT ![d[1]] = "ended"]
     \/ "throw" \in Faults /\ request' = request
  /\ UNCHANGED <<family, history, open, cursor, targets, watched, stuck, crashes>>

(* A restart forgets the cursors with everything else in memory. *)
Crash ==
  /\ crashes < MaxCrashes
  /\ crashes' = crashes + 1
  /\ cursor' = [a \in Addresses |-> NoCursor]
  /\ targets' = {} /\ found' = {}
  /\ handed' = [d \in Deposit |-> 0]
  /\ watched' = [a \in Addresses |-> NoCursor]
  /\ stuck' = [a \in Addresses |-> 0]
  /\ UNCHANGED <<family, history, open, request>>

Cycle == Load \/ Scan \/ \E d \in found : Process(d)

World ==
  \/ \E a \in Addresses : RequestComes(a) \/ RequestGoes(a) \/ \E deposit \in BOOLEAN : Appears(a, deposit)
  \/ LedgerCloses

Next == Cycle \/ World \/ Crash

Spec == Init /\ [][Next]_vars

(* The timer starts a cycle again and again, its calls return, and a node
   that is asked again and again about an address answers in the end. *)
FairSpec ==
  /\ Spec
  /\ WF_vars(Cycle)
  /\ \A a \in Addresses : SF_vars(Read(a))
-------------------------------------------------------------------------------
(* Properties. *)

(* Between two starts no entry reaches processPolledDeposit twice: the
   answers do not overlap, whichever calls fail, but for those of Cosmos and
   Sui that left the cursor below what they gave. *)
HandedOncePerStart == \A d \in Deposit : handed[d] <= 1 + stuck[d[1]]

(* A deposit that appeared after the first look at an address, and that the
   cursor has left behind although nobody processes it or did. *)
PassedOver(a, i) ==
  /\ a \in waiting /\ watched[a] # NoCursor /\ cursor[a] # NoCursor
  /\ history[a][i].deposit /\ i > watched[a] /\ Position(a, i) <= cursor[a]
  /\ <<a, i>> \notin found /\ handed[<<a, i>>] = 0

(* Families that catch the errors of their calls and read page by page pass
   no deposit over. *)
NothingPassedOver ==
  family \in {"stellar", "cosmos", "sui"} =>
    \A a \in Addresses : \A i \in 1 .. Len(history[a]) : ~PassedOver(a, i)

(* Where the cursor moves over every entry, a deposit is handed over in the
   end, unless the request ends otherwise: on Cosmos, which reads every
   history from its start, any deposit, restarts or not; on Sui one that came
   after the first look at its address, unless a restart forgets the look. *)
DepositIsHanded ==
  \A a \in Addresses : \A i \in 1 .. MaxEntries :
    LET watching == family = "sui" /\ watched[a] # NoCursor /\ i > watched[a]
    IN /\ a \in waiting /\ i <= Len(history[a]) /\ history[a][i].deposit
       /\ family = "cosmos" \/ watching
       ~> handed[<<a, i>>] > 0 \/ a \notin waiting \/ (family = "sui" /\ watched[a] = NoCursor)

(* The cursor has not reached the entry: the next answer may hold it. *)
Ahead(d) == cursor[d[1]] = NoCursor \/ cursor[d[1]] < Position(d[1], d[2])

(* The inductive invariant behind HandedOncePerStart: whatever was found is
   at or below the cursor of its address, or an answer that left the cursor
   accounts for it, the cursor within its history, and a history in the order
   of the ledgers. *)
AccountInv ==
  /\ TypeOK
  /\ \A a \in Addresses :
       /\ Len(history[a]) <= MaxEntries
       /\ cursor[a] # NoCursor => cursor[a] <= IF family = "xrp" THEN open ELSE Len(history[a])
       /\ \A i \in 1 .. Len(history[a]) : history[a][i].ledger <= open
       /\ \A i, j \in 1 .. Len(history[a]) : i <= j => history[a][i].ledger <= history[a][j].ledger
  /\ \A d \in Deposit :
       /\ handed[d] <= 1 + stuck[d[1]]
       /\ d \in found => d[1] \notin targets /\ handed[d] <= stuck[d[1]]
       /\ d \in found \/ handed[d] > 0 =>
            /\ d[2] <= Len(history[d[1]])
            /\ Ahead(d) => /\ handed[d] <= stuck[d[1]]
                           /\ d \in found => handed[d] < stuck[d[1]]

(* What makes NothingPassedOver inductive: between the first look and the
   cursor every deposit was found, and on Stellar and Sui the first look
   leaves a cursor. *)
PagesInv ==
  /\ family \in {"stellar", "sui"} => \A a \in Addresses : watched[a] # NoCursor => cursor[a] # NoCursor
  /\ family \in {"stellar", "cosmos", "sui"} =>
       \A a \in Addresses : \A i \in 1 .. Len(history[a]) :
         /\ watched[a] # NoCursor /\ cursor[a] # NoCursor
         /\ history[a][i].deposit /\ i > watched[a] /\ i <= cursor[a]
         => <<a, i>> \in found \/ handed[<<a, i>>] > 0
===============================================================================
