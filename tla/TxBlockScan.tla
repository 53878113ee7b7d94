------------------------------ MODULE TxBlockScan ------------------------------
(***************************************************************************)
(* How the transaction poller reads a chain by its blocks: EVM chains,     *)
(* UTXO chains, Tron and VeChain.  A cycle loads the addresses that wait   *)
(* for a deposit, reads the tip, scans at most MAX_BLOCKS_PER_CYCLE blocks *)
(* above the cursor, moves the cursor, and only then processes what it     *)
(* found.  DepositPipeline takes this as one step over all new payments;   *)
(* here are the blocks, the limit and what a node may answer.              *)
(*                                                                         *)
(* Blocks do not change once mined, so that reading a range of them is one *)
(* step whatever happens meanwhile; only the list of addresses and the tip *)
(* may be out of date.  Several chains are scanned side by side and share  *)
(* nothing; the module has one.                                            *)
(***************************************************************************)
EXTENDS Integers, FiniteSets

CONSTANTS
  Addresses,    \* deposit addresses, one request each
  TokenAddrs,   \* those whose request asks for a token
  Payments,     \* transfers that may appear on the chain
  PayTo,        \* the address each one pays
  TokenPays,    \* those that move a token
  Families,     \* the chain families to choose from
  MaxBlocks,    \* MAX_BLOCKS_PER_CYCLE
  NoCursor,     \* the cursor map has no entry
  NotANumber,   \* the cursor computed from an answer without the tip
  Faults,       \* "rpc": a call throws, "absent": an answer lacks its block
                \* "blank": an answer about the tip lacks the number
                \* "throw": processPolledDeposit throws
  MaxTip,       \* bound: height of the chain
  MaxCrashes    \* bound: restarts

ASSUME ScanAssumption ==
  /\ TokenAddrs \subseteq Addresses
  /\ TokenPays \subseteq Payments
  /\ PayTo \in [Payments -> Addresses]
  /\ Families \subseteq {"evm", "utxo", "tron", "vechain"}
  /\ MaxBlocks \in Nat \ {0}
  /\ NoCursor \notin Nat /\ NotANumber \notin Nat /\ NotANumber # NoCursor
  /\ Faults \subseteq {"rpc", "absent", "blank", "throw"}
  /\ MaxTip \in Nat /\ MaxCrashes \in Nat

VARIABLES
  family,    \* the family of the chain
  tip,       \* height of the chain
  blockOf,   \* the block of each payment, 0 while it is in none
  request,   \* of each address: to come, waiting in a poll status, ended
  cursor,    \* last block scanned, NotANumber when it was lost
  targets,   \* addresses loaded by the cycle
  found,     \* payments of the scan still to be processed
  handed,    \* how often each payment reached processPolledDeposit
  known,     \* the cursor when an address was first loaded, NoCursor before
  lacked,    \* blocks an answer of this run did not hold
  replays,   \* how often the cursor began at block 0 for want of the tip
  crashes

vars == <<family, tip, blockOf, request, cursor, targets, found, handed, known,
          lacked, replays, crashes>>

waiting == {a \in Addresses : request[a] = "waiting"}

TypeOK ==
  /\ family \in Families
  /\ tip \in Nat
  /\ blockOf \in [Payments -> Nat]
  /\ request \in [Addresses -> {"tocome", "waiting", "ended"}]
  /\ cursor \in Nat \cup {NoCursor, NotANumber}
  /\ targets \subseteq Addresses
  /\ found \subseteq Payments
  /\ handed \in [Payments -> Nat]
  /\ known \in [Addresses -> Nat \cup {NoCursor, NotANumber}]
  /\ lacked \subseteq Nat
  /\ replays \in Nat
  /\ crashes \in Nat

Init ==
  /\ family \in Families
  /\ tip = 0 /\ blockOf = [p \in Payments |-> 0]
  /\ request = [a \in Addresses |-> "tocome"]
  /\ cursor = NoCursor /\ targets = {} /\ found = {}
  /\ handed = [p \in Payments |-> 0]
  /\ known = [a \in Addresses |-> NoCursor]
  /\ lacked = {} /\ replays = 0 /\ crashes = 0
-------------------------------------------------------------------------------
(* The world: blocks with payments in them, requests that come and go. *)

Mine ==
  /\ tip < MaxTip
  /\ tip' = tip + 1
  /\ \E S \in SUBSET {p \in Payments : blockOf[p] = 0} :
       blockOf' = [p \in Payments |-> IF p \in S THEN tip + 1 ELSE blockOf[p]]
  /\ UNCHANGED <<family, request, cursor, targets, found, handed, known, lacked, replays, crashes>>

RequestComes(a) ==
  /\ request[a] = "tocome"
  /\ request' = [request EXCEPT ![a] = "waiting"]
  /\ UNCHANGED <<family, tip, blockOf, cursor, targets, found, handed, known, lacked, replays, crashes>>

(* Another worker ended the request, or it timed out. *)
RequestGoes(a) ==
  /\ a \in waiting
  /\ request' = [request EXCEPT ![a] = "ended"]
  /\ UNCHANGED <<family, tip, blockOf, cursor, targets, found, handed, known, lacked, replays, crashes>>
-------------------------------------------------------------------------------
(* The cycle. *)

Idle == targets = {} /\ found = {}

Load ==
  /\ Idle
  /\ waiting # {}
  /\ targets' = waiting
  /\ known' = [a \in Addresses |-> IF a \in waiting /\ known[a] = NoCursor THEN cursor ELSE known[a]]
  /\ UNCHANGED <<family, tip, blockOf, request, cursor, found, handed, lacked, replays, crashes>>

(* The first scan of a chain starts at the given block and reads nothing. *)
StartAt(block) ==
  /\ targets # {} /\ cursor = NoCursor
  /\ cursor' = block
  /\ targets' = {}
  /\ known' = [a \in Addresses |-> IF a \in targets THEN block ELSE known[a]]
  /\ UNCHANGED <<family, tip, blockOf, request, found, handed, lacked, crashes>>

InitCursor == StartAt(tip) /\ UNCHANGED replays

(* What the scanner makes of an answer that came but lacks the tip: Tron
   reads 0, a JSON-RPC result that is null counts as 0, and one that is
   missing turns every number computed from it into NaN.  VeChain's best
   block is taken to have its number. *)
BlankTips ==
  CASE family = "tron"            -> {0}
    [] family \in {"evm", "utxo"} -> {0, NotANumber}
    [] OTHER                      -> {}

InitBlank ==
  /\ "blank" \in Faults
  /\ \E block \in BlankTips :
       StartAt(block) /\ replays' = IF block = 0 THEN replays + 1 ELSE replays

LastBlock == IF cursor + MaxBlocks < tip THEN cursor + MaxBlocks ELSE tip

(* Faulty: the scan begins with the last block of the one before. *)
RangeFromCursor == cursor .. LastBlock

Range == (cursor + 1) .. LastBlock

(* The payments of the range to an address of the scan. *)
InRange == {p \in Payments : blockOf[p] \in Range /\ PayTo[p] \in targets}

NativePaid(p) == p \notin TokenPays /\ PayTo[p] \notin TokenAddrs
TokenPaid(p) == p \in TokenPays /\ PayTo[p] \in TokenAddrs

(* Faulty: the cursor jumps to the tip. *)
FindsAndJumps(S, missing) ==
  /\ targets # {} /\ cursor \in Nat
  /\ cursor < tip
  /\ found' = S
  /\ cursor' = tip
  /\ targets' = {}
  /\ lacked' = lacked \cup missing
  /\ UNCHANGED <<family, tip, blockOf, request, handed, known, replays, crashes>>

(* Faulty: the scan stays one block behind the tip. *)
FindsBelowTip(S, missing) ==
  /\ targets # {} /\ cursor \in Nat
  /\ cursor < tip - 1
  /\ found' = S
  /\ cursor' = LastBlock
  /\ targets' = {}
  /\ lacked' = lacked \cup missing
  /\ UNCHANGED <<family, tip, blockOf, request, handed, known, replays, crashes>>

(* The scanner of the family returns, and the cursor moves. *)
Finds(S, missing) ==
  /\ targets # {} /\ cursor \in Nat
  /\ cursor < tip
  /\ found' = S
  /\ cursor' = LastBlock
  /\ targets' = {}
  /\ lacked' = lacked \cup missing
  /\ UNCHANGED <<family, tip, blockOf, request, handed, known, replays, crashes>>

(* Native coins block by block, a block the node answers null for being
   skipped; tokens by one call for the logs of the range. *)
ScanEvm ==
  /\ family = "evm" /\ cursor \in Nat
  /\ \E null \in IF "absent" \in Faults THEN SUBSET Range ELSE {{}} :
       Finds({p \in InRange : (NativePaid(p) /\ blockOf[p] \notin null) \/ TokenPaid(p)}, null)

(* Every output to an address; a UTXO chain knows no tokens. *)
ScanUtxo ==
  /\ family = "utxo"
  /\ Finds(InRange, {})

(* One call answers the range, or answers without its list. *)
ScanTron ==
  /\ family = "tron"
  /\ \/ Finds({p \in InRange : NativePaid(p) \/ TokenPaid(p)}, {})
     \/ "absent" \in Faults /\ Finds({}, Range)

(* The logs of native transfers only. *)
ScanVeChain ==
  /\ family = "vechain"
  /\ Finds({p \in InRange : NativePaid(p)}, {})

Scan == ScanEvm \/ ScanUtxo \/ ScanTron \/ ScanVeChain

(* The answer about the tip lacks its number: NaN <= cursor is false, no
   block is read, and the cursor becomes NaN.  A logs call up to block NaN
   throws. *)
ScanBlank ==
  /\ "blank" \in Faults /\ NotANumber \in BlankTips
  /\ targets # {} /\ cursor \in Nat
  /\ family = "evm" => targets \cap TokenAddrs = {}
  /\ cursor' = NotANumber
  /\ targets' = {}
  /\ UNCHANGED <<family, tip, blockOf, request, found, handed, known, lacked, replays, crashes>>

(* Nothing above the cursor, the tip was read as 0, the cursor is NaN and
   stays so, or a call threw. *)
ScanNothing ==
  /\ targets # {}
  /\ cursor \in {tip, NotANumber} \/ Faults \cap {"rpc", "blank"} # {}
  /\ targets' = {}
  /\ UNCHANGED <<family, tip, blockOf, request, cursor, found, handed, known, lacked, replays, crashes>>

(* processPolledDeposit records the deposit and the request waits no more;
   it finds the request as the scan saw it, or one that ended meanwhile. *)
Process(p) ==
  /\ p \in found
  /\ found' = found \ {p}
  /\ handed' = [handed EXCEPT ![p] = @ + 1]
  /\ request' = [request EXCEPT ![PayTo[p]] = "ended"]
  /\ UNCHANGED <<family, tip, blockOf, cursor, targets, known, lacked, replays, crashes>>

(* It throws: the error is logged, and the request waits on. *)
ProcessThrows(p) ==
  /\ "throw" \in Faults
  /\ p \in found
  /\ found' = found \ {p}
  /\ handed' = [handed EXCEPT ![p] = @ + 1]
  /\ UNCHANGED <<family, tip, blockOf, request, cursor, targets, known, lacked, replays, crashes>>

(* A restart forgets the cursor with everything else in memory. *)
Crash ==
  /\ crashes < MaxCrashes
  /\ crashes' = crashes + 1
  /\ cursor' = NoCursor /\ targets' = {} /\ found' = {}
  /\ known' = [a \in Addresses |-> NoCursor] /\ lacked' = {}
  /\ UNCHANGED <<family, tip, blockOf, request, handed, replays>>

Cycle ==
  \/ Load \/ InitCursor \/ InitBlank
  \/ Scan \/ ScanBlank \/ ScanNothing
  \/ \E p \in found : Process(p) \/ ProcessThrows(p)

World == Mine \/ \E a \in Addresses : RequestComes(a) \/ RequestGoes(a)

Next == Cycle \/ World \/ Crash

Spec == Init /\ [][Next]_vars

(* The timer starts a cycle again and again, its calls return, and a node
   that is asked again and again answers in the end. *)
FairSpec == Spec /\ WF_vars(Cycle) /\ SF_vars(InitCursor) /\ SF_vars(Scan)
-------------------------------------------------------------------------------
(* Properties. *)

(* Each payment reaches processPolledDeposit at most once, also when its
   processing failed and after a restart: the ranges of the scans are
   disjoint.  A deposit whose recording failed is therefore not retried.
   Only a cursor that begins at block 0, where Tron starts when its node does
   not name the tip, reads the chain once more. *)
HandedOnce == \A p \in Payments : handed[p] <= 1 + replays

(* What the scanner of the family takes for the deposit of a request. *)
Wanted(p) ==
  CASE family = "utxo"    -> TRUE
    [] family = "vechain" -> NativePaid(p)
    [] OTHER              -> NativePaid(p) \/ TokenPaid(p)

(* No block is passed over for an address the poller knows, but one that an
   answer lacked: a payment to it above the cursor it was first loaded with
   and at or below the cursor of now is being processed or was. *)
NothingPassedOver ==
  \A p \in Payments : LET a == PayTo[p] IN
    /\ a \in waiting /\ known[a] \in Nat /\ cursor \in Nat
    /\ known[a] < blockOf[p] /\ blockOf[p] <= cursor
    /\ Wanted(p) /\ blockOf[p] \notin lacked
    => p \in found \/ handed[p] > 0

(* A payment to an address the poller knows is handed over in the end,
   however far the cursor is behind, unless the request ends otherwise, a
   restart forgets the address, an answer lacked the block, or the cursor
   became NaN: such a chain is not scanned again before a restart. *)
KnownPaymentIsHanded ==
  \A p \in Payments : LET a == PayTo[p] IN
    /\ known[a] \in Nat /\ blockOf[p] > known[a] /\ Wanted(p)
    ~> \/ handed[p] > 0
       \/ a \notin waiting \/ known[a] = NoCursor
       \/ blockOf[p] \in lacked \/ cursor = NotANumber

(* The inductive invariant behind HandedOnce: what lies above the cursor was
   handed over only under the cursors before the last replay. *)
ScanInv ==
  /\ TypeOK
  /\ cursor \in Nat => cursor <= tip
  /\ cursor = NoCursor => found = {}
  /\ \A p \in Payments :
       /\ blockOf[p] <= tip
       /\ handed[p] <= 1 + replays
       /\ p \in found => handed[p] <= replays
       /\ p \in found \/ handed[p] > 0 => blockOf[p] > 0
       /\ cursor \in Nat /\ blockOf[p] > cursor => p \notin found /\ handed[p] <= replays
===============================================================================
