--------------------------- MODULE TxBlockScan_proofs ---------------------------
(***************************************************************************)
(* The scans of the transaction poller hand no payment over twice, whatever *)
(* fails and however often the process restarts.                           *)
(***************************************************************************)
EXTENDS TxBlockScan, TLAPS

(* The blocks of a scan lie above the cursor and not above the next one. *)
LEMMA RangeBounds ==
  ASSUME ScanInv, cursor \in Nat, cursor < tip
  PROVE  /\ LastBlock \in Nat /\ LastBlock <= tip /\ cursor < LastBlock
         /\ \A b \in Range : b \in Nat /\ cursor < b /\ b <= LastBlock
<1> cursor \in Nat /\ tip \in Nat /\ MaxBlocks \in Nat \ {0}
  BY ScanAssumption DEF ScanInv, TypeOK
<1> QED BY DEF LastBlock, Range

(* Whatever the family, a scan finds payments of its range, and among
   them all that are wanted and whose block the answer holds. *)
LEMMA ScanFinds ==
  ASSUME Scan
  PROVE  \E S \in SUBSET InRange, missing \in SUBSET Range :
           /\ Finds(S, missing)
           /\ \A p \in InRange : Wanted(p) => p \in S \/ blockOf[p] \in missing
<1>1. CASE ScanEvm
  <2>1. PICK null \in IF "absent" \in Faults THEN SUBSET Range ELSE {{}} :
          Finds({p \in InRange : (NativePaid(p) /\ blockOf[p] \notin null) \/ TokenPaid(p)}, null)
    BY <1>1 DEF ScanEvm
  <2>2. \A p \in InRange : Wanted(p) => NativePaid(p) \/ TokenPaid(p)
    BY <1>1 DEF ScanEvm, Wanted
  <2> QED BY <2>1, <2>2
<1>2. CASE ScanUtxo
  BY <1>2 DEF ScanUtxo
<1>3. CASE ScanTron
  <2>1. \A p \in InRange : Wanted(p) => NativePaid(p) \/ TokenPaid(p)
    BY <1>3 DEF ScanTron, Wanted
  <2>2. \A p \in InRange : blockOf[p] \in Range
    BY DEF InRange
  <2> QED BY <1>3, <2>1, <2>2 DEF ScanTron
<1>4. CASE ScanVeChain
  <2>1. \A p \in InRange : Wanted(p) => NativePaid(p)
    BY <1>4 DEF ScanVeChain, Wanted
  <2> QED BY <1>4, <2>1 DEF ScanVeChain
<1> QED BY <1>1, <1>2, <1>3, <1>4 DEF Scan

LEMMA ScanInit == Init => ScanInv
  BY ScanAssumption DEF Init, ScanInv, TypeOK

(* What one scan finds lies in its range. *)
LEMMA ScanKeeps == ASSUME ScanInv, Scan PROVE ScanInv'
<1> USE DEF ScanInv, TypeOK
<1>0. PICK S \in SUBSET InRange, missing \in SUBSET Range : Finds(S, missing)
  BY ScanFinds
<1>1. /\ LastBlock \in Nat /\ LastBlock <= tip /\ cursor < LastBlock
      /\ \A b \in Range : b \in Nat /\ cursor < b /\ b <= LastBlock
  BY <1>0, RangeBounds DEF Finds
<1>2. \A p \in found' : p \in Payments /\ blockOf[p] \in Range
  BY <1>0 DEF Finds, InRange
<1>3. cursor' = LastBlock /\ targets' = {} /\ cursor \in Nat
      /\ UNCHANGED <<family, tip, blockOf, request, handed, known, replays, crashes>>
  BY <1>0 DEF Finds
<1>4. found' \subseteq Payments /\ LastBlock # NoCursor /\ lacked' \subseteq Nat
  BY <1>0, <1>1, <1>2, ScanAssumption DEF Finds
<1>5. TypeOK'
  BY <1>1, <1>3, <1>4
<1>6. ASSUME NEW p \in Payments
      PROVE  /\ blockOf'[p] <= tip' /\ handed'[p] <= 1 + replays'
             /\ p \in found' => handed'[p] <= replays'
             /\ p \in found' \/ handed'[p] > 0 => blockOf'[p] > 0
             /\ blockOf'[p] > cursor' => p \notin found' /\ handed'[p] <= replays'
  <2>1. blockOf[p] \in Nat /\ handed[p] \in Nat /\ replays \in Nat
    OBVIOUS
  <2>2. p \in found' => cursor < blockOf[p] /\ blockOf[p] <= LastBlock
    BY <1>1, <1>2
  <2>3. blockOf[p] > cursor => handed[p] <= replays
    BY <1>3
  <2>4. blockOf[p] > LastBlock => blockOf[p] > cursor
    BY <1>1, <1>3, <2>1
  <2> QED BY <1>1, <1>3, <2>1, <2>2, <2>3, <2>4
<1> QED BY <1>1, <1>3, <1>4, <1>5, <1>6

(* A new block and the requests do not touch what was scanned. *)
LEMMA WorldKeeps == ASSUME ScanInv, World PROVE ScanInv'
<1> USE DEF ScanInv, TypeOK
<1>1. CASE Mine
  <2>1. PICK S \in SUBSET {p \in Payments : blockOf[p] = 0} :
          blockOf' = [p \in Payments |-> IF p \in S THEN tip + 1 ELSE blockOf[p]]
    BY <1>1 DEF Mine
  <2>2. tip' = tip + 1
        /\ UNCHANGED <<family, request, cursor, targets, found, handed, known, lacked, replays, crashes>>
    BY <1>1 DEF Mine
  <2>3. \A p \in Payments :
          /\ blockOf'[p] \in Nat /\ blockOf'[p] <= tip'
          /\ p \in found \/ handed[p] > 0 => blockOf'[p] = blockOf[p]
          /\ blockOf'[p] = blockOf[p] \/ (p \notin found /\ handed[p] = 0)
    BY <2>1, <2>2
  <2>4. blockOf' \in [Payments -> Nat]
    BY <2>1, <2>3
  <2>5. TypeOK' /\ (cursor' \in Nat => cursor' <= tip') /\ (cursor' = NoCursor => found' = {})
    BY <2>2, <2>4
  <2>6. ASSUME NEW p \in Payments
        PROVE  /\ blockOf'[p] <= tip' /\ handed'[p] <= 1 + replays'
               /\ p \in found' => handed'[p] <= replays'
               /\ p \in found' \/ handed'[p] > 0 => blockOf'[p] > 0
               /\ cursor' \in Nat /\ blockOf'[p] > cursor' => p \notin found' /\ handed'[p] <= replays'
    BY <2>2, <2>3
  <2> QED BY <2>5, <2>6
<1>2. ASSUME NEW a \in Addresses, RequestComes(a) \/ RequestGoes(a) PROVE ScanInv'
  BY <1>2 DEF RequestComes, RequestGoes
<1> QED BY <1>1, <1>2 DEF World

LEMMA ProcessKeeps ==
  ASSUME ScanInv, NEW p \in found, Process(p) \/ ProcessThrows(p)
  PROVE  ScanInv'
<1> USE DEF ScanInv, TypeOK
<1>1. p \in Payments /\ PayTo[p] \in Addresses
  BY ScanAssumption
<1>2. /\ found' = found \ {p} /\ handed' = [handed EXCEPT ![p] = @ + 1]
      /\ UNCHANGED <<family, tip, blockOf, cursor, targets, known, lacked, replays, crashes>>
      /\ request' = request \/ request' = [request EXCEPT ![PayTo[p]] = "ended"]
  BY DEF Process, ProcessThrows
<1>3. TypeOK'
  BY <1>1, <1>2
<1>4. \A q \in Payments : handed'[q] = IF q = p THEN handed[p] + 1 ELSE handed[q]
  BY <1>1, <1>2
<1>5. handed[p] <= replays /\ blockOf[p] > 0 /\ (cursor \in Nat => blockOf[p] <= cursor)
      /\ cursor # NoCursor
  BY <1>1
<1>6. ASSUME NEW q \in Payments
      PROVE  /\ blockOf'[q] <= tip' /\ handed'[q] <= 1 + replays'
             /\ q \in found' => handed'[q] <= replays'
             /\ q \in found' \/ handed'[q] > 0 => blockOf'[q] > 0
             /\ cursor' \in Nat /\ blockOf'[q] > cursor' => q \notin found' /\ handed'[q] <= replays'
  BY <1>1, <1>2, <1>4, <1>5
<1> QED BY <1>2, <1>3, <1>5, <1>6

(* A cursor that begins at the tip has nothing above it that was found; one
   that begins at block 0 counts as a replay; NaN finds nothing. *)
LEMMA CursorKeeps ==
  ASSUME ScanInv, InitCursor \/ InitBlank \/ ScanBlank \/ Crash
  PROVE  ScanInv'
<1> USE DEF ScanInv, TypeOK
<1>1. CASE InitCursor
  <2>1. /\ cursor = NoCursor /\ cursor' = tip /\ targets' = {} /\ found = {}
        /\ known' = [a \in Addresses |-> IF a \in targets THEN tip ELSE known[a]]
        /\ UNCHANGED <<family, tip, blockOf, request, found, handed, lacked, replays, crashes>>
    BY <1>1 DEF InitCursor, StartAt
  <2>2. tip # NoCursor
    BY ScanAssumption
  <2> QED BY <2>1, <2>2
<1>2. CASE InitBlank
  <2>1. PICK block \in BlankTips : StartAt(block) /\ replays' = IF block = 0 THEN replays + 1 ELSE replays
    BY <1>2 DEF InitBlank
  <2>2. block \in {0, NotANumber} /\ block # NoCursor
    BY ScanAssumption DEF BlankTips
  <2>3. /\ cursor = NoCursor /\ cursor' = block /\ targets' = {} /\ found = {}
        /\ known' = [a \in Addresses |-> IF a \in targets THEN block ELSE known[a]]
        /\ UNCHANGED <<family, tip, blockOf, request, found, handed, lacked, crashes>>
    BY <2>1 DEF StartAt
  <2>4. TypeOK' /\ replays' \in Nat /\ replays' >= replays
    BY <2>1, <2>2, <2>3
  <2>5. cursor' \in Nat => cursor' = 0 /\ replays' = replays + 1
    BY <2>1, <2>2, <2>3, ScanAssumption
  <2>6. ASSUME NEW p \in Payments
        PROVE  /\ handed'[p] <= 1 + replays'
               /\ cursor' \in Nat => handed'[p] <= replays'
    <3>1. handed[p] \in Nat /\ handed[p] <= 1 + replays /\ replays \in Nat
      OBVIOUS
    <3> QED BY <2>3, <2>4, <2>5, <3>1
  <2> QED BY <2>2, <2>3, <2>4, <2>5, <2>6
<1>3. CASE ScanBlank
  <2>1. /\ cursor' = NotANumber /\ targets' = {}
        /\ UNCHANGED <<family, tip, blockOf, request, found, handed, known, lacked, replays, crashes>>
    BY <1>3 DEF ScanBlank
  <2> QED BY <2>1, ScanAssumption
<1>4. CASE Crash
  <2>1. /\ targets' = {} /\ found' = {} /\ cursor' = NoCursor /\ crashes' = crashes + 1
        /\ known' = [a \in Addresses |-> NoCursor] /\ lacked' = {}
        /\ UNCHANGED <<family, tip, blockOf, request, handed, replays>>
    BY <1>4 DEF Crash
  <2> QED BY <2>1, ScanAssumption
<1> QED BY <1>1, <1>2, <1>3, <1>4

LEMMA ScanNext == ScanInv /\ [Next]_vars => ScanInv'
<1> SUFFICES ASSUME ScanInv, [Next]_vars PROVE ScanInv'
  OBVIOUS
<1>1. CASE UNCHANGED vars
  BY <1>1 DEF vars, ScanInv, TypeOK
<1>2. CASE Load
  BY <1>2 DEF Load, Idle, waiting, ScanInv, TypeOK
<1>3. CASE ScanNothing
  BY <1>3 DEF ScanNothing, ScanInv, TypeOK
<1> QED BY <1>1, <1>2, <1>3, ScanKeeps, WorldKeeps, ProcessKeeps, CursorKeeps DEF Next, Cycle

(* The invariant holds in every reachable state. *)
THEOREM ScanCorrect == Spec => []ScanInv
<1>1. Init => ScanInv
  BY ScanInit
<1>2. ScanInv /\ [Next]_vars => ScanInv'
  BY ScanNext
<1> QED BY <1>1, <1>2, PTL DEF Spec

(* No payment reaches processPolledDeposit a second time. *)
THEOREM HandOverOnce == Spec => []HandedOnce
<1>1. ScanInv => HandedOnce
  BY DEF ScanInv, HandedOnce
<1> QED BY <1>1, ScanCorrect, PTL
-------------------------------------------------------------------------------
(* Nothing is passed over.  Beside the property itself the induction needs
   that a running scan has every waiting address the poller knows among its
   targets, that a poller without a cursor knows none, and that it knows and
   scans only addresses whose request has come, one phase at a time. *)
PassInv ==
  /\ \A a \in waiting : known[a] # NoCursor /\ targets # {} => a \in targets
  /\ cursor = NoCursor => \A a \in Addresses : known[a] = NoCursor
  /\ \A a \in Addresses : request[a] = "tocome" => known[a] = NoCursor /\ a \notin targets
  /\ targets # {} => found = {}
  /\ NothingPassedOver

(* A new block lies above the cursor, and an address that just came is not
   known yet. *)
LEMMA WorldPassesNothing == ASSUME ScanInv, PassInv, World PROVE PassInv'
<1>1. CASE Mine
  <2>1. PICK S \in SUBSET {p \in Payments : blockOf[p] = 0} :
          blockOf' = [p \in Payments |-> IF p \in S THEN tip + 1 ELSE blockOf[p]]
    BY <1>1 DEF Mine
  <2>2. UNCHANGED <<family, request, cursor, targets, found, handed, known, lacked>>
    BY <1>1 DEF Mine
  <2>3. waiting' = waiting /\ \A p \in Payments : Wanted(p)' = Wanted(p)
    BY <2>2 DEF waiting, Wanted
  <2>4. ASSUME NEW p \in Payments, cursor \in Nat, blockOf'[p] <= cursor
        PROVE  blockOf'[p] = blockOf[p]
    <3>1. cursor \in Nat /\ tip \in Nat /\ cursor <= tip
      BY <2>4 DEF ScanInv, TypeOK
    <3> QED BY <3>1, <2>4, <2>1
  <2>5. NothingPassedOver'
    BY <2>2, <2>3, <2>4 DEF NothingPassedOver, PassInv
  <2> QED BY <2>2, <2>3, <2>5 DEF PassInv
<1>2. ASSUME NEW a \in Addresses, RequestComes(a) \/ RequestGoes(a) PROVE PassInv'
  <2>1. UNCHANGED <<family, tip, blockOf, cursor, targets, found, handed, known, lacked>>
    BY <1>2 DEF RequestComes, RequestGoes
  <2>2. \A p \in Payments : PayTo[p] \in Addresses /\ Wanted(p)' = Wanted(p)
    BY <2>1, ScanAssumption DEF Wanted
  <2>3. /\ \A b \in Addresses : known[b] # NoCursor /\ request'[b] = "waiting" => request[b] = "waiting"
        /\ \A b \in Addresses : request'[b] = "tocome" => request[b] = "tocome"
    BY <1>2 DEF RequestComes, RequestGoes, ScanInv, TypeOK, PassInv
  <2>4. NothingPassedOver'
    BY <2>1, <2>2, <2>3, ScanAssumption DEF NothingPassedOver, PassInv, waiting
  <2> QED BY <2>1, <2>3, <2>4 DEF PassInv, waiting
<1> QED BY <1>1, <1>2 DEF World

(* A scan finds every payment of its range to an address it knew, for that
   address is among its targets, unless the answer lacked the block. *)
LEMMA ScanPassesNothing == ASSUME ScanInv, PassInv, Scan PROVE PassInv'
<1>0. PICK S \in SUBSET InRange, missing \in SUBSET Range :
        /\ Finds(S, missing)
        /\ \A p \in InRange : Wanted(p) => p \in S \/ blockOf[p] \in missing
  BY ScanFinds
<1>1. /\ cursor' = LastBlock /\ targets' = {} /\ lacked' = lacked \cup missing
      /\ UNCHANGED <<family, tip, blockOf, request, handed, known, replays, crashes>>
  BY <1>0 DEF Finds
<1>2. found' = S
  BY <1>0 DEF Finds
<1>3. waiting' = waiting /\ \A p \in Payments : Wanted(p)' = Wanted(p)
  BY <1>1 DEF waiting, Wanted
<1>4. cursor \in Nat /\ cursor < tip /\ targets # {} /\ LastBlock \in Nat
  BY <1>0, RangeBounds, ScanAssumption DEF Finds, ScanInv, TypeOK
<1>5. ASSUME NEW p \in Payments, PayTo[p] \in waiting, known[PayTo[p]] \in Nat,
             known[PayTo[p]] < blockOf[p], blockOf[p] <= LastBlock, Wanted(p), blockOf[p] \notin lacked'
      PROVE  p \in found' \/ handed[p] > 0
  <2>1. blockOf[p] \in Nat /\ PayTo[p] \in targets
    BY <1>4, <1>5, ScanAssumption DEF ScanInv, TypeOK, PassInv
  <2>2. CASE blockOf[p] <= cursor
    <3>1. p \in found \/ handed[p] > 0
      BY <1>1, <1>4, <1>5, <2>2, ScanAssumption DEF PassInv, NothingPassedOver
    <3>2. found = {}
      BY <1>4 DEF PassInv
    <3> QED BY <3>1, <3>2
  <2>3. CASE blockOf[p] > cursor
    <3>1. blockOf[p] \in Range
      BY <2>1, <2>3, <1>4, <1>5 DEF Range
    <3>2. p \in InRange
      BY <2>1, <3>1 DEF InRange
    <3> QED BY <1>0, <1>1, <1>2, <1>5, <3>2
  <2> QED BY <1>4, <2>1, <2>2, <2>3
<1>6. NothingPassedOver'
  BY <1>1, <1>3, <1>5 DEF NothingPassedOver
<1>7. LastBlock # NoCursor
  BY <1>4, ScanAssumption
<1> QED BY <1>1, <1>3, <1>6, <1>7 DEF PassInv

(* The steps of a cycle other than the scan: loading knows new addresses
   with the cursor of now, processing only adds to what was handed over. *)
LEMMA CyclePassesNothing ==
  ASSUME ScanInv, PassInv,
         Load \/ InitCursor \/ InitBlank \/ ScanBlank \/ ScanNothing \/ Crash
         \/ \E p \in found : Process(p) \/ ProcessThrows(p)
  PROVE  PassInv'
<1>1. CASE Load
  <2>1. /\ targets' = waiting /\ waiting' = waiting /\ found = {} /\ found' = found
        /\ known' = [a \in Addresses |-> IF a \in waiting /\ known[a] = NoCursor THEN cursor ELSE known[a]]
        /\ UNCHANGED <<family, tip, blockOf, request, cursor, handed, lacked>>
    BY <1>1 DEF Load, Idle, waiting
  <2>2. \A p \in Payments : PayTo[p] \in Addresses /\ Wanted(p)' = Wanted(p)
    BY <2>1, ScanAssumption DEF Wanted
  <2>3. ASSUME NEW p \in Payments, cursor \in Nat, known[PayTo[p]] = NoCursor,
               known'[PayTo[p]] \in Nat, known'[PayTo[p]] < blockOf[p], blockOf[p] <= cursor
        PROVE  FALSE
    <3>1. cursor \in Nat /\ blockOf[p] \in Nat /\ known'[PayTo[p]] = cursor
      BY <2>1, <2>2, <2>3, ScanAssumption DEF ScanInv, TypeOK
    <3> QED BY <3>1, <2>3
  <2>4. NothingPassedOver'
    BY <2>1, <2>2, <2>3 DEF PassInv, NothingPassedOver
  <2> QED BY <2>1, <2>4 DEF PassInv, waiting
<1>2. CASE InitCursor \/ InitBlank
  <2>1. PICK block \in {tip} \cup {0, NotANumber} : StartAt(block)
    BY <1>2 DEF InitCursor, InitBlank, BlankTips
  <2>2. /\ cursor = NoCursor /\ cursor' = block /\ targets' = {} /\ waiting' = waiting
        /\ known' = [a \in Addresses |-> IF a \in targets THEN block ELSE known[a]]
        /\ UNCHANGED <<family, tip, blockOf, request, found, handed, lacked>>
    BY <2>1 DEF StartAt, waiting
  <2>3. /\ block # NoCursor /\ NoCursor \notin Nat
        /\ \A p \in Payments : PayTo[p] \in Addresses /\ blockOf[p] \in Nat
    BY <2>1, ScanAssumption DEF ScanInv, TypeOK
  <2>4. ASSUME NEW p \in Payments, known'[PayTo[p]] \in Nat PROVE known'[PayTo[p]] = cursor'
    BY <2>2, <2>3, <2>4 DEF PassInv
  <2>5. NothingPassedOver'
    <3>1. ASSUME NEW p \in Payments, known'[PayTo[p]] \in Nat, cursor' \in Nat,
                 known'[PayTo[p]] < blockOf'[p], blockOf'[p] <= cursor'
          PROVE  FALSE
      BY <2>2, <2>3, <2>4, <3>1
    <3> QED BY <3>1 DEF NothingPassedOver
  <2> QED BY <2>2, <2>3, <2>5 DEF PassInv
<1>6. CASE ScanBlank
  <2>1. /\ cursor' = NotANumber /\ targets' = {} /\ waiting' = waiting
        /\ UNCHANGED <<request, found, known>>
    BY <1>6 DEF ScanBlank, waiting
  <2> QED BY <2>1, ScanAssumption DEF PassInv, NothingPassedOver
<1>3. CASE ScanNothing
  BY <1>3 DEF ScanNothing, PassInv, NothingPassedOver, waiting, Wanted
<1>4. CASE Crash
  BY <1>4, ScanAssumption DEF Crash, PassInv, NothingPassedOver, waiting
<1>5. ASSUME NEW p \in found, Process(p) \/ ProcessThrows(p) PROVE PassInv'
  <2>1. /\ found' = found \ {p} /\ handed' = [handed EXCEPT ![p] = @ + 1]
        /\ UNCHANGED <<family, tip, blockOf, cursor, targets, known, lacked>>
        /\ request' = request \/ request' = [request EXCEPT ![PayTo[p]] = "ended"]
    BY <1>5 DEF Process, ProcessThrows
  <2>2. p \in Payments /\ handed \in [Payments -> Nat] /\ PayTo \in [Payments -> Addresses]
        /\ request \in [Addresses -> {"tocome", "waiting", "ended"}]
    BY ScanAssumption DEF ScanInv, TypeOK
  <2>3. waiting' \subseteq waiting /\ \A a \in Addresses : request'[a] = "tocome" => request[a] = "tocome"
    BY <2>1, <2>2 DEF waiting
  <2>4. \A q \in Payments : /\ Wanted(q)' = Wanted(q)
                            /\ q \in found \/ handed[q] > 0 => q \in found' \/ handed'[q] > 0
    BY <2>1, <2>2 DEF Wanted
  <2>5. NothingPassedOver'
    BY <2>1, <2>3, <2>4 DEF PassInv, NothingPassedOver
  <2>6. targets = {}
    BY DEF PassInv
  <2> QED BY <2>1, <2>3, <2>5, <2>6 DEF PassInv
<1> QED BY <1>1, <1>2, <1>3, <1>4, <1>5, <1>6

(* No payment to a known address is passed over but in a block that an
   answer lacked, whatever else fails. *)
THEOREM NothingIsPassedOver == Spec => []NothingPassedOver
<1>1. Init => PassInv
  BY ScanAssumption DEF Init, PassInv, NothingPassedOver, waiting
<1>2. ScanInv /\ PassInv /\ [Next]_vars => PassInv'
  <2> SUFFICES ASSUME ScanInv, PassInv, [Next]_vars PROVE PassInv'
    OBVIOUS
  <2>1. CASE UNCHANGED vars
    BY <2>1 DEF vars, PassInv, NothingPassedOver, waiting, Wanted
  <2> QED BY <2>1, WorldPassesNothing, ScanPassesNothing, CyclePassesNothing DEF Next, Cycle
<1>3. PassInv => NothingPassedOver
  BY DEF PassInv
<1> QED BY <1>1, <1>2, <1>3, ScanCorrect, PTL DEF Spec
===============================================================================
