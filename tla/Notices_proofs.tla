----------------------------- MODULE Notices_proofs -----------------------------
(***************************************************************************)
(* Within one process every deposit is told of once, and whatever is in    *)
(* the store is in its lists: for any number of emitters and chats, any    *)
(* lifetime and retries, any failures.                                     *)
(***************************************************************************)
EXTENDS Notices, SequenceTheorems, TLAPS

LEMMA RoutingFacts ==
  /\ Types = {"external", "swap", "startup"}
  /\ Indices = {"all", "external", "swap", "startup"}
  BY DEF Types, Routing, Indices

LEMMA SendFits == Send \in [left : BOOLEAN, attempt : 0..TelegramMaxRetries]
  BY NoticesAssumption DEF Send

LEMMA IdleFits ==
  ASSUME TypeOK
  PROVE  Idle \in ActState /\ Idle.at = "idle" /\ ~Idle.redis /\ Idle.id = 0
  BY SendFits DEF Idle, ActState, TypeOK

(* The part of the invariant that is about what each emitter does, and one
   emitter's move to another place. *)
Acts ==
  /\ act \in [Emitters -> ActState]
  /\ \A e \in Emitters : At(e, "deliver") \/ act[e].redis => act[e].id \in Ids

LEMMA GoesKeepsActs ==
  ASSUME Acts, NEW e \in Emitters, NEW new, Goes(e, new),
         new \in ActState', new.at = "deliver" \/ new.redis => new.id \in Ids',
         ActState \subseteq ActState', Ids \subseteq Ids'
  PROVE  Acts'
  BY DEF Acts, Goes, At

(* Where a caller goes on: idle, or to the delivery of its event. *)
LEMMA GoesOnFits ==
  ASSUME TypeOK, events' \in Seq([type : Types, deposit : 0..MaxDeposits]),
         NEW id \in 0..Len(events')
  PROVE  LET new == GoesOn(id)
         IN new \in ActState' /\ (new.at = "deliver" \/ new.redis => new.id \in Ids')
<1>1. CASE id = 0
  BY <1>1, SendFits DEF GoesOn, Idle, ActState, TypeOK
<1>2. CASE id # 0
  <2>1. [left |-> "telegram" \in Routing[events'[id].type], attempt |-> 0]
          \in [left : BOOLEAN, attempt : 0..TelegramMaxRetries]
    BY NoticesAssumption
  <2>2. [c \in Chats |-> [Send EXCEPT !.left = "telegram" \in Routing[events'[id].type]]]
          \in [Chats -> [left : BOOLEAN, attempt : 0..TelegramMaxRetries]]
    BY <2>1 DEF Send
  <2>3. ("redis" \in Routing[events'[id].type]) \in BOOLEAN
    OBVIOUS
  <2> QED BY <1>2, <2>2, <2>3 DEF GoesOn, Delivering, ActState, Ids
<1> QED BY <1>1, <1>2

(* An emitter that reaches the pipeline for an event goes on or waits. *)
LEMMA ReachesKeepsActs ==
  ASSUME TypeOK, events' \in Seq([type : Types, deposit : 0..MaxDeposits]),
         Len(events) <= Len(events'),
         NEW e \in Emitters, NEW id \in 0..Len(events'), Reaches(e, id)
  PROVE  Acts'
<1>1. Acts /\ ActState \subseteq ActState' /\ Ids \subseteq Ids'
  <2>1. Len(events) \in Nat /\ Len(events') \in Nat
    BY DEF TypeOK
  <2> QED BY <2>1 DEF TypeOK, Acts, ActState, Ids
<1>2. CASE Goes(e, GoesOn(id))
  BY <1>1, <1>2, GoesOnFits, GoesKeepsActs
<1>3. ASSUME NEW step \in {"connect", "await"}, Goes(e, [Idle EXCEPT !.at = step, !.id = id])
      PROVE  Acts'
  <2>1. [Idle EXCEPT !.at = step, !.id = id] \in ActState'
    BY <1>3, SendFits DEF Idle, ActState
  <2>2. [Idle EXCEPT !.at = step, !.id = id].at # "deliver" /\ ~[Idle EXCEPT !.at = step, !.id = id].redis
    BY <1>3 DEF Idle
  <2> QED BY <1>1, <1>3, <2>1, <2>2, GoesKeepsActs
<1> QED BY <1>2, <1>3 DEF Reaches
-------------------------------------------------------------------------------
(* The invariant without the emitters. *)
Rest ==
  /\ clock \in Nat /\ deposits \in Seq([at : Nat, success : BOOLEAN, tx : Nat]) /\ Len(deposits) <= MaxDeposits
  /\ monitor \in [at : {"idle", "ask", "tell"}, now : Nat, todo : SUBSET (1..MaxDeposits)]
  /\ cursor \in Nat \cup {NoCursor} /\ seen \subseteq Nat
  /\ events \in Seq([type : Types, deposit : 0..MaxDeposits])
  /\ DOMAIN stored \subseteq Ids /\ stored \in [DOMAIN stored -> Nat]
  /\ index \in [Indices -> [members : SUBSET Nat, expires : Nat]]
  /\ handed \in [1..MaxDeposits -> Nat]
  /\ MemoryInv /\ IndexInv

(* The history of the exchange, entry by entry. *)
LEMMA DepositFacts ==
  ASSUME Rest
  PROVE  /\ DOMAIN deposits = 1..Len(deposits) /\ Len(deposits) \in Nat
         /\ \A x \in DOMAIN deposits : deposits[x] \in [at : Nat, success : BOOLEAN, tx : Nat]
<1>1. deposits \in Seq([at : Nat, success : BOOLEAN, tx : Nat])
  BY DEF Rest
<1>2. DOMAIN deposits = 1..Len(deposits) /\ Len(deposits) \in Nat
  BY <1>1
<1> QED BY <1>1, <1>2, ElementOfSeq

(* The indices an event is in. *)
LEMMA IndexOfEvent ==
  ASSUME Rest, NEW id \in Ids, NEW k \in {"all", events[id].type} PROVE k \in Indices
<1>1. events[id] \in [type : Types, deposit : 0..MaxDeposits]
  BY ElementOfSeq DEF Rest, Ids
<1>2. events[id].type \in Types
  BY <1>1
<1> QED BY <1>2, RoutingFacts

LEMMA InvParts == NoticesInv <=> Acts /\ Rest
  BY DEF NoticesInv, TypeOK, Acts, Rest

LEMMA NextParts == Acts' /\ Rest' => NoticesInv'
  BY DEF NoticesInv, TypeOK, Acts, Rest

LEMMA NoticesInit == Init => NoticesInv
<1> SUFFICES ASSUME Init PROVE NoticesInv
  OBVIOUS
<1> USE NoticesAssumption
<1>1. events = <<>> /\ Len(events) = 0
  BY DEF Init
<1>2. Idle \in ActState /\ Idle.at = "idle" /\ ~Idle.redis
  BY <1>1, SendFits DEF Idle, ActState
<1>3. Acts
  BY <1>2 DEF Init, Acts, At
<1>4. Rest
  BY <1>1 DEF Init, Rest, Ids, MemoryInv, IndexInv, MonitorIdle
<1> QED BY <1>3, <1>4, InvParts

(* A step that leaves the emitters, the events and the store alone. *)
LEMMA WorldKeeps ==
  ASSUME NoticesInv,
         DepositArrives \/ (\E x \in DOMAIN deposits : DepositSucceeds(x)) \/ WalletAppears
           \/ RedisChanges \/ MonitorBegins \/ MonitorAsks \/ MonitorFails \/ MonitorEnds
  PROVE  NoticesInv'
<1> USE NoticesAssumption
<1>0. Acts /\ Rest
  BY InvParts
<1>1. UNCHANGED <<clock, events, act, stored, index, handed, seen>>
  BY DEF DepositArrives, DepositSucceeds, WalletAppears, RedisChanges, MonitorBegins, MonitorAsks,
         MonitorFails, MonitorEnds, worldVars, storeVars
<1>2. Acts'
  BY <1>0, <1>1 DEF Acts, ActState, Ids, At
<1>3. IndexInv'
  BY <1>0, <1>1 DEF Rest, IndexInv
<1>4. deposits' \in Seq([at : Nat, success : BOOLEAN, tx : Nat]) /\ Len(deposits') <= MaxDeposits
  <2>1. CASE DepositArrives
    <3>1. PICK success \in BOOLEAN,
               tx \in {0, Len(deposits) + 1} \cup {deposits[x].tx : x \in DOMAIN deposits} :
            deposits' = Append(deposits, [at |-> clock, success |-> success, tx |-> tx])
      BY <2>1 DEF DepositArrives
    <3>2. tx \in Nat
      <4>1. ASSUME NEW x \in DOMAIN deposits PROVE deposits[x].tx \in Nat
        <5>1. deposits[x] \in [at : Nat, success : BOOLEAN, tx : Nat]
          BY <1>0, DepositFacts
        <5> QED BY <5>1
      <4>2. Len(deposits) \in Nat
        BY <1>0 DEF Rest
      <4> QED BY <4>1, <4>2
    <3>3. [at |-> clock, success |-> success, tx |-> tx] \in [at : Nat, success : BOOLEAN, tx : Nat]
      BY <1>0, <3>2 DEF Rest
    <3>4. Len(deposits) < MaxDeposits
      BY <2>1 DEF DepositArrives
    <3> QED BY <1>0, <3>1, <3>3, <3>4, SMTT(30) DEF Rest
  <2>2. ASSUME NEW x \in DOMAIN deposits, DepositSucceeds(x)
        PROVE  deposits' \in Seq([at : Nat, success : BOOLEAN, tx : Nat]) /\ Len(deposits') <= MaxDeposits
    <3>1. deposits[x] \in [at : Nat, success : BOOLEAN, tx : Nat] /\ x \in 1..Len(deposits)
      BY <1>0, DepositFacts
    <3>2. [deposits[x] EXCEPT !.success = TRUE] \in [at : Nat, success : BOOLEAN, tx : Nat]
      BY <3>1
    <3>3. deposits' = [deposits EXCEPT ![x] = [deposits[x] EXCEPT !.success = TRUE]]
      BY <2>2 DEF DepositSucceeds
    <3> QED BY <1>0, <3>1, <3>2, <3>3, ExceptSeq DEF Rest
  <2>3. CASE UNCHANGED deposits
    BY <1>0, <2>3 DEF Rest
  <2> QED BY <2>1, <2>2, <2>3 DEF WalletAppears, RedisChanges, MonitorBegins, MonitorAsks,
         MonitorFails, MonitorEnds, worldVars
<1>5. \A x \in DOMAIN deposits : x \in DOMAIN deposits' /\ deposits'[x].tx = deposits[x].tx
  <2>0. DOMAIN deposits = 1..Len(deposits) /\ Len(deposits) \in Nat
    BY <1>0, DepositFacts
  <2>1. CASE DepositArrives
    <3>1. PICK d : deposits' = Append(deposits, d)
      BY <2>1 DEF DepositArrives
    <3> QED BY <1>0, <2>0, <3>1, SMTT(30) DEF Rest
  <2>2. ASSUME NEW y \in DOMAIN deposits, DepositSucceeds(y)
        PROVE  \A x \in DOMAIN deposits : x \in DOMAIN deposits' /\ deposits'[x].tx = deposits[x].tx
    <3>1. deposits' = [deposits EXCEPT ![y] = [deposits[y] EXCEPT !.success = TRUE]]
      BY <2>2 DEF DepositSucceeds
    <3>2. deposits[y] \in [at : Nat, success : BOOLEAN, tx : Nat]
      BY <1>0, DepositFacts
    <3>3. [deposits[y] EXCEPT !.success = TRUE].tx = deposits[y].tx
      BY <3>2
    <3> QED BY <2>0, <3>1, <3>3
  <2>3. CASE UNCHANGED deposits
    BY <2>3
  <2> QED BY <2>1, <2>2, <2>3 DEF WalletAppears, RedisChanges, MonitorBegins, MonitorAsks,
         MonitorFails, MonitorEnds, worldVars
<1>6. /\ monitor' \in [at : {"idle", "ask", "tell"}, now : Nat, todo : SUBSET (1..MaxDeposits)]
      /\ monitor'.todo \subseteq DOMAIN deposits /\ cursor' \in Nat \cup {NoCursor}
      /\ \A x \in monitor'.todo : handed[x] = 0
  <2>1. CASE MonitorAsks
    <3>1. Fresh \subseteq 1..MaxDeposits /\ Fresh \subseteq DOMAIN deposits
      <4>1. Fresh \subseteq DOMAIN deposits
        BY DEF Fresh, Since
      <4>2. MaxDeposits \in Nat /\ Len(deposits) <= MaxDeposits
        BY <1>0 DEF Rest
      <4> QED BY <1>0, <4>1, <4>2, DepositFacts
    <3>2. ASSUME NEW x \in Fresh PROVE handed[x] = 0
      <4>1. deposits[x].tx \notin seen /\ x \in 1..MaxDeposits
        BY <3>1 DEF Fresh
      <4>2. handed[x] \in Nat /\ (handed[x] > 0 => deposits[x].tx \in seen)
        BY <1>0, <4>1 DEF Rest, MemoryInv
      <4> QED BY <4>1, <4>2
    <3>3. monitor' = [monitor EXCEPT !.at = "tell", !.todo = Fresh] /\ cursor' = monitor.now
      BY <2>1 DEF MonitorAsks
    <3> QED BY <1>0, <3>1, <3>2, <3>3 DEF Rest
  <2>2. CASE MonitorBegins
    BY <1>0, <2>2 DEF MonitorBegins, MonitorIdle, Rest, MemoryInv
  <2>3. CASE MonitorFails \/ MonitorEnds
    BY <1>0, <2>3, SMTT(30) DEF MonitorFails, MonitorEnds, MonitorIdle, Rest
  <2>4. CASE UNCHANGED <<monitor, cursor>>
    BY <1>0, <2>4 DEF Rest, MemoryInv
  <2> QED BY <2>1, <2>2, <2>3, <2>4 DEF DepositArrives, DepositSucceeds, WalletAppears, RedisChanges
<1>7. MemoryInv'
  BY <1>0, <1>1, <1>5, <1>6 DEF Rest, MemoryInv
<1>8. Rest'
  BY <1>0, <1>1, <1>3, <1>4, <1>6, <1>7 DEF Rest, Ids
<1> QED BY <1>2, <1>8, NextParts

(* What time takes from an index it has taken from the store before. *)
LEMMA TickKeeps == ASSUME NoticesInv, Tick PROVE NoticesInv'
<1> USE NoticesAssumption
<1>0. Acts /\ Rest
  BY InvParts
<1>1. Acts'
  BY <1>0 DEF Tick, Acts, ActState, Ids, At
<1>2. /\ DOMAIN stored' \subseteq DOMAIN stored
      /\ \A id \in DOMAIN stored' : stored'[id] = stored[id] /\ stored[id] > clock'
  BY DEF Tick
<1>3. IndexInv'
  <2> SUFFICES ASSUME NEW id \in DOMAIN stored', NEW k \in {"all", events[id].type}
               PROVE  /\ stored'[id] <= clock' + RedisTtl
                      /\ id \in index'[k].members /\ stored'[id] <= index'[k].expires
    BY DEF Tick, IndexInv
  <2>1. stored'[id] = stored[id] /\ stored[id] > clock' /\ clock' = clock + 1 /\ id \in DOMAIN stored
    BY <1>2 DEF Tick
  <2>2. id \in index[k].members /\ stored[id] <= index[k].expires /\ stored[id] <= clock + RedisTtl
    BY <1>0, <2>1 DEF Rest, IndexInv
  <2>3. k \in Indices
    <3>1. id \in Ids
      BY <1>0, <2>1 DEF Rest
    <3> QED BY <1>0, <3>1, IndexOfEvent
  <2>4. index[k].expires \in Nat /\ stored[id] \in Nat /\ clock \in Nat
    BY <1>0, <2>1, <2>3 DEF Rest
  <2>5. index'[k] = index[k]
    BY <2>1, <2>2, <2>3, <2>4 DEF Tick
  <2> QED BY <2>1, <2>2, <2>4, <2>5
<1>4. index' \in [Indices -> [members : SUBSET Nat, expires : Nat]]
  BY <1>0 DEF Tick, Rest
<1>5. DOMAIN stored' \subseteq Ids' /\ stored' \in [DOMAIN stored' -> Nat]
  BY <1>0, <1>2 DEF Tick, Rest, Ids
<1>6. clock' \in Nat /\ UNCHANGED <<deposits, monitor, cursor, seen, events, handed>>
  BY <1>0 DEF Tick, Rest
<1>7. Rest'
  BY <1>0, <1>3, <1>4, <1>5, <1>6 DEF Rest, MemoryInv
<1> QED BY <1>1, <1>7, NextParts

LEMMA RestartKeeps == ASSUME NoticesInv, Restart PROVE NoticesInv'
<1> USE NoticesAssumption
<1>0. Acts /\ Rest
  BY InvParts
<1>1. Idle \in ActState /\ Idle.at = "idle" /\ ~Idle.redis
  BY IdleFits DEF NoticesInv
<1>2. Acts'
  BY <1>1 DEF Restart, Acts, ActState, At
<1>3. Rest'
  BY <1>0 DEF Restart, Rest, MemoryInv, IndexInv, MonitorIdle, Ids, worldVars, storeVars
<1> QED BY <1>2, <1>3, NextParts

(* The pipeline is asked for, before or after an event is appended. *)
LEMMA CallerKeeps ==
  ASSUME NoticesInv, NEW e \in Emitters,
         (e = Monitor /\ PipelineStarts) \/ Connects(e) \/ Awaits(e)
  PROVE  NoticesInv'
<1>0. Acts /\ Rest /\ TypeOK
  BY InvParts DEF NoticesInv
<1>1. UNCHANGED <<worldVars, monitor, cursor, seen, events, storeVars, handed>>
  BY DEF PipelineStarts, Connects, Awaits
<1>2. Rest'
  BY <1>0, <1>1 DEF Rest, MemoryInv, IndexInv, Ids, worldVars, storeVars
<1>3. ActState' = ActState /\ Ids' = Ids /\ events' \in Seq([type : Types, deposit : 0..MaxDeposits])
  BY <1>0, <1>1 DEF ActState, Ids, TypeOK
<1>4. act[e].id \in 0..Len(events') /\ 0 \in 0..Len(events') /\ Len(events) <= Len(events')
  BY <1>0, <1>1 DEF TypeOK, ActState
<1>5. CASE e = Monitor /\ PipelineStarts
  <2>1. Reaches(e, 0)
    BY <1>5 DEF PipelineStarts
  <2>2. Acts'
    BY <1>0, <1>3, <1>4, <2>1, ReachesKeepsActs
  <2> QED BY <1>2, <2>2, NextParts
<1>6. CASE Goes(e, Idle)
  <2>1. Acts'
    BY <1>0, <1>3, <1>6, IdleFits, GoesKeepsActs
  <2> QED BY <1>2, <2>1, NextParts
<1>7. CASE Goes(e, GoesOn(act[e].id))
  <2>1. Acts'
    BY <1>0, <1>3, <1>4, <1>7, GoesOnFits, GoesKeepsActs
  <2> QED BY <1>2, <2>1, NextParts
<1> QED BY <1>5, <1>6, <1>7 DEF Connects, Awaits

(* What an appended event changes: the ids only grow. *)
LEMMA EmitKeeps ==
  ASSUME NoticesInv, NEW e \in Emitters, NEW type \in Types, NEW x \in 0..MaxDeposits,
         Emit(e, type, x)
  PROVE  /\ Acts' /\ events' \in Seq([type : Types, deposit : 0..MaxDeposits])
         /\ Ids \subseteq Ids' /\ \A id \in Ids : events'[id] = events[id]
<1>0. TypeOK /\ events \in Seq([type : Types, deposit : 0..MaxDeposits])
  BY DEF NoticesInv, TypeOK
<1>1. /\ events' \in Seq([type : Types, deposit : 0..MaxDeposits])
      /\ Len(events') = Len(events) + 1 /\ Len(events) \in Nat
      /\ \A id \in 1..Len(events) : events'[id] = events[id]
  BY <1>0 DEF Emit
<1>2. Reaches(e, Len(events')) /\ Len(events') \in 0..Len(events') /\ Len(events) <= Len(events')
  BY <1>1 DEF Emit
<1> QED BY <1>0, <1>1, <1>2, ReachesKeepsActs DEF Ids

LEMMA OtherEmitsKeeps ==
  ASSUME NoticesInv, NEW e \in Others, OtherEmits(e) PROVE NoticesInv'
<1>0. Rest
  BY InvParts
<1>1. PICK type \in Types \ {"external"} : Emit(e, type, 0)
  BY DEF OtherEmits
<1>2. e \in Emitters /\ type \in Types /\ 0 \in 0..MaxDeposits
  BY NoticesAssumption DEF Emitters
<1>3. /\ Acts' /\ events' \in Seq([type : Types, deposit : 0..MaxDeposits])
      /\ Ids \subseteq Ids' /\ \A id \in Ids : events'[id] = events[id]
  BY <1>1, <1>2, EmitKeeps
<1>4. Rest'
  BY <1>0, <1>3 DEF OtherEmits, Rest, MemoryInv, IndexInv, worldVars, storeVars
<1> QED BY <1>3, <1>4, NextParts

(* A deposit that is told of was not told of, and is remembered. *)
LEMMA MonitorTellsKeeps == ASSUME NoticesInv, MonitorTells PROVE NoticesInv'
<1> USE NoticesAssumption
<1>0. Rest
  BY InvParts
<1>1. PICK x \in monitor.todo :
        /\ monitor' = [monitor EXCEPT !.todo = @ \ {x}]
        /\ seen' = seen \cup {deposits[x].tx}
        /\ handed' = [handed EXCEPT ![x] = @ + 1]
        /\ Emit(Monitor, "external", x)
  BY DEF MonitorTells
<1>2. x \in 1..MaxDeposits /\ x \in DOMAIN deposits /\ deposits[x].tx \in Nat /\ handed[x] = 0
  <2>1. x \in 1..MaxDeposits /\ x \in DOMAIN deposits /\ handed[x] = 0
    BY <1>0 DEF Rest, MemoryInv
  <2>2. deposits[x] \in [at : Nat, success : BOOLEAN, tx : Nat]
    BY <1>0, <2>1, DepositFacts
  <2> QED BY <2>1, <2>2
<1>3. Monitor \in Emitters /\ "external" \in Types /\ x \in 0..MaxDeposits
  BY <1>2, RoutingFacts DEF Emitters
<1>4. /\ Acts' /\ events' \in Seq([type : Types, deposit : 0..MaxDeposits])
      /\ Ids \subseteq Ids' /\ \A id \in Ids : events'[id] = events[id]
  BY <1>1, <1>3, EmitKeeps
<1>5. MemoryInv'
  <2>1. UNCHANGED deposits
    BY DEF MonitorTells, worldVars
  <2>2. /\ \A y \in 1..MaxDeposits : handed'[y] = IF y = x THEN 1 ELSE handed[y]
        /\ monitor'.todo = monitor.todo \ {x}
    BY <1>0, <1>1, <1>2 DEF Rest
  <2>3. /\ monitor.todo \subseteq DOMAIN deposits
        /\ \A y \in 1..MaxDeposits :
             /\ handed[y] \in Nat /\ handed[y] <= 1
             /\ handed[y] > 0 => y \in DOMAIN deposits /\ deposits[y].tx \in seen
             /\ y \in monitor.todo => handed[y] = 0
    BY <1>0 DEF Rest, MemoryInv
  <2>4. deposits' = deposits /\ seen \subseteq seen' /\ deposits[x].tx \in seen'
    BY <1>1, <2>1
  <2> QED BY <1>2, <2>2, <2>3, <2>4 DEF MemoryInv
<1>6. UNCHANGED <<clock, deposits, stored, index, cursor>>
  BY DEF MonitorTells, worldVars, storeVars
<1>7. IndexInv' /\ DOMAIN stored' \subseteq Ids'
  BY <1>0, <1>4, <1>6 DEF Rest, IndexInv
<1>8. /\ monitor' \in [at : {"idle", "ask", "tell"}, now : Nat, todo : SUBSET (1..MaxDeposits)]
      /\ seen' \subseteq Nat /\ handed' \in [1..MaxDeposits -> Nat]
  <2>1. monitor' \in [at : {"idle", "ask", "tell"}, now : Nat, todo : SUBSET (1..MaxDeposits)]
    <3>1. monitor.todo \ {x} \in SUBSET (1..MaxDeposits)
      BY <1>0 DEF Rest
    <3> QED BY <1>0, <1>1, <3>1 DEF Rest
  <2>2. handed' \in [1..MaxDeposits -> Nat]
    BY <1>0, <1>1, <1>2 DEF Rest
  <2> QED BY <1>0, <1>1, <1>2, <2>1, <2>2 DEF Rest
<1>9. stored' \in [DOMAIN stored' -> Nat] /\ index' \in [Indices -> [members : SUBSET Nat, expires : Nat]]
  BY <1>0, <1>6 DEF Rest
<1>10. Rest'
  BY <1>0, <1>4, <1>5, <1>6, <1>7, <1>8, <1>9 DEF Rest
<1> QED BY <1>4, <1>10, NextParts

(* An emitter goes on with its delivery, by a chat or to its end. *)
LEMMA DeliveryKeeps ==
  ASSUME NoticesInv, NEW e \in Emitters,
         EmitEnds(e) \/ \E c \in Chats : ChatAccepts(e, c) \/ ChatRefuses(e, c)
  PROVE  NoticesInv'
<1> USE NoticesAssumption
<1>0. Acts /\ Rest /\ TypeOK
  BY InvParts DEF NoticesInv
<1>1. UNCHANGED <<worldVars, monitor, cursor, seen, events, storeVars, handed>>
  BY DEF EmitEnds, ChatAccepts, ChatRefuses
<1>2. Rest'
  BY <1>0, <1>1 DEF Rest, MemoryInv, IndexInv, Ids, worldVars, storeVars
<1>3. ActState' = ActState /\ Ids' = Ids
  BY <1>1 DEF ActState, Ids
<1>4. CASE EmitEnds(e)
  <2>1. Acts'
    BY <1>0, <1>3, <1>4, IdleFits, GoesKeepsActs DEF EmitEnds
  <2> QED BY <1>2, <2>1, NextParts
<1>5. ASSUME NEW c \in Chats, NEW send \in [left : BOOLEAN, attempt : 0..TelegramMaxRetries],
             Goes(e, [act[e] EXCEPT !.chat[c] = send])
      PROVE  NoticesInv'
  <2> DEFINE new == [act[e] EXCEPT !.chat[c] = send]
  <2>1. act[e] \in ActState /\ (act[e].at = "deliver" \/ act[e].redis => act[e].id \in Ids)
    BY <1>0 DEF Acts, At
  <2>2. /\ new \in ActState /\ Goes(e, new)
        /\ new.at = act[e].at /\ new.redis = act[e].redis /\ new.id = act[e].id
    BY <1>5, <2>1 DEF ActState
  <2> HIDE DEF new
  <2>3. new \in ActState' /\ (new.at = "deliver" \/ new.redis => new.id \in Ids')
    BY <1>3, <2>1, <2>2
  <2>4. Acts'
    BY <1>0, <1>3, <2>2, <2>3, GoesKeepsActs
  <2> QED BY <1>2, <2>4, NextParts
<1>6. ASSUME NEW c \in Chats, ChatAccepts(e, c) PROVE NoticesInv'
  BY <1>5, <1>6, SendFits DEF ChatAccepts
<1>7. ASSUME NEW c \in Chats, ChatRefuses(e, c) PROVE NoticesInv'
  <2> DEFINE again == [act[e].chat[c] EXCEPT !.attempt = act[e].chat[c].attempt + 1]
  <2>1. act[e].chat[c] \in [left : BOOLEAN, attempt : 0..TelegramMaxRetries]
        /\ act[e] \in ActState
    BY <1>0 DEF Acts, ActState
  <2>2. CASE LastTry(act[e].chat[c].attempt)
    BY <1>5, <1>7, <2>2, SendFits DEF ChatRefuses
  <2>3. CASE ~LastTry(act[e].chat[c].attempt)
    <3>1. again \in [left : BOOLEAN, attempt : 0..TelegramMaxRetries]
      BY <2>1, <2>3 DEF LastTry
    <3>2. [act[e] EXCEPT !.chat[c].attempt = act[e].chat[c].attempt + 1] = [act[e] EXCEPT !.chat[c] = again]
      BY <2>1 DEF ActState
    <3>3. Goes(e, [act[e] EXCEPT !.chat[c] = again])
      BY <1>7, <2>3, <3>2 DEF ChatRefuses
    <3> HIDE DEF again
    <3> QED BY <1>5, <3>1, <3>3
  <2> QED BY <2>2, <2>3
<1> QED BY <1>4, <1>6, <1>7

(* The key and its indices get the same lifetime, and none is as late. *)
LEMMA RedisStoresKeeps ==
  ASSUME NoticesInv, NEW e \in Emitters, RedisStores(e) PROVE NoticesInv'
<1> USE NoticesAssumption
<1>0. Acts /\ Rest /\ TypeOK
  BY InvParts DEF NoticesInv
<1>1. UNCHANGED <<worldVars, monitor, cursor, seen, events, handed>>
      /\ Goes(e, [act[e] EXCEPT !.redis = FALSE]) /\ act[e].redis
  BY DEF RedisStores
<1>2. ActState' = ActState /\ Ids' = Ids
  BY <1>1 DEF ActState, Ids
<1>3. Acts'
  <2>1. act[e] \in ActState /\ act[e].id \in Ids
    BY <1>0, <1>1 DEF Acts
  <2>2. [act[e] EXCEPT !.redis = FALSE] \in ActState /\ [act[e] EXCEPT !.redis = FALSE].id \in Ids
    BY <2>1 DEF ActState
  <2> QED BY <1>0, <1>1, <1>2, <2>2, GoesKeepsActs
<1>4. CASE UNCHANGED storeVars
  <2>1. Rest'
    BY <1>0, <1>1, <1>4 DEF Rest, MemoryInv, IndexInv, Ids, worldVars, storeVars
  <2> QED BY <1>3, <2>1, NextParts
<1>5. CASE ~UNCHANGED storeVars
  <2> DEFINE new == act[e].id
  <2>1. new \in Ids /\ new \in Nat
    BY <1>0, <1>1 DEF Acts, Ids
  <2>2. /\ stored' = [i \in DOMAIN stored \cup {new} |-> IF i = new THEN clock + RedisTtl ELSE stored[i]]
        /\ index' = [k \in Indices |->
             IF k \in {"all", events[new].type} THEN WithEntry(index[k], new) ELSE index[k]]
    BY <1>5 DEF RedisStores
  <2> HIDE DEF new
  <2>3. \A k \in Indices : /\ index[k].members \subseteq index'[k].members
                            /\ index'[k].expires \in {index[k].expires, clock + RedisTtl}
                            /\ index'[k].members \subseteq index[k].members \cup {new}
                            /\ index'[k] \in [members : SUBSET Nat, expires : Nat]
    BY <1>0, <2>1, <2>2, SMTT(30) DEF Rest, WithEntry
  <2>4. index' \in [Indices -> [members : SUBSET Nat, expires : Nat]]
    BY <2>2, <2>3
  <2>5. DOMAIN stored' \subseteq Ids' /\ stored' \in [DOMAIN stored' -> Nat]
    BY <1>0, <1>2, <2>1, <2>2 DEF Rest
  <2>6. IndexInv'
    <3> SUFFICES ASSUME NEW id \in DOMAIN stored', NEW k \in {"all", events[id].type}
                 PROVE  /\ stored'[id] <= clock + RedisTtl
                        /\ id \in index'[k].members /\ stored'[id] <= index'[k].expires
      BY <1>1 DEF IndexInv, worldVars
    <3>0. id \in Ids
      BY <1>2, <2>5
    <3>1. id \in Ids /\ k \in Indices
      BY <1>0, <3>0, IndexOfEvent
    <3>2. CASE id = new
      BY <1>0, <2>2, <3>1, <3>2 DEF WithEntry, Rest
    <3>3. CASE id # new
      <4>1. id \in DOMAIN stored /\ stored'[id] = stored[id] /\ stored[id] \in Nat
        BY <1>0, <2>2, <3>3 DEF Rest
      <4>2. stored[id] <= clock + RedisTtl /\ id \in index[k].members /\ stored[id] <= index[k].expires
        BY <1>0, <4>1 DEF Rest, IndexInv
      <4> QED BY <2>3, <3>1, <4>1, <4>2
    <3> QED BY <3>2, <3>3
  <2>7. Rest'
    BY <1>0, <1>1, <2>4, <2>5, <2>6 DEF Rest, MemoryInv, worldVars
  <2> QED BY <1>3, <2>7, NextParts
<1> QED BY <1>4, <1>5

LEMMA AdminDeletesKeeps ==
  ASSUME NoticesInv, NEW del \in DOMAIN stored, AdminDeletes(del) PROVE NoticesInv'
<1>0. Acts /\ Rest
  BY InvParts
<1>1. UNCHANGED <<worldVars, monitor, cursor, seen, act, events, handed>>
  BY DEF AdminDeletes
<1>2. Acts'
  BY <1>0, <1>1 DEF Acts, ActState, Ids, At
<1>3. \A k \in Indices : /\ index'[k].expires = index[k].expires
                          /\ index[k].members \ {del} \subseteq index'[k].members
                          /\ index'[k] \in [members : SUBSET Nat, expires : Nat]
  BY <1>0 DEF AdminDeletes, Rest
<1>4. index' \in [Indices -> [members : SUBSET Nat, expires : Nat]]
  BY <1>3 DEF AdminDeletes
<1>5. DOMAIN stored' \subseteq Ids' /\ stored' \in [DOMAIN stored' -> Nat]
  BY <1>0, <1>1 DEF AdminDeletes, Rest, Ids
<1>6. IndexInv'
  <2> SUFFICES ASSUME NEW id \in DOMAIN stored', NEW k \in {"all", events[id].type}
               PROVE  /\ stored'[id] <= clock + RedisTtl
                      /\ id \in index'[k].members /\ stored'[id] <= index'[k].expires
    BY <1>1 DEF IndexInv, worldVars
  <2>1. id \in DOMAIN stored /\ id # del /\ stored'[id] = stored[id]
    BY DEF AdminDeletes
  <2>2. k \in Indices
    <3>1. id \in Ids
      BY <1>0, <2>1 DEF Rest
    <3> QED BY <1>0, <3>1, IndexOfEvent
  <2>3. stored[id] <= clock + RedisTtl /\ id \in index[k].members /\ stored[id] <= index[k].expires
    BY <1>0, <2>1 DEF Rest, IndexInv
  <2> QED BY <1>3, <2>1, <2>2, <2>3
<1>7. Rest'
  BY <1>0, <1>1, <1>4, <1>5, <1>6 DEF Rest, MemoryInv, worldVars
<1> QED BY <1>2, <1>7, NextParts

LEMMA NoticesNext == NoticesInv /\ [Next]_vars => NoticesInv'
<1> SUFFICES ASSUME NoticesInv, [Next]_vars PROVE NoticesInv'
  OBVIOUS
<1> Monitor \in Emitters /\ Others \subseteq Emitters
  BY DEF Emitters
<1>1. CASE UNCHANGED vars
  <2>1. UNCHANGED <<clock, deposits, monitor, cursor, seen, act, events, stored, index, handed>>
    BY <1>1 DEF vars
  <2>2. Acts' /\ Rest'
    BY <2>1, InvParts DEF Acts, Rest, ActState, Ids, At, MemoryInv, IndexInv
  <2> QED BY <2>2, NextParts
<1>2. CASE Next
  BY <1>2, WorldKeeps, TickKeeps, RestartKeeps, CallerKeeps, OtherEmitsKeeps, MonitorTellsKeeps,
     DeliveryKeeps, RedisStoresKeeps, AdminDeletesKeeps DEF Next, Step, MonitorStep
<1> QED BY <1>1, <1>2
-------------------------------------------------------------------------------
(* The monitor's memory holds what it told, and the lists outlive what is in
   them: the cycle of the monitor, the delivery and the store keep both. *)
THEOREM NoticesCorrect == Spec => []NoticesInv
<1>1. Init => NoticesInv
  BY NoticesInit
<1>2. NoticesInv /\ [Next]_vars => NoticesInv'
  BY NoticesNext
<1> QED BY <1>1, <1>2, PTL DEF Spec

(* KuCoinWalletMonitor tells of a deposit once in the life of a process,
   although it asks for what lies at its cursor again. *)
THEOREM NotifiesOnce == Spec => []NotifiedOnce
<1>1. NoticesInv => NotifiedOnce
  BY SMTT(30) DEF NoticesInv, TypeOK, MemoryInv, NotifiedOnce
<1> QED BY <1>1, NoticesCorrect, PTL

(* What RedisNotificationStore keeps of a notification, its list and the list
   of its type show. *)
THEOREM StoredIsListed == Spec => []ListedWhileStored
<1>1. NoticesInv => ListedWhileStored
  BY DEF NoticesInv, IndexInv, ListedWhileStored, Listed
<1> QED BY <1>1, NoticesCorrect, PTL
===============================================================================
