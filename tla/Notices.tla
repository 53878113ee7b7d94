-------------------------------- MODULE Notices --------------------------------
(***************************************************************************)
(* Notifications: the KuCoin wallet monitor, which tells of every deposit  *)
(* at the exchange, beside other workers that emit; emitNotification; the  *)
(* notification pipeline with its lazy start; the Telegram transport with  *)
(* its retries; and the Redis store with its indices and their lifetimes.  *)
(* The monitor's cursor and memory, and the pipeline, are of the process.  *)
(* Bounds: MaxDeposits, MaxEvents, MaxClock and MaxTrouble; the code keeps *)
(* an entry a day and tries a chat four times.                             *)
(***************************************************************************)
EXTENDS Integers, Sequences, FiniteSets

CONSTANTS
  Monitor, Others,      \* the emitters
  NoCursor,
  Chats,
  TelegramMaxRetries, RedisTtl,
  MaxDeposits, MaxEvents, MaxClock,
  MaxTrouble            \* refused messages, failed calls, changes of Redis, deletions, restarts

ASSUME NoticesAssumption ==
  /\ Monitor \notin Others /\ NoCursor \notin Int
  /\ TelegramMaxRetries \in Nat /\ RedisTtl \in Nat \ {0}
  /\ MaxDeposits \in Nat /\ MaxEvents \in Nat /\ MaxClock \in Nat /\ MaxTrouble \in Nat

VARIABLES
  clock,
  deposits,    \* the deposit history of the exchange; tx 0 is no walletTxId
  tracked,     \* a wallet of KuCoin is in the database
  monitor,     \* where its cycle is, when it began, what is left to tell
  cursor,
  seen,        \* transactions the monitor has told of
  started,     \* startPipeline is past the initialisation, which it calls first
  pipe,        \* initialised, and the promise of the initialisation
  act,         \* what each emitter waits for
  events,      \* the events that were emitted, by id: type, and the deposit or 0
  redisUp,
  stored,      \* expiry of each event key
  index,       \* members and expiry of each index
  handed,      \* how often this process emitted an event for a deposit
  told,        \* what came of telling each chat of a deposit
  trouble

vars == <<clock, deposits, tracked, monitor, cursor, seen, started, pipe, act, events,
          redisUp, stored, index, handed, told, trouble>>
-------------------------------------------------------------------------------
Emitters == Others \cup {Monitor}

(* The taxonomy: one type of each routing. *)
Routing ==
  [external |-> {"redis", "telegram"}, swap |-> {"redis"}, startup |-> {"telegram"}]
Types   == DOMAIN Routing
Indices == {"all"} \cup Types

MonitorIdle == [at |-> "idle", now |-> 0, todo |-> {}]
Send        == [left |-> FALSE, attempt |-> 0]
Idle        == [at |-> "idle", id |-> 0, redis |-> FALSE, chat |-> [c \in Chats |-> Send]]
Asleep      == [ready |-> FALSE, init |-> "none"]

Goes(e, new) == act' = [act EXCEPT ![e] = new]
At(e, step)  == act[e].at = step

Init ==
  /\ clock = 0 /\ deposits = <<>> /\ tracked \in BOOLEAN
  /\ monitor = MonitorIdle /\ cursor = NoCursor /\ seen = {}
  /\ started = FALSE /\ pipe = Asleep
  /\ act = [e \in Emitters |-> Idle]
  /\ events = <<>> /\ redisUp \in BOOLEAN
  /\ stored = [id \in {} |-> 0]
  /\ index = [k \in Indices |-> [members |-> {}, expires |-> 0]]
  /\ handed = [x \in 1..MaxDeposits |-> 0]
  /\ told = [x \in 1..MaxDeposits |-> [c \in Chats |-> "no"]]
  /\ trouble = 0

worldVars == <<clock, deposits, tracked, redisUp>>
storeVars == <<stored, index>>
Trouble   == trouble < MaxTrouble /\ trouble' = trouble + 1
-------------------------------------------------------------------------------
(* The world: time, which expires keys, the exchange and Redis.  A deposit
   has a transaction of its own, one it shares with another deposit, or none,
   as when it came from another account of the exchange. *)

Tick ==
  /\ clock < MaxClock /\ clock' = clock + 1
  /\ stored' = [id \in {i \in DOMAIN stored : stored[i] > clock'} |-> stored[id]]
  /\ index' = [k \in Indices |->
       IF index[k].expires > clock' THEN index[k] ELSE [members |-> {}, expires |-> 0]]
  /\ UNCHANGED <<deposits, tracked, monitor, cursor, seen, started, pipe, act, events, redisUp, handed, told, trouble>>

DepositArrives ==
  /\ Len(deposits) < MaxDeposits
  /\ \E success \in BOOLEAN, tx \in {0, Len(deposits) + 1} \cup {deposits[x].tx : x \in DOMAIN deposits} :
       deposits' = Append(deposits, [at |-> clock, success |-> success, tx |-> tx])
  /\ UNCHANGED <<clock, tracked, redisUp, monitor, cursor, seen, started, pipe, act, events, storeVars, handed, told, trouble>>

DepositSucceeds(x) ==
  /\ ~deposits[x].success
  /\ deposits' = [deposits EXCEPT ![x].success = TRUE]
  /\ UNCHANGED <<clock, tracked, redisUp, monitor, cursor, seen, started, pipe, act, events, storeVars, handed, told, trouble>>

WalletAppears ==
  /\ ~tracked /\ tracked' = TRUE
  /\ UNCHANGED <<clock, deposits, redisUp, monitor, cursor, seen, started, pipe, act, events, storeVars, handed, told, trouble>>

RedisChanges ==
  /\ Trouble /\ redisUp' = ~redisUp
  /\ UNCHANGED <<clock, deposits, tracked, monitor, cursor, seen, started, pipe, act, events, storeVars, handed, told>>

Restart ==
  /\ Trouble
  /\ monitor' = MonitorIdle /\ cursor' = NoCursor /\ seen' = {} /\ started' = FALSE /\ pipe' = Asleep
  /\ act' = [e \in Emitters |-> Idle]
  /\ handed' = [x \in 1..MaxDeposits |-> 0]
  /\ UNCHANGED <<worldVars, events, storeVars, told>>
-------------------------------------------------------------------------------
(* The pipeline.  The first caller connects; who comes meanwhile awaits its
   promise.  One that was rejected is kept, and rejects every later caller. *)

Delivering(id) ==
  LET routing == Routing[events'[id].type]
  IN [at |-> "deliver", id |-> id, redis |-> "redis" \in routing,
      chat |-> [c \in Chats |-> [Send EXCEPT !.left = "telegram" \in routing]]]

(* Where a caller goes on once the pipeline is ready: id 0 is startPipeline. *)
GoesOn(id) == IF id = 0 THEN Idle ELSE Delivering(id)

(* ensureReady, up to the first await. *)
Reaches(e, id) ==
  IF pipe.ready THEN Goes(e, GoesOn(id)) /\ UNCHANGED pipe
  ELSE IF pipe.init = "none"
       THEN Goes(e, [Idle EXCEPT !.at = "connect", !.id = id]) /\ pipe' = [pipe EXCEPT !.init = "running"]
       ELSE Goes(e, [Idle EXCEPT !.at = "await", !.id = id]) /\ UNCHANGED pipe

(* startPipeline goes on whether its initialize was fulfilled or rejected. *)
StartsIf(id) == started' = (started \/ id = 0)

PipelineStarts ==
  /\ ~started /\ At(Monitor, "idle")
  /\ Reaches(Monitor, 0) /\ StartsIf(IF pipe.ready THEN 0 ELSE 1) /\ UNCHANGED events
  /\ UNCHANGED <<worldVars, monitor, cursor, seen, storeVars, handed, told, trouble>>

(* emitNotification, up to the first await. *)
Emit(e, type, x) ==
  /\ events' = Append(events, [type |-> type, deposit |-> x])
  /\ Reaches(e, Len(events'))

OtherEmits(e) ==
  /\ At(e, "idle") /\ Len(events) < MaxEvents
  /\ \E type \in Types \ {"external"} : Emit(e, type, 0)
  /\ UNCHANGED <<worldVars, monitor, cursor, seen, started, storeVars, handed, told, trouble>>

Connects(e) ==
  /\ At(e, "connect") /\ StartsIf(act[e].id) /\ UNCHANGED events
  /\ IF redisUp THEN pipe' = [ready |-> TRUE, init |-> "none"] /\ Goes(e, GoesOn(act[e].id))
                ELSE pipe' = [pipe EXCEPT !.init = "rejected"] /\ Goes(e, Idle)
  /\ UNCHANGED <<worldVars, monitor, cursor, seen, storeVars, handed, told, trouble>>

Awaits(e) ==
  /\ At(e, "await") /\ pipe.init # "running" /\ StartsIf(act[e].id) /\ UNCHANGED events
  /\ Goes(e, IF pipe.init = "rejected" THEN Idle ELSE GoesOn(act[e].id))
  /\ UNCHANGED <<worldVars, monitor, cursor, seen, pipe, storeVars, handed, told, trouble>>
-------------------------------------------------------------------------------
(* Both transports at once; the caller waits for both and fails with none. *)

(* Mutant of WithEntry: an index gets its lifetime when it is made. *)
WithEntryOnly(i, id) ==
  [members |-> i.members \cup {id}, expires |-> IF i.members = {} THEN clock + RedisTtl ELSE i.expires]

WithEntry(i, id) == [members |-> i.members \cup {id}, expires |-> clock + RedisTtl]

(* RedisNotificationStore.store: the key, its indices and their lifetimes. *)
RedisStores(e) ==
  LET id == act[e].id
  IN /\ act[e].redis
     /\ Goes(e, [act[e] EXCEPT !.redis = FALSE])
     /\ IF redisUp
        THEN /\ stored' = [i \in DOMAIN stored \cup {id} |-> IF i = id THEN clock + RedisTtl ELSE stored[i]]
             /\ index' = [k \in Indices |->
                  IF k \in {"all", events[id].type} THEN WithEntry(index[k], id) ELSE index[k]]
        ELSE UNCHANGED storeVars
     /\ UNCHANGED <<worldVars, monitor, cursor, seen, started, pipe, events, handed, told, trouble>>

(* handleAdminNotificationsRequest, DELETE *)
AdminDeletes(id) ==
  /\ id \in DOMAIN stored /\ redisUp /\ pipe.ready /\ Trouble
  /\ stored' = [i \in DOMAIN stored \ {id} |-> stored[i]]
  /\ index' = [k \in Indices |->
       IF k \in {"all", events[id].type} THEN [index[k] EXCEPT !.members = @ \ {id}] ELSE index[k]]
  /\ UNCHANGED <<worldVars, monitor, cursor, seen, started, pipe, act, events, handed, told>>

(* GET: the members of an index whose event key is still there. *)
Listed(k) == index[k].members \cap DOMAIN stored

(* sendToChat.  A chat that answers is done with; one that refuses is tried
   again.  When the tries are used up the loop ends with the last error, or as
   after a delivery if every refusal was a 429. *)
Tells(e, c, what) ==
  LET x == events[act[e].id].deposit
  IN told' = IF x = 0 THEN told ELSE [told EXCEPT ![x][c] = what]

ChatAccepts(e, c) ==
  /\ act[e].chat[c].left
  /\ Goes(e, [act[e] EXCEPT !.chat[c] = Send]) /\ Tells(e, c, "sent")
  /\ UNCHANGED <<worldVars, monitor, cursor, seen, started, pipe, events, storeVars, handed, trouble>>

(* Mutant of LastTry: one try less than the first and its retries. *)
LastTryEarly(attempt) == attempt + 1 >= TelegramMaxRetries

LastTry(attempt) == attempt >= TelegramMaxRetries

ChatRefuses(e, c) ==
  LET tried == act[e].chat[c].attempt
  IN /\ act[e].chat[c].left
     /\ IF tried = 0 THEN Trouble ELSE UNCHANGED trouble
     /\ IF LastTry(tried)
        THEN /\ Goes(e, [act[e] EXCEPT !.chat[c] = Send])
             /\ Tells(e, c, IF tried = TelegramMaxRetries THEN "refused" ELSE "given up")
        ELSE Goes(e, [act[e] EXCEPT !.chat[c].attempt = tried + 1]) /\ UNCHANGED told
     /\ UNCHANGED <<worldVars, monitor, cursor, seen, started, pipe, events, storeVars, handed>>

EmitEnds(e) ==
  /\ At(e, "deliver") /\ ~act[e].redis /\ \A c \in Chats : ~act[e].chat[c].left
  /\ Goes(e, Idle)
  /\ UNCHANGED <<worldVars, monitor, cursor, seen, started, pipe, events, storeVars, handed, told, trouble>>
-------------------------------------------------------------------------------
(* KuCoinWalletMonitor: a cycle at a time, here with one currency. *)

MonitorBegins ==
  /\ started /\ At(Monitor, "idle") /\ monitor.at = "idle" /\ tracked
  /\ IF cursor = NoCursor THEN cursor' = clock /\ UNCHANGED monitor
     ELSE monitor' = [MonitorIdle EXCEPT !.at = "ask", !.now = clock] /\ UNCHANGED cursor
  /\ UNCHANGED <<worldVars, seen, started, pipe, act, events, storeVars, handed, told, trouble>>

(* What an answer holds of deposits that can be told: the filter drops one
   without a transaction. *)
Since(t) ==
  {x \in DOMAIN deposits : deposits[x].success /\ deposits[x].at >= t /\ deposits[x].tx # 0}

(* Mutant of Fresh: what was told is not remembered. *)
FreshAgain == Since(cursor)

(* One answer is filtered as a whole, before any of it is remembered. *)
Fresh == {x \in Since(cursor) : deposits[x].tx \notin seen}

(* The cursor moves to the time the cycle began, over what it answers or not. *)
MonitorAsks ==
  /\ monitor.at = "ask"
  /\ monitor' = [monitor EXCEPT !.at = "tell", !.todo = Fresh]
  /\ cursor' = monitor.now
  /\ UNCHANGED <<worldVars, seen, started, pipe, act, events, storeVars, handed, told, trouble>>

MonitorFails ==
  /\ monitor.at = "ask" /\ Trouble
  /\ monitor' = MonitorIdle
  /\ UNCHANGED <<worldVars, cursor, seen, started, pipe, act, events, storeVars, handed, told>>

MonitorTells ==
  /\ monitor.at = "tell" /\ At(Monitor, "idle")
  /\ \E x \in monitor.todo :
       /\ monitor' = [monitor EXCEPT !.todo = @ \ {x}]
       /\ seen' = seen \cup {deposits[x].tx}
       /\ handed' = [handed EXCEPT ![x] = @ + 1]
       /\ Emit(Monitor, "external", x)
  /\ UNCHANGED <<worldVars, cursor, started, storeVars, told, trouble>>

MonitorEnds ==
  /\ monitor.at = "tell" /\ monitor.todo = {} /\ At(Monitor, "idle")
  /\ monitor' = MonitorIdle
  /\ UNCHANGED <<worldVars, cursor, seen, started, pipe, act, events, storeVars, handed, told, trouble>>
-------------------------------------------------------------------------------
Step(e) ==
  \/ Connects(e) \/ Awaits(e) \/ RedisStores(e) \/ EmitEnds(e)
  \/ \E c \in Chats : ChatAccepts(e, c)

MonitorStep == MonitorBegins \/ MonitorAsks \/ MonitorTells \/ MonitorEnds

Next ==
  \/ Tick \/ DepositArrives \/ WalletAppears \/ RedisChanges \/ Restart
  \/ \E x \in DOMAIN deposits : DepositSucceeds(x)
  \/ PipelineStarts \/ MonitorStep \/ MonitorFails
  \/ \E e \in Others : OtherEmits(e)
  \/ \E e \in Emitters : Step(e) \/ \E c \in Chats : ChatRefuses(e, c)
  \/ \E id \in DOMAIN stored : AdminDeletes(id)

Spec == Init /\ [][Next]_vars

(* The interval runs the monitor, and what it called answers in the end; of the
   other workers it needs only that the connection they began is made or
   refused. *)
FairSpec ==
  /\ Spec /\ WF_vars(PipelineStarts \/ MonitorStep \/ Step(Monitor))
  /\ \A e \in Others : WF_vars(Connects(e))
-------------------------------------------------------------------------------
(* The types of the variables; an emitter that has something to deliver has
   the id of an event. *)
Ids == 1..Len(events)

ActState ==
  [at : {"idle", "connect", "await", "deliver"}, id : 0..Len(events), redis : BOOLEAN,
   chat : [Chats -> [left : BOOLEAN, attempt : 0..TelegramMaxRetries]]]

TypeOK ==
  /\ clock \in Nat /\ deposits \in Seq([at : Nat, success : BOOLEAN, tx : Nat]) /\ Len(deposits) <= MaxDeposits
  /\ monitor \in [at : {"idle", "ask", "tell"}, now : Nat, todo : SUBSET (1..MaxDeposits)]
  /\ cursor \in Nat \cup {NoCursor} /\ seen \subseteq Nat
  /\ events \in Seq([type : Types, deposit : 0..MaxDeposits])
  /\ act \in [Emitters -> ActState]
  /\ \A e \in Emitters : At(e, "deliver") \/ act[e].redis => act[e].id \in Ids
  /\ DOMAIN stored \subseteq Ids /\ stored \in [DOMAIN stored -> Nat]
  /\ index \in [Indices -> [members : SUBSET Nat, expires : Nat]]
  /\ handed \in [1..MaxDeposits -> Nat]

(* What makes NotifiedOnce inductive: the monitor remembers the transaction of
   what it told, and told nothing yet of what it is about to tell. *)
MemoryInv ==
  /\ monitor.todo \subseteq DOMAIN deposits
  /\ \A x \in 1..MaxDeposits :
       /\ handed[x] <= 1
       /\ handed[x] > 0 => x \in DOMAIN deposits /\ deposits[x].tx \in seen
       /\ x \in monitor.todo => handed[x] = 0

(* What makes ListedWhileStored inductive: an index outlives its members. *)
IndexInv ==
  \A id \in DOMAIN stored :
    /\ stored[id] <= clock + RedisTtl
    /\ \A k \in {"all", events[id].type} :
         id \in index[k].members /\ stored[id] <= index[k].expires

NoticesInv == TypeOK /\ MemoryInv /\ IndexInv

(* One process tells of a deposit once: what the exchange answers again,
   because a cycle's cursor is the time it began and not the time it asked, is
   known by its transaction. *)
NotifiedOnce == \A x \in DOMAIN handed : handed[x] <= 1

(* A notification that is in Redis is in the list of all and in the list of
   its type, however long ago the lists were begun and whatever was deleted
   or has expired beside it. *)
ListedWhileStored ==
  \A id \in DOMAIN stored : id \in Listed("all") /\ id \in Listed(events[id].type)

(* A deposit with a transaction that the exchange confirms while the cursor
   has not passed it is told to every chat, or that chat refused the first
   message and each retry, whatever Redis does meanwhile: once the pipeline was
   initialised, and as long as the process lives.  Of a transaction with
   several deposits one is told for sure: the others only if the same answer
   held them. *)
DepositIsTold ==
  \A x \in 1..MaxDeposits : \A c \in Chats :
    (/\ pipe.ready /\ cursor # NoCursor /\ x \in DOMAIN deposits /\ deposits[x].tx # 0
     /\ deposits[x].success /\ cursor <= deposits[x].at)
    ~> \/ ~pipe.ready
       \/ \E y \in DOMAIN deposits :
            /\ x \in DOMAIN deposits /\ deposits[y].tx = deposits[x].tx
            /\ told[y][c] \in {"sent", "refused"}
===============================================================================
