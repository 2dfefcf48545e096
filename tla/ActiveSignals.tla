---------------------------- MODULE ActiveSignals ----------------------------
(***************************************************************************)
(* The stateful signal service: src/syslogs/signals/*.c and its twin       *)
(* src/traps/signals/*.c.                                                  *)
(*                                                                         *)
(* The Kafka thread turns each message into OPEN and CLOSE matches of the  *)
(* loaded rules, creates signals (warmUp) and sends matched ones to        *)
(* coolDown.  The monitor thread promotes warmUp to open and retires       *)
(* coolDown signals when their delay has passed.  The reload thread        *)
(* replaces the rules.  Redis holds a copy of created and opened signals,  *)
(* from which a restarted syslog service reloads its table; OpenSearch     *)
(* holds the status documents the user interface reads.                    *)
(*                                                                         *)
(* The twins share one Redis, one set active_signals and one key prefix    *)
(* signals:syslogs:, but the trap service loads keys signals:traps:<id>,   *)
(* which nothing writes (traps/signals/redis.c:42, :102).  So a restart of *)
(* the trap service brings back nothing, and one of the syslog service     *)
(* also adopts the signals of the trap service, which the last section but *)
(* one models as seen in Redis.                                            *)
(*                                                                         *)
(* One action is one match, one visit of the monitor to one signal, or one *)
(* reload; what overlapping handlers do to the array itself is the subject *)
(* of SignalThreads.  The array order is abstracted: a lookup may return   *)
(* any matching entry.                                                     *)
(***************************************************************************)
EXTENDS Naturals, FiniteSets

CONSTANTS
    Devices, Mnemonics, Tags,   \* a tag is a key=value pair of a message
    Rules, RuleDef,             \* rule definitions, as read from PostgreSQL
    LongNamed,                  \* rules whose name does not fit ActiveSignal.rule[32]
    Messages,                   \* the messages the event consumer may publish
    MaxSignals,                 \* MAX_SIGNALS
    Service,                    \* "syslogs" or "traps": which of the twins
    TrapIds, TrapSignal,        \* to "syslogs": ids the trap service may use, and for what
    TrapRules,                  \* its rule names, some of which may be in Rules as well
    NoSignal,
    MaxIds, MaxLog, MaxCrashes, MaxAge   \* bounds of the model

RuleType == [openMnemonic : Mnemonics, closeMnemonic : Mnemonics,
             openTags : SUBSET Tags, closeTags : SUBSET Tags,
             affected : SUBSET Tags, warmup : 0..MaxAge, cooldown : 0..MaxAge]

ASSUME ConstantsOK ==
    /\ MaxSignals \in Nat /\ MaxIds \in Nat /\ MaxLog \in Nat
    /\ MaxCrashes \in Nat /\ MaxAge \in Nat
    /\ Service \in {"syslogs", "traps"}
    /\ IsFiniteSet(TrapIds) /\ TrapIds \subseteq Nat \ 0..MaxIds
    /\ Service = "traps" => TrapIds = {}
    /\ TrapSignal \in [TrapIds -> [device : Devices, rule : TrapRules, entities : SUBSET Tags]]
    /\ LongNamed \subseteq Rules
    /\ RuleDef \in [Rules -> RuleType]
    /\ Messages # {}
    /\ Messages \subseteq [device : Devices, mnemonic : Mnemonics, tags : SUBSET Tags]

OwnIds == 1..MaxIds
Ids == OwnIds \cup TrapIds

Signal == [device : Devices, rule : Rules \cup TrapRules, entities : SUBSET Tags,
           status : {"warmUp", "open", "coolDown"}, age : 0..MaxAge]

ASSUME NoSignalOK == NoSignal \notin Signal

VARIABLES
    log, committed,       \* the Kafka topic (all it will ever hold), the committed offset
    up,                   \* is the process running?
    position, pending,    \* Kafka thread: messages read, matches left of the last one
    signals, nextId,      \* active_signals, and the next fresh signalId
    rules,                \* signal_rules
    redisUp,              \* the hiredis context has no error
    saved,                \* Redis: key signals:syslogs:<id>, listed in active_signals
    indexed,              \* OpenSearch: status of the document with each own id
    crashes,              \* counts crashes, for the bound
    missed, undeleted,    \* history: a record in Redis was missed; deletes that got lost
    theirs                \* the trap service: how far each of its signals is

kafkaVars == <<log, committed>>
threadVars == <<position, pending>>
storeVars == <<redisUp, saved, missed>>
vars == <<kafkaVars, up, threadVars, signals, nextId, rules, storeVars,
          indexed, crashes, undeleted, theirs>>

Live == {x \in Ids : signals[x] # NoSignal}
Loadable == {x \in Ids : saved[x] # NoSignal}
OwnLive == Live \cap OwnIds
OwnLoadable == Loadable \cap OwnIds
Matches == Rules \X {"open", "close"}

\* A signal with another status and another time since it took that status.
Aged(s, status, age) ==
    [device |-> s.device, rule |-> s.rule, entities |-> s.entities,
     status |-> status, age |-> age]

Entering(s, status) == Aged(s, status, 0)

-----------------------------------------------------------------------------
(* Rule matching (rules.c) and signal lookup (activeSignals.c).            *)

FindSignalRule(m) ==
    {<<r, "open">> : r \in {q \in rules : /\ RuleDef[q].openMnemonic = m.mnemonic
                                          /\ RuleDef[q].openTags \subseteq m.tags}}
    \cup
    {<<r, "close">> : r \in {q \in rules : /\ RuleDef[q].closeMnemonic = m.mnemonic
                                           /\ RuleDef[q].closeTags \subseteq m.tags}}

\* Mutant: a lookup that skips signals in coolDown.
FindActiveSignalsNotCooling(r, m) ==
    {x \in Live : /\ signals[x].device = m.device
                  /\ signals[x].rule = r /\ r \notin LongNamed
                  /\ signals[x].entities \subseteq m.tags
                  /\ signals[x].status # "coolDown"}

\* The signals of rule r that message m is about.  A truncated rule name
\* equals no rule's name, so a long-named rule finds none.
FindActiveSignals(r, m) ==
    {x \in Live : /\ signals[x].device = m.device
                  /\ signals[x].rule = r /\ r \notin LongNamed
                  /\ signals[x].entities \subseteq m.tags}

FindRuleByName(s) == s.rule \in rules \ LongNamed

-----------------------------------------------------------------------------
(* External stores.  An upload is not retried.  A Redis command may be     *)
(* refused with an error reply, which the code does not look at, or may    *)
(* break the connection, applied or not; nothing reconnects it.            *)
(* "missed" notes that a record was not written, deleted or loaded though  *)
(* the connection stayed up.                                               *)

AddToBulkPayload(x, status) ==
    \/ x \in OwnIds /\ indexed' = [indexed EXCEPT ![x] = status]
    \/ UNCHANGED indexed

\* What the replies to a pair of commands say of the connection, given
\* whether the pair took effect.
RedisReplies(applied) ==
    \/ applied /\ redisUp' = TRUE /\ UNCHANGED missed
    \/ ~applied /\ redisUp' = TRUE /\ missed' = TRUE
    \/ redisUp' = FALSE /\ UNCHANGED missed

\* SET the key, SADD the id.
StoreSignalInRedis(x, s) ==
    \/ ~redisUp /\ UNCHANGED storeVars
    \/ /\ redisUp
       /\ \E applied \in BOOLEAN :
             /\ saved' = IF applied THEN [saved EXCEPT ![x] = s] ELSE saved
             /\ RedisReplies(applied)

\* Mutant: the retired signal is left in Redis.
KeepSignalInRedis(x) == UNCHANGED <<storeVars, undeleted>>

\* DEL the key, SREM the id: either is enough to hide the signal.
DeleteSignalFromRedis(x) ==
    \/ ~redisUp /\ undeleted' = undeleted \cup ({x} \cap OwnIds) /\ UNCHANGED storeVars
    \/ /\ redisUp
       /\ \E applied \in BOOLEAN :
             /\ saved' = IF applied THEN [saved EXCEPT ![x] = NoSignal] ELSE saved
             /\ undeleted' = IF applied THEN undeleted ELSE undeleted \cup ({x} \cap OwnIds)
             /\ RedisReplies(applied)

-----------------------------------------------------------------------------
(* The Kafka thread.                                                       *)

\* The message whose matches are pending.
current == log[position]

Poll ==
    /\ up /\ pending = {} /\ position < MaxLog
    /\ position' = position + 1
    /\ pending' = FindSignalRule(log[position + 1])
    /\ UNCHANGED <<kafkaVars, up, signals, nextId, rules, storeVars,
                   indexed, crashes, undeleted, theirs>>

\* librdkafka stores the offset when poll returns, so the automatic commit
\* may run ahead of the handler.
Commit ==
    /\ Service = "syslogs" /\ up
    /\ committed' = position
    /\ UNCHANGED <<log, up, threadVars, signals, nextId, rules, storeVars,
                   indexed, crashes, undeleted, theirs>>

NewSignal(r, m) ==
    [device |-> m.device, rule |-> r,
     entities |-> m.tags \cap RuleDef[r].affected, status |-> "warmUp", age |-> 0]

\* The guard on nextId is the bound MaxIds.
CreateSignal(r) ==
    /\ nextId <= MaxIds
    /\ Cardinality(Live) < MaxSignals
    /\ signals' = [signals EXCEPT ![nextId] = NewSignal(r, current)]
    /\ nextId' = nextId + 1
    /\ AddToBulkPayload(nextId, "warmUp")
    /\ StoreSignalInRedis(nextId, NewSignal(r, current))

\* A signal in any state, coolDown included, makes MATCH_OPEN a no-op.
MatchOpen(r) ==
    /\ up /\ <<r, "open">> \in pending
    /\ pending' = pending \ {<<r, "open">>}
    /\ \/ FindActiveSignals(r, current) = {} /\ CreateSignal(r)
       \/ /\ FindActiveSignals(r, current) # {} \/ Cardinality(Live) >= MaxSignals
          /\ UNCHANGED <<signals, nextId, storeVars, indexed>>
    /\ UNCHANGED <<kafkaVars, up, position, rules, crashes, undeleted, theirs>>

\* Mutant: the status the comment at activeSignals.c:455 names.
CloseSignalAtOnce(x) ==
    /\ signals' = [signals EXCEPT ![x] = Entering(@, "closed")]
    /\ AddToBulkPayload(x, "closed")

CloseSignal(x) ==
    /\ signals' = [signals EXCEPT ![x] = Entering(@, "coolDown")]
    /\ AddToBulkPayload(x, "coolDown")

MatchClose(r) ==
    /\ up /\ <<r, "close">> \in pending /\ <<r, "open">> \notin pending
    /\ pending' = pending \ {<<r, "close">>}
    /\ \/ \E x \in FindActiveSignals(r, current) : CloseSignal(x)
       \/ FindActiveSignals(r, current) = {} /\ UNCHANGED <<signals, indexed>>
    /\ UNCHANGED <<kafkaVars, up, position, nextId, rules,
                   storeVars, crashes, undeleted, theirs>>

-----------------------------------------------------------------------------
(* The monitor thread: one visit of updateSignalStates to one signal.      *)

MonitorFrame == UNCHANGED <<kafkaVars, up, threadVars, nextId, rules, crashes, theirs>>

\* Mutant: the promotion is not stored.
OpenSignalUnsaved(x) ==
    /\ up /\ x \in Live /\ FindRuleByName(signals[x])
    /\ signals[x].status = "warmUp"
    /\ signals[x].age >= RuleDef[signals[x].rule].warmup
    /\ signals' = [signals EXCEPT ![x] = Entering(@, "open")]
    /\ AddToBulkPayload(x, "open")
    /\ MonitorFrame /\ UNCHANGED <<storeVars, undeleted>>

\* Mutant: the status is not tested.
OpenSignalAnyStatus(x) ==
    LET opened == Entering(signals[x], "open") IN
    /\ up /\ x \in Live /\ FindRuleByName(signals[x])
    /\ signals[x].age >= RuleDef[signals[x].rule].warmup
    /\ signals' = [signals EXCEPT ![x] = opened]
    /\ StoreSignalInRedis(x, opened)
    /\ AddToBulkPayload(x, "open")
    /\ MonitorFrame /\ UNCHANGED undeleted

OpenSignal(x) ==
    LET opened == Entering(signals[x], "open") IN
    /\ up /\ x \in Live /\ FindRuleByName(signals[x])
    /\ signals[x].status = "warmUp"
    /\ signals[x].age >= RuleDef[signals[x].rule].warmup
    /\ signals' = [signals EXCEPT ![x] = opened]
    /\ StoreSignalInRedis(x, opened)
    /\ AddToBulkPayload(x, "open")
    /\ MonitorFrame /\ UNCHANGED undeleted

\* Mutant: the delay is compared for equality, and a late visit misses it.
RetireSignalOnTime(x) ==
    /\ up /\ x \in Live /\ FindRuleByName(signals[x])
    /\ signals[x].status = "coolDown"
    /\ signals[x].age = RuleDef[signals[x].rule].cooldown
    /\ signals' = [signals EXCEPT ![x] = NoSignal]
    /\ AddToBulkPayload(x, "closed")
    /\ DeleteSignalFromRedis(x)
    /\ MonitorFrame

RetireSignal(x) ==
    /\ up /\ x \in Live /\ FindRuleByName(signals[x])
    /\ signals[x].status = "coolDown"
    /\ signals[x].age >= RuleDef[signals[x].rule].cooldown
    /\ signals' = [signals EXCEPT ![x] = NoSignal]
    /\ AddToBulkPayload(x, "closed")
    /\ DeleteSignalFromRedis(x)
    /\ MonitorFrame

-----------------------------------------------------------------------------
(* The reload thread: the old rules are freed first, so a failed query     *)
(* leaves none.                                                            *)

LoadSignalRules ==
    /\ up
    /\ rules' \in {{}, Rules}
    /\ UNCHANGED <<kafkaVars, up, threadVars, signals, nextId,
                   storeVars, indexed, crashes, undeleted, theirs>>

-----------------------------------------------------------------------------
(* Time, crashes and restarts.                                             *)

Older(s) ==
    IF s = NoSignal \/ s.age = MaxAge THEN s ELSE Aged(s, s.status, s.age + 1)

\* Both copies carry the absolute status_changed_at, so both grow older.
Tick ==
    /\ signals' = [x \in Ids |-> Older(signals[x])]
    /\ saved' = [x \in Ids |-> Older(saved[x])]
    /\ UNCHANGED <<kafkaVars, up, threadVars, nextId, rules, redisUp, missed, indexed,
                   crashes, undeleted, theirs>>

\* A crash between the two halves of a handler, say after the upload of
\* "closed" and before DEL, leaves what a connection that breaks at that
\* point and then a crash leave, so it needs no action of its own.
Crash ==
    /\ up /\ crashes < MaxCrashes
    /\ up' = FALSE
    /\ crashes' = crashes + 1
    /\ signals' = [x \in Ids |-> NoSignal]
    /\ pending' = {}
    /\ rules' = {}
    /\ redisUp' = FALSE
    /\ UNCHANGED <<kafkaVars, position, nextId, saved, missed,
                   indexed, undeleted, theirs>>

\* The syslog service reads every listed signal, the trap service's included,
\* up to MAX_ACTIVE_SIGNALS, but a signal whose GET gives no value is skipped, as
\* are all when SMEMBERS fails.
LoadActiveSignalsFromRedis(loaded) ==
    /\ Cardinality(loaded) <= MaxSignals
    /\ signals' = [x \in Ids |-> IF x \in loaded THEN saved[x] ELSE NoSignal]
    /\ \/ /\ redisUp' = TRUE
          /\ \/ loaded = Loadable /\ UNCHANGED missed
             \/ /\ Cardinality(loaded) = MaxSignals    \* the table is full, perhaps of theirs
                /\ missed' = (missed \/ Loadable \cap TrapIds # {})
       \/ redisUp' = TRUE /\ missed' = TRUE
       \/ redisUp' = FALSE /\ UNCHANGED missed    \* never connected, or cut off

\* The trap service asks for each listed id under a prefix where nothing is, so
\* no GET gives a value.
LoadNothing ==
    /\ signals' = [x \in Ids |-> NoSignal]
    /\ redisUp' \in BOOLEAN /\ UNCHANGED missed

Restart ==
    /\ ~up
    /\ up' = TRUE
    /\ position' = committed
    /\ \/ /\ Service = "syslogs"
          /\ \E loaded \in SUBSET Loadable : LoadActiveSignalsFromRedis(loaded)
       \/ Service = "traps" /\ LoadNothing
    /\ UNCHANGED <<kafkaVars, pending, nextId, rules, saved,
                   indexed, crashes, undeleted, theirs>>

-----------------------------------------------------------------------------
(* The trap service, as the syslog service meets it in Redis: the set and  *)
(* the prefix are the same.  What it writes may be lost; when it crashes,  *)
(* its records stay.                                                       *)

TrapFrame == UNCHANGED <<kafkaVars, up, threadVars, signals, nextId, rules, redisUp,
                         missed, indexed, crashes, undeleted>>

\* It creates or opens a signal and stores it.
TrapStores(x, from, status) ==
    /\ theirs[x] = from
    /\ theirs' = [theirs EXCEPT ![x] = status]
    /\ \/ saved' = [saved EXCEPT ![x] = Entering(TrapSignal[x], status)]
       \/ UNCHANGED saved
    /\ TrapFrame

TrapCreates(x) == TrapStores(x, "none", "warmUp")
TrapOpens(x)   == TrapStores(x, "warmUp", "open")

\* It retires a signal and deletes its record, or loses the signal in a crash.
TrapDrops(x) ==
    /\ theirs[x] \in {"warmUp", "open"}
    /\ theirs' = [theirs EXCEPT ![x] = "gone"]
    /\ \/ saved' = [saved EXCEPT ![x] = NoSignal]
       \/ UNCHANGED saved
    /\ TrapFrame

-----------------------------------------------------------------------------

Init ==
    /\ log \in [1..MaxLog -> Messages] /\ committed = 0
    /\ up = TRUE
    /\ position = 0 /\ pending = {}
    /\ signals = [x \in Ids |-> NoSignal] /\ nextId = 1
    /\ rules = {}
    /\ redisUp \in BOOLEAN
    /\ saved = [x \in Ids |-> NoSignal]
    /\ indexed = [x \in OwnIds |-> "none"]
    /\ crashes = 0 /\ missed = FALSE /\ undeleted = {}
    /\ theirs = [x \in TrapIds |-> "none"]

KafkaThread == Poll \/ \E r \in Rules : MatchOpen(r) \/ MatchClose(r)

Next ==
    \/ Poll
    \/ Commit
    \/ \E r \in Rules : MatchOpen(r)
    \/ \E r \in Rules : MatchClose(r)
    \/ \E x \in Ids : OpenSignal(x)
    \/ \E x \in Ids : RetireSignal(x)
    \/ LoadSignalRules
    \/ Tick
    \/ Crash
    \/ Restart
    \/ \E x \in TrapIds : TrapCreates(x)
    \/ \E x \in TrapIds : TrapOpens(x)
    \/ \E x \in TrapIds : TrapDrops(x)

\* The threads loop forever, time passes and compose restarts the container;
\* nothing makes a reload succeed, a commit happen or a message arrive.
Fairness ==
    /\ WF_vars(Tick) /\ WF_vars(Restart) /\ WF_vars(KafkaThread)
    /\ \A x \in Ids : WF_vars(OpenSignal(x)) /\ WF_vars(RetireSignal(x))

Spec == Init /\ [][Next]_vars /\ Fairness

-----------------------------------------------------------------------------
(* Properties.                                                             *)

SignalOrNone == Signal \cup {NoSignal}

\* Every variable stays in its type (the C structs and enumerations).
TypeOK ==
    /\ log \in [1..MaxLog -> Messages] /\ committed \in 0..MaxLog
    /\ up \in BOOLEAN
    /\ position \in 0..MaxLog /\ pending \subseteq Matches
    /\ signals \in [Ids -> SignalOrNone] /\ nextId \in Nat \ {0}
    /\ rules \subseteq Rules
    /\ redisUp \in BOOLEAN
    /\ saved \in [Ids -> SignalOrNone]
    /\ indexed \in [OwnIds -> {"none", "warmUp", "open", "coolDown", "closed"}]
    /\ crashes \in Nat /\ missed \in BOOLEAN /\ undeleted \subseteq OwnIds
    /\ theirs \in [TrapIds -> {"none", "warmUp", "open", "gone"}]

SameProblem(s, t) ==
    s.device = t.device /\ s.rule = t.rule /\ s.entities = t.entities

\* One problem never has two live signals that this service created
\* (process.c:104-124 looks before it creates), across crashes, replayed messages,
\* lost Redis connections and what the trap service writes, as long as Redis
\* refuses no command, no signal of the trap service takes a place in the table
\* from one of this service's, and the rule's name fits the signal.
UniqueActive ==
    ~missed =>
        \A x, y \in OwnLive :
            x # y /\ SameProblem(signals[x], signals[y]) => signals[x].rule \in LongNamed

\* While the Redis context works, a restart of the syslog service would find, of
\* its own signals, exactly the live ones (redis.c:98-181), each as it is, except
\* that a coolDown signal is still recorded as warmUp or open: closeSignal does
\* not store it.
RedisMirrors ==
    Service = "syslogs" /\ up /\ redisUp /\ ~missed =>
        /\ OwnLoadable = OwnLive
        /\ \A x \in OwnLive :
              IF signals[x].status = "coolDown"
              THEN SameProblem(saved[x], signals[x]) /\ saved[x].status # "coolDown"
              ELSE saved[x] = signals[x]

\* A signal of this service that the user interface was told is closed is live
\* again only if the two commands that delete it from Redis (activeSignals.c:72)
\* were both lost.
NoResurrection ==
    \A x \in OwnLive : indexed[x] = "closed" => x \in undeleted

\* The table implements the life cycle: no handler, failure or restart moves a
\* signal along any other edge (activeSignals.c:51-101, 432-464, redis.c:30-96),
\* neither one it raised nor one of the trap service that a restart adopted.
StateOf(x) ==
    IF signals[x] # NoSignal THEN signals[x].status
    ELSE IF x \in TrapIds \/ x < nextId THEN "away" ELSE "none"

Lifecycle == INSTANCE SignalLifecycle WITH
                 Foreign <- TrapIds, state <- [x \in Ids |-> StateOf(x)]

ImplementsLifecycle == Lifecycle!Spec

\* Once reloads keep succeeding, no signal of a rule the monitor can find stays
\* in warmUp or in coolDown for ever (activeSignals.c:85-101).  A signal adopted
\* from the trap service stays as it is unless the names of two rules agree.
Waiting(x, status) ==
    x \in Live /\ signals[x].status = status /\ signals[x].rule \in Rules \ LongNamed

DelaysEnd ==
    <>[](up => rules = Rules) =>
        \A x \in Ids : \A status \in {"warmUp", "coolDown"} :
            Waiting(x, status) ~> ~Waiting(x, status)
=============================================================================
