------------------------- MODULE ActiveSignalsProofs -------------------------
(***************************************************************************)
(* The invariants of ActiveSignals, for every value of the constants, and  *)
(* its refinement of SignalLifecycle.                                      *)
(***************************************************************************)
EXTENDS ActiveSignals, FiniteSetTheorems, TLAPS

(* The first message is read before there is anything to match, a process  *)
(* that is down holds nothing, and unused identifiers are used nowhere.    *)
Idle == pending # {} => position \in 1..MaxLog

DownHoldsNothing == ~up => pending = {} /\ Live = {}

Unused ==
    \A x \in OwnIds : x >= nextId =>
        signals[x] = NoSignal /\ saved[x] = NoSignal /\ indexed[x] = "none"

SavedNeverCooling == \A x \in Loadable : saved[x].status # "coolDown"

(* The strengthening of UniqueActive and RedisMirrors: the syslog service's *)
(* own records in Redis have no duplicates either, and fit the table they  *)
(* will be loaded into.                                                    *)
UniqueSaved ==
    Service = "syslogs" /\ ~missed =>
        \A x, y \in OwnLoadable : x # y /\ SameProblem(saved[x], saved[y])
                                  => saved[x].rule \in LongNamed

Fits ==
    /\ Cardinality(Live) <= MaxSignals
    /\ Service = "syslogs" /\ ~missed => Cardinality(OwnLoadable) <= MaxSignals

ClosedIsGone ==
    \A x \in OwnIds : indexed[x] = "closed" =>
        x \in undeleted \/ (signals[x] = NoSignal /\ saved[x] = NoSignal)

BaseInv == TypeOK /\ Idle /\ DownHoldsNothing /\ Unused /\ SavedNeverCooling

StoreInv == RedisMirrors /\ UniqueActive /\ UniqueSaved /\ Fits

-----------------------------------------------------------------------------
(* Lemmas about the operators.                                             *)

LEMMA OlderFacts ==
    ASSUME NEW s \in SignalOrNone
    PROVE  /\ Older(s) \in SignalOrNone
           /\ Older(s) = NoSignal <=> s = NoSignal
           /\ s # NoSignal => /\ SameProblem(Older(s), s)
                              /\ Older(s).status = s.status
                              /\ Older(s).rule = s.rule
  <1>1. CASE s = NoSignal
    BY <1>1, NoSignalOK DEF Older, SignalOrNone
  <1>2. CASE s # NoSignal /\ s.age = MaxAge
    BY <1>2 DEF Older, SignalOrNone, SameProblem
  <1>3. CASE s # NoSignal /\ s.age # MaxAge
    <2>1. s \in Signal
      BY <1>3 DEF SignalOrNone
    <2>2. s.age + 1 \in 0..MaxAge
      BY <2>1, <1>3, ConstantsOK DEF Signal
    <2>3. Older(s) = Aged(s, s.status, s.age + 1)
      BY <1>3 DEF Older
    <2>4. Older(s) \in Signal
      BY <2>1, <2>2, <2>3 DEF Signal, Aged
    <2>5. /\ SameProblem(Older(s), s) /\ Older(s).status = s.status
          /\ Older(s).rule = s.rule
      BY <2>1, <2>3 DEF Signal, Aged, SameProblem
    <2>6. QED
      BY <2>4, <2>5, <1>3, NoSignalOK DEF SignalOrNone
  <1>4. QED
    BY <1>1, <1>2, <1>3

LEMMA EnteringFacts ==
    ASSUME NEW s \in Signal, NEW status \in {"warmUp", "open", "coolDown"}
    PROVE  /\ Entering(s, status) \in Signal
           /\ Entering(s, status) # NoSignal
           /\ SameProblem(Entering(s, status), s)
           /\ Entering(s, status).status = status
           /\ Entering(s, status).rule = s.rule
  <1>1. Entering(s, status) \in Signal
    BY ConstantsOK DEF Entering, Aged, Signal
  <1>2. QED
    BY <1>1, NoSignalOK DEF Entering, Aged, SameProblem

LEMMA NewSignalType ==
    ASSUME NEW r \in Rules, NEW m \in Messages
    PROVE  /\ NewSignal(r, m) \in Signal
           /\ NewSignal(r, m) # NoSignal
           /\ NewSignal(r, m).status = "warmUp"
  <1>1. /\ m.device \in Devices /\ m.tags \subseteq Tags
        /\ RuleDef[r].affected \subseteq Tags /\ 0 \in 0..MaxAge
    BY ConstantsOK DEF RuleType
  <1>2. QED
    BY <1>1, NoSignalOK DEF NewSignal, Signal

LEMMA MatchesType ==
    ASSUME NEW m \in Messages, rules \subseteq Rules
    PROVE  FindSignalRule(m) \subseteq Matches
  BY DEF FindSignalRule, Matches

LEMMA IdsFinite == /\ IsFiniteSet(Ids) /\ Ids \subseteq Nat \ {0}
                   /\ OwnIds \subseteq Ids /\ TrapIds \subseteq Ids /\ OwnIds \cap TrapIds = {}
  <1>1. IsFiniteSet(OwnIds)
    BY ConstantsOK, FS_Interval DEF OwnIds
  <1>2. IsFiniteSet(Ids)
    BY <1>1, ConstantsOK, FS_Union DEF Ids
  <1>3. QED
    BY <1>2, ConstantsOK DEF Ids, OwnIds

-----------------------------------------------------------------------------
(* What a visit to a store does to the stores, in every outcome.           *)

LEMMA StoreFacts ==
    ASSUME BaseInv, NEW x \in Ids, NEW s \in Signal, s.status # "coolDown",
           StoreSignalInRedis(x, s)
    PROVE  /\ saved' \in [Ids -> SignalOrNone]
           /\ redisUp' \in BOOLEAN /\ missed' \in BOOLEAN
           /\ \A y \in Ids : y # x => saved'[y] = saved[y]
           /\ saved'[x] = saved[x] \/ saved'[x] = s
           /\ redisUp' => redisUp
           /\ ~missed' => ~missed
           /\ ~missed' /\ redisUp' => saved'[x] = s
           /\ ~redisUp => saved' = saved
  <1> USE DEF BaseInv, TypeOK
  <1>1. CASE ~redisUp /\ UNCHANGED storeVars
    BY <1>1 DEF storeVars
  <1>2. ASSUME redisUp, NEW applied \in BOOLEAN,
               saved' = IF applied THEN [saved EXCEPT ![x] = s] ELSE saved,
               RedisReplies(applied)
        PROVE  /\ saved' \in [Ids -> SignalOrNone]
               /\ redisUp' \in BOOLEAN /\ missed' \in BOOLEAN
               /\ \A y \in Ids : y # x => saved'[y] = saved[y]
               /\ saved'[x] = saved[x] \/ saved'[x] = s
               /\ ~missed' => ~missed
               /\ ~missed' /\ redisUp' => saved'[x] = s
    <2>1. redisUp' \in BOOLEAN /\ missed' \in BOOLEAN
      BY <1>2 DEF RedisReplies
    <2>2. /\ ~missed' => ~missed
          /\ ~missed' /\ redisUp' => applied
      BY <1>2 DEF RedisReplies
    <2>3. /\ saved' \in [Ids -> SignalOrNone]
          /\ \A y \in Ids : y # x => saved'[y] = saved[y]
          /\ saved'[x] = saved[x] \/ saved'[x] = s
          /\ applied => saved'[x] = s
      BY <1>2 DEF SignalOrNone
    <2>4. QED
      BY <2>1, <2>2, <2>3
  <1>3. QED
    BY <1>1, <1>2 DEF StoreSignalInRedis

LEMMA DeleteFacts ==
    ASSUME BaseInv, NEW x \in Ids, DeleteSignalFromRedis(x)
    PROVE  /\ saved' \in [Ids -> SignalOrNone]
           /\ redisUp' \in BOOLEAN /\ missed' \in BOOLEAN
           /\ undeleted' \subseteq OwnIds /\ undeleted \subseteq undeleted'
           /\ \A y \in Ids : y # x => saved'[y] = saved[y]
           /\ saved'[x] = saved[x] \/ saved'[x] = NoSignal
           /\ saved'[x] = NoSignal \/ x \notin OwnIds \/ x \in undeleted'
           /\ redisUp' => redisUp
           /\ ~missed' => ~missed
           /\ ~missed' /\ redisUp' => saved'[x] = NoSignal
  <1> USE DEF BaseInv, TypeOK
  <1>1. CASE ~redisUp /\ undeleted' = undeleted \cup ({x} \cap OwnIds) /\ UNCHANGED storeVars
    BY <1>1 DEF storeVars
  <1>2. ASSUME redisUp, NEW applied \in BOOLEAN,
               saved' = IF applied THEN [saved EXCEPT ![x] = NoSignal] ELSE saved,
               undeleted' = IF applied THEN undeleted ELSE undeleted \cup ({x} \cap OwnIds),
               RedisReplies(applied)
        PROVE  /\ saved' \in [Ids -> SignalOrNone]
               /\ redisUp' \in BOOLEAN /\ missed' \in BOOLEAN
               /\ undeleted' \subseteq OwnIds /\ undeleted \subseteq undeleted'
               /\ \A y \in Ids : y # x => saved'[y] = saved[y]
               /\ saved'[x] = saved[x] \/ saved'[x] = NoSignal
               /\ saved'[x] = NoSignal \/ x \notin OwnIds \/ x \in undeleted'
               /\ ~missed' => ~missed
               /\ ~missed' /\ redisUp' => saved'[x] = NoSignal
    <2>1. redisUp' \in BOOLEAN /\ missed' \in BOOLEAN
      BY <1>2 DEF RedisReplies
    <2>2. /\ ~missed' => ~missed
          /\ ~missed' /\ redisUp' => applied
      BY <1>2 DEF RedisReplies
    <2>3. /\ saved' \in [Ids -> SignalOrNone]
          /\ undeleted' \subseteq OwnIds /\ undeleted \subseteq undeleted'
          /\ \A y \in Ids : y # x => saved'[y] = saved[y]
          /\ saved'[x] = saved[x] \/ saved'[x] = NoSignal
          /\ saved'[x] = NoSignal \/ x \notin OwnIds \/ x \in undeleted'
          /\ applied => saved'[x] = NoSignal
      BY <1>2 DEF SignalOrNone
    <2>4. QED
      BY <2>1, <2>2, <2>3
  <1>3. QED
    BY <1>1, <1>2 DEF DeleteSignalFromRedis

LEMMA BulkFacts ==
    ASSUME BaseInv, NEW x \in Ids, NEW status \in {"warmUp", "open", "coolDown", "closed"},
           AddToBulkPayload(x, status)
    PROVE  /\ indexed' \in [OwnIds -> {"none", "warmUp", "open", "coolDown", "closed"}]
           /\ \A y \in OwnIds : y # x => indexed'[y] = indexed[y]
           /\ x \in OwnIds => indexed'[x] = indexed[x] \/ indexed'[x] = status
  BY DEF BaseInv, TypeOK, AddToBulkPayload

-----------------------------------------------------------------------------
(* Each action preserves the base invariant.                               *)

LEMMA CreateSignalBase ==
    ASSUME BaseInv, NEW r \in Rules, pending # {}, up, CreateSignal(r),
           UNCHANGED <<kafkaVars, up, position, rules, crashes, undeleted, theirs>>,
           pending' \subseteq pending
    PROVE  BaseInv'
  <1> USE DEF BaseInv
  <1> DEFINE n == NewSignal(r, current)
  <1>1. position \in 1..MaxLog /\ current \in Messages
    BY DEF Idle, TypeOK, current
  <1>2. n \in Signal /\ n # NoSignal /\ n.status = "warmUp"
    BY <1>1, NewSignalType
  <1>3. nextId \in OwnIds /\ nextId \in Ids
    BY IdsFinite DEF CreateSignal, TypeOK, OwnIds
  <1>4. signals' = [signals EXCEPT ![nextId] = n] /\ nextId' = nextId + 1
    BY DEF CreateSignal
  <1>5. /\ StoreSignalInRedis(nextId, n) /\ AddToBulkPayload(nextId, "warmUp")
    BY DEF CreateSignal
  <1>6. TypeOK'
    <2>1. signals' \in [Ids -> SignalOrNone] /\ nextId' \in Nat \ {0}
      BY <1>2, <1>3, <1>4 DEF TypeOK, SignalOrNone
    <2>2. QED
      BY <2>1, <1>2, <1>3, <1>5, StoreFacts, BulkFacts DEF TypeOK, kafkaVars
  <1>7. Idle' /\ DownHoldsNothing'
    BY DEF Idle, DownHoldsNothing
  <1>8. Unused'
    <2> SUFFICES ASSUME NEW y \in OwnIds, y >= nextId'
                 PROVE  signals'[y] = NoSignal /\ saved'[y] = NoSignal /\ indexed'[y] = "none"
      BY DEF Unused
    <2>1. y \in Ids /\ y # nextId /\ y >= nextId /\ y \in Nat /\ nextId \in Nat
      BY <1>3, <1>4, IdsFinite DEF OwnIds
    <2>2. signals[y] = NoSignal /\ saved[y] = NoSignal /\ indexed[y] = "none"
      BY <2>1 DEF Unused
    <2>3. signals'[y] = signals[y]
      BY <1>4, <2>1 DEF TypeOK
    <2>4. saved'[y] = saved[y]
      BY <1>2, <1>3, <1>5, <2>1, StoreFacts
    <2>5. indexed'[y] = indexed[y]
      BY <1>3, <1>5, <2>1, BulkFacts
    <2>6. QED
      BY <2>2, <2>3, <2>4, <2>5
  <1>9. SavedNeverCooling'
    BY <1>2, <1>3, <1>5, StoreFacts DEF SavedNeverCooling, Loadable, TypeOK
  <1>10. QED
    BY <1>6, <1>7, <1>8, <1>9

LEMMA MatchOpenBase ==
    ASSUME BaseInv, NEW r \in Rules, MatchOpen(r)
    PROVE  BaseInv'
  <1>1. CASE FindActiveSignals(r, current) = {} /\ CreateSignal(r)
    BY <1>1, CreateSignalBase DEF MatchOpen
  <1>2. CASE UNCHANGED <<signals, nextId, storeVars, indexed>>
    BY <1>2 DEF MatchOpen, BaseInv, TypeOK, Idle, DownHoldsNothing, Unused,
                SavedNeverCooling, Live, Loadable, storeVars, kafkaVars, Matches
  <1>3. QED
    BY <1>1, <1>2 DEF MatchOpen

LEMMA MatchCloseBase ==
    ASSUME BaseInv, NEW r \in Rules, MatchClose(r)
    PROVE  BaseInv'
  <1> USE DEF BaseInv
  <1>1. CASE UNCHANGED <<signals, indexed>>
    BY <1>1 DEF MatchClose, TypeOK, Idle, DownHoldsNothing, Unused,
                SavedNeverCooling, Live, Loadable, storeVars, kafkaVars, Matches
  <1>2. ASSUME NEW x \in FindActiveSignals(r, current), CloseSignal(x)
        PROVE  BaseInv'
    <2>1. x \in Ids /\ signals[x] \in Signal
      BY DEF FindActiveSignals, Live, TypeOK, SignalOrNone
    <2>2. signals' = [signals EXCEPT ![x] = Entering(signals[x], "coolDown")]
      BY <1>2 DEF CloseSignal
    <2>3. Entering(signals[x], "coolDown") \in Signal
      BY <2>1, EnteringFacts
    <2>4. signals' \in [Ids -> SignalOrNone] /\ signals'[x] # NoSignal
      BY <2>1, <2>2, <2>3, NoSignalOK DEF TypeOK, SignalOrNone
    <2>5. AddToBulkPayload(x, "coolDown")
      BY <1>2 DEF CloseSignal
    <2>6. TypeOK'
      BY <2>1, <2>4, <2>5, BulkFacts DEF MatchClose, TypeOK, storeVars, kafkaVars, Matches
    <2>7. Idle' /\ DownHoldsNothing' /\ SavedNeverCooling'
      BY DEF MatchClose, Idle, DownHoldsNothing, SavedNeverCooling, Loadable, storeVars
    <2>8. x \in OwnIds => x < nextId
      BY <2>1, NoSignalOK DEF Unused, TypeOK, OwnIds
    <2>9. Unused'
      BY <2>1, <2>2, <2>5, <2>8, BulkFacts, IdsFinite
         DEF MatchClose, Unused, storeVars, TypeOK, OwnIds
    <2>10. QED
      BY <2>6, <2>7, <2>9
  <1>3. QED
    BY <1>1, <1>2 DEF MatchClose

LEMMA OpenSignalBase ==
    ASSUME BaseInv, NEW x \in Ids, OpenSignal(x)
    PROVE  BaseInv'
  <1> USE DEF BaseInv
  <1> DEFINE opened == Entering(signals[x], "open")
  <1>1. signals[x] \in Signal
    BY DEF OpenSignal, Live, TypeOK, SignalOrNone
  <1>2. opened \in Signal /\ opened # NoSignal /\ opened.status # "coolDown"
    BY <1>1, EnteringFacts
  <1>3. /\ signals' = [signals EXCEPT ![x] = opened]
        /\ StoreSignalInRedis(x, opened) /\ AddToBulkPayload(x, "open")
        /\ x \in Live /\ up
        /\ UNCHANGED <<kafkaVars, up, threadVars, nextId, rules, crashes, undeleted, theirs>>
    BY DEF OpenSignal, MonitorFrame
  <1> HIDE DEF opened
  <1>4. signals' \in [Ids -> SignalOrNone]
    BY <1>2, <1>3 DEF TypeOK, SignalOrNone
  <1>5. TypeOK'
    BY <1>2, <1>3, <1>4, StoreFacts, BulkFacts DEF TypeOK, kafkaVars, threadVars
  <1>6. Idle' /\ DownHoldsNothing'
    BY <1>3 DEF Idle, DownHoldsNothing, threadVars
  <1>7. x \in OwnIds => x < nextId
    BY <1>3 DEF Unused, TypeOK, OwnIds, Live
  <1>8. Unused'
    BY <1>2, <1>3, <1>7, StoreFacts, BulkFacts, IdsFinite DEF Unused, TypeOK, OwnIds
  <1>9. SavedNeverCooling'
    BY <1>2, <1>3, StoreFacts DEF SavedNeverCooling, Loadable, TypeOK
  <1>10. QED
    BY <1>5, <1>6, <1>8, <1>9

LEMMA RetireSignalBase ==
    ASSUME BaseInv, NEW x \in Ids, RetireSignal(x)
    PROVE  BaseInv'
  <1> USE DEF BaseInv
  <1>1. /\ signals' = [signals EXCEPT ![x] = NoSignal]
        /\ DeleteSignalFromRedis(x) /\ AddToBulkPayload(x, "closed")
        /\ x \in Live /\ up
        /\ UNCHANGED <<kafkaVars, up, threadVars, nextId, rules, crashes, theirs>>
    BY DEF RetireSignal, MonitorFrame
  <1>2. signals' \in [Ids -> SignalOrNone]
    BY <1>1 DEF TypeOK, SignalOrNone
  <1>3. TypeOK'
    BY <1>1, <1>2, DeleteFacts, BulkFacts DEF TypeOK, kafkaVars, threadVars
  <1>4. Idle' /\ DownHoldsNothing'
    BY <1>1 DEF Idle, DownHoldsNothing, threadVars
  <1>5. x \in OwnIds => x < nextId
    BY <1>1 DEF Unused, TypeOK, OwnIds, Live
  <1>6. Unused'
    BY <1>1, <1>5, DeleteFacts, BulkFacts, IdsFinite DEF Unused, TypeOK, OwnIds
  <1>7. SavedNeverCooling'
    BY <1>1, DeleteFacts DEF SavedNeverCooling, Loadable, TypeOK
  <1>8. QED
    BY <1>3, <1>4, <1>6, <1>7

LEMMA TickBase ==
    ASSUME BaseInv, Tick
    PROVE  BaseInv'
  <1> USE DEF BaseInv
  <1>1. \A x \in Ids : signals[x] \in SignalOrNone /\ saved[x] \in SignalOrNone
    BY DEF TypeOK
  <1>2. /\ signals' = [x \in Ids |-> Older(signals[x])]
        /\ saved' = [x \in Ids |-> Older(saved[x])]
        /\ UNCHANGED <<kafkaVars, up, threadVars, nextId, rules, redisUp, missed,
                       indexed, crashes, undeleted, theirs>>
    BY DEF Tick
  <1>3. \A x \in Ids :
          /\ signals'[x] \in SignalOrNone /\ saved'[x] \in SignalOrNone
          /\ signals'[x] = NoSignal <=> signals[x] = NoSignal
          /\ saved'[x] = NoSignal <=> saved[x] = NoSignal
          /\ saved[x] # NoSignal => saved'[x].status = saved[x].status
    BY <1>1, <1>2, OlderFacts
  <1>4. signals' \in [Ids -> SignalOrNone] /\ saved' \in [Ids -> SignalOrNone]
    BY <1>2, <1>3
  <1>5. TypeOK'
    BY <1>2, <1>4 DEF TypeOK, kafkaVars, threadVars
  <1>6. Live' = Live /\ Loadable' = Loadable
    BY <1>3 DEF Live, Loadable
  <1>7. Idle' /\ DownHoldsNothing'
    BY <1>2, <1>6 DEF Idle, DownHoldsNothing, threadVars
  <1>8. Unused' /\ SavedNeverCooling'
    BY <1>2, <1>3, <1>6, IdsFinite DEF Unused, SavedNeverCooling, Loadable
  <1>9. QED
    BY <1>5, <1>7, <1>8

LEMMA RestartBase ==
    ASSUME BaseInv, Restart
    PROVE  BaseInv'
  <1> USE DEF BaseInv
  <1>1. /\ ~up /\ up' = TRUE /\ position' = committed
        /\ redisUp' \in BOOLEAN /\ missed' \in BOOLEAN
        /\ UNCHANGED <<kafkaVars, pending, nextId, rules, saved, indexed, crashes, undeleted, theirs>>
    BY DEF Restart, LoadActiveSignalsFromRedis, LoadNothing, TypeOK
  <1>2. \/ \E loaded \in SUBSET Loadable : LoadActiveSignalsFromRedis(loaded)
        \/ LoadNothing
    BY DEF Restart
  <1>3. /\ signals' \in [Ids -> SignalOrNone]
        /\ \A x \in Ids : signals'[x] \in {saved[x], NoSignal}
    BY <1>2 DEF LoadActiveSignalsFromRedis, LoadNothing, TypeOK, SignalOrNone
  <1>4. TypeOK'
    BY <1>1, <1>3 DEF TypeOK, kafkaVars
  <1>5. Idle' /\ DownHoldsNothing'
    BY <1>1 DEF Idle, DownHoldsNothing
  <1>6. Unused' /\ SavedNeverCooling'
    BY <1>1, <1>3, IdsFinite DEF Unused, SavedNeverCooling, Loadable
  <1>7. QED
    BY <1>4, <1>5, <1>6

LEMMA EnteringTheirs ==
    ASSUME NEW x \in TrapIds, NEW status \in {"warmUp", "open"}
    PROVE  /\ Entering(TrapSignal[x], status) \in Signal
           /\ Entering(TrapSignal[x], status).status = status
  <1>1. TrapSignal[x] \in [device : Devices, rule : TrapRules, entities : SUBSET Tags]
    BY ConstantsOK
  <1>2. 0 \in 0..MaxAge
    BY ConstantsOK
  <1>3. QED
    BY <1>1, <1>2 DEF Entering, Aged, Signal

TrapStep(x) == TrapCreates(x) \/ TrapOpens(x) \/ TrapDrops(x)

\* The trap service touches records of its own only.
LEMMA TrapFacts ==
    ASSUME BaseInv, NEW x \in TrapIds, TrapStep(x)
    PROVE  /\ TrapFrame
           /\ theirs' \in [TrapIds -> {"none", "warmUp", "open", "gone"}]
           /\ saved' \in [Ids -> SignalOrNone]
           /\ \A y \in OwnIds : saved'[y] = saved[y]
           /\ \A y \in Ids : saved'[y] # NoSignal /\ saved'[y] # saved[y] => saved'[y].status # "coolDown"
  <1>1. x \in Ids /\ x \notin OwnIds /\ saved \in [Ids -> SignalOrNone]
    BY IdsFinite DEF BaseInv, TypeOK
  <1>2. theirs \in [TrapIds -> {"none", "warmUp", "open", "gone"}]
    BY DEF BaseInv, TypeOK
  <1>3. ASSUME NEW s \in SignalOrNone, s = NoSignal \/ s.status # "coolDown",
               saved' = [saved EXCEPT ![x] = s] \/ UNCHANGED saved
        PROVE  /\ saved' \in [Ids -> SignalOrNone]
               /\ \A y \in OwnIds : saved'[y] = saved[y]
               /\ \A y \in Ids : saved'[y] # NoSignal /\ saved'[y] # saved[y]
                                 => saved'[y].status # "coolDown"
    BY <1>1, <1>3, IdsFinite
  <1>4. ASSUME NEW from, NEW status \in {"warmUp", "open"}, TrapStores(x, from, status)
        PROVE  /\ theirs' \in [TrapIds -> {"none", "warmUp", "open", "gone"}]
               /\ TrapFrame
               /\ \E s \in SignalOrNone :
                     /\ s = NoSignal \/ s.status # "coolDown"
                     /\ saved' = [saved EXCEPT ![x] = s] \/ UNCHANGED saved
    <2>1. theirs' \in [TrapIds -> {"none", "warmUp", "open", "gone"}]
      BY <1>2, <1>4 DEF TrapStores
    <2>2. QED
      BY <2>1, <1>4, EnteringTheirs DEF TrapStores, SignalOrNone
  <1>5. CASE TrapDrops(x)
    BY <1>2, <1>3, <1>5 DEF TrapDrops, SignalOrNone
  <1>6. CASE TrapCreates(x) \/ TrapOpens(x)
    BY <1>3, <1>4, <1>6 DEF TrapCreates, TrapOpens
  <1>7. QED
    BY <1>5, <1>6 DEF TrapStep

LEMMA TrapBase ==
    ASSUME BaseInv, NEW x \in TrapIds, TrapStep(x)
    PROVE  BaseInv'
  <1> USE TrapFacts DEF BaseInv, TrapFrame
  <1>1. TypeOK'
    BY DEF TypeOK, kafkaVars, threadVars
  <1>2. Idle' /\ DownHoldsNothing' /\ Unused'
    BY DEF Idle, DownHoldsNothing, Unused, Live, threadVars
  <1>3. SavedNeverCooling'
    BY DEF SavedNeverCooling, Loadable
  <1>4. QED
    BY <1>1, <1>2, <1>3

LEMMA OtherStepsBase ==
    ASSUME BaseInv, Poll \/ Commit \/ LoadSignalRules \/ Crash \/ UNCHANGED vars
    PROVE  BaseInv'
  <1> USE DEF BaseInv
  <1>1. CASE Poll
    <2>1. position + 1 \in 1..MaxLog /\ log[position + 1] \in Messages
      BY <1>1, ConstantsOK DEF Poll, TypeOK
    <2>2. pending' \subseteq Matches
      BY <1>1, <2>1, MatchesType DEF Poll, TypeOK
    <2>3. QED
      BY <1>1, <2>1, <2>2 DEF Poll, TypeOK, Idle, DownHoldsNothing, Unused, Live, Loadable,
                         SavedNeverCooling, kafkaVars, storeVars
  <1>2. CASE Commit
    BY <1>2 DEF Commit, TypeOK, Idle, DownHoldsNothing, Unused, Live, Loadable,
                SavedNeverCooling, threadVars, storeVars
  <1>3. CASE LoadSignalRules
    BY <1>3 DEF LoadSignalRules, TypeOK, Idle, DownHoldsNothing, Unused, Live, Loadable,
                SavedNeverCooling, kafkaVars, threadVars, storeVars
  <1>4. CASE Crash
    <2>1. \A x \in Ids : signals'[x] = NoSignal
      BY <1>4 DEF Crash
    <2>2. crashes' \in Nat /\ signals' \in [Ids -> SignalOrNone]
      BY <1>4 DEF Crash, TypeOK, SignalOrNone
    <2>3. TypeOK'
      BY <1>4, <2>2 DEF Crash, TypeOK, kafkaVars
    <2>4. Idle' /\ DownHoldsNothing'
      BY <1>4, <2>1 DEF Crash, Idle, DownHoldsNothing, Live
    <2>5. Unused' /\ SavedNeverCooling'
      BY <1>4, <2>1, IdsFinite DEF Crash, Unused, SavedNeverCooling, Loadable
    <2>6. QED
      BY <2>3, <2>4, <2>5
  <1>5. CASE UNCHANGED vars
    BY <1>5 DEF vars, TypeOK, Idle, DownHoldsNothing, Unused, Live, Loadable,
                SavedNeverCooling, kafkaVars, threadVars, storeVars
  <1>6. QED
    BY <1>1, <1>2, <1>3, <1>4, <1>5

LEMMA InitBase == Init => BaseInv
  <1> SUFFICES ASSUME Init PROVE BaseInv
    OBVIOUS
  <1>1. 0 \in 0..MaxLog
    BY ConstantsOK
  <1>2. TypeOK
    <2>1. /\ log \in [1..MaxLog -> Messages] /\ committed \in 0..MaxLog
          /\ position \in 0..MaxLog /\ pending \subseteq Matches
          /\ nextId \in Nat \ {0} /\ rules \subseteq Rules
          /\ crashes \in Nat /\ undeleted \subseteq OwnIds
      BY <1>1 DEF Init
    <2>2. up \in BOOLEAN /\ redisUp \in BOOLEAN /\ missed \in BOOLEAN
      BY DEF Init
    <2>3. /\ signals \in [Ids -> SignalOrNone] /\ saved \in [Ids -> SignalOrNone]
          /\ indexed \in [OwnIds -> {"none", "warmUp", "open", "coolDown", "closed"}]
          /\ theirs \in [TrapIds -> {"none", "warmUp", "open", "gone"}]
      BY DEF Init, SignalOrNone
    <2>4. QED
      BY <2>1, <2>2, <2>3 DEF TypeOK
  <1>3. Live = {} /\ Loadable = {}
    BY DEF Init, Live, Loadable
  <1>4. Idle /\ DownHoldsNothing /\ Unused /\ SavedNeverCooling
    BY <1>3, IdsFinite DEF Init, Idle, DownHoldsNothing, Unused, SavedNeverCooling
  <1>5. QED
    BY <1>2, <1>4 DEF BaseInv

LEMMA NextBase == BaseInv /\ [Next]_vars => BaseInv'
  BY MatchOpenBase, MatchCloseBase, OpenSignalBase, RetireSignalBase, TickBase,
     RestartBase, TrapBase, OtherStepsBase DEF Next, TrapStep

\* No operation of the service, no failure of a store and no restart takes a
\* variable out of its type.
THEOREM TypeCorrect == Spec => []TypeOK
  <1>1. BaseInv => TypeOK
    BY DEF BaseInv
  <1>2. QED
    BY InitBase, NextBase, <1>1, PTL DEF Spec

-----------------------------------------------------------------------------
(* Each action preserves the agreement of the table with Redis.            *)

LEMMA LiveFinite == /\ IsFiniteSet(Live) /\ IsFiniteSet(OwnLive) /\ IsFiniteSet(OwnLoadable)
                    /\ Cardinality(Live) \in Nat /\ Cardinality(OwnLive) \in Nat
                    /\ Cardinality(OwnLoadable) \in Nat
                    /\ OwnLive \subseteq Live /\ Cardinality(OwnLive) <= Cardinality(Live)
  <1>1. Live \subseteq Ids /\ OwnLive \subseteq Live /\ OwnLoadable \subseteq Ids
    BY DEF Live, Loadable, OwnLive, OwnLoadable
  <1>2. IsFiniteSet(Live) /\ IsFiniteSet(OwnLive) /\ IsFiniteSet(OwnLoadable)
    BY <1>1, IdsFinite, FS_Subset
  <1>3. QED
    BY <1>1, <1>2, FS_Subset, FS_CardinalityType

\* What agreement with Redis gives for the signals that are live.
LEMMA MirrorFacts ==
    ASSUME StoreInv, Service = "syslogs", up, redisUp, ~missed
    PROVE  /\ OwnLoadable = OwnLive
           /\ \A x \in OwnLive : SameProblem(saved[x], signals[x])
  BY DEF StoreInv, RedisMirrors, SameProblem

\* A signal that MATCH_OPEN creates repeats no live one.
LEMMA NewIsAlone ==
    ASSUME BaseInv, NEW r \in Rules, FindActiveSignals(r, current) = {}, r \notin LongNamed
    PROVE  \A y \in OwnLive : ~SameProblem(signals[y], NewSignal(r, current))
  BY DEF FindActiveSignals, SameProblem, NewSignal, OwnLive

LEMMA CreateSignalStore ==
    ASSUME BaseInv, StoreInv, NEW r \in Rules, up, up' = up, pending # {},
           FindActiveSignals(r, current) = {}, CreateSignal(r)
    PROVE  StoreInv'
  <1> DEFINE n == NewSignal(r, current)
  <1>1. n \in Signal /\ n # NoSignal /\ n.status = "warmUp"
    BY NewSignalType DEF BaseInv, Idle, TypeOK, current
  <1>2. n.rule = r
    BY DEF NewSignal
  <1>3. /\ nextId \in OwnIds /\ nextId \in Ids /\ signals' = [signals EXCEPT ![nextId] = n]
        /\ StoreSignalInRedis(nextId, n) /\ Cardinality(Live) < MaxSignals
    BY IdsFinite DEF CreateSignal, BaseInv, TypeOK, OwnIds
  <1>4. r \notin LongNamed => \A y \in OwnLive : ~SameProblem(signals[y], n)
    BY NewIsAlone
  <1> HIDE DEF n
  <1>5. signals[nextId] = NoSignal /\ saved[nextId] = NoSignal
    BY <1>3 DEF BaseInv, Unused, TypeOK
  <1>6. /\ OwnLive' = OwnLive \cup {nextId} /\ nextId \notin OwnLive
        /\ Live' = Live \cup {nextId} /\ nextId \notin Live
        /\ signals'[nextId] = n /\ \A y \in OwnLive : signals'[y] = signals[y]
    BY <1>1, <1>3, <1>5 DEF BaseInv, TypeOK, OwnLive, Live
  <1>7. OwnLoadable' \in {OwnLoadable, OwnLoadable \cup {nextId}} /\ nextId \notin OwnLoadable
    BY <1>1, <1>3, <1>5, StoreFacts DEF OwnLoadable, Loadable
  <1>8. UniqueActive'
    BY <1>2, <1>4, <1>6, StoreFacts, <1>1, <1>3 DEF UniqueActive, StoreInv, SameProblem
  <1>9. RedisMirrors'
    <2>1. SUFFICES ASSUME Service = "syslogs", redisUp', ~missed'
                   PROVE  /\ OwnLoadable' = OwnLive'
                          /\ \A x \in OwnLive' :
                               IF signals'[x].status = "coolDown"
                               THEN SameProblem(saved'[x], signals'[x]) /\ saved'[x].status # "coolDown"
                               ELSE saved'[x] = signals'[x]
      BY DEF RedisMirrors, SameProblem
    <2>2. Service = "syslogs" /\ redisUp /\ ~missed /\ saved'[nextId] = n /\ \A y \in Ids : y # nextId => saved'[y] = saved[y]
      BY <2>1, <1>1, <1>3, StoreFacts
    <2>3. OwnLoadable' = OwnLoadable \cup {nextId} /\ OwnLoadable = OwnLive
      BY <2>2, <1>1, <1>3, MirrorFacts DEF OwnLoadable, Loadable
    <2>4. ASSUME NEW x \in OwnLive
          PROVE  IF signals'[x].status = "coolDown"
                 THEN SameProblem(saved'[x], signals'[x]) /\ saved'[x].status # "coolDown"
                 ELSE saved'[x] = signals'[x]
      BY <2>2, <1>6 DEF StoreInv, RedisMirrors, OwnLive, Live, SameProblem
    <2>5. QED
      BY <2>2, <2>3, <2>4, <1>1, <1>6
  <1>10. UniqueSaved'
    <2>1. SUFFICES ASSUME Service = "syslogs", ~missed',
                          NEW x \in OwnLoadable', NEW y \in OwnLoadable', x # y,
                          SameProblem(saved'[x], saved'[y])
                   PROVE  saved'[x].rule \in LongNamed
      BY DEF UniqueSaved, SameProblem
    <2>2. /\ ~missed /\ \A z \in Ids : z # nextId => saved'[z] = saved[z]
          /\ saved'[nextId] \in {n, saved[nextId]} /\ (~redisUp => saved' = saved)
      BY <2>1, <1>1, <1>3, StoreFacts
    <2>3. CASE x # nextId /\ y # nextId
      BY <2>1, <2>2, <2>3 DEF StoreInv, UniqueSaved, OwnLoadable, Loadable
    <2>4. CASE x = nextId \/ y = nextId
      <3>1. redisUp /\ saved'[nextId] = n
        BY <2>1, <2>2, <2>4, <1>5 DEF OwnLoadable, Loadable
      <3>2. PICK z \in OwnLoadable : SameProblem(saved[z], n) /\ saved'[x].rule = n.rule
        BY <2>1, <2>2, <2>4, <3>1 DEF OwnLoadable, Loadable, SameProblem
      <3>3. z \in OwnLive /\ SameProblem(signals[z], n)
        BY <2>1, <3>1, <3>2, <2>2, MirrorFacts DEF SameProblem
      <3>4. QED
        BY <3>2, <3>3, <1>2, <1>4
    <2>5. QED
      BY <2>3, <2>4
  <1>11. Fits'
    <2>1. Cardinality(Live') = Cardinality(Live) + 1
      BY <1>6, LiveFinite, FS_AddElement
    <2>2. ASSUME Service = "syslogs", ~missed'
          PROVE  Cardinality(OwnLoadable') <= MaxSignals
      <3>1. ~missed /\ (~redisUp => saved' = saved)
        BY <2>2, <1>1, <1>3, StoreFacts
      <3>2. CASE ~redisUp
        BY <2>2, <3>1, <3>2 DEF OwnLoadable, Loadable, StoreInv, Fits
      <3>3. CASE redisUp
        <4>1. Cardinality(OwnLoadable) < MaxSignals
          <5>1. OwnLoadable = OwnLive
            BY <2>2, <3>1, <3>3, MirrorFacts
          <5>2. QED
            BY <5>1, <1>3, LiveFinite, ConstantsOK
        <4>2. Cardinality(OwnLoadable') \in {Cardinality(OwnLoadable), Cardinality(OwnLoadable) + 1}
          BY <1>7, LiveFinite, FS_AddElement
        <4>3. QED
          BY <4>1, <4>2, LiveFinite, ConstantsOK
      <3>4. QED
        BY <3>2, <3>3
    <2>3. QED
      BY <2>1, <2>2, <1>3, LiveFinite, ConstantsOK DEF Fits
  <1>12. QED
    BY <1>8, <1>9, <1>10, <1>11 DEF StoreInv

LEMMA CloseSignalStore ==
    ASSUME BaseInv, StoreInv, NEW x \in Live, up, up' = up, CloseSignal(x), UNCHANGED storeVars
    PROVE  StoreInv'
  <1> DEFINE cooling == Entering(signals[x], "coolDown")
  <1>1. signals[x] \in Signal /\ x \in Ids
    BY DEF OwnLive, Live, BaseInv, TypeOK, SignalOrNone
  <1>2. /\ signals' = [signals EXCEPT ![x] = cooling]
        /\ cooling # NoSignal /\ SameProblem(cooling, signals[x])
        /\ cooling.status = "coolDown" /\ cooling.rule = signals[x].rule
    BY <1>1, EnteringFacts DEF CloseSignal
  <1> HIDE DEF cooling
  <1>3. Live' = Live /\ OwnLive' = OwnLive /\ OwnLoadable' = OwnLoadable
    BY <1>1, <1>2 DEF OwnLive, Live, OwnLoadable, Loadable, BaseInv, TypeOK, storeVars
  <1>4. \A y \in OwnLive : /\ SameProblem(signals'[y], signals[y])
                           /\ signals'[y].rule = signals[y].rule
                           /\ y # x => signals'[y] = signals[y]
    BY <1>1, <1>2 DEF OwnLive, Live, BaseInv, TypeOK, SameProblem
  <1>5. UniqueActive'
    BY <1>3, <1>4 DEF StoreInv, UniqueActive, SameProblem, storeVars
  <1>6. UniqueSaved' /\ Fits'
    BY <1>3 DEF StoreInv, UniqueSaved, Fits, SameProblem, storeVars
  <1>7. RedisMirrors'
    <2>1. SUFFICES ASSUME Service = "syslogs", redisUp, ~missed, NEW y \in OwnLive
                   PROVE  IF signals'[y].status = "coolDown"
                          THEN SameProblem(saved[y], signals'[y]) /\ saved[y].status # "coolDown"
                          ELSE saved[y] = signals'[y]
      BY <1>3, MirrorFacts DEF RedisMirrors, SameProblem, storeVars
    <2>2. CASE y = x
      BY <2>1, <2>2, <1>1, <1>2, <1>4, MirrorFacts
         DEF SameProblem, BaseInv, TypeOK, SavedNeverCooling, OwnLoadable
    <2>3. CASE y # x
      BY <2>1, <2>3, <1>4 DEF StoreInv, RedisMirrors, SameProblem
    <2>4. QED
      BY <2>2, <2>3
  <1>8. QED
    BY <1>5, <1>6, <1>7 DEF StoreInv

LEMMA OpenSignalStore ==
    ASSUME BaseInv, StoreInv, NEW x \in Ids, OpenSignal(x)
    PROVE  StoreInv'
  <1> DEFINE opened == Entering(signals[x], "open")
  <1>1. signals[x] \in Signal /\ x \in Live /\ up /\ up'
    BY DEF OpenSignal, MonitorFrame, Live, BaseInv, TypeOK, SignalOrNone
  <1>2. /\ signals' = [signals EXCEPT ![x] = opened]
        /\ StoreSignalInRedis(x, opened)
        /\ opened \in Signal /\ opened # NoSignal /\ SameProblem(opened, signals[x])
        /\ opened.status = "open" /\ opened.rule = signals[x].rule
    BY <1>1, EnteringFacts DEF OpenSignal
  <1> HIDE DEF opened
  <1>3. Live' = Live /\ OwnLive' = OwnLive
    BY <1>1, <1>2 DEF OwnLive, Live, BaseInv, TypeOK
  <1>4. \A y \in OwnLive : /\ SameProblem(signals'[y], signals[y])
                           /\ signals'[y].rule = signals[y].rule
                           /\ y # x => signals'[y] = signals[y]
    BY <1>1, <1>2 DEF OwnLive, Live, BaseInv, TypeOK, SameProblem
  <1>5. UniqueActive'
    BY <1>2, <1>3, <1>4, StoreFacts DEF StoreInv, UniqueActive, SameProblem
  <1>6. ASSUME Service = "syslogs", ~missed'
        PROVE  /\ ~missed /\ OwnLoadable' = OwnLoadable
               /\ \A y \in OwnLoadable : /\ SameProblem(saved'[y], saved[y])
                                         /\ saved'[y].rule = saved[y].rule
    <2>1. /\ ~missed /\ \A y \in Ids : y # x => saved'[y] = saved[y]
          /\ saved'[x] = saved[x] \/ saved'[x] = opened
          /\ ~redisUp => saved' = saved
      BY <1>2, <1>6, StoreFacts
    <2>2. CASE saved'[x] = saved[x]
      BY <2>1, <2>2 DEF OwnLoadable, Loadable, SameProblem
    <2>3. CASE saved'[x] = opened /\ redisUp
      <3>1. OwnLoadable = OwnLive /\ \A y \in OwnLive : SameProblem(saved[y], signals[y])
        BY <2>1, <2>3, <1>1, <1>6, MirrorFacts
      <3>2. x \in OwnIds => x \in OwnLoadable /\ SameProblem(saved'[x], saved[x])
        BY <3>1, <2>3, <1>1, <1>2 DEF OwnLive, SameProblem
      <3>3. OwnLoadable' = OwnLoadable
        BY <2>1, <2>3, <1>2, <3>2 DEF OwnLoadable, Loadable
      <3>4. QED
        BY <2>1, <3>2, <3>3 DEF OwnLoadable, Loadable, SameProblem
    <2>4. QED
      BY <2>1, <2>2, <2>3
  <1>7. UniqueSaved'
    BY <1>6 DEF StoreInv, UniqueSaved, SameProblem
  <1>8. Fits'
    BY <1>3, <1>6 DEF StoreInv, Fits
  <1>9. RedisMirrors'
    <2>1. SUFFICES ASSUME Service = "syslogs", redisUp', ~missed', NEW y \in OwnLive
                   PROVE  IF signals'[y].status = "coolDown"
                          THEN SameProblem(saved'[y], signals'[y]) /\ saved'[y].status # "coolDown"
                          ELSE saved'[y] = signals'[y]
      <3>1. Service = "syslogs" /\ redisUp' /\ ~missed' => OwnLoadable' = OwnLive'
        BY <1>1, <1>2, <1>3, <1>6, StoreFacts, MirrorFacts
      <3>2. QED
        BY <3>1, <1>3 DEF RedisMirrors, SameProblem
    <2>2. /\ redisUp /\ ~missed /\ saved'[x] = opened
          /\ \A z \in Ids : z # x => saved'[z] = saved[z]
      BY <2>1, <1>2, StoreFacts
    <2>3. CASE y = x
      BY <2>2, <2>3, <1>2 DEF BaseInv, TypeOK
    <2>4. CASE y # x
      BY <2>1, <2>2, <2>4, <1>1, <1>4 DEF StoreInv, RedisMirrors, SameProblem, OwnLive, Live
    <2>5. QED
      BY <2>3, <2>4
  <1>10. QED
    BY <1>5, <1>7, <1>8, <1>9 DEF StoreInv

LEMMA RetireSignalStore ==
    ASSUME BaseInv, StoreInv, NEW x \in Ids, RetireSignal(x)
    PROVE  StoreInv'
  <1>1. /\ signals' = [signals EXCEPT ![x] = NoSignal]
        /\ DeleteSignalFromRedis(x) /\ up /\ up'
    BY DEF RetireSignal, MonitorFrame
  <1>2. /\ Live' = Live \ {x} /\ OwnLive' = OwnLive \ {x}
        /\ \A y \in OwnLive' : signals'[y] = signals[y]
    BY <1>1 DEF OwnLive, Live, BaseInv, TypeOK
  <1>3. /\ OwnLoadable' \subseteq OwnLoadable /\ OwnLoadable \ {x} \subseteq OwnLoadable'
        /\ \A y \in OwnLoadable' : saved'[y] = saved[y]
        /\ ~missed' => ~missed
        /\ ~missed' /\ redisUp' => redisUp /\ x \notin OwnLoadable'
    BY <1>1, DeleteFacts DEF OwnLoadable, Loadable
  <1>4. UniqueActive' /\ UniqueSaved'
    BY <1>2, <1>3 DEF StoreInv, UniqueActive, UniqueSaved, SameProblem
  <1>5. Fits'
    <2>1. Cardinality(Live') <= Cardinality(Live) /\ Cardinality(Live') \in Nat
      BY <1>2, LiveFinite, FS_Subset, FS_CardinalityType
    <2>2. Cardinality(OwnLoadable') <= Cardinality(OwnLoadable) /\ Cardinality(OwnLoadable') \in Nat
      BY <1>3, LiveFinite, FS_Subset, FS_CardinalityType
    <2>3. QED
      BY <2>1, <2>2, <1>3, LiveFinite, ConstantsOK DEF StoreInv, Fits
  <1>6. RedisMirrors'
    <2>1. ASSUME Service = "syslogs", redisUp', ~missed'
          PROVE  redisUp /\ ~missed /\ OwnLoadable' = OwnLive'
      BY <2>1, <1>1, <1>2, <1>3, MirrorFacts
    <2>2. QED
      BY <2>1, <1>1, <1>2, <1>3 DEF StoreInv, RedisMirrors, SameProblem
  <1>7. QED
    BY <1>4, <1>5, <1>6 DEF StoreInv

LEMMA TickStore ==
    ASSUME BaseInv, StoreInv, Tick
    PROVE  StoreInv'
  <1>1. /\ signals' = [x \in Ids |-> Older(signals[x])]
        /\ saved' = [x \in Ids |-> Older(saved[x])]
        /\ up' = up /\ redisUp' = redisUp /\ missed' = missed
    BY DEF Tick
  <1>2. /\ \A x \in Ids : signals[x] \in SignalOrNone /\ saved[x] \in SignalOrNone
        /\ Live \subseteq Ids /\ OwnLive \subseteq Ids /\ OwnLoadable \subseteq Ids
    BY DEF BaseInv, TypeOK, OwnLive, Live, OwnLoadable, Loadable
  <1>3. Live' = Live /\ OwnLive' = OwnLive /\ OwnLoadable' = OwnLoadable
    BY <1>1, <1>2, OlderFacts DEF OwnLive, Live, OwnLoadable, Loadable
  <1>4. /\ \A x \in OwnLive : /\ SameProblem(signals'[x], signals[x])
                              /\ signals'[x].status = signals[x].status
                              /\ signals'[x].rule = signals[x].rule
        /\ \A x \in OwnLoadable : /\ SameProblem(saved'[x], saved[x])
                                  /\ saved'[x].status = saved[x].status
                                  /\ saved'[x].rule = saved[x].rule
    BY <1>1, <1>2, OlderFacts DEF OwnLive, Live, OwnLoadable, Loadable
  <1>5. UniqueActive' /\ UniqueSaved' /\ Fits'
    <2>1. UniqueActive'
      <3>1. SUFFICES ASSUME ~missed, NEW x \in OwnLive, NEW y \in OwnLive, x # y,
                            SameProblem(signals'[x], signals'[y])
                     PROVE  signals'[x].rule \in LongNamed
        BY <1>1, <1>3 DEF UniqueActive
      <3>2. SameProblem(signals[x], signals[y])
        BY <3>1, <1>4 DEF SameProblem
      <3>3. QED
        BY <3>1, <3>2, <1>4 DEF StoreInv, UniqueActive
    <2>2. UniqueSaved'
      <3>1. SUFFICES ASSUME Service = "syslogs", ~missed,
                            NEW x \in OwnLoadable, NEW y \in OwnLoadable, x # y,
                            SameProblem(saved'[x], saved'[y])
                     PROVE  saved'[x].rule \in LongNamed
        BY <1>1, <1>3 DEF UniqueSaved
      <3>2. SameProblem(saved[x], saved[y])
        BY <3>1, <1>4 DEF SameProblem
      <3>3. QED
        BY <3>1, <3>2, <1>4 DEF StoreInv, UniqueSaved
    <2>3. Fits'
      BY <1>1, <1>3 DEF StoreInv, Fits
    <2>4. QED
      BY <2>1, <2>2, <2>3
  <1>6. RedisMirrors'
    <2>1. SUFFICES ASSUME Service = "syslogs", up, redisUp, ~missed, NEW x \in OwnLive
                   PROVE  IF signals'[x].status = "coolDown"
                          THEN SameProblem(saved'[x], signals'[x]) /\ saved'[x].status # "coolDown"
                          ELSE saved'[x] = signals'[x]
      BY <1>1, <1>3, MirrorFacts DEF RedisMirrors, SameProblem
    <2>2. CASE signals[x].status = "coolDown"
      BY <2>1, <2>2, <1>4, MirrorFacts DEF BaseInv, SavedNeverCooling, SameProblem, OwnLoadable
    <2>3. CASE signals[x].status # "coolDown"
      BY <2>1, <2>3, <1>1, <1>2, <1>4 DEF StoreInv, RedisMirrors
    <2>4. QED
      BY <2>2, <2>3
  <1>7. QED
    BY <1>5, <1>6 DEF StoreInv

LEMMA SameStore ==
    ASSUME StoreInv, UNCHANGED <<up, signals, storeVars>>
    PROVE  StoreInv'
  <1>1. Live' = Live /\ OwnLive' = OwnLive /\ OwnLoadable' = OwnLoadable
    BY DEF Live, OwnLive, OwnLoadable, Loadable, storeVars
  <1>2. QED
    BY <1>1 DEF StoreInv, RedisMirrors, UniqueActive, UniqueSaved, Fits, SameProblem, storeVars

\* The trap service starts with an empty table.
LEMMA EmptyStore ==
    ASSUME StoreInv, Live' = {}, Service = "traps" \/ (~up' /\ UNCHANGED <<saved, missed>>)
    PROVE  StoreInv'
  <1>1. OwnLive' = {}
    BY DEF OwnLive
  <1>2. Service = "syslogs" => OwnLoadable' = OwnLoadable /\ saved' = saved /\ missed' = missed /\ ~up'
    BY DEF OwnLoadable, Loadable
  <1>3. Cardinality(Live') <= MaxSignals
    BY FS_EmptySet, ConstantsOK
  <1>4. UniqueActive' /\ UniqueSaved'
    BY <1>1, <1>2 DEF StoreInv, UniqueActive, UniqueSaved, SameProblem
  <1>5. RedisMirrors' /\ Fits'
    BY <1>2, <1>3 DEF StoreInv, RedisMirrors, Fits
  <1>6. QED
    BY <1>4, <1>5 DEF StoreInv

LEMMA LoadStore ==
    ASSUME BaseInv, StoreInv, Restart, Service = "syslogs",
           NEW loaded \in SUBSET Loadable, LoadActiveSignalsFromRedis(loaded)
    PROVE  StoreInv'
  <1>1. saved' = saved /\ (~missed' => ~missed)
    BY DEF Restart, LoadActiveSignalsFromRedis, BaseInv, TypeOK
  <1>2. saved' = saved /\ OwnLoadable' = OwnLoadable /\ (~missed' => ~missed)
    BY <1>1 DEF OwnLoadable, Loadable
  <1>3. UniqueSaved' /\ (~missed' => Cardinality(OwnLoadable') <= MaxSignals)
    BY <1>2 DEF StoreInv, UniqueSaved, Fits, SameProblem
  <1>4. /\ Live' = loaded /\ OwnLive' = loaded \cap OwnIds
        /\ \A x \in loaded : signals'[x] = saved[x]
    BY DEF LoadActiveSignalsFromRedis, OwnLive, Live, Loadable
  <1>5. Fits'
    BY <1>3, <1>4 DEF LoadActiveSignalsFromRedis, Fits
  <1>6. UniqueActive'
    BY <1>2, <1>4 DEF UniqueActive, StoreInv, UniqueSaved, SameProblem, OwnLoadable
  <1>7. ASSUME redisUp', ~missed'
        PROVE  loaded \cap OwnIds = OwnLoadable
    <2>1. CASE loaded = Loadable
      BY <2>1 DEF OwnLoadable
    <2>2. CASE Cardinality(loaded) = MaxSignals /\ Loadable \cap TrapIds = {}
      <3>1. Loadable = OwnLoadable
        BY <2>2 DEF OwnLoadable, Loadable, Ids
      <3>2. Cardinality(OwnLoadable) <= MaxSignals
        BY <1>2, <1>3, <1>7
      <3>3. Cardinality(loaded) <= Cardinality(OwnLoadable)
        BY <3>1, LiveFinite, FS_Subset
      <3>4. Cardinality(loaded) = Cardinality(OwnLoadable)
        BY <2>2, <3>2, <3>3, LiveFinite, ConstantsOK
      <3>5. loaded = OwnLoadable
        BY <3>1, <3>4, LiveFinite, FS_Subset
      <3>6. QED
        BY <3>5 DEF OwnLoadable
    <2>3. QED
      BY <1>7, <2>1, <2>2 DEF LoadActiveSignalsFromRedis
  <1>8. RedisMirrors'
    <2>1. redisUp' /\ ~missed' =>
             OwnLoadable' = OwnLive' /\ \A x \in OwnLive' : signals'[x] = saved'[x] /\ saved'[x].status # "coolDown"
      BY <1>2, <1>4, <1>7 DEF BaseInv, SavedNeverCooling
    <2>2. QED
      BY <2>1 DEF RedisMirrors, SameProblem
  <1>9. QED
    BY <1>3, <1>5, <1>6, <1>8 DEF StoreInv

LEMMA RestartStore ==
    ASSUME BaseInv, StoreInv, Restart
    PROVE  StoreInv'
  <1>1. CASE Service = "traps" /\ LoadNothing
    <2>1. Live' = {}
      BY <1>1 DEF LoadNothing, Live
    <2>2. QED
      BY <1>1, <2>1, EmptyStore
  <1>2. QED
    BY <1>1, LoadStore DEF Restart

\* What the trap service writes are no records of this service.
LEMMA TrapStore ==
    ASSUME BaseInv, StoreInv, NEW x \in TrapIds, TrapStep(x)
    PROVE  StoreInv'
  <1>1. /\ UNCHANGED <<up, signals, redisUp, missed>>
        /\ \A y \in OwnIds : saved'[y] = saved[y]
    BY TrapFacts DEF TrapFrame
  <1>2. Live' = Live /\ OwnLive' = OwnLive /\ OwnLoadable' = OwnLoadable
    BY <1>1 DEF Live, OwnLive, OwnLoadable, Loadable
  <1>3. /\ OwnLive \subseteq OwnIds /\ OwnLoadable \subseteq OwnIds
    BY DEF OwnLive, OwnLoadable
  <1>4. UniqueActive' /\ Fits'
    BY <1>1, <1>2 DEF StoreInv, UniqueActive, Fits, SameProblem
  <1>5. UniqueSaved' /\ RedisMirrors'
    BY <1>1, <1>2, <1>3 DEF StoreInv, UniqueSaved, RedisMirrors, SameProblem
  <1>6. QED
    BY <1>4, <1>5 DEF StoreInv

LEMMA OtherStepsStore ==
    ASSUME BaseInv, StoreInv,
           Poll \/ Commit \/ LoadSignalRules \/ Crash \/ UNCHANGED vars
    PROVE  StoreInv'
  <1>1. CASE Crash
    <2>1. Live' = {} /\ ~up' /\ UNCHANGED <<saved, missed>>
      BY <1>1 DEF Crash, Live
    <2>2. QED
      BY <2>1, EmptyStore
  <1>2. CASE Poll \/ Commit \/ LoadSignalRules \/ UNCHANGED vars
    <2>1. UNCHANGED <<up, signals, storeVars>>
      BY <1>2 DEF Poll, Commit, LoadSignalRules, vars
    <2>2. QED
      BY <2>1, SameStore
  <1>3. QED
    BY <1>1, <1>2

LEMMA MatchStore ==
    ASSUME BaseInv, StoreInv, NEW r \in Rules, MatchOpen(r) \/ MatchClose(r)
    PROVE  StoreInv'
  <1>1. CASE UNCHANGED <<up, signals, storeVars>>
    BY <1>1, SameStore
  <1>2. CASE MatchOpen(r) /\ FindActiveSignals(r, current) = {} /\ CreateSignal(r)
    BY <1>2, CreateSignalStore DEF MatchOpen
  <1>3. ASSUME NEW x \in FindActiveSignals(r, current), CloseSignal(x), MatchClose(r)
        PROVE  StoreInv'
    BY <1>3, CloseSignalStore DEF MatchClose, FindActiveSignals
  <1>4. QED
    BY <1>1, <1>2, <1>3 DEF MatchOpen, MatchClose

LEMMA InitStore == Init => StoreInv
  <1> SUFFICES ASSUME Init PROVE StoreInv
    OBVIOUS
  <1>1. Live = {} /\ OwnLive = {} /\ OwnLoadable = {}
    BY IdsFinite DEF Init, Live, OwnLive, OwnLoadable, Loadable
  <1>2. QED
    BY <1>1, FS_EmptySet, ConstantsOK DEF StoreInv, RedisMirrors, UniqueActive, UniqueSaved, Fits

LEMMA NextStore == BaseInv /\ StoreInv /\ [Next]_vars => StoreInv'
  BY MatchStore, OpenSignalStore, RetireSignalStore, TickStore, RestartStore,
     TrapStore, OtherStepsStore DEF Next, TrapStep

\* However messages, crashes, restarts, lost connections and what the trap
\* service writes interleave, one problem has one live signal that this service
\* created (process.c:104-124), unless Redis refused a command, an adopted signal
\* took the place of one at a restart, or the rule's name is too long.
THEOREM OneSignalPerProblem == Spec => []UniqueActive
  <1>1. StoreInv => UniqueActive
    BY DEF StoreInv
  <1>2. QED
    BY InitBase, NextBase, InitStore, NextStore, <1>1, PTL DEF Spec

\* While the connection to Redis works, what a restart of the syslog service would
\* load of its own signals is what the table holds of them (redis.c:30-181),
\* coolDown excepted, whatever the trap service does in the same Redis.
THEOREM RedisAgrees == Spec => []RedisMirrors
  <1>1. StoreInv => RedisMirrors
    BY DEF StoreInv
  <1>2. QED
    BY InitBase, NextBase, InitStore, NextStore, <1>1, PTL DEF Spec

-----------------------------------------------------------------------------
(* A closed signal stays closed.                                           *)

LEMMA MonitorClosed ==
    ASSUME BaseInv, ClosedIsGone, NEW x \in Ids, OpenSignal(x) \/ RetireSignal(x)
    PROVE  ClosedIsGone'
  <1>1. CASE OpenSignal(x)
    <2>1. signals[x] \in Signal /\ signals[x] # NoSignal
      BY <1>1 DEF OpenSignal, Live, BaseInv, TypeOK, SignalOrNone
    <2>2. PICK s \in Signal : /\ s.status # "coolDown" /\ StoreSignalInRedis(x, s)
                              /\ signals' = [signals EXCEPT ![x] = s]
      BY <1>1, <2>1, EnteringFacts DEF OpenSignal
    <2>3. AddToBulkPayload(x, "open") /\ undeleted' = undeleted
      BY <1>1 DEF OpenSignal
    <2>4. QED
      BY <2>1, <2>2, <2>3, StoreFacts, BulkFacts, IdsFinite DEF ClosedIsGone, BaseInv, TypeOK
  <1>2. CASE RetireSignal(x)
    <2>1. /\ signals' = [signals EXCEPT ![x] = NoSignal]
          /\ DeleteSignalFromRedis(x) /\ AddToBulkPayload(x, "closed")
      BY <1>2 DEF RetireSignal
    <2>2. QED
      BY <2>1, DeleteFacts, BulkFacts, IdsFinite DEF ClosedIsGone, BaseInv, TypeOK
  <1>3. QED
    BY <1>1, <1>2

LEMMA MatchClosed ==
    ASSUME BaseInv, ClosedIsGone, NEW r \in Rules, MatchOpen(r) \/ MatchClose(r)
    PROVE  ClosedIsGone'
  <1>1. CASE UNCHANGED <<signals, saved, indexed, undeleted, theirs>>
    BY <1>1 DEF ClosedIsGone
  <1>2. CASE MatchOpen(r) /\ CreateSignal(r)
    <2>1. NewSignal(r, current) \in Signal /\ NewSignal(r, current).status = "warmUp"
      BY <1>2, NewSignalType DEF MatchOpen, BaseInv, Idle, TypeOK, current
    <2>2. /\ nextId \in OwnIds /\ nextId \in Ids /\ indexed[nextId] = "none" /\ undeleted' = undeleted
          /\ signals' = [signals EXCEPT ![nextId] = NewSignal(r, current)]
          /\ StoreSignalInRedis(nextId, NewSignal(r, current))
          /\ AddToBulkPayload(nextId, "warmUp")
      BY <1>2, IdsFinite DEF MatchOpen, CreateSignal, BaseInv, TypeOK, Unused, OwnIds
    <2>3. QED
      BY <2>1, <2>2, StoreFacts, BulkFacts, IdsFinite DEF ClosedIsGone, BaseInv, TypeOK
  <1>3. ASSUME NEW x \in FindActiveSignals(r, current), CloseSignal(x), MatchClose(r)
        PROVE  ClosedIsGone'
    <2>1. /\ x \in Ids /\ signals[x] # NoSignal
          /\ signals' = [signals EXCEPT ![x] = Entering(signals[x], "coolDown")]
          /\ AddToBulkPayload(x, "coolDown") /\ UNCHANGED <<saved, undeleted, theirs>>
      BY <1>3 DEF CloseSignal, FindActiveSignals, Live, MatchClose, storeVars
    <2>2. QED
      BY <2>1, BulkFacts, IdsFinite DEF ClosedIsGone, BaseInv, TypeOK
  <1>4. QED
    BY <1>1, <1>2, <1>3 DEF MatchOpen, MatchClose, storeVars

LEMMA OtherStepsClosed ==
    ASSUME BaseInv, ClosedIsGone,
           Poll \/ Commit \/ LoadSignalRules \/ Tick \/ Crash \/ Restart \/ UNCHANGED vars
    PROVE  ClosedIsGone'
  <1>1. CASE Tick
    <2>1. \A x \in Ids : /\ saved'[x] = NoSignal <=> saved[x] = NoSignal
                         /\ signals'[x] = NoSignal <=> signals[x] = NoSignal
      BY <1>1, OlderFacts DEF Tick, BaseInv, TypeOK
    <2>2. QED
      BY <1>1, <2>1, IdsFinite DEF Tick, ClosedIsGone
  <1>2. CASE Crash
    BY <1>2, IdsFinite DEF Crash, ClosedIsGone
  <1>3. CASE Restart
    <2>1. \A x \in Ids : signals'[x] \in {saved[x], NoSignal}
      BY <1>3 DEF Restart, LoadActiveSignalsFromRedis, LoadNothing
    <2>2. QED
      BY <1>3, <2>1, IdsFinite DEF Restart, ClosedIsGone
  <1>4. CASE Poll \/ Commit \/ LoadSignalRules \/ UNCHANGED vars
    BY <1>4 DEF Poll, Commit, LoadSignalRules, vars, storeVars, ClosedIsGone
  <1>5. QED
    BY <1>1, <1>2, <1>3, <1>4

LEMMA TrapClosed ==
    ASSUME BaseInv, ClosedIsGone, NEW x \in TrapIds, TrapStep(x)
    PROVE  ClosedIsGone'
  BY TrapFacts DEF TrapFrame, ClosedIsGone

LEMMA NextClosed == BaseInv /\ ClosedIsGone /\ [Next]_vars => ClosedIsGone'
  BY MonitorClosed, MatchClosed, TrapClosed, OtherStepsClosed DEF Next, TrapStep

\* A signal of this service reported closed is live again only if its two deletes in Redis
\* were both lost (activeSignals.c:72, redis.c:155-181).
THEOREM ClosedStaysClosed == Spec => []NoResurrection
  <1>1. Init => ClosedIsGone
    BY DEF Init, ClosedIsGone
  <1>2. ClosedIsGone => NoResurrection
    BY DEF ClosedIsGone, NoResurrection, OwnLive, Live
  <1>3. QED
    BY InitBase, NextBase, NextClosed, <1>1, <1>2, PTL DEF Spec

-----------------------------------------------------------------------------
(* The table implements the life cycle.                                    *)

LEMMA StateFacts ==
    ASSUME BaseInv, NEW x \in Ids
    PROVE  /\ x \in Live => StateOf(x) = signals[x].status /\ StateOf(x) \in Lifecycle!Live
           /\ x \notin Live => StateOf(x) \in {"none", "away"}
           /\ x \notin Live => (StateOf(x) = "away" <=> x \in TrapIds \/ x < nextId)
           /\ x \in OwnIds /\ x >= nextId => StateOf(x) = "none"
           /\ x \in Loadable \cup Live => x \in TrapIds \/ x < nextId
  <1>1. signals[x] \in SignalOrNone /\ nextId \in Nat
    BY DEF BaseInv, TypeOK
  <1>2. x \in OwnIds /\ x >= nextId => x \notin Live /\ x \notin Loadable /\ x \notin TrapIds
    BY IdsFinite DEF BaseInv, Unused, Live, Loadable
  <1>3. x \in OwnIds \/ x \in TrapIds
    BY DEF Ids
  <1>4. x \in Live => signals[x].status \in {"warmUp", "open", "coolDown"}
    BY <1>1 DEF Live, SignalOrNone, Signal
  <1>5. x \in Nat
    BY IdsFinite
  <1>6. x \in TrapIds \/ x < nextId \/ x >= nextId
    BY <1>1, <1>5
  <1>7. x \in Loadable \cup Live => x \in TrapIds \/ x < nextId
    BY <1>2, <1>3, <1>6
  <1>8. x >= nextId => ~(x < nextId)
    BY <1>1, <1>5
  <1>9. QED
    BY <1>2, <1>3, <1>4, <1>7, <1>8 DEF StateOf, Live, Lifecycle!Live

\* A step that changes the state of one signal is a move of the life cycle.
LEMMA MoveOne ==
    ASSUME NEW x \in Ids, NEW from, NEW to, StateOf(x) \in from, StateOf(x)' = to,
           \A y \in Ids : y # x => StateOf(y)' = StateOf(y)
    PROVE  Lifecycle!Move(x, from, to)
  BY DEF Lifecycle!Move

LEMMA Stutter ==
    ASSUME UNCHANGED <<signals, nextId>>
    PROVE  UNCHANGED [x \in Ids |-> StateOf(x)]
  BY DEF StateOf

LEMMA CreateSignalMoves ==
    ASSUME BaseInv, NEW r \in Rules, NEW x, x = nextId, MatchOpen(r), CreateSignal(r)
    PROVE  x \in Ids /\ Lifecycle!Raise(x)
  <1>1. NewSignal(r, current) # NoSignal /\ NewSignal(r, current).status = "warmUp"
    BY NewSignalType DEF MatchOpen, BaseInv, Idle, TypeOK, current
  <1>2. /\ x \in OwnIds /\ x \in Ids /\ x \notin TrapIds /\ nextId' = x + 1
        /\ signals' = [signals EXCEPT ![x] = NewSignal(r, current)]
    BY IdsFinite DEF CreateSignal, BaseInv, TypeOK, OwnIds
  <1>3. StateOf(x) = "none"
    BY <1>2, StateFacts DEF BaseInv, TypeOK
  <1>4. StateOf(x)' = "warmUp"
    BY <1>1, <1>2 DEF BaseInv, TypeOK, StateOf
  <1>5. \A y \in Ids : y # x => StateOf(y)' = StateOf(y)
    BY <1>2, IdsFinite DEF BaseInv, TypeOK, StateOf
  <1>6. Lifecycle!Move(x, {"none"}, "warmUp")
    BY <1>2, <1>3, <1>4, <1>5, MoveOne
  <1>7. QED
    BY <1>2, <1>6 DEF Lifecycle!Raise

LEMMA StatusMoves ==
    ASSUME BaseInv, NEW x \in Live, NEW status \in {"open", "coolDown"},
           signals' = [signals EXCEPT ![x] = Entering(signals[x], status)],
           nextId' = nextId, NEW from, signals[x].status \in from
    PROVE  Lifecycle!Move(x, from, status)
  <1>1. x \in Ids /\ signals[x] \in Signal
    BY DEF Live, BaseInv, TypeOK, SignalOrNone
  <1>2. Entering(signals[x], status) # NoSignal /\ Entering(signals[x], status).status = status
    BY <1>1, EnteringFacts
  <1>3. StateOf(x) \in from /\ StateOf(x)' = status
    BY <1>1, <1>2 DEF StateOf, Live, BaseInv, TypeOK
  <1>4. \A y \in Ids : y # x => StateOf(y)' = StateOf(y)
    BY DEF BaseInv, TypeOK, StateOf
  <1>5. QED
    BY <1>1, <1>3, <1>4, MoveOne

LEMMA MatchCloseMoves ==
    ASSUME BaseInv, NEW r \in Rules, MatchClose(r), NEW x \in FindActiveSignals(r, current),
           CloseSignal(x)
    PROVE  Lifecycle!Clear(x) /\ x \in Ids
  <1>1. x \in Live /\ x \in Ids /\ nextId' = nextId
    BY DEF FindActiveSignals, MatchClose, Live
  <1>2. signals' = [signals EXCEPT ![x] = Entering(signals[x], "coolDown")]
    BY DEF CloseSignal
  <1>3. signals[x].status \in Lifecycle!Live
    BY <1>1, StateFacts
  <1>4. QED
    BY <1>1, <1>2, <1>3, StatusMoves DEF Lifecycle!Clear

LEMMA OpenSignalMoves ==
    ASSUME BaseInv, NEW x \in Ids, OpenSignal(x)
    PROVE  Lifecycle!Confirm(x)
  <1>1. /\ x \in Live /\ signals[x].status \in {"warmUp"} /\ nextId' = nextId
        /\ signals' = [signals EXCEPT ![x] = Entering(signals[x], "open")]
    BY DEF OpenSignal, MonitorFrame
  <1>2. QED
    BY <1>1, StatusMoves DEF Lifecycle!Confirm

LEMMA RetireSignalMoves ==
    ASSUME BaseInv, NEW x \in Ids, RetireSignal(x)
    PROVE  Lifecycle!Retire(x)
  <1>1. /\ x \in Live /\ signals[x].status = "coolDown" /\ nextId' = nextId
        /\ signals' = [signals EXCEPT ![x] = NoSignal]
    BY DEF RetireSignal, MonitorFrame
  <1>2. (x \in TrapIds \/ x < nextId) /\ StateOf(x) \in {"coolDown"}
    BY <1>1, StateFacts
  <1>3. StateOf(x)' = "away"
    BY <1>1, <1>2 DEF StateOf, BaseInv, TypeOK
  <1>4. \A y \in Ids : y # x => StateOf(y)' = StateOf(y)
    BY <1>1 DEF BaseInv, TypeOK, StateOf
  <1>5. QED
    BY <1>2, <1>3, <1>4, MoveOne DEF Lifecycle!Retire

LEMMA TickStutters ==
    ASSUME BaseInv, Tick
    PROVE  UNCHANGED [x \in Ids |-> StateOf(x)]
  <1>1. \A x \in Ids : /\ signals'[x] = NoSignal <=> signals[x] = NoSignal
                       /\ signals[x] # NoSignal => signals'[x].status = signals[x].status
    BY OlderFacts DEF Tick, BaseInv, TypeOK
  <1>2. nextId' = nextId
    BY DEF Tick
  <1>3. QED
    BY <1>1, <1>2 DEF StateOf

LEMMA CrashMoves ==
    ASSUME BaseInv, Crash
    PROVE  Lifecycle!Outage
  <1>1. \A x \in Ids : StateOf(x)' = IF x \in TrapIds \/ x < nextId THEN "away" ELSE "none"
    BY DEF Crash, StateOf
  <1>2. \A x \in Ids : StateOf(x)' = IF StateOf(x) \in Lifecycle!Live THEN "away" ELSE StateOf(x)
    <2>1. TAKE x \in Ids
    <2>2. CASE x \in Live
      BY <2>2, <1>1, StateFacts
    <2>3. CASE x \notin Live
      BY <2>3, <1>1, StateFacts DEF Lifecycle!Live
    <2>4. QED
      BY <2>2, <2>3
  <1>3. QED
    BY <1>2 DEF Lifecycle!Outage

LEMMA RestartMoves ==
    ASSUME BaseInv, Restart
    PROVE  Lifecycle!Recover
  <1>pick. PICK loaded \in SUBSET Loadable :
              signals' = [x \in Ids |-> IF x \in loaded THEN saved[x] ELSE NoSignal]
    <2>1. CASE LoadNothing
      <3>1. signals' = [x \in Ids |-> IF x \in {} THEN saved[x] ELSE NoSignal]
        BY <2>1 DEF LoadNothing
      <3>2. {} \in SUBSET Loadable
        OBVIOUS
      <3>3. QED
        BY <3>1, <3>2
    <2>2. QED
      BY <2>1 DEF Restart, LoadActiveSignalsFromRedis
  <1>1. Live = {} /\ loaded \subseteq Ids /\ nextId' = nextId
    BY DEF Restart, BaseInv, DownHoldsNothing, Loadable
  <1>2. \A x \in Ids : StateOf(x) \in {"none", "away"}
    BY <1>1, StateFacts
  <1>3. \A x \in loaded : /\ StateOf(x) = "away"
                         /\ saved[x] # NoSignal /\ saved[x].status \in {"warmUp", "open"}
    <2>1. TAKE x \in loaded
    <2>2. StateOf(x) = "away"
      BY <1>1, StateFacts
    <2>3. saved[x] \in Signal /\ saved[x] # NoSignal /\ saved[x].status # "coolDown"
      BY DEF Loadable, BaseInv, TypeOK, SavedNeverCooling, SignalOrNone
    <2>4. QED
      BY <2>2, <2>3 DEF Signal
  <1>4. \A x \in Ids : StateOf(x)' = IF x \in loaded THEN saved[x].status ELSE StateOf(x)
    BY <1>pick, <1>1, <1>3 DEF StateOf, Live
  <1>5. loaded \in SUBSET {x \in Ids : StateOf(x) = "away"}
    BY <1>1, <1>3
  <1> DEFINE as == [x \in loaded |-> saved[x].status]
  <1>6. as \in [loaded -> {"warmUp", "open"}]
    BY <1>3
  <1>7. [x \in Ids |-> StateOf(x)]' = [x \in Ids |-> IF x \in loaded THEN as[x] ELSE StateOf(x)]
    BY <1>4
  <1> HIDE DEF as
  <1>8. \E f \in [loaded -> {"warmUp", "open"}] :
           [x \in Ids |-> StateOf(x)]' = [x \in Ids |-> IF x \in loaded THEN f[x] ELSE StateOf(x)]
    BY <1>6, <1>7
  <1>9. \E back \in SUBSET {x \in Ids : StateOf(x) = "away"} :
           \E f \in [back -> {"warmUp", "open"}] :
              [x \in Ids |-> StateOf(x)]' = [x \in Ids |-> IF x \in back THEN f[x] ELSE StateOf(x)]
    BY <1>5, <1>8
  <1>10. QED
    BY <1>2, <1>9 DEF Lifecycle!Recover, Lifecycle!Live

LEMMA NextMoves == BaseInv /\ [Next]_vars => [Lifecycle!Next]_([x \in Ids |-> StateOf(x)])
  <1> SUFFICES ASSUME BaseInv, [Next]_vars
               PROVE  Lifecycle!Next \/ UNCHANGED [x \in Ids |-> StateOf(x)]
    OBVIOUS
  <1>1. CASE UNCHANGED <<signals, nextId>>
    BY <1>1, Stutter
  <1>2. ASSUME NEW r \in Rules, MatchOpen(r), CreateSignal(r)
        PROVE  Lifecycle!Next
    BY <1>2, CreateSignalMoves DEF Lifecycle!Next
  <1>3. ASSUME NEW r \in Rules, MatchClose(r),
               NEW x \in FindActiveSignals(r, current), CloseSignal(x)
        PROVE  Lifecycle!Next
    BY <1>3, MatchCloseMoves DEF Lifecycle!Next
  <1>4. ASSUME NEW x \in Ids, OpenSignal(x) \/ RetireSignal(x)
        PROVE  Lifecycle!Next
    BY <1>4, OpenSignalMoves, RetireSignalMoves DEF Lifecycle!Next
  <1>5. CASE Tick
    BY <1>5, TickStutters
  <1>6. CASE Crash
    BY <1>6, CrashMoves DEF Lifecycle!Next
  <1>7. CASE Restart
    BY <1>7, RestartMoves DEF Lifecycle!Next
  <1>8. ASSUME NEW r \in Rules, MatchOpen(r) \/ MatchClose(r)
        PROVE  Lifecycle!Next \/ UNCHANGED [x \in Ids |-> StateOf(x)]
    BY <1>1, <1>2, <1>3, <1>8 DEF MatchOpen, MatchClose
  <1>9. CASE Poll \/ Commit \/ LoadSignalRules \/ UNCHANGED vars
    BY <1>1, <1>9 DEF Poll, Commit, LoadSignalRules, vars
  <1>10. ASSUME NEW x \in TrapIds, TrapStep(x)
         PROVE  UNCHANGED [y \in Ids |-> StateOf(y)]
    BY <1>10, Stutter, TrapFacts DEF TrapFrame
  <1>11. QED
    BY <1>4, <1>5, <1>6, <1>7, <1>8, <1>9, <1>10 DEF Next, TrapStep

\* Every behaviour of the service moves each signal along the edges of the life
\* cycle only (activeSignals.c:51-101, 432-464; redis.c:30-96), an adopted one from
\* the restart that brings it in.
THEOREM TableImplementsLifecycle == Spec => ImplementsLifecycle
  <1>1. Init => Lifecycle!Init
    <2> SUFFICES ASSUME Init
                 PROVE  \A x \in Ids : StateOf(x) = IF x \in TrapIds THEN "away" ELSE "none"
      BY DEF Lifecycle!Init
    <2>1. \A x \in Ids : ~(x < nextId) /\ signals[x] = NoSignal
      BY IdsFinite DEF Init
    <2>2. QED
      BY <2>1 DEF StateOf
  <1>2. QED
    BY InitBase, NextBase, NextMoves, <1>1, PTL DEF Spec, ImplementsLifecycle, Lifecycle!Spec
=============================================================================
