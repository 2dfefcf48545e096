-------------------------- MODULE SignalThreadsProofs --------------------------
(***************************************************************************)
(* What SignalThreads promises, for any size of the table, any problems    *)
(* and any number of messages: as long as no conflicting windows have      *)
(* overlapped, the two threads keep the table as a lock would.             *)
(***************************************************************************)
EXTENDS SignalThreads, TLAPS

\* The counts and indices of the two threads, whatever they do to each other:
\* only the Kafka thread raises the count, and only the monitor lowers it.
CountInv ==
    /\ kafka = "load" => count < MaxSignals
    /\ kafka = "store" => loaded["kafka"] < MaxSignals /\ count <= loaded["kafka"]
    /\ kafka = "write" => j < MaxSignals
    /\ monitor \in {"open", "close", "drop", "shift", "load", "store"} => i < count
    /\ monitor = "shift" => i <= k /\ k < count
    /\ monitor = "store" => i < loaded["monitor"] /\ loaded["monitor"] <= count
    /\ monitor = "sweep" => k <= i /\ i <= count

ConflictInv == Conflicting => conflict

Alive == {"warmUp", "open", "coolDown"}

\* A signal that was created and not retired; the Kafka thread is still counting
\* the last one it created.
Member(n) ==
    /\ n \in 1..(nextId - 1) /\ n \notin retired
    /\ ~(kafka \in {"load", "store"} /\ n = nextId - 1)

\* The table holds the signals created and not retired, each in one slot, at a stage
\* of its life, and one per problem.
LiveInv ==
    /\ \A s \in Slots : Live(s) =>
          /\ Member(signals[s].id)
          /\ signals[s].problem # NoProblem /\ signals[s].status \in Alive
          /\ \A t \in Slots : Live(t) =>
                /\ signals[s].id = signals[t].id => s = t
                /\ signals[s].problem = signals[t].problem => s = t
    /\ \A n \in 1..MaxIds : Member(n) => \E s \in Slots : Live(s) /\ signals[s].id = n
    /\ retired \subseteq 1..(nextId - 1) /\ cooled \subseteq 1..(nextId - 1)

\* The signal being closed is still in its slot, and its entities too.
DropInv ==
    monitor = "drop" => signals[i].id \in retired /\ signals[i].problem # NoProblem

\* What the Kafka thread has seen of the table is still so.
LookupInv ==
    /\ kafka = "scan" => j <= count /\ \A s \in Slots : s < j => signals[s].problem # problem
    /\ kafka = "create" => \A s \in Slots : Live(s) => signals[s].problem # problem
    /\ kafka \in {"find", "write"} => matched < count /\ signals[matched].id = closing
    /\ kafka = "write" => j < count /\ signals[j].id = closing

\* The signal created is behind the last one.
NewInv ==
    kafka \in {"load", "store"} =>
        /\ count < MaxSignals /\ (kafka = "store" => loaded["kafka"] = count)
        /\ signals[count].id = nextId - 1 /\ nextId > 1 /\ nextId - 1 \notin cooled \cup retired
        /\ signals[count].problem = problem /\ signals[count].status = "warmUp"
        /\ \A s \in Slots : Live(s) => signals[s].problem # problem

MonitorInv ==
    /\ monitor = "open" => signals[i].status = "warmUp"
    /\ monitor = "close" => signals[i].status = "coolDown"
    /\ monitor = "store" => loaded["monitor"] = count
    /\ monitor = "sweep" => k = i

CooledInv ==
    \A s \in Slots : s < count /\ signals[s].id \in cooled => signals[s].status \in {"coolDown", "closed"}

\* All this is so as long as no conflicting windows have overlapped.
Peace == LiveInv /\ DropInv /\ LookupInv /\ NewInv /\ MonitorInv /\ CooledInv /\ ~missed

IInv == TypeOK /\ CountInv /\ ConflictInv /\ (~conflict => Peace)

-----------------------------------------------------------------------------
(* Types, counts and indices.                                              *)

\* A flag that is raised by a condition.
LEMMA Raised ==
    ASSUME NEW flag, NEW old, NEW condition, flag = (old \/ condition)
    PROVE  flag \in BOOLEAN /\ (~flag => ~old /\ ~condition) /\ (condition => flag)
  <1>1. (old \/ condition) \in BOOLEAN
    OBVIOUS
  <1>2. flag \in BOOLEAN
    BY <1>1, Zenon
  <1>3. ASSUME ~flag PROVE ~old /\ ~condition
    BY <1>3, Zenon
  <1>4. ASSUME condition PROVE flag
    BY <1>4, Zenon
  <1>5. QED
    BY <1>2, <1>3, <1>4

LEMMA WatchFacts ==
    ASSUME Watch
    PROVE  /\ conflict' \in BOOLEAN /\ ConflictInv'
           /\ ~conflict' => ~conflict /\ ~Conflicting'
  <1>1. conflict' = (conflict \/ Conflicting')
    BY DEF Watch
  <1>2. (conflict \/ Conflicting') \in BOOLEAN
    OBVIOUS
  <1>3. conflict' \in BOOLEAN
    BY <1>1, <1>2, Zenon
  <1>4. ASSUME ~conflict' PROVE ~conflict /\ ~Conflicting'
    BY <1>1, <1>4, Zenon
  <1>5. ASSUME Conflicting' PROVE conflict'
    BY <1>1, <1>5, Zenon
  <1>6. QED
    BY <1>3, <1>4, <1>5 DEF ConflictInv

LEMMA SlotFacts ==
    ASSUME NEW s \in 0..MaxSignals, s < MaxSignals
    PROVE  s \in Slots
  BY ConstantsOK DEF Slots

\* TypeOK but for the two flags of the history.
Types ==
    /\ signals \in [Slots -> ActiveSignal] /\ count \in 0..MaxSignals
    /\ nextId \in 1..(MaxIds + 1)
    /\ kafka \in {"idle", "scan", "create", "load", "store", "find", "write"}
    /\ kind \in Kinds /\ problem \in Problems
    /\ j \in 0..MaxSignals /\ matched \in Slots
    /\ monitor \in {"asleep", "visit", "open", "close", "drop", "shift", "load", "store", "sweep"}
    /\ i \in 0..MaxSignals /\ k \in 0..MaxSignals
    /\ loaded \in [{"kafka", "monitor"} -> 0..MaxSignals]
    /\ messages \in 0..MaxMessages /\ closing \in 0..MaxIds
    /\ cooled \subseteq 0..MaxIds /\ retired \subseteq 0..MaxIds

LEMMA TypeParts == TypeOK <=> Types /\ missed \in BOOLEAN /\ conflict \in BOOLEAN
  BY DEF TypeOK, Types

LEMMA SignalFacts ==
    ASSUME Types, NEW s \in Slots
    PROVE  /\ signals[s] \in ActiveSignal /\ signals[s].id \in 0..MaxIds
           /\ signals[s].problem \in Problems \cup {NoProblem}
           /\ signals[s].status \in {"none", "warmUp", "open", "coolDown", "closed"}
  BY DEF Types, ActiveSignal

KafkaKept == UNCHANGED <<nextId, kafka, kind, problem, j, matched, messages, closing, cooled, missed>>
MonitorKept == UNCHANGED <<monitor, i, k, retired>>

LEMMA KafkaTypes ==
    ASSUME Types, CountInv,
           (\E m \in Kinds, p \in Problems : Receive(m, p)) \/ Scan \/ ScanEnds \/ Create \/ CountUpLoad
             \/ CountUpStore \/ Find \/ Write
    PROVE  Types' /\ CountInv'
  <1> USE ConstantsOK DEF kafkaFrame, monitorVars
  <1>1. ASSUME NEW m \in Kinds, NEW p \in Problems, Receive(m, p) PROVE Types' /\ CountInv'
    <2>1. Types'
      BY <1>1 DEF Receive, Types
    <2>2. CountInv'
      BY <1>1 DEF Receive, CountInv
    <2>3. QED
      BY <2>1, <2>2
  <1>2. CASE Scan
    <2>1. j < count /\ j \in Slots /\ j + 1 \in 0..MaxSignals
      BY <1>2, SlotFacts DEF Scan, Types
    <2>2. kafka' \in {"idle", "scan", "find"}
      BY <1>2 DEF Scan
    <2>3. Types'
      BY <1>2, <2>1, <2>2, SignalFacts DEF Scan, Types
    <2>4. CountInv'
      BY <1>2, <2>2 DEF Scan, CountInv
    <2>5. QED
      BY <2>3, <2>4
  <1>3. CASE ScanEnds
    <2>1. kafka' \in {"create", "idle"}
      BY <1>3 DEF ScanEnds
    <2>2. Types'
      BY <1>3, <2>1 DEF ScanEnds, Types
    <2>3. CountInv'
      BY <1>3, <2>1 DEF ScanEnds, CountInv
    <2>4. QED
      BY <2>2, <2>3
  <1>4. CASE Create
    <2>1. CASE HasRoom /\ nextId <= MaxIds /\ kafka' = "load"
      <3>1. /\ signals' = [signals EXCEPT ![count] =
                  [id |-> nextId, problem |-> problem, status |-> "warmUp"]]
            /\ nextId' = nextId + 1 /\ count < MaxSignals
        BY <1>4, <2>1 DEF Create, HasRoom
      <3>2. [id |-> nextId, problem |-> problem, status |-> "warmUp"] \in ActiveSignal
        BY <2>1 DEF Types, ActiveSignal
      <3>7. count \in Slots
        BY <3>1, SlotFacts DEF Types
      <3>8. signals' \in [Slots -> ActiveSignal]
        BY <3>1, <3>2, <3>7 DEF Types
      <3>9. nextId' \in 1..(MaxIds + 1)
        BY <2>1, <3>1 DEF Types
      <3>3. signals' \in [Slots -> ActiveSignal] /\ nextId' \in 1..(MaxIds + 1)
        BY <3>8, <3>9
      <3>4. Types'
        BY <1>4, <2>1, <3>3 DEF Create, Types
      <3>5. CountInv'
        BY <1>4, <2>1, <3>1 DEF Create, CountInv
      <3>6. QED
        BY <3>4, <3>5
    <2>2. CASE kafka' = "idle" /\ UNCHANGED <<signals, nextId>>
      <3>1. Types'
        BY <1>4, <2>2 DEF Create, Types
      <3>2. CountInv'
        BY <1>4, <2>2 DEF Create, CountInv
      <3>3. QED
        BY <3>1, <3>2
    <2>3. QED
      BY <1>4, <2>1, <2>2 DEF Create
  <1>5. CASE CountUpLoad
    <2>1. loaded' \in [{"kafka", "monitor"} -> 0..MaxSignals] /\ loaded'["kafka"] = count
          /\ loaded'["monitor"] = loaded["monitor"]
      BY <1>5 DEF CountUpLoad, Types
    <2>2. Types'
      BY <1>5, <2>1 DEF CountUpLoad, Types
    <2>3. CountInv'
      BY <1>5, <2>1 DEF CountUpLoad, CountInv, Types
    <2>4. QED
      BY <2>2, <2>3
  <1>6. CASE CountUpStore
    <2>1. loaded["kafka"] \in 0..MaxSignals /\ loaded["monitor"] \in 0..MaxSignals /\ count \in 0..MaxSignals
      BY DEF Types
    <2>2. count' = loaded["kafka"] + 1 /\ count' \in 0..MaxSignals /\ count < count'
      BY <1>6, <2>1 DEF CountUpStore, CountInv
    <2>3. Types'
      BY <1>6, <2>2 DEF CountUpStore, Types
    <2>4. i \in Nat /\ k \in Nat
      BY DEF Types
    <2>5. CountInv'
      BY <1>6, <2>1, <2>2, <2>4 DEF CountUpStore, CountInv
    <2>6. QED
      BY <2>3, <2>5
  <1>7. CASE Find
    <2>1. kafka' \in {"find", "write", "idle"} /\ j' \in 0..MaxSignals
      BY <1>7 DEF Find, Types
    <2>2. Types'
      BY <1>7, <2>1 DEF Find, Types
    <2>3. CountInv'
      BY <1>7, <2>1 DEF Find, CountInv, Types
    <2>4. QED
      BY <2>2, <2>3
  <1>8. CASE Write
    <2>1. j \in Slots
      BY <1>8, SlotFacts DEF Write, CountInv, Types
    <2>2. [signals[j] EXCEPT !.status = "coolDown"] \in ActiveSignal
      BY <2>1, SignalFacts DEF ActiveSignal
    <2>3. signals' = [signals EXCEPT ![j] = [signals[j] EXCEPT !.status = "coolDown"]]
      BY <1>8, <2>1 DEF Write, Types
    <2>4. signals' \in [Slots -> ActiveSignal]
      BY <2>1, <2>2, <2>3 DEF Types
    <2>5. Types'
      BY <1>8, <2>1, <2>4, SignalFacts DEF Write, Types
    <2>6. CountInv'
      BY <1>8 DEF Write, CountInv
    <2>7. QED
      BY <2>5, <2>6
  <1>9. QED
    BY <1>1, <1>2, <1>3, <1>4, <1>5, <1>6, <1>7, <1>8

\* Two lemmas on an element of the array that is replaced.
LEMMA StatusSet ==
    ASSUME Types, NEW s \in Slots, NEW x \in {"none", "warmUp", "open", "coolDown", "closed"},
           signals' = [signals EXCEPT ![s].status = x]
    PROVE  /\ signals' \in [Slots -> ActiveSignal]
           /\ \A t \in Slots : /\ signals'[t].id = signals[t].id
                               /\ signals'[t].problem = signals[t].problem
                               /\ signals'[t].status = IF t = s THEN x ELSE signals[t].status
  <1>1. signals' = [signals EXCEPT ![s] = [signals[s] EXCEPT !.status = x]]
    BY DEF Types
  <1>2. [signals[s] EXCEPT !.status = x] \in ActiveSignal
    BY SignalFacts DEF ActiveSignal
  <1>3. signals' \in [Slots -> ActiveSignal]
    BY <1>1, <1>2 DEF Types
  <1>4. ASSUME NEW t \in Slots
        PROVE  /\ signals'[t].id = signals[t].id
               /\ signals'[t].problem = signals[t].problem
               /\ signals'[t].status = IF t = s THEN x ELSE signals[t].status
    <2>1. signals[s] \in ActiveSignal /\ signals[t] \in ActiveSignal
      BY SignalFacts
    <2>2. CASE t = s
      BY <1>1, <2>1, <2>2 DEF Types, ActiveSignal
    <2>3. CASE t # s
      BY <1>1, <2>1, <2>3 DEF Types, ActiveSignal
    <2>4. QED
      BY <2>2, <2>3
  <1>5. QED
    BY <1>3, <1>4

LEMMA EntitiesDropped ==
    ASSUME Types, NEW s \in Slots, signals' = [signals EXCEPT ![s].problem = NoProblem]
    PROVE  /\ signals' \in [Slots -> ActiveSignal]
           /\ \A t \in Slots : /\ signals'[t].id = signals[t].id
                               /\ signals'[t].status = signals[t].status
                               /\ signals'[t].problem = IF t = s THEN NoProblem ELSE signals[t].problem
  <1>1. signals' = [signals EXCEPT ![s] = [signals[s] EXCEPT !.problem = NoProblem]]
    BY DEF Types
  <1>2. [signals[s] EXCEPT !.problem = NoProblem] \in ActiveSignal
    BY SignalFacts DEF ActiveSignal
  <1>3. signals' \in [Slots -> ActiveSignal]
    BY <1>1, <1>2 DEF Types
  <1>4. ASSUME NEW t \in Slots
        PROVE  /\ signals'[t].id = signals[t].id
               /\ signals'[t].status = signals[t].status
               /\ signals'[t].problem = IF t = s THEN NoProblem ELSE signals[t].problem
    <2>1. signals[s] \in ActiveSignal /\ signals[t] \in ActiveSignal
      BY SignalFacts
    <2>2. CASE t = s
      BY <1>1, <2>1, <2>2 DEF Types, ActiveSignal
    <2>3. CASE t # s
      BY <1>1, <2>1, <2>3 DEF Types, ActiveSignal
    <2>4. QED
      BY <2>2, <2>3
  <1>5. QED
    BY <1>3, <1>4

LEMMA MonitorTypes ==
    ASSUME Types, CountInv,
           Wake \/ Visit \/ Open \/ Close \/ DropEntities \/ Shift \/ CountDownLoad \/ CountDownStore
             \/ VisitsEnd \/ Sweep \/ SweepEnds
    PROVE  Types' /\ CountInv'
  <1> USE ConstantsOK DEF monitorFrame, kafkaVars
  <1>n. i \in Nat /\ k \in Nat /\ count \in Nat /\ MaxSignals \in Nat
        /\ loaded["kafka"] \in 0..MaxSignals /\ loaded["monitor"] \in 0..MaxSignals
    BY DEF Types
  <1>s. i < count => i \in Slots
    BY <1>n, SlotFacts DEF Types
  <1>1. CASE Wake
    <2>1. Types'
      BY <1>1 DEF Wake, Types
    <2>2. CountInv'
      BY <1>1 DEF Wake, CountInv
    <2>3. QED
      BY <2>1, <2>2
  <1>2. CASE Visit
    <2>1. /\ monitor' \in {"open", "close", "visit"} /\ i' \in 0..MaxSignals
          /\ monitor' \in {"open", "close"} => i' < count
      BY <1>2 DEF Visit, Types
    <2>2. Types'
      BY <1>2, <2>1 DEF Visit, Types
    <2>3. CountInv'
      BY <1>2, <2>1 DEF Visit, CountInv
    <2>4. QED
      BY <2>2, <2>3
  <1>3. CASE Open
    <2>1. i < count /\ i \in Slots
      BY <1>3, <1>s DEF Open, CountInv
    <2>2. signals' \in [Slots -> ActiveSignal]
      BY <1>3, <2>1, StatusSet DEF Open
    <2>3. Types'
      BY <1>3, <2>1, <2>2 DEF Open, Types
    <2>4. CountInv'
      BY <1>3 DEF Open, CountInv
    <2>5. QED
      BY <2>3, <2>4
  <1>4. CASE Close
    <2>1. i < count /\ i \in Slots
      BY <1>4, <1>s DEF Close, CountInv
    <2>2. signals' \in [Slots -> ActiveSignal]
      BY <1>4, <2>1, StatusSet DEF Close
    <2>3. Types'
      BY <1>4, <2>1, <2>2, SignalFacts DEF Close, Types
    <2>4. CountInv'
      BY <1>4, <2>1 DEF Close, CountInv
    <2>5. QED
      BY <2>3, <2>4
  <1>5. CASE DropEntities
    <2>1. i < count /\ i \in Slots
      BY <1>5, <1>s DEF DropEntities, CountInv
    <2>2. signals' \in [Slots -> ActiveSignal]
      BY <1>5, <2>1, EntitiesDropped DEF DropEntities
    <2>3. Types'
      BY <1>5, <2>1, <2>2 DEF DropEntities, Types
    <2>4. CountInv'
      BY <1>5, <1>n, <2>1 DEF DropEntities, CountInv
    <2>5. QED
      BY <2>3, <2>4
  <1>6. CASE Shift
    <2>1. i <= k /\ k < count /\ i < count
      BY <1>6, <1>n DEF Shift, CountInv
    <2>2. CASE MoreToShift /\ signals' = [signals EXCEPT ![k] = signals[k + 1]] /\ k' = k + 1 /\ monitor' = monitor
      <3>1. k + 1 < count
        BY <2>2 DEF MoreToShift
      <3>2. k \in Slots /\ k + 1 \in Slots
        BY <1>n, <2>1, <3>1, SlotFacts DEF Types
      <3>3. signals' \in [Slots -> ActiveSignal]
        BY <2>2, <3>2 DEF Types
      <3>4. Types'
        BY <1>6, <1>n, <2>2, <3>1, <3>3 DEF Shift, Types
      <3>5. CountInv'
        BY <1>6, <1>n, <2>1, <2>2, <3>1 DEF Shift, CountInv
      <3>6. QED
        BY <3>4, <3>5
    <2>3. CASE monitor' = "load" /\ UNCHANGED <<signals, k>>
      <3>1. Types'
        BY <1>6, <2>3 DEF Shift, Types
      <3>2. CountInv'
        BY <1>6, <2>1, <2>3 DEF Shift, CountInv
      <3>3. QED
        BY <3>1, <3>2
    <2>4. QED
      BY <1>6, <2>2, <2>3 DEF Shift
  <1>7. CASE CountDownLoad
    <2>1. loaded' \in [{"kafka", "monitor"} -> 0..MaxSignals] /\ loaded'["monitor"] = count
          /\ loaded'["kafka"] = loaded["kafka"]
      BY <1>7 DEF CountDownLoad, Types
    <2>2. Types'
      BY <1>7, <2>1 DEF CountDownLoad, Types
    <2>3. CountInv'
      BY <1>7, <1>n, <2>1 DEF CountDownLoad, CountInv
    <2>4. QED
      BY <2>2, <2>3
  <1>8. CASE CountDownStore
    <2>1. count' = loaded["monitor"] - 1 /\ i < loaded["monitor"] /\ loaded["monitor"] <= count
      BY <1>8 DEF CountDownStore, CountInv
    <2>2. count' \in 0..MaxSignals /\ count' < count
      BY <1>n, <2>1 DEF Types
    <2>3. Types'
      BY <1>8, <2>2 DEF CountDownStore, Types
    <2>4. CountInv'
      BY <1>8, <1>n, <2>2 DEF CountDownStore, CountInv, Types
    <2>5. QED
      BY <2>3, <2>4
  <1>9. CASE VisitsEnd
    <2>1. Types'
      BY <1>9 DEF VisitsEnd, Types
    <2>2. CountInv'
      BY <1>9, <1>n DEF VisitsEnd, CountInv
    <2>3. QED
      BY <2>1, <2>2
  <1>10. CASE Sweep
    <2>1. i < count /\ i \in Slots /\ k <= i /\ k \in Slots
      BY <1>10, <1>n, <1>s, SlotFacts DEF Sweep, CountInv, Types
    <2>2. Zeroed \in ActiveSignal
      BY DEF Zeroed, ActiveSignal
    <2>3. signals' \in [Slots -> ActiveSignal]
      BY <1>10, <2>1, <2>2 DEF Sweep, Types
    <2>4. k' \in 0..MaxSignals /\ i' \in 0..MaxSignals /\ k' <= i' /\ i' <= count
      BY <1>10, <1>n, <2>1 DEF Sweep, Types
    <2>5. Types'
      BY <1>10, <2>3, <2>4 DEF Sweep, Types
    <2>6. CountInv'
      BY <1>10, <2>4 DEF Sweep, CountInv
    <2>7. QED
      BY <2>5, <2>6
  <1>11. CASE SweepEnds
    <2>1. count' = k /\ k <= i /\ i <= count
      BY <1>11 DEF SweepEnds, CountInv
    <2>2. Types'
      BY <1>11, <2>1 DEF SweepEnds, Types
    <2>3. CountInv'
      BY <1>11, <1>n, <2>1 DEF SweepEnds, CountInv, Types
    <2>4. QED
      BY <2>2, <2>3
  <1>12. QED
    BY <1>1, <1>2, <1>3, <1>4, <1>5, <1>6, <1>7, <1>8, <1>9, <1>10, <1>11

-----------------------------------------------------------------------------
(* What a step leaves alone, by the part of the invariant.                 *)

LEMMA ConflictFacts ==
    ASSUME ConflictInv, ~conflict
    PROVE  /\ monitor \in {"shift", "load", "store"} => kafka \in {"idle", "create"}
           /\ ~(monitor = "sweep" /\ kafka = "store") /\ ~(monitor = "open" /\ kafka = "write")
  BY DEF ConflictInv, Conflicting

LEMMA ConflictFactsNext ==
    ASSUME ConflictInv', ~conflict'
    PROVE  /\ monitor' \in {"shift", "load", "store"} => kafka' \in {"idle", "create"}
           /\ ~(monitor' = "sweep" /\ kafka' = "store") /\ ~(monitor' = "open" /\ kafka' = "write")
  BY DEF ConflictInv, Conflicting

\* The signals keep their slots, their ids and their problems.
LEMMA LiveKept ==
    ASSUME Types, Types', LiveInv, retired' \subseteq 1..(nextId' - 1), cooled' \subseteq 1..(nextId' - 1),
           \A s \in Slots : Live(s)' <=> Live(s),
           \A s \in Slots : Live(s) =>
               /\ signals'[s].id = signals[s].id /\ signals'[s].problem = signals[s].problem
               /\ signals'[s].status \in Alive,
           \A n \in 0..MaxIds : Member(n)' <=> Member(n)
    PROVE  LiveInv'
  <1>1. ASSUME NEW s \in Slots, Live(s)'
        PROVE  /\ Member(signals[s].id)'
               /\ signals'[s].problem # NoProblem /\ signals'[s].status \in Alive
    <2>1. signals'[s].id = signals[s].id /\ signals[s].id \in 0..MaxIds
      BY <1>1, SignalFacts
    <2>2. Member(signals[s].id)'
      BY <1>1, <2>1 DEF LiveInv, Member
    <2>3. QED
      BY <1>1, <2>2 DEF LiveInv
  <1>2. ASSUME NEW s \in Slots, NEW t \in Slots, Live(s)', Live(t)'
        PROVE  /\ signals'[s].id = signals'[t].id => s = t
               /\ signals'[s].problem = signals'[t].problem => s = t
    BY <1>2 DEF LiveInv
  <1>3. ASSUME NEW n \in 1..MaxIds, Member(n)'
        PROVE  \E s \in Slots : Live(s)' /\ signals'[s].id = n
    <2>1. n \in 0..MaxIds
      BY ConstantsOK
    <2>2. PICK s \in Slots : Live(s) /\ signals[s].id = n
      BY <1>3, <2>1 DEF LiveInv
    <2>3. QED
      BY <2>2
  <1>4. QED
    BY <1>1, <1>2, <1>3 DEF LiveInv

\* A step of the monitor that moves no signal leaves the Kafka thread's view true.
LEMMA ViewKept ==
    ASSUME Types, Types', LookupInv, NewInv, ~missed, KafkaKept, loaded'["kafka"] = loaded["kafka"],
           kafka \in {"load", "store"} => nextId - 1 \notin retired',
           count' = count \/ kafka \in {"idle", "create"},
           \A s \in Slots :
               /\ signals'[s].id = signals[s].id
               /\ signals'[s].problem \in {signals[s].problem, NoProblem}
               /\ s = count => signals'[s] = signals[s]
               /\ Live(s)' => Live(s)
    PROVE  LookupInv' /\ NewInv' /\ ~missed'
  <1> USE ConstantsOK
  <1>0. UNCHANGED <<nextId, kafka, problem, j, matched, closing, cooled, missed>>
    BY DEF KafkaKept
  <1>p. problem # NoProblem
    BY DEF Types
  <1>1. kafka' = "scan" => j' <= count' /\ \A s \in Slots : s < j' => signals'[s].problem # problem'
    BY <1>0, <1>p DEF LookupInv
  <1>2. kafka' = "create" => \A s \in Slots : Live(s)' => signals'[s].problem # problem'
    BY <1>0, <1>p DEF LookupInv
  <1>3. kafka' \in {"find", "write"} => matched' < count' /\ signals'[matched'].id = closing'
    <2>1. matched \in Slots
      BY DEF Types
    <2>2. QED
      BY <1>0, <2>1 DEF LookupInv
  <1>4. kafka' = "write" => j' < count' /\ signals'[j'].id = closing'
    <2>1. SUFFICES ASSUME kafka = "write" PROVE j < count' /\ signals'[j].id = closing
      BY <1>0
    <2>2. j < count /\ count' = count
      BY <2>1 DEF LookupInv
    <2>3. j \in Slots
      BY <2>2, SlotFacts DEF Types
    <2>4. QED
      BY <2>1, <2>2, <2>3 DEF LookupInv
  <1>5. NewInv'
    <2>1. SUFFICES ASSUME kafka \in {"load", "store"} PROVE NewInv'
      BY <1>0 DEF NewInv
    <2>2. count' = count /\ count < MaxSignals
      BY <2>1 DEF NewInv
    <2>3. count \in Slots
      BY <2>2, SlotFacts DEF Types
    <2>4. signals'[count'] = signals[count]
      BY <2>2, <2>3
    <2>5. QED
      BY <1>0, <1>p, <2>1, <2>2, <2>4 DEF NewInv
  <1>6. QED
    BY <1>0, <1>1, <1>2, <1>3, <1>4, <1>5 DEF LookupInv

LEMMA CooledKept ==
    ASSUME CooledInv, cooled' = cooled, count' \in Nat, count \in Nat,
           \A s \in Slots : s < count' =>
               /\ s < count /\ signals'[s].id = signals[s].id
               /\ \/ signals'[s].status = signals[s].status
                  \/ signals'[s].status \in {"coolDown", "closed"}
                  \/ signals[s].status = "warmUp"
    PROVE  CooledInv'
  BY DEF CooledInv

\* A step of the Kafka thread that changes no signal but by closing it leaves the
\* monitor's view true.
LEMMA MonitorKeptView ==
    ASSUME Types, CountInv, DropInv, MonitorInv, MonitorKept, loaded'["monitor"] = loaded["monitor"],
           count' = count \/ monitor # "store",
           \A s \in Slots : s < count =>
               /\ signals'[s].id = signals[s].id /\ signals'[s].problem = signals[s].problem
               /\ \/ signals'[s].status = signals[s].status
                  \/ monitor # "open" /\ signals'[s].status = "coolDown"
    PROVE  DropInv' /\ MonitorInv'
  <1>0. UNCHANGED <<monitor, i, k, retired>>
    BY DEF MonitorKept
  <1>1. i < count => i \in Slots
    BY SlotFacts, ConstantsOK DEF Types
  <1>2. DropInv'
    BY <1>0, <1>1 DEF CountInv, DropInv
  <1>3. MonitorInv'
    BY <1>0, <1>1 DEF CountInv, MonitorInv
  <1>4. QED
    BY <1>2, <1>3

-----------------------------------------------------------------------------
(* The steps of the Kafka thread.                                          *)

\* What every lemma on a step assumes: no conflicting windows have overlapped.
Calm == Types /\ CountInv /\ ConflictInv /\ ~conflict /\ Peace
CalmNext == Types' /\ ConflictInv' /\ ~conflict'

LEMMA CalmFacts ==
    ASSUME Calm
    PROVE  /\ count \in 0..MaxSignals /\ MaxSignals \in Nat /\ nextId \in 1..(MaxIds + 1) /\ MaxIds \in Nat
           /\ i \in 0..MaxSignals /\ k \in 0..MaxSignals /\ j \in 0..MaxSignals
           /\ i < count => i \in Slots
           /\ j < count => j \in Slots
           /\ k < count => k \in Slots
           /\ count < MaxSignals => count \in Slots
           /\ \A s \in Slots : s \in 0..MaxSignals /\ s < MaxSignals
  BY ConstantsOK, SlotFacts DEF Calm, Types, Slots

\* A signal below the count that the Kafka thread looks at has an id and entities.
LEMMA SeenFacts ==
    ASSUME Calm, kafka \notin {"idle", "create"}, NEW s \in Slots, s < count
    PROVE  /\ signals[s].id \in 1..(nextId - 1) /\ signals[s].problem # NoProblem
           /\ \A t \in Slots : t < count /\ signals[t].id = signals[s].id => t = s
  <1>1. monitor \notin {"shift", "load", "store"}
    BY ConflictFacts DEF Calm
  <1>2. ASSUME NEW t \in Slots, t < count, ~Live(t)
        PROVE  t = i /\ signals[t].id \in retired /\ signals[t].problem # NoProblem
    BY <1>1, <1>2 DEF Live, Leaving, Calm, Peace, DropInv
  <1>3. signals[s].id \in 1..(nextId - 1) /\ signals[s].problem # NoProblem
    <2>1. CASE Live(s)
      BY <2>1 DEF Calm, Peace, LiveInv, Member
    <2>2. CASE ~Live(s)
      BY <1>2, <2>2 DEF Calm, Peace, LiveInv
    <2>3. QED
      BY <2>1, <2>2
  <1>4. ASSUME NEW t \in Slots, t < count, signals[t].id = signals[s].id PROVE t = s
    <2>1. CASE Live(s) /\ Live(t)
      BY <1>4, <2>1 DEF Calm, Peace, LiveInv
    <2>2. CASE Live(s) /\ ~Live(t)
      BY <1>2, <1>4, <2>2 DEF Calm, Peace, LiveInv, Member
    <2>3. CASE ~Live(s) /\ Live(t)
      BY <1>2, <1>4, <2>3 DEF Calm, Peace, LiveInv, Member
    <2>4. CASE ~Live(s) /\ ~Live(t)
      BY <1>2, <1>4, <2>4
    <2>5. QED
      BY <2>1, <2>2, <2>3, <2>4
  <1>5. QED
    BY <1>3, <1>4

\* A step of the Kafka thread that leaves the table alone.
LEMMA QuietKafka ==
    ASSUME Calm, CalmNext, MonitorKept, UNCHANGED <<signals, count, nextId, cooled>>,
           loaded'["monitor"] = loaded["monitor"],
           kafka \in {"load", "store"} <=> kafka' \in {"load", "store"}
    PROVE  LiveInv' /\ DropInv' /\ MonitorInv' /\ CooledInv'
  <1>1. \A s \in Slots : Live(s)' <=> Live(s)
    BY DEF Live, Leaving, MonitorKept
  <1>2. \A n \in 0..MaxIds : Member(n)' <=> Member(n)
    BY DEF Member, MonitorKept
  <1>3. LiveInv'
    <2>1. retired' \subseteq 1..(nextId' - 1) /\ cooled' \subseteq 1..(nextId' - 1)
      BY DEF Calm, Peace, LiveInv, MonitorKept
    <2>2. \A s \in Slots : Live(s) => signals'[s].status \in Alive
      BY DEF Calm, Peace, LiveInv
    <2>3. QED
      BY <1>1, <1>2, <2>1, <2>2, LiveKept DEF Calm, CalmNext, Peace
  <1>4. DropInv' /\ MonitorInv'
    BY MonitorKeptView DEF Calm, Peace
  <1>5. CooledInv'
    BY DEF Calm, Peace, CooledInv
  <1>6. QED
    BY <1>3, <1>4, <1>5

LEMMA ReceiveStep ==
    ASSUME Calm, CalmNext, NEW m \in Kinds, NEW p \in Problems, Receive(m, p)
    PROVE  Peace'
  <1>1. LiveInv' /\ DropInv' /\ MonitorInv' /\ CooledInv'
    BY QuietKafka DEF Receive, kafkaFrame, monitorVars, MonitorKept
  <1>2. kafka' = "scan" /\ j' = 0 /\ missed' = missed
    BY DEF Receive
  <1>3. LookupInv' /\ NewInv' /\ ~missed'
    BY <1>2, CalmFacts DEF CalmNext, Types, LookupInv, NewInv, Calm, Peace
  <1>4. QED
    BY <1>1, <1>3 DEF Peace

LEMMA ScanStep ==
    ASSUME Calm, CalmNext, Scan
    PROVE  Peace'
  <1>1. LiveInv' /\ DropInv' /\ MonitorInv' /\ CooledInv'
    BY QuietKafka DEF Scan, kafkaFrame, monitorVars, MonitorKept
  <1>2. /\ kafka = "scan" /\ j < count /\ j \in Slots /\ UNCHANGED <<signals, count, problem>>
    BY CalmFacts DEF Scan
  <1>3. signals[j].id # 0 /\ signals[j].problem # NoProblem
    BY <1>2, SeenFacts
  <1>4. /\ ~missed /\ \A s \in Slots : s < j => signals[s].problem # problem
    BY <1>2 DEF Calm, Peace, LookupInv
  <1>5. CASE ~FindActiveSignals(signals[j]) /\ j' = j + 1 /\ UNCHANGED <<kafka, matched, closing, missed>>
    <2>1. signals[j].problem # problem
      BY <1>3, <1>5 DEF FindActiveSignals
    <2>2. \A s \in Slots : s < j' => signals'[s].problem # problem'
      BY <1>2, <1>4, <1>5, <2>1, CalmFacts
    <2>3. j' <= count'
      BY <1>2, <1>5, CalmFacts
    <2>4. QED
      BY <1>1, <1>2, <1>4, <1>5, <2>2, <2>3 DEF Peace, LookupInv, NewInv
  <1>6. CASE /\ FindActiveSignals(signals[j]) /\ matched' = j /\ closing' = signals[j].id
             /\ kafka' = IF kind = "open" THEN "idle" ELSE "find"
             /\ missed' = (missed \/ signals[j].problem # problem)
    <2>1. signals[j].problem = problem
      BY <1>3, <1>6 DEF FindActiveSignals
    <2>2. ~missed'
      BY <1>4, <1>6, <2>1
    <2>3. kafka' \in {"idle", "find"}
      BY <1>6
    <2>4. matched' < count' /\ signals'[matched'].id = closing'
      BY <1>2, <1>6
    <2>5. QED
      BY <1>1, <2>2, <2>3, <2>4 DEF Peace, LookupInv, NewInv
  <1>7. QED
    BY <1>5, <1>6 DEF Scan

LEMMA ScanEndsStep ==
    ASSUME Calm, CalmNext, ScanEnds
    PROVE  Peace'
  <1>0. kafka = "scan" /\ kafka' \in {"create", "idle"}
    BY DEF ScanEnds
  <1>1. LiveInv' /\ DropInv' /\ MonitorInv' /\ CooledInv'
    BY <1>0, QuietKafka DEF ScanEnds, kafkaFrame, monitorVars, MonitorKept
  <1>2. \A s \in Slots : s < count => signals[s].problem # problem
    BY <1>0, CalmFacts DEF ScanEnds, Calm, Peace, LookupInv
  <1>3. LookupInv' /\ NewInv' /\ ~missed'
    BY <1>0, <1>2 DEF ScanEnds, LookupInv, NewInv, Live, Calm, Peace
  <1>4. QED
    BY <1>1, <1>3 DEF Peace

LEMMA CountUpLoadStep ==
    ASSUME Calm, CalmNext, CountUpLoad
    PROVE  Peace'
  <1>0. /\ kafka = "load" /\ kafka' = "store" /\ UNCHANGED <<signals, count, nextId, problem, cooled, missed>>
        /\ UNCHANGED <<monitor, i, k, retired>>
    BY DEF CountUpLoad, kafkaFrame, monitorVars
  <1>1. loaded'["kafka"] = count /\ loaded'["monitor"] = loaded["monitor"]
    BY DEF CountUpLoad, Calm, Types
  <1>2. LiveInv' /\ DropInv' /\ MonitorInv' /\ CooledInv'
    BY <1>0, <1>1, QuietKafka DEF MonitorKept
  <1>3. NewInv'
    BY <1>0, <1>1 DEF Calm, Peace, NewInv, Live, Leaving
  <1>4. LookupInv' /\ ~missed'
    BY <1>0 DEF LookupInv, Calm, Peace
  <1>5. QED
    BY <1>2, <1>3, <1>4 DEF Peace

LEMMA FindStep ==
    ASSUME Calm, CalmNext, Find
    PROVE  Peace'
  <1>0. kafka = "find" /\ kafka' \in {"find", "write", "idle"}
    BY DEF Find
  <1>1. LiveInv' /\ DropInv' /\ MonitorInv' /\ CooledInv'
    BY <1>0, QuietKafka DEF Find, kafkaFrame, monitorVars, MonitorKept
  <1>2. matched < count /\ signals[matched].id = closing
    BY <1>0 DEF Calm, Peace, LookupInv
  <1>3. LookupInv'
    BY <1>0, <1>2 DEF Find, LookupInv
  <1>4. NewInv' /\ ~missed'
    BY <1>0 DEF Find, NewInv, Calm, Peace
  <1>5. QED
    BY <1>1, <1>3, <1>4 DEF Peace

LEMMA CreateStep ==
    ASSUME Calm, CalmNext, Create
    PROVE  Peace'
  <1>0. /\ kafka = "create" /\ UNCHANGED <<count, problem, j, matched, loaded, closing, cooled, missed>>
        /\ MonitorKept
    BY DEF Create, kafkaFrame, monitorVars, MonitorKept
  <1>1. CASE kafka' = "idle" /\ UNCHANGED <<signals, nextId>>
    <2>1. LiveInv' /\ DropInv' /\ MonitorInv' /\ CooledInv'
      BY <1>0, <1>1, QuietKafka
    <2>2. LookupInv' /\ NewInv' /\ ~missed'
      BY <1>0, <1>1 DEF LookupInv, NewInv, Calm, Peace
    <2>3. QED
      BY <2>1, <2>2 DEF Peace
  <1>2. CASE /\ HasRoom /\ nextId <= MaxIds /\ nextId' = nextId + 1 /\ kafka' = "load"
             /\ signals' = [signals EXCEPT ![count] = [id |-> nextId, problem |-> problem, status |-> "warmUp"]]
    <2>1. count < MaxSignals /\ count \in Slots
      BY <1>2, CalmFacts DEF HasRoom
    <2>2. /\ signals'[count] = [id |-> nextId, problem |-> problem, status |-> "warmUp"]
          /\ \A s \in Slots : s # count => signals'[s] = signals[s]
      BY <1>2, <2>1 DEF Calm, Types
    <2>3. \A s \in Slots : Live(s)' <=> Live(s)
      BY <1>0 DEF Live, Leaving, MonitorKept
    <2>4. \A s \in Slots : Live(s) => s # count /\ signals'[s] = signals[s]
      BY <2>2, CalmFacts DEF Live
    <2>5. \A n \in 0..MaxIds : Member(n)' <=> Member(n)
      BY <1>0, <1>2, CalmFacts DEF Member, MonitorKept
    <2>6. retired \subseteq 1..(nextId - 1) /\ cooled \subseteq 1..(nextId - 1)
      BY DEF Calm, Peace, LiveInv
    <2>7. retired' \subseteq 1..(nextId' - 1) /\ cooled' \subseteq 1..(nextId' - 1)
      BY <1>0, <1>2, <2>6, CalmFacts DEF MonitorKept
    <2>8. LiveInv'
      <3>1. \A s \in Slots : Live(s) => signals'[s].status \in Alive
        BY <2>4 DEF Calm, Peace, LiveInv
      <3>2. QED
        BY <2>3, <2>4, <2>5, <2>7, <3>1, LiveKept DEF Calm, CalmNext, Peace
    <2>9. \A s \in Slots : s < count => signals'[s] = signals[s]
      BY <2>2, CalmFacts
    <2>10. DropInv' /\ MonitorInv'
      BY <1>0, <2>9, MonitorKeptView DEF Calm, Peace
    <2>11. CooledInv'
      BY <1>0, <2>9, CooledKept, CalmFacts DEF Calm, Peace
    <2>12. nextId' - 1 = nextId /\ nextId' > 1 /\ nextId \notin cooled \cup retired
      BY <1>2, <2>6, CalmFacts
    <2>13. \A s \in Slots : Live(s)' => signals'[s].problem # problem'
      BY <1>0, <2>3, <2>4 DEF Calm, Peace, LookupInv
    <2>14. NewInv'
      BY <1>0, <1>2, <2>1, <2>2, <2>12, <2>13 DEF NewInv, MonitorKept
    <2>15. LookupInv' /\ ~missed'
      BY <1>0, <1>2 DEF LookupInv, Calm, Peace
    <2>16. QED
      BY <2>8, <2>10, <2>11, <2>14, <2>15 DEF Peace
  <1>3. QED
    BY <1>1, <1>2 DEF Create

LEMMA CountUpStoreStep ==
    ASSUME Calm, CalmNext, CountUpStore
    PROVE  Peace'
  <1>0. /\ kafka = "store" /\ kafka' = "idle" /\ UNCHANGED <<signals, nextId, cooled, missed, loaded>>
        /\ count' = loaded["kafka"] + 1 /\ UNCHANGED <<monitor, i, k, retired>>
    BY DEF CountUpStore, kafkaFrame, monitorVars
  <1>1. /\ count < MaxSignals /\ count' = count + 1 /\ signals[count].id = nextId - 1 /\ nextId > 1
        /\ nextId - 1 \notin cooled \cup retired
        /\ signals[count].problem = problem /\ signals[count].status = "warmUp"
        /\ \A s \in Slots : Live(s) => signals[s].problem # problem
    BY <1>0 DEF Calm, Peace, NewInv
  <1>2. count \in Slots /\ problem # NoProblem
    BY <1>1, CalmFacts, ConstantsOK DEF Calm, Types
  <1>3. monitor \notin {"shift", "load", "store", "sweep"}
    BY <1>0, ConflictFacts DEF Calm
  <1>4. monitor = "drop" => i < count
    BY DEF Calm, CountInv
  <1>5. \A s \in Slots : Live(s)' <=> Live(s) \/ s = count
    BY <1>0, <1>1, <1>3, <1>4, CalmFacts DEF Live, Leaving
  <1>6. \A n \in 0..MaxIds : Member(n)' <=> Member(n) \/ n = nextId - 1
    BY <1>0, <1>1, CalmFacts DEF Member
  <1>7. LiveInv'
    <2>1. ASSUME NEW s \in Slots, Live(s)'
          PROVE  /\ Member(signals[s].id)'
                 /\ signals[s].problem # NoProblem /\ signals[s].status \in Alive
      <3>1. CASE Live(s)
        <4>1. Member(signals[s].id) /\ signals[s].problem # NoProblem /\ signals[s].status \in Alive
          BY <3>1 DEF Calm, Peace, LiveInv
        <4>2. QED
          BY <1>0, <4>1 DEF Member
      <3>2. CASE s = count
        BY <1>0, <1>1, <1>2, <3>2, CalmFacts DEF Member, Alive
      <3>3. QED
        BY <1>5, <2>1, <3>1, <3>2
    <2>2. ASSUME NEW s \in Slots, NEW t \in Slots, Live(s)', Live(t)'
          PROVE  /\ signals[s].id = signals[t].id => s = t
                 /\ signals[s].problem = signals[t].problem => s = t
      <3>1. CASE Live(s) /\ Live(t)
        BY <3>1 DEF Calm, Peace, LiveInv
      <3>2. \A r \in Slots : Live(r) => signals[r].id # nextId - 1
        BY <1>0 DEF Calm, Peace, LiveInv, Member
      <3>3. CASE s = count \/ t = count
        BY <1>1, <1>5, <2>2, <3>2, <3>3
      <3>4. QED
        BY <1>5, <2>2, <3>1, <3>3
    <2>3. ASSUME NEW n \in 1..MaxIds, Member(n)'
          PROVE  \E s \in Slots : Live(s)' /\ signals[s].id = n
      <3>1. CASE Member(n)
        <4>1. PICK s \in Slots : Live(s) /\ signals[s].id = n
          BY <3>1 DEF Calm, Peace, LiveInv
        <4>2. QED
          BY <1>5, <4>1
      <3>2. CASE n = nextId - 1
        BY <1>1, <1>2, <1>5, <3>2
      <3>3. n \in 0..MaxIds
        BY CalmFacts
      <3>4. QED
        BY <1>6, <2>3, <3>1, <3>2, <3>3
    <2>4. QED
      BY <1>0, <2>1, <2>2, <2>3 DEF LiveInv, Calm, Peace
  <1>8. DropInv' /\ MonitorInv'
    BY <1>0, <1>3, MonitorKeptView DEF MonitorKept, Calm, Peace
  <1>9. CooledInv'
    BY <1>0, <1>1, <1>2, CalmFacts DEF Calm, Peace, CooledInv
  <1>10. LookupInv' /\ NewInv' /\ ~missed'
    BY <1>0 DEF LookupInv, NewInv, Calm, Peace
  <1>11. QED
    BY <1>7, <1>8, <1>9, <1>10 DEF Peace

LEMMA WriteStep ==
    ASSUME Calm, CalmNext, Write
    PROVE  Peace'
  <1>0. /\ kafka = "write" /\ kafka' = "idle" /\ UNCHANGED <<count, nextId, loaded>>
        /\ cooled' = cooled \cup {signals[j].id} /\ UNCHANGED <<monitor, i, k, retired>>
    BY DEF Write, kafkaFrame, monitorVars
  <1>1. j < count /\ j \in Slots /\ signals[j].id = closing /\ ~missed
    BY <1>0, CalmFacts DEF Calm, Peace, LookupInv
  <1>2. ~missed'
    BY <1>1 DEF Write
  <1>3. \A t \in Slots : /\ signals'[t].id = signals[t].id /\ signals'[t].problem = signals[t].problem
                         /\ signals'[t].status = IF t = j THEN "coolDown" ELSE signals[t].status
    BY <1>1, StatusSet DEF Write, Calm
  <1>4. signals[j].id \in 1..(nextId - 1) /\ \A t \in Slots : t < count /\ signals[t].id = signals[j].id => t = j
    BY <1>0, <1>1, SeenFacts
  <1>5. \A s \in Slots : Live(s)' <=> Live(s)
    BY <1>0 DEF Live, Leaving
  <1>6. \A n \in 0..MaxIds : Member(n)' <=> Member(n)
    BY <1>0 DEF Member
  <1>7. LiveInv'
    <2>1. retired' \subseteq 1..(nextId' - 1) /\ cooled' \subseteq 1..(nextId' - 1)
      BY <1>0, <1>4 DEF Calm, Peace, LiveInv
    <2>2. \A s \in Slots : Live(s) => signals'[s].status \in Alive
      BY <1>3 DEF Calm, Peace, LiveInv, Alive
    <2>3. QED
      BY <1>3, <1>5, <1>6, <2>1, <2>2, LiveKept DEF Calm, CalmNext, Peace
  <1>8. DropInv' /\ MonitorInv'
    <2>1. monitor # "open"
      BY <1>0, ConflictFacts DEF Calm
    <2>2. QED
      BY <1>0, <1>3, <2>1, MonitorKeptView DEF MonitorKept, Calm, Peace
  <1>9. CooledInv'
    <2>1. ASSUME NEW s \in Slots, s < count, signals[s].id \in cooled'
          PROVE  signals'[s].status \in {"coolDown", "closed"}
      <3>1. CASE s = j
        BY <1>3, <3>1
      <3>2. CASE s # j
        <4>1. signals[s].id \in cooled
          BY <1>0, <1>4, <2>1, <3>2
        <4>2. QED
          BY <1>3, <2>1, <3>2, <4>1 DEF Calm, Peace, CooledInv
      <3>3. QED
        BY <3>1, <3>2
    <2>2. QED
      BY <1>0, <1>3, <2>1 DEF CooledInv
  <1>10. LookupInv' /\ NewInv'
    BY <1>0 DEF LookupInv, NewInv
  <1>11. QED
    BY <1>2, <1>7, <1>8, <1>9, <1>10 DEF Peace

-----------------------------------------------------------------------------
(* The steps of the monitor.                                               *)

\* A step of the monitor that leaves the table alone.
LEMMA QuietMonitor ==
    ASSUME Calm, CalmNext, KafkaKept, UNCHANGED <<signals, count, retired>>,
           loaded'["kafka"] = loaded["kafka"],
           \A s \in Slots : Live(s)' <=> Live(s)
    PROVE  LiveInv' /\ LookupInv' /\ NewInv' /\ ~missed' /\ CooledInv'
  <1>0. UNCHANGED <<nextId, kafka, cooled>>
    BY DEF KafkaKept
  <1>1. LiveInv'
    <2>1. \A n \in 0..MaxIds : Member(n)' <=> Member(n)
      BY <1>0 DEF Member
    <2>2. retired' \subseteq 1..(nextId' - 1) /\ cooled' \subseteq 1..(nextId' - 1)
      BY <1>0 DEF Calm, Peace, LiveInv
    <2>3. \A s \in Slots : Live(s) => signals'[s].status \in Alive
      BY DEF Calm, Peace, LiveInv
    <2>4. QED
      BY <2>1, <2>2, <2>3, LiveKept DEF Calm, CalmNext, Peace
  <1>2. LookupInv' /\ NewInv' /\ ~missed'
    <2>1. kafka \in {"load", "store"} => nextId - 1 \notin retired'
      BY DEF Calm, Peace, NewInv
    <2>2. QED
      BY <2>1, ViewKept DEF Calm, CalmNext, Peace
  <1>3. CooledInv'
    BY <1>0 DEF Calm, Peace, CooledInv
  <1>4. QED
    BY <1>1, <1>2, <1>3

LEMMA WakeStep == ASSUME Calm, CalmNext, Wake PROVE Peace'
  <1>0. monitor = "asleep" /\ monitor' = "visit" /\ UNCHANGED <<signals, count, retired, loaded>> /\ KafkaKept
    BY DEF Wake, monitorFrame, kafkaVars, KafkaKept
  <1>1. \A s \in Slots : Live(s)' <=> Live(s)
    BY <1>0 DEF Live, Leaving
  <1>2. LiveInv' /\ LookupInv' /\ NewInv' /\ ~missed' /\ CooledInv'
    BY <1>0, <1>1, QuietMonitor
  <1>3. DropInv' /\ MonitorInv'
    BY <1>0 DEF DropInv, MonitorInv
  <1>4. QED
    BY <1>2, <1>3 DEF Peace

LEMMA VisitStep == ASSUME Calm, CalmNext, Visit PROVE Peace'
  <1>0. /\ monitor = "visit" /\ monitor' \in {"open", "close", "visit"}
        /\ UNCHANGED <<signals, count, retired, loaded>> /\ KafkaKept
        /\ monitor' = "open" => i' = i /\ signals[i].status = "warmUp"
        /\ monitor' = "close" => i' = i /\ signals[i].status = "coolDown"
    BY DEF Visit, monitorFrame, kafkaVars, KafkaKept
  <1>1. \A s \in Slots : Live(s)' <=> Live(s)
    BY <1>0 DEF Live, Leaving
  <1>2. LiveInv' /\ LookupInv' /\ NewInv' /\ ~missed' /\ CooledInv'
    BY <1>0, <1>1, QuietMonitor
  <1>3. DropInv' /\ MonitorInv'
    BY <1>0 DEF DropInv, MonitorInv
  <1>4. QED
    BY <1>2, <1>3 DEF Peace

LEMMA VisitsEndStep == ASSUME Calm, CalmNext, VisitsEnd PROVE Peace'
  <1>0. /\ monitor = "visit" /\ monitor' = "sweep" /\ k' = 0 /\ i' = 0
        /\ UNCHANGED <<signals, count, retired, loaded>> /\ KafkaKept
    BY DEF VisitsEnd, monitorFrame, kafkaVars, KafkaKept
  <1>1. \A s \in Slots : Live(s)' <=> Live(s)
    BY <1>0 DEF Live, Leaving
  <1>2. LiveInv' /\ LookupInv' /\ NewInv' /\ ~missed' /\ CooledInv'
    BY <1>0, <1>1, QuietMonitor
  <1>3. DropInv' /\ MonitorInv'
    BY <1>0 DEF DropInv, MonitorInv
  <1>4. QED
    BY <1>2, <1>3 DEF Peace

LEMMA CountDownLoadStep == ASSUME Calm, CalmNext, CountDownLoad PROVE Peace'
  <1>0. /\ monitor = "load" /\ monitor' = "store" /\ UNCHANGED <<signals, count, retired>> /\ KafkaKept
        /\ loaded' = [loaded EXCEPT !["monitor"] = count]
    BY DEF CountDownLoad, monitorFrame, kafkaVars, KafkaKept
  <1>1. \A s \in Slots : Live(s)' <=> Live(s)
    BY <1>0 DEF Live, Leaving
  <1>2. loaded'["kafka"] = loaded["kafka"] /\ loaded'["monitor"] = count
    BY <1>0 DEF Calm, Types
  <1>3. LiveInv' /\ LookupInv' /\ NewInv' /\ ~missed' /\ CooledInv'
    BY <1>0, <1>1, <1>2, QuietMonitor
  <1>4. DropInv' /\ MonitorInv'
    BY <1>0, <1>2 DEF DropInv, MonitorInv
  <1>5. QED
    BY <1>3, <1>4 DEF Peace

\* No signal is closed when the sweep comes: close_signal has removed it.
LEMMA SweepStep == ASSUME Calm, CalmNext, Sweep PROVE Peace'
  <1>0. /\ monitor = "sweep" /\ monitor' = "sweep" /\ i < count /\ UNCHANGED <<count, retired, loaded>> /\ KafkaKept
        /\ i' = i + 1
    BY DEF Sweep, monitorFrame, kafkaVars, KafkaKept
  <1>1. k = i /\ i \in Slots
    BY <1>0, CalmFacts DEF Calm, Peace, MonitorInv
  <1>2. signals[i].status # "closed"
    BY <1>0, <1>1 DEF Calm, Peace, LiveInv, Live, Leaving, Alive
  <1>3. signals' = [signals EXCEPT ![i] = signals[i]] /\ k' = k + 1
    BY <1>1, <1>2 DEF Sweep
  <1>4. signals' = signals
    BY <1>1, <1>3 DEF Calm, Types
  <1>5. \A s \in Slots : Live(s)' <=> Live(s)
    BY <1>0 DEF Live, Leaving
  <1>6. LiveInv' /\ LookupInv' /\ NewInv' /\ ~missed' /\ CooledInv'
    BY <1>0, <1>4, <1>5, QuietMonitor
  <1>7. DropInv' /\ MonitorInv'
    BY <1>0, <1>1, <1>3 DEF DropInv, MonitorInv
  <1>8. QED
    BY <1>6, <1>7 DEF Peace

LEMMA SweepEndsStep == ASSUME Calm, CalmNext, SweepEnds PROVE Peace'
  <1>0. /\ monitor = "sweep" /\ monitor' = "asleep" /\ i >= count /\ count' = k
        /\ UNCHANGED <<signals, retired, loaded>> /\ KafkaKept
    BY DEF SweepEnds, monitorFrame, kafkaVars, KafkaKept
  <1>1. k = i /\ i <= count
    BY <1>0 DEF Calm, Peace, MonitorInv, CountInv
  <1>2. count' = count
    BY <1>0, <1>1, CalmFacts
  <1>3. \A s \in Slots : Live(s)' <=> Live(s)
    BY <1>0, <1>2 DEF Live, Leaving
  <1>4. LiveInv' /\ LookupInv' /\ NewInv' /\ ~missed' /\ CooledInv'
    BY <1>0, <1>2, <1>3, QuietMonitor
  <1>5. DropInv' /\ MonitorInv'
    BY <1>0 DEF DropInv, MonitorInv
  <1>6. QED
    BY <1>4, <1>5 DEF Peace

LEMMA OpenStep == ASSUME Calm, CalmNext, Open PROVE Peace'
  <1>0. /\ monitor = "open" /\ monitor' = "visit" /\ UNCHANGED <<count, retired, loaded>> /\ KafkaKept
        /\ signals' = [signals EXCEPT ![i].status = "open"]
    BY DEF Open, monitorFrame, kafkaVars, KafkaKept
  <1>k. UNCHANGED <<nextId, kafka, cooled>>
    BY <1>0 DEF KafkaKept
  <1>1. i < count /\ i \in Slots /\ signals[i].status = "warmUp"
    BY <1>0, CalmFacts DEF Calm, CountInv, Peace, MonitorInv
  <1>2. \A t \in Slots : /\ signals'[t].id = signals[t].id /\ signals'[t].problem = signals[t].problem
                         /\ signals'[t].status = IF t = i THEN "open" ELSE signals[t].status
    BY <1>0, <1>1, StatusSet DEF Calm
  <1>3. \A t \in Slots : t # i => signals'[t] = signals[t]
    BY <1>0, <1>1 DEF Calm, Types
  <1>4. \A s \in Slots : Live(s)' <=> Live(s)
    BY <1>0 DEF Live, Leaving
  <1>5. LiveInv'
    <2>1. \A n \in 0..MaxIds : Member(n)' <=> Member(n)
      BY <1>0, <1>k DEF Member
    <2>2. retired' \subseteq 1..(nextId' - 1) /\ cooled' \subseteq 1..(nextId' - 1)
      BY <1>0, <1>k DEF Calm, Peace, LiveInv
    <2>3. \A s \in Slots : Live(s) => signals'[s].status \in Alive
      BY <1>2 DEF Calm, Peace, LiveInv, Alive
    <2>4. QED
      BY <1>2, <1>4, <2>1, <2>2, <2>3, LiveKept DEF Calm, CalmNext, Peace
  <1>6. LookupInv' /\ NewInv' /\ ~missed'
    <2>1. kafka \in {"load", "store"} => nextId - 1 \notin retired'
      BY <1>0 DEF Calm, Peace, NewInv
    <2>2. \A s \in Slots : s = count => signals'[s] = signals[s]
      BY <1>1, <1>3, CalmFacts
    <2>3. QED
      BY <1>0, <1>2, <1>4, <2>1, <2>2, ViewKept DEF Calm, CalmNext, Peace
  <1>7. CooledInv'
    BY <1>0, <1>k, <1>1, <1>2, CooledKept, CalmFacts DEF Calm, Peace
  <1>8. DropInv' /\ MonitorInv'
    BY <1>0 DEF DropInv, MonitorInv
  <1>9. QED
    BY <1>5, <1>6, <1>7, <1>8 DEF Peace

LEMMA CloseStep == ASSUME Calm, CalmNext, Close PROVE Peace'
  <1>0. /\ monitor = "close" /\ monitor' = "drop" /\ UNCHANGED <<count, i, loaded>> /\ KafkaKept
        /\ signals' = [signals EXCEPT ![i].status = "closed"] /\ retired' = retired \cup {signals[i].id}
    BY DEF Close, monitorFrame, kafkaVars, KafkaKept
  <1>k. UNCHANGED <<nextId, kafka, cooled>>
    BY <1>0 DEF KafkaKept
  <1>1. i < count /\ i \in Slots /\ Live(i)
    BY <1>0, CalmFacts DEF Calm, CountInv, Live, Leaving
  <1>2. \A t \in Slots : /\ signals'[t].id = signals[t].id /\ signals'[t].problem = signals[t].problem
                         /\ signals'[t].status = IF t = i THEN "closed" ELSE signals[t].status
    BY <1>0, <1>1, StatusSet DEF Calm
  <1>3. \A t \in Slots : t # i => signals'[t] = signals[t]
    BY <1>0, <1>1 DEF Calm, Types
  <1>4. \A s \in Slots : Live(s)' <=> Live(s) /\ s # i
    BY <1>0 DEF Live, Leaving
  <1>5. Member(signals[i].id) /\ signals[i].problem # NoProblem
    BY <1>1 DEF Calm, Peace, LiveInv
  <1>6. \A n \in 0..MaxIds : Member(n)' <=> Member(n) /\ n # signals[i].id
    BY <1>0, <1>k DEF Member
  <1>7. LiveInv'
    <2>1. ASSUME NEW s \in Slots, Live(s)'
          PROVE  /\ Member(signals[s].id)'
                 /\ signals'[s].problem # NoProblem /\ signals'[s].status \in Alive
      <3>1. Live(s) /\ s # i
        BY <1>4, <2>1
      <3>2. signals[s].id # signals[i].id /\ Member(signals[s].id)
        BY <1>1, <3>1 DEF Calm, Peace, LiveInv
      <3>3. Member(signals[s].id)'
        BY <1>0, <1>k, <1>2, <3>2 DEF Member
      <3>4. QED
        BY <1>2, <3>1, <3>3 DEF Calm, Peace, LiveInv
    <2>2. ASSUME NEW s \in Slots, NEW t \in Slots, Live(s)', Live(t)'
          PROVE  /\ signals'[s].id = signals'[t].id => s = t
                 /\ signals'[s].problem = signals'[t].problem => s = t
      BY <1>2, <1>4, <2>2 DEF Calm, Peace, LiveInv
    <2>3. ASSUME NEW n \in 1..MaxIds, Member(n)'
          PROVE  \E s \in Slots : Live(s)' /\ signals'[s].id = n
      <3>1. n \in 0..MaxIds
        BY CalmFacts
      <3>2. Member(n) /\ n # signals[i].id
        BY <1>6, <2>3, <3>1
      <3>3. PICK s \in Slots : Live(s) /\ signals[s].id = n
        BY <3>2 DEF Calm, Peace, LiveInv
      <3>4. QED
        BY <1>2, <1>4, <3>2, <3>3
    <2>4. retired' \subseteq 1..(nextId' - 1) /\ cooled' \subseteq 1..(nextId' - 1)
      BY <1>0, <1>k, <1>5 DEF Calm, Peace, LiveInv, Member
    <2>5. QED
      BY <2>1, <2>2, <2>3, <2>4 DEF LiveInv
  <1>8. LookupInv' /\ NewInv' /\ ~missed'
    <2>1. kafka \in {"load", "store"} => nextId - 1 \notin retired'
      BY <1>0, <1>5 DEF Calm, Peace, NewInv, Member
    <2>2. \A s \in Slots : s = count => signals'[s] = signals[s]
      BY <1>1, <1>3, CalmFacts
    <2>3. QED
      BY <1>0, <1>2, <1>4, <2>1, <2>2, ViewKept DEF Calm, CalmNext, Peace
  <1>9. CooledInv'
    BY <1>0, <1>k, <1>2, CooledKept, CalmFacts DEF Calm, Peace
  <1>10. DropInv' /\ MonitorInv'
    BY <1>0, <1>1, <1>2, <1>5 DEF DropInv, MonitorInv
  <1>11. QED
    BY <1>7, <1>8, <1>9, <1>10 DEF Peace

LEMMA DropEntitiesStep == ASSUME Calm, CalmNext, DropEntities PROVE Peace'
  <1>0. /\ monitor = "drop" /\ monitor' = "shift" /\ k' = i /\ UNCHANGED <<count, retired, loaded>> /\ KafkaKept
        /\ signals' = [signals EXCEPT ![i].problem = NoProblem]
    BY DEF DropEntities, monitorFrame, kafkaVars, KafkaKept
  <1>k. UNCHANGED <<nextId, kafka, cooled>>
    BY <1>0 DEF KafkaKept
  <1>1. i < count /\ i \in Slots
    BY <1>0, CalmFacts DEF Calm, CountInv
  <1>2. \A t \in Slots : /\ signals'[t].id = signals[t].id /\ signals'[t].status = signals[t].status
                         /\ signals'[t].problem = IF t = i THEN NoProblem ELSE signals[t].problem
    BY <1>0, <1>1, EntitiesDropped DEF Calm
  <1>3. \A t \in Slots : t # i => signals'[t] = signals[t]
    BY <1>0, <1>1 DEF Calm, Types
  <1>4. \A s \in Slots : (Live(s)' <=> Live(s)) /\ (Live(s) => s # i)
    BY <1>0 DEF Live, Leaving
  <1>5. LiveInv'
    <2>1. \A n \in 0..MaxIds : Member(n)' <=> Member(n)
      BY <1>0, <1>k DEF Member
    <2>2. retired' \subseteq 1..(nextId' - 1) /\ cooled' \subseteq 1..(nextId' - 1)
      BY <1>0, <1>k DEF Calm, Peace, LiveInv
    <2>3. \A s \in Slots : Live(s) => signals'[s].status \in Alive
      BY <1>2 DEF Calm, Peace, LiveInv
    <2>4. QED
      BY <1>2, <1>4, <2>1, <2>2, <2>3, LiveKept DEF Calm, CalmNext, Peace
  <1>6. LookupInv' /\ NewInv' /\ ~missed'
    <2>1. kafka \in {"load", "store"} => nextId - 1 \notin retired'
      BY <1>0 DEF Calm, Peace, NewInv
    <2>2. \A s \in Slots : s = count => signals'[s] = signals[s]
      BY <1>1, <1>3, CalmFacts
    <2>3. QED
      BY <1>0, <1>2, <1>4, <2>1, <2>2, ViewKept DEF Calm, CalmNext, Peace
  <1>7. CooledInv'
    BY <1>0, <1>k, <1>2, CooledKept, CalmFacts DEF Calm, Peace
  <1>8. DropInv' /\ MonitorInv'
    BY <1>0 DEF DropInv, MonitorInv
  <1>9. QED
    BY <1>5, <1>6, <1>7, <1>8 DEF Peace

LEMMA ShiftStep == ASSUME Calm, CalmNext, Shift PROVE Peace'
  <1>0. /\ monitor = "shift" /\ UNCHANGED <<count, i, retired, loaded>> /\ KafkaKept
        /\ kafka \in {"idle", "create"} /\ k < count /\ k \in Slots
    BY ConflictFacts, CalmFacts DEF Shift, monitorFrame, kafkaVars, KafkaKept, Calm, CountInv
  <1>k. UNCHANGED <<nextId, kafka, cooled, problem, missed>>
    BY <1>0 DEF KafkaKept
  <1>1. CASE ~MoreToShift /\ monitor' = "load" /\ UNCHANGED <<signals, k>>
    <2>1. \A s \in Slots : Live(s)' <=> Live(s)
      BY <1>0, <1>1, CalmFacts DEF Live, Leaving, MoreToShift
    <2>2. LiveInv' /\ LookupInv' /\ NewInv' /\ ~missed' /\ CooledInv'
      BY <1>0, <1>1, <2>1, QuietMonitor
    <2>3. DropInv' /\ MonitorInv'
      BY <1>1 DEF DropInv, MonitorInv
    <2>4. QED
      BY <2>2, <2>3 DEF Peace
  <1>2. CASE MoreToShift /\ signals' = [signals EXCEPT ![k] = signals[k + 1]] /\ k' = k + 1 /\ monitor' = monitor
    <2>1. k + 1 < count /\ k + 1 \in Slots
      BY <1>2, CalmFacts, SlotFacts DEF MoreToShift
    <2>2. signals'[k] = signals[k + 1] /\ \A t \in Slots : t # k => signals'[t] = signals[t]
      BY <1>0, <1>2 DEF Calm, Types
    <2>3. \A s \in Slots : /\ Live(s) <=> s < count /\ s # k
                           /\ Live(s)' <=> s < count /\ s # k + 1
      BY <1>0, <1>2 DEF Live, Leaving
    <2>4. Live(k + 1)
      BY <1>0, <2>1, <2>3, CalmFacts
    <2>5. ASSUME NEW s \in Slots, Live(s)', s # k PROVE Live(s) /\ s # k + 1 /\ signals'[s] = signals[s]
      BY <2>2, <2>3, <2>5
    <2>6. LiveInv'
      <3>1. ASSUME NEW s \in Slots, Live(s)'
            PROVE  /\ signals'[s].problem # NoProblem /\ signals'[s].status \in Alive
                   /\ Member(signals[s].id)'
        <4>1. CASE s = k
          <5>1. Member(signals[k + 1].id) /\ signals[k + 1].problem # NoProblem /\ signals[k + 1].status \in Alive
            BY <2>1, <2>4 DEF Calm, Peace, LiveInv
          <5>2. QED
            BY <1>0, <1>k, <2>2, <4>1, <5>1 DEF Member
        <4>2. CASE s # k
          <5>1. Live(s) /\ signals'[s] = signals[s]
            BY <2>5, <3>1, <4>2
          <5>2. Member(signals[s].id) /\ signals[s].problem # NoProblem /\ signals[s].status \in Alive
            BY <5>1 DEF Calm, Peace, LiveInv
          <5>3. QED
            BY <1>0, <1>k, <5>1, <5>2 DEF Member
        <4>3. QED
          BY <4>1, <4>2
      <3>2. ASSUME NEW s \in Slots, NEW t \in Slots, Live(s)', Live(t)'
            PROVE  /\ signals'[s].id = signals'[t].id => s = t
                   /\ signals'[s].problem = signals'[t].problem => s = t
        <4>1. CASE s # k /\ t # k
          <5>1. Live(s) /\ signals'[s] = signals[s] /\ Live(t) /\ signals'[t] = signals[t]
            BY <2>5, <3>2, <4>1
          <5>2. QED
            BY <5>1 DEF Calm, Peace, LiveInv
        <4>2. CASE s = k /\ t # k
          <5>1. Live(t) /\ signals'[t] = signals[t] /\ t # k + 1
            BY <2>5, <3>2, <4>2
          <5>2. QED
            BY <2>1, <2>2, <2>4, <4>2, <5>1 DEF Calm, Peace, LiveInv
        <4>3. CASE s # k /\ t = k
          <5>1. Live(s) /\ signals'[s] = signals[s] /\ s # k + 1
            BY <2>5, <3>2, <4>3
          <5>2. QED
            BY <2>1, <2>2, <2>4, <4>3, <5>1 DEF Calm, Peace, LiveInv
        <4>4. QED
          BY <4>1, <4>2, <4>3
      <3>3. ASSUME NEW n \in 1..MaxIds, Member(n)'
            PROVE  \E s \in Slots : Live(s)' /\ signals'[s].id = n
        <4>1. Member(n)
          BY <1>0, <1>k, <3>3 DEF Member
        <4>2. PICK s \in Slots : Live(s) /\ signals[s].id = n
          BY <4>1 DEF Calm, Peace, LiveInv
        <4>3. CASE s = k + 1
          <5>1. PICK r \in Slots : r = k
            BY <1>0
          <5>2. r # k + 1 /\ Live(r)'
            BY <1>0, <2>3, <5>1, CalmFacts
          <5>3. signals'[r].id = n
            BY <2>2, <4>2, <4>3, <5>1
          <5>4. QED
            BY <5>2, <5>3
        <4>4. CASE s # k + 1
          BY <2>2, <2>3, <4>2, <4>4
        <4>5. QED
          BY <4>3, <4>4
      <3>4. retired' \subseteq 1..(nextId' - 1) /\ cooled' \subseteq 1..(nextId' - 1)
        BY <1>0, <1>k DEF Calm, Peace, LiveInv
      <3>5. QED
        BY <3>1, <3>2, <3>3, <3>4 DEF LiveInv
    <2>7. LookupInv' /\ NewInv' /\ ~missed'
      <3>1. ASSUME kafka = "create", NEW s \in Slots, Live(s)' PROVE signals'[s].problem # problem
        <4>1. CASE s = k
          BY <2>1, <2>2, <2>4, <3>1, <4>1 DEF Calm, Peace, LookupInv
        <4>2. CASE s # k
          BY <2>5, <3>1, <4>2 DEF Calm, Peace, LookupInv
        <4>3. QED
          BY <4>1, <4>2
      <3>2. QED
        BY <1>0, <1>k, <3>1 DEF LookupInv, NewInv, Calm, Peace
    <2>8. CooledInv'
      <3>1. ASSUME NEW s \in Slots, s < count, signals'[s].id \in cooled
            PROVE  signals'[s].status \in {"coolDown", "closed"}
        <4>1. CASE s = k
          BY <2>1, <2>2, <3>1, <4>1 DEF Calm, Peace, CooledInv
        <4>2. CASE s # k
          BY <2>2, <3>1, <4>2 DEF Calm, Peace, CooledInv
        <4>3. QED
          BY <4>1, <4>2
      <3>2. QED
        BY <1>0, <1>k, <3>1 DEF CooledInv
    <2>9. DropInv' /\ MonitorInv'
      BY <1>0, <1>2 DEF DropInv, MonitorInv
    <2>10. QED
      BY <2>6, <2>7, <2>8, <2>9 DEF Peace
  <1>3. QED
    BY <1>1, <1>2 DEF Shift

LEMMA CountDownStoreStep == ASSUME Calm, CalmNext, CountDownStore PROVE Peace'
  <1>0. /\ monitor = "store" /\ monitor' = "visit" /\ UNCHANGED <<signals, retired, loaded>> /\ KafkaKept
        /\ kafka \in {"idle", "create"} /\ count' = loaded["monitor"] - 1
    BY ConflictFacts DEF CountDownStore, monitorFrame, kafkaVars, KafkaKept, Calm
  <1>k. UNCHANGED <<nextId, kafka, cooled>>
    BY <1>0 DEF KafkaKept
  <1>1. loaded["monitor"] = count /\ count' = count - 1 /\ i < count
    BY <1>0 DEF Calm, Peace, MonitorInv, CountInv
  <1>2. \A s \in Slots : Live(s)' <=> Live(s)
    BY <1>0, <1>1, CalmFacts DEF Live, Leaving
  <1>3. LiveInv'
    <2>1. \A n \in 0..MaxIds : Member(n)' <=> Member(n)
      BY <1>0, <1>k DEF Member
    <2>2. retired' \subseteq 1..(nextId' - 1) /\ cooled' \subseteq 1..(nextId' - 1)
      BY <1>0, <1>k DEF Calm, Peace, LiveInv
    <2>3. \A s \in Slots : Live(s) => signals'[s].status \in Alive
      BY <1>0 DEF Calm, Peace, LiveInv
    <2>4. QED
      BY <1>0, <1>2, <2>1, <2>2, <2>3, LiveKept DEF Calm, CalmNext, Peace
  <1>4. LookupInv' /\ NewInv' /\ ~missed'
    BY <1>0, <1>2, ViewKept DEF Calm, CalmNext, Peace
  <1>5. CooledInv'
    <2>1. \A s \in Slots : s < count' => s < count
      BY <1>1, CalmFacts
    <2>2. QED
      BY <1>0, <1>k, <2>1 DEF Calm, Peace, CooledInv
  <1>6. DropInv' /\ MonitorInv'
    BY <1>0 DEF DropInv, MonitorInv
  <1>7. QED
    BY <1>3, <1>4, <1>5, <1>6 DEF Peace

-----------------------------------------------------------------------------
(* The invariant.                                                          *)

KafkaStep ==
    (\E m \in Kinds, p \in Problems : Receive(m, p)) \/ Scan \/ ScanEnds \/ Create \/ CountUpLoad
      \/ CountUpStore \/ Find \/ Write

MonitorStep ==
    Wake \/ Visit \/ Open \/ Close \/ DropEntities \/ Shift \/ CountDownLoad \/ CountDownStore
      \/ VisitsEnd \/ Sweep \/ SweepEnds

LEMMA InitStep == Init => IInv
  <1> SUFFICES ASSUME Init PROVE IInv
    OBVIOUS
  <1> USE ConstantsOK DEF Init
  <1>1. 0 \in Slots /\ Zeroed \in ActiveSignal
    BY DEF Slots, Zeroed, ActiveSignal
  <1>2. signals \in [Slots -> ActiveSignal]
    BY <1>1
  <1>3. TypeOK
    <2>1. loaded \in [{"kafka", "monitor"} -> 0..MaxSignals]
      BY 0 \in 0..MaxSignals
    <2>2. missed \in BOOLEAN /\ conflict \in BOOLEAN
      OBVIOUS
    <2>3. Types
      BY <1>1, <1>2, <2>1 DEF Types, Kinds
    <2>4. QED
      BY <2>2, <2>3, TypeParts
  <1>4. CountInv /\ ConflictInv
    BY DEF CountInv, ConflictInv, Conflicting
  <1>5. \A s \in Slots : ~(s < count)
    BY DEF Slots
  <1>6. LiveInv
    BY <1>5 DEF LiveInv, Live, Member
  <1>7. DropInv /\ LookupInv /\ NewInv /\ MonitorInv /\ CooledInv /\ ~missed
    BY <1>5 DEF DropInv, LookupInv, NewInv, MonitorInv, CooledInv
  <1>8. QED
    BY <1>3, <1>4, <1>6, <1>7 DEF IInv, Peace

\* missed only changes to a Boolean.
LEMMA MissedType ==
    ASSUME missed \in BOOLEAN, KafkaStep \/ MonitorStep
    PROVE  missed' \in BOOLEAN
  <1>1. CASE missed' = missed
    BY <1>1
  <1>2. ASSUME NEW x, missed' = (missed \/ x) PROVE missed' \in BOOLEAN
    <2>1. (missed \/ x) \in BOOLEAN
      OBVIOUS
    <2>2. QED
      BY <1>2, <2>1, Zenon
  <1>3. CASE Scan
    <2>1. missed' = missed \/ missed' = (missed \/ signals[j].problem # problem)
      BY <1>3 DEF Scan
    <2>2. QED
      BY <1>1, <1>2, <2>1
  <1>4. CASE Write
    <2>1. missed' = (missed \/ signals[j].id # closing)
      BY <1>4 DEF Write
    <2>2. QED
      BY <1>2, <2>1
  <1>5. CASE ~Scan /\ ~Write
    <2>1. missed' = missed
      BY <1>5 DEF KafkaStep, MonitorStep, Receive, ScanEnds, Create, CountUpLoad, CountUpStore, Find, Wake,
        Visit, Open, Close, DropEntities, Shift, CountDownLoad, CountDownStore, VisitsEnd, Sweep, SweepEnds,
        monitorFrame, kafkaVars
    <2>2. QED
      BY <1>1, <2>1
  <1>6. QED
    BY <1>3, <1>4, <1>5

LEMMA PeaceStep ==
    ASSUME Calm, CalmNext, KafkaStep \/ MonitorStep
    PROVE  Peace'
  <1>1. CASE KafkaStep
    BY <1>1, ReceiveStep, ScanStep, ScanEndsStep, CreateStep, CountUpLoadStep, CountUpStoreStep, FindStep,
      WriteStep DEF KafkaStep
  <1>2. CASE MonitorStep
    BY <1>2, WakeStep, VisitStep, OpenStep, CloseStep, DropEntitiesStep, ShiftStep, CountDownLoadStep,
      CountDownStoreStep, VisitsEndStep, SweepStep, SweepEndsStep DEF MonitorStep
  <1>3. QED
    BY <1>1, <1>2

-----------------------------------------------------------------------------
(* The life cycle of a signal, whatever slot it is in.                     *)

LEMMA StateFacts ==
    ASSUME Calm
    PROVE  /\ \A n \in retired : StateOf(n) = "away"
           /\ \A s \in Slots : Live(s) => StateOf(signals[s].id) = signals[s].status
           /\ \A n \in 1..MaxIds :
                n \notin retired /\ (\A s \in Slots : Live(s) => signals[s].id # n) => StateOf(n) = "none"
  <1>1. \A n \in retired : StateOf(n) = "away"
    BY DEF StateOf
  <1>2. ASSUME NEW s \in Slots, Live(s) PROVE StateOf(signals[s].id) = signals[s].status
    <2>1. PICK n : n = signals[s].id
      OBVIOUS
    <2>2. n \notin retired /\ signals[s].status \in Alive
      BY <1>2, <2>1 DEF Calm, Peace, LiveInv, Member
    <2>3. \A t \in Slots : Live(t) /\ signals[t].id = n => t = s
      BY <1>2, <2>1 DEF Calm, Peace, LiveInv
    <2>4. \A x : Shows(n, x) <=> x = signals[s].status
      BY <1>2, <2>1, <2>3 DEF Shows
    <2>5. StateOf(n) = signals[s].status
      BY <2>2, <2>4 DEF StateOf, Alive
    <2>6. QED
      BY <2>1, <2>5
  <1>3. ASSUME NEW n \in 1..MaxIds, n \notin retired, \A s \in Slots : Live(s) => signals[s].id # n
        PROVE  StateOf(n) = "none"
    <2>1. \A x : ~Shows(n, x)
      BY <1>3 DEF Shows
    <2>2. QED
      BY <1>3, <2>1 DEF StateOf
  <1>4. QED
    BY <1>1, <1>2, <1>3

\* Signal n goes from one stage to the next, the others stay.
Moves(n, from, to) ==
    /\ n \in 1..MaxIds /\ StateOf(n) \in from /\ StateOf(n)' = to
    /\ \A x \in 1..MaxIds : x # n => StateOf(x)' = StateOf(x)

LEMMA MovePass ==
    ASSUME NEW n, \/ Moves(n, {"none"}, "warmUp") \/ Moves(n, {"warmUp"}, "open")
                  \/ Moves(n, Alive, "coolDown") \/ Moves(n, {"coolDown"}, "away")
    PROVE  n \in 1..MaxIds /\ Pass(n)
  <1>1. ASSUME NEW from, NEW to, Moves(n, from, to)
        PROVE  n \in 1..MaxIds /\ Lifecycle!Move(n, from, to)
    <2>1. State[n] \in from /\ n \in 1..MaxIds
      BY <1>1 DEF Moves, State
    <2>2. State' = [x \in 1..MaxIds |-> IF x = n THEN to ELSE StateOf(x)]
      BY <1>1 DEF Moves, State
    <2>3. [State EXCEPT ![n] = to] = [x \in 1..MaxIds |-> IF x = n THEN to ELSE StateOf(x)]
      BY DEF State
    <2>4. QED
      BY <2>1, <2>2, <2>3 DEF Lifecycle!Move
  <1>2. QED
    BY <1>1 DEF Pass, Lifecycle!Raise, Lifecycle!Confirm, Lifecycle!Clear, Lifecycle!Retire, Lifecycle!Live, Alive

\* A step that leaves every live signal where it is.
LEMMA StateKept ==
    ASSUME retired' = retired,
           \A s \in Slots : Live(s)' <=> Live(s),
           \A s \in Slots : Live(s) =>
               signals'[s].id = signals[s].id /\ signals'[s].status = signals[s].status
    PROVE  \A n \in 1..MaxIds : StateOf(n)' = StateOf(n)
  <1>1. \A n, x : Shows(n, x)' <=> Shows(n, x)
    BY DEF Shows
  <1>2. QED
    BY <1>1 DEF StateOf

\* A step that changes the status of one live signal.
LEMMA StateMoved ==
    ASSUME Calm, retired' = retired, NEW s \in Slots, Live(s), NEW to \in Alive,
           \A t \in Slots : Live(t)' <=> Live(t),
           \A t \in Slots : /\ signals'[t].id = signals[t].id
                            /\ signals'[t].status = IF t = s THEN to ELSE signals[t].status
    PROVE  Moves(signals[s].id, {signals[s].status}, to)
  <1>1. PICK n : n = signals[s].id
    OBVIOUS
  <1>2. n \in 1..MaxIds /\ n \notin retired /\ StateOf(n) = signals[s].status
    BY <1>1, StateFacts, CalmFacts DEF Calm, Peace, LiveInv, Member
  <1>3. \A t \in Slots : Live(t) /\ signals[t].id = n <=> t = s
    BY <1>1 DEF Calm, Peace, LiveInv
  <1>4. \A x : Shows(n, x)' <=> x = to
    BY <1>3 DEF Shows
  <1>5. StateOf(n)' = to
    BY <1>2, <1>4 DEF StateOf, Alive
  <1>6. ASSUME NEW m \in 1..MaxIds, m # n PROVE StateOf(m)' = StateOf(m)
    <2>1. \A x : Shows(m, x)' <=> Shows(m, x)
      BY <1>1, <1>6 DEF Shows
    <2>2. QED
      BY <2>1 DEF StateOf
  <1>7. QED
    BY <1>1, <1>2, <1>5, <1>6 DEF Moves

\* One signal passes on, or none does.
Passes == (\A n \in 1..MaxIds : StateOf(n)' = StateOf(n)) \/ \E n \in 1..MaxIds : Pass(n)

LEMMA QuietPasses ==
    ASSUME UNCHANGED <<signals, count, retired>>, \A s \in Slots : Live(s)' <=> Live(s)
    PROVE  Passes
  BY StateKept DEF Passes

LEMMA CreatePasses ==
    ASSUME Calm, Create
    PROVE  Passes
  <1>0. count' = count /\ retired' = retired /\ \A s \in Slots : Live(s)' <=> Live(s)
    BY DEF Create, kafkaFrame, monitorVars, Live, Leaving
  <1>1. ASSUME NEW s \in Slots, Live(s) PROVE signals'[s] = signals[s]
    <2>1. s # count
      BY <1>1, CalmFacts DEF Live
    <2>2. QED
      BY <2>1 DEF Create, Calm, Types
  <1>2. QED
    BY <1>0, <1>1, StateKept DEF Passes

\* The signal that was created shows once it is counted.
LEMMA CountUpStorePasses ==
    ASSUME Calm, CountUpStore
    PROVE  Passes
  <1>n. PICK n : n = nextId - 1
    OBVIOUS
  <1>0. /\ kafka = "store" /\ UNCHANGED signals /\ UNCHANGED retired
        /\ count' = loaded["kafka"] + 1 /\ UNCHANGED <<monitor, i, k>>
    BY DEF CountUpStore, kafkaFrame, monitorVars
  <1>1. /\ count < MaxSignals /\ count' = count + 1 /\ signals[count].id = n /\ nextId > 1
        /\ n \notin retired /\ signals[count].status = "warmUp"
    BY <1>0, <1>n DEF Calm, Peace, NewInv
  <1>2. count \in Slots /\ n \in 1..MaxIds
    BY <1>1, <1>n, CalmFacts
  <1>3. monitor \notin {"shift", "load", "store", "sweep"} /\ (monitor = "drop" => i < count)
    BY <1>0, ConflictFacts DEF Calm, CountInv
  <1>4. \A s \in Slots : Live(s)' <=> Live(s) \/ s = count
    BY <1>0, <1>1, <1>3, CalmFacts DEF Live, Leaving
  <1>5. \A s \in Slots : Live(s) => signals[s].id # n
    BY <1>0, <1>n DEF Calm, Peace, LiveInv, Member
  <1>6. StateOf(n) = "none"
    BY <1>1, <1>2, <1>5, StateFacts
  <1>7. StateOf(n)' = "warmUp"
    <2>1. Shows(n, "warmUp")'
      BY <1>0, <1>1, <1>2, <1>4 DEF Shows
    <2>2. QED
      BY <1>0, <1>1, <2>1 DEF StateOf
  <1>8. ASSUME NEW m \in 1..MaxIds, m # n PROVE StateOf(m)' = StateOf(m)
    <2>1. \A x : Shows(m, x)' <=> Shows(m, x)
      BY <1>0, <1>1, <1>4, <1>8 DEF Shows
    <2>2. QED
      BY <1>0, <2>1 DEF StateOf
  <1>9. Moves(n, {"none"}, "warmUp")
    BY <1>2, <1>6, <1>7, <1>8 DEF Moves
  <1>10. QED
    BY <1>9, MovePass DEF Passes

\* The signal that a message closes may just have been retired.
LEMMA WritePasses ==
    ASSUME Calm, Write
    PROVE  Passes
  <1>0. kafka = "write" /\ count' = count /\ UNCHANGED <<monitor, i, k, retired>>
    BY DEF Write, kafkaFrame, monitorVars
  <1>1. j < count /\ j \in Slots
    BY <1>0, CalmFacts DEF Calm, Peace, LookupInv
  <1>2. \A t \in Slots : /\ signals'[t].id = signals[t].id
                         /\ signals'[t].status = IF t = j THEN "coolDown" ELSE signals[t].status
    BY <1>1, StatusSet DEF Write, Calm
  <1>3. \A s \in Slots : Live(s)' <=> Live(s)
    BY <1>0 DEF Live, Leaving
  <1>4. CASE Live(j)
    <2>1. signals[j].status \in Alive
      BY <1>1, <1>4 DEF Calm, Peace, LiveInv
    <2>2. Moves(signals[j].id, {signals[j].status}, "coolDown")
      <3>1. "coolDown" \in Alive
        BY DEF Alive
      <3>2. QED
        BY <1>0, <1>1, <1>2, <1>3, <1>4, <3>1, StateMoved
    <2>3. Moves(signals[j].id, Alive, "coolDown")
      BY <2>1, <2>2 DEF Moves
    <2>4. QED
      BY <2>3, MovePass DEF Passes
  <1>5. CASE ~Live(j)
    <2>1. \A s \in Slots : Live(s) => signals'[s].id = signals[s].id /\ signals'[s].status = signals[s].status
      BY <1>2, <1>5
    <2>2. QED
      BY <1>0, <1>3, <2>1, StateKept DEF Passes
  <1>6. QED
    BY <1>4, <1>5

LEMMA OpenPasses ==
    ASSUME Calm, Open
    PROVE  Passes
  <1>0. /\ monitor = "open" /\ monitor' = "visit" /\ UNCHANGED <<count, retired>>
        /\ signals' = [signals EXCEPT ![i].status = "open"]
    BY DEF Open
  <1>1. i < count /\ i \in Slots /\ signals[i].status = "warmUp"
    BY <1>0, CalmFacts DEF Calm, CountInv, Peace, MonitorInv
  <1>2. \A t \in Slots : /\ signals'[t].id = signals[t].id
                         /\ signals'[t].status = IF t = i THEN "open" ELSE signals[t].status
    BY <1>0, <1>1, StatusSet DEF Calm
  <1>3. \A s \in Slots : Live(s)' <=> Live(s)
    BY <1>0 DEF Live, Leaving
  <1>4. Live(i) /\ "open" \in Alive
    BY <1>0, <1>1 DEF Live, Leaving, Alive
  <1>5. Moves(signals[i].id, {"warmUp"}, "open")
    BY <1>0, <1>1, <1>2, <1>3, <1>4, StateMoved
  <1>6. QED
    BY <1>5, MovePass DEF Passes

LEMMA ClosePasses ==
    ASSUME Calm, Close
    PROVE  Passes
  <1>0. /\ monitor = "close" /\ monitor' = "drop" /\ UNCHANGED <<count, i>>
        /\ signals' = [signals EXCEPT ![i].status = "closed"] /\ retired' = retired \cup {signals[i].id}
    BY DEF Close
  <1>1. i < count /\ i \in Slots /\ Live(i) /\ signals[i].status = "coolDown"
    BY <1>0, CalmFacts DEF Calm, CountInv, Live, Leaving, Peace, MonitorInv
  <1>2. \A t \in Slots : /\ signals'[t].id = signals[t].id
                         /\ signals'[t].status = IF t = i THEN "closed" ELSE signals[t].status
    BY <1>0, <1>1, StatusSet DEF Calm
  <1>3. \A s \in Slots : Live(s)' <=> Live(s) /\ s # i
    BY <1>0 DEF Live, Leaving
  <1>4. PICK n : n = signals[i].id
    OBVIOUS
  <1>5. n \in 1..MaxIds /\ StateOf(n) = "coolDown" /\ StateOf(n)' = "away"
    <2>1. n \in 1..MaxIds
      BY <1>1, <1>4, CalmFacts DEF Calm, Peace, LiveInv, Member
    <2>2. StateOf(n) = "coolDown"
      BY <1>1, <1>4, StateFacts
    <2>3. StateOf(n)' = "away"
      BY <1>0, <1>4 DEF StateOf
    <2>4. QED
      BY <2>1, <2>2, <2>3
  <1>6. ASSUME NEW m \in 1..MaxIds, m # n PROVE StateOf(m)' = StateOf(m)
    <2>1. \A x : Shows(m, x)' <=> Shows(m, x)
      BY <1>2, <1>3, <1>4, <1>6 DEF Shows
    <2>2. QED
      BY <1>0, <1>4, <1>6, <2>1 DEF StateOf
  <1>7. Moves(n, {"coolDown"}, "away")
    BY <1>5, <1>6 DEF Moves
  <1>8. QED
    BY <1>7, MovePass DEF Passes

\* A signal that moves up a slot keeps its stage.
LEMMA ShiftPasses ==
    ASSUME Calm, Shift
    PROVE  Passes
  <1>0. monitor = "shift" /\ UNCHANGED <<count, retired>> /\ k < count /\ k \in Slots
    BY CalmFacts DEF Shift, Calm, CountInv
  <1>1. CASE ~MoreToShift /\ monitor' = "load" /\ UNCHANGED <<signals, k>>
    <2>1. \A s \in Slots : Live(s)' <=> Live(s)
      BY <1>0, <1>1, CalmFacts DEF Live, Leaving, MoreToShift
    <2>2. QED
      BY <1>0, <1>1, <2>1, QuietPasses
  <1>2. CASE MoreToShift /\ signals' = [signals EXCEPT ![k] = signals[k + 1]] /\ k' = k + 1 /\ monitor' = monitor
    <2>1. k + 1 < count /\ k + 1 \in Slots
      BY <1>2, CalmFacts, SlotFacts DEF MoreToShift
    <2>2. signals'[k] = signals[k + 1] /\ \A t \in Slots : t # k => signals'[t] = signals[t]
      BY <1>0, <1>2 DEF Calm, Types
    <2>3. \A s \in Slots : /\ Live(s) <=> s < count /\ s # k
                           /\ Live(s)' <=> s < count /\ s # k + 1
      BY <1>0, <1>2 DEF Live, Leaving
    <2>4. k # k + 1
      BY CalmFacts
    <2>5. ASSUME NEW n, NEW x PROVE Shows(n, x)' <=> Shows(n, x)
      <3>1. ASSUME Shows(n, x)' PROVE Shows(n, x)
        <4>1. PICK s \in Slots : Live(s)' /\ signals'[s].id = n /\ signals'[s].status = x
          BY <3>1 DEF Shows
        <4>2. CASE s = k
          <5>1. Live(k + 1) /\ signals[k + 1].id = n /\ signals[k + 1].status = x
            BY <2>1, <2>2, <2>3, <2>4, <4>1, <4>2
          <5>2. QED
            BY <2>1, <5>1 DEF Shows
        <4>3. CASE s # k
          BY <2>2, <2>3, <4>1, <4>3 DEF Shows
        <4>4. QED
          BY <4>2, <4>3
      <3>2. ASSUME Shows(n, x) PROVE Shows(n, x)'
        <4>1. PICK s \in Slots : Live(s) /\ signals[s].id = n /\ signals[s].status = x
          BY <3>2 DEF Shows
        <4>2. CASE s = k + 1
          <5>1. PICK r \in Slots : r = k
            BY <1>0
          <5>2. Live(r)' /\ signals'[r].id = n /\ signals'[r].status = x
            BY <1>0, <2>2, <2>3, <2>4, <4>1, <4>2, <5>1
          <5>3. QED
            BY <5>2 DEF Shows
        <4>3. CASE s # k + 1
          BY <2>2, <2>3, <4>1, <4>3 DEF Shows
        <4>4. QED
          BY <4>2, <4>3
      <3>3. QED
        BY <3>1, <3>2
    <2>6. \A n \in 1..MaxIds : StateOf(n)' = StateOf(n)
      BY <1>0, <2>5 DEF StateOf
    <2>7. QED
      BY <2>6 DEF Passes
  <1>3. QED
    BY <1>1, <1>2 DEF Shift

LEMMA StepPasses ==
    ASSUME Calm, KafkaStep \/ MonitorStep
    PROVE  Passes
  <1>1. ASSUME NEW m \in Kinds, NEW p \in Problems, Receive(m, p) PROVE Passes
    BY <1>1, QuietPasses DEF Receive, kafkaFrame, monitorVars, Live, Leaving
  <1>2. CASE Scan \/ ScanEnds \/ CountUpLoad \/ Find
    <2>1. UNCHANGED <<signals, count, retired, monitor, i, k>>
      BY <1>2 DEF Scan, ScanEnds, CountUpLoad, Find, kafkaFrame, monitorVars
    <2>2. QED
      BY <2>1, QuietPasses DEF Live, Leaving
  <1>3. CASE Wake \/ Visit \/ VisitsEnd
    <2>1. /\ UNCHANGED <<signals, count, retired>>
          /\ monitor \in {"asleep", "visit"} /\ monitor' \in {"visit", "open", "close", "sweep"}
      BY <1>3 DEF Wake, Visit, VisitsEnd
    <2>2. QED
      BY <2>1, QuietPasses DEF Live, Leaving
  <1>4. CASE CountDownLoad
    <2>1. UNCHANGED <<signals, count, retired>> /\ monitor = "load" /\ monitor' = "store"
      BY <1>4 DEF CountDownLoad
    <2>2. QED
      BY <2>1, QuietPasses DEF Live, Leaving
  <1>5. CASE CountDownStore
    <2>1. UNCHANGED <<signals, retired>> /\ monitor = "store" /\ monitor' = "visit" /\ count' = count - 1
      BY <1>5 DEF CountDownStore, Calm, Peace, MonitorInv
    <2>2. \A s \in Slots : Live(s)' <=> Live(s)
      BY <2>1, CalmFacts DEF Live, Leaving
    <2>3. QED
      BY <2>1, <2>2, StateKept DEF Passes
  <1>6. CASE Sweep
    <2>1. /\ monitor = "sweep" /\ monitor' = "sweep" /\ i < count /\ UNCHANGED <<count, retired>>
          /\ k = i /\ i \in Slots
      BY <1>6, CalmFacts DEF Sweep, Calm, Peace, MonitorInv
    <2>2. signals[i].status # "closed"
      BY <2>1 DEF Calm, Peace, LiveInv, Live, Leaving, Alive
    <2>3. signals' = [signals EXCEPT ![i] = signals[i]]
      BY <1>6, <2>1, <2>2 DEF Sweep
    <2>4. signals' = signals
      BY <2>1, <2>3 DEF Calm, Types
    <2>5. QED
      BY <2>1, <2>4, QuietPasses DEF Live, Leaving
  <1>7. CASE SweepEnds
    <2>1. UNCHANGED <<signals, retired>> /\ monitor = "sweep" /\ monitor' = "asleep" /\ count' = k /\ i >= count
      BY <1>7 DEF SweepEnds
    <2>2. count' = count
      BY <2>1, CalmFacts DEF Calm, Peace, MonitorInv, CountInv
    <2>3. QED
      BY <2>1, <2>2, QuietPasses DEF Live, Leaving
  <1>8. CASE DropEntities
    <2>1. /\ monitor = "drop" /\ monitor' = "shift" /\ k' = i /\ UNCHANGED <<count, retired>>
          /\ signals' = [signals EXCEPT ![i].problem = NoProblem]
      BY <1>8 DEF DropEntities
    <2>2. i \in Slots
      BY <2>1, CalmFacts DEF Calm, CountInv
    <2>3. \A t \in Slots : signals'[t].id = signals[t].id /\ signals'[t].status = signals[t].status
      BY <2>1, <2>2, EntitiesDropped DEF Calm
    <2>4. \A s \in Slots : Live(s)' <=> Live(s)
      BY <2>1 DEF Live, Leaving
    <2>5. QED
      BY <2>1, <2>3, <2>4, StateKept DEF Passes
  <1>9. QED
    BY <1>1, <1>2, <1>3, <1>4, <1>5, <1>6, <1>7, <1>8, CreatePasses, CountUpStorePasses, WritePasses,
      OpenPasses, ClosePasses, ShiftPasses DEF KafkaStep, MonitorStep

\* What a message closed is closed, wherever it is.
CooledShow == ~conflict => \A n \in cooled : StateOf(n) \in {"coolDown", "away"}

LEMMA CooledShown ==
    ASSUME Calm, NEW n \in cooled
    PROVE  StateOf(n) \in {"coolDown", "away"}
  <1>1. n \in 1..(nextId - 1) /\ n \in 1..MaxIds
    BY CalmFacts DEF Calm, Peace, LiveInv
  <1>2. CASE n \in retired
    BY <1>2, StateFacts
  <1>3. CASE n \notin retired
    <2>1. Member(n)
      BY <1>1, <1>3 DEF Member, Calm, Peace, NewInv
    <2>2. PICK s \in Slots : Live(s) /\ signals[s].id = n
      BY <1>1, <2>1 DEF Calm, Peace, LiveInv
    <2>3. signals[s].status \in Alive /\ signals[s].status \in {"coolDown", "closed"}
      BY <2>2 DEF Calm, Peace, LiveInv, CooledInv, Live
    <2>4. StateOf(n) = signals[s].status
      BY <2>2, StateFacts
    <2>5. QED
      BY <2>3, <2>4 DEF Alive
  <1>4. QED
    BY <1>2, <1>3

-----------------------------------------------------------------------------
LEMMA NextStep == IInv /\ [Next]_vars => IInv'
  <1> SUFFICES ASSUME IInv, [Next]_vars PROVE IInv'
    OBVIOUS
  <1>0. Types /\ CountInv /\ ConflictInv /\ missed \in BOOLEAN /\ conflict \in BOOLEAN
    BY TypeParts DEF IInv
  <1>1. CASE UNCHANGED vars
    <2> USE <1>1 DEF vars, kafkaVars, monitorVars
    <2>1. TypeOK' /\ CountInv' /\ ConflictInv'
      BY DEF IInv, TypeOK, CountInv, ConflictInv, Conflicting
    <2>2. LiveInv => LiveInv'
      BY DEF LiveInv, Live, Leaving, Member
    <2>3. NewInv /\ LookupInv => NewInv' /\ LookupInv'
      BY DEF NewInv, LookupInv, Live, Leaving
    <2>4. DropInv /\ MonitorInv /\ CooledInv /\ ~missed => DropInv' /\ MonitorInv' /\ CooledInv' /\ ~missed'
      BY DEF DropInv, MonitorInv, CooledInv
    <2>5. QED
      BY <2>1, <2>2, <2>3, <2>4 DEF IInv, Peace
  <1>2. CASE KafkaStep \/ MonitorStep
    <2>1. Types' /\ CountInv'
      BY <1>0, <1>2, KafkaTypes, MonitorTypes DEF KafkaStep, MonitorStep
    <2>2. Watch
      BY <1>2 DEF KafkaStep, MonitorStep, Receive, Scan, ScanEnds, Create, CountUpLoad, CountUpStore, Find, Write,
        Wake, Visit, Open, Close, DropEntities, Shift, CountDownLoad, CountDownStore, VisitsEnd, Sweep, SweepEnds,
        monitorFrame, kafkaFrame
    <2>3. conflict' \in BOOLEAN /\ ConflictInv' /\ (~conflict' => ~conflict)
      BY <2>2, WatchFacts
    <2>4. TypeOK'
      BY <1>0, <1>2, <2>1, <2>3, MissedType DEF TypeOK, Types
    <2>5. ~conflict' => Peace'
      BY <1>0, <1>2, <2>1, <2>3, PeaceStep DEF IInv, Calm, CalmNext
    <2>6. QED
      BY <2>1, <2>3, <2>4, <2>5 DEF IInv
  <1>3. QED
    BY <1>1, <1>2 DEF Next, KafkaStep, MonitorStep

LEMMA Inductive == Spec => []IInv
  BY InitStep, NextStep, PTL DEF Spec

LEMMA TableFollows == IInv => TableSound
  <1> SUFFICES ASSUME IInv, ~conflict, AtRest
               PROVE  /\ {signals[s].id : s \in 0..(count - 1)} = (1..(nextId - 1)) \ retired
                      /\ \A s, t \in 0..(count - 1) : signals[s].problem = signals[t].problem => s = t
    BY DEF TableSound
  <1>1. Calm
    BY TypeParts DEF IInv, Calm
  <1>2. \A s \in 0..(count - 1) : s \in Slots /\ Live(s)
    BY <1>1, CalmFacts, ConstantsOK DEF Slots, Live, Leaving, AtRest
  <1>3. \A s \in Slots : Live(s) => s \in 0..(count - 1)
    BY <1>1, CalmFacts DEF Slots, Live
  <1>4. \A n \in 0..MaxIds : Member(n) <=> n \in (1..(nextId - 1)) \ retired
    BY DEF Member, AtRest
  <1>5. ASSUME NEW s \in 0..(count - 1)
        PROVE  signals[s].id \in (1..(nextId - 1)) \ retired
    BY <1>1, <1>2 DEF Calm, Peace, LiveInv, Member
  <1>6. ASSUME NEW n \in (1..(nextId - 1)) \ retired
        PROVE  \E s \in 0..(count - 1) : signals[s].id = n
    <2>1. n \in 1..MaxIds /\ n \in 0..MaxIds
      BY <1>1, CalmFacts
    <2>2. PICK s \in Slots : Live(s) /\ signals[s].id = n
      BY <1>1, <1>4, <2>1 DEF Calm, Peace, LiveInv
    <2>3. QED
      BY <1>3, <2>2
  <1>7. \A s, t \in 0..(count - 1) : signals[s].problem = signals[t].problem => s = t
    BY <1>1, <1>2 DEF Calm, Peace, LiveInv
  <1>8. QED
    BY <1>5, <1>6, <1>7

\* Every variable keeps its type: no index or count leaves the array, whatever the
\* threads do to each other (activeSignals.c:25-83, 301-307, 434-459).
THEOREM TypeCorrect == Spec => []TypeOK
  BY Inductive, PTL DEF IInv

\* The table holds each signal that was created and not retired, once, and one per
\* problem, unless conflicting windows overlapped.
THEOREM TableIsSound == Spec => []TableSound
  BY Inductive, TableFollows, PTL

\* The two threads together take each signal along its life cycle, one stage at a
\* time, unless conflicting windows overlapped; what a message closed is never opened
\* again (process.c:142-144, activeSignals.c:25-93, 301-307, 434-459).
THEOREM LifecycleKept == Spec => KeepsLifecycle
  <1> DEFINE A == \/ conflict'
                  \/ /\ UNCHANGED State \/ \E n \in 1..MaxIds : Pass(n)
                     /\ \A n \in cooled' : StateOf(n)' \in {"coolDown", "away"}
  <1>1. Init => Lifecycle!Init
    <2> SUFFICES ASSUME Init PROVE Lifecycle!Init
      OBVIOUS
    <2>1. \A s \in Slots : ~Live(s)
      BY DEF Init, Live, Slots
    <2>2. \A n \in 1..MaxIds : StateOf(n) = "none"
      BY <2>1 DEF Init, StateOf, Shows
    <2>3. QED
      BY <2>2 DEF Lifecycle!Init, State
  <1>2. IInv => CooledShow
    BY TypeParts, CooledShown DEF IInv, Calm, CooledShow
  <1>3. IInv /\ CooledShow' /\ [Next]_vars => [A]_vars
    <2> SUFFICES ASSUME IInv, CooledShow', Next, ~conflict'
                 PROVE  /\ UNCHANGED State \/ \E n \in 1..MaxIds : Pass(n)
                        /\ \A n \in cooled' : StateOf(n)' \in {"coolDown", "away"}
      OBVIOUS
    <2>1. \A n \in cooled' : StateOf(n)' \in {"coolDown", "away"}
      BY DEF CooledShow
    <2>2. KafkaStep \/ MonitorStep
      BY DEF Next, KafkaStep, MonitorStep
    <2>3. ~conflict
      <3>1. Watch
        BY <2>2 DEF KafkaStep, MonitorStep, Receive, Scan, ScanEnds, Create, CountUpLoad, CountUpStore, Find, Write,
          Wake, Visit, Open, Close, DropEntities, Shift, CountDownLoad, CountDownStore, VisitsEnd, Sweep, SweepEnds,
          monitorFrame, kafkaFrame
      <3>2. QED
        BY <3>1, WatchFacts
    <2>4. Calm
      BY <2>3, TypeParts DEF Calm, IInv
    <2>5. Passes
      BY <2>2, <2>4, StepPasses
    <2>6. CASE \A n \in 1..MaxIds : StateOf(n)' = StateOf(n)
      BY <2>1, <2>6 DEF State
    <2>7. CASE \E n \in 1..MaxIds : Pass(n)
      BY <2>1, <2>7
    <2>8. QED
      BY <2>5, <2>6, <2>7 DEF Passes
  <1>4. Spec => Lifecycle!Init /\ [][A]_vars
    BY <1>1, <1>2, <1>3, Inductive, PTL DEF Spec
  <1>5. QED
    BY <1>4 DEF KeepsLifecycle

\* A message acts on the signal of its own problem, unless conflicting windows
\* overlapped.
THEOREM RightOne == Spec => []RightSignal
  <1>1. IInv => RightSignal
    BY DEF IInv, Peace, RightSignal
  <1>2. QED
    BY <1>1, Inductive, PTL
=============================================================================
