---------------------------- MODULE SignalThreads ----------------------------
(***************************************************************************)
(* How the Kafka thread and the monitor thread of the signal service       *)
(* (src/syslogs/signals, and its twin src/traps/signals) share the array   *)
(* active_signals and active_signal_count: no lock protects either, and    *)
(* status_update_mutex is never taken.                                     *)
(*                                                                         *)
(* One action is one access to the array or to the count.  A problem is    *)
(* what a message is about and a signal stands for (device, rule, tags);   *)
(* all problems are of one rule and one device.  Delays may be over at any *)
(* time; Redis, OpenSearch, rules and restarts are in ActiveSignals.       *)
(***************************************************************************)
EXTENDS Naturals

CONSTANTS
    Problems,
    MaxSignals,           \* MAX_SIGNALS, the size of the array
    NoProblem,            \* affectedEntities = NULL
    MaxIds, MaxMessages   \* bounds of the model

ASSUME ConstantsOK ==
    /\ NoProblem \notin Problems
    /\ MaxSignals \in Nat \ {0} /\ MaxIds \in Nat /\ MaxMessages \in Nat

Slots == 0..(MaxSignals - 1)
Kinds == {"open", "close"}

\* A slot the sweep has zeroed has id 0, and no device to match.
ActiveSignal ==
    [id : 0..MaxIds, problem : Problems \cup {NoProblem},
     status : {"none", "warmUp", "open", "coolDown", "closed"}]

Zeroed == [id |-> 0, problem |-> NoProblem, status |-> "none"]

VARIABLES
    signals, count,       \* active_signals, active_signal_count
    nextId,               \* the next fresh signalId
    kafka, kind, problem, \* Kafka thread: program counter, and its match
    j, matched,           \* Kafka thread: loop index; slot matched_signal points to
    monitor, i, k,        \* monitor thread: program counter and loop indices
    loaded,               \* what each thread read of the count
    messages,             \* counts messages, for the bound
    closing,              \* history: signal the Kafka thread says it closes
    cooled, retired,      \* history: signals closed by a message; retired by the monitor
    missed,               \* history: has a closed message hit another signal,
                          \* or an open one been taken for another problem?
    conflict              \* history: have two windows that conflict overlapped?

kafkaVars == <<nextId, kafka, kind, problem, j, matched, messages, closing, cooled, missed>>
monitorVars == <<monitor, i, k, retired>>
vars == <<signals, count, kafkaVars, monitorVars, loaded, conflict>>

\* The windows of the two threads that do not tolerate each other: a signal
\* that is retired moves the others under the Kafka thread's index, pointer and
\* count; the sweep ends with a store of the count; a promotion is a store of
\* the status.
Conflicting ==
    \/ monitor \in {"shift", "load", "store"} /\ kafka \notin {"idle", "create"}
    \/ monitor = "sweep" /\ kafka = "store"
    \/ monitor = "open" /\ kafka = "write"

Watch == conflict' = (conflict \/ Conflicting')

-----------------------------------------------------------------------------
(* The Kafka thread (process.c, createSignal and closeSignal).             *)

kafkaFrame == UNCHANGED monitorVars /\ Watch

Receive(m, p) ==
    /\ kafka = "idle" /\ messages < MaxMessages
    /\ messages' = messages + 1
    /\ kafka' = "scan" /\ kind' = m /\ problem' = p /\ j' = 0
    /\ UNCHANGED <<signals, count, nextId, matched, loaded, closing, cooled, missed>>
    /\ kafkaFrame

\* Mutant: the lookup does not compare the entities.
FindActiveSignalsOfRule(s) == s.id # 0

\* Entities that are NULL match every message.
FindActiveSignals(s) == s.id # 0 /\ s.problem \in {problem, NoProblem}

\* One turn of the loop over active_signals.
Scan ==
    /\ kafka = "scan" /\ j < count
    /\ \/ /\ ~FindActiveSignals(signals[j])
          /\ j' = j + 1
          /\ UNCHANGED <<kafka, matched, closing, missed>>
       \/ /\ FindActiveSignals(signals[j])
          /\ kafka' = IF kind = "open" THEN "idle" ELSE "find"
          /\ matched' = j /\ closing' = signals[j].id
          /\ missed' = (missed \/ signals[j].problem # problem)
          /\ j' = 0
    /\ UNCHANGED <<signals, count, nextId, kind, problem, loaded, messages, cooled>>
    /\ kafkaFrame

\* Nothing matched.
ScanEnds ==
    /\ kafka = "scan" /\ j >= count
    /\ kafka' = IF kind = "open" THEN "create" ELSE "idle"
    /\ UNCHANGED <<signals, count, nextId, kind, problem, j, matched, loaded, messages,
                   closing, cooled, missed>>
    /\ kafkaFrame

\* Mutant: the limit is tested too late.
HasRoomLate == count <= MaxSignals

HasRoom == count < MaxSignals

\* createSignal fills the slot behind the last one.
Create ==
    /\ kafka = "create"
    /\ \/ /\ HasRoom /\ nextId <= MaxIds
          /\ signals' = [signals EXCEPT ![count] =
                [id |-> nextId, problem |-> problem, status |-> "warmUp"]]
          /\ nextId' = nextId + 1
          /\ kafka' = "load"
       \/ ~HasRoom /\ kafka' = "idle" /\ UNCHANGED <<signals, nextId>>
    /\ UNCHANGED <<count, kind, problem, j, matched, loaded, messages, closing, cooled, missed>>
    /\ kafkaFrame

\* active_signal_count++ is a load and a store.
CountUpLoad ==
    /\ kafka = "load"
    /\ kafka' = "store"
    /\ loaded' = [loaded EXCEPT !["kafka"] = count]
    /\ UNCHANGED <<signals, count, nextId, kind, problem, j, matched, messages,
                   closing, cooled, missed>>
    /\ kafkaFrame

CountUpStore ==
    /\ kafka = "store"
    /\ count' = loaded["kafka"] + 1
    /\ kafka' = "idle"
    /\ UNCHANGED <<signals, nextId, kind, problem, j, matched, loaded, messages,
                   closing, cooled, missed>>
    /\ kafkaFrame

\* closeSignal looks for the id that matched_signal, a pointer into the array,
\* shows at that moment.
Find ==
    /\ kafka = "find"
    /\ \/ j < count /\ signals[j].id = signals[matched].id /\ kafka' = "write" /\ UNCHANGED j
       \/ j < count /\ signals[j].id # signals[matched].id /\ j' = j + 1 /\ UNCHANGED kafka
       \/ j >= count /\ kafka' = "idle" /\ UNCHANGED j
    /\ UNCHANGED <<signals, count, nextId, kind, problem, matched, loaded, messages,
                   closing, cooled, missed>>
    /\ kafkaFrame

\* Mutant: the status is only changed from open.
WriteIfOpen ==
    /\ kafka = "write"
    /\ signals' = [signals EXCEPT ![j].status = IF @ = "open" THEN "coolDown" ELSE @]
    /\ kafka' = "idle"
    /\ cooled' = cooled \cup {signals[j].id}
    /\ missed' = (missed \/ signals[j].id # closing)
    /\ UNCHANGED <<count, nextId, kind, problem, j, matched, loaded, messages, closing>>
    /\ kafkaFrame

Write ==
    /\ kafka = "write"
    /\ signals' = [signals EXCEPT ![j].status = "coolDown"]
    /\ kafka' = "idle"
    /\ cooled' = cooled \cup {signals[j].id}
    /\ missed' = (missed \/ signals[j].id # closing)
    /\ UNCHANGED <<count, nextId, kind, problem, j, matched, loaded, messages, closing>>
    /\ kafkaFrame

-----------------------------------------------------------------------------
(* The monitor thread (updateSignalStates, close_signal and                *)
(* removeClosedSignals).                                                   *)

monitorFrame == UNCHANGED kafkaVars /\ Watch

Wake ==
    /\ monitor = "asleep"
    /\ monitor' = "visit" /\ i' = 0
    /\ UNCHANGED <<signals, count, k, loaded, retired>>
    /\ monitorFrame

\* The delay of signal i is over, or it is not.
Visit ==
    /\ monitor = "visit" /\ i < count
    /\ \/ signals[i].status = "warmUp" /\ monitor' = "open" /\ UNCHANGED i
       \/ signals[i].status = "coolDown" /\ monitor' = "close" /\ UNCHANGED i
       \/ i' = i + 1 /\ UNCHANGED monitor
    /\ UNCHANGED <<signals, count, k, loaded, retired>>
    /\ monitorFrame

Open ==
    /\ monitor = "open"
    /\ signals' = [signals EXCEPT ![i].status = "open"]
    /\ monitor' = "visit" /\ i' = i + 1
    /\ UNCHANGED <<count, k, loaded, retired>>
    /\ monitorFrame

Close ==
    /\ monitor = "close"
    /\ signals' = [signals EXCEPT ![i].status = "closed"]
    /\ retired' = retired \cup {signals[i].id}
    /\ monitor' = "drop"
    /\ UNCHANGED <<count, i, k, loaded>>
    /\ monitorFrame

DropEntities ==
    /\ monitor = "drop"
    /\ signals' = [signals EXCEPT ![i].problem = NoProblem]
    /\ monitor' = "shift" /\ k' = i
    /\ UNCHANGED <<count, i, loaded, retired>>
    /\ monitorFrame

\* Mutant: the last signal is not moved.
MoreToShiftShort == k + 2 < count

MoreToShift == k + 1 < count

Shift ==
    /\ monitor = "shift"
    /\ \/ /\ MoreToShift
          /\ signals' = [signals EXCEPT ![k] = signals[k + 1]]
          /\ k' = k + 1
          /\ UNCHANGED monitor
       \/ ~MoreToShift /\ monitor' = "load" /\ UNCHANGED <<signals, k>>
    /\ UNCHANGED <<count, i, loaded, retired>>
    /\ monitorFrame

CountDownLoad ==
    /\ monitor = "load"
    /\ loaded' = [loaded EXCEPT !["monitor"] = count]
    /\ monitor' = "store"
    /\ UNCHANGED <<signals, count, i, k, retired>>
    /\ monitorFrame

CountDownStore ==
    /\ monitor = "store"
    /\ count' = loaded["monitor"] - 1
    /\ monitor' = "visit"
    /\ UNCHANGED <<signals, i, k, loaded, retired>>
    /\ monitorFrame

\* removeClosedSignals: i reads, k writes.
VisitsEnd ==
    /\ monitor = "visit" /\ i >= count
    /\ monitor' = "sweep" /\ i' = 0 /\ k' = 0
    /\ UNCHANGED <<signals, count, loaded, retired>>
    /\ monitorFrame

Sweep ==
    /\ monitor = "sweep" /\ i < count
    /\ \/ /\ signals[i].status # "closed"
          /\ signals' = [signals EXCEPT ![k] = signals[i]]
          /\ k' = k + 1
       \/ /\ signals[i].status = "closed"
          /\ signals' = [signals EXCEPT ![i] = Zeroed]
          /\ UNCHANGED k
    /\ i' = i + 1
    /\ UNCHANGED <<count, monitor, loaded, retired>>
    /\ monitorFrame

SweepEnds ==
    /\ monitor = "sweep" /\ i >= count
    /\ count' = k
    /\ monitor' = "asleep"
    /\ UNCHANGED <<signals, i, k, loaded, retired>>
    /\ monitorFrame

-----------------------------------------------------------------------------

Init ==
    /\ signals = [s \in Slots |-> Zeroed] /\ count = 0 /\ nextId = 1
    /\ kafka = "idle" /\ kind = "open" /\ problem \in Problems /\ j = 0 /\ matched = 0
    /\ monitor = "asleep" /\ i = 0 /\ k = 0
    /\ loaded = [t \in {"kafka", "monitor"} |-> 0]
    /\ messages = 0 /\ closing = 0 /\ cooled = {} /\ retired = {}
    /\ missed = FALSE /\ conflict = FALSE

Next ==
    \/ \E m \in Kinds, p \in Problems : Receive(m, p)
    \/ Scan
    \/ ScanEnds
    \/ Create
    \/ CountUpLoad
    \/ CountUpStore
    \/ Find
    \/ Write
    \/ Wake
    \/ Visit
    \/ Open
    \/ Close
    \/ DropEntities
    \/ Shift
    \/ CountDownLoad
    \/ CountDownStore
    \/ VisitsEnd
    \/ Sweep
    \/ SweepEnds

Spec == Init /\ [][Next]_vars

-----------------------------------------------------------------------------
(* Properties.                                                             *)

\* Every variable stays in its type: whatever the threads do to each other, no
\* index leaves the array (activeSignals.c:25-83, 301-307, 434-459).
TypeOK ==
    /\ signals \in [Slots -> ActiveSignal] /\ count \in 0..MaxSignals
    /\ nextId \in 1..(MaxIds + 1)
    /\ kafka \in {"idle", "scan", "create", "load", "store", "find", "write"}
    /\ kind \in Kinds /\ problem \in Problems
    /\ j \in 0..MaxSignals /\ matched \in Slots
    /\ monitor \in {"asleep", "visit", "open", "close", "drop", "shift", "load", "store", "sweep"}
    /\ i \in 0..MaxSignals /\ k \in 0..MaxSignals
    /\ loaded \in [{"kafka", "monitor"} -> 0..MaxSignals]
    /\ messages \in 0..MaxMessages /\ closing \in 0..MaxIds
    /\ cooled \subseteq 0..MaxIds /\ retired \subseteq 0..MaxIds
    /\ missed \in BOOLEAN /\ conflict \in BOOLEAN

AtRest == kafka \notin {"load", "store"} /\ monitor \in {"asleep", "visit", "open", "close"}

\* Unless conflicting windows overlapped, the table holds every signal that was
\* created and not retired, once, and one per problem.
TableSound ==
    ~conflict /\ AtRest =>
        /\ {signals[s].id : s \in 0..(count - 1)} = (1..(nextId - 1)) \ retired
        /\ \A s, t \in 0..(count - 1) : signals[s].problem = signals[t].problem => s = t

\* The slot of a signal that is leaving the table: its successors move up.
Leaving(s) ==
    \/ monitor = "drop" /\ s = i
    \/ monitor = "shift" /\ s = k
    \/ monitor \in {"load", "store"} /\ s + 1 = count

Live(s) == s < count /\ ~Leaving(s)

\* Where the signal with id n is on its way through SignalLifecycle: wherever in
\* the array it is, and nowhere until it is counted.
Shows(n, status) == \E s \in Slots : Live(s) /\ signals[s].id = n /\ signals[s].status = status

StateOf(n) ==
    IF n \in retired THEN "away"
    ELSE IF Shows(n, "warmUp") THEN "warmUp"
    ELSE IF Shows(n, "open") THEN "open"
    ELSE IF Shows(n, "coolDown") THEN "coolDown"
    ELSE "none"

State == [n \in 1..MaxIds |-> StateOf(n)]

Lifecycle == INSTANCE SignalLifecycle WITH
                 Ids <- 1..MaxIds, Foreign <- {}, state <- State

Pass(n) == Lifecycle!Raise(n) \/ Lifecycle!Confirm(n) \/ Lifecycle!Clear(n) \/ Lifecycle!Retire(n)

\* Unless conflicting windows overlapped, the two threads together take each
\* signal along its life cycle, one signal and one stage at a time: none vanishes
\* or comes back while the array moves under the threads, and one that a message
\* closed is never opened again (process.c:142-144, activeSignals.c:25-93,
\* 301-307, 434-459).
KeepsLifecycle ==
    /\ Lifecycle!Init
    /\ [][\/ conflict'
          \/ /\ UNCHANGED State \/ \E n \in 1..MaxIds : Pass(n)
             /\ \A n \in cooled' : StateOf(n)' \in {"coolDown", "away"}]_vars

\* Unless conflicting windows overlapped, a message acts on the signal of its
\* own problem.
RightSignal == missed => conflict

\* "Closing existing signal ID %s" (process.c:142): the signal that is closed
\* is the one announced.
ClosesAnnounced == kafka = "write" => signals[j].id = closing
=============================================================================
