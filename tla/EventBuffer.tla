----------------------------- MODULE EventBuffer -----------------------------
(***************************************************************************)
(* The syslog event consumer, src/syslogs/consumer/{main,process,bulk}.c:  *)
(* the Kafka thread turns messages into events and appends them to         *)
(* opensearch_events_buffer, alerts to kafka_signals_buffer too, and sends *)
(* a buffer it finds full; every DATA_FLUSH_INTERVAL seconds the flush     *)
(* thread sends both.  No lock protects the buffers or their counts.       *)
(*                                                                         *)
(* One action is one access to a shared buffer or count.  An event is its  *)
(* Kafka offset; a slot holds a pointer, so it can outlive its event.      *)
(* Once a thread has used a freed event the behaviour is undefined: the    *)
(* model stops the process there, and claims nothing of it.                *)
(***************************************************************************)
EXTENDS Naturals

CONSTANTS
    Size,                 \* DATA_FLUSH_SIZE
    MaxOffset, MaxCrashes \* bounds of the model

ASSUME ConstantsOK == Size \in Nat \ {0} /\ MaxOffset \in Nat /\ MaxCrashes \in Nat

Offsets == 1..MaxOffset
Slots == 0..(Size - 1)
Buffers == {"events", "alerts"}
Threads == {"kafka", "flush"}
Null == 0

VARIABLES
    committed,            \* Kafka: the last offset committed
    up, run,              \* is there a process, and its flag run
    position,             \* the offset the Kafka thread read last
    slot, count,          \* the arrays and their counts
    freed,                \* events freed by json_decref
    phase, at,            \* what each thread is doing, and to which buffer
    n, index,             \* each thread's count argument and loop index
    load,                 \* the events in each thread's bulk_payload
    wild,                 \* has a thread used a freed event?
    crashes,              \* counts crashes, for the bound
    accepted, sent,       \* history: events this process appended, and sent
    overlapped            \* history: appended while the flush thread was draining

kafkaVars == <<committed, position>>
bufferVars == <<slot, count, freed, wild>>
threadVars == <<phase, at, n, index, load>>
historyVars == <<accepted, sent>>
vars == <<kafkaVars, up, run, bufferVars, threadVars, crashes, historyVars, overlapped>>

Running == up /\ ~wild

Held(b) == {slot[b][i] : i \in 0..(count[b] - 1)} \ {Null}

\* Thread t goes on to phase p of buffer b.
Goes(t, p, b) ==
    /\ phase' = [phase EXCEPT ![t] = p]
    /\ at' = [at EXCEPT ![t] = b]

Stays == UNCHANGED <<phase, at>>

\* Thread t uses event e of buffer b.
Uses(b, e) == wild' = (e \in freed[b])

\* Is the Kafka thread appending to buffer b while the flush thread drains it?
Overlap(b) ==
    /\ at["kafka"] = b /\ phase["kafka"] \notin {"poll", "check", "commit"}
    /\ at["flush"] = b /\ phase["flush"] \in {"build", "post", "free", "produce", "reset"}

\* What every step of a thread adds to the history.
Watch ==
    overlapped' = [b \in Buffers |->
        IF Overlap(b)' THEN overlapped[b] \cup {position'} ELSE overlapped[b]]

-----------------------------------------------------------------------------
(* Draining a buffer: send_bulk_to_opensearch and the loop after it, and   *)
(* send_bulk_to_kafka.  Both threads do it.                                *)

drainFrame == UNCHANGED <<kafkaVars, up, run, slot, crashes, accepted>>

\* Mutant: the last event is left out.
BuildShort(t) ==
    /\ Running /\ phase[t] = "build"
    /\ IF index[t] + 1 < n[t]
       THEN LET e == slot["events"][index[t]] IN
            /\ load' = [load EXCEPT ![t] = @ \cup ({e} \ {Null})]
            /\ Uses("events", e)
            /\ index' = [index EXCEPT ![t] = @ + 1]
            /\ Stays
       ELSE /\ Goes(t, "post", "events")
            /\ index' = [index EXCEPT ![t] = 0]
            /\ UNCHANGED <<load, wild>>
    /\ drainFrame /\ UNCHANGED <<count, freed, n, sent>>
    /\ Watch

\* bulk_payload is built from the first n events.
Build(t) ==
    /\ Running /\ phase[t] = "build"
    /\ IF index[t] < n[t]
       THEN LET e == slot["events"][index[t]] IN
            /\ load' = [load EXCEPT ![t] = @ \cup ({e} \ {Null})]
            /\ Uses("events", e)
            /\ index' = [index EXCEPT ![t] = @ + 1]
            /\ Stays
       ELSE /\ Goes(t, "post", "events")
            /\ index' = [index EXCEPT ![t] = 0]
            /\ UNCHANGED <<load, wild>>
    /\ drainFrame /\ UNCHANGED <<count, freed, n, sent>>
    /\ Watch

\* Three attempts at each of three nodes; an answer ends them, whatever it says
\* of each document.  What became of the events is not looked at, so "sent" is
\* all there is to know here.
Post(t) ==
    /\ Running /\ phase[t] = "post"
    /\ sent' = [sent EXCEPT !["events"] = @ \cup load[t]]
    /\ load' = [load EXCEPT ![t] = {}]
    /\ Goes(t, "free", "events")
    /\ drainFrame /\ UNCHANGED <<bufferVars, n, index>>
    /\ Watch

\* The loop reads the count again at every turn.
Free(t) ==
    /\ Running /\ phase[t] = "free"
    /\ IF index[t] < count["events"]
       THEN LET e == slot["events"][index[t]] IN
            /\ freed' = [freed EXCEPT !["events"] = @ \cup ({e} \ {Null})]
            /\ Uses("events", e)
            /\ index' = [index EXCEPT ![t] = @ + 1]
            /\ Stays
       ELSE /\ Goes(t, "reset", "events")
            /\ index' = [index EXCEPT ![t] = 0]
            /\ UNCHANGED <<freed, wild>>
    /\ drainFrame /\ UNCHANGED <<count, n, load, sent>>
    /\ Watch

\* rd_kafka_producev takes the alert or fails; it is freed either way.  After
\* the last one the thread waits up to a second for the broker.
Produce(t) ==
    /\ Running /\ phase[t] = "produce"
    /\ IF index[t] < count["alerts"]
       THEN LET e == slot["alerts"][index[t]] IN
            /\ sent' = [sent EXCEPT !["alerts"] = @ \cup ({e} \ {Null})]
            /\ freed' = [freed EXCEPT !["alerts"] = @ \cup ({e} \ {Null})]
            /\ Uses("alerts", e)
            /\ index' = [index EXCEPT ![t] = @ + 1]
            /\ Stays
       ELSE /\ Goes(t, "reset", "alerts")
            /\ index' = [index EXCEPT ![t] = 0]
            /\ UNCHANGED <<freed, wild, sent>>
    /\ drainFrame /\ UNCHANGED <<count, n, load>>
    /\ Watch

\* What comes after the drain.
AfterDrain(t) == IF t = "kafka" THEN "take" ELSE IF at[t] = "events" THEN "produce" ELSE "again"

\* Mutant: the count is left as it is.
ResetNot(t) ==
    /\ Running /\ phase[t] = "reset"
    /\ Goes(t, AfterDrain(t), IF t = "flush" THEN "alerts" ELSE at[t])
    /\ drainFrame /\ UNCHANGED <<bufferVars, n, index, load, sent>>
    /\ Watch

Reset(t) ==
    /\ Running /\ phase[t] = "reset"
    /\ count' = [count EXCEPT ![at[t]] = 0]
    /\ Goes(t, AfterDrain(t), IF t = "flush" THEN "alerts" ELSE at[t])
    /\ drainFrame /\ UNCHANGED <<freed, wild, n, index, load, sent>>
    /\ Watch

Drain(t) == Build(t) \/ Post(t) \/ Free(t) \/ Produce(t) \/ Reset(t)

-----------------------------------------------------------------------------
(* The Kafka thread (process.c, and add_alert_to_kafka_bulk).              *)

kafkaFrame == UNCHANGED <<up, run, load, sent, crashes>>

PollNothing == Running /\ phase["kafka"] = "poll" /\ UNCHANGED vars

\* A message that is broken is skipped, one without a known mnemonic only
\* committed; the others are events, and some of those alerts.
PollMessage ==
    /\ Running /\ phase["kafka"] = "poll" /\ position < MaxOffset
    /\ position' = position + 1
    /\ \/ Stays
       \/ Goes("kafka", "commit", "events")
       \/ \E b \in Buffers : Goes("kafka", "check", b)
    /\ kafkaFrame /\ UNCHANGED <<committed, bufferVars, n, index, accepted>>
    /\ Watch

\* Mutant: a full buffer is taken for one with room.
HasRoomLate(b) == count[b] <= Size

HasRoom(b) == count[b] < Size

\* A full buffer is drained first.
Check ==
    LET b == at["kafka"] IN
    /\ Running /\ phase["kafka"] = "check"
    /\ n' = [n EXCEPT !["kafka"] = count[b]]
    /\ \/ HasRoom(b) /\ Goes("kafka", "take", b)
       \/ ~HasRoom(b) /\ Goes("kafka", IF b = "events" THEN "build" ELSE "produce", b)
    /\ kafkaFrame /\ UNCHANGED <<kafkaVars, bufferVars, index, accepted>>
    /\ Watch

\* buffer[count++] = event: the count is read, then the new count and the slot
\* are written, in either order.
Take ==
    /\ Running /\ phase["kafka"] = "take"
    /\ index' = [index EXCEPT !["kafka"] = count[at["kafka"]]]
    /\ Goes("kafka", "store", at["kafka"])
    /\ kafkaFrame /\ UNCHANGED <<kafkaVars, bufferVars, n, accepted>>
    /\ Watch

\* After an alert comes its event, after the event the commit.
Stored(b) ==
    /\ accepted' = [accepted EXCEPT ![b] = @ \cup {position}]
    /\ index' = [index EXCEPT !["kafka"] = 0]
    /\ IF b = "alerts" THEN Goes("kafka", "check", "events") ELSE Goes("kafka", "commit", "events")

Bump ==
    LET b == at["kafka"] IN
    /\ Running /\ phase["kafka"] \in {"store", "bump"}
    /\ count' = [count EXCEPT ![b] = index["kafka"] + 1]
    /\ \/ phase["kafka"] = "store" /\ Goes("kafka", "fill", b) /\ UNCHANGED <<index, accepted>>
       \/ phase["kafka"] = "bump" /\ Stored(b)
    /\ kafkaFrame /\ UNCHANGED <<kafkaVars, slot, freed, wild, n>>
    /\ Watch

Fill ==
    LET b == at["kafka"] IN
    /\ Running /\ phase["kafka"] \in {"store", "fill"}
    /\ slot' = [slot EXCEPT ![b][index["kafka"]] = position]
    /\ \/ phase["kafka"] = "store" /\ Goes("kafka", "bump", b) /\ UNCHANGED <<index, accepted>>
       \/ phase["kafka"] = "fill" /\ Stored(b)
    /\ kafkaFrame /\ UNCHANGED <<kafkaVars, count, freed, wild, n>>
    /\ Watch

\* The outcome of the commit is not looked at.
CommitMessage ==
    /\ Running /\ phase["kafka"] = "commit"
    /\ committed' \in {committed, position}
    /\ Goes("kafka", "poll", "events")
    /\ kafkaFrame /\ UNCHANGED <<position, bufferVars, n, index, accepted>>
    /\ Watch

-----------------------------------------------------------------------------
(* The flush thread (main.c).                                              *)

flushFrame == UNCHANGED <<kafkaVars, up, run, bufferVars, index, load, crashes, historyVars>>

\* Mutant: events wait for a full buffer.
WakeWhenFull ==
    /\ Running /\ phase["flush"] = "sleep"
    /\ n' = [n EXCEPT !["flush"] = count["events"]]
    /\ \/ count["events"] = Size /\ Goes("flush", "build", "events")
       \/ count["events"] < Size /\ Goes("flush", "produce", "alerts")
    /\ flushFrame
    /\ Watch

Wake ==
    /\ Running /\ phase["flush"] = "sleep"
    /\ n' = [n EXCEPT !["flush"] = count["events"]]
    /\ \/ count["events"] > 0 /\ Goes("flush", "build", "events")
       \/ count["events"] = 0 /\ Goes("flush", "produce", "alerts")
    /\ flushFrame
    /\ Watch

Again ==
    /\ Running /\ phase["flush"] = "again"
    /\ Goes("flush", IF run THEN "sleep" ELSE "ended", "events")
    /\ flushFrame /\ UNCHANGED n
    /\ Watch

-----------------------------------------------------------------------------
(* The process.                                                            *)

Sigterm ==
    /\ up /\ run
    /\ run' = FALSE
    /\ UNCHANGED <<kafkaVars, up, bufferVars, threadVars, crashes, historyVars>>
    /\ Watch

NoEvents == [b \in Buffers |-> {}]
NoCount == [b \in Buffers |-> 0]
NoSlots == [b \in Buffers |-> [i \in Slots |-> Null]]
Zero == [t \in Threads |-> 0]
Start == [t \in Threads |-> IF t = "kafka" THEN "poll" ELSE "sleep"]

\* The C library aborts a process that has used a freed event; another is
\* killed.  What it held is gone.
Crash ==
    /\ up /\ (wild \/ crashes < MaxCrashes)
    /\ up' = FALSE
    /\ crashes' = IF wild THEN crashes ELSE crashes + 1
    /\ slot' = NoSlots /\ count' = NoCount /\ freed' = NoEvents /\ wild' = FALSE
    /\ phase' = Start /\ at' = [t \in Threads |-> "events"]
    /\ n' = Zero /\ index' = Zero /\ load' = [t \in Threads |-> {}]
    /\ accepted' = NoEvents /\ sent' = NoEvents /\ overlapped' = NoEvents
    /\ UNCHANGED <<kafkaVars, run>>

Restart ==
    /\ ~up
    /\ up' = TRUE /\ run' = TRUE
    /\ position' = committed
    /\ UNCHANGED <<committed, bufferVars, threadVars, crashes, historyVars, overlapped>>

Init ==
    /\ committed = 0 /\ position = 0
    /\ up = TRUE /\ run = TRUE
    /\ slot = NoSlots /\ count = NoCount /\ freed = NoEvents /\ wild = FALSE
    /\ phase = Start /\ at = [t \in Threads |-> "events"]
    /\ n = Zero /\ index = Zero /\ load = [t \in Threads |-> {}]
    /\ crashes = 0
    /\ accepted = NoEvents /\ sent = NoEvents /\ overlapped = NoEvents

KafkaThread == PollMessage \/ Check \/ Take \/ Bump \/ Fill \/ CommitMessage \/ Drain("kafka")

FlushThread == Wake \/ Again \/ Drain("flush")

Next ==
    \/ PollNothing
    \/ PollMessage
    \/ Check
    \/ Take
    \/ Bump
    \/ Fill
    \/ CommitMessage
    \/ Wake
    \/ Again
    \/ \E t \in Threads : Build(t)
    \/ \E t \in Threads : Post(t)
    \/ \E t \in Threads : Free(t)
    \/ \E t \in Threads : Produce(t)
    \/ \E t \in Threads : Reset(t)
    \/ Sigterm
    \/ Crash
    \/ Restart

\* Both threads are scheduled; no signal, crash or restart is owed.
Fairness == WF_vars(KafkaThread) /\ WF_vars(FlushThread)

Spec == Init /\ [][Next]_vars /\ Fairness

-----------------------------------------------------------------------------
(* Properties.                                                             *)

Phases == {"poll", "check", "take", "store", "bump", "fill", "commit", "sleep", "again",
           "ended", "build", "post", "free", "produce", "reset"}

\* Every variable stays in its type; no count leaves its array, whatever the
\* threads overwrite of each other's (process.c:167-177, bulk.c:188-197).
TypeOK ==
    /\ committed \in 0..MaxOffset /\ position \in 0..MaxOffset
    /\ up \in BOOLEAN /\ run \in BOOLEAN /\ wild \in BOOLEAN
    /\ slot \in [Buffers -> [Slots -> 0..MaxOffset]] /\ count \in [Buffers -> 0..Size]
    /\ phase \in [Threads -> Phases] /\ at \in [Threads -> Buffers]
    /\ n \in [Threads -> 0..Size] /\ index \in [Threads -> 0..Size]
    /\ load \in [Threads -> SUBSET Offsets]
    /\ \A s \in {freed, accepted, sent, overlapped} :
          s \in [Buffers -> SUBSET Offsets]
    /\ crashes \in 0..MaxCrashes

\* An event that was appended is in the buffer or was sent, unless its append
\* fell into a drain by the flush thread (main.c:41-54): that window, and a
\* crash, are the only ways to lose one silently.
NothingLost ==
    up => \A b \in Buffers :
        accepted[b] \subseteq Held(b) \cup sent[b] \cup overlapped[b]

\* Thread t is about to post an event that this process posted before.
Repeats(t) == phase[t] = "post" /\ load[t] \cap sent["events"] # {}

\* An event is in two bulks, or is used after it was freed, only after such an
\* overlap: without one a drain, by either thread, takes each event once
\* (main.c:41-54, process.c:167-177, bulk.c:57-93).  The attempts at one bulk
\* are one post.
DrainedOnce == (wild \/ \E t \in Threads : Repeats(t)) => \E b \in Buffers : overlapped[b] # {}

\* While the process runs, no event stays in a buffer for ever (main.c:31-63).
FlushComes ==
    [](Running /\ run) =>
        \A b \in Buffers : \A e \in Offsets : (e \in Held(b)) ~> (e \notin Held(b))

\* "initiating graceful shutdown" (main.c:23): a process told to stop ends.
GracefulShutdown == ~run ~> ~up
=============================================================================
