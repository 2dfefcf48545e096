--------------------------- MODULE EventBufferProofs ---------------------------
(***************************************************************************)
(* What EventBuffer promises, for any size of the buffers, any number of   *)
(* events and any number of crashes: an event is lost, sent twice or freed *)
(* twice only where its append overlapped a drain, or two drains raced.    *)
(***************************************************************************)
EXTENDS EventBuffer, TLAPS

DrainPhases == {"build", "post", "free", "produce", "reset"}
AppendPhases == {"take", "store", "fill", "bump"}

\* Slot i of buffer b holds nothing that could still be lost.
Done(b, i) == slot[b][i] \in {Null} \cup sent[b] \cup overlapped[b]

\* Thread t is draining buffer b; the Kafka thread is writing an event to it.
Draining(t, b) == phase[t] \in DrainPhases /\ at[t] = b
Writing(p, b) == phase["kafka"] \in p /\ at["kafka"] = b

\* What a thread's place says of its index and of the buffer it is at.
PlaceInv ==
    /\ phase["kafka"] \in {"poll", "check", "commit"} \cup AppendPhases \cup DrainPhases
    /\ phase["flush"] \in {"sleep", "again", "ended"} \cup DrainPhases
    /\ \A t \in Threads :
          /\ phase[t] \in {"build", "post", "free"} => at[t] = "events"
          /\ phase[t] = "produce" => at[t] = "alerts"
          /\ phase[t] \notin {"build", "free", "produce", "store", "fill", "bump"} => index[t] = 0
    /\ phase["kafka"] = "take" => count[at["kafka"]] < Size
    /\ phase["kafka"] \in {"store", "fill", "bump"} => index["kafka"] < Size
    /\ phase["kafka"] # "poll" => position \in Offsets
    /\ ~up => phase["kafka"] = "poll" /\ accepted = NoEvents

\* The event in the Kafka thread's hand was not appended yet.
NewInv ==
    /\ \A b \in Buffers : accepted[b] \subseteq 1..position
    /\ phase["kafka"] \notin {"poll", "commit"} =>
          position \notin accepted["events"] \cup accepted[at["kafka"]]

OverlapInv == \A b \in Buffers : Overlap(b) => position \in overlapped[b]

\* An event that was appended is in the buffer, was sent, or fell into a drain.
Kept(b) == accepted[b] \subseteq Held(b) \cup sent[b] \cup overlapped[b]

\* What is behind the count was sent or fell into a drain.
Behind(b) ==
    \A i \in Slots : Done(b, i) \/ i < count[b] \/ (Writing({"bump"}, b) /\ i = index["kafka"])

\* The count does not pass the slot that is written, unless a drain resets it.
Hand(b) ==
    /\ Writing({"store", "bump"}, b) => count[b] <= index["kafka"]
    /\ Writing({"store", "fill"}, b) => Done(b, index["kafka"])
    /\ Writing({"bump"}, b) => slot[b][index["kafka"]] = position
    /\ Writing({"fill"}, b) =>
          /\ count[b] <= index["kafka"] + 1
          /\ count[b] = index["kafka"] + 1 \/ position \in overlapped[b]

SlotInv == \A b \in Buffers : Kept(b) /\ Behind(b) /\ Hand(b)

\* What a drain has passed was sent, or is in its payload, or fell into it.
Drained(t) ==
    /\ phase[t] = "build" =>
          \A i \in Slots : i < count["events"] =>
              Done("events", i) \/ slot["events"][i] \in load[t] \/ (index[t] <= i /\ i < n[t])
    /\ phase[t] = "post" =>
          \A i \in Slots : i < count["events"] => Done("events", i) \/ slot["events"][i] \in load[t]
    /\ phase[t] = "free" => \A i \in Slots : i < count["events"] => Done("events", i)
    /\ phase[t] = "produce" => \A i \in Slots : i < index[t] => Done("alerts", i)
    /\ phase[t] = "reset" => \A i \in Slots : i < count[at[t]] => Done(at[t], i)

DrainInv == \A t \in Threads : Drained(t)

Clean == \A b \in Buffers : overlapped[b] = {}

\* Slot i of b holds an event: the Kafka thread may have counted it already.
Real(b, i) == i < count[b] /\ ~(Writing({"fill"}, b) /\ i = index["kafka"])

\* Thread t, draining b, is past slot i and has freed what it holds.
Passes(t, b, i) ==
    /\ at[t] = b
    /\ phase[t] = "reset" \/ (phase[t] \in {"free", "produce"} /\ i < index[t])

\* A buffer holds each event once, and none that is freed but by the drain that
\* goes on.
Whole(b) ==
    /\ freed[b] \subseteq accepted[b]
    /\ Writing({"store", "bump"}, b) => count[b] = index["kafka"]
    /\ Writing({"fill"}, b) => count[b] = index["kafka"] + 1
    /\ \A i \in Slots : Real(b, i) =>
          /\ slot[b][i] \in accepted[b]
          /\ slot[b][i] \in freed[b] => \E t \in Threads : Passes(t, b, i)
          /\ \A l \in Slots : Real(b, l) /\ slot[b][l] = slot[b][i] => l = i

\* So it is, and no payload is built from more than the count.
Sound ==
    /\ \A t \in Threads : phase[t] = "build" => n[t] <= count["events"]
    /\ \A b \in Buffers : Whole(b)

\* Thread t has posted the events of the buffer, which still counts them.
Posted(t) == phase[t] \in {"free", "reset"} /\ at[t] = "events"

\* No event of the buffer was sent but by the drain that goes on, and a payload
\* holds events of the buffer only.
Unsent ==
    /\ sent["events"] \subseteq accepted["events"]
    /\ \A i \in Slots :
          Real("events", i) /\ slot["events"][i] \in sent["events"] => \E t \in Threads : Posted(t)
    /\ \A t \in Threads :
          /\ phase[t] \notin {"build", "post"} => load[t] = {}
          /\ \A e \in load[t] : \E i \in Slots : Real("events", i) /\ slot["events"][i] = e

CleanInv == Clean => Sound /\ Unsent

IInv == /\ TypeOK /\ PlaceInv /\ NewInv /\ OverlapInv /\ SlotInv /\ DrainInv /\ CleanInv
        /\ (wild => ~Clean)

-----------------------------------------------------------------------------
(* Lemmas about the steps. *)

LEMMA Basics ==
    /\ "kafka" \in Threads /\ "flush" \in Threads /\ \A t \in Threads : t \in {"kafka", "flush"}
    /\ "events" \in Buffers /\ "alerts" \in Buffers /\ \A b \in Buffers : b \in {"events", "alerts"}
    /\ Null \notin Offsets
  BY DEF Threads, Buffers, Null, Offsets

\* What a step adds to the history.
LEMMA WatchFacts ==
    ASSUME TypeOK, Watch, position' \in Offsets \/ phase'["kafka"] = "poll"
    PROVE  /\ overlapped' \in [Buffers -> SUBSET Offsets]
           /\ \A b \in Buffers : overlapped[b] \subseteq overlapped'[b]
           /\ OverlapInv'
  <1>1. \A b \in Buffers : overlapped'[b] =
          IF Overlap(b)' THEN overlapped[b] \cup {position'} ELSE overlapped[b]
    BY DEF Watch
  <1>2. \A b \in Buffers : Overlap(b)' => position' \in Offsets
    BY DEF Overlap
  <1>3. \A b \in Buffers : overlapped'[b] \in SUBSET Offsets
    BY <1>1, <1>2 DEF TypeOK
  <1>4. overlapped' \in [Buffers -> SUBSET Offsets]
    BY <1>3 DEF Watch
  <1>5. OverlapInv'
    BY <1>1 DEF OverlapInv
  <1>6. QED
    BY <1>1, <1>4, <1>5

\* What every variable but the history of overlaps is.
Types ==
    /\ committed \in 0..MaxOffset /\ position \in 0..MaxOffset
    /\ up \in BOOLEAN /\ run \in BOOLEAN /\ wild \in BOOLEAN
    /\ slot \in [Buffers -> [Slots -> 0..MaxOffset]] /\ count \in [Buffers -> 0..Size]
    /\ phase \in [Threads -> Phases] /\ at \in [Threads -> Buffers]
    /\ n \in [Threads -> 0..Size] /\ index \in [Threads -> 0..Size]
    /\ load \in [Threads -> SUBSET Offsets]
    /\ freed \in [Buffers -> SUBSET Offsets] /\ accepted \in [Buffers -> SUBSET Offsets]
    /\ sent \in [Buffers -> SUBSET Offsets]
    /\ crashes \in 0..MaxCrashes

LEMMA TypeParts == TypeOK <=> Types /\ overlapped \in [Buffers -> SUBSET Offsets]
  BY DEF TypeOK, Types

\* A slot within the array holds an event or nothing.
LEMMA SlotFacts ==
    ASSUME Types, NEW b \in Buffers, NEW i \in 0..Size, i < Size
    PROVE  i \in Slots /\ slot[b][i] \in 0..MaxOffset /\ {slot[b][i]} \ {Null} \subseteq Offsets
  BY ConstantsOK DEF Types, Slots, Offsets, Null

LEMMA GoesFacts ==
    ASSUME Types, NEW t \in Threads, NEW p \in Phases, NEW b \in Buffers, Goes(t, p, b)
    PROVE  /\ phase' \in [Threads -> Phases] /\ at' \in [Threads -> Buffers]
           /\ phase'[t] = p /\ at'[t] = b
           /\ \A s \in Threads \ {t} : phase'[s] = phase[s] /\ at'[s] = at[s]
  BY DEF Types, Goes

-----------------------------------------------------------------------------
(* What each step of a thread does, thread by thread and slot by slot.      *)

\* All that thread t leaves of the other one.
OthersKept(t) ==
    \A s \in Threads \ {t} : phase'[s] = phase[s] /\ at'[s] = at[s] /\ index'[s] = index[s]
                             /\ load'[s] = load[s] /\ n'[s] = n[s]

LEMMA UsesFacts ==
    ASSUME NEW b, NEW e, Uses(b, e)
    PROVE  wild' \in BOOLEAN /\ (wild' => e \in freed[b])
  <1>1. (e \in freed[b]) \in BOOLEAN
    OBVIOUS
  <1>2. wild' \in BOOLEAN
    BY <1>1, Zenon DEF Uses
  <1>3. ASSUME wild' PROVE e \in freed[b]
    BY <1>3, Zenon DEF Uses
  <1>4. QED
    BY <1>2, <1>3

LEMMA BuildEffect ==
    ASSUME Types, PlaceInv, NEW t \in Threads, Build(t)
    PROVE  /\ Types' /\ OthersKept(t)
           /\ ~wild /\ up /\ phase[t] = "build" /\ at[t] = "events" /\ at'[t] = "events"
           /\ UNCHANGED <<committed, position, up, run, slot, crashes, accepted, count, freed, n, sent>>
           /\ \/ /\ index[t] < n[t] /\ phase'[t] = "build" /\ index'[t] = index[t] + 1
                 /\ index[t] \in Slots
                 /\ load'[t] = load[t] \cup ({slot["events"][index[t]]} \ {Null})
                 /\ wild' => slot["events"][index[t]] \in freed["events"]
              \/ /\ ~(index[t] < n[t]) /\ phase'[t] = "post" /\ index'[t] = 0
                 /\ load' = load /\ wild' = wild
  <1> USE Basics, ConstantsOK
  <1>0. /\ UNCHANGED <<committed, position, up, run, slot, crashes, accepted, count, freed, n, sent>>
        /\ ~wild /\ up /\ phase[t] = "build" /\ at[t] = "events"
    BY DEF Build, drainFrame, kafkaVars, Running, PlaceInv
  <1>1. CASE index[t] < n[t]
    <2> DEFINE e == slot["events"][index[t]]
    <2>1. /\ load' = [load EXCEPT ![t] = @ \cup ({e} \ {Null})]
          /\ Uses("events", e)
          /\ index' = [index EXCEPT ![t] = @ + 1]
          /\ phase' = phase /\ at' = at
      BY <1>1 DEF Build, Stays
    <2>2. index[t] \in 0..Size /\ index[t] < Size /\ index[t] + 1 \in 0..Size
      BY <1>1 DEF Types
    <2>3. index[t] \in Slots /\ {e} \ {Null} \subseteq Offsets
      BY <2>2, SlotFacts
    <2>4. wild' \in BOOLEAN /\ (wild' => e \in freed["events"])
      BY <2>1, UsesFacts
    <2>5. load' \in [Threads -> SUBSET Offsets] /\ index' \in [Threads -> 0..Size]
      BY <2>1, <2>2, <2>3 DEF Types
    <2>6. Types'
      BY <1>0, <2>1, <2>4, <2>5 DEF Types
    <2>7. /\ OthersKept(t) /\ phase'[t] = "build" /\ at'[t] = "events" /\ index'[t] = index[t] + 1
          /\ load'[t] = load[t] \cup ({e} \ {Null})
      BY <1>0, <2>1 DEF Types, OthersKept
    <2>8. QED
      BY <1>0, <1>1, <2>3, <2>4, <2>6, <2>7
  <1>2. CASE ~(index[t] < n[t])
    <2>1. /\ Goes(t, "post", "events") /\ "post" \in Phases
          /\ index' = [index EXCEPT ![t] = 0] /\ load' = load /\ wild' = wild
      BY <1>2 DEF Build, Phases
    <2>2. index' \in [Threads -> 0..Size]
      BY <2>1 DEF Types
    <2>3. Types'
      BY <1>0, <2>1, <2>2, GoesFacts DEF Types
    <2>4. OthersKept(t) /\ phase'[t] = "post" /\ at'[t] = "events" /\ index'[t] = 0
      BY <1>0, <2>1, GoesFacts DEF Types, OthersKept
    <2>5. QED
      BY <1>0, <1>2, <2>1, <2>3, <2>4
  <1>3. QED
    BY <1>1, <1>2

LEMMA PostEffect ==
    ASSUME Types, PlaceInv, NEW t \in Threads, Post(t)
    PROVE  /\ Types' /\ OthersKept(t)
           /\ ~wild /\ up /\ phase[t] = "post" /\ at[t] = "events" /\ at'[t] = "events"
           /\ phase'[t] = "free" /\ index' = index /\ load'[t] = {}
           /\ UNCHANGED <<committed, position, up, run, slot, crashes, accepted, count, freed, n, wild>>
           /\ sent'["events"] = sent["events"] \cup load[t] /\ sent'["alerts"] = sent["alerts"]
  <1> USE Basics, ConstantsOK
  <1>1. /\ UNCHANGED <<committed, position, up, run, slot, crashes, accepted, count, freed, n, wild, index>>
        /\ ~wild /\ up /\ phase[t] = "post" /\ at[t] = "events"
        /\ Goes(t, "free", "events") /\ "free" \in Phases
        /\ sent' = [sent EXCEPT !["events"] = @ \cup load[t]]
        /\ load' = [load EXCEPT ![t] = {}]
    BY DEF Post, drainFrame, kafkaVars, bufferVars, Running, PlaceInv, Phases
  <1>2. load[t] \subseteq Offsets
    BY DEF Types
  <1>3. sent' \in [Buffers -> SUBSET Offsets] /\ load' \in [Threads -> SUBSET Offsets]
    BY <1>1, <1>2 DEF Types
  <1>4. Types'
    BY <1>1, <1>3, GoesFacts DEF Types
  <1>5. OthersKept(t) /\ phase'[t] = "free" /\ at'[t] = "events" /\ load'[t] = {}
    BY <1>1, GoesFacts DEF Types, OthersKept
  <1>6. sent'["events"] = sent["events"] \cup load[t] /\ sent'["alerts"] = sent["alerts"]
    BY <1>1 DEF Types
  <1>7. QED
    BY <1>1, <1>4, <1>5, <1>6

LEMMA FreeEffect ==
    ASSUME Types, PlaceInv, NEW t \in Threads, Free(t)
    PROVE  /\ Types' /\ OthersKept(t)
           /\ ~wild /\ up /\ phase[t] = "free" /\ at[t] = "events" /\ at'[t] = "events"
           /\ UNCHANGED <<committed, position, up, run, slot, crashes, accepted, count, n, load, sent>>
           /\ \/ /\ index[t] < count["events"] /\ phase'[t] = "free" /\ index'[t] = index[t] + 1
                 /\ index[t] \in Slots /\ freed'["alerts"] = freed["alerts"]
                 /\ freed'["events"] = freed["events"] \cup ({slot["events"][index[t]]} \ {Null})
                 /\ wild' => slot["events"][index[t]] \in freed["events"]
              \/ /\ ~(index[t] < count["events"]) /\ phase'[t] = "reset" /\ index'[t] = 0
                 /\ freed' = freed /\ wild' = wild
  <1> USE Basics, ConstantsOK
  <1>0. /\ UNCHANGED <<committed, position, up, run, slot, crashes, accepted, count, n, load, sent>>
        /\ ~wild /\ up /\ phase[t] = "free" /\ at[t] = "events"
    BY DEF Free, drainFrame, kafkaVars, Running, PlaceInv
  <1>1. CASE index[t] < count["events"]
    <2> DEFINE e == slot["events"][index[t]]
    <2>1. /\ freed' = [freed EXCEPT !["events"] = @ \cup ({e} \ {Null})]
          /\ Uses("events", e)
          /\ index' = [index EXCEPT ![t] = @ + 1]
          /\ phase' = phase /\ at' = at
      BY <1>1 DEF Free, Stays
    <2>2. index[t] \in 0..Size /\ index[t] < Size /\ index[t] + 1 \in 0..Size
      BY <1>1 DEF Types
    <2>3. index[t] \in Slots /\ {e} \ {Null} \subseteq Offsets
      BY <2>2, SlotFacts
    <2>4. wild' \in BOOLEAN /\ (wild' => e \in freed["events"])
      BY <2>1, UsesFacts
    <2>5. freed' \in [Buffers -> SUBSET Offsets] /\ index' \in [Threads -> 0..Size]
      BY <2>1, <2>2, <2>3 DEF Types
    <2>6. Types'
      BY <1>0, <2>1, <2>4, <2>5 DEF Types
    <2>7. /\ OthersKept(t) /\ phase'[t] = "free" /\ at'[t] = "events" /\ index'[t] = index[t] + 1
          /\ freed'["alerts"] = freed["alerts"]
          /\ freed'["events"] = freed["events"] \cup ({e} \ {Null})
      BY <1>0, <2>1 DEF Types, OthersKept
    <2>8. QED
      BY <1>0, <1>1, <2>3, <2>4, <2>6, <2>7
  <1>2. CASE ~(index[t] < count["events"])
    <2>1. /\ Goes(t, "reset", "events") /\ "reset" \in Phases
          /\ index' = [index EXCEPT ![t] = 0] /\ freed' = freed /\ wild' = wild
      BY <1>2 DEF Free, Phases
    <2>2. index' \in [Threads -> 0..Size]
      BY <2>1 DEF Types
    <2>3. Types'
      BY <1>0, <2>1, <2>2, GoesFacts DEF Types
    <2>4. OthersKept(t) /\ phase'[t] = "reset" /\ at'[t] = "events" /\ index'[t] = 0
      BY <1>0, <2>1, GoesFacts DEF Types, OthersKept
    <2>5. QED
      BY <1>0, <1>2, <2>1, <2>3, <2>4
  <1>3. QED
    BY <1>1, <1>2

LEMMA ProduceEffect ==
    ASSUME Types, PlaceInv, NEW t \in Threads, Produce(t)
    PROVE  /\ Types' /\ OthersKept(t)
           /\ ~wild /\ up /\ phase[t] = "produce" /\ at[t] = "alerts" /\ at'[t] = "alerts"
           /\ UNCHANGED <<committed, position, up, run, slot, crashes, accepted, count, n, load>>
           /\ \/ /\ index[t] < count["alerts"] /\ phase'[t] = "produce" /\ index'[t] = index[t] + 1
                 /\ index[t] \in Slots
                 /\ freed'["events"] = freed["events"] /\ sent'["events"] = sent["events"]
                 /\ freed'["alerts"] = freed["alerts"] \cup ({slot["alerts"][index[t]]} \ {Null})
                 /\ sent'["alerts"] = sent["alerts"] \cup ({slot["alerts"][index[t]]} \ {Null})
                 /\ wild' => slot["alerts"][index[t]] \in freed["alerts"]
              \/ /\ ~(index[t] < count["alerts"]) /\ phase'[t] = "reset" /\ index'[t] = 0
                 /\ freed' = freed /\ wild' = wild /\ sent' = sent
  <1> USE Basics, ConstantsOK
  <1>0. /\ UNCHANGED <<committed, position, up, run, slot, crashes, accepted, count, n, load>>
        /\ ~wild /\ up /\ phase[t] = "produce" /\ at[t] = "alerts"
    BY DEF Produce, drainFrame, kafkaVars, Running, PlaceInv
  <1>1. CASE index[t] < count["alerts"]
    <2> DEFINE e == slot["alerts"][index[t]]
    <2>1. /\ freed' = [freed EXCEPT !["alerts"] = @ \cup ({e} \ {Null})]
          /\ sent' = [sent EXCEPT !["alerts"] = @ \cup ({e} \ {Null})]
          /\ Uses("alerts", e)
          /\ index' = [index EXCEPT ![t] = @ + 1]
          /\ phase' = phase /\ at' = at
      BY <1>1 DEF Produce, Stays
    <2>2. index[t] \in 0..Size /\ index[t] < Size /\ index[t] + 1 \in 0..Size
      BY <1>1 DEF Types
    <2>3. index[t] \in Slots /\ {e} \ {Null} \subseteq Offsets
      BY <2>2, SlotFacts
    <2>4. wild' \in BOOLEAN /\ (wild' => e \in freed["alerts"])
      BY <2>1, UsesFacts
    <2>5. /\ freed' \in [Buffers -> SUBSET Offsets] /\ sent' \in [Buffers -> SUBSET Offsets]
          /\ index' \in [Threads -> 0..Size]
      BY <2>1, <2>2, <2>3 DEF Types
    <2>6. Types'
      BY <1>0, <2>1, <2>4, <2>5 DEF Types
    <2>7. /\ OthersKept(t) /\ phase'[t] = "produce" /\ at'[t] = "alerts" /\ index'[t] = index[t] + 1
          /\ freed'["events"] = freed["events"] /\ sent'["events"] = sent["events"]
          /\ freed'["alerts"] = freed["alerts"] \cup ({e} \ {Null})
          /\ sent'["alerts"] = sent["alerts"] \cup ({e} \ {Null})
      BY <1>0, <2>1 DEF Types, OthersKept
    <2>8. QED
      BY <1>0, <1>1, <2>3, <2>4, <2>6, <2>7
  <1>2. CASE ~(index[t] < count["alerts"])
    <2>1. /\ Goes(t, "reset", "alerts") /\ "reset" \in Phases /\ sent' = sent
          /\ index' = [index EXCEPT ![t] = 0] /\ freed' = freed /\ wild' = wild
      BY <1>2 DEF Produce, Phases
    <2>2. index' \in [Threads -> 0..Size]
      BY <2>1 DEF Types
    <2>3. Types'
      BY <1>0, <2>1, <2>2, GoesFacts DEF Types
    <2>4. OthersKept(t) /\ phase'[t] = "reset" /\ at'[t] = "alerts" /\ index'[t] = 0
      BY <1>0, <2>1, GoesFacts DEF Types, OthersKept
    <2>5. QED
      BY <1>0, <1>2, <2>1, <2>3, <2>4
  <1>3. QED
    BY <1>1, <1>2

LEMMA ResetEffect ==
    ASSUME Types, PlaceInv, NEW t \in Threads, Reset(t)
    PROVE  /\ Types' /\ OthersKept(t) /\ ~wild /\ up /\ phase[t] = "reset"
           /\ UNCHANGED <<committed, position, up, run, slot, crashes, accepted, freed, wild, n, index, load, sent>>
           /\ count'[at[t]] = 0 /\ \A b \in Buffers \ {at[t]} : count'[b] = count[b]
           /\ t = "kafka" => phase'[t] = "take" /\ at'[t] = at[t]
           /\ t = "flush" => at'[t] = "alerts" /\ phase'[t] \in {"produce", "again"}
  <1> USE Basics, ConstantsOK
  <1>1. /\ UNCHANGED <<committed, position, up, run, slot, crashes, accepted, freed, wild, n, index, load, sent>>
        /\ ~wild /\ up /\ phase[t] = "reset"
        /\ count' = [count EXCEPT ![at[t]] = 0]
        /\ Goes(t, AfterDrain(t), IF t = "flush" THEN "alerts" ELSE at[t])
    BY DEF Reset, drainFrame, kafkaVars, Running
  <1>2. /\ AfterDrain(t) \in Phases /\ (IF t = "flush" THEN "alerts" ELSE at[t]) \in Buffers
        /\ t = "kafka" => AfterDrain(t) = "take"
        /\ t = "flush" => AfterDrain(t) \in {"produce", "again"}
    BY DEF AfterDrain, Phases, Types
  <1>3. at[t] \in Buffers /\ count' \in [Buffers -> 0..Size]
    BY <1>1 DEF Types
  <1>4. Types'
    BY <1>1, <1>2, <1>3, GoesFacts DEF Types
  <1>5. OthersKept(t) /\ phase'[t] = AfterDrain(t) /\ at'[t] = IF t = "flush" THEN "alerts" ELSE at[t]
    BY <1>1, <1>2, GoesFacts DEF Types, OthersKept
  <1>6. count'[at[t]] = 0 /\ \A b \in Buffers \ {at[t]} : count'[b] = count[b]
    BY <1>1, <1>3 DEF Types
  <1>7. QED
    BY <1>1, <1>2, <1>4, <1>5, <1>6

LEMMA PollEffect ==
    ASSUME Types, PlaceInv, PollMessage
    PROVE  /\ Types' /\ OthersKept("kafka") /\ ~wild /\ up /\ phase["kafka"] = "poll"
           /\ UNCHANGED <<committed, up, run, slot, crashes, accepted, freed, wild, n, index, load, sent, count>>
           /\ position' = position + 1 /\ position' \in Offsets
           /\ phase'["kafka"] \in {"poll", "commit", "check"}
  <1> USE Basics, ConstantsOK
  <1>1. /\ UNCHANGED <<committed, up, run, slot, crashes, accepted, freed, wild, n, index, load, sent, count>>
        /\ ~wild /\ up /\ phase["kafka"] = "poll" /\ position' = position + 1 /\ position < MaxOffset
    BY DEF PollMessage, kafkaFrame, bufferVars, Running
  <1>2. position' \in 0..MaxOffset /\ position' \in Offsets
    BY <1>1 DEF Types, Offsets
  <1>3. CASE Stays
    BY <1>1, <1>2, <1>3 DEF Stays, Types, OthersKept
  <1>4. ASSUME NEW p \in {"commit", "check"}, NEW b \in Buffers, Goes("kafka", p, b)
        PROVE  /\ Types' /\ OthersKept("kafka") /\ phase'["kafka"] \in {"poll", "commit", "check"}
    <2>1. p \in Phases
      BY DEF Phases
    <2>2. /\ phase' \in [Threads -> Phases] /\ at' \in [Threads -> Buffers]
          /\ phase'["kafka"] = p
          /\ \A s \in Threads \ {"kafka"} : phase'[s] = phase[s] /\ at'[s] = at[s]
      BY <1>4, <2>1, GoesFacts
    <2>3. Types'
      BY <1>1, <1>2, <2>2 DEF Types
    <2>4. QED
      BY <1>1, <2>2, <2>3 DEF OthersKept
  <1>5. Stays \/ \E p \in {"commit", "check"}, b \in Buffers : Goes("kafka", p, b)
    BY DEF PollMessage
  <1>6. QED
    BY <1>1, <1>2, <1>3, <1>4, <1>5

LEMMA CheckEffect ==
    ASSUME Types, PlaceInv, Check
    PROVE  /\ Types' /\ ~wild /\ up /\ phase["kafka"] = "check" /\ at' = at
           /\ UNCHANGED <<committed, position, up, run, slot, crashes, accepted, freed, wild, index, load, sent, count>>
           /\ phase'["flush"] = phase["flush"] /\ n'["flush"] = n["flush"]
           /\ n'["kafka"] = count[at["kafka"]]
           /\ \/ count[at["kafka"]] < Size /\ phase'["kafka"] = "take"
              \/ phase'["kafka"] = "build" /\ at["kafka"] = "events"
              \/ phase'["kafka"] = "produce" /\ at["kafka"] = "alerts"
  <1> USE Basics, ConstantsOK
  <1> DEFINE b == at["kafka"]
  <1>1. /\ UNCHANGED <<committed, position, up, run, slot, crashes, accepted, freed, wild, index, load, sent, count>>
        /\ ~wild /\ up /\ phase["kafka"] = "check" /\ n' = [n EXCEPT !["kafka"] = count[b]]
    BY DEF Check, kafkaFrame, kafkaVars, bufferVars, Running
  <1>2. b \in Buffers /\ count[b] \in 0..Size
    BY DEF Types
  <1>3. n' \in [Threads -> 0..Size] /\ n'["kafka"] = count[b] /\ n'["flush"] = n["flush"]
    BY <1>1, <1>2 DEF Types
  <1>4. \E p \in {"take", "build", "produce"} :
          /\ Goes("kafka", p, b)
          /\ \/ count[b] < Size /\ p = "take"
             \/ p = "build" /\ b = "events"
             \/ p = "produce" /\ b = "alerts"
    BY <1>2 DEF Check, HasRoom
  <1>5. PICK p \in {"take", "build", "produce"} :
          /\ Goes("kafka", p, b)
          /\ \/ count[b] < Size /\ p = "take"
             \/ p = "build" /\ b = "events"
             \/ p = "produce" /\ b = "alerts"
    BY <1>4
  <1>6. p \in Phases
    BY DEF Phases
  <1>7. /\ phase' \in [Threads -> Phases] /\ at' \in [Threads -> Buffers]
        /\ phase'["kafka"] = p /\ at'["kafka"] = b
        /\ phase'["flush"] = phase["flush"] /\ at'["flush"] = at["flush"]
    BY <1>2, <1>5, <1>6, GoesFacts
  <1>8. at' = at
    <2>1. \A t \in Threads : at'[t] = at[t]
      BY <1>7
    <2>2. QED
      BY <1>7, <2>1 DEF Types
  <1>9. Types'
    BY <1>1, <1>3, <1>7 DEF Types
  <1>10. QED
    BY <1>1, <1>3, <1>5, <1>7, <1>8, <1>9

LEMMA TakeEffect ==
    ASSUME Types, PlaceInv, Take
    PROVE  /\ Types' /\ OthersKept("kafka") /\ ~wild /\ up /\ phase["kafka"] = "take"
           /\ UNCHANGED <<committed, position, up, run, slot, crashes, accepted, freed, wild, n, load, sent, count>>
           /\ at'["kafka"] = at["kafka"] /\ phase'["kafka"] = "store"
           /\ index'["kafka"] = count[at["kafka"]]
  <1> USE Basics, ConstantsOK
  <1>1. /\ UNCHANGED <<committed, position, up, run, slot, crashes, accepted, freed, wild, n, load, sent, count>>
        /\ ~wild /\ up /\ phase["kafka"] = "take"
        /\ index' = [index EXCEPT !["kafka"] = count[at["kafka"]]]
        /\ Goes("kafka", "store", at["kafka"]) /\ "store" \in Phases
    BY DEF Take, kafkaFrame, kafkaVars, bufferVars, Running, Phases
  <1>2. at["kafka"] \in Buffers /\ count[at["kafka"]] \in 0..Size
    BY DEF Types
  <1>3. index' \in [Threads -> 0..Size] /\ index'["kafka"] = count[at["kafka"]] /\ index'["flush"] = index["flush"]
    BY <1>1, <1>2 DEF Types
  <1>4. Types'
    BY <1>1, <1>2, <1>3, GoesFacts DEF Types
  <1>5. OthersKept("kafka") /\ phase'["kafka"] = "store" /\ at'["kafka"] = at["kafka"]
    BY <1>1, <1>2, <1>3, GoesFacts DEF OthersKept
  <1>6. QED
    BY <1>1, <1>3, <1>4, <1>5

\* The end of an append to the buffer the Kafka thread is at.
StoredFacts(b) ==
    /\ accepted'[b] = accepted[b] \cup {position}
    /\ \A c \in Buffers \ {b} : accepted'[c] = accepted[c]
    /\ index'["kafka"] = 0 /\ at'["kafka"] = "events"
    /\ phase'["kafka"] = IF b = "alerts" THEN "check" ELSE "commit"

LEMMA StoredEffect ==
    ASSUME Types, NEW b \in Buffers, Stored(b), position \in Offsets
    PROVE  /\ accepted' \in [Buffers -> SUBSET Offsets] /\ index' \in [Threads -> 0..Size]
           /\ phase' \in [Threads -> Phases] /\ at' \in [Threads -> Buffers]
           /\ StoredFacts(b)
           /\ phase'["flush"] = phase["flush"] /\ at'["flush"] = at["flush"]
           /\ index'["flush"] = index["flush"]
  <1> USE Basics, ConstantsOK
  <1>1. /\ accepted' = [accepted EXCEPT ![b] = @ \cup {position}]
        /\ index' = [index EXCEPT !["kafka"] = 0]
        /\ Goes("kafka", IF b = "alerts" THEN "check" ELSE "commit", "events")
        /\ (IF b = "alerts" THEN "check" ELSE "commit") \in Phases
    BY DEF Stored, Phases
  <1>2. accepted' \in [Buffers -> SUBSET Offsets] /\ index' \in [Threads -> 0..Size]
    BY <1>1 DEF Types
  <1>3. /\ accepted'[b] = accepted[b] \cup {position} /\ index'["kafka"] = 0
        /\ \A c \in Buffers \ {b} : accepted'[c] = accepted[c]
        /\ index'["flush"] = index["flush"]
    BY <1>1 DEF Types
  <1>4. QED
    BY <1>1, <1>2, <1>3, GoesFacts DEF StoredFacts

LEMMA BumpEffect ==
    ASSUME Types, PlaceInv, Bump
    PROVE  /\ Types' /\ OthersKept("kafka") /\ ~wild /\ up
           /\ UNCHANGED <<committed, position, up, run, slot, crashes, freed, wild, n, load, sent>>
           /\ count'[at["kafka"]] = index["kafka"] + 1
           /\ \A b \in Buffers \ {at["kafka"]} : count'[b] = count[b]
           /\ index["kafka"] \in Slots
           /\ \/ /\ phase["kafka"] = "store" /\ phase'["kafka"] = "fill"
                 /\ at'["kafka"] = at["kafka"] /\ UNCHANGED <<index, accepted>>
              \/ phase["kafka"] = "bump" /\ StoredFacts(at["kafka"])
  <1> USE Basics, ConstantsOK
  <1> DEFINE b == at["kafka"]
  <1>1. /\ UNCHANGED <<committed, position, up, run, slot, crashes, freed, wild, n, load, sent>>
        /\ ~wild /\ up /\ phase["kafka"] \in {"store", "bump"}
        /\ count' = [count EXCEPT ![b] = index["kafka"] + 1]
    BY DEF Bump, kafkaFrame, kafkaVars, Running
  <1>2. b \in Buffers /\ index["kafka"] \in Slots /\ index["kafka"] + 1 \in 0..Size /\ position \in Offsets
    <2>1. index["kafka"] \in 0..Size /\ index["kafka"] < Size
      BY <1>1 DEF Types, PlaceInv
    <2>2. QED
      BY <1>1, <2>1, SlotFacts DEF Types, PlaceInv
  <1>3. /\ count' \in [Buffers -> 0..Size] /\ count'[b] = index["kafka"] + 1
        /\ \A c \in Buffers \ {b} : count'[c] = count[c]
    BY <1>1, <1>2 DEF Types
  <1>4. CASE phase["kafka"] = "store"
    <2>1. Goes("kafka", "fill", b) /\ "fill" \in Phases /\ UNCHANGED <<index, accepted>>
      BY <1>4 DEF Bump, Phases
    <2>2. Types'
      BY <1>1, <1>2, <1>3, <2>1, GoesFacts DEF Types
    <2>3. OthersKept("kafka") /\ phase'["kafka"] = "fill" /\ at'["kafka"] = b
      BY <1>1, <1>2, <2>1, GoesFacts DEF OthersKept
    <2>4. QED
      BY <1>1, <1>2, <1>3, <1>4, <2>1, <2>2, <2>3
  <1>5. CASE phase["kafka"] = "bump"
    <2>1. Stored(b)
      BY <1>5 DEF Bump
    <2>2. Types'
      BY <1>1, <1>2, <1>3, <2>1, StoredEffect DEF Types
    <2>3. OthersKept("kafka") /\ StoredFacts(b)
      BY <1>1, <1>2, <2>1, StoredEffect DEF OthersKept
    <2>4. QED
      BY <1>1, <1>2, <1>3, <1>5, <2>2, <2>3
  <1>6. QED
    BY <1>1, <1>4, <1>5

LEMMA FillEffect ==
    ASSUME Types, PlaceInv, Fill
    PROVE  /\ Types' /\ OthersKept("kafka") /\ ~wild /\ up
           /\ UNCHANGED <<committed, position, up, run, count, crashes, freed, wild, n, load, sent>>
           /\ index["kafka"] \in Slots
           /\ slot'[at["kafka"]][index["kafka"]] = position
           /\ \A b \in Buffers, i \in Slots :
                 b # at["kafka"] \/ i # index["kafka"] => slot'[b][i] = slot[b][i]
           /\ \/ /\ phase["kafka"] = "store" /\ phase'["kafka"] = "bump"
                 /\ at'["kafka"] = at["kafka"] /\ UNCHANGED <<index, accepted>>
              \/ phase["kafka"] = "fill" /\ StoredFacts(at["kafka"])
  <1> USE Basics, ConstantsOK
  <1> DEFINE b == at["kafka"]
  <1>1. /\ UNCHANGED <<committed, position, up, run, count, crashes, freed, wild, n, load, sent>>
        /\ ~wild /\ up /\ phase["kafka"] \in {"store", "fill"}
        /\ slot' = [slot EXCEPT ![b][index["kafka"]] = position]
    BY DEF Fill, kafkaFrame, kafkaVars, Running
  <1>2. b \in Buffers /\ index["kafka"] \in Slots /\ position \in Offsets /\ position \in 0..MaxOffset
    <2>1. index["kafka"] \in 0..Size /\ index["kafka"] < Size
      BY <1>1 DEF Types, PlaceInv
    <2>2. QED
      BY <1>1, <2>1, SlotFacts DEF Types, PlaceInv
  <1>3. /\ slot' \in [Buffers -> [Slots -> 0..MaxOffset]] /\ slot'[b][index["kafka"]] = position
        /\ \A c \in Buffers, i \in Slots : c # b \/ i # index["kafka"] => slot'[c][i] = slot[c][i]
    BY <1>1, <1>2 DEF Types
  <1>4. CASE phase["kafka"] = "store"
    <2>1. Goes("kafka", "bump", b) /\ "bump" \in Phases /\ UNCHANGED <<index, accepted>>
      BY <1>4 DEF Fill, Phases
    <2>2. Types'
      BY <1>1, <1>2, <1>3, <2>1, GoesFacts DEF Types
    <2>3. OthersKept("kafka") /\ phase'["kafka"] = "bump" /\ at'["kafka"] = b
      BY <1>1, <1>2, <2>1, GoesFacts DEF OthersKept
    <2>4. QED
      BY <1>1, <1>2, <1>3, <1>4, <2>1, <2>2, <2>3
  <1>5. CASE phase["kafka"] = "fill"
    <2>1. Stored(b)
      BY <1>5 DEF Fill
    <2>2. Types'
      BY <1>1, <1>2, <1>3, <2>1, StoredEffect DEF Types
    <2>3. OthersKept("kafka") /\ StoredFacts(b)
      BY <1>1, <1>2, <2>1, StoredEffect DEF OthersKept
    <2>4. QED
      BY <1>1, <1>2, <1>3, <1>5, <2>2, <2>3
  <1>6. QED
    BY <1>1, <1>4, <1>5

LEMMA CommitEffect ==
    ASSUME Types, PlaceInv, CommitMessage
    PROVE  /\ Types' /\ OthersKept("kafka") /\ ~wild /\ up /\ phase["kafka"] = "commit"
           /\ UNCHANGED <<position, up, run, slot, crashes, accepted, freed, wild, n, index, load, sent, count>>
           /\ phase'["kafka"] = "poll"
  <1> USE Basics, ConstantsOK
  <1>1. /\ UNCHANGED <<position, up, run, slot, crashes, accepted, freed, wild, n, index, load, sent, count>>
        /\ ~wild /\ up /\ phase["kafka"] = "commit" /\ committed' \in {committed, position}
        /\ Goes("kafka", "poll", "events") /\ "poll" \in Phases
    BY DEF CommitMessage, kafkaFrame, bufferVars, Running, Phases
  <1>2. Types'
    BY <1>1, GoesFacts DEF Types
  <1>3. OthersKept("kafka") /\ phase'["kafka"] = "poll"
    BY <1>1, GoesFacts DEF OthersKept
  <1>4. QED
    BY <1>1, <1>2, <1>3

LEMMA WakeEffect ==
    ASSUME Types, PlaceInv, Wake
    PROVE  /\ Types' /\ ~wild /\ up /\ phase["flush"] = "sleep"
           /\ UNCHANGED <<committed, position, up, run, slot, crashes, accepted, freed, wild, index, load, sent, count>>
           /\ phase'["kafka"] = phase["kafka"] /\ at'["kafka"] = at["kafka"] /\ n'["kafka"] = n["kafka"]
           /\ n'["flush"] = count["events"]
           /\ \/ phase'["flush"] = "build" /\ at'["flush"] = "events"
              \/ phase'["flush"] = "produce" /\ at'["flush"] = "alerts"
  <1> USE Basics, ConstantsOK
  <1>1. /\ UNCHANGED <<committed, position, up, run, slot, crashes, accepted, freed, wild, index, load, sent, count>>
        /\ ~wild /\ up /\ phase["flush"] = "sleep" /\ n' = [n EXCEPT !["flush"] = count["events"]]
    BY DEF Wake, flushFrame, kafkaVars, bufferVars, historyVars, Running
  <1>2. n' \in [Threads -> 0..Size] /\ n'["flush"] = count["events"] /\ n'["kafka"] = n["kafka"]
    BY <1>1 DEF Types
  <1>3. \/ Goes("flush", "build", "events") /\ "build" \in Phases
        \/ Goes("flush", "produce", "alerts") /\ "produce" \in Phases
    BY DEF Wake, Phases
  <1>4. /\ phase' \in [Threads -> Phases] /\ at' \in [Threads -> Buffers]
        /\ phase'["kafka"] = phase["kafka"] /\ at'["kafka"] = at["kafka"]
        /\ \/ phase'["flush"] = "build" /\ at'["flush"] = "events"
           \/ phase'["flush"] = "produce" /\ at'["flush"] = "alerts"
    BY <1>3, GoesFacts
  <1>5. Types'
    BY <1>1, <1>2, <1>4 DEF Types
  <1>6. QED
    BY <1>1, <1>2, <1>4, <1>5

LEMMA AgainEffect ==
    ASSUME Types, PlaceInv, Again
    PROVE  /\ Types' /\ OthersKept("flush") /\ ~wild /\ up /\ phase["flush"] = "again"
           /\ UNCHANGED <<committed, position, up, run, slot, crashes, accepted, freed, wild, n, index, load, sent, count>>
           /\ phase'["flush"] \in {"sleep", "ended"}
  <1> USE Basics, ConstantsOK
  <1>1. /\ UNCHANGED <<committed, position, up, run, slot, crashes, accepted, freed, wild, n, index, load, sent, count>>
        /\ ~wild /\ up /\ phase["flush"] = "again"
        /\ Goes("flush", IF run THEN "sleep" ELSE "ended", "events")
        /\ (IF run THEN "sleep" ELSE "ended") \in Phases
    BY DEF Again, flushFrame, kafkaVars, bufferVars, historyVars, Running, Phases
  <1>2. Types'
    BY <1>1, GoesFacts DEF Types
  <1>3. OthersKept("flush") /\ phase'["flush"] = IF run THEN "sleep" ELSE "ended"
    BY <1>1, GoesFacts DEF OthersKept
  <1>4. QED
    BY <1>1, <1>2, <1>3

-----------------------------------------------------------------------------
(* Every step of a thread keeps each part of the invariant.                *)

ThreadStep ==
    \/ PollMessage \/ Check \/ Take \/ Bump \/ Fill \/ CommitMessage \/ Wake \/ Again
    \/ \E t \in Threads : Build(t) \/ Post(t) \/ Free(t) \/ Produce(t) \/ Reset(t)

LEMMA TypesStep == ASSUME Types, PlaceInv, ThreadStep PROVE Types'
  BY BuildEffect, PostEffect, FreeEffect, ProduceEffect, ResetEffect, PollEffect, CheckEffect,
    TakeEffect, BumpEffect, FillEffect, CommitEffect, WakeEffect, AgainEffect DEF ThreadStep

LEMMA PlaceStep == ASSUME Types, PlaceInv, ThreadStep PROVE PlaceInv'
  <1> USE Basics, ConstantsOK DEF DrainPhases, AppendPhases
  <1>1. ASSUME NEW t \in Threads, Build(t) PROVE PlaceInv'
    BY <1>1, BuildEffect DEF PlaceInv, OthersKept
  <1>2. ASSUME NEW t \in Threads, Post(t) PROVE PlaceInv'
    BY <1>2, PostEffect DEF PlaceInv, OthersKept
  <1>3. ASSUME NEW t \in Threads, Free(t) PROVE PlaceInv'
    BY <1>3, FreeEffect DEF PlaceInv, OthersKept
  <1>4. ASSUME NEW t \in Threads, Produce(t) PROVE PlaceInv'
    BY <1>4, ProduceEffect DEF PlaceInv, OthersKept
  <1>5. ASSUME NEW t \in Threads, Reset(t) PROVE PlaceInv'
    <2>1. \A b \in Buffers : count'[b] = 0 \/ count'[b] = count[b]
      BY <1>5, ResetEffect
    <2>2. at["kafka"] \in Buffers /\ 0 < Size
      BY DEF Types
    <2>3. CASE t = "kafka"
      BY <1>5, <2>2, <2>3, ResetEffect DEF PlaceInv, OthersKept
    <2>4. CASE t = "flush"
      BY <1>5, <2>1, <2>2, <2>4, ResetEffect DEF PlaceInv, OthersKept
    <2>5. QED
      BY <2>3, <2>4
  <1>6. CASE PollMessage
    BY <1>6, PollEffect DEF PlaceInv, OthersKept
  <1>7. CASE Check
    BY <1>7, CheckEffect DEF PlaceInv
  <1>8. CASE Take
    BY <1>8, TakeEffect DEF PlaceInv, OthersKept
  <1>9. CASE Bump
    BY <1>9, BumpEffect DEF PlaceInv, OthersKept, StoredFacts
  <1>10. CASE Fill
    BY <1>10, FillEffect DEF PlaceInv, OthersKept, StoredFacts
  <1>11. CASE CommitMessage
    BY <1>11, CommitEffect DEF PlaceInv, OthersKept
  <1>12. CASE Wake
    BY <1>12, WakeEffect DEF PlaceInv
  <1>13. CASE Again
    BY <1>13, AgainEffect DEF PlaceInv, OthersKept
  <1>14. QED
    BY <1>1, <1>2, <1>3, <1>4, <1>5, <1>6, <1>7, <1>8, <1>9, <1>10, <1>11, <1>12, <1>13
      DEF ThreadStep

LEMMA ThreadWatches == ASSUME ThreadStep PROVE Watch
  BY DEF ThreadStep, PollMessage, Check, Take, Bump, Fill, CommitMessage, Wake, Again, Build, Post,
    Free, Produce, Reset

\* The history of overlaps grows, and holds of the new state.
LEMMA OverlapStep ==
    ASSUME TypeOK, PlaceInv, ThreadStep
    PROVE  /\ overlapped' \in [Buffers -> SUBSET Offsets]
           /\ \A b \in Buffers : overlapped[b] \subseteq overlapped'[b]
           /\ OverlapInv'
  BY ThreadWatches, WatchFacts, PlaceStep, TypeParts DEF PlaceInv

LEMMA NewStep == ASSUME Types, PlaceInv, NewInv, ThreadStep PROVE NewInv'
  <1> USE Basics, ConstantsOK
  <1>1. ASSUME NEW t \in Threads, Build(t) PROVE NewInv'
    BY <1>1, BuildEffect DEF NewInv, OthersKept
  <1>2. ASSUME NEW t \in Threads, Post(t) PROVE NewInv'
    BY <1>2, PostEffect DEF NewInv, OthersKept
  <1>3. ASSUME NEW t \in Threads, Free(t) PROVE NewInv'
    BY <1>3, FreeEffect DEF NewInv, OthersKept
  <1>4. ASSUME NEW t \in Threads, Produce(t) PROVE NewInv'
    BY <1>4, ProduceEffect DEF NewInv, OthersKept
  <1>5. ASSUME NEW t \in Threads, Reset(t) PROVE NewInv'
    BY <1>5, ResetEffect DEF NewInv, OthersKept
  <1>6. CASE PollMessage
    <2>1. at'["kafka"] \in Buffers
      BY <1>6, PollEffect DEF Types
    <2>2. \A b \in Buffers : accepted'[b] \subseteq 1..position
      BY <1>6, PollEffect DEF NewInv
    <2>3. position \in Nat /\ position' = position + 1
      BY <1>6, PollEffect DEF Types
    <2>4. QED
      BY <2>1, <2>2, <2>3 DEF NewInv
  <1>7. CASE Check
    BY <1>7, CheckEffect DEF NewInv
  <1>8. CASE Take
    BY <1>8, TakeEffect DEF NewInv
  <1>9. ASSUME NEW b \in Buffers, b = at["kafka"], StoredFacts(b), position' = position,
               position \in Offsets, phase["kafka"] \notin {"poll", "commit"}
        PROVE  NewInv'
    <2>1. \A c \in Buffers : accepted'[c] \subseteq 1..position
      BY <1>9 DEF NewInv, StoredFacts, Offsets
    <2>2. b = "alerts" => accepted'["events"] = accepted["events"]
      BY <1>9 DEF StoredFacts
    <2>3. QED
      BY <1>9, <2>1, <2>2 DEF NewInv, StoredFacts
  <1>10. CASE Bump
    <2>1. CASE phase["kafka"] = "store"
      BY <1>10, <2>1, BumpEffect DEF NewInv, StoredFacts
    <2>2. CASE phase["kafka"] = "bump"
      BY <1>9, <1>10, <2>2, BumpEffect DEF PlaceInv, Types
    <2>3. QED
      BY <1>10, <2>1, <2>2, BumpEffect
  <1>11. CASE Fill
    <2>1. CASE phase["kafka"] = "store"
      BY <1>11, <2>1, FillEffect DEF NewInv, StoredFacts
    <2>2. CASE phase["kafka"] = "fill"
      BY <1>9, <1>11, <2>2, FillEffect DEF PlaceInv, Types
    <2>3. QED
      BY <1>11, <2>1, <2>2, FillEffect
  <1>12. CASE CommitMessage
    BY <1>12, CommitEffect DEF NewInv
  <1>13. CASE Wake
    BY <1>13, WakeEffect DEF NewInv
  <1>14. CASE Again
    BY <1>14, AgainEffect DEF NewInv, OthersKept
  <1>15. QED
    BY <1>1, <1>2, <1>3, <1>4, <1>5, <1>6, <1>7, <1>8, <1>10, <1>11, <1>12, <1>13, <1>14
      DEF ThreadStep

\* What is sent or overlapped stays so.
Grows ==
    \A b \in Buffers : sent[b] \subseteq sent'[b] /\ overlapped[b] \subseteq overlapped'[b]

LEMMA GrowsStep == ASSUME TypeOK, PlaceInv, ThreadStep PROVE Grows
  <1> USE TypeParts, Basics
  <1>1. \A b \in Buffers : sent[b] \subseteq sent'[b]
    <2>1. ASSUME NEW t \in Threads, Build(t) \/ Post(t) \/ Free(t) \/ Produce(t) \/ Reset(t)
          PROVE  \A b \in Buffers : sent[b] \subseteq sent'[b]
      BY <2>1, BuildEffect, PostEffect, FreeEffect, ProduceEffect, ResetEffect
    <2>2. CASE PollMessage \/ Check \/ Take \/ Bump \/ Fill \/ CommitMessage \/ Wake \/ Again
      BY <2>2, PollEffect, CheckEffect, TakeEffect, BumpEffect, FillEffect, CommitEffect, WakeEffect,
        AgainEffect
    <2>3. QED
      BY <2>1, <2>2 DEF ThreadStep
  <1>2. QED
    BY <1>1, OverlapStep DEF Grows

LEMMA HeldFacts ==
    ASSUME Types, NEW b \in Buffers, NEW e
    PROVE  e \in Held(b) <=> e # Null /\ \E i \in Slots : i < count[b] /\ slot[b][i] = e
  <1>1. \A i : i \in 0..(count[b] - 1) <=> i \in Slots /\ i < count[b]
    BY ConstantsOK DEF Types, Slots
  <1>2. QED
    BY <1>1 DEF Held

LEMMA HeldNext ==
    ASSUME Types', NEW b \in Buffers, NEW e
    PROVE  e \in Held(b)' <=> e # Null /\ \E i \in Slots : i < count'[b] /\ slot'[b][i] = e
  <1>1. \A i : i \in 0..(count'[b] - 1) <=> i \in Slots /\ i < count'[b]
    BY ConstantsOK DEF Types, Slots
  <1>2. QED
    BY <1>1 DEF Held

LEMMA DoneGrows ==
    ASSUME Grows, NEW b \in Buffers, NEW i, Done(b, i), slot'[b][i] = slot[b][i]
    PROVE  Done(b, i)'
  BY DEF Grows, Done

\* Steps that write to no buffer, and end no append.
LEMMA SlotKept ==
    ASSUME Types, Types', SlotInv, Grows, slot' = slot, count' = count, accepted' = accepted,
           \/ phase["kafka"] # "bump" /\ phase'["kafka"] \notin {"store", "fill", "bump"}
           \/ /\ phase'["kafka"] = phase["kafka"] /\ at'["kafka"] = at["kafka"]
              /\ index'["kafka"] = index["kafka"] /\ position' = position
    PROVE  SlotInv'
  <1> SUFFICES ASSUME NEW b \in Buffers PROVE Kept(b)' /\ Behind(b)' /\ Hand(b)'
    BY DEF SlotInv
  <1>1. Held(b)' = Held(b)
    BY DEF Held
  <1>2. Kept(b)'
    BY <1>1 DEF SlotInv, Kept, Grows
  <1>3. \A i : Done(b, i) => Done(b, i)'
    BY DoneGrows
  <1>4. CASE phase["kafka"] # "bump" /\ phase'["kafka"] \notin {"store", "fill", "bump"}
    BY <1>2, <1>3, <1>4 DEF SlotInv, Behind, Hand, Writing
  <1>5. CASE /\ phase'["kafka"] = phase["kafka"] /\ at'["kafka"] = at["kafka"]
             /\ index'["kafka"] = index["kafka"] /\ position' = position
    <2>1. Behind(b)'
      BY <1>3, <1>5 DEF SlotInv, Behind, Writing
    <2>2. Hand(b)'
      BY <1>3, <1>5 DEF SlotInv, Hand, Writing, Grows, Done
    <2>3. QED
      BY <1>2, <2>1, <2>2
  <1>6. QED
    BY <1>4, <1>5

LEMMA SlotReset ==
    ASSUME Types, Types', PlaceInv, OverlapInv, SlotInv, DrainInv, Grows,
           NEW t \in Threads, Reset(t)
    PROVE  SlotInv'
  <1> USE Basics, ConstantsOK
  <1>1. SUFFICES ASSUME NEW b \in Buffers PROVE Kept(b)' /\ Behind(b)' /\ Hand(b)'
    BY DEF SlotInv
  <1>2. Kept(b) /\ Behind(b) /\ Hand(b)
    BY DEF SlotInv
  <1>3. \A i : Done(b, i) => Done(b, i)'
    BY ResetEffect, DoneGrows
  <1>4. CASE b # at[t]
    <2>1. /\ count'[b] = count[b] /\ slot' = slot /\ accepted' = accepted /\ index' = index
          /\ position' = position
      BY <1>4, ResetEffect
    <2>2. Held(b)' = Held(b)
      BY <2>1 DEF Held
    <2>3. Kept(b)'
      BY <1>2, <2>1, <2>2 DEF Kept, Grows
    <2>4. \A p \in SUBSET {"store", "fill", "bump"} : Writing(p, b)' => Writing(p, b)
      BY <1>4, ResetEffect DEF Writing, OthersKept
    <2>5. Writing({"bump"}, b) => Writing({"bump"}, b)'
      BY <1>4, ResetEffect DEF Writing, OthersKept
    <2>6. Behind(b)'
      BY <1>2, <1>3, <2>1, <2>5 DEF Behind
    <2>7. Hand(b)'
      BY <1>2, <1>3, <2>1, <2>4 DEF Hand, Grows
    <2>8. QED
      BY <2>3, <2>6, <2>7
  <1>5. CASE b = at[t]
    <2>1. /\ count'[b] = 0 /\ slot' = slot /\ accepted' = accepted /\ index' = index
          /\ position' = position /\ phase[t] = "reset"
      BY <1>5, ResetEffect
    <2>2. \A i \in Slots : i < count[b] => Done(b, i)
      BY <1>5, <2>1 DEF DrainInv, Drained
    <2>3. Held(b) \subseteq sent[b] \cup overlapped[b]
      BY <2>2, HeldFacts DEF Done
    <2>4. Kept(b)'
      BY <1>2, <2>1, <2>3 DEF Kept, Grows
    <2>5. /\ Writing({"bump"}, b) => Writing({"bump"}, b)'
          /\ \A p \in SUBSET {"store", "fill", "bump"} : Writing(p, b)' => Writing(p, b) /\ t = "flush"
      BY ResetEffect DEF Writing, OthersKept
    <2>6. Behind(b)'
      BY <1>2, <1>3, <2>1, <2>2, <2>5 DEF Behind
    <2>7. Writing({"fill"}, b)' => position' \in overlapped'[b]
      <3>1. Writing({"fill"}, b)' => Writing({"fill"}, b) /\ t = "flush"
        BY <2>5
      <3>2. Writing({"fill"}, b) /\ t = "flush" => Overlap(b)
        BY <1>5, <2>1 DEF Writing, Overlap
      <3>3. QED
        BY <2>1, <3>1, <3>2 DEF OverlapInv, Grows
    <2>8. index["kafka"] \in Nat
      BY DEF Types
    <2>9. Hand(b)'
      BY <1>2, <1>3, <2>1, <2>5, <2>7, <2>8 DEF Hand
    <2>10. QED
      BY <2>4, <2>6, <2>9
  <1>6. QED
    BY <1>4, <1>5

LEMMA SlotTake ==
    ASSUME Types, Types', PlaceInv, SlotInv, Grows, Take
    PROVE  SlotInv'
  <1> USE Basics, ConstantsOK
  <1>1. SUFFICES ASSUME NEW b \in Buffers PROVE Kept(b)' /\ Behind(b)' /\ Hand(b)'
    BY DEF SlotInv
  <1>2. Kept(b) /\ Behind(b) /\ Hand(b)
    BY DEF SlotInv
  <1>3. \A i : Done(b, i) => Done(b, i)'
    BY TakeEffect, DoneGrows
  <1>4. /\ slot' = slot /\ count' = count /\ accepted' = accepted
        /\ phase["kafka"] = "take" /\ phase'["kafka"] = "store"
        /\ at'["kafka"] = at["kafka"] /\ index'["kafka"] = count[at["kafka"]]
    BY TakeEffect
  <1>5. Held(b)' = Held(b)
    BY <1>4 DEF Held
  <1>6. Kept(b)'
    BY <1>2, <1>4, <1>5 DEF Kept, Grows
  <1>7. \A i \in Slots : Done(b, i) \/ i < count[b]
    BY <1>2, <1>4 DEF Behind, Writing
  <1>8. Behind(b)'
    BY <1>3, <1>4, <1>7 DEF Behind
  <1>9. at["kafka"] = b => Done(b, count[b])
    <2>1. at["kafka"] = b => count[b] \in Slots
      BY <1>4, SlotFacts DEF PlaceInv, Types
    <2>2. QED
      BY <1>7, <2>1 DEF Types
  <1>10. Hand(b)'
    BY <1>3, <1>4, <1>9 DEF Hand, Writing, Types
  <1>11. QED
    BY <1>6, <1>8, <1>10

\* A buffer at which no append begins, goes on or ends.
LEMMA SlotElsewhere ==
    ASSUME Types, SlotInv, Grows, Bump \/ Fill, PlaceInv, NEW b \in Buffers, b # at["kafka"]
    PROVE  Kept(b)' /\ Behind(b)' /\ Hand(b)'
  <1> USE Basics
  <1>1. Kept(b) /\ Behind(b) /\ Hand(b)
    BY DEF SlotInv
  <1>2. count'[b] = count[b] /\ accepted'[b] = accepted[b] /\ \A i \in Slots : slot'[b][i] = slot[b][i]
    BY BumpEffect, FillEffect DEF StoredFacts
  <1>3. ~Writing({"bump"}, b) /\ ~Writing({"store", "fill", "bump"}, b)'
    BY BumpEffect, FillEffect DEF Writing, StoredFacts
  <1>4. \A i \in Slots : Done(b, i) => Done(b, i)'
    BY <1>2, DoneGrows
  <1>5. \A e : e \in Held(b) <=> e # Null /\ \E i \in Slots : i < count[b] /\ slot[b][i] = e
    BY HeldFacts
  <1>6. Types'
    BY BumpEffect, FillEffect
  <1>7. \A e : e \in Held(b)' <=> e # Null /\ \E i \in Slots : i < count'[b] /\ slot'[b][i] = e
    BY <1>6, HeldNext
  <1>8. Kept(b)'
    BY <1>1, <1>2, <1>5, <1>7 DEF Kept, Grows
  <1>9. Behind(b)'
    BY <1>1, <1>2, <1>3, <1>4 DEF Behind
  <1>10. Hand(b)'
    BY <1>3 DEF Hand, Writing
  <1>11. QED
    BY <1>8, <1>9, <1>10

LEMMA SlotBump ==
    ASSUME Types, PlaceInv, SlotInv, Grows, Bump,
           NEW b \in Buffers, b = at["kafka"], NEW k \in Slots, k = index["kafka"]
    PROVE  Kept(b)' /\ Behind(b)' /\ Hand(b)'
  <1> USE Basics, ConstantsOK
  <1>1. slot' = slot /\ position' = position /\ count'[b] = k + 1 /\ Types'
    BY BumpEffect
  <1>2. Kept(b) /\ Behind(b) /\ Hand(b)
    BY DEF SlotInv
  <1>3. \A i : Done(b, i) => Done(b, i)'
    BY <1>1, DoneGrows
  <1>4. count[b] <= k /\ count[b] \in 0..Size /\ k \in Nat
    <2>1. Writing({"store", "bump"}, b)
      BY BumpEffect DEF Writing
    <2>2. QED
      BY <1>2, <2>1 DEF Hand, Slots, Types
  <1>5. \A i \in Slots : i < count[b] \/ i = k => i < count'[b]
    BY <1>1, <1>4 DEF Slots
  <1>6. Held(b) \subseteq Held(b)' /\ (slot[b][k] # Null => slot[b][k] \in Held(b)')
    BY <1>1, <1>5, HeldFacts, HeldNext
  <1>7. Behind(b)'
    BY <1>1, <1>2, <1>3, <1>5 DEF Behind
  <1>8. CASE phase["kafka"] = "store"
    <2>1. /\ phase'["kafka"] = "fill" /\ at'["kafka"] = b /\ index'["kafka"] = k /\ accepted' = accepted
      BY <1>8, BumpEffect
    <2>2. Kept(b)'
      BY <1>2, <1>6, <2>1 DEF Kept, Grows
    <2>3. Done(b, k)
      BY <1>2, <1>8 DEF Hand, Writing
    <2>4. Hand(b)'
      BY <1>1, <1>3, <1>4, <2>1, <2>3 DEF Hand, Writing
    <2>5. QED
      BY <1>7, <2>2, <2>4
  <1>9. CASE phase["kafka"] = "bump"
    <2>1. StoredFacts(b)
      BY <1>9, BumpEffect
    <2>2. slot[b][k] = position /\ position \in Offsets
      BY <1>2, <1>9 DEF Hand, Writing, PlaceInv
    <2>3. Kept(b)'
      BY <1>2, <1>6, <2>1, <2>2 DEF Kept, Grows, StoredFacts
    <2>4. Hand(b)'
      BY <2>1 DEF Hand, Writing, StoredFacts
    <2>5. QED
      BY <1>7, <2>3, <2>4
  <1>10. QED
    BY <1>8, <1>9, BumpEffect

LEMMA SlotFill ==
    ASSUME Types, PlaceInv, SlotInv, Grows, Fill,
           NEW b \in Buffers, b = at["kafka"], NEW k \in Slots, k = index["kafka"]
    PROVE  Kept(b)' /\ Behind(b)' /\ Hand(b)'
  <1> USE Basics, ConstantsOK
  <1>1. /\ count' = count /\ position' = position /\ Types'
        /\ slot'[b][k] = position /\ \A i \in Slots \ {k} : slot'[b][i] = slot[b][i]
    BY FillEffect
  <1>2. Kept(b) /\ Behind(b) /\ Hand(b)
    BY DEF SlotInv
  <1>3. \A i \in Slots \ {k} : Done(b, i) => Done(b, i)'
    BY <1>1, DoneGrows
  <1>4. position \in Offsets /\ Done(b, k) /\ count[b] \in 0..Size /\ k \in Nat
    <2>1. Writing({"store", "fill"}, b) /\ phase["kafka"] # "poll"
      BY FillEffect DEF Writing
    <2>2. QED
      BY <1>2, <2>1 DEF Hand, PlaceInv, Slots, Types
  <1>5. \A e \in Held(b) : e \in Held(b)' \cup sent[b] \cup overlapped[b]
    <2> SUFFICES ASSUME NEW e \in Held(b) PROVE e \in Held(b)' \cup sent[b] \cup overlapped[b]
      OBVIOUS
    <2>1. PICK i \in Slots : e # Null /\ i < count[b] /\ slot[b][i] = e
      BY HeldFacts
    <2>2. CASE i = k
      BY <1>4, <2>1, <2>2 DEF Done
    <2>3. CASE i # k
      BY <1>1, <2>1, <2>3, HeldNext
    <2>4. QED
      BY <2>2, <2>3
  <1>6. CASE phase["kafka"] = "store"
    <2>1. phase'["kafka"] = "bump" /\ at'["kafka"] = b /\ index'["kafka"] = k /\ accepted' = accepted
      BY <1>6, FillEffect
    <2>2. Kept(b)'
      BY <1>2, <1>5, <2>1 DEF Kept, Grows
    <2>3. Behind(b)'
      BY <1>1, <1>2, <1>3, <1>6, <2>1 DEF Behind, Writing
    <2>4. Hand(b)'
      BY <1>1, <1>2, <1>6, <2>1 DEF Hand, Writing
    <2>5. QED
      BY <2>2, <2>3, <2>4
  <1>7. CASE phase["kafka"] = "fill"
    <2>1. StoredFacts(b)
      BY <1>7, FillEffect
    <2>2. k < count[b] \/ position \in overlapped[b]
      BY <1>2, <1>4, <1>7 DEF Hand, Writing
    <2>3. position \in Held(b)' \cup overlapped[b]
      BY <1>1, <1>4, <2>2, HeldNext
    <2>4. Kept(b)'
      BY <1>2, <1>5, <2>1, <2>3 DEF Kept, Grows, StoredFacts
    <2>5. k < count[b] \/ Done(b, k)'
      BY <1>1, <2>2 DEF Done, Grows
    <2>6. Behind(b)'
      BY <1>1, <1>2, <1>3, <1>7, <2>5 DEF Behind, Writing
    <2>7. Hand(b)'
      BY <2>1 DEF Hand, Writing, StoredFacts
    <2>8. QED
      BY <2>4, <2>6, <2>7
  <1>8. QED
    BY <1>6, <1>7, FillEffect

LEMMA SlotStep ==
    ASSUME TypeOK, PlaceInv, OverlapInv, SlotInv, DrainInv, ThreadStep
    PROVE  SlotInv'
  <1> USE Basics, TypeParts, TypesStep, GrowsStep
  <1>1. ASSUME NEW t \in Threads, Build(t) \/ Post(t) \/ Free(t) \/ Produce(t) PROVE SlotInv'
    <2>1. slot' = slot /\ count' = count /\ accepted' = accepted /\ position' = position
      BY <1>1, BuildEffect, PostEffect, FreeEffect, ProduceEffect
    <2>2. t = "kafka" => /\ phase["kafka"] # "bump" 
                         /\ phase'["kafka"] \notin {"store", "fill", "bump"}
      BY <1>1, BuildEffect, PostEffect, FreeEffect, ProduceEffect
    <2>3. t # "kafka" => /\ phase'["kafka"] = phase["kafka"] /\ at'["kafka"] = at["kafka"]
                         /\ index'["kafka"] = index["kafka"]
      BY <1>1, BuildEffect, PostEffect, FreeEffect, ProduceEffect DEF OthersKept
    <2>4. QED
      BY <2>1, <2>2, <2>3, SlotKept
  <1>2. ASSUME NEW t \in Threads, Reset(t) PROVE SlotInv'
    BY <1>2, SlotReset
  <1>3. CASE PollMessage \/ Check \/ CommitMessage
    BY <1>3, SlotKept, PollEffect, CheckEffect, CommitEffect
  <1>4. CASE Wake \/ Again
    BY <1>4, SlotKept, WakeEffect, AgainEffect DEF OthersKept
  <1>5. CASE Take
    BY <1>5, SlotTake
  <1>6. CASE Bump \/ Fill
    <2>1. at["kafka"] \in Buffers /\ index["kafka"] \in Slots
      BY <1>6, BumpEffect, FillEffect DEF Types
    <2>2. \A b \in Buffers : Kept(b)' /\ Behind(b)' /\ Hand(b)'
      BY <1>6, <2>1, SlotBump, SlotFill, SlotElsewhere
    <2>3. QED
      BY <2>2 DEF SlotInv
  <1>7. QED
    BY <1>1, <1>2, <1>3, <1>4, <1>5, <1>6 DEF ThreadStep

\* What thread s has drained stays so if the slots it goes through, and those
\* newly counted, are kept or hold what fell into the drain.
LEMMA DrainKept ==
    ASSUME Types, PlaceInv, DrainInv, Grows, NEW s \in Threads,
           phase'[s] = phase[s], at'[s] = at[s], index'[s] = index[s],
           n'[s] = n[s], load'[s] = load[s],
           phase[s] \in DrainPhases =>
              \A i \in Slots :
                 /\ slot'[at[s]][i] = slot[at[s]][i] \/ Done(at[s], i)'
                 /\ i < count'[at[s]] => i < count[at[s]] \/ Done(at[s], i)'
    PROVE  Drained(s)'
  <1>1. Drained(s) /\ at[s] \in Buffers
    BY DEF DrainInv, Types
  <1>2. \A b \in Buffers, i \in Slots : Done(b, i) /\ slot'[b][i] = slot[b][i] => Done(b, i)'
    BY DoneGrows
  <1>3. phase[s] \in {"build", "post", "free"} => at[s] = "events"
    BY DEF PlaceInv
  <1>4. phase[s] = "produce" => at[s] = "alerts"
    BY DEF PlaceInv
  <1>5. CASE phase[s] \in {"build", "post", "free"}
    <2>1. \A i \in Slots : /\ slot'["events"][i] = slot["events"][i] \/ Done("events", i)'
                           /\ i < count'["events"] => i < count["events"] \/ Done("events", i)'
                           /\ Done("events", i) => Done("events", i)'
      BY <1>1, <1>2, <1>3, <1>5 DEF DrainPhases
    <2>2. QED
      BY <1>1, <1>5, <2>1 DEF Drained
  <1>6. CASE phase[s] = "produce"
    <2>1. \A i \in Slots : Done("alerts", i) => Done("alerts", i)'
      BY <1>1, <1>2, <1>4, <1>6 DEF DrainPhases
    <2>2. QED
      BY <1>1, <1>6, <2>1 DEF Drained
  <1>7. CASE phase[s] = "reset"
    <2>1. \A b \in Buffers : at[s] = b =>
            \A i \in Slots : i < count'[b] => Done(b, i)'
      BY <1>1, <1>2, <1>7 DEF Drained, DrainPhases
    <2>2. at'[s] \in Buffers /\ phase'[s] = "reset"
      BY <1>1, <1>7
    <2>3. QED
      BY <2>1, <2>2 DEF Drained
  <1>8. QED
    BY <1>5, <1>6, <1>7 DEF Drained

LEMMA DrainStep ==
    ASSUME TypeOK, PlaceInv, OverlapInv, SlotInv, DrainInv, ThreadStep
    PROVE  DrainInv'
  <1> USE Basics, ConstantsOK, TypeParts, TypesStep, GrowsStep
  <1>1. ASSUME NEW t \in Threads, Build(t) \/ Post(t) \/ Free(t) \/ Produce(t) \/ Reset(t),
               NEW s \in Threads, s # t
        PROVE  Drained(s)'
    <2>1. /\ slot' = slot
          /\ \A b \in Buffers : \A i \in Slots : i < count'[b] => i < count[b]
      <3>1. \A b \in Buffers : count'[b] = 0 \/ count'[b] = count[b]
        BY <1>1, BuildEffect, PostEffect, FreeEffect, ProduceEffect, ResetEffect
      <3>2. QED
        BY <1>1, <3>1, BuildEffect, PostEffect, FreeEffect, ProduceEffect, ResetEffect DEF Slots
    <2>2. OthersKept(t)
      BY <1>1, BuildEffect, PostEffect, FreeEffect, ProduceEffect, ResetEffect
    <2>3. at[s] \in Buffers
      BY DEF Types
    <2>4. QED
      BY <1>1, <2>1, <2>2, <2>3, DrainKept DEF OthersKept
  <1>2. ASSUME NEW t \in Threads, Build(t) PROVE Drained(t)'
    <2>1. Drained(t) /\ slot' = slot /\ count' = count /\ n' = n
      BY <1>2, BuildEffect DEF DrainInv
    <2>2. \A i \in Slots : Done("events", i) => Done("events", i)'
      BY <2>1, DoneGrows
    <2>3. CASE phase'[t] = "build"
      <3>1. /\ index[t] < n[t] /\ index'[t] = index[t] + 1
            /\ load'[t] = load[t] \cup ({slot["events"][index[t]]} \ {Null})
        BY <1>2, <2>3, BuildEffect
      <3>2. \A i \in Slots : i = index[t] => Done("events", i) \/ slot["events"][i] \in load'[t]
        BY <3>1 DEF Done
      <3>3. \A i \in Slots : index[t] <= i /\ i # index[t] => index'[t] <= i
        <4>1. index[t] \in Nat
          BY DEF Types
        <4>2. QED
          BY <3>1, <4>1 DEF Slots
      <3>4. QED
        BY <1>2, <2>1, <2>2, <2>3, <3>1, <3>2, <3>3, BuildEffect DEF Drained
    <2>4. CASE phase'[t] = "post"
      <3>1. ~(index[t] < n[t]) /\ load' = load
        BY <1>2, <2>4, BuildEffect
      <3>2. \A i \in Slots : ~(index[t] <= i /\ i < n[t])
        BY <3>1 DEF Slots, Types
      <3>3. QED
        BY <1>2, <2>1, <2>2, <2>4, <3>1, <3>2, BuildEffect DEF Drained
    <2>5. QED
      BY <1>2, <2>3, <2>4, BuildEffect
  <1>3. ASSUME NEW t \in Threads, Post(t) PROVE Drained(t)'
    <2>1. Drained(t) /\ slot' = slot /\ count' = count /\ sent'["events"] = sent["events"] \cup load[t]
      BY <1>3, PostEffect DEF DrainInv
    <2>2. \A i \in Slots : Done("events", i) => Done("events", i)'
      BY <2>1, DoneGrows
    <2>3. \A i \in Slots : slot["events"][i] \in load[t] => Done("events", i)'
      BY <2>1 DEF Done
    <2>4. QED
      BY <1>3, <2>1, <2>2, <2>3, PostEffect DEF Drained
  <1>4. ASSUME NEW t \in Threads, Free(t) PROVE Drained(t)'
    <2>1. Drained(t) /\ slot' = slot /\ count' = count
      BY <1>4, FreeEffect DEF DrainInv
    <2>2. \A i \in Slots : Done("events", i) => Done("events", i)'
      BY <2>1, DoneGrows
    <2>3. QED
      BY <1>4, <2>1, <2>2, FreeEffect DEF Drained
  <1>5. ASSUME NEW t \in Threads, Produce(t) PROVE Drained(t)'
    <2>1. Drained(t) /\ slot' = slot /\ count' = count
      BY <1>5, ProduceEffect DEF DrainInv
    <2>2. \A i \in Slots : Done("alerts", i) => Done("alerts", i)'
      BY <2>1, DoneGrows
    <2>3. CASE phase'[t] = "produce"
      <3>1. /\ index'[t] = index[t] + 1 /\ index[t] \in Nat
            /\ sent'["alerts"] = sent["alerts"] \cup ({slot["alerts"][index[t]]} \ {Null})
        BY <1>5, <2>3, ProduceEffect DEF Types
      <3>2. \A i \in Slots : i < index'[t] => i < index[t] \/ i = index[t]
        BY <3>1 DEF Slots
      <3>3. \A i \in Slots : i = index[t] => Done("alerts", i)'
        BY <2>1, <3>1 DEF Done
      <3>4. QED
        BY <1>5, <2>1, <2>2, <2>3, <3>2, <3>3, ProduceEffect DEF Drained
    <2>4. CASE phase'[t] = "reset"
      <3>1. ~(index[t] < count["alerts"]) /\ at'[t] = "alerts"
        BY <1>5, <2>4, ProduceEffect
      <3>2. \A i \in Slots : i < count["alerts"] => i < index[t]
        BY <3>1 DEF Slots, Types
      <3>3. QED
        BY <1>5, <2>1, <2>2, <2>4, <3>1, <3>2, ProduceEffect DEF Drained
    <2>5. QED
      BY <1>5, <2>3, <2>4, ProduceEffect
  <1>6. ASSUME NEW t \in Threads, Reset(t) PROVE Drained(t)'
    <2>1. t = "flush" => index'[t] = 0
      BY <1>6, ResetEffect DEF PlaceInv
    <2>2. \A i \in Slots : ~(i < 0)
      BY DEF Slots
    <2>3. QED
      BY <1>6, <2>1, <2>2, ResetEffect DEF Drained
  <1>7. CASE PollMessage \/ Take \/ CommitMessage
    <2>1. Drained("kafka")'
      BY <1>7, PollEffect, TakeEffect, CommitEffect DEF Drained
    <2>2. /\ slot' = slot /\ count' = count /\ OthersKept("kafka")
      BY <1>7, PollEffect, TakeEffect, CommitEffect
    <2>3. Drained("flush")'
      BY <2>2, DrainKept DEF OthersKept
    <2>4. QED
      BY <2>1, <2>3 DEF DrainInv
  <1>8. CASE Again
    <2>1. Drained("flush")'
      BY <1>8, AgainEffect DEF Drained
    <2>2. /\ slot' = slot /\ count' = count /\ OthersKept("flush")
      BY <1>8, AgainEffect
    <2>3. Drained("kafka")'
      BY <2>2, DrainKept DEF OthersKept
    <2>4. QED
      BY <2>1, <2>3 DEF DrainInv
  <1>9. ASSUME NEW t \in Threads, (t = "kafka" /\ Check) \/ (t = "flush" /\ Wake)
        PROVE  DrainInv'
    <2>1. /\ slot' = slot /\ count' = count /\ index' = index /\ load' = load
          /\ \A s \in Threads \ {t} : phase'[s] = phase[s] /\ at'[s] = at[s] /\ n'[s] = n[s]
          /\ phase'[t] \in {"take", "build", "produce"} /\ index'[t] = 0
          /\ phase'[t] = "build" => n'[t] = count["events"]
      BY <1>9, CheckEffect, WakeEffect DEF PlaceInv
    <2>2. \A s \in Threads \ {t} : Drained(s)'
      BY <2>1, DrainKept
    <2>3. \A i \in Slots : 0 <= i /\ ~(i < 0)
      BY DEF Slots
    <2>4. Drained(t)'
      BY <2>1, <2>3 DEF Drained
    <2>5. QED
      BY <2>2, <2>4 DEF DrainInv
  <1>10. ASSUME Bump \/ Fill, NEW b \in Buffers, b = at["kafka"], NEW k \in Slots, k = index["kafka"]
         PROVE  DrainInv'
    <2>1. Drained("kafka")'
      BY <1>10, BumpEffect, FillEffect DEF Drained, StoredFacts
    <2>2. phase["kafka"] \in {"store", "fill", "bump"} /\ OthersKept("kafka")
      BY <1>10, BumpEffect, FillEffect
    <2>3. phase["flush"] \in DrainPhases /\ at["flush"] = b => position \in overlapped'[b]
      BY <1>10, <2>2 DEF OverlapInv, Overlap, DrainPhases, Grows
    <2>4. Behind(b) /\ Hand(b)
      BY DEF SlotInv
    <2>5. \A c \in Buffers \ {b} : count'[c] = count[c] /\ \A i \in Slots : slot'[c][i] = slot[c][i]
      BY <1>10, BumpEffect, FillEffect
    <2>6. \A i \in Slots : i < k + 1 /\ ~(i < count[b]) => Done(b, i) \/ (i = k /\ Writing({"bump"}, b))
      BY <1>10, <2>4 DEF Behind
    <2>7. ASSUME position \in overlapped'[b], NEW i \in Slots
          PROVE  /\ slot'[b][i] = slot[b][i] \/ Done(b, i)'
                 /\ i < count'[b] => i < count[b] \/ Done(b, i)'
      <3>1. CASE Bump
        <4>1. slot' = slot /\ count'[b] = k + 1
          BY <1>10, <3>1, BumpEffect
        <4>2. Done(b, i) => Done(b, i)'
          BY <4>1, DoneGrows
        <4>3. Writing({"bump"}, b) /\ i = k => Done(b, i)'
          BY <1>10, <2>4, <2>7, <4>1 DEF Hand, Done
        <4>4. QED
          BY <2>6, <4>1, <4>2, <4>3
      <3>2. CASE Fill
        <4>1. /\ count' = count /\ slot'[b][k] = position
              /\ i # k => slot'[b][i] = slot[b][i]
          BY <1>10, <3>2, FillEffect
        <4>2. i = k => Done(b, i)'
          BY <2>7, <4>1 DEF Done
        <4>3. QED
          BY <4>1, <4>2
      <3>3. QED
        BY <1>10, <3>1, <3>2
    <2>8. phase["flush"] \in DrainPhases =>
              \A i \in Slots :
                 /\ slot'[at["flush"]][i] = slot[at["flush"]][i] \/ Done(at["flush"], i)'
                 /\ i < count'[at["flush"]] => i < count[at["flush"]] \/ Done(at["flush"], i)'
      <3>1. ASSUME NEW c \in Buffers, c = at["flush"], phase["flush"] \in DrainPhases, NEW i \in Slots
            PROVE  /\ slot'[c][i] = slot[c][i] \/ Done(c, i)'
                   /\ i < count'[c] => i < count[c] \/ Done(c, i)'
        BY <2>3, <2>5, <2>7, <3>1
      <3>2. at["flush"] \in Buffers /\ at'["flush"] = at["flush"]
        BY <2>2 DEF Types, OthersKept
      <3>3. QED
        BY <3>1, <3>2
    <2>9. Drained("flush")'
      BY <2>2, <2>8, DrainKept DEF OthersKept
    <2>10. QED
      BY <2>1, <2>9 DEF DrainInv
  <1>11. Bump \/ Fill => at["kafka"] \in Buffers /\ index["kafka"] \in Slots
    BY BumpEffect, FillEffect DEF Types
  <1>12. QED
    BY <1>1, <1>2, <1>3, <1>4, <1>5, <1>6, <1>7, <1>8, <1>9, <1>10, <1>11 DEF ThreadStep, DrainInv

\* A buffer the step leaves alone, but for who has passed its slots.
LEMMA WholeKept ==
    ASSUME NEW b \in Buffers, Whole(b),
           freed'[b] = freed[b], accepted'[b] = accepted[b], count'[b] = count[b],
           \A i \in Slots : slot'[b][i] = slot[b][i],
           \A t \in Threads, i \in Slots : Passes(t, b, i) => Passes(t, b, i)',
           \/ /\ ~Writing({"store", "bump", "fill"}, b)'
              /\ ~Writing({"fill"}, b)
           \/ /\ phase'["kafka"] = phase["kafka"] /\ at'["kafka"] = at["kafka"]
              /\ index'["kafka"] = index["kafka"]
    PROVE  Whole(b)'
  <1>1. \A i \in Slots : Real(b, i)' <=> Real(b, i)
    BY DEF Real, Writing
  <1>2. /\ Writing({"store", "bump"}, b)' => count'[b] = index'["kafka"]
        /\ Writing({"fill"}, b)' => count'[b] = index'["kafka"] + 1
    BY DEF Whole, Writing
  <1>3. freed'[b] \subseteq accepted'[b]
    BY DEF Whole
  <1>4. ASSUME NEW i \in Slots, Real(b, i)'
        PROVE  /\ slot'[b][i] \in accepted'[b]
               /\ slot'[b][i] \in freed'[b] => \E t \in Threads : Passes(t, b, i)'
               /\ \A l \in Slots : Real(b, l)' /\ slot'[b][l] = slot'[b][i] => l = i
    BY <1>1, <1>4 DEF Whole
  <1>5. QED
    BY <1>2, <1>3, <1>4 DEF Whole

\* With no overlap, what one thread is at the other is not.
LEMMA Apart ==
    ASSUME OverlapInv, Clean, NEW b \in Buffers
    PROVE  ~Overlap(b)
  BY DEF OverlapInv, Clean

LEMMA CleanBefore == ASSUME Grows, Clean' PROVE Clean
  BY DEF Grows, Clean

LEMMA OneDrains ==
    ASSUME OverlapInv, Clean, NEW b \in Buffers, NEW t \in Threads, NEW s \in Threads,
           phase[t] \in DrainPhases, at[t] = b, phase[s] \in DrainPhases, at[s] = b
    PROVE  s = t
  <1>1. ~Overlap(b)
    BY Apart
  <1>2. QED
    BY <1>1, Basics DEF Overlap, DrainPhases

\* While the flush thread drains a buffer, nothing is appended to it.
LEMMA NoneWrites ==
    ASSUME OverlapInv, Clean, NEW b \in Buffers, NEW t \in Threads,
           phase[t] \in DrainPhases, at[t] = b
    PROVE  ~Writing(AppendPhases, b)
  <1>1. ~Overlap(b)
    BY Apart
  <1>2. QED
    BY <1>1, Basics DEF Overlap, Writing, DrainPhases, AppendPhases

\* The event in a slot that is not passed was not freed.
LEMMA NotFreed ==
    ASSUME OverlapInv, Clean, Sound, NEW b \in Buffers, NEW i \in Slots, i < count[b],
           NEW t \in Threads, phase[t] \in DrainPhases, at[t] = b, ~Passes(t, b, i)
    PROVE  Real(b, i) /\ slot[b][i] \notin freed[b] /\ slot[b][i] \in accepted[b]
  <1>1. ~Writing(AppendPhases, b)
    BY NoneWrites
  <1>2. Real(b, i)
    BY <1>1 DEF Real, Writing, AppendPhases
  <1>3. \A s \in Threads : ~Passes(s, b, i)
    BY OneDrains DEF Passes, DrainPhases
  <1>4. QED
    BY <1>2, <1>3 DEF Sound, Whole

\* Steps that free nothing and write nothing.
LEMMA PassesKept ==
    ASSUME NEW t \in Threads, OthersKept(t),
           NEW b \in Buffers, NEW i \in Slots, Passes(t, b, i) => Passes(t, b, i)'
    PROVE  \A s \in Threads : Passes(s, b, i) => Passes(s, b, i)'
  BY DEF OthersKept, Passes

LEMMA CleanBuild ==
    ASSUME Types, PlaceInv, OverlapInv, Clean, Sound, NEW t \in Threads, Build(t)
    PROVE  Sound' /\ ~wild'
  <1> USE Basics, ConstantsOK
  <1>1. /\ OthersKept(t) /\ UNCHANGED <<slot, accepted, count, freed, n>> /\ ~wild
        /\ phase[t] = "build" /\ at[t] = "events" /\ phase'[t] \in {"build", "post"}
    BY BuildEffect
  <1>2. \A b \in Buffers, i \in Slots : \A s \in Threads : Passes(s, b, i) => Passes(s, b, i)'
    BY <1>1, PassesKept DEF Passes
  <1>3. t # "kafka" => /\ phase'["kafka"] = phase["kafka"] /\ at'["kafka"] = at["kafka"]
                       /\ index'["kafka"] = index["kafka"]
    BY <1>1 DEF OthersKept
  <1>4. \A b \in Buffers : Whole(b)'
    BY <1>1, <1>2, <1>3, WholeKept DEF Sound, Writing
  <1>5. \A s \in Threads : phase'[s] = "build" => n'[s] <= count'["events"]
    BY <1>1 DEF Sound, OthersKept
  <1>6. ~wild'
    <2>1. CASE index[t] < n[t]
      <3>1. index[t] \in Slots /\ (wild' => slot["events"][index[t]] \in freed["events"])
        BY <2>1, BuildEffect
      <3>2. index[t] < count["events"]
        BY <1>1, <2>1, <3>1 DEF Sound, Slots, Types
      <3>3. QED
        BY <1>1, <3>1, <3>2, NotFreed DEF Passes, DrainPhases
    <2>2. CASE ~(index[t] < n[t])
      BY <1>1, <2>2, BuildEffect
    <2>3. QED
      BY <2>1, <2>2
  <1>7. QED
    BY <1>4, <1>5, <1>6 DEF Sound

LEMMA CleanPost ==
    ASSUME Types, PlaceInv, OverlapInv, Clean, Sound, NEW t \in Threads, Post(t)
    PROVE  Sound' /\ ~wild'
  <1> USE Basics, ConstantsOK
  <1>1. /\ OthersKept(t) /\ UNCHANGED <<slot, accepted, count, freed, n, wild>> /\ ~wild
        /\ phase[t] = "post" /\ phase'[t] = "free"
    BY PostEffect
  <1>2. \A b \in Buffers, i \in Slots : \A s \in Threads : Passes(s, b, i) => Passes(s, b, i)'
    BY <1>1, PassesKept DEF Passes
  <1>3. t # "kafka" => /\ phase'["kafka"] = phase["kafka"] /\ at'["kafka"] = at["kafka"]
                       /\ index'["kafka"] = index["kafka"]
    BY <1>1 DEF OthersKept
  <1>4. \A b \in Buffers : Whole(b)'
    BY <1>1, <1>2, <1>3, WholeKept DEF Sound, Writing
  <1>5. \A s \in Threads : phase'[s] = "build" => n'[s] <= count'["events"]
    BY <1>1 DEF Sound, OthersKept
  <1>6. QED
    BY <1>1, <1>4, <1>5 DEF Sound

\* Freeing the event of one slot more.
LEMMA FreesOne ==
    ASSUME Types, OverlapInv, Clean, Sound,
           NEW b \in Buffers, NEW t \in Threads, at[t] = b, at'[t] = b,
           phase[t] \in {"free", "produce"}, phase'[t] = phase[t],
           NEW k \in Slots, k = index[t], k < count[b], index'[t] = k + 1,
           OthersKept(t), UNCHANGED <<slot, accepted, count>>,
           freed'[b] = freed[b] \cup ({slot[b][k]} \ {Null}),
           wild' => slot[b][k] \in freed[b]
    PROVE  Whole(b)' /\ ~wild'
  <1> USE Basics
  <1>1. ~Passes(t, b, k) /\ phase[t] \in DrainPhases
    BY DEF Passes, Slots, DrainPhases
  <1>2. Real(b, k) /\ slot[b][k] \notin freed[b] /\ slot[b][k] \in accepted[b]
    BY <1>1, NotFreed
  <1>3. \A i \in Slots : Passes(t, b, i) => Passes(t, b, i)'
    BY DEF Passes, Slots
  <1>4. \A i \in Slots : \A s \in Threads : Passes(s, b, i) => Passes(s, b, i)'
    BY <1>3, PassesKept
  <1>5. Passes(t, b, k)'
    BY DEF Passes, Slots
  <1>6. ~Writing(AppendPhases, b)
    BY <1>1, NoneWrites
  <1>7. ~Writing({"store", "bump"}, b)' /\ ~Writing({"fill"}, b)'
    BY <1>6 DEF Writing, AppendPhases, OthersKept
  <1>8. \A i \in Slots : Real(b, i)' => Real(b, i)
    BY <1>6 DEF Real, Writing, AppendPhases
  <1>9. freed'[b] \subseteq accepted'[b]
    BY <1>2 DEF Sound, Whole
  <1>10. ASSUME NEW i \in Slots, Real(b, i)'
         PROVE  /\ slot'[b][i] \in accepted'[b]
                /\ slot'[b][i] \in freed'[b] => \E s \in Threads : Passes(s, b, i)'
                /\ \A l \in Slots : Real(b, l)' /\ slot'[b][l] = slot'[b][i] => l = i
    <2>1. /\ slot[b][i] \in accepted[b]
          /\ slot[b][i] \in freed[b] => \E s \in Threads : Passes(s, b, i)
          /\ \A l \in Slots : Real(b, l) /\ slot[b][l] = slot[b][i] => l = i
      BY <1>8, <1>10 DEF Sound, Whole
    <2>2. slot[b][i] = slot[b][k] => i = k
      BY <1>2, <2>1
    <2>3. QED
      BY <1>4, <1>5, <1>8, <2>1, <2>2
  <1>11. QED
    BY <1>2, <1>7, <1>9, <1>10 DEF Whole

\* A buffer the drain of another has nothing to do with.
LEMMA WholeElsewhere ==
    ASSUME Types, Sound, NEW t \in Threads, OthersKept(t), NEW c \in Buffers,
           phase[t] \in DrainPhases, phase'[t] \notin {"store", "fill", "bump"},
           at[t] # c \/ phase[t] \notin {"free", "produce", "reset"},
           freed'[c] = freed[c], accepted'[c] = accepted[c], count'[c] = count[c], slot' = slot
    PROVE  Whole(c)'
  <1> USE Basics
  <1>1. \A i \in Slots : \A s \in Threads : Passes(s, c, i) => Passes(s, c, i)'
    BY PassesKept DEF Passes
  <1>2. t # "kafka" => /\ phase'["kafka"] = phase["kafka"] /\ at'["kafka"] = at["kafka"]
                       /\ index'["kafka"] = index["kafka"]
    BY DEF OthersKept
  <1>3. t = "kafka" => ~Writing({"store", "bump", "fill"}, c)' /\ ~Writing({"fill"}, c)
    BY DEF Writing, DrainPhases
  <1>4. QED
    BY <1>1, <1>2, <1>3, WholeKept DEF Sound

\* A drain that has freed what the buffer holds.
LEMMA WholeFreed ==
    ASSUME Types, OverlapInv, Clean, Sound, NEW b \in Buffers, NEW t \in Threads,
           phase[t] \in {"free", "produce"}, at[t] = b, phase'[t] = "reset", at'[t] = b,
           OthersKept(t), UNCHANGED <<slot, accepted, count, freed>>
    PROVE  Whole(b)'
  <1> USE Basics
  <1>1. \A i \in Slots : \A s \in Threads : Passes(s, b, i) => Passes(s, b, i)'
    BY PassesKept DEF Passes
  <1>2. ~Writing(AppendPhases, b)
    BY NoneWrites DEF DrainPhases
  <1>3. ~Writing({"store", "bump", "fill"}, b)' /\ ~Writing({"fill"}, b)
    BY <1>2 DEF Writing, AppendPhases, OthersKept
  <1>4. QED
    BY <1>1, <1>3, WholeKept DEF Sound

LEMMA CleanFree ==
    ASSUME Types, PlaceInv, OverlapInv, Clean, Sound, NEW t \in Threads, Free(t)
    PROVE  Sound' /\ ~wild'
  <1> USE Basics, ConstantsOK
  <1>1. /\ OthersKept(t) /\ UNCHANGED <<slot, accepted, count, n>> /\ ~wild
        /\ phase[t] = "free" /\ at[t] = "events" /\ at'[t] = "events"
    BY FreeEffect
  <1>2. \A s \in Threads : phase'[s] = "build" => n'[s] <= count'["events"]
    BY <1>1, FreeEffect DEF Sound, OthersKept
  <1>3. Whole("alerts")'
    BY <1>1, FreeEffect, WholeElsewhere DEF DrainPhases
  <1>4. Whole("events")' /\ ~wild'
    <2>1. CASE index[t] < count["events"]
      <3>1. /\ phase'[t] = "free" /\ index'[t] = index[t] + 1 /\ index[t] \in Slots
            /\ freed'["events"] = freed["events"] \cup ({slot["events"][index[t]]} \ {Null})
            /\ wild' => slot["events"][index[t]] \in freed["events"]
        BY <2>1, FreeEffect
      <3>2. QED
        BY <1>1, <2>1, <3>1, FreesOne
    <2>2. CASE ~(index[t] < count["events"])
      BY <1>1, <2>2, FreeEffect, WholeFreed
    <2>3. QED
      BY <2>1, <2>2
  <1>5. QED
    BY <1>2, <1>3, <1>4 DEF Sound

LEMMA CleanProduce ==
    ASSUME Types, PlaceInv, OverlapInv, Clean, Sound, NEW t \in Threads, Produce(t)
    PROVE  Sound' /\ ~wild'
  <1> USE Basics, ConstantsOK
  <1>1. /\ OthersKept(t) /\ UNCHANGED <<slot, accepted, count, n>> /\ ~wild
        /\ phase[t] = "produce" /\ at[t] = "alerts" /\ at'[t] = "alerts"
    BY ProduceEffect
  <1>2. \A s \in Threads : phase'[s] = "build" => n'[s] <= count'["events"]
    BY <1>1, ProduceEffect DEF Sound, OthersKept
  <1>3. Whole("events")'
    BY <1>1, ProduceEffect, WholeElsewhere DEF DrainPhases
  <1>4. Whole("alerts")' /\ ~wild'
    <2>1. CASE index[t] < count["alerts"]
      <3>1. /\ phase'[t] = "produce" /\ index'[t] = index[t] + 1 /\ index[t] \in Slots
            /\ freed'["alerts"] = freed["alerts"] \cup ({slot["alerts"][index[t]]} \ {Null})
            /\ wild' => slot["alerts"][index[t]] \in freed["alerts"]
        BY <2>1, ProduceEffect
      <3>2. QED
        BY <1>1, <2>1, <3>1, FreesOne
    <2>2. CASE ~(index[t] < count["alerts"])
      BY <1>1, <2>2, ProduceEffect, WholeFreed
    <2>3. QED
      BY <2>1, <2>2
  <1>5. QED
    BY <1>2, <1>3, <1>4 DEF Sound

LEMMA CleanReset ==
    ASSUME Types, PlaceInv, OverlapInv, Clean, Sound, NEW t \in Threads, Reset(t)
    PROVE  Sound' /\ ~wild'
  <1> USE Basics, ConstantsOK
  <1>1. /\ OthersKept(t) /\ UNCHANGED <<slot, accepted, freed, wild, n, index>> /\ ~wild
        /\ phase[t] = "reset" /\ phase'[t] \in {"take", "produce", "again"}
        /\ count'[at[t]] = 0 /\ \A b \in Buffers \ {at[t]} : count'[b] = count[b]
        /\ at[t] \in Buffers
    BY ResetEffect DEF Types
  <1>2. ASSUME NEW s \in Threads, phase'[s] = "build" PROVE n'[s] <= count'["events"]
    <2>1. s # t /\ phase[s] = "build" /\ at[s] = "events"
      BY <1>1, <1>2 DEF OthersKept, PlaceInv
    <2>2. at[t] # "events"
      BY <1>1, <2>1, OneDrains DEF DrainPhases
    <2>3. QED
      BY <1>1, <2>1, <2>2 DEF Sound
  <1>3. ASSUME NEW c \in Buffers, c # at[t] PROVE Whole(c)'
    BY <1>1, <1>3, WholeElsewhere DEF DrainPhases
  <1>4. ASSUME NEW c \in Buffers, c = at[t] PROVE Whole(c)'
    <2>1. ~Writing(AppendPhases, c)
      BY <1>1, <1>4, NoneWrites DEF DrainPhases
    <2>2. ~Writing({"store", "bump"}, c)' /\ ~Writing({"fill"}, c)'
      BY <1>1, <2>1 DEF Writing, AppendPhases, OthersKept
    <2>3. \A i \in Slots : ~Real(c, i)'
      BY <1>1, <1>4 DEF Real, Slots
    <2>4. QED
      BY <1>1, <2>2, <2>3 DEF Sound, Whole
  <1>5. QED
    BY <1>1, <1>2, <1>3, <1>4 DEF Sound

LEMMA CleanQuiet ==
    ASSUME Types, PlaceInv, OverlapInv, Clean, Sound,
           PollMessage \/ Check \/ Take \/ CommitMessage \/ Wake \/ Again
    PROVE  Sound' /\ ~wild'
  <1> USE Basics, ConstantsOK
  <1>1. UNCHANGED <<slot, accepted, count, freed, wild>> /\ ~wild
    BY PollEffect, CheckEffect, TakeEffect, CommitEffect, WakeEffect, AgainEffect
  <1>2. \A b \in Buffers, i \in Slots : \A s \in Threads : Passes(s, b, i) => Passes(s, b, i)'
    <2>1. CASE PollMessage \/ Take \/ CommitMessage
      BY <2>1, PollEffect, TakeEffect, CommitEffect, PassesKept DEF Passes
    <2>2. CASE Again
      BY <2>2, AgainEffect, PassesKept DEF Passes
    <2>3. CASE Check
      BY <2>3, CheckEffect DEF Passes
    <2>4. CASE Wake
      BY <2>4, WakeEffect DEF Passes
    <2>5. QED
      BY <2>1, <2>2, <2>3, <2>4
  <1>3. \A s \in Threads : phase'[s] = "build" => n'[s] <= count'["events"]
    <2>1. CASE PollMessage \/ Take \/ CommitMessage
      BY <2>1, PollEffect, TakeEffect, CommitEffect DEF Sound, OthersKept
    <2>2. CASE Again
      BY <2>2, AgainEffect DEF Sound, OthersKept
    <2>3. count["events"] \in Nat
      BY DEF Types
    <2>4. CASE Check
      BY <2>3, <2>4, CheckEffect DEF Sound
    <2>5. CASE Wake
      BY <2>3, <2>5, WakeEffect DEF Sound
    <2>6. QED
      BY <2>1, <2>2, <2>4, <2>5
  <1>4. CASE PollMessage \/ Check \/ CommitMessage
    <2>1. \A b \in Buffers : ~Writing({"store", "bump", "fill"}, b)' /\ ~Writing({"fill"}, b)
      BY <1>4, PollEffect, CheckEffect, CommitEffect DEF Writing
    <2>2. QED
      BY <1>1, <1>2, <1>3, <2>1, WholeKept DEF Sound
  <1>5. CASE Wake \/ Again
    <2>1. /\ phase'["kafka"] = phase["kafka"] /\ at'["kafka"] = at["kafka"]
          /\ index'["kafka"] = index["kafka"]
      BY <1>5, WakeEffect, AgainEffect DEF OthersKept
    <2>2. QED
      BY <1>1, <1>2, <1>3, <2>1, WholeKept DEF Sound
  <1>6. CASE Take
    <2>1. /\ phase["kafka"] = "take" /\ phase'["kafka"] = "store" /\ at'["kafka"] = at["kafka"]
          /\ index'["kafka"] = count[at["kafka"]]
      BY <1>6, TakeEffect
    <2>2. ASSUME NEW b \in Buffers PROVE Whole(b)'
      <3>1. \A i \in Slots : Real(b, i)' <=> Real(b, i)
        BY <1>1, <2>1 DEF Real, Writing
      <3>2. /\ Writing({"store", "bump"}, b)' => count'[b] = index'["kafka"]
            /\ ~Writing({"fill"}, b)'
        BY <1>1, <2>1 DEF Writing
      <3>3. QED
        BY <1>1, <1>2, <3>1, <3>2 DEF Sound, Whole
    <2>3. QED
      BY <1>1, <1>3, <2>2 DEF Sound
  <1>7. QED
    BY <1>4, <1>5, <1>6

LEMMA WholeBump ==
    ASSUME Types, PlaceInv, NewInv, OverlapInv, SlotInv, Clean, Sound, Bump,
           NEW b \in Buffers, b = at["kafka"], NEW k \in Slots, k = index["kafka"],
           \A i \in Slots, s \in Threads : ~Passes(s, b, i)
    PROVE  Whole(b)'
  <1> USE Basics, ConstantsOK
  <1>1. slot' = slot /\ freed' = freed /\ count'[b] = k + 1 /\ k \in Nat /\ Whole(b)
    BY BumpEffect DEF Sound, Slots
  <1>2. CASE phase["kafka"] = "store"
    <2>1. /\ phase'["kafka"] = "fill" /\ at'["kafka"] = b /\ index'["kafka"] = k /\ accepted' = accepted
      BY <1>2, BumpEffect
    <2>2. count[b] = k
      BY <1>1, <1>2 DEF Whole, Writing
    <2>3. \A i \in Slots : i < k + 1 /\ i # k => i < k
      BY <1>1 DEF Slots
    <2>4. \A i \in Slots : Real(b, i)' => Real(b, i)
      BY <1>1, <1>2, <2>1, <2>2, <2>3 DEF Real, Writing
    <2>5. /\ Writing({"fill"}, b)' => count'[b] = index'["kafka"] + 1
          /\ ~Writing({"store", "bump"}, b)'
      BY <1>1, <2>1 DEF Writing
    <2>6. freed'[b] \subseteq accepted'[b]
      BY <1>1, <2>1 DEF Whole
    <2>7. ASSUME NEW i \in Slots, Real(b, i)'
          PROVE  /\ slot'[b][i] \in accepted'[b]
                 /\ slot'[b][i] \notin freed'[b]
                 /\ \A l \in Slots : Real(b, l)' /\ slot'[b][l] = slot'[b][i] => l = i
      BY <1>1, <2>1, <2>4, <2>7 DEF Whole
    <2>8. QED
      BY <2>5, <2>6, <2>7 DEF Whole
  <1>3. CASE phase["kafka"] = "bump"
    <2>1. StoredFacts(b)
      BY <1>3, BumpEffect
    <2>2. count[b] = k /\ slot[b][k] = position
      BY <1>1, <1>3 DEF Whole, Writing, SlotInv, Hand
    <2>3. position \notin accepted[b] /\ position \notin freed[b]
      BY <1>1, <1>3 DEF NewInv, Whole
    <2>4. \A i \in Slots : i < k + 1 => i < k \/ i = k
      BY <1>1 DEF Slots
    <2>5. \A i \in Slots : Real(b, i)' => Real(b, i) \/ i = k
      BY <1>1, <1>3, <2>2, <2>4 DEF Real, Writing
    <2>6. ~Writing({"store", "bump"}, b)' /\ ~Writing({"fill"}, b)'
      BY <2>1 DEF Writing, StoredFacts
    <2>7. accepted'[b] = accepted[b] \cup {position}
      BY <2>1 DEF StoredFacts
    <2>8. \A i \in Slots : Real(b, i) => slot[b][i] \in accepted[b] /\ slot[b][i] \notin freed[b]
      BY <1>1 DEF Whole
    <2>9. ASSUME NEW i \in Slots, Real(b, i)'
          PROVE  /\ slot'[b][i] \in accepted'[b]
                 /\ slot'[b][i] \notin freed'[b]
                 /\ \A l \in Slots : Real(b, l)' /\ slot'[b][l] = slot'[b][i] => l = i
      <3>1. \A l \in Slots : Real(b, l) /\ Real(b, i) /\ slot[b][l] = slot[b][i] => l = i
        BY <1>1 DEF Whole
      <3>2. QED
        BY <1>1, <2>2, <2>3, <2>5, <2>7, <2>8, <2>9, <3>1
    <2>10. QED
      BY <1>1, <2>6, <2>7, <2>9 DEF Whole
  <1>4. QED
    BY <1>2, <1>3, BumpEffect

LEMMA WholeFill ==
    ASSUME Types, PlaceInv, NewInv, OverlapInv, Clean, Sound, Fill,
           NEW b \in Buffers, b = at["kafka"], NEW k \in Slots, k = index["kafka"],
           \A i \in Slots, s \in Threads : ~Passes(s, b, i)
    PROVE  Whole(b)'
  <1> USE Basics, ConstantsOK
  <1>1. /\ freed' = freed /\ count' = count /\ k \in Nat /\ Whole(b)
        /\ slot'[b][k] = position /\ \A i \in Slots \ {k} : slot'[b][i] = slot[b][i]
    BY FillEffect DEF Sound, Slots
  <1>2. \A i \in Slots : Real(b, i) => slot[b][i] \in accepted[b] /\ slot[b][i] \notin freed[b]
    BY <1>1 DEF Whole
  <1>3. CASE phase["kafka"] = "store"
    <2>1. /\ phase'["kafka"] = "bump" /\ at'["kafka"] = b /\ index'["kafka"] = k /\ accepted' = accepted
      BY <1>3, FillEffect
    <2>2. count[b] = k
      BY <1>1, <1>3 DEF Whole, Writing
    <2>3. \A i \in Slots : Real(b, i)' => Real(b, i) /\ i # k
      BY <1>1, <1>3, <2>1, <2>2 DEF Real, Writing, Slots
    <2>4. Writing({"store", "bump"}, b)' => count'[b] = index'["kafka"]
      BY <1>1, <2>1, <2>2 DEF Writing
    <2>5. ~Writing({"fill"}, b)'
      BY <2>1 DEF Writing
    <2>6. ASSUME NEW i \in Slots, Real(b, i)'
          PROVE  /\ slot'[b][i] \in accepted'[b]
                 /\ slot'[b][i] \notin freed'[b]
                 /\ \A l \in Slots : Real(b, l)' /\ slot'[b][l] = slot'[b][i] => l = i
      <3>1. \A l \in Slots : Real(b, l) /\ Real(b, i) /\ slot[b][l] = slot[b][i] => l = i
        BY <1>1 DEF Whole
      <3>2. QED
        BY <1>1, <1>2, <2>1, <2>3, <2>6, <3>1
    <2>7. QED
      BY <1>1, <2>1, <2>4, <2>5, <2>6 DEF Whole
  <1>4. CASE phase["kafka"] = "fill"
    <2>1. StoredFacts(b)
      BY <1>4, FillEffect
    <2>2. position \notin accepted[b] /\ position \notin freed[b]
      BY <1>1, <1>4 DEF NewInv, Whole
    <2>3. \A i \in Slots : Real(b, i)' => Real(b, i) \/ i = k
      BY <1>1 DEF Real, Writing
    <2>4. ~Writing({"store", "bump"}, b)' /\ ~Writing({"fill"}, b)'
      BY <2>1 DEF Writing, StoredFacts
    <2>5. accepted'[b] = accepted[b] \cup {position} /\ ~Real(b, k)
      BY <1>4, <2>1 DEF StoredFacts, Real, Writing
    <2>6. ASSUME NEW i \in Slots, Real(b, i)'
          PROVE  /\ slot'[b][i] \in accepted'[b]
                 /\ slot'[b][i] \notin freed'[b]
                 /\ \A l \in Slots : Real(b, l)' /\ slot'[b][l] = slot'[b][i] => l = i
      <3>1. \A l \in Slots : Real(b, l) /\ Real(b, i) /\ slot[b][l] = slot[b][i] => l = i
        BY <1>1 DEF Whole
      <3>2. CASE i = k
        <4>1. slot'[b][i] = position
          BY <1>1, <3>2
        <4>2. \A l \in Slots : Real(b, l)' /\ l # k => slot'[b][l] # position
          <5>1. ASSUME NEW l \in Slots, Real(b, l)', l # k PROVE slot'[b][l] # position
            <6>1. Real(b, l) /\ slot'[b][l] = slot[b][l]
              BY <1>1, <2>3, <5>1
            <6>2. QED
              BY <1>2, <2>2, <6>1
          <5>2. QED
            BY <5>1
        <4>3. QED
          BY <1>1, <2>2, <2>5, <3>2, <4>1, <4>2
      <3>3. CASE i # k
        <4>1. Real(b, i) /\ slot'[b][i] = slot[b][i] /\ slot[b][i] # position
          BY <1>1, <1>2, <2>2, <2>3, <2>6, <3>3
        <4>2. \A l \in Slots : Real(b, l)' /\ slot'[b][l] = slot'[b][i] => l # k
          BY <1>1, <4>1
        <4>3. QED
          BY <1>1, <1>2, <2>3, <2>5, <3>1, <4>1, <4>2
      <3>4. QED
        BY <3>2, <3>3
    <2>7. QED
      BY <1>1, <2>4, <2>5, <2>6 DEF Whole
  <1>5. QED
    BY <1>3, <1>4, FillEffect

LEMMA CleanAppend ==
    ASSUME Types, PlaceInv, NewInv, OverlapInv, SlotInv, Clean, Sound, Bump \/ Fill,
           NEW b \in Buffers, b = at["kafka"], NEW k \in Slots, k = index["kafka"]
    PROVE  Sound' /\ ~wild'
  <1> USE Basics, ConstantsOK
  <1>1. /\ OthersKept("kafka") /\ freed' = freed /\ wild' = wild /\ ~wild
        /\ phase["kafka"] \in {"store", "fill", "bump"}
        /\ \A c \in Buffers \ {b} : /\ count'[c] = count[c] /\ accepted'[c] = accepted[c]
                                    /\ \A i \in Slots : slot'[c][i] = slot[c][i]
        /\ phase'["kafka"] \in {"fill", "bump", "check", "commit"}
        /\ phase'["kafka"] \in {"fill", "bump"} => at'["kafka"] = b
    BY BumpEffect, FillEffect DEF StoredFacts
  <1>2. ~(phase["flush"] \in DrainPhases /\ at["flush"] = b)
    <2>1. ~Overlap(b)
      BY Apart
    <2>2. QED
      BY <1>1, <2>1 DEF Overlap, DrainPhases
  <1>3. \A i \in Slots, s \in Threads : ~Passes(s, b, i)
    BY <1>1, <1>2 DEF Passes, DrainPhases
  <1>4. Whole(b)'
    BY <1>3, WholeBump, WholeFill
  <1>5. ASSUME NEW c \in Buffers \ {b} PROVE Whole(c)'
    <2>1. \A i \in Slots : \A s \in Threads : Passes(s, c, i) => Passes(s, c, i)'
      BY <1>1, PassesKept DEF Passes
    <2>2. ~Writing({"store", "bump", "fill"}, c)' /\ ~Writing({"fill"}, c)
      BY <1>1 DEF Writing
    <2>3. QED
      BY <1>1, <2>1, <2>2, WholeKept DEF Sound
  <1>6. ASSUME NEW s \in Threads, phase'[s] = "build" PROVE n'[s] <= count'["events"]
    <2>1. s = "flush" /\ phase[s] = "build" /\ n'[s] = n[s]
      BY <1>1, <1>6 DEF OthersKept
    <2>2. at[s] = "events"
      BY <2>1 DEF PlaceInv
    <2>3. b # "events"
      BY <1>2, <2>1, <2>2 DEF DrainPhases
    <2>4. QED
      BY <1>1, <2>1, <2>3 DEF Sound
  <1>7. QED
    BY <1>1, <1>4, <1>5, <1>6 DEF Sound

-----------------------------------------------------------------------------
(* No event is posted twice.                                               *)

LEMMA RealKept ==
    ASSUME count'["events"] = count["events"],
           Writing({"fill"}, "events")' <=> Writing({"fill"}, "events"),
           Writing({"fill"}, "events") => index'["kafka"] = index["kafka"]
    PROVE  \A i \in Slots : Real("events", i)' <=> Real("events", i)
  BY DEF Real

\* Steps that send no event, take none out of the buffer and add none to a payload.
LEMMA UnsentKept ==
    ASSUME Unsent, sent'["events"] = sent["events"], accepted["events"] \subseteq accepted'["events"],
           \A i \in Slots : Real("events", i)' <=> Real("events", i),
           \A i \in Slots : Real("events", i) => slot'["events"][i] = slot["events"][i],
           \A t \in Threads : Posted(t) => Posted(t)',
           \A t \in Threads : load'[t] = load[t] /\ (phase'[t] \notin {"build", "post"} => load[t] = {})
    PROVE  Unsent'
  <1>1. sent'["events"] \subseteq accepted'["events"]
    BY DEF Unsent
  <1>2. ASSUME NEW i \in Slots, Real("events", i)', slot'["events"][i] \in sent'["events"]
        PROVE  \E t \in Threads : Posted(t)'
    BY <1>2 DEF Unsent
  <1>3. ASSUME NEW t \in Threads, NEW e \in load'[t]
        PROVE  \E i \in Slots : Real("events", i)' /\ slot'["events"][i] = e
    BY <1>3 DEF Unsent
  <1>4. QED
    BY <1>1, <1>2, <1>3 DEF Unsent

LEMMA UnsentBuild ==
    ASSUME Types, PlaceInv, OverlapInv, Clean, Sound, Unsent, NEW t \in Threads, Build(t)
    PROVE  Unsent'
  <1> USE Basics, ConstantsOK
  <1>1. /\ OthersKept(t) /\ UNCHANGED <<slot, accepted, count, sent, n>>
        /\ phase[t] = "build" /\ at[t] = "events" /\ phase'[t] \in {"build", "post"}
    BY BuildEffect
  <1>2. ~Writing({"fill"}, "events") /\ ~Writing({"fill"}, "events")'
    <2>1. ~Writing(AppendPhases, "events")
      BY <1>1, NoneWrites DEF DrainPhases
    <2>2. QED
      BY <1>1, <2>1 DEF Writing, AppendPhases, OthersKept
  <1>3. \A i \in Slots : Real("events", i)' <=> Real("events", i)
    BY <1>1, <1>2, RealKept
  <1>4. \A s \in Threads : Posted(s) => Posted(s)'
    BY <1>1 DEF Posted, OthersKept
  <1>5. CASE index[t] < n[t]
    <2>1. /\ index[t] \in Slots
          /\ load'[t] = load[t] \cup ({slot["events"][index[t]]} \ {Null})
          /\ phase'[t] = "build"
      BY <1>5, BuildEffect
    <2>2. Real("events", index[t])
      BY <1>1, <1>2, <1>5, <2>1 DEF Sound, Real, Slots, Types
    <2>3. ASSUME NEW s \in Threads, NEW e \in load'[s]
          PROVE  \E i \in Slots : Real("events", i) /\ slot["events"][i] = e
      <3>1. CASE e \in load[s]
        BY <3>1 DEF Unsent
      <3>2. CASE e \notin load[s]
        <4>1. s = t /\ e = slot["events"][index[t]]
          BY <1>1, <2>1, <2>3, <3>2 DEF OthersKept
        <4>2. QED
          BY <2>1, <2>2, <4>1
      <3>3. QED
        BY <3>1, <3>2
    <2>4. \A s \in Threads : phase'[s] \notin {"build", "post"} => load'[s] = {}
      BY <1>1 DEF Unsent, OthersKept
    <2>5. QED
      BY <1>1, <1>3, <1>4, <2>3, <2>4 DEF Unsent
  <1>6. CASE ~(index[t] < n[t])
    <2>1. load' = load
      BY <1>6, BuildEffect
    <2>2. \A s \in Threads : phase'[s] \notin {"build", "post"} => load[s] = {}
      BY <1>1 DEF Unsent, OthersKept
    <2>3. QED
      BY <1>1, <1>3, <1>4, <2>1, <2>2, UnsentKept
  <1>7. QED
    BY <1>5, <1>6

LEMMA UnsentPost ==
    ASSUME Types, PlaceInv, OverlapInv, Clean, Sound, Unsent, NEW t \in Threads, Post(t)
    PROVE  Unsent'
  <1> USE Basics, ConstantsOK
  <1>1. /\ OthersKept(t) /\ UNCHANGED <<slot, accepted, count, index>>
        /\ phase[t] = "post" /\ phase'[t] = "free" /\ at[t] = "events" /\ at'[t] = "events"
        /\ load'[t] = {} /\ sent'["events"] = sent["events"] \cup load[t]
    BY PostEffect
  <1>2. Writing({"fill"}, "events")' <=> Writing({"fill"}, "events")
    BY <1>1 DEF Writing, OthersKept
  <1>3. \A i \in Slots : Real("events", i)' <=> Real("events", i)
    BY <1>1, <1>2, RealKept
  <1>4. Posted(t)'
    BY <1>1 DEF Posted
  <1>5. sent'["events"] \subseteq accepted'["events"]
    <2>1. \A i \in Slots : Real("events", i) => slot["events"][i] \in accepted["events"]
      BY DEF Sound, Whole
    <2>2. load[t] \subseteq accepted["events"]
      BY <2>1 DEF Unsent
    <2>3. QED
      BY <1>1, <2>2 DEF Unsent
  <1>6. \A s \in Threads : load'[s] \subseteq load[s]
    BY <1>1 DEF OthersKept
  <1>7. \A s \in Threads : phase'[s] \notin {"build", "post"} => load'[s] = {}
    BY <1>1 DEF Unsent, OthersKept
  <1>8. ASSUME NEW s \in Threads, NEW e \in load'[s]
        PROVE  \E i \in Slots : Real("events", i)' /\ slot'["events"][i] = e
    BY <1>1, <1>3, <1>6, <1>8 DEF Unsent
  <1>9. QED
    BY <1>4, <1>5, <1>7, <1>8 DEF Unsent

\* The drain of the buffer ends: it is empty, and so is every payload.
LEMMA UnsentReset ==
    ASSUME Types, PlaceInv, OverlapInv, Clean, Sound, Unsent, NEW t \in Threads, Reset(t)
    PROVE  Unsent'
  <1> USE Basics, ConstantsOK
  <1>1. /\ OthersKept(t) /\ UNCHANGED <<slot, accepted, sent, index, load>>
        /\ phase[t] = "reset" /\ phase'[t] \in {"take", "produce", "again"} /\ at[t] \in Buffers
        /\ count'[at[t]] = 0 /\ \A b \in Buffers \ {at[t]} : count'[b] = count[b]
    BY ResetEffect DEF Types
  <1>2. load[t] = {}
    BY <1>1 DEF Unsent
  <1>3. \A s \in Threads : phase'[s] \notin {"build", "post"} => load'[s] = {}
    BY <1>1, <1>2 DEF Unsent, OthersKept
  <1>4. CASE at[t] = "events"
    <2>1. ASSUME NEW s \in Threads PROVE load'[s] = {}
      <3>1. CASE s = t
        BY <1>1, <1>2, <3>1
      <3>2. CASE s # t
        <4>1. ~(phase[s] \in {"build", "post"})
          <5>1. phase[s] \in {"build", "post"} => at[s] = "events" /\ phase[s] \in DrainPhases
            BY DEF PlaceInv, DrainPhases
          <5>2. phase[t] \in DrainPhases
            BY <1>1 DEF DrainPhases
          <5>3. QED
            BY <1>4, <3>2, <5>1, <5>2, OneDrains
        <4>2. QED
          BY <1>1, <4>1 DEF Unsent
      <3>3. QED
        BY <3>1, <3>2
    <2>2. \A i \in Slots : ~Real("events", i)'
      BY <1>1, <1>4 DEF Real, Slots
    <2>3. QED
      BY <1>1, <2>1, <2>2 DEF Unsent
  <1>5. CASE at[t] # "events"
    <2>1. count'["events"] = count["events"]
      BY <1>1, <1>5
    <2>2. Writing({"fill"}, "events")' <=> Writing({"fill"}, "events")
      BY <1>1 DEF Writing, OthersKept
    <2>3. \A i \in Slots : Real("events", i)' <=> Real("events", i)
      BY <1>1, <2>1, <2>2, RealKept
    <2>4. \A s \in Threads : Posted(s) => Posted(s)'
      BY <1>1, <1>5 DEF Posted, OthersKept
    <2>5. QED
      BY <1>1, <1>3, <2>3, <2>4, UnsentKept
  <1>6. QED
    BY <1>4, <1>5

\* The steps that touch neither the events that are counted nor a payload.
LEMMA UnsentQuiet ==
    ASSUME Types, PlaceInv, Unsent,
           \/ \E t \in Threads : Free(t) \/ Produce(t)
           \/ PollMessage \/ Check \/ Take \/ CommitMessage \/ Wake \/ Again
    PROVE  Unsent'
  <1> USE Basics, ConstantsOK
  <1>1. ASSUME NEW t \in Threads, Free(t) \/ Produce(t)
        PROVE  Unsent'
    <2>1. /\ OthersKept(t) /\ UNCHANGED <<slot, accepted, count, load>>
          /\ sent'["events"] = sent["events"] /\ phase[t] \in {"free", "produce"}
          /\ phase'[t] \in {"free", "produce", "reset"} /\ at'[t] = at[t]
          /\ phase[t] = "free" => phase'[t] \in {"free", "reset"}
          /\ phase[t] = "produce" => at[t] = "alerts"
      BY <1>1, FreeEffect, ProduceEffect
    <2>2. /\ Writing({"fill"}, "events")' <=> Writing({"fill"}, "events")
          /\ Writing({"fill"}, "events") => index'["kafka"] = index["kafka"]
      BY <2>1 DEF Writing, OthersKept
    <2>3. \A i \in Slots : Real("events", i)' <=> Real("events", i)
      BY <2>1, <2>2, RealKept
    <2>4. \A s \in Threads : Posted(s) => Posted(s)'
      BY <2>1 DEF Posted, OthersKept
    <2>5. \A s \in Threads : phase'[s] \notin {"build", "post"} => load[s] = {}
      BY <2>1 DEF Unsent, OthersKept
    <2>6. QED
      BY <2>1, <2>3, <2>4, <2>5, UnsentKept
  <1>2. ASSUME PollMessage \/ Check \/ Take \/ CommitMessage \/ Wake \/ Again
        PROVE  Unsent'
    <2>1. UNCHANGED <<slot, accepted, count, sent, load>>
      BY <1>2, PollEffect, CheckEffect, TakeEffect, CommitEffect, WakeEffect, AgainEffect
    <2>2. /\ Writing({"fill"}, "events")' <=> Writing({"fill"}, "events")
          /\ Writing({"fill"}, "events") => index'["kafka"] = index["kafka"]
      <3>1. CASE PollMessage \/ Check \/ Take \/ CommitMessage
        BY <3>1, PollEffect, CheckEffect, TakeEffect, CommitEffect DEF Writing
      <3>2. CASE Wake \/ Again
        BY <3>2, WakeEffect, AgainEffect DEF Writing, OthersKept
      <3>3. QED
        BY <1>2, <3>1, <3>2
    <2>3. \A i \in Slots : Real("events", i)' <=> Real("events", i)
      BY <2>1, <2>2, RealKept
    <2>4. ASSUME NEW s \in Threads
          PROVE  /\ Posted(s) => Posted(s)'
                 /\ phase'[s] \notin {"build", "post"} => load[s] = {}
      <3>1. CASE PollMessage \/ Take \/ CommitMessage
        BY <3>1, PollEffect, TakeEffect, CommitEffect DEF Posted, Unsent, OthersKept
      <3>2. CASE Check
        BY <3>2, CheckEffect DEF Posted, Unsent
      <3>3. CASE Wake \/ Again
        BY <3>3, WakeEffect, AgainEffect DEF Posted, Unsent, OthersKept
      <3>4. QED
        BY <1>2, <3>1, <3>2, <3>3
    <2>5. QED
      BY <2>1, <2>3, <2>4, UnsentKept
  <1>3. QED
    BY <1>1, <1>2

\* An append adds one slot that counts, and it holds the new event.
LEMMA RealBump ==
    ASSUME Types, PlaceInv, SlotInv, Sound, Bump,
           NEW b \in Buffers, b = at["kafka"], NEW k \in Slots, k = index["kafka"]
    PROVE  \A i \in Slots : Real(b, i)' =>
               slot'[b][i] = position \/ (Real(b, i) /\ slot'[b][i] = slot[b][i])
  <1> USE ConstantsOK
  <1>1. slot' = slot /\ count'[b] = k + 1 /\ k \in Nat /\ Whole(b)
    BY BumpEffect DEF Sound, Slots
  <1>2. \A i \in Slots : i < k + 1 => i < k \/ i = k
    BY <1>1 DEF Slots
  <1>3. CASE phase["kafka"] = "store"
    <2>1. phase'["kafka"] = "fill" /\ at'["kafka"] = b /\ index'["kafka"] = k
      BY <1>3, BumpEffect
    <2>2. count[b] = k
      BY <1>1, <1>3 DEF Whole, Writing
    <2>3. QED
      BY <1>1, <1>2, <1>3, <2>1, <2>2 DEF Real, Writing
  <1>4. CASE phase["kafka"] = "bump"
    <2>1. count[b] = k /\ slot[b][k] = position
      BY <1>1, <1>4 DEF Whole, Writing, SlotInv, Hand
    <2>2. QED
      BY <1>1, <1>2, <1>4, <2>1 DEF Real, Writing
  <1>5. QED
    BY <1>3, <1>4, BumpEffect

LEMMA RealFill ==
    ASSUME Types, PlaceInv, Sound, Fill,
           NEW b \in Buffers, b = at["kafka"], NEW k \in Slots, k = index["kafka"]
    PROVE  \A i \in Slots : Real(b, i)' =>
               slot'[b][i] = position \/ (Real(b, i) /\ slot'[b][i] = slot[b][i])
  <1>1. /\ count' = count /\ slot'[b][k] = position
        /\ \A i \in Slots \ {k} : slot'[b][i] = slot[b][i]
    BY FillEffect
  <1>2. \A i \in Slots : Real(b, i)' => Real(b, i) \/ i = k
    BY <1>1 DEF Real, Writing
  <1>3. QED
    BY <1>1, <1>2

\* A new event was not sent, and no drain of the buffer goes on.
LEMMA UnsentAppend ==
    ASSUME Types, PlaceInv, NewInv, OverlapInv, SlotInv, Clean, Sound, Unsent, Bump \/ Fill,
           NEW b \in Buffers, b = at["kafka"], NEW k \in Slots, k = index["kafka"]
    PROVE  Unsent'
  <1> USE Basics, ConstantsOK
  <1>1. /\ OthersKept("kafka") /\ sent' = sent /\ load' = load
        /\ phase["kafka"] \in {"store", "fill", "bump"}
        /\ \A c \in Buffers \ {b} : /\ count'[c] = count[c] /\ accepted'[c] = accepted[c]
                                    /\ \A i \in Slots : slot'[c][i] = slot[c][i]
        /\ phase'["kafka"] \in {"fill", "bump", "check", "commit"}
        /\ phase'["kafka"] \in {"fill", "bump"} => at'["kafka"] = b
    BY BumpEffect, FillEffect DEF StoredFacts
  <1>2. load["kafka"] = {}
    BY <1>1 DEF Unsent
  <1>3. \A s \in Threads : phase'[s] \notin {"build", "post"} => load'[s] = {}
    BY <1>1, <1>2 DEF Unsent, OthersKept
  <1>4. CASE b # "events"
    <2>1. ~Writing({"fill"}, "events")' /\ ~Writing({"fill"}, "events")
      BY <1>1, <1>4 DEF Writing
    <2>2. \A i \in Slots : Real("events", i)' <=> Real("events", i)
      BY <1>1, <1>4, <2>1, RealKept
    <2>3. \A s \in Threads : Posted(s) => Posted(s)'
      BY <1>1 DEF Posted, OthersKept
    <2>4. QED
      BY <1>1, <1>3, <1>4, <2>2, <2>3, UnsentKept
  <1>5. CASE b = "events"
    <2>1. ~(phase["flush"] \in DrainPhases /\ at["flush"] = "events")
      <3>1. ~Overlap(b)
        BY Apart
      <3>2. QED
        BY <1>1, <1>5, <3>1 DEF Overlap, DrainPhases
    <2>2. \A s \in Threads : load'[s] = {} /\ ~Posted(s)
      <3>1. phase["flush"] \notin {"build", "post"}
        BY <2>1 DEF PlaceInv, DrainPhases
      <3>2. QED
        BY <1>1, <1>2, <2>1, <3>1 DEF Unsent, Posted, DrainPhases
    <2>3. \A i \in Slots : Real("events", i) => slot["events"][i] \notin sent["events"]
      BY <2>2 DEF Unsent
    <2>4. position \notin accepted["events"] /\ position \notin sent["events"]
      BY <1>1, <1>5 DEF NewInv, Unsent
    <2>5. accepted["events"] \subseteq accepted'["events"]
      BY <1>1, <1>5, BumpEffect, FillEffect DEF StoredFacts
    <2>6. ASSUME NEW i \in Slots, Real("events", i)'
          PROVE  slot'["events"][i] \notin sent["events"]
      <3>1. CASE Bump
        BY <1>5, <2>3, <2>4, <2>6, <3>1, RealBump
      <3>2. CASE Fill
        BY <1>5, <2>3, <2>4, <2>6, <3>2, RealFill
      <3>3. QED
        BY <3>1, <3>2
    <2>7. QED
      BY <1>1, <2>2, <2>4, <2>5, <2>6 DEF Unsent
  <1>6. QED
    BY <1>4, <1>5

LEMMA UnsentStep ==
    ASSUME TypeOK, PlaceInv, NewInv, OverlapInv, SlotInv, Clean, Sound, Unsent, ThreadStep
    PROVE  Unsent'
  <1> USE TypeParts
  <1>1. ASSUME NEW t \in Threads, Build(t) \/ Post(t) \/ Reset(t)
        PROVE  Unsent'
    BY <1>1, UnsentBuild, UnsentPost, UnsentReset
  <1>2. CASE \/ \E t \in Threads : Free(t) \/ Produce(t)
             \/ PollMessage \/ Check \/ Take \/ CommitMessage \/ Wake \/ Again
    BY <1>2, UnsentQuiet
  <1>3. CASE Bump \/ Fill
    <2>1. at["kafka"] \in Buffers /\ index["kafka"] \in Slots
      BY <1>3, Basics, BumpEffect, FillEffect DEF Types
    <2>2. QED
      BY <1>3, <2>1, UnsentAppend
  <1>4. QED
    BY <1>1, <1>2, <1>3 DEF ThreadStep

\* A payload holds no event that was sent.
LEMMA NoneRepeats ==
    ASSUME Types, PlaceInv, OverlapInv, Clean, Unsent, NEW t \in Threads
    PROVE  ~Repeats(t)
  <1> SUFFICES ASSUME phase[t] = "post", NEW e \in load[t], e \in sent["events"] PROVE FALSE
    BY DEF Repeats
  <1>1. PICK i \in Slots : Real("events", i) /\ slot["events"][i] = e
    BY DEF Unsent
  <1>2. PICK s \in Threads : Posted(s)
    BY <1>1 DEF Unsent
  <1>3. phase[s] \in DrainPhases /\ phase[t] \in DrainPhases /\ at[t] = "events" /\ at[s] = "events" /\ s # t
    BY <1>2 DEF Posted, PlaceInv, DrainPhases
  <1>4. QED
    BY <1>3, OneDrains, Basics

LEMMA CleanStep ==
    ASSUME TypeOK, PlaceInv, NewInv, OverlapInv, SlotInv, CleanInv, ThreadStep
    PROVE  CleanInv' /\ (Clean' => ~wild')
  <1> USE TypeParts
  <1>1. SUFFICES ASSUME Clean' PROVE Sound' /\ Unsent' /\ ~wild'
    BY DEF CleanInv
  <1>2. Clean /\ Sound /\ Unsent
    BY <1>1, GrowsStep, CleanBefore DEF CleanInv
  <1> SUFFICES Sound' /\ ~wild'
    BY <1>2, UnsentStep
  <1>3. ASSUME NEW t \in Threads, Build(t) \/ Post(t) \/ Free(t) \/ Produce(t) \/ Reset(t)
        PROVE  Sound' /\ ~wild'
    <2>1. Post(t) => ~wild'
      BY PostEffect
    <2>2. QED
      BY <1>2, <1>3, <2>1, CleanBuild, CleanPost, CleanFree, CleanProduce, CleanReset
  <1>4. CASE PollMessage \/ Check \/ Take \/ CommitMessage \/ Wake \/ Again
    BY <1>2, <1>4, CleanQuiet
  <1>5. CASE Bump \/ Fill
    <2>1. at["kafka"] \in Buffers /\ index["kafka"] \in Slots
      BY <1>5, Basics, BumpEffect, FillEffect DEF Types
    <2>2. QED
      BY <1>2, <1>5, <2>1, CleanAppend
  <1>6. QED
    BY <1>3, <1>4, <1>5 DEF ThreadStep

-----------------------------------------------------------------------------
(* The process, and the theorems.                                          *)

LEMMA ThreadInv == ASSUME IInv, ThreadStep PROVE IInv'
  <1>1. Types' /\ PlaceInv'
    BY TypesStep, PlaceStep, TypeParts DEF IInv
  <1>2. TypeOK' /\ OverlapInv'
    BY <1>1, OverlapStep, TypeParts DEF IInv, TypeOK, Types
  <1>3. NewInv' /\ SlotInv' /\ DrainInv'
    BY NewStep, SlotStep, DrainStep, TypeParts DEF IInv
  <1>4. CleanInv' /\ (wild' => ~Clean')
    BY CleanStep DEF IInv
  <1>5. QED
    BY <1>1, <1>2, <1>3, <1>4 DEF IInv

\* A process that begins holds nothing.
LEMMA EmptyInv ==
    ASSUME slot' = NoSlots, count' = NoCount, freed' = NoEvents, accepted' = NoEvents,
           sent' = NoEvents, load' = [t \in Threads |-> {}],
           phase' = Start, index' = Zero, wild' = FALSE
    PROVE  PlaceInv' /\ NewInv' /\ OverlapInv' /\ SlotInv' /\ DrainInv' /\ CleanInv' /\ ~wild'
  <1> USE Basics, ConstantsOK
  <1>1. \A b \in Buffers : /\ accepted'[b] = {} /\ freed'[b] = {} /\ count'[b] = 0
                           /\ \A i \in Slots : slot'[b][i] = Null /\ ~(i < 0)
    BY DEF NoEvents, NoCount, NoSlots, Slots
  <1>2. phase'["kafka"] = "poll" /\ phase'["flush"] = "sleep" /\ \A t \in Threads : index'[t] = 0
    BY DEF Start, Zero
  <1>3. PlaceInv'
    BY <1>2 DEF PlaceInv, DrainPhases, AppendPhases
  <1>4. NewInv' /\ OverlapInv'
    BY <1>1, <1>2 DEF NewInv, OverlapInv, Overlap
  <1>5. SlotInv'
    BY <1>1, <1>2 DEF SlotInv, Kept, Behind, Hand, Done, Writing
  <1>6. DrainInv'
    BY <1>2 DEF DrainInv, Drained
  <1>7. Sound'
    BY <1>1, <1>2 DEF Sound, Whole, Writing, Real
  <1>8. sent'["events"] = {} /\ \A t \in Threads : load'[t] = {}
    BY DEF NoEvents
  <1>9. Unsent'
    BY <1>8 DEF Unsent
  <1>10. QED
    BY <1>3, <1>4, <1>5, <1>6, <1>7, <1>9 DEF CleanInv

LEMMA EmptyTypes ==
    /\ NoSlots \in [Buffers -> [Slots -> 0..MaxOffset]] /\ NoCount \in [Buffers -> 0..Size]
    /\ NoEvents \in [Buffers -> SUBSET Offsets] /\ Zero \in [Threads -> 0..Size]
    /\ Start \in [Threads -> Phases] /\ [t \in Threads |-> "events"] \in [Threads -> Buffers]
    /\ [t \in Threads |-> {}] \in [Threads -> SUBSET Offsets]
  <1>1. \A t \in Threads : Start[t] \in Phases
    BY DEF Start, Phases
  <1>2. Start \in [Threads -> Phases]
    BY <1>1 DEF Start
  <1>3. \A b \in Buffers : NoSlots[b] \in [Slots -> 0..MaxOffset]
    BY ConstantsOK DEF NoSlots, Null
  <1>4. NoSlots \in [Buffers -> [Slots -> 0..MaxOffset]]
    BY <1>3 DEF NoSlots
  <1>5. NoEvents \in [Buffers -> SUBSET Offsets] /\ [t \in Threads |-> {}] \in [Threads -> SUBSET Offsets]
    BY DEF NoEvents
  <1>6. NoCount \in [Buffers -> 0..Size] /\ Zero \in [Threads -> 0..Size]
    BY ConstantsOK DEF NoCount, Zero
  <1>7. [t \in Threads |-> "events"] \in [Threads -> Buffers]
    BY Basics
  <1>8. QED
    BY <1>2, <1>4, <1>5, <1>6, <1>7

LEMMA InitStep == Init => IInv
  <1> SUFFICES ASSUME Init PROVE IInv
    OBVIOUS
  <1> USE Basics, ConstantsOK
  <1>1. 0 \in 0..MaxOffset /\ 0 \in 0..MaxCrashes
    OBVIOUS
  <1>2. TypeOK
    BY <1>1, EmptyTypes, TypeParts DEF Init, Types
  <1>3. \A b \in Buffers : /\ accepted[b] = {} /\ freed[b] = {} /\ count[b] = 0
                           /\ \A i \in Slots : slot[b][i] = Null /\ ~(i < 0)
    BY DEF Init, NoEvents, NoCount, NoSlots, Slots
  <1>4. phase["kafka"] = "poll" /\ phase["flush"] = "sleep" /\ \A t \in Threads : index[t] = 0
    BY DEF Init, Start, Zero
  <1>5. PlaceInv
    BY <1>4 DEF PlaceInv, Init, DrainPhases, AppendPhases
  <1>6. NewInv /\ OverlapInv
    BY <1>3, <1>4 DEF NewInv, OverlapInv, Overlap
  <1>7. SlotInv
    BY <1>3, <1>4 DEF SlotInv, Kept, Behind, Hand, Done, Writing
  <1>8. DrainInv
    BY <1>4 DEF DrainInv, Drained
  <1>9. CleanInv
    <2>1. Sound
      BY <1>3, <1>4 DEF Sound, Whole, Writing, Real
    <2>2. sent["events"] = {} /\ \A t \in Threads : load[t] = {}
      BY DEF Init, NoEvents
    <2>3. QED
      BY <2>1, <2>2 DEF CleanInv, Unsent
  <1>10. wild => ~Clean
    BY DEF Init
  <1>11. QED
    BY <1>2, <1>5, <1>6, <1>7, <1>8, <1>9, <1>10 DEF IInv

LEMMA CrashStep == ASSUME IInv, Crash PROVE IInv'
  <1>1. /\ slot' = NoSlots /\ count' = NoCount /\ freed' = NoEvents /\ wild' = FALSE
        /\ phase' = Start /\ at' = [t \in Threads |-> "events"]
        /\ n' = Zero /\ index' = Zero /\ load' = [t \in Threads |-> {}]
        /\ accepted' = NoEvents /\ sent' = NoEvents /\ overlapped' = NoEvents
        /\ up' = FALSE /\ UNCHANGED <<committed, position, run>>
    BY DEF Crash, kafkaVars
  <1>2. crashes' \in 0..MaxCrashes
    BY ConstantsOK DEF IInv, TypeOK, Crash
  <1>3. Types'
    BY <1>1, <1>2, EmptyTypes, TypeParts DEF IInv, Types
  <1>4. TypeOK'
    BY <1>1, <1>3, EmptyTypes DEF Types, TypeOK
  <1>5. QED
    BY <1>1, <1>4, EmptyInv DEF IInv

LEMMA RestartStep == ASSUME IInv, Restart PROVE IInv'
  <1> USE Basics
  <1>1. /\ ~up /\ up' = TRUE /\ run' = TRUE /\ position' = committed
        /\ UNCHANGED <<committed, slot, count, freed, wild, phase, at, n, index, load, crashes,
                       accepted, sent, overlapped>>
    BY DEF Restart, bufferVars, threadVars, historyVars
  <1>2. phase["kafka"] = "poll" /\ \A b \in Buffers : accepted[b] = {}
    BY <1>1 DEF IInv, PlaceInv, NoEvents
  <1>3. TypeOK'
    BY <1>1, TypeParts DEF IInv, TypeOK, Types
  <1>4. PlaceInv'
    BY <1>1, <1>2 DEF IInv, PlaceInv
  <1>5. NewInv' /\ OverlapInv'
    BY <1>1, <1>2 DEF NewInv, OverlapInv, Overlap
  <1>6. SlotInv'
    BY <1>1, <1>2 DEF IInv, SlotInv, Kept, Behind, Hand, Held, Done, Writing
  <1>7. DrainInv'
    BY <1>1 DEF IInv, DrainInv, Drained, Done
  <1>8. CleanInv' /\ (wild' => ~Clean')
    BY <1>1 DEF IInv, CleanInv, Clean, Sound, Whole, Writing, Real, Passes, Unsent, Posted
  <1>9. QED
    BY <1>3, <1>4, <1>5, <1>6, <1>7, <1>8 DEF IInv

\* SIGTERM changes nothing the threads look at but run.
LEMMA SigtermStep == ASSUME IInv, Sigterm PROVE IInv'
  <1> USE Basics
  <1>1. /\ run' = FALSE /\ Watch
        /\ UNCHANGED <<committed, position, up, slot, count, freed, wild, phase, at, n, index, load,
                       crashes, accepted, sent>>
    BY DEF Sigterm, kafkaVars, bufferVars, threadVars, historyVars
  <1>2. Types'
    BY <1>1, TypeParts DEF IInv, Types
  <1>3. /\ overlapped' \in [Buffers -> SUBSET Offsets] /\ OverlapInv'
        /\ \A b \in Buffers : overlapped[b] \subseteq overlapped'[b]
    BY <1>1, WatchFacts DEF IInv, PlaceInv
  <1>4. TypeOK'
    BY <1>2, <1>3 DEF Types, TypeOK
  <1>5. PlaceInv' /\ NewInv'
    BY <1>1 DEF IInv, PlaceInv, NewInv
  <1>6. Grows
    BY <1>1, <1>3 DEF Grows
  <1>7. SlotInv'
    BY <1>1, <1>2, <1>6, SlotKept, TypeParts DEF IInv
  <1>8. DrainInv'
    BY <1>1, <1>6, DrainKept, TypeParts DEF IInv, DrainInv
  <1>9. CleanInv'
    <2>1. Clean' => Sound /\ Unsent
      BY <1>6, CleanBefore DEF IInv, CleanInv
    <2>2. (Sound => Sound') /\ (Unsent => Unsent')
      BY <1>1 DEF Sound, Whole, Writing, Real, Passes, Unsent, Posted
    <2>3. QED
      BY <2>1, <2>2 DEF CleanInv
  <1>10. wild' => ~Clean'
    BY <1>1, <1>6, CleanBefore DEF IInv
  <1>11. QED
    BY <1>3, <1>4, <1>5, <1>7, <1>8, <1>9, <1>10 DEF IInv

LEMMA StutterStep == ASSUME IInv, UNCHANGED vars PROVE IInv'
  <1> USE DEF vars, kafkaVars, bufferVars, threadVars, historyVars
  <1>1. TypeOK' /\ PlaceInv' /\ NewInv'
    BY DEF IInv, TypeOK, PlaceInv, NewInv
  <1>2. OverlapInv' /\ SlotInv' /\ DrainInv'
    BY DEF IInv, OverlapInv, Overlap, SlotInv, Kept, Behind, Hand, Held, Done, Writing, DrainInv, Drained
  <1>3. CleanInv' /\ (wild' => ~Clean')
    BY DEF IInv, CleanInv, Clean, Sound, Whole, Writing, Real, Passes, Unsent, Posted
  <1>4. QED
    BY <1>1, <1>2, <1>3 DEF IInv

LEMMA NextStep == IInv /\ [Next]_vars => IInv'
  <1> SUFFICES ASSUME IInv, [Next]_vars PROVE IInv'
    OBVIOUS
  <1>1. CASE UNCHANGED vars
    BY <1>1, StutterStep
  <1>2. CASE PollNothing
    BY <1>2, StutterStep DEF PollNothing
  <1>3. CASE ThreadStep
    BY <1>3, ThreadInv
  <1>4. CASE Sigterm \/ Crash \/ Restart
    BY <1>4, SigtermStep, CrashStep, RestartStep
  <1>5. QED
    BY <1>1, <1>2, <1>3, <1>4 DEF Next, ThreadStep

LEMMA Inductive == Spec => []IInv
  BY InitStep, NextStep, PTL DEF Spec

\* Every variable keeps its type, and no count or index leaves its array, whatever
\* the threads overwrite of each other's (process.c, bulk.c).
THEOREM TypeCorrect == Spec => []TypeOK
  BY Inductive, PTL DEF IInv

\* An event that was appended is in its buffer or was sent, unless its append fell
\* into a drain by the flush thread (main.c:41-54).
THEOREM LostOnlyInDrains == Spec => []NothingLost
  <1>1. IInv => NothingLost
    BY DEF IInv, SlotInv, Kept, NothingLost
  <1>2. QED
    BY <1>1, Inductive, PTL

\* No event is posted twice or used after it was freed, unless an append fell into
\* a drain or both threads drained one buffer (main.c:41-54, process.c:167-177).
THEOREM TakenOnce == Spec => []DrainedOnce
  <1>1. IInv => DrainedOnce
    <2> SUFFICES ASSUME IInv, Clean PROVE ~wild /\ \A t \in Threads : ~Repeats(t)
      BY DEF DrainedOnce, Clean
    <2>1. QED
      BY NoneRepeats, TypeParts DEF IInv, CleanInv
  <1>2. QED
    BY <1>1, Inductive, PTL
=============================================================================
