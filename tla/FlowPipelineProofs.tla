-------------------------- MODULE FlowPipelineProofs --------------------------
(***************************************************************************)
(* What FlowPipeline promises, for any number of workers and nodes, any    *)
(* size of a batch and any number of messages and crashes, and that it     *)
(* implements FlowDelivery.                                                *)
(***************************************************************************)
EXTENDS FlowPipeline, FiniteSetTheorems, TLAPS

Distinct(s) == \A i, j \in 1..Len(s) : s[i] = s[j] => i = j

\* Where the main thread is in its shutdown says which queue is closed and who
\* has ended.
MainInv ==
    /\ closed["raw"] => main \in {"joinWorkers", "closeBulk", "joinSender", "exited", "down"}
    /\ main \in {"joinWorkers", "closeBulk", "joinSender", "exited"} => closed["raw"]
    /\ closed["bulk"] => main \in {"joinSender", "exited", "down"}
    /\ main \in {"joinSender", "exited"} => closed["bulk"]
    /\ main \in {"closeBulk", "joinSender", "exited"} \/ closed["bulk"]
          => \A w \in Workers : state[w] = "done"
    /\ main = "exited" => state[Sender] = "done"

\* What a thread holds in each of its states, and that it ends only when its
\* queue is closed and empty.
ThreadInv ==
    /\ \A w \in Workers :
          /\ state[w] \in {"popping", "waiting", "pushing", "done"}
          /\ held[w] # 0 <=> state[w] = "pushing"
          /\ state[w] = "done" => closed["raw"] /\ queue["raw"] = <<>>
    /\ state[Sender] # "pushing"
    /\ state[Sender] \in {"popping", "waiting"} => Len(batch) < BulkSize
    /\ state[Sender] \in {"sendingLast", "done"} => closed["bulk"] /\ queue["bulk"] = <<>>
    /\ state[Sender] = "done" => batch = <<>>

\* OnePlace for sets: what is in raw_queue, in bulk_queue, in the batch, in a
\* worker's hand and sent are apart, and together are what was handed over.
Places(given, raw, hand, bulk, collected, gone) ==
    /\ given = raw \cup hand \cup bulk \cup collected \cup gone
    /\ raw \cap hand = {} /\ raw \cap bulk = {} /\ raw \cap collected = {} /\ raw \cap gone = {}
    /\ hand \cap bulk = {} /\ hand \cap collected = {} /\ hand \cap gone = {}
    /\ bulk \cap collected = {} /\ bulk \cap gone = {} /\ collected \cap gone = {}

PlaceInv ==
    /\ Places(handed, Contents(queue["raw"]), InHand, Contents(queue["bulk"]),
              Contents(batch), sent)
    /\ Distinct(queue["raw"]) /\ Distinct(queue["bulk"]) /\ Distinct(batch)
    /\ \A v, w \in Workers : held[v] = held[w] /\ held[v] # 0 => v = w

\* What the main thread has read and not yet queued is new.
ReadInv ==
    /\ committed <= position
    /\ \A m \in handed : m <= position
    /\ main = "push" => /\ committed < position
                        /\ position \notin handed
    /\ main = "commit" => position \in handed

\* What the sender uploads is a full batch, or the last one, which is not.
BatchInv ==
    /\ state[Sender] = "sending" => Len(batch) = BulkSize
    /\ state[Sender] = "sendingLast" => batch # <<>> /\ Len(batch) < BulkSize

\* A message is indexed once it is sent; one that an earlier process sent is
\* never read again, or counts as repeated.
CopyInv ==
    \A m \in Offsets \ repeated :
        /\ copies[m] <= 1
        /\ copies[m] = 1 => m \in sent \/ (m \notin handed /\ m <= committed)

\* NoSleepOverWork, queue by queue: raw_queue is the workers', bulk_queue the
\* sender's.
WakeInv ==
    /\ queue["raw"] # <<>> => \E w \in Workers : state[w] \notin {"waiting", "done"}
    /\ queue["bulk"] # <<>> => state[Sender] \notin {"waiting", "done"}
    /\ closed["raw"] => \A w \in Workers : state[w] # "waiting"
    /\ closed["bulk"] => state[Sender] # "waiting"

IInv ==
    TypeOK /\ MainInv /\ ThreadInv /\ BatchInv /\ PlaceInv /\ ReadInv /\ WakeInv /\ CopyInv

-----------------------------------------------------------------------------
(* Sequences and queues.                                                   *)

LEMMA EmptyFacts == Contents(<<>>) = {} /\ Distinct(<<>>)
  BY DEF Contents, Distinct

LEMMA AppendFacts ==
    ASSUME NEW S, NEW s \in Seq(S), NEW x \in S
    PROVE  /\ Append(s, x) \in Seq(S) /\ Len(Append(s, x)) = Len(s) + 1
           /\ Contents(Append(s, x)) = Contents(s) \cup {x}
           /\ Distinct(s) /\ x \notin Contents(s) => Distinct(Append(s, x))
  <1>1. /\ Append(s, x) \in Seq(S) /\ Len(s) \in Nat /\ Len(Append(s, x)) = Len(s) + 1
        /\ \A i \in 1..Len(s) : Append(s, x)[i] = s[i]
        /\ Append(s, x)[Len(s) + 1] = x
    OBVIOUS
  <1>2. 1..Len(s) + 1 = (1..Len(s)) \cup {Len(s) + 1}
    BY <1>1
  <1>3. Contents(Append(s, x)) = Contents(s) \cup {x}
    <2>1. ASSUME NEW y PROVE y \in Contents(Append(s, x)) <=> y \in Contents(s) \cup {x}
      BY <1>1, <1>2 DEF Contents
    <2>2. QED
      BY <2>1
  <1>4. Distinct(s) /\ x \notin Contents(s) => Distinct(Append(s, x))
    BY <1>1, <1>2 DEF Distinct, Contents
  <1>5. QED
    BY <1>1, <1>3, <1>4

LEMMA TailFacts ==
    ASSUME NEW S, NEW s \in Seq(S), s # <<>>
    PROVE  /\ Tail(s) \in Seq(S) /\ Head(s) \in S /\ Head(s) \in Contents(s)
           /\ Distinct(s) => /\ Contents(Tail(s)) = Contents(s) \ {Head(s)}
                             /\ Distinct(Tail(s))
  <1>1. /\ Tail(s) \in Seq(S) /\ Len(s) \in Nat \ {0} /\ Len(Tail(s)) = Len(s) - 1
        /\ \A i \in 1..Len(s) - 1 : Tail(s)[i] = s[i + 1]
        /\ Head(s) = s[1]
    OBVIOUS
  <1>2. Head(s) \in S /\ Head(s) \in Contents(s)
    BY <1>1 DEF Contents
  <1>3. ASSUME Distinct(s) PROVE Contents(Tail(s)) = Contents(s) \ {Head(s)}
    <2>1. ASSUME NEW y \in Contents(Tail(s)) PROVE y \in Contents(s) \ {Head(s)}
      <3>1. PICK i \in 1..Len(s) - 1 : y = s[i + 1]
        BY <1>1 DEF Contents
      <3>2. i + 1 \in 1..Len(s) /\ 1 \in 1..Len(s) /\ i + 1 # 1
        BY <1>1
      <3>3. QED
        BY <1>1, <1>3, <3>1, <3>2 DEF Contents, Distinct
    <2>2. ASSUME NEW y \in Contents(s) \ {Head(s)} PROVE y \in Contents(Tail(s))
      <3>1. PICK j \in 1..Len(s) : y = s[j]
        BY DEF Contents
      <3>2. j # 1
        BY <1>1, <3>1
      <3>3. j - 1 \in 1..Len(s) - 1 /\ Tail(s)[j - 1] = s[j]
        BY <1>1, <3>2
      <3>4. QED
        BY <1>1, <3>1, <3>3 DEF Contents
    <2>3. QED
      BY <2>1, <2>2
  <1>4. Distinct(s) => Distinct(Tail(s))
    BY <1>1 DEF Distinct
  <1>5. QED
    BY <1>1, <1>2, <1>3, <1>4

LEMMA ConcatFacts ==
    ASSUME NEW S, NEW s \in Seq(S), NEW t \in Seq(S)
    PROVE  /\ s \o t \in Seq(S)
           /\ Contents(s \o t) = Contents(s) \cup Contents(t)
           /\ Distinct(s) /\ Distinct(t) /\ Contents(s) \cap Contents(t) = {}
                => Distinct(s \o t)
  <1> DEFINE u == s \o t
  <1>1. /\ u \in Seq(S) /\ Len(s) \in Nat /\ Len(t) \in Nat /\ Len(u) = Len(s) + Len(t)
        /\ \A i \in 1..Len(u) : u[i] = IF i <= Len(s) THEN s[i] ELSE t[i - Len(s)]
    OBVIOUS
  <1> HIDE DEF u
  <1>2. Contents(u) = Contents(s) \cup Contents(t)
    <2>1. ASSUME NEW y \in Contents(u) PROVE y \in Contents(s) \cup Contents(t)
      <3>1. PICK i \in 1..Len(u) : y = u[i]
        BY DEF Contents
      <3>2. CASE i <= Len(s)
        BY <1>1, <3>1, <3>2 DEF Contents
      <3>3. CASE ~(i <= Len(s))
        <4>1. i - Len(s) \in 1..Len(t)
          BY <1>1, <3>3
        <4>2. QED
          BY <1>1, <3>1, <3>3, <4>1 DEF Contents
      <3>4. QED
        BY <3>2, <3>3
    <2>2. ASSUME NEW y \in Contents(s) PROVE y \in Contents(u)
      <3>1. PICK i \in 1..Len(s) : y = s[i]
        BY DEF Contents
      <3>2. i \in 1..Len(u) /\ u[i] = y
        BY <1>1, <3>1
      <3>3. QED
        BY <3>2 DEF Contents
    <2>3. ASSUME NEW y \in Contents(t) PROVE y \in Contents(u)
      <3>1. PICK i \in 1..Len(t) : y = t[i]
        BY DEF Contents
      <3>2. i + Len(s) \in 1..Len(u) /\ ~(i + Len(s) <= Len(s)) /\ i + Len(s) - Len(s) = i
        BY <1>1
      <3>3. u[i + Len(s)] = y
        BY <1>1, <3>1, <3>2
      <3>4. QED
        BY <3>2, <3>3 DEF Contents
    <2>4. QED
      BY <2>1, <2>2, <2>3
  <1>3. ASSUME Distinct(s), Distinct(t), Contents(s) \cap Contents(t) = {}
        PROVE  Distinct(u)
    <2> SUFFICES ASSUME NEW i \in 1..Len(u), NEW j \in 1..Len(u), u[i] = u[j]
                 PROVE  i = j
      BY DEF Distinct
    <2>1. CASE i <= Len(s) /\ j <= Len(s)
      BY <1>1, <1>3, <2>1 DEF Distinct
    <2>2. CASE ~(i <= Len(s)) /\ ~(j <= Len(s))
      <3>1. i - Len(s) \in 1..Len(t) /\ j - Len(s) \in 1..Len(t)
        BY <1>1, <2>2
      <3>2. i - Len(s) = j - Len(s)
        BY <1>1, <1>3, <2>2, <3>1 DEF Distinct
      <3>3. QED
        BY <1>1, <3>2
    <2>3. CASE i <= Len(s) /\ ~(j <= Len(s))
      <3>1. i \in 1..Len(s) /\ j - Len(s) \in 1..Len(t)
        BY <1>1, <2>3
      <3>2. s[i] = t[j - Len(s)]
        BY <1>1, <2>3
      <3>3. QED
        BY <1>3, <3>1, <3>2 DEF Contents
    <2>4. CASE ~(i <= Len(s)) /\ j <= Len(s)
      <3>1. j \in 1..Len(s) /\ i - Len(s) \in 1..Len(t)
        BY <1>1, <2>4
      <3>2. s[j] = t[i - Len(s)]
        BY <1>1, <2>4
      <3>3. QED
        BY <1>3, <3>1, <3>2 DEF Contents
    <2>5. QED
      BY <2>1, <2>2, <2>3, <2>4
  <1>4. QED
    BY <1>1, <1>2, <1>3 DEF u

States == {"popping", "waiting", "pushing", "sending", "sendingLast", "done"}

\* Who is woken by a signal: a waiter, if there is one, and nobody else.
LEMMA SignalFacts ==
    ASSUME NEW q, NEW st \in [Threads -> States], NEW new \in Signal(q, st)
    PROVE  /\ new \in [Threads -> States]
           /\ \A t \in Threads : new[t] = st[t] \/ (t \in Waiters(q) /\ new[t] = "popping")
           /\ Waiters(q) # {} => \E t \in Waiters(q) : new[t] = "popping"
  <1>1. CASE Waiters(q) = {}
    BY <1>1 DEF Signal
  <1>2. CASE Waiters(q) # {}
    <2>1. PICK t \in Waiters(q) : new = [st EXCEPT ![t] = "popping"]
      BY <1>2 DEF Signal
    <2>2. t \in Threads
      BY DEF Waiters
    <2>3. new[t] = "popping" /\ \A u \in Threads : u # t => new[u] = st[u]
      BY <2>1, <2>2
    <2>4. new \in [Threads -> States]
      BY <2>1, <2>2 DEF States
    <2>5. QED
      BY <2>3, <2>4
  <1>3. QED
    BY <1>1, <1>2

LEMMA BroadcastFacts ==
    ASSUME NEW q, state \in [Threads -> States], NEW new \in Broadcast(q)
    PROVE  /\ new \in [Threads -> States]
           /\ \A t \in Threads :
                 new[t] = IF t \in Waiters(q) THEN "popping" ELSE state[t]
  BY DEF Broadcast, States

LEMMA ThreadFacts ==
    /\ Sender \in Threads /\ Sender \notin Workers
    /\ \A w \in Workers : w \in Threads /\ Source(w) = "raw" /\ w # Sender
    /\ Source(Sender) = "bulk"
    /\ \A t \in Threads : t \in Workers \/ t = Sender
    /\ "raw" \in Queues /\ "bulk" \in Queues /\ "raw" # "bulk"
    /\ \A q \in Queues : q = "raw" \/ q = "bulk"
  BY ConstantsOK DEF Threads, Source, Queues

-----------------------------------------------------------------------------
(* What a push leaves, and what a step of each kind leaves alone.          *)

LEMMA QueueTypes ==
    TypeOK => /\ queue["raw"] \in Seq(Offsets) /\ queue["bulk"] \in Seq(Offsets)
              /\ queue \in [Queues -> Seq(Offsets)] /\ closed \in [Queues -> BOOLEAN]
              /\ state \in [Threads -> States] /\ batch \in Seq(Offsets)
  BY ThreadFacts DEF TypeOK, States

LEMMA PushFacts ==
    ASSUME queue \in [Queues -> Seq(Offsets)], NEW q \in Queues, NEW m \in Offsets,
           NEW st \in [Threads -> States], QueuePush(q, m, st)
    PROVE  /\ queue' \in [Queues -> Seq(Offsets)] /\ state' \in [Threads -> States]
           /\ \A k \in Queues : k # q => queue'[k] = queue[k]
           /\ \A t \in Threads : state'[t] = st[t] \/ (t \in Waiters(q) /\ state'[t] = "popping")
           /\ closed[q] => queue' = queue
           /\ ~closed[q] => /\ queue'[q] = Append(queue[q], m)
                            /\ Waiters(q) # {} => \E t \in Waiters(q) : state'[t] = "popping"
  <1>1. CASE closed[q] /\ state' = st /\ UNCHANGED queue
    BY <1>1
  <1>2. CASE /\ ~closed[q]
             /\ queue' = [queue EXCEPT ![q] = Append(@, m)]
             /\ state' \in Signal(q, st)
    <2>1. Append(queue[q], m) \in Seq(Offsets)
      BY AppendFacts
    <2>2. /\ queue' \in [Queues -> Seq(Offsets)] /\ queue'[q] = Append(queue[q], m)
          /\ \A k \in Queues : k # q => queue'[k] = queue[k]
      BY <1>2, <2>1
    <2>3. QED
      BY <1>2, <2>2, SignalFacts
  <1>3. QED
    BY <1>1, <1>2 DEF QueuePush

-----------------------------------------------------------------------------
(* Type correctness.                                                       *)

LEMMA TypeInit == Init => TypeOK
  <1> SUFFICES ASSUME Init PROVE TypeOK
    OBVIOUS
  <1> USE ConstantsOK
  <1>1. /\ committed \in 0..MaxOffset /\ position \in 0..MaxOffset
        /\ copies \in [Offsets -> 0..2] /\ crashes \in Nat /\ node \in 1..Nodes
        /\ held \in [Workers -> 0..MaxOffset]
    BY DEF Init
  <1>2. /\ queue \in [Queues -> Seq(Offsets)] /\ closed \in [Queues -> BOOLEAN]
        /\ batch \in Seq(Offsets) /\ Len(batch) <= BulkSize
    BY DEF Init
  <1>3. QED
    BY <1>1, <1>2 DEF Init, TypeOK

LEMMA TypeStep == TypeOK /\ ThreadInv /\ ReadInv /\ [Next]_vars => TypeOK'
  <1> SUFFICES ASSUME TypeOK, ThreadInv, ReadInv, [Next]_vars PROVE TypeOK'
    OBVIOUS
  <1> USE ConstantsOK
  <1>1. /\ queue \in [Queues -> Seq(Offsets)] /\ closed \in [Queues -> BOOLEAN]
        /\ state \in [Threads -> States] /\ batch \in Seq(Offsets)
        /\ committed \in 0..MaxOffset /\ position \in 0..MaxOffset
        /\ held \in [Workers -> 0..MaxOffset]
    BY DEF TypeOK, States
  <1>2. CASE Loop
    BY <1>2 DEF Loop, TypeOK, mainFrame, queueVars
  <1>3. CASE PollNothing
    BY <1>3 DEF PollNothing, TypeOK, mainFrame, queueVars
  <1>4. CASE PollMessage
    BY <1>4 DEF PollMessage, TypeOK, mainFrame, queueVars
  <1>5. CASE PushRaw
    <2>1. position \in Offsets
      BY <1>1, <1>5 DEF PushRaw, ReadInv, Offsets
    <2>2. queue' \in [Queues -> Seq(Offsets)] /\ state' \in [Threads -> States]
      BY <1>1, <1>5, <2>1, PushFacts, ThreadFacts DEF PushRaw
    <2>3. QED
      BY <1>5, <2>1, <2>2 DEF PushRaw, TypeOK, mainFrame, States
  <1>6. CASE CommitMessage
    BY <1>6 DEF CommitMessage, TypeOK, mainFrame, queueVars
  <1>7. CASE CloseRaw
    <2>1. state' \in [Threads -> States]
      BY <1>1, <1>7, BroadcastFacts DEF CloseRaw, QueueClose
    <2>2. closed' \in [Queues -> BOOLEAN]
      BY <1>1, <1>7 DEF CloseRaw, QueueClose
    <2>3. QED
      BY <1>7, <2>1, <2>2 DEF CloseRaw, TypeOK, mainFrame, States
  <1>8. CASE JoinWorkers
    BY <1>8 DEF JoinWorkers, TypeOK, mainFrame, queueVars
  <1>9. CASE CloseBulk
    <2>1. state' \in [Threads -> States]
      BY <1>1, <1>9, BroadcastFacts DEF CloseBulk, QueueClose
    <2>2. closed' \in [Queues -> BOOLEAN]
      BY <1>1, <1>9 DEF CloseBulk, QueueClose
    <2>3. QED
      BY <1>9, <2>1, <2>2 DEF CloseBulk, TypeOK, mainFrame, States
  <1>10. CASE JoinSender
    BY <1>10 DEF JoinSender, TypeOK, mainFrame, queueVars
  <1>11. CASE Sigterm
    BY <1>11 DEF Sigterm, TypeOK, mainFrame, queueVars
  <1>12. ASSUME NEW w \in Workers, WorkerPop(w) PROVE TypeOK'
    <2>1. CASE PopNothing(w, "done") /\ UNCHANGED <<queue, held>>
      BY <1>12, <2>1 DEF WorkerPop, PopNothing, TypeOK, threadFrame, mainVars
    <2>2. CASE /\ queue["raw"] # <<>>
               /\ held' = [held EXCEPT ![w] = Head(queue["raw"])]
               /\ queue' = [queue EXCEPT !["raw"] = Tail(@)]
               /\ state' = [state EXCEPT ![w] = "pushing"]
      <3>1. Head(queue["raw"]) \in Offsets /\ Tail(queue["raw"]) \in Seq(Offsets)
        BY <1>1, <2>2, TailFacts, ThreadFacts
      <3>2. queue' \in [Queues -> Seq(Offsets)]
        BY <1>1, <2>2, <3>1
      <3>3. held' \in [Workers -> 0..MaxOffset]
        BY <1>1, <2>2, <3>1 DEF Offsets
      <3>4. QED
        BY <1>12, <2>2, <3>2, <3>3 DEF WorkerPop, TypeOK, threadFrame, mainVars
    <2>3. QED
      BY <1>12, <2>1, <2>2 DEF WorkerPop
  <1>13. ASSUME NEW w \in Workers, WorkerPush(w) PROVE TypeOK'
    <2>1. held[w] \in Offsets
      BY <1>1, <1>13 DEF WorkerPush, ThreadInv, Offsets
    <2>2. [state EXCEPT ![w] = "popping"] \in [Threads -> States]
      BY <1>1 DEF States
    <2>3. queue' \in [Queues -> Seq(Offsets)] /\ state' \in [Threads -> States]
      BY <1>1, <1>13, <2>1, <2>2, PushFacts, ThreadFacts DEF WorkerPush
    <2>4. held' \in [Workers -> 0..MaxOffset]
      BY <1>1, <1>13 DEF WorkerPush
    <2>5. QED
      BY <1>13, <2>3, <2>4 DEF WorkerPush, TypeOK, threadFrame, mainVars, States
  <1>14. CASE SenderPop
    <2>1. CASE /\ PopNothing(Sender, IF batch = <<>> THEN "done" ELSE "sendingLast")
               /\ UNCHANGED <<queue, batch>>
      BY <1>14, <2>1 DEF SenderPop, PopNothing, TypeOK, threadFrame, mainVars
    <2>2. CASE /\ queue["bulk"] # <<>>
               /\ batch' = Append(batch, Head(queue["bulk"]))
               /\ queue' = [queue EXCEPT !["bulk"] = Tail(@)]
               /\ state' = [state EXCEPT ![Sender] =
                              IF Full(Len(batch) + 1) THEN "sending" ELSE "popping"]
      <3>1. Head(queue["bulk"]) \in Offsets /\ Tail(queue["bulk"]) \in Seq(Offsets)
        BY <1>1, <2>2, TailFacts, ThreadFacts
      <3>2. queue' \in [Queues -> Seq(Offsets)]
        BY <1>1, <2>2, <3>1
      <3>3. batch' \in Seq(Offsets) /\ Len(batch') = Len(batch) + 1
        BY <1>1, <2>2, <3>1, AppendFacts
      <3>4. Len(batch') <= BulkSize
        BY <1>1, <1>14, <3>3 DEF SenderPop, ThreadInv
      <3>5. state' \in [Threads -> States]
        BY <1>1, <2>2 DEF States
      <3>6. QED
        BY <1>14, <3>2, <3>3, <3>4, <3>5 DEF SenderPop, TypeOK, threadFrame, mainVars, States
    <2>3. QED
      BY <1>14, <2>1, <2>2 DEF SenderPop
  <1>15. CASE Send
    <2>1. PICK ok, applied \in BOOLEAN :
            /\ Post(ok, applied)
            /\ \/ LastPost(ok) /\ EndBatch
               \/ ~LastPost(ok) /\ node' = node + 1 /\ UNCHANGED <<state, batch, sent>>
      BY <1>15 DEF Send
    <2>2. Contents(batch) \subseteq Offsets
      BY <1>1 DEF Contents
    <2>3. copies' \in [Offsets -> 0..2] /\ repeated' \subseteq Offsets
      <3>1. \A m \in Offsets : copies[m] \in 0..2 /\ OneMore(copies[m]) \in 0..2
        BY DEF TypeOK, OneMore
      <3>2. copies' \in [Offsets -> 0..2]
        BY <2>1, <3>1 DEF Post
      <3>3. repeated' \subseteq Offsets
        BY <2>1, <2>2 DEF Post, TypeOK
      <3>4. QED
        BY <3>2, <3>3
    <2>4. CASE LastPost(ok) /\ EndBatch
      <3>1. node' \in 1..Nodes /\ sent' \subseteq Offsets
        BY <2>2, <2>4 DEF EndBatch, TypeOK
      <3>2. batch' \in Seq(Offsets) /\ Len(batch') <= BulkSize
        BY <2>4 DEF EndBatch
      <3>3. state' \in [Threads -> States]
        BY <1>1, <2>4 DEF EndBatch, States
      <3>4. QED
        BY <1>15, <2>3, <3>1, <3>2, <3>3 DEF Send, TypeOK, threadFrame, mainVars, States
    <2>5. CASE ~LastPost(ok) /\ node' = node + 1 /\ UNCHANGED <<state, batch, sent>>
      <3>1. node' \in 1..Nodes
        BY <2>5 DEF LastPost, TypeOK
      <3>2. QED
        BY <1>15, <2>3, <2>5, <3>1 DEF Send, TypeOK, threadFrame, mainVars
    <2>6. QED
      BY <2>1, <2>4, <2>5
  <1>16. ASSUME NEW t \in Threads, SpuriousWakeup(t) PROVE TypeOK'
    BY <1>16 DEF SpuriousWakeup, TypeOK, threadFrame, mainVars
  <1>17. CASE Crash
    BY <1>17 DEF Crash, TypeOK, threadVars, queueVars
  <1>18. CASE Restart
    <2>1. /\ queue' \in [Queues -> Seq(Offsets)] /\ closed' \in [Queues -> BOOLEAN]
          /\ batch' \in Seq(Offsets) /\ Len(batch') <= BulkSize
          /\ held' \in [Workers -> 0..MaxOffset] /\ node' \in 1..Nodes
          /\ state' \in [Threads -> States]
      BY <1>18 DEF Restart, States
    <2>2. QED
      BY <1>18, <2>1 DEF Restart, TypeOK, States
  <1>19. CASE UNCHANGED vars
    BY <1>19 DEF vars, TypeOK, mainVars, threadVars, queueVars
  <1>20. QED
    BY <1>2, <1>3, <1>4, <1>5, <1>6, <1>7, <1>8, <1>9, <1>10, <1>11, <1>12, <1>13,
       <1>14, <1>15, <1>16, <1>17, <1>18, <1>19 DEF Next

-----------------------------------------------------------------------------
(* The order of the shutdown.                                              *)

LEMMA MainInit == Init => MainInv
  BY ThreadFacts DEF Init, MainInv

\* Who has ended stays so, whatever the other threads do.
LEMMA MainFrame ==
    ASSUME MainInv, main' = main, closed' = closed,
           \A t \in Threads : state[t] = "done" => state'[t] = "done"
    PROVE  MainInv'
  BY ThreadFacts DEF MainInv

\* Before SIGTERM is noticed the main thread leaves the threads alone.
LEMMA MainLoop ==
    ASSUME MainInv, main \in {"loop", "poll", "push", "commit"},
           main' \in {"loop", "poll", "push", "commit", "closeRaw"}, closed' = closed
    PROVE  MainInv'
  BY ThreadFacts DEF MainInv

LEMMA MainStep == TypeOK /\ MainInv /\ [Next]_vars => MainInv'
  <1> SUFFICES ASSUME TypeOK, MainInv, [Next]_vars PROVE MainInv'
    OBVIOUS
  <1> USE ThreadFacts
  <1>1. /\ queue \in [Queues -> Seq(Offsets)] /\ closed \in [Queues -> BOOLEAN]
        /\ state \in [Threads -> States] /\ batch \in Seq(Offsets)
        /\ position \in 0..MaxOffset
    BY DEF TypeOK, States
  <1>2. CASE Loop
    BY <1>2, MainLoop DEF Loop, queueVars
  <1>3. CASE PollNothing
    BY <1>3, MainLoop DEF PollNothing, queueVars
  <1>4. CASE PollMessage
    BY <1>4, MainLoop DEF PollMessage, queueVars
  <1>5. CASE PushRaw
    BY <1>5, MainLoop DEF PushRaw
  <1>6. CASE CommitMessage
    BY <1>6, MainLoop DEF CommitMessage, queueVars
  <1>7. CASE CloseRaw
    <2>1. closed'["raw"] /\ closed'["bulk"] = closed["bulk"]
      BY <1>1, <1>7 DEF CloseRaw, QueueClose
    <2>2. QED
      BY <1>7, <2>1 DEF CloseRaw, MainInv
  <1>8. CASE JoinWorkers
    <2>1. /\ main = "joinWorkers" /\ main' = "closeBulk" /\ closed' = closed /\ state' = state
          /\ \A w \in Workers : state[w] = "done"
      BY <1>8 DEF JoinWorkers, queueVars
    <2>2. QED
      BY <2>1 DEF MainInv
  <1>9. CASE CloseBulk
    <2>1. main = "closeBulk" /\ main' = "joinSender"
      BY <1>9 DEF CloseBulk
    <2>2. closed'["bulk"] /\ closed'["raw"] = closed["raw"]
      BY <1>1, <1>9 DEF CloseBulk, QueueClose
    <2>3. \A w \in Workers : state'[w] = "done"
      BY <1>1, <1>9, BroadcastFacts DEF CloseBulk, QueueClose, MainInv, Waiters
    <2>4. QED
      BY <2>1, <2>2, <2>3 DEF MainInv
  <1>10. CASE JoinSender
    <2>1. /\ main = "joinSender" /\ main' = "exited" /\ closed' = closed /\ state' = state
          /\ state[Sender] = "done"
      BY <1>10 DEF JoinSender, queueVars
    <2>2. QED
      BY <2>1 DEF MainInv
  <1>11. CASE Sigterm
    BY <1>11, MainFrame DEF Sigterm, queueVars
  <1>12. ASSUME NEW w \in Workers, WorkerPop(w) PROVE MainInv'
    <2>1. /\ main' = main /\ closed' = closed /\ state[w] = "popping"
          /\ \A t \in Threads : t # w => state'[t] = state[t]
      BY <1>1, <1>12 DEF WorkerPop, PopNothing, threadFrame, mainVars
    <2>2. QED
      BY <2>1, MainFrame
  <1>13. ASSUME NEW w \in Workers, WorkerPush(w) PROVE MainInv'
    <2> DEFINE st == [state EXCEPT ![w] = "popping"]
    <2>1. /\ main' = main /\ closed' = closed /\ state[w] = "pushing"
          /\ QueuePush("bulk", held[w], st)
      BY <1>13 DEF WorkerPush, threadFrame, mainVars
    <2>2. \A t \in Threads : t # w => st[t] = state[t]
      BY <1>1
    <2>3. st \in [Threads -> States]
      BY <1>1 DEF States
    <2> HIDE DEF st
    <2>4. \A t \in Threads : state'[t] = st[t] \/ (t \in Waiters("bulk") /\ state'[t] = "popping")
      BY <2>1, <2>3, SignalFacts DEF QueuePush
    <2>5. QED
      BY <2>1, <2>2, <2>4, MainFrame DEF Waiters
  <1>14. CASE SenderPop
    <2>1. /\ main' = main /\ closed' = closed /\ state[Sender] = "popping"
          /\ \A t \in Threads : t # Sender => state'[t] = state[t]
      BY <1>1, <1>14 DEF SenderPop, PopNothing, threadFrame, mainVars
    <2>2. QED
      BY <2>1, MainFrame
  <1>15. CASE Send
    <2>1. /\ main' = main /\ closed' = closed /\ state[Sender] \in {"sending", "sendingLast"}
          /\ \A t \in Threads : t # Sender => state'[t] = state[t]
      BY <1>1, <1>15 DEF Send, EndBatch, threadFrame, mainVars
    <2>2. QED
      BY <2>1, MainFrame
  <1>16. ASSUME NEW t \in Threads, SpuriousWakeup(t) PROVE MainInv'
    <2>1. /\ main' = main /\ closed' = closed /\ state[t] = "waiting"
          /\ \A u \in Threads : u # t => state'[u] = state[u]
      BY <1>1, <1>16 DEF SpuriousWakeup, threadFrame, mainVars
    <2>2. QED
      BY <2>1, MainFrame
  <1>17. CASE Crash
    <2>1. main' = "down" /\ closed' = closed /\ state' = state
      BY <1>17 DEF Crash, queueVars, threadVars
    <2>2. QED
      BY <2>1 DEF MainInv
  <1>18. CASE Restart
    <2>1. main' = "loop" /\ ~closed'["raw"] /\ ~closed'["bulk"]
      BY <1>18 DEF Restart
    <2>2. QED
      BY <2>1 DEF MainInv
  <1>19. CASE UNCHANGED vars
    BY <1>19, MainFrame DEF vars, mainVars, queueVars, threadVars
  <1>20. QED
    BY <1>2, <1>3, <1>4, <1>5, <1>6, <1>7, <1>8, <1>9, <1>10, <1>11, <1>12, <1>13,
       <1>14, <1>15, <1>16, <1>17, <1>18, <1>19 DEF Next

-----------------------------------------------------------------------------
(* What a thread holds.                                                    *)

LEMMA ThreadInit == Init => ThreadInv
  <1> SUFFICES ASSUME Init PROVE ThreadInv
    OBVIOUS
  <1>1. \A t \in Threads : state[t] = "popping"
    BY DEF Init
  <1>2. Len(batch) = 0
    BY DEF Init
  <1>3. QED
    BY <1>1, <1>2, ThreadFacts, ConstantsOK DEF Init, ThreadInv

\* A thread that is woken, or one of an open queue that gets a message, holds
\* what it held.
LEMMA ThreadFrame ==
    ASSUME ThreadInv, held' = held, batch' = batch,
           \A t \in Threads : \/ state'[t] = state[t]
                              \/ state[t] = "waiting" /\ state'[t] = "popping",
           \A q \in Queues : /\ closed[q] => closed'[q]
                             /\ queue'[q] = queue[q] \/ ~closed[q]
    PROVE  ThreadInv'
  <1> USE ThreadFacts
  <1>1. ASSUME NEW w \in Workers
        PROVE  /\ state'[w] \in {"popping", "waiting", "pushing", "done"}
               /\ held'[w] # 0 <=> state'[w] = "pushing"
               /\ state'[w] = "done" => closed'["raw"] /\ queue'["raw"] = <<>>
    BY DEF ThreadInv
  <1>2. /\ state'[Sender] # "pushing"
        /\ state'[Sender] \in {"popping", "waiting"} => Len(batch') < BulkSize
        /\ state'[Sender] \in {"sendingLast", "done"} => closed'["bulk"] /\ queue'["bulk"] = <<>>
        /\ state'[Sender] = "done" => batch' = <<>>
    BY DEF ThreadInv
  <1>3. QED
    BY <1>1, <1>2 DEF ThreadInv

LEMMA ThreadStep == TypeOK /\ MainInv /\ ThreadInv /\ ReadInv /\ [Next]_vars => ThreadInv'
  <1> SUFFICES ASSUME TypeOK, MainInv, ThreadInv, ReadInv, [Next]_vars PROVE ThreadInv'
    OBVIOUS
  <1> USE ThreadFacts
  <1>1. /\ queue \in [Queues -> Seq(Offsets)] /\ closed \in [Queues -> BOOLEAN]
        /\ state \in [Threads -> States] /\ batch \in Seq(Offsets)
        /\ position \in 0..MaxOffset /\ committed \in 0..MaxOffset
        /\ held \in [Workers -> 0..MaxOffset]
    BY DEF TypeOK, States
  <1>2. CASE Loop
    BY <1>2, ThreadFrame DEF Loop, mainFrame, queueVars
  <1>3. CASE PollNothing
    BY <1>3, ThreadFrame DEF PollNothing, mainFrame, queueVars
  <1>4. CASE PollMessage
    BY <1>4, ThreadFrame DEF PollMessage, mainFrame, queueVars
  <1>5. CASE PushRaw
    <2>1. position \in Offsets
      BY <1>1, <1>5 DEF PushRaw, ReadInv, Offsets
    <2>2. /\ \A k \in Queues : k # "raw" => queue'[k] = queue[k]
          /\ \A t \in Threads :
                state'[t] = state[t] \/ (t \in Waiters("raw") /\ state'[t] = "popping")
      BY <1>1, <1>5, <2>1, PushFacts DEF PushRaw
    <2>3. ~closed["raw"] /\ closed' = closed /\ held' = held /\ batch' = batch
      BY <1>5 DEF PushRaw, MainInv, mainFrame
    <2>4. QED
      BY <2>2, <2>3, ThreadFrame DEF Waiters
  <1>6. CASE CommitMessage
    BY <1>6, ThreadFrame DEF CommitMessage, mainFrame, queueVars
  <1>7. CASE CloseRaw
    <2>1. \A t \in Threads : state'[t] = IF t \in Waiters("raw") THEN "popping" ELSE state[t]
      BY <1>1, <1>7, BroadcastFacts DEF CloseRaw, QueueClose
    <2>2. \A q \in Queues : closed[q] => closed'[q]
      BY <1>1, <1>7 DEF CloseRaw, QueueClose
    <2>3. QED
      BY <1>7, <2>1, <2>2, ThreadFrame DEF CloseRaw, Waiters, mainFrame
  <1>8. CASE JoinWorkers
    BY <1>8, ThreadFrame DEF JoinWorkers, mainFrame, queueVars
  <1>9. CASE CloseBulk
    <2>1. \A t \in Threads : state'[t] = IF t \in Waiters("bulk") THEN "popping" ELSE state[t]
      BY <1>1, <1>9, BroadcastFacts DEF CloseBulk, QueueClose
    <2>2. \A q \in Queues : closed[q] => closed'[q]
      BY <1>1, <1>9 DEF CloseBulk, QueueClose
    <2>3. QED
      BY <1>9, <2>1, <2>2, ThreadFrame DEF CloseBulk, Waiters, mainFrame
  <1>10. CASE JoinSender
    BY <1>10, ThreadFrame DEF JoinSender, mainFrame, queueVars
  <1>11. CASE Sigterm
    BY <1>11, ThreadFrame DEF Sigterm, mainFrame, queueVars
  <1>12. ASSUME NEW w \in Workers, WorkerPop(w) PROVE ThreadInv'
    <2>1. /\ closed' = closed /\ batch' = batch /\ state[w] = "popping"
          /\ queue'["bulk"] = queue["bulk"]
          /\ \A t \in Threads : t # w => state'[t] = state[t]
      BY <1>1, <1>12 DEF WorkerPop, PopNothing, threadFrame
    <2>2. CASE PopNothing(w, "done") /\ UNCHANGED <<queue, held>>
      <3>1. /\ queue["raw"] = <<>> /\ queue' = queue /\ held' = held
            /\ state'[w] = IF closed["raw"] THEN "done" ELSE "waiting"
        BY <1>1, <2>2 DEF PopNothing
      <3>2. QED
        BY <2>1, <3>1 DEF ThreadInv
    <2>3. CASE /\ queue["raw"] # <<>>
               /\ held' = [held EXCEPT ![w] = Head(queue["raw"])]
               /\ queue' = [queue EXCEPT !["raw"] = Tail(@)]
               /\ state' = [state EXCEPT ![w] = "pushing"]
      <3>1. Head(queue["raw"]) \in Offsets
        BY <1>1, <2>3, TailFacts
      <3>2. held'[w] # 0 /\ state'[w] = "pushing"
        BY <1>1, <2>3, <3>1 DEF Offsets
      <3>3. \A v \in Workers : v # w => held'[v] = held[v] /\ state[v] # "done"
        BY <1>1, <2>3 DEF ThreadInv
      <3>4. QED
        BY <2>1, <3>2, <3>3 DEF ThreadInv
    <2>4. QED
      BY <1>12, <2>2, <2>3 DEF WorkerPop
  <1>13. ASSUME NEW w \in Workers, WorkerPush(w) PROVE ThreadInv'
    <2> DEFINE st == [state EXCEPT ![w] = "popping"]
    <2>1. /\ closed' = closed /\ batch' = batch /\ state[w] = "pushing"
          /\ QueuePush("bulk", held[w], st)
          /\ held' = [held EXCEPT ![w] = 0]
      BY <1>13 DEF WorkerPush, threadFrame
    <2>2. st[w] = "popping" /\ \A t \in Threads : t # w => st[t] = state[t]
      BY <1>1
    <2>3. st \in [Threads -> States]
      BY <1>1 DEF States
    <2>4. held[w] \in Offsets
      BY <1>1, <2>1 DEF ThreadInv, Offsets
    <2> HIDE DEF st
    <2>5. \A t \in Threads : state'[t] = st[t] \/ (t \in Waiters("bulk") /\ state'[t] = "popping")
      BY <2>1, <2>3, SignalFacts DEF QueuePush
    <2>6. ~closed["bulk"] /\ queue'["raw"] = queue["raw"]
      <3>1. ~closed["bulk"]
        BY <2>1 DEF MainInv
      <3>2. queue'["raw"] = queue["raw"]
        BY <1>1, <2>1 DEF QueuePush
      <3>3. QED
        BY <3>1, <3>2
    <2>7. held'[w] = 0 /\ \A v \in Workers : v # w => held'[v] = held[v]
      BY <1>1, <2>1
    <2>8. state'[w] = "popping" /\ \A v \in Workers : v # w => state'[v] = state[v]
      BY <2>1, <2>2, <2>5 DEF Waiters
    <2>9. /\ state'[Sender] = state[Sender]
             \/ (state[Sender] = "waiting" /\ state'[Sender] = "popping")
      BY <2>2, <2>5 DEF Waiters
    <2>10. QED
      BY <2>1, <2>5, <2>6, <2>7, <2>8, <2>9 DEF ThreadInv
  <1>14. CASE SenderPop
    <2>1. /\ closed' = closed /\ held' = held /\ state[Sender] = "popping"
          /\ queue'["raw"] = queue["raw"]
          /\ \A t \in Threads : t # Sender => state'[t] = state[t]
      BY <1>1, <1>14 DEF SenderPop, PopNothing, threadFrame
    <2>2. CASE /\ PopNothing(Sender, IF batch = <<>> THEN "done" ELSE "sendingLast")
               /\ UNCHANGED <<queue, batch>>
      <3>1. /\ queue["bulk"] = <<>> /\ queue' = queue /\ batch' = batch
            /\ state'[Sender] = IF closed["bulk"]
                                THEN (IF batch = <<>> THEN "done" ELSE "sendingLast")
                                ELSE "waiting"
        BY <1>1, <2>2 DEF PopNothing
      <3>2. QED
        BY <2>1, <3>1 DEF ThreadInv
    <2>3. CASE /\ queue["bulk"] # <<>>
               /\ batch' = Append(batch, Head(queue["bulk"]))
               /\ queue' = [queue EXCEPT !["bulk"] = Tail(@)]
               /\ state' = [state EXCEPT ![Sender] =
                              IF Full(Len(batch) + 1) THEN "sending" ELSE "popping"]
      <3>1. Head(queue["bulk"]) \in Offsets
        BY <1>1, <2>3, TailFacts
      <3>2. Len(batch') = Len(batch) + 1 /\ Len(batch) \in Nat
        BY <1>1, <2>3, <3>1, AppendFacts
      <3>3. state'[Sender] = IF Full(Len(batch) + 1) THEN "sending" ELSE "popping"
        BY <1>1, <2>3
      <3>4. state'[Sender] = "popping" => Len(batch') < BulkSize
        BY <3>2, <3>3, ConstantsOK DEF Full
      <3>5. state'[Sender] \in {"sending", "popping"}
        BY <3>3
      <3>6. QED
        BY <2>1, <3>4, <3>5 DEF ThreadInv
    <2>4. QED
      BY <1>14, <2>2, <2>3 DEF SenderPop
  <1>15. CASE Send
    <2>1. /\ closed' = closed /\ queue' = queue /\ held' = held
          /\ state[Sender] \in {"sending", "sendingLast"}
          /\ \A t \in Threads : t # Sender => state'[t] = state[t]
      BY <1>1, <1>15 DEF Send, EndBatch, threadFrame
    <2>2. CASE EndBatch
      <3>1. /\ batch' = <<>>
            /\ state'[Sender] = IF state[Sender] = "sendingLast" THEN "done" ELSE "popping"
        BY <1>1, <2>2 DEF EndBatch
      <3>2. Len(batch') < BulkSize
        BY <3>1, ConstantsOK
      <3>3. QED
        BY <2>1, <3>1, <3>2 DEF ThreadInv
    <2>3. CASE UNCHANGED <<state, batch, sent>>
      BY <2>1, <2>3, ThreadFrame
    <2>4. QED
      BY <1>15, <2>2, <2>3 DEF Send
  <1>16. ASSUME NEW t \in Threads, SpuriousWakeup(t) PROVE ThreadInv'
    <2>1. /\ closed' = closed /\ queue' = queue /\ held' = held /\ batch' = batch
          /\ state[t] = "waiting" /\ state'[t] = "popping"
          /\ \A u \in Threads : u # t => state'[u] = state[u]
      BY <1>1, <1>16 DEF SpuriousWakeup, threadFrame
    <2>2. QED
      BY <2>1, ThreadFrame
  <1>17. CASE Crash
    BY <1>17, ThreadFrame DEF Crash, queueVars, threadVars
  <1>18. CASE Restart
    <2>1. /\ \A t \in Threads : state'[t] = "popping"
          /\ \A w \in Workers : held'[w] = 0
          /\ Len(batch') = 0
      BY <1>18 DEF Restart
    <2>2. QED
      BY <2>1, ConstantsOK DEF ThreadInv
  <1>19. CASE UNCHANGED vars
    BY <1>19, ThreadFrame DEF vars, queueVars, threadVars
  <1>20. QED
    BY <1>2, <1>3, <1>4, <1>5, <1>6, <1>7, <1>8, <1>9, <1>10, <1>11, <1>12, <1>13,
       <1>14, <1>15, <1>16, <1>17, <1>18, <1>19 DEF Next

-----------------------------------------------------------------------------
(* What the sender uploads.                                                *)

LEMMA BatchInit == Init => BatchInv
  <1> SUFFICES ASSUME Init PROVE BatchInv
    OBVIOUS
  <1>1. state[Sender] = "popping"
    BY ThreadFacts DEF Init
  <1>2. QED
    BY <1>1 DEF BatchInv

\* A step that leaves the batch and sends nobody off to upload it.
LEMMA BatchFrame ==
    ASSUME BatchInv, batch' = batch,
           state'[Sender] = state[Sender] \/ state'[Sender] \in {"popping", "waiting", "done"}
    PROVE  BatchInv'
  BY DEF BatchInv

LEMMA BatchStep == TypeOK /\ ThreadInv /\ ReadInv /\ BatchInv /\ [Next]_vars => BatchInv'
  <1> SUFFICES ASSUME TypeOK, ThreadInv, ReadInv, BatchInv, [Next]_vars PROVE BatchInv'
    OBVIOUS
  <1> USE ThreadFacts
  <1>1. /\ queue \in [Queues -> Seq(Offsets)] /\ state \in [Threads -> States]
        /\ batch \in Seq(Offsets) /\ Len(batch) \in Nat
        /\ position \in 0..MaxOffset /\ committed \in 0..MaxOffset
        /\ held \in [Workers -> 0..MaxOffset]
    BY DEF TypeOK, States
  <1>2. CASE Loop \/ PollNothing \/ PollMessage \/ CommitMessage \/ JoinWorkers \/ JoinSender
             \/ Sigterm
    BY <1>2, BatchFrame
       DEF Loop, PollNothing, PollMessage, CommitMessage, JoinWorkers, JoinSender, Sigterm,
           mainFrame, queueVars
  <1>3. CASE PushRaw
    <2>1. position \in Offsets
      BY <1>1, <1>3 DEF PushRaw, ReadInv, Offsets
    <2>2. \A t \in Threads : state'[t] = state[t] \/ state'[t] = "popping"
      BY <1>1, <1>3, <2>1, PushFacts DEF PushRaw
    <2>3. QED
      BY <1>3, <2>2, BatchFrame DEF PushRaw, mainFrame
  <1>4. CASE CloseRaw \/ CloseBulk
    <2>1. \A t \in Threads : state'[t] = state[t] \/ state'[t] = "popping"
      BY <1>1, <1>4, BroadcastFacts DEF CloseRaw, CloseBulk, QueueClose
    <2>2. QED
      BY <1>4, <2>1, BatchFrame DEF CloseRaw, CloseBulk, mainFrame
  <1>5. ASSUME NEW w \in Workers, WorkerPop(w) PROVE BatchInv'
    <2>1. batch' = batch /\ state'[Sender] = state[Sender]
      BY <1>1, <1>5 DEF WorkerPop, PopNothing
    <2>2. QED
      BY <2>1, BatchFrame
  <1>6. ASSUME NEW w \in Workers, WorkerPush(w) PROVE BatchInv'
    <2> DEFINE st == [state EXCEPT ![w] = "popping"]
    <2>1. batch' = batch /\ QueuePush("bulk", held[w], st) /\ state[w] = "pushing"
      BY <1>6 DEF WorkerPush
    <2>2. st \in [Threads -> States] /\ st[Sender] = state[Sender]
      BY <1>1 DEF States
    <2>3. held[w] \in Offsets
      BY <1>1, <2>1 DEF ThreadInv, Offsets
    <2> HIDE DEF st
    <2>4. state'[Sender] = st[Sender] \/ state'[Sender] = "popping"
      BY <1>1, <2>1, <2>2, <2>3, PushFacts
    <2>5. QED
      BY <2>1, <2>2, <2>4, BatchFrame
  <1>7. CASE SenderPop
    <2>1. state[Sender] = "popping" /\ Len(batch) < BulkSize
      BY <1>7 DEF SenderPop, ThreadInv
    <2>2. CASE /\ PopNothing(Sender, IF batch = <<>> THEN "done" ELSE "sendingLast")
               /\ UNCHANGED <<queue, batch>>
      <3>1. /\ batch' = batch
            /\ state'[Sender] \in {"done", "waiting"} \/ (state'[Sender] = "sendingLast" /\ batch # <<>>)
        BY <1>1, <2>2 DEF PopNothing
      <3>2. QED
        BY <2>1, <3>1 DEF BatchInv
    <2>3. CASE /\ queue["bulk"] # <<>>
               /\ batch' = Append(batch, Head(queue["bulk"]))
               /\ queue' = [queue EXCEPT !["bulk"] = Tail(@)]
               /\ state' = [state EXCEPT ![Sender] =
                              IF Full(Len(batch) + 1) THEN "sending" ELSE "popping"]
      <3>1. Head(queue["bulk"]) \in Offsets
        BY <1>1, <2>3, TailFacts
      <3>2. Len(batch') = Len(batch) + 1
        BY <1>1, <2>3, <3>1, AppendFacts
      <3>3. state'[Sender] = IF Full(Len(batch) + 1) THEN "sending" ELSE "popping"
        BY <1>1, <2>3
      <3>4. QED
        BY <1>1, <2>1, <3>2, <3>3, ConstantsOK DEF Full, BatchInv
    <2>4. QED
      BY <1>7, <2>2, <2>3 DEF SenderPop
  <1>8. CASE Send
    <2>1. CASE EndBatch
      <3>1. state'[Sender] \in {"done", "popping"}
        BY <1>1, <2>1 DEF EndBatch
      <3>2. QED
        BY <3>1 DEF BatchInv
    <2>2. CASE UNCHANGED <<state, batch, sent>>
      BY <2>2, BatchFrame
    <2>3. QED
      BY <1>8, <2>1, <2>2 DEF Send
  <1>9. ASSUME NEW t \in Threads, SpuriousWakeup(t) PROVE BatchInv'
    <2>1. batch' = batch /\ (state'[Sender] = state[Sender] \/ state'[Sender] = "popping")
      BY <1>1, <1>9 DEF SpuriousWakeup
    <2>2. QED
      BY <2>1, BatchFrame
  <1>10. CASE Crash \/ UNCHANGED vars
    BY <1>10, BatchFrame DEF Crash, vars, threadVars
  <1>11. CASE Restart
    <2>1. state'[Sender] = "popping"
      BY <1>11 DEF Restart
    <2>2. QED
      BY <2>1 DEF BatchInv
  <1>12. QED
    BY <1>2, <1>3, <1>4, <1>5, <1>6, <1>7, <1>8, <1>9, <1>10, <1>11 DEF Next

-----------------------------------------------------------------------------
(* What the main thread has read.                                          *)

LEMMA ReadInit == Init => ReadInv
  BY DEF Init, ReadInv

\* The main thread does not come to a new message, nor does a commit go past
\* the last one read.
LEMMA ReadFrame ==
    ASSUME TypeOK, ReadInv, position' = position, handed' = handed,
           main' \notin {"push", "commit"} \/ main' = main,
           committed' = committed \/ (committed' = position /\ main' # "push")
    PROVE  ReadInv'
  BY DEF ReadInv, TypeOK

LEMMA ReadStep == TypeOK /\ ReadInv /\ [Next]_vars => ReadInv'
  <1> SUFFICES ASSUME TypeOK, ReadInv, [Next]_vars PROVE ReadInv'
    OBVIOUS
  <1>1. committed \in 0..MaxOffset /\ position \in 0..MaxOffset /\ handed \subseteq Offsets
    BY DEF TypeOK
  <1>2. CASE Loop
    BY <1>2, ReadFrame DEF Loop, mainFrame, queueVars
  <1>3. CASE PollNothing
    BY <1>3, ReadFrame DEF PollNothing
  <1>4. CASE PollMessage
    <2>1. /\ position' = position + 1 /\ committed' = committed /\ handed' = handed
          /\ main' \in {"push", "loop"}
      BY <1>4 DEF PollMessage
    <2>2. \A m \in handed : m \in Nat /\ m <= position
      BY <1>1 DEF ReadInv, Offsets
    <2>3. committed <= position
      BY DEF ReadInv
    <2>4. QED
      BY <1>1, <2>1, <2>2, <2>3, ConstantsOK DEF ReadInv
  <1>5. CASE PushRaw
    <2>1. /\ position' = position /\ committed' = committed /\ main' = "commit"
          /\ handed' = handed \cup {position}
      BY <1>5 DEF PushRaw
    <2>2. QED
      BY <1>1, <2>1 DEF ReadInv
  <1>6. CASE CommitMessage
    BY <1>6, ReadFrame DEF CommitMessage
  <1>7. CASE CloseRaw
    BY <1>7, ReadFrame DEF CloseRaw
  <1>8. CASE JoinWorkers
    BY <1>8, ReadFrame DEF JoinWorkers
  <1>9. CASE CloseBulk
    BY <1>9, ReadFrame DEF CloseBulk
  <1>10. CASE JoinSender
    BY <1>10, ReadFrame DEF JoinSender
  <1>11. CASE Sigterm
    BY <1>11, ReadFrame DEF Sigterm
  <1>12. ASSUME NEW w \in Workers, WorkerPop(w) \/ WorkerPush(w) PROVE ReadInv'
    BY <1>12, ReadFrame DEF WorkerPop, WorkerPush, threadFrame, mainVars
  <1>13. CASE SenderPop \/ Send
    BY <1>13, ReadFrame DEF SenderPop, Send, threadFrame, mainVars
  <1>14. ASSUME NEW t \in Threads, SpuriousWakeup(t) PROVE ReadInv'
    BY <1>14, ReadFrame DEF SpuriousWakeup, threadFrame, mainVars
  <1>15. CASE Crash
    BY <1>15, ReadFrame DEF Crash
  <1>16. CASE Restart
    <2>1. position' = committed /\ committed' = committed /\ main' = "loop" /\ handed' = {}
      BY <1>16 DEF Restart
    <2>2. QED
      BY <1>1, <2>1 DEF ReadInv
  <1>17. CASE UNCHANGED vars
    BY <1>17, ReadFrame DEF vars, mainVars
  <1>18. QED
    BY <1>2, <1>3, <1>4, <1>5, <1>6, <1>7, <1>8, <1>9, <1>10, <1>11, <1>12, <1>13,
       <1>14, <1>15, <1>16, <1>17 DEF Next

-----------------------------------------------------------------------------
(* One place for each message.                                             *)

LEMMA PlaceInit == Init => PlaceInv
  <1> SUFFICES ASSUME Init PROVE PlaceInv
    OBVIOUS
  <1>1. queue["raw"] = <<>> /\ queue["bulk"] = <<>> /\ batch = <<>>
    BY ThreadFacts DEF Init
  <1>2. (\A w \in Workers : held[w] = 0) /\ InHand = {} /\ handed = {} /\ sent = {}
    BY DEF Init, InHand
  <1>3. QED
    BY <1>1, <1>2, EmptyFacts DEF PlaceInv, Places

LEMMA PlaceNext ==
    ASSUME Places(handed', Contents(queue'["raw"]), InHand', Contents(queue'["bulk"]),
                  Contents(batch'), sent'),
           Distinct(queue'["raw"]), Distinct(queue'["bulk"]), Distinct(batch'),
           \A u, v \in Workers : held'[u] = held'[v] /\ held'[u] # 0 => u = v
    PROVE  PlaceInv'
  BY DEF PlaceInv, Places, Contents, InHand, Distinct

LEMMA PlaceFrame ==
    ASSUME PlaceInv, queue'["raw"] = queue["raw"], queue'["bulk"] = queue["bulk"],
           batch' = batch, held' = held, handed' = handed, sent' = sent
    PROVE  PlaceInv'
  <1>1. InHand' = InHand
    BY DEF InHand
  <1>2. QED
    BY <1>1, PlaceNext DEF PlaceInv

\* A worker takes a message in its hand.
LEMMA HandTakes ==
    ASSUME NEW w \in Workers, held \in [Workers -> 0..MaxOffset], NEW m \in Offsets,
           held[w] = 0, m \notin InHand, held' = [held EXCEPT ![w] = m],
           \A u, v \in Workers : held[u] = held[v] /\ held[u] # 0 => u = v
    PROVE  /\ InHand' = InHand \cup {m}
           /\ \A u, v \in Workers : held'[u] = held'[v] /\ held'[u] # 0 => u = v
  <1>1. m # 0 /\ held'[w] = m /\ \A v \in Workers : v # w => held'[v] = held[v]
    BY DEF Offsets
  <1>2. InHand' = InHand \cup {m}
    BY <1>1 DEF InHand
  <1>3. \A v \in Workers : held[v] # m
    BY <1>1 DEF InHand
  <1>4. QED
    BY <1>1, <1>2, <1>3

\* A worker lays its message down.
LEMMA HandGives ==
    ASSUME NEW w \in Workers, held \in [Workers -> 0..MaxOffset], held[w] # 0,
           held' = [held EXCEPT ![w] = 0],
           \A u, v \in Workers : held[u] = held[v] /\ held[u] # 0 => u = v
    PROVE  /\ InHand' = InHand \ {held[w]} /\ held[w] \in InHand
           /\ \A u, v \in Workers : held'[u] = held'[v] /\ held'[u] # 0 => u = v
  <1>1. held'[w] = 0 /\ \A v \in Workers : v # w => held'[v] = held[v]
    OBVIOUS
  <1>2. InHand' = InHand \ {held[w]} /\ held[w] \in InHand
    BY <1>1 DEF InHand
  <1>3. QED
    BY <1>1, <1>2

LEMMA PlaceStep ==
    TypeOK /\ MainInv /\ ThreadInv /\ ReadInv /\ PlaceInv /\ [Next]_vars => PlaceInv'
  <1> SUFFICES ASSUME TypeOK, MainInv, ThreadInv, ReadInv, PlaceInv, [Next]_vars
               PROVE  PlaceInv'
    OBVIOUS
  <1> USE ThreadFacts
  <1>1. /\ queue \in [Queues -> Seq(Offsets)] /\ closed \in [Queues -> BOOLEAN]
        /\ state \in [Threads -> States] /\ batch \in Seq(Offsets)
        /\ position \in 0..MaxOffset /\ committed \in 0..MaxOffset
        /\ held \in [Workers -> 0..MaxOffset]
        /\ queue["raw"] \in Seq(Offsets) /\ queue["bulk"] \in Seq(Offsets)
    BY DEF TypeOK, States
  <1> DEFINE raw == queue["raw"]
             bulk == queue["bulk"]
  <1>2. /\ Places(handed, Contents(raw), InHand, Contents(bulk), Contents(batch), sent)
        /\ Distinct(raw) /\ Distinct(bulk) /\ Distinct(batch)
        /\ \A u, v \in Workers : held[u] = held[v] /\ held[u] # 0 => u = v
    BY DEF PlaceInv
  <1>3. CASE \/ Loop \/ PollNothing \/ PollMessage \/ CommitMessage
             \/ JoinWorkers \/ JoinSender \/ Sigterm
    BY <1>3, PlaceFrame DEF Loop, PollNothing, PollMessage, CommitMessage, JoinWorkers,
                            JoinSender, Sigterm, mainFrame, queueVars
  <1>4. CASE CloseRaw \/ CloseBulk
    BY <1>4, PlaceFrame DEF CloseRaw, CloseBulk, mainFrame
  <1>5. CASE PushRaw
    <2>1. /\ main = "push" /\ handed' = handed \cup {position}
          /\ QueuePush("raw", position, state)
          /\ held' = held /\ batch' = batch /\ sent' = sent
      BY <1>5 DEF PushRaw, mainFrame
    <2>2. position \in Offsets /\ position \notin handed
      BY <1>1, <2>1 DEF ReadInv, Offsets
    <2>3. ~closed["raw"]
      BY <2>1 DEF MainInv
    <2>4. queue'["raw"] = Append(raw, position) /\ queue'["bulk"] = bulk
      BY <1>1, <2>1, <2>3 DEF QueuePush
    <2>5. position \notin Contents(raw)
      BY <1>2, <2>2 DEF Places
    <2>6. /\ Contents(queue'["raw"]) = Contents(raw) \cup {position}
          /\ Distinct(queue'["raw"])
      BY <1>1, <1>2, <2>2, <2>4, <2>5, AppendFacts
    <2>7. InHand' = InHand
      BY <2>1 DEF InHand
    <2> HIDE DEF raw, bulk
    <2>8. Places(handed', Contents(queue'["raw"]), InHand', Contents(queue'["bulk"]),
                  Contents(batch'), sent')
      BY <1>2, <2>1, <2>2, <2>4, <2>6, <2>7 DEF Places
    <2>9. Distinct(queue'["bulk"]) /\ Distinct(batch')
      BY <1>2, <2>1, <2>4
    <2>10. QED
      BY <1>2, <2>1, <2>6, <2>8, <2>9, PlaceNext
  <1>6. ASSUME NEW w \in Workers, WorkerPop(w) PROVE PlaceInv'
    <2>1. batch' = batch /\ sent' = sent /\ handed' = handed /\ state[w] = "popping"
      BY <1>6 DEF WorkerPop, threadFrame
    <2>2. CASE UNCHANGED <<queue, held>>
      BY <2>1, <2>2, PlaceFrame
    <2>3. CASE /\ raw # <<>>
               /\ held' = [held EXCEPT ![w] = Head(raw)]
               /\ queue' = [queue EXCEPT !["raw"] = Tail(@)]
      <3>1. queue'["raw"] = Tail(raw) /\ queue'["bulk"] = bulk
        BY <1>1, <2>3
      <3>2. /\ Head(raw) \in Offsets /\ Head(raw) \in Contents(raw)
            /\ Contents(Tail(raw)) = Contents(raw) \ {Head(raw)} /\ Distinct(Tail(raw))
        BY <1>1, <1>2, <2>3, TailFacts
      <3>3. held[w] = 0
        BY <2>1 DEF ThreadInv
      <3>4. Head(raw) \notin InHand
        BY <1>2, <3>2 DEF Places
      <3>5. /\ InHand' = InHand \cup {Head(raw)}
            /\ \A u, v \in Workers : held'[u] = held'[v] /\ held'[u] # 0 => u = v
        BY <1>1, <1>2, <2>3, <3>2, <3>3, <3>4, HandTakes
      <3> HIDE DEF raw, bulk
      <3>6. Places(handed', Contents(queue'["raw"]), InHand', Contents(queue'["bulk"]),
                  Contents(batch'), sent')
        BY <1>2, <2>1, <3>1, <3>2, <3>5 DEF Places
      <3>7. Distinct(queue'["raw"]) /\ Distinct(queue'["bulk"]) /\ Distinct(batch')
        BY <1>2, <2>1, <3>1, <3>2
      <3>8. QED
        BY <3>5, <3>6, <3>7, PlaceNext
    <2>4. QED
      BY <1>6, <2>2, <2>3 DEF WorkerPop
  <1>7. ASSUME NEW w \in Workers, WorkerPush(w) PROVE PlaceInv'
    <2>1. /\ batch' = batch /\ sent' = sent /\ handed' = handed /\ state[w] = "pushing"
          /\ held' = [held EXCEPT ![w] = 0]
          /\ QueuePush("bulk", held[w], [state EXCEPT ![w] = "popping"])
      BY <1>7 DEF WorkerPush, threadFrame
    <2>2. held[w] \in Offsets /\ held[w] # 0
      BY <1>1, <2>1 DEF ThreadInv, Offsets
    <2>3. ~closed["bulk"]
      BY <2>1 DEF MainInv
    <2>4. queue'["bulk"] = Append(bulk, held[w]) /\ queue'["raw"] = raw
      BY <1>1, <2>1, <2>3 DEF QueuePush
    <2>5. /\ InHand' = InHand \ {held[w]} /\ held[w] \in InHand
          /\ \A u, v \in Workers : held'[u] = held'[v] /\ held'[u] # 0 => u = v
      BY <1>1, <1>2, <2>1, <2>2, HandGives
    <2>6. held[w] \notin Contents(bulk)
      BY <1>2, <2>5 DEF Places
    <2>7. /\ Contents(queue'["bulk"]) = Contents(bulk) \cup {held[w]}
          /\ Distinct(queue'["bulk"])
      BY <1>1, <1>2, <2>2, <2>4, <2>6, AppendFacts
    <2> HIDE DEF raw, bulk
    <2>8. Places(handed', Contents(queue'["raw"]), InHand', Contents(queue'["bulk"]),
                  Contents(batch'), sent')
      BY <1>2, <2>1, <2>4, <2>5, <2>7 DEF Places
    <2>9. Distinct(queue'["raw"]) /\ Distinct(batch')
      BY <1>2, <2>1, <2>4
    <2>10. QED
      BY <2>5, <2>7, <2>8, <2>9, PlaceNext
  <1>8. CASE SenderPop
    <2>1. held' = held /\ sent' = sent /\ handed' = handed
      BY <1>8 DEF SenderPop, threadFrame
    <2>2. CASE UNCHANGED <<queue, batch>>
      BY <2>1, <2>2, PlaceFrame
    <2>3. CASE /\ bulk # <<>>
               /\ batch' = Append(batch, Head(bulk))
               /\ queue' = [queue EXCEPT !["bulk"] = Tail(@)]
      <3>1. queue'["bulk"] = Tail(bulk) /\ queue'["raw"] = raw
        BY <1>1, <2>3
      <3>2. /\ Head(bulk) \in Offsets /\ Head(bulk) \in Contents(bulk)
            /\ Contents(Tail(bulk)) = Contents(bulk) \ {Head(bulk)} /\ Distinct(Tail(bulk))
        BY <1>1, <1>2, <2>3, TailFacts
      <3>3. Head(bulk) \notin Contents(batch)
        BY <1>2, <3>2 DEF Places
      <3>4. Contents(batch') = Contents(batch) \cup {Head(bulk)} /\ Distinct(batch')
        BY <1>1, <1>2, <2>3, <3>2, <3>3, AppendFacts
      <3>5. InHand' = InHand
        BY <2>1 DEF InHand
      <3> HIDE DEF raw, bulk
      <3>6. Places(handed', Contents(queue'["raw"]), InHand', Contents(queue'["bulk"]),
                  Contents(batch'), sent')
        BY <1>2, <2>1, <3>1, <3>2, <3>4, <3>5 DEF Places
      <3>7. Distinct(queue'["raw"]) /\ Distinct(queue'["bulk"])
        BY <1>2, <3>1, <3>2
      <3>8. QED
        BY <1>2, <2>1, <3>4, <3>6, <3>7, PlaceNext
    <2>4. QED
      BY <1>8, <2>2, <2>3 DEF SenderPop
  <1>9. CASE Send
    <2>1. queue' = queue /\ held' = held /\ handed' = handed
      BY <1>9 DEF Send, threadFrame
    <2>2. CASE UNCHANGED <<state, batch, sent>>
      BY <2>1, <2>2, PlaceFrame
    <2>3. CASE EndBatch
      <3>1. batch' = <<>> /\ sent' = sent \cup Contents(batch)
        BY <2>3 DEF EndBatch
      <3>2. Contents(batch') = {} /\ Distinct(batch') /\ InHand' = InHand
        BY <2>1, <3>1, EmptyFacts DEF InHand
      <3> HIDE DEF raw, bulk
      <3>3. Places(handed', Contents(queue'["raw"]), InHand', Contents(queue'["bulk"]),
                  Contents(batch'), sent')
        BY <1>2, <2>1, <3>1, <3>2 DEF Places, raw, bulk
      <3>4. QED
        BY <1>2, <2>1, <3>2, <3>3, PlaceNext DEF raw, bulk
    <2>4. QED
      BY <1>9, <2>2, <2>3 DEF Send
  <1>10. ASSUME NEW t \in Threads, SpuriousWakeup(t) PROVE PlaceInv'
    BY <1>10, PlaceFrame DEF SpuriousWakeup, threadFrame
  <1>11. CASE Crash
    BY <1>11, PlaceFrame DEF Crash, queueVars, threadVars
  <1>12. CASE Restart
    <2>1. /\ queue'["raw"] = <<>> /\ queue'["bulk"] = <<>> /\ batch' = <<>>
          /\ handed' = {} /\ sent' = {} /\ \A w \in Workers : held'[w] = 0
      BY <1>12 DEF Restart
    <2>2. InHand' = {}
      BY <2>1 DEF InHand
    <2>3. Contents(queue'["raw"]) = {} /\ Contents(queue'["bulk"]) = {} /\ Contents(batch') = {}
      BY <2>1, EmptyFacts
    <2>4. Distinct(queue'["raw"]) /\ Distinct(queue'["bulk"]) /\ Distinct(batch')
      BY <2>1, EmptyFacts
    <2>5. Places(handed', Contents(queue'["raw"]), InHand', Contents(queue'["bulk"]),
                  Contents(batch'), sent')
      BY <2>1, <2>2, <2>3 DEF Places
    <2>6. QED
      BY <2>1, <2>4, <2>5, PlaceNext
  <1>13. CASE UNCHANGED vars
    BY <1>13, PlaceFrame DEF vars, queueVars, threadVars
  <1>14. QED
    BY <1>3, <1>4, <1>5, <1>6, <1>7, <1>8, <1>9, <1>10, <1>11, <1>12, <1>13 DEF Next

-----------------------------------------------------------------------------
(* No wake-up is lost.                                                     *)

LEMMA WakeInit == Init => WakeInv
  BY ThreadFacts DEF Init, WakeInv

\* Nobody sleeps or ends, and the queues are left alone.
LEMMA WakeFrame ==
    ASSUME WakeInv, queue' = queue, closed' = closed,
           \A t \in Threads : \/ state'[t] = state[t]
                              \/ state'[t] \notin {"waiting", "done"}
    PROVE  WakeInv'
  BY ThreadFacts DEF WakeInv

LEMMA WakeStep ==
    TypeOK /\ MainInv /\ ThreadInv /\ WakeInv /\ [Next]_vars => WakeInv'
  <1> SUFFICES ASSUME TypeOK, MainInv, ThreadInv, WakeInv, [Next]_vars
               PROVE  WakeInv'
    OBVIOUS
  <1> USE ThreadFacts
  <1>1. /\ queue \in [Queues -> Seq(Offsets)] /\ closed \in [Queues -> BOOLEAN]
        /\ state \in [Threads -> States]
    BY DEF TypeOK, States
  <1>2. CASE \/ Loop \/ PollNothing \/ PollMessage \/ CommitMessage
             \/ JoinWorkers \/ JoinSender \/ Sigterm
    BY <1>2, WakeFrame DEF Loop, PollNothing, PollMessage, CommitMessage, JoinWorkers,
                           JoinSender, Sigterm, mainFrame, queueVars
  <1>3. CASE PushRaw
    <2>1. /\ main = "push" /\ closed' = closed /\ QueuePush("raw", position, state)
      BY <1>3 DEF PushRaw
    <2>2. ~closed["raw"]
      BY <2>1 DEF MainInv
    <2>3. state' \in Signal("raw", state) /\ queue'["bulk"] = queue["bulk"]
      BY <1>1, <2>1, <2>2 DEF QueuePush
    <2>4. /\ \A t \in Threads : \/ state'[t] = state[t]
                                \/ t \in Waiters("raw") /\ state'[t] = "popping"
          /\ Waiters("raw") # {} => \E t \in Waiters("raw") : state'[t] = "popping"
      BY <1>1, <2>3, SignalFacts
    <2>5. state'[Sender] = state[Sender]
      BY <2>4 DEF Waiters
    <2>6. \E w \in Workers : state'[w] \notin {"waiting", "done"}
      <3>1. CASE Waiters("raw") # {}
        <4>1. PICK t \in Waiters("raw") : state'[t] = "popping"
          BY <2>4, <3>1
        <4>2. t \in Workers
          BY DEF Waiters
        <4>3. QED
          BY <4>1, <4>2
      <3>2. CASE Waiters("raw") = {}
        <4>1. PICK w \in Workers : TRUE
          BY ConstantsOK
        <4>2. state'[w] = state[w]
          BY <2>4, <3>2
        <4>3. state[w] # "waiting"
          BY <3>2 DEF Waiters
        <4>4. state[w] # "done"
          BY <2>2 DEF ThreadInv
        <4>5. QED
          BY <4>2, <4>3, <4>4
      <3>3. QED
        BY <3>1, <3>2
    <2>7. QED
      BY <2>1, <2>2, <2>3, <2>5, <2>6 DEF WakeInv
  <1>4. CASE CloseRaw
    <2>1. /\ \A t \in Threads : state'[t] = IF t \in Waiters("raw") THEN "popping" ELSE state[t]
          /\ queue' = queue
      BY <1>1, <1>4, BroadcastFacts DEF CloseRaw, QueueClose
    <2>2. \A w \in Workers : state'[w] # "waiting" /\ (state[w] # "done" => state'[w] # "done")
      BY <1>1, <2>1 DEF Waiters
    <2>3. state'[Sender] = state[Sender] /\ closed'["bulk"] = closed["bulk"]
      <3>1. state'[Sender] = state[Sender]
        BY <2>1 DEF Waiters
      <3>2. closed'["bulk"] = closed["bulk"]
        BY <1>1, <1>4 DEF CloseRaw, QueueClose
      <3>3. QED
        BY <3>1, <3>2
    <2>4. QED
      BY <2>1, <2>2, <2>3 DEF WakeInv
  <1>5. CASE CloseBulk
    <2>1. /\ \A t \in Threads : state'[t] = IF t \in Waiters("bulk") THEN "popping" ELSE state[t]
          /\ queue' = queue
      BY <1>1, <1>5, BroadcastFacts DEF CloseBulk, QueueClose
    <2>2. state'[Sender] # "waiting" /\ (state[Sender] # "done" => state'[Sender] # "done")
      BY <1>1, <2>1 DEF Waiters
    <2>3. \A w \in Workers : state'[w] = state[w]
      BY <2>1 DEF Waiters
    <2>4. closed'["raw"] = closed["raw"]
      BY <1>1, <1>5 DEF CloseBulk, QueueClose
    <2>5. QED
      BY <2>1, <2>2, <2>3, <2>4 DEF WakeInv
  <1>6. ASSUME NEW w \in Workers, WorkerPop(w) PROVE WakeInv'
    <2>1. /\ closed' = closed /\ queue'["bulk"] = queue["bulk"]
          /\ \A t \in Threads : t # w => state'[t] = state[t]
      BY <1>1, <1>6 DEF WorkerPop, PopNothing, threadFrame
    <2>2. CASE PopNothing(w, "done") /\ UNCHANGED queue
      <3>1. /\ queue'["raw"] = <<>>
            /\ state'[w] = IF closed["raw"] THEN "done" ELSE "waiting"
        BY <1>1, <2>2 DEF PopNothing
      <3>2. QED
        BY <2>1, <3>1 DEF WakeInv
    <2>3. CASE state' = [state EXCEPT ![w] = "pushing"]
      <3>1. state'[w] = "pushing"
        BY <1>1, <2>3
      <3>2. QED
        BY <2>1, <3>1 DEF WakeInv
    <2>4. QED
      BY <1>6, <2>2, <2>3 DEF WorkerPop
  <1>7. ASSUME NEW w \in Workers, WorkerPush(w) PROVE WakeInv'
    <2> DEFINE st == [state EXCEPT ![w] = "popping"]
    <2>1. closed' = closed /\ state[w] = "pushing" /\ QueuePush("bulk", held[w], st)
      BY <1>7 DEF WorkerPush, threadFrame
    <2>2. st[w] = "popping" /\ \A t \in Threads : t # w => st[t] = state[t]
      BY <1>1
    <2>3. st \in [Threads -> States]
      BY <1>1 DEF States
    <2>4. ~closed["bulk"]
      BY <2>1 DEF MainInv
    <2> HIDE DEF st
    <2>5. state' \in Signal("bulk", st) /\ queue'["raw"] = queue["raw"]
      BY <1>1, <2>1, <2>4 DEF QueuePush
    <2>6. /\ \A t \in Threads : \/ state'[t] = st[t]
                                \/ t \in Waiters("bulk") /\ state'[t] = "popping"
          /\ Waiters("bulk") # {} => \E t \in Waiters("bulk") : state'[t] = "popping"
      BY <2>3, <2>5, SignalFacts
    <2>7. state'[w] = "popping" /\ \A v \in Workers : v # w => state'[v] = state[v]
      BY <2>2, <2>6 DEF Waiters
    <2>8. state'[Sender] \notin {"waiting", "done"}
      <3>1. CASE Waiters("bulk") # {}
        <4>1. PICK t \in Waiters("bulk") : state'[t] = "popping"
          BY <2>6, <3>1
        <4>2. t = Sender
          BY DEF Waiters
        <4>3. QED
          BY <4>1, <4>2
      <3>2. CASE Waiters("bulk") = {}
        <4>1. state'[Sender] = state[Sender]
          BY <2>2, <2>6, <3>2
        <4>2. state[Sender] # "waiting"
          BY <3>2 DEF Waiters
        <4>3. state[Sender] # "done"
          BY <2>4 DEF ThreadInv
        <4>4. QED
          BY <4>1, <4>2, <4>3
      <3>3. QED
        BY <3>1, <3>2
    <2>9. closed["raw"] => \A v \in Workers : state'[v] # "waiting"
      BY <2>7 DEF WakeInv
    <2>10. QED
      BY <2>1, <2>4, <2>7, <2>8, <2>9 DEF WakeInv
  <1>8. CASE SenderPop
    <2>1. /\ closed' = closed /\ queue'["raw"] = queue["raw"]
          /\ \A w \in Workers : state'[w] = state[w]
      BY <1>1, <1>8 DEF SenderPop, PopNothing, threadFrame
    <2>2. CASE /\ PopNothing(Sender, IF batch = <<>> THEN "done" ELSE "sendingLast")
               /\ UNCHANGED <<queue, batch>>
      <3>1. /\ queue'["bulk"] = <<>>
            /\ closed["bulk"] => state'[Sender] # "waiting"
        BY <1>1, <2>2 DEF PopNothing
      <3>2. QED
        BY <2>1, <3>1 DEF WakeInv
    <2>3. CASE state' = [state EXCEPT ![Sender] =
                            IF Full(Len(batch) + 1) THEN "sending" ELSE "popping"]
      <3>1. state'[Sender] \notin {"waiting", "done"}
        BY <1>1, <2>3
      <3>2. QED
        BY <2>1, <3>1 DEF WakeInv
    <2>4. QED
      BY <1>8, <2>2, <2>3 DEF SenderPop
  <1>9. CASE Send
    <2>1. /\ closed' = closed /\ queue' = queue
          /\ \A w \in Workers : state'[w] = state[w]
      BY <1>1, <1>9 DEF Send, EndBatch, threadFrame
    <2>2. CASE EndBatch
      <3>1. state'[Sender] = IF state[Sender] = "sendingLast" THEN "done" ELSE "popping"
        BY <1>1, <2>2 DEF EndBatch
      <3>2. queue["bulk"] # <<>> => state[Sender] # "sendingLast"
        BY DEF ThreadInv
      <3>3. QED
        BY <2>1, <3>1, <3>2 DEF WakeInv
    <2>3. CASE UNCHANGED <<state, batch, sent>>
      BY <2>1, <2>3, WakeFrame
    <2>4. QED
      BY <1>9, <2>2, <2>3 DEF Send
  <1>10. ASSUME NEW t \in Threads, SpuriousWakeup(t) PROVE WakeInv'
    <2>1. /\ closed' = closed /\ queue' = queue /\ state'[t] = "popping"
          /\ \A u \in Threads : u # t => state'[u] = state[u]
      BY <1>1, <1>10 DEF SpuriousWakeup, threadFrame
    <2>2. QED
      BY <2>1, WakeFrame
  <1>11. CASE Crash
    BY <1>11, WakeFrame DEF Crash, queueVars, threadVars
  <1>12. CASE Restart
    <2>1. /\ queue'["raw"] = <<>> /\ queue'["bulk"] = <<>>
          /\ ~closed'["raw"] /\ ~closed'["bulk"]
      BY <1>12 DEF Restart
    <2>2. QED
      BY <2>1 DEF WakeInv
  <1>13. CASE UNCHANGED vars
    BY <1>13, WakeFrame DEF vars, queueVars, threadVars
  <1>14. QED
    BY <1>2, <1>3, <1>4, <1>5, <1>6, <1>7, <1>8, <1>9, <1>10, <1>11, <1>12, <1>13 DEF Next

-----------------------------------------------------------------------------
(* Copies in OpenSearch.                                                   *)

LEMMA CopyInit == Init => CopyInv
  BY DEF Init, CopyInv, Offsets

LEMMA CopyFrame ==
    ASSUME CopyInv, TypeOK, copies' = copies, sent' = sent, handed' = handed,
           repeated' = repeated, committed' \in Nat, committed <= committed'
    PROVE  CopyInv'
  BY DEF CopyInv, TypeOK, Offsets

LEMMA CopyStep ==
    TypeOK /\ ReadInv /\ PlaceInv /\ CopyInv /\ [Next]_vars => CopyInv'
  <1> SUFFICES ASSUME TypeOK, ReadInv, PlaceInv, CopyInv, [Next]_vars
               PROVE  CopyInv'
    OBVIOUS
  <1>1. /\ position \in 0..MaxOffset /\ committed \in 0..MaxOffset
        /\ committed \in Nat /\ copies \in [Offsets -> 0..2]
        /\ batch \in Seq(Offsets)
    BY ConstantsOK DEF TypeOK
  <1>2. CASE \/ Loop \/ PollNothing \/ PollMessage \/ CloseRaw \/ CloseBulk
             \/ JoinWorkers \/ JoinSender \/ Sigterm
    BY <1>1, <1>2, CopyFrame DEF Loop, PollNothing, PollMessage, CloseRaw, CloseBulk,
                                 JoinWorkers, JoinSender, Sigterm, mainFrame
  <1>3. CASE PushRaw
    <2>1. /\ main = "push" /\ handed' = handed \cup {position} /\ committed' = committed
          /\ copies' = copies /\ sent' = sent /\ repeated' = repeated
      BY <1>3 DEF PushRaw, mainFrame
    <2>2. committed < position /\ position \notin handed
      BY <2>1 DEF ReadInv
    <2>3. sent \subseteq handed
      BY DEF PlaceInv, Places
    <2>4. ASSUME NEW m \in Offsets \ repeated
          PROVE  /\ copies[m] <= 1
                 /\ copies[m] = 1 => m \in sent \/ (m \notin handed' /\ m <= committed)
      BY <1>1, <2>1, <2>2, <2>3 DEF CopyInv
    <2>5. QED
      BY <2>1, <2>4 DEF CopyInv
  <1>4. CASE CommitMessage
    <2>1. /\ committed' \in {committed, position}
          /\ copies' = copies /\ sent' = sent /\ handed' = handed /\ repeated' = repeated
      BY <1>4 DEF CommitMessage, mainFrame
    <2>2. committed' \in Nat /\ committed <= committed'
      BY <1>1, <2>1 DEF ReadInv
    <2>3. QED
      BY <2>1, <2>2, CopyFrame
  <1>5. ASSUME NEW w \in Workers, WorkerPop(w) \/ WorkerPush(w) PROVE CopyInv'
    BY <1>1, <1>5, CopyFrame DEF WorkerPop, WorkerPush, threadFrame
  <1>6. CASE SenderPop
    BY <1>1, <1>6, CopyFrame DEF SenderPop, threadFrame
  <1>7. CASE Send
    <2>1. PICK ok, applied \in BOOLEAN :
            /\ Post(ok, applied)
            /\ \/ LastPost(ok) /\ EndBatch
               \/ ~LastPost(ok) /\ node' = node + 1 /\ UNCHANGED <<state, batch, sent>>
      BY <1>7 DEF Send
    <2>2. handed' = handed /\ committed' = committed
      BY <1>7 DEF Send, threadFrame
    <2>3. ok => sent' = sent \cup Contents(batch)
      BY <2>1 DEF LastPost, EndBatch
    <2>4. sent \subseteq sent'
      BY <2>1 DEF EndBatch
    <2>5. Contents(batch) \cap sent = {} /\ Contents(batch) \subseteq handed
      BY DEF PlaceInv, Places
    <2>6. repeated \subseteq repeated'
      BY <2>1 DEF Post
    <2>7. ASSUME NEW m \in Offsets \ repeated'
          PROVE  /\ copies'[m] <= 1
                 /\ copies'[m] = 1 => m \in sent' \/ (m \notin handed /\ m <= committed)
      <3>1. /\ copies[m] \in 0..2 /\ copies[m] <= 1
            /\ copies[m] = 1 => m \in sent \/ (m \notin handed /\ m <= committed)
        BY <1>1, <2>6 DEF CopyInv
      <3>2. CASE applied /\ m \in Contents(batch)
        <4>1. ok
          BY <2>1, <3>2 DEF Post
        <4>2. copies[m] = 0
          BY <2>5, <3>1, <3>2
        <4>3. copies'[m] = 1 /\ m \in sent'
          BY <2>1, <2>3, <3>2, <4>1, <4>2 DEF Post, OneMore
        <4>4. QED
          BY <4>3
      <3>3. CASE ~(applied /\ m \in Contents(batch))
        <4>1. copies'[m] = copies[m]
          BY <2>1, <3>3 DEF Post
        <4>2. QED
          BY <2>4, <3>1, <4>1
      <3>4. QED
        BY <3>2, <3>3
    <2>8. QED
      BY <2>2, <2>7 DEF CopyInv
  <1>8. ASSUME NEW t \in Threads, SpuriousWakeup(t) PROVE CopyInv'
    BY <1>1, <1>8, CopyFrame DEF SpuriousWakeup, threadFrame
  <1>9. CASE Crash
    BY <1>1, <1>9, CopyFrame DEF Crash
  <1>10. CASE Restart
    <2>1. /\ copies' = copies /\ committed' = committed /\ handed' = {} /\ sent' = {}
          /\ repeated' = repeated \cup (handed \ 1..committed)
      BY <1>10 DEF Restart
    <2>2. sent \subseteq handed
      BY DEF PlaceInv, Places
    <2>3. ASSUME NEW m \in Offsets \ repeated'
          PROVE  copies[m] <= 1 /\ (copies[m] = 1 => m <= committed)
      <3>1. m \in Offsets \ repeated /\ (m \in handed => m \in 1..committed)
        BY <2>1
      <3>2. /\ copies[m] <= 1
            /\ copies[m] = 1 => m \in handed \/ m <= committed
        BY <2>2, <3>1 DEF CopyInv
      <3>3. QED
        BY <3>1, <3>2
    <2>4. QED
      BY <2>1, <2>3 DEF CopyInv
  <1>11. CASE UNCHANGED vars
    BY <1>1, <1>11, CopyFrame DEF vars
  <1>12. QED
    BY <1>2, <1>3, <1>4, <1>5, <1>6, <1>7, <1>8, <1>9, <1>10, <1>11 DEF Next

-----------------------------------------------------------------------------
(* The invariant and what follows from it.                                 *)

LEMMA InvariantInit == Init => IInv
  BY TypeInit, MainInit, ThreadInit, BatchInit, PlaceInit, ReadInit, WakeInit, CopyInit DEF IInv

LEMMA InvariantStep == IInv /\ [Next]_vars => IInv'
  <1> SUFFICES ASSUME IInv, [Next]_vars PROVE IInv'
    OBVIOUS
  <1>1. TypeOK /\ MainInv /\ ThreadInv /\ BatchInv /\ PlaceInv /\ ReadInv /\ WakeInv /\ CopyInv
    BY DEF IInv
  <1>2. TypeOK'
    BY <1>1, TypeStep
  <1>3. MainInv' /\ ThreadInv' /\ BatchInv'
    BY <1>1, MainStep, ThreadStep, BatchStep
  <1>4. PlaceInv' /\ ReadInv'
    BY <1>1, PlaceStep, ReadStep
  <1>5. WakeInv' /\ CopyInv'
    BY <1>1, WakeStep, CopyStep
  <1>6. QED
    BY <1>2, <1>3, <1>4, <1>5 DEF IInv

LEMMA Invariant == Spec => []IInv
  BY InvariantInit, InvariantStep, PTL DEF Spec

LEMMA PlaceMeans == TypeOK /\ PlaceInv => OnePlace
  <1> SUFFICES ASSUME TypeOK, PlaceInv PROVE OnePlace
    OBVIOUS
  <1> DEFINE raw == queue["raw"]
             bulk == queue["bulk"]
             queued == raw \o bulk
             line == queued \o batch
  <1>1. raw \in Seq(Offsets) /\ bulk \in Seq(Offsets) /\ batch \in Seq(Offsets)
    BY QueueTypes
  <1>2. /\ Places(handed, Contents(raw), InHand, Contents(bulk), Contents(batch), sent)
        /\ Distinct(raw) /\ Distinct(bulk) /\ Distinct(batch)
        /\ \A v, w \in Workers : held[v] = held[w] /\ held[v] # 0 => v = w
    BY DEF PlaceInv
  <1> HIDE DEF raw, bulk
  <1>3. /\ queued \in Seq(Offsets)
        /\ Contents(queued) = Contents(raw) \cup Contents(bulk)
        /\ Distinct(queued)
    BY <1>1, <1>2, ConcatFacts DEF Places
  <1> HIDE DEF queued
  <1>4. Contents(queued) \cap Contents(batch) = {}
    BY <1>2, <1>3 DEF Places
  <1>5. /\ Contents(line) = Contents(queued) \cup Contents(batch)
        /\ Distinct(line)
    BY <1>1, <1>2, <1>3, <1>4, ConcatFacts
  <1> HIDE DEF line
  <1>6. /\ handed = Contents(line) \cup InHand \cup sent
        /\ Contents(line) \cap InHand = {} /\ sent \cap (Contents(line) \cup InHand) = {}
    BY <1>2, <1>3, <1>5 DEF Places
  <1>7. line = queue["raw"] \o queue["bulk"] \o batch
    BY DEF line, queued, raw, bulk
  <1>8. QED
    BY <1>2, <1>5, <1>6, <1>7 DEF OnePlace, Distinct

LEMMA WakeMeans == WakeInv => NoSleepOverWork
  <1> SUFFICES ASSUME WakeInv, NEW q \in Queues
               PROVE  /\ queue[q] # <<>> =>
                            \E t \in Threads : Source(t) = q /\ state[t] \notin {"waiting", "done"}
                      /\ closed[q] => Waiters(q) = {}
    BY DEF NoSleepOverWork
  <1>1. CASE q = "raw"
    BY <1>1, ThreadFacts DEF WakeInv, Waiters
  <1>2. CASE q = "bulk"
    BY <1>2, ThreadFacts DEF WakeInv, Waiters
  <1>3. QED
    BY <1>1, <1>2, ThreadFacts

LEMMA EndMeans == MainInv /\ ThreadInv /\ PlaceInv => Drained
  <1> SUFFICES ASSUME MainInv, ThreadInv, PlaceInv, main = "exited"
               PROVE  sent = handed
    BY DEF Drained
  <1>1. (\A w \in Workers : state[w] = "done") /\ state[Sender] = "done"
    BY DEF MainInv
  <1>2. PICK w \in Workers : TRUE
    BY ConstantsOK
  <1>3. queue["raw"] = <<>> /\ queue["bulk"] = <<>> /\ batch = <<>>
    BY <1>1, <1>2 DEF ThreadInv
  <1>4. InHand = {}
    BY <1>1 DEF ThreadInv, InHand
  <1>5. QED
    BY <1>3, <1>4, EmptyFacts DEF PlaceInv, Places

LEMMA CopyMeans == TypeOK /\ CopyInv => NoDuplicates
  BY DEF TypeOK, CopyInv, NoDuplicates

\* Every variable keeps its type; above all the batch never outgrows its array,
\* which the sender fills without looking (worker.c:66).
THEOREM TypeCorrect == Spec => []TypeOK
  <1>1. IInv => TypeOK
    BY DEF IInv
  <1>2. QED
    BY <1>1, Invariant, PTL

\* A message that was queued is in one place until it is uploaded or given up,
\* however many workers race for it (queue.c, worker.c).
THEOREM OneForEach == Spec => []OnePlace
  <1>1. IInv => OnePlace
    BY PlaceMeans DEF IInv
  <1>2. QED
    BY <1>1, Invariant, PTL

\* A queue that holds a message has a thread awake that will take it: the one
\* signal of a push is enough (queue.c:38, 63).
THEOREM NobodySleeps == Spec => []NoSleepOverWork
  <1>1. IInv => NoSleepOverWork
    BY WakeMeans DEF IInv
  <1>2. QED
    BY <1>1, Invariant, PTL

\* The order in which the main thread closes the queues and joins the threads
\* leaves nothing behind (main.c:243-250).
THEOREM AllDrained == Spec => []Drained
  <1>1. IInv => Drained
    BY EndMeans DEF IInv
  <1>2. QED
    BY <1>1, Invariant, PTL

\* Two copies in OpenSearch mean a message read twice or a POST that was applied
\* and reported as failed (opensearch.c:138-157).
THEOREM NoneTwice == Spec => []NoDuplicates
  <1>1. IInv => NoDuplicates
    BY CopyMeans DEF IInv
  <1>2. QED
    BY <1>1, Invariant, PTL
-----------------------------------------------------------------------------
(* The pipeline delivers: every step is one of FlowDelivery, or a stutter. *)

LEMMA BatchSize ==
    ASSUME NEW S, NEW s \in Seq(S), Distinct(s)
    PROVE  Cardinality(Contents(s)) = Len(s)
  <1> DEFINE f == [i \in 1..Len(s) |-> s[i]]
  <1>1. Len(s) \in Nat /\ 1 \in Int /\ Len(s) \in Int
    OBVIOUS
  <1>2. IsFiniteSet(1..Len(s)) /\ Cardinality(1..Len(s)) = IF 1 > Len(s) THEN 0 ELSE Len(s) - 1 + 1
    BY <1>1, FS_Interval
  <1>3. Cardinality(1..Len(s)) = Len(s)
    BY <1>1, <1>2
  <1>4. f \in Bijection(1..Len(s), Contents(s))
    BY DEF Bijection, Injection, Surjection, IsInjective, Contents, Distinct
  <1>5. QED
    BY <1>2, <1>3, <1>4, FS_Bijection DEF ExistsBijection

\* FlowDelivery counts with the same operator.
LEMMA SameCardinality == \A S : Delivery!Cardinality(S) = Cardinality(S)
  BY DEF Delivery!Cardinality, Cardinality

\* The places of the main thread while the process takes messages, and while it
\* ends.
Taking == {"loop", "poll", "push", "commit"}
Ending == {"closeRaw", "joinWorkers", "closeBulk", "joinSender"}

LEMMA ProcessFacts ==
    /\ main \in Taking => Process = "up" /\ Owed = handed \ sent /\ Settled = sent
    /\ main \in Ending => Process = "ending" /\ Owed = handed \ sent /\ Settled = sent
    /\ main = "exited" => Process = "ended" /\ Owed = handed \ sent /\ Settled = sent
    /\ main = "down" => Process = "down" /\ Owed = {} /\ Settled = {}
  BY DEF Taking, Ending, Process, Owed, Settled

LEMMA ProcessNext ==
    /\ main' \in Taking => Process' = "up" /\ Owed' = handed' \ sent' /\ Settled' = sent'
    /\ main' \in Ending => Process' = "ending" /\ Owed' = handed' \ sent' /\ Settled' = sent'
    /\ main' = "exited" => Process' = "ended" /\ Owed' = handed' \ sent' /\ Settled' = sent'
    /\ main' = "down" => Process' = "down" /\ Owed' = {} /\ Settled' = {}
  BY DEF Taking, Ending, Process, Owed, Settled

LEMMA MainPlaces == TypeOK => main \in Taking \cup Ending \cup {"exited", "down"}
  BY DEF TypeOK, Taking, Ending

\* What the process took is what it handed over.
LEMMA TakenFacts ==
    ASSUME TypeOK, PlaceInv, main # "down"
    PROVE  Delivery!Taken = handed /\ sent \subseteq handed
  <1>1. sent \subseteq handed
    BY DEF PlaceInv, Places
  <1>2. Owed = handed \ sent /\ Settled = sent
    BY DEF Owed, Settled
  <1>3. QED
    BY <1>1, <1>2 DEF Delivery!Taken

\* A step inside the pipeline.
LEMMA Inside ==
    ASSUME main' = main \/ (main \in Taking /\ main' \in Taking)
                        \/ (main \in Ending /\ main' \in Ending),
           UNCHANGED <<committed, handed, sent, copies>>
    PROVE  UNCHANGED Delivery!vars
  <1>1. Process' = Process /\ Owed' = Owed /\ Settled' = Settled
    <2>1. CASE main' = main
      BY <2>1 DEF Process, Owed, Settled
    <2>2. CASE main' # main
      BY <2>2, ProcessFacts, ProcessNext
    <2>3. QED
      BY <2>1, <2>2
  <1>2. QED
    BY <1>1 DEF Delivery!vars

LEMMA PushTakes == ASSUME IInv, PushRaw PROVE Delivery!Take(position) /\ position \in Offsets
  <1>1. /\ main = "push" /\ main' = "commit" /\ handed' = handed \cup {position}
        /\ UNCHANGED <<committed, sent, copies>>
    BY DEF PushRaw, mainFrame
  <1>2. /\ committed \in 0..MaxOffset /\ position \in 0..MaxOffset /\ handed \subseteq Offsets
        /\ committed < position /\ position \notin handed /\ \A k \in handed : k <= position
    BY <1>1 DEF IInv, TypeOK, ReadInv
  <1>3. Delivery!Taken = handed /\ sent \subseteq handed
    BY <1>1, TakenFacts DEF IInv
  <1>4. /\ Process = "up" /\ Process' = "up" /\ Owed = handed \ sent /\ Settled = sent
        /\ Owed' = handed' \ sent' /\ Settled' = sent'
    BY <1>1, ProcessFacts, ProcessNext DEF Taking
  <1>5. Owed' = Owed \cup {position}
    BY <1>1, <1>2, <1>3, <1>4
  <1>6. position > committed /\ \A k \in handed : position > k
    BY <1>2, ConstantsOK DEF Offsets
  <1>7. position \in Offsets
    BY <1>2 DEF Offsets
  <1>8. QED
    BY <1>1, <1>3, <1>4, <1>5, <1>6, <1>7 DEF Delivery!Take

LEMMA CommitCommits ==
    ASSUME IInv, CommitMessage
    PROVE  UNCHANGED Delivery!vars \/ (Delivery!Commit(position) /\ position \in Offsets)
  <1>1. /\ main = "commit" /\ main' = "loop" /\ UNCHANGED <<handed, sent, copies>>
        /\ committed' = committed \/ committed' = position
    BY DEF CommitMessage, mainFrame
  <1>2. position \in handed /\ handed \subseteq Offsets /\ \A k \in handed : k <= position
    BY <1>1 DEF IInv, TypeOK, ReadInv
  <1>3. Delivery!Taken = handed
    BY <1>1, TakenFacts DEF IInv
  <1>4. /\ Process = "up" /\ Process' = "up" /\ Owed' = Owed /\ Settled' = Settled
    BY <1>1, ProcessFacts, ProcessNext DEF Taking
  <1>5. CASE committed' = committed
    BY <1>1, <1>4, <1>5 DEF Delivery!vars
  <1>6. CASE committed' = position
    BY <1>1, <1>2, <1>3, <1>4, <1>6 DEF Delivery!Commit
  <1>7. QED
    BY <1>1, <1>5, <1>6

LEMMA LoopStops == ASSUME Loop PROVE UNCHANGED Delivery!vars \/ Delivery!Stop
  <1>1. /\ main = "loop" /\ main' \in {"poll", "closeRaw"}
        /\ UNCHANGED <<committed, handed, sent, copies>>
    BY DEF Loop, mainFrame
  <1>2. CASE main' = "poll"
    BY <1>1, <1>2, Inside DEF Taking
  <1>3. CASE main' = "closeRaw"
    <2>1. /\ Process = "up" /\ Process' = "ending" /\ Owed' = Owed /\ Settled' = Settled
      BY <1>1, <1>3, ProcessFacts, ProcessNext DEF Taking, Ending
    <2>2. QED
      BY <1>1, <2>1 DEF Delivery!Stop
  <1>4. QED
    BY <1>1, <1>2, <1>3

\* The sender uploads what is owed: a full batch, or all of it.
LEMMA BatchOwed ==
    ASSUME IInv, ~Down, state[Sender] \in {"sending", "sendingLast"}
    PROVE  Contents(batch) \in Delivery!Batches /\ Process \in {"up", "ending"}
           /\ Owed = handed \ sent /\ Settled = sent
  <1> DEFINE B == Contents(batch)
  <1>1. main \in Taking \cup Ending /\ main # "down"
    BY MainPlaces DEF IInv, Down
  <1>2. Process \in {"up", "ending"} /\ Owed = handed \ sent /\ Settled = sent
    BY <1>1, ProcessFacts
  <1>3. B \subseteq Owed
    BY <1>2 DEF IInv, PlaceInv, Places
  <1>4. batch \in Seq(Offsets) /\ Cardinality(B) = Len(batch)
    BY QueueTypes, BatchSize DEF IInv, PlaceInv
  <1>5. CASE state[Sender] = "sending"
    <2>1. Len(batch) = BulkSize
      BY <1>5 DEF IInv, BatchInv
    <2>2. Delivery!Cardinality(B) = BulkSize
      BY <1>4, <2>1, SameCardinality
    <2>3. QED
      BY <1>2, <1>3, <2>2 DEF Delivery!Batches
  <1>6. CASE state[Sender] = "sendingLast"
    <2>1. batch # <<>> /\ Len(batch) < BulkSize /\ closed["bulk"] /\ queue["bulk"] = <<>>
      BY <1>6 DEF IInv, BatchInv, ThreadInv
    <2>2. main \in Ending /\ \A w \in Workers : state[w] = "done"
      BY <1>1, <2>1 DEF IInv, MainInv, Ending, Taking
    <2>3. PICK w \in Workers : TRUE
      BY ConstantsOK
    <2>4. queue["raw"] = <<>> /\ InHand = {}
      BY <2>2, <2>3 DEF IInv, ThreadInv, InHand
    <2>5. Owed = B
      BY <1>2, <2>1, <2>4, EmptyFacts DEF IInv, PlaceInv, Places
    <2>6. B # {}
      <3>1. 1 \in 1..Len(batch)
        BY <1>4, <2>1
      <3>2. QED
        BY <3>1 DEF Contents
    <2>7. Process = "ending"
      BY <2>2, ProcessFacts
    <2>8. QED
      <3>1. Delivery!Cardinality(B) < BulkSize
        BY <1>4, <2>1, SameCardinality
      <3>2. QED
        BY <1>2, <2>5, <2>6, <2>7, <3>1 DEF Delivery!Batches
  <1>7. QED
    BY <1>5, <1>6

LEMMA SendUploads ==
    ASSUME IInv, Send
    PROVE  \E B \in Delivery!Batches : Delivery!Upload(B)
  <1> DEFINE B == Contents(batch)
  <1>1. PICK ok, applied \in BOOLEAN :
          /\ Post(ok, applied)
          /\ \/ LastPost(ok) /\ EndBatch
             \/ ~LastPost(ok) /\ node' = node + 1 /\ UNCHANGED <<state, batch, sent>>
    BY DEF Send
  <1>2. /\ ~Down /\ state[Sender] \in {"sending", "sendingLast"}
        /\ main' = main /\ committed' = committed /\ handed' = handed
    BY DEF Send, threadFrame, mainVars
  <1>3. /\ B \in Delivery!Batches /\ Process \in {"up", "ending"}
        /\ Owed = handed \ sent /\ Settled = sent
    BY <1>2, BatchOwed
  <1>4. /\ Process' = Process /\ Owed' = handed' \ sent' /\ Settled' = sent'
    BY <1>2 DEF Process, Owed, Settled, Down
  <1>5. copies' = copies \/ copies' = [m \in Offsets |-> IF m \in B THEN OneMore(copies[m]) ELSE copies[m]]
    <2>1. CASE applied
      BY <1>1, <2>1 DEF Post
    <2>2. CASE ~applied
      BY <1>1, <2>2 DEF Post, IInv, TypeOK
    <2>3. QED
      BY <2>1, <2>2
  <1>6. \/ UNCHANGED <<Owed, Settled>>
        \/ Owed' = Owed \ B /\ Settled' = Settled \cup B
    <2>1. CASE sent' = sent \cup B
      BY <1>2, <1>3, <1>4, <2>1
    <2>2. CASE sent' = sent
      BY <1>2, <1>3, <1>4, <2>2
    <2>3. QED
      BY <1>1, <2>1, <2>2 DEF EndBatch
  <1>7. Delivery!Upload(B)
    BY <1>2, <1>3, <1>4, <1>5, <1>6 DEF Delivery!Upload, Delivery!OneMore, OneMore
  <1>8. QED
    BY <1>3, <1>7

LEMMA JoinEnds == ASSUME IInv, IInv', JoinSender PROVE Delivery!End
  <1>1. /\ main = "joinSender" /\ main' = "exited"
        /\ UNCHANGED <<committed, handed, sent, copies>>
    BY DEF JoinSender, mainFrame
  <1>2. Drained'
    BY EndMeans, PTL DEF IInv
  <1>3. /\ Process = "ending" /\ Process' = "ended" /\ Owed = handed \ sent
        /\ Owed' = Owed /\ Settled' = Settled
    BY <1>1, ProcessFacts, ProcessNext DEF Ending
  <1>4. Owed = {}
    BY <1>1, <1>2, <1>3 DEF Drained
  <1>5. QED
    BY <1>1, <1>3, <1>4 DEF Delivery!End

LEMMA CrashKills == ASSUME IInv, Crash PROVE Delivery!Kill
  <1>1. ~Down /\ main' = "down" /\ UNCHANGED <<committed, copies>>
    BY DEF Crash
  <1>2. Process \in {"up", "ending"}
    BY <1>1, MainPlaces, ProcessFacts DEF IInv, Down
  <1>3. QED
    BY <1>1, <1>2, ProcessNext DEF Delivery!Kill

LEMMA RestartRestarts == ASSUME Restart PROVE Delivery!Restart
  <1>1. /\ Down /\ main' = "loop" /\ handed' = {} /\ sent' = {} /\ UNCHANGED <<committed, copies>>
    BY DEF Restart
  <1>2. Process \in {"ended", "down"}
    BY <1>1, ProcessFacts DEF Down
  <1>3. Process' = "up" /\ Owed' = {} /\ Settled' = {}
    BY <1>1, ProcessNext DEF Taking
  <1>4. QED
    BY <1>1, <1>2, <1>3 DEF Delivery!Restart

LEMMA StartDelivers == Init => Delivery!Init
  <1> SUFFICES ASSUME Init PROVE Delivery!Init
    OBVIOUS
  <1>1. main = "loop" /\ handed = {} /\ sent = {} /\ committed = 0 /\ copies = [m \in Offsets |-> 0]
    BY DEF Init
  <1>2. Process = "up" /\ Owed = {} /\ Settled = {}
    BY <1>1, ProcessFacts DEF Taking
  <1>3. QED
    BY <1>1, <1>2 DEF Delivery!Init

LEMMA NextDelivers == IInv /\ IInv' /\ [Next]_vars => [Delivery!Next]_(Delivery!vars)
  <1> SUFFICES ASSUME IInv, IInv', [Next]_vars PROVE Delivery!Next \/ UNCHANGED Delivery!vars
    OBVIOUS
  <1>1. CASE Loop
    BY <1>1, LoopStops DEF Delivery!Next
  <1>2. CASE PollNothing \/ PollMessage
    <2>1. main \in Taking /\ main' \in Taking /\ UNCHANGED <<committed, handed, sent, copies>>
      BY <1>2 DEF PollNothing, PollMessage, mainFrame, Taking
    <2>2. QED
      BY <2>1, Inside
  <1>3. CASE PushRaw
    BY <1>3, PushTakes DEF Delivery!Next
  <1>4. CASE CommitMessage
    BY <1>4, CommitCommits DEF Delivery!Next
  <1>5. CASE CloseRaw \/ JoinWorkers \/ CloseBulk
    <2>1. main \in Ending /\ main' \in Ending /\ UNCHANGED <<committed, handed, sent, copies>>
      BY <1>5 DEF CloseRaw, JoinWorkers, CloseBulk, mainFrame, Ending
    <2>2. QED
      BY <2>1, Inside
  <1>6. CASE JoinSender
    BY <1>6, JoinEnds DEF Delivery!Next
  <1>7. CASE Sigterm \/ UNCHANGED vars
    <2>1. main' = main /\ UNCHANGED <<committed, handed, sent, copies>>
      BY <1>7 DEF Sigterm, mainFrame, vars, mainVars
    <2>2. QED
      BY <2>1, Inside
  <1>8. ASSUME NEW w \in Workers, WorkerPop(w) \/ WorkerPush(w) PROVE UNCHANGED Delivery!vars
    <2>1. main' = main /\ UNCHANGED <<committed, handed, sent, copies>>
      BY <1>8 DEF WorkerPop, WorkerPush, threadFrame, mainVars
    <2>2. QED
      BY <2>1, Inside
  <1>9. ASSUME NEW t \in Threads, SpuriousWakeup(t) PROVE UNCHANGED Delivery!vars
    <2>1. main' = main /\ UNCHANGED <<committed, handed, sent, copies>>
      BY <1>9 DEF SpuriousWakeup, threadFrame, mainVars
    <2>2. QED
      BY <2>1, Inside
  <1>10. CASE SenderPop
    <2>1. main' = main /\ UNCHANGED <<committed, handed, sent, copies>>
      BY <1>10 DEF SenderPop, threadFrame, mainVars
    <2>2. QED
      BY <2>1, Inside
  <1>11. CASE Send
    BY <1>11, SendUploads DEF Delivery!Next
  <1>12. CASE Crash
    BY <1>12, CrashKills DEF Delivery!Next
  <1>13. CASE Restart
    BY <1>13, RestartRestarts DEF Delivery!Next
  <1>14. QED
    BY <1>1, <1>2, <1>3, <1>4, <1>5, <1>6, <1>7, <1>8, <1>9, <1>10, <1>11, <1>12, <1>13 DEF Next

\* Whatever the threads do, the consumer takes each message once and in order,
\* uploads what it owes in full batches until SIGTERM and the rest in one, and
\* ends owing nothing (main.c:196-256, worker.c:63-94).
THEOREM PipelineDelivers == Spec => ImplementsDelivery
  BY StartDelivers, NextDelivers, InvariantInit, InvariantStep, PTL
     DEF Spec, ImplementsDelivery, Delivery!Spec
=============================================================================
