---------------------------- MODULE FlowPipeline ----------------------------
(***************************************************************************)
(* The NetFlow consumer, src/netflow/consumer/{main,queue,worker,          *)
(* opensearch}.c: the main thread moves Kafka messages into raw_queue and  *)
(* commits them, WORKER_COUNT workers move them from raw_queue to          *)
(* bulk_queue, one sender collects BULK_SIZE of them and uploads the batch.*)
(* SIGTERM ends the main loop, which closes and drains the queues.         *)
(*                                                                         *)
(* A message is its Kafka offset.  A queue operation is one step, because  *)
(* it holds the queue's mutex; a thread in pthread_cond_wait is waiting    *)
(* until it is signalled, or wakes up for no reason.                       *)
(***************************************************************************)
EXTENDS Naturals, Sequences

CONSTANTS
    Workers, Sender,      \* the worker threads and the bulk sender thread
    BulkSize,             \* BULK_SIZE
    Nodes,                \* OPENSEARCH_NODE_COUNT
    MaxOffset, MaxCrashes \* bounds of the model

ASSUME ConstantsOK ==
    /\ Workers # {} /\ Sender \notin Workers
    /\ BulkSize \in Nat \ {0} /\ Nodes \in Nat \ {0}
    /\ MaxOffset \in Nat /\ MaxCrashes \in Nat

Offsets == 1..MaxOffset
Threads == Workers \cup {Sender}
Queues == {"raw", "bulk"}
Source(t) == IF t = Sender THEN "bulk" ELSE "raw"

VARIABLES
    committed,            \* Kafka: the last offset committed
    main, position,       \* the main thread: program counter, last offset read
    keepRunning,          \* keep_running
    queue, closed,        \* raw_queue and bulk_queue
    state, held,          \* what each thread does; the message a worker holds, or 0
    batch, node,          \* the sender's batch; the node it tries next
    copies,               \* OpenSearch: copies of each message (2 stands for more)
    crashes,              \* counts crashes, for the bound
    handed, sent,         \* history: messages this process queued, and uploaded or gave up
    repeated              \* history: read twice, or uploaded by an attempt reported failed

mainVars == <<main, position, keepRunning>>
queueVars == <<queue, closed>>
threadVars == <<state, held, batch, node>>
vars == <<committed, mainVars, queueVars, threadVars, copies, crashes, handed, sent, repeated>>

Contents(s) == {s[i] : i \in 1..Len(s)}

Down == main \in {"down", "exited"}

-----------------------------------------------------------------------------
(* Queues (queue.c).                                                       *)

Waiters(q) == {t \in Threads : Source(t) = q /\ state[t] = "waiting"}

\* pthread_cond_signal wakes one waiter, if there is one.
Signal(q, st) ==
    IF Waiters(q) = {} THEN {st}
    ELSE {[st EXCEPT ![t] = "popping"] : t \in Waiters(q)}

\* pthread_cond_broadcast wakes them all.
Broadcast(q) == {[t \in Threads |-> IF t \in Waiters(q) THEN "popping" ELSE state[t]]}

\* Mutant: the push does not signal.
QueuePushSilent(q, m, st) ==
    /\ queue' = IF closed[q] THEN queue ELSE [queue EXCEPT ![q] = Append(@, m)]
    /\ state' = st

\* st is the thread states the pushing thread leaves.  A closed queue drops the
\* message.
QueuePush(q, m, st) ==
    \/ closed[q] /\ state' = st /\ UNCHANGED queue
    \/ /\ ~closed[q]
       /\ queue' = [queue EXCEPT ![q] = Append(@, m)]
       /\ state' \in Signal(q, st)

\* Mutant: pthread_cond_signal where the code has pthread_cond_broadcast.
QueueCloseSignal(q) ==
    /\ closed' = [closed EXCEPT ![q] = TRUE]
    /\ state' \in Signal(q, state)

QueueClose(q) ==
    /\ closed' = [closed EXCEPT ![q] = TRUE]
    /\ state' \in Broadcast(q)

\* What queue_pop does when it holds the mutex and finds nothing.
PopNothing(t, atEnd) ==
    /\ queue[Source(t)] = <<>>
    /\ state' = [state EXCEPT ![t] = IF closed[Source(t)] THEN atEnd ELSE "waiting"]

-----------------------------------------------------------------------------
(* The main thread (main.c).                                               *)

mainFrame == UNCHANGED <<held, batch, node, copies, crashes, sent>>

Loop ==
    /\ main = "loop"
    /\ main' = IF keepRunning THEN "poll" ELSE "closeRaw"
    /\ UNCHANGED <<committed, position, keepRunning, queueVars, state, handed, repeated>> /\ mainFrame

\* No message within a second, or a Kafka error.
PollNothing ==
    /\ main = "poll"
    /\ main' = "loop"
    /\ UNCHANGED <<committed, position, keepRunning, queueVars, state, handed, repeated>> /\ mainFrame

\* The message is copied; when malloc fails it is dropped.
PollMessage ==
    /\ main = "poll" /\ position < MaxOffset
    /\ position' = position + 1
    /\ main' \in {"push", "loop"}
    /\ UNCHANGED <<committed, keepRunning, queueVars, state, handed, repeated>> /\ mainFrame

PushRaw ==
    /\ main = "push"
    /\ main' = "commit"
    /\ QueuePush("raw", position, state)
    /\ handed' = handed \cup {position}
    /\ UNCHANGED <<committed, position, keepRunning, closed, repeated>> /\ mainFrame

\* The outcome of the commit is not looked at.
CommitMessage ==
    /\ main = "commit"
    /\ main' = "loop"
    /\ committed' \in {committed, position}
    /\ UNCHANGED <<position, keepRunning, queueVars, state, handed, repeated>> /\ mainFrame

CloseRaw ==
    /\ main = "closeRaw"
    /\ main' = "joinWorkers"
    /\ QueueClose("raw")
    /\ UNCHANGED <<committed, position, keepRunning, queue, handed, repeated>> /\ mainFrame

\* Mutant: bulk_queue is closed before the workers are joined.
JoinNobody ==
    /\ main = "joinWorkers"
    /\ main' = "closeBulk"
    /\ UNCHANGED <<committed, position, keepRunning, queueVars, state, handed, repeated>> /\ mainFrame

JoinWorkers ==
    /\ main = "joinWorkers" /\ \A w \in Workers : state[w] = "done"
    /\ main' = "closeBulk"
    /\ UNCHANGED <<committed, position, keepRunning, queueVars, state, handed, repeated>> /\ mainFrame

CloseBulk ==
    /\ main = "closeBulk"
    /\ main' = "joinSender"
    /\ QueueClose("bulk")
    /\ UNCHANGED <<committed, position, keepRunning, queue, handed, repeated>> /\ mainFrame

JoinSender ==
    /\ main = "joinSender" /\ state[Sender] = "done"
    /\ main' = "exited"
    /\ UNCHANGED <<committed, position, keepRunning, queueVars, state, handed, repeated>> /\ mainFrame

Sigterm ==
    /\ ~Down /\ keepRunning
    /\ keepRunning' = FALSE
    /\ UNCHANGED <<committed, main, position, queueVars, state, handed, repeated>> /\ mainFrame

-----------------------------------------------------------------------------
(* The workers and the sender (worker.c).                                  *)

threadFrame == UNCHANGED <<committed, mainVars, closed, crashes, handed>>

WorkerPop(w) ==
    /\ ~Down /\ state[w] = "popping"
    /\ \/ PopNothing(w, "done") /\ UNCHANGED <<queue, held>>
       \/ /\ queue["raw"] # <<>>
          /\ held' = [held EXCEPT ![w] = Head(queue["raw"])]
          /\ queue' = [queue EXCEPT !["raw"] = Tail(@)]
          /\ state' = [state EXCEPT ![w] = "pushing"]
    /\ UNCHANGED <<batch, node, copies, sent, repeated>> /\ threadFrame

\* The message goes on as it came, whether it parses or not.
WorkerPush(w) ==
    /\ ~Down /\ state[w] = "pushing"
    /\ QueuePush("bulk", held[w], [state EXCEPT ![w] = "popping"])
    /\ held' = [held EXCEPT ![w] = 0]
    /\ UNCHANGED <<batch, node, copies, sent, repeated>> /\ threadFrame

Full(n) == n >= BulkSize

SenderPop ==
    /\ ~Down /\ state[Sender] = "popping"
    /\ \/ /\ PopNothing(Sender, IF batch = <<>> THEN "done" ELSE "sendingLast")
          /\ UNCHANGED <<queue, batch>>
       \/ /\ queue["bulk"] # <<>>
          /\ batch' = Append(batch, Head(queue["bulk"]))
          /\ queue' = [queue EXCEPT !["bulk"] = Tail(@)]
          /\ state' = [state EXCEPT ![Sender] =
                          IF Full(Len(batch) + 1) THEN "sending" ELSE "popping"]
    /\ UNCHANGED <<held, node, copies, sent, repeated>> /\ threadFrame

OneMore(n) == IF n < 2 THEN n + 1 ELSE 2

\* One POST of the batch: copies and repeated after it.  A POST reported as
\* failed may have been applied; one that got an answer may have been refused.
Post(ok, applied) ==
    /\ copies' = [m \in Offsets |-> IF applied /\ m \in Contents(batch)
                                    THEN OneMore(copies[m]) ELSE copies[m]]
    /\ repeated' = IF applied /\ ~ok THEN repeated \cup Contents(batch) ELSE repeated

\* Mutant: the nodes after the one that took the batch get it too.
LastPostOfAll(ok) == node = Nodes

\* Mutant: the loop over the nodes runs once too often.
LastPostLate(ok) == ok \/ node > Nodes

LastPost(ok) == ok \/ node = Nodes

\* Mutant: the count is not reset.
EndBatchKept ==
    /\ node' = 1
    /\ sent' = sent \cup Contents(batch)
    /\ UNCHANGED batch
    /\ state' = [state EXCEPT ![Sender] = IF @ = "sendingLast" THEN "done" ELSE "popping"]

EndBatch ==
    /\ node' = 1
    /\ sent' = sent \cup Contents(batch)
    /\ batch' = <<>>
    /\ state' = [state EXCEPT ![Sender] = IF @ = "sendingLast" THEN "done" ELSE "popping"]

Send ==
    /\ ~Down /\ state[Sender] \in {"sending", "sendingLast"}
    /\ \E ok, applied \in BOOLEAN :
          /\ Post(ok, applied)
          /\ \/ LastPost(ok) /\ EndBatch
             \/ ~LastPost(ok) /\ node' = node + 1 /\ UNCHANGED <<state, batch, sent>>
    /\ UNCHANGED <<queue, held>> /\ threadFrame

SpuriousWakeup(t) ==
    /\ ~Down /\ state[t] = "waiting"
    /\ state' = [state EXCEPT ![t] = "popping"]
    /\ UNCHANGED <<queue, held, batch, node, copies, sent, repeated>> /\ threadFrame

-----------------------------------------------------------------------------

Crash ==
    /\ ~Down /\ crashes < MaxCrashes
    /\ main' = "down"
    /\ crashes' = crashes + 1
    /\ UNCHANGED <<committed, position, keepRunning, queueVars, threadVars,
                   copies, handed, sent, repeated>>

\* A new process: what the old one had queued is gone.
Restart ==
    /\ Down
    /\ main' = "loop" /\ position' = committed /\ keepRunning' = TRUE
    /\ queue' = [q \in Queues |-> <<>>] /\ closed' = [q \in Queues |-> FALSE]
    /\ state' = [t \in Threads |-> "popping"] /\ held' = [w \in Workers |-> 0]
    /\ batch' = <<>> /\ node' = 1
    /\ handed' = {} /\ sent' = {}
    /\ repeated' = repeated \cup (handed \ 1..committed)
    /\ UNCHANGED <<committed, copies, crashes>>

Init ==
    /\ committed = 0
    /\ main = "loop" /\ position = 0 /\ keepRunning = TRUE
    /\ queue = [q \in Queues |-> <<>>] /\ closed = [q \in Queues |-> FALSE]
    /\ state = [t \in Threads |-> "popping"] /\ held = [w \in Workers |-> 0]
    /\ batch = <<>> /\ node = 1
    /\ copies = [m \in Offsets |-> 0]
    /\ crashes = 0
    /\ handed = {} /\ sent = {} /\ repeated = {}

MainThread ==
    \/ Loop \/ PollNothing \/ PollMessage \/ PushRaw \/ CommitMessage
    \/ CloseRaw \/ JoinWorkers \/ CloseBulk \/ JoinSender

Worker(w) == WorkerPop(w) \/ WorkerPush(w)

SenderThread == SenderPop \/ Send

Next ==
    \/ Loop
    \/ PollNothing
    \/ PollMessage
    \/ PushRaw
    \/ CommitMessage
    \/ CloseRaw
    \/ JoinWorkers
    \/ CloseBulk
    \/ JoinSender
    \/ Sigterm
    \/ \E w \in Workers : WorkerPop(w)
    \/ \E w \in Workers : WorkerPush(w)
    \/ SenderPop
    \/ Send
    \/ \E t \in Threads : SpuriousWakeup(t)
    \/ Crash
    \/ Restart

\* Every thread is scheduled; no signal, wake-up, crash or restart is owed.
Fairness ==
    /\ WF_vars(MainThread) /\ WF_vars(SenderThread)
    /\ \A w \in Workers : WF_vars(Worker(w))

Spec == Init /\ [][Next]_vars /\ Fairness

-----------------------------------------------------------------------------
(* Properties.                                                             *)

\* Every variable stays in its type; the batch fits its array (worker.c:66).
TypeOK ==
    /\ committed \in 0..MaxOffset /\ position \in 0..MaxOffset
    /\ main \in {"loop", "poll", "push", "commit", "closeRaw", "joinWorkers",
                 "closeBulk", "joinSender", "exited", "down"}
    /\ keepRunning \in BOOLEAN
    /\ queue \in [Queues -> Seq(Offsets)] /\ closed \in [Queues -> BOOLEAN]
    /\ state \in [Threads -> {"popping", "waiting", "pushing", "sending", "sendingLast", "done"}]
    /\ held \in [Workers -> 0..MaxOffset]
    /\ batch \in Seq(Offsets) /\ Len(batch) <= BulkSize /\ node \in 1..Nodes
    /\ copies \in [Offsets -> 0..2] /\ crashes \in Nat
    /\ handed \subseteq Offsets /\ sent \subseteq Offsets /\ repeated \subseteq Offsets

InHand == {held[w] : w \in Workers} \ {0}

\* Every message this process queued is uploaded or still on its way, in one
\* place only (queue.c, worker.c): no thread drops it or takes it twice.
OnePlace ==
    LET line == queue["raw"] \o queue["bulk"] \o batch IN
    /\ handed = Contents(line) \cup InHand \cup sent
    /\ \A i, j \in 1..Len(line) : line[i] = line[j] => i = j
    /\ \A v, w \in Workers : held[v] = held[w] /\ held[v] # 0 => v = w
    /\ Contents(line) \cap InHand = {}
    /\ sent \cap (Contents(line) \cup InHand) = {}

\* A queue that holds a message has a thread that will take it, and a closed
\* one no sleeper (queue.c:31, 38, 63): no wake-up is lost.
NoSleepOverWork ==
    \A q \in Queues :
        /\ queue[q] # <<>> =>
              \E t \in Threads : Source(t) = q /\ state[t] \notin {"waiting", "done"}
        /\ closed[q] => Waiters(q) = {}

\* A process that ends by itself has uploaded, or given up after every node,
\* each message it queued (main.c:243-250).
Drained == main = "exited" => sent = handed

\* OpenSearch holds a message twice only if it was read twice or a POST reported
\* as failed was applied (opensearch.c:138-157).
NoDuplicates == \A m \in Offsets : copies[m] > 1 => m \in repeated

\* What of this the topic and OpenSearch see: the refinement of FlowDelivery.
Process ==
    CASE main = "down" -> "down"
      [] main = "exited" -> "ended"
      [] main \in {"closeRaw", "joinWorkers", "closeBulk", "joinSender"} -> "ending"
      [] main \in {"loop", "poll", "push", "commit"} -> "up"

Owed == IF main = "down" THEN {} ELSE handed \ sent
Settled == IF main = "down" THEN {} ELSE sent

Delivery == INSTANCE FlowDelivery WITH process <- Process, owed <- Owed, done <- Settled

\* The consumer takes messages in order, uploads what it owes in full batches
\* until SIGTERM, the rest in one, and ends owing nothing (main.c:196-256,
\* worker.c:63-94).
ImplementsDelivery == Delivery!Spec

\* SIGTERM ends the process: the threads are woken, drain the queues and end
\* (main.c:240-256).
ShutdownEnds == ~keepRunning ~> Down
=============================================================================
