---------------------------- MODULE FlowDelivery ----------------------------
(***************************************************************************)
(* What the NetFlow consumer promises of the messages of its topic,        *)
(* whatever queues, threads and hands they pass through: it takes them in  *)
(* the order of the topic, and commits the last it took; it uploads a      *)
(* message only while it owes it, in full batches until it is told to stop;*)
(* it repeats a batch until it is done with it; and it ends owing nothing. *)
(* A process that is killed forgets what it owes, committed or not.        *)
(***************************************************************************)
EXTENDS Naturals, FiniteSets

CONSTANTS
    Offsets,              \* the messages of the topic
    BulkSize              \* messages in a full batch

VARIABLES
    process,              \* "up", "ending" (told to stop), "ended" or "down" (killed)
    committed,            \* the last message committed
    owed, done,           \* what the process took and owes, and what it is done with
    copies                \* copies of each message in the index (2 stands for more)

vars == <<process, committed, owed, done, copies>>

Taken == owed \cup done

Init ==
    /\ process = "up"
    /\ committed = 0
    /\ owed = {} /\ done = {}
    /\ copies = [m \in Offsets |-> 0]

\* Only what is beyond the commit and beyond all it took.
Take(m) ==
    /\ process = "up"
    /\ m > committed /\ \A k \in Taken : m > k
    /\ owed' = owed \cup {m}
    /\ UNCHANGED <<process, committed, done, copies>>

Commit(m) ==
    /\ process = "up"
    /\ m \in Taken /\ \A k \in Taken : k <= m
    /\ committed' = m
    /\ UNCHANGED <<process, owed, done, copies>>

Stop ==
    /\ process = "up"
    /\ process' = "ending"
    /\ UNCHANGED <<committed, owed, done, copies>>

\* The last batch of an ending process is all it still owes.
Batches ==
    {B \in SUBSET owed : Cardinality(B) = BulkSize}
        \cup (IF process = "ending" /\ owed # {} /\ Cardinality(owed) < BulkSize THEN {owed} ELSE {})

OneMore(c) == IF c < 2 THEN c + 1 ELSE 2

\* One request, that the index applies or not.  The process is done with the
\* batch, or tries again.
Upload(B) ==
    /\ process \in {"up", "ending"}
    /\ \/ UNCHANGED copies
       \/ copies' = [m \in Offsets |-> IF m \in B THEN OneMore(copies[m]) ELSE copies[m]]
    /\ \/ UNCHANGED <<owed, done>>
       \/ owed' = owed \ B /\ done' = done \cup B
    /\ UNCHANGED <<process, committed>>

End ==
    /\ process = "ending" /\ owed = {}
    /\ process' = "ended"
    /\ UNCHANGED <<committed, owed, done, copies>>

Kill ==
    /\ process \in {"up", "ending"}
    /\ process' = "down"
    /\ owed' = {} /\ done' = {}
    /\ UNCHANGED <<committed, copies>>

Restart ==
    /\ process \in {"ended", "down"}
    /\ process' = "up"
    /\ owed' = {} /\ done' = {}
    /\ UNCHANGED <<committed, copies>>

Next ==
    \/ \E m \in Offsets : Take(m) \/ Commit(m)
    \/ Stop
    \/ \E B \in Batches : Upload(B)
    \/ End
    \/ Kill
    \/ Restart

Spec == Init /\ [][Next]_vars
=============================================================================
