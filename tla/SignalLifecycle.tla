--------------------------- MODULE SignalLifecycle ---------------------------
(***************************************************************************)
(* What the signal service promises of one alarm ("signal"): the states an *)
(* identifier may pass through, whatever table, cache or index holds it.   *)
(*                                                                         *)
(*   none -> warmUp -> open -> coolDown -> away                            *)
(*                                                                         *)
(* "away" is an identifier the running process does not hold: it was       *)
(* retired, or the process is down.  A restart may bring some of them back,*)
(* but only as warmUp or open.  The identifiers in Foreign are raised by   *)
(* another process: they are away until a restart brings them in.          *)
(***************************************************************************)
CONSTANTS Ids, Foreign

VARIABLE state

Live == {"warmUp", "open", "coolDown"}

TypeOK == state \in [Ids -> Live \cup {"none", "away"}]

Init == state = [x \in Ids |-> IF x \in Foreign THEN "away" ELSE "none"]

Move(x, from, to) ==
    /\ state[x] \in from
    /\ state' = [state EXCEPT ![x] = to]

Raise(x)   == Move(x, {"none"}, "warmUp")
Confirm(x) == Move(x, {"warmUp"}, "open")
Clear(x)   == Move(x, Live, "coolDown")
Retire(x)  == Move(x, {"coolDown"}, "away")

Outage ==
    state' = [x \in Ids |-> IF state[x] \in Live THEN "away" ELSE state[x]]

\* A restart only acts on a process that holds nothing.
Recover ==
    /\ \A x \in Ids : state[x] \notin Live
    /\ \E back \in SUBSET {x \in Ids : state[x] = "away"} :
          \E as \in [back -> {"warmUp", "open"}] :
             state' = [x \in Ids |-> IF x \in back THEN as[x] ELSE state[x]]

Next ==
    \/ \E x \in Ids : Raise(x) \/ Confirm(x) \/ Clear(x) \/ Retire(x)
    \/ Outage
    \/ Recover

Spec == Init /\ [][Next]_state
=============================================================================
