--------------------------- MODULE InterfaceTable ---------------------------
(***************************************************************************)
(* InterfaceStatistics: the interfaces of the selected device.  A snapshot *)
(* of two requests, answered together, and two websockets feed one list;   *)
(* each request is read by the backend at a time of its own, and a         *)
(* websocket hears only what is reported while it is open.                 *)
(***************************************************************************)
EXTENDS Naturals, Sequences, SequencesExt

CONSTANTS Hosts, Interfaces, NoDevice,
          MaxEvents    \* bound: devices chosen, reports, connections lost

ASSUME InterfaceTableAssumption == NoDevice \notin Hosts /\ MaxEvents \in Nat

VARIABLES
  host,       \* selectedDevice.hostname, NoDevice when the table is not there
  rows,       \* interfaces: a function from names to [oper, stats]
  loading,    \* interfacesLoading
  error,      \* an error is shown
  fetches,    \* fetchInterfaces in flight: [host, read, cancelled]
  sockets,    \* of each metric: "closed", "connecting", "open"
  wire,       \* what each socket has yet to deliver
  telemetry,  \* what the backend knows, by host, metric and interface
  events,     \* bound
  overtaken,  \* pushes delivered since the snapshot was read that differ from it
  missed      \* <<interface, metric>> whose last report the table was not told

tableVars == <<host, rows, loading, error, fetches, sockets, wire, overtaken,
               missed>>
vars == <<tableVars, telemetry, events>>

Metrics == {"oper", "stats"}

\* if-oper-state-ready, if-oper-state-no-pass and the other six states.
Readings(m) == IF m = "oper" THEN {"ready", "no-pass", "other"} ELSE {"idle", "busy"}
Nothing == "nothing"
\* What a request brings: a reading of each interface, or one of these.
EmptyAnswer == [i \in Interfaces |-> Nothing]
Unread      == [i \in Interfaces |-> "unread"]
Failed      == [i \in Interfaces |-> "failed"]

\* Mutant: the state as it is reported.
NormalizedNot(m, reading) ==
  IF reading = Nothing THEN (IF m = "oper" THEN "null" ELSE "0") ELSE reading

\* normalizeOperInterface, normalizeStatsInterface.
Normalized(m, reading) ==
  IF m = "oper"
  THEN CASE reading = "ready"               -> "UP"
         [] reading = "no-pass"             -> "DOWN"
         [] reading \notin {"ready", "no-pass"} -> "null"
  ELSE IF reading = Nothing THEN "0" ELSE reading

NewRow == [oper |-> "null", stats |-> "0"]

Value(answer) == IF answer = Failed THEN EmptyAnswer ELSE answer

\* mergeInitialInterfaceData.
Merged(read) ==
  LET named == {i \in Interfaces : \E m \in Metrics : Value(read[m])[i] # Nothing}
  IN [i \in named |-> [m \in Metrics |-> Normalized(m, Value(read[m])[i])]]

\* updateInterface.
Updated(i, m, value) ==
  [j \in DOMAIN rows \union {i} |->
     LET row == IF j \in DOMAIN rows THEN rows[j] ELSE NewRow
     IN IF j = i THEN [row EXCEPT ![m] = value] ELSE row]

Event == events < MaxEvents /\ events' = events + 1

Current == {k \in DOMAIN fetches : ~fetches[k].cancelled}
IsRead(k, m) == fetches[k].read[m] # Unread

-----------------------------------------------------------------------------
(* The component.  Any device may be chosen, or none: see DevicePage. *)

Init ==
  /\ host = NoDevice /\ rows = << >> /\ loading = FALSE /\ error = FALSE
  /\ fetches = << >> /\ sockets = [m \in Metrics |-> "closed"]
  /\ wire = [m \in Metrics |-> << >>]
  /\ overtaken = {} /\ missed = {}
  /\ telemetry = [h \in Hosts |-> [m \in Metrics |-> EmptyAnswer]] /\ events = 0

\* The effects on hostname: the fetch before is cancelled and its answers are
\* ignored; the list stays until the new one comes.  A table that leaves the
\* screen forgets everything.
ShowDevice(h) ==
  /\ Event
  /\ h # host /\ host' = h
  /\ rows' = IF NoDevice \in {h, host} THEN << >> ELSE rows
  /\ loading' = (h # NoDevice)
  /\ error' = FALSE
  /\ fetches' = [k \in DOMAIN fetches |-> [fetches[k] EXCEPT !.cancelled = TRUE]]
                \o IF h = NoDevice THEN << >>
                   ELSE <<[host |-> h, read |-> [m \in Metrics |-> Unread],
                           cancelled |-> FALSE]>>
  /\ sockets' = [m \in Metrics |-> IF h = NoDevice THEN "closed" ELSE "connecting"]
  /\ wire' = [m \in Metrics |-> << >>]
  /\ overtaken' = {} /\ missed' = {}
  /\ UNCHANGED telemetry

\* The backend reads one of the two requests, or it fails.
ServeRequest(k, m) ==
  /\ ~IsRead(k, m)
  /\ \E answer \in {telemetry[fetches[k].host][m], Failed} :
       fetches' = [fetches EXCEPT ![k].read[m] = answer]
  /\ missed' = IF k \in Current THEN missed \ (Interfaces \X {m}) ELSE missed
  /\ UNCHANGED <<host, rows, loading, error, sockets, wire, overtaken, telemetry, events>>

\* Mutant: what allSettled brings is used although the effect was cleaned up.
SettleUncancelled(k) ==
  /\ \A m \in Metrics : IsRead(k, m)
  /\ fetches' = RemoveAt(fetches, k)
  /\ rows' = Merged(fetches[k].read)
  /\ loading' = FALSE
  /\ error' = (\E m \in Metrics : fetches[k].read[m] = Failed)
  /\ missed' = missed \union overtaken
                \union {im \in Interfaces \X Metrics : fetches[k].read[im[2]] = Failed}
  /\ overtaken' = {}
  /\ UNCHANGED <<host, sockets, wire, telemetry, events>>

\* Promise.allSettled: a request that failed counts as an empty answer.
Settle(k) ==
  /\ \A m \in Metrics : IsRead(k, m)
  /\ fetches' = RemoveAt(fetches, k)
  /\ IF fetches[k].cancelled THEN UNCHANGED <<rows, loading, error, overtaken, missed>>
     ELSE /\ rows' = Merged(fetches[k].read)
          /\ loading' = FALSE
          /\ error' = (\E m \in Metrics : fetches[k].read[m] = Failed)
          /\ missed' = missed \union overtaken
               \union {im \in Interfaces \X Metrics : fetches[k].read[im[2]] = Failed}
          /\ overtaken' = {}
  /\ UNCHANGED <<host, sockets, wire, telemetry, events>>

OpenSocket(m) ==
  /\ sockets[m] = "connecting"
  /\ sockets' = [sockets EXCEPT ![m] = "open"]
  /\ UNCHANGED <<host, rows, loading, error, fetches, wire, overtaken, missed,
                 telemetry, events>>

\* The connection is lost: onclose only logs.
LoseSocket(m) ==
  /\ Event
  /\ sockets[m] # "closed"
  /\ sockets' = [sockets EXCEPT ![m] = "closed"]
  /\ wire' = [wire EXCEPT ![m] = << >>]
  /\ missed' = missed \union {<<wire[m][n].interface, m>> : n \in DOMAIN wire[m]}
  /\ UNCHANGED <<host, rows, loading, error, fetches, overtaken, telemetry>>

\* onmessage of /ws/iface-oper drops a state that is neither ready nor no-pass.
OperRows(i, reading) ==
  IF Normalized("oper", reading) = "null" THEN rows
  ELSE Updated(i, "oper", Normalized("oper", reading))

\* onmessage of /ws/iface-stats.
StatsRows(i, reading) == Updated(i, "stats", Normalized("stats", reading))

Deliver(m) ==
  /\ wire[m] # << >>
  /\ wire' = [wire EXCEPT ![m] = Tail(@)]
  /\ LET message == Head(wire[m])
         i == message.interface
         dropped == Normalized(m, message.reading) = "null"
         past == \E k \in Current :
                   /\ fetches[k].read[m] \notin {Unread, Failed}
                   /\ fetches[k].read[m][i] # message.reading
     IN /\ rows' = IF m = "oper" THEN OperRows(i, message.reading)
                   ELSE StatsRows(i, message.reading)
        /\ missed' = IF dropped THEN missed \union {<<i, m>>}
                     ELSE missed \ {<<i, m>>}
        /\ overtaken' = IF past THEN overtaken \union {<<i, m>>}
                        ELSE overtaken \ {<<i, m>>}
  /\ UNCHANGED <<host, loading, error, fetches, sockets, telemetry, events>>

\* A device reports: the backend stores it and tells the open socket.
Report(h, m, i, reading) ==
  /\ Event
  /\ telemetry[h][m][i] # reading
  /\ telemetry' = [telemetry EXCEPT ![h][m][i] = reading]
  /\ wire' = IF h = host /\ sockets[m] = "open"
             THEN [wire EXCEPT ![m] = Append(@, [interface |-> i, reading |-> reading])]
             ELSE wire
  /\ missed' = IF h = host /\ sockets[m] # "open" THEN missed \union {<<i, m>>}
               ELSE missed
  /\ UNCHANGED <<host, rows, loading, error, fetches, sockets, overtaken>>

Next ==
  \/ \E h \in Hosts \union {NoDevice} : ShowDevice(h)
  \/ \E m \in Metrics : OpenSocket(m) \/ LoseSocket(m) \/ Deliver(m)
  \/ \E k \in DOMAIN fetches : Settle(k) \/ \E m \in Metrics : ServeRequest(k, m)
  \/ \E h \in Hosts, m \in Metrics, i \in Interfaces :
       \E reading \in Readings(m) : Report(h, m, i, reading)

Spec == Init /\ [][Next]_vars

-----------------------------------------------------------------------------
(* What it promises. *)

TypeOK ==
  /\ host \in Hosts \union {NoDevice}
  /\ DOMAIN rows \subseteq Interfaces
  /\ \A i \in DOMAIN rows : rows[i].oper \in {"UP", "DOWN", "null"}
                           /\ rows[i].stats \in Readings("stats") \union {"0"}
  /\ loading \in BOOLEAN /\ error \in BOOLEAN
  /\ sockets \in [Metrics -> {"closed", "connecting", "open"}]
  /\ \A m \in Metrics : \A n \in 1..Len(wire[m]) :
       wire[m][n] \in [interface : Interfaces, reading : Readings(m)]
  /\ overtaken \subseteq Interfaces \X Metrics
  /\ missed \subseteq Interfaces \X Metrics
  /\ events \in 0..MaxEvents

\* What is drawn of an interface, be it in the list or not.
DrawnOf(i, m) == IF i \in DOMAIN rows THEN rows[i][m] ELSE NewRow[m]

\* Once the snapshot is there and nothing is on the wire, the table shows the
\* last report of every interface of the selected device - unless the table
\* was not told of it: reported while its socket was not open, in a state the
\* socket's handler drops, or overwritten by a snapshot read before it - or
\* its request failed (fetchInterfaces and the two onmessage).
DrawnIsCurrent ==
  host # NoDevice /\ ~loading /\ (\A m \in Metrics : wire[m] = << >>) =>
    \A i \in Interfaces, m \in Metrics :
      \/ DrawnOf(i, m) = Normalized(m, telemetry[host][m][i])
      \/ <<i, m>> \in missed
=============================================================================
