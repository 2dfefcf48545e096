------------------------- MODULE InterfaceTableProofs -------------------------
(***************************************************************************)
(* What InterfaceTable promises, for any hosts, interfaces and number of   *)
(* events.                                                                 *)
(***************************************************************************)
EXTENDS InterfaceTable, SequenceTheorems, TLAPS

AllReadings == {"ready", "no-pass", "other", "idle", "busy", "nothing", "unread", "failed"}
AllAnswers  == [Interfaces -> AllReadings]
Answers(m)  == {a \in AllAnswers : \A i \in Interfaces : a[i] \in Readings(m) \union {Nothing}}
Messages    == [interface : Interfaces, reading : AllReadings]
Requests == {r \in [host : Hosts, read : [Metrics -> AllAnswers], cancelled : BOOLEAN] :
               \A m \in Metrics : r.read[m] \in Answers(m) \union {Unread, Failed}}
Drawable(m) == IF m = "oper" THEN {"UP", "DOWN", "null"} ELSE {"idle", "busy", "0"}
Rows == {r \in [Metrics -> {"UP", "DOWN", "null", "idle", "busy", "0"}] :
           \A m \in Metrics : r[m] \in Drawable(m)}

\* The types of all variables, of which TypeOK shows what is drawn.
TypeInv ==
  /\ host \in Hosts \union {NoDevice}
  /\ DOMAIN rows \subseteq Interfaces
  /\ \A j \in DOMAIN rows : rows[j] \in Rows
  /\ loading \in BOOLEAN /\ error \in BOOLEAN
  /\ fetches \in Seq(Requests)
  /\ sockets \in [Metrics -> {"closed", "connecting", "open"}]
  /\ wire \in [Metrics -> Seq(Messages)]
  /\ \A m \in Metrics : \A n \in DOMAIN wire[m] : wire[m][n].reading \in Readings(m)
  /\ telemetry \in [Hosts -> [Metrics -> AllAnswers]]
  /\ \A h \in Hosts, m \in Metrics : telemetry[h][m] \in Answers(m)
  /\ overtaken \subseteq Interfaces \X Metrics
  /\ missed \subseteq Interfaces \X Metrics
  /\ events \in 0..MaxEvents

\* The places of what m's socket has yet to say of i.
About(i, m) == {n \in DOMAIN wire[m] : wire[m][n].interface = i}

\* The last word on the wire is the backend's, and only an open socket has any.
WireInv ==
  \A m \in Metrics :
    /\ wire[m] # << >> => host # NoDevice /\ sockets[m] = "open"
    /\ host # NoDevice =>
         \A i \in Interfaces : \A n \in About(i, m) :
           (\A p \in About(i, m) : p <= n) => wire[m][n].reading = telemetry[host][m][i]

\* While the table is loading there is one request it listens to.
FetchInv ==
  /\ \A k \in Current : fetches[k].host = host /\ loading
  /\ \A k, l \in Current : k = l
  /\ loading => host # NoDevice /\ Current # {}

\* What is not on the wire is in the table, or in the snapshot to come.
ToldInv ==
  host # NoDevice =>
    \A i \in Interfaces, m \in Metrics :
      About(i, m) = {} =>
        /\ ~loading => \/ DrawnOf(i, m) = Normalized(m, telemetry[host][m][i])
                       \/ <<i, m>> \in missed
        /\ \A k \in Current :
             fetches[k].read[m] \notin {Unread, Failed} =>
               \/ fetches[k].read[m][i] = telemetry[host][m][i]
               \/ <<i, m>> \in missed \union overtaken

IInv == TypeInv /\ WireInv /\ FetchInv /\ ToldInv

-----------------------------------------------------------------------------
(* Lemmas about the operators. *)

LEMMA MetricFacts ==
    /\ Metrics = {"oper", "stats"} /\ "oper" # "stats"
    /\ \A m \in Metrics : Readings(m) \subseteq AllReadings \ {"nothing", "unread", "failed"}
    /\ \A m \in Metrics : EmptyAnswer \in Answers(m)
    /\ Unread \in AllAnswers /\ Failed \in AllAnswers
    /\ \A m \in Metrics : \A a \in Answers(m) : \A i \in Interfaces :
         a[i] # "unread" /\ a[i] # "failed"
  <1>1. \A m \in Metrics : Readings(m) \subseteq AllReadings \ {"nothing", "unread", "failed"}
    BY DEF Metrics, Readings, AllReadings
  <1>2. EmptyAnswer \in AllAnswers /\ Unread \in AllAnswers /\ Failed \in AllAnswers
    BY DEF EmptyAnswer, Unread, Failed, AllAnswers, AllReadings, Nothing
  <1>3. \A m \in Metrics : EmptyAnswer \in Answers(m)
    BY <1>2 DEF Answers, EmptyAnswer
  <1>4. \A m \in Metrics : \A a \in Answers(m) : \A i \in Interfaces :
          a[i] # "unread" /\ a[i] # "failed"
    BY <1>1 DEF Answers, Nothing
  <1>5. Metrics = {"oper", "stats"} /\ "oper" # "stats"
    BY DEF Metrics
  <1>6. QED
    BY <1>1, <1>2, <1>3, <1>4, <1>5

LEMMA NormalizedType ==
    ASSUME NEW m \in Metrics, NEW reading \in Readings(m) \union {Nothing}
    PROVE  Normalized(m, reading) \in Drawable(m)
  BY DEF Metrics, Readings, Normalized, Drawable, Nothing

\* The row of an interface of which nothing is known.
LEMMA NewRowFacts ==
    /\ NewRow \in Rows
    /\ \A m \in Metrics : NewRow[m] = Normalized(m, Nothing)
  <1>1. NewRow["oper"] = "null" /\ NewRow["stats"] = "0" /\ NewRow \in [Metrics -> {"UP", "DOWN", "null", "idle", "busy", "0"}]
    BY DEF NewRow, Metrics
  <1>2. QED
    BY <1>1 DEF Rows, Metrics, Drawable, Normalized, Nothing

\* The row an update of the interface starts from.
RowOf(j) == IF j \in DOMAIN rows THEN rows[j] ELSE NewRow

LEMMA UpdatedFacts ==
    ASSUME TypeInv, NEW i \in Interfaces, NEW m \in Metrics, NEW value \in Drawable(m),
           NEW new, new = Updated(i, m, value)
    PROVE  /\ DOMAIN new = DOMAIN rows \union {i}
           /\ \A j \in DOMAIN new : new[j] \in Rows
           /\ new[i][m] = value
           /\ \A n \in Metrics : n # m => new[i][n] = RowOf(i)[n]
           /\ \A j \in DOMAIN new : j # i => new[j] = RowOf(j)
  <1>1. /\ DOMAIN new = DOMAIN rows \union {i}
        /\ \A j \in DOMAIN new : new[j] = IF j = i THEN [RowOf(j) EXCEPT ![m] = value] ELSE RowOf(j)
    BY DEF Updated, RowOf
  <1>2. \A j \in DOMAIN new : RowOf(j) \in Rows
    BY <1>1, NewRowFacts DEF TypeInv, RowOf
  <1>3. \A r \in Rows : /\ [r EXCEPT ![m] = value] \in Rows
                        /\ [r EXCEPT ![m] = value][m] = value
                        /\ \A n \in Metrics : n # m => [r EXCEPT ![m] = value][n] = r[n]
    BY DEF Rows, Drawable, Metrics
  <1>4. new[i] = [RowOf(i) EXCEPT ![m] = value] /\ RowOf(i) \in Rows
    BY <1>1, <1>2
  <1>5. /\ new[i] \in Rows /\ new[i][m] = value
        /\ \A n \in Metrics : n # m => new[i][n] = RowOf(i)[n]
    BY <1>3, <1>4
  <1>6. \A j \in DOMAIN new : j # i => new[j] = RowOf(j)
    BY <1>1
  <1>7. \A j \in DOMAIN new : new[j] \in Rows
    BY <1>2, <1>5, <1>6
  <1>8. QED
    BY <1>1, <1>5, <1>6, <1>7

LEMMA MergedFacts ==
    ASSUME NEW r \in Requests, \A m \in Metrics : r.read[m] # Unread
    PROVE  LET new == Merged(r.read)
           IN /\ DOMAIN new \subseteq Interfaces
              /\ \A j \in DOMAIN new : new[j] \in Rows
              /\ \A i \in Interfaces, m \in Metrics :
                   (IF i \in DOMAIN new THEN new[i][m] ELSE NewRow[m])
                     = Normalized(m, Value(r.read[m])[i])
  <1> DEFINE new == Merged(r.read)
             brought(i, m) == Value(r.read[m])[i]
  <1>1. \A m \in Metrics : Value(r.read[m]) \in Answers(m)
    BY MetricFacts DEF Value, Requests
  <1>2. \A i \in Interfaces, m \in Metrics : Normalized(m, brought(i, m)) \in Drawable(m)
    BY <1>1, NormalizedType DEF Answers
  <1>3. /\ DOMAIN new = {i \in Interfaces : \E m \in Metrics : brought(i, m) # Nothing}
        /\ \A i \in DOMAIN new : new[i] = [m \in Metrics |-> Normalized(m, brought(i, m))]
    BY DEF Merged
  <1>4. \A i \in DOMAIN new : new[i] \in Rows
    <2> SUFFICES ASSUME NEW i \in DOMAIN new PROVE new[i] \in Rows
      OBVIOUS
    <2> HIDE DEF new, brought
    <2>1. \A m \in Metrics : Drawable(m) \subseteq {"UP", "DOWN", "null", "idle", "busy", "0"}
      BY DEF Drawable
    <2>2. QED
      <3>1. i \in Interfaces /\ new[i] = [m \in Metrics |-> Normalized(m, brought(i, m))]
        BY <1>3
      <3>2. \A m \in Metrics : Normalized(m, brought(i, m)) \in Drawable(m)
        BY <1>2, <3>1
      <3> DEFINE row == [m \in Metrics |-> Normalized(m, brought(i, m))]
      <3>3. row \in [Metrics -> {"UP", "DOWN", "null", "idle", "busy", "0"}]
        BY <2>1, <3>2
      <3>4. \A m \in Metrics : row[m] \in Drawable(m)
        BY <3>2
      <3>5. QED
        BY <3>1, <3>3, <3>4 DEF Rows
  <1>5. \A i \in Interfaces, m \in Metrics :
          (IF i \in DOMAIN new THEN new[i][m] ELSE NewRow[m]) = Normalized(m, brought(i, m))
    BY <1>3, NewRowFacts
  <1>6. QED
    BY <1>3, <1>4, <1>5

LEMMA RemoveAtFacts ==
    ASSUME NEW S, NEW s \in Seq(S), NEW k \in DOMAIN s
    PROVE  /\ RemoveAt(s, k) \in Seq(S)
           /\ DOMAIN RemoveAt(s, k) = 1..(Len(s) - 1)
           /\ \A n \in 1..(Len(s) - 1) :
                RemoveAt(s, k)[n] = IF n < k THEN s[n] ELSE s[n + 1]
  <1> DEFINE a == SubSeq(s, 1, k - 1)
             b == SubSeq(s, k + 1, Len(s))
  <1>1. k \in 1..Len(s) /\ Len(s) \in Nat /\ \A n \in 1..Len(s) : s[n] \in S
    BY LenProperties
  <1>2. a \in Seq(S) /\ Len(a) = k - 1 /\ \A n \in 1..(k - 1) : a[n] = s[n]
    BY <1>1, SubSeqProperties
  <1>3. b \in Seq(S) /\ Len(b) = Len(s) - k /\ \A n \in 1..(Len(s) - k) : b[n] = s[k + n]
    BY <1>1, SubSeqProperties
  <1>4. RemoveAt(s, k) = a \o b
    BY DEF RemoveAt
  <1> HIDE DEF a, b
  <1>5. /\ a \o b \in Seq(S) /\ Len(a \o b) = Len(s) - 1
        /\ \A n \in 1..(Len(s) - 1) :
             (a \o b)[n] = IF n <= k - 1 THEN a[n] ELSE b[n - (k - 1)]
    <2>1. Len(a) + Len(b) = Len(s) - 1 /\ Len(a) \in Nat /\ Len(b) \in Nat
      BY <1>1, <1>2, <1>3
    <2>2. /\ a \o b \in Seq(S) /\ Len(a \o b) = Len(a) + Len(b)
          /\ \A n \in 1..(Len(a) + Len(b)) :
               (a \o b)[n] = IF n <= Len(a) THEN a[n] ELSE b[n - Len(a)]
      BY <1>2, <1>3, ConcatProperties
    <2>3. QED
      BY <1>2, <2>1, <2>2
  <1>6. DOMAIN (a \o b) = 1..(Len(s) - 1)
    BY <1>5, LenProperties
  <1>7. ASSUME NEW n \in 1..(Len(s) - 1)
        PROVE  (a \o b)[n] = IF n < k THEN s[n] ELSE s[n + 1]
    <2>1. CASE n < k
      BY <1>1, <1>2, <1>5, <2>1
    <2>2. CASE ~(n < k)
      <3>1. n - (k - 1) \in 1..(Len(s) - k) /\ k + (n - (k - 1)) = n + 1
        BY <1>1, <2>2
      <3>2. b[n - (k - 1)] = s[n + 1]
        BY <1>3, <3>1
      <3>3. (a \o b)[n] = b[n - (k - 1)]
        BY <1>1, <1>5, <2>2
      <3>4. QED
        BY <2>2, <3>2, <3>3
    <2>3. QED
      BY <2>1, <2>2
  <1>8. QED
    BY <1>4, <1>5, <1>6, <1>7

LEMMA TailFacts ==
    ASSUME NEW S, NEW s \in Seq(S), s # << >>
    PROVE  /\ Head(s) = s[1] /\ Head(s) \in S /\ 1 \in DOMAIN s
           /\ Tail(s) \in Seq(S) /\ DOMAIN Tail(s) = 1..(Len(s) - 1)
           /\ DOMAIN s = 1..Len(s) /\ Len(s) \in Nat
           /\ \A n \in 1..(Len(s) - 1) : Tail(s)[n] = s[n + 1]
  <1>1. Len(s) \in Nat \ {0} /\ DOMAIN s = 1..Len(s)
    BY EmptySeq, LenProperties
  <1>2. Tail(s) \in Seq(S) /\ Len(Tail(s)) = Len(s) - 1
    BY HeadTailProperties
  <1>3. DOMAIN Tail(s) = 1..(Len(s) - 1)
    BY <1>2, LenProperties
  <1>4. \A n \in 1..(Len(s) - 1) : Tail(s)[n] = s[n + 1]
    BY <1>2, HeadTailProperties
  <1>5. Head(s) = s[1] /\ Head(s) \in S
    BY HeadTailProperties
  <1>6. QED
    BY <1>1, <1>2, <1>3, <1>4, <1>5

LEMMA AppendFacts ==
    ASSUME NEW S, NEW s \in Seq(S), NEW e \in S
    PROVE  /\ Append(s, e) \in Seq(S) /\ Append(s, e) # << >>
           /\ DOMAIN s = 1..Len(s) /\ Len(s) \in Nat
           /\ DOMAIN Append(s, e) = 1..(Len(s) + 1)
           /\ \A n \in 1..Len(s) : Append(s, e)[n] = s[n]
           /\ Append(s, e)[Len(s) + 1] = e
  <1>1. Append(s, e) \in Seq(S) /\ Len(Append(s, e)) = Len(s) + 1
    BY AppendProperties
  <1>2. DOMAIN Append(s, e) = 1..(Len(s) + 1)
    BY <1>1, LenProperties
  <1>3. DOMAIN s = 1..Len(s) /\ Len(s) \in Nat
    BY LenProperties
  <1>4. QED
    BY <1>1, <1>2, <1>3, AppendProperties

-----------------------------------------------------------------------------
(* The type invariant. *)

LEMMA TypeInit == Init => TypeInv
  <1> SUFFICES ASSUME Init PROVE TypeInv
    OBVIOUS
  <1>1. DOMAIN rows = {} /\ DOMAIN fetches = {} /\ \A m \in Metrics : DOMAIN wire[m] = {}
    BY DEF Init
  <1>2. fetches \in Seq(Requests) /\ wire \in [Metrics -> Seq(Messages)]
    BY EmptySeq DEF Init
  <1>3. /\ telemetry \in [Hosts -> [Metrics -> AllAnswers]]
        /\ \A h \in Hosts, m \in Metrics : telemetry[h][m] \in Answers(m)
    BY MetricFacts DEF Init, Answers
  <1>4. /\ sockets \in [Metrics -> {"closed", "connecting", "open"}]
        /\ events \in 0..MaxEvents
        /\ host \in Hosts \union {NoDevice} /\ loading \in BOOLEAN /\ error \in BOOLEAN
        /\ overtaken = {} /\ missed = {}
    <2>1. sockets \in [Metrics -> {"closed", "connecting", "open"}]
      BY DEF Init
    <2>2. events = 0 /\ 0 \in 0..MaxEvents
      BY InterfaceTableAssumption DEF Init
    <2>3. host = NoDevice /\ loading = FALSE /\ error = FALSE
      BY DEF Init
    <2>4. overtaken = {} /\ missed = {}
      BY DEF Init
    <2>5. QED
      BY <2>1, <2>2, <2>3, <2>4
  <1>5. QED
    BY <1>1, <1>2, <1>3, <1>4 DEF TypeInv

LEMMA EventFacts ==
    ASSUME events \in 0..MaxEvents, Event
    PROVE  events' \in 0..MaxEvents
  BY InterfaceTableAssumption DEF Event

\* What ShowDevice does to the requests: they are cancelled, and one is sent.
LEMMA ShownFetches ==
    ASSUME TypeInv, NEW h \in Hosts \union {NoDevice}, ShowDevice(h)
    PROVE  /\ fetches' \in Seq(Requests)
           /\ h = NoDevice => Current' = {}
           /\ h # NoDevice => /\ Current' = {Len(fetches) + 1}
                              /\ fetches'[Len(fetches) + 1].host = h
                              /\ \A m \in Metrics :
                                   fetches'[Len(fetches) + 1].read[m] = Unread
  <1> DEFINE old == [k \in DOMAIN fetches |-> [fetches[k] EXCEPT !.cancelled = TRUE]]
             new == [host |-> h, read |-> [m \in Metrics |-> Unread], cancelled |-> FALSE]
             last == IF h = NoDevice THEN << >> ELSE <<new>>
  <1>1. Len(fetches) \in Nat /\ DOMAIN fetches = 1..Len(fetches)
        /\ \A k \in DOMAIN fetches : fetches[k] \in Requests
    BY LenProperties DEF TypeInv
  <1>2. \A r \in Requests : /\ [r EXCEPT !.cancelled = TRUE] \in Requests
                            /\ [r EXCEPT !.cancelled = TRUE].cancelled = TRUE
    BY DEF Requests
  <1>3. old \in Seq(Requests) /\ Len(old) = Len(fetches)
        /\ \A k \in DOMAIN fetches : old[k].cancelled
    <2>1. old \in [1..Len(fetches) -> Requests] /\ \A k \in DOMAIN fetches : old[k].cancelled
      BY <1>1, <1>2
    <2> HIDE DEF old
    <2>2. QED
      BY <1>1, <2>1
  <1>4. h # NoDevice => new \in Requests
    <2>1. \A m \in Metrics : Unread \in AllAnswers
      BY MetricFacts
    <2>2. QED
      BY <2>1 DEF Requests
  <1>5. fetches' = old \o last
    BY DEF ShowDevice
  <1> HIDE DEF old
  <1>6. CASE h = NoDevice
    <2>1. fetches' = old
      BY <1>3, <1>5, <1>6, ConcatEmptySeq
    <2>2. DOMAIN old = DOMAIN fetches
      BY <1>1, <1>3, LenProperties
    <2>3. QED
      BY <1>3, <1>6, <2>1, <2>2 DEF Current
  <1>7. CASE h # NoDevice
    <2> HIDE DEF new
    <2>1. last = <<new>> /\ last \in Seq(Requests) /\ Len(last) = 1 /\ last[1] = new
      BY <1>4, <1>7
    <2>2. /\ fetches' \in Seq(Requests) /\ Len(fetches') = Len(fetches) + 1
          /\ \A k \in 1..(Len(fetches) + 1) :
               fetches'[k] = IF k <= Len(fetches) THEN old[k] ELSE last[k - Len(fetches)]
      BY <1>1, <1>3, <1>5, <2>1, ConcatProperties
    <2>3. DOMAIN fetches' = 1..(Len(fetches) + 1)
      BY <2>2, LenProperties
    <2>4. fetches'[Len(fetches) + 1] = new
      BY <1>1, <2>1, <2>2
    <2>5. \A k \in 1..Len(fetches) : fetches'[k].cancelled
      BY <1>1, <1>3, <2>2
    <2>6. ~new.cancelled /\ new.host = h /\ \A m \in Metrics : new.read[m] = Unread
      BY DEF new
    <2>7. QED
      BY <1>1, <1>7, <2>2, <2>3, <2>4, <2>5, <2>6 DEF Current
  <1>8. QED
    BY <1>6, <1>7

\* A request that is served is read in one metric, and the others stay.
LEMMA ServedFetches ==
    ASSUME TypeInv, NEW k \in DOMAIN fetches, NEW m \in Metrics, ServeRequest(k, m)
    PROVE  /\ fetches' \in Seq(Requests) /\ DOMAIN fetches' = DOMAIN fetches
           /\ Current' = Current
           /\ \A l \in DOMAIN fetches :
                /\ fetches'[l].host = fetches[l].host
                /\ \A n \in Metrics : <<l, n>> # <<k, m>> => fetches'[l].read[n] = fetches[l].read[n]
           /\ fetches'[k].read[m] \in {telemetry[fetches[k].host][m], Failed}
  <1>1. Len(fetches) \in Nat /\ DOMAIN fetches = 1..Len(fetches)
        /\ \A l \in DOMAIN fetches : fetches[l] \in Requests
    BY LenProperties DEF TypeInv
  <1>2. PICK answer \in {telemetry[fetches[k].host][m], Failed} :
          fetches' = [fetches EXCEPT ![k].read[m] = answer]
    BY DEF ServeRequest
  <1>3. answer \in AllAnswers /\ answer \in Answers(m) \union {Unread, Failed}
    BY <1>1, MetricFacts DEF TypeInv, Requests
  <1> DEFINE new == [fetches[k] EXCEPT !.read[m] = answer]
  <1>4. /\ new \in Requests /\ new.host = fetches[k].host
        /\ new.cancelled = fetches[k].cancelled /\ new.read[m] = answer
        /\ \A n \in Metrics : n # m => new.read[n] = fetches[k].read[n]
    BY <1>1, <1>3 DEF Requests
  <1>5. fetches' = [fetches EXCEPT ![k] = new]
    BY <1>2
  <1> HIDE DEF new
  <1>6. fetches' \in Seq(Requests) /\ DOMAIN fetches' = DOMAIN fetches
        /\ fetches'[k] = new /\ \A l \in DOMAIN fetches : l # k => fetches'[l] = fetches[l]
    BY <1>1, <1>4, <1>5, ExceptSeq DEF TypeInv
  <1>7. Current' = Current
    BY <1>4, <1>6 DEF Current
  <1>8. QED
    BY <1>2, <1>4, <1>6, <1>7

\* The requests that are left when k is answered.
LEMMA SettledFetches ==
    ASSUME TypeInv, NEW k \in DOMAIN fetches, Settle(k)
    PROVE  /\ fetches' \in Seq(Requests)
           /\ \A l \in Current' : \E o \in Current :
                o = (IF l < k THEN l ELSE l + 1) /\ o # k /\ fetches'[l] = fetches[o]
           /\ \A o \in Current : o # k => \E l \in Current' : TRUE
  <1>1. Len(fetches) \in Nat /\ DOMAIN fetches = 1..Len(fetches)
    BY LenProperties DEF TypeInv
  <1>2. /\ fetches' \in Seq(Requests) /\ DOMAIN fetches' = 1..(Len(fetches) - 1)
        /\ \A n \in 1..(Len(fetches) - 1) :
             fetches'[n] = IF n < k THEN fetches[n] ELSE fetches[n + 1]
    BY RemoveAtFacts DEF TypeInv, Settle
  <1>3. ASSUME NEW l \in Current'
        PROVE  \E o \in Current :
                 o = (IF l < k THEN l ELSE l + 1) /\ o # k /\ fetches'[l] = fetches[o]
    <2>1. l \in 1..(Len(fetches) - 1) /\ ~fetches'[l].cancelled
      BY <1>2 DEF Current
    <2>2. CASE l < k
      BY <1>1, <1>2, <2>1, <2>2 DEF Current
    <2>3. CASE ~(l < k)
      BY <1>1, <1>2, <2>1, <2>3 DEF Current
    <2>4. QED
      BY <2>2, <2>3
  <1>4. ASSUME NEW o \in Current, o # k
        PROVE  \E l \in Current' : TRUE
    <2>1. o \in 1..Len(fetches) /\ ~fetches[o].cancelled
      BY <1>1 DEF Current
    <2>2. CASE o < k
      <3>1. o \in 1..(Len(fetches) - 1) /\ fetches'[o] = fetches[o]
        BY <1>1, <1>2, <2>1, <2>2
      <3>2. QED
        BY <1>2, <2>1, <3>1 DEF Current
    <2>3. CASE ~(o < k)
      <3>1. o - 1 \in 1..(Len(fetches) - 1) /\ ~(o - 1 < k) /\ (o - 1) + 1 = o
        BY <1>1, <1>4, <2>1, <2>3
      <3>2. fetches'[o - 1] = fetches[o]
        BY <1>2, <3>1
      <3>3. QED
        BY <1>2, <2>1, <3>1, <3>2 DEF Current
    <2>4. QED
      BY <2>2, <2>3
  <1>5. QED
    BY <1>2, <1>3, <1>4

LEMMA WireFacts ==
    ASSUME TypeInv, NEW m \in Metrics
    PROVE  /\ wire[m] \in Seq(Messages) /\ Len(wire[m]) \in Nat
           /\ DOMAIN wire[m] = 1..Len(wire[m])
           /\ \A n \in DOMAIN wire[m] :
                wire[m][n].interface \in Interfaces /\ wire[m][n].reading \in Readings(m)
  <1>1. wire[m] \in Seq(Messages)
    BY DEF TypeInv
  <1>2. Len(wire[m]) \in Nat /\ DOMAIN wire[m] = 1..Len(wire[m])
    BY <1>1, LenProperties
  <1>3. \A n \in DOMAIN wire[m] : wire[m][n] \in Messages
    BY <1>1, <1>2, ElementOfSeq
  <1>4. \A w \in Messages : w.interface \in Interfaces
    BY DEF Messages
  <1>5. QED
    BY <1>1, <1>2, <1>3, <1>4 DEF TypeInv

LEMMA TypeStep ==
    ASSUME TypeInv, [Next]_vars
    PROVE  TypeInv'
  <1> DEFINE Pairs == Interfaces \X Metrics
  <1>1. ASSUME NEW h \in Hosts \union {NoDevice}, ShowDevice(h)
        PROVE  TypeInv'
    <2>1. fetches' \in Seq(Requests) /\ events' \in 0..MaxEvents
      BY <1>1, ShownFetches, EventFacts DEF TypeInv, ShowDevice
    <2>2. /\ wire' = [m \in Metrics |-> << >>] /\ wire' \in [Metrics -> Seq(Messages)]
          /\ \A m \in Metrics : DOMAIN wire'[m] = {}
      BY <1>1, EmptySeq DEF ShowDevice
    <2>3. DOMAIN rows' \subseteq Interfaces /\ \A j \in DOMAIN rows' : rows'[j] \in Rows
      <3>1. DOMAIN << >> = {}
        OBVIOUS
      <3>2. rows' = rows \/ rows' = << >>
        BY <1>1 DEF ShowDevice
      <3>3. QED
        BY <3>1, <3>2 DEF TypeInv
    <2>4. sockets' \in [Metrics -> {"closed", "connecting", "open"}]
      BY <1>1 DEF ShowDevice
    <2>5. /\ host' = h /\ loading' \in BOOLEAN /\ error' = FALSE
          /\ overtaken' = {} /\ missed' = {} /\ telemetry' = telemetry
      BY <1>1 DEF ShowDevice
    <2>6. QED
      BY <1>1, <2>1, <2>2, <2>3, <2>4, <2>5 DEF TypeInv
  <1>2. ASSUME NEW m \in Metrics, OpenSocket(m)
        PROVE  TypeInv'
    BY <1>2 DEF TypeInv, OpenSocket
  <1>3. ASSUME NEW m \in Metrics, LoseSocket(m)
        PROVE  TypeInv'
    <2>2. \A n \in DOMAIN wire[m] : wire[m][n].interface \in Interfaces
      BY WireFacts
    <2>3. missed' \subseteq Pairs
      BY <1>3, <2>2 DEF LoseSocket, TypeInv
    <2>4. /\ wire' \in [Metrics -> Seq(Messages)]
          /\ \A o \in Metrics : \A n \in DOMAIN wire'[o] : wire'[o][n].reading \in Readings(o)
      <3>1. DOMAIN << >> = {} /\ << >> \in Seq(Messages)
        BY EmptySeq
      <3>2. /\ wire'[m] = << >> /\ DOMAIN wire' = Metrics
            /\ \A o \in Metrics : o # m => wire'[o] = wire[o]
            /\ wire' = [wire EXCEPT ![m] = << >>]
        BY <1>3 DEF LoseSocket, TypeInv
      <3>3. wire' \in [Metrics -> Seq(Messages)]
        BY <3>1, <3>2 DEF TypeInv
      <3>4. QED
        BY <3>1, <3>2, <3>3 DEF TypeInv
    <2>5. sockets' \in [Metrics -> {"closed", "connecting", "open"}] /\ events' \in 0..MaxEvents
      BY <1>3, EventFacts DEF LoseSocket, TypeInv
    <2>6. QED
      BY <1>3, <2>3, <2>4, <2>5 DEF LoseSocket, TypeInv
  <1>4. ASSUME NEW m \in Metrics, Deliver(m)
        PROVE  TypeInv'
    <2> DEFINE message == Head(wire[m])
               i == message.interface
    <2>1. wire[m] \in Seq(Messages) /\ wire[m] # << >>
      BY <1>4 DEF Deliver, TypeInv
    <2>2. i \in Interfaces /\ message.reading \in Readings(m)
      <3>1. message = wire[m][1] /\ 1 \in DOMAIN wire[m]
        BY <2>1, TailFacts
      <3>2. QED
        BY <3>1, WireFacts
    <2>3. /\ wire' \in [Metrics -> Seq(Messages)]
          /\ \A o \in Metrics : \A n \in DOMAIN wire'[o] : wire'[o][n].reading \in Readings(o)
      <3>1. /\ wire' = [wire EXCEPT ![m] = Tail(wire[m])] /\ wire'[m] = Tail(wire[m])
            /\ \A o \in Metrics : o # m => wire'[o] = wire[o]
        BY <1>4 DEF Deliver, TypeInv
      <3>2. wire' \in [Metrics -> Seq(Messages)]
        BY <2>1, <3>1, TailFacts DEF TypeInv
      <3>3. \A n \in DOMAIN Tail(wire[m]) :
              n + 1 \in DOMAIN wire[m] /\ Tail(wire[m])[n] = wire[m][n + 1]
        BY <2>1, TailFacts
      <3>4. QED
        BY <3>1, <3>2, <3>3 DEF TypeInv
    <2>4. DOMAIN rows' \subseteq Interfaces /\ \A j \in DOMAIN rows' : rows'[j] \in Rows
      <3>1. \/ rows' = rows
            \/ rows' = Updated(i, m, Normalized(m, message.reading))
        BY <1>4 DEF Deliver, OperRows, StatsRows, Metrics
      <3>2. Normalized(m, message.reading) \in Drawable(m)
        BY <2>2, NormalizedType
      <3> DEFINE value == Normalized(m, message.reading)
      <3> HIDE DEF i, value
      <3>3. rows' = Updated(i, m, value) =>
              DOMAIN rows' = DOMAIN rows \union {i} /\ \A j \in DOMAIN rows' : rows'[j] \in Rows
        BY <2>2, <3>2, UpdatedFacts DEF value
      <3>4. rows' = rows \/ rows' = Updated(i, m, value)
        BY <3>1 DEF value
      <3>5. QED
        BY <2>2, <3>3, <3>4 DEF TypeInv
    <2>5. missed' \subseteq Pairs /\ overtaken' \subseteq Pairs
      <3>1. <<i, m>> \in Pairs
        BY <2>2
      <3>2. missed' \subseteq missed \union {<<i, m>>} /\ overtaken' \subseteq overtaken \union {<<i, m>>}
        BY <1>4 DEF Deliver
      <3>3. QED
        BY <3>1, <3>2 DEF TypeInv
    <2>6. QED
      BY <1>4, <2>3, <2>4, <2>5 DEF Deliver, TypeInv
  <1>5. ASSUME NEW k \in DOMAIN fetches, Settle(k)
        PROVE  TypeInv'
    <2>1. fetches' \in Seq(Requests)
      BY <1>5, SettledFetches
    <2>2. fetches[k] \in Requests
      BY LenProperties DEF TypeInv
    <2>3. \A m \in Metrics : fetches[k].read[m] # Unread
      BY <1>5 DEF Settle, IsRead
    <2>4. DOMAIN rows' \subseteq Interfaces /\ \A j \in DOMAIN rows' : rows'[j] \in Rows
      <3>1. rows' = rows \/ rows' = Merged(fetches[k].read)
        BY <1>5 DEF Settle
      <3>2. QED
        BY <2>2, <2>3, <3>1, MergedFacts DEF TypeInv
    <2>5. missed' \subseteq Pairs /\ overtaken' \subseteq Pairs
          /\ loading' \in BOOLEAN /\ error' \in BOOLEAN
      BY <1>5 DEF Settle, TypeInv
    <2>6. QED
      BY <1>5, <2>1, <2>4, <2>5 DEF Settle, TypeInv
  <1>6. ASSUME NEW k \in DOMAIN fetches, NEW m \in Metrics, ServeRequest(k, m)
        PROVE  TypeInv'
    <2>1. fetches' \in Seq(Requests)
      BY <1>6, ServedFetches
    <2>2. missed' \subseteq Pairs
      BY <1>6 DEF ServeRequest, TypeInv
    <2>3. QED
      BY <1>6, <2>1, <2>2 DEF ServeRequest, TypeInv
  <1>7. ASSUME NEW h \in Hosts, NEW m \in Metrics, NEW i \in Interfaces,
               NEW reading \in Readings(m), Report(h, m, i, reading)
        PROVE  TypeInv'
    <2>1. /\ telemetry' \in [Hosts -> [Metrics -> AllAnswers]]
          /\ \A g \in Hosts, o \in Metrics : telemetry'[g][o] \in Answers(o)
      <3>1. reading \in AllReadings
        BY MetricFacts
      <3> DEFINE new == [telemetry[h][m] EXCEPT ![i] = reading]
      <3>2. new \in AllAnswers /\ new \in Answers(m)
        BY <3>1 DEF TypeInv, Answers, AllAnswers
      <3>3. telemetry' = [telemetry EXCEPT ![h][m] = new]
        BY <1>7 DEF Report
      <3> HIDE DEF new
      <3>4. QED
        BY <3>2, <3>3 DEF TypeInv
    <2>2. /\ wire' \in [Metrics -> Seq(Messages)]
          /\ \A o \in Metrics : \A n \in DOMAIN wire'[o] : wire'[o][n].reading \in Readings(o)
      <3> DEFINE word == [interface |-> i, reading |-> reading]
      <3>1. word \in Messages /\ word.reading = reading
        BY MetricFacts DEF Messages
      <3> HIDE DEF word
      <3>2. CASE wire' = wire
        BY <3>2 DEF TypeInv
      <3>3. CASE wire' = [wire EXCEPT ![m] = Append(wire[m], word)]
        <4>1. wire[m] \in Seq(Messages)
          BY DEF TypeInv
        <4>2. Append(wire[m], word) \in Seq(Messages)
              /\ \A n \in DOMAIN Append(wire[m], word) : Append(wire[m], word)[n].reading \in Readings(m)
          BY <3>1, <4>1, AppendFacts DEF TypeInv
        <4>3. QED
          BY <3>3, <4>2 DEF TypeInv
      <3>4. QED
        BY <1>7, <3>2, <3>3 DEF Report, word
    <2>3. missed' \subseteq Pairs /\ events' \in 0..MaxEvents
      BY <1>7, EventFacts DEF Report, TypeInv
    <2>4. QED
      BY <1>7, <2>1, <2>2, <2>3 DEF Report, TypeInv
  <1>8. CASE UNCHANGED vars
    BY <1>8 DEF vars, tableVars, TypeInv
  <1>9. QED
    BY <1>1, <1>2, <1>3, <1>4, <1>5, <1>6, <1>7, <1>8 DEF Next

-----------------------------------------------------------------------------
(* The wires. *)

\* What a socket has to say of an interface after its first word was heard.
LEMMA AboutTail ==
    ASSUME TypeInv, NEW m \in Metrics, Deliver(m), NEW j \in Interfaces
    PROVE  /\ wire'[m] = Tail(wire[m])
           /\ \A n \in About(j, m)' : n + 1 \in About(j, m) /\ wire'[m][n] = wire[m][n + 1]
           /\ \A p \in About(j, m) : p # 1 => p - 1 \in About(j, m)'
           /\ 1 \in DOMAIN wire[m] /\ Head(wire[m]) = wire[m][1]
           /\ About(j, m) \subseteq Nat \ {0} /\ About(j, m)' \subseteq Nat \ {0}
  <1>1. wire[m] \in Seq(Messages) /\ wire[m] # << >>
    BY WireFacts DEF Deliver
  <1>2. /\ wire'[m] = Tail(wire[m])
        /\ DOMAIN wire[m] = 1..Len(wire[m]) /\ Len(wire[m]) \in Nat
        /\ DOMAIN wire'[m] = 1..(Len(wire[m]) - 1)
        /\ \A n \in 1..(Len(wire[m]) - 1) : wire'[m][n] = wire[m][n + 1]
        /\ 1 \in DOMAIN wire[m] /\ Head(wire[m]) = wire[m][1]
    <2>1. wire'[m] = Tail(wire[m])
      BY DEF Deliver, TypeInv
    <2>2. QED
      BY <1>1, <2>1, TailFacts
  <1>3. \A n \in 1..(Len(wire[m]) - 1) : n + 1 \in 1..Len(wire[m])
    BY <1>2
  <1>4. \A p \in 1..Len(wire[m]) : p # 1 => p - 1 \in 1..(Len(wire[m]) - 1) /\ (p - 1) + 1 = p
    BY <1>2
  <1>5. \A n \in About(j, m)' : n + 1 \in About(j, m) /\ wire'[m][n] = wire[m][n + 1]
    BY <1>2, <1>3 DEF About
  <1>6. \A p \in About(j, m) : p # 1 => p - 1 \in About(j, m)'
    BY <1>2, <1>4 DEF About
  <1>7. About(j, m) \subseteq Nat \ {0} /\ About(j, m)' \subseteq Nat \ {0}
    BY <1>2 DEF About
  <1>8. QED
    BY <1>2, <1>5, <1>6, <1>7

\* A report is the last word of an open socket on the interface.
LEMMA AboutReport ==
    ASSUME TypeInv, NEW h \in Hosts, NEW m \in Metrics, NEW i \in Interfaces,
           NEW reading \in Readings(m), Report(h, m, i, reading)
    PROVE  /\ \A n \in Metrics, j \in Interfaces : <<j, n>> # <<i, m>> =>
                About(j, n)' = About(j, n) /\ \A p \in About(j, n) : wire'[n][p] = wire[n][p]
           /\ h # host \/ sockets[m] # "open" => wire' = wire
           /\ h = host /\ sockets[m] = "open" =>
                /\ wire'[m][Len(wire[m]) + 1].reading = reading
                /\ Len(wire[m]) + 1 \in About(i, m)'
                /\ \A p \in About(i, m)' : p <= Len(wire[m]) + 1
           /\ Len(wire[m]) \in Nat
  <1> DEFINE word == [interface |-> i, reading |-> reading]
  <1>1. word \in Messages /\ word.interface = i /\ word.reading = reading
    BY MetricFacts DEF Messages
  <1> HIDE DEF word
  <1>2. CASE h # host \/ sockets[m] # "open"
    BY <1>2, WireFacts DEF Report, About
  <1>3. CASE h = host /\ sockets[m] = "open"
    <2>1. wire[m] \in Seq(Messages) /\ wire' = [wire EXCEPT ![m] = Append(wire[m], word)]
      BY <1>3, WireFacts DEF Report, word
    <2>2. /\ wire'[m] = Append(wire[m], word)
          /\ \A n \in Metrics : n # m => wire'[n] = wire[n]
      BY <2>1 DEF TypeInv
    <2>3. /\ DOMAIN wire[m] = 1..Len(wire[m]) /\ Len(wire[m]) \in Nat
          /\ DOMAIN wire'[m] = 1..(Len(wire[m]) + 1)
          /\ \A n \in 1..Len(wire[m]) : wire'[m][n] = wire[m][n]
          /\ wire'[m][Len(wire[m]) + 1] = word
      BY <1>1, <2>1, <2>2, AppendFacts
    <2>4. /\ Len(wire[m]) + 1 \in 1..(Len(wire[m]) + 1)
          /\ \A p \in 1..(Len(wire[m]) + 1) : p <= Len(wire[m]) + 1
          /\ \A p \in 1..(Len(wire[m]) + 1) : p \in 1..Len(wire[m]) \/ p = Len(wire[m]) + 1
          /\ \A p \in 1..Len(wire[m]) : p \in 1..(Len(wire[m]) + 1)
      BY <2>3
    <2>5. \A j \in Interfaces : j # i => About(j, m)' = About(j, m)
      BY <1>1, <2>3, <2>4 DEF About
    <2>6. \A n \in Metrics, j \in Interfaces : <<j, n>> # <<i, m>> =>
             About(j, n)' = About(j, n) /\ \A p \in About(j, n) : wire'[n][p] = wire[n][p]
      <3> SUFFICES ASSUME NEW n \in Metrics, NEW j \in Interfaces, <<j, n>> # <<i, m>>
                   PROVE  About(j, n)' = About(j, n) /\ \A p \in About(j, n) : wire'[n][p] = wire[n][p]
        OBVIOUS
      <3>1. CASE n = m
        BY <2>3, <2>5, <3>1 DEF About
      <3>2. CASE n # m
        BY <2>2, <3>2 DEF About
      <3>3. QED
        BY <3>1, <3>2
    <2>7. Len(wire[m]) + 1 \in About(i, m)' /\ \A p \in About(i, m)' : p <= Len(wire[m]) + 1
      BY <1>1, <2>3, <2>4 DEF About
    <2>8. QED
      BY <1>1, <1>3, <2>3, <2>6, <2>7
  <1>4. QED
    BY <1>2, <1>3

LEMMA WireInit == Init => WireInv
  BY DEF Init, WireInv

\* WireInv reads these variables and no others.
LEMMA WireKept ==
    ASSUME WireInv, UNCHANGED <<host, sockets, wire, telemetry>>
    PROVE  WireInv'
  BY DEF WireInv, About

LEMMA WireStep ==
    ASSUME TypeInv, WireInv, [Next]_vars
    PROVE  WireInv'
  <1>1. ASSUME NEW h \in Hosts \union {NoDevice}, ShowDevice(h)
        PROVE  WireInv'
    <2>1. \A m \in Metrics : wire'[m] = << >> /\ DOMAIN wire'[m] = {}
      BY <1>1 DEF ShowDevice
    <2>2. \A m \in Metrics, i \in Interfaces : About(i, m)' = {}
      BY <2>1 DEF About
    <2>3. QED
      BY <2>1, <2>2 DEF WireInv
  <1>2. ASSUME NEW m \in Metrics, OpenSocket(m)
        PROVE  WireInv'
    <2>1. /\ host' = host /\ wire' = wire /\ telemetry' = telemetry
          /\ \A n \in Metrics : sockets'[n] = sockets[n] \/ sockets'[n] = "open"
      BY <1>2 DEF OpenSocket, TypeInv
    <2>2. \A i \in Interfaces, n \in Metrics : About(i, n)' = About(i, n)
      BY <2>1 DEF About
    <2>3. QED
      BY <2>1, <2>2 DEF WireInv
  <1>3. ASSUME NEW m \in Metrics, LoseSocket(m)
        PROVE  WireInv'
    <2>1. /\ wire'[m] = << >> /\ DOMAIN wire'[m] = {}
          /\ host' = host /\ telemetry' = telemetry
          /\ \A n \in Metrics : n # m => wire'[n] = wire[n] /\ sockets'[n] = sockets[n]
      BY <1>3 DEF LoseSocket, TypeInv
    <2>2. \A i \in Interfaces : About(i, m)' = {}
      BY <2>1 DEF About
    <2>3. \A i \in Interfaces, n \in Metrics : n # m => About(i, n)' = About(i, n)
      BY <2>1 DEF About
    <2>4. QED
      BY <2>1, <2>2, <2>3 DEF WireInv
  <1>4. ASSUME NEW m \in Metrics, Deliver(m)
        PROVE  WireInv'
    <2>1. /\ wire[m] # << >> /\ host' = host /\ sockets' = sockets /\ telemetry' = telemetry
          /\ \A n \in Metrics : n # m => wire'[n] = wire[n]
      BY <1>4 DEF Deliver, TypeInv
    <2>2. host # NoDevice /\ sockets[m] = "open"
      BY <2>1 DEF WireInv
    <2>3. ASSUME NEW i \in Interfaces, NEW n \in About(i, m)', \A p \in About(i, m)' : p <= n
          PROVE  wire'[m][n].reading = telemetry[host][m][i]
      <3>1. n + 1 \in About(i, m) /\ wire'[m][n] = wire[m][n + 1] /\ n \in Nat \ {0}
        BY <1>4, AboutTail
      <3>2. ASSUME NEW p \in About(i, m)
            PROVE  p <= n + 1
        <4>1. p \in Nat \ {0}
          BY <1>4, AboutTail
        <4>2. CASE p = 1
          BY <3>1, <4>2
        <4>3. CASE p # 1
          <5>1. p - 1 \in About(i, m)'
            BY <1>4, <4>3, AboutTail
          <5>2. p - 1 <= n
            BY <2>3, <5>1
          <5>3. QED
            BY <3>1, <4>1, <5>2
        <4>4. QED
          BY <4>2, <4>3
      <3>3. wire[m][n + 1].reading = telemetry[host][m][i]
        BY <2>2, <3>1, <3>2 DEF WireInv
      <3>4. QED
        BY <3>1, <3>3
    <2>4. \A i \in Interfaces, n \in Metrics : n # m => About(i, n)' = About(i, n)
      BY <2>1 DEF About
    <2>5. QED
      BY <2>1, <2>2, <2>3, <2>4 DEF WireInv
  <1>5. ASSUME NEW k \in DOMAIN fetches, Settle(k)
        PROVE  WireInv'
    BY <1>5, WireKept DEF Settle
  <1>6. ASSUME NEW k \in DOMAIN fetches, NEW m \in Metrics, ServeRequest(k, m)
        PROVE  WireInv'
    BY <1>6, WireKept DEF ServeRequest
  <1>7. ASSUME NEW h \in Hosts, NEW m \in Metrics, NEW i \in Interfaces,
               NEW reading \in Readings(m), Report(h, m, i, reading)
        PROVE  WireInv'
    <2>1. /\ host' = host /\ sockets' = sockets
          /\ telemetry' = [telemetry EXCEPT ![h][m][i] = reading]
      BY <1>7 DEF Report
    <2>2. /\ telemetry'[h][m][i] = reading
          /\ \A g \in Hosts, n \in Metrics, j \in Interfaces :
               <<g, n, j>> # <<h, m, i>> => telemetry'[g][n][j] = telemetry[g][n][j]
      BY <2>1 DEF TypeInv, AllAnswers
    <2>3. ASSUME NEW n \in Metrics, wire'[n] # << >>
          PROVE  host' # NoDevice /\ sockets'[n] = "open"
      BY <1>7, <2>1, <2>3, InterfaceTableAssumption DEF Report, WireInv, TypeInv
    <2>4. ASSUME host # NoDevice, NEW n \in Metrics, NEW j \in Interfaces,
                 NEW p \in About(j, n)', \A q \in About(j, n)' : q <= p
          PROVE  wire'[n][p].reading = telemetry'[host][n][j]
      <3>0. host \in Hosts
        BY <2>4 DEF TypeInv
      <3>1. CASE <<j, n>> # <<i, m>>
        <4>1. About(j, n)' = About(j, n) /\ wire'[n][p] = wire[n][p]
          BY <1>7, <3>1, AboutReport
        <4>2. wire[n][p].reading = telemetry[host][n][j]
          BY <2>4, <4>1 DEF WireInv
        <4>3. telemetry'[host][n][j] = telemetry[host][n][j]
          BY <2>2, <3>0, <3>1
        <4>4. QED
          BY <4>1, <4>2, <4>3
      <3>2. CASE j = i /\ n = m /\ h = host /\ sockets[m] = "open"
        <4>1. p = Len(wire[m]) + 1
          <5>1. p <= Len(wire[m]) + 1 /\ Len(wire[m]) + 1 <= p /\ Len(wire[m]) \in Nat
            BY <1>7, <2>4, <3>2, AboutReport
          <5>2. p \in Nat
            <6>1. wire'[m] \in Seq(Messages)
              BY <1>7, TypeStep DEF TypeInv, Next
            <6>2. QED
              BY <3>2, <6>1, LenProperties DEF About
          <5>3. QED
            BY <5>1, <5>2
        <4>2. QED
          BY <1>7, <2>2, <3>2, <4>1, AboutReport
      <3>3. CASE j = i /\ n = m /\ h # host
        <4>1. wire' = wire
          BY <1>7, <3>3, AboutReport
        <4>2. wire[n][p].reading = telemetry[host][n][j]
          BY <2>4, <4>1 DEF WireInv, About
        <4>3. QED
          BY <2>2, <3>0, <3>3, <4>1, <4>2
      <3>4. CASE j = i /\ n = m /\ h = host /\ sockets[m] # "open"
        <4>1. wire' = wire /\ wire[m] = << >>
          BY <1>7, <3>4, AboutReport DEF WireInv
        <4>2. QED
          BY <3>4, <4>1 DEF About
      <3>5. QED
        BY <3>1, <3>2, <3>3, <3>4
    <2>5. QED
      BY <2>1, <2>3, <2>4 DEF WireInv
  <1>8. CASE UNCHANGED vars
    BY <1>8, WireKept DEF vars, tableVars
  <1>9. QED
    BY <1>1, <1>2, <1>3, <1>4, <1>5, <1>6, <1>7, <1>8 DEF Next

-----------------------------------------------------------------------------
(* The requests. *)

LEMMA FetchInit == Init => FetchInv
  BY DEF Init, FetchInv, Current

LEMMA FetchKept ==
    ASSUME FetchInv, UNCHANGED <<host, loading, fetches>>
    PROVE  FetchInv'
  BY DEF FetchInv, Current

LEMMA FetchStep ==
    ASSUME TypeInv, FetchInv, [Next]_vars
    PROVE  FetchInv'
  <1>1. ASSUME NEW h \in Hosts \union {NoDevice}, ShowDevice(h)
        PROVE  FetchInv'
    <2>1. host' = h /\ (loading' <=> h # NoDevice)
      BY <1>1 DEF ShowDevice
    <2>2. CASE h = NoDevice
      BY <1>1, <2>1, <2>2, ShownFetches DEF FetchInv
    <2>3. CASE h # NoDevice
      <3>1. Current' = {Len(fetches) + 1} /\ fetches'[Len(fetches) + 1].host = h
        BY <1>1, <2>3, ShownFetches
      <3>2. QED
        BY <2>1, <2>3, <3>1 DEF FetchInv
    <2>4. QED
      BY <2>2, <2>3
  <1>2. ASSUME NEW k \in DOMAIN fetches, Settle(k)
        PROVE  FetchInv'
    <2>1. /\ \A l \in Current' : \E o \in Current :
               o = (IF l < k THEN l ELSE l + 1) /\ o # k /\ fetches'[l] = fetches[o]
          /\ \A o \in Current : o # k => \E l \in Current' : TRUE
      BY <1>2, SettledFetches
    <2>2. CASE fetches[k].cancelled
      <3>1. host' = host /\ loading' = loading /\ k \notin Current
        BY <1>2, <2>2 DEF Settle, Current
      <3>2. \A l \in Current' : fetches'[l].host = host' /\ loading'
        BY <2>1, <3>1 DEF FetchInv
      <3>3. ASSUME NEW l \in Current', NEW n \in Current' PROVE l = n
        <4>1. (IF l < k THEN l ELSE l + 1) = (IF n < k THEN n ELSE n + 1)
          BY <2>1 DEF FetchInv
        <4>2. l \in Nat /\ n \in Nat /\ k \in Nat
          <5>1. DOMAIN fetches' \subseteq Nat /\ k \in Nat
            BY <1>2, SettledFetches, LenProperties DEF TypeInv
          <5>2. QED
            BY <5>1 DEF Current
        <4>3. QED
          BY <4>1, <4>2
      <3>4. loading' => host' # NoDevice /\ Current' # {}
        BY <2>1, <3>1 DEF FetchInv
      <3>5. QED
        BY <3>2, <3>3, <3>4 DEF FetchInv
    <2>3. CASE ~fetches[k].cancelled
      <3>1. k \in Current /\ loading' = FALSE
        BY <1>2, <2>3 DEF Settle, Current
      <3>2. Current' = {}
        BY <2>1, <3>1 DEF FetchInv
      <3>3. QED
        BY <3>1, <3>2 DEF FetchInv
    <2>4. QED
      BY <2>2, <2>3
  <1>3. ASSUME NEW k \in DOMAIN fetches, NEW m \in Metrics, ServeRequest(k, m)
        PROVE  FetchInv'
    <2>1. Current' = Current /\ \A l \in DOMAIN fetches : fetches'[l].host = fetches[l].host
      BY <1>3, ServedFetches
    <2>2. host' = host /\ loading' = loading /\ Current \subseteq DOMAIN fetches
      BY <1>3 DEF ServeRequest, Current
    <2>3. QED
      BY <2>1, <2>2 DEF FetchInv
  <1>4. CASE \E m \in Metrics : OpenSocket(m) \/ LoseSocket(m) \/ Deliver(m)
    BY <1>4, FetchKept DEF OpenSocket, LoseSocket, Deliver
  <1>5. CASE \E h \in Hosts, m \in Metrics, i \in Interfaces :
               \E reading \in Readings(m) : Report(h, m, i, reading)
    BY <1>5, FetchKept DEF Report
  <1>6. CASE UNCHANGED vars
    BY <1>6, FetchKept DEF vars, tableVars
  <1>7. QED
    BY <1>1, <1>2, <1>3, <1>4, <1>5, <1>6 DEF Next

-----------------------------------------------------------------------------
(* What the table was told. *)

\* ToldInv of one interface in one metric.
Told(i, m) ==
  About(i, m) = {} =>
    /\ ~loading => \/ DrawnOf(i, m) = Normalized(m, telemetry[host][m][i])
                   \/ <<i, m>> \in missed
    /\ \A k \in Current :
         fetches[k].read[m] \notin {Unread, Failed} =>
           \/ fetches[k].read[m][i] = telemetry[host][m][i]
           \/ <<i, m>> \in missed \union overtaken

LEMMA ToldByParts ==
    ToldInv <=> (host # NoDevice => \A i \in Interfaces, m \in Metrics : Told(i, m))
  BY DEF ToldInv, Told

LEMMA ToldInit == Init => ToldInv
  BY DEF Init, ToldInv

\* A step that keeps what is drawn, the snapshot and the wire.
LEMMA ToldKept ==
    ASSUME NEW i \in Interfaces, NEW m \in Metrics, Told(i, m),
           About(i, m)' = {} => About(i, m) = {},
           UNCHANGED <<host, rows, loading, fetches>>,
           telemetry'[host][m][i] = telemetry[host][m][i],
           <<i, m>> \in missed => <<i, m>> \in missed',
           <<i, m>> \in overtaken => <<i, m>> \in overtaken'
    PROVE  Told(i, m)'
  BY DEF Told, DrawnOf, Current

LEMMA ToldStepShow ==
    ASSUME TypeInv, NEW h \in Hosts \union {NoDevice}, ShowDevice(h), h # NoDevice,
           NEW i \in Interfaces, NEW m \in Metrics
    PROVE  Told(i, m)'
  <1>1. loading' /\ Current' = {Len(fetches) + 1}
        /\ fetches'[Len(fetches) + 1].read[m] = Unread
    BY ShownFetches DEF ShowDevice
  <1>2. QED
    BY <1>1 DEF Told

LEMMA ToldStepLose ==
    ASSUME TypeInv, NEW m0 \in Metrics, LoseSocket(m0),
           NEW i \in Interfaces, NEW m \in Metrics, Told(i, m)
    PROVE  Told(i, m)'
  <1>1. /\ wire' = [wire EXCEPT ![m0] = << >>]
        /\ missed' = missed \union {<<wire[m0][n].interface, m0>> : n \in DOMAIN wire[m0]}
        /\ UNCHANGED <<host, rows, loading, fetches, telemetry, overtaken>>
    BY DEF LoseSocket
  <1>2. CASE m = m0 /\ About(i, m) # {}
    <2>1. <<i, m>> \in missed'
      BY <1>1, <1>2 DEF About
    <2>2. QED
      BY <2>1 DEF Told
  <1>3. CASE About(i, m) = {}
    BY <1>1, <1>3, ToldKept
  <1>4. CASE m # m0
    <2>1. wire'[m] = wire[m]
      BY <1>1, <1>4 DEF TypeInv
    <2>2. QED
      BY <1>1, <2>1, ToldKept DEF About
  <1>5. QED
    BY <1>2, <1>3, <1>4

LEMMA ToldStepServe ==
    ASSUME TypeInv, FetchInv, NEW k \in DOMAIN fetches, NEW m0 \in Metrics,
           ServeRequest(k, m0), NEW i \in Interfaces, NEW m \in Metrics, Told(i, m)
    PROVE  Told(i, m)'
  <1>1. /\ Current' = Current /\ Current \subseteq DOMAIN fetches
        /\ \A l \in DOMAIN fetches : \A n \in Metrics :
             <<l, n>> # <<k, m0>> => fetches'[l].read[n] = fetches[l].read[n]
        /\ fetches'[k].read[m0] \in {telemetry[fetches[k].host][m0], Failed}
    BY ServedFetches DEF Current
  <1>2. /\ UNCHANGED <<host, rows, loading, wire, telemetry, overtaken>>
        /\ missed' = IF k \in Current THEN missed \ (Interfaces \X {m0}) ELSE missed
    BY DEF ServeRequest
  <1>3. About(i, m)' = About(i, m) /\ DrawnOf(i, m)' = DrawnOf(i, m)
    BY <1>2 DEF About, DrawnOf
  <1>4. CASE k \notin Current
    BY <1>1, <1>2, <1>3, <1>4 DEF Told
  <1>5. CASE k \in Current
    <2>1. Current = {k} /\ fetches[k].host = host /\ loading
      BY <1>5 DEF FetchInv
    <2>2. CASE m = m0
      BY <1>1, <1>2, <2>1, <2>2 DEF Told
    <2>3. CASE m # m0
      <3>1. <<i, m>> \in missed => <<i, m>> \in missed'
        BY <1>2, <2>3
      <3>2. QED
        BY <1>1, <1>2, <1>3, <2>1, <2>3, <3>1 DEF Told
    <2>4. QED
      BY <2>2, <2>3
  <1>6. QED
    BY <1>4, <1>5

LEMMA ToldStepSettle ==
    ASSUME TypeInv, FetchInv, NEW k \in DOMAIN fetches, Settle(k),
           NEW i \in Interfaces, NEW m \in Metrics, Told(i, m)
    PROVE  Told(i, m)'
  <1>1. \A l \in Current' : \E o \in Current : o # k /\ fetches'[l] = fetches[o]
    BY SettledFetches
  <1>2. UNCHANGED <<host, wire, telemetry>>
    BY DEF Settle
  <1>3. About(i, m)' = About(i, m)
    BY <1>2 DEF About
  <1>4. CASE fetches[k].cancelled
    <2>1. UNCHANGED <<rows, loading, overtaken, missed>>
      BY <1>4 DEF Settle
    <2>2. QED
      BY <1>1, <1>2, <1>3, <2>1 DEF Told, DrawnOf
  <1>5. CASE ~fetches[k].cancelled
    <2>1. k \in Current /\ Current' = {}
      BY <1>1, <1>5 DEF FetchInv, Current
    <2>2. /\ rows' = Merged(fetches[k].read)
          /\ missed' = missed \union overtaken
               \union {im \in Interfaces \X Metrics : fetches[k].read[im[2]] = Failed}
          /\ \A n \in Metrics : fetches[k].read[n] # Unread
      BY <1>5 DEF Settle, IsRead
    <2>3. fetches[k] \in Requests
      BY LenProperties, ElementOfSeq DEF TypeInv
    <2>4. DrawnOf(i, m)' = Normalized(m, Value(fetches[k].read[m])[i])
      BY <2>2, <2>3, MergedFacts DEF DrawnOf
    <2>5. CASE fetches[k].read[m] = Failed
      BY <2>1, <2>2, <2>5 DEF Told
    <2>6. CASE fetches[k].read[m] # Failed
      <3>1. DrawnOf(i, m)' = Normalized(m, fetches[k].read[m][i])
        BY <2>4, <2>6 DEF Value
      <3>2. About(i, m) = {} => \/ fetches[k].read[m][i] = telemetry[host][m][i]
                               \/ <<i, m>> \in missed \union overtaken
        BY <2>1, <2>2, <2>6 DEF Told
      <3>3. QED
        BY <1>2, <1>3, <2>1, <2>2, <3>1, <3>2 DEF Told
    <2>7. QED
      BY <2>5, <2>6
  <1>6. QED
    BY <1>4, <1>5

LEMMA ToldStepDeliver ==
    ASSUME TypeInv, WireInv, NEW m0 \in Metrics, Deliver(m0), host # NoDevice,
           NEW i \in Interfaces, NEW m \in Metrics, Told(i, m)
    PROVE  Told(i, m)'
  <1> DEFINE message == wire[m0][1]
             i0 == message.interface
             value == Normalized(m0, message.reading)
             past == \E k \in Current :
                       /\ fetches[k].read[m0] \notin {Unread, Failed}
                       /\ fetches[k].read[m0][i0] # message.reading
  <1>1. /\ Head(wire[m0]) = message /\ 1 \in DOMAIN wire[m0]
        /\ i0 \in Interfaces /\ message.reading \in Readings(m0)
    BY AboutTail, WireFacts
  <1>2. /\ UNCHANGED <<host, loading, fetches, telemetry>>
        /\ (rows' = rows /\ value = "null") \/ rows' = Updated(i0, m0, value)
        /\ missed' = IF value = "null" THEN missed \union {<<i0, m0>>} ELSE missed \ {<<i0, m0>>}
        /\ overtaken' = IF past THEN overtaken \union {<<i0, m0>>} ELSE overtaken \ {<<i0, m0>>}
    BY <1>1 DEF Deliver, OperRows, StatsRows, Metrics
  <1>3. value \in Drawable(m0)
    BY <1>1, NormalizedType
  <1>0. i0 \in Interfaces
    BY <1>1
  <1> HIDE DEF value, i0
  <1>7. rows' = Updated(i0, m0, value) =>
          /\ DOMAIN rows' = DOMAIN rows \union {i0} /\ rows'[i0][m0] = value
          /\ \A n \in Metrics : n # m0 => rows'[i0][n] = RowOf(i0)[n]
          /\ \A j \in DOMAIN rows' : j # i0 => rows'[j] = RowOf(j)
    BY <1>0, <1>3, UpdatedFacts
  <1> USE DEF i0
  <1>4. CASE i = i0 /\ m = m0
    <2>1. SUFFICES ASSUME About(i, m)' = {}
                   PROVE  /\ ~loading => \/ DrawnOf(i, m)' = Normalized(m, telemetry[host][m][i])
                                         \/ <<i, m>> \in missed'
                          /\ \A k \in Current :
                               fetches[k].read[m] \notin {Unread, Failed} =>
                                 \/ fetches[k].read[m][i] = telemetry[host][m][i]
                                 \/ <<i, m>> \in missed' \union overtaken'
      BY <1>2 DEF Told, Current
    <2>2. 1 \in About(i, m) /\ \A p \in About(i, m) : p = 1
      BY <1>1, <1>4, <2>1, AboutTail DEF About
    <2>3. message.reading = telemetry[host][m][i]
      <3>1. \A p \in About(i, m) : p <= 1
        BY <2>2
      <3>2. QED
        BY <1>4, <2>2, <3>1 DEF WireInv
    <2>4. \/ DrawnOf(i, m)' = Normalized(m, telemetry[host][m][i])
          \/ <<i, m>> \in missed'
      <3>1. CASE value = "null"
        BY <1>2, <1>4, <3>1
      <3>2. CASE value # "null"
        <4>1. i0 \in DOMAIN rows' /\ rows'[i0][m0] = value
          BY <1>2, <1>7, <3>2
        <4> HIDE DEF i0
        <4>3. DrawnOf(i, m)' = value
          BY <1>4, <4>1 DEF DrawnOf
        <4>4. QED
          BY <1>4, <2>3, <4>3 DEF value
      <3>3. QED
        BY <3>1, <3>2
    <2>5. \A k \in Current :
            fetches[k].read[m] \notin {Unread, Failed} =>
              \/ fetches[k].read[m][i] = telemetry[host][m][i]
              \/ <<i, m>> \in overtaken'
      BY <1>2, <1>4, <2>3
    <2>6. QED
      BY <2>4, <2>5
  <1>5. CASE <<i, m>> # <<i0, m0>>
    <2>1. About(i, m)' = {} => About(i, m) = {}
      <3>1. CASE m = m0
        <4>1. 1 \notin About(i, m)
          BY <1>5, <3>1 DEF About
        <4>2. \A p \in About(i, m) : p - 1 \in About(i, m)'
          BY <3>1, <4>1, AboutTail
        <4>3. QED
          BY <4>2
      <3>2. CASE m # m0
        <4>1. wire'[m] = wire[m]
          BY <3>2 DEF Deliver, TypeInv
        <4>2. QED
          BY <4>1 DEF About
      <3>3. QED
        BY <3>1, <3>2
    <2>2. DrawnOf(i, m)' = DrawnOf(i, m)
      <3>1. CASE rows' = rows
        BY <3>1 DEF DrawnOf
      <3>2. CASE rows' = Updated(i0, m0, value)
        <4> HIDE DEF i0
        <4>1. DrawnOf(i, m) = RowOf(i)[m]
          BY DEF DrawnOf, RowOf
        <4>2. CASE i \notin DOMAIN rows'
          BY <1>7, <3>2, <4>2 DEF DrawnOf
        <4>3. CASE i = i0
          BY <1>5, <1>7, <3>2, <4>1, <4>3 DEF DrawnOf
        <4>4. CASE i \in DOMAIN rows' /\ i # i0
          BY <1>7, <3>2, <4>1, <4>4 DEF DrawnOf
        <4>5. QED
          BY <4>2, <4>3, <4>4
      <3>3. QED
        BY <1>2, <3>1, <3>2
    <2>3. /\ <<i, m>> \in missed => <<i, m>> \in missed'
          /\ <<i, m>> \in overtaken => <<i, m>> \in overtaken'
      BY <1>2, <1>5
    <2>4. QED
      BY <1>2, <2>1, <2>2, <2>3 DEF Told, Current
  <1>6. QED
    BY <1>4, <1>5

LEMMA ToldStepReport ==
    ASSUME TypeInv, WireInv, host # NoDevice,
           NEW h \in Hosts, NEW m0 \in Metrics, NEW i0 \in Interfaces,
           NEW reading \in Readings(m0), Report(h, m0, i0, reading),
           NEW i \in Interfaces, NEW m \in Metrics, Told(i, m)
    PROVE  Told(i, m)'
  <1>1. /\ UNCHANGED <<host, rows, loading, fetches, overtaken>>
        /\ telemetry' = [telemetry EXCEPT ![h][m0][i0] = reading]
        /\ missed' = IF h = host /\ sockets[m0] # "open" THEN missed \union {<<i0, m0>>}
                     ELSE missed
    BY DEF Report
  <1>2. /\ host \in Hosts
        /\ \A g \in Hosts, n \in Metrics, j \in Interfaces :
             <<g, n, j>> # <<h, m0, i0>> => telemetry'[g][n][j] = telemetry[g][n][j]
    BY <1>1 DEF TypeInv, AllAnswers
  <1>3. CASE h = host /\ <<i, m>> = <<i0, m0>> /\ sockets[m0] = "open"
    <2>1. About(i, m)' # {}
      BY <1>3, AboutReport
    <2>2. QED
      BY <2>1 DEF Told
  <1>4. CASE h = host /\ <<i, m>> = <<i0, m0>> /\ sockets[m0] # "open"
    BY <1>1, <1>4 DEF Told
  <1>5. CASE h # host \/ <<i, m>> # <<i0, m0>>
    <2>1. telemetry'[host][m][i] = telemetry[host][m][i]
      BY <1>2, <1>5
    <2>2. About(i, m)' = {} => About(i, m) = {}
      <3>1. CASE h # host
        <4>1. wire' = wire
          BY <3>1, AboutReport
        <4>2. QED
          BY <4>1 DEF About
      <3>2. CASE <<i, m>> # <<i0, m0>>
        BY <3>2, AboutReport
      <3>3. QED
        BY <1>5, <3>1, <3>2
    <2>3. QED
      BY <1>1, <2>1, <2>2, ToldKept
  <1>6. QED
    BY <1>3, <1>4, <1>5

LEMMA ToldStep ==
    ASSUME TypeInv, WireInv, FetchInv, ToldInv, [Next]_vars
    PROVE  ToldInv'
  <1>1. SUFFICES ASSUME host' # NoDevice, NEW i \in Interfaces, NEW m \in Metrics
                 PROVE  Told(i, m)'
    BY ToldByParts DEF ToldInv, Told
  <1>2. ASSUME NEW h \in Hosts \union {NoDevice}, ShowDevice(h)
        PROVE  Told(i, m)'
    BY <1>1, <1>2, ToldStepShow DEF ShowDevice
  <1>3. CASE host' = host
    <2>1. host # NoDevice /\ Told(i, m)
      BY <1>1, <1>3, ToldByParts
    <2>2. ASSUME NEW m0 \in Metrics, OpenSocket(m0)
          PROVE  Told(i, m)'
      BY <2>1, <2>2, ToldKept DEF OpenSocket, About
    <2>3. CASE UNCHANGED vars
      BY <2>1, <2>3, ToldKept DEF vars, tableVars, About
    <2>4. QED
      BY <1>2, <2>1, <2>2, <2>3, ToldStepLose, ToldStepServe, ToldStepSettle,
         ToldStepDeliver, ToldStepReport DEF Next
  <1>4. CASE host' # host
    <2>1. \E h \in Hosts \union {NoDevice} : ShowDevice(h)
      BY <1>4 DEF Next, vars, tableVars, OpenSocket, LoseSocket, Deliver, Settle,
                  ServeRequest, Report
    <2>2. QED
      BY <1>2, <2>1
  <1>5. QED
    BY <1>3, <1>4

-----------------------------------------------------------------------------
(* The theorems. *)

LEMMA Inductive == Spec => []IInv
  <1>1. Init => IInv
    BY TypeInit, WireInit, FetchInit, ToldInit DEF IInv
  <1>2. IInv /\ [Next]_vars => IInv'
    BY TypeStep, WireStep, FetchStep, ToldStep DEF IInv
  <1>3. QED
    BY <1>1, <1>2, PTL DEF Spec

\* What the component, its requests and its sockets hold keeps its type, whatever
\* arrives in whatever order (InterfaceStatistics).
THEOREM TypeCorrect == Spec => []TypeOK
  <1>1. TypeInv => TypeOK
    <2> SUFFICES ASSUME TypeInv PROVE TypeOK
      OBVIOUS
    <2>1. \A j \in DOMAIN rows : /\ rows[j].oper \in {"UP", "DOWN", "null"}
                                 /\ rows[j].stats \in Readings("stats") \union {"0"}
      <3>1. \A r \in Rows : r["oper"] \in {"UP", "DOWN", "null"}
                            /\ r["stats"] \in Readings("stats") \union {"0"}
        BY DEF Rows, Drawable, Metrics, Readings
      <3>2. QED
        BY <3>1 DEF TypeInv
    <2>2. \A m \in Metrics : \A n \in 1..Len(wire[m]) :
            wire[m][n] \in [interface : Interfaces, reading : Readings(m)]
      <3> SUFFICES ASSUME NEW m \in Metrics, NEW n \in 1..Len(wire[m])
                   PROVE  wire[m][n] \in [interface : Interfaces, reading : Readings(m)]
        OBVIOUS
      <3>1. wire[m][n] \in Messages
        BY WireFacts, ElementOfSeq
      <3>2. wire[m][n].interface \in Interfaces /\ wire[m][n].reading \in Readings(m)
        BY WireFacts
      <3>3. QED
        BY <3>1, <3>2 DEF Messages
    <2>3. QED
      BY <2>1, <2>2 DEF TypeInv, TypeOK
  <1>2. QED
    BY <1>1, Inductive, PTL DEF IInv

\* With the snapshot there and nothing on a wire, the table shows the last report
\* of each interface, but for those it was not told of (fetchInterfaces and the
\* two onmessage).
THEOREM DrawnAsReported == Spec => []DrawnIsCurrent
  <1>1. IInv => DrawnIsCurrent
    <2>1. \A m \in Metrics : wire[m] = << >> => \A i \in Interfaces : About(i, m) = {}
      <3>1. DOMAIN << >> = {}
        OBVIOUS
      <3>2. QED
        BY <3>1 DEF About
    <2>2. QED
      BY <2>1 DEF IInv, ToldInv, DrawnIsCurrent
  <1>2. QED
    BY <1>1, Inductive, PTL
=============================================================================
