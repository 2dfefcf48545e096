----------------------------- MODULE ConsoleProofs -----------------------------
(***************************************************************************)
(* What Console promises, for any bounds, number of pages and start        *)
(* routes: its types, the columns, the options of the filter panels, the   *)
(* marks and the errors of the tables, that what is shown is what would be *)
(* asked for now, that the page shown exists, and which routes can throw.  *)
(* What each invariant needs is proved first, the theorems come last.      *)
(***************************************************************************)
EXTENDS Console, SequenceTheorems, FiniteSetTheorems, TLAPS

-----------------------------------------------------------------------------
(* The columns. *)

Tags == {"device", "tag", "LSN"}

ColumnsInv ==
  /\ columns \in [Lists -> SUBSET [tag : Tags, object : Nat]] /\ births \in Nat
  /\ ColumnsOnce

LEMMA PanelsOffer ==
    ASSUME NEW l \in PickableLists
    PROVE  /\ ColumnPanelOf(l).offers \subseteq Tags
           /\ l # "trapSignalTable" => ColumnPanelOf(l).by = "value"
  BY DEF PickableLists, ColumnPanelOf, Tags, ColumnPanel, SyslogEventTableTags, SnmpTrapEventTableTags,
    SyslogSignalTableTags, SnmpTrapSignalTableTags, SyslogEventStatisticTags, SnmpTrapEventStatisticTags,
    SyslogSignalStatisticTags, SnmpTrapSignalStatisticTags

LEMMA DefaultOnce ==
    /\ DefaultColumns \in [Lists -> SUBSET [tag : Tags, object : Nat]]
    /\ \A l \in Lists : \A c, d \in DefaultColumns[l] : c = d
  BY DEF DefaultColumns, Tags

LEMMA PickedOnce ==
    ASSUME ColumnsInv, NEW tag, PickColumn(tag)
    PROVE  ColumnsInv'
  <1> DEFINE list == PanelOf(popup)
             exact == ColumnPanelOf(list).by = "object"
             column == [tag |-> tag, object |-> IF exact THEN births ELSE 0]
             same == {c \in columns[list] : IF exact THEN c = column ELSE c.tag = tag}
             new == Picked(list, tag)
  <1>1. /\ list \in PickableLists /\ tag \in ColumnPanelOf(list).offers
        /\ columns' = [columns EXCEPT ![list] = new] /\ births' = births
    BY DEF PickColumn
  <1>2. list \in Lists /\ tag \in Tags /\ (list # "trapSignalTable" => ~exact)
    BY <1>1, PanelsOffer DEF Lists
  <1>3. new = IF same # {} THEN columns[list] \ same ELSE columns[list] \union {column}
    BY DEF Picked
  <1>4. columns[list] \subseteq [tag : Tags, object : Nat] /\ column \in [tag : Tags, object : Nat]
    BY <1>2 DEF ColumnsInv
  <1>5. new \subseteq [tag : Tags, object : Nat]
    BY <1>3, <1>4
  <1>6. ASSUME list # "trapSignalTable", NEW c \in new, NEW d \in new, c.tag = d.tag PROVE c = d
    <2>1. \A x, y \in columns[list] : x.tag = y.tag => x = y
      BY <1>2, <1>6 DEF ColumnsInv, ColumnsOnce
    <2>2. CASE same # {}
      BY <1>3, <1>6, <2>1, <2>2
    <2>3. CASE same = {}
      <3>1. \A x \in columns[list] : x.tag # tag
        BY <1>2, <1>6, <2>3
      <3>2. new = columns[list] \union {column} /\ column.tag = tag
        BY <1>3, <2>3
      <3>3. QED
        BY <1>6, <2>1, <3>1, <3>2
    <2>4. QED
      BY <2>2, <2>3
  <1> HIDE DEF list, exact, column, same, new
  <1>7. columns' \in [Lists -> SUBSET [tag : Tags, object : Nat]]
    BY <1>1, <1>2, <1>5 DEF ColumnsInv
  <1>8. \A l \in Lists : columns'[l] = IF l = list THEN new ELSE columns[l]
    BY <1>1, <1>2 DEF ColumnsInv
  <1>9. ColumnsOnce'
    BY <1>6, <1>8 DEF ColumnsInv, ColumnsOnce
  <1>10. QED
    BY <1>1, <1>7, <1>9 DEF ColumnsInv

\* The steps that leave the columns alone.
OtherStep ==
  \/ Logout \/ GuestLogin \/ SessionExpires \/ PressButton \/ ClosePopup \/ ChooseRange \/ TagsArrive
  \/ \E r \in StartRoutes : Back(r)
  \/ \E tag \in {"device", "tag", "LSN"} : ChooseMetric(tag)
  \/ AskOptions \/ ChooseField \/ OptionsAnswer \/ Search \/ ResetFilters
  \/ \E p \in 1..MaxPage : TurnPage(p)
  \/ \E i \in 1..2 : MarkRow(i)
  \/ \E order \in {"given", "reversed", "filtered"} : Rearrange(order)
  \/ \E i \in DOMAIN hook.requests : Answer(i) \/ Fail(i)

LEMMA ColumnsKept ==
    ASSUME ColumnsInv, OtherStep
    PROVE  columns' = columns /\ births' \in {births, births + 1}
  <1>1. CASE Logout \/ GuestLogin \/ SessionExpires \/ ClosePopup \/ ChooseRange \/ TagsArrive
    BY <1>1 DEF Logout, GuestLogin, SessionExpires, ClosePopup, PopupBecomes, ChooseRange, TagsArrive, appVars
  <1>2. CASE PressButton
    BY <1>2 DEF PressButton, PopupBecomes
  <1>3. ASSUME NEW r \in StartRoutes, Back(r) PROVE columns' = columns /\ births' = births
    BY <1>3 DEF Back
  <1>4. ASSUME NEW tag, ChooseMetric(tag) PROVE columns' = columns /\ births' = births
    BY <1>4 DEF ChooseMetric, appVars
  <1>5. CASE AskOptions \/ ChooseField \/ OptionsAnswer \/ Search \/ ResetFilters
    BY <1>5 DEF AskOptions, ChooseField, OptionsAnswer, Search, ResetFilters, appVars
  <1>6. ASSUME NEW p, TurnPage(p) PROVE columns' = columns /\ births' = births
    BY <1>6 DEF TurnPage, appVars
  <1>7. ASSUME NEW i, MarkRow(i) PROVE columns' = columns /\ births' = births
    BY <1>7 DEF MarkRow, appVars
  <1>8. ASSUME NEW order, Rearrange(order) PROVE columns' = columns /\ births' = births
    BY <1>8 DEF Rearrange, appVars
  <1>9. ASSUME NEW i, Answer(i) \/ Fail(i) PROVE columns' = columns /\ births' = births
    BY <1>9 DEF Answer, Fail, Settled, appVars
  <1>10. QED
    BY <1>1, <1>2, <1>3, <1>4, <1>5, <1>6, <1>7, <1>8, <1>9 DEF OtherStep

LEMMA ColumnsStep == ColumnsInv /\ [Next]_vars => ColumnsInv'
  <1> SUFFICES ASSUME ColumnsInv, [Next]_vars PROVE ColumnsInv'
    OBVIOUS
  <1>1. CASE UNCHANGED vars
    BY <1>1 DEF vars, appVars, ColumnsInv, ColumnsOnce
  <1>2. CASE Reload
    BY <1>2, DefaultOnce DEF Reload, ColumnsInv, ColumnsOnce
  <1>3. ASSUME NEW tag \in {"device", "tag", "LSN"}, PickColumn(tag) PROVE ColumnsInv'
    BY <1>3, PickedOnce
  <1>4. CASE OtherStep
    BY <1>4, ColumnsKept DEF ColumnsInv, ColumnsOnce
  <1>5. QED
    BY <1>1, <1>2, <1>3, <1>4 DEF Next, OtherStep

LEMMA ColumnsInit == Init => ColumnsInv
  <1> SUFFICES ASSUME Init PROVE ColumnsInv
    OBVIOUS
  <1>1. columns = DefaultColumns /\ births = 0
    BY DEF Init
  <1>2. QED
    BY <1>1, DefaultOnce DEF ColumnsInv, ColumnsOnce

-----------------------------------------------------------------------------
(* The routes and the popups. *)

BlankInv ==
  /\ route \in Routes
  /\ blank => route \in TrapSignals
  /\ ~blank => PanelOf(popup) \notin ThrowingPanels

LEMMA HeadingsThrow ==
    ASSUME NEW r \in Routes, ViewAt(r).charts.heading = "column.charAt", ViewAt(r).columns # NoList
    PROVE  r \in TrapSignals
  <1> USE DEF NoList, NoCharts, Charts, Table, Statistics, Page
  <1>1. CASE r \in SignalAndDeviceRoutes
    BY <1>1 DEF ViewAt, SignalAndDeviceRoutes, SignalAndDeviceView, Nothing, Incidents, SyslogSignalTable,
      SyslogSignalStatistics, SnmpTrapSignalTable, SnmpTrapSignalStatistics, TelemetrySignalTable,
      TelemetrySignalStatistics, SyslogSignalCharts, SnmpTrapSignalCharts, TelemetrySignalCharts, TrapSignals
  <1>2. CASE r \notin SignalAndDeviceRoutes
    BY <1>2 DEF ViewAt, Routes, EventAndTrafficRoutes, EventAndTrafficView, SyslogEventTable,
      SyslogEventStatistics, SnmpTrapEventTable, SnmpTrapEventStatistics, TrafficTable, TrafficStatistics,
      BgpLinkStateEventTable, SyslogEventCharts, SnmpTrapEventCharts, TrafficCharts
  <1>3. QED
    BY <1>1, <1>2

LEMMA ThrowsOnTrapSignals ==
    ASSUME NEW r \in Routes, NEW p, NEW lists, PanelOf(p) \notin ThrowingPanels, RenderThrows(r, p, lists)
    PROVE  r \in TrapSignals
  BY HeadingsThrow DEF RenderThrows, TagsOf

LEMMA NoPanel == PanelOf(NoPopup) = NoPopup /\ NoPopup \notin ThrowingPanels
  BY DEF PanelOf, NoPopup, ThrowingPanels

LEMMA ThrowingPopup ==
    ASSUME NEW p, PanelOf(p) \in ThrowingPanels
    PROVE  p = "filter-snmptrap-signals"
  BY DEF PanelOf, NoPopup, ThrowingPanels, OtherPanels

LEMMA OpensFacts ==
    ASSUME NEW popups, NEW button \in Opens(popups)
    PROVE  button.goes = "stay" /\ button.opens \in popups
  BY DEF Opens

LEMMA GoesFacts ==
    ASSUME NEW routes, NEW button \in Goes(routes)
    PROVE  button.goes \in routes /\ button.opens = NoPopup
  BY DEF Goes

\* Where a button leads to, and what it opens.
Known(button) == button.goes = "stay" \/ button.goes \in Routes
Harmless(button) == button.opens # "filter-snmptrap-signals"

LEMMA GoesKnown ==
    ASSUME NEW routes, routes \subseteq Routes, NEW button \in Goes(routes)
    PROVE  Known(button) /\ Harmless(button)
  BY GoesFacts DEF Known, Harmless, NoPopup

LEMMA OpensKnown ==
    ASSUME NEW popups, "filter-snmptrap-signals" \notin popups, NEW button \in Opens(popups)
    PROVE  Known(button) /\ Harmless(button)
  BY OpensFacts DEF Known, Harmless

LEMMA ButtonKinds ==
    ASSUME NEW r \in Routes, NEW button \in Buttons(r, TRUE)
    PROVE  Known(button) /\ (r \in TrapSignals \/ Harmless(button))
  <1>1. ASSUME button \in Sidebar \union NavigationOptions(ViewAt(r).title)
        PROVE  Known(button) /\ Harmless(button)
    <2>1. PICK routes \in SUBSET Routes : button \in Goes(routes)
      <3>1. CASE button \in Sidebar
        BY <3>1 DEF Sidebar, Routes, SignalAndDeviceRoutes, EventAndTrafficRoutes
      <3>2. CASE button \in NavigationOptions(ViewAt(r).title)
        BY <3>2 DEF NavigationOptions, Routes, SignalAndDeviceRoutes, EventAndTrafficRoutes
      <3>3. QED
        BY <1>1, <3>1, <3>2
    <2>2. QED
      BY <2>1, GoesKnown
  <1>2. ASSUME button \in SignalButtons(r), r \notin TrapSignals
        PROVE  Known(button) /\ Harmless(button)
    <2>1. CASE r \in SyslogSignals /\ button \in Goes(Others(SyslogSignals, r))
      BY <2>1, GoesKnown DEF Others, SyslogSignals, Routes, SignalAndDeviceRoutes
    <2>2. CASE button \in Opens({"syslog-signals-severity", "stateful-syslog-rules",
                 IF r \in StatisticsRoutes THEN "syslog-signal-statistics-tags" ELSE "syslog-signal-table-tags"})
      BY <2>2, OpensKnown
    <2>3. CASE button \in Opens({FilterPopup("Signals", r), "timerange", "export", "user-profile"})
      <3>1. FilterPopup("Signals", r) # "filter-snmptrap-signals"
        BY <1>2 DEF FilterPopup
      <3>2. QED
        BY <2>3, <3>1, OpensKnown
    <2>4. QED
      BY <1>2, <2>1, <2>2, <2>3 DEF SignalButtons
  <1>3. ASSUME button \in SignalButtons(r), r \in TrapSignals
        PROVE  Known(button)
    <2>1. CASE button \in Goes(Others(SyslogSignals, r)) \union Goes(Others(TrapSignals, r))
      BY <2>1, GoesFacts DEF Known, Others, SyslogSignals, TrapSignals, Routes, SignalAndDeviceRoutes
    <2>2. CASE \E popups : button \in Opens(popups)
      BY <2>2, OpensFacts DEF Known
    <2>3. QED
      BY <1>3, <2>1, <2>2 DEF SignalButtons
  <1>4. ASSUME button \in EventButtons(r)
        PROVE  Known(button) /\ Harmless(button)
    <2>1. CASE button \in Goes(Others(SyslogEvents, r)) \union Goes(Others(TrapEvents, r))
      BY <2>1, GoesKnown DEF Others, SyslogEvents, TrapEvents, Routes, EventAndTrafficRoutes
    <2>2. CASE button \in Opens({"syslog-mnemonics", "syslog-regexes",
                 IF r \in StatisticsRoutes THEN "syslog-event-statistics-tags" ELSE "syslog-event-table-tags"})
      BY <2>2, OpensKnown
    <2>3. CASE button \in Opens({"snmptrap-mibs", "snmptrap-oids", "snmptrap-tag-config",
                 IF r \in StatisticsRoutes THEN "snmptrap-event-statistics-tags" ELSE "snmptrap-event-table-tags"})
      BY <2>3, OpensKnown
    <2>4. CASE button \in Opens({FilterPopup("Events", r), "timerange", "export", "user-profile"})
      <3>1. FilterPopup("Events", r) # "filter-snmptrap-signals"
        BY DEF FilterPopup
      <3>2. QED
        BY <2>4, <3>1, OpensKnown
    <2>5. QED
      BY <1>4, <2>1, <2>2, <2>3, <2>4 DEF EventButtons
  <1>5. ASSUME button \in DeviceButtons(TRUE)
        PROVE  Known(button) /\ Harmless(button)
    BY <1>5, OpensKnown DEF DeviceButtons
  <1>6. ASSUME button \in TrafficAndPageButtons(ViewAt(r).title, r)
        PROVE  Known(button) /\ Harmless(button)
    <2>1. CASE button \in Goes(Others(Traffic, r)) \union Goes(Others(Topology, r))
      BY <2>1, GoesKnown DEF Others, Traffic, Topology, Routes, EventAndTrafficRoutes
    <2>2. CASE button \in Opens({"filter-traffic", "timerange", "user-profile"} \union
                 (IF r \in StatisticsRoutes THEN {"traffic-statistics-tags"} ELSE {}))
      BY <2>2, OpensKnown
    <2>3. CASE button \in Opens({"filter-device", "timerange", "user-profile"})
      BY <2>3, OpensKnown
    <2>4. QED
      BY <1>6, <2>1, <2>2, <2>3 DEF TrafficAndPageButtons
  <1>7. QED
    BY <1>1, <1>2, <1>3, <1>4, <1>5, <1>6 DEF Buttons

\* The steps that neither move nor open nor close anything.
StayingStep ==
  \/ SessionExpires \/ ChooseRange \/ TagsArrive \/ AskOptions \/ ChooseField \/ OptionsAnswer
  \/ Search \/ ResetFilters
  \/ \E tag \in {"device", "tag", "LSN"} : ChooseMetric(tag)
  \/ \E p \in 1..MaxPage : TurnPage(p)
  \/ \E i \in 1..2 : MarkRow(i)
  \/ \E order \in {"given", "reversed", "filtered"} : Rearrange(order)
  \/ \E i \in DOMAIN hook.requests : Answer(i) \/ Fail(i)

LEMMA ChromeKept ==
    ASSUME StayingStep
    PROVE  UNCHANGED <<session, route, popup, blank>>
  <1>1. CASE SessionExpires \/ ChooseRange \/ TagsArrive
    BY <1>1 DEF SessionExpires, ChooseRange, TagsArrive, appVars
  <1>2. ASSUME NEW tag, ChooseMetric(tag) PROVE UNCHANGED <<session, route, popup, blank>>
    BY <1>2 DEF ChooseMetric, appVars
  <1>3. CASE AskOptions \/ ChooseField \/ OptionsAnswer \/ Search \/ ResetFilters
    BY <1>3 DEF AskOptions, ChooseField, OptionsAnswer, Search, ResetFilters, appVars
  <1>4. ASSUME NEW p, TurnPage(p) PROVE UNCHANGED <<session, route, popup, blank>>
    BY <1>4 DEF TurnPage, appVars
  <1>5. ASSUME NEW i, MarkRow(i) PROVE UNCHANGED <<session, route, popup, blank>>
    BY <1>5 DEF MarkRow, appVars
  <1>6. ASSUME NEW order, Rearrange(order) PROVE UNCHANGED <<session, route, popup, blank>>
    BY <1>6 DEF Rearrange, appVars
  <1>7. ASSUME NEW i, Answer(i) \/ Fail(i) PROVE UNCHANGED <<session, route, popup, blank>>
    BY <1>7 DEF Answer, Fail, Settled, appVars
  <1>8. QED
    BY <1>1, <1>2, <1>3, <1>4, <1>5, <1>6, <1>7 DEF StayingStep

LEMMA StartsKnown == StartRoutes \subseteq Routes
  BY ConsoleAssumption

\* A render of route r with popup p and the columns lists.
LEMMA Rendered ==
    ASSUME NEW r \in Routes, NEW p, NEW lists, NEW b, b = RenderThrows(r, p, lists),
           PanelOf(p) \in ThrowingPanels => r \in TrapSignals
    PROVE  /\ b => r \in TrapSignals
           /\ ~b => PanelOf(p) \notin ThrowingPanels
  <1>1. PanelOf(p) \in ThrowingPanels => RenderThrows(r, p, lists)
    BY DEF RenderThrows
  <1>2. RenderThrows(r, p, lists) => r \in TrapSignals
    BY ThrowsOnTrapSignals
  <1>3. QED
    BY <1>1, <1>2

LEMMA BlankInit == Init => BlankInv
  <1> SUFFICES ASSUME Init PROVE BlankInv
    OBVIOUS
  <1>1. route \in Routes /\ popup = NoPopup /\ blank = RenderThrows(route, NoPopup, DefaultColumns)
    BY StartsKnown DEF Init
  <1>2. QED
    BY <1>1, NoPanel, Rendered DEF BlankInv

LEMMA BlankStep == BlankInv /\ [Next]_vars => BlankInv'
  <1> SUFFICES ASSUME BlankInv, [Next]_vars PROVE BlankInv'
    OBVIOUS
  <1>1. CASE UNCHANGED vars
    BY <1>1 DEF vars, appVars, BlankInv
  <1>2. CASE StayingStep
    BY <1>2, ChromeKept DEF BlankInv
  <1>3. CASE Reload
    <2>1. route' = route /\ popup' = NoPopup /\ blank' = RenderThrows(route, NoPopup, DefaultColumns)
      BY <1>3 DEF Reload, Shows
    <2>2. QED
      BY <2>1, NoPanel, Rendered DEF BlankInv
  <1>4. CASE Logout
    <2>1. route' = "login" /\ popup' = popup /\ blank' = blank /\ ~blank
      BY <1>4 DEF Logout, Clicked
    <2>2. "login" \in Routes
      BY DEF Routes, SignalAndDeviceRoutes
    <2>3. QED
      BY <2>1, <2>2 DEF BlankInv
  <1>5. CASE GuestLogin
    <2>1. route' = route /\ popup' = popup /\ ~blank /\ blank' = RenderThrows("login", popup, columns)
      BY <1>5 DEF GuestLogin, Clicked, Shows
    <2>2. "login" \in Routes \ TrapSignals
      BY DEF Routes, SignalAndDeviceRoutes, TrapSignals
    <2>3. QED
      BY <2>1, <2>2, Rendered DEF BlankInv
  <1>6. CASE PressButton
    <2>1. PICK button \in Buttons(route, TRUE) :
            IF button.goes = "stay"
            THEN /\ PopupBecomes(button.opens)
                 /\ UNCHANGED <<session, kc, route, filters, columns>>
            ELSE /\ Navigation(button.goes)
                 /\ popup' = NoPopup /\ PanelCloses
                 /\ Shows(button.goes, NoPopup, columns)
                 /\ UNCHANGED <<session, kc, range, filters, columns, births>>
      BY <1>6 DEF PressButton
    <2>2. Known(button) /\ (route \in TrapSignals \/ Harmless(button))
      BY ButtonKinds DEF BlankInv
    <2>3. CASE button.goes = "stay"
      <3>1. route' = route /\ popup' = button.opens /\ blank' = RenderThrows(route, button.opens, columns)
        BY <2>1, <2>3 DEF PopupBecomes, Shows
      <3>2. PanelOf(button.opens) \in ThrowingPanels => route \in TrapSignals
        BY <2>2, ThrowingPopup DEF Harmless
      <3>3. QED
        BY <3>1, <3>2, Rendered DEF BlankInv
    <2>4. CASE button.goes # "stay"
      <3>1. /\ route' = button.goes /\ button.goes \in Routes /\ popup' = NoPopup
            /\ blank' = RenderThrows(button.goes, NoPopup, columns)
        BY <2>1, <2>2, <2>4 DEF Navigation, Shows, Known
      <3>2. QED
        BY <3>1, NoPanel, Rendered DEF BlankInv
    <2>5. QED
      BY <2>3, <2>4
  <1>7. ASSUME NEW r \in StartRoutes, Back(r) PROVE BlankInv'
    <2>1. route' = r /\ popup' = popup /\ ~blank /\ blank' = RenderThrows(r, popup, columns)
      BY <1>7 DEF Back, Navigation, Clicked, Shows
    <2>2. QED
      BY <2>1, StartsKnown, Rendered DEF BlankInv
  <1>8. CASE ClosePopup
    <2>1. route' = route /\ popup' = NoPopup /\ blank' = RenderThrows(route, NoPopup, columns)
      BY <1>8 DEF ClosePopup, PopupBecomes, Shows
    <2>2. QED
      BY <2>1, NoPanel, Rendered DEF BlankInv
  <1>9. ASSUME NEW tag, PickColumn(tag) PROVE BlankInv'
    <2>1. route' = route /\ popup' = popup /\ blank' = RenderThrows(route, popup, columns') /\ ~blank
      BY <1>9 DEF PickColumn, Clicked, Shows
    <2>2. QED
      BY <2>1, Rendered DEF BlankInv
  <1>10. QED
    BY <1>1, <1>2, <1>3, <1>4, <1>5, <1>6, <1>7, <1>8, <1>9 DEF Next, StayingStep

-----------------------------------------------------------------------------
(* The filter panels. *)

AllFields == {"device", "severity", "snmpTrapOid", "protocol"}
Listed == [others : SUBSET AllFields, moved : Moves]
Asked == [field : AllFields, others : SUBSET AllFields, moved : Moves]

\* The options a field lists, or is about to list, fit the choice or lag
\* behind it in one of the known ways.
Fit(o, f, panel) == \/ o.others = OtherFields(f)
                    \/ o.moved \in {"chosen", "late"}
                    \/ o.moved = "kept" /\ ~panel.clears

Follows(r) == r.others = OtherFields(r.field) \/ r.moved \in {"chosen", "late"}

PanelFits(panel) ==
  /\ chosen \subseteq AllFields
  /\ DOMAIN options \subseteq AllFields
  /\ \A f \in DOMAIN options : options[f] \in Listed /\ Fit(options[f], f, panel)
  /\ optionRequests \in Seq(Asked)
  /\ \A i \in DOMAIN optionRequests :
       Follows(optionRequests[i])

PanelEmpty == chosen = {} /\ options = << >> /\ optionRequests = << >>

OptionsInv == /\ FilterOpen => PanelFits(PanelNow)
              /\ ~FilterOpen => PanelEmpty

LEMMA EmptyFits ==
    ASSUME NEW panel, PanelEmpty
    PROVE  PanelFits(panel)
  BY DEF PanelEmpty, PanelFits

LEMMA EmptyInv == PanelEmpty => OptionsInv
  BY EmptyFits DEF OptionsInv

LEMMA PanelFields ==
    ASSUME NEW name \in FilterPanels
    PROVE  /\ FilterPanelOf(name).fields \subseteq AllFields
           /\ FilterPanelOf(name).clears \in BOOLEAN
  BY DEF FilterPanels, FilterPanelOf, AllFields, SyslogEventFilters, SyslogSignalFilters, SnmpTrapEventFilters,
    FilterTraffic, SyslogEventFields, SyslogSignalFields, SnmpTrapEventFields, TrafficFields

LEMMA RemoveAtFacts ==
    ASSUME NEW S, NEW s \in Seq(S), NEW k \in DOMAIN s
    PROVE  /\ RemoveAt(s, k) \in Seq(S)
           /\ DOMAIN RemoveAt(s, k) = 1..(Len(s) - 1)
           /\ \A n \in 1..(Len(s) - 1) :
                RemoveAt(s, k)[n] = IF n < k THEN s[n] ELSE s[n + 1]
  <1> DEFINE a == SubSeq(s, 1, k - 1)
             b == SubSeq(s, k + 1, Len(s))
  <1>1. k \in 1..Len(s) /\ Len(s) \in Nat /\ \A n \in 1..Len(s) : s[n] \in S
    BY LenProperties
  <1>2. a \in Seq(S) /\ Len(a) = k - 1 /\ \A n \in 1..(k - 1) : a[n] = s[n]
    BY <1>1, SubSeqProperties
  <1>3. b \in Seq(S) /\ Len(b) = Len(s) - k /\ \A n \in 1..(Len(s) - k) : b[n] = s[k + n]
    BY <1>1, SubSeqProperties
  <1>4. RemoveAt(s, k) = a \o b
    BY DEF RemoveAt
  <1> HIDE DEF a, b
  <1>5. /\ a \o b \in Seq(S) /\ Len(a \o b) = Len(s) - 1
        /\ \A n \in 1..(Len(s) - 1) :
             (a \o b)[n] = IF n <= k - 1 THEN a[n] ELSE b[n - (k - 1)]
    <2>1. Len(a) + Len(b) = Len(s) - 1 /\ Len(a) \in Nat /\ Len(b) \in Nat
      BY <1>1, <1>2, <1>3
    <2>2. /\ a \o b \in Seq(S) /\ Len(a \o b) = Len(a) + Len(b)
          /\ \A n \in 1..(Len(a) + Len(b)) :
               (a \o b)[n] = IF n <= Len(a) THEN a[n] ELSE b[n - Len(a)]
      BY <1>2, <1>3, ConcatProperties
    <2>3. QED
      BY <1>2, <2>1, <2>2
  <1>6. DOMAIN (a \o b) = 1..(Len(s) - 1)
    BY <1>5, LenProperties
  <1>7. ASSUME NEW n \in 1..(Len(s) - 1)
        PROVE  (a \o b)[n] = IF n < k THEN s[n] ELSE s[n + 1]
    <2>1. CASE n < k
      BY <1>1, <1>2, <1>5, <2>1
    <2>2. CASE ~(n < k)
      <3>1. n - (k - 1) \in 1..(Len(s) - k) /\ k + (n - (k - 1)) = n + 1
        BY <1>1, <2>2
      <3>2. b[n - (k - 1)] = s[n + 1]
        BY <1>3, <3>1
      <3>3. (a \o b)[n] = b[n - (k - 1)]
        BY <1>1, <1>5, <2>2
      <3>4. QED
        BY <2>2, <3>2, <3>3
    <2>3. QED
      BY <2>1, <2>2
  <1>8. QED
    BY <1>4, <1>5, <1>6, <1>7

LEMMA RemovedFacts ==
    ASSUME NEW S, NEW s \in Seq(S), NEW k \in DOMAIN s
    PROVE  /\ RemoveAt(s, k) \in Seq(S)
           /\ \A n \in DOMAIN RemoveAt(s, k) : \E m \in DOMAIN s : RemoveAt(s, k)[n] = s[m]
  <1>1. Len(s) \in Nat /\ DOMAIN s = 1..Len(s)
    BY LenProperties
  <1>2. \A n \in 1..(Len(s) - 1) : n \in DOMAIN s /\ n + 1 \in DOMAIN s
    BY <1>1
  <1>3. QED
    BY <1>2, RemoveAtFacts

LEMMA MenuFits ==
    ASSUME NEW panel, panel.fields \subseteq AllFields, PanelFits(panel), NEW f, OpenMenu(panel, f)
    PROVE  PanelFits(panel)'
  <1> DEFINE new == [field |-> f, others |-> OtherFields(f), moved |-> "no"]
  <1>1. f \in AllFields /\ chosen' = chosen /\ options' = options /\ optionRequests' = Append(optionRequests, new)
    BY DEF OpenMenu
  <1>2. new \in Asked
    BY <1>1 DEF PanelFits, Asked, OtherFields, Moves
  <1>3. /\ optionRequests' \in Seq(Asked)
        /\ \A i \in DOMAIN optionRequests' : \/ i \in DOMAIN optionRequests /\ optionRequests'[i] = optionRequests[i]
                                             \/ optionRequests'[i] = new
    <2>1. optionRequests \in Seq(Asked)
      BY DEF PanelFits
    <2> HIDE DEF new
    <2>2. QED
      BY <1>1, <1>2, <2>1, AppendProperties, LenProperties
  <1>4. new.others = OtherFields(new.field)
    OBVIOUS
  <1> HIDE DEF new
  <1>5. QED
    BY <1>1, <1>3, <1>4 DEF PanelFits, Fit, OtherFields, Follows

LEMMA ArrivalFits ==
    ASSUME NEW panel, PanelFits(panel), NEW i \in DOMAIN optionRequests, OptionsArrive(i) \/ OptionsFail(i)
    PROVE  PanelFits(panel)'
  <1>1. optionRequests \in Seq(Asked) /\ optionRequests' = RemoveAt(optionRequests, i) /\ chosen' = chosen
    BY DEF PanelFits, OptionsArrive, OptionsFail
  <1>2. /\ optionRequests' \in Seq(Asked)
        /\ \A n \in DOMAIN optionRequests' : \E m \in DOMAIN optionRequests : optionRequests'[n] = optionRequests[m]
    BY <1>1, RemovedFacts
  <1>3. optionRequests[i] \in Asked
    BY <1>1, ElementOfSeq, LenProperties
  <1>4. /\ DOMAIN options' \subseteq AllFields
        /\ \A f \in DOMAIN options' : options'[f] \in Listed /\ Fit(options'[f], f, panel)
    <2>1. CASE OptionsFail(i)
      BY <2>1 DEF OptionsFail, PanelFits
    <2>2. CASE OptionsArrive(i)
      <3> DEFINE r == optionRequests[i]
                 new == [others |-> r.others, moved |-> r.moved]
      <3>1. new \in Listed /\ r.field \in AllFields
        BY <1>3 DEF Asked, Listed
      <3>2. r.others = OtherFields(r.field) \/ r.moved \in {"chosen", "late"}
        BY DEF PanelFits, Follows
      <3>3. Fit(new, r.field, panel)
        BY <3>2 DEF Fit
      <3>4. options' = [f \in DOMAIN options \union {r.field} |-> IF f = r.field THEN new ELSE options[f]]
        BY <2>2 DEF OptionsArrive
      <3> HIDE DEF new, r
      <3>5. QED
        BY <3>1, <3>3, <3>4 DEF PanelFits
    <2>3. QED
      BY <2>1, <2>2
  <1>5. QED
    BY <1>1, <1>2, <1>4 DEF PanelFits, Fit, OtherFields, Follows

LEMMA MovedAsked ==
    ASSUME NEW o \in Asked, NEW m \in Moves
    PROVE  [o EXCEPT !.moved = m] \in Asked /\ [o EXCEPT !.moved = m].moved = m
  BY DEF Asked

LEMMA RequestsAre ==
    ASSUME NEW panel, PanelFits(panel)
    PROVE  \A i \in DOMAIN optionRequests : optionRequests[i] \in Asked
  BY ElementOfSeq, LenProperties DEF PanelFits

\* A sequence of requests as long as the one in flight.
LEMMA SameShape ==
    ASSUME NEW panel, PanelFits(panel), NEW t, t = [i \in DOMAIN optionRequests |-> t[i]],
           \A i \in DOMAIN optionRequests : t[i] \in Asked
    PROVE  t \in Seq(Asked) /\ DOMAIN t = DOMAIN optionRequests
  <1>1. Len(optionRequests) \in Nat /\ DOMAIN optionRequests = 1..Len(optionRequests)
    BY LenProperties DEF PanelFits
  <1>2. QED
    BY <1>1, IsASeq

LEMMA ChoiceFits ==
    ASSUME NEW panel, PanelFits(panel), NEW f \in AllFields, Choose(f)
    PROVE  PanelFits(panel)'
  <1>1. chosen' \subseteq AllFields /\ \A g : g = f => OtherFields(g)' = OtherFields(g)
    BY DEF PanelFits, Choose, OtherFields
  <1>2. /\ DOMAIN options' = DOMAIN options
        /\ \A g \in DOMAIN options : options'[g] = IF g = f THEN options[g] ELSE MovedOn(options[g])
    BY DEF Choose
  <1>3. ASSUME NEW g \in DOMAIN options PROVE (options[g] \in Listed /\ Fit(options[g], g, panel))'
    <2>1. options[g] \in Listed /\ Fit(options[g], g, panel)
      BY DEF PanelFits
    <2>2. CASE g = f
      BY <1>1, <1>2, <2>1, <2>2 DEF Fit
    <2>3. CASE g # f
      BY <1>2, <2>1, <2>3 DEF Fit, MovedOn, Moves, Listed
    <2>4. QED
      BY <2>2, <2>3
  <1>4. /\ optionRequests' \in Seq(Asked)
        /\ DOMAIN optionRequests' = DOMAIN optionRequests
        /\ \A i \in DOMAIN optionRequests :
             optionRequests'[i] = IF optionRequests[i].field = f THEN optionRequests[i] ELSE MovedOn(optionRequests[i])
    <2>1. optionRequests' = [i \in DOMAIN optionRequests |->
            IF optionRequests[i].field = f THEN optionRequests[i] ELSE MovedOn(optionRequests[i])]
      BY DEF Choose
    <2>2. \A i \in DOMAIN optionRequests : optionRequests'[i] \in Asked
      BY <2>1, RequestsAre, MovedAsked DEF MovedOn, Moves
    <2>3. QED
      BY <2>1, <2>2, SameShape
  <1>5. ASSUME NEW i \in DOMAIN optionRequests
        PROVE  (Follows(optionRequests[i]))'
    <2> DEFINE r == optionRequests[i]
    <2>1. Follows(r)
      BY DEF PanelFits
    <2>2. CASE r.field = f
      BY <1>1, <1>4, <2>1, <2>2 DEF Follows
    <2>3. CASE r.field # f
      BY <1>4, <2>3, RequestsAre DEF MovedOn, Moves, Follows, Asked
    <2>4. QED
      BY <2>2, <2>3
  <1>6. QED
    BY <1>1, <1>2, <1>3, <1>4, <1>5, Zenon DEF PanelFits

LEMMA ResetFits ==
    ASSUME NEW panel, panel.clears \in BOOLEAN, PanelFits(panel), Reset(panel)
    PROVE  PanelFits(panel)'
  <1>1. chosen' = {}
    BY DEF Reset
  <1>2. /\ DOMAIN options' \subseteq AllFields
        /\ \A g \in DOMAIN options' : options'[g] \in Listed /\ (Fit(options[g], g, panel))'
    <2>1. CASE panel.clears
      BY <2>1 DEF Reset
    <2>2. CASE ~panel.clears
      <3>1. /\ DOMAIN options' = DOMAIN options
            /\ \A g \in DOMAIN options : options'[g] = [options[g] EXCEPT !.moved = "kept"]
        BY <2>2 DEF Reset
      <3>2. QED
        BY <2>2, <3>1 DEF PanelFits, Fit, Moves, Listed
    <2>3. QED
      BY <2>1, <2>2
  <1>3. /\ optionRequests' \in Seq(Asked)
        /\ DOMAIN optionRequests' = DOMAIN optionRequests
        /\ \A i \in DOMAIN optionRequests : optionRequests'[i] = [optionRequests[i] EXCEPT !.moved = "late"]
    <2>1. optionRequests' = [i \in DOMAIN optionRequests |-> [optionRequests[i] EXCEPT !.moved = "late"]]
      BY DEF Reset
    <2>2. \A i \in DOMAIN optionRequests : optionRequests'[i] \in Asked
      BY <2>1, RequestsAre, MovedAsked DEF Moves
    <2>3. QED
      BY <2>1, <2>2, SameShape
  <1>4. \A i \in DOMAIN optionRequests' : optionRequests'[i].moved = "late"
    BY <1>3, RequestsAre DEF Moves, Asked
  <1>5. QED
    BY <1>1, <1>2, <1>3, <1>4 DEF PanelFits, Follows

\* The steps that leave the panel, or its closing, alone.
PanelKept == UNCHANGED <<popup, session, chosen, options, optionRequests>>

LEMMA PanelIsKept ==
    ASSUME SessionExpires \/ ChooseRange \/ TagsArrive \/ Search
             \/ (\E r \in StartRoutes : Back(r))
             \/ (\E tag \in {"device", "tag", "LSN"} : PickColumn(tag) \/ ChooseMetric(tag))
             \/ (\E p \in 1..MaxPage : TurnPage(p))
             \/ (\E i \in 1..2 : MarkRow(i))
             \/ (\E order \in {"given", "reversed", "filtered"} : Rearrange(order))
             \/ (\E i \in DOMAIN hook.requests : Answer(i) \/ Fail(i))
    PROVE  PanelKept
  <1> USE DEF panelVars, appVars, PanelKept
  <1>1. CASE SessionExpires \/ ChooseRange \/ TagsArrive \/ Search
    BY <1>1 DEF SessionExpires, ChooseRange, TagsArrive, Search
  <1>2. ASSUME NEW r, Back(r) PROVE PanelKept
    BY <1>2 DEF Back
  <1>3. ASSUME NEW tag, PickColumn(tag) \/ ChooseMetric(tag) PROVE PanelKept
    BY <1>3 DEF PickColumn, ChooseMetric
  <1>4. ASSUME NEW p, TurnPage(p) PROVE PanelKept
    BY <1>4 DEF TurnPage
  <1>5. ASSUME NEW i, MarkRow(i) PROVE PanelKept
    BY <1>5 DEF MarkRow
  <1>6. ASSUME NEW order, Rearrange(order) PROVE PanelKept
    BY <1>6 DEF Rearrange
  <1>7. ASSUME NEW i, Answer(i) \/ Fail(i) PROVE PanelKept
    BY <1>7 DEF Answer, Fail, Settled
  <1>8. QED
    BY <1>1, <1>2, <1>3, <1>4, <1>5, <1>6, <1>7

LEMMA OptionsStep == OptionsInv /\ [Next]_vars => OptionsInv'
  <1> SUFFICES ASSUME OptionsInv, [Next]_vars PROVE OptionsInv'
    OBVIOUS
  <1>1. ASSUME PanelKept PROVE OptionsInv'
    BY <1>1 DEF PanelKept, OptionsInv, FilterOpen, LoggedIn, PanelNow, PanelEmpty, PanelFits, Fit, OtherFields, Follows
  <1>2. ASSUME PanelEmpty' PROVE OptionsInv'
    <2>1. \A panel : PanelFits(panel)'
      BY <1>2 DEF PanelEmpty, PanelFits
    <2>2. QED
      BY <1>2, <2>1 DEF OptionsInv
  <1>3. CASE UNCHANGED vars
    BY <1>1, <1>3 DEF vars, appVars, panelVars, PanelKept
  <1>4. CASE Reload \/ Logout \/ PressButton \/ ClosePopup
    BY <1>2, <1>4 DEF Reload, Logout, PressButton, ClosePopup, PopupBecomes, PanelCloses, PanelEmpty
  <1>5. CASE GuestLogin
    <2>1. ~FilterOpen /\ UNCHANGED panelVars
      BY <1>5 DEF GuestLogin, FilterOpen, LoggedIn
    <2>2. PanelEmpty'
      BY <2>1 DEF OptionsInv, PanelEmpty, panelVars
    <2>3. QED
      BY <1>2, <2>2
  <1>6. ASSUME FilterOpen, UNCHANGED <<session, popup>>, PanelFits(PanelNow) => PanelFits(PanelNow)'
        PROVE  OptionsInv'
    BY <1>6 DEF OptionsInv, FilterOpen, LoggedIn
  <1>7. ASSUME FilterOpen, UNCHANGED popup
        PROVE  /\ PanelFits(PanelNow) /\ PanelNow' = PanelNow
               /\ PanelNow.fields \subseteq AllFields /\ PanelNow.clears \in BOOLEAN
    BY <1>7, PanelFields DEF OptionsInv, FilterOpen, PanelNow
  <1>8. CASE AskOptions
    <2>1. FilterOpen /\ UNCHANGED <<session, popup>> /\ \E f : OpenMenu(PanelNow, f)
      BY <1>8 DEF AskOptions, appVars
    <2>2. PICK panel : panel = PanelNow
      OBVIOUS
    <2>3. PanelFits(panel)'
      BY <1>7, <2>1, <2>2, MenuFits
    <2>4. QED
      BY <1>6, <1>7, <2>1, <2>2, <2>3
  <1>9. CASE ChooseField
    <2>1. FilterOpen /\ UNCHANGED <<session, popup>> /\ \E f \in PanelNow.fields : Choose(f)
      BY <1>9 DEF ChooseField, appVars
    <2>2. PICK panel : panel = PanelNow
      OBVIOUS
    <2>3. PanelFits(panel)'
      BY <1>7, <2>1, <2>2, ChoiceFits
    <2>4. QED
      BY <1>6, <1>7, <2>1, <2>2, <2>3
  <1>10. CASE OptionsAnswer
    <2>1. /\ FilterOpen /\ UNCHANGED <<session, popup>>
          /\ \E i \in DOMAIN optionRequests : OptionsArrive(i) \/ OptionsFail(i)
      BY <1>10 DEF OptionsAnswer, appVars
    <2>2. PICK panel : panel = PanelNow
      OBVIOUS
    <2>3. PanelFits(panel)'
      BY <1>7, <2>1, <2>2, ArrivalFits
    <2>4. QED
      BY <1>6, <1>7, <2>1, <2>2, <2>3
  <1>11. CASE ResetFilters
    <2>1. FilterOpen /\ UNCHANGED <<session, popup>> /\ Reset(PanelNow)
      BY <1>11 DEF ResetFilters
    <2>2. PICK panel : panel = PanelNow
      OBVIOUS
    <2>3. PanelFits(panel)'
      BY <1>7, <2>1, <2>2, ResetFits
    <2>4. QED
      BY <1>6, <1>7, <2>1, <2>2, <2>3
  <1>12. QED
    BY <1>1, <1>3, <1>4, <1>5, <1>8, <1>9, <1>10, <1>11, PanelIsKept, Zenon DEF Next

LEMMA OptionsInit == Init => OptionsInv
  BY EmptyInv DEF Init, PanelClosed, PanelEmpty

-----------------------------------------------------------------------------
(* The marks of the table: what an effect does to its hook. *)

HookFields == {"data", "busy", "error", "total", "requests"}
IsHook(h) == HookFields \subseteq DOMAIN h
Orders == {"given", "reversed", "filtered"}
TableFields == {"marks", "order", "picked", "moved"}
ForTable(view) == view.hook \in {"rows", "updates"}

\* What is drawn as selected is what was clicked, as long as nothing moved.
Unmoved == /\ table.marks \subseteq DrawnRows(table.order)
           /\ {Row(i) : i \in table.marks} = table.picked

MarksInv ==
  /\ IsHook(hook)
  /\ TableFields \subseteq DOMAIN table /\ table.moved \in BOOLEAN /\ table.order \in Orders
  /\ table.marks \subseteq {1, 2}
  /\ ~TableDrawn(hook) => table = FreshTable
  /\ ~ForTable(View) => table = FreshTable
  /\ ~table.moved => Unmoved

\* A table as it is when drawn first has lost nothing.
FreshIsFine == table = FreshTable =>
  TableFields \subseteq DOMAIN table /\ table.moved \in BOOLEAN /\ table.order \in Orders
  /\ table.marks \subseteq {1, 2} /\ Unmoved

LEMMA FreshUnmoved == FreshIsFine /\ FreshIsFine'
  <1>1. FreshTable.marks = {} /\ FreshTable.picked = {} /\ FreshTable.moved = FALSE
        /\ FreshTable.order \in Orders /\ TableFields \subseteq DOMAIN FreshTable
    BY DEF FreshTable, TableFields, Orders
  <1>2. FreshIsFine
    BY <1>1 DEF Unmoved, FreshIsFine
  <1>3. FreshIsFine'
    BY <1>1 DEF Unmoved, FreshIsFine
  <1>4. QED
    BY <1>2, <1>3

LEMMA NoFetchIsHook == IsHook(NoFetch)
  BY DEF NoFetch, IsHook, HookFields

LEMMA RunFacts ==
    ASSUME NEW h, IsHook(h), NEW view, NEW in
    PROVE  /\ IsHook(Run(h, view, in))
           /\ ForTable(view) => Run(h, view, in) = h \/ ~TableDrawn(Run(h, view, in))
  <1>1. /\ IsHook(LoadRows(h, view, in))
        /\ LoadRows(h, view, in) = h \/ ~TableDrawn(LoadRows(h, view, in))
    BY DEF LoadRows, IsHook, HookFields, TableDrawn
  <1>2. /\ IsHook(LoadUpdates(h, view, in))
        /\ LoadUpdates(h, view, in) = h \/ ~TableDrawn(LoadUpdates(h, view, in))
    BY DEF LoadUpdates, IsHook, HookFields, TableDrawn
  <1>3. IsHook(LoadAll(h, view, in))
    BY DEF LoadAll, IsHook, HookFields
  <1>4. IsHook(LoadMissing(h, view, in))
    BY DEF LoadMissing, IsHook, HookFields
  <1>5. /\ view.hook = "rows" => Run(h, view, in) = LoadRows(h, view, in)
        /\ view.hook = "updates" => Run(h, view, in) = LoadUpdates(h, view, in)
        /\ view.hook \in {"all", "metric"} => Run(h, view, in) = LoadAll(h, view, in)
        /\ view.hook = "missing" => Run(h, view, in) = LoadMissing(h, view, in)
        /\ view.hook \notin {"rows", "updates", "all", "metric", "missing"} => Run(h, view, in) = h
    BY DEF Run
  <1>6. QED
    BY <1>1, <1>2, <1>3, <1>4, <1>5 DEF ForTable

LEMMA EffectsFacts ==
    ASSUME NEW h, IsHook(h), NEW view, NEW in, NEW changed
    PROVE  LET run == Effects(h, view, in, changed)
           IN /\ IsHook(run)
              /\ ForTable(view) => run = h \/ ~TableDrawn(run)
  <1> DEFINE first == Run(h, view, in)
             one == [in EXCEPT !.page = 1]
  <1>1. IsHook(first) /\ (ForTable(view) => first = h \/ ~TableDrawn(first))
    BY RunFacts
  <1>2. \A i : /\ IsHook(Run(first, view, i))
               /\ ForTable(view) => Run(first, view, i) = first \/ ~TableDrawn(Run(first, view, i))
    BY <1>1, RunFacts
  <1>3. Effects(h, view, in, changed) \in {h, first, Run(first, view, in), Run(first, view, one)}
    BY DEF Effects
  <1> HIDE DEF first
  <1>4. QED
    BY <1>1, <1>2, <1>3

-----------------------------------------------------------------------------
(* What a step does to the view: it is mounted, or its inputs change, or   *)
(* neither, or the step is one of the view's own.                          *)

InputFields == {"page", "range", "filters", "tags", "packets", "token"}
IsInputs(in) == InputFields \subseteq DOMAIN in /\ in.tags \subseteq Tags

\* `in` has these as the values of the inputs after the step.
InputsNow(in) ==
  /\ in.range = range' /\ in.filters = filters' /\ in.tags = TagsOf(View'.columns, columns')
  /\ in.packets = packets' /\ in.token = kc'

\* At most one kind of input changed, and what the step needed.
Only(in, changed) ==
  /\ changed \in {{}, {"page"}, {"range"}, {"filters"}, {"columns"}}
  /\ "page" \notin changed => in.page = page
  /\ "range" \notin changed => in.range = range
  /\ "filters" \notin changed => in.filters = filters
  /\ "columns" \notin changed => in.tags = TagsOf(View.columns, columns) /\ in.packets = packets
  /\ "page" \in changed => ForTable(View) /\ TableDrawn(hook) /\ in.page <= hook.total
  /\ "columns" \in changed => View.columns # NoList

Mounts == \E in : /\ IsInputs(in) /\ page' = 1 /\ in.page = 1 /\ InputsNow(in)
                  /\ table' = FreshTable /\ hook' = FirstFetch(route', in)
                  /\ newest' = "pending" /\ masked' = FALSE
                  /\ late' = {} /\ paged' = "the count"
Refetches == \E in, changed : /\ IsInputs(in) /\ page' \in 1..MaxPage
                              /\ route' = route /\ kc' = kc
                              /\ Only(in, changed) /\ InputsNow(in)
                              /\ Refetch(in, changed)
                              /\ hook' = Effects(hook, View, in, changed)
                              /\ table' = TableAfter(hook')
                              /\ newest' = IF hook' = hook THEN newest ELSE "pending"
                              /\ masked' = masked
\* The inputs stay, but for a session that expires.
InputsKept ==
  /\ UNCHANGED <<route, page, range, filters, packets>>
  /\ TagsOf(View.columns, columns') = TagsOf(View.columns, columns)
  /\ kc' => kc
ViewKept == InputsKept /\ UNCHANGED <<hook, table, newest, masked, late, paged>>
OwnStep == \/ \E tag : ChooseMetric(tag)
           \/ \E i : MarkRow(i)
           \/ \E order \in {"given", "reversed", "filtered"} : Rearrange(order)
           \/ \E i \in DOMAIN hook.requests : Answer(i) \/ Fail(i)

ShellInv == ColumnsInv /\ BlankInv

LEMMA ListsOfViews ==
    ASSUME NEW r \in Routes
    PROVE  ViewAt(r).columns \in Lists \union {NoList}
  <1> USE DEF NoList, NoCharts, Charts, Table, Statistics, Page, Lists, PickableLists
  <1>1. CASE r \in SignalAndDeviceRoutes
    BY <1>1 DEF ViewAt, SignalAndDeviceRoutes, SignalAndDeviceView, Nothing, Incidents, SyslogSignalTable,
      SyslogSignalStatistics, SnmpTrapSignalTable, SnmpTrapSignalStatistics, TelemetrySignalTable,
      TelemetrySignalStatistics, SyslogSignalCharts, SnmpTrapSignalCharts, TelemetrySignalCharts
  <1>2. CASE r \notin SignalAndDeviceRoutes
    BY <1>2 DEF ViewAt, Routes, EventAndTrafficRoutes, EventAndTrafficView, SyslogEventTable,
      SyslogEventStatistics, SnmpTrapEventTable, SnmpTrapEventStatistics, TrafficTable, TrafficStatistics,
      BgpLinkStateEventTable, SyslogEventCharts, SnmpTrapEventCharts, TrafficCharts
  <1>3. QED
    BY <1>1, <1>2

\* The tags a view reads are tags, whichever route and lists it reads.
LEMMA TagsAreTags ==
    ASSUME NEW r \in Routes, NEW lists,
           \A l \in Lists : \A c \in lists[l] : c.tag \in Tags
    PROVE  TagsOf(ViewAt(r).columns, lists) \subseteq Tags
  <1>1. PICK list : list = ViewAt(r).columns /\ list \in Lists \union {NoList}
    BY ListsOfViews
  <1>2. TagsOf(list, lists) \subseteq Tags
    BY <1>1 DEF TagsOf
  <1>3. QED
    BY <1>1, <1>2

LEMMA ListsTyped ==
    ASSUME ShellInv
    PROVE  /\ \A l \in Lists : \A c \in columns[l] : c.tag \in Tags
           /\ \A l \in Lists : \A c \in DefaultColumns[l] : c.tag \in Tags
  <1>1. columns \in [Lists -> SUBSET [tag : Tags, object : Nat]]
    BY DEF ShellInv, ColumnsInv
  <1>2. QED
    BY <1>1, DefaultOnce

\* What the effects read.
LEMMA InputsAre ==
    /\ Inputs.page = page /\ Inputs.range = range /\ Inputs.filters = filters
    /\ Inputs.tags = TagsOf(View.columns, columns) /\ Inputs.packets = packets /\ Inputs.token = kc
    /\ Inputs'.page = page' /\ Inputs'.range = range' /\ Inputs'.filters = filters'
    /\ Inputs'.tags = TagsOf(View'.columns, columns') /\ Inputs'.packets = packets' /\ Inputs'.token = kc'
  BY DEF Inputs

\* In a step that leaves the tags and the session alone.
LEMMA InputsTyped ==
    ASSUME ShellInv, route' = route, kc' = kc, TagsOf(View.columns, columns') = TagsOf(View.columns, columns)
    PROVE  /\ \A x : LET in == [Inputs EXCEPT !.range = x]
                     IN /\ IsInputs(in) /\ in.page = page /\ Only(in, {"range"})
                        /\ x = range => Only(in, {})
                        /\ range' = x /\ filters' = filters /\ packets' = packets => InputsNow(in)
           /\ \A x : LET in == [Inputs EXCEPT !.filters = x]
                     IN /\ IsInputs(in) /\ in.page = page /\ Only(in, {"filters"})
                        /\ range' = range /\ filters' = x /\ packets' = packets => InputsNow(in)
           /\ \A x : LET in == [Inputs EXCEPT !.page = x]
                     IN /\ IsInputs(in) /\ in.page = x
                        /\ ForTable(View) /\ TableDrawn(hook) /\ x <= hook.total => Only(in, {"page"})
                        /\ range' = range /\ filters' = filters /\ packets' = packets => InputsNow(in)
           /\ IsInputs(Inputs)
           /\ \A x : IsInputs([Inputs EXCEPT !.packets = x])
  <1>1. route \in Routes
    BY DEF ShellInv, BlankInv
  <1>2. TagsOf(ViewAt(route).columns, columns) \subseteq Tags
    BY <1>1, ListsTyped, TagsAreTags
  <1>3. /\ DOMAIN Inputs = {"page", "range", "filters", "tags", "packets", "token"}
        /\ Inputs = [f \in {"page", "range", "filters", "tags", "packets", "token"} |-> Inputs[f]]
        /\ Inputs.tags \subseteq Tags
    BY <1>2 DEF Inputs, View
  <1>4. View' = View
    BY DEF View
  <1>5. ASSUME NEW x
        PROVE  LET in == [Inputs EXCEPT !.range = x]
               IN /\ IsInputs(in) /\ in.page = page /\ Only(in, {"range"})
                  /\ x = range => Only(in, {})
                  /\ range' = x /\ filters' = filters /\ packets' = packets => InputsNow(in)
    <2> DEFINE in == [Inputs EXCEPT !.range = x]
    <2>1. /\ DOMAIN in = DOMAIN Inputs /\ in.range = x /\ in.page = page /\ in.filters = filters
          /\ in.tags = Inputs.tags /\ in.packets = packets /\ in.token = kc
      BY <1>3, InputsAre
    <2> HIDE DEF in
    <2>2. QED
      BY <1>3, <1>4, <2>1, InputsAre DEF IsInputs, InputFields, Only, InputsNow
  <1>6. ASSUME NEW x
        PROVE  LET in == [Inputs EXCEPT !.filters = x]
               IN /\ IsInputs(in) /\ in.page = page /\ Only(in, {"filters"})
                  /\ range' = range /\ filters' = x /\ packets' = packets => InputsNow(in)
    <2> DEFINE in == [Inputs EXCEPT !.filters = x]
    <2>1. /\ DOMAIN in = DOMAIN Inputs /\ in.filters = x /\ in.page = page /\ in.range = range
          /\ in.tags = Inputs.tags /\ in.packets = packets /\ in.token = kc
      BY <1>3, InputsAre
    <2> HIDE DEF in
    <2>2. QED
      BY <1>3, <1>4, <2>1, InputsAre DEF IsInputs, InputFields, Only, InputsNow
  <1>7. ASSUME NEW x
        PROVE  LET in == [Inputs EXCEPT !.page = x]
               IN /\ IsInputs(in) /\ in.page = x
                  /\ ForTable(View) /\ TableDrawn(hook) /\ x <= hook.total => Only(in, {"page"})
                  /\ range' = range /\ filters' = filters /\ packets' = packets => InputsNow(in)
    <2> DEFINE in == [Inputs EXCEPT !.page = x]
    <2>1. /\ DOMAIN in = DOMAIN Inputs /\ in.page = x /\ in.range = range /\ in.filters = filters
          /\ in.tags = Inputs.tags /\ in.packets = packets /\ in.token = kc
      BY <1>3, InputsAre
    <2> HIDE DEF in
    <2>2. QED
      BY <1>3, <1>4, <2>1, InputsAre DEF IsInputs, InputFields, Only, InputsNow
  <1>8. QED
    BY <1>3, <1>5, <1>6, <1>7 DEF IsInputs, InputFields

LEMMA FirstInputsTyped ==
    ASSUME NEW r \in Routes, NEW ran, NEW fil, NEW lists, NEW token,
           \A l \in Lists : \A c \in lists[l] : c.tag \in Tags
    PROVE  IsInputs(FirstInputs(r, ran, fil, lists, token))
  <1>1. TagsOf(ViewAt(r).columns, lists) \subseteq Tags
    BY TagsAreTags
  <1>2. QED
    BY <1>1 DEF FirstInputs, IsInputs, InputFields

\* Refetch, MountView, and what leaves the view alone.
LEMMA RefetchIsOne ==
    ASSUME route' = route, kc' = kc, NEW in, NEW changed, IsInputs(in), in.page \in 1..MaxPage,
           Only(in, changed), InputsNow(in), Refetch(in, changed)
    PROVE  Refetches
  <1>1. page' \in 1..MaxPage
    <2>1. page' = 1 \/ page' = in.page
      BY Zenon DEF Refetch
    <2>2. 1 \in 1..MaxPage
      BY ConsoleAssumption
    <2>3. QED
      BY <2>1, <2>2
  <1>2. /\ hook' = Effects(hook, View, in, changed) /\ table' = TableAfter(hook')
        /\ newest' = IF hook' = hook THEN newest ELSE "pending"
        /\ masked' = masked
    BY DEF Refetch
  <1>3. QED
    BY <1>1, <1>2, Zenon DEF Refetches

LEMMA MountIsOne ==
    ASSUME NEW r \in Routes, route' = r, NEW ran, NEW fil, NEW lists, NEW token,
           MountView(r, ran, fil, lists, token), \A l \in Lists : \A c \in lists[l] : c.tag \in Tags,
           range' = ran, filters' = fil, columns' = lists, kc' = token
    PROVE  Mounts
  <1> DEFINE in == FirstInputs(r, ran, fil, lists, token)
  <1>1. IsInputs(in)
    BY FirstInputsTyped
  <1>2. /\ page' = 1 /\ packets' = {} /\ table' = FreshTable /\ hook' = FirstFetch(r, in)
        /\ late' = {} /\ newest' = "pending" /\ masked' = FALSE /\ paged' = "the count"
    BY DEF MountView
  <1>3. in.page = 1 /\ InputsNow(in)
    BY <1>2 DEF FirstInputs, InputsNow, View
  <1> HIDE DEF in
  <1>4. QED
    BY <1>1, <1>2, <1>3 DEF Mounts

LEMMA StepKinds ==
    ASSUME ShellInv, page \in 1..MaxPage, [Next]_vars
    PROVE  Mounts \/ Refetches \/ ViewKept \/ OwnStep
  <1> DEFINE Kind == Mounts \/ Refetches \/ ViewKept
             SameTags == TagsOf(View.columns, columns') = TagsOf(View.columns, columns)
  <1>1. ASSUME UNCHANGED viewVars, UNCHANGED <<route, range, filters>>, SameTags, kc' => kc PROVE ViewKept
    BY <1>1 DEF viewVars, ViewKept, InputsKept
  <1>a. route \in Routes /\ BlankInv' /\ route' \in Routes
    BY BlankStep DEF ShellInv, BlankInv
  <1>b. columns' = columns => SameTags
    OBVIOUS
  <1>2. ASSUME NEW p, PopupBecomes(p), UNCHANGED <<kc, route, filters, columns>> PROVE Kind
    <2>1. CASE PanelOf(p) = "SearchTime"
      <3>1. range' = range + 1 /\ Refetch([Inputs EXCEPT !.range = range + 1], {"range"})
        BY <1>2, <2>1 DEF PopupBecomes
      <3>2. packets' = [Inputs EXCEPT !.range = range + 1].packets
        BY <3>1 DEF Refetch
      <3>3. packets' = packets
        BY <3>2 DEF Inputs
      <3>4. QED
        BY <1>2, <3>1, <3>3, InputsTyped, RefetchIsOne
    <2>2. CASE PanelOf(p) # "SearchTime"
      BY <1>1, <1>2, <2>2 DEF PopupBecomes
    <2>3. QED
      BY <2>1, <2>2
  <1>3. CASE UNCHANGED vars
    BY <1>1, <1>3 DEF vars, appVars
  <1>4. CASE Reload
    <2>1. /\ route' = route /\ MountView(route, 0, {}, DefaultColumns, TRUE)
          /\ range' = 0 /\ filters' = {} /\ columns' = DefaultColumns /\ kc' = TRUE
      BY <1>4 DEF Reload
    <2>2. QED
      BY <1>a, <2>1, MountIsOne, ListsTyped
  <1>5. CASE Logout
    <2>1. /\ route' = "login" /\ MountView("login", range, filters, columns, kc)
          /\ UNCHANGED <<range, filters, columns, kc>>
      BY <1>5 DEF Logout
    <2>2. QED
      BY <1>a, <2>1, MountIsOne, ListsTyped
  <1>6. CASE GuestLogin \/ SessionExpires \/ TagsArrive \/ AskOptions \/ ChooseField \/ OptionsAnswer
    <2>1. UNCHANGED viewVars /\ UNCHANGED <<route, range, filters, columns>> /\ (kc' => kc)
      BY <1>6 DEF GuestLogin, SessionExpires, TagsArrive, AskOptions, ChooseField, OptionsAnswer, appVars
    <2>2. QED
      BY <1>1, <2>1
  <1>7. CASE PressButton
    <2>1. PICK button \in Buttons(route, TRUE) :
            IF button.goes = "stay"
            THEN /\ PopupBecomes(button.opens)
                 /\ UNCHANGED <<session, kc, route, filters, columns>>
            ELSE /\ Navigation(button.goes)
                 /\ popup' = NoPopup /\ PanelCloses
                 /\ Shows(button.goes, NoPopup, columns)
                 /\ UNCHANGED <<session, kc, range, filters, columns, births>>
      BY <1>7 DEF PressButton
    <2>2. CASE button.goes = "stay"
      <3>1. PopupBecomes(button.opens) /\ UNCHANGED <<kc, route, filters, columns>>
        BY <2>1, <2>2
      <3>2. QED
        BY <1>2, <3>1
    <2>3. CASE button.goes # "stay"
      <3>1. /\ route' = button.goes /\ MountView(button.goes, range, filters, columns, kc)
            /\ UNCHANGED <<kc, range, filters, columns>>
        BY <2>1, <2>3 DEF Navigation
      <3>2. QED
        BY <1>a, <3>1, MountIsOne, ListsTyped
    <2>4. QED
      BY <2>2, <2>3
  <1>8. ASSUME NEW r, Back(r) PROVE Kind
    <2>1. /\ route' = r /\ MountView(r, range, filters, columns, kc)
          /\ UNCHANGED <<kc, range, filters, columns>>
      BY <1>8 DEF Back, Navigation
    <2>2. QED
      BY <1>a, <2>1, MountIsOne, ListsTyped
  <1>9. CASE ClosePopup
    BY <1>2, <1>9 DEF ClosePopup
  <1>10. CASE ChooseRange \/ Search \/ ResetFilters
    <2>1. /\ UNCHANGED <<route, kc, columns>>
          /\ \/ Refetch([Inputs EXCEPT !.range = range'], {"range"}) /\ filters' = filters
             \/ /\ Refetch([Inputs EXCEPT !.range = range'], {}) /\ filters' = filters
                /\ range' = range
             \/ Refetch([Inputs EXCEPT !.filters = filters'], {"filters"}) /\ range' = range
             \/ UNCHANGED viewVars /\ UNCHANGED <<range, filters>>
      BY <1>10, Zenon DEF ChooseRange, Search, ResetFilters, FiltersBecome
    <2>2. \A in, changed : Refetch(in, changed) => packets' = in.packets
      BY DEF Refetch
    <2>3. \A x : [Inputs EXCEPT !.range = x].packets = packets /\ [Inputs EXCEPT !.filters = x].packets = packets
      BY DEF Inputs
    <2>4. CASE Refetch([Inputs EXCEPT !.range = range'], {"range"}) /\ filters' = filters
      BY <1>b, <2>1, <2>2, <2>3, <2>4, InputsTyped, RefetchIsOne
    <2>5. CASE Refetch([Inputs EXCEPT !.filters = filters'], {"filters"}) /\ range' = range
      BY <1>b, <2>1, <2>2, <2>3, <2>5, InputsTyped, RefetchIsOne
    <2>6. CASE Refetch([Inputs EXCEPT !.range = range'], {}) /\ filters' = filters /\ range' = range
      BY <1>b, <2>1, <2>2, <2>3, <2>6, InputsTyped, RefetchIsOne
    <2>7. QED
      BY <1>1, <1>b, <2>1, <2>4, <2>5, <2>6
  <1>11. ASSUME NEW tag, PickColumn(tag) PROVE Kind
    <2> DEFINE list == PanelOf(popup)
               tags == TagsOf(list, columns')
               in == [Inputs EXCEPT !.tags = tags, !.packets = @ \intersect tags]
    <2>1. /\ UNCHANGED <<route, kc, range, filters>> /\ list \in PickableLists
          /\ columns' = [columns EXCEPT ![list] = Picked(list, tag)]
          /\ IF View.columns = list THEN Refetch(in, {"columns"}) ELSE UNCHANGED viewVars
      BY <1>11 DEF PickColumn
    <2>2. ColumnsInv'
      BY <1>11, PickedOnce DEF ShellInv
    <2>3. columns' \in [Lists -> SUBSET [tag : Tags, object : Nat]]
      BY <2>2 DEF ColumnsInv
    <2>4. TagsOf(View.columns, columns') \subseteq Tags
      BY <1>a, <2>3, TagsAreTags DEF View
    <2>5. CASE View.columns = list
      <3>1. /\ DOMAIN in = DOMAIN Inputs /\ in.page = page /\ in.range = range /\ in.filters = filters
            /\ in.tags = tags /\ in.token = kc
        BY DEF Inputs
      <3>2. packets' = in.packets /\ View' = View /\ list # NoList
        BY <2>1, <2>5 DEF Refetch, View, PickableLists, NoList
      <3> HIDE DEF in
      <3>3. IsInputs(in)
        BY <2>4, <2>5, <3>1 DEF IsInputs, InputFields, Inputs
      <3>4. Only(in, {"columns"}) /\ InputsNow(in)
        BY <2>1, <2>5, <3>1, <3>2 DEF Only, InputsNow
      <3>5. QED
        BY <2>1, <2>5, <3>1, <3>3, <3>4, RefetchIsOne
    <2>6. CASE View.columns # list
      <3>1. View.columns \in Lists \union {NoList}
        BY <1>a, ListsOfViews DEF View
      <3>2. SameTags
        BY <2>1, <2>6, <3>1 DEF TagsOf, ShellInv, ColumnsInv
      <3>3. QED
        BY <1>1, <2>1, <2>6, <3>2
    <2>7. QED
      BY <2>5, <2>6
  <1>12. ASSUME NEW p \in 1..MaxPage, TurnPage(p) PROVE Kind
    <2>1. /\ UNCHANGED <<route, kc, range, filters, columns>> /\ Refetch([Inputs EXCEPT !.page = p], {"page"})
          /\ ForTable(View) /\ TableDrawn(hook)
      BY <1>12 DEF TurnPage, appVars, ForTable
    <2>2. p <= hook.total
      BY <1>12 DEF TurnPage
    <2>3. packets' = [Inputs EXCEPT !.page = p].packets
      BY <2>1 DEF Refetch
    <2>4. packets' = packets
      BY <2>3 DEF Inputs
    <2>5. QED
      BY <1>b, <2>1, <2>2, <2>4, InputsTyped, RefetchIsOne
  <1>13. QED
    BY <1>3, <1>4, <1>5, <1>6, <1>7, <1>8, <1>9, <1>10, <1>11, <1>12, Zenon DEF Next, OwnStep

-----------------------------------------------------------------------------
(* The requests of a view. *)

IsSeq(s) == \E S : s \in Seq(S)

IsRequest(r, keys) == /\ {"key", "query", "refused", "beaten"} \subseteq DOMAIN r
                      /\ r.key \in keys /\ r.beaten \in BOOLEAN

AreRequests(s, keys) == IsSeq(s) /\ \A j \in DOMAIN s : IsRequest(s[j], keys)

LEMMA SetToSeqFacts ==
    ASSUME NEW S, IsFiniteSet(S)
    PROVE  /\ SetToSeq(S) \in Seq(S)
           /\ \A j \in DOMAIN SetToSeq(S) : SetToSeq(S)[j] \in S
           /\ \A x \in S : \E j \in DOMAIN SetToSeq(S) : SetToSeq(S)[j] = x
  <1> DEFINE n == Cardinality(S)
  <1>1. n \in Nat /\ ExistsBijection(1..n, S)
    BY FS_CardinalityType
  <1>2. PICK f \in [1..n -> S] : IsInjective(f)
    BY <1>1 DEF ExistsBijection, Bijection, Injection
  <1>3. SetToSeq(S) \in [1..n -> S] /\ IsInjective(SetToSeq(S))
    BY <1>2 DEF SetToSeq
  <1>4. SetToSeq(S) \in Injection(1..n, S)
    BY <1>3 DEF Injection
  <1>5. IsFiniteSet(1..n) /\ Cardinality(1..n) = n
    BY <1>1, FS_Interval
  <1>6. SetToSeq(S) \in Surjection(1..n, S)
    BY <1>4, <1>5, FS_Injection
  <1>7. \A x \in S : \E j \in 1..n : SetToSeq(S)[j] = x
    BY <1>6 DEF Surjection
  <1>8. QED
    BY <1>1, <1>3, <1>7, SeqDef

LEMMA AskFacts ==
    ASSUME NEW view, NEW keys, IsFiniteSet(keys), NEW in
    PROVE  LET asked == Ask(view, keys, in)
           IN /\ AreRequests(asked, keys)
              /\ \A j \in DOMAIN asked : ~asked[j].beaten /\ asked[j].query = Query(view, asked[j].key, in)
              /\ \A k \in keys : \E j \in DOMAIN asked : asked[j].key = k
  <1> DEFINE Asks(k) == [key |-> k, query |-> Query(view, k, in), refused |-> ~in.token, beaten |-> FALSE]
             S == {Asks(k) : k \in keys}
             asked == Ask(view, keys, in)
  <1>1. IsFiniteSet(S)
    <2>1. [k \in keys |-> Asks(k)] \in Surjection(keys, S)
      BY DEF Surjection
    <2>2. QED
      BY <2>1, FS_Surjection
  <1>2. asked = SetToSeq(S)
    BY DEF Ask
  <1>3. ASSUME NEW k \in keys
        PROVE  IsRequest(Asks(k), keys) /\ Asks(k).key = k /\ ~Asks(k).beaten /\ Asks(k).query = Query(view, k, in)
    <2>1. /\ Asks(k).key = k /\ Asks(k).beaten = FALSE /\ Asks(k).query = Query(view, k, in)
          /\ DOMAIN Asks(k) = {"key", "query", "refused", "beaten"}
      OBVIOUS
    <2> HIDE DEF Asks
    <2>2. QED
      BY <2>1 DEF IsRequest
  <1> HIDE DEF Asks
  <1>4. \A r \in S : IsRequest(r, keys) /\ ~r.beaten /\ r.query = Query(view, r.key, in)
    BY <1>3
  <1>5. \A k \in keys : \E r \in S : r.key = k
    BY <1>3
  <1> HIDE DEF S
  <1>6. /\ asked \in Seq(S)
        /\ \A j \in DOMAIN asked : asked[j] \in S
        /\ \A x \in S : \E j \in DOMAIN asked : asked[j] = x
    BY <1>1, <1>2, SetToSeqFacts
  <1> HIDE DEF asked
  <1>7. AreRequests(asked, keys)
    BY <1>4, <1>6 DEF AreRequests, IsSeq
  <1>8. \A j \in DOMAIN asked : ~asked[j].beaten /\ asked[j].query = Query(view, asked[j].key, in)
    BY <1>4, <1>6
  <1>9. \A k \in keys : \E j \in DOMAIN asked : asked[j].key = k
    BY <1>5, <1>6
  <1>10. QED
    BY <1>7, <1>8, <1>9 DEF asked

LEMMA ConcatRequests ==
    ASSUME NEW keys, NEW s, NEW t, AreRequests(s, keys), AreRequests(t, keys)
    PROVE  AreRequests(s \o t, keys)
  <1>1. PICK S : s \in Seq(S)
    BY DEF AreRequests, IsSeq
  <1>2. PICK T : t \in Seq(T)
    BY DEF AreRequests, IsSeq
  <1>3. s \in Seq(S \union T) /\ t \in Seq(S \union T)
    BY <1>1, <1>2, SeqMonotonic
  <1>4. /\ Len(s) \in Nat /\ DOMAIN s = 1..Len(s)
        /\ Len(t) \in Nat /\ DOMAIN t = 1..Len(t)
    BY <1>3, LenProperties
  <1>5. /\ s \o t \in Seq(S \union T)
        /\ Len(s \o t) = Len(s) + Len(t)
        /\ \A i \in 1..(Len(s) + Len(t)) : (s \o t)[i] = IF i <= Len(s) THEN s[i] ELSE t[i - Len(s)]
    BY <1>3, ConcatProperties
  <1>6. DOMAIN (s \o t) = 1..(Len(s) + Len(t))
    BY <1>5, LenProperties
  <1>7. ASSUME NEW i \in 1..(Len(s) + Len(t)) PROVE IsRequest((s \o t)[i], keys)
    <2>1. CASE i <= Len(s)
      <3>1. i \in DOMAIN s /\ (s \o t)[i] = s[i]
        BY <1>4, <1>5, <2>1
      <3>2. QED
        BY <3>1 DEF AreRequests
    <2>2. CASE ~(i <= Len(s))
      <3>1. i - Len(s) \in DOMAIN t /\ (s \o t)[i] = t[i - Len(s)]
        BY <1>4, <1>5, <2>2
      <3>2. QED
        BY <3>1 DEF AreRequests
    <2>3. QED
      BY <2>1, <2>2
  <1>8. QED
    BY <1>5, <1>6, <1>7 DEF AreRequests, IsSeq

\* Where a request stood before the i-th was over.
Before(n, i) == IF n < i THEN n ELSE n + 1

\* What is left when a request is over.
LEMMA WithoutAt ==
    ASSUME NEW keys, NEW s, AreRequests(s, keys), NEW i \in DOMAIN s
    PROVE  LET w == Without(s, i)
           IN /\ Len(s) \in Nat /\ DOMAIN s = 1..Len(s)
              /\ AreRequests(w, keys) /\ DOMAIN w = 1..(Len(s) - 1)
              /\ \A n \in DOMAIN w : LET m == Before(n, i) IN
                   /\ m \in DOMAIN s \ {i} /\ w[n].key = s[m].key /\ w[n].query = s[m].query
                   /\ m < i /\ s[m].key = s[i].key => w[n].beaten
                   /\ s[m].beaten => w[n].beaten
                   /\ ~s[m].beaten /\ ~(m < i /\ s[m].key = s[i].key) => ~w[n].beaten
  <1> DEFINE Overtakes(j) == j < i /\ s[j].key = s[i].key
             t == [j \in DOMAIN s |-> IF j < i /\ s[j].key = s[i].key THEN [s[j] EXCEPT !.beaten = TRUE] ELSE s[j]]
             w == Without(s, i)
             T == {t[j] : j \in DOMAIN s}
  <1>1. Len(s) \in Nat /\ DOMAIN s = 1..Len(s)
    BY LenProperties DEF AreRequests, IsSeq
  <1>2. t \in Seq(T) /\ DOMAIN t = DOMAIN s /\ Len(t) = Len(s)
    <2>1. t \in [1..Len(s) -> T]
      BY <1>1
    <2>2. t \in Seq(T)
      BY <1>1, <2>1, SeqDef
    <2>3. QED
      BY <1>1, <2>2, LenProperties
  <1>3. ASSUME NEW j \in DOMAIN s
        PROVE  /\ IsRequest(t[j], keys) /\ t[j].key = s[j].key /\ t[j].query = s[j].query
               /\ Overtakes(j) => t[j].beaten
               /\ s[j].beaten => t[j].beaten
               /\ ~s[j].beaten /\ ~Overtakes(j) => ~t[j].beaten
    <2>1. IsRequest(s[j], keys)
      BY DEF AreRequests
    <2>2. CASE j < i /\ s[j].key = s[i].key
      BY <2>1, <2>2 DEF IsRequest
    <2>3. CASE ~(j < i /\ s[j].key = s[i].key)
      BY <2>1, <2>3 DEF IsRequest
    <2>4. QED
      BY <2>2, <2>3
  <1>4. w = RemoveAt(t, i)
    BY DEF Without
  <1> HIDE DEF t, T, w
  <1>5. /\ w \in Seq(T) /\ DOMAIN w = 1..(Len(s) - 1)
        /\ \A n \in 1..(Len(s) - 1) : w[n] = IF n < i THEN t[n] ELSE t[n + 1]
    BY <1>2, <1>4, RemoveAtFacts
  <1>6. \A n \in DOMAIN w : Before(n, i) \in DOMAIN s \ {i} /\ w[n] = t[Before(n, i)]
    BY <1>1, <1>5 DEF Before
  <1>7. AreRequests(w, keys)
    BY <1>3, <1>5, <1>6 DEF AreRequests, IsSeq
  <1>8. \A n \in DOMAIN w : LET m == Before(n, i) IN
          /\ m \in DOMAIN s \ {i} /\ w[n].key = s[m].key /\ w[n].query = s[m].query
          /\ m < i /\ s[m].key = s[i].key => w[n].beaten
          /\ s[m].beaten => w[n].beaten
          /\ ~s[m].beaten /\ ~(m < i /\ s[m].key = s[i].key) => ~w[n].beaten
    BY <1>3, <1>6
  <1>9. QED
    BY <1>1, <1>5, <1>7, <1>8 DEF w

LEMMA WithoutFacts ==
    ASSUME NEW keys, NEW s, AreRequests(s, keys), NEW i \in DOMAIN s
    PROVE  LET w == Without(s, i)
           IN /\ AreRequests(w, keys)
              /\ \A n \in DOMAIN w : \E m \in DOMAIN s \ {i} :
                   /\ w[n].key = s[m].key
                   /\ s[m].beaten \/ (m < i /\ s[m].key = s[i].key) => w[n].beaten
              /\ i # Len(s) => \E n \in DOMAIN w : w[n].key = s[Len(s)].key
  <1> DEFINE w == Without(s, i)
  <1>1. /\ Len(s) \in Nat /\ DOMAIN s = 1..Len(s)
        /\ AreRequests(w, keys) /\ DOMAIN w = 1..(Len(s) - 1)
        /\ \A n \in DOMAIN w : LET m == Before(n, i) IN
             /\ m \in DOMAIN s \ {i} /\ w[n].key = s[m].key
             /\ m < i /\ s[m].key = s[i].key => w[n].beaten
             /\ s[m].beaten => w[n].beaten
    BY WithoutAt
  <1> HIDE DEF w
  <1>2. \A n \in DOMAIN w : \E m \in DOMAIN s \ {i} :
          /\ w[n].key = s[m].key
          /\ s[m].beaten \/ (m < i /\ s[m].key = s[i].key) => w[n].beaten
    <2> SUFFICES ASSUME NEW n \in DOMAIN w
                 PROVE  \E m \in DOMAIN s \ {i} :
                          /\ w[n].key = s[m].key
                          /\ s[m].beaten \/ (m < i /\ s[m].key = s[i].key) => w[n].beaten
      OBVIOUS
    <2>1. PICK m : m = Before(n, i)
      OBVIOUS
    <2>2. /\ m \in DOMAIN s \ {i} /\ w[n].key = s[m].key
          /\ m < i /\ s[m].key = s[i].key => w[n].beaten
          /\ s[m].beaten => w[n].beaten
      BY <1>1, <2>1
    <2>3. QED
      BY <2>2
  <1>3. ASSUME i # Len(s) PROVE \E n \in DOMAIN w : w[n].key = s[Len(s)].key
    <2>1. PICK n : n = Len(s) /\ n \in Nat /\ DOMAIN s = 1..n /\ DOMAIN w = 1..(n - 1)
      BY <1>1
    <2>2. n - 1 \in DOMAIN w /\ Before(n - 1, i) = n
      BY <1>3, <2>1 DEF Before
    <2>3. QED
      BY <1>1, <2>1, <2>2
  <1>4. QED
    BY <1>1, <1>2, <1>3 DEF w

-----------------------------------------------------------------------------
(* The error of a table. *)

Newest == newest \in {"pending", "answered"}

ErrorInv ==
  /\ IsHook(hook)
  /\ View.hook = "rows" =>
       /\ AreRequests(hook.requests, {"rows"})
       /\ hook.error /\ Newest => masked
       /\ newest = "answered" => \A j \in DOMAIN hook.requests : hook.requests[j].beaten

\* A request of a table is added at the end, and ends the error.
LEMMA RowsAsked ==
    ASSUME NEW h, IsHook(h), NEW view, ForTable(view), NEW in, AreRequests(h.requests, {"rows"})
    PROVE  /\ AreRequests(Run(h, view, in).requests, {"rows"})
           /\ Run(h, view, in) = h \/ Run(h, view, in).error = FALSE
  <1>1. \/ Run(h, view, in) = LoadRows(h, view, in)
        \/ Run(h, view, in) = LoadUpdates(h, view, in)
    BY DEF Run, ForTable
  <1>2. CASE ~in.token
    BY <1>1, <1>2 DEF LoadRows, LoadUpdates
  <1>3. CASE in.token
    <2>1. /\ Run(h, view, in).requests = h.requests \o Ask(view, {"rows"}, in)
          /\ Run(h, view, in).error = FALSE
      BY <1>1, <1>3 DEF LoadRows, LoadUpdates, IsHook, HookFields
    <2>2. AreRequests(Ask(view, {"rows"}, in), {"rows"})
      BY AskFacts, FS_Singleton
    <2>3. QED
      BY <2>1, <2>2, ConcatRequests
  <1>4. QED
    BY <1>2, <1>3

LEMMA RowsEffects ==
    ASSUME NEW h, IsHook(h), NEW view, ForTable(view), NEW in, NEW changed, AreRequests(h.requests, {"rows"})
    PROVE  LET run == Effects(h, view, in, changed)
           IN /\ AreRequests(run.requests, {"rows"})
              /\ run = h \/ run.error = FALSE
  <1> DEFINE first == Run(h, view, in)
             one == [in EXCEPT !.page = 1]
  <1>1. /\ IsHook(first) /\ AreRequests(first.requests, {"rows"})
        /\ first = h \/ first.error = FALSE
    BY RowsAsked, RunFacts
  <1>2. \A i : /\ AreRequests(Run(first, view, i).requests, {"rows"})
               /\ Run(first, view, i) = first \/ Run(first, view, i).error = FALSE
    BY <1>1, RowsAsked
  <1>3. Effects(h, view, in, changed) \in {h, first, Run(first, view, in), Run(first, view, one)}
    BY DEF Effects
  <1> HIDE DEF first
  <1>4. QED
    BY <1>1, <1>2, <1>3

LEMMA NoFetchQuiet == NoFetch.error = FALSE /\ \A keys : AreRequests(NoFetch.requests, keys)
  <1>1. NoFetch.requests = << >> /\ NoFetch.error = FALSE
    BY DEF NoFetch
  <1>2. << >> \in Seq({}) /\ DOMAIN << >> = {}
    BY EmptySeq
  <1>3. QED
    BY <1>1, <1>2 DEF AreRequests, IsSeq

LEMMA MountsErrors ==
    ASSUME Mounts
    PROVE  ErrorInv'
  <1>1. PICK in : hook' = FirstFetch(route', in) /\ newest' = "pending"
    BY DEF Mounts
  <1>2. IsHook(hook')
    BY <1>1, NoFetchIsHook, EffectsFacts DEF FirstFetch
  <1>4. ASSUME View'.hook = "rows"
        PROVE  AreRequests(hook'.requests, {"rows"}) /\ hook'.error = FALSE
    <2>1. hook' = Effects(NoFetch, ViewAt(route'), in, ViewAt(route').reruns)
      BY <1>1 DEF FirstFetch
    <2>2. ForTable(ViewAt(route'))
      BY <1>4 DEF View, ForTable
    <2>3. QED
      BY <2>1, <2>2, NoFetchQuiet, NoFetchIsHook, RowsEffects
  <1>5. QED
    BY <1>1, <1>2, <1>4 DEF ErrorInv, Newest

LEMMA RefetchesErrors ==
    ASSUME ErrorInv, Refetches
    PROVE  ErrorInv'
  <1>1. PICK in, changed : /\ route' = route
                           /\ hook' = Effects(hook, View, in, changed)
                           /\ newest' = IF hook' = hook THEN newest ELSE "pending"
                           /\ masked' = masked
    BY DEF Refetches
  <1>2. IsHook(hook') /\ View' = View
    BY <1>1, EffectsFacts DEF ErrorInv, View
  <1>3. CASE hook' = hook
    BY <1>1, <1>2, <1>3 DEF ErrorInv, Newest
  <1>4. CASE hook' # hook /\ View.hook = "rows"
    <2>1. AreRequests(hook'.requests, {"rows"}) /\ hook'.error = FALSE
      <3>1. ForTable(View) /\ IsHook(hook) /\ AreRequests(hook.requests, {"rows"})
        BY <1>4 DEF ErrorInv, ForTable
      <3>2. QED
        BY <1>1, <1>4, <3>1, RowsEffects
    <2>2. newest' = "pending"
      BY <1>1, <1>4
    <2>3. QED
      BY <1>2, <2>1, <2>2 DEF ErrorInv, Newest
  <1>5. CASE View.hook # "rows"
    BY <1>2, <1>5 DEF ErrorInv
  <1>6. QED
    BY <1>3, <1>4, <1>5

LEMMA OwnErrorsKept ==
    ASSUME ErrorInv, UNCHANGED <<route, hook, newest, masked>>
    PROVE  ErrorInv'
  BY DEF ErrorInv, View, Newest

LEMMA MetricErrors ==
    ASSUME ErrorInv, NEW tag, ChooseMetric(tag)
    PROVE  ErrorInv'
  <1>1. PICK in : hook' = Run(hook, View, in) /\ route' = route /\ View.hook = "metric"
    BY DEF ChooseMetric, appVars
  <1>2. IsHook(hook') /\ View' = View
    BY <1>1, RunFacts DEF ErrorInv, View
  <1>3. QED
    BY <1>1, <1>2 DEF ErrorInv

\* What an answer and a failure have in common.
LEMMA AnswersErrors ==
    ASSUME ErrorInv, View.hook = "rows", NEW i \in DOMAIN hook.requests, NEW run, NEW how \in {"answered", "failed"},
           IsHook(run), run.requests = Without(hook.requests, i), Settled(i, run, how)
    PROVE  /\ AreRequests(run.requests, {"rows"})
           /\ newest' = "answered" => \A n \in DOMAIN run.requests : run.requests[n].beaten
           /\ newest' = "answered" /\ newest # "answered" => how = "answered"
           /\ newest = "answered" => hook.requests[i].beaten
           /\ newest' = "pending" => newest = "pending" /\ Outstanding(run.requests, "rows")
           /\ hook' = run /\ route' = route /\ View' = View
  <1>1. /\ hook' = run /\ route' = route
        /\ newest' = IF newest = "pending" /\ i = Len(hook.requests) THEN how ELSE newest
    BY DEF Settled, appVars
  <1>2. AreRequests(hook.requests, {"rows"})
    BY DEF ErrorInv
  <1>3. DOMAIN hook.requests = 1..Len(hook.requests) /\ Len(hook.requests) \in Nat
    BY <1>2, LenProperties DEF AreRequests, IsSeq
  <1>4. /\ AreRequests(run.requests, {"rows"})
        /\ \A n \in DOMAIN run.requests : \E m \in DOMAIN hook.requests \ {i} :
             hook.requests[m].beaten \/ (m < i /\ hook.requests[m].key = hook.requests[i].key)
               => run.requests[n].beaten
        /\ i # Len(hook.requests) =>
             \E n \in DOMAIN run.requests : run.requests[n].key = hook.requests[Len(hook.requests)].key
    <2> DEFINE old == hook.requests
    <2>1. i \in DOMAIN old /\ AreRequests(old, {"rows"}) /\ run.requests = Without(old, i)
      BY <1>2
    <2> HIDE DEF old
    <2>2. PICK left : left = Without(old, i)
      OBVIOUS
    <2>3. /\ AreRequests(left, {"rows"})
          /\ \A n \in DOMAIN left : \E m \in DOMAIN old \ {i} :
               /\ left[n].key = old[m].key
               /\ old[m].beaten \/ (m < i /\ old[m].key = old[i].key) => left[n].beaten
          /\ i # Len(old) => \E n \in DOMAIN left : left[n].key = old[Len(old)].key
      <3>1. \A keys : AreRequests(old, keys) =>
              LET w == Without(old, i)
              IN /\ AreRequests(w, keys)
                 /\ \A n \in DOMAIN w : \E m \in DOMAIN old \ {i} :
                      /\ w[n].key = old[m].key
                      /\ old[m].beaten \/ (m < i /\ old[m].key = old[i].key) => w[n].beaten
                 /\ i # Len(old) => \E n \in DOMAIN w : w[n].key = old[Len(old)].key
        BY <2>1, WithoutFacts
      <3>2. QED
        BY <2>1, <2>2, <3>1
    <2>4. QED
      BY <2>1, <2>2, <2>3 DEF old
  <1>5. \A m \in DOMAIN hook.requests : hook.requests[m].key = "rows"
    BY <1>2 DEF AreRequests, IsRequest
  <1>6. ASSUME newest' = "answered" PROVE \A n \in DOMAIN run.requests : run.requests[n].beaten
    <2>1. CASE newest = "answered"
      <3>1. \A m \in DOMAIN hook.requests : hook.requests[m].beaten
        BY <2>1 DEF ErrorInv
      <3>2. QED
        BY <1>4, <3>1
    <2>2. CASE i = Len(hook.requests)
      <3>1. \A m \in DOMAIN hook.requests \ {i} : m < i
        BY <1>3, <2>2
      <3>2. QED
        BY <1>4, <1>5, <3>1
    <2>3. QED
      BY <1>1, <1>6, <2>1, <2>2
  <1>7. newest = "answered" => hook.requests[i].beaten
    BY DEF ErrorInv
  <1>8. ASSUME newest' = "pending" PROVE newest = "pending" /\ Outstanding(run.requests, "rows")
    <2>1. newest = "pending" /\ i # Len(hook.requests)
      BY <1>1, <1>8
    <2>2. Len(hook.requests) \in DOMAIN hook.requests
      BY <1>3
    <2>3. QED
      BY <1>4, <1>5, <2>1, <2>2 DEF Outstanding
  <1>9. newest' = "answered" /\ newest # "answered" => how = "answered"
    BY <1>1
  <1>10. View' = View
    BY <1>1 DEF View
  <1>11. QED
    BY <1>1, <1>4, <1>6, <1>7, <1>8, <1>9, <1>10

-----------------------------------------------------------------------------
(* The types. *)

Entries == {"rows"} \union Tags

HookTyped(h) ==
  /\ IsHook(h)
  /\ DOMAIN h.data \subseteq Entries
  /\ \A k \in DOMAIN h.busy : h.busy[k] \in BOOLEAN
  /\ h.error \in BOOLEAN /\ h.total \in 0..MaxPage
  /\ AreRequests(h.requests, Entries)

ViewTyped == page \in 1..MaxPage /\ HookTyped(hook)

LEMMA AskTyped ==
    ASSUME NEW view, NEW keys, keys \subseteq Entries, NEW in, NEW s, AreRequests(s, Entries)
    PROVE  AreRequests(s \o Ask(view, keys, in), Entries)
  <1>1. IsFiniteSet(Entries)
    <2>1. Entries = {"rows", "device", "tag", "LSN"}
      BY DEF Entries, Tags
    <2>2. IsFiniteSet({"rows", "device", "tag", "LSN"})
      <3>1. IsFiniteSet({"rows"}) /\ IsFiniteSet({"device"}) /\ IsFiniteSet({"tag"}) /\ IsFiniteSet({"LSN"})
        BY FS_Singleton
      <3>2. IsFiniteSet({"rows"} \union {"device"}) /\ IsFiniteSet({"tag"} \union {"LSN"})
        BY <3>1, FS_Union
      <3>3. IsFiniteSet(({"rows"} \union {"device"}) \union ({"tag"} \union {"LSN"}))
        BY <3>2, FS_Union
      <3>4. ({"rows"} \union {"device"}) \union ({"tag"} \union {"LSN"}) = {"rows", "device", "tag", "LSN"}
        OBVIOUS
      <3>5. QED
        BY <3>3, <3>4
    <2>3. QED
      BY <2>1, <2>2
  <1>2. IsFiniteSet(keys)
    BY <1>1, FS_Subset
  <1>3. AreRequests(Ask(view, keys, in), keys)
    BY <1>2, AskFacts
  <1>4. AreRequests(Ask(view, keys, in), Entries)
    BY <1>3 DEF AreRequests, IsRequest
  <1>5. QED
    BY <1>4, ConcatRequests

LEMMA RunTyped ==
    ASSUME NEW h, HookTyped(h), NEW view, NEW in, in.tags \subseteq Tags
    PROVE  HookTyped(Run(h, view, in))
  <1>1. /\ HookFields \subseteq DOMAIN h /\ {"rows"} \subseteq Entries /\ in.tags \subseteq Entries
        /\ \A keys \in SUBSET Entries : AreRequests(h.requests \o Ask(view, keys, in), Entries)
    BY AskTyped DEF HookTyped, IsHook, Entries
  <1>2. HookTyped(LoadRows(h, view, in))
    <2>1. CASE ~in.token
      BY <2>1 DEF LoadRows
    <2>2. CASE in.token
      <3> DEFINE run == LoadRows(h, view, in)
      <3>1. /\ HookFields \subseteq DOMAIN run
            /\ DOMAIN run.data = {} /\ run.busy = [k \in {"rows"} |-> TRUE] /\ run.error = FALSE
            /\ run.total = h.total /\ run.requests = h.requests \o Ask(view, {"rows"}, in)
        BY <1>1, <2>2 DEF LoadRows, HookFields
      <3> HIDE DEF run
      <3>2. QED
        BY <1>1, <3>1 DEF HookTyped, IsHook, run
    <2>3. QED
      BY <2>1, <2>2
  <1>3. HookTyped(LoadUpdates(h, view, in))
    <2>1. CASE ~in.token
      BY <2>1 DEF LoadUpdates
    <2>2. CASE in.token
      <3> DEFINE run == LoadUpdates(h, view, in)
      <3>1. /\ HookFields \subseteq DOMAIN run
            /\ run.data = h.data /\ run.busy = [k \in {"rows"} |-> TRUE] /\ run.error = FALSE
            /\ run.total = h.total /\ run.requests = h.requests \o Ask(view, {"rows"}, in)
        BY <1>1, <2>2 DEF LoadUpdates, HookFields
      <3> HIDE DEF run
      <3>2. QED
        BY <1>1, <3>1 DEF HookTyped, IsHook, run
    <2>3. QED
      BY <2>1, <2>2
  <1>4. HookTyped(LoadAll(h, view, in))
    <2>1. CASE in.tags = {}
      BY <2>1 DEF LoadAll
    <2>2. CASE in.tags # {}
      <3> DEFINE run == LoadAll(h, view, in)
      <3>1. /\ HookFields \subseteq DOMAIN run
            /\ DOMAIN run.data = DOMAIN h.data \intersect in.tags /\ run.busy = [k \in in.tags |-> TRUE]
            /\ run.error = h.error
            /\ run.total = h.total /\ run.requests = h.requests \o Ask(view, in.tags, in)
        BY <1>1, <2>2 DEF LoadAll, HookFields, Restrict
      <3> HIDE DEF run
      <3>2. QED
        BY <1>1, <3>1 DEF HookTyped, IsHook, run
    <2>3. QED
      BY <2>1, <2>2
  <1>5. HookTyped(LoadMissing(h, view, in))
    <2>1. CASE in.tags = {}
      BY <2>1 DEF LoadMissing
    <2>2. CASE in.tags # {}
      <3> DEFINE run == LoadMissing(h, view, in)
                 missing == {k \in in.tags : k \notin DOMAIN h.data /\ ~(k \in DOMAIN h.busy /\ h.busy[k])}
      <3>1. /\ HookFields \subseteq DOMAIN run
            /\ DOMAIN run.data \subseteq DOMAIN h.data
            /\ DOMAIN run.busy \subseteq DOMAIN h.busy \union missing
            /\ \A k \in DOMAIN run.busy : run.busy[k] = (k \in missing \/ h.busy[k])
            /\ run.error = h.error /\ run.total = h.total
            /\ run.requests = h.requests \o Ask(view, missing, in)
        BY <1>1, <2>2 DEF LoadMissing, HookFields, Restrict
      <3>2. missing \in SUBSET Entries
        BY <1>1
      <3>3. \A k \in DOMAIN run.busy : run.busy[k] \in BOOLEAN
        BY <3>1
      <3> HIDE DEF run, missing
      <3>4. QED
        BY <1>1, <3>1, <3>2, <3>3 DEF HookTyped, IsHook, run
    <2>3. QED
      BY <2>1, <2>2
  <1>6. /\ view.hook = "rows" => Run(h, view, in) = LoadRows(h, view, in)
        /\ view.hook = "updates" => Run(h, view, in) = LoadUpdates(h, view, in)
        /\ view.hook \in {"all", "metric"} => Run(h, view, in) = LoadAll(h, view, in)
        /\ view.hook = "missing" => Run(h, view, in) = LoadMissing(h, view, in)
        /\ view.hook \notin {"rows", "updates", "all", "metric", "missing"} => Run(h, view, in) = h
    BY DEF Run
  <1>7. QED
    BY <1>2, <1>3, <1>4, <1>5, <1>6

LEMMA EffectsTyped ==
    ASSUME NEW h, HookTyped(h), NEW view, NEW in, IsInputs(in), NEW changed
    PROVE  HookTyped(Effects(h, view, in, changed))
  <1> DEFINE first == Run(h, view, in)
             one == [in EXCEPT !.page = 1]
  <1>1. in.tags \subseteq Tags /\ one.tags \subseteq Tags
    BY DEF IsInputs, InputFields
  <1>2. HookTyped(first)
    BY <1>1, RunTyped
  <1>3. HookTyped(Run(first, view, in)) /\ HookTyped(Run(first, view, one))
    BY <1>1, <1>2, RunTyped
  <1>4. Effects(h, view, in, changed) \in {h, first, Run(first, view, in), Run(first, view, one)}
    BY DEF Effects
  <1> HIDE DEF first, one
  <1>5. QED
    BY <1>2, <1>3, <1>4

LEMMA NoFetchTyped == HookTyped(NoFetch)
  <1>1. DOMAIN NoFetch.data = {} /\ DOMAIN NoFetch.busy = {} /\ NoFetch.total = 0
    BY DEF NoFetch
  <1>2. IsHook(NoFetch) /\ NoFetch.error = FALSE /\ AreRequests(NoFetch.requests, Entries)
    BY NoFetchIsHook, NoFetchQuiet
  <1>3. 0 \in 0..MaxPage
    BY ConsoleAssumption
  <1>4. QED
    BY <1>1, <1>2, <1>3 DEF HookTyped

\* What a request that is over does to the hook.
LEMMA SettledTyped ==
    ASSUME HookTyped(hook), NEW i \in DOMAIN hook.requests, NEW run, NEW how, Settled(i, run, how),
           HookFields \subseteq DOMAIN run, run.error \in BOOLEAN, run.total \in 0..MaxPage,
           DOMAIN run.data \subseteq DOMAIN hook.data \union {hook.requests[i].key},
           run.busy = Put(hook.busy, hook.requests[i].key, FALSE),
           run.requests = Without(hook.requests, i)
    PROVE  HookTyped(hook')
  <1>1. hook' = run
    BY DEF Settled
  <1>2. AreRequests(hook.requests, Entries)
    BY DEF HookTyped
  <1>3. hook.requests[i].key \in Entries
    BY <1>2 DEF AreRequests, IsRequest
  <1>4. AreRequests(run.requests, Entries)
    BY <1>2, WithoutFacts
  <1>5. \A k \in DOMAIN run.busy : run.busy[k] \in BOOLEAN
    BY DEF Put, HookTyped
  <1>6. QED
    BY <1>1, <1>3, <1>4, <1>5 DEF HookTyped, IsHook

LEMMA AnswerTyped ==
    ASSUME HookTyped(hook), NEW i \in DOMAIN hook.requests, Answer(i) \/ Fail(i)
    PROVE  HookTyped(hook')
  <1> DEFINE request == hook.requests[i]
  <1>1. CASE Answer(i)
    <2> DEFINE run == [hook EXCEPT !.data = Put(@, request.key, request.query),
                                   !.busy = Put(@, request.key, FALSE),
                                   !.total = PageCount(request.query),
                                   !.requests = Without(@, i)]
    <2>1. Settled(i, run, "answered")
      BY <1>1 DEF Answer
    <2>2. PageCount(request.query) \in 0..MaxPage
      BY ConsoleAssumption DEF PageCount, NoMatch
    <2>3. /\ HookFields \subseteq DOMAIN run /\ run.error = hook.error /\ run.total = PageCount(request.query)
          /\ run.data = Put(hook.data, request.key, request.query)
          /\ run.busy = Put(hook.busy, request.key, FALSE)
          /\ run.requests = Without(hook.requests, i)
      BY DEF HookTyped, IsHook, HookFields
    <2> HIDE DEF run
    <2>4. run.error \in BOOLEAN /\ DOMAIN run.data \subseteq DOMAIN hook.data \union {request.key}
      BY <2>3 DEF HookTyped, Put
    <2>5. QED
      BY <2>1, <2>2, <2>3, <2>4, SettledTyped
  <1>2. CASE Fail(i)
    <2> DEFINE rows == View.hook = "rows"
               updates == View.hook = "updates"
               run == [hook EXCEPT !.data = IF rows THEN @ ELSE Put(@, request.key, FAILED),
                                   !.busy = Put(@, request.key, FALSE),
                                   !.error = rows \/ updates,
                                   !.total = IF updates THEN 0 ELSE @,
                                   !.requests = Without(@, i)]
    <2>1. Settled(i, run, "failed")
      BY <1>2 DEF Fail
    <2>2. /\ HookFields \subseteq DOMAIN run /\ run.error = (rows \/ updates)
          /\ run.total \in {0, hook.total}
          /\ run.data \in {hook.data, Put(hook.data, request.key, FAILED)}
          /\ run.busy = Put(hook.busy, request.key, FALSE)
          /\ run.requests = Without(hook.requests, i)
      BY DEF HookTyped, IsHook, HookFields
    <2>3. (rows \/ updates) \in BOOLEAN
      OBVIOUS
    <2> HIDE DEF run, rows, updates
    <2>4. /\ run.error \in BOOLEAN /\ DOMAIN run.data \subseteq DOMAIN hook.data \union {request.key}
          /\ run.total \in 0..MaxPage
      BY <2>2, <2>3, ConsoleAssumption DEF HookTyped, Put
    <2>5. QED
      BY <2>1, <2>2, <2>4, SettledTyped
  <1>3. QED
    BY <1>1, <1>2

LEMMA ViewTypedStep ==
    ASSUME ShellInv, ViewTyped, [Next]_vars
    PROVE  ViewTyped'
  <1>1. HookTyped(hook) /\ page \in 1..MaxPage /\ MaxPage \in Nat \ {0}
    BY ConsoleAssumption DEF ViewTyped
  <1>2. CASE Mounts
    <2>1. PICK in : IsInputs(in) /\ page' = 1 /\ hook' = FirstFetch(route', in)
      BY <1>2 DEF Mounts
    <2>2. HookTyped(hook')
      BY <2>1, NoFetchTyped, EffectsTyped DEF FirstFetch
    <2>3. QED
      BY <1>1, <2>1, <2>2 DEF ViewTyped
  <1>3. CASE Refetches
    <2>1. PICK in, changed : IsInputs(in) /\ page' \in 1..MaxPage /\ hook' = Effects(hook, View, in, changed)
      BY <1>3 DEF Refetches
    <2>2. HookTyped(hook')
      BY <1>1, <2>1, EffectsTyped
    <2>3. QED
      BY <2>1, <2>2 DEF ViewTyped
  <1>4. ASSUME UNCHANGED <<page, hook>> PROVE ViewTyped'
    BY <1>1, <1>4 DEF ViewTyped
  <1>5. ASSUME NEW tag, ChooseMetric(tag) PROVE ViewTyped'
    <2>1. page' = page /\ \E x : hook' = Run(hook, View, [Inputs EXCEPT !.packets = x])
      BY <1>5 DEF ChooseMetric
    <2>2. \A x : [Inputs EXCEPT !.packets = x].tags \subseteq Tags
      BY InputsTyped, <1>5 DEF IsInputs, InputFields, ChooseMetric, appVars
    <2>3. QED
      BY <1>1, <2>1, <2>2, RunTyped DEF ViewTyped
  <1>6. ASSUME NEW i \in DOMAIN hook.requests, Answer(i) \/ Fail(i) PROVE ViewTyped'
    <2>1. page' = page
      BY <1>6 DEF Answer, Fail, Settled
    <2>2. QED
      BY <1>1, <1>6, <2>1, AnswerTyped DEF ViewTyped
  <1>7. ASSUME NEW i, MarkRow(i) PROVE ViewTyped'
    BY <1>4, <1>7 DEF MarkRow
  <1>8. ASSUME NEW order, Rearrange(order) PROVE ViewTyped'
    BY <1>4, <1>8 DEF Rearrange
  <1>9. CASE ViewKept
    BY <1>4, <1>9 DEF ViewKept, InputsKept
  <1>10. QED
    BY <1>1, <1>2, <1>3, <1>5, <1>6, <1>7, <1>8, <1>9, StepKinds DEF OwnStep

-----------------------------------------------------------------------------
(* The marks of the table, step by step. *)
LEMMA MountsFacts ==
    ASSUME Mounts
    PROVE  MarksInv'
  <1>1. PICK in : table' = FreshTable /\ hook' = FirstFetch(route', in)
    BY DEF Mounts
  <1>2. IsHook(hook')
    BY <1>1, NoFetchIsHook, EffectsFacts DEF FirstFetch
  <1>3. QED
    BY <1>1, <1>2, FreshUnmoved DEF MarksInv, FreshIsFine

LEMMA KeptMarks ==
    ASSUME MarksInv, UNCHANGED <<route, hook, table>>
    PROVE  MarksInv'
  BY DEF MarksInv, View, Unmoved, Row

LEMMA RefetchesMarks ==
    ASSUME MarksInv, Refetches
    PROVE  MarksInv'
  <1>1. PICK in, changed : /\ route' = route
                           /\ hook' = Effects(hook, View, in, changed)
                           /\ table' = TableAfter(hook')
    BY DEF Refetches
  <1>2. IsHook(hook') /\ (ForTable(View) => hook' = hook \/ ~TableDrawn(hook'))
    BY <1>1, EffectsFacts DEF MarksInv
  <1>3. table' = IF TableDrawn(hook') THEN table ELSE FreshTable
    BY <1>1 DEF TableAfter
  <1>4. CASE table' = FreshTable
    BY <1>2, <1>4, FreshUnmoved DEF MarksInv, FreshIsFine
  <1>5. CASE table' = table /\ hook' = hook
    BY <1>1, <1>5, KeptMarks
  <1>6. CASE ~ForTable(View)
    BY <1>3, <1>4, <1>6 DEF MarksInv
  <1>7. QED
    BY <1>2, <1>3, <1>4, <1>5, <1>6

LEMMA MarkedMarks ==
    ASSUME MarksInv, NEW i, MarkRow(i)
    PROVE  MarksInv'
  <1>1. /\ route' = route /\ hook' = hook /\ View.hook \in {"rows", "updates"} /\ TableDrawn(hook)
        /\ i \in DrawnRows(table.order)
    BY DEF MarkRow, RowsShown, HeaderShown, appVars
  <1>2. table' = IF i \in table.marks
                 THEN [table EXCEPT !.marks = @ \ {i}, !.picked = @ \ {Row(i)}]
                 ELSE [table EXCEPT !.marks = @ \union {i}, !.picked = @ \union {Row(i)}]
    BY DEF MarkRow
  <1>3. /\ TableFields \subseteq DOMAIN table' /\ table'.moved = table.moved /\ table'.order = table.order
        /\ i \in table.marks => table'.marks = table.marks \ {i} /\ table'.picked = table.picked \ {Row(i)}
        /\ i \notin table.marks => table'.marks = table.marks \union {i} /\ table'.picked = table.picked \union {Row(i)}
    BY <1>2 DEF MarksInv, TableFields
  <1>4. ASSUME ~table.moved PROVE Unmoved'
    <2>1. table.marks \subseteq DrawnRows(table.order) /\ {Row(j) : j \in table.marks} = table.picked
      BY <1>4 DEF MarksInv, Unmoved
    <2>2. \A j : Row(j)' = Row(j)
      BY <1>1, <1>3 DEF Row
    <2>3. \A j \in DrawnRows(table.order) : Row(j) = Row(i) => j = i
      <3>1. \A j \in DrawnRows(table.order) : RowAt(table.order, j) = RowAt(table.order, i) => j = i
        BY <1>1 DEF DrawnRows, RowAt, MarksInv, Orders
      <3>2. QED
        BY <3>1 DEF Row
    <2>4. table'.marks \subseteq DrawnRows(table'.order)
      BY <1>1, <1>3, <2>1
    <2>5. {Row(j) : j \in table'.marks} = table'.picked
      <3>1. CASE i \in table.marks
        BY <1>3, <2>1, <2>3, <3>1
      <3>2. CASE i \notin table.marks
        BY <1>3, <2>1, <3>2
      <3>3. QED
        BY <3>1, <3>2
    <2>6. QED
      BY <2>2, <2>4, <2>5 DEF Unmoved
  <1>5. table'.marks \subseteq {1, 2}
    BY <1>1, <1>3 DEF MarksInv, DrawnRows
  <1>6. View' = View
    BY <1>1 DEF View
  <1>7. QED
    BY <1>1, <1>3, <1>4, <1>5, <1>6 DEF MarksInv, ForTable

LEMMA RearrangedMarks ==
    ASSUME MarksInv, NEW order \in Orders, Rearrange(order)
    PROVE  MarksInv'
  <1>1. /\ route' = route /\ hook' = hook /\ View.hook \in {"rows", "updates"} /\ TableDrawn(hook)
        /\ table' = [table EXCEPT !.order = order, !.moved = @ \/ table.marks # {}]
    BY DEF Rearrange, HeaderShown, appVars
  <1>2. /\ TableFields \subseteq DOMAIN table' /\ table'.moved \in BOOLEAN
        /\ table'.marks = table.marks /\ table'.picked = table.picked /\ table'.order \in Orders
        /\ ~table'.moved => ~table.moved /\ table.marks = {}
    BY <1>1 DEF MarksInv, TableFields
  <1>3. ASSUME ~table'.moved PROVE Unmoved'
    BY <1>2, <1>3 DEF MarksInv, Unmoved
  <1>4. View' = View
    BY <1>1 DEF View
  <1>5. QED
    BY <1>1, <1>2, <1>3, <1>4 DEF MarksInv, ForTable

LEMMA SettledMarks ==
    ASSUME MarksInv, NEW i, NEW run, NEW how, IsHook(run), Settled(i, run, how)
    PROVE  MarksInv'
  <1>1. /\ hook' = run /\ route' = route
        /\ table' = IF TableDrawn(hook) /\ TableDrawn(run)
                    THEN [table EXCEPT !.moved = @ \/ table.marks # {}]
                    ELSE TableAfter(run)
    BY DEF Settled, appVars
  <1>2. View' = View
    BY <1>1 DEF View
  <1>3. CASE table' = FreshTable
    BY <1>1, <1>3, FreshUnmoved DEF MarksInv, FreshIsFine
  <1>4. CASE ~TableDrawn(hook) \/ ~TableDrawn(run)
    BY <1>1, <1>3, <1>4 DEF TableAfter, MarksInv
  <1>5. CASE TableDrawn(hook) /\ TableDrawn(run)
    <2>1. table' = [table EXCEPT !.moved = table.moved \/ table.marks # {}]
      BY <1>1, <1>5
    <2>2. /\ TableFields \subseteq DOMAIN table' /\ table'.moved \in BOOLEAN
          /\ table'.marks = table.marks /\ table'.picked = table.picked /\ table'.order = table.order
          /\ ~table'.moved => ~table.moved /\ table.marks = {}
      BY <2>1 DEF MarksInv, TableFields
    <2>3. ASSUME ~table'.moved PROVE Unmoved'
      BY <2>2, <2>3 DEF MarksInv, Unmoved
    <2>4. ASSUME table = FreshTable PROVE table' = FreshTable
      BY <2>1, <2>4 DEF FreshTable
    <2>5. QED
      BY <1>1, <1>2, <1>5, <2>2, <2>3, <2>4 DEF MarksInv
  <1>6. QED
    BY <1>4, <1>5

LEMMA AnsweredMarks ==
    ASSUME MarksInv, NEW i, Answer(i) \/ Fail(i)
    PROVE  MarksInv'
  <1>1. \E run, how : IsHook(run) /\ Settled(i, run, how)
    <2>1. CASE Answer(i)
      <3> DEFINE request == hook.requests[i]
                 run == [hook EXCEPT !.data = Put(@, request.key, request.query),
                                     !.busy = Put(@, request.key, FALSE),
                                     !.total = PageCount(request.query),
                                     !.requests = Without(@, i)]
      <3>1. IsHook(run)
        BY DEF MarksInv, IsHook
      <3>2. Settled(i, run, "answered")
        BY <2>1 DEF Answer
      <3>3. QED
        BY <3>1, <3>2
    <2>2. CASE Fail(i)
      <3> DEFINE request == hook.requests[i]
                 rows == View.hook = "rows"
                 updates == View.hook = "updates"
                 run == [hook EXCEPT !.data = IF rows THEN @ ELSE Put(@, request.key, FAILED),
                                     !.busy = Put(@, request.key, FALSE),
                                     !.error = rows \/ updates,
                                     !.total = IF updates THEN 0 ELSE @,
                                     !.requests = Without(@, i)]
      <3>1. IsHook(run)
        BY DEF MarksInv, IsHook
      <3>2. Settled(i, run, "failed")
        BY <2>2 DEF Fail
      <3>3. QED
        BY <3>1, <3>2
    <2>3. QED
      BY <2>1, <2>2
  <1>2. QED
    BY <1>1, SettledMarks

LEMMA MetricMarks ==
    ASSUME MarksInv, NEW tag, ChooseMetric(tag)
    PROVE  MarksInv'
  <1>1. PICK in : hook' = Run(hook, View, in) /\ table' = table /\ route' = route /\ View.hook = "metric"
    BY DEF ChooseMetric, appVars
  <1>2. table' = FreshTable
    BY <1>1 DEF MarksInv, ForTable
  <1>3. IsHook(hook')
    BY <1>1, RunFacts DEF MarksInv
  <1>4. QED
    BY <1>2, <1>3, FreshUnmoved DEF MarksInv, FreshIsFine

LEMMA MarksStep ==
    ASSUME ShellInv, ViewTyped, MarksInv, [Next]_vars
    PROVE  MarksInv'
  BY StepKinds, MountsFacts, RefetchesMarks, KeptMarks, MetricMarks, MarkedMarks, RearrangedMarks, AnsweredMarks
  DEF OwnStep, Orders, ViewKept, InputsKept, ViewTyped

LEMMA MarksInit == Init => MarksInv
  <1> SUFFICES ASSUME Init PROVE MarksInv
    OBVIOUS
  <1>1. table = FreshTable /\ \E in : hook = FirstFetch(route, in)
    BY DEF Init
  <1>2. IsHook(hook)
    BY <1>1, NoFetchIsHook, EffectsFacts DEF FirstFetch
  <1>3. QED
    BY <1>1, <1>2, FreshUnmoved DEF MarksInv, FreshIsFine

-----------------------------------------------------------------------------
(* The error of a table, step by step. *)

LEMMA AnswerErrors ==
    ASSUME ErrorInv, NEW i \in DOMAIN hook.requests, Answer(i)
    PROVE  ErrorInv'
  <1> DEFINE request == hook.requests[i]
             run == [hook EXCEPT !.data = Put(@, request.key, request.query),
                                 !.busy = Put(@, request.key, FALSE),
                                 !.total = PageCount(request.query),
                                 !.requests = Without(@, i)]
  <1>1. Settled(i, run, "answered") /\ masked' = masked
    BY DEF Answer
  <1>2. IsHook(run) /\ run.requests = Without(hook.requests, i) /\ run.error = hook.error
    BY DEF ErrorInv, IsHook, HookFields
  <1> HIDE DEF run
  <1>3. hook' = run /\ View' = View
    BY <1>1 DEF Settled, appVars, View
  <1>4. CASE View.hook = "rows"
    <2>1. /\ AreRequests(run.requests, {"rows"})
          /\ newest' = "answered" => \A n \in DOMAIN run.requests : run.requests[n].beaten
          /\ newest' = "pending" => newest = "pending"
      BY <1>1, <1>2, <1>4, AnswersErrors
    <2>2. newest' \in {newest, "answered"} /\ (newest' # newest => newest = "pending")
      BY <1>1 DEF Settled
    <2>3. hook.error /\ Newest => masked
      BY <1>4 DEF ErrorInv
    <2>4. run.error /\ Newest' => masked'
      BY <1>1, <1>2, <2>2, <2>3 DEF Newest
    <2>5. QED
      BY <1>2, <1>3, <2>1, <2>4 DEF ErrorInv
  <1>5. CASE View.hook # "rows"
    BY <1>2, <1>3, <1>5 DEF ErrorInv
  <1>6. QED
    BY <1>4, <1>5

LEMMA FailErrors ==
    ASSUME ErrorInv, NEW i \in DOMAIN hook.requests, Fail(i)
    PROVE  ErrorInv'
  <1> DEFINE request == hook.requests[i]
             rows == View.hook = "rows"
             updates == View.hook = "updates"
             run == [hook EXCEPT !.data = IF rows THEN @ ELSE Put(@, request.key, FAILED),
                                 !.busy = Put(@, request.key, FALSE),
                                 !.error = rows \/ updates,
                                 !.total = IF updates THEN 0 ELSE @,
                                 !.requests = Without(@, i)]
  <1>1. /\ Settled(i, run, "failed")
        /\ masked' = (masked \/ request.beaten \/ Outstanding(run.requests, request.key))
    BY DEF Fail
  <1>2. IsHook(run) /\ run.requests = Without(hook.requests, i)
    BY DEF ErrorInv, IsHook, HookFields
  <1> HIDE DEF run
  <1>3. hook' = run /\ View' = View
    BY <1>1 DEF Settled, appVars, View
  <1>4. CASE View.hook = "rows"
    <2>1. /\ AreRequests(run.requests, {"rows"})
          /\ newest' = "answered" => \A n \in DOMAIN run.requests : run.requests[n].beaten
          /\ newest' = "answered" => newest = "answered"
          /\ newest = "answered" => request.beaten
          /\ newest' = "pending" => Outstanding(run.requests, "rows")
      BY <1>1, <1>2, <1>4, AnswersErrors
    <2>2. request.key = "rows"
      BY <1>4 DEF ErrorInv, AreRequests, IsRequest
    <2>3. Newest' => request.beaten \/ Outstanding(run.requests, request.key)
      BY <2>1, <2>2 DEF Newest
    <2>4. Newest' => masked'
      BY <1>1, <2>3
    <2>5. QED
      BY <1>2, <1>3, <2>1, <2>4 DEF ErrorInv
  <1>5. CASE View.hook # "rows"
    BY <1>2, <1>3, <1>5 DEF ErrorInv
  <1>6. QED
    BY <1>4, <1>5

LEMMA ErrorStep ==
    ASSUME ShellInv, ViewTyped, ErrorInv, [Next]_vars
    PROVE  ErrorInv'
  <1>1. CASE Mounts \/ Refetches
    BY <1>1, MountsErrors, RefetchesErrors
  <1>2. CASE ViewKept
    BY <1>2, OwnErrorsKept DEF ViewKept, InputsKept
  <1>3. ASSUME NEW i, MarkRow(i) PROVE ErrorInv'
    BY <1>3, OwnErrorsKept DEF MarkRow, appVars
  <1>4. ASSUME NEW order, Rearrange(order) PROVE ErrorInv'
    BY <1>4, OwnErrorsKept DEF Rearrange, appVars
  <1>5. QED
    BY <1>1, <1>2, <1>3, <1>4, StepKinds, MetricErrors, AnswerErrors, FailErrors DEF OwnStep, ViewTyped

LEMMA ErrorInit == Init => ErrorInv
  <1> SUFFICES ASSUME Init PROVE ErrorInv
    OBVIOUS
  <1>1. PICK in : hook = FirstFetch(route, in) /\ newest = "pending"
    BY DEF Init
  <1>2. IsHook(hook)
    BY <1>1, NoFetchIsHook, EffectsFacts DEF FirstFetch
  <1>3. ASSUME View.hook = "rows"
        PROVE  AreRequests(hook.requests, {"rows"}) /\ hook.error = FALSE
    <2>1. ForTable(ViewAt(route))
      BY <1>3 DEF View, ForTable
    <2>2. QED
      BY <1>1, <2>1, NoFetchQuiet, NoFetchIsHook, RowsEffects DEF FirstFetch
  <1>4. QED
    BY <1>1, <1>2, <1>3 DEF ErrorInv

-----------------------------------------------------------------------------
(* The session, the range and the counters. *)

LEMMA CountersStep ==
    ASSUME [Next]_vars
    PROVE  \/ UNCHANGED <<clicks, range, births>>
           \/ /\ clicks < MaxClicks /\ clicks' = clicks + 1
              /\ range' \in {0, range, range + 1} /\ births' \in {0, births, births + 1}
  <1> DEFINE Counts == \/ UNCHANGED <<clicks, range, births>>
                       \/ /\ clicks < MaxClicks /\ clicks' = clicks + 1
                          /\ range' \in {0, range, range + 1} /\ births' \in {0, births, births + 1}
  <1> USE DEF Clicked, appVars
  <1>1. CASE UNCHANGED vars
    BY <1>1 DEF vars
  <1>2. CASE Reload \/ Logout \/ GuestLogin \/ SessionExpires \/ TagsArrive
    BY <1>2 DEF Reload, Logout, GuestLogin, SessionExpires, TagsArrive
  <1>3. CASE PressButton \/ ClosePopup
    BY <1>3 DEF PressButton, ClosePopup, PopupBecomes
  <1>4. CASE ChooseRange
    BY <1>4 DEF ChooseRange, RangesOffered
  <1>5. ASSUME NEW r, Back(r) PROVE Counts
    BY <1>5 DEF Back
  <1>6. ASSUME NEW tag, PickColumn(tag) \/ ChooseMetric(tag) PROVE Counts
    BY <1>6 DEF PickColumn, ChooseMetric
  <1>7. CASE AskOptions \/ ChooseField \/ OptionsAnswer \/ Search \/ ResetFilters
    BY <1>7 DEF AskOptions, ChooseField, OptionsAnswer, Search, ResetFilters
  <1>8. ASSUME NEW p, TurnPage(p) PROVE Counts
    BY <1>8 DEF TurnPage
  <1>9. ASSUME NEW i, MarkRow(i) PROVE Counts
    BY <1>9 DEF MarkRow
  <1>10. ASSUME NEW order, Rearrange(order) PROVE Counts
    BY <1>10 DEF Rearrange
  <1>11. ASSUME NEW i, Answer(i) \/ Fail(i) PROVE Counts
    BY <1>11 DEF Answer, Fail, Settled
  <1>12. QED
    BY <1>1, <1>2, <1>3, <1>4, <1>5, <1>6, <1>7, <1>8, <1>9, <1>10, <1>11, Zenon DEF Next

ChromeTyped ==
  /\ session \in {"user", "guest", "login"} /\ kc \in BOOLEAN /\ blank \in BOOLEAN
  /\ clicks \in 0..MaxClicks /\ range \in 0..clicks /\ births \in 0..clicks
  /\ \A l \in Lists : \A c \in columns[l] : c.object <= births

LEMMA ThrowsIsBoolean == \A r, p, lists : RenderThrows(r, p, lists) \in BOOLEAN
  BY DEF RenderThrows

LEMMA SessionStep ==
    ASSUME ChromeTyped, [Next]_vars
    PROVE  session' \in {"user", "guest", "login"} /\ kc' \in BOOLEAN /\ blank' \in BOOLEAN
  <1> DEFINE Typed == session' \in {"user", "guest", "login"} /\ kc' \in BOOLEAN /\ blank' \in BOOLEAN
  <1>1. ASSUME session' \in {session, "user", "guest", "login"}, kc' = kc \/ kc' = TRUE \/ kc' = FALSE,
               blank' = blank \/ \E r, p, lists : blank' = RenderThrows(r, p, lists)
        PROVE  Typed
    <2>1. blank' \in BOOLEAN
      BY <1>1, ThrowsIsBoolean, Zenon DEF ChromeTyped
    <2>2. kc' \in BOOLEAN
      BY <1>1, Zenon DEF ChromeTyped
    <2>3. QED
      BY <1>1, <2>1, <2>2 DEF ChromeTyped
  <1>2. ASSUME UNCHANGED <<session, kc>>, \E r, p, lists : blank' = RenderThrows(r, p, lists)
        PROVE  Typed
    BY <1>1, <1>2
  <1>3. ASSUME UNCHANGED <<session, kc, blank>> PROVE Typed
    BY <1>1, <1>3
  <1>4. CASE UNCHANGED vars
    BY <1>3, <1>4 DEF vars, appVars
  <1>5. CASE Reload
    <2>1. session' = "user" /\ kc' = TRUE /\ blank' = RenderThrows(route, NoPopup, DefaultColumns)
      BY <1>5 DEF Reload, Shows
    <2>2. QED
      BY <1>1, <2>1
  <1>6. CASE Logout
    BY <1>1, <1>6 DEF Logout
  <1>7. CASE GuestLogin
    <2>1. session' = "guest" /\ kc' = kc /\ blank' = RenderThrows("login", popup, columns)
      BY <1>7 DEF GuestLogin, Shows
    <2>2. QED
      BY <1>1, <2>1
  <1>8. CASE SessionExpires
    BY <1>1, <1>8 DEF SessionExpires
  <1>9. CASE PressButton
    <2>1. UNCHANGED <<session, kc>> /\ \E r, p : blank' = RenderThrows(r, p, columns)
      BY <1>9, Zenon DEF PressButton, PopupBecomes, Shows
    <2>2. QED
      BY <1>2, <2>1
  <1>10. ASSUME NEW r, Back(r) PROVE Typed
    <2>1. UNCHANGED <<session, kc>> /\ blank' = RenderThrows(r, popup, columns)
      BY <1>10 DEF Back, Shows
    <2>2. QED
      BY <1>2, <2>1
  <1>11. CASE ClosePopup
    <2>1. UNCHANGED <<session, kc>> /\ blank' = RenderThrows(route, NoPopup, columns)
      BY <1>11 DEF ClosePopup, PopupBecomes, Shows
    <2>2. QED
      BY <1>2, <2>1
  <1>12. ASSUME NEW tag, PickColumn(tag) PROVE Typed
    <2>1. UNCHANGED <<session, kc>> /\ blank' = RenderThrows(route, popup, columns')
      BY <1>12 DEF PickColumn, Shows
    <2>2. QED
      BY <1>2, <2>1
  <1>13. CASE ChooseRange \/ TagsArrive \/ AskOptions \/ ChooseField \/ OptionsAnswer \/ Search \/ ResetFilters
    BY <1>3, <1>13 DEF ChooseRange, TagsArrive, AskOptions, ChooseField, OptionsAnswer, Search, ResetFilters, appVars
  <1>14. ASSUME NEW tag, ChooseMetric(tag) PROVE Typed
    BY <1>3, <1>14 DEF ChooseMetric, appVars
  <1>15. ASSUME NEW p, TurnPage(p) PROVE Typed
    BY <1>3, <1>15 DEF TurnPage, appVars
  <1>16. ASSUME NEW i, MarkRow(i) PROVE Typed
    BY <1>3, <1>16 DEF MarkRow, appVars
  <1>17. ASSUME NEW order, Rearrange(order) PROVE Typed
    BY <1>3, <1>17 DEF Rearrange, appVars
  <1>18. ASSUME NEW i, Answer(i) \/ Fail(i) PROVE Typed
    BY <1>3, <1>18 DEF Answer, Fail, Settled, appVars
  <1>19. QED
    BY <1>4, <1>5, <1>6, <1>7, <1>8, <1>9, <1>10, <1>11, <1>12, <1>13, <1>14, <1>15, <1>16, <1>17, <1>18, Zenon
    DEF Next

\* No column is from a mount yet to come.
LEMMA ObjectsStep ==
    ASSUME ColumnsInv, ChromeTyped, [Next]_vars
    PROVE  (\A l \in Lists : \A c \in columns[l] : c.object <= births)'
  <1>1. births \in Nat /\ columns \in [Lists -> SUBSET [tag : Tags, object : Nat]]
    BY DEF ColumnsInv
  <1>2. \A l \in Lists : \A c \in columns[l] : c.object <= births
    BY DEF ChromeTyped
  <1>3. CASE Reload
    <2>1. births' = 0 /\ columns' = DefaultColumns
      BY <1>3 DEF Reload
    <2>2. QED
      BY <2>1 DEF DefaultColumns
  <1>4. ASSUME UNCHANGED columns, births' \in {births, births + 1}
        PROVE  (\A l \in Lists : \A c \in columns[l] : c.object <= births)'
    <2>1. \A l \in Lists : \A c \in columns[l] : c.object \in Nat
      BY <1>1
    <2>2. QED
      BY <1>1, <1>2, <1>4, <2>1
  <1>5. ASSUME NEW tag, PickColumn(tag)
        PROVE  (\A l \in Lists : \A c \in columns[l] : c.object <= births)'
    <2>1. births' = births /\ \E l : columns' = [columns EXCEPT ![l] = Picked(l, tag)]
      BY <1>5 DEF PickColumn
    <2>2. PICK l : columns' = [columns EXCEPT ![l] = Picked(l, tag)]
      BY <2>1
    <2>3. \A c \in Picked(l, tag) : c \in columns[l] \/ c.object \in {births, 0}
      BY DEF Picked
    <2>4. QED
      BY <1>1, <1>2, <2>1, <2>2, <2>3
  <1>6. CASE UNCHANGED vars
    BY <1>4, <1>6 DEF vars, appVars
  <1>7. CASE OtherStep
    BY <1>4, <1>7, ColumnsKept
  <1>8. QED
    BY <1>3, <1>5, <1>6, <1>7 DEF Next, OtherStep

LEMMA ChromeTypedStep ==
    ASSUME ColumnsInv, ChromeTyped, [Next]_vars
    PROVE  ChromeTyped'
  <1>1. clicks' \in 0..MaxClicks /\ range' \in 0..clicks' /\ births' \in 0..clicks'
    BY CountersStep, ConsoleAssumption DEF ChromeTyped
  <1>2. QED
    BY <1>1, SessionStep, ObjectsStep DEF ChromeTyped

-----------------------------------------------------------------------------
(* What is in flight for a key of the view: the newest request asks for    *)
(* what the view would ask now, or all that is left has been overtaken.    *)

Fresh(s, k, query) ==
  \E j \in DOMAIN s : /\ s[j].key = k
                      /\ \A m \in DOMAIN s : m >= j /\ s[m].key = k => ~s[m].beaten /\ s[m].query = query

Overtaken(s, k) == \A j \in DOMAIN s : s[j].key = k => s[j].beaten

LEMMA ConcatFacts ==
    ASSUME NEW s, NEW t, IsSeq(s), IsSeq(t)
    PROVE  LET c == s \o t
           IN /\ Len(s) \in Nat /\ DOMAIN s = 1..Len(s)
              /\ Len(t) \in Nat /\ DOMAIN t = 1..Len(t)
              /\ IsSeq(c) /\ DOMAIN c = 1..(Len(s) + Len(t))
              /\ \A j \in DOMAIN s : c[j] = s[j]
              /\ \A j \in DOMAIN c : j > Len(s) => j - Len(s) \in DOMAIN t /\ c[j] = t[j - Len(s)]
  <1>1. PICK S : s \in Seq(S)
    BY DEF IsSeq
  <1>2. PICK T : t \in Seq(T)
    BY DEF IsSeq
  <1>3. s \in Seq(S \union T) /\ t \in Seq(S \union T)
    BY <1>1, <1>2, SeqMonotonic
  <1>4. /\ Len(s) \in Nat /\ DOMAIN s = 1..Len(s)
        /\ Len(t) \in Nat /\ DOMAIN t = 1..Len(t)
    BY <1>3, LenProperties
  <1>5. /\ s \o t \in Seq(S \union T)
        /\ Len(s \o t) = Len(s) + Len(t)
        /\ \A j \in 1..(Len(s) + Len(t)) : (s \o t)[j] = IF j <= Len(s) THEN s[j] ELSE t[j - Len(s)]
    BY <1>3, ConcatProperties
  <1>6. DOMAIN (s \o t) = 1..(Len(s) + Len(t))
    BY <1>5, LenProperties
  <1>7. \A j \in DOMAIN s : (s \o t)[j] = s[j]
    BY <1>4, <1>5
  <1>8. \A j \in DOMAIN (s \o t) : j > Len(s) => j - Len(s) \in DOMAIN t /\ (s \o t)[j] = t[j - Len(s)]
    BY <1>4, <1>5, <1>6
  <1>9. QED
    BY <1>4, <1>5, <1>6, <1>7, <1>8 DEF IsSeq

\* What Ask makes.
IsAsk(t, view, keys, in) ==
  /\ AreRequests(t, keys)
  /\ \A j \in DOMAIN t : ~t[j].beaten /\ t[j].query = Query(view, t[j].key, in)
  /\ \A k \in keys : \E j \in DOMAIN t : t[j].key = k

LEMMA AskIsAsk == \A view, keys, in : IsFiniteSet(keys) => IsAsk(Ask(view, keys, in), view, keys, in)
  <1> SUFFICES ASSUME NEW view, NEW keys, NEW in, IsFiniteSet(keys)
               PROVE  IsAsk(Ask(view, keys, in), view, keys, in)
    OBVIOUS
  <1> QED
    BY AskFacts DEF IsAsk

\* The requests a run adds are the newest for their keys.
Added(s, c, view, keys, in) ==
  /\ IsSeq(c)
  /\ \A k \in keys : Fresh(c, k, Query(view, k, in)) /\ Outstanding(c, k)
  /\ \A k : Outstanding(s, k) => Outstanding(c, k)
  /\ \A j \in DOMAIN c : \/ \E m \in DOMAIN s : c[j] = s[m]
                         \/ c[j].query = Query(view, c[j].key, in)

LEMMA AskedFresh ==
    ASSUME NEW s, IsSeq(s), NEW view, NEW keys, NEW in, NEW t, IsAsk(t, view, keys, in)
    PROVE  Added(s, s \o t, view, keys, in)
  <1> DEFINE c == s \o t
  <1>1. /\ AreRequests(t, keys)
        /\ \A j \in DOMAIN t : ~t[j].beaten /\ t[j].query = Query(view, t[j].key, in)
        /\ \A k \in keys : \E j \in DOMAIN t : t[j].key = k
    BY DEF IsAsk
  <1>2. IsSeq(t)
    BY <1>1 DEF AreRequests
  <1>3. /\ Len(s) \in Nat /\ DOMAIN s = 1..Len(s)
        /\ Len(t) \in Nat /\ DOMAIN t = 1..Len(t)
        /\ IsSeq(c) /\ DOMAIN c = 1..(Len(s) + Len(t))
        /\ \A j \in DOMAIN s : c[j] = s[j]
        /\ \A j \in DOMAIN c : j > Len(s) => j - Len(s) \in DOMAIN t /\ c[j] = t[j - Len(s)]
    BY <1>2, ConcatFacts
  <1> HIDE DEF c
  <1>4. ASSUME NEW k \in keys PROVE Fresh(c, k, Query(view, k, in)) /\ Outstanding(c, k)
    <2>1. PICK j \in DOMAIN t : t[j].key = k
      BY <1>1
    <2>2. Len(s) + j \in DOMAIN c /\ Len(s) + j > Len(s) /\ (Len(s) + j) - Len(s) = j
      BY <1>3, <2>1
    <2>3. c[Len(s) + j].key = k
      BY <1>3, <2>1, <2>2
    <2>4. ASSUME NEW m \in DOMAIN c, m >= Len(s) + j, c[m].key = k
          PROVE  ~c[m].beaten /\ c[m].query = Query(view, k, in)
      <3>1. m > Len(s)
        BY <1>3, <2>1, <2>4
      <3>2. m - Len(s) \in DOMAIN t /\ c[m] = t[m - Len(s)]
        BY <1>3, <3>1
      <3>3. QED
        BY <1>1, <2>4, <3>2
    <2>5. QED
      BY <2>2, <2>3, <2>4 DEF Fresh, Outstanding
  <1>5. ASSUME NEW k, Outstanding(s, k) PROVE Outstanding(c, k)
    BY <1>3, <1>5 DEF Outstanding
  <1>6. ASSUME NEW j \in DOMAIN c
        PROVE  \/ \E m \in DOMAIN s : c[j] = s[m]
               \/ c[j].query = Query(view, c[j].key, in)
    <2>1. CASE j > Len(s)
      BY <1>1, <1>3, <2>1
    <2>2. CASE ~(j > Len(s))
      BY <1>3, <2>2
    <2>3. QED
      BY <2>1, <2>2
  <1>7. QED
    BY <1>3, <1>4, <1>5, <1>6 DEF Added, c

\* When the i-th is over, the newest for its key has either still to come or
\* overtaken all that is left.
LEMMA SettledFresh ==
    ASSUME NEW keys, NEW s, AreRequests(s, keys), NEW i \in DOMAIN s, NEW k, NEW query
    PROVE  LET w == Without(s, i)
           IN /\ Fresh(s, k, query) =>
                   \/ Fresh(w, k, query)
                   \/ s[i].key = k /\ ~s[i].beaten /\ s[i].query = query /\ Overtaken(w, k)
              /\ Overtaken(s, k) => Overtaken(w, k)
              /\ Outstanding(s, k) => s[i].key = k \/ Outstanding(w, k)
  <1> DEFINE w == Without(s, i)
  <1>1. /\ Len(s) \in Nat /\ DOMAIN s = 1..Len(s) /\ DOMAIN w = 1..(Len(s) - 1)
        /\ \A n \in DOMAIN w : LET m == Before(n, i) IN
             /\ m \in DOMAIN s \ {i} /\ w[n].key = s[m].key /\ w[n].query = s[m].query
             /\ m < i /\ s[m].key = s[i].key => w[n].beaten
             /\ s[m].beaten => w[n].beaten
             /\ ~s[m].beaten /\ ~(m < i /\ s[m].key = s[i].key) => ~w[n].beaten
    BY WithoutAt
  <1> HIDE DEF w
  <1>2. PICK len \in Nat : DOMAIN s = 1..len /\ DOMAIN w = 1..(len - 1) /\ i \in 1..len
    BY <1>1
  <1>3. ASSUME NEW m \in DOMAIN s, m # i
        PROVE  LET n == IF m < i THEN m ELSE m - 1 IN n \in DOMAIN w /\ Before(n, i) = m
    BY <1>2, <1>3 DEF Before
  <1>4. \A n, o \in DOMAIN w : n >= o => Before(n, i) >= Before(o, i)
    BY <1>2 DEF Before
  \* A later request for the key than the i-th, or one for another key.
  <1>5. ASSUME NEW j \in DOMAIN s, s[j].key = k, j # i,
               \A m \in DOMAIN s : m >= j /\ s[m].key = k => ~s[m].beaten /\ s[m].query = query,
               s[i].key # k \/ i < j
        PROVE  Fresh(w, k, query)
    <2>1. PICK n \in DOMAIN w : Before(n, i) = j
      BY <1>3, <1>5
    <2>2. w[n].key = k
      BY <1>1, <1>5, <2>1
    <2>3. ASSUME NEW o \in DOMAIN w, o >= n, w[o].key = k PROVE ~w[o].beaten /\ w[o].query = query
      <3>1. PICK m : m = Before(o, i)
        OBVIOUS
      <3>2. /\ m \in DOMAIN s \ {i} /\ s[m].key = k /\ w[o].query = s[m].query
            /\ ~s[m].beaten /\ ~(m < i /\ s[m].key = s[i].key) => ~w[o].beaten
        BY <1>1, <2>3, <3>1
      <3>3. m >= j
        BY <1>4, <2>1, <2>3, <3>1
      <3>4. ~s[m].beaten /\ s[m].query = query
        BY <1>5, <3>2, <3>3
      <3>5. ~(m < i /\ s[m].key = s[i].key)
        BY <1>2, <1>5, <3>2, <3>3
      <3>6. QED
        BY <3>2, <3>4, <3>5
    <2>4. QED
      BY <2>2, <2>3 DEF Fresh
  <1>6. ASSUME Fresh(s, k, query)
        PROVE  \/ Fresh(w, k, query)
               \/ s[i].key = k /\ ~s[i].beaten /\ s[i].query = query /\ Overtaken(w, k)
    <2>1. PICK j \in DOMAIN s :
            /\ s[j].key = k
            /\ \A m \in DOMAIN s : m >= j /\ s[m].key = k => ~s[m].beaten /\ s[m].query = query
      BY <1>6 DEF Fresh
    <2>2. CASE s[i].key # k \/ i < j
      BY <1>2, <1>5, <2>1, <2>2
    <2>3. CASE s[i].key = k /\ i >= j
      <3>1. ~s[i].beaten /\ s[i].query = query
        BY <2>1, <2>3
      <3>2. CASE \E l \in DOMAIN s : l > i /\ s[l].key = k
        <4>1. PICK l \in DOMAIN s : l > i /\ s[l].key = k
          BY <3>2
        <4>2. \A m \in DOMAIN s : m >= l => m >= j
          BY <1>2, <2>3, <4>1
        <4>3. \A m \in DOMAIN s : m >= l /\ s[m].key = k => ~s[m].beaten /\ s[m].query = query
          BY <2>1, <4>2
        <4>4. l # i /\ i < l
          BY <1>2, <4>1
        <4>5. QED
          BY <1>5, <4>1, <4>3, <4>4
      <3>3. CASE \A l \in DOMAIN s : s[l].key = k => ~(l > i)
        <4>1. ASSUME NEW n \in DOMAIN w, w[n].key = k PROVE w[n].beaten
          <5>1. PICK m : m = Before(n, i)
            OBVIOUS
          <5>2. m \in DOMAIN s \ {i} /\ s[m].key = k /\ (m < i /\ s[m].key = s[i].key => w[n].beaten)
            BY <1>1, <4>1, <5>1
          <5>3. m < i
            BY <1>2, <3>3, <5>2
          <5>4. QED
            BY <2>3, <5>2, <5>3
        <4>2. QED
          BY <2>3, <3>1, <4>1 DEF Overtaken
      <3>4. QED
        BY <3>2, <3>3
    <2>4. QED
      BY <1>2, <2>1, <2>2, <2>3
  <1>7. ASSUME Overtaken(s, k), NEW n \in DOMAIN w, w[n].key = k PROVE w[n].beaten
    <2>1. PICK m : m = Before(n, i)
      OBVIOUS
    <2>2. m \in DOMAIN s /\ s[m].key = k /\ (s[m].beaten => w[n].beaten)
      BY <1>1, <1>7, <2>1
    <2>3. QED
      BY <1>7, <2>2 DEF Overtaken
  <1>8. ASSUME Outstanding(s, k), s[i].key # k PROVE Outstanding(w, k)
    <2>1. PICK m \in DOMAIN s : s[m].key = k
      BY <1>8 DEF Outstanding
    <2>2. PICK n \in DOMAIN w : Before(n, i) = m
      BY <1>3, <1>8, <2>1
    <2>3. QED
      BY <1>1, <2>1, <2>2 DEF Outstanding
  <1>9. QED
    BY <1>6, <1>7, <1>8 DEF Overtaken, w

-----------------------------------------------------------------------------
(* What a run of the effects asks for. *)

Hooks == {"none", "rows", "updates", "all", "metric", "missing"}

\* What the effects rely on: every input a view sends makes them run again.
Fetches(view) ==
  /\ view.hook \in Hooks
  /\ view.hook # "none" => view.reruns # {}
  /\ ForTable(view) => "page" \in view.reruns
  /\ "page" \in view.sends => ForTable(view)
  /\ view.sends \intersect {"range", "filters"} \subseteq view.reruns
  /\ view.columns # NoList => "columns" \in view.reruns
  /\ view.resets \subseteq view.reruns /\ view.resets \subseteq {"range"}
  /\ view.resets # {} => ForTable(view) /\ "page" \in view.sends
  /\ view.resets # {} => view.sends = {"page", "range"} /\ view.resets = {"range"}
  /\ view.hook = "missing" => view.sends = {}

LEMMA TablesFetch ==
    ASSUME NEW title, NEW list
    PROVE  Fetches(Table(title, "rows", list))
  <1> DEFINE view == Table(title, "rows", list)
  <1>1. /\ view.hook = "rows" /\ view.resets = {}
        /\ view.reruns = {"page", "range", "filters", "columns"}
        /\ view.sends = {"page", "range", "filters"}
    BY DEF Table
  <1> HIDE DEF view
  <1>2. Fetches(view)
    BY <1>1 DEF Fetches, ForTable, Hooks
  <1>3. QED
    BY <1>2 DEF view

LEMMA StatisticsFetch ==
    ASSUME NEW title, NEW way \in {"all", "metric", "missing"}, NEW list, NEW charts
    PROVE  Fetches(Statistics(title, way, list, charts))
  <1> DEFINE view == Statistics(title, way, list, charts)
  <1>1. /\ view.hook = way /\ view.resets = {}
        /\ view.reruns = {"columns"} \union (IF way = "missing" THEN {} ELSE {"range"})
        /\ view.sends = (IF way = "missing" THEN {} ELSE {"range"})
    BY DEF Statistics
  <1> HIDE DEF view
  <1>2. Fetches(view)
    BY <1>1 DEF Fetches, ForTable, Hooks
  <1>3. QED
    BY <1>2 DEF view

LEMMA PagesFetch ==
    ASSUME NEW title
    PROVE  Fetches(Page(title))
  <1> DEFINE view == Page(title)
  <1>1. /\ view.hook = "none" /\ view.resets = {} /\ view.columns = NoList
        /\ view.reruns = {} /\ view.sends = {}
    BY DEF Page
  <1> HIDE DEF view
  <1>2. Fetches(view)
    BY <1>1 DEF Fetches, ForTable, Hooks
  <1>3. QED
    BY <1>2 DEF view

\* The three tables that are not as Table makes them.
LEMMA OtherTablesFetch ==
    Fetches(TelemetrySignalTable) /\ Fetches(TrafficTable) /\ Fetches(BgpLinkStateEventTable)
  <1>1. Fetches(TelemetrySignalTable)
    <2>1. LET view == TelemetrySignalTable
          IN /\ view.hook = "rows" /\ view.columns = NoList /\ view.resets = {}
             /\ view.reruns = {"page", "range"} /\ view.sends = {"page", "range"}
      BY DEF TelemetrySignalTable, Table
    <2>2. QED
      BY <2>1 DEF Fetches, ForTable, Hooks
  <1>2. Fetches(TrafficTable)
    <2>1. LET view == TrafficTable
          IN /\ view.hook = "rows" /\ view.columns = NoList /\ view.resets = {}
             /\ view.reruns = {"page", "range", "filters"} /\ view.sends = {"page", "range", "filters"}
      BY DEF TrafficTable, Table
    <2>2. QED
      BY <2>1 DEF Fetches, ForTable, Hooks
  <1>3. Fetches(BgpLinkStateEventTable)
    <2>1. LET view == BgpLinkStateEventTable
          IN /\ view.hook = "updates" /\ view.columns = NoList /\ view.resets = {"range"}
             /\ view.reruns = {"page", "range"} /\ view.sends = {"page", "range"}
      BY DEF BgpLinkStateEventTable, Table
    <2>2. QED
      BY <2>1 DEF Fetches, ForTable, Hooks
  <1>4. QED
    BY <1>1, <1>2, <1>3

LEMMA ViewsFetch ==
    ASSUME NEW r \in Routes
    PROVE  Fetches(ViewAt(r))
  <1>1. CASE r \in SignalAndDeviceRoutes
    <2>1. Fetches(Nothing) /\ Fetches(Incidents) /\ Fetches(Page("Devices"))
      BY PagesFetch DEF Nothing, Incidents
    <2>2. Fetches(SyslogSignalTable) /\ Fetches(SnmpTrapSignalTable)
      BY TablesFetch DEF SyslogSignalTable, SnmpTrapSignalTable
    <2>3. /\ Fetches(SyslogSignalStatistics) /\ Fetches(SnmpTrapSignalStatistics)
          /\ Fetches(TelemetrySignalStatistics)
      BY StatisticsFetch
         DEF SyslogSignalStatistics, SnmpTrapSignalStatistics, TelemetrySignalStatistics
    <2>4. Fetches(SignalAndDeviceView(r))
      BY <1>1, <2>1, <2>2, <2>3, OtherTablesFetch DEF SignalAndDeviceRoutes, SignalAndDeviceView
    <2>5. QED
      BY <1>1, <2>4 DEF ViewAt
  <1>2. CASE r \notin SignalAndDeviceRoutes
    <2>1. Fetches(Page("Performance")) /\ Fetches(Page("Topology"))
      BY PagesFetch
    <2>2. Fetches(SyslogEventTable) /\ Fetches(SnmpTrapEventTable)
      BY TablesFetch DEF SyslogEventTable, SnmpTrapEventTable
    <2>3. Fetches(SyslogEventStatistics) /\ Fetches(SnmpTrapEventStatistics) /\ Fetches(TrafficStatistics)
      BY StatisticsFetch DEF SyslogEventStatistics, SnmpTrapEventStatistics, TrafficStatistics
    <2>4. r \in EventAndTrafficRoutes
      BY <1>2 DEF Routes
    <2>5. Fetches(EventAndTrafficView(r))
      BY <2>1, <2>2, <2>3, <2>4, OtherTablesFetch DEF EventAndTrafficRoutes, EventAndTrafficView
    <2>6. QED
      BY <1>2, <2>5 DEF ViewAt
  <1>3. QED
    BY <1>1, <1>2

LEMMA TagsFinite ==
    ASSUME NEW tags, tags \subseteq Tags
    PROVE  IsFiniteSet(tags)
  <1>1. IsFiniteSet({"device"}) /\ IsFiniteSet({"tag"}) /\ IsFiniteSet({"LSN"})
    BY FS_Singleton
  <1>2. IsFiniteSet({"device"} \union {"tag"})
    BY <1>1, FS_Union
  <1>3. IsFiniteSet(({"device"} \union {"tag"}) \union {"LSN"})
    BY <1>1, <1>2, FS_Union
  <1>4. ({"device"} \union {"tag"}) \union {"LSN"} = Tags
    BY DEF Tags
  <1>5. QED
    BY <1>3, <1>4, FS_Subset

\* Nothing is left loading that no request is out for.
BusyAsked(h) == \A k \in DOMAIN h.busy : h.busy[k] => Outstanding(h.requests, k)

FetchTyped(h) == IsHook(h) /\ IsSeq(h.requests)

\* What a run adds to the requests, and marks as loading.
Loads(h, run, view, keys, in) ==
  /\ IsHook(run) /\ run.requests = h.requests \o Ask(view, keys, in)
  /\ \A k \in DOMAIN run.busy : run.busy[k] => k \in keys \/ (k \in DOMAIN h.busy /\ h.busy[k])

LEMMA LoadFacts ==
    ASSUME NEW h, FetchTyped(h), NEW run, NEW view, NEW keys, IsFiniteSet(keys), NEW in, Loads(h, run, view, keys, in)
    PROVE  /\ FetchTyped(run)
           /\ BusyAsked(h) => BusyAsked(run)
           /\ Added(h.requests, run.requests, view, keys, in)
  <1>1. Added(h.requests, run.requests, view, keys, in)
    BY AskIsAsk, AskedFresh DEF FetchTyped, Loads
  <1>2. ASSUME BusyAsked(h) PROVE BusyAsked(run)
    BY <1>1, <1>2 DEF BusyAsked, Loads, Added
  <1>3. QED
    BY <1>1, <1>2 DEF FetchTyped, Loads, Added

\* The columns a signal statistics view finds neither loaded nor loading.
MissingOf(h, in) == {k \in in.tags : k \notin DOMAIN h.data /\ ~(k \in DOMAIN h.busy /\ h.busy[k])}

LEMMA MissingLoads ==
    ASSUME NEW h, IsHook(h), NEW view, view.hook = "missing", NEW in
    PROVE  LET run == Run(h, view, in)
           IN /\ in.tags = {} => run = h
              /\ in.tags # {} =>
                   /\ Loads(h, run, view, MissingOf(h, in), in)
                   /\ DOMAIN run.data = DOMAIN h.data \intersect (in.tags \ StringColumns)
                   /\ \A k \in DOMAIN run.data : run.data[k] = h.data[k]
  <1> DEFINE run == Run(h, view, in)
             missing == MissingOf(h, in)
  <1>1. run = LoadMissing(h, view, in)
    BY DEF Run
  <1>2. ASSUME in.tags = {} PROVE run = h
    BY <1>1, <1>2 DEF LoadMissing
  <1>3. ASSUME in.tags # {}
        PROVE  /\ Loads(h, run, view, missing, in)
               /\ DOMAIN run.data = DOMAIN h.data \intersect (in.tags \ StringColumns)
               /\ \A k \in DOMAIN run.data : run.data[k] = h.data[k]
    <2>1. /\ HookFields \subseteq DOMAIN run
          /\ DOMAIN run.busy \subseteq DOMAIN h.busy \union missing
          /\ \A k \in DOMAIN run.busy : run.busy[k] = (k \in missing \/ h.busy[k])
          /\ DOMAIN run.data = DOMAIN h.data \intersect (in.tags \ StringColumns)
          /\ \A k \in DOMAIN run.data : run.data[k] = h.data[k]
          /\ run.requests = h.requests \o Ask(view, missing, in)
      BY <1>1, <1>3 DEF LoadMissing, IsHook, HookFields, Restrict, MissingOf
    <2> HIDE DEF run, missing
    <2>2. \A k \in DOMAIN run.busy : run.busy[k] => k \in missing \/ (k \in DOMAIN h.busy /\ h.busy[k])
      BY <2>1
    <2>3. QED
      BY <2>1, <2>2 DEF Loads, IsHook
  <1>4. QED
    BY <1>2, <1>3

LEMMA RunLoads ==
    ASSUME NEW h, IsHook(h), NEW view, view.hook \in Hooks, NEW in
    PROVE  LET run == Run(h, view, in)
           IN \/ /\ run = h
                 /\ \/ view.hook = "none"
                    \/ ForTable(view) /\ ~in.token
                    \/ ~ForTable(view) /\ in.tags = {}
              \/ ForTable(view) /\ in.token /\ Loads(h, run, view, {"rows"}, in)
              \/ view.hook \in {"all", "metric"} /\ Loads(h, run, view, in.tags, in)
              \/ /\ view.hook = "missing" /\ Loads(h, run, view, MissingOf(h, in), in)
                 /\ DOMAIN run.data = DOMAIN h.data \intersect (in.tags \ StringColumns)
                 /\ \A k \in DOMAIN run.data : run.data[k] = h.data[k]
  <1> DEFINE run == Run(h, view, in)
  <1>1. ASSUME view.hook = "rows"
        PROVE  IF in.token THEN Loads(h, run, view, {"rows"}, in) ELSE run = h
    <2>1. run = LoadRows(h, view, in)
      BY <1>1 DEF Run
    <2>2. CASE ~in.token
      BY <2>1, <2>2 DEF LoadRows
    <2>3. CASE in.token
      <3>1. /\ HookFields \subseteq DOMAIN run /\ run.busy = [k \in {"rows"} |-> TRUE]
            /\ run.requests = h.requests \o Ask(view, {"rows"}, in)
        BY <2>1, <2>3 DEF LoadRows, IsHook, HookFields
      <3> HIDE DEF run
      <3>2. QED
        BY <2>3, <3>1 DEF Loads, IsHook
    <2>4. QED
      BY <2>2, <2>3
  <1>2. ASSUME view.hook = "updates"
        PROVE  IF in.token THEN Loads(h, run, view, {"rows"}, in) ELSE run = h
    <2>1. run = LoadUpdates(h, view, in)
      BY <1>2 DEF Run
    <2>2. CASE ~in.token
      BY <2>1, <2>2 DEF LoadUpdates
    <2>3. CASE in.token
      <3>1. /\ HookFields \subseteq DOMAIN run /\ run.busy = [k \in {"rows"} |-> TRUE]
            /\ run.requests = h.requests \o Ask(view, {"rows"}, in)
        BY <2>1, <2>3 DEF LoadUpdates, IsHook, HookFields
      <3> HIDE DEF run
      <3>2. QED
        BY <2>3, <3>1 DEF Loads, IsHook
    <2>4. QED
      BY <2>2, <2>3
  <1>3. ASSUME view.hook \in {"all", "metric"}
        PROVE  IF in.tags # {} THEN Loads(h, run, view, in.tags, in) ELSE run = h
    <2>1. run = LoadAll(h, view, in)
      BY <1>3 DEF Run
    <2>2. CASE in.tags = {}
      BY <2>1, <2>2 DEF LoadAll
    <2>3. CASE in.tags # {}
      <3>1. /\ HookFields \subseteq DOMAIN run /\ run.busy = [k \in in.tags |-> TRUE]
            /\ run.requests = h.requests \o Ask(view, in.tags, in)
        BY <2>1, <2>3 DEF LoadAll, IsHook, HookFields
      <3> HIDE DEF run
      <3>2. QED
        BY <2>3, <3>1 DEF Loads, IsHook
    <2>4. QED
      BY <2>2, <2>3
  <1>4. ASSUME view.hook = "missing"
        PROVE  /\ in.tags = {} => run = h
               /\ in.tags # {} => /\ Loads(h, run, view, MissingOf(h, in), in)
                                  /\ DOMAIN run.data = DOMAIN h.data \intersect (in.tags \ StringColumns)
                                  /\ \A k \in DOMAIN run.data : run.data[k] = h.data[k]
    BY <1>4, MissingLoads
  <1>5. ASSUME view.hook = "none" PROVE run = h
    BY <1>5 DEF Run
  <1>6. view.hook \in {"rows", "updates"} => (in.token => Loads(h, run, view, {"rows"}, in)) /\ (~in.token => run = h)
    BY <1>1, <1>2
  <1>7. view.hook \in {"all", "metric"} => (in.tags # {} => Loads(h, run, view, in.tags, in)) /\ (in.tags = {} => run = h)
    BY <1>3
  <1>8. view.hook = "missing" =>
          /\ in.tags = {} => run = h
          /\ in.tags # {} => /\ Loads(h, run, view, MissingOf(h, in), in)
                             /\ DOMAIN run.data = DOMAIN h.data \intersect (in.tags \ StringColumns)
                             /\ \A k \in DOMAIN run.data : run.data[k] = h.data[k]
    BY <1>4
  <1> HIDE DEF run
  <1>9. CASE view.hook \in {"rows", "updates"}
    BY <1>6, <1>9 DEF run, ForTable
  <1>10. CASE view.hook \in {"all", "metric"}
    BY <1>7, <1>10 DEF run, ForTable
  <1>11. CASE view.hook = "missing"
    BY <1>8, <1>11 DEF run, ForTable
  <1>12. CASE view.hook = "none"
    BY <1>5, <1>12 DEF run
  <1>13. \/ view.hook \in {"rows", "updates"} \/ view.hook \in {"all", "metric"}
         \/ view.hook = "missing" \/ view.hook = "none"
    BY DEF Hooks
  <1>14. QED
    BY <1>9, <1>10, <1>11, <1>12, <1>13, Zenon

\* What the view would ask, given the inputs a or b, is the same.
Agree(view, a, b) ==
  /\ a.tags = b.tags
  /\ "page" \in view.sends => a.page = b.page
  /\ "range" \in view.sends => a.range = b.range
  /\ "filters" \in view.sends => a.filters = b.filters
  /\ view.hook = "metric" => a.packets = b.packets

LEMMA Agreeing ==
    ASSUME NEW view, NEW a, NEW b, Agree(view, a, b)
    PROVE  /\ Keys(view, a) = Keys(view, b)
           /\ \A k : Query(view, k, a) = Query(view, k, b)
  <1>1. Keys(view, a) = Keys(view, b)
    BY DEF Agree, Keys
  <1>2. ASSUME NEW k PROVE Query(view, k, a) = Query(view, k, b)
    BY DEF Agree, Query
  <1>3. QED
    BY <1>1, <1>2

\* With the page a reset goes back to.
LEMMA FirstPage ==
    ASSUME NEW in, IsInputs(in)
    PROVE  LET one == [in EXCEPT !.page = 1]
           IN /\ IsInputs(one) /\ one.page = 1 /\ one.range = in.range /\ one.filters = in.filters
              /\ one.tags = in.tags /\ one.packets = in.packets /\ one.token = in.token
  BY DEF IsInputs, InputFields

\* Every key of the view has a request out with the answer the inputs call for.
AllAsked(view, in, requests) ==
  \A k \in Keys(view, in) : Fresh(requests, k, Query(view, k, in))

LEMMA RunAsks ==
    ASSUME NEW h, FetchTyped(h), NEW view, view.hook \in Hooks, NEW in, IsInputs(in)
    PROVE  LET run == Run(h, view, in)
           IN /\ FetchTyped(run)
              /\ BusyAsked(h) => BusyAsked(run)
              /\ in.token /\ view.hook # "missing" => AllAsked(view, in, run.requests)
  <1> DEFINE run == Run(h, view, in)
  <1>1. IsHook(h) /\ IsFiniteSet(in.tags) /\ IsFiniteSet({"rows"})
    BY TagsFinite, FS_Singleton DEF FetchTyped, IsInputs
  <1>2. IsFiniteSet(MissingOf(h, in))
    BY <1>1, FS_Subset DEF MissingOf
  <1>3. \/ /\ run = h
           /\ \/ view.hook = "none"
              \/ ForTable(view) /\ ~in.token
              \/ ~ForTable(view) /\ in.tags = {}
        \/ ForTable(view) /\ in.token /\ Loads(h, run, view, {"rows"}, in)
        \/ view.hook \in {"all", "metric"} /\ Loads(h, run, view, in.tags, in)
        \/ view.hook = "missing" /\ Loads(h, run, view, MissingOf(h, in), in)
    BY <1>1, RunLoads, Zenon
  <1> HIDE DEF run
  <1>4. ASSUME NEW keys, IsFiniteSet(keys), Loads(h, run, view, keys, in)
        PROVE  /\ FetchTyped(run)
               /\ BusyAsked(h) => BusyAsked(run)
               /\ Keys(view, in) \subseteq keys => AllAsked(view, in, run.requests)
    BY <1>4, LoadFacts DEF Added, AllAsked
  <1>5. ASSUME run = h PROVE FetchTyped(run) /\ (BusyAsked(h) => BusyAsked(run))
    BY <1>5
  <1>6. /\ ForTable(view) => Keys(view, in) = {"rows"}
        /\ view.hook = "none" => Keys(view, in) = {}
        /\ ~ForTable(view) /\ view.hook # "none" => Keys(view, in) = in.tags
    BY DEF Keys, ForTable
  <1>7. view.hook \in {"all", "metric"} => ~ForTable(view) /\ view.hook # "none"
    BY DEF ForTable
  <1>8. FetchTyped(run) /\ (BusyAsked(h) => BusyAsked(run))
    BY <1>1, <1>2, <1>3, <1>4, <1>5, Zenon
  <1>9. ASSUME in.token, view.hook # "missing" PROVE AllAsked(view, in, run.requests)
    <2>1. CASE run = h /\ Keys(view, in) = {}
      BY <2>1 DEF AllAsked
    <2>2. CASE ForTable(view) /\ Loads(h, run, view, {"rows"}, in)
      BY <1>1, <1>4, <1>6, <2>2
    <2>3. CASE view.hook \in {"all", "metric"} /\ Loads(h, run, view, in.tags, in)
      BY <1>1, <1>4, <1>6, <1>7, <2>3
    <2>4. ~ForTable(view) /\ in.tags = {} => Keys(view, in) = {}
      BY <1>6
    <2>5. QED
      BY <1>3, <1>6, <1>9, <2>1, <2>2, <2>3, <2>4, Zenon
  <1>10. QED
    BY <1>8, <1>9 DEF run

\* The inputs the last run of the effects reads.
LastInputs(view, in, changed) ==
  IF changed \intersect view.resets # {} THEN [in EXCEPT !.page = 1] ELSE in

LEMMA EffectsAsk ==
    ASSUME NEW h, FetchTyped(h), NEW view, view.hook \in Hooks, NEW in, IsInputs(in), NEW changed,
           view.resets # {} => ForTable(view)
    PROVE  LET run == Effects(h, view, in, changed)
           IN /\ FetchTyped(run)
              /\ BusyAsked(h) => BusyAsked(run)
              /\ in.token /\ view.hook # "missing" /\ changed \intersect view.reruns # {} =>
                   \A k \in Keys(view, in) : Fresh(run.requests, k, Query(view, k, LastInputs(view, in, changed)))
  <1> DEFINE first == Run(h, view, in)
             one == [in EXCEPT !.page = 1]
             last == LastInputs(view, in, changed)
             run == Effects(h, view, in, changed)
  <1>1. /\ FetchTyped(first)
        /\ BusyAsked(h) => BusyAsked(first)
        /\ in.token /\ view.hook # "missing" => AllAsked(view, in, first.requests)
    BY RunAsks
  <1>2. IsInputs(one) /\ one.token = in.token /\ one.tags = in.tags /\ one.page = 1
    BY FirstPage
  <1>3. Keys(view, one) = Keys(view, in)
    BY <1>2 DEF Keys
  <1> HIDE DEF first, one
  <1>4. \A i \in {in, one} : /\ FetchTyped(Run(first, view, i))
                             /\ BusyAsked(h) => BusyAsked(Run(first, view, i))
                             /\ in.token /\ view.hook # "missing" => AllAsked(view, i, Run(first, view, i).requests)
    <2> SUFFICES ASSUME NEW i \in {in, one}
                 PROVE  /\ FetchTyped(Run(first, view, i))
                        /\ BusyAsked(h) => BusyAsked(Run(first, view, i))
                        /\ in.token /\ view.hook # "missing" => AllAsked(view, i, Run(first, view, i).requests)
      OBVIOUS
    <2>1. IsInputs(i) /\ (in.token => i.token)
      BY <1>2
    <2>2. QED
      BY <1>1, <2>1, RunAsks
  <1>5. /\ changed \intersect view.reruns = {} => run = h
        /\ changed \intersect view.reruns # {} /\ view.hook = "metric" /\ "columns" \in changed => run = Run(first, view, in)
        /\ changed \intersect view.reruns # {} /\ ~(view.hook = "metric" /\ "columns" \in changed) =>
             /\ changed \intersect view.resets # {} /\ in.page # 1 => run = Run(first, view, one)
             /\ ~(changed \intersect view.resets # {} /\ in.page # 1) => run = first
    BY DEF Effects, first, one
  <1>6. /\ changed \intersect view.resets # {} => last = one /\ view.hook # "metric"
        /\ changed \intersect view.resets = {} => last = in
    BY DEF LastInputs, one, ForTable
  <1> HIDE DEF run, last
  <1>7. FetchTyped(run) /\ (BusyAsked(h) => BusyAsked(run))
    <2>1. run \in {h, first, Run(first, view, in), Run(first, view, one)}
      BY <1>5
    <2>2. QED
      BY <1>1, <1>4, <2>1
  <1>8. ASSUME in.token, view.hook # "missing", changed \intersect view.reruns # {}
        PROVE  \A k \in Keys(view, in) : Fresh(run.requests, k, Query(view, k, last))
    <2>1. CASE view.hook = "metric" /\ "columns" \in changed
      <3>1. run = Run(first, view, in) /\ last = in
        BY <1>5, <1>6, <1>8, <2>1
      <3>2. QED
        BY <1>4, <1>8, <3>1 DEF AllAsked
    <2>2. CASE ~(view.hook = "metric" /\ "columns" \in changed) /\ changed \intersect view.resets # {} /\ in.page # 1
      <3>1. run = Run(first, view, one) /\ last = one
        BY <1>5, <1>6, <1>8, <2>2
      <3>2. QED
        BY <1>3, <1>4, <1>8, <3>1 DEF AllAsked
    <2>3. CASE /\ ~(view.hook = "metric" /\ "columns" \in changed)
               /\ ~(changed \intersect view.resets # {} /\ in.page # 1)
      <3>1. run = first
        BY <1>5, <1>8, <2>3
      <3>2. Agree(view, in, last)
        <4>1. one.range = in.range /\ one.filters = in.filters /\ one.packets = in.packets
          BY FirstPage DEF one
        <4>2. QED
          BY <1>2, <1>6, <2>3, <4>1 DEF Agree
      <3>3. \A k : Query(view, k, in) = Query(view, k, last)
        BY <3>2, Agreeing
      <3>4. QED
        BY <1>1, <1>8, <3>1, <3>3 DEF AllAsked
    <2>4. QED
      BY <2>1, <2>2, <2>3
  <1>9. QED
    BY <1>7, <1>8 DEF run, last

-----------------------------------------------------------------------------
(* What the signal statistics, which ask only for what they miss, hold.    *)

MissingAnswers(h, view, in) ==
  /\ \A j \in DOMAIN h.requests : h.requests[j].query = Query(view, h.requests[j].key, in)
  /\ \A k \in DOMAIN h.data : h.data[k] \in {FAILED, Query(view, k, in)}

MissingFound(h, in) ==
  \A k \in in.tags \ StringColumns : k \in DOMAIN h.data \/ Outstanding(h.requests, k)

\* Their requests carry nothing of the inputs.
LEMMA MissingQueries ==
    ASSUME NEW view, view.hook = "missing", view.sends = {}, NEW a, NEW b, NEW h, MissingAnswers(h, view, a)
    PROVE  MissingAnswers(h, view, b)
  <1>1. \A k : Query(view, k, a) = Query(view, k, b)
    BY DEF Query
  <1>2. QED
    BY <1>1 DEF MissingAnswers

LEMMA MissingRun ==
    ASSUME NEW h, FetchTyped(h), BusyAsked(h), NEW view, view.hook = "missing", view.sends = {},
           NEW in, IsInputs(in), MissingAnswers(h, view, in)
    PROVE  MissingAnswers(Run(h, view, in), view, in) /\ MissingFound(Run(h, view, in), in)
  <1> DEFINE run == Run(h, view, in)
             missing == MissingOf(h, in)
  <1>1. IsHook(h) /\ view.hook \in Hooks
    BY DEF FetchTyped, Hooks
  <1>2. \/ run = h /\ in.tags = {}
        \/ /\ Loads(h, run, view, missing, in)
           /\ DOMAIN run.data = DOMAIN h.data \intersect (in.tags \ StringColumns)
           /\ \A k \in DOMAIN run.data : run.data[k] = h.data[k]
    BY <1>1, MissingLoads
  <1>3. IsFiniteSet(missing)
    BY TagsFinite, FS_Subset DEF IsInputs, MissingOf
  <1> HIDE DEF run
  <1>4. CASE run = h /\ in.tags = {}
    BY <1>4 DEF MissingFound, run
  <1>5. ASSUME Loads(h, run, view, missing, in),
               DOMAIN run.data = DOMAIN h.data \intersect (in.tags \ StringColumns),
               \A k \in DOMAIN run.data : run.data[k] = h.data[k]
        PROVE  MissingAnswers(run, view, in) /\ MissingFound(run, in)
    <2> HIDE DEF missing
    <2>1. Added(h.requests, run.requests, view, missing, in)
      BY <1>3, <1>5, LoadFacts
    <2>2. \A j \in DOMAIN run.requests : run.requests[j].query = Query(view, run.requests[j].key, in)
      BY <2>1 DEF Added, MissingAnswers
    <2>3. \A k \in DOMAIN run.data : run.data[k] \in {FAILED, Query(view, k, in)}
      BY <1>5 DEF MissingAnswers
    <2>4. ASSUME NEW k \in in.tags \ StringColumns PROVE k \in DOMAIN run.data \/ Outstanding(run.requests, k)
      <3>1. CASE k \in missing
        BY <2>1, <3>1 DEF Added
      <3>2. CASE k \in DOMAIN h.data
        BY <1>5, <3>2
      <3>3. CASE k \in DOMAIN h.busy /\ h.busy[k]
        BY <2>1, <3>3 DEF Added, BusyAsked
      <3>4. QED
        BY <3>1, <3>2, <3>3 DEF missing, MissingOf
    <2>5. QED
      BY <2>2, <2>3, <2>4 DEF MissingAnswers, MissingFound
  <1>6. QED
    BY <1>2, <1>4, <1>5 DEF run

\* Their effects run once, if at all.
LEMMA MissingEffects ==
    ASSUME NEW h, FetchTyped(h), BusyAsked(h), NEW view, view.hook = "missing", view.sends = {}, view.resets = {},
           NEW in, IsInputs(in), MissingAnswers(h, view, in), NEW changed,
           changed \intersect view.reruns = {} => MissingFound(h, in)
    PROVE  LET run == Effects(h, view, in, changed)
           IN MissingAnswers(run, view, in) /\ MissingFound(run, in)
  <1>1. CASE changed \intersect view.reruns = {}
    BY <1>1 DEF Effects
  <1>2. CASE changed \intersect view.reruns # {}
    <2>1. Effects(h, view, in, changed) = Run(h, view, in)
      BY <1>2 DEF Effects
    <2>2. QED
      BY <2>1, MissingRun
  <1>3. QED
    BY <1>1, <1>2

-----------------------------------------------------------------------------
(* What the view on the screen shows, or is still to show.                 *)

Shown(view, in, h, ls, k) ==
  IF ForTable(view)
  THEN h.error \/ /\ k \in DOMAIN h.data
                  /\ k \in ls \/ (h.data[k] = Query(view, k, in) /\ h.total = PageCount(Query(view, k, in)))
  ELSE k \in DOMAIN h.data /\ (k \in ls \/ h.data[k] \in {FAILED, Query(view, k, in)})

Current(view, in, h, ls, k) ==
  \/ Fresh(h.requests, k, Query(view, k, in))
  \/ Overtaken(h.requests, k) /\ Shown(view, in, h, ls, k)

CurrentInv ==
  kc /\ View.hook # "missing" => \A k \in Keys(View, Inputs) : Current(View, Inputs, hook, late, k)

MissingInv ==
  View.hook = "missing" => MissingAnswers(hook, View, Inputs) /\ MissingFound(hook, Inputs)

\* A page chosen with nothing in flight is one its own query has, or the first.
PagedInv ==
  kc /\ ForTable(View) =>
    \/ paged = "outdated"
    \/ paged = "another query" /\ View.resets = {}
    \/ page = 1
    \/ page <= PageCount(Query(View, "rows", Inputs))

RowsInv == ForTable(View) => AreRequests(hook.requests, {"rows"})

FetchInv == BusyAsked(hook) /\ RowsInv /\ CurrentInv /\ MissingInv /\ PagedInv

\* The fetches do not depend on what is not sent.
LEMMA CurrentAgrees ==
    ASSUME NEW view, NEW a, NEW b, Agree(view, a, b), NEW h, NEW ls,
           \A k \in Keys(view, a) : Current(view, a, h, ls, k)
    PROVE  \A k \in Keys(view, b) : Current(view, b, h, ls, k)
  <1>1. /\ Keys(view, a) = Keys(view, b)
        /\ \A k : Query(view, k, a) = Query(view, k, b)
    BY Agreeing
  <1>2. ASSUME NEW k \in Keys(view, b) PROVE Current(view, b, h, ls, k)
    <2>1. Current(view, a, h, ls, k)
      BY <1>1
    <2>2. QED
      BY <1>1, <2>1 DEF Current, Shown
  <1>3. QED
    BY <1>2

LEMMA PageCountFacts ==
    /\ \A query : PageCount(query) \in 0..MaxPage /\ (~NoMatch(query) => 1 <= PageCount(query))
    /\ \A a, b : a.filters = b.filters /\ a.range = b.range => PageCount(a) = PageCount(b)
  <1>1. ASSUME NEW query
        PROVE  PageCount(query) \in 0..MaxPage /\ (~NoMatch(query) => 1 <= PageCount(query))
    BY ConsoleAssumption DEF PageCount
  <1>2. ASSUME NEW a, NEW b, a.filters = b.filters, a.range = b.range PROVE PageCount(a) = PageCount(b)
    <2>1. NoMatch(a) <=> NoMatch(b)
      BY <1>2 DEF NoMatch
    <2>2. QED
      BY <1>2, <2>1 DEF PageCount
  <1>3. QED
    BY <1>1, <1>2

LEMMA QueryRestricts ==
    ASSUME NEW view, NEW a, NEW b, a.range = b.range, a.filters = b.filters, NEW k
    PROVE  PageCount(Query(view, k, a)) = PageCount(Query(view, k, b))
  <1>1. Query(view, k, a).filters = Query(view, k, b).filters /\ Query(view, k, a).range = Query(view, k, b).range
    BY DEF Query
  <1>2. QED
    BY <1>1, PageCountFacts

\* A table with nothing in flight, no error and nothing late knows the count
\* of what it would ask.
LEMMA CountKnown ==
    ASSUME CurrentInv, kc, ForTable(View), hook.requests = << >>, late = {}, ~hook.error
    PROVE  hook.total = PageCount(Query(View, "rows", Inputs))
  <1>1. View.hook # "missing" /\ "rows" \in Keys(View, Inputs)
    BY DEF ForTable, Keys
  <1>2. Current(View, Inputs, hook, late, "rows")
    BY <1>1 DEF CurrentInv
  <1>3. ~Fresh(hook.requests, "rows", Query(View, "rows", Inputs))
    BY DEF Fresh
  <1>4. QED
    BY <1>2, <1>3 DEF Current, Shown

-----------------------------------------------------------------------------
(* The same, after a step.                                                 *)

\* The inputs after a step agree with `in` where its page is the page.
LEMMA NowAgrees ==
    ASSUME NEW in, InputsNow(in), in.page = page'
    PROVE  Agree(View', in, Inputs') /\ Agree(View', Inputs', in) /\ Inputs'.token = in.token
  BY InputsAre DEF InputsNow, Agree

LEMMA FetchKept ==
    ASSUME FetchInv, InputsKept, UNCHANGED <<hook, late, paged>>
    PROVE  FetchInv'
  <1>1. View' = View
    BY DEF InputsKept, View
  <1>2. Agree(View, Inputs, Inputs') /\ Inputs.range = Inputs'.range /\ Inputs.filters = Inputs'.filters /\ Inputs.tags = Inputs'.tags
    BY <1>1, InputsAre DEF Agree, InputsKept
  <1>3. Keys(View, Inputs) = Keys(View, Inputs') /\ \A k : Query(View, k, Inputs) = Query(View, k, Inputs')
    BY <1>2, Agreeing
  <1>4. CurrentInv'
    BY <1>1, <1>2, CurrentAgrees DEF FetchInv, CurrentInv, InputsKept
  <1>5. MissingInv'
    BY <1>1, <1>2, <1>3 DEF FetchInv, MissingInv, MissingAnswers, MissingFound
  <1>6. PagedInv'
    BY <1>1, <1>3 DEF FetchInv, PagedInv, InputsKept
  <1>7. BusyAsked(hook)' /\ RowsInv'
    BY <1>1 DEF FetchInv, BusyAsked, RowsInv
  <1>8. QED
    BY <1>4, <1>5, <1>6, <1>7 DEF FetchInv

LEMMA NoFetchFacts ==
    /\ FetchTyped(NoFetch) /\ BusyAsked(NoFetch)
    /\ \A view, in : MissingAnswers(NoFetch, view, in)
  <1>1. NoFetch.data = << >> /\ NoFetch.busy = << >> /\ NoFetch.requests = << >>
    BY DEF NoFetch
  <1>2. DOMAIN << >> = {} /\ << >> \in Seq({})
    OBVIOUS
  <1>3. IsSeq(<< >>)
    BY <1>2 DEF IsSeq
  <1>4. QED
    BY <1>1, <1>2, <1>3, NoFetchIsHook DEF FetchTyped, BusyAsked, MissingAnswers

\* What a view starts with.
LEMMA FetchMounted ==
    ASSUME NEW r \in Routes, NEW in, IsInputs(in), in.page = 1
    PROVE  LET view == ViewAt(r)
               run == FirstFetch(r, in)
           IN /\ BusyAsked(run)
              /\ ForTable(view) => AreRequests(run.requests, {"rows"})
              /\ in.token /\ view.hook # "missing" => \A k \in Keys(view, in) : Current(view, in, run, {}, k)
              /\ view.hook = "missing" => MissingAnswers(run, view, in) /\ MissingFound(run, in)
  <1> DEFINE view == ViewAt(r)
             last == LastInputs(view, in, view.reruns)
             run == FirstFetch(r, in)
  <1>1. /\ view.hook \in Hooks
        /\ view.hook # "none" => view.reruns # {}
        /\ view.resets # {} => ForTable(view)
        /\ view.hook = "missing" => view.sends = {} /\ view.resets = {}
    BY ViewsFetch DEF Fetches, ForTable
  <1>2. run = Effects(NoFetch, view, in, view.reruns)
    BY DEF FirstFetch
  <1> HIDE DEF view, run
  <1>3. /\ BusyAsked(run)
        /\ in.token /\ view.hook # "missing" /\ view.reruns # {} =>
             \A k \in Keys(view, in) : Fresh(run.requests, k, Query(view, k, last))
    BY <1>1, <1>2, NoFetchFacts, EffectsAsk
  <1>4. Agree(view, last, in)
    BY FirstPage DEF LastInputs, Agree
  <1>5. \A k : Query(view, k, last) = Query(view, k, in)
    BY <1>4, Agreeing
  <1>6. view.hook = "none" => Keys(view, in) = {}
    BY DEF Keys
  <1>7. ASSUME in.token, view.hook # "missing" PROVE \A k \in Keys(view, in) : Current(view, in, run, {}, k)
    BY <1>1, <1>3, <1>5, <1>6, <1>7 DEF Current
  <1>8. ASSUME view.hook = "missing" PROVE MissingAnswers(run, view, in) /\ MissingFound(run, in)
    BY <1>1, <1>2, <1>8, NoFetchFacts, MissingEffects
  <1>9. ForTable(view) => AreRequests(run.requests, {"rows"})
    BY <1>2, NoFetchQuiet, NoFetchIsHook, RowsEffects
  <1>10. QED
    BY <1>3, <1>7, <1>8, <1>9 DEF view, run

LEMMA MountsFetch ==
    ASSUME Mounts, route' \in Routes
    PROVE  FetchInv'
  <1>1. PICK in : /\ IsInputs(in) /\ page' = 1 /\ in.page = 1 /\ InputsNow(in)
                  /\ hook' = FirstFetch(route', in) /\ late' = {} /\ paged' = "the count"
    BY DEF Mounts
  <1>2. View' = ViewAt(route')
    BY DEF View
  <1>3. Agree(View', in, Inputs') /\ (kc' => in.token)
    BY <1>1, NowAgrees DEF InputsNow
  <1>4. Keys(View', in) = Keys(View', Inputs') /\ \A k : Query(View', k, in) = Query(View', k, Inputs')
    BY <1>3, Agreeing
  <1>5. /\ BusyAsked(hook')
        /\ ForTable(View') => AreRequests(hook'.requests, {"rows"})
        /\ in.token /\ View'.hook # "missing" => \A k \in Keys(View', in) : Current(View', in, hook', late', k)
        /\ View'.hook = "missing" => MissingAnswers(hook', View', in) /\ MissingFound(hook', in)
    BY <1>1, <1>2, FetchMounted
  <1>6. CurrentInv'
    BY <1>3, <1>5, CurrentAgrees DEF CurrentInv
  <1>7. MissingInv'
    BY <1>3, <1>4, <1>5 DEF MissingInv, MissingAnswers, MissingFound, Agree
  <1>8. PagedInv'
    BY <1>1 DEF PagedInv
  <1>9. RowsInv'
    BY <1>5 DEF RowsInv
  <1>10. QED
    BY <1>5, <1>6, <1>7, <1>8, <1>9 DEF FetchInv

\* What the effects and the page become when inputs change.
LEMMA RefetchedPage ==
    ASSUME NEW in, NEW changed, Refetch(in, changed)
    PROVE  /\ late' = late
           /\ changed \intersect View.resets # {} => page' = 1
           /\ changed \intersect View.resets = {} => page' = in.page
           /\ "page" \in changed /\ (hook.requests # << >> \/ late # {}) => paged' = "outdated"
           /\ "page" \notin changed /\ changed \intersect View.resets = {} /\ changed \intersect View.sends # {} =>
                paged' = "another query"
           /\ "page" \notin changed /\ changed \intersect View.resets = {} /\ changed \intersect View.sends = {} =>
                paged' = paged
  BY Zenon DEF Refetch

LEMMA RefetchesFetch ==
    ASSUME ShellInv, ViewTyped, FetchInv, Refetches
    PROVE  FetchInv'
  <1>1. PICK in, changed : /\ IsInputs(in) /\ page' \in 1..MaxPage
                           /\ route' = route /\ kc' = kc
                           /\ Only(in, changed) /\ InputsNow(in)
                           /\ Refetch(in, changed)
                           /\ hook' = Effects(hook, View, in, changed)
    BY DEF Refetches
  <1>2. View' = View
    BY <1>1 DEF View
  <1>3. /\ View.hook \in Hooks
        /\ View.hook # "none" => View.reruns # {}
        /\ ForTable(View) => "page" \in View.reruns
        /\ "page" \in View.sends => ForTable(View)
        /\ View.sends \intersect {"range", "filters"} \subseteq View.reruns
        /\ View.columns # NoList => "columns" \in View.reruns
        /\ View.resets \subseteq View.reruns /\ View.resets \subseteq {"range"}
        /\ View.resets # {} => ForTable(View) /\ "page" \in View.sends
        /\ View.resets # {} => View.sends = {"page", "range"} /\ View.resets = {"range"}
        /\ View.hook = "missing" => View.sends = {}
    BY ViewsFetch DEF ShellInv, BlankInv, View, Fetches
  <1>4. FetchTyped(hook)
    BY DEF ViewTyped, HookTyped, FetchTyped, AreRequests
  <1>5. /\ late' = late
        /\ changed \intersect View.resets # {} => page' = 1
        /\ changed \intersect View.resets = {} => page' = in.page
        /\ "page" \in changed /\ (hook.requests # << >> \/ late # {}) => paged' = "outdated"
        /\ "page" \notin changed /\ changed \intersect View.resets = {} /\ changed \intersect View.sends # {} =>
             paged' = "another query"
        /\ "page" \notin changed /\ changed \intersect View.resets = {} /\ changed \intersect View.sends = {} =>
             paged' = paged
    BY <1>1, RefetchedPage
  <1>6. /\ Inputs'.page = page' /\ Inputs'.range = in.range /\ Inputs'.filters = in.filters
        /\ Inputs'.tags = in.tags /\ Inputs'.packets = in.packets /\ Inputs'.token = in.token
        /\ kc' => in.token
    BY <1>1, InputsAre DEF InputsNow
  \* With the page the last run reads.
  <1>7. Agree(View', LastInputs(View, in, changed), Inputs')
    <2>1. CASE changed \intersect View.resets # {}
      BY <1>1, <1>2, <1>5, <1>6, <2>1, FirstPage DEF LastInputs, Agree
    <2>2. CASE changed \intersect View.resets = {}
      BY <1>2, <1>5, <1>6, <2>2 DEF LastInputs, Agree
    <2>3. QED
      BY <2>1, <2>2
  <1>8. /\ BusyAsked(hook')
        /\ kc' /\ View.hook # "missing" /\ changed \intersect View.reruns # {} =>
             \A k \in Keys(View, in) : Fresh(hook'.requests, k, Query(View, k, LastInputs(View, in, changed)))
    BY <1>1, <1>3, <1>4, <1>6, EffectsAsk DEF FetchInv
  \* Nothing is asked for: nothing that is sent changed.
  <1>9. ASSUME View.hook # "none", changed \intersect View.reruns = {}
        PROVE  hook' = hook /\ Agree(View', Inputs, Inputs') /\ Inputs.tags = Inputs'.tags
    <2>1. hook' = hook
      BY <1>1, <1>9 DEF Effects
    <2>2. changed \intersect View.resets = {} /\ "page" \notin changed /\ "columns" \notin changed
      BY <1>1, <1>3, <1>9 DEF Only
    <2>3. page' = page /\ in.tags = TagsOf(View.columns, columns) /\ in.packets = packets
      BY <1>1, <1>5, <2>2 DEF Only
    <2>4. /\ "range" \in View.sends => in.range = range
          /\ "filters" \in View.sends => in.filters = filters
      BY <1>1, <1>3, <1>9 DEF Only
    <2>5. QED
      BY <1>2, <1>6, <2>1, <2>3, <2>4, InputsAre DEF Agree
  <1>10. CurrentInv'
    <2> SUFFICES ASSUME kc', View'.hook # "missing"
                 PROVE  \A k \in Keys(View', Inputs') : Current(View', Inputs', hook', late', k)
      BY DEF CurrentInv
    <2>1. CASE View.hook = "none"
      BY <1>2, <2>1 DEF Keys
    <2>2. CASE changed \intersect View.reruns # {}
      <3>1. Keys(View, in) = Keys(View', Inputs')
        BY <1>2, <1>6 DEF Keys
      <3>2. \A k : Query(View', k, LastInputs(View, in, changed)) = Query(View', k, Inputs')
        BY <1>7, Agreeing
      <3>3. QED
        BY <1>2, <1>8, <2>2, <3>1, <3>2 DEF Current
    <2>3. CASE View.hook # "none" /\ changed \intersect View.reruns = {}
      <3>1. hook' = hook /\ late' = late /\ Agree(View, Inputs, Inputs')
        BY <1>2, <1>5, <1>9, <2>3
      <3>2. \A k \in Keys(View, Inputs) : Current(View, Inputs, hook, late, k)
        BY <1>1, <1>2 DEF FetchInv, CurrentInv
      <3>3. QED
        BY <1>2, <3>1, <3>2, CurrentAgrees
    <2>4. QED
      BY <2>1, <2>2, <2>3
  <1>11. MissingInv'
    <2> SUFFICES ASSUME View.hook = "missing" PROVE MissingAnswers(hook', View', Inputs') /\ MissingFound(hook', Inputs')
      BY <1>2 DEF MissingInv
    <2>1. View.sends = {} /\ View.resets = {}
      BY <1>3 DEF ForTable
    <2>2. MissingAnswers(hook, View, in) /\ MissingFound(hook, Inputs)
      BY <2>1, MissingQueries DEF FetchInv, MissingInv
    <2>3. changed \intersect View.reruns = {} => MissingFound(hook, in)
      BY <1>6, <1>9, <2>2 DEF MissingFound
    <2>4. MissingAnswers(hook', View, in) /\ MissingFound(hook', in)
      BY <1>1, <1>4, <2>1, <2>2, <2>3, MissingEffects DEF FetchInv
    <2>5. MissingAnswers(hook', View, Inputs')
      BY <2>1, <2>4, MissingQueries
    <2>6. QED
      BY <1>2, <1>6, <2>4, <2>5 DEF MissingFound
  <1>12. PagedInv'
    <2> SUFFICES ASSUME kc', ForTable(View)
                 PROVE  \/ paged' = "outdated"
                        \/ paged' = "another query" /\ View'.resets = {}
                        \/ page' = 1
                        \/ page' <= PageCount(Query(View', "rows", Inputs'))
      BY <1>2 DEF PagedInv
    <2>1. CASE changed \intersect View.resets # {}
      BY <1>5, <2>1
    <2>2. CASE "page" \in changed
      <3>1. /\ changed = {"page"} /\ changed \intersect View.resets = {}
            /\ in.range = range /\ in.filters = filters /\ TableDrawn(hook) /\ in.page <= hook.total
        BY <1>1, <1>3, <2>2 DEF Only
      <3>2. CASE hook.requests = << >> /\ late = {}
        <4>1. hook.total = PageCount(Query(View, "rows", Inputs))
          BY <1>1, <3>1, <3>2, CountKnown DEF FetchInv, TableDrawn
        <4>2. PageCount(Query(View, "rows", Inputs)) = PageCount(Query(View, "rows", Inputs'))
          BY <1>6, <3>1, InputsAre, QueryRestricts
        <4>3. QED
          BY <1>2, <1>5, <3>1, <4>1, <4>2
      <3>3. CASE hook.requests # << >> \/ late # {}
        BY <1>5, <2>2, <3>3
      <3>4. QED
        BY <3>2, <3>3
    <2>3. CASE "page" \notin changed /\ changed \intersect View.resets = {} /\ changed \intersect View.sends # {}
      <3>1. View.resets = {}
        BY <1>1, <1>3, <2>3 DEF Only
      <3>2. QED
        BY <1>2, <1>5, <2>3, <3>1
    <2>4. CASE "page" \notin changed /\ changed \intersect View.resets = {} /\ changed \intersect View.sends = {}
      <3>1. paged' = paged /\ page' = page
        BY <1>1, <1>5, <2>4 DEF Only
      <3>2. /\ "range" \in View.sends => in.range = range
            /\ "filters" \in View.sends => in.filters = filters
        BY <1>1, <2>4 DEF Only
      <3>3. /\ Query(View, "rows", Inputs).range = Query(View, "rows", Inputs').range
            /\ Query(View, "rows", Inputs).filters = Query(View, "rows", Inputs').filters
        BY <1>6, <3>2, InputsAre DEF Query
      <3>4. PageCount(Query(View, "rows", Inputs)) = PageCount(Query(View, "rows", Inputs'))
        BY <3>3, PageCountFacts
      <3>5. QED
        BY <1>1, <1>2, <3>1, <3>4 DEF FetchInv, PagedInv
    <2>5. QED
      BY <2>1, <2>2, <2>3, <2>4
  <1>13. RowsInv'
    BY <1>1, <1>2, <1>4, RowsEffects DEF FetchInv, RowsInv, FetchTyped
  <1>14. QED
    BY <1>8, <1>10, <1>11, <1>12, <1>13 DEF FetchInv

LEMMA MetricFetch ==
    ASSUME ShellInv, ViewTyped, FetchInv, NEW tag, ChooseMetric(tag)
    PROVE  FetchInv'
  <1>1. PICK now : /\ packets' = now /\ hook' = Run(hook, View, [Inputs EXCEPT !.packets = now])
                   /\ View.hook = "metric" /\ UNCHANGED <<appVars, page, table, late, masked, paged>>
    BY DEF ChooseMetric
  <1> DEFINE in == [Inputs EXCEPT !.packets = now]
  <1>2. IsInputs(in) /\ View' = View
    BY <1>1, InputsTyped DEF appVars, View
  <1>3. /\ in.page = page /\ in.range = range /\ in.filters = filters /\ in.packets = now
        /\ in.tags = TagsOf(View.columns, columns) /\ in.token = kc
    BY DEF Inputs
  <1> HIDE DEF in
  <1>4. Agree(View', in, Inputs')
    BY <1>1, <1>2, <1>3, InputsAre DEF Agree, appVars
  <1>5. Keys(View', in) = Keys(View', Inputs') /\ \A k : Query(View', k, in) = Query(View', k, Inputs')
    BY <1>4, Agreeing
  <1>6. FetchTyped(hook) /\ View.hook \in Hooks /\ hook' = Run(hook, View, in)
    BY <1>1 DEF ViewTyped, HookTyped, FetchTyped, AreRequests, Hooks, in
  <1>7. BusyAsked(hook') /\ (kc => AllAsked(View, in, hook'.requests))
    BY <1>1, <1>2, <1>3, <1>6, RunAsks DEF FetchInv
  <1>8. CurrentInv'
    BY <1>1, <1>2, <1>5, <1>7 DEF CurrentInv, Current, AllAsked, appVars
  <1>9. RowsInv' /\ MissingInv' /\ PagedInv'
    BY <1>1, <1>2 DEF RowsInv, MissingInv, PagedInv, ForTable
  <1>10. QED
    BY <1>7, <1>8, <1>9 DEF FetchInv

\* The i-th request of the view ends: what an answer and a failure put.
Ends(i, value) ==
  LET s == hook.requests
      r == s[i]
  IN /\ hook'.requests = Without(s, i)
     /\ hook'.busy = Put(hook.busy, r.key, FALSE)
     /\ \/ hook'.data = Put(hook.data, r.key, value)
        \/ hook'.data = hook.data /\ ForTable(View) /\ value = FAILED
     /\ value \in {FAILED, r.query}
     /\ ForTable(View) => \/ hook'.error
                          \/ /\ hook'.data = Put(hook.data, r.key, value) /\ value = r.query
                             /\ hook'.total = PageCount(r.query)
     /\ late' = IF r.beaten THEN late \union {r.key} ELSE late \ {r.key}
     /\ UNCHANGED <<appVars, page, packets, paged>>

LEMMA AnswerEnds ==
    ASSUME IsHook(hook), NEW i \in DOMAIN hook.requests, Answer(i)
    PROVE  Ends(i, hook.requests[i].query)
  <1> DEFINE request == hook.requests[i]
             run == [hook EXCEPT !.data = Put(@, request.key, request.query),
                                 !.busy = Put(@, request.key, FALSE),
                                 !.total = PageCount(request.query),
                                 !.requests = Without(@, i)]
  <1>1. Settled(i, run, "answered")
    BY DEF Answer
  <1>2. /\ run.requests = Without(hook.requests, i)
        /\ run.busy = Put(hook.busy, request.key, FALSE)
        /\ run.data = Put(hook.data, request.key, request.query)
        /\ run.total = PageCount(request.query)
    BY DEF IsHook, HookFields
  <1> HIDE DEF run
  <1>3. /\ hook' = run
        /\ late' = IF request.beaten THEN late \union {request.key} ELSE late \ {request.key}
        /\ UNCHANGED <<appVars, page, packets, paged>>
    BY <1>1 DEF Settled
  <1>4. QED
    BY <1>2, <1>3 DEF Ends

LEMMA FailEnds ==
    ASSUME IsHook(hook), NEW i \in DOMAIN hook.requests, Fail(i)
    PROVE  Ends(i, FAILED)
  <1> DEFINE request == hook.requests[i]
             rows == View.hook = "rows"
             updates == View.hook = "updates"
             run == [hook EXCEPT !.data = IF rows THEN @ ELSE Put(@, request.key, FAILED),
                                 !.busy = Put(@, request.key, FALSE),
                                 !.error = rows \/ updates,
                                 !.total = IF updates THEN 0 ELSE @,
                                 !.requests = Without(@, i)]
  <1>1. Settled(i, run, "failed")
    BY DEF Fail
  <1>2. /\ run.requests = Without(hook.requests, i)
        /\ run.busy = Put(hook.busy, request.key, FALSE)
        /\ ~rows => run.data = Put(hook.data, request.key, FAILED)
        /\ rows => run.data = hook.data
        /\ rows \/ updates => run.error
    BY DEF IsHook, HookFields
  <1> HIDE DEF run
  <1>3. /\ hook' = run
        /\ late' = IF request.beaten THEN late \union {request.key} ELSE late \ {request.key}
        /\ UNCHANGED <<appVars, page, packets, paged>>
    BY <1>1 DEF Settled
  <1>4. (rows => ForTable(View)) /\ (ForTable(View) => rows \/ updates)
    BY DEF ForTable
  <1> HIDE DEF rows, updates
  <1>5. QED
    BY <1>2, <1>3, <1>4 DEF Ends

LEMMA EndsCurrent ==
    ASSUME ViewTyped, FetchInv, NEW i \in DOMAIN hook.requests, NEW value, Ends(i, value),
           NEW k \in Keys(View, Inputs), Current(View, Inputs, hook, late, k)
    PROVE  Current(View, Inputs, hook', late', k)
  <1> DEFINE s == hook.requests
             r == s[i]
             q == Query(View, k, Inputs)
  <1>1. AreRequests(s, Entries)
    BY DEF ViewTyped, HookTyped
  <1>2. PICK w : w = hook'.requests /\ w = Without(s, i)
    BY DEF Ends
  <1>3. /\ Fresh(s, k, q) => Fresh(w, k, q) \/ (r.key = k /\ ~r.beaten /\ r.query = q /\ Overtaken(w, k))
        /\ Overtaken(s, k) => Overtaken(w, k)
    BY <1>1, <1>2, SettledFresh
  <1>4. ForTable(View) => r.key = k
    BY DEF FetchInv, RowsInv, AreRequests, IsRequest, ForTable, Keys
  <1>5. ASSUME r.key = k
        PROVE  /\ k \in DOMAIN Put(hook.data, r.key, value)
               /\ Put(hook.data, r.key, value)[k] = value
               /\ r.beaten => k \in late'
    BY <1>5 DEF Put, Ends
  <1>6. ASSUME r.key # k, k \in DOMAIN hook.data
        PROVE  /\ k \in DOMAIN Put(hook.data, r.key, value)
               /\ Put(hook.data, r.key, value)[k] = hook.data[k]
               /\ k \in late => k \in late'
    BY <1>6 DEF Put, Ends
  <1>7. /\ ForTable(View) => \/ hook'.error
                             \/ /\ hook'.data = Put(hook.data, r.key, value) /\ value = r.query
                                /\ hook'.total = PageCount(r.query)
        /\ ~ForTable(View) => hook'.data = Put(hook.data, r.key, value)
        /\ value \in {FAILED, r.query}
    BY DEF Ends
  <1> HIDE DEF s, r, q
  <1>8. ASSUME r.key = k, ~r.beaten, r.query = q PROVE Shown(View, Inputs, hook', late', k)
    BY <1>5, <1>7, <1>8 DEF Shown, q
  <1>9. ASSUME r.key = k, r.beaten PROVE Shown(View, Inputs, hook', late', k)
    BY <1>5, <1>7, <1>9 DEF Shown, q
  <1>10. ASSUME r.key # k, Shown(View, Inputs, hook, late, k) PROVE Shown(View, Inputs, hook', late', k)
    BY <1>4, <1>6, <1>7, <1>10 DEF Shown, q
  <1>11. CASE Fresh(s, k, q)
    BY <1>2, <1>3, <1>8, <1>11 DEF Current, q
  <1>12. CASE Overtaken(s, k) /\ Shown(View, Inputs, hook, late, k)
    <2>1. r.key = k => r.beaten
      BY <1>12 DEF Overtaken, r, s
    <2>2. QED
      BY <1>2, <1>3, <1>9, <1>10, <1>12, <2>1 DEF Current
  <1>13. QED
    BY <1>11, <1>12 DEF Current, s, q

LEMMA EndsFetch ==
    ASSUME ViewTyped, FetchInv, NEW i \in DOMAIN hook.requests, NEW value, Ends(i, value)
    PROVE  FetchInv'
  <1> DEFINE s == hook.requests
             r == s[i]
  <1>1. AreRequests(s, Entries)
    BY DEF ViewTyped, HookTyped
  <1>2. /\ View' = View /\ Inputs' = Inputs /\ page' = page /\ paged' = paged /\ kc' = kc
        /\ hook'.busy = Put(hook.busy, r.key, FALSE)
        /\ value \in {FAILED, r.query}
    BY DEF Ends, appVars, View, Inputs
  <1>3. PICK w : w = hook'.requests /\ w = Without(s, i)
    BY DEF Ends
  <1>4. \A k : Outstanding(s, k) => r.key = k \/ Outstanding(w, k)
    <2>1. \A k : LET u == Without(s, i) IN Outstanding(s, k) => s[i].key = k \/ Outstanding(u, k)
      BY <1>1, SettledFresh
    <2>2. QED
      BY <1>3, <2>1
  <1> HIDE DEF r, s
  <1>5. BusyAsked(hook')
    <2>1. ASSUME NEW k \in DOMAIN hook'.busy, hook'.busy[k] PROVE Outstanding(hook'.requests, k)
      <3>1. k # r.key /\ k \in DOMAIN hook.busy /\ hook.busy[k]
        BY <1>2, <2>1 DEF Put
      <3>2. Outstanding(s, k)
        BY <3>1 DEF FetchInv, BusyAsked, s
      <3>3. QED
        BY <1>3, <1>4, <3>1, <3>2
    <2>2. QED
      BY <2>1 DEF BusyAsked
  <1>6. RowsInv'
    <2>1. ForTable(View) => AreRequests(s, {"rows"})
      BY DEF FetchInv, RowsInv, s
    <2>2. ForTable(View) => AreRequests(w, {"rows"})
      BY <1>3, <2>1, WithoutFacts DEF s
    <2>3. QED
      BY <1>2, <1>3, <2>2 DEF RowsInv
  <1>7. CurrentInv'
    <2>1. kc /\ View.hook # "missing" => \A k \in Keys(View, Inputs) : Current(View, Inputs, hook', late', k)
      BY EndsCurrent DEF FetchInv, CurrentInv
    <2>2. QED
      BY <1>2, <2>1 DEF CurrentInv
  <1>8. MissingInv'
    <2> SUFFICES ASSUME View.hook = "missing" PROVE MissingAnswers(hook', View, Inputs) /\ MissingFound(hook', Inputs)
      BY <1>2 DEF MissingInv
    <2>1. MissingAnswers(hook, View, Inputs) /\ MissingFound(hook, Inputs)
      BY DEF FetchInv, MissingInv
    <2>2. hook'.data = Put(hook.data, r.key, value)
      BY DEF Ends, ForTable, r, s
    <2>3. r.query = Query(View, r.key, Inputs)
      BY <2>1 DEF MissingAnswers, r, s
    <2>4. \A j \in DOMAIN w : w[j].query = Query(View, w[j].key, Inputs)
      <3>1. \A n \in DOMAIN w : LET m == Before(n, i) IN
              m \in DOMAIN s \ {i} /\ w[n].key = s[m].key /\ w[n].query = s[m].query
        BY <1>1, <1>3, WithoutAt DEF s
      <3>2. QED
        BY <2>1, <3>1 DEF MissingAnswers, s
    <2>5. \A k \in DOMAIN hook'.data : hook'.data[k] \in {FAILED, Query(View, k, Inputs)}
      BY <1>2, <2>1, <2>2, <2>3 DEF MissingAnswers, Put
    <2>6. ASSUME NEW k \in Inputs.tags \ StringColumns PROVE k \in DOMAIN hook'.data \/ Outstanding(w, k)
      BY <1>4, <2>1, <2>2 DEF MissingFound, Put, s
    <2>7. QED
      BY <1>3, <2>4, <2>5, <2>6 DEF MissingAnswers, MissingFound
  <1>9. PagedInv'
    BY <1>2 DEF FetchInv, PagedInv
  <1>10. QED
    BY <1>5, <1>6, <1>7, <1>8, <1>9 DEF FetchInv

LEMMA FetchStep ==
    ASSUME ShellInv, ViewTyped, FetchInv, [Next]_vars
    PROVE  FetchInv'
  <1>1. IsHook(hook) /\ page \in 1..MaxPage /\ route' \in Routes
    BY BlankStep DEF ViewTyped, HookTyped, ShellInv, BlankInv
  <1>2. CASE Mounts
    BY <1>1, <1>2, MountsFetch
  <1>3. CASE Refetches
    BY <1>3, RefetchesFetch
  <1>4. CASE ViewKept
    BY <1>4, FetchKept DEF ViewKept
  <1>5. ASSUME NEW i, MarkRow(i) PROVE FetchInv'
    BY <1>5, FetchKept DEF MarkRow, InputsKept, appVars
  <1>6. ASSUME NEW order, Rearrange(order) PROVE FetchInv'
    BY <1>6, FetchKept DEF Rearrange, InputsKept, appVars
  <1>7. ASSUME NEW i \in DOMAIN hook.requests, Answer(i) \/ Fail(i) PROVE FetchInv'
    BY <1>1, <1>7, AnswerEnds, FailEnds, EndsFetch
  <1>8. QED
    BY <1>1, <1>2, <1>3, <1>4, <1>5, <1>6, <1>7, StepKinds, MetricFetch DEF OwnStep

LEMMA FetchInit == Init => FetchInv
  <1> SUFFICES ASSUME Init PROVE FetchInv
    OBVIOUS
  <1> DEFINE in == FirstInputs(route, 0, {}, DefaultColumns, TRUE)
  <1>1. /\ page = 1 /\ route \in Routes /\ packets = {} /\ kc = TRUE /\ range = 0 /\ filters = {}
        /\ columns = DefaultColumns /\ late = {} /\ paged = "the count"
        /\ hook = FirstFetch(route, in)
    BY ConsoleAssumption DEF Init
  <1>2. \A l \in Lists : \A c \in DefaultColumns[l] : c.tag \in Tags
    BY DEF DefaultColumns, Tags
  <1>3. IsInputs(in) /\ in.page = 1
    BY <1>1, <1>2, FirstInputsTyped DEF FirstInputs
  <1>4. Inputs = in
    BY <1>1 DEF Inputs, FirstInputs, View
  <1> HIDE DEF in
  <1>5. /\ BusyAsked(hook)
        /\ ForTable(View) => AreRequests(hook.requests, {"rows"})
        /\ in.token /\ View.hook # "missing" => \A k \in Keys(View, in) : Current(View, in, hook, {}, k)
        /\ View.hook = "missing" => MissingAnswers(hook, View, in) /\ MissingFound(hook, in)
    BY <1>1, <1>3, FetchMounted DEF View
  <1>6. Inputs.token = kc
    BY DEF Inputs
  <1>7. CurrentInv /\ MissingInv
    BY <1>1, <1>4, <1>5, <1>6 DEF CurrentInv, MissingInv
  <1>8. PagedInv
    BY <1>1 DEF PagedInv
  <1>9. QED
    BY <1>5, <1>7, <1>8 DEF FetchInv, RowsInv

-----------------------------------------------------------------------------
(* The theorems. *)

ConsoleInv == /\ ShellInv /\ ChromeTyped /\ ViewTyped
              /\ OptionsInv /\ MarksInv /\ ErrorInv /\ FetchInv

LEMMA ConsoleInit == Init => ConsoleInv
  <1> SUFFICES ASSUME Init PROVE ConsoleInv
    OBVIOUS
  <1>1. ShellInv
    BY ColumnsInit, BlankInit DEF ShellInv
  <1>2. ChromeTyped
    <2>1. /\ session = "user" /\ kc = TRUE /\ clicks = 0 /\ range = 0 /\ births = 0 /\ columns = DefaultColumns
          /\ blank = RenderThrows(route, NoPopup, DefaultColumns)
      BY DEF Init
    <2>2. blank \in BOOLEAN
      BY <2>1, ThrowsIsBoolean, Zenon
    <2>3. \A l \in Lists : \A c \in columns[l] : c.object <= births
      BY <2>1 DEF DefaultColumns
    <2>4. QED
      BY <2>1, <2>2, <2>3, ConsoleAssumption DEF ChromeTyped
  <1>3. ViewTyped
    <2>1. /\ page = 1 /\ route \in Routes
          /\ hook = FirstFetch(route, FirstInputs(route, 0, {}, DefaultColumns, TRUE))
      BY ConsoleAssumption DEF Init
    <2>2. IsInputs(FirstInputs(route, 0, {}, DefaultColumns, TRUE))
      BY <1>1, <2>1, ListsTyped, FirstInputsTyped
    <2>3. HookTyped(hook)
      BY <2>1, <2>2, NoFetchTyped, EffectsTyped DEF FirstFetch
    <2>4. page = 1 /\ 1 \in 1..MaxPage
      BY <2>1, ConsoleAssumption
    <2>5. QED
      BY <2>3, <2>4 DEF ViewTyped
  <1>4. QED
    BY <1>1, <1>2, <1>3, OptionsInit, MarksInit, ErrorInit, FetchInit DEF ConsoleInv

LEMMA ConsoleStep == ConsoleInv /\ [Next]_vars => ConsoleInv'
  <1> SUFFICES ASSUME ConsoleInv, [Next]_vars PROVE ConsoleInv'
    OBVIOUS
  <1>1. ShellInv'
    BY ColumnsStep, BlankStep DEF ConsoleInv, ShellInv
  <1>2. ChromeTyped'
    BY ChromeTypedStep DEF ConsoleInv, ShellInv
  <1>3. ViewTyped' /\ OptionsInv' /\ MarksInv' /\ ErrorInv' /\ FetchInv'
    BY ViewTypedStep, OptionsStep, MarksStep, ErrorStep, FetchStep DEF ConsoleInv
  <1>4. QED
    BY <1>1, <1>2, <1>3 DEF ConsoleInv

LEMMA Invariant == Spec => []ConsoleInv
  BY ConsoleInit, ConsoleStep, PTL DEF Spec

\* Every variable keeps its type, for any bounds and any number of pages (the
\* state of App, of its header and popups, and of the views and their hooks).
THEOREM TypeCorrect == Spec => []TypeOK
  <1>1. ConsoleInv => TypeOK
    <2> SUFFICES ASSUME ConsoleInv PROVE TypeOK
      OBVIOUS
    <2>1. MaxClicks \in Nat /\ clicks \in 0..MaxClicks /\ range \in 0..clicks /\ births \in 0..clicks
      BY ConsoleAssumption DEF ConsoleInv, ChromeTyped
    <2>2. ASSUME NEW l \in Lists
          PROVE  columns[l] \subseteq [tag : {"device", "tag", "LSN"}, object : 0..MaxClicks]
      <3>1. columns[l] \subseteq [tag : Tags, object : Nat] /\ \A c \in columns[l] : c.object <= births
        BY DEF ConsoleInv, ShellInv, ColumnsInv, ChromeTyped
      <3>2. QED
        BY <2>1, <3>1 DEF Tags
    <2>3. /\ page \in 1..MaxPage /\ hook.total \in 0..MaxPage /\ hook.error \in BOOLEAN
          /\ DOMAIN hook.data \subseteq {"rows", "device", "tag", "LSN"}
          /\ \A k \in DOMAIN hook.busy : hook.busy[k] \in BOOLEAN
      BY DEF ConsoleInv, ViewTyped, HookTyped, Entries, Tags
    <2>4. route \in Routes /\ table.marks \subseteq {1, 2}
      BY DEF ConsoleInv, ShellInv, BlankInv, MarksInv
    <2>5. session \in {"user", "guest", "login"} /\ kc \in BOOLEAN /\ blank \in BOOLEAN
      BY DEF ConsoleInv, ChromeTyped
    <2>6. QED
      BY <2>1, <2>2, <2>3, <2>4, <2>5 DEF TypeOK
  <1>2. QED
    BY <1>1, Invariant, PTL

\* Of the routes and popups, only the trap signals' ever make a render throw
\* and take the application down (SnmpTrapSignalStatistics, which calls charAt
\* on an object, and SnmpTrapSignalFilters, which maps over a missing prop).
THEOREM BlankOnly == Spec => []BlankOnlyOnTrapSignals
  <1>1. ConsoleInv => BlankOnlyOnTrapSignals
    BY DEF ConsoleInv, ShellInv, BlankInv, BlankOnlyOnTrapSignals
  <1>2. QED
    BY <1>1, Invariant, PTL

\* No list of columns but the trap signal table's ever holds a tag twice,
\* however often it is picked and dropped (handleTagSelection of the panels).
THEOREM NoColumnTwice == Spec => []ColumnsOnce
  <1>1. ConsoleInv => ColumnsOnce
    BY DEF ConsoleInv, ShellInv, ColumnsInv
  <1>2. QED
    BY <1>1, Invariant, PTL

\* The options a filter panel lists fit what is chosen in its other fields, or
\* lag behind it in the ways FilterPanel names (loadOptions and handleReset),
\* whatever order the answers come in.
THEOREM OptionsFollow == Spec => []OptionsFitChoice
  <1>1. ConsoleInv => OptionsFitChoice
    BY DEF ConsoleInv, OptionsInv, PanelFits, Fit, OptionsFitChoice, OptionsFit
  <1>2. QED
    BY <1>1, Invariant, PTL

\* The rows drawn as selected are those clicked, unless the table was sorted,
\* filtered or given other rows with a selection in it (selectedRows of
\* EventsTable, which a fetch forgets).
THEOREM MarksFollow == Spec => []MarksStay
  <1>1. ConsoleInv => MarksStay
    BY DEF ConsoleInv, MarksInv, Unmoved, MarksStay
  <1>2. QED
    BY <1>1, Invariant, PTL

\* A table whose newest request was answered says its fetch failed only if
\* some request failed while another was in flight, or after a newer one was
\* answered (useFaultData and useSignalData clear the error when they send,
\* never when they are answered).
THEOREM ErrorExplained == Spec => []ErrorIsNewest
  <1>1. ConsoleInv => ErrorIsNewest
    BY DEF ConsoleInv, ErrorInv, Newest, ErrorIsNewest
  <1>2. QED
    BY <1>1, Invariant, PTL

\* Once nothing is in flight, every table and panel on the screen has stopped
\* loading and shows the answer to what its view would ask now, an error or
\* that its request failed, unless a newer answer overtook it - or it is the
\* string column of the signal statistics, which may show nothing (loadData and
\* the effects of the tables and of the statistics).
THEOREM CurrentShown == Spec => []ShowsCurrent
  <1>1. ConsoleInv => ShowsCurrent
    <2> SUFFICES ASSUME FetchInv, Watched, hook.requests = << >>
                 PROVE  /\ \A k \in DOMAIN hook.busy : ~hook.busy[k]
                        /\ ~hook.error =>
                             \A k \in Keys(View, Inputs) :
                               \/ /\ k \in DOMAIN hook.data
                                  /\ \/ hook.data[k] \in {FAILED, Query(View, k, Inputs)}
                                     \/ k \in late
                               \/ /\ View.hook = "missing" /\ k \in StringColumns
                                  /\ k \notin DOMAIN hook.data
      BY DEF ConsoleInv, ShowsCurrent
    <2>1. \A k : ~Outstanding(hook.requests, k) /\ \A query : ~Fresh(hook.requests, k, query)
      BY DEF Outstanding, Fresh
    <2>2. \A k \in DOMAIN hook.busy : ~hook.busy[k]
      BY <2>1 DEF FetchInv, BusyAsked
    <2>3. ASSUME ~hook.error, NEW k \in Keys(View, Inputs), View.hook # "missing"
          PROVE  k \in DOMAIN hook.data /\ (hook.data[k] \in {FAILED, Query(View, k, Inputs)} \/ k \in late)
      <3>1. Current(View, Inputs, hook, late, k)
        BY <2>3 DEF FetchInv, CurrentInv, Watched
      <3>2. QED
        BY <2>1, <2>3, <3>1 DEF Current, Shown
    <2>4. ASSUME NEW k \in Keys(View, Inputs), View.hook = "missing"
          PROVE  /\ k \in DOMAIN hook.data => hook.data[k] \in {FAILED, Query(View, k, Inputs)}
                 /\ k \in DOMAIN hook.data \/ k \in StringColumns
      <3>1. k \in Inputs.tags /\ MissingAnswers(hook, View, Inputs) /\ MissingFound(hook, Inputs)
        BY <2>4 DEF Keys, FetchInv, MissingInv
      <3>2. QED
        BY <2>1, <3>1 DEF MissingAnswers, MissingFound
    <2>5. QED
      BY <2>2, <2>3, <2>4
  <1>2. QED
    BY <1>1, Invariant, PTL

\* A table left alone, with no error and nothing overtaken, shows a page its
\* result has, or page 1 of the 0 pages of a query without a match, unless the
\* page was chosen from a count about to be replaced, or what the table asks has
\* changed since and nothing took it back to page 1 (page and setPage of the
\* tables, totalPages of the hooks).
THEOREM PageOfResult == Spec => []PageExists
  <1>1. ConsoleInv => PageExists
    <2> SUFFICES ASSUME FetchInv, Watched, hook.requests = << >>, ~hook.error, ForTable(View), late = {}
                 PROVE  \/ page <= hook.total
                        \/ page = 1 /\ NoMatch(Query(View, "rows", Inputs))
                        \/ paged = "outdated"
                        \/ paged = "another query" /\ View.resets = {}
      BY DEF ConsoleInv, PageExists, ForTable
    <2>1. hook.total = PageCount(Query(View, "rows", Inputs))
      BY CountKnown DEF FetchInv, Watched
    <2>2. NoMatch(Query(View, "rows", Inputs)) \/ 1 <= hook.total
      BY <2>1, PageCountFacts
    <2>3. QED
      BY <2>1, <2>2 DEF FetchInv, PagedInv, Watched
  <1>2. QED
    BY <1>1, Invariant, PTL
=============================================================================
