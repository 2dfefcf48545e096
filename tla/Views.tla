------------------------------- MODULE Views -------------------------------
(***************************************************************************)
(* What the React frontend declares before anything happens: the view each *)
(* route mounts, with the inputs that make it ask the backend again and    *)
(* the inputs its request carries; the buttons the header offers; the      *)
(* panel each popup opens.  Console gives these records their behaviour.   *)
(*                                                                         *)
(* A view is a record:                                                     *)
(*   title    what it sets the dashboard title to, which picks the header  *)
(*   hook     how it fetches: "rows" (useFaultData, useSignalData),        *)
(*            "updates" (useBgpLinkStateData), "all" (a request per column *)
(*            at every run), "missing" (a request per column not loaded    *)
(*            yet), "metric" (as "all", by the metric chosen per column)   *)
(*            or "none"                                                    *)
(*   reruns   the inputs in the dependency list of its effect              *)
(*   sends    the inputs its request carries                               *)
(*   resets   the inputs whose change takes it back to page 1              *)
(*   columns  the list of App it is given, or NoList                       *)
(*   copies   the filters its hook copies to the URL                       *)
(*   charts   what its panels take a column for, see Charts                *)
(***************************************************************************)
EXTENDS FiniteSets, Sequences

NoList  == "no list"
NoPopup == "no popup"

\* What the panels of a statistics view do with a column: the map they key the
\* data by, and the text they head the panel with.
Charts(key, heading) == [key |-> key, heading |-> heading]
NoCharts == Charts("none", "none")

\* The fields useFaultData and useSignalData copy from the filters to the URL,
\* and those of useBgpLinkStateData; of either, the panels offer only some.
RowFields == {"device", "mnemonic", "snmpTrapOid"}
LinkStateFields ==
  {"event_type", "nlri_type", "protocol", "protocol_level", "source_ip",
   "neighbor_ip", "local_router_id", "remote_router_id", "node_name",
   "isis_area", "prefix", "next_hop", "topology_key", "source_asn",
   "local_asn", "remote_asn", "link_metric", "local_pref"}

\* Mutant: the page is left out of the dependency list.
TableForgetsPage(title, hook, columns) ==
  [title |-> title, hook |-> hook, columns |-> columns, charts |-> NoCharts,
   reruns |-> {"range", "filters", "columns"},
   sends  |-> {"page", "range", "filters"}, resets |-> {},
   copies |-> IF hook = "rows" THEN RowFields ELSE LinkStateFields]

Table(title, hook, columns) ==
  [title |-> title, hook |-> hook, columns |-> columns, charts |-> NoCharts,
   reruns |-> {"page", "range", "filters", "columns"},
   sends  |-> {"page", "range", "filters"}, resets |-> {},
   copies |-> IF hook = "rows" THEN RowFields ELSE LinkStateFields]

Statistics(title, hook, columns, charts) ==
  [title |-> title, hook |-> hook, columns |-> columns, charts |-> charts,
   reruns |-> {"columns"} \union (IF hook = "missing" THEN {} ELSE {"range"}),
   sends  |-> IF hook = "missing" THEN {} ELSE {"range"}, resets |-> {},
   copies |-> {}]

Page(title) ==
  [title |-> title, hook |-> "none", columns |-> NoList, charts |-> NoCharts,
   reruns |-> {}, sends |-> {}, resets |-> {}, copies |-> {}]

-----------------------------------------------------------------------------
(* The tables. *)

SyslogEventTable  == Table("Events", "rows", "syslogEventTable")
SnmpTrapEventTable == Table("Events", "rows", "trapEventTable")
SyslogSignalTable == Table("Signals", "rows", "syslogSignalTable")
SnmpTrapSignalTable == Table("Signals", "rows", "trapSignalTable")

\* Keeps filters of its own that nothing sets, and reads eventsData from a
\* hook that returns signalData: `shown` in Console leaves it empty.
TelemetrySignalTable ==
  [Table("Signals", "rows", NoList) EXCEPT
     !.reruns = {"page", "range"}, !.sends = {"page", "range"}]

TrafficTable ==
  [Table("Traffic", "rows", NoList) EXCEPT
     !.reruns = {"page", "range", "filters"}]

\* App passes it no filters, and it alone goes back to page 1.
BgpLinkStateEventTable ==
  [Table("Topology", "updates", NoList) EXCEPT
     !.reruns = {"page", "range"}, !.sends = {"page", "range"},
     !.resets = {"range"}]

(* The statistics: a panel per column, with a chart of its data. *)

SyslogEventCharts    == Charts("value", "label")
SnmpTrapEventCharts  == Charts("value", "label")
\* Mutant: a column is taken for a string.
SyslogSignalChartsOfStrings == Charts("column", "column.charAt")
SyslogSignalCharts   == Charts("value", "label")
TrafficCharts        == Charts("value", "label")
\* These take a column for a string, and capitalise it.
SnmpTrapSignalCharts  == Charts("column", "column.charAt")
TelemetrySignalCharts == Charts("column", "column.charAt")

SyslogEventStatistics ==
  Statistics("Events", "all", "syslogEventStatistics", SyslogEventCharts)
SnmpTrapEventStatistics ==
  Statistics("Events", "all", "trapEventStatistics", SnmpTrapEventCharts)
SyslogSignalStatistics ==
  Statistics("Signals", "missing", "syslogSignalStatistics", SyslogSignalCharts)
SnmpTrapSignalStatistics ==
  Statistics("Signals", "missing", "trapSignalStatistics", SnmpTrapSignalCharts)
TelemetrySignalStatistics ==
  Statistics("Signals", "missing", NoList, TelemetrySignalCharts)
TrafficStatistics ==
  Statistics("Traffic", "metric", "trafficStatistics", TrafficCharts)

Incidents == Page("Signals")

\* /login is a route only for whoever is not logged in: to the others it
\* mounts nothing.
Nothing == Page("")

-----------------------------------------------------------------------------
(* App's routes. *)

SignalAndDeviceView(r) ==
  CASE r = "login"                        -> Nothing
    [] r = "incidents"                    -> Incidents
    [] r = "devices"                      -> Page("Devices")
    [] r = "signals_syslogs_table"        -> SyslogSignalTable
    [] r = "signals_syslogs_statistics"   -> SyslogSignalStatistics
    [] r = "signals_traps_table"          -> SnmpTrapSignalTable
    [] r = "signals_traps_statistics"     -> SnmpTrapSignalStatistics
    [] r = "signals_telemetry_table"      -> TelemetrySignalTable
    [] r = "signals_telemetry_statistics" -> TelemetrySignalStatistics

EventAndTrafficView(r) ==
  CASE r = "events_syslogs_table"      -> SyslogEventTable
    [] r = "events_syslogs_statistics" -> SyslogEventStatistics
    [] r = "events_traps_table"        -> SnmpTrapEventTable
    [] r = "events_traps_statistics"   -> SnmpTrapEventStatistics
    [] r = "traffic_table"             -> TrafficTable
    [] r = "traffic_statistics"        -> TrafficStatistics
    [] r = "performance"               -> Page("Performance")
    [] r = "topology_table"            -> BgpLinkStateEventTable
    [] r = "topology_statistics"       -> Page("Topology")

SignalAndDeviceRoutes ==
  {"login", "incidents", "devices",
   "signals_syslogs_table", "signals_syslogs_statistics",
   "signals_traps_table", "signals_traps_statistics",
   "signals_telemetry_table", "signals_telemetry_statistics"}

EventAndTrafficRoutes ==
  {"events_syslogs_table", "events_syslogs_statistics",
   "events_traps_table", "events_traps_statistics",
   "traffic_table", "traffic_statistics", "performance",
   "topology_table", "topology_statistics"}

Routes == SignalAndDeviceRoutes \union EventAndTrafficRoutes

ViewAt(r) == IF r \in SignalAndDeviceRoutes THEN SignalAndDeviceView(r)
             ELSE EventAndTrafficView(r)

StatisticsRoutes ==
  {"signals_syslogs_statistics", "signals_traps_statistics",
   "signals_telemetry_statistics", "events_syslogs_statistics",
   "events_traps_statistics", "traffic_statistics", "topology_statistics"}

-----------------------------------------------------------------------------
(* The header: per dashboard title, the buttons it draws on a route. *)

Opens(popups) == {[opens |-> p, goes |-> "stay"] : p \in popups}
Goes(routes)  == {[opens |-> NoPopup, goes |-> r] : r \in routes}

\* The header's tests of the path.
SyslogSignals == {"signals_syslogs_table", "signals_syslogs_statistics"}
TrapSignals   == {"signals_traps_table", "signals_traps_statistics"}
Telemetry     == {"signals_telemetry_table", "signals_telemetry_statistics"}
SyslogEvents  == {"events_syslogs_table", "events_syslogs_statistics"}
TrapEvents    == {"events_traps_table", "events_traps_statistics"}
Traffic       == {"traffic_table", "traffic_statistics"}
Topology      == {"topology_table", "topology_statistics"}

Others(family, r) == family \ {r}

NavigationOptions(title) ==
  CASE title = "Signals" -> Goes({"signals_syslogs_table",
                                  "signals_traps_table", "signals_telemetry_table"})
    [] title = "Events"  -> Goes({"events_syslogs_table", "events_traps_table"})
    [] OTHER             -> {}

FilterPopup(title, r) ==
  CASE title = "Signals" ->
         (CASE r \in SyslogSignals -> "filter-syslog-signals"
            [] r \in TrapSignals   -> "filter-snmptrap-signals"
            [] r \in Telemetry     -> "filter-telemetry-signals"
            [] OTHER               -> "filter-signals")
    [] title = "Events" ->
         (CASE r \in SyslogEvents -> "filter-syslog-events"
            [] r \in TrapEvents   -> "filter-snmptrap-events"
            [] OTHER              -> "filter-events")
    [] OTHER -> "filters"

SignalButtons(r) ==
  LET statistics == r \in StatisticsRoutes IN
  UNION { IF r \in SyslogSignals
          THEN Goes(Others(SyslogSignals, r)) \union
               Opens({"syslog-signals-severity", "stateful-syslog-rules",
                      IF statistics THEN "syslog-signal-statistics-tags"
                      ELSE "syslog-signal-table-tags"})
          ELSE {},
          IF r \in TrapSignals
          THEN Goes(Others(TrapSignals, r)) \union
               Opens({"stateful-snmptrap-rules",
                      IF statistics THEN "snmptrap-signal-statistics-tags"
                      ELSE "snmptrap-signal-table-tags"})
          ELSE {},
          Opens({FilterPopup("Signals", r), "timerange", "export",
                 "user-profile"}) }

EventButtons(r) ==
  LET statistics == r \in StatisticsRoutes IN
  UNION { IF r \in SyslogEvents
          THEN Goes(Others(SyslogEvents, r)) \union
               Opens({"syslog-mnemonics", "syslog-regexes",
                      IF statistics THEN "syslog-event-statistics-tags"
                      ELSE "syslog-event-table-tags"})
          ELSE {},
          IF r \in TrapEvents
          THEN Goes(Others(TrapEvents, r)) \union
               Opens({"snmptrap-mibs", "snmptrap-oids", "snmptrap-tag-config",
                      IF statistics THEN "snmptrap-event-statistics-tags"
                      ELSE "snmptrap-event-table-tags"})
          ELSE {},
          Opens({FilterPopup("Events", r), "timerange", "export",
                 "user-profile"}) }

\* What the header offers beside the filter input and the scans.
DeviceButtons(selected) ==
  Opens({"add-device", "user-profile"} \union
        (IF selected THEN {"device-settings"} ELSE {}))

TrafficAndPageButtons(title, r) ==
  CASE title = "Traffic" ->
         Goes(Others(Traffic, r)) \union
         Opens({"filter-traffic", "timerange", "user-profile"} \union
               (IF r \in StatisticsRoutes THEN {"traffic-statistics-tags"} ELSE {}))
    [] title = "Performance" ->
         Opens({"filter-device", "timerange", "user-profile"})
    [] title = "Topology" ->
         Goes(Others(Topology, r)) \union
         Opens({"filter-device", "timerange", "user-profile"})
    [] OTHER -> {}

Sidebar == Goes({"incidents", "devices", "signals_syslogs_table",
                 "events_syslogs_table", "traffic_table", "performance",
                 "topology_table"})

\* What can be clicked around the view of route r.
Buttons(r, selected) ==
  LET title == ViewAt(r).title IN
  UNION { Sidebar, NavigationOptions(title),
          CASE title = "Signals" -> SignalButtons(r)
            [] title = "Events"  -> EventButtons(r)
            [] title = "Devices" -> DeviceButtons(selected)
            [] OTHER             -> TrafficAndPageButtons(title, r) }

-----------------------------------------------------------------------------
(* App's popups: the panel renderPopup draws for an id. *)

\* The panels that leave the views alone: editors, devices, the profile.
OtherPanels ==
  {"snmpTrapMibs", "snmpTrapOids", "snmpTrapTagConfig", "mnemonics",
   "scan-network", "add-device", "device-settings", "filter-device",
   "syslog-signals-severity", "stateful-syslog-rules",
   "stateful-snmptrap-rules", "syslog-regexes", "syslog-mnemonics",
   "snmptrap-mibs", "snmptrap-event-tags", "snmptrap-signal-tags",
   "snmptrap-tag-config", "snmptrap-oids", "user-profile"}

\* An id with no panel opens an empty popup.
PanelOf(popup) ==
  CASE popup = NoPopup                          -> NoPopup
    [] popup = "filter-syslog-signals"          -> "SyslogSignalFilters"
    [] popup = "filter-snmptrap-signals"        -> "SnmpTrapSignalFilters"
    [] popup = "filter-syslog-events"           -> "SyslogEventFilters"
    [] popup = "filter-snmptrap-events"         -> "SnmpTrapEventFilters"
    [] popup = "filter-traffic"                 -> "FilterTraffic"
    [] popup = "syslog-event-table-tags"        -> "syslogEventTable"
    [] popup = "syslog-event-statistics-tags"   -> "syslogEventStatistics"
    [] popup = "syslog-signal-table-tags"       -> "syslogSignalTable"
    [] popup = "syslog-signal-statistics-tags"  -> "syslogSignalStatistics"
    [] popup = "snmptrap-event-table-tags"      -> "trapEventTable"
    [] popup = "snmptrap-event-statistics-tags" -> "trapEventStatistics"
    [] popup = "snmptrap-signal-table-tags"     -> "trapSignalTable"
    [] popup = "snmptrap-signal-statistic-tags" -> "trapSignalStatistics"
    [] popup = "timerange"                      -> "SearchTime"
    [] popup \in OtherPanels                    -> popup
    [] OTHER                                    -> NoPopup

\* Drawn, this panel maps over a property App does not pass it.
ThrowingPanels == {"SnmpTrapSignalFilters"}

-----------------------------------------------------------------------------
(* The column panels: the tags they list, their own and those of the API,  *)
(* and what they recognise a selected column by.                           *)

ColumnPanel(offers, by) == [offers |-> offers, by |-> by]

SyslogEventTableTags    == ColumnPanel({"device", "tag"}, "value")
\* Lists only what the API returns.
SnmpTrapEventTableTags  == ColumnPanel({"tag"}, "value")
SyslogSignalTableTags   == ColumnPanel({"device", "tag"}, "value")
\* Looks for the very object, and makes its objects anew.
SnmpTrapSignalTableTags == ColumnPanel({"device", "tag"}, "object")
SyslogEventStatisticTags == ColumnPanel({"device", "tag"}, "value")
\* Reads `tags` from a hook that returns `list`: only its own are left.
SnmpTrapEventStatisticTags == ColumnPanel({"device"}, "value")
\* These get no tags from App, and list one string.
SyslogSignalStatisticTags   == ColumnPanel({"LSN"}, "value")
SnmpTrapSignalStatisticTags == ColumnPanel({"LSN"}, "value")

ColumnPanelOf(list) ==
  CASE list = "syslogEventTable"       -> SyslogEventTableTags
    [] list = "trapEventTable"         -> SnmpTrapEventTableTags
    [] list = "syslogSignalTable"      -> SyslogSignalTableTags
    [] list = "trapSignalTable"        -> SnmpTrapSignalTableTags
    [] list = "syslogEventStatistics"  -> SyslogEventStatisticTags
    [] list = "trapEventStatistics"    -> SnmpTrapEventStatisticTags
    [] list = "syslogSignalStatistics" -> SyslogSignalStatisticTags
    [] list = "trapSignalStatistics"   -> SnmpTrapSignalStatisticTags

PickableLists ==
  {"syslogEventTable", "trapEventTable", "syslogSignalTable", "trapSignalTable",
   "syslogEventStatistics", "trapEventStatistics", "syslogSignalStatistics",
   "trapSignalStatistics"}

\* App's lists of columns: that of the traffic statistics has no panel.
Lists == PickableLists \union {"trafficStatistics"}
=============================================================================
