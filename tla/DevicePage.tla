----------------------------- MODULE DevicePage -----------------------------
(***************************************************************************)
(* The devices page: the list of the backend's devices and of what a       *)
(* network sweep found, the selection, and the panels of the selected      *)
(* device, Info with its deep scan, CPU and memory (InterfaceTable is a    *)
(* module of its own).  The settings and add popups of App change the      *)
(* backend behind the page's back.                                         *)
(***************************************************************************)
EXTENDS Naturals

CONSTANTS Devices, NoDevice,
          Found,       \* what a sweep can find
          FirstKnown,  \* the backend's devices at the start
          MaxClicks    \* bound: what the user does

ASSUME DevicePageAssumption ==
  /\ NoDevice \notin Devices /\ MaxClicks \in Nat
  /\ Found \subseteq Devices /\ FirstKnown \subseteq Devices

VARIABLES
  registered,   \* the backend's devices
  list,         \* onboardedDevices
  listLoads,    \* fetchDevices in flight: [id, seen], seen being the sets of
                \* devices the backend has had since
  unseen,       \* history: the backend's devices changed after the newest load
  found,        \* discoveredDevices of useNetworkScan
  sweeping,     \* its loading
  sweeps,       \* its scans in flight, by id
  swept,        \* App's searchEvent asks for a sweep
  overlap,      \* history: the newest scan began while another was in flight
  foundId,      \* history: the scan that found them, 0 for none
  selected,     \* selectedDevice: [device, origin]
  shown,        \* showComponents
  detailLoads,  \* handleDeviceSelect in flight: [id, device]
  choice,       \* history: [id, device] of the last click on the list or on X
  selectedId,   \* history: the click the selection comes from, an id of requests
  info,         \* Info: the device whose scan, cpu and memory it holds
  infoLoads,    \* their requests in flight: [id, what, of]
  scanning,     \* Info's deep scan is loading
  crossed,      \* history: devices with a request in flight when Info moved on
  newest,       \* history: by kind of request, the newest, whether it failed, and
                \* the newest answered: [id, failed, answered]
  late,         \* history: the kinds whose last answer came after a newer one's
  clicks        \* bound and source of ids; another token counts as a click

listVars == <<registered, list, listLoads, unseen>>
sweepVars == <<found, sweeping, sweeps, swept, overlap, foundId>>
selectionVars == <<selected, shown, detailLoads, choice, selectedId>>
infoVars == <<info, infoLoads, scanning, crossed>>
historyVars == <<newest, late>>
vars == <<listVars, sweepVars, selectionVars, infoVars, historyVars, clicks>>

NoSelection == [device |-> NoDevice, origin |-> "none"]
Panels == {"scan", "cpu", "memory"}
EmptyInfo == [what \in Panels |-> NoDevice]
Kinds == {"list", "sweep", "detail"}

Click == clicks <= MaxClicks /\ clicks' = clicks + 1

-----------------------------------------------------------------------------
(* What a change of the selection does to the panels. *)

InfoShown(sel, show) == show /\ sel # NoSelection

\* Info asks for the CPU and the memory of the device it is given.
FirstInfoLoads(d) ==
  {[id |-> selectedId', what |-> w, of |-> d] : w \in {"cpu", "memory"}}

\* Mutant: the effect on ip_address does not run.
MoveInfoKeepsData(sel) ==
  /\ info' = info
  /\ infoLoads' = infoLoads \union FirstInfoLoads(sel.device)
  /\ crossed' = crossed \union {r.of : r \in infoLoads}
  /\ UNCHANGED scanning

\* The effect on ip_address empties Info; what is in flight for the device
\* before is not cancelled, nor is the button given back.
MoveInfo(sel) ==
  /\ info' = EmptyInfo
  /\ infoLoads' = infoLoads \union FirstInfoLoads(sel.device)
  /\ crossed' = crossed \union {r.of : r \in infoLoads}
  /\ UNCHANGED scanning

InfoBecomes(sel, show) ==
  LET before == InfoShown(selected, shown)
      after == InfoShown(sel, show)
  IN IF before /\ after
     THEN IF sel.device = selected.device THEN UNCHANGED infoVars ELSE MoveInfo(sel)
     ELSE IF ~before /\ ~after THEN UNCHANGED infoVars
     ELSE /\ info' = EmptyInfo /\ scanning' = FALSE /\ crossed' = {}
          /\ infoLoads' = IF after THEN FirstInfoLoads(sel.device) ELSE {}

SelectionBecomes(sel, show) ==
  /\ selected' = sel /\ shown' = show
  /\ InfoBecomes(sel, show)

-----------------------------------------------------------------------------
(* Requests of one kind: none of the hooks tells their answers apart. *)

Started(kind) ==
  newest' = [newest EXCEPT ![kind] = [id |-> clicks', failed |-> FALSE,
                                      answered |-> newest[kind].answered]]

\* A choice that needs no request takes effect at once.
TakesEffect(kind) ==
  /\ newest' = [newest EXCEPT ![kind] = [id |-> clicks', failed |-> FALSE,
                                         answered |-> clicks']]
  /\ late' = late \ {kind}

Answered(kind, id) ==
  /\ newest' = IF id > newest[kind].answered
               THEN [newest EXCEPT ![kind].answered = id] ELSE newest
  /\ late' = IF id < newest[kind].answered THEN late \union {kind} ELSE late \ {kind}

RequestFailed(kind, id) ==
  /\ newest' = IF newest[kind].id = id THEN [newest EXCEPT ![kind].failed = TRUE]
               ELSE newest
  /\ UNCHANGED late

-----------------------------------------------------------------------------
(* The list of the backend's devices: useDevices, and the popups. *)

\* fetchDevices, once or twice; the last is the newest.
LoadDevices(ids) ==
  /\ listLoads' = listLoads \union {[id |-> id, seen |-> {registered}] : id \in ids}
  /\ unseen' = FALSE
  /\ Started("list") /\ UNCHANGED <<registered, list, late>>

\* Mutant: the devices that came before stay in the list.
DevicesArriveToo ==
  \E r \in listLoads, devices \in SUBSET Devices :
    /\ devices \in r.seen
    /\ list' = list \union devices
    /\ listLoads' = listLoads \ {r}
    /\ Answered("list", r.id)
    /\ UNCHANGED <<registered, unseen, sweepVars, selectionVars, infoVars, clicks>>

\* The answer may be of any moment since the request.
DevicesArrive ==
  \E r \in listLoads, devices \in SUBSET Devices :
    /\ devices \in r.seen
    /\ list' = devices
    /\ listLoads' = listLoads \ {r}
    /\ Answered("list", r.id)
    /\ UNCHANGED <<registered, unseen, sweepVars, selectionVars, infoVars, clicks>>

\* The list before stays.
DevicesFail ==
  \E r \in listLoads :
    /\ listLoads' = listLoads \ {r}
    /\ RequestFailed("list", r.id)
    /\ UNCHANGED <<registered, list, unseen, sweepVars, selectionVars, infoVars, clicks>>

BackendBecomes(devices) ==
  /\ registered' = devices
  /\ listLoads' = {[r EXCEPT !.seen = @ \union {devices}] : r \in listLoads}
  /\ unseen' = TRUE
  /\ UNCHANGED list

\* handleSubmit of AddNewDevice: kcFetch returns what the response says, which
\* has no ok; the device is added, the popup reports a failure, and nothing is
\* loaded again.
AddDevice(d) ==
  /\ Click /\ d \notin registered
  /\ BackendBecomes(registered \union {d})
  /\ UNCHANGED <<sweepVars, selectionVars, infoVars, historyVars>>

\* deleteDevice of DeviceSettings: App's two callbacks only log.
DeleteDevice ==
  /\ Click /\ selected.device \in registered
  /\ BackendBecomes(registered \ {selected.device})
  /\ UNCHANGED <<sweepVars, selectionVars, infoVars, historyVars>>

\* pushConfiguration, once it succeeds: devicesRefreshKey.
Configured ==
  /\ Click /\ selected # NoSelection
  /\ LoadDevices({clicks'})
  /\ UNCHANGED <<sweepVars, selectionVars, infoVars>>

\* keycloak has another token: fetchDevices is another function, and both effects
\* that depend on it run, that of useDevices and that on devicesRefreshKey.
TokenRefreshed ==
  /\ Click
  /\ LoadDevices({clicks, clicks'})
  /\ UNCHANGED <<sweepVars, selectionVars, infoVars>>

-----------------------------------------------------------------------------
(* The network sweep: useNetworkScan. *)

\* Mutant: the devices of the scan before stay.
ScanNetworkKeeps ==
  /\ Click
  /\ sweeping' = TRUE /\ swept' = TRUE /\ overlap' = (sweeps # {})
  /\ sweeps' = sweeps \union {clicks'}
  /\ Started("sweep")
  /\ UNCHANGED <<found, foundId, listVars, selectionVars, infoVars, late>>

\* scanNetwork: a scan in progress is neither refused nor cancelled.
ScanNetwork ==
  /\ Click
  /\ found' = {} /\ foundId' = 0
  /\ sweeping' = TRUE /\ swept' = TRUE /\ overlap' = (sweeps # {})
  /\ sweeps' = sweeps \union {clicks'}
  /\ Started("sweep")
  /\ UNCHANGED <<listVars, selectionVars, infoVars, late>>

SweepCompletes ==
  \E id \in sweeps, devices \in SUBSET Found :
    /\ found' = devices /\ foundId' = id
    /\ sweeps' = sweeps \ {id}
    /\ sweeping' = FALSE
    /\ Answered("sweep", id)
    /\ UNCHANGED <<swept, overlap, listVars, selectionVars, infoVars, clicks>>

\* pollScanStatus rejects: the task failed, or one of its polls did.
SweepFails ==
  \E id \in sweeps :
    /\ sweeps' = sweeps \ {id}
    /\ sweeping' = FALSE
    /\ RequestFailed("sweep", id)
    /\ UNCHANGED <<found, swept, overlap, foundId, listVars, selectionVars, infoVars,
                   clicks>>

\* Another search: a filter of the list, or the header's deep scan, of which
\* handleDeepScan always fails (it reads results in the results).
SearchOtherwise ==
  /\ Click /\ swept
  /\ swept' = FALSE
  /\ UNCHANGED <<found, sweeping, sweeps, overlap, foundId, listVars, selectionVars,
                 infoVars, historyVars>>

-----------------------------------------------------------------------------
(* The selection. *)

\* mergedDevices: what was found is listed unless the backend's list has it.
Listed == list \union found

\* handleDeviceSelect.
Select(d) ==
  /\ Click /\ d \in Listed
  /\ choice' = [id |-> clicks', device |-> d]
  /\ IF d \in list
     THEN /\ Started("detail") /\ UNCHANGED late
          /\ detailLoads' = detailLoads \union {[id |-> clicks', device |-> d]}
          /\ UNCHANGED selectedId
          /\ SelectionBecomes(selected, TRUE)
     ELSE /\ TakesEffect("detail")
          /\ selectedId' = clicks'
          /\ SelectionBecomes([device |-> d, origin |-> "discovered"], TRUE)
          /\ UNCHANGED detailLoads
  /\ UNCHANGED <<listVars, sweepVars>>

\* Mutant: the device's own fields do not come last.
DetailsArriveAlone ==
  \E r \in detailLoads :
    /\ detailLoads' = detailLoads \ {r}
    /\ selectedId' = r.id
    /\ SelectionBecomes([device |-> r.device, origin |-> "none"], shown)
    /\ Answered("detail", r.id)
    /\ UNCHANGED <<choice, listVars, sweepVars, clicks>>

\* The details arrive, whatever was clicked since; showComponents stays.
DetailsArrive ==
  \E r \in detailLoads :
    /\ detailLoads' = detailLoads \ {r}
    /\ selectedId' = r.id
    /\ SelectionBecomes([device |-> r.device, origin |-> "onboarded"], shown)
    /\ Answered("detail", r.id)
    /\ UNCHANGED <<choice, listVars, sweepVars, clicks>>

DetailsFail ==
  \E r \in detailLoads :
    /\ detailLoads' = detailLoads \ {r}
    /\ RequestFailed("detail", r.id)
    /\ UNCHANGED <<selected, shown, choice, selectedId, listVars, sweepVars, infoVars,
                   clicks>>

\* Mutant: the panels go, the selection stays.
DeselectKeeps ==
  /\ Click /\ InfoShown(selected, shown)
  /\ choice' = [id |-> clicks', device |-> NoDevice]
  /\ selectedId' = clicks'
  /\ TakesEffect("detail")
  /\ SelectionBecomes(selected, FALSE)
  /\ UNCHANGED <<detailLoads, listVars, sweepVars>>

\* handleDeviceDeselect, the X of Info.
Deselect ==
  /\ Click /\ InfoShown(selected, shown)
  /\ choice' = [id |-> clicks', device |-> NoDevice]
  /\ selectedId' = clicks'
  /\ TakesEffect("detail")
  /\ SelectionBecomes(NoSelection, shown)
  /\ UNCHANGED <<detailLoads, listVars, sweepVars>>

\* The timers of the effect on selectedDevice.
ShowComponents ==
  /\ shown # (selected # NoSelection)
  /\ UNCHANGED <<detailLoads, choice, selectedId, listVars, sweepVars, historyVars,
                 clicks>>
  /\ SelectionBecomes(selected, ~shown)

-----------------------------------------------------------------------------
(* Info. *)

\* handleRunDeepScan.
RunDeepScan ==
  /\ Click /\ InfoShown(selected, shown) /\ ~scanning
  /\ scanning' = TRUE
  /\ info' = [info EXCEPT !["scan"] = NoDevice]
  /\ infoLoads' = infoLoads \union {[id |-> clicks', what |-> "scan",
                                     of |-> selected.device]}
  /\ UNCHANGED <<crossed, listVars, sweepVars, selectionVars, historyVars>>

InfoArrives ==
  \E r \in infoLoads :
    /\ infoLoads' = infoLoads \ {r}
    /\ info' = [info EXCEPT ![r.what] = r.of]
    /\ scanning' = (scanning /\ r.what # "scan")
    /\ UNCHANGED <<crossed, listVars, sweepVars, selectionVars, historyVars, clicks>>

\* Only fetchMemoryData takes back what is shown, whoever asked for it.
InfoFails ==
  \E r \in infoLoads :
    /\ infoLoads' = infoLoads \ {r}
    /\ info' = IF r.what = "memory" THEN [info EXCEPT !["memory"] = NoDevice] ELSE info
    /\ scanning' = (scanning /\ r.what # "scan")
    /\ UNCHANGED <<crossed, listVars, sweepVars, selectionVars, historyVars, clicks>>

\* /ws/cpu of the selected host.
CpuPushed ==
  /\ InfoShown(selected, shown)
  /\ info' = [info EXCEPT !["cpu"] = selected.device]
  /\ UNCHANGED <<infoLoads, scanning, crossed, listVars, sweepVars, selectionVars,
                 historyVars, clicks>>

-----------------------------------------------------------------------------
(* The page. *)

\* useDevices loads when it is mounted, and so does the effect on
\* devicesRefreshKey.
Init ==
  /\ registered = FirstKnown /\ list = {} /\ unseen = FALSE
  /\ listLoads = {[id |-> id, seen |-> {FirstKnown}] : id \in {0, 1}}
  /\ found = {} /\ sweeping = FALSE /\ sweeps = {} /\ swept = FALSE
  /\ overlap = FALSE /\ foundId = 0
  /\ selected = NoSelection /\ shown = FALSE /\ detailLoads = {}
  /\ info = EmptyInfo /\ infoLoads = {} /\ scanning = FALSE /\ crossed = {}
  /\ choice = [id |-> 0, device |-> NoDevice] /\ selectedId = 0
  /\ newest = [kind \in Kinds |-> [id |-> IF kind = "list" THEN 1 ELSE 0,
                                   failed |-> FALSE, answered |-> 0]]
  /\ late = {} /\ clicks = 1

\* The user goes to another page and comes back: the effect on searchEvent
\* runs again and repeats the last sweep; the selection is taken back.
Revisit ==
  /\ Click
  /\ list' = {} /\ unseen' = FALSE
  /\ listLoads' = {[id |-> id, seen |-> {registered}] : id \in {clicks, clicks'}}
  /\ found' = {} /\ foundId' = 0 /\ sweeping' = swept /\ overlap' = FALSE
  /\ sweeps' = IF swept THEN {clicks'} ELSE {}
  /\ selected' = NoSelection /\ shown' = FALSE /\ detailLoads' = {}
  /\ info' = EmptyInfo /\ infoLoads' = {} /\ scanning' = FALSE /\ crossed' = {}
  /\ choice' = [id |-> clicks', device |-> NoDevice] /\ selectedId' = clicks'
  /\ newest' = [kind \in Kinds |->
                  [id |-> IF kind = "sweep" /\ ~swept THEN 0 ELSE clicks',
                   failed |-> FALSE, answered |-> clicks]]
  /\ late' = {}
  /\ UNCHANGED <<registered, swept>>

Next ==
  \/ \E d \in Devices : Select(d) \/ AddDevice(d)
  \/ DeleteDevice \/ Configured \/ TokenRefreshed \/ DevicesArrive \/ DevicesFail
  \/ ScanNetwork \/ SweepCompletes \/ SweepFails \/ SearchOtherwise
  \/ DetailsArrive \/ DetailsFail \/ Deselect \/ ShowComponents
  \/ Revisit \/ RunDeepScan \/ InfoArrives \/ InfoFails \/ CpuPushed

Spec == Init /\ [][Next]_vars

-----------------------------------------------------------------------------
(* What it promises. *)

TypeOK ==
  /\ registered \subseteq Devices /\ list \subseteq Devices /\ found \subseteq Found
  /\ sweeping \in BOOLEAN /\ shown \in BOOLEAN /\ scanning \in BOOLEAN
  /\ sweeps \subseteq 1..MaxClicks + 1 /\ swept \in BOOLEAN
  /\ selected \in [device : Devices, origin : {"onboarded", "discovered"}]
                  \union {NoSelection}
  /\ detailLoads \subseteq [id : 1..MaxClicks + 1, device : Devices]
  /\ info \in [Panels -> Devices \union {NoDevice}]
  /\ infoLoads \subseteq [id : 0..MaxClicks + 1, what : Panels, of : Devices]
  /\ crossed \subseteq Devices
  /\ clicks \in 0..MaxClicks + 1

\* Once loaded, the list is the backend's, until a popup adds or deletes a
\* device; nothing but a configuration or another token loads it again.  It may
\* differ, too, if its newest request failed or was overtaken (fetchDevices,
\* devicesRefreshKey).
ListIsRegistered ==
  listLoads = {} =>
    \/ list = registered
    \/ unseen
    \/ newest["list"].failed
    \/ "list" \in late

\* The device on the screen is the one of the last click, once its details
\* have come - unless they failed, or an older click's came after them
\* (handleDeviceSelect and handleDeviceDeselect).
SelectedIsWanted ==
  detailLoads = {} =>
    \/ selected.device = choice.device
    \/ newest["detail"].failed
    \/ "detail" \in late

\* What Info shows of a device is of the selected device, or of one whose
\* request was in flight when Info went over to another device: the scan, the
\* CPU and the memory are emptied then, their requests are not cancelled
\* (the effect on ip_address, useDeviceDeepScan, useDeviceStatus).
InfoOfSelected ==
  \A what \in Panels :
    info[what] \in {NoDevice, selected.device} \union crossed

\* With no sweep running, what is listed as found is what the newest sweep
\* found, and nothing if it failed - unless an older one was still running when
\* it began and ended after it, or at all if it failed (scanNetwork).
FoundIsNewest ==
  sweeps = {} =>
    \/ foundId = IF newest["sweep"].failed THEN 0 ELSE newest["sweep"].id
    \/ overlap /\ ("sweep" \in late \/ newest["sweep"].failed)
=============================================================================
