--------------------------- MODULE DevicePageProofs ---------------------------
(***************************************************************************)
(* What DevicePage promises, for any devices and any number of clicks.     *)
(***************************************************************************)
EXTENDS DevicePage, TLAPS

Ids == 0..MaxClicks + 1

Histories == [Kinds -> [id : Nat, failed : BOOLEAN, answered : Nat]]

TypeInv ==
  /\ TypeOK
  /\ selectedId \in Ids
  /\ choice \in [id : Ids, device : Devices \union {NoDevice}]
  /\ newest \in Histories /\ late \subseteq Kinds
  /\ foundId \in Ids /\ overlap \in BOOLEAN /\ unseen \in BOOLEAN
  /\ listLoads \subseteq [id : Ids, seen : SUBSET SUBSET Devices]

\* What is on its way to Info is of the selected device, or was already on its
\* way when the selection changed; an Info that is not shown holds nothing.
InfoInv ==
  /\ InfoOfSelected
  /\ \A r \in infoLoads : r.of \in {selected.device} \union crossed
  /\ ~InfoShown(selected, shown) => infoLoads = {} /\ info = EmptyInfo

\* The selection is the newest answer's, unless a late one replaced it; the
\* newest choice is in flight, failed, or answered.
DetailInv ==
  LET n == newest["detail"] IN
  /\ choice.id <= clicks /\ n.id = choice.id /\ selectedId <= choice.id
  /\ selectedId = choice.id => selected.device = choice.device
  /\ \A r \in detailLoads :
       r.id <= choice.id /\ (r.id = choice.id => r.device = choice.device)
  /\ "detail" \notin late => selectedId >= n.answered
  /\ ~n.failed /\ (\A r \in detailLoads : r.id # choice.id)
       => n.answered >= choice.id \/ (selectedId = choice.id /\ detailLoads = {})

\* A sweep that began alone is alone; the newest one is in flight, failed, or
\* answered.
SweepInv ==
  LET n == newest["sweep"] IN
  /\ n.id <= clicks /\ n.answered <= clicks
  /\ \A id \in sweeps : id <= n.id /\ n.answered <= n.id
  /\ n.id \in sweeps => ~n.failed
  /\ ~overlap => /\ sweeps \subseteq {n.id}
                 /\ foundId = IF n.id \in sweeps \/ n.failed THEN 0 ELSE n.id
  /\ n.answered = n.id /\ "sweep" \notin late => foundId = n.id
  /\ n.id \notin sweeps /\ ~n.failed
       => n.answered = n.id \/ (foundId = n.id /\ sweeps = {})

\* While nothing changed since it was sent, the newest request sees the
\* backend's devices and no others.
ListInv ==
  LET n == newest["list"] IN
  /\ n.id <= clicks /\ n.answered <= n.id
  /\ \A r \in listLoads : r.id <= n.id
  /\ ~unseen => \A r \in listLoads : r.id = n.id => r.seen = {registered}
  /\ ~unseen /\ ~n.failed /\ (\A r \in listLoads : r.id # n.id) => n.answered = n.id
  /\ ~unseen /\ n.answered = n.id /\ "list" \notin late => list = registered

IInv == TypeInv /\ InfoInv /\ DetailInv /\ SweepInv /\ ListInv

-----------------------------------------------------------------------------
(* Lemmas about the operators. *)

LEMMA ClickFacts ==
    ASSUME clicks \in Ids, Click
    PROVE  /\ clicks' = clicks + 1
           /\ clicks' \in Ids /\ clicks' \in 1..MaxClicks + 1
  BY DevicePageAssumption DEF Click, Ids

LEMMA KindsDiffer ==
    /\ "list" \in Kinds /\ "sweep" \in Kinds /\ "detail" \in Kinds
    /\ "list" # "sweep" /\ "list" # "detail" /\ "sweep" # "detail"
  BY DEF Kinds

LEMMA StartedFacts ==
    ASSUME newest \in Histories, NEW kind \in Kinds, clicks' \in Ids, Started(kind)
    PROVE  /\ newest' \in Histories
           /\ newest'[kind].id = clicks' /\ ~newest'[kind].failed
           /\ newest'[kind].answered = newest[kind].answered
           /\ \A k \in Kinds : k # kind => newest'[k] = newest[k]
  BY DevicePageAssumption DEF Started, Histories, Ids

LEMMA TakesEffectFacts ==
    ASSUME newest \in Histories, late \subseteq Kinds, NEW kind \in Kinds,
           clicks' \in Ids, TakesEffect(kind)
    PROVE  /\ newest' \in Histories /\ late' \subseteq Kinds
           /\ newest'[kind].id = clicks' /\ ~newest'[kind].failed
           /\ newest'[kind].answered = clicks' /\ kind \notin late'
           /\ \A k \in Kinds : k # kind => /\ newest'[k] = newest[k]
                                           /\ k \in late' <=> k \in late
  BY DevicePageAssumption DEF TakesEffect, Histories, Ids

LEMMA AnsweredFacts ==
    ASSUME newest \in Histories, late \subseteq Kinds, NEW kind \in Kinds,
           NEW id \in Nat, Answered(kind, id)
    PROVE  /\ newest' \in Histories /\ late' \subseteq Kinds
           /\ newest'[kind].id = newest[kind].id
           /\ newest'[kind].failed = newest[kind].failed
           /\ newest'[kind].answered = IF id > newest[kind].answered
                                       THEN id ELSE newest[kind].answered
           /\ kind \in late' <=> id < newest[kind].answered
           /\ \A k \in Kinds : k # kind => /\ newest'[k] = newest[k]
                                           /\ k \in late' <=> k \in late
  <1>1. CASE id > newest[kind].answered
    BY <1>1 DEF Answered, Histories
  <1>2. CASE ~(id > newest[kind].answered)
    BY <1>2 DEF Answered, Histories
  <1>3. QED
    BY <1>1, <1>2

LEMMA RequestFailedFacts ==
    ASSUME newest \in Histories, NEW kind \in Kinds, NEW id \in Nat,
           RequestFailed(kind, id)
    PROVE  /\ newest' \in Histories /\ late' = late
           /\ newest'[kind].id = newest[kind].id
           /\ newest'[kind].answered = newest[kind].answered
           /\ newest'[kind].failed = (newest[kind].failed \/ newest[kind].id = id)
           /\ \A k \in Kinds : k # kind => newest'[k] = newest[k]
  <1>1. CASE newest[kind].id = id
    BY <1>1 DEF RequestFailed, Histories
  <1>2. CASE newest[kind].id # id
    BY <1>2 DEF RequestFailed, Histories
  <1>3. QED
    BY <1>1, <1>2

Selections == [device : Devices, origin : {"onboarded", "discovered"}]
                \union {NoSelection}

InfoTypes ==
  /\ info \in [Panels -> Devices \union {NoDevice}]
  /\ infoLoads \subseteq [id : Ids, what : Panels, of : Devices]
  /\ scanning \in BOOLEAN /\ crossed \subseteq Devices

LEMMA EmptyInfoType ==
    /\ EmptyInfo \in [Panels -> Devices \union {NoDevice}]
    /\ \A what \in Panels : EmptyInfo[what] = NoDevice
  BY DEF EmptyInfo

LEMMA FirstInfoLoadsFacts ==
    ASSUME selectedId' \in Ids, NEW d \in Devices
    PROVE  /\ FirstInfoLoads(d) \subseteq [id : Ids, what : Panels, of : Devices]
           /\ \A r \in FirstInfoLoads(d) : r.of = d
  BY DEF FirstInfoLoads, Panels

\* Whatever the selection becomes, Info keeps to InfoInv.
LEMMA SelectionKeepsInfo ==
    ASSUME TypeInv, InfoInv, NEW sel \in Selections, NEW show \in BOOLEAN,
           selectedId' \in Ids, SelectionBecomes(sel, show)
    PROVE  /\ InfoTypes' /\ InfoInv'
           /\ selected' = sel /\ shown' = show
  <1>1. /\ selected' = sel /\ shown' = show
        /\ InfoBecomes(sel, show)
    BY DEF SelectionBecomes
  <1>2. InfoTypes
    BY DEF TypeInv, TypeOK, InfoTypes, Ids
  <1>3. sel # NoSelection => sel.device \in Devices
    BY DEF Selections
  <1>4. CASE InfoShown(selected, shown) /\ InfoShown(sel, show)
    <2>1. sel.device \in Devices
      BY <1>3, <1>4 DEF InfoShown
    <2>2. CASE sel.device = selected.device
      <3>1. UNCHANGED infoVars
        BY <1>1, <1>4, <2>2 DEF InfoBecomes
      <3>2. QED
        BY <1>1, <1>2, <1>4, <2>2, <3>1
           DEF InfoTypes, InfoInv, InfoOfSelected, infoVars, InfoShown
    <2>3. CASE sel.device # selected.device
      <3>1. MoveInfo(sel)
        BY <1>1, <1>4, <2>3 DEF InfoBecomes
      <3>2. InfoTypes'
        BY <1>2, <2>1, <3>1, FirstInfoLoadsFacts, EmptyInfoType DEF InfoTypes, MoveInfo
      <3>3. \A r \in infoLoads' : r.of \in {selected'.device} \union crossed'
        BY <1>1, <2>1, <3>1, FirstInfoLoadsFacts DEF MoveInfo
      <3>4. QED
        BY <1>1, <1>4, <3>1, <3>2, <3>3, EmptyInfoType
           DEF InfoInv, InfoOfSelected, MoveInfo, InfoShown
    <2>4. QED
      BY <2>2, <2>3
  <1>5. CASE ~(InfoShown(selected, shown) <=> InfoShown(sel, show))
    <2>1. /\ info' = EmptyInfo /\ scanning' = FALSE /\ crossed' = {}
          /\ infoLoads' = IF InfoShown(sel, show) THEN FirstInfoLoads(sel.device) ELSE {}
      BY <1>1, <1>5 DEF InfoBecomes
    <2>2. CASE InfoShown(sel, show)
      <3>1. sel.device \in Devices
        BY <1>3, <2>2 DEF InfoShown
      <3>2. QED
        BY <1>1, <2>1, <2>2, <3>1, FirstInfoLoadsFacts, EmptyInfoType
           DEF InfoTypes, InfoInv, InfoOfSelected, InfoShown
    <2>3. CASE ~InfoShown(sel, show)
      BY <1>1, <2>1, <2>3, EmptyInfoType DEF InfoTypes, InfoInv, InfoOfSelected, InfoShown
    <2>4. QED
      BY <2>2, <2>3
  <1>6. CASE ~InfoShown(selected, shown) /\ ~InfoShown(sel, show)
    <2>1. UNCHANGED infoVars
      BY <1>1, <1>6 DEF InfoBecomes
    <2>2. info = EmptyInfo /\ infoLoads = {}
      BY <1>6 DEF InfoInv
    <2>3. QED
      BY <1>1, <1>2, <1>6, <2>1, <2>2, EmptyInfoType
         DEF InfoTypes, InfoInv, InfoOfSelected, infoVars, InfoShown
  <1>7. QED
    BY <1>4, <1>5, <1>6 DEF InfoShown

-----------------------------------------------------------------------------
(* Type correctness.  Each part of TypeInv, as its own formula. *)

ListTypes ==
  /\ registered \subseteq Devices /\ list \subseteq Devices /\ unseen \in BOOLEAN
  /\ listLoads \subseteq [id : Ids, seen : SUBSET SUBSET Devices]

SweepTypes ==
  /\ found \subseteq Found /\ sweeping \in BOOLEAN /\ swept \in BOOLEAN
  /\ sweeps \subseteq 1..MaxClicks + 1 /\ foundId \in Ids /\ overlap \in BOOLEAN

SelectionTypes ==
  /\ selected \in Selections /\ shown \in BOOLEAN
  /\ detailLoads \subseteq [id : 1..MaxClicks + 1, device : Devices]
  /\ choice \in [id : Ids, device : Devices \union {NoDevice}]
  /\ selectedId \in Ids

HistoryTypes == newest \in Histories /\ late \subseteq Kinds

LEMMA TypeParts ==
    TypeInv <=> /\ ListTypes /\ SweepTypes /\ SelectionTypes /\ InfoTypes
                /\ HistoryTypes /\ clicks \in Ids
  BY DEF TypeInv, TypeOK, ListTypes, SweepTypes, SelectionTypes, InfoTypes,
         HistoryTypes, Selections, Ids

LEMMA SameTypes ==
    /\ ListTypes /\ UNCHANGED listVars => ListTypes'
    /\ SweepTypes /\ UNCHANGED sweepVars => SweepTypes'
    /\ SelectionTypes /\ UNCHANGED selectionVars => SelectionTypes'
    /\ InfoTypes /\ UNCHANGED infoVars => InfoTypes'
    /\ HistoryTypes /\ UNCHANGED historyVars => HistoryTypes'
  <1>1. ListTypes /\ UNCHANGED listVars => ListTypes'
    BY DEF ListTypes, listVars
  <1>2. SweepTypes /\ UNCHANGED sweepVars => SweepTypes'
    BY DEF SweepTypes, sweepVars
  <1>3. SelectionTypes /\ UNCHANGED selectionVars => SelectionTypes'
    BY DEF SelectionTypes, selectionVars
  <1>4. InfoTypes /\ UNCHANGED infoVars => InfoTypes'
    BY DEF InfoTypes, infoVars
  <1>5. HistoryTypes /\ UNCHANGED historyVars => HistoryTypes'
    BY DEF HistoryTypes, historyVars
  <1>6. QED
    BY <1>1, <1>2, <1>3, <1>4, <1>5

LEMMA TypePartsNext ==
    TypeInv' <=> /\ ListTypes' /\ SweepTypes' /\ SelectionTypes' /\ InfoTypes'
                 /\ HistoryTypes' /\ clicks' \in Ids
  BY DEF TypeInv, TypeOK, ListTypes, SweepTypes, SelectionTypes, InfoTypes,
         HistoryTypes, Selections, Ids

LEMMA LoadDevicesTypes ==
    ASSUME TypeInv, NEW ids \in SUBSET Ids, LoadDevices(ids), clicks' \in Ids
    PROVE  ListTypes' /\ HistoryTypes'
  <1>1. newest' \in Histories
    BY StartedFacts, KindsDiffer DEF LoadDevices, TypeInv
  <1>2. ListTypes /\ HistoryTypes
    BY TypeParts
  <1>3. listLoads' \subseteq [id : Ids, seen : SUBSET SUBSET Devices]
    <2>1. registered \in SUBSET Devices /\ listLoads \subseteq [id : Ids, seen : SUBSET SUBSET Devices]
      BY <1>2 DEF ListTypes
    <2>2. \A id \in ids : [id |-> id, seen |-> {registered}]
                          \in [id : Ids, seen : SUBSET SUBSET Devices]
      BY <2>1
    <2>3. listLoads' = listLoads \union {[id |-> id, seen |-> {registered}] : id \in ids}
      BY DEF LoadDevices
    <2>4. QED
      BY <2>1, <2>2, <2>3, Zenon
  <1>4. ListTypes'
    BY <1>2, <1>3 DEF LoadDevices, ListTypes
  <1>5. QED
    BY <1>1, <1>2, <1>4 DEF LoadDevices, HistoryTypes

LEMMA BackendBecomesTypes ==
    ASSUME TypeInv, NEW devices \in SUBSET Devices, BackendBecomes(devices)
    PROVE  ListTypes'
  <1>1. ListTypes
    BY TypeParts
  <1>2. \A r \in listLoads : [r EXCEPT !.seen = @ \union {devices}]
                               \in [id : Ids, seen : SUBSET SUBSET Devices]
    BY <1>1 DEF ListTypes
  <1>3. QED
    BY <1>1, <1>2 DEF BackendBecomes, ListTypes

LEMMA InitTypes == Init => TypeInv
  <1> SUFFICES ASSUME Init PROVE TypeInv
    OBVIOUS
  <1>1. 0 \in Ids /\ 1 \in Ids
    BY DevicePageAssumption DEF Ids
  <1>2. ListTypes
    <2>1. \A id \in {0, 1} : [id |-> id, seen |-> {FirstKnown}]
                               \in [id : Ids, seen : SUBSET SUBSET Devices]
      BY <1>1, DevicePageAssumption
    <2>2. QED
      BY <2>1, DevicePageAssumption DEF Init, ListTypes
  <1>3. SweepTypes
    BY <1>1 DEF Init, SweepTypes
  <1>4. SelectionTypes
    BY <1>1 DEF Init, SelectionTypes, Selections
  <1>5. InfoTypes
    BY EmptyInfoType DEF Init, InfoTypes
  <1>6. HistoryTypes
    BY DEF Init, HistoryTypes, Histories
  <1>7. QED
    BY <1>1, <1>2, <1>3, <1>4, <1>5, <1>6, TypeParts DEF Init

LEMMA StepTypes == TypeInv /\ InfoInv /\ [Next]_vars => TypeInv'
  <1> SUFFICES ASSUME TypeInv, InfoInv, [Next]_vars PROVE TypeInv'
    OBVIOUS
  <1> USE DevicePageAssumption
  <1>1. /\ ListTypes /\ SweepTypes /\ SelectionTypes /\ InfoTypes
        /\ HistoryTypes /\ clicks \in Ids
    BY TypeParts
  <1>2. Click => clicks' \in Ids /\ clicks' \in 1..MaxClicks + 1
    BY <1>1, ClickFacts
  <1> DEFINE Goal == /\ ListTypes' /\ SweepTypes' /\ SelectionTypes' /\ InfoTypes'
                     /\ HistoryTypes' /\ clicks' \in Ids
  <1> SUFFICES Goal
    BY TypePartsNext
  <1>a. ASSUME NEW d \in Devices, Select(d) PROVE Goal
    <2>1. ListTypes' /\ SweepTypes'
      BY <1>1, <1>a, SameTypes DEF Select
    <2>2. choice' \in [id : Ids, device : Devices \union {NoDevice}]
      BY <1>a, <1>2 DEF Select
    <2>3. CASE d \in list
      <3>1. /\ Started("detail") /\ UNCHANGED <<late, selectedId>>
            /\ detailLoads' = detailLoads \union {[id |-> clicks', device |-> d]}
            /\ SelectionBecomes(selected, TRUE)
        BY <1>a, <2>3 DEF Select
      <3>2. HistoryTypes'
        BY <1>1, <1>2, <1>a, <3>1, StartedFacts, KindsDiffer DEF Select, HistoryTypes
      <3>3. InfoTypes' /\ selected' = selected /\ shown' = TRUE
        BY <1>1, <3>1, SelectionKeepsInfo DEF SelectionTypes
      <3>4. SelectionTypes'
        BY <1>1, <1>2, <1>a, <2>2, <3>1, <3>3 DEF Select, SelectionTypes
      <3>5. QED
        BY <1>1, <1>2, <1>a, <2>1, <3>2, <3>3, <3>4 DEF Select
    <2>4. CASE d \notin list
      <3>1. /\ TakesEffect("detail") /\ selectedId' = clicks'
            /\ SelectionBecomes([device |-> d, origin |-> "discovered"], TRUE)
            /\ UNCHANGED detailLoads
        BY <1>a, <2>4 DEF Select
      <3>2. HistoryTypes'
        BY <1>1, <1>2, <1>a, <3>1, TakesEffectFacts, KindsDiffer DEF Select, HistoryTypes
      <3>3. [device |-> d, origin |-> "discovered"] \in Selections
        BY DEF Selections
      <3>4. /\ InfoTypes' /\ selected' = [device |-> d, origin |-> "discovered"]
            /\ shown' = TRUE
        BY <1>2, <1>a, <3>1, <3>3, SelectionKeepsInfo DEF Select
      <3>5. SelectionTypes'
        BY <1>1, <1>2, <1>a, <2>2, <3>1, <3>3, <3>4 DEF Select, SelectionTypes
      <3>6. QED
        BY <1>1, <1>2, <1>a, <2>1, <3>2, <3>4, <3>5 DEF Select
    <2>5. QED
      BY <2>3, <2>4
  <1>b. ASSUME NEW d \in Devices, AddDevice(d) PROVE Goal
    <2>1. ListTypes'
      BY <1>1, <1>b, BackendBecomesTypes DEF AddDevice, ListTypes
    <2>2. QED
      BY <1>1, <1>2, <1>b, <2>1, SameTypes DEF AddDevice
  <1>c. CASE DeleteDevice
    <2>1. ListTypes'
      BY <1>1, <1>c, BackendBecomesTypes DEF DeleteDevice, ListTypes
    <2>2. QED
      BY <1>1, <1>2, <1>c, <2>1, SameTypes DEF DeleteDevice
  <1>d. CASE Configured
    <2>1. ListTypes' /\ HistoryTypes'
      BY <1>2, <1>d, LoadDevicesTypes DEF Configured
    <2>2. QED
      BY <1>1, <1>2, <1>d, <2>1, SameTypes DEF Configured
  <1>u. CASE TokenRefreshed
    <2>1. ListTypes' /\ HistoryTypes'
      BY <1>1, <1>2, <1>u, LoadDevicesTypes DEF TokenRefreshed
    <2>2. QED
      BY <1>1, <1>2, <1>u, <2>1, SameTypes DEF TokenRefreshed
  <1>e. CASE DevicesArrive
    <2>1. PICK r \in listLoads, devices \in SUBSET Devices :
            /\ list' = devices /\ listLoads' = listLoads \ {r}
            /\ Answered("list", r.id)
            /\ UNCHANGED <<registered, unseen, sweepVars, selectionVars, infoVars, clicks>>
      BY <1>e DEF DevicesArrive
    <2>2. HistoryTypes'
      BY <1>1, <2>1, AnsweredFacts, KindsDiffer DEF HistoryTypes, ListTypes, Ids
    <2>3. ListTypes'
      BY <1>1, <2>1 DEF ListTypes
    <2>4. QED
      BY <1>1, <2>1, <2>2, <2>3, SameTypes
  <1>f. CASE DevicesFail
    <2>1. PICK r \in listLoads :
            /\ listLoads' = listLoads \ {r}
            /\ RequestFailed("list", r.id)
            /\ UNCHANGED <<registered, list, unseen, sweepVars, selectionVars,
                           infoVars, clicks>>
      BY <1>f DEF DevicesFail
    <2>2. HistoryTypes'
      BY <1>1, <2>1, RequestFailedFacts, KindsDiffer DEF HistoryTypes, ListTypes, Ids
    <2>3. ListTypes'
      BY <1>1, <2>1 DEF ListTypes
    <2>4. QED
      BY <1>1, <2>1, <2>2, <2>3, SameTypes
  <1>g. CASE ScanNetwork
    <2>1. HistoryTypes'
      BY <1>1, <1>2, <1>g, StartedFacts, KindsDiffer DEF ScanNetwork, HistoryTypes
    <2>2. SweepTypes'
      <3>1. 0 \in Ids /\ {clicks'} \subseteq 1..MaxClicks + 1
        BY <1>2, <1>g DEF ScanNetwork, Ids
      <3>2. overlap' \in BOOLEAN /\ {} \subseteq Found
        BY <1>g DEF ScanNetwork
      <3>3. QED
        BY <1>1, <1>g, <3>1, <3>2 DEF ScanNetwork, SweepTypes
    <2>3. QED
      BY <1>1, <1>2, <1>g, <2>1, <2>2, SameTypes DEF ScanNetwork
  <1>h. CASE SweepCompletes
    <2>1. PICK id \in sweeps, devices \in SUBSET Found :
            /\ found' = devices /\ foundId' = id /\ sweeps' = sweeps \ {id}
            /\ sweeping' = FALSE
            /\ Answered("sweep", id)
            /\ UNCHANGED <<swept, overlap, listVars, selectionVars, infoVars, clicks>>
      BY <1>h DEF SweepCompletes
    <2>2. id \in Ids /\ id \in Nat
      BY <1>1, <2>1 DEF SweepTypes, Ids
    <2>3. HistoryTypes'
      BY <1>1, <2>1, <2>2, AnsweredFacts, KindsDiffer DEF HistoryTypes
    <2>4. SweepTypes'
      BY <1>1, <2>1, <2>2 DEF SweepTypes
    <2>5. QED
      BY <1>1, <2>1, <2>3, <2>4, SameTypes
  <1>i. CASE SweepFails
    <2>1. PICK id \in sweeps :
            /\ sweeps' = sweeps \ {id} /\ sweeping' = FALSE
            /\ RequestFailed("sweep", id)
            /\ UNCHANGED <<found, swept, overlap, foundId, listVars, selectionVars,
                           infoVars, clicks>>
      BY <1>i DEF SweepFails
    <2>2. id \in Nat
      BY <1>1, <2>1 DEF SweepTypes
    <2>3. HistoryTypes'
      BY <1>1, <2>1, <2>2, RequestFailedFacts, KindsDiffer DEF HistoryTypes
    <2>4. SweepTypes'
      BY <1>1, <2>1 DEF SweepTypes
    <2>5. QED
      BY <1>1, <2>1, <2>3, <2>4, SameTypes
  <1>j. CASE SearchOtherwise
    <2>1. SweepTypes'
      BY <1>1, <1>j DEF SearchOtherwise, SweepTypes
    <2>2. QED
      BY <1>1, <1>2, <1>j, <2>1, SameTypes DEF SearchOtherwise
  <1>k. CASE DetailsArrive
    <2>1. PICK r \in detailLoads :
            /\ detailLoads' = detailLoads \ {r} /\ selectedId' = r.id
            /\ SelectionBecomes([device |-> r.device, origin |-> "onboarded"], shown)
            /\ Answered("detail", r.id)
            /\ UNCHANGED <<choice, listVars, sweepVars, clicks>>
      BY <1>k DEF DetailsArrive
    <2>2. /\ r.id \in Ids /\ r.id \in Nat
          /\ [device |-> r.device, origin |-> "onboarded"] \in Selections
      BY <1>1, <2>1 DEF SelectionTypes, Selections, Ids
    <2>3. HistoryTypes'
      BY <1>1, <2>1, <2>2, AnsweredFacts, KindsDiffer DEF HistoryTypes
    <2>4. /\ InfoTypes' /\ shown' = shown
          /\ selected' = [device |-> r.device, origin |-> "onboarded"]
      BY <1>1, <2>1, <2>2, SelectionKeepsInfo DEF SelectionTypes
    <2>5. SelectionTypes'
      BY <1>1, <2>1, <2>2, <2>4 DEF SelectionTypes
    <2>6. QED
      BY <1>1, <2>1, <2>3, <2>4, <2>5, SameTypes
  <1>l. CASE DetailsFail
    <2>1. PICK r \in detailLoads :
            /\ detailLoads' = detailLoads \ {r}
            /\ RequestFailed("detail", r.id)
            /\ UNCHANGED <<selected, shown, choice, selectedId, listVars, sweepVars,
                           infoVars, clicks>>
      BY <1>l DEF DetailsFail
    <2>2. HistoryTypes'
      BY <1>1, <2>1, RequestFailedFacts, KindsDiffer DEF HistoryTypes, SelectionTypes
    <2>3. SelectionTypes'
      BY <1>1, <2>1 DEF SelectionTypes
    <2>4. QED
      BY <1>1, <2>1, <2>2, <2>3, SameTypes
  <1>m. CASE Deselect
    <2>1. NoSelection \in Selections
      BY DEF Selections
    <2>2. HistoryTypes'
      BY <1>1, <1>2, <1>m, TakesEffectFacts, KindsDiffer DEF Deselect, HistoryTypes
    <2>3. InfoTypes' /\ selected' = NoSelection /\ shown' = shown
      BY <1>1, <1>2, <1>m, <2>1, SelectionKeepsInfo DEF Deselect, SelectionTypes
    <2>4. SelectionTypes'
      BY <1>1, <1>2, <1>m, <2>1, <2>3 DEF Deselect, SelectionTypes
    <2>5. QED
      BY <1>1, <1>2, <1>m, <2>2, <2>3, <2>4, SameTypes DEF Deselect
  <1>n. CASE ShowComponents
    <2>1. InfoTypes' /\ selected' = selected /\ shown' = ~shown
      BY <1>1, <1>n, SelectionKeepsInfo DEF ShowComponents, SelectionTypes
    <2>2. shown' \in BOOLEAN
      <3>1. (~shown) \in BOOLEAN
        OBVIOUS
      <3>2. QED
        BY <2>1, <3>1
    <2>3. UNCHANGED <<detailLoads, choice, selectedId>>
      BY <1>n DEF ShowComponents
    <2>4. SelectionTypes'
      BY <1>1, <2>1, <2>2, <2>3 DEF SelectionTypes
    <2>5. QED
      BY <1>1, <1>n, <2>1, <2>4, SameTypes DEF ShowComponents
  <1>o. CASE Revisit
    <2>1. clicks \in Ids /\ 0 \in Ids
      BY <1>1 DEF Ids
    <2>2. ListTypes'
      <3>1. \A id \in {clicks, clicks'} : [id |-> id, seen |-> {registered}]
                                         \in [id : Ids, seen : SUBSET SUBSET Devices]
        BY <1>1, <1>2, <1>o, <2>1 DEF Revisit, ListTypes
      <3>2. /\ registered' = registered /\ list' = {} /\ unseen' = FALSE
            /\ listLoads' = {[id |-> id, seen |-> {registered}] : id \in {clicks, clicks'}}
        BY <1>o DEF Revisit
      <3>3. QED
        BY <1>1, <3>1, <3>2 DEF ListTypes
    <2>3. SweepTypes'
      <3>1. /\ found' = {} /\ foundId' = 0 /\ sweeping' = swept /\ overlap' = FALSE
            /\ sweeps' \subseteq {clicks'} /\ swept' = swept
        BY <1>o DEF Revisit
      <3>2. clicks' \in 1..MaxClicks + 1
        BY <1>2, <1>o DEF Revisit
      <3>3. QED
        BY <1>1, <2>1, <3>1, <3>2 DEF SweepTypes
    <2>4. SelectionTypes'
      BY <1>1, <1>2, <1>o DEF Revisit, SelectionTypes, Selections
    <2>5. InfoTypes'
      BY <1>o, EmptyInfoType DEF Revisit, InfoTypes
    <2>6. HistoryTypes'
      <3>1. clicks \in Nat /\ clicks' \in Nat
        BY <1>2, <1>o, <2>1 DEF Revisit, Ids
      <3>2. /\ late' = {}
            /\ newest' = [kind \in Kinds |->
                            [id |-> IF kind = "sweep" /\ ~swept THEN 0 ELSE clicks',
                             failed |-> FALSE, answered |-> clicks]]
        BY <1>o DEF Revisit
      <3>3. QED
        BY <3>1, <3>2 DEF HistoryTypes, Histories
    <2>7. QED
      BY <1>2, <1>o, <2>2, <2>3, <2>4, <2>5, <2>6 DEF Revisit
  <1>p. CASE RunDeepScan
    <2>1. selected.device \in Devices
      BY <1>1, <1>p DEF RunDeepScan, InfoShown, SelectionTypes, Selections
    <2>2. InfoTypes'
      BY <1>1, <1>2, <1>p, <2>1 DEF RunDeepScan, InfoTypes, Panels
    <2>3. QED
      BY <1>1, <1>2, <1>p, <2>2, SameTypes DEF RunDeepScan
  <1>q. CASE InfoArrives
    <2>1. PICK r \in infoLoads :
            /\ infoLoads' = infoLoads \ {r}
            /\ info' = [info EXCEPT ![r.what] = r.of]
            /\ scanning' = (scanning /\ r.what # "scan")
            /\ UNCHANGED <<crossed, listVars, sweepVars, selectionVars, historyVars,
                           clicks>>
      BY <1>q DEF InfoArrives
    <2>2. scanning' \in BOOLEAN
      BY <2>1
    <2>3. InfoTypes'
      BY <1>1, <2>1, <2>2 DEF InfoTypes
    <2>4. QED
      BY <1>1, <2>1, <2>3, SameTypes
  <1>r. CASE InfoFails
    <2>1. PICK r \in infoLoads :
            /\ infoLoads' = infoLoads \ {r}
            /\ info' = IF r.what = "memory" THEN [info EXCEPT !["memory"] = NoDevice]
                       ELSE info
            /\ scanning' = (scanning /\ r.what # "scan")
            /\ UNCHANGED <<crossed, listVars, sweepVars, selectionVars, historyVars,
                           clicks>>
      BY <1>r DEF InfoFails
    <2>2. scanning' \in BOOLEAN
      BY <2>1
    <2>3. info' \in [Panels -> Devices \union {NoDevice}]
      BY <1>1, <2>1 DEF InfoTypes
    <2>4. InfoTypes'
      BY <1>1, <2>1, <2>2, <2>3 DEF InfoTypes
    <2>5. QED
      BY <1>1, <2>1, <2>4, SameTypes
  <1>s. CASE CpuPushed
    <2>1. selected.device \in Devices
      BY <1>1, <1>s DEF CpuPushed, InfoShown, SelectionTypes, Selections
    <2>2. InfoTypes'
      BY <1>1, <1>s, <2>1 DEF CpuPushed, InfoTypes, Panels
    <2>3. QED
      BY <1>1, <1>s, <2>2, SameTypes DEF CpuPushed
  <1>t. CASE UNCHANGED vars
    BY <1>1, <1>t, SameTypes DEF vars
  <1>3. QED
    BY <1>a, <1>b, <1>c, <1>d, <1>e, <1>f, <1>g, <1>h, <1>i, <1>j, <1>k, <1>l, <1>m,
       <1>n, <1>o, <1>p, <1>q, <1>r, <1>s, <1>t, <1>u DEF Next

-----------------------------------------------------------------------------
(* Info. *)

LEMMA InfoInit == Init => InfoInv
  BY EmptyInfoType DEF Init, InfoInv, InfoOfSelected, InfoShown

\* Unless the selection moves or Info is told something, nothing changes.
LEMMA SameInfo ==
    ASSUME InfoInv, UNCHANGED <<selectionVars, infoVars>>
    PROVE  InfoInv'
  BY DEF InfoInv, InfoOfSelected, InfoShown, selectionVars, infoVars

LEMMA InfoStep == TypeInv /\ InfoInv /\ [Next]_vars => InfoInv'
  <1> SUFFICES ASSUME TypeInv, InfoInv, [Next]_vars PROVE InfoInv'
    OBVIOUS
  <1>1. SelectionTypes /\ InfoTypes /\ clicks \in Ids
    BY TypeParts
  <1>2. Click => clicks' \in Ids
    BY <1>1, ClickFacts
  <1>3. /\ InfoOfSelected
        /\ \A r \in infoLoads : r.of \in {selected.device} \union crossed
        /\ ~InfoShown(selected, shown) => infoLoads = {} /\ info = EmptyInfo
    BY DEF InfoInv
  <1>a. ASSUME NEW d \in Devices, Select(d) PROVE InfoInv'
    <2>1. CASE d \in list
      BY <1>1, <1>a, <2>1, SelectionKeepsInfo DEF Select, SelectionTypes
    <2>2. CASE d \notin list
      <3>1. [device |-> d, origin |-> "discovered"] \in Selections
        BY DEF Selections
      <3>2. /\ selectedId' \in Ids
            /\ SelectionBecomes([device |-> d, origin |-> "discovered"], TRUE)
        BY <1>2, <1>a, <2>2 DEF Select
      <3>3. QED
        BY <3>1, <3>2, SelectionKeepsInfo
    <2>3. QED
      BY <2>1, <2>2
  <1>b. ASSUME NEW d \in Devices, AddDevice(d) PROVE InfoInv'
    BY <1>b, SameInfo DEF AddDevice
  <1>c. CASE DeleteDevice
    BY <1>c, SameInfo DEF DeleteDevice
  <1>d. CASE Configured
    BY <1>d, SameInfo DEF Configured
  <1>u. CASE TokenRefreshed
    BY <1>u, SameInfo DEF TokenRefreshed
  <1>e. CASE DevicesArrive
    BY <1>e, SameInfo DEF DevicesArrive
  <1>f. CASE DevicesFail
    BY <1>f, SameInfo DEF DevicesFail
  <1>g. CASE ScanNetwork
    BY <1>g, SameInfo DEF ScanNetwork
  <1>h. CASE SweepCompletes
    BY <1>h, SameInfo DEF SweepCompletes
  <1>i. CASE SweepFails
    BY <1>i, SameInfo DEF SweepFails
  <1>j. CASE SearchOtherwise
    BY <1>j, SameInfo DEF SearchOtherwise
  <1>k. CASE DetailsArrive
    <2>1. PICK r \in detailLoads :
            /\ selectedId' = r.id
            /\ SelectionBecomes([device |-> r.device, origin |-> "onboarded"], shown)
      BY <1>k DEF DetailsArrive
    <2>2. /\ r.id \in Ids
          /\ [device |-> r.device, origin |-> "onboarded"] \in Selections
      BY <1>1, <2>1 DEF SelectionTypes, Selections, Ids
    <2>3. QED
      BY <1>1, <2>1, <2>2, SelectionKeepsInfo DEF SelectionTypes
  <1>l. CASE DetailsFail
    BY <1>l DEF DetailsFail, infoVars, InfoInv, InfoOfSelected, InfoShown
  <1>m. CASE Deselect
    <2>1. NoSelection \in Selections
      BY DEF Selections
    <2>2. QED
      BY <1>1, <1>2, <1>m, <2>1, SelectionKeepsInfo DEF Deselect, SelectionTypes
  <1>n. CASE ShowComponents
    BY <1>1, <1>n, SelectionKeepsInfo DEF ShowComponents, SelectionTypes
  <1>o. CASE Revisit
    BY <1>o, EmptyInfoType DEF Revisit, InfoInv, InfoOfSelected, InfoShown
  <1>p. CASE RunDeepScan
    <2>1. /\ InfoShown(selected, shown) /\ UNCHANGED <<selected, shown, crossed>>
          /\ info' = [info EXCEPT !["scan"] = NoDevice]
          /\ infoLoads' = infoLoads \union {[id |-> clicks', what |-> "scan",
                                             of |-> selected.device]}
      BY <1>p DEF RunDeepScan, selectionVars
    <2>2. InfoOfSelected'
      BY <1>1, <1>3, <2>1 DEF InfoOfSelected, InfoTypes
    <2>3. QED
      BY <1>3, <2>1, <2>2 DEF InfoInv, InfoShown
  <1>q. CASE InfoArrives
    <2>1. PICK r \in infoLoads :
            /\ infoLoads' = infoLoads \ {r}
            /\ info' = [info EXCEPT ![r.what] = r.of]
            /\ UNCHANGED <<crossed, selected, shown>>
      BY <1>q DEF InfoArrives, selectionVars
    <2>2. InfoShown(selected, shown)
      BY <1>3, <2>1
    <2>3. InfoOfSelected'
      BY <1>1, <1>3, <2>1 DEF InfoOfSelected, InfoTypes
    <2>4. QED
      BY <1>3, <2>1, <2>2, <2>3 DEF InfoInv, InfoShown
  <1>r. CASE InfoFails
    <2>1. PICK r \in infoLoads :
            /\ infoLoads' = infoLoads \ {r}
            /\ info' = IF r.what = "memory" THEN [info EXCEPT !["memory"] = NoDevice]
                       ELSE info
            /\ UNCHANGED <<crossed, selected, shown>>
      BY <1>r DEF InfoFails, selectionVars
    <2>2. InfoShown(selected, shown)
      BY <1>3, <2>1
    <2>3. InfoOfSelected'
      BY <1>1, <1>3, <2>1 DEF InfoOfSelected, InfoTypes
    <2>4. QED
      BY <1>3, <2>1, <2>2, <2>3 DEF InfoInv, InfoShown
  <1>s. CASE CpuPushed
    <2>1. /\ InfoShown(selected, shown) /\ UNCHANGED <<selected, shown, infoLoads, crossed>>
          /\ info' = [info EXCEPT !["cpu"] = selected.device]
      BY <1>s DEF CpuPushed, selectionVars
    <2>2. InfoOfSelected'
      BY <1>1, <1>3, <2>1 DEF InfoOfSelected, InfoTypes
    <2>3. QED
      BY <1>3, <2>1, <2>2 DEF InfoInv, InfoShown
  <1>t. CASE UNCHANGED vars
    BY <1>t, SameInfo DEF vars
  <1>4. QED
    BY <1>a, <1>b, <1>c, <1>d, <1>e, <1>f, <1>g, <1>h, <1>i, <1>j, <1>k, <1>l, <1>m,
       <1>n, <1>o, <1>p, <1>q, <1>r, <1>s, <1>t, <1>u DEF Next

-----------------------------------------------------------------------------
(* The selection. *)

LEMMA DetailInit == Init => DetailInv
  BY KindsDiffer DEF Init, DetailInv, NoSelection

\* What is neither a choice nor an answer to one changes nothing.
LEMMA SameDetail ==
    ASSUME TypeInv, DetailInv, clicks' \in Ids, clicks <= clicks',
           UNCHANGED <<selected, detailLoads, choice, selectedId>>,
           newest'["detail"] = newest["detail"],
           "detail" \in late' <=> "detail" \in late
    PROVE  DetailInv'
  <1>1. choice.id \in Ids /\ clicks \in Ids
    BY TypeParts DEF SelectionTypes
  <1>2. choice.id <= clicks'
    BY <1>1 DEF DetailInv, Ids
  <1>3. QED
    BY <1>2 DEF DetailInv

LEMMA DetailStep == TypeInv /\ InfoInv /\ DetailInv /\ [Next]_vars => DetailInv'
  <1> SUFFICES ASSUME TypeInv, InfoInv, DetailInv, [Next]_vars PROVE DetailInv'
    OBVIOUS
  <1> USE DevicePageAssumption, KindsDiffer
  <1> DEFINE n == newest["detail"]
  <1>1. ListTypes /\ SweepTypes /\ SelectionTypes /\ HistoryTypes /\ clicks \in Ids
    BY TypeParts
  <1>2. /\ Click => clicks' = clicks + 1 /\ clicks' \in Ids /\ clicks <= clicks'
        /\ clicks <= clicks
    BY <1>1, ClickFacts DEF Ids
  <1>3. /\ newest \in Histories /\ late \subseteq Kinds
        /\ n.id \in Nat /\ n.answered \in Nat /\ n.failed \in BOOLEAN
    BY <1>1 DEF HistoryTypes, Histories
  <1>4. choice.id \in Nat /\ selectedId \in Nat /\ clicks \in Nat
    BY <1>1 DEF SelectionTypes, Ids
  <1>5. \A r \in detailLoads : r.id \in Nat
    BY <1>1 DEF SelectionTypes
  <1>6. /\ choice.id <= clicks /\ n.id = choice.id /\ selectedId <= choice.id
        /\ selectedId = choice.id => selected.device = choice.device
        /\ \A r \in detailLoads :
             r.id <= choice.id /\ (r.id = choice.id => r.device = choice.device)
        /\ "detail" \notin late => selectedId >= n.answered
        /\ ~n.failed /\ (\A r \in detailLoads : r.id # choice.id)
             => n.answered >= choice.id \/ (selectedId = choice.id /\ detailLoads = {})
    BY DEF DetailInv
  <1> HIDE DEF n
  <1>a. ASSUME NEW d \in Devices, Select(d) PROVE DetailInv'
    <2>1. /\ choice' = [id |-> clicks', device |-> d]
          /\ clicks' = clicks + 1 /\ clicks' \in Ids
      BY <1>2, <1>a DEF Select
    <2>2. CASE d \in list
      <3>1. /\ Started("detail") /\ UNCHANGED <<late, selectedId>>
            /\ detailLoads' = detailLoads \union {[id |-> clicks', device |-> d]}
            /\ selected' = selected
        BY <1>a, <2>2 DEF Select, SelectionBecomes
      <3>2. /\ newest'["detail"].id = clicks' /\ ~newest'["detail"].failed
            /\ newest'["detail"].answered = n.answered
        BY <1>3, <2>1, <3>1, StartedFacts DEF n
      <3>3. \E r \in detailLoads' : r.id = choice'.id
        BY <2>1, <3>1
      <3>4. \A r \in detailLoads' :
              r.id <= choice'.id /\ (r.id = choice'.id => r.device = choice'.device)
        BY <1>4, <1>5, <1>6, <2>1, <3>1
      <3>5. choice'.id = clicks' /\ selectedId' < choice'.id
        BY <1>4, <1>6, <2>1, <3>1
      <3>6. "detail" \notin late' => selectedId' >= newest'["detail"].answered
        BY <1>6, <3>1, <3>2
      <3>7. choice'.id <= clicks' /\ selectedId' <= choice'.id /\ selectedId' # choice'.id
        BY <1>4, <2>1, <3>1, <3>5
      <3>8. QED
        BY <3>2, <3>3, <3>4, <3>5, <3>6, <3>7 DEF DetailInv
    <2>3. CASE d \notin list
      <3>1. /\ TakesEffect("detail") /\ selectedId' = clicks'
            /\ selected' = [device |-> d, origin |-> "discovered"]
            /\ UNCHANGED detailLoads
        BY <1>a, <2>3 DEF Select, SelectionBecomes
      <3>2. /\ newest'["detail"].id = clicks'
            /\ newest'["detail"].answered = clicks'
        BY <1>3, <2>1, <3>1, TakesEffectFacts
      <3>3. \A r \in detailLoads' : r.id < choice'.id
        BY <1>4, <1>5, <1>6, <2>1, <3>1
      <3>4. clicks' <= clicks'
        BY <1>4, <2>1
      <3>5. \A r \in detailLoads' :
              r.id <= choice'.id /\ (r.id = choice'.id => r.device = choice'.device)
        BY <1>4, <1>5, <2>1, <3>1, <3>3
      <3>6. QED
        BY <2>1, <3>1, <3>2, <3>4, <3>5 DEF DetailInv
    <2>4. QED
      BY <2>2, <2>3
  <1>b. ASSUME NEW d \in Devices, AddDevice(d) PROVE DetailInv'
    BY <1>2, <1>b, SameDetail DEF AddDevice, selectionVars, historyVars
  <1>c. CASE DeleteDevice
    BY <1>2, <1>c, SameDetail DEF DeleteDevice, selectionVars, historyVars
  <1>d. CASE Configured
    <2>1. newest'["detail"] = newest["detail"] /\ late' = late
      BY <1>2, <1>3, <1>d, StartedFacts DEF Configured, LoadDevices
    <2>2. QED
      BY <1>2, <1>d, <2>1, SameDetail DEF Configured, selectionVars
  <1>u. CASE TokenRefreshed
    <2>1. newest'["detail"] = newest["detail"] /\ late' = late
      BY <1>2, <1>3, <1>u, StartedFacts DEF TokenRefreshed, LoadDevices
    <2>2. QED
      BY <1>2, <1>u, <2>1, SameDetail DEF TokenRefreshed, selectionVars
  <1>e. CASE DevicesArrive
    <2>1. PICK r \in listLoads :
            Answered("list", r.id) /\ UNCHANGED <<selectionVars, clicks>>
      BY <1>e DEF DevicesArrive
    <2>2. r.id \in Nat
      BY <1>1, <2>1 DEF ListTypes, Ids
    <2>3. /\ newest'["detail"] = newest["detail"]
          /\ "detail" \in late' <=> "detail" \in late
      BY <1>3, <2>1, <2>2, AnsweredFacts
    <2>4. QED
      BY <1>1, <1>2, <2>1, <2>3, SameDetail DEF selectionVars
  <1>f. CASE DevicesFail
    <2>1. PICK r \in listLoads :
            RequestFailed("list", r.id) /\ UNCHANGED <<selectionVars, clicks>>
      BY <1>f DEF DevicesFail
    <2>2. r.id \in Nat
      BY <1>1, <2>1 DEF ListTypes, Ids
    <2>3. newest'["detail"] = newest["detail"] /\ late' = late
      BY <1>3, <2>1, <2>2, RequestFailedFacts
    <2>4. QED
      BY <1>1, <1>2, <2>1, <2>3, SameDetail DEF selectionVars
  <1>g. CASE ScanNetwork
    <2>1. newest'["detail"] = newest["detail"] /\ late' = late
      BY <1>2, <1>3, <1>g, StartedFacts DEF ScanNetwork
    <2>2. QED
      BY <1>2, <1>g, <2>1, SameDetail DEF ScanNetwork, selectionVars
  <1>h. CASE SweepCompletes
    <2>1. PICK id \in sweeps :
            Answered("sweep", id) /\ UNCHANGED <<selectionVars, clicks>>
      BY <1>h DEF SweepCompletes
    <2>2. id \in Nat
      BY <1>1, <2>1 DEF SweepTypes
    <2>3. /\ newest'["detail"] = newest["detail"]
          /\ "detail" \in late' <=> "detail" \in late
      BY <1>3, <2>1, <2>2, AnsweredFacts
    <2>4. QED
      BY <1>1, <1>2, <2>1, <2>3, SameDetail DEF selectionVars
  <1>i. CASE SweepFails
    <2>1. PICK id \in sweeps :
            RequestFailed("sweep", id) /\ UNCHANGED <<selectionVars, clicks>>
      BY <1>i DEF SweepFails
    <2>2. id \in Nat
      BY <1>1, <2>1 DEF SweepTypes
    <2>3. newest'["detail"] = newest["detail"] /\ late' = late
      BY <1>3, <2>1, <2>2, RequestFailedFacts
    <2>4. QED
      BY <1>1, <1>2, <2>1, <2>3, SameDetail DEF selectionVars
  <1>j. CASE SearchOtherwise
    BY <1>2, <1>j, SameDetail DEF SearchOtherwise, selectionVars, historyVars
  <1>k. CASE DetailsArrive
    <2>1. PICK r \in detailLoads :
            /\ detailLoads' = detailLoads \ {r} /\ selectedId' = r.id
            /\ selected' = [device |-> r.device, origin |-> "onboarded"]
            /\ Answered("detail", r.id)
            /\ UNCHANGED <<choice, clicks>>
      BY <1>k DEF DetailsArrive, SelectionBecomes
    <2>2. /\ newest'["detail"].id = n.id /\ newest'["detail"].failed = n.failed
          /\ newest'["detail"].answered = IF r.id > n.answered THEN r.id ELSE n.answered
          /\ "detail" \in late' <=> r.id < n.answered
      BY <1>3, <1>5, <2>1, AnsweredFacts DEF n
    <2>3. r.id \in Nat /\ r.id <= choice.id
      BY <1>5, <1>6, <2>1
    <2>4. "detail" \notin late' => selectedId' >= newest'["detail"].answered
      BY <1>3, <2>1, <2>2, <2>3
    <2>5. ~n.failed /\ (\A q \in detailLoads' : q.id # choice.id)
            => newest'["detail"].answered >= choice.id
      <3> SUFFICES ASSUME ~n.failed, \A q \in detailLoads' : q.id # choice.id
                   PROVE  newest'["detail"].answered >= choice.id
        OBVIOUS
      <3>1. CASE r.id = choice.id
        BY <1>3, <1>4, <2>2, <2>3, <3>1
      <3>2. CASE r.id # choice.id
        <4>1. \A q \in detailLoads : q.id # choice.id
          BY <2>1, <3>2
        <4>2. n.answered >= choice.id
          BY <1>6, <2>1, <4>1
        <4>3. QED
          BY <1>3, <1>4, <2>2, <2>3, <4>2
      <3>3. QED
        BY <3>1, <3>2
    <2>6. r.id = choice.id => selected'.device = choice.device
      BY <1>6, <2>1
    <2>7. QED
      BY <1>6, <2>1, <2>2, <2>3, <2>4, <2>5, <2>6 DEF DetailInv
  <1>l. CASE DetailsFail
    <2>1. PICK r \in detailLoads :
            /\ detailLoads' = detailLoads \ {r}
            /\ RequestFailed("detail", r.id)
            /\ UNCHANGED <<selected, choice, selectedId, clicks>>
      BY <1>l DEF DetailsFail
    <2>2. /\ newest'["detail"].id = n.id /\ newest'["detail"].answered = n.answered
          /\ newest'["detail"].failed = (n.failed \/ n.id = r.id)
          /\ late' = late
      BY <1>3, <1>5, <2>1, RequestFailedFacts DEF n
    <2>3. ~newest'["detail"].failed /\ (\A q \in detailLoads' : q.id # choice.id)
            => n.answered >= choice.id \/ (selectedId = choice.id /\ detailLoads' = {})
      <3> SUFFICES ASSUME ~newest'["detail"].failed,
                          \A q \in detailLoads' : q.id # choice.id
                   PROVE  n.answered >= choice.id
                            \/ (selectedId = choice.id /\ detailLoads' = {})
        OBVIOUS
      <3>1. ~n.failed /\ n.id # r.id
        BY <2>2
      <3>2. \A q \in detailLoads : q.id # choice.id
        BY <1>6, <2>1, <3>1
      <3>3. QED
        BY <1>6, <2>1, <3>1, <3>2
    <2>4. QED
      BY <1>6, <2>1, <2>2, <2>3 DEF DetailInv
  <1>m. CASE Deselect
    <2>1. /\ choice' = [id |-> clicks', device |-> NoDevice] /\ selectedId' = clicks'
          /\ selected' = NoSelection /\ TakesEffect("detail") /\ UNCHANGED detailLoads
          /\ clicks' = clicks + 1 /\ clicks' \in Ids
      BY <1>2, <1>m DEF Deselect, SelectionBecomes
    <2>2. newest'["detail"].id = clicks' /\ newest'["detail"].answered = clicks'
      BY <1>3, <2>1, TakesEffectFacts
    <2>3. \A r \in detailLoads' :
            r.id <= choice'.id /\ (r.id = choice'.id => r.device = choice'.device)
      BY <1>4, <1>5, <1>6, <2>1
    <2>4. clicks' <= clicks' /\ selected'.device = NoDevice
      BY <1>4, <2>1 DEF NoSelection
    <2>5. QED
      BY <2>1, <2>2, <2>3, <2>4 DEF DetailInv
  <1>n. CASE ShowComponents
    BY <1>1, <1>2, <1>n, SameDetail DEF ShowComponents, SelectionBecomes, historyVars
  <1>o. CASE Revisit
    <2>1. /\ choice' = [id |-> clicks', device |-> NoDevice] /\ selectedId' = clicks'
          /\ selected' = NoSelection /\ detailLoads' = {} /\ late' = {}
          /\ newest'["detail"].id = clicks' /\ newest'["detail"].answered = clicks
          /\ clicks' = clicks + 1
      BY <1>2, <1>o DEF Revisit
    <2>2. clicks' <= clicks' /\ clicks' >= clicks /\ selected'.device = NoDevice
      BY <1>4, <2>1 DEF NoSelection
    <2>3. QED
      BY <2>1, <2>2 DEF DetailInv
  <1>p. CASE RunDeepScan
    BY <1>2, <1>p, SameDetail DEF RunDeepScan, selectionVars, historyVars
  <1>q. CASE InfoArrives
    BY <1>1, <1>2, <1>q, SameDetail DEF InfoArrives, selectionVars, historyVars
  <1>r. CASE InfoFails
    BY <1>1, <1>2, <1>r, SameDetail DEF InfoFails, selectionVars, historyVars
  <1>s. CASE CpuPushed
    BY <1>1, <1>2, <1>s, SameDetail DEF CpuPushed, selectionVars, historyVars
  <1>t. CASE UNCHANGED vars
    BY <1>1, <1>2, <1>t, SameDetail DEF vars, selectionVars, historyVars
  <1>7. QED
    BY <1>a, <1>b, <1>c, <1>d, <1>e, <1>f, <1>g, <1>h, <1>i, <1>j, <1>k, <1>l, <1>m,
       <1>n, <1>o, <1>p, <1>q, <1>r, <1>s, <1>t, <1>u DEF Next

-----------------------------------------------------------------------------
(* The sweep. *)

LEMMA SweepInit == Init => SweepInv
  BY KindsDiffer DEF Init, SweepInv

\* What is neither a sweep nor the end of one changes nothing.
LEMMA SameSweep ==
    ASSUME TypeInv, SweepInv, clicks' \in Ids, clicks <= clicks',
           UNCHANGED <<sweeps, overlap, foundId>>,
           newest'["sweep"] = newest["sweep"],
           "sweep" \in late' <=> "sweep" \in late
    PROVE  SweepInv'
  <1>1. /\ newest["sweep"].id \in Nat /\ newest["sweep"].answered \in Nat
        /\ clicks \in Nat /\ clicks' \in Nat
    BY TypeParts, KindsDiffer, DevicePageAssumption DEF HistoryTypes, Histories, Ids
  <1>2. newest["sweep"].id <= clicks' /\ newest["sweep"].answered <= clicks'
    BY <1>1 DEF SweepInv
  <1>3. QED
    BY <1>2 DEF SweepInv

LEMMA SweepStep == TypeInv /\ SweepInv /\ [Next]_vars => SweepInv'
  <1> SUFFICES ASSUME TypeInv, SweepInv, [Next]_vars PROVE SweepInv'
    OBVIOUS
  <1> USE DevicePageAssumption, KindsDiffer
  <1> DEFINE n == newest["sweep"]
             m == newest'["sweep"]
  <1>1. ListTypes /\ SweepTypes /\ SelectionTypes /\ HistoryTypes /\ clicks \in Ids
    BY TypeParts
  <1>2. /\ Click => clicks' = clicks + 1 /\ clicks' \in Ids /\ clicks <= clicks'
        /\ clicks <= clicks
    BY <1>1, ClickFacts DEF Ids
  <1>3. /\ newest \in Histories /\ late \subseteq Kinds
        /\ n.id \in Nat /\ n.answered \in Nat /\ n.failed \in BOOLEAN
    BY <1>1 DEF HistoryTypes, Histories
  <1>4. clicks \in Nat /\ \A id \in sweeps : id \in Nat
    BY <1>1 DEF SweepTypes, Ids
  <1>5. /\ n.id <= clicks /\ n.answered <= clicks
        /\ \A id \in sweeps : id <= n.id /\ n.answered <= n.id
        /\ n.id \in sweeps => ~n.failed
        /\ ~overlap => /\ sweeps \subseteq {n.id}
                       /\ foundId = IF n.id \in sweeps \/ n.failed THEN 0 ELSE n.id
        /\ n.answered = n.id /\ "sweep" \notin late => foundId = n.id
        /\ n.id \notin sweeps /\ ~n.failed
             => n.answered = n.id \/ (foundId = n.id /\ sweeps = {})
    BY DEF SweepInv
  <1>6. ASSUME m.id <= clicks', m.answered <= clicks',
               \A id \in sweeps' : id <= m.id /\ m.answered <= m.id,
               m.id \in sweeps' => ~m.failed,
               ~overlap' => /\ sweeps' \subseteq {m.id}
                            /\ foundId' = IF m.id \in sweeps' \/ m.failed THEN 0 ELSE m.id,
               m.answered = m.id /\ "sweep" \notin late' => foundId' = m.id,
               m.id \notin sweeps' /\ ~m.failed
                 => m.answered = m.id \/ (foundId' = m.id /\ sweeps' = {})
        PROVE  SweepInv'
    BY <1>6 DEF SweepInv
  <1> HIDE DEF n, m
  <1>a. ASSUME NEW d \in Devices, Select(d) PROVE SweepInv'
    <2>1. Click /\ UNCHANGED sweepVars
      BY <1>a DEF Select
    <2>2. /\ newest'["sweep"] = newest["sweep"]
          /\ "sweep" \in late' <=> "sweep" \in late
      <3>1. CASE d \in list
        BY <1>2, <1>3, <1>a, <2>1, <3>1, StartedFacts DEF Select
      <3>2. CASE d \notin list
        BY <1>2, <1>3, <1>a, <2>1, <3>2, TakesEffectFacts DEF Select
      <3>3. QED
        BY <3>1, <3>2
    <2>3. QED
      BY <1>2, <2>1, <2>2, SameSweep DEF sweepVars
  <1>b. ASSUME NEW d \in Devices, AddDevice(d) PROVE SweepInv'
    BY <1>2, <1>b, SameSweep DEF AddDevice, sweepVars, historyVars
  <1>c. CASE DeleteDevice
    BY <1>2, <1>c, SameSweep DEF DeleteDevice, sweepVars, historyVars
  <1>d. CASE Configured
    <2>1. newest'["sweep"] = newest["sweep"] /\ late' = late
      BY <1>2, <1>3, <1>d, StartedFacts DEF Configured, LoadDevices
    <2>2. QED
      BY <1>2, <1>d, <2>1, SameSweep DEF Configured, sweepVars
  <1>u. CASE TokenRefreshed
    <2>1. newest'["sweep"] = newest["sweep"] /\ late' = late
      BY <1>2, <1>3, <1>u, StartedFacts DEF TokenRefreshed, LoadDevices
    <2>2. QED
      BY <1>2, <1>u, <2>1, SameSweep DEF TokenRefreshed, sweepVars
  <1>e. CASE DevicesArrive
    <2>1. PICK r \in listLoads :
            Answered("list", r.id) /\ UNCHANGED <<sweepVars, clicks>>
      BY <1>e DEF DevicesArrive
    <2>2. r.id \in Nat
      BY <1>1, <2>1 DEF ListTypes, Ids
    <2>3. /\ newest'["sweep"] = newest["sweep"]
          /\ "sweep" \in late' <=> "sweep" \in late
      BY <1>3, <2>1, <2>2, AnsweredFacts
    <2>4. QED
      BY <1>1, <1>2, <2>1, <2>3, SameSweep DEF sweepVars
  <1>f. CASE DevicesFail
    <2>1. PICK r \in listLoads :
            RequestFailed("list", r.id) /\ UNCHANGED <<sweepVars, clicks>>
      BY <1>f DEF DevicesFail
    <2>2. r.id \in Nat
      BY <1>1, <2>1 DEF ListTypes, Ids
    <2>3. newest'["sweep"] = newest["sweep"] /\ late' = late
      BY <1>3, <2>1, <2>2, RequestFailedFacts
    <2>4. QED
      BY <1>1, <1>2, <2>1, <2>3, SameSweep DEF sweepVars
  <1>g. CASE ScanNetwork
    <2>1. /\ clicks' = clicks + 1 /\ clicks' \in Ids
          /\ foundId' = 0 /\ overlap' = (sweeps # {}) /\ sweeps' = sweeps \union {clicks'}
          /\ UNCHANGED late
      BY <1>2, <1>g DEF ScanNetwork
    <2>2. m.id = clicks' /\ ~m.failed /\ m.answered = n.answered
      BY <1>3, <1>g, <2>1, StartedFacts DEF ScanNetwork, n, m
    <2>3. m.id <= clicks' /\ m.answered <= clicks' /\ m.answered # m.id
      BY <1>3, <1>4, <1>5, <2>1, <2>2
    <2>4. \A id \in sweeps' : id <= m.id /\ m.answered <= m.id
      BY <1>3, <1>4, <1>5, <2>1, <2>2
    <2>5. ~overlap' => sweeps' = {m.id}
      BY <2>1, <2>2
    <2>6. QED
      BY <1>6, <2>1, <2>2, <2>3, <2>4, <2>5
  <1>h. CASE SweepCompletes
    <2>1. PICK id \in sweeps :
            /\ foundId' = id /\ sweeps' = sweeps \ {id}
            /\ Answered("sweep", id)
            /\ UNCHANGED <<overlap, clicks>>
      BY <1>h DEF SweepCompletes
    <2>2. id \in Nat /\ id <= n.id
      BY <1>4, <1>5, <2>1
    <2>3. /\ m.id = n.id /\ m.failed = n.failed
          /\ m.answered = IF id > n.answered THEN id ELSE n.answered
          /\ "sweep" \in late' <=> id < n.answered
      BY <1>3, <2>1, <2>2, AnsweredFacts DEF n, m
    <2>4. m.id <= clicks' /\ m.answered <= clicks'
      BY <1>3, <1>4, <1>5, <2>1, <2>2, <2>3
    <2>5. /\ \A k \in sweeps' : k <= m.id /\ m.answered <= m.id
          /\ m.id \in sweeps' => ~m.failed
      BY <1>5, <2>1, <2>2, <2>3
    <2>6. ~overlap' => /\ sweeps' \subseteq {m.id}
                       /\ foundId' = IF m.id \in sweeps' \/ m.failed THEN 0 ELSE m.id
      BY <1>5, <2>1, <2>3
    <2>7. m.answered = m.id /\ "sweep" \notin late' => foundId' = m.id
      BY <1>3, <2>1, <2>2, <2>3
    <2>8. m.id \notin sweeps' /\ ~m.failed => m.answered = m.id
      <3> SUFFICES ASSUME m.id \notin sweeps', ~m.failed PROVE m.answered = m.id
        OBVIOUS
      <3>1. CASE id = n.id
        <4>1. n.answered <= n.id
          BY <1>5, <2>1
        <4>2. QED
          BY <1>3, <2>2, <2>3, <3>1, <4>1
      <3>2. CASE id # n.id
        <4>1. n.id \notin sweeps /\ n.answered = n.id
          BY <1>5, <2>1, <2>3, <3>2
        <4>2. QED
          BY <1>3, <2>2, <2>3, <4>1
      <3>3. QED
        BY <3>1, <3>2
    <2>9. QED
      BY <1>6, <2>4, <2>5, <2>6, <2>7, <2>8
  <1>i. CASE SweepFails
    <2>1. PICK id \in sweeps :
            /\ sweeps' = sweeps \ {id}
            /\ RequestFailed("sweep", id)
            /\ UNCHANGED <<overlap, foundId, clicks>>
      BY <1>i DEF SweepFails
    <2>2. id \in Nat /\ id <= n.id
      BY <1>4, <1>5, <2>1
    <2>3. /\ m.id = n.id /\ m.answered = n.answered /\ late' = late
          /\ m.failed = (n.failed \/ n.id = id)
      BY <1>3, <2>1, <2>2, RequestFailedFacts DEF n, m
    <2>4. /\ \A k \in sweeps' : k <= m.id /\ m.answered <= m.id
          /\ m.id \in sweeps' => ~m.failed
      BY <1>5, <2>1, <2>3
    <2>5. ~overlap' => /\ sweeps' \subseteq {m.id}
                       /\ foundId' = IF m.id \in sweeps' \/ m.failed THEN 0 ELSE m.id
      BY <1>5, <2>1, <2>3
    <2>6. m.id \notin sweeps' /\ ~m.failed
            => m.answered = m.id \/ (foundId' = m.id /\ sweeps' = {})
      BY <1>5, <2>1, <2>3
    <2>7. QED
      BY <1>5, <1>6, <2>1, <2>3, <2>4, <2>5, <2>6
  <1>j. CASE SearchOtherwise
    BY <1>2, <1>j, SameSweep DEF SearchOtherwise, historyVars
  <1>k. CASE DetailsArrive
    <2>1. PICK r \in detailLoads :
            Answered("detail", r.id) /\ UNCHANGED <<sweepVars, clicks>>
      BY <1>k DEF DetailsArrive
    <2>2. r.id \in Nat
      BY <1>1, <2>1 DEF SelectionTypes
    <2>3. /\ newest'["sweep"] = newest["sweep"]
          /\ "sweep" \in late' <=> "sweep" \in late
      BY <1>3, <2>1, <2>2, AnsweredFacts
    <2>4. QED
      BY <1>1, <1>2, <2>1, <2>3, SameSweep DEF sweepVars
  <1>l. CASE DetailsFail
    <2>1. PICK r \in detailLoads :
            RequestFailed("detail", r.id) /\ UNCHANGED <<sweepVars, clicks>>
      BY <1>l DEF DetailsFail
    <2>2. r.id \in Nat
      BY <1>1, <2>1 DEF SelectionTypes
    <2>3. newest'["sweep"] = newest["sweep"] /\ late' = late
      BY <1>3, <2>1, <2>2, RequestFailedFacts
    <2>4. QED
      BY <1>1, <1>2, <2>1, <2>3, SameSweep DEF sweepVars
  <1>m. CASE Deselect
    <2>1. /\ newest'["sweep"] = newest["sweep"]
          /\ "sweep" \in late' <=> "sweep" \in late
      BY <1>2, <1>3, <1>m, TakesEffectFacts DEF Deselect
    <2>2. QED
      BY <1>2, <1>m, <2>1, SameSweep DEF Deselect, sweepVars
  <1>n. CASE ShowComponents
    BY <1>1, <1>2, <1>n, SameSweep DEF ShowComponents, sweepVars, historyVars
  <1>o. CASE Revisit
    <2>1. /\ clicks' = clicks + 1 /\ foundId' = 0 /\ overlap' = FALSE /\ late' = {}
          /\ sweeps' = IF swept THEN {clicks'} ELSE {}
          /\ m = [id |-> IF swept THEN clicks' ELSE 0, failed |-> FALSE,
                  answered |-> clicks]
      BY <1>2, <1>o DEF Revisit, m
    <2>2. m.id <= clicks' /\ m.answered <= clicks'
      BY <1>4, <2>1
    <2>3. \A id \in sweeps' : id <= m.id /\ m.answered <= m.id
      BY <1>4, <2>1
    <2>4. m.answered = m.id => foundId' = m.id
      BY <1>4, <2>1
    <2>5. swept => m.id \in sweeps' /\ sweeps' = {m.id}
      BY <2>1
    <2>6. ~swept => m.id = 0 /\ sweeps' = {}
      BY <2>1
    <2>7. ~m.failed
      BY <2>1
    <2>8. QED
      BY <1>6, <2>1, <2>2, <2>3, <2>4, <2>5, <2>6, <2>7
  <1>p. CASE RunDeepScan
    BY <1>2, <1>p, SameSweep DEF RunDeepScan, sweepVars, historyVars
  <1>q. CASE InfoArrives
    BY <1>1, <1>2, <1>q, SameSweep DEF InfoArrives, sweepVars, historyVars
  <1>r. CASE InfoFails
    BY <1>1, <1>2, <1>r, SameSweep DEF InfoFails, sweepVars, historyVars
  <1>s. CASE CpuPushed
    BY <1>1, <1>2, <1>s, SameSweep DEF CpuPushed, sweepVars, historyVars
  <1>t. CASE UNCHANGED vars
    BY <1>1, <1>2, <1>t, SameSweep DEF vars, sweepVars, historyVars
  <1>7. QED
    BY <1>a, <1>b, <1>c, <1>d, <1>e, <1>f, <1>g, <1>h, <1>i, <1>j, <1>k, <1>l, <1>m,
       <1>n, <1>o, <1>p, <1>q, <1>r, <1>s, <1>t, <1>u DEF Next

-----------------------------------------------------------------------------
(* The list. *)

LEMMA ListInit == Init => ListInv
  <1> SUFFICES ASSUME Init PROVE ListInv
    OBVIOUS
  <1>1. newest["list"] = [id |-> 1, failed |-> FALSE, answered |-> 0]
    BY KindsDiffer DEF Init
  <1>2. /\ \A r \in listLoads : r.id <= 1 /\ r.seen = {registered}
        /\ \E r \in listLoads : r.id = 1
    <2>1. listLoads = {[id |-> id, seen |-> {registered}] : id \in {0, 1}}
      BY DEF Init
    <2>2. [id |-> 1, seen |-> {registered}] \in listLoads
      BY <2>1
    <2>3. \E r \in listLoads : r.id = 1
      <3>1. [id |-> 1, seen |-> {registered}].id = 1
        OBVIOUS
      <3>2. QED
        BY <2>2, <3>1
    <2>4. \A r \in listLoads : r.id <= 1 /\ r.seen = {registered}
      BY <2>1
    <2>5. QED
      BY <2>3, <2>4
  <1>3. list = {} /\ unseen = FALSE /\ clicks = 1
    BY DEF Init
  <1>4. QED
    BY <1>1, <1>2, <1>3 DEF ListInv

\* What neither loads the list nor changes the backend changes nothing.
LEMMA SameLoads ==
    ASSUME TypeInv, ListInv, clicks' \in Ids, clicks <= clicks',
           UNCHANGED listVars,
           newest'["list"] = newest["list"],
           "list" \in late' <=> "list" \in late
    PROVE  ListInv'
  <1>1. /\ newest["list"].id \in Nat /\ clicks \in Nat /\ clicks' \in Nat
    BY TypeParts, KindsDiffer, DevicePageAssumption DEF HistoryTypes, Histories, Ids
  <1>2. newest["list"].id <= clicks'
    BY <1>1 DEF ListInv
  <1>3. QED
    BY <1>2 DEF ListInv, listVars

\* The last of the new requests is the newest, and all see the backend's devices.
LEMMA LoadDevicesList ==
    ASSUME TypeInv, ListInv, clicks' \in Ids, clicks' = clicks + 1,
           NEW ids \in SUBSET {clicks, clicks'}, clicks' \in ids, LoadDevices(ids)
    PROVE  ListInv'
  <1> DEFINE n == newest["list"]
             m == newest'["list"]
             new(id) == [id |-> id, seen |-> {registered}]
  <1>1. /\ newest \in Histories /\ n.id \in Nat /\ n.answered \in Nat
        /\ clicks \in Nat /\ \A r \in listLoads : r.id \in Nat
    BY TypeParts, KindsDiffer, DevicePageAssumption
       DEF HistoryTypes, ListTypes, Histories, Ids
  <1>2. /\ n.id <= clicks /\ n.answered <= n.id /\ \A r \in listLoads : r.id <= n.id
    BY DEF ListInv
  <1>3. /\ listLoads' = listLoads \union {new(id) : id \in ids} /\ unseen' = FALSE
        /\ Started("list") /\ UNCHANGED <<registered, list, late>>
    BY DEF LoadDevices
  <1>4. m.id = clicks' /\ m.answered = n.answered
    BY <1>1, <1>3, StartedFacts, KindsDiffer
  <1> HIDE DEF n, m
  <1>5. m.id <= clicks' /\ m.answered <= m.id /\ m.answered # m.id
    BY <1>1, <1>2, <1>4
  <1>6. \A r \in listLoads' : r.id <= m.id /\ (r.id = m.id => r.seen = {registered'})
    BY <1>1, <1>2, <1>3, <1>4
  <1>7. \E r \in listLoads' : r.id = m.id
    <2>1. new(clicks').id = m.id
      BY <1>4
    <2>2. new(clicks') \in listLoads'
      BY <1>3
    <2>3. QED
      BY <2>1, <2>2
  <1>8. QED
    BY <1>5, <1>6, <1>7 DEF ListInv, m

\* A change of the backend is unseen until the next request.
LEMMA BackendBecomesList ==
    ASSUME TypeInv, ListInv, clicks' \in Ids, clicks <= clicks',
           NEW devices, BackendBecomes(devices), UNCHANGED historyVars
    PROVE  ListInv'
  <1>1. /\ newest["list"].id \in Nat /\ clicks \in Nat /\ clicks' \in Nat
        /\ listLoads \subseteq [id : Ids, seen : SUBSET SUBSET Devices]
    BY TypeParts, KindsDiffer, DevicePageAssumption
       DEF HistoryTypes, ListTypes, Histories, Ids
  <1>2. newest["list"].id <= clicks'
    BY <1>1 DEF ListInv
  <1>3. /\ listLoads' = {[r EXCEPT !.seen = @ \union {devices}] : r \in listLoads}
        /\ unseen' /\ newest' = newest
    BY DEF BackendBecomes, historyVars
  <1>4. \A r \in listLoads : r.id <= newest["list"].id
    BY DEF ListInv
  <1>5. \A r \in listLoads : [r EXCEPT !.seen = @ \union {devices}].id = r.id
    BY <1>1
  <1>6. \A q \in listLoads' : q.id <= newest["list"].id
    BY <1>3, <1>4, <1>5
  <1>7. newest["list"].answered <= newest["list"].id
    BY DEF ListInv
  <1>8. QED
    BY <1>2, <1>3, <1>6, <1>7 DEF ListInv

LEMMA ListStep == TypeInv /\ ListInv /\ [Next]_vars => ListInv'
  <1> SUFFICES ASSUME TypeInv, ListInv, [Next]_vars PROVE ListInv'
    OBVIOUS
  <1> USE DevicePageAssumption, KindsDiffer
  <1> DEFINE n == newest["list"]
             m == newest'["list"]
  <1>1. ListTypes /\ SweepTypes /\ SelectionTypes /\ HistoryTypes /\ clicks \in Ids
    BY TypeParts
  <1>2. /\ Click => clicks' = clicks + 1 /\ clicks' \in Ids /\ clicks <= clicks'
        /\ clicks <= clicks
    BY <1>1, ClickFacts DEF Ids
  <1>3. /\ newest \in Histories /\ late \subseteq Kinds
        /\ n.id \in Nat /\ n.answered \in Nat /\ n.failed \in BOOLEAN
    BY <1>1 DEF HistoryTypes, Histories
  <1>4. clicks \in Nat /\ \A r \in listLoads : r.id \in Nat
    BY <1>1 DEF ListTypes, Ids
  <1>5. /\ n.id <= clicks /\ n.answered <= n.id
        /\ \A r \in listLoads : r.id <= n.id
        /\ ~unseen => \A r \in listLoads : r.id = n.id => r.seen = {registered}
        /\ ~unseen /\ ~n.failed /\ (\A r \in listLoads : r.id # n.id)
             => n.answered = n.id
        /\ ~unseen /\ n.answered = n.id /\ "list" \notin late => list = registered
    BY DEF ListInv
  <1>6. ASSUME m.id <= clicks', m.answered <= m.id,
               \A r \in listLoads' : r.id <= m.id,
               ~unseen' => \A r \in listLoads' : r.id = m.id => r.seen = {registered'},
               ~unseen' /\ ~m.failed /\ (\A r \in listLoads' : r.id # m.id)
                 => m.answered = m.id,
               ~unseen' /\ m.answered = m.id /\ "list" \notin late'
                 => list' = registered'
        PROVE  ListInv'
    BY <1>6 DEF ListInv
  <1> HIDE DEF n, m
  <1>a. ASSUME NEW d \in Devices, Select(d) PROVE ListInv'
    <2>1. Click /\ UNCHANGED listVars
      BY <1>a DEF Select
    <2>2. newest'["list"] = newest["list"] /\ ("list" \in late' <=> "list" \in late)
      <3>1. CASE d \in list
        BY <1>2, <1>3, <1>a, <2>1, <3>1, StartedFacts DEF Select
      <3>2. CASE d \notin list
        BY <1>2, <1>3, <1>a, <2>1, <3>2, TakesEffectFacts DEF Select
      <3>3. QED
        BY <3>1, <3>2
    <2>3. QED
      BY <1>2, <2>1, <2>2, SameLoads
  <1>b. ASSUME NEW d \in Devices, AddDevice(d) PROVE ListInv'
    BY <1>2, <1>b, BackendBecomesList DEF AddDevice
  <1>c. CASE DeleteDevice
    BY <1>2, <1>c, BackendBecomesList DEF DeleteDevice
  <1>d. CASE Configured
    BY <1>2, <1>d, LoadDevicesList DEF Configured
  <1>u. CASE TokenRefreshed
    BY <1>2, <1>u, LoadDevicesList DEF TokenRefreshed
  <1>e. CASE DevicesArrive
    <2>1. PICK r \in listLoads, devices \in SUBSET Devices :
            /\ devices \in r.seen /\ list' = devices
            /\ listLoads' = listLoads \ {r}
            /\ Answered("list", r.id)
            /\ UNCHANGED <<registered, unseen, clicks>>
      BY <1>e DEF DevicesArrive
    <2>2. r.id \in Nat /\ r.id <= n.id
      BY <1>4, <1>5, <2>1
    <2>3. /\ m.id = n.id /\ m.failed = n.failed
          /\ m.answered = IF r.id > n.answered THEN r.id ELSE n.answered
          /\ "list" \in late' <=> r.id < n.answered
      BY <1>3, <2>1, <2>2, AnsweredFacts DEF n, m
    <2>4. m.id <= clicks' /\ m.answered <= m.id
      BY <1>3, <1>5, <2>1, <2>2, <2>3
    <2>5. /\ \A q \in listLoads' : q.id <= m.id
          /\ ~unseen' => \A q \in listLoads' : q.id = m.id => q.seen = {registered'}
      BY <1>5, <2>1, <2>3
    <2>6. CASE r.id = n.id
      <3>1. m.answered = m.id
        BY <1>3, <1>5, <2>2, <2>3, <2>6
      <3>2. ~unseen' => list' = registered'
        BY <1>5, <2>1, <2>6
      <3>3. QED
        BY <1>6, <2>4, <2>5, <3>1, <3>2
    <2>7. CASE r.id # n.id
      <3>1. r.id < n.id
        BY <1>3, <2>2, <2>7
      <3>2. ~unseen' /\ ~m.failed /\ (\A q \in listLoads' : q.id # m.id)
              => m.answered = m.id
        <4> SUFFICES ASSUME ~unseen', ~m.failed, \A q \in listLoads' : q.id # m.id
                     PROVE  m.answered = m.id
          OBVIOUS
        <4>1. \A q \in listLoads : q.id # n.id
          BY <2>1, <2>3, <2>7
        <4>2. n.answered = n.id
          BY <1>5, <2>1, <2>3, <4>1
        <4>3. QED
          BY <1>3, <2>2, <2>3, <3>1, <4>2
      <3>3. m.answered = m.id => "list" \in late'
        BY <1>3, <2>2, <2>3, <3>1
      <3>4. QED
        BY <1>6, <2>4, <2>5, <3>2, <3>3
    <2>8. QED
      BY <2>6, <2>7
  <1>f. CASE DevicesFail
    <2>1. PICK r \in listLoads :
            /\ listLoads' = listLoads \ {r}
            /\ RequestFailed("list", r.id)
            /\ UNCHANGED <<registered, list, unseen, clicks>>
      BY <1>f DEF DevicesFail
    <2>2. r.id \in Nat
      BY <1>4, <2>1
    <2>3. /\ m.id = n.id /\ m.answered = n.answered /\ late' = late
          /\ m.failed = (n.failed \/ n.id = r.id)
      BY <1>3, <2>1, <2>2, RequestFailedFacts DEF n, m
    <2>4. ~unseen' /\ ~m.failed /\ (\A q \in listLoads' : q.id # m.id)
            => m.answered = m.id
      BY <1>5, <2>1, <2>3
    <2>5. QED
      BY <1>5, <1>6, <2>1, <2>3, <2>4
  <1>g. CASE ScanNetwork
    <2>1. newest'["list"] = newest["list"] /\ late' = late
      BY <1>2, <1>3, <1>g, StartedFacts DEF ScanNetwork
    <2>2. QED
      BY <1>2, <1>g, <2>1, SameLoads DEF ScanNetwork
  <1>h. CASE SweepCompletes
    <2>1. PICK id \in sweeps : Answered("sweep", id) /\ UNCHANGED <<listVars, clicks>>
      BY <1>h DEF SweepCompletes
    <2>2. id \in Nat
      BY <1>1, <2>1 DEF SweepTypes
    <2>3. newest'["list"] = newest["list"] /\ ("list" \in late' <=> "list" \in late)
      BY <1>3, <2>1, <2>2, AnsweredFacts
    <2>4. QED
      BY <1>1, <1>2, <2>1, <2>3, SameLoads
  <1>i. CASE SweepFails
    <2>1. PICK id \in sweeps :
            RequestFailed("sweep", id) /\ UNCHANGED <<listVars, clicks>>
      BY <1>i DEF SweepFails
    <2>2. id \in Nat
      BY <1>1, <2>1 DEF SweepTypes
    <2>3. newest'["list"] = newest["list"] /\ late' = late
      BY <1>3, <2>1, <2>2, RequestFailedFacts
    <2>4. QED
      BY <1>1, <1>2, <2>1, <2>3, SameLoads
  <1>j. CASE SearchOtherwise
    BY <1>2, <1>j, SameLoads DEF SearchOtherwise, historyVars
  <1>k. CASE DetailsArrive
    <2>1. PICK r \in detailLoads :
            Answered("detail", r.id) /\ UNCHANGED <<listVars, clicks>>
      BY <1>k DEF DetailsArrive
    <2>2. r.id \in Nat
      BY <1>1, <2>1 DEF SelectionTypes
    <2>3. newest'["list"] = newest["list"] /\ ("list" \in late' <=> "list" \in late)
      BY <1>3, <2>1, <2>2, AnsweredFacts
    <2>4. QED
      BY <1>1, <1>2, <2>1, <2>3, SameLoads
  <1>l. CASE DetailsFail
    <2>1. PICK r \in detailLoads :
            RequestFailed("detail", r.id) /\ UNCHANGED <<listVars, clicks>>
      BY <1>l DEF DetailsFail
    <2>2. r.id \in Nat
      BY <1>1, <2>1 DEF SelectionTypes
    <2>3. newest'["list"] = newest["list"] /\ late' = late
      BY <1>3, <2>1, <2>2, RequestFailedFacts
    <2>4. QED
      BY <1>1, <1>2, <2>1, <2>3, SameLoads
  <1>m. CASE Deselect
    <2>1. newest'["list"] = newest["list"] /\ ("list" \in late' <=> "list" \in late)
      BY <1>2, <1>3, <1>m, TakesEffectFacts DEF Deselect
    <2>2. QED
      BY <1>2, <1>m, <2>1, SameLoads DEF Deselect
  <1>n. CASE ShowComponents
    BY <1>1, <1>2, <1>n, SameLoads DEF ShowComponents, historyVars
  <1>o. CASE Revisit
    <2>1. /\ clicks' = clicks + 1 /\ unseen' = FALSE /\ UNCHANGED registered
          /\ listLoads' = {[id |-> id, seen |-> {registered}] : id \in {clicks, clicks'}}
          /\ m = [id |-> clicks', failed |-> FALSE, answered |-> clicks]
      BY <1>2, <1>o DEF Revisit, m
    <2>2. m.id <= clicks' /\ m.answered <= m.id /\ m.answered # m.id
      BY <1>4, <2>1
    <2>3. \A r \in listLoads' : r.id <= m.id /\ r.seen = {registered'}
      BY <1>4, <2>1
    <2>4. [id |-> clicks', seen |-> {registered}] \in listLoads'
      BY <2>1
    <2>5. \E r \in listLoads' : r.id = m.id
      BY <2>1, <2>4
    <2>6. QED
      BY <1>6, <2>2, <2>3, <2>5
  <1>p. CASE RunDeepScan
    BY <1>2, <1>p, SameLoads DEF RunDeepScan, historyVars
  <1>q. CASE InfoArrives
    BY <1>1, <1>2, <1>q, SameLoads DEF InfoArrives, historyVars
  <1>r. CASE InfoFails
    BY <1>1, <1>2, <1>r, SameLoads DEF InfoFails, historyVars
  <1>s. CASE CpuPushed
    BY <1>1, <1>2, <1>s, SameLoads DEF CpuPushed, historyVars
  <1>t. CASE UNCHANGED vars
    BY <1>1, <1>2, <1>t, SameLoads DEF vars, historyVars
  <1>7. QED
    BY <1>a, <1>b, <1>c, <1>d, <1>e, <1>f, <1>g, <1>h, <1>i, <1>j, <1>k, <1>l, <1>m,
       <1>n, <1>o, <1>p, <1>q, <1>r, <1>s, <1>t, <1>u DEF Next

-----------------------------------------------------------------------------
(* The theorems. *)

LEMMA InvariantInit == Init => IInv
  BY InitTypes, InfoInit, DetailInit, SweepInit, ListInit DEF IInv

LEMMA InvariantStep == IInv /\ [Next]_vars => IInv'
  BY StepTypes, InfoStep, DetailStep, SweepStep, ListStep DEF IInv

LEMMA Invariant == Spec => []IInv
  BY InvariantInit, InvariantStep, PTL DEF Spec

\* The page's state has its types: a selection is a device and where it comes
\* from, or none (DevicesPage), whatever was clicked and whatever came when.
THEOREM TypeCorrect == Spec => []TypeOK
  <1>1. IInv => TypeOK
    BY DEF IInv, TypeInv
  <1>2. QED
    BY <1>1, Invariant, PTL

\* Info shows nothing of a device but the selected one's, or what was already
\* on its way when Info went over to the selected one (the effect on
\* ip_address of Info, useDeviceDeepScan, useDeviceStatus).
THEOREM InfoIsOfSelected == Spec => []InfoOfSelected
  <1>1. IInv => InfoOfSelected
    BY DEF IInv, InfoInv
  <1>2. QED
    BY <1>1, Invariant, PTL

\* With no details on their way, the selected device is the one of the last
\* click, unless its details failed or an older click's came last
\* (handleDeviceSelect, handleDeviceDeselect).
THEOREM SelectionIsWanted == Spec => []SelectedIsWanted
  <1>1. IInv => SelectedIsWanted
    <2> SUFFICES ASSUME IInv, detailLoads = {}, ~newest["detail"].failed,
                        "detail" \notin late
                 PROVE  selected.device = choice.device
      BY DEF SelectedIsWanted
    <2>1. /\ selectedId \in Nat /\ choice.id \in Nat
          /\ newest["detail"].answered \in Nat
      BY TypeParts, KindsDiffer, DevicePageAssumption
         DEF IInv, SelectionTypes, HistoryTypes, Histories, Ids
    <2>2. /\ selectedId <= choice.id /\ selectedId >= newest["detail"].answered
          /\ newest["detail"].answered >= choice.id \/ selectedId = choice.id
          /\ selectedId = choice.id => selected.device = choice.device
      BY DEF IInv, DetailInv
    <2>3. selectedId = choice.id
      BY <2>1, <2>2
    <2>4. QED
      BY <2>2, <2>3
  <1>2. QED
    BY <1>1, Invariant, PTL

\* With no sweep running, what is listed as found is the newest sweep's, or
\* nothing if it failed, unless it began while another one was running
\* (scanNetwork, pollScanStatus).
THEOREM FoundIsOfNewest == Spec => []FoundIsNewest
  <1>1. IInv => FoundIsNewest
    <2> SUFFICES ASSUME IInv, sweeps = {} PROVE FoundIsNewest
      BY DEF FoundIsNewest
    <2>1. SweepInv /\ newest["sweep"].failed \in BOOLEAN
      BY KindsDiffer, TypeParts DEF IInv, HistoryTypes, Histories
    <2>2. CASE ~overlap
      BY <2>1, <2>2 DEF SweepInv, FoundIsNewest
    <2>3. CASE overlap /\ ~newest["sweep"].failed /\ "sweep" \notin late
      BY <2>1, <2>3 DEF SweepInv, FoundIsNewest
    <2>4. CASE overlap /\ (newest["sweep"].failed \/ "sweep" \in late)
      BY <2>4 DEF FoundIsNewest
    <2>5. QED
      BY <2>1, <2>2, <2>3, <2>4 DEF TypeInv, IInv
  <1>2. QED
    BY <1>1, Invariant, PTL

\* With no request for the list on its way, it is the backend's, unless a
\* popup changed the backend since the newest request, that one failed, or an
\* older one was answered after it (fetchDevices, devicesRefreshKey).
THEOREM ListMatches == Spec => []ListIsRegistered
  <1>1. IInv => ListIsRegistered
    BY DEF IInv, ListInv, ListIsRegistered
  <1>2. QED
    BY <1>1, Invariant, PTL
=============================================================================
