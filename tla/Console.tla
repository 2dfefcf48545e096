------------------------------ MODULE Console ------------------------------
(***************************************************************************)
(* The frontend from the session to the rows on the screen: App, its       *)
(* header and popups, the tables and the statistics, and the hooks that    *)
(* fetch for them.  A click is an action: the handler, the render and the  *)
(* effects that the render runs.  The answers to the requests in flight    *)
(* come in any order, or as failures; a view that has left the screen no   *)
(* longer hears of them.  The views and buttons are declared in Views, the *)
(* filter popups in FilterPanel.                                           *)
(***************************************************************************)
EXTENDS Views, FilterPanel

CONSTANTS MaxClicks,   \* bound: the clicks that change what is fetched or drawn
          MaxAsked,    \* bound: option requests in flight
          MaxPage,     \* pages of an unrestricted result
          EmptyRanges, \* the ranges nothing falls in (0 is no range at all)
          EmptyFilters, \* the filters nothing matches
          StartRoutes  \* the paths the application may be opened at

ASSUME ConsoleAssumption ==
  /\ MaxClicks \in Nat /\ MaxAsked \in Nat /\ MaxPage \in Nat \ {0}
  /\ StartRoutes \subseteq Routes /\ EmptyRanges \subseteq Nat

VARIABLES
  session,   \* App: "user", "guest" or "login", the login page
  kc,        \* keycloak.authenticated
  route,     \* the path
  popup,     \* activePopup
  blank,     \* a render threw and React took the whole tree down
  range,     \* startTime and endTime: 0 for none, a new number per choice
  filters,   \* selectedFilters: one set for all the views
  columns,   \* App's lists: sets of [tag, object]
  page,      \* of the table on the route
  packets,   \* the columns counted in packets (metricMap of TrafficStatistics)
  hook,      \* [data, busy, error, total, requests] of the view on the route
  table,     \* EventsTable: [marks, order, picked, moved]; picked and moved
             \* are history: the rows clicked, and whether they moved since
  births,    \* mounts and reloads of SnmpTrapSignalTableTags: see PickColumn
  clicks,    \* bound: what the user has done
  late,      \* the keys whose data came after a newer request's answer
  newest,    \* how the newest request ended: "pending", "answered", "failed"
  masked,    \* a request failed while another was in flight, or after it
  paged      \* what the page was chosen from: "the count" of its query, an
             \* "outdated" count, or "another query" than the one now

appVars  == <<session, kc, route, popup, blank, range, filters, columns>>
viewVars == <<page, packets, hook, table, late, newest, masked, paged>>
vars == <<appVars, viewVars, panelVars, births, clicks>>

\* The answer of a request that failed, where an empty list stands for it.
FAILED == [key |-> "failed", page |-> 0, range |-> 0, filters |-> {},
           metric |-> "none"]
Metrics == {"bytes", "packets"}

View == ViewAt(route)

-----------------------------------------------------------------------------
(* What a view asks for.  `in` is what its effect reads: the page, the     *)
(* range, the filters, the tags of its columns, the metrics and the token. *)

NoFetch == [data |-> << >>, busy |-> << >>, error |-> FALSE, total |-> 0,
            requests |-> << >>]

TagsOf(list, lists) == IF list = NoList THEN {} ELSE {c.tag : c \in lists[list]}

Inputs == [page |-> page, range |-> range, filters |-> filters,
           tags |-> TagsOf(View.columns, columns), packets |-> packets,
           token |-> kc]

Keys(view, in) == CASE view.hook = "none" -> {}
                    [] view.hook \in {"rows", "updates"} -> {"rows"}
                    [] OTHER -> in.tags

Query(view, key, in) ==
  [key     |-> key,
   page    |-> IF "page" \in view.sends THEN in.page ELSE 0,
   range   |-> IF "range" \in view.sends THEN in.range ELSE 0,
   filters |-> IF "filters" \in view.sends THEN in.filters \intersect view.copies
               ELSE {},
   metric  |-> IF view.hook # "metric" THEN "none"
               ELSE IF key \in in.packets THEN "packets" ELSE "bytes"]

\* kcFetch refuses without a session.
Ask(view, keys, in) ==
  SetToSeq({[key |-> k, query |-> Query(view, k, in), refused |-> ~in.token,
             beaten |-> FALSE] : k \in keys})

NoMatch(query) == \/ query.range \in EmptyRanges
                  \/ query.filters \intersect EmptyFilters # {}

\* Mutant: one page too many.
PageCountRoundedUp(query) ==
  IF query.filters = {} /\ query.range = 0 THEN MaxPage + 1 ELSE 2

\* Math.ceil of the backend's count over the page size: an empty result has 0
\* pages, and any other restriction is taken to leave one.
PageCount(query) == CASE NoMatch(query) -> 0
                      [] ~NoMatch(query) /\ query.filters = {} /\ query.range = 0
                           -> MaxPage
                      [] OTHER -> 1

\* Mutant: a new request leaves the error of the last one.
LoadRowsKeepsError(h, view, in) ==
  IF ~in.token THEN h
  ELSE [h EXCEPT !.data = << >>, !.busy = [k \in {"rows"} |-> TRUE],
                 !.requests = @ \o Ask(view, {"rows"}, in)]

\* useFaultData and useSignalData: loadData.  Without a session it returns
\* before it touches anything.
LoadRows(h, view, in) ==
  IF ~in.token THEN h
  ELSE [h EXCEPT !.data = << >>, !.busy = [k \in {"rows"} |-> TRUE],
                 !.error = FALSE,
                 !.requests = @ \o Ask(view, {"rows"}, in)]

\* useBgpLinkStateData: the rows shown before stay until the answer.
LoadUpdates(h, view, in) ==
  IF ~in.token THEN h
  ELSE [h EXCEPT !.busy = [k \in {"rows"} |-> TRUE], !.error = FALSE,
                 !.requests = @ \o Ask(view, {"rows"}, in)]

\* The event and traffic statistics: every column is asked for again, and what
\* is kept of the others goes.
LoadAll(h, view, in) ==
  IF in.tags = {} THEN h
  ELSE [h EXCEPT !.busy = [k \in in.tags |-> TRUE],
                 !.data = Restrict(@, DOMAIN @ \intersect in.tags),
                 !.requests = @ \o Ask(view, in.tags, in)]

\* What a panel adds as a string where the columns are objects: its tag.value is
\* undefined, which no key of the data equals.
StringColumns == {"LSN"}

\* The signal statistics: the columns neither loaded nor loading.  Whatever is
\* kept of a string column is forgotten, after it was found not to be missing.
LoadMissing(h, view, in) ==
  LET Loading(k) == k \in DOMAIN h.busy /\ h.busy[k]
      missing == {k \in in.tags : k \notin DOMAIN h.data /\ ~Loading(k)}
      kept    == in.tags \ StringColumns
      busy    == [k \in DOMAIN h.busy \union missing |->
                    k \in missing \/ h.busy[k]]
  IN IF in.tags = {} THEN h
     ELSE [h EXCEPT !.busy = Restrict(busy, DOMAIN busy \intersect kept),
                    !.data = Restrict(@, DOMAIN @ \intersect kept),
                    !.requests = @ \o Ask(view, missing, in)]

Run(h, view, in) ==
  CASE view.hook = "rows"    -> LoadRows(h, view, in)
    [] view.hook = "updates" -> LoadUpdates(h, view, in)
    [] view.hook \in {"all", "metric"} -> LoadAll(h, view, in)
    [] view.hook = "missing" -> LoadMissing(h, view, in)
    [] OTHER                 -> h

\* The effects after a change of `changed`.  TrafficStatistics replaces its
\* metricMap whenever its columns are given, and so loads twice; the topology
\* table asks for the page it is about to leave, and then for page 1.
Effects(h, view, in, changed) ==
  IF changed \intersect view.reruns = {} THEN h
  ELSE IF view.hook = "metric" /\ "columns" \in changed
       THEN Run(Run(h, view, in), view, in)
  ELSE IF changed \intersect view.resets # {} /\ in.page # 1
       THEN Run(Run(h, view, in), view, [in EXCEPT !.page = 1])
  ELSE Run(h, view, in)

-----------------------------------------------------------------------------
(* What one action does to the screen. *)

FreshTable == [marks |-> {}, order |-> "given", picked |-> {},
               moved |-> FALSE]

\* EventsTable is on the screen when nothing loads and nothing failed.
TableDrawn(h) == ~h.error /\ \A k \in DOMAIN h.busy : ~h.busy[k]

\* Gone from the screen, the table forgets its marks.
TableAfter(h) == IF TableDrawn(h) THEN table ELSE FreshTable

\* SnmpTrapSignalStatistics calls charAt on its columns, which are objects;
\* SnmpTrapSignalFilters maps over a prop nobody passes.
RenderThrows(r, p, lists) ==
  \/ /\ ViewAt(r).charts.heading = "column.charAt"
     /\ TagsOf(ViewAt(r).columns, lists) # {}
  \/ PanelOf(p) \in ThrowingPanels

Shows(r, p, lists) == blank' = RenderThrows(r, p, lists)

\* What a view reads when it is mounted, and the requests it starts with:
\* all its inputs are new to it.
FirstInputs(r, ran, fil, lists, token) ==
  [page |-> 1, range |-> ran, filters |-> fil,
   tags |-> TagsOf(ViewAt(r).columns, lists), packets |-> {}, token |-> token]

FirstFetch(r, in) == Effects(NoFetch, ViewAt(r), in, ViewAt(r).reruns)

MountView(r, ran, fil, lists, token) ==
  /\ page' = 1 /\ packets' = {} /\ table' = FreshTable
  /\ hook' = FirstFetch(r, FirstInputs(r, ran, fil, lists, token))
  /\ late' = {} /\ newest' = "pending" /\ masked' = FALSE /\ paged' = "the count"

\* Mutant: the page survives a change of what is asked.
RefetchKeepsPage(in, changed) ==
  LET run == Effects(hook, View, in, changed) IN
  /\ hook' = run
  /\ table' = TableAfter(run)
  /\ page' = in.page
  /\ packets' = in.packets
  /\ paged' = IF "page" \in changed
              THEN IF hook.requests = << >> /\ late = {} THEN "the count"
                   ELSE "outdated"
              ELSE IF changed \intersect View.resets # {} THEN "the count"
              ELSE IF changed \intersect View.sends # {} THEN "another query"
              ELSE paged
  /\ newest' = IF run = hook THEN newest ELSE "pending"
  /\ UNCHANGED <<late, masked>>

\* Some inputs of the view on the screen changed: `in` has them as they are now.
Refetch(in, changed) ==
  LET resets == changed \intersect View.resets # {}
      run == Effects(hook, View, in, changed) IN
  /\ hook' = run
  /\ table' = TableAfter(run)
  /\ page' = IF resets THEN 1 ELSE in.page
  /\ packets' = in.packets
  /\ paged' = IF "page" \in changed
              THEN IF hook.requests = << >> /\ late = {} THEN "the count"
                   ELSE "outdated"
              ELSE IF resets THEN "the count"
              ELSE IF changed \intersect View.sends # {} THEN "another query"
              ELSE paged
  /\ newest' = IF run = hook THEN newest ELSE "pending"
  /\ UNCHANGED <<late, masked>>

Clicked == /\ ~blank
           /\ clicks < MaxClicks
           /\ clicks' = clicks + 1

LoggedIn == session # "login"

\* A popup of App is opened or closed: what its panel kept is gone, and
\* SearchTime chooses the last hour as soon as it is mounted.
PopupBecomes(p) ==
  /\ popup' = p
  /\ PanelCloses
  /\ births' = IF PanelOf(p) = "trapSignalTable" THEN births + 1 ELSE births
  /\ range' = IF PanelOf(p) = "SearchTime" THEN range + 1 ELSE range
  /\ Shows(route, p, columns)
  /\ IF PanelOf(p) = "SearchTime"
     THEN Refetch([Inputs EXCEPT !.range = range + 1], {"range"})
     ELSE UNCHANGED viewVars

-----------------------------------------------------------------------------
(* The session. *)

DefaultColumns == [l \in Lists |-> {[tag |-> "device", object |-> 0]}]

\* index.js renders App once keycloak has authenticated.
Init == /\ route \in StartRoutes
        /\ session = "user" /\ kc = TRUE /\ popup = NoPopup
        /\ range = 0 /\ filters = {} /\ columns = DefaultColumns
        /\ blank = RenderThrows(route, NoPopup, DefaultColumns)
        /\ page = 1 /\ packets = {} /\ table = FreshTable
        /\ hook = FirstFetch(route, FirstInputs(route, 0, {}, DefaultColumns, TRUE))
        /\ late = {} /\ newest = "pending" /\ masked = FALSE /\ paged = "the count"
        /\ PanelClosed
        /\ births = 0 /\ clicks = 0

\* The page is loaded again, by the user or because keycloak.logout() has come
\* back from its redirect: everything but the path starts anew.
Reload ==
  /\ clicks < MaxClicks /\ clicks' = clicks + 1
  /\ session' = "user" /\ kc' = TRUE /\ popup' = NoPopup
  /\ range' = 0 /\ filters' = {} /\ columns' = DefaultColumns /\ births' = 0
  /\ Shows(route, NoPopup, DefaultColumns)
  /\ MountView(route, 0, {}, DefaultColumns, TRUE)
  /\ PanelCloses
  /\ UNCHANGED route

\* handleLogout, from the profile popup: the login page takes the place of
\* everything App draws; App itself, its popup included, stays as it was.
Logout ==
  /\ LoggedIn /\ popup = "user-profile" /\ Clicked
  /\ session' = "login" /\ route' = "login"
  /\ MountView("login", range, filters, columns, kc)
  /\ PanelCloses
  /\ UNCHANGED <<kc, popup, blank, range, filters, columns, births>>

\* handleGuestLogin: keycloak is not asked, and /login mounts no view.
GuestLogin ==
  /\ session = "login" /\ Clicked
  /\ session' = "guest"
  /\ Shows("login", popup, columns)
  /\ UNCHANGED <<kc, route, popup, range, filters, columns, births, viewVars,
                 panelVars>>

\* updateToken is refused and keycloak-js clears its token: no render follows.
SessionExpires ==
  /\ LoggedIn /\ kc /\ clicks < MaxClicks /\ clicks' = clicks + 1
  /\ kc' = FALSE
  /\ UNCHANGED <<session, route, popup, blank, range, filters, columns, births,
                 viewVars, panelVars>>

-----------------------------------------------------------------------------
(* The chrome. *)

Navigation(r) == /\ route' = r
                 /\ MountView(r, range, filters, columns, kc)

\* A header or sidebar button.  The mouse goes down outside the popup, which
\* closes it; the click that follows finds none open, so togglePopup opens the
\* one asked for, be it the one just closed.  Some device may be selected:
\* that is DevicePage's.
PressButton ==
  /\ LoggedIn /\ Clicked
  /\ \E button \in Buttons(route, TRUE) :
       IF button.goes = "stay"
       THEN /\ PopupBecomes(button.opens)
            /\ UNCHANGED <<session, kc, route, filters, columns>>
       ELSE /\ Navigation(button.goes)
            /\ popup' = NoPopup /\ PanelCloses
            /\ Shows(button.goes, NoPopup, columns)
            /\ UNCHANGED <<session, kc, range, filters, columns, births>>

\* The browser's back button reaches no handler of App: the popup stays.
Back(r) ==
  /\ LoggedIn /\ Clicked /\ popup # NoPopup
  /\ Navigation(r)
  /\ Shows(r, popup, columns)
  /\ UNCHANGED <<session, kc, popup, range, filters, columns, births, panelVars>>

\* handleClickOutside and handleEsc.
ClosePopup ==
  /\ LoggedIn /\ Clicked /\ popup # NoPopup
  /\ PopupBecomes(NoPopup)
  /\ UNCHANGED <<session, kc, route, filters, columns>>

\* What the list of hours and the calendar's Search button can make of the
\* range: the button may send the dates it already has.
RangesOffered == {range, range + 1}

\* handleTimeRangeSelect and handleSearch: new Date objects either way, which
\* the topology table alone compares by value.
ChooseRange ==
  /\ LoggedIn /\ PanelOf(popup) = "SearchTime" /\ Clicked
  /\ range' \in RangesOffered
  /\ Refetch([Inputs EXCEPT !.range = range'],
             IF range' = range /\ View.hook = "updates" THEN {} ELSE {"range"})
  /\ UNCHANGED <<session, kc, route, popup, blank, filters, columns, births,
                 panelVars>>

-----------------------------------------------------------------------------
(* The column panels. *)

\* Mutant: every panel looks for the very object, made anew at every render.
PickedByIdentity(list, tag) ==
  LET column == [tag |-> tag, object |-> clicks] IN
  IF column \in columns[list] THEN columns[list] \ {column}
  ELSE columns[list] \union {column}

\* handleTagSelection.  The panels drop a column by its value, but for the one
\* that looks for the very object, and makes its objects anew whenever it is
\* mounted and whenever its tags are loaded.
Picked(list, tag) ==
  LET exact == ColumnPanelOf(list).by = "object"
      column == [tag |-> tag, object |-> IF exact THEN births ELSE 0]
      same == {c \in columns[list] : IF exact THEN c = column ELSE c.tag = tag}
  IN IF same # {} THEN columns[list] \ same ELSE columns[list] \union {column}

PickColumn(tag) ==
  /\ LoggedIn /\ PanelOf(popup) \in PickableLists /\ Clicked
  /\ LET list == PanelOf(popup) IN
       /\ tag \in ColumnPanelOf(list).offers
       /\ columns' = [columns EXCEPT ![list] = Picked(list, tag)]
       /\ IF View.columns = list
          THEN LET tags == TagsOf(list, columns') IN
               Refetch([Inputs EXCEPT !.tags = tags, !.packets = @ \intersect tags],
                       {"columns"})
          ELSE UNCHANGED viewVars
  /\ Shows(route, popup, columns')
  /\ UNCHANGED <<session, kc, route, popup, range, filters, births, panelVars>>

\* useSnmpTrapTags answers, and allTags is built again.
TagsArrive ==
  /\ LoggedIn /\ PanelOf(popup) = "trapSignalTable" /\ Clicked
  /\ births' = births + 1
  /\ UNCHANGED <<appVars, viewVars, panelVars>>

-----------------------------------------------------------------------------
(* The filter panels. *)

PanelNow == FilterPanelOf(PanelOf(popup))
FilterOpen == LoggedIn /\ PanelOf(popup) \in FilterPanels

AskOptions == /\ FilterOpen /\ ~blank /\ Len(optionRequests) < MaxAsked
              /\ \E f \in PanelNow.fields : OpenMenu(PanelNow, f)
              /\ UNCHANGED <<appVars, viewVars, births, clicks>>

ChooseField == /\ FilterOpen /\ ~blank
               /\ \E f \in PanelNow.fields : Choose(f)
               /\ UNCHANGED <<appVars, viewVars, births, clicks>>

OptionsAnswer == /\ FilterOpen /\ ~blank
                 /\ \E i \in DOMAIN optionRequests : OptionsArrive(i) \/ OptionsFail(i)
                 /\ UNCHANGED <<appVars, viewVars, births, clicks>>

\* handleFiltersChange: a new object, whatever it holds.
FiltersBecome(fil) ==
  /\ filters' = fil
  /\ Refetch([Inputs EXCEPT !.filters = fil], {"filters"})

\* handleSearchClick; what SnmpTrapEventFilters sends is logged and dropped.
Search == /\ FilterOpen /\ Clicked
          /\ IF PanelNow.applies THEN FiltersBecome(chosen)
             ELSE UNCHANGED <<filters, viewVars>>
          /\ UNCHANGED <<session, kc, route, popup, blank, range, columns, births,
                         panelVars>>

ResetFilters == /\ FilterOpen /\ Clicked
                /\ Reset(PanelNow)
                /\ IF PanelNow.applies THEN FiltersBecome({})
                   ELSE UNCHANGED <<filters, viewVars>>
                /\ UNCHANGED <<session, kc, route, popup, blank, range, columns,
                               births>>

-----------------------------------------------------------------------------
(* The view. *)

\* Pagination: the pages of the last answer.
TurnPage(p) ==
  /\ LoggedIn /\ View.hook \in {"rows", "updates"} /\ TableDrawn(hook) /\ Clicked
  /\ p \in 1..hook.total /\ p # page
  /\ Refetch([Inputs EXCEPT !.page = p], {"page"})
  /\ UNCHANGED <<appVars, births, panelVars>>

\* handleMetricChange of TrafficStatistics: every column is asked for again.
ChooseMetric(tag) ==
  /\ LoggedIn /\ View.hook = "metric" /\ Clicked
  /\ tag \in Inputs.tags
  /\ \E m \in Metrics :
       LET now == IF m = "packets" THEN packets \union {tag} ELSE packets \ {tag}
           in == [Inputs EXCEPT !.packets = now]
       IN /\ packets' = now
          /\ hook' = Run(hook, View, in)
          /\ newest' = "pending"
  /\ UNCHANGED <<appVars, page, table, late, masked, paged, births, panelVars>>

\* The rows of a full page are 1 and 2.  The column filter of the model hides
\* row 1.
RowAt(order, i) == CASE order = "given" -> i
                     [] order = "reversed" -> 3 - i
                     [] order = "filtered" -> 2
DrawnRows(order) == IF order = "filtered" THEN {1} ELSE {1, 2}

HeaderShown == View.hook \in {"rows", "updates"} /\ TableDrawn(hook)

\* TelemetrySignalTable reads eventsData, which useSignalData does not return;
\* an empty result, or a page the result does not have, comes without rows.
RowsShown == /\ HeaderShown
             /\ View # TelemetrySignalTable
             /\ "rows" \in DOMAIN hook.data /\ hook.data["rows"] # FAILED
             /\ hook.data["rows"].page <= PageCount(hook.data["rows"])

Row(i) == [of |-> hook.data["rows"], row |-> RowAt(table.order, i)]

\* Mutant: the mark goes to the place the row has in the answer.
MarkRowAsGiven(i) ==
  /\ LoggedIn /\ RowsShown /\ Clicked
  /\ i \in DrawnRows(table.order)
  /\ table' = IF i \in table.marks
              THEN [table EXCEPT !.marks = @ \ {RowAt(table.order, i)},
                                 !.picked = @ \ {Row(i)}]
              ELSE [table EXCEPT !.marks = @ \union {RowAt(table.order, i)},
                                 !.picked = @ \union {Row(i)}]
  /\ UNCHANGED <<appVars, page, packets, hook, late, newest, masked, paged,
                 births, panelVars>>

\* handleRowSelect keeps the place of the row, not the row.
MarkRow(i) ==
  /\ LoggedIn /\ RowsShown /\ Clicked
  /\ i \in DrawnRows(table.order)
  /\ table' = IF i \in table.marks
              THEN [table EXCEPT !.marks = @ \ {i}, !.picked = @ \ {Row(i)}]
              ELSE [table EXCEPT !.marks = @ \union {i},
                                 !.picked = @ \union {Row(i)}]
  /\ UNCHANGED <<appVars, page, packets, hook, late, newest, masked, paged,
                 births, panelVars>>

\* handleSort and handleFilterChange: the header is drawn over no rows, too.
Rearrange(order) ==
  /\ LoggedIn /\ HeaderShown /\ Clicked /\ order # table.order
  /\ table' = [table EXCEPT !.order = order, !.moved = @ \/ table.marks # {}]
  /\ UNCHANGED <<appVars, page, packets, hook, late, newest, masked, paged,
                 births, panelVars>>

-----------------------------------------------------------------------------
(* The answers. *)

\* The requests left once the i-th is over: the older ones for its key have
\* been overtaken.
Without(requests, i) ==
  RemoveAt([j \in DOMAIN requests |->
              IF j < i /\ requests[j].key = requests[i].key
              THEN [requests[j] EXCEPT !.beaten = TRUE] ELSE requests[j]], i)

Put(f, key, value) == [k \in DOMAIN f \union {key} |->
                         IF k = key THEN value ELSE f[k]]

Outstanding(requests, key) == \E j \in DOMAIN requests : requests[j].key = key

Settled(i, run, how) ==
  LET request == hook.requests[i] IN
  /\ hook' = run
  /\ newest' = IF newest = "pending" /\ i = Len(hook.requests) THEN how ELSE newest
  /\ late' = IF request.beaten THEN late \union {request.key}
             ELSE late \ {request.key}
  /\ table' = IF TableDrawn(hook) /\ TableDrawn(run)
              THEN [table EXCEPT !.moved = @ \/ table.marks # {}]
              ELSE TableAfter(run)
  /\ UNCHANGED <<appVars, page, packets, paged, births, clicks, panelVars>>

\* loadData and fetchStatistics, once the answer is there: whichever request
\* it belongs to, it becomes the data and ends the loading.
Answer(i) ==
  LET request == hook.requests[i]
      run == [hook EXCEPT !.data = Put(@, request.key, request.query),
                          !.busy = Put(@, request.key, FALSE),
                          !.total = PageCount(request.query),
                          !.requests = Without(@, i)]
  IN /\ LoggedIn /\ ~blank /\ ~request.refused
     /\ Settled(i, run, "answered")
     /\ UNCHANGED masked

\* Mutant: the catch does not end the loading.
FailStillLoading(i) ==
  LET request == hook.requests[i]
      rows == View.hook = "rows"
      updates == View.hook = "updates"
      run == [hook EXCEPT !.data = IF rows THEN @ ELSE Put(@, request.key, FAILED),
                          !.error = rows \/ updates,
                          !.requests = Without(@, i)]
  IN /\ LoggedIn /\ ~blank
     /\ Settled(i, run, "failed")
     /\ masked' = (masked \/ request.beaten \/ Outstanding(run.requests, request.key))

\* The catch of useFaultData and useSignalData leaves the data alone, that of
\* useBgpLinkStateData empties it, and the statistics put an empty list.
Fail(i) ==
  LET request == hook.requests[i]
      rows == View.hook = "rows"
      updates == View.hook = "updates"
      run == [hook EXCEPT !.data = IF rows THEN @ ELSE Put(@, request.key, FAILED),
                          !.busy = Put(@, request.key, FALSE),
                          !.error = rows \/ updates,
                          !.total = IF updates THEN 0 ELSE @,
                          !.requests = Without(@, i)]
  IN /\ LoggedIn /\ ~blank
     /\ Settled(i, run, "failed")
     /\ masked' = (masked \/ request.beaten \/ Outstanding(run.requests, request.key))

Next ==
  \/ Reload \/ Logout \/ GuestLogin \/ SessionExpires
  \/ PressButton \/ ClosePopup \/ ChooseRange \/ TagsArrive
  \/ \E r \in StartRoutes : Back(r)
  \/ \E tag \in {"device", "tag", "LSN"} : PickColumn(tag) \/ ChooseMetric(tag)
  \/ AskOptions \/ ChooseField \/ OptionsAnswer \/ Search \/ ResetFilters
  \/ \E p \in 1..MaxPage : TurnPage(p)
  \/ \E i \in 1..2 : MarkRow(i)
  \/ \E order \in {"given", "reversed", "filtered"} : Rearrange(order)
  \/ \E i \in DOMAIN hook.requests : Answer(i) \/ Fail(i)

Spec == Init /\ [][Next]_vars

-----------------------------------------------------------------------------
(* What it promises. *)

TypeOK ==
  /\ session \in {"user", "guest", "login"} /\ kc \in BOOLEAN /\ blank \in BOOLEAN
  /\ route \in Routes /\ range \in 0..MaxClicks
  /\ \A l \in Lists : columns[l] \subseteq
        [tag : {"device", "tag", "LSN"}, object : 0..MaxClicks]
  /\ page \in 1..MaxPage /\ hook.total \in 0..MaxPage
  /\ DOMAIN hook.data \subseteq {"rows", "device", "tag", "LSN"}
  /\ \A k \in DOMAIN hook.busy : hook.busy[k] \in BOOLEAN
  /\ hook.error \in BOOLEAN /\ table.marks \subseteq {1, 2}
  /\ clicks \in 0..MaxClicks /\ births \in 0..MaxClicks

Watched == LoggedIn /\ ~blank /\ kc

\* Once nothing is in flight, no table or panel on the screen is left loading,
\* and each shows the answer to what its view would ask now - or an error, or
\* that its request failed - unless that answer was overtaken by a newer one
\* before it arrived (the effects and loadData of the tables and statistics:
\* none of them tells answers apart, and all share one loading flag).  Only the
\* string column of the signal statistics may show nothing: its answer, if it
\* came while the column was not picked, keeps it from being asked for when it
\* is picked again, and is forgotten then.
ShowsCurrent ==
  Watched /\ hook.requests = << >> =>
    /\ \A k \in DOMAIN hook.busy : ~hook.busy[k]
    /\ ~hook.error =>
         \A k \in Keys(View, Inputs) :
           \/ /\ k \in DOMAIN hook.data
              /\ \/ hook.data[k] \in {FAILED, Query(View, k, Inputs)}
                 \/ k \in late
           \/ /\ View.hook = "missing" /\ k \in StringColumns
              /\ k \notin DOMAIN hook.data

\* A table says its fetch failed, although its newest request was answered,
\* only if another request failed while the two were in flight together
\* (setError of useFaultData and useSignalData is cleared at the start of a
\* request, never at its end).
ErrorIsNewest ==
  View.hook = "rows" /\ hook.error /\ newest = "answered" => masked

\* A table left alone shows a page the result has, or page 1 of the 0 pages of
\* a query that has no match, unless the page was chosen from the count of an
\* answer that a newer request was about to replace, or the range or the
\* filters were changed after it was chosen: only the topology table goes back
\* to page 1 then (page and setPage of the tables; totalPages of the hooks).
PageExists ==
  /\ Watched /\ hook.requests = << >> /\ ~hook.error
  /\ View.hook \in {"rows", "updates"} /\ late = {}
  => \/ page <= hook.total
     \/ page = 1 /\ NoMatch(Query(View, "rows", Inputs))
     \/ paged = "outdated"
     \/ paged = "another query" /\ View.resets = {}

\* The rows drawn as selected are the rows that were clicked, unless the table
\* was sorted or filtered, or given other rows by a second answer, with a
\* selection in it (selectedRows of EventsTable holds places).
MarksStay ==
  RowsShown /\ ~table.moved =>
    {Row(i) : i \in table.marks} = table.picked

\* Of the views and the column and filter panels, only those of the trap
\* signals ever take the application down: no other combination of route,
\* popup and columns makes a render throw (SnmpTrapSignalStatistics and
\* SnmpTrapSignalFilters; OtherPanels are not looked into).
BlankOnlyOnTrapSignals ==
  blank => route \in TrapSignals

\* No list holds a column twice but the one of the trap signal table, whose
\* panel compares objects (handleTagSelection of the column panels).
ColumnsOnce ==
  \A l \in Lists \ {"trapSignalTable"} :
    \A c, d \in columns[l] : c.tag = d.tag => c = d

\* FilterPanel's OptionsFit, for the panel that is open.
OptionsFitChoice == FilterOpen => OptionsFit(PanelNow)
=============================================================================
