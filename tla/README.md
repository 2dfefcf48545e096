# A TLA+ model of Pristine-AIOPS

Pristine-AIOPS is a network monitoring platform. Producers receive syslog
messages, SNMP traps, NetFlow, sFlow, telemetry and pings and put them on Kafka;
consumers index them in OpenSearch; *signal services* turn syslog and trap events
into alarms ("signals") with a life of their own; a FastAPI backend and a React
frontend show and configure all of it.

These modules model the parts that keep state, share it between threads, a
broker, a cache and an index, or between requests whose answers come in any order,
and whose failures a test would hardly reach: the signal service, the syslog event
consumer, the NetFlow consumer, and the frontend: its session and header, its tables
and statistics, its column and filter panels, its devices page, its interface
table and the editors of its rules. Every definition is translated from the sources, C or JavaScript;
`PROJECT.json` maps each to its lines.

## 1. Inventory

| Component | State | Operations | Interacts with | What is hard |
|---|---|---|---|---|
| **Signal service** `src/syslogs/signals/*.c`, twin `src/traps/signals/*.c` | `active_signals[]` + count, `signal_rules[]`, hiredis context, bulk payload | match a message, create, close (coolDown), promote, retire, reload rules, load at start | Kafka in, PostgreSQL (rules), Redis (copy), OpenSearch (status documents) | three threads and no lock on the table; crash and replay; lost Redis and OpenSearch requests; two services in one Redis set and one key prefix; delays |
| **Syslog event consumer** `src/syslogs/consumer/*.c` | event buffer, alert buffer and their counts, severity and mnemonic caches | poll, append, send a full buffer, timed flush, commit, reload | Kafka in and out, OpenSearch, PostgreSQL | two threads append to and drain both buffers without a lock; shutdown |
| **Trap event consumer** `src/traps/consumer/*.c` | the same two buffers, OID cache | the same | the same | the same, with copied alerts |
| **NetFlow consumer** `src/netflow/consumer/*.c` | two blocking queues, the sender's batch | poll, push, commit; pop and push; batch, upload to one of several nodes; shutdown | Kafka in, OpenSearch | lost wake-ups, order of closing and joining, requests that time out after they were applied |
| **Python signal service** `src/signals/*.py` | signals in OpenSearch, Celery tasks with a delay | create, reopen, close, promote tasks | Kafka, OpenSearch, Redis (Celery) | a delayed task that outlives the state it was meant for |
| **Producers** syslog, trap, NetFlow, sFlow | a batch, template caches | receive, decode, batch, produce | UDP, Kafka | time-based flush, parsing |
| **Pinger, topology, telemetry, websocket, nmap** | schedules, graph, client lists | schedule, index, forward | Kafka, OpenSearch, Redis | batching; client registry |
| **Frontend: session, header, routes** `src/frontend/src/App.js`, `components/misc` | who is logged in, the path, the popup, the range, the filters, the columns of each view | log in and out, navigate, open and close popups, choose a range | Keycloak, every view | state of App outlives the views; a render that throws takes everything down |
| **Frontend: tables and statistics** `components/faults`, `signals`, `netflow`, `topology`, `hooks` | page, rows, error, loading, selection; per column: data, loading | fetch on every change of an input, turn pages, sort, filter, select rows | backend | overlapping requests whose answers nothing tells apart; a page, a selection that outlives its rows |
| **Frontend: column and filter panels** | the choice, the options cached for it | pick a column, open a menu, choose, search, reset | backend, App | options cached for another choice; columns compared by object |
| **Frontend: devices page** `pages/Devices.js`, `components/devices` | list, sweep, selection, what Info shows | select, deselect, add, delete, configure, sweep, scan | backend, pushes of CPU and memory | late answers for another device; a sweep polled for minutes; a list nobody reloads |
| **Frontend: interface table** `components/devices/InterfaceStatistics.js` | the interfaces of a device | a snapshot of two requests, two websockets | backend | snapshot against pushes; a lost socket |
| **Frontend: rule, expression and tag editors** `components/signals/*/StatefulRules.js`, `components/faults/syslogs/RegEx.js`, `components/faults/snmptraps/Tag-Config.js` and their hooks | a list, a selection, a form, flags | pick, add, save, delete, type | backend | details that come after another click; changes the backend made and the frontend cannot read; an expired session; successes announced of nothing; renders that throw |
| **Frontend: catalogues, performance, topology graph, profile** | a list, a form, a chart | CRUD, queries | backend | answers of another selection |
| **Backend, infrastructure** | database rows | CRUD, queries | PostgreSQL, OpenSearch | left to the database |

Properties each modelled component must have:

* signal service: one live signal per problem, of those the service raised; Redis agrees
  with the table; a closed signal stays closed; the four-state life cycle; delays end; the table
  survives its threads; a message closes the signal it is about;
* event consumer: what was appended is sent; nothing is used after it is freed;
  counts stay in their arrays; a quiet period does not keep events back;
* NetFlow consumer: a message is in one place; no thread sleeps on work; what was
  queued is uploaded before the process ends; nothing is indexed twice without a
  reason; SIGTERM ends the process;
* frontend: once nothing is in flight, the screen shows the answer to what it would
  ask now, of the device that is selected; an error is the newest request's; the page
  exists; the marked rows are those that were clicked; nothing is left loading and no
  render throws; a form holds the item that is picked, and a success is announced of
  what was done. The code keeps none of these unconditionally. Each is stated with
  the *exact* circumstances in which the screen may be wrong (an answer overtaken by
  a newer one, a failure while another request was in flight, a page chosen for
  another query, ...), recorded by a history variable. Everything outside them is
  what the property promises, and dropping any of them makes TLC find the screen
  that is wrong.

The hazards, each at its line and with the properties aimed at it, are in
`PROJECT.json`; those without a property say why.

## 2. Modules

    SignalLifecycle          the promise: none -> warmUp -> open -> coolDown -> away
        ^ refined by
    ActiveSignals            signal service: handlers, stores, crashes, time
        ^ extended by           MCActiveSignals (TLC), ActiveSignalsProofs (TLAPS)
    SignalThreads            the same service's table, access by access; follows
                             SignalLifecycle until conflicting windows overlap
        ^ extended by           MCSignalThreads, SignalThreadsProofs (TLAPS)
    EventBuffer              syslog consumer: buffers, access by access
        ^ extended by           EventBufferProofs (TLAPS)
    FlowDelivery             the promise: messages taken, committed, uploaded, settled
        ^ refined by
    FlowPipeline             NetFlow consumer
        ^ extended by           MCFlowPipeline, FlowPipelineProofs (TLAPS)

    Views                    frontend: routes, views, buttons and panels as data
    FilterPanel              frontend: one filter popup and its options
        ^ both extended by
    Console                  frontend: session, header, tables, statistics, panels
                                MCConsole, ConsoleProofs (TLAPS)
    DevicePage               frontend: the devices page
        ^ extended by           MCDevicePage, DevicePageProofs (TLAPS)
    InterfaceTable           frontend: the interface table of a device
        ^ extended by           InterfaceTableProofs (TLAPS)
    RuleEditors              frontend: the editors of rules, expressions and tags
        ^ extended by           MCRuleEditors, RuleEditorsProofs (TLAPS)

### ActiveSignals

| Model | Code |
|---|---|
| `signals[x]` | the `ActiveSignal` with that id in `active_signals` |
| `age` | time since `status_changed_at`, in steps of `Tick`, up to `MaxAge` |
| `Service` | which of the twins the model is: `"syslogs"` or `"traps"` |
| `saved[x]` | Redis: `signals:syslogs:<id>` present *and* the id in the set `active_signals`, whichever service wrote it |
| `OwnIds`, `TrapIds` | the ids this service creates; to the syslog service, those the trap service creates |
| `theirs[x]`, `TrapCreates`, `TrapOpens`, `TrapDrops` | the trap service as the syslog service meets it: what it writes to, and deletes from, the Redis they share |
| `redisUp` | `redis_ctx` exists and `err == 0`: nothing reconnects it |
| `indexed[x]` | status in the signal's OpenSearch document |
| `log`, `committed`, `position`, `pending` | topic, committed offset, messages read, matches left of the last one |
| `Poll`, `MatchOpen`, `MatchClose` | `process_message`: `find_signal_rule`, then each match |
| `OpenSignal`, `RetireSignal` | one visit of `updateSignalStates` to a signal whose delay is over |
| `LoadSignalRules` | the reload thread: the old rules are freed first, so a failed query leaves none |
| `Crash`, `Restart` | the container is killed, compose restarts it, `load_active_signals_from_redis`: `LoadActiveSignalsFromRedis` of the syslog service, `LoadNothing` of the trap service |
| history: `missed`, `undeleted` | a record in Redis was not written, deleted or loaded though the connection stayed up; a delete that got lost |

Details of the code the model keeps because the properties turn on them:

* MATCH_OPEN with a signal in *any* status, coolDown included, does nothing:
  `reopenSignal` and `delete_signal_from_memory` exist but nothing calls them;
* `closeSignal` writes the new status to the table and to OpenSearch, not to
  Redis, so Redis never holds a coolDown signal;
* replies of Redis are not looked at: a command may be refused, or may break the
  connection before or after it took effect. Each handler sends a pair of commands,
  modelled as one: a restart loads a signal only if its key and its listing are both
  there, so it takes both writes to save one and either deletion to hide it;
* `ActiveSignal.rule` has 32 bytes: the signal of a longer rule name (`LongNamed`)
  is never found by `findRuleByName`, so it is never matched, promoted or retired;
* the syslog service lets librdkafka commit, which may run ahead of the handler; the
  trap service never commits and replays the topic at every start;
* the two services store under one prefix, `signals:syslogs:`, and list their ids in one
  set, `active_signals`, but the trap service loads keys `signals:traps:<id>`
  (`src/traps/signals/redis.c:42`), which nothing writes (`:102` stores, `:158` deletes
  `signals:syslogs:<id>`). So a restart of the trap service brings back nothing, its
  records stay in Redis, and the replay of its topic raises its open problems
  again: what Redis holds says nothing of its table, and `RedisMirrors` and `UniqueSaved`
  claim nothing of it. A restart of the syslog service adopts every signal of the
  trap service that Redis holds: it can match, promote, close and retire one if a rule
  of its own has the same name, and keeps it as it is if none has. The promises about
  what a service may hold (`UniqueActive`, `RedisMirrors`, `NoResurrection`) are
  therefore about the signals it created (`OwnLive`), and say what an adopted one can
  still do to them: fill the table, so that a restart skips one of the service's own
  (`missed`). Two signals of one problem, one of them adopted or left behind by
  the trap service, are what the code allows, and what no property forbids.
  `SignalLifecycle` calls the adopted ones `Foreign`: they begin away.

Abstractions: the order of the array (a lookup may return any matching entry); a
document upload is one step that takes effect or is lost, since
`MAX_OPENSEARCH_BULK_EVENTS` is 1 and nothing is retried; a handler is one step,
because SignalThreads is about what overlapping handlers do to the table. A crash
between the two halves of a handler leaves what a connection that breaks there and
then a crash leave. Of the trap service the model of the syslog service keeps only what
it does to Redis, each id at most once through; its own loads read nothing, and what it
would do with a signal of the syslog service does not arise, since it loads none.

### SignalThreads

One action is one access to `active_signals` or `active_signal_count` by the Kafka
thread (`kafka`, `j`, `matched`) or the monitor thread (`monitor`, `i`, `k`);
`count++` and `count--` are a load and a store. A problem stands for what
`findActiveSignals` compares (device, rule, entities); delays may be over at any
time. `Conflicting` names the pairs of windows that do not tolerate each other:

* the monitor shifts the array or decrements the count while the Kafka thread looks a
  signal up, is about to close the one it found, or is between load and store of its
  increment (it may be between messages, or about to fill a new slot);
* the sweep, which runs every second and ends with a store of the count, while
  the Kafka thread is between load and store of its increment;
* the monitor is about to store `open` while the Kafka thread is about to store `coolDown`.

Outside those pairs the properties hold, and each of the three clauses is needed: without
it TLC finds a damaged table, a lost closing, or a message that acts on another
problem's signal. That is the exact set of overlaps a lock would have to exclude.

`KeepsLifecycle` relates this module to the same abstract specification as
ActiveSignals. `State` reads each id's stage off the array: the slots that count are
those of `Live`, all below the count but the one that is leaving (`Leaving`), and the
status of an id in such a slot is its stage. An array that is being
shifted holds one signal twice or one too many, and still shows each where it was. Until
conflicting windows overlap every access is a stutter, or raises, confirms, clears or
retires one signal, so taking a handler as one step, as ActiveSignals does, leaves out
nothing about a signal's stages there. `Outage` and `Recover` are not among the steps:
nothing crashes in this module.

### EventBuffer

One action is one access to `opensearch_events_buffer`, `kafka_signals_buffer` or
their counts, by the Kafka thread or the flush thread (`phase`, `at`, `n`, `index`,
`load` are each thread's program counter and locals). `slot` keeps pointers, so a
slot may point to an event in `freed`. `buffer[count++] = event` reads the count,
then writes count and slot in either order, as C allows. Use of a freed event sets
`wild`: behaviour is undefined from there on, the model stops the process and claims
nothing about it. `sent` means handed to OpenSearch or Kafka: the code does
not look at what became of it. `overlapped` is a history variable: the events whose
append fell into a drain of the same buffer by the flush thread.

### FlowPipeline

A queue operation is one step, since it holds the queue's mutex; a thread in
`pthread_cond_wait` is `waiting` until it is signalled, or wakes for no reason. The
main thread's poll, push and commit, its shutdown sequence, each worker's pop and
push, the sender's batch and its attempt at each node are steps of their own. A
message is its offset. `copies` counts copies in OpenSearch, `repeated` (history) the
messages that were read twice or were in an attempt reported failed but applied.

`FlowDelivery` is what the topic and the index see of it, without queues, threads or
batches under way: the process is up, ending, ended or down; it *owes* the messages it
queued and has not uploaded or given up, and is *done* with the others. It takes
messages in the order of the topic, beyond its last commit; it commits the last one it
took, uploaded or not; a request carries a full batch of owed messages, and only an
ending process sends a smaller one, which is all it owes; it ends owing nothing; a
killed process forgets. `Process`, `Owed` and `Settled` are the refinement mapping.

### Console, Views, FilterPanel

React runs one handler, renders, and runs the effects of that render before anything
else happens to the page, so a click is one action: the handler, what the render
unmounts or mounts, and the requests its effects send. Answers are actions of their
own, in any order, or failures.

| Model | Code |
|---|---|
| `session`, `kc` | App's login state; `keycloak.authenticated`, which `kcFetch` looks at |
| `route`, `popup`, `range`, `filters`, `columns` | App's state, shared by all views |
| `page`, `packets`, `table` | the table's page, the metric per column, `EventsTable` |
| `hook` | what the view's hook keeps, and its requests in flight |
| `blank` | a render threw: React 18 unmounts the whole tree |
| `LoadRows`, `LoadUpdates`, `LoadAll`, `LoadMissing` | `loadData` of the three kinds of table, `fetchStatistics` of the two kinds of statistics |
| `Effects` | which inputs run the effect again: the view's dependency list |
| `Answer(i)`, `Fail(i)` | the code behind the `await`, and the `catch` |
| `MountView` | a view that is mounted starts anew; its predecessor's answers are ignored |
| `PressButton`, `Back`, `ClosePopup` | `Header`, `Sidebar`, `handleClickOutside`; the browser's back button |
| `PickColumn`, `Search`, `ResetFilters`, `ChooseRange` | the panels |
| history: `late`, `newest`, `masked`, `paged`, `table.picked`, `table.moved` | nothing: they say in which circumstances the screen may be wrong |

Details the model keeps because the properties turn on them:

* `useFaultData` and `useSignalData` empty the table before each request,
  `useBgpLinkStateData` keeps the old rows; only the last empties it on a failure;
* the page survives a change of the range or of the filters everywhere but in the
  topology table, whose effect then asks for the page it leaves and for page 1, and
  does not run when the range chosen has the same dates;
* an empty result has `Math.ceil(0 / size)`, no, pages (`useFaultData.js:98`,
  `useSignalData.js:98`), so the table of a query without a match shows page 1 of 0
  (`PageCount`, `NoMatch`): `PageExists` says so, and that it is page 1 then;
* the signal statistics ask only for columns they do not have yet and ignore the range;
  the column their panel adds as a string, LSN, is forgotten at every change of the
  columns, after it was found not to be missing; TrafficStatistics loads twice when its
  columns change;
* `SnmpTrapSignalTableTags` looks for the very column object, and its objects are made
  anew at each mount and each load of tags; the other panels compare values;
* opening the time popup chooses the last hour, before the user chooses anything;
* a filter's options are asked for the choice made then, and cached whatever is
  chosen later; the request of a menu whose popup was closed goes nowhere.

Abstractions: a range is a number, a filter a field that is set or not, an answer the
query it answers, so a screen shows the right thing when the query under its rows is
the one it would send now; two rows stand for a page. How many pages a query has does not
change while the page is open: none if its range or one of its filters is named as empty
(`EmptyRanges`, `EmptyFilters`), `MaxPage` without a restriction, one otherwise. A token that expires does
not make a render, as in the code. Guest login is reached from the login page only,
which stays for the moment it takes Keycloak to redirect.

### DevicePage

| Model | Code |
|---|---|
| `registered` | the backend's devices |
| `list`, `listLoads` | `useDevices` and its requests |
| `found`, `sweeps`, `sweeping`, `swept` | `useNetworkScan`: polls a sweep until it is done |
| `selected`, `shown`, `detailLoads` | `selectedDevice`, `isDeviceSelected`, the request of `handleDeviceSelect` |
| `info`, `infoLoads`, `scanning` | what `Info` shows: CPU, memory, scan |
| `AddDevice`, `DeleteDevice`, `Configured` | the popups; only the last reloads the list |
| `RunDeepScan`, `CpuPushed`, `ShowComponents` | `Info` and its tabs |
| `Revisit` | another page and back: the last sweep is repeated |
| `TokenRefreshed` | keycloak has another token: two effects depend on `fetchDevices` and both load the list |
| history: `choice`, `selectedId`, `foundId`, `newest`, `late`, `crossed`, `overlap`, `unseen` | the circumstances of the properties |

`handleDeviceSelect` selects the device when its details *arrive*: a click on
another device, or closing the panel, does not stop them. `useDeviceDeepScan` and
`useDeviceStatus` are emptied when the device changes, and their requests are not
cancelled. `handleWsUpdate` (`Devices.js:135-155`) copies the fields of a ping message into the
selected device that has its address or name: which device is selected, which is all the
model keeps of it, stays the same, so the merge is a step that changes nothing here.

### InterfaceTable

Any device may be shown at any time (an over-approximation of DevicePage). The two
requests of a snapshot are read by the backend at times of their own (`ServeRequest`)
and answered together (`Settle`: `Promise.allSettled`, unless the effect was cleaned
up); a socket that is open hears every report (`wire`), one that is connecting or
was lost hears none, and nothing reconnects it. `missed` (history) holds the
interfaces whose last report the table was not told or was told and lost to an older
snapshot.

### RuleEditors

One of four popups is open: `regex` (`RegEx.js`), `trapTags` (`Tag-Config.js`),
`syslogRules` and `trapRules` (the two `StatefulRules.js`). They have the same parts and
differ in what the record `Editor` and a few actions of their own say.

| Model | Code |
|---|---|
| `list`, `loading` | what the popup's hook keeps |
| `picked`, `adding`, `kept`, `form` | `selectedRegex`, `selectedTag`, `selectedRule`; `isAddNew`, `isAddingNewRule`; `editedData`; `formData`, `newRule` |
| `pressed` | `loadingState`, which disables a button |
| `kc`, `SessionExpires` | `keycloak.authenticated`, once the popup is open |
| `Pick`, `AddNew`, `Cancel`, `Type` | `handleSelect`, `handleOptionChange`, `selectRule`; the two buttons; the fields |
| `Add`, `SaveForm`, `SaveSyslogRule`, `SaveTrapRule`, `Delete`, `DeleteTrapRule` | `handleAdd`, `handleAddRule`, `handleSave`, `handleDelete` up to their first `await` |
| `Serve` | the backend (external): what it takes and refuses |
| `ListArrives`, `DetailsArrive`, `ChangeArrives`, `ListFails`, `DetailsFail`, `ChangeFails` | the rest of the handler and of the hook, after the `await` |
| `after` | what a load of the list is followed by: the announcement of the change that asked for it |
| `Sent`, `Unsent` | what the hook makes of a button: a request, a skipped one, or a silent return |
| `Announced`, `Ended` | the end of a handler: the notification, the emptied form, the selection |
| history: `astray`, `lies` | the clicks made while an answer was due, the details that did not come or came after an announcement; the successes announced of nothing |

Details the model keeps because the properties turn on them:

* the backend answers DELETE with 204 and no body, which `kcFetch` cannot parse: the
  delete is done and reported as failed, in all editors but the regular expressions
  (`deaf`). The same holds for an update of a syslog rule;
* the rows of the trap tags are `{value, label}` and have no `name`: picking one asks for
  nothing, and deleting it skips the request (`if (!name) return`), loads the list and
  announces a success;
* once keycloak no longer authenticates, the hooks of the expressions and of the tags
  return without a request and without an error (`useSyslogRegEx.js:50,78,99`,
  `useSnmpTrapTags.js:118,154,184`), and so do the loads of their lists: the
  handler runs to its end and announces the success of a change nobody was asked for,
  named or not (`Unsent`). The hooks of the rules ask `kcFetch`, which throws. `ToldTheTruth` allows just these announcements, in just those two
  editors, and dates them: a change the session expired on *after* it was sent is
  announced only if the backend made it;
* what has no name has no route to change it, and to get it is to get the list, which a
  syslog rule's form cannot draw once there are tag options;
* Save of the syslog rules sends the item of the list, not the form;
* adding a syslog rule empties `newRule` one render before its effect fills it again; that
  render looks a tag up in a missing list, and throws once there are tag options;
* the hooks of the rules keep an `Error` object and the popup draws it, which throws;
* Add New of the trap rules does not go back to adding, and the Delete button of the
  editors that disable theirs stays disabled after a success.

Abstractions: an item is a name and whether its other fields are filled; one popup is opened
in a session and stays open; nobody else changes the backend meanwhile.

## 3. What the runs check

| Run | Question | Bounds |
|---|---|---|
| `active_signals` | `UniqueActive`, `RedisMirrors`, `NoResurrection`, and the refinement `ImplementsLifecycle` | the syslog service: one rule with two affected tags, three kinds of message, topic of 2, table of 2, 2 ids and 1 of the trap service, delays of 0, 1 crash |
| `active_signals_live` | `DelaysEnd`, for the trap service with a rule whose name is too long | 2 rules, topic of 2, 2 ids, 1 crash, ages to 2 |
| `signal_threads` | `TableSound`, `RightSignal`, `KeepsLifecycle` (the steps of SignalLifecycle), and that no index leaves the array | 3 problems, table of 3, 5 ids, 6 messages |
| `signal_threads_announced` | *violation*: `ClosesAnnounced` | the same |
| `event_buffer` | `NothingLost`, `DrainedOnce`, and that no count leaves its array | buffers of 2, 3 messages |
| `event_buffer_live` | `FlushComes` | buffers of 2, 2 messages |
| `event_buffer_stop` | *violation*: `GracefulShutdown` | 1 message |
| `flow_pipeline` | `OnePlace`, `NoSleepOverWork`, `NoDuplicates`, `ShutdownEnds`, the refinement `ImplementsDelivery` (an ended process owes nothing), and that the batch fits its array | 2 workers, batches of 2, 2 nodes, 2 messages, 1 crash |
| `console` | `ShowsCurrent`, `ErrorIsNewest`, `PageExists`, `MarksStay`, `BlankOnlyOnTrapSignals`, `ColumnsOnce`, `OptionsFitChoice` | opened at any of the 13 data views, 3 clicks, 2 pages, 1 option request, one range and one filter without a match |
| `devices` | `ListIsRegistered`, `SelectedIsWanted`, `InfoOfSelected`, `FoundIsNewest` | 3 devices, 2 known, 2 found, 3 clicks |
| `interfaces` | `DrawnIsCurrent` | 2 devices, 2 interfaces, 4 events |
| `editors` | `ShownIsPicked`, `ToldTheTruth` | four editors, 2 items and the name of a third, 3 clicks, a session that may expire at any time |

Why the bounds are enough to be interesting:

* two signals of one rule whose tags overlap ({state_down, eth0} and {state_down, eth0, vrfA})
  are the smallest case in which one message is about two signals; with two ids and one of
  the trap service a table of two fills, refuses, and is filled by an adopted
  signal so that one of the service's own is skipped; the adopted one has the problem and
  the rule name of an own one, so it is found, closed and retired like it; a topic of
  two with one crash gives every order of open, close and replay. Delays are 0 there,
  since the visit that ends a delay may come late anyway; the live run has delays of 0 and
  1 and ages to 2;
* three slots are the smallest table in which a shift moves a signal that is neither
  the one removed nor the last; six messages reach every overlap of the two threads;
* buffers of two with three messages fill, drain in the Kafka thread, and are
  drained by the flush thread meanwhile. Crashes are left out of the `event_buffer`
  runs (`MaxCrashes = 0`; a wild process still ends and restarts): a crash
  loses the buffers, which the code accepts by committing early, and starts again from
  the initial state;
* two workers race for a message, and wake the sender or do not; two messages fill a
  batch or leave two partial ones around a crash; with two nodes an attempt may fail, be
  applied and be repeated. More messages than a batch holds are beyond this run; the
  invariants and the refinement are proved for any number of them (section 4),
  `ShutdownEnds` is not;
* three clicks put three requests of one table in flight, so that an answer can be
  overtaken, fail while another is in flight, or meet a page, range, filter or column
  chosen meanwhile; they also reach a popup, a choice in it and what the choice does.
  Starting at any data view stands for the clicks that lead there; two pages, a
  restricted result of one and an empty one make a page that no longer exists. The string column that
  shows nothing takes four clicks; that nothing else does is proved (section 4);
* with three devices two selections can be under way while a third is shown, and a
  sweep can find a device the backend has and one it has not;
* four events are a device shown, two reports around the snapshot's two reads, and a
  lost socket or another device;
* three clicks in an editor are a pick, another pick or an edit, and a change of it, with
  their answers in any order and the loads of the list they ask for; typing and the end
  of the session are free. The run has 5.5 million states and takes two minutes.

The frontend runs say `CHECK_DEADLOCK FALSE`: the user may stop, and the bounds on
clicks and events stop them. Every other run checks for deadlock.

`MaxClicks`, `MaxAsked`, `MaxPage`, `MaxEvents`, `MaxIds`, `MaxLog`, `MaxOffset`, `MaxMessages`, `MaxCrashes` and `MaxAge` bound the
model only; `MaxSignals`, `Size`, `BulkSize` and `Nodes` are the code's limits, made small.

### Fairness

* ActiveSignals: time passes, compose restarts the container (`restart:
  unless-stopped`), the monitor thread visits each signal every second, the Kafka
  thread works on. Nothing makes a reload succeed, a message arrive or a commit
  happen; `DelaysEnd` therefore says "once reloads keep succeeding".
* EventBuffer, FlowPipeline: each thread is scheduled (weak fairness of a thread, not of
  each of its actions). No SIGTERM, spurious wake-up, crash or restart is owed.
* SignalThreads, Console, DevicePage, InterfaceTable and RuleEditors have safety properties only and
  assume none: a browser owes no click, and an answer may never come.

### Disagreements between code and text

* `signal_threads_announced`: the service announces "Closing existing signal ID %s"
  (`src/syslogs/signals/process.c:142`) and then passes a pointer *into* the array, of
  which the monitor may have moved another signal into the slot: the alarm of a problem
  that persists is closed.
* `event_buffer_stop`: "initiating graceful shutdown" (`src/syslogs/consumer/main.c:23`), but the
  Kafka loop never looks at `run`. Only the flush thread ends, and from then on
  events are committed and stay in the buffer until it is full.

## 4. What is proved

Eight modules prove properties for every value of the constants: any rules, topic,
size of a table or a buffer and number of crashes; any number of workers, nodes and messages; any
devices, interfaces, items of an editor and number of clicks or reports. Nothing is assumed but the named assumptions on the
constants in the modules themselves.

`ActiveSignalsProofs` (from `ConstantsOK` and `NoSignalOK`), for either service:

| Theorem | States | Inductive invariant |
|---|---|---|
| `TypeCorrect` | `Spec => []TypeOK` | `BaseInv` |
| `OneSignalPerProblem` | `Spec => []UniqueActive` | `BaseInv /\ StoreInv` |
| `RedisAgrees` | `Spec => []RedisMirrors` | `BaseInv /\ StoreInv` |
| `ClosedStaysClosed` | `Spec => []NoResurrection` | `BaseInv /\ ClosedIsGone` |
| `TableImplementsLifecycle` | `Spec => ImplementsLifecycle` | `BaseInv` |

The argument. `BaseInv` is the type invariant with four facts it needs: matches are
pending only of a message that was read (`Idle`), a process that is down holds nothing
(`DownHoldsNothing`), own ids from `nextId` on are used nowhere (`Unused`), and Redis
never holds a coolDown signal (`SavedNeverCooling`), whoever wrote it. `UniqueActive` is not
inductive: a restart of the syslog service takes its table from Redis, so Redis must hold
one own signal per problem as well (`UniqueSaved`), and that follows from a creation only if
every own record is also in the table or the connection is lost for good. That
is what `RedisMirrors` and `Fits` (the own records fit the table, so a restart that
skips one has filled its table with the trap service's, which is recorded as `missed`) add.
For the trap service the table alone suffices: it starts empty. `NoResurrection` needs that a signal reported closed
is neither live nor saved unless its deletion was lost (`ClosedIsGone`). For the
refinement each action is shown to be one step of the life cycle or a stutter under
`StateOf`; a crash is `Outage`, a restart is `Recover`, which may only
bring back warmUp or open, own or adopted, because of `SavedNeverCooling`; what the trap
service does to Redis is a stutter.

`FlowPipelineProofs` (from `ConstantsOK`):

| Theorem | States | Inductive invariant |
|---|---|---|
| `TypeCorrect` | `Spec => []TypeOK` | `IInv` |
| `OneForEach` | `Spec => []OnePlace` | `IInv` |
| `NobodySleeps` | `Spec => []NoSleepOverWork` | `IInv` |
| `AllDrained` | `Spec => []Drained` | `IInv` |
| `NoneTwice` | `Spec => []NoDuplicates` | `IInv` |
| `PipelineDelivers` | `Spec => ImplementsDelivery` | `IInv` |

The argument. `IInv` has, beside the type invariant, seven parts, each about one
question. `MainInv`: the main thread's place in its shutdown says which queue is
closed and which threads have ended. `ThreadInv`: what a thread holds at each of its
steps, and that it ends only when its queue is closed and empty. Together they give
`Drained`: a worker that has ended can leave nothing behind, because the parsed queue is
closed after all of them have been joined. `PlaceInv` restates `OnePlace` over the sets
of what each place holds, which is inductive with `ReadInv`: a message about to
be queued is in no place yet. `WakeInv`, per queue: a message implies a thread awake
that takes it, and every waiter is signalled by a push or by the close; it is
`NoSleepOverWork` with the wake-ups already under way. `CopyInv`: a message is in
OpenSearch once it was uploaded, and more often only if it was read twice or an
attempt was reported failed but applied. `BatchInv`: the sender uploads a full batch,
or the last one, which is neither full nor empty.

For the refinement each action is one step of `FlowDelivery` or a stutter: a push takes
(`ReadInv`: the message is beyond all that was taken), a commit commits, a request
uploads `Contents(batch)`, the join of the sender is the end (`Drained`). That the
last batch is *all* that is owed is the whole argument of the shutdown once more: the
sender finds its queue closed and empty, so the workers have been joined, so their
queue is empty and their hands are.

`SignalThreadsProofs` (from `ConstantsOK`):

| Theorem | States | Inductive invariant |
|---|---|---|
| `TypeCorrect` | `Spec => []TypeOK` | `IInv` |
| `TableIsSound` | `Spec => []TableSound` | `IInv` |
| `LifecycleKept` | `Spec => KeepsLifecycle` | `IInv`, `CooledShown` |
| `RightOne` | `Spec => []RightSignal` | `IInv` |

The argument. `IInv` has two halves. `CountInv` holds whatever the threads do: only the
Kafka thread raises the count and only the monitor lowers it, so what either has read
of it still bounds its index. That suffices for `TypeOK`. The other half, `Peace`, holds
until conflicting windows overlap (`ConflictInv` says that an overlap under way is
recorded). `LiveInv` is `TableSound` inside the windows too: the table without the
slot that is leaving it (`Leaving`, `Live`: the one being dropped, its duplicate while the others
are shifted, the last one until the count is lowered) holds each signal created and not
retired in one slot. `LookupInv`, `NewInv` and `DropInv` say that what a thread
remembers of a slot, by index or by pointer, is still true. `MonitorInv` says that the
sweep reads and writes the same slot: in peace it never finds a closed signal, since
`close_signal` has removed it already. For `KeepsLifecycle`, a step that calls no `Live`
slot in or out and writes no status changes no stage (`StateKept`), one that writes the
status of a `Live` slot moves that id alone (`StateMoved`), and a shift copies a signal
into the slot that was leaving just as its own becomes the one that leaves
(`ShiftPasses`).

`EventBufferProofs` (from `ConstantsOK`):

| Theorem | States | Inductive invariant |
|---|---|---|
| `TypeCorrect` | `Spec => []TypeOK` | `IInv` |
| `LostOnlyInDrains` | `Spec => []NothingLost` | `IInv` |
| `TakenOnce` | `Spec => []DrainedOnce` | `IInv` |

The argument. `NothingLost` speaks of the count, `DrainedOnce` of slots the threads
may still reach, so `IInv` says what is in every slot. `PlaceInv`: a thread's place says
which buffer it is at, and that its index is in it. `NewInv`: the event in the Kafka
thread's hand has not been appended yet. `OverlapInv`: an append during a drain is
recorded. `SlotInv`: what was appended is in the buffer, was sent or overlapped, and
what lies behind the count was sent or overlapped, so a reset of the count loses nothing
else. `DrainInv`: what a drain has passed is in its payload, was sent, or overlapped.
`CleanInv`: with no overlap, a buffer holds each event once and none that is freed, but
for those the drain under way has freed (`Sound`), nor one that was posted, but between
the post of a drain and its reset of the count (`Unsent`). A payload is built from
slots that count, so an event in it that was posted before means a second drain under
way at the same buffer, which is an overlap (`NoneRepeats`).

`DevicePageProofs` (from `DevicePageAssumption`):

| Theorem | States | Inductive invariant |
|---|---|---|
| `TypeCorrect` | `Spec => []TypeOK` | `TypeInv` |
| `InfoIsOfSelected` | `Spec => []InfoOfSelected` | `TypeInv`, `InfoInv` |
| `SelectionIsWanted` | `Spec => []SelectedIsWanted` | `TypeInv`, `DetailInv` |
| `FoundIsOfNewest` | `Spec => []FoundIsNewest` | `TypeInv`, `SweepInv` |
| `ListMatches` | `Spec => []ListIsRegistered` | `TypeInv`, `ListInv` |

The argument. None of the four is inductive: each speaks of the moment when nothing is in
flight, so its invariant says what every request in flight will do when it is answered.
`InfoInv`: every request of `Info` is about the selected device or a crossed one.
`DetailInv`: the newest selection is still under way, or was answered, failed, or was
overtaken, in which case it is recorded. `SweepInv` and `ListInv` say the same of the
sweeps and of the loads of the list; `ListInv` also bounds what each load may have
seen by what the backend held since it was sent.

`InterfaceTableProofs` (from `InterfaceTableAssumption`):

| Theorem | States | Inductive invariant |
|---|---|---|
| `TypeCorrect` | `Spec => []TypeOK` | `TypeInv` |
| `DrawnAsReported` | `Spec => []DrawnIsCurrent` | `TypeInv`, `WireInv`, `FetchInv`, `ToldInv` |

The argument. `DrawnIsCurrent` speaks of empty wires and a loaded table, so the invariant
says where the last report of a cell is before that. `WireInv`: if a wire holds
anything about it, the last such message is what the backend reported last, and only an
open socket has a wire. `ToldInv`: otherwise it is drawn, once loaded, and in what the
request under way has read, or it is recorded as missed, or as overtaken by
that request. `FetchInv`: while the table is loading there is exactly one request
it still listens to, so the snapshot that ends the loading is that one.

`RuleEditorsProofs` (from `RuleEditorsAssumption`):

| Theorem | States | Inductive invariant |
|---|---|---|
| `TypeCorrect` | `Spec => []TypeOK` | `TypeInv` |
| `FormIsPicked` | `Spec => []ShownIsPicked` | `TypeInv`, `FormInv` |
| `SuccessIsTrue` | `Spec => []ToldTheTruth` | `TypeInv`, `AfterInv`, `ToldTheTruth` |

The argument. A success is announced when a load of the list is over that a change asked
for; `AfterInv` says of each such load that its change was made, or has no name. In a
session that has expired it is announced at once: of a change that was answered as made,
or as `expired`. As long
as no click went astray, `FormInv` says, at most one answer is due, the form is the picked
item's already if that answer is a change's, and the details under way are the picked
item's.

`ConsoleProofs` (from `ConsoleAssumption`):

| Theorem | States | Inductive invariant |
|---|---|---|
| `TypeCorrect` | `Spec => []TypeOK` | `ShellInv`, `ChromeTyped`, `ViewTyped`, `MarksInv` |
| `BlankOnly` | `Spec => []BlankOnlyOnTrapSignals` | `BlankInv` |
| `NoColumnTwice` | `Spec => []ColumnsOnce` | `ColumnsInv` |
| `OptionsFollow` | `Spec => []OptionsFitChoice` | `OptionsInv` |
| `MarksFollow` | `Spec => []MarksStay` | `ShellInv`, `ViewTyped`, `MarksInv` |
| `ErrorExplained` | `Spec => []ErrorIsNewest` | `ShellInv`, `ViewTyped`, `ErrorInv` |
| `CurrentShown` | `Spec => []ShowsCurrent` | `ShellInv`, `ViewTyped`, `FetchInv` |
| `PageOfResult` | `Spec => []PageExists` | `ShellInv`, `ViewTyped`, `FetchInv` |

The argument. `StepKinds` sorts the steps by what they do to the view: mount it, rerun its
effects, leave it, or one of its own (a click in the table, an answer, a failure); the invariants
of the view are proved per kind. `BlankInv`: no popup that throws is open while a
tree is drawn, so only the panel of columns of a view can throw, and `ButtonKinds` goes
through every button of every route for where it leads. `OptionsInv` says of the option
requests in flight what `OptionsFitChoice` says of the options, and that a panel that
is closed holds none. `MarksInv`: a table that is loading, or failed, has no marks, so an
effect either changes nothing or forgets them (`RunFacts`). `ErrorInv`: once the newest
request was answered, every other one in flight has been overtaken, and while it is
pending a failure has another request in flight beside it.

`FetchInv` is about the moments before all is quiet. `BusyAsked`: what is loading has a
request out. `CurrentInv`: for each key the view would ask for, either the newest
requests are unbeaten and ask what the view would ask now (`Fresh`), or every one left
has been overtaken and the screen shows what it should (`Shown`; for a table that
includes the count of pages). `EffectsAsk` says that effects which run leave every key
`Fresh`; when none run, `ViewsFetch`, over all the routes, says that nothing the view sends
has changed; `SettledFresh` says that the end of a request hands over from `Fresh` to
`Shown`. The signal statistics ask only for what they miss, so `Fresh` does
not survive there; `MissingInv` says that their requests and their data never depend on
an input and that each column is there or asked for. `PagedInv`: a page chosen
with nothing in flight is within the count of its query, which `CurrentInv` says
the table knows.

What the proofs corrected. Three clicks hid that a string column of the signal statistics
may end up with nothing: picked, dropped, answered, and picked again, it is found not to be
missing, forgotten and never asked for. Stated without that case, `ShowsCurrent`
is not inductive, and false with four clicks; it now names the case, which is in the
code (`src/frontend/src/components/signals/syslogs/Statistics.js:83`). `PageExists` names
"another query" only for an input the table sends, and no longer for any change. Two
`CASE`s, in `Refetch` and `FilterPopup`, had arms that overlap, of which TLC takes the
first and the language any: they now say which.

Only model-checked: the liveness properties `DelaysEnd`, `FlushComes` and `ShutdownEnds`
(fairness and ENABLED are beyond the prover). The two runs that expect a violation are
TLC's too.

## 5. Not modelled

The rest of the inventory, and of the modelled services: what matches and tags
are made of (`rules.c` string comparison, `regex.c` extraction), the JSON of documents,
the caches of severities and mnemonics, the reload thread freeing rules and cache
entries other threads still use, and the race of the two threads of the signal service
on `bulk_array` and `bulk_payload`. The functions nothing calls are left out.

Of the frontend: the catalogues of mnemonics, OIDs, severities and MIBs (Console knows
that a popup opens them, no more); two editors at once, and the renders of RuleEditors
that throw, in Console's `BlankOnlyOnTrapSignals`, which speaks of the views; the pings of devices and their websocket; the
notifications, which change nothing they report; the Nmap popup, and the header's deep
scan, which fails whatever the backend answers; the performance charts, the topology
graph, the theme and the profile; the components nothing mounts; wording, layout and
the width and order of columns. InterfaceTable is not composed with DevicePage, since
any choice of devices is allowed in it. Timers (the refresh of tokens and of device
status) are steps that may come at any time.

## 6. Plan

1. The catalogue editors (mnemonics, OIDs, severities), whose forms are refilled by any
   answer, as variants of RuleEditors; then the pings of devices.
2. `SignalUploads`: the bulk payload of the signal service under both threads
   (`opensearch.c:147-278`), and rules freed while a match points to them
   (`rules.c:30`, `process.c:99`).
3. A trap variant of EventBuffer, and the mnemonic cache.
4. `SignalTasks`: the Python service and its delayed tasks; the case of interest is
   a timer set before a reopening that closes the signal early
   (`src/signals/syslog-signals.py:264`).
5. The syslog producer's batch, the pinger, the topology and websocket services.
6. An abstract specification of the event consumer in the manner of `FlowDelivery`, with
   the events a drain may lose.
