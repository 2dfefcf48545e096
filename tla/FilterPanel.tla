---------------------------- MODULE FilterPanel ----------------------------
(***************************************************************************)
(* A filter popup of the frontend: SyslogSignalFilters, SyslogEventFilters,*)
(* SnmpTrapEventFilters or FilterTraffic.  The panel keeps the values      *)
(* chosen so far, and per field the options it has loaded.  Options are    *)
(* asked for when a menu opens, filtered by the other fields, and kept for *)
(* as long as the panel is open.                                           *)
(*                                                                         *)
(* A field either has values chosen or not; the options of a field are the *)
(* set of the other fields they were filtered by.                          *)
(***************************************************************************)
EXTENDS Naturals, Sequences, FiniteSets, SequencesExt, Functions

VARIABLES
  chosen,        \* the fields with values: selectedFilters
  options,       \* filterOptions: per loaded field, [others, moved]
  loadingField,  \* the one field drawn as loading, or NoField
  optionRequests \* the questions in flight, oldest first

panelVars == <<chosen, options, loadingField, optionRequests>>

NoField == "no field"

\* `moved` is no state of the code: it says what changed the choice since the
\* options were asked for.
Moves == {"no", "chosen", "kept", "late"}

(* The panels: the fields they draw (two of each; the rest behave like     *)
(* them), whether a search reaches App's filters and whether a reset drops *)
(* the options.                                                            *)

SyslogEventFields  == {"device", "severity"}
SyslogSignalFields == {"device", "severity"}
SnmpTrapEventFields == {"device", "snmpTrapOid"}
TrafficFields      == {"device", "protocol"}

SyslogEventFilters ==
  [fields |-> SyslogEventFields, applies |-> TRUE, clears |-> TRUE]
SyslogSignalFilters ==
  [fields |-> SyslogSignalFields, applies |-> TRUE, clears |-> TRUE]
\* App gives it a callback that only logs.
SnmpTrapEventFilters ==
  [fields |-> SnmpTrapEventFields, applies |-> FALSE, clears |-> FALSE]
FilterTraffic ==
  [fields |-> TrafficFields, applies |-> TRUE, clears |-> TRUE]

FilterPanelOf(name) ==
  CASE name = "SyslogEventFilters"   -> SyslogEventFilters
    [] name = "SyslogSignalFilters"  -> SyslogSignalFilters
    [] name = "SnmpTrapEventFilters" -> SnmpTrapEventFilters
    [] name = "FilterTraffic"        -> FilterTraffic

FilterPanels == {"SyslogEventFilters", "SyslogSignalFilters",
                 "SnmpTrapEventFilters", "FilterTraffic"}

-----------------------------------------------------------------------------
PanelClosed == /\ chosen = {}
               /\ options = << >>
               /\ loadingField = NoField
               /\ optionRequests = << >>

\* A panel keeps nothing when it closes; the answers still to come are lost
\* on a component that is gone.
PanelCloses == /\ chosen' = {}
               /\ options' = << >>
               /\ loadingField' = NoField
               /\ optionRequests' = << >>

OtherFields(field) == chosen \ {field}

\* onMenuOpen: nothing is asked for a field loaded before.
OpenMenu(panel, field) ==
  /\ field \in panel.fields
  /\ field \notin DOMAIN options
  /\ loadingField' = field
  /\ optionRequests' = Append(optionRequests,
       [field |-> field, others |-> OtherFields(field), moved |-> "no"])
  /\ UNCHANGED <<chosen, options>>

\* Any answer ends the one loading sign, whichever field it is about.
OptionsArrive(i) ==
  LET request == optionRequests[i] IN
  /\ options' = [f \in DOMAIN options \union {request.field} |->
                   IF f = request.field
                   THEN [others |-> request.others, moved |-> request.moved]
                   ELSE options[f]]
  /\ optionRequests' = RemoveAt(optionRequests, i)
  /\ loadingField' = NoField
  /\ UNCHANGED chosen

OptionsFail(i) ==
  /\ optionRequests' = RemoveAt(optionRequests, i)
  /\ loadingField' = NoField
  /\ UNCHANGED <<chosen, options>>

\* What was asked or loaded for the other fields no longer fits the choice.
MovedOn(old) == [old EXCEPT !.moved = "chosen"]

\* handleChange: values are taken from the options, or taken back.
Choose(field) ==
  /\ field \in chosen \union DOMAIN options
  /\ chosen' = IF field \in chosen THEN chosen \ {field}
               ELSE chosen \union {field}
  /\ options' = [f \in DOMAIN options |->
                   IF f = field THEN options[f] ELSE MovedOn(options[f])]
  /\ optionRequests' = [i \in DOMAIN optionRequests |->
                   IF optionRequests[i].field = field THEN optionRequests[i]
                   ELSE MovedOn(optionRequests[i])]
  /\ UNCHANGED loadingField

\* Mutant: the options outlive the choice they were filtered by.
ResetKeepsOptions(panel) ==
  /\ chosen' = {}
  /\ options' = [f \in DOMAIN options |-> [options[f] EXCEPT !.moved = "kept"]]
  /\ optionRequests' = [i \in DOMAIN optionRequests |->
                          [optionRequests[i] EXCEPT !.moved = "late"]]
  /\ UNCHANGED loadingField

\* handleReset: the choice goes, and in most panels the options with it.
Reset(panel) ==
  /\ chosen' = {}
  /\ options' = IF panel.clears THEN << >>
                ELSE [f \in DOMAIN options |-> [options[f] EXCEPT !.moved = "kept"]]
  /\ optionRequests' = [i \in DOMAIN optionRequests |->
                          [optionRequests[i] EXCEPT !.moved = "late"]]
  /\ UNCHANGED loadingField

-----------------------------------------------------------------------------
\* The options listed for a field fit the values chosen in the others, unless
\* those were chosen after the options were asked for, or the answer arrived
\* after a reset (loadOptions and handleReset of the panels), or the panel is
\* the one whose reset keeps its options.
OptionsFit(panel) ==
  \A f \in DOMAIN options :
    \/ options[f].others = OtherFields(f)
    \/ options[f].moved \in {"chosen", "late"}
    \/ options[f].moved = "kept" /\ ~panel.clears
=============================================================================
