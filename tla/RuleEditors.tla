---------------------------- MODULE RuleEditors ----------------------------
(***************************************************************************)
(* Four popups that edit what the backend holds, each a list, a form and   *)
(* the buttons Add, Save and Delete: the regular expressions of the        *)
(* syslogs, the tags of the traps, and the stateful rules of both.  They   *)
(* keep what their hooks load, ask the backend with kcFetch, and nothing   *)
(* tells the answers of two clicks apart.                                  *)
(***************************************************************************)
EXTENDS Naturals

CONSTANTS Names, NoName, Nobody,
          FirstStored,   \* what the backend holds at the start
          MaxClicks      \* bound: what the user asks for

ASSUME RuleEditorsAssumption ==
  /\ NoName \notin Names /\ Nobody \notin Names \union {NoName}
  /\ Nobody \notin [name : Names \union {NoName}, full : BOOLEAN]
  /\ FirstStored \subseteq Names /\ MaxClicks \in Nat

VARIABLES
  editor,    \* the popup that is open
  stored,    \* the names the backend holds
  tags,      \* useSyslogTags has loaded the options of the rules
  list,      \* the hook's list: items with a name, and all fields or not
  picked,    \* selectedRegex, selectedTag, selectedRule; in the trap rules,
             \* whose form is the selection, history: the rule clicked last
  adding,    \* isAddNew, isAddingNewRule
  kept,      \* editedData of the syslog rules, NoItem for {}
  form,      \* [of, name, full]: the item it was filled from, the name in it,
             \* whether the other fields are filled
  loading,   \* the hook's flag, of the two editors that look at it
  pressed,   \* loadingState, of the two editors that look at it
  blank,     \* a render threw: nothing is drawn any more
  kc,        \* keycloak.authenticated
  requests,  \* in flight: [id, does, name, item, after, state, names]
  sent,      \* source of ids
  astray,    \* history: since the form was last chosen, something was clicked
             \* while an answer was due, or the details did not come in time
  lies,      \* history: the successes announced of what the backend did not do
  clicks     \* bound

panelVars == <<list, picked, adding, kept, form>>
flagVars == <<loading, pressed, blank>>
netVars == <<requests, sent>>
vars == <<editor, stored, tags, panelVars, flagVars, kc, netVars, astray, lies, clicks>>

Labels == Names \union {NoName}
Items == [name : Labels, full : BOOLEAN]
NoItem == [name |-> NoName, full |-> FALSE]
EmptyForm == [of |-> Nobody, name |-> NoName, full |-> FALSE]
ListAsForm == [of |-> NoName, name |-> NoName, full |-> FALSE]
Brief(name) == [name |-> name, full |-> FALSE]
Filled(name) == [of |-> name, name |-> name, full |-> TRUE]
Content == [name |-> form.name, full |-> form.full]

-----------------------------------------------------------------------------
(* The editors: whether they are hidden while loading, and draw the error  *)
(* object of a failed load, which throws; whether Add, Save and Delete are *)
(* disabled while pressed; whether the name of an item can be changed; how *)
(* often a change loads the list; whether their hooks skip a request, of   *)
(* what has no name or in a session that has expired, and tell nobody;     *)
(* what they cannot read the answer of.                                    *)

\* The answer to a delete is an object.
RegularExpressions ==
  [hides |-> FALSE, disables |-> TRUE, renames |-> FALSE, loads |-> 1,
   skips |-> TRUE, deaf |-> {}]

\* The list is made of labels and values: none of its rows has the name that
\* is drawn and picked by.  The buttons look at a state that is never set.
SnmpTrapTagConfig ==
  [hides |-> FALSE, disables |-> FALSE, renames |-> FALSE, loads |-> 2,
   skips |-> TRUE, deaf |-> {"remove"}]

\* The backend's answer to an update lacks fields its own schema requires.
StatefulSyslogRules ==
  [hides |-> TRUE, disables |-> FALSE, renames |-> TRUE, loads |-> 0,
   skips |-> FALSE, deaf |-> {"remove", "update"}]

StatefulSnmpTrapRules ==
  [hides |-> TRUE, disables |-> TRUE, renames |-> TRUE, loads |-> 1,
   skips |-> FALSE, deaf |-> {"remove"}]

Editors == {"regex", "trapTags", "syslogRules", "trapRules"}

Editor == CASE editor = "regex"       -> RegularExpressions
            [] editor = "trapTags"    -> SnmpTrapTagConfig
            [] editor = "syslogRules" -> StatefulSyslogRules
            [] editor = "trapRules"   -> StatefulSnmpTrapRules

-----------------------------------------------------------------------------
(* Requests.  A change that succeeded loads the list, left times, before   *)
(* it is announced; did tells whether the backend made it.                 *)

NoEnd == [does |-> "none", name |-> NoName, did |-> FALSE, left |-> 0,
          expired |-> FALSE]
Ending(does, name, did) == [does |-> does, name |-> name, did |-> did,
                            left |-> Editor.loads, expired |-> FALSE]

\* kcFetch throws in a session that has expired, and asks nobody.
Asking(does, name, item, after) ==
  [id |-> sent + 1, does |-> does, name |-> name, item |-> item,
   after |-> after, state |-> IF kc THEN "sent" ELSE "refused", names |-> {}]

Asked(rest, request) == requests' = rest \union {request} /\ sent' = sent + 1
Reload(rest, after) == Asked(rest, Asking("list", NoName, NoItem, after))

\* The answers that may fill the form.
Due == {r \in requests : r.does # "list" \/ r.after # NoEnd}

-----------------------------------------------------------------------------
(* The clicks. *)

Drawn == ~blank /\ ~(Editor.hides /\ loading)

\* What was to be the details of a syslog rule without a name is the list: the
\* render looks into an affectedentity it has not, once there are options.
ListShown == editor = "syslogRules" /\ form.of = NoName /\ ~form.full

Clicked == /\ Drawn /\ clicks < MaxClicks /\ clicks' = clicks + 1
           /\ UNCHANGED <<editor, stored, tags, list, blank, kc>>

\* A new item, or another one, is to be in the form.
Chosen == Clicked /\ astray' = (Due # {}) /\ UNCHANGED <<pressed, lies>>

\* handleSelect of RegEx.js; get has nothing to ask for, or nobody to ask.
PickRegex(item) ==
  /\ item \in list
  /\ IF kc \/ item.name = NoName THEN Chosen
     ELSE Clicked /\ astray' = TRUE /\ UNCHANGED <<pressed, lies>>
  /\ picked' = item /\ adding' = FALSE
  /\ IF kc /\ item.name # NoName
     THEN Asked(requests, Asking("get", item.name, NoItem, NoEnd))
     ELSE UNCHANGED netVars
  /\ UNCHANGED <<kept, form, loading>>

\* handleSelect of Tag-Config.js: get(tag.name) has no name to ask for.
PickTag ==
  /\ Chosen
  /\ picked' = NoItem /\ adding' = FALSE
  /\ UNCHANGED <<kept, form, loading, netVars>>

\* handleOptionChange, selectRule.
PickSyslogRule(item) ==
  /\ Chosen /\ item \in list
  /\ picked' = item /\ kept' = item /\ adding' = FALSE /\ loading' = TRUE
  /\ Asked(requests, Asking("get", item.name, NoItem, NoEnd))
  /\ UNCHANGED form

\* handleSelect of signals/snmptraps/StatefulRules.js: the item of the list is
\* the form until its details come.
PickTrapRule(item) ==
  /\ Chosen /\ item \in list
  /\ picked' = item /\ adding' = FALSE /\ loading' = TRUE
  /\ form' = [of |-> item.name, name |-> item.name, full |-> item.full]
  /\ Asked(requests, Asking("get", item.name, NoItem, NoEnd))
  /\ UNCHANGED kept

Pick == \/ editor = "regex" /\ \E item \in list : PickRegex(item)
        \/ editor = "trapTags" /\ PickTag
        \/ editor = "syslogRules" /\ \E item \in list : PickSyslogRule(item)
        \/ editor = "trapRules" /\ \E item \in list : PickTrapRule(item)

\* Mutant: nothing is left to be edited, not even {}.
AddNewDropsEdits ==
  /\ Chosen
  /\ adding' = (adding \/ editor # "trapRules")
  /\ picked' = IF editor = "syslogRules" THEN picked ELSE Nobody
  /\ kept' = Nobody /\ form' = EmptyForm
  /\ UNCHANGED <<loading, netVars>>

\* Add New.  In the trap rules it does not go back to adding.
AddNew ==
  /\ Chosen
  /\ adding' = (adding \/ editor # "trapRules")
  /\ picked' = IF editor = "syslogRules" THEN picked ELSE Nobody
  /\ kept' = NoItem /\ form' = EmptyForm
  /\ UNCHANGED <<loading, netVars>>

\* Cancel; that of the syslog rules calls a boolean, and nothing comes of it.
Cancel ==
  /\ editor \in {"regex", "trapRules"} /\ adding
  /\ Chosen
  /\ form' = EmptyForm
  /\ UNCHANGED <<picked, adding, kept, loading, netVars>>

\* The fields of the form; a list has no affectedentity to fill.
Type ==
  /\ Drawn
  /\ \/ \E n \in Labels : /\ adding \/ Editor.renames
                          /\ form' = [form EXCEPT !.name = n]
     \/ ~ListShown /\ form' = [form EXCEPT !.full = TRUE]
  /\ UNCHANGED <<editor, stored, tags, list, picked, adding, kept, flagVars,
                 kc, netVars, astray, lies, clicks>>

\* What handleAdd, handleSave and handleDelete do last; was is the button that
\* was pressed.
RegexEnded(does, was) ==
  /\ adding' = TRUE
  /\ picked' = IF does = "create" THEN picked ELSE Nobody
  /\ pressed' = IF does = "remove" THEN was ELSE "none"

TagEnded(does) ==
  /\ adding' = TRUE
  /\ picked' = IF does = "create" THEN picked ELSE Nobody
  /\ UNCHANGED pressed

TrapRuleEnded(does, was) ==
  /\ picked' = Nobody
  /\ pressed' = IF does = "remove" THEN was ELSE "none"
  /\ UNCHANGED adding

Ended(after, was) ==
  /\ lies' = IF after.did THEN lies
             ELSE lies \union {[does |-> after.does, name |-> after.name,
                                expired |-> after.expired]}
  /\ CASE editor = "regex"     -> RegexEnded(after.does, was)
       [] editor = "trapTags"  -> TagEnded(after.does)
       [] editor = "trapRules" -> TrapRuleEnded(after.does, was)

\* Mutant: the form keeps the item.
AnnouncedKeepsForm(after, was) == Ended(after, was) /\ UNCHANGED form

Announced(after, was) == Ended(after, was) /\ form' = EmptyForm

\* create, update and remove of useSyslogRegEx and of useSnmpTrapTags return
\* where the session has expired, as does the load of the list: the handler
\* announces a success at once.
Unsent(does, name) ==
  /\ Announced([Ending(does, name, FALSE) EXCEPT !.expired = TRUE], does)
  /\ UNCHANGED netVars

\* A hook that skips a request without a name returns at once, and the handler
\* goes on to load the list.
Sent(does, name, item) ==
  /\ pressed' = IF Editor.disables THEN does ELSE pressed
  /\ IF Editor.skips /\ does # "create" /\ name = NoName
     THEN Reload(requests, [Ending(does, name, FALSE) EXCEPT !.left = 1])
     ELSE Asked(requests, Asking(does, name, item, NoEnd))
  /\ UNCHANGED <<picked, adding, form, lies>>

\* A button that asks the backend.
Pressed(does, name, item) ==
  /\ Clicked
  /\ IF Editor.skips /\ ~kc THEN Unsent(does, name) ELSE Sent(does, name, item)
  /\ astray' = (astray \/ Due # {})
  /\ UNCHANGED <<kept, loading>>

\* handleAdd, handleAddRule.
Add == /\ adding /\ pressed # "create"
       /\ Pressed("create", form.name, Content)

CanChange(does) == /\ ~adding /\ pressed # does
                   /\ picked # Nobody \/ editor = "trapRules"

\* handleSave of the regular expressions and of the tags: what the form holds,
\* under the name in it.
SaveForm == /\ editor \in {"regex", "trapTags"} /\ CanChange("update")
            /\ Pressed("update", form.name, Content)

\* handleSave of the syslog rules sends the item of the list that was picked,
\* not the form.
SaveSyslogRule == /\ editor = "syslogRules" /\ CanChange("update")
                  /\ Pressed("update", picked.name, kept)

\* The backend wants the id of the rule, which a composed one has not.
SaveTrapRule ==
  /\ editor = "trapRules" /\ CanChange("update")
  /\ Pressed("update", form.name, [Content EXCEPT !.full = @ /\ form.of # Nobody])

\* handleDelete.
Delete == /\ editor # "trapRules" /\ CanChange("remove")
          /\ Pressed("remove", picked.name, NoItem)

DeleteTrapRule == /\ editor = "trapRules" /\ CanChange("remove")
                  /\ Pressed("remove", form.name, NoItem)

\* useSyslogTags answers.
TagsArrive ==
  /\ editor = "syslogRules" /\ ~tags /\ ~blank
  /\ tags' = TRUE /\ blank' = (ListShown /\ ~loading)
  /\ UNCHANGED <<editor, stored, panelVars, loading, pressed, kc, netVars, astray,
                 lies, clicks>>

\* keycloak drops the token, after the popup was opened.
SessionExpires ==
  /\ kc /\ ~blank
  /\ kc' = FALSE
  /\ UNCHANGED <<editor, stored, tags, panelVars, flagVars, netVars, astray, lies,
                 clicks>>

-----------------------------------------------------------------------------
(* The backend. *)

\* There is no route to change what has no name, and that to get it is the one
\* of the list.
Accepts(r) ==
  LET known == r.name \in stored \ {NoName}
      filled == r.item.full \/ editor = "trapTags"
      free == r.item.name \notin stored
  IN CASE r.does = "list"   -> TRUE
       [] r.does = "get"    -> known \/ r.name = NoName
       [] r.does = "create" -> filled /\ free
       [] r.does = "update" -> known /\ filled /\ (free \/ r.item.name = r.name)
       [] r.does = "remove" -> known

StoredAfter(r) ==
  CASE r.does = "create" -> stored \union {r.item.name}
    [] r.does = "update" -> (stored \ {r.name}) \union {r.item.name}
    [] r.does = "remove" -> stored \ {r.name}
    [] OTHER             -> stored

\* It may refuse what Accepts lets pass: Fail takes a request not yet served.
Serve(r) ==
  /\ ~blank /\ r.state = "sent"
  /\ LET ok == Accepts(r)
     IN /\ stored' = IF ok THEN StoredAfter(r) ELSE stored
        /\ requests' = (requests \ {r}) \union
             {[r EXCEPT !.state = IF ok THEN "done" ELSE "refused",
                        !.names = IF r.does = "list" THEN stored ELSE {}]}
  /\ UNCHANGED <<editor, tags, panelVars, flagVars, kc, sent, astray, lies, clicks>>

-----------------------------------------------------------------------------
(* The answers. *)

Rest(r) == requests \ {r}

\* loadList is over, well or not; the handlers cannot tell.  A second load is
\* not asked for in a session that has expired.
ListOver(r) ==
  LET again == r.after.left > 1 /\ kc
  IN /\ loading' = FALSE
     /\ IF again THEN Reload(Rest(r), [r.after EXCEPT !.left = @ - 1])
        ELSE requests' = Rest(r) /\ UNCHANGED sent
     /\ IF ~again /\ r.after.left > 0 THEN Announced(r.after, pressed)
        ELSE UNCHANGED <<picked, adding, form, pressed, lies>>
     /\ UNCHANGED <<kept, astray>>

ListArrives(r) ==
  /\ r.does = "list" /\ r.state = "done"
  /\ list' = {Brief(n) : n \in r.names \ (IF editor = "trapTags" THEN {NoName} ELSE {})}
  /\ ListOver(r) /\ UNCHANGED blank

\* get, and the effect on details.  To the trap rules a list is a rule with no
\* field filled.
DetailsArrive(r) ==
  /\ r.does = "get" /\ r.state = "done"
  /\ form' = IF r.name # NoName THEN Filled(r.name)
             ELSE IF editor = "syslogRules" THEN ListAsForm ELSE EmptyForm
  /\ loading' = FALSE /\ blank' = (r.name = NoName /\ tags)
  /\ requests' = Rest(r)
  /\ UNCHANGED <<list, picked, adding, kept, pressed, sent, astray, lies>>

Heard(r) == r.state = "done" /\ r.does \notin Editor.deaf
Change == {"create", "update", "remove"}

\* The list is loaded; in a session that has expired it is not, and the success
\* is announced before the effect on details fills the form.
Changed(r) ==
  LET end == Ending(r.does, r.name, r.state = "done")
      fills == r.does # "remove"
  IN IF kc
     THEN /\ Reload(Rest(r), end)
          /\ form' = IF fills THEN Filled(r.item.name) ELSE form
          /\ UNCHANGED <<picked, adding, pressed, astray, lies>>
     ELSE /\ Ended(end, pressed)
          /\ form' = IF fills THEN Filled(r.item.name) ELSE EmptyForm
          /\ astray' = (astray \/ fills)
          /\ requests' = Rest(r) /\ UNCHANGED sent

\* create, update and remove of useSyslogRegEx and of useSnmpTrapTags.
ItemChanged(r) == Changed(r) /\ UNCHANGED <<list, kept, loading, blank>>

\* addRule and updateRule of useStatefulSnmpTrapRules, and the reload.
TrapRuleChanged(r) ==
  /\ Changed(r)
  /\ list' = IF r.does = "create" THEN list \union {r.item}
             ELSE {IF i.name = r.name THEN r.item ELSE i : i \in list}
  /\ loading' = (kc \/ loading)
  /\ UNCHANGED <<kept, blank>>

\* addRule of useStatefulSyslogRules, then handleAddRule empties newRule before
\* the effect fills it: a render in between looks into a list that is not
\* there, and throws once there are options to look for.
SyslogRuleAdded(r) ==
  /\ list' = list \union {r.item} /\ picked' = r.item /\ adding' = FALSE
  /\ form' = Filled(r.item.name)
  /\ blank' = (tags /\ ~loading)
  /\ requests' = Rest(r)
  /\ UNCHANGED <<kept, loading, pressed, sent, astray, lies>>

ChangeArrives(r) ==
  /\ r.does \in Change /\ Heard(r)
  /\ CASE editor = "syslogRules" -> SyslogRuleAdded(r)
       [] editor = "trapRules"   -> TrapRuleChanged(r)
       [] OTHER                  -> ItemChanged(r)

Answer(r) == /\ ~blank
             /\ ListArrives(r) \/ DetailsArrive(r) \/ ChangeArrives(r)
             /\ UNCHANGED <<editor, stored, tags, kc, clicks>>

\* The load of a hook fails: the regular expressions and the tags keep their
\* list; of the rules' hooks the error object is drawn, which throws.
ListFails(r) ==
  /\ r.does = "list"
  /\ IF Editor.hides
     THEN /\ blank' = TRUE /\ requests' = Rest(r)
          /\ UNCHANGED <<panelVars, loading, pressed, sent, astray, lies>>
     ELSE ListOver(r) /\ UNCHANGED <<list, blank>>

DetailsFail(r) ==
  /\ r.does = "get"
  /\ blank' = Editor.hides /\ astray' = TRUE
  /\ requests' = Rest(r)
  /\ UNCHANGED <<panelVars, loading, pressed, sent, lies>>

\* Mutant: the catch of the hook keeps the error to itself.
ChangeFailsUnheard(r) ==
  /\ r.does \in Change
  /\ IF Editor.hides
     THEN /\ pressed' = "none" /\ requests' = Rest(r)
          /\ UNCHANGED <<panelVars, loading, blank, sent, astray, lies>>
     ELSE /\ Reload(Rest(r), Ending(r.does, r.name, r.state = "done"))
          /\ UNCHANGED <<panelVars, flagVars, astray, lies>>

\* create, update and remove throw on, and the handlers end: what the backend
\* did, and kcFetch could not read, has failed too.
ChangeFails(r) ==
  /\ r.does \in Change
  /\ pressed' = "none" /\ requests' = Rest(r)
  /\ UNCHANGED <<panelVars, loading, blank, sent, astray, lies>>

Fail(r) == /\ ~blank
           /\ ListFails(r) \/ DetailsFail(r) \/ ChangeFails(r)
           /\ UNCHANGED <<editor, stored, tags, kc, clicks>>

-----------------------------------------------------------------------------
\* The popup is opened, in a session: its hook loads the list.
Init ==
  /\ editor \in Editors
  /\ stored = FirstStored /\ tags = FALSE
  /\ list = {} /\ picked = Nobody /\ adding = TRUE
  /\ kept = NoItem /\ form = EmptyForm
  /\ loading = Editor.hides /\ pressed = "none" /\ blank = FALSE
  /\ kc = TRUE
  /\ requests = {[id |-> 1, does |-> "list", name |-> NoName, item |-> NoItem,
                  after |-> NoEnd, state |-> "sent", names |-> {}]}
  /\ sent = 1
  /\ astray = FALSE /\ lies = {} /\ clicks = 0

Next == \/ Pick \/ AddNew \/ Cancel \/ Type
        \/ Add \/ SaveForm \/ SaveSyslogRule \/ SaveTrapRule
        \/ Delete \/ DeleteTrapRule
        \/ TagsArrive \/ SessionExpires
        \/ \E r \in requests : Serve(r) \/ Answer(r) \/ Fail(r)

Spec == Init /\ [][Next]_vars

-----------------------------------------------------------------------------
Dones == Change \union {"none"}
Ends == [does : Dones, name : Labels, did : BOOLEAN, left : 0..2,
         expired : BOOLEAN]

TypeOK ==
  /\ editor \in Editors /\ stored \subseteq Labels /\ tags \in BOOLEAN
  /\ list \subseteq Items /\ picked \in Items \union {Nobody}
  /\ adding \in BOOLEAN /\ kept \in Items
  /\ form \in [of : Labels \union {Nobody}, name : Labels, full : BOOLEAN]
  /\ loading \in BOOLEAN /\ pressed \in Dones /\ blank \in BOOLEAN
  /\ kc \in BOOLEAN
  /\ \A r \in requests :
       /\ r.id \in 1..sent /\ r.does \in Change \union {"list", "get"}
       /\ r.name \in Labels /\ r.item \in Items /\ r.after \in Ends
       /\ r.state \in {"sent", "done", "refused"} /\ r.names \subseteq Labels
  /\ sent \in Nat /\ astray \in BOOLEAN
  /\ lies \subseteq [does : Change, name : Labels, expired : BOOLEAN]
  /\ clicks \in 0..MaxClicks

\* With nothing on its way, the form holds the item that is picked, and none of
\* the backend's when none is, or when a new one is to be added; unless the user
\* clicked while an answer was due, or the details could not be had, or, in a
\* session that expired, filled the form after the change was announced.  Save
\* writes the form, Delete takes the pick (handleSelect, the effect on details
\* and the ends of handleAdd, handleSave and handleDelete).
ShownIsPicked ==
  Due = {} /\ ~blank /\ ~astray =>
    IF adding \/ picked = Nobody THEN form.of = Nobody
    ELSE picked.name # NoName => form.of = picked.name

\* A success is announced of what the backend did, and of nothing else, but for
\* what the hooks of the regular expressions and of the tags do not even send:
\* a change of what has no name, as every delete of a trap tag is, and one asked
\* for after the session had expired (the errors create, update and remove throw
\* on, and what handleAdd, handleSave and handleDelete take for a success).
ToldTheTruth == \A lie \in lies : Editor.skips /\ (lie.name = NoName \/ lie.expired)
=============================================================================
