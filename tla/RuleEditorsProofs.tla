-------------------------- MODULE RuleEditorsProofs --------------------------
(***************************************************************************)
(* What RuleEditors promises, for any items and any number of clicks.      *)
(***************************************************************************)
EXTENDS RuleEditors, TLAPS

Kinds == Change \union {"list", "get"}
Requests == [id : Nat, does : Kinds, name : Labels, item : Items, after : Ends,
             state : {"sent", "done", "refused"}, names : SUBSET Labels]

TypeInv == TypeOK /\ requests \subseteq Requests

\* What a load of the list is followed by is the end of a change, which the
\* backend made unless the hook skipped it.  Syslog rules load no list.
AfterInv ==
  \A r \in requests : r.after # NoEnd =>
    /\ r.does = "list" /\ editor # "syslogRules"
    /\ r.after.left \in {1, 2} /\ r.after.does \in Change
    /\ r.after.did \/ (Editor.skips /\ r.after.name = NoName)

\* The form holds what is picked.
Matches ==
  IF adding \/ picked = Nobody THEN form.of = Nobody
  ELSE picked.name # NoName => form.of = picked.name

\* As long as no click went astray one answer is due: the details of what is
\* picked, a change of what the form holds, or the list that ends one.
FormInv ==
  ~blank /\ ~astray =>
    /\ \A r, s \in Due : r = s
    /\ (\A r \in Due : r.does \in Change) => Matches
    /\ \A r \in Due : r.does = "get" => /\ ~adding /\ picked # Nobody
                                        /\ picked.name = r.name

IInv == TypeInv /\ AfterInv /\ ToldTheTruth /\ FormInv

-----------------------------------------------------------------------------
(* Lemmas about the operators. *)

LEMMA EditorFacts ==
    ASSUME editor \in Editors
    PROVE  /\ Editor.loads \in 0..2 /\ Editor.hides \in BOOLEAN
           /\ editor # "syslogRules" => Editor.loads \in {1, 2}
           /\ editor = "syslogRules" => /\ ~Editor.skips
                                        /\ "update" \in Editor.deaf /\ "remove" \in Editor.deaf
  <1>1. CASE editor = "regex"
    <2>1. Editor = RegularExpressions
      BY <1>1 DEF Editor
    <2>2. QED
      BY <1>1, <2>1 DEF RegularExpressions
  <1>2. CASE editor = "trapTags"
    <2>1. Editor = SnmpTrapTagConfig
      BY <1>2 DEF Editor
    <2>2. QED
      BY <1>2, <2>1 DEF SnmpTrapTagConfig
  <1>3. CASE editor = "syslogRules"
    <2>1. Editor = StatefulSyslogRules
      BY <1>3 DEF Editor
    <2>2. QED
      BY <1>3, <2>1 DEF StatefulSyslogRules
  <1>4. CASE editor = "trapRules"
    <2>1. Editor = StatefulSnmpTrapRules
      BY <1>4 DEF Editor
    <2>2. QED
      BY <1>4, <2>1 DEF StatefulSnmpTrapRules
  <1>5. QED
    BY <1>1, <1>2, <1>3, <1>4 DEF Editors

LEMMA EditorKept == ASSUME editor' = editor PROVE Editor' = Editor
  BY DEF Editor

LEMMA NameFacts ==
    /\ NoName \in Labels /\ NoItem \in Items /\ NoItem.name = NoName
    /\ Nobody \notin Labels /\ Nobody \notin Items
    /\ NoEnd \in Ends /\ NoEnd.left = 0
    /\ EmptyForm.of = Nobody
    /\ EmptyForm \in [of : Labels \union {Nobody}, name : Labels, full : BOOLEAN]
    /\ ListAsForm \in [of : Labels \union {Nobody}, name : Labels, full : BOOLEAN]
    /\ \A n \in Labels : /\ Filled(n) \in [of : Labels \union {Nobody}, name : Labels, full : BOOLEAN]
                         /\ Filled(n).of = n /\ Brief(n) \in Items
  BY RuleEditorsAssumption DEF Labels, Items, NoItem, NoEnd, Ends, Dones, EmptyForm,
       ListAsForm, Filled, Brief

LEMMA ChangeFacts ==
    /\ Change = {"create", "update", "remove"}
    /\ "list" \notin Change /\ "get" \notin Change
  BY DEF Change

LEMMA AskingFacts ==
    ASSUME sent \in Nat, NEW does \in Kinds, NEW name \in Labels, NEW item \in Items,
           NEW after \in Ends
    PROVE  LET new == Asking(does, name, item, after)
           IN /\ new \in Requests /\ new.id = sent + 1 /\ new.does = does
              /\ new.name = name /\ new.item = item /\ new.after = after
  BY DEF Asking, Requests

LEMMA EndingFacts ==
    ASSUME editor \in Editors, NEW does \in Change, NEW name \in Labels, NEW did \in BOOLEAN
    PROVE  LET end == Ending(does, name, did)
           IN /\ end \in Ends /\ end.does = does /\ end.name = name /\ end.did = did
              /\ end.left = Editor.loads /\ end.expired = FALSE
  BY EditorFacts DEF Ending, Ends, Dones

\* The requests and their ids after one more was sent.
LEMMA AskedFacts ==
    ASSUME TypeInv, NEW rest \in SUBSET requests, NEW new \in Requests, new.id = sent + 1,
           Asked(rest, new)
    PROVE  /\ requests' \subseteq Requests /\ sent' \in Nat
           /\ requests' = rest \union {new}
           /\ \A r \in requests' : r.id \in 1..sent'
  BY DEF TypeInv, TypeOK, Asked

LEMMA RestFacts ==
    ASSUME TypeInv, NEW r \in requests
    PROVE  /\ r \in Requests /\ Rest(r) \subseteq requests /\ Rest(r) \subseteq Requests
           /\ r.does \in Kinds /\ r.name \in Labels /\ r.item \in Items
           /\ r.after \in Ends /\ r.names \subseteq Labels /\ r.id \in 1..sent
  BY DEF TypeInv, TypeOK, Rest, Requests

\* TypeOK by its variables, but for those of the requests.
Types ==
  /\ editor \in Editors /\ stored \subseteq Labels /\ tags \in BOOLEAN
  /\ list \subseteq Items /\ picked \in Items \union {Nobody}
  /\ adding \in BOOLEAN /\ kept \in Items
  /\ form \in [of : Labels \union {Nobody}, name : Labels, full : BOOLEAN]
  /\ loading \in BOOLEAN /\ pressed \in Dones /\ blank \in BOOLEAN
  /\ kc \in BOOLEAN /\ astray \in BOOLEAN
  /\ lies \subseteq [does : Change, name : Labels, expired : BOOLEAN]
  /\ clicks \in 0..MaxClicks

RequestTypes ==
  /\ requests \subseteq Requests /\ sent \in Nat
  /\ \A r \in requests : r.id \in 1..sent

LEMMA TypeParts == TypeInv <=> Types /\ RequestTypes
  <1>1. ASSUME requests \subseteq Requests, NEW r \in requests
        PROVE  /\ r.does \in Change \union {"list", "get"}
               /\ r.name \in Labels /\ r.item \in Items /\ r.after \in Ends
               /\ r.state \in {"sent", "done", "refused"} /\ r.names \subseteq Labels
    BY <1>1 DEF Requests, Kinds
  <1>2. QED
    BY <1>1 DEF TypeInv, TypeOK, Types, RequestTypes

-----------------------------------------------------------------------------
(* The requests after a step. *)

GoodEnd(r) ==
  r.after # NoEnd =>
    /\ r.does = "list" /\ editor # "syslogRules"
    /\ r.after.left \in {1, 2} /\ r.after.does \in Change
    /\ r.after.did \/ (Editor.skips /\ r.after.name = NoName)

LEMMA Sends ==
    ASSUME TypeInv, AfterInv, editor' = editor, NEW rest \in SUBSET requests,
           NEW new \in Requests, new.id = sent + 1, GoodEnd(new), Asked(rest, new)
    PROVE  /\ RequestTypes' /\ AfterInv'
           /\ Due' = (Due \intersect rest)
                      \union (IF new.does # "list" \/ new.after # NoEnd THEN {new} ELSE {})
  <1>1. RequestTypes' /\ requests' = rest \union {new}
    BY AskedFacts DEF RequestTypes
  <1>2. AfterInv'
    BY <1>1, EditorKept DEF AfterInv, GoodEnd
  <1>3. QED
    BY <1>1, <1>2 DEF Due

LEMMA SendsNothing ==
    ASSUME TypeInv, AfterInv, editor' = editor, requests' \subseteq requests, sent' = sent
    PROVE  RequestTypes' /\ AfterInv' /\ Due' = Due \intersect requests'
  BY TypeParts, EditorKept DEF RequestTypes, AfterInv, Due

LEMMA Whole ==
    ASSUME Types', RequestTypes', AfterInv', ToldTheTruth', FormInv'
    PROVE  IInv'
  <1>1. TypeInv'
    BY TypeParts, PTL
  <1>2. QED
    BY <1>1 DEF IInv

\* A click that chooses what is in the form, and asks for nothing.
LEMMA ChosenForm ==
    ASSUME IInv, Chosen, Matches', Due' = Due
    PROVE  FormInv'
  <1>1. astray' = (Due # {})
    BY DEF Chosen
  <1>2. QED
    BY <1>1 DEF FormInv

\* As above where the details that were asked for are yet to come.
LEMMA PickedForm ==
    ASSUME IInv, Chosen, NEW item \in Items, picked' = item, ~adding',
           NEW new, Due' = Due \union {new}, new.does = "get", new.name = item.name
    PROVE  FormInv'
  <1>0. astray' = (Due # {})
    BY DEF Chosen
  <1> SUFFICES ASSUME Due = {} PROVE FormInv'
    BY <1>0 DEF FormInv
  <1>1. Due' = {new} /\ picked' # Nobody /\ new.does \notin Change
    BY NameFacts, ChangeFacts
  <1>2. QED
    BY <1>1 DEF FormInv

LEMMA ChosenTypes ==
    ASSUME TypeInv, Chosen
    PROVE  /\ editor' = editor /\ stored' = stored /\ tags' = tags /\ list' = list
           /\ blank' = blank /\ lies' = lies /\ pressed' = pressed /\ kc' = kc
           /\ astray' \in BOOLEAN /\ clicks' \in 0..MaxClicks
  BY RuleEditorsAssumption DEF Chosen, Clicked, TypeInv, TypeOK

LEMMA GetAsked ==
    ASSUME TypeInv, AfterInv, editor' = editor, NEW item \in Items,
           Asked(requests, Asking("get", item.name, NoItem, NoEnd))
    PROVE  /\ RequestTypes' /\ AfterInv'
           /\ \E new : Due' = Due \union {new} /\ new.does = "get" /\ new.name = item.name
  <1> DEFINE new == Asking("get", item.name, NoItem, NoEnd)
  <1>1. item.name \in Labels /\ "get" \in Kinds /\ sent \in Nat
    BY DEF Items, Kinds, TypeInv, TypeOK
  <1>2. /\ new \in Requests /\ new.id = sent + 1 /\ new.does = "get"
        /\ new.name = item.name /\ new.after = NoEnd
    BY <1>1, NameFacts, AskingFacts
  <1> HIDE DEF new
  <1>3. GoodEnd(new)
    BY <1>2 DEF GoodEnd
  <1>4. /\ RequestTypes' /\ AfterInv'
        /\ Due' = (Due \intersect requests)
                   \union (IF new.does # "list" \/ new.after # NoEnd THEN {new} ELSE {})
    <2>1. Asked(requests, new) /\ requests \in SUBSET requests
      BY DEF new
    <2>2. QED
      BY <1>2, <1>3, <2>1, Sends
  <1>5. Due' = Due \union {new}
    BY <1>2, <1>4 DEF Due
  <1>6. QED
    BY <1>2, <1>4, <1>5

-----------------------------------------------------------------------------
(* The clicks that choose. *)

LEMMA LiesKept ==
    ASSUME ToldTheTruth, lies' = lies, editor' = editor
    PROVE  ToldTheTruth'
  BY EditorKept DEF ToldTheTruth

LEMMA PickRegexStep ==
    ASSUME IInv, NEW item \in list, PickRegex(item)
    PROVE  IInv'
  <1>1. item \in Items /\ TypeInv /\ AfterInv /\ ToldTheTruth
    BY DEF IInv, TypeInv, TypeOK
  <1>2. /\ picked' = item /\ adding' = FALSE
        /\ UNCHANGED <<editor, stored, tags, list, blank, kc, kept, form, loading, pressed, lies>>
        /\ clicks' \in 0..MaxClicks /\ astray' \in BOOLEAN
    <2>1. /\ Clicked /\ UNCHANGED <<pressed, lies>>
          /\ astray' = TRUE \/ astray' = (Due # {})
      BY DEF PickRegex, Chosen
    <2>2. clicks' \in 0..MaxClicks
      BY <1>1, <2>1, RuleEditorsAssumption DEF Clicked, TypeInv, TypeOK
    <2>3. QED
      BY <2>1, <2>2 DEF PickRegex, Clicked
  <1>3. Types'
    BY <1>1, <1>2, TypeParts DEF Types
  <1>4. ToldTheTruth'
    BY <1>1, <1>2, LiesKept
  <1>5. CASE item.name = NoName
    <2>1. requests' = requests /\ sent' = sent /\ Chosen
      BY <1>5 DEF PickRegex, netVars
    <2>2. RequestTypes' /\ AfterInv' /\ Due' = Due
      BY <1>1, <1>2, <2>1, SendsNothing DEF Due
    <2>3. Matches'
      BY <1>1, <1>2, <1>5, NameFacts DEF Matches
    <2>4. FormInv'
      BY <2>1, <2>2, <2>3, ChosenForm
    <2>5. QED
      BY <1>3, <1>4, <2>2, <2>4, Whole
  <1>6. CASE item.name # NoName /\ ~kc
    <2>1. requests' = requests /\ sent' = sent /\ astray' = TRUE
      BY <1>6 DEF PickRegex, netVars
    <2>2. RequestTypes' /\ AfterInv'
      BY <1>1, <1>2, <2>1, SendsNothing
    <2>3. FormInv'
      BY <2>1 DEF FormInv
    <2>4. QED
      BY <1>3, <1>4, <2>2, <2>3, Whole
  <1>7. CASE item.name # NoName /\ kc
    <2>1. Chosen
      BY <1>7 DEF PickRegex
    <2>2. /\ RequestTypes' /\ AfterInv'
          /\ \E new : Due' = Due \union {new} /\ new.does = "get" /\ new.name = item.name
      BY <1>1, <1>2, <1>7, GetAsked DEF PickRegex
    <2>3. FormInv'
      BY <1>1, <1>2, <2>1, <2>2, PickedForm
    <2>4. QED
      BY <1>3, <1>4, <2>2, <2>3, Whole
  <1>8. QED
    BY <1>1, <1>5, <1>6, <1>7, TypeParts DEF Types

LEMMA PickTagStep ==
    ASSUME IInv, PickTag
    PROVE  IInv'
  <1>1. TypeInv /\ AfterInv /\ ToldTheTruth
    BY DEF IInv
  <1>2. Chosen /\ editor' = editor /\ picked' = NoItem /\ adding' = FALSE
        /\ UNCHANGED <<kept, form, loading>> /\ requests' = requests /\ sent' = sent
    BY DEF PickTag, Chosen, Clicked, netVars
  <1>3. Types'
    BY <1>1, <1>2, ChosenTypes, NameFacts, TypeParts DEF Types
  <1>4. ToldTheTruth'
    BY <1>1, <1>2, ChosenTypes, LiesKept
  <1>5. RequestTypes' /\ AfterInv' /\ Due' = Due
    BY <1>1, <1>2, SendsNothing DEF Due
  <1>6. Matches'
    BY <1>2, NameFacts DEF Matches
  <1>7. FormInv'
    BY <1>2, <1>5, <1>6, ChosenForm
  <1>8. QED
    BY <1>3, <1>4, <1>5, <1>7, Whole

LEMMA PickSyslogRuleStep ==
    ASSUME IInv, NEW item \in list, PickSyslogRule(item)
    PROVE  IInv'
  <1>1. item \in Items /\ TypeInv /\ AfterInv /\ ToldTheTruth
    BY DEF IInv, TypeInv, TypeOK
  <1>2. Chosen /\ editor' = editor /\ picked' = item /\ kept' = item
        /\ adding' = FALSE /\ loading' = TRUE /\ form' = form
    BY DEF PickSyslogRule, Chosen, Clicked
  <1>3. Types'
    BY <1>1, <1>2, ChosenTypes, TypeParts DEF Types
  <1>4. ToldTheTruth'
    BY <1>1, <1>2, ChosenTypes, LiesKept
  <1>5. /\ RequestTypes' /\ AfterInv'
        /\ \E new : Due' = Due \union {new} /\ new.does = "get" /\ new.name = item.name
    BY <1>1, <1>2, GetAsked DEF PickSyslogRule
  <1>6. FormInv'
    BY <1>1, <1>2, <1>5, PickedForm
  <1>7. QED
    BY <1>3, <1>4, <1>5, <1>6, Whole

LEMMA PickTrapRuleStep ==
    ASSUME IInv, NEW item \in list, PickTrapRule(item)
    PROVE  IInv'
  <1>1. item \in Items /\ TypeInv /\ AfterInv /\ ToldTheTruth
    BY DEF IInv, TypeInv, TypeOK
  <1>2. Chosen /\ editor' = editor /\ picked' = item /\ kept' = kept
        /\ adding' = FALSE /\ loading' = TRUE
        /\ form' = [of |-> item.name, name |-> item.name, full |-> item.full]
    BY DEF PickTrapRule, Chosen, Clicked
  <1>3. Types'
    <2>1. form' \in [of : Labels \union {Nobody}, name : Labels, full : BOOLEAN]
      BY <1>1, <1>2 DEF Items
    <2>2. QED
      BY <1>1, <1>2, <2>1, ChosenTypes, TypeParts DEF Types
  <1>4. ToldTheTruth'
    BY <1>1, <1>2, ChosenTypes, LiesKept
  <1>5. /\ RequestTypes' /\ AfterInv'
        /\ \E new : Due' = Due \union {new} /\ new.does = "get" /\ new.name = item.name
    BY <1>1, <1>2, GetAsked DEF PickTrapRule
  <1>6. FormInv'
    BY <1>1, <1>2, <1>5, PickedForm
  <1>7. QED
    BY <1>3, <1>4, <1>5, <1>6, Whole

LEMMA AddNewStep ==
    ASSUME IInv, AddNew
    PROVE  IInv'
  <1>1. TypeInv /\ AfterInv /\ ToldTheTruth
    BY DEF IInv
  <1>2. /\ Chosen /\ editor' = editor /\ adding' = (adding \/ editor # "trapRules")
        /\ picked' = IF editor = "syslogRules" THEN picked ELSE Nobody
        /\ kept' = NoItem /\ form' = EmptyForm /\ loading' = loading
        /\ requests' = requests /\ sent' = sent
    BY DEF AddNew, Chosen, Clicked, netVars
  <1>3. Types'
    BY <1>1, <1>2, ChosenTypes, NameFacts, TypeParts DEF Types
  <1>4. ToldTheTruth'
    BY <1>1, <1>2, ChosenTypes, LiesKept
  <1>5. RequestTypes' /\ AfterInv' /\ Due' = Due
    BY <1>1, <1>2, SendsNothing DEF Due
  <1>6. Matches'
    BY <1>2, NameFacts DEF Matches
  <1>7. FormInv'
    BY <1>2, <1>5, <1>6, ChosenForm
  <1>8. QED
    BY <1>3, <1>4, <1>5, <1>7, Whole

LEMMA CancelStep ==
    ASSUME IInv, Cancel
    PROVE  IInv'
  <1>1. TypeInv /\ AfterInv /\ ToldTheTruth
    BY DEF IInv
  <1>2. /\ Chosen /\ adding /\ form' = EmptyForm
        /\ UNCHANGED <<editor, picked, adding, kept, loading, requests, sent>>
    BY DEF Cancel, Chosen, Clicked, netVars
  <1>3. Types'
    BY <1>1, <1>2, ChosenTypes, NameFacts, TypeParts DEF Types
  <1>4. ToldTheTruth'
    BY <1>1, <1>2, ChosenTypes, LiesKept
  <1>5. RequestTypes' /\ AfterInv' /\ Due' = Due
    BY <1>1, <1>2, SendsNothing DEF Due
  <1>6. Matches'
    BY <1>2, NameFacts DEF Matches
  <1>7. FormInv'
    BY <1>2, <1>5, <1>6, ChosenForm
  <1>8. QED
    BY <1>3, <1>4, <1>5, <1>7, Whole

-----------------------------------------------------------------------------
(* Steps that keep the pick, and whom the form was filled from.             *)

LEMMA FormKept ==
    ASSUME FormInv, blank => blank', UNCHANGED <<astray, picked, adding>>,
           form'.of = form.of, Due' = Due
    PROVE  FormInv'
  BY DEF FormInv, Matches

LEMMA TypeStep ==
    ASSUME IInv, Type
    PROVE  IInv'
  <1>1. TypeInv /\ AfterInv /\ ToldTheTruth /\ FormInv /\ Types
    BY TypeParts DEF IInv
  <1>2. UNCHANGED <<editor, stored, tags, list, picked, adding, kept, loading, pressed, blank,
                    kc, requests, sent, astray, lies, clicks>>
    BY DEF Type, flagVars, netVars
  <1>3. /\ form'.of = form.of
        /\ form' \in [of : Labels \union {Nobody}, name : Labels, full : BOOLEAN]
    <2>1. form \in [of : Labels \union {Nobody}, name : Labels, full : BOOLEAN]
      BY <1>1 DEF Types
    <2>2. (\E n \in Labels : form' = [form EXCEPT !.name = n]) \/ form' = [form EXCEPT !.full = TRUE]
      BY DEF Type
    <2>3. QED
      BY <2>1, <2>2
  <1>4. Types'
    BY <1>1, <1>2, <1>3 DEF Types
  <1>5. RequestTypes' /\ AfterInv' /\ Due' = Due
    BY <1>1, <1>2, SendsNothing DEF Due
  <1>6. FormInv'
    BY <1>1, <1>2, <1>3, <1>5, FormKept
  <1>7. QED
    BY <1>1, <1>2, <1>4, <1>5, <1>6, LiesKept, Whole

LEMMA TagsArriveStep ==
    ASSUME IInv, TagsArrive
    PROVE  IInv'
  <1>1. TypeInv /\ AfterInv /\ ToldTheTruth /\ FormInv /\ Types
    BY TypeParts DEF IInv
  <1>2. /\ tags' = TRUE /\ ~blank /\ blank' = (ListShown /\ ~loading)
        /\ UNCHANGED <<editor, stored, list, picked, adding, kept, form, loading, pressed,
                      kc, requests, sent, astray, lies, clicks>>
    BY DEF TagsArrive, panelVars, netVars
  <1>3. Types'
    BY <1>1, <1>2 DEF Types
  <1>4. RequestTypes' /\ AfterInv' /\ Due' = Due
    BY <1>1, <1>2, SendsNothing DEF Due
  <1>5. FormInv'
    BY <1>1, <1>2, <1>4, FormKept
  <1>6. QED
    BY <1>1, <1>2, <1>3, <1>4, <1>5, LiesKept, Whole

LEMMA SessionExpiresStep ==
    ASSUME IInv, SessionExpires
    PROVE  IInv'
  <1>1. TypeInv /\ AfterInv /\ ToldTheTruth /\ FormInv /\ Types
    BY TypeParts DEF IInv
  <1>2. /\ kc' = FALSE
        /\ UNCHANGED <<editor, stored, tags, list, picked, adding, kept, form, loading, pressed,
                      blank, requests, sent, astray, lies, clicks>>
    BY DEF SessionExpires, panelVars, flagVars, netVars
  <1>3. Types'
    BY <1>1, <1>2 DEF Types
  <1>4. RequestTypes' /\ AfterInv' /\ Due' = Due
    BY <1>1, <1>2, SendsNothing DEF Due
  <1>5. FormInv'
    BY <1>1, <1>2, <1>4, FormKept
  <1>6. QED
    BY <1>1, <1>2, <1>3, <1>4, <1>5, LiesKept, Whole

-----------------------------------------------------------------------------
(* What the handlers do last. *)

LEMMA EndedFacts ==
    ASSUME Types, ToldTheTruth, editor' = editor, editor # "syslogRules",
           NEW after \in Ends, after.does \in Change, NEW was \in Dones, Ended(after, was),
           after.did \/ (Editor.skips /\ (after.name = NoName \/ after.expired))
    PROVE  /\ picked' \in {picked, Nobody} /\ adding' \in BOOLEAN /\ pressed' \in Dones
           /\ adding' \/ picked' = Nobody
           /\ lies' \subseteq [does : Change, name : Labels, expired : BOOLEAN]
           /\ ToldTheTruth'
  <1>1. /\ picked' \in {picked, Nobody} /\ adding' \in BOOLEAN
        /\ pressed' \in {pressed, was, "none"} /\ (adding' \/ picked' = Nobody)
    <2>1. CASE editor = "regex"
      BY <2>1 DEF Ended, RegexEnded
    <2>2. CASE editor = "trapTags"
      BY <2>2 DEF Ended, TagEnded
    <2>3. CASE editor = "trapRules"
      BY <2>3 DEF Ended, TrapRuleEnded, Types
    <2>4. QED
      BY <2>1, <2>2, <2>3 DEF Types, Editors
  <1>2. pressed' \in Dones
    BY <1>1 DEF Types, Dones
  <1> DEFINE lie == [does |-> after.does, name |-> after.name, expired |-> after.expired]
  <1>3. lies' = IF after.did THEN lies ELSE lies \union {lie}
    BY DEF Ended
  <1>4. /\ lie \in [does : Change, name : Labels, expired : BOOLEAN]
        /\ lie.name = after.name /\ lie.expired = after.expired
    BY DEF Ends
  <1> HIDE DEF lie
  <1>5. lies' \subseteq [does : Change, name : Labels, expired : BOOLEAN]
    BY <1>3, <1>4 DEF Types
  <1>6. ToldTheTruth'
    BY <1>3, <1>4, EditorKept DEF ToldTheTruth
  <1>7. QED
    BY <1>1, <1>2, <1>5, <1>6

-----------------------------------------------------------------------------
(* The buttons that ask for a change. *)

\* What every button leaves.
LEMMA PressedKeeps ==
    ASSUME TypeInv, NEW does, NEW name, NEW item, Pressed(does, name, item)
    PROVE  /\ UNCHANGED <<editor, stored, tags, list, kept, loading, blank, kc>>
           /\ ~blank /\ clicks' \in 0..MaxClicks
           /\ astray' = (astray \/ Due # {}) /\ astray' \in BOOLEAN
  BY RuleEditorsAssumption DEF Pressed, Clicked, Drawn, TypeInv, TypeOK

LEMMA UnsentStep ==
    ASSUME IInv, NEW does \in Change, NEW name \in Labels, NEW item \in Items,
           Pressed(does, name, item), Editor.skips, Unsent(does, name)
    PROVE  IInv'
  <1>1. TypeInv /\ AfterInv /\ ToldTheTruth /\ FormInv /\ Types
    BY TypeParts DEF IInv
  <1>2. /\ UNCHANGED <<editor, stored, tags, list, kept, loading, blank, kc>>
        /\ ~blank /\ clicks' \in 0..MaxClicks
        /\ astray' = (astray \/ Due # {}) /\ astray' \in BOOLEAN
    BY <1>1, PressedKeeps
  <1> DEFINE last == Ending(does, name, FALSE)
             end == [last EXCEPT !.expired = TRUE]
  <1>3. last \in Ends /\ last.does = does
    <2>1. editor \in Editors /\ FALSE \in BOOLEAN
      BY <1>1 DEF Types
    <2>2. QED
      BY <2>1, EndingFacts
  <1> HIDE DEF last
  <1>4. end \in Ends /\ end.does \in Change /\ end.expired
    BY <1>3 DEF Ends
  <1>5. Ended(end, does) /\ form' = EmptyForm /\ requests' = requests /\ sent' = sent
    BY DEF Unsent, Announced, netVars, last
  <1> HIDE DEF end
  <1>6. editor # "syslogRules" /\ does \in Dones
    BY <1>1, EditorFacts DEF Types, Dones
  <1>7. /\ picked' \in {picked, Nobody} /\ adding' \in BOOLEAN /\ pressed' \in Dones
        /\ adding' \/ picked' = Nobody
        /\ lies' \subseteq [does : Change, name : Labels, expired : BOOLEAN]
        /\ ToldTheTruth'
    BY <1>1, <1>2, <1>4, <1>5, <1>6, EndedFacts
  <1>8. Types'
    BY <1>1, <1>2, <1>5, <1>7, NameFacts DEF Types
  <1>9. RequestTypes' /\ AfterInv' /\ Due' = Due
    BY <1>1, <1>2, <1>5, SendsNothing DEF Due
  <1>10. FormInv'
    <2> SUFFICES ASSUME Due = {} PROVE FormInv'
      BY <1>2 DEF FormInv
    <2>1. Matches'
      BY <1>5, <1>7, NameFacts DEF Matches
    <2>2. QED
      BY <1>9, <2>1 DEF FormInv
  <1>11. QED
    BY <1>7, <1>8, <1>9, <1>10, Whole

LEMMA SentStep ==
    ASSUME IInv, NEW does \in Change, NEW name \in Labels, NEW item \in Items,
           Pressed(does, name, item), Sent(does, name, item)
    PROVE  IInv'
  <1>1. TypeInv /\ AfterInv /\ ToldTheTruth /\ FormInv /\ Types /\ sent \in Nat
    BY TypeParts DEF IInv, RequestTypes
  <1>2. /\ UNCHANGED <<editor, stored, tags, list, picked, adding, kept, form, loading, blank, kc,
                      lies>>
        /\ ~blank /\ clicks' \in 0..MaxClicks
        /\ pressed' \in {pressed, does} /\ astray' = (astray \/ Due # {})
        /\ astray' \in BOOLEAN
    BY <1>1, PressedKeeps DEF Sent
  <1>3. Types'
    BY <1>1, <1>2 DEF Types, Dones
  <1>4. ToldTheTruth'
    BY <1>1, <1>2, LiesKept
  <1>5. CASE Editor.skips /\ does # "create" /\ name = NoName
    <2> DEFINE end == [Ending(does, name, FALSE) EXCEPT !.left = 1]
               new == Asking("list", NoName, NoItem, end)
    <2>1. /\ end \in Ends /\ end.left = 1 /\ end.does = does
          /\ end.did = FALSE /\ end.name = NoName
      <3> DEFINE last == Ending(does, name, FALSE)
      <3>1. last \in Ends /\ last.does = does /\ last.name = name /\ last.did = FALSE
        <4>1. editor \in Editors /\ does \in Change /\ name \in Labels
          BY <1>1 DEF Types
        <4>2. QED
          BY <4>1, EndingFacts
      <3> HIDE DEF last
      <3>2. end = [last EXCEPT !.left = 1]
        BY DEF last
      <3> HIDE DEF end
      <3>3. QED
        BY <1>5, <3>1, <3>2 DEF Ends
    <2> HIDE DEF end
    <2>2. end # NoEnd /\ editor # "syslogRules"
      <3>1. editor # "syslogRules"
        BY <1>1, <1>5, EditorFacts DEF Types
      <3>2. QED
        BY <2>1, <3>1, NameFacts
    <2>3. new \in Requests /\ new.id = sent + 1 /\ new.does = "list" /\ new.after = end
      <3>1. "list" \in Kinds
        BY DEF Kinds
      <3>2. QED
        BY <1>1, <2>1, <3>1, NameFacts, AskingFacts
    <2>4. Asked(requests, new)
      BY <1>5 DEF Sent, Reload, end
    <2> HIDE DEF new
    <2>5. GoodEnd(new)
      BY <1>5, <2>1, <2>2, <2>3 DEF GoodEnd
    <2>6. RequestTypes' /\ AfterInv' /\ Due' = (Due \intersect requests) \union {new}
      <3>1. requests \in SUBSET requests
        OBVIOUS
      <3>2. QED
        BY <1>1, <1>2, <2>2, <2>3, <2>4, <2>5, <3>1, Sends
    <2>7. FormInv'
      <3> SUFFICES ASSUME Due = {} PROVE FormInv'
        BY <1>2 DEF FormInv
      <3>1. Due' = {new} /\ new.does \notin Change /\ new.does # "get"
        BY <2>3, <2>6, ChangeFacts
      <3>2. QED
        BY <3>1 DEF FormInv
    <2>8. QED
      BY <1>3, <1>4, <2>6, <2>7, Whole
  <1>6. CASE ~(Editor.skips /\ does # "create" /\ name = NoName)
    <2> DEFINE new == Asking(does, name, item, NoEnd)
    <2>1. /\ new \in Requests /\ new.id = sent + 1 /\ new.does = does /\ new.after = NoEnd
      BY <1>1, NameFacts, AskingFacts DEF Kinds
    <2>2. Asked(requests, new)
      BY <1>6 DEF Sent
    <2> HIDE DEF new
    <2>3. GoodEnd(new)
      BY <2>1 DEF GoodEnd
    <2>4. RequestTypes' /\ AfterInv' /\ Due' = (Due \intersect requests) \union {new}
      <3>1. requests \in SUBSET requests
        OBVIOUS
      <3>2. QED
        BY <1>1, <1>2, <2>1, <2>2, <2>3, <3>1, ChangeFacts, Sends
    <2>5. FormInv'
      <3> SUFFICES ASSUME Due = {}, ~astray PROVE FormInv'
        BY <1>2 DEF FormInv
      <3>1. Due' = {new} /\ new.does # "get"
        BY <2>1, <2>4, ChangeFacts
      <3>2. Matches
        BY <1>1, <1>2 DEF FormInv
      <3>3. Matches'
        BY <1>2, <3>2 DEF Matches
      <3>4. QED
        BY <3>1, <3>3 DEF FormInv
    <2>6. QED
      BY <1>3, <1>4, <2>4, <2>5, Whole
  <1>7. QED
    BY <1>5, <1>6

LEMMA PressedStep ==
    ASSUME IInv, NEW does \in Change, NEW name \in Labels, NEW item \in Items,
           Pressed(does, name, item)
    PROVE  IInv'
  BY UnsentStep, SentStep DEF Pressed

LEMMA ButtonStep ==
    ASSUME IInv,
           Add \/ SaveForm \/ SaveSyslogRule \/ SaveTrapRule \/ Delete \/ DeleteTrapRule
    PROVE  IInv'
  <1>1. /\ form.name \in Labels /\ Content \in Items /\ kept \in Items
        /\ [Content EXCEPT !.full = @ /\ form.of # Nobody] \in Items
    <2>1. form \in [of : Labels \union {Nobody}, name : Labels, full : BOOLEAN] /\ kept \in Items
      BY TypeParts DEF IInv, Types
    <2>2. QED
      BY <2>1 DEF Content, Items
  <1>2. picked # Nobody => picked.name \in Labels
    BY TypeParts DEF IInv, Types, Items
  <1>3. "create" \in Change /\ "update" \in Change /\ "remove" \in Change
    BY ChangeFacts
  <1>4. CASE Add
    BY <1>1, <1>3, <1>4, PressedStep DEF Add
  <1>5. CASE SaveForm
    BY <1>1, <1>3, <1>5, PressedStep DEF SaveForm
  <1>6. CASE SaveSyslogRule
    <2>1. picked.name \in Labels
      BY <1>2, <1>6 DEF SaveSyslogRule, CanChange
    <2>2. QED
      BY <1>1, <1>3, <1>6, <2>1, PressedStep DEF SaveSyslogRule
  <1>7. CASE SaveTrapRule
    BY <1>1, <1>3, <1>7, PressedStep DEF SaveTrapRule
  <1>8. CASE Delete
    <2>1. picked.name \in Labels
      BY <1>2, <1>8 DEF Delete, CanChange
    <2>2. QED
      BY <1>3, <1>8, <2>1, NameFacts, PressedStep DEF Delete
  <1>9. CASE DeleteTrapRule
    BY <1>1, <1>3, <1>9, NameFacts, PressedStep DEF DeleteTrapRule
  <1>10. QED
    BY <1>4, <1>5, <1>6, <1>7, <1>8, <1>9

-----------------------------------------------------------------------------
(* The backend. *)

LEMMA ServeStep ==
    ASSUME IInv, NEW r \in requests, Serve(r)
    PROVE  IInv'
  <1>1. TypeInv /\ AfterInv /\ ToldTheTruth /\ FormInv /\ Types /\ RequestTypes
    BY TypeParts DEF IInv
  <1>2. UNCHANGED <<editor, tags, list, picked, adding, kept, form, loading, pressed, blank, kc,
                    sent, astray, lies, clicks>>
    BY DEF Serve, panelVars, flagVars
  <1>3. stored' \subseteq Labels
    <2>1. r.item.name \in Labels
      BY <1>1, RestFacts DEF Items
    <2>2. StoredAfter(r) \subseteq Labels
      BY <1>1, <2>1 DEF StoredAfter, Types
    <2>3. QED
      BY <1>1, <2>2 DEF Serve, Types
  <1>4. Types'
    BY <1>1, <1>2, <1>3 DEF Types
  <1> DEFINE s == [r EXCEPT !.state = IF Accepts(r) THEN "done" ELSE "refused",
                            !.names = IF r.does = "list" THEN stored ELSE {}]
  <1>5. requests' = (requests \ {r}) \union {s}
    BY DEF Serve
  <1>6. /\ s \in Requests /\ s.id = r.id /\ s.does = r.does /\ s.name = r.name
        /\ s.item = r.item /\ s.after = r.after
    <2>1. r \in Requests
      BY <1>1, RestFacts
    <2>2. stored \subseteq Labels
      BY <1>1 DEF Types
    <2>3. QED
      BY <2>1, <2>2 DEF Requests
  <1> HIDE DEF s
  <1>7. RequestTypes'
    BY <1>1, <1>2, <1>5, <1>6 DEF RequestTypes
  <1>8. AfterInv'
    BY <1>1, <1>2, <1>5, <1>6, EditorKept DEF AfterInv
  <1>9. Due' = (Due \ {r}) \union (IF r \in Due THEN {s} ELSE {})
    BY <1>5, <1>6 DEF Due
  <1>10. FormInv'
    <2>1. Matches' = Matches
      BY <1>2 DEF Matches
    <2>2. CASE r \in Due
      <3> SUFFICES ASSUME ~blank, ~astray PROVE FormInv'
        BY <1>2 DEF FormInv
      <3>1. Due = {r} /\ Due' = {s}
        BY <1>1, <1>9, <2>2 DEF FormInv
      <3>2. QED
        BY <1>1, <1>2, <1>6, <2>1, <3>1 DEF FormInv
    <2>3. CASE r \notin Due
      BY <1>1, <1>2, <1>9, <2>3, FormKept
    <2>4. QED
      BY <2>2, <2>3
  <1>11. QED
    BY <1>1, <1>2, <1>4, <1>7, <1>8, <1>10, LiesKept, Whole

-----------------------------------------------------------------------------
(* The answers. *)

\* What was due has come, and the list is asked for.
LEMMA ReloadedForm ==
    ASSUME FormInv, ~blank, astray' = astray, NEW r \in Due, NEW new, new.does = "list",
           Due' = (Due \intersect Rest(r)) \union {new}
    PROVE  FormInv'
  <1> SUFFICES ASSUME ~astray PROVE FormInv'
    BY DEF FormInv
  <1>1. Due' = {new}
    BY DEF FormInv, Rest
  <1>2. QED
    BY <1>1, ChangeFacts DEF FormInv

\* What was due has come, and nothing is due any more.
LEMMA AnsweredForm ==
    ASSUME FormInv, ~blank, astray' = astray, NEW r \in Due, Due' = Due \intersect Rest(r),
           ~astray => Matches'
    PROVE  FormInv'
  <1> SUFFICES ASSUME ~astray PROVE FormInv'
    BY DEF FormInv
  <1>1. Due' = {}
    BY DEF FormInv, Rest
  <1>2. QED
    BY <1>1 DEF FormInv

LEMMA Takes ==
    ASSUME TypeInv, AfterInv, editor' = editor, NEW r \in requests,
           requests' = Rest(r), sent' = sent
    PROVE  RequestTypes' /\ AfterInv' /\ Due' = Due \intersect Rest(r)
  BY RestFacts, SendsNothing

LEMMA Reloads ==
    ASSUME TypeInv, AfterInv, editor' = editor, NEW r \in requests, NEW end \in Ends,
           editor # "syslogRules", end.left \in {1, 2}, end.does \in Change,
           end.did \/ (Editor.skips /\ end.name = NoName), Reload(Rest(r), end)
    PROVE  /\ RequestTypes' /\ AfterInv'
           /\ \E new : Due' = (Due \intersect Rest(r)) \union {new} /\ new.does = "list"
  <1> DEFINE new == Asking("list", NoName, NoItem, end)
  <1>1. new \in Requests /\ new.id = sent + 1 /\ new.does = "list" /\ new.after = end
    <2>1. "list" \in Kinds /\ sent \in Nat
      BY DEF Kinds, TypeInv, TypeOK
    <2>2. QED
      BY <2>1, NameFacts, AskingFacts
  <1>2. Asked(Rest(r), new)
    BY DEF Reload
  <1> HIDE DEF new
  <1>3. GoodEnd(new) /\ new.after # NoEnd
    BY <1>1, NameFacts DEF GoodEnd
  <1>4. Rest(r) \in SUBSET requests
    BY RestFacts
  <1>5. /\ RequestTypes' /\ AfterInv'
        /\ Due' = (Due \intersect Rest(r))
                   \union (IF new.does # "list" \/ new.after # NoEnd THEN {new} ELSE {})
    BY <1>1, <1>2, <1>3, <1>4, Sends
  <1>6. QED
    BY <1>1, <1>3, <1>5

LEMMA ListOverStep ==
    ASSUME IInv, ~blank, NEW r \in requests, r.does = "list", ListOver(r), list' \subseteq Items,
           UNCHANGED <<editor, stored, tags, kc, clicks, blank>>
    PROVE  IInv'
  <1>1. TypeInv /\ AfterInv /\ ToldTheTruth /\ FormInv /\ Types
    BY TypeParts DEF IInv
  <1>2. loading' = FALSE /\ UNCHANGED <<kept, astray>>
    BY DEF ListOver
  <1>3. CASE r.after.left > 1 /\ kc
    <2> DEFINE end == [r.after EXCEPT !.left = @ - 1]
    <2>1. r.after # NoEnd /\ r.after \in Ends
      BY <1>1, <1>3, NameFacts, RestFacts
    <2>2. /\ r.after.left = 2 /\ editor # "syslogRules" /\ r.after.does \in Change
          /\ r.after.did \/ (Editor.skips /\ r.after.name = NoName)
      BY <1>1, <1>3, <2>1 DEF AfterInv
    <2>3. /\ end \in Ends /\ end.left = 1 /\ end.does = r.after.does
          /\ end.did = r.after.did /\ end.name = r.after.name
      BY <2>1, <2>2 DEF Ends
    <2>4. Reload(Rest(r), end)
      BY <1>3 DEF ListOver
    <2> HIDE DEF end
    <2>5. UNCHANGED <<picked, adding, form, pressed, lies>>
      BY <1>3, <2>2 DEF ListOver
    <2>6. /\ RequestTypes' /\ AfterInv'
          /\ \E new : Due' = (Due \intersect Rest(r)) \union {new} /\ new.does = "list"
      BY <1>1, <2>2, <2>3, <2>4, Reloads
    <2>7. FormInv'
      <3>1. r \in Due
        BY <2>1 DEF Due
      <3>2. QED
        BY <1>1, <1>2, <2>6, <3>1, ReloadedForm
    <2>8. Types'
      BY <1>1, <1>2, <2>5 DEF Types
    <2>9. QED
      BY <1>1, <2>5, <2>6, <2>7, <2>8, LiesKept, Whole
  <1>4. CASE r.after.left > 0 /\ ~(r.after.left > 1 /\ kc)
    <2>1. r.after # NoEnd /\ r.after \in Ends
      BY <1>1, <1>4, NameFacts, RestFacts
    <2>2. /\ editor # "syslogRules" /\ r.after.does \in Change
          /\ r.after.did \/ (Editor.skips /\ r.after.name = NoName)
      BY <1>1, <2>1 DEF AfterInv
    <2>3. /\ requests' = Rest(r) /\ sent' = sent
          /\ Ended(r.after, pressed) /\ form' = EmptyForm
      BY <1>4 DEF ListOver, Announced
    <2>4. RequestTypes' /\ AfterInv' /\ Due' = Due \intersect Rest(r)
      BY <1>1, <2>3, Takes
    <2>5. /\ picked' \in {picked, Nobody} /\ adding' \in BOOLEAN /\ pressed' \in Dones
          /\ adding' \/ picked' = Nobody
          /\ lies' \subseteq [does : Change, name : Labels, expired : BOOLEAN]
          /\ ToldTheTruth'
      <3>1. pressed \in Dones
        BY <1>1 DEF Types
      <3>2. QED
        BY <1>1, <2>1, <2>2, <2>3, <3>1, EndedFacts
    <2>6. Types'
      BY <1>1, <1>2, <2>3, <2>5, NameFacts DEF Types
    <2>7. FormInv'
      <3>1. r \in Due
        BY <2>1 DEF Due
      <3>2. Matches'
        BY <2>3, <2>5, NameFacts DEF Matches
      <3>3. QED
        BY <1>1, <1>2, <2>4, <3>1, <3>2, AnsweredForm
    <2>8. QED
      BY <2>4, <2>5, <2>6, <2>7, Whole
  <1>5. CASE ~(r.after.left > 0)
    <2>1. r.after = NoEnd /\ r.after.left = 0
      BY <1>1, <1>5, NameFacts DEF AfterInv
    <2>2. requests' = Rest(r) /\ UNCHANGED <<sent, picked, adding, form, pressed, lies>>
      BY <2>1 DEF ListOver
    <2>3. RequestTypes' /\ AfterInv' /\ Due' = Due \intersect Rest(r)
      BY <1>1, <2>2, Takes
    <2>4. Due' = Due
      BY <2>1, <2>3 DEF Due, Rest
    <2>5. Types'
      BY <1>1, <1>2, <2>2 DEF Types
    <2>6. FormInv'
      BY <1>1, <1>2, <2>2, <2>4, FormKept
    <2>7. QED
      BY <1>1, <2>2, <2>3, <2>5, <2>6, LiesKept, Whole
  <1>6. QED
    BY <1>3, <1>4, <1>5

LEMMA ListArrivesStep ==
    ASSUME IInv, ~blank, NEW r \in requests, ListArrives(r),
           UNCHANGED <<editor, stored, tags, kc, clicks>>
    PROVE  IInv'
  <1>1. r.names \subseteq Labels
    BY RestFacts DEF IInv
  <1>2. list' \subseteq Items
    <2>1. list' = {Brief(n) : n \in r.names \ (IF editor = "trapTags" THEN {NoName} ELSE {})}
      BY DEF ListArrives
    <2>2. QED
      BY <1>1, <2>1, NameFacts
  <1>3. QED
    BY <1>2, ListOverStep DEF ListArrives

LEMMA DetailsArriveStep ==
    ASSUME IInv, ~blank, NEW r \in requests, DetailsArrive(r),
           UNCHANGED <<editor, stored, tags, kc, clicks>>
    PROVE  IInv'
  <1>1. TypeInv /\ AfterInv /\ ToldTheTruth /\ FormInv /\ Types
    BY TypeParts DEF IInv
  <1>2. /\ r.does = "get" /\ r.name \in Labels /\ loading' = FALSE /\ requests' = Rest(r)
        /\ form' \in {Filled(r.name), ListAsForm, EmptyForm}
        /\ r.name # NoName => form' = Filled(r.name)
        /\ blank' \in BOOLEAN
        /\ UNCHANGED <<list, picked, adding, kept, pressed, sent, astray, lies>>
    <2>1. blank' \in BOOLEAN
      BY DEF DetailsArrive
    <2>2. r.name \in Labels
      BY <1>1, RestFacts
    <2>3. form' = IF r.name # NoName THEN Filled(r.name)
                  ELSE IF editor = "syslogRules" THEN ListAsForm ELSE EmptyForm
      BY DEF DetailsArrive
    <2>4. CASE r.name # NoName
      <3>1. form' = Filled(r.name)
        BY <2>3, <2>4
      <3>2. QED
        BY <2>1, <2>2, <3>1 DEF DetailsArrive
    <2>5. CASE r.name = NoName
      <3>1. form' \in {ListAsForm, EmptyForm}
        BY <2>3, <2>5
      <3>2. QED
        BY <2>1, <2>2, <2>5, <3>1 DEF DetailsArrive
    <2>6. QED
      BY <2>4, <2>5
  <1>3. Types'
    <2>1. form' \in [of : Labels \union {Nobody}, name : Labels, full : BOOLEAN]
      BY <1>2, NameFacts
    <2>2. QED
      BY <1>1, <1>2, <2>1 DEF Types
  <1>4. RequestTypes' /\ AfterInv' /\ Due' = Due \intersect Rest(r)
    BY <1>1, <1>2, Takes
  <1>5. r \in Due
    BY <1>2 DEF Due
  <1>6. ~astray => Matches'
    <2>1. ~astray => ~adding /\ picked # Nobody /\ picked.name = r.name
      BY <1>1, <1>2, <1>5 DEF FormInv
    <2>2. r.name # NoName => form'.of = r.name
      BY <1>2, NameFacts
    <2>3. QED
      BY <1>2, <2>1, <2>2 DEF Matches
  <1>7. FormInv'
    BY <1>1, <1>2, <1>4, <1>5, <1>6, AnsweredForm
  <1>8. QED
    BY <1>1, <1>2, <1>3, <1>4, <1>7, LiesKept, Whole

\* The end of a change that was heard of: the backend made it.
LEMMA HeardEnding ==
    ASSUME TypeInv, NEW r \in requests, r.does \in Change, Heard(r), editor # "syslogRules"
    PROVE  LET end == Ending(r.does, r.name, r.state = "done")
           IN /\ end \in Ends /\ end.left \in {1, 2} /\ end.does \in Change /\ end.did
  <1> DEFINE end == Ending(r.does, r.name, r.state = "done")
  <1>1. editor \in Editors /\ r.name \in Labels
    BY RestFacts DEF TypeInv, TypeOK
  <1>2. /\ end \in Ends /\ end.does = r.does /\ end.did = (r.state = "done")
        /\ end.left = Editor.loads
    <2>1. (r.state = "done") \in BOOLEAN
      OBVIOUS
    <2>2. QED
      BY <1>1, <2>1, EndingFacts
  <1>3. Editor.loads \in {1, 2}
    BY <1>1, EditorFacts
  <1> HIDE DEF end
  <1>4. end \in Ends /\ end.left \in {1, 2} /\ end.does \in Change /\ end.did
    BY <1>2, <1>3 DEF Heard
  <1>5. QED
    BY <1>4 DEF end

LEMMA ChangedStep ==
    ASSUME IInv, ~blank, NEW r \in requests, r.does \in Change, Heard(r), Changed(r),
           editor # "syslogRules", list' \subseteq Items, loading' \in BOOLEAN,
           UNCHANGED <<editor, stored, tags, kc, clicks, kept, blank>>
    PROVE  IInv'
  <1>1. TypeInv /\ AfterInv /\ ToldTheTruth /\ FormInv /\ Types
    BY TypeParts DEF IInv
  <1>2. Filled(r.item.name) \in [of : Labels \union {Nobody}, name : Labels, full : BOOLEAN]
    <2>1. r.item.name \in Labels
      BY <1>1, RestFacts DEF Items
    <2>2. QED
      BY <2>1, NameFacts
  <1> DEFINE end == Ending(r.does, r.name, r.state = "done")
  <1>3. end \in Ends /\ end.left \in {1, 2} /\ end.does \in Change /\ end.did
    BY <1>1, HeardEnding
  <1> HIDE DEF end
  <1>4. r \in Due
    BY ChangeFacts DEF Due
  <1>5. CASE kc
    <2>1. /\ Reload(Rest(r), end) /\ form' \in {form, Filled(r.item.name)}
          /\ UNCHANGED <<picked, adding, pressed, astray, lies>>
      BY <1>5 DEF Changed, end
    <2>2. Types'
      BY <1>1, <1>2, <2>1 DEF Types
    <2>3. /\ RequestTypes' /\ AfterInv'
          /\ \E new : Due' = (Due \intersect Rest(r)) \union {new} /\ new.does = "list"
      BY <1>1, <1>3, <2>1, Reloads
    <2>4. FormInv'
      BY <1>1, <1>4, <2>1, <2>3, ReloadedForm
    <2>5. QED
      BY <1>1, <2>1, <2>2, <2>3, <2>4, LiesKept, Whole
  <1>6. CASE ~kc
    <2>1. /\ Ended(end, pressed) /\ requests' = Rest(r) /\ sent' = sent
          /\ form' = IF r.does = "remove" THEN EmptyForm ELSE Filled(r.item.name)
          /\ astray' = (astray \/ r.does # "remove")
      BY <1>6 DEF Changed, end
    <2>2. /\ picked' \in {picked, Nobody} /\ adding' \in BOOLEAN /\ pressed' \in Dones
          /\ adding' \/ picked' = Nobody
          /\ lies' \subseteq [does : Change, name : Labels, expired : BOOLEAN]
          /\ ToldTheTruth'
      <3>1. pressed \in Dones
        BY <1>1 DEF Types
      <3>2. QED
        BY <1>1, <1>3, <2>1, <3>1, EndedFacts
    <2>3. Types'
      BY <1>1, <1>2, <2>1, <2>2, NameFacts DEF Types
    <2>4. RequestTypes' /\ AfterInv' /\ Due' = Due \intersect Rest(r)
      BY <1>1, <2>1, Takes
    <2>5. FormInv'
      <3>1. CASE r.does = "remove"
        <4>1. Matches' /\ astray' = astray
          BY <1>1, <2>1, <2>2, <3>1, NameFacts DEF Matches, Types
        <4>2. QED
          BY <1>1, <1>4, <2>4, <4>1, AnsweredForm
      <3>2. CASE r.does # "remove"
        BY <2>1, <3>2 DEF FormInv
      <3>3. QED
        BY <3>1, <3>2
    <2>6. QED
      BY <2>2, <2>3, <2>4, <2>5, Whole
  <1>7. QED
    BY <1>1, <1>5, <1>6 DEF Types

LEMMA SyslogRuleAddedStep ==
    ASSUME IInv, ~blank, NEW r \in requests, r.does \in Change, SyslogRuleAdded(r),
           UNCHANGED <<editor, stored, tags, kc, clicks>>
    PROVE  IInv'
  <1>1. TypeInv /\ AfterInv /\ ToldTheTruth /\ FormInv /\ Types
    BY TypeParts DEF IInv
  <1>2. /\ list' = list \union {r.item} /\ picked' = r.item /\ adding' = FALSE
        /\ form' = Filled(r.item.name) /\ blank' = (tags /\ ~loading) /\ requests' = Rest(r)
        /\ UNCHANGED <<kept, loading, pressed, sent, astray, lies>>
    BY DEF SyslogRuleAdded
  <1>3. r.item \in Items /\ r.item.name \in Labels
    BY <1>1, RestFacts DEF Items
  <1>4. Types'
    BY <1>1, <1>2, <1>3, NameFacts DEF Types
  <1>5. RequestTypes' /\ AfterInv' /\ Due' = Due \intersect Rest(r)
    BY <1>1, <1>2, Takes
  <1>6. Matches'
    BY <1>2, <1>3, NameFacts DEF Matches
  <1>7. FormInv'
    <2>1. r \in Due
      BY ChangeFacts DEF Due
    <2>2. QED
      BY <1>1, <1>2, <1>5, <1>6, <2>1, AnsweredForm
  <1>8. QED
    BY <1>1, <1>2, <1>4, <1>5, <1>7, LiesKept, Whole

LEMMA ChangeArrivesStep ==
    ASSUME IInv, ~blank, NEW r \in requests, ChangeArrives(r),
           UNCHANGED <<editor, stored, tags, kc, clicks>>
    PROVE  IInv'
  <1>1. r.does \in Change /\ Heard(r) /\ Types /\ r.item \in Items
    BY TypeParts, RestFacts DEF ChangeArrives, IInv
  <1>2. CASE editor = "syslogRules"
    BY <1>1, <1>2, SyslogRuleAddedStep DEF ChangeArrives
  <1>3. CASE editor = "trapRules"
    <2>1. TrapRuleChanged(r)
      BY <1>3 DEF ChangeArrives
    <2>2. list' \subseteq Items /\ loading' \in BOOLEAN
      BY <1>1, <2>1 DEF TrapRuleChanged, Types
    <2>3. QED
      BY <1>1, <1>3, <2>1, <2>2, ChangedStep DEF TrapRuleChanged
  <1>4. CASE editor \in {"regex", "trapTags"}
    <2>1. ItemChanged(r)
      BY <1>4 DEF ChangeArrives
    <2>2. list' \subseteq Items /\ loading' \in BOOLEAN
      BY <1>1, <2>1 DEF ItemChanged, Types
    <2>3. QED
      BY <1>1, <1>4, <2>1, <2>2, ChangedStep DEF ItemChanged
  <1>5. QED
    BY <1>1, <1>2, <1>3, <1>4 DEF Types, Editors

LEMMA ListFailsStep ==
    ASSUME IInv, ~blank, NEW r \in requests, ListFails(r),
           UNCHANGED <<editor, stored, tags, kc, clicks>>
    PROVE  IInv'
  <1>1. TypeInv /\ AfterInv /\ ToldTheTruth /\ FormInv /\ Types
    BY TypeParts DEF IInv
  <1>2. CASE Editor.hides
    <2>1. /\ blank' = TRUE /\ requests' = Rest(r)
          /\ UNCHANGED <<list, picked, adding, kept, form, loading, pressed, sent, astray, lies>>
      BY <1>2 DEF ListFails, panelVars
    <2>2. Types'
      BY <1>1, <2>1 DEF Types
    <2>3. RequestTypes' /\ AfterInv'
      BY <1>1, <2>1, Takes
    <2>4. FormInv'
      BY <2>1 DEF FormInv
    <2>5. QED
      BY <1>1, <2>1, <2>2, <2>3, <2>4, LiesKept, Whole
  <1>3. CASE ~Editor.hides
    <2>1. r.does = "list" /\ ListOver(r) /\ UNCHANGED <<list, blank>>
      BY <1>3 DEF ListFails
    <2>2. QED
      BY <1>1, <2>1, ListOverStep DEF Types
  <1>4. QED
    BY <1>2, <1>3

LEMMA DetailsFailStep ==
    ASSUME IInv, ~blank, NEW r \in requests, DetailsFail(r),
           UNCHANGED <<editor, stored, tags, kc, clicks>>
    PROVE  IInv'
  <1>1. TypeInv /\ AfterInv /\ ToldTheTruth /\ Types
    BY TypeParts DEF IInv
  <1>2. /\ blank' = Editor.hides /\ astray' = TRUE /\ requests' = Rest(r)
        /\ UNCHANGED <<list, picked, adding, kept, form, loading, pressed, sent, lies>>
    BY DEF DetailsFail, panelVars
  <1>3. Types'
    BY <1>1, <1>2, EditorFacts DEF Types
  <1>4. RequestTypes' /\ AfterInv'
    BY <1>1, <1>2, Takes
  <1>5. FormInv'
    BY <1>2 DEF FormInv
  <1>6. QED
    BY <1>1, <1>2, <1>3, <1>4, <1>5, LiesKept, Whole

LEMMA ChangeFailsStep ==
    ASSUME IInv, ~blank, NEW r \in requests, ChangeFails(r),
           UNCHANGED <<editor, stored, tags, kc, clicks>>
    PROVE  IInv'
  <1>1. TypeInv /\ AfterInv /\ ToldTheTruth /\ FormInv /\ Types
    BY TypeParts DEF IInv
  <1>2. /\ r.does \in Change /\ pressed' = "none" /\ requests' = Rest(r)
        /\ UNCHANGED <<list, picked, adding, kept, form, loading, blank, sent, astray, lies>>
    BY DEF ChangeFails, panelVars
  <1>3. Types'
    BY <1>1, <1>2 DEF Types, Dones
  <1>4. RequestTypes' /\ AfterInv' /\ Due' = Due \intersect Rest(r)
    BY <1>1, <1>2, Takes
  <1>5. r \in Due
    BY <1>2, ChangeFacts DEF Due
  <1>6. ~astray => Matches'
    <2>1. ~astray => Matches
      BY <1>1, <1>2, <1>5 DEF FormInv
    <2>2. QED
      BY <1>2, <2>1 DEF Matches
  <1>7. FormInv'
    BY <1>1, <1>2, <1>4, <1>5, <1>6, AnsweredForm
  <1>8. QED
    BY <1>1, <1>2, <1>3, <1>4, <1>7, LiesKept, Whole

LEMMA StutterStep == ASSUME IInv, UNCHANGED vars PROVE IInv'
  <1>1. TypeInv /\ AfterInv /\ ToldTheTruth /\ FormInv /\ Types
    BY TypeParts DEF IInv
  <1>2. UNCHANGED <<editor, stored, tags, list, picked, adding, kept, form, loading, pressed, blank,
                    kc, requests, sent, astray, lies, clicks>>
    BY DEF vars, panelVars, flagVars, netVars
  <1>3. Types'
    BY <1>1, <1>2 DEF Types
  <1>4. RequestTypes' /\ AfterInv' /\ Due' = Due
    BY <1>1, <1>2, SendsNothing DEF Due
  <1>5. FormInv'
    BY <1>1, <1>2, <1>4, FormKept
  <1>6. QED
    BY <1>1, <1>2, <1>3, <1>4, <1>5, LiesKept, Whole

-----------------------------------------------------------------------------
(* The theorems. *)

LEMMA InitStep == Init => IInv
  <1> SUFFICES ASSUME Init PROVE IInv
    OBVIOUS
  <1> DEFINE r == [id |-> 1, does |-> "list", name |-> NoName, item |-> NoItem,
                   after |-> NoEnd, state |-> "sent", names |-> {}]
  <1>1. requests = {r} /\ sent = 1
    BY DEF Init
  <1>2. r \in Requests /\ r.id = 1 /\ r.does = "list" /\ r.after = NoEnd
    BY NameFacts DEF Requests, Kinds
  <1> HIDE DEF r
  <1>3. RequestTypes
    BY <1>1, <1>2 DEF RequestTypes
  <1>4. Types
    <2>1. editor \in Editors /\ loading \in BOOLEAN
      BY EditorFacts DEF Init
    <2>2. stored \subseteq Labels /\ clicks \in 0..MaxClicks
      BY RuleEditorsAssumption DEF Init, Labels
    <2>3. QED
      BY <2>1, <2>2, NameFacts DEF Init, Types, Dones
  <1>5. AfterInv /\ Due = {}
    BY <1>1, <1>2 DEF AfterInv, Due
  <1>6. FormInv /\ ToldTheTruth
    BY <1>5, NameFacts DEF Init, FormInv, Matches, ToldTheTruth
  <1>7. QED
    BY <1>3, <1>4, <1>5, <1>6, TypeParts DEF IInv

LEMMA NextStep == IInv /\ [Next]_vars => IInv'
  <1> SUFFICES ASSUME IInv, [Next]_vars PROVE IInv'
    OBVIOUS
  <1>1. CASE Pick
    BY <1>1, PickRegexStep, PickTagStep, PickSyslogRuleStep, PickTrapRuleStep DEF Pick
  <1>2. ASSUME NEW r \in requests, Answer(r)
        PROVE  IInv'
    BY <1>2, ListArrivesStep, DetailsArriveStep, ChangeArrivesStep DEF Answer
  <1>3. ASSUME NEW r \in requests, Fail(r)
        PROVE  IInv'
    BY <1>3, ListFailsStep, DetailsFailStep, ChangeFailsStep DEF Fail
  <1>4. CASE AddNew \/ Cancel \/ Type
    BY <1>4, AddNewStep, CancelStep, TypeStep
  <1>5. QED
    BY <1>1, <1>2, <1>3, <1>4, ButtonStep, TagsArriveStep, SessionExpiresStep, ServeStep,
       StutterStep DEF Next

LEMMA Inductive == Spec => []IInv
  BY InitStep, NextStep, PTL DEF Spec

\* What the editors, their hooks and their requests hold keeps its type.
THEOREM TypeCorrect == Spec => []TypeOK
  <1>1. IInv => TypeOK
    BY DEF IInv, TypeInv
  <1>2. QED
    BY <1>1, Inductive, PTL

\* The form is the picked item's once nothing is due, unless a click fell into an
\* answer that was (handleSelect, the effect on details, the ends of the handlers).
THEOREM FormIsPicked == Spec => []ShownIsPicked
  <1>1. IInv => ShownIsPicked
    BY DEF IInv, FormInv, Matches, ShownIsPicked
  <1>2. QED
    BY <1>1, Inductive, PTL

\* No success is announced of a change the backend did not make, but of one that the
\* hooks of the regular expressions and of the tags did not send: without a name, or in
\* a session that had expired (create, update, remove, and the handlers that call them).
THEOREM SuccessIsTrue == Spec => []ToldTheTruth
  <1>1. IInv => ToldTheTruth
    BY DEF IInv
  <1>2. QED
    BY <1>1, Inductive, PTL
=============================================================================
