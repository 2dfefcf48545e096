--------------------------- MODULE MCActiveSignals ---------------------------
(* Small instances: a syslog rule whose signals differ by the tags they affect, *)
(* beside a trap service with a rule of that name; and a trap service with two  *)
(* rules, one with a name too long for ActiveSignal.rule.                       *)
EXTENDS ActiveSignals, TLC

CONSTANTS router, updown, trapDown, trapUp, state_down, state_up, eth0, vrfA, linkRule, longRule

MCDevices == {router}
MCMnemonics == {updown, trapDown, trapUp}
MCTags == {state_down, state_up, eth0, vrfA}
MCRules == {linkRule, longRule}

MCRuleDef ==
    linkRule :> [openMnemonic |-> updown, closeMnemonic |-> updown,
                 openTags |-> {state_down}, closeTags |-> {state_up},
                 affected |-> {eth0, vrfA}, warmup |-> 0, cooldown |-> 0]

MCMessages ==
    {[device |-> router, mnemonic |-> updown, tags |-> t] :
        t \in {{state_down, eth0}, {state_down, eth0, vrfA}, {state_up, eth0, vrfA}}}

(* The trap service's signal has the problem of a syslog signal. *)
MCTrapIds == {3}
MCTrapSignal == 3 :> [device |-> router, rule |-> linkRule, entities |-> {eth0, vrfA}]

MCNoTrapSignal == [x \in {} |-> x]

(* Trap rules: matched by their OID alone, no tag. *)
MCTrapRuleDef ==
    linkRule :> [openMnemonic |-> trapDown, closeMnemonic |-> trapUp,
                 openTags |-> {}, closeTags |-> {},
                 affected |-> {eth0}, warmup |-> 1, cooldown |-> 1]
 @@ longRule :> [openMnemonic |-> trapDown, closeMnemonic |-> trapUp,
                 openTags |-> {}, closeTags |-> {},
                 affected |-> {}, warmup |-> 0, cooldown |-> 1]

MCTrapMessages ==
    {[device |-> router, mnemonic |-> trapDown, tags |-> {eth0}],
     [device |-> router, mnemonic |-> trapUp, tags |-> {eth0}]}
=============================================================================
