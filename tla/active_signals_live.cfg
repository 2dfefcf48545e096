SPECIFICATION Spec
CONSTANTS
    router = router
    updown = updown
    trapDown = trapDown
    trapUp = trapUp
    state_down = state_down
    state_up = state_up
    eth0 = eth0
    vrfA = vrfA
    linkRule = linkRule
    longRule = longRule
    Devices <- MCDevices
    Mnemonics <- MCMnemonics
    Tags <- MCTags
    Rules <- MCRules
    RuleDef <- MCTrapRuleDef
    LongNamed = {longRule}
    Messages <- MCTrapMessages
    MaxSignals = 2
    Service = "traps"
    TrapIds = {}
    TrapSignal <- MCNoTrapSignal
    TrapRules = {}
    NoSignal = NoSignal
    MaxIds = 2
    MaxLog = 2
    MaxCrashes = 1
    MaxAge = 2
PROPERTIES
    DelaysEnd
