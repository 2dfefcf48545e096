SPECIFICATION Spec
CONSTANTS
    router = router
    updown = updown
    trapDown = trapDown
    trapUp = trapUp
    state_down = state_down
    state_up = state_up
    eth0 = eth0
    vrfA = vrfA
    linkRule = linkRule
    longRule = longRule
    Devices <- MCDevices
    Mnemonics <- MCMnemonics
    Tags <- MCTags
    Rules = {linkRule}
    RuleDef <- MCRuleDef
    LongNamed = {}
    Messages <- MCMessages
    MaxSignals = 2
    Service = "syslogs"
    TrapIds <- MCTrapIds
    TrapSignal <- MCTrapSignal
    TrapRules = {linkRule}
    NoSignal = NoSignal
    MaxIds = 2
    MaxLog = 2
    MaxCrashes = 1
    MaxAge = 0
INVARIANTS
    TypeOK
    UniqueActive
    RedisMirrors
    NoResurrection
PROPERTIES
    ImplementsLifecycle
