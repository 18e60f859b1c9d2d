SPECIFICATION Spec
CONSTANTS
    t1 = t1
    push = push
    pushSpaced = pushSpaced
    list = list
    denyAll = denyAll
    askPush = askPush
    allowPush = allowPush
    Threads = {t1}
    User = user
    Actions <- MCActions
    Key <- MCKey
    Risky <- MCRisky
    Rules <- MCRules
    Effect <- MCEffect
    Covers <- MCCovers
    Asks <- MCAsks
    MaxRequests = 1
INVARIANTS StandingRulesBind
PROPERTY OnlyApprovedIsGranted
CHECK_DEADLOCK FALSE
