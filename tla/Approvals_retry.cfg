SPECIFICATION Spec
CONSTANTS
    t1 = t1
    push = push
    pushSpaced = pushSpaced
    list = list
    denyAll = denyAll
    askPush = askPush
    allowPush = allowPush
    Threads = {t1}
    User = user
    Actions <- MCOne
    Key <- MCOneKey
    Risky <- MCOne
    Rules <- MCNoRule
    Effect <- MCNoEffect
    Covers <- MCNoCovers
    Asks <- MCOneAsks
    MaxRequests = 2
INVARIANT ApprovedRetryIsNotHeld
CHECK_DEADLOCK FALSE
