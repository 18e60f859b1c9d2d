----------------------------- MODULE MCApprovals -----------------------------
(* Model-checking instance of Approvals: a risky action in two spellings    *)
(* that normalise to one key, and a harmless one; one rule of each effect,  *)
(* the asking rule matching a single spelling as a regex can.  MCOne is the *)
(* risky action alone, under no rule, for the replays of disagreements.     *)
EXTENDS Approvals

CONSTANTS t1, push, pushSpaced, list, denyAll, askPush, allowPush

MCActions == {push, pushSpaced, list}
MCKey     == [a \in MCActions |-> IF a = list THEN "list" ELSE "push"]
MCRisky   == {push, pushSpaced}
MCRules   == {denyAll, askPush, allowPush}
MCEffect  == [r \in MCRules |-> IF r = denyAll THEN "deny"
                                ELSE IF r = askPush THEN "ask" ELSE "allow"]
MCCovers  == [r \in MCRules |-> IF r = denyAll THEN MCActions
                                ELSE IF r = askPush THEN {push} ELSE {push, pushSpaced}]
MCAsks    == {<<t1, push, "before">>, <<t1, list, "after">>, <<User, pushSpaced, "never">>}

MCOneAsks   == {t1} \X {push} \X Routes
MCOne       == {push}
MCOneKey    == [a \in MCOne |-> a]
MCNoRule    == {}
MCNoEffect  == [r \in MCNoRule |-> "ask"]
MCNoCovers  == [r \in MCNoRule |-> MCOne]
==============================================================================
