---------------------------- MODULE ApprovalsProofs ----------------------------
(***************************************************************************)
(* Proofs about Approvals, for any agents, actions and rules: TypeOK;      *)
(* StandingRulesBind, that no interleaving lets an action past a rule that *)
(* was in force all along; and OnlyApprovedIsGranted, that every action a  *)
(* grant lets through goes back to the user's own decision about it.       *)
(*                                                                         *)
(* StandingRulesBind is not inductive: what the later looks of evaluate    *)
(* rely on is what the first look found.  Screened says it.  For the       *)
(* grants, Backed finds the decision behind each of them, and behind the   *)
(* one rules_resolve is about to add; Past and Closed say why a stale      *)
(* sheet adds none: what it shows again has left the pending map.          *)
(***************************************************************************)
EXTENDS Approvals, TLAPS

Stages == {"asked", "screened", "ungranted", "granted", "ruled", "harmless", "denied", "held"}

(* What is known of the rules that have been in force since an ask began:   *)
(* they cover its action, and once the rules have been looked at they can   *)
(* only be ask rules, and then the ask is forced.                           *)
Known(b, q, rs) ==
    \A r \in b : r \in rs /\ Effect[r] # "allow" /\ q.action \in Covers[r]

Screened ==
    \A t \in Askers :
        /\ ask[t] # NoAsk => Known(barring[t], ask[t], rules)
        /\ ask[t].stage \in {"screened", "ungranted"} =>
              \A r \in barring[t] : Effect[r] = "ask" /\ ask[t].forced
        /\ ask[t].stage \in {"granted", "ruled", "harmless"} => barring[t] = {}

(* The decision in d is what grant g rests on, and no stop has ended it.    *)
Behind(d, g) ==
    /\ d \in decided /\ <<d, TRUE>> \notin ended
    /\ g[1] = Key[d.request.action]
    /\ \/ d.outcome = "workspace" /\ g[2] = "workspace"
       \/ d.outcome = "task" /\ g[2] = d.request.asker

(* Every standing grant, and the one a click may still bring, has its       *)
(* decision.                                                                *)
Backed ==
    /\ \A g \in grants : \E d \in decided : Behind(d, g)
    /\ \A d \in Decisions : Unsettled(d) => d \in decided /\ <<d, TRUE>> \notin ended

(* No request but one in the pending map is yet to come.                    *)
Past ==
    /\ \A r \in sheet : r.id <= queued
    /\ \A f \in Fetches : fetching[f].stage = "read" =>
          \A r \in fetching[f].list : r.id <= queued
    /\ \A d \in decided : d.request.id <= queued
    /\ resolving # NoDecision => resolving.decision.request.id <= queued

(* A request the user decided about has left the pending map, but for the   *)
(* one whose decision is on its way.                                        *)
Closed ==
    \A d \in decided : d.request \in pending =>
        resolving.stage = "sent" /\ resolving.decision.request = d.request

Inv == TypeOK /\ Screened /\ Backed /\ Past /\ Closed

-----------------------------------------------------------------------------
(* Asks.                                                                    *)

LEMMA WaitingShape ==
    ASSUME TypeOK, NEW t \in Askers, ask[t].stage # "idle"
    PROVE  ask[t] \in Waiting
BY DEF TypeOK, NoAsk

LEMMA IdleShape ==
    ASSUME TypeOK, NEW t \in Askers, ask[t].stage = "idle"
    PROVE  ask[t] = NoAsk
BY DEF TypeOK, NoAsk, Waiting

(* A step of one asker leaves the others' asks alone and its own an ask     *)
(* with the same action, route and marks.                                   *)
LEMMA StepShape ==
    ASSUME TypeOK, NEW t \in Askers, NEW s \in Stages, ask[t] \in Waiting, Step(t, s)
    PROVE  /\ ask' \in [Askers -> Waiting \cup {NoAsk}]
           /\ ask'[t] \in Waiting
           /\ ask'[t].stage = s
           /\ ask'[t].action = ask[t].action
           /\ ask'[t].forced = ask[t].forced
           /\ \A u \in Askers \ {t} : ask'[u] = ask[u]
<1>1. ask \in [Askers -> Waiting \cup {NoAsk}]
  BY DEF TypeOK
<1>2. ask' = [ask EXCEPT ![t].stage = s]
  BY DEF Step
<1>3. [ask[t] EXCEPT !.stage = s] \in Waiting
  BY DEF Waiting, Stages
<1>4. QED
  BY <1>1, <1>2, <1>3 DEF Waiting

LEMMA ScreenShape ==
    ASSUME TypeOK, NEW t \in Askers, ask[t].stage = "asked", NEW f \in BOOLEAN,
           ask' = [ask EXCEPT ![t].stage = "screened", ![t].forced = f]
    PROVE  /\ ask' \in [Askers -> Waiting \cup {NoAsk}]
           /\ ask'[t] \in Waiting
           /\ ask'[t].stage = "screened"
           /\ ask'[t].action = ask[t].action
           /\ ask'[t].forced = f
           /\ \A u \in Askers \ {t} : ask'[u] = ask[u]
<1>1. ask \in [Askers -> Waiting \cup {NoAsk}]
  BY DEF TypeOK
<1>2. ask[t] \in Waiting
  BY WaitingShape
<1>3. [ask[t] EXCEPT !.stage = "screened", !.forced = f] \in Waiting
  BY <1>2 DEF Waiting
<1>4. QED
  BY <1>1, <1>2, <1>3 DEF Waiting

-----------------------------------------------------------------------------
(* Type correctness.                                                        *)

LEMMA TypeInit == Init => TypeOK
<1> SUFFICES ASSUME Init PROVE TypeOK
  OBVIOUS
<1>1. /\ queued \in 0 .. MaxRequests /\ pending = {} /\ resolving = NoDecision
      /\ fetching \in [Fetches -> Fetched \cup {NoFetch, Asked}]
      /\ ended \subseteq decided \X BOOLEAN /\ decided \subseteq Decisions
  BY BoundAssumption DEF Init
<1>2. /\ ask \in [Askers -> Waiting \cup {NoAsk}]
      /\ barring \in [Askers -> SUBSET Rules]
  BY DEF Init
<1>3. QED
  BY <1>1, <1>2 DEF Init, TypeOK

LEMMA TypeStep == TypeOK /\ [Next]_vars => TypeOK'
<1> SUFFICES ASSUME TypeOK, [Next]_vars PROVE TypeOK'
  OBVIOUS
<1>1. ASSUME NEW t \in Askers, NEW a \in Actions, NEW route \in Routes, Ask(t, a, route)
      PROVE  TypeOK'
  <2>1. [stage |-> "asked", action |-> a, route |-> route, forced |-> FALSE,
         retry |-> <<t, a>> \in promised] \in Waiting
    BY <1>1 DEF Waiting
  <2>2. ask' \in [Askers -> Waiting \cup {NoAsk}]
    BY <1>1, <2>1 DEF Ask, TypeOK
  <2>3. barring' \in [Askers -> SUBSET Rules] /\ news' \in BOOLEAN
    BY <1>1 DEF Ask, TypeOK
  <2>4. QED
    BY <1>1, <2>2, <2>3 DEF Ask, TypeOK, engineVars
<1>2. ASSUME NEW t \in Askers, NEW s \in Stages, ask[t].stage # "idle", Step(t, s),
             UNCHANGED <<rules, grants, resolving, uiVars, ghostVars>>,
             \/ UNCHANGED <<pending, queued>>
             \/ /\ queued' \in 0 .. MaxRequests
                /\ pending' \subseteq Requests
                /\ \A q, r \in pending' : q.id = r.id => q = r
                /\ \A r \in pending' : r.id <= queued'
      PROVE  TypeOK'
  <2>1. ask' \in [Askers -> Waiting \cup {NoAsk}]
    BY <1>2, WaitingShape, StepShape
  <2>2. QED
    BY <1>2, <2>1 DEF TypeOK, uiVars, ghostVars
<1>3. ASSUME NEW t \in Askers, Screen(t) PROVE TypeOK'
  <2>1. CASE Step(t, "denied")
    BY <1>2, <1>3, <2>1 DEF Screen, At, Stages, engineVars
  <2>2. CASE ask' = [ask EXCEPT ![t].stage = "screened",
                                ![t].forced = (Matching("ask", ask[t].action) # {})]
    <3>1. ask' \in [Askers -> Waiting \cup {NoAsk}]
      BY <1>3, <2>2, ScreenShape DEF Screen, At
    <3>2. QED
      BY <1>3, <3>1 DEF Screen, TypeOK, engineVars, uiVars, ghostVars
  <2>3. QED
    BY <1>3, <2>1, <2>2 DEF Screen
<1>4. ASSUME NEW t \in Askers, LookForGrant(t) \/ AllowedByRule(t) \/ Harmless(t)
      PROVE  TypeOK'
  <2>1. ask[t].stage # "idle" /\ \E s \in Stages : Step(t, s)
    BY <1>4 DEF LookForGrant, AllowedByRule, Harmless, NoRuleAllows, At, Stages
  <2>2. UNCHANGED <<rules, grants, pending, queued, resolving, uiVars, ghostVars>>
    BY <1>4 DEF LookForGrant, AllowedByRule, Harmless, engineVars
  <2>3. QED
    BY <1>2, <2>1, <2>2
<1>5. ASSUME NEW t \in Askers, Hold(t) PROVE TypeOK'
  <2> DEFINE new == [id |-> queued + 1, asker |-> t, action |-> ask[t].action]
  <2>1. ask[t] \in Waiting /\ ask[t].action \in Actions
    BY <1>5, WaitingShape DEF Hold, NoRuleAllows, At, Waiting
  <2>2. queued \in Nat /\ queued + 1 \in Ids /\ queued' = queued + 1 /\ queued' \in 0 .. MaxRequests
    BY <1>5, BoundAssumption DEF Hold, TypeOK, Ids
  <2>3. new \in Requests /\ pending' = pending \cup {new} /\ new.id = queued + 1
    BY <1>5, <2>1, <2>2 DEF Hold, Requests
  <2>4. \A r \in pending : r.id \in Nat /\ r.id <= queued
    BY DEF TypeOK, Requests, Ids
  <2>5. /\ pending' \subseteq Requests
        /\ \A r \in pending' : r.id <= queued'
        /\ \A q, r \in pending' : q.id = r.id => q = r
    <3> HIDE DEF new
    <3>1. \A q, r \in pending : q.id = r.id => q = r
      BY DEF TypeOK
    <3>2. QED
      BY <2>2, <2>3, <2>4, <3>1 DEF TypeOK
  <2>6. Step(t, "held") /\ ask[t].stage # "idle" /\ UNCHANGED <<rules, grants, resolving, uiVars, ghostVars>>
    BY <1>5 DEF Hold, NoRuleAllows, At
  <2>7. QED
    BY <1>2, <2>2, <2>5, <2>6 DEF Stages
<1>6. ASSUME NEW t \in Askers, Answer(t) PROVE TypeOK'
  BY <1>6 DEF Answer, TypeOK, engineVars
<1>7. ASSUME NewsArrives PROVE TypeOK'
  <2>1. fetching' \in [Fetches -> Fetched \cup {NoFetch, Asked}]
    BY <1>7 DEF NewsArrives, TypeOK, Fetches
  <2>2. QED
    BY <1>7, <2>1 DEF NewsArrives, TypeOK, engineVars, ghostVars
<1>8. ASSUME NEW f \in Fetches, ReadPending(f) \/ Show(f) PROVE TypeOK'
  <2>1. [stage |-> "read", list |-> pending] \in Fetched
    BY DEF Fetched, TypeOK
  <2>2. fetching' \in [Fetches -> Fetched \cup {NoFetch, Asked}]
    BY <1>8, <2>1 DEF ReadPending, Show, TypeOK
  <2>3. fetching[f].stage = "read" => fetching[f].list \subseteq Requests
    BY DEF TypeOK, Fetched, NoFetch, Asked
  <2>4. sheet' \subseteq Requests
    BY <1>8, <2>3 DEF ReadPending, Show, TypeOK
  <2>5. QED
    BY <1>8, <2>2, <2>4 DEF ReadPending, Show, TypeOK, engineVars, ghostVars
<1>9. ASSUME NEW r \in sheet, NEW o \in Outcomes, Decide(r, o) PROVE TypeOK'
  <2> DEFINE d == [outcome |-> o, request |-> r]
  <2>1. d \in Decisions
    BY <1>9 DEF Decide, TypeOK, Decisions
  <2>2. resolving' = [stage |-> "sent", decision |-> d] /\ decided' \in {decided, decided \cup {d}}
    BY <1>9 DEF Decide
  <2> HIDE DEF d
  <2>3. resolving' \in Resolving
    BY <2>1, <2>2 DEF Resolving
  <2>4. decided' \subseteq Decisions /\ ended \subseteq decided' \X BOOLEAN
    BY <2>1, <2>2 DEF TypeOK
  <2>5. QED
    BY <1>9, <2>3, <2>4 DEF Decide, TypeOK, engineVars, uiVars
<1>14. ASSUME Resolve PROVE TypeOK'
  <2>1. resolving \in Resolving
    BY <1>14 DEF Resolve, TypeOK, NoDecision
  <2>2. [resolving EXCEPT !.stage = "taken"] \in Resolving
    BY <2>1 DEF Resolving
  <2>3. resolving' \in Resolving \cup {NoDecision}
    BY <1>14, <2>2 DEF Resolve
  <2>4. fetching' \in [Fetches -> Fetched \cup {NoFetch, Asked}]
    BY <1>14 DEF Resolve, TypeOK, Fetches
  <2>5. pending' \subseteq pending
    BY <1>14 DEF Resolve
  <2>6. QED
    BY <1>14, <2>3, <2>4, <2>5 DEF Resolve, TypeOK, ghostVars
<1>15. ASSUME Settle PROVE TypeOK'
  <2> DEFINE d == resolving.decision
  <2>1. d \in Decisions /\ d.request \in Requests
    BY <1>15 DEF Settle, TypeOK, NoDecision, Resolving, Decisions
  <2>2. /\ d.request.asker \in Askers
        /\ d.request.action \in Actions
        /\ d.request.id \in Ids
    BY <2>1 DEF Requests
  <2>3. promised' \subseteq Askers \X Actions /\ edited' \subseteq Ids
    BY <1>15, <2>2 DEF Settle, TypeOK
  <2>4. GrantFor(d) \subseteq Grants
    <3>1. d.outcome = "task" => d.request.asker \in Threads
      BY <2>1 DEF Decisions
    <3>2. Key[d.request.action] \in Keys
      BY <2>2 DEF Keys
    <3>3. QED
      BY <3>1, <3>2 DEF GrantFor, Grants
  <2>5. rules' \subseteq Rules
    BY <1>15 DEF Settle, TypeOK
  <2>6. fetching' \in [Fetches -> Fetched \cup {NoFetch, Asked}]
    BY <1>15 DEF Settle, TypeOK, Fetches
  <2>7. grants' \subseteq Grants
    BY <1>15, <2>4 DEF Settle, TypeOK
  <2>8. QED
    BY <1>15, <2>3, <2>5, <2>6, <2>7 DEF Settle, TypeOK
<1>10. ASSUME NEW r \in Rules, AddRule(r) \/ RemoveRule(r) PROVE TypeOK'
  BY <1>10 DEF AddRule, RemoveRule, TypeOK, uiVars, ghostVars
<1>11. ASSUME NEW t \in Threads, StopThread(t) PROVE TypeOK'
  <2>1. \A d \in Decisions : Unsettled(d) \in BOOLEAN
    BY DEF Unsettled
  <2>2. ended' \subseteq decided \X BOOLEAN
    <3>1. \A d \in decided : <<d, ~Unsettled(d)>> \in decided \X BOOLEAN
      BY <2>1 DEF TypeOK
    <3>2. ended' \subseteq ended \cup {<<d, ~Unsettled(d)>> : d \in decided}
      BY <1>11 DEF StopThread
    <3>3. QED
      BY <3>1, <3>2 DEF TypeOK
  <2>3. QED
    BY <1>11, <2>2 DEF StopThread, TypeOK, uiVars
<1>12. CASE UNCHANGED vars
  BY <1>12 DEF vars, engineVars, uiVars, ghostVars, TypeOK
<1>13. QED
  BY <1>1, <1>3, <1>4, <1>5, <1>6, <1>7, <1>8, <1>9, <1>10, <1>11, <1>12, <1>14, <1>15 DEF Next

(* Every variable keeps its type: in particular no two requests in the      *)
(* pending map share an id (RulesEngine.pending is keyed by it).            *)
THEOREM TypeCorrect == Spec => []TypeOK
BY TypeInit, TypeStep, PTL DEF Spec

-----------------------------------------------------------------------------
(* The invariant.                                                           *)

(* What Screened says of one asker.                                         *)
Fine(t) ==
    /\ ask[t] # NoAsk => Known(barring[t], ask[t], rules)
    /\ ask[t].stage \in {"screened", "ungranted"} =>
          \A r \in barring[t] : Effect[r] = "ask" /\ ask[t].forced
    /\ ask[t].stage \in {"granted", "ruled", "harmless"} => barring[t] = {}

(* An asker whose ask, bars and rules stay as they are stays fine.          *)
LEMMA FineStays ==
    ASSUME NEW t \in Askers, Fine(t), ask'[t] = ask[t], barring'[t] = barring[t],
           rules \subseteq rules'
    PROVE  Fine(t)'
BY DEF Fine, Known

(* One asker steps; the others, and the rules, stand still.                 *)
LEMMA OneSteps ==
    ASSUME TypeOK, Screened, NEW t \in Askers, UNCHANGED <<rules, barring>>,
           \A u \in Askers \ {t} : ask'[u] = ask[u],
           Fine(t)'
    PROVE  Screened'
<1>1. \A u \in Askers : Fine(u)
  BY DEF Screened, Fine
<1>2. \A u \in Askers \ {t} : Fine(u)'
  BY <1>1, FineStays
<1>3. QED
  BY <1>2 DEF Screened, Fine

LEMMA ScreenedStep == TypeOK /\ Screened /\ [Next]_vars => Screened'
<1> SUFFICES ASSUME TypeOK, Screened, [Next]_vars PROVE Screened'
  OBVIOUS
<1>0. \A u \in Askers : Fine(u)
  BY DEF Screened, Fine
<1>1. ASSUME NEW t \in Askers, NEW a \in Actions, NEW route \in Routes, Ask(t, a, route)
      PROVE  Screened'
  <2>1. /\ ask'[t].stage = "asked" /\ ask'[t].action = a
        /\ \A u \in Askers \ {t} : ask'[u] = ask[u] /\ barring'[u] = barring[u]
        /\ barring'[t] = {r \in rules : Effect[r] # "allow" /\ a \in Covers[r]}
        /\ rules' = rules
    BY <1>1 DEF Ask, TypeOK, engineVars
  <2>2. Fine(t)'
    BY <2>1 DEF Fine, Known
  <2>3. \A u \in Askers \ {t} : Fine(u)'
    BY <1>0, <2>1, FineStays
  <2>4. QED
    BY <2>2, <2>3 DEF Screened, Fine
<1>2. ASSUME NEW t \in Askers, Screen(t) PROVE Screened'
  <2> DEFINE a == ask[t].action
  <2>1. ask[t].stage = "asked" /\ ask[t] \in Waiting /\ Known(barring[t], ask[t], rules)
    BY <1>0, <1>2, WaitingShape DEF Screen, At, Fine, NoAsk
  <2>2. UNCHANGED <<rules, barring>>
    BY <1>2 DEF Screen, engineVars, ghostVars
  <2>3. CASE Step(t, "denied")
    <3>1. /\ ask'[t].stage = "denied" /\ ask'[t].action = a
          /\ \A u \in Askers \ {t} : ask'[u] = ask[u]
      BY <2>1, <2>3, StepShape DEF Stages
    <3>2. Fine(t)'
      BY <2>1, <2>2, <3>1 DEF Fine, Known
    <3>3. QED
      BY <2>2, <3>1, <3>2, OneSteps
  <2>4. CASE /\ Matching("deny", a) = {}
             /\ ask' = [ask EXCEPT ![t].stage = "screened",
                                   ![t].forced = (Matching("ask", a) # {})]
    <3>1. /\ ask'[t].stage = "screened" /\ ask'[t].action = a
          /\ ask'[t].forced = (Matching("ask", a) # {})
          /\ \A u \in Askers \ {t} : ask'[u] = ask[u]
      BY <2>1, <2>4, ScreenShape
    <3>2. \A r \in barring[t] : Effect[r] = "ask" /\ r \in Matching("ask", a)
      <4>1. \A r \in barring[t] : r \in Rules /\ r \in rules /\ a \in Covers[r] /\ Effect[r] # "allow"
        BY <2>1 DEF Known, TypeOK
      <4>2. \A r \in barring[t] : Effect[r] # "deny"
        BY <2>4, <4>1 DEF Matching
      <4>3. \A r \in barring[t] : Effect[r] = "ask"
        BY <4>1, <4>2, RuleAssumption
      <4>4. QED
        BY <4>1, <4>3 DEF Matching
    <3>3. Fine(t)'
      BY <2>1, <2>2, <3>1, <3>2 DEF Fine, Known
    <3>4. QED
      BY <2>2, <3>1, <3>3, OneSteps
  <2>5. QED
    BY <1>2, <2>3, <2>4 DEF Screen
<1>3. ASSUME NEW t \in Askers, NEW s \in Stages, ask[t].stage # "idle", Step(t, s),
             UNCHANGED <<rules, barring>>,
             s = "ungranted" => ask[t].stage = "screened",
             s # "screened",
             s \in {"granted", "ruled", "harmless"} =>
                 ask[t].stage \in {"screened", "ungranted"} /\ ~ask[t].forced
      PROVE  Screened'
  <2>1. ask[t] \in Waiting /\ Known(barring[t], ask[t], rules)
    BY <1>0, <1>3, WaitingShape DEF Fine, NoAsk
  <2>2. /\ ask'[t].stage = s /\ ask'[t].action = ask[t].action
        /\ ask'[t].forced = ask[t].forced
        /\ \A u \in Askers \ {t} : ask'[u] = ask[u]
    BY <1>3, <2>1, StepShape
  <2>3. ask[t].stage \in {"screened", "ungranted"} =>
           \A r \in barring[t] : Effect[r] = "ask" /\ ask[t].forced
    BY <1>0 DEF Fine
  <2>4. Known(barring'[t], ask'[t], rules')
    BY <1>3, <2>1, <2>2 DEF Known
  <2>5. s = "ungranted" => \A r \in barring'[t] : Effect[r] = "ask" /\ ask'[t].forced
    BY <1>3, <2>2, <2>3
  <2>6. s \in {"granted", "ruled", "harmless"} => barring'[t] = {}
    BY <1>3, <2>3
  <2>7. Fine(t)'
    BY <1>3, <2>2, <2>4, <2>5, <2>6 DEF Fine
  <2>8. QED
    BY <1>3, <2>2, <2>7, OneSteps
<1>4. ASSUME NEW t \in Askers, LookForGrant(t) PROVE Screened'
  BY <1>3, <1>4 DEF LookForGrant, At, Stages, ghostVars, engineVars
<1>5. ASSUME NEW t \in Askers, AllowedByRule(t) \/ Harmless(t) PROVE Screened'
  BY <1>3, <1>5 DEF AllowedByRule, Harmless, NoRuleAllows, At, Stages, ghostVars, engineVars
<1>6. ASSUME NEW t \in Askers, Hold(t) PROVE Screened'
  BY <1>3, <1>6 DEF Hold, NoRuleAllows, At, Stages, ghostVars
<1>7. ASSUME NEW t \in Askers, Answer(t) PROVE Screened'
  <2>1. /\ ask'[t] = NoAsk /\ rules' = rules
        /\ \A u \in Askers \ {t} : ask'[u] = ask[u] /\ barring'[u] = barring[u]
    BY <1>7 DEF Answer, TypeOK, engineVars
  <2>2. Fine(t)'
    BY <2>1 DEF Fine, NoAsk
  <2>3. \A u \in Askers \ {t} : Fine(u)'
    BY <1>0, <2>1, FineStays
  <2>4. QED
    BY <2>2, <2>3 DEF Screened, Fine
<1>8. ASSUME ask' = ask, barring' = barring, rules \subseteq rules' PROVE Screened'
  <2>1. \A u \in Askers : Fine(u)'
    BY <1>0, <1>8, FineStays
  <2>2. QED
    BY <2>1 DEF Screened, Fine
<1>9. CASE NewsArrives \/ Resolve \/ Settle \/ UNCHANGED vars
  BY <1>8, <1>9 DEF NewsArrives, Resolve, Settle, engineVars, ghostVars, vars
<1>10. ASSUME NEW r \in sheet, NEW o \in Outcomes, Decide(r, o) PROVE Screened'
  BY <1>8, <1>10 DEF Decide, engineVars
<1>15. ASSUME NEW f \in Fetches, ReadPending(f) \/ Show(f) PROVE Screened'
  BY <1>8, <1>15 DEF ReadPending, Show, engineVars, ghostVars
<1>11. ASSUME NEW r \in Rules, AddRule(r) PROVE Screened'
  BY <1>8, <1>11 DEF AddRule, ghostVars
<1>12. ASSUME NEW r \in Rules, RemoveRule(r) PROVE Screened'
  <2>1. /\ ask' = ask /\ rules' = rules \ {r}
        /\ \A u \in Askers : barring'[u] = barring[u] \ {r}
    BY <1>12 DEF RemoveRule
  <2>2. \A u \in Askers : Fine(u)'
    BY <1>0, <2>1 DEF Fine, Known
  <2>3. QED
    BY <2>2 DEF Screened, Fine
<1>13. ASSUME NEW t \in Threads, StopThread(t) PROVE Screened'
  BY <1>8, <1>13 DEF StopThread
<1>14. QED
  BY <1>1, <1>2, <1>4, <1>5, <1>6, <1>7, <1>9, <1>10, <1>11, <1>12, <1>13, <1>15 DEF Next

(* What a step may do to the sheet and what it is fetched from.            *)
LEMMA PastStep == TypeOK /\ Past /\ [Next]_vars => Past'
<1> SUFFICES ASSUME TypeOK, Past, [Next]_vars PROVE Past'
  OBVIOUS
<1>0. queued \in Nat /\ \A r \in pending : r.id <= queued
  BY BoundAssumption DEF TypeOK
<1>1. ASSUME UNCHANGED <<sheet, fetching, decided, resolving, queued>> PROVE Past'
  BY <1>1 DEF Past
<1>2. ASSUME NEW t \in Askers, NEW a \in Actions, NEW route \in Routes, Ask(t, a, route)
      PROVE  Past'
  BY <1>1, <1>2 DEF Ask, engineVars
<1>3. ASSUME NEW t \in Askers,
             Screen(t) \/ LookForGrant(t) \/ AllowedByRule(t) \/ Harmless(t) \/ Answer(t)
      PROVE  Past'
  BY <1>1, <1>3 DEF Screen, LookForGrant, AllowedByRule, Harmless, Answer, engineVars, uiVars, ghostVars
<1>4. ASSUME NEW t \in Askers, Hold(t) PROVE Past'
  <2>1. queued' = queued + 1 /\ UNCHANGED <<sheet, fetching, decided, resolving>>
    BY <1>4 DEF Hold, uiVars, ghostVars
  <2>2. \A r \in Requests : r.id \in Nat /\ (r.id <= queued => r.id <= queued')
    BY <1>0, <2>1 DEF Requests, Ids
  <2>3. \A r \in sheet' : r.id <= queued'
    BY <2>1, <2>2 DEF Past, TypeOK
  <2>4. \A f \in Fetches : fetching'[f].stage = "read" => \A r \in fetching'[f].list : r.id <= queued'
    <3> SUFFICES ASSUME NEW f \in Fetches, fetching[f].stage = "read", NEW r \in fetching[f].list
                 PROVE  r.id <= queued'
      BY <2>1
    <3>1. fetching[f].list \subseteq Requests
      BY DEF TypeOK, Fetched, NoFetch, Asked
    <3>2. QED
      BY <2>2, <3>1 DEF Past
  <2>5. \A d \in decided' : d.request.id <= queued'
    BY <2>1, <2>2 DEF Past, TypeOK, Decisions
  <2>6. resolving' # NoDecision => resolving'.decision.request.id <= queued'
    BY <2>1, <2>2 DEF Past, TypeOK, Resolving, Decisions
  <2>7. QED
    BY <2>3, <2>4, <2>5, <2>6 DEF Past
<1>5. CASE NewsArrives
  <2>1. \A f \in Fetches : fetching'[f] \in {fetching[f], Asked}
    BY <1>5 DEF NewsArrives, TypeOK
  <2>2. UNCHANGED <<sheet, decided, resolving, queued>>
    BY <1>5 DEF NewsArrives, engineVars, ghostVars
  <2>3. QED
    BY <2>1, <2>2 DEF Past, Asked
<1>6. ASSUME NEW f \in Fetches, ReadPending(f) PROVE Past'
  <2>1. \A g \in Fetches : fetching'[g] \in {fetching[g], [stage |-> "read", list |-> pending]}
    BY <1>6 DEF ReadPending, TypeOK
  <2>2. UNCHANGED <<sheet, decided, resolving, queued>>
    BY <1>6 DEF ReadPending, engineVars, ghostVars
  <2>3. \A g \in Fetches : fetching'[g].stage = "read" => \A r \in fetching'[g].list : r.id <= queued
    BY <1>0, <2>1 DEF Past
  <2>4. QED
    BY <2>2, <2>3 DEF Past
<1>7. ASSUME NEW f \in Fetches, Show(f) PROVE Past'
  <2>1. \A g \in Fetches : fetching'[g] \in {fetching[g], NoFetch}
    BY <1>7 DEF Show, TypeOK
  <2>2. sheet' = fetching[f].list /\ fetching[f].stage = "read"
        /\ UNCHANGED <<decided, resolving, queued>>
    BY <1>7 DEF Show, engineVars, ghostVars
  <2>3. QED
    BY <2>1, <2>2 DEF Past, NoFetch
<1>8. ASSUME NEW r \in sheet, NEW o \in Outcomes, Decide(r, o) PROVE Past'
  <2> DEFINE d == [outcome |-> o, request |-> r]
  <2>1. resolving' = [stage |-> "sent", decision |-> d] /\ decided' \subseteq decided \cup {d}
        /\ UNCHANGED <<sheet, fetching, queued>>
    BY <1>8 DEF Decide, engineVars, uiVars
  <2>2. r.id <= queued
    BY DEF Past
  <2>3. QED
    BY <2>1, <2>2 DEF Past
<1>9. CASE Resolve \/ Settle
  <2>1. \A f \in Fetches : fetching'[f] \in {fetching[f], Asked}
    BY <1>9 DEF Resolve, Settle, TypeOK
  <2>2. UNCHANGED <<sheet, decided, queued>> /\ resolving # NoDecision
    BY <1>9 DEF Resolve, Settle, ghostVars, NoDecision
  <2>3. resolving' # NoDecision => resolving' \in Resolving /\ resolving'.decision = resolving.decision
    BY <1>9 DEF Resolve, Settle, TypeOK, Resolving, NoDecision
  <2>4. QED
    BY <2>1, <2>2, <2>3 DEF Past, Asked
<1>10. ASSUME NEW r \in Rules, AddRule(r) \/ RemoveRule(r) PROVE Past'
  BY <1>1, <1>10 DEF AddRule, RemoveRule, uiVars, ghostVars
<1>11. ASSUME NEW t \in Threads, StopThread(t) PROVE Past'
  BY <1>1, <1>11 DEF StopThread, uiVars
<1>12. CASE UNCHANGED vars
  BY <1>1, <1>12 DEF vars, engineVars, uiVars, ghostVars
<1>13. QED
  BY <1>2, <1>3, <1>4, <1>5, <1>6, <1>7, <1>8, <1>9, <1>10, <1>11, <1>12 DEF Next

LEMMA ClosedStep == TypeOK /\ Past /\ Closed /\ [Next]_vars => Closed'
<1> SUFFICES ASSUME TypeOK, Past, Closed, [Next]_vars PROVE Closed'
  OBVIOUS
<1>1. ASSUME UNCHANGED <<decided, resolving, pending>> PROVE Closed'
  BY <1>1 DEF Closed
<1>2. ASSUME NEW t \in Askers, NEW a \in Actions, NEW route \in Routes, Ask(t, a, route)
      PROVE  Closed'
  BY <1>1, <1>2 DEF Ask, engineVars
<1>3. ASSUME NEW t \in Askers,
             Screen(t) \/ LookForGrant(t) \/ AllowedByRule(t) \/ Harmless(t) \/ Answer(t)
      PROVE  Closed'
  BY <1>1, <1>3 DEF Screen, LookForGrant, AllowedByRule, Harmless, Answer, engineVars, ghostVars
<1>4. ASSUME NEW t \in Askers, Hold(t) PROVE Closed'
  <2> DEFINE new == [id |-> queued + 1, asker |-> t, action |-> ask[t].action]
  <2>1. pending' = pending \cup {new} /\ new.id = queued + 1 /\ queued \in Nat
    BY <1>4, BoundAssumption DEF Hold, TypeOK
  <2>2. UNCHANGED <<decided, resolving>>
    BY <1>4 DEF Hold, ghostVars
  <2> HIDE DEF new
  <2>3. \A d \in decided : d.request # new
    <3>1. \A d \in decided : d.request.id \in Nat /\ d.request.id <= queued
      BY DEF Past, TypeOK, Decisions, Requests, Ids
    <3>2. QED
      BY <2>1, <3>1
  <2>4. QED
    BY <2>1, <2>2, <2>3 DEF Closed
<1>5. ASSUME NewsArrives \/ (\E f \in Fetches : ReadPending(f) \/ Show(f)) PROVE Closed'
  BY <1>1, <1>5 DEF NewsArrives, ReadPending, Show, engineVars, ghostVars
<1>6. ASSUME NEW r \in sheet, NEW o \in Outcomes, Decide(r, o) PROVE Closed'
  <2> DEFINE d == [outcome |-> o, request |-> r]
  <2>1. resolving' = [stage |-> "sent", decision |-> d] /\ decided' \subseteq decided \cup {d}
        /\ pending' = pending /\ resolving = NoDecision
    BY <1>6 DEF Decide, engineVars
  <2>2. \A e \in decided : e.request \notin pending
    BY <2>1 DEF Closed, NoDecision
  <2>3. QED
    BY <2>1, <2>2 DEF Closed
<1>7. CASE Resolve
  <2>1. pending' = pending \ {resolving.decision.request} /\ decided' = decided
        /\ resolving.stage = "sent"
    BY <1>7 DEF Resolve, ghostVars
  <2>2. \A d \in decided : d.request \notin pending'
    BY <2>1 DEF Closed
  <2>3. QED
    BY <2>1, <2>2 DEF Closed
<1>8. CASE Settle
  <2>1. UNCHANGED <<pending, decided>> /\ resolving.stage = "taken"
    BY <1>8 DEF Settle
  <2>2. QED
    BY <2>1 DEF Closed
<1>9. ASSUME NEW r \in Rules, AddRule(r) \/ RemoveRule(r) PROVE Closed'
  BY <1>1, <1>9 DEF AddRule, RemoveRule, ghostVars
<1>10. ASSUME NEW t \in Threads, StopThread(t) PROVE Closed'
  BY <1>1, <1>10 DEF StopThread
<1>11. CASE UNCHANGED vars
  BY <1>1, <1>11 DEF vars, engineVars, ghostVars
<1>12. QED
  BY <1>2, <1>3, <1>4, <1>5, <1>6, <1>7, <1>8, <1>9, <1>10, <1>11 DEF Next

LEMMA BackedStep == TypeOK /\ Past /\ Closed /\ Backed /\ [Next]_vars => Backed'
<1> SUFFICES ASSUME TypeOK, Past, Closed, Backed, [Next]_vars PROVE Backed'
  OBVIOUS
<1>1. ASSUME UNCHANGED <<grants, decided, ended, resolving>>,
             \A d \in Decisions : Unsettled(d)' => Unsettled(d)
      PROVE  Backed'
  <2>1. \A g \in grants' : \E d \in decided' : Behind(d, g)'
    BY <1>1 DEF Backed, Behind
  <2>2. QED
    BY <1>1, <2>1 DEF Backed
<1>2. ASSUME UNCHANGED <<grants, decided, ended, resolving, pending>> PROVE Backed'
  <2>1. \A d \in Decisions : Unsettled(d)' => Unsettled(d)
    BY <1>2 DEF Unsettled
  <2>2. QED
    BY <1>1, <1>2, <2>1
<1>3. ASSUME NEW t \in Askers, NEW a \in Actions, NEW route \in Routes, Ask(t, a, route)
      PROVE  Backed'
  BY <1>2, <1>3 DEF Ask, engineVars
<1>4. ASSUME NEW t \in Askers,
             Screen(t) \/ LookForGrant(t) \/ AllowedByRule(t) \/ Harmless(t) \/ Answer(t)
      PROVE  Backed'
  BY <1>2, <1>4 DEF Screen, LookForGrant, AllowedByRule, Harmless, Answer, engineVars, ghostVars
<1>5. ASSUME NEW t \in Askers, Hold(t) PROVE Backed'
  <2> DEFINE new == [id |-> queued + 1, asker |-> t, action |-> ask[t].action]
  <2>1. pending' = pending \cup {new} /\ new.id = queued + 1 /\ queued \in Nat
    BY <1>5, BoundAssumption DEF Hold, TypeOK
  <2>2. UNCHANGED <<grants, decided, ended, resolving>>
    BY <1>5 DEF Hold, ghostVars
  <2> HIDE DEF new
  <2>3. resolving # NoDecision => resolving.decision.request # new
    <3>1. resolving # NoDecision => resolving.decision.request.id \in Nat
      BY DEF TypeOK, Resolving, Decisions, Requests, Ids
    <3>2. QED
      BY <2>1, <3>1 DEF Past
  <2>4. \A d \in Decisions : Unsettled(d)' => Unsettled(d)
    BY <2>1, <2>2, <2>3 DEF Unsettled
  <2>5. QED
    BY <1>1, <2>2, <2>4
<1>6. ASSUME NewsArrives \/ (\E f \in Fetches : ReadPending(f) \/ Show(f)) PROVE Backed'
  BY <1>2, <1>6 DEF NewsArrives, ReadPending, Show, engineVars, ghostVars
<1>7. ASSUME NEW r \in sheet, NEW o \in Outcomes, Decide(r, o) PROVE Backed'
  <2> DEFINE d == [outcome |-> o, request |-> r]
  <2>1. /\ resolving' = [stage |-> "sent", decision |-> d] /\ resolving = NoDecision
        /\ decided' = IF \E e \in decided : e.request = r THEN decided ELSE decided \cup {d}
        /\ UNCHANGED <<grants, pending, ended>> /\ d.request = r
    BY <1>7 DEF Decide, engineVars
  <2> HIDE DEF d
  <2>2. \A e \in decided : e.request \notin pending
    BY <2>1 DEF Closed, NoDecision
  <2>3. \A g \in grants' : \E e \in decided' : Behind(e, g)'
    BY <2>1 DEF Backed, Behind
  <2>4. ASSUME NEW e \in Decisions, Unsettled(e)' PROVE e \in decided' /\ <<e, TRUE>> \notin ended'
    <3>1. e = d /\ r \in pending
      BY <2>1, <2>4 DEF Unsettled
    <3>2. d \notin decided /\ d \in decided'
      BY <2>1, <2>2, <3>1
    <3>3. QED
      BY <2>1, <3>1, <3>2 DEF TypeOK
  <2>5. QED
    BY <2>3, <2>4 DEF Backed
<1>8. CASE Resolve
  <2>1. /\ pending' \subseteq pending /\ UNCHANGED <<grants, decided, ended>>
        /\ resolving \in Resolving
        /\ \/ resolving' = NoDecision
           \/ /\ resolving.decision.request \in pending
              /\ resolving' = [resolving EXCEPT !.stage = "taken"]
    BY <1>8 DEF Resolve, ghostVars, TypeOK, NoDecision
  <2>2. \A d \in Decisions : Unsettled(d)' => Unsettled(d)
    BY <2>1 DEF Unsettled, Resolving, NoDecision
  <2>3. \A g \in grants' : \E d \in decided' : Behind(d, g)'
    BY <2>1 DEF Backed, Behind
  <2>4. QED
    BY <2>1, <2>2, <2>3 DEF Backed
<1>9. CASE Settle
  <2> DEFINE d == resolving.decision
  <2>1. d \in Decisions /\ Unsettled(d) /\ d \in decided /\ <<d, TRUE>> \notin ended
    <3>1. resolving.stage = "taken" /\ resolving # NoDecision
      BY <1>9 DEF Settle, NoDecision
    <3>2. d \in Decisions
      BY <3>1 DEF TypeOK, Resolving
    <3>3. Unsettled(d)
      BY <3>1 DEF Unsettled
    <3>4. QED
      BY <3>2, <3>3 DEF Backed
  <2>2. /\ grants' = grants \cup GrantFor(d) /\ resolving' = NoDecision
        /\ UNCHANGED <<decided, ended>>
    BY <1>9 DEF Settle
  <2>3. \A g \in GrantFor(d) : Behind(d, g)
    BY <2>1 DEF GrantFor, Behind
  <2>4. \A g \in grants' : \E e \in decided' : Behind(e, g)'
    BY <2>1, <2>2, <2>3 DEF Backed, Behind
  <2>5. QED
    BY <2>2, <2>4 DEF Backed, Unsettled
<1>10. ASSUME NEW r \in Rules, AddRule(r) \/ RemoveRule(r) PROVE Backed'
  BY <1>2, <1>10 DEF AddRule, RemoveRule, ghostVars
<1>11. ASSUME NEW t \in Threads, StopThread(t) PROVE Backed'
  <2>1. /\ grants' = {g \in grants : g[2] # t} /\ UNCHANGED <<decided, resolving, pending>>
        /\ ended' = ended \cup {<<d, ~Unsettled(d)>> :
                        d \in {e \in decided : e.outcome = "task" /\ e.request.asker = t}}
    BY <1>11 DEF StopThread
  <2>2. ASSUME NEW d \in decided, <<d, TRUE>> \notin ended,
               Unsettled(d) \/ d.outcome # "task" \/ d.request.asker # t
        PROVE  <<d, TRUE>> \notin ended'
    BY <2>1, <2>2
  <2>3. ASSUME NEW g \in grants' PROVE \E d \in decided' : Behind(d, g)'
    <3>1. g \in grants /\ g[2] # t
      BY <2>1, <2>3
    <3>2. PICK d \in decided : Behind(d, g)
      BY <3>1 DEF Backed
    <3>3. <<d, TRUE>> \notin ended'
      BY <2>2, <3>1, <3>2 DEF Behind
    <3>4. QED
      BY <2>1, <3>2, <3>3 DEF Behind
  <2>4. ASSUME NEW d \in Decisions, Unsettled(d)' PROVE d \in decided' /\ <<d, TRUE>> \notin ended'
    <3>1. Unsettled(d)
      BY <2>1, <2>4 DEF Unsettled
    <3>2. d \in decided /\ <<d, TRUE>> \notin ended
      BY <3>1 DEF Backed
    <3>3. QED
      BY <2>1, <2>2, <3>1, <3>2
  <2>5. QED
    BY <2>3, <2>4 DEF Backed
<1>12. CASE UNCHANGED vars
  BY <1>2, <1>12 DEF vars, engineVars, ghostVars
<1>13. QED
  BY <1>3, <1>4, <1>5, <1>6, <1>7, <1>8, <1>9, <1>10, <1>11, <1>12 DEF Next

LEMMA InvInit == Init => Inv
<1> SUFFICES ASSUME Init PROVE Inv
  OBVIOUS
<1>1. TypeOK
  BY TypeInit
<1>2. Screened
  BY DEF Init, Screened, NoAsk
<1>3. Backed /\ Past /\ Closed
  BY DEF Init, Backed, Past, Closed, Unsettled, NoFetch
<1>4. QED
  BY <1>1, <1>2, <1>3 DEF Inv

LEMMA InvStep == Inv /\ [Next]_vars => Inv'
BY TypeStep, ScreenedStep, PastStep, ClosedStep, BackedStep DEF Inv

LEMMA InvHolds == Spec => []Inv
BY InvInit, InvStep, PTL DEF Spec

(* RulesEngine.evaluate: a deny or ask rule in force since an action was    *)
(* asked about is never got past, whatever is added, removed or approved    *)
(* while the evaluation runs.                                               *)
THEOREM RulesBind == Spec => []StandingRulesBind
<1>1. Inv => StandingRulesBind
  BY DEF Inv, Screened, StandingRulesBind, Allowed
<1>2. QED
  BY <1>1, InvHolds, PTL

-----------------------------------------------------------------------------
(* Grants.                                                                  *)

(* Only LookForGrant leads to the stage that a grant lets through.          *)
LEMMA GrantedOnlyByGrant ==
    ASSUME TypeOK, Next, NEW t \in Askers,
           ask[t].stage # "granted", ask'[t].stage = "granted"
    PROVE  Granted(t, ask[t].action)
<1>1. ASSUME NEW u \in Askers, NEW s \in Stages, ask[u].stage # "idle", Step(u, s)
      PROVE  u = t /\ s = "granted"
  BY <1>1, WaitingShape, StepShape
<1>2. ASSUME NEW u \in Askers, LookForGrant(u) PROVE Granted(t, ask[t].action)
  BY <1>1, <1>2 DEF LookForGrant, At, Stages
<1>3. ASSUME NEW u \in Askers, AllowedByRule(u) \/ Harmless(u) \/ Hold(u) PROVE FALSE
  BY <1>1, <1>3 DEF AllowedByRule, Harmless, Hold, NoRuleAllows, At, Stages
<1>4. ASSUME NEW u \in Askers, Screen(u) PROVE FALSE
  <2>1. ask[u].stage = "asked"
    BY <1>4 DEF Screen, At
  <2>2. ~Step(u, "denied")
    BY <1>1, <2>1 DEF Stages
  <2>3. ask' = [ask EXCEPT ![u].stage = "screened",
                           ![u].forced = (Matching("ask", ask[u].action) # {})]
    BY <1>4, <2>2 DEF Screen
  <2>4. ask'[u].stage = "screened" /\ \A v \in Askers \ {u} : ask'[v] = ask[v]
    BY <2>1, <2>3, ScreenShape
  <2>5. QED
    BY <2>4
<1>5. ASSUME NEW u \in Askers, NEW a \in Actions, NEW route \in Routes, Ask(u, a, route)
      PROVE  FALSE
  BY <1>5 DEF Ask, TypeOK
<1>6. ASSUME NEW u \in Askers, Answer(u) PROVE FALSE
  BY <1>6 DEF Answer, TypeOK, NoAsk
<1>7. ASSUME ask' = ask PROVE FALSE
  BY <1>7
<1>8. ~NewsArrives /\ ~Resolve /\ ~Settle
  BY <1>7 DEF NewsArrives, Resolve, Settle
<1>9. ASSUME NEW r \in sheet, NEW o \in Outcomes, Decide(r, o) PROVE FALSE
  BY <1>7, <1>9 DEF Decide, engineVars
<1>13. ASSUME NEW f \in Fetches, ReadPending(f) \/ Show(f) PROVE FALSE
  BY <1>7, <1>13 DEF ReadPending, Show
<1>10. ASSUME NEW r \in Rules, AddRule(r) \/ RemoveRule(r) PROVE FALSE
  BY <1>7, <1>10 DEF AddRule, RemoveRule
<1>11. ASSUME NEW u \in Threads, StopThread(u) PROVE FALSE
  BY <1>7, <1>11 DEF StopThread
<1>12. QED
  BY <1>2, <1>3, <1>4, <1>5, <1>6, <1>8, <1>9, <1>10, <1>11, <1>13 DEF Next

(* RulesEngine.find_grant and resolve: an action let through by a grant was *)
(* approved when its request was first shown, in that very text, for that   *)
(* thread or for the workspace, and the thread has not been stopped since.  *)
THEOREM GrantsAreApprovals == Spec => OnlyApprovedIsGranted
<1>1. Inv /\ [Next]_vars =>
        [\A t \in Askers : ask[t].stage # "granted" /\ ask'[t].stage = "granted" =>
            \E d \in decided : Lets(d, t, ask[t].action) /\ <<d, TRUE>> \notin ended]_vars
  <2> SUFFICES ASSUME Inv, Next, NEW t \in Askers,
                      ask[t].stage # "granted", ask'[t].stage = "granted"
               PROVE  \E d \in decided : Lets(d, t, ask[t].action) /\ <<d, TRUE>> \notin ended
    OBVIOUS
  <2>1. Granted(t, ask[t].action)
    BY GrantedOnlyByGrant DEF Inv
  <2>2. PICK scope \in {"workspace"} \cup ({t} \cap Threads) :
           <<Key[ask[t].action], scope>> \in grants
    BY <2>1 DEF Granted
  <2>3. PICK d \in decided : Behind(d, <<Key[ask[t].action], scope>>)
    BY <2>2 DEF Inv, Backed
  <2>4. t # "workspace"
    BY WorkspaceAssumption DEF Askers
  <2>5. Lets(d, t, ask[t].action) /\ <<d, TRUE>> \notin ended
    <3>1. d \in Decisions /\ d.request.asker \in Askers
      BY <2>3 DEF Inv, TypeOK, Decisions, Requests
    <3>2. d.request.asker # "workspace"
      BY <3>1, WorkspaceAssumption DEF Askers
    <3>3. QED
      BY <2>2, <2>3, <2>4, <3>2 DEF Behind, Lets
  <2>6. QED
    BY <2>5
<1>2. QED
  BY <1>1, InvHolds, PTL DEF Spec, OnlyApprovedIsGranted
=============================================================================
