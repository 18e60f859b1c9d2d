------------------------------- MODULE Approvals -------------------------------
(***************************************************************************)
(* Tervin Rules (rules-engine/policy.rs) as agents, the user and the UI    *)
(* use them: the rule list, the standing grants and the pending requests,  *)
(* each behind a lock of its own; TervinArbiter.decide, which an agent     *)
(* waits for before it acts; rules_evaluate, the user's own preflight;     *)
(* rules_resolve behind the approval sheet; and the sheet itself, which is *)
(* fetched anew on `permission.requested` events and after each decision.  *)
(* The answers to two fetches come in any order, so the sheet may show a   *)
(* request again that has been decided.                                    *)
(*                                                                         *)
(* RulesEngine.evaluate takes the locks one after another, so rules come   *)
(* and go, and grants are given, between its steps.                        *)
(***************************************************************************)
EXTENDS Naturals

CONSTANTS
    Threads,      \* agent threads
    User,         \* the asker of rules_evaluate: no thread
    Actions,      \* what may be asked about, spelling included
    Key,          \* [Actions -> text after normalise]
    Risky,        \* the actions whose classification requires confirmation
    Rules,        \* rule ids
    Effect,       \* [Rules -> {"deny", "ask", "allow"}]
    Covers,       \* [Rules -> SUBSET Actions]: Pattern.matches
    Asks,         \* who asks about what, and how the UI hears of it: see Routes
    MaxRequests   \* a bound on the requests ever queued

ASSUME UserAssumption == User \notin Threads
ASSUME RiskAssumption == Risky \subseteq Actions
ASSUME RuleAssumption == /\ Effect \in [Rules -> {"deny", "ask", "allow"}]
                         /\ Covers \in [Rules -> SUBSET Actions]
ASSUME WorkspaceAssumption == "workspace" \notin Threads \cup {User}
ASSUME BoundAssumption == MaxRequests \in Nat

Askers  == Threads \cup {User}
Keys    == {Key[a] : a \in Actions}
Grants  == Keys \X (Threads \cup {"workspace"})
Ids     == 1 .. MaxRequests

(* How the UI hears of an ask: ACP permission and terminal requests emit    *)
(* permission.requested before they decide, Claude's hook after it refused, *)
(* ACP file writes and the user's own preflight not at all.                 *)
Routes == {"before", "after", "never"}

ASSUME AskAssumption == /\ Asks \subseteq Askers \X Actions \X Routes
                        /\ \A q \in Asks : q[1] = User => q[3] = "never"

VARIABLES
    rules,      \* the rules in force
    grants,     \* standing approvals: <<normalised action, scope>>
    pending,    \* requests waiting for the user: id, asker and action
    queued,     \* number of requests ever queued
    ask,        \* what each asker is waiting for, and how far evaluate is
    resolving,  \* the decision clicked: sent, or its request taken by resolve
    sheet,      \* the requests the UI last fetched, the oldest of them shown
    fetching,   \* rules_pending calls under way, and what they have read
    news,       \* a permission.requested event has not reached the UI
    edited,     \* edited commands handed back to the UI to be evaluated
    decided,    \* the user's first decision about each request
    ended,      \* task decisions whose thread was stopped: settled by then?
    barring,    \* deny and ask rules in force ever since each ask began
    promised    \* actions the user approved and that have not run since

engineVars == <<rules, grants, pending, queued>>
uiVars     == <<sheet, fetching, news, edited>>
ghostVars  == <<decided, ended, barring, promised>>
vars       == <<engineVars, ask, resolving, uiVars, ghostVars>>

Requests == [id : Ids, asker : Askers, action : Actions]
NoAsk    == [stage |-> "idle"]
Waiting  == [stage : {"asked", "screened", "ungranted", "granted", "ruled",
                      "harmless", "denied", "held"},
             action : Actions, route : Routes, forced : BOOLEAN, retry : BOOLEAN]
Outcomes   == {"once", "task", "workspace", "deny", "edit", "rule"}
Decisions  == {d \in [outcome : Outcomes, request : Requests] :
                  d.outcome = "task" => d.request.asker \in Threads}
NoDecision == [stage |-> "none"]
Resolving  == [stage : {"sent", "taken"}, decision : Decisions]
Fetches    == {"event", "decision"}
NoFetch    == [stage |-> "none"]
Asked      == [stage |-> "asked"]
Fetched    == [stage : {"read"}, list : SUBSET Requests]

TypeOK ==
    /\ rules \subseteq Rules
    /\ grants \subseteq Grants
    /\ pending \subseteq Requests
    /\ queued \in 0 .. MaxRequests
    /\ \A q, r \in pending : q.id = r.id => q = r
    /\ \A r \in pending : r.id <= queued
    /\ ask \in [Askers -> Waiting \cup {NoAsk}]
    /\ resolving \in Resolving \cup {NoDecision}
    /\ sheet \subseteq Requests
    /\ fetching \in [Fetches -> Fetched \cup {NoFetch, Asked}]
    /\ news \in BOOLEAN
    /\ edited \subseteq Ids
    /\ decided \subseteq Decisions
    /\ ended \subseteq decided \X BOOLEAN
    /\ barring \in [Askers -> SUBSET Rules]
    /\ promised \subseteq Askers \X Actions

Init ==
    /\ rules \in SUBSET Rules
    /\ grants = {} /\ pending = {} /\ queued = 0
    /\ ask = [t \in Askers |-> NoAsk]
    /\ resolving = NoDecision
    /\ sheet = {} /\ news = FALSE /\ edited = {}
    /\ fetching = [f \in Fetches |-> NoFetch]
    /\ decided = {} /\ ended = {}
    /\ barring = [t \in Askers |-> {}]
    /\ promised = {}

-----------------------------------------------------------------------------
(* Helpers of evaluate.                                                     *)

Matching(effect, a) == {r \in rules : Effect[r] = effect /\ a \in Covers[r]}

(* find_grant: the exact action, in a scope that reaches the asker.         *)
Granted(t, a) ==
    \E scope \in {"workspace"} \cup ({t} \cap Threads) : <<Key[a], scope>> \in grants

At(t, stage) == ask[t].stage = stage
Step(t, stage) == ask' = [ask EXCEPT ![t].stage = stage]

-----------------------------------------------------------------------------
(* The asker's side.                                                        *)

Ask(t, a, route) ==
    /\ At(t, "idle")
    /\ <<t, a, route>> \in Asks
    /\ ask' = [ask EXCEPT ![t] = [stage |-> "asked", action |-> a, route |-> route,
                                  forced |-> FALSE, retry |-> <<t, a>> \in promised]]
    /\ news' = (news \/ route = "before")
    /\ barring' = [barring EXCEPT ![t] =
          {r \in rules : Effect[r] # "allow" /\ a \in Covers[r]}]
    /\ UNCHANGED <<engineVars, resolving, sheet, fetching, edited, decided, ended, promised>>

(* First look at the rules: a denial ends it, an ask rule is remembered.    *)
Screen(t) ==
    /\ At(t, "asked")
    /\ LET a == ask[t].action
       IN IF Matching("deny", a) # {}
          THEN Step(t, "denied")
          ELSE ask' = [ask EXCEPT ![t].stage = "screened",
                                  ![t].forced = (Matching("ask", a) # {})]
    /\ UNCHANGED <<engineVars, resolving, uiVars, ghostVars>>

(* Mutant: grants read before the rule that insists on asking is considered.*)
LookForGrantFirst(t) ==
    /\ At(t, "screened")
    /\ Step(t, IF Granted(t, ask[t].action) THEN "granted" ELSE "ungranted")
    /\ UNCHANGED <<engineVars, resolving, uiVars, ghostVars>>

(* The grants, unless a rule insists on asking.                             *)
LookForGrant(t) ==
    /\ At(t, "screened")
    /\ Step(t, IF ~ask[t].forced /\ Granted(t, ask[t].action) THEN "granted" ELSE "ungranted")
    /\ UNCHANGED <<engineVars, resolving, uiVars, ghostVars>>

(* Second look at the rules, the classification, and the request queued.    *)
AllowedByRule(t) ==
    /\ At(t, "ungranted")
    /\ ~ask[t].forced
    /\ Matching("allow", ask[t].action) # {}
    /\ Step(t, "ruled")
    /\ UNCHANGED <<engineVars, resolving, uiVars, ghostVars>>

NoRuleAllows(t) ==
    /\ At(t, "ungranted")
    /\ ask[t].forced \/ Matching("allow", ask[t].action) = {}

Harmless(t) ==
    /\ NoRuleAllows(t)
    /\ ~ask[t].forced /\ ask[t].action \notin Risky
    /\ Step(t, "harmless")
    /\ UNCHANGED <<engineVars, resolving, uiVars, ghostVars>>

Hold(t) ==
    /\ NoRuleAllows(t)
    /\ ask[t].forced \/ ask[t].action \in Risky
    /\ queued < MaxRequests
    /\ queued' = queued + 1
    /\ pending' = pending \cup {[id |-> queued + 1, asker |-> t, action |-> ask[t].action]}
    /\ Step(t, "held")
    /\ UNCHANGED <<rules, grants, resolving, uiVars, ghostVars>>

Allowed(t) == ask[t].stage \in {"granted", "ruled", "harmless"}
Refused(t) == ask[t].stage \in {"denied", "held"}

(* The answer reaches the asker.  A held request is refused: the agent may  *)
(* ask again.                                                               *)
Answer(t) ==
    /\ Allowed(t) \/ Refused(t)
    /\ ask' = [ask EXCEPT ![t] = NoAsk]
    /\ news' = (news \/ (Refused(t) /\ ask[t].route = "after"))
    /\ promised' = IF Allowed(t) THEN promised \ {<<t, ask[t].action>>} ELSE promised
    /\ barring' = [barring EXCEPT ![t] = {}]
    /\ UNCHANGED <<engineVars, resolving, sheet, fetching, edited, decided, ended>>

-----------------------------------------------------------------------------
(* The user's side.                                                         *)

(* refreshApprovals: asked for on an event and after a decision, it reads   *)
(* the pending requests and shows them.  At most one of each is under way.  *)
NewsArrives ==
    /\ news /\ fetching["event"] = NoFetch
    /\ news' = FALSE
    /\ fetching' = [fetching EXCEPT !["event"] = Asked]
    /\ UNCHANGED <<engineVars, ask, resolving, sheet, edited, ghostVars>>

ReadPending(f) ==
    /\ fetching[f] = Asked
    /\ fetching' = [fetching EXCEPT ![f] = [stage |-> "read", list |-> pending]]
    /\ UNCHANGED <<engineVars, ask, resolving, sheet, news, edited, ghostVars>>

Show(f) ==
    /\ fetching[f].stage = "read"
    /\ sheet' = fetching[f].list
    /\ fetching' = [fetching EXCEPT ![f] = NoFetch]
    /\ UNCHANGED <<engineVars, ask, resolving, news, edited, ghostVars>>

(* The sheet's first request and one of its buttons, which are disabled     *)
(* from the click until the decision's fetch is shown.  A task scope is     *)
(* offered inside a thread; "rule" has no button, only the command.         *)
Decide(r, outcome) ==
    /\ r \in sheet /\ \A q \in sheet : r.id <= q.id
    /\ resolving = NoDecision /\ fetching["decision"] = NoFetch
    /\ outcome = "task" => r.asker \in Threads
    /\ LET d == [outcome |-> outcome, request |-> r]
       IN /\ resolving' = [stage |-> "sent", decision |-> d]
          /\ decided' = IF \E e \in decided : e.request = r THEN decided ELSE decided \cup {d}
    /\ UNCHANGED <<engineVars, ask, uiVars, ended, barring, promised>>

(* Mutant: the outcome applied whether or not the request was still there.  *)
ResolveStale ==
    /\ resolving.stage = "sent"
    /\ pending' = pending \ {resolving.decision.request}
    /\ resolving' = [resolving EXCEPT !.stage = "taken"]
    /\ UNCHANGED <<rules, grants, queued, ask, uiVars, ghostVars>>

(* rules_resolve takes the request off the map; one that is gone already is *)
(* `Unknown` and changes nothing.                                           *)
Resolve ==
    /\ resolving.stage = "sent"
    /\ LET r == resolving.decision.request
       IN /\ pending' = pending \ {r}
          /\ IF r \in pending
             THEN resolving' = [resolving EXCEPT !.stage = "taken"] /\ UNCHANGED fetching
             ELSE /\ resolving' = NoDecision
                  /\ fetching' = [fetching EXCEPT !["decision"] = Asked]
    /\ UNCHANGED <<rules, grants, queued, ask, sheet, news, edited, ghostVars>>

GrantFor(decision) ==
    CASE decision.outcome = "task"      -> {<<Key[decision.request.action], decision.request.asker>>}
      [] decision.outcome = "workspace" -> {<<Key[decision.request.action], "workspace">>}
      [] OTHER                          -> {}

(* The rest of resolve: a grant, a rule, or an edited command handed back.  *)
(* The rule may be about actions that are not modelled.  Afterwards the     *)
(* sheet fetches what is pending.                                           *)
Settle ==
    /\ resolving.stage = "taken"
    /\ LET d == resolving.decision
           r == d.request
       IN /\ grants' = grants \cup GrantFor(d)
          /\ promised' = IF d.outcome \in {"once", "task", "workspace"}
                         THEN promised \cup {<<r.asker, r.action>>} ELSE promised
          /\ edited' = IF d.outcome = "edit" THEN edited \cup {r.id} ELSE edited
          /\ \/ UNCHANGED rules
             \/ d.outcome = "rule" /\ \E s \in Rules : rules' = rules \cup {s}
    /\ resolving' = NoDecision
    /\ fetching' = [fetching EXCEPT !["decision"] = Asked]
    /\ UNCHANGED <<pending, queued, ask, sheet, news, decided, ended, barring>>

(* rules_add and rules_remove.                                              *)
AddRule(r) ==
    /\ r \notin rules
    /\ rules' = rules \cup {r}
    /\ UNCHANGED <<grants, pending, queued, ask, resolving, uiVars, ghostVars>>

RemoveRule(r) ==
    /\ r \in rules
    /\ rules' = rules \ {r}
    /\ barring' = [t \in Askers |-> barring[t] \ {r}]
    /\ UNCHANGED <<grants, pending, queued, ask, resolving, uiVars, decided, ended, promised>>

(* A decision that has been made and has yet to take effect.                *)
Unsettled(d) ==
    /\ resolving # NoDecision /\ resolving.decision = d
    /\ resolving.stage = "taken" \/ d.request \in pending

(* thread_stop ends with clear_task_grants.                                 *)
StopThread(t) ==
    /\ grants' = {g \in grants : g[2] # t}
    /\ ended' = ended \cup {<<d, ~Unsettled(d)>> :
                  d \in {e \in decided : e.outcome = "task" /\ e.request.asker = t}}
    /\ UNCHANGED <<rules, pending, queued, ask, resolving, uiVars, decided, barring, promised>>

-----------------------------------------------------------------------------
Next ==
    \/ \E t \in Askers :
          \/ \E a \in Actions, route \in Routes : Ask(t, a, route)
          \/ Screen(t) \/ LookForGrant(t) \/ AllowedByRule(t)
          \/ Harmless(t) \/ Hold(t) \/ Answer(t)
    \/ NewsArrives
    \/ \E f \in Fetches : ReadPending(f) \/ Show(f)
    \/ \E r \in sheet : \E o \in Outcomes : Decide(r, o)
    \/ Resolve \/ Settle
    \/ \E r \in Rules : AddRule(r) \/ RemoveRule(r)
    \/ \E t \in Threads : StopThread(t)

Spec == Init /\ [][Next]_vars

(* A started evaluation finishes, events and answers reach the UI, and      *)
(* rules_resolve ends.  The user owes no decision.                          *)
FairSpec ==
    /\ Spec
    /\ \A t \in Askers : WF_vars(Screen(t) \/ LookForGrant(t) \/ AllowedByRule(t)
                                 \/ Harmless(t) \/ Hold(t) \/ Answer(t))
    /\ WF_vars(NewsArrives) /\ WF_vars(Resolve \/ Settle)
    /\ \A f \in Fetches : WF_vars(ReadPending(f) \/ Show(f))

-----------------------------------------------------------------------------
(* "Denials win outright", and a rule that always asks overrides grants and *)
(* classification: while such a rule has covered the action ever since it   *)
(* was asked about, no interleaving of evaluate's three looks with rule     *)
(* changes and approvals lets the action through.                           *)
StandingRulesBind ==
    \A t \in Askers : Allowed(t) => barring[t] = {}

(* A decision of the user's that lets asker t do action a from now on:      *)
(* "Grants are keyed on the exact action", for its thread or the workspace. *)
Lets(d, t, a) ==
    /\ Key[d.request.action] = Key[a]
    /\ d.outcome = "workspace" \/ (d.outcome = "task" /\ d.request.asker = t)

(* Every action that a grant lets through goes back to the decision the     *)
(* user made when its request was first shown, in that text and for this    *)
(* asker: not to a later click on a stale sheet, and not to a decision that *)
(* had taken effect before its thread was stopped.                          *)
OnlyApprovedIsGranted ==
    [][\A t \in Askers : ask[t].stage # "granted" /\ ask'[t].stage = "granted" =>
          \E d \in decided : Lets(d, t, ask[t].action) /\ <<d, TRUE>> \notin ended]_vars

(* clear_task_grants: "Drop grants tied to a finished Thread".  A decision  *)
(* on its way when the thread is stopped leaves a grant behind.             *)
StopEndsApprovals ==
    [][\A t \in Askers : ask[t].stage # "granted" /\ ask'[t].stage = "granted" =>
          \E d \in decided : /\ Lets(d, t, ask[t].action)
                             /\ \A s \in BOOLEAN : <<d, s>> \notin ended]_vars

(* TervinArbiter of every held request: "The request is already queued for  *)
(* the UI"; an ACP agent's does not appear on the sheet if the UI asked for *)
(* the pending requests before it was.                                      *)
HeldByAcpIsShown ==
    \A t \in Askers, i \in Ids :
        (ask[t].stage = "held" /\ ask[t].route = "before" /\ queued = i) ~>
            \/ \E r \in sheet : r.id = i
            \/ \A r \in pending : r.id # i

(* TervinArbiter: "the user can approve and let the agent retry".           *)
ApprovedRetryIsNotHeld ==
    \A t \in Askers : ask[t].stage = "held" => ~ask[t].retry

(* The sheet's button: "The edited command is re-checked against Tervin     *)
(* Rules before it runs".                                                   *)
EditedIsRechecked ==
    \A i \in Ids : i \in edited ~> i \notin edited
=============================================================================
