------------------------------ MODULE HookGate ------------------------------
(***************************************************************************)
(* Tervin Rules as a PreToolUse hook (agent-runtime/src/claude/hooks.rs):  *)
(* for every tool call the agent runs a hook process, which connects to    *)
(* the gate's socket and waits a bounded time; the gate serves each call   *)
(* in a task of its own.  A hook that gets no answer lets the call go on.  *)
(***************************************************************************)
EXTENDS Naturals, FiniteSets

CONSTANT Tools      \* the tool calls of the session

VARIABLES
    hook,       \* each call's hook process: "idle", "asking", "unreached" and
                \* "gaveUp" (exit 1), "denied" (exit 2) or "silent" (exit 0)
    serve,      \* the gate's task for it
    verdict,    \* what that task decided: "none", "unread", "deny", "defer"
    gate,       \* the listener: "up", "broken" once accept failed, "dropped"
    confirmed,  \* HookGate.confirmed
    shown,      \* refusals put in the Thread's timeline
    denials,    \* HookGate.denials
    ran         \* tools the agent went on to run

gateVars == <<hook, serve, verdict, gate, confirmed, shown, denials, ran>>

Hooks == {"idle", "asking", "unreached", "gaveUp", "denied", "silent"}
Serving == {"none", "accepted", "decided", "told", "done"}
Verdicts == {"none", "unread", "deny", "defer"}

GateInit == /\ hook = [c \in Tools |-> "idle"]
            /\ serve = [c \in Tools |-> "none"]
            /\ verdict = [c \in Tools |-> "none"]
            /\ gate = "up" /\ confirmed = FALSE
            /\ shown = {} /\ denials = {} /\ ran = {}

-----------------------------------------------------------------------------
(* The hook process: connect and send, or exit 1 when nobody is listening. *)
RunHook(c) ==
    /\ hook[c] = "idle"
    /\ hook' = [hook EXCEPT ![c] = IF gate = "up" THEN "asking" ELSE "unreached"]
    /\ UNCHANGED <<serve, verdict, gate, confirmed, shown, denials, ran>>

(* Its read timed out, or its connection ended without an answer. *)
GiveUp(c) ==
    /\ hook[c] = "asking"
    /\ hook' = [hook EXCEPT ![c] = "gaveUp"]
    /\ UNCHANGED <<serve, verdict, gate, confirmed, shown, denials, ran>>

(* The runtime goes on unless the hook blocked the call; its own checks may  *)
(* still stop it.                                                            *)
RunTool(c) ==
    /\ hook[c] \in {"unreached", "gaveUp", "silent"} /\ c \notin ran
    /\ ran' = ran \cup {c}
    /\ UNCHANGED <<hook, serve, verdict, gate, confirmed, shown, denials>>

-----------------------------------------------------------------------------
(* The gate. *)

Accept(c) == /\ gate = "up"
             /\ hook[c] \in {"asking", "gaveUp"} /\ serve[c] = "none"
             /\ serve' = [serve EXCEPT ![c] = "accepted"]
             /\ confirmed' = TRUE
             /\ UNCHANGED <<hook, verdict, gate, shown, denials, ran>>

(* serve_one, with nothing to read from a hook that has left: ...            *)
NothingRead(c) ==
    /\ serve[c] = "accepted" /\ hook[c] = "gaveUp"
    /\ serve' = [serve EXCEPT ![c] = "done"]
    /\ UNCHANGED <<hook, verdict, gate, confirmed, shown, denials, ran>>

(* ... with a call too long or unreadable, refused without asking the rules; *)
Unread(c) ==
    /\ serve[c] = "accepted"
    /\ verdict' = [verdict EXCEPT ![c] = "unread"]
    /\ serve' = [serve EXCEPT ![c] = "decided"]
    /\ UNCHANGED <<hook, gate, confirmed, shown, denials, ran>>

(* ... and with one the rules judge, a refusal going to the timeline.        *)
Judge(c) ==
    /\ serve[c] = "accepted"
    /\ \E v \in {"deny", "defer"} :
          /\ verdict' = [verdict EXCEPT ![c] = v]
          /\ shown' = IF v = "deny" THEN shown \cup {c} ELSE shown
    /\ serve' = [serve EXCEPT ![c] = "decided"]
    /\ UNCHANGED <<hook, gate, confirmed, denials, ran>>

Refused(c) == verdict[c] \in {"unread", "deny"}

(* Mutant: a refusal is answered with a code the runtime does not block on. *)
RespondSoftly(c) ==
    /\ serve[c] = "decided"
    /\ hook' = IF hook[c] = "asking" THEN [hook EXCEPT ![c] = "silent"] ELSE hook
    /\ serve' = [serve EXCEPT ![c] = "told"]
    /\ UNCHANGED <<verdict, gate, confirmed, shown, denials, ran>>

(* The answer reaches a hook that still waits; the client turns a refusal    *)
(* into exit 2 and anything else into silence.                               *)
Respond(c) ==
    /\ serve[c] = "decided"
    /\ hook' = IF hook[c] # "asking" THEN hook
               ELSE [hook EXCEPT ![c] = IF Refused(c) THEN "denied" ELSE "silent"]
    /\ serve' = [serve EXCEPT ![c] = "told"]
    /\ UNCHANGED <<verdict, gate, confirmed, shown, denials, ran>>

(* Whatever became of the answer, a refused call goes on the list. *)
List(c) ==
    /\ serve[c] = "told"
    /\ denials' = IF Refused(c) THEN denials \cup {c} ELSE denials
    /\ serve' = [serve EXCEPT ![c] = "done"]
    /\ UNCHANGED <<hook, verdict, gate, confirmed, shown, ran>>

(* accept failed: the loop ends, the socket file stays. *)
AcceptFails ==
    /\ gate = "up"
    /\ gate' = "broken"
    /\ UNCHANGED <<hook, serve, verdict, confirmed, shown, denials, ran>>

DropGate ==
    /\ gate # "dropped"
    /\ gate' = "dropped"
    /\ UNCHANGED <<hook, serve, verdict, confirmed, shown, denials, ran>>

ServeStep(c) == NothingRead(c) \/ Unread(c) \/ Judge(c) \/ Respond(c) \/ List(c)

-----------------------------------------------------------------------------
GateTypeOK == /\ hook \in [Tools -> Hooks]
              /\ serve \in [Tools -> Serving]
              /\ verdict \in [Tools -> Verdicts]
              /\ gate \in {"up", "broken", "dropped"} /\ confirmed \in BOOLEAN
              /\ shown \subseteq Tools /\ denials \subseteq Tools /\ ran \subseteq Tools

(* "a refusal stops the action before it runs": a call that was refused ran  *)
(* only if its hook had left without the answer, the fail-open case the      *)
(* module's documentation names; one answered in time never did, whatever    *)
(* else the gate was doing.                                                  *)
RefusedIsStopped == \A c \in ran : Refused(c) => hook[c] = "gaveUp"

(* "the action had not run when this was decided" (gate_events): no call the *)
(* timeline calls blocked has run.                                           *)
BlockedDidNotRun == shown \cap ran = {}

(* "what was stopped is inspectable afterwards", in the timeline too.        *)
StoppedIsShown == \A c \in Tools : hook[c] = "denied" => c \in shown
=============================================================================
