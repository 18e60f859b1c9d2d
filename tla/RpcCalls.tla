------------------------------ MODULE RpcCalls ------------------------------
(***************************************************************************)
(* What a runtime adapter promises whoever calls the agent through it: a   *)
(* call ends once, with the agent's own answer to that call or with an     *)
(* error, and once the link to the agent is down every call still open     *)
(* ends.  AcpSession and ClaudeSession are shown to implement it.          *)
(***************************************************************************)
CONSTANT Calls

VARIABLES
    call,      \* what the caller knows: "idle", "open", "answered", "failed"
    link,      \* "up" until the agent can answer no more, then "down"
    replied    \* the calls the agent has answered

vars == <<call, link, replied>>

Init == /\ call = [c \in Calls |-> "idle"]
        /\ link = "up"
        /\ replied = {}

(* Calls may be made at any time, on a dead link too, and refused at once. *)
Begin(c) == /\ call[c] = "idle"
            /\ \E s \in {"open", "failed"} : call' = [call EXCEPT ![c] = s]
            /\ UNCHANGED <<link, replied>>

Reply(c) == /\ link = "up"
            /\ call[c] # "idle"
            /\ c \notin replied
            /\ replied' = replied \cup {c}
            /\ UNCHANGED <<call, link>>

Answer(c) == /\ call[c] = "open"
             /\ c \in replied
             /\ call' = [call EXCEPT ![c] = "answered"]
             /\ UNCHANGED <<link, replied>>

Fail(c) == /\ call[c] = "open"
           /\ call' = [call EXCEPT ![c] = "failed"]
           /\ UNCHANGED <<link, replied>>

Drop == link = "up" /\ link' = "down" /\ UNCHANGED <<call, replied>>

Next == Drop \/ \E c \in Calls : Begin(c) \/ Reply(c) \/ Answer(c) \/ Fail(c)

(* On a link that is down no caller is left waiting. *)
Fairness == \A c \in Calls : WF_vars(link = "down" /\ (Answer(c) \/ Fail(c)))

(* What may happen, and with the fairness what must. *)
Safety == Init /\ [][Next]_vars

Spec == Safety /\ Fairness
=============================================================================
