----------------------------- MODULE AcpSession -----------------------------
(***************************************************************************)
(* One Agent Client Protocol session (agent-runtime/src/acp/mod.rs): the   *)
(* launch handshake, prompts and mode changes as requests whose waiters    *)
(* sit in a map, the task reading the agent's stdout, the task reaping its *)
(* process, and shutdown.  The Thread state the user is shown is the       *)
(* normalizer's, which all of them write.                                  *)
(***************************************************************************)
EXTENDS Naturals, Sequences, FiniteSets

CONSTANTS
    Prompts,    \* the session/prompt requests a user may make
    ModeSets,   \* the session/set_mode requests
    PipeBound,  \* lines the agent is ahead of the reader, at most
    CallBound   \* requests a user makes of one session, at most

Handshake == {"initialize", "session_new"}
Requests == Handshake \cup Prompts \cup ModeSets
Timed == Handshake \cup ModeSets       \* sent by request_with_timeout
NoOne == "nobody"

ASSUME DistinctRequests ==
    /\ Handshake \cap (Prompts \cup ModeSets) = {}
    /\ Prompts \cap ModeSets = {}
    /\ NoOne \notin Requests

ASSUME PipeBounded == PipeBound \in Nat

VARIABLES
    agent,       \* the child: "reading" its stdin, "deaf" to it, or "gone"
    out,         \* the far end of stdout, the agent's and its children's: "open"
                 \* or "closed"
    stdout,      \* lines written and not read yet
    stdin,       \* Conn.stdin: "open", or "closed" once the Option is None
    writer,      \* the request whose write_all holds the stdin mutex
    running,     \* Shared.running
    pending,     \* Shared.pending: requests with a waiter in the map
    heard,       \* what the agent has done with each: "no", "asked", "replied"
    answer,      \* what came through each waiter: "none", "ok" or "error"
    stage,       \* how far each request has come
    reader,      \* the reader task: "reading", "ended", "released"
    reaper,      \* the reaper task: "waiting", "grace", "done"
    stop,        \* the stop channel: "armed", "fired"
    closing,     \* shutdown: "no", "stopped", "closed"
    turnActive,  \* Shared.turn_active
    state        \* Normalizer.state

agentVars == <<agent, out, stdout, heard>>
connVars == <<stdin, writer, running, pending, answer, stage>>
taskVars == <<reader, reaper, stop, closing>>
shownVars == <<turnActive, state>>
vars == <<agentVars, connVars, taskVars, shownVars>>

Stages == {"idle", "spawned", "registered", "checked", "writing", "waiting",
           "answered", "refused", "ended", "timedOut", "returned", "settled"}
Terminal == {"Completed", "Failed", "Interrupted", "Disconnected"}
ThreadStates == Terminal \cup {"Starting", "Understanding", "Executing"}
Lines == {<<"tool", NoOne>>} \cup ({"ok", "error"} \X Requests)

Init == /\ agent = "reading" /\ out = "open" /\ stdout = <<>>
        /\ heard = [r \in Requests |-> "no"]
        /\ stdin = "open" /\ writer = NoOne /\ running = TRUE
        /\ pending = {}
        /\ answer = [r \in Requests |-> "none"]
        /\ stage = [r \in Requests |-> "idle"]
        /\ reader = "reading" /\ reaper = "waiting"
        /\ stop = "armed" /\ closing = "no"
        /\ turnActive = FALSE /\ state = "Starting"

At(r, s) == stage[r] = s
Move(r, s) == stage' = [stage EXCEPT ![r] = s]
Asking(p) == stage[p] \notin {"idle", "returned", "settled"}
Open == At("session_new", "settled") /\ answer["session_new"] = "ok"
UserMay(r) == /\ At(r, "idle") /\ Open
              /\ Cardinality({q \in Prompts \cup ModeSets : ~At(q, "idle")}) < CallBound
-----------------------------------------------------------------------------
(* A request, from Conn.request and Conn.write. *)

Register(r) == /\ pending' = pending \cup {r}
               /\ Move(r, "registered")
               /\ UNCHANGED <<agentVars, stdin, writer, running, answer, taskVars>>

Launch == At("initialize", "idle") /\ Register("initialize") /\ UNCHANGED shownVars

PromptTask(p) == At(p, "spawned") /\ Register(p) /\ UNCHANGED shownVars

(* The waiter is taken back and the caller told the session has ended. *)
GiveUp(r) == /\ pending' = pending \ {r}
             /\ Move(r, "ended")

(* The re-check after the insert. *)
Check(r) == /\ At(r, "registered")
            /\ IF running THEN Move(r, "checked") /\ UNCHANGED pending
                          ELSE GiveUp(r)
            /\ UNCHANGED <<agentVars, stdin, writer, running, answer, taskVars, shownVars>>

(* write looks at running again, at once when it was still true or as late   *)
(* as now, and then waits for the stdin mutex.                               *)
BeginWrite(r) == /\ At(r, "checked")
                 /\ \/ /\ writer = NoOne /\ stdin = "open"
                       /\ Move(r, "writing") /\ writer' = r /\ UNCHANGED pending
                    \/ /\ ~running \/ (writer = NoOne /\ stdin = "closed")
                       /\ GiveUp(r) /\ UNCHANGED writer
                 /\ UNCHANGED <<agentVars, stdin, running, answer, taskVars, shownVars>>

(* write_all returns when the agent takes the line, or when nobody can. *)
EndWrite(r) ==
    /\ writer = r
    /\ \/ /\ agent = "reading"
          /\ Move(r, "waiting")
          /\ heard' = [heard EXCEPT ![r] = "asked"]
          /\ UNCHANGED pending
       \/ /\ agent = "gone"
          /\ Move(r, "refused")
          /\ pending' = pending \ {r}
          /\ UNCHANGED heard
    /\ writer' = NoOne
    /\ UNCHANGED <<agent, out, stdout, stdin, running, answer, taskVars, shownVars>>

(* rx.await: an answer, or the sender dropped with the map entry. *)
Awake(r) ==
    /\ At(r, "waiting")
    /\ \/ answer[r] # "none" /\ Move(r, "answered")
       \/ answer[r] = "none" /\ r \notin pending /\ Move(r, "ended")
    /\ UNCHANGED <<agentVars, stdin, writer, running, pending, answer, taskVars, shownVars>>

(* The timeout drops the request's future where it is suspended: its lock is *)
(* released, its waiter stays in the map.                                    *)
Timeout(r) ==
    /\ r \in Timed /\ stage[r] \in {"checked", "writing", "waiting"}
    /\ answer[r] = "none"
    /\ Move(r, "timedOut")
    /\ writer' = IF writer = r THEN NoOne ELSE writer
    /\ UNCHANGED <<agentVars, stdin, running, pending, answer, taskVars, shownVars>>

-----------------------------------------------------------------------------
(* The callers. *)

(* start: initialize, then session/new, then Normalizer::started. *)
Handshaken ==
    \/ /\ At("initialize", "answered") /\ answer["initialize"] = "ok"
       /\ pending' = pending \cup {"session_new"}
       /\ stage' = [stage EXCEPT !["initialize"] = "settled", !["session_new"] = "registered"]
       /\ UNCHANGED <<agentVars, stdin, writer, running, answer, taskVars, shownVars>>
    \/ /\ At("session_new", "answered") /\ answer["session_new"] = "ok"
       /\ Move("session_new", "settled")
       /\ state' = "Understanding"
       /\ UNCHANGED <<agentVars, stdin, writer, running, pending, answer, taskVars,
                      turnActive>>

(* Or the launch returns early, which drops the stop sender. *)
LaunchFails(h) ==
    /\ \/ stage[h] \in {"refused", "ended", "timedOut"}
       \/ At(h, "answered") /\ answer[h] = "error"
    /\ Move(h, "settled")
    /\ stop' = "fired"
    /\ UNCHANGED <<agentVars, stdin, writer, running, pending, answer,
                   reader, reaper, closing, shownVars>>

(* Mutant: turn_active is stored without being compared. *)
SendInputQueues(p) ==
    /\ UserMay(p)
    /\ turnActive' = TRUE
    /\ state' = "Understanding"
    /\ Move(p, "spawned")
    /\ UNCHANGED <<agentVars, stdin, writer, running, pending, answer, taskVars>>

(* send_input: one turn at a time, by compare_exchange; the prompt is shown  *)
(* at once and its request runs in a task of its own.                        *)
SendInput(p) ==
    /\ UserMay(p)
    /\ turnActive = FALSE
    /\ turnActive' = TRUE
    /\ state' = "Understanding"
    /\ Move(p, "spawned")
    /\ UNCHANGED <<agentVars, stdin, writer, running, pending, answer, taskVars>>

(* The prompt's task clears turn_active, and then reports how the turn ended *)
(* unless the session did.                                                   *)
TurnReturns(p) ==
    /\ stage[p] \in {"answered", "refused", "ended"}
    /\ turnActive' = FALSE
    /\ Move(p, IF At(p, "ended") THEN "settled" ELSE "returned")
    /\ UNCHANGED <<agentVars, stdin, writer, running, pending, answer, taskVars, state>>

TurnEnded(p) ==
    /\ At(p, "returned")
    /\ \E s \in {"Completed", "Interrupted", "Failed"} :
          /\ answer[p] # "ok" => s = "Failed"
          /\ state' = s
    /\ Move(p, "settled")
    /\ UNCHANGED <<agentVars, stdin, writer, running, pending, answer, taskVars, turnActive>>

SetMode(m) == UserMay(m) /\ Register(m) /\ UNCHANGED shownVars

(* shutdown: running first; the pipe once nobody is writing to it; only then *)
(* the stop signal.                                                          *)
ShutdownBegins ==
    /\ closing = "no" /\ Open
    /\ closing' = "stopped"
    /\ running' = FALSE
    /\ UNCHANGED <<agentVars, stdin, writer, pending, answer, stage, reader, reaper, stop, shownVars>>

ShutdownCloses ==
    /\ closing = "stopped" /\ writer = NoOne
    /\ closing' = "closed"
    /\ stdin' = "closed"
    /\ stop' = "fired"
    /\ UNCHANGED <<agentVars, writer, running, pending, answer, stage, reader, reaper, shownVars>>

-----------------------------------------------------------------------------
(* The reader task. *)

(* Mutant: an answer goes to whoever is waiting, whatever its id. *)
ReadInOrder ==
    /\ reader = "reading" /\ stdout # <<>>
    /\ stdout' = Tail(stdout)
    /\ \/ /\ Head(stdout)[1] = "tool"
          /\ state' = "Executing"
          /\ UNCHANGED <<pending, answer>>
       \/ /\ Head(stdout)[1] # "tool"
          /\ \E r \in pending : /\ pending' = pending \ {r}
                               /\ answer' = [answer EXCEPT ![r] = Head(stdout)[1]]
          /\ UNCHANGED state
    /\ UNCHANGED <<agent, out, heard, stdin, writer, running, stage, taskVars, turnActive>>

Read ==
    /\ reader = "reading" /\ stdout # <<>>
    /\ stdout' = Tail(stdout)
    /\ LET kind == Head(stdout)[1]
           r == Head(stdout)[2]
       IN \/ /\ kind = "tool"
             /\ state' = "Executing"
             /\ UNCHANGED <<pending, answer>>
          \/ /\ kind # "tool"
             /\ pending' = pending \ {r}
             /\ answer' = IF r \in pending /\ At(r, "waiting")
                          THEN [answer EXCEPT ![r] = kind] ELSE answer
             /\ UNCHANGED state
    /\ UNCHANGED <<agent, out, heard, stdin, writer, running, stage, taskVars, turnActive>>

(* Mutant: running is left to the reaper. *)
ReaderEndsQuietly == /\ reader = "reading" /\ stdout = <<>> /\ out = "closed"
                     /\ reader' = "ended"
                     /\ UNCHANGED <<agentVars, connVars, reaper, stop, closing, shownVars>>

ReaderEnds == /\ reader = "reading" /\ stdout = <<>> /\ out = "closed"
              /\ reader' = "ended"
              /\ running' = FALSE
              /\ UNCHANGED <<agentVars, stdin, writer, pending, answer, stage,
                             reaper, stop, closing, shownVars>>

ReaderReleases == /\ reader = "ended"
                  /\ reader' = "released"
                  /\ pending' = {}
                  /\ UNCHANGED <<agentVars, stdin, writer, running, answer, stage,
                                 reaper, stop, closing, shownVars>>

(* The reaper task: the child's end, or a stop and a grace before the kill. *)
ReapStop == /\ reaper = "waiting" /\ stop = "fired"
            /\ reaper' = "grace"
            /\ UNCHANGED <<agentVars, connVars, reader, stop, closing, shownVars>>

(* Mutant: only an agent that reads its stdin is seen off. *)
ReapKillsReaders == /\ reaper = "grace" /\ agent = "reading"
                    /\ agent' = "gone" /\ out' \in {out, "closed"}
                    /\ UNCHANGED <<stdout, heard, connVars, taskVars, shownVars>>

ReapKills == /\ reaper = "grace" /\ agent # "gone"
             /\ agent' = "gone" /\ out' \in {out, "closed"}
             /\ UNCHANGED <<stdout, heard, connVars, taskVars, shownVars>>

Reaped == /\ reaper \in {"waiting", "grace"} /\ agent = "gone"
          /\ reaper' = "done"
          /\ running' = FALSE
          /\ state' = IF state \in Terminal THEN state ELSE "Disconnected"
          /\ UNCHANGED <<agentVars, stdin, writer, pending, answer, stage,
                         reader, stop, closing, turnActive>>

-----------------------------------------------------------------------------
(* The agent: an external program. *)

Writes(line) == /\ agent # "gone" /\ out = "open" /\ Len(stdout) < PipeBound
                /\ stdout' = Append(stdout, line)
                /\ UNCHANGED <<agent, out, connVars, taskVars, shownVars>>

AgentWorks == /\ heard["session_new"] # "no"
              /\ Writes(<<"tool", NoOne>>)
              /\ UNCHANGED heard

AgentReplies(r) == /\ heard[r] = "asked"
                   /\ \E kind \in {"ok", "error"} : Writes(<<kind, r>>)
                   /\ heard' = [heard EXCEPT ![r] = "replied"]

AgentDeafens == /\ agent = "reading"
                /\ agent' = "deaf"
                /\ UNCHANGED <<out, stdout, heard, connVars, taskVars, shownVars>>

(* The last process with the pipe closes it: the agent, or one it started   *)
(* that outlives it.                                                         *)
AgentHangsUp == /\ out = "open"
                /\ out' = "closed"
                /\ UNCHANGED <<agent, stdout, heard, connVars, taskVars, shownVars>>

AgentExits == /\ agent # "gone"
              /\ agent' = "gone"
              /\ out' \in {out, "closed"}
              /\ UNCHANGED <<stdout, heard, connVars, taskVars, shownVars>>

-----------------------------------------------------------------------------
RequestStep(r) == Check(r) \/ BeginWrite(r) \/ EndWrite(r) \/ Awake(r)
TaskStep == Handshaken \/ ShutdownCloses \/ Read \/ ReaderEnds \/ ReaderReleases
              \/ ReapStop \/ ReapKills \/ Reaped
AgentStep == AgentWorks \/ AgentDeafens \/ AgentHangsUp \/ AgentExits
               \/ \E r \in Requests : AgentReplies(r)

Next == \/ Launch
        \/ \E r \in Requests : RequestStep(r) \/ Timeout(r)
        \/ \E h \in Handshake : LaunchFails(h)
        \/ \E p \in Prompts : SendInput(p) \/ PromptTask(p) \/ TurnReturns(p) \/ TurnEnded(p)
        \/ \E m \in ModeSets : SetMode(m)
        \/ ShutdownBegins \/ TaskStep \/ AgentStep

(* One that found running true waits for the mutex, whatever came since. *)
Proceeds(r) == RequestStep(r) /\ (writer = NoOne \/ ~At(r, "checked"))

(* Tokio runs every task that can move, timers fire; the agent owes nothing *)
(* and users nothing.                                                       *)
Fairness ==
    /\ \A r \in Requests : WF_vars(Proceeds(r)) /\ WF_vars(Timeout(r))
    /\ \A h \in Handshake : WF_vars(LaunchFails(h))
    /\ \A p \in Prompts : WF_vars(PromptTask(p) \/ TurnReturns(p)) /\ WF_vars(TurnEnded(p))
    /\ WF_vars(ShutdownCloses)
    /\ WF_vars(Read \/ ReaderEnds \/ ReaderReleases)
    /\ WF_vars(ReapStop \/ ReapKills \/ Reaped)
    /\ WF_vars(Handshaken)

Spec == Init /\ [][Next]_vars /\ Fairness

-----------------------------------------------------------------------------
(* The stdin mutex: exactly the request inside write_all holds it. *)
WriterLocked == \A r \in Requests : At(r, "writing") <=> writer = r

Flags == running \in BOOLEAN /\ turnActive \in BOOLEAN

Shapes ==
    /\ agent \in {"reading", "deaf", "gone"} /\ out \in {"open", "closed"}
    /\ stdout \in Seq(Lines) /\ Len(stdout) <= PipeBound
    /\ heard \in [Requests -> {"no", "asked", "replied"}]
    /\ stdin \in {"open", "closed"} /\ writer \in Requests \cup {NoOne}
    /\ pending \in SUBSET Requests
    /\ answer \in [Requests -> {"none", "ok", "error"}]
    /\ stage \in [Requests -> Stages]
    /\ reader \in {"reading", "ended", "released"}
    /\ reaper \in {"waiting", "grace", "done"}
    /\ stop \in {"armed", "fired"} /\ closing \in {"no", "stopped", "closed"}
    /\ state \in ThreadStates

(* Every variable in its type, the mutex consistent with the requests. *)
TypeOK == Flags /\ Shapes /\ WriterLocked

(* Once the reader has drained the map nobody is left awaiting an entry of   *)
(* it: a request registered around the end of the stream, or sent to an      *)
(* agent that closed its output and lives on, gets an error and does not     *)
(* hang (the re-check in Conn.request, "a map nobody drains").               *)
NoLostWaiter ==
    reader = "released" => \A r \in Requests : At(r, "waiting") => r \notin pending

(* One turn at a time: two prompts are never with the agent together,        *)
(* whichever way the first one's task ended ("Queuing silently would         *)
(* reorder the conversation").                                               *)
OneTurn == \A p, q \in Prompts : Asking(p) /\ Asking(q) => p = q

(* A stop signal, from shutdown or from a launch that failed half way, ends  *)
(* in the agent's death even if the agent does not read or will not leave    *)
(* ("an orphaned agent holding a model connection").                         *)
StopKills == (stop = "fired") ~> (agent = "gone")

(* "a crash becomes a Disconnected Thread rather than one that appears to    *)
(* still be working": once the process is reaped, its output read and its    *)
(* prompts' tasks done, the state shown is a terminal one.                   *)
DeadIsShownDead ==
    (reader = "released" /\ reaper = "done" /\ \A p \in Prompts : stage[p] \in {"idle", "settled"})
        => state \in Terminal

(* shutdown escalates: "one that does not [exit] gets killed".               *)
ShutdownKills == (closing = "stopped") ~> (agent = "gone")

(* The session as RpcCalls describes it. *)
CallOf(r) == CASE stage[r] \in {"idle", "spawned"} -> "idle"
               [] stage[r] \in {"registered", "checked", "writing", "waiting"} -> "open"
               [] stage[r] \in {"refused", "ended", "timedOut"} -> "failed"
               [] OTHER -> IF answer[r] = "none" THEN "failed" ELSE "answered"

Down == agent = "gone" /\ out = "closed"

Rpc == INSTANCE RpcCalls WITH
          Calls <- Requests,
          call <- [r \in Requests |-> CallOf(r)],
          link <- IF Down THEN "down" ELSE "up",
          replied <- {r \in Requests : heard[r] = "replied"}

(* Every request ends once, with the agent's answer to that request or with  *)
(* an error, and none outlives the agent and its end of the pipe.            *)
Implements == Rpc!Spec
=============================================================================
