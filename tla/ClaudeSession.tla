--------------------------- MODULE ClaudeSession ---------------------------
(***************************************************************************)
(* One Claude Code session (agent-runtime/src/claude/mod.rs) with its      *)
(* PreToolUse gate: control requests correlated by id, each with a timeout *)
(* on its answer only; the one reader task, which answers the agent's own  *)
(* permission questions inline and through the same stdin mutex; the task  *)
(* reaping the process; and shutdown.  The gate is owned by the state all  *)
(* of them share.  The Thread state a normalizer shows is in AcpSession.   *)
(***************************************************************************)
EXTENDS HookGate, Sequences

CONSTANTS
    FirstPrompt,  \* the prompt the session is launched with, if any
    Prompts,      \* prompts sent later
    ModeSets,     \* set_permission_mode requests
    Interrupts,   \* interrupt requests
    PipeBound,    \* lines the agent is ahead of the reader, at most
    Workload      \* prompts, requests, questions, tool calls and faults after launch

Control == {"initialize"} \cup ModeSets \cup Interrupts
Messages == Control \cup Prompts \cup {FirstPrompt}
NoOne == "nobody"
Reader == "reader"

ASSUME DistinctMessages ==
    /\ Control \cap (Prompts \cup {FirstPrompt}) = {}
    /\ ModeSets \cap (Interrupts \cup {"initialize"}) = {}
    /\ {NoOne, Reader} \cap Messages = {}

(* A session's messages, tool calls and pipes are finite.                    *)
ASSUME FiniteSession == /\ IsFiniteSet(Messages) /\ IsFiniteSet(Tools)
                        /\ PipeBound \in Nat /\ Workload \in Nat

VARIABLES
    agent,     \* the child: "reading" its stdin, "deaf" to it, or "gone"
    out,       \* the far end of stdout, the agent's and its children's
    stdout,    \* lines written and not read yet
    heard,     \* what the agent has done with each message
    asked,     \* permission questions it has asked, and had answered
    told,
    writer,    \* who holds the stdin mutex
    running,   \* Shared.running
    waiters,   \* Shared.control_waiters
    answer,    \* what came through each waiter
    stage,     \* how far each message has come
    mode,      \* Shared.permission_mode: the launch's, or a ModeSets
    reader,    \* the reader task
    reaper,    \* the reaper task
    handle     \* the host's handle on the session

agentVars == <<agent, out, stdout, heard, asked, told>>
connVars == <<writer, running, waiters, answer, stage, mode>>
taskVars == <<reader, reaper, handle>>
sessionVars == <<agentVars, connVars, taskVars>>
vars == <<sessionVars, gateVars>>

Over == {"sent", "answered", "refused", "ended", "timedOut"}
Stages == {"idle", "checked", "writing", "waiting"} \cup Over
Lines == {<<"ask", NoOne>>} \cup ({"answer", "cancel"} \X Control)

Init == /\ agent = "reading" /\ out = "open" /\ stdout = <<>>
        /\ heard = [m \in Messages |-> "no"]
        /\ asked = 0 /\ told = 0
        /\ writer = NoOne /\ running = TRUE
        /\ waiters = {}
        /\ answer = [r \in Control |-> "none"]
        /\ stage = [m \in Messages |-> "idle"]
        /\ mode = "launched"
        /\ reader = "reading" /\ reaper = "waiting" /\ handle = "launching"
        /\ GateInit

At(m, s) == stage[m] = s
Move(m, s) == stage' = [stage EXCEPT ![m] = s]
Working == \E p \in Prompts \cup {FirstPrompt} : heard[p] # "no"
Load == Cardinality({m \in Messages \ {"initialize", FirstPrompt} : ~At(m, "idle")}) + asked
          + Cardinality({c \in Tools : hook[c] # "idle"}) + IF gate = "broken" THEN 1 ELSE 0
Idle == \A m \in Messages : stage[m] \in {"idle"} \cup Over
-----------------------------------------------------------------------------
(* A message to the agent: a control request puts its waiter in the map, a   *)
(* prompt has none; then write_line looks at running, once, before the mutex.*)
Say(m) == /\ waiters' = IF m \in Control THEN waiters \cup {m} ELSE waiters
          /\ Move(m, IF running THEN "checked" ELSE "refused")
          /\ UNCHANGED <<agentVars, writer, running, answer, mode, taskVars>>

Launch == handle = "launching" /\ At("initialize", "idle") /\ Say("initialize")

(* start ignores how initialize went; the first prompt must be sent. *)
Initialized == handle = "launching" /\ stage["initialize"] \in Over

LaunchPrompt == /\ Initialized /\ At(FirstPrompt, "idle")
                /\ Say(FirstPrompt)

Launched == /\ Initialized
            /\ \/ stage[FirstPrompt] \in {"idle", "sent"} /\ handle' = "held"
               \/ At(FirstPrompt, "refused") /\ handle' = "dropped"
            /\ UNCHANGED <<agentVars, connVars, reader, reaper>>

UserSays(m) == /\ m \in Prompts \cup ModeSets \cup Interrupts
               /\ handle = "held" /\ At(m, "idle") /\ Load < Workload
               /\ Say(m)

Lock(m) == /\ At(m, "checked") /\ writer = NoOne
           /\ Move(m, "writing") /\ writer' = m
           /\ UNCHANGED <<agentVars, running, waiters, answer, mode, taskVars>>

(* The write ends when the agent takes the line or can no longer.  A request *)
(* that was refused leaves its waiter behind.                                *)
Written(m) ==
    /\ writer = m
    /\ \/ /\ agent = "reading"
          /\ heard' = [heard EXCEPT ![m] = "asked"]
          /\ Move(m, IF m \in Control THEN "waiting" ELSE "sent")
       \/ /\ agent = "gone"
          /\ Move(m, "refused")
          /\ UNCHANGED heard
    /\ writer' = NoOne
    /\ UNCHANGED <<agent, out, stdout, asked, told, running, waiters, answer, mode, taskVars>>

(* The call returns with the answer, or because its sender was dropped.  Any *)
(* answer sets the mode, an error answer included.                           *)
Wake(r) ==
    /\ At(r, "waiting")
    /\ \/ /\ answer[r] # "none"
          /\ Move(r, "answered")
          /\ mode' = IF r \in ModeSets THEN r ELSE mode
       \/ /\ answer[r] = "none" /\ r \notin waiters
          /\ Move(r, "ended")
          /\ UNCHANGED mode
    /\ UNCHANGED <<agentVars, writer, running, waiters, answer, taskVars>>

(* Only the wait is timed, and it takes its waiter back. *)
Timeout(r) ==
    /\ At(r, "waiting") /\ answer[r] = "none"
    /\ Move(r, "timedOut")
    /\ waiters' = waiters \ {r}
    /\ UNCHANGED <<agentVars, writer, running, answer, mode, taskVars>>

(* shutdown: running, then the mutex around AsyncWrite::shutdown, which does *)
(* not close a pipe; then the host lets its handle go.                       *)
ShutdownBegins ==
    /\ handle = "held"
    /\ handle' = "stopping"
    /\ running' = FALSE
    /\ UNCHANGED <<agentVars, writer, waiters, answer, stage, mode, reader, reaper>>

ShutdownEnds ==
    /\ handle = "stopping" /\ writer = NoOne
    /\ handle' = "dropped"
    /\ UNCHANGED <<agentVars, connVars, reader, reaper>>

-----------------------------------------------------------------------------
(* The reader task. *)

(* Mutant: an answer goes to whichever request is waiting. *)
ReadAnyWaiter ==
    /\ reader = "reading" /\ stdout # <<>>
    /\ stdout' = Tail(stdout)
    /\ IF Head(stdout)[1] = "ask"
       THEN reader' = "deciding" /\ UNCHANGED <<waiters, answer>>
       ELSE /\ UNCHANGED reader
            /\ \E r \in waiters : /\ waiters' = waiters \ {r}
                                  /\ answer' = [answer EXCEPT ![r] = "answer"]
    /\ UNCHANGED <<agent, out, heard, asked, told, writer, running, stage, mode,
                   reaper, handle>>

Read ==
    /\ reader = "reading" /\ stdout # <<>>
    /\ stdout' = Tail(stdout)
    /\ LET kind == Head(stdout)[1]
           r == Head(stdout)[2]
       IN \/ kind = "ask" /\ reader' = "deciding" /\ UNCHANGED <<waiters, answer>>
          \/ /\ kind # "ask"
             /\ waiters' = waiters \ {r}
             /\ answer' = IF kind = "answer" /\ r \in waiters /\ At(r, "waiting")
                          THEN [answer EXCEPT ![r] = "answer"] ELSE answer
             /\ UNCHANGED reader
    /\ UNCHANGED <<agent, out, heard, asked, told, writer, running, stage, mode,
                   reaper, handle>>

(* Mutant: a session told to stop answers no more questions. *)
AnswerWhileRunning ==
    /\ \/ /\ reader = "deciding" /\ writer = NoOne
          /\ IF running THEN reader' = "answering" /\ writer' = Reader
                        ELSE reader' = "reading" /\ UNCHANGED writer
          /\ UNCHANGED told
       \/ /\ reader = "answering"
          /\ agent = "reading" /\ told' = told + 1
          /\ reader' = "reading" /\ writer' = NoOne
    /\ UNCHANGED <<agent, out, stdout, heard, asked, running, waiters, answer, stage, mode,
                   reaper, handle>>

(* handle_inbound_control: the arbiter is awaited, then the mutex, then the  *)
(* agent taking the line; nothing is read in the meantime.                   *)
AnswerQuestion ==
    /\ \/ /\ reader = "deciding" /\ writer = NoOne
          /\ reader' = "answering" /\ writer' = Reader
          /\ UNCHANGED told
       \/ /\ reader = "answering"
          /\ \/ agent = "reading" /\ told' = told + 1
             \/ agent = "gone" /\ UNCHANGED told
          /\ reader' = "reading" /\ writer' = NoOne
    /\ UNCHANGED <<agent, out, stdout, heard, asked, running, waiters, answer, stage, mode,
                   reaper, handle>>

ReaderEnds == /\ reader = "reading" /\ stdout = <<>> /\ out = "closed"
              /\ reader' = "ended"
              /\ running' = FALSE
              /\ UNCHANGED <<agentVars, writer, waiters, answer, stage, mode, reaper, handle>>

Reaped == /\ reaper = "waiting" /\ agent = "gone"
          /\ reaper' = "done"
          /\ running' = FALSE
          /\ UNCHANGED <<agentVars, writer, waiters, answer, stage, mode, reader, handle>>

-----------------------------------------------------------------------------
(* The agent, an external program, and the state everything shares. *)

Writes(line) == /\ agent # "gone" /\ out = "open" /\ Len(stdout) < PipeBound
                /\ stdout' = Append(stdout, line)
                /\ UNCHANGED <<agent, out, connVars, taskVars>>

AgentReplies(r) == /\ heard[r] = "asked"
                   /\ \E kind \in {"answer", "cancel"} : Writes(<<kind, r>>)
                   /\ heard' = [heard EXCEPT ![r] = "replied"]
                   /\ UNCHANGED <<asked, told>>

AgentAsks == /\ Working /\ asked = told /\ Load < Workload
             /\ Writes(<<"ask", NoOne>>)
             /\ asked' = asked + 1
             /\ UNCHANGED <<heard, told>>

AgentDeafens == /\ agent = "reading"
                /\ agent' = "deaf"
                /\ UNCHANGED <<out, stdout, heard, asked, told, connVars, taskVars>>

(* The last process with the pipe closes it: the agent, or one it started   *)
(* that outlives it.                                                         *)
AgentHangsUp == /\ out = "open"
                /\ out' = "closed"
                /\ UNCHANGED <<agent, stdout, heard, asked, told, connVars, taskVars>>

AgentExits == /\ agent # "gone"
              /\ agent' = "gone"
              /\ out' \in {out, "closed"}
              /\ UNCHANGED <<stdout, heard, asked, told, connVars, taskVars>>

(* Mutant: the gate belongs to the host's handle alone. *)
GateWithHandle == handle = "dropped" /\ DropGate /\ UNCHANGED sessionVars

(* The last Arc of Shared goes: the host's, the calls', the tasks'. *)
SharedDropped == /\ handle = "dropped" /\ Idle
                 /\ reader = "ended" /\ reaper = "done"
                 /\ DropGate
                 /\ UNCHANGED sessionVars

AgentRuns(c) == /\ agent # "gone"
                /\ (Working /\ Load < Workload /\ RunHook(c)) \/ RunTool(c)
                /\ UNCHANGED sessionVars

-----------------------------------------------------------------------------
MessageStep(m) == \/ Lock(m) \/ Written(m)
                  \/ m \in Control /\ (Wake(m) \/ Timeout(m))
HostStep == Launched \/ LaunchPrompt \/ ShutdownEnds
ReaderStep == Read \/ AnswerQuestion \/ ReaderEnds
AgentStep == AgentAsks \/ AgentDeafens \/ AgentHangsUp \/ AgentExits
                \/ \E r \in Control : AgentReplies(r)

SessionNext == \/ Launch \/ ShutdownBegins \/ HostStep
               \/ \E m \in Messages : UserSays(m) \/ MessageStep(m)
               \/ ReaderStep \/ Reaped \/ AgentStep

Gated(c) == Accept(c) \/ GiveUp(c) \/ ServeStep(c)

Next == \/ SessionNext /\ UNCHANGED gateVars
        \/ \E c \in Tools : AgentRuns(c) \/ (Gated(c) /\ UNCHANGED sessionVars)
        \/ (Load < Workload /\ AcceptFails /\ UNCHANGED sessionVars)
        \/ SharedDropped

(* Every call and the reader run while they can, timers fire, a launch goes  *)
(* on to its prompt or returns; the agent and the user owe nothing.          *)
Fairness ==
    /\ \A m \in Messages : WF_vars(MessageStep(m) /\ UNCHANGED gateVars)
    /\ WF_vars(HostStep /\ UNCHANGED gateVars)
    /\ WF_vars(ReaderStep /\ UNCHANGED gateVars)

Spec == Init /\ [][Next]_vars /\ Fairness

-----------------------------------------------------------------------------
(* The stdin mutex: exactly the message or the reader inside a write has it. *)
WriterLocked == /\ \A m \in Messages : At(m, "writing") <=> writer = m
                /\ reader = "answering" <=> writer = Reader

(* Every variable in its type, the mutex consistent with who writes. *)
TypeOK ==
    /\ agent \in {"reading", "deaf", "gone"} /\ out \in {"open", "closed"}
    /\ stdout \in Seq(Lines) /\ Len(stdout) <= PipeBound
    /\ heard \in [Messages -> {"no", "asked", "replied"}]
    /\ told <= asked /\ asked <= told + 1 /\ asked <= Workload
    /\ writer \in Messages \cup {NoOne, Reader} /\ running \in BOOLEAN
    /\ waiters \subseteq Control /\ answer \in [Control -> {"none", "answer"}]
    /\ stage \in [Messages -> Stages]
    /\ mode \in {"launched"} \cup ModeSets
    /\ reader \in {"reading", "deciding", "answering", "ended"}
    /\ reaper \in {"waiting", "done"}
    /\ handle \in {"launching", "held", "stopping", "dropped"}
    /\ GateTypeOK /\ WriterLocked

(* A permission question is answered, the one read after a stop included,    *)
(* unless the agent no longer reads: the reader is never left waiting for a  *)
(* mutex nobody gives back, nor the agent for a decision ("An unanswered     *)
(* gate must fail closed" has nothing to close).                             *)
QuestionsAnswered == (asked # told) ~> (asked = told \/ agent # "reading")

(* A tool call's hook finds nobody to ask only when accept has failed, never *)
(* because the session was let go: in whatever order the host's handle, the  *)
(* calls, the reader and the reaper end, the gate ("Dropping it removes the  *)
(* socket, so a finished Thread leaves nothing behind") is kept until the    *)
(* agent that could start a hook is dead.                                    *)
HookFindsGate ==
    [][\A c \in Tools : hook[c] = "idle" /\ hook'[c] = "unreached" => gate = "broken"]_vars

(* "Closing stdin asks the runtime to finish": once shutdown is over, an     *)
(* agent that reads its stdin comes to its end, which is closed only when    *)
(* every handle on it is, or leaves of itself.                               *)
StdinAtEnd == handle = "dropped" /\ reader = "ended" /\ Idle
StopAsks == (handle = "dropped" /\ agent = "reading") ~> (agent # "reading" \/ StdinAtEnd)

(* The control channel as RpcCalls describes it. *)
CallOf(r) == CASE stage[r] = "idle" -> "idle"
               [] stage[r] = "answered" -> "answered"
               [] stage[r] \in Over -> "failed"
               [] OTHER -> "open"

Rpc == INSTANCE RpcCalls WITH
          Calls <- Control,
          call <- [r \in Control |-> CallOf(r)],
          link <- IF agent = "gone" THEN "down" ELSE "up",
          replied <- {r \in Control : heard[r] = "replied"}

(* Every control request ends once, with the agent's answer to that request  *)
(* or with an error, and none outlives the agent, the ones written around a  *)
(* shutdown or behind a reader busy with a question included.                *)
Implements == Rpc!Spec
=============================================================================
