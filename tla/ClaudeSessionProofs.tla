------------------------- MODULE ClaudeSessionProofs -------------------------
(***************************************************************************)
(* What a Claude session and its PreToolUse gate guarantee, for every set  *)
(* of tool calls and messages and every bound.                             *)
(***************************************************************************)
EXTENDS ClaudeSession, FiniteSetTheorems, SequenceTheorems, TLAPS

(* One call's hook and the gate's task for it, kept consistent: a hook has   *)
(* an answer only once the task gave one, and the answer is its verdict.     *)
CallConsistent(c) ==
    /\ serve[c] \in {"none", "accepted"} => verdict[c] = "none"
    /\ serve[c] \in {"decided", "told"} => verdict[c] # "none"
    /\ hook[c] \in {"denied", "silent"} => serve[c] \in {"told", "done"}
    /\ hook[c] = "denied" => Refused(c)
    /\ hook[c] \in {"idle", "unreached"} => serve[c] = "none"
    /\ hook[c] = "silent" => verdict[c] = "defer"
    /\ c \in ran => hook[c] \in {"unreached", "gaveUp", "silent"}

GateShapes == /\ hook \in [Tools -> Hooks] /\ serve \in [Tools -> Serving]
              /\ verdict \in [Tools -> Verdicts]
              /\ ran \subseteq Tools

GateInv == GateShapes /\ \A c \in Tools : CallConsistent(c)

LEMMA HookSteps ==
  ASSUME NEW c \in Tools, GateInv, RunHook(c) \/ GiveUp(c) \/ RunTool(c)
  PROVE  GateInv'
<1> USE DEF GateInv, GateShapes, CallConsistent, Hooks, Serving, Verdicts, Refused
<1>1. CASE RunHook(c)  BY <1>1 DEF RunHook
<1>2. CASE GiveUp(c)  BY <1>2 DEF GiveUp
<1>3. CASE RunTool(c)  BY <1>3 DEF RunTool
<1> QED BY <1>1, <1>2, <1>3

LEMMA TaskSteps ==
  ASSUME NEW c \in Tools, GateInv, Accept(c) \/ ServeStep(c)
  PROVE  GateInv'
<1> USE DEF GateInv, GateShapes, CallConsistent, Hooks, Serving, Verdicts, Refused
<1>1. CASE Accept(c)  BY <1>1 DEF Accept
<1>2. CASE NothingRead(c)  BY <1>2 DEF NothingRead
<1>3. CASE Unread(c)  BY <1>3 DEF Unread
<1>4. CASE Judge(c)  BY <1>4 DEF Judge
<1>5. CASE Respond(c)  BY <1>5 DEF Respond
<1>6. CASE List(c)  BY <1>6 DEF List
<1> QED BY <1>1, <1>2, <1>3, <1>4, <1>5, <1>6 DEF ServeStep

LEMMA GateIdle == GateInv /\ UNCHANGED <<hook, serve, verdict, ran>> => GateInv'
  BY DEF GateInv, GateShapes, CallConsistent, Refused

(* The session's own steps leave the gate alone, or only close its door. *)
LEMMA GateStep == GateInv /\ [Next]_vars => GateInv'
<1> SUFFICES ASSUME GateInv, [Next]_vars PROVE GateInv'
  OBVIOUS
<1>1. CASE UNCHANGED gateVars
  BY <1>1, GateIdle DEF gateVars
<1>2. ASSUME NEW c \in Tools, AgentRuns(c) PROVE GateInv'
  BY <1>2, HookSteps DEF AgentRuns
<1>3. ASSUME NEW c \in Tools, Gated(c) PROVE GateInv'
  BY <1>3, HookSteps, TaskSteps DEF Gated
<1>4. CASE AcceptFails
  BY <1>4, GateIdle DEF AcceptFails
<1>5. CASE SharedDropped
  BY <1>5, GateIdle DEF SharedDropped, DropGate
<1> QED
  BY <1>1, <1>2, <1>3, <1>4, <1>5 DEF Next, vars

LEMMA GateInvariant == Spec => []GateInv
<1>1. Init => GateInv
  BY DEF Init, GateInit, GateInv, GateShapes, CallConsistent, Hooks, Serving, Verdicts, Refused
<1> QED BY <1>1, GateStep, PTL DEF Spec

(* A refusal that reached its hook stopped the call, for every number of     *)
(* calls being decided at once.                                              *)
THEOREM RefusalsHold == Spec => []RefusedIsStopped
<1>1. GateInv => RefusedIsStopped
  BY DEF GateInv, GateShapes, CallConsistent, RefusedIsStopped, Refused
<1> QED BY <1>1, GateInvariant, PTL

-----------------------------------------------------------------------------
(* The gate's own variables.                                                 *)
LEMMA InitGateTyped == Init => GateTypeOK
<1> SUFFICES ASSUME Init PROVE GateTypeOK
  OBVIOUS
<1> QED BY DEF Init, GateInit, GateTypeOK, Hooks, Serving, Verdicts

LEMMA StepGateTyped == GateTypeOK /\ [Next]_vars => GateTypeOK'
<1> SUFFICES ASSUME GateTypeOK, [Next]_vars PROVE GateTypeOK'
  OBVIOUS
<1> USE DEF GateTypeOK, Hooks, Serving, Verdicts
<1>1. CASE UNCHANGED gateVars
  BY <1>1 DEF gateVars
<1>2. ASSUME NEW c \in Tools, AgentRuns(c) PROVE GateTypeOK'
  BY <1>2 DEF AgentRuns, RunHook, RunTool
<1>3. ASSUME NEW c \in Tools, Gated(c) PROVE GateTypeOK'
  <2>1. CASE Accept(c) \/ GiveUp(c)  BY <2>1 DEF Accept, GiveUp
  <2>2. CASE NothingRead(c) \/ Unread(c)  BY <2>2 DEF NothingRead, Unread
  <2>3. CASE Judge(c)  BY <2>3 DEF Judge
  <2>4. CASE Respond(c)  BY <2>4 DEF Respond
  <2>5. CASE List(c)  BY <2>5 DEF List
  <2> QED BY <1>3, <2>1, <2>2, <2>3, <2>4, <2>5 DEF Gated, ServeStep
<1>4. CASE AcceptFails \/ SharedDropped
  BY <1>4 DEF AcceptFails, SharedDropped, DropGate
<1> QED BY <1>1, <1>2, <1>3, <1>4 DEF Next, vars

-----------------------------------------------------------------------------
(* Why the hooks find their gate: it goes with the shared state, which the   *)
(* reaping task lets go only once the process is dead, and the dead stay so  *)
(* and start no hooks.                                                       *)
Reaping == /\ reaper = "done" => agent = "gone"
           /\ gate = "dropped" => agent = "gone"

LEMMA StaysGone == SessionNext /\ agent = "gone" => agent' = "gone"
<1> SUFFICES ASSUME SessionNext, agent = "gone" PROVE agent' = "gone"
  OBVIOUS
<1> USE DEF agentVars
<1>1. CASE Launch  BY <1>1 DEF Launch, Say
<1>2. CASE ShutdownBegins  BY <1>2 DEF ShutdownBegins
<1>3. CASE HostStep  BY <1>3 DEF HostStep, Launched, LaunchPrompt, Say, ShutdownEnds
<1>4. ASSUME NEW m \in Messages, UserSays(m) PROVE agent' = "gone"
  BY <1>4 DEF UserSays, Say
<1>5. ASSUME NEW m \in Messages, MessageStep(m) PROVE agent' = "gone"
  BY <1>5 DEF MessageStep, Lock, Written, Wake, Timeout
<1>6. CASE ReaderStep  BY <1>6 DEF ReaderStep, Read, AnswerQuestion, ReaderEnds
<1>7. CASE Reaped  BY <1>7 DEF Reaped
<1>8. CASE AgentStep
  BY <1>8 DEF AgentStep, AgentAsks, AgentReplies, AgentDeafens, AgentHangsUp, AgentExits, Writes
<1> QED
  BY <1>1, <1>2, <1>3, <1>4, <1>5, <1>6, <1>7, <1>8 DEF SessionNext

LEMMA ReapedIsGone == SessionNext /\ reaper' = "done" => reaper = "done" \/ agent = "gone"
<1> SUFFICES ASSUME SessionNext, reaper' = "done" PROVE reaper = "done" \/ agent = "gone"
  OBVIOUS
<1> USE DEF taskVars
<1>1. CASE Launch  BY <1>1 DEF Launch, Say
<1>2. CASE ShutdownBegins  BY <1>2 DEF ShutdownBegins
<1>3. CASE HostStep  BY <1>3 DEF HostStep, Launched, LaunchPrompt, Say, ShutdownEnds
<1>4. ASSUME NEW m \in Messages, UserSays(m) PROVE reaper = "done" \/ agent = "gone"
  BY <1>4 DEF UserSays, Say
<1>5. ASSUME NEW m \in Messages, MessageStep(m) PROVE reaper = "done" \/ agent = "gone"
  BY <1>5 DEF MessageStep, Lock, Written, Wake, Timeout
<1>6. CASE ReaderStep  BY <1>6 DEF ReaderStep, Read, AnswerQuestion, ReaderEnds
<1>7. CASE Reaped  BY <1>7 DEF Reaped
<1>8. CASE AgentStep
  BY <1>8 DEF AgentStep, AgentAsks, AgentReplies, AgentDeafens, AgentHangsUp, AgentExits, Writes
<1> QED
  BY <1>1, <1>2, <1>3, <1>4, <1>5, <1>6, <1>7, <1>8 DEF SessionNext

LEMMA ReapingStep == Reaping /\ [Next]_vars => Reaping'
<1> SUFFICES ASSUME Reaping, [Next]_vars PROVE Reaping'
  OBVIOUS
<1> USE DEF Reaping
<1>1. CASE SessionNext /\ UNCHANGED gateVars
  BY <1>1, StaysGone, ReapedIsGone DEF gateVars
<1>2. ASSUME NEW c \in Tools, AgentRuns(c) PROVE Reaping'
  BY <1>2 DEF AgentRuns, RunHook, RunTool, sessionVars, agentVars, taskVars
<1>3. ASSUME NEW c \in Tools, Gated(c), UNCHANGED sessionVars PROVE Reaping'
  BY <1>3 DEF Gated, Accept, GiveUp, ServeStep, NothingRead, Unread, Judge, Respond, List, sessionVars, agentVars, taskVars
<1>4. CASE AcceptFails /\ UNCHANGED sessionVars
  BY <1>4 DEF AcceptFails, sessionVars, agentVars, taskVars
<1>5. CASE SharedDropped
  BY <1>5 DEF SharedDropped, DropGate, sessionVars, agentVars, taskVars
<1>6. CASE UNCHANGED vars
  BY <1>6 DEF vars, sessionVars, gateVars, agentVars, taskVars
<1> QED
  BY <1>1, <1>2, <1>3, <1>4, <1>5, <1>6 DEF Next

(* Only an agent that runs starts a hook.                                    *)
LEMMA OnlyRunningAsks ==
  ASSUME Next, NEW c \in Tools, hook[c] = "idle", hook'[c] = "unreached", GateShapes
  PROVE  agent # "gone" /\ gate # "up"
<1>1. hook' # hook
  OBVIOUS
<1>2. ~(SessionNext /\ UNCHANGED gateVars) /\ ~AcceptFails /\ ~SharedDropped
  BY <1>1 DEF gateVars, AcceptFails, SharedDropped, DropGate
<1>3. ASSUME NEW d \in Tools, Gated(d) PROVE FALSE
  <2>1. hook'[d] \in {hook[d], "gaveUp", "denied", "silent"}
        /\ \A e \in Tools \ {d} : hook'[e] = hook[e]
    BY <1>3 DEF Gated, Accept, GiveUp, ServeStep, NothingRead, Unread, Judge, Respond, List, GateShapes
  <2> QED BY <2>1
<1>4. PICK d \in Tools : AgentRuns(d)
  BY <1>2, <1>3 DEF Next
<1>5. agent # "gone" /\ (RunHook(d) \/ RunTool(d))
  BY <1>4 DEF AgentRuns
<1>6. RunHook(d)
  BY <1>1, <1>5 DEF RunTool
<1>7. \A e \in Tools : hook'[e] = IF e = d THEN IF gate = "up" THEN "asking" ELSE "unreached"
                                  ELSE hook[e]
  BY <1>6 DEF RunHook, GateShapes
<1> QED BY <1>5, <1>7

(* For any calls and tools, a hook meets a gate that is gone only after a    *)
(* failed accept.                                                            *)
THEOREM HooksFindGate == Spec => HookFindsGate
<1>1. Init => Reaping
  BY DEF Init, GateInit, Reaping
<1>2. Init => GateTypeOK
  BY InitGateTyped
<1>3. GateInv /\ Reaping /\ GateTypeOK /\ [Next]_vars =>
        [\A c \in Tools : hook[c] = "idle" /\ hook'[c] = "unreached" => gate = "broken"]_vars
  <2> SUFFICES ASSUME GateInv, Reaping, GateTypeOK, Next, NEW c \in Tools,
                      hook[c] = "idle", hook'[c] = "unreached"
               PROVE  gate = "broken"
    OBVIOUS
  <2>1. agent # "gone" /\ gate # "up"
    BY OnlyRunningAsks DEF GateInv
  <2> QED BY <2>1 DEF Reaping, GateTypeOK
<1> QED BY <1>1, <1>2, <1>3, ReapingStep, StepGateTyped, GateInvariant, PTL DEF Spec, HookFindsGate

-----------------------------------------------------------------------------
(* The session itself.  Its steps, one by one, as the lemmas below take them.*)
LEMMA Kinds == /\ Control \subseteq Messages /\ "initialize" \in Control
               /\ FirstPrompt \in Messages /\ FirstPrompt \notin Control
               /\ Prompts \cup ModeSets \cup Interrupts \subseteq Messages
               /\ NoOne \notin Messages /\ Reader \notin Messages /\ NoOne # Reader
  BY DistinctMessages DEF Control, Messages, NoOne, Reader

LEMMA SessionSteps ==
    [Next]_vars => \/ \E m \in Messages : At(m, "idle") /\ Say(m) /\ UNCHANGED <<reader, reaper>>
                   \/ \E m \in Messages : Lock(m) \/ Written(m)
                   \/ \E r \in Control : Wake(r) \/ Timeout(r)
                   \/ Launched \/ ShutdownBegins \/ ShutdownEnds
                   \/ Read \/ AnswerQuestion \/ ReaderEnds \/ Reaped
                   \/ AgentAsks \/ (\E r \in Control : AgentReplies(r))
                   \/ AgentDeafens \/ AgentHangsUp \/ AgentExits
                   \/ UNCHANGED sessionVars
<1> SUFFICES ASSUME [Next]_vars, ~UNCHANGED sessionVars
             PROVE  \/ \E m \in Messages : At(m, "idle") /\ Say(m) /\ UNCHANGED <<reader, reaper>>
                    \/ \E m \in Messages : Lock(m) \/ Written(m)
                    \/ \E r \in Control : Wake(r) \/ Timeout(r)
                    \/ Launched \/ ShutdownBegins \/ ShutdownEnds
                    \/ Read \/ AnswerQuestion \/ ReaderEnds \/ Reaped
                    \/ AgentAsks \/ (\E r \in Control : AgentReplies(r))
                    \/ AgentDeafens \/ AgentHangsUp \/ AgentExits
  OBVIOUS
<1>1. SessionNext
  BY DEF Next, vars, SharedDropped, AgentRuns
<1>2. ASSUME NEW m, Say(m) PROVE UNCHANGED <<reader, reaper>>
  BY <1>2 DEF Say, taskVars
<1>3. CASE Launch \/ LaunchPrompt \/ \E m \in Messages : UserSays(m)
  BY <1>2, <1>3, Kinds DEF Launch, LaunchPrompt, UserSays
<1>4. CASE \E m \in Messages : MessageStep(m)
  BY <1>4 DEF MessageStep
<1> QED BY <1>1, <1>3, <1>4 DEF SessionNext, HostStep, ReaderStep, AgentStep

(* The stdin mutex.                                                          *)
Talking == /\ stage \in [Messages -> Stages]
           /\ writer \in Messages \cup {NoOne, Reader}
           /\ reader \in {"reading", "deciding", "answering", "ended"}
           /\ WriterLocked

LEMMA StepTalking == Talking /\ [Next]_vars => Talking'
<1> SUFFICES ASSUME Talking, [Next]_vars PROVE Talking'
  OBVIOUS
<1> USE Kinds DEF Talking, WriterLocked, Stages, Over, At, Move, agentVars, connVars, taskVars
<1>1. ASSUME NEW m \in Messages, At(m, "idle"), Say(m) PROVE Talking'
  BY <1>1 DEF Say
<1>2. ASSUME NEW m \in Messages, Lock(m) PROVE Talking'
  BY <1>2 DEF Lock
<1>3. ASSUME NEW m \in Messages, Written(m) PROVE Talking'
  BY <1>3 DEF Written
<1>4. ASSUME NEW r \in Control, Wake(r) \/ Timeout(r) PROVE Talking'
  <2>1. CASE Wake(r)  BY <2>1 DEF Wake
  <2>2. CASE Timeout(r)  BY <2>2 DEF Timeout
  <2> QED BY <1>4, <2>1, <2>2
<1>5. CASE Launched \/ ShutdownBegins \/ ShutdownEnds
  BY <1>5 DEF Launched, ShutdownBegins, ShutdownEnds
<1>6. CASE Read
  BY <1>6 DEF Read
<1>7. CASE AnswerQuestion
  BY <1>7 DEF AnswerQuestion
<1>8. CASE ReaderEnds \/ Reaped
  BY <1>8 DEF ReaderEnds, Reaped
<1>9. CASE AgentAsks \/ \E r \in Control : AgentReplies(r)
  BY <1>9 DEF AgentAsks, AgentReplies, Writes
<1>10. CASE AgentDeafens \/ AgentHangsUp \/ AgentExits
  BY <1>10 DEF AgentDeafens, AgentHangsUp, AgentExits
<1>11. CASE UNCHANGED sessionVars
  BY <1>11 DEF sessionVars
<1> QED
  BY <1>1, <1>2, <1>3, <1>4, <1>5, <1>6, <1>7, <1>8, <1>9, <1>10, <1>11, SessionSteps

Shapes ==
    /\ agent \in {"reading", "deaf", "gone"} /\ out \in {"open", "closed"}
    /\ stdout \in Seq(Lines) /\ Len(stdout) <= PipeBound
    /\ heard \in [Messages -> {"no", "asked", "replied"}]
    /\ running \in BOOLEAN
    /\ waiters \subseteq Control /\ answer \in [Control -> {"none", "answer"}]
    /\ mode \in {"launched"} \cup ModeSets
    /\ reaper \in {"waiting", "done"}
    /\ handle \in {"launching", "held", "stopping", "dropped"}

(* What is read is a line of the agent's, and the pipe is bounded.           *)
LEMMA Lined ==
  ASSUME Shapes
  PROVE  /\ Len(stdout) \in Nat
         /\ stdout # <<>> => /\ Head(stdout) \in Lines /\ Tail(stdout) \in Seq(Lines)
                             /\ Len(Tail(stdout)) <= PipeBound
         /\ \A line \in Lines : Len(stdout) < PipeBound =>
               Append(stdout, line) \in Seq(Lines) /\ Len(Append(stdout, line)) <= PipeBound
<1>1. stdout \in Seq(Lines) /\ Len(stdout) <= PipeBound /\ PipeBound \in Nat
  BY FiniteSession DEF Shapes
<1>2. Len(stdout) \in Nat
  BY <1>1
<1>3. stdout # <<>> => /\ Head(stdout) \in Lines /\ Tail(stdout) \in Seq(Lines)
                       /\ Len(Tail(stdout)) = Len(stdout) - 1
  BY <1>1, HeadTailProperties
<1>4. \A line \in Lines : /\ Append(stdout, line) \in Seq(Lines)
                          /\ Len(Append(stdout, line)) = Len(stdout) + 1
  BY <1>1, AppendProperties
<1> QED BY <1>1, <1>2, <1>3, <1>4

LEMMA StepShapes == Shapes /\ Talking /\ [Next]_vars => Shapes'
<1> SUFFICES ASSUME Shapes, Talking, [Next]_vars PROVE Shapes'
  OBVIOUS
<1>a. Messages \in SUBSET Messages /\ ModeSets \subseteq Control
  BY DEF Control
<1> USE <1>a, Kinds DEF Shapes, At, Move, agentVars, connVars, taskVars
<1>1. ASSUME NEW m \in Messages, Say(m), UNCHANGED <<reader, reaper>> PROVE Shapes'
  BY <1>1 DEF Say
<1>2. ASSUME NEW m \in Messages, Lock(m) PROVE Shapes'
  BY <1>2 DEF Lock
<1>3. ASSUME NEW m \in Messages, Written(m) PROVE Shapes'
  BY <1>3 DEF Written
<1>4. ASSUME NEW r \in Control, Wake(r) \/ Timeout(r) PROVE Shapes'
  <2>1. CASE Wake(r)  BY <2>1 DEF Wake
  <2>2. CASE Timeout(r)  BY <2>2 DEF Timeout
  <2> QED BY <1>4, <2>1, <2>2
<1>5. CASE Launched \/ ShutdownBegins \/ ShutdownEnds
  BY <1>5 DEF Launched, ShutdownBegins, ShutdownEnds
<1>6. CASE Read
  <2>1. stdout' \in Seq(Lines) /\ Len(stdout') <= PipeBound
    BY <1>6, Lined DEF Read
  <2>2. waiters' \subseteq Control /\ answer' \in [Control -> {"none", "answer"}]
    BY <1>6 DEF Read
  <2> QED BY <1>6, <2>1, <2>2 DEF Read
<1>7. CASE AnswerQuestion
  BY <1>7 DEF AnswerQuestion
<1>8. CASE ReaderEnds \/ Reaped
  BY <1>8 DEF ReaderEnds, Reaped
<1>9. CASE AgentAsks
  BY <1>9, Lined DEF AgentAsks, Writes, Lines
<1>10. ASSUME NEW r \in Control, AgentReplies(r) PROVE Shapes'
  <2>1. PICK kind \in {"answer", "cancel"} : Writes(<<kind, r>>)
    BY <1>10 DEF AgentReplies
  <2>2. <<kind, r>> \in Lines
    BY DEF Lines
  <2>3. stdout' \in Seq(Lines) /\ Len(stdout') <= PipeBound
    BY <2>1, <2>2, Lined DEF Writes
  <2> QED BY <1>10, <2>1, <2>3 DEF AgentReplies, Writes
<1>11. CASE AgentDeafens \/ AgentHangsUp \/ AgentExits
  BY <1>11 DEF AgentDeafens, AgentHangsUp, AgentExits
<1>12. CASE UNCHANGED sessionVars
  BY <1>12 DEF sessionVars
<1> QED
  BY <1>1, <1>2, <1>3, <1>4, <1>5, <1>6, <1>7, <1>8, <1>9, <1>10, <1>11, <1>12, SessionSteps

(* One question at a time: while one is unanswered it is in the pipe once or *)
(* with the reader, and nowhere when none is.                                *)
Ask(i) == stdout[i][1] = "ask"
Questions ==
    /\ told \in Nat /\ asked \in Nat
    /\ told <= asked /\ asked <= told + 1 /\ asked <= Workload
    /\ reader \in {"deciding", "answering"} =>
          asked = told + 1 /\ \A i \in 1..Len(stdout) : ~Ask(i)
    /\ \A i, j \in 1..Len(stdout) : Ask(i) => asked = told + 1 /\ (Ask(j) => i = j)

(* The work a session is given bounds the questions asked in it.             *)
LEMMA LoadCovers == asked \in Nat => asked <= Load /\ Load \in Nat
<1>1. /\ IsFiniteSet({m \in Messages \ {"initialize", FirstPrompt} : ~At(m, "idle")})
      /\ IsFiniteSet({c \in Tools : hook[c] # "idle"})
  BY FiniteSession, FS_Subset
<1> QED BY <1>1, FS_CardinalityType DEF Load

LEMMA StepQuestions == Shapes /\ Talking /\ Questions /\ [Next]_vars => Questions'
<1> SUFFICES ASSUME Shapes, Talking, Questions, [Next]_vars PROVE Questions'
  OBVIOUS
<1>a. stdout \in Seq(Lines) /\ Len(stdout) \in Nat /\ Workload \in Nat
  BY FiniteSession DEF Shapes
<1>b. UNCHANGED <<stdout, asked, told, reader>> => Questions'
  BY DEF Questions, Ask
<1> USE DEF agentVars, connVars, taskVars
<1>1. ASSUME NEW m \in Messages, Say(m), UNCHANGED <<reader, reaper>> PROVE Questions'
  BY <1>1, <1>b DEF Say
<1>2. ASSUME NEW m \in Messages, Lock(m) \/ Written(m) PROVE Questions'
  BY <1>2, <1>b DEF Lock, Written
<1>3. ASSUME NEW r \in Control, Wake(r) \/ Timeout(r) PROVE Questions'
  BY <1>3, <1>b DEF Wake, Timeout
<1>4. CASE Launched \/ ShutdownBegins \/ ShutdownEnds \/ Reaped
  BY <1>4, <1>b DEF Launched, ShutdownBegins, ShutdownEnds, Reaped
<1>5. CASE Read
  <2>1. /\ stdout # <<>> /\ stdout' = Tail(stdout) /\ reader = "reading"
        /\ asked' = asked /\ told' = told
        /\ \/ Ask(1) /\ reader' = "deciding"
           \/ ~Ask(1) /\ reader' = reader
    BY <1>5, <1>a DEF Read, Ask
  <2>2. /\ Len(stdout') = Len(stdout) - 1 /\ Len(stdout) >= 1
        /\ \A i \in 1..Len(stdout') : stdout'[i] = stdout[i + 1]
    BY <1>a, <2>1
  <2>3. \A i \in 1..Len(stdout') : Ask(i)' = Ask(i + 1) /\ i + 1 \in 1..Len(stdout) /\ i + 1 # 1
    BY <2>2, <1>a DEF Ask
  <2>4. Ask(1) => asked = told + 1 /\ \A i \in 1..Len(stdout') : ~Ask(i)'
    BY <2>2, <2>3, <1>a DEF Questions
  <2>5. \A i, j \in 1..Len(stdout') : Ask(i)' => asked = told + 1 /\ (Ask(j)' => i = j)
    <3> SUFFICES ASSUME NEW i \in 1..Len(stdout'), NEW j \in 1..Len(stdout'), Ask(i)'
                 PROVE  asked = told + 1 /\ (Ask(j)' => i = j)
      OBVIOUS
    <3>1. Ask(i + 1) /\ i + 1 \in 1..Len(stdout) /\ j + 1 \in 1..Len(stdout)
      BY <2>3
    <3>2. asked = told + 1 /\ (Ask(j + 1) => i + 1 = j + 1)
      BY <3>1 DEF Questions
    <3> QED BY <2>2, <2>3, <3>2, <1>a
  <2> QED BY <2>1, <2>4, <2>5 DEF Questions
<1>6. CASE AnswerQuestion
  <2>1. stdout' = stdout /\ asked' = asked
    BY <1>6 DEF AnswerQuestion
  <2>2. asked = told + 1 /\ \A i \in 1..Len(stdout) : ~Ask(i)
    BY <1>6 DEF AnswerQuestion, Questions
  <2>3. told' = told \/ told' = told + 1
    BY <1>6 DEF AnswerQuestion
  <2>4. reader' \in {"deciding", "answering"} => told' = told
    BY <1>6 DEF AnswerQuestion
  <2>5. \A i \in 1..Len(stdout') : ~Ask(i)'
    BY <2>1, <2>2 DEF Ask
  <2>6. told' \in Nat /\ told' <= asked /\ asked <= told' + 1
    <3>1. told \in Nat
      BY DEF Questions
    <3> QED BY <2>2, <2>3, <3>1
  <2>7. reader' \in {"deciding", "answering"} => asked = told' + 1
    BY <2>2, <2>4
  <2>8. asked' \in Nat /\ asked' <= Workload
    BY <2>1 DEF Questions
  <2> QED BY <2>1, <2>5, <2>6, <2>7, <2>8 DEF Questions
<1>7. CASE ReaderEnds
  <2>1. UNCHANGED <<stdout, asked, told>> /\ reader' = "ended"
    BY <1>7 DEF ReaderEnds
  <2> QED BY <2>1 DEF Questions, Ask
<1>8. CASE AgentAsks
  <2>1. /\ asked = told /\ Load < Workload /\ asked' = asked + 1
        /\ told' = told /\ reader' = reader /\ stdout' = Append(stdout, <<"ask", NoOne>>)
    BY <1>8 DEF AgentAsks, Writes
  <2>2. /\ Len(stdout') = Len(stdout) + 1
        /\ \A i \in 1..Len(stdout) : stdout'[i] = stdout[i]
    BY <1>a, <2>1
  <2>3. asked + 1 <= Workload
    BY <2>1, <1>a, LoadCovers DEF Questions
  <2>4. \A i \in 1..Len(stdout) : ~Ask(i)
    BY <2>1 DEF Questions
  <2>5. \A i \in 1..Len(stdout') : Ask(i)' => i = Len(stdout) + 1
    BY <2>2, <2>4, <1>a DEF Ask
  <2>6. reader' \notin {"deciding", "answering"}
    BY <2>1 DEF Questions
  <2> QED BY <2>1, <2>3, <2>5, <2>6 DEF Questions
<1>9. ASSUME NEW r \in Control, AgentReplies(r) PROVE Questions'
  <2>1. PICK kind \in {"answer", "cancel"} : stdout' = Append(stdout, <<kind, r>>)
    BY <1>9 DEF AgentReplies, Writes
  <2>2. UNCHANGED <<asked, told, reader>>
    BY <1>9 DEF AgentReplies, Writes
  <2>3. /\ Len(stdout') = Len(stdout) + 1
        /\ \A i \in 1..Len(stdout) : stdout'[i] = stdout[i]
        /\ stdout'[Len(stdout) + 1] = <<kind, r>>
    BY <1>a, <2>1
  <2>4. \A i \in 1..Len(stdout') : Ask(i)' => i \in 1..Len(stdout) /\ Ask(i)
    BY <2>3, <1>a DEF Ask
  <2> QED BY <2>2, <2>4 DEF Questions
<1>10. CASE AgentDeafens \/ AgentHangsUp \/ AgentExits
  BY <1>10, <1>b DEF AgentDeafens, AgentHangsUp, AgentExits
<1>11. CASE UNCHANGED sessionVars
  BY <1>11, <1>b DEF sessionVars
<1> QED
  BY <1>1, <1>2, <1>3, <1>4, <1>5, <1>6, <1>7, <1>8, <1>9, <1>10, <1>11, SessionSteps

LEMMA InitTyped == Init => Shapes /\ Talking /\ Questions /\ GateTypeOK
<1> SUFFICES ASSUME Init PROVE Shapes /\ Talking /\ Questions /\ GateTypeOK
  OBVIOUS
<1>1. <<>> \in Seq(Lines) /\ Len(<<>>) = 0 /\ PipeBound \in Nat /\ Workload \in Nat
  BY FiniteSession
<1>2. Shapes
  BY <1>1 DEF Init, Shapes
<1>3. Talking
  BY Kinds DEF Init, Talking, WriterLocked, At, Stages, Over
<1>4. Questions
  BY <1>1 DEF Init, Questions
<1>5. GateTypeOK
  BY InitGateTyped
<1> QED BY <1>2, <1>3, <1>4, <1>5

(* Every variable keeps its type; the stdin mutex is held by whoever is in a *)
(* write, a request or the reader answering a question; and the agent never  *)
(* has more than one question unanswered.                                    *)
THEOREM Typed == Spec => []TypeOK
<1>1. Shapes /\ Talking /\ Questions /\ GateTypeOK => TypeOK
  BY DEF TypeOK, Shapes, Talking, Questions
<1> QED
  BY <1>1, InitTyped, StepShapes, StepTalking, StepQuestions, StepGateTyped, PTL DEF Spec

-----------------------------------------------------------------------------
(* Whose every answer is: nothing is heard of a message before its line is   *)
(* out, a reply on its way is to a request the agent has answered, and so is *)
(* every answer a caller has.                                                *)
Asked == \A m \in Messages : heard[m] # "no" => stage[m] \notin {"idle", "checked", "writing"}
Answered == \A r \in Control : answer[r] # "none" => heard[r] = "replied"
OnTheWay == \A i \in 1..Len(stdout) :
               ~Ask(i) => stdout[i][2] \in Messages /\ heard[stdout[i][2]] = "replied"
Owned == Asked /\ Answered /\ OnTheWay

LEMMA StepOwned == Shapes /\ Talking /\ Owned /\ [Next]_vars => Owned'
<1> SUFFICES ASSUME Shapes, Talking, Owned, [Next]_vars PROVE Owned'
  OBVIOUS
<1>a. /\ stage \in [Messages -> Stages] /\ heard \in [Messages -> {"no", "asked", "replied"}]
      /\ answer \in [Control -> {"none", "answer"}] /\ Control \subseteq Messages
  BY Kinds DEF Shapes, Talking
<1>b. stdout \in Seq(Lines) /\ Len(stdout) \in Nat
  BY DEF Shapes
<1>c. stdout' = stdout /\ heard' = heard => OnTheWay'
  BY DEF Owned, OnTheWay, Ask
<1>d. stage' = stage /\ answer' = answer /\ stdout' = stdout /\ heard' = heard => Owned'
  BY <1>c DEF Owned, Asked, Answered
<1> USE <1>a DEF Owned, Asked, Answered, At, Move, agentVars, connVars, taskVars, Stages, Over
<1>1. ASSUME NEW m \in Messages, At(m, "idle"), Say(m) PROVE Owned'
  BY <1>1, <1>c DEF Say
<1>2. ASSUME NEW m \in Messages, Lock(m) PROVE Owned'
  BY <1>2, <1>c DEF Lock
<1>3. ASSUME NEW m \in Messages, Written(m) PROVE Owned'
  <2>1. At(m, "writing") /\ heard[m] = "no"
    BY <1>3 DEF Written, Talking, WriterLocked
  <2>2. /\ \A q \in Messages : heard[q] = "replied" => heard'[q] = "replied"
        /\ stdout' = stdout /\ answer' = answer
    BY <1>3, <2>1 DEF Written
  <2>3. OnTheWay'
    BY <2>2 DEF OnTheWay, Ask
  <2>4. Asked'
    BY <1>3, <2>1 DEF Written
  <2> QED BY <2>2, <2>3, <2>4
<1>4. ASSUME NEW r \in Control, Wake(r) \/ Timeout(r) PROVE Owned'
  <2>1. CASE Wake(r)  BY <2>1, <1>c DEF Wake
  <2>2. CASE Timeout(r)  BY <2>2, <1>c DEF Timeout
  <2> QED BY <1>4, <2>1, <2>2
<1>5. CASE Launched \/ ShutdownBegins \/ ShutdownEnds \/ Reaped \/ ReaderEnds
  BY <1>5, <1>d DEF Launched, ShutdownBegins, ShutdownEnds, Reaped, ReaderEnds
<1>6. CASE Read
  <2>1. stdout # <<>> /\ stdout' = Tail(stdout) /\ heard' = heard /\ stage' = stage
    BY <1>6 DEF Read
  <2>2. /\ Len(stdout') = Len(stdout) - 1 /\ Len(stdout) >= 1 /\ Head(stdout) = stdout[1]
        /\ \A i \in 1..Len(stdout') : stdout'[i] = stdout[i + 1] /\ i + 1 \in 1..Len(stdout)
    BY <1>b, <2>1
  <2>3. OnTheWay'
    BY <2>1, <2>2 DEF OnTheWay, Ask
  <2>4. Head(stdout)[1] # "ask" => heard[Head(stdout)[2]] = "replied"
    BY <2>2, <1>b DEF OnTheWay, Ask
  <2>5. Answered'
    BY <1>6, <2>4 DEF Read
  <2> QED BY <2>1, <2>3, <2>5
<1>7. CASE AnswerQuestion
  BY <1>7, <1>d DEF AnswerQuestion
<1>8. CASE AgentAsks
  <2>1. /\ stdout' = Append(stdout, <<"ask", NoOne>>) /\ heard' = heard
        /\ stage' = stage /\ answer' = answer
    BY <1>8 DEF AgentAsks, Writes
  <2>2. OnTheWay'
    BY <1>b, <2>1 DEF OnTheWay, Ask
  <2> QED BY <2>1, <2>2
<1>9. ASSUME NEW r \in Control, AgentReplies(r) PROVE Owned'
  <2>1. PICK kind \in {"answer", "cancel"} : stdout' = Append(stdout, <<kind, r>>)
    BY <1>9 DEF AgentReplies, Writes
  <2>2. /\ heard' = [heard EXCEPT ![r] = "replied"] /\ heard[r] = "asked"
        /\ stage' = stage /\ answer' = answer
    BY <1>9 DEF AgentReplies, Writes
  <2>3. /\ Len(stdout') = Len(stdout) + 1 /\ stdout'[Len(stdout) + 1] = <<kind, r>>
        /\ \A i \in 1..Len(stdout) : stdout'[i] = stdout[i]
    BY <1>b, <2>1
  <2>4. OnTheWay'
    <3> SUFFICES ASSUME NEW i \in 1..Len(stdout'), stdout'[i][1] # "ask"
                 PROVE  stdout'[i][2] \in Messages /\ heard'[stdout'[i][2]] = "replied"
      BY DEF OnTheWay, Ask
    <3>1. CASE i = Len(stdout) + 1
      BY <3>1, <2>2, <2>3
    <3>2. CASE i \in 1..Len(stdout)
      BY <3>2, <2>2, <2>3 DEF OnTheWay, Ask
    <3> QED BY <3>1, <3>2, <2>3, <1>b
  <2>5. Asked' /\ Answered'
    BY <2>2
  <2> QED BY <2>4, <2>5
<1>10. CASE AgentDeafens \/ AgentHangsUp \/ AgentExits
  BY <1>10, <1>d DEF AgentDeafens, AgentHangsUp, AgentExits
<1>11. CASE UNCHANGED sessionVars
  BY <1>11, <1>d DEF sessionVars
<1> QED
  BY <1>1, <1>2, <1>3, <1>4, <1>5, <1>6, <1>7, <1>8, <1>9, <1>10, <1>11, SessionSteps

(* What the steps of a session are to its calls.                             *)
LinkKept == (agent' = "gone") <=> (agent = "gone")
RepliesKept == \A r \in Control : (heard'[r] = "replied") <=> (heard[r] = "replied")

LEMMA Stutters ==
    LinkKept /\ RepliesKept /\ (\A r \in Control : CallOf(r)' = CallOf(r)) => UNCHANGED Rpc!vars
  BY DEF LinkKept, RepliesKept, Rpc!vars

LEMMA CallMoves ==
    ASSUME NEW r \in Control, LinkKept, RepliesKept,
           \A q \in Control \ {r} : CallOf(q)' = CallOf(q),
           \/ CallOf(r)' = CallOf(r)
           \/ CallOf(r) = "idle" /\ CallOf(r)' \in {"open", "failed"}
           \/ CallOf(r) = "open" /\ CallOf(r)' = "failed"
           \/ CallOf(r) = "open" /\ CallOf(r)' = "answered" /\ heard[r] = "replied"
    PROVE  [Rpc!Next]_(Rpc!vars)
<1> DEFINE call == [q \in Control |-> CallOf(q)]
<1>1. CASE CallOf(r)' = CallOf(r)
  BY <1>1, Stutters
<1>2. call' = [call EXCEPT ![r] = CallOf(r)'] /\ call[r] = CallOf(r)
  OBVIOUS
<1>3. /\ (IF agent = "gone" THEN "down" ELSE "up")' = IF agent = "gone" THEN "down" ELSE "up"
      /\ {q \in Control : heard[q] = "replied"}' = {q \in Control : heard[q] = "replied"}
  BY DEF LinkKept, RepliesKept
<1>4. CASE CallOf(r) = "idle" /\ CallOf(r)' \in {"open", "failed"}
  BY <1>2, <1>3, <1>4 DEF Rpc!Next, Rpc!Begin
<1>5. CASE CallOf(r) = "open" /\ CallOf(r)' = "failed"
  BY <1>2, <1>3, <1>5 DEF Rpc!Next, Rpc!Fail
<1>6. CASE CallOf(r) = "open" /\ CallOf(r)' = "answered" /\ heard[r] = "replied"
  BY <1>2, <1>3, <1>6 DEF Rpc!Next, Rpc!Answer
<1> QED BY <1>1, <1>4, <1>5, <1>6

LEMMA StepRpc == Shapes /\ Talking /\ Owned /\ [Next]_vars => [Rpc!Next]_(Rpc!vars)
<1> SUFFICES ASSUME Shapes, Talking, Owned, [Next]_vars PROVE [Rpc!Next]_(Rpc!vars)
  OBVIOUS
<1> DEFINE Goal == [Rpc!Next]_(Rpc!vars)
<1>a. /\ stage \in [Messages -> Stages] /\ heard \in [Messages -> {"no", "asked", "replied"}]
      /\ answer \in [Control -> {"none", "answer"}] /\ Control \subseteq Messages
  BY Kinds DEF Shapes, Talking
<1>b. \A q \in Control : stage'[q] = stage[q] => CallOf(q)' = CallOf(q)
  BY DEF CallOf
<1>c. /\ agent' = agent => LinkKept
      /\ heard' = heard => RepliesKept
      /\ stage' = stage => \A q \in Control : CallOf(q)' = CallOf(q)
  BY <1>b DEF LinkKept, RepliesKept
<1> USE <1>a DEF At, Move, agentVars, connVars, taskVars
(* A message that moves takes its call along, if it is a request.            *)
<1>d. ASSUME NEW m \in Messages, NEW s \in Stages, Move(m, s), LinkKept, RepliesKept,
             m \in Control =>
               \/ stage[m] = "idle" /\ s \in {"checked", "refused"}
               \/ /\ stage[m] \in {"checked", "writing", "waiting"}
                  /\ s \in {"writing", "waiting", "refused", "ended", "timedOut"}
               \/ stage[m] = "waiting" /\ s = "answered" /\ heard[m] = "replied"
      PROVE  Goal
  <2>1. stage'[m] = s /\ \A q \in Messages \ {m} : stage'[q] = stage[q]
    BY <1>d
  <2>2. \A q \in Control \ {m} : CallOf(q)' = CallOf(q)
    BY <2>1, <1>b
  <2>3. CASE m \in Control
    <3>1. \/ CallOf(m)' = CallOf(m)
          \/ CallOf(m) = "idle" /\ CallOf(m)' \in {"open", "failed"}
          \/ CallOf(m) = "open" /\ CallOf(m)' = "failed"
          \/ CallOf(m) = "open" /\ CallOf(m)' = "answered" /\ heard[m] = "replied"
      BY <1>d, <2>1, <2>3 DEF CallOf, Over
    <3> QED BY <1>d, <2>2, <2>3, <3>1, CallMoves
  <2>4. CASE m \notin Control
    BY <1>d, <2>2, <2>4, Stutters
  <2> QED BY <2>3, <2>4
<1>e. stage' = stage /\ LinkKept /\ RepliesKept => Goal
  BY <1>c, Stutters
<1>f. ASSUME stage' = stage, heard' = heard, agent' = agent \/ agent' = "gone" PROVE Goal
  <2>1. CASE agent' = "gone" /\ agent # "gone"
    <3>1. UNCHANGED <<[q \in Control |-> CallOf(q)], {q \in Control : heard[q] = "replied"}>>
      BY <1>c, <1>f
    <3> QED BY <2>1, <3>1 DEF Rpc!Next, Rpc!Drop
  <2>2. CASE agent' = agent
    BY <2>2, <1>c, <1>e, <1>f
  <2> QED BY <1>f, <2>1, <2>2
<1>1. ASSUME NEW m \in Messages, At(m, "idle"), Say(m) PROVE Goal
  BY <1>1, <1>c, <1>d DEF Say, Stages, Over
<1>2. ASSUME NEW m \in Messages, Lock(m) PROVE Goal
  BY <1>2, <1>c, <1>d DEF Lock, Stages
<1>3. ASSUME NEW m \in Messages, Written(m) PROVE Goal
  <2>1. At(m, "writing") /\ heard[m] = "no"
    BY <1>3 DEF Written, Talking, WriterLocked, Owned, Asked
  <2>2. RepliesKept /\ LinkKept
    BY <1>3, <2>1 DEF Written, RepliesKept, LinkKept
  <2> QED BY <1>3, <2>1, <2>2, <1>d DEF Written, Stages, Over
<1>4. ASSUME NEW r \in Control, Wake(r) \/ Timeout(r) PROVE Goal
  <2>1. CASE Wake(r)
    BY <2>1, <1>c, <1>d DEF Wake, Owned, Answered, Stages, Over
  <2>2. CASE Timeout(r)
    BY <2>2, <1>c, <1>d DEF Timeout, Stages, Over
  <2> QED BY <1>4, <2>1, <2>2
<1>5. CASE Launched \/ ShutdownBegins \/ ShutdownEnds \/ Reaped \/ ReaderEnds
  BY <1>5, <1>f DEF Launched, ShutdownBegins, ShutdownEnds, Reaped, ReaderEnds
<1>6. CASE Read \/ AnswerQuestion
  BY <1>6, <1>f DEF Read, AnswerQuestion
<1>7. CASE AgentAsks
  BY <1>7, <1>f DEF AgentAsks, Writes
<1>8. ASSUME NEW r \in Control, AgentReplies(r) PROVE Goal
  <2>1. /\ agent # "gone" /\ agent' = agent /\ heard[r] = "asked"
        /\ heard' = [heard EXCEPT ![r] = "replied"] /\ stage' = stage
    BY <1>8 DEF AgentReplies, Writes
  <2>2. CallOf(r) # "idle"
    BY <2>1 DEF Owned, Asked, CallOf, Over
  <2>3. {q \in Control : heard[q] = "replied"}' = {q \in Control : heard[q] = "replied"} \cup {r}
    BY <2>1
  <2>4. [q \in Control |-> CallOf(q)]' = [q \in Control |-> CallOf(q)]
    BY <2>1, <1>c
  <2> QED BY <2>1, <2>2, <2>3, <2>4 DEF Rpc!Next, Rpc!Reply
<1>9. CASE AgentDeafens
  <2>1. agent = "reading" /\ agent' = "deaf" /\ heard' = heard /\ stage' = stage
    BY <1>9 DEF AgentDeafens
  <2> QED BY <2>1, <1>c, <1>e DEF LinkKept
<1>10. CASE AgentHangsUp \/ AgentExits
  BY <1>10, <1>f DEF AgentHangsUp, AgentExits
<1>11. CASE UNCHANGED sessionVars
  BY <1>11, <1>f DEF sessionVars
<1> QED
  BY <1>1, <1>2, <1>3, <1>4, <1>5, <1>6, <1>7, <1>8, <1>9, <1>10, <1>11, SessionSteps

(* Every control request ends at most once, by the agent's answer to that    *)
(* request or by an error, and only an agent that is alive answers: every    *)
(* step of a session, its gate's included, is one that RpcCalls allows.      *)
THEOREM CallsAnswered == Spec => Rpc!Safety
<1>1. Init => Owned
  BY Kinds DEF Init, Owned, Asked, Answered, OnTheWay
<1>2. Init => Rpc!Init
  <2> SUFFICES ASSUME Init PROVE Rpc!Init
    OBVIOUS
  <2>1. \A r \in Control : stage[r] = "idle" /\ heard[r] = "no"
    BY Kinds DEF Init
  <2>2. \A r \in Control : CallOf(r) = "idle"
    BY <2>1 DEF CallOf, Over
  <2>3. agent = "reading"
    BY DEF Init
  <2> QED BY <2>1, <2>2, <2>3 DEF Rpc!Init
<1> QED
  BY <1>1, <1>2, InitTyped, StepShapes, StepTalking, StepOwned, StepRpc, PTL DEF Spec, Rpc!Safety
=============================================================================
