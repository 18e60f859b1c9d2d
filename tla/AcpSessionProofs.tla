-------------------------- MODULE AcpSessionProofs --------------------------
(***************************************************************************)
(* What holds of an ACP session for every set of requests and every bound. *)
(***************************************************************************)
EXTENDS AcpSession, SequenceTheorems, TLAPS

(* The actions whose steps the invariants must survive, named once.        *)
USE DEF At, Move, GiveUp, Stages, agentVars, connVars, taskVars, shownVars

(* Who the requests are: all the proofs need of the sets they come from.   *)
LEMMA Kinds == /\ "initialize" \in Requests /\ "session_new" \in Requests
               /\ \A h \in Handshake : h \in Requests
               /\ \A p \in Prompts : p \in Requests /\ p \notin Timed /\ p \notin Handshake
               /\ \A m \in ModeSets : m \in Requests /\ m \notin Prompts /\ m \notin Handshake
               /\ "initialize" \notin ModeSets /\ "session_new" \notin ModeSets
               /\ "initialize" \notin Prompts /\ "session_new" \notin Prompts
               /\ NoOne \notin Requests
  BY DistinctRequests DEF Requests, Handshake, Timed

(* Why nobody is left waiting: the reader clears running before it clears  *)
(* the map, so whoever registers afterwards is still to look at running.   *)
Drained == /\ reader # "reading" => ~running
           /\ reader = "released" => \A r \in pending : At(r, "registered")

LEMMA StepFlags == Flags /\ [Next]_vars => Flags'
<1> SUFFICES ASSUME Flags, [Next]_vars PROVE Flags'
  OBVIOUS
<1> USE DEF Flags
<1>1. CASE Launch
  BY <1>1 DEF Launch, Register
<1>2. ASSUME NEW r \in Requests, RequestStep(r) PROVE Flags'
  <2>1. CASE Check(r)  BY <2>1 DEF Check
  <2>2. CASE BeginWrite(r)  BY <2>2 DEF BeginWrite
  <2>3. CASE EndWrite(r)  BY <2>3 DEF EndWrite
  <2>4. CASE Awake(r)  BY <2>4 DEF Awake
  <2> QED BY <1>2, <2>1, <2>2, <2>3, <2>4 DEF RequestStep
<1>3. ASSUME NEW r \in Requests, Timeout(r) PROVE Flags'
  BY <1>3 DEF Timeout
<1>4. ASSUME NEW h \in Handshake, LaunchFails(h) PROVE Flags'
  BY <1>4 DEF LaunchFails
<1>5. ASSUME NEW p \in Prompts, SendInput(p) \/ PromptTask(p) \/ TurnReturns(p) \/ TurnEnded(p)
      PROVE Flags'
  <2>1. CASE SendInput(p)  BY <2>1 DEF SendInput, UserMay
  <2>2. CASE PromptTask(p)  BY <2>2 DEF PromptTask, Register
  <2>3. CASE TurnReturns(p)  BY <2>3 DEF TurnReturns
  <2>4. CASE TurnEnded(p)  BY <2>4 DEF TurnEnded
  <2> QED BY <1>5, <2>1, <2>2, <2>3, <2>4
<1>6. ASSUME NEW m \in ModeSets, SetMode(m) PROVE Flags'
  BY <1>6 DEF SetMode, UserMay, Register
<1>7. CASE ShutdownBegins
  BY <1>7 DEF ShutdownBegins
<1>8. CASE TaskStep
  <2>1. CASE Handshaken  BY <2>1 DEF Handshaken
  <2>2. CASE Read
    BY <2>2 DEF Read
  <2>3. CASE ShutdownCloses  BY <2>3 DEF ShutdownCloses
  <2>4. CASE ReaderEnds  BY <2>4 DEF ReaderEnds
  <2>5. CASE ReaderReleases  BY <2>5 DEF ReaderReleases
  <2>6. CASE ReapStop  BY <2>6 DEF ReapStop
  <2>7. CASE ReapKills  BY <2>7 DEF ReapKills
  <2>8. CASE Reaped  BY <2>8 DEF Reaped
  <2> QED BY <1>8, <2>1, <2>2, <2>3, <2>4, <2>5, <2>6, <2>7, <2>8 DEF TaskStep
<1>9. CASE AgentStep
  <2>1. CASE AgentWorks
    BY <2>1 DEF AgentWorks, Writes
  <2>2. CASE AgentDeafens \/ AgentHangsUp \/ AgentExits
    BY <2>2 DEF AgentDeafens, AgentHangsUp, AgentExits
  <2>3. ASSUME NEW r \in Requests, AgentReplies(r) PROVE Flags'
    BY <2>3 DEF AgentReplies, Writes
  <2> QED BY <1>9, <2>1, <2>2, <2>3 DEF AgentStep
<1>10. CASE UNCHANGED vars
  BY <1>10 DEF vars
<1> QED
  BY <1>1, <1>2, <1>3, <1>4, <1>5, <1>6, <1>7, <1>8, <1>9, <1>10 DEF Next

LEMMA StepShapes == Shapes /\ [Next]_vars => Shapes'
<1> SUFFICES ASSUME Shapes, [Next]_vars PROVE Shapes'
  OBVIOUS
<1> USE Kinds DEF Shapes, ThreadStates, Terminal
<1>1. CASE Launch
  BY <1>1 DEF Launch, Register
<1>2. ASSUME NEW r \in Requests, RequestStep(r) PROVE Shapes'
  <2>1. CASE Check(r)  BY <2>1 DEF Check
  <2>2. CASE BeginWrite(r)  BY <2>2 DEF BeginWrite
  <2>3. CASE EndWrite(r)  BY <2>3, SMTT(60) DEF EndWrite
  <2>4. CASE Awake(r)  BY <2>4 DEF Awake
  <2> QED BY <1>2, <2>1, <2>2, <2>3, <2>4 DEF RequestStep
<1>3. ASSUME NEW r \in Requests, Timeout(r) PROVE Shapes'
  BY <1>3 DEF Timeout
<1>4. ASSUME NEW h \in Handshake, LaunchFails(h) PROVE Shapes'
  BY <1>4 DEF LaunchFails
<1>5. ASSUME NEW p \in Prompts, SendInput(p) \/ PromptTask(p) \/ TurnReturns(p) \/ TurnEnded(p)
      PROVE Shapes'
  <2>1. CASE SendInput(p)  BY <2>1 DEF SendInput, UserMay
  <2>2. CASE PromptTask(p)  BY <2>2 DEF PromptTask, Register
  <2>3. CASE TurnReturns(p)  BY <2>3 DEF TurnReturns
  <2>4. CASE TurnEnded(p)  BY <2>4 DEF TurnEnded
  <2> QED BY <1>5, <2>1, <2>2, <2>3, <2>4
<1>6. ASSUME NEW m \in ModeSets, SetMode(m) PROVE Shapes'
  BY <1>6 DEF SetMode, UserMay, Register
<1>7. CASE ShutdownBegins
  BY <1>7 DEF ShutdownBegins
<1>8. CASE TaskStep
  <2>1. CASE Handshaken  BY <2>1, SMTT(30) DEF Handshaken
  <2>2. CASE Read
    <3>1. Head(stdout) \in Lines /\ Tail(stdout) \in Seq(Lines)
          /\ Len(Tail(stdout)) = Len(stdout) - 1
      BY <2>2, HeadTailProperties DEF Read
    <3>2. Head(stdout)[1] # "tool" => Head(stdout)[1] \in {"ok", "error"}
      BY <3>1 DEF Lines
    <3>3. Len(stdout) \in Nat /\ PipeBound \in Nat
      BY <2>2, PipeBounded DEF Read
    <3>4. stdout' \in Seq(Lines) /\ Len(stdout') <= PipeBound
      BY <2>2, <3>1, <3>3 DEF Read
    <3> QED BY <2>2, <3>2, <3>4 DEF Read
  <2>3. CASE ShutdownCloses  BY <2>3 DEF ShutdownCloses
  <2>4. CASE ReaderEnds  BY <2>4 DEF ReaderEnds
  <2>5. CASE ReaderReleases  BY <2>5 DEF ReaderReleases
  <2>6. CASE ReapStop  BY <2>6 DEF ReapStop
  <2>7. CASE ReapKills  BY <2>7 DEF ReapKills
  <2>8. CASE Reaped  BY <2>8 DEF Reaped
  <2> QED BY <1>8, <2>1, <2>2, <2>3, <2>4, <2>5, <2>6, <2>7, <2>8 DEF TaskStep
<1>9. CASE AgentStep
  <2>1. CASE AgentWorks
    BY <2>1, PipeBounded, AppendProperties DEF AgentWorks, Writes, Lines
  <2>2. CASE AgentDeafens \/ AgentHangsUp \/ AgentExits
    BY <2>2 DEF AgentDeafens, AgentHangsUp, AgentExits
  <2>3. ASSUME NEW r \in Requests, AgentReplies(r) PROVE Shapes'
    BY <2>3, PipeBounded, AppendProperties DEF AgentReplies, Writes, Lines
  <2> QED BY <1>9, <2>1, <2>2, <2>3 DEF AgentStep
<1>10. CASE UNCHANGED vars
  BY <1>10 DEF vars
<1> QED
  BY <1>1, <1>2, <1>3, <1>4, <1>5, <1>6, <1>7, <1>8, <1>9, <1>10 DEF Next

(* The mutex, and the order of the handshake: session/new is not sent before *)
(* initialize has been answered, so its request cannot be mid-write then.     *)
Locked == /\ WriterLocked
          /\ ~At("initialize", "settled") => At("session_new", "idle")

LEMMA StepLocked == Shapes /\ Locked /\ [Next]_vars => Locked'
<1> SUFFICES ASSUME Shapes, Locked, [Next]_vars PROVE Locked'
  OBVIOUS
<1>a. stage \in [Requests -> Stages] /\ writer \in Requests \cup {NoOne}
  BY DEF Shapes
<1> USE <1>a, Kinds DEF Locked, WriterLocked, Handshake
<1>1. CASE Launch
  BY <1>1 DEF Launch, Register
<1>2. ASSUME NEW r \in Requests, RequestStep(r) PROVE Locked'
  <2>1. CASE Check(r)  BY <2>1 DEF Check
  <2>2. CASE BeginWrite(r)  BY <2>2 DEF BeginWrite
  <2>3. CASE EndWrite(r)  BY <2>3 DEF EndWrite
  <2>4. CASE Awake(r)  BY <2>4 DEF Awake
  <2> QED BY <1>2, <2>1, <2>2, <2>3, <2>4 DEF RequestStep
<1>3. ASSUME NEW r \in Requests, Timeout(r) PROVE Locked'
  BY <1>3 DEF Timeout
<1>4. ASSUME NEW h \in Handshake, LaunchFails(h) PROVE Locked'
  BY <1>4 DEF LaunchFails
<1>5. ASSUME NEW p \in Prompts, SendInput(p) \/ PromptTask(p) \/ TurnReturns(p) \/ TurnEnded(p)
      PROVE Locked'
  <2>1. CASE SendInput(p)  BY <2>1 DEF SendInput, UserMay
  <2>2. CASE PromptTask(p)  BY <2>2 DEF PromptTask, Register
  <2>3. CASE TurnReturns(p)  BY <2>3 DEF TurnReturns
  <2>4. CASE TurnEnded(p)  BY <2>4 DEF TurnEnded
  <2> QED BY <1>5, <2>1, <2>2, <2>3, <2>4
<1>6. ASSUME NEW m \in ModeSets, SetMode(m) PROVE Locked'
  BY <1>6 DEF SetMode, UserMay, Register
<1>7. CASE ShutdownBegins
  BY <1>7 DEF ShutdownBegins
<1>8. CASE TaskStep
  <2>1. CASE Handshaken  BY <2>1 DEF Handshaken
  <2>2. CASE Read
    BY <2>2 DEF Read
  <2>3. CASE ShutdownCloses  BY <2>3 DEF ShutdownCloses
  <2>4. CASE ReaderEnds  BY <2>4 DEF ReaderEnds
  <2>5. CASE ReaderReleases  BY <2>5 DEF ReaderReleases
  <2>6. CASE ReapStop  BY <2>6 DEF ReapStop
  <2>7. CASE ReapKills  BY <2>7 DEF ReapKills
  <2>8. CASE Reaped  BY <2>8 DEF Reaped
  <2> QED BY <1>8, <2>1, <2>2, <2>3, <2>4, <2>5, <2>6, <2>7, <2>8 DEF TaskStep
<1>9. CASE AgentStep
  <2>1. CASE AgentWorks
    BY <2>1 DEF AgentWorks, Writes
  <2>2. CASE AgentDeafens \/ AgentHangsUp \/ AgentExits
    BY <2>2 DEF AgentDeafens, AgentHangsUp, AgentExits
  <2>3. ASSUME NEW r \in Requests, AgentReplies(r) PROVE Locked'
    BY <2>3 DEF AgentReplies, Writes
  <2> QED BY <1>9, <2>1, <2>2, <2>3 DEF AgentStep
<1>10. CASE UNCHANGED vars
  BY <1>10 DEF vars
<1> QED
  BY <1>1, <1>2, <1>3, <1>4, <1>5, <1>6, <1>7, <1>8, <1>9, <1>10 DEF Next

LEMMA InitTyped == Init => Flags /\ Shapes /\ Locked
<1> SUFFICES ASSUME Init PROVE Flags /\ Shapes /\ Locked
  OBVIOUS
<1>1. <<>> \in Seq(Lines) /\ Len(<<>>) = 0
  OBVIOUS
<1>2. Shapes
  BY <1>1, Kinds, PipeBounded DEF Init, Shapes, ThreadStates, NoOne
<1>3. Locked
  BY Kinds DEF Init, Locked, WriterLocked
<1>4. Flags
  BY DEF Init, Flags
<1> QED BY <1>2, <1>3, <1>4

(* Every variable keeps its type, and the stdin mutex is held by the one    *)
(* request that is inside write_all, a timeout in the middle of it included. *)
THEOREM Typed == Spec => []TypeOK
<1>1. Flags /\ Shapes /\ Locked => TypeOK
  BY DEF TypeOK, Locked
<1> QED BY <1>1, InitTyped, StepFlags, StepShapes, StepLocked, PTL DEF Spec

LEMMA StepDrained == Shapes /\ WriterLocked /\ Drained /\ [Next]_vars => Drained'
<1> SUFFICES ASSUME Shapes, WriterLocked, Drained, [Next]_vars PROVE Drained'
  OBVIOUS
<1> USE Kinds DEF Drained, Shapes
<1>1. CASE Launch
  BY <1>1 DEF Launch, Register
<1>2. ASSUME NEW r \in Requests, RequestStep(r) PROVE Drained'
  <2>1. CASE Check(r)  BY <2>1 DEF Check
  <2>2. CASE BeginWrite(r)  BY <2>2 DEF BeginWrite
  <2>3. CASE EndWrite(r)  BY <2>3 DEF EndWrite, WriterLocked
  <2>4. CASE Awake(r)  BY <2>4 DEF Awake
  <2> QED BY <1>2, <2>1, <2>2, <2>3, <2>4 DEF RequestStep
<1>3. ASSUME NEW r \in Requests, Timeout(r) PROVE Drained'
  BY <1>3 DEF Timeout
<1>4. ASSUME NEW h \in Handshake, LaunchFails(h) PROVE Drained'
  BY <1>4 DEF LaunchFails
<1>5. ASSUME NEW p \in Prompts, SendInput(p) \/ PromptTask(p) \/ TurnReturns(p) \/ TurnEnded(p)
      PROVE Drained'
  BY <1>5 DEF SendInput, UserMay, PromptTask, Register, TurnReturns, TurnEnded
<1>6. ASSUME NEW m \in ModeSets, SetMode(m) PROVE Drained'
  BY <1>6 DEF SetMode, UserMay, Register
<1>7. CASE ShutdownBegins
  BY <1>7 DEF ShutdownBegins, Open
<1>8. CASE TaskStep
  <2>1. CASE Handshaken  BY <2>1, SMTT(30) DEF Handshaken
  <2>2. CASE Read  BY <2>2 DEF Read
  <2>3. CASE ShutdownCloses \/ ReaderEnds \/ ReaderReleases
    BY <2>3 DEF ShutdownCloses, ReaderEnds, ReaderReleases
  <2>4. CASE ReapStop \/ ReapKills \/ Reaped
    BY <2>4 DEF ReapStop, ReapKills, Reaped
  <2> QED BY <1>8, <2>1, <2>2, <2>3, <2>4 DEF TaskStep
<1>9. CASE AgentStep
  BY <1>9 DEF AgentStep, AgentWorks, AgentReplies, AgentDeafens, AgentHangsUp, AgentExits, Writes
<1>10. CASE UNCHANGED vars
  BY <1>10 DEF vars
<1> QED
  BY <1>1, <1>2, <1>3, <1>4, <1>5, <1>6, <1>7, <1>8, <1>9, <1>10 DEF Next

(* However many requests are under way when the agent's output ends, none is *)
(* left awaiting a waiter nobody will resolve.                               *)
THEOREM NoWaiterIsLost == Spec => []NoLostWaiter
<1>1. Init => Drained
  BY DEF Init, Drained
<1>2. Drained => NoLostWaiter
  BY DEF Drained, NoLostWaiter
<1> QED BY <1>1, <1>2, Typed, StepDrained, PTL DEF Spec, TypeOK

(* turn_active is set for as long as a prompt's task has not returned. *)
TurnHeld == /\ \A p \in Prompts : Asking(p) => turnActive
            /\ OneTurn

LEMMA StepTurn == Shapes /\ WriterLocked /\ TurnHeld /\ [Next]_vars => TurnHeld'
<1> SUFFICES ASSUME Shapes, WriterLocked, TurnHeld, [Next]_vars PROVE TurnHeld'
  OBVIOUS
<1>a. stage \in [Requests -> Stages]
  BY DEF Shapes
<1> USE <1>a, Kinds DEF TurnHeld, OneTurn, Asking
<1>1. CASE Launch
  BY <1>1 DEF Launch, Register
<1>2. ASSUME NEW r \in Requests, RequestStep(r) PROVE TurnHeld'
  <2>1. CASE Check(r)  BY <2>1 DEF Check
  <2>2. CASE BeginWrite(r)  BY <2>2 DEF BeginWrite
  <2>3. CASE EndWrite(r)  BY <2>3 DEF EndWrite, WriterLocked
  <2>4. CASE Awake(r)  BY <2>4 DEF Awake
  <2> QED BY <1>2, <2>1, <2>2, <2>3, <2>4 DEF RequestStep
<1>3. ASSUME NEW r \in Requests, Timeout(r) PROVE TurnHeld'
  BY <1>3 DEF Timeout
<1>4. ASSUME NEW h \in Handshake, LaunchFails(h) PROVE TurnHeld'
  BY <1>4 DEF LaunchFails
<1>5. ASSUME NEW p \in Prompts PROVE /\ SendInput(p) => TurnHeld'
                                     /\ PromptTask(p) => TurnHeld'
                                     /\ TurnReturns(p) => TurnHeld'
                                     /\ TurnEnded(p) => TurnHeld'
  BY <1>5 DEF SendInput, UserMay, PromptTask, Register, TurnReturns, TurnEnded
<1>6. ASSUME NEW m \in ModeSets, SetMode(m) PROVE TurnHeld'
  BY <1>6 DEF SetMode, UserMay, Register
<1>7. CASE ShutdownBegins
  BY <1>7 DEF ShutdownBegins, Open
<1>8. CASE TaskStep
  BY <1>8 DEF TaskStep, Handshaken, Read, ShutdownCloses, ReaderEnds, ReaderReleases,
             ReapStop, ReapKills, Reaped
<1>9. CASE AgentStep
  BY <1>9 DEF AgentStep, AgentWorks, AgentReplies, AgentDeafens, AgentHangsUp, AgentExits, Writes
<1>10. CASE UNCHANGED vars
  BY <1>10 DEF vars
<1> QED
  BY <1>1, <1>2, <1>3, <1>4, <1>5, <1>6, <1>7, <1>8, <1>9, <1>10 DEF Next

(* A second prompt never reaches the agent while the first is unanswered. *)
THEOREM OneTurnAtATime == Spec => []OneTurn
<1>1. Init => TurnHeld
  BY Kinds DEF Init, TurnHeld, OneTurn, Asking
<1>2. TurnHeld => OneTurn
  BY DEF TurnHeld
<1> QED BY <1>1, <1>2, Typed, StepTurn, PTL DEF Spec, TypeOK

-----------------------------------------------------------------------------
(* Whose every answer is: nothing is heard of a request before its line is   *)
(* out, a reply on its way is to a request the agent has answered, and an    *)
(* answer came to a caller that was still waiting for it.                    *)
Asked == \A r \in Requests : heard[r] # "no" =>
            stage[r] \notin {"idle", "spawned", "registered", "checked", "writing"}
Answered == \A r \in Requests : answer[r] # "none" =>
               /\ heard[r] = "replied"
               /\ stage[r] \in {"waiting", "answered", "returned", "settled"}
OnTheWay == \A i \in 1..Len(stdout) : stdout[i][1] # "tool" => heard[stdout[i][2]] = "replied"
Owned == Asked /\ Answered /\ OnTheWay

LEMMA StepOwned == Shapes /\ Locked /\ Owned /\ [Next]_vars => Owned'
<1> SUFFICES ASSUME Shapes, Locked, Owned, [Next]_vars PROVE Owned'
  OBVIOUS
<1>a. /\ stage \in [Requests -> Stages] /\ heard \in [Requests -> {"no", "asked", "replied"}]
      /\ answer \in [Requests -> {"none", "ok", "error"}]
  BY DEF Shapes
<1>b. stdout \in Seq(Lines)
  BY DEF Shapes
<1> USE <1>a, Kinds DEF Owned, Asked, Answered
(* Most steps touch neither the lines on their way nor who has answered.     *)
<1>c. /\ stdout' = stdout /\ heard' = heard => OnTheWay'
  BY DEF OnTheWay
<1>1. CASE Launch
  BY <1>1, <1>c DEF Launch, Register
<1>2. ASSUME NEW r \in Requests, RequestStep(r) PROVE Owned'
  <2>1. CASE Check(r)  BY <2>1, <1>c DEF Check
  <2>2. CASE BeginWrite(r)  BY <2>2, <1>c DEF BeginWrite
  <2>3. CASE EndWrite(r)
    <3>1. At(r, "writing") /\ heard[r] = "no"
      BY <2>3 DEF EndWrite, Locked, WriterLocked
    <3>2. \A q \in Requests : heard[q] = "replied" => heard'[q] = "replied"
      BY <2>3, <3>1 DEF EndWrite
    <3>3. \A i \in 1..Len(stdout) : stdout[i] \in Lines
      BY <1>b
    <3>4. \A i \in 1..Len(stdout) : stdout[i][1] # "tool" => stdout[i][2] \in Requests
      BY <3>3 DEF Lines
    <3>5. OnTheWay'
      BY <2>3, <3>2, <3>4 DEF OnTheWay, EndWrite
    <3>6. Asked' /\ Answered'
      BY <2>3, <3>1 DEF EndWrite
    <3> QED BY <3>5, <3>6
  <2>4. CASE Awake(r)  BY <2>4, <1>c DEF Awake
  <2> QED BY <1>2, <2>1, <2>2, <2>3, <2>4 DEF RequestStep
<1>3. ASSUME NEW r \in Requests, Timeout(r) PROVE Owned'
  BY <1>3, <1>c DEF Timeout
<1>4. ASSUME NEW h \in Handshake, LaunchFails(h) PROVE Owned'
  BY <1>4, <1>c DEF LaunchFails
<1>5. ASSUME NEW p \in Prompts PROVE /\ SendInput(p) => Owned'
                                     /\ PromptTask(p) => Owned'
                                     /\ TurnReturns(p) => Owned'
                                     /\ TurnEnded(p) => Owned'
  BY <1>5, <1>c DEF SendInput, UserMay, PromptTask, Register, TurnReturns, TurnEnded
<1>6. ASSUME NEW m \in ModeSets, SetMode(m) PROVE Owned'
  BY <1>6, <1>c DEF SetMode, UserMay, Register
<1>7. CASE ShutdownBegins
  BY <1>7, <1>c DEF ShutdownBegins, Open
<1>8. CASE TaskStep
  <2>1. CASE Handshaken
    BY <2>1, <1>c DEF Handshaken, Locked
  <2>2. CASE Read
    <3>1. /\ stdout # <<>> /\ stdout' = Tail(stdout) /\ heard' = heard /\ stage' = stage
      BY <2>2 DEF Read
    <3>2. /\ Len(stdout') = Len(stdout) - 1 /\ Len(stdout) \in Nat
          /\ \A i \in 1..Len(stdout') : stdout'[i] = stdout[i + 1]
          /\ Head(stdout) = stdout[1] /\ Len(stdout) >= 1
      BY <1>b, <3>1
    <3>3. OnTheWay'
      BY <3>1, <3>2 DEF OnTheWay
    <3>4. Head(stdout)[1] # "tool" => heard[Head(stdout)[2]] = "replied"
      BY <3>2 DEF OnTheWay
    <3>5. Answered'
      BY <2>2, <3>4 DEF Read
    <3> QED BY <3>1, <3>3, <3>5
  <2>3. CASE ShutdownCloses \/ ReaderEnds \/ ReaderReleases
    BY <2>3, <1>c DEF ShutdownCloses, ReaderEnds, ReaderReleases
  <2>4. CASE ReapStop \/ ReapKills \/ Reaped
    BY <2>4, <1>c DEF ReapStop, ReapKills, Reaped
  <2> QED BY <1>8, <2>1, <2>2, <2>3, <2>4 DEF TaskStep
<1>9. CASE AgentStep
  <2>1. CASE AgentWorks
    <3>1. /\ stdout' = Append(stdout, <<"tool", NoOne>>) /\ heard' = heard
          /\ stage' = stage /\ answer' = answer
      BY <2>1 DEF AgentWorks, Writes
    <3>2. OnTheWay'
      BY <1>b, <3>1 DEF OnTheWay
    <3> QED BY <3>1, <3>2
  <2>2. CASE AgentDeafens \/ AgentHangsUp \/ AgentExits
    BY <2>2, <1>c DEF AgentDeafens, AgentHangsUp, AgentExits
  <2>3. ASSUME NEW r \in Requests, AgentReplies(r) PROVE Owned'
    <3>1. PICK kind \in {"ok", "error"} : stdout' = Append(stdout, <<kind, r>>)
      BY <2>3 DEF AgentReplies, Writes
    <3>2. /\ heard' = [heard EXCEPT ![r] = "replied"] /\ heard[r] = "asked"
          /\ stage' = stage /\ answer' = answer
      BY <2>3 DEF AgentReplies, Writes
    <3>3. /\ Len(stdout') = Len(stdout) + 1 /\ Len(stdout) \in Nat
          /\ stdout'[Len(stdout) + 1] = <<kind, r>>
          /\ \A i \in 1..Len(stdout) : stdout'[i] = stdout[i] /\ stdout[i] \in Lines
      BY <1>b, <3>1
    <3>4. \A i \in 1..Len(stdout) : stdout[i][1] # "tool" => stdout[i][2] \in Requests
      BY <3>3 DEF Lines
    <3>5. OnTheWay'
      <4> SUFFICES ASSUME NEW i \in 1..Len(stdout'), stdout'[i][1] # "tool"
                   PROVE  heard'[stdout'[i][2]] = "replied"
        BY DEF OnTheWay
      <4>1. CASE i = Len(stdout) + 1
        BY <4>1, <3>2, <3>3
      <4>2. CASE i \in 1..Len(stdout)
        BY <4>2, <3>2, <3>3, <3>4 DEF OnTheWay
      <4> QED BY <4>1, <4>2, <3>3
    <3>6. Asked' /\ Answered'
      BY <3>2
    <3> QED BY <3>5, <3>6
  <2> QED BY <1>9, <2>1, <2>2, <2>3 DEF AgentStep
<1>10. CASE UNCHANGED vars
  BY <1>10, <1>c DEF vars
<1> QED
  BY <1>1, <1>2, <1>3, <1>4, <1>5, <1>6, <1>7, <1>8, <1>9, <1>10 DEF Next

(* The abstract state, as the steps are told apart by it.                    *)
LinkKept == Down' <=> Down
RepliesKept == \A r \in Requests : (heard'[r] = "replied") <=> (heard[r] = "replied")
OthersKept(r) == \A q \in Requests \ {r} : CallOf(q)' = CallOf(q)

(* What a step does to the session is a step of the calls, or nothing there. *)
LEMMA Stutters ==
    LinkKept /\ RepliesKept /\ (\A r \in Requests : CallOf(r)' = CallOf(r))
        => UNCHANGED Rpc!vars
  BY DEF LinkKept, RepliesKept, Rpc!vars

LEMMA CallMoves ==
    ASSUME NEW r \in Requests, LinkKept, RepliesKept, OthersKept(r),
           \/ CallOf(r)' = CallOf(r)
           \/ CallOf(r) = "idle" /\ CallOf(r)' = "open"
           \/ CallOf(r) = "open" /\ CallOf(r)' = "failed"
           \/ CallOf(r) = "open" /\ CallOf(r)' = "answered" /\ heard[r] = "replied"
    PROVE  [Rpc!Next]_(Rpc!vars)
<1> DEFINE call == [q \in Requests |-> CallOf(q)]
<1>1. CASE CallOf(r)' = CallOf(r)
  BY <1>1, Stutters DEF OthersKept
<1>2. call' = [call EXCEPT ![r] = CallOf(r)'] /\ call[r] = CallOf(r)
  BY DEF OthersKept
<1>3. /\ (IF Down THEN "down" ELSE "up")' = IF Down THEN "down" ELSE "up"
      /\ {q \in Requests : heard[q] = "replied"}' = {q \in Requests : heard[q] = "replied"}
  BY DEF LinkKept, RepliesKept
<1>4. CASE CallOf(r) = "idle" /\ CallOf(r)' = "open"
  BY <1>2, <1>3, <1>4 DEF Rpc!Next, Rpc!Begin
<1>5. CASE CallOf(r) = "open" /\ CallOf(r)' = "failed"
  BY <1>2, <1>3, <1>5 DEF Rpc!Next, Rpc!Fail
<1>6. CASE CallOf(r) = "open" /\ CallOf(r)' = "answered" /\ heard[r] = "replied"
  BY <1>2, <1>3, <1>6 DEF Rpc!Next, Rpc!Answer
<1> QED BY <1>1, <1>4, <1>5, <1>6

(* Each action moves at most one call, and only as the calls may move.       *)
LEMMA StepRpc == Shapes /\ Locked /\ Owned /\ [Next]_vars => [Rpc!Next]_(Rpc!vars)
<1> SUFFICES ASSUME Shapes, Locked, Owned, [Next]_vars PROVE [Rpc!Next]_(Rpc!vars)
  OBVIOUS
<1> DEFINE Goal == [Rpc!Next]_(Rpc!vars)
<1>a. /\ stage \in [Requests -> Stages] /\ heard \in [Requests -> {"no", "asked", "replied"}]
      /\ answer \in [Requests -> {"none", "ok", "error"}]
  BY DEF Shapes
<1>b. \A q \in Requests : stage'[q] = stage[q] /\ answer'[q] = answer[q] => CallOf(q)' = CallOf(q)
  BY DEF CallOf
<1>c. ASSUME NEW r \in Requests, stage' = [stage EXCEPT ![r] = stage'[r]], answer' = answer
      PROVE  OthersKept(r)
  BY <1>a, <1>b, <1>c DEF OthersKept
<1>d. /\ UNCHANGED <<agent, out>> => LinkKept
      /\ heard' = heard => RepliesKept
      /\ stage' = stage /\ answer' = answer => \A r \in Requests : CallOf(r)' = CallOf(r)
  BY <1>b DEF LinkKept, Down, RepliesKept
<1> USE <1>a, Kinds
(* What one request's step does to its own call.                             *)
<1>e. ASSUME NEW r \in Requests, NEW s \in Stages, Move(r, s), answer' = answer,
             LinkKept, RepliesKept,
             \/ stage[r] \in {"idle", "spawned"} /\ s \in {"idle", "spawned", "registered"}
             \/ stage[r] \in {"registered", "checked", "writing", "waiting"}
                /\ s \in {"registered", "checked", "writing", "waiting", "refused", "ended", "timedOut"}
             \/ stage[r] = "waiting" /\ s = "answered" /\ answer[r] # "none"
             \/ stage[r] \in {"refused", "ended", "timedOut", "answered", "returned", "settled"}
                /\ s \in {"returned", "settled"}
      PROVE  Goal
  <2>1. stage' = [stage EXCEPT ![r] = stage'[r]] /\ stage'[r] = s
    BY <1>e
  <2>2. OthersKept(r)
    BY <1>c, <1>e, <2>1
  <2>3. answer[r] # "none" => heard[r] = "replied" /\ stage[r] \in {"waiting", "answered", "returned", "settled"}
    BY DEF Owned, Answered
  <2>4. \/ CallOf(r)' = CallOf(r)
        \/ CallOf(r) = "idle" /\ CallOf(r)' = "open"
        \/ CallOf(r) = "open" /\ CallOf(r)' = "failed"
        \/ CallOf(r) = "open" /\ CallOf(r)' = "answered" /\ heard[r] = "replied"
    BY <1>e, <2>1, <2>3 DEF CallOf
  <2> QED BY <1>e, <2>2, <2>4, CallMoves
(* A step that moves no request and reaches no agent.                        *)
<1>f. stage' = stage /\ answer' = answer /\ LinkKept /\ RepliesKept => Goal
  BY <1>d, Stutters
(* The agent's death or the end of its pipe: the link may go down.           *)
<1>g. ASSUME UNCHANGED <<stage, answer, heard>>, Down => Down' PROVE Goal
  <2>1. \A q \in Requests : CallOf(q)' = CallOf(q)
    BY <1>d, <1>g
  <2>2. CASE Down' /\ ~Down
    <3>1. [q \in Requests |-> CallOf(q)]' = [q \in Requests |-> CallOf(q)]
      BY <2>1
    <3> QED BY <1>g, <2>2, <3>1 DEF Rpc!Next, Rpc!Drop
  <2>3. CASE ~(Down' /\ ~Down)
    <3>1. LinkKept
      BY <1>g, <2>3 DEF LinkKept
    <3> QED BY <1>d, <1>f, <1>g, <3>1
  <2> QED BY <2>2, <2>3
<1>1. CASE Launch
  BY <1>1, <1>d, <1>e DEF Launch, Register
<1>2. ASSUME NEW r \in Requests, RequestStep(r) PROVE Goal
  <2>1. CASE Check(r)
    BY <2>1, <1>d, <1>e DEF Check
  <2>2. CASE BeginWrite(r)
    BY <2>2, <1>d, <1>e DEF BeginWrite
  <2>3. CASE EndWrite(r)
    <3>1. At(r, "writing") /\ heard[r] = "no"
      BY <2>3 DEF EndWrite, Locked, WriterLocked, Owned, Asked
    <3>2. RepliesKept /\ LinkKept
      BY <2>3, <3>1 DEF EndWrite, RepliesKept, LinkKept, Down
    <3> QED BY <2>3, <3>1, <3>2, <1>e DEF EndWrite
  <2>4. CASE Awake(r)
    BY <2>4, <1>d, <1>e DEF Awake
  <2> QED BY <1>2, <2>1, <2>2, <2>3, <2>4 DEF RequestStep
<1>3. ASSUME NEW r \in Requests, Timeout(r) PROVE Goal
  BY <1>3, <1>d, <1>e DEF Timeout
<1>4. ASSUME NEW h \in Handshake, LaunchFails(h) PROVE Goal
  BY <1>4, <1>d, <1>e DEF LaunchFails
<1>5. ASSUME NEW p \in Prompts PROVE /\ SendInput(p) => Goal
                                     /\ PromptTask(p) => Goal
                                     /\ TurnReturns(p) => Goal
                                     /\ TurnEnded(p) => Goal
  BY <1>5, <1>d, <1>e DEF SendInput, UserMay, PromptTask, Register, TurnReturns, TurnEnded
<1>6. ASSUME NEW m \in ModeSets, SetMode(m) PROVE Goal
  BY <1>6, <1>d, <1>e DEF SetMode, UserMay, Register
<1>7. CASE ShutdownBegins
  BY <1>7, <1>d, <1>f DEF ShutdownBegins
<1>8. CASE TaskStep
  <2>1. CASE Handshaken
    <3>1. CASE At("session_new", "answered") /\ Move("session_new", "settled")
      BY <2>1, <3>1, <1>d, <1>e DEF Handshaken
    (* One call's answer is consumed and the next call begun, in one step.   *)
    <3>2. CASE /\ At("initialize", "answered") /\ answer["initialize"] = "ok"
               /\ stage' = [stage EXCEPT !["initialize"] = "settled", !["session_new"] = "registered"]
      <4>1. At("session_new", "idle") /\ answer' = answer /\ LinkKept /\ RepliesKept
        BY <2>1, <3>2, <1>d DEF Handshaken, Locked
      <4>2. \A q \in Requests \ {"initialize", "session_new"} : CallOf(q)' = CallOf(q)
        BY <1>b, <3>2, <4>1
      <4>3. CallOf("initialize")' = CallOf("initialize")
        BY <3>2, <4>1 DEF CallOf
      <4>4. OthersKept("session_new")
        BY <4>2, <4>3 DEF OthersKept
      <4>5. CallOf("session_new") = "idle" /\ CallOf("session_new")' = "open"
        BY <3>2, <4>1 DEF CallOf
      <4> QED BY <4>1, <4>4, <4>5, CallMoves
    <3> QED BY <2>1, <3>1, <3>2 DEF Handshaken
  <2>2. CASE Read
    <3>1. stage' = stage /\ LinkKept /\ RepliesKept
      BY <2>2, <1>d DEF Read
    <3>2. \A q \in Requests : answer'[q] = answer[q] \/ At(q, "waiting")
      BY <2>2 DEF Read
    <3>3. \A q \in Requests : CallOf(q)' = CallOf(q)
      BY <3>1, <3>2 DEF CallOf
    <3> QED BY <3>1, <3>3, Stutters
  <2>3. CASE ShutdownCloses \/ ReaderEnds \/ ReaderReleases \/ ReapStop \/ Reaped
    BY <2>3, <1>d, <1>f DEF ShutdownCloses, ReaderEnds, ReaderReleases, ReapStop, Reaped
  <2>4. CASE ReapKills
    BY <2>4, <1>g DEF ReapKills, Down
  <2> QED BY <1>8, <2>1, <2>2, <2>3, <2>4 DEF TaskStep
<1>9. CASE AgentStep
  <2>1. CASE AgentWorks \/ AgentDeafens
    BY <2>1, <1>d, <1>f DEF AgentWorks, AgentDeafens, Writes, LinkKept, Down
  <2>2. CASE AgentHangsUp \/ AgentExits
    BY <2>2, <1>g DEF AgentHangsUp, AgentExits, Down
  <2>3. ASSUME NEW r \in Requests, AgentReplies(r) PROVE Goal
    <3>1. /\ agent # "gone" /\ UNCHANGED <<agent, out>> /\ heard[r] = "asked"
          /\ heard' = [heard EXCEPT ![r] = "replied"] /\ stage' = stage /\ answer' = answer
      BY <2>3 DEF AgentReplies, Writes
    <3>2. CallOf(r) # "idle"
      BY <3>1 DEF Owned, Asked, CallOf
    <3>3. {q \in Requests : heard[q] = "replied"}' = {q \in Requests : heard[q] = "replied"} \cup {r}
      BY <3>1
    <3>4. [q \in Requests |-> CallOf(q)]' = [q \in Requests |-> CallOf(q)]
      BY <3>1, <1>d
    <3> QED BY <3>1, <3>2, <3>3, <3>4 DEF Rpc!Next, Rpc!Reply, Down
  <2> QED BY <1>9, <2>1, <2>2, <2>3 DEF AgentStep
<1>10. CASE UNCHANGED vars
  BY <1>10, <1>d, <1>f DEF vars
<1> QED
  BY <1>1, <1>2, <1>3, <1>4, <1>5, <1>6, <1>7, <1>8, <1>9, <1>10 DEF Next

(* Every request ends at most once, by the agent's answer to that request or *)
(* by an error, and only an agent that is alive answers: every step of a     *)
(* session is one that RpcCalls allows (request, write and the reader of     *)
(* acp/mod.rs, timeouts and the agent's death among them).                   *)
THEOREM CallsAnswered == Spec => Rpc!Safety
<1>1. Init => Owned
  BY Kinds DEF Init, Owned, Asked, Answered, OnTheWay
<1>2. Init => Rpc!Init
  BY Kinds DEF Init, Rpc!Init, CallOf, Down
<1>3. Spec => [](Shapes /\ Locked /\ Owned)
  <2>1. Init => Shapes /\ Locked
    BY InitTyped
  <2> QED BY <1>1, <2>1, StepShapes, StepLocked, StepOwned, PTL DEF Spec
<1> QED BY <1>2, <1>3, StepRpc, PTL DEF Spec, Rpc!Safety
=============================================================================
