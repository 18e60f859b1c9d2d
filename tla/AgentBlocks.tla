----------------------------- MODULE AgentBlocks -----------------------------
(***************************************************************************)
(* Commands an agent ran, as Blocks (tervin-app/src/agent_blocks.rs): the  *)
(* bridge that turns a Thread's command events into Blocks, one in flight  *)
(* per Thread, and the rows it persists.  It is fed by whoever drains a    *)
(* Thread's events: PaneAgents and AcpTerminals compose with it.           *)
(***************************************************************************)
EXTENDS Naturals, Sequences

CONSTANTS
    Commands,   \* what an agent may run, each at most once
    MaxOutput   \* excerpts one Block keeps (64 KB of them in the code)

NoCommand == "nothing"

ASSUME BlocksAssumption == NoCommand \notin Commands /\ MaxOutput \in Nat

VARIABLES
    flight,    \* AgentBlocks.open: a Thread to the command in flight, or none
    blocks,    \* the finished Blocks of each Thread, oldest first
    begun      \* how many CommandStarted each Thread has had observed

blockVars == <<flight, blocks, begun>>

Statuses == {"Succeeded", "Failed", "Interrupted", "Unknown"}
Codes == {"0", "1", "130", "-1"}
Silent == "unreported"

(* The payloads the bridge recognises; an output or a completion does not     *)
(* say in a way the bridge reads which command it belongs to, "of" does.      *)
Payloads ==
    [kind : {"started", "output"}, of : Commands] \cup
    [kind : {"completed"}, of : Commands, code : Codes, reported : BOOLEAN] \cup
    [kind : {"ended"}]

Idle == [command |-> NoCommand, output |-> <<>>]

BlocksInit(threads) == /\ flight = [t \in threads |-> Idle]
                       /\ blocks = [t \in threads |-> <<>>]
                       /\ begun = [t \in threads |-> 0]

(* The row a flight ends as. *)
Finished(f, code, status) ==
    [command |-> f.command, output |-> f.output, code |-> code, status |-> status]

(* finish, for whatever is in flight. *)
Close(t, code, status) ==
    blocks' = IF flight[t] = Idle THEN blocks
              ELSE [blocks EXCEPT ![t] = Append(@, Finished(flight[t], code, status))]

(* Mutant: the stale flight is overwritten instead of closed. *)
CommandStartedOver(t, e) == /\ e.kind = "started"
                            /\ flight' = [flight EXCEPT ![t] = [command |-> e.of, output |-> <<>>]]
                            /\ begun' = [begun EXCEPT ![t] = @ + 1]
                            /\ UNCHANGED blocks

(* A second start closes the first as Unknown: nothing will complete it. *)
CommandStarted(t, e) == /\ e.kind = "started"
                        /\ Close(t, Silent, "Unknown")
                        /\ flight' = [flight EXCEPT ![t] = [command |-> e.of, output |-> <<>>]]
                        /\ begun' = [begun EXCEPT ![t] = @ + 1]

CommandOutput(t, e) ==
    /\ e.kind = "output"
    /\ flight' = IF flight[t] = Idle \/ Len(flight[t].output) >= MaxOutput THEN flight
                 ELSE [flight EXCEPT ![t].output = Append(@, e.of)]
    /\ UNCHANGED <<blocks, begun>>

StatusOf(code) == CASE code = "0" -> "Succeeded" [] code = "130" -> "Interrupted" [] OTHER -> "Failed"

(* The completion ends whatever is in flight.  A code no runtime reported is *)
(* an inference, and only the outcome it implies is kept.                    *)
CommandCompleted(t, e) ==
    /\ e.kind = "completed"
    /\ Close(t, IF e.reported THEN e.code ELSE Silent, StatusOf(e.code))
    /\ flight' = [flight EXCEPT ![t] = Idle]
    /\ UNCHANGED begun

(* The Thread ended mid-command. *)
ThreadEnded(t, e) == /\ e.kind = "ended"
                     /\ Close(t, Silent, "Unknown")
                     /\ flight' = [flight EXCEPT ![t] = Idle]
                     /\ UNCHANGED begun

(* AgentBlocks::observe and what apply persists of it. *)
Bridge(t, e) == CommandStarted(t, e) \/ CommandOutput(t, e) \/ CommandCompleted(t, e)
                  \/ ThreadEnded(t, e)

BlocksTypeOK(threads) ==
    LET Flights == [command : Commands, output : Seq(Commands)]
    IN /\ flight \in [threads -> Flights \cup {Idle}]
       /\ blocks \in [threads -> Seq([command : Commands, output : Seq(Commands),
                                      code : Codes \cup {Silent}, status : Statuses])]
       /\ begun \in [threads -> Nat]
       /\ \A t \in threads : Len(flight[t].output) <= MaxOutput
=============================================================================
