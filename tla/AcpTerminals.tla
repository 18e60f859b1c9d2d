---------------------------- MODULE AcpTerminals ----------------------------
(***************************************************************************)
(* The commands Tervin runs for an ACP agent (acp/mod.rs, terminals): each *)
(* terminal/* request is handled by a task of its own, each command is     *)
(* waited for by another, and the Thread's events they emit become Blocks. *)
(* A command is named by its terminal; all belong to one Thread.           *)
(***************************************************************************)
EXTENDS AgentBlocks, FiniteSets

CONSTANTS
    Waited,      \* the commands the agent may ask to wait for
    ExitCodes    \* the codes commands exit with, of "0" and "1"

ASSUME TerminalsAssumption == Waited \subseteq Commands /\ ExitCodes \subseteq {"0", "1"}

VARIABLES
    create,     \* terminal/create: how far its handler is
    process,    \* the child: "none", "running", "exited" or "killed"
    killSent,   \* Terminal.kill has been taken and sent
    listed,     \* Shared.terminals
    waiter,     \* the task that waits for the child
    exit,       \* the watch channel: "none" or the exit it carries
    wait,       \* terminal/wait_for_exit: how far its handler is
    seen,       \* the value of exit the handler's receiver has seen
    closing,    \* shutdown: "no", "killing", "cleared"
    ended       \* the Thread's ending has been emitted

taskVars == <<create, process, killSent, listed, waiter, exit, wait, seen, closing, ended>>
vars == <<taskVars, blockVars>>

Thread == "thread"
Creating == {"idle", "deciding", "refused", "spawned", "listed", "replied"}
Waiting == {"none", "looking", "sleeping", "answered"}
NotYet == "none"

Init == /\ create = [c \in Commands |-> "idle"]
        /\ process = [c \in Commands |-> "none"]
        /\ killSent = [c \in Commands |-> FALSE]
        /\ listed = {}
        /\ waiter = [c \in Commands |-> "none"]
        /\ exit = [c \in Commands |-> NotYet]
        /\ wait = [c \in Commands |-> "none"]
        /\ seen = [c \in Commands |-> NotYet]
        /\ closing = "no" /\ ended = FALSE
        /\ BlocksInit({Thread})

(* Somebody holds the Terminal, and with it the sender of its kill channel. *)
Held(c) == create[c] = "spawned" \/ c \in listed \/ wait[c] \in {"looking", "sleeping"}

(* The kill receiver resolves when the sender was used, or dropped.         *)
KillFires(c) == killSent[c] \/ ~Held(c)

Emit(e) == Bridge(Thread, e)
-----------------------------------------------------------------------------
(* terminal/create. *)

CreateAsked(c) == /\ create[c] = "idle"
                  /\ create' = [create EXCEPT ![c] = "deciding"]
                  /\ UNCHANGED <<process, killSent, listed, waiter, exit, wait, seen, closing, ended, blockVars>>

(* The rules refuse, the command cannot be spawned, or it is, and waited for. *)
Decided(c) ==
    /\ create[c] = "deciding"
    /\ \/ /\ create' = [create EXCEPT ![c] = "refused"]
          /\ UNCHANGED <<process, waiter>>
       \/ /\ create' = [create EXCEPT ![c] = "spawned"]
          /\ process' = [process EXCEPT ![c] = "running"]
          /\ waiter' = [waiter EXCEPT ![c] = "waiting"]
    /\ UNCHANGED <<killSent, listed, exit, wait, seen, closing, ended, blockVars>>

Listed(c) == /\ create[c] = "spawned"
             /\ create' = [create EXCEPT ![c] = "listed"]
             /\ listed' = listed \cup {c}
             /\ UNCHANGED <<process, killSent, waiter, exit, wait, seen, closing, ended, blockVars>>

(* command_started, and then the agent learns the terminal's id. *)
Started(c) == /\ create[c] = "listed"
              /\ create' = [create EXCEPT ![c] = "replied"]
              /\ Emit([kind |-> "started", of |-> c])
              /\ UNCHANGED <<process, killSent, listed, waiter, exit, wait, seen, closing, ended>>

-----------------------------------------------------------------------------
(* The waiter task. *)

(* The child's own end, or a kill that the select saw first. *)
WaiterSees(c) ==
    /\ waiter[c] = "waiting"
    /\ \/ /\ process[c] = "exited"
          /\ \E code \in ExitCodes : exit' = [exit EXCEPT ![c] = code]
          /\ UNCHANGED process
       \/ /\ KillFires(c)
          /\ process' = [process EXCEPT ![c] = IF @ = "running" THEN "killed" ELSE @]
          /\ \E code \in ExitCodes \cup {"-1"} :
                /\ code = "-1" <=> process[c] = "running"
                /\ exit' = [exit EXCEPT ![c] = code]
    /\ waiter' = [waiter EXCEPT ![c] = "told"]
    /\ UNCHANGED <<create, killSent, listed, wait, seen, closing, ended, blockVars>>

(* Mutant: the end is reported from terminal/wait_for_exit. *)
WaiterReportsIfAsked(c) ==
    /\ waiter[c] = "told" /\ wait[c] = "answered"
    /\ Emit([kind |-> "completed", of |-> c, code |-> exit[c], reported |-> TRUE])
    /\ waiter' = [waiter EXCEPT ![c] = "done"]
    /\ UNCHANGED <<create, process, killSent, listed, exit, wait, seen, closing, ended>>

(* command_finished: what was printed, if anything was, and then the end. *)
WaiterReports(c) ==
    \/ /\ waiter[c] = "told"
       /\ \/ Emit([kind |-> "output", of |-> c])
          \/ UNCHANGED blockVars
       /\ waiter' = [waiter EXCEPT ![c] = "shown"]
       /\ UNCHANGED <<create, process, killSent, listed, exit, wait, seen, closing, ended>>
    \/ /\ waiter[c] = "shown"
       /\ Emit([kind |-> "completed", of |-> c, code |-> exit[c], reported |-> TRUE])
       /\ waiter' = [waiter EXCEPT ![c] = "done"]
       /\ UNCHANGED <<create, process, killSent, listed, exit, wait, seen, closing, ended>>

CommandExits(c) == /\ process[c] = "running"
                   /\ process' = [process EXCEPT ![c] = "exited"]
                   /\ UNCHANGED <<create, killSent, listed, waiter, exit, wait, seen, closing, ended, blockVars>>

-----------------------------------------------------------------------------
(* terminal/wait_for_exit, one per terminal. *)

(* Mutant: the receiver waits for a change before it looks. *)
WaitAskedLate(c) == /\ create[c] = "replied" /\ c \in listed \cap Waited /\ wait[c] = "none"
                    /\ wait' = [wait EXCEPT ![c] = "sleeping"]
                    /\ seen' = [seen EXCEPT ![c] = exit[c]]
                    /\ UNCHANGED <<create, process, killSent, listed, waiter, exit, closing, ended, blockVars>>

WaitAsked(c) == /\ create[c] = "replied" /\ c \in listed \cap Waited /\ wait[c] = "none"
                /\ wait' = [wait EXCEPT ![c] = "looking"]
                /\ UNCHANGED <<create, process, killSent, listed, waiter, exit, seen, closing, ended, blockVars>>

(* borrow_and_update, then changed: woken by a value not seen yet. *)
WaitLooks(c) ==
    /\ \/ wait[c] = "looking"
       \/ wait[c] = "sleeping" /\ exit[c] # seen[c]
    /\ wait' = [wait EXCEPT ![c] = IF exit[c] = NotYet THEN "sleeping" ELSE "answered"]
    /\ seen' = [seen EXCEPT ![c] = exit[c]]
    /\ UNCHANGED <<create, process, killSent, listed, waiter, exit, closing, ended, blockVars>>

(* terminal/kill. *)
Kill(c) == /\ create[c] = "replied" /\ c \in listed
           /\ killSent' = [killSent EXCEPT ![c] = TRUE]
           /\ UNCHANGED <<create, process, listed, waiter, exit, wait, seen, closing, ended, blockVars>>

(* Mutant: the entry is dropped, and with it, it is hoped, the command. *)
ReleaseDrops(c) == /\ create[c] = "replied" /\ c \in listed
                   /\ listed' = listed \ {c}
                   /\ UNCHANGED <<create, process, killSent, waiter, exit, wait, seen, closing, ended, blockVars>>

(* terminal/release, which also kills. *)
Release(c) == /\ create[c] = "replied" /\ c \in listed
              /\ killSent' = [killSent EXCEPT ![c] = TRUE]
              /\ listed' = listed \ {c}
              /\ UNCHANGED <<create, process, waiter, exit, wait, seen, closing, ended, blockVars>>

-----------------------------------------------------------------------------
(* shutdown kills what is listed, and then empties the map. *)

ShutdownKills == /\ closing = "no"
                 /\ closing' = "killing"
                 /\ killSent' = [c \in Commands |-> killSent[c] \/ c \in listed]
                 /\ UNCHANGED <<create, process, listed, waiter, exit, wait, seen, ended, blockVars>>

ShutdownClears == /\ closing = "killing"
                  /\ closing' = "cleared"
                  /\ listed' = {}
                  /\ UNCHANGED <<create, process, killSent, waiter, exit, wait, seen, ended, blockVars>>

(* A turn ends, or the agent is gone: the Thread's state is a terminal one. *)
ThreadEnds == /\ ~ended
              /\ ended' = TRUE
              /\ Emit([kind |-> "ended"])
              /\ UNCHANGED <<create, process, killSent, listed, waiter, exit, wait, seen, closing>>

Next == \/ \E c \in Commands : \/ CreateAsked(c) \/ Decided(c) \/ Listed(c) \/ Started(c)
                               \/ WaiterSees(c) \/ WaiterReports(c) \/ CommandExits(c)
                               \/ WaitAsked(c) \/ WaitLooks(c) \/ Kill(c) \/ Release(c)
        \/ ShutdownKills \/ ShutdownClears \/ ThreadEnds

(* Tokio runs every task that can move; commands and agents owe nothing. *)
Fairness == /\ \A c \in Commands : /\ WF_vars(Decided(c) \/ Listed(c) \/ Started(c))
                                   /\ WF_vars(WaiterSees(c) \/ WaiterReports(c))
                                   /\ WF_vars(WaitLooks(c))
            /\ WF_vars(ShutdownClears)

Spec == Init /\ [][Next]_vars /\ Fairness

-----------------------------------------------------------------------------
Over(c) == process[c] \in {"exited", "killed"}

(* Every variable in its type, and a command is told of exactly when over. *)
TypeOK == /\ create \in [Commands -> Creating]
          /\ process \in [Commands -> {"none", "running", "exited", "killed"}]
          /\ killSent \in [Commands -> BOOLEAN] /\ listed \in SUBSET Commands
          /\ waiter \in [Commands -> {"none", "waiting", "told", "shown", "done"}]
          /\ exit \in [Commands -> {NotYet, "0", "1", "-1"}]
          /\ wait \in [Commands -> Waiting] /\ seen \in [Commands -> {NotYet, "0", "1", "-1"}]
          /\ closing \in {"no", "killing", "cleared"} /\ ended \in BOOLEAN
          /\ BlocksTypeOK({Thread})
          /\ \A c \in Commands : exit[c] # NotYet => Over(c)

(* A wait for a command's exit is answered once the command is over, whether *)
(* it was over before, and whether the terminal is released meanwhile.       *)
WaitAnswered == \A c \in Commands :
    (Over(c) /\ wait[c] \in {"looking", "sleeping"}) ~> wait[c] = "answered"

(* "leaving a process running after the agent has stopped reading it would   *)
(* orphan it": a released command dies, though somebody still waits for it,  *)
(* and so does one the agent or the session's end had killed.                *)
ReleasedDies == \A c \in Commands :
    (killSent[c] \/ (create[c] = "replied" /\ c \notin listed /\ closing = "no"))
        ~> (process[c] # "running")

(* "An agent is not obliged to wait for something it started": every command *)
(* that is over is reported as over.                                         *)
EndReported == \A c \in Commands : Over(c) ~> waiter[c] = "done"

(* "a session ending must not leave orphaned commands running". *)
NoOrphans == closing = "cleared" ~> \A c \in Commands : process[c] # "running"

(* "A Block claiming exit 1 that no runtime ever said would be worse than    *)
(* one that admits it does not know": a Block with a code is of a command    *)
(* that exited by itself.                                                    *)
CodesAreReal == \A i \in DOMAIN blocks[Thread] :
    LET b == blocks[Thread][i] IN b.code # Silent => process[b.command] = "exited"

OwnOutcome == \A i \in DOMAIN blocks[Thread] :
    LET b == blocks[Thread][i] IN b.code \in {Silent, exit[b.command]}
=============================================================================
