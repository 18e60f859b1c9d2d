------------------------------- MODULE PaneMount -------------------------------
(***************************************************************************)
(* The life of one terminal pane from the UI component that mounts it      *)
(* (TerminalPane.tsx) to the shell process behind it: the asynchronous     *)
(* pty_spawn command, the two tables of the backend (AppState.panes, which *)
(* holds each pane's BlockBuilder, and TerminalRegistry.sessions), the     *)
(* pump thread that ends with the shell, the thread that persists each     *)
(* finished Block, and pty_close when the component unmounts.  The pump's  *)
(* wait() and the close's kill() take the same lock on the child, and the  *)
(* close holds the registry's lock meanwhile.                              *)
(*                                                                         *)
(* A shell is one call of pty_spawn.  `startPty` has two callers, the end  *)
(* of the scrollback restore and the ResizeObserver, and its only guard is *)
(* that no answer has arrived yet, so one mount may call it several times. *)
(***************************************************************************)
EXTENDS Naturals, FiniteSets

CONSTANTS
    Shells,     \* the pty_spawn calls one mount may make: a bound
    NoShell,    \* handles.backendPaneId before the first answer
    MaxBlocks   \* commands run in one shell: a bound

ASSUME ShellAssumption == NoShell \notin Shells
ASSUME BlockAssumption == MaxBlocks \in Nat

VARIABLES
    mounted,    \* ~handles.disposed
    shown,      \* handles.backendPaneId
    exitShown,  \* markPaneExited was called for this pane
    spawning,   \* progress of each pty_spawn call
    panes,      \* AppState.panes: the shells that have a BlockBuilder
    sessions,   \* TerminalRegistry.sessions
    shell,      \* the shell process; "detached": it let go of its terminal
    pumping,    \* the shells whose pump thread drains their output
    waiting,    \* the shells whose pump thread is in wait(), the child locked
    exitMail,   \* pane://exited events on their way to the webview
    begun,      \* number of Blocks started in each shell
    open,       \* Blocks the builders hold open
    writing,    \* finished Blocks whose persisting thread has not run
    announced,  \* Blocks written and announced by block://finished
    closing     \* progress of pty_close for each shell

uiVars     == <<mounted, shown, exitShown>>
tableVars  == <<panes, sessions>>
blockVars  == <<begun, open, writing, announced>>
pumpVars   == <<pumping, waiting, exitMail>>
mountVars  == <<uiVars, spawning, tableVars, shell, pumpVars, blockVars, closing>>

Blocks == Shells \X (1 .. MaxBlocks)

MountTypeOK ==
    /\ mounted \in BOOLEAN
    /\ shown \in Shells \cup {NoShell}
    /\ exitShown \in BOOLEAN
    /\ spawning \in [Shells -> {"idle", "called", "recorded", "spawned",
                                "responded", "answered", "failed"}]
    /\ panes \subseteq Shells
    /\ sessions \subseteq Shells
    /\ shell \in [Shells -> {"none", "running", "detached", "exited"}]
    /\ pumping \subseteq Shells
    /\ waiting \subseteq Shells
    /\ exitMail \subseteq Shells
    /\ begun \in [Shells -> 0 .. MaxBlocks]
    /\ open \subseteq Blocks
    /\ \A b, c \in open : b[1] = c[1] => b = c
    /\ writing \subseteq Blocks
    /\ announced \subseteq Blocks
    /\ closing \in [Shells -> {"no", "asked", "forgotten", "taken", "killing", "killed"}]

MountInit ==
    /\ mounted = TRUE
    /\ shown = NoShell
    /\ exitShown = FALSE
    /\ spawning = [s \in Shells |-> "idle"]
    /\ panes = {} /\ sessions = {}
    /\ shell = [s \in Shells |-> "none"]
    /\ pumping = {} /\ waiting = {} /\ exitMail = {}
    /\ begun = [s \in Shells |-> 0]
    /\ open = {} /\ writing = {} /\ announced = {}
    /\ closing = [s \in Shells |-> "no"]

-----------------------------------------------------------------------------
(* pty_spawn, from the component's call to the answer's arrival.            *)

StartPty(s) ==
    /\ mounted
    /\ shown = NoShell
    /\ spawning[s] = "idle"
    /\ spawning' = [spawning EXCEPT ![s] = "called"]
    /\ UNCHANGED <<uiVars, tableVars, shell, pumpVars, blockVars, closing>>

(* The builder is in the table before the shell can say anything.           *)
RecordPane(s) ==
    /\ spawning[s] = "called"
    /\ spawning' = [spawning EXCEPT ![s] = "recorded"]
    /\ panes' = panes \cup {s}
    /\ UNCHANGED <<uiVars, sessions, shell, pumpVars, blockVars, closing>>

SpawnSession(s) ==
    /\ spawning[s] = "recorded"
    /\ spawning' = [spawning EXCEPT ![s] = "spawned"]
    /\ shell' = [shell EXCEPT ![s] = "running"]
    /\ pumping' = pumping \cup {s}
    /\ UNCHANGED <<uiVars, tableVars, waiting, exitMail, blockVars, closing>>

(* An error returns at once: the entry in `panes` stays.                    *)
SpawnFails(s) ==
    /\ spawning[s] = "recorded"
    /\ spawning' = [spawning EXCEPT ![s] = "failed"]
    /\ UNCHANGED <<uiVars, tableVars, shell, pumpVars, blockVars, closing>>

(* registry.close keeps the table's lock until the kill returns.            *)
RegistryHeld == \E t \in Shells : closing[t] \in {"taken", "killing"}

RegisterSession(s) ==
    /\ spawning[s] = "spawned" /\ ~RegistryHeld
    /\ spawning' = [spawning EXCEPT ![s] = "responded"]
    /\ sessions' = sessions \cup {s}
    /\ UNCHANGED <<uiVars, panes, shell, pumpVars, blockVars, closing>>

(* The `then` of the promise: it does not ask whether the component is      *)
(* still mounted, nor whether another answer came first.                    *)
AnswerArrives(s) ==
    /\ spawning[s] = "responded"
    /\ spawning' = [spawning EXCEPT ![s] = "answered"]
    /\ shown' = s
    /\ UNCHANGED <<mounted, exitShown, tableVars, shell, pumpVars,
                   blockVars, closing>>

-----------------------------------------------------------------------------
(* The pump: chunks reach the builder only while the pane is in the table.  *)
(* It drains what the shell wrote after the shell has exited, too.          *)

OpenIn(s) == {b \in open : b[1] = s}

BlockStarts(s) ==
    /\ s \in pumping /\ s \in panes
    /\ OpenIn(s) = {}
    /\ begun[s] < MaxBlocks
    /\ begun' = [begun EXCEPT ![s] = @ + 1]
    /\ open' = open \cup {<<s, begun[s] + 1>>}
    /\ UNCHANGED <<uiVars, spawning, tableVars, shell, pumpVars, writing, announced, closing>>

BlockEnds(s) ==
    /\ s \in pumping /\ s \in panes
    /\ OpenIn(s) # {}
    /\ open' = open \ OpenIn(s)
    /\ writing' = writing \cup OpenIn(s)
    /\ UNCHANGED <<uiVars, spawning, tableVars, shell, pumpVars, begun, announced, closing>>

ShellLetsGo(s) ==
    /\ shell[s] = "running"
    /\ shell' = [shell EXCEPT ![s] = "detached"]
    /\ UNCHANGED <<uiVars, spawning, tableVars, pumpVars, blockVars, closing>>

ShellExits(s) ==
    /\ shell[s] \in {"running", "detached"}
    /\ shell' = [shell EXCEPT ![s] = "exited"]
    /\ UNCHANGED <<uiVars, spawning, tableVars, pumpVars, blockVars, closing>>

(* The end of the output: the pump locks the child and waits for it, unless *)
(* kill() has the lock.                                                     *)
PumpWaits(s) ==
    /\ s \in pumping
    /\ shell[s] \in {"detached", "exited"} /\ closing[s] # "killing"
    /\ pumping' = pumping \ {s}
    /\ waiting' = waiting \cup {s}
    /\ UNCHANGED <<uiVars, spawning, tableVars, shell, exitMail, blockVars, closing>>

(* Mutant: an Exited arm that drops the builder's session end.              *)
PumpEndsUnfinished(s) ==
    /\ s \in waiting
    /\ shell[s] = "exited"
    /\ waiting' = waiting \ {s}
    /\ exitMail' = exitMail \cup {s}
    /\ UNCHANGED <<uiVars, spawning, tableVars, shell, pumping, blockVars, closing>>

(* PtyEvent::Exited: on_session_end finishes what the builder holds open,   *)
(* if there is still a builder, and the event goes out.                     *)
PumpEnds(s) ==
    /\ s \in waiting
    /\ shell[s] = "exited"
    /\ waiting' = waiting \ {s}
    /\ IF s \in panes
       THEN open' = open \ OpenIn(s) /\ writing' = writing \cup OpenIn(s)
       ELSE UNCHANGED <<open, writing>>
    /\ exitMail' = exitMail \cup {s}
    /\ UNCHANGED <<uiVars, spawning, tableVars, shell, pumping, begun, announced, closing>>

(* One thread per finished Block; block://finished follows the write,       *)
(* whether or not the write succeeded.                                      *)
PersistBlock(b) ==
    /\ b \in writing
    /\ writing' = writing \ {b}
    /\ announced' = announced \cup {b}
    /\ UNCHANGED <<uiVars, spawning, tableVars, shell, pumpVars, begun, open, closing>>

(* Events and command answers reach the webview by different channels, in   *)
(* either order.  The listener compares with the pane shown at that moment. *)
ExitArrives(s) ==
    /\ s \in exitMail
    /\ exitMail' = exitMail \ {s}
    /\ exitShown' = (exitShown \/ (mounted /\ shown = s))
    /\ UNCHANGED <<mounted, shown, spawning, tableVars, shell, pumping, waiting,
                   blockVars, closing>>

-----------------------------------------------------------------------------
(* The effect's cleanup and pty_close.                                      *)

Unmount ==
    /\ mounted
    /\ mounted' = FALSE
    /\ closing' = IF shown = NoShell THEN closing
                  ELSE [closing EXCEPT ![shown] = "asked"]
    /\ UNCHANGED <<shown, exitShown, spawning, tableVars, shell, pumpVars, blockVars>>

(* The builder goes, and with it whatever Block it held open.               *)
CloseForgetsPane(s) ==
    /\ closing[s] = "asked"
    /\ closing' = [closing EXCEPT ![s] = "forgotten"]
    /\ panes' = panes \ {s}
    /\ UNCHANGED <<uiVars, spawning, sessions, shell, pumpVars, blockVars>>

(* Mutant: a close that only forgets the session.                           *)
CloseOnlyForgets(s) ==
    /\ closing[s] = "forgotten" /\ ~RegistryHeld
    /\ closing' = [closing EXCEPT ![s] = "killed"]
    /\ sessions' = sessions \ {s}
    /\ UNCHANGED <<uiVars, spawning, panes, shell, pumpVars, blockVars>>

CloseTakes(s) ==
    /\ closing[s] = "forgotten" /\ ~RegistryHeld
    /\ closing' = [closing EXCEPT ![s] = IF s \in sessions THEN "taken" ELSE "killed"]
    /\ sessions' = sessions \ {s}
    /\ UNCHANGED <<uiVars, spawning, panes, shell, pumpVars, blockVars>>

(* kill(): the child's lock, ...                                            *)
CloseLocks(s) ==
    /\ closing[s] = "taken" /\ s \notin waiting
    /\ closing' = [closing EXCEPT ![s] = "killing"]
    /\ UNCHANGED <<uiVars, spawning, tableVars, shell, pumpVars, blockVars>>

(* Mutant: a kill that waits for a shell it has only asked to end.          *)
CloseAwaits(s) ==
    /\ closing[s] = "killing" /\ shell[s] = "exited"
    /\ closing' = [closing EXCEPT ![s] = "killed"]
    /\ UNCHANGED <<uiVars, spawning, tableVars, shell, pumpVars, blockVars>>

(* ... and the signals, until the child is gone.                            *)
CloseKills(s) ==
    /\ closing[s] = "killing"
    /\ closing' = [closing EXCEPT ![s] = "killed"]
    /\ shell' = [shell EXCEPT ![s] = "exited"]
    /\ UNCHANGED <<uiVars, spawning, tableVars, pumpVars, blockVars>>

-----------------------------------------------------------------------------
MountNext ==
    \/ Unmount
    \/ \E s \in Shells :
          \/ StartPty(s) \/ RecordPane(s) \/ SpawnSession(s) \/ SpawnFails(s)
          \/ RegisterSession(s) \/ AnswerArrives(s)
          \/ BlockStarts(s) \/ BlockEnds(s)
          \/ ShellLetsGo(s) \/ ShellExits(s)
          \/ PumpWaits(s) \/ PumpEnds(s) \/ ExitArrives(s)
          \/ CloseForgetsPane(s) \/ CloseTakes(s) \/ CloseLocks(s) \/ CloseKills(s)
    \/ \E b \in Blocks : PersistBlock(b)

MountSpec == MountInit /\ [][MountNext]_mountVars

(* A started command finishes, threads run, messages arrive, and the        *)
(* signals of a kill that has the lock end the shell.  A shell owes no exit *)
(* of its own, nor a command an end, nor the user an unmount.               *)
MountFairness ==
    /\ \A s \in Shells :
          /\ WF_mountVars(RecordPane(s)) /\ WF_mountVars(SpawnSession(s) \/ SpawnFails(s))
          /\ WF_mountVars(RegisterSession(s)) /\ WF_mountVars(AnswerArrives(s))
          /\ WF_mountVars(PumpWaits(s)) /\ WF_mountVars(PumpEnds(s))
          /\ WF_mountVars(ExitArrives(s))
          /\ WF_mountVars(CloseForgetsPane(s)) /\ WF_mountVars(CloseTakes(s))
          /\ WF_mountVars(CloseLocks(s)) /\ WF_mountVars(CloseKills(s))
    /\ \A b \in Blocks : WF_mountVars(PersistBlock(b))

MountFairSpec == MountSpec /\ MountFairness

-----------------------------------------------------------------------------
Forgotten(s) == closing[s] \notin {"no", "asked"}

(* No command is lost on the way from the builder to the history: every     *)
(* Block that began was announced or is being written, or it is open in a   *)
(* builder that its pump will still end.  The one that pty_close may lose   *)
(* is the one still open when it removes the builder.                       *)
BlocksAccounted ==
    \A s \in Shells : \A n \in 1 .. begun[s] :
        \/ <<s, n>> \in writing \cup announced
        \/ <<s, n>> \in open /\ (Forgotten(s) \/ (s \in panes \cap (pumping \cup waiting)))

(* What the component believes it is showing can be typed into: the answer  *)
(* that names a shell comes only after both tables know it, until the       *)
(* component itself closes it.                                              *)
ShownIsRegistered ==
    shown # NoShell /\ closing[shown] = "no" => shown \in sessions \cap panes

(* kill() stands in the way of wait(): the pump of a shell that let go of   *)
(* its terminal and lives has the child's lock until the shell exits.       *)
KeptByItsPump(s) == shell[s] = "detached" /\ s \in waiting

(* A shell the component asked to close ends, whether its pump drains, waits*)
(* or is done, and whichever of the two takes the child first - unless the  *)
(* shell had let go of its terminal and the pump came first.                *)
ClosedShellEnds ==
    \A s \in Shells : closing[s] = "asked" ~> (shell[s] = "exited" \/ KeptByItsPump(s))

(* pty_spawn is answered though a close holds the registry through its kill,*)
(* whichever of the two comes first, unless that close is for a shell that  *)
(* its own pump keeps: then every later pty_spawn waits for that shell.     *)
SpawnGetsThrough ==
    \A s \in Shells : spawning[s] = "spawned" ~>
        \/ spawning[s] = "answered"
        \/ \E t \in Shells : closing[t] = "taken" /\ KeptByItsPump(t)

(* A command cut short by its shell's own exit still reaches the history,   *)
(* unless the pane is closed at the same time.                              *)
CutBlockAnnounced ==
    \A b \in Blocks :
        b \in open /\ shell[b[1]] = "exited" ~>
            (b \in announced \/ closing[b[1]] # "no")

(* registry.rs of close: "Terminate and forget a session."                  *)
CloseEndsShell ==
    \A s \in Shells : closing[s] = "asked" ~> shell[s] = "exited"

(* A pane that is spawned gets its answer.  A close that waits for a shell  *)
(* kept by its pump has the registry, and the next pty_spawn waits with it. *)
SpawnAnswered ==
    \A s \in Shells : spawning[s] = "spawned" ~> spawning[s] = "answered"

(* main.tsx of the terminal effect: "it disposes its xterm instance and     *)
(* closes its PTY on cleanup".                                              *)
CleanupClosesPty ==
    \A s \in Shells : ~mounted /\ spawning[s] # "idle" ~>
        (shell[s] = "exited" \/ spawning[s] = "failed")

(* TESTING.md: "Kill a pane's shell from outside (`kill -9`). The pane      *)
(* reports it exited."                                                      *)
PaneReportsExit ==
    \A s \in Shells : mounted /\ shown = s /\ shell[s] = "exited" ~>
        (exitShown \/ ~mounted)

(* builder.rs of on_session_end: "Close any open Block rather than leaving  *)
(* it running forever."                                                     *)
NoBlockRunsForever ==
    \A b \in Blocks : b \in open /\ shell[b[1]] = "exited" ~> b \in announced
=============================================================================
