------------------------------ MODULE ColorScheme ------------------------------
(***************************************************************************)
(* Whether the terminal's background is light or dark, and how programs    *)
(* learn of it: AppState.color_scheme, one lock over the scheme and the    *)
(* subscribed panes.  A pump that delivers a chunk takes the lock, records *)
(* whether the pane wants updates (DEC mode 2031), reads the scheme, lets  *)
(* go of the lock and only then writes the answer to a query.              *)
(* color_scheme_set, a command of the one main thread, takes the lock,     *)
(* changes the scheme and copies the subscribers, lets go, and writes to   *)
(* them one by one.  Either writes through TerminalRegistry.write, which   *)
(* fails for a pane that is not yet, or no longer, in the registry.        *)
(***************************************************************************)
EXTENDS Naturals

CONSTANTS Panes, MaxChanges   \* MaxChanges bounds the theme changes

ASSUME ChangesAssumption == MaxChanges \in Nat

Schemes == {"Dark", "Light"}
Unknown == "Unknown"

VARIABLES
    scheme,       \* ColorSchemeState.scheme
    subscribers,  \* ColorSchemeState.subscribers
    registered,   \* the panes TerminalRegistry knows
    closed,       \* the panes pty_close has removed
    chunk,        \* the chunk each pump is about to deliver: none or one
    answer,       \* the scheme a pump has read and not yet written back
    reports,      \* the panes color_scheme_set still has to write to
    mode,         \* mode 2031 of each program, as its last delivered chunk said
    asking,       \* the programs whose query has had no answer
    told,         \* the last report each program read
    changes,      \* number of theme changes so far
    toldAt,       \* the change each program was last told at
    wantsSince    \* the change after which each program was subscribed and in reach

schemeVars == <<scheme, subscribers, registered, closed, chunk, answer, reports, mode,
                asking, told, changes, toldAt, wantsSince>>

NoChunk == [query |-> FALSE, updates |-> FALSE, here |-> FALSE]
Chunks  == [query : BOOLEAN, updates : BOOLEAN, here : {TRUE}]

SchemeTypeOK ==
    /\ scheme \in Schemes
    /\ subscribers \subseteq Panes /\ registered \subseteq Panes /\ closed \subseteq Panes
    /\ registered \cap closed = {}
    /\ chunk \in [Panes -> Chunks \cup {NoChunk}]
    /\ answer \in [Panes -> Schemes \cup {Unknown}]
    /\ reports \subseteq Panes
    /\ mode \in [Panes -> BOOLEAN]
    /\ asking \subseteq Panes
    /\ told \in [Panes -> Schemes \cup {Unknown}]
    /\ changes \in 0 .. MaxChanges
    /\ toldAt \in [Panes -> 0 .. MaxChanges]
    /\ wantsSince \in [Panes -> 0 .. MaxChanges]

SchemeInit ==
    /\ scheme = "Dark"
    /\ subscribers = {} /\ registered = {} /\ closed = {}
    /\ chunk = [p \in Panes |-> NoChunk]
    /\ answer = [p \in Panes |-> Unknown]
    /\ reports = {}
    /\ mode = [p \in Panes |-> FALSE]
    /\ asking = {}
    /\ told = [p \in Panes |-> Unknown]
    /\ changes = 0
    /\ toldAt = [p \in Panes |-> 0]
    /\ wantsSince = [p \in Panes |-> 0]

-----------------------------------------------------------------------------
(* The program prints: perhaps a query, if it is not waiting for an answer, *)
(* and its mode is on or off after it.                                      *)
ProgramPrints(p, query, updates) ==
    /\ chunk[p] = NoChunk
    /\ query => p \notin asking
    /\ chunk' = [chunk EXCEPT ![p] = [query |-> query, updates |-> updates, here |-> TRUE]]
    /\ asking' = IF query THEN asking \cup {p} ELSE asking
    /\ UNCHANGED <<scheme, subscribers, registered, closed, answer, reports, mode,
                   told, changes, toldAt, wantsSince>>

(* Mutant: a subscription that is never taken back.                         *)
PumpOnlySubscribes(p) ==
    /\ chunk[p] # NoChunk
    /\ answer[p] = Unknown
    /\ chunk' = [chunk EXCEPT ![p] = NoChunk]
    /\ subscribers' = IF chunk[p].updates THEN subscribers \cup {p} ELSE subscribers
    /\ answer' = [answer EXCEPT ![p] = IF chunk[p].query THEN scheme ELSE Unknown]
    /\ mode' = [mode EXCEPT ![p] = chunk[p].updates]
    /\ wantsSince' = IF chunk[p].updates /\ ~mode[p]
                     THEN [wantsSince EXCEPT ![p] = changes] ELSE wantsSince
    /\ UNCHANGED <<scheme, registered, closed, reports, asking, told, changes, toldAt>>

(* answer_color_scheme under the lock.                                      *)
PumpLocks(p) ==
    /\ chunk[p] # NoChunk
    /\ answer[p] = Unknown
    /\ chunk' = [chunk EXCEPT ![p] = NoChunk]
    /\ subscribers' = IF chunk[p].updates THEN subscribers \cup {p} ELSE subscribers \ {p}
    /\ answer' = [answer EXCEPT ![p] = IF chunk[p].query THEN scheme ELSE Unknown]
    /\ mode' = [mode EXCEPT ![p] = chunk[p].updates]
    /\ wantsSince' = IF chunk[p].updates /\ ~mode[p]
                     THEN [wantsSince EXCEPT ![p] = changes] ELSE wantsSince
    /\ UNCHANGED <<scheme, registered, closed, reports, asking, told, changes, toldAt>>

(* What a successful TerminalRegistry.write of a report does for program p. *)
Deliver(p, s) ==
    IF p \in registered
    THEN told' = [told EXCEPT ![p] = s]
    ELSE UNCHANGED told

(* The reply goes out after the lock is gone; a failed write is only logged. *)
PumpAnswers(p) ==
    /\ answer[p] # Unknown
    /\ Deliver(p, answer[p])
    /\ asking' = IF p \in registered THEN asking \ {p} ELSE asking
    /\ answer' = [answer EXCEPT ![p] = Unknown]
    /\ UNCHANGED <<scheme, subscribers, registered, closed, chunk, reports, mode,
                   changes, toldAt, wantsSince>>

(* Mutant: a command that gives way to one still writing, dropping the rest.*)
SetSchemeAnyTime(s) ==
    /\ s # scheme
    /\ changes < MaxChanges
    /\ scheme' = s
    /\ reports' = subscribers \ reports
    /\ changes' = changes + 1
    /\ UNCHANGED <<subscribers, registered, closed, chunk, answer, mode, asking,
                   told, toldAt, wantsSince>>

(* color_scheme_set under the lock; a call that changes nothing returns.    *)
SetScheme(s) ==
    /\ reports = {}
    /\ s # scheme
    /\ changes < MaxChanges
    /\ scheme' = s
    /\ reports' = subscribers
    /\ changes' = changes + 1
    /\ UNCHANGED <<subscribers, registered, closed, chunk, answer, mode, asking,
                   told, toldAt, wantsSince>>

(* The copy of `scheme` the loop writes is still the current one: only the  *)
(* next color_scheme_set could change it, on the same thread.               *)
ReportTo(p) ==
    /\ p \in reports
    /\ reports' = reports \ {p}
    /\ Deliver(p, scheme)
    /\ toldAt' = [toldAt EXCEPT ![p] = changes]
    /\ UNCHANGED <<scheme, subscribers, registered, closed, chunk, answer, mode,
                   asking, changes, wantsSince>>

(* TerminalRegistry.spawn enters the session after its pump has started.    *)
Register(p) ==
    /\ p \notin registered \cup closed
    /\ registered' = registered \cup {p}
    /\ wantsSince' = [wantsSince EXCEPT ![p] = changes]
    /\ UNCHANGED <<scheme, subscribers, closed, chunk, answer, reports, mode,
                   asking, told, changes, toldAt>>

(* pty_close; nothing removes the pane from the subscribers.                *)
Close(p) ==
    /\ p \in registered
    /\ registered' = registered \ {p}
    /\ closed' = closed \cup {p}
    /\ UNCHANGED <<scheme, subscribers, chunk, answer, reports, mode, asking,
                   told, changes, toldAt, wantsSince>>

-----------------------------------------------------------------------------
SchemeNext ==
    \/ \E p \in Panes :
          \/ \E query, updates \in BOOLEAN : ProgramPrints(p, query, updates)
          \/ PumpLocks(p) \/ PumpAnswers(p) \/ ReportTo(p)
          \/ Register(p) \/ Close(p)
    \/ \E s \in Schemes : SetScheme(s)

SchemeSpec == SchemeInit /\ [][SchemeNext]_schemeVars

(* Pumps run, a command finishes, and pty_spawn registers what it spawned.  *)
SchemeFairSpec ==
    /\ SchemeSpec
    /\ \A p \in Panes : /\ WF_schemeVars(PumpLocks(p)) /\ WF_schemeVars(PumpAnswers(p))
                        /\ WF_schemeVars(ReportTo(p)) /\ WF_schemeVars(Register(p))

-----------------------------------------------------------------------------
(* A program reads a report only in answer to a question or as news of a    *)
(* change made while its mode was on: to a program that asked for neither,  *)
(* the report would be stray text.                                          *)
OnlyAskersTold ==
    [][\A p \in Panes :
          /\ told'[p] # told[p] => p \in asking \cup reports
          /\ p \in reports' \ reports => mode[p]]_schemeVars

(* No interleaving of pumps with a theme change leaves out a pane: once the *)
(* change is through, every program that was subscribed and in reach before *)
(* it has been told of it.                                                  *)
NobodyLeftOut ==
    reports = {} =>
        \A p \in registered :
            mode[p] => toldAt[p] = changes \/ wantsSince[p] = changes

(* Switching the theme restyles a subscribed program (TESTING.md, and the   *)
(* changelog's "a pane that subscribed is told when the theme changes"): a  *)
(* program told of the current scheme is not told of an older one after it. *)
NewsIsNotTakenBack ==
    [][\A p \in Panes :
          told[p] = scheme /\ scheme' = scheme => told'[p] = scheme]_schemeVars

(* osc.rs: "A request from the program that the terminal is expected to     *)
(* answer."                                                                 *)
QueriesAnswered ==
    \A p \in Panes : p \in asking ~> (p \notin asking \/ p \in closed)
=============================================================================
