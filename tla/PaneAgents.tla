----------------------------- MODULE PaneAgents -----------------------------
(***************************************************************************)
(* Agent sessions somebody started in a pane and Tervin only watches       *)
(* (tervin-app/src/pane_agents.rs, its caller in commands.rs, and the      *)
(* store's Thread rows).  Every notification is taken in on a thread of    *)
(* its own: PaneAgents::observe under the lock of the map, then, with no   *)
(* lock, the Thread's row and its events one by one.                       *)
(***************************************************************************)
EXTENDS Transcript, AgentBlocks, FiniteSets

CONSTANTS
    Sessions,      \* the agents' own session ids
    Panes,
    Kinds,         \* of "sessionStart", "promptSubmit", "stop", "other"
    NoticeBound,   \* notifications in one behaviour
    AtOnce,        \* of which on their threads at once
    Script,        \* the units each session's agent writes to its log
    FaultBound     \* restarts of Tervin, retention changes and replaced logs

Notices == 1..NoticeBound
Threads == Notices     \* a Thread is made by an observation
ASSUME AgentsAssumption == Script \in [Sessions -> Seq(Units)] /\ NoticeBound \in Nat
ASSUME LinesAssumption ==   \* a line's tail follows its head
    \A s \in Sessions : \A i \in 1..(Len(Script[s]) - 1) :
        Script[s][i + 1].part = "tail" => Script[s][i].part = "head"
ASSUME CommandsAssumption == Shell \subseteq Commands /\ Outcomes \subseteq Codes

Note == [kind |-> "note"]

VARIABLES
    alive,      \* panes whose shell runs
    following,  \* PaneAgents.sessions
    made,       \* the session each ThreadId::new() was for, in order
    rows,       \* the threads table: a Thread to its session and title
    recorded,   \* Threads that have events in the events table
    notice,     \* the notification threads
    log,        \* each session's transcript file
    faults,     \* faults so far
    taken,      \* history: what each reader of the session's log consumed
    replaced,   \* history: readers a session had when its log was replaced
    forgotten,  \* history: times a session was no longer followed
    lost,       \* history: times a session was left without a row
    cut         \* history: Blocks each Thread had in flight at a restart

readVars == <<log, taken, replaced>>
paneVars == <<alive, following, made, rows, recorded, notice, readVars, faults, forgotten, lost, cut>>
vars == <<paneVars, blockVars>>

Unfollowed == [thread |-> 0]
NoRow == "none"
Titles == {"default", "prompt"}
Unborn == [stage |-> "unborn"]
Gone == [stage |-> "gone"]

Init == /\ alive = Panes
        /\ following = [s \in Sessions |-> Unfollowed]
        /\ made = <<>> /\ rows = <<>> /\ recorded = {}
        /\ notice = [n \in Notices |-> Unborn]
        /\ log = [s \in Sessions |-> <<>>]
        /\ faults = 0
        /\ taken = [s \in Sessions |-> <<>>]
        /\ replaced = [s \in Sessions |-> 0]
        /\ forgotten = [s \in Sessions |-> 0] /\ lost = [s \in Sessions |-> 0]
        /\ cut = [t \in Threads |-> 0]
        /\ BlocksInit(Threads)

RowsOf(s, table) == {t \in DOMAIN table : table[t].session = s}
-----------------------------------------------------------------------------
(* The agent, external: it notifies through its pane and writes its log. *)

Notify(n, s, p, k) ==
    /\ notice[n] = Unborn /\ \A m \in Notices : m < n => notice[m] # Unborn
    /\ Cardinality({m \in Notices : notice[m] \notin {Unborn, Gone}}) < AtOnce
    /\ p \in alive
    /\ notice' = [notice EXCEPT ![n] = [stage |-> "spawned", session |-> s, pane |-> p, kind |-> k]]
    /\ UNCHANGED <<alive, following, made, rows, recorded, readVars, faults, forgotten, lost, cut, blockVars>>

AgentWrites(s) ==
    /\ Len(log[s]) < Len(Script[s])
    /\ log' = [log EXCEPT ![s] = Append(@, Script[s][Len(@) + 1])]
    /\ UNCHANGED <<alive, following, made, rows, recorded, notice, faults, taken, replaced,
                   forgotten, lost, cut, blockVars>>

AgentReplacesLog(s) ==
    /\ faults < FaultBound /\ log[s] # <<>>
    /\ log' = [log EXCEPT ![s] = <<>>]
    /\ replaced' = [replaced EXCEPT ![s] = Len(taken[s])]
    /\ faults' = faults + 1
    /\ UNCHANGED <<alive, following, made, rows, recorded, notice, taken, forgotten, lost, cut, blockVars>>

-----------------------------------------------------------------------------
(* PaneAgents::observe, under the lock. *)

(* Mutant: a session is never matched with the row it left. *)
OpenAfresh(s, p) == {[thread |-> Len(made) + 1, pane |-> p, prompted |-> FALSE, reader |-> NoReader]}

(* Observed::open: the Thread with this resume id is adopted, the newest of   *)
(* them, here any; without one a Thread is made.                              *)
Open(s, p) ==
    IF RowsOf(s, rows) # {}
    THEN {[thread |-> t, pane |-> p, prompted |-> TRUE, reader |-> NoReader] : t \in RowsOf(s, rows)}
    ELSE {[thread |-> Len(made) + 1, pane |-> p, prompted |-> FALSE, reader |-> NoReader]}

(* Mutant: sessions are told apart by the pane they are in. *)
KnownByPane(s, p) == LET here == {q \in Sessions : /\ following[q] # Unfollowed
                                                   /\ following[q].pane = p
                                                   /\ following[q].thread \in DOMAIN rows}
                     IN IF here = {} THEN Open(s, p)
                        ELSE {[following[q] EXCEPT !.pane = p] : q \in here}

Known(s, p) == IF following[s] # Unfollowed THEN {[following[s] EXCEPT !.pane = p]}
               ELSE Open(s, p)

(* The first stop opens the log, from its start if a prompt was seen. *)
ReaderFor(o, s) == IF o.reader.opened THEN o.reader
                   ELSE IF o.prompted THEN FromStart ELSE FromEnd(log[s])

(* The history after a read: the reader's own entry goes on, or one is begun. *)
Consumed(o, s, read) ==
    LET r == read.reader
    IN IF o.reader.opened
       THEN [taken[s] EXCEPT ![Len(taken[s])] =
               [from |-> @.from, offset |-> r.offset, lines |-> @.lines \o read.lines]]
       ELSE Append(taken[s], [from |-> r.from, offset |-> r.offset, lines |-> read.lines])

(* What the notification's thread has still to do, until it ends. *)
Left(n, rest) == notice' = [notice EXCEPT ![n] = IF rest.row = NoRow /\ rest.todo = <<>>
                                                 THEN Gone ELSE rest]

TakeIn(n, o) ==
    LET s == notice[n].session
        created == following[s] = Unfollowed
        fresh == o.thread > Len(made)
        first == notice[n].kind = "promptSubmit" /\ ~o.prompted
        read == ReadNew(ReaderFor(o, s), log[s])
        heard == CASE notice[n].kind = "sessionStart" -> <<>>
                   [] notice[n].kind = "stop" -> read.out
                   [] OTHER -> <<Note>>
    IN /\ made' = IF fresh THEN Append(made, s) ELSE made
       /\ following' = [following EXCEPT ![s] =
            [o EXCEPT !.prompted = @ \/ first,
                      !.reader = IF notice[n].kind = "stop" THEN read.reader ELSE @]]
       /\ taken' = IF notice[n].kind = "stop" THEN [taken EXCEPT ![s] = Consumed(o, s, read)] ELSE taken
       /\ Left(n, [stage |-> "observed", session |-> s, thread |-> o.thread,
                   row |-> IF first THEN "prompt"
                           ELSE IF ~created THEN NoRow
                           ELSE IF fresh THEN "default" ELSE rows[o.thread].title,
                   todo |-> (IF created THEN <<Note>> ELSE <<>>) \o heard])

Observe(n) == /\ notice[n].stage = "spawned"
              /\ \E o \in Known(notice[n].session, notice[n].pane) : TakeIn(n, o)
              /\ UNCHANGED <<alive, rows, recorded, log, replaced, faults, forgotten, lost, cut, blockVars>>

-----------------------------------------------------------------------------
(* The rest of the notification's thread, with no lock between its steps. *)

(* upsert_thread replaces the whole row. *)
UpsertThread(n) ==
    /\ notice[n].stage = "observed" /\ notice[n].row # NoRow
    /\ rows' = [t \in DOMAIN rows \cup {notice[n].thread} |->
                  IF t = notice[n].thread THEN [session |-> notice[n].session, title |-> notice[n].row]
                  ELSE rows[t]]
    /\ Left(n, [notice[n] EXCEPT !.row = NoRow])
    /\ UNCHANGED <<alive, following, made, recorded, readVars, faults, forgotten, lost, cut, blockVars>>

(* append_event, then the Block bridge. *)
AppendEvent(n) ==
    /\ notice[n].stage = "observed" /\ notice[n].row = NoRow /\ notice[n].todo # <<>>
    /\ LET t == notice[n].thread
           e == Head(notice[n].todo)
       IN /\ recorded' = recorded \cup {t}
          /\ \/ e = Note /\ UNCHANGED blockVars
             \/ e # Note /\ Bridge(t, e)
    /\ Left(n, [notice[n] EXCEPT !.todo = Tail(@)])
    /\ UNCHANGED <<alive, following, made, rows, readVars, faults, forgotten, lost, cut>>

-----------------------------------------------------------------------------
(* Forgetting. *)

LeftWithout(S, table) == [s \in Sessions |-> IF s \in S /\ RowsOf(s, table) = {}
                                             THEN lost[s] + 1 ELSE lost[s]]

NoLonger(S) == [s \in Sessions |-> IF s \in S THEN forgotten[s] + 1 ELSE forgotten[s]]

(* forget_pane, when the pane's shell has exited. *)
PaneExits(p) ==
    LET gone == {s \in Sessions : following[s] # Unfollowed /\ following[s].pane = p}
    IN /\ p \in alive
       /\ alive' = alive \ {p}
       /\ following' = [s \in Sessions |-> IF s \in gone THEN Unfollowed ELSE following[s]]
       /\ forgotten' = NoLonger(gone) /\ lost' = LeftWithout(gone, rows)
       /\ UNCHANGED <<made, rows, recorded, notice, readVars, faults, cut, blockVars>>

(* prune_events: the Threads in aged have only events older than the window. *)
Prune(aged) == /\ recorded' = recorded \ aged
               /\ rows' = [t \in DOMAIN rows \cap recorded' |-> rows[t]]
               /\ lost' = LeftWithout(Range(made), rows')

(* history_set_retention prunes while everything runs. *)
SetRetention ==
    /\ faults < FaultBound /\ faults' = faults + 1
    /\ \E aged \in SUBSET recorded : Prune(aged)
    /\ UNCHANGED <<alive, following, made, notice, readVars, forgotten, cut, blockVars>>

(* The window is "forever": nothing is pruned. *)
KeepAll == UNCHANGED <<recorded, rows>> /\ lost' = LeftWithout(Range(made), rows)

(* Tervin stops at any point, and prunes when it starts again, if at all.  A  *)
(* Block in flight was only in memory.                                        *)
Restart ==
    /\ faults < FaultBound /\ faults' = faults + 1
    /\ KeepAll \/ \E aged \in SUBSET recorded : Prune(aged)
    /\ alive' = Panes
    /\ following' = [s \in Sessions |-> Unfollowed]
    /\ forgotten' = NoLonger({s \in Sessions : following[s] # Unfollowed})
    /\ notice' = [n \in Notices |-> IF notice[n] = Unborn THEN Unborn ELSE Gone]
    /\ flight' = [t \in Threads |-> Idle]
    /\ cut' = [t \in Threads |-> IF flight[t] = Idle THEN cut[t] ELSE cut[t] + 1]
    /\ UNCHANGED <<made, readVars, blocks, begun>>

-----------------------------------------------------------------------------
Next == \/ \E n \in Notices, s \in Sessions, p \in Panes, k \in Kinds : Notify(n, s, p, k)
        \/ \E s \in Sessions : AgentWrites(s) \/ AgentReplacesLog(s)
        \/ \E n \in Notices : Observe(n) \/ UpsertThread(n) \/ AppendEvent(n)
        \/ \E p \in Panes : PaneExits(p)
        \/ SetRetention \/ Restart

Spec == Init /\ [][Next]_vars

-----------------------------------------------------------------------------
Following(s) == following[s] # Unfollowed

(* Every variable in its type. *)
TypeOK ==
    /\ alive \subseteq Panes /\ made \in Seq(Sessions) /\ Len(made) <= NoticeBound
    /\ DOMAIN rows \subseteq 1..Len(made) /\ recorded \subseteq 1..Len(made)
    /\ \A t \in DOMAIN rows : rows[t] \in [session : Sessions, title : Titles]
    /\ \A s \in Sessions : Following(s) =>
          /\ following[s].thread \in 1..Len(made) /\ following[s].pane \in Panes
          /\ following[s].prompted \in BOOLEAN
          /\ Len(following[s].reader.calls) <= MaxCalls
    /\ \A s \in Sessions : log[s] \in Seq(Units)
    /\ BlocksTypeOK(Threads)

(* "two agents in two panes never merge into one Thread": whatever is         *)
(* observed, saved or still to be saved for a session goes to a Thread that   *)
(* was made for that session, over exits, restarts and pruning.               *)
NeverMerged ==
    /\ \A s \in Sessions : Following(s) => made[following[s].thread] = s
    /\ \A t \in DOMAIN rows : rows[t].session = made[t]
    /\ \A n \in Notices : notice[n].stage = "observed" => made[notice[n].thread] = notice[n].session

(* "a restart of Tervin, or a claude --resume, should land back on the same   *)
(* Thread": a session gets another Thread only after it was left without a    *)
(* row, never saved in time or pruned.                                        *)
LandsBack ==
    \A s \in Sessions : Cardinality({t \in DOMAIN made : made[t] = s}) <= 1 + lost[s]

(* Every reader a session's log ever had has taken in every line from where   *)
(* it began exactly once and whole, though it stops in the middle of lines,   *)
(* its own limit and the agent's unfinished ones, as long as the log was not  *)
(* replaced under it; and a session has another reader only after it was      *)
(* forgotten, with its pane or by a restart.                                  *)
TranscriptExact ==
    \A s \in Sessions :
        /\ Len(taken[s]) <= 1 + forgotten[s]
        /\ \A i \in DOMAIN taken[s] : replaced[s] < i =>
              LET d == taken[s][i]
              IN d.lines = LinesIn(SubSeq(log[s], d.from + 1, d.offset))

(* "replaying it would fill the timeline with rows that look like they just   *)
(* happened": no reader begins before where one before it had come.  It does: *)
(* an adopted Thread counts as prompted, and is read again from the start.    *)
NeverReplayed ==
    \A s \in Sessions : \A i, j \in DOMAIN taken[s] :
        replaced[s] < i /\ i < j => taken[s][i].offset <= taken[s][j].from

(* Every command that was seen to start is a Block exactly once, finished or  *)
(* still in flight, however its Thread's events are interleaved, but for one  *)
(* per Thread at most that was in flight when Tervin stopped.                 *)
NoBlockVanishes ==
    /\ \A t \in Threads :
          begun[t] = Len(blocks[t]) + cut[t] + (IF flight[t] = Idle THEN 0 ELSE 1)
    /\ \A t \in Threads : cut[t] <= faults

(* A Thread that ends mid-command leaves a Block that is closed as unknown;   *)
(* one that a restart ends leaves none.                                       *)
NoneCut == \A t \in Threads : cut[t] = 0

(* "One at a time per Thread is the right model: a runtime reports its tool   *)
(* calls in sequence": a Block holds the output of its own command.           *)
OwnOutput == \A t \in Threads : \A i \in DOMAIN blocks[t] :
                Range(blocks[t][i].output) \subseteq {blocks[t][i].command}
=============================================================================
