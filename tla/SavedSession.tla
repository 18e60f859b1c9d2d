------------------------------ MODULE SavedSession ------------------------------
(***************************************************************************)
(* Saving and restoring the workspace across restarts: the layout store    *)
(* and its saveSession and restoreSession (ui/src/lib/store.ts), the       *)
(* debounce and the flush that call the first and the startup that calls   *)
(* the second (ui/src/App.tsx), the terminals that are on screen meanwhile *)
(* (TerminalPane.tsx) and the two tables of the database they use          *)
(* (workspaces and pane_scrollback, block-engine/src/store.rs).            *)
(*                                                                         *)
(* A save is a chain of calls to the backend, each answered when a         *)
(* blocking thread has had the database: the snapshot, then the output of  *)
(* every pane on screen, in any order, then the removal of the other       *)
(* panes' output.  Tervin may end between any two of them.                 *)
(*                                                                         *)
(* What a terminal shows, and what is saved of it, is the set of the panes *)
(* whose output it holds: pane ids are never used twice (randomUUID), so   *)
(* they are counted up.  What panes are called and where they are is left  *)
(* out; each pane runs the program its saved pane ran.                     *)
(***************************************************************************)
EXTENDS Workspace, Functions

CONSTANTS
    MaxPanes,   \* panes made in all runs together: a bound
    Events,     \* changes the user makes and calls that fail, in all runs: a bound
    Slots       \* the saves that may be under way at once: a bound

ASSUME BoundAssumption == MaxPanes \in Nat /\ Events \in Nat

VARIABLES
    phase,     \* of the run: "down", "starting", "loaded", "reading", "up",
               \* "closing" and "closed"
    pref,      \* the stored appearance has restoreSession
    on,        \* appearance.restoreSession in memory
    layout,    \* tabs, activeTabId and panes of the store
    terminal,  \* the terminal surface is on screen
    screen,    \* what each mounted terminal shows
    made,      \* panes made so far, in every run
    standsFor, \* the restoreKey of each pane ever made, or None
    heirs,     \* history: for each pane, itself and the panes whose place it took
    timer,     \* a debounced save is due
    saves,     \* saveSession calls under way
    session,   \* the workspaces row, <<>> or <<snapshot>>
    rows,      \* the pane_scrollback rows by pane_key
    newest,    \* the last save that began, or NoSave
    missed,    \* history: since then a call of a save has failed
    overtaken, \* history: since then a call of an older save undid one of its
    events     \* counts the user's changes and the calls that failed

storeVars   == <<on, layout, terminal, screen, timer>>
paneVars    == <<made, standsFor, heirs>>
diskVars    == <<session, rows>>
orderVars   == <<newest, overtaken>>
sessionVars == <<phase, pref, storeVars, paneVars, saves, diskVars, orderVars, missed, events>>

Idle == [step |-> "idle"]
NoSave == "none"

AtRest == \A s \in Slots : saves[s] = Idle

SessionInit ==
    /\ phase = "down"
    /\ pref = TRUE
    /\ on = TRUE
    /\ layout = Empty
    /\ terminal = TRUE
    /\ screen = <<>>
    /\ made = 0
    /\ standsFor = <<>>
    /\ heirs = <<>>
    /\ timer = FALSE
    /\ saves = [s \in Slots |-> Idle]
    /\ session = <<>>
    /\ rows = <<>>
    /\ newest = NoSave
    /\ missed = FALSE
    /\ overtaken = FALSE
    /\ events = 0

-----------------------------------------------------------------------------
(* Changing the layout. *)

\* What the saving effect watches: everything but zooms.
LayoutKey(l) == [l EXCEPT !.tabs = [i \in DOMAIN @ |-> [@[i] EXCEPT !.zoomed = None]]]

\* The store takes a layout, and the terminals follow: one that stays on
\* screen may be kept or, when its place in the tree changes, made again.  A
\* new one starts its shell, after the output of the pane it stands for.
Show(l, onTerminal) ==
    /\ layout' = l
    /\ terminal' = onTerminal
    /\ timer' = (timer \/ LayoutKey(l) # LayoutKey(layout))
    /\ LET seen == IF onTerminal THEN Rendered(l) ELSE {}
       IN  \E kept \in SUBSET (seen \cap DOMAIN screen) :
              /\ l = layout => kept = seen \cap DOMAIN screen
              /\ screen' = [p \in seen |-> IF p \in kept THEN screen[p]
                                       ELSE IF standsFor'[p] = None THEN {p} ELSE {}]

\* A pane of the user's own, or panes that take the place of saved ones.
MakePanes(keys, lines) ==
    /\ made + Len(keys) <= MaxPanes
    /\ made' = made + Len(keys)
    /\ standsFor' = standsFor \o keys
    /\ heirs' = heirs \o lines

MakePane == MakePanes(<<None>>, <<{made + 1}>>)

InUse == phase \notin {"down", "closing", "closed"}

\* Something the user does, or a call that fails.
Event == events < Events /\ events' = events + 1

EventIf(happens) == IF happens THEN Event ELSE UNCHANGED events

Gesture == InUse /\ Event

UserAddsPane(l) ==
    /\ Gesture
    /\ MakePane
    /\ Show(l, TRUE)
    /\ UNCHANGED <<phase, pref, on, saves, diskVars, orderVars, missed>>

NewPane  == UserAddsPane(AddPane(layout, made + 1))
NewInTab == terminal /\ layout.tabs # <<>> /\ UserAddsPane(AddPane(AddTab(layout), made + 1))
SplitIt  == \E dir \in {"row", "column"} :
                UserAddsPane(SplitFocusedPane(layout, dir, made + 1))

UserRearranges(l, onTerminal) ==
    /\ Gesture
    /\ <<l, onTerminal>> # <<layout, terminal>>
    /\ UNCHANGED paneVars
    /\ Show(l, onTerminal)
    /\ UNCHANGED <<phase, pref, on, saves, diskVars, orderVars, missed>>

FocusOf(l) == {l.tabs[i].focus : i \in ActiveAt(l)}

CloseFocused == \E p \in FocusOf(layout) : UserRearranges(RemovePane(layout, p), terminal)
ChooseTab    == \E id \in TabIds(layout) : UserRearranges(SetActiveTab(layout, id), terminal)
ClickPane    == \E p \in DOMAIN screen : UserRearranges(SetActivePane(layout, p), terminal)
CyclePane    == \E forward \in BOOLEAN :
                    UserRearranges(FocusAdjacentPane(layout, forward), terminal)
SwapPane     == UserRearranges(SwapFocusedPane(layout), terminal)
ZoomPane     == UserRearranges(ToggleZoom(layout), terminal)
ChooseSurface == UserRearranges(layout, ~terminal)

\* Mutant: the saving effect does not watch the setting.
ToggleRestoreUnseen ==
    /\ Gesture
    /\ on' = ~on
    /\ UNCHANGED <<phase, pref, layout, terminal, screen, timer, paneVars, saves, diskVars, orderVars, missed>>

\* The setting, and the write of it that follows.
ToggleRestore ==
    /\ Gesture
    /\ on' = ~on
    /\ timer' = TRUE
    /\ UNCHANGED <<phase, pref, layout, terminal, screen, paneVars, saves, diskVars, orderVars, missed>>

PrefStored ==
    /\ InUse /\ phase # "starting"
    /\ pref' = on
    /\ UNCHANGED <<phase, storeVars, paneVars, saves, diskVars, orderVars, missed, events>>

\* The output saved for the pane a terminal stands for arrives, or there is
\* none or the call fails, and its shell starts.
TerminalStarts(p) ==
    /\ InUse /\ p \in DOMAIN screen /\ screen[p] = {}
    /\ LET kept == {rows[k] : k \in DOMAIN rows \cap {standsFor[p]}}
       IN  \E fails \in BOOLEAN :
              /\ EventIf(fails)
              /\ screen' = [screen EXCEPT ![p] = IF fails THEN {p} ELSE {p} \cup UNION kept]
    /\ UNCHANGED <<phase, pref, on, layout, terminal, timer, paneVars, saves, diskVars, orderVars, missed>>

-----------------------------------------------------------------------------
(* saveSession. *)

StartSave(s) ==
    /\ saves[s] = Idle
    /\ saves' = [saves EXCEPT ![s] =
            IF on THEN [step |-> "session", snap |-> BuildSnapshot(layout)]
            ELSE [step |-> "forget", todo |-> {"session", "rows"}]]
    /\ newest' = s
    /\ missed' = FALSE /\ overtaken' = FALSE

\* The debounce fires, with any other save still on its way.
DebouncedSave(s) ==
    /\ InUse /\ timer
    /\ StartSave(s)
    /\ timer' = FALSE
    /\ UNCHANGED <<phase, pref, on, layout, terminal, screen, paneVars, diskVars, events>>

\* pagehide and beforeunload, in either order, each with any other save still
\* on its way.
FlushOnClose(s) ==
    /\ phase \notin {"down", "closed"}
    /\ phase' = IF InUse THEN "closing" ELSE "closed"
    /\ StartSave(s)
    /\ timer' = FALSE
    /\ UNCHANGED <<pref, on, layout, terminal, screen, paneVars, diskVars, events>>

Goes(s, save) == saves' = [saves EXCEPT ![s] = save]

Fails == missed' = TRUE /\ Event /\ UNCHANGED <<diskVars, orderVars>>

\* The calls go to threads of their own and wait for one lock, in no order: a
\* call of an older save may land after the same call of the newest, or after
\* the newest has removed what this one writes.
Landed(v, what) ==
    \/ v.step = "idle"
    \/ what = "session" /\ v.step \in {"rows", "retain"}
    \/ v.step = "forget" /\ what \notin v.todo

Overtakes(s, what) ==
    /\ overtaken' = (overtaken \/ (s # newest /\ Landed(saves[newest], what)))
    /\ UNCHANGED newest

PanesOf(snap) == ToSet(SavedPanes(snap))

\* What is left to write of the panes' output, and what follows it.
WritingRows(snap, todo) ==
    IF DOMAIN todo = {} THEN [step |-> "retain", snap |-> snap]
    ELSE [step |-> "rows", snap |-> snap, todo |-> todo]

SnapshotLands(s) ==
    /\ saves[s].step = "session"
    /\ session' = <<saves[s].snap>>
    /\ LET onScreen == {p \in PanesOf(saves[s].snap) \cap DOMAIN screen : screen[p] # {}}
       IN  Goes(s, WritingRows(saves[s].snap, [p \in onScreen |-> screen[p]]))
    /\ Overtakes(s, "session")
    /\ UNCHANGED <<rows, missed, events>>

SnapshotFails(s) ==
    /\ saves[s].step = "session"
    /\ Goes(s, Idle)
    /\ Fails

RowAnswered(s, p) ==
    LET todo == saves[s].todo IN
    Goes(s, WritingRows(saves[s].snap, Restrict(todo, DOMAIN todo \ {p})))

RowLands(s) ==
    /\ saves[s].step = "rows"
    /\ \E p \in DOMAIN saves[s].todo :
          /\ rows' = [k \in DOMAIN rows \cup {p} |->
                         IF k = p THEN saves[s].todo[p] ELSE rows[k]]
          /\ RowAnswered(s, p)
    /\ Overtakes(s, "rows")
    /\ UNCHANGED <<session, missed, events>>

RowFails(s) ==
    /\ saves[s].step = "rows"
    /\ \E p \in DOMAIN saves[s].todo : RowAnswered(s, p)
    /\ Fails

\* retain_scrollback with the panes of this save's snapshot.
RetainLands(s) ==
    /\ saves[s].step = "retain"
    /\ rows' = Restrict(rows, DOMAIN rows \cap PanesOf(saves[s].snap))
    /\ Goes(s, Idle)
    /\ UNCHANGED <<session, orderVars, missed, events>>

RetainFails(s) ==
    /\ saves[s].step = "retain"
    /\ Goes(s, Idle)
    /\ Fails

\* Switched off: an empty snapshot and a removal that keeps nothing, at once.
ForgetAnswered(s, what) ==
    Goes(s, IF saves[s].todo = {what} THEN Idle ELSE [saves[s] EXCEPT !.todo = @ \ {what}])

ForgetSession(s) ==
    /\ saves[s].step = "forget" /\ "session" \in saves[s].todo
    /\ ForgetAnswered(s, "session")
    /\ session' = <<>>
    /\ Overtakes(s, "session")
    /\ UNCHANGED <<rows, missed, events>>

ForgetRows(s) ==
    /\ saves[s].step = "forget" /\ "rows" \in saves[s].todo
    /\ ForgetAnswered(s, "rows")
    /\ rows' = <<>>
    /\ UNCHANGED <<session, orderVars, missed, events>>

ForgetFails(s) ==
    /\ saves[s].step = "forget"
    /\ \E what \in saves[s].todo : ForgetAnswered(s, what)
    /\ Fails

Saving ==
    \E s \in Slots :
        \/ DebouncedSave(s)
        \/ FlushOnClose(s)
        \/ /\ \/ SnapshotLands(s) \/ SnapshotFails(s)
              \/ RowLands(s) \/ RowFails(s)
              \/ RetainLands(s) \/ RetainFails(s)
              \/ ForgetSession(s) \/ ForgetRows(s) \/ ForgetFails(s)
           /\ UNCHANGED <<phase, pref, storeVars, paneVars>>

-----------------------------------------------------------------------------
(* The process. *)

\* The debounce is armed as the first frame is drawn.
Launch ==
    /\ phase = "down"
    /\ phase' = "starting"
    /\ on' = TRUE
    /\ timer' = TRUE
    /\ UNCHANGED <<pref, layout, terminal, screen, paneVars, saves, diskVars, orderVars, missed, events>>

\* loadAppearance: a setting that cannot be read stays at its default.
LoadAppearance ==
    /\ phase = "starting"
    /\ phase' = "loaded"
    /\ \/ on' = pref /\ UNCHANGED events
       \/ on' = on /\ Event
    /\ timer' = (timer \/ on' # on)
    /\ UNCHANGED <<pref, layout, terminal, screen, paneVars, saves, diskVars, orderVars, missed>>

\* The environment, git, Blocks and the agents have answered.
AskForSession ==
    /\ phase = "loaded" /\ on /\ layout.tabs = <<>>
    /\ phase' = "reading"
    /\ UNCHANGED <<pref, storeVars, paneVars, saves, diskVars, orderVars, missed, events>>

NoPanesSaved == \A i \in DOMAIN session : SavedPanes(session[i]) = <<>>

OpenFirstPane ==
    /\ phase' = "up"
    /\ IF layout.tabs # <<>> \/ layout.panes # {}
       THEN UNCHANGED <<layout, terminal, screen, timer, paneVars>>
       ELSE MakePane /\ Show(EnsureFirstPane(layout, made + 1), terminal)
    /\ UNCHANGED <<pref, on, saves, diskVars, orderVars, missed>>

NothingToRestore ==
    /\ \/ phase = "loaded" /\ (~on \/ layout.tabs # <<>>) /\ UNCHANGED events
       \/ phase = "reading" /\ NoPanesSaved /\ UNCHANGED events
       \/ phase = "reading" /\ Event  \* the read failed
    /\ OpenFirstPane

\* workspaceLoad answers, over whatever was opened while it was read.
RestoreSession ==
    /\ phase = "reading"
    /\ \E i \in DOMAIN session :
          LET snap  == session[i]
              plan  == PlanRestore(snap, Fresh(snap, made))
              saved == SavedPanes(snap)
              after == AllPanes(plan)
              \* the pane whose place in the layout a new one takes
              Before(p) == saved[CHOOSE n \in DOMAIN saved : after[n] = p]
          IN  /\ saved # <<>>
              /\ MakePanes(RestoreKeys(snap),
                           [n \in DOMAIN saved |->
                              {made + n} \cup heirs[Before(made + n)]])
              /\ Show(plan, terminal)
    /\ phase' = "up"
    /\ UNCHANGED <<pref, on, saves, diskVars, orderVars, missed, events>>

\* Quitting, a crash or a power cut: what is in memory is gone.
End ==
    /\ phase # "down"
    /\ phase' = "down"
    /\ on' = TRUE
    /\ layout' = Empty
    /\ terminal' = TRUE
    /\ screen' = <<>>
    /\ timer' = FALSE
    /\ saves' = [s \in Slots |-> Idle]
    /\ newest' = NoSave
    /\ missed' = FALSE /\ overtaken' = FALSE
    /\ UNCHANGED <<pref, paneVars, diskVars, events>>

Startup == Launch \/ LoadAppearance \/ AskForSession \/ NothingToRestore \/ RestoreSession

Arranging ==
    \/ NewPane \/ NewInTab \/ SplitIt \/ CloseFocused
    \/ ChooseTab \/ ClickPane \/ CyclePane \/ SwapPane \/ ZoomPane \/ ChooseSurface
    \/ \E p \in 1 .. made : TerminalStarts(p)

SessionNext == Startup \/ Arranging \/ ToggleRestore \/ PrefStored \/ Saving \/ End

SessionSpec == SessionInit /\ [][SessionNext]_sessionVars

-----------------------------------------------------------------------------
(* Properties. *)

(* Whatever is opened, split, closed, swapped, zoomed or restored, the     *)
(* layout stays one: every tab a normal tree of panes the store holds,     *)
(* each pane in one place, and every focus on a pane that is there         *)
(* (store.ts, panes.ts).                                                   *)
LayoutSound == Sound(layout)

(* A terminal shows output of its own pane and of the panes whose place it *)
(* took in earlier runs, never another's, and so does what is saved of it, *)
(* across any number of restarts (session.ts planRestore, store.ts         *)
(* restoreKey, TerminalPane.tsx).                                          *)
HistoryIsOwn ==
    /\ \A p \in DOMAIN screen : screen[p] \subseteq heirs[p]
    /\ \A k \in DOMAIN rows : rows[k] \subseteq heirs[k]

(* Once no save is due or under way the database holds the layout as it is *)
(* and output of its panes alone; and with restore switched off, nothing at *)
(* all: whatever saves overlap, unless a call failed or a call of an older  *)
(* save landed after the newest save's own (the dependencies of App.tsx's  *)
(* effect, the order of saveSession's calls, the promise of the setting).  *)
SavedWhenQuiet ==
    InUse /\ ~timer /\ AtRest /\ ~missed /\ ~overtaken =>
        IF on
        THEN session = <<BuildSnapshot(layout)>> /\ DOMAIN rows \subseteq layout.panes
        ELSE session = <<>> /\ rows = <<>>

(* The same with nothing said of the order the calls land in: "forget what *)
(* was already saved rather than leaving a stale layout and old terminal   *)
(* output on disk indefinitely".  No lock and no queue keeps that order.   *)
SavedInAnyOrder ==
    InUse /\ ~timer /\ AtRest /\ ~missed =>
        IF on
        THEN session = <<BuildSnapshot(layout)>> /\ DOMAIN rows \subseteq layout.panes
        ELSE session = <<>> /\ rows = <<>>

=================================================================================
