------------------------------- MODULE Workspace -------------------------------
(***************************************************************************)
(* The layout half of the workspace store, ui/src/lib/store.ts, and the    *)
(* two pure functions of ui/src/lib/session.ts that turn a layout into a   *)
(* snapshot and a snapshot back into a layout.                             *)
(*                                                                         *)
(* A layout is [tabs, active, panes]: the tabs in strip order, the id of   *)
(* the active one and the ids of the panes the store holds.  A tab is      *)
(* [id, root, focus, zoomed], with root a sequence of at most one tree (a  *)
(* tab just opened has none).  Pane and tab ids are positive; None stands  *)
(* for `null`.  Titles, directories, programs and sizes are left out.      *)
(***************************************************************************)
EXTENDS PaneTree

None == 0

Empty == [tabs |-> <<>>, active |-> None, panes |-> {}]

TabIds(l) == {l.tabs[i].id : i \in DOMAIN l.tabs}

\* Ids are counted up, and no old one is kept anywhere: the first free one.
NextTabId(l) == CHOOSE n \in 1 .. Len(l.tabs) + 1 :
                    n \notin TabIds(l) /\ 1 .. n - 1 \subseteq TabIds(l)

NewTab(l, root, focus) ==
    [id |-> NextTabId(l), root |-> root, focus |-> focus, zoomed |-> None]

\* The index of the active tab, as a set of at most one.
ActiveAt(l) == {i \in DOMAIN l.tabs : l.tabs[i].id = l.active}

\* The tabs that have a tree.
Rooted(tabs) ==
    FlattenSeq([i \in DOMAIN tabs |-> IF tabs[i].root = <<>> THEN <<>> ELSE <<tabs[i]>>])

Shows(tab, p) == tab.root # <<>> /\ p \in PaneSet(tab.root[1])

\* Every tab as F makes it.
EachTab(l, F(_)) == [l EXCEPT !.tabs = [i \in DOMAIN @ |-> F(@[i])]]

EnsureFirstPane(l, p) ==
    IF l.tabs # <<>> \/ l.panes # {}
    THEN l
    ELSE LET tab == NewTab(l, <<Leaf(p)>>, p)
         IN  [tabs |-> <<tab>>, active |-> tab.id, panes |-> {p}]

AddPane(l, p) ==
    LET tab == NewTab(l, <<Leaf(p)>>, p)
        Joined(t) ==
            IF t.id # l.active THEN t
            ELSE IF t.root = <<>>
                 THEN [t EXCEPT !.root = <<Leaf(p)>>, !.focus = p]
                 ELSE [t EXCEPT !.root = <<SplitPane(t.root[1], t.focus, "row", p)>>,
                                !.focus = p, !.zoomed = None]
        placed == IF ActiveAt(l) = {}
                  THEN [l EXCEPT !.tabs = Append(@, tab), !.active = tab.id]
                  ELSE EachTab(l, Joined)
    IN  [placed EXCEPT !.panes = @ \cup {p}]

AddTab(l) ==
    LET tab == NewTab(l, <<>>, None)
    IN  [l EXCEPT !.tabs = Append(@, tab), !.active = tab.id]

RemovePane(l, p) ==
    LET Without(t) ==
            IF ~Shows(t, p) THEN t
            ELSE LET root == ClosePane(t.root[1], p)
                 IN  [t EXCEPT !.root = root,
                               !.focus = IF @ # p THEN @
                                         ELSE IF root = <<>> THEN None
                                         ELSE ListPanes(root[1])[1],
                               !.zoomed = IF @ = p THEN None ELSE @]
        kept == Rooted(EachTab(l, Without).tabs)
    IN  [tabs   |-> kept,
         active |-> IF \E i \in DOMAIN kept : kept[i].id = l.active THEN l.active
                    ELSE IF kept = <<>> THEN None ELSE kept[1].id,
         panes  |-> l.panes \ {p}]

SetActivePane(l, p) ==
    LET shown == {i \in DOMAIN l.tabs : Shows(l.tabs[i], p)}
        Focused(t) == IF Shows(t, p) THEN [t EXCEPT !.focus = p] ELSE t
    IN  [EachTab(l, Focused) EXCEPT
            !.active = IF shown = {} THEN @
                       ELSE l.tabs[CHOOSE i \in shown : \A j \in shown : i <= j].id]

SetActiveTab(l, id) == [l EXCEPT !.active = id]

SplitFocusedPane(l, dir, p) ==
    LET First(t) == t.root = <<>> \/ t.focus = None
        Divided(t) ==
            IF t.id # l.active THEN t
            ELSE IF First(t) THEN [t EXCEPT !.root = <<Leaf(p)>>, !.focus = p]
            ELSE [t EXCEPT !.root = <<SplitPane(t.root[1], t.focus, dir, p)>>,
                           !.focus = p, !.zoomed = None]
    IN  [EachTab(l, Divided) EXCEPT !.panes = @ \cup {p}]

\* The active tab, if it has a tree and a focused pane, as F makes it.
OnFocused(l, F(_)) ==
    EachTab(l, LAMBDA t : IF t.id = l.active /\ t.root # <<>> /\ t.focus # None
                          THEN F(t) ELSE t)

FocusAdjacentPane(l, forward) ==
    OnFocused(l, LAMBDA t :
        [t EXCEPT !.focus = Beside(t.root[1], t.focus, forward)])

SwapFocusedPane(l) ==
    OnFocused(l, LAMBDA t :
        [t EXCEPT !.root =
            <<SwapPanes(t.root[1], t.focus, Beside(t.root[1], t.focus, TRUE))>>])

ToggleZoom(l) ==
    EachTab(l, LAMBDA t : IF t.id # l.active THEN t
                          ELSE [t EXCEPT !.zoomed = IF @ # None THEN None ELSE t.focus])

\* The panes of every tab, in order.
AllPanes(l) ==
    FlattenSeq([i \in DOMAIN l.tabs |->
        IF l.tabs[i].root = <<>> THEN <<>> ELSE ListPanes(l.tabs[i].root[1])])

\* The panes PaneTree renders: the active tab's, or its zoomed one alone.
Rendered(l) ==
    UNION {LET t == l.tabs[i] IN
               IF t.root = <<>> THEN {}
               ELSE IF Shows(t, t.zoomed) THEN {t.zoomed} ELSE PaneSet(t.root[1])
           : i \in ActiveAt(l)}

-----------------------------------------------------------------------------
(* session.ts.  No pane of this build hosts an agent, so no pane is left   *)
(* out of a snapshot.                                                      *)

\* Every pane of a snapshot's tabs, in the order they are met.
SavedPanes(snap) == FlattenSeq([i \in DOMAIN snap.tabs |-> ListPanes(snap.tabs[i].tree)])

BuildSnapshot(l) ==
    LET rooted == Rooted(l.tabs)
        at == {i \in DOMAIN rooted : rooted[i].id = l.active}
        Saved(t) == [tree  |-> t.root[1],
                     focus |-> IF Shows(t, t.focus) THEN t.focus
                               ELSE ListPanes(t.root[1])[1]]
    IN  [tabs |-> [i \in DOMAIN rooted |-> Saved(rooted[i])],
         at   |-> IF at = {} THEN 1 ELSE CHOOSE i \in at : TRUE]

\* A new pane for each saved one, made in the order the trees name them.
Fresh(snap, base) ==
    [p \in ToSet(SavedPanes(snap)) |->
        base + CHOOSE i \in DOMAIN SavedPanes(snap) : SavedPanes(snap)[i] = p]

\* Mutant: lists the panes as the store made them, not as the trees name them.
RestoreKeysByAge(snap) == SetToSortSeq(ToSet(SavedPanes(snap)), <)

\* The saved pane that each new one stands for, in the order they are made.
RestoreKeys(snap) == SavedPanes(snap)

PlanRestore(snap, fresh) ==
    LET Tab(i) == [id     |-> i,
                   root   |-> Deserialise(snap.tabs[i].tree, fresh),
                   focus  |-> fresh[snap.tabs[i].focus],
                   zoomed |-> None]
    IN  [tabs   |-> [i \in DOMAIN snap.tabs |-> Tab(i)],
         active |-> snap.at,
         panes  |-> {fresh[p] : p \in DOMAIN fresh}]

-----------------------------------------------------------------------------
(* Every tab shows panes the store has, each in one place, in a tree that  *)
(* keeps the two promises of panes.ts, and its focus and its zoom name     *)
(* panes it shows; the active tab exists as long as there is one.          *)
Sound(l) ==
    LET shown == AllPanes(l)
    IN  /\ \A i \in DOMAIN l.tabs :
             /\ l.tabs[i].root # <<>>
             /\ Normal(l.tabs[i].root[1])
             /\ Shows(l.tabs[i], l.tabs[i].focus)
             /\ l.tabs[i].zoomed # None => Shows(l.tabs[i], l.tabs[i].zoomed)
        /\ IsInjective(shown)
        /\ ToSet(shown) \subseteq l.panes
        /\ l.tabs # <<>> => \E i \in DOMAIN l.tabs : ActiveAt(l) = {i}
================================================================================
