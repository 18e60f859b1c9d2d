------------------------------- MODULE PaneTree -------------------------------
(***************************************************************************)
(* The tree of panes in one tab, ui/src/lib/panes.ts: pure operations on   *)
(* values.  A node is a leaf that shows a pane, or a split that lays its   *)
(* children out in one direction.  The fractions of a split only size its  *)
(* children on screen and are left out.  An operation that may leave no    *)
(* tree (the code's `null`) returns a sequence of at most one node.        *)
(*                                                                         *)
(* The code's recursions all make something of a node out of what they     *)
(* made of its children; FoldTree is that recursion.                       *)
(***************************************************************************)
EXTENDS Naturals, Sequences, SequencesExt

Leaf(p) == [type |-> "leaf", pane |-> p]

Split(dir, kids) == [type |-> "split", direction |-> dir, children |-> kids]

\* The trees with at most n splits on the way down to a leaf.
Nodes[n \in Nat] ==
    [type : {"leaf"}, pane : Nat] \cup
    IF n = 0 THEN {}
    ELSE [type : {"split"}, direction : {"row", "column"}, children : Seq(Nodes[n - 1])]

Depth(node) ==
    LET from[n \in Nat] == IF node \in Nodes[n] THEN n ELSE from[n + 1]
    IN  from[0]

\* What OnLeaf makes of each pane and OnSplit of each split and what was made
\* of its children.
FoldTree(OnLeaf(_), OnSplit(_, _), node) ==
    LET fold[t \in Nodes[Depth(node)]] ==
            IF t.type = "leaf" THEN OnLeaf(t.pane)
            ELSE OnSplit(t, [i \in DOMAIN t.children |-> fold[t.children[i]]])
    IN  fold[node]

\* Every pane, in the order focus cycles through them.
ListPanes(node) == FoldTree(LAMBDA p : <<p>>, LAMBDA t, lists : FlattenSeq(lists), node)

PaneSet(node) == ToSet(ListPanes(node))

\* A split of nodes that are normal already: one of its own direction is
\* flattened into it, and a split of one child is that child.
Merged(t, kids) ==
    LET Lifted(kid) == IF kid.type = "split" /\ kid.direction = t.direction
                       THEN kid.children
                       ELSE <<kid>>
        all == FlattenSeq([i \in DOMAIN kids |-> Lifted(kids[i])])
    IN  IF Len(all) = 1 THEN all[1] ELSE Split(t.direction, all)

Normalise(node) == FoldTree(Leaf, Merged, node)

With(t, kids) == [t EXCEPT !.children = kids]

\* The leaf that shows `target` becomes the node `new`.
ReplaceLeaf(node, target, new) ==
    FoldTree(LAMBDA p : IF p = target THEN new ELSE Leaf(p), With, node)

SplitPane(root, target, dir, new) ==
    Normalise(ReplaceLeaf(root, target, Split(dir, <<Leaf(target), Leaf(new)>>)))

SwapPanes(root, a, b) ==
    FoldTree(LAMBDA p : Leaf(IF p = a THEN b ELSE IF p = b THEN a ELSE p), With, root)

\* Mutant: forgets to normalise what is left.
AroundBare(t, built) ==
    LET kept == FlattenSeq(built)
    IN  IF kept = <<>> THEN <<>> ELSE <<Split(t.direction, kept)>>

\* A split closes around the children that are left of it.
Around(t, built) ==
    LET kept == FlattenSeq(built)
    IN  IF kept = <<>> THEN <<>> ELSE <<Normalise(Split(t.direction, kept))>>

\* The tree without a pane: at most one node.
ClosePane(node, p) ==
    FoldTree(LAMBDA q : IF q = p THEN <<>> ELSE <<Leaf(q)>>, Around, node)

\* A saved tree with fresh panes: a leaf without one is dropped.
Deserialise(node, fresh) ==
    FoldTree(LAMBDA p : IF p \in DOMAIN fresh THEN <<Leaf(fresh[p])>> ELSE <<>>, Around, node)

\* The pane before or after another in focus order, wrapping at the ends.
Beside(root, p, forward) ==
    LET all == ListPanes(root)
        at  == CHOOSE i \in DOMAIN all : all[i] = p
    IN  IF forward
        THEN all[(at % Len(all)) + 1]
        ELSE all[((at + Len(all) - 2) % Len(all)) + 1]

-----------------------------------------------------------------------------
(* What the header of panes.ts promises of every tree: no split of one     *)
(* child, and none directly inside another of its direction.               *)

NormalSplit(t, normal) ==
    /\ Len(t.children) >= 2
    /\ \A i \in DOMAIN t.children :
          /\ normal[i]
          /\ t.children[i].type = "split" => t.children[i].direction # t.direction

Normal(node) == FoldTree(LAMBDA p : TRUE, NormalSplit, node)

===============================================================================
