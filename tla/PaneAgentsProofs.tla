-------------------------- MODULE PaneAgentsProofs --------------------------
(***************************************************************************)
(* For every number of panes, sessions, notifications and restarts: no two *)
(* agent sessions share a Thread and each comes back to its own (Owned,    *)
(* LeftOnce); a log's lines are taken in once and whole (Reading); and no  *)
(* command they tell of vanishes from the Blocks (Typed).                  *)
(***************************************************************************)
EXTENDS PaneAgents, FiniteSetTheorems, SequenceInduction

(* Who a Thread was made for never changes, and whoever names a Thread does  *)
(* so for that session: the map, the rows, and the notifications under way.  *)
Made(t, s) == t \in 1..Len(made) /\ made[t] = s

SpawnedWell == notice = [n \in Notices |-> notice[n]] /\
    \A n \in Notices : notice[n].stage = "spawned" => notice[n].session \in Sessions

ObservedWell ==
    \A n \in Notices : notice[n].stage = "observed" =>
       /\ Made(notice[n].thread, notice[n].session)
       /\ {"stage", "session", "thread"} \subseteq DOMAIN notice[n]

FollowedWell ==
    /\ following = [s \in Sessions |-> following[s]]
    /\ \A s \in Sessions : Following(s) =>
          "thread" \in DOMAIN following[s] /\ Made(following[s].thread, s)

RowsWell == \A t \in DOMAIN rows : Made(t, rows[t].session)

Owned == /\ made \in Seq(Sessions)
         /\ SpawnedWell /\ ObservedWell /\ FollowedWell /\ RowsWell

(* What TakeIn does to the state the invariant reads. *)
LEMMA TakenIn ==
  ASSUME NEW n \in Notices, NEW o, TakeIn(n, o), "thread" \in DOMAIN o
  PROVE  /\ made' = IF o.thread > Len(made) THEN Append(made, notice[n].session) ELSE made
         /\ \E f : /\ following' = [following EXCEPT ![notice[n].session] = f]
                   /\ f.thread = o.thread /\ "thread" \in DOMAIN f
         /\ \E r : /\ notice' = [notice EXCEPT ![n] = r]
                   /\ \/ r = Gone
                      \/ /\ r.stage = "observed" /\ r.session = notice[n].session
                         /\ r.thread = o.thread
                         /\ {"stage", "session", "thread"} \subseteq DOMAIN r
<1>1. /\ made' = IF o.thread > Len(made) THEN Append(made, notice[n].session) ELSE made
      /\ \E a, b : following' = [following EXCEPT ![notice[n].session] =
                                   [o EXCEPT !.prompted = a, !.reader = b]]
      /\ \E row, todo : Left(n, [stage |-> "observed", session |-> notice[n].session,
                                 thread |-> o.thread, row |-> row, todo |-> todo])
  BY DEF TakeIn
<1>2. ASSUME NEW a, NEW b
      PROVE  /\ [o EXCEPT !.prompted = a, !.reader = b].thread = o.thread
             /\ "thread" \in DOMAIN [o EXCEPT !.prompted = a, !.reader = b]
  OBVIOUS
<1>3. PICK a, b : following' = [following EXCEPT ![notice[n].session] =
                                  [o EXCEPT !.prompted = a, !.reader = b]]
  BY <1>1
<1>4. PICK row, todo : Left(n, [stage |-> "observed", session |-> notice[n].session,
                                thread |-> o.thread, row |-> row, todo |-> todo])
  BY <1>1
<1>5. \E f : /\ following' = [following EXCEPT ![notice[n].session] = f]
             /\ f.thread = o.thread /\ "thread" \in DOMAIN f
  <2> WITNESS [o EXCEPT !.prompted = a, !.reader = b]
  <2> QED BY <1>2, <1>3
<1>6. \E r : /\ notice' = [notice EXCEPT ![n] = r]
             /\ \/ r = Gone
                \/ /\ r.stage = "observed" /\ r.session = notice[n].session
                   /\ r.thread = o.thread
                   /\ {"stage", "session", "thread"} \subseteq DOMAIN r
  <2> DEFINE rest == [stage |-> "observed", session |-> notice[n].session,
                      thread |-> o.thread, row |-> row, todo |-> todo]
  <2> WITNESS IF rest.row = NoRow /\ rest.todo = <<>> THEN Gone ELSE rest
  <2> QED BY <1>4 DEF Left
<1> QED BY <1>1, <1>5, <1>6

(* A Thread once made stays its session's, whatever is made after it. *)
LEMMA MadeStays ==
  ASSUME made \in Seq(Sessions), NEW s \in Sessions, made' \in {made, Append(made, s)},
         NEW t, NEW q, Made(t, q)
  PROVE  Made(t, q)'
  BY DEF Made

(* observe opens a session on a Thread made for it, or on a new one.         *)
LEMMA ObserveKeeps ==
  ASSUME Owned, NEW n \in Notices, Observe(n)
  PROVE  Owned'
<1>0. PICK s : s = notice[n].session
  OBVIOUS
<1>1. s \in Sessions /\ UNCHANGED rows
  BY <1>0 DEF Owned, SpawnedWell, Observe
<1>2. PICK o \in Known(s, notice[n].pane) : TakeIn(n, o)
  BY <1>0 DEF Observe
<1>3. "thread" \in DOMAIN o /\ (Made(o.thread, s) \/ o.thread = Len(made) + 1)
  <2>1. CASE Following(s)
    BY <1>1, <1>2, <2>1 DEF Known, Following, Owned, FollowedWell
  <2>2. CASE ~Following(s)
    <3>1. o \in Open(s, notice[n].pane)
      BY <1>2, <2>2 DEF Known, Following
    <3>2. CASE RowsOf(s, rows) # {}
      BY <3>1, <3>2 DEF Open, RowsOf, Owned, RowsWell
    <3>3. CASE RowsOf(s, rows) = {}
      BY <3>1, <3>3 DEF Open
    <3> QED BY <3>2, <3>3
  <2> QED BY <2>1, <2>2
<1>4. made' = IF o.thread > Len(made) THEN Append(made, s) ELSE made
  BY <1>0, <1>2, <1>3, TakenIn
<1>5. made \in Seq(Sessions) /\ made' \in {made, Append(made, s)}
  BY <1>4 DEF Owned
<1>6. made' \in Seq(Sessions)
  BY <1>1, <1>5, AppendProperties
<1>7. Made(o.thread, s)'
  <2>1. CASE Made(o.thread, s)
    BY <1>1, <1>5, <2>1, MadeStays
  <2>2. CASE o.thread = Len(made) + 1
    BY <1>1, <1>4, <1>5, <2>2 DEF Made
  <2> QED BY <1>3, <2>1, <2>2
<1>8. \A t, q : Made(t, q) => Made(t, q)'
  BY <1>1, <1>5, MadeStays
<1>9. PICK f : /\ following' = [following EXCEPT ![s] = f]
               /\ f.thread = o.thread /\ "thread" \in DOMAIN f
  BY <1>0, <1>2, <1>3, TakenIn
<1>10. PICK r : /\ notice' = [notice EXCEPT ![n] = r]
                /\ \/ r = Gone
                   \/ /\ r.stage = "observed" /\ r.session = s /\ r.thread = o.thread
                      /\ {"stage", "session", "thread"} \subseteq DOMAIN r
  BY <1>0, <1>2, <1>3, TakenIn
<1>11. FollowedWell'
  BY <1>1, <1>7, <1>8, <1>9 DEF Owned, FollowedWell, Following
<1>12. SpawnedWell' /\ ObservedWell'
  BY <1>0, <1>1, <1>7, <1>8, <1>10 DEF Owned, SpawnedWell, ObservedWell, Gone
<1>13. RowsWell'
  BY <1>1, <1>8 DEF Owned, RowsWell
<1> QED BY <1>6, <1>11, <1>12, <1>13 DEF Owned

(* The steps that make no Thread keep every claim on one. *)
LEMMA OthersKeep == UNCHANGED <<made, following, rows, notice>> /\ Owned => Owned'
  BY DEF Owned, SpawnedWell, ObservedWell, FollowedWell, RowsWell, Following, Made

(* The other steps, one by one.                                              *)
LEMMA NotifyKeeps ==
  ASSUME Owned, NEW n \in Notices, NEW s \in Sessions, NEW p \in Panes, NEW k \in Kinds,
         Notify(n, s, p, k)
  PROVE  Owned'
  BY DEF Notify, Owned, SpawnedWell, ObservedWell, FollowedWell, RowsWell, Following, Made

(* A notification that goes on with its work, or ends, claims nothing new. *)
LEMMA GoingOn ==
  ASSUME Owned, NEW n \in Notices, notice[n].stage = "observed", NEW r,
         notice' = [notice EXCEPT ![n] = r],
         \/ r = Gone
         \/ /\ r.stage = "observed" /\ r.session = notice[n].session
            /\ r.thread = notice[n].thread
            /\ {"stage", "session", "thread"} \subseteq DOMAIN r,
         UNCHANGED made
  PROVE  SpawnedWell' /\ ObservedWell'
  BY DEF Owned, SpawnedWell, ObservedWell, Made, Gone

(* The row a notification writes is of its own Thread.                       *)
LEMMA UpsertKeeps ==
  ASSUME Owned, NEW n \in Notices, UpsertThread(n)
  PROVE  Owned'
<1>1. notice[n].stage = "observed" /\ UNCHANGED <<made, following>>
  BY DEF UpsertThread
<1>2. RowsWell'
  BY <1>1 DEF UpsertThread, Owned, ObservedWell, RowsWell, Made
<1>3. FollowedWell'
  BY <1>1 DEF Owned, FollowedWell, Following, Made
<1>4. SpawnedWell' /\ ObservedWell'
  <2> DEFINE rest == [notice[n] EXCEPT !.row = NoRow]
  <2>1. Left(n, rest)
    BY DEF UpsertThread
  <2>2. /\ rest.stage = "observed" /\ rest.session = notice[n].session
        /\ rest.thread = notice[n].thread
        /\ {"stage", "session", "thread"} \subseteq DOMAIN rest
    BY <1>1 DEF Owned, ObservedWell
  <2> HIDE DEF rest
  <2>3. PICK r : r = IF rest.row = NoRow /\ rest.todo = <<>> THEN Gone ELSE rest
    OBVIOUS
  <2>4. notice' = [notice EXCEPT ![n] = r]
    BY <2>1, <2>3 DEF Left
  <2> QED BY <1>1, <2>2, <2>3, <2>4, GoingOn
<1> QED BY <1>1, <1>2, <1>3, <1>4 DEF Owned

(* Its events change nothing the invariant reads.                            *)
LEMMA AppendKeeps ==
  ASSUME Owned, NEW n \in Notices, AppendEvent(n)
  PROVE  Owned'
<1>1. notice[n].stage = "observed" /\ UNCHANGED <<made, following, rows>>
  BY DEF AppendEvent
<1>2. RowsWell' /\ FollowedWell'
  BY <1>1 DEF Owned, FollowedWell, Following, Made, RowsWell
<1>3. SpawnedWell' /\ ObservedWell'
  <2> DEFINE rest == [notice[n] EXCEPT !.todo = Tail(@)]
  <2>1. Left(n, rest)
    BY DEF AppendEvent
  <2>2. /\ rest.stage = "observed" /\ rest.session = notice[n].session
        /\ rest.thread = notice[n].thread
        /\ {"stage", "session", "thread"} \subseteq DOMAIN rest
    BY <1>1 DEF Owned, ObservedWell
  <2> HIDE DEF rest
  <2>3. PICK r : r = IF rest.row = NoRow /\ rest.todo = <<>> THEN Gone ELSE rest
    OBVIOUS
  <2>4. notice' = [notice EXCEPT ![n] = r]
    BY <2>1, <2>3 DEF Left
  <2> QED BY <1>1, <2>2, <2>3, <2>4, GoingOn
<1> QED BY <1>1, <1>2, <1>3 DEF Owned

(* Forgetting only takes claims away. *)
LEMMA ExitKeeps ==
  ASSUME Owned, NEW p \in Panes, PaneExits(p)
  PROVE  Owned'
<1>1. UNCHANGED <<made, rows, notice>>
  BY DEF PaneExits
<1>2. FollowedWell'
  BY <1>1 DEF PaneExits, Owned, FollowedWell, Following, Made, Unfollowed
<1> QED
  BY <1>1, <1>2 DEF Owned, SpawnedWell, ObservedWell, RowsWell, Made

(* Pruning leaves some of the rows as they are.                              *)
LEMMA PruneKeeps ==
  ASSUME RowsWell, NEW aged, Prune(aged), UNCHANGED made
  PROVE  RowsWell'
  BY DEF Prune, RowsWell, Made

LEMMA KeepAllKeeps ==
  ASSUME RowsWell, KeepAll, UNCHANGED made
  PROVE  RowsWell'
  BY DEF KeepAll, RowsWell, Made

(* So does a change of the retention, with the program running, ...          *)
LEMMA RetentionKeeps == Owned /\ SetRetention => Owned'
<1> SUFFICES ASSUME Owned, SetRetention PROVE Owned'
  OBVIOUS
<1>1. UNCHANGED <<made, following, notice>>
  BY DEF SetRetention
<1>2. RowsWell'
  BY <1>1, PruneKeeps DEF SetRetention, Owned
<1> QED
  BY <1>1, <1>2 DEF Owned, SpawnedWell, ObservedWell, FollowedWell, Following, Made

(* ... and a restart, after which the rows are all there is.                 *)
LEMMA RestartKeeps == Owned /\ Restart => Owned'
<1> SUFFICES ASSUME Owned, Restart PROVE Owned'
  OBVIOUS
<1>1. UNCHANGED made
  BY DEF Restart
<1>2. RowsWell'
  BY <1>1, PruneKeeps, KeepAllKeeps DEF Restart, Owned
<1>3. FollowedWell'
  BY DEF Restart, FollowedWell, Following
<1>4. SpawnedWell' /\ ObservedWell'
  BY DEF Restart, SpawnedWell, ObservedWell, Unborn, Gone
<1> QED
  BY <1>1, <1>2, <1>3, <1>4 DEF Owned

(* Every step keeps a Thread with the session it was made for.               *)
LEMMA OwnedStep == Owned /\ [Next]_vars => Owned'
<1> SUFFICES ASSUME Owned, [Next]_vars PROVE Owned'
  OBVIOUS
<1>1. ASSUME NEW n \in Notices, NEW s \in Sessions, NEW p \in Panes, NEW k \in Kinds,
             Notify(n, s, p, k)
      PROVE  Owned'
  BY <1>1, NotifyKeeps
<1>2. ASSUME NEW s \in Sessions, AgentWrites(s) \/ AgentReplacesLog(s) PROVE Owned'
  BY <1>2, OthersKeep DEF AgentWrites, AgentReplacesLog
<1>3. ASSUME NEW n \in Notices, Observe(n) \/ UpsertThread(n) \/ AppendEvent(n) PROVE Owned'
  BY <1>3, ObserveKeeps, UpsertKeeps, AppendKeeps
<1>4. ASSUME NEW p \in Panes, PaneExits(p) PROVE Owned'
  BY <1>4, ExitKeeps
<1>5. CASE SetRetention \/ Restart
  BY <1>5, RetentionKeeps, RestartKeeps
<1>6. CASE UNCHANGED vars
  BY <1>6, OthersKeep DEF vars, paneVars
<1> QED
  BY <1>1, <1>2, <1>3, <1>4, <1>5, <1>6 DEF Next

(* Two agents never merge into one Thread. *)
THEOREM AgentsApart == Spec => []NeverMerged
<1>1. Init => Owned
  BY DEF Init, Owned, SpawnedWell, ObservedWell, FollowedWell, RowsWell, Following,
         Unfollowed, Unborn
<1>2. Owned => NeverMerged
  BY DEF Owned, ObservedWell, FollowedWell, RowsWell, Made, NeverMerged
<1> QED BY <1>1, <1>2, OwnedStep, PTL DEF Spec

-----------------------------------------------------------------------------
(* A session that is neither followed nor saved has been left without a row  *)
(* as often as a Thread was made for it, and any other once less at least.    *)
MadeFor(s) == {t \in DOMAIN made : made[t] = s}
Unsaved(s) == ~Following(s) /\ RowsOf(s, rows) = {}
LeftOnce == /\ lost \in [Sessions -> Nat]
            /\ \A s \in Sessions :
                 /\ Cardinality(MadeFor(s)) <= 1 + lost[s]
                 /\ MadeFor(s) # {} /\ Unsaved(s) => Cardinality(MadeFor(s)) <= lost[s]

(* The Threads of a session can be counted.                                  *)
LEMMA MadeForFinite ==
  ASSUME made \in Seq(Sessions), NEW s
  PROVE  IsFiniteSet(MadeFor(s)) /\ Cardinality(MadeFor(s)) \in Nat
<1>1. MadeFor(s) \subseteq 1..Len(made) /\ Len(made) \in Nat
  BY DEF MadeFor
<1>2. IsFiniteSet(1..Len(made))
  BY <1>1, FS_Interval
<1>3. IsFiniteSet(MadeFor(s))
  BY <1>1, <1>2, FS_Subset
<1> QED BY <1>3, FS_CardinalityType

(* A session's Threads are one more when one is made for it.                 *)
LEMMA MadeForNew ==
  ASSUME made \in Seq(Sessions), NEW s \in Sessions, made' = Append(made, s)
  PROVE  /\ Cardinality(MadeFor(s)') = Cardinality(MadeFor(s)) + 1
         /\ \A q : q # s => MadeFor(q)' = MadeFor(q)
<1>1. /\ made' \in Seq(Sessions) /\ Len(made') = Len(made) + 1 /\ Len(made) \in Nat
      /\ \A i \in 1..Len(made) : made'[i] = made[i]
      /\ made'[Len(made) + 1] = s
      /\ DOMAIN made = 1..Len(made) /\ DOMAIN made' = 1..(Len(made) + 1)
  BY AppendProperties
<1>2. MadeFor(s)' = MadeFor(s) \cup {Len(made) + 1} /\ Len(made) + 1 \notin MadeFor(s)
  BY <1>1 DEF MadeFor
<1>3. \A q : q # s => MadeFor(q)' = MadeFor(q)
  BY <1>1 DEF MadeFor
<1>4. PICK M : M = MadeFor(s)
  OBVIOUS
<1>5. IsFiniteSet(M)
  BY <1>4, MadeForFinite
<1>6. Cardinality(M \cup {Len(made) + 1}) = Cardinality(M) + 1
  BY <1>2, <1>4, <1>5, FS_AddElement
<1> QED BY <1>2, <1>3, <1>4, <1>6

(* The steps that make no Thread and let none go.                            *)
LEMMA NoneLeft ==
  ASSUME Owned, LeftOnce, UNCHANGED <<made, lost>>,
         \A s \in Sessions : Unsaved(s)' => Unsaved(s)
  PROVE  LeftOnce'
<1>1. \A s : MadeFor(s)' = MadeFor(s)
  BY DEF MadeFor
<1> QED BY <1>1 DEF LeftOnce

(* A Thread is made only for a session that was left without a row.          *)
LEMMA ObserveLeaves ==
  ASSUME Owned, LeftOnce, NEW n \in Notices, Observe(n)
  PROVE  LeftOnce'
<1>0. PICK s : s = notice[n].session
  OBVIOUS
<1>1. s \in Sessions /\ UNCHANGED <<rows, lost>>
  BY <1>0 DEF Owned, SpawnedWell, Observe
<1>2. PICK o \in Known(s, notice[n].pane) : TakeIn(n, o)
  BY <1>0 DEF Observe
<1>3. /\ "thread" \in DOMAIN o
      /\ \/ Made(o.thread, s)
         \/ o.thread = Len(made) + 1 /\ Unsaved(s)
  <2>1. CASE Following(s)
    BY <1>1, <1>2, <2>1 DEF Known, Following, Owned, FollowedWell
  <2>2. CASE ~Following(s)
    <3>1. o \in Open(s, notice[n].pane)
      BY <1>2, <2>2 DEF Known, Following
    <3>2. CASE RowsOf(s, rows) # {}
      BY <3>1, <3>2 DEF Open, RowsOf, Owned, RowsWell
    <3>3. CASE RowsOf(s, rows) = {}
      BY <2>2, <3>1, <3>3 DEF Open, Unsaved
    <3> QED BY <3>2, <3>3
  <2> QED BY <2>1, <2>2
<1>4. made' = IF o.thread > Len(made) THEN Append(made, s) ELSE made
  BY <1>0, <1>2, <1>3, TakenIn
<1>5. made \in Seq(Sessions) /\ Len(made) \in Nat /\ following = [q \in Sessions |-> following[q]]
  BY DEF Owned, FollowedWell
<1>6. PICK f : /\ following' = [following EXCEPT ![s] = f]
               /\ f.thread = o.thread /\ "thread" \in DOMAIN f
  BY <1>0, <1>2, <1>3, TakenIn
<1>7. Following(s)'
  <2>1. o.thread # 0
    BY <1>3, <1>5 DEF Made
  <2>2. following'[s] = f
    BY <1>1, <1>5, <1>6
  <2> QED BY <1>6, <2>1, <2>2 DEF Following, Unfollowed
<1>8. \A q \in Sessions : Unsaved(q)' => Unsaved(q) /\ q # s
  BY <1>1, <1>5, <1>6, <1>7 DEF Unsaved, Following
<1>9. CASE Made(o.thread, s)
  <2>1. made' = made
    BY <1>4, <1>5, <1>9 DEF Made
  <2> QED BY <1>1, <1>8, <2>1, NoneLeft
<1>10. CASE o.thread = Len(made) + 1 /\ Unsaved(s)
  <2>1. made' = Append(made, s)
    BY <1>4, <1>5, <1>10
  <2>2. /\ Cardinality(MadeFor(s)') = Cardinality(MadeFor(s)) + 1
        /\ \A q : q # s => MadeFor(q)' = MadeFor(q)
    BY <1>1, <1>5, <2>1, MadeForNew
  <2>3. Cardinality(MadeFor(s)) \in Nat /\ lost[s] \in Nat
    BY <1>1, <1>5, MadeForFinite DEF LeftOnce
  <2>4. Cardinality(MadeFor(s)) <= lost[s]
    <3>1. CASE MadeFor(s) = {}
      <4>1. Cardinality(MadeFor(s)) = 0
        BY <3>1, FS_EmptySet
      <4> QED BY <2>3, <4>1
    <3>2. CASE MadeFor(s) # {}
      BY <1>1, <1>10, <3>2 DEF LeftOnce
    <3> QED BY <3>1, <3>2
  <2>5. Cardinality(MadeFor(s)') <= 1 + lost[s]
    BY <2>2, <2>3, <2>4
  <2> QED BY <1>1, <1>8, <2>2, <2>5 DEF LeftOnce
<1> QED BY <1>3, <1>9, <1>10

(* Whoever forgets a session without a row counts it as left.                *)
LEMMA ForgettingCounts ==
  ASSUME LeftOnce, made \in Seq(Sessions), UNCHANGED made, NEW S, NEW table,
         lost' = LeftWithout(S, table),
         \A s \in Sessions : MadeFor(s) # {} /\ Unsaved(s)' =>
           Unsaved(s) \/ (s \in S /\ RowsOf(s, table) = {})
  PROVE  LeftOnce'
<1>1. \A s \in Sessions : MadeFor(s)' = MadeFor(s) /\ Cardinality(MadeFor(s)) \in Nat
  BY MadeForFinite DEF MadeFor
<1>2. \A s \in Sessions : lost[s] \in Nat
  BY DEF LeftOnce
<1>3. /\ lost' \in [Sessions -> Nat]
      /\ \A s \in Sessions :
           /\ lost'[s] >= lost[s]
           /\ s \in S /\ RowsOf(s, table) = {} => lost'[s] = lost[s] + 1
  BY <1>2 DEF LeftWithout
<1>4. ASSUME NEW s \in Sessions
      PROVE  /\ Cardinality(MadeFor(s)) <= 1 + lost'[s]
             /\ MadeFor(s) # {} /\ Unsaved(s)' => Cardinality(MadeFor(s)) <= lost'[s]
  <2>1. /\ Cardinality(MadeFor(s)) \in Nat /\ lost[s] \in Nat /\ lost'[s] \in Nat
        /\ lost'[s] >= lost[s] /\ Cardinality(MadeFor(s)) <= 1 + lost[s]
        /\ MadeFor(s) # {} /\ Unsaved(s) => Cardinality(MadeFor(s)) <= lost[s]
    BY <1>1, <1>2, <1>3 DEF LeftOnce
  <2>2. ASSUME MadeFor(s) # {}, Unsaved(s)' PROVE Cardinality(MadeFor(s)) <= lost'[s]
    <3>1. CASE Unsaved(s)
      BY <2>1, <2>2, <3>1
    <3>2. CASE s \in S /\ RowsOf(s, table) = {}
      BY <1>3, <2>1, <3>2
    <3> QED BY <2>2, <3>1, <3>2
  <2> QED BY <2>1, <2>2
<1> QED BY <1>1, <1>3, <1>4 DEF LeftOnce

(* Every step counts the sessions it leaves.                                 *)
LEMMA LeftStep == Owned /\ LeftOnce /\ [Next]_vars => LeftOnce'
<1> SUFFICES ASSUME Owned, LeftOnce, [Next]_vars PROVE LeftOnce'
  OBVIOUS
<1>a. made \in Seq(Sessions) /\ following = [s \in Sessions |-> following[s]]
  BY DEF Owned, FollowedWell
<1>b. ASSUME UNCHANGED <<made, following, rows, lost>> PROVE LeftOnce'
  BY <1>b, NoneLeft DEF Unsaved, Following
<1>1. ASSUME NEW n \in Notices, NEW s \in Sessions, NEW p \in Panes, NEW k \in Kinds,
             Notify(n, s, p, k)
      PROVE  LeftOnce'
  BY <1>1, <1>b DEF Notify
<1>2. ASSUME NEW s \in Sessions, AgentWrites(s) \/ AgentReplacesLog(s) PROVE LeftOnce'
  BY <1>2, <1>b DEF AgentWrites, AgentReplacesLog
<1>3. ASSUME NEW n \in Notices, Observe(n) PROVE LeftOnce'
  BY <1>3, ObserveLeaves
<1>4. ASSUME NEW n \in Notices, AppendEvent(n) PROVE LeftOnce'
  BY <1>4, <1>b DEF AppendEvent
<1>5. ASSUME NEW n \in Notices, UpsertThread(n) PROVE LeftOnce'
  <2>1. /\ UNCHANGED <<made, following, lost>> /\ notice[n].stage = "observed"
        /\ rows' = [t \in DOMAIN rows \cup {notice[n].thread} |->
                      IF t = notice[n].thread
                      THEN [session |-> notice[n].session, title |-> notice[n].row] ELSE rows[t]]
    BY <1>5 DEF UpsertThread
  <2>2. ASSUME NEW t \in DOMAIN rows PROVE t \in DOMAIN rows' /\ rows'[t].session = rows[t].session
    <3>1. CASE t = notice[n].thread
      <4>1. made[t] = notice[n].session /\ made[t] = rows[t].session
        BY <2>1, <2>2, <3>1 DEF Owned, ObservedWell, RowsWell, Made
      <4> QED BY <2>1, <3>1, <4>1
    <3>2. CASE t # notice[n].thread
      BY <2>1, <2>2, <3>2
    <3> QED BY <3>1, <3>2
  <2>3. \A s \in Sessions : Unsaved(s)' => Unsaved(s)
    BY <2>1, <2>2 DEF Unsaved, Following, RowsOf
  <2> QED BY <2>1, <2>3, NoneLeft
<1>6. ASSUME NEW p \in Panes, PaneExits(p) PROVE LeftOnce'
  <2> DEFINE gone == {s \in Sessions : following[s] # Unfollowed /\ following[s].pane = p}
  <2>1. /\ following' = [s \in Sessions |-> IF s \in gone THEN Unfollowed ELSE following[s]]
        /\ lost' = LeftWithout(gone, rows) /\ UNCHANGED <<made, rows>>
    BY <1>6 DEF PaneExits
  <2>2. \A s \in Sessions : Unsaved(s)' => Unsaved(s) \/ (s \in gone /\ RowsOf(s, rows) = {})
    BY <2>1 DEF Unsaved, Following
  <2> HIDE DEF gone
  <2> QED BY <1>a, <2>1, <2>2, ForgettingCounts
<1>7. CASE SetRetention \/ Restart
  <2>1. /\ lost' = LeftWithout(Range(made), rows') /\ UNCHANGED made
    BY <1>7 DEF SetRetention, Restart, Prune, KeepAll
  <2>2. ASSUME NEW s \in Sessions, MadeFor(s) # {}, Unsaved(s)'
        PROVE  s \in Range(made) /\ RowsOf(s, rows') = {}
    BY <2>2 DEF MadeFor, Range, Unsaved
  <2> QED BY <1>a, <2>1, <2>2, ForgettingCounts
<1>8. CASE UNCHANGED vars
  BY <1>8, <1>b DEF vars, paneVars
<1> QED BY <1>1, <1>2, <1>3, <1>4, <1>5, <1>6, <1>7, <1>8 DEF Next

(* No Thread is made when it all begins.                                     *)
LEMMA Begins == Init => Owned /\ LeftOnce
<1> SUFFICES ASSUME Init PROVE Owned /\ LeftOnce
  OBVIOUS
<1>1. Owned
  BY DEF Init, Owned, SpawnedWell, ObservedWell, FollowedWell, RowsWell, Following,
         Unfollowed, Unborn
<1>2. \A s : MadeFor(s) = {}
  BY DEF Init, MadeFor
<1>3. lost \in [Sessions -> Nat] /\ \A s \in Sessions : 0 <= 1 + lost[s]
  BY DEF Init
<1>4. Cardinality({}) = 0
  BY FS_EmptySet
<1> QED BY <1>1, <1>2, <1>3, <1>4 DEF LeftOnce

(* A session comes back to its Thread: it gets another only after a restart, *)
(* a pane's exit or a prune left it with no row to come back to.             *)
THEOREM SessionsLandBack == Spec => []LandsBack
<1>1. LeftOnce => LandsBack
  BY DEF LeftOnce, LandsBack, MadeFor
<1> QED BY <1>1, Begins, OwnedStep, LeftStep, PTL DEF Spec

-----------------------------------------------------------------------------
(* Lines, as the sequence of what each unit completes.                       *)
Completed(buf) == [i \in DOMAIN buf |-> IF Parses(buf, i) THEN <<buf[i].line>> ELSE <<>>]

(* Its parts are lines.                                                      *)
LEMMA CompletedTyped ==
  ASSUME NEW a \in Seq(Units)
  PROVE  Completed(a) \in Seq(Seq(LogLines)) /\ Len(Completed(a)) = Len(a)
<1>1. \A i \in 1..Len(a) : a[i].line \in LogLines
  <2>1. \A i \in 1..Len(a) : a[i] \in Units
    OBVIOUS
  <2>2. \A u \in Units : u.line \in LogLines
    BY DEF Units
  <2> QED BY <2>1, <2>2, Zenon
<1>2. \A x \in LogLines : <<x>> \in Seq(LogLines)
  OBVIOUS
<1>3. <<>> \in Seq(LogLines)
  OBVIOUS
<1>4. \A i \in 1..Len(a) : (IF Parses(a, i) THEN <<a[i].line>> ELSE <<>>) \in Seq(LogLines)
  BY <1>1, <1>2, <1>3, Zenon
<1>5. DOMAIN a = 1..Len(a) /\ Len(a) \in Nat
  OBVIOUS
<1>6. Completed(a) = [i \in 1..Len(a) |-> IF Parses(a, i) THEN <<a[i].line>> ELSE <<>>]
  BY <1>5, Zenon DEF Completed
<1>7. Completed(a) \in [1..Len(a) -> Seq(LogLines)]
  BY <1>4, <1>6, Zenon
<1> QED BY <1>5, <1>7

(* Reading on from the end of a line gives the lines of either part.         *)
LEMMA LinesConcat ==
  ASSUME NEW a \in Seq(Units), NEW b \in Seq(Units),
         a = <<>> \/ b = <<>> \/ b[1].part # "tail"
  PROVE  LinesIn(a \o b) = LinesIn(a) \o LinesIn(b)
<1>0. a \o b \in Seq(Units) /\ Len(a) \in Nat /\ Len(b) \in Nat /\ Len(a \o b) = Len(a) + Len(b)
  BY ConcatProperties
<1>1. /\ Completed(a) \in Seq(Seq(LogLines)) /\ Len(Completed(a)) = Len(a)
      /\ Completed(b) \in Seq(Seq(LogLines)) /\ Len(Completed(b)) = Len(b)
      /\ Completed(a \o b) \in Seq(Seq(LogLines)) /\ Len(Completed(a \o b)) = Len(a \o b)
  BY <1>0, CompletedTyped
<1>2. /\ \A i \in 1..Len(a) : (a \o b)[i] = a[i]
      /\ \A i \in 1..Len(b) : (a \o b)[Len(a) + i] = b[i]
  BY ConcatProperties
<1>3. \A i \in 1..Len(a) : Parses(a \o b, i) <=> Parses(a, i)
  BY <1>2, Zenon DEF Parses
<1>4. \A i \in 1..Len(b) : Parses(a \o b, Len(a) + i) <=> Parses(b, i)
  <2> SUFFICES ASSUME NEW i \in 1..Len(b)
               PROVE  Parses(a \o b, Len(a) + i) <=> Parses(b, i)
    OBVIOUS
  <2>1. (a \o b)[Len(a) + i] = b[i]
    BY <1>2
  <2>2. CASE a = <<>>
    <3>1. Len(a) + i = i
      BY <2>2
    <3> QED BY <2>1, <3>1, Zenon DEF Parses
  <2>3. CASE b[1].part # "tail" /\ a # <<>>
    <3>1. Len(a) + i > 1 /\ (i > 1 \/ i = 1)
      BY <1>0, <2>3, EmptySeq
    <3> QED BY <2>1, <2>3, <3>1, Zenon DEF Parses
  <2> QED BY <1>0, <2>2, <2>3
<1>5. \A i \in 1..Len(a) : Completed(a \o b)[i] = Completed(a)[i]
  <2>1. \A i \in 1..Len(a) : i \in 1..Len(a \o b)
    BY <1>0
  <2>2. DOMAIN a = 1..Len(a) /\ DOMAIN (a \o b) = 1..Len(a \o b)
    BY <1>0
  <2> SUFFICES ASSUME NEW i \in 1..Len(a) PROVE Completed(a \o b)[i] = Completed(a)[i]
    OBVIOUS
  <2>3. /\ Completed(a \o b)[i] = IF Parses(a \o b, i) THEN <<(a \o b)[i].line>> ELSE <<>>
        /\ Completed(a)[i] = IF Parses(a, i) THEN <<a[i].line>> ELSE <<>>
    BY <2>1, <2>2, Zenon DEF Completed
  <2> QED BY <1>2, <1>3, <2>3, Zenon
<1>6. \A i \in 1..Len(b) : Completed(a \o b)[Len(a) + i] = Completed(b)[i]
  <2>1. \A i \in 1..Len(b) : Len(a) + i \in 1..Len(a \o b)
    BY <1>0
  <2>2. DOMAIN b = 1..Len(b) /\ DOMAIN (a \o b) = 1..Len(a \o b)
    BY <1>0
  <2> SUFFICES ASSUME NEW i \in 1..Len(b)
               PROVE  Completed(a \o b)[Len(a) + i] = Completed(b)[i]
    OBVIOUS
  <2>3. /\ Completed(a \o b)[Len(a) + i] =
             IF Parses(a \o b, Len(a) + i) THEN <<(a \o b)[Len(a) + i].line>> ELSE <<>>
        /\ Completed(b)[i] = IF Parses(b, i) THEN <<b[i].line>> ELSE <<>>
    BY <2>1, <2>2, Zenon DEF Completed
  <2> QED BY <1>2, <1>4, <2>3, Zenon
<1>7. Completed(a \o b) = Completed(a) \o Completed(b)
  <2>1. PICK c \in Seq(Seq(LogLines)), x \in Seq(Seq(LogLines)), y \in Seq(Seq(LogLines)) :
          c = Completed(a \o b) /\ x = Completed(a) /\ y = Completed(b)
    BY <1>1
  <2>2. /\ Len(x) = Len(a) /\ Len(y) = Len(b) /\ Len(c) = Len(x) + Len(y)
        /\ \A i \in 1..Len(x) : c[i] = x[i]
        /\ \A i \in 1..Len(y) : c[Len(x) + i] = y[i]
    BY <1>0, <1>1, <1>5, <1>6, <2>1
  <2>3. /\ x \o y \in Seq(Seq(LogLines)) /\ Len(x \o y) = Len(x) + Len(y)
        /\ \A i \in 1..Len(x \o y) : (x \o y)[i] = IF i <= Len(x) THEN x[i] ELSE y[i - Len(x)]
    BY ConcatProperties
  <2>4. \A i \in 1..Len(c) : c[i] = (x \o y)[i]
    <3> SUFFICES ASSUME NEW i \in 1..Len(c) PROVE c[i] = (x \o y)[i]
      OBVIOUS
    <3>1. Len(x) \in Nat /\ Len(y) \in Nat
      OBVIOUS
    <3>2. CASE i <= Len(x)
      <4>1. i \in 1..Len(x)
        BY <3>1, <3>2
      <4> QED BY <2>2, <2>3, <3>2, <4>1
    <3>3. CASE ~(i <= Len(x))
      <4>1. i - Len(x) \in 1..Len(y) /\ Len(x) + (i - Len(x)) = i
        BY <2>2, <3>1, <3>3
      <4> QED BY <2>2, <2>3, <3>3, <4>1
    <3> QED BY <3>2, <3>3
  <2>5. PICK z \in Seq(Seq(LogLines)) : z = x \o y
    BY <2>3
  <2>6. c = z
    <3>1. PICK T : T = Seq(LogLines)
      OBVIOUS
    <3>2. c \in Seq(T) /\ z \in Seq(T) /\ Len(c) = Len(z) /\ \A i \in 1..Len(c) : c[i] = z[i]
      BY <2>2, <2>3, <2>4, <2>5, <3>1
    <3> QED BY <3>2, SeqEqual
  <2> QED BY <2>1, <2>5, <2>6, Zenon
<1>8. FlattenSeq(Completed(a) \o Completed(b)) = FlattenSeq(Completed(a)) \o FlattenSeq(Completed(b))
  BY <1>1, FlattenConcat
<1> QED BY <1>7, <1>8, Zenon DEF LinesIn, Completed

-----------------------------------------------------------------------------
(* A run of a sequence.                                                      *)
LEMMA RunIs ==
  ASSUME NEW S, NEW l \in Seq(S), NEW a \in Nat, NEW m \in Nat, a <= m, m <= Len(l)
  PROVE  /\ SubSeq(l, a + 1, m) \in Seq(S)
         /\ Len(SubSeq(l, a + 1, m)) = m - a
<1>1. \A i \in (a + 1)..m : l[i] \in S
  OBVIOUS
<1>2. a + 1 \in Int /\ m \in Int
  OBVIOUS
<1>3. /\ SubSeq(l, a + 1, m) \in Seq(S)
      /\ Len(SubSeq(l, a + 1, m)) = IF a + 1 <= m THEN m - (a + 1) + 1 ELSE 0
  BY <1>1, <1>2, SubSeqProperties
<1> QED BY <1>3

(* Its items, one by one.                                                    *)
LEMMA RunItems ==
  ASSUME NEW l, NEW a \in Nat, NEW m \in Nat, NEW i \in 1..(m - a)
  PROVE  SubSeq(l, a + 1, m)[i] = l[a + i]
<1>1. a + 1 \in Int /\ m \in Int /\ i \in 1..(m - (a + 1) + 1) /\ (a + 1) + i - 1 = a + i
  OBVIOUS
<1>2. SubSeq(l, a + 1, m)[i] = l[(a + 1) + i - 1]
  BY <1>1
<1> QED BY <1>1, <1>2

(* What a read of at most MaxRead units takes in: a run of the file from     *)
(* where it starts that is empty or ends with a line.                        *)
LEMMA KeptIs ==
  ASSUME NEW l \in Seq(Units), NEW r, r.offset \in Nat
  PROVE  \E k \in Nat : /\ Start(r, l) + k <= Len(l)
                        /\ Kept(r, l) = SubSeq(l, Start(r, l) + 1, Start(r, l) + k)
                        /\ Len(Kept(r, l)) = k
                        /\ k = 0 \/ Ends(l[Start(r, l) + k])
<1>1. PICK a \in Nat : a = Start(r, l) /\ a <= Len(l)
  BY DEF Start
<1>2. PICK m \in Nat : m = Min({Len(l), a + MaxRead}) /\ a <= m /\ m <= Len(l)
  <2>1. Len(l) \in Nat /\ a + MaxRead \in Nat /\ a <= a + MaxRead
    BY ReaderAssumption
  <2> DEFINE two == {Len(l), a + MaxRead}
  <2>2. \E x \in two : \A y \in two : x =< y
    BY <2>1
  <2>3. Min(two) \in two /\ \A y \in two : Min(two) =< y
    BY <2>2, Zenon DEF Min
  <2> QED BY <1>1, <2>1, <2>3
<1>3. PICK buf \in Seq(Units) : /\ buf = Buffer(r, l) /\ buf = SubSeq(l, a + 1, m)
                                /\ Len(buf) = m - a
                                /\ \A i \in 1..(m - a) : buf[i] = l[a + i]
  <2>2. /\ SubSeq(l, a + 1, m) \in Seq(Units)
        /\ Len(SubSeq(l, a + 1, m)) = m - a
        /\ \A i \in 1..(m - a) : SubSeq(l, a + 1, m)[i] = l[a + i]
    <3>1. SubSeq(l, a + 1, m) \in Seq(Units) /\ Len(SubSeq(l, a + 1, m)) = m - a
      BY <1>2, RunIs
    <3>2. \A i \in 1..(m - a) : SubSeq(l, a + 1, m)[i] = l[a + i]
      BY <1>2, RunItems
    <3> QED BY <3>1, <3>2
  <2>3. Buffer(r, l) = SubSeq(l, a + 1, m)
    BY <1>1, <1>2, Zenon DEF Buffer
  <2> QED BY <2>2, <2>3
<1>4. PICK n : n = {i \in DOMAIN buf : Ends(buf[i])}
  OBVIOUS
<1>5. PICK k \in Nat : /\ k = IF n = {} THEN 0 ELSE Max(n)
                       /\ k <= Len(buf)
                       /\ \/ k = 0
                          \/ Ends(buf[k]) /\ k \in 1..Len(buf)
  <2>1. n \in SUBSET (1..Len(buf)) /\ Len(buf) \in Nat
    BY <1>4
  <2>2. CASE n = {}
    BY <2>1, <2>2
  <2>3. CASE n # {}
    <3>1. Max(n) \in n
      BY <2>1, <2>3, MaxIs
    <3>2. Max(n) \in 1..Len(buf) /\ Ends(buf[Max(n)])
      BY <1>4, <3>1
    <3>3. Max(n) \in Nat /\ Max(n) <= Len(buf)
      BY <2>1, <3>2
    <3> WITNESS Max(n) \in Nat
    <3> QED BY <2>3, <3>2, <3>3
  <2> QED BY <2>2, <2>3
<1>6. Kept(r, l) = SubSeq(buf, 1, k)
  BY <1>3, <1>4, <1>5, Zenon DEF Kept
<1>7. a + k <= Len(l) /\ (k = 0 \/ Ends(l[a + k]))
  <2>1. a + k <= Len(l)
    BY <1>2, <1>3, <1>5
  <2>2. k # 0 => buf[k] = l[a + k]
    BY <1>3, <1>5
  <2> QED BY <1>5, <2>1, <2>2
<1>8. SubSeq(buf, 1, k) = SubSeq(l, a + 1, a + k) /\ Len(SubSeq(buf, 1, k)) = k
  <2>1. CASE k = 0
    BY <1>1, <2>1, SubSeqEmpty
  <2>2. CASE k # 0
    <3>0. m - a \in Nat /\ m - a = Len(buf) /\ Len(l) \in Nat /\ k \in 1..(m - a) /\ 1 <= m - a
      <4>1. m - a \in Nat /\ m - a = Len(buf) /\ Len(l) \in Nat
        BY <1>2, <1>3
      <4>2. k \in Nat /\ k <= m - a /\ k # 0
        BY <1>3, <1>5, <2>2
      <4> QED BY <4>1, <4>2
    <3>1. m - a \in 1..(m - a) /\ a + 1 \in 1..Len(l) /\ m \in 1..Len(l) /\ m - (a + 1) + 1 = m - a
      BY <1>1, <1>2, <3>0
    <3>2. 1 \in 1..(m - (a + 1) + 1) /\ k \in 1..(m - (a + 1) + 1)
      BY <3>0, <3>1
    <3>3. SubSeq(SubSeq(l, a + 1, m), 1, k) = SubSeq(l, (a + 1) + 1 - 1, (a + 1) + k - 1)
      BY <3>1, <3>2, SubSeqOfSubSeq
    <3>4. (a + 1) + 1 - 1 = a + 1 /\ (a + 1) + k - 1 = a + k
      OBVIOUS
    <3>5. Len(SubSeq(buf, 1, k)) = k
      BY <1>5
    <3> QED BY <1>3, <3>3, <3>4, <3>5
  <2> QED BY <2>1, <2>2
<1> QED BY <1>1, <1>6, <1>7, <1>8

(* What a read makes of a reader that has taken in whole lines.              *)
TakenWhole(l, r, lines) ==
  /\ r.from <= r.offset /\ r.offset <= Len(l)
  /\ r.from = r.offset \/ Ends(l[r.offset])
  /\ lines = LinesIn(SubSeq(l, r.from + 1, r.offset))

Numbered(r) == /\ {"offset", "from", "calls", "opened"} \subseteq DOMAIN r
               /\ r.offset \in Nat /\ r.from \in Nat /\ r.opened \in BOOLEAN

(* A read moves the offset over the units it keeps.                          *)
LEMMA ReadMoves ==
  ASSUME NEW l \in Seq(Units), NEW r, Numbered(r)
  PROVE  \E k \in Nat :
           /\ Numbered(ReadNew(r, l).reader)
           /\ ReadNew(r, l).reader.from = r.from /\ ReadNew(r, l).reader.opened = r.opened
           /\ ReadNew(r, l).reader.offset = Start(r, l) + k
           /\ ReadNew(r, l).lines = LinesIn(SubSeq(l, Start(r, l) + 1, Start(r, l) + k))
           /\ Start(r, l) + k <= Len(l)
           /\ k = 0 \/ Ends(l[Start(r, l) + k])
<1>1. PICK k \in Nat : /\ Start(r, l) + k <= Len(l)
                       /\ Kept(r, l) = SubSeq(l, Start(r, l) + 1, Start(r, l) + k)
                       /\ Len(Kept(r, l)) = k
                       /\ k = 0 \/ Ends(l[Start(r, l) + k])
  BY KeptIs DEF Numbered
<1>2. Start(r, l) \in Nat
  BY DEF Start, Numbered
<1>3. PICK c : ReadNew(r, l).reader = [r EXCEPT !.offset = Start(r, l) + Len(Kept(r, l)), !.calls = c]
  BY DEF ReadNew
<1>4. ReadNew(r, l).lines = LinesIn(Kept(r, l))
  BY DEF ReadNew
<1>5. /\ {"offset", "from", "calls", "opened"} \subseteq DOMAIN ReadNew(r, l).reader
      /\ ReadNew(r, l).reader.offset = Start(r, l) + k
      /\ ReadNew(r, l).reader.from = r.from /\ ReadNew(r, l).reader.opened = r.opened
  BY <1>1, <1>3 DEF Numbered
<1>6. Numbered(ReadNew(r, l).reader)
  <2>1. Start(r, l) + k \in Nat
    BY <1>2
  <2>2. r.from \in Nat /\ r.opened \in BOOLEAN
    BY DEF Numbered
  <2> HIDE DEF ReadNew
  <2> QED BY <1>5, <2>1, <2>2, Zenon DEF Numbered
<1> HIDE DEF ReadNew
<1> WITNESS k \in Nat
<1> QED BY <1>1, <1>4, <1>5, <1>6, Zenon

(* A reader that has taken in whole lines has done so after the next read,   *)
(* which gives the lines in between.                                         *)
LEMMA ReadIsWhole ==
  ASSUME NEW l \in Seq(Units), NEW r, Numbered(r), NEW lines, TakenWhole(l, r, lines),
         \A i \in 1..(Len(l) - 1) : l[i + 1].part = "tail" => l[i].part = "head"
  PROVE  TakenWhole(l, ReadNew(r, l).reader, lines \o ReadNew(r, l).lines)
<1>1. PICK f \in Nat, o \in Nat : f = r.from /\ o = r.offset /\ f <= o /\ o <= Len(l)
  BY DEF Numbered, TakenWhole
<1>2. Start(r, l) = o
  BY <1>1 DEF Start
<1>3. PICK k \in Nat :
           /\ ReadNew(r, l).reader.from = f
           /\ ReadNew(r, l).reader.offset = o + k
           /\ ReadNew(r, l).lines = LinesIn(SubSeq(l, o + 1, o + k))
           /\ o + k <= Len(l)
           /\ k = 0 \/ Ends(l[o + k])
  <2>1. Numbered(r)
    OBVIOUS
  <2>2. PICK k \in Nat :
           /\ ReadNew(r, l).reader.from = r.from
           /\ ReadNew(r, l).reader.offset = Start(r, l) + k
           /\ ReadNew(r, l).lines = LinesIn(SubSeq(l, Start(r, l) + 1, Start(r, l) + k))
           /\ Start(r, l) + k <= Len(l)
           /\ k = 0 \/ Ends(l[Start(r, l) + k])
    BY <2>1, ReadMoves
  <2> WITNESS k \in Nat
  <2> QED BY <1>1, <1>2, <2>2, Zenon
<1>4. PICK n \in Nat : n = o + k /\ o <= n /\ n <= Len(l)
  BY <1>3
<1>5. PICK a \in Seq(Units), b \in Seq(Units) :
        /\ a = SubSeq(l, f + 1, o) /\ Len(a) = o - f
        /\ b = SubSeq(l, o + 1, n) /\ Len(b) = k /\ (k > 0 => b[1] = l[o + 1])
        /\ a \o b = SubSeq(l, f + 1, n)
  <2>1. /\ SubSeq(l, f + 1, o) \in Seq(Units) /\ Len(SubSeq(l, f + 1, o)) = o - f
    BY <1>1, RunIs
  <2>2. SubSeq(l, o + 1, n) \in Seq(Units) /\ Len(SubSeq(l, o + 1, n)) = k
    <3>1. SubSeq(l, o + 1, n) \in Seq(Units) /\ Len(SubSeq(l, o + 1, n)) = n - o
      BY <1>4, RunIs
    <3>2. n - o = k
      BY <1>4
    <3> QED BY <3>1, <3>2
  <2>3. k > 0 => SubSeq(l, o + 1, n)[1] = l[o + 1]
    <3>1. \A i \in 1..(n - o) : SubSeq(l, o + 1, n)[i] = l[o + i]
      BY <1>4, RunItems
    <3>2. k > 0 => 1 \in 1..(n - o)
      BY <1>4
    <3> QED BY <3>1, <3>2
  <2>4. SubSeq(l, f + 1, o) \o SubSeq(l, o + 1, n) = SubSeq(l, f + 1, n)
    <3>1. f + 1 \in 1..(Len(l) + 1) /\ o \in (f + 1) - 1 .. Len(l) /\ n \in o..Len(l)
      BY <1>1, <1>4
    <3> QED BY <3>1, ConcatAdjacentSubSeq
  <2> QED BY <2>1, <2>2, <2>3, <2>4
<1>6. a = <<>> \/ b = <<>> \/ b[1].part # "tail"
  <2>1. CASE f = o
    BY <1>5, <2>1, EmptySeq
  <2>2. CASE k = 0
    BY <1>5, <2>2, EmptySeq
  <2>3. CASE f # o /\ k # 0
    <3>1. Ends(l[o]) /\ o \in 1..(Len(l) - 1)
      BY <1>1, <1>4, <2>3 DEF TakenWhole
    <3>2. l[o + 1].part # "tail"
      BY <3>1 DEF Ends
    <3> QED BY <1>5, <2>3, <3>2
  <2> QED BY <2>1, <2>2, <2>3
<1>7. LinesIn(a \o b) = LinesIn(a) \o LinesIn(b)
  BY <1>6, LinesConcat
<1>8. lines = LinesIn(a)
  BY <1>1, <1>5 DEF TakenWhole
<1>9. f = n \/ Ends(l[n])
  <2>1. CASE k = 0
    BY <1>1, <1>4, <2>1 DEF TakenWhole
  <2>2. CASE k # 0
    BY <1>3, <1>4, <2>2
  <2> QED BY <2>1, <2>2
<1>10. lines \o ReadNew(r, l).lines = LinesIn(SubSeq(l, f + 1, n))
  BY <1>3, <1>4, <1>5, <1>7, <1>8, Zenon
<1>11. /\ ReadNew(r, l).reader.from = f /\ ReadNew(r, l).reader.offset = n
       /\ f <= n /\ n <= Len(l)
  BY <1>1, <1>3, <1>4
<1> QED BY <1>9, <1>10, <1>11, Zenon DEF TakenWhole

-----------------------------------------------------------------------------
(* A session's log is what its script has written of it so far, and a reader *)
(* that has opened it, while it was not replaced, has taken in whole lines.  *)
Written(s) == /\ Len(log[s]) <= Len(Script[s])
              /\ \A i \in 1..Len(log[s]) : log[s][i] = Script[s][i]

ReaderWell(s) == /\ "reader" \in DOMAIN following[s] /\ "prompted" \in DOMAIN following[s]
                 /\ Numbered(following[s].reader)

(* An entry of the history is of whole lines; the entries are a sequence,    *)
(* and the last of them is that of a reader that is open.                    *)
Entire(l, d) == d.from \in Nat /\ d.offset \in Nat /\ TakenWhole(l, d, d.lines)

Listed(h) == \E S : h \in Seq(S)
AllEntire(l, h, from) == \A i \in 1..Len(h) : from < i => Entire(l, h[i])
IsLast(h, r) == /\ Len(h) > 0
                /\ h[Len(h)].from = r.from /\ h[Len(h)].offset = r.offset

Opened(s) == Following(s) /\ following[s].reader.opened

Read(s) == /\ Listed(taken[s]) /\ replaced[s] \in Nat /\ forgotten[s] \in Nat
           /\ AllEntire(log[s], taken[s], replaced[s])
           /\ Opened(s) => IsLast(taken[s], following[s].reader)
           /\ Len(taken[s]) <= forgotten[s] + (IF Opened(s) THEN 1 ELSE 0)

Reading == /\ log \in [Sessions -> Seq(Units)] /\ taken = [s \in Sessions |-> taken[s]]
           /\ replaced \in [Sessions -> Nat]
           /\ \A s \in Sessions : Written(s)
           /\ \A s \in Sessions : Following(s) => ReaderWell(s)
           /\ \A s \in Sessions : Read(s)

(* A log that has grown as scripted has each tail after its head.            *)
LEMMA TailsFollowHeads ==
  ASSUME Reading, NEW s \in Sessions
  PROVE  \A i \in 1..(Len(log[s]) - 1) : log[s][i + 1].part = "tail" => log[s][i].part = "head"
<1> SUFFICES ASSUME NEW i \in 1..(Len(log[s]) - 1), log[s][i + 1].part = "tail"
             PROVE  log[s][i].part = "head"
  OBVIOUS
<1>1. Len(log[s]) \in Nat /\ Len(Script[s]) \in Nat
  BY AgentsAssumption DEF Reading
<1>2. Written(s)
  BY DEF Reading
<1>3. /\ i \in 1..Len(log[s]) /\ i + 1 \in 1..Len(log[s]) /\ i \in 1..(Len(Script[s]) - 1)
  BY <1>1, <1>2 DEF Written
<1>4. log[s][i] = Script[s][i] /\ log[s][i + 1] = Script[s][i + 1]
  BY <1>2, <1>3 DEF Written
<1> QED BY <1>3, <1>4, LinesAssumption

(* The steps that leave the logs and the readers alone, ...                  *)
LEMMA ReadingSame ==
  ASSUME Reading, UNCHANGED <<following, readVars, forgotten>>
  PROVE  Reading'
  BY DEF Reading, Written, ReaderWell, Read, Opened, Following, readVars

(* ... but for forgotten ones, each of which is counted.                     *)
LEMMA ReadingForgets ==
  ASSUME Reading, UNCHANGED readVars, NEW S \in SUBSET Sessions,
         forgotten' = NoLonger(S),
         following = [s \in Sessions |-> following[s]],
         following' = [s \in Sessions |-> IF s \in S THEN Unfollowed ELSE following[s]],
         \A s \in S : Following(s)
  PROVE  Reading'
<1>1. UNCHANGED <<log, taken, replaced>>
  BY DEF readVars
<1>2. \A s \in Sessions : Written(s)'
  BY <1>1 DEF Reading, Written
<1>3. ASSUME NEW s \in Sessions, Following(s)' PROVE ReaderWell(s)'
  <2>1. s \notin S /\ following'[s] = following[s]
    BY <1>3 DEF Following
  <2> QED BY <1>3, <2>1 DEF Reading, ReaderWell, Following
<1>4. ASSUME NEW s \in Sessions PROVE Read(s)'
  <2>1. Read(s)
    BY DEF Reading
  <2>2. CASE s \in S
    <3>1. forgotten'[s] = forgotten[s] + 1 /\ ~Opened(s)'
      BY <2>2 DEF NoLonger, Opened, Following
    <3>2. Len(taken[s]) <= forgotten[s] + 1 /\ Len(taken[s]) \in Nat /\ forgotten[s] \in Nat
      BY <2>1 DEF Read, Listed
    <3>3. forgotten'[s] \in Nat /\ Len(taken[s]) <= forgotten'[s] + 0
      BY <3>1, <3>2
    <3> QED BY <1>1, <2>1, <3>1, <3>3 DEF Read
  <2>3. CASE s \notin S
    <3>1. following'[s] = following[s] /\ forgotten'[s] = forgotten[s]
      BY <2>3 DEF NoLonger
    <3>2. Opened(s)' <=> Opened(s)
      BY <3>1 DEF Opened, Following
    <3> QED BY <1>1, <2>1, <3>1, <3>2 DEF Read
  <2> QED BY <2>2, <2>3
<1> QED BY <1>1, <1>2, <1>3, <1>4 DEF Reading

(* The agent's own steps.                                                    *)
LEMMA WholeAfterAppend ==
  ASSUME NEW l \in Seq(Units), NEW u \in Units, NEW d, Entire(l, d)
  PROVE  Entire(Append(l, u), d)
<1>1. /\ Append(l, u) \in Seq(Units) /\ Len(Append(l, u)) = Len(l) + 1 /\ Len(l) \in Nat
      /\ \A i \in 1..Len(l) : Append(l, u)[i] = l[i]
  BY AppendProperties
<1>2. PICK f \in Nat, o \in Nat : f = d.from /\ o = d.offset /\ f <= o /\ o <= Len(l)
  BY DEF Entire, TakenWhole
<1>3. SubSeq(Append(l, u), f + 1, o) = SubSeq(l, f + 1, o)
  <2>1. PICK a \in Seq(Units), b \in Seq(Units) :
          /\ a = SubSeq(Append(l, u), f + 1, o) /\ b = SubSeq(l, f + 1, o)
          /\ Len(a) = o - f /\ Len(b) = o - f
    <3>1. SubSeq(l, f + 1, o) \in Seq(Units) /\ Len(SubSeq(l, f + 1, o)) = o - f
      BY <1>2, RunIs
    <3>2. o <= Len(Append(l, u))
      BY <1>1, <1>2
    <3>3. /\ SubSeq(Append(l, u), f + 1, o) \in Seq(Units)
          /\ Len(SubSeq(Append(l, u), f + 1, o)) = o - f
      BY <1>1, <1>2, <3>2, RunIs
    <3> QED BY <3>1, <3>3
  <2>2. ASSUME NEW i \in 1..Len(a) PROVE a[i] = b[i]
    <3>1. i \in 1..(o - f) /\ f + i \in 1..Len(l)
      <4>1. i \in Nat /\ 1 <= i /\ i <= o - f
        BY <2>1, <2>2
      <4>2. f \in Nat /\ o \in Nat /\ o <= Len(l) /\ Len(l) \in Nat
        BY <1>2
      <4> QED BY <4>1, <4>2
    <3>2. a[i] = Append(l, u)[f + i] /\ b[i] = l[f + i]
      BY <2>1, <3>1, RunItems
    <3> QED BY <1>1, <3>1, <3>2
  <2> QED BY <2>1, <2>2, SeqEqual
<1>4. f = o \/ Append(l, u)[o] = l[o]
  BY <1>1, <1>2
<1>5. o <= Len(Append(l, u))
  BY <1>1, <1>2
<1> QED BY <1>2, <1>3, <1>4, <1>5 DEF Entire, TakenWhole, Ends

(* The log grows behind what was read, ...                                   *)
LEMMA WritesReading == ASSUME Reading, NEW q \in Sessions, AgentWrites(q) PROVE Reading'
<1>1. /\ UNCHANGED <<following, taken, replaced, forgotten>>
      /\ Len(log[q]) < Len(Script[q])
      /\ log' = [log EXCEPT ![q] = Append(log[q], Script[q][Len(log[q]) + 1])]
  BY DEF AgentWrites
<1>2. /\ log[q] \in Seq(Units) /\ Len(log[q]) \in Nat /\ Len(Script[q]) \in Nat
      /\ Script[q] \in Seq(Units)
  BY AgentsAssumption DEF Reading
<1>3. PICK u \in Units : u = Script[q][Len(log[q]) + 1]
  BY <1>1, <1>2
<1>4. /\ log' \in [Sessions -> Seq(Units)] /\ log'[q] = Append(log[q], u)
      /\ \A s \in Sessions : s # q => log'[s] = log[s]
  BY <1>1, <1>2, <1>3 DEF Reading
<1>5. \A s \in Sessions : Written(s)'
  <2>1. Written(q)'
    <3>1. /\ Len(log'[q]) = Len(log[q]) + 1 /\ \A i \in 1..Len(log[q]) : log'[q][i] = log[q][i]
          /\ log'[q][Len(log[q]) + 1] = u
      BY <1>2, <1>4, AppendProperties
    <3>2. \A i \in 1..Len(log'[q]) : i \in 1..Len(log[q]) \/ i = Len(log[q]) + 1
      BY <1>2, <3>1
    <3>3. \A i \in 1..Len(log[q]) : log[q][i] = Script[q][i]
      BY DEF Reading, Written
    <3>4. Len(log'[q]) <= Len(Script[q])
      BY <1>1, <1>2, <3>1
    <3> QED BY <1>3, <3>1, <3>2, <3>3, <3>4 DEF Written
  <2> QED BY <1>4, <2>1 DEF Reading, Written
<1>6. \A s \in Sessions : Following(s)' => ReaderWell(s)'
  BY <1>1 DEF Reading, ReaderWell, Following
<1>7. ASSUME NEW s \in Sessions PROVE Read(s)'
  <2>1. Read(s) /\ (Opened(s)' <=> Opened(s))
    BY <1>1 DEF Reading, Opened, Following
  <2>2. AllEntire(log'[s], taken[s], replaced[s])
    <3>1. CASE s = q
      <4>1. \A i \in 1..Len(taken[q]) : replaced[q] < i => Entire(log[q], taken[q][i])
        BY <2>1, <3>1 DEF Read, AllEntire
      <4>2. \A i \in 1..Len(taken[q]) : replaced[q] < i => Entire(Append(log[q], u), taken[q][i])
        BY <1>2, <4>1, WholeAfterAppend
      <4> QED BY <1>4, <3>1, <4>2, Zenon DEF AllEntire
    <3>2. CASE s # q
      BY <1>4, <2>1, <3>2, Zenon DEF Read
    <3> QED BY <3>1, <3>2
  <2> QED BY <1>1, <2>1, <2>2 DEF Read
<1> QED BY <1>1, <1>4, <1>5, <1>6, <1>7 DEF Reading

(* ... or is replaced, after which nothing is said of the readers it had.    *)
LEMMA ReplacesReading == ASSUME Reading, NEW q \in Sessions, AgentReplacesLog(q) PROVE Reading'
<1>1. /\ UNCHANGED <<following, taken, forgotten>>
      /\ replaced' = [replaced EXCEPT ![q] = Len(taken[q])]
      /\ log' = [log EXCEPT ![q] = <<>>]
  BY DEF AgentReplacesLog
<1>2. <<>> \in Seq(Units)
  OBVIOUS
<1>3. /\ log' \in [Sessions -> Seq(Units)] /\ log'[q] = <<>>
      /\ \A s \in Sessions : s # q => log'[s] = log[s]
  BY <1>1, <1>2 DEF Reading
<1>4. \A s \in Sessions : Written(s)'
  <2>1. Written(q)'
    <3>1. Len(log'[q]) = 0 /\ Len(Script[q]) \in Nat
      BY <1>3, AgentsAssumption
    <3> QED BY <3>1 DEF Written
  <2>2. ASSUME NEW s \in Sessions, s # q PROVE Written(s)'
    <3>1. Written(s) /\ log'[s] = log[s]
      BY <1>3, <2>2 DEF Reading
    <3> QED BY <3>1 DEF Written
  <2> QED BY <2>1, <2>2
<1>5. \A s \in Sessions : Following(s)' => ReaderWell(s)'
  BY <1>1 DEF Reading, ReaderWell, Following
<1>6. ASSUME NEW s \in Sessions PROVE Read(s)'
  <2>1. Read(s) /\ (Opened(s)' <=> Opened(s))
    BY <1>1 DEF Reading, Opened, Following
  <2>2. Len(taken[s]) \in Nat
    BY <2>1 DEF Read, Listed
  <2>3. CASE s = q
    <3>1. replaced'[s] = Len(taken[s])
      BY <1>1, <2>3 DEF Reading
    <3>2. AllEntire(log'[s], taken[s], replaced'[s])
      BY <2>2, <3>1 DEF AllEntire
    <3> QED BY <1>1, <2>1, <2>2, <3>1, <3>2 DEF Read
  <2>4. CASE s # q
    BY <1>1, <1>3, <2>1, <2>4 DEF Read, Reading
  <2> QED BY <2>3, <2>4
<1>7. replaced' \in [Sessions -> Nat]
  <2>1. Len(taken[q]) \in Nat
    BY DEF Reading, Read, Listed
  <2> QED BY <1>1, <2>1 DEF Reading
<1> QED BY <1>1, <1>3, <1>4, <1>5, <1>6, <1>7 DEF Reading

-----------------------------------------------------------------------------
(* What is observed of a session, with the reader it has or with none yet.   *)
LEMMA KnownReader ==
  ASSUME Owned, Reading, NEW s \in Sessions, NEW p, NEW o \in Known(s, p)
  PROVE  /\ {"thread", "prompted", "reader"} \subseteq DOMAIN o
         /\ Numbered(o.reader)
         /\ Following(s) => o.reader = following[s].reader
         /\ ~Following(s) => ~o.reader.opened
<1>1. CASE Following(s)
  <2>1. o = [following[s] EXCEPT !.pane = p]
    BY <1>1 DEF Known, Following
  <2>2. ReaderWell(s) /\ "thread" \in DOMAIN following[s]
    BY <1>1 DEF Reading, Owned, FollowedWell
  <2>3. o.reader = following[s].reader /\ DOMAIN o = DOMAIN following[s]
    BY <2>1, <2>2 DEF ReaderWell
  <2> QED BY <1>1, <2>2, <2>3, Zenon DEF ReaderWell
<1>2. CASE ~Following(s)
  <2>1. PICK t, q : o = [thread |-> t, pane |-> p, prompted |-> q, reader |-> NoReader]
    BY <1>2 DEF Known, Open, Following
  <2>2. Numbered(NoReader) /\ ~NoReader.opened
    BY DEF Numbered, NoReader
  <2>3. o.reader = NoReader /\ {"thread", "prompted", "reader"} \subseteq DOMAIN o
    BY <2>1
  <2> QED BY <1>2, <2>2, <2>3, Zenon
<1> QED BY <1>1, <1>2

LEMMA NoLines == LinesIn(<<>>) = <<>>
<1>1. Completed(<<>>) = <<>>
  BY DEF Completed
<1> QED BY <1>1, FlattenEmpty DEF LinesIn, Completed

(* The reader a stop reads with has taken in whole lines, none if it is new. *)
LEMMA ReaderReads ==
  ASSUME Reading, NEW s \in Sessions, NEW o, Numbered(o.reader)
  PROVE  /\ Numbered(ReaderFor(o, s)) /\ ReaderFor(o, s).opened
         /\ o.reader.opened => ReaderFor(o, s) = o.reader
         /\ ~o.reader.opened => TakenWhole(log[s], ReaderFor(o, s), <<>>)
<1>1. log[s] \in Seq(Units) /\ Len(log[s]) \in Nat
  BY DEF Reading
<1>2. CASE o.reader.opened
  <2>1. ReaderFor(o, s) = o.reader
    BY <1>2 DEF ReaderFor
  <2> QED BY <1>2, <2>1
<1>3. CASE ~o.reader.opened
  <2>1. PICK n \in Nat : ReaderFor(o, s) = ReaderAt(n) /\ n <= Len(log[s])
    <3>1. CASE o.prompted
      <4>1. ReaderFor(o, s) = ReaderAt(0)
        BY <1>3, <3>1 DEF ReaderFor, FromStart
      <4> QED BY <1>1, <4>1
    <3>2. CASE ~o.prompted
      <4>1. ReaderFor(o, s) = ReaderAt(Len(log[s]))
        BY <1>3, <3>2 DEF ReaderFor, FromEnd
      <4> QED BY <1>1, <4>1
    <3> QED BY <3>1, <3>2
  <2>2. /\ Numbered(ReaderAt(n)) /\ ReaderAt(n).opened
        /\ ReaderAt(n).from = n /\ ReaderAt(n).offset = n
    BY DEF Numbered, ReaderAt
  <2>3. LinesIn(SubSeq(log[s], n + 1, n)) = <<>>
    <3>1. SubSeq(log[s], n + 1, n) = <<>>
      BY SubSeqEmpty
    <3>2. LinesIn(<<>>) = <<>>
      BY NoLines
    <3> QED BY <3>1, <3>2, Zenon
  <2>4. TakenWhole(log[s], ReaderAt(n), <<>>)
    BY <2>1, <2>2, <2>3 DEF TakenWhole
  <2> QED BY <1>3, <2>1, <2>2, <2>4, Zenon
<1> QED BY <1>2, <1>3

(* The history with another entry, or with its last one gone on.             *)
IsNext(g, h, d) == g = Append(h, d)
IsOn(g, h, d) == g = [h EXCEPT ![Len(h)] = d]
TailsWell(l) == \A i \in 1..(Len(l) - 1) : l[i + 1].part = "tail" => l[i].part = "head"
ReadBy(w, r, l) == w = ReadNew(r, l)

LEMMA ListedMore ==
  ASSUME NEW h, Listed(h), NEW d, NEW g, IsNext(g, h, d)
  PROVE  /\ Listed(g) /\ Len(g) = Len(h) + 1 /\ g[Len(h) + 1] = d
         /\ \A i \in 1..Len(h) : g[i] = h[i]
<1>1. PICK S : h \in Seq(S)
  BY DEF Listed
<1>2. PICK T : T = S \cup {d}
  OBVIOUS
<1>3. h \in Seq(T) /\ d \in T
  BY <1>1, <1>2
<1>4. /\ g \in Seq(T) /\ Len(g) = Len(h) + 1 /\ g[Len(h) + 1] = d
      /\ \A i \in 1..Len(h) : g[i] = h[i]
  BY <1>3, AppendProperties DEF IsNext
<1> QED BY <1>4, Zenon DEF Listed

LEMMA ListedOn ==
  ASSUME NEW h, Listed(h), Len(h) > 0, NEW d, NEW g, IsOn(g, h, d)
  PROVE  /\ Listed(g) /\ Len(g) = Len(h) /\ g[Len(h)] = d
         /\ \A i \in 1..Len(h) : i # Len(h) => g[i] = h[i]
<1>1. PICK S : h \in Seq(S)
  BY DEF Listed
<1>2. PICK T : T = S \cup {d}
  OBVIOUS
<1>3. h \in Seq(T) /\ d \in T /\ Len(h) \in 1..Len(h)
  BY <1>1, <1>2
<1>4. g \in Seq(T) /\ Len(g) = Len(h) /\ g[Len(h)] = d
  BY <1>3 DEF IsOn
<1>5. \A i \in 1..Len(h) : i # Len(h) => g[i] = h[i]
  BY <1>3 DEF IsOn
<1> QED BY <1>4, <1>5, Zenon DEF Listed

GrownTo(g, h, was, w) == g =
  IF was THEN [h EXCEPT ![Len(h)] = [from |-> h[Len(h)].from, offset |-> w.reader.offset,
                                     lines |-> h[Len(h)].lines \o w.lines]]
  ELSE Append(h, [from |-> w.reader.from, offset |-> w.reader.offset, lines |-> w.lines])

(* A read adds to the history whole lines, by the reader that made it.       *)
LEMMA ConsumedWell ==
  ASSUME NEW l \in Seq(Units), NEW h, Listed(h), NEW from \in Nat, AllEntire(l, h, from),
         TailsWell(l),
         NEW r, Numbered(r), NEW was \in BOOLEAN,
         was => IsLast(h, r), ~was => TakenWhole(l, r, <<>>), NEW w, ReadBy(w, r, l),
         NEW g, GrownTo(g, h, was, w)
  PROVE  /\ Listed(g) /\ AllEntire(l, g, from) /\ IsLast(g, w.reader)
         /\ Len(g) = Len(h) + (IF was THEN 0 ELSE 1)
<1>1. /\ Numbered(w.reader) /\ w.reader.from = r.from
  BY ReadMoves DEF ReadBy
<1>2. w.reader.from \in Nat /\ w.reader.offset \in Nat /\ Len(h) \in Nat
  BY <1>1 DEF Numbered, Listed
<1>3. CASE was
  <2>1. PICK d : d = [from |-> h[Len(h)].from, offset |-> w.reader.offset,
                      lines |-> h[Len(h)].lines \o w.lines]
    OBVIOUS
  <2>2. Len(h) > 0 /\ h[Len(h)].from = r.from /\ h[Len(h)].offset = r.offset
    BY <1>3 DEF IsLast
  <2>3. IsOn(g, h, d)
    BY <1>3, <2>1 DEF GrownTo, IsOn
  <2>4. /\ Listed(g) /\ Len(g) = Len(h) /\ g[Len(h)] = d
        /\ \A i \in 1..Len(h) : i # Len(h) => g[i] = h[i]
    BY <2>2, <2>3, ListedOn
  <2>5. d.from = w.reader.from /\ d.offset = w.reader.offset
    BY <1>1, <2>1, <2>2
  <2>6. ASSUME from < Len(h) PROVE Entire(l, d)
    <3>1. TakenWhole(l, h[Len(h)], h[Len(h)].lines)
      BY <1>2, <2>2, <2>6 DEF AllEntire, Entire
    <3>2. PICK x : x = h[Len(h)].lines
      OBVIOUS
    <3>3. TakenWhole(l, r, x)
      BY <2>2, <3>1, <3>2 DEF TakenWhole
    <3>4. TakenWhole(l, w.reader, x \o w.lines)
      BY <3>3, ReadIsWhole DEF TailsWell, ReadBy
    <3>5. d.lines = x \o w.lines
      BY <2>1, <3>2
    <3> QED BY <1>2, <2>5, <3>4, <3>5 DEF Entire, TakenWhole
  <2>7. AllEntire(l, g, from)
    BY <1>2, <2>4, <2>6 DEF AllEntire
  <2>8. IsLast(g, w.reader)
    BY <2>2, <2>4, <2>5 DEF IsLast
  <2>9. Len(g) = Len(h) + 0
    BY <1>2, <2>4
  <2> QED BY <1>3, <2>4, <2>7, <2>8, <2>9, Zenon
<1>4. CASE ~was
  <2>1. PICK d : d = [from |-> w.reader.from, offset |-> w.reader.offset, lines |-> w.lines]
    OBVIOUS
  <2>2. IsNext(g, h, d)
    BY <1>4, <2>1 DEF GrownTo, IsNext
  <2>3. /\ Listed(g) /\ Len(g) = Len(h) + 1 /\ g[Len(h) + 1] = d
        /\ \A i \in 1..Len(h) : g[i] = h[i]
    BY <2>2, ListedMore
  <2>4. d.from = w.reader.from /\ d.offset = w.reader.offset /\ d.lines = w.lines
    BY <2>1
  <2>5. Entire(l, d)
    <3>1. TakenWhole(l, w.reader, <<>> \o w.lines)
      BY <1>4, ReadIsWhole DEF TailsWell, ReadBy
    <3>2. <<>> \o w.lines = w.lines
      <4>1. PICK k \in Nat : w.lines = LinesIn(SubSeq(l, Start(r, l) + 1, Start(r, l) + k))
                              /\ Start(r, l) + k <= Len(l)
        BY ReadMoves DEF ReadBy
      <4>2. Start(r, l) \in Nat
        BY DEF Start, Numbered
      <4>3. SubSeq(l, Start(r, l) + 1, Start(r, l) + k) \in Seq(Units)
        BY <4>1, <4>2, RunIs
      <4>4. PICK b \in Seq(Units) : w.lines = LinesIn(b)
        BY <4>1, <4>3
      <4>5. LinesIn(<<>> \o b) = LinesIn(<<>>) \o LinesIn(b)
        <5>1. <<>> \in Seq(Units)
          OBVIOUS
        <5> QED BY <5>1, LinesConcat
      <4>6. <<>> \o b = b /\ LinesIn(<<>>) = <<>>
        BY NoLines
      <4> QED BY <4>4, <4>5, <4>6, Zenon
    <3> QED BY <1>2, <2>4, <3>1, <3>2 DEF Entire, TakenWhole
  <2>6. AllEntire(l, g, from)
    <3> SUFFICES ASSUME NEW i \in 1..Len(g), from < i PROVE Entire(l, g[i])
      BY DEF AllEntire
    <3>1. i \in 1..Len(h) \/ i = Len(h) + 1
      BY <1>2, <2>3
    <3>2. i \in 1..Len(h) => g[i] = h[i] /\ Entire(l, h[i])
      BY <2>3 DEF AllEntire
    <3> QED BY <2>3, <2>5, <3>1, <3>2, Zenon
  <2> QED BY <1>2, <1>4, <2>3, <2>4, <2>6 DEF IsLast
<1> QED BY <1>3, <1>4

(* A notification, and the read it makes if it is a stop.                    *)
LEMMA ObserveReads ==
  ASSUME Owned, Reading, NEW n \in Notices, Observe(n)
  PROVE  Reading'
<1>0. PICK s : s = notice[n].session
  OBVIOUS
<1>1. s \in Sessions /\ UNCHANGED log /\ following = [q \in Sessions |-> following[q]]
  BY <1>0 DEF Owned, SpawnedWell, FollowedWell, Observe
<1>2. PICK o \in Known(s, notice[n].pane) : TakeIn(n, o)
  BY <1>0 DEF Observe
<1>3. /\ {"thread", "prompted", "reader"} \subseteq DOMAIN o
      /\ Numbered(o.reader)
      /\ Following(s) => o.reader = following[s].reader
      /\ ~Following(s) => ~o.reader.opened
  BY <1>1, KnownReader
<1>4. PICK r : r = ReaderFor(o, s)
  OBVIOUS
<1>5. /\ Numbered(r) /\ r.opened
      /\ o.reader.opened => r = o.reader
      /\ ~o.reader.opened => TakenWhole(log[s], r, <<>>)
  BY <1>1, <1>3, <1>4, ReaderReads
<1>6. PICK w : w = ReadNew(r, log[s])
  OBVIOUS
<1>7. PICK f : following' = [following EXCEPT ![s] = f]
               /\ "reader" \in DOMAIN f /\ "prompted" \in DOMAIN f
               /\ f.reader = IF notice[n].kind = "stop" THEN w.reader ELSE o.reader
  <2>1. PICK x, y : /\ following' = [following EXCEPT ![s] = [o EXCEPT !.prompted = x, !.reader = y]]
                    /\ y = IF notice[n].kind = "stop" THEN w.reader ELSE o.reader
    <3>1. following' = [following EXCEPT ![s] =
            [o EXCEPT !.prompted = o.prompted \/ (notice[n].kind = "promptSubmit" /\ ~o.prompted),
                      !.reader = IF notice[n].kind = "stop" THEN w.reader ELSE o.reader]]
      BY <1>0, <1>2, <1>3, <1>4, <1>6 DEF TakeIn
    <3> QED BY <3>1
  <2>2. /\ "reader" \in DOMAIN [o EXCEPT !.prompted = x, !.reader = y]
        /\ "prompted" \in DOMAIN [o EXCEPT !.prompted = x, !.reader = y]
        /\ [o EXCEPT !.prompted = x, !.reader = y].reader = y
    BY <1>3
  <2> QED BY <2>1, <2>2
<1>8. PICK g : /\ taken' = [taken EXCEPT ![s] = g]
               /\ g = IF notice[n].kind = "stop" THEN Consumed(o, s, w) ELSE taken[s]
  <2>1. CASE notice[n].kind = "stop"
    BY <1>0, <1>2, <1>4, <1>6, <2>1 DEF TakeIn
  <2>2. CASE notice[n].kind # "stop"
    <3>1. taken' = taken /\ taken = [taken EXCEPT ![s] = taken[s]]
      BY <1>0, <1>2, <2>2 DEF TakeIn, Reading
    <3> QED BY <2>2, <3>1
  <2> QED BY <2>1, <2>2
<1>9. /\ following'[s] = f /\ \A q \in Sessions : q # s => following'[q] = following[q]
      /\ taken' = [q \in Sessions |-> taken'[q]] /\ taken'[s] = g
      /\ \A q \in Sessions : q # s => taken'[q] = taken[q]
      /\ UNCHANGED <<replaced, forgotten>>
  BY <1>1, <1>7, <1>8 DEF Reading, Observe
<1>10. log[s] \in Seq(Units)
  BY <1>1 DEF Reading
<1>11. Numbered(w.reader) /\ w.reader.opened
  BY <1>5, <1>6, <1>10, ReadMoves
<1>a. /\ Read(s) /\ (Opened(s) <=> o.reader.opened) /\ o.reader.opened \in BOOLEAN
      /\ (o.reader.opened => o.reader = following[s].reader)
  BY <1>1, <1>3 DEF Reading, Opened, Numbered
<1>b. Following(s)'
  <2>1. "reader" \notin DOMAIN Unfollowed
    BY DEF Unfollowed
  <2> QED BY <1>7, <1>9, <2>1 DEF Following
<1>12. ReaderWell(s)' /\ Read(s)'
  <2>1. CASE notice[n].kind = "stop"
    <3>1. f.reader = w.reader
      BY <1>7, <2>1
    <3>2. ReaderWell(s)'
      BY <1>7, <1>9, <1>11, <3>1, Zenon DEF ReaderWell
    <3>3. TailsWell(log[s])
      BY <1>1, TailsFollowHeads DEF TailsWell
    <3>4. PICK h, l, was : h = taken[s] /\ l = log[s] /\ was = o.reader.opened
      OBVIOUS
    <3>5. GrownTo(g, h, was, w)
      BY <1>8, <2>1, <3>4 DEF Consumed, GrownTo
    <3>6. /\ was \in BOOLEAN /\ (was => IsLast(h, r)) /\ (~was => TakenWhole(l, r, <<>>))
      BY <1>5, <1>a, <3>4 DEF Read
    <3>7. Listed(h) /\ AllEntire(l, h, replaced[s]) /\ replaced[s] \in Nat /\ l \in Seq(Units)
      BY <1>10, <1>a, <3>4 DEF Read
    <3>8. ReadBy(w, r, l) /\ TailsWell(l)
      BY <1>6, <3>3, <3>4 DEF ReadBy
    <3>9. /\ Listed(g) /\ AllEntire(l, g, replaced[s]) /\ IsLast(g, w.reader)
          /\ Len(g) = Len(h) + (IF was THEN 0 ELSE 1)
      BY <1>5, <3>5, <3>6, <3>7, <3>8, ConsumedWell
    <3>10. Len(g) <= forgotten[s] + 1
      <4>1. Len(h) <= forgotten[s] + (IF was THEN 1 ELSE 0)
        BY <1>a, <3>4 DEF Read
      <4>2. Len(h) \in Nat /\ forgotten[s] \in Nat
        BY <1>a, <3>7 DEF Read, Listed
      <4> QED BY <3>6, <3>9, <4>1, <4>2
    <3>11. Opened(s)'
      BY <1>9, <1>11, <1>b, <3>1 DEF Opened
    <3>12. IsLast(taken'[s], following'[s].reader)
      BY <1>9, <3>1, <3>9
    <3>13. Listed(taken'[s]) /\ AllEntire(log'[s], taken'[s], replaced'[s])
           /\ replaced'[s] \in Nat /\ forgotten'[s] \in Nat
      BY <1>1, <1>9, <1>a, <3>4, <3>7, <3>9 DEF Read
    <3>14. Len(taken'[s]) <= forgotten'[s] + (IF Opened(s)' THEN 1 ELSE 0)
      BY <1>9, <3>10, <3>11
    <3> QED BY <3>2, <3>12, <3>13, <3>14 DEF Read
  <2>2. CASE notice[n].kind # "stop"
    <3>1. f.reader = o.reader /\ taken'[s] = taken[s]
      BY <1>7, <1>8, <1>9, <2>2
    <3>2. ReaderWell(s)'
      BY <1>3, <1>7, <1>9, <3>1, Zenon DEF ReaderWell
    <3>3. Opened(s)' <=> Opened(s)
      BY <1>9, <1>a, <1>b, <3>1 DEF Opened
    <3>4. Opened(s)' => following'[s].reader = following[s].reader
      BY <1>9, <1>a, <3>1, <3>3
    <3> QED BY <1>1, <1>9, <1>a, <3>1, <3>2, <3>3, <3>4 DEF Read
  <2> QED BY <2>1, <2>2
<1>13. ASSUME NEW q \in Sessions, q # s
       PROVE  Written(q)' /\ (Following(q)' => ReaderWell(q)') /\ Read(q)'
  <2>1. following'[q] = following[q] /\ taken'[q] = taken[q] /\ log'[q] = log[q]
        /\ replaced'[q] = replaced[q] /\ forgotten'[q] = forgotten[q]
    BY <1>1, <1>9, <1>13
  <2>2. Written(q)'
    BY <2>1 DEF Reading, Written
  <2>3. Following(q)' => ReaderWell(q)'
    BY <2>1 DEF Reading, ReaderWell, Following
  <2>4. Read(q)'
    <3>1. Read(q) /\ (Opened(q)' <=> Opened(q))
      BY <2>1 DEF Reading, Opened, Following
    <3> QED BY <2>1, <3>1 DEF Read
  <2> QED BY <2>2, <2>3, <2>4
<1>14. Written(s)'
  BY <1>1 DEF Reading, Written
<1>15. replaced' \in [Sessions -> Nat] /\ log' \in [Sessions -> Seq(Units)]
  BY <1>1, <1>9 DEF Reading
<1> QED BY <1>9, <1>12, <1>13, <1>14, <1>15 DEF Reading

(* Every step keeps the logs and their readers so.                           *)
LEMMA ReadingStep == Owned /\ Reading /\ [Next]_vars => Reading'
<1> SUFFICES ASSUME Owned, Reading, [Next]_vars PROVE Reading'
  OBVIOUS
<1>a. following = [s \in Sessions |-> following[s]]
  BY DEF Owned, FollowedWell
<1>b. ASSUME UNCHANGED <<following, readVars, forgotten>> PROVE Reading'
  BY <1>b, ReadingSame
<1>1. ASSUME NEW n \in Notices, NEW s \in Sessions, NEW p \in Panes, NEW k \in Kinds,
             Notify(n, s, p, k)
      PROVE  Reading'
  BY <1>1, <1>b DEF Notify
<1>2. ASSUME NEW s \in Sessions, AgentWrites(s) \/ AgentReplacesLog(s) PROVE Reading'
  BY <1>2, WritesReading, ReplacesReading
<1>3. ASSUME NEW n \in Notices, Observe(n) PROVE Reading'
  BY <1>3, ObserveReads
<1>4. ASSUME NEW n \in Notices, UpsertThread(n) \/ AppendEvent(n) PROVE Reading'
  BY <1>4, <1>b DEF UpsertThread, AppendEvent
<1>5. ASSUME NEW p \in Panes, PaneExits(p) PROVE Reading'
  <2>1. PICK gone : gone = {s \in Sessions : following[s] # Unfollowed /\ following[s].pane = p}
    OBVIOUS
  <2>2. /\ UNCHANGED readVars /\ forgotten' = NoLonger(gone)
        /\ following' = [s \in Sessions |-> IF s \in gone THEN Unfollowed ELSE following[s]]
    BY <1>5, <2>1 DEF PaneExits
  <2>3. gone \in SUBSET Sessions /\ \A s \in gone : Following(s)
    BY <2>1 DEF Following
  <2> QED BY <1>a, <2>2, <2>3, ReadingForgets
<1>6. CASE SetRetention
  BY <1>6, <1>b DEF SetRetention
<1>7. CASE Restart
  <2>1. PICK gone : gone = {s \in Sessions : following[s] # Unfollowed}
    OBVIOUS
  <2>2. /\ UNCHANGED readVars /\ forgotten' = NoLonger(gone)
        /\ following' = [s \in Sessions |-> Unfollowed]
    BY <1>7, <2>1 DEF Restart
  <2>3. gone \in SUBSET Sessions /\ \A s \in gone : Following(s)
    BY <2>1 DEF Following
  <2>4. following' = [s \in Sessions |-> IF s \in gone THEN Unfollowed ELSE following[s]]
    BY <1>a, <2>1, <2>2
  <2> QED BY <1>a, <2>2, <2>3, <2>4, ReadingForgets
<1>8. CASE UNCHANGED vars
  BY <1>8, <1>b DEF vars, paneVars
<1> QED BY <1>1, <1>2, <1>3, <1>4, <1>5, <1>6, <1>7, <1>8 DEF Next

(* Every log is empty to begin with, and nobody reads.                       *)
LEMMA ReadingFirst == Init => Reading
<1> SUFFICES ASSUME Init PROVE Reading
  OBVIOUS
<1>1. /\ log = [s \in Sessions |-> <<>>] /\ taken = [s \in Sessions |-> <<>>]
      /\ replaced = [s \in Sessions |-> 0] /\ forgotten = [s \in Sessions |-> 0]
      /\ \A s \in Sessions : ~Following(s)
  BY DEF Init, Following
<1>2. <<>> \in Seq(Units) /\ Len(<<>>) = 0
  OBVIOUS
<1>3. log \in [Sessions -> Seq(Units)] /\ taken = [s \in Sessions |-> taken[s]]
      /\ replaced \in [Sessions -> Nat]
  BY <1>1, <1>2
<1>4. \A s \in Sessions : Written(s)
  <2>1. \A s \in Sessions : Len(Script[s]) \in Nat
    BY AgentsAssumption
  <2> QED BY <1>1, <1>2, <2>1 DEF Written
<1>5. ASSUME NEW s \in Sessions PROVE Read(s)
  <2>1. taken[s] = <<>> /\ replaced[s] = 0 /\ forgotten[s] = 0 /\ ~Opened(s)
    BY <1>1 DEF Opened
  <2>2. Listed(<<>>) /\ AllEntire(log[s], <<>>, 0)
    BY <1>2 DEF Listed, AllEntire
  <2> QED BY <1>2, <2>1, <2>2 DEF Read
<1> QED BY <1>1, <1>3, <1>4, <1>5 DEF Reading

(* Every line from where a reader began is taken in exactly once and whole,  *)
(* whatever units a log is written in and wherever a read stops, and a       *)
(* session is given another reader only when it was forgotten.               *)
THEOREM LinesTakenOnce == Spec => []TranscriptExact
<1>1. ASSUME Reading PROVE TranscriptExact
  <2>1. ASSUME NEW s \in Sessions
        PROVE  /\ Len(taken[s]) <= 1 + forgotten[s]
               /\ \A i \in DOMAIN taken[s] : replaced[s] < i =>
                     taken[s][i].lines = LinesIn(SubSeq(log[s], taken[s][i].from + 1, taken[s][i].offset))
    <3>1. Read(s)
      BY <1>1 DEF Reading
    <3>2. Len(taken[s]) \in Nat /\ forgotten[s] \in Nat /\ DOMAIN taken[s] = 1..Len(taken[s])
      BY <3>1 DEF Read, Listed
    <3>3. Len(taken[s]) <= 1 + forgotten[s]
      BY <3>1, <3>2 DEF Read
    <3>4. \A i \in 1..Len(taken[s]) : replaced[s] < i => Entire(log[s], taken[s][i])
      BY <3>1 DEF Read, AllEntire
    <3> QED BY <3>2, <3>3, <3>4 DEF Entire, TakenWhole
  <2> QED BY <2>1 DEF TranscriptExact
<1> QED BY <1>1, Begins, ReadingFirst, OwnedStep, ReadingStep, PTL DEF Spec

-----------------------------------------------------------------------------
(* The fold over the lines, by which they become payloads.                   *)
Pushed(f, m, base, lines) ==
  f = [s \in SUBSET (1..m) |->
         IF s = {} THEN base ELSE PushInto(f[s \ {Max(s)}], lines[Max(s)])]

(* The largest of a set, with or without its bound.                          *)
LEMMA MaxOf ==
  ASSUME NEW m \in Nat, NEW s \in SUBSET (1..(m + 1))
  PROVE  /\ m + 1 \in s => Max(s) = m + 1 /\ s \ {Max(s)} \in SUBSET (1..m)
         /\ m + 1 \notin s => s \in SUBSET (1..m) /\ (s # {} => s \ {Max(s)} \in SUBSET (1..m))
<1>1. m + 1 \in Nat
  OBVIOUS
<1>2. s # {} => Max(s) \in s /\ \A i \in s : i <= Max(s)
  BY <1>1, MaxIs
<1>3. CASE m + 1 \in s
  <2>1. Max(s) \in 1..(m + 1) /\ m + 1 <= Max(s)
    BY <1>2, <1>3
  <2>2. Max(s) = m + 1
    BY <2>1
  <2> QED BY <1>3, <2>2
<1>4. CASE m + 1 \notin s
  <2>1. \A i \in 1..(m + 1) : i # m + 1 => i \in 1..m
    OBVIOUS
  <2>2. s \in SUBSET (1..m)
    BY <1>4, <2>1
  <2> QED BY <1>4, <2>2
<1> QED BY <1>3, <1>4

(* There is such a function for every number of lines, ...                   *)
LEMMA PushedExists == ASSUME NEW base, NEW lines PROVE \A n \in Nat : \E f : Pushed(f, n, base, lines)
<1> DEFINE P == {n \in Nat : \E f : Pushed(f, n, base, lines)}
<1>1. 0 \in P
  <2> DEFINE f == [s \in SUBSET (1..0) |-> base]
  <2>1. \A s \in SUBSET (1..0) : s = {}
    <3>1. 1..0 = {}
      OBVIOUS
    <3> QED BY <3>1
  <2>2. Pushed(f, 0, base, lines)
    BY <2>1, Zenon DEF Pushed
  <2> HIDE DEF f
  <2> QED BY <2>2
<1>2. ASSUME NEW n \in P PROVE n + 1 \in P
  <2>a. n \in Nat
    BY DEF P
  <2>1. PICK f : Pushed(f, n, base, lines)
    BY DEF P
  <2>b. \A s \in SUBSET (1..n) : f[s] = IF s = {} THEN base
                                     ELSE PushInto(f[s \ {Max(s)}], lines[Max(s)])
    BY <2>1, Zenon DEF Pushed
  <2> DEFINE g == [s \in SUBSET (1..(n + 1)) |->
                     IF n + 1 \in s THEN PushInto(f[s \ {n + 1}], lines[n + 1]) ELSE f[s]]
  <2>2. ASSUME NEW s \in SUBSET (1..n) PROVE g[s] = f[s]
    <3>1. s \in SUBSET (1..(n + 1)) /\ n + 1 \notin s
      BY <2>a
    <3> QED BY <3>1, Zenon
  <2>3. ASSUME NEW s \in SUBSET (1..(n + 1))
        PROVE  g[s] = IF s = {} THEN base ELSE PushInto(g[s \ {Max(s)}], lines[Max(s)])
    <3>1. CASE n + 1 \in s
      <4>1. Max(s) = n + 1 /\ s \ {Max(s)} \in SUBSET (1..n)
        BY <2>a, <3>1, MaxOf
      <4>2. g[s] = PushInto(f[s \ {n + 1}], lines[n + 1])
        BY <3>1, Zenon
      <4>3. g[s \ {Max(s)}] = f[s \ {Max(s)}]
        BY <2>2, <4>1, Zenon
      <4>4. g[s] = PushInto(g[s \ {Max(s)}], lines[Max(s)])
        BY <4>1, <4>2, <4>3, Zenon
      <4> QED BY <3>1, <4>4, Zenon
    <3>2. CASE n + 1 \notin s
      <4>1. s \in SUBSET (1..n) /\ (s # {} => s \ {Max(s)} \in SUBSET (1..n))
        BY <2>a, <3>2, MaxOf
      <4>2. g[s] = f[s] /\ (s # {} => g[s \ {Max(s)}] = f[s \ {Max(s)}])
        BY <2>2, <4>1, Zenon
      <4> HIDE DEF g
      <4>3. CASE s = {}
        BY <2>b, <4>1, <4>2, <4>3, Zenon
      <4>4. CASE s # {}
        <5>1. f[s] = PushInto(f[s \ {Max(s)}], lines[Max(s)])
          BY <2>b, <4>1, <4>4, Zenon
        <5>2. g[s] = PushInto(g[s \ {Max(s)}], lines[Max(s)])
          BY <4>2, <4>4, <5>1, Zenon
        <5> QED BY <4>4, <5>2, Zenon
      <4> QED BY <4>3, <4>4
    <3> QED BY <3>1, <3>2
  <2>4. Pushed(g, n + 1, base, lines)
    <3>1. \E h : h = [s \in SUBSET (1..(n + 1)) |-> g[s]]
      OBVIOUS
    <3>2. g = [s \in SUBSET (1..(n + 1)) |-> g[s]]
      OBVIOUS
    <3> HIDE DEF g
    <3> QED BY <2>3, <3>2, Zenon DEF Pushed
  <2> HIDE DEF g
  <2> QED BY <2>a, <2>4
<1> HIDE DEF P
<1>3. P = Nat
  <2>1. P \in SUBSET Nat
    BY DEF P
  <2> QED BY <1>1, <1>2, <2>1, Induction
<1> QED BY <1>3 DEF P

(* ... and the fold is its value at all of them.                             *)
LEMMA FoldIs ==
  ASSUME NEW base, NEW lines \in Seq(LogLines)
  PROVE  \E f : /\ Pushed(f, Len(lines), base, lines)
                /\ FoldLeft(PushInto, base, lines) = f[1..Len(lines)]
<1> DEFINE f == CHOOSE f : f = [s \in SUBSET (1..Len(lines)) |->
                   IF s = {} THEN base ELSE PushInto(f[s \ {Max(s)}], lines[Max(s)])]
<1>1. \E g : g = [s \in SUBSET (1..Len(lines)) |->
                   IF s = {} THEN base ELSE PushInto(g[s \ {Max(s)}], lines[Max(s)])]
  <2>1. Len(lines) \in Nat
    OBVIOUS
  <2>2. PICK g : Pushed(g, Len(lines), base, lines)
    BY <2>1, PushedExists
  <2> QED BY <2>2, Zenon DEF Pushed
<1>2. f = [s \in SUBSET (1..Len(lines)) |->
             IF s = {} THEN base ELSE PushInto(f[s \ {Max(s)}], lines[Max(s)])]
  BY <1>1, Zenon
<1>3. DOMAIN lines = 1..Len(lines)
  OBVIOUS
<1>4. FoldLeft(PushInto, base, lines) = f[1..Len(lines)]
  BY <1>3, Zenon DEF FoldLeft, MapThenFoldSet
<1> HIDE DEF f
<1> QED BY <1>2, <1>4 DEF Pushed

-----------------------------------------------------------------------------
(* What a log's lines become: payloads of the commands in it.                *)
Told == [kind : {"started", "output"}, of : Shell] \cup
        [kind : {"completed"}, of : Shell, code : Outcomes, reported : {FALSE}] \cup {Note}
OpenCalls == {c \in Seq(Shell) : Len(c) <= MaxCalls}
Accs == [calls : OpenCalls, out : Seq(Told)]

(* A call that starts is kept within the limit, ...                          *)
LEMMA StartedTyped ==
  ASSUME NEW calls \in OpenCalls, NEW c \in Shell
  PROVE  CallStarted(calls, c) \in OpenCalls
<1>1. calls \in Seq(Shell) /\ Len(calls) \in Nat /\ Len(calls) <= MaxCalls /\ MaxCalls \in Nat \ {0}
  BY ReaderAssumption DEF OpenCalls
<1>2. CASE Len(calls) >= MaxCalls
  <2>1. calls # <<>>
    BY <1>1, <1>2
  <2>2. Tail(calls) \in Seq(Shell) /\ Len(Tail(calls)) = Len(calls) - 1
    BY <1>1, <2>1, HeadTailProperties
  <2>3. CallStarted(calls, c) = Append(Tail(calls), c)
    BY <1>2 DEF CallStarted
  <2>4. Append(Tail(calls), c) \in Seq(Shell) /\ Len(Append(Tail(calls), c)) = Len(calls)
    BY <1>1, <2>2, AppendProperties
  <2> QED BY <1>1, <2>3, <2>4 DEF OpenCalls
<1>3. CASE ~(Len(calls) >= MaxCalls)
  <2>1. CallStarted(calls, c) = Append(calls, c)
    BY <1>3 DEF CallStarted
  <2>2. Append(calls, c) \in Seq(Shell) /\ Len(Append(calls, c)) = Len(calls) + 1
    BY <1>1, AppendProperties
  <2> QED BY <1>1, <1>3, <2>1, <2>2 DEF OpenCalls
<1> QED BY <1>2, <1>3

(* ... one that ends is taken out, ...                                       *)
LEMMA FinishedTyped ==
  ASSUME NEW calls \in OpenCalls, NEW c \in Range(calls)
  PROVE  CallFinished(calls, c) \in OpenCalls
<1>1. calls \in Seq(Shell) /\ Len(calls) \in Nat /\ Len(calls) <= MaxCalls /\ MaxCalls \in Nat
  BY ReaderAssumption DEF OpenCalls
<1>2. PICK k : k = {j \in DOMAIN calls : calls[j] = c}
  OBVIOUS
<1>3. k \in SUBSET Nat /\ k \in SUBSET (1..Len(calls)) /\ k # {}
  BY <1>1, <1>2 DEF Range
<1>4. PICK i \in 1..Len(calls) : i = Min(k)
  BY <1>3, MinIs
<1>5. CallFinished(calls, c) = SubSeq(calls, 1, i - 1) \o SubSeq(calls, i + 1, Len(calls))
  BY <1>2, <1>4, Zenon DEF CallFinished, RemoveAt
<1>6. /\ SubSeq(calls, 1, i - 1) \in Seq(Shell) /\ Len(SubSeq(calls, 1, i - 1)) = i - 1
  <2>1. i - 1 \in Nat /\ i - 1 <= Len(calls) /\ 0 \in Nat /\ 0 <= i - 1 /\ 0 + 1 = 1 /\ (i - 1) - 0 = i - 1
    BY <1>1
  <2>2. SubSeq(calls, 0 + 1, i - 1) \in Seq(Shell) /\ Len(SubSeq(calls, 0 + 1, i - 1)) = (i - 1) - 0
    BY <1>1, <2>1, RunIs
  <2> QED BY <2>1, <2>2
<1>7. /\ SubSeq(calls, i + 1, Len(calls)) \in Seq(Shell)
      /\ Len(SubSeq(calls, i + 1, Len(calls))) = Len(calls) - i
  BY <1>1, RunIs
<1>8. /\ SubSeq(calls, 1, i - 1) \o SubSeq(calls, i + 1, Len(calls)) \in Seq(Shell)
      /\ Len(SubSeq(calls, 1, i - 1) \o SubSeq(calls, i + 1, Len(calls)))
           = Len(SubSeq(calls, 1, i - 1)) + Len(SubSeq(calls, i + 1, Len(calls)))
  BY <1>6, <1>7, ConcatProperties
<1>9. (i - 1) + (Len(calls) - i) <= MaxCalls
  BY <1>1
<1> QED BY <1>5, <1>6, <1>7, <1>8, <1>9 DEF OpenCalls

(* ... and a line adds payloads of the commands it is about.                 *)
LEMMA PushTyped == ASSUME NEW acc \in Accs, NEW line \in LogLines PROVE PushInto(acc, line) \in Accs
<1>1. acc.calls \in OpenCalls /\ acc.out \in Seq(Told) /\ acc = [calls |-> acc.calls, out |-> acc.out]
  BY DEF Accs
<1>2. CASE line.kind = "call"
  <2>1. line.of \in Shell
    BY DEF LogLines
  <2>2. PushInto(acc, line) = [calls |-> CallStarted(acc.calls, line.of),
                               out |-> Append(acc.out, [kind |-> "started", of |-> line.of])]
    BY <1>2 DEF PushInto
  <2>3. [kind |-> "started", of |-> line.of] \in Told
    BY <2>1 DEF Told
  <2>4. Append(acc.out, [kind |-> "started", of |-> line.of]) \in Seq(Told)
    BY <1>1, <2>3, AppendProperties
  <2>5. CallStarted(acc.calls, line.of) \in OpenCalls
    BY <1>1, <2>1, StartedTyped
  <2> QED BY <2>2, <2>4, <2>5 DEF Accs
<1>3. CASE line.kind = "result" /\ line.of \in Range(acc.calls)
  <2>1. line.of \in Shell /\ line.code \in Outcomes
    BY <1>3 DEF LogLines
  <2> DEFINE x == [kind |-> "output", of |-> line.of]
             y == [kind |-> "completed", of |-> line.of, code |-> line.code, reported |-> FALSE]
  <2>2. PushInto(acc, line) = [calls |-> CallFinished(acc.calls, line.of), out |-> acc.out \o <<x, y>>]
    BY <1>3 DEF PushInto
  <2>3. x \in Told /\ y \in Told
    BY <2>1 DEF Told
  <2> HIDE DEF x, y
  <2>4. <<x, y>> \in Seq(Told)
    BY <2>3
  <2>5. PICK z \in Seq(Told) : z = <<x, y>>
    BY <2>4, Zenon
  <2>6. acc.out \o z \in Seq(Told)
    BY <1>1, ConcatProperties
  <2>7. CallFinished(acc.calls, line.of) \in OpenCalls
    BY <1>1, <1>3, FinishedTyped
  <2> QED BY <2>2, <2>5, <2>6, <2>7 DEF Accs
<1>4. CASE ~(line.kind = "call") /\ ~(line.kind = "result" /\ line.of \in Range(acc.calls))
  <2>1. PushInto(acc, line) = [acc EXCEPT !.out = Append(acc.out, [kind |-> "note"])]
    BY <1>4 DEF PushInto
  <2>2. [kind |-> "note"] \in Told
    BY DEF Told, Note
  <2>3. Append(acc.out, [kind |-> "note"]) \in Seq(Told)
    BY <1>1, <2>2, AppendProperties
  <2> QED BY <1>1, <2>1, <2>3 DEF Accs
<1> QED BY <1>2, <1>3, <1>4

(* So do all of the lines, one after another.                                *)
LEMMA FoldTyped ==
  ASSUME NEW base \in Accs, NEW lines \in Seq(LogLines)
  PROVE  FoldLeft(PushInto, base, lines) \in Accs
<1>1. PICK f : /\ Pushed(f, Len(lines), base, lines)
               /\ FoldLeft(PushInto, base, lines) = f[1..Len(lines)]
  BY FoldIs
<1>2. \A s \in SUBSET (1..Len(lines)) :
        f[s] = IF s = {} THEN base ELSE PushInto(f[s \ {Max(s)}], lines[Max(s)])
  BY <1>1, Zenon DEF Pushed
<1> DEFINE P == {m \in Nat : m <= Len(lines) => \A s \in SUBSET (1..m) : f[s] \in Accs}
<1>a. Len(lines) \in Nat
  OBVIOUS
<1>3. 0 \in P
  <2>1. \A s \in SUBSET (1..0) : s = {}
    <3>1. 1..0 = {}
      OBVIOUS
    <3> QED BY <3>1
  <2>2. f[{}] = base
    BY <1>2
  <2>3. \A s \in SUBSET (1..0) : f[s] \in Accs
    BY <2>1, <2>2, Zenon
  <2> QED BY <2>3
<1>4. ASSUME NEW m \in P PROVE m + 1 \in P
  <2> SUFFICES ASSUME m + 1 <= Len(lines), NEW s \in SUBSET (1..(m + 1)) PROVE f[s] \in Accs
    OBVIOUS
  <2>1. m \in Nat /\ m <= Len(lines) /\ m + 1 \in 1..Len(lines)
    BY <1>a
  <2>2. \A q \in SUBSET (1..m) : f[q] \in Accs
    BY <2>1
  <2>3. s \in SUBSET (1..Len(lines))
    BY <2>1
  <2> HIDE DEF P
  <2>4. CASE m + 1 \in s
    <3>1. Max(s) = m + 1 /\ s \ {Max(s)} \in SUBSET (1..m) /\ s # {}
      BY <2>1, <2>4, MaxOf
    <3>2. f[s] = PushInto(f[s \ {Max(s)}], lines[Max(s)])
      BY <1>2, <2>3, <3>1, Zenon
    <3>3. lines[Max(s)] \in LogLines
      BY <2>1, <3>1
    <3>4. f[s \ {Max(s)}] \in Accs
      BY <2>2, <3>1, Zenon
    <3> QED BY <3>2, <3>3, <3>4, PushTyped
  <2>5. CASE m + 1 \notin s
    <3>1. s \in SUBSET (1..m)
      BY <2>1, <2>5, MaxOf
    <3> QED BY <2>2, <3>1, Zenon
  <2> QED BY <2>4, <2>5
<1>5. P = Nat
  <2>1. P \in SUBSET Nat
    OBVIOUS
  <2> HIDE DEF P
  <2> QED BY <1>3, <1>4, <2>1, Induction
<1>6. Len(lines) \in P /\ 1..Len(lines) \in SUBSET (1..Len(lines))
  BY <1>5, <1>a
<1>7. f[1..Len(lines)] \in Accs
  <2>1. Len(lines) <= Len(lines)
    BY <1>a
  <2> QED BY <1>6, <2>1, Zenon
<1> QED BY <1>1, <1>7, Zenon

(* What a log holds is read as lines.                                        *)
LEMMA LinesTyped == ASSUME NEW a \in Seq(Units) PROVE LinesIn(a) \in Seq(LogLines)
<1>1. FlattenSeq(Completed(a)) \in Seq(LogLines)
  BY CompletedTyped, FlattenTyped
<1> QED BY <1>1, Zenon DEF LinesIn, Completed

(* What a read makes of the calls it knows and of the lines it takes in.     *)
LEMMA ReadTyped ==
  ASSUME NEW l \in Seq(Units), NEW r, Numbered(r), r.calls \in OpenCalls
  PROVE  ReadNew(r, l).reader.calls \in OpenCalls /\ ReadNew(r, l).out \in Seq(Told)
<1>1. Kept(r, l) \in Seq(Units)
  <2>1. PICK k \in Nat : /\ Start(r, l) + k <= Len(l)
                         /\ Kept(r, l) = SubSeq(l, Start(r, l) + 1, Start(r, l) + k)
    BY KeptIs DEF Numbered
  <2>2. Start(r, l) \in Nat
    BY DEF Start, Numbered
  <2>3. PICK a \in Nat, m \in Nat : a = Start(r, l) /\ m = Start(r, l) + k /\ a <= m
    BY <2>2
  <2> QED BY <2>1, <2>3, RunIs
<1>2. LinesIn(Kept(r, l)) \in Seq(LogLines)
  BY <1>1, LinesTyped
<1>3. [calls |-> r.calls, out |-> <<>>] \in Accs
  <2>1. <<>> \in Seq(Told)
    OBVIOUS
  <2> QED BY <2>1 DEF Accs
<1>4. PICK told : /\ told = FoldLeft(PushInto, [calls |-> r.calls, out |-> <<>>], LinesIn(Kept(r, l)))
                  /\ told \in Accs
  BY <1>2, <1>3, FoldTyped
<1>5. /\ ReadNew(r, l).reader = [r EXCEPT !.offset = Start(r, l) + Len(Kept(r, l)), !.calls = told.calls]
      /\ ReadNew(r, l).out = told.out
  BY <1>4, Zenon DEF ReadNew
<1>6. ReadNew(r, l).reader.calls = told.calls
  BY <1>5 DEF Numbered
<1> QED BY <1>4, <1>5, <1>6 DEF Accs

-----------------------------------------------------------------------------
(* The bridge keeps its types and loses no Block, whatever a Thread reports. *)
Flights == [command : Commands, output : Seq(Commands)]
BlockRows == [command : Commands, output : Seq(Commands), code : Codes \cup {Silent}, status : Statuses]

Summed == /\ cut \in [Threads -> Nat]
          /\ \A t \in Threads :
                begun[t] = Len(blocks[t]) + cut[t] + (IF flight[t] = Idle THEN 0 ELSE 1)
BlocksSound == BlocksTypeOK(Threads) /\ Summed

(* Closing adds the row of the Block in flight, if there is one.             *)
LEMMA ClosingAdds ==
  ASSUME BlocksSound, NEW t \in Threads, NEW code \in Codes \cup {Silent}, NEW status \in Statuses,
         Close(t, code, status)
  PROVE  /\ blocks' \in [Threads -> Seq(BlockRows)]
         /\ Len(blocks'[t]) = Len(blocks[t]) + (IF flight[t] = Idle THEN 0 ELSE 1)
         /\ \A q \in Threads : q # t => blocks'[q] = blocks[q]
<1>1. blocks \in [Threads -> Seq(BlockRows)] /\ flight[t] \in Flights \cup {Idle}
  BY DEF BlocksSound, BlocksTypeOK, BlockRows, Flights
<1>2. CASE flight[t] = Idle
  BY <1>1, <1>2 DEF Close
<1>3. CASE flight[t] # Idle
  <2>1. Finished(flight[t], code, status) \in BlockRows
    BY <1>1, <1>3 DEF Finished, BlockRows, Flights
  <2>2. blocks' = [blocks EXCEPT ![t] = Append(blocks[t], Finished(flight[t], code, status))]
    BY <1>3 DEF Close
  <2>3. blocks[t] \in Seq(BlockRows)
    BY <1>1
  <2>4. /\ Append(blocks[t], Finished(flight[t], code, status)) \in Seq(BlockRows)
        /\ Len(Append(blocks[t], Finished(flight[t], code, status))) = Len(blocks[t]) + 1
    BY <2>1, <2>3, AppendProperties
  <2> QED BY <1>1, <1>3, <2>2, <2>4
<1> QED BY <1>2, <1>3

(* Every Thread's sum is right if it is right for the one that reported.     *)
LEMMA SumsRight ==
  ASSUME BlocksSound, NEW t \in Threads, NEW f \in Flights \cup {Idle}, Len(f.output) <= MaxOutput,
         flight' = [flight EXCEPT ![t] = f],
         blocks' \in [Threads -> Seq(BlockRows)], begun' \in [Threads -> Nat],
         \A q \in Threads : q # t => blocks'[q] = blocks[q] /\ begun'[q] = begun[q],
         UNCHANGED cut,
         begun'[t] = Len(blocks'[t]) + cut[t] + (IF f = Idle THEN 0 ELSE 1)
  PROVE  BlocksSound'
<1>1. /\ flight \in [Threads -> Flights \cup {Idle}]
      /\ \A q \in Threads : Len(flight[q].output) <= MaxOutput
      /\ \A q \in Threads : begun[q] = Len(blocks[q]) + cut[q] + (IF flight[q] = Idle THEN 0 ELSE 1)
  BY DEF BlocksSound, BlocksTypeOK, Summed, Flights
<1>2. /\ flight' \in [Threads -> Flights \cup {Idle}] /\ flight'[t] = f
      /\ \A q \in Threads : q # t => flight'[q] = flight[q]
  BY <1>1
<1>3. BlocksTypeOK(Threads)'
  <2>1. \A q \in Threads : Len(flight'[q].output) <= MaxOutput
    BY <1>1, <1>2
  <2> QED BY <1>2, <2>1 DEF BlocksTypeOK, BlockRows, Flights
<1>4. Summed'
  <2>1. ASSUME NEW q \in Threads
        PROVE  begun'[q] = Len(blocks'[q]) + cut'[q] + (IF flight'[q] = Idle THEN 0 ELSE 1)
    <3>1. CASE q = t
      BY <1>2, <3>1, Zenon
    <3>2. CASE q # t
      BY <1>1, <1>2, <3>2, Zenon
    <3> QED BY <3>1, <3>2
  <2> QED BY <2>1 DEF BlocksSound, Summed
<1> QED BY <1>3, <1>4 DEF BlocksSound

(* What the bridge does of one payload keeps every Block accounted for.      *)
LEMMA BridgeSound ==
  ASSUME BlocksSound, NEW t \in Threads, NEW e \in Payloads, Bridge(t, e), UNCHANGED cut
  PROVE  BlocksSound'
<1>1. /\ flight \in [Threads -> Flights \cup {Idle}]
      /\ blocks \in [Threads -> Seq(BlockRows)] /\ begun \in [Threads -> Nat]
      /\ begun[t] = Len(blocks[t]) + cut[t] + (IF flight[t] = Idle THEN 0 ELSE 1)
      /\ cut[t] \in Nat
      /\ Len(flight[t].output) <= MaxOutput
  BY DEF BlocksSound, BlocksTypeOK, Summed, BlockRows, Flights
<1>2. begun[t] \in Nat /\ Len(blocks[t]) \in Nat
  BY <1>1
<1>a. MaxOutput \in Nat /\ Idle.output = <<>> /\ Len(<<>>) = 0 /\ Idle.command \notin Commands
  BY BlocksAssumption DEF Idle
<1>b. Silent \in Codes \cup {Silent} /\ "Unknown" \in Statuses
  BY DEF Statuses
<1>3. CASE CommandStarted(t, e)
  <2>1. /\ Close(t, Silent, "Unknown")
        /\ flight' = [flight EXCEPT ![t] = [command |-> e.of, output |-> <<>>]]
        /\ begun' = [begun EXCEPT ![t] = begun[t] + 1] /\ e.of \in Commands
    BY <1>3 DEF CommandStarted, Payloads
  <2>2. PICK f : f = [command |-> e.of, output |-> <<>>]
    OBVIOUS
  <2>3. f \in Flights /\ f # Idle /\ f.output = <<>>
    <3>1. <<>> \in Seq(Commands)
      OBVIOUS
    <3> QED BY <1>a, <2>1, <2>2, <3>1 DEF Flights
  <2>4. /\ blocks' \in [Threads -> Seq(BlockRows)]
        /\ Len(blocks'[t]) = Len(blocks[t]) + (IF flight[t] = Idle THEN 0 ELSE 1)
        /\ \A q \in Threads : q # t => blocks'[q] = blocks[q]
    BY <1>b, <2>1, ClosingAdds
  <2>5. /\ begun' \in [Threads -> Nat] /\ begun'[t] = begun[t] + 1
        /\ \A q \in Threads : q # t => begun'[q] = begun[q]
    BY <1>1, <1>2, <2>1
  <2>6. begun'[t] = Len(blocks'[t]) + cut[t] + (IF f = Idle THEN 0 ELSE 1)
    <3>1. CASE flight[t] = Idle
      BY <1>1, <1>2, <2>3, <2>4, <2>5, <3>1
    <3>2. CASE flight[t] # Idle
      <4>1. /\ Len(blocks'[t]) = Len(blocks[t]) + 1 /\ begun'[t] = begun[t] + 1
            /\ begun[t] = Len(blocks[t]) + cut[t] + 1
        BY <1>1, <2>4, <2>5, <3>2
      <4>2. begun'[t] = Len(blocks'[t]) + cut[t] + 1
        BY <1>1, <1>2, <4>1
      <4> QED BY <2>3, <4>2
    <3> QED BY <3>1, <3>2
  <2>7. f \in Flights \cup {Idle} /\ Len(f.output) <= MaxOutput /\ flight' = [flight EXCEPT ![t] = f]
    BY <1>a, <2>1, <2>2, <2>3
  <2> QED BY <2>4, <2>5, <2>6, <2>7, SumsRight
<1>4. CASE CommandOutput(t, e)
  <2>1. UNCHANGED <<blocks, begun>> /\ e.of \in Commands
    BY <1>4 DEF CommandOutput, Payloads
  <2>2. CASE flight[t] = Idle \/ Len(flight[t].output) >= MaxOutput
    <3>1. flight' = flight
      BY <1>4, <2>2 DEF CommandOutput
    <3> QED BY <2>1, <3>1 DEF BlocksSound, BlocksTypeOK, Summed
  <2>3. CASE ~(flight[t] = Idle \/ Len(flight[t].output) >= MaxOutput)
    <3>1. PICK f : f = [flight[t] EXCEPT !.output = Append(flight[t].output, e.of)]
      OBVIOUS
    <3>2. flight' = [flight EXCEPT ![t] = f]
      BY <1>4, <2>3, <3>1 DEF CommandOutput
    <3>3. flight[t] \in Flights
      BY <1>1, <2>3
    <3>4. /\ flight[t].output \in Seq(Commands) /\ flight[t].command \in Commands
          /\ flight[t] = [command |-> flight[t].command, output |-> flight[t].output]
          /\ Len(flight[t].output) \in Nat
      BY <3>3 DEF Flights
    <3>5. /\ Append(flight[t].output, e.of) \in Seq(Commands)
          /\ Len(Append(flight[t].output, e.of)) = Len(flight[t].output) + 1
      BY <2>1, <3>4, AppendProperties
    <3>6. f = [command |-> flight[t].command, output |-> Append(flight[t].output, e.of)]
      BY <3>1, <3>4
    <3>7. f \in Flights /\ f # Idle /\ Len(f.output) <= MaxOutput
      BY <1>a, <2>3, <3>4, <3>5, <3>6 DEF Flights
    <3>8. begun'[t] = Len(blocks'[t]) + cut[t] + (IF f = Idle THEN 0 ELSE 1)
      BY <1>1, <2>1, <2>3, <3>7
    <3>9. \A q \in Threads : q # t => blocks'[q] = blocks[q] /\ begun'[q] = begun[q]
      BY <2>1
    <3>10. f \in Flights \cup {Idle} /\ blocks' \in [Threads -> Seq(BlockRows)] /\ begun' \in [Threads -> Nat]
      BY <1>1, <2>1, <3>7
    <3> QED BY <3>2, <3>7, <3>8, <3>9, <3>10, SumsRight
  <2> QED BY <2>2, <2>3
<1>5. CASE CommandCompleted(t, e) \/ ThreadEnded(t, e)
  <2>1. PICK code \in Codes \cup {Silent}, status \in Statuses : Close(t, code, status)
    <3>1. CASE CommandCompleted(t, e)
      <4>1. /\ (IF e.reported THEN e.code ELSE Silent) \in Codes \cup {Silent}
            /\ StatusOf(e.code) \in Statuses
        BY <3>1 DEF CommandCompleted, Payloads, StatusOf, Statuses
      <4>2. Close(t, IF e.reported THEN e.code ELSE Silent, StatusOf(e.code))
        BY <3>1 DEF CommandCompleted
      <4> HIDE DEF Close, StatusOf
      <4> QED BY <4>1, <4>2
    <3>2. CASE ThreadEnded(t, e)
      BY <1>b, <3>2 DEF ThreadEnded
    <3> QED BY <1>5, <3>1, <3>2
  <2>2. flight' = [flight EXCEPT ![t] = Idle] /\ begun' = begun
    BY <1>5 DEF CommandCompleted, ThreadEnded
  <2>3. /\ blocks' \in [Threads -> Seq(BlockRows)]
        /\ Len(blocks'[t]) = Len(blocks[t]) + (IF flight[t] = Idle THEN 0 ELSE 1)
        /\ \A q \in Threads : q # t => blocks'[q] = blocks[q]
    BY <2>1, ClosingAdds
  <2>4. begun'[t] = Len(blocks'[t]) + cut[t] + (IF Idle = Idle THEN 0 ELSE 1)
    BY <1>1, <1>2, <2>2, <2>3
  <2>5. /\ Idle \in Flights \cup {Idle} /\ Len(Idle.output) <= MaxOutput
        /\ \A q \in Threads : q # t => blocks'[q] = blocks[q] /\ begun'[q] = begun[q]
        /\ begun' \in [Threads -> Nat]
    BY <1>1, <1>a, <2>2, <2>3
  <2> QED BY <2>2, <2>3, <2>4, <2>5, SumsRight
<1> QED BY <1>3, <1>4, <1>5 DEF Bridge

-----------------------------------------------------------------------------
(* Types: what the notification threads hold, what is followed, the rows,    *)
(* and how many Threads so many observations have made.                      *)
Spawns == [stage : {"spawned"}, session : Sessions, pane : Panes, kind : Kinds]
Observations == [stage : {"observed"}, session : Sessions, thread : Nat,
                 row : Titles \cup {NoRow}, todo : Seq(Told)]

Noticed == notice \in [Notices -> {Unborn, Gone} \cup Spawns \cup Observations]

FollowTyped == \A s \in Sessions : Following(s) =>
    /\ "pane" \in DOMAIN following[s] /\ following[s].pane \in Panes
    /\ following[s].prompted \in BOOLEAN /\ following[s].reader.calls \in OpenCalls

RowsTyped == \A t \in DOMAIN rows : rows[t] \in [session : Sessions, title : Titles]

Over == {n \in Notices : notice[n].stage \in {"observed", "gone"}}
Counted == Len(made) <= Cardinality(Over)

Typed == /\ alive \subseteq Panes /\ recorded \subseteq 1..Len(made)
         /\ Noticed /\ FollowTyped /\ RowsTyped /\ Counted /\ BlocksSound

(* There are as many notifications as the bound says, and no more.           *)
LEMMA OverFinite ==
  ASSUME NEW S \in SUBSET Notices
  PROVE  IsFiniteSet(S) /\ Cardinality(S) \in Nat /\ Cardinality(S) <= NoticeBound
<1>1. NoticeBound \in Nat
  BY AgentsAssumption
<1>2. IsFiniteSet(1..NoticeBound) /\ Cardinality(1..NoticeBound) = NoticeBound
  BY <1>1, FS_Interval
<1>3. IsFiniteSet(S) /\ Cardinality(S) <= NoticeBound
  BY <1>2, FS_Subset DEF Notices
<1> QED BY <1>3, FS_CardinalityType

(* A Thread that was made is one of the Threads there are.                   *)
LEMMA MadeIsThread ==
  ASSUME Owned, Counted, NEW t, NEW s, Made(t, s)
  PROVE  t \in Threads
<1>1. Cardinality(Over) \in Nat /\ Cardinality(Over) <= NoticeBound
  BY OverFinite DEF Over
<1>2. Len(made) \in Nat /\ NoticeBound \in Nat
  BY AgentsAssumption DEF Owned
<1> QED BY <1>1, <1>2 DEF Counted, Made, Threads, Notices

(* The steps that make no Thread.                                            *)
LEMMA StillCounted ==
  ASSUME Counted, UNCHANGED made, Over \subseteq Over', Len(made) \in Nat
  PROVE  Counted'
<1>1. Over \in SUBSET Notices /\ Over' \in SUBSET Notices
  BY DEF Over
<1>2. PICK a, b : a = Over /\ b = Over'
  OBVIOUS
<1>3. IsFiniteSet(b) /\ Cardinality(b) \in Nat /\ Cardinality(a) \in Nat
  BY <1>1, <1>2, OverFinite
<1>4. Cardinality(a) <= Cardinality(b)
  BY <1>2, <1>3, FS_Subset
<1> QED BY <1>2, <1>3, <1>4 DEF Counted

(* A notification that goes on with its work, or ends.                       *)
LEMMA LeftTyped ==
  ASSUME Noticed, NEW n \in Notices, NEW rest \in Observations, Left(n, rest)
  PROVE  /\ Noticed'
         /\ Over' = Over \cup {n}
<1>1. PICK r : r = IF rest.row = NoRow /\ rest.todo = <<>> THEN Gone ELSE rest
  OBVIOUS
<1>2. notice' = [notice EXCEPT ![n] = r]
  BY <1>1 DEF Left
<1>3. r \in {Gone} \cup Observations /\ r.stage \in {"observed", "gone"}
  BY <1>1 DEF Observations, Gone
<1>4. Noticed'
  BY <1>2, <1>3 DEF Noticed
<1>5. notice'[n] = r /\ \A m \in Notices : m # n => notice'[m] = notice[m]
  BY <1>2 DEF Noticed
<1>6. Over' = Over \cup {n}
  BY <1>3, <1>5 DEF Over
<1> QED BY <1>4, <1>6

(* What a notification under way holds.                                      *)
LEMMA ObservedTyped == ASSUME Noticed, NEW n \in Notices
  PROVE  /\ notice[n].stage = "observed" => notice[n] \in Observations
         /\ notice[n].stage = "spawned" => notice[n] \in Spawns
<1>1. notice[n] \in {Unborn, Gone} \cup Spawns \cup Observations
  BY DEF Noticed
<1>2. Unborn.stage = "unborn" /\ Gone.stage = "gone"
  BY DEF Unborn, Gone
<1>3. (\A r \in Spawns : r.stage = "spawned") /\ (\A r \in Observations : r.stage = "observed")
  BY DEF Spawns, Observations
<1> QED BY <1>1, <1>2, <1>3

(* Appending an event: the Block bridge gets a payload of a real Thread.     *)
LEMMA AppendTyped ==
  ASSUME Owned, Typed, NEW n \in Notices, AppendEvent(n)
  PROVE  Typed'
<1>1. PICK t, e : /\ t = notice[n].thread /\ e = Head(notice[n].todo)
                  /\ recorded' = recorded \cup {t}
                  /\ \/ e = Note /\ UNCHANGED blockVars
                     \/ e # Note /\ Bridge(t, e)
  BY DEF AppendEvent
<1>2. /\ notice[n].stage = "observed" /\ notice[n].todo # <<>>
      /\ Left(n, [notice[n] EXCEPT !.todo = Tail(notice[n].todo)])
      /\ UNCHANGED <<alive, following, made, rows, cut>>
  BY DEF AppendEvent
<1>3. notice[n] \in Observations
  BY <1>2, ObservedTyped DEF Typed
<1>4. notice[n].todo \in Seq(Told)
  BY <1>3 DEF Observations
<1>5. e \in Told /\ Tail(notice[n].todo) \in Seq(Told)
  BY <1>1, <1>2, <1>4, HeadTailProperties
<1>6. [notice[n] EXCEPT !.todo = Tail(notice[n].todo)] \in Observations
  BY <1>3, <1>5 DEF Observations
<1>7. Noticed' /\ Over' = Over \cup {n}
  BY <1>2, <1>6, LeftTyped DEF Typed
<1>8. Made(t, notice[n].session)
  BY <1>1, <1>2 DEF Owned, ObservedWell
<1>9. t \in Threads
  BY <1>8, MadeIsThread DEF Typed
<1>10. BlocksSound'
  <2>1. CASE e = Note /\ UNCHANGED blockVars
    BY <1>2, <2>1 DEF Typed, BlocksSound, BlocksTypeOK, Summed, blockVars
  <2>2. CASE e # Note /\ Bridge(t, e)
    <3>1. e \in Payloads
      <4>1. Shell \subseteq Commands /\ Outcomes \subseteq Codes
        BY CommandsAssumption
      <4>2. e \in [kind : {"started", "output"}, of : Shell] \cup
                  [kind : {"completed"}, of : Shell, code : Outcomes, reported : {FALSE}]
        BY <1>5, <2>2 DEF Told
      <4>3. CASE e \in [kind : {"started", "output"}, of : Shell]
        BY <4>1, <4>3 DEF Payloads
      <4>4. CASE e \in [kind : {"completed"}, of : Shell, code : Outcomes, reported : {FALSE}]
        <5>1. [kind : {"completed"}, of : Shell, code : Outcomes, reported : {FALSE}]
                \subseteq [kind : {"completed"}, of : Commands, code : Codes, reported : BOOLEAN]
          BY <4>1
        <5> QED BY <4>4, <5>1 DEF Payloads
      <4> QED BY <4>2, <4>3, <4>4
    <3> QED BY <1>2, <1>9, <2>2, <3>1, BridgeSound DEF Typed
  <2> QED BY <1>1, <2>1, <2>2
<1>11. Counted'
  <2>1. Len(made) \in Nat
    BY DEF Owned
  <2> QED BY <1>2, <1>7, <2>1, StillCounted DEF Typed
<1>12. recorded' \subseteq 1..Len(made')
  BY <1>1, <1>2, <1>8 DEF Typed, Made
<1>13. FollowTyped' /\ RowsTyped'
  BY <1>2 DEF Typed, FollowTyped, RowsTyped, Following
<1> QED BY <1>2, <1>7, <1>10, <1>11, <1>12, <1>13 DEF Typed

(* Writing the row.                                                          *)
LEMMA UpsertTyped ==
  ASSUME Owned, Typed, NEW n \in Notices, UpsertThread(n)
  PROVE  Typed'
<1>1. /\ notice[n].stage = "observed" /\ notice[n].row # NoRow
      /\ Left(n, [notice[n] EXCEPT !.row = NoRow])
      /\ UNCHANGED <<alive, following, made, recorded, cut, blockVars>>
      /\ rows' = [t \in DOMAIN rows \cup {notice[n].thread} |->
                    IF t = notice[n].thread
                    THEN [session |-> notice[n].session, title |-> notice[n].row] ELSE rows[t]]
  BY DEF UpsertThread
<1>2. notice[n] \in Observations
  BY <1>1, ObservedTyped DEF Typed
<1>3. [notice[n] EXCEPT !.row = NoRow] \in Observations
  BY <1>2 DEF Observations
<1>4. Noticed' /\ Over' = Over \cup {n}
  BY <1>1, <1>3, LeftTyped DEF Typed
<1>5. Counted'
  <2>1. Len(made) \in Nat
    BY DEF Owned
  <2> QED BY <1>1, <1>4, <2>1, StillCounted DEF Typed
<1>6. RowsTyped'
  <2>1. [session |-> notice[n].session, title |-> notice[n].row] \in [session : Sessions, title : Titles]
    BY <1>1, <1>2 DEF Observations
  <2> QED BY <1>1, <2>1 DEF Typed, RowsTyped
<1>7. FollowTyped' /\ BlocksSound'
  BY <1>1 DEF Typed, FollowTyped, Following, BlocksSound, BlocksTypeOK, Summed, blockVars
<1> QED BY <1>1, <1>4, <1>5, <1>6, <1>7 DEF Typed

-----------------------------------------------------------------------------
(* What is known of a session when it is observed.                           *)
LEMMA KnownTyped ==
  ASSUME Owned, Typed, NEW s \in Sessions, NEW p \in Panes, NEW o \in Known(s, p)
  PROVE  /\ "pane" \in DOMAIN o /\ o.pane \in Panes /\ o.prompted \in BOOLEAN
         /\ o.reader.calls \in OpenCalls /\ o.thread \in Nat
         /\ ~Following(s) /\ ~(o.thread > Len(made)) => o.thread \in DOMAIN rows
<1>0. made \in Seq(Sessions) /\ Len(made) \in Nat
  BY DEF Owned
<1>1. CASE Following(s)
  <2>1. o = [following[s] EXCEPT !.pane = p]
    BY <1>1 DEF Known, Following
  <2>2. /\ "pane" \in DOMAIN following[s] /\ following[s].prompted \in BOOLEAN
        /\ following[s].reader.calls \in OpenCalls
    BY <1>1 DEF Typed, FollowTyped
  <2>3. Made(following[s].thread, s)
    BY <1>1 DEF Owned, FollowedWell
  <2>4. /\ "pane" \in DOMAIN o /\ o.pane = p /\ o.prompted = following[s].prompted
        /\ o.reader = following[s].reader /\ o.thread = following[s].thread
    BY <2>1, <2>2
  <2> QED BY <1>0, <1>1, <2>2, <2>3, <2>4 DEF Made
<1>2. CASE ~Following(s)
  <2>a. <<>> \in OpenCalls
    <3>1. <<>> \in Seq(Shell) /\ Len(<<>>) = 0
      OBVIOUS
    <3> QED BY <3>1, ReaderAssumption DEF OpenCalls
  <2>1. PICK t, q :
          /\ q \in BOOLEAN
          /\ o = [thread |-> t, pane |-> p, prompted |-> q, reader |-> NoReader]
          /\ t \in RowsOf(s, rows) \/ t = Len(made) + 1
    BY <1>2 DEF Known, Open, Following
  <2>2. o.thread = t /\ o.pane = p /\ o.prompted = q /\ o.reader.calls = <<>> /\ "pane" \in DOMAIN o
    BY <2>1 DEF NoReader
  <2>3. CASE t \in RowsOf(s, rows)
    <3>1. t \in DOMAIN rows /\ t \in Nat
      BY <2>3 DEF RowsOf, Owned, RowsWell, Made
    <3> QED BY <1>2, <2>a, <2>1, <2>2, <3>1
  <2>4. CASE t = Len(made) + 1
    BY <1>0, <1>2, <2>a, <2>1, <2>2, <2>4
  <2> QED BY <2>1, <2>3, <2>4
<1> QED BY <1>1, <1>2

(* Observing: at most one Thread is made, and the notification has made it.  *)
LEMMA ObserveTyped ==
  ASSUME Owned, Reading, Typed, NEW n \in Notices, Observe(n)
  PROVE  Typed'
<1>0. PICK s, p : s = notice[n].session /\ p = notice[n].pane
  OBVIOUS
<1>1. /\ s \in Sessions /\ p \in Panes /\ notice[n].stage = "spawned"
      /\ UNCHANGED <<alive, rows, recorded, log, cut, blockVars>>
      /\ following = [q \in Sessions |-> following[q]] /\ made \in Seq(Sessions)
  <2>1. notice[n].stage = "spawned" /\ UNCHANGED <<alive, rows, recorded, log, cut, blockVars>>
    BY DEF Observe
  <2>2. notice[n] \in Spawns
    BY <2>1, ObservedTyped DEF Typed
  <2> QED BY <1>0, <2>1, <2>2 DEF Spawns, Owned, FollowedWell
<1>2. PICK o \in Known(s, p) : TakeIn(n, o)
  BY <1>0 DEF Observe
<1>3. /\ "pane" \in DOMAIN o /\ o.pane \in Panes /\ o.prompted \in BOOLEAN
      /\ o.reader.calls \in OpenCalls /\ o.thread \in Nat
      /\ ~Following(s) /\ ~(o.thread > Len(made)) => o.thread \in DOMAIN rows
  BY <1>1, <1>2, KnownTyped
<1>4. {"thread", "prompted", "reader"} \subseteq DOMAIN o /\ Numbered(o.reader)
  BY <1>1, <1>2, KnownReader
<1>5. PICK r : r = ReaderFor(o, s)
  OBVIOUS
<1>6. Numbered(r) /\ r.calls \in OpenCalls
  <2>1. Numbered(r)
    BY <1>1, <1>4, <1>5, ReaderReads
  <2>2. <<>> \in OpenCalls
    <3>1. <<>> \in Seq(Shell) /\ Len(<<>>) = 0
      OBVIOUS
    <3> QED BY <3>1, ReaderAssumption DEF OpenCalls
  <2>3. r.calls = o.reader.calls \/ r.calls = <<>>
    BY <1>5 DEF ReaderFor, FromStart, FromEnd, ReaderAt
  <2> QED BY <1>3, <2>1, <2>2, <2>3
<1>7. PICK w : w = ReadNew(r, log[s])
  OBVIOUS
<1>8. w.reader.calls \in OpenCalls /\ w.out \in Seq(Told)
  BY <1>1, <1>6, <1>7, ReadTyped DEF Reading
<1> DEFINE created == following[s] = Unfollowed
           fresh == o.thread > Len(made)
           first == notice[n].kind = "promptSubmit" /\ ~o.prompted
<1>9. first \in BOOLEAN
  OBVIOUS
<1>10. made' = IF fresh THEN Append(made, s) ELSE made
  BY <1>0, <1>2, <1>9 DEF TakeIn
<1>11. following' = [following EXCEPT ![s] =
         [o EXCEPT !.prompted = o.prompted \/ first,
                   !.reader = IF notice[n].kind = "stop" THEN w.reader ELSE o.reader]]
  BY <1>0, <1>2, <1>4, <1>5, <1>7, <1>9 DEF TakeIn
<1>12. PICK heard \in Seq(Told), row \in Titles \cup {NoRow} :
         Left(n, [stage |-> "observed", session |-> s, thread |-> o.thread, row |-> row,
                  todo |-> (IF created THEN <<Note>> ELSE <<>>) \o heard])
  <2> DEFINE heard == CASE notice[n].kind = "sessionStart" -> <<>>
                        [] notice[n].kind = "stop" -> w.out
                        [] OTHER -> <<Note>>
             row == IF first THEN "prompt"
                    ELSE IF ~created THEN NoRow
                    ELSE IF fresh THEN "default" ELSE rows[o.thread].title
  <2>1. Left(n, [stage |-> "observed", session |-> s, thread |-> o.thread, row |-> row,
                 todo |-> (IF created THEN <<Note>> ELSE <<>>) \o heard])
    BY <1>0, <1>2, <1>5, <1>7, <1>9 DEF TakeIn
  <2>2. heard \in Seq(Told)
    <3>1. <<>> \in Seq(Told) /\ <<Note>> \in Seq(Told)
      <4>1. Note \in Told
        BY DEF Told
      <4> QED BY <4>1
    <3> QED BY <1>8, <3>1
  <2>3. row \in Titles \cup {NoRow}
    <3>1. created /\ ~fresh => rows[o.thread].title \in Titles
      BY <1>3, <1>9 DEF Typed, RowsTyped, Following
    <3>2. "prompt" \in Titles /\ "default" \in Titles
      BY DEF Titles
    <3> QED BY <3>1, <3>2
  <2> HIDE DEF heard, row
  <2> QED BY <2>1, <2>2, <2>3
<1>13. Noticed' /\ Over' = Over \cup {n}
  <2>1. PICK todo \in Seq(Told) : todo = (IF created THEN <<Note>> ELSE <<>>) \o heard
    <3>1. Note \in Told
      BY DEF Told
    <3>2. (IF created THEN <<Note>> ELSE <<>>) \in Seq(Told)
      BY <3>1
    <3>3. PICK c \in Seq(Told) : c = IF created THEN <<Note>> ELSE <<>>
      BY <3>2, Zenon
    <3>4. c \o heard \in Seq(Told)
      BY ConcatProperties
    <3> QED BY <3>3, <3>4, Zenon
  <2>2. PICK rest : rest = [stage |-> "observed", session |-> s, thread |-> o.thread,
                            row |-> row, todo |-> todo]
    OBVIOUS
  <2>3. rest \in Observations
    BY <1>1, <1>3, <2>2 DEF Observations
  <2>4. Left(n, rest)
    BY <1>12, <2>1, <2>2, Zenon
  <2> QED BY <2>3, <2>4, LeftTyped DEF Typed
<1>14. Counted' /\ Len(made) <= Len(made')
  <2>1. /\ Len(made) \in Nat
        /\ Len(made') <= Len(made) + 1 /\ Len(made) <= Len(made')
    BY <1>1, <1>10, AppendProperties
  <2>2. n \notin Over /\ Over \in SUBSET Notices
    BY <1>1 DEF Over
  <2>3. PICK a : a = Over
    OBVIOUS
  <2>4. IsFiniteSet(a) /\ Cardinality(a) \in Nat
    BY <2>2, <2>3, OverFinite
  <2>5. Cardinality(a \cup {n}) = Cardinality(a) + 1
    BY <2>2, <2>3, <2>4, FS_AddElement
  <2>6. Len(made') \in Nat
    BY <1>1, <1>10, AppendProperties
  <2>7. Len(made') <= Cardinality(a \cup {n})
    BY <2>1, <2>3, <2>4, <2>5, <2>6 DEF Typed, Counted
  <2> QED BY <1>13, <2>1, <2>3, <2>7 DEF Counted
<1>15. FollowTyped'
  <2>1. PICK f : f = [o EXCEPT !.prompted = o.prompted \/ first,
                               !.reader = IF notice[n].kind = "stop" THEN w.reader ELSE o.reader]
    OBVIOUS
  <2>2. following'[s] = f /\ \A q \in Sessions : q # s => following'[q] = following[q]
    BY <1>1, <1>11, <2>1
  <2>3. /\ "pane" \in DOMAIN f /\ f.pane = o.pane
        /\ f.prompted = (o.prompted \/ first)
        /\ f.reader = IF notice[n].kind = "stop" THEN w.reader ELSE o.reader
    BY <1>3, <1>4, <2>1
  <2>4. f.pane \in Panes /\ f.prompted \in BOOLEAN /\ f.reader.calls \in OpenCalls
    BY <1>3, <1>8, <2>3
  <2> QED BY <2>2, <2>3, <2>4 DEF Typed, FollowTyped, Following
<1>16. recorded' \subseteq 1..Len(made')
  <2>1. Len(made') \in Nat
    BY <1>1, <1>10, AppendProperties
  <2> QED BY <1>1, <1>14, <2>1 DEF Typed
<1>17. RowsTyped' /\ BlocksSound'
  BY <1>1 DEF Typed, RowsTyped, BlocksSound, BlocksTypeOK, Summed, blockVars
<1> QED BY <1>1, <1>13, <1>14, <1>15, <1>16, <1>17 DEF Typed

-----------------------------------------------------------------------------
(* The steps that leave the made Threads and the notifications alone.        *)
LEMMA QuietTyped ==
  ASSUME Typed, UNCHANGED <<made, notice, cut, blockVars>>, alive' \subseteq Panes,
         recorded' \subseteq recorded, RowsTyped', FollowTyped'
  PROVE  Typed'
<1>1. Noticed' /\ Counted' /\ BlocksSound'
  BY DEF Typed, Noticed, Counted, Over, BlocksSound, BlocksTypeOK, Summed, blockVars
<1>2. recorded' \subseteq 1..Len(made')
  BY DEF Typed
<1> QED BY <1>1, <1>2 DEF Typed

(* A new notification.                                                       *)
LEMMA NotifyTyped ==
  ASSUME Owned, Typed, NEW n \in Notices, NEW s \in Sessions, NEW p \in Panes, NEW k \in Kinds,
         Notify(n, s, p, k)
  PROVE  Typed'
<1>1. PICK r : r = [stage |-> "spawned", session |-> s, pane |-> p, kind |-> k]
  OBVIOUS
<1>2. /\ notice[n] = Unborn /\ notice' = [notice EXCEPT ![n] = r]
      /\ UNCHANGED <<alive, following, made, rows, recorded, cut, blockVars>>
  BY <1>1 DEF Notify
<1>3. r \in Spawns
  BY <1>1 DEF Spawns
<1>4. Noticed'
  BY <1>2, <1>3 DEF Typed, Noticed
<1>5. Counted'
  <2>1. n \notin Over
    BY <1>2 DEF Over, Unborn
  <2>2. \A m \in Notices : m # n => notice'[m] = notice[m]
    BY <1>2 DEF Typed, Noticed
  <2>3. Over \subseteq Over'
    BY <2>1, <2>2 DEF Over
  <2>4. Len(made) \in Nat
    BY DEF Owned
  <2> QED BY <1>2, <2>3, <2>4, StillCounted DEF Typed
<1>6. FollowTyped' /\ RowsTyped' /\ BlocksSound' /\ recorded' \subseteq 1..Len(made')
  BY <1>2 DEF Typed, FollowTyped, Following, RowsTyped, BlocksSound, BlocksTypeOK,
     Summed, blockVars
<1> QED BY <1>2, <1>4, <1>5, <1>6 DEF Typed

(* The rows a prune leaves are rows there were.                              *)
LEMMA PruneTyped ==
  ASSUME Typed, NEW aged, Prune(aged)
  PROVE  RowsTyped' /\ recorded' \subseteq recorded
BY DEF Typed, Prune, RowsTyped

LEMMA KeepAllTyped ==
  ASSUME Typed, KeepAll
  PROVE  RowsTyped' /\ recorded' \subseteq recorded
BY DEF Typed, KeepAll, RowsTyped

(* A restart cuts what was in flight.                                        *)
LEMMA RestartTyped ==
  ASSUME Owned, Typed, Restart
  PROVE  Typed'
<1>1. /\ UNCHANGED <<made, blocks>> /\ alive' = Panes
      /\ following' = [s \in Sessions |-> Unfollowed]
      /\ notice' = [n \in Notices |-> IF notice[n] = Unborn THEN Unborn ELSE Gone]
      /\ flight' = [t \in Threads |-> Idle]
      /\ cut' = [t \in Threads |-> IF flight[t] = Idle THEN cut[t] ELSE cut[t] + 1]
      /\ begun' = begun
  BY DEF Restart
<1>2. RowsTyped' /\ recorded' \subseteq recorded
  BY PruneTyped, KeepAllTyped DEF Restart
<1>3. Noticed'
  BY <1>1 DEF Noticed
<1>4. Counted'
  <2>1. ASSUME NEW n \in Over PROVE n \in Over'
    <3>1. n \in Notices /\ notice[n] # Unborn
      BY DEF Over, Unborn
    <3>2. notice'[n] = Gone
      BY <1>1, <3>1
    <3> QED BY <3>1, <3>2 DEF Over, Gone
  <2>2. Len(made) \in Nat
    BY DEF Owned
  <2> QED BY <1>1, <2>1, <2>2, StillCounted DEF Typed
<1>5. FollowTyped'
  BY <1>1 DEF FollowTyped, Following
<1>6. BlocksSound'
  <2>1. blocks \in [Threads -> Seq(BlockRows)] /\ begun \in [Threads -> Nat]
    BY DEF Typed, BlocksSound, BlocksTypeOK, BlockRows
  <2>2. begun' \in [Threads -> Nat] /\ blocks' \in [Threads -> Seq(BlockRows)]
    BY <1>1, <2>1
  <2>3. flight' \in [Threads -> Flights \cup {Idle}]
    BY <1>1
  <2>4. \A t \in Threads : Len(flight'[t].output) <= MaxOutput
    <3>1. Len(Idle.output) = 0
      BY DEF Idle
    <3> QED BY <1>1, <3>1, BlocksAssumption
  <2>5. BlocksTypeOK(Threads)'
    BY <2>2, <2>3, <2>4 DEF BlocksTypeOK, Flights, BlockRows
  <2>6. Summed'
    <3>1. /\ cut \in [Threads -> Nat]
          /\ \A t \in Threads :
                begun[t] = Len(blocks[t]) + cut[t] + (IF flight[t] = Idle THEN 0 ELSE 1)
      BY DEF Typed, BlocksSound, Summed
    <3>2. \A t \in Threads : Len(blocks[t]) \in Nat /\ cut[t] \in Nat
      BY <2>1, <3>1
    <3>3. cut' \in [Threads -> Nat]
      BY <1>1, <3>2
    <3>4. ASSUME NEW t \in Threads
          PROVE  begun'[t] = Len(blocks'[t]) + cut'[t] + (IF flight'[t] = Idle THEN 0 ELSE 1)
      <4>1. /\ flight'[t] = Idle /\ begun'[t] = begun[t] /\ blocks'[t] = blocks[t]
            /\ cut'[t] = IF flight[t] = Idle THEN cut[t] ELSE cut[t] + 1
        BY <1>1
      <4>2. begun[t] = Len(blocks[t]) + cut'[t] + 0
        BY <3>1, <3>2, <4>1
      <4> QED BY <4>1, <4>2, Zenon
    <3> QED BY <3>3, <3>4, Zenon DEF Summed
  <2> QED BY <2>5, <2>6 DEF BlocksSound
<1>7. recorded' \subseteq 1..Len(made')
  BY <1>1, <1>2 DEF Typed
<1> QED BY <1>1, <1>2, <1>3, <1>4, <1>5, <1>6, <1>7 DEF Typed

(* Every step keeps the types and the Blocks.                                *)
LEMMA TypedStep == Owned /\ Reading /\ Typed /\ [Next]_vars => Typed'
<1> SUFFICES ASSUME Owned, Reading, Typed, [Next]_vars PROVE Typed'
  OBVIOUS
<1>a. ASSUME UNCHANGED <<alive, following, made, rows, recorded, notice, cut, blockVars>> PROVE Typed'
  <2>1. FollowTyped' /\ RowsTyped' /\ alive' \subseteq Panes /\ recorded' \subseteq recorded
    BY <1>a DEF Typed, FollowTyped, Following, RowsTyped
  <2> QED BY <1>a, <2>1, QuietTyped
<1>1. ASSUME NEW n \in Notices, NEW s \in Sessions, NEW p \in Panes, NEW k \in Kinds,
             Notify(n, s, p, k)
      PROVE  Typed'
  BY <1>1, NotifyTyped
<1>2. ASSUME NEW s \in Sessions, AgentWrites(s) \/ AgentReplacesLog(s) PROVE Typed'
  BY <1>2, <1>a DEF AgentWrites, AgentReplacesLog
<1>3. ASSUME NEW n \in Notices, Observe(n) PROVE Typed'
  BY <1>3, ObserveTyped
<1>4. ASSUME NEW n \in Notices, UpsertThread(n) PROVE Typed'
  BY <1>4, UpsertTyped
<1>5. ASSUME NEW n \in Notices, AppendEvent(n) PROVE Typed'
  BY <1>5, AppendTyped
<1>6. ASSUME NEW p \in Panes, PaneExits(p) PROVE Typed'
  <2>1. /\ alive' = alive \ {p} /\ UNCHANGED <<made, rows, recorded, notice, cut, blockVars>>
        /\ \A s \in Sessions : following'[s] \in {Unfollowed, following[s]}
    BY <1>6 DEF PaneExits
  <2>2. FollowTyped' /\ RowsTyped' /\ alive' \subseteq Panes /\ recorded' \subseteq recorded
    BY <2>1 DEF Typed, FollowTyped, Following, RowsTyped
  <2> QED BY <2>1, <2>2, QuietTyped
<1>7. CASE SetRetention
  <2>1. UNCHANGED <<alive, following, made, notice, cut, blockVars>>
    BY <1>7 DEF SetRetention
  <2>2. RowsTyped' /\ recorded' \subseteq recorded
    BY <1>7, PruneTyped DEF SetRetention
  <2>3. FollowTyped' /\ alive' \subseteq Panes
    BY <2>1 DEF Typed, FollowTyped, Following
  <2> QED BY <2>1, <2>2, <2>3, QuietTyped
<1>8. CASE Restart
  BY <1>8, RestartTyped
<1>9. CASE UNCHANGED vars
  BY <1>9, <1>a DEF vars, paneVars
<1> QED BY <1>1, <1>2, <1>3, <1>4, <1>5, <1>6, <1>7, <1>8, <1>9 DEF Next

(* So does the beginning.                                                    *)
LEMMA TypedFirst == Init => Typed
<1> SUFFICES ASSUME Init PROVE Typed
  OBVIOUS
<1>1. Noticed /\ FollowTyped /\ RowsTyped
  BY DEF Init, Noticed, FollowTyped, Following, RowsTyped
<1>2. Counted
  <2>1. Over \in SUBSET Notices
    BY DEF Over
  <2>2. PICK a : a = Over
    OBVIOUS
  <2>3. Cardinality(a) \in Nat /\ Len(made) = 0
    BY <2>1, <2>2, OverFinite DEF Init
  <2> QED BY <2>2, <2>3 DEF Counted
<1>3. BlocksSound
  <2>1. /\ flight = [t \in Threads |-> Idle] /\ blocks = [t \in Threads |-> <<>>]
        /\ begun = [t \in Threads |-> 0] /\ cut = [t \in Threads |-> 0]
    BY DEF Init, BlocksInit
  <2>2. Len(Idle.output) = 0 /\ Len(<<>>) = 0 /\ MaxOutput \in Nat
    BY BlocksAssumption DEF Idle
  <2>3. BlocksTypeOK(Threads)
    <3>1. <<>> \in Seq(BlockRows)
      OBVIOUS
    <3> QED BY <2>1, <2>2, <3>1 DEF BlocksTypeOK, BlockRows
  <2>4. Summed
    BY <2>1, <2>2 DEF Summed
  <2> QED BY <2>3, <2>4 DEF BlocksSound
<1>4. alive \subseteq Panes /\ recorded \subseteq 1..Len(made)
  BY DEF Init
<1> QED BY <1>1, <1>2, <1>3, <1>4 DEF Typed

(* The three invariants together.                                            *)
LEMMA AlwaysTyped == Spec => [](Owned /\ Reading /\ Typed)
<1>1. Init => Owned /\ Reading /\ Typed
  BY Begins, ReadingFirst, TypedFirst
<1> QED BY <1>1, OwnedStep, ReadingStep, TypedStep, PTL DEF Spec

(* A restart cuts one Block of a Thread at most.                             *)
CutFew == faults \in Nat /\ \A t \in Threads : cut[t] \in Nat /\ cut[t] <= faults

LEMMA CutFewStep == CutFew /\ [Next]_vars => CutFew'
<1> SUFFICES ASSUME CutFew, [Next]_vars PROVE CutFew'
  OBVIOUS
<1>1. ASSUME UNCHANGED cut, faults' = faults \/ faults' = faults + 1 PROVE CutFew'
  BY <1>1 DEF CutFew
<1>2. ASSUME NEW n \in Notices, NEW s \in Sessions, NEW p \in Panes, NEW k \in Kinds,
             Notify(n, s, p, k)
      PROVE  CutFew'
  BY <1>1, <1>2 DEF Notify
<1>3. ASSUME NEW s \in Sessions, AgentWrites(s) \/ AgentReplacesLog(s) PROVE CutFew'
  BY <1>1, <1>3 DEF AgentWrites, AgentReplacesLog
<1>4. ASSUME NEW n \in Notices, Observe(n) \/ UpsertThread(n) \/ AppendEvent(n) PROVE CutFew'
  BY <1>1, <1>4 DEF Observe, UpsertThread, AppendEvent
<1>5. ASSUME NEW p \in Panes, PaneExits(p) PROVE CutFew'
  BY <1>1, <1>5 DEF PaneExits
<1>6. CASE SetRetention
  BY <1>1, <1>6 DEF SetRetention
<1>7. CASE Restart
  <2>1. /\ faults' = faults + 1
        /\ cut' = [t \in Threads |-> IF flight[t] = Idle THEN cut[t] ELSE cut[t] + 1]
    BY <1>7 DEF Restart
  <2> QED BY <2>1 DEF CutFew
<1>8. CASE UNCHANGED vars
  BY <1>1, <1>8 DEF vars, paneVars
<1> QED BY <1>2, <1>3, <1>4, <1>5, <1>6, <1>7, <1>8 DEF Next

(* Every command a followed session's log says was started is one Block of   *)
(* its Thread, finished or in flight, over exits, prunes and replaced logs,  *)
(* but for those that were in flight when Tervin stopped: one per restart.   *)
THEOREM CommandsKept == Spec => []NoBlockVanishes
<1>1. Init => CutFew
  BY DEF Init, CutFew
<1>2. Typed /\ CutFew => NoBlockVanishes
  BY DEF Typed, BlocksSound, Summed, CutFew, NoBlockVanishes
<1> QED BY <1>1, <1>2, CutFewStep, AlwaysTyped, PTL DEF Spec

(* Every variable is of its type, and no more Threads are made than          *)
(* notifications came.                                                       *)
THEOREM TypeCorrect == Spec => []TypeOK
<1>1. ASSUME Owned, Reading, Typed PROVE TypeOK
  <2>1. made \in Seq(Sessions) /\ Len(made) \in Nat
    BY <1>1 DEF Owned
  <2>2. Len(made) <= NoticeBound
    <3>1. Cardinality(Over) \in Nat /\ Cardinality(Over) <= NoticeBound
      BY OverFinite DEF Over
    <3> QED BY <1>1, <2>1, <3>1, AgentsAssumption DEF Typed, Counted
  <2>3. DOMAIN rows \subseteq 1..Len(made)
    BY <1>1 DEF Owned, RowsWell, Made
  <2>4. \A s \in Sessions : Following(s) =>
          /\ following[s].thread \in 1..Len(made) /\ following[s].pane \in Panes
          /\ following[s].prompted \in BOOLEAN
          /\ Len(following[s].reader.calls) <= MaxCalls
    BY <1>1 DEF Owned, FollowedWell, Made, Typed, FollowTyped, OpenCalls
  <2>5. \A s \in Sessions : log[s] \in Seq(Units)
    BY <1>1 DEF Reading
  <2> QED BY <1>1, <2>1, <2>2, <2>3, <2>4, <2>5 DEF TypeOK, Typed, RowsTyped, BlocksSound
<1> QED BY <1>1, AlwaysTyped, PTL
=============================================================================
