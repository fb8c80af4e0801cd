--------------------------- MODULE WorkflowProofs ---------------------------
(* Type correctness of the workflow editor, the bound on its undo history, and
   where a cycle can come from, for any graphs, workflows, calls and limit.
   The last one rests on what the walk of isValidConnection computes: the least
   set of nodes that holds its start and is closed along the edges.          *)
EXTENDS WorkflowEditor, FiniteSetTheorems, WellFoundedInduction, TLAPS

\* The canvas, and what OpenMenu leaves behind for InsertNode: an open menu is
\* open on an edge.
CanvasOK ==
  /\ nodes \subseteq NodeIds /\ edges \subseteq NodeIds \X NodeIds
  /\ past \in Seq(Graphs) /\ future \in Seq(Graphs)
  /\ menu \in [open : BOOLEAN, edge : (NodeIds \X NodeIds) \cup {None}]
  /\ menu.open => menu.edge \in NodeIds \X NodeIds
  /\ captured \subseteq NodeIds \X NodeIds
  /\ HistoryIsBounded

WorkspaceOK ==
  /\ shown \in BOOLEAN
  /\ editing \in Opened \cup {None}
  /\ listed \in [Workflows -> Rows] /\ server \in [Workflows -> Rows]
  /\ job \in [Jobs -> Calls \cup {None}]
  /\ stray \subseteq [id : Workflows, graph : Graphs]
  /\ faults \in 0 .. MaxFaults

Inv == CanvasOK /\ WorkspaceOK

-----------------------------------------------------------------------------
(* The canvas                                                              *)

LEMMA CanvasIsGraph ==
  ASSUME nodes \subseteq NodeIds, edges \subseteq NodeIds \X NodeIds
  PROVE  Canvas \in Graphs
BY DEF Canvas, Graphs

LEMMA EmptyIsGraph == Empty \in Graphs
BY DEF Empty, Graphs

\* The slice of takeSnapshot keeps snapshots, and never more than the limit.
LEMMA LatestIsBounded ==
  ASSUME NEW s \in Seq(Graphs)
  PROVE  Latest(s) \in Seq(Graphs) /\ Len(Latest(s)) <= HistoryLimit
<1>1. HistoryLimit \in Nat /\ Len(s) \in Nat
  BY LimitIsNatural
<1>2. CASE Len(s) > HistoryLimit
  <2> DEFINE from == Len(s) - HistoryLimit + 1
  <2>1. from \in 1 .. Len(s) + 1 /\ Len(s) \in 0 .. Len(s)
    BY <1>1, <1>2
  <2>2. SubSeq(s, from, Len(s)) \in Seq(Graphs)
    BY <2>1
  <2>3. Len(SubSeq(s, from, Len(s))) <= HistoryLimit
    BY <1>1, <1>2, <2>1
  <2> QED
    BY <1>2, <2>2, <2>3 DEF Latest
<1>3. CASE ~(Len(s) > HistoryLimit)
  BY <1>1, <1>3 DEF Latest
<1> QED
  BY <1>2, <1>3

LEMMA SnapshotKeeps ==
  ASSUME CanvasOK, NEW es \in SUBSET (NodeIds \X NodeIds), TakeSnapshot(es)
  PROVE  /\ past' \in Seq(Graphs) /\ future' \in Seq(Graphs)
         /\ Len(past') + Len(future') <= HistoryLimit
<1> DEFINE snapshot == [nodes |-> nodes, edges |-> es]
<1>1. snapshot \in Graphs
  BY DEF CanvasOK, Graphs
<1>2. Append(past, snapshot) \in Seq(Graphs)
  BY <1>1 DEF CanvasOK
<1>3. past' = Latest(Append(past, snapshot)) /\ future' = <<>>
  BY DEF TakeSnapshot
<1>4. past' \in Seq(Graphs) /\ Len(past') <= HistoryLimit
  BY <1>2, <1>3, LatestIsBounded
<1>5. Len(past') \in Nat /\ Len(future') = 0 /\ future' \in Seq(Graphs)
  BY <1>3, <1>4
<1> QED
  BY <1>4, <1>5, LimitIsNatural

LEMMA MountedKeeps ==
  ASSUME NEW g \in Graphs, Mounted(g)
  PROVE  CanvasOK'
<1>1. g.nodes \subseteq NodeIds /\ g.edges \subseteq NodeIds \X NodeIds
  BY DEF Graphs
<1>2. past' \in Seq(Graphs) /\ future' \in Seq(Graphs) /\ Len(past') + Len(future') <= HistoryLimit
  BY LimitIsNatural DEF Mounted
<1>3. menu' \in [open : BOOLEAN, edge : (NodeIds \X NodeIds) \cup {None}] /\ ~menu'.open
  BY DEF Mounted, NoMenu
<1> QED
  BY <1>1, <1>2, <1>3 DEF CanvasOK, Mounted, HistoryIsBounded

\* A click keeps the menu well-formed, and closes it.
LEMMA ClickedKeeps ==
  ASSUME CanvasOK, Clicked
  PROVE  /\ menu' \in [open : BOOLEAN, edge : (NodeIds \X NodeIds) \cup {None}]
         /\ menu'.open => menu'.edge \in NodeIds \X NodeIds
BY DEF CanvasOK, Clicked

LEMMA GestureKeeps ==
  ASSUME CanvasOK, Gesture
  PROVE  CanvasOK'
<1> USE DEF HistoryIsBounded
<1>1. CASE Undo
  <2>1. /\ past[Len(past)] \in Graphs /\ Len(past) \in Nat \ {0}
        /\ Len(past) \in 1 .. Len(past)
    BY <1>1 DEF Undo, CanvasOK
  <2>2. nodes' \subseteq NodeIds /\ edges' \subseteq NodeIds \X NodeIds
    BY <1>1, <2>1 DEF Undo, Graphs
  <2>3. past' \in Seq(Graphs) /\ Len(past') = Len(past) - 1
    BY <1>1, <2>1 DEF Undo, CanvasOK
  <2>4. Canvas \in Graphs
    BY CanvasIsGraph DEF CanvasOK
  <2>5. future' \in Seq(Graphs) /\ Len(future') = Len(future) + 1
    BY <1>1, <2>4 DEF Undo, CanvasOK
  <2>6. Len(past') + Len(future') <= HistoryLimit
    BY <2>1, <2>3, <2>5, LimitIsNatural DEF CanvasOK
  <2> QED
    BY <1>1, <2>2, <2>3, <2>5, <2>6 DEF Undo, Rebuilt, CanvasOK
<1>2. CASE Redo
  <2>1. Head(future) \in Graphs /\ Len(future) \in Nat \ {0} /\ Len(past) \in Nat
    BY <1>2 DEF Redo, CanvasOK
  <2>2. nodes' \subseteq NodeIds /\ edges' \subseteq NodeIds \X NodeIds
    BY <1>2, <2>1 DEF Redo, Graphs
  <2>3. future' \in Seq(Graphs) /\ Len(future') = Len(future) - 1
    BY <1>2, <2>1 DEF Redo, CanvasOK
  <2>4. Canvas \in Graphs
    BY CanvasIsGraph DEF CanvasOK
  <2>5. past' \in Seq(Graphs) /\ Len(past') = Len(past) + 1
    BY <1>2, <2>4 DEF Redo, CanvasOK
  <2>6. Len(past') + Len(future') <= HistoryLimit
    BY <2>1, <2>3, <2>5, LimitIsNatural DEF CanvasOK
  <2> QED
    BY <1>2, <2>2, <2>3, <2>5, <2>6 DEF Redo, Rebuilt, CanvasOK
<1>3. CASE Arrange
  BY <1>3, SnapshotKeeps, ClickedKeeps DEF Arrange, Rebuilt, CanvasOK
<1>4. CASE Touch
  BY <1>4 DEF Touch, Rebuilt, CanvasOK
<1>5. CASE CloseMenu
  BY <1>5, ClickedKeeps DEF CloseMenu, CanvasOK
<1>6. ASSUME NEW e \in edges, RemoveEdge(e)
      PROVE  CanvasOK'
  BY <1>6, SnapshotKeeps DEF RemoveEdge, CanvasOK
<1>7. ASSUME NEW e \in edges, OpenMenu(e)
      PROVE  CanvasOK'
  <2>1. e \in NodeIds \X NodeIds
    BY DEF CanvasOK
  <2>2. menu' = [open |-> TRUE, edge |-> e]
    BY <1>7 DEF OpenMenu
  <2> QED
    BY <1>7, <2>1, <2>2 DEF OpenMenu, CanvasOK
<1>8. ASSUME NEW n \in nodes, RemoveNode(n)
      PROVE  CanvasOK'
  <2> DEFINE attached == {e \in edges : n \in {e[1], e[2]}}
             snapshot == [nodes |-> nodes, edges |-> edges]
             longer == IF attached = {} THEN Append(past, snapshot)
                       ELSE past \o <<snapshot, snapshot>>
  <2>1. snapshot \in Graphs
    BY DEF CanvasOK, Graphs
  <2>2. longer \in Seq(Graphs)
    <3> HIDE DEF snapshot, attached
    <3> QED
      BY <2>1 DEF CanvasOK
  <2>3. past' = Latest(longer) /\ future' = <<>>
    BY <1>8 DEF RemoveNode
  <2>4. past' \in Seq(Graphs) /\ Len(past') <= HistoryLimit
    <3> HIDE DEF longer
    <3> QED
      BY <2>2, <2>3, LatestIsBounded
  <2>5. Len(past') \in Nat /\ Len(future') = 0 /\ future' \in Seq(Graphs)
    BY <2>3, <2>4
  <2>6. Len(past') + Len(future') <= HistoryLimit
    BY <2>4, <2>5, LimitIsNatural
  <2>7. nodes' \subseteq NodeIds /\ edges' \subseteq NodeIds \X NodeIds
    BY <1>8 DEF RemoveNode, CanvasOK
  <2> QED
    BY <1>8, <2>4, <2>5, <2>6, <2>7 DEF RemoveNode, Rebuilt, CanvasOK
<1>9. ASSUME NEW n \in nodes, DeleteNode(n)
      PROVE  CanvasOK'
  BY <1>9, ClickedKeeps DEF DeleteNode, Rebuilt, CanvasOK
<1>10. ASSUME NEW s \in nodes, NEW t \in nodes, Connect(s, t)
       PROVE  CanvasOK'
  <2>1. edges' = edges \cup {<<s, t>>} /\ s \in NodeIds /\ t \in NodeIds
    BY <1>10 DEF Connect, CanvasOK
  <2>2. TakeSnapshot(edges) /\ Clicked /\ UNCHANGED <<nodes, captured>>
    BY <1>10 DEF Connect
  <2> QED
    BY <2>1, <2>2, SnapshotKeeps, ClickedKeeps DEF CanvasOK
<1>11. ASSUME NEW n \in Fresh, InsertNode(n)
       PROVE  CanvasOK'
  <2> DEFINE s == menu.edge[1]
             t == menu.edge[2]
  <2>1. n \in NodeIds /\ s \in NodeIds /\ t \in NodeIds
    BY <1>11 DEF InsertNode, CanvasOK, Fresh
  <2>2. /\ edges' = (edges \ {menu.edge}) \cup {<<s, n>>, <<n, t>>}
        /\ nodes' = nodes \cup {n} /\ captured' = edges'
        /\ TakeSnapshot(captured) /\ Clicked
    BY <1>11 DEF InsertNode, Rebuilt
  <2>3. nodes' \subseteq NodeIds /\ edges' \subseteq NodeIds \X NodeIds
    BY <2>1, <2>2 DEF CanvasOK
  <2>4. captured \in SUBSET (NodeIds \X NodeIds)
    BY DEF CanvasOK
  <2> QED
    BY <2>2, <2>3, <2>4, SnapshotKeeps, ClickedKeeps DEF CanvasOK
<1>12. ASSUME NEW n \in Fresh, AddNode(n)
       PROVE  CanvasOK'
  BY <1>12, ClickedKeeps DEF AddNode, Rebuilt, CanvasOK, Fresh
<1>13. ASSUME NEW n \in Fresh, NEW m \in Fresh, AddPair(m, n)
       PROVE  CanvasOK'
  BY <1>13, ClickedKeeps DEF AddPair, Rebuilt, CanvasOK, Fresh
<1>14. ASSUME NEW n \in Fresh, NEW a \in nodes, AddStep(n, a)
       PROVE  CanvasOK'
  BY <1>14, ClickedKeeps DEF AddStep, Rebuilt, CanvasOK, Fresh
<1>15. ASSUME NEW g \in Imports, Import(g)
       PROVE  CanvasOK'
  BY <1>15, ClickedKeeps, FilesHoldGraphs DEF Import, Rebuilt, CanvasOK, Graphs
<1> QED
  BY <1>1, <1>2, <1>3, <1>4, <1>5, <1>6, <1>7, <1>8, <1>9, <1>10, <1>11, <1>12,
     <1>13, <1>14, <1>15 DEF Gesture

-----------------------------------------------------------------------------
(* The workspace                                                           *)

LEMMA PickedIsGraph ==
  ASSUME NEW row \in Rows
  PROVE  Picked(row) \in Graphs
BY DEF Picked, Rows, Graphs

LEMMA MovedCall ==
  ASSUME WorkspaceOK, NEW j \in Jobs, job[j] # None, Proceed(j)
  PROVE  job' \in [Jobs -> Calls \cup {None}]
<1>1. job \in [Jobs -> Calls \cup {None}] /\ job[j] \in Calls
  BY DEF WorkspaceOK
<1>2. [job[j] EXCEPT !.stage = "post"] \in Calls
  BY <1>1 DEF Calls
<1> QED
  BY <1>1, <1>2 DEF Proceed

LEMMA DraftIsTyped ==
  ASSUME WorkspaceOK, NEW w \in Workflows, NEW g \in Graphs, SetDraft(w, g)
  PROVE  server' \in [Workflows -> Rows]
<1>1. server \in [Workflows -> Rows] /\ server[w] \in Rows
  BY DEF WorkspaceOK
<1>2. [server[w] EXCEPT !.draft = g] \in Rows
  BY <1>1 DEF Rows
<1> QED
  BY <1>1, <1>2 DEF SetDraft

LEMMA SavedCall ==
  ASSUME Inv, NEW j \in Jobs, NEW kind \in Kinds, Save(j, kind)
  PROVE  job' \in [Jobs -> Calls \cup {None}]
<1>1. editing \in Opened
  BY DEF Inv, WorkspaceOK, Save, Building
<1>2. Canvas \in Graphs
  BY CanvasIsGraph DEF Inv, CanvasOK
<1>3. [kind |-> kind, stage |-> "put", base |-> editing, graph |-> Canvas] \in Calls
  BY <1>1, <1>2 DEF Calls
<1> QED
  BY <1>3 DEF Save, Inv, WorkspaceOK

LEMMA InitHolds ==
  ASSUME Init
  PROVE  Inv
<1>1. editing \in Opened \cup {None}
  BY StoredHoldsRows DEF Init, Opened
<1>2. editing # None => Picked(editing.row) \in Graphs
  BY <1>1, PickedIsGraph DEF Opened
<1>3. nodes \subseteq NodeIds /\ edges \subseteq NodeIds \X NodeIds
  BY <1>2 DEF Init, Graphs
<1>4. past \in Seq(Graphs) /\ future \in Seq(Graphs) /\ HistoryIsBounded
  BY LimitIsNatural DEF Init, HistoryIsBounded
<1>5. menu \in [open : BOOLEAN, edge : (NodeIds \X NodeIds) \cup {None}] /\ ~menu.open
  BY DEF Init, NoMenu
<1>6. CanvasOK
  BY <1>3, <1>4, <1>5 DEF CanvasOK, Init
<1>7. WorkspaceOK
  BY <1>1, StoredHoldsRows, FaultsAreBounded DEF WorkspaceOK, Init
<1> QED
  BY <1>6, <1>7 DEF Inv

LEMMA UserKeeps ==
  ASSUME Inv, User
  PROVE  Inv'
<1> USE DEF Inv
<1>1. CASE Building /\ Gesture /\ UNCHANGED <<shown, editing, listed, job, stray, server, faults>>
  BY <1>1, GestureKeeps DEF WorkspaceOK
<1>2. ASSUME NEW j \in Jobs, NEW kind \in {"publish", "run"}, Save(j, kind)
      PROVE  Inv'
  <2>1. kind \in Kinds
    BY DEF Kinds
  <2>2. job' \in [Jobs -> Calls \cup {None}]
    BY <1>2, <2>1, SavedCall
  <2>3. WorkspaceOK'
    BY <1>2, <2>2 DEF Save, WorkspaceOK
  <2>4. CanvasOK'
    BY <1>2 DEF Save, canvasVars, CanvasOK, HistoryIsBounded
  <2> QED
    BY <2>3, <2>4
<1>3. ASSUME NEW w \in Workflows, Fetch(w)
      PROVE  Inv'
  <2>1. WorkspaceOK'
    BY <1>3 DEF Fetch, WorkspaceOK
  <2>2. CanvasOK'
    BY <1>3 DEF Fetch, canvasVars, CanvasOK, HistoryIsBounded
  <2> QED
    BY <2>1, <2>2
<1>4. ASSUME NEW w \in Workflows, Open(w)
      PROVE  Inv'
  <2>1. listed[w] \in Rows
    BY DEF WorkspaceOK
  <2>2. CanvasOK'
    BY <1>4, <2>1, PickedIsGraph, MountedKeeps DEF Open
  <2>3. WorkspaceOK'
    BY <1>4, <2>1 DEF Open, WorkspaceOK, Opened
  <2> QED
    BY <2>2, <2>3
<1>5. ASSUME NEW w \in Workflows, Load(w)
      PROVE  Inv'
  <2>1. editing' \in Opened
    <3>1. [id |-> w, row |-> [draft |-> None, graph |-> Empty]] \in Opened
      BY EmptyIsGraph DEF Opened, Rows
    <3>2. editing # None => editing \in Opened
      BY DEF WorkspaceOK
    <3> QED
      BY <1>5, <3>1, <3>2 DEF Load
  <2>2. PICK opened \in Opened : editing' = opened
    BY <2>1
  <2>3. Picked(opened.row) \in Graphs /\ Mounted(Picked(opened.row))
    BY <1>5, <2>2, PickedIsGraph DEF Load, Opened
  <2>4. CanvasOK'
    BY <2>3, MountedKeeps
  <2>5. job' \in [Jobs -> Calls \cup {None}] /\ shown' \in BOOLEAN
    BY <1>5 DEF Load
  <2>6. stray' \subseteq [id : Workflows, graph : Graphs]
    <3>1. \A j \in Jobs : job[j] # None => job[j].base.id \in Workflows /\ job[j].graph \in Graphs
      BY DEF WorkspaceOK, Calls, Opened
    <3> QED
      BY <1>5, <3>1 DEF Load, WorkspaceOK
  <2>7. WorkspaceOK'
    BY <1>5, <2>1, <2>5, <2>6 DEF Load, WorkspaceOK
  <2> QED
    BY <2>4, <2>7
<1>6. CASE Back
  <2>1. CanvasOK'
    BY <1>6, EmptyIsGraph, MountedKeeps DEF Back, Unmounted
  <2> QED
    BY <1>6, <2>1 DEF Back, WorkspaceOK
<1>7. CASE Leave
  <2>1. CanvasOK'
    BY <1>7, EmptyIsGraph, MountedKeeps DEF Leave, Unmounted
  <2> QED
    BY <1>7, <2>1 DEF Leave, WorkspaceOK
<1>8. CASE Return
  <2>1. (IF editing = None THEN Empty ELSE Picked(editing.row)) \in Graphs
    BY EmptyIsGraph, PickedIsGraph DEF WorkspaceOK, Opened
  <2>2. CanvasOK'
    BY <1>8, <2>1, MountedKeeps DEF Return
  <2> QED
    BY <1>8, <2>2 DEF Return, WorkspaceOK
<1> QED
  BY <1>1, <1>2, <1>3, <1>4, <1>5, <1>6, <1>7, <1>8 DEF User

LEMMA AutosaveKeeps ==
  ASSUME Inv, Autosave
  PROVE  Inv'
<1>1. PICK j \in Jobs : Save(j, "save")
  BY DEF Autosave
<1>2. job' \in [Jobs -> Calls \cup {None}]
  BY <1>1, SavedCall DEF Kinds
<1>3. WorkspaceOK'
  BY <1>1, <1>2 DEF Save, WorkspaceOK, Inv
<1>4. CanvasOK'
  BY <1>1 DEF Save, canvasVars, CanvasOK, HistoryIsBounded, Inv
<1> QED
  BY <1>3, <1>4 DEF Inv

LEMMA NetworkKeeps ==
  ASSUME Inv, Network
  PROVE  Inv'
<1>1. ASSUME UNCHANGED canvasVars
      PROVE  CanvasOK'
  BY <1>1 DEF Inv, canvasVars, CanvasOK, HistoryIsBounded
<1>2. WorkspaceOK
  BY DEF Inv
<1>3. ASSUME NEW j \in Jobs, Put(j)
      PROVE  Inv'
  <2>1. job[j] \in Calls
    BY <1>2, <1>3 DEF Put, WorkspaceOK
  <2>2. job[j].base.id \in Workflows /\ job[j].graph \in Graphs
    BY <2>1 DEF Calls, Opened
  <2>3. server' \in [Workflows -> Rows]
    BY <1>2, <1>3, <2>2, DraftIsTyped DEF Put
  <2>4. [job[j] EXCEPT !.stage = "answer"] \in Calls
    BY <2>1 DEF Calls
  <2>5. job' \in [Jobs -> Calls \cup {None}]
    BY <1>2, <1>3, <2>4 DEF Put, WorkspaceOK
  <2> QED
    BY <1>1, <1>2, <1>3, <2>3, <2>5 DEF Put, Inv, WorkspaceOK
<1>4. ASSUME NEW j \in Jobs, Saved(j)
      PROVE  Inv'
  <2>1. job[j] \in Calls /\ job' \in [Jobs -> Calls \cup {None}]
    BY <1>2, <1>4, MovedCall DEF Saved, WorkspaceOK
  <2>2. [job[j].base EXCEPT !.row.graph = job[j].graph] \in Opened
    BY <2>1 DEF Calls, Opened, Rows
  <2>3. PICK opened \in Opened : editing' = opened
    BY <1>4, <2>2 DEF Saved
  <2>4. Picked(opened.row) \in Graphs
    BY PickedIsGraph DEF Opened
  <2>5. CanvasOK'
    BY <1>1, <1>4, <2>3, <2>4, MountedKeeps DEF Saved
  <2>6. WorkspaceOK'
    BY <1>2, <1>4, <2>1, <2>3 DEF Saved, WorkspaceOK
  <2> QED
    BY <2>5, <2>6 DEF Inv
<1>5. ASSUME NEW j \in Jobs, SaveFails(j)
      PROVE  Inv'
  <2>1. job[j] \in Calls /\ job' \in [Jobs -> Calls \cup {None}]
    BY <1>2, <1>5, MovedCall DEF SaveFails, WorkspaceOK
  <2>2. stray' \subseteq [id : Workflows, graph : Graphs]
    BY <1>2, <1>5, <2>1 DEF SaveFails, WorkspaceOK, Calls, Opened
  <2>3. faults' \in 0 .. MaxFaults
    BY <1>2, <1>5, FaultsAreBounded DEF SaveFails, WorkspaceOK
  <2>4. UNCHANGED <<canvasVars, shown, editing, listed, server>>
    BY <1>5 DEF SaveFails
  <2>5. WorkspaceOK'
    BY <1>2, <2>1, <2>2, <2>3, <2>4 DEF WorkspaceOK
  <2> QED
    BY <1>1, <2>4, <2>5 DEF Inv
<1>6. ASSUME NEW j \in Jobs, Publish(j)
      PROVE  Inv'
  <2>1. job[j] \in Calls /\ job' \in [Jobs -> Calls \cup {None}]
    BY <1>2, <1>6 DEF Publish, WorkspaceOK
  <2> DEFINE w == job[j].base.id
  <2>2. w \in Workflows /\ server[w] \in Rows /\ server \in [Workflows -> Rows]
    BY <1>2, <2>1 DEF Calls, Opened, WorkspaceOK
  <2>3. server[w].draft # None => [server[w] EXCEPT !.graph = server[w].draft] \in Rows
    BY <2>2 DEF Rows
  <2>4. server' \in [Workflows -> Rows]
    BY <1>6, <2>2, <2>3 DEF Publish
  <2>5. UNCHANGED <<canvasVars, shown, editing, listed, stray, faults>>
    BY <1>6 DEF Publish
  <2>6. WorkspaceOK'
    BY <1>2, <2>1, <2>4, <2>5 DEF WorkspaceOK
  <2> QED
    BY <1>1, <2>5, <2>6 DEF Inv
<1>7. ASSUME NEW j \in Jobs, Run(j) \/ PostFails(j)
      PROVE  Inv'
  <2>1. WorkspaceOK'
    BY <1>2, <1>7 DEF Run, PostFails, WorkspaceOK
  <2> QED
    BY <1>1, <1>7, <2>1 DEF Run, PostFails, Inv
<1>8. ASSUME NEW s \in stray, Arrive(s)
      PROVE  Inv'
  <2>1. s.id \in Workflows /\ s.graph \in Graphs
    BY <1>2 DEF WorkspaceOK
  <2>2. server' \in [Workflows -> Rows]
    BY <1>2, <1>8, <2>1, DraftIsTyped DEF Arrive
  <2> QED
    BY <1>1, <1>2, <1>8, <2>2 DEF Arrive, Inv, WorkspaceOK
<1>9. ASSUME NEW s \in stray, Drop(s)
      PROVE  Inv'
  BY <1>1, <1>2, <1>9 DEF Drop, Inv, WorkspaceOK
<1> QED
  BY <1>3, <1>4, <1>5, <1>6, <1>7, <1>8, <1>9 DEF Network

-----------------------------------------------------------------------------
(* What the walk reaches                                                   *)

\* Induction over a set of numbers: the least number that is missing would not be.
LEMMA SetInduction ==
  ASSUME NEW S, 0 \in S, \A k \in Nat : k \in S => k + 1 \in S
  PROVE  Nat \subseteq S
<1> DEFINE T == Nat \ S
<1> SUFFICES ASSUME T # {} PROVE FALSE
  OBVIOUS
<1>1. PICK m \in T : \A k \in T : ~(k < m)
  <2> PICK m \in T : \A k \in T : <<k, m>> \notin OpToRel(<, Nat)
    BY WFMin, NatLessThanWellFounded, Zenon
  <2>1. \A k \in T : <<k, m>> \notin {ss \in Nat \X Nat : ss[1] < ss[2]}
    BY Zenon DEF OpToRel
  <2> HIDE DEF T
  <2>2. ASSUME NEW k \in T PROVE ~(k < m)
    <3>1. k \in Nat /\ m \in Nat
      BY DEF T
    <3> QED
      BY <2>1, <3>1
  <2> QED
    BY <2>2
<1>2. m \in Nat /\ m # 0 /\ m - 1 \in Nat /\ m - 1 < m
  OBVIOUS
<1>3. m - 1 \in S
  BY <1>1, <1>2
<1> QED
  BY <1>2, <1>3

\* One step along the edges, and the walk of k steps.
Onward(es, ns) == ns \cup {e[2] : e \in {e \in es : e[1] \in ns}}
IsWalk(f, es, n, k) ==
  f = [i \in 0 .. k |-> IF i = 0 THEN {n} ELSE Onward(es, f[i - 1])]

\* There is a walk of any length: a longer one goes on where a shorter one ends.
LEMMA WalkExists ==
  ASSUME NEW es, NEW n
  PROVE  \A k \in Nat : \E f : IsWalk(f, es, n, k)
<1> DEFINE S == {k \in Nat : \E f : IsWalk(f, es, n, k)}
<1>1. 0 \in S
  <2> DEFINE f == [i \in 0 .. 0 |-> {n}]
  <2>1. f = [i \in 0 .. 0 |-> IF i = 0 THEN {n} ELSE Onward(es, f[i - 1])]
    OBVIOUS
  <2>2. IsWalk(f, es, n, 0)
    BY <2>1 DEF IsWalk
  <2> QED
    BY <2>2
<1>2. ASSUME NEW k \in Nat, k \in S PROVE k + 1 \in S
  <2> PICK f : IsWalk(f, es, n, k)
    BY <1>2
  <2> DEFINE g == [i \in 0 .. k + 1 |-> IF i = k + 1 THEN Onward(es, f[k]) ELSE f[i]]
  <2>1. ASSUME NEW i \in 0 .. k + 1
        PROVE  g[i] = IF i = 0 THEN {n} ELSE Onward(es, g[i - 1])
    <3>1. CASE i = k + 1
      <4>1. i # 0 /\ i - 1 = k /\ k \in 0 .. k + 1 /\ k # k + 1
        BY <3>1
      <4>2. g[i - 1] = f[k]
        BY <4>1
      <4> QED
        BY <3>1, <4>1, <4>2
    <3>2. CASE i \in 0 .. k
      <4>1. f[i] = IF i = 0 THEN {n} ELSE Onward(es, f[i - 1])
        BY <3>2 DEF IsWalk
      <4>2. i # k + 1 /\ (i # 0 => i - 1 \in 0 .. k + 1 /\ i - 1 # k + 1)
        BY <3>2
      <4> HIDE DEF IsWalk
      <4>3. i # 0 => g[i - 1] = f[i - 1]
        BY <4>2
      <4> QED
        BY <4>1, <4>2, <4>3
    <3> QED
      BY <3>1, <3>2
  <2>2. g = [i \in 0 .. k + 1 |-> g[i]]
    OBVIOUS
  <2> HIDE DEF g
  <2>3. IsWalk(g, es, n, k + 1)
    BY <2>1, <2>2 DEF IsWalk
  <2> QED
    BY <2>3
<1> HIDE DEF S
<1>3. Nat \subseteq S
  BY <1>1, <1>2, SetInduction
<1> QED
  BY <1>3 DEF S

\* Reached is the end of a walk of as many steps as there are nodes.
LEMMA ReachedIsWalked ==
  ASSUME NEW es, NEW n
  PROVE  \E f : /\ Reached(es, n) = f[Cardinality(NodeIds)]
                /\ f[0] = {n}
                /\ \A k \in 1 .. Cardinality(NodeIds) : f[k] = Onward(es, f[k - 1])
<1> DEFINE N == Cardinality(NodeIds)
           W(f) == f = [k \in 0 .. N |-> IF k = 0 THEN {n}
                          ELSE f[k - 1] \cup {e[2] : e \in {e \in es : e[1] \in f[k - 1]}}]
           walk == CHOOSE f : W(f)
<1>1. N \in Nat
  BY NodesAreFinite, FS_CardinalityType
<1>2. \E f : W(f)
  <2> PICK f : IsWalk(f, es, n, N)
    BY <1>1, WalkExists
  <2>1. W(f)
    BY DEF IsWalk, Onward
  <2> QED
    BY <2>1
<1>3. W(walk)
  BY <1>2
<1>4. IsWalk(walk, es, n, N)
  BY <1>3 DEF IsWalk, Onward
<1>5. Reached(es, n) = walk[N]
  BY DEF Reached
<1> HIDE DEF walk, N
<1>6. walk[0] = {n}
  BY <1>1, <1>4 DEF IsWalk
<1>7. ASSUME NEW k \in 1 .. N PROVE walk[k] = Onward(es, walk[k - 1])
  <2>1. k \in 0 .. N /\ k # 0
    BY <1>1
  <2> QED
    BY <1>4, <2>1 DEF IsWalk
<1> QED
  BY <1>5, <1>6, <1>7 DEF N

Closed(es, ns) == \A e \in es : e[1] \in ns => e[2] \in ns

\* A walk stays in every closed set that holds its start.
LEMMA WalkStaysInside ==
  ASSUME NEW es, NEW n, NEW f, NEW N \in Nat, f[0] = {n},
         \A k \in 1 .. N : f[k] = Onward(es, f[k - 1]),
         NEW ns, n \in ns, Closed(es, ns)
  PROVE  \A k \in 0 .. N : f[k] \subseteq ns
<1> DEFINE S == {k \in Nat : k <= N => f[k] \subseteq ns}
<1>1. 0 \in S
  OBVIOUS
<1>2. ASSUME NEW k \in Nat, k \in S PROVE k + 1 \in S
  <2> SUFFICES ASSUME k + 1 <= N PROVE f[k + 1] \subseteq ns
    OBVIOUS
  <2>1. f[k] \subseteq ns /\ f[k + 1] = Onward(es, f[k])
    <3>1. k + 1 \in 1 .. N /\ (k + 1) - 1 = k /\ k <= N
      OBVIOUS
    <3> QED
      BY <1>2, <3>1
  <2> QED
    BY <2>1 DEF Onward, Closed
<1> HIDE DEF S
<1>3. Nat \subseteq S
  BY <1>1, <1>2, SetInduction
<1> QED
  BY <1>3 DEF S

\* As long as the set of a walk is not closed, each step adds a node; so it is
\* closed after as many steps as there are nodes.
LEMMA WalkIsClosed ==
  ASSUME NEW es \in SUBSET (NodeIds \X NodeIds), NEW n \in NodeIds, NEW f,
         f[0] = {n},
         \A k \in 1 .. Cardinality(NodeIds) : f[k] = Onward(es, f[k - 1])
  PROVE  Closed(es, f[Cardinality(NodeIds)])
<1> DEFINE N == Cardinality(NodeIds)
<1>1. N \in Nat
  BY NodesAreFinite, FS_CardinalityType
<1>2. \A k \in 0 .. N : f[k] \subseteq NodeIds
  <2>1. Closed(es, NodeIds)
    BY DEF Closed
  <2> QED
    BY <1>1, <2>1, WalkStaysInside
<1>3. \A k \in 0 .. N : IsFiniteSet(f[k]) /\ Cardinality(f[k]) \in Nat /\ Cardinality(f[k]) <= N
  BY <1>1, <1>2, NodesAreFinite, FS_Subset, FS_CardinalityType
<1> DEFINE S == {k \in Nat : k <= N => Closed(es, f[k]) \/ Cardinality(f[k]) >= k + 1}
<1> HIDE DEF N
<1>4. 0 \in S
  <2>1. Cardinality(f[0]) = 1
    BY FS_Singleton
  <2> QED
    BY <2>1
<1>5. ASSUME NEW k \in Nat, k \in S PROVE k + 1 \in S
  <2> SUFFICES ASSUME k + 1 <= N
               PROVE  Closed(es, f[k + 1]) \/ Cardinality(f[k + 1]) >= (k + 1) + 1
    OBVIOUS
  <2>1. k + 1 \in 1 .. N /\ (k + 1) - 1 = k /\ k \in 0 .. N /\ k + 1 \in 0 .. N
    BY <1>1
  <2>2. f[k + 1] = Onward(es, f[k])
    BY <2>1 DEF N
  <2>3. CASE Closed(es, f[k])
    <3>1. f[k + 1] = f[k]
      BY <2>2, <2>3 DEF Onward, Closed
    <3> QED
      BY <2>3, <3>1
  <2>4. CASE ~Closed(es, f[k])
    <3> PICK e \in es : e[1] \in f[k] /\ e[2] \notin f[k]
      BY <2>4 DEF Closed
    <3>1. f[k] \cup {e[2]} \subseteq f[k + 1]
      BY <2>2 DEF Onward
    <3>2. Cardinality(f[k] \cup {e[2]}) = Cardinality(f[k]) + 1
      BY <1>3, <2>1, FS_AddElement
    <3>3. Cardinality(f[k] \cup {e[2]}) <= Cardinality(f[k + 1])
      BY <1>3, <2>1, <3>1, FS_Subset
    <3>4. Cardinality(f[k]) >= k + 1
      BY <1>5, <2>1, <2>4
    <3> QED
      BY <1>3, <2>1, <3>2, <3>3, <3>4
  <2> QED
    BY <2>3, <2>4
<1> HIDE DEF S
<1>6. N \in S
  BY <1>1, <1>4, <1>5, SetInduction
<1>7. Closed(es, f[N]) \/ Cardinality(f[N]) >= N + 1
  BY <1>1, <1>6 DEF S
<1>8. Closed(es, f[N])
  BY <1>1, <1>3, <1>7
<1> QED
  BY <1>8 DEF N

\* What the walk of isValidConnection computes: the least set of nodes that holds
\* its start and is closed along the edges.
LEMMA ReachedIsLeast ==
  ASSUME NEW es \in SUBSET (NodeIds \X NodeIds), NEW n \in NodeIds
  PROVE  /\ n \in Reached(es, n)
         /\ Closed(es, Reached(es, n))
         /\ \A ns : n \in ns /\ Closed(es, ns) => Reached(es, n) \subseteq ns
<1> DEFINE N == Cardinality(NodeIds)
<1>1. N \in Nat
  BY NodesAreFinite, FS_CardinalityType
<1>2. PICK f : /\ Reached(es, n) = f[N]
               /\ f[0] = {n}
               /\ \A k \in 1 .. N : f[k] = Onward(es, f[k - 1])
  BY ReachedIsWalked
<1>3. Closed(es, f[N])
  BY <1>2, WalkIsClosed
<1>4. ASSUME NEW ns, n \in ns, Closed(es, ns) PROVE f[N] \subseteq ns
  <2>1. \A k \in 0 .. N : f[k] \subseteq ns
    BY <1>1, <1>2, <1>4, WalkStaysInside
  <2> QED
    BY <1>1, <2>1
<1> DEFINE S == {k \in Nat : k <= N => n \in f[k]}
<1> HIDE DEF N
<1>5. 0 \in S
  BY <1>2
<1>6. ASSUME NEW k \in Nat, k \in S PROVE k + 1 \in S
  <2> SUFFICES ASSUME k + 1 <= N PROVE n \in f[k + 1]
    OBVIOUS
  <2>1. k + 1 \in 1 .. N /\ (k + 1) - 1 = k /\ n \in f[k]
    BY <1>1, <1>6
  <2> QED
    BY <1>2, <2>1 DEF Onward
<1> HIDE DEF S
<1>7. N \in S
  BY <1>1, <1>5, <1>6, SetInduction
<1>8. n \in f[N]
  BY <1>1, <1>7 DEF S
<1> QED
  BY <1>2, <1>3, <1>4, <1>8

-----------------------------------------------------------------------------
(* What makes no cycle                                                     *)

LEMMA EmptyIsAcyclic == DAG({})
BY DEF DAG

\* Fewer edges.
LEMMA FewerEdges ==
  ASSUME NEW es \in SUBSET (NodeIds \X NodeIds), DAG(es), NEW fs \in SUBSET es
  PROVE  DAG(fs)
<1> SUFFICES ASSUME NEW e \in fs PROVE e[1] \notin Reached(fs, e[2])
  BY DEF DAG
<1>1. fs \in SUBSET (NodeIds \X NodeIds) /\ e[2] \in NodeIds
  OBVIOUS
<1>2. e[2] \in Reached(es, e[2]) /\ Closed(es, Reached(es, e[2]))
  BY <1>1, ReachedIsLeast
<1>3. Closed(fs, Reached(es, e[2]))
  BY <1>2 DEF Closed
<1>4. Reached(fs, e[2]) \subseteq Reached(es, e[2])
  BY <1>1, <1>2, <1>3, ReachedIsLeast
<1> QED
  BY <1>4 DEF DAG

\* An edge that isValidConnection lets through: a cycle through another edge
\* would be one through the new edge as well.
LEMMA ValidEdge ==
  ASSUME NEW es \in SUBSET (NodeIds \X NodeIds), DAG(es),
         NEW s \in NodeIds, NEW t \in NodeIds, s \notin Reached(es, t)
  PROVE  DAG(es \cup {<<s, t>>})
<1> DEFINE new == es \cup {<<s, t>>}
<1>1. new \in SUBSET (NodeIds \X NodeIds)
  OBVIOUS
<1>2. t \in Reached(es, t) /\ Closed(es, Reached(es, t))
  BY ReachedIsLeast
<1>3. s \notin Reached(new, t)
  <2>1. Closed(new, Reached(es, t))
    BY <1>2 DEF Closed
  <2> HIDE DEF new
  <2>2. Reached(new, t) \subseteq Reached(es, t)
    BY <1>1, <1>2, <2>1, ReachedIsLeast
  <2> QED
    BY <2>2
<1>4. ASSUME NEW a \in NodeIds, NEW b \in NodeIds, <<a, b>> \in es
      PROVE  a \notin Reached(new, b)
  <2>1. b \in Reached(es, b) /\ Closed(es, Reached(es, b)) /\ a \notin Reached(es, b)
    BY <1>4, ReachedIsLeast DEF DAG
  <2>2. CASE s \notin Reached(es, b)
    <3>1. Closed(new, Reached(es, b))
      BY <2>1, <2>2 DEF Closed
    <3> HIDE DEF new
    <3>2. Reached(new, b) \subseteq Reached(es, b)
      BY <1>1, <2>1, <3>1, ReachedIsLeast
    <3> QED
      BY <2>1, <3>2
  <2>3. CASE s \in Reached(es, b)
    <3>1. b \notin Reached(es, t)
      <4>1. b \in Reached(es, t) => Reached(es, b) \subseteq Reached(es, t)
        BY <1>2, ReachedIsLeast
      <4> QED
        BY <2>3, <4>1
    <3>2. a \notin Reached(es, t)
      BY <1>2, <1>4, <3>1 DEF Closed
    <3> DEFINE both == Reached(es, b) \cup Reached(es, t)
    <3>3. b \in both /\ Closed(new, both)
      BY <1>2, <2>1 DEF Closed
    <3>4. a \notin both
      BY <2>1, <3>2
    <3> HIDE DEF new, both
    <3>5. Reached(new, b) \subseteq both
      BY <1>1, <3>3, ReachedIsLeast
    <3> QED
      BY <3>4, <3>5
  <2> QED
    BY <2>2, <2>3
<1>5. ASSUME NEW e \in new PROVE e[1] \notin Reached(new, e[2])
  <2>1. CASE e = <<s, t>>
    BY <1>3, <2>1
  <2>2. CASE e \in es
    <3>1. PICK a \in NodeIds, b \in NodeIds : e = <<a, b>>
      BY <2>2
    <3> HIDE DEF new
    <3> QED
      BY <1>4, <2>2, <3>1
  <2> QED
    BY <2>1, <2>2
<1> QED
  BY <1>5 DEF DAG

\* An edge to a node that no edge touches.
LEMMA NewEnd ==
  ASSUME NEW es \in SUBSET (NodeIds \X NodeIds), DAG(es),
         NEW a \in NodeIds, NEW n \in NodeIds \ Ends(es), a # n
  PROVE  DAG(es \cup {<<a, n>>})
<1>1. Closed(es, {n})
  BY DEF Closed, Ends
<1>2. Reached(es, n) \subseteq {n}
  BY <1>1, ReachedIsLeast
<1> QED
  BY <1>2, ValidEdge

\* A new node in the middle of an edge that is there.
LEMMA MiddleNode ==
  ASSUME NEW es \in SUBSET (NodeIds \X NodeIds), DAG(es),
         NEW s \in NodeIds, NEW t \in NodeIds, <<s, t>> \in es,
         NEW n \in NodeIds \ Ends(es)
  PROVE  DAG((es \ {<<s, t>>}) \cup {<<s, n>>, <<n, t>>})
<1> DEFINE rest == es \ {<<s, t>>}
           half == rest \cup {<<s, n>>}
<1>1. s # n /\ t # n
  BY DEF Ends
<1>2. rest \in SUBSET (NodeIds \X NodeIds) /\ DAG(rest) /\ n \notin Ends(rest)
  BY FewerEdges DEF Ends
<1>3. half \in SUBSET (NodeIds \X NodeIds) /\ DAG(half)
  <2> HIDE DEF rest
  <2>1. half \in SUBSET (NodeIds \X NodeIds)
    BY <1>2
  <2>2. DAG(half)
    BY <1>1, <1>2, NewEnd
  <2> QED
    BY <2>1, <2>2
<1>4. n \notin Reached(half, t)
  <2>1. t \in Reached(es, t) /\ Closed(es, Reached(es, t)) /\ s \notin Reached(es, t)
    BY ReachedIsLeast DEF DAG
  <2> DEFINE behind == Reached(es, t) \ {n}
  <2>2. t \in behind
    BY <1>1, <2>1
  <2>3. Closed(half, behind)
    BY <2>1 DEF Closed, Ends
  <2>4. n \notin behind
    OBVIOUS
  <2> HIDE DEF half, behind
  <2>5. Reached(half, t) \subseteq behind
    BY <1>3, <2>2, <2>3, ReachedIsLeast
  <2> QED
    BY <2>4, <2>5
<1>5. DAG(half \cup {<<n, t>>})
  <2> HIDE DEF half
  <2> QED
    BY <1>3, <1>4, ValidEdge
<1>6. half \cup {<<n, t>>} = (es \ {<<s, t>>}) \cup {<<s, n>>, <<n, t>>}
  OBVIOUS
<1> QED
  BY <1>5, <1>6

-----------------------------------------------------------------------------
(* The canvas makes no cycle                                               *)

AllDAG(snapshots) == \A i \in DOMAIN snapshots : DAG(snapshots[i].edges)

CanvasAcyclic == DAG(edges) /\ DAG(captured) /\ AllDAG(past) /\ AllDAG(future)

LEMMA KeptAcyclic ==
  CanvasAcyclic <=> DAG(captured) /\ \A g \in Kept : DAG(g.edges)
<1>1. Canvas.edges = edges
  BY DEF Canvas
<1> QED
  BY <1>1 DEF CanvasAcyclic, AllDAG, Kept

LEMMA LatestAcyclic ==
  ASSUME NEW s \in Seq(Graphs), AllDAG(s)
  PROVE  AllDAG(Latest(s))
<1>1. HistoryLimit \in Nat /\ Len(s) \in Nat
  BY LimitIsNatural
<1>2. CASE Len(s) > HistoryLimit
  <2> DEFINE from == Len(s) - HistoryLimit + 1
             kept == SubSeq(s, from, Len(s))
  <2>1. from \in 1 .. Len(s) + 1 /\ Latest(s) = kept
    BY <1>1, <1>2 DEF Latest
  <2>2. \A i \in DOMAIN kept : from + i - 1 \in DOMAIN s /\ kept[i] = s[from + i - 1]
    BY <1>1, <2>1
  <2> HIDE DEF kept, from
  <2> QED
    BY <2>1, <2>2 DEF AllDAG
<1>3. CASE ~(Len(s) > HistoryLimit)
  BY <1>1, <1>3 DEF Latest
<1> QED
  BY <1>2, <1>3

LEMMA AppendAcyclic ==
  ASSUME NEW s \in Seq(Graphs), AllDAG(s), NEW g \in Graphs, DAG(g.edges)
  PROVE  AllDAG(Append(s, g)) /\ Append(s, g) \in Seq(Graphs)
BY DEF AllDAG

LEMMA SnapshotAcyclic ==
  ASSUME CanvasOK, CanvasAcyclic, NEW es \in SUBSET (NodeIds \X NodeIds), DAG(es), TakeSnapshot(es)
  PROVE  AllDAG(past') /\ AllDAG(future')
<1> DEFINE snapshot == [nodes |-> nodes, edges |-> es]
<1>1. snapshot \in Graphs /\ snapshot.edges = es
  BY DEF CanvasOK, Graphs
<1>2. past \in Seq(Graphs) /\ AllDAG(past)
  BY DEF CanvasOK, CanvasAcyclic
<1>3. past' = Latest(Append(past, snapshot)) /\ future' = <<>>
  BY DEF TakeSnapshot
<1> HIDE DEF snapshot
<1>4. AllDAG(past')
  BY <1>1, <1>2, <1>3, AppendAcyclic, LatestAcyclic
<1>5. AllDAG(future')
  BY <1>3 DEF AllDAG
<1> QED
  BY <1>4, <1>5

LEMMA MountedAcyclic ==
  ASSUME NEW g, DAG(g.edges), Mounted(g)
  PROVE  CanvasAcyclic'
BY DEF Mounted, CanvasAcyclic, AllDAG

\* getId: no edge of the canvas touches a fresh node.
LEMMA FreshIsLoose == Fresh \subseteq NodeIds \ (nodes \cup Ends(edges))
<1>1. Canvas \in Kept /\ Canvas.nodes = nodes /\ Canvas.edges = edges
  BY DEF Kept, Canvas
<1>2. nodes \cup Ends(edges) \in {g.nodes \cup Ends(g.edges) : g \in Kept}
  <2> HIDE DEF Ends, Canvas, Kept
  <2> QED
    BY <1>1
<1>3. nodes \cup Ends(edges) \subseteq InUse
  <2> DEFINE used == {g.nodes \cup Ends(g.edges) : g \in Kept}
  <2>1. nodes \cup Ends(edges) \in used
    BY <1>2
  <2> HIDE DEF used
  <2>2. nodes \cup Ends(edges) \subseteq UNION used
    BY <2>1
  <2>3. UNION used \subseteq InUse
    BY DEF used, InUse
  <2> QED
    BY <2>2, <2>3
<1> QED
  BY <1>3 DEF Fresh

\* No gesture but an import and a stale insertion makes a cycle.
LEMMA GestureAcyclic ==
  ASSUME CanvasOK, CanvasAcyclic, Gesture
  PROVE  \/ CanvasAcyclic'
         \/ \E g \in Imports : Import(g) /\ ~DAG(g.edges)
         \/ menu.edge \notin edges /\ \E n \in NodeIds : InsertNode(n)
<1>0. /\ edges \in SUBSET (NodeIds \X NodeIds) /\ DAG(edges) /\ nodes \subseteq NodeIds
      /\ past \in Seq(Graphs) /\ AllDAG(past) /\ future \in Seq(Graphs) /\ AllDAG(future)
      /\ Canvas \in Graphs /\ Canvas.edges = edges
  BY CanvasIsGraph DEF CanvasOK, CanvasAcyclic, Canvas
<1>1. CASE Undo
  <2>1. Len(past) \in DOMAIN past
    BY <1>0, <1>1 DEF Undo
  <2>2. DAG(edges') /\ captured' = edges'
    BY <1>0, <1>1, <2>1 DEF Undo, Rebuilt, AllDAG
  <2>3. AllDAG(past')
    <3>1. past' = SubSeq(past, 1, Len(past) - 1)
      BY <1>1 DEF Undo
    <3>2. \A i \in DOMAIN past' : i \in DOMAIN past /\ past'[i] = past[i]
      BY <1>0, <2>1, <3>1
    <3> QED
      BY <1>0, <3>2 DEF AllDAG
  <2>4. AllDAG(future')
    <3>1. future' = <<Canvas>> \o future
      BY <1>1 DEF Undo
    <3>2. \A i \in DOMAIN future' :
            future'[i] = Canvas \/ (i - 1 \in DOMAIN future /\ future'[i] = future[i - 1])
      <4> HIDE DEF Canvas
      <4> QED
        BY <1>0, <3>1
    <3> QED
      BY <1>0, <3>2 DEF AllDAG
  <2> QED
    BY <2>2, <2>3, <2>4 DEF CanvasAcyclic
<1>2. CASE Redo
  <2>1. 1 \in DOMAIN future /\ Head(future) = future[1]
    BY <1>0, <1>2 DEF Redo
  <2>2. DAG(edges') /\ captured' = edges'
    BY <1>0, <1>2, <2>1 DEF Redo, Rebuilt, AllDAG
  <2>3. AllDAG(past')
    BY <1>0, <1>2, AppendAcyclic DEF Redo
  <2>4. AllDAG(future')
    <3>1. future' = Tail(future)
      BY <1>2 DEF Redo
    <3>2. \A i \in DOMAIN future' : i + 1 \in DOMAIN future /\ future'[i] = future[i + 1]
      BY <1>0, <2>1, <3>1
    <3> QED
      BY <1>0, <3>2 DEF AllDAG
  <2> QED
    BY <2>2, <2>3, <2>4 DEF CanvasAcyclic
<1>3. CASE Arrange
  <2>1. TakeSnapshot(edges) /\ edges' = edges /\ captured' = edges'
    BY <1>3 DEF Arrange, Rebuilt
  <2> QED
    BY <1>0, <2>1, SnapshotAcyclic DEF CanvasAcyclic
<1>4. CASE Touch \/ CloseMenu
  <2>1. UNCHANGED <<edges, past, future>> /\ captured' \in {edges, captured}
    BY <1>4 DEF Touch, CloseMenu, Rebuilt
  <2> QED
    BY <2>1 DEF CanvasAcyclic
<1>5. ASSUME NEW e \in edges, RemoveEdge(e)
      PROVE  CanvasAcyclic'
  <2>1. TakeSnapshot(edges) /\ edges' = edges \ {e} /\ captured' = captured
    BY <1>5 DEF RemoveEdge
  <2>2. DAG(edges')
    BY <1>0, <2>1, FewerEdges
  <2> QED
    BY <1>0, <2>1, <2>2, SnapshotAcyclic DEF CanvasAcyclic
<1>6. ASSUME NEW e \in edges, OpenMenu(e)
      PROVE  CanvasAcyclic'
  BY <1>6 DEF OpenMenu, CanvasAcyclic
<1>7. ASSUME NEW n \in nodes, RemoveNode(n)
      PROVE  CanvasAcyclic'
  <2> DEFINE attached == {e \in edges : n \in {e[1], e[2]}}
             snapshot == [nodes |-> nodes, edges |-> edges]
             longer == IF attached = {} THEN Append(past, snapshot)
                       ELSE past \o <<snapshot, snapshot>>
  <2>1. past' = Latest(longer) /\ future' = <<>> /\ edges' = edges \ attached /\ captured' = edges'
    BY <1>7 DEF RemoveNode, Rebuilt
  <2>2. DAG(edges')
    BY <1>0, <2>1, FewerEdges
  <2>3. snapshot \in Graphs /\ snapshot.edges = edges
    BY <1>0 DEF Graphs
  <2> HIDE DEF snapshot, attached
  <2>4. longer \in Seq(Graphs) /\ AllDAG(longer)
    <3>1. CASE attached = {}
      BY <1>0, <2>3, <3>1, AppendAcyclic
    <3>2. CASE attached # {}
      <4>1. past \o <<snapshot, snapshot>> = Append(Append(past, snapshot), snapshot)
        BY <1>0, <2>3
      <4>2. Append(past, snapshot) \in Seq(Graphs) /\ AllDAG(Append(past, snapshot))
        BY <1>0, <2>3, AppendAcyclic
      <4> QED
        BY <1>0, <2>3, <3>2, <4>1, <4>2, AppendAcyclic
    <3> QED
      BY <3>1, <3>2
  <2> HIDE DEF longer
  <2>5. AllDAG(past') /\ AllDAG(future')
    BY <2>1, <2>4, LatestAcyclic DEF AllDAG
  <2> QED
    BY <2>1, <2>2, <2>5 DEF CanvasAcyclic
<1>8. ASSUME NEW n \in nodes, DeleteNode(n)
      PROVE  CanvasAcyclic'
  BY <1>8 DEF DeleteNode, Rebuilt, CanvasAcyclic
<1>9. ASSUME NEW s \in nodes, NEW t \in nodes, Connect(s, t)
      PROVE  CanvasAcyclic'
  <2>1. /\ TakeSnapshot(edges) /\ edges' = edges \cup {<<s, t>>} /\ captured' = captured
        /\ s \notin Reached(edges, t) /\ s \in NodeIds /\ t \in NodeIds
    BY <1>0, <1>9 DEF Connect, ValidConnection
  <2>2. DAG(edges')
    BY <1>0, <2>1, ValidEdge
  <2> QED
    BY <1>0, <2>1, <2>2, SnapshotAcyclic DEF CanvasAcyclic
<1>10. ASSUME NEW n \in Fresh, InsertNode(n), menu.edge \in edges
       PROVE  CanvasAcyclic'
  <2> PICK s \in NodeIds, t \in NodeIds : menu.edge = <<s, t>>
    BY <1>0, <1>10
  <2>1. /\ TakeSnapshot(captured) /\ captured' = edges'
        /\ edges' = (edges \ {<<s, t>>}) \cup {<<s, n>>, <<n, t>>}
    BY <1>10 DEF InsertNode, Rebuilt
  <2>2. n \in NodeIds \ Ends(edges)
    BY FreshIsLoose
  <2>3. DAG(edges')
    BY <1>0, <1>10, <2>1, <2>2, MiddleNode
  <2>4. AllDAG(past') /\ AllDAG(future')
    BY <2>1, SnapshotAcyclic DEF CanvasAcyclic, CanvasOK
  <2> QED
    BY <2>1, <2>3, <2>4 DEF CanvasAcyclic
<1>11. ASSUME NEW n \in Fresh, AddNode(n)
       PROVE  CanvasAcyclic'
  BY <1>11 DEF AddNode, Rebuilt, CanvasAcyclic
<1>12. ASSUME NEW n \in Fresh, NEW a \in NodeIds, a # n, edges' = edges \cup {<<a, n>>},
              Rebuilt, UNCHANGED <<past, future>>
       PROVE  CanvasAcyclic'
  <2>1. n \in NodeIds \ Ends(edges)
    BY FreshIsLoose
  <2>2. DAG(edges')
    BY <1>0, <1>12, <2>1, NewEnd
  <2> QED
    BY <1>12, <2>2 DEF Rebuilt, CanvasAcyclic
<1>13. ASSUME NEW n \in Fresh, NEW m \in Fresh, AddPair(m, n)
       PROVE  CanvasAcyclic'
  BY <1>12, <1>13, FreshIsLoose DEF AddPair
<1>14. ASSUME NEW n \in Fresh, NEW a \in nodes, AddStep(n, a)
       PROVE  CanvasAcyclic'
  <2>1. a # n
    BY FreshIsLoose
  <2> QED
    BY <1>0, <1>12, <1>14, <2>1 DEF AddStep
<1>15. ASSUME NEW g \in Imports, Import(g), DAG(g.edges)
       PROVE  CanvasAcyclic'
  BY <1>15 DEF Import, Rebuilt, CanvasAcyclic
<1>16. Fresh \subseteq NodeIds
  BY DEF Fresh
<1> QED
  BY <1>1, <1>2, <1>3, <1>4, <1>5, <1>6, <1>7, <1>8, <1>9, <1>10, <1>11, <1>13, <1>14,
     <1>15, <1>16 DEF Gesture

-----------------------------------------------------------------------------
(* The workspace makes no cycle                                            *)

WorkspaceAcyclic ==
  /\ \A w \in Workflows : RowAcyclic(server[w]) /\ RowAcyclic(listed[w])
  /\ editing # None => RowAcyclic(editing.row)
  /\ \A j \in Jobs : job[j] # None => DAG(job[j].graph.edges) /\ RowAcyclic(job[j].base.row)
  /\ \A s \in stray : DAG(s.graph.edges)

LEMMA AllAcyclicParts == AllAcyclic <=> CanvasAcyclic /\ WorkspaceAcyclic
BY KeptAcyclic DEF AllAcyclic, WorkspaceAcyclic

LEMMA AllAcyclicPartsNext == AllAcyclic' <=> CanvasAcyclic' /\ WorkspaceAcyclic'
BY AllAcyclicParts, PTL

\* pickNodes and pickEdges may mix two graphs, but not two sets of edges.
LEMMA PickedAcyclic ==
  ASSUME NEW row, RowAcyclic(row)
  PROVE  DAG(Picked(row).edges)
BY DEF RowAcyclic, Picked

LEMMA EmptyAcyclic == DAG(Empty.edges) /\ RowAcyclic([draft |-> None, graph |-> Empty])
BY EmptyIsAcyclic DEF Empty, RowAcyclic

\* A step that leaves the canvas, or what is kept of it, alone.
LEMMA CanvasRests ==
  ASSUME CanvasAcyclic, UNCHANGED canvasVars
  PROVE  CanvasAcyclic'
BY DEF CanvasAcyclic, AllDAG, canvasVars

LEMMA DraftAcyclic ==
  ASSUME WorkspaceOK, WorkspaceAcyclic, NEW v \in Workflows, NEW g \in Graphs, DAG(g.edges),
         SetDraft(v, g)
  PROVE  \A w \in Workflows : RowAcyclic(server'[w])
<1> SUFFICES ASSUME NEW w \in Workflows PROVE RowAcyclic(server'[w])
  OBVIOUS
<1>1. RowAcyclic(server[w]) /\ server[w] \in Rows
  BY DEF WorkspaceOK, WorkspaceAcyclic
<1>2. server'[w] = IF w = v THEN [server[w] EXCEPT !.draft = g] ELSE server[w]
  BY DEF SetDraft, WorkspaceOK
<1>3. [server[w] EXCEPT !.draft = g].graph = server[w].graph
      /\ [server[w] EXCEPT !.draft = g].draft = g
  BY <1>1 DEF Rows
<1> QED
  BY <1>1, <1>2, <1>3 DEF RowAcyclic

LEMMA SaveAcyclic ==
  ASSUME Inv, CanvasAcyclic, WorkspaceAcyclic, NEW j \in Jobs, NEW kind \in Kinds, Save(j, kind)
  PROVE  CanvasAcyclic' /\ WorkspaceAcyclic'
<1> DEFINE call == [kind |-> kind, stage |-> "put", base |-> editing, graph |-> Canvas]
<1>1. /\ job' = [job EXCEPT ![j] = call] /\ editing # None
      /\ UNCHANGED <<canvasVars, shown, editing, listed, stray, server, faults>>
  BY DEF Save, Building
<1>2. DAG(call.graph.edges) /\ RowAcyclic(call.base.row)
  BY <1>1 DEF Canvas, CanvasAcyclic, WorkspaceAcyclic
<1> HIDE DEF call
<1>3. \A k \in Jobs : job'[k] = IF k = j THEN call ELSE job[k]
  BY <1>1 DEF Inv, WorkspaceOK
<1>4. WorkspaceAcyclic'
  BY <1>1, <1>2, <1>3 DEF WorkspaceAcyclic
<1> QED
  BY <1>1, <1>4, CanvasRests

\* What follows a save carries the graph and the workflow of the save.
LEMMA ProceedAcyclic ==
  ASSUME WorkspaceOK, WorkspaceAcyclic, NEW j \in Jobs, job[j] # None, Proceed(j)
  PROVE  \A k \in Jobs : job'[k] # None => DAG(job'[k].graph.edges) /\ RowAcyclic(job'[k].base.row)
<1> SUFFICES ASSUME NEW k \in Jobs, job'[k] # None
             PROVE  DAG(job'[k].graph.edges) /\ RowAcyclic(job'[k].base.row)
  OBVIOUS
<1>1. job \in [Jobs -> Calls \cup {None}] /\ job[j] \in Calls
  BY DEF WorkspaceOK
<1>2. CASE k = j
  <2>1. job'[j] = [job[j] EXCEPT !.stage = "post"]
    BY <1>1, <1>2 DEF Proceed
  <2>2. job'[j].graph = job[j].graph /\ job'[j].base = job[j].base
    BY <1>1, <2>1 DEF Calls
  <2> QED
    BY <1>2, <2>2 DEF WorkspaceAcyclic
<1>3. CASE k # j
  <2>1. job'[k] = job[k]
    BY <1>1, <1>3 DEF Proceed
  <2> QED
    BY <2>1 DEF WorkspaceAcyclic
<1> QED
  BY <1>2, <1>3

LEMMA UserAcyclic ==
  ASSUME Inv, CanvasAcyclic, WorkspaceAcyclic, User
  PROVE  \/ CanvasAcyclic' /\ WorkspaceAcyclic'
         \/ \E g \in Imports : Import(g) /\ ~DAG(g.edges)
         \/ menu.edge \notin edges /\ \E n \in NodeIds : InsertNode(n)
<1>1. CASE Building /\ Gesture /\ UNCHANGED <<shown, editing, listed, job, stray, server, faults>>
  <2>1. WorkspaceAcyclic'
    BY <1>1 DEF WorkspaceAcyclic
  <2> QED
    BY <1>1, <2>1, GestureAcyclic DEF Inv
<1>2. ASSUME NEW j \in Jobs, NEW kind \in {"publish", "run"}, Save(j, kind)
      PROVE  CanvasAcyclic' /\ WorkspaceAcyclic'
  BY <1>2, SaveAcyclic DEF Kinds
<1>3. ASSUME NEW w \in Workflows, Fetch(w)
      PROVE  CanvasAcyclic' /\ WorkspaceAcyclic'
  <2>1. \A v \in Workflows : listed'[v] \in {listed[v], server[v]}
    BY <1>3 DEF Fetch, Inv, WorkspaceOK
  <2>2. UNCHANGED <<canvasVars, editing, job, stray, server>>
    BY <1>3 DEF Fetch
  <2>3. WorkspaceAcyclic'
    BY <2>1, <2>2 DEF WorkspaceAcyclic
  <2> QED
    BY <2>2, <2>3, CanvasRests
<1>4. ASSUME NEW w \in Workflows, Open(w)
      PROVE  CanvasAcyclic' /\ WorkspaceAcyclic'
  <2>1. /\ editing' = [id |-> w, row |-> listed[w]] /\ Mounted(Picked(listed[w]))
        /\ UNCHANGED <<listed, job, stray, server>> /\ RowAcyclic(listed[w])
    BY <1>4 DEF Open, WorkspaceAcyclic
  <2>2. editing'.row = listed[w]
    BY <2>1
  <2>3. WorkspaceAcyclic'
    BY <2>1, <2>2 DEF WorkspaceAcyclic
  <2> QED
    BY <2>1, <2>3, PickedAcyclic, MountedAcyclic
<1>5. ASSUME NEW w \in Workflows, Load(w)
      PROVE  CanvasAcyclic' /\ WorkspaceAcyclic'
  <2>1. RowAcyclic(editing'.row)
    BY <1>5, EmptyAcyclic DEF Load, WorkspaceAcyclic
  <2>2. Mounted(Picked(editing'.row)) /\ UNCHANGED <<listed, server>> /\ \A j \in Jobs : job'[j] = None
    BY <1>5 DEF Load
  <2>3. ASSUME NEW s \in stray' PROVE DAG(s.graph.edges)
    <3>1. CASE s \in stray
      BY <3>1 DEF WorkspaceAcyclic
    <3>2. CASE s \notin stray
      <4> PICK j \in Jobs : job[j] # None /\ s = [id |-> job[j].base.id, graph |-> job[j].graph]
        BY <1>5, <3>2 DEF Load
      <4>1. s.graph = job[j].graph
        OBVIOUS
      <4> QED
        BY <4>1 DEF WorkspaceAcyclic
    <3> QED
      BY <3>1, <3>2
  <2>4. WorkspaceAcyclic'
    BY <2>1, <2>2, <2>3 DEF WorkspaceAcyclic
  <2> QED
    BY <2>1, <2>2, <2>4, PickedAcyclic, MountedAcyclic
<1>6. CASE Back \/ Leave
  <2>1. Mounted(Empty) /\ UNCHANGED <<listed, job, stray, server>> /\ editing' \in {None, editing}
    BY <1>6 DEF Back, Leave, Unmounted
  <2>2. WorkspaceAcyclic'
    BY <2>1 DEF WorkspaceAcyclic
  <2> QED
    BY <2>1, <2>2, EmptyAcyclic, MountedAcyclic
<1>7. CASE Return
  <2>1. /\ Mounted(IF editing = None THEN Empty ELSE Picked(editing.row))
        /\ UNCHANGED <<editing, listed, job, stray, server>>
    BY <1>7 DEF Return
  <2>2. DAG((IF editing = None THEN Empty ELSE Picked(editing.row)).edges)
    BY EmptyAcyclic, PickedAcyclic DEF WorkspaceAcyclic
  <2>3. WorkspaceAcyclic'
    BY <2>1 DEF WorkspaceAcyclic
  <2> QED
    BY <2>1, <2>2, <2>3, MountedAcyclic
<1> QED
  BY <1>1, <1>2, <1>3, <1>4, <1>5, <1>6, <1>7 DEF User

LEMMA NetworkAcyclic ==
  ASSUME Inv, CanvasAcyclic, WorkspaceAcyclic, Network
  PROVE  CanvasAcyclic' /\ WorkspaceAcyclic'
<1>0. WorkspaceOK
  BY DEF Inv
<1>1. ASSUME NEW j \in Jobs, Put(j)
      PROVE  CanvasAcyclic' /\ WorkspaceAcyclic'
  <2>1. job[j] \in Calls /\ DAG(job[j].graph.edges) /\ RowAcyclic(job[j].base.row)
    BY <1>0, <1>1 DEF Put, WorkspaceOK, WorkspaceAcyclic
  <2>2. job[j].base.id \in Workflows /\ job[j].graph \in Graphs
    BY <2>1 DEF Calls, Opened
  <2>3. \A w \in Workflows : RowAcyclic(server'[w])
    BY <1>0, <1>1, <2>1, <2>2, DraftAcyclic DEF Put
  <2>4. [job[j] EXCEPT !.stage = "answer"].graph = job[j].graph
        /\ [job[j] EXCEPT !.stage = "answer"].base = job[j].base
    BY <2>1 DEF Calls
  <2>5. \A k \in Jobs : job'[k] = IF k = j THEN [job[j] EXCEPT !.stage = "answer"] ELSE job[k]
    BY <1>0, <1>1 DEF Put, WorkspaceOK
  <2>6. UNCHANGED <<canvasVars, editing, listed, stray>>
    BY <1>1 DEF Put
  <2>7. WorkspaceAcyclic'
    BY <2>1, <2>3, <2>4, <2>5, <2>6 DEF WorkspaceAcyclic
  <2> QED
    BY <2>6, <2>7, CanvasRests
<1>2. ASSUME NEW j \in Jobs, Saved(j)
      PROVE  CanvasAcyclic' /\ WorkspaceAcyclic'
  <2> DEFINE answer == [job[j].base EXCEPT !.row.graph = job[j].graph]
  <2>1. job[j] \in Calls /\ DAG(job[j].graph.edges) /\ RowAcyclic(job[j].base.row)
    BY <1>0, <1>2 DEF Saved, WorkspaceOK, WorkspaceAcyclic
  <2>2. answer.row.graph = job[j].graph /\ answer.row.draft = job[j].base.row.draft
    BY <2>1 DEF Calls, Opened, Rows
  <2>3. RowAcyclic(answer.row)
    BY <2>1, <2>2 DEF RowAcyclic
  <2>4. /\ editing' = answer /\ UNCHANGED <<listed, stray, server>>
        /\ Mounted(Picked(answer.row)) \/ UNCHANGED canvasVars
    BY <1>2 DEF Saved
  <2>5. \A k \in Jobs : job'[k] # None => DAG(job'[k].graph.edges) /\ RowAcyclic(job'[k].base.row)
    BY <1>0, <1>2, ProceedAcyclic DEF Saved
  <2> HIDE DEF answer
  <2>6. WorkspaceAcyclic'
    BY <2>3, <2>4, <2>5 DEF WorkspaceAcyclic
  <2> QED
    BY <2>3, <2>4, <2>6, PickedAcyclic, MountedAcyclic, CanvasRests
<1>3. ASSUME NEW j \in Jobs, SaveFails(j)
      PROVE  CanvasAcyclic' /\ WorkspaceAcyclic'
  <2>1. DAG(job[j].graph.edges)
    BY <1>3 DEF SaveFails, WorkspaceAcyclic
  <2>2. \A s \in stray' : s \in stray \/ s = [id |-> job[j].base.id, graph |-> job[j].graph]
    BY <1>3 DEF SaveFails
  <2>3. \A s \in stray' : DAG(s.graph.edges)
    BY <2>1, <2>2 DEF WorkspaceAcyclic
  <2>4. \A k \in Jobs : job'[k] # None => DAG(job'[k].graph.edges) /\ RowAcyclic(job'[k].base.row)
    BY <1>0, <1>3, ProceedAcyclic DEF SaveFails
  <2>5. UNCHANGED <<canvasVars, editing, listed, server>>
    BY <1>3 DEF SaveFails
  <2>6. WorkspaceAcyclic'
    BY <2>3, <2>4, <2>5 DEF WorkspaceAcyclic
  <2> QED
    BY <2>5, <2>6, CanvasRests
<1>4. ASSUME NEW j \in Jobs, Publish(j) \/ Run(j) \/ PostFails(j)
      PROVE  CanvasAcyclic' /\ WorkspaceAcyclic'
  <2>1. \A k \in Jobs : job'[k] \in {None, job[k]}
    BY <1>0, <1>4 DEF Publish, Run, PostFails, WorkspaceOK
  <2>2. UNCHANGED <<canvasVars, editing, listed, stray>>
    BY <1>4 DEF Publish, Run, PostFails
  <2>3. ASSUME NEW w \in Workflows PROVE RowAcyclic(server'[w])
    <3>1. RowAcyclic(server[w]) /\ server[w] \in Rows
      BY <1>0 DEF WorkspaceOK, WorkspaceAcyclic
    <3>2. \/ server'[w] = server[w]
          \/ server[w].draft # None /\ server'[w] = [server[w] EXCEPT !.graph = server[w].draft]
      BY <1>0, <1>4 DEF Publish, Run, PostFails, WorkspaceOK
    <3>3. [server[w] EXCEPT !.graph = server[w].draft].graph = server[w].draft
          /\ [server[w] EXCEPT !.graph = server[w].draft].draft = server[w].draft
      BY <3>1 DEF Rows
    <3> QED
      BY <3>1, <3>2, <3>3 DEF RowAcyclic
  <2>4. WorkspaceAcyclic'
    BY <2>1, <2>2, <2>3 DEF WorkspaceAcyclic
  <2> QED
    BY <2>2, <2>4, CanvasRests
<1>5. ASSUME NEW s \in stray, Arrive(s)
      PROVE  CanvasAcyclic' /\ WorkspaceAcyclic'
  <2>1. s.id \in Workflows /\ s.graph \in Graphs /\ DAG(s.graph.edges)
    BY <1>0 DEF WorkspaceOK, WorkspaceAcyclic
  <2>2. \A w \in Workflows : RowAcyclic(server'[w])
    BY <1>0, <1>5, <2>1, DraftAcyclic DEF Arrive
  <2>3. stray' \subseteq stray /\ UNCHANGED <<canvasVars, editing, listed, job>>
    BY <1>5 DEF Arrive
  <2>4. WorkspaceAcyclic'
    BY <2>2, <2>3 DEF WorkspaceAcyclic
  <2> QED
    BY <2>3, <2>4, CanvasRests
<1>6. ASSUME NEW s \in stray, Drop(s)
      PROVE  CanvasAcyclic' /\ WorkspaceAcyclic'
  <2>1. stray' \subseteq stray /\ UNCHANGED <<canvasVars, editing, listed, job, server>>
    BY <1>6 DEF Drop
  <2>2. WorkspaceAcyclic'
    BY <2>1 DEF WorkspaceAcyclic
  <2> QED
    BY <2>1, <2>2, CanvasRests
<1> QED
  BY <1>1, <1>2, <1>3, <1>4, <1>5, <1>6 DEF Network

-----------------------------------------------------------------------------
(* The theorems                                                            *)

\* The canvas and the workspace stay well-formed, an open menu is open on an
\* edge, and the history keeps its bound, through every gesture, page, answer,
\* failure and late save.
THEOREM Invariance == Spec => []Inv
<1>1. Init => Inv
  BY InitHolds
<1>2. Inv /\ [Next]_vars => Inv'
  <2> SUFFICES ASSUME Inv, [Next]_vars PROVE Inv'
    OBVIOUS
  <2>1. CASE Next
    BY <2>1, UserKeeps, AutosaveKeeps, NetworkKeeps DEF Next
  <2>2. CASE UNCHANGED vars
    BY <2>2 DEF Inv, CanvasOK, WorkspaceOK, HistoryIsBounded, vars, canvasVars
  <2> QED
    BY <2>1, <2>2
<1> QED
  BY <1>1, <1>2, PTL DEF Spec

\* Type correctness of the editor: what is open, listed, under way, stray and
\* stored are graphs of known nodes, of known workflows.
THEOREM TypeCorrect == Spec => []TypeOK
<1>1. Inv => TypeOK
  BY CanvasIsGraph DEF Inv, CanvasOK, WorkspaceOK, TypeOK
<1> QED
  BY <1>1, Invariance, PTL

\* takeSnapshot's slice bounds undo and redo together: redo appends without a
\* slice, but only what undo took away, and every new snapshot empties it.
THEOREM BoundedHistory == Spec => []HistoryIsBounded
<1>1. Inv => HistoryIsBounded
  BY DEF Inv, CanvasOK
<1> QED
  BY <1>1, Invariance, PTL

\* isValidConnection's "DAG enforcement", for canvases of any size: as long as no
\* graph has a cycle, none gets one but from a file that has one and from an
\* insertion into an edge that has gone since the menu was opened.
THEOREM CyclesInserted == Spec => CyclesAreInserted
<1>1. Inv /\ [Next]_vars =>
        [AllAcyclic =>
           \/ AllAcyclic'
           \/ \E g \in Imports : Import(g) /\ ~DAG(g.edges)
           \/ menu.edge \notin edges /\ \E n \in NodeIds : InsertNode(n)]_vars
  <2> SUFFICES ASSUME Inv, Next, CanvasAcyclic, WorkspaceAcyclic
               PROVE  \/ CanvasAcyclic' /\ WorkspaceAcyclic'
                      \/ \E g \in Imports : Import(g) /\ ~DAG(g.edges)
                      \/ menu.edge \notin edges /\ \E n \in NodeIds : InsertNode(n)
    BY AllAcyclicParts, AllAcyclicPartsNext
  <2>1. CASE Autosave
    BY <2>1, SaveAcyclic DEF Autosave, Kinds
  <2> QED
    BY <2>1, UserAcyclic, NetworkAcyclic DEF Next
<1> QED
  BY <1>1, Invariance, PTL DEF Spec, CyclesAreInserted
=============================================================================
