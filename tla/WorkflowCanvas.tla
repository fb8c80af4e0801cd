--------------------------- MODULE WorkflowCanvas ---------------------------
(* The canvas of the workflow editor: a graph, an undo history and the menu
   that inserts a node into an edge.  What only decides how a node looks (its
   position, label, parameters, run status) is left out: operations that
   change nothing else are one action, Touch.                               *)
EXTENDS Naturals, Sequences, FiniteSets

CONSTANTS
  NodeIds,        \* identifiers a canvas may use
  None,
  HistoryLimit,   \* snapshots kept: 50 in the code
  Imports         \* graphs that a file may contain

VARIABLES
  nodes, edges,   \* the graph; an edge is the pair of its ends
  past, future,   \* snapshots for undo and for redo
  menu,           \* the insertion menu and the edge it was last opened on
  captured        \* edges at the render that built handleInlineNodeAdd

canvasVars == <<nodes, edges, past, future, menu, captured>>

Graphs == [nodes : SUBSET NodeIds, edges : SUBSET (NodeIds \X NodeIds)]
Canvas == [nodes |-> nodes, edges |-> edges]
Empty == [nodes |-> {}, edges |-> {}]

ASSUME NodesAreFinite == IsFiniteSet(NodeIds)
ASSUME LimitIsNatural == HistoryLimit \in Nat
ASSUME FilesHoldGraphs == Imports \subseteq Graphs

NoMenu == [open |-> FALSE, edge |-> None]

\* A builder that has just been mounted on a graph.
Mounted(g) ==
  /\ nodes' = g.nodes /\ edges' = g.edges
  /\ past' = <<>> /\ future' = <<>>
  /\ menu' = NoMenu /\ captured' = g.edges

-----------------------------------------------------------------------------
\* getId never repeats an identifier.
Ends(es) == {e[1] : e \in es} \cup {e[2] : e \in es}
Kept == {past[i] : i \in DOMAIN past} \cup {future[i] : i \in DOMAIN future} \cup {Canvas}
InUse == UNION {g.nodes \cup Ends(g.edges) : g \in Kept}
           \cup Ends({menu.edge} \ {None})
Fresh == NodeIds \ InUse

Latest(s) == IF Len(s) > HistoryLimit THEN SubSeq(s, Len(s) - HistoryLimit + 1, Len(s)) ELSE s

\* Wrong: what was undone stays redoable after a new change.
TakeSnapshotOnly(es) ==
  /\ past' = Latest(Append(past, [nodes |-> nodes, edges |-> es]))
  /\ UNCHANGED future

\* takeSnapshot, with the edges its closure holds.
TakeSnapshot(es) ==
  /\ past' = Latest(Append(past, [nodes |-> nodes, edges |-> es]))
  /\ future' = <<>>

\* A render with new nodes builds handleInlineNodeAdd again, with its edges.
Rebuilt == captured' = edges'

\* A click outside the menu closes it; the edge it was opened on is kept.
Clicked == menu' = [menu EXCEPT !.open = FALSE]

-----------------------------------------------------------------------------
\* Keyboard or buttons; the keyboard leaves the menu open.
Undo ==
  /\ past # <<>>
  /\ LET previous == past[Len(past)]
     IN nodes' = previous.nodes /\ edges' = previous.edges
  /\ past' = SubSeq(past, 1, Len(past) - 1)
  /\ future' = <<Canvas>> \o future
  /\ Rebuilt /\ UNCHANGED menu

Redo ==
  /\ future # <<>>
  /\ nodes' = Head(future).nodes /\ edges' = Head(future).edges
  /\ future' = Tail(future)
  /\ past' = Append(past, Canvas)
  /\ Rebuilt /\ UNCHANGED menu

\* onLayout and the start of a drag.
Arrange ==
  /\ nodes # {}
  /\ TakeSnapshot(edges)
  /\ UNCHANGED <<nodes, edges>> /\ Rebuilt /\ Clicked

\* A node's parameters, a list reordered, a run's progress.
Touch ==
  /\ captured # edges
  /\ UNCHANGED <<nodes, edges, past, future, menu>> /\ Rebuilt

RemoveEdge(e) ==
  /\ e \in edges
  /\ TakeSnapshot(edges)
  /\ edges' = edges \ {e}
  /\ UNCHANGED <<nodes, menu, captured>>

\* The delete key removes the edges of the node first: two changes, and two
\* snapshots of the same closure.
RemoveNode(n) ==
  LET attached == {e \in edges : n \in {e[1], e[2]}}
      snapshot == [nodes |-> nodes, edges |-> edges]
  IN /\ n \in nodes
     /\ past' = Latest(IF attached = {} THEN Append(past, snapshot)
                       ELSE past \o <<snapshot, snapshot>>)
     /\ future' = <<>>
     /\ nodes' = nodes \ {n}
     /\ edges' = edges \ attached
     /\ Rebuilt /\ UNCHANGED menu

\* The Delete buttons of the panels drop the node alone, with no snapshot.
DeleteNode(n) ==
  /\ n \in nodes
  /\ nodes' = nodes \ {n}
  /\ UNCHANGED <<edges, past, future>> /\ Rebuilt /\ Clicked

\* The nodes a walk along the edges reaches from n.
Reached(es, n) ==
  LET walk[k \in 0 .. Cardinality(NodeIds)] ==
        IF k = 0 THEN {n} ELSE walk[k - 1] \cup {e[2] : e \in {e \in es : e[1] \in walk[k - 1]}}
  IN walk[Cardinality(NodeIds)]

\* Wrong: only an edge from a node to itself is refused.
ValidUnlessLoop(s, t) == s # t

ValidConnection(s, t) == s # t /\ s \notin Reached(edges, t)

Connect(s, t) ==
  /\ {s, t} \subseteq nodes /\ ValidConnection(s, t)
  /\ TakeSnapshot(edges)
  /\ edges' = edges \cup {<<s, t>>}
  /\ Clicked /\ UNCHANGED <<nodes, captured>>

OpenMenu(e) ==
  /\ e \in edges /\ {e[1], e[2]} \subseteq nodes
  /\ menu' = [open |-> TRUE, edge |-> e]
  /\ captured' = edges
  /\ UNCHANGED <<nodes, edges, past, future>>

CloseMenu ==
  /\ menu.open
  /\ Clicked /\ UNCHANGED <<nodes, edges, past, future, captured>>

\* handleInlineNodeAdd: the edge is the one of the time the menu was opened,
\* and takeSnapshot is missing from the dependencies of the callback.
InsertNode(n) ==
  LET s == menu.edge[1]
      t == menu.edge[2]
  IN /\ menu.open /\ n \in Fresh
     /\ TakeSnapshot(captured)
     /\ nodes' = nodes \cup {n}
     /\ edges' = (edges \ {menu.edge}) \cup {<<s, n>>, <<n, t>>}
     /\ Rebuilt /\ Clicked

\* Palette, drop and the add buttons: no snapshot, and the future stays.
AddNode(n) ==
  /\ n \in Fresh
  /\ nodes' = nodes \cup {n}
  /\ UNCHANGED <<edges, past, future>> /\ Rebuilt /\ Clicked

\* A campaign trigger with its condition, or a generated trigger and step.
AddPair(m, n) ==
  /\ {m, n} \subseteq Fresh /\ m # n
  /\ nodes' = nodes \cup {m, n}
  /\ edges' = edges \cup {<<m, n>>}
  /\ Rebuilt /\ Clicked /\ UNCHANGED <<past, future>>

\* A generated step behind the node the flow ends in, or behind a condition.
AddStep(n, anchor) ==
  /\ n \in Fresh /\ anchor \in nodes
  /\ nodes' = nodes \cup {n}
  /\ edges' = edges \cup {<<anchor, n>>}
  /\ Rebuilt /\ Clicked /\ UNCHANGED <<past, future>>

\* A file replaces the graph, with no snapshot.
Import(g) ==
  /\ g.nodes # {}
  /\ nodes' = g.nodes /\ edges' = g.edges
  /\ Rebuilt /\ Clicked /\ UNCHANGED <<past, future>>

Gesture ==
  \/ Undo \/ Redo \/ Arrange \/ Touch \/ CloseMenu
  \/ \E e \in edges : RemoveEdge(e) \/ OpenMenu(e)
  \/ \E n \in nodes : RemoveNode(n) \/ DeleteNode(n)
  \/ \E s, t \in nodes : Connect(s, t)
  \/ \E n \in Fresh : InsertNode(n) \/ AddNode(n) \/ \E m \in Fresh : AddPair(m, n)
  \/ \E n \in Fresh, a \in nodes : AddStep(n, a)
  \/ \E g \in Imports : Import(g)

-----------------------------------------------------------------------------
(* Properties                                                              *)

\* Undo and redo move snapshots between two lists of which only one is cut:
\* together they never hold more than the limit of takeSnapshot's slice.
HistoryIsBounded == Len(past) + Len(future) <= HistoryLimit

\* No edge is on a cycle.
DAG(es) == \A e \in es : e[1] \notin Reached(es, e[2])

\* "Prevent cycles (DAG enforcement)", isValidConnection: on a canvas that
\* starts without a cycle no gesture makes one.
Acyclic == DAG(edges)
=============================================================================
