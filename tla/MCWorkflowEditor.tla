-------------------------- MODULE MCWorkflowEditor --------------------------
(* Small instances of WorkflowEditor.                                      *)
EXTENDS WorkflowEditor, TLC

CONSTANTS n1, n2, n3, w1, w2, MaxGestures

Graph(ns, es) == [nodes |-> ns, edges |-> es]

File == {Graph({n1, n3}, {<<n1, n3>>})}

\* Two nodes that are not connected.
Loose == [w \in Workflows |-> [draft |-> None, graph |-> Graph({n1, n2}, {})]]
Published == [w \in Workflows |-> [draft |-> None, graph |-> Graph({n1}, {})]]

\* Two stories share one run.  In "canvas" nothing is saved, and every gesture
\* may follow every other; in "saves" the user only adds and deletes nodes, moves
\* between pages and workflows, publishes and runs. The user stops in the end.
VARIABLES story, gestures

MCInit ==
  /\ Init /\ editing # None /\ editing.id = w1
  /\ story \in {"canvas", "saves"} /\ gestures = 0

MCNext ==
  /\ \/ User /\ gestures < MaxGestures /\ gestures' = gestures + 1
     \/ (Autosave \/ Network) /\ UNCHANGED gestures
  /\ UNCHANGED story
  /\ IF story = "canvas" THEN UNCHANGED <<shown, editing, job>>
     ELSE menu' = NoMenu /\ edges' = {} /\ past' = <<>>

MCSpec == MCInit /\ [][MCNext]_<<vars, story, gestures>> /\ Fairness
=============================================================================
