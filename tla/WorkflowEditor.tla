--------------------------- MODULE WorkflowEditor ---------------------------
(* The workflow editor in its workspace: which workflow is open, the saves its
   canvas starts (every ten seconds, by hand, before a run and before a
   publication), and the server they reach.  Saves overlap; each carries the
   graph and the workflow of the moment it started.                         *)
EXTENDS WorkflowCanvas

CONSTANTS
  Workflows,
  Jobs,           \* calls of onSave under way at once
  Stored,         \* what the server keeps at first, per workflow
  MaxFaults       \* saves that fail

VARIABLES
  shown,          \* the workflows page is the active page
  editing,        \* editingWorkflow, and its copy in localStorage
  listed,         \* the rows the workflow list has read
  job,            \* calls of onSave, and the run or publication behind them
  stray,          \* saves on the wire whose caller does not wait any more
  server,         \* per workflow: the draft and the published graph
  faults

vars == <<canvasVars, shown, editing, listed, job, stray, server, faults>>

Rows == [draft : Graphs \cup {None}, graph : Graphs]

ASSUME StoredHoldsRows == Stored \in [Workflows -> Rows]
ASSUME FaultsAreBounded == MaxFaults \in Nat

Opened == [id : Workflows, row : Rows]
Kinds == {"save", "publish", "run"}
Calls == [kind : Kinds, stage : {"put", "answer", "post"}, base : Opened, graph : Graphs]

\* pickNodes, for the nodes and for the edges: a draft counts if it has any.
Picked(row) ==
  IF row.draft = None THEN row.graph
  ELSE [nodes |-> IF row.draft.nodes # {} THEN row.draft.nodes ELSE row.graph.nodes,
        edges |-> IF row.draft.edges # {} THEN row.draft.edges ELSE row.graph.edges]

Building == shown /\ editing # None

Unmounted == Mounted(Empty)

\* The page is loaded on the list, or on the workflow that was open before.
Init ==
  /\ shown = TRUE
  /\ server = Stored /\ listed = Stored
  /\ editing \in {None} \cup {[id |-> w, row |-> Stored[w]] : w \in Workflows}
  /\ nodes = IF editing = None THEN {} ELSE Picked(editing.row).nodes
  /\ edges = IF editing = None THEN {} ELSE Picked(editing.row).edges
  /\ past = <<>> /\ future = <<>>
  /\ menu = NoMenu /\ captured = edges
  /\ job = [j \in Jobs |-> None] /\ stray = {} /\ faults = 0

-----------------------------------------------------------------------------
(* The pages                                                               *)

\* The list reads a row; a row is opened as it was read.
Fetch(w) ==
  /\ shown /\ editing = None /\ listed[w] # server[w]
  /\ listed' = [listed EXCEPT ![w] = server[w]]
  /\ UNCHANGED <<canvasVars, shown, editing, job, stray, server, faults>>

Open(w) ==
  /\ shown /\ editing = None
  /\ editing' = [id |-> w, row |-> listed[w]]
  /\ Mounted(Picked(listed[w]))
  /\ UNCHANGED <<shown, listed, job, stray, server, faults>>

Back ==
  /\ Building
  /\ editing' = None
  /\ Unmounted
  /\ UNCHANGED <<shown, listed, job, stray, server, faults>>

\* Another page of the workspace keeps editingWorkflow.
Leave ==
  /\ shown /\ shown' = FALSE
  /\ Unmounted
  /\ UNCHANGED <<editing, listed, job, stray, server, faults>>

Return ==
  /\ ~shown /\ shown' = TRUE
  /\ Mounted(IF editing = None THEN Empty ELSE Picked(editing.row))
  /\ UNCHANGED <<editing, listed, job, stray, server, faults>>

\* The page is loaded again at the address of a workflow: the copy in
\* localStorage if it is of that workflow, else an empty one.
Load(w) ==
  /\ editing' = IF editing # None /\ editing.id = w THEN editing
                ELSE [id |-> w, row |-> [draft |-> None, graph |-> Empty]]
  /\ shown' = TRUE
  /\ Mounted(Picked(editing'.row))
  /\ job' = [j \in Jobs |-> None]
  /\ stray' = stray \cup {[id |-> job[j].base.id, graph |-> job[j].graph] :
                          j \in {j \in Jobs : job[j] # None /\ job[j].stage = "put"}}
  /\ UNCHANGED <<listed, server, faults>>

-----------------------------------------------------------------------------
(* Saves                                                                   *)

\* Wrong: a save takes the graph the builder was opened with.
SaveOpened(j, kind) ==
  /\ Building /\ job[j] = None
  /\ kind = "run" => \A k \in Jobs : job[k] # None => job[k].kind # "run"
  /\ job' = [job EXCEPT ![j] = [kind |-> kind, stage |-> "put", base |-> editing,
                                graph |-> Picked(editing.row)]]
  /\ UNCHANGED <<canvasVars, shown, editing, listed, stray, server, faults>>

\* handleSave takes the canvas; handleWorkflowSave, the workflow of its render.
Save(j, kind) ==
  /\ Building /\ job[j] = None
  /\ kind = "run" => \A k \in Jobs : job[k] # None => job[k].kind # "run"
  /\ job' = [job EXCEPT ![j] = [kind |-> kind, stage |-> "put", base |-> editing, graph |-> Canvas]]
  /\ UNCHANGED <<canvasVars, shown, editing, listed, stray, server, faults>>

SetDraft(w, g) == server' = [server EXCEPT ![w].draft = g]

Put(j) ==
  /\ job[j] # None /\ job[j].stage = "put"
  /\ SetDraft(job[j].base.id, job[j].graph)
  /\ job' = [job EXCEPT ![j].stage = "answer"]
  /\ UNCHANGED <<canvasVars, shown, editing, listed, stray, faults>>

\* What follows a save, whether or not it failed: onSave never rejects.
Proceed(j) ==
  job' = [job EXCEPT ![j] = IF @.kind = "save" THEN None ELSE [@ EXCEPT !.stage = "post"]]

\* The answer replaces editingWorkflow, whatever is open by now: it opens the
\* builder again after Back, and renames the canvas of another workflow.
Saved(j) ==
  /\ job[j] # None /\ job[j].stage = "answer"
  /\ editing' = [job[j].base EXCEPT !.row.graph = job[j].graph]
  /\ IF shown /\ editing = None THEN Mounted(Picked(editing'.row)) ELSE UNCHANGED canvasVars
  /\ Proceed(j)
  /\ UNCHANGED <<shown, listed, stray, server, faults>>

\* A refused save, an answer lost on its way, or a connection that broke while
\* the request was under way: logged and forgotten.
SaveFails(j) ==
  /\ job[j] # None /\ job[j].stage \in {"put", "answer"}
  /\ faults < MaxFaults /\ faults' = faults + 1
  /\ \/ UNCHANGED stray
     \/ /\ job[j].stage = "put"
        /\ stray' = stray \cup {[id |-> job[j].base.id, graph |-> job[j].graph]}
  /\ Proceed(j)
  /\ UNCHANGED <<canvasVars, shown, editing, listed, server>>

Arrive(s) ==
  /\ s \in stray
  /\ SetDraft(s.id, s.graph)
  /\ stray' = stray \ {s}
  /\ UNCHANGED <<canvasVars, shown, editing, listed, job, faults>>

Drop(s) ==
  /\ s \in stray /\ stray' = stray \ {s}
  /\ UNCHANGED <<canvasVars, shown, editing, listed, job, server, faults>>

\* publishWorkflow and runWorkflow name the workflow alone: the server works on
\* what it has.
Publish(j) ==
  /\ job[j] # None /\ job[j].stage = "post" /\ job[j].kind = "publish"
  /\ LET w == job[j].base.id
     IN server' = IF server[w].draft = None THEN server
                  ELSE [server EXCEPT ![w].graph = server[w].draft]
  /\ job' = [job EXCEPT ![j] = None]
  /\ UNCHANGED <<canvasVars, shown, editing, listed, stray, faults>>

Run(j) ==
  /\ job[j] # None /\ job[j].stage = "post" /\ job[j].kind = "run"
  /\ job' = [job EXCEPT ![j] = None]
  /\ UNCHANGED <<canvasVars, shown, editing, listed, stray, server, faults>>

\* The second call fails, and the user is told.
PostFails(j) ==
  /\ job[j] # None /\ job[j].stage = "post"
  /\ job' = [job EXCEPT ![j] = None]
  /\ UNCHANGED <<canvasVars, shown, editing, listed, stray, server, faults>>

-----------------------------------------------------------------------------
Autosave == \E j \in Jobs : Save(j, "save")

Network ==
  \/ \E j \in Jobs : Put(j) \/ Saved(j) \/ SaveFails(j) \/ Publish(j) \/ Run(j) \/ PostFails(j)
  \/ \E s \in stray : Arrive(s) \/ Drop(s)

\* What the user does; saving by hand is what Autosave does unasked.
User ==
  \/ Building /\ Gesture /\ UNCHANGED <<shown, editing, listed, job, stray, server, faults>>
  \/ \E j \in Jobs, kind \in {"publish", "run"} : Save(j, kind)
  \/ \E w \in Workflows : Fetch(w) \/ Open(w) \/ Load(w)
  \/ Back \/ Leave \/ Return

Next == User \/ Autosave \/ Network

Spec == Init /\ [][Next]_vars

\* The timer keeps firing and calls settle, while the builder stays mounted.
Fairness ==
  /\ WF_vars(Autosave)
  /\ \A j \in Jobs : WF_vars(Put(j) \/ Saved(j) \/ SaveFails(j))
                     /\ WF_vars(Publish(j) \/ Run(j) \/ PostFails(j))
  /\ WF_vars(\E s \in stray : Arrive(s) \/ Drop(s))

FairSpec == Spec /\ Fairness

-----------------------------------------------------------------------------
(* Properties                                                              *)

TypeOK ==
  /\ Canvas \in Graphs
  /\ past \in Seq(Graphs) /\ future \in Seq(Graphs)
  /\ menu \in [open : BOOLEAN, edge : (NodeIds \X NodeIds) \cup {None}]
  /\ captured \subseteq NodeIds \X NodeIds
  /\ shown \in BOOLEAN
  /\ editing \in Opened \cup {None}
  /\ listed \in [Workflows -> Rows] /\ server \in [Workflows -> Rows]
  /\ job \in [Jobs -> Calls \cup {None}]
  /\ stray \subseteq [id : Workflows, graph : Graphs]
  /\ faults \in 0 .. MaxFaults

\* However saves overlapped, failed or arrived late: once the user leaves the
\* canvas alone, the server has it for good, as the draft of the open workflow.
EventuallySaved ==
  \/ []<><<User>>_vars
  \/ <>[](Building => server[editing.id].draft = Canvas)

RowAcyclic(row) == DAG(row.graph.edges) /\ (row.draft # None => DAG(row.draft.edges))

\* No graph has a cycle: on the canvas, in its history and its closures, in the
\* workspace, in a save, on the wire or on the server.
AllAcyclic ==
  /\ DAG(captured) /\ \A g \in Kept : DAG(g.edges)
  /\ \A w \in Workflows : RowAcyclic(server[w]) /\ RowAcyclic(listed[w])
  /\ editing # None => RowAcyclic(editing.row)
  /\ \A j \in Jobs : job[j] # None => DAG(job[j].graph.edges) /\ RowAcyclic(job[j].base.row)
  /\ \A s \in stray : DAG(s.graph.edges)

\* What is left of isValidConnection's "DAG enforcement": a first cycle comes from
\* a file that has one, or from an insertion into an edge that has gone since the
\* menu was opened.  No connection, generated step, insertion into an edge that is
\* there, undo, redo, save, late answer or reload makes one.
CyclesAreInserted ==
  [][AllAcyclic =>
       \/ AllAcyclic'
       \/ \E g \in Imports : Import(g) /\ ~DAG(g.edges)
       \/ menu.edge \notin edges /\ \E n \in NodeIds : InsertNode(n)]_vars

Persisted(w) == IF server[w].draft = None THEN server[w].graph ELSE server[w].draft

\* "Auto-save before running to ensure backend has latest version", handleRun:
\* a run works on the graph that was on the canvas when it was asked for.
RunsLatest ==
  [][\A j \in Jobs : Run(j) => Persisted(job[j].base.id) = job[j].graph]_vars

\* "CRITICAL: update local state so that refreshing the page restores all
\* nodes", handleWorkflowSave: after the answer to a save, a page that is loaded
\* again shows every node that was saved.
RefreshRestores ==
  [][\A j \in Jobs : Saved(j) => job[j].graph.nodes \subseteq Picked(editing'.row).nodes]_vars
=============================================================================
