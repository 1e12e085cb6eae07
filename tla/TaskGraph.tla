----------------------------- MODULE TaskGraph -----------------------------
(***************************************************************************)
(* The dependencies between the task templates of one workflow: how people *)
(* and the design agent edit them, how they are published and restored,    *)
(* and how a run copies them onto its tasks                                *)
(* (repositories/workflow_task_template.py, repositories/workflow_task.py, *)
(* WorkflowService.execute).  Each action is a query or a transaction;     *)
(* what an edit checked may be overtaken before it is written.             *)
(*                                                                         *)
(* Abstracted: titles, descriptions and tool bindings, and the order of    *)
(* the templates that may be copied next.                                  *)
(***************************************************************************)

CONSTANTS
  Template,  \* ids of task templates
  Author,    \* edits of a template's dependencies that may overlap
  NoTemplate

ASSUME GraphAssumption == NoTemplate \notin Template

VARIABLES
  graph,     \* the templates and their dependencies
  saved,     \* the ones last published
  edit,      \* edit[a]: the edit a has checked and not yet written
  listing,   \* a publish, a discard or an execute, and the templates it listed
  run        \* the last run: the design it copies, and its tasks so far

graphVars == <<graph, saved, edit, listing, run>>

Edges == Template \X Template

\* blind: the edges written on a check that another edit had overtaken.
Graphs == [nodes : SUBSET Template, edges : SUBSET Edges, blind : SUBSET Edges]
EmptyGraph == [nodes |-> {}, edges |-> {}, blind |-> {}]

\* <<t, d>> is an edge: t depends on d.
DependsOn(E, t) == {d \in Template : <<t, d>> \in E}

ClosedUnder(E, S) == \A t \in S : DependsOn(E, t) \subseteq S

\* Mutant: only the direct dependencies are looked at.
ReachesDirectly(E, start, target) == target \in DependsOn(E, start)

\* _reaches: target is reached from start by one edge or more.
Reaches(E, start, target) ==
  \A S \in SUBSET Template : DependsOn(E, start) \subseteq S /\ ClosedUnder(E, S) => target \in S

\* Every set of templates that depend on any has one that depends on none of the set.
Acyclic(E) ==
  \A S \in SUBSET {e[1] : e \in E \cap Edges} :
    S # {} => \E t \in S : DependsOn(E, t) \cap S = {}

\* Those on or behind a cycle, which _topo_order cannot order.
Knotted(g) == UNION {S \in SUBSET g.nodes : \A t \in S : DependsOn(g.edges, t) \cap S # {}}

From(E, N) == {e \in E : e[1] \in N}
Within(E, N) == {e \in E : e[1] \in N /\ e[2] \in N}

Without(g, N) ==
  LET kept == g.nodes \ N
  IN [nodes |-> kept, edges |-> Within(g.edges, kept), blind |-> Within(g.blind, kept)]

NoEdit == [task |-> NoTemplate, deps |-> {}, old |-> {}, stale |-> FALSE]
NoListing == [goal |-> "none", nodes |-> {}]

GraphInit ==
  /\ graph = EmptyGraph /\ saved = EmptyGraph
  /\ edit = [a \in Author |-> NoEdit]
  /\ listing = NoListing
  /\ run = [at |-> "none", design |-> EmptyGraph, tasks |-> {}, deps |-> {}]

\* Ids are never used twice.
Fresh(t) ==
  /\ t \notin graph.nodes \cup saved.nodes \cup listing.nodes
  /\ \A s \in Template : <<s, t>> \notin saved.edges
  /\ \A a \in Author : t # edit[a].task /\ t \notin edit[a].deps \cup edit[a].old

-----------------------------------------------------------------------------
(* Edits. *)

\* create: nothing depends on a new template, so no check can fail or be overtaken.
CreateTemplate(t, deps) ==
  /\ Fresh(t) /\ deps \subseteq graph.nodes
  /\ graph' = [graph EXCEPT !.nodes = @ \cup {t}, !.edges = @ \cup ({t} \X deps)]
  /\ UNCHANGED <<saved, edit, listing, run>>

\* update, up to _validate_dependencies and the edges _replace_edges reads.
CheckDependencies(a, t, deps) ==
  /\ edit[a] = NoEdit
  /\ t \in graph.nodes /\ deps \subseteq graph.nodes \ {t}
  /\ \A d \in deps : ~Reaches(graph.edges, d, t)
  /\ edit' = [edit EXCEPT ![a] = [task |-> t, deps |-> deps, stale |-> FALSE,
                                  old |-> DependsOn(graph.edges, t)]]
  /\ UNCHANGED <<graph, saved, listing, run>>

\* The edit of a ends; new edges overtake the checks of the others.
Conclude(a, overtakes) ==
  edit' = [b \in Author |->
    IF b = a THEN NoEdit
    ELSE IF overtakes /\ edit[b] # NoEdit THEN [edit[b] EXCEPT !.stale = TRUE] ELSE edit[b]]

\* The commit of update.  An edge both removed and added is left alone; the keys
\* of the table refuse an edge that is there already or has lost an end.
WriteDependencies(a) ==
  LET e == edit[a]
      added == {e.task} \X (e.deps \ e.old)
      removed == {e.task} \X (e.old \ e.deps)
      refused == \/ added \cap graph.edges # {}
                 \/ added # {} /\ ~ ({e.task} \cup (e.deps \ e.old) \subseteq graph.nodes)
  IN /\ e # NoEdit
     /\ IF refused THEN UNCHANGED graph
        ELSE graph' = [graph EXCEPT !.edges = (@ \ removed) \cup added,
                                    !.blind = IF e.stale THEN (@ \ removed) \cup added
                                              ELSE @ \ removed]
     /\ Conclude(a, added # {} /\ ~refused)
     /\ UNCHANGED <<saved, listing, run>>

\* The edges at both ends cascade.
DeleteTemplate(t) ==
  /\ t \in graph.nodes
  /\ graph' = Without(graph, {t})
  /\ UNCHANGED <<saved, edit, listing, run>>

-----------------------------------------------------------------------------
(* Requests over the whole design, one at a time. *)

\* list, first query; replace_all_for_workflow, the rows to delete.
ListDesign(goal) ==
  /\ listing = NoListing
  /\ goal = "discard" => saved.nodes # {}
  /\ goal = "execute" => run.at # "copying"
  /\ goal # "discard" => graph.nodes # {}
  /\ listing' = [goal |-> goal, nodes |-> graph.nodes]
  /\ UNCHANGED <<graph, saved, edit, run>>

\* list, second query: the edges the listed templates have by now.
Listed ==
  [nodes |-> listing.nodes, edges |-> From(graph.edges, listing.nodes),
   blind |-> From(graph.blind, listing.nodes)]

\* publish: the version keeps what was listed.
Publish ==
  /\ listing.goal = "publish"
  /\ saved' = Listed
  /\ listing' = NoListing
  /\ UNCHANGED <<graph, edit, run>>

\* replace_all_for_workflow: the keys refuse an edge to a template that is gone.
Restore ==
  LET rest == Without(graph, listing.nodes)
  IN /\ listing.goal = "discard"
     /\ listing' = NoListing
     /\ IF \A e \in saved.edges : e[2] \in saved.nodes \cup rest.nodes
        THEN /\ graph' = [nodes |-> rest.nodes \cup saved.nodes,
                          edges |-> rest.edges \cup saved.edges,
                          blind |-> rest.blind \cup saved.blind]
             /\ edit' = [b \in Author |-> IF edit[b] = NoEdit THEN NoEdit
                                          ELSE [edit[b] EXCEPT !.stale = TRUE]]
        ELSE UNCHANGED <<graph, edit>>
     /\ UNCHANGED <<saved, run>>

-----------------------------------------------------------------------------
(* execute: copy the templates, then start. *)

Copying(g) == [at |-> "copying", design |-> g, tasks |-> {}, deps |-> {}]

ExecuteLive ==
  /\ listing.goal = "execute"
  /\ run' = Copying(Listed)
  /\ listing' = NoListing
  /\ UNCHANGED <<graph, saved, edit>>

ExecuteSaved ==
  /\ run.at # "copying" /\ saved.nodes # {}
  /\ run' = Copying(saved)
  /\ UNCHANGED <<graph, saved, edit, listing>>

\* One task, with the dependencies that have been copied already.
Copy(t) ==
  /\ run' = [run EXCEPT !.tasks = @ \cup {t},
                        !.deps = @ \cup ({t} \X (DependsOn(run.design.edges, t) \cap run.tasks))]
  /\ UNCHANGED <<graph, saved, edit, listing>>

\* Mutant: the templates are copied in the order they are listed.
CopyAsListed(t) ==
  /\ run.at = "copying" /\ t \in run.design.nodes \ run.tasks
  /\ Copy(t)

\* _topo_order: a template comes after its dependencies; the leftovers come last.
CopyTemplate(t) ==
  LET g == run.design
      ordered == g.nodes \ Knotted(g)
  IN /\ run.at = "copying" /\ t \in g.nodes \ run.tasks
     /\ IF t \in ordered THEN DependsOn(g.edges, t) \cap g.nodes \subseteq run.tasks
        ELSE ordered \subseteq run.tasks
     /\ Copy(t)

\* The main session gets its kickoff.
StartRun ==
  /\ run.at = "copying" /\ run.tasks = run.design.nodes
  /\ run' = [run EXCEPT !.at = "started"]
  /\ UNCHANGED <<graph, saved, edit, listing>>

\* A task is refused, its tool's server gone, or the process dies: the run stays
\* as it is, with no session.
CutRun ==
  /\ run.at = "copying"
  /\ run' = [run EXCEPT !.at = "cut"]
  /\ UNCHANGED <<graph, saved, edit, listing>>

GraphNext ==
  \/ \E t \in Template, deps \in SUBSET Template : CreateTemplate(t, deps)
  \/ \E a \in Author, t \in Template, deps \in SUBSET Template : CheckDependencies(a, t, deps)
  \/ \E a \in Author : WriteDependencies(a)
  \/ \E t \in Template : DeleteTemplate(t)
  \/ \E goal \in {"publish", "discard", "execute"} : ListDesign(goal)
  \/ Publish \/ Restore \/ ExecuteLive \/ ExecuteSaved
  \/ \E t \in Template : CopyTemplate(t)
  \/ StartRun \/ CutRun

GraphSpec == GraphInit /\ [][GraphNext]_graphVars

-----------------------------------------------------------------------------
(* Properties. *)

Edits == [task : Template \cup {NoTemplate}, deps : SUBSET Template, old : SUBSET Template,
          stale : BOOLEAN]

GraphTypeOK ==
  /\ graph \in Graphs /\ saved \in Graphs
  /\ edit \in [Author -> Edits]
  /\ listing \in [goal : {"none", "publish", "discard", "execute"}, nodes : SUBSET Template]
  /\ run \in [at : {"none", "copying", "started", "cut"}, design : Graphs,
              tasks : SUBSET Template, deps : SUBSET Edges]

\* "The repository enforces acyclicity when edges are written": every cycle, in the
\* live design or the published one, goes through an edge that was written on a
\* check another edit had overtaken (_validate_dependencies, _reaches).
NoCycleUnlessBlind ==
  /\ Acyclic(graph.edges \ graph.blind)
  /\ Acyclic(saved.edges \ saved.blind)

\* A run starts with every task of its design; their dependencies have no cycle,
\* whatever the design has, and when every edit of the design was checked in time
\* they are the design's own, all of them (_topo_order, WorkflowService.execute).
RunKeepsOrder ==
  run.at = "started" =>
    /\ run.tasks = run.design.nodes
    /\ Acyclic(run.deps)
    /\ run.design.blind = {} => run.deps = Within(run.design.edges, run.design.nodes)

=============================================================================
