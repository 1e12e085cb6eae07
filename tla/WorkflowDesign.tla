--------------------------- MODULE WorkflowDesign ---------------------------
(***************************************************************************)
(* One workflow's design and its published versions: the job that designs  *)
(* it first, and the requests that edit, publish, discard, restore and     *)
(* deactivate it (services/workflow_design.py, services/workflow.py,       *)
(* services/workflow_task_template.py, the design agent's tools).  Each    *)
(* request is a sequence of transactions; a database session keeps the     *)
(* attributes of the row it read until it refreshes it.                    *)
(*                                                                         *)
(* Abstracted: the task list and the texts (name, description, prompt) are *)
(* each one value.                                                         *)
(***************************************************************************)
EXTENDS Naturals, Sequences

CONSTANTS
  Editor,      \* requests, and calls of the design agent's tools, that edit the design
  Curator,     \* requests that publish, discard, restore and deactivate
  Design,      \* task lists, and texts
  NoTasks,     \* the empty task list
  MaxVersions  \* bound: versions published

ASSUME DesignAssumption == NoTasks \notin Design /\ MaxVersions \in Nat

VARIABLES
  flow,       \* the workflow: [status, tasks, text]
  versions,   \* its published versions, [tasks, text], in order
  request,    \* request[e]: where e is, and what it read
  designing,  \* the first design run
  strayed     \* a request was overtaken, or cut, on the way to published

designVars == <<flow, versions, request, designing, strayed>>

Party == Editor \cup Curator

FlowStatus == {"none", "generating", "draft", "failed", "published", "modified"}

Position == {"rest", "mark", "reread", "set", "list", "number", "insert", "promote", "latest",
             "find", "replace", "rewrite", "deactivate"}
RequestState == [at : Position, goal : FlowStatus, copy : FlowStatus, number : Nat,
                 tasks : Design \cup {NoTasks}, text : Design \cup {NoTasks}, raced : BOOLEAN]

\* goal: the status to set at the end; copy: the status the session remembers.
NoRequest == [at |-> "rest", goal |-> "none", copy |-> "none", number |-> 0,
              tasks |-> NoTasks, text |-> NoTasks, raced |-> FALSE]

\* Requests that go on to set a status over what they have seen.
Exposed(r) == r.goal # "none" \/ r.at \in {"list", "number", "insert", "promote"}

DesignInit ==
  /\ flow = [status |-> "none", tasks |-> NoTasks, text |-> NoTasks]
  /\ versions = <<>>
  /\ request = [e \in Party |-> NoRequest]
  /\ designing = "none"
  /\ strayed = FALSE

Move(e, r) == request' = [request EXCEPT ![e] = r]

\* e goes to r with a write that others may not have seen.
Overtake(e, r) ==
  request' = [f \in Party |->
    IF f = e THEN r
    ELSE IF Exposed(request[f]) THEN [request[f] EXCEPT !.raced = TRUE] ELSE request[f]]

End(e) == Move(e, NoRequest)

-----------------------------------------------------------------------------
(* The first design: generate, generate_workflow_design. *)

\* The transactions that create the row and set its status are one: nobody acts
\* on a workflow whose creation has not been answered.
CreateWorkflow(x) ==
  /\ flow.status = "none"
  /\ flow' = [status |-> "generating", tasks |-> NoTasks, text |-> x]
  /\ designing' = "running"
  /\ UNCHANGED <<versions, request, strayed>>

\* The agent has left tasks behind.
CheckDesign ==
  /\ designing = "running" /\ flow.tasks # NoTasks
  /\ designing' = "checked"
  /\ UNCHANGED <<flow, versions, request, strayed>>

EndDesign(status) ==
  /\ designing \in {"running", "checked"}
  /\ status = "draft" => designing = "checked"
  /\ flow' = [flow EXCEPT !.status = status]
  /\ designing' = "over"
  /\ UNCHANGED <<versions, request, strayed>>

DesignDies ==
  /\ designing \in {"running", "checked"}
  /\ designing' = "over"
  /\ UNCHANGED <<flow, versions, request, strayed>>

-----------------------------------------------------------------------------
(* Edits. *)

\* A write to the templates, then mark_design_edited, which reads the row afresh.
WriteTasks(e, x) ==
  /\ request[e].at = "rest" /\ flow.status # "none"
  /\ flow' = [flow EXCEPT !.tasks = x]
  /\ Overtake(e, [NoRequest EXCEPT !.at = "mark"])
  /\ UNCHANGED <<versions, designing, strayed>>

MarkDesignEdited(e) ==
  /\ request[e].at = "mark"
  /\ flow' = [flow EXCEPT !.status = CASE @ = "failed" -> "draft"
                                       [] @ = "published" -> "modified"
                                       [] OTHER -> @]
  /\ End(e)
  /\ UNCHANGED <<versions, designing, strayed>>

\* WorkflowService.update, generate_prompt: the write, then mark_modified.
WriteText(e, x) ==
  /\ request[e].at = "rest" /\ flow.status # "none"
  /\ flow' = [flow EXCEPT !.text = x]
  /\ Overtake(e, [NoRequest EXCEPT !.at = "reread"])
  /\ UNCHANGED <<versions, designing, strayed>>

\* The refresh that ends every update of the row.
RefreshRow(e) ==
  /\ request[e].at = "reread"
  /\ Move(e, [request[e] EXCEPT !.at = "set", !.copy = flow.status])
  /\ UNCHANGED <<flow, versions, designing, strayed>>

\* mark_modified decides by the copy.
MarkModified(e) ==
  /\ request[e].at = "set" /\ request[e].goal = "none"
  /\ flow' = [flow EXCEPT !.status = IF request[e].copy = "published" THEN "modified" ELSE @]
  /\ End(e)
  /\ UNCHANGED <<versions, designing, strayed>>

-----------------------------------------------------------------------------
(* publish. *)

BeginPublish(e) ==
  /\ request[e].at = "rest" /\ flow.status \in {"draft", "failed", "modified"}
  /\ Move(e, [NoRequest EXCEPT !.at = "list", !.text = flow.text])
  /\ UNCHANGED <<flow, versions, designing, strayed>>

\* Without task templates it is refused.
ListTemplates(e) ==
  /\ request[e].at = "list"
  /\ IF flow.tasks = NoTasks THEN End(e)
     ELSE Move(e, [request[e] EXCEPT !.at = "number", !.tasks = flow.tasks])
  /\ UNCHANGED <<flow, versions, designing, strayed>>

NumberVersion(e) ==
  /\ request[e].at = "number" /\ Len(versions) < MaxVersions
  /\ Move(e, [request[e] EXCEPT !.at = "insert", !.number = Len(versions) + 1])
  /\ UNCHANGED <<flow, versions, designing, strayed>>

\* The second of two versions of one number is refused.
InsertVersion(e) ==
  LET r == request[e]
  IN /\ r.at = "insert"
     /\ IF r.number > Len(versions)
        THEN /\ versions' = Append(versions, [tasks |-> r.tasks, text |-> r.text])
             /\ Overtake(e, [NoRequest EXCEPT !.at = "promote", !.raced = r.raced])
        ELSE UNCHANGED versions /\ End(e)
     /\ UNCHANGED <<flow, designing, strayed>>

Promote(e) ==
  /\ request[e].at = "promote"
  /\ flow' = [flow EXCEPT !.status = "published"]
  /\ strayed' = request[e].raced
  /\ End(e)
  /\ UNCHANGED <<versions, designing>>

-----------------------------------------------------------------------------
(* discard_changes, restore_version, deactivate. *)

BeginDiscard(e) ==
  /\ request[e].at = "rest" /\ flow.status = "modified"
  /\ Move(e, [NoRequest EXCEPT !.at = "latest"])
  /\ UNCHANGED <<flow, versions, designing, strayed>>

FindLatest(e) ==
  LET n == Len(versions)
  IN /\ request[e].at = "latest" /\ n > 0
     /\ Move(e, [NoRequest EXCEPT !.at = "replace", !.goal = "published",
                   !.tasks = versions[n].tasks, !.text = versions[n].text])
     /\ UNCHANGED <<flow, versions, designing, strayed>>

BeginRestore(e) ==
  /\ request[e].at = "rest" /\ flow.status \notin {"none", "generating"}
  /\ Move(e, [NoRequest EXCEPT !.at = "find", !.goal = flow.status])
  /\ UNCHANGED <<flow, versions, designing, strayed>>

\* Mutant: a restored version counts as published whichever it is.
FindAsPublished(e, n) ==
  /\ request[e].at = "find"
  /\ Move(e, [NoRequest EXCEPT !.at = "replace",
                !.goal = IF request[e].goal \in {"published", "modified"}
                         THEN "published" ELSE request[e].goal,
                !.tasks = versions[n].tasks, !.text = versions[n].text])
  /\ UNCHANGED <<flow, versions, designing, strayed>>

FindVersion(e, n) ==
  /\ request[e].at = "find"
  /\ Move(e, [NoRequest EXCEPT !.at = "replace",
                !.goal = IF request[e].goal \notin {"published", "modified"} THEN request[e].goal
                         ELSE IF n = Len(versions) THEN "published" ELSE "modified",
                !.tasks = versions[n].tasks, !.text = versions[n].text])
  /\ UNCHANGED <<flow, versions, designing, strayed>>

\* _write_back: the templates ...
ReplaceTasks(e) ==
  /\ request[e].at = "replace"
  /\ flow' = [flow EXCEPT !.tasks = request[e].tasks]
  /\ Overtake(e, [request[e] EXCEPT !.at = "rewrite", !.tasks = NoTasks])
  /\ UNCHANGED <<versions, designing, strayed>>

\* ... and the row, unless another workflow has taken the version's name.
RewriteText(e) ==
  /\ request[e].at = "rewrite"
  /\ flow' = [flow EXCEPT !.text = request[e].text]
  /\ Overtake(e, [request[e] EXCEPT !.at = "reread", !.text = NoTasks])
  /\ UNCHANGED <<versions, designing, strayed>>

\* A status equal to the remembered one is not written.
SetStatus(e) ==
  LET r == request[e]
  IN /\ r.at = "set" /\ r.goal # "none"
     /\ flow' = [flow EXCEPT !.status = IF r.goal = r.copy THEN @ ELSE r.goal]
     /\ strayed' = IF r.goal = "published" THEN r.raced ELSE strayed
     /\ End(e)
     /\ UNCHANGED <<versions, designing>>

BeginDeactivate(e) ==
  /\ request[e].at = "rest" /\ flow.status \in {"published", "modified"}
  /\ Move(e, [NoRequest EXCEPT !.at = "deactivate"])
  /\ UNCHANGED <<flow, versions, designing, strayed>>

Deactivate(e) ==
  /\ request[e].at = "deactivate"
  /\ flow' = [flow EXCEPT !.status = "draft"]
  /\ End(e)
  /\ UNCHANGED <<versions, designing, strayed>>

\* A request ends early: its process dies, or a write of it is refused.
CutRequest(e) ==
  /\ request[e].at # "rest"
  /\ strayed' = \/ strayed
                \/ request[e].at \in {"mark", "rewrite", "reread", "set"}
                \/ request[e].at = "promote" /\ request[e].raced
  /\ End(e)
  /\ UNCHANGED <<flow, versions, designing>>

DesignNext ==
  \/ \E x \in Design : CreateWorkflow(x)
  \/ CheckDesign \/ DesignDies
  \/ \E status \in {"draft", "failed"} : EndDesign(status)
  \/ \E e \in Editor :
       \/ \E x \in Design \cup {NoTasks} : WriteTasks(e, x)
       \/ \E x \in Design : WriteText(e, x)
  \/ \E e \in Curator :
       \/ BeginPublish(e) \/ BeginDiscard(e) \/ BeginRestore(e) \/ BeginDeactivate(e)
  \/ \E e \in Party :
       \/ MarkDesignEdited(e) \/ RefreshRow(e) \/ MarkModified(e)
       \/ ListTemplates(e) \/ NumberVersion(e) \/ InsertVersion(e) \/ Promote(e)
       \/ FindLatest(e) \/ \E n \in DOMAIN versions : FindVersion(e, n)
       \/ ReplaceTasks(e) \/ RewriteText(e) \/ SetStatus(e)
       \/ Deactivate(e) \/ CutRequest(e)

DesignSpec == DesignInit /\ [][DesignNext]_designVars

-----------------------------------------------------------------------------
(* Properties. *)

DesignTypeOK ==
  /\ flow \in [status : FlowStatus, tasks : Design \cup {NoTasks}, text : Design \cup {NoTasks}]
  /\ versions \in Seq([tasks : Design, text : Design])
  /\ request \in [Party -> RequestState]
  /\ designing \in {"none", "running", "checked", "over"}
  /\ strayed \in BOOLEAN

\* Between its writes to the design and the status that goes with them.
Midway(e) == request[e].at \in {"mark", "rewrite", "reread", "set", "promote"}

\* What a run without special rights copies was published: a published or modified
\* workflow has a version, and a published one's live design, which such a run
\* takes, is the version the run is attributed to, unless a request was overtaken
\* or cut on the way (WorkflowService._resolve_design).
RunsArePublished ==
  /\ flow.status \in {"published", "modified"} => versions # <<>>
  /\ flow.status = "published" /\ ~strayed /\ (\A e \in Party : ~Midway(e))
     => [tasks |-> flow.tasks, text |-> flow.text] = versions[Len(versions)]

=============================================================================
