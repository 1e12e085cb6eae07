------------------------ MODULE WorkflowDesignProofs ------------------------
(***************************************************************************)
(* Proofs about WorkflowDesign, for any number of editors, curators and    *)
(* versions: what a run copies was published.                              *)
(***************************************************************************)
EXTENDS WorkflowDesign, TLAPS

Last == versions[Len(versions)]
InStep == flow.tasks = Last.tasks /\ flow.text = Last.text

\* Nobody acts on a workflow that does not exist, its design job included; one that
\* does has its texts.
StartedInv ==
  /\ flow.status = "none" => \A e \in Party : request[e].at = "rest"
  /\ flow.status = "none" => designing \notin {"running", "checked"}
  /\ flow.status # "none" => flow.text \in Design

\* What a request holds is fit to be written.
Fit(r) ==
  /\ r.at \in {"list", "number", "insert", "replace", "rewrite"} => r.text \in Design
  /\ r.at \in {"number", "insert", "replace"} => r.tasks \in Design
  /\ r.at \in {"find", "replace", "rewrite"} => r.goal # "none"

\* Whoever will write published or modified, or remembers published, has a version
\* behind it.
Backed(r) ==
  r.goal \in {"published", "modified"} \/ r.copy = "published" \/ r.at = "promote" => versions # <<>>

\* A request on its way to published that nobody overtook holds, or has written,
\* what is live and what is in the latest version.
Carried(r) == ~r.raced =>
  /\ r.at \in {"list", "number", "insert"} => r.text = flow.text
  /\ r.at \in {"number", "insert"} => r.tasks = flow.tasks
  /\ r.at = "promote" => InStep
  /\ r.goal = "published" =>
       /\ r.at = "replace" => r.tasks = Last.tasks
       /\ r.at = "rewrite" => flow.tasks = Last.tasks
       /\ r.at \in {"replace", "rewrite"} => r.text = Last.text
       /\ r.at \in {"reread", "set"} => InStep

RequestInv == \A e \in Party : Fit(request[e]) /\ Backed(request[e]) /\ Carried(request[e])

VersionInv == flow.status \in {"published", "modified"} => versions # <<>>

\* The request has written to the design, and the status it sets will tell.
Unsettled(r) ==
  \/ r.at \in {"mark", "rewrite", "reread", "promote"}
  \/ /\ r.at = "set"
     /\ \/ r.goal = "published"
        \/ r.goal = "none" /\ r.copy = "published"
        \/ r.goal \notin {"none", "published"} /\ r.copy # r.goal

\* The live design of a published workflow is its latest version but for those.
SettledInv ==
  flow.status = "published" /\ ~strayed /\ (\A e \in Party : ~Unsettled(request[e])) => InStep

DesignInv == DesignTypeOK /\ StartedInv /\ VersionInv /\ RequestInv /\ SettledInv

-----------------------------------------------------------------------------
\* Everybody but e stays as they were.
Kept(e) ==
  /\ request' \in [Party -> RequestState]
  /\ \A f \in Party \ {e} : request'[f] = request[f]

\* Everybody but e stays where they were, and those on their way to a status are
\* marked as overtaken.
Marked(e) ==
  /\ request' \in [Party -> RequestState]
  /\ \A f \in Party \ {e} :
       /\ request'[f].at = request[f].at /\ request'[f].goal = request[f].goal
       /\ request'[f].copy = request[f].copy
       /\ request'[f].tasks = request[f].tasks /\ request'[f].text = request[f].text
       /\ ~request'[f].raced => ~request[f].raced /\ ~Exposed(request[f])

\* Reads leave the others as they were.
LEMMA Moves ==
  ASSUME DesignTypeOK, NEW e \in Party, NEW r \in RequestState, Move(e, r)
  PROVE  Kept(e) /\ request'[e] = r
BY DEF DesignTypeOK, Move, Kept

\* A write marks the others.
LEMMA Overtakes ==
  ASSUME DesignTypeOK, NEW e \in Party, NEW r \in RequestState, Overtake(e, r)
  PROVE  Marked(e) /\ request'[e] = r
<1>1. \A f \in Party : request[f] \in RequestState /\ [request[f] EXCEPT !.raced = TRUE] \in RequestState
  BY DEF DesignTypeOK, RequestState
<1>2. request' \in [Party -> RequestState] /\ request'[e] = r
  BY <1>1 DEF Overtake
<1>3. ASSUME NEW f \in Party \ {e}
      PROVE  request'[f] = IF Exposed(request[f]) THEN [request[f] EXCEPT !.raced = TRUE] ELSE request[f]
  BY DEF Overtake
<1>4. ASSUME NEW f \in Party \ {e}
      PROVE  /\ request'[f].at = request[f].at /\ request'[f].goal = request[f].goal
             /\ request'[f].copy = request[f].copy
             /\ request'[f].tasks = request[f].tasks /\ request'[f].text = request[f].text
             /\ ~request'[f].raced => ~request[f].raced /\ ~Exposed(request[f])
  <2>1. CASE Exposed(request[f])
    <3>1. request'[f] = [request[f] EXCEPT !.raced = TRUE]
      BY <1>3, <2>1
    <3> QED
      BY <1>1, <3>1 DEF RequestState
  <2>2. CASE ~Exposed(request[f])
    BY <1>3, <2>2
  <2> QED
    BY <2>1, <2>2
<1> QED
  BY <1>2, <1>4 DEF Marked

\* A request starts from rest.
LEMMA IdleTyped == NoRequest \in RequestState
BY DEF NoRequest, RequestState, Position, FlowStatus

\* An element of a sequence.
LEMMA Elements ==
  ASSUME NEW S, NEW s \in Seq(S), NEW n \in 1..Len(s)
  PROVE  s[n] \in S
OBVIOUS

\* What appending does to the end of a sequence.
LEMMA Appended ==
  ASSUME NEW S, NEW s \in Seq(S), NEW v \in S
  PROVE  Append(s, v) \in Seq(S) /\ Append(s, v) # <<>> /\ Append(s, v)[Len(Append(s, v))] = v
OBVIOUS

\* A version is a task list and a text.
LEMMA VersionTyped ==
  ASSUME DesignTypeOK, NEW n \in 1..Len(versions)
  PROVE  versions[n].tasks \in Design /\ versions[n].text \in Design
<1> DEFINE V == [tasks : Design, text : Design]
<1>1. versions \in Seq(V)
  BY DEF DesignTypeOK
<1> HIDE DEF V
<1>2. versions[n] \in V
  BY <1>1, Elements
<1> QED
  BY <1>2 DEF V

\* Nothing but the request changes: the invariant asks what r holds.
LEMMA QuietMove ==
  ASSUME DesignInv, NEW e \in Party, NEW r \in RequestState, Move(e, r),
         UNCHANGED <<flow, versions, designing, strayed>>, flow.status # "none",
         Fit(r), Backed(r), Carried(r),
         flow.status = "published" /\ Unsettled(request[e]) => Unsettled(r)
  PROVE  DesignInv'
<1> USE DEF DesignInv
<1>1. Kept(e) /\ request'[e] = r
  BY Moves
<1>2. DesignTypeOK' /\ StartedInv' /\ VersionInv'
  BY <1>1 DEF DesignTypeOK, StartedInv, VersionInv, Kept
<1>3. RequestInv'
  BY <1>1 DEF RequestInv, Kept, Fit, Backed, Carried, InStep, Last
<1>4. ASSUME flow.status = "published", \A f \in Party : ~Unsettled(request'[f])
      PROVE  \A f \in Party : ~Unsettled(request[f])
  BY <1>1, <1>4 DEF Kept
<1>5. SettledInv'
  BY <1>1, <1>4 DEF SettledInv, InStep, Last, Unsettled
<1> QED
  BY <1>2, <1>3, <1>5

\* A write to the design under an unchanged status.
LEMMA WriteMove ==
  ASSUME DesignInv, NEW e \in Party, NEW r \in RequestState, Overtake(e, r),
         UNCHANGED <<versions, designing, strayed>>, flow.status # "none",
         NEW tasks \in Design \cup {NoTasks}, NEW text \in Design,
         flow' = [flow EXCEPT !.tasks = tasks, !.text = text],
         Fit(r), Backed(r), Carried(r)', Unsettled(r)
  PROVE  DesignInv'
<1> USE DEF DesignInv
<1>1. Marked(e) /\ request'[e] = r
  BY Overtakes
<1>2. flow'.tasks = tasks /\ flow'.text = text /\ flow'.status = flow.status
  BY DEF DesignTypeOK
<1>3. DesignTypeOK'
  BY <1>1 DEF DesignTypeOK, Marked
<1>4. StartedInv' /\ VersionInv'
  BY <1>1, <1>2 DEF StartedInv, VersionInv
<1>5. ASSUME NEW f \in Party \ {e}
      PROVE  (Fit(request[f]) /\ Backed(request[f]) /\ Carried(request[f]))'
  BY <1>1, <1>2 DEF RequestInv, Marked, Fit, Backed, Carried, Exposed
<1>6. (Fit(request[e]) /\ Backed(request[e]) /\ Carried(request[e]))'
  BY <1>1 DEF Fit, Backed, Carried, InStep, Last
<1>7. RequestInv'
  BY <1>5, <1>6 DEF RequestInv
<1>8. SettledInv'
  BY <1>1 DEF SettledInv, Unsettled
<1> QED
  BY <1>3, <1>4, <1>7, <1>8

\* A request ends over status s.
LEMMA EndMove ==
  ASSUME DesignInv, NEW e \in Party, End(e), NEW s \in FlowStatus \ {"none"},
         flow' = [flow EXCEPT !.status = s], flow.status # "none",
         s \in {"published", "modified"} => versions # <<>>,
         UNCHANGED <<versions, designing>>, strayed' \in BOOLEAN
  PROVE  /\ DesignTypeOK' /\ StartedInv' /\ VersionInv' /\ RequestInv'
         /\ flow'.status = s /\ InStep' = InStep
         /\ request' = [request EXCEPT ![e] = NoRequest]
<1> USE DEF DesignInv
<1>1. Kept(e) /\ request'[e] = NoRequest
  BY Moves, IdleTyped DEF End
<1>2. flow'.status = s /\ flow'.tasks = flow.tasks /\ flow'.text = flow.text
  BY DEF DesignTypeOK
<1>3. DesignTypeOK'
  BY <1>1 DEF DesignTypeOK, Kept
<1>4. StartedInv' /\ VersionInv'
  BY <1>2 DEF StartedInv, VersionInv
<1>5. RequestInv'
  BY <1>1, <1>2 DEF RequestInv, Kept, Fit, Backed, Carried, InStep, Last, NoRequest
<1>6. InStep' = InStep
  BY <1>2 DEF InStep, Last
<1> QED
  BY <1>2, <1>3, <1>4, <1>5, <1>6 DEF End, Move

-----------------------------------------------------------------------------
(* Reads. *)

\* The copy a request takes tells it whether the workflow is published.
LEMMA RefreshRowKeeps ==
  ASSUME DesignInv, NEW e \in Party, RefreshRow(e)
  PROVE  DesignInv'
<1> DEFINE r == [request[e] EXCEPT !.at = "set", !.copy = flow.status]
<1> USE DEF DesignInv
<1>1. r \in RequestState
  BY DEF RefreshRow, DesignTypeOK, StartedInv, NoRequest, RequestState, Position, FlowStatus
<1>2. Move(e, r) /\ UNCHANGED <<flow, versions, designing, strayed>>
  BY DEF RefreshRow
<1>3. flow.status # "none"
  BY DEF RefreshRow, StartedInv
<1>4. Fit(r) /\ Backed(r) /\ Carried(r)
  BY <1>3 DEF RefreshRow, DesignTypeOK, StartedInv, VersionInv, RequestInv, Fit, Backed, Carried, NoRequest, RequestState, InStep, Last
<1>5. flow.status = "published" /\ Unsettled(request[e]) => Unsettled(r)
  BY DEF RefreshRow, DesignTypeOK, Unsettled, NoRequest, RequestState
<1> HIDE DEF r
<1> QED
  BY <1>1, <1>2, <1>3, <1>4, <1>5, QuietMove

\* Publishing starts from the live texts.
LEMMA BeginPublishKeeps ==
  ASSUME DesignInv, NEW e \in Party, BeginPublish(e)
  PROVE  DesignInv'
<1> DEFINE r == [NoRequest EXCEPT !.at = "list", !.text = flow.text]
<1> USE DEF DesignInv
<1>1. r \in RequestState
  BY DEF BeginPublish, DesignTypeOK, StartedInv, NoRequest, RequestState, Position, FlowStatus
<1>2. Move(e, r) /\ UNCHANGED <<flow, versions, designing, strayed>>
  BY DEF BeginPublish
<1>3. flow.status # "none"
  BY DEF BeginPublish, StartedInv
<1>4. Fit(r) /\ Backed(r) /\ Carried(r)
  BY <1>3 DEF BeginPublish, DesignTypeOK, StartedInv, VersionInv, RequestInv, Fit, Backed, Carried, NoRequest, RequestState, InStep, Last
<1>5. flow.status = "published" /\ Unsettled(request[e]) => Unsettled(r)
  BY DEF BeginPublish, DesignTypeOK, Unsettled, NoRequest, RequestState
<1> HIDE DEF r
<1> QED
  BY <1>1, <1>2, <1>3, <1>4, <1>5, QuietMove

\* A number changes nothing of what is carried.
LEMMA NumberVersionKeeps ==
  ASSUME DesignInv, NEW e \in Party, NumberVersion(e)
  PROVE  DesignInv'
<1> DEFINE r == [request[e] EXCEPT !.at = "insert", !.number = Len(versions) + 1]
<1> USE DEF DesignInv
<1>1. r \in RequestState
  <2>1. Len(versions) + 1 \in Nat
    BY DEF DesignTypeOK
  <2> QED
    BY <2>1 DEF DesignTypeOK, RequestState, Position
<1>2. Move(e, r) /\ UNCHANGED <<flow, versions, designing, strayed>>
  BY DEF NumberVersion
<1>3. flow.status # "none"
  BY DEF NumberVersion, StartedInv
<1>4. Fit(r) /\ Backed(r) /\ Carried(r)
  BY <1>3 DEF NumberVersion, DesignTypeOK, StartedInv, VersionInv, RequestInv, Fit, Backed, Carried, NoRequest, RequestState, InStep, Last
<1>5. flow.status = "published" /\ Unsettled(request[e]) => Unsettled(r)
  BY DEF NumberVersion, DesignTypeOK, Unsettled, NoRequest, RequestState
<1> HIDE DEF r
<1> QED
  BY <1>1, <1>2, <1>3, <1>4, <1>5, QuietMove

\* A request that has only begun promises nothing.
LEMMA BeginDiscardKeeps ==
  ASSUME DesignInv, NEW e \in Party, BeginDiscard(e)
  PROVE  DesignInv'
<1> DEFINE r == [NoRequest EXCEPT !.at = "latest"]
<1> USE DEF DesignInv
<1>1. r \in RequestState
  BY DEF BeginDiscard, DesignTypeOK, StartedInv, NoRequest, RequestState, Position, FlowStatus
<1>2. Move(e, r) /\ UNCHANGED <<flow, versions, designing, strayed>>
  BY DEF BeginDiscard
<1>3. flow.status # "none"
  BY DEF BeginDiscard, StartedInv
<1>4. Fit(r) /\ Backed(r) /\ Carried(r)
  BY <1>3 DEF BeginDiscard, DesignTypeOK, StartedInv, VersionInv, RequestInv, Fit, Backed, Carried, NoRequest, RequestState, InStep, Last
<1>5. flow.status = "published" /\ Unsettled(request[e]) => Unsettled(r)
  BY DEF BeginDiscard, DesignTypeOK, Unsettled, NoRequest, RequestState
<1> HIDE DEF r
<1> QED
  BY <1>1, <1>2, <1>3, <1>4, <1>5, QuietMove

\* A restore aims at the status it found.
LEMMA BeginRestoreKeeps ==
  ASSUME DesignInv, NEW e \in Party, BeginRestore(e)
  PROVE  DesignInv'
<1> DEFINE r == [NoRequest EXCEPT !.at = "find", !.goal = flow.status]
<1> USE DEF DesignInv
<1>1. r \in RequestState
  BY DEF BeginRestore, DesignTypeOK, StartedInv, NoRequest, RequestState, Position, FlowStatus
<1>2. Move(e, r) /\ UNCHANGED <<flow, versions, designing, strayed>>
  BY DEF BeginRestore
<1>3. flow.status # "none"
  BY DEF BeginRestore, StartedInv
<1>4. Fit(r) /\ Backed(r) /\ Carried(r)
  BY <1>3 DEF BeginRestore, DesignTypeOK, StartedInv, VersionInv, RequestInv, Fit, Backed, Carried, NoRequest, RequestState, InStep, Last
<1>5. flow.status = "published" /\ Unsettled(request[e]) => Unsettled(r)
  BY DEF BeginRestore, DesignTypeOK, Unsettled, NoRequest, RequestState
<1> HIDE DEF r
<1> QED
  BY <1>1, <1>2, <1>3, <1>4, <1>5, QuietMove

\* Deactivating holds nothing.
LEMMA BeginDeactivateKeeps ==
  ASSUME DesignInv, NEW e \in Party, BeginDeactivate(e)
  PROVE  DesignInv'
<1> DEFINE r == [NoRequest EXCEPT !.at = "deactivate"]
<1> USE DEF DesignInv
<1>1. r \in RequestState
  BY DEF BeginDeactivate, DesignTypeOK, StartedInv, NoRequest, RequestState, Position, FlowStatus
<1>2. Move(e, r) /\ UNCHANGED <<flow, versions, designing, strayed>>
  BY DEF BeginDeactivate
<1>3. flow.status # "none"
  BY DEF BeginDeactivate, StartedInv
<1>4. Fit(r) /\ Backed(r) /\ Carried(r)
  BY <1>3 DEF BeginDeactivate, DesignTypeOK, StartedInv, VersionInv, RequestInv, Fit, Backed, Carried, NoRequest, RequestState, InStep, Last
<1>5. flow.status = "published" /\ Unsettled(request[e]) => Unsettled(r)
  BY DEF BeginDeactivate, DesignTypeOK, Unsettled, NoRequest, RequestState
<1> HIDE DEF r
<1> QED
  BY <1>1, <1>2, <1>3, <1>4, <1>5, QuietMove

\* Without templates a request ends, with them it carries the live ones.
LEMMA ListTemplatesKeeps ==
  ASSUME DesignInv, NEW e \in Party, ListTemplates(e)
  PROVE  DesignInv'
<1> DEFINE r == [request[e] EXCEPT !.at = "number", !.tasks = flow.tasks]
<1> USE DEF DesignInv
<1>1. r \in RequestState /\ NoRequest \in RequestState
  BY IdleTyped DEF DesignTypeOK, RequestState, Position
<1>2. flow.status # "none" /\ request[e].at = "list" /\ UNCHANGED <<flow, versions, designing, strayed>>
  BY DEF ListTemplates, StartedInv
<1>3. CASE flow.tasks = NoTasks
  <2>1. Move(e, NoRequest)
    BY <1>3 DEF ListTemplates, End
  <2>2. Fit(NoRequest) /\ Backed(NoRequest) /\ Carried(NoRequest)
    BY DEF Fit, Backed, Carried, NoRequest
  <2>3. ~Unsettled(request[e])
    BY <1>2 DEF Unsettled
  <2> QED
    BY <1>1, <1>2, <2>1, <2>2, <2>3, QuietMove
<1>4. CASE flow.tasks # NoTasks
  <2>1. Move(e, r)
    BY <1>4 DEF ListTemplates
  <2>2. Fit(r) /\ Backed(r) /\ Carried(r)
    BY <1>2, <1>4 DEF DesignTypeOK, RequestInv, Fit, Backed, Carried, RequestState
  <2>3. ~Unsettled(request[e])
    BY <1>2 DEF Unsettled
  <2> HIDE DEF r
  <2> QED
    BY <1>1, <1>2, <2>1, <2>2, <2>3, QuietMove
<1> QED
  BY <1>3, <1>4

\* A discard carries the latest version.
LEMMA FindLatestKeeps ==
  ASSUME DesignInv, NEW e \in Party, FindLatest(e)
  PROVE  DesignInv'
<1> DEFINE n == Len(versions)
           r == [NoRequest EXCEPT !.at = "replace", !.goal = "published",
                   !.tasks = versions[n].tasks, !.text = versions[n].text]
<1> USE DEF DesignInv
<1>1. n \in 1..Len(versions) /\ versions # <<>>
  BY DEF FindLatest, DesignTypeOK
<1>2. versions[n].tasks \in Design /\ versions[n].text \in Design
  BY <1>1, VersionTyped
<1>3. r \in RequestState
  BY <1>2 DEF NoRequest, RequestState, Position, FlowStatus
<1>4. /\ Move(e, r) /\ flow.status # "none" /\ request[e].at = "latest"
      /\ UNCHANGED <<flow, versions, designing, strayed>>
  BY DEF FindLatest, StartedInv
<1>5. Fit(r) /\ Backed(r) /\ Carried(r)
  BY <1>1, <1>2 DEF Fit, Backed, Carried, NoRequest, Last
<1>6. ~Unsettled(request[e])
  BY <1>4 DEF Unsettled
<1> HIDE DEF r
<1> QED
  BY <1>3, <1>4, <1>5, <1>6, QuietMove

\* A restore aims at published only with the latest version in hand.
LEMMA FindVersionKeeps ==
  ASSUME DesignInv, NEW e \in Party, NEW n \in DOMAIN versions, FindVersion(e, n)
  PROVE  DesignInv'
<1> DEFINE goal == IF request[e].goal \notin {"published", "modified"} THEN request[e].goal
                   ELSE IF n = Len(versions) THEN "published" ELSE "modified"
           r == [NoRequest EXCEPT !.at = "replace", !.goal = goal,
                   !.tasks = versions[n].tasks, !.text = versions[n].text]
<1> USE DEF DesignInv
<1>1. n \in 1..Len(versions) /\ versions # <<>>
  <2>1. versions \in Seq([tasks : Design, text : Design])
    BY DEF DesignTypeOK
  <2> QED
    BY <2>1
<1>2. versions[n].tasks \in Design /\ versions[n].text \in Design
  BY <1>1, VersionTyped
<1>3. /\ Move(e, r) /\ flow.status # "none" /\ request[e].at = "find"
      /\ UNCHANGED <<flow, versions, designing, strayed>>
  BY DEF FindVersion, StartedInv
<1>4. request[e].goal \in FlowStatus \ {"none"}
  BY <1>3 DEF RequestInv, Fit, DesignTypeOK, RequestState
<1>5. goal \in FlowStatus \ {"none"} /\ (goal = "published" => n = Len(versions))
  <2>1. CASE request[e].goal \notin {"published", "modified"}
    BY <1>4, <2>1
  <2>2. CASE request[e].goal \in {"published", "modified"} /\ n = Len(versions)
    BY <2>2 DEF FlowStatus
  <2>3. CASE request[e].goal \in {"published", "modified"} /\ n # Len(versions)
    BY <2>3 DEF FlowStatus
  <2> QED
    BY <2>1, <2>2, <2>3
<1> HIDE DEF goal
<1>6. r \in RequestState
  BY <1>2, <1>5 DEF NoRequest, RequestState, Position, FlowStatus
<1>7. Fit(r) /\ Backed(r) /\ Carried(r)
  BY <1>1, <1>2, <1>5 DEF Fit, Backed, Carried, NoRequest, Last
<1>8. ~Unsettled(request[e])
  BY <1>3 DEF Unsettled
<1> HIDE DEF r
<1> QED
  BY <1>3, <1>6, <1>7, <1>8, QuietMove

-----------------------------------------------------------------------------
(* Writes to the design. *)

\* An edit leaves the writer with a status to set.
LEMMA WriteTasksKeeps ==
  ASSUME DesignInv, NEW e \in Party, NEW x \in Design \cup {NoTasks}, WriteTasks(e, x)
  PROVE  DesignInv'
<1> DEFINE r == [NoRequest EXCEPT !.at = "mark"]
<1> USE DEF DesignInv
<1>1. r \in RequestState
  BY DEF NoRequest, RequestState, Position, FlowStatus
<1>2. /\ Overtake(e, r) /\ flow.status # "none" /\ flow.text \in Design
      /\ UNCHANGED <<versions, designing, strayed>>
  BY DEF WriteTasks, StartedInv
<1>3. flow' = [flow EXCEPT !.tasks = x, !.text = flow.text]
  BY DEF WriteTasks, DesignTypeOK
<1>4. Fit(r) /\ Backed(r) /\ Carried(r)' /\ Unsettled(r)
  BY DEF Fit, Backed, Carried, Unsettled, NoRequest
<1> HIDE DEF r
<1> QED
  BY <1>1, <1>2, <1>3, <1>4, WriteMove

\* So does an edit of the texts.
LEMMA WriteTextKeeps ==
  ASSUME DesignInv, NEW e \in Party, NEW x \in Design, WriteText(e, x)
  PROVE  DesignInv'
<1> DEFINE r == [NoRequest EXCEPT !.at = "reread"]
<1> USE DEF DesignInv
<1>1. r \in RequestState
  BY DEF NoRequest, RequestState, Position, FlowStatus
<1>2. /\ Overtake(e, r) /\ flow.status # "none" /\ flow.tasks \in Design \cup {NoTasks}
      /\ UNCHANGED <<versions, designing, strayed>>
  BY DEF WriteText, DesignTypeOK
<1>3. flow' = [flow EXCEPT !.tasks = flow.tasks, !.text = x]
  BY DEF WriteText, DesignTypeOK
<1>4. Fit(r) /\ Backed(r) /\ Carried(r)' /\ Unsettled(r)
  BY DEF Fit, Backed, Carried, Unsettled, NoRequest
<1> HIDE DEF r
<1> QED
  BY <1>1, <1>2, <1>3, <1>4, WriteMove

\* The first half of a write-back brings the live task list to the version carried.
LEMMA ReplaceTasksKeeps ==
  ASSUME DesignInv, NEW e \in Party, ReplaceTasks(e)
  PROVE  DesignInv'
<1> USE DEF DesignInv
<1>0. PICK x : x = request[e].tasks
  OBVIOUS
<1>1. PICK r \in RequestState : r = [request[e] EXCEPT !.at = "rewrite", !.tasks = NoTasks]
  BY DEF DesignTypeOK, RequestState, Position
<1>2. /\ Overtake(e, r) /\ flow.status # "none" /\ flow.text \in Design /\ request[e].at = "replace"
      /\ UNCHANGED <<versions, designing, strayed>>
  BY <1>1 DEF ReplaceTasks, StartedInv
<1>3. flow' = [flow EXCEPT !.tasks = x, !.text = flow.text] /\ flow'.tasks = x
  BY <1>0 DEF ReplaceTasks, DesignTypeOK
<1>4. x \in Design
  BY <1>0, <1>2 DEF RequestInv, Fit
<1>5. Fit(r) /\ Backed(r) /\ Unsettled(r)
  BY <1>1, <1>2 DEF DesignTypeOK, RequestState, RequestInv, Fit, Backed, Unsettled
<1>6. Carried(r)'
  BY <1>0, <1>1, <1>2, <1>3 DEF DesignTypeOK, RequestState, RequestInv, Carried, Last
<1> QED
  BY <1>1, <1>2, <1>3, <1>4, <1>5, <1>6, WriteMove

\* The second half brings the live texts there.
LEMMA RewriteTextKeeps ==
  ASSUME DesignInv, NEW e \in Party, RewriteText(e)
  PROVE  DesignInv'
<1> USE DEF DesignInv
<1>0. PICK x : x = request[e].text
  OBVIOUS
<1>1. PICK r \in RequestState : r = [request[e] EXCEPT !.at = "reread", !.text = NoTasks]
  BY DEF DesignTypeOK, RequestState, Position
<1>2. /\ Overtake(e, r) /\ flow.status # "none" /\ request[e].at = "rewrite"
      /\ flow.tasks \in Design \cup {NoTasks}
      /\ UNCHANGED <<versions, designing, strayed>>
  BY <1>1 DEF RewriteText, StartedInv, DesignTypeOK
<1>3. flow' = [flow EXCEPT !.tasks = flow.tasks, !.text = x] /\ flow'.text = x /\ flow'.tasks = flow.tasks
  BY <1>0 DEF RewriteText, DesignTypeOK
<1>4. x \in Design
  BY <1>0, <1>2 DEF RequestInv, Fit
<1>5. Fit(r) /\ Backed(r) /\ Unsettled(r)
  BY <1>1, <1>2 DEF DesignTypeOK, RequestState, RequestInv, Fit, Backed, Unsettled
<1>6. Carried(r)'
  BY <1>0, <1>1, <1>2, <1>3 DEF DesignTypeOK, RequestState, RequestInv, Carried, Last, InStep
<1> QED
  BY <1>1, <1>2, <1>3, <1>4, <1>5, <1>6, WriteMove

\* The version a request inserts is the live design it carried, if nobody overtook it.
LEMMA InsertVersionKeeps ==
  ASSUME DesignInv, NEW e \in Party, InsertVersion(e)
  PROVE  DesignInv'
<1> USE DEF DesignInv
<1>1. /\ request[e].at = "insert" /\ flow.status # "none" /\ UNCHANGED <<flow, designing, strayed>>
      /\ request[e].tasks \in Design /\ request[e].text \in Design /\ request[e] \in RequestState
  BY DEF InsertVersion, StartedInv, RequestInv, Fit, DesignTypeOK
<1>2. CASE request[e].number > Len(versions)
  <2>1. PICK v : v = [tasks |-> request[e].tasks, text |-> request[e].text]
    OBVIOUS
  <2>2. PICK r : r = [NoRequest EXCEPT !.at = "promote", !.raced = request[e].raced]
    OBVIOUS
  <2>3. versions' = Append(versions, v) /\ Overtake(e, r)
    BY <1>2, <2>1, <2>2 DEF InsertVersion
  <2>4. r \in RequestState
    BY <1>1, <2>2 DEF NoRequest, RequestState, Position, FlowStatus
  <2>5. Marked(e) /\ request'[e] = r
    BY <2>3, <2>4, Overtakes
  <2>6. versions' \in Seq([tasks : Design, text : Design]) /\ versions' # <<>> /\ Last' = v
    <3> DEFINE V == [tasks : Design, text : Design]
    <3>1. versions \in Seq(V) /\ v \in V
      BY <1>1, <2>1 DEF DesignTypeOK
    <3> HIDE DEF V
    <3>2. versions' \in Seq(V) /\ versions' # <<>> /\ versions'[Len(versions')] = v
      BY <2>3, <3>1, Appended
    <3> QED
      BY <3>2 DEF V, Last
  <2>7. DesignTypeOK'
    BY <1>1, <2>5, <2>6 DEF DesignTypeOK, Marked
  <2>8. StartedInv' /\ VersionInv'
    BY <1>1, <2>6 DEF StartedInv, VersionInv
  <2>9. ASSUME NEW f \in Party \ {e}
        PROVE  (Fit(request[f]) /\ Backed(request[f]) /\ Carried(request[f]))'
    <3>1. (Fit(request[f]) /\ Backed(request[f]))'
      BY <2>5, <2>6 DEF RequestInv, Marked, Fit, Backed
    <3>2. ~request'[f].raced => ~Exposed(request'[f])
      BY <2>5 DEF Marked, Exposed
    <3> QED
      BY <3>1, <3>2 DEF Carried, Exposed
  <2>10. (Fit(request[e]) /\ Backed(request[e]))'
    BY <2>2, <2>5, <2>6 DEF Fit, Backed, NoRequest
  <2>11. Carried(request[e])'
    <3>1. ~request[e].raced => v.tasks = flow.tasks /\ v.text = flow.text
      BY <1>1, <2>1 DEF RequestInv, Carried
    <3> QED
      BY <1>1, <2>2, <2>5, <2>6, <3>1 DEF Carried, InStep, NoRequest
  <2>12. SettledInv'
    BY <2>2, <2>5 DEF SettledInv, Unsettled, NoRequest
  <2> QED
    BY <2>7, <2>8, <2>9, <2>10, <2>11, <2>12 DEF RequestInv
<1>3. CASE ~(request[e].number > Len(versions))
  <2>1. Move(e, NoRequest) /\ UNCHANGED versions
    BY <1>3 DEF InsertVersion, End
  <2>2. Fit(NoRequest) /\ Backed(NoRequest) /\ Carried(NoRequest)
    BY DEF Fit, Backed, Carried, NoRequest
  <2>3. ~Unsettled(request[e])
    BY <1>1 DEF Unsettled
  <2> QED
    BY <1>1, <2>1, <2>2, <2>3, IdleTyped, QuietMove
<1> QED
  BY <1>2, <1>3

-----------------------------------------------------------------------------
(* The status. *)

\* Who was not unsettled leaves the others' say unchanged.
LEMMA StaysSettled ==
  ASSUME DesignInv, NEW e \in Party, request' = [request EXCEPT ![e] = NoRequest],
         ~Unsettled(request[e]), flow.status = "published", ~strayed,
         \A f \in Party : ~Unsettled(request'[f])
  PROVE  InStep
<1>1. \A f \in Party : ~Unsettled(request[f])
  BY DEF DesignInv, DesignTypeOK
<1> QED
  BY <1>1 DEF DesignInv, SettledInv

\* An edited workflow is not published.
LEMMA MarkDesignEditedKeeps ==
  ASSUME DesignInv, NEW e \in Party, MarkDesignEdited(e)
  PROVE  DesignInv'
<1> USE DEF DesignInv
<1>1. request[e].at = "mark" /\ flow.status # "none" /\ flow.status \in FlowStatus
  BY DEF MarkDesignEdited, StartedInv, DesignTypeOK
<1>2. PICK s \in FlowStatus \ {"none"} :
        /\ flow' = [flow EXCEPT !.status = s] /\ s # "published"
        /\ s = "modified" => flow.status \in {"published", "modified"}
  <2>1. CASE flow.status = "failed"
    BY <2>1 DEF MarkDesignEdited, FlowStatus
  <2>2. CASE flow.status = "published"
    BY <2>2 DEF MarkDesignEdited, FlowStatus
  <2>3. CASE flow.status \notin {"failed", "published"}
    BY <1>1, <2>3 DEF MarkDesignEdited
  <2> QED
    BY <2>1, <2>2, <2>3
<1>3. End(e) /\ UNCHANGED <<versions, designing>> /\ strayed' \in BOOLEAN
  BY DEF MarkDesignEdited, DesignTypeOK
<1>4. s \in {"published", "modified"} => versions # <<>>
  BY <1>2 DEF VersionInv
<1>5. /\ DesignTypeOK' /\ StartedInv' /\ VersionInv' /\ RequestInv'
      /\ flow'.status = s
  BY <1>1, <1>2, <1>3, <1>4, EndMove
<1> QED
  BY <1>2, <1>5 DEF SettledInv

\* A request that does not remember published has nothing to mark.
LEMMA MarkModifiedKeeps ==
  ASSUME DesignInv, NEW e \in Party, MarkModified(e)
  PROVE  DesignInv'
<1> USE DEF DesignInv
<1>1. /\ request[e].at = "set" /\ request[e].goal = "none"
      /\ flow.status # "none" /\ flow.status \in FlowStatus
      /\ End(e) /\ UNCHANGED <<versions, designing, strayed>> /\ strayed' \in BOOLEAN
  BY DEF MarkModified, StartedInv, DesignTypeOK
<1>2. CASE request[e].copy = "published"
  <2>1. flow' = [flow EXCEPT !.status = "modified"] /\ versions # <<>>
    BY <1>2 DEF MarkModified, RequestInv, Backed
  <2>2. "modified" \in FlowStatus \ {"none"}
    BY DEF FlowStatus
  <2>3. /\ DesignTypeOK' /\ StartedInv' /\ VersionInv' /\ RequestInv'
        /\ flow'.status = "modified"
    BY <1>1, <2>1, <2>2, EndMove
  <2> QED
    BY <2>3 DEF SettledInv
<1>3. CASE request[e].copy # "published"
  <2>1. flow' = [flow EXCEPT !.status = flow.status]
    BY <1>3 DEF MarkModified
  <2>2. flow.status \in {"published", "modified"} => versions # <<>>
    BY DEF VersionInv
  <2>3. /\ DesignTypeOK' /\ StartedInv' /\ VersionInv' /\ RequestInv'
        /\ flow'.status = flow.status /\ InStep' = InStep
        /\ request' = [request EXCEPT ![e] = NoRequest]
    BY <1>1, <2>1, <2>2, EndMove
  <2>4. ~Unsettled(request[e])
    BY <1>1, <1>3 DEF Unsettled
  <2>5. SettledInv'
    BY <1>1, <2>3, <2>4, StaysSettled DEF SettledInv, Unsettled
  <2> QED
    BY <2>3, <2>5
<1> QED
  BY <1>2, <1>3

\* Published is what the request inserted, unless it was overtaken.
LEMMA PromoteKeeps ==
  ASSUME DesignInv, NEW e \in Party, Promote(e)
  PROVE  DesignInv'
<1> USE DEF DesignInv
<1>1. /\ request[e].at = "promote" /\ flow.status # "none" /\ End(e)
      /\ UNCHANGED <<versions, designing>>
      /\ strayed' = request[e].raced /\ strayed' \in BOOLEAN
      /\ flow' = [flow EXCEPT !.status = "published"]
  BY DEF Promote, StartedInv, DesignTypeOK, RequestState
<1>2. "published" \in FlowStatus \ {"none"} /\ versions # <<>>
  BY <1>1 DEF FlowStatus, RequestInv, Backed
<1>3. DesignTypeOK' /\ StartedInv' /\ VersionInv' /\ RequestInv' /\ InStep' = InStep
  BY <1>1, <1>2, EndMove
<1>4. SettledInv'
  BY <1>1, <1>3 DEF SettledInv, RequestInv, Carried
<1> QED
  BY <1>3, <1>4

\* A write-back ends over the status it aims at.
LEMMA SetStatusKeeps ==
  ASSUME DesignInv, NEW e \in Party, SetStatus(e)
  PROVE  DesignInv'
<1> USE DEF DesignInv
<1>1. /\ request[e].at = "set" /\ request[e].goal \in FlowStatus \ {"none"}
      /\ flow.status \in FlowStatus \ {"none"}
      /\ End(e) /\ UNCHANGED <<versions, designing>> /\ strayed' \in BOOLEAN
      /\ request[e].goal \in {"published", "modified"} => versions # <<>>
  BY DEF SetStatus, StartedInv, DesignTypeOK, RequestState, RequestInv, Backed
<1>2. PICK s \in FlowStatus \ {"none"} :
        /\ flow' = [flow EXCEPT !.status = s]
        /\ s = IF request[e].goal = request[e].copy THEN flow.status ELSE request[e].goal
  BY <1>1 DEF SetStatus
<1>3. s \in {"published", "modified"} => versions # <<>>
  BY <1>1, <1>2 DEF VersionInv
<1>4. /\ DesignTypeOK' /\ StartedInv' /\ VersionInv' /\ RequestInv'
      /\ flow'.status = s /\ InStep' = InStep
      /\ request' = [request EXCEPT ![e] = NoRequest]
  BY <1>1, <1>2, <1>3, EndMove
<1>5. SettledInv'
  <2>1. CASE request[e].goal = "published"
    BY <1>1, <1>4, <2>1 DEF SetStatus, SettledInv, RequestInv, Carried
  <2>2. CASE request[e].goal # "published" /\ request[e].goal # request[e].copy
    BY <1>2, <1>4, <2>2 DEF SettledInv
  <2>3. CASE request[e].goal # "published" /\ request[e].goal = request[e].copy
    <3>1. ~Unsettled(request[e]) /\ s = flow.status /\ strayed' = strayed
      BY <1>1, <1>2, <2>3 DEF Unsettled, SetStatus
    <3> QED
      BY <1>4, <3>1, StaysSettled DEF SettledInv, Unsettled
  <2> QED
    BY <2>1, <2>2, <2>3
<1> QED
  BY <1>4, <1>5

\* A deactivated workflow is a draft.
LEMMA DeactivateKeeps ==
  ASSUME DesignInv, NEW e \in Party, Deactivate(e)
  PROVE  DesignInv'
<1> USE DEF DesignInv
<1>1. /\ flow.status # "none" /\ End(e) /\ UNCHANGED <<versions, designing, strayed>>
      /\ strayed' \in BOOLEAN /\ flow' = [flow EXCEPT !.status = "draft"]
  BY DEF Deactivate, StartedInv, DesignTypeOK
<1>2. "draft" \in FlowStatus \ {"none"}
  BY DEF FlowStatus
<1>3. /\ DesignTypeOK' /\ StartedInv' /\ VersionInv' /\ RequestInv'
      /\ flow'.status = "draft"
  BY <1>1, <1>2, EndMove
<1> QED
  BY <1>3 DEF SettledInv

\* A request cut between its writes leaves a trace, one cut before them leaves none.
LEMMA CutRequestKeeps ==
  ASSUME DesignInv, NEW e \in Party, CutRequest(e)
  PROVE  DesignInv'
<1> USE DEF DesignInv
<1>1. /\ request[e].at # "rest" /\ flow.status \in FlowStatus \ {"none"} /\ End(e)
      /\ UNCHANGED <<versions, designing, flow>>
  BY DEF CutRequest, StartedInv, DesignTypeOK
<1>2. strayed' \in BOOLEAN /\ (strayed => strayed')
  BY DEF CutRequest, DesignTypeOK, RequestState
<1>3. flow' = [flow EXCEPT !.status = flow.status]
  BY <1>1 DEF DesignTypeOK
<1>4. flow.status \in {"published", "modified"} => versions # <<>>
  BY DEF VersionInv
<1>5. /\ DesignTypeOK' /\ StartedInv' /\ VersionInv' /\ RequestInv' /\ InStep' = InStep
      /\ request' = [request EXCEPT ![e] = NoRequest]
  BY <1>1, <1>2, <1>3, <1>4, EndMove
<1>6. SettledInv'
  <2>1. CASE Unsettled(request[e])
    <3>1. ~strayed' => request[e].at = "promote" /\ ~request[e].raced
      BY <2>1 DEF Unsettled, CutRequest
    <3> QED
      BY <1>5, <3>1 DEF SettledInv, RequestInv, Carried
  <2>2. CASE ~Unsettled(request[e])
    BY <1>1, <1>2, <1>5, <2>2, StaysSettled DEF SettledInv, Unsettled
  <2> QED
    BY <2>1, <2>2
<1> QED
  BY <1>5, <1>6

-----------------------------------------------------------------------------
(* The first design. *)

\* Nobody holds anything of a workflow that is being created.
LEMMA CreateWorkflowKeeps ==
  ASSUME DesignInv, NEW x \in Design, CreateWorkflow(x)
  PROVE  DesignInv'
<1> USE DEF DesignInv
<1>1. \A e \in Party : request'[e] = request[e] /\ request[e].at = "rest" /\ request[e] \in RequestState
  BY DEF CreateWorkflow, StartedInv, DesignTypeOK
<1>2. flow'.status = "generating" /\ flow'.text = x /\ UNCHANGED <<versions, request, strayed>>
  BY DEF CreateWorkflow
<1>3. DesignTypeOK'
  BY DEF CreateWorkflow, DesignTypeOK, FlowStatus
<1>4. StartedInv' /\ VersionInv' /\ SettledInv'
  BY <1>2 DEF StartedInv, VersionInv, SettledInv
<1>5. RequestInv'
  BY <1>1, <1>2 DEF RequestInv, Fit, Backed, Carried
<1> QED
  BY <1>3, <1>4, <1>5

\* The job ends over a draft or a failure.
LEMMA EndDesignKeeps ==
  ASSUME DesignInv, NEW status \in {"draft", "failed"}, EndDesign(status)
  PROVE  DesignInv'
<1> USE DEF DesignInv
<1>1. flow.status # "none" /\ UNCHANGED <<versions, request, strayed>>
  BY DEF EndDesign, StartedInv
<1>2. flow'.status = status /\ flow'.tasks = flow.tasks /\ flow'.text = flow.text
  BY DEF EndDesign, DesignTypeOK
<1>3. DesignTypeOK'
  BY DEF EndDesign, DesignTypeOK, FlowStatus
<1>4. StartedInv' /\ VersionInv' /\ SettledInv'
  BY <1>1, <1>2 DEF StartedInv, VersionInv, SettledInv
<1>5. RequestInv'
  BY <1>1, <1>2 DEF RequestInv, Fit, Backed, Carried, InStep, Last
<1> QED
  BY <1>3, <1>4, <1>5

\* Only the job moves.
LEMMA JobKeeps ==
  ASSUME DesignInv, CheckDesign \/ DesignDies
  PROVE  DesignInv'
<1> USE DEF DesignInv
<1>1. UNCHANGED <<flow, versions, request, strayed>> /\ flow.status # "none"
      /\ designing' \in {"checked", "over"}
  BY DEF CheckDesign, DesignDies, StartedInv
<1>2. DesignTypeOK' /\ StartedInv' /\ VersionInv' /\ SettledInv'
  BY <1>1 DEF DesignTypeOK, StartedInv, VersionInv, SettledInv, InStep, Last
<1>3. RequestInv'
  BY <1>1 DEF RequestInv, Fit, Backed, Carried, InStep, Last
<1> QED
  BY <1>2, <1>3

-----------------------------------------------------------------------------
\* Before the workflow is created nothing is claimed.
LEMMA DesignStarts == DesignInit => DesignInv
<1> SUFFICES ASSUME DesignInit PROVE DesignInv
  OBVIOUS
<1>1. DesignTypeOK
  <2>1. versions \in Seq([tasks : Design, text : Design])
    BY DEF DesignInit
  <2>2. request \in [Party -> RequestState]
    BY IdleTyped DEF DesignInit
  <2> QED
    BY <2>1, <2>2 DEF DesignInit, DesignTypeOK, FlowStatus
<1>2. \A e \in Party : request[e] = NoRequest
  BY DEF DesignInit
<1>3. StartedInv /\ VersionInv /\ SettledInv
  BY <1>2 DEF DesignInit, StartedInv, VersionInv, SettledInv, NoRequest
<1>4. RequestInv
  BY <1>2 DEF RequestInv, Fit, Backed, Carried, NoRequest
<1> QED
  BY <1>1, <1>3, <1>4 DEF DesignInv

\* Every step keeps the invariant.
LEMMA DesignKeeps == DesignInv /\ [DesignNext]_designVars => DesignInv'
<1> SUFFICES ASSUME DesignInv, [DesignNext]_designVars PROVE DesignInv'
  OBVIOUS
<1>1. CASE \E x \in Design : CreateWorkflow(x)
  BY <1>1, CreateWorkflowKeeps
<1>2. CASE CheckDesign \/ DesignDies
  BY <1>2, JobKeeps
<1>3. CASE \E status \in {"draft", "failed"} : EndDesign(status)
  BY <1>3, EndDesignKeeps
<1>4. ASSUME NEW e \in Party,
             \/ \E x \in Design \cup {NoTasks} : WriteTasks(e, x)
             \/ \E x \in Design : WriteText(e, x)
      PROVE  DesignInv'
  BY <1>4, WriteTasksKeeps, WriteTextKeeps
<1>5. ASSUME NEW e \in Party,
             BeginPublish(e) \/ BeginDiscard(e) \/ BeginRestore(e) \/ BeginDeactivate(e)
      PROVE  DesignInv'
  BY <1>5, BeginPublishKeeps, BeginDiscardKeeps, BeginRestoreKeeps, BeginDeactivateKeeps
<1>6. ASSUME NEW e \in Party,
             RefreshRow(e) \/ ListTemplates(e) \/ NumberVersion(e) \/ FindLatest(e)
             \/ \E n \in DOMAIN versions : FindVersion(e, n)
      PROVE  DesignInv'
  BY <1>6, RefreshRowKeeps, ListTemplatesKeeps, NumberVersionKeeps, FindLatestKeeps, FindVersionKeeps
<1>7. ASSUME NEW e \in Party,
             InsertVersion(e) \/ ReplaceTasks(e) \/ RewriteText(e)
      PROVE  DesignInv'
  BY <1>7, InsertVersionKeeps, ReplaceTasksKeeps, RewriteTextKeeps
<1>8. ASSUME NEW e \in Party,
             \/ MarkDesignEdited(e) \/ MarkModified(e) \/ Promote(e)
             \/ SetStatus(e) \/ Deactivate(e) \/ CutRequest(e)
      PROVE  DesignInv'
  BY <1>8, MarkDesignEditedKeeps, MarkModifiedKeeps, PromoteKeeps, SetStatusKeeps, DeactivateKeeps,
     CutRequestKeeps
<1>9. CASE UNCHANGED designVars
  BY <1>9 DEF designVars, DesignInv, DesignTypeOK, StartedInv, VersionInv, RequestInv, SettledInv,
     Fit, Backed, Carried, InStep, Last, Unsettled
<1>10. Editor \subseteq Party /\ Curator \subseteq Party
  BY DEF Party
<1> QED
  BY <1>1, <1>2, <1>3, <1>4, <1>5, <1>6, <1>7, <1>8, <1>9, <1>10 DEF DesignNext

\* What the invariant says of a published workflow's live design.
LEMMA InvPublished == DesignInv => RunsArePublished
<1> SUFFICES ASSUME DesignInv PROVE RunsArePublished
  OBVIOUS
<1> USE DEF DesignInv
<1>1. flow.status \in {"published", "modified"} => versions # <<>>
  BY DEF VersionInv
<1>2. ASSUME flow.status = "published", ~strayed, \A e \in Party : ~Midway(e)
      PROVE  [tasks |-> flow.tasks, text |-> flow.text] = versions[Len(versions)]
  <2>1. \A e \in Party : ~Unsettled(request[e])
    BY <1>2 DEF Midway, Unsettled
  <2>2. flow.tasks = Last.tasks /\ flow.text = Last.text
    BY <1>2, <2>1 DEF SettledInv, InStep
  <2>3. Last \in [tasks : Design, text : Design]
    <3> DEFINE V == [tasks : Design, text : Design]
    <3>1. versions \in Seq(V) /\ versions # <<>>
      BY <1>1, <1>2 DEF DesignTypeOK
    <3> HIDE DEF V
    <3>2. Len(versions) \in 1..Len(versions)
      BY <3>1
    <3>3. Last \in V
      BY <3>1, <3>2, Elements DEF Last
    <3> QED
      BY <3>3 DEF V
  <2>4. Last = [tasks |-> Last.tasks, text |-> Last.text]
    BY <2>3
  <2> QED
    BY <2>2, <2>4 DEF Last
<1> QED
  BY <1>1, <1>2 DEF RunsArePublished

-----------------------------------------------------------------------------
\* The status, the versions and what each request holds keep their types, whatever
\* is edited, published, discarded, restored or deactivated at once.
THEOREM DesignTypeCorrect == DesignSpec => []DesignTypeOK
<1>1. DesignInv => DesignTypeOK
  BY DEF DesignInv
<1> QED
  BY <1>1, DesignStarts, DesignKeeps, PTL DEF DesignSpec

\* A published or modified workflow has a version, and a published one is its latest
\* version unless a request was overtaken or cut: what a run copies was published.
THEOREM RunsWerePublished == DesignSpec => []RunsArePublished
  BY DesignStarts, DesignKeeps, InvPublished, PTL DEF DesignSpec

=============================================================================
