-------------------------- MODULE TaskGraphProofs --------------------------
(***************************************************************************)
(* Proofs about TaskGraph: checked edits never close a cycle, and a run    *)
(* keeps the dependencies of the design it copies.                         *)
(***************************************************************************)
EXTENDS TaskGraph, TLAPS

-----------------------------------------------------------------------------
(* Graphs. *)

\* A template that depends on none needs no looking at.
LEMMA AcyclicEverywhere ==
  ASSUME NEW E
  PROVE  Acyclic(E) <=>
           \A S \in SUBSET Template : S # {} => \E t \in S : DependsOn(E, t) \cap S = {}
<1> DEFINE D == {e[1] : e \in E \cap Edges}
<1>1. D \in SUBSET Template
  BY DEF Edges
<1>2. ASSUME NEW t \in Template, t \notin D
      PROVE  DependsOn(E, t) = {}
  <2>1. ASSUME NEW d \in Template, <<t, d>> \in E
        PROVE  FALSE
    <3>1. <<t, d>> \in E \cap Edges /\ <<t, d>>[1] = t
      BY <2>1 DEF Edges
    <3> QED
      BY <1>2, <3>1
  <2> QED
    BY <2>1 DEF DependsOn
<1>3. ASSUME Acyclic(E), NEW S \in SUBSET Template, S # {}
      PROVE  \E t \in S : DependsOn(E, t) \cap S = {}
  <2>1. CASE S \in SUBSET D
    BY <1>3, <2>1 DEF Acyclic
  <2>2. CASE S \notin SUBSET D
    <3>1. PICK t \in S : t \notin D
      BY <2>2
    <3> QED
      BY <1>2, <3>1
  <2> QED
    BY <2>1, <2>2
<1> QED
  BY <1>1, <1>3 DEF Acyclic

\* Removing edges leaves a graph acyclic: deletions and replacements.
LEMMA AcyclicSubset ==
  ASSUME NEW E, NEW F, F \subseteq E, Acyclic(E)
  PROVE  Acyclic(F)
<1> SUFFICES ASSUME NEW S \in SUBSET Template, S # {}
             PROVE  \E t \in S : DependsOn(F, t) \cap S = {}
  BY AcyclicEverywhere
<1>1. PICK t \in S : DependsOn(E, t) \cap S = {}
  BY AcyclicEverywhere
<1>2. DependsOn(F, t) \subseteq DependsOn(E, t)
  BY DEF DependsOn
<1> QED
  BY <1>1, <1>2

\* Removing edges reaches nothing new: a check that passed stays passed.
LEMMA ReachesSubset ==
  ASSUME NEW E, NEW F, F \subseteq E,
         NEW d \in Template, NEW t \in Template, ~Reaches(E, d, t)
  PROVE  ~Reaches(F, d, t)
<1>1. PICK S \in SUBSET Template : DependsOn(E, d) \subseteq S /\ ClosedUnder(E, S) /\ t \notin S
  BY DEF Reaches
<1>2. \A u \in Template : DependsOn(F, u) \subseteq DependsOn(E, u)
  BY DEF DependsOn
<1>3. DependsOn(F, d) \subseteq S /\ ClosedUnder(F, S)
  BY <1>1, <1>2 DEF ClosedUnder
<1> QED
  BY <1>1, <1>3 DEF Reaches

\* A template nothing depends on is reached from nowhere.
LEMMA SourceUnreached ==
  ASSUME NEW E, NEW d \in Template, NEW t \in Template,
         \A s \in Template : <<s, t>> \notin E
  PROVE  ~Reaches(E, d, t)
<1> DEFINE S == Template \ {t}
<1>1. \A s \in Template : DependsOn(E, s) \subseteq S
  BY DEF DependsOn
<1>2. S \in SUBSET Template /\ DependsOn(E, d) \subseteq S /\ ClosedUnder(E, S) /\ t \notin S
  BY <1>1 DEF ClosedUnder
<1> QED
  BY <1>2 DEF Reaches

\* What the check of _validate_dependencies is for: dependencies that do not lead
\* back to t close no cycle.
LEMMA CheckedEdgesKeepAcyclic ==
  ASSUME NEW E, Acyclic(E), NEW t \in Template, NEW D \in SUBSET Template,
         \A d \in D : d # t /\ ~Reaches(E, d, t)
  PROVE  Acyclic(E \cup ({t} \X D))
<1> DEFINE F == E \cup ({t} \X D)
<1> SUFFICES ASSUME NEW S \in SUBSET Template, S # {},
                    \A s \in S : DependsOn(F, s) \cap S # {}
             PROVE  FALSE
  BY AcyclicEverywhere
<1>0. /\ \A s \in Template : s # t => DependsOn(F, s) = DependsOn(E, s)
      /\ DependsOn(F, t) = DependsOn(E, t) \cup D
  BY DEF DependsOn
<1>1. PICK s0 \in S : DependsOn(E, s0) \cap S = {}
  BY AcyclicEverywhere
<1>2. s0 = t
  BY <1>0, <1>1
<1>3. PICK d \in D : d \in S
  BY <1>0, <1>1, <1>2
<1>4. PICK R \in SUBSET Template : DependsOn(E, d) \subseteq R /\ ClosedUnder(E, R) /\ t \notin R
  BY DEF Reaches
<1> DEFINE T == S \cap (R \cup {d})
<1>5. T \in SUBSET Template /\ T # {} /\ t \notin T
  BY <1>3, <1>4
<1>6. \A s \in T : DependsOn(E, s) \subseteq R
  BY <1>4 DEF ClosedUnder
<1>7. \A s \in T : DependsOn(E, s) \cap T # {}
  BY <1>0, <1>5, <1>6
<1> QED
  BY <1>5, <1>7, AcyclicEverywhere

\* A new template leads nowhere it could be reached from.
LEMMA NewTemplateKeepsAcyclic ==
  ASSUME NEW E, Acyclic(E), NEW t \in Template, NEW D \in SUBSET Template, t \notin D,
         \A s \in Template : <<s, t>> \notin E
  PROVE  Acyclic(E \cup ({t} \X D))
BY SourceUnreached, CheckedEdgesKeepAcyclic

\* A new template leads no other edit's check back to its template.
LEMMA NewTemplateKeepsChecks ==
  ASSUME NEW E, NEW t \in Template, NEW D \in SUBSET Template, t \notin D,
         \A s \in Template : <<s, t>> \notin E,
         NEW d \in Template, d # t, NEW u \in Template, ~Reaches(E, d, u)
  PROVE  ~Reaches(E \cup ({t} \X D), d, u)
<1> DEFINE F == E \cup ({t} \X D)
<1>1. PICK S \in SUBSET Template : DependsOn(E, d) \subseteq S /\ ClosedUnder(E, S) /\ u \notin S
  BY DEF Reaches
<1> DEFINE R == S \ {t}
<1>2. \A s \in Template : t \notin DependsOn(E, s)
  BY DEF DependsOn
<1>3. \A s \in Template : s # t => DependsOn(F, s) = DependsOn(E, s)
  BY DEF DependsOn
<1>4. R \in SUBSET Template /\ DependsOn(F, d) \subseteq R /\ ClosedUnder(F, R) /\ u \notin R
  BY <1>1, <1>2, <1>3 DEF ClosedUnder
<1> QED
  BY <1>4 DEF Reaches

\* Two graphs of which one never leads to the other have no cycle across them: the
\* templates that survive a restore, and those restored.
LEMMA ApartKeepAcyclic ==
  ASSUME NEW E, NEW F, Acyclic(E), Acyclic(F), NEW N \in SUBSET Template,
         \A s, d \in Template : <<s, d>> \in E => s \in N /\ d \in N,
         \A s, d \in Template : <<s, d>> \in F => s \notin N
  PROVE  Acyclic(E \cup F)
<1> SUFFICES ASSUME NEW S \in SUBSET Template, S # {},
                    \A s \in S : DependsOn(E \cup F, s) \cap S # {}
             PROVE  FALSE
  BY AcyclicEverywhere
<1>1. \A s \in Template : DependsOn(E \cup F, s) = DependsOn(E, s) \cup DependsOn(F, s)
  BY DEF DependsOn
<1>2. \A s \in Template : /\ s \in N => DependsOn(F, s) = {} /\ DependsOn(E, s) \subseteq N
                          /\ s \notin N => DependsOn(E, s) = {}
  BY DEF DependsOn
<1>3. CASE S \cap N = {}
  <2>1. \A s \in S : DependsOn(F, s) \cap S # {}
    BY <1>1, <1>2, <1>3
  <2> QED
    BY <2>1, AcyclicEverywhere
<1>4. CASE S \cap N # {}
  <2>1. \A s \in S \cap N : DependsOn(E, s) \cap (S \cap N) # {}
    <3> SUFFICES ASSUME NEW s \in S \cap N
                 PROVE  DependsOn(E, s) \cap (S \cap N) # {}
      OBVIOUS
    <3>1. DependsOn(E \cup F, s) = DependsOn(E, s) /\ DependsOn(E, s) \subseteq N
      BY <1>1, <1>2
    <3> QED
      BY <3>1
  <2>2. S \cap N \in SUBSET Template
    OBVIOUS
  <2> QED
    BY <2>1, <2>2, <1>4, AcyclicEverywhere
<1> QED
  BY <1>3, <1>4

\* A design without a cycle is ordered to its last template.
LEMMA AcyclicUnknotted ==
  ASSUME NEW g \in Graphs, Acyclic(g.edges)
  PROVE  Knotted(g) = {}
<1> SUFFICES ASSUME NEW S \in SUBSET g.nodes, \A t \in S : DependsOn(g.edges, t) \cap S # {}
             PROVE  S = {}
  BY DEF Knotted
<1>1. S \in SUBSET Template
  BY DEF Graphs
<1> QED
  BY <1>1, AcyclicEverywhere

-----------------------------------------------------------------------------
(* The invariant. *)

\* Dependencies are between templates there are; a version's leave its own.
EdgesHaveEnds ==
  /\ \A s, d \in Template : <<s, d>> \in graph.edges => s \in graph.nodes /\ d \in graph.nodes
  /\ \A s, d \in Template : <<s, d>> \in saved.edges => s \in saved.nodes

\* An edit that nothing overtook may still be written.
ChecksHold ==
  \A a \in Author : edit[a] # NoEdit =>
    /\ edit[a].task \in Template /\ edit[a].task \notin edit[a].deps
    /\ ~edit[a].stale => \A d \in edit[a].deps : ~Reaches(graph.edges, d, edit[a].task)

\* What a discard does not delete is not what it restores.
DiscardsWhole ==
  listing.goal = "discard" => (graph.nodes \ listing.nodes) \cap saved.nodes = {}

\* The tasks copied so far, and their dependencies.
CopyInOrder ==
  /\ \A s, d \in Template : <<s, d>> \in run.design.edges => s \in run.design.nodes
  /\ Acyclic(run.design.edges \ run.design.blind)
  /\ run.tasks \subseteq run.design.nodes
  /\ run.at = "started" => run.tasks = run.design.nodes
  /\ run.deps \subseteq run.design.edges
  /\ \A s, d \in Template : <<s, d>> \in run.deps => s \in run.tasks /\ d \in run.tasks
  /\ \A t \in run.tasks \ Knotted(run.design) :
       DependsOn(run.design.edges, t) \cap run.design.nodes \subseteq DependsOn(run.deps, t)
  /\ Acyclic(run.deps)

GraphInv ==
  /\ GraphTypeOK
  /\ EdgesHaveEnds
  /\ NoCycleUnlessBlind
  /\ ChecksHold
  /\ DiscardsWhole
  /\ CopyInOrder

LEMMA InitGraphInv == GraphInit => GraphInv
<1> SUFFICES ASSUME GraphInit PROVE GraphInv
  OBVIOUS
<1> USE DEF GraphInit, EmptyGraph
<1>1. GraphTypeOK
  BY DEF GraphTypeOK, Graphs, Edges, Edits, NoEdit, NoListing
<1>2. Acyclic({})
  BY AcyclicEverywhere DEF DependsOn
<1>3. NoCycleUnlessBlind
  BY <1>2 DEF NoCycleUnlessBlind
<1>4. CopyInOrder
  BY <1>2 DEF CopyInOrder
<1>5. EdgesHaveEnds /\ ChecksHold /\ DiscardsWhole
  BY DEF EdgesHaveEnds, ChecksHold, DiscardsWhole, NoListing
<1> QED
  BY <1>1, <1>3, <1>4, <1>5 DEF GraphInv

\* What one part of the state leaves alone.
LEMMA SameRun == GraphInv /\ run' = run => CopyInOrder'
BY DEF GraphInv, CopyInOrder

LEMMA SameGraph ==
  GraphInv /\ graph' = graph /\ saved' = saved => EdgesHaveEnds' /\ NoCycleUnlessBlind'
BY DEF GraphInv, EdgesHaveEnds, NoCycleUnlessBlind

LEMMA CreateKeepsInv ==
  ASSUME GraphInv, NEW t \in Template, NEW deps \in SUBSET Template, CreateTemplate(t, deps)
  PROVE  GraphInv'
<1> USE DEF GraphInv, GraphTypeOK
<1>1. GraphTypeOK'
  BY DEF CreateTemplate, Graphs, Edges
<1>2. /\ \A s \in Template : <<s, t>> \notin graph.edges
      /\ t \notin deps
  BY DEF CreateTemplate, Fresh, EdgesHaveEnds
<1>3. /\ graph'.edges = graph.edges \cup ({t} \X deps)
      /\ graph'.nodes = graph.nodes \cup {t}
      /\ graph'.blind = graph.blind
      /\ saved' = saved /\ edit' = edit /\ listing' = listing
  BY DEF CreateTemplate, Graphs
<1>4. EdgesHaveEnds'
  BY <1>3 DEF EdgesHaveEnds, CreateTemplate
<1>5. NoCycleUnlessBlind'
  <2>1. Acyclic((graph.edges \ graph.blind) \cup ({t} \X deps))
    BY <1>2, NewTemplateKeepsAcyclic DEF NoCycleUnlessBlind
  <2>2. graph'.edges \ graph'.blind \subseteq (graph.edges \ graph.blind) \cup ({t} \X deps)
    BY <1>3
  <2>3. Acyclic(graph'.edges \ graph'.blind)
    BY <2>1, <2>2, AcyclicSubset
  <2> QED
    BY <2>3, <1>3 DEF NoCycleUnlessBlind
<1>6. ChecksHold'
  <2>1. ASSUME NEW a \in Author, edit[a] # NoEdit, ~edit[a].stale, NEW d \in edit[a].deps
        PROVE  ~Reaches(graph'.edges, d, edit[a].task)
    <3>1. d \in Template /\ d # t /\ edit[a].task \in Template
      BY <2>1 DEF CreateTemplate, Fresh, Edits, ChecksHold
    <3>2. ~Reaches(graph.edges, d, edit[a].task)
      BY <2>1 DEF ChecksHold
    <3>3. ~Reaches(graph.edges \cup ({t} \X deps), d, edit[a].task)
      BY <1>2, <3>1, <3>2, NewTemplateKeepsChecks
    <3> QED
      BY <3>3, <1>3
  <2> QED
    BY <2>1, <1>3 DEF ChecksHold
<1>7. DiscardsWhole'
  BY <1>3 DEF CreateTemplate, Fresh, DiscardsWhole
<1>8. CopyInOrder'
  BY SameRun DEF CreateTemplate
<1> QED
  BY <1>1, <1>4, <1>5, <1>6, <1>7, <1>8

LEMMA CheckKeepsInv ==
  ASSUME GraphInv, NEW a \in Author, NEW t \in Template, NEW deps \in SUBSET Template,
         CheckDependencies(a, t, deps)
  PROVE  GraphInv'
<1> USE DEF GraphInv, GraphTypeOK
<1>1. GraphTypeOK'
  BY DEF CheckDependencies, Edits, DependsOn
<1>2. EdgesHaveEnds' /\ NoCycleUnlessBlind'
  BY SameGraph DEF CheckDependencies
<1>3. ChecksHold'
  <2> SUFFICES ASSUME NEW b \in Author, edit'[b] # NoEdit
               PROVE  /\ edit'[b].task \in Template /\ edit'[b].task \notin edit'[b].deps
                      /\ ~edit'[b].stale =>
                           \A d \in edit'[b].deps : ~Reaches(graph.edges, d, edit'[b].task)
    BY DEF ChecksHold, CheckDependencies
  <2>1. CASE b = a
    BY <2>1 DEF CheckDependencies
  <2>2. CASE b # a
    BY <2>2 DEF CheckDependencies, ChecksHold
  <2> QED
    BY <2>1, <2>2
<1>4. DiscardsWhole'
  BY DEF CheckDependencies, DiscardsWhole
<1>5. CopyInOrder'
  BY SameRun DEF CheckDependencies
<1> QED
  BY <1>1, <1>2, <1>3, <1>4, <1>5

\* Without some templates: fewer edges, all between the others.
LEMMA WithoutShrinks ==
  ASSUME NEW g \in Graphs, NEW N \in SUBSET Template
  PROVE  /\ Without(g, N) \in Graphs
         /\ Without(g, N).nodes = g.nodes \ N
         /\ Without(g, N).edges \subseteq g.edges
         /\ \A s, d \in Template : <<s, d>> \in Without(g, N).edges =>
              s \in g.nodes \ N /\ d \in g.nodes \ N
         /\ Without(g, N).edges \ Without(g, N).blind \subseteq g.edges \ g.blind
BY DEF Without, Within, Graphs, Edges

\* An edit of another that ends leaves a's check as it was, or overtakes it.
SameEdits == \A b \in Author : edit'[b] # NoEdit =>
  /\ edit[b] # NoEdit
  /\ edit'[b].task = edit[b].task /\ edit'[b].deps = edit[b].deps
  /\ edit[b].stale => edit'[b].stale

LEMMA ConcludeKeepsEdits ==
  ASSUME GraphTypeOK, NEW a \in Author, NEW overtakes \in BOOLEAN, Conclude(a, overtakes)
  PROVE  /\ edit' \in [Author -> Edits]
         /\ SameEdits
         /\ overtakes => \A b \in Author : edit'[b] # NoEdit => edit'[b].stale
<1>1. NoEdit \in Edits
  BY DEF NoEdit, Edits
<1>2. \A b \in Author : edit[b] \in Edits
  BY DEF GraphTypeOK
<1>3. \A r \in Edits : /\ [r EXCEPT !.stale = TRUE] \in Edits
                       /\ [r EXCEPT !.stale = TRUE].task = r.task
                       /\ [r EXCEPT !.stale = TRUE].deps = r.deps
                       /\ [r EXCEPT !.stale = TRUE].stale = TRUE
  BY DEF Edits
<1>4. /\ edit' = [b \in Author |-> edit'[b]]
      /\ \A b \in Author :
           \/ edit'[b] = NoEdit
           \/ edit[b] # NoEdit /\ edit'[b] = edit[b] /\ ~overtakes
           \/ edit[b] # NoEdit /\ edit'[b] = [edit[b] EXCEPT !.stale = TRUE]
  <2>1. CASE overtakes
    BY <2>1 DEF Conclude
  <2>2. CASE ~overtakes
    BY <2>2 DEF Conclude
  <2> QED
    BY <2>1, <2>2
<1>5. \A b \in Author : edit'[b] \in Edits
  BY <1>1, <1>2, <1>3, <1>4
<1>6. ASSUME NEW b \in Author, edit'[b] # NoEdit
      PROVE  /\ edit[b] # NoEdit
             /\ edit'[b].task = edit[b].task /\ edit'[b].deps = edit[b].deps
             /\ edit[b].stale => edit'[b].stale
  <2>1. edit[b] # NoEdit /\ edit[b] \in Edits
    BY <1>2, <1>4, <1>6
  <2>2. CASE edit'[b] = edit[b]
    BY <2>1, <2>2
  <2>3. CASE edit'[b] = [edit[b] EXCEPT !.stale = TRUE]
    BY <1>3, <2>1, <2>3
  <2> QED
    BY <1>4, <1>6, <2>2, <2>3
<1>7. ASSUME overtakes, NEW b \in Author, edit'[b] # NoEdit
      PROVE  edit'[b].stale
  BY <1>2, <1>3, <1>4, <1>7
<1> QED
  BY <1>4, <1>5, <1>6, <1>7 DEF SameEdits

LEMMA FewerEdgesKeepChecks ==
  ASSUME GraphTypeOK, ChecksHold, SameEdits, graph'.edges \subseteq graph.edges
  PROVE  ChecksHold'
<1>1. ASSUME NEW b \in Author, edit'[b] # NoEdit
      PROVE  /\ edit'[b].task \in Template /\ edit'[b].task \notin edit'[b].deps
             /\ ~edit'[b].stale => \A d \in edit'[b].deps : ~Reaches(graph'.edges, d, edit'[b].task)
  <2>1. /\ edit[b] # NoEdit /\ edit'[b].task = edit[b].task /\ edit'[b].deps = edit[b].deps
        /\ edit[b].stale => edit'[b].stale
    BY <1>1 DEF SameEdits
  <2>2. /\ edit[b].task \in Template /\ edit[b].task \notin edit[b].deps
        /\ ~edit[b].stale => \A d \in edit[b].deps : ~Reaches(graph.edges, d, edit[b].task)
    BY <2>1 DEF ChecksHold
  <2>3. edit[b].deps \in SUBSET Template
    BY DEF GraphTypeOK, Edits
  <2>4. ASSUME NEW d \in edit[b].deps, ~Reaches(graph.edges, d, edit[b].task)
        PROVE  ~Reaches(graph'.edges, d, edit[b].task)
    BY <2>2, <2>3, <2>4, ReachesSubset
  <2> QED
    BY <2>1, <2>2, <2>4
<1> QED
  BY <1>1 DEF ChecksHold

LEMMA WriteKeepsInv ==
  ASSUME GraphInv, NEW a \in Author, WriteDependencies(a)
  PROVE  GraphInv'
<1> DEFINE e == edit[a]
           added == {e.task} \X (e.deps \ e.old)
           removed == {e.task} \X (e.old \ e.deps)
           refused == \/ added \cap graph.edges # {}
                      \/ added # {} /\ ~ ({e.task} \cup (e.deps \ e.old) \subseteq graph.nodes)
           overtakes == added # {} /\ ~refused
<1> USE DEF GraphInv, GraphTypeOK
<1>1. /\ e \in Edits /\ e # NoEdit /\ e.task \in Template /\ e.task \notin e.deps
      /\ e.deps \in SUBSET Template /\ e.old \in SUBSET Template
      /\ ~e.stale => \A d \in e.deps : ~Reaches(graph.edges, d, e.task)
  BY DEF WriteDependencies, ChecksHold, Edits
<1>2. UNCHANGED <<saved, listing, run>>
  BY DEF WriteDependencies
<1>3. Conclude(a, overtakes) /\ overtakes \in BOOLEAN
  BY DEF WriteDependencies
<1>4. /\ edit' \in [Author -> Edits]
      /\ SameEdits
      /\ overtakes => \A b \in Author : edit'[b] # NoEdit => edit'[b].stale
  BY <1>3, ConcludeKeepsEdits
<1>5. DiscardsWhole' /\ CopyInOrder'
  <2>1. graph'.nodes = graph.nodes
    BY DEF WriteDependencies, Graphs
  <2> QED
    BY <1>2, <2>1, SameRun DEF DiscardsWhole
<1>6. CASE refused
  <2>1. graph' = graph
    BY <1>6 DEF WriteDependencies
  <2>2. EdgesHaveEnds' /\ NoCycleUnlessBlind'
    BY <1>2, <2>1, SameGraph
  <2>3. ChecksHold'
    BY <1>4, <2>1, FewerEdgesKeepChecks
  <2> QED
    BY <1>2, <1>4, <1>5, <2>1, <2>2, <2>3
<1>7. CASE ~refused
  <2>1. /\ graph'.nodes = graph.nodes
        /\ graph'.edges = (graph.edges \ removed) \cup added
        /\ graph'.blind = IF e.stale THEN (graph.blind \ removed) \cup added
                          ELSE graph.blind \ removed
    BY <1>7 DEF WriteDependencies, Graphs
  <2>2. GraphTypeOK'
    <3>1. added \in SUBSET Edges
      BY <1>1 DEF Edges
    <3>2. graph' = [nodes |-> graph'.nodes, edges |-> graph'.edges, blind |-> graph'.blind]
      BY <1>7 DEF WriteDependencies, Graphs
    <3>3. /\ graph'.nodes \in SUBSET Template
          /\ graph'.edges \in SUBSET Edges /\ graph'.blind \in SUBSET Edges
      BY <2>1, <3>1 DEF Graphs
    <3>4. graph' \in Graphs
      BY <3>2, <3>3 DEF Graphs
    <3> QED
      BY <1>2, <1>4, <3>4
  <2>3. EdgesHaveEnds'
    BY <1>2, <1>7, <2>1 DEF EdgesHaveEnds
  <2>4. Acyclic(graph'.edges \ graph'.blind)
    <3> DEFINE E == graph.edges \ graph.blind
    <3>1. Acyclic(E)
      BY DEF NoCycleUnlessBlind
    <3>2. CASE e.stale
      BY <2>1, <3>1, <3>2, AcyclicSubset
    <3>3. CASE ~e.stale
      <4>1. \A d \in e.deps \ e.old : d # e.task /\ ~Reaches(graph.edges, d, e.task)
        BY <1>1, <3>3
      <4>2. \A d \in e.deps \ e.old : ~Reaches(E, d, e.task)
        BY <1>1, <4>1, ReachesSubset
      <4>3. Acyclic(E \cup added)
        BY <1>1, <3>1, <4>1, <4>2, CheckedEdgesKeepAcyclic
      <4>4. graph'.edges \ graph'.blind \subseteq E \cup added
        BY <2>1, <3>3
      <4> QED
        BY <4>3, <4>4, AcyclicSubset
    <3> QED
      BY <3>2, <3>3
  <2>5. ChecksHold'
    <3>1. CASE overtakes
      <4>1. \A b \in Author : edit'[b] # NoEdit =>
              /\ edit'[b].task \in Template /\ edit'[b].task \notin edit'[b].deps
        BY <1>4 DEF SameEdits, ChecksHold
      <4> QED
        BY <1>4, <3>1, <4>1 DEF ChecksHold
    <3>2. CASE ~overtakes
      <4>1. graph'.edges \subseteq graph.edges
        BY <1>7, <2>1, <3>2
      <4> QED
        BY <1>4, <4>1, FewerEdgesKeepChecks
    <3> QED
      BY <3>1, <3>2
  <2> QED
    BY <1>2, <1>5, <2>2, <2>3, <2>4, <2>5 DEF NoCycleUnlessBlind
<1> QED
  BY <1>6, <1>7

LEMMA DeleteKeepsInv ==
  ASSUME GraphInv, NEW t \in Template, DeleteTemplate(t)
  PROVE  GraphInv'
<1> USE DEF GraphInv, GraphTypeOK
<1>1. /\ graph' = Without(graph, {t})
      /\ UNCHANGED <<saved, edit, listing, run>>
  BY DEF DeleteTemplate
<1>2. /\ graph' \in Graphs
      /\ graph'.nodes = graph.nodes \ {t}
      /\ graph'.edges \subseteq graph.edges
      /\ \A s, d \in Template : <<s, d>> \in graph'.edges =>
           s \in graph'.nodes /\ d \in graph'.nodes
      /\ graph'.edges \ graph'.blind \subseteq graph.edges \ graph.blind
  BY <1>1, WithoutShrinks
<1>3. EdgesHaveEnds'
  BY <1>1, <1>2 DEF EdgesHaveEnds
<1>4. NoCycleUnlessBlind'
  <2>1. Acyclic(graph.edges \ graph.blind) /\ Acyclic(saved.edges \ saved.blind)
    BY DEF NoCycleUnlessBlind
  <2>2. Acyclic(graph'.edges \ graph'.blind)
    BY <1>2, <2>1, AcyclicSubset
  <2> QED
    BY <1>1, <2>1, <2>2 DEF NoCycleUnlessBlind
<1>5. ChecksHold'
  BY <1>1, <1>2, FewerEdgesKeepChecks DEF SameEdits
<1>6. DiscardsWhole' /\ CopyInOrder'
  BY <1>1, <1>2, SameRun DEF DiscardsWhole
<1> QED
  BY <1>1, <1>2, <1>3, <1>4, <1>5, <1>6

LEMMA ListKeepsInv ==
  ASSUME GraphInv, NEW goal \in {"publish", "discard", "execute"}, ListDesign(goal)
  PROVE  GraphInv'
<1> USE DEF GraphInv, GraphTypeOK
<1>1. GraphTypeOK'
  BY DEF ListDesign, Graphs
<1>2. EdgesHaveEnds' /\ NoCycleUnlessBlind'
  BY SameGraph DEF ListDesign
<1>3. ChecksHold' /\ DiscardsWhole'
  BY DEF ListDesign, ChecksHold, DiscardsWhole
<1>4. CopyInOrder'
  BY SameRun DEF ListDesign
<1> QED
  BY <1>1, <1>2, <1>3, <1>4

\* What a listing took of the design has no cycle the design has not.
LEMMA ListedIsAcyclic ==
  ASSUME GraphInv
  PROVE  /\ Listed \in Graphs
         /\ Listed.nodes = listing.nodes
         /\ \A s, d \in Template : <<s, d>> \in Listed.edges => s \in Listed.nodes
         /\ Acyclic(Listed.edges \ Listed.blind)
<1> USE DEF GraphInv, GraphTypeOK
<1>1. /\ Listed \in Graphs
      /\ Listed.nodes = listing.nodes
      /\ Listed.edges = From(graph.edges, listing.nodes)
      /\ Listed.blind = From(graph.blind, listing.nodes)
  BY DEF Listed, From, Graphs, Edges
<1>2. \A s, d \in Template : <<s, d>> \in Listed.edges => s \in Listed.nodes
  BY <1>1 DEF From
<1>3. Listed.edges \ Listed.blind \subseteq graph.edges \ graph.blind
  BY <1>1 DEF From
<1> QED
  BY <1>1, <1>2, <1>3, AcyclicSubset DEF NoCycleUnlessBlind

LEMMA PublishKeepsInv ==
  ASSUME GraphInv, Publish
  PROVE  GraphInv'
<1> USE DEF GraphInv, GraphTypeOK
<1>1. saved' = Listed /\ listing' = NoListing /\ UNCHANGED <<graph, edit, run>>
  BY DEF Publish
<1>2. GraphTypeOK'
  BY <1>1, ListedIsAcyclic DEF NoListing
<1>3. EdgesHaveEnds' /\ NoCycleUnlessBlind'
  BY <1>1, ListedIsAcyclic DEF EdgesHaveEnds, NoCycleUnlessBlind
<1>4. ChecksHold' /\ DiscardsWhole'
  BY <1>1 DEF ChecksHold, DiscardsWhole, NoListing
<1>5. CopyInOrder'
  BY <1>1, SameRun
<1> QED
  BY <1>2, <1>3, <1>4, <1>5

\* The templates created since the discard listed them stay, apart from those restored.
LEMMA RestoreKeepsInv ==
  ASSUME GraphInv, Restore
  PROVE  GraphInv'
<1> DEFINE rest == Without(graph, listing.nodes)
           whole == \A e \in saved.edges : e[2] \in saved.nodes \cup rest.nodes
<1> USE DEF GraphInv, GraphTypeOK
<1>1. listing' = NoListing /\ UNCHANGED <<saved, run>> /\ listing.goal = "discard"
  BY DEF Restore
<1>2. DiscardsWhole' /\ CopyInOrder'
  BY <1>1, SameRun DEF DiscardsWhole, NoListing
<1>3. CASE ~whole
  <2>1. graph' = graph /\ edit' = edit
    BY <1>3 DEF Restore
  <2>2. EdgesHaveEnds' /\ NoCycleUnlessBlind'
    BY <1>1, <2>1, SameGraph
  <2> QED
    BY <1>1, <1>2, <2>1, <2>2 DEF ChecksHold, NoListing
<1>4. CASE whole
  <2>1. /\ graph' = [nodes |-> rest.nodes \cup saved.nodes,
                     edges |-> rest.edges \cup saved.edges,
                     blind |-> rest.blind \cup saved.blind]
        /\ edit' = [b \in Author |-> IF edit[b] = NoEdit THEN NoEdit
                                     ELSE [edit[b] EXCEPT !.stale = TRUE]]
    BY <1>4 DEF Restore
  <2>2. /\ rest \in Graphs
        /\ rest.nodes = graph.nodes \ listing.nodes
        /\ \A s, d \in Template : <<s, d>> \in rest.edges => s \in rest.nodes /\ d \in rest.nodes
        /\ rest.edges \ rest.blind \subseteq graph.edges \ graph.blind
    BY WithoutShrinks
  <2>3. graph' \in Graphs
    BY <2>1, <2>2 DEF Graphs
  <2>4. /\ edit' \in [Author -> Edits]
        /\ \A b \in Author : edit'[b] # NoEdit =>
             /\ edit[b] # NoEdit /\ edit'[b].stale
             /\ edit'[b].task = edit[b].task /\ edit'[b].deps = edit[b].deps
    BY <2>1 DEF Edits, NoEdit
  <2>5. EdgesHaveEnds'
    <3>1. \A s, d \in Template : <<s, d>> \in saved.edges =>
             s \in saved.nodes /\ d \in saved.nodes \cup rest.nodes
      BY <1>4 DEF EdgesHaveEnds
    <3> QED
      BY <1>1, <2>1, <2>2, <3>1 DEF EdgesHaveEnds
  <2>6. NoCycleUnlessBlind'
    <3> DEFINE E == rest.edges \ rest.blind
               F == saved.edges \ saved.blind
    <3>1. Acyclic(E) /\ Acyclic(F)
      BY <2>2, AcyclicSubset DEF NoCycleUnlessBlind
    <3>2. /\ rest.nodes \in SUBSET Template
          /\ \A s, d \in Template : <<s, d>> \in E => s \in rest.nodes /\ d \in rest.nodes
          /\ \A s, d \in Template : <<s, d>> \in F => s \notin rest.nodes
      BY <1>1, <2>2 DEF EdgesHaveEnds, DiscardsWhole, Graphs
    <3>3. Acyclic(E \cup F)
      BY <3>1, <3>2, ApartKeepAcyclic
    <3>4. graph'.edges \ graph'.blind \subseteq E \cup F
      BY <2>1
    <3> QED
      BY <1>1, <3>1, <3>3, <3>4, AcyclicSubset DEF NoCycleUnlessBlind
  <2>7. ChecksHold'
    BY <2>4 DEF ChecksHold
  <2> QED
    BY <1>1, <1>2, <2>3, <2>4, <2>5, <2>6, <2>7 DEF NoListing
<1> QED
  BY <1>3, <1>4

\* A run begins with no task, on a design that was listed or saved.
LEMMA CopyingStarts ==
  ASSUME NEW g \in Graphs, run' = Copying(g),
         \A s, d \in Template : <<s, d>> \in g.edges => s \in g.nodes,
         Acyclic(g.edges \ g.blind)
  PROVE  CopyInOrder'
<1>1. Acyclic({})
  BY AcyclicEverywhere DEF DependsOn
<1> QED
  BY <1>1 DEF Copying, CopyInOrder

LEMMA ExecuteKeepsInv ==
  ASSUME GraphInv, ExecuteLive \/ ExecuteSaved
  PROVE  GraphInv'
<1> USE DEF GraphInv, GraphTypeOK
<1>1. UNCHANGED <<graph, saved, edit>> /\ (listing' = listing \/ listing' = NoListing)
  BY DEF ExecuteLive, ExecuteSaved
<1>2. EdgesHaveEnds' /\ NoCycleUnlessBlind'
  BY <1>1, SameGraph
<1>3. ChecksHold' /\ DiscardsWhole'
  BY <1>1 DEF ChecksHold, DiscardsWhole, NoListing
<1>4. CASE ExecuteLive
  <2>1. CopyInOrder'
    BY <1>4, ListedIsAcyclic, CopyingStarts DEF ExecuteLive
  <2>2. GraphTypeOK'
    BY <1>4, ListedIsAcyclic DEF ExecuteLive, Copying, NoListing
  <2> QED
    BY <1>2, <1>3, <2>1, <2>2
<1>5. CASE ExecuteSaved
  <2>1. CopyInOrder'
    BY <1>5, CopyingStarts DEF ExecuteSaved, EdgesHaveEnds, NoCycleUnlessBlind
  <2>2. GraphTypeOK'
    BY <1>5 DEF ExecuteSaved, Copying
  <2> QED
    BY <1>2, <1>3, <2>1, <2>2
<1> QED
  BY <1>4, <1>5

\* The task that is copied depends only on tasks copied before it; one that
\* _topo_order could order finds all of its dependencies there.
LEMMA CopyKeepsInv ==
  ASSUME GraphInv, NEW t \in Template, CopyTemplate(t)
  PROVE  GraphInv'
<1> DEFINE g == run.design
           deps == DependsOn(g.edges, t) \cap run.tasks
<1> USE DEF GraphInv, GraphTypeOK
<1>1. /\ UNCHANGED <<graph, saved, edit, listing>>
      /\ run' = [run EXCEPT !.tasks = @ \cup {t}, !.deps = @ \cup ({t} \X deps)]
      /\ run.at = "copying" /\ t \in g.nodes \ run.tasks
      /\ t \in g.nodes \ Knotted(g) => DependsOn(g.edges, t) \cap g.nodes \subseteq run.tasks
  BY DEF CopyTemplate, Copy
<1>2. /\ run'.at = "copying" /\ run'.design = g
      /\ run'.tasks = run.tasks \cup {t}
      /\ run'.deps = run.deps \cup ({t} \X deps)
  BY <1>1
<1>3. deps \in SUBSET Template /\ deps \subseteq run.tasks /\ t \notin deps
  BY <1>1 DEF DependsOn
<1>4. EdgesHaveEnds' /\ NoCycleUnlessBlind'
  BY <1>1, SameGraph
<1>5. ChecksHold' /\ DiscardsWhole'
  BY <1>1 DEF ChecksHold, DiscardsWhole
<1>6. GraphTypeOK'
  <2>1. run.deps \cup ({t} \X deps) \in SUBSET Edges
    BY <1>3 DEF Edges
  <2> QED
    BY <1>1, <2>1
<1>7. Acyclic(run'.deps)
  <2>1. \A s \in Template : <<s, t>> \notin run.deps
    BY <1>1 DEF CopyInOrder
  <2>2. Acyclic(run.deps)
    BY DEF CopyInOrder
  <2>3. Acyclic(run.deps \cup ({t} \X deps))
    BY <1>3, <2>1, <2>2, NewTemplateKeepsAcyclic
  <2> QED
    BY <1>2, <2>3
<1>8. run'.deps \subseteq g.edges
  BY <1>2 DEF CopyInOrder, DependsOn
<1>9. \A s, d \in Template : <<s, d>> \in run'.deps => s \in run'.tasks /\ d \in run'.tasks
  BY <1>2, <1>3 DEF CopyInOrder
<1>10. ASSUME NEW s \in run'.tasks \ Knotted(g)
       PROVE  DependsOn(g.edges, s) \cap g.nodes \subseteq DependsOn(run'.deps, s)
  <2>1. CASE s = t
    <3>1. DependsOn(g.edges, t) \cap g.nodes \subseteq deps
      BY <1>1, <1>10, <2>1
    <3>2. deps \subseteq DependsOn(run'.deps, t)
      BY <1>2, <1>3 DEF DependsOn
    <3> QED
      BY <2>1, <3>1, <3>2
  <2>2. CASE s # t
    <3>1. DependsOn(run.deps, s) \subseteq DependsOn(run'.deps, s)
      BY <1>2 DEF DependsOn
    <3>2. s \in run.tasks \ Knotted(g)
      BY <1>2, <1>10, <2>2
    <3>3. DependsOn(g.edges, s) \cap g.nodes \subseteq DependsOn(run.deps, s)
      BY <3>2 DEF CopyInOrder
    <3> QED
      BY <3>1, <3>3
  <2> QED
    BY <2>1, <2>2
<1>11. CopyInOrder'
  <2>1. run'.tasks \subseteq g.nodes
    BY <1>1, <1>2 DEF CopyInOrder
  <2> QED
    BY <1>2, <1>7, <1>8, <1>9, <1>10, <2>1 DEF CopyInOrder
<1> QED
  BY <1>4, <1>5, <1>6, <1>11

LEMMA RunEndsKeepInv ==
  ASSUME GraphInv, StartRun \/ CutRun
  PROVE  GraphInv'
<1> USE DEF GraphInv, GraphTypeOK
<1>1. /\ UNCHANGED <<graph, saved, edit, listing>>
      /\ run'.design = run.design /\ run'.tasks = run.tasks /\ run'.deps = run.deps
      /\ run'.at = "started" => run.tasks = run.design.nodes
  BY DEF StartRun, CutRun
<1>2. GraphTypeOK'
  BY DEF StartRun, CutRun
<1>3. EdgesHaveEnds' /\ NoCycleUnlessBlind'
  BY <1>1, SameGraph
<1>4. ChecksHold' /\ DiscardsWhole'
  BY <1>1 DEF ChecksHold, DiscardsWhole
<1>5. CopyInOrder'
  BY <1>1 DEF CopyInOrder
<1> QED
  BY <1>2, <1>3, <1>4, <1>5

LEMMA NextKeepsGraphInv == GraphInv /\ [GraphNext]_graphVars => GraphInv'
<1> SUFFICES ASSUME GraphInv, [GraphNext]_graphVars PROVE GraphInv'
  OBVIOUS
<1>1. ASSUME NEW t \in Template, NEW deps \in SUBSET Template, CreateTemplate(t, deps)
      PROVE  GraphInv'
  BY <1>1, CreateKeepsInv
<1>2. ASSUME NEW a \in Author, NEW t \in Template, NEW deps \in SUBSET Template,
             CheckDependencies(a, t, deps)
      PROVE  GraphInv'
  BY <1>2, CheckKeepsInv
<1>3. ASSUME NEW a \in Author, WriteDependencies(a) PROVE GraphInv'
  BY <1>3, WriteKeepsInv
<1>4. ASSUME NEW t \in Template, DeleteTemplate(t) PROVE GraphInv'
  BY <1>4, DeleteKeepsInv
<1>5. ASSUME NEW goal \in {"publish", "discard", "execute"}, ListDesign(goal) PROVE GraphInv'
  BY <1>5, ListKeepsInv
<1>6. CASE Publish
  BY <1>6, PublishKeepsInv
<1>7. CASE Restore
  BY <1>7, RestoreKeepsInv
<1>8. CASE ExecuteLive \/ ExecuteSaved
  BY <1>8, ExecuteKeepsInv
<1>9. ASSUME NEW t \in Template, CopyTemplate(t) PROVE GraphInv'
  BY <1>9, CopyKeepsInv
<1>10. CASE StartRun \/ CutRun
  BY <1>10, RunEndsKeepInv
<1>11. CASE UNCHANGED graphVars
  <2>1. /\ graph' = graph /\ saved' = saved /\ edit' = edit /\ listing' = listing /\ run' = run
    BY <1>11 DEF graphVars
  <2>2. EdgesHaveEnds' /\ NoCycleUnlessBlind' /\ CopyInOrder'
    BY <2>1, SameGraph, SameRun
  <2>3. GraphTypeOK'
    BY <2>1 DEF GraphInv, GraphTypeOK
  <2>4. ChecksHold' /\ DiscardsWhole'
    BY <2>1 DEF GraphInv, ChecksHold, DiscardsWhole
  <2> QED
    BY <2>2, <2>3, <2>4 DEF GraphInv
<1> QED
  BY <1>1, <1>2, <1>3, <1>4, <1>5, <1>6, <1>7, <1>8, <1>9, <1>10, <1>11 DEF GraphNext

-----------------------------------------------------------------------------
(* The theorems. *)

LEMMA GraphInvariant == GraphSpec => []GraphInv
BY InitGraphInv, NextKeepsGraphInv, PTL DEF GraphSpec

\* Every variable of the model keeps its type.
THEOREM GraphTypeCorrect == GraphSpec => []GraphTypeOK
<1>1. GraphInv => GraphTypeOK
  BY DEF GraphInv
<1> QED
  BY <1>1, GraphInvariant, PTL

\* For every number of templates and of overlapping edits: a cycle of the design or
\* of its published version has an edge whose check another edit had overtaken.
THEOREM ChecksPreventCycles == GraphSpec => []NoCycleUnlessBlind
<1>1. GraphInv => NoCycleUnlessBlind
  BY DEF GraphInv
<1> QED
  BY <1>1, GraphInvariant, PTL

\* For every design: a run's tasks depend on each other as the templates do, and
\* never in a circle.
THEOREM RunsKeepOrder == GraphSpec => []RunKeepsOrder
<1>1. ASSUME GraphInv, run.at = "started"
      PROVE  /\ run.tasks = run.design.nodes
             /\ Acyclic(run.deps)
             /\ run.design.blind = {} => run.deps = Within(run.design.edges, run.design.nodes)
  <2> DEFINE g == run.design
  <2>1. /\ run.tasks = g.nodes /\ Acyclic(run.deps)
        /\ run.deps \subseteq g.edges /\ g \in Graphs
        /\ \A s, d \in Template : <<s, d>> \in run.deps => s \in g.nodes /\ d \in g.nodes
    BY <1>1 DEF GraphInv, CopyInOrder, GraphTypeOK
  <2>2. ASSUME g.blind = {}
        PROVE  run.deps = Within(g.edges, g.nodes)
    <3>1. Acyclic(g.edges)
      <4>1. g.edges \ g.blind = g.edges
        BY <2>2
      <4> QED
        BY <1>1, <4>1 DEF GraphInv, CopyInOrder
    <3>2. Knotted(g) = {}
      BY <2>1, <3>1, AcyclicUnknotted
    <3>3. \A t \in g.nodes : DependsOn(g.edges, t) \cap g.nodes \subseteq DependsOn(run.deps, t)
      BY <1>1, <2>1, <3>2 DEF GraphInv, CopyInOrder
    <3>4. ASSUME NEW s \in g.nodes, NEW d \in g.nodes, <<s, d>> \in g.edges
          PROVE  <<s, d>> \in run.deps
      <4>1. d \in DependsOn(g.edges, s) \cap g.nodes
        BY <2>1, <3>4 DEF DependsOn, Graphs
      <4>2. d \in DependsOn(run.deps, s)
        BY <3>3, <4>1
      <4> QED
        BY <4>2 DEF DependsOn
    <3>5. g.edges \subseteq Template \X Template
      BY <2>1 DEF Graphs, Edges
    <3>6. run.deps \subseteq Within(g.edges, g.nodes)
      BY <2>1, <3>5 DEF Within
    <3>7. Within(g.edges, g.nodes) \subseteq run.deps
      BY <3>4, <3>5 DEF Within
    <3> QED
      BY <3>6, <3>7
  <2> QED
    BY <2>1, <2>2
<1>2. GraphInv => RunKeepsOrder
  BY <1>1 DEF RunKeepsOrder
<1> QED
  BY <1>2, GraphInvariant, PTL

=============================================================================
