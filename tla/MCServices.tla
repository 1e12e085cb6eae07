----------------------------- MODULE MCServices -----------------------------
(***************************************************************************)
(* Instances, for TLC, of the services that share no state with a run's    *)
(* scheduling nor with each other.  A behaviour is one of one service,     *)
(* chosen by focus; the others keep their initial state.                   *)
(***************************************************************************)
EXTENDS SkillStore, EmailQueue, KnowledgeJobs, Elicitation, ApprovalGate, SessionStream,
        WorkflowDesign, TaskGraph, Consultation

CONSTANTS
  t1, t2,  \* tasks; t2 depends on t1
  Few      \* the templates of a design that is published, restored or executed

VARIABLE focus

Chain == [t \in {t1, t2} |-> IF t = t2 THEN {t1} ELSE {}]

allVars == <<focus, skillVars, mailVars, wikiVars, askVars, gateVars, streamVars, designVars,
             graphVars, sideVars>>

MCInit ==
  /\ focus \in {"skill", "mail", "wiki", "question", "gate", "call", "stream", "design",
                "edits", "graph", "side"}
  /\ SkillInit /\ MailInit /\ WikiInit /\ AskInit /\ GateInit
  /\ StreamInit /\ DesignInit /\ GraphInit /\ SideInit
  /\ focus # "stream" => listener.at = "none"

OnSkill(A) ==
  /\ focus = "skill" /\ A
  /\ UNCHANGED <<focus, mailVars, wikiVars, askVars, gateVars, streamVars, designVars, graphVars, sideVars>>
OnMail(A) ==
  /\ focus = "mail" /\ A
  /\ UNCHANGED <<focus, skillVars, wikiVars, askVars, gateVars, streamVars, designVars, graphVars, sideVars>>
OnWiki(A) ==
  /\ focus = "wiki" /\ A
  /\ UNCHANGED <<focus, skillVars, mailVars, askVars, gateVars, streamVars, designVars, graphVars, sideVars>>
OnQuestion(A) ==
  /\ focus = "question" /\ A
  /\ UNCHANGED <<focus, skillVars, mailVars, wikiVars, gateVars, streamVars, designVars, graphVars, sideVars>>
\* Calls are made where handlers do not overlap.
OnGate(A) ==
  /\ focus \in {"gate", "call"} /\ A
  /\ focus = "call" => Cardinality({h \in Handler : handler'[h].at # "off"}) <= 1
  /\ UNCHANGED <<focus, skillVars, mailVars, wikiVars, askVars, streamVars, designVars, graphVars, sideVars>>
OnCall(A) ==
  /\ focus = "call" /\ A
  /\ UNCHANGED <<focus, skillVars, mailVars, wikiVars, askVars, streamVars, designVars, graphVars, sideVars>>
OnStream(A) ==
  /\ focus = "stream" /\ A
  /\ UNCHANGED <<focus, skillVars, mailVars, wikiVars, askVars, gateVars, designVars, graphVars, sideVars>>
OnDesign(A) ==
  /\ focus = "design" /\ A
  /\ UNCHANGED <<focus, skillVars, mailVars, wikiVars, askVars, gateVars, streamVars, graphVars, sideVars>>
\* A run copies a design nothing else of the model reads: once there is one, only
\* it moves.  An edit not yet written can be left out of what leads to it.
OnEdits(A) ==
  /\ focus \in {"edits", "graph"} /\ run.at = "none" /\ A
  /\ UNCHANGED <<focus, skillVars, mailVars, wikiVars, askVars, gateVars, streamVars, designVars, sideVars>>
OnGraph(A) ==
  /\ focus = "graph" /\ run.at = "none" /\ A
  /\ UNCHANGED <<focus, skillVars, mailVars, wikiVars, askVars, gateVars, streamVars, designVars, sideVars>>
OnRun(A) ==
  /\ focus = "graph" /\ (run.at = "none" => edit = [a \in Author |-> NoEdit]) /\ A
  /\ UNCHANGED <<focus, skillVars, mailVars, wikiVars, askVars, gateVars, streamVars, designVars, sideVars>>
\* Whoever dies, dies where questions do not overlap; none is asked about the second decision.
OnSide(A) ==
  /\ focus = "side" /\ A
  /\ waits' < 2 => cuts' = 0 \/ Cardinality({p \in Guest : guest'[p] # NoGuest}) < 2
  /\ waits' = 2 => cuts' = 0 /\ \A p \in Guest : guest'[p] = NoGuest
  /\ UNCHANGED <<focus, skillVars, mailVars, wikiVars, askVars, gateVars, streamVars, designVars, graphVars>>

SkillStep ==
  \/ OnSkill(\E j \in Sync : Register(j)) \/ OnSkill(\E j \in Sync : Pull(j))
  \/ OnSkill(\E j \in Sync : Take(j)) \/ OnSkill(\E j \in Sync : Skip(j))
  \/ OnSkill(\E j \in Sync, r \in Rev : Clone(j, r)) \/ OnSkill(\E j \in Sync : Record(j))
  \/ OnSkill(\E j \in Sync : ListRuns(j)) \/ OnSkill(\E j \in Sync : ListDesigns(j))
  \/ OnSkill(\E j \in Sync : Prune(j)) \/ OnSkill(\E j \in Sync : FailSync(j))
  \/ OnSkill(\E j \in Sync : RecordSyncFailure(j)) \/ OnSkill(\E j \in Sync : SyncDies(j))
  \/ OnSkill(\E u \in Person : Pick(u)) \/ OnSkill(\E u \in Person : Pin(u))
  \/ OnSkill(\E u \in Person : Unpin(u)) \/ OnSkill(\E r \in Rev : Age(r))

MailStep ==
  \/ OnMail(\E m \in Mail : Enqueue(m)) \/ OnMail(\E m \in Mail : FallDue(m))
  \/ OnMail(\E m \in Mail : Cascade(m)) \/ OnMail(\E m \in Mail : Delete(m))
  \/ OnMail(\E m \in Mail : ExpireLease(m)) \/ OnMail(Configure)
  \/ OnMail(\E w \in Worker : Elect(w)) \/ OnMail(\E w \in Worker : Reclaim(w))
  \/ OnMail(\E w \in Worker : NothingToDo(w)) \/ OnMail(\E w \in Worker : Settle(w))
  \/ OnMail(\E w \in Worker, batch \in SUBSET Mail : Claim(w, batch))
  \/ OnMail(\E w \in Worker, m \in Mail : Blow(w, m))
  \/ OnMail(\E w \in Worker, m \in Mail, result \in SendResult, accepted \in BOOLEAN,
               retried \in BOOLEAN : Send(w, m, result, accepted, retried))
  \/ OnMail(\E w \in Worker : WorkerDies(w))

WikiStep ==
  \/ OnWiki(\E j \in Job, s \in Source : Add(j, s))
  \/ OnWiki(\E j \in Job, s \in Source, act \in {"ingest", "remove"} : RequestJob(j, s, act))
  \/ OnWiki(\E j \in Job : Mark(j)) \/ OnWiki(\E j \in Job : Read(j))
  \/ OnWiki(\E j \in Job : Enter(j)) \/ OnWiki(\E j \in Job : TimeOut(j))
  \/ OnWiki(\E j \in Job : BeginEdit(j)) \/ OnWiki(\E j \in Job : Load(j))
  \/ OnWiki(\E j \in Job, wiki \in Wiki : Apply(j, wiki))
  \/ OnWiki(\E j \in Job : FailEdit(j)) \/ OnWiki(\E j \in Job : RecordEditFailure(j))
  \/ OnWiki(\E j \in Job : JobDies(j)) \/ OnWiki(DeleteBase)

QuestionStep ==
  \/ OnQuestion(Check) \/ OnQuestion(Create) \/ OnQuestion(Note) \/ OnQuestion(Show)
  \/ OnQuestion(Poll) \/ OnQuestion(ExpireQuestion) \/ OnQuestion(Reread) \/ OnQuestion(Close)
  \/ OnQuestion(Stop) \/ OnQuestion(Break) \/ OnQuestion(Lapse) \/ OnQuestion(DeleteRun)
  \/ OnQuestion(\E a \in Answer : Write(a))
  \/ OnQuestion(\E a \in Answer, says \in Said : BeginReply(a, says))

GateStep ==
  \/ OnGate(\E h \in Handler : ReadTasks(h)) \/ OnGate(\E h \in Handler : Scope(h))
  \/ OnGate(\E h \in Handler : Sign(h)) \/ OnGate(\E h \in Handler : Return(h))
  \/ OnGate(\E h \in Handler, t \in Task : ListLive(h, t))
  \/ OnGate(\E h \in Handler : \E c \in handler[h].old : Revoke(h, c))
  \/ OnGate(\E h \in Handler, t \in Task : Start(h, t))
  \/ OnGate(\E h \in Handler, t \in Task : Finish(h, t))
  \/ OnGate(\E h \in Handler, x \in Approval, t \in Task : RequestApproval(h, x, t))
  \/ OnGate(\E h \in Handler, x \in Approval, status \in {"approved", "rejected"} :
              Decide(h, x, status))
  \/ OnCall(\E t \in Task : Call(t)) \/ OnCall(Verify) \/ OnCall(Govern) \/ OnCall(AnswerCall)

StreamStep ==
  \/ OnStream(\E near \in BOOLEAN : MarkRun(near)) \/ OnStream(DropPrevious)
  \/ OnStream(Persist) \/ OnStream(AppendRows) \/ OnStream(Tell) \/ OnStream(EndTurn)
  \/ OnStream(CutShort)
  \/ OnStream(Listen) \/ OnStream(Announce) \/ OnStream(Notified)
  \/ OnStream(LoseConnection) \/ OnStream(NoticeLoss)
  \/ OnStream(ReadRow) \/ OnStream(ReadFirst) \/ OnStream(ReadNewest) \/ OnStream(ReadHistory)
  \/ OnStream(FailRead) \/ OnStream(ClearWake) \/ OnStream(Look) \/ OnStream(Sleep) \/ OnStream(Receive)
  \/ OnStream(Wake) \/ OnStream(BreakStream)

DesignStep ==
  \/ OnDesign(\E d \in Design : CreateWorkflow(d))
  \/ OnDesign(CheckDesign) \/ OnDesign(DesignDies)
  \/ OnDesign(\E status \in {"draft", "failed"} : EndDesign(status))
  \/ OnDesign(\E e \in Editor, d \in Design \cup {NoTasks} : WriteTasks(e, d))
  \/ OnDesign(\E e \in Editor, d \in Design : WriteText(e, d))
  \/ OnDesign(\E e \in Editor : MarkDesignEdited(e)) \/ OnDesign(\E e \in Editor : MarkModified(e))
  \/ OnDesign(\E e \in Curator : BeginPublish(e)) \/ OnDesign(\E e \in Curator : ListTemplates(e))
  \/ OnDesign(\E e \in Curator : NumberVersion(e)) \/ OnDesign(\E e \in Curator : InsertVersion(e))
  \/ OnDesign(\E e \in Curator : Promote(e))
  \/ OnDesign(\E e \in Curator : BeginDiscard(e)) \/ OnDesign(\E e \in Curator : FindLatest(e))
  \/ OnDesign(\E e \in Curator : BeginRestore(e))
  \/ OnDesign(\E e \in Curator : \E n \in DOMAIN versions : FindVersion(e, n))
  \/ OnDesign(\E e \in Curator : ReplaceTasks(e)) \/ OnDesign(\E e \in Curator : RewriteText(e))
  \/ OnDesign(\E e \in Party : RefreshRow(e)) \/ OnDesign(\E e \in Curator : SetStatus(e))
  \/ OnDesign(\E e \in Curator : BeginDeactivate(e)) \/ OnDesign(\E e \in Curator : Deactivate(e))
  \/ OnDesign(\E e \in Party : CutRequest(e))

\* Edits on their own add one dependency each.
NewDependencies(t) ==
  IF focus = "edits" THEN {DependsOn(graph.edges, t) \cup {d} : d \in graph.nodes \ {t}}
  ELSE SUBSET (graph.nodes \ {t})

GraphStep ==
  \/ OnEdits(\E t \in Template \ graph.nodes, deps \in SUBSET graph.nodes :
                (focus = "graph" => t \in Few) /\ CreateTemplate(t, deps))
  \/ OnEdits(\E a \in Author, t \in graph.nodes : \E deps \in NewDependencies(t) :
                CheckDependencies(a, t, deps))
  \/ OnEdits(\E a \in Author : WriteDependencies(a))
  \/ OnGraph(\E t \in Template : DeleteTemplate(t))
  \/ OnGraph(\E goal \in {"publish", "discard", "execute"} : ListDesign(goal))
  \/ OnGraph(Publish) \/ OnGraph(Restore)
  \/ OnRun(ExecuteLive) \/ OnRun(ExecuteSaved)
  \/ OnRun(\E t \in Template : CopyTemplate(t)) \/ OnRun(StartRun) \/ OnRun(CutRun)

SideStep ==
  \/ OnSide(RequestDecision) \/ OnSide(Pause) \/ OnSide(ResumeIfDecided) \/ OnSide(AnswerForm)
  \/ OnSide(Resolve) \/ OnSide(ListSides) \/ OnSide(HandOver) \/ OnSide(EndRuling)
  \/ OnSide(CutRuling)
  \/ OnSide(\E p \in Guest : BeginQuestion(p)) \/ OnSide(\E p \in Guest : OpenSide(p))
  \/ OnSide(\E p \in Guest : CreateSide(p)) \/ OnSide(\E p \in Guest : QueueQuestion(p))
  \/ OnSide(\E p \in Guest : CutQuestion(p))
  \/ OnSide(\E p \in Guest, c \in Side : BeginRemark(p, c))
  \/ OnSide(\E c \in Side : CloseSide(c)) \/ OnSide(\E c \in Side : TakeQuestion(c))
  \/ OnSide(\E c \in Side : BeginAnswer(c)) \/ OnSide(\E c \in Side : FailAnswer(c))
  \/ OnSide(\E c \in Side : EndAnswer(c)) \/ OnSide(\E c \in Side : SettleAnswer(c))
  \/ OnSide(\E c \in Side : CutAnswer(c))

MCNext ==
  \/ SkillStep \/ MailStep \/ WikiStep \/ QuestionStep \/ GateStep \/ StreamStep \/ DesignStep
  \/ GraphStep \/ SideStep

MCSpec == MCInit /\ [][MCNext]_allVars

\* The parties of a service are interchangeable, and so are the contents of a design; since
\* a behaviour is one of one service, those of every service change places at once.
Peers == {Sync, Worker, Job, Answer, Handler, Author, Guest, Design}
Other(p) == CHOOSE q \in UNION Peers : q # p /\ \E S \in Peers : {p, q} \subseteq S
Mirror == {[p \in UNION Peers |-> IF turned THEN Other(p) ELSE p] : turned \in BOOLEAN}

\* Each service's variables are what its module declares them to be.
ServicesTypeOK ==
  /\ focus = "skill" => SkillTypeOK
  /\ focus = "mail" => MailTypeOK
  /\ focus = "wiki" => WikiTypeOK
  /\ focus = "question" => AskTypeOK
  /\ focus \in {"gate", "call"} => GateTypeOK
  /\ focus = "stream" => StreamTypeOK
  /\ focus = "design" => DesignTypeOK
  /\ focus \in {"edits", "graph"} => GraphTypeOK
  /\ focus = "side" => SideTypeOK

=============================================================================
