------------------------- MODULE RunSchedulingProofs -------------------------
(***************************************************************************)
(* Proofs about RunScheduling, for every workflow DAG, any number of       *)
(* branches, people, messages and crashes.                                 *)
(***************************************************************************)
EXTENDS RunScheduling, FiniteSetTheorems, WellFoundedInduction, TLAPS

-----------------------------------------------------------------------------
(* Types of the pieces the transactions share. *)

LEMMA NothingTyped ==
  /\ NoJob \in Job /\ NoSnap \in Snap /\ NoPlan \in Plan
  /\ \A end \in {"ok", "paused", "failed"} : [NoJob EXCEPT !.new = end] \in Job
BY DEF NoJob, NoSnap, NoPlan, Job, Snap, Plan, TaskStatus, SessionStatus

LEMMA ActorTyped == Session \subseteq Actor /\ Starter \in Actor /\ People \subseteq Actor
BY DEF Actor

LEMMA PlanTyped ==
  ASSUME NEW p \in Plan
  PROVE  /\ p.todo \in SUBSET Task /\ p.claimed \in SUBSET Session
         /\ p.busy \in SUBSET Session /\ p.alive \in Nat
         /\ p.seen \in [Session -> SessionStatus]
         /\ \A T \in SUBSET Task : [p EXCEPT !.todo = T] \in Plan
         /\ \A S \in SUBSET Session : [p EXCEPT !.claimed = S] \in Plan
         /\ \A S \in SUBSET Session : [p EXCEPT !.busy = S] \in Plan
         /\ \A n \in Nat : [p EXCEPT !.alive = n] \in Plan
BY DEF Plan

LEMMA AliveIsNat == ASSUME NEW seen PROVE Cardinality(AliveSessions(seen)) \in Nat
<1>1. IsFiniteSet({b \in Branch : seen[b] \notin {"absent", "done"}})
  BY SessionAssumption, FS_Subset
<1>2. IsFiniteSet(AliveSessions(seen))
  BY <1>1, FS_Singleton, FS_Union DEF AliveSessions
<1> QED BY <1>2, FS_CardinalityType

LEMMA ReturnTyped ==
  ASSUME TypeOK, NEW a \in Actor, Return(a)
  PROVE  /\ pc' \in [Actor -> PC] /\ job' \in [Actor -> Job]
         /\ snap' \in [Actor -> Snap] /\ plan' \in [Actor -> Plan]
<1>1. job[a].ret \in PC
  BY DEF TypeOK, Job, PC
<1> QED BY <1>1, NothingTyped DEF Return, Goto, TypeOK

LEMMA TouchTyped ==
  ASSUME TypeOK, NEW t \in Task, Touch(t) PROVE fresh' \in [Session -> SUBSET Task]
BY DEF TypeOK, Touch

LEMMA ClaimsTyped ==
  ASSUME TypeOK, NEW t \in Task, NEW s \in Session, Claims(t, s)
  PROVE  owner' \in [Task -> Session \cup {None}] /\ fresh' \in [Session -> SUBSET Task]
BY TouchTyped DEF TypeOK, Claims

LEMMA QueueInputTyped ==
  ASSUME TypeOK, NEW s \in Session, NEW i \in Kinds, QueueInput(s, i)
  PROVE  sess' \in [Session -> SessionStatus] /\ kind' \in [Session -> Kinds]
BY DEF TypeOK, QueueInput, SessionStatus

LEMMA ReadTasksTyped ==
  ASSUME TypeOK, NEW a \in Actor, ReadTasks(a) PROVE snap' \in [Actor -> Snap]
<1>1. [status |-> status, owner |-> owner, over |-> outcome # "none"] \in Snap
  BY DEF TypeOK, Snap
<1> QED BY <1>1 DEF ReadTasks, TypeOK

LEMMA TargetTyped ==
  ASSUME TypeOK, NEW a \in Actor, NEW t \in Task
  PROVE  Target(snap[a].owner, plan[a].seen, t) \in Session
<1> DEFINE o == snap[a].owner
<1>1. o \in [Task -> Session \cup {None}]
  BY DEF TypeOK, Snap
<1>2. DepOwners(o, t) \subseteq Session
  BY <1>1, TaskAssumption DEF DepOwners, WorkedBy, Session
<1>3. CASE \E b \in DepOwners(o, t) \ {Main} : plan[a].seen[b] # "done"
  <2>1. (CHOOSE b \in DepOwners(o, t) \ {Main} : TRUE) \in DepOwners(o, t) \ {Main}
    BY <1>3
  <2> QED BY <1>2, <2>1 DEF Target, Session
<1>4. CASE ~ \E b \in DepOwners(o, t) \ {Main} : plan[a].seen[b] # "done"
  BY <1>4 DEF Target, Session
<1> QED BY <1>3, <1>4

\* An actor about to claim or to write a task has one, and one about to finish a
\* fork has the branch it made.
JobInv ==
  \A a \in Actor :
    /\ pc[a] \in {"claim", "write"} => job[a].task \in Task /\ job[a].new \in TaskStatus
    /\ pc[a] = "claim" => a \in Session
    /\ pc[a] \in {"forkclaim", "forkqueue", "forkdelete"} =>
         job[a].task \in Task /\ job[a].target \in Branch

LEMMA InitTyped == Init => TypeOK
<1> SUFFICES ASSUME Init PROVE TypeOK
  OBVIOUS
<1> QED
  BY NothingTyped, ActorTyped DEF Init, TypeOK, TaskStatus, SessionStatus, Kinds, PC

LEMMA StepTyped == TypeOK /\ JobInv /\ [Next]_vars => TypeOK'
<1> SUFFICES ASSUME TypeOK, JobInv, [Next]_vars PROVE TypeOK'
  OBVIOUS
<1> USE ActorTyped DEF TypeOK, turnVars, runVars, boundVars
<1>1. ASSUME NEW s \in Session, TurnStart(s) PROVE TypeOK'
  BY <1>1 DEF TurnStart, Goto, SessionStatus, Kinds, PC
<1>2. ASSUME NEW s \in Session, AgentList(s) PROVE TypeOK'
  BY <1>2 DEF AgentList
<1>3. ASSUME NEW s \in Session, NEW t \in Task, NEW new \in TaskStatus, AgentUpdate(s, t, new)
      PROVE  TypeOK'
  <2>1. [task |-> t, new |-> new, target |-> None, ret |-> "agent"] \in Job
    BY DEF Job
  <2> QED BY <1>3, <2>1 DEF AgentUpdate, Goto, PC
<1>4. ASSUME NEW s \in Session, AgentClaim(s) PROVE TypeOK'
  <2>1. owner' \in [Task -> Session \cup {None}] /\ fresh' \in [Session -> SUBSET Task]
    BY <1>4, ClaimsTyped DEF AgentClaim, JobInv
  <2>2. CASE Return(s)
    BY <1>4, <2>1, <2>2, ReturnTyped DEF AgentClaim
  <2>3. CASE Goto(s, "write") /\ UNCHANGED <<job, snap, plan>>
    BY <1>4, <2>1, <2>3 DEF AgentClaim, Goto, PC
  <2> QED BY <1>4, <2>2, <2>3 DEF AgentClaim
<1>5. ASSUME NEW p \in People, NEW t \in Task, NEW new \in TaskStatus, PersonUpdate(p, t, new)
      PROVE  TypeOK'
  <2>1. [task |-> t, new |-> new, target |-> None, ret |-> "off"] \in Job
    BY DEF Job
  <2> QED BY <1>5, <2>1 DEF PersonUpdate, Goto, PC
<1>6. ASSUME NEW a \in Actor, WriteTask(a) PROVE TypeOK'
  <2>1. job[a].task \in Task /\ job[a].new \in TaskStatus
    BY <1>6 DEF WriteTask, JobInv
  <2>2. fresh' \in [Session -> SUBSET Task]
    BY <1>6, <2>1, TouchTyped DEF WriteTask, SetStatus
  <2> QED BY <1>6, <2>1, <2>2 DEF WriteTask, SetStatus, Goto, PC
<1>7. ASSUME NEW a \in Actor, EvaluateRead(a) PROVE TypeOK'
  <2> DEFINE blocked == {t \in Blocked({u \in Task : status[u] = "failed"}) : status[t] = "pending"}
  <2>1. [plan[a] EXCEPT !.todo = blocked] \in Plan
    BY PlanTyped DEF Blocked
  <2>2. snap' \in [Actor -> Snap]
    BY <1>7, ReadTasksTyped DEF EvaluateRead
  <2>3. plan' = [plan EXCEPT ![a] = [plan[a] EXCEPT !.todo = blocked]]
    BY <1>7 DEF EvaluateRead
  <2> HIDE DEF blocked
  <2> QED BY <1>7, <2>1, <2>2, <2>3 DEF EvaluateRead, Goto, AfterSkips, PC
<1>8. ASSUME NEW a \in Actor, SkipOne(a) PROVE TypeOK'
  <2>1. PICK t \in plan[a].todo :
             /\ SetStatus(t, "skipped")
             /\ plan' = [plan EXCEPT ![a] = [plan[a] EXCEPT !.todo = plan[a].todo \ {t}]]
             /\ Goto(a, IF plan[a].todo = {t} THEN "reread" ELSE "skip")
    BY <1>8 DEF SkipOne
  <2>2. t \in Task /\ [plan[a] EXCEPT !.todo = plan[a].todo \ {t}] \in Plan
    BY PlanTyped
  <2>3. fresh' \in [Session -> SUBSET Task]
    BY <2>1, <2>2, TouchTyped DEF SetStatus
  <2> QED BY <1>8, <2>1, <2>2, <2>3 DEF SkipOne, SetStatus, Goto, TaskStatus, PC
<1>9. ASSUME NEW a \in Actor, EvaluateReread(a) PROVE TypeOK'
  BY <1>9, ReadTasksTyped DEF EvaluateReread, Goto, AfterSkips, PC
<1>10. ASSUME NEW a \in Actor, FinishRead(a) PROVE TypeOK'
  BY <1>10 DEF FinishRead, Goto, PC
<1>11. ASSUME NEW a \in Actor, Stamp(a) PROVE TypeOK'
  BY <1>11 DEF Stamp, Goto, PC
<1>12. ASSUME NEW a \in Actor, NoticeRead(a) PROVE TypeOK'
  BY <1>12, ReturnTyped DEF NoticeRead, Goto, PC
<1>13. ASSUME NEW a \in Actor, Notify(a) PROVE TypeOK'
  BY <1>13, ReturnTyped DEF Notify
<1>14. ASSUME NEW a \in Actor, ReadSessions(a) PROVE TypeOK'
  <2>1. [seen    |-> sess,
         busy    |-> BusySessions(snap[a].status, snap[a].owner),
         alive   |-> Cardinality(AliveSessions(sess)),
         todo    |-> Ready(snap[a].status, snap[a].owner, sess),
         claimed |-> {}] \in Plan
    BY AliveIsNat DEF Plan, BusySessions, Ready
  <2> QED BY <1>14, <2>1 DEF ReadSessions, Goto, PC
<1>15. ASSUME NEW a \in Actor, NEW t \in Task, AssignFork(a, t) PROVE TypeOK'
  <2>1. PICK b \in Branch :
             /\ sess' = [sess EXCEPT ![b] = "idle"]
             /\ job' = [job EXCEPT ![a] = [[job[a] EXCEPT !.task = t] EXCEPT !.target = b]]
    BY <1>15 DEF AssignFork
  <2>2. b \in Session /\ [[job[a] EXCEPT !.task = t] EXCEPT !.target = b] \in Job
    BY DEF Session, Job
  <2> DEFINE p == [plan[a] EXCEPT !.todo = plan[a].todo \ {t}]
  <2> DEFINE n == plan[a].alive + 1
  <2>3. p \in Plan /\ n \in Nat
    <3>1. plan[a].alive \in Nat
      BY PlanTyped
    <3>2. p \in Plan
      BY PlanTyped
    <3> QED BY <3>1, <3>2
  <2>4. plan' = [plan EXCEPT ![a] = [p EXCEPT !.alive = n]]
    BY <1>15 DEF AssignFork, Plan
  <2> HIDE DEF p, n
  <2>5. plan' \in [Actor -> Plan]
    BY <2>3, <2>4, PlanTyped
  <2> QED BY <1>15, <2>1, <2>2, <2>5 DEF AssignFork, Goto, SessionStatus, PC
<1>16. ASSUME NEW a \in Actor, ForkClaim(a) PROVE TypeOK'
  <2>1. job[a].task \in Task /\ job[a].target \in Session
    BY <1>16 DEF ForkClaim, JobInv, Session
  <2>2. owner' \in [Task -> Session \cup {None}] /\ fresh' \in [Session -> SUBSET Task]
    BY <1>16, <2>1, ClaimsTyped DEF ForkClaim
  <2> QED BY <1>16, <2>2 DEF ForkClaim, Goto, PC
<1>17. ASSUME NEW a \in Actor, ForkDelete(a) PROVE TypeOK'
  BY <1>17 DEF ForkDelete, Goto, SessionStatus, Kinds, PC
<1>18. ASSUME NEW a \in Actor, ForkQueue(a) PROVE TypeOK'
  <2>1. job[a].target \in Session
    BY <1>18 DEF ForkQueue, JobInv, Session
  <2> QED BY <1>18, <2>1, QueueInputTyped DEF ForkQueue, Goto, Kinds, PC
<1>19. ASSUME NEW a \in Actor, NEW t \in Task, AssignExisting(a, t) PROVE TypeOK'
  <2> DEFINE s == Target(snap[a].owner, plan[a].seen, t)
             C == IF owner[t] = None THEN plan[a].claimed \cup {s} ELSE plan[a].claimed
             p == [plan[a] EXCEPT !.todo = plan[a].todo \ {t}]
             q == [p EXCEPT !.busy = plan[a].busy \cup {s}]
  <2>1. s \in Session
    BY TargetTyped
  <2>2. p \in Plan /\ C \in SUBSET Session /\ plan[a].busy \cup {s} \in SUBSET Session
    BY <2>1, PlanTyped
  <2>3. plan' = [plan EXCEPT ![a] = [q EXCEPT !.claimed = C]]
    BY <1>19 DEF AssignExisting, Plan
  <2>4. owner' \in [Task -> Session \cup {None}] /\ fresh' \in [Session -> SUBSET Task]
    BY <1>19, <2>1, ClaimsTyped DEF AssignExisting
  <2> HIDE DEF s, p, C
  <2>5. q \in Plan
    BY <2>2, PlanTyped
  <2> HIDE DEF q
  <2>6. plan' \in [Actor -> Plan]
    BY <2>2, <2>3, <2>5, PlanTyped
  <2> QED BY <1>19, <2>4, <2>6 DEF AssignExisting
<1>20. ASSUME NEW a \in Actor, AssignDone(a) PROVE TypeOK'
  BY <1>20, ReturnTyped DEF AssignDone, AfterAssign, Goto, PC
<1>21. ASSUME NEW a \in Actor, WakeOne(a) PROVE TypeOK'
  <2>1. PICK s \in plan[a].claimed :
             /\ QueueInput(s, "assigned") \/ UNCHANGED <<sess, kind>>
             /\ \/ Return(a)
                \/ /\ plan' = [plan EXCEPT ![a] = [plan[a] EXCEPT !.claimed = plan[a].claimed \ {s}]]
                   /\ UNCHANGED <<pc, job, snap>>
    BY <1>21 DEF WakeOne
  <2>2. s \in Session /\ [plan[a] EXCEPT !.claimed = plan[a].claimed \ {s}] \in Plan
    BY PlanTyped
  <2>3. sess' \in [Session -> SessionStatus] /\ kind' \in [Session -> Kinds]
    BY <2>1, <2>2, QueueInputTyped DEF Kinds
  <2>4. CASE Return(a)
    BY <1>21, <2>3, <2>4, ReturnTyped DEF WakeOne
  <2>5. CASE ~ Return(a)
    BY <1>21, <2>1, <2>2, <2>3, <2>5 DEF WakeOne
  <2> QED BY <2>4, <2>5
<1>22. ASSUME NEW s \in Session, NEW end \in TurnEnds, EndTurn(s, end) PROVE TypeOK'
  <2>1. end \in {"ok", "paused", "failed"}
    BY ActorAssumption
  <2> QED BY <1>22, <2>1, NothingTyped DEF EndTurn, Goto, PC
<1>23. ASSUME NEW s \in Session, SettleRead(s) PROVE TypeOK'
  <2> DEFINE missed == {t \in fresh[s] : owner[t] = s /\ status[t] = "pending"}
  <2>1. [plan[s] EXCEPT !.todo = missed] \in Plan
    BY PlanTyped
  <2>2. plan' = [plan EXCEPT ![s] = [plan[s] EXCEPT !.todo = missed]]
    BY <1>23 DEF SettleRead
  <2> HIDE DEF missed
  <2> QED BY <1>23, <2>1, <2>2, ReadTasksTyped DEF SettleRead, Goto, PC
<1>24. ASSUME NEW s \in Session, SettleRecord(s) PROVE TypeOK'
  <2>1. SettledStatus(s) \in SessionStatus
    BY DEF SettledStatus, SessionStatus
  <2>2. /\ pc' \in [Actor -> PC] /\ job' \in [Actor -> Job]
        /\ snap' \in [Actor -> Snap] /\ plan' \in [Actor -> Plan]
    BY <1>24, ReturnTyped DEF SettleRecord, FollowUp, NudgeOnly, Goto, PC
  <2> QED BY <1>24, <2>1, <2>2 DEF SettleRecord, Kinds
<1>25. ASSUME NEW s \in Session, Nudge(s) PROVE TypeOK'
  BY <1>25, QueueInputTyped, ReturnTyped DEF Nudge, Kinds
<1>26. ASSUME NEW s \in Session, SendMessage(s) PROVE TypeOK'
  BY <1>26, QueueInputTyped DEF SendMessage, Kinds
<1>27. ASSUME NEW a \in Actor, Crash(a) PROVE TypeOK'
  <2>1. looked' \in [Session -> BOOLEAN]
    BY <1>27 DEF Crash
  <2>2. view' \in [Session -> SUBSET Task] /\ fresh' \in [Session -> SUBSET Task]
    BY <1>27 DEF Crash
  <2>3. /\ pc' \in [Actor -> PC] /\ job' \in [Actor -> Job]
        /\ snap' \in [Actor -> Snap] /\ plan' \in [Actor -> Plan]
    BY <1>27, NothingTyped DEF Crash, Goto, PC
  <2>4. crashes' \in Nat /\ UNCHANGED <<status, owner, sess, kind, runVars, sent>>
    BY <1>27 DEF Crash
  <2> QED BY <2>1, <2>2, <2>3, <2>4
<1>28. CASE UNCHANGED vars
  BY <1>28 DEF vars
<1> QED
  BY <1>1, <1>2, <1>3, <1>4, <1>5, <1>6, <1>7, <1>8, <1>9, <1>10, <1>11, <1>12, <1>13, <1>14,
     <1>15, <1>16, <1>17, <1>18, <1>19, <1>20, <1>21, <1>22, <1>23, <1>24, <1>25, <1>26,
     <1>27, <1>28 DEF Next, Evaluate, Schedule, AgentStep, Settle

-----------------------------------------------------------------------------
(* Ownership. *)

\* Claiming is a compare-and-set: an owner, once recorded, is kept.
LEMMA ClaimsKeep ==
  ASSUME TypeOK, NEW t \in Task, NEW s \in Session, Claims(t, s), NEW u \in Task, owner[u] # None
  PROVE  owner'[u] = owner[u]
BY DEF Claims, TypeOK

LEMMA OwnerStep ==
  ASSUME TypeOK, JobInv, [Next]_vars, NEW u \in Task, owner[u] # None
  PROVE  owner'[u] = owner[u]
<1>1. ASSUME NEW s \in Session, AgentClaim(s) PROVE owner'[u] = owner[u]
  BY <1>1, ClaimsKeep, ActorTyped DEF AgentClaim, JobInv
<1>2. ASSUME NEW a \in Actor, ForkClaim(a) PROVE owner'[u] = owner[u]
  BY <1>2, ClaimsKeep DEF ForkClaim, JobInv, Session
<1>3. ASSUME NEW a \in Actor, NEW t \in Task, AssignExisting(a, t) PROVE owner'[u] = owner[u]
  BY <1>3, ClaimsKeep, TargetTyped DEF AssignExisting
<1>4. ASSUME NEW a \in Actor, Evaluate(a) PROVE UNCHANGED owner
  BY <1>4 DEF Evaluate, WriteTask, EvaluateRead, SkipOne, EvaluateReread, FinishRead, Stamp,
              NoticeRead, Notify
<1>5. ASSUME NEW a \in Actor, Schedule(a) PROVE owner'[u] = owner[u]
  BY <1>2, <1>3, <1>5
     DEF Schedule, ReadSessions, AssignFork, ForkDelete, ForkQueue, AssignDone, WakeOne
<1>6. ASSUME NEW s \in Session, AgentStep(s) PROVE owner'[u] = owner[u]
  BY <1>1, <1>6 DEF AgentStep, AgentList, AgentUpdate, EndTurn
<1>7. ASSUME NEW s \in Session, TurnStart(s) \/ Settle(s) \/ SendMessage(s) PROVE UNCHANGED owner
  BY <1>7 DEF TurnStart, Settle, SettleRead, SettleRecord, Nudge, SendMessage
<1>8. ASSUME NEW a \in Actor, Crash(a) PROVE UNCHANGED owner
  BY <1>8 DEF Crash
<1>9. ASSUME NEW p \in People, NEW t \in Task, NEW new \in TaskStatus, PersonUpdate(p, t, new)
      PROVE  UNCHANGED owner
  BY <1>9 DEF PersonUpdate
<1> QED
  BY <1>4, <1>5, <1>6, <1>7, <1>8, <1>9 DEF Next, vars

-----------------------------------------------------------------------------
(* Most steps move one actor on, and write no task. *)

\* Nobody but actor a moves.
OnlyMoves(a) ==
  \A b \in Actor \ {a} : pc'[b] = pc[b] /\ job'[b] = job[b] /\ plan'[b] = plan[b]

\* Only a moves, no task is written, and a is not left with a task to write.
Quiet(a) ==
  /\ OnlyMoves(a)
  /\ UNCHANGED status
  /\ pc'[a] \notin {"claim", "write", "skip", "forkclaim", "forkqueue", "forkdelete"}

LEMMA ReturnQuiet ==
  ASSUME TypeOK, NEW a \in Actor, Return(a), UNCHANGED status PROVE Quiet(a)
BY DEF TypeOK, Job, Return, Goto, Quiet, OnlyMoves

\* The steps that are not quiet.
Loud(a) ==
  \/ \E t \in Task, new \in TaskStatus :
        (a \in Session /\ AgentUpdate(a, t, new)) \/ (a \in People /\ PersonUpdate(a, t, new))
  \/ a \in Session /\ AgentClaim(a)
  \/ WriteTask(a) \/ EvaluateRead(a) \/ SkipOne(a)
  \/ (\E t \in Task : AssignFork(a, t)) \/ ForkClaim(a)

LEMMA StepsAreLoudOrQuiet ==
  ASSUME TypeOK, [Next]_vars
  PROVE  (\E a \in Actor : Loud(a) \/ Quiet(a)) \/ UNCHANGED <<status, pc, job, plan>>
<1> USE ActorTyped DEF TypeOK
<1>1. ASSUME NEW a \in Actor, Evaluate(a) PROVE Loud(a) \/ Quiet(a)
  BY <1>1, ReturnQuiet
     DEF Evaluate, EvaluateReread, FinishRead, Stamp, NoticeRead, Notify, Goto, AfterSkips,
         Loud, Quiet, OnlyMoves
<1>2. ASSUME NEW a \in Actor, Schedule(a) PROVE Loud(a) \/ Quiet(a)
  <2>1. ASSUME ReadSessions(a) \/ ForkDelete(a) \/ ForkQueue(a) PROVE Quiet(a)
    BY <2>1 DEF ReadSessions, ForkDelete, ForkQueue, Goto, Quiet, OnlyMoves
  <2>2. ASSUME NEW t \in Task, AssignExisting(a, t) PROVE Quiet(a)
    BY <2>2 DEF AssignExisting, PlansNext, Quiet, OnlyMoves
  <2>3. ASSUME AssignDone(a) PROVE Quiet(a)
    BY <2>3, ReturnQuiet DEF AssignDone, AfterAssign, Goto, Quiet, OnlyMoves
  <2>4. ASSUME WakeOne(a) PROVE Quiet(a)
    <3>1. CASE Return(a)
      BY <2>4, <3>1, ReturnQuiet DEF WakeOne
    <3>2. CASE ~ Return(a)
      BY <2>4, <3>2 DEF WakeOne, Quiet, OnlyMoves
    <3> QED BY <3>1, <3>2
  <2> QED BY <1>2, <2>1, <2>2, <2>3, <2>4 DEF Schedule, Loud
<1>3. ASSUME NEW s \in Session, TurnStart(s) \/ AgentStep(s) PROVE Loud(s) \/ Quiet(s)
  <2>1. ASSUME TurnStart(s) PROVE Quiet(s)
    BY <2>1 DEF TurnStart, Goto, Quiet, OnlyMoves
  <2>2. ASSUME AgentList(s) PROVE Quiet(s)
    BY <2>2 DEF AgentList, Quiet, OnlyMoves
  <2>3. ASSUME NEW end \in TurnEnds, EndTurn(s, end) PROVE Quiet(s)
    BY <2>3 DEF EndTurn, Goto, Quiet, OnlyMoves
  <2> QED BY <1>3, <2>1, <2>2, <2>3 DEF AgentStep, Loud
<1>4. ASSUME NEW s \in Session, Settle(s) PROVE Quiet(s)
  BY <1>4, ReturnQuiet
     DEF Settle, SettleRead, SettleRecord, FollowUp, NudgeOnly, Nudge, Goto, Quiet, OnlyMoves
<1>5. ASSUME NEW a \in Actor, Crash(a) PROVE Quiet(a)
  BY <1>5 DEF Crash, Goto, Quiet, OnlyMoves
<1>6. ASSUME NEW s \in Session, SendMessage(s) PROVE UNCHANGED <<status, pc, job, plan>>
  BY <1>6 DEF SendMessage
<1> QED
  BY <1>1, <1>2, <1>3, <1>4, <1>5, <1>6 DEF Next, vars, Loud

-----------------------------------------------------------------------------
(* Type correctness and the finality of ownership. *)

LEMMA JobStep == TypeOK /\ JobInv /\ [Next]_vars => JobInv'
<1> SUFFICES ASSUME TypeOK, JobInv, [Next]_vars PROVE JobInv'
  OBVIOUS
<1> USE DEF TypeOK, JobInv, Goto
<1>1. ASSUME NEW a \in Actor, Quiet(a) PROVE JobInv'
  BY <1>1 DEF Quiet, OnlyMoves
<1>2. ASSUME NEW s \in Session, NEW t \in Task, NEW new \in TaskStatus, AgentUpdate(s, t, new)
      PROVE  JobInv'
  BY <1>2, ActorTyped DEF AgentUpdate
<1>3. ASSUME NEW p \in People, NEW t \in Task, NEW new \in TaskStatus, PersonUpdate(p, t, new)
      PROVE  JobInv'
  BY <1>3, ActorTyped DEF PersonUpdate
<1>4. ASSUME NEW s \in Session, AgentClaim(s) PROVE JobInv'
  <2>1. CASE Return(s)
    BY <2>1, <1>1, ActorTyped, ReturnQuiet, <1>4 DEF AgentClaim
  <2>2. CASE ~ Return(s)
    BY <1>4, <2>2, ActorTyped DEF AgentClaim
  <2> QED BY <2>1, <2>2
<1>5. ASSUME NEW a \in Actor, WriteTask(a) \/ EvaluateRead(a) PROVE JobInv'
  BY <1>5 DEF WriteTask, EvaluateRead, AfterSkips
<1>6. ASSUME NEW a \in Actor, SkipOne(a) PROVE JobInv'
  <2>1. pc' = [pc EXCEPT ![a] = "reread"] \/ pc' = [pc EXCEPT ![a] = "skip"]
    BY <1>6 DEF SkipOne
  <2> QED BY <1>6, <2>1 DEF SkipOne
<1>7. ASSUME NEW a \in Actor, NEW t \in Task, AssignFork(a, t) PROVE JobInv'
  <2>1. PICK b \in Branch : job' = [job EXCEPT ![a] = [[job[a] EXCEPT !.task = t] EXCEPT !.target = b]]
    BY <1>7 DEF AssignFork
  <2>2. /\ [[job[a] EXCEPT !.task = t] EXCEPT !.target = b].task = t
        /\ [[job[a] EXCEPT !.task = t] EXCEPT !.target = b].target = b
    BY DEF Job
  <2> QED BY <1>7, <2>1, <2>2 DEF AssignFork
<1>8. ASSUME NEW a \in Actor, ForkClaim(a) PROVE JobInv'
  BY <1>8 DEF ForkClaim
<1>9. CASE UNCHANGED <<status, pc, job, plan>>
  BY <1>9
<1> QED
  BY <1>1, <1>2, <1>3, <1>4, <1>5, <1>6, <1>7, <1>8, <1>9, StepsAreLoudOrQuiet DEF Loud

LEMMA SpecTyped == Spec => [](TypeOK /\ JobInv)
<1>1. Init => JobInv
  BY DEF Init, JobInv
<1> QED BY <1>1, InitTyped, StepTyped, JobStep, PTL DEF Spec

\* Every reachable state of a run is typed: whatever fails or is refused on the
\* way, no status outside its enumeration is ever stored.
THEOREM TypeCorrect == Spec => []TypeOK
BY SpecTyped, PTL

\* For every workflow, and however many writers race for a task, the session
\* recorded on it never changes (SqlWorkflowTaskRepository.claim).
THEOREM OwnershipIsFinal == Spec => OwnerIsFinal
<1>1. TypeOK /\ JobInv /\ [Next]_vars => [\A t \in Task : owner[t] # None => owner'[t] = owner[t]]_owner
  BY OwnerStep
<1> QED BY <1>1, SpecTyped, PTL DEF Spec, OwnerIsFinal

-----------------------------------------------------------------------------
(* The order of the tasks, while only agents move them and only forward.  The  *)
(* checks, claims and writes of a task are separate transactions; what keeps   *)
(* them in order is that a task in hand is its session's own, and that what a  *)
(* check saw of its dependencies -- completed -- cannot be undone.             *)

Forward == {<<"pending", "in_progress">>, <<"in_progress", "completed">>,
            <<"in_progress", "failed">>}

OnlyAgentsForward == AgentMoves \subseteq Forward /\ PersonMoves = {}

Started(t) == status[t] \in {"in_progress", "completed", "failed"}
Failed == {t \in Task : status[t] = "failed"}

\* A task that started has a session, and its dependencies are completed.
StartInv ==
  \A t \in Task : Started(t) => owner[t] # None /\ DepsCompleted(status, t)

\* A task in a session's hand may start; it is being written only by its owner,
\* and is as that owner left it.
InHandInv ==
  \A a \in Actor : pc[a] \in {"claim", "write"} =>
    /\ a \in Session
    /\ DepsCompleted(status, job[a].task)
    /\ job[a].new \in {"in_progress", "completed", "failed"}
    /\ pc[a] = "claim" => job[a].new = "in_progress"
    /\ pc[a] = "write" =>
         /\ owner[job[a].task] = a
         /\ IF job[a].new = "in_progress" THEN ~ Started(job[a].task)
                                         ELSE status[job[a].task] = "in_progress"

\* What is about to be skipped depends on a task that failed.
SkipInv == \A a \in Actor : pc[a] = "skip" => plan[a].todo \subseteq Blocked(Failed)

OrderInv == StartInv /\ InHandInv /\ SkipInv

\* More failures block more tasks.
LEMMA BlockedMonotone ==
  ASSUME NEW F, NEW G, F \subseteq G PROVE Blocked(F) \subseteq Blocked(G)
BY DEF Blocked

\* A task that depends on a failed one, however far, has not started and cannot.
LEMMA BlockedNotStarted ==
  ASSUME StartInv, NEW t \in Blocked(Failed)
  PROVE  t \in Task /\ ~ Started(t) /\ ~ DepsCompleted(status, t)
<1> DEFINE S == {u \in Task : ~ Started(u) /\ ~ DepsCompleted(status, u)}
<1>1. ASSUME NEW u \in Task, Deps[u] \cap (Failed \cup S) # {} PROVE u \in S
  BY <1>1 DEF StartInv, DepsCompleted, Failed, Started
<1>2. S \in SUBSET Task
  OBVIOUS
<1> HIDE DEF S
<1>3. t \in S
  BY <1>1, <1>2 DEF Blocked
<1> QED BY <1>3 DEF S, Blocked

LEMMA NoSelfDependency == ASSUME NEW t \in Task PROVE t \notin Deps[t] /\ Deps[t] \subseteq Task
BY TaskAssumption

LEMMA OrderStep ==
  ASSUME OnlyAgentsForward, TypeOK, JobInv, OrderInv, [Next]_vars PROVE OrderInv'
<1> USE DEF OrderInv
<1>0. \A u \in Task : owner[u] # None => owner'[u] = owner[u]
  BY OwnerStep
<1>1. ASSUME UNCHANGED status PROVE StartInv'
  BY <1>0, <1>1 DEF StartInv, Started, DepsCompleted
<1>2. ASSUME NEW a \in Actor, OnlyMoves(a), UNCHANGED status,
             pc'[a] \notin {"claim", "write"}
      PROVE  InHandInv'
  <2>1. \A b \in Actor : pc'[b] \in {"claim", "write"} =>
          b # a /\ pc'[b] = pc[b] /\ job'[b] = job[b]
    BY <1>2 DEF OnlyMoves
  <2>2. \A b \in Actor : pc[b] = "write" => owner'[job[b].task] = owner[job[b].task]
    BY <1>0, SessionAssumption DEF InHandInv, JobInv
  <2> QED BY <1>2, <2>1, <2>2 DEF InHandInv, Started, DepsCompleted
<1>3. ASSUME NEW a \in Actor, OnlyMoves(a), UNCHANGED status, pc'[a] # "skip"
      PROVE  SkipInv'
  BY <1>3 DEF OnlyMoves, SkipInv, Failed, Blocked
<1>4. ASSUME NEW a \in Actor, Quiet(a) PROVE OrderInv'
  BY <1>1, <1>2, <1>3, <1>4 DEF Quiet
<1>5. ASSUME NEW s \in Session, NEW t \in Task, NEW new \in TaskStatus, AgentUpdate(s, t, new)
      PROVE  OrderInv'
  <2>1. /\ <<status[t], new>> \in Forward /\ owner[t] \in {None, s}
        /\ new = "in_progress" => DepsCompleted(status, t)
        /\ UNCHANGED <<status, owner>>
    BY <1>5 DEF AgentUpdate, OnlyAgentsForward, MayTouch
  <2>2. s \in Actor /\ OnlyMoves(s)
    BY <1>5, ActorTyped DEF AgentUpdate, Goto, OnlyMoves, TypeOK
  <2>3. job'[s].task = t /\ job'[s].new = new
    BY <1>5, <2>2 DEF AgentUpdate, TypeOK
  <2>4. pc'[s] = IF new = "in_progress" /\ owner[t] = None THEN "claim" ELSE "write"
    BY <1>5, <2>2 DEF AgentUpdate, Goto, TypeOK
  <2>5. DepsCompleted(status, t) /\ new \in {"in_progress", "completed", "failed"}
    BY <2>1 DEF Forward, StartInv, Started
  <2>6. /\ pc'[s] = "claim" => new = "in_progress"
        /\ pc'[s] = "write" =>
             /\ owner[t] = s
             /\ IF new = "in_progress" THEN ~ Started(t) ELSE status[t] = "in_progress"
    BY <2>1, <2>4 DEF Forward, StartInv, Started
  <2>7. InHandInv'
    BY <2>1, <2>2, <2>3, <2>5, <2>6 DEF InHandInv, OnlyMoves, Started, DepsCompleted
  <2> QED BY <1>1, <1>3, <2>1, <2>2, <2>4, <2>7
<1>6. ASSUME NEW s \in Session, AgentClaim(s) PROVE OrderInv'
  <2> DEFINE t == job[s].task
  <2>1. pc[s] = "claim" /\ t \in Task /\ s \in Actor /\ UNCHANGED status /\ Claims(t, s)
    BY <1>6, ActorTyped DEF AgentClaim, JobInv
  <2>2. CASE Return(s)
    BY <2>1, <2>2, <1>4, ReturnQuiet
  <2>3. CASE ~ Return(s)
    <3>1. owner[t] = None /\ pc' = [pc EXCEPT ![s] = "write"] /\ UNCHANGED <<job, plan>>
      BY <1>6, <2>3 DEF AgentClaim, Goto
    <3>2. owner'[t] = s /\ ~ Started(t)
      BY <2>1, <3>1 DEF Claims, TypeOK, StartInv
    <3>3. \A b \in Actor : pc[b] = "write" => owner'[job[b].task] = owner[job[b].task]
      BY <1>0, SessionAssumption DEF InHandInv, JobInv
    <3>4. InHandInv'
      BY <2>1, <3>1, <3>2, <3>3 DEF InHandInv, TypeOK, Started, DepsCompleted
    <3>5. OnlyMoves(s) /\ pc'[s] # "skip"
      BY <2>1, <3>1 DEF OnlyMoves, TypeOK
    <3> QED BY <1>1, <1>3, <2>1, <3>4, <3>5
  <2> QED BY <2>2, <2>3
<1>7. ASSUME NEW p \in People, NEW t \in Task, NEW new \in TaskStatus, PersonUpdate(p, t, new)
      PROVE  FALSE
  BY <1>7 DEF PersonUpdate, OnlyAgentsForward
<1>8. ASSUME NEW a \in Actor, WriteTask(a) PROVE OrderInv'
  <2> DEFINE t == job[a].task
             new == job[a].new
  <2>1. /\ pc[a] = "write" /\ t \in Task /\ owner[t] = a /\ a \in Session
        /\ DepsCompleted(status, t) /\ new \in {"in_progress", "completed", "failed"}
        /\ IF new = "in_progress" THEN ~ Started(t) ELSE status[t] = "in_progress"
    BY <1>8 DEF WriteTask, InHandInv, JobInv
  <2>2. /\ status' = [status EXCEPT ![t] = new] /\ pc' = [pc EXCEPT ![a] = "evaluate"]
        /\ UNCHANGED <<owner, job, plan>>
    BY <1>8 DEF WriteTask, SetStatus, Goto
  <2> HIDE DEF t, new
  <2>3. status'[t] = new /\ status[t] # "completed" /\ status[t] # "failed"
    BY <2>1, <2>2 DEF TypeOK, Started
  <2>4. \A u \in Task \ {t} : status'[u] = status[u]
    BY <2>2 DEF TypeOK
  <2>5. \A u \in Task : DepsCompleted(status, u) => DepsCompleted(status, u)'
    BY <2>3, <2>4, NoSelfDependency DEF DepsCompleted
  <2>6. StartInv'
    BY <2>1, <2>2, <2>3, <2>4, <2>5, SessionAssumption DEF StartInv, Started
  <2>7. ASSUME NEW b \in Actor \ {a}, pc[b] = "write" PROVE job[b].task \in Task \ {t}
    BY <2>1, <2>7 DEF InHandInv, JobInv
  <2>8. \A b \in Actor : pc'[b] \in {"claim", "write"} => b # a /\ pc'[b] = pc[b] /\ job[b].task \in Task
    BY <2>2 DEF TypeOK, JobInv
  <2>9. InHandInv'
    <3>1. \A b \in Actor \ {a} : pc[b] = "write" => status'[job[b].task] = status[job[b].task]
      BY <2>4, <2>7
    <3>2. \A b \in Actor : pc'[b] \in {"claim", "write"} =>
            \A d \in Deps[job[b].task] : status'[d] = "completed"
      BY <2>5, <2>8 DEF InHandInv, DepsCompleted
    <3> QED BY <2>2, <2>8, <3>1, <3>2 DEF InHandInv, Started, DepsCompleted
  <2>10. Failed \subseteq Failed'
    BY <2>3, <2>4 DEF Failed
  <2>11. SkipInv'
    <3>1. Blocked(Failed) \subseteq Blocked(Failed')
      BY <2>10, BlockedMonotone
    <3>2. \A b \in Actor : pc'[b] = "skip" => pc[b] = "skip" /\ plan'[b] = plan[b]
      BY <2>2 DEF TypeOK
    <3>3. Blocked(Failed') = Blocked(Failed)'
      BY DEF Blocked
    <3> QED BY <3>1, <3>2, <3>3 DEF SkipInv
  <2> QED BY <2>6, <2>9, <2>11
<1>9. ASSUME NEW a \in Actor, EvaluateRead(a) PROVE OrderInv'
  <2> DEFINE blocked == {t \in Blocked(Failed) : status[t] = "pending"}
  <2>1. UNCHANGED status /\ OnlyMoves(a) /\ pc'[a] \notin {"claim", "write"}
    BY <1>9 DEF EvaluateRead, ReadTasks, Goto, OnlyMoves, AfterSkips, TypeOK
  <2>2. plan'[a].todo = blocked
    BY <1>9 DEF EvaluateRead, Failed, TypeOK, Plan
  <2>3. SkipInv'
    BY <2>1, <2>2 DEF SkipInv, OnlyMoves, Failed, Blocked
  <2> QED BY <1>1, <1>2, <2>1, <2>3
<1>10. ASSUME NEW a \in Actor, SkipOne(a) PROVE OrderInv'
  <2>1. PICK t \in plan[a].todo :
             /\ SetStatus(t, "skipped")
             /\ plan' = [plan EXCEPT ![a] = [plan[a] EXCEPT !.todo = plan[a].todo \ {t}]]
             /\ Goto(a, IF plan[a].todo = {t} THEN "reread" ELSE "skip")
    BY <1>10 DEF SkipOne
  <2>2. pc[a] = "skip" /\ UNCHANGED <<owner, job>> /\ status' = [status EXCEPT ![t] = "skipped"]
    BY <1>10, <2>1 DEF SkipOne, SetStatus
  <2>3. t \in Task /\ ~ Started(t)
    BY <2>2, BlockedNotStarted DEF SkipInv
  <2>4. /\ status'[t] = "skipped" /\ \A u \in Task \ {t} : status'[u] = status[u]
    BY <2>2, <2>3 DEF TypeOK
  <2>5. \A u \in Task : DepsCompleted(status, u) => DepsCompleted(status, u)'
    BY <2>3, <2>4, NoSelfDependency DEF DepsCompleted, Started
  <2>6. StartInv'
    BY <2>2, <2>4, <2>5 DEF StartInv, Started
  <2>7. pc'[a] \in {"reread", "skip"} /\ \A b \in Actor \ {a} : pc'[b] = pc[b] /\ plan'[b] = plan[b]
    BY <2>1 DEF Goto, TypeOK
  <2>8. \A b \in Actor : pc'[b] \in {"claim", "write"} => pc'[b] = pc[b] /\ job[b].task \in Task
    BY <2>7 DEF JobInv
  <2>9. InHandInv'
    <3>1. \A b \in Actor : pc[b] = "write" =>
            IF job[b].new = "in_progress"
            THEN status'[job[b].task] \notin {"in_progress", "completed", "failed"}
            ELSE status'[job[b].task] = "in_progress"
      <4>1. ASSUME NEW b \in Actor, pc[b] = "write", job[b].task = t
            PROVE  job[b].new = "in_progress"
        BY <2>3, <4>1 DEF InHandInv, Started
      <4>2. ASSUME NEW b \in Actor, pc[b] = "write", job[b].task # t
            PROVE  status'[job[b].task] = status[job[b].task]
        BY <2>4, <4>2 DEF JobInv
      <4> QED BY <2>4, <4>1, <4>2 DEF InHandInv, Started
    <3>2. \A b \in Actor : pc'[b] \in {"claim", "write"} =>
            \A d \in Deps[job[b].task] : status'[d] = "completed"
      BY <2>5, <2>8 DEF InHandInv, DepsCompleted
    <3> QED BY <2>2, <2>8, <3>1, <3>2 DEF InHandInv, Started, DepsCompleted
  <2>10. Failed' = Failed
    BY <2>3, <2>4 DEF Failed, Started
  <2>11. plan'[a].todo \subseteq plan[a].todo
    BY <2>1 DEF TypeOK, Plan
  <2>12. SkipInv'
    BY <2>2, <2>7, <2>10, <2>11 DEF SkipInv, Blocked
  <2> QED BY <2>6, <2>9, <2>12
<1>11. ASSUME NEW a \in Actor, ForkClaim(a) \/ \E t \in Task : AssignFork(a, t) PROVE OrderInv'
  <2>1. OnlyMoves(a) /\ UNCHANGED status /\ pc'[a] \in {"forkclaim", "forkqueue", "forkdelete"}
    BY <1>11 DEF ForkClaim, AssignFork, Goto, OnlyMoves, TypeOK
  <2> QED BY <1>1, <1>2, <1>3, <2>1
<1>12. CASE UNCHANGED <<status, pc, job, plan>>
  <2>1. \A b \in Actor : pc[b] = "write" => owner'[job[b].task] = owner[job[b].task]
    BY <1>0, SessionAssumption DEF InHandInv, JobInv
  <2> QED BY <1>1, <1>12, <2>1 DEF InHandInv, SkipInv, Started, DepsCompleted, Failed, Blocked
<1> QED
  BY <1>4, <1>5, <1>6, <1>7, <1>8, <1>9, <1>10, <1>11, <1>12, StepsAreLoudOrQuiet DEF Loud

LEMMA OrderInit == Init => OrderInv
BY SessionAssumption DEF Init, OrderInv, StartInv, InHandInv, SkipInv, Started

\* While only agents move tasks, and only forward, no task is in progress or done
\* before all its dependencies completed -- for every workflow, session limit, and
\* any number of crashes (the check, claim and write of update_workflow_task).
THEOREM TasksStartInOrder ==
  ASSUME OnlyAgentsForward PROVE Spec => []StartedAfterDeps
<1>1. TypeOK /\ JobInv /\ OrderInv /\ [Next]_vars => OrderInv'
  BY OrderStep
<1>2. OrderInv => StartedAfterDeps
  BY DEF OrderInv, StartInv, StartedAfterDeps, Started, DepsCompleted
<1> QED BY <1>1, <1>2, OrderInit, SpecTyped, PTL DEF Spec

LEMMA SkipStep ==
  ASSUME TypeOK, JobInv, OrderInv, [Next]_vars, NEW t \in Task, status'[t] = "skipped"
  PROVE  status[t] \in {"pending", "skipped"}
<1>1. ASSUME NEW a \in Actor, WriteTask(a) PROVE status[t] = "skipped"
  <2>1. job[a].new \in {"in_progress", "completed", "failed"} /\ job[a].task \in Task
    BY <1>1 DEF WriteTask, OrderInv, InHandInv, JobInv
  <2>2. status' = [status EXCEPT ![job[a].task] = job[a].new]
    BY <1>1 DEF WriteTask, SetStatus
  <2> QED BY <2>1, <2>2 DEF TypeOK
<1>2. ASSUME NEW a \in Actor, SkipOne(a) PROVE status[t] \in {"pending", "skipped"}
  <2>1. PICK u \in plan[a].todo : status' = [status EXCEPT ![u] = "skipped"]
    BY <1>2 DEF SkipOne, SetStatus
  <2>2. plan[a].todo \subseteq Blocked(Failed) /\ StartInv
    BY <1>2 DEF SkipOne, OrderInv, SkipInv
  <2>3. u \in Task /\ ~ Started(u)
    BY <2>2, BlockedNotStarted
  <2> QED BY <2>1, <2>3 DEF TypeOK, TaskStatus, Started
<1>3. ASSUME NEW a \in Actor, Loud(a) \/ Quiet(a) PROVE WriteTask(a) \/ SkipOne(a) \/ UNCHANGED status
  BY <1>3 DEF Loud, Quiet, AgentUpdate, PersonUpdate, AgentClaim, EvaluateRead, AssignFork,
              ForkClaim
<1> QED
  BY <1>1, <1>2, <1>3, StepsAreLoudOrQuiet DEF TypeOK

\* Under the same condition the skipping of a failed task's dependents, one write
\* at a time and from a list read earlier, never overwrites a task that started
\* (_skip_blocked_dependents).
THEOREM SkipsSpareStarted ==
  ASSUME OnlyAgentsForward PROVE Spec => SkipsOnlyPending
<1>1. TypeOK /\ JobInv /\ OrderInv /\ [Next]_vars => OrderInv'
  BY OrderStep
<1>2. TypeOK /\ JobInv /\ OrderInv /\ [Next]_vars
        => [\A t \in Task : status'[t] = "skipped" => status[t] \in {"pending", "skipped"}]_status
  BY SkipStep
<1> QED BY <1>1, <1>2, OrderInit, SpecTyped, PTL DEF Spec, SkipsOnlyPending

-----------------------------------------------------------------------------
(* The end of a run, under the same condition: a task that ended stays as it   *)
(* ended, so that what an actor read before it stamps the run is still so.     *)

\* Only a task with a failed one behind it is skipped.
SkippedInv == \A t \in Task : status[t] = "skipped" => t \in Blocked(Failed)

Ended == \A t \in Task : status[t] \in Terminal

\* An actor about to finish the run has read it as it is.
FinishInv ==
  \A a \in Actor : pc[a] \in {"finish", "stamp"} => snap[a].status = status /\ Ended

OutcomeInv == outcome # "none" => Ended /\ OutcomeMatchesTasks

EndInv == OrderInv /\ SkippedInv /\ FinishInv /\ OutcomeInv

\* No write, and no skip, replaces the status a task ended with.
LEMMA EndedStays ==
  ASSUME TypeOK, JobInv, OrderInv, SkippedInv, [Next]_vars,
         NEW t \in Task, status[t] \in Terminal
  PROVE  status'[t] = status[t]
<1>0. StartInv /\ InHandInv /\ SkipInv
  BY DEF OrderInv
<1>1. ASSUME NEW a \in Actor, WriteTask(a) PROVE status'[t] = status[t]
  <2>1. /\ pc[a] = "write" /\ job[a].task \in Task
        /\ status' = [status EXCEPT ![job[a].task] = job[a].new]
    BY <1>1 DEF WriteTask, SetStatus, JobInv
  <2>2. CASE t = job[a].task
    <3>1. ~ Started(t) /\ DepsCompleted(status, t)
      BY <1>0, <2>1, <2>2 DEF InHandInv, Terminal, Unfinished
    <3>2. status[t] = "skipped"
      BY <3>1 DEF Terminal, TaskStatus, Unfinished, Started
    <3> QED BY <1>0, <3>1, <3>2, BlockedNotStarted DEF SkippedInv
  <2> QED BY <2>1, <2>2 DEF TypeOK
<1>2. ASSUME NEW a \in Actor, SkipOne(a) PROVE status'[t] = status[t]
  <2>1. PICK u \in plan[a].todo : status' = [status EXCEPT ![u] = "skipped"]
    BY <1>2 DEF SkipOne, SetStatus
  <2>2. u \in Task /\ ~ Started(u)
    BY <1>0, <1>2, BlockedNotStarted DEF SkipOne, SkipInv
  <2> QED BY <2>1, <2>2 DEF TypeOK, Terminal, TaskStatus, Unfinished, Started
<1>3. ASSUME NEW a \in Actor, Loud(a) \/ Quiet(a)
      PROVE  WriteTask(a) \/ SkipOne(a) \/ UNCHANGED status
  BY <1>3 DEF Loud, Quiet, AgentUpdate, PersonUpdate, AgentClaim, EvaluateRead, AssignFork,
              ForkClaim
<1> QED BY <1>1, <1>2, <1>3, StepsAreLoudOrQuiet

LEMMA SkippedStep ==
  ASSUME TypeOK, JobInv, OrderInv, SkippedInv, [Next]_vars PROVE SkippedInv'
<1> SUFFICES ASSUME NEW t \in Task, status'[t] = "skipped" PROVE t \in Blocked(Failed')
  BY DEF SkippedInv, Blocked
<1>1. Failed \subseteq Failed'
  BY EndedStays DEF Failed, Terminal, TaskStatus, Unfinished
<1>2. ASSUME NEW a \in Actor, WriteTask(a) PROVE t \in Blocked(Failed)
  <2>1. job[a].new \in {"in_progress", "completed", "failed"} /\ job[a].task \in Task
    BY <1>2 DEF WriteTask, OrderInv, InHandInv, JobInv
  <2>2. status' = [status EXCEPT ![job[a].task] = job[a].new]
    BY <1>2 DEF WriteTask, SetStatus
  <2>3. status[t] = "skipped"
    BY <2>1, <2>2 DEF TypeOK
  <2> QED BY <2>3 DEF SkippedInv
<1>3. ASSUME NEW a \in Actor, SkipOne(a) PROVE t \in Blocked(Failed)
  <2>1. PICK u \in plan[a].todo : status' = [status EXCEPT ![u] = "skipped"]
    BY <1>3 DEF SkipOne, SetStatus
  <2>2. u \in Blocked(Failed) /\ u \in Task
    BY <1>3, <2>1, BlockedNotStarted DEF SkipOne, OrderInv, SkipInv
  <2> QED BY <2>1, <2>2 DEF TypeOK, SkippedInv
<1>4. ASSUME UNCHANGED status PROVE t \in Blocked(Failed)
  BY <1>4 DEF SkippedInv
<1>5. ASSUME NEW a \in Actor, Loud(a) \/ Quiet(a)
      PROVE  WriteTask(a) \/ SkipOne(a) \/ UNCHANGED status
  BY <1>5 DEF Loud, Quiet, AgentUpdate, PersonUpdate, AgentClaim, EvaluateRead, AssignFork,
              ForkClaim
<1>6. t \in Blocked(Failed)
  BY <1>2, <1>3, <1>4, <1>5, StepsAreLoudOrQuiet
<1> QED BY <1>1, <1>6, BlockedMonotone

\* What a step may do to an actor about to finish the run, and to its outcome.
Finishing(a) == pc[a] \in {"finish", "stamp"}

LEMMA FinishingSteps ==
  ASSUME TypeOK, [Next]_vars
  PROVE  /\ \A b \in Actor : Finishing(b)' =>
              \/ Finishing(b) /\ snap'[b] = snap[b]
              \/ UNCHANGED status /\ snap'[b].status = status /\ AfterSkips = "finish"
         /\ UNCHANGED outcome \/ \E a \in Actor : Stamp(a)
<1> DEFINE Spared(a) ==
             /\ \A b \in Actor : Finishing(b)' =>
                  \/ Finishing(b) /\ snap'[b] = snap[b]
                  \/ UNCHANGED status /\ snap'[b].status = status /\ AfterSkips = "finish"
             /\ UNCHANGED outcome \/ Stamp(a)
<1> USE ActorTyped DEF TypeOK, Finishing, Goto, turnVars, runVars, boundVars
<1>0. ASSUME NEW a \in Actor, Return(a), UNCHANGED outcome PROVE Spared(a)
  BY <1>0 DEF Return, Job
<1>1. ASSUME NEW a \in Actor, Evaluate(a) PROVE Spared(a)
  <2>1. ASSUME WriteTask(a) \/ FinishRead(a) \/ Stamp(a) PROVE Spared(a)
    BY <2>1 DEF WriteTask, FinishRead, Stamp
  <2>2. ASSUME EvaluateRead(a) \/ EvaluateReread(a) PROVE Spared(a)
    <3>1. /\ pc' = [pc EXCEPT ![a] = "skip"] \/ pc' = [pc EXCEPT ![a] = AfterSkips]
          /\ UNCHANGED <<status, outcome>>
          /\ snap' = [snap EXCEPT ![a] = [status |-> status, owner |-> owner,
                                         over |-> outcome # "none"]]
      BY <2>2 DEF EvaluateRead, EvaluateReread, ReadTasks
    <3>2. snap'[a].status = status /\ \A b \in Actor \ {a} : snap'[b] = snap[b]
      BY <3>1
    <3>3. pc'[a] \in {"skip", AfterSkips} /\ \A b \in Actor \ {a} : pc'[b] = pc[b]
      BY <3>1
    <3>4. AfterSkips \in {"sessions", "finish"}
      BY DEF AfterSkips
    <3> QED BY <3>1, <3>2, <3>3, <3>4
  <2>4. ASSUME SkipOne(a) PROVE Spared(a)
    <3>1. /\ pc' = [pc EXCEPT ![a] = "reread"] \/ pc' = [pc EXCEPT ![a] = "skip"]
          /\ UNCHANGED <<snap, outcome>>
      BY <2>4 DEF SkipOne
    <3> QED BY <3>1
  <2>5. ASSUME NoticeRead(a) \/ Notify(a) PROVE Spared(a)
    BY <2>5, <1>0 DEF NoticeRead, Notify
  <2> QED BY <1>1, <2>1, <2>2, <2>4, <2>5 DEF Evaluate
<1>2. ASSUME NEW a \in Actor, Schedule(a) PROVE Spared(a)
  <2>1. ASSUME ReadSessions(a) \/ ForkClaim(a) \/ ForkDelete(a) \/ ForkQueue(a) PROVE Spared(a)
    BY <2>1 DEF ReadSessions, ForkClaim, ForkDelete, ForkQueue
  <2>2. ASSUME NEW t \in Task, AssignFork(a, t) \/ AssignExisting(a, t) PROVE Spared(a)
    BY <2>2 DEF AssignFork, AssignExisting
  <2>3. ASSUME AssignDone(a) PROVE Spared(a)
    BY <2>3, <1>0 DEF AssignDone, AfterAssign
  <2>4. ASSUME WakeOne(a) PROVE Spared(a)
    <3>1. (Return(a) \/ UNCHANGED <<pc, snap>>) /\ UNCHANGED outcome
      BY <2>4 DEF WakeOne
    <3> QED BY <3>1, <1>0
  <2> QED BY <1>2, <2>1, <2>2, <2>3, <2>4 DEF Schedule
<1>3. ASSUME NEW a \in Actor, Crash(a) PROVE Spared(a)
  BY <1>3 DEF Crash
<1>4. ASSUME NEW s \in Session, TurnStart(s) \/ AgentStep(s) PROVE Spared(s)
  <2>1. ASSUME NEW t \in Task, NEW new \in TaskStatus, AgentUpdate(s, t, new) PROVE Spared(s)
    <3>1. /\ pc' = [pc EXCEPT ![s] = "claim"] \/ pc' = [pc EXCEPT ![s] = "write"]
          /\ UNCHANGED <<snap, outcome>>
      BY <2>1 DEF AgentUpdate
    <3> QED BY <3>1
  <2>2. ASSUME AgentClaim(s) PROVE Spared(s)
    BY <2>2, <1>0 DEF AgentClaim
  <2>3. ASSUME TurnStart(s) \/ AgentList(s) \/ \E end \in TurnEnds : EndTurn(s, end) PROVE Spared(s)
    BY <2>3 DEF TurnStart, AgentList, EndTurn
  <2> QED BY <1>4, <2>1, <2>2, <2>3 DEF AgentStep
<1>5. ASSUME NEW s \in Session, Settle(s) \/ SendMessage(s) PROVE Spared(s)
  <2>1. ASSUME SettleRead(s) \/ SendMessage(s) PROVE Spared(s)
    BY <2>1 DEF SettleRead, ReadTasks, SendMessage
  <2>2. ASSUME SettleRecord(s) PROVE Spared(s)
    BY <2>2, <1>0 DEF SettleRecord, FollowUp, NudgeOnly
  <2>3. ASSUME Nudge(s) PROVE Spared(s)
    BY <2>3, <1>0 DEF Nudge
  <2> QED BY <1>5, <2>1, <2>2, <2>3 DEF Settle
<1>6. ASSUME NEW p \in People, NEW t \in Task, NEW new \in TaskStatus, PersonUpdate(p, t, new)
      PROVE  Spared(p)
  BY <1>6 DEF PersonUpdate
<1>7. CASE UNCHANGED vars
  BY <1>7 DEF vars
<1> QED BY <1>1, <1>2, <1>3, <1>4, <1>5, <1>6, <1>7 DEF Next

LEMMA EndStep ==
  ASSUME OnlyAgentsForward, TypeOK, JobInv, EndInv, [Next]_vars PROVE EndInv'
<1> USE DEF EndInv
<1>1. OrderInv'
  BY OrderStep
<1>2. SkippedInv'
  BY SkippedStep
<1>3. Ended => status' = status /\ Ended'
  <2> SUFFICES ASSUME Ended PROVE status' = status /\ Ended'
    OBVIOUS
  <2>1. \A t \in Task : status'[t] = status[t]
    BY EndedStays DEF Ended
  <2>2. TypeOK'
    BY StepTyped
  <2>3. status' = status
    BY <2>1, <2>2 DEF TypeOK
  <2> QED BY <2>3 DEF Ended
<1>4. AfterSkips = "finish" => Ended
  BY DEF AfterSkips, Ended, Terminal, TypeOK
<1>5. FinishInv'
  <2> SUFFICES ASSUME NEW b \in Actor, Finishing(b)'
               PROVE  snap'[b].status = status' /\ Ended'
    BY DEF FinishInv, Finishing
  <2>1. CASE Finishing(b) /\ snap'[b] = snap[b]
    BY <1>3, <2>1 DEF FinishInv, Finishing
  <2>2. CASE UNCHANGED status /\ snap'[b].status = status /\ AfterSkips = "finish"
    BY <1>3, <1>4, <2>2
  <2> QED BY <2>1, <2>2, FinishingSteps
<1>6. ASSUME UNCHANGED outcome PROVE OutcomeInv'
  BY <1>3, <1>6 DEF OutcomeInv, OutcomeMatchesTasks
<1>7. ASSUME NEW a \in Actor, Stamp(a) PROVE OutcomeInv'
  <2>1. snap[a].status = status /\ Ended /\ UNCHANGED status
    BY <1>7 DEF Stamp, FinishInv
  <2>2. outcome' = IF \E t \in Task : status[t] = "failed" THEN "failed" ELSE "completed"
    BY <1>7, <2>1 DEF Stamp
  <2> QED BY <2>1, <2>2 DEF OutcomeInv, OutcomeMatchesTasks, Ended
<1>8. OutcomeInv'
  BY <1>6, <1>7, FinishingSteps
<1> QED BY <1>1, <1>2, <1>5, <1>8

LEMMA EndInit == Init => EndInv
BY OrderInit DEF Init, EndInv, SkippedInv, FinishInv, OutcomeInv

LEMMA SpecEnds == ASSUME OnlyAgentsForward PROVE Spec => []EndInv
<1>1. TypeOK /\ JobInv /\ EndInv /\ [Next]_vars => EndInv'
  BY EndStep
<1> QED BY <1>1, EndInit, SpecTyped, PTL DEF Spec

\* While only agents move tasks, and only forward, a run is stamped finished only
\* when every task is terminal, and no task is ever unfinished again, however many
\* actors evaluate the run at once and whoever crashes (evaluate_completion).
THEOREM FinishedRunsStayFinished ==
  ASSUME OnlyAgentsForward PROVE Spec => []FinishedMeansTerminal
<1>1. EndInv => FinishedMeansTerminal
  BY DEF EndInv, OutcomeInv, Ended, FinishedMeansTerminal
<1> QED BY <1>1, SpecEnds, PTL

\* Under the same condition the outcome recorded is the tasks' own, whoever of
\* several evaluations records it and however often (mark_finished).
THEOREM OutcomesAreTheTasks ==
  ASSUME OnlyAgentsForward PROVE Spec => []OutcomeMatchesTasks
<1>1. EndInv => OutcomeMatchesTasks
  BY DEF EndInv, OutcomeInv, OutcomeMatchesTasks
<1> QED BY <1>1, SpecEnds, PTL

-----------------------------------------------------------------------------
(* Unraced executions: at most one actor at a time is scheduling, evaluating   *)
(* the run, or past its agent's last listing.                                  *)

MutexInv == \A a, b \in Actor : a # b => ~ (Busy(a) /\ Busy(b))

\* An actor in the middle of evaluating, scheduling or settling is busy.
LEMMA SchedulingIsBusy ==
  ASSUME NEW a \in Actor, pc[a] \notin {"off", "agent", "claim", "write"}, pc[a] \in PC
  PROVE  Busy(a)
BY DEF Busy, LeavingTurn, Scheduling

LEMMA MutexStep == MutexInv /\ [UnracedNext]_vars => MutexInv'
<1>1. CASE UNCHANGED vars
  BY <1>1 DEF vars, turnVars, MutexInv, Busy, LeavingTurn, Scheduling
<1>2. CASE UnracedNext
  BY <1>2 DEF UnracedNext, MutexInv
<1> QED BY <1>1, <1>2

LEMMA MutexInit == Init => MutexInv
BY DEF Init, MutexInv, Busy, LeavingTurn, Scheduling

LEMMA UnracedTyped == UnracedSpec => [](TypeOK /\ JobInv /\ MutexInv)
<1>1. [UnracedNext]_vars => [Next]_vars
  BY DEF UnracedNext
<1>2. Init => TypeOK /\ JobInv /\ MutexInv
  BY InitTyped, MutexInit DEF Init, JobInv
<1>3. TypeOK /\ JobInv /\ MutexInv /\ [UnracedNext]_vars => (TypeOK /\ JobInv /\ MutexInv)'
  BY <1>1, StepTyped, JobStep, MutexStep
<1> QED BY <1>2, <1>3, PTL DEF UnracedSpec

-----------------------------------------------------------------------------
(* One completion: what an actor about to write it has read is still so.       *)

\* The completion time is recorded with the outcome, once; an actor about to
\* record it, or to notify, has not been preceded.
OnceInv ==
  /\ outcome = "none" <=> stamps = 0
  /\ OneCompletion
  /\ \A a \in Actor : /\ pc[a] = "stamp" => outcome = "none"
                      /\ pc[a] = "notify" => notices = 0

\* What a step may do to the run's completion, and to an actor about to write it.
LEMMA CompletionSteps ==
  ASSUME TypeOK, [Next]_vars
  PROVE  /\ \A b \in Actor : pc'[b] = "stamp" => pc[b] = "stamp" \/ outcome = "none"
         /\ \A b \in Actor : pc'[b] = "notify" => pc[b] = "notify" \/ notices = 0
         /\ \/ UNCHANGED runVars
            \/ \E a \in Actor : /\ Stamp(a) \/ Notify(a)
                                /\ \A b \in Actor \ {a} : pc'[b] = pc[b]
                                /\ pc'[a] \notin {"stamp", "notify"}
<1> DEFINE Kept(a) ==
             /\ \A b \in Actor \ {a} : pc'[b] = pc[b]
             /\ pc'[a] = "stamp" => pc[a] = "stamp" \/ outcome = "none"
             /\ pc'[a] = "notify" => pc[a] = "notify" \/ notices = 0
             /\ UNCHANGED runVars \/ Stamp(a) \/ (Notify(a) /\ pc'[a] # "notify")
<1> USE ActorTyped DEF TypeOK, Goto
<1>0. ASSUME NEW a \in Actor, Return(a) PROVE pc' = [pc EXCEPT ![a] = job[a].ret] /\ job[a].ret \in {"agent", "off"}
  BY <1>0 DEF Return, Job
<1>1. ASSUME NEW a \in Actor, Evaluate(a) PROVE Kept(a)
  <2>1. ASSUME WriteTask(a) \/ FinishRead(a) \/ Stamp(a) PROVE Kept(a)
    BY <2>1 DEF WriteTask, FinishRead, Stamp
  <2>2. ASSUME EvaluateRead(a) \/ EvaluateReread(a) PROVE Kept(a)
    <3>1. /\ pc' = [pc EXCEPT ![a] = "skip"] \/ pc' = [pc EXCEPT ![a] = AfterSkips]
          /\ UNCHANGED runVars
      BY <2>2 DEF EvaluateRead, EvaluateReread
    <3>2. AfterSkips \in {"sessions", "finish"}
      BY DEF AfterSkips
    <3> QED BY <3>1, <3>2
  <2>3. ASSUME SkipOne(a) PROVE Kept(a)
    <3>1. /\ pc' = [pc EXCEPT ![a] = "reread"] \/ pc' = [pc EXCEPT ![a] = "skip"]
          /\ UNCHANGED runVars
      BY <2>3 DEF SkipOne
    <3> QED BY <3>1
  <2>4. ASSUME NoticeRead(a) \/ Notify(a) PROVE Kept(a)
    BY <2>4, <1>0 DEF NoticeRead, Notify
  <2> QED BY <1>1, <2>1, <2>2, <2>3, <2>4 DEF Evaluate
<1>2. ASSUME NEW a \in Actor, Schedule(a) PROVE Kept(a)
  <2>1. ASSUME ReadSessions(a) \/ ForkClaim(a) \/ ForkDelete(a) \/ ForkQueue(a) PROVE Kept(a)
    BY <2>1 DEF ReadSessions, ForkClaim, ForkDelete, ForkQueue
  <2>2. ASSUME NEW t \in Task, AssignFork(a, t) \/ AssignExisting(a, t) PROVE Kept(a)
    BY <2>2 DEF AssignFork, AssignExisting
  <2>3. ASSUME AssignDone(a) PROVE Kept(a)
    BY <2>3, <1>0 DEF AssignDone, AfterAssign
  <2>4. ASSUME WakeOne(a) PROVE Kept(a)
    <3>1. (Return(a) \/ UNCHANGED pc) /\ UNCHANGED runVars
      BY <2>4 DEF WakeOne
    <3> QED BY <3>1, <1>0
  <2> QED BY <1>2, <2>1, <2>2, <2>3, <2>4 DEF Schedule
<1>3. ASSUME NEW a \in Actor, Crash(a) PROVE Kept(a)
  BY <1>3 DEF Crash
<1>4. ASSUME NEW s \in Session, TurnStart(s) \/ AgentStep(s) PROVE Kept(s)
  <2>1. ASSUME NEW t \in Task, NEW new \in TaskStatus, AgentUpdate(s, t, new) PROVE Kept(s)
    <3>1. /\ pc' = [pc EXCEPT ![s] = "claim"] \/ pc' = [pc EXCEPT ![s] = "write"]
          /\ UNCHANGED runVars
      BY <2>1 DEF AgentUpdate
    <3> QED BY <3>1
  <2>2. ASSUME AgentClaim(s) PROVE Kept(s)
    BY <2>2, <1>0 DEF AgentClaim
  <2>3. ASSUME TurnStart(s) \/ AgentList(s) \/ \E end \in TurnEnds : EndTurn(s, end) PROVE Kept(s)
    BY <2>3 DEF TurnStart, AgentList, EndTurn
  <2> QED BY <1>4, <2>1, <2>2, <2>3 DEF AgentStep
<1>5. ASSUME NEW s \in Session, Settle(s) \/ SendMessage(s) PROVE Kept(s)
  <2>1. ASSUME SettleRead(s) \/ SendMessage(s) PROVE Kept(s)
    BY <2>1 DEF SettleRead, SendMessage
  <2>2. ASSUME SettleRecord(s) PROVE Kept(s)
    BY <2>2, <1>0 DEF SettleRecord, FollowUp, NudgeOnly
  <2>3. ASSUME Nudge(s) PROVE Kept(s)
    BY <2>3, <1>0 DEF Nudge
  <2> QED BY <1>5, <2>1, <2>2, <2>3 DEF Settle
<1>6. ASSUME NEW p \in People, NEW t \in Task, NEW new \in TaskStatus, PersonUpdate(p, t, new)
      PROVE  Kept(p)
  BY <1>6 DEF PersonUpdate
<1>7. ASSUME UNCHANGED vars PROVE UNCHANGED <<pc, runVars>>
  BY <1>7 DEF vars
<1>8. ASSUME NEW a \in Actor, Stamp(a) PROVE pc'[a] = "notice"
  BY <1>8 DEF Stamp
<1>9. (\E a \in Actor : Kept(a)) \/ UNCHANGED <<pc, runVars>>
  BY <1>1, <1>2, <1>3, <1>4, <1>5, <1>6, <1>7 DEF Next
<1>10. ASSUME NEW a \in Actor, Kept(a), ~ UNCHANGED runVars
       PROVE  (Stamp(a) \/ Notify(a)) /\ pc'[a] \notin {"stamp", "notify"}
  <2>1. CASE Stamp(a)
    BY <2>1, <1>8
  <2>2. CASE Notify(a)
    BY <2>2, <1>0 DEF Notify
  <2> QED BY <1>10, <2>1, <2>2
<1> HIDE DEF TypeOK, Goto
<1> QED BY <1>9, <1>10

LEMMA OnceStep ==
  ASSUME TypeOK, JobInv, MutexInv, OnceInv, [UnracedNext]_vars PROVE OnceInv'
<1> USE DEF OnceInv, OneCompletion
<1>0. [Next]_vars /\ TypeOK' /\ MutexInv'
  BY StepTyped, MutexStep DEF UnracedNext
<1>1. ASSUME UNCHANGED runVars PROVE OnceInv'
  BY <1>0, <1>1, CompletionSteps DEF runVars
<1>2. ASSUME NEW a \in Actor, Stamp(a) \/ Notify(a),
             \A b \in Actor \ {a} : pc'[b] = pc[b],
             pc'[a] \notin {"stamp", "notify"}
      PROVE  OnceInv'
  <2>1. pc[a] \in {"stamp", "notify"}
    BY <1>2 DEF Stamp, Notify
  <2>2. ASSUME NEW b \in Actor \ {a} PROVE pc[b] \notin {"stamp", "notify"}
    BY <2>1, SchedulingIsBusy DEF MutexInv, PC
  <2>3. \A b \in Actor : pc'[b] \notin {"stamp", "notify"}
    BY <1>2, <2>2
  <2>4. CASE Stamp(a)
    <3>1. outcome = "none" /\ stamps' = stamps + 1 /\ outcome' # "none" /\ UNCHANGED notices
      BY <2>4 DEF Stamp
    <3> QED BY <2>3, <3>1 DEF TypeOK
  <2>5. CASE Notify(a)
    <3>1. notices = 0 /\ notices' = notices + 1 /\ UNCHANGED <<outcome, stamps>>
      BY <2>5 DEF Notify
    <3> QED BY <2>3, <3>1 DEF TypeOK
  <2> QED BY <1>2, <2>4, <2>5
<1> QED BY <1>0, <1>1, <1>2, CompletionSteps

\* When no two actors schedule at once, a run's completion is recorded once and
\* notified once -- for every workflow and whoever crashes; what mark_finished and
\* the notifier read before they write needs that, and no more.
THEOREM CompletesOnce == UnracedSpec => []OneCompletion
<1>1. Init => OnceInv
  BY DEF Init, OnceInv, OneCompletion
<1>2. TypeOK /\ JobInv /\ MutexInv /\ OnceInv /\ [UnracedNext]_vars => OnceInv'
  BY OnceStep
<1>3. OnceInv => OneCompletion
  BY DEF OnceInv
<1> QED BY <1>1, <1>2, <1>3, UnracedTyped, PTL DEF UnracedSpec

-----------------------------------------------------------------------------
(* What one step may do to the actors, to a session, and to a task's owner.    *)

Same(b) == pc'[b] = pc[b] /\ job'[b] = job[b] /\ snap'[b] = snap[b] /\ plan'[b] = plan[b]

Act(a) ==
  \/ Evaluate(a) \/ Schedule(a) \/ Crash(a)
  \/ a \in Session /\ (TurnStart(a) \/ AgentStep(a) \/ Settle(a))
  \/ a \in People /\ \E t \in Task, new \in TaskStatus : PersonUpdate(a, t, new)

\* One actor moves at a time.
LEMMA OneMoves ==
  ASSUME TypeOK, [Next]_vars
  PROVE  \/ \E a \in Actor : Act(a) /\ \A b \in Actor \ {a} : Same(b)
         \/ (\A b \in Actor : Same(b)) /\ ((\E s \in Session : SendMessage(s)) \/ UNCHANGED vars)
<1> DEFINE Alone(a) == \A b \in Actor \ {a} : Same(b)
<1> USE ActorTyped DEF TypeOK, Goto, Same
<1>0. ASSUME NEW a \in Actor, Return(a) \/ UNCHANGED <<pc, job, snap, plan>> PROVE Alone(a)
  BY <1>0 DEF Return
<1>1. ASSUME NEW a \in Actor, Evaluate(a) PROVE Alone(a)
  <2>1. CASE EvaluateRead(a) \/ SkipOne(a) \/ EvaluateReread(a)
    BY <2>1 DEF EvaluateRead, SkipOne, EvaluateReread, ReadTasks
  <2>2. CASE WriteTask(a) \/ FinishRead(a) \/ Stamp(a) \/ NoticeRead(a) \/ Notify(a)
    BY <2>2, <1>0 DEF WriteTask, FinishRead, Stamp, NoticeRead, Notify
  <2> QED BY <1>1, <2>1, <2>2 DEF Evaluate
<1>2. ASSUME NEW a \in Actor, Schedule(a) PROVE Alone(a)
  <2>1. CASE ReadSessions(a) \/ \E t \in Task : AssignFork(a, t) \/ AssignExisting(a, t)
    BY <1>2, <2>1 DEF ReadSessions, AssignFork, AssignExisting
  <2>2. CASE ForkClaim(a) \/ ForkDelete(a) \/ ForkQueue(a) \/ AssignDone(a)
    BY <2>2, <1>0 DEF ForkClaim, ForkDelete, ForkQueue, AssignDone, AfterAssign
  <2>3. CASE WakeOne(a)
    BY <2>3, <1>0 DEF WakeOne
  <2> QED BY <1>2, <2>1, <2>2, <2>3 DEF Schedule
<1>3. ASSUME NEW a \in Actor, Crash(a) PROVE Alone(a)
  BY <1>3 DEF Crash
<1>4. ASSUME NEW s \in Session, TurnStart(s) \/ AgentStep(s) \/ Settle(s) PROVE Alone(s)
  <2>1. CASE TurnStart(s) \/ AgentStep(s)
    <3>1. CASE TurnStart(s) \/ AgentList(s) \/ \E end \in TurnEnds : EndTurn(s, end)
      BY <3>1 DEF TurnStart, AgentList, EndTurn
    <3>2. CASE \E t \in Task, new \in TaskStatus : AgentUpdate(s, t, new)
      BY <3>2 DEF AgentUpdate
    <3>3. CASE AgentClaim(s)
      BY <3>3, <1>0 DEF AgentClaim
    <3> QED BY <2>1, <3>1, <3>2, <3>3 DEF AgentStep
  <2>2. CASE Settle(s)
    BY <2>2, <1>0 DEF Settle, SettleRead, ReadTasks, SettleRecord, FollowUp, NudgeOnly, Nudge
  <2> QED BY <1>4, <2>1, <2>2
<1>5. ASSUME NEW p \in People, NEW t \in Task, NEW new \in TaskStatus, PersonUpdate(p, t, new)
      PROVE  Alone(p)
  BY <1>5 DEF PersonUpdate
<1>6. ASSUME (\E s \in Session : SendMessage(s)) \/ UNCHANGED vars PROVE \A b \in Actor : Same(b)
  BY <1>6 DEF SendMessage, vars
<1> HIDE DEF TypeOK, Goto, Same
<1> QED BY <1>1, <1>2, <1>3, <1>4, <1>5, <1>6 DEF Next, Act

\* A session at rest is moved by the start of its turn and by nothing else.
LEMMA OnlyTurnsStart ==
  ASSUME TypeOK, [Next]_vars, NEW s \in Session, pc[s] = "off", pc'[s] # "off"
  PROVE  TurnStart(s)
<1>1. s \in Actor /\ s \notin People /\ ~ Same(s)
  BY ActorTyped, ActorAssumption DEF Same
<1>2. ~ Evaluate(s)
  BY DEF Evaluate, WriteTask, EvaluateRead, SkipOne, EvaluateReread, FinishRead, Stamp,
         NoticeRead, Notify
<1>3. ~ Schedule(s)
  BY DEF Schedule, ReadSessions, AssignFork, AssignExisting, PlansNext, ForkClaim,
         ForkDelete, ForkQueue, AssignDone, WakeOne
<1>4. ~ Crash(s) /\ ~ AgentStep(s) /\ ~ Settle(s)
  BY DEF Crash, AgentStep, AgentList, AgentUpdate, AgentClaim, EndTurn, Settle, SettleRead,
         SettleRecord, Nudge
<1> QED BY <1>1, <1>2, <1>3, <1>4, OneMoves DEF Act

\* Who queues an input on session s, on a status that takes one.
Queues(s) ==
  /\ sess[s] \notin {"queued", "running", "absent"} /\ sess'[s] = "queued"
  /\ \/ pc[s] = "nudge" \/ SendMessage(s)
     \/ \E a \in Actor : pc[a] = "forkqueue" /\ job[a].target = s
     \/ \E a \in Actor : pc[a] = "wake" /\ s \in plan[a].claimed /\ plan[a].seen[s] = "idle"

\* Who makes a branch, and who removes it.
Creates(s) ==
  \E a \in Actor, t \in Task :
    /\ AssignFork(a, t) /\ job'[a].target = s
    /\ sess[s] = "absent" /\ sess'[s] = "idle" /\ pc[s] = "off"

Deletes(s) ==
  /\ sess'[s] = "absent"
  /\ \E a \in Actor : pc[a] = "forkdelete" /\ job[a].target = s /\ pc'[a] = "assign"

\* A session's status changes by its own turn's start and end, and otherwise
\* only as the scheduler and the people queue, make or remove it.
LEMMA SessionMoves ==
  ASSUME TypeOK, JobInv, [Next]_vars, NEW s \in Session
  PROVE  \/ sess'[s] = sess[s]
         \/ TurnStart(s) \/ SettleRecord(s) \/ Queues(s) \/ Creates(s) \/ Deletes(s)
<1> DEFINE Moved == \/ sess'[s] = sess[s]
                    \/ TurnStart(s) \/ SettleRecord(s) \/ Queues(s) \/ Creates(s) \/ Deletes(s)
<1>0. ASSUME NEW r \in Session, NEW i \in Kinds, QueueInput(r, i)
      PROVE  \/ UNCHANGED sess
             \/ /\ sess[r] \notin {"queued", "running", "absent"} /\ sess'[r] = "queued"
                /\ \A q \in Session \ {r} : sess'[q] = sess[q]
  BY <1>0 DEF QueueInput, TypeOK
<1>1. ASSUME NEW a \in Actor, Evaluate(a) PROVE UNCHANGED sess
  BY <1>1 DEF Evaluate, WriteTask, EvaluateRead, SkipOne, EvaluateReread, FinishRead, Stamp,
              NoticeRead, Notify
<1>2. ASSUME NEW a \in Actor, Schedule(a) PROVE Moved
  <2>1. CASE \/ ReadSessions(a) \/ ForkClaim(a) \/ AssignDone(a)
             \/ \E t \in Task : AssignExisting(a, t)
    BY <2>1 DEF ReadSessions, ForkClaim, AssignDone, AssignExisting
  <2>2. CASE \E t \in Task : AssignFork(a, t)
    <3>1. PICK t \in Task : AssignFork(a, t)
      BY <2>2
    <3>2. PICK b \in Branch : /\ sess[b] = "absent" /\ pc[b] = "off"
                              /\ sess' = [sess EXCEPT ![b] = "idle"]
                              /\ job' = [job EXCEPT ![a].task = t, ![a].target = b]
      BY <3>1 DEF AssignFork
    <3>3. job'[a].target = b
      BY <3>2 DEF TypeOK, Job
    <3>4. CASE s = b
      <4>1. sess'[s] = "idle"
        BY <3>2, <3>4 DEF TypeOK
      <4> QED BY <3>1, <3>2, <3>3, <3>4, <4>1 DEF Creates
    <3>5. CASE s # b
      BY <3>2, <3>5 DEF TypeOK
    <3> QED BY <3>4, <3>5
  <2>3. CASE ForkDelete(a)
    <3>1. /\ pc[a] = "forkdelete" /\ pc'[a] = "assign"
          /\ sess' = [sess EXCEPT ![job[a].target] = "absent"]
      BY <2>3 DEF ForkDelete, Goto, TypeOK
    <3> QED BY <3>1 DEF TypeOK, Deletes
  <2>4. CASE ForkQueue(a)
    <3>1. pc[a] = "forkqueue" /\ job[a].target \in Session /\ QueueInput(job[a].target, "assigned")
      BY <2>4 DEF ForkQueue, JobInv, Session
    <3> QED BY <3>1, <1>0 DEF Queues, Kinds
  <2>5. CASE WakeOne(a)
    <3>1. PICK r \in plan[a].claimed :
               IF plan[a].seen[r] = "idle" THEN QueueInput(r, "assigned") ELSE UNCHANGED <<sess, kind>>
      BY <2>5 DEF WakeOne
    <3>2. r \in Session /\ pc[a] = "wake"
      BY <2>5, PlanTyped DEF WakeOne, TypeOK
    <3> QED BY <3>1, <3>2, <1>0 DEF Queues, Kinds
  <2> QED BY <1>2, <2>1, <2>2, <2>3, <2>4, <2>5 DEF Schedule
<1>3. ASSUME NEW a \in Actor, Crash(a) PROVE UNCHANGED sess
  BY <1>3 DEF Crash
<1>4. ASSUME NEW r \in Session, TurnStart(r) \/ AgentStep(r) PROVE Moved
  BY <1>4 DEF TurnStart, AgentStep, AgentList, AgentUpdate, AgentClaim, EndTurn, TypeOK
<1>5. ASSUME NEW r \in Session, Settle(r) PROVE Moved
  <2>1. CASE SettleRead(r)
    BY <2>1 DEF SettleRead
  <2>2. CASE SettleRecord(r)
    BY <2>2 DEF SettleRecord, TypeOK
  <2>3. CASE Nudge(r)
    BY <2>3, <1>0 DEF Nudge, Queues, Kinds
  <2> QED BY <1>5, <2>1, <2>2, <2>3 DEF Settle
<1>6. ASSUME NEW r \in Session, SendMessage(r) PROVE Moved
  <2>1. QueueInput(r, "message")
    BY <1>6 DEF SendMessage
  <2> QED BY <1>6, <2>1, <1>0 DEF Queues, Kinds
<1>7. ASSUME NEW p \in People, NEW t \in Task, NEW new \in TaskStatus, PersonUpdate(p, t, new)
      PROVE  UNCHANGED sess
  BY <1>7 DEF PersonUpdate
<1>8. ASSUME UNCHANGED vars PROVE UNCHANGED sess
  BY <1>8 DEF vars
<1> HIDE DEF Moved
<1>9. (UNCHANGED sess) => Moved
  BY DEF Moved
<1>10. Moved
  BY <1>1, <1>2, <1>3, <1>4, <1>5, <1>6, <1>7, <1>8, <1>9 DEF Next
<1> QED BY <1>10 DEF Moved

\* A task gets its owner by a claim: its session's own agent's, a fork's for the
\* branch just made, or an assignment's for the session the task belongs on.
LEMMA OwnerMoves ==
  ASSUME TypeOK, JobInv, [Next]_vars, NEW u \in Task, owner'[u] # owner[u]
  PROVE  /\ owner[u] = None
         /\ \/ \E s \in Session : AgentClaim(s) /\ job[s].task = u /\ owner'[u] = s
            \/ \E a \in Actor : ForkClaim(a) /\ job[a].task = u /\ owner'[u] = job[a].target
            \/ \E a \in Actor : /\ AssignExisting(a, u)
                                /\ owner'[u] = Target(snap[a].owner, plan[a].seen, u)
<1>0. ASSUME NEW t, NEW s, Claims(t, s) PROVE t = u /\ owner[t] = None /\ owner'[t] = s
  BY <1>0 DEF Claims, TypeOK
<1>1. ASSUME NEW a \in Actor, Evaluate(a) \/ Crash(a) PROVE UNCHANGED owner
  BY <1>1 DEF Evaluate, WriteTask, EvaluateRead, SkipOne, EvaluateReread, FinishRead, Stamp,
              NoticeRead, Notify, Crash
<1>2. ASSUME NEW s \in Session, TurnStart(s) \/ Settle(s) \/ SendMessage(s) PROVE UNCHANGED owner
  BY <1>2 DEF TurnStart, Settle, SettleRead, SettleRecord, Nudge, SendMessage
<1>3. ASSUME NEW p \in People, NEW t \in Task, NEW new \in TaskStatus, PersonUpdate(p, t, new)
      PROVE  UNCHANGED owner
  BY <1>3 DEF PersonUpdate
<1>4. ASSUME NEW s \in Session, AgentStep(s)
      PROVE  AgentClaim(s) /\ Claims(job[s].task, s)
  BY <1>4 DEF AgentStep, AgentList, AgentUpdate, AgentClaim, EndTurn
<1>5. ASSUME NEW a \in Actor, Schedule(a)
      PROVE  \/ ForkClaim(a) /\ Claims(job[a].task, job[a].target)
             \/ \E t \in Task : /\ AssignExisting(a, t)
                                /\ Claims(t, Target(snap[a].owner, plan[a].seen, t))
  BY <1>5 DEF Schedule, ReadSessions, AssignFork, AssignExisting, ForkClaim, ForkDelete,
              ForkQueue, AssignDone, WakeOne
<1> QED BY <1>0, <1>1, <1>2, <1>3, <1>4, <1>5 DEF Next, vars

-----------------------------------------------------------------------------
(* A session's row while its turn is under way.                                *)

\* The turn itself: the agent's part, its calls, and the settling up to its record.
InTurn(s) == pc[s] \in {"agent", "settle", "record"} \/ job[s].ret = "agent"

\* The row of a session in its turn says running, or has been removed; control
\* returns to the agent from what it called and from nothing else.
TurnsInv ==
  \A s \in Session :
    /\ pc[s] \in {"claim", "write", "evaluate", "skip", "reread"} => job[s].ret = "agent"
    /\ pc[s] \in {"off", "agent", "settle", "record", "nudge"} => job[s].ret = "off"
    /\ InTurn(s) => sess[s] \in {"running", "absent"}
    /\ pc[s] = "nudge" => sess[s] # "done"

\* Where the record of a turn leads.
LEMMA RecordMoves ==
  ASSUME TypeOK, NEW s \in Session, SettleRecord(s)
  PROVE  /\ pc[s] = "record" /\ sess'[s] = SettledStatus(s)
         /\ pc'[s] \in {"sessions", "nudge", "agent", "off"}
         /\ pc'[s] = "nudge" => SettledStatus(s) = "idle"
         /\ (pc'[s] = job[s].ret /\ job'[s] = NoJob) \/ (pc'[s] # "agent" /\ job'[s] = job[s])
         /\ \A b \in Actor \ {s} : Same(b)
BY ActorTyped DEF SettleRecord, FollowUp, NudgeOnly, Missed, Return, Goto, Same, TypeOK, Job

LEMMA TurnsStep ==
  ASSUME TypeOK, JobInv, TurnsInv, [Next]_vars PROVE TurnsInv'
<1> SUFFICES ASSUME NEW s \in Session
             PROVE  /\ pc'[s] \in {"claim", "write", "evaluate", "skip", "reread"} => job'[s].ret = "agent"
                    /\ pc'[s] \in {"off", "agent", "settle", "record", "nudge"} => job'[s].ret = "off"
                    /\ InTurn(s)' => sess'[s] \in {"running", "absent"}
                    /\ pc'[s] = "nudge" => sess'[s] # "done"
  BY DEF TurnsInv
<1> DEFINE Goal == /\ pc'[s] \in {"claim", "write", "evaluate", "skip", "reread"} => job'[s].ret = "agent"
                   /\ pc'[s] \in {"off", "agent", "settle", "record", "nudge"} => job'[s].ret = "off"
                   /\ InTurn(s)' => sess'[s] \in {"running", "absent"}
                   /\ pc'[s] = "nudge" => sess'[s] # "done"
           \* What keeps the goal: s stays in its turn, or out of it.
           Moves == /\ pc'[s] \in {"claim", "write", "evaluate", "skip", "reread"} => job'[s].ret = "agent"
                    /\ pc'[s] \in {"off", "agent", "settle", "record", "nudge"} => job'[s].ret = "off"
                    /\ InTurn(s)' => InTurn(s)
                    /\ pc'[s] # "nudge" \/ pc[s] = "nudge"
           Old == /\ pc[s] \in {"claim", "write", "evaluate", "skip", "reread"} => job[s].ret = "agent"
                  /\ pc[s] \in {"off", "agent", "settle", "record", "nudge"} => job[s].ret = "off"
                  /\ InTurn(s) => sess[s] \in {"running", "absent"}
                  /\ pc[s] = "nudge" => sess[s] # "done"
<1> Old
  BY DEF TurnsInv
<1>0. s \in Actor /\ NoJob.ret = "off" /\ job[s].ret \in {"agent", "off"} /\ job[s] \in Job
  BY ActorTyped DEF NoJob, TypeOK, Job
<1>r. ASSUME Return(s)
      PROVE  pc'[s] = job[s].ret /\ job'[s] = NoJob
  BY <1>r, <1>0 DEF Return, Goto, TypeOK
<1> USE <1>0 DEF TypeOK, Goto, InTurn
<1>1. ASSUME Same(s) PROVE Moves
  BY <1>1 DEF Same
<1>2. ASSUME Evaluate(s) PROVE Moves
  <2>1. CASE WriteTask(s) \/ FinishRead(s) \/ Stamp(s)
    BY <2>1 DEF WriteTask, FinishRead, Stamp
  <2>2. CASE EvaluateRead(s) \/ EvaluateReread(s)
    <3>1. AfterSkips \in {"sessions", "finish"}
      BY DEF AfterSkips
    <3> QED BY <2>2, <3>1 DEF EvaluateRead, EvaluateReread
  <2>3. CASE SkipOne(s)
    <3>1. /\ pc' = [pc EXCEPT ![s] = "reread"] \/ pc' = [pc EXCEPT ![s] = "skip"]
          /\ pc[s] = "skip" /\ UNCHANGED job
      BY <2>3 DEF SkipOne
    <3> QED BY <3>1
  <2>4. CASE NoticeRead(s) \/ Notify(s)
    BY <2>4, <1>r DEF NoticeRead, Notify
  <2> QED BY <1>2, <2>1, <2>2, <2>3, <2>4 DEF Evaluate
<1>3. ASSUME Schedule(s) PROVE Moves
  <2>1. CASE \/ ReadSessions(s) \/ ForkClaim(s) \/ ForkDelete(s) \/ ForkQueue(s)
             \/ \E t \in Task : AssignExisting(s, t)
    BY <2>1 DEF ReadSessions, ForkClaim, ForkDelete, ForkQueue, AssignExisting, PlansNext
  <2>2. CASE \E t \in Task : AssignFork(s, t)
    <3>1. PICK t \in Task : AssignFork(s, t)
      BY <2>2
    <3> PICK b \in Branch : job' = [job EXCEPT ![s] = [[job[s] EXCEPT !.task = t] EXCEPT !.target = b]]
      BY <3>1 DEF AssignFork
    <3>2. job'[s].ret = job[s].ret
      BY DEF Job
    <3> QED BY <2>2, <3>2 DEF AssignFork, PlansNext
  <2>3. CASE AssignDone(s) \/ WakeOne(s)
    <3>1. /\ pc[s] \in {"assign", "wake"}
          /\ Return(s) \/ (pc'[s] \in {"assign", "wake"} /\ UNCHANGED job)
      BY <2>3 DEF AssignDone, AfterAssign, WakeOne
    <3> QED BY <3>1, <1>r
  <2> QED BY <1>3, <2>1, <2>2, <2>3 DEF Schedule
<1>4. ASSUME Crash(s) PROVE Moves
  BY <1>4 DEF Crash
<1>5. ASSUME AgentStep(s) PROVE Moves
  <2>1. CASE AgentList(s)
    BY <2>1 DEF AgentList
  <2>2. ASSUME NEW t \in Task, NEW new \in TaskStatus, AgentUpdate(s, t, new) PROVE Moves
    <3>1. /\ pc[s] = "agent" /\ pc'[s] \in {"claim", "write"}
          /\ job'[s] = [task |-> t, new |-> new, target |-> None, ret |-> "agent"]
      BY <2>2 DEF AgentUpdate
    <3> QED BY <3>1
  <2>3. CASE AgentClaim(s)
    BY <2>3, <1>r DEF AgentClaim
  <2>4. ASSUME NEW end \in TurnEnds, EndTurn(s, end) PROVE Moves
    <3>1. pc[s] = "agent" /\ pc'[s] = "settle" /\ job'[s] = [NoJob EXCEPT !.new = end]
      BY <2>4 DEF EndTurn
    <3>2. job'[s].ret = "off"
      BY <3>1 DEF NoJob
    <3> QED BY <3>1, <3>2
  <2> QED BY <1>5, <2>1, <2>2, <2>3, <2>4 DEF AgentStep
<1>6. ASSUME SettleRead(s) PROVE Moves
  BY <1>6 DEF SettleRead
<1>7. ASSUME Nudge(s) PROVE Moves
  BY <1>7, <1>r DEF Nudge
<1>8. ASSUME TurnStart(s) PROVE Goal
  BY <1>8 DEF TurnStart
<1>9. ASSUME SettleRecord(s) PROVE Goal
  <2>1. pc'[s] \in {"sessions", "nudge", "off"} /\ job'[s].ret = "off"
    BY <1>9, RecordMoves
  <2> QED BY <1>9, <2>1, RecordMoves
<1>10. s \in People => FALSE
  BY ActorAssumption
<1>11. Same(s) \/ Act(s)
  BY OneMoves
<1>12. Moves \/ TurnStart(s) \/ SettleRecord(s)
  BY <1>1, <1>2, <1>3, <1>4, <1>5, <1>6, <1>7, <1>10, <1>11 DEF Act, Settle
<1>13. ASSUME Moves, sess'[s] = sess[s] \/ Queues(s) \/ Creates(s) \/ Deletes(s) PROVE Goal
  <2>1. CASE Queues(s)
    BY <1>13, <2>1 DEF Queues
  <2>2. CASE Creates(s)
    BY <1>13, <2>2 DEF Creates
  <2> QED BY <1>13, <2>1, <2>2 DEF Deletes
<1> HIDE DEF TypeOK, Goto, InTurn, Moves, Goal
<1>14. Goal
  BY <1>8, <1>9, <1>12, <1>13, SessionMoves
<1> QED BY <1>14 DEF Goal

LEMMA TurnsInit == Init => TurnsInv
BY ActorTyped, ActorAssumption DEF Init, TurnsInv, InTurn, NoJob

-----------------------------------------------------------------------------
(* A pass of the scheduler, and the session limit.                             *)

Scanning(a) == pc[a] \in {"assign", "forkclaim", "forkqueue", "forkdelete", "wake"}

\* What a step of the pass leaves of its plan.
LEMMA ScanningMoves ==
  ASSUME TypeOK, JobInv, NEW a \in Actor, Act(a), Scanning(a)'
  PROVE  \/ ReadSessions(a)
         \/ \E t \in Task : AssignFork(a, t)
         \/ /\ Scanning(a)
            /\ plan'[a].seen = plan[a].seen /\ plan'[a].alive = plan[a].alive
            /\ plan'[a].todo \subseteq plan[a].todo
            /\ snap'[a] = snap[a]
            /\ pc'[a] = "forkclaim" => FALSE
            /\ pc'[a] \in {"forkqueue", "forkdelete"} =>
                 ForkClaim(a) /\ pc[a] = "forkclaim" /\ job'[a] = job[a]
<1> DEFINE Goal == \/ ReadSessions(a)
                   \/ \E t \in Task : AssignFork(a, t)
                   \/ /\ Scanning(a)
                      /\ plan'[a].seen = plan[a].seen /\ plan'[a].alive = plan[a].alive
                      /\ plan'[a].todo \subseteq plan[a].todo
                      /\ snap'[a] = snap[a]
                      /\ pc'[a] = "forkclaim" => FALSE
                      /\ pc'[a] \in {"forkqueue", "forkdelete"} =>
                            ForkClaim(a) /\ pc[a] = "forkclaim" /\ job'[a] = job[a]
<1> USE ActorTyped DEF TypeOK, Goto, Scanning
<1>0. /\ job[a].ret \in {"agent", "off"}
      /\ Return(a) => pc'[a] = job[a].ret
  BY DEF Return, Job
<1>1. ASSUME Evaluate(a) PROVE FALSE
  <2>1. CASE WriteTask(a) \/ FinishRead(a) \/ Stamp(a)
    BY <2>1 DEF WriteTask, FinishRead, Stamp
  <2>2. CASE EvaluateRead(a) \/ EvaluateReread(a)
    <3>1. pc'[a] \in {"skip", AfterSkips}
      BY <2>2 DEF EvaluateRead, EvaluateReread
    <3>2. AfterSkips \in {"sessions", "finish"}
      BY DEF AfterSkips
    <3> QED BY <3>1, <3>2
  <2>3. CASE SkipOne(a)
    <3>1. pc' = [pc EXCEPT ![a] = "reread"] \/ pc' = [pc EXCEPT ![a] = "skip"]
      BY <2>3 DEF SkipOne
    <3> QED BY <3>1
  <2>4. CASE NoticeRead(a) \/ Notify(a)
    BY <2>4, <1>0 DEF NoticeRead, Notify
  <2> QED BY <1>1, <2>1, <2>2, <2>3, <2>4 DEF Evaluate
<1>2. ASSUME Schedule(a) PROVE Goal
  <2>1. CASE ForkClaim(a) \/ ForkDelete(a) \/ ForkQueue(a)
    BY <2>1 DEF ForkClaim, ForkDelete, ForkQueue
  <2>2. CASE \E t \in Task : AssignExisting(a, t)
    <3>1. PICK t \in Task : AssignExisting(a, t)
      BY <2>2
    <3>2. /\ pc[a] = "assign" /\ UNCHANGED <<pc, snap>>
          /\ plan'[a].seen = plan[a].seen /\ plan'[a].alive = plan[a].alive
          /\ plan'[a].todo = plan[a].todo \ {t}
      BY <3>1 DEF AssignExisting, PlansNext, Plan
    <3> QED BY <3>2
  <2>3. CASE AssignDone(a)
    BY <2>3, <1>0 DEF AssignDone, AfterAssign
  <2>4. CASE WakeOne(a)
    <3>1. PICK r \in plan[a].claimed :
             \/ Return(a)
             \/ /\ plan' = [plan EXCEPT ![a] = [plan[a] EXCEPT !.claimed = plan[a].claimed \ {r}]]
                /\ UNCHANGED <<pc, job, snap>>
      BY <2>4 DEF WakeOne
    <3>2. pc[a] = "wake"
      BY <2>4 DEF WakeOne
    <3>3. CASE UNCHANGED <<pc, job, snap>> /\
               plan' = [plan EXCEPT ![a] = [plan[a] EXCEPT !.claimed = plan[a].claimed \ {r}]]
      <4>1. /\ plan'[a].seen = plan[a].seen /\ plan'[a].alive = plan[a].alive
            /\ plan'[a].todo = plan[a].todo
        BY <3>3 DEF Plan
      <4> QED BY <3>2, <3>3, <4>1
    <3> QED BY <3>1, <3>3, <1>0
  <2> QED BY <1>2, <2>1, <2>2, <2>3, <2>4 DEF Schedule
<1>3. ASSUME Crash(a) PROVE FALSE
  BY <1>3 DEF Crash
<1>4. ASSUME a \in Session, TurnStart(a) \/ AgentStep(a) PROVE FALSE
  <2>1. CASE TurnStart(a) \/ AgentList(a) \/ \E end \in TurnEnds : EndTurn(a, end)
    BY <2>1 DEF TurnStart, AgentList, EndTurn
  <2>2. CASE \E t \in Task, new \in TaskStatus : AgentUpdate(a, t, new)
    BY <2>2 DEF AgentUpdate
  <2>3. CASE AgentClaim(a)
    BY <2>3, <1>0 DEF AgentClaim
  <2> QED BY <1>4, <2>1, <2>2, <2>3 DEF AgentStep
<1>5. ASSUME a \in Session, Settle(a) PROVE FALSE
  BY <1>0, <1>5 DEF Settle, SettleRead, SettleRecord, FollowUp, NudgeOnly, Nudge
<1>6. ASSUME NEW t \in Task, NEW new \in TaskStatus, PersonUpdate(a, t, new) PROVE FALSE
  BY <1>6 DEF PersonUpdate
<1> HIDE DEF TypeOK, Goto, Scanning, Goal
<1>7. Goal
  BY <1>1, <1>2, <1>3, <1>4, <1>5, <1>6 DEF Act
<1> QED BY <1>7 DEF Goal

\* While one actor at a time schedules, the count of sessions it goes by is not
\* below theirs, and what it saw idle, and the branch it made, have not finished.
LimitInv ==
  /\ Cardinality(AliveSessions(sess)) <= MaxSessions
  /\ \A a \in Actor : Scanning(a) =>
       /\ Cardinality(AliveSessions(sess)) <= plan[a].alive
       /\ \A s \in Session : plan[a].seen[s] # "done" => sess[s] # "done"
  /\ \A a \in Actor : pc[a] \in {"forkclaim", "forkqueue"} => sess[job[a].target] # "done"

LEMMA AliveFinite == ASSUME NEW seen PROVE IsFiniteSet(AliveSessions(seen))
<1>1. IsFiniteSet({b \in Branch : seen[b] \notin {"absent", "done"}})
  BY SessionAssumption, FS_Subset
<1> QED BY <1>1, FS_Singleton, FS_Union DEF AliveSessions

\* A session that was not alive is made so only by a fork.
LEMMA OnlyForksAdd ==
  ASSUME TypeOK, JobInv, TurnsInv, LimitInv, [Next]_vars, NEW s \in Branch,
         s \notin AliveSessions(sess), s \in AliveSessions(sess')
  PROVE  Creates(s)
<1>1. sess[s] \in {"absent", "done"} /\ sess'[s] \notin {"absent", "done"} /\ s \in Session
  BY SessionAssumption DEF AliveSessions, Session
<1>2. ASSUME SettleRecord(s) PROVE FALSE
  <2>1. pc[s] = "record" /\ sess'[s] = SettledStatus(s)
    BY <1>1, <1>2, RecordMoves
  <2>2. sess[s] = "absent"
    BY <1>1, <2>1 DEF TurnsInv, InTurn
  <2> QED BY <1>1, <2>1, <2>2 DEF SettledStatus
<1>3. ASSUME Queues(s) PROVE FALSE
  <2>1. sess[s] = "done"
    BY <1>1, <1>3 DEF Queues
  <2>2. pc[s] # "nudge" /\ ~ SendMessage(s)
    BY <1>1, <2>1, SessionAssumption DEF TurnsInv, SendMessage
  <2> QED BY <1>1, <1>3, <2>1, <2>2 DEF Queues, LimitInv, Scanning
<1>4. ~ TurnStart(s) /\ ~ Deletes(s) /\ sess'[s] # sess[s]
  BY <1>1 DEF TurnStart, Deletes
<1> QED BY <1>1, <1>2, <1>3, <1>4, SessionMoves

\* A fork adds one session to those alive, and is planned below the limit.
LEMMA ForkAdds ==
  ASSUME TypeOK, JobInv, TurnsInv, LimitInv, [Next]_vars, NEW a \in Actor, NEW t \in Task,
         AssignFork(a, t)
  PROVE  /\ Cardinality(AliveSessions(sess')) <= Cardinality(AliveSessions(sess)) + 1
         /\ pc[a] = "assign" /\ plan[a].alive < MaxSessions
         /\ plan'[a].alive = plan[a].alive + 1 /\ plan'[a].seen = plan[a].seen
         /\ pc'[a] = "forkclaim" /\ sess'[job'[a].target] = "idle"
<1>1. PICK b \in Branch :
           /\ sess' = [sess EXCEPT ![b] = "idle"]
           /\ job' = [job EXCEPT ![a] = [[job[a] EXCEPT !.task = t] EXCEPT !.target = b]]
  BY DEF AssignFork
<1>2. job'[a].target = b /\ sess'[b] = "idle" /\ \A s \in Branch \ {b} : sess'[s] = sess[s]
  BY <1>1 DEF TypeOK, Job, Session
<1>3. AliveSessions(sess') \subseteq AliveSessions(sess) \cup {b}
  BY <1>2 DEF AliveSessions
<1>4. /\ IsFiniteSet(AliveSessions(sess) \cup {b})
      /\ Cardinality(AliveSessions(sess) \cup {b}) <= Cardinality(AliveSessions(sess)) + 1
  BY AliveFinite, AliveIsNat, FS_AddElement
<1>5. Cardinality(AliveSessions(sess')) <= Cardinality(AliveSessions(sess)) + 1
  BY <1>3, <1>4, AliveIsNat, FS_Subset, FS_CardinalityType
<1>6. pc[a] = "assign" /\ plan[a].alive < MaxSessions
  BY DEF AssignFork, PlansNext, ForksNext, Forks
<1>7. pc'[a] = "forkclaim"
  BY DEF AssignFork, Goto, TypeOK
<1>8. plan'[a].alive = plan[a].alive + 1 /\ plan'[a].seen = plan[a].seen
  BY DEF AssignFork, TypeOK, Plan
<1> QED BY <1>2, <1>5, <1>6, <1>7, <1>8

\* Only the record of its own turn makes a session done.
LEMMA OnlyRecordsFinish ==
  ASSUME TypeOK, JobInv, [Next]_vars, NEW s \in Session, sess[s] # "done", sess'[s] = "done"
  PROVE  SettleRecord(s)
<1>1. ~ TurnStart(s) /\ ~ Queues(s) /\ ~ Creates(s) /\ ~ Deletes(s)
  BY DEF TurnStart, Queues, Creates, Deletes, TypeOK
<1> QED BY <1>1, SessionMoves

LEMMA LimitStep ==
  ASSUME TypeOK, JobInv, TurnsInv, MutexInv, LimitInv, [UnracedNext]_vars PROVE LimitInv'
<1>0. /\ [Next]_vars /\ TypeOK' /\ JobInv' /\ MutexInv'
  BY StepTyped, JobStep, MutexStep DEF UnracedNext
<1> DEFINE n == Cardinality(AliveSessions(sess))
           m == Cardinality(AliveSessions(sess'))
<1>1. n \in Nat /\ m \in Nat /\ MaxSessions \in Nat
  BY AliveIsNat, SessionAssumption
<1>2. ASSUME \A a \in Actor, t \in Task : ~ AssignFork(a, t) PROVE m <= n
  <2>1. AliveSessions(sess') \subseteq AliveSessions(sess)
    <3>1. ASSUME NEW s \in AliveSessions(sess'), s \notin AliveSessions(sess) PROVE FALSE
      BY <1>0, <1>2, <3>1, OnlyForksAdd DEF AliveSessions, Creates
    <3> QED BY <3>1
  <2> QED BY <2>1, AliveFinite, FS_Subset
<1>3. ASSUME NEW a \in Actor, NEW t \in Task, AssignFork(a, t)
      PROVE  /\ m <= n + 1 /\ n <= plan[a].alive /\ plan[a].alive < MaxSessions
             /\ plan'[a].alive = plan[a].alive + 1 /\ plan[a].alive \in Nat
             /\ plan'[a].seen = plan[a].seen /\ Scanning(a)
             /\ pc'[a] = "forkclaim" /\ sess'[job'[a].target] = "idle"
  BY <1>0, <1>3, ForkAdds, PlanTyped DEF LimitInv, Scanning, TypeOK
<1>4. m <= MaxSessions
  BY <1>1, <1>2, <1>3 DEF LimitInv
<1>5. ASSUME NEW a \in Actor, pc'[a] \notin {"off", "agent", "claim", "write"},
             NEW b \in Actor \ {a}
      PROVE  pc'[b] \in {"off", "agent", "claim", "write"}
  BY <1>0, <1>5 DEF MutexInv, Busy, LeavingTurn, Scheduling, TypeOK
<1>6. ASSUME NEW a \in Actor, pc[a] \notin {"off", "agent", "claim", "write"},
             NEW b \in Actor \ {a}
      PROVE  pc[b] \in {"off", "agent", "claim", "write"}
  BY <1>6 DEF MutexInv, Busy, LeavingTurn, Scheduling, TypeOK
<1>7. ASSUME NEW a \in Actor, Scanning(a)'
      PROVE  /\ Same(a) \/ Act(a)
             /\ ~ Same(a) => \A s \in Session : ~ SettleRecord(s)
             /\ Scanning(a) => \A s \in Session : ~ SettleRecord(s)
             /\ \A b \in Actor \ {a}, t \in Task : ~ AssignFork(b, t)
  <2>1. Same(a) \/ Act(a)
    BY <1>0, OneMoves
  <2>2. ASSUME NEW s \in Session, SettleRecord(s) PROVE Same(a) /\ ~ Scanning(a)
    <3>1. a # s /\ pc[s] = "record" /\ s \in Actor
      BY <1>7, <2>2, RecordMoves, ActorTyped DEF Scanning
    <3> QED BY <1>6, <2>2, <3>1, RecordMoves DEF Scanning
  <2>3. ASSUME NEW b \in Actor \ {a}, NEW t \in Task, AssignFork(b, t) PROVE FALSE
    BY <1>3, <1>5, <1>7, <2>3 DEF Scanning
  <2> QED BY <2>1, <2>2, <2>3
<1>8. ASSUME NEW a \in Actor, Scanning(a)'
      PROVE  m <= plan'[a].alive
  <2>1. CASE Same(a)
    <3>1. Scanning(a) /\ plan'[a] = plan[a] /\ plan[a].alive \in Nat
      BY <1>8, <2>1, PlanTyped DEF Same, Scanning, TypeOK
    <3>2. \A t \in Task : ~ AssignFork(a, t)
      <4>1. ASSUME NEW t \in Task, AssignFork(a, t) PROVE FALSE
        BY <1>3, <3>1, <4>1
      <4> QED BY <4>1
    <3> QED BY <1>1, <1>2, <1>7, <1>8, <3>1, <3>2 DEF LimitInv
  <2>2. CASE ReadSessions(a)
    <3>1. plan'[a].alive = n /\ UNCHANGED sess
      BY <2>2 DEF ReadSessions, TypeOK
    <3> QED BY <1>1, <3>1
  <2>3. CASE \E t \in Task : AssignFork(a, t)
    BY <1>1, <1>3, <2>3
  <2>4. CASE Scanning(a) /\ plan'[a].alive = plan[a].alive /\ \A t \in Task : ~ AssignFork(a, t)
    <3>1. plan[a].alive \in Nat
      BY PlanTyped DEF TypeOK
    <3> QED BY <1>1, <1>2, <1>7, <1>8, <2>4, <3>1 DEF LimitInv
  <2> QED BY <1>7, <1>8, <2>1, <2>2, <2>3, <2>4, ScanningMoves
<1>9. ASSUME NEW a \in Actor, Scanning(a)', NEW s \in Session, plan'[a].seen[s] # "done"
      PROVE  sess'[s] # "done"
  <2>1. CASE ReadSessions(a)
    <3>1. plan'[a].seen = sess /\ UNCHANGED sess
      BY <2>1 DEF ReadSessions, TypeOK
    <3> QED BY <1>9, <3>1
  <2>2. CASE Scanning(a) /\ plan'[a].seen = plan[a].seen
    BY <1>0, <1>7, <1>9, <2>2, OnlyRecordsFinish DEF LimitInv
  <2>3. ReadSessions(a) \/ (Scanning(a) /\ plan'[a].seen = plan[a].seen)
    BY <1>3, <1>7, <1>9, ScanningMoves DEF Same, Scanning
  <2> QED BY <2>1, <2>2, <2>3
<1>10. ASSUME NEW a \in Actor, pc'[a] \in {"forkclaim", "forkqueue"}
       PROVE  sess'[job'[a].target] # "done"
  <2>1. Scanning(a)'
    BY <1>10 DEF Scanning
  <2>2. CASE \E t \in Task : AssignFork(a, t)
    BY <1>3, <2>2
  <2>3. CASE pc[a] \in {"forkclaim", "forkqueue"} /\ job'[a] = job[a]
    <3>1. job[a].target \in Session /\ Scanning(a)
      BY <2>3 DEF JobInv, Session, Scanning
    <3> QED BY <1>0, <1>7, <2>1, <2>3, <3>1, OnlyRecordsFinish DEF LimitInv
  <2>4. ~ ReadSessions(a)
    BY <1>10 DEF ReadSessions, Goto, TypeOK
  <2> QED BY <1>7, <1>10, <2>1, <2>2, <2>3, <2>4, ScanningMoves DEF Same
<1> HIDE DEF n, m
<1> QED BY <1>4, <1>8, <1>9, <1>10 DEF LimitInv, n, m

LEMMA LimitInit == Init => LimitInv
<1> SUFFICES ASSUME Init PROVE LimitInv
  OBVIOUS
<1>1. AliveSessions(sess) = {Main} /\ Cardinality({Main}) = 1
  BY FS_Singleton DEF Init, AliveSessions, Session
<1>2. 1 <= MaxSessions
  BY SessionAssumption
<1>3. \A a \in Actor : pc[a] \in {"sessions", "off"}
  BY DEF Init
<1> QED BY <1>1, <1>2, <1>3 DEF LimitInv, Scanning

\* When no two actors schedule at once, a run works in at most MaxSessions sessions
\* at a time, the branches just made included -- for every workflow and limit, with
\* messages and crashes (plan_task_assignments counts sessions it read earlier).
THEOREM SessionsAreLimited == UnracedSpec => []WithinSessionLimit
<1>1. LimitInv => WithinSessionLimit
  <2> SUFFICES ASSUME LimitInv PROVE WithinSessionLimit
    OBVIOUS
  <2> DEFINE S == {s \in AliveSessions(sess) : s = Main \/ \E t \in Task : owner[t] = s}
  <2>1. IsFiniteSet(S) /\ Cardinality(S) <= Cardinality(AliveSessions(sess))
    BY AliveFinite, FS_Subset
  <2>2. Cardinality(S) \in Nat /\ Cardinality(AliveSessions(sess)) \in Nat /\ MaxSessions \in Nat
    BY <2>1, AliveIsNat, FS_CardinalityType, SessionAssumption
  <2> QED BY <2>1, <2>2 DEF LimitInv, WithinSessionLimit
<1>2. [UnracedNext]_vars => [Next]_vars
  BY DEF UnracedNext
<1>3. TypeOK /\ JobInv /\ MutexInv /\ TurnsInv /\ LimitInv /\ [UnracedNext]_vars
        => (TurnsInv /\ LimitInv)'
  BY <1>2, TurnsStep, LimitStep
<1> QED BY <1>1, <1>3, TurnsInit, LimitInit, UnracedTyped, PTL DEF UnracedSpec

-----------------------------------------------------------------------------
(* Branches run for the tasks they own, while nobody writes to them.           *)

Owns(s) == \E t \in Task : owner[t] = s

\* A branch that is queued, running, or was, owns a task; so do those about to be
\* queued: the fork whose claim won, and what a pass handed a task.
OwnInv ==
  /\ \A b \in Branch : pc[b] # "off" \/ sess[b] \notin {"absent", "idle"} => Owns(b)
  /\ \A a \in Actor : pc[a] = "forkqueue" => Owns(job[a].target)
  /\ \A a \in Actor : \A s \in plan[a].claimed : s = Main \/ Owns(s)

\* What a pass claims for is what it had, or the session it just handed a task.
LEMMA ClaimedMoves ==
  ASSUME TypeOK, JobInv, NEW a \in Actor, Act(a), NEW s \in plan'[a].claimed
  PROVE  s \in plan[a].claimed \/ (s \in Session /\ \E t \in Task : owner'[t] = s)
<1> DEFINE Goal == s \in plan[a].claimed \/ (s \in Session /\ \E t \in Task : owner'[t] = s)
<1> USE ActorTyped DEF TypeOK
<1>0. /\ Return(a) => plan'[a].claimed = {}
      /\ plan'[a] = plan[a] => Goal
  BY DEF Return, NoPlan
<1>1. ASSUME Evaluate(a) PROVE Goal
  <2>1. CASE EvaluateRead(a)
    <3>1. PICK T \in SUBSET Task : plan' = [plan EXCEPT ![a] = [plan[a] EXCEPT !.todo = T]]
      <4> DEFINE blocked == {t \in Blocked({u \in Task : status[u] = "failed"}) : status[t] = "pending"}
      <4>1. blocked \in SUBSET Task
        BY DEF Blocked
      <4>2. plan' = [plan EXCEPT ![a] = [plan[a] EXCEPT !.todo = blocked]]
        BY <2>1 DEF EvaluateRead
      <4> QED BY <4>1, <4>2
    <3> QED BY <3>1 DEF Plan
  <2>2. CASE SkipOne(a)
    <3>1. PICK t \in Task : plan' = [plan EXCEPT ![a] = [plan[a] EXCEPT !.todo = plan[a].todo \ {t}]]
      BY <2>2, PlanTyped DEF SkipOne
    <3> QED BY <3>1 DEF Plan
  <2>3. CASE ~ EvaluateRead(a) /\ ~ SkipOne(a)
    BY <1>0, <1>1, <2>3 DEF Evaluate, WriteTask, EvaluateReread, FinishRead, Stamp, NoticeRead, Notify
  <2> QED BY <2>1, <2>2, <2>3
<1>2. ASSUME Schedule(a) PROVE Goal
  <2>1. CASE ReadSessions(a)
    BY <2>1 DEF ReadSessions
  <2>2. ASSUME NEW t \in Task, AssignFork(a, t) PROVE Goal
    <3>1. plan' = [plan EXCEPT ![a] = [[plan[a] EXCEPT !.todo = plan[a].todo \ {t}]
                                                EXCEPT !.alive = plan[a].alive + 1]]
      BY <2>2 DEF AssignFork, Plan
    <3> QED BY <3>1 DEF Plan
  <2>3. ASSUME NEW t \in Task, AssignExisting(a, t) PROVE Goal
    <3> DEFINE r == Target(snap[a].owner, plan[a].seen, t)
    <3>1. r \in Session
      BY TargetTyped
    <3>2. Claims(t, r)
      BY <2>3 DEF AssignExisting
    <3>3. plan'[a].claimed = IF owner[t] = None THEN plan[a].claimed \cup {r} ELSE plan[a].claimed
      BY <2>3 DEF AssignExisting, Plan
    <3> HIDE DEF r
    <3>4. owner[t] = None => owner'[t] = r
      BY <3>2 DEF Claims
    <3> QED BY <3>1, <3>3, <3>4
  <2>4. CASE ForkClaim(a) \/ ForkDelete(a) \/ ForkQueue(a) \/ AssignDone(a)
    BY <1>0, <2>4 DEF ForkClaim, ForkDelete, ForkQueue, AssignDone, AfterAssign
  <2>5. CASE WakeOne(a)
    <3>1. PICK r \in plan[a].claimed :
             \/ Return(a)
             \/ plan' = [plan EXCEPT ![a] = [plan[a] EXCEPT !.claimed = plan[a].claimed \ {r}]]
      BY <2>5 DEF WakeOne
    <3> QED BY <3>1, <1>0 DEF Plan
  <2> QED BY <1>2, <2>1, <2>2, <2>3, <2>4, <2>5 DEF Schedule
<1>3. ASSUME Crash(a) PROVE Goal
  BY <1>3 DEF Crash, NoPlan
<1>4. ASSUME a \in Session, TurnStart(a) \/ AgentStep(a) PROVE Goal
  BY <1>0, <1>4 DEF TurnStart, AgentStep, AgentList, AgentUpdate, AgentClaim, EndTurn
<1>5. ASSUME a \in Session, Settle(a) PROVE Goal
  <2>1. CASE SettleRead(a)
    <3> DEFINE missed == {t \in fresh[a] : owner[t] = a /\ status[t] = "pending"}
    <3>1. plan' = [plan EXCEPT ![a] = [plan[a] EXCEPT !.todo = missed]]
      BY <2>1 DEF SettleRead
    <3> HIDE DEF missed
    <3> QED BY <3>1 DEF Plan
  <2>2. CASE ~ SettleRead(a)
    BY <1>0, <1>5, <2>2 DEF Settle, SettleRecord, FollowUp, NudgeOnly, Nudge
  <2> QED BY <2>1, <2>2
<1>6. ASSUME NEW t \in Task, NEW new \in TaskStatus, PersonUpdate(a, t, new) PROVE Goal
  BY <1>0, <1>6 DEF PersonUpdate
<1> HIDE DEF TypeOK, Goal
<1>7. Goal
  BY <1>1, <1>2, <1>3, <1>4, <1>5, <1>6 DEF Act
<1> QED BY <1>7 DEF Goal

LEMMA OwnStep ==
  ASSUME MaxMessages = 0, TypeOK, JobInv, OwnInv, [Next]_vars PROVE OwnInv'
<1>0. \A s \in Session : Owns(s) => Owns(s)'
  BY OwnerStep, SessionAssumption DEF Owns
<1>1. \A s \in Session : ~ SendMessage(s)
  BY DEF SendMessage, TypeOK
<1>2. ASSUME NEW b \in Branch, sess'[b] \notin {"absent", "idle"} PROVE Owns(b)
  <2>0. b \in Session /\ b # Main
    BY SessionAssumption DEF Session
  <2>1. CASE sess'[b] = sess[b]
    BY <1>2, <2>1 DEF OwnInv
  <2>2. CASE TurnStart(b)
    BY <2>2 DEF TurnStart, OwnInv
  <2>3. CASE SettleRecord(b)
    BY <2>3 DEF SettleRecord, OwnInv
  <2>4. CASE Queues(b)
    BY <1>1, <2>0, <2>4 DEF Queues, OwnInv
  <2>5. ~ Creates(b) /\ ~ Deletes(b)
    BY <1>2 DEF Creates, Deletes
  <2> QED BY <2>0, <2>1, <2>2, <2>3, <2>4, <2>5, SessionMoves
<1>3. ASSUME NEW b \in Branch, pc'[b] # "off", pc[b] = "off" PROVE Owns(b)
  <2>1. TurnStart(b)
    BY <1>3, OnlyTurnsStart DEF Session
  <2> QED BY <2>1 DEF TurnStart, OwnInv
<1>4. ASSUME NEW b \in Branch, pc'[b] # "off" \/ sess'[b] \notin {"absent", "idle"}
      PROVE  Owns(b)'
  BY <1>0, <1>2, <1>3, <1>4 DEF OwnInv, Session
<1>5. ASSUME NEW a \in Actor, pc'[a] = "forkqueue" PROVE Owns(job[a].target)'
  <2>1. CASE Same(a)
    BY <1>0, <1>5, <2>1 DEF Same, OwnInv, JobInv, Session
  <2>2. CASE Act(a) /\ ~ ForkClaim(a)
    <3>1. Scanning(a)'
      BY <1>5 DEF Scanning
    <3>2. ~ ReadSessions(a) /\ \A t \in Task : ~ AssignFork(a, t)
      BY <1>5 DEF ReadSessions, AssignFork, Goto, TypeOK
    <3> QED BY <1>5, <2>2, <3>1, <3>2, ScanningMoves
  <2>3. CASE ForkClaim(a)
    <3>1. /\ owner[job[a].task] = None /\ Claims(job[a].task, job[a].target) /\ UNCHANGED job
          /\ job[a].task \in Task
      BY <1>5, <2>3 DEF ForkClaim, Goto, TypeOK, JobInv
    <3>2. owner'[job[a].task] = job[a].target
      BY <3>1 DEF Claims, TypeOK
    <3> QED BY <3>1, <3>2 DEF Owns
  <2> QED BY <2>1, <2>2, <2>3, OneMoves
<1>6. ASSUME NEW a \in Actor, NEW s \in plan'[a].claimed PROVE s = Main \/ Owns(s)'
  <2>1. s \in plan[a].claimed \/ (s \in Session /\ \E t \in Task : owner'[t] = s)
    BY OneMoves, ClaimedMoves DEF Same
  <2>2. CASE s \in plan[a].claimed
    <3>1. s \in Session
      BY <2>2, PlanTyped DEF TypeOK
    <3> QED BY <1>0, <2>2, <3>1 DEF OwnInv
  <2> QED BY <2>1, <2>2 DEF Owns
<1> QED BY <1>4, <1>5, <1>6 DEF OwnInv

LEMMA OwnInit == Init => OwnInv
BY SessionAssumption, ActorAssumption, ActorTyped DEF Init, OwnInv, Session, NoPlan

\* While nobody writes to the branches, only a branch that owns a task is ever
\* queued or run, whoever crashes: the branch whose claim lost is removed as idle
\* as it was made (_fork_for).
THEOREM ForksRunForTheirTask ==
  ASSUME MaxMessages = 0 PROVE Spec => []OnlyOwnersRun
<1>1. OwnInv => OnlyOwnersRun
  BY DEF OwnInv, Owns, OnlyOwnersRun
<1>2. TypeOK /\ JobInv /\ OwnInv /\ [Next]_vars => OwnInv'
  BY OwnStep
<1> QED BY <1>1, <1>2, OwnInit, SpecTyped, PTL DEF Spec

-----------------------------------------------------------------------------
(* A finished branch holds nothing, while only agents move tasks, nobody       *)
(* writes to the sessions and no process dies.                                 *)

\* What an actor read of an owner, or of a task that ended, is so.
ReadOwnersInv ==
  \A a \in Actor, t \in Task : snap[a].owner[t] # None => snap[a].owner[t] = owner[t]

SnapInv ==
  /\ ReadOwnersInv
  /\ \A a \in Actor, t \in Task :
       snap[a].status[t] \in Terminal => snap[a].status[t] = status[t]

LEMMA SnapMoves ==
  ASSUME TypeOK, NEW a \in Actor, Act(a)
  PROVE  \/ snap'[a] \in {snap[a], NoSnap}
         \/ /\ snap'[a].status = status /\ snap'[a].owner = owner
            /\ snap'[a].over = (outcome # "none") /\ UNCHANGED <<status, owner>>
<1> DEFINE Goal == \/ snap'[a] \in {snap[a], NoSnap}
                   \/ /\ snap'[a].status = status /\ snap'[a].owner = owner
                      /\ snap'[a].over = (outcome # "none") /\ UNCHANGED <<status, owner>>
<1> USE ActorTyped DEF TypeOK
<1>0. Return(a) => snap'[a] = NoSnap
  BY DEF Return
<1>1. ASSUME ReadTasks(a), UNCHANGED <<status, owner>> PROVE Goal
  <2>1. snap'[a] = [status |-> status, owner |-> owner, over |-> outcome # "none"]
    BY <1>1 DEF ReadTasks
  <2> QED BY <1>1, <2>1
<1>2. ASSUME Evaluate(a) PROVE Goal
  <2>1. CASE EvaluateRead(a) \/ EvaluateReread(a)
    BY <1>1, <2>1 DEF EvaluateRead, EvaluateReread
  <2>2. CASE ~ EvaluateRead(a) /\ ~ EvaluateReread(a)
    BY <1>0, <1>2, <2>2 DEF Evaluate, WriteTask, SkipOne, FinishRead, Stamp, NoticeRead, Notify
  <2> QED BY <2>1, <2>2
<1>3. ASSUME Schedule(a) PROVE Goal
  BY <1>0, <1>3 DEF Schedule, ReadSessions, AssignFork, AssignExisting, ForkClaim, ForkDelete,
                    ForkQueue, AssignDone, AfterAssign, WakeOne
<1>4. ASSUME Crash(a) PROVE Goal
  BY <1>4 DEF Crash
<1>5. ASSUME a \in Session, TurnStart(a) \/ AgentStep(a) PROVE Goal
  BY <1>0, <1>5 DEF TurnStart, AgentStep, AgentList, AgentUpdate, AgentClaim, EndTurn
<1>6. ASSUME a \in Session, Settle(a) PROVE Goal
  BY <1>0, <1>1, <1>6 DEF Settle, SettleRead, SettleRecord, FollowUp, NudgeOnly, Nudge
<1>7. ASSUME NEW t \in Task, NEW new \in TaskStatus, PersonUpdate(a, t, new) PROVE Goal
  BY <1>7 DEF PersonUpdate
<1> HIDE DEF TypeOK, Goal
<1>8. Goal
  BY <1>2, <1>3, <1>4, <1>5, <1>6, <1>7 DEF Act
<1> QED BY <1>8 DEF Goal

LEMMA ReadOwnersStep ==
  ASSUME TypeOK, JobInv, ReadOwnersInv, [Next]_vars PROVE ReadOwnersInv'
<1> SUFFICES ASSUME NEW a \in Actor, NEW t \in Task
             PROVE  snap'[a].owner[t] # None => snap'[a].owner[t] = owner'[t]
  BY DEF ReadOwnersInv
<1>1. CASE snap'[a] = snap[a]
  BY <1>1, OwnerStep DEF ReadOwnersInv
<1>2. CASE snap'[a] = NoSnap
  BY <1>2 DEF NoSnap
<1>3. CASE snap'[a].owner = owner /\ UNCHANGED owner
  BY <1>3
<1> QED BY <1>1, <1>2, <1>3, SnapMoves, OneMoves DEF Same

LEMMA SnapStep ==
  ASSUME TypeOK, JobInv, EndInv, SnapInv, [Next]_vars PROVE SnapInv'
<1> SUFFICES ASSUME NEW a \in Actor, NEW t \in Task
             PROVE  snap'[a].status[t] \in Terminal => snap'[a].status[t] = status'[t]
  BY ReadOwnersStep DEF SnapInv
<1>1. CASE snap'[a] = snap[a]
  BY <1>1, EndedStays DEF SnapInv, EndInv
<1>2. CASE snap'[a] = NoSnap
  BY <1>2 DEF NoSnap, Terminal, Unfinished
<1>3. CASE snap'[a].status = status /\ UNCHANGED status
  BY <1>3
<1> QED BY <1>1, <1>2, <1>3, SnapMoves, OneMoves DEF Same

Claiming(a) == pc[a] \in {"forkclaim", "forkdelete"}

\* The branch a pass has just made is nobody else's and owns nothing, and neither
\* does one that does not exist.
MadeInv ==
  /\ \A a \in Actor : Claiming(a) =>
       /\ sess[job[a].target] # "absent" /\ ~ Owns(job[a].target)
       /\ \A b \in Actor \ {a} : Claiming(b) => job[b].target # job[a].target
  /\ \A b \in Branch : sess[b] = "absent" => ~ Owns(b)

\* Nobody woke it, either.
FreshInv ==
  /\ MadeInv
  /\ \A a \in Actor : Claiming(a) => sess[job[a].target] = "idle" /\ pc[job[a].target] = "off"
  /\ \A b \in Branch : sess[b] = "absent" => pc[b] = "off"

\* A ready task goes on a branch only if that branch worked all its dependencies.
LEMMA TargetWorkedDeps ==
  ASSUME TypeOK, NEW a \in Actor, NEW t \in Task, NEW b \in Branch,
         b = Target(snap[a].owner, plan[a].seen, t)
  PROVE  Deps[t] # {} /\ \A d \in Deps[t] : snap[a].owner[d] = b
<1> DEFINE o == snap[a].owner
           W == DepOwners(o, t)
<1>0. b # Main
  BY SessionAssumption
<1>1. ~ IsJoin(o, t) /\ b = CHOOSE x \in W \ {Main} : TRUE
  BY <1>0 DEF Target
<1>2. W \ {Main} # {}
  BY <1>0 DEF Target
<1>3. b \in W
  BY <1>1, <1>2
<1>4. IsFiniteSet(W)
  <2>1. W \subseteq Session
    <3>1. o \in [Task -> Session \cup {None}]
      BY DEF TypeOK, Snap
    <3> QED BY <3>1, TaskAssumption DEF DepOwners, WorkedBy, Session
  <2>2. IsFiniteSet(Session)
    BY SessionAssumption, FS_Singleton, FS_Union DEF Session
  <2> QED BY <2>1, <2>2, FS_Subset
<1>5. ASSUME NEW x \in W PROVE x = b
  <2>1. SUFFICES ASSUME x # b PROVE FALSE
    OBVIOUS
  <2>2. {x, b} \subseteq W /\ IsFiniteSet({x, b})
    BY <1>3, <1>4, FS_Subset
  <2>3. Cardinality({x, b}) = 2
    <3>1. {x, b} = {x} \cup {b} /\ b \notin {x}
      BY <2>1
    <3>2. IsFiniteSet({x}) /\ Cardinality({x}) = 1
      BY FS_Singleton
    <3>3. Cardinality({x} \cup {b}) = Cardinality({x}) + 1
      BY <3>1, <3>2, FS_AddElement
    <3> QED BY <3>1, <3>2, <3>3
  <2>4. Cardinality(W) >= 2 /\ Cardinality(W) \in Nat
    BY <1>4, <2>2, <2>3, FS_Subset, FS_CardinalityType
  <2> QED BY <1>1, <2>4 DEF IsJoin
<1>6. \A d \in Deps[t] : WorkedBy(o, d) \in W
  BY DEF DepOwners
<1>7. Deps[t] # {}
  BY <1>3 DEF DepOwners
<1> HIDE DEF W
<1> QED BY <1>0, <1>5, <1>6, <1>7 DEF WorkedBy

\* Only the fork it was made for takes a task into a branch that owns none.
LEMMA NoStrayClaim ==
  ASSUME TypeOK, JobInv, ReadOwnersInv, [Next]_vars, NEW b \in Branch, pc[b] # "claim",
         ~ Owns(b), NEW t \in Task, owner'[t] = b
  PROVE  \E a \in Actor : /\ ForkClaim(a) /\ pc[a] = "forkclaim" /\ job[a].target = b
                          /\ owner[job[a].task] = None
<1>1. owner[t] # b /\ owner[t] = None
  BY OwnerMoves DEF Owns
<1>2. ASSUME NEW s \in Session, AgentClaim(s), owner'[t] = s PROVE FALSE
  BY <1>2 DEF AgentClaim
<1>3. ASSUME NEW a \in Actor, AssignExisting(a, t), b = Target(snap[a].owner, plan[a].seen, t)
      PROVE  FALSE
  <2>1. PICK d \in Deps[t] : snap[a].owner[d] = b
    BY <1>3, TargetWorkedDeps
  <2>2. d \in Task /\ b # None
    BY TaskAssumption, SessionAssumption DEF Session
  <2> QED BY <2>1, <2>2 DEF ReadOwnersInv, Owns
<1>4. ASSUME NEW a \in Actor, ForkClaim(a) PROVE pc[a] = "forkclaim"
  BY <1>4 DEF ForkClaim
<1> QED BY <1>1, <1>2, <1>3, <1>4, OwnerMoves

\* Who holds a branch it made either has just made it, or lost its claim or keeps it.
LEMMA ForkHeld ==
  ASSUME TypeOK, JobInv, [Next]_vars, NEW a \in Actor, Claiming(a)'
  PROVE  \/ \E t \in Task : AssignFork(a, t)
         \/ /\ Claiming(a) /\ job'[a] = job[a] /\ job[a].target \in Branch
            /\ ForkClaim(a) => owner[job[a].task] # None
<1>1. CASE Same(a)
  <2>1. ~ ForkClaim(a)
    BY <1>1 DEF Same, ForkClaim, Goto, TypeOK
  <2> QED BY <1>1, <2>1 DEF Same, JobInv, Claiming
<1>2. CASE Act(a)
  <2>1. Scanning(a)' /\ ~ ReadSessions(a)
    BY DEF Claiming, Scanning, ReadSessions, Goto, TypeOK
  <2>2. CASE ~ \E t \in Task : AssignFork(a, t)
    <3>1. ForkClaim(a) /\ pc[a] = "forkclaim" /\ job'[a] = job[a]
      BY <1>2, <2>1, <2>2, ScanningMoves DEF Claiming
    <3>2. owner[job[a].task] # None
      BY <3>1 DEF Claiming, ForkClaim, Goto, TypeOK
    <3> QED BY <3>1, <3>2 DEF JobInv, Claiming
  <2> QED BY <2>2
<1> QED BY <1>1, <1>2, OneMoves

LEMMA ForkMade ==
  ASSUME TypeOK, NEW a \in Actor, NEW t \in Task, AssignFork(a, t)
  PROVE  /\ job'[a].target \in Branch /\ sess[job'[a].target] = "absent"
         /\ sess'[job'[a].target] = "idle" /\ UNCHANGED owner
         /\ \A s \in Branch : s # job'[a].target => sess'[s] = sess[s]
         /\ pc'[job'[a].target] = pc[job'[a].target]
         /\ \A b \in Actor \ {a} : Same(b)
<1>1. PICK b \in Branch :
           /\ sess[b] = "absent" /\ pc[b] = "off"
           /\ sess' = [sess EXCEPT ![b] = "idle"]
           /\ job' = [job EXCEPT ![a] = [[job[a] EXCEPT !.task = t] EXCEPT !.target = b]]
  BY DEF AssignFork
<1>2. job'[a].target = b
  BY <1>1 DEF TypeOK, Job
<1>3. pc[a] = "assign" /\ UNCHANGED owner /\ \A c \in Actor \ {a} : Same(c)
  BY DEF AssignFork, PlansNext, Goto, Same, TypeOK
<1>4. b \in Actor \ {a} /\ b \in Session
  BY <1>1, <1>3, ActorTyped DEF Session
<1> QED BY <1>1, <1>2, <1>3, <1>4, ActorTyped DEF TypeOK, Same, Session

\* A row goes by its deletion only.
LEMMA StaysThere ==
  ASSUME TypeOK, JobInv, [Next]_vars, NEW b \in Branch, sess[b] # "absent", ~ Deletes(b)
  PROVE  sess'[b] # "absent"
<1>0. b \in Session
  BY DEF Session
<1>1. ASSUME SettleRecord(b) PROVE sess'[b] # "absent"
  BY <1>0, <1>1, RecordMoves DEF SettledStatus
<1>2. TurnStart(b) \/ Queues(b) \/ Creates(b) => sess'[b] # "absent"
  BY <1>0 DEF TurnStart, Queues, Creates, TypeOK
<1> QED BY <1>0, <1>1, <1>2, SessionMoves

\* An agent that is starting a task nobody has is its session's, which owns one.
ClaimsInv == \A b \in Branch : pc[b] = "claim" => Owns(b)

LEMMA MadeStep ==
  ASSUME TypeOK, JobInv, ReadOwnersInv, ClaimsInv, MadeInv, [Next]_vars PROVE MadeInv'
<1>0. \A b \in Branch : b \in Session /\ b # Main
  BY SessionAssumption DEF Session
\* What nobody owned is taken into by its own fork's claim, if it wins.
<1>1. ASSUME NEW b \in Branch, ~ Owns(b), Owns(b)'
      PROVE  \E c \in Actor : /\ Claiming(c) /\ job[c].target = b
                              /\ ForkClaim(c) /\ owner[job[c].task] = None
  BY <1>1, NoStrayClaim DEF Owns, ClaimsInv, Claiming
\* The branch an actor keeps stays as it was.
<1>2. ASSUME NEW a \in Actor, Claiming(a), Claiming(a)', job'[a] = job[a],
             job[a].target \in Branch, ForkClaim(a) => owner[job[a].task] # None
      PROVE  sess'[job[a].target] # "absent" /\ ~ Owns(job[a].target)'
  <2> DEFINE b == job[a].target
  <2>0. /\ b \in Branch /\ sess[b] # "absent" /\ ~ Owns(b)
        /\ \A c \in Actor : Claiming(c) /\ job[c].target = b => c = a
    BY <1>2 DEF MadeInv
  <2>1. ~ Owns(b)'
    BY <1>1, <1>2, <2>0
  <2>2. ~ Deletes(b)
    BY <1>2, <2>0 DEF Deletes, Claiming
  <2>3. sess'[b] # "absent"
    BY <1>0, <2>0, <2>2, StaysThere
  <2> QED BY <2>1, <2>3
<1>3. ASSUME NEW a \in Actor, NEW t \in Task, AssignFork(a, t)
      PROVE  /\ job'[a].target \in Branch /\ sess'[job'[a].target] # "absent"
             /\ ~ \E u \in Task : owner'[u] = job'[a].target
             /\ \A b \in Actor \ {a} :
                  Claiming(b)' => Claiming(b) /\ job'[b].target # job'[a].target
  BY <1>3, ForkMade DEF MadeInv, Owns, Same, Claiming
<1>4. ASSUME NEW a \in Actor, Claiming(a)'
      PROVE  /\ sess'[job'[a].target] # "absent"
             /\ ~ \E u \in Task : owner'[u] = job'[a].target
  BY <1>2, <1>3, <1>4, ForkHeld DEF Owns
<1>5. ASSUME NEW a \in Actor, NEW b \in Actor \ {a}, Claiming(a)', Claiming(b)'
      PROVE  job'[b].target # job'[a].target
  <2>1. CASE Claiming(a) /\ job'[a] = job[a] /\ Claiming(b) /\ job'[b] = job[b]
    BY <2>1 DEF MadeInv
  <2> QED BY <1>3, <1>5, <2>1, ForkHeld
<1>6. ASSUME NEW b \in Branch, sess'[b] = "absent" PROVE ~ Owns(b)'
  <2>1. CASE sess[b] = "absent"
    BY <1>1, <2>1 DEF MadeInv
  <2>2. CASE Deletes(b)
    <3>1. PICK a \in Actor : pc[a] = "forkdelete" /\ job[a].target = b
      BY <2>2 DEF Deletes
    <3>2. ~ ForkClaim(a) /\ ~ Owns(b) /\ \A c \in Actor : Claiming(c) /\ job[c].target = b => c = a
      BY <3>1 DEF MadeInv, Claiming, ForkClaim
    <3> QED BY <1>1, <3>2
  <2> QED BY <1>0, <1>6, <2>1, <2>2, StaysThere
<1> QED BY <1>4, <1>5, <1>6 DEF MadeInv, Owns

LEMMA FreshStep ==
  ASSUME MaxMessages = 0, TypeOK, JobInv, OwnInv, ReadOwnersInv, FreshInv, [Next]_vars
  PROVE  FreshInv'
<1>0. /\ \A s \in Session : ~ SendMessage(s)
      /\ \A b \in Branch : b \in Session /\ b \in Actor /\ b # Main
  BY ActorTyped, SessionAssumption DEF SendMessage, TypeOK, Session
<1>1. MadeInv'
  BY MadeStep DEF FreshInv, OwnInv, ClaimsInv
<1>2. ASSUME NEW b \in Branch, pc[b] = "off", sess[b] \in {"absent", "idle"} PROVE pc'[b] = "off"
  BY <1>0, <1>2, OnlyTurnsStart DEF TurnStart
\* The branch an actor keeps stays as it was.
<1>3. ASSUME NEW a \in Actor, Claiming(a), Claiming(a)', job[a].target \in Branch
      PROVE  sess'[job[a].target] = "idle" /\ pc'[job[a].target] = "off"
  <2> DEFINE b == job[a].target
  <2>0. /\ b \in Branch /\ sess[b] = "idle" /\ pc[b] = "off" /\ ~ Owns(b)
        /\ \A c \in Actor : Claiming(c) /\ job[c].target = b => c = a
    BY <1>3 DEF FreshInv, MadeInv
  <2>1. pc'[b] = "off"
    BY <2>0, <1>2
  <2>2. ~ TurnStart(b) /\ ~ SettleRecord(b) /\ ~ Creates(b)
    BY <2>0 DEF TurnStart, SettleRecord, Creates
  <2>3. ~ Queues(b)
    BY <1>0, <2>0 DEF Queues, OwnInv
  <2>4. ~ Deletes(b)
    BY <1>3, <2>0 DEF Deletes, Claiming
  <2>5. sess'[b] = "idle"
    BY <1>0, <2>0, <2>2, <2>3, <2>4, SessionMoves
  <2> QED BY <2>1, <2>5
<1>4. ASSUME NEW a \in Actor, Claiming(a)'
      PROVE  sess'[job'[a].target] = "idle" /\ pc'[job'[a].target] = "off"
  <2>1. ASSUME NEW t \in Task, AssignFork(a, t)
        PROVE  sess'[job'[a].target] = "idle" /\ pc'[job'[a].target] = "off"
    BY <2>1, ForkMade DEF FreshInv
  <2> QED BY <1>3, <1>4, <2>1, ForkHeld
<1>5. ASSUME NEW b \in Branch, sess'[b] = "absent" PROVE pc'[b] = "off"
  <2>1. CASE sess[b] = "absent"
    BY <1>2, <2>1 DEF FreshInv
  <2>2. CASE Deletes(b)
    <3>1. pc[b] = "off" /\ sess[b] = "idle"
      BY <2>2 DEF Deletes, FreshInv, Claiming
    <3> QED BY <1>2, <3>1
  <2> QED BY <1>0, <1>5, <2>1, <2>2, StaysThere
<1> QED BY <1>1, <1>4, <1>5 DEF FreshInv

\* Every task of a pass has its dependencies completed.
TodoInv == \A a \in Actor : Scanning(a) => \A t \in plan[a].todo : DepsCompleted(status, t)

LEMMA TodoStep ==
  ASSUME TypeOK, JobInv, EndInv, SnapInv, TodoInv, [Next]_vars PROVE TodoInv'
<1> SUFFICES ASSUME NEW a \in Actor, Scanning(a)', NEW t \in plan'[a].todo
             PROVE  \A d \in Deps[t] : status'[d] = "completed"
  BY DEF TodoInv, DepsCompleted
<1>1. \A u \in Task : status[u] = "completed" => status'[u] = "completed"
  BY EndedStays DEF EndInv, Terminal, TaskStatus, Unfinished
<1>2. ASSUME Scanning(a), t \in plan[a].todo PROVE \A d \in Deps[t] : status'[d] = "completed"
  <2>1. t \in Task /\ Deps[t] \subseteq Task
    BY <1>2, PlanTyped, TaskAssumption DEF TypeOK
  <2> QED BY <1>1, <1>2, <2>1 DEF TodoInv, DepsCompleted
<1>3. CASE Same(a)
  BY <1>2, <1>3 DEF Same, Scanning
<1>4. CASE ReadSessions(a)
  <2>1. plan'[a].todo = Ready(snap[a].status, snap[a].owner, sess)
    BY <1>4 DEF ReadSessions, TypeOK
  <2>2. t \in Task /\ Deps[t] \subseteq Task /\ \A d \in Deps[t] : snap[a].status[d] = "completed"
    BY <2>1, TaskAssumption DEF Ready, DepsCompleted
  <2>3. \A d \in Deps[t] : status[d] = "completed"
    BY <2>2 DEF SnapInv, Terminal, TaskStatus, Unfinished
  <2> QED BY <1>1, <2>2, <2>3
<1>5. CASE \E u \in Task : AssignFork(a, u)
  <2>1. PICK u \in Task : AssignFork(a, u)
    BY <1>5
  <2>2. pc[a] = "assign" /\ plan'[a].todo = plan[a].todo \ {u}
    BY <2>1 DEF AssignFork, PlansNext, TypeOK, Plan
  <2> QED BY <1>2, <2>2 DEF Scanning
<1>6. CASE Scanning(a) /\ plan'[a].todo \subseteq plan[a].todo
  BY <1>2, <1>6
<1> QED BY <1>3, <1>4, <1>5, <1>6, OneMoves, ScanningMoves

\* Task t is ready on branch b, and nobody has taken it yet.
Due(t, b) ==
  /\ owner[t] = None /\ Deps[t] # {}
  /\ \A d \in Deps[t] : status[d] = "completed" /\ owner[d] = b

\* The turn of b has not finished the evaluation that will see t: it has not read
\* the tasks, or it read t as ready, or t is on its plan.
SeenReady(b, t) ==
  /\ snap[b].status[t] = "pending" /\ snap[b].owner[t] = None
  /\ \A d \in Deps[t] : snap[b].status[d] = "completed" /\ snap[b].owner[d] = b

OnIt(b, t) ==
  /\ job[b].ret = "agent"
  /\ \/ pc[b] \in {"evaluate", "skip", "reread"}
     \/ pc[b] = "sessions" /\ SeenReady(b, t)
     \/ pc[b] \in {"assign", "forkclaim", "forkqueue", "forkdelete"} /\ t \in plan[b].todo
     \/ pc[b] = "forkclaim" /\ job[b].task = t

DueInv == \A t \in Task, b \in Branch : Due(t, b) => OnIt(b, t)

\* A task nobody has taken, and that can start, is pending.
LEMMA DueIsPending ==
  ASSUME TypeOK, EndInv, NEW t \in Task, owner[t] = None, DepsCompleted(status, t)
  PROVE  status[t] = "pending"
<1>1. ~ Started(t)
  BY DEF EndInv, OrderInv, StartInv
<1>2. status[t] # "skipped"
  BY BlockedNotStarted DEF EndInv, OrderInv, SkippedInv
<1> QED BY <1>1, <1>2 DEF TypeOK, TaskStatus, Started

\* A task's status is written by whoever has it in hand, or by a skip.
LEMMA StatusMoves ==
  ASSUME TypeOK, [Next]_vars
  PROVE  (\E a \in Actor : WriteTask(a) \/ SkipOne(a)) \/ UNCHANGED status
<1>1. ASSUME NEW a \in Actor, Loud(a) \/ Quiet(a)
      PROVE  WriteTask(a) \/ SkipOne(a) \/ UNCHANGED status
  BY <1>1 DEF Loud, Quiet, AgentUpdate, PersonUpdate, AgentClaim, EvaluateRead, AssignFork,
              ForkClaim
<1> QED BY <1>1, StepsAreLoudOrQuiet

\* The turn that is on a task stays on it until it is taken.
LEMMA StaysOnIt ==
  ASSUME MaxCrashes = 0, TypeOK, JobInv, TurnsInv, EndInv, NEW t \in Task, NEW b \in Branch,
         [Next]_vars, Due(t, b), OnIt(b, t), Act(b), owner'[t] = None
  PROVE  OnIt(b, t)'
<1> DEFINE Goal == OnIt(b, t)'
<1> USE DEF TypeOK, Goto
<1>0. /\ b \in Session /\ b \in Actor /\ b \notin People
      /\ status[t] = "pending" /\ AfterSkips = "sessions"
      /\ DepsCompleted(status, t)
  <2>1. DepsCompleted(status, t)
    BY DEF Due, DepsCompleted
  <2>2. status[t] = "pending"
    BY <2>1, DueIsPending DEF Due
  <2> QED BY <2>1, <2>2, ActorTyped, ActorAssumption DEF Session, AfterSkips, Unfinished
<1>1. ASSUME EvaluateRead(b) \/ EvaluateReread(b) PROVE Goal
  <2>1. /\ pc'[b] \in {"skip", "sessions"} /\ job'[b] = job[b]
        /\ UNCHANGED <<status, owner>>
    BY <1>0, <1>1 DEF EvaluateRead, EvaluateReread
  <2>2. snap'[b].status = status /\ snap'[b].owner = owner
    BY <1>0, <1>1 DEF EvaluateRead, EvaluateReread, ReadTasks
  <2> QED BY <1>0, <2>1, <2>2 DEF OnIt, SeenReady, Due
<1>2. ASSUME SkipOne(b) PROVE Goal
  <2>1. pc'[b] \in {"skip", "reread"} /\ job'[b] = job[b]
    BY <1>0, <1>2 DEF SkipOne
  <2> QED BY <2>1 DEF OnIt
<1>3. ASSUME ReadSessions(b) PROVE Goal
  <2>1. /\ pc[b] = "sessions" /\ pc'[b] = "assign" /\ job'[b] = job[b]
        /\ plan'[b].todo = Ready(snap[b].status, snap[b].owner, sess)
    BY <1>0, <1>3 DEF ReadSessions
  <2>2. SeenReady(b, t)
    BY <2>1 DEF OnIt
  <2>3. DepOwners(snap[b].owner, t) = {b}
    <3>1. \A d \in Deps[t] : WorkedBy(snap[b].owner, d) = b
      BY <1>0, <2>2, SessionAssumption DEF SeenReady, WorkedBy
    <3> QED BY <3>1 DEF DepOwners, Due
  <2>4. ~ IsJoin(snap[b].owner, t)
    <3>1. Cardinality({b}) = 1
      BY FS_Singleton
    <3> HIDE DEF TypeOK
    <3> QED BY <2>3, <3>1 DEF IsJoin
  <2>5. t \in Ready(snap[b].status, snap[b].owner, sess)
    BY <2>2, <2>4 DEF Ready, SeenReady, DepsCompleted
  <2> QED BY <2>1, <2>5 DEF OnIt
<1>4. ASSUME NEW u \in Task, AssignFork(b, u) PROVE Goal
  <2>0. plan[b] \in Plan /\ plan' = [plan EXCEPT ![b].todo = @ \ {u}, ![b].alive = @ + 1]
    BY <1>0, <1>4 DEF AssignFork
  <2>1. /\ pc[b] = "assign" /\ pc'[b] = "forkclaim" /\ plan'[b].todo = plan[b].todo \ {u}
    BY <1>0, <1>4, <2>0 DEF AssignFork, PlansNext, Plan
  <2>2. job'[b].ret = job[b].ret /\ job'[b].task = u
    <3>0. job \in [Actor -> Job]
      OBVIOUS
    <3> HIDE DEF TypeOK, Goto
    <3>1. PICK c \in Branch :
               job' = [job EXCEPT ![b] = [[job[b] EXCEPT !.task = u] EXCEPT !.target = c]]
      BY <1>4 DEF AssignFork
    <3> QED BY <1>0, <3>0, <3>1 DEF Job
  <2> QED BY <2>1, <2>2 DEF OnIt
<1>5. ASSUME NEW u \in Task, AssignExisting(b, u) PROVE Goal
  <2>0. plan'[b].todo = plan[b].todo \ {u}
    BY <1>0, <1>5 DEF AssignExisting, Plan
  <2>1. pc[b] = "assign" /\ pc'[b] = pc[b] /\ job'[b] = job[b]
    BY <1>0, <1>5 DEF AssignExisting, PlansNext
  <2>2. u # t
    <3>1. Target(snap[b].owner, plan[b].seen, u) \in Session
      BY <1>0, TargetTyped
    <3>2. Claims(u, Target(snap[b].owner, plan[b].seen, u))
      BY <1>5 DEF AssignExisting
    <3> HIDE DEF TypeOK
    <3>3. owner \in [Task -> Session \cup {None}]
      BY DEF TypeOK
    <3> QED BY <3>1, <3>2, <3>3, SessionAssumption DEF Claims, Due
  <2> QED BY <2>0, <2>1, <2>2 DEF OnIt
<1>6. ASSUME ForkClaim(b) PROVE Goal
  <2>1. /\ pc[b] = "forkclaim" /\ pc'[b] \in {"forkqueue", "forkdelete"} /\ job'[b] = job[b]
        /\ plan'[b] = plan[b] /\ Claims(job[b].task, job[b].target)
    BY <1>0, <1>6 DEF ForkClaim
  <2>2. job[b].task # t
    BY <1>0, <2>1, SessionAssumption DEF Claims, Due, JobInv, Session
  <2> QED BY <2>1, <2>2 DEF OnIt
<1>7. ASSUME ForkDelete(b) \/ ForkQueue(b) PROVE Goal
  <2>1. /\ pc[b] \in {"forkqueue", "forkdelete"} /\ pc'[b] = "assign" /\ job'[b] = job[b]
        /\ plan'[b] = plan[b]
    BY <1>0, <1>7 DEF ForkDelete, ForkQueue
  <2> QED BY <2>1 DEF OnIt
<1>8. ASSUME AssignDone(b) \/ WakeOne(b) PROVE FALSE
  BY <1>8 DEF AssignDone, WakeOne, OnIt
<1>9. ASSUME WriteTask(b) \/ FinishRead(b) \/ Stamp(b) \/ NoticeRead(b) \/ Notify(b) PROVE FALSE
  BY <1>9 DEF WriteTask, FinishRead, Stamp, NoticeRead, Notify, OnIt
<1>10. ASSUME TurnStart(b) \/ AgentStep(b) \/ Settle(b) PROVE FALSE
  <2>1. pc[b] \notin {"off", "agent", "claim", "settle", "record", "nudge"}
    BY DEF OnIt
  <2> HIDE DEF TypeOK
  <2> QED BY <1>10, <2>1 DEF TurnStart, AgentStep, AgentList, AgentUpdate, AgentClaim, EndTurn,
               Settle, SettleRead, SettleRecord, Nudge
<1>11. ~ Crash(b)
  <2>1. ~ (crashes < MaxCrashes)
    OBVIOUS
  <2> HIDE DEF TypeOK
  <2> QED BY <2>1, Zenon DEF Crash
<1> HIDE DEF TypeOK, Goto, Goal
<1>12. Goal
  BY <1>0, <1>1, <1>2, <1>3, <1>4, <1>5, <1>6, <1>7, <1>8, <1>9, <1>10, <1>11
     DEF Act, Evaluate, Schedule
<1> QED BY <1>12 DEF Goal

LEMMA DueStep ==
  ASSUME MaxCrashes = 0, TypeOK, JobInv, TurnsInv, EndInv, DueInv, [Next]_vars PROVE DueInv'
<1> SUFFICES ASSUME NEW t \in Task, NEW b \in Branch, Due(t, b)' PROVE OnIt(b, t)'
  BY DEF DueInv
<1>0. b \in Session /\ b \in Actor /\ Deps[t] \subseteq Task /\ b # None
  BY ActorTyped, TaskAssumption, SessionAssumption DEF Session
<1>1. owner[t] = None /\ owner'[t] = None
  BY OwnerStep DEF Due
<1>2. CASE Due(t, b)
  <2>1. OnIt(b, t)
    BY <1>2 DEF DueInv
  <2>2. CASE Same(b)
    BY <2>1, <2>2 DEF OnIt, SeenReady, Same
  <2>3. CASE Act(b)
    BY <1>1, <1>2, <2>1, <2>3, StaysOnIt
  <2> QED BY <1>0, <2>2, <2>3, OneMoves
<1>3. CASE ~ Due(t, b)
  <2>1. \A d \in Deps[t] : status[d] = "completed" => owner'[d] = owner[d]
    BY <1>0, OwnerStep DEF EndInv, OrderInv, StartInv, Started
  <2>2. PICK d \in Deps[t] : status[d] # "completed" /\ status'[d] = "completed" /\ owner'[d] = b
    BY <1>1, <1>3, <2>1 DEF Due
  <2>3. ASSUME NEW a \in Actor, WriteTask(a) PROVE OnIt(b, t)'
    <3>1. /\ pc[a] = "write" /\ job[a].task \in Task /\ owner[job[a].task] = a /\ a \in Session
          /\ status' = [status EXCEPT ![job[a].task] = job[a].new]
          /\ pc'[a] = "evaluate" /\ job'[a] = job[a] /\ UNCHANGED owner
      BY <2>3 DEF WriteTask, SetStatus, Goto, TypeOK, EndInv, OrderInv, InHandInv, JobInv
    <3>2. job[a].task = d
      BY <1>0, <2>2, <3>1 DEF TypeOK
    <3>3. a = b
      BY <2>2, <3>1, <3>2
    <3>4. job[b].ret = "agent"
      BY <3>1, <3>3 DEF TurnsInv
    <3> QED BY <3>1, <3>3, <3>4 DEF OnIt
  <2>4. ASSUME NEW a \in Actor, SkipOne(a) PROVE FALSE
    <3>1. PICK u \in plan[a].todo : status' = [status EXCEPT ![u] = "skipped"]
      BY <2>4 DEF SkipOne, SetStatus
    <3> QED BY <1>0, <2>2, <3>1 DEF TypeOK
  <2> QED BY <2>2, <2>3, <2>4, StatusMoves
<1> QED BY <1>2, <1>3

\* What a settling branch read covers every task it owns.
RecordInv ==
  \A b \in Branch : pc[b] = "record" => \A t \in Task : owner[t] = b => snap[b].owner[t] = b

DoneInv == \A b \in Branch : sess[b] = "done" => \A t \in Task : owner[t] = b => status[t] \in Terminal

\* No branch is handed a task once it is settling, or done.
LEMMA HandedWhileWorking ==
  ASSUME TypeOK, JobInv, TurnsInv, SnapInv, FreshInv, TodoInv, DueInv, [Next]_vars,
         NEW b \in Branch, NEW t \in Task, owner[t] # b, owner'[t] = b
  PROVE  sess[b] # "done" /\ pc[b] # "record"
<1>0. b \in Session /\ owner[t] = None
  BY OwnerMoves DEF Session
<1>1. ASSUME AgentClaim(b) PROVE sess[b] # "done" /\ pc[b] # "record"
  <2>1. pc[b] = "claim"
    BY <1>1 DEF AgentClaim
  <2> QED BY <1>0, <2>1 DEF TurnsInv, InTurn
<1>2. ASSUME NEW a \in Actor, ForkClaim(a), job[a].target = b
      PROVE  sess[b] # "done" /\ pc[b] # "record"
  <2>1. pc[a] = "forkclaim"
    BY <1>2 DEF ForkClaim
  <2> QED BY <1>2, <2>1 DEF FreshInv, Claiming
<1>3. ASSUME NEW a \in Actor, AssignExisting(a, t), b = Target(snap[a].owner, plan[a].seen, t)
      PROVE  sess[b] # "done" /\ pc[b] # "record"
  <2>1. Deps[t] # {} /\ \A d \in Deps[t] : d \in Task /\ snap[a].owner[d] = b
    BY <1>3, TargetWorkedDeps, TaskAssumption
  <2>2. \A d \in Deps[t] : owner[d] = b
    BY <1>0, <2>1, SessionAssumption DEF SnapInv, ReadOwnersInv
  <2>3. t \in plan[a].todo /\ Scanning(a)
    BY <1>3 DEF AssignExisting, PlansNext, IsEarliest, Scanning
  <2>4. Due(t, b)
    BY <1>0, <2>1, <2>2, <2>3 DEF Due, TodoInv, DepsCompleted
  <2>5. OnIt(b, t)
    BY <2>4 DEF DueInv
  <2> QED BY <1>0, <2>5 DEF OnIt, TurnsInv, InTurn
<1> QED BY <1>0, <1>1, <1>2, <1>3, OwnerMoves

\* A session settles once its turn ended, and from what it has then read.
LEMMA SettlingMoves ==
  ASSUME TypeOK, NEW s \in Session, Act(s), pc'[s] \in {"settle", "record"}
  PROVE  SettleRead(s) \/ \E end \in TurnEnds : EndTurn(s, end)
<1> USE DEF TypeOK, Goto
<1>0. /\ s \in Actor /\ s \notin People /\ job[s].ret \in {"agent", "off"}
      /\ Return(s) => pc'[s] = job[s].ret
  BY ActorTyped, ActorAssumption DEF Return, Job
<1>1. ASSUME Evaluate(s) PROVE FALSE
  <2>1. CASE WriteTask(s) \/ FinishRead(s) \/ Stamp(s)
    BY <1>0, <2>1 DEF WriteTask, FinishRead, Stamp
  <2>2. CASE EvaluateRead(s) \/ EvaluateReread(s)
    <3>1. pc'[s] \in {"skip", AfterSkips}
      BY <1>0, <2>2 DEF EvaluateRead, EvaluateReread
    <3> QED BY <3>1 DEF AfterSkips
  <2>3. CASE SkipOne(s)
    BY <1>0, <2>3 DEF SkipOne
  <2>4. CASE NoticeRead(s) \/ Notify(s)
    BY <2>4, <1>0 DEF NoticeRead, Notify
  <2> QED BY <1>1, <2>1, <2>2, <2>3, <2>4 DEF Evaluate
<1>2. ASSUME Schedule(s) PROVE FALSE
  <2>1. ~ Scanning(s)'
    BY DEF Scanning
  <2>2. CASE ReadSessions(s) \/ ForkClaim(s) \/ ForkDelete(s) \/ ForkQueue(s) \/ AssignDone(s)
    BY <1>0, <2>2 DEF ReadSessions, ForkClaim, ForkDelete, ForkQueue, AssignDone, AfterAssign
  <2>3. ASSUME NEW t \in Task, AssignFork(s, t) \/ AssignExisting(s, t) PROVE FALSE
    BY <1>0, <2>3 DEF AssignFork, AssignExisting, PlansNext
  <2>4. CASE WakeOne(s)
    <3>1. pc[s] = "wake" /\ (Return(s) \/ UNCHANGED pc)
      BY <2>4 DEF WakeOne
    <3> QED BY <1>0, <3>1
  <2> QED BY <1>2, <2>2, <2>3, <2>4 DEF Schedule
<1>3. ASSUME Crash(s) \/ TurnStart(s) PROVE FALSE
  BY <1>0, <1>3 DEF Crash, TurnStart
<1>4. ASSUME AgentStep(s) PROVE \E end \in TurnEnds : EndTurn(s, end)
  <2>1. ASSUME AgentList(s) \/ AgentClaim(s) PROVE FALSE
    BY <1>0, <2>1 DEF AgentList, AgentClaim
  <2>2. ASSUME NEW t \in Task, NEW new \in TaskStatus, AgentUpdate(s, t, new) PROVE FALSE
    BY <1>0, <2>2 DEF AgentUpdate
  <2> QED BY <1>4, <2>1, <2>2 DEF AgentStep
<1>5. ASSUME SettleRecord(s) \/ Nudge(s) PROVE FALSE
  BY <1>0, <1>5, RecordMoves DEF Nudge
<1> HIDE DEF TypeOK, Goto
<1> QED BY <1>0, <1>1, <1>2, <1>3, <1>4, <1>5 DEF Act, Settle

LEMMA OnlyReadsRecord ==
  ASSUME TypeOK, NEW s \in Session, Act(s), pc'[s] = "record" PROVE SettleRead(s)
BY SettlingMoves, ActorTyped DEF EndTurn, Goto, TypeOK

LEMMA RecordStep ==
  ASSUME TypeOK, JobInv, TurnsInv, SnapInv, FreshInv, TodoInv, DueInv, RecordInv, [Next]_vars
  PROVE  RecordInv'
<1> SUFFICES ASSUME NEW b \in Branch, pc'[b] = "record", NEW t \in Task, owner'[t] = b
             PROVE  snap'[b].owner[t] = b
  BY DEF RecordInv
<1>0. b \in Session /\ b \in Actor
  BY ActorTyped DEF Session
<1>1. CASE Same(b)
  <2>1. pc[b] = "record" /\ snap'[b] = snap[b]
    BY <1>1 DEF Same
  <2>2. owner[t] = b
    BY <2>1, HandedWhileWorking
  <2> QED BY <2>1, <2>2 DEF RecordInv
<1>2. CASE Act(b)
  <2>1. SettleRead(b)
    BY <1>0, <1>2, OnlyReadsRecord
  <2>2. snap'[b].owner = owner /\ UNCHANGED owner
    BY <1>0, <2>1 DEF SettleRead, ReadTasks, TypeOK
  <2> QED BY <2>2
<1> QED BY <1>0, <1>1, <1>2, OneMoves

LEMMA DoneStep ==
  ASSUME TypeOK, JobInv, EndInv, TurnsInv, SnapInv, FreshInv, TodoInv, DueInv, RecordInv, DoneInv,
         [Next]_vars
  PROVE  DoneInv'
<1> SUFFICES ASSUME NEW b \in Branch, sess'[b] = "done", NEW t \in Task, owner'[t] = b
             PROVE  status'[t] \in Terminal
  BY DEF DoneInv
<1>0. b \in Session /\ b \in Actor /\ b # Main
  BY ActorTyped, SessionAssumption DEF Session
<1>1. status[t] \in Terminal => status'[t] = status[t]
  BY EndedStays DEF EndInv
<1>2. CASE sess[b] = "done"
  <2>1. owner[t] = b
    BY <1>2, HandedWhileWorking
  <2> QED BY <1>1, <1>2, <2>1 DEF DoneInv
<1>3. CASE sess[b] # "done"
  <2>1. SettleRecord(b)
    BY <1>0, <1>3, OnlyRecordsFinish
  <2>2. pc[b] = "record" /\ SettledStatus(b) = "done" /\ owner' = owner
    BY <1>0, <2>1, RecordMoves DEF SettleRecord
  <2>3. snap[b].owner[t] = b
    BY <2>2 DEF RecordInv
  <2>4. ~ LeftUnfinished(b)
    BY <1>0, <1>3, <2>2 DEF SettledStatus
  <2>5. snap[b].status[t] \in Terminal
    <3>1. snap[b].status[t] \in TaskStatus
      BY <1>0 DEF TypeOK, Snap
    <3> QED BY <2>3, <2>4, <3>1 DEF LeftUnfinished, Terminal
  <2>6. status[t] \in Terminal
    BY <1>0, <2>5 DEF SnapInv
  <2> QED BY <1>1, <2>6
<1> QED BY <1>2, <1>3

HoldInv ==
  TurnsInv /\ OwnInv /\ SnapInv /\ FreshInv /\ TodoInv /\ DueInv /\ RecordInv /\ DoneInv

LEMMA HoldInit == Init => HoldInv
<1> SUFFICES ASSUME Init PROVE HoldInv
  OBVIOUS
<1>1. SnapInv
  BY DEF Init, SnapInv, ReadOwnersInv, NoSnap, Terminal, Unfinished
<1>2. FreshInv /\ TodoInv
  BY SessionAssumption, ActorAssumption, ActorTyped DEF Init, FreshInv, MadeInv, Claiming, TodoInv, Scanning, Owns, Session
<1>3. DueInv
  BY TaskAssumption DEF Init, DueInv, Due
<1>4. RecordInv /\ DoneInv
  BY SessionAssumption, ActorAssumption, ActorTyped DEF Init, RecordInv, DoneInv, Session
<1> QED BY <1>1, <1>2, <1>3, <1>4, TurnsInit, OwnInit DEF HoldInv

\* While only agents move tasks, nobody writes to the sessions and no process dies,
\* a branch that is done holds no unfinished task -- for every workflow, limit and
\* interleaving of assignments with settlings: whoever assigns a branch a task reads
\* it ready no later than the branch's own evaluation does, and that one ends first
\* (settle_turn decides from a read that is older than its record).
THEOREM DoneBranchesAreFree ==
  ASSUME OnlyAgentsForward, MaxMessages = 0, MaxCrashes = 0
  PROVE  Spec => []DoneBranchHoldsNothing
<1>1. HoldInv => DoneBranchHoldsNothing
  BY DEF HoldInv, DoneInv, DoneBranchHoldsNothing
<1>2. TypeOK /\ JobInv /\ EndInv /\ HoldInv /\ [Next]_vars => HoldInv'
  BY TurnsStep, OwnStep, SnapStep, FreshStep, TodoStep, DueStep, RecordStep, DoneStep
     DEF HoldInv, SnapInv
<1> QED BY <1>1, <1>2, HoldInit, SpecTyped, SpecEnds, PTL DEF Spec

-----------------------------------------------------------------------------
(* No ready task is forgotten, in unraced executions without crashes, while    *)
(* tasks move forward and people only end what a session has started.          *)

TasksMoveForward ==
  /\ AgentMoves \subseteq Forward
  /\ PersonMoves \subseteq {<<"in_progress", "completed">>, <<"in_progress", "failed">>}

\* A task that started has a session, and so has one about to be written.
HeldInv ==
  /\ \A t \in Task : Started(t) => owner[t] # None
  /\ \A a \in Actor : pc[a] \in {"claim", "write"} => job[a].new \in {"in_progress", "completed", "failed"}
  /\ \A a \in Actor : pc[a] = "write" => owner[job[a].task] # None

\* What an actor about to read the sessions, or to record its turn, read of the
\* tasks is so: no status moved, and no owner of a task that started.
CurrentInv ==
  \A a \in Actor : pc[a] \in {"sessions", "record"} =>
    /\ snap[a].status = status
    /\ \A t \in Task : owner[t] = None \/ Started(t) => snap[a].owner[t] = owner[t]

\* Actor a has still to look for ready tasks, or found t.
Looks(a, t) ==
  \/ pc[a] \in {"evaluate", "skip", "reread", "sessions"}
  \/ pc[a] \in {"assign", "forkclaim", "forkqueue", "forkdelete"} /\ t \in plan[a].todo
  \/ pc[a] = "forkclaim" /\ job[a].task = t

LookInv == \A t \in Ready(status, owner, sess) : \E a \in Actor : Looks(a, t)

\* How an actor comes to have a task in hand.
TakesInHand(a) ==
  \E t \in Task, new \in TaskStatus :
    /\ a \in Session /\ MayTouch(a, t)
    /\ <<status[t], new>> \in AgentMoves /\ UNCHANGED owner
    /\ job'[a].task = t /\ job'[a].new = new
    /\ pc'[a] = IF new = "in_progress" /\ owner[t] = None THEN "claim" ELSE "write"

EditsInHand(a) ==
  \E t \in Task, new \in TaskStatus :
    /\ a \in People
    /\ <<status[t], new>> \in PersonMoves /\ UNCHANGED owner
    /\ job'[a].task = t /\ job'[a].new = new

ClaimsInHand(a) ==
  a \in Session /\ pc[a] = "claim" /\ job'[a] = job[a] /\ owner'[job[a].task] = a

LEMMA InHandMoves ==
  ASSUME TypeOK, JobInv, [Next]_vars, NEW a \in Actor, pc'[a] \in {"claim", "write"}
  PROVE  \/ pc'[a] = pc[a] /\ job'[a] = job[a]
         \/ TakesInHand(a) \/ EditsInHand(a) \/ ClaimsInHand(a)
<1> DEFINE Kept == pc'[a] = pc[a] /\ job'[a] = job[a]
           Goal == Kept \/ TakesInHand(a) \/ EditsInHand(a) \/ ClaimsInHand(a)
<1>1. ASSUME NEW t \in Task, NEW new \in TaskStatus, NEW s \in Session, AgentUpdate(s, t, new)
      PROVE  Goal
  <2>1. s # a => Kept
    BY <1>1 DEF AgentUpdate, Goto, TypeOK
  <2>2. CASE s = a
    <3>1. /\ a \in Session /\ MayTouch(a, t)
          /\ <<status[t], new>> \in AgentMoves /\ UNCHANGED owner
          /\ pc'[a] = IF new = "in_progress" /\ owner[t] = None THEN "claim" ELSE "write"
          /\ job'[a].task = t /\ job'[a].new = new
      BY <1>1, <2>2 DEF AgentUpdate, Goto, TypeOK
    <3> QED BY <3>1 DEF TakesInHand
  <2> QED BY <2>1, <2>2
<1>2. ASSUME NEW t \in Task, NEW new \in TaskStatus, NEW p \in People, PersonUpdate(p, t, new)
      PROVE  Goal
  <2>1. p # a => Kept
    BY <1>2 DEF PersonUpdate, Goto, TypeOK
  <2>2. CASE p = a
    <3>1. /\ a \in People
          /\ <<status[t], new>> \in PersonMoves /\ UNCHANGED owner
          /\ job'[a].task = t /\ job'[a].new = new
      BY <1>2, <2>2 DEF PersonUpdate, TypeOK
    <3> QED BY <3>1 DEF EditsInHand
  <2> QED BY <2>1, <2>2
<1>3. ASSUME NEW s \in Session, AgentClaim(s) PROVE Goal
  <2>1. /\ pc[s] = "claim" /\ job[s].task \in Task /\ Claims(job[s].task, s) /\ s \in Actor
    BY <1>3, ActorTyped DEF AgentClaim, JobInv
  <2>2. s # a => Kept
    BY <1>3 DEF AgentClaim, Return, Goto, TypeOK
  <2>3. CASE s = a
    <3>1. ~ Return(a)
      BY DEF Return, Goto, TypeOK, Job
    <3>2. owner[job[a].task] = None /\ UNCHANGED job
      BY <1>3, <2>3, <3>1 DEF AgentClaim
    <3>3. owner'[job[a].task] = a
      BY <2>1, <2>3, <3>2 DEF Claims, TypeOK
    <3> QED BY <2>1, <2>3, <3>2, <3>3 DEF ClaimsInHand
  <2> QED BY <2>2, <2>3
<1>4. ASSUME NEW b \in Actor, Quiet(b) PROVE Kept
  BY <1>4 DEF Quiet, OnlyMoves
<1>5. ASSUME NEW b \in Actor,
             \/ WriteTask(b) \/ EvaluateRead(b) \/ SkipOne(b)
             \/ (\E t \in Task : AssignFork(b, t)) \/ ForkClaim(b)
      PROVE  Kept
  <2>1. CASE WriteTask(b)
    BY <2>1 DEF WriteTask, Goto, TypeOK
  <2>2. CASE EvaluateRead(b)
    BY <2>2 DEF EvaluateRead, AfterSkips, Goto, TypeOK
  <2>3. CASE SkipOne(b)
    BY <2>3 DEF SkipOne, Goto, TypeOK
  <2>4. CASE ForkClaim(b)
    BY <2>4 DEF ForkClaim, Goto, TypeOK
  <2>5. CASE \E t \in Task : AssignFork(b, t)
    BY <2>5 DEF AssignFork, Goto, TypeOK
  <2> QED BY <1>5, <2>1, <2>2, <2>3, <2>4, <2>5
<1>6. ASSUME UNCHANGED <<status, pc, job, plan>> PROVE Kept
  BY <1>6
<1> HIDE DEF Kept, Goal
<1>7. Goal
  <2>1. Kept => Goal
    BY DEF Goal
  <2> QED BY <2>1, <1>1, <1>2, <1>3, <1>4, <1>5, <1>6, StepsAreLoudOrQuiet DEF Loud
<1> QED BY <1>7 DEF Goal, Kept

LEMMA HeldStep ==
  ASSUME TasksMoveForward, TypeOK, JobInv, HeldInv, [Next]_vars PROVE HeldInv'
<1>0. \A u \in Task : owner[u] # None => owner'[u] # None
  BY OwnerStep
<1>1. ASSUME NEW t \in Task, Started(t)' PROVE owner'[t] # None
  <2>1. CASE Started(t)
    BY <1>0, <2>1 DEF HeldInv
  <2>2. CASE ~ Started(t)
    <3>1. status'[t] \in {"in_progress", "completed", "failed"} /\ status'[t] # status[t]
      BY <1>1, <2>2 DEF Started
    <3>2. ASSUME NEW a \in Actor, WriteTask(a) PROVE owner[t] # None
      <4>1. pc[a] = "write" /\ status' = [status EXCEPT ![job[a].task] = job[a].new]
        BY <3>2 DEF WriteTask, SetStatus
      <4>2. job[a].task = t
        BY <3>1, <4>1 DEF TypeOK
      <4> QED BY <4>1, <4>2 DEF HeldInv
    <3>3. ASSUME NEW a \in Actor, SkipOne(a) PROVE FALSE
      <4>1. PICK u \in plan[a].todo : status' = [status EXCEPT ![u] = "skipped"]
        BY <3>3 DEF SkipOne, SetStatus
      <4> QED BY <3>1, <4>1 DEF TypeOK
    <3> QED BY <1>0, <3>1, <3>2, <3>3, StatusMoves
  <2> QED BY <2>1, <2>2
<1>2. ASSUME NEW a \in Actor, pc'[a] \in {"claim", "write"}
      PROVE  /\ job'[a].new \in {"in_progress", "completed", "failed"}
             /\ pc'[a] = "write" => owner'[job'[a].task] # None
  <2>1. CASE pc'[a] = pc[a] /\ job'[a] = job[a]
    BY <1>0, <1>2, <2>1 DEF HeldInv, JobInv
  <2>2. CASE TakesInHand(a)
    <3>1. PICK t \in Task, new \in TaskStatus :
             /\ <<status[t], new>> \in Forward /\ UNCHANGED owner
             /\ job'[a].task = t /\ job'[a].new = new
             /\ pc'[a] = IF new = "in_progress" /\ owner[t] = None THEN "claim" ELSE "write"
      BY <2>2 DEF TakesInHand, TasksMoveForward
    <3>2. new # "in_progress" => Started(t)
      BY <3>1 DEF Forward, Started
    <3>3. new \in {"in_progress", "completed", "failed"}
      BY <3>1 DEF Forward
    <3> QED BY <3>1, <3>2, <3>3 DEF HeldInv
  <2>3. CASE EditsInHand(a)
    <3>1. PICK t \in Task, new \in TaskStatus :
             /\ status[t] = "in_progress" /\ new \in {"completed", "failed"} /\ UNCHANGED owner
             /\ job'[a].task = t /\ job'[a].new = new
      BY <2>3 DEF EditsInHand, TasksMoveForward
    <3> QED BY <3>1 DEF HeldInv, Started
  <2>4. CASE ClaimsInHand(a)
    <3>1. /\ pc[a] = "claim" /\ job'[a] = job[a] /\ owner'[job[a].task] = a /\ a # None
      BY <2>4, SessionAssumption DEF ClaimsInHand
    <3> QED BY <3>1 DEF HeldInv
  <2> QED BY <1>2, <2>1, <2>2, <2>3, <2>4, InHandMoves
<1> QED BY <1>1, <1>2 DEF HeldInv

\* Who comes to read the sessions, or to record a turn, has just read the tasks.
LEMMA PassesBeginFresh ==
  ASSUME TypeOK, JobInv, NEW a \in Actor, Act(a), pc'[a] \in {"sessions", "record"}
  PROVE  /\ UNCHANGED <<status, owner>>
         /\ \/ snap'[a].status = status /\ snap'[a].owner = owner
            \/ pc[a] = "record" /\ snap'[a] = snap[a]
<1> DEFINE Goal == /\ UNCHANGED <<status, owner>>
                   /\ \/ snap'[a].status = status /\ snap'[a].owner = owner
                      \/ pc[a] = "record" /\ snap'[a] = snap[a]
<1> USE DEF TypeOK, Goto
<1>0. /\ job[a].ret \in {"agent", "off"}
      /\ Return(a) => pc'[a] = job[a].ret
      /\ ReadTasks(a) => snap'[a].status = status /\ snap'[a].owner = owner
  BY DEF Return, Job, ReadTasks
<1>1. ASSUME Evaluate(a) PROVE Goal
  <2>1. CASE WriteTask(a) \/ FinishRead(a) \/ Stamp(a)
    BY <2>1 DEF WriteTask, FinishRead, Stamp
  <2>2. CASE EvaluateRead(a) \/ EvaluateReread(a)
    BY <1>0, <2>2 DEF EvaluateRead, EvaluateReread
  <2>3. CASE SkipOne(a)
    BY <2>3 DEF SkipOne
  <2>4. CASE NoticeRead(a) \/ Notify(a)
    BY <2>4, <1>0 DEF NoticeRead, Notify
  <2> QED BY <1>1, <2>1, <2>2, <2>3, <2>4 DEF Evaluate
<1>2. ASSUME Schedule(a) PROVE FALSE
  <2>2. CASE ReadSessions(a) \/ ForkClaim(a) \/ ForkDelete(a) \/ ForkQueue(a) \/ AssignDone(a)
    BY <1>0, <2>2 DEF ReadSessions, ForkClaim, ForkDelete, ForkQueue, AssignDone, AfterAssign
  <2>3. ASSUME NEW t \in Task, AssignFork(a, t) \/ AssignExisting(a, t) PROVE FALSE
    BY <2>3 DEF AssignFork, AssignExisting, PlansNext
  <2>4. CASE WakeOne(a)
    <3>1. pc[a] = "wake" /\ (Return(a) \/ UNCHANGED pc)
      BY <2>4 DEF WakeOne
    <3> QED BY <1>0, <3>1
  <2> QED BY <1>2, <2>2, <2>3, <2>4 DEF Schedule
<1>3. ~ Crash(a)
  BY DEF Crash
<1>4. ASSUME a \in Session, TurnStart(a) \/ AgentStep(a) PROVE FALSE
  <2>1. CASE TurnStart(a) \/ AgentList(a) \/ AgentClaim(a) \/ \E end \in TurnEnds : EndTurn(a, end)
    BY <1>0, <2>1 DEF TurnStart, AgentList, AgentClaim, EndTurn
  <2>2. CASE \E t \in Task, new \in TaskStatus : AgentUpdate(a, t, new)
    BY <1>0, <2>2 DEF AgentUpdate
  <2> QED BY <1>4, <2>1, <2>2 DEF AgentStep
<1>5. ASSUME a \in Session, Settle(a) PROVE Goal
  <2>1. CASE SettleRead(a)
    BY <1>0, <2>1 DEF SettleRead
  <2>2. CASE SettleRecord(a)
    <3>1. ~ Return(a)
      BY <1>0
    <3> QED BY <2>2, <3>1 DEF SettleRecord, FollowUp, NudgeOnly
  <2>3. CASE Nudge(a)
    BY <1>0, <2>3 DEF Nudge
  <2> QED BY <1>5, <2>1, <2>2, <2>3 DEF Settle
<1>6. ASSUME NEW t \in Task, NEW new \in TaskStatus, PersonUpdate(a, t, new) PROVE FALSE
  BY <1>6 DEF PersonUpdate
<1> HIDE DEF TypeOK, Goto, Goal
<1>7. Goal
  BY <1>1, <1>2, <1>3, <1>4, <1>5, <1>6 DEF Act
<1> QED BY <1>7 DEF Goal

\* Whoever writes a status is busy after it.
LEMMA WritersAreBusy ==
  ASSUME TypeOK, NEW a \in Actor, WriteTask(a) \/ SkipOne(a)
  PROVE  Busy(a)' /\ pc'[a] \in {"evaluate", "skip", "reread"} /\ pc[a] \in {"write", "skip"}
<1>1. pc'[a] \in {"evaluate", "skip", "reread"} /\ pc[a] \in {"write", "skip"}
  <2>1. CASE WriteTask(a)
    BY <2>1 DEF WriteTask, Goto, TypeOK
  <2>2. CASE SkipOne(a)
    BY <2>2 DEF SkipOne, Goto, TypeOK
  <2> QED BY <2>1, <2>2
<1> QED BY <1>1 DEF Busy, LeavingTurn, Scheduling, PC

LEMMA CurrentStep ==
  ASSUME TypeOK, JobInv, HeldInv, CurrentInv, [Next]_vars, MutexInv' PROVE CurrentInv'
<1> SUFFICES ASSUME NEW a \in Actor, pc'[a] \in {"sessions", "record"}
             PROVE  /\ snap'[a].status = status'
                    /\ \A t \in Task : owner'[t] = None \/ Started(t)' => snap'[a].owner[t] = owner'[t]
  BY DEF CurrentInv
<1>1. CASE Act(a)
  <2>1. UNCHANGED <<status, owner>>
    BY <1>1, PassesBeginFresh
  <2>2. CASE snap'[a].status = status /\ snap'[a].owner = owner
    BY <2>1, <2>2
  <2>3. CASE pc[a] = "record" /\ snap'[a] = snap[a]
    BY <2>1, <2>3 DEF CurrentInv, Started
  <2> QED BY <1>1, <2>2, <2>3, PassesBeginFresh
<1>2. CASE Same(a)
  <2>1. /\ pc[a] \in {"sessions", "record"} /\ snap'[a] = snap[a] /\ Busy(a)'
    BY <1>2 DEF Same, Busy, LeavingTurn, Scheduling, PC
  <2>2. ASSUME NEW b \in Actor, WriteTask(b) \/ SkipOne(b) PROVE FALSE
    <3>1. Busy(b)' /\ b # a
      BY <2>1, <2>2, WritersAreBusy
    <3> QED BY <2>1, <3>1 DEF MutexInv
  <2>3. UNCHANGED status
    BY <2>2, StatusMoves
  <2>4. ASSUME NEW t \in Task, owner'[t] = None \/ Started(t)' PROVE snap[a].owner[t] = owner'[t]
    <3>1. CASE Started(t)'
      <4>1. Started(t) /\ owner[t] # None
        BY <2>3, <3>1 DEF Started, HeldInv
      <4> QED BY <2>1, <4>1, OwnerStep DEF CurrentInv
    <3>2. CASE owner'[t] = None
      <4>1. owner[t] = None
        BY <3>2, OwnerStep
      <4> QED BY <2>1, <3>2, <4>1 DEF CurrentInv
    <3> QED BY <2>4, <3>1, <3>2
  <2> QED BY <2>1, <2>3, <2>4 DEF CurrentInv
<1> QED BY <1>1, <1>2, OneMoves

\* A pass finds what is ready, from tasks that are current.
LEMMA ReadyIsSeen ==
  ASSUME TypeOK, HeldInv, CurrentInv, NEW a \in Actor, pc[a] = "sessions",
         NEW t \in Ready(status, owner, sess)
  PROVE  t \in Ready(snap[a].status, snap[a].owner, sess)
<1>1. /\ t \in Task /\ status[t] = "pending" /\ owner[t] = None /\ DepsCompleted(status, t)
      /\ Deps[t] \subseteq Task
  BY TaskAssumption DEF Ready
<1>2. snap[a].status = status /\ snap[a].owner[t] = None
  BY <1>1 DEF CurrentInv
<1>3. \A d \in Deps[t] : snap[a].owner[d] = owner[d]
  BY <1>1 DEF CurrentInv, DepsCompleted, Started
<1>4. DepOwners(snap[a].owner, t) = DepOwners(owner, t)
  BY <1>3 DEF DepOwners, WorkedBy
<1> QED BY <1>1, <1>2, <1>4 DEF Ready, IsJoin

\* What made a task ready has still to look for it.
LEMMA NewlyReady ==
  ASSUME TypeOK, JobInv, HeldInv, [Next]_vars, NEW t \in Ready(status, owner, sess)',
         t \notin Ready(status, owner, sess)
  PROVE  \E a \in Actor : pc'[a] \in {"evaluate", "skip", "reread", "sessions"}
<1>1. /\ t \in Task /\ status'[t] = "pending" /\ owner'[t] = None
      /\ Deps[t] \subseteq Task /\ \A d \in Deps[t] : status'[d] = "completed"
      /\ owner[t] = None
  <2>1. /\ t \in Task /\ status'[t] = "pending" /\ owner'[t] = None
        /\ \A d \in Deps[t] : status'[d] = "completed"
    BY DEF Ready, DepsCompleted
  <2> QED BY <2>1, TaskAssumption, OwnerStep
<1>2. CASE \E a \in Actor : WriteTask(a) \/ SkipOne(a)
  BY <1>2, WritersAreBusy
<1>3. CASE UNCHANGED status
  <2>1. \A d \in Deps[t] : owner'[d] = owner[d]
    BY <1>1, <1>3, OwnerStep DEF HeldInv, Started
  <2>2. DepOwners(owner, t)' = DepOwners(owner, t)
    BY <2>1 DEF DepOwners, WorkedBy
  <2>3. IsJoin(owner, t)' = IsJoin(owner, t)
    BY <2>2 DEF IsJoin
  <2>4. PICK b \in DepOwners(owner, t) \ {Main} : sess[b] # "done" /\ sess'[b] = "done"
    BY <1>1, <1>3, <2>2, <2>3 DEF Ready, DepsCompleted
  <2>5. b \in Session
    BY <1>1, <2>4 DEF DepOwners, WorkedBy, TypeOK, Session
  <2>6. SettleRecord(b)
    BY <2>4, <2>5, OnlyRecordsFinish
  <2>7. SettledStatus(b) = "done" /\ b \in Actor /\ b # Main
    BY <2>4, <2>5, <2>6, RecordMoves, ActorTyped
  <2>8. pc'[b] = "sessions"
    BY <2>6, <2>7 DEF SettleRecord, FollowUp, Goto, TypeOK
  <2> QED BY <2>7, <2>8
<1> QED BY <1>2, <1>3, StatusMoves

\* Who looks for a ready task goes on looking, until it is taken.
LEMMA LooksOn ==
  ASSUME MaxCrashes = 0, TypeOK, JobInv, HeldInv, CurrentInv, NEW t \in Ready(status, owner, sess),
         NEW a \in Actor, [Next]_vars, Looks(a, t), Act(a), owner'[t] = None
  PROVE  Looks(a, t)'
<1> DEFINE Goal == Looks(a, t)'
<1> USE DEF TypeOK, Goto
<1>0. t \in Task /\ status[t] = "pending" /\ owner[t] = None /\ AfterSkips = "sessions"
  BY DEF Ready, AfterSkips, Unfinished
<1>1. ASSUME EvaluateRead(a) \/ EvaluateReread(a) PROVE Goal
  <2>1. pc'[a] \in {"skip", "sessions"}
    BY <1>0, <1>1 DEF EvaluateRead, EvaluateReread
  <2> QED BY <2>1 DEF Looks
<1>2. ASSUME SkipOne(a) PROVE Goal
  <2>1. pc'[a] \in {"skip", "reread"}
    BY <1>2 DEF SkipOne
  <2> QED BY <2>1 DEF Looks
<1>3. ASSUME ReadSessions(a) PROVE Goal
  <2>1. /\ pc[a] = "sessions" /\ pc'[a] = "assign"
        /\ plan'[a].todo = Ready(snap[a].status, snap[a].owner, sess)
    BY <1>3 DEF ReadSessions
  <2>2. t \in Ready(snap[a].status, snap[a].owner, sess)
    BY <2>1, ReadyIsSeen
  <2> QED BY <2>1, <2>2 DEF Looks
<1>4. ASSUME NEW u \in Task, AssignFork(a, u) PROVE Goal
  <2>0. plan[a] \in Plan /\ plan' = [plan EXCEPT ![a].todo = @ \ {u}, ![a].alive = @ + 1]
    BY <1>4 DEF AssignFork
  <2>1. /\ pc[a] = "assign" /\ pc'[a] = "forkclaim" /\ plan'[a].todo = plan[a].todo \ {u}
    BY <1>4, <2>0 DEF AssignFork, PlansNext, Plan
  <2>2. job'[a].task = u
    <3>0. job \in [Actor -> Job]
      OBVIOUS
    <3> HIDE DEF TypeOK, Goto
    <3>1. PICK c \in Branch :
               job' = [job EXCEPT ![a] = [[job[a] EXCEPT !.task = u] EXCEPT !.target = c]]
      BY <1>4 DEF AssignFork
    <3> QED BY <3>0, <3>1 DEF Job
  <2> QED BY <2>1, <2>2 DEF Looks
<1>5. ASSUME NEW u \in Task, AssignExisting(a, u) PROVE Goal
  <2>0. plan'[a].todo = plan[a].todo \ {u}
    BY <1>5 DEF AssignExisting, Plan
  <2>1. pc[a] = "assign" /\ pc'[a] = pc[a]
    BY <1>5 DEF AssignExisting, PlansNext
  <2>2. u # t
    <3>1. Target(snap[a].owner, plan[a].seen, u) \in Session
      BY TargetTyped
    <3>2. Claims(u, Target(snap[a].owner, plan[a].seen, u))
      BY <1>5 DEF AssignExisting
    <3> HIDE DEF TypeOK
    <3>3. owner \in [Task -> Session \cup {None}]
      BY DEF TypeOK
    <3> QED BY <1>0, <3>1, <3>2, <3>3, SessionAssumption DEF Claims
  <2> QED BY <2>0, <2>1, <2>2 DEF Looks
<1>6. ASSUME ForkClaim(a) PROVE Goal
  <2>1. /\ pc[a] = "forkclaim" /\ pc'[a] \in {"forkqueue", "forkdelete"}
        /\ plan'[a] = plan[a] /\ Claims(job[a].task, job[a].target)
    BY <1>6 DEF ForkClaim
  <2>2. job[a].task # t
    BY <1>0, <2>1, SessionAssumption DEF Claims, JobInv, Session
  <2> QED BY <2>1, <2>2 DEF Looks
<1>7. ASSUME ForkDelete(a) \/ ForkQueue(a) PROVE Goal
  <2>1. pc[a] \in {"forkqueue", "forkdelete"} /\ pc'[a] = "assign" /\ plan'[a] = plan[a]
    BY <1>7 DEF ForkDelete, ForkQueue
  <2> QED BY <2>1 DEF Looks
<1>8. ASSUME AssignDone(a) \/ WakeOne(a) PROVE FALSE
  BY <1>8 DEF AssignDone, WakeOne, Looks
<1>9. ASSUME WriteTask(a) \/ FinishRead(a) \/ Stamp(a) \/ NoticeRead(a) \/ Notify(a) PROVE FALSE
  BY <1>9 DEF WriteTask, FinishRead, Stamp, NoticeRead, Notify, Looks
<1>10. ASSUME a \in Session, TurnStart(a) \/ AgentStep(a) \/ Settle(a) PROVE FALSE
  <2>1. pc[a] \notin {"off", "agent", "claim", "settle", "record", "nudge"}
    BY DEF Looks
  <2> HIDE DEF TypeOK
  <2> QED BY <1>10, <2>1 DEF TurnStart, AgentStep, AgentList, AgentUpdate, AgentClaim, EndTurn,
               Settle, SettleRead, SettleRecord, Nudge
<1>11. ASSUME NEW u \in Task, NEW new \in TaskStatus, PersonUpdate(a, u, new) PROVE FALSE
  BY <1>11 DEF PersonUpdate, Looks
<1>12. ~ Crash(a)
  <2>1. ~ (crashes < MaxCrashes)
    OBVIOUS
  <2> HIDE DEF TypeOK
  <2> QED BY <2>1, Zenon DEF Crash
<1> HIDE DEF TypeOK, Goto, Goal
<1>13. Goal
  BY <1>1, <1>2, <1>3, <1>4, <1>5, <1>6, <1>7, <1>8, <1>9, <1>10, <1>11, <1>12
     DEF Act, Evaluate, Schedule
<1> QED BY <1>13 DEF Goal

LEMMA LookStep ==
  ASSUME MaxCrashes = 0, TypeOK, JobInv, HeldInv, CurrentInv, LookInv, [Next]_vars PROVE LookInv'
<1> SUFFICES ASSUME NEW t \in Ready(status, owner, sess)' PROVE \E a \in Actor : Looks(a, t)'
  BY DEF LookInv
<1>1. owner'[t] = None
  BY DEF Ready
<1>2. CASE t \in Ready(status, owner, sess)
  <2>1. PICK a \in Actor : Looks(a, t)
    BY <1>2 DEF LookInv
  <2>2. CASE Same(a)
    BY <2>1, <2>2 DEF Looks, Same
  <2>3. CASE Act(a)
    BY <1>1, <1>2, <2>1, <2>3, LooksOn
  <2> QED BY <2>2, <2>3, OneMoves
<1>3. CASE t \notin Ready(status, owner, sess)
  BY <1>3, NewlyReady DEF Looks
<1> QED BY <1>2, <1>3

ReadyInv == HeldInv /\ CurrentInv /\ LookInv

LEMMA ReadyInit == Init => ReadyInv
<1> SUFFICES ASSUME Init PROVE ReadyInv
  OBVIOUS
<1>1. HeldInv
  BY DEF Init, HeldInv, Started
<1>2. CurrentInv
  BY DEF Init, CurrentInv, NoSnap, Started
<1>3. LookInv
  BY ActorTyped DEF Init, LookInv, Looks
<1> QED BY <1>1, <1>2, <1>3 DEF ReadyInv

\* Where one actor at a time schedules, no process dies, and tasks move forward, a
\* run never comes to rest with a task that is ready and nobody's -- for every
\* workflow and limit, and whoever's completion or join made it ready.
THEOREM NoJoinIsForgotten ==
  ASSUME TasksMoveForward, MaxCrashes = 0 PROVE UnracedSpec => []ReadyIsAssigned
<1>1. [UnracedNext]_vars => [Next]_vars
  BY DEF UnracedNext
<1>2. TypeOK /\ JobInv /\ MutexInv /\ ReadyInv /\ [UnracedNext]_vars => ReadyInv'
  BY <1>1, HeldStep, CurrentStep, LookStep, MutexStep DEF ReadyInv
<1>3. ReadyInv => ReadyIsAssigned
  BY DEF ReadyInv, LookInv, Looks, ReadyIsAssigned, Quiescent
<1> QED BY <1>2, <1>3, ReadyInit, UnracedTyped, PTL DEF UnracedSpec

-----------------------------------------------------------------------------
(* No session sleeps on a task it was handed, in unraced executions without    *)
(* crashes, while agents end a turn only on an empty listing -- and, if people *)
(* write to the sessions, touch only the tasks they listed as their own.       *)

\* Nobody puts a task back to pending.
NothingReopened == \A move \in AgentMoves \cup PersonMoves : move[2] # "pending"

ForwardInv == \A a \in Actor : pc[a] \in {"claim", "write"} => job[a].new # "pending"

MainInv == sess[Main] # "absent"

\* What is idle during a pass was seen idle by it, except the branch it just made.
SeenInv ==
  \A a \in Actor : Scanning(a) =>
    \A s \in Session : sess[s] = "idle" =>
      \/ plan[a].seen[s] = "idle"
      \/ pc[a] \in {"forkclaim", "forkqueue", "forkdelete"} /\ s = job[a].target

\* The agent of s has just listed its tasks and was shown none, or has ended its
\* turn on such a listing.
Listed(s) ==
  \/ pc[s] = "agent" /\ looked[s] /\ view[s] = {}
  \/ pc[s] \in {"settle", "record"} /\ job[s].new = "ok"

\* A session that leaves has nothing to start; a turn looks anew.
ListedInv ==
  \A s \in Session :
    /\ looked[s] => pc[s] \in {"agent", "settle", "record"}
    /\ pc[s] \in {"settle", "record"} => job[s].new \in {"ok", "paused", "failed"}
    /\ Listed(s) => \A t \in Task : owner[t] = s => status[t] # "pending"

\* Actor a is about to queue session s a note.
Wakes(a, s) ==
  \/ pc[a] = "forkqueue" /\ job[a].target = s
  \/ Scanning(a) /\ s \in plan[a].claimed /\ plan[a].seen[s] = "idle"

\* A session that holds a task to start is not idle, unless it is about to be woken.
WakeInv ==
  \A t \in Task : owner[t] # None /\ status[t] = "pending" /\ sess[owner[t]] = "idle" =>
                    \E a \in Actor : Wakes(a, owner[t])

LEMMA ForwardStep ==
  ASSUME NothingReopened, TypeOK, JobInv, ForwardInv, [Next]_vars PROVE ForwardInv'
<1> SUFFICES ASSUME NEW a \in Actor, pc'[a] \in {"claim", "write"} PROVE job'[a].new # "pending"
  BY DEF ForwardInv
<1>1. CASE TakesInHand(a)
  BY <1>1 DEF TakesInHand, NothingReopened
<1>2. CASE EditsInHand(a)
  BY <1>2 DEF EditsInHand, NothingReopened
<1>3. CASE ClaimsInHand(a)
  BY <1>3 DEF ClaimsInHand, ForwardInv
<1> QED BY <1>1, <1>2, <1>3, InHandMoves DEF ForwardInv

\* A task that is pending always was.
LEMMA PendingWas ==
  ASSUME TypeOK, JobInv, ForwardInv, [Next]_vars, NEW t \in Task, status'[t] = "pending"
  PROVE  status[t] = "pending"
<1>1. ASSUME NEW a \in Actor, WriteTask(a) PROVE status[t] = "pending"
  <2>1. status' = [status EXCEPT ![job[a].task] = job[a].new] /\ job[a].new # "pending"
    BY <1>1 DEF WriteTask, SetStatus, ForwardInv
  <2> QED BY <2>1 DEF TypeOK
<1>2. ASSUME NEW a \in Actor, SkipOne(a) PROVE status[t] = "pending"
  <2>1. PICK u \in plan[a].todo : status' = [status EXCEPT ![u] = "skipped"]
    BY <1>2 DEF SkipOne, SetStatus
  <2> QED BY <2>1 DEF TypeOK
<1> QED BY <1>1, <1>2, StatusMoves

LEMMA MainStep == ASSUME TypeOK, JobInv, MainInv, [Next]_vars PROVE MainInv'
<1>0. Main \in Session /\ Main \notin Branch
  BY SessionAssumption DEF Session
<1>1. ~ Creates(Main)
  BY DEF Creates, MainInv
<1>2. ~ Deletes(Main)
  BY <1>0 DEF Deletes, JobInv
<1>3. SettleRecord(Main) => sess'[Main] # "absent"
  BY <1>0, RecordMoves DEF SettledStatus, MainInv
<1>4. TurnStart(Main) \/ Queues(Main) => sess'[Main] # "absent"
  BY <1>0 DEF TurnStart, Queues, TypeOK
<1> QED BY <1>0, <1>1, <1>2, <1>3, <1>4, SessionMoves DEF MainInv

LEMMA ScanningIsBusy == ASSUME NEW a \in Actor, Scanning(a) PROVE Busy(a)
BY DEF Scanning, Busy, LeavingTurn, Scheduling, PC

\* A session comes to rest by its own record, or is made.
LEMMA IdleMoves ==
  ASSUME TypeOK, JobInv, [Next]_vars, NEW s \in Session, sess'[s] = "idle", sess[s] # "idle"
  PROVE  \/ SettleRecord(s)
         \/ /\ sess[s] = "absent"
            /\ \E a \in Actor, t \in Task : AssignFork(a, t) /\ job'[a].target = s
<1>1. ~ TurnStart(s) /\ ~ Queues(s) /\ ~ Deletes(s)
  BY DEF TurnStart, Queues, Deletes, TypeOK
<1> QED BY <1>1, SessionMoves DEF Creates

\* An actor in a pass goes on with it, or dies.
LEMMA PassMoves ==
  ASSUME TypeOK, NEW a \in Actor, Act(a), Scanning(a) PROVE Schedule(a) \/ Crash(a)
<1>1. ~ Evaluate(a)
  BY DEF Scanning, Evaluate, WriteTask, EvaluateRead, SkipOne, EvaluateReread, FinishRead, Stamp,
         NoticeRead, Notify
<1>2. ~ TurnStart(a) /\ ~ AgentStep(a) /\ ~ Settle(a)
  BY DEF Scanning, TurnStart, AgentStep, AgentList, AgentUpdate, AgentClaim, EndTurn, Settle,
         SettleRead, SettleRecord, Nudge
<1>3. \A t \in Task, new \in TaskStatus : ~ PersonUpdate(a, t, new)
  BY DEF Scanning, PersonUpdate
<1> QED BY <1>1, <1>2, <1>3 DEF Act

LEMMA SeenStep ==
  ASSUME TypeOK, JobInv, MutexInv, SeenInv, [Next]_vars PROVE SeenInv'
<1> SUFFICES ASSUME NEW a \in Actor, Scanning(a)', NEW s \in Session, sess'[s] = "idle"
             PROVE  \/ plan'[a].seen[s] = "idle"
                    \/ pc'[a] \in {"forkclaim", "forkqueue", "forkdelete"} /\ s = job'[a].target
  BY DEF SeenInv
<1> DEFINE Goal == \/ plan'[a].seen[s] = "idle"
                   \/ pc'[a] \in {"forkclaim", "forkqueue", "forkdelete"} /\ s = job'[a].target
\* Nobody else comes to rest, or makes a branch, during the pass.
<1>2. ASSUME Scanning(a), sess[s] # "idle" PROVE \E v \in Task : AssignFork(a, v)
  <2>1. ASSUME SettleRecord(s) PROVE FALSE
    <3>1. pc[s] = "record" /\ s \in Actor
      BY <2>1, ActorTyped DEF SettleRecord
    <3>2. Busy(s) /\ s # a
      BY <1>2, <3>1 DEF Busy, LeavingTurn, Scheduling, PC, Scanning
    <3> QED BY <1>2, <3>1, <3>2, ScanningIsBusy DEF MutexInv
  <2>2. PICK b \in Actor, v \in Task : AssignFork(b, v)
    BY <1>2, <2>1, IdleMoves
  <2>3. Scanning(b)
    BY <2>2 DEF AssignFork, PlansNext, Scanning
  <2> QED BY <1>2, <2>2, <2>3, ScanningIsBusy DEF MutexInv
<1>3. ASSUME Same(a) PROVE Goal
  <2>1. Scanning(a) /\ plan'[a] = plan[a] /\ job'[a] = job[a] /\ pc'[a] = pc[a]
    BY <1>3 DEF Same, Scanning
  <2>2. \A v \in Task : ~ AssignFork(a, v)
    BY <2>1 DEF AssignFork, PlansNext, Goto, TypeOK
  <2>3. sess[s] = "idle"
    BY <1>2, <2>1, <2>2
  <2> QED BY <2>1, <2>3 DEF SeenInv
<1>4. ASSUME ReadSessions(a) PROVE Goal
  <2>1. plan'[a].seen = sess /\ UNCHANGED sess
    BY <1>4 DEF ReadSessions, TypeOK
  <2> QED BY <2>1
<1>5. ASSUME NEW u \in Task, AssignFork(a, u) PROVE Goal
  <2>1. PICK c \in Branch :
             /\ sess' = [sess EXCEPT ![c] = "idle"]
             /\ job' = [job EXCEPT ![a] = [[job[a] EXCEPT !.task = u] EXCEPT !.target = c]]
    BY <1>5 DEF AssignFork
  <2>2. job'[a].target = c
    BY <2>1 DEF TypeOK, Job
  <2>3. pc[a] = "assign" /\ pc'[a] = "forkclaim"
    BY <1>5 DEF AssignFork, PlansNext, Goto, TypeOK
  <2>4. plan'[a].seen = plan[a].seen
    BY <1>5 DEF AssignFork, TypeOK, Plan
  <2>5. s # c => sess[s] = "idle"
    BY <2>1 DEF TypeOK
  <2> QED BY <2>2, <2>3, <2>4, <2>5 DEF SeenInv, Scanning
<1>6. ASSUME Act(a), \A u \in Task : ~ AssignFork(a, u), ~ ReadSessions(a) PROVE Goal
  <2>1. /\ Scanning(a) /\ plan'[a].seen = plan[a].seen /\ pc'[a] # "forkclaim"
        /\ pc'[a] \in {"forkqueue", "forkdelete"} => pc[a] = "forkclaim" /\ job'[a] = job[a]
    BY <1>6, ScanningMoves
  <2>2. sess[s] = "idle"
    BY <1>2, <1>6, <2>1
  <2>3. CASE plan[a].seen[s] = "idle"
    BY <2>1, <2>3
  <2>4. CASE pc[a] \in {"forkclaim", "forkqueue", "forkdelete"} /\ s = job[a].target
    <3>1. CASE pc'[a] \in {"forkqueue", "forkdelete"}
      BY <2>1, <2>4, <3>1
    <3>2. CASE pc'[a] \notin {"forkqueue", "forkdelete"}
      <4>1. ForkClaim(a) \/ ForkQueue(a) \/ ForkDelete(a)
        <5>1. ~ Crash(a)
          BY DEF Crash, Scanning, Goto, TypeOK
        <5>2. Schedule(a)
          BY <1>6, <2>1, <5>1, PassMoves
        <5> QED BY <2>4, <5>2 DEF Schedule, ReadSessions, AssignFork, AssignExisting, PlansNext,
                                  AssignDone, WakeOne
      <4>2. ~ ForkClaim(a)
        BY <3>2 DEF ForkClaim, Goto, TypeOK
      <4>3. ~ ForkDelete(a)
        BY <2>4 DEF ForkDelete, TypeOK
      <4>4. ~ ForkQueue(a)
        BY <2>2, <2>4 DEF ForkQueue, QueueInput, TypeOK
      <4> QED BY <4>1, <4>2, <4>3, <4>4
    <3> QED BY <3>1, <3>2
  <2> QED BY <2>1, <2>2, <2>3, <2>4 DEF SeenInv
<1> HIDE DEF Goal
<1>7. Goal
  BY <1>3, <1>4, <1>5, <1>6, OneMoves
<1> QED BY <1>7 DEF Goal

LEMMA ListedIsBusy == ASSUME NEW s \in Session, Listed(s) PROVE Busy(s)
BY DEF Listed, Busy, LeavingTurn, Scheduling, PC

\* What a step does to a session's listing, and to its turn's end.
LEMMA ListingMoves ==
  ASSUME TypeOK, JobInv, ListedInv, [Next]_vars, NEW s \in Session
  PROVE  /\ looked'[s] => pc'[s] \in {"agent", "settle", "record"}
         /\ pc'[s] \in {"settle", "record"} => job'[s].new \in {"ok", "paused", "failed"}
         /\ Listed(s)' => \/ Listed(s)
                          \/ AgentList(s) /\ view'[s] = {}
                          \/ EndTurn(s, "ok")
<1> DEFINE Kept == /\ pc'[s] = pc[s] /\ job'[s] = job[s]
                   /\ looked'[s] = looked[s] /\ view'[s] = view[s]
           Goal == /\ looked'[s] => pc'[s] \in {"agent", "settle", "record"}
                   /\ pc'[s] \in {"settle", "record"} => job'[s].new \in {"ok", "paused", "failed"}
                   /\ Listed(s)' => \/ Listed(s)
                                    \/ AgentList(s) /\ view'[s] = {}
                                    \/ EndTurn(s, "ok")
<1>0. s \in Actor
  BY ActorTyped
<1>1. Kept => Goal
  BY DEF ListedInv, Listed
<1>2. ASSUME NEW r \in Session, AgentList(r) PROVE Goal
  <2>1. r # s => Kept
    BY <1>2 DEF AgentList, TypeOK
  <2>2. CASE r = s
    BY <1>2, <2>2 DEF AgentList, TypeOK, Listed
  <2> QED BY <1>1, <2>1, <2>2
<1>3. ASSUME NEW r \in Session, NEW t \in Task, NEW new \in TaskStatus, AgentUpdate(r, t, new)
      PROVE  Goal
  <2>1. r # s => Kept
    BY <1>0, <1>3, ActorTyped DEF AgentUpdate, Goto, TypeOK
  <2>2. CASE r = s
    <3>1. ~ looked'[s] /\ pc'[s] \in {"claim", "write"}
      BY <1>0, <1>3, <2>2 DEF AgentUpdate, Goto, TypeOK
    <3> QED BY <3>1 DEF Listed
  <2> QED BY <1>1, <2>1, <2>2
<1>4. ASSUME NEW end \in TurnEnds, NEW r \in Session, EndTurn(r, end) PROVE Goal
  <2>1. r # s => Kept
    BY <1>0, <1>4, ActorTyped DEF turnVars, EndTurn, Goto, TypeOK
  <2>2. CASE r = s
    <3>1. pc'[s] = "settle" /\ job'[s].new = end
      BY <1>0, <1>4, <2>2 DEF EndTurn, Goto, TypeOK, NoJob
    <3>2. end \in {"ok", "paused", "failed"}
      BY ActorAssumption
    <3> QED BY <1>4, <2>2, <3>1, <3>2 DEF Listed
  <2> QED BY <1>1, <2>1, <2>2
<1>5. ASSUME NEW r \in Session, SettleRead(r) PROVE Goal
  <2>1. r # s => Kept
    BY <1>0, <1>5, ActorTyped DEF turnVars, SettleRead, Goto, TypeOK
  <2>2. CASE r = s
    <3>1. pc[s] = "settle" /\ pc'[s] = "record" /\ job'[s] = job[s]
      BY <1>0, <1>5, <2>2 DEF SettleRead, Goto, TypeOK
    <3> QED BY <3>1 DEF Listed, ListedInv
  <2> QED BY <1>1, <2>1, <2>2
<1>6. ASSUME NEW r \in Session, SettleRecord(r) PROVE Goal
  <2>1. r # s => Kept
    <3>1. r # s => Same(s)
      BY <1>0, <1>6, RecordMoves
    <3> QED BY <1>6, <3>1 DEF SettleRecord, Same, TypeOK
  <2>2. CASE r = s
    <3>1. ~ looked'[s] /\ pc'[s] \in {"sessions", "nudge", "agent", "off"}
      BY <1>6, <2>2, RecordMoves DEF SettleRecord, TypeOK
    <3> QED BY <3>1 DEF Listed
  <2> QED BY <1>1, <2>1, <2>2
<1>7. ASSUME NEW a \in Actor, Crash(a) PROVE Goal
  <2>1. a # s => Kept
    BY <1>0, <1>7 DEF Crash, Goto, TypeOK
  <2>2. CASE a = s
    <3>1. ~ looked'[s] /\ pc'[s] = "off"
      BY <1>0, <1>7, <2>2 DEF Crash, Goto, TypeOK
    <3> QED BY <3>1 DEF Listed
  <2> QED BY <1>1, <2>1, <2>2
\* Nothing else moves a listing; and a turn under way does nothing else.
<1>8. ASSUME NEW a \in Actor, \A b \in Actor \ {a} : Same(b), Act(a), UNCHANGED <<looked, view>>,
             pc[a] \notin {"agent", "settle", "record"}
      PROVE  Goal
  <2>1. CASE a # s
    BY <1>0, <1>1, <1>8, <2>1 DEF Same
  <2>2. CASE a = s
    <3>1. pc'[s] \notin {"settle", "record"}
      BY <1>8, <2>2, SettlingMoves DEF SettleRead, EndTurn
    <3>2. ~ looked'[s]
      BY <1>8, <2>2 DEF ListedInv
    <3> QED BY <3>1, <3>2 DEF Listed
  <2> QED BY <2>1, <2>2
<1>9. ASSUME NEW a \in Actor,
             \/ Evaluate(a) \/ Schedule(a)
             \/ a \in Session /\ (TurnStart(a) \/ AgentClaim(a) \/ Nudge(a))
             \/ \E t \in Task, new \in TaskStatus : PersonUpdate(a, t, new)
      PROVE  UNCHANGED <<looked, view>> /\ pc[a] \notin {"agent", "settle", "record"}
  <2>1. CASE Evaluate(a)
    BY <2>1 DEF Evaluate, WriteTask, EvaluateRead, SkipOne, EvaluateReread, FinishRead, Stamp,
                NoticeRead, Notify, turnVars
  <2>2. CASE Schedule(a)
    BY <2>2 DEF Schedule, ReadSessions, AssignFork, AssignExisting, PlansNext, ForkClaim,
                ForkDelete, ForkQueue, AssignDone, WakeOne, turnVars
  <2>3. CASE a \in Session /\ (TurnStart(a) \/ AgentClaim(a) \/ Nudge(a))
    BY <2>3 DEF TurnStart, AgentClaim, Nudge, turnVars
  <2>4. CASE \E t \in Task, new \in TaskStatus : PersonUpdate(a, t, new)
    BY <2>4 DEF PersonUpdate, turnVars
  <2> QED BY <1>9, <2>1, <2>2, <2>3, <2>4
<1>10. ASSUME (\E r \in Session : SendMessage(r)) \/ UNCHANGED vars, \A b \in Actor : Same(b)
       PROVE  Goal
  <2>1. UNCHANGED <<looked, view>>
    BY <1>10 DEF SendMessage, vars, turnVars
  <2> QED BY <1>0, <1>1, <1>10, <2>1 DEF Same
<1> HIDE DEF Goal, Kept
<1>11. Goal
  BY <1>2, <1>3, <1>4, <1>5, <1>6, <1>7, <1>8, <1>9, <1>10, OneMoves DEF Act, AgentStep, Settle
<1> QED BY <1>11 DEF Goal

\* A session is handed nothing while it leaves.
LEMMA NothingHandedOnLeaving ==
  ASSUME TypeOK, JobInv, ListedInv, [Next]_vars, MutexInv',
         NEW s \in Session, Listed(s)', NEW t \in Task, owner'[t] = s
  PROVE  owner[t] = s
<1> SUFFICES ASSUME owner'[t] # owner[t] PROVE FALSE
  OBVIOUS
<1>0. s \in Actor
  BY ActorTyped
<1>1. ASSUME AgentClaim(s) PROVE FALSE
  <2>1. pc[s] = "claim" /\ looked'[s] = looked[s] /\ pc'[s] \notin {"settle", "record"}
    <3>1. pc[s] = "claim" /\ UNCHANGED looked
      BY <1>1 DEF AgentClaim
    <3> QED BY <1>0, <1>1, <3>1 DEF AgentClaim, Return, Goto, TypeOK, Job
  <2> QED BY <2>1 DEF Listed, ListedInv
<1>2. ASSUME NEW a \in Actor, ForkClaim(a) \/ AssignExisting(a, t) PROVE FALSE
  <2>1. Scanning(a)'
    BY <1>2 DEF ForkClaim, AssignExisting, PlansNext, Scanning, Goto, TypeOK
  <2>2. a # s
    BY <2>1 DEF Listed, Scanning
  <2>3. Busy(a)' /\ Busy(s)'
    BY <2>1 DEF Busy, LeavingTurn, Scheduling, Scanning, Listed, PC
  <2> QED BY <1>0, <2>2, <2>3 DEF MutexInv
<1> QED BY <1>1, <1>2, OwnerMoves

LEMMA ListedStep ==
  ASSUME Diligent, TypeOK, JobInv, ForwardInv, ListedInv, [Next]_vars, MutexInv'
  PROVE  ListedInv'
<1> SUFFICES ASSUME NEW s \in Session, Listed(s)', NEW t \in Task, owner'[t] = s,
                    status'[t] = "pending"
             PROVE  FALSE
  BY ListingMoves DEF ListedInv
<1>1. owner[t] = s /\ status[t] = "pending"
  BY NothingHandedOnLeaving, PendingWas
<1>2. CASE Listed(s)
  BY <1>1, <1>2 DEF ListedInv
<1>3. CASE AgentList(s) /\ view'[s] = {}
  <2>1. view'[s] = {u \in Task : owner[u] = s /\ status[u] \in Unfinished}
    BY <1>3 DEF AgentList, TypeOK
  <2> QED BY <1>1, <1>3, <2>1 DEF Unfinished
<1>4. CASE EndTurn(s, "ok")
  <2>1. Listed(s)
    BY <1>4 DEF EndTurn, Listed
  <2> QED BY <1>2, <2>1
<1> QED BY <1>2, <1>3, <1>4, ListingMoves

\* Who is about to wake a session that is idle still is, as long as it is.
LEMMA WakesOn ==
  ASSUME MaxCrashes = 0, TypeOK, JobInv, NEW a \in Actor, NEW s \in Session, Act(a), Wakes(a, s),
         sess[s] = "idle", sess'[s] = "idle"
  PROVE  Wakes(a, s)'
<1> DEFINE Goal == Wakes(a, s)'
           Claimed == s \in plan[a].claimed /\ plan[a].seen[s] = "idle"
<1> USE DEF TypeOK, Goto
<1>1. ASSUME ReadSessions(a) PROVE FALSE
  BY <1>1 DEF ReadSessions, Wakes, Scanning
<1>2. ASSUME NEW u \in Task, AssignFork(a, u) PROVE Goal
  <2>1. pc[a] = "assign" /\ pc'[a] = "forkclaim"
    BY <1>2 DEF AssignFork, PlansNext
  <2>2. plan[a] \in Plan /\ plan' = [plan EXCEPT ![a].todo = @ \ {u}, ![a].alive = @ + 1]
    BY <1>2 DEF AssignFork
  <2>3. plan'[a].claimed = plan[a].claimed /\ plan'[a].seen = plan[a].seen
    BY <2>2 DEF Plan
  <2> QED BY <2>1, <2>3 DEF Wakes, Scanning
<1>3. ASSUME NEW u \in Task, AssignExisting(a, u) PROVE Goal
  <2>1. pc[a] = "assign" /\ pc'[a] = "assign"
    BY <1>3 DEF AssignExisting, PlansNext
  <2>2. plan[a].claimed \subseteq plan'[a].claimed /\ plan'[a].seen = plan[a].seen
    BY <1>3 DEF AssignExisting, Plan
  <2> QED BY <2>1, <2>2 DEF Wakes, Scanning
<1>4. ASSUME ForkClaim(a) \/ ForkDelete(a) \/ ForkQueue(a) PROVE Goal
  <2>1. /\ pc[a] \in {"forkclaim", "forkdelete", "forkqueue"} /\ plan'[a] = plan[a]
        /\ pc'[a] \in {"forkqueue", "forkdelete", "assign"}
    BY <1>4 DEF ForkClaim, ForkDelete, ForkQueue
  <2>2. CASE pc[a] = "forkqueue" /\ job[a].target = s
    <3>1. QueueInput(s, "assigned")
      BY <1>4, <2>2 DEF ForkClaim, ForkDelete, ForkQueue
    <3> QED BY <3>1 DEF QueueInput
  <2>3. CASE ~ (pc[a] = "forkqueue" /\ job[a].target = s)
    BY <2>1, <2>3 DEF Wakes, Scanning
  <2> QED BY <2>2, <2>3
<1>5. ASSUME AssignDone(a) PROVE Goal
  <2>1. pc[a] = "assign" /\ plan[a].claimed # {}
    BY <1>5 DEF AssignDone, Wakes
  <2>2. pc'[a] = "wake" /\ plan'[a] = plan[a]
    BY <1>5, <2>1 DEF AssignDone, AfterAssign
  <2> QED BY <2>1, <2>2 DEF Wakes, Scanning
<1>6. ASSUME WakeOne(a) PROVE Goal
  <2>1. PICK r \in plan[a].claimed :
           /\ IF plan[a].seen[r] = "idle" THEN QueueInput(r, "assigned")
                                          ELSE UNCHANGED <<sess, kind>>
           /\ IF plan[a].claimed = {r} THEN Return(a)
              ELSE /\ plan' = [plan EXCEPT ![a] = [plan[a] EXCEPT !.claimed = plan[a].claimed \ {r}]]
                   /\ UNCHANGED <<pc, job, snap>>
    BY <1>6 DEF WakeOne
  <2>2. pc[a] = "wake" /\ Claimed
    BY <1>6 DEF WakeOne, Wakes
  <2>3. r # s
    <3>1. SUFFICES ASSUME r = s PROVE FALSE
      OBVIOUS
    <3>2. QueueInput(s, "assigned")
      BY <2>1, <2>2, <3>1
    <3> QED BY <3>2 DEF QueueInput
  <2>4. /\ plan' = [plan EXCEPT ![a] = [plan[a] EXCEPT !.claimed = plan[a].claimed \ {r}]]
        /\ UNCHANGED pc
    BY <2>1, <2>2, <2>3
  <2>5. plan'[a].claimed = plan[a].claimed \ {r} /\ plan'[a].seen = plan[a].seen
    BY <2>4 DEF Plan
  <2> QED BY <2>2, <2>3, <2>4, <2>5 DEF Wakes, Scanning
<1>7. ~ Crash(a)
  <2>1. ~ (crashes < MaxCrashes)
    OBVIOUS
  <2> HIDE DEF TypeOK
  <2> QED BY <2>1, Zenon DEF Crash
<1>8. Schedule(a)
  BY <1>7, PassMoves DEF Wakes, Scanning
<1> HIDE DEF TypeOK, Goto, Goal, Claimed
<1>9. Goal
  BY <1>1, <1>2, <1>3, <1>4, <1>5, <1>6, <1>8 DEF Schedule
<1> QED BY <1>9 DEF Goal

LEMMA WakeStep ==
  ASSUME MaxCrashes = 0, TypeOK, JobInv, TurnsInv, MadeInv, ForwardInv, SeenInv, ListedInv,
         WakeInv, [Next]_vars
  PROVE  WakeInv'
<1> SUFFICES ASSUME NEW t \in Task, NEW s \in Session, owner'[t] = s, status'[t] = "pending",
                    sess'[s] = "idle"
             PROVE  \E a \in Actor : Wakes(a, s)'
  <2>1. ASSUME NEW t \in Task, owner'[t] # None PROVE owner'[t] \in Session
    BY <2>1, StepTyped DEF TypeOK
  <2> QED BY <2>1 DEF WakeInv
<1>0. status[t] = "pending" /\ s # None
  BY PendingWas, SessionAssumption
\* A session that had the task does not come to rest on it.
<1>1. CASE owner[t] = s
  <2>1. sess[s] = "idle"
    <3>1. SUFFICES ASSUME sess[s] # "idle" PROVE FALSE
      OBVIOUS
    <3>2. ASSUME SettleRecord(s) PROVE FALSE
      <4>1. pc[s] = "record" /\ SettledStatus(s) = "idle"
        BY <3>2, RecordMoves
      <4>2. job[s].new = "ok"
        BY <4>1 DEF SettledStatus, ListedInv
      <4> QED BY <1>0, <1>1, <4>1, <4>2 DEF ListedInv, Listed
    <3>3. PICK a \in Actor, u \in Task :
             sess[s] = "absent" /\ AssignFork(a, u) /\ job'[a].target = s
      BY <3>1, <3>2, IdleMoves
    <3>4. s \in Branch
      <4>1. PICK b \in Branch :
               job' = [job EXCEPT ![a] = [[job[a] EXCEPT !.task = u] EXCEPT !.target = b]]
        BY <3>3 DEF AssignFork
      <4> QED BY <3>3, <4>1 DEF TypeOK, Job
    <3> QED BY <1>1, <3>3, <3>4 DEF MadeInv, Owns
  <2>2. PICK a \in Actor : Wakes(a, s)
    BY <1>0, <1>1, <2>1 DEF WakeInv
  <2>3. CASE Same(a)
    BY <2>2, <2>3 DEF Same, Wakes, Scanning
  <2>4. CASE Act(a)
    BY <2>1, <2>2, <2>4, WakesOn
  <2> QED BY <2>3, <2>4, OneMoves
\* A session is handed the task while it works, or by who will wake it.
<1>2. CASE owner[t] # s
  <2>1. ASSUME AgentClaim(s) PROVE FALSE
    <3>1. pc[s] = "claim" /\ UNCHANGED sess
      BY <2>1 DEF AgentClaim
    <3> QED BY <3>1 DEF TurnsInv, InTurn
  <2>2. ASSUME NEW a \in Actor, ForkClaim(a), owner[job[a].task] = None, job[a].target = s
        PROVE  Wakes(a, s)'
    BY <2>2 DEF ForkClaim, Goto, TypeOK, Wakes
  <2>3. ASSUME NEW a \in Actor, AssignExisting(a, t), s = Target(snap[a].owner, plan[a].seen, t),
               owner[t] = None
        PROVE  Wakes(a, s)'
    <3>1. pc[a] = "assign" /\ pc'[a] = "assign" /\ UNCHANGED sess
      BY <2>3 DEF AssignExisting, PlansNext
    <3>2. plan[a].seen[s] = "idle"
      BY <3>1 DEF SeenInv, Scanning
    <3>3. plan'[a].seen = plan[a].seen /\ plan'[a].claimed = plan[a].claimed \cup {s}
      BY <2>3 DEF AssignExisting, TypeOK, Plan
    <3> QED BY <3>1, <3>2, <3>3 DEF Wakes, Scanning
  <2>4. owner[t] = None
    BY <1>2, OwnerMoves
  <2> QED BY <1>2, <2>1, <2>2, <2>3, <2>4, OwnerMoves
<1> QED BY <1>1, <1>2

\* An agent that keeps to what it listed as its own never starts a task nobody
\* has, and so never claims one.
ObeyInv == /\ \A s \in Session : \A t \in view[s] : owner[t] = s
           /\ \A s \in Session : pc[s] # "claim"

\* A session's agent knows of what it knew, or of what a listing just told it.
LEMMA ViewMoves ==
  ASSUME TypeOK, [Next]_vars, NEW s \in Session, NEW t \in view'[s]
  PROVE  t \in view[s] \/ owner[t] = s
<1> DEFINE Goal == t \in view[s] \/ owner[t] = s
<1>1. ASSUME NEW r \in Session, AgentList(r) PROVE Goal
  BY <1>1 DEF AgentList, TypeOK
<1>2. ASSUME NEW r \in Session, NEW u \in Task, NEW new \in TaskStatus, AgentUpdate(r, u, new)
      PROVE  Goal
  BY <1>2 DEF AgentUpdate, TypeOK
<1>3. ASSUME NEW r \in Session, SettleRecord(r) PROVE Goal
  BY <1>3 DEF SettleRecord, TypeOK
<1>4. ASSUME NEW a \in Actor, Crash(a) PROVE Goal
  BY <1>4 DEF Crash
<1>5. ASSUME NEW r \in Session, \/ TurnStart(r) \/ AgentClaim(r) \/ SettleRead(r) \/ Nudge(r)
                               \/ SendMessage(r) \/ \E end \in TurnEnds : EndTurn(r, end)
      PROVE  UNCHANGED view
  BY <1>5 DEF TurnStart, AgentClaim, SettleRead, Nudge, SendMessage, EndTurn, turnVars
<1>6. ASSUME NEW a \in Actor, Evaluate(a) PROVE UNCHANGED view
  BY <1>6 DEF Evaluate, WriteTask, EvaluateRead, SkipOne, EvaluateReread, FinishRead, Stamp,
              NoticeRead, Notify, turnVars
<1>7. ASSUME NEW a \in Actor, Schedule(a) PROVE UNCHANGED view
  BY <1>7 DEF Schedule, ReadSessions, AssignFork, AssignExisting, ForkClaim, ForkDelete,
              ForkQueue, AssignDone, WakeOne, turnVars
<1>8. ASSUME NEW p \in People, NEW u \in Task, NEW new \in TaskStatus, PersonUpdate(p, u, new)
      PROVE  UNCHANGED view
  BY <1>8 DEF PersonUpdate, turnVars
<1>9. UNCHANGED vars => UNCHANGED view
  BY DEF vars, turnVars
<1> QED BY <1>1, <1>2, <1>3, <1>4, <1>5, <1>6, <1>7, <1>8, <1>9 DEF Next, AgentStep, Settle

\* Only an agent's update is followed by a claim.
LEMMA ClaimingMoves ==
  ASSUME TypeOK, NEW s \in Session, s \in Actor, s \notin People, Act(s), pc'[s] = "claim",
         pc[s] # "claim"
  PROVE  \E t \in Task, new \in TaskStatus : AgentUpdate(s, t, new)
<1> USE DEF TypeOK, Goto
<1>0. ASSUME Return(s) PROVE FALSE
  BY <1>0 DEF Return, Job
<1>1. ~ Evaluate(s)
  BY <1>0 DEF Evaluate, WriteTask, EvaluateRead, SkipOne, EvaluateReread, FinishRead, Stamp,
              NoticeRead, Notify, AfterSkips
<1>2. ~ Schedule(s)
  BY <1>0 DEF Schedule, ReadSessions, AssignFork, AssignExisting, ForkClaim, ForkDelete,
              ForkQueue, AssignDone, AfterAssign, WakeOne
<1>3. ~ Crash(s) /\ ~ TurnStart(s) /\ ~ Settle(s)
  BY <1>0 DEF Crash, TurnStart, Settle, SettleRead, SettleRecord, FollowUp, NudgeOnly, Nudge
<1>4. AgentStep(s) => \E t \in Task, new \in TaskStatus : AgentUpdate(s, t, new)
  BY <1>0 DEF AgentStep, AgentList, AgentClaim, EndTurn
<1> HIDE DEF TypeOK, Goto
<1> QED BY <1>1, <1>2, <1>3, <1>4 DEF Act

LEMMA ObeyStep ==
  ASSUME Obedient, TypeOK, JobInv, ObeyInv, [Next]_vars PROVE ObeyInv'
<1>1. ASSUME NEW s \in Session, NEW t \in view'[s] PROVE owner'[t] = s
  <2>1. view'[s] \in SUBSET Task /\ s # None
    BY StepTyped, SessionAssumption DEF TypeOK
  <2>2. owner[t] = s
    <3>1. t \in view[s] \/ owner[t] = s
      BY <1>1, ViewMoves
    <3> QED BY <3>1 DEF ObeyInv
  <2> QED BY <2>1, <2>2, OwnerStep
<1>2. ASSUME NEW s \in Session, pc'[s] = "claim" PROVE FALSE
  <2>0. s \in Actor /\ s \notin People
    BY ActorTyped, ActorAssumption
  <2>1. ~ Same(s)
    BY <1>2 DEF Same, ObeyInv
  <2>2. Act(s)
    BY <2>0, <2>1, OneMoves
  <2>3. PICK t \in Task, new \in TaskStatus : AgentUpdate(s, t, new)
    BY <1>2, <2>0, <2>2, ClaimingMoves DEF ObeyInv
  <2>4. t \in view[s] /\ owner[t] = None
    BY <1>2, <2>0, <2>3 DEF AgentUpdate, Goto, TypeOK
  <2> QED BY <2>4, SessionAssumption DEF ObeyInv
<1> QED BY <1>1, <1>2 DEF ObeyInv

\* The branches that own nothing are the ones just made and those that never were,
\* if agents keep to their listings or nobody writes to the sessions.
LEMMA BranchesAreMade ==
  ASSUME Obedient \/ MaxMessages = 0 PROVE Spec => []MadeInv
<1>0. Init => ReadOwnersInv /\ MadeInv /\ ObeyInv
  BY SessionAssumption, ActorAssumption, ActorTyped
  DEF Init, ReadOwnersInv, NoSnap, MadeInv, Claiming, ObeyInv, Owns, Session
<1>1. CASE Obedient
  <2>1. ObeyInv => ClaimsInv
    BY DEF ObeyInv, ClaimsInv, Session
  <2>2. TypeOK /\ JobInv /\ ReadOwnersInv /\ ObeyInv /\ MadeInv /\ [Next]_vars
          => (ReadOwnersInv /\ ObeyInv /\ MadeInv)'
    BY <1>1, <2>1, ReadOwnersStep, ObeyStep, MadeStep
  <2> QED BY <1>0, <2>2, SpecTyped, PTL DEF Spec
<1>2. CASE MaxMessages = 0
  <2>1. OwnInv => ClaimsInv
    BY DEF OwnInv, ClaimsInv
  <2>2. TypeOK /\ JobInv /\ ReadOwnersInv /\ OwnInv /\ MadeInv /\ [Next]_vars
          => (ReadOwnersInv /\ OwnInv /\ MadeInv)'
    BY <1>2, <2>1, ReadOwnersStep, OwnStep, MadeStep
  <2> QED BY <1>0, <2>2, OwnInit, SpecTyped, PTL DEF Spec
<1> QED BY <1>1, <1>2

SleepInv ==
  TurnsInv /\ ForwardInv /\ MainInv /\ SeenInv /\ ListedInv /\ WakeInv

LEMMA SleepInit == Init => SleepInv
<1> SUFFICES ASSUME Init PROVE SleepInv
  OBVIOUS
<1>1. ForwardInv /\ SeenInv
  BY DEF Init, ForwardInv, SeenInv, Scanning
<1>2. MainInv
  BY DEF Init, MainInv, Session
<1>3. ListedInv
  BY ActorTyped, ActorAssumption DEF Init, ListedInv, Listed
<1>4. WakeInv
  BY DEF Init, WakeInv
<1> QED BY <1>1, <1>2, <1>3, <1>4, TurnsInit DEF SleepInv

\* Nobody sleeps on a task it was handed, where one actor at a time schedules,
\* agents end a turn only on an empty listing, nobody reopens a task or dies, and
\* people may write to the sessions if agents touch only what they listed: a pass
\* wakes every session it hands a task and saw idle, and one it saw at work lists
\* its tasks once more before it rests.
THEOREM WorkersAreWoken ==
  ASSUME NothingReopened, Diligent, Obedient \/ MaxMessages = 0, MaxCrashes = 0
  PROVE  UnracedSpec => []NoSleepingOwner
<1>1. [UnracedNext]_vars => [Next]_vars
  BY DEF UnracedNext
<1>2. UnracedSpec => []MadeInv
  BY <1>1, BranchesAreMade, PTL DEF UnracedSpec, Spec
<1>3. TypeOK /\ JobInv /\ MutexInv /\ MadeInv /\ SleepInv /\ [UnracedNext]_vars => SleepInv'
  BY <1>1, MutexStep, TurnsStep, ForwardStep, MainStep, SeenStep, ListedStep, WakeStep DEF SleepInv
<1>4. TypeOK /\ MadeInv /\ SleepInv => NoSleepingOwner
  <2> SUFFICES ASSUME TypeOK, MadeInv, SleepInv, Quiescent, NEW t \in Task, owner[t] # None,
                      status[t] = "pending"
               PROVE  sess[owner[t]] = "done"
    BY DEF NoSleepingOwner
  <2>1. owner[t] \in Session /\ sess[owner[t]] \in {"absent", "idle", "done"}
    BY DEF TypeOK, Quiescent
  <2>2. sess[owner[t]] # "absent"
    BY <2>1 DEF SleepInv, MainInv, MadeInv, Owns, Session
  <2>3. sess[owner[t]] # "idle"
    BY DEF SleepInv, WakeInv, Wakes, Quiescent, Scanning
  <2> QED BY <2>1, <2>2, <2>3
<1> QED BY <1>2, <1>3, <1>4, SleepInit, UnracedTyped, PTL DEF UnracedSpec

-----------------------------------------------------------------------------
(* A run that rests is over, in unraced executions without crashes, while      *)
(* tasks move forward and agents end a turn only on an empty listing: what     *)
(* remains to be done always has somebody who is about to see it.              *)

\* A status in hand is written by the session that has the task, or ends a task
\* that a person saw in progress, on a session that is not a branch at rest.
WriterInv ==
  \A a \in Actor : pc[a] = "write" =>
    IF a \in Session
    THEN owner[job[a].task] = a
    ELSE job[a].new # "in_progress" /\ (owner[job[a].task] = Main \/ sess[owner[job[a].task]] # "idle")

\* A session that leaves has nothing under way.
WorkedOffInv ==
  \A s \in Session : Listed(s) => \A t \in Task : owner[t] = s => status[t] # "in_progress"

\* A session at rest has nothing under way, and a branch at rest never had.
RestedInv ==
  \A t \in Task : owner[t] # None /\ sess[owner[t]] = "idle" =>
    status[t] # "in_progress" /\ (owner[t] # Main => ~ Started(t))

\* Only a run that is over finishes its main session.
OverInv == /\ \A a \in Actor : snap[a].over => outcome # "none"
           /\ sess[Main] = "done" => outcome # "none"

\* Somebody is about to end a run whose tasks have ended.
EndingInv ==
  outcome = "none" /\ Ended =>
    \E a \in Actor : pc[a] \in {"evaluate", "skip", "reread", "finish", "stamp"}

\* Actor a is about to skip t.
Skips(a, t) == pc[a] = "skip" /\ t \in plan[a].todo

\* What depends on a failed task has still to be looked for, or is about to be skipped.
FailureInv ==
  \A t \in Blocked(Failed) : status[t] = "pending" =>
    \E a \in Actor : pc[a] = "evaluate" \/ Skips(a, t)

\* Who skips a task skips what depends on it.
SkippingInv ==
  /\ \A a \in Actor, t, u \in Task :
       u \in Deps[t] /\ status[t] = "pending" /\ Skips(a, u) => Skips(a, t)
  /\ \A t, u \in Task :
       u \in Deps[t] /\ status[t] = "pending" /\ status[u] = "skipped" =>
         \E a \in Actor : Skips(a, t)

\* An actor in the middle of an evaluation goes on with it.
LEMMA EvaluatingMoves ==
  ASSUME MaxCrashes = 0, TypeOK, NEW a \in Actor, Act(a),
         pc[a] \in {"evaluate", "skip", "reread", "finish", "stamp"}
  PROVE  Evaluate(a)
<1>1. ~ Schedule(a)
  BY DEF Schedule, ReadSessions, AssignFork, AssignExisting, PlansNext, ForkClaim, ForkDelete,
         ForkQueue, AssignDone, WakeOne
<1>2. ~ TurnStart(a) /\ ~ AgentStep(a) /\ ~ Settle(a)
  BY DEF TurnStart, AgentStep, AgentList, AgentUpdate, AgentClaim, EndTurn, Settle, SettleRead,
         SettleRecord, Nudge
<1>3. \A t \in Task, new \in TaskStatus : ~ PersonUpdate(a, t, new)
  BY DEF PersonUpdate
<1>4. ~ Crash(a)
  <2>1. ~ (crashes < MaxCrashes)
    BY DEF TypeOK
  <2> QED BY <2>1, Zenon DEF Crash
<1> QED BY <1>1, <1>2, <1>3, <1>4 DEF Act

\* An actor skips after it read the tasks, one after another.
LEMMA SkippingMoves ==
  ASSUME TypeOK, NEW a \in Actor, Act(a), pc'[a] = "skip"
  PROVE  EvaluateRead(a) \/ SkipOne(a)
<1> USE DEF TypeOK, Goto
<1>0. ASSUME Return(a) PROVE FALSE
  BY <1>0 DEF Return, Job
<1>1. ASSUME Evaluate(a) PROVE EvaluateRead(a) \/ SkipOne(a)
  BY <1>0, <1>1 DEF Evaluate, WriteTask, EvaluateReread, AfterSkips, FinishRead, Stamp,
              NoticeRead, Notify
<1>2. ~ Schedule(a)
  BY <1>0 DEF Schedule, ReadSessions, AssignFork, AssignExisting, PlansNext, ForkClaim,
              ForkDelete, ForkQueue, AssignDone, AfterAssign, WakeOne
<1>3. ~ Crash(a)
  BY DEF Crash
<1>4. a \in Session => ~ TurnStart(a) /\ ~ AgentStep(a) /\ ~ Settle(a)
  BY <1>0 DEF TurnStart, AgentStep, AgentList, AgentUpdate, AgentClaim, EndTurn, Settle,
              SettleRead, SettleRecord, FollowUp, NudgeOnly, Nudge
<1>5. \A t \in Task, new \in TaskStatus : ~ PersonUpdate(a, t, new)
  BY DEF PersonUpdate
<1> HIDE DEF TypeOK, Goto
<1> QED BY <1>1, <1>2, <1>3, <1>4, <1>5 DEF Act

\* What depends on a blocked task is blocked.
LEMMA BlockedIsClosed ==
  ASSUME NEW F, NEW t \in Task, NEW u \in Deps[t], u \in F \cup Blocked(F)
  PROVE  t \in Blocked(F)
BY DEF Blocked

\* The plan of an evaluation that has tasks to skip.
LEMMA SkipsBegin ==
  ASSUME TypeOK, NEW a \in Actor, EvaluateRead(a)
  PROVE  /\ UNCHANGED status
         /\ plan'[a].todo = {t \in Blocked(Failed) : status[t] = "pending"}
         /\ plan'[a].todo # {} => pc'[a] = "skip"
<1>1. /\ plan' = [plan EXCEPT ![a] = [plan[a] EXCEPT !.todo =
                                       {t \in Blocked(Failed) : status[t] = "pending"}]]
      /\ UNCHANGED status
      /\ Goto(a, IF {t \in Blocked(Failed) : status[t] = "pending"} # {} THEN "skip" ELSE AfterSkips)
  BY DEF EvaluateRead, Failed
<1> QED BY <1>1 DEF TypeOK, Plan, Goto

LEMMA SkipsOne ==
  ASSUME TypeOK, NEW a \in Actor, SkipOne(a)
  PROVE  \E u \in plan[a].todo :
           /\ pc[a] = "skip" /\ status' = [status EXCEPT ![u] = "skipped"]
           /\ plan'[a].todo = plan[a].todo \ {u}
           /\ pc'[a] = IF plan[a].todo = {u} THEN "reread" ELSE "skip"
<1>1. PICK u \in plan[a].todo :
           /\ status' = [status EXCEPT ![u] = "skipped"]
           /\ plan' = [plan EXCEPT ![a] = [plan[a] EXCEPT !.todo = plan[a].todo \ {u}]]
           /\ Goto(a, IF plan[a].todo = {u} THEN "reread" ELSE "skip")
  BY DEF SkipOne, SetStatus
<1>2. pc[a] = "skip"
  BY DEF SkipOne
<1> QED BY <1>1, <1>2 DEF TypeOK, Plan, Goto

\* Who is about to skip a task is so until the task is not pending any more.
LEMMA SkipsOn ==
  ASSUME MaxCrashes = 0, TypeOK, JobInv, [Next]_vars, NEW a \in Actor, NEW t \in Task,
         Skips(a, t), status'[t] = "pending"
  PROVE  Skips(a, t)'
<1>1. CASE Same(a)
  BY <1>1 DEF Same, Skips
<1>2. CASE Act(a)
  <2>1. Evaluate(a) /\ pc[a] = "skip"
    BY <1>2, EvaluatingMoves DEF Skips
  <2>2. SkipOne(a)
    BY <2>1 DEF Evaluate, WriteTask, EvaluateRead, EvaluateReread, FinishRead, Stamp, NoticeRead,
                Notify
  <2>3. PICK u \in plan[a].todo :
           /\ pc[a] = "skip" /\ status' = [status EXCEPT ![u] = "skipped"]
           /\ plan'[a].todo = plan[a].todo \ {u}
           /\ pc'[a] = IF plan[a].todo = {u} THEN "reread" ELSE "skip"
    BY <2>2, SkipsOne
  <2>4. u # t /\ t \in plan[a].todo
    BY <2>3 DEF TypeOK, Skips
  <2> QED BY <2>3, <2>4 DEF Skips
<1> QED BY <1>1, <1>2, OneMoves

LEMMA FailureStep ==
  ASSUME MaxCrashes = 0, TypeOK, JobInv, ForwardInv, FailureInv, [Next]_vars PROVE FailureInv'
<1> SUFFICES ASSUME NEW t \in Blocked(Failed'), status'[t] = "pending"
             PROVE  \E a \in Actor : pc'[a] = "evaluate" \/ Skips(a, t)'
  BY DEF FailureInv, Blocked
<1>0. t \in Task /\ status[t] = "pending"
  BY PendingWas DEF Blocked
<1>1. CASE \E a \in Actor : WriteTask(a)
  BY <1>1 DEF WriteTask, Goto, TypeOK
<1>2. CASE ~ \E a \in Actor : WriteTask(a)
  <2>1. Failed' \subseteq Failed
    BY <1>2, StatusMoves, SkipsOne DEF Failed, TypeOK
  <2>2. t \in Blocked(Failed)
    BY <2>1, BlockedMonotone
  <2>3. PICK a \in Actor : pc[a] = "evaluate" \/ Skips(a, t)
    BY <1>0, <2>2 DEF FailureInv
  <2>4. CASE Skips(a, t)
    BY <1>0, <2>4, SkipsOn
  <2>5. CASE pc[a] = "evaluate" /\ Same(a)
    BY <2>5 DEF Same
  <2>6. CASE pc[a] = "evaluate" /\ Act(a)
    <3>1. EvaluateRead(a)
      BY <2>6, EvaluatingMoves DEF Evaluate, WriteTask, SkipOne, EvaluateReread, FinishRead, Stamp,
                                   NoticeRead, Notify
    <3>2. t \in plan'[a].todo /\ pc'[a] = "skip"
      BY <1>0, <2>2, <3>1, SkipsBegin
    <3> QED BY <3>2 DEF Skips
  <2> QED BY <2>3, <2>4, <2>5, <2>6, OneMoves
<1> QED BY <1>1, <1>2

LEMMA SkippingStep ==
  ASSUME MaxCrashes = 0, TypeOK, JobInv, ForwardInv, HeldInv, SkippingInv, [Next]_vars
  PROVE  SkippingInv'
<1>1. ASSUME NEW a \in Actor, NEW t \in Task, NEW u \in Task, u \in Deps[t],
             status'[t] = "pending", Skips(a, u)'
      PROVE  Skips(a, t)'
  <2>0. status[t] = "pending"
    BY <1>1, PendingWas
  <2>1. CASE Skips(a, u)
    <3>1. Skips(a, t)
      BY <1>1, <2>0, <2>1 DEF SkippingInv
    <3> QED BY <1>1, <3>1, SkipsOn
  <2>2. CASE ~ Skips(a, u)
    <3>1. Act(a)
      <4>1. ~ Same(a)
        BY <1>1, <2>2 DEF Same, Skips
      <4> QED BY <4>1, OneMoves
    <3>2. pc'[a] = "skip" /\ u \in plan'[a].todo
      BY <1>1 DEF Skips
    <3>3. ~ SkipOne(a)
      BY <2>2, <3>2, SkipsOne DEF Skips
    <3>4. EvaluateRead(a)
      BY <3>1, <3>2, <3>3, SkippingMoves
    <3>5. u \in Blocked(Failed)
      BY <3>2, <3>4, SkipsBegin
    <3>6. t \in Blocked(Failed)
      BY <1>1, <3>5, BlockedIsClosed
    <3> QED BY <2>0, <3>2, <3>4, <3>6, SkipsBegin DEF Skips
  <2> QED BY <2>1, <2>2
<1>2. ASSUME NEW t \in Task, NEW u \in Task, u \in Deps[t], status'[t] = "pending",
             status'[u] = "skipped"
      PROVE  \E a \in Actor : Skips(a, t)'
  <2>0. status[t] = "pending"
    BY <1>2, PendingWas
  <2>1. PICK a \in Actor : Skips(a, t)
    <3>1. CASE status[u] = "skipped"
      BY <1>2, <2>0, <3>1 DEF SkippingInv
    <3>2. ASSUME NEW a \in Actor, WriteTask(a), status[u] # "skipped" PROVE FALSE
      <4>1. status' = [status EXCEPT ![job[a].task] = job[a].new] /\ job[a].new # "skipped"
        BY <3>2 DEF WriteTask, SetStatus, HeldInv
      <4> QED BY <1>2, <3>2, <4>1 DEF TypeOK
    <3>3. ASSUME NEW a \in Actor, SkipOne(a), status[u] # "skipped" PROVE Skips(a, t)
      <4>1. PICK v \in plan[a].todo : pc[a] = "skip" /\ status' = [status EXCEPT ![v] = "skipped"]
        BY <3>3, SkipsOne
      <4>2. v = u
        BY <1>2, <3>3, <4>1 DEF TypeOK
      <4> QED BY <1>2, <2>0, <4>1, <4>2 DEF Skips, SkippingInv
    <3> QED BY <1>2, <3>1, <3>2, <3>3, StatusMoves
  <2> QED BY <1>2, <2>1, SkipsOn
<1> QED BY <1>1, <1>2 DEF SkippingInv

\* An outcome, once recorded, is not taken back.
LEMMA OutcomeStays == ASSUME TypeOK, [Next]_vars, outcome # "none" PROVE outcome' # "none"
BY FinishingSteps DEF Stamp

LEMMA EndingStep ==
  ASSUME MaxCrashes = 0, TypeOK, JobInv, EndingInv, [Next]_vars PROVE EndingInv'
<1> SUFFICES ASSUME outcome' = "none", Ended'
             PROVE  \E a \in Actor : pc'[a] \in {"evaluate", "skip", "reread", "finish", "stamp"}
  BY DEF EndingInv
<1>1. CASE \E a \in Actor : WriteTask(a) \/ SkipOne(a)
  BY <1>1, WritersAreBusy
<1>2. CASE UNCHANGED status
  <2>1. outcome = "none" /\ Ended
    BY <1>2, OutcomeStays DEF Ended
  <2>2. PICK a \in Actor : pc[a] \in {"evaluate", "skip", "reread", "finish", "stamp"}
    BY <2>1 DEF EndingInv
  <2>3. CASE Same(a)
    BY <2>2, <2>3 DEF Same
  <2>4. CASE Act(a)
    <3>0. AfterSkips = "finish"
      BY <2>1 DEF AfterSkips, Ended, Terminal
    <3>1. Evaluate(a)
      BY <2>2, <2>4, EvaluatingMoves
    <3>2. CASE WriteTask(a) \/ SkipOne(a)
      BY <3>2, WritersAreBusy
    <3>3. CASE EvaluateRead(a) \/ EvaluateReread(a) \/ FinishRead(a)
      BY <2>1, <3>0, <3>3 DEF EvaluateRead, EvaluateReread, FinishRead, Goto, TypeOK
    <3>4. ~ Stamp(a) /\ ~ NoticeRead(a) /\ ~ Notify(a)
      BY <2>2 DEF Stamp, NoticeRead, Notify
    <3> QED BY <3>1, <3>2, <3>3, <3>4 DEF Evaluate
  <2> QED BY <2>3, <2>4, OneMoves
<1> QED BY <1>1, <1>2, StatusMoves

LEMMA OverStep == ASSUME TypeOK, JobInv, OverInv, [Next]_vars PROVE OverInv'
<1>1. ASSUME NEW a \in Actor, snap'[a].over PROVE outcome' # "none"
  <2>1. outcome # "none"
    <3>1. ~ NoSnap.over
      BY DEF NoSnap
    <3> QED BY <1>1, <3>1, OneMoves, SnapMoves DEF Same, OverInv
  <2> QED BY <2>1, OutcomeStays
<1>2. ASSUME sess'[Main] = "done" PROVE outcome' # "none"
  <2>0. Main \in Session /\ Main \in Actor
    BY ActorTyped DEF Session
  <2>1. ASSUME SettleRecord(Main) PROVE outcome # "none"
    BY <1>2, <2>0, <2>1, RecordMoves DEF SettledStatus, OverInv
  <2>2. outcome # "none"
    BY <1>2, <2>0, <2>1, OnlyRecordsFinish DEF OverInv
  <2> QED BY <2>2, OutcomeStays
<1> QED BY <1>1, <1>2 DEF OverInv

\* A branch settles as done, with nothing left: it does not come to rest by itself.
LEMMA BranchesSettleDone ==
  ASSUME TypeOK, ReadOwnersInv, CurrentInv, ListedInv, WorkedOffInv, NEW b \in Branch,
         SettleRecord(b)
  PROVE  sess'[b] # "idle"
<1> SUFFICES ASSUME sess'[b] = "idle" PROVE FALSE
  OBVIOUS
<1>0. b \in Session /\ b \in Actor /\ b # Main
  BY ActorTyped, SessionAssumption DEF Session
<1>1. pc[b] = "record" /\ SettledStatus(b) = "idle"
  BY <1>0, RecordMoves
<1>2. Listed(b)
  BY <1>0, <1>1 DEF SettledStatus, ListedInv, Listed
<1>3. LeftUnfinished(b)
  BY <1>0, <1>1 DEF SettledStatus
<1>4. PICK t \in Task : snap[b].owner[t] = b /\ snap[b].status[t] \in Unfinished
  BY <1>3 DEF LeftUnfinished
<1>5. owner[t] = b
  BY <1>0, <1>4, SessionAssumption DEF ReadOwnersInv
<1>6. status[t] \in Unfinished
  BY <1>0, <1>1, <1>4 DEF CurrentInv
<1> QED BY <1>0, <1>2, <1>5, <1>6 DEF ListedInv, WorkedOffInv, Unfinished

\* So one that has a task and is not at rest comes to rest no more.
LEMMA WorkersDoNotRest ==
  ASSUME TypeOK, JobInv, MadeInv, ReadOwnersInv, CurrentInv, ListedInv, WorkedOffInv,
         [Next]_vars, NEW b \in Branch, Owns(b), sess[b] # "idle"
  PROVE  sess'[b] # "idle"
<1>1. b \in Session /\ sess[b] # "absent"
  BY DEF Session, MadeInv
<1> QED BY <1>1, BranchesSettleDone, IdleMoves

LEMMA WriterStep ==
  ASSUME TasksMoveForward, TypeOK, JobInv, MadeInv, ReadOwnersInv, HeldInv, CurrentInv, ListedInv,
         WorkedOffInv, RestedInv, WriterInv, [Next]_vars
  PROVE  WriterInv'
<1> SUFFICES ASSUME NEW a \in Actor, pc'[a] = "write"
             PROVE  IF a \in Session
                    THEN owner'[job'[a].task] = a
                    ELSE /\ job'[a].new # "in_progress"
                         /\ owner'[job'[a].task] = Main \/ sess'[owner'[job'[a].task]] # "idle"
  BY DEF WriterInv
<1>0. HeldInv' /\ JobInv' /\ TypeOK'
  BY HeldStep, JobStep, StepTyped
<1>1. CASE pc'[a] = pc[a] /\ job'[a] = job[a]
  <2> DEFINE t == job[a].task
  <2>1. pc[a] = "write" /\ t \in Task /\ owner[t] # None /\ owner'[t] = owner[t]
    BY <1>1, OwnerStep DEF JobInv, HeldInv
  <2>2. CASE a \in Session
    BY <1>1, <2>1, <2>2 DEF WriterInv
  <2>3. CASE a \notin Session /\ owner[t] # Main
    <3>1. owner[t] \in Branch /\ Owns(owner[t])
      BY <2>1, <2>3 DEF TypeOK, Session, Owns
    <3>2. job[a].new # "in_progress" /\ sess[owner[t]] # "idle"
      BY <2>1, <2>3 DEF WriterInv
    <3> QED BY <1>1, <2>1, <2>3, <3>1, <3>2, WorkersDoNotRest
  <2>4. CASE a \notin Session /\ owner[t] = Main
    BY <1>1, <2>1, <2>4 DEF WriterInv
  <2> QED BY <2>2, <2>3, <2>4
<1>2. CASE TakesInHand(a)
  <2>1. PICK t \in Task : a \in Session /\ MayTouch(a, t) /\ UNCHANGED owner /\ job'[a].task = t
    BY <1>2 DEF TakesInHand
  <2>2. owner'[t] # None
    BY <1>0, <2>1 DEF HeldInv
  <2> QED BY <2>1, <2>2 DEF MayTouch
<1>3. CASE EditsInHand(a)
  <2>1. PICK t \in Task, new \in TaskStatus :
           /\ a \in People /\ <<status[t], new>> \in PersonMoves /\ UNCHANGED owner
           /\ job'[a].task = t /\ job'[a].new = new
    BY <1>3 DEF EditsInHand
  <2>2. a \notin Session /\ status[t] = "in_progress" /\ new # "in_progress"
    BY <2>1, ActorAssumption DEF TasksMoveForward
  <2>3. owner[t] # None /\ sess[owner[t]] # "idle"
    BY <2>2 DEF HeldInv, Started, RestedInv
  <2>4. CASE owner[t] = Main
    BY <2>1, <2>2, <2>4
  <2>5. CASE owner[t] # Main
    <3>1. owner[t] \in Branch /\ Owns(owner[t])
      BY <2>3, <2>5 DEF TypeOK, Session, Owns
    <3> QED BY <2>1, <2>2, <2>3, <3>1, WorkersDoNotRest
  <2> QED BY <2>4, <2>5
<1>4. CASE ClaimsInHand(a)
  BY <1>4 DEF ClaimsInHand
<1> QED BY <1>1, <1>2, <1>3, <1>4, InHandMoves

LEMMA WorkedOffStep ==
  ASSUME Diligent, TypeOK, JobInv, ListedInv, WriterInv, WorkedOffInv, [Next]_vars, MutexInv'
  PROVE  WorkedOffInv'
<1> SUFFICES ASSUME NEW s \in Session, Listed(s)', NEW t \in Task, owner'[t] = s,
                    status'[t] = "in_progress"
             PROVE  FALSE
  BY DEF WorkedOffInv
<1>1. owner[t] = s
  BY NothingHandedOnLeaving
<1>2. status[t] = "in_progress"
  <2>1. ASSUME NEW a \in Actor, WriteTask(a), status[t] # "in_progress" PROVE FALSE
    <3>1. pc[a] = "write" /\ pc'[a] = "evaluate" /\ status' = [status EXCEPT ![job[a].task] = job[a].new]
      BY <2>1 DEF WriteTask, SetStatus, Goto, TypeOK
    <3>2. job[a].task = t /\ job[a].new = "in_progress"
      BY <2>1, <3>1 DEF TypeOK
    <3>3. a = s
      BY <1>1, <3>1, <3>2 DEF WriterInv
    <3> QED BY <3>1, <3>3 DEF Listed
  <2>2. ASSUME NEW a \in Actor, SkipOne(a), status[t] # "in_progress" PROVE FALSE
    BY <2>2, SkipsOne DEF TypeOK
  <2> QED BY <2>1, <2>2, StatusMoves
<1>3. CASE Listed(s)
  BY <1>1, <1>2, <1>3 DEF WorkedOffInv
<1>4. CASE AgentList(s) /\ view'[s] = {}
  <2>1. view'[s] = {u \in Task : owner[u] = s /\ status[u] \in Unfinished}
    BY <1>4 DEF AgentList, TypeOK
  <2> QED BY <1>1, <1>2, <1>4, <2>1 DEF Unfinished
<1>5. CASE EndTurn(s, "ok")
  <2>1. Listed(s)
    BY <1>5 DEF EndTurn, Listed
  <2> QED BY <1>3, <2>1
<1> QED BY <1>3, <1>4, <1>5, ListingMoves

LEMMA RestedStep ==
  ASSUME TypeOK, JobInv, TurnsInv, MadeInv, ReadOwnersInv, HeldInv, CurrentInv, ListedInv,
         WorkedOffInv, WriterInv, RestedInv, [Next]_vars
  PROVE  RestedInv'
<1> SUFFICES ASSUME NEW t \in Task, NEW s \in Session, owner'[t] = s, sess'[s] = "idle"
             PROVE  status'[t] # "in_progress" /\ (s # Main => ~ Started(t)')
  <2>1. \A t \in Task : owner'[t] # None => owner'[t] \in Session
    BY StepTyped DEF TypeOK
  <2> QED BY <2>1 DEF RestedInv
<1>0. s # None
  BY SessionAssumption
<1>1. CASE owner[t] # s
  <2>1. owner[t] = None /\ UNCHANGED status
    BY <1>1, OwnerMoves DEF AgentClaim, ForkClaim, AssignExisting
  <2> QED BY <2>1 DEF HeldInv, Started
<1>2. CASE owner[t] = s /\ sess[s] # "idle"
  <2>1. s = Main
    BY <1>2, WorkersDoNotRest DEF Owns, Session
  <2>2. SettleRecord(s)
    <3>1. ASSUME NEW a \in Actor, NEW u \in Task, AssignFork(a, u), job'[a].target = s PROVE FALSE
      BY <2>1, <3>1, ForkMade, SessionAssumption
    <3> QED BY <1>2, <3>1, IdleMoves
  <2>3. pc[s] = "record" /\ SettledStatus(s) = "idle" /\ UNCHANGED status
    BY <2>2, RecordMoves DEF SettleRecord
  <2>4. Listed(s)
    BY <2>3 DEF SettledStatus, ListedInv, Listed
  <2> QED BY <1>2, <2>1, <2>3, <2>4 DEF WorkedOffInv
<1>3. CASE owner[t] = s /\ sess[s] = "idle"
  <2>0. status[t] # "in_progress" /\ (s # Main => ~ Started(t))
    BY <1>0, <1>3 DEF RestedInv
  <2>1. ASSUME NEW a \in Actor, WriteTask(a), status'[t] # status[t]
        PROVE  s = Main /\ status'[t] # "in_progress"
    <3>1. pc[a] = "write" /\ status' = [status EXCEPT ![job[a].task] = job[a].new]
      BY <2>1 DEF WriteTask, SetStatus
    <3>2. job[a].task = t /\ status'[t] = job[a].new
      BY <2>1, <3>1 DEF TypeOK
    <3>3. a \notin Session
      <4>1. SUFFICES ASSUME a \in Session PROVE FALSE
        OBVIOUS
      <4>2. a = s
        BY <1>3, <3>1, <3>2, <4>1 DEF WriterInv
      <4> QED BY <1>3, <3>1, <4>1, <4>2 DEF TurnsInv, InTurn
    <3> QED BY <1>3, <3>1, <3>2, <3>3 DEF WriterInv
  <2>2. ASSUME NEW a \in Actor, SkipOne(a), status'[t] # status[t] PROVE status'[t] = "skipped"
    BY <2>2, SkipsOne DEF TypeOK
  <2> QED BY <2>0, <2>1, <2>2, StatusMoves DEF Started
<1> QED BY <1>1, <1>2, <1>3

\* A branch is handed no task once it is done.
LEMMA NothingHandedWhenDone ==
  ASSUME TypeOK, JobInv, TurnsInv, LimitInv, [Next]_vars, NEW b \in Branch, sess[b] = "done",
         NEW t \in Task, owner'[t] = b
  PROVE  owner[t] = b
<1> SUFFICES ASSUME owner'[t] # owner[t] PROVE FALSE
  OBVIOUS
<1>0. b \in Session
  BY DEF Session
<1>1. ASSUME AgentClaim(b) PROVE FALSE
  BY <1>0, <1>1 DEF AgentClaim, TurnsInv, InTurn
<1>2. ASSUME NEW a \in Actor, ForkClaim(a), job[a].target = b PROVE FALSE
  BY <1>2 DEF ForkClaim, LimitInv
<1>3. ASSUME NEW a \in Actor, AssignExisting(a, t), b = Target(snap[a].owner, plan[a].seen, t)
      PROVE  FALSE
  <2>1. \A d \in Deps[t] : snap[a].owner[d] = b
    BY <1>3, TargetWorkedDeps
  <2>2. DepOwners(snap[a].owner, t) \ {Main} \subseteq {b}
    BY <1>0, <2>1, SessionAssumption DEF DepOwners, WorkedBy
  <2>3. plan[a].seen[b] # "done"
    BY <1>3, <2>2, SessionAssumption DEF Target
  <2>4. Scanning(a)
    BY <1>3 DEF AssignExisting, PlansNext, Scanning
  <2> QED BY <1>0, <2>3, <2>4 DEF LimitInv
<1> QED BY <1>1, <1>2, <1>3, OwnerMoves

LEMMA UnracedDoneStep ==
  ASSUME TypeOK, JobInv, TurnsInv, LimitInv, HeldInv, ListedInv, WorkedOffInv, WriterInv, DoneInv,
         [Next]_vars
  PROVE  DoneInv'
<1> SUFFICES ASSUME NEW b \in Branch, sess'[b] = "done", NEW t \in Task, owner'[t] = b
             PROVE  status'[t] \in Terminal
  BY DEF DoneInv
<1>0. b \in Session /\ b # Main
  BY SessionAssumption DEF Session
<1>1. CASE sess[b] # "done"
  <2>1. SettleRecord(b)
    BY <1>0, <1>1, OnlyRecordsFinish
  <2>2. pc[b] = "record" /\ SettledStatus(b) = "done" /\ UNCHANGED <<status, owner>>
    BY <1>0, <2>1, RecordMoves DEF SettleRecord
  <2>3. Listed(b)
    BY <1>0, <1>1, <2>2 DEF SettledStatus, ListedInv, Listed
  <2> QED BY <1>0, <2>2, <2>3 DEF ListedInv, WorkedOffInv, Terminal, Unfinished, TypeOK
<1>2. CASE sess[b] = "done"
  <2>1. owner[t] = b
    BY <1>2, NothingHandedWhenDone
  <2>2. status[t] \in Terminal
    BY <1>2, <2>1 DEF DoneInv
  <2>3. ASSUME NEW a \in Actor, WriteTask(a), status'[t] # status[t] PROVE status'[t] \in Terminal
    <3>1. pc[a] = "write" /\ status' = [status EXCEPT ![job[a].task] = job[a].new]
      BY <2>3 DEF WriteTask, SetStatus
    <3>2. job[a].task = t /\ status'[t] = job[a].new
      BY <2>3, <3>1 DEF TypeOK
    <3>3. a \notin Session
      <4>1. SUFFICES ASSUME a \in Session PROVE FALSE
        OBVIOUS
      <4>2. a = b
        BY <2>1, <3>1, <3>2, <4>1 DEF WriterInv
      <4> QED BY <1>2, <3>1, <4>1, <4>2 DEF TurnsInv, InTurn
    <3>4. job[a].new \in {"completed", "failed"}
      BY <3>1, <3>3 DEF WriterInv, HeldInv
    <3> QED BY <3>2, <3>4 DEF Terminal, TaskStatus, Unfinished
  <2>4. ASSUME NEW a \in Actor, SkipOne(a), status'[t] # status[t] PROVE status'[t] = "skipped"
    BY <2>4, SkipsOne DEF TypeOK
  <2> QED BY <2>2, <2>3, <2>4, StatusMoves DEF Terminal, TaskStatus, Unfinished
<1> QED BY <1>1, <1>2

\* Of the tasks in a set one was created first.
LEMMA FirstExists ==
  ASSUME NEW S \in SUBSET Task, S # {} PROVE \E t \in S : \A u \in S : Rank[t] <= Rank[u]
<1> DEFINE Upto(t) == {u \in Task : Rank[u] <= Rank[t]}
           F == {Upto(t) : t \in S}
<1>1. F \in SUBSET SUBSET Task /\ F # {}
  OBVIOUS
<1>2. IsWellFoundedOn(StrictSubsetOrdering(Task), SUBSET Task)
  <2>1. FiniteSubsetsOf(Task) = SUBSET Task
    BY TaskAssumption, FS_FiniteSubsetsOfFinite
  <2> QED BY <2>1, FS_StrictSubsetOrderingWellFounded
<1>3. PICK U \in F : \A V \in F : ~ (<<V, U>> \in StrictSubsetOrdering(Task))
  BY <1>1, <1>2, WFMin
<1>4. PICK t \in S : U = Upto(t)
  BY <1>3
<1>5. ASSUME NEW u \in S, ~ (Rank[t] <= Rank[u]) PROVE FALSE
  <2>1. Rank \in [Task -> Nat] /\ u \in Task /\ t \in Task
    BY TaskAssumption
  <2>2. Upto(u) \subseteq Upto(t) /\ t \in Upto(t) /\ t \notin Upto(u)
    BY <1>5, <2>1
  <2>3. Upto(u) \in F /\ Upto(u) \in SUBSET Task /\ Upto(t) \in SUBSET Task
    OBVIOUS
  <2> HIDE DEF Upto, F
  <2> QED BY <1>3, <1>4, <2>2, <2>3 DEF StrictSubsetOrdering
<1> QED BY <1>5

\* What makes a rest the end: of the sessions, and of the evaluation.
AtRestInv == RestedInv /\ DoneInv /\ OverInv
SweepInv == EndingInv /\ FailureInv /\ SkippingInv

\* At rest no session has a task that it could still work.
LEMMA RestedOwners ==
  ASSUME TypeOK, MadeInv, MainInv, HeldInv, WakeInv, AtRestInv, Quiescent, outcome = "none",
         NEW t \in Task, status[t] \in Unfinished
  PROVE  status[t] = "pending" /\ owner[t] = None
<1>1. SUFFICES ASSUME owner[t] # None PROVE FALSE
  BY DEF HeldInv, Started, Unfinished
<1>2. owner[t] \in Session /\ sess[owner[t]] \in {"absent", "idle", "done"}
  BY <1>1 DEF TypeOK, Quiescent
<1>3. sess[owner[t]] # "absent"
  BY <1>2 DEF MainInv, MadeInv, Owns, Session
<1>4. sess[owner[t]] # "done"
  <2>1. owner[t] = Main => sess[Main] # "done"
    BY DEF AtRestInv, OverInv
  <2>2. owner[t] # Main => sess[owner[t]] # "done"
    BY <1>2 DEF AtRestInv, DoneInv, Session, Terminal
  <2> QED BY <2>1, <2>2
<1>5. sess[owner[t]] = "idle"
  BY <1>2, <1>3, <1>4
<1>6. status[t] = "pending"
  BY <1>1, <1>5 DEF AtRestInv, RestedInv, Unfinished
<1> QED BY <1>1, <1>5, <1>6 DEF WakeInv, Wakes, Quiescent, Scanning

\* At rest the first unfinished task would be ready, and nobody would look for it.
LEMMA RestIsTheEnd ==
  ASSUME Task # {}, TypeOK, MadeInv, MainInv, HeldInv, WakeInv, LookInv, AtRestInv, SweepInv,
         Quiescent
  PROVE  outcome # "none"
<1> SUFFICES ASSUME outcome = "none" PROVE FALSE
  OBVIOUS
<1> DEFINE U == {u \in Task : status[u] \in Unfinished}
<1>1. U # {}
  <2>1. ~ Ended
    BY DEF SweepInv, EndingInv, Quiescent
  <2> QED BY <2>1 DEF Ended, Terminal, TypeOK
<1>2. PICK t \in U : \A u \in U : Rank[t] <= Rank[u]
  BY <1>1, FirstExists
<1>3. status[t] = "pending" /\ owner[t] = None
  BY RestedOwners
<1>4. ASSUME NEW d \in Deps[t] PROVE d \in Task /\ status[d] \in {"completed", "failed", "skipped"}
  <2>1. d \in Task /\ ~ (Rank[t] <= Rank[d])
    BY TaskAssumption
  <2> QED BY <1>2, <2>1 DEF TypeOK, TaskStatus, Unfinished
<1>5. ASSUME NEW d \in Deps[t] PROVE status[d] # "failed"
  <2>1. SUFFICES ASSUME status[d] = "failed" PROVE FALSE
    OBVIOUS
  <2>2. t \in Blocked(Failed)
    BY <1>4, <1>5, <2>1, BlockedIsClosed DEF Failed
  <2> QED BY <1>3, <2>2 DEF SweepInv, FailureInv, Skips, Quiescent
<1>6. ASSUME NEW d \in Deps[t] PROVE status[d] # "skipped"
  BY <1>3, <1>4, <1>6 DEF SweepInv, SkippingInv, Skips, Quiescent
<1>7. DepsCompleted(status, t)
  BY <1>4, <1>5, <1>6 DEF DepsCompleted
<1>8. ASSUME NEW b \in DepOwners(owner, t) \ {Main} PROVE sess[b] = "done"
  <2>1. PICK d \in Deps[t] : b = owner[d] /\ owner[d] # None
    BY <1>8 DEF DepOwners, WorkedBy
  <2>2. d \in Task /\ b \in Branch /\ b \in Session /\ Started(d)
    BY <1>4, <1>7, <1>8, <2>1 DEF TypeOK, Session, DepsCompleted, Started
  <2>3. sess[b] # "absent"
    BY <2>1, <2>2 DEF MadeInv, Owns
  <2>4. sess[b] # "idle"
    BY <1>8, <2>1, <2>2 DEF AtRestInv, RestedInv
  <2> QED BY <2>2, <2>3, <2>4 DEF Quiescent
<1>9. t \in Ready(status, owner, sess)
  BY <1>3, <1>7, <1>8 DEF Ready
<1> QED BY <1>9 DEF LookInv, Looks, Quiescent

RestInv == WriterInv /\ WorkedOffInv /\ AtRestInv /\ SweepInv

LEMMA RestInit == ASSUME Task # {} PROVE Init => RestInv
<1> SUFFICES ASSUME Init PROVE RestInv
  OBVIOUS
<1>1. WriterInv
  BY DEF Init, WriterInv
<1>2. WorkedOffInv /\ AtRestInv
  BY SessionAssumption
  DEF Init, WorkedOffInv, AtRestInv, RestedInv, DoneInv, OverInv, NoSnap, Session
<1>3. EndingInv
  BY DEF Init, EndingInv, Ended, Terminal, Unfinished
<1>4. FailureInv
  <2>1. Failed = {}
    BY DEF Init, Failed
  <2>2. ASSUME NEW t \in Blocked({}) PROVE FALSE
    <3>1. {} \in SUBSET Task /\ \A u \in Task : Deps[u] \cap ({} \cup {}) # {} => u \in {}
      OBVIOUS
    <3>2. t \in {}
      BY ONLY <2>2, <3>1 DEF Blocked
    <3> QED BY <3>2
  <2> QED BY <2>1, <2>2 DEF FailureInv
<1>5. SkippingInv
  BY DEF Init, SkippingInv, Skips
<1> QED BY <1>1, <1>2, <1>3, <1>4, <1>5 DEF RestInv, SweepInv

\* A run that comes to rest is over, where one actor at a time schedules, tasks move
\* forward, people only end what a session has started, agents end a turn only on an
\* empty listing, and nobody dies: when nothing is queued, running or under way and
\* nobody is waited for, every task has ended and the outcome is recorded -- for every
\* workflow that has a task, and every limit (evaluate_completion and settle_turn
\* share the work, each acting on what it read before).
THEOREM RunsRestOver ==
  ASSUME Task # {}, TasksMoveForward, Diligent, Obedient \/ MaxMessages = 0, MaxCrashes = 0
  PROVE  UnracedSpec => []RestIsOver
<1>0. NothingReopened
  BY DEF TasksMoveForward, NothingReopened, Forward
<1>1. [UnracedNext]_vars => [Next]_vars
  BY DEF UnracedNext
<1>2. UnracedSpec => []MadeInv
  BY <1>1, BranchesAreMade, PTL DEF UnracedSpec, Spec
<1> DEFINE I == SleepInv /\ LimitInv /\ ReadyInv /\ ReadOwnersInv /\ RestInv
<1>3. TypeOK /\ JobInv /\ MutexInv /\ MadeInv /\ I /\ [UnracedNext]_vars => I'
  <2> SUFFICES ASSUME TypeOK, JobInv, MutexInv, MadeInv, I, [UnracedNext]_vars PROVE I'
    OBVIOUS
  <2>1. [Next]_vars /\ MutexInv'
    BY <1>1, MutexStep
  <2>2. SleepInv'
    BY <1>0, <2>1, TurnsStep, ForwardStep, MainStep, SeenStep, ListedStep, WakeStep DEF SleepInv
  <2>3. LimitInv' /\ ReadyInv' /\ ReadOwnersInv'
    BY <2>1, LimitStep, HeldStep, CurrentStep, LookStep, ReadOwnersStep DEF SleepInv, ReadyInv
  <2>4. WriterInv' /\ WorkedOffInv'
    BY <2>1, WriterStep, WorkedOffStep DEF SleepInv, ReadyInv, RestInv, AtRestInv
  <2>5. AtRestInv'
    BY <2>1, RestedStep, UnracedDoneStep, OverStep DEF SleepInv, ReadyInv, RestInv, AtRestInv
  <2>6. SweepInv'
    BY <2>1, EndingStep, FailureStep, SkippingStep DEF SleepInv, ReadyInv, RestInv, SweepInv
  <2> QED BY <2>2, <2>3, <2>4, <2>5, <2>6 DEF RestInv
<1>4. Init => I
  BY SleepInit, LimitInit, ReadyInit, RestInit DEF Init, ReadOwnersInv, NoSnap
<1>5. TypeOK /\ MadeInv /\ I => RestIsOver
  BY RestIsTheEnd DEF RestIsOver, SleepInv, ReadyInv, RestInv
<1> QED BY <1>2, <1>3, <1>4, <1>5, UnracedTyped, PTL DEF UnracedSpec

-----------------------------------------------------------------------------
(* The run implements its outline, while only agents move tasks, and forward.  *)
(* Whatever an actor read before it assigns, starts, ends or skips a task, or  *)
(* ends the run, is still so of the part the outline's step depends on.        *)

\* A fork is made for a task that can start.
ForkInv == \A a \in Actor : pc[a] = "forkclaim" => DepsCompleted(status, job[a].task)

OutlineInv == EndInv /\ SnapInv /\ TodoInv /\ ForkInv

LEMMA ForkStep ==
  ASSUME TypeOK, JobInv, EndInv, TodoInv, ForkInv, [Next]_vars PROVE ForkInv'
<1> SUFFICES ASSUME NEW a \in Actor, pc'[a] = "forkclaim"
             PROVE  DepsCompleted(status', job'[a].task)
  BY DEF ForkInv, DepsCompleted
<1>1. \A t \in Task : DepsCompleted(status, t) => DepsCompleted(status', t)
  BY EndedStays, TaskAssumption DEF EndInv, DepsCompleted, Terminal, TaskStatus, Unfinished
<1>2. CASE Same(a)
  BY <1>1, <1>2 DEF Same, ForkInv, JobInv
<1>3. ASSUME NEW u \in Task, AssignFork(a, u) PROVE DepsCompleted(status', job'[a].task)
  <2>1. u \in plan[a].todo /\ Scanning(a)
    BY <1>3 DEF AssignFork, PlansNext, IsEarliest, Scanning
  <2>2. job'[a].task = u
    <3>1. PICK c \in Branch :
               job' = [job EXCEPT ![a] = [[job[a] EXCEPT !.task = u] EXCEPT !.target = c]]
      BY <1>3 DEF AssignFork
    <3>2. job \in [Actor -> Job]
      BY DEF TypeOK
    <3> QED BY <3>1, <3>2 DEF Job
  <2> QED BY <1>1, <2>1, <2>2 DEF TodoInv
<1>4. Scanning(a)'
  BY DEF Scanning
<1>5. ~ ReadSessions(a)
  BY DEF ReadSessions, Goto, TypeOK
<1> QED BY <1>2, <1>3, <1>4, <1>5, OneMoves, ScanningMoves

\* A step writes the status of a task, its owner, or the outcome, and only one of them.
Writes(a) ==
  \/ WriteTask(a) \/ SkipOne(a) \/ Stamp(a) \/ ForkClaim(a)
  \/ a \in Session /\ AgentClaim(a)
  \/ \E t \in Task : AssignExisting(a, t)

LEMMA WritersMoves ==
  ASSUME TypeOK, [Next]_vars
  PROVE  UNCHANGED <<status, owner, outcome>> \/ \E a \in Actor : Writes(a)
<1>1. ASSUME NEW a \in Actor, Evaluate(a) PROVE Writes(a) \/ UNCHANGED <<status, owner, outcome>>
  BY <1>1 DEF Evaluate, EvaluateRead, EvaluateReread, FinishRead, NoticeRead, Notify, Writes,
              runVars
<1>2. ASSUME NEW a \in Actor, Schedule(a) PROVE Writes(a) \/ UNCHANGED <<status, owner, outcome>>
  BY <1>2 DEF Schedule, ReadSessions, AssignFork, ForkDelete, ForkQueue, AssignDone, WakeOne, Writes,
              runVars
<1>3. ASSUME NEW a \in Actor, Crash(a) PROVE UNCHANGED <<status, owner, outcome>>
  BY <1>3 DEF Crash, runVars
<1>4. ASSUME NEW s \in Session, AgentStep(s) PROVE Writes(s) \/ UNCHANGED <<status, owner, outcome>>
  BY <1>4 DEF AgentStep, AgentList, AgentUpdate, EndTurn, Writes, runVars
<1>5. ASSUME NEW s \in Session, TurnStart(s) \/ Settle(s) \/ SendMessage(s)
      PROVE  UNCHANGED <<status, owner, outcome>>
  BY <1>5 DEF TurnStart, Settle, SettleRead, SettleRecord, Nudge, SendMessage, runVars
<1>6. ASSUME NEW p \in People, NEW t \in Task, NEW new \in TaskStatus, PersonUpdate(p, t, new)
      PROVE  UNCHANGED <<status, owner, outcome>>
  BY <1>6 DEF PersonUpdate, runVars
<1>7. CASE UNCHANGED vars
  BY <1>7 DEF vars, runVars
<1> QED BY <1>1, <1>2, <1>3, <1>4, <1>5, <1>6, <1>7, ActorTyped DEF Next

\* A claim for a task that can start gives it away, or changes nothing.
LEMMA ClaimGives ==
  ASSUME TypeOK, EndInv, NEW t \in Task, NEW s \in Session, Claims(t, s),
         DepsCompleted(status, t), UNCHANGED <<status, outcome>>
  PROVE  [Outline!Next]_(Outline!outlineVars)
<1>1. CASE owner[t] = None
  <2>1. status[t] = "pending"
    BY <1>1, DueIsPending
  <2>2. owner' = [owner EXCEPT ![t] = s]
    BY <1>1 DEF Claims
  <2>3. Outline!Give(t, s)
    BY <1>1, <2>1, <2>2 DEF Outline!Give, Outline!MayStart, DepsCompleted
  <2> QED BY <2>3 DEF Outline!Next
<1>2. CASE owner[t] # None
  BY <1>2 DEF Claims, Outline!outlineVars
<1> QED BY <1>1, <1>2

LEMMA OutlineStep ==
  ASSUME TypeOK, JobInv, OutlineInv, [Next]_vars
  PROVE  [Outline!Next]_(Outline!outlineVars)
<1> USE DEF OutlineInv
<1>1. ASSUME NEW a \in Actor, WriteTask(a) PROVE [Outline!Next]_(Outline!outlineVars)
  <2> DEFINE t == job[a].task
             new == job[a].new
  <2>1. /\ t \in Task /\ UNCHANGED <<owner, outcome>>
        /\ status' = [status EXCEPT ![t] = new]
    BY <1>1 DEF WriteTask, SetStatus, JobInv, runVars
  <2>2. /\ new \in {"in_progress", "completed", "failed"} /\ DepsCompleted(status, t)
        /\ owner[t] = a /\ a \in Session
        /\ IF new = "in_progress" THEN ~ Started(t) ELSE status[t] = "in_progress"
    BY <1>1 DEF WriteTask, EndInv, OrderInv, InHandInv
  <2> HIDE DEF t, new
  <2>3. CASE new = "in_progress"
    <3>1. status[t] # "skipped"
      BY <2>1, <2>2, BlockedNotStarted DEF EndInv, OrderInv, SkippedInv
    <3>2. status[t] = "pending"
      BY <2>1, <2>2, <2>3, <3>1 DEF TypeOK, TaskStatus, Started
    <3>3. Outline!Begin(t)
      BY <2>1, <2>2, <2>3, <3>2, SessionAssumption DEF Outline!Begin, Outline!MayStart, DepsCompleted
    <3> QED BY <2>1, <3>3 DEF Outline!Next
  <2>4. CASE new # "in_progress"
    <3>1. Outline!End(t, new)
      BY <2>1, <2>2, <2>4 DEF Outline!End
    <3> QED BY <2>1, <2>2, <2>4, <3>1 DEF Outline!Next
  <2> QED BY <2>3, <2>4
<1>2. ASSUME NEW a \in Actor, SkipOne(a) PROVE [Outline!Next]_(Outline!outlineVars)
  <2>1. PICK t \in plan[a].todo : status' = [status EXCEPT ![t] = "skipped"]
    BY <1>2 DEF SkipOne, SetStatus
  <2>2. UNCHANGED <<owner, outcome>>
    BY <1>2 DEF SkipOne, runVars
  <2>3. t \in Blocked(Failed) /\ t \in Task /\ ~ Started(t)
    BY <1>2, BlockedNotStarted DEF SkipOne, EndInv, OrderInv, SkipInv
  <2>4. CASE status[t] = "skipped"
    <3>1. status' = status
      BY <2>1, <2>4 DEF TypeOK
    <3> QED BY <2>2, <3>1 DEF Outline!outlineVars
  <2>5. CASE status[t] # "skipped"
    <3>1. status[t] = "pending"
      BY <2>3, <2>5 DEF TypeOK, TaskStatus, Started
    <3>2. Outline!Doomed(t)
      BY <2>3 DEF Blocked, Failed, Outline!Doomed, Outline!Failures
    <3>3. Outline!GiveUp(t)
      BY <2>1, <2>2, <3>1, <3>2 DEF Outline!GiveUp
    <3> QED BY <2>3, <3>3 DEF Outline!Next
  <2> QED BY <2>4, <2>5
<1>3. ASSUME NEW a \in Actor, Stamp(a) PROVE [Outline!Next]_(Outline!outlineVars)
  <2>1. /\ UNCHANGED <<status, owner>>
        /\ outcome' = IF \E t \in Task : snap[a].status[t] = "failed" THEN "failed" ELSE "completed"
    BY <1>3 DEF Stamp
  <2>2. snap[a].status = status /\ Ended
    BY <1>3 DEF Stamp, EndInv, FinishInv
  <2>3. outcome' = IF Outline!Failures = {} THEN "completed" ELSE "failed"
    BY <2>1, <2>2 DEF Outline!Failures
  <2>4. CASE outcome = "none"
    <3>1. \A t \in Task : Outline!Over(t)
      BY <2>2 DEF Ended, Outline!Over, Terminal, TaskStatus, Unfinished
    <3>2. Outline!Finish
      BY <2>1, <2>3, <2>4, <3>1 DEF Outline!Finish
    <3> QED BY <3>2 DEF Outline!Next
  <2>5. CASE outcome # "none"
    <3>1. outcome = "failed" <=> Outline!Failures # {}
      BY <2>5 DEF EndInv, OutcomeInv, OutcomeMatchesTasks, Outline!Failures
    <3>2. outcome' = outcome
      BY <2>3, <2>5, <3>1 DEF TypeOK
    <3> QED BY <2>1, <3>2 DEF Outline!outlineVars
  <2> QED BY <2>4, <2>5
<1>4. ASSUME NEW s \in Session, AgentClaim(s) PROVE [Outline!Next]_(Outline!outlineVars)
  <2>1. Claims(job[s].task, s) /\ UNCHANGED <<status, outcome>>
    BY <1>4 DEF AgentClaim, runVars
  <2>2. job[s].task \in Task /\ DepsCompleted(status, job[s].task)
    BY <1>4, ActorTyped DEF AgentClaim, JobInv, EndInv, OrderInv, InHandInv
  <2> QED BY <2>1, <2>2, ClaimGives
<1>5. ASSUME NEW a \in Actor, ForkClaim(a) PROVE [Outline!Next]_(Outline!outlineVars)
  <2>1. Claims(job[a].task, job[a].target) /\ UNCHANGED <<status, outcome>>
    BY <1>5 DEF ForkClaim, runVars
  <2>2. job[a].task \in Task /\ job[a].target \in Session /\ DepsCompleted(status, job[a].task)
    BY <1>5 DEF ForkClaim, JobInv, ForkInv, Session
  <2> QED BY <2>1, <2>2, ClaimGives
<1>6. ASSUME NEW a \in Actor, NEW t \in Task, AssignExisting(a, t)
      PROVE  [Outline!Next]_(Outline!outlineVars)
  <2> DEFINE s == Target(snap[a].owner, plan[a].seen, t)
  <2>1. Claims(t, s) /\ UNCHANGED <<status, outcome>>
    BY <1>6 DEF AssignExisting, runVars
  <2>2. t \in plan[a].todo /\ Scanning(a)
    BY <1>6 DEF AssignExisting, PlansNext, IsEarliest, Scanning
  <2>3. s \in Session /\ DepsCompleted(status, t)
    BY <2>2, TargetTyped DEF TodoInv
  <2> HIDE DEF s
  <2> QED BY <2>1, <2>3, ClaimGives
<1>7. CASE UNCHANGED <<status, owner, outcome>>
  BY <1>7 DEF Outline!outlineVars
<1> QED BY <1>1, <1>2, <1>3, <1>4, <1>5, <1>6, <1>7, WritersMoves DEF Writes

\* While only agents move tasks, and only forward, whoever schedules or evaluates at
\* once and whoever dies, what a run shows of its tasks and of its end is a behaviour of
\* the outline: each of them given away once and when it can start, started by
\* its session after its dependencies, ended once, skipped only behind a failed one, and
\* the run ended once, as its tasks did.
THEOREM ImplementsOutline ==
  ASSUME OnlyAgentsForward PROVE Spec => OutlineSpec
<1>1. Init => Outline!Init
  BY DEF Init, Outline!Init
<1>2. Init => OutlineInv
  BY EndInit DEF Init, OutlineInv, SnapInv, ReadOwnersInv, TodoInv, ForkInv, NoSnap, Scanning,
                 Terminal, Unfinished
<1>3. TypeOK /\ JobInv /\ OutlineInv /\ [Next]_vars => OutlineInv'
  BY EndStep, SnapStep, TodoStep, ForkStep DEF OutlineInv
<1>4. TypeOK /\ JobInv /\ OutlineInv /\ [Next]_vars => [Outline!Next]_(Outline!outlineVars)
  BY OutlineStep
<1> QED BY <1>1, <1>2, <1>3, <1>4, SpecTyped, PTL DEF Spec, OutlineSpec, Outline!Spec

=============================================================================
