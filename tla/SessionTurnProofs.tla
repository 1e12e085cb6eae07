-------------------------- MODULE SessionTurnProofs --------------------------
(***************************************************************************)
(* Proofs about SessionTurn, for any replicas, approvers, participants and *)
(* calls, and any number of crashes: the session has one driver, and its   *)
(* row implements the one-slot mailbox of SessionMailbox.                  *)
(***************************************************************************)
EXTENDS SessionTurn, TLAPS

\* The run lock is held exactly by the replica that is past taking it.
LockInv == \A r \in Replica : Holds(r) <=> lock = r

InTurn(r) == pc[r] \in {"agent", "clear", "settle"}

\* While a turn is under way the row is running; its input is gone at the settling.
RowInv ==
  \A r \in Replica : /\ InTurn(r) => status = "running"
                     /\ pc[r] = "settle" => input = NoInput

Verdict == [kind : {"tool_result"}, call : Approval, content : Decision]

\* What is about to be queued is an input; what is about to be decided, a verdict.
RequestInv ==
  /\ \A p \in Person : /\ job[p].at \in {"write", "scan"} => job[p].input \in Verdict
                       /\ job[p].at = "queue" => job[p].input \in Input
  /\ \A r \in Replica : pc[r] = "requeue" => turn[r].input \in Input

Inv == TypeOK /\ LockInv /\ RowInv /\ RequestInv

-----------------------------------------------------------------------------
\* A verdict, like every reply, is an input a session may be handed.
LEMMA ReplyIsInput ==
  /\ Verdict \subseteq Input
  /\ \A x \in Approval, v \in Decision : Reply(x, v) \in Verdict
  /\ \A f \in Form : Reply(f, "form") \in Input
  /\ \A k \in {"message", "remark", "recovery", "scheduled"} : Say(k) \in Input
BY DEF Verdict, Input, Answer, Talk, Reply, Say, Call, Decision

\* What a process holds of the session when it holds nothing.
LEMMA NothingTyped == NoCopy \in Copy /\ NoTurn \in Turn /\ NoJob \in Job
BY DEF NoCopy, NoTurn, NoJob, Copy, Turn, Job, Status

\* A settled turn leaves the session at rest.
LEMMA SettledAtRest ==
  ASSUME NEW t PROVE SettledStatus(t) \in Status \ Busy
BY DEF SettledStatus, Status, Busy

\* A replica that leaves keeps nothing, and takes the lock from nobody else.
LEMMA LeaveInv ==
  ASSUME Inv, NEW r \in Replica, Leave(r)
  PROVE  /\ lock' \in Replica \cup {None}
         /\ pc' \in [Replica -> PC] /\ copy' \in [Replica -> Copy] /\ turn' \in [Replica -> Turn]
         /\ LockInv'
         /\ pc'[r] = "off" /\ \A q \in Replica \ {r} : pc'[q] = pc[q] /\ turn'[q] = turn[q]
BY NothingTyped, PartyAssumption DEF Inv, TypeOK, LockInv, Holds, Leave, Move, PC

\* What a turn keeps of its input and of the calls it leaves behind.
LEMMA TurnTyped ==
  ASSUME NEW t \in Turn, NEW C \in SUBSET Call, NEW i \in Input
  PROVE  /\ [t EXCEPT !.opened = t.opened \cup C] \in Turn
         /\ \A b \in BOOLEAN : [t EXCEPT !.failed = b] \in Turn
         /\ [NoTurn EXCEPT !.before = C] \in Turn /\ [NoTurn EXCEPT !.input = i] \in Turn
         /\ StillWaiting(t) \in SUBSET Call
         /\ [t EXCEPT !.opened = t.opened \cup C].input = t.input
         /\ \A b \in BOOLEAN : [t EXCEPT !.failed = b].input = t.input
         /\ [NoTurn EXCEPT !.input = i].input = i
BY DEF Turn, NoTurn, StillWaiting

LEMMA InitInv == Init => Inv
<1> SUFFICES ASSUME Init PROVE Inv
  OBVIOUS
<1> USE DEF Init
<1>1. TypeOK
  BY ReplyIsInput, NothingTyped, PartyAssumption DEF TypeOK, Status, PC
<1>2. LockInv
  BY PartyAssumption DEF LockInv, Holds
<1>3. RowInv /\ RequestInv
  BY DEF RowInv, RequestInv, InTurn, NoJob
<1> QED
  BY <1>1, <1>2, <1>3 DEF Inv

\* The invariant is inductive: no action of a replica, an approver or a
\* participant breaks it.
LEMMA StepInv == Inv /\ [Next]_vars => Inv'
<1> SUFFICES ASSUME Inv, [Next]_vars PROVE Inv'
  OBVIOUS
<1> USE DEF Inv, TypeOK, LockInv, RowInv, RequestInv, Holds, InTurn, PC
<1>1. ASSUME NEW r \in Replica, Poll(r) PROVE Inv'
  BY <1>1 DEF Poll, Move, row, bounds
<1>2. ASSUME NEW r \in Replica, ReadRow(r) PROVE Inv'
  <2>1. [status |-> status, waiting |-> waiting, input |-> input] \in Copy
    BY DEF Copy
  <2> QED
    BY <1>2, <2>1 DEF ReadRow, Move, row, bounds
<1>3. ASSUME NEW r \in Replica, TryLock(r) PROVE Inv'
  <2>1. CASE lock = None
    BY <1>3, <2>1, PartyAssumption DEF TryLock, Move, row, bounds
  <2>2. CASE lock # None
    <3>1. Leave(r) /\ UNCHANGED <<row, approval, shown, task, job, bounds>>
      BY <1>3, <2>2 DEF TryLock
    <3> QED
      BY <3>1, LeaveInv DEF row, bounds
  <2> QED
    BY <2>1, <2>2
<1>4. ASSUME NEW r \in Replica, NotDue(r) PROVE Inv'
  BY <1>4, LeaveInv DEF NotDue, row, bounds
<1>5. ASSUME NEW r \in Replica, Begin(r) PROVE Inv'
  <2>1. InputOf(copy[r]) \in Input
    BY ReplyIsInput DEF InputOf, Copy
  <2>2. [input |-> InputOf(copy[r]), before |-> copy[r].waiting, opened |-> {}, failed |-> FALSE] \in Turn
    BY <2>1 DEF Turn, Copy
  <2> QED
    BY <1>5, <2>2 DEF Begin, SetState, Move, Status, bounds
<1>6. ASSUME NEW r \in Replica, BeginFails(r) PROVE Inv'
  BY <1>6, LeaveInv DEF BeginFails, SetState, Status, bounds
<1>7. ASSUME NEW r \in Replica, NEW x \in Approval, RequestApproval(r, x) PROVE Inv'
  BY <1>7 DEF RequestApproval, row, bounds
<1>8. ASSUME NEW r \in Replica, NEW c \in Call, Render(r, c) PROVE Inv'
  <2>1. [turn[r] EXCEPT !.opened = turn[r].opened \cup {c}] \in Turn
    BY TurnTyped, ReplyIsInput
  <2>2. turn' \in [Replica -> Turn] /\ \A q \in Replica : turn'[q].input = turn[q].input
    BY <1>8, <2>1 DEF Render, Turn
  <2> QED
    BY <1>8, <2>2 DEF Render, row, bounds
<1>9. ASSUME NEW r \in Replica, WaitUntil(r) PROVE Inv'
  BY <1>9 DEF WaitUntil
<1>10. ASSUME NEW r \in Replica, HoldTask(r) PROVE Inv'
  BY <1>10 DEF HoldTask, bounds
<1>11. ASSUME NEW r \in Replica, StartTask(r) PROVE Inv'
  BY <1>11 DEF StartTask, row, bounds
<1>12. ASSUME NEW r \in Replica, NEW failed \in BOOLEAN, EndTurn(r, failed) PROVE Inv'
  <2>1. [turn[r] EXCEPT !.failed = failed] \in Turn
    BY TurnTyped, ReplyIsInput
  <2>2. turn' \in [Replica -> Turn] /\ \A q \in Replica : turn'[q].input = turn[q].input
    BY <1>12, <2>1 DEF EndTurn, Turn
  <2> QED
    BY <1>12, <2>2 DEF EndTurn, Move, row, bounds
<1>13. ASSUME NEW r \in Replica, ClearInput(r) PROVE Inv'
  BY <1>13 DEF ClearInput, Move, bounds
<1>14. ASSUME NEW r \in Replica, Settle(r) PROVE Inv'
  <2>1. SettledStatus(turn[r]) \in Status /\ StillWaiting(turn[r]) \in SUBSET Call
    BY SettledAtRest, TurnTyped, ReplyIsInput
  <2>2. pc[r] = "settle" /\ \A q \in Replica \ {r} : ~ Holds(q)
    BY <1>14 DEF Settle
  <2>3. CASE SettledStatus(turn[r]) = "waiting_for_approval"
    <3>1. [NoTurn EXCEPT !.before = StillWaiting(turn[r])] \in Turn
      BY <2>1, TurnTyped, ReplyIsInput
    <3> QED
      BY <1>14, <2>1, <2>2, <2>3, <3>1 DEF Settle, SetState, Move, bounds
  <2>4. CASE SettledStatus(turn[r]) # "waiting_for_approval"
    <3>1. Leave(r)
      BY <1>14, <2>4 DEF Settle
    <3> QED
      BY <1>14, <2>1, <2>2, <3>1, LeaveInv DEF Settle, SetState, bounds
  <2> QED
    BY <2>3, <2>4
<1>15. ASSUME NEW r \in Replica, FindDecision(r) PROVE Inv'
  <2>1. CASE Leave(r)
    BY <1>15, <2>1, LeaveInv DEF FindDecision, row, bounds
  <2>2. ASSUME NEW x \in Approval, approval[x] \in Decision, Move(r, "requeue"),
               turn' = [turn EXCEPT ![r] = [NoTurn EXCEPT !.input = Reply(x, approval[x])]],
               UNCHANGED <<lock, copy>>
        PROVE  Inv'
    <3>1. Reply(x, approval[x]) \in Input
      BY <2>2, ReplyIsInput
    <3>2. [NoTurn EXCEPT !.input = Reply(x, approval[x])] \in Turn
        /\ [NoTurn EXCEPT !.input = Reply(x, approval[x])].input \in Input
      BY <3>1, TurnTyped, NothingTyped
    <3> QED
      BY <1>15, <2>2, <3>2 DEF FindDecision, Move, row, bounds
  <2> QED
    BY <1>15, <2>1, <2>2 DEF FindDecision
<1>16. ASSUME NEW r \in Replica, Requeue(r) PROVE Inv'
  <2>1. Leave(r) /\ pc[r] = "requeue"
    BY <1>16 DEF Requeue
  <2> QED
    BY <1>16, <2>1, LeaveInv DEF Requeue, Queue, Status, Busy, row, bounds
<1>17. ASSUME NEW r \in Replica, Crash(r) PROVE Inv'
  BY <1>17, LeaveInv DEF Crash, row
<1>18. ASSUME NEW d \in Decider, NEW x \in Approval, NEW v \in Decision, DecideRead(d, x, v) PROVE Inv'
  BY <1>18, ReplyIsInput DEF DecideRead, Ask, Job, Person, row, bounds
<1>19. ASSUME NEW d \in Decider, DecideWrite(d) PROVE Inv'
  BY <1>19, ReplyIsInput DEF DecideWrite, Ask, Job, Person, Verdict, row, bounds
<1>20. ASSUME NEW d \in Decider, DecideScan(d) PROVE Inv'
  <2>1. d \in Person /\ job[d].input \in Input
    BY <1>20, ReplyIsInput DEF DecideScan, Person
  <2>2. CASE Ask(d, "queue", job[d].input)
    <3>1. [at |-> "queue", input |-> job[d].input] \in Job
      BY <2>1 DEF Job
    <3> QED
      BY <1>20, <2>1, <2>2, <3>1 DEF DecideScan, Ask, row, bounds
  <2>3. CASE Done(d)
    BY <1>20, <2>1, <2>3, NothingTyped DEF DecideScan, Done, NoJob, row, bounds
  <2> QED
    BY <1>20, <2>2, <2>3 DEF DecideScan
<1>21. ASSUME NEW p \in Sender, NEW k \in {"message", "remark"}, SendMessage(p, k) PROVE Inv'
  BY <1>21, ReplyIsInput DEF SendMessage, Ask, Job, Person, row
<1>22. ASSUME NEW p \in Sender, NEW f \in Form, AnswerForm(p, f) PROVE Inv'
  BY <1>22, ReplyIsInput DEF AnswerForm, Ask, Job, Person, row
<1>23. ASSUME NEW p \in Person, QueueRequest(p) PROVE Inv'
  BY <1>23, NothingTyped DEF QueueRequest, Queue, Done, NoJob, Status, Busy, row, bounds
<1>24. ASSUME NEW p \in Person, RequestDies(p) PROVE Inv'
  BY <1>24, NothingTyped DEF RequestDies, Done, NoJob, row
<1>25. CASE UNCHANGED vars
  BY <1>25 DEF vars, row, bounds
<1> QED
  BY <1>1, <1>2, <1>3, <1>4, <1>5, <1>6, <1>7, <1>8, <1>9, <1>10, <1>11,
     <1>12, <1>13, <1>14, <1>15, <1>16, <1>17, <1>18, <1>19, <1>20, <1>21,
     <1>22, <1>23, <1>24, <1>25 DEF Next, Run, Agent, Decide, Send

-----------------------------------------------------------------------------
LEMMA SpecInv == Spec => []Inv
<1> QED BY InitInv, StepInv, PTL DEF Spec

\* Every reachable state of the session, its turns and its requests is typed;
\* in particular nothing but an input is ever queued.
THEOREM TypeCorrect == Spec => []TypeOK
<1>1. Inv => TypeOK
  BY DEF Inv
<1> QED BY <1>1, SpecInv, PTL

\* However many replicas poll, and whichever of them die, the turns of a session
\* never overlap and its row says "running" throughout one
\* (session_runner._run_locked under advisory_lock).
THEOREM SingleDriver == Spec => []OneDriver
<1>1. Inv => OneDriver
  BY DEF Inv, LockInv, RowInv, InTurn, OneDriver
<1> QED BY <1>1, SpecInv, PTL

-----------------------------------------------------------------------------
\* Every step of the session is a step of the mailbox, or does not touch it.
LEMMA MailboxStep ==
  ASSUME Inv, Inv', [Next]_vars
  PROVE  [Mailbox!Next]_<<Mode, input>>
<1> USE DEF Inv, RowInv, InTurn
<1>1. ASSUME NEW i \in Input, Queue(i) PROVE [Mailbox!Next]_<<Mode, input>>
  <2>1. CASE status \in Busy
    BY <1>1, <2>1 DEF Queue, Mode, row
  <2>2. CASE status \notin Busy
    <3>1. Mode = "resting" /\ Mode' = "queued" /\ input' = i
      BY <1>1, <2>2 DEF Queue, Mode, Busy
    <3> QED BY <3>1 DEF Mailbox!Next, Mailbox!Accept
  <2> QED BY <2>1, <2>2
<1>2. ASSUME NEW r \in Replica, Begin(r) PROVE [Mailbox!Next]_<<Mode, input>>
  BY <1>2 DEF Begin, SetState, Mode, Busy, Mailbox!Next, Mailbox!Start
<1>3. ASSUME NEW r \in Replica, BeginFails(r) PROVE [Mailbox!Next]_<<Mode, input>>
  BY <1>3 DEF BeginFails, SetState, Mode, Busy, Mailbox!Next, Mailbox!GiveUp
<1>4. ASSUME NEW r \in Replica, ClearInput(r) PROVE [Mailbox!Next]_<<Mode, input>>
  BY <1>4 DEF ClearInput, Mode, Busy, Mailbox!Next, Mailbox!Consume
<1>5. ASSUME NEW r \in Replica, Settle(r) PROVE [Mailbox!Next]_<<Mode, input>>
  <2>1. Mode = "running" /\ input = NoInput
    BY <1>5 DEF Settle, Mode, Busy
  <2>2. Mode' = "resting" /\ input' = NoInput
    BY <1>5, SettledAtRest DEF Settle, SetState, Mode
  <2> QED BY <2>1, <2>2 DEF Mailbox!Next, Mailbox!Rest
<1>6. ASSUME NEW r \in Replica, Requeue(r) PROVE [Mailbox!Next]_<<Mode, input>>
  BY <1>1, <1>6 DEF Requeue, RequestInv
<1>7. ASSUME NEW p \in Person, QueueRequest(p) PROVE [Mailbox!Next]_<<Mode, input>>
  BY <1>1, <1>7 DEF QueueRequest, RequestInv
<1>8. CASE UNCHANGED <<status, input>>
  BY <1>8 DEF Mode
<1> QED
  <2> USE DEF row
  <2>1. ASSUME NEW r \in Replica, Run(r) PROVE [Mailbox!Next]_<<Mode, input>>
    BY <1>2, <1>4, <1>5, <1>6, <1>8, <2>1
       DEF Run, Poll, ReadRow, TryLock, NotDue, EndTurn, FindDecision
  <2>2. ASSUME NEW r \in Replica, Agent(r) \/ Crash(r) PROVE UNCHANGED <<status, input>>
    BY <2>2 DEF Agent, RequestApproval, Render, WaitUntil, HoldTask, StartTask, Crash
  <2>3. ASSUME NEW d \in Decider, Decide(d) PROVE UNCHANGED <<status, input>>
    BY <2>3 DEF Decide, DecideRead, DecideWrite, DecideScan
  <2>4. ASSUME NEW p \in Sender, Send(p) PROVE UNCHANGED <<status, input>>
    BY <2>4 DEF Send, SendMessage, AnswerForm
  <2>5. ASSUME NEW p \in Person, RequestDies(p) PROVE UNCHANGED <<status, input>>
    BY <2>5 DEF RequestDies
  <2> QED
    BY <1>3, <1>7, <1>8, <2>1, <2>2, <2>3, <2>4, <2>5 DEF Next, vars

\* The detailed session implements the one-slot mailbox: no accepted input is
\* replaced by another, or dropped before a turn has begun or the session has
\* been given up on (queue_input, set_state and mark_run).
THEOREM ImplementsMailbox == Spec => MailboxSpec
<1>1. Init => Mailbox!Init
  BY ReplyIsInput DEF Init, Mailbox!Init, Mode, Busy
<1>2. Inv /\ Inv' /\ [Next]_vars => [Mailbox!Next]_<<Mode, input>>
  BY MailboxStep
<1> QED BY <1>1, <1>2, SpecInv, PTL DEF Spec, MailboxSpec, Mailbox!Spec

-----------------------------------------------------------------------------
\* A settling turn looks among the calls the row waits on, and what it found is
\* one of them.
ResumeInv ==
  \A r \in Replica :
    /\ pc[r] = "resume" => turn[r].before = waiting
    /\ pc[r] = "requeue" => turn[r].input.call \in waiting \cap Approval

\* A settling turn that has not left yet holds on to what it read.
LEMMA ResumeStep == Inv /\ ResumeInv /\ [Next]_vars => ResumeInv'
<1> SUFFICES ASSUME Inv, ResumeInv, [Next]_vars PROVE ResumeInv'
  OBVIOUS
<1> USE DEF Inv, TypeOK, ResumeInv
<1>1. ASSUME NEW r \in Replica, Leave(r), UNCHANGED waiting PROVE ResumeInv'
  BY <1>1, LeaveInv
<1>2. ASSUME NEW r \in Replica, NEW at \in PC \ {"resume", "requeue"}, Move(r, at),
             \A q \in Replica \ {r} : turn'[q] = turn[q], UNCHANGED waiting
      PROVE  ResumeInv'
  BY <1>2 DEF Move
<1>3. ASSUME UNCHANGED <<pc, turn, waiting>> PROVE ResumeInv'
  BY <1>3
<1>4. ASSUME NEW r \in Replica, TryLock(r) PROVE ResumeInv'
  BY <1>1, <1>2, <1>4 DEF TryLock, PC, row
<1>5. ASSUME NEW r \in Replica, NEW c \in Call, Render(r, c) PROVE ResumeInv'
  BY <1>5 DEF Render, row
<1>6. ASSUME NEW r \in Replica, Settle(r) PROVE ResumeInv'
  <2>1. pc[r] = "settle" /\ waiting' = StillWaiting(turn[r])
    BY <1>6 DEF Settle, SetState
  <2>2. \A q \in Replica \ {r} : ~ Holds(q)
    BY <2>1 DEF LockInv, Holds
  <2>3. CASE Leave(r)
    BY <2>2, <2>3, LeaveInv DEF Holds
  <2>4. CASE ~ Leave(r)
    <3>1. Move(r, "resume") /\ turn' = [turn EXCEPT ![r] = [NoTurn EXCEPT !.before = StillWaiting(turn[r])]]
      BY <1>6, <2>4 DEF Settle
    <3>2. [NoTurn EXCEPT !.before = StillWaiting(turn[r])].before = StillWaiting(turn[r])
      BY DEF NoTurn
    <3> QED BY <2>1, <2>2, <3>1, <3>2 DEF Move, Holds
  <2> QED BY <2>3, <2>4
<1>7. ASSUME NEW r \in Replica, FindDecision(r) PROVE ResumeInv'
  <2>1. pc[r] = "resume" /\ UNCHANGED waiting
    BY <1>7 DEF FindDecision, row
  <2>2. CASE ~ Leave(r)
    <3>1. PICK x \in turn[r].before \cap Approval :
               turn' = [turn EXCEPT ![r] = [NoTurn EXCEPT !.input = Reply(x, approval[x])]]
      BY <1>7, <2>2 DEF FindDecision
    <3>2. [NoTurn EXCEPT !.input = Reply(x, approval[x])].input.call = x
      BY DEF NoTurn, Reply
    <3>3. Move(r, "requeue")
      BY <1>7, <2>2 DEF FindDecision
    <3> QED BY <2>1, <3>1, <3>2, <3>3 DEF Move
  <2> QED BY <1>1, <2>1, <2>2
<1>8. ASSUME NEW r \in Replica, Run(r) PROVE ResumeInv'
  <2>1. ASSUME Requeue(r) PROVE ResumeInv'
    BY <1>1, <2>1 DEF Requeue, Queue, row
  <2>2. ASSUME Poll(r) \/ ReadRow(r) \/ ClearInput(r) PROVE ResumeInv'
    BY <1>2, <2>2 DEF Poll, ReadRow, ClearInput, PC, row
  <2>3. ASSUME Begin(r) PROVE ResumeInv'
    BY <1>2, <2>3 DEF Begin, SetState, PC
  <2>4. ASSUME NEW failed \in BOOLEAN, EndTurn(r, failed) PROVE ResumeInv'
    BY <1>2, <2>4 DEF EndTurn, PC, row
  <2>5. ASSUME NotDue(r) PROVE ResumeInv'
    BY <1>1, <2>5 DEF NotDue, row
  <2> QED BY <1>4, <1>6, <1>7, <1>8, <2>1, <2>2, <2>3, <2>4, <2>5 DEF Run
<1>9. ASSUME NEW r \in Replica, BeginFails(r) \/ Crash(r) PROVE ResumeInv'
  BY <1>1, <1>9 DEF BeginFails, SetState, Crash, row
<1>10. ASSUME NEW r \in Replica, Agent(r) PROVE ResumeInv'
  BY <1>3, <1>5, <1>10 DEF Agent, RequestApproval, WaitUntil, HoldTask, StartTask, row
<1>11. ASSUME NEW d \in Decider, Decide(d) PROVE ResumeInv'
  BY <1>3, <1>11 DEF Decide, DecideRead, DecideWrite, DecideScan, row
<1>12. ASSUME NEW p \in Sender, Send(p) PROVE ResumeInv'
  BY <1>3, <1>12 DEF Send, SendMessage, AnswerForm, row
<1>13. ASSUME NEW p \in Person, QueueRequest(p) \/ RequestDies(p) PROVE ResumeInv'
  BY <1>3, <1>13 DEF QueueRequest, Queue, RequestDies, row
<1>14. CASE UNCHANGED vars
  BY <1>3, <1>14 DEF vars, row
<1> QED
  BY <1>8, <1>9, <1>10, <1>11, <1>12, <1>13, <1>14 DEF Next

\* Steps that neither rest the session, nor decide, nor drop what is in hand.
LEMMA HandshakeFrame ==
  ASSUME NoForgottenDecision,
         UNCHANGED <<status, waiting, approval, crashes>>,
         \A d \in Decider : job[d].at \in {"scan", "queue"} => job'[d] = job[d],
         \A r \in Replica : pc[r] \in {"resume", "requeue"} => pc'[r] = pc[r] /\ turn'[r] = turn[r]
  PROVE  NoForgottenDecision'
BY DEF NoForgottenDecision, InHand

\* No step of a turn, a decision or a message forgets a decision.
LEMMA HandshakeStep ==
  Inv /\ ResumeInv /\ ResumeInv' /\ NoForgottenDecision /\ [Next]_vars => NoForgottenDecision'
<1> SUFFICES ASSUME Inv, ResumeInv, ResumeInv', NoForgottenDecision, [Next]_vars
             PROVE  NoForgottenDecision'
  OBVIOUS
<1>1. ASSUME status' # "waiting_for_approval" PROVE NoForgottenDecision'
  BY <1>1 DEF NoForgottenDecision
<1>2. ASSUME NEW i \in Input, Queue(i) PROVE NoForgottenDecision'
  BY <1>1, <1>2 DEF Queue, Busy, row
<1>3. ASSUME crashes' = crashes + 1 PROVE NoForgottenDecision'
  BY <1>3 DEF NoForgottenDecision, Inv, TypeOK
<1>4. ASSUME NEW r \in Replica, Settle(r) PROVE NoForgottenDecision'
  <2>1. CASE SettledStatus(turn[r]) = "waiting_for_approval"
    BY <1>4, <2>1 DEF Settle, Move, Inv, TypeOK, NoForgottenDecision, InHand
  <2>2. CASE SettledStatus(turn[r]) # "waiting_for_approval"
    BY <1>1, <1>4, <2>2 DEF Settle, SetState
  <2> QED BY <2>1, <2>2
<1>5. ASSUME NEW r \in Replica, FindDecision(r) PROVE NoForgottenDecision'
  <2> DEFINE decided == {x \in turn[r].before \cap Approval : approval[x] \in Decision}
  <2>1. pc[r] = "resume" /\ turn[r].before = waiting /\ UNCHANGED <<row, approval, job, bounds>>
    BY <1>5 DEF FindDecision, ResumeInv
  <2>2. CASE decided = {}
    BY <2>1, <2>2 DEF NoForgottenDecision, row
  <2>3. CASE decided # {}
    <3>1. pc'[r] = "requeue"
      BY <1>5, <2>3 DEF FindDecision, Move, Inv, TypeOK
    <3>2. turn'[r].input.call \in waiting' \cap Approval
      BY <3>1 DEF ResumeInv
    <3> QED BY <3>1, <3>2 DEF NoForgottenDecision, InHand
  <2> QED BY <2>2, <2>3
<1>6. ASSUME NEW d \in Decider, DecideWrite(d) PROVE NoForgottenDecision'
  <2> DEFINE x == job[d].input.call
  <2>1. /\ d \in Person /\ job' = [job EXCEPT ![d] = [at |-> "scan", input |-> job[d].input]]
        /\ UNCHANGED <<status, waiting, pc, turn, crashes>>
    BY <1>6 DEF DecideWrite, Ask, Person, row, bounds
  <2>2. job'[d].at = "scan" /\ job'[d].input.call = x
    BY <2>1 DEF Inv, TypeOK
  <2>3. \A y \in Approval : InHand(y) => InHand(y)'
    BY <1>6, <2>1 DEF InHand, DecideWrite, Inv, TypeOK
  <2>4. \A y \in Approval \ {x} : approval'[y] = approval[y]
    BY <1>6 DEF DecideWrite, Inv, TypeOK
  <2> QED
    BY <2>1, <2>2, <2>3, <2>4 DEF NoForgottenDecision, InHand
<1>7. ASSUME NEW d \in Decider, DecideScan(d) PROVE NoForgottenDecision'
  <2>1. /\ d \in Person /\ job[d].at = "scan"
        /\ UNCHANGED <<status, waiting, approval, pc, turn, crashes>>
    BY <1>7 DEF DecideScan, Person, row, bounds
  <2>2. CASE status = "waiting_for_approval" /\ job[d].input.call \in waiting
    <3>1. job' = [job EXCEPT ![d] = [at |-> "queue", input |-> job[d].input]]
      BY <1>7, <2>2 DEF DecideScan, Ask
    <3>2. \A y \in Approval : InHand(y) => InHand(y)'
      BY <2>1, <3>1 DEF InHand, Inv, TypeOK
    <3> QED BY <2>1, <3>2 DEF NoForgottenDecision
  <2>3. CASE ~ (status = "waiting_for_approval" /\ job[d].input.call \in waiting)
    <3>1. job' = [job EXCEPT ![d] = NoJob]
      BY <1>7, <2>3 DEF DecideScan, Done
    <3>2. \A y \in Approval : job[d].input.call # y /\ InHand(y) => InHand(y)'
      BY <2>1, <3>1 DEF InHand, Inv, TypeOK
    <3> QED BY <2>1, <2>3, <3>2 DEF NoForgottenDecision
  <2> QED BY <2>2, <2>3
<1>8. ASSUME NEW r \in Replica, Run(r) PROVE NoForgottenDecision'
  <2>1. ASSUME Poll(r) \/ ReadRow(r) \/ TryLock(r) \/ NotDue(r) \/ ClearInput(r)
               \/ \E failed \in BOOLEAN : EndTurn(r, failed)
        PROVE  NoForgottenDecision'
    <3>1. pc[r] \notin {"resume", "requeue"} /\ UNCHANGED <<status, waiting, approval, job, crashes>>
      BY <2>1 DEF Poll, ReadRow, TryLock, NotDue, ClearInput, EndTurn, row, bounds
    <3>2. \A q \in Replica \ {r} : pc'[q] = pc[q] /\ turn'[q] = turn[q]
      BY <2>1, LeaveInv
         DEF Poll, ReadRow, TryLock, NotDue, ClearInput, EndTurn, Move, Inv, TypeOK
    <3> QED BY <3>1, <3>2, HandshakeFrame
  <2>2. ASSUME Begin(r) PROVE NoForgottenDecision'
    BY <1>1, <2>2 DEF Begin, SetState
  <2>3. ASSUME Requeue(r) PROVE NoForgottenDecision'
    BY <1>2, <2>3 DEF Requeue, Inv, RequestInv
  <2> QED BY <1>4, <1>5, <1>8, <2>1, <2>2, <2>3 DEF Run
<1>9. ASSUME NEW r \in Replica, BeginFails(r) \/ Crash(r) PROVE NoForgottenDecision'
  BY <1>1, <1>3, <1>9 DEF BeginFails, SetState, Crash
<1>10. ASSUME NEW r \in Replica, Agent(r) PROVE NoForgottenDecision'
  <2>1. ASSUME NEW x \in Approval, RequestApproval(r, x) PROVE NoForgottenDecision'
    BY <2>1 DEF RequestApproval, NoForgottenDecision, InHand, Decision, Inv, TypeOK, row, bounds
  <2>2. ASSUME NEW c \in Call, Render(r, c) PROVE NoForgottenDecision'
    BY <2>2, HandshakeFrame DEF Render, Inv, TypeOK, row, bounds
  <2>3. ASSUME WaitUntil(r) \/ HoldTask(r) \/ StartTask(r) PROVE NoForgottenDecision'
    BY <2>3, HandshakeFrame DEF WaitUntil, HoldTask, StartTask, row, bounds
  <2> QED BY <1>10, <2>1, <2>2, <2>3 DEF Agent
<1>11. ASSUME NEW d \in Decider, Decide(d) PROVE NoForgottenDecision'
  <2>1. ASSUME NEW x \in Approval, NEW v \in Decision, DecideRead(d, x, v)
        PROVE  NoForgottenDecision'
    BY <2>1, HandshakeFrame DEF DecideRead, Ask, Person, Inv, TypeOK, row, bounds
  <2> QED BY <1>6, <1>7, <1>11, <2>1 DEF Decide
<1>12. ASSUME NEW p \in Sender, Send(p) PROVE NoForgottenDecision'
  BY <1>12, HandshakeFrame
     DEF Send, SendMessage, AnswerForm, Ask, Person, Inv, TypeOK, row
<1>13. ASSUME NEW p \in Person, QueueRequest(p) \/ RequestDies(p) PROVE NoForgottenDecision'
  BY <1>2, <1>3, <1>13 DEF QueueRequest, RequestDies, Inv, RequestInv
<1>14. CASE UNCHANGED vars
  BY <1>14, HandshakeFrame DEF vars, row, bounds
<1> QED
  BY <1>8, <1>9, <1>10, <1>11, <1>12, <1>13, <1>14 DEF Next

\* Between an approver who decides (write, look for the waiting session, queue)
\* and a turn that ends (settle, look for a decision, queue) no order of their
\* steps loses the decision: unless a process dies in between, one of the two
\* has it in hand (approval._resume_waiting_session, _resume_if_decided).
THEOREM DecisionsAreRemembered == Spec => []NoForgottenDecision
<1>1. Init => ResumeInv /\ NoForgottenDecision
  BY DEF Init, ResumeInv, NoForgottenDecision
<1> QED BY <1>1, SpecInv, ResumeStep, HandshakeStep, PTL DEF Spec

-----------------------------------------------------------------------------
\* Nothing but a turn's settling changes what the row waits on.
LEMMA OnlySettlingWaits ==
  ASSUME [Next]_vars, ~ \E r \in Replica : Settle(r) PROVE UNCHANGED waiting
<1> USE DEF row
<1>1. ASSUME NEW r \in Replica, Run(r) PROVE UNCHANGED waiting
  BY <1>1 DEF Run, Poll, ReadRow, TryLock, NotDue, Begin, SetState, EndTurn, ClearInput,
              FindDecision, Requeue, Queue
<1>2. ASSUME NEW r \in Replica, BeginFails(r) \/ Agent(r) \/ Crash(r) PROVE UNCHANGED waiting
  BY <1>2 DEF BeginFails, SetState, Agent, RequestApproval, Render, WaitUntil, HoldTask,
              StartTask, Crash
<1>3. ASSUME NEW d \in Decider, Decide(d) PROVE UNCHANGED waiting
  BY <1>3 DEF Decide, DecideRead, DecideWrite, DecideScan
<1>4. ASSUME NEW p \in Sender, Send(p) PROVE UNCHANGED waiting
  BY <1>4 DEF Send, SendMessage, AnswerForm
<1>5. ASSUME NEW p \in Person, QueueRequest(p) \/ RequestDies(p) PROVE UNCHANGED waiting
  BY <1>5 DEF QueueRequest, Queue, RequestDies
<1> QED
  BY <1>1, <1>2, <1>3, <1>4, <1>5 DEF Next, vars

OneReplica == \A r, q \in Replica : r = q

\* With nobody else to settle the session, what a turn read of the row's open calls
\* before it took the lock is still what the row waits on.
CopyInv ==
  \A r \in Replica : /\ pc[r] \in {"read", "locked"} => copy[r].waiting = waiting
                     /\ InTurn(r) => turn[r].before = waiting

LEMMA CopyStep == ASSUME OneReplica, Inv, CopyInv, [Next]_vars PROVE CopyInv'
<1> USE DEF Inv, TypeOK, CopyInv, InTurn
<1>1. ASSUME NEW r \in Replica, Leave(r) PROVE CopyInv'
  BY <1>1, LeaveInv DEF OneReplica
<1>2. ASSUME NEW r \in Replica, NEW at \in PC \ {"read", "locked", "agent", "clear", "settle"}, Move(r, at)
      PROVE  CopyInv'
  BY <1>2 DEF Move, OneReplica
<1>3. ASSUME UNCHANGED <<pc, copy, turn, waiting>> PROVE CopyInv'
  BY <1>3
<1>4. ASSUME NEW r \in Replica, Settle(r) PROVE CopyInv'
  BY <1>1, <1>2, <1>4 DEF Settle, PC
<1>5. ASSUME NEW r \in Replica, ReadRow(r) PROVE CopyInv'
  <2>1. copy'[r].waiting = waiting /\ UNCHANGED waiting /\ pc'[r] = "read"
    BY <1>5 DEF ReadRow, Move, row
  <2> QED
    BY <2>1 DEF OneReplica
<1>6. ASSUME NEW r \in Replica, TryLock(r) PROVE CopyInv'
  <2>1. CASE lock = None
    BY <1>6, <2>1 DEF TryLock, Move, row
  <2> QED
    BY <1>1, <1>6, <2>1 DEF TryLock
<1>7. ASSUME NEW r \in Replica, Begin(r) PROVE CopyInv'
  <2>1. turn'[r].before = copy[r].waiting /\ UNCHANGED waiting /\ pc'[r] = "agent" /\ pc[r] = "locked"
    BY <1>7 DEF Begin, SetState, Move
  <2> QED
    BY <2>1 DEF OneReplica
<1>8. ASSUME NEW r \in Replica, NEW c \in Call, Render(r, c) PROVE CopyInv'
  <2>1. turn'[r].before = turn[r].before
    BY <1>8 DEF Render, Turn
  <2> QED
    BY <1>8, <2>1 DEF Render, row, OneReplica
<1>9. ASSUME NEW r \in Replica, NEW failed \in BOOLEAN, EndTurn(r, failed) PROVE CopyInv'
  <2>1. turn'[r].before = turn[r].before
    BY <1>9 DEF EndTurn, Turn
  <2> QED
    BY <1>9, <2>1 DEF EndTurn, Move, row, OneReplica
<1>10. ASSUME NEW r \in Replica, ClearInput(r) PROVE CopyInv'
  BY <1>10 DEF ClearInput, Move
<1>11. ASSUME NEW r \in Replica, Run(r) PROVE CopyInv'
  <2>1. ASSUME Poll(r) PROVE CopyInv'
    BY <1>2, <2>1 DEF Poll, PC
  <2>2. ASSUME NotDue(r) \/ Requeue(r) PROVE CopyInv'
    BY <1>1, <2>2 DEF NotDue, Requeue
  <2>3. ASSUME FindDecision(r) PROVE CopyInv'
    BY <1>1, <1>2, <2>3 DEF FindDecision, PC
  <2> QED
    BY <1>4, <1>5, <1>6, <1>7, <1>9, <1>10, <1>11, <2>1, <2>2, <2>3 DEF Run
<1>12. ASSUME NEW r \in Replica, BeginFails(r) \/ Crash(r) PROVE CopyInv'
  BY <1>1, <1>12 DEF BeginFails, Crash
<1>13. ASSUME NEW r \in Replica, Agent(r) PROVE CopyInv'
  BY <1>3, <1>8, <1>13 DEF Agent, RequestApproval, WaitUntil, HoldTask, StartTask, row
<1>14. ASSUME NEW d \in Decider, Decide(d) PROVE CopyInv'
  BY <1>3, <1>14 DEF Decide, DecideRead, DecideWrite, DecideScan, row
<1>15. ASSUME NEW p \in Sender, Send(p) PROVE CopyInv'
  BY <1>3, <1>15 DEF Send, SendMessage, AnswerForm, row
<1>16. ASSUME NEW p \in Person, QueueRequest(p) \/ RequestDies(p) PROVE CopyInv'
  BY <1>3, <1>16 DEF QueueRequest, Queue, RequestDies, row
<1>17. CASE UNCHANGED vars
  BY <1>3, <1>17 DEF vars, row
<1> QED
  BY <1>11, <1>12, <1>13, <1>14, <1>15, <1>16, <1>17 DEF Next

\* Where one replica runs the session's turns, a call it waits on is closed only by the
\* turn that was given its answer or, for a form, by a turn that began while it was
\* waited on, whatever crashes (answered_calls, settle_turn).  The copy that run_turn keeps
\* from before the lock makes it false of two.
THEOREM CallsAreClosedInTurn == ASSUME OneReplica PROVE Spec => CallClosedByItsTurn
<1>1. Init => CopyInv
  BY DEF Init, CopyInv, InTurn
<1>2. Inv /\ CopyInv /\ [Next]_vars => CopyInv'
  BY CopyStep
<1>3. Inv /\ CopyInv /\ [Next]_vars =>
        [\A x \in waiting \ waiting' :
           \E r \in Replica : pc[r] = "settle" /\ x \in Answered(turn[r])]_waiting
  <2> SUFFICES ASSUME Inv, CopyInv, [Next]_vars, waiting' # waiting, NEW x \in waiting \ waiting'
               PROVE  \E r \in Replica : pc[r] = "settle" /\ x \in Answered(turn[r])
    OBVIOUS
  <2>1. PICK r \in Replica : Settle(r)
    BY OnlySettlingWaits
  <2>2. pc[r] = "settle" /\ waiting' = StillWaiting(turn[r]) /\ turn[r].before = waiting
    BY <2>1 DEF Settle, SetState, CopyInv, InTurn
  <2> QED
    BY <2>2 DEF StillWaiting
<1> QED
  BY <1>1, <1>2, <1>3, SpecInv, PTL DEF Spec, CallClosedByItsTurn

=============================================================================
