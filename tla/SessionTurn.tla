----------------------------- MODULE SessionTurn -----------------------------
(***************************************************************************)
(* One ADK session and everybody who moves it: the replicas whose session  *)
(* runners perform its turns (services/session_runner.py, settled by       *)
(* services/session_settle.py), the approvers deciding what it waits on    *)
(* (services/approval.py), and the participants writing to it              *)
(* (WorkflowExecutionService.send_input).  They share the session's row    *)
(* and the approvals; a turn also holds the session's run lock.            *)
(*                                                                         *)
(* Each action is one database transaction, or the tool call that makes    *)
(* it.  Abstracted: what a turn says, which tasks it works (RunScheduling) *)
(* except one that asks the run's initiator, and consultations.  A call is *)
(* rendered once, so an approval stands for the call that shows it.        *)
(***************************************************************************)
EXTENDS Naturals, FiniteSets

CONSTANTS
  Replica,      \* processes whose dispatcher runs due sessions
  Decider,      \* approvers
  Sender,       \* participants writing in the chat
  Approval,     \* approvals the session's agent may request
  Form,         \* forms it may render
  None,         \* nobody holds the lock
  MaxMessages,  \* bound: inputs people send
  MaxCrashes,   \* bound: replicas or requests that die
  MaxWaits      \* bound: calls of wait_until

ASSUME PartyAssumption ==
  /\ None \notin Replica
  /\ Approval \cap Form = {}
  /\ MaxMessages \in Nat /\ MaxCrashes \in Nat /\ MaxWaits \in Nat

Call == Approval \cup Form
Decision == {"approved", "rejected"}

\* "message" is one the run's initiator typed, "remark" any other: the kickoff, a
\* note of assigned work, another participant's message.
Talk == [kind : {"message", "remark", "recovery", "scheduled"}]
Answer == [kind : {"tool_result"}, call : Call, content : Decision \cup {"form"}]
Input == Talk \cup Answer
Say(k) == [kind |-> k]
Reply(x, v) == [kind |-> "tool_result", call |-> x, content |-> v]
NoInput == [kind |-> "nothing"]

Status == {"idle", "queued", "running", "waiting_for_approval", "waiting_for_input",
           "waiting_for_initiator", "scheduled", "error"}
Busy == {"queued", "running"}

VARIABLES
  status, waiting, input, resume, held,
    \* the row: status, waiting_on, pending_input, and whether resume_at and
    \* initiator_task_id are set
  approval,   \* approval[x]: "none" until requested, "pending", or decided
  shown,      \* calls rendered so far
  task,       \* the session's task that asks the initiator: "pending", or
              \* "attended"/"unattended" once started, by the turn's input
  lock,       \* the replica holding the session's run lock
  pc,         \* pc[r]: where replica r is in run_turn
  copy,       \* copy[r]: the row as r's database session loaded it
  turn,       \* turn[r]: the turn r is running
  job,        \* job[p]: the request of approver or sender p
  sent, crashes, waits

row == <<status, waiting, input, resume, held>>
bounds == <<sent, crashes, waits>>
vars == <<row, approval, shown, task, lock, pc, copy, turn, job, bounds>>

Person == Decider \cup Sender

PC == {"off", "due", "read", "locked", "agent", "clear", "settle", "resume", "requeue"}
Copy == [status : Status, waiting : SUBSET Call, input : Input \cup {NoInput}]
Turn == [input : Input \cup {NoInput}, before : SUBSET Call, opened : SUBSET Call,
         failed : BOOLEAN]
Job == [at : {"off", "write", "scan", "queue"}, input : Input \cup {NoInput}]
NoCopy == [status |-> "idle", waiting |-> {}, input |-> NoInput]
NoTurn == [input |-> NoInput, before |-> {}, opened |-> {}, failed |-> FALSE]
NoJob == [at |-> "off", input |-> NoInput]

\* The run's kickoff is queued and nothing else has happened.
Init ==
  /\ status = "queued" /\ waiting = {} /\ input = Say("remark")
  /\ resume = FALSE /\ held = FALSE
  /\ approval = [x \in Approval |-> "none"]
  /\ shown = {} /\ task = "pending"
  /\ lock = None
  /\ pc = [r \in Replica |-> "off"]
  /\ copy = [r \in Replica |-> NoCopy]
  /\ turn = [r \in Replica |-> NoTurn]
  /\ job = [p \in Person |-> NoJob]
  /\ sent = 0 /\ crashes = 0 /\ waits = 0

-----------------------------------------------------------------------------
(* The row's two writers. *)

\* Mutant: queue_input without its condition on the status.
QueueAlways(i) ==
  /\ status' = "queued" /\ input' = i
  /\ resume' = FALSE /\ held' = FALSE
  /\ UNCHANGED waiting

\* queue_input: refused while the session is queued or running.
Queue(i) ==
  IF status \in Busy
  THEN UNCHANGED row
  ELSE /\ status' = "queued" /\ input' = i
       /\ resume' = FALSE /\ held' = FALSE
       /\ UNCHANGED waiting

\* set_state: only a scheduled session keeps resume_at, and only one waiting for
\* its initiator keeps the task it holds.
SetState(s, w, i) ==
  /\ status' = s /\ waiting' = w /\ input' = i
  /\ resume' = (resume /\ s = "scheduled")
  /\ held' = (held /\ s = "waiting_for_initiator")

-----------------------------------------------------------------------------
(* run_turn: find the session due, load its row, take the lock, begin. *)

Move(r, label) == pc' = [pc EXCEPT ![r] = label]

\* Replica r is done with the session, and holds nothing of it any more.
Leave(r) ==
  /\ Move(r, "off")
  /\ lock' = IF lock = r THEN None ELSE lock
  /\ copy' = [copy EXCEPT ![r] = NoCopy]
  /\ turn' = [turn EXCEPT ![r] = NoTurn]

\* Mutant: a running session is never due, so nobody recovers it.
PollQueued(r) ==
  /\ pc[r] = "off"
  /\ status \in {"queued", "scheduled"}
  /\ Move(r, "due")
  /\ UNCHANGED <<row, approval, shown, task, lock, copy, turn, job, bounds>>

\* due_sessions; a session r already has in flight is skipped.  The time a
\* scheduled session waits for may come at any moment.
Poll(r) ==
  /\ pc[r] = "off"
  /\ status \in Busy \cup {"scheduled"}
  /\ Move(r, "due")
  /\ UNCHANGED <<row, approval, shown, task, lock, copy, turn, job, bounds>>

\* The row is loaded into the turn's database session before the lock is taken.
ReadRow(r) ==
  /\ pc[r] = "due"
  /\ copy' = [copy EXCEPT ![r] = [status |-> status, waiting |-> waiting, input |-> input]]
  /\ Move(r, "read")
  /\ UNCHANGED <<row, approval, shown, task, lock, turn, job, bounds>>

\* Mutant: the run lock is shared.
TryLockShared(r) ==
  /\ pc[r] = "read"
  /\ lock' = r /\ Move(r, "locked") /\ UNCHANGED <<copy, turn>>
  /\ UNCHANGED <<row, approval, shown, task, job, bounds>>

\* advisory_lock(wait_seconds=0): somebody else's turn is left alone.
TryLock(r) ==
  /\ pc[r] = "read"
  /\ IF lock = None THEN lock' = r /\ Move(r, "locked") /\ UNCHANGED <<copy, turn>>
                    ELSE Leave(r)
  /\ UNCHANGED <<row, approval, shown, task, job, bounds>>

\* The re-read under the lock selects the row into the same database session,
\* which already holds it and keeps the attributes it loaded: it sees the copy.
StillDue(r) == copy[r].status \in Busy \cup {"scheduled"}

\* _input_of.
InputOf(c) ==
  IF c.status = "scheduled" THEN Say("scheduled")
  ELSE IF c.status = "queued" /\ c.input # NoInput THEN c.input
  ELSE Say("recovery")

NotDue(r) ==
  /\ pc[r] = "locked"
  /\ ~ StillDue(r)
  /\ Leave(r)
  /\ UNCHANGED <<row, approval, shown, task, job, bounds>>

Begin(r) ==
  /\ pc[r] = "locked"
  /\ StillDue(r)
  /\ SetState("running", waiting, input)
  /\ turn' = [turn EXCEPT ![r] = [input |-> InputOf(copy[r]), before |-> copy[r].waiting,
                                  opened |-> {}, failed |-> FALSE]]
  /\ Move(r, "agent")
  /\ UNCHANGED <<approval, shown, task, lock, copy, job, bounds>>

\* The run's agent cannot be resolved.
BeginFails(r) ==
  /\ pc[r] = "locked"
  /\ StillDue(r)
  /\ SetState("error", waiting, NoInput)
  /\ Leave(r)
  /\ UNCHANGED <<approval, shown, task, job, bounds>>

-----------------------------------------------------------------------------
(* The turn's agent and its tools. *)

\* request_approval
RequestApproval(r, x) ==
  /\ pc[r] = "agent"
  /\ approval[x] = "none"
  /\ approval' = [approval EXCEPT ![x] = "pending"]
  /\ UNCHANGED <<row, shown, task, lock, pc, copy, turn, job, bounds>>

\* render_approval and render_a2ui: calls only the browser answers, so the
\* turn leaves them open.
Render(r, c) ==
  /\ pc[r] = "agent"
  /\ c \notin shown
  /\ c \in Approval => approval[c] # "none"
  /\ shown' = shown \cup {c}
  /\ turn' = [turn EXCEPT ![r].opened = @ \cup {c}]
  /\ UNCHANGED <<row, approval, task, lock, pc, copy, job, bounds>>

WaitUntil(r) ==
  /\ pc[r] = "agent" /\ waits < MaxWaits
  /\ resume' = TRUE
  /\ waits' = waits + 1
  /\ UNCHANGED <<status, waiting, input, held, approval, shown, task, lock, pc, copy,
                 turn, job, sent, crashes>>

\* Starting a task that asks the initiator: it is held back unless the row's
\* pending input is a message of theirs (_hold_for_initiator).
HoldTask(r) ==
  /\ pc[r] = "agent" /\ task = "pending"
  /\ input.kind # "message"
  /\ held' = TRUE
  /\ UNCHANGED <<status, waiting, input, resume, approval, shown, task, lock, pc, copy,
                 turn, job, bounds>>

StartTask(r) ==
  /\ pc[r] = "agent" /\ task = "pending"
  /\ input.kind = "message"
  /\ task' = IF turn[r].input.kind = "message" THEN "attended" ELSE "unattended"
  /\ UNCHANGED <<row, approval, shown, lock, pc, copy, turn, job, bounds>>

EndTurn(r, failed) ==
  /\ pc[r] = "agent"
  /\ turn' = [turn EXCEPT ![r].failed = failed]
  /\ Move(r, "clear")
  /\ UNCHANGED <<row, approval, shown, task, lock, copy, job, bounds>>

-----------------------------------------------------------------------------
(* After the agent: clear the input, settle the row, deliver what was decided. *)

\* mark_run(run_id=None, clear_input=True)
ClearInput(r) ==
  /\ pc[r] = "clear"
  /\ input' = NoInput
  /\ Move(r, "settle")
  /\ UNCHANGED <<status, waiting, resume, held, approval, shown, task, lock, copy, turn,
                 job, bounds>>

\* answered_calls: the answered call, and every form the turn left behind.
Answered(t) ==
  (t.before \cap Form) \cup (IF t.input.kind = "tool_result" THEN {t.input.call} ELSE {})

\* Mutant: only the calls of the turn itself are waited on.
StillWaitingNew(t) == t.opened

StillWaiting(t) == (t.before \ Answered(t)) \cup t.opened

\* Mutant: a failed turn is recorded under a status of its own.
SettledStatusFailed(t) == IF t.failed THEN "failed" ELSE "idle"

SettledStatus(t) ==
  IF t.failed THEN "error"
  ELSE IF StillWaiting(t) \cap Approval # {} THEN "waiting_for_approval"
  ELSE IF StillWaiting(t) # {} THEN "waiting_for_input"
  ELSE IF held THEN "waiting_for_initiator"
  ELSE IF resume THEN "scheduled"
  ELSE "idle"

\* Mutant: the turn does not look for a decision made while it ran.
SettleForgetful(r) ==
  LET t == turn[r] IN
  /\ pc[r] = "settle"
  /\ SetState(SettledStatus(t), StillWaiting(t), NoInput)
  /\ Leave(r)
  /\ UNCHANGED <<approval, shown, task, job, bounds>>

\* settle_turn.  While the session is running nobody else writes its row, so its
\* read and its write are one step.
Settle(r) ==
  LET t == turn[r] IN
  /\ pc[r] = "settle"
  /\ SetState(SettledStatus(t), StillWaiting(t), NoInput)
  /\ IF SettledStatus(t) = "waiting_for_approval"
     THEN /\ Move(r, "resume")
          /\ turn' = [turn EXCEPT ![r] = [NoTurn EXCEPT !.before = StillWaiting(t)]]
          /\ UNCHANGED <<lock, copy>>
     ELSE Leave(r)
  /\ UNCHANGED <<approval, shown, task, job, bounds>>

\* _resume_if_decided reads the approvals waited on, one of which may be decided.
FindDecision(r) ==
  LET decided == {x \in turn[r].before \cap Approval : approval[x] \in Decision} IN
  /\ pc[r] = "resume"
  /\ IF decided = {}
     THEN Leave(r)
     ELSE /\ \E x \in decided :
               turn' = [turn EXCEPT ![r] = [NoTurn EXCEPT !.input = Reply(x, approval[x])]]
          /\ Move(r, "requeue")
          /\ UNCHANGED <<lock, copy>>
  /\ UNCHANGED <<row, approval, shown, task, job, bounds>>

Requeue(r) ==
  /\ pc[r] = "requeue"
  /\ Queue(turn[r].input)
  /\ Leave(r)
  /\ UNCHANGED <<approval, shown, task, job, bounds>>

-----------------------------------------------------------------------------
(* People's requests. *)

Ask(p, at, i) == job' = [job EXCEPT ![p] = [at |-> at, input |-> i]]
Done(p) == job' = [job EXCEPT ![p] = NoJob]

\* ApprovalService.resolve reads the approval and refuses to change a decision.
DecideRead(d, x, v) ==
  /\ job[d].at = "off"
  /\ approval[x] \in {"pending", v}
  /\ Ask(d, "write", Reply(x, v))
  /\ UNCHANGED <<row, approval, shown, task, lock, pc, copy, turn, bounds>>

DecideWrite(d) ==
  /\ job[d].at = "write"
  /\ approval' = [approval EXCEPT ![job[d].input.call] = job[d].input.content]
  /\ Ask(d, "scan", job[d].input)
  /\ UNCHANGED <<row, shown, task, lock, pc, copy, turn, bounds>>

\* Mutant: deciding does not resume the session.
DecideScanSilent(d) ==
  /\ job[d].at = "scan"
  /\ Done(d)
  /\ UNCHANGED <<row, approval, shown, task, lock, pc, copy, turn, bounds>>

\* _resume_waiting_session looks for a session paused on this approval.
DecideScan(d) ==
  /\ job[d].at = "scan"
  /\ IF status = "waiting_for_approval" /\ job[d].input.call \in waiting
     THEN Ask(d, "queue", job[d].input)
     ELSE Done(d)
  /\ UNCHANGED <<row, approval, shown, task, lock, pc, copy, turn, bounds>>

\* send_input checks the row it read: a message is refused on a session that
\* waits on an approval, an answer to a form it does not wait on.
SendMessage(p, k) ==
  /\ job[p].at = "off" /\ sent < MaxMessages
  /\ status # "waiting_for_approval"
  /\ Ask(p, "queue", Say(k))
  /\ sent' = sent + 1
  /\ UNCHANGED <<row, approval, shown, task, lock, pc, copy, turn, crashes, waits>>

AnswerForm(p, f) ==
  /\ job[p].at = "off" /\ sent < MaxMessages
  /\ f \in waiting
  /\ Ask(p, "queue", Reply(f, "form"))
  /\ sent' = sent + 1
  /\ UNCHANGED <<row, approval, shown, task, lock, pc, copy, turn, crashes, waits>>

\* Both kinds of request end in queue_input.
QueueRequest(p) ==
  /\ job[p].at = "queue"
  /\ Queue(job[p].input)
  /\ Done(p)
  /\ UNCHANGED <<approval, shown, task, lock, pc, copy, turn, bounds>>

-----------------------------------------------------------------------------
\* A replica dies: its lock is released with its database connection.
Crash(r) ==
  /\ crashes < MaxCrashes /\ pc[r] # "off"
  /\ crashes' = crashes + 1
  /\ Leave(r)
  /\ UNCHANGED <<row, approval, shown, task, job, sent, waits>>

\* The replica serving a person's request dies.
RequestDies(p) ==
  /\ crashes < MaxCrashes /\ job[p].at # "off"
  /\ crashes' = crashes + 1
  /\ Done(p)
  /\ UNCHANGED <<row, approval, shown, task, lock, pc, copy, turn, sent, waits>>

-----------------------------------------------------------------------------
Agent(r) ==
  \/ \E x \in Approval : RequestApproval(r, x)
  \/ \E c \in Call : Render(r, c)
  \/ WaitUntil(r) \/ HoldTask(r) \/ StartTask(r)

Run(r) ==
  \/ Poll(r) \/ ReadRow(r) \/ TryLock(r) \/ NotDue(r) \/ Begin(r)
  \/ (\E failed \in BOOLEAN : EndTurn(r, failed))
  \/ ClearInput(r) \/ Settle(r) \/ FindDecision(r) \/ Requeue(r)

Decide(d) ==
  \/ \E x \in Approval, v \in Decision : DecideRead(d, x, v)
  \/ DecideWrite(d) \/ DecideScan(d)

Send(p) ==
  \/ \E k \in {"message", "remark"} : SendMessage(p, k)
  \/ \E f \in Form : AnswerForm(p, f)

Next ==
  \/ \E r \in Replica : Run(r) \/ BeginFails(r) \/ Agent(r) \/ Crash(r)
  \/ \E d \in Decider : Decide(d)
  \/ \E p \in Sender : Send(p)
  \/ \E p \in Person : QueueRequest(p) \/ RequestDies(p)

Spec == Init /\ [][Next]_vars

\* Replicas keep polling, the database answers, every turn ends, and a request
\* that was begun is carried out.  Nobody has to decide, or to write.
Fairness ==
  /\ \A r \in Replica : WF_vars(Run(r))
  /\ \A p \in Person : WF_vars(QueueRequest(p))
  /\ \A d \in Decider : WF_vars(DecideWrite(d) \/ DecideScan(d))

FairSpec == Spec /\ Fairness

-----------------------------------------------------------------------------
(* Properties. *)

TypeOK ==
  /\ status \in Status /\ waiting \subseteq Call /\ input \in Input \cup {NoInput}
  /\ resume \in BOOLEAN /\ held \in BOOLEAN
  /\ approval \in [Approval -> {"none", "pending"} \cup Decision]
  /\ shown \subseteq Call
  /\ task \in {"pending", "attended", "unattended"}
  /\ lock \in Replica \cup {None}
  /\ pc \in [Replica -> PC]
  /\ copy \in [Replica -> Copy]
  /\ turn \in [Replica -> Turn]
  /\ job \in [Person -> Job]
  /\ sent \in Nat /\ crashes \in Nat /\ waits \in Nat

\* Between taking the lock and releasing it.
Holds(r) == pc[r] \in {"locked", "agent", "clear", "settle", "resume", "requeue"}

\* One driver: the session's turns never overlap, on whatever replicas they run,
\* and the row says "running" for as long as its turn does.
OneDriver ==
  /\ \A r, q \in Replica : Holds(r) /\ Holds(q) => r = q
  /\ \A r \in Replica : pc[r] \in {"agent", "clear", "settle"} => status = "running"

\* The row is one slot of input, whoever races for it.
Mode == IF status \in Busy THEN status ELSE "resting"

Mailbox == INSTANCE SessionMailbox WITH mode <- Mode, slot <- input
MailboxSpec == Mailbox!Spec

\* Somebody is about to look for, or to queue, the decision of x.
InHand(x) ==
  \/ \E d \in Decider : job[d].at \in {"scan", "queue"} /\ job[d].input.call = x
  \/ \E r \in Replica : pc[r] = "resume"
                       \/ (pc[r] = "requeue" /\ turn[r].input.call = x)

\* The handshake between an approver deciding and a turn ending: as long as no
\* process died, a session never rests on a decided approval with nobody about
\* to queue a decision on it.
NoForgottenDecision ==
  \A x \in Approval :
    status = "waiting_for_approval" /\ x \in waiting /\ approval[x] \in Decision
      => crashes > 0 \/ \E y \in waiting \cap Approval : InHand(y)

\* Every input accepted gets its turn, and every turn ends, crashes included.
BusyEnds == status \in Busy ~> status \notin Busy

\* A decision reaches the session that waits on it.
DecisionDelivered ==
  \A x \in Approval :
    (status = "waiting_for_approval" /\ x \in waiting /\ approval[x] \in Decision)
      ~> (x \notin waiting \/ status = "error" \/ crashes > 0)

\* A call the session waits on is closed only by the turn that was given its
\* answer, or, for a form, by any turn that began while it was waited on.
CallClosedByItsTurn ==
  [][\A x \in waiting \ waiting' :
       \E r \in Replica : pc[r] = "settle" /\ x \in Answered(turn[r])]_waiting

\* A decision is final (ApprovalService.resolve).
DecisionIsFinal ==
  [][\A x \in Approval : approval[x] \in Decision => approval'[x] = approval[x]]_approval

\* A task that asks the initiator starts only on a turn the initiator drove.
TaskIsAttended == task # "unattended"

=============================================================================
