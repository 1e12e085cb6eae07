---------------------------- MODULE RunScheduling ----------------------------
(***************************************************************************)
(* How a run's tasks are handed to its ADK sessions and worked to the end. *)
(*                                                                         *)
(* Several actors write the same run concurrently, each step below being   *)
(* one database transaction: the turns of the run's sessions (the agent's  *)
(* update_workflow_task tool while a turn runs, settle_turn when it ends), *)
(* the request that created the run, and people editing tasks over REST.   *)
(* Every task write is followed by evaluate_completion, which finishes the *)
(* run or schedules newly runnable tasks, from what it read at its start.  *)
(*                                                                         *)
(* Abstracted: one runner per session (its lock, and the input handshake,  *)
(* are SessionTurn's subject), the waiting_* and scheduled statuses (one   *)
(* "paused"), approvals, and who may change a task (governed statuses).    *)
(***************************************************************************)
EXTENDS Placement

CONSTANTS
  Starter,      \* the request that created the run, assigning its root tasks
  People,       \* callers of the REST task endpoint
  AgentMoves,   \* <<from, to>> status changes the agents make
  PersonMoves,  \* <<from, to>> status changes people make
  TurnEnds,     \* how a turn may end: subset of {"ok", "paused", "failed"}
  Diligent,     \* agents end a turn only after a listing that shows them no work
  Obedient,     \* agents only touch tasks a listing marks assigned_to_you
  MaxMessages,  \* bound: messages people send to resting sessions
  MaxCrashes    \* bound: actors whose process dies

Actor == Session \cup {Starter} \cup People

ASSUME ActorAssumption ==
  /\ Starter \notin Session /\ None \notin {Starter} \cup People
  /\ People \cap (Session \cup {Starter}) = {}
  /\ AgentMoves \subseteq TaskStatus \X TaskStatus
  /\ PersonMoves \subseteq TaskStatus \X TaskStatus
  /\ TurnEnds \subseteq {"ok", "paused", "failed"}
  /\ Diligent \in BOOLEAN /\ Obedient \in BOOLEAN
  /\ MaxMessages \in Nat /\ MaxCrashes \in Nat

VARIABLES
  status,   \* status[t] of every task
  owner,    \* owner[t]: its session_id, or None
  sess,     \* sess[s]: status of every session row
  kind,     \* kind[s]: kind of the input queued on s or run by its turn
  looked,   \* looked[s]: the agent listed its tasks since it last wrote one
  view,     \* view[s]: the unfinished tasks that listing showed as its own
  fresh,    \* fresh[s]: tasks written since s's turn started (updated_at)
  pc,       \* pc[a]: the next transaction of actor a
  job,      \* job[a]: the operation a is in the middle of
  snap,     \* snap[a]: the tasks as a last read them
  plan,     \* plan[a]: a's pass of the scheduler
  outcome,  \* the run's terminal status, "none" while finished_at is null
  stamps,   \* how many times finished_at was written
  notices,  \* how many execution_completed notifications exist
  sent, crashes

turnVars == <<looked, view, fresh>>
runVars == <<outcome, stamps, notices>>
boundVars == <<sent, crashes>>
vars == <<status, owner, sess, kind, turnVars, pc, job, snap, plan, runVars, boundVars>>

-----------------------------------------------------------------------------
PC == {"off", "agent", "claim", "write", "evaluate", "skip", "reread",
       "finish", "stamp", "notice", "notify", "sessions", "assign", "forkclaim",
       "forkqueue", "forkdelete", "wake", "settle", "record", "nudge"}

Kinds == {"none", "message", "assigned", "recovery"}

Job == [task : Task \cup {None}, new : TaskStatus \cup {"ok", "paused", "failed", "none"},
        target : Session \cup {None}, ret : {"agent", "off"}]
NoJob == [task |-> None, new |-> "none", target |-> None, ret |-> "off"]

Snap == [status : [Task -> TaskStatus], owner : [Task -> Session \cup {None}],
         over : BOOLEAN]
NoSnap == [status |-> [t \in Task |-> "pending"], owner |-> [t \in Task |-> None],
           over |-> FALSE]

Plan == [seen : [Session -> SessionStatus], busy : SUBSET Session, alive : Nat,
         todo : SUBSET Task, claimed : SUBSET Session]
NoPlan == [seen |-> [s \in Session |-> "absent"], busy |-> {}, alive |-> 0,
           todo |-> {}, claimed |-> {}]

\* execute() has created the tasks, queued the kickoff, and is about to assign
\* the root tasks from the task list it just read.
Init ==
  /\ status = [t \in Task |-> "pending"]
  /\ owner = [t \in Task |-> None]
  /\ sess = [s \in Session |-> IF s = Main THEN "queued" ELSE "absent"]
  /\ kind = [s \in Session |-> IF s = Main THEN "message" ELSE "none"]
  /\ looked = [s \in Session |-> FALSE]
  /\ view = [s \in Session |-> {}]
  /\ fresh = [s \in Session |-> {}]
  /\ pc = [a \in Actor |-> IF a = Starter THEN "sessions" ELSE "off"]
  /\ job = [a \in Actor |-> NoJob]
  /\ snap = [a \in Actor |-> NoSnap]
  /\ plan = [a \in Actor |-> NoPlan]
  /\ outcome = "none" /\ stamps = 0 /\ notices = 0
  /\ sent = 0 /\ crashes = 0

-----------------------------------------------------------------------------
(* Pieces the transactions share. *)

Goto(a, label) == pc' = [pc EXCEPT ![a] = label]

\* The operation of actor a is over: control returns to the agent or to nobody.
Return(a) ==
  /\ Goto(a, job[a].ret)
  /\ job' = [job EXCEPT ![a] = NoJob]
  /\ snap' = [snap EXCEPT ![a] = NoSnap]
  /\ plan' = [plan EXCEPT ![a] = NoPlan]

\* Writing task t moves its updated_at past the start of every turn under way.
Touch(t) ==
  fresh' = [s \in Session |->
              IF pc[s] = "off" \/ sess[s] # "running" THEN {} ELSE fresh[s] \cup {t}]

SetStatus(t, new) == status' = [status EXCEPT ![t] = new] /\ Touch(t)

\* Mutant: claim() writes without the condition on the recorded session.
ClaimsBlindly(t, s) == owner' = [owner EXCEPT ![t] = s] /\ Touch(t)

\* claim(): a compare-and-set on "session_id IS NULL".
Claims(t, s) ==
  IF owner[t] = None THEN owner' = [owner EXCEPT ![t] = s] /\ Touch(t)
                     ELSE UNCHANGED <<owner, fresh>>

\* queue_input(): a compare-and-set, refused while the session is queued or
\* running, and on a row that is gone.
QueueInput(s, input) ==
  IF sess[s] \in {"queued", "running", "absent"}
  THEN UNCHANGED <<sess, kind>>
  ELSE /\ sess' = [sess EXCEPT ![s] = "queued"]
       /\ kind' = [kind EXCEPT ![s] = input]

ReadTasks(a) ==
  snap' = [snap EXCEPT ![a] = [status |-> status, owner |-> owner,
                               over |-> outcome # "none"]]

\* Mutant: a task that is under way does not hold the run open.
AfterSkipsPendingOnly ==
  IF \E t \in Task : status[t] = "pending" THEN "sessions" ELSE "finish"

\* evaluate_completion once nothing is left to skip: schedule, or finish.
AfterSkips == IF \E t \in Task : status[t] \in Unfinished THEN "sessions" ELSE "finish"

-----------------------------------------------------------------------------
(* A session's turn: SessionRunner.run_turn up to the agent, the agent, its *)
(* task tools.                                                              *)

\* A due session: queued, or running with its lock free (the process died).
TurnStart(s) ==
  /\ pc[s] = "off"
  /\ sess[s] \in {"queued", "running"}
  /\ kind' = [kind EXCEPT ![s] = IF sess[s] = "running" THEN "recovery" ELSE @]
  /\ sess' = [sess EXCEPT ![s] = "running"]
  /\ fresh' = [fresh EXCEPT ![s] = {}]
  /\ Goto(s, "agent")
  /\ UNCHANGED <<status, owner, looked, view, job, snap, plan, runVars, boundVars>>

\* list_workflow_tasks.
AgentList(s) ==
  /\ pc[s] = "agent"
  /\ looked' = [looked EXCEPT ![s] = TRUE]
  /\ view' = [view EXCEPT ![s] = {t \in Task : owner[t] = s /\ status[t] \in Unfinished}]
  /\ UNCHANGED <<status, owner, sess, kind, fresh, pc, job, snap, plan, runVars, boundVars>>

\* The session owns the task, or nobody does.
MayTouch(s, t) == owner[t] \in {None, s}

\* update_workflow_task up to its first write.  A refused call changes nothing
\* and is left out.  Starting an unowned task claims it first.
AgentUpdate(s, t, new) ==
  /\ pc[s] = "agent"
  /\ <<status[t], new>> \in AgentMoves
  /\ Obedient => looked[s] /\ t \in view[s]
  /\ MayTouch(s, t)
  /\ new = "in_progress" => DepsCompleted(status, t)
  /\ job' = [job EXCEPT ![s] = [task |-> t, new |-> new, target |-> None, ret |-> "agent"]]
  /\ Goto(s, IF new = "in_progress" /\ owner[t] = None THEN "claim" ELSE "write")
  /\ looked' = [looked EXCEPT ![s] = FALSE]
  /\ view' = [view EXCEPT ![s] = {}]
  /\ UNCHANGED <<status, owner, sess, kind, fresh, snap, plan, runVars, boundVars>>

\* Claimed elsewhere meanwhile, the call is refused.  It may be refused after a
\* claim that won, too: by the task's approval, or to wait for the initiator.
AgentClaim(s) ==
  /\ pc[s] = "claim"
  /\ Claims(job[s].task, s)
  /\ \/ Return(s)
     \/ owner[job[s].task] = None /\ Goto(s, "write") /\ UNCHANGED <<job, snap, plan>>
  /\ UNCHANGED <<status, sess, kind, looked, view, runVars, boundVars>>

\* A person's PATCH of a task: no session or dependency check.
PersonUpdate(p, t, new) ==
  /\ pc[p] = "off"
  /\ <<status[t], new>> \in PersonMoves
  /\ job' = [job EXCEPT ![p] = [task |-> t, new |-> new, target |-> None, ret |-> "off"]]
  /\ Goto(p, "write")
  /\ UNCHANGED <<status, owner, sess, kind, turnVars, snap, plan, runVars, boundVars>>

\* The unconditional status write of either path.
WriteTask(a) ==
  /\ pc[a] = "write"
  /\ SetStatus(job[a].task, job[a].new)
  /\ Goto(a, "evaluate")
  /\ UNCHANGED <<owner, sess, kind, looked, view, job, snap, plan, runVars, boundVars>>

-----------------------------------------------------------------------------
(* evaluate_completion. *)

EvaluateRead(a) ==
  LET failed  == {t \in Task : status[t] = "failed"}
      blocked == {t \in Blocked(failed) : status[t] = "pending"}
  IN  /\ pc[a] = "evaluate"
      /\ ReadTasks(a)
      /\ plan' = [plan EXCEPT ![a].todo = blocked]
      /\ Goto(a, IF blocked # {} THEN "skip" ELSE AfterSkips)
      /\ UNCHANGED <<status, owner, sess, kind, turnVars, job, runVars, boundVars>>

\* One write per blocked dependent, in no particular order.
SkipOne(a) ==
  /\ pc[a] = "skip"
  /\ \E t \in plan[a].todo :
       /\ SetStatus(t, "skipped")
       /\ plan' = [plan EXCEPT ![a].todo = @ \ {t}]
       /\ Goto(a, IF plan[a].todo = {t} THEN "reread" ELSE "skip")
  /\ UNCHANGED <<owner, sess, kind, looked, view, job, snap, runVars, boundVars>>

\* Mutant: after a skip the run is scheduled, and its end not looked for.
EvaluateRereadOpen(a) ==
  /\ pc[a] = "reread"
  /\ ReadTasks(a)
  /\ Goto(a, "sessions")
  /\ UNCHANGED <<status, owner, sess, kind, turnVars, job, plan, runVars, boundVars>>

EvaluateReread(a) ==
  /\ pc[a] = "reread"
  /\ ReadTasks(a)
  /\ Goto(a, AfterSkips)
  /\ UNCHANGED <<status, owner, sess, kind, turnVars, job, plan, runVars, boundVars>>

\* Mutant: mark_finished writes whether or not finished_at is set.
FinishReadUnchecked(a) ==
  /\ pc[a] = "finish"
  /\ Goto(a, "stamp")
  /\ UNCHANGED <<status, owner, sess, kind, turnVars, job, snap, plan, runVars, boundVars>>

\* mark_finished reads finished_at, then writes.
FinishRead(a) ==
  /\ pc[a] = "finish"
  /\ Goto(a, IF outcome = "none" THEN "stamp" ELSE "notice")
  /\ UNCHANGED <<status, owner, sess, kind, turnVars, job, snap, plan, runVars, boundVars>>

Stamp(a) ==
  /\ pc[a] = "stamp"
  /\ outcome' = IF \E t \in Task : snap[a].status[t] = "failed" THEN "failed" ELSE "completed"
  /\ stamps' = stamps + 1
  /\ Goto(a, "notice")
  /\ UNCHANGED <<status, owner, sess, kind, turnVars, job, snap, plan, notices, boundVars>>

\* exists_for_session, then create.
NoticeRead(a) ==
  /\ pc[a] = "notice"
  /\ IF notices = 0 THEN Goto(a, "notify") /\ UNCHANGED <<job, snap, plan>> ELSE Return(a)
  /\ UNCHANGED <<status, owner, sess, kind, turnVars, runVars, boundVars>>

Notify(a) ==
  /\ pc[a] = "notify"
  /\ notices' = notices + 1
  /\ Return(a)
  /\ UNCHANGED <<status, owner, sess, kind, turnVars, outcome, stamps, boundVars>>

-----------------------------------------------------------------------------
(* assign_runnable_tasks.  The plan is a pure function of the two snapshots, *)
(* so it is drawn up one assignment at a time, as its claims are made.       *)

\* Mutant: an idle session handed work is not woken.
AfterAssignSilent(a) == Return(a)

\* The scheduler's turn is over: wake the idle targets, or return.
AfterAssign(a) ==
  IF plan[a].claimed # {}
  THEN Goto(a, "wake") /\ UNCHANGED <<job, snap, plan>>
  ELSE Return(a)

ReadSessions(a) ==
  /\ pc[a] = "sessions"
  /\ plan' = [plan EXCEPT ![a] =
       [seen    |-> sess,
        busy    |-> BusySessions(snap[a].status, snap[a].owner),
        alive   |-> Cardinality(AliveSessions(sess)),
        todo    |-> Ready(snap[a].status, snap[a].owner, sess),
        claimed |-> {}]]
  /\ Goto(a, "assign")
  /\ UNCHANGED <<status, owner, sess, kind, turnVars, job, snap, runVars, boundVars>>

PlansNext(a, t) == pc[a] = "assign" /\ IsEarliest(plan[a].todo, t)

ForksNext(a, t) ==
  Forks(snap[a].owner, plan[a].seen, plan[a].busy, plan[a].alive, t)

\* create_branch: an idle row nothing runs yet, under a new id.
AssignFork(a, t) ==
  /\ PlansNext(a, t)
  /\ ForksNext(a, t)
  /\ \E b \in Branch :
       /\ sess[b] = "absent" /\ pc[b] = "off"
       /\ sess' = [sess EXCEPT ![b] = "idle"]
       /\ job' = [job EXCEPT ![a].task = t, ![a].target = b]
  /\ plan' = [plan EXCEPT ![a].todo = @ \ {t}, ![a].alive = @ + 1]
  /\ Goto(a, "forkclaim")
  /\ UNCHANGED <<status, owner, kind, turnVars, snap, runVars, boundVars>>

\* Mutant: the branch is queued whether or not its claim won.
ForkClaimUnchecked(a) ==
  /\ pc[a] = "forkclaim"
  /\ Claims(job[a].task, job[a].target)
  /\ Goto(a, "forkqueue")
  /\ UNCHANGED <<status, sess, kind, looked, view, job, snap, plan, runVars, boundVars>>

ForkClaim(a) ==
  /\ pc[a] = "forkclaim"
  /\ Claims(job[a].task, job[a].target)
  /\ Goto(a, IF owner[job[a].task] = None THEN "forkqueue" ELSE "forkdelete")
  /\ UNCHANGED <<status, sess, kind, looked, view, job, snap, plan, runVars, boundVars>>

\* The loser of the claim removes the branch it made.
ForkDelete(a) ==
  /\ pc[a] = "forkdelete"
  /\ sess' = [sess EXCEPT ![job[a].target] = "absent"]
  /\ kind' = [kind EXCEPT ![job[a].target] = "none"]
  /\ Goto(a, "assign")
  /\ UNCHANGED <<status, owner, turnVars, job, snap, plan, runVars, boundVars>>

ForkQueue(a) ==
  /\ pc[a] = "forkqueue"
  /\ QueueInput(job[a].target, "assigned")
  /\ Goto(a, "assign")
  /\ UNCHANGED <<status, owner, turnVars, job, snap, plan, runVars, boundVars>>

AssignExisting(a, t) ==
  LET s == Target(snap[a].owner, plan[a].seen, t)
  IN  /\ PlansNext(a, t)
      /\ ~ ForksNext(a, t)
      /\ Claims(t, s)
      /\ plan' = [plan EXCEPT ![a].todo = @ \ {t}, ![a].busy = @ \cup {s},
                    ![a].claimed = IF owner[t] = None THEN @ \cup {s} ELSE @]
      /\ UNCHANGED <<status, sess, kind, looked, view, pc, job, snap, runVars, boundVars>>

AssignDone(a) ==
  /\ pc[a] = "assign"
  /\ plan[a].todo = {}
  /\ AfterAssign(a)
  /\ UNCHANGED <<status, owner, sess, kind, turnVars, runVars, boundVars>>

\* Only a target that was idle when the sessions were read is queued a note.
WakeOne(a) ==
  /\ pc[a] = "wake"
  /\ \E s \in plan[a].claimed :
       /\ IF plan[a].seen[s] = "idle" THEN QueueInput(s, "assigned")
                                      ELSE UNCHANGED <<sess, kind>>
       /\ IF plan[a].claimed = {s}
          THEN Return(a)
          ELSE /\ plan' = [plan EXCEPT ![a].claimed = @ \ {s}]
               /\ UNCHANGED <<pc, job, snap>>
  /\ UNCHANGED <<status, owner, turnVars, runVars, boundVars>>

-----------------------------------------------------------------------------
(* settle_turn. *)

\* The turn's event stream ends, in a reply, a pause, or an error.
EndTurn(s, end) ==
  /\ pc[s] = "agent"
  /\ end \in TurnEnds
  /\ Diligent /\ end = "ok" => looked[s] /\ view[s] = {}
  /\ job' = [job EXCEPT ![s] = [NoJob EXCEPT !.new = end]]
  /\ Goto(s, "settle")
  /\ UNCHANGED <<status, owner, sess, kind, turnVars, snap, plan, runVars, boundVars>>

\* Tasks assigned or written during the turn that are still pending: "missed".
SettleRead(s) ==
  /\ pc[s] = "settle"
  /\ ReadTasks(s)
  /\ plan' = [plan EXCEPT ![s].todo =
                {t \in fresh[s] : owner[t] = s /\ status[t] = "pending"}]
  /\ Goto(s, "record")
  /\ UNCHANGED <<status, owner, sess, kind, turnVars, job, runVars, boundVars>>

\* Mutant: a task under way does not keep its branch alive.
LeftPending(s) ==
  \E t \in Task : snap[s].owner[t] = s /\ snap[s].status[t] = "pending"

LeftUnfinished(s) ==
  \E t \in Task : snap[s].owner[t] = s /\ snap[s].status[t] \in Unfinished

\* Mutant: a turn that errored or paused is recorded as it ended.
SettledStatusRaw(s) == IF job[s].new = "failed" THEN "error" ELSE job[s].new

\* The row of a branch removed meanwhile is gone, and stays gone.
SettledStatus(s) ==
  IF sess[s] = "absent" THEN "absent"
  ELSE IF job[s].new = "failed" THEN "error"
  ELSE IF job[s].new = "paused" THEN "paused"
  ELSE IF s # Main /\ ~ LeftUnfinished(s) THEN "done"
  ELSE IF s = Main /\ snap[s].over THEN "done"
  ELSE "idle"

Missed(s) == SettledStatus(s) = "idle" /\ kind[s] # "assigned" /\ plan[s].todo # {}

\* A session that missed work, and was not already answering such a note, is
\* sent one.  (Alone, the mutant of FollowUp: no scheduling when a branch ends.)
NudgeOnly(s) ==
  IF Missed(s) THEN Goto(s, "nudge") /\ UNCHANGED <<job, snap, plan>> ELSE Return(s)

\* A branch that finished schedules from the tasks already read.
FollowUp(s) ==
  IF SettledStatus(s) = "done" /\ s # Main
  THEN Goto(s, "sessions") /\ UNCHANGED <<job, snap, plan>>
  ELSE NudgeOnly(s)

SettleRecord(s) ==
  /\ pc[s] = "record"
  /\ sess' = [sess EXCEPT ![s] = SettledStatus(s)]
  /\ looked' = [looked EXCEPT ![s] = FALSE]
  /\ view' = [view EXCEPT ![s] = {}]
  /\ fresh' = [fresh EXCEPT ![s] = {}]
  /\ FollowUp(s)
  /\ kind' = [kind EXCEPT ![s] = "none"]
  /\ UNCHANGED <<status, owner, runVars, boundVars>>

Nudge(s) ==
  /\ pc[s] = "nudge"
  /\ QueueInput(s, "assigned")
  /\ Return(s)
  /\ UNCHANGED <<status, owner, turnVars, runVars, boundVars>>

-----------------------------------------------------------------------------
(* The environment. *)

\* send_input with a chat message; a finished branch takes none.
SendMessage(s) ==
  /\ sent < MaxMessages
  /\ sess[s] \in {"idle", "paused", "error"} \/ (s = Main /\ sess[s] = "done")
  /\ QueueInput(s, "message")
  /\ sent' = sent + 1
  /\ UNCHANGED <<status, owner, turnVars, pc, job, snap, plan, runVars, crashes>>

\* The process running actor a dies; the session's lock is freed with it.
Crash(a) ==
  /\ crashes < MaxCrashes
  /\ pc[a] # "off"
  /\ crashes' = crashes + 1
  /\ Goto(a, "off")
  /\ job' = [job EXCEPT ![a] = NoJob]
  /\ snap' = [snap EXCEPT ![a] = NoSnap]
  /\ plan' = [plan EXCEPT ![a] = NoPlan]
  /\ looked' = [s \in Session |-> IF s = a THEN FALSE ELSE looked[s]]
  /\ view' = [s \in Session |-> IF s = a THEN {} ELSE view[s]]
  /\ fresh' = [s \in Session |-> IF s = a THEN {} ELSE fresh[s]]
  /\ UNCHANGED <<status, owner, sess, kind, runVars, sent>>

-----------------------------------------------------------------------------
Evaluate(a) ==
  \/ WriteTask(a) \/ EvaluateRead(a) \/ SkipOne(a) \/ EvaluateReread(a)
  \/ FinishRead(a) \/ Stamp(a) \/ NoticeRead(a) \/ Notify(a)

Schedule(a) ==
  \/ ReadSessions(a)
  \/ \E t \in Task : AssignFork(a, t) \/ AssignExisting(a, t)
  \/ ForkClaim(a) \/ ForkDelete(a) \/ ForkQueue(a)
  \/ AssignDone(a) \/ WakeOne(a)

Settle(s) == SettleRead(s) \/ SettleRecord(s) \/ Nudge(s)

AgentStep(s) ==
  \/ AgentList(s)
  \/ \E t \in Task, new \in TaskStatus : AgentUpdate(s, t, new)
  \/ AgentClaim(s)
  \/ \E end \in TurnEnds : EndTurn(s, end)

Next ==
  \/ \E a \in Actor : Evaluate(a) \/ Schedule(a) \/ Crash(a)
  \/ \E s \in Session : TurnStart(s) \/ AgentStep(s) \/ Settle(s) \/ SendMessage(s)
  \/ \E p \in People, t \in Task, new \in TaskStatus : PersonUpdate(p, t, new)

Spec == Init /\ [][Next]_vars

-----------------------------------------------------------------------------
(* Properties. *)

TypeOK ==
  /\ status \in [Task -> TaskStatus]
  /\ owner \in [Task -> Session \cup {None}]
  /\ sess \in [Session -> SessionStatus]
  /\ kind \in [Session -> Kinds]
  /\ looked \in [Session -> BOOLEAN]
  /\ view \in [Session -> SUBSET Task]
  /\ fresh \in [Session -> SUBSET Task]
  /\ pc \in [Actor -> PC]
  /\ job \in [Actor -> Job]
  /\ snap \in [Actor -> Snap]
  /\ plan \in [Actor -> Plan]
  /\ outcome \in {"none", "completed", "failed"}
  /\ stamps \in Nat /\ notices \in Nat /\ sent \in Nat /\ crashes \in Nat

\* Of several writers claiming a task exactly one wins and it is never moved
\* (SqlWorkflowTaskRepository.claim): an owner, once recorded, is final.
OwnerIsFinal == [][\A t \in Task : owner[t] # None => owner'[t] = owner[t]]_owner

\* A branch whose claim lost is removed again before anything ran in it: only a
\* branch that owns a task is ever queued or run.
OnlyOwnersRun ==
  \A b \in Branch : sess[b] \notin {"absent", "idle"} => \E t \in Task : owner[t] = b

\* While only agents move tasks, a task is in progress or done only after every
\* dependency completed, whatever the interleaving of checks, claims and skips.
StartedAfterDeps ==
  \A t \in Task : status[t] \in {"in_progress", "completed"} =>
                   \A d \in Deps[t] : status[d] = "completed"

\* Skipping a failed task's dependents never overwrites a task that started.
SkipsOnlyPending ==
  [][\A t \in Task : status'[t] = "skipped" => status[t] \in {"pending", "skipped"}]_status

\* A run is stamped finished only when every task is terminal, and then none
\* is ever unfinished again.
FinishedMeansTerminal == outcome # "none" => \A t \in Task : status[t] \in Terminal

\* The outcome recorded is the tasks' own: failed exactly when a task failed.
OutcomeMatchesTasks ==
  outcome # "none" => (outcome = "failed" <=> \E t \in Task : status[t] = "failed")

\* A run works in at most MaxSessions sessions at once: the main session and
\* the live branches that were handed a task.
WithinSessionLimit ==
  Cardinality({s \in AliveSessions(sess) : s = Main \/ \E t \in Task : owner[t] = s})
    <= MaxSessions

\* The completion notification is one-shot, and the completion time is recorded once.
OneCompletion == stamps <= 1 /\ notices <= 1

\* Nothing is queued, running, or under way, and nobody is being waited for.
Quiescent ==
  /\ \A a \in Actor : pc[a] = "off"
  /\ \A s \in Session : sess[s] \in {"absent", "idle", "done"}

\* At rest, every task that is ready has been assigned: no join is forgotten.
ReadyIsAssigned == Quiescent => Ready(status, owner, sess) = {}

\* At rest, no session sleeps on a task it was handed and could start.
NoSleepingOwner ==
  Quiescent => \A t \in Task :
                 owner[t] # None /\ status[t] = "pending" => sess[owner[t]] = "done"

\* A run that rests is over: with nothing queued, running or under way and nobody
\* waited for, no task is left that could still be worked or ought to be skipped
\* (evaluate_completion, with settle_turn's part in waking and scheduling).
RestIsOver == Quiescent => outcome # "none"

\* A finished branch holds no unfinished task: nobody can wake it any more.
DoneBranchHoldsNothing ==
  \A b \in Branch : sess[b] = "done" /\ pc[b] = "off" =>
    \A t \in Task : owner[t] = b => status[t] \in Terminal

\* What the run shows of itself is what it promises: each assignment, start, end and
\* skip of a task, and the run's end, happens as if at once and on the tasks as they
\* are, though each was decided on what an earlier transaction read.
Outline == INSTANCE RunOutline WITH state <- status, worker <- owner, verdict <- outcome
OutlineSpec == Outline!Spec

-----------------------------------------------------------------------------
(* Unraced executions: no session is handed a task between its agent's last  *)
(* listing and the end of its settling, and no two actors schedule at once.  *)
(* This is what per-run serialization of the two would give; the code has    *)
(* none, and the runs on Spec show what that costs.                          *)

Scheduling(a) == pc[a] \in PC \ {"off", "agent", "claim", "write"}
LeavingTurn(s) == Scheduling(s) \/ (pc[s] = "agent" /\ looked[s] /\ view[s] = {})
Busy(a) == IF a \in Session THEN LeavingTurn(a) ELSE Scheduling(a)

UnracedNext ==
  /\ Next
  /\ \A a, b \in Actor : a # b => ~ (Busy(a)' /\ Busy(b)')

\* What the servers and the agents do without anybody's help.
Progress ==
  \/ \E a \in Actor : Evaluate(a) \/ Schedule(a)
  \/ \E s \in Session : TurnStart(s) \/ AgentStep(s) \/ Settle(s)

\* The runner polls, the database answers, and an agent that has work does it:
\* the run does not stop while one of its steps could be taken.
Fairness == WF_vars(UnracedNext /\ Progress)

UnracedSpec == Init /\ [][UnracedNext]_vars /\ Fairness

\* Every run finishes.
RunFinishes == <>(outcome # "none")

=============================================================================
