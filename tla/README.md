# A2Flow: formal models of workflow runs

A2Flow (Python backend under `src/backend`, Next.js frontend) runs workflows as
conversations of AI agents. A run is a DAG of tasks; its tasks are worked by one
*main* ADK session and by *branch* sessions forked from it; sessions pause for
approvals, forms, times and their initiator; server processes (replicas) take turns
running whatever session is due. All of that is held together by database rows,
compare-and-set updates and advisory locks, and by a number of reads followed by
writes in other transactions. These modules model that part: how a run's tasks reach
its sessions, how a session's turns are run, paused, resumed and recovered, and the
services around a run that live on the same means: certificates, streams, questions,
outgoing mail, published designs and their dependencies, consultations, knowledge bases
and the skill store.

## Inventory

Each part with its state, its operations, and what makes it correct.

| Part | State | Operations | Correct when |
|---|---|---|---|
| Run scheduling (`services/execution_branching.py`, `workflow_execution_completion.py`, `session_settle.py`) | tasks (status, owner), session rows, the run's outcome | plan and make assignments, fork, claim, wake; skip blocked tasks; finish the run; settle a turn, nudge | a task has one owner for ever, starts after its dependencies, is not forgotten; the run finishes once, with the tasks' outcome |
| Session turns (`services/session_runner.py`, `session_queue.py`, `repositories/execution_session.py`, `infrastructure/locks.py`) | the session's row, its run lock, a turn's cached copy of the row | poll, lock, begin, run the agent, clear input, settle, recover | turns never overlap, accepted input is neither replaced nor lost, a busy session comes to rest |
| Approvals (`services/approval.py`, `infrastructure/approval_tools.py`) | approval rows | request, render, decide, resume the waiting session | a decision is final and reaches the session that waits |
| Agent's task tools (`infrastructure/workflow_task_tools.py`) | tasks, the row's `resume_at` and `initiator_task_id` | list, update, wait until, hold for the initiator | only the owner moves a task; a task that asks the initiator starts on their turn |
| People's requests (`services/workflow_task.py`, `workflow_execution.py`, `workflow.py`) | the same rows | edit a task, send a message, answer a form, create a run | refused when the session cannot take it |
| Approval scope, tool certificates, gateway policies (`infrastructure/approval_scope.py`, `mcp_policies.py`, `mcp_credentials.py`, `services/mcp_tool_certificate.py`) | certificates, approvals, tasks | issue, supersede, revoke; authorize a call | a granted task can call its tools, under one authority, and never while an approval is open on it |
| Consultations | a session of its own kind beside a waiting one | open, ask, close with the decision | at most one open per session, none after the decision |
| Session stream (`services/session_stream.py`) | event rows, viewers, cursors, the LISTEN connection | append, notify, read, listen | a viewer sees each turn, and is woken |
| MCP elicitation (`infrastructure/mcp_elicitation.py`, `services/mcp_elicitation.py`) | question rows | ask, answer, expire | one of answer and expiry wins, the call returns it, nothing stays open |
| Email queue (`services/email_queue_worker.py`, `repositories/outbound_email_queue.py`) | message rows with leases, the sender's lock | enqueue, claim, send, settle, reclaim, purge | a message is sent once for all the queue can know, and never after it is settled |
| Workflow design (`services/workflow_design.py`, `workflow.py`) | the workflow, its templates, versions | generate, edit, publish, discard, restore, deactivate | what runs was published |
| Task templates' dependencies (`repositories/workflow_task_template.py`, `workflow_task.py`, `WorkflowService.execute`) | templates, edges, the run's copies | add, change, delete, publish, restore, copy | checked edits close no cycle, and a run keeps the order of its design |
| Knowledge jobs (`services/knowledge_ingest.py`, `knowledge_base.py`) | sources, pages, the base's lock | register, re-ingest, remove | removed sources leave no claims, no edit is lost, no source is forgotten |
| Skill sync (`services/agent_skill_sync.py`, `infrastructure/skill_manager.py`) | the skill's row, clones on disk, pins | clone, publish, prune | the current and the pinned revisions stay on disk |
| Gateway transport, login, tenants, users, tags, secrets, settings, mocks, metrics, startup, frontend | administrative records, wire formats | one transaction each | not modelled: nothing interacts in a way worth checking |

The parts interact through the database only. A turn's tools write tasks; every task
write ends in `evaluate_completion`, which schedules; a turn's settlement schedules and
nudges; a decision queues input on the waiting session; `queue_input` makes a session
due; every replica polls for due sessions. Hard behaviour: several sessions and people
write one run at once; every decision is taken on a snapshot and made in later
transactions; a process may die between any two of them; a row read before a lock is
used after it.

## Modules

- `Placement` - the pure part of scheduling (`plan_assignments`, the closure of
  `_skip_blocked_dependents`): which tasks are ready, which session each belongs on,
  when it forks, which tasks a failure blocks. Its assumptions say what `execute`
  guarantees of a task graph: finite, acyclic, created in dependency order.
- `RunScheduling` - one run: tasks, owners, session rows, and the actors that write them
  (a turn per session, the request that created the run, people's edits). `pc[a]` is the
  next transaction of actor `a`, `snap[a]` what it last read, `plan[a]` its pass of the
  scheduler. One action is one transaction; reads used by later transactions are separate
  actions. `looked` and `view` are what the agent knows; they matter because
  the scheduler relies on agents listing their tasks.
- `RunOutline` - the abstract specification of a run: tasks given away, started, ended and
  skipped, and the run ended, each in one step decided on the run as it is.
  `RunScheduling` implements it with `state <- status`, `worker <- owner`, `verdict <- outcome`.
- `SessionTurn` - one session in detail: replicas, approvers, participants, the row with its
  status, `waiting_on`, `pending_input`, `resume_at` and `initiator_task_id`, the
  lock, each replica's copy of the row, approvals. `Begin` uses the copy and writes the row.
- `SessionMailbox` - the abstract specification of a session's row: one slot of input.
  `SessionTurn` implements it with `mode <- Mode, slot <- input`.
- `ApprovalGate` - the certificates of one run. `Governing` is `approval_scope.py`'s
  derivation, its walk written as a smallest set (`Above`); `issued` numbers the certificates in
  the order they were signed; a handler is a request or tool call that reads, then lists, revokes and signs
  task by task (`handler[h]`); `toolCall` is a call between the gateway's checks. Nothing orders the
  handlers but a request's own steps: a decision or a status write may come while others are
  under way. `belated` marks the tasks for which one signed or revoked on approvals that had
  changed since it read them.
- `SessionStream` - one viewer of one session: the turn that writes events, the table, NOTIFY
  and the LISTEN connection, the cursor, and the client's loop. `EndTurn` clears the row however far
  the turn got, as the `finally` around it does; `CutShort` is a turn that stops without that.
- `Elicitation` - one question of an MCP server: the call that waits, the answers, the clock.
- `EmailQueue` - the rows, the workers that compete for the sender's lock, the relay. `copies`
  and `doubt` count what the relay accepted and what the queue never learned of.
- `WorkflowDesign` - one workflow, its versions, and requests as sequences of transactions; the
  task list and the texts are one value each, which is what the comparison needs.
- `TaskGraph` - the edges between the templates of one workflow, below the level of
  `WorkflowDesign`: an edit is its check (`CheckDependencies`, with the edges it will replace) and
  its commit (`WriteDependencies`, with the refusals of the table's keys); a request that lists
  the design reads templates and edges in two queries; a run is copied task by task in
  `_topo_order`'s order. `blind` marks the edges written on a check that other edges had overtaken.
- `Consultation` - the consultations of one session, beside `SessionTurn`: questions, turns
  and the approver's request, each a sequence of its transactions. `crossed` marks that one
  was left open after the approver's request listed those it would close.
- `KnowledgeJobs` - one knowledge base. A page is what it cites; `seen` is the status in the
  copy of the row a job's database session keeps.
- `SkillStore` - one skill, its clones, the sync jobs, and the runs and designs that pin them.
- `MCScheduling`, `MCTurn`, `MCServices` - task graphs, agents' moves, symmetries and the
  choice of a service, for TLC.
- `RunSchedulingProofs`, `SessionTurnProofs`, `SkillStoreProofs`, `KnowledgeJobsProofs`,
  `WorkflowDesignProofs`, `TaskGraphProofs`, `DeliveryProofs` (`EmailQueue` and `SessionStream`),
  `DecisionProofs` (`Elicitation`, `Consultation` and `ApprovalGate`) - the theorems.

`RunScheduling` treats a session's turn as one runner with one input, because
`SessionTurn` shows that turns do not overlap and that the row is one slot;
`SessionTurn` in turn says nothing of which tasks a turn works. `paused` in `RunScheduling`
stands for the four statuses `SessionTurn` distinguishes. `SessionStream` takes from
`SessionTurn` that turns follow one another. The other services meet a run only through rows
that one side writes and the other reads; each module has both sides.

Definitions whose comment starts with "Mutant:" are not part of any specification. Each is
a plausible bug in the definition it precedes; putting it in that definition's place must
violate a property, and the property is worth stating for that reason. `NudgeOnly` serves
both as a part of `FollowUp` and as its mutant.

## Runs and what they show

| Run | Instance | Shows |
|---|---|---|
| `sched_agents` | 4 tasks (a root; a root and its follower; a join of both), 2 branches, limit 2, failed tasks | typing, ownership, order, no finished branch with open work; the run implements `RunOutline`, which has the skips and the outcome right |
| `sched_faults` | 2 root tasks, 1 branch, agents that start unassigned tasks, 1 message, 1 crash anywhere | ownership is final, the finished stamp implies no open task |
| `sched_unraced` | 3 roots met by a join, 2 branches, limit 2, failures, a person finishing tasks, no overlapping scheduler passes | nothing is lost, limits hold, a run at rest is over, every run finishes |
| `sched_sleep`, `sched_join`, `sched_once` | the smallest graphs with the race | what overlapping passes cost: see Findings |
| `turn_one` | 1 replica, 1 approver, 1 participant, 1 approval, 1 form, 1 message, 1 `wait_until`, 1 crash | decisions arrive, waited-on calls survive, busy sessions rest |
| `turn_replicas` | 2 replicas, 1 approver, 1 participant, 1 approval, 1 message | turns never overlap; the row implements the mailbox |
| `turn_stale`, `turn_final`, `turn_unattended` | the smallest parties with the race | see Findings |
| `services` | the nine services, one per initial value of `focus` (two for the dependencies and for the certificates) | per service, below |

`services` explores the nine services one after the other: a behaviour belongs to one of
them, and the others keep their initial state, which is sound because they share none.

| Service | Instance | Shows |
|---|---|---|
| skill | 2 revisions, 2 jobs, a run, a design; failures and deaths without bound | `CurrentOnDisk`, `PinSurvives` |
| mail | 2 messages, one of which cannot be built, 2 workers, 1 death, 1 lost reply, batches of 2, 2 attempts | `SentOncePerDoubt`, `SettledIsFinal` |
| wiki | 2 sources, 1 page, 2 jobs with their requests; failures, timeouts, deaths, deletion | `CitationsExist`, `NoLostEdit`, `NothingLeftHanging` |
| question | 2 answers, one expiry, a stop at every point, deletion of the run | `AnswerIsResult`, `ReceiptIsTrue`, `OpenOnlyWhileWaited` |
| gate | 2 tasks in a chain, 2 approvals, 2 handlers at once, no call | `GrantReaches`, `OneAuthority` |
| call | the same with 1 call, while a handler begins only after the last has ended; the call interleaves with its steps | `NoCallWhileAsked` |
| stream | 2 turns of up to 2 events, 1 loss (connection, process, stream or read), with and without NOTIFY | `NoMissedWake`, `QuietIsCurrent` |
| design | 1 editor, 1 curator, 2 designs, 2 versions | `RunsArePublished` |
| edits | 3 templates, 2 edits at once that add one dependency each; no deletion, publication or run | `NoCycleUnlessBlind` |
| graph | 2 templates, 2 edits at once, deletion, publication, restoring, runs | `NoCycleUnlessBlind`, `RunKeepsOrder` |
| side | 2 consultations, 2 participants at once or 1 and a death, 2 decisions, no question about the second | `DecisionCloses` |

The bounds are the smallest in which two actors race over each row: two jobs for a lock, a job
and a pin for a prune, two workers for a lease, two answers for a question, a start and a
decision, and a nearer approval than the one that governs, for a certificate, a turn that ends
as the next begins for a viewer, an editor and a publisher for a version. A cycle that two
edits close together needs two templates, one longer than what either edit touches needs three;
a question needs a second consultation only if the first is closed before it.
In `graph` a run is copied only while no edit is in hand, and then nothing else moves. Neither
loses a state of the run: a run reads nothing but the design it has copied, and an edit that was
checked and not yet written can be left out of any behaviour. In `call` handlers do not overlap each other, only the call; `AskedTasksAreStopped` proves
`NoCallWhileAsked` for any number of overlapping ones. `services` states safety
only, and no fairness.

Bounds: `MaxMessages` (inputs people send), `MaxCrashes`, `MaxWaits` (calls of
`wait_until`) bound counters; a call is rendered once and an approval requested once.
The task graphs are the smallest where the interesting case occurs: a fork needs two ready
tasks, a limit needs three, a join whose side runs on a branch through two tasks needs four.
Two schedulers racing need two sessions; a stale copy needs two replicas; a forgotten
decision needs one approver and one turn. Symmetry is used on branches and replicas and, in `services`, on the two parties of each
service and the two contents of a design (`Mirror`), in runs that check safety only.
Deadlock is not checked because every system here stops legitimately: a run finishes, or
rests waiting for a person, and the bounds end what people do. What must not happen at rest
is stated instead, by `ReadyIsAssigned`, `NoSleepingOwner`, `RestIsOver` and `NoForgottenDecision`.

Assumptions of the instances, all named constants: `Obedient` (an agent touches only tasks a
listing marked as its own, as its instructions say) and `Diligent` (it ends a turn only after
a listing showed no work left) hold where a property needs them, since without them a run may
stall because of the agent and not of the server: `sched_agents` drops the second,
`sched_faults` the first.
`TurnEnds`, `AgentMoves` and `PersonMoves` say how turns end and tasks move. The scheduling
runs let a turn end only in a reply (`{"ok"}`): ends in an error or a pause are in the
specification and covered by its theorems, and `SessionTurn` is checked with both, but an
instance of `RunScheduling` with them, a message and a crash is past eight million states.

### Fairness

`UnracedSpec` assumes weak fairness of the steps of servers and agents together: the run
does not stop while one could be taken. The dispatcher polls for ever
(`run_session_dispatcher`), transactions complete, and a diligent agent works. Nothing is
assumed of people. `UnracedNext` itself is a restriction: no two actors are, at once, in a
scheduler pass or between an agent's last listing and the end of its settlement. The code
does not enforce it. It is there to separate what the algorithm gets right from what its
races break, which the violation runs show on the unrestricted specification.

`FairSpec` assumes that each replica keeps taking the steps of its turn (poll, lock, end of
the agent's turn, settlement), that a request once begun is carried out, and nothing about
when people decide or write. An agent's turn ends because the model call does or fails.
`DecisionDelivered` and `NoForgottenDecision` exempt executions in which a process died:
the code has no recovery for an approver's request that dies between recording
the decision and queueing it.

## Findings

Six places where the code does not do what its own text says; each has a run that shows it
(`PROJECT.json` quotes the lines).

1. `sched_sleep` - work assigned during settlement is not nudged (`session_settle.py`).
2. `sched_join` - a branch schedules from tasks read before its own status was written, and
   a join is forgotten (`session_settle.py`).
3. `sched_once` - the completion stamp and notification are not idempotent under concurrent
   evaluations (`workflow_execution_completion.py`).
4. `turn_stale` - the re-read under the run lock returns the attributes loaded before it
   (`session_runner.py`), and a second turn drops what the first waits on.
5. `turn_final` - of two approvers deciding at once the second overwrites the first
   (`approval.py`).
6. `turn_unattended` - a recovery turn passes for one the initiator drives
   (`workflow_task_tools.py`).

The services' properties hold, some with an exemption that names what the code does not
protect. Each exemption is a variable, or a condition on one, that records exactly the race or the cut:

- `raced` (`PinSurvives`): a revision read before a prune's listing and named by a row after
  it. The code leaves this to a grace window (`config.py:38`), and the window counts from the
  revision's publication, not from the read: a run that picked an old
  revision and is overtaken by a sync can start without its code.
- `doubt` (`SentOncePerDoubt`): acceptances the queue cannot learn of. One of them needs no
  crash: a relay that hangs up after accepting and before replying gets a second copy at once,
  because `send` takes every disconnect for an idle connection's (`email_sender.py:186`).
- `orphaned` (`OpenOnlyWhileWaited`): only a cancellation closes the question; any other
  error of the waiting call leaves it pending, with nobody waiting on it.
- `slipped` (`QuietIsCurrent`): `cursor_before_run` makes two queries, and a turn whose first
  event is written between them ends up behind the cursor. The history that follows stops where
  that turn began, so the viewer sees it only after it ends. `get_session_messages` states
  that the cursor is read before the history so that an event is not lost.
- `belated` (`GrantReaches`, `OneAuthority`): some handler, acting for the task on what it had read,
  signed for an authority that no longer spoke, or revoked the one that did. Nothing in the code
  prevents it, and one task, one approval and two handlers are enough. Two grants: a start has read
  no approval and listed no certificate when the approval is requested; the stand-down
  finds nothing, the decision's handler lists nothing, both sign. The older is presented,
  and if that is the initiator's the gateway refuses it (`mcp_tool_certificate.py:410`, against 374-376).
  No grant: a request's stand-down has read its scope when the task starts and the approval, visible
  since its row was committed, is decided; it then revokes the certificate just issued,
  since it does not ask whose that is (`mcp_tool_certificate.py:600`, against `approval.py:194-195`).
  Everything else may overlap, so long as what is signed is still called for when it is written.
- `LastWritten` (`QuietIsCurrent`): the latest turn wrote its last event. One that was cancelled, or left
  by an agent that raised, clears `active_run_id` all the same (`session_runner.py:291`) and no turn
  recovers it, so a viewer that follows it is not told of its end nor of an event the agent had
  persisted and not yet yielded, until a later turn closes or it reconnects; `session_stream.py:7-9` says
  that its stream ends with the turn. `StreamEndsWithTurn` is the property without the exemption,
  which TLC refutes with one turn; `ViewersCatchUp` is about turns that close.
- `refused` (`GrantReaches`): a signature refused by the unique index. The agent's
  tools only log it; a decision or a person's edit fails with it although its write stands,
  where the module says that failure to issue never fails the write that triggered it
  (`mcp_tool_certificate.py:44`).
- `strayed` (`RunsArePublished`): publishing reads the texts, then the tasks, inserts the
  version and then writes `published`; somebody else's edit in between is marked `modified`
  and the mark overwritten, after which the live design, which runs take, is not the version
  they are attributed to (`workflow.py:1131` says that the two are identical by construction).
  A restore that is refused after replacing the tasks leaves the same state.
- `blind` (`NoCycleUnlessBlind`, `RunKeepsOrder`): two people, or a person and the design agent,
  who each add a dependency at the same time can close a cycle: each check passes, both commits
  stand. `_topo_order` calls a cycle impossible (`workflow.py:104`), and keeps a fallback for it
  all the same: the run is created with every task, and loses those of the cycle's dependencies
  that point at a task not copied yet. `RunKeepsOrder` shows that it still starts, acyclic.
- `crossed` (`DecisionCloses`): the approver's request closes the consultations it had read. One
  that opened and was answered between that read and the queueing of the decision, or whose
  answer had read the session as waiting before it, stays open; so does one left by a process
  that died. Every question that arrives later is closed by its own turn, although
  `queue_input` reopens a consultation that was done.
- A decision that the settling turn finds (`_resume_if_decided`) closes no consultation:
  those opened before it stay open until they are written to. `DecisionCloses` is about
  decisions that the approver's request hands over (`resumed`).
- A knowledge job re-reads its source under the lock from the same database session, so it
  notices that the row is gone and not that its status changed; `CitationsExist` and
  `NothingLeftHanging` hold all the same, because what it then does is done under the lock and
  ends in a status or in a row that is gone.
- Two approvals open on one task (`Insistent`) can leave it without a certificate: granting the
  older one issues nothing while the newer is open, and rejecting the newer one never re-issues.
  The instance keeps to one open approval per task, as the agent's instructions do.

## Proofs

All are over arbitrary constants satisfying the named assumptions of the modules
(`TaskAssumption`, `SessionAssumption`, `ActorAssumption`, `PartyAssumption`, `GateAssumption`
and the like), with crashes and
messages included.

- `SessionTurnProofs`. `TypeCorrect`, `SingleDriver`, `ImplementsMailbox`,
  `DecisionsAreRemembered`. The inductive invariant `Inv` is typing, `LockInv` (a replica is
  past the lock exactly if it is recorded as the holder), `RowInv` (while a turn runs or
  settles the row says running) and `RequestInv` (what requests and turns carry are inputs of
  the right kind). `OneDriver` alone is not inductive: taking the lock preserves it
  only because the record and the holders agree. For the refinement every action is shown
  to be a mailbox step or a stutter; the steps that begin a turn from a stale copy are
  mailbox `Start`s, which is why the mailbox lets a turn begin at any time. The
  handshake adds `ResumeInv` (a replica looking for decisions holds exactly what the
  row waits on, as long as the row still waits) and proves the property directly by cases on
  who moved the row or the approval.
  `CallsAreClosedInTurn` assumes one replica (`OneReplica`; crashes included). A turn decides
  what it answers from a copy of the row read before the lock; `CopyInv` says that with one
  replica the copy still has what the row waits on when the turn begins, because nobody but
  that replica moves a waiting row to another wait. With two it is false: see `turn_stale`.
- `RunSchedulingProofs`. `TypeCorrect`, `OwnershipIsFinal`, `TasksStartInOrder`,
  `SkipsSpareStarted`. The last two assume `OnlyAgentsForward`: agents move tasks only from
  pending to in progress to an end, people do not edit. Then a dependency once completed
  stays so, and the invariant `OrderInv` says of every transaction in hand what its later
  write relies on: a started task's dependencies are completed (`StartInv`), a status change
  between check and write still has them completed (`InHandInv`), and a task about to be
  skipped has a failed or skipped ancestor and so can never have started (`SkipInv`, from
  `BlockedNotStarted`).
  - `FinishedRunsStayFinished`, `OutcomesAreTheTasks`, under the same hypothesis. `EndInv`
    adds that a skipped task has a failed one behind it (`SkippedInv`) and that whoever is
    about to record the end has read the tasks as they are (`FinishInv`): terminal
    statuses do not move (`EndedStays`), so a read that found them all so cannot go stale.
  - `CompletesOnce`, `SessionsAreLimited`, over `UnracedSpec`. One actor at a time is
    scheduling (`MutexInv`), so what `mark_finished` and the notifier read before they write is
    not overtaken (`OnceInv`), and a pass counts at least the sessions there are: `LimitInv`
    follows `alive` through the pass, a fork adding a branch only after `alive` made room for
    it. Both are false of `Spec`: `MCScheduling_once` shows it of the first.
  - `ForksRunForTheirTask` assumes that nobody writes to the sessions (`MaxMessages = 0`).
    `OwnInv` follows a fork from its creation to the claim that was won (`forkqueue`) or lost.
  - `DoneBranchesAreFree` assumes that, `OnlyAgentsForward`, and no crash. A branch settles
    from a read older than its record, so nobody may hand it a task in between. `DueInv` is why: as
    long as a task that a branch's own work made ready has no owner, the branch's turn is still in
    the evaluation that will see it, so whoever assigns it first, the branch has not begun to
    settle. Beside it `HoldInv` needs that what was read of an owner or of a terminal status is
    still so (`SnapInv`), and that a branch just made is known to its maker only (`FreshInv`).
  - `NoJoinIsForgotten`, over `UnracedSpec`, assumes `TasksMoveForward` (agents only forward,
    people only end what is in progress) and no crash. `LookInv`: as long as a task is ready
    and nobody's, some actor has still to look for ready tasks or has it on its plan. Whoever made it
    ready, by the status write of the last dependency or by recording a branch done, does so on the
    way into an evaluation (`NewlyReady`), and a pass only lets go of a task that has
    got an owner (`LooksOn`). It needs that a started task has an owner (`HeldInv`) and that
    what a pass or a record goes by are the tasks as they are (`CurrentInv`), which
    `MutexInv` gives. Of `Spec` it is false: see `sched_join`.
  - `WorkersAreWoken`, over `UnracedSpec`, assumes that agents are `Diligent` (a turn ends well only
    on an empty listing), that nobody reopens a task (`NothingReopened`) or dies, and either that
    nobody writes to the sessions or that agents move only what a listing showed them (`Obedient`).
    `WakeInv`: a session that holds a pending task is not idle, unless somebody is
    about to queue it a note. A pass notes only the sessions it saw idle, so `SeenInv` says that
    what is idle during a pass was seen so, the branch it just made apart; and `ListedInv` that a
    session on its way out has nothing to start. A message can start a branch before its maker
    has claimed its task for it; `MadeInv` and `ObeyInv` say why it then finds nothing and harms
    nothing. Of `Spec` it is false: see `sched_sleep`.
  - `RunsRestOver`, over `UnracedSpec`, is the safety half of `RunFinishes`: a run never rests
    unfinished. It assumes `TasksMoveForward`, `Diligent`, no crash, `Obedient` or no messages, and
    `Task # {}`, since an empty run stays running (`workflow_execution_completion.py:144`).
    What is unfinished at rest is pending and nobody's, because a task in progress keeps its owner
    up (`WorkedOffInv`) and an idle owner has nothing to start. Take the first such task in creation
    order: its dependencies have all ended. None failed or was skipped, or somebody would still be
    about to skip the task (`SweepInv`, with `SkipsOn` for each step). So they completed, the
    branches that worked them have settled (`BranchesSettleDone`), the task is ready, and `LookInv`
    has somebody who will look: not at rest. With every task ended, whoever ended the last has the
    outcome still to record (`EndingInv`).
  - `ImplementsOutline` assumes `OnlyAgentsForward`, and no more: crashes, messages and overlapping
    passes are included. `RunScheduling` decides on what it read, `RunOutline` on the run as it is;
    `OutlineInv` (`EndInv`, `SnapInv`, and `TodoInv` and `ForkInv` for what a pass has planned to give away)
    says that what was read still holds when it is written. `WritersMoves` and `ClaimGives`
    show each write an outline step; every other transaction is a stutter.
    `SkipsOnlyPending` and `OutcomeMatchesTasks` follow from the outline, so that no run checks
    them beside it; `SkipsSpareStarted` and `OutcomesAreTheTasks` state them by themselves.
- `SkillStoreProofs`. `CurrentStaysOnDisk`, `PinsSurvive`. One job holds the lock, only it
  publishes, records and prunes; the invariant says of each of its positions what it has
  already put in `keep`, so that a prune takes neither the current revision nor a pin that
  existed when its kind was listed.
- `DeliveryProofs`. `OneCopyPerDoubt`, `SettledStays`. One worker holds the lock; a message it
  is about to send is leased to it or gone, and `copies` is accounted for by the row's status,
  by `doubt` and by the result in the worker's hands.
  `NoWakeIsMissed`: while a viewer sleeps on events it has not read, a notification is under way,
  the writer has still to send one, or the listener has still to join or to report (`WakeInv`). `ViewersCatchUp` needs where
  the cursor stands against the last event of the latest turn (`CursorInv`) and what the rows
  of the table are (`RowsInv`, `WriterInv`): a viewer that has read past a turn's last event has
  since read the history, and a cursor short of it has something to read. It says nothing of
  a turn that ended without that event, of which it is false.
- `KnowledgeJobsProofs`. `NoDanglingCitation`, `NoEditIsLost`, `NothingIsForgotten`. The holder
  of the lock is the one job between begin and apply; its draft is the wiki as it stands; every
  source with an unfinished status has a job that will write it, unless one died.
- `DecisionProofs`. `AnswersArrive`, `ReceiptsAreTrue`, `NoQuestionLeftOpen`: the row leaves
  pending once, by the conditional write that decides. `DecisionsClose`: from the
  approver's listing to the end of what it resumed, an open consultation is on the request's
  list, or a turn that will close it is queued, running or about to be queued, unless it was
  `crossed` (`HandledInv`); at most one is open (`OneOpen`, the partial unique index).
  - `AskedTasksAreStopped`, about the gateway: a call carries one certificate, of one task
    (`CarriesInv`), and a task with an open approval of its own is governed by such a one
    (`OpenGoverns`), so `Authorizes` is false whoever granted the certificate.
  - `OneGrantEach`, for any overlap of handlers. Each handler may sign for what has ceased to hold;
    the proof is that two signatures which were both right when written do not stand side by side.
    `Heads(t)` are the approvals that govern a task when none is open: they only ever change by a
    request, which adds itself and may hide others, and whoever an issuing handler wants to sign for was
    their oldest (`OnceInv`), or is no longer among them (`Past`). A certificate that such a handler has not
    listed is therefore its own authority's, which the unique index refuses, or its own authority's
    time is over and what it signs is `belated` (`LeftInv`). `OneCert` holds at every moment, not only at rest.
  - `GrantsReachTheirTasks` adds that no approval of a task is newer than an open one of its
    (`LatestInv`, which `~Insistent` buys: `RequestApproval` then refuses a second) and that a
    task under way and granted, and not `belated`, has its certificate or a handler still on its way
    to sign it (`ReachInv`, `Coming`). For an insistent agent it is false (see Findings).
- `WorkflowDesignProofs`. `RunsWerePublished`. What a request carries (`Fit`), what it read that
  nobody has since overtaken (`Backed`, `Carried`), and what a published workflow's live design
  is when no request is between its writes (`SettledInv`).

- `TaskGraphProofs`. `ChecksPreventCycles`, `RunsKeepOrder`. `Reaches` and `Acyclic` are stated
  over sets of templates, without paths: a template is reached if every closed set has it,
  a graph is acyclic if every set has a member that depends on none of it. `CheckedEdgesKeepAcyclic`
  is the argument for `_validate_dependencies`: of a set whose members all depend on the set, keep
  what a new edge's target reaches; the edited template is not in it, so the old graph had such a
  set already. `NoCycleUnlessBlind` is not
  inductive: `GraphInv` adds that the check of an edit nothing overtook still holds
  (`ChecksHold`), that edges have their ends, that a discard deletes what it restores, and how far a run's copy
  agrees with its design (`CopyInOrder`). That a cyclic design still gives an acyclic run follows because
  a task only ever depends on tasks copied before it.

Each of these also proves the types of its module (`SkillTypeCorrect`, `MailTypeCorrect`,
`StreamTypeCorrect`, `WikiTypeCorrect`, `AskTypeCorrect`, `SideTypeCorrect`, `GateTypeCorrect`,
`DesignTypeCorrect`, `GraphTypeCorrect`), for any finite or infinite sets of parties: the services' bounds on deaths,
doubts, losses, turns and versions are parameters of the theorems.

Together they are what the invariant `ServicesTypeOK` of the services' run says.

Model-checked only: liveness, `RunFinishes`, `BusyEnds` and `DecisionDelivered` (temporal properties
under fairness and `ENABLED` are outside the proof system's reach; `RunsRestOver` gives the part of
`RunFinishes` that needs no fairness). `ServicesTypeOK` is proved module by module, not under its own
name, since `MCServices` fixes the constants. Every other invariant and action property of a passing run is
proved, under the hypotheses named above. `Blocked` and `Above` are
written as smallest closed sets, without recursion, so that they can be reasoned about; nothing
here uses RECURSIVE.

## Abstractions and omissions

- What an agent says, prompts, summaries, the contents of forms, histories and streams.
- Who may act: tenants, roles, the approver scope of a task. A refused call changes nothing.
- Input kinds are kept to what the properties tell apart; the kickoff is a `remark` since it
  carries no acting user. Two decisions stand for approved, rejected and returned.
- A branch's identity is drawn from a finite set; a deleted one may be drawn again.
- The lock is freed only when its process dies or lets it go. A connection dropped under
  a living process is outside the model.
- A turn cancelled at shutdown settles as a failed turn.
- Keys, signatures, validity windows and renewal of certificates; the arguments an approval
  declares; reopening of a finished task in `ApprovalGate`.
- A handler of certificates runs to its end; one that dies leaves what it had not yet signed
  to the next start or decision.
- Rate limits and backoff lengths of the queue, keepalives and batching of the stream.
- In `WorkflowDesign` the two transactions of `generate` are one, and deletion, tags and
  internal notes are left out; in `SkillStore` and `KnowledgeJobs` editing and deleting the
  skill and editing the base.
- The run's own displayed status.
- In `Consultation` approvals follow one another; the turns of the waiting session are in
  `SessionTurn`. In `TaskGraph` one request over the whole design runs at a time; two at once
  are in `WorkflowDesign`.

Not modelled: the gateway's transport, proxy and executor (forwarding, sandboxing), login,
throttling and impersonation, tenants, users, groups, tags, secrets and settings (one
transaction each), mocks, session files, metrics and audit (data transformations), startup,
migrations and demo data, the frontend apart from the client loop of a session's stream.

## Plan

1. The run's displayed status, recomputed by each session's own transaction.
2. `RunScheduling`: people reopening tasks and completing idle branches' tasks, crashes of
   the scheduler between creating, claiming and queueing a branch, turns that error or pause.
   A scheduled session woken by its time and by a message, in `SessionTurn`.
3. Login throttling and impersonation: counters against a window, and who acts for whom.
4. Liveness of the services: a message is sent or given up while a worker lives and no message
   in front of it is malformed; a job that is not lost ends.
5. Weaker hypotheses for the theorems of `RunScheduling`: `DoneBranchesAreFree` with
   people writing to the sessions, `NoJoinIsForgotten` and `RunsRestOver` with tasks put back
   to pending.
