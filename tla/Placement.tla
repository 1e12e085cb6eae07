------------------------------ MODULE Placement ------------------------------
(***************************************************************************)
(* Where a runnable task of a workflow run goes: the pure part of          *)
(* services/execution_branching.py.  A run's tasks form a DAG; each task   *)
(* is worked by exactly one ADK session, its owner.  The operators below   *)
(* read a snapshot of the run -- the tasks' statuses and owners, and the   *)
(* sessions' statuses -- and say which tasks are ready to be assigned and  *)
(* to which session the next of them goes.                                 *)
(***************************************************************************)
EXTENDS Naturals, FiniteSets

CONSTANTS
  Task,         \* the run's tasks
  Deps,         \* Deps[t]: the tasks t depends on (depends_on_ids)
  Rank,         \* creation order; a task is created after its dependencies
  Main,         \* the run's main session
  Branch,       \* identities branch sessions are created with
  None,         \* "no session recorded"
  MaxSessions   \* EXECUTION_MAX_PARALLEL_SESSIONS

Session == {Main} \cup Branch

ASSUME TaskAssumption ==
  /\ IsFiniteSet(Task)
  /\ Deps \in [Task -> SUBSET Task]
  /\ Rank \in [Task -> Nat]
  /\ \A t, u \in Task : Rank[t] = Rank[u] => t = u
  /\ \A t \in Task : \A d \in Deps[t] : Rank[d] < Rank[t]

ASSUME SessionAssumption ==
  /\ IsFiniteSet(Branch)
  /\ Main \notin Branch
  /\ None \notin Session
  /\ MaxSessions \in Nat \ {0}

TaskStatus == {"pending", "in_progress", "completed", "failed", "skipped"}
Unfinished == {"pending", "in_progress"}
Terminal == TaskStatus \ Unfinished

\* A branch session that does not exist is "absent"; "paused" stands for the
\* waiting_* and scheduled statuses, which SessionTurn tells apart.
SessionStatus == {"absent", "idle", "queued", "running", "paused", "done", "error"}

-----------------------------------------------------------------------------
(* A snapshot: status and owner of every task, seen: status of every session. *)

\* A dependency with no session recorded counts as the main session's.
WorkedBy(owner, t) == IF owner[t] = None THEN Main ELSE owner[t]

DepOwners(owner, t) == {WorkedBy(owner, d) : d \in Deps[t]}

IsJoin(owner, t) == Cardinality(DepOwners(owner, t)) > 1

\* Mutant: one completed dependency is enough.
DepsSome(status, t) == Deps[t] = {} \/ \E d \in Deps[t] : status[d] = "completed"

DepsCompleted(status, t) == \A d \in Deps[t] : status[d] = "completed"

\* Sessions that count against MaxSessions: main and every task session not done.
AliveSessions(seen) ==
  {Main} \cup {b \in Branch : seen[b] \notin {"absent", "done"}}

BusySessions(status, owner) ==
  {s \in Session : \E t \in Task : owner[t] = s /\ status[t] \in Unfinished}

\* Mutant: a task is assigned before its dependencies are over.
ReadyEarly(status, owner, seen) == {t \in Task : status[t] = "pending" /\ owner[t] = None}

\* The tasks the scheduler assigns now: pending, unowned, every dependency
\* completed; a join is left out until every branch feeding it is done.
Ready(status, owner, seen) ==
  {t \in Task :
     /\ status[t] = "pending"
     /\ owner[t] = None
     /\ DepsCompleted(status, t)
     /\ IsJoin(owner, t) =>
          \A b \in DepOwners(owner, t) \ {Main} : seen[b] = "done"}

\* The existing session a ready task belongs on: the one branch that worked its
\* dependencies while that branch is alive, the main session otherwise.
Target(owner, seen, t) ==
  LET branches == DepOwners(owner, t) \ {Main}
  IN  IF /\ ~ IsJoin(owner, t)
         /\ \E b \in branches : seen[b] # "done"
      THEN CHOOSE b \in branches : TRUE
      ELSE Main

\* Mutant: the session limit is not consulted.
ForksUnbounded(owner, seen, busy, alive, t) ==
  Target(owner, seen, t) \in busy /\ ~ IsJoin(owner, t)

\* A busy target makes the task fork a branch of its own while the run is below
\* its session limit; a join never forks.
Forks(owner, seen, busy, alive, t) ==
  /\ Target(owner, seen, t) \in busy
  /\ ~ IsJoin(owner, t)
  /\ alive < MaxSessions

\* Tasks are planned in creation order: t is the first of todo.
IsEarliest(todo, t) == t \in todo /\ \A u \in todo : Rank[t] <= Rank[u]

-----------------------------------------------------------------------------
\* Mutant: a failed task's dependents are left pending.
BlockedNone(failed) == failed

\* Every task that transitively depends on a failed one: the least set closed
\* under "depends on a failed task or on a member".
Blocked(failed) ==
  {t \in Task :
     \A S \in SUBSET Task :
        (\A u \in Task : Deps[u] \cap (failed \cup S) # {} => u \in S) => t \in S}

=============================================================================
