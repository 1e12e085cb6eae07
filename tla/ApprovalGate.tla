----------------------------- MODULE ApprovalGate -----------------------------
(***************************************************************************)
(* The tool certificates of one run: which approval governs which task     *)
(* (infrastructure/approval_scope.py), the handlers that issue and revoke  *)
(* certificates when a task's status is written, an approval is requested  *)
(* or decided (services/mcp_tool_certificate.py,                           *)
(* infrastructure/approval_tools.py, services/approval.py), and the        *)
(* gateway's check of a tool call (infrastructure/mcp_credentials.py,      *)
(* infrastructure/mcp_policies.py).  Every task binds the same tool.       *)
(*                                                                         *)
(* A handler reads, then revokes and signs in transactions of their own.   *)
(* Abstracted: keys, signatures, validity windows, declared arguments;     *)
(* reopening a finished task.                                              *)
(***************************************************************************)
EXTENDS Naturals, FiniteSets

CONSTANTS
  Task, Deps,   \* the run's tasks, Deps[t] those t depends on
  Approvals,    \* how many approvals are requested; 1 is the oldest
  Handler,      \* requests and tool calls under way
  Insistent,    \* the agent asks again on a task whose request is open
  Initiator, NoOne

ASSUME GateAssumption ==
  /\ Deps \in [Task -> SUBSET Task]
  /\ Approvals \in Nat /\ Insistent \in BOOLEAN
  /\ Initiator \notin 1..Approvals /\ NoOne \notin 1..Approvals /\ NoOne # Initiator

VARIABLES
  task,      \* task[t]: its status
  gate,      \* gate[x]: [on, status], approval x
  certs,     \* the live certificates, [task, by, id]
  issued,    \* how many were signed; the next one's id
  handler,   \* handler[h]: [at, mode, of, todo, want, on, old]
  toolCall,  \* [at, cert], a call on its way through the gateway
  refused,   \* a signature was refused by a unique index
  belated    \* history: tasks for which a handler acted on approvals changed since it read them

store == <<certs, issued>>
gateVars == <<task, gate, store, handler, toolCall, refused, belated>>

Approval == 1..Approvals
Authority == Approval \cup {Initiator}
Cert == [task : Task, by : Authority, id : Nat]
Wanted == Authority \cup {NoOne}
Free == [at |-> "off", mode |-> "issue", of |-> {}, todo |-> {},
         want |-> [t \in Task |-> NoOne], on |-> {}, old |-> {}]

GateInit ==
  /\ task = [t \in Task |-> "pending"]
  /\ gate = [x \in Approval |-> [on |-> {}, status |-> "none"]]
  /\ certs = {} /\ issued = 0
  /\ handler = [h \in Handler |-> Free]
  /\ toolCall = [at |-> "off", cert |-> {}]
  /\ refused = FALSE /\ belated = {}

-----------------------------------------------------------------------------
(* approval_scope.py *)

\* active_approval_by_task: the pending one, else the newest.
Active(t) ==
  LET mine == {x \in Approval : gate[x].on = {t}}
      open == {x \in mine : gate[x].status = "pending"}
      Newest(S) == {x \in S : \A y \in S : y <= x}
  IN Newest(IF open # {} THEN open ELSE mine)

\* The walk up from t: it goes on to what a task depends on unless the task has a gate.
Above(t) == {u \in Task : \A S \in SUBSET Task :
               t \in S /\ (\A v \in S : Active(v) = {} => Deps[v] \subseteq S) => u \in S}

\* governing_approvals: the task's own gate, else those of what it depends on (the
\* code's walk is this one on a graph without cycles, which runs have).
Governing == [t \in Task |-> UNION {Active(u) : u \in Above(t)}]

Granted(X) == \A x \in X : gate[x].status = "approved"

-----------------------------------------------------------------------------
(* What a handler does with the certificates of the tasks it wants settled. *)

CertsOf(t) == {c \in certs : c.task = t}

Goes(h, changes) == handler' = [handler EXCEPT ![h] = changes]

\* Whose certificate a task governed by X holds: a merge's oldest approval's.
GrantorOf(X) == IF X = {} THEN Initiator ELSE CHOOSE x \in X : \A y \in X : x <= y

\* Whose certificate t should hold as the approvals are now.
Speaks(t) == IF Granted(Governing[t]) THEN GrantorOf(Governing[t]) ELSE NoOne

\* issue, after reading the tasks under way: the approvals ...
Scope(h) ==
  /\ handler[h].at = "scope"
  /\ LET gov == Governing
         Named(t) == handler[h].of \subseteq gov[t]
         Want(t) ==
           IF ~Named(t) \/ t \notin handler[h].todo THEN NoOne
           ELSE IF handler[h].mode = "stand down" THEN Initiator
           ELSE IF Granted(gov[t]) THEN GrantorOf(gov[t]) ELSE NoOne
     IN Goes(h, [handler[h] EXCEPT !.at = "next", !.todo = {}, !.want = [t \in Task |-> Want(t)]])
  /\ UNCHANGED <<task, gate, store, toolCall, refused, belated>>

\* Mutant: the certificates another authority granted are left to expire.
ListKeeping(h, t) ==
  LET held == handler[h].mode = "issue" /\ \E c \in CertsOf(t) : c.by = handler[h].want[t]
  IN /\ handler[h].at = "next" /\ handler[h].want[t] # NoOne
     /\ Goes(h, IF held THEN [handler[h] EXCEPT !.want[t] = NoOne]
                ELSE [handler[h] EXCEPT !.at = "revoke", !.on = {t}])
     /\ UNCHANGED <<task, gate, store, toolCall, refused, belated>>

\* ... then task by task: the live certificates of t, and which of them to revoke.
ListLive(h, t) ==
  LET live == CertsOf(t)
      held == handler[h].mode = "issue" /\ \E c \in live : c.by = handler[h].want[t]
  IN /\ handler[h].at = "next" /\ handler[h].want[t] # NoOne
     /\ \E old \in SUBSET live :
          /\ handler[h].mode # "retire" => old = live
          /\ handler[h].mode = "retire" => Cardinality(old) = IF live = {} THEN 0 ELSE 1
          /\ Goes(h, IF held THEN [handler[h] EXCEPT !.want[t] = NoOne]
                     ELSE [handler[h] EXCEPT !.at = "revoke", !.on = {t}, !.old = old])
     /\ UNCHANGED <<task, gate, store, toolCall, refused, belated>>

Revoke(h, c) ==
  /\ handler[h].at = "revoke" /\ c \in handler[h].old
  /\ certs' = certs \ {c}
  /\ belated' = IF handler[h].mode # "retire" /\ c.by = Speaks(c.task)
                THEN belated \cup {c.task} ELSE belated
  /\ Goes(h, [handler[h] EXCEPT !.old = @ \ {c}])
  /\ UNCHANGED <<task, gate, issued, toolCall, refused>>

\* One task is done with.
Settled(h) == Goes(h, [handler[h] EXCEPT !.at = "next", !.on = {}, !.want =
                [t \in Task |-> IF t \in handler[h].on THEN NoOne ELSE handler[h].want[t]]])

\* Nothing is left to revoke: an issuing handler signs; the partial unique
\* indexes refuse a second live grant of one authority, which ends the handler.
Sign(h) == \E t \in handler[h].on :
  LET by == handler[h].want[t]
  IN /\ handler[h].at = "revoke" /\ handler[h].old = {}
     /\ IF handler[h].mode # "issue"
        THEN Settled(h) /\ UNCHANGED <<store, refused, belated>>
        ELSE IF \E c \in CertsOf(t) : c.by = by
        THEN Goes(h, Free) /\ refused' = TRUE /\ UNCHANGED <<store, belated>>
        ELSE /\ certs' = certs \cup {[task |-> t, by |-> by, id |-> issued]}
             /\ issued' = issued + 1
             /\ belated' = IF by = Speaks(t) THEN belated ELSE belated \cup {t}
             /\ Settled(h)
             /\ UNCHANGED refused
     /\ UNCHANGED <<task, gate, toolCall>>

Return(h) ==
  /\ handler[h].at = "next" /\ \A t \in Task : handler[h].want[t] = NoOne
  /\ Goes(h, Free)
  /\ UNCHANGED <<task, gate, store, toolCall, refused, belated>>

-----------------------------------------------------------------------------
(* The requests. *)

\* update_workflow_task and the status PATCH, then _settle_certificate: a started
\* task is issued for, a finished one loses its certificate.
Start(h, t) ==
  /\ handler[h].at = "off"
  /\ task[t] = "pending" /\ \A d \in Deps[t] : task[d] = "completed"
  /\ task' = [task EXCEPT ![t] = "in_progress"]
  /\ Goes(h, [Free EXCEPT !.at = "scope", !.todo = {t}])
  /\ UNCHANGED <<gate, store, toolCall, refused, belated>>

Finish(h, t) ==
  /\ handler[h].at = "off"
  /\ task[t] = "in_progress"
  /\ task' = [task EXCEPT ![t] = "completed"]
  /\ Goes(h, [Free EXCEPT !.at = "next", !.mode = "retire",
                          !.want = [u \in Task |-> IF u = t THEN Initiator ELSE NoOne]])
  /\ UNCHANGED <<gate, store, toolCall, refused, belated>>

\* request_approval creates x; _stand_down_superseded_grants follows.
RequestApproval(h, x, t) ==
  /\ handler[h].at = "off"
  /\ gate[x].status = "none" /\ \A y \in 1..(x-1) : gate[y].status # "none"
  /\ Insistent \/ \A y \in Approval : gate[y] # [on |-> {t}, status |-> "pending"]
  /\ gate' = [gate EXCEPT ![x] = [on |-> {t}, status |-> "pending"]]
  /\ Goes(h, [Free EXCEPT !.at = "scope", !.mode = "stand down", !.of = {x}, !.todo = Task])
  /\ UNCHANGED <<task, store, toolCall, refused, belated>>

\* Mutant: a granted approval waits for its tasks to start again.
DecideOnly(h, x, status) ==
  /\ handler[h].at = "off"
  /\ gate[x].status = "pending"
  /\ gate' = [gate EXCEPT ![x].status = status]
  /\ UNCHANGED <<handler, task, store, toolCall, refused, belated>>

\* resolve waits for no handler under way.  A granted approval is issued for.
Decide(h, x, status) ==
  /\ handler[h].at = "off"
  /\ gate[x].status = "pending"
  /\ gate' = [gate EXCEPT ![x].status = status]
  /\ IF status = "approved"
     THEN Goes(h, [Free EXCEPT !.at = "tasks", !.of = {x}])
     ELSE UNCHANGED handler
  /\ UNCHANGED <<task, store, toolCall, refused, belated>>

\* _run_scope reads the tasks before the approvals.
ReadTasks(h) ==
  /\ handler[h].at = "tasks"
  /\ Goes(h, [handler[h] EXCEPT !.at = "scope", !.todo = {t \in Task : task[t] = "in_progress"}])
  /\ UNCHANGED <<task, gate, store, toolCall, refused, belated>>

-----------------------------------------------------------------------------
(* The gateway. *)

\* The oldest live certificate of the task.
Presented(t) == {c \in CertsOf(t) : \A d \in CertsOf(t) : c.id <= d.id}

Call(t) ==
  /\ toolCall.at = "off"
  /\ task[t] = "in_progress" /\ Presented(t) # {}
  /\ toolCall' = [at |-> "verify", cert |-> Presented(t)]
  /\ UNCHANGED <<task, gate, store, handler, refused, belated>>

\* TaskCertificatePolicy: the task and the row ...
Verify == \E c \in toolCall.cert :
  /\ toolCall.at = "verify"
  /\ toolCall' = IF task[c.task] = "in_progress" /\ c \in certs
                 THEN [toolCall EXCEPT !.at = "govern"] ELSE [at |-> "off", cert |-> {}]
  /\ UNCHANGED <<task, gate, store, handler, refused, belated>>

Authorizes(c) ==
  LET gov == Governing[c.task]
  IN IF c.by = Initiator THEN gov = {} ELSE c.by \in gov /\ Granted(gov)

\* Mutant: the gateway trusts the approval the certificate names.
GovernByName == \E c \in toolCall.cert :
  /\ toolCall.at = "govern"
  /\ toolCall' = IF c.by = Initiator \/ gate[c.by].status = "approved"
                 THEN [toolCall EXCEPT !.at = "through"] ELSE [at |-> "off", cert |-> {}]
  /\ UNCHANGED <<task, gate, store, handler, refused, belated>>

\* ... and whether its grantor still authorizes it.
Govern == \E c \in toolCall.cert :
  /\ toolCall.at = "govern"
  /\ toolCall' = IF Authorizes(c)
                 THEN [toolCall EXCEPT !.at = "through"] ELSE [at |-> "off", cert |-> {}]
  /\ UNCHANGED <<task, gate, store, handler, refused, belated>>

AnswerCall ==
  /\ toolCall.at = "through"
  /\ toolCall' = [at |-> "off", cert |-> {}]
  /\ UNCHANGED <<task, gate, store, handler, refused, belated>>

HandlerWork(h) ==
  \/ ReadTasks(h) \/ Scope(h) \/ Sign(h) \/ Return(h)
  \/ \E t \in Task : ListLive(h, t)
  \/ \E c \in handler[h].old : Revoke(h, c)

GateNext ==
  \/ \E h \in Handler :
       \/ HandlerWork(h)
       \/ \E t \in Task : Start(h, t) \/ Finish(h, t)
       \/ \E x \in Approval :
            (\E t \in Task : RequestApproval(h, x, t)) \/ \E status \in {"approved", "rejected"} : Decide(h, x, status)
  \/ (\E t \in Task : Call(t)) \/ Verify \/ Govern \/ AnswerCall

GateSpec == GateInit /\ [][GateNext]_gateVars

-----------------------------------------------------------------------------
(* Properties. *)

GateTypeOK ==
  /\ task \in [Task -> {"pending", "in_progress", "completed"}]
  /\ gate \in [Approval -> [on : SUBSET Task, status : {"none", "pending", "approved", "rejected"}]]
  /\ certs \subseteq Cert /\ issued \in Nat
  /\ handler \in [Handler -> [at : {"off", "tasks", "scope", "next", "revoke"},
       mode : {"issue", "stand down", "retire"}, of : SUBSET Approval, todo : SUBSET Task,
       want : [Task -> Wanted], on : SUBSET Task, old : SUBSET Cert]]
  /\ refused \in BOOLEAN /\ belated \subseteq Task
  /\ toolCall \in [at : {"off", "verify", "govern", "through"}, cert : SUBSET Cert]

AtRest == \A h \in Handler : handler[h].at = "off"

\* A task under way whose approvals are all granted can call its tools: what the
\* session presents is a certificate the gateway accepts.
Reached(t) ==
  task[t] = "in_progress" /\ Granted(Governing[t]) => \E c \in Presented(t) : Authorizes(c)

\* At rest, whichever of a task's start and the decisions came first, one handler issued
\* what the gateway accepts (ApprovalService.resolve: the "step that turns the decision
\* into authority"), unless one signed or revoked on approvals that had changed since it
\* read them: then no certificate may be left, or not the one that speaks.
GrantReaches == AtRest /\ ~refused => \A t \in Task \ belated : Reached(t)

\* A task has one certificate at most.
Sole(t) == \A c, d \in CertsOf(t) : c = d

\* Nor do handlers that overlapped leave a task two ("the record shows one live
\* authority per task rather than two overlapping ones"), with the same exception: a
\* start and a decision that each listed before the other signed leave one each.
OneAuthority == AtRest => \A t \in Task \ belated : Sole(t)

\* While an approval is open on a task none of its calls is let through, on the
\* strength of whatever older certificate, however late the stand-down comes.
NoCallWhileAsked ==
  [][toolCall.at = "govern" /\ toolCall'.at = "through" =>
       \A c \in toolCall.cert, x \in Approval :
         gate[x] # [on |-> {c.task}, status |-> "pending"]]_gateVars

=============================================================================
