---------------------------- MODULE Consultation ----------------------------
(***************************************************************************)
(* Questions put to the agent while a session waits on an approval: they   *)
(* go to a consultation forked from it, which the decision closes          *)
(* (WorkflowExecutionService.start_consultation and send_input,            *)
(* ApprovalService._resume_waiting_session, settle_turn).  Each action is  *)
(* a query or a transaction.                                               *)
(*                                                                         *)
(* Abstracted: what is asked and answered, and what the waiting session    *)
(* does between two waits.                                                 *)
(***************************************************************************)
EXTENDS Naturals

CONSTANTS
  Side,      \* consultations
  Guest,     \* participants' requests
  NoSide,
  MaxWaits,  \* bound: approvals requested, one after the other
  MaxCuts    \* bound: requests and turns that die

ASSUME ConsultationAssumption == NoSide \notin Side /\ MaxWaits \in Nat /\ MaxCuts \in Nat

VARIABLES
  parent,    \* the session: whether it waits, on what, whether its turn is settling,
             \* and who last handed it a decision
  side,      \* side[c]: the row of consultation c
  answering, \* answering[c]: the turn of c
  guest,     \* guest[p]: the request of p
  ruling,    \* the approver's request
  crossed,   \* a consultation was left open past the approver's listing of the open ones
  waits, cuts

sideVars == <<parent, side, answering, guest, ruling, crossed, waits, cuts>>

\* "rest": idle, error or waiting_for_input.
SideStatus == {"none", "rest", "queued", "running", "done"}
Open(c) == side[c] \notin {"none", "done"}
OpenSides == {c \in Side : Open(c)}

NoTurn == [at |-> "off", waits |-> FALSE]
NoGuest == [at |-> "off", side |-> NoSide]
NoRuling == [at |-> "off", found |-> {}]

SideInit ==
  /\ parent = [waiting |-> FALSE, approval |-> "none", settling |-> FALSE, resumed |-> "none"]
  /\ side = [c \in Side |-> "none"]
  /\ answering = [c \in Side |-> NoTurn]
  /\ guest = [p \in Guest |-> NoGuest]
  /\ ruling = NoRuling
  /\ crossed = FALSE
  /\ waits = 0 /\ cuts = 0

\* A row of c becomes s, unless the index of open consultations has another.
Blocked(c, s) == s # "done" /\ \E d \in OpenSides : d # c
Put(c, s) == side' = IF Blocked(c, s) THEN side ELSE [side EXCEPT ![c] = s]

\* What is left open in N, the approver's request does not close.
Unlisted(N) == ~parent.waiting \/ (ruling.at \in {"queue", "close"} /\ ~ N \subseteq ruling.found)

-----------------------------------------------------------------------------
(* The waiting session. *)

RequestDecision ==
  /\ ~parent.waiting /\ ~parent.settling /\ parent.approval = "none" /\ waits < MaxWaits
  /\ parent' = [parent EXCEPT !.approval = "pending", !.resumed = "none"]
  /\ waits' = waits + 1
  /\ UNCHANGED <<side, answering, guest, ruling, crossed, cuts>>

\* settle_turn, up to set_state: the turn ends waiting on the approval.
Pause ==
  /\ ~parent.waiting /\ ~parent.settling /\ parent.approval # "none"
  /\ parent' = [parent EXCEPT !.waiting = TRUE, !.settling = TRUE]
  /\ crossed' = (crossed /\ ruling # NoRuling)
  /\ UNCHANGED <<side, answering, guest, ruling, waits, cuts>>

\* _resume_if_decided: a decision made during the turn is queued by its end.
ResumeIfDecided ==
  /\ parent.settling
  /\ parent' = IF parent.waiting /\ parent.approval = "decided"
               THEN [waiting |-> FALSE, approval |-> "none", settling |-> FALSE,
                     resumed |-> "settle"]
               ELSE [parent EXCEPT !.settling = FALSE]
  /\ UNCHANGED <<side, answering, guest, ruling, crossed, waits, cuts>>

\* Its initiator answers a form it waits on too: a turn that leaves the approval.
AnswerForm ==
  /\ parent.waiting /\ ~parent.settling
  /\ parent' = [parent EXCEPT !.waiting = FALSE]
  /\ UNCHANGED <<side, answering, guest, ruling, crossed, waits, cuts>>

-----------------------------------------------------------------------------
(* The decision: resolve, then _resume_waiting_session. *)

Resolve ==
  /\ parent.approval = "pending" /\ ruling = NoRuling
  /\ parent' = [parent EXCEPT !.approval = "decided"]
  /\ ruling' = [NoRuling EXCEPT !.at = "list"]
  /\ UNCHANGED <<side, answering, guest, crossed, waits, cuts>>

\* A session that is not waiting on it finds the decision when its turn ends.
ListSides ==
  /\ ruling.at = "list"
  /\ ruling' = IF parent.waiting /\ parent.approval = "decided"
               THEN [at |-> "queue", found |-> OpenSides]
               ELSE NoRuling
  /\ UNCHANGED <<parent, side, answering, guest, crossed, waits, cuts>>

\* Not handed to a session that is busy by now.
HandOver ==
  /\ ruling.at = "queue"
  /\ parent' = IF parent.waiting /\ parent.approval = "decided"
               THEN [parent EXCEPT !.waiting = FALSE, !.approval = "none", !.resumed = "approver"]
               ELSE parent
  /\ ruling' = [ruling EXCEPT !.at = "close"]
  /\ UNCHANGED <<side, answering, guest, crossed, waits, cuts>>

CloseSide(c) ==
  /\ ruling.at = "close" /\ c \in ruling.found
  /\ Put(c, "done")
  /\ ruling' = [ruling EXCEPT !.found = @ \ {c}]
  /\ UNCHANGED <<parent, answering, guest, crossed, waits, cuts>>

EndRuling ==
  /\ ruling.at = "close" /\ ruling.found = {}
  /\ ruling' = NoRuling
  /\ UNCHANGED <<parent, side, answering, guest, crossed, waits, cuts>>

-----------------------------------------------------------------------------
(* A question. *)

StepGuest(p, g) == guest' = [guest EXCEPT ![p] = g]

\* start_consultation: only while the session waits.
BeginQuestion(p) ==
  /\ guest[p] = NoGuest /\ parent.waiting
  /\ StepGuest(p, [NoGuest EXCEPT !.at = "open"])
  /\ UNCHANGED <<parent, side, answering, ruling, crossed, waits, cuts>>

OpenSide(p) ==
  /\ guest[p].at = "open"
  /\ IF OpenSides = {} THEN StepGuest(p, [NoGuest EXCEPT !.at = "create"])
     ELSE \E c \in OpenSides : StepGuest(p, [at |-> "queue", side |-> c])
  /\ UNCHANGED <<parent, side, answering, ruling, crossed, waits, cuts>>

\* create_branch: or the one a concurrent question has opened.
CreateSide(p) ==
  /\ guest[p].at = "create"
  /\ IF OpenSides = {}
     THEN \E c \in Side : /\ side[c] = "none"
                          /\ side' = [side EXCEPT ![c] = "rest"]
                          /\ StepGuest(p, [at |-> "queue", side |-> c])
     ELSE /\ \E c \in OpenSides : StepGuest(p, [at |-> "queue", side |-> c])
          /\ UNCHANGED side
  /\ UNCHANGED <<parent, answering, ruling, crossed, waits, cuts>>

\* send_input, to a consultation that is not finished.
BeginRemark(p, c) ==
  /\ guest[p] = NoGuest /\ Open(c)
  /\ StepGuest(p, [at |-> "queue", side |-> c])
  /\ UNCHANGED <<parent, side, answering, ruling, crossed, waits, cuts>>

\* queue_input: refused while it is queued or running, not once it is done.
QueueQuestion(p) ==
  LET c == guest[p].side
  IN /\ guest[p].at = "queue"
     /\ IF side[c] \in {"queued", "running"} THEN UNCHANGED side ELSE Put(c, "queued")
     /\ StepGuest(p, NoGuest)
     /\ UNCHANGED <<parent, answering, ruling, crossed, waits, cuts>>

-----------------------------------------------------------------------------
(* The turn that answers. *)

StepTurn(c, t) == answering' = [answering EXCEPT ![c] = t]

\* run_turn, up to the row read under the lock.
TakeQuestion(c) ==
  /\ answering[c] = NoTurn /\ side[c] \in {"queued", "running"}
  /\ StepTurn(c, [NoTurn EXCEPT !.at = "begin"])
  /\ UNCHANGED <<parent, side, guest, ruling, crossed, waits, cuts>>

BeginAnswer(c) ==
  /\ answering[c].at = "begin"
  /\ Put(c, "running")
  /\ StepTurn(c, IF Blocked(c, "running") THEN NoTurn ELSE [NoTurn EXCEPT !.at = "run"])
  /\ UNCHANGED <<parent, guest, ruling, crossed, waits, cuts>>

\* The agent cannot be resolved: error, whether or not the session waits.
FailAnswer(c) ==
  /\ answering[c].at = "run"
  /\ Put(c, "rest")
  /\ StepTurn(c, NoTurn)
  /\ crossed' = (crossed \/ Unlisted({c}))
  /\ UNCHANGED <<parent, guest, ruling, waits, cuts>>

\* settle_turn reads the session it was opened from ...
EndAnswer(c) ==
  /\ answering[c].at = "run"
  /\ StepTurn(c, [at |-> "settle", waits |-> parent.waiting])
  /\ UNCHANGED <<parent, side, guest, ruling, crossed, waits, cuts>>

\* Mutant: the end of a turn never closes its consultation.
SettleOpen(c) ==
  /\ answering[c].at = "settle"
  /\ Put(c, "rest")
  /\ StepTurn(c, NoTurn)
  /\ crossed' = (crossed \/ (answering[c].waits /\ Unlisted({c})))
  /\ UNCHANGED <<parent, guest, ruling, waits, cuts>>

\* ... and closes the consultation if that no longer waits.
SettleAnswer(c) ==
  LET stays == answering[c].waits
  IN /\ answering[c].at = "settle"
     /\ Put(c, IF stays THEN "rest" ELSE "done")
     /\ StepTurn(c, NoTurn)
     /\ crossed' = (crossed \/ (stays /\ Unlisted({c})))
     /\ UNCHANGED <<parent, guest, ruling, waits, cuts>>

-----------------------------------------------------------------------------
(* A request, or the process of a turn, dies. *)

Cut(stops) ==
  /\ cuts < MaxCuts /\ cuts' = cuts + 1
  /\ stops
  /\ UNCHANGED <<parent, side, waits>>

CutQuestion(p) ==
  Cut(/\ guest[p] # NoGuest
      /\ StepGuest(p, NoGuest)
      /\ crossed' = (crossed \/ (guest[p].at = "queue" /\ Unlisted({guest[p].side})))
      /\ UNCHANGED <<answering, ruling>>)

\* A turn cut before its end is taken again.
CutAnswer(c) ==
  Cut(/\ answering[c] # NoTurn
      /\ StepTurn(c, NoTurn)
      /\ UNCHANGED <<guest, ruling, crossed>>)

CutRuling ==
  Cut(/\ ruling # NoRuling
      /\ ruling' = NoRuling
      /\ crossed' = TRUE
      /\ UNCHANGED <<answering, guest>>)

SideNext ==
  \/ RequestDecision \/ Pause \/ ResumeIfDecided \/ AnswerForm
  \/ Resolve \/ ListSides \/ HandOver \/ EndRuling \/ CutRuling
  \/ \E p \in Guest : \/ BeginQuestion(p) \/ OpenSide(p) \/ CreateSide(p)
                      \/ QueueQuestion(p) \/ CutQuestion(p)
                      \/ \E c \in Side : BeginRemark(p, c)
  \/ \E c \in Side : \/ CloseSide(c) \/ TakeQuestion(c) \/ BeginAnswer(c) \/ FailAnswer(c)
                     \/ EndAnswer(c) \/ SettleAnswer(c) \/ CutAnswer(c)

SideSpec == SideInit /\ [][SideNext]_sideVars

-----------------------------------------------------------------------------
(* Properties. *)

SideTypeOK ==
  /\ parent \in [waiting : BOOLEAN, approval : {"none", "pending", "decided"},
                 settling : BOOLEAN, resumed : {"none", "approver", "settle"}]
  /\ side \in [Side -> SideStatus]
  /\ answering \in [Side -> [at : {"off", "begin", "run", "settle"}, waits : BOOLEAN]]
  /\ guest \in [Guest -> [at : {"off", "open", "create", "queue"}, side : Side \cup {NoSide}]]
  /\ ruling \in [at : {"off", "list", "queue", "close"}, found : SUBSET Side]
  /\ crossed \in BOOLEAN
  /\ waits \in 0..MaxWaits /\ cuts \in 0..MaxCuts

\* Nobody writes to a consultation, and none has a turn to run.
SidesAtRest ==
  /\ ruling = NoRuling
  /\ \A p \in Guest : guest[p] = NoGuest
  /\ \A c \in Side : answering[c] = NoTurn /\ side[c] \notin {"queued", "running"}

\* "Any consultation opened on that session is closed with it ... One still
\* answering closes when its turn settles" (_resume_waiting_session): after an
\* approver's request has handed the decision over, no consultation stays open
\* whatever questions came in between, unless one was put to rest after the request
\* had listed the open ones, by an answer that had read the session as waiting or by
\* somebody who died.
DecisionCloses == parent.resumed = "approver" /\ ~crossed /\ SidesAtRest => OpenSides = {}

=============================================================================
