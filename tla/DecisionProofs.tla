--------------------------- MODULE DecisionProofs ---------------------------
(***************************************************************************)
(* Proofs about what people decide.  Elicitation, for any number of        *)
(* requests that answer: the waiting call and the people who answer agree  *)
(* on what became of the question.  Consultation, for any number of        *)
(* questions and consultations: what an approver's decision leaves open.   *)
(* ApprovalGate, for any run's tasks, dependencies, approvals and          *)
(* overlapping handlers: what an approval stops, and the one certificate   *)
(* it leads to.                                                            *)
(***************************************************************************)
EXTENDS Elicitation, Consultation, ApprovalGate, FiniteSetTheorems, WellFoundedInduction, TLAPS

-----------------------------------------------------------------------------
(* Elicitation: the call, the answers and the row. *)

\* A question is stored once, by the call; from then on it is asked or closed, and
\* a call that saw it closed relies on its staying so.
CallInv ==
  /\ call.at \in {"check", "create"} => question \in {"none", "gone"}
  /\ call.at \in {"stored", "show", "close"} \cup Waiting => question # "none"
  /\ call.at \in {"reread", "done"} => question # "pending"

AskInv == AskTypeOK /\ CallInv /\ AnswerIsResult /\ ReceiptIsTrue /\ OpenOnlyWhileWaited

\* Before the call has stored anything there is nothing to answer.
LEMMA AskInitInv == AskInit => AskInv
<1> SUFFICES ASSUME AskInit PROVE AskInv
  OBVIOUS
<1> USE DEF AskInit, NoReply, Closed, Said, Ended, Asking, Waiting
<1>1. AskTypeOK
  BY DEF AskTypeOK
<1>2. CallInv /\ AnswerIsResult /\ ReceiptIsTrue /\ OpenOnlyWhileWaited
  BY DEF CallInv, AnswerIsResult, ReceiptIsTrue, OpenOnlyWhileWaited
<1> QED
  BY <1>1, <1>2 DEF AskInv

\* No step of the call, of a person who answers or of the run's end breaks it.
LEMMA AskStepInv == AskInv /\ [AskNext]_askVars => AskInv'
<1> SUFFICES ASSUME AskInv, [AskNext]_askVars PROVE AskInv'
  OBVIOUS
<1> USE DEF AskInv, AskTypeOK, CallInv, AnswerIsResult, ReceiptIsTrue, OpenOnlyWhileWaited,
            Closed, Said, Ended, Asking, Waiting, Becomes, Returns, ResultOf
<1>1. CASE Check
  BY <1>1 DEF Check
<1>2. CASE Create
  BY <1>2 DEF Create
<1>3. CASE Note
  BY <1>3 DEF Note
<1>4. CASE Show
  BY <1>4 DEF Show
<1>5. CASE Poll
  BY <1>5 DEF Poll
<1>6. CASE ExpireQuestion
  BY <1>6 DEF ExpireQuestion
<1>7. CASE Reread
  BY <1>7 DEF Reread
<1>8. CASE Close
  BY <1>8 DEF Close
<1>9. CASE Stop
  BY <1>9 DEF Stop
<1>10. CASE Break
  BY <1>10 DEF Break
<1>11. CASE Lapse
  BY <1>11 DEF Lapse
<1>12. CASE DeleteRun
  BY <1>12 DEF DeleteRun
<1>13. ASSUME NEW a \in Answer, Write(a) PROVE AskInv'
  BY <1>13 DEF Write, Accepted
<1>14. ASSUME NEW a \in Answer, NEW says \in Said, BeginReply(a, says) PROVE AskInv'
  BY <1>14 DEF BeginReply
<1>15. CASE UNCHANGED askVars
  BY <1>15 DEF askVars
<1> QED
  BY <1>1, <1>2, <1>3, <1>4, <1>5, <1>6, <1>7, <1>8, <1>9, <1>10, <1>11, <1>12, <1>13, <1>14, <1>15
     DEF AskNext, Proceed

-----------------------------------------------------------------------------
\* The invariant, in every behaviour.
LEMMA AskInvariant == AskSpec => []AskInv
BY AskInitInv, AskStepInv, PTL DEF AskSpec

\* What the row, the call and the requests hold is of its kind.
THEOREM AskTypeCorrect == AskSpec => []AskTypeOK
<1>1. AskInv => AskTypeOK
  BY DEF AskInv
<1> QED
  BY <1>1, AskInvariant, PTL

\* However many people answer and whenever the deadline passes, the server is
\* handed the outcome the row records.
THEOREM AnswersArrive == AskSpec => []AnswerIsResult
<1>1. AskInv => AnswerIsResult
  BY DEF AskInv
<1> QED
  BY <1>1, AskInvariant, PTL

\* However many people answer, whoever was told that their answer counted is the
\* one the row names.
THEOREM ReceiptsAreTrue == AskSpec => []ReceiptIsTrue
<1>1. AskInv => ReceiptIsTrue
  BY DEF AskInv
<1> QED
  BY <1>1, AskInvariant, PTL

\* A call that ended other than by a crash leaves no question open.
THEOREM NoQuestionLeftOpen == AskSpec => []OpenOnlyWhileWaited
<1>1. AskInv => OpenOnlyWhileWaited
  BY DEF AskInv
<1> QED
  BY <1>1, AskInvariant, PTL


-----------------------------------------------------------------------------
(* Consultation: what the decision leaves open. *)

\* A request that is about to queue a message knows the consultation it is for.
QuestionInv == \A p \in Guest : guest[p].at = "queue" => guest[p].side \in Side

\* A consultation whose turn is under way is not at rest.
AnswerInv == \A c \in Side : answering[c] # NoTurn => side[c] \in {"queued", "running", "done"}

\* The partial unique index: one open consultation of a session.
OneOpen == \A c, d \in OpenSides : c = d

\* A session the approver's request resumed has neither waited nor asked since.
ResumedInv == parent.resumed = "approver" => ~parent.waiting /\ parent.approval = "none"

\* Somebody will close c: the approver's request, or the end of a turn that has begun,
\* is queued or is about to be.
Handled(c) ==
  \/ ruling.at \in {"queue", "close"} /\ c \in ruling.found
  \/ \E p \in Guest : guest[p].at = "queue" /\ guest[p].side = c
  \/ side[c] \in {"queued", "running"}

\* From the approver's listing to the end of what the handed-over decision resumed.
HandledInv ==
  (ruling.at = "queue" \/ parent.resumed = "approver") /\ ~crossed => \A c \in OpenSides : Handled(c)

SideInv == SideTypeOK /\ QuestionInv /\ AnswerInv /\ OneOpen /\ ResumedInv /\ HandledInv

\* Putting a row: it takes the status unless another consultation is open, and a
\* consultation that is open is never refused.
LEMMA PutMoves ==
  ASSUME SideTypeOK, OneOpen, NEW c \in Side, NEW s \in SideStatus \ {"none"}, Put(c, s)
  PROVE  /\ side' \in [Side -> SideStatus]
         /\ OneOpen'
         /\ \A d \in Side : d # c => side'[d] = side[d]
         /\ Open(c) => side'[c] = s
         /\ side'[c] \in {side[c], s}
BY DEF SideTypeOK, SideStatus, OneOpen, Put, Blocked, OpenSides, Open

\* At first there is no consultation.
LEMMA SideInitInv == SideInit => SideInv
<1> SUFFICES ASSUME SideInit PROVE SideInv
  OBVIOUS
<1> USE DEF SideInit, NoTurn, NoGuest, NoRuling
<1>1. SideTypeOK
  <2>1. waits \in 0..MaxWaits /\ cuts \in 0..MaxCuts
    BY ConsultationAssumption
  <2>2. side \in [Side -> SideStatus] /\ ruling \in [at : {"off", "list", "queue", "close"}, found : SUBSET Side]
    BY DEF SideStatus
  <2> QED
    BY <2>1, <2>2 DEF SideTypeOK
<1>2. OpenSides = {}
  BY DEF OpenSides, Open
<1>3. QuestionInv /\ AnswerInv /\ OneOpen /\ ResumedInv /\ HandledInv
  BY <1>2 DEF QuestionInv, AnswerInv, OneOpen, ResumedInv, HandledInv
<1> QED
  BY <1>1, <1>3 DEF SideInv

\* A step that moves no consultation and no request for one: only the approver's
\* request, a turn's own reading or the session moved.
LEMMA StillSides ==
  ASSUME SideInv, SideTypeOK', side' = side, guest' = guest
  PROVE  /\ QuestionInv' /\ OneOpen'
         /\ (answering' = answering) => AnswerInv'
BY DEF SideInv, QuestionInv, OneOpen, AnswerInv, OpenSides, Open

\* The steps of the session.
LEMMA SessionSideStep ==
  ASSUME SideInv, RequestDecision \/ Pause \/ ResumeIfDecided \/ AnswerForm
  PROVE  SideInv'
<1> USE DEF SideInv
<1> DEFINE Session == [waiting : BOOLEAN, approval : {"none", "pending", "decided"},
                       settling : BOOLEAN, resumed : {"none", "approver", "settle"}]
<1>0. parent \in Session
  BY DEF SideTypeOK
<1>2. /\ side' = side /\ guest' = guest /\ answering' = answering /\ ruling' = ruling
      /\ cuts' = cuts /\ waits' \in 0..MaxWaits /\ crossed' \in BOOLEAN
  BY ConsultationAssumption DEF SideTypeOK, RequestDecision, Pause, ResumeIfDecided, AnswerForm
<1>3. /\ parent' \in Session
      /\ ruling.at = "queue" => crossed' = crossed
      /\ parent'.resumed = "approver" =>
           /\ parent.resumed = "approver" /\ crossed' = crossed
           /\ parent'.approval = parent.approval /\ ~parent'.waiting
  <2>1. CASE RequestDecision
    BY <1>0, <2>1 DEF RequestDecision
  <2>2. CASE Pause
    <3>1. /\ parent.approval # "none" /\ parent.resumed # "approver"
          /\ parent' = [parent EXCEPT !.waiting = TRUE, !.settling = TRUE]
          /\ crossed' = (crossed /\ ruling # NoRuling)
      BY <2>2 DEF Pause, ResumedInv
    <3>2. parent' \in Session /\ parent'.resumed = parent.resumed
      BY <1>0, <3>1
    <3>3. ruling.at = "queue" => ruling # NoRuling
      BY DEF NoRuling
    <3>4. crossed \in BOOLEAN
      BY DEF SideTypeOK
    <3> QED
      BY <3>1, <3>2, <3>3, <3>4
  <2>3. CASE ResumeIfDecided
    BY <1>0, <2>3 DEF ResumeIfDecided, ResumedInv
  <2>4. CASE AnswerForm
    BY <1>0, <2>4 DEF AnswerForm
  <2> QED
    BY <2>1, <2>2, <2>3, <2>4
<1>4. SideTypeOK' /\ ResumedInv'
  BY <1>2, <1>3 DEF SideTypeOK, ResumedInv
<1>5. HandledInv'
  BY <1>2, <1>3 DEF HandledInv, Handled, OpenSides, Open
<1> QED
  BY <1>2, <1>4, <1>5, StillSides

\* The steps of the approver's request that close nothing.
LEMMA RulingStep ==
  ASSUME SideInv, Resolve \/ ListSides \/ HandOver \/ EndRuling \/ CutRuling
  PROVE  SideInv'
<1> USE DEF SideInv
<1>1. SideTypeOK'
  <2>1. CASE Resolve
    BY <2>1 DEF SideTypeOK, Resolve, NoRuling
  <2>2. CASE ListSides
    BY <2>2 DEF SideTypeOK, ListSides, OpenSides, NoRuling
  <2>3. CASE HandOver
    BY <2>3 DEF SideTypeOK, HandOver
  <2>4. CASE EndRuling
    BY <2>4 DEF SideTypeOK, EndRuling, NoRuling
  <2>5. CASE CutRuling
    BY <2>5, ConsultationAssumption DEF SideTypeOK, CutRuling, Cut, NoRuling
  <2> QED
    BY <2>1, <2>2, <2>3, <2>4, <2>5
<1>2. side' = side /\ guest' = guest /\ answering' = answering
  BY DEF Resolve, ListSides, HandOver, EndRuling, CutRuling, Cut
<1>3. ResumedInv'
  BY DEF SideTypeOK, ResumedInv, Resolve, ListSides, HandOver, EndRuling, CutRuling, Cut
<1>4. HandledInv'
  <2>1. CASE Resolve
    BY <1>2, <2>1 DEF SideTypeOK, ResumedInv, HandledInv, Resolve, NoRuling
  <2>2. CASE ListSides
    <3>1. CASE ruling'.at = "queue"
      BY <1>2, <2>2, <3>1 DEF HandledInv, Handled, ListSides, NoRuling, OpenSides, Open
    <3>2. CASE ruling'.at # "queue"
      BY <1>2, <2>2, <3>2 DEF HandledInv, Handled, ListSides, OpenSides, Open
    <3> QED
      BY <3>1, <3>2
  <2>3. CASE HandOver
    BY <1>2, <2>3 DEF SideTypeOK, HandledInv, Handled, HandOver, OpenSides, Open
  <2>4. CASE EndRuling
    BY <1>2, <2>4 DEF SideTypeOK, HandledInv, Handled, EndRuling, NoRuling, OpenSides, Open
  <2>5. CASE CutRuling
    BY <2>5 DEF HandledInv, CutRuling, Cut
  <2> QED
    BY <2>1, <2>2, <2>3, <2>4, <2>5
<1> QED
  BY <1>1, <1>2, <1>3, <1>4, StillSides

\* A request for a consultation.
LEMMA GuestStep ==
  ASSUME SideInv, NEW p \in Guest,
         \/ BeginQuestion(p) \/ OpenSide(p) \/ CreateSide(p) \/ QueueQuestion(p) \/ CutQuestion(p)
         \/ \E c \in Side : BeginRemark(p, c)
  PROVE  SideInv'
<1> USE DEF SideInv
<1>1. ResumedInv'
  BY DEF ResumedInv, BeginQuestion, OpenSide, CreateSide, QueueQuestion, CutQuestion, Cut, BeginRemark
<1>2. ASSUME BeginQuestion(p) \/ OpenSide(p) \/ \E c \in Side : BeginRemark(p, c)
      PROVE  SideInv'
  <2>1. /\ UNCHANGED <<parent, side, answering, ruling, crossed, waits, cuts>>
        /\ guest[p].at # "queue"
        /\ \E g \in [at : {"open", "create", "queue"}, side : Side \cup {NoSide}] :
             /\ guest' = [guest EXCEPT ![p] = g]
             /\ g.at = "queue" => g.side \in Side
    BY <1>2 DEF SideTypeOK, BeginQuestion, OpenSide, BeginRemark, StepGuest, NoGuest, OpenSides
  <2>2. SideTypeOK' /\ QuestionInv' /\ AnswerInv' /\ OneOpen'
    BY <2>1 DEF SideTypeOK, QuestionInv, AnswerInv, OneOpen, OpenSides, Open
  <2>3. HandledInv'
    BY <2>1 DEF SideTypeOK, HandledInv, Handled, OpenSides, Open
  <2> QED
    BY <1>1, <2>2, <2>3
<1>3. ASSUME CreateSide(p) PROVE SideInv'
  <2>1. PICK c \in Side :
          /\ UNCHANGED <<parent, answering, ruling, crossed, waits, cuts>>
          /\ guest[p].at = "create"
          /\ guest' = [guest EXCEPT ![p] = [at |-> "queue", side |-> c]]
          /\ \/ c \in OpenSides /\ side' = side
             \/ OpenSides = {} /\ side[c] = "none" /\ side' = [side EXCEPT ![c] = "rest"]
    BY <1>3 DEF CreateSide, StepGuest, OpenSides
  <2>2. SideTypeOK' /\ QuestionInv'
    BY <2>1 DEF SideTypeOK, SideStatus, QuestionInv
  <2>3. OneOpen'
    BY <2>1 DEF SideTypeOK, OneOpen, OpenSides, Open
  <2>4. AnswerInv'
    BY <2>1 DEF SideTypeOK, AnswerInv
  <2>5. HandledInv'
    BY <2>1 DEF SideTypeOK, HandledInv, Handled, OpenSides, Open
  <2> QED
    BY <1>1, <2>2, <2>3, <2>4, <2>5
<1>4. ASSUME QueueQuestion(p) PROVE SideInv'
  <2> DEFINE c == guest[p].side
  <2>1. /\ UNCHANGED <<parent, answering, ruling, crossed, waits, cuts>>
        /\ guest[p].at = "queue" /\ c \in Side
        /\ guest' = [guest EXCEPT ![p] = NoGuest]
        /\ \/ side[c] \in {"queued", "running"} /\ side' = side
           \/ Put(c, "queued")
    BY <1>4 DEF QueueQuestion, StepGuest, QuestionInv
  <2> HIDE DEF c
  <2>2. /\ side' \in [Side -> SideStatus]
        /\ OneOpen'
        /\ \A d \in Side : d # c => side'[d] = side[d]
        /\ side[c] \in {"queued", "running"} \/ ~Open(c) \/ side'[c] = "queued"
        /\ side'[c] \in {side[c], "queued"}
    BY <2>1, PutMoves DEF SideTypeOK, SideStatus, OneOpen, OpenSides, Open
  <2>3. SideTypeOK' /\ QuestionInv'
    BY <2>1, <2>2 DEF SideTypeOK, QuestionInv, NoGuest
  <2>4. AnswerInv'
    BY <2>1, <2>2 DEF AnswerInv
  <2>5. HandledInv'
    BY <2>1, <2>2 DEF SideTypeOK, HandledInv, Handled, OpenSides, Open, c
  <2> QED
    BY <1>1, <2>2, <2>3, <2>4, <2>5
<1>5. ASSUME CutQuestion(p) PROVE SideInv'
  <2>1. /\ UNCHANGED <<parent, side, answering, ruling, waits>>
        /\ cuts < MaxCuts /\ cuts' = cuts + 1
        /\ guest' = [guest EXCEPT ![p] = NoGuest]
        /\ crossed' = (crossed \/ (guest[p].at = "queue" /\ Unlisted({guest[p].side})))
    BY <1>5 DEF CutQuestion, Cut, StepGuest
  <2>2. SideTypeOK' /\ QuestionInv' /\ AnswerInv' /\ OneOpen'
    BY <2>1, ConsultationAssumption
       DEF SideTypeOK, QuestionInv, AnswerInv, OneOpen, OpenSides, Open, NoGuest
  <2>3. SUFFICES ASSUME ruling.at = "queue" \/ parent.resumed = "approver", ~crossed',
                        NEW d \in OpenSides
                 PROVE  Handled(d)'
    BY <1>1, <2>1, <2>2 DEF HandledInv, OpenSides, Open
  <2>4. Handled(d) /\ (guest[p].at = "queue" => ~Unlisted({guest[p].side}))
    BY <2>1, <2>3 DEF HandledInv
  <2>5. guest[p].at = "queue" => ruling.at \in {"queue", "close"} /\ guest[p].side \in ruling.found
    BY <2>3, <2>4 DEF Unlisted, ResumedInv
  <2> QED
    BY <2>1, <2>4, <2>5 DEF SideTypeOK, Handled
<1> QED
  BY <1>2, <1>3, <1>4, <1>5

\* A consultation's turn, and its closing.
LEMMA TurnSideStep ==
  ASSUME SideInv, NEW c \in Side,
         \/ CloseSide(c) \/ TakeQuestion(c) \/ BeginAnswer(c) \/ FailAnswer(c)
         \/ EndAnswer(c) \/ SettleAnswer(c) \/ CutAnswer(c)
  PROVE  SideInv'
<1> USE DEF SideInv
<1>1. ResumedInv' /\ QuestionInv'
  BY DEF ResumedInv, QuestionInv, CloseSide, TakeQuestion, BeginAnswer, FailAnswer, EndAnswer,
         SettleAnswer, CutAnswer, Cut
<1>2. ASSUME TakeQuestion(c) \/ EndAnswer(c) \/ CutAnswer(c) PROVE SideInv'
  <2>1. /\ UNCHANGED <<parent, side, guest, ruling, crossed, waits>>
        /\ cuts' \in 0..MaxCuts
        /\ answering[c] # NoTurn \/ side[c] \in {"queued", "running"}
        /\ \E t \in [at : {"off", "begin", "run", "settle"}, waits : BOOLEAN] :
             answering' = [answering EXCEPT ![c] = t]
    <3>1. CASE TakeQuestion(c)
      BY <3>1 DEF SideTypeOK, TakeQuestion, StepTurn, NoTurn
    <3>2. CASE EndAnswer(c)
      <4>1. answering[c] # NoTurn /\ cuts \in 0..MaxCuts
        BY <3>2 DEF EndAnswer, NoTurn, SideTypeOK
      <4>2. [at |-> "settle", waits |-> parent.waiting]
              \in [at : {"off", "begin", "run", "settle"}, waits : BOOLEAN]
        BY DEF SideTypeOK
      <4> QED
        BY <3>2, <4>1, <4>2 DEF EndAnswer, StepTurn
    <3>3. CASE CutAnswer(c)
      <4>1. cuts' \in 0..MaxCuts /\ NoTurn \in [at : {"off", "begin", "run", "settle"}, waits : BOOLEAN]
        BY <3>3, ConsultationAssumption DEF CutAnswer, Cut, SideTypeOK, NoTurn
      <4> QED
        BY <3>3, <4>1 DEF CutAnswer, Cut, StepTurn
    <3> QED
      BY <1>2, <3>1, <3>2, <3>3
  <2>2. SideTypeOK' /\ AnswerInv' /\ OneOpen'
    BY <2>1 DEF SideTypeOK, AnswerInv, OneOpen, OpenSides, Open
  <2>3. HandledInv'
    BY <2>1 DEF HandledInv, Handled, OpenSides, Open
  <2> QED
    BY <1>1, <2>2, <2>3
<1>3. ASSUME CloseSide(c) PROVE SideInv'
  <2>1. /\ UNCHANGED <<parent, answering, guest, crossed, waits, cuts>>
        /\ ruling.at = "close" /\ ruling' = [ruling EXCEPT !.found = ruling.found \ {c}]
        /\ side' = [side EXCEPT ![c] = "done"]
    BY <1>3 DEF CloseSide, Put, Blocked
  <2>2. SideTypeOK' /\ AnswerInv' /\ OneOpen'
    BY <2>1 DEF SideTypeOK, SideStatus, AnswerInv, OneOpen, OpenSides, Open
  <2>3. HandledInv'
    BY <2>1 DEF SideTypeOK, HandledInv, Handled, OpenSides, Open
  <2> QED
    BY <1>1, <2>2, <2>3
<1>4. ASSUME BeginAnswer(c) PROVE SideInv'
  <2>1. /\ UNCHANGED <<parent, guest, ruling, crossed, waits, cuts>>
        /\ answering[c] # NoTurn
        /\ Put(c, "running")
        /\ answering' = [answering EXCEPT ![c] = IF Blocked(c, "running") THEN NoTurn
                                                 ELSE [NoTurn EXCEPT !.at = "run"]]
        /\ ~Blocked(c, "running") => side'[c] = "running"
    <3>0. answering[c] # NoTurn
      BY <1>4 DEF BeginAnswer, NoTurn
    <3>2. ~Blocked(c, "running") => side'[c] = "running"
      BY <1>4 DEF SideTypeOK, BeginAnswer, Put
    <3> QED
      BY <1>4, <3>0, <3>2 DEF BeginAnswer, StepTurn
  <2>2. /\ side' \in [Side -> SideStatus]
        /\ OneOpen'
        /\ \A d \in Side : d # c => side'[d] = side[d]
        /\ Open(c) => side'[c] = "running"
        /\ side'[c] \in {side[c], "running"}
    BY <2>1, PutMoves DEF SideStatus
  <2> HIDE DEF Blocked
  <2>3. SideTypeOK' /\ AnswerInv'
    <3> DEFINE Turn == [at : {"off", "begin", "run", "settle"}, waits : BOOLEAN]
    <3>1. NoTurn \in Turn
      BY DEF NoTurn
    <3>2. [NoTurn EXCEPT !.at = "run"] \in Turn
      BY <3>1
    <3>3. CASE Blocked(c, "running")
      BY <2>1, <2>2, <3>1, <3>3 DEF SideTypeOK, AnswerInv
    <3>4. CASE ~Blocked(c, "running")
      BY <2>1, <2>2, <3>2, <3>4 DEF SideTypeOK, AnswerInv
    <3> QED
      BY <3>3, <3>4
  <2>4. HandledInv'
    BY <2>1, <2>2 DEF HandledInv, Handled, OpenSides, Open
  <2> QED
    BY <1>1, <2>2, <2>3, <2>4
<1>5. ASSUME FailAnswer(c) \/ SettleAnswer(c) PROVE SideInv'
  <2>1. PICK s \in {"rest", "done"} :
        /\ UNCHANGED <<parent, guest, ruling, waits, cuts>>
        /\ Put(c, s)
        /\ answering' = [answering EXCEPT ![c] = NoTurn]
        /\ crossed' = (crossed \/ (s = "rest" /\ Unlisted({c})))
    BY <1>5 DEF FailAnswer, SettleAnswer, StepTurn
  <2>2. /\ side' \in [Side -> SideStatus]
        /\ OneOpen'
        /\ \A d \in Side : d # c => side'[d] = side[d]
        /\ Open(c) => side'[c] = s
        /\ side'[c] \in {side[c], s}
    BY <2>1, PutMoves DEF SideStatus
  <2>3. SideTypeOK' /\ AnswerInv'
    BY <2>1, <2>2 DEF SideTypeOK, AnswerInv, NoTurn
  <2>4. HandledInv'
    BY <2>1, <2>2 DEF SideTypeOK, HandledInv, Handled, OpenSides, Open, Unlisted, ResumedInv
  <2> QED
    BY <1>1, <2>2, <2>3, <2>4
<1> QED
  BY <1>2, <1>3, <1>4, <1>5

\* The invariant, in every behaviour.
LEMMA SideInvariant == SideSpec => []SideInv
<1>1. SideInv /\ [SideNext]_sideVars => SideInv'
  <2> SUFFICES ASSUME SideInv, [SideNext]_sideVars PROVE SideInv'
    OBVIOUS
  <2>1. CASE UNCHANGED sideVars
    BY <2>1 DEF sideVars, SideInv, SideTypeOK, QuestionInv, AnswerInv, OneOpen, ResumedInv, HandledInv,
                Handled, OpenSides, Open
  <2>2. CASE SideNext
    BY <2>2, SessionSideStep, RulingStep, GuestStep, TurnSideStep DEF SideNext
  <2> QED
    BY <2>1, <2>2
<1> QED
  BY <1>1, SideInitInv, PTL DEF SideSpec

\* The rows, turns and requests of a session's consultations keep their types.
THEOREM SideTypeCorrect == SideSpec => []SideTypeOK
<1>1. SideInv => SideTypeOK
  BY DEF SideInv
<1> QED
  BY <1>1, SideInvariant, PTL

\* However many consultations and questions there are: after an approver's request has
\* handed the decision over and everything came to rest, none is left open unless it was
\* put to rest behind the back of the request's listing.
THEOREM DecisionsClose == SideSpec => []DecisionCloses
<1>1. SideInv => DecisionCloses
  <2> SUFFICES ASSUME SideInv, parent.resumed = "approver", ~crossed, SidesAtRest
               PROVE  OpenSides = {}
    BY DEF DecisionCloses
  <2>1. \A c \in OpenSides : Handled(c)
    BY DEF SideInv, HandledInv
  <2>2. ruling.at = "off" /\ \A p \in Guest : guest[p].at = "off"
    BY DEF SidesAtRest, NoRuling, NoGuest
  <2>3. \A c \in Side : ~Handled(c)
    BY <2>2 DEF SidesAtRest, Handled
  <2> QED
    BY <2>1, <2>3 DEF OpenSides
<1> QED
  BY <1>1, SideInvariant, PTL

-----------------------------------------------------------------------------
(* ApprovalGate: which approvals govern a task.  The operators below are     *)
(* those of the specification, of any table g of approvals and any choice A  *)
(* of the one that gates each task.                                          *)

ApprovalRow == [on : SUBSET Task, status : {"none", "pending", "approved", "rejected"}]
GateKind == [Approval -> ApprovalRow]
Gates == [Task -> SUBSET Approval]

NewestOf(S) == {x \in S : \A y \in S : y <= x}
OpenOn(g, t) == {x \in Approval : g[x].on = {t} /\ g[x].status = "pending"}
AllOn(g, t) == {x \in Approval : g[x].on = {t}}
ActiveOf(g) == [t \in Task |-> NewestOf(IF OpenOn(g, t) # {} THEN OpenOn(g, t) ELSE AllOn(g, t))]
WalkUp(A, t) == {u \in Task : \A S \in SUBSET Task :
                   t \in S /\ (\A v \in S : A[v] = {} => Deps[v] \subseteq S) => u \in S}
GovernsOf(A, t) == UNION {A[u] : u \in WalkUp(A, t)}

LEMMA GoverningIs ==
  /\ Governing = [t \in Task |-> GovernsOf(ActiveOf(gate), t)]
  /\ Governing' = [t \in Task |-> GovernsOf(ActiveOf(gate'), t)]
<1>1. \A t \in Task : Active(t) = ActiveOf(gate)[t] /\ Active(t)' = ActiveOf(gate')[t]
  <2> SUFFICES ASSUME NEW t \in Task
               PROVE  Active(t) = ActiveOf(gate)[t] /\ Active(t)' = ActiveOf(gate')[t]
    OBVIOUS
  <2>1. OpenOn(gate, t) = {x \in {y \in Approval : gate[y].on = {t}} : gate[x].status = "pending"}
    BY DEF OpenOn
  <2>2. OpenOn(gate', t) = {x \in {y \in Approval : gate'[y].on = {t}} : gate'[x].status = "pending"}
    BY DEF OpenOn
  <2> QED
    BY <2>1, <2>2 DEF Active, ActiveOf, NewestOf, AllOn
<1>2. \A t \in Task : Above(t) = WalkUp(ActiveOf(gate), t) /\ Above(t)' = WalkUp(ActiveOf(gate'), t)
  BY <1>1 DEF Above, WalkUp
<1>3. \A t \in Task : WalkUp(ActiveOf(gate), t) \subseteq Task /\ WalkUp(ActiveOf(gate'), t) \subseteq Task
  BY DEF WalkUp
<1> QED
  BY <1>1, <1>2, <1>3 DEF Governing, GovernsOf

\* Of sets of approvals one has no other inside it: this is what the library knows of
\* finite sets without an operator for a parameter.
LEMMA Smallest ==
  ASSUME NEW F \in SUBSET SUBSET Approval, F # {}
  PROVE  \E U \in F : \A V \in F : V \subseteq U => V = U
<1>1. IsFiniteSet(Approval)
  BY GateAssumption, FS_Interval DEF Approval
<1>2. FiniteSubsetsOf(Approval) = SUBSET Approval
  BY <1>1, FS_FiniteSubsetsOfFinite
<1>3. IsWellFoundedOn(StrictSubsetOrdering(Approval), SUBSET Approval)
  BY <1>2, FS_StrictSubsetOrderingWellFounded
<1>4. PICK U \in F : \A V \in F : ~ (<<V, U>> \in StrictSubsetOrdering(Approval))
  BY <1>3, WFMin
<1> QED
  BY <1>4 DEF StrictSubsetOrdering

\* So of approvals there is an oldest, and a newest.
LEMMA OldestExists ==
  ASSUME NEW S \in SUBSET Approval, S # {}
  PROVE  \E m \in S : \A n \in S : m <= n
<1> DEFINE F == {1..x : x \in S}
<1>0. \A x \in S : 1..x \in SUBSET Approval
  BY GateAssumption DEF Approval
<1>1. F \in SUBSET SUBSET Approval /\ F # {}
  BY <1>0
<1>2. PICK U \in F : \A V \in F : V \subseteq U => V = U
  BY <1>1, Smallest
<1>3. PICK m \in S : U = 1..m
  BY <1>2
<1>4. ASSUME NEW n \in S, n < m PROVE FALSE
  <2>1. m \in Nat /\ n \in Nat
    BY DEF Approval
  <2>2. 1..n \subseteq 1..m /\ m \notin 1..n /\ m \in 1..m
    BY <1>4, <2>1, GateAssumption DEF Approval
  <2> QED
    BY <1>2, <1>3, <2>2
<1> QED
  BY <1>4 , GateAssumption DEF Approval

LEMMA NewestExists ==
  ASSUME NEW S \in SUBSET Approval, S # {}
  PROVE  \E m \in S : \A n \in S : n <= m
<1> DEFINE F == {x..Approvals : x \in S}
<1>0. \A x \in S : x..Approvals \in SUBSET Approval
  BY GateAssumption DEF Approval
<1>1. F \in SUBSET SUBSET Approval /\ F # {}
  BY <1>0
<1>2. PICK U \in F : \A V \in F : V \subseteq U => V = U
  BY <1>1, Smallest
<1>3. PICK m \in S : U = m..Approvals
  BY <1>2
<1>4. ASSUME NEW n \in S, m < n PROVE FALSE
  <2>1. m \in Nat /\ n \in Nat
    BY DEF Approval
  <2>2. n..Approvals \subseteq m..Approvals /\ m \notin n..Approvals /\ m \in m..Approvals
    BY <1>4, <2>1, GateAssumption DEF Approval
  <2> QED
    BY <1>2, <1>3, <2>2
<1> QED
  BY <1>4 , GateAssumption DEF Approval

LEMMA GrantorTyped ==
  ASSUME NEW X \in SUBSET Approval
  PROVE  /\ GrantorOf(X) \in Authority /\ GrantorOf(X) # NoOne
         /\ X # {} => GrantorOf(X) \in X /\ \A y \in X : GrantorOf(X) <= y
         /\ X = {} => GrantorOf(X) = Initiator
<1>1. CASE X = {}
  BY <1>1, GateAssumption DEF GrantorOf, Authority
<1>2. CASE X # {}
  <2>2. \E x \in X : \A y \in X : x <= y
    BY <1>2, OldestExists
  <2>3. GrantorOf(X) \in X /\ \A y \in X : GrantorOf(X) <= y
    BY <1>2, <2>2 DEF GrantorOf
  <2> QED
    BY <1>2, <2>3, GateAssumption DEF Authority, Approval
<1> QED
  BY <1>1, <1>2

\* What gates a task: at most one approval, requested on it, an open one if there is one.
LEMMA ActiveFacts ==
  ASSUME NEW g \in GateKind, NEW t \in Task
  PROVE  LET A == ActiveOf(g)[t]
         IN /\ A \subseteq AllOn(g, t)
            /\ \A x, y \in A : x = y
            /\ AllOn(g, t) # {} => A # {}
            /\ OpenOn(g, t) # {} => A \subseteq OpenOn(g, t)
<1> DEFINE Choice == IF OpenOn(g, t) # {} THEN OpenOn(g, t) ELSE AllOn(g, t)
<1>1. ActiveOf(g)[t] = NewestOf(Choice)
  BY DEF ActiveOf
<1>2. OpenOn(g, t) \subseteq AllOn(g, t) /\ AllOn(g, t) \subseteq Approval
  BY DEF OpenOn, AllOn
<1>3. Choice \in SUBSET Approval /\ (AllOn(g, t) # {} => Choice # {})
  BY <1>2
<1> HIDE DEF Choice
<1>4. NewestOf(Choice) \subseteq Choice
  BY DEF NewestOf
<1>5. \A x, y \in NewestOf(Choice) : x = y
  BY <1>3, GateAssumption DEF NewestOf, Approval
<1>6. AllOn(g, t) # {} => NewestOf(Choice) # {}
  BY <1>3, NewestExists DEF NewestOf
<1> QED
  BY <1>1, <1>2, <1>4, <1>5, <1>6 DEF Choice

LEMMA ActiveTyped == ASSUME NEW g \in GateKind PROVE ActiveOf(g) \in Gates
BY DEF ActiveOf, Gates, NewestOf, OpenOn, AllOn

\* The walk starts at the task, goes on from where there is no gate, and nowhere else.
LEMMA WalkFacts ==
  ASSUME NEW A \in Gates, NEW t \in Task
  PROVE  /\ WalkUp(A, t) \subseteq Task /\ t \in WalkUp(A, t)
         /\ \A v \in WalkUp(A, t) : A[v] = {} => Deps[v] \subseteq WalkUp(A, t)
         /\ \A S \in SUBSET Task :
              t \in S /\ (\A v \in S : A[v] = {} => Deps[v] \subseteq S) => WalkUp(A, t) \subseteq S
BY GateAssumption DEF WalkUp

\* It depends only on which of the tasks it visits have a gate.
LEMMA SameWalk ==
  ASSUME NEW A \in Gates, NEW B \in Gates, NEW t \in Task,
         \A u \in WalkUp(B, t) : A[u] = {} <=> B[u] = {}
  PROVE  WalkUp(A, t) = WalkUp(B, t)
<1> DEFINE U == WalkUp(A, t)
           V == WalkUp(B, t)
<1>1. /\ U \in SUBSET Task /\ t \in U
      /\ \A v \in U : A[v] = {} => Deps[v] \subseteq U
      /\ \A S \in SUBSET Task : t \in S /\ (\A v \in S : A[v] = {} => Deps[v] \subseteq S) => U \subseteq S
  BY WalkFacts
<1>2. /\ V \in SUBSET Task /\ t \in V
      /\ \A v \in V : B[v] = {} => Deps[v] \subseteq V
      /\ \A S \in SUBSET Task : t \in S /\ (\A v \in S : B[v] = {} => Deps[v] \subseteq S) => V \subseteq S
  BY WalkFacts
<1>3. \A u \in V : A[u] = {} <=> B[u] = {}
  OBVIOUS
<1> HIDE DEF U, V
<1>4. U \subseteq V
  BY <1>1, <1>2, <1>3
<1>5. V \subseteq U
  BY <1>1, <1>2, <1>3, <1>4
<1> QED
  BY <1>4, <1>5 DEF U, V

\* A request changes what governs a task only by governing it.
LEMMA AskMoves ==
  ASSUME NEW g \in GateKind, NEW z \in Approval, NEW o \in Task,
         g[z].on = {}, \A y \in Approval : g[y].on = {o} => y < z,
         NEW g2 \in GateKind, g2 = [g EXCEPT ![z] = [on |-> {o}, status |-> "pending"]],
         NEW t \in Task
  PROVE  GovernsOf(ActiveOf(g2), t) = GovernsOf(ActiveOf(g), t) \/ z \in GovernsOf(ActiveOf(g2), t)
<1> DEFINE A == ActiveOf(g)
           B == ActiveOf(g2)
<1>1. A \in Gates /\ B \in Gates
  BY ActiveTyped
<1>2. \A u \in Task : u # o => OpenOn(g2, u) = OpenOn(g, u) /\ AllOn(g2, u) = AllOn(g, u)
  BY DEF OpenOn, AllOn, GateKind, ApprovalRow
<1>3. \A u \in Task : u # o => B[u] = A[u]
  BY <1>2 DEF ActiveOf
<1>4. z \in B[o]
  <2>1. z \in OpenOn(g2, o) /\ \A y \in OpenOn(g2, o) : y <= z
    BY DEF OpenOn, GateKind, ApprovalRow, Approval
  <2> QED
    BY <2>1 DEF ActiveOf, NewestOf
<1> HIDE DEF A, B
<1>5. CASE o \in WalkUp(B, t)
  BY <1>4, <1>5 DEF GovernsOf, B
<1>6. CASE o \notin WalkUp(B, t)
  <2>1. \A u \in WalkUp(B, t) : A[u] = B[u]
    BY <1>1, <1>3, <1>6, WalkFacts
  <2>2. WalkUp(A, t) = WalkUp(B, t)
    BY <1>1, <2>1, SameWalk
  <2> QED
    BY <2>1, <2>2 DEF GovernsOf, A, B
<1> QED
  BY <1>5, <1>6

\* A decision changes nothing for a task its approval does not govern, and leaves it its
\* other approvals; it changes nothing at all if no other is open or newer.
LEMMA DecideMoves ==
  ASSUME NEW g \in GateKind, NEW x \in Approval, NEW o \in Task,
         g[x].on = {o}, g[x].status = "pending",
         NEW g2 \in GateKind, g2[x].on = g[x].on, g2[x].status # "pending",
         \A y \in Approval : y # x => g2[y] = g[y],
         NEW t \in Task
  PROVE  /\ x \notin GovernsOf(ActiveOf(g), t) => GovernsOf(ActiveOf(g2), t) = GovernsOf(ActiveOf(g), t)
         /\ \A y \in GovernsOf(ActiveOf(g), t) : y # x => y \in GovernsOf(ActiveOf(g2), t)
         /\ (\A y \in AllOn(g, o) : y <= x) /\ (\A y \in OpenOn(g, o) : y = x) =>
              GovernsOf(ActiveOf(g2), t) = GovernsOf(ActiveOf(g), t)
<1> DEFINE A == ActiveOf(g)
           B == ActiveOf(g2)
<1>1. A \in Gates /\ B \in Gates
  BY ActiveTyped
<1>2. /\ \A u \in Task : AllOn(g2, u) = AllOn(g, u) /\ (u # o => OpenOn(g2, u) = OpenOn(g, u))
      /\ OpenOn(g2, o) = OpenOn(g, o) \ {x} /\ x \in OpenOn(g, o) /\ x \in AllOn(g, o)
  BY DEF OpenOn, AllOn, GateKind, ApprovalRow
<1>3. \A u \in Task : u # o => B[u] = A[u]
  BY <1>2 DEF ActiveOf
<1>4. A[o] # {} /\ B[o] # {}
  BY <1>2, ActiveFacts
<1>0. (\A y, z \in A[o] : y = z) /\ (\A y, z \in B[o] : y = z)
  BY ActiveFacts
<1>5. x \notin A[o] => B[o] = A[o]
  <2> SUFFICES ASSUME x \notin A[o] PROVE B[o] = A[o]
    OBVIOUS
  <2>1. PICK n \in A[o] : TRUE
    BY <1>4
  <2>2. n \in OpenOn(g, o) /\ (\A y \in OpenOn(g, o) : y <= n) /\ n # x
    BY <1>2, <2>1 DEF ActiveOf, NewestOf
  <2>3. n \in OpenOn(g2, o) /\ \A y \in OpenOn(g2, o) : y <= n
    BY <1>2, <2>2
  <2>4. n \in B[o]
    BY <2>3 DEF ActiveOf, NewestOf
  <2>5. A[o] = {n} /\ B[o] = {n}
    BY <1>0, <2>1, <2>4
  <2> QED
    BY <2>5
<1>6. (\A y \in AllOn(g, o) : y <= x) /\ (\A y \in OpenOn(g, o) : y = x) => B[o] = A[o]
  <2> SUFFICES ASSUME \A y \in AllOn(g, o) : y <= x, \A y \in OpenOn(g, o) : y = x PROVE B[o] = A[o]
    OBVIOUS
  <2>0. x <= x
    BY GateAssumption DEF Approval
  <2>1. OpenOn(g2, o) = {}
    BY <1>2
  <2>2. x \in A[o] /\ x \in B[o]
    BY <1>2, <2>0, <2>1 DEF ActiveOf, NewestOf
  <2>3. A[o] = {x} /\ B[o] = {x}
    BY <1>0, <2>2
  <2> QED
    BY <2>3
<1>7. \A u \in Task : u # o => x \notin A[u]
  BY ActiveFacts DEF AllOn
<1>8. A[o] \subseteq {x} \/ x \notin A[o]
  BY ActiveFacts
<1> HIDE DEF A, B
<1>9. WalkUp(B, t) = WalkUp(A, t) /\ WalkUp(A, t) \subseteq Task
  <2>1. WalkUp(A, t) \subseteq Task /\ WalkUp(B, t) \subseteq Task
    BY <1>1, WalkFacts
  <2>2. \A u \in Task : B[u] = {} <=> A[u] = {}
    BY <1>3, <1>4
  <2>3. WalkUp(B, t) = WalkUp(A, t)
    BY <1>1, <2>1, <2>2, SameWalk
  <2> QED
    BY <2>1, <2>3
<1>10. x \notin GovernsOf(A, t) => GovernsOf(B, t) = GovernsOf(A, t)
  BY <1>3, <1>5, <1>9 DEF GovernsOf
<1>11. \A y \in GovernsOf(A, t) : y # x => y \in GovernsOf(B, t)
  BY <1>3, <1>5, <1>8, <1>9 DEF GovernsOf
<1>12. B[o] = A[o] => GovernsOf(B, t) = GovernsOf(A, t)
  BY <1>3, <1>9 DEF GovernsOf
<1> QED
  BY <1>6, <1>10, <1>11, <1>12 DEF A, B

LEMMA GovernsTyped == ASSUME NEW g \in GateKind, NEW t \in Task PROVE GovernsOf(ActiveOf(g), t) \in SUBSET Approval
BY ActiveTyped, WalkFacts DEF GovernsOf, Gates

\* While an approval is open on a task, an open one on it governs the task alone.
LEMMA OpenGoverns ==
  ASSUME NEW g \in GateKind, NEW t \in Task, OpenOn(g, t) # {}
  PROVE  \E x \in OpenOn(g, t) : x \in GovernsOf(ActiveOf(g), t)
<1>1. OpenOn(g, t) \subseteq AllOn(g, t)
  BY DEF OpenOn, AllOn
<1>2. ActiveOf(g)[t] # {} /\ ActiveOf(g)[t] \subseteq OpenOn(g, t)
  BY <1>1, ActiveFacts
<1>3. t \in WalkUp(ActiveOf(g), t)
  BY ActiveTyped, WalkFacts
<1> QED
  BY <1>2, <1>3 DEF GovernsOf

\* What governs a task once every approval is decided: walked to by the newest of each task.
NewOf(g) == [t \in Task |-> NewestOf(AllOn(g, t))]
HeadsOf(g, t) == GovernsOf(NewOf(g), t)

LEMMA NewFacts ==
  ASSUME NEW g \in GateKind
  PROVE  /\ NewOf(g) \in Gates
         /\ \A t \in Task : /\ NewOf(g)[t] \subseteq AllOn(g, t)
                           /\ AllOn(g, t) # {} => NewOf(g)[t] # {}
<1> SUFFICES ASSUME NEW t \in Task
             PROVE  /\ NewOf(g)[t] \subseteq AllOn(g, t) /\ NewOf(g)[t] \subseteq Approval
                    /\ AllOn(g, t) # {} => NewOf(g)[t] # {}
  BY DEF NewOf, Gates, NewestOf, AllOn
<1>1. AllOn(g, t) \in SUBSET Approval
  BY DEF AllOn
<1> QED
  BY <1>1, NewestExists DEF NewOf, NewestOf

\* So it is already where none that governs is open.
LEMMA HeadsGovern ==
  ASSUME NEW g \in GateKind, NEW t \in Task,
         \A x \in GovernsOf(ActiveOf(g), t) : g[x].status # "pending"
  PROVE  GovernsOf(ActiveOf(g), t) = HeadsOf(g, t)
<1> DEFINE A == ActiveOf(g)
           N == NewOf(g)
<1>1. A \in Gates /\ N \in Gates /\ WalkUp(A, t) \subseteq Task
  BY ActiveTyped, NewFacts, WalkFacts
<1>2. \A u \in WalkUp(A, t) : A[u] = N[u]
  <2> SUFFICES ASSUME NEW u \in WalkUp(A, t) PROVE A[u] = N[u]
    OBVIOUS
  <2>1. u \in Task /\ \A x \in A[u] : g[x].status # "pending"
    BY <1>1 DEF GovernsOf
  <2>2. OpenOn(g, u) # {} => A[u] \subseteq OpenOn(g, u) /\ A[u] # {}
    <3>1. OpenOn(g, u) \subseteq AllOn(g, u)
      BY DEF OpenOn, AllOn
    <3> QED
      BY <2>1, <3>1, ActiveFacts
  <2>3. OpenOn(g, u) = {}
    BY <2>1, <2>2 DEF OpenOn
  <2> QED
    BY <2>1, <2>3 DEF ActiveOf, NewOf
<1> HIDE DEF A, N
<1>3. WalkUp(N, t) = WalkUp(A, t)
  BY <1>1, <1>2, SameWalk
<1> QED
  BY <1>2, <1>3 DEF HeadsOf, GovernsOf, A, N

\* A request adds itself alone, and where something governed something does.
Widens(X, Y, z) == Y \subseteq X \cup {z} /\ (X # {} => Y # {})

LEMMA AskHeads ==
  ASSUME NEW g \in GateKind, NEW z \in Approval, NEW o \in Task,
         g[z].on = {}, \A y \in Approval : g[y].on = {o} => y <= z,
         NEW g2 \in GateKind, g2[z].on = {o}, \A y \in Approval : y # z => g2[y] = g[y],
         NEW t \in Task
  PROVE  Widens(HeadsOf(g, t), HeadsOf(g2, t), z)
<1> DEFINE N == NewOf(g)
           M == NewOf(g2)
<1>1. N \in Gates /\ M \in Gates
  BY NewFacts
<1>2. \A u \in Task : u # o => AllOn(g2, u) = AllOn(g, u)
  BY DEF AllOn, GateKind, ApprovalRow
<1>3. \A u \in Task : u # o => M[u] = N[u]
  BY <1>2 DEF NewOf
<1>4. M[o] = {z}
  <2>1. z \in AllOn(g2, o) /\ AllOn(g2, o) \subseteq Approval
    BY DEF AllOn, GateKind, ApprovalRow
  <2>2. \A y \in AllOn(g2, o) : y <= z
    <3> SUFFICES ASSUME NEW y \in Approval, g2[y].on = {o} PROVE y <= z
      BY DEF AllOn
    <3>1. CASE y = z
      BY <3>1, GateAssumption DEF Approval
    <3>2. CASE y # z
      BY <3>2
    <3> QED
      BY <3>1, <3>2
  <2>3. \A y \in AllOn(g2, o) : z <= y => y = z
    BY <2>1, <2>2, GateAssumption DEF Approval
  <2>4. NewestOf(AllOn(g2, o)) = {z}
    BY <2>1, <2>2, <2>3 DEF NewestOf
  <2> QED
    BY <2>4 DEF NewOf
<1> HIDE DEF N, M
<1>5. WalkUp(M, t) \subseteq WalkUp(N, t)
  <2> DEFINE S == WalkUp(N, t)
  <2>1. S \in SUBSET Task /\ t \in S /\ \A v \in S : N[v] = {} => Deps[v] \subseteq S
    BY <1>1, WalkFacts
  <2>2. \A v \in Task : M[v] = {} => N[v] = {}
    BY <1>3, <1>4
  <2> HIDE DEF S
  <2>3. WalkUp(M, t) \subseteq S
    BY <1>1, <2>1, <2>2, WalkFacts
  <2> QED
    BY <2>3 DEF S
<1>6. WalkUp(N, t) \subseteq Task
  BY <1>1, WalkFacts
<1>7. GovernsOf(M, t) \subseteq GovernsOf(N, t) \cup {z}
  BY <1>3, <1>4, <1>5, <1>6 DEF GovernsOf
<1>8. CASE o \in WalkUp(M, t)
  <2>1. z \in GovernsOf(M, t)
    BY <1>4, <1>8 DEF GovernsOf
  <2> QED
    BY <1>7, <2>1 DEF Widens, HeadsOf, N, M
<1>9. CASE o \notin WalkUp(M, t)
  <2>1. \A u \in WalkUp(M, t) : N[u] = M[u]
    BY <1>3, <1>5, <1>6, <1>9
  <2>2. WalkUp(N, t) = WalkUp(M, t)
    BY <1>1, <2>1, SameWalk
  <2>3. GovernsOf(M, t) = GovernsOf(N, t)
    BY <2>1, <2>2 DEF GovernsOf
  <2> QED
    BY <2>3 DEF Widens, HeadsOf, N, M
<1> QED
  BY <1>8, <1>9

-----------------------------------------------------------------------------
(* ApprovalGate: what each step does to a handler. *)

HandlerRow ==
  [at : {"off", "tasks", "scope", "next", "revoke"}, mode : {"issue", "stand down", "retire"},
   of : SUBSET Approval, todo : SUBSET Task, want : [Task -> Wanted], on : SUBSET Task,
   old : SUBSET Cert]

Wants(h, t) == handler[h].want[t] # NoOne

LEMMA FreeRow ==
  /\ Free \in HandlerRow /\ Free.at = "off" /\ Free.mode = "issue" /\ Free.of = {}
  /\ Free.todo = {} /\ Free.on = {} /\ Free.old = {} /\ \A t \in Task : Free.want[t] = NoOne
BY DEF Free, HandlerRow, Wanted

LEMMA GoverningTyped ==
  ASSUME GateTypeOK
  PROVE  /\ gate \in GateKind
         /\ Governing = [t \in Task |-> GovernsOf(ActiveOf(gate), t)]
         /\ Governing \in [Task -> SUBSET Approval]
<1>1. gate \in GateKind
  BY DEF GateTypeOK, GateKind, ApprovalRow
<1>2. \A t \in Task : GovernsOf(ActiveOf(gate), t) \in SUBSET Approval
  BY <1>1, GovernsTyped
<1> QED
  BY <1>1, <1>2, GoverningIs

\* A handler's step is its own.
Others(h) == handler' \in [Handler -> HandlerRow] /\ \A g \in Handler : g # h => handler'[g] = handler[g]

LEMMA GoesMoves ==
  ASSUME GateTypeOK, NEW h \in Handler, NEW row \in HandlerRow, Goes(h, row)
  PROVE  Others(h) /\ handler'[h] = row
BY DEF GateTypeOK, Goes, Others, HandlerRow

LEMMA DoneMoves ==
  ASSUME GateTypeOK, NEW h \in Handler, Goes(h, Free)
  PROVE  Others(h) /\ handler'[h] = Free
BY GoesMoves, FreeRow

LEMMA ReadTasksMoves ==
  ASSUME GateTypeOK, NEW h \in Handler, ReadTasks(h)
  PROVE  /\ UNCHANGED <<task, gate, certs, issued, belated, toolCall, refused>>
         /\ Others(h) /\ handler[h].at = "tasks" /\ handler'[h].at = "scope"
         /\ handler'[h].todo = {t \in Task : task[t] = "in_progress"}
         /\ handler'[h].mode = handler[h].mode /\ handler'[h].of = handler[h].of
         /\ handler'[h].want = handler[h].want /\ handler'[h].on = handler[h].on
         /\ handler'[h].old = handler[h].old
<1> DEFINE row == [handler[h] EXCEPT !.at = "scope", !.todo = {t \in Task : task[t] = "in_progress"}]
<1>1. Goes(h, row) /\ handler[h].at = "tasks" /\ handler[h] \in HandlerRow
  BY DEF ReadTasks, GateTypeOK, HandlerRow
<1>2. row \in HandlerRow
  BY <1>1 DEF HandlerRow
<1>3. Others(h) /\ handler'[h] = row
  BY <1>1, <1>2, GoesMoves
<1>4. UNCHANGED <<task, gate, certs, issued, belated, toolCall, refused>>
  BY DEF ReadTasks, store
<1> QED
  BY <1>1, <1>3, <1>4 DEF HandlerRow

LEMMA ScopeMoves ==
  ASSUME GateTypeOK, NEW h \in Handler, Scope(h)
  PROVE  /\ UNCHANGED <<task, gate, certs, issued, belated, toolCall, refused>>
         /\ Others(h) /\ handler[h].at = "scope" /\ handler'[h].at = "next"
         /\ handler'[h].todo = {} /\ handler'[h].mode = handler[h].mode
         /\ handler'[h].of = handler[h].of /\ handler'[h].on = handler[h].on
         /\ handler'[h].old = handler[h].old
         /\ \A t \in Task : Wants(h, t)' =>
              /\ t \in handler[h].todo /\ handler[h].of \subseteq Governing[t]
              /\ handler[h].mode # "stand down" =>
                   Granted(Governing[t]) /\ handler'[h].want[t] = GrantorOf(Governing[t])
         /\ \A t \in Task :
              /\ t \in handler[h].todo /\ handler[h].of \subseteq Governing[t]
              /\ handler[h].mode # "stand down" /\ Granted(Governing[t])
              => handler'[h].want[t] = GrantorOf(Governing[t])
<1> DEFINE W == [t \in Task |->
             IF ~ (handler[h].of \subseteq Governing[t]) \/ t \notin handler[h].todo THEN NoOne
             ELSE IF handler[h].mode = "stand down" THEN Initiator
             ELSE IF Granted(Governing[t]) THEN GrantorOf(Governing[t]) ELSE NoOne]
           row == [handler[h] EXCEPT !.at = "next", !.todo = {}, !.want = W]
<1>1. Goes(h, row) /\ handler[h].at = "scope"
  BY DEF Scope
<1>2. handler[h] \in HandlerRow
  BY DEF GateTypeOK, HandlerRow
<1>3. \A t \in Task : Governing[t] \in SUBSET Approval
  BY GoverningTyped
<1>4. \A t \in Task : GrantorOf(Governing[t]) \in Authority
  BY <1>3, GrantorTyped
<1>5. W \in [Task -> Wanted]
  BY <1>4 DEF Wanted, Authority
<1>6. UNCHANGED <<task, gate, certs, issued, belated, toolCall, refused>>
  BY DEF Scope, store
<1> HIDE DEF W
<1>7. row \in HandlerRow
  BY <1>2, <1>5 DEF HandlerRow
<1>8. Others(h) /\ handler'[h] = row
  BY <1>1, <1>7, GoesMoves
<1>9. /\ handler'[h].at = "next" /\ handler'[h].todo = {} /\ handler'[h].want = W
      /\ handler'[h].mode = handler[h].mode /\ handler'[h].of = handler[h].of
      /\ handler'[h].on = handler[h].on /\ handler'[h].old = handler[h].old
  BY <1>2, <1>8 DEF HandlerRow
<1>10. \A t \in Task : W[t] # NoOne =>
         /\ t \in handler[h].todo /\ handler[h].of \subseteq Governing[t]
         /\ handler[h].mode # "stand down" =>
              Granted(Governing[t]) /\ W[t] = GrantorOf(Governing[t])
  BY DEF W
<1>11. \A t \in Task :
         /\ t \in handler[h].todo /\ handler[h].of \subseteq Governing[t]
         /\ handler[h].mode # "stand down" /\ Granted(Governing[t])
         => W[t] = GrantorOf(Governing[t])
  BY DEF W
<1> QED
  BY <1>1, <1>6, <1>8, <1>9, <1>10, <1>11 DEF Wants

\* A task is passed over, or its certificates are listed.
LEMMA ListLiveMoves ==
  ASSUME GateTypeOK, NEW h \in Handler, NEW t \in Task, ListLive(h, t)
  PROVE  /\ UNCHANGED <<task, gate, certs, issued, belated, toolCall, refused>>
         /\ Others(h) /\ handler[h].at = "next" /\ Wants(h, t)
         /\ handler'[h].mode = handler[h].mode /\ handler'[h].of = handler[h].of
         /\ handler'[h].todo = handler[h].todo
         /\ \/ /\ handler[h].mode = "issue" /\ \E c \in CertsOf(t) : c.by = handler[h].want[t]
               /\ handler'[h].at = "next" /\ handler'[h].want = [handler[h].want EXCEPT ![t] = NoOne]
               /\ handler'[h].on = handler[h].on /\ handler'[h].old = handler[h].old
            \/ /\ handler[h].mode = "issue" => \A c \in CertsOf(t) : c.by # handler[h].want[t]
               /\ handler'[h].at = "revoke" /\ handler'[h].want = handler[h].want
               /\ handler'[h].on = {t} /\ handler'[h].old \subseteq CertsOf(t)
               /\ handler[h].mode # "retire" => handler'[h].old = CertsOf(t)
<1> DEFINE live == CertsOf(t)
           held == handler[h].mode = "issue" /\ \E c \in live : c.by = handler[h].want[t]
           row(old) == IF held THEN [handler[h] EXCEPT !.want[t] = NoOne]
                       ELSE [handler[h] EXCEPT !.at = "revoke", !.on = {t}, !.old = old]
<1>1. /\ handler[h].at = "next" /\ handler[h].want[t] # NoOne
      /\ \E old \in SUBSET live : (handler[h].mode # "retire" => old = live) /\ Goes(h, row(old))
  BY DEF ListLive
<1>2. PICK old \in SUBSET live : (handler[h].mode # "retire" => old = live) /\ Goes(h, row(old))
  BY <1>1
<1>3. handler[h] \in HandlerRow /\ live \in SUBSET Cert
  BY DEF GateTypeOK, HandlerRow, CertsOf
<1>4. UNCHANGED <<task, gate, certs, issued, belated, toolCall, refused>>
  BY DEF ListLive, store
<1>5. CASE held
  <2>1. row(old) = [handler[h] EXCEPT !.want[t] = NoOne]
    BY <1>5
  <2>2. row(old) \in HandlerRow /\ row(old).want = [handler[h].want EXCEPT ![t] = NoOne]
    BY <1>3, <2>1 DEF HandlerRow, Wanted
  <2>3. /\ row(old).at = handler[h].at /\ row(old).mode = handler[h].mode
        /\ row(old).of = handler[h].of /\ row(old).todo = handler[h].todo
        /\ row(old).on = handler[h].on /\ row(old).old = handler[h].old
    BY <1>3, <2>1 DEF HandlerRow
  <2>4. Others(h) /\ handler'[h] = row(old)
    BY <1>2, <2>2, GoesMoves
  <2> HIDE DEF row
  <2> QED
    BY <1>1, <1>4, <1>5, <2>2, <2>3, <2>4 DEF Wants
<1>6. CASE ~held
  <2>1. row(old) = [handler[h] EXCEPT !.at = "revoke", !.on = {t}, !.old = old]
    BY <1>6
  <2>2. row(old) \in HandlerRow
    BY <1>3, <2>1 DEF HandlerRow
  <2>3. /\ row(old).at = "revoke" /\ row(old).mode = handler[h].mode
        /\ row(old).of = handler[h].of /\ row(old).todo = handler[h].todo
        /\ row(old).on = {t} /\ row(old).old = old /\ row(old).want = handler[h].want
    BY <1>3, <2>1 DEF HandlerRow
  <2>4. Others(h) /\ handler'[h] = row(old)
    BY <1>2, <2>2, GoesMoves
  <2> HIDE DEF row
  <2> QED
    BY <1>1, <1>2, <1>4, <1>6, <2>3, <2>4 DEF Wants
<1> QED
  BY <1>5, <1>6

LEMMA RevokeMoves ==
  ASSUME GateTypeOK, NEW h \in Handler, NEW c \in handler[h].old, Revoke(h, c)
  PROVE  /\ UNCHANGED <<task, gate, issued, toolCall, refused>>
         /\ belated \subseteq belated' /\ belated' \subseteq Task
         /\ handler[h].mode # "retire" /\ c.by = Speaks(c.task) => c.task \in belated'
         /\ certs' = certs \ {c} /\ Others(h) /\ handler[h].at = "revoke"
         /\ handler'[h].old = handler[h].old \ {c} /\ handler'[h].at = handler[h].at
         /\ handler'[h].mode = handler[h].mode /\ handler'[h].of = handler[h].of
         /\ handler'[h].want = handler[h].want /\ handler'[h].on = handler[h].on
         /\ handler'[h].todo = handler[h].todo
<1> DEFINE row == [handler[h] EXCEPT !.old = @ \ {c}]
<1>1. Goes(h, row) /\ handler[h].at = "revoke" /\ handler[h] \in HandlerRow
  BY DEF Revoke, GateTypeOK, HandlerRow
<1>2. row \in HandlerRow
  BY <1>1 DEF HandlerRow
<1>3. Others(h) /\ handler'[h] = row
  BY <1>1, <1>2, GoesMoves
<1>4. UNCHANGED <<task, gate, issued, toolCall, refused>> /\ certs' = certs \ {c}
  BY DEF Revoke
<1>5. c.task \in Task /\ belated \subseteq Task
  BY <1>1 DEF GateTypeOK, HandlerRow, Cert
<1>6. /\ belated \subseteq belated' /\ belated' \subseteq Task
      /\ handler[h].mode # "retire" /\ c.by = Speaks(c.task) => c.task \in belated'
  BY <1>5 DEF Revoke
<1> QED
  BY <1>1, <1>3, <1>4, <1>6 DEF HandlerRow

LEMMA SettledMoves ==
  ASSUME GateTypeOK, NEW h \in Handler, Settled(h)
  PROVE  /\ Others(h) /\ handler'[h].at = "next" /\ handler'[h].on = {}
         /\ handler'[h].mode = handler[h].mode /\ handler'[h].of = handler[h].of
         /\ handler'[h].old = handler[h].old /\ handler'[h].todo = handler[h].todo
         /\ \A t \in Task : handler'[h].want[t] = IF t \in handler[h].on THEN NoOne
                                                  ELSE handler[h].want[t]
<1> DEFINE W == [t \in Task |-> IF t \in handler[h].on THEN NoOne ELSE handler[h].want[t]]
           row == [handler[h] EXCEPT !.at = "next", !.on = {}, !.want = W]
<1>1. Goes(h, row) /\ handler[h] \in HandlerRow
  BY DEF Settled, GateTypeOK, HandlerRow
<1>2. W \in [Task -> Wanted]
  BY <1>1 DEF HandlerRow, Wanted
<1>3. \A t \in Task : W[t] = IF t \in handler[h].on THEN NoOne ELSE handler[h].want[t]
  OBVIOUS
<1> HIDE DEF W
<1>4. row \in HandlerRow
  BY <1>1, <1>2 DEF HandlerRow
<1>5. Others(h) /\ handler'[h] = row
  BY <1>1, <1>4, GoesMoves
<1>6. /\ handler'[h].at = "next" /\ handler'[h].on = {} /\ handler'[h].want = W
      /\ handler'[h].mode = handler[h].mode /\ handler'[h].of = handler[h].of
      /\ handler'[h].old = handler[h].old /\ handler'[h].todo = handler[h].todo
  BY <1>1, <1>5 DEF HandlerRow
<1> QED
  BY <1>3, <1>5, <1>6

\* A task is done with, signed for or refused.
LEMMA SignMoves ==
  ASSUME GateTypeOK, NEW h \in Handler, Sign(h)
  PROVE  \E t \in handler[h].on :
           /\ t \in Task /\ UNCHANGED <<task, gate, toolCall>>
           /\ handler[h].at = "revoke" /\ handler[h].old = {}
           /\ belated \subseteq belated' /\ belated' \subseteq Task
           /\ \/ /\ handler[h].mode # "issue" /\ Settled(h)
                 /\ UNCHANGED <<certs, issued, refused>>
              \/ /\ handler[h].mode = "issue" /\ \E c \in CertsOf(t) : c.by = handler[h].want[t]
                 /\ Goes(h, Free) /\ refused' = TRUE /\ UNCHANGED <<certs, issued>>
              \/ /\ handler[h].mode = "issue" /\ \A c \in CertsOf(t) : c.by # handler[h].want[t]
                 /\ certs' = certs \cup {[task |-> t, by |-> handler[h].want[t], id |-> issued]}
                 /\ issued' = issued + 1 /\ Settled(h) /\ UNCHANGED refused
                 /\ t \in belated' \/ handler[h].want[t] = Speaks(t)
<1>1. \A t \in handler[h].on : t \in Task
  BY DEF GateTypeOK
<1>2. belated \subseteq Task
  BY DEF GateTypeOK
<1> QED
  BY <1>1, <1>2 DEF Sign, store

LEMMA ReturnMoves ==
  ASSUME GateTypeOK, NEW h \in Handler, Return(h)
  PROVE  /\ handler[h].at = "next" /\ Goes(h, Free) /\ \A t \in Task : ~ Wants(h, t)
         /\ UNCHANGED <<task, gate, certs, issued, belated, toolCall, refused>>
BY DEF Return, store, Wants

\* A request that begins takes a free handler.
Begins(h, row) == Others(h) /\ handler[h].at = "off" /\ handler'[h] = row

LEMMA StartMoves ==
  ASSUME GateTypeOK, NEW h \in Handler, NEW t \in Task, Start(h, t)
  PROVE  /\ UNCHANGED <<gate, certs, issued, belated, toolCall, refused>>
         /\ task[t] = "pending" /\ task' = [task EXCEPT ![t] = "in_progress"]
         /\ Others(h) /\ handler[h].at = "off" /\ handler'[h].at = "scope"
         /\ handler'[h].mode = "issue" /\ handler'[h].of = {} /\ handler'[h].todo = {t}
         /\ handler'[h].on = {} /\ handler'[h].old = {} /\ \A u \in Task : ~ Wants(h, u)'
<1> DEFINE row == [Free EXCEPT !.at = "scope", !.todo = {t}]
<1>1. row \in HandlerRow
  BY FreeRow DEF HandlerRow
<1>2. Goes(h, row)
  BY DEF Start
<1>3. Others(h) /\ handler'[h] = row
  BY <1>1, <1>2, GoesMoves
<1>4. /\ row.at = "scope" /\ row.mode = "issue" /\ row.of = {} /\ row.todo = {t}
      /\ row.on = {} /\ row.old = {} /\ row.want = Free.want
  BY FreeRow DEF HandlerRow
<1>5. /\ UNCHANGED <<gate, certs, issued, belated, toolCall, refused>> /\ handler[h].at = "off"
      /\ task[t] = "pending" /\ task' = [task EXCEPT ![t] = "in_progress"]
  BY DEF Start, store
<1> HIDE DEF row
<1> QED
  BY <1>3, <1>4, <1>5, FreeRow DEF Wants

LEMMA FinishMoves ==
  ASSUME GateTypeOK, NEW h \in Handler, NEW t \in Task, Finish(h, t)
  PROVE  /\ UNCHANGED <<gate, certs, issued, belated, toolCall, refused>>
         /\ task' = [task EXCEPT ![t] = "completed"]
         /\ Others(h) /\ handler[h].at = "off" /\ handler'[h].at = "next"
         /\ handler'[h].mode = "retire" /\ handler'[h].of = {} /\ handler'[h].todo = {}
         /\ handler'[h].on = {} /\ handler'[h].old = {} /\ \A u \in Task : Wants(h, u)' => u = t
<1> DEFINE W == [u \in Task |-> IF u = t THEN Initiator ELSE NoOne]
           row == [Free EXCEPT !.at = "next", !.mode = "retire", !.want = W]
<1>1. W \in [Task -> Wanted] /\ \A u \in Task : W[u] # NoOne => u = t
  BY DEF Wanted, Authority
<1>2. Goes(h, row)
  BY DEF Finish
<1>3. /\ UNCHANGED <<gate, certs, issued, belated, toolCall, refused>> /\ handler[h].at = "off"
      /\ task' = [task EXCEPT ![t] = "completed"]
  BY DEF Finish, store
<1> HIDE DEF W
<1>4. row \in HandlerRow
  BY <1>1, FreeRow DEF HandlerRow
<1>5. /\ row.at = "next" /\ row.mode = "retire" /\ row.of = {} /\ row.todo = {}
      /\ row.on = {} /\ row.old = {} /\ row.want = W
  BY FreeRow DEF HandlerRow
<1>6. Others(h) /\ handler'[h] = row
  BY <1>2, <1>4, GoesMoves
<1> HIDE DEF row
<1> QED
  BY <1>1, <1>3, <1>5, <1>6 DEF Wants

LEMMA RequestMoves ==
  ASSUME GateTypeOK, NEW h \in Handler, NEW x \in Approval, NEW t \in Task, RequestApproval(h, x, t)
  PROVE  /\ UNCHANGED <<task, certs, issued, belated, toolCall, refused>>
         /\ gate[x].status = "none" /\ \A y \in 1..(x-1) : gate[y].status # "none"
         /\ Insistent \/ \A y \in Approval : gate[y] # [on |-> {t}, status |-> "pending"]
         /\ gate' = [gate EXCEPT ![x] = [on |-> {t}, status |-> "pending"]]
         /\ Others(h) /\ handler[h].at = "off" /\ handler'[h].at = "scope"
         /\ handler'[h].mode = "stand down" /\ handler'[h].of = {x} /\ handler'[h].on = {}
         /\ handler'[h].old = {} /\ \A u \in Task : ~ Wants(h, u)'
<1> DEFINE row == [Free EXCEPT !.at = "scope", !.mode = "stand down", !.of = {x}, !.todo = Task]
<1>1. row \in HandlerRow
  BY FreeRow DEF HandlerRow
<1>2. Goes(h, row)
  BY DEF RequestApproval
<1>3. Others(h) /\ handler'[h] = row
  BY <1>1, <1>2, GoesMoves
<1>4. /\ row.at = "scope" /\ row.mode = "stand down" /\ row.of = {x}
      /\ row.on = {} /\ row.old = {} /\ row.want = Free.want
  BY FreeRow DEF HandlerRow
<1>5. /\ UNCHANGED <<task, certs, issued, belated, toolCall, refused>> /\ handler[h].at = "off"
      /\ gate[x].status = "none" /\ \A y \in 1..(x-1) : gate[y].status # "none"
      /\ Insistent \/ \A y \in Approval : gate[y] # [on |-> {t}, status |-> "pending"]
      /\ gate' = [gate EXCEPT ![x] = [on |-> {t}, status |-> "pending"]]
  BY DEF RequestApproval, store
<1> HIDE DEF row
<1> QED
  BY <1>3, <1>4, <1>5, FreeRow DEF Wants

LEMMA DecideMovesHandler ==
  ASSUME GateTypeOK, NEW h \in Handler, NEW x \in Approval, NEW status \in {"approved", "rejected"},
         Decide(h, x, status)
  PROVE  /\ UNCHANGED <<task, certs, issued, belated, toolCall, refused>>
         /\ gate[x].status = "pending"
         /\ gate' = [gate EXCEPT ![x].status = status]
         /\ Others(h) /\ handler[h].at = "off"
         /\ \/ /\ status = "approved" /\ handler'[h].at = "tasks" /\ handler'[h].mode = "issue"
               /\ handler'[h].of = {x} /\ handler'[h].on = {} /\ handler'[h].old = {}
               /\ \A u \in Task : ~ Wants(h, u)'
            \/ status = "rejected" /\ UNCHANGED handler
<1> DEFINE row == [Free EXCEPT !.at = "tasks", !.of = {x}]
<1>1. /\ UNCHANGED <<task, certs, issued, belated, toolCall, refused>>
      /\ gate[x].status = "pending" /\ handler[h].at = "off"
      /\ gate' = [gate EXCEPT ![x].status = status]
  BY DEF Decide, store
<1>2. CASE status = "approved"
  <2>1. row \in HandlerRow
    BY FreeRow DEF HandlerRow
  <2>2. Goes(h, row)
    BY <1>2 DEF Decide
  <2>3. Others(h) /\ handler'[h] = row
    BY <2>1, <2>2, GoesMoves
  <2>4. /\ row.at = "tasks" /\ row.mode = "issue" /\ row.of = {x}
        /\ row.on = {} /\ row.old = {} /\ row.want = Free.want
    BY FreeRow DEF HandlerRow
  <2> HIDE DEF row
  <2> QED
    BY <1>1, <1>2, <2>3, <2>4, FreeRow DEF Wants
<1>3. CASE status = "rejected"
  <2>1. UNCHANGED handler
    BY <1>3 DEF Decide
  <2> QED
    BY <1>1, <1>3, <2>1 DEF Others, GateTypeOK, HandlerRow
<1> QED
  BY <1>2, <1>3

-----------------------------------------------------------------------------
(* ApprovalGate: types, and the call on its way through the gateway. *)

\* Every certificate has a number of its own.
IdInv ==
  /\ \A c \in certs : c.id < issued
  /\ \A c, d \in certs : c.id = d.id => c = d

\* A call carries one certificate.
CarriesInv == \A c, d \in toolCall.cert : c = d

PassInv == GateTypeOK /\ IdInv /\ CarriesInv

\* A handler that revokes is at a task it wants a certificate for, or gone.
OnInv ==
  \A h \in Handler : /\ handler[h].at # "revoke" => handler[h].on = {}
                    /\ \A t \in handler[h].on : Wants(h, t)

LEMMA GateRows ==
  GateTypeOK <=> /\ task \in [Task -> {"pending", "in_progress", "completed"}]
                 /\ gate \in GateKind /\ certs \subseteq Cert /\ issued \in Nat
                 /\ handler \in [Handler -> HandlerRow]
                 /\ belated \subseteq Task /\ refused \in BOOLEAN
                 /\ toolCall \in [at : {"off", "verify", "govern", "through"}, cert : SUBSET Cert]
BY DEF GateTypeOK, GateKind, ApprovalRow, HandlerRow

LEMMA RowsKept ==
  ASSUME PassInv, UNCHANGED <<certs, issued, toolCall, refused>>,
         handler' \in [Handler -> HandlerRow],
         task' \in [Task -> {"pending", "in_progress", "completed"}],
         gate' \in GateKind, belated' \subseteq Task
  PROVE  PassInv'
<1>1. GateTypeOK'
  <2>1. /\ certs' \subseteq Cert /\ issued' \in Nat
        /\ toolCall' \in [at : {"off", "verify", "govern", "through"}, cert : SUBSET Cert]
    BY GateRows DEF PassInv
  <2>2. refused' \in BOOLEAN
    BY GateRows DEF PassInv
  <2> QED
    BY <2>1, <2>2 DEF GateTypeOK, GateKind, ApprovalRow, HandlerRow
<1> QED
  BY <1>1 DEF PassInv, IdInv, CarriesInv

LEMMA CallMoves ==
  ASSUME PassInv, NEW k \in [at : {"off", "verify", "govern", "through"}, cert : SUBSET Cert],
         toolCall' = k, \A c, d \in k.cert : c = d,
         UNCHANGED <<task, gate, certs, issued, handler, belated, refused>>
  PROVE  PassInv'
BY DEF PassInv, GateTypeOK, IdInv, CarriesInv

LEMMA PassInit == GateInit => PassInv
<1> SUFFICES ASSUME GateInit PROVE PassInv
  OBVIOUS
<1>1. /\ task \in [Task -> {"pending", "in_progress", "completed"}]
      /\ gate \in GateKind /\ certs \subseteq Cert /\ issued \in Nat
      /\ belated \subseteq Task
      /\ toolCall \in [at : {"off", "verify", "govern", "through"}, cert : SUBSET Cert]
  BY DEF GateInit, GateKind, ApprovalRow
<1>2. refused \in BOOLEAN
  BY DEF GateInit
<1>3. handler \in [Handler -> HandlerRow]
  BY FreeRow DEF GateInit
<1>4. GateTypeOK
  BY <1>1, <1>2, <1>3, GateRows
<1> QED
  BY <1>4 DEF GateInit, PassInv, IdInv, CarriesInv

LEMMA OnStep == GateTypeOK /\ OnInv /\ [GateNext]_gateVars => OnInv'
<1> SUFFICES ASSUME GateTypeOK, OnInv, [GateNext]_gateVars PROVE OnInv'
  OBVIOUS
<1>0. handler \in [Handler -> HandlerRow]
  BY GateRows
<1>1. ASSUME UNCHANGED handler PROVE OnInv'
  BY <1>1 DEF OnInv, Wants
<1>2. ASSUME NEW h \in Handler, Others(h), handler'[h].on = {} PROVE OnInv'
  BY <1>2 DEF OnInv, Others, Wants
<1>3. ASSUME NEW h \in Handler, Others(h), handler'[h].on = handler[h].on,
             handler'[h].at = "revoke", handler'[h].want = handler[h].want
      PROVE  OnInv'
  BY <1>3 DEF OnInv, Others, Wants
<1>4. ASSUME NEW h \in Handler, HandlerWork(h) PROVE OnInv'
  <2>1. CASE ReadTasks(h)
    BY <1>2, <2>1, ReadTasksMoves DEF OnInv
  <2>2. CASE Scope(h)
    BY <1>2, <2>2, ScopeMoves DEF OnInv
  <2>3. ASSUME NEW t \in Task, ListLive(h, t) PROVE OnInv'
    <3>1. /\ Others(h) /\ handler[h].at = "next" /\ Wants(h, t)
          /\ \/ handler'[h].on = handler[h].on
             \/ handler'[h].at = "revoke" /\ handler'[h].on = {t} /\ handler'[h].want = handler[h].want
      BY <2>3, ListLiveMoves
    <3>2. CASE handler'[h].on = handler[h].on
      BY <1>2, <3>1, <3>2 DEF OnInv
    <3>3. CASE handler'[h].at = "revoke" /\ handler'[h].on = {t} /\ handler'[h].want = handler[h].want
      BY <3>1, <3>3 DEF OnInv, Others, Wants
    <3> QED
      BY <3>1, <3>2, <3>3
  <2>4. ASSUME NEW c \in handler[h].old, Revoke(h, c) PROVE OnInv'
    BY <1>3, <2>4, RevokeMoves
  <2>5. CASE Sign(h)
    <3>1. Settled(h) \/ Goes(h, Free)
      BY <2>5, SignMoves
    <3> QED
      BY <1>2, <3>1, SettledMoves, DoneMoves, FreeRow
  <2>6. CASE Return(h)
    BY <1>2, <2>6, ReturnMoves, DoneMoves, FreeRow
  <2> QED
    BY <1>4, <2>1, <2>2, <2>3, <2>4, <2>5, <2>6 DEF HandlerWork
<1>5. ASSUME NEW h \in Handler, NEW t \in Task, Start(h, t) \/ Finish(h, t) PROVE OnInv'
  BY <1>2, <1>5, StartMoves, FinishMoves
<1>6. ASSUME NEW h \in Handler, NEW x \in Approval, NEW t \in Task, RequestApproval(h, x, t)
      PROVE  OnInv'
  BY <1>2, <1>6, RequestMoves
<1>7. ASSUME NEW h \in Handler, NEW x \in Approval, NEW status \in {"approved", "rejected"},
             Decide(h, x, status)
      PROVE  OnInv'
  BY <1>1, <1>2, <1>7, DecideMovesHandler
<1>8. CASE (\E t \in Task : Call(t)) \/ Verify \/ Govern \/ AnswerCall
  BY <1>1, <1>8 DEF Call, Verify, Govern, AnswerCall
<1> QED
  BY <1>1, <1>4, <1>5, <1>6, <1>7, <1>8 DEF GateNext, gateVars

LEMMA PassStep == PassInv /\ OnInv /\ [GateNext]_gateVars => PassInv'
<1> SUFFICES ASSUME PassInv, OnInv, [GateNext]_gateVars PROVE PassInv'
  OBVIOUS
<1>0. /\ GateTypeOK
      /\ task \in [Task -> {"pending", "in_progress", "completed"}]
      /\ gate \in GateKind /\ certs \subseteq Cert /\ issued \in Nat
      /\ handler \in [Handler -> HandlerRow]
      /\ belated \subseteq Task
      /\ toolCall \in [at : {"off", "verify", "govern", "through"}, cert : SUBSET Cert]
  BY GateRows DEF PassInv
<1>1. CASE UNCHANGED gateVars
  BY <1>0, <1>1, RowsKept DEF gateVars, store
<1>2. ASSUME NEW h \in Handler, ReadTasks(h) PROVE PassInv'
  BY <1>0, <1>2, ReadTasksMoves, RowsKept DEF Others
<1>3. ASSUME NEW h \in Handler, Scope(h) PROVE PassInv'
  BY <1>0, <1>3, ScopeMoves, RowsKept DEF Others
<1>4. ASSUME NEW h \in Handler, NEW t \in Task, ListLive(h, t) PROVE PassInv'
  BY <1>0, <1>4, ListLiveMoves, RowsKept DEF Others
<1>5. ASSUME NEW h \in Handler, NEW c \in handler[h].old, Revoke(h, c) PROVE PassInv'
  <2>1. /\ UNCHANGED <<task, gate, issued, toolCall, refused>> /\ belated' \subseteq Task
        /\ certs' = certs \ {c} /\ handler' \in [Handler -> HandlerRow]
    BY <1>0, <1>5, RevokeMoves DEF Others
  <2>2. GateTypeOK'
    BY <1>0, <2>1 DEF GateTypeOK, HandlerRow
  <2> QED
    BY <2>1, <2>2 DEF PassInv, IdInv, CarriesInv
<1>6. ASSUME NEW h \in Handler, Sign(h) PROVE PassInv'
  <2>1. PICK t \in handler[h].on :
           /\ t \in Task /\ UNCHANGED <<task, gate, toolCall>> /\ belated' \subseteq Task
           /\ \/ Settled(h) /\ UNCHANGED <<certs, issued, refused>>
              \/ Goes(h, Free) /\ refused' = TRUE /\ UNCHANGED <<certs, issued>>
              \/ /\ certs' = certs \cup {[task |-> t, by |-> handler[h].want[t], id |-> issued]}
                 /\ issued' = issued + 1 /\ Settled(h) /\ UNCHANGED refused
                 /\ handler[h].at = "revoke" /\ handler[h].mode = "issue"
    BY <1>0, <1>6, SignMoves
  <2>2. CASE Settled(h) /\ UNCHANGED <<certs, issued, refused>>
    BY <1>0, <2>1, <2>2, SettledMoves, RowsKept DEF Others
  <2>3. CASE Goes(h, Free) /\ refused' = TRUE /\ UNCHANGED <<certs, issued>>
    <3>1. handler' \in [Handler -> HandlerRow]
      BY <1>0, <2>3, DoneMoves DEF Others
    <3>2. refused' \in BOOLEAN
      BY <2>3
    <3>3. GateTypeOK'
      BY <1>0, <2>1, <2>3, <3>1, <3>2 DEF GateTypeOK, HandlerRow
    <3> QED
      BY <2>1, <2>3, <3>3 DEF PassInv, IdInv, CarriesInv
  <2>4. CASE /\ certs' = certs \cup {[task |-> t, by |-> handler[h].want[t], id |-> issued]}
             /\ issued' = issued + 1 /\ Settled(h) /\ UNCHANGED refused
    <3>1. handler' \in [Handler -> HandlerRow]
      BY <1>0, <2>4, SettledMoves DEF Others
    <3>2. handler[h].want[t] \in Authority
      BY <1>0, <2>1 DEF OnInv, Wants, HandlerRow, Wanted
    <3> DEFINE d == [task |-> t, by |-> handler[h].want[t], id |-> issued]
    <3>3. d \in Cert /\ d.id = issued
      BY <1>0, <2>1, <3>2 DEF Cert
    <3> HIDE DEF d
    <3>4. certs' = certs \cup {d} /\ issued' = issued + 1 /\ issued \in Nat
      BY <1>0, <2>4 DEF d
    <3>5. refused' \in BOOLEAN
      BY <2>4 DEF PassInv, GateTypeOK
    <3>6. certs' \subseteq Cert /\ issued' \in Nat
      BY <1>0, <3>3, <3>4
    <3>7. GateTypeOK'
      BY <1>0, <2>1, <2>4, <3>1, <3>5, <3>6 DEF GateTypeOK, GateKind, ApprovalRow, HandlerRow
    <3>8. \A c \in certs : c.id \in Nat /\ c.id < issued
      BY <1>0 DEF PassInv, IdInv, Cert
    <3>9. IdInv'
      BY <3>3, <3>4, <3>8 DEF PassInv, IdInv
    <3> QED
      BY <2>1, <3>7, <3>9 DEF PassInv, CarriesInv
  <2> QED
    BY <2>1, <2>2, <2>3, <2>4
<1>7. ASSUME NEW h \in Handler, Return(h) PROVE PassInv'
  BY <1>0, <1>7, ReturnMoves, DoneMoves, RowsKept DEF Others
<1>8. ASSUME NEW h \in Handler, NEW t \in Task, Start(h, t) \/ Finish(h, t) PROVE PassInv'
  <2>1. /\ UNCHANGED <<gate, certs, issued, belated, toolCall, refused>>
        /\ handler' \in [Handler -> HandlerRow]
        /\ \E s \in {"in_progress", "completed"} : task' = [task EXCEPT ![t] = s]
    BY <1>0, <1>8, StartMoves, FinishMoves DEF Others
  <2>2. task' \in [Task -> {"pending", "in_progress", "completed"}]
    BY <1>0, <2>1
  <2> QED
    BY <1>0, <2>1, <2>2, RowsKept
<1>9. ASSUME NEW h \in Handler, NEW x \in Approval, NEW t \in Task, RequestApproval(h, x, t)
      PROVE  PassInv'
  <2>1. /\ UNCHANGED <<task, certs, issued, belated, toolCall, refused>>
        /\ gate' = [gate EXCEPT ![x] = [on |-> {t}, status |-> "pending"]]
        /\ handler' \in [Handler -> HandlerRow]
    BY <1>0, <1>9, RequestMoves DEF Others
  <2>2. gate' \in GateKind
    BY <1>0, <2>1 DEF GateKind, ApprovalRow
  <2> QED
    BY <1>0, <2>1, <2>2, RowsKept
<1>10. ASSUME NEW h \in Handler, NEW x \in Approval, NEW status \in {"approved", "rejected"},
              Decide(h, x, status)
       PROVE  PassInv'
  <2>1. /\ UNCHANGED <<task, certs, issued, belated, toolCall, refused>>
        /\ gate' = [gate EXCEPT ![x].status = status]
        /\ handler' \in [Handler -> HandlerRow]
    BY <1>0, <1>10, DecideMovesHandler DEF Others
  <2>2. gate' \in GateKind
    BY <1>0, <2>1 DEF GateKind, ApprovalRow
  <2> QED
    BY <1>0, <2>1, <2>2, RowsKept
<1>11. ASSUME NEW t \in Task, Call(t) PROVE PassInv'
  <2>1. Presented(t) \in SUBSET Cert /\ Presented(t) \subseteq certs
    BY <1>0 DEF Presented, CertsOf
  <2>2. \A c, d \in Presented(t) : c.id = d.id
    <3>1. \A c \in Presented(t) : c.id \in Nat
      BY <2>1 DEF Cert
    <3>2. \A c, d \in Presented(t) : c.id <= d.id
      BY DEF Presented
    <3> QED
      BY <3>1, <3>2
  <2>3. \A c, d \in Presented(t) : c = d
    BY <2>1, <2>2 DEF PassInv, IdInv
  <2>4. toolCall' = [at |-> "verify", cert |-> Presented(t)]
        /\ UNCHANGED <<task, gate, certs, issued, handler, belated, refused>>
    BY <1>11 DEF Call, store
  <2> QED
    BY <2>1, <2>3, <2>4, CallMoves
<1>12. CASE Verify \/ Govern \/ AnswerCall
  <2>1. UNCHANGED <<task, gate, certs, issued, handler, belated, refused>>
    BY <1>12 DEF Verify, Govern, AnswerCall, store
  <2>2. \/ \E at \in {"govern", "through"} : toolCall' = [toolCall EXCEPT !.at = at]
        \/ toolCall' = [at |-> "off", cert |-> {}]
    BY <1>12 DEF Verify, Govern, AnswerCall
  <2>3. /\ toolCall' \in [at : {"off", "verify", "govern", "through"}, cert : SUBSET Cert]
        /\ toolCall'.cert \in {toolCall.cert, {}}
    BY <1>0, <2>2
  <2>4. \A c, d \in toolCall'.cert : c = d
    BY <2>3 DEF PassInv, CarriesInv
  <2> QED
    BY <2>1, <2>3, <2>4, CallMoves
<1> QED
  BY <1>1, <1>2, <1>3, <1>4, <1>5, <1>6, <1>7, <1>8, <1>9, <1>10, <1>11, <1>12 DEF GateNext, HandlerWork

LEMMA GatePasses == GateSpec => [](PassInv /\ OnInv)
<1>1. GateInit => OnInv
  BY FreeRow DEF GateInit, OnInv
<1>2. PassInv /\ OnInv /\ [GateNext]_gateVars => (PassInv /\ OnInv)'
  BY PassStep, OnStep DEF PassInv
<1> QED
  BY <1>1, <1>2, PassInit, PTL DEF GateSpec

\* Tasks, approvals, certificates, handlers and the call keep their types, for any
\* workflow, number of approvals and requests.
THEOREM GateTypeCorrect == GateSpec => []GateTypeOK
<1>1. PassInv => GateTypeOK
  BY DEF PassInv
<1> QED
  BY <1>1, GatePasses, PTL

\* The gateway lets no call through on a certificate that does not authorize it now:
\* while an approval is open on its task one of them governs the task, and it is not
\* granted (TaskCertificatePolicy).
THEOREM AskedTasksAreStopped == GateSpec => NoCallWhileAsked
<1>1. PassInv /\ [GateNext]_gateVars =>
        [toolCall.at = "govern" /\ toolCall'.at = "through" =>
           \A c \in toolCall.cert, x \in Approval :
             gate[x] # [on |-> {c.task}, status |-> "pending"]]_gateVars
  <2> SUFFICES ASSUME PassInv, [GateNext]_gateVars, toolCall.at = "govern", toolCall'.at = "through",
                      NEW c \in toolCall.cert, NEW x \in Approval,
                      gate[x] = [on |-> {c.task}, status |-> "pending"]
               PROVE  FALSE
    OBVIOUS
  <2>0. GateTypeOK /\ gate \in GateKind /\ c \in Cert
    BY GateRows DEF PassInv
  <2>1. Govern
    <3>1. toolCall' # toolCall
      OBVIOUS
    <3>2. ASSUME NEW h \in Handler, HandlerWork(h) PROVE FALSE
      BY <2>0, <3>1, <3>2, ReadTasksMoves, ScopeMoves, ListLiveMoves, RevokeMoves, SignMoves, ReturnMoves
         DEF HandlerWork
    <3>3. ASSUME NEW h \in Handler, NEW t \in Task, Start(h, t) \/ Finish(h, t) PROVE FALSE
      BY <2>0, <3>1, <3>3, StartMoves, FinishMoves
    <3>4. ASSUME NEW h \in Handler, NEW y \in Approval, NEW t \in Task, RequestApproval(h, y, t)
          PROVE  FALSE
      BY <2>0, <3>1, <3>4, RequestMoves
    <3>5. ASSUME NEW h \in Handler, NEW y \in Approval, NEW status \in {"approved", "rejected"},
                 Decide(h, y, status)
          PROVE  FALSE
      BY <2>0, <3>1, <3>5, DecideMovesHandler
    <3>6. ASSUME (\E t \in Task : Call(t)) \/ Verify \/ AnswerCall PROVE FALSE
      BY <3>6 DEF Call, Verify, AnswerCall
    <3> QED
      BY <3>1, <3>2, <3>3, <3>4, <3>5, <3>6 DEF GateNext, gateVars
  <2>2. Authorizes(c)
    <3>1. PICK d \in toolCall.cert : toolCall' = IF Authorizes(d) THEN [toolCall EXCEPT !.at = "through"]
                                                ELSE [at |-> "off", cert |-> {}]
      BY <2>1 DEF Govern
    <3>2. d = c
      BY DEF PassInv, CarriesInv
    <3> QED
      BY <3>1, <3>2
  <2>3. x \in OpenOn(gate, c.task) /\ c.task \in Task
    BY <2>0 DEF OpenOn, Cert
  <2>4. PICK y \in OpenOn(gate, c.task) : y \in GovernsOf(ActiveOf(gate), c.task)
    BY <2>0, <2>3, OpenGoverns
  <2>5. y \in Governing[c.task] /\ gate[y].status = "pending"
    BY <2>0, <2>3, <2>4, GoverningTyped DEF OpenOn
  <2> QED
    BY <2>2, <2>5 DEF Authorizes, Granted
<1> QED
  BY <1>1, GatePasses, PTL DEF GateSpec, NoCallWhileAsked

-----------------------------------------------------------------------------
(* ApprovalGate: one authority at a time. *)

\* Approvals are requested in their order, on one task each.
AskedInv ==
  /\ \A x \in Approval :
       /\ gate[x].status # "none" => \E t \in Task : gate[x].on = {t}
       /\ gate[x].status = "none" => gate[x].on = {}
  /\ \A x, y \in Approval : x <= y /\ gate[y].status # "none" => gate[x].status # "none"

\* A handler that retires works for tasks that are over; what a handler revokes is of its
\* task.
WorkRow(row, tasks) ==
  /\ row.mode = "retire" =>
       /\ row.at # "tasks" /\ row.todo = {}
       /\ \A t \in Task : row.want[t] # NoOne => tasks[t] = "completed"
  /\ row.at = "revoke" => \E t \in Task : row.on = {t} /\ \A c \in row.old : c.task = t

WorkInv == \A h \in Handler : WorkRow(handler[h], task)

\* A step of one handler that goes on, with nothing else moved but certificates.
LEMMA WorkGoesOn ==
  ASSUME GateTypeOK, AskedInv, WorkInv, NEW h \in Handler, Others(h), UNCHANGED <<task, gate>>,
         handler[h].at # "off", handler'[h].at \notin {"off", "tasks"},
         handler'[h].mode = handler[h].mode,
         handler[h].mode = "retire" =>
           handler'[h].todo = {} /\ \A t \in Task : Wants(h, t)' => Wants(h, t),
         handler'[h].at = "revoke" =>
           \E t \in Task : handler'[h].on = {t} /\ \A c \in handler'[h].old : c.task = t
  PROVE  AskedInv' /\ WorkInv'
<1>1. AskedInv'
  BY DEF AskedInv
<1>2. WorkInv'
  <2> SUFFICES ASSUME NEW g \in Handler
               PROVE  WorkRow(handler'[g], task')
    BY DEF WorkInv
  <2>0. WorkRow(handler[g], task)
    BY DEF WorkInv
  <2>1. CASE g = h
    BY <2>0, <2>1 DEF WorkRow, Wants
  <2>2. CASE g # h
    <3>1. handler'[g] = handler[g]
      BY <2>2 DEF Others
    <3> QED
      BY <2>0, <3>1
  <2> QED
    BY <2>1, <2>2
<1> QED
  BY <1>1, <1>2

LEMMA WorkEnds ==
  ASSUME GateTypeOK, AskedInv, WorkInv, NEW h \in Handler, Goes(h, Free), UNCHANGED <<task, gate>>
  PROVE  AskedInv' /\ WorkInv'
<1>1. Others(h) /\ handler'[h] = Free
  BY DoneMoves
<1>2. AskedInv'
  BY DEF AskedInv
<1>3. WorkInv'
  BY <1>1, FreeRow DEF WorkInv, WorkRow, Others
<1> QED
  BY <1>2, <1>3

\* A handler that begins wants nothing yet, unless it retires a task that is over.
LEMMA WorkBegins ==
  ASSUME GateTypeOK, WorkInv, NEW h \in Handler, Others(h), handler'[h].at \notin {"off", "revoke"},
         \A t \in Task : task[t] = "completed" => task'[t] = "completed",
         handler'[h].mode = "retire" =>
           /\ handler'[h].at # "tasks" /\ handler'[h].todo = {}
           /\ \A t \in Task : Wants(h, t)' => task'[t] = "completed"
  PROVE  WorkInv'
<1> SUFFICES ASSUME NEW g \in Handler
             PROVE  WorkRow(handler'[g], task')
  BY DEF WorkInv
<1>0. WorkRow(handler[g], task)
  BY DEF WorkInv
<1>1. CASE g = h
  BY <1>1 DEF WorkRow, Wants
<1>2. CASE g # h
  <2>1. handler'[g] = handler[g]
    BY <1>2 DEF Others
  <2>2. WorkRow(handler[g], task')
    BY <1>0 DEF WorkRow
  <2> QED
    BY <2>1, <2>2
<1> QED
  BY <1>1, <1>2

LEMMA WorkStep == PassInv /\ OnInv /\ AskedInv /\ WorkInv /\ [GateNext]_gateVars => AskedInv' /\ WorkInv'
<1> SUFFICES ASSUME PassInv, OnInv, AskedInv, WorkInv, [GateNext]_gateVars PROVE AskedInv' /\ WorkInv'
  OBVIOUS
<1>13. \A h \in Handler : WorkRow(handler[h], task)
  BY DEF WorkInv
<1>0. /\ GateTypeOK /\ gate \in GateKind /\ handler \in [Handler -> HandlerRow]
      /\ task \in [Task -> {"pending", "in_progress", "completed"}]
  BY GateRows DEF PassInv
<1>1. ASSUME UNCHANGED <<task, gate, handler>> PROVE AskedInv' /\ WorkInv'
  BY <1>1 DEF AskedInv, WorkInv
<1>2. ASSUME NEW h \in Handler, ReadTasks(h) PROVE AskedInv' /\ WorkInv'
  <2>1. handler[h].mode # "retire"
    BY <1>0, <1>2, <1>13, ReadTasksMoves DEF WorkRow
  <2> QED
    BY <1>0, <1>2, <2>1, ReadTasksMoves, WorkGoesOn
<1>3. ASSUME NEW h \in Handler, Scope(h) PROVE AskedInv' /\ WorkInv'
  <2>1. /\ UNCHANGED <<task, gate>> /\ Others(h) /\ handler[h].at = "scope"
        /\ handler'[h].at = "next" /\ handler'[h].todo = {} /\ handler'[h].mode = handler[h].mode
        /\ handler'[h].of = handler[h].of
        /\ \A t \in Task : Wants(h, t)' => t \in handler[h].todo
    BY <1>0, <1>3, ScopeMoves
  <2>2. handler[h].mode = "retire" => \A t \in Task : Wants(h, t)' => Wants(h, t)
    BY <1>13, <2>1 DEF WorkRow
  <2> QED
    BY <1>0, <2>1, <2>2, WorkGoesOn
<1>4. ASSUME NEW h \in Handler, NEW t \in Task, ListLive(h, t) PROVE AskedInv' /\ WorkInv'
  <2>1. /\ UNCHANGED <<task, gate>> /\ Others(h) /\ handler[h].at = "next"
        /\ handler'[h].mode = handler[h].mode /\ handler'[h].of = handler[h].of
        /\ handler'[h].todo = handler[h].todo
        /\ \/ handler'[h].at = "next" /\ handler'[h].want = [handler[h].want EXCEPT ![t] = NoOne]
           \/ /\ handler'[h].at = "revoke" /\ handler'[h].want = handler[h].want
              /\ handler'[h].on = {t} /\ handler'[h].old \subseteq CertsOf(t)
    BY <1>0, <1>4, ListLiveMoves
  <2>2. handler[h] \in HandlerRow /\ handler[h].want \in [Task -> Wanted]
    BY <1>0 DEF HandlerRow
  <2>3. \A u \in Task : Wants(h, u)' => Wants(h, u)
    BY <2>1, <2>2 DEF Wants
  <2>4. handler'[h].at = "revoke" => handler'[h].on = {t} /\ \A c \in handler'[h].old : c.task = t
    BY <2>1 DEF CertsOf
  <2>5. handler[h].mode = "retire" => handler[h].todo = {}
    BY <1>13 DEF WorkRow
  <2>6. handler'[h].at \notin {"off", "tasks"} /\ handler[h].at # "off"
    BY <2>1
  <2> QED
    BY <1>0, <2>1, <2>3, <2>4, <2>5, <2>6, WorkGoesOn
<1>5. ASSUME NEW h \in Handler, NEW c \in handler[h].old, Revoke(h, c) PROVE AskedInv' /\ WorkInv'
  <2>1. /\ UNCHANGED <<task, gate>> /\ Others(h) /\ handler[h].at = "revoke"
        /\ handler'[h].at = "revoke" /\ handler'[h].mode = handler[h].mode
        /\ handler'[h].of = handler[h].of /\ handler'[h].todo = handler[h].todo
        /\ handler'[h].want = handler[h].want
        /\ handler'[h].on = handler[h].on /\ handler'[h].old = handler[h].old \ {c}
    BY <1>0, <1>5, RevokeMoves
  <2>2. \E t \in Task : handler'[h].on = {t} /\ \A d \in handler'[h].old : d.task = t
    <3>1. PICK t \in Task : handler[h].on = {t} /\ \A d \in handler[h].old : d.task = t
      BY <1>13, <2>1 DEF WorkRow
    <3> QED
      BY <2>1, <3>1
  <2>3. handler[h].mode = "retire" => handler[h].todo = {}
    BY <1>13 DEF WorkRow
  <2> QED
    BY <1>0, <2>1, <2>2, <2>3, WorkGoesOn DEF Wants
<1>6. ASSUME NEW h \in Handler, Sign(h) PROVE AskedInv' /\ WorkInv'
  <2>1. /\ UNCHANGED <<task, gate>> /\ handler[h].at = "revoke"
        /\ Settled(h) \/ Goes(h, Free)
    BY <1>0, <1>6, SignMoves
  <2>2. CASE Settled(h)
    <3>1. /\ Others(h) /\ handler'[h].at = "next" /\ handler'[h].mode = handler[h].mode
          /\ handler'[h].of = handler[h].of /\ handler'[h].todo = handler[h].todo
          /\ \A t \in Task : Wants(h, t)' => Wants(h, t)
      BY <1>0, <2>2, SettledMoves DEF Wants
    <3>2. handler[h].mode = "retire" => handler[h].todo = {}
      BY <1>13 DEF WorkRow
    <3> QED
      BY <1>0, <2>1, <2>2, <3>1, <3>2, WorkGoesOn
  <2>3. CASE Goes(h, Free)
    BY <1>0, <2>1, <2>3, WorkEnds
  <2> QED
    BY <2>1, <2>2, <2>3
<1>7. ASSUME NEW h \in Handler, Return(h) PROVE AskedInv' /\ WorkInv'
  BY <1>0, <1>7, ReturnMoves, WorkEnds
<1>8. ASSUME NEW h \in Handler, NEW t \in Task, Start(h, t) PROVE AskedInv' /\ WorkInv'
  <2>1. /\ UNCHANGED gate /\ Others(h) /\ handler'[h].at = "scope"
        /\ handler'[h].mode = "issue" /\ task[t] = "pending"
        /\ task' = [task EXCEPT ![t] = "in_progress"]
    BY <1>0, <1>8, StartMoves
  <2>2. AskedInv'
    BY <1>0, <2>1 DEF AskedInv, Others
  <2>3. WorkInv'
    BY <1>0, <2>1, WorkBegins
  <2> QED
    BY <2>2, <2>3
<1>9. ASSUME NEW h \in Handler, NEW t \in Task, Finish(h, t) PROVE AskedInv' /\ WorkInv'
  <2>1. /\ UNCHANGED gate /\ Others(h) /\ handler'[h].at = "next"
        /\ handler'[h].mode = "retire" /\ handler'[h].todo = {}
        /\ task' = [task EXCEPT ![t] = "completed"]
        /\ \A u \in Task : Wants(h, u)' => u = t
    BY <1>0, <1>9, FinishMoves
  <2>2. AskedInv'
    BY <1>0, <2>1 DEF AskedInv, Others
  <2>3. WorkInv'
    BY <1>0, <2>1, WorkBegins
  <2> QED
    BY <2>2, <2>3
<1>10. ASSUME NEW h \in Handler, NEW x \in Approval, NEW t \in Task, RequestApproval(h, x, t)
       PROVE  AskedInv' /\ WorkInv'
  <2>1. /\ UNCHANGED task
        /\ gate' = [gate EXCEPT ![x] = [on |-> {t}, status |-> "pending"]]
        /\ Others(h) /\ handler'[h].at = "scope" /\ handler'[h].mode = "stand down"
    <3>1. GateTypeOK
      BY <1>0
    <3> QED
      BY <1>10, <3>1, RequestMoves
  <2>3. \A y \in 1..(x-1) : gate[y].status # "none"
    BY <1>10 DEF RequestApproval
  <2>2. /\ \A y \in Approval : y # x => gate'[y] = gate[y]
        /\ gate'[x].on = {t} /\ gate'[x].status = "pending"
    <3>1. gate'[x] = [on |-> {t}, status |-> "pending"]
      BY <1>0, <2>1 DEF GateKind
    <3>2. \A y \in Approval : y # x => gate'[y] = gate[y]
      BY <1>0, <2>1 DEF GateKind
    <3> QED
      BY <3>1, <3>2
  <2>4. \A y \in Approval : /\ gate'[y].status # "none" => \E u \in Task : gate'[y].on = {u}
                            /\ gate'[y].status = "none" => gate'[y].on = {}
    BY <1>0, <2>2 DEF AskedInv
  <2>5. \A y, z \in Approval : y <= z /\ gate'[z].status # "none" => gate'[y].status # "none"
    <3>1. \A y \in Approval : y <= x => y = x \/ y \in 1..(x-1)
      BY GateAssumption DEF Approval
    <3>2. \A y \in Approval : y <= x => gate'[y].status # "none"
      BY <2>2, <2>3, <3>1
    <3> QED
      BY <2>2, <3>2 DEF AskedInv
  <2>6. WorkInv'
    BY <1>0, <2>1, <2>2, WorkBegins
  <2> QED
    BY <2>4, <2>5, <2>6 DEF AskedInv
<1>11. ASSUME NEW h \in Handler, NEW x \in Approval, NEW status \in {"approved", "rejected"},
              Decide(h, x, status)
       PROVE  AskedInv' /\ WorkInv'
  <2>1. /\ UNCHANGED task /\ gate[x].status = "pending"
        /\ gate' = [gate EXCEPT ![x].status = status] /\ Others(h) /\ handler[h].at = "off"
        /\ \/ handler'[h].at = "tasks" /\ handler'[h].mode = "issue"
           \/ UNCHANGED handler
    BY <1>0, <1>11, DecideMovesHandler
  <2>2. /\ \A y \in Approval : y # x => gate'[y] = gate[y]
        /\ gate'[x].on = gate[x].on /\ gate'[x].status = status
    BY <1>0, <2>1 DEF GateKind, ApprovalRow
  <2>4. AskedInv'
    BY <1>0, <2>1, <2>2 DEF AskedInv
  <2>5. CASE UNCHANGED handler
    BY <2>1, <2>4, <2>5 DEF WorkInv
  <2>6. CASE handler'[h].at = "tasks" /\ handler'[h].mode = "issue"
    BY <1>0, <2>1, <2>4, <2>6, WorkBegins
  <2> QED
    BY <2>1, <2>5, <2>6
<1>12. CASE UNCHANGED gateVars \/ (\E t \in Task : Call(t)) \/ Verify \/ Govern \/ AnswerCall
  BY <1>1, <1>12 DEF Call, Verify, Govern, AnswerCall, gateVars
<1> QED
  BY <1>2, <1>3, <1>4, <1>5, <1>6, <1>7, <1>8, <1>9, <1>10, <1>11, <1>12 DEF GateNext, HandlerWork

\* The approvals that govern t when none of them is open.
Heads(t) == HeadsOf(gate, t)

\* w spoke for t when some handler read the approvals: it has been the oldest that governs
\* for as long as it does; and its time is over.
Once(t, w) ==
  w \in Approval => gate[w].status # "none" /\ (w \in Heads(t) => \A y \in Heads(t) : w <= y)

Past(t, w) == IF w = Initiator THEN Heads(t) # {} ELSE w \notin Heads(t)

\* What an issuing handler signs for has spoken for its task.
OnceInv ==
  \A h \in Handler, t \in Task :
    Wants(h, t) /\ handler[h].mode = "issue" => Once(t, handler[h].want[t])

\* Whatever certificate the task has that an issuing handler has not listed is of the
\* authority it is about to sign for, or the time of that authority is over -- unless a
\* handler acted on this task on what the approvals were before.
LeftInv ==
  \A h \in Handler : handler[h].mode = "issue" => \A t \in handler[h].on \ belated :
    \A c \in CertsOf(t) :
      c \in handler[h].old \/ c.by = handler[h].want[t] \/ Past(t, handler[h].want[t])

OneCert == \A t \in Task \ belated : Sole(t)

LEMMA GoverningKept == ASSUME GateTypeOK, UNCHANGED gate PROVE Governing' = Governing
BY GoverningIs

\* A request changes what governs a task only by governing it.
LEMMA RequestGoverns ==
  ASSUME GateTypeOK, AskedInv, NEW h \in Handler, NEW x \in Approval, NEW o \in Task,
         RequestApproval(h, x, o), NEW t \in Task
  PROVE  /\ Governing'[t] = Governing[t] \/ x \in Governing'[t]
         /\ x \notin Governing[t]
         /\ Governing'[t] \subseteq Approval /\ Governing[t] \subseteq Approval
         /\ gate'[x].status = "pending" /\ \A y \in Approval : y # x => gate'[y] = gate[y]
<1>1. /\ gate[x].status = "none"
      /\ gate' = [gate EXCEPT ![x] = [on |-> {o}, status |-> "pending"]]
  BY DEF RequestApproval
<1>2. gate \in GateKind
  BY GateRows
<1>3. gate' \in GateKind
  BY <1>1, <1>2 DEF GateKind, ApprovalRow
<1>4. gate[x].on = {}
  BY <1>1 DEF AskedInv
<1>5. \A y \in Approval : gate[y].on = {o} => y < x
  <2> SUFFICES ASSUME NEW y \in Approval, gate[y].on = {o}, ~ (y < x) PROVE FALSE
    OBVIOUS
  <2>1. gate[y].status # "none" /\ x <= y
    BY GateAssumption DEF AskedInv, Approval
  <2> QED
    BY <1>1, <2>1 DEF AskedInv
<1>6. GovernsOf(ActiveOf(gate'), t) = GovernsOf(ActiveOf(gate), t) \/ x \in GovernsOf(ActiveOf(gate'), t)
  BY <1>1, <1>2, <1>3, <1>4, <1>5, AskMoves
<1>7. Governing[t] = GovernsOf(ActiveOf(gate), t) /\ Governing'[t] = GovernsOf(ActiveOf(gate'), t)
  BY GoverningIs
<1>8. x \notin GovernsOf(ActiveOf(gate), t)
  <2>1. \A u \in Task : ActiveOf(gate)[u] \subseteq AllOn(gate, u)
    BY <1>2, ActiveFacts
  <2>2. \A u \in Task : x \notin AllOn(gate, u)
    BY <1>4 DEF AllOn
  <2>3. WalkUp(ActiveOf(gate), t) \subseteq Task
    BY DEF WalkUp
  <2> QED
    BY <2>1, <2>2, <2>3 DEF GovernsOf
<1>9. GovernsOf(ActiveOf(gate), t) \in SUBSET Approval /\ GovernsOf(ActiveOf(gate'), t) \in SUBSET Approval
  BY <1>2, <1>3, GovernsTyped
<1>10. gate'[x].status = "pending" /\ \A y \in Approval : y # x => gate'[y] = gate[y]
  <2>1. gate'[x] = [on |-> {o}, status |-> "pending"]
    BY <1>1, <1>2 DEF GateKind
  <2>2. \A y \in Approval : y # x => gate'[y] = gate[y]
    BY <1>1, <1>2 DEF GateKind
  <2> QED
    BY <2>1, <2>2
<1> QED
  BY <1>6, <1>7, <1>8, <1>9, <1>10

\* A decision changes nothing for the tasks its approval does not govern.
LEMMA DecisionGoverns ==
  ASSUME GateTypeOK, AskedInv, NEW h \in Handler, NEW x \in Approval,
         NEW status \in {"approved", "rejected"}, Decide(h, x, status), NEW t \in Task
  PROVE  /\ x \notin Governing[t] => Governing'[t] = Governing[t]
         /\ \A y \in Governing[t] : y # x => y \in Governing'[t]
         /\ (\A y \in Approval : gate[y].on = gate[x].on =>
               y <= x /\ (gate[y].status = "pending" => y = x)) => Governing'[t] = Governing[t]
         /\ Governing'[t] \subseteq Approval /\ Governing[t] \subseteq Approval
         /\ gate'[x].on = gate[x].on /\ gate'[x].status = status
         /\ \A y \in Approval : y # x => gate'[y] = gate[y]
<1>1. gate[x].status = "pending" /\ gate' = [gate EXCEPT ![x].status = status]
  BY DecideMovesHandler
<1>2. gate \in GateKind
  BY GateRows
<1>3. /\ gate' \in GateKind /\ gate'[x].on = gate[x].on /\ gate'[x].status = status
      /\ \A y \in Approval : y # x => gate'[y] = gate[y]
  BY <1>1, <1>2 DEF GateKind, ApprovalRow
<1>4. PICK o \in Task : gate[x].on = {o}
  BY <1>1 DEF AskedInv
<1>5. /\ x \notin GovernsOf(ActiveOf(gate), t) => GovernsOf(ActiveOf(gate'), t) = GovernsOf(ActiveOf(gate), t)
      /\ \A y \in GovernsOf(ActiveOf(gate), t) : y # x => y \in GovernsOf(ActiveOf(gate'), t)
      /\ (\A y \in AllOn(gate, o) : y <= x) /\ (\A y \in OpenOn(gate, o) : y = x) =>
           GovernsOf(ActiveOf(gate'), t) = GovernsOf(ActiveOf(gate), t)
  <2> DEFINE g1 == gate
             g2 == gate'
  <2>1. /\ g1 \in GateKind /\ g2 \in GateKind /\ g1[x].on = {o} /\ g1[x].status = "pending"
        /\ g2[x].on = g1[x].on /\ g2[x].status # "pending" /\ \A y \in Approval : y # x => g2[y] = g1[y]
    BY <1>1, <1>2, <1>3, <1>4
  <2> HIDE DEF g1, g2
  <2>2. /\ x \notin GovernsOf(ActiveOf(g1), t) => GovernsOf(ActiveOf(g2), t) = GovernsOf(ActiveOf(g1), t)
        /\ \A y \in GovernsOf(ActiveOf(g1), t) : y # x => y \in GovernsOf(ActiveOf(g2), t)
        /\ (\A y \in AllOn(g1, o) : y <= x) /\ (\A y \in OpenOn(g1, o) : y = x) =>
             GovernsOf(ActiveOf(g2), t) = GovernsOf(ActiveOf(g1), t)
    BY <2>1, DecideMoves, ZenonT(60)
  <2> QED
    BY <2>2 DEF g1, g2
<1>6. Governing[t] = GovernsOf(ActiveOf(gate), t) /\ Governing'[t] = GovernsOf(ActiveOf(gate'), t)
  BY GoverningIs
<1>7. GovernsOf(ActiveOf(gate), t) \in SUBSET Approval /\ GovernsOf(ActiveOf(gate'), t) \in SUBSET Approval
  BY <1>2, <1>3, GovernsTyped
<1>8. ASSUME \A y \in Approval : gate[y].on = gate[x].on => y <= x /\ (gate[y].status = "pending" => y = x)
      PROVE  (\A y \in AllOn(gate, o) : y <= x) /\ (\A y \in OpenOn(gate, o) : y = x)
  BY <1>1, <1>4, <1>8 DEF AllOn, OpenOn
<1> QED
  BY <1>3, <1>5, <1>6, <1>7, <1>8

\* Apart from an issue's choice of what it wants, and from requests and decisions, a
\* handler's step only narrows what it wants.
Narrows(h) ==
  /\ Others(h)
  /\ \A t \in Task : Wants(h, t)' /\ handler'[h].mode # "retire" =>
       handler'[h].mode = handler[h].mode /\ handler'[h].want[t] = handler[h].want[t]

LEMMA StepKinds ==
  ASSUME GateTypeOK, OnInv, [GateNext]_gateVars
  PROVE  \/ \E h \in Handler : Scope(h)
         \/ \E h \in Handler, x \in Approval, t \in Task : RequestApproval(h, x, t)
         \/ \E h \in Handler, x \in Approval, status \in {"approved", "rejected"} : Decide(h, x, status)
         \/ \E h \in Handler : Narrows(h) /\ UNCHANGED gate
         \/ UNCHANGED <<gate, handler>>
<1> DEFINE Goal ==
             \/ \E h \in Handler : Scope(h)
             \/ \E h \in Handler, x \in Approval, t \in Task : RequestApproval(h, x, t)
             \/ \E h \in Handler, x \in Approval, status \in {"approved", "rejected"} : Decide(h, x, status)
             \/ \E h \in Handler : Narrows(h) /\ UNCHANGED gate
             \/ UNCHANGED <<gate, handler>>
<1>0. handler \in [Handler -> HandlerRow]
  BY GateRows
<1>1. ASSUME NEW h \in Handler, Narrows(h), UNCHANGED gate PROVE Goal
  BY <1>1
<1> HIDE DEF Goal
<1>2. ASSUME NEW h \in Handler, Others(h), UNCHANGED gate,
             \A t \in Task : ~ Wants(h, t)' \/ handler'[h].mode = "retire"
      PROVE  Goal
  BY <1>1, <1>2 DEF Narrows
<1>3. ASSUME NEW h \in Handler, Others(h), UNCHANGED gate, handler'[h].mode = handler[h].mode,
             \A t \in Task : handler'[h].want[t] = NoOne \/ handler'[h].want[t] = handler[h].want[t]
      PROVE  Goal
  BY <1>1, <1>3 DEF Narrows, Wants
<1>4. ASSUME NEW h \in Handler, Goes(h, Free), UNCHANGED gate PROVE Goal
  <2>1. Others(h) /\ handler'[h] = Free
    BY <1>4, DoneMoves
  <2>2. \A t \in Task : ~ Wants(h, t)'
    BY <2>1, FreeRow DEF Wants
  <2> QED
    BY <1>1, <1>4, <2>1, <2>2 DEF Narrows
<1>5. ASSUME NEW h \in Handler, HandlerWork(h) PROVE Goal
  <2>1. CASE ReadTasks(h)
    BY <1>3, <2>1, ReadTasksMoves
  <2>2. CASE Scope(h)
    BY <2>2 DEF Goal
  <2>3. ASSUME NEW t \in Task, ListLive(h, t) PROVE Goal
    <3>1. /\ Others(h) /\ UNCHANGED gate /\ handler'[h].mode = handler[h].mode
          /\ handler'[h].want = [handler[h].want EXCEPT ![t] = NoOne] \/ handler'[h].want = handler[h].want
      BY <2>3, ListLiveMoves
    <3>2. handler[h].want \in [Task -> Wanted]
      BY <1>0 DEF HandlerRow
    <3> QED
      BY <1>3, <3>1, <3>2
  <2>4. ASSUME NEW c \in handler[h].old, Revoke(h, c) PROVE Goal
    BY <1>3, <2>4, RevokeMoves
  <2>5. CASE Sign(h)
    <3>1. UNCHANGED gate /\ (Settled(h) \/ Goes(h, Free))
      BY <2>5, SignMoves
    <3> QED
      BY <1>3, <1>4, <3>1, SettledMoves
  <2>6. CASE Return(h)
    BY <1>4, <2>6, ReturnMoves
  <2> QED
    BY <1>5, <2>1, <2>2, <2>3, <2>4, <2>5, <2>6 DEF HandlerWork
<1>6. ASSUME NEW h \in Handler, NEW t \in Task, Start(h, t) PROVE Goal
  BY <1>2, <1>6, StartMoves
<1>7. ASSUME NEW h \in Handler, NEW t \in Task, Finish(h, t) PROVE Goal
  BY <1>2, <1>7, FinishMoves
<1>8. CASE UNCHANGED gateVars \/ (\E t \in Task : Call(t)) \/ Verify \/ Govern \/ AnswerCall
  BY <1>8 DEF Goal, Call, Verify, Govern, AnswerCall, gateVars
<1>9. Goal
  BY <1>5, <1>6, <1>7, <1>8 DEF GateNext, Goal
<1> QED
  BY <1>9 DEF Goal

\* Once w has spoken for t it has, and once its time is over it is.
LEMMA OnceKept ==
  ASSUME GateTypeOK, OnInv, AskedInv, [GateNext]_gateVars, NEW t \in Task, NEW w \in Authority, Once(t, w)
  PROVE  Once(t, w)' /\ (Past(t, w) => Past(t, w)')
<1>0. gate \in GateKind
  BY GateRows
<1>1. ASSUME \A x \in Approval : gate'[x].on = gate[x].on /\ (gate'[x].status = "none" => gate[x].status = "none")
      PROVE  Once(t, w)' /\ (Past(t, w) => Past(t, w)')
  <2>1. \A u \in Task : AllOn(gate', u) = AllOn(gate, u)
    BY <1>1 DEF AllOn
  <2>2. HeadsOf(gate', t) = HeadsOf(gate, t)
    BY <2>1 DEF HeadsOf, NewOf
  <2> QED
    BY <1>1, <2>2 DEF Once, Past, Heads
<1>2. ASSUME NEW h \in Handler, NEW x \in Approval, NEW o \in Task, RequestApproval(h, x, o)
      PROVE  Once(t, w)' /\ (Past(t, w) => Past(t, w)')
  <2>1. /\ gate[x].status = "none"
        /\ gate' = [gate EXCEPT ![x] = [on |-> {o}, status |-> "pending"]]
    BY <1>2 DEF RequestApproval
  <2>2. gate' \in GateKind /\ gate[x].on = {}
    BY <1>0, <2>1 DEF GateKind, ApprovalRow, AskedInv
  <2>3. \A y \in Approval : gate[y].status # "none" => y < x
    BY <2>1, GateAssumption DEF AskedInv, Approval
  <2>4. \A y \in Approval : gate[y].on = {o} => y <= x
    BY <2>3, GateAssumption DEF AskedInv, Approval
  <2>5. Widens(HeadsOf(gate, t), HeadsOf(gate', t), x)
    <3> DEFINE g1 == gate
               g2 == gate'
    <3>1. /\ g1 \in GateKind /\ g1[x].on = {} /\ \A y \in Approval : g1[y].on = {o} => y <= x
          /\ g2 \in GateKind /\ g2[x].on = {o} /\ \A y \in Approval : y # x => g2[y] = g1[y]
      <4>1. gate'[x] = [on |-> {o}, status |-> "pending"]
        BY <1>0, <2>1 DEF GateKind
      <4>2. \A y \in Approval : y # x => gate'[y] = gate[y]
        BY <1>0, <2>1 DEF GateKind
      <4> QED
        BY <1>0, <2>2, <2>4, <4>1, <4>2
    <3> HIDE DEF g1, g2
    <3>2. Widens(HeadsOf(g1, t), HeadsOf(g2, t), x)
      BY <3>1, AskHeads, ZenonT(60)
    <3> QED
      BY <3>2 DEF g1, g2
  <2>6. \A y \in Approval : gate[y].status # "none" => gate'[y].status # "none"
    BY <1>0, <2>1 DEF GateKind, ApprovalRow
  <2>7. w \in Approval => w < x /\ w # x /\ w <= x
    BY <2>1, <2>3, GateAssumption DEF Once, Approval
  <2>8. Once(t, w)'
    BY <2>5, <2>6, <2>7 DEF Once, Heads, Widens
  <2>9. w # Initiator => w # x
    BY <2>7 DEF Authority
  <2> QED
    BY <2>5, <2>8, <2>9 DEF Past, Heads, Widens
<1>3. ASSUME NEW h \in Handler, NEW x \in Approval, NEW status \in {"approved", "rejected"},
             Decide(h, x, status)
      PROVE  Once(t, w)' /\ (Past(t, w) => Past(t, w)')
  <2>1. gate' = [gate EXCEPT ![x].status = status] /\ status # "none"
    BY <1>3, DecideMovesHandler
  <2>2. \A y \in Approval : gate'[y].on = gate[y].on /\ (gate'[y].status = "none" => gate[y].status = "none")
    BY <1>0, <2>1 DEF GateKind, ApprovalRow
  <2> QED
    BY <1>1, <2>2
<1>4. ASSUME UNCHANGED gate PROVE Once(t, w)' /\ (Past(t, w) => Past(t, w)')
  BY <1>1, <1>4
<1>5. ASSUME NEW h \in Handler, Scope(h) PROVE Once(t, w)' /\ (Past(t, w) => Past(t, w)')
  BY <1>4, <1>5, ScopeMoves
<1> QED
  BY <1>2, <1>3, <1>4, <1>5, StepKinds

\* Whoever speaks for t now has, and of those that have it is the one whose time is not over.
LEMMA OnceMeans ==
  ASSUME GateTypeOK, AskedInv, NEW t \in Task, Granted(Governing[t])
  PROVE  /\ GrantorOf(Governing[t]) \in Authority /\ Once(t, GrantorOf(Governing[t]))
         /\ \A w \in Authority : Once(t, w) => (Past(t, w) <=> w # GrantorOf(Governing[t]))
<1>0. gate \in GateKind /\ Governing[t] = GovernsOf(ActiveOf(gate), t) /\ Governing[t] \in SUBSET Approval
  BY GoverningTyped
<1>1. Heads(t) = Governing[t]
  <2>1. \A x \in GovernsOf(ActiveOf(gate), t) : gate[x].status # "pending"
    BY <1>0 DEF Granted
  <2> QED
    BY <1>0, <2>1, HeadsGovern DEF Heads
<1>2. /\ GrantorOf(Heads(t)) \in Authority
      /\ Heads(t) # {} => GrantorOf(Heads(t)) \in Heads(t) /\ \A y \in Heads(t) : GrantorOf(Heads(t)) <= y
      /\ Heads(t) = {} => GrantorOf(Heads(t)) = Initiator
  BY <1>0, <1>1, GrantorTyped
<1> DEFINE H == Heads(t)
           w0 == GrantorOf(Heads(t))
<1>3. H \in SUBSET Approval /\ Initiator \notin Approval /\ \A x \in H : gate[x].status # "none"
  BY <1>0, <1>1, GateAssumption DEF Approval, Granted
<1>4. Once(t, w0)
  BY <1>2, <1>3 DEF Once
<1>5. ASSUME NEW w \in Authority, Once(t, w) PROVE Past(t, w) <=> w # w0
  <2>1. CASE w = Initiator
    BY <1>2, <1>3, <2>1 DEF Past
  <2>2. CASE w \in Approval /\ w \in H
    <3>1. w <= w0 /\ w0 <= w /\ w0 \in Approval
      BY <1>2, <1>3, <1>5, <2>2 DEF Once
    <3>2. w = w0
      BY <2>2, <3>1, GateAssumption DEF Approval
    <3> QED
      BY <1>3, <2>2, <3>2 DEF Past
  <2>3. CASE w \in Approval /\ w \notin H
    BY <1>2, <1>3, <2>3 DEF Past
  <2> QED
    BY <2>1, <2>2, <2>3 DEF Authority
<1> QED
  BY <1>1, <1>2, <1>4, <1>5

LEMMA OnceStep == PassInv /\ OnInv /\ AskedInv /\ OnceInv /\ [GateNext]_gateVars => OnceInv'
<1> SUFFICES ASSUME PassInv, OnInv, AskedInv, OnceInv, [GateNext]_gateVars,
                    NEW g \in Handler, NEW t \in Task, Wants(g, t)', handler'[g].mode = "issue"
             PROVE  Once(t, handler[g].want[t])'
  BY DEF OnceInv
<1>0. GateTypeOK /\ handler \in [Handler -> HandlerRow]
  BY GateRows DEF PassInv
<1>1. ASSUME handler[g].mode = "issue", handler'[g].want[t] = handler[g].want[t]
      PROVE  Once(t, handler[g].want[t])'
  <2>1. PICK w \in Authority : w = handler[g].want[t] /\ Once(t, w)
    BY <1>0, <1>1 DEF OnceInv, Wants, HandlerRow, Wanted
  <2>2. Once(t, w)'
    BY <1>0, <2>1, OnceKept
  <2>3. handler'[g].want[t] = w
    BY <1>1, <2>1
  <2> QED
    BY <2>2, <2>3 DEF Once
<1>2. ASSUME NEW h \in Handler, Others(h),
             Wants(h, t)' /\ handler'[h].mode = "issue" =>
               handler[h].mode = "issue" /\ handler'[h].want[t] = handler[h].want[t]
      PROVE  Once(t, handler[g].want[t])'
  BY <1>1, <1>2 DEF Others
<1>3. ASSUME NEW h \in Handler, Scope(h) PROVE Once(t, handler[g].want[t])'
  <2>1. /\ UNCHANGED gate /\ Others(h) /\ handler'[h].mode = handler[h].mode
        /\ Wants(h, t)' /\ handler[h].mode # "stand down" =>
             Granted(Governing[t]) /\ handler'[h].want[t] = GrantorOf(Governing[t])
    BY <1>0, <1>3, ScopeMoves
  <2>2. CASE g = h
    <3>1. Granted(Governing[t]) /\ handler'[g].want[t] = GrantorOf(Governing[t])
      BY <2>1, <2>2
    <3>2. PICK w \in Authority : w = handler'[g].want[t] /\ Once(t, w)
      BY <1>0, <3>1, OnceMeans
    <3>3. Once(t, w)'
      BY <1>0, <3>2, OnceKept
    <3> QED
      BY <3>2, <3>3 DEF Once
  <2>3. CASE g # h
    BY <1>1, <2>1, <2>3 DEF Others
  <2> QED
    BY <2>2, <2>3
<1>4. ASSUME NEW h \in Handler, NEW x \in Approval, NEW o \in Task, RequestApproval(h, x, o)
      PROVE  Once(t, handler[g].want[t])'
  BY <1>0, <1>2, <1>4, RequestMoves
<1>5. ASSUME NEW h \in Handler, NEW x \in Approval, NEW status \in {"approved", "rejected"},
             Decide(h, x, status)
      PROVE  Once(t, handler[g].want[t])'
  <2>1. Others(h) /\ ((\A u \in Task : ~ Wants(h, u)') \/ UNCHANGED handler)
    BY <1>0, <1>5, DecideMovesHandler
  <2> QED
    BY <1>2, <2>1
<1>6. ASSUME NEW h \in Handler, Narrows(h) PROVE Once(t, handler[g].want[t])'
  BY <1>2, <1>6 DEF Narrows
<1>7. ASSUME UNCHANGED handler PROVE Once(t, handler[g].want[t])'
  BY <1>1, <1>7
<1> QED
  BY <1>0, <1>3, <1>4, <1>5, <1>6, <1>7, StepKinds

\* What the certificates of a task become in a step: an issuing handler adds one, when the
\* task has none of that authority; others only go, from the list of the handler at work.
Signs(h, t) ==
  /\ handler[h].mode = "issue" /\ handler[h].old = {} /\ t \in handler[h].on /\ t \in Task
  /\ \A c \in CertsOf(t) : c.by # handler[h].want[t]
  /\ certs' = certs \cup {[task |-> t, by |-> handler[h].want[t], id |-> issued]}
  /\ UNCHANGED gate /\ (t \in belated' \/ handler[h].want[t] = Speaks(t))
  /\ Others(h) /\ handler'[h].on = {}

Revokes(h, c) ==
  /\ c \in handler[h].old /\ certs' = certs \ {c} /\ Others(h)
  /\ handler'[h].old = handler[h].old \ {c} /\ handler'[h].mode = handler[h].mode
  /\ handler'[h].want = handler[h].want /\ handler'[h].on = handler[h].on

Lists(h, t) ==
  /\ UNCHANGED certs /\ Others(h) /\ handler'[h].on = {t}
  /\ handler'[h].mode = "issue" =>
       handler'[h].old = CertsOf(t) /\ \A c \in CertsOf(t) : c.by # handler'[h].want[t]

LEMMA CertKinds ==
  ASSUME GateTypeOK, OnInv, [GateNext]_gateVars
  PROVE  \/ \E h \in Handler : \E t \in Task : Signs(h, t)
         \/ \E h \in Handler : \E c \in handler[h].old : Revokes(h, c)
         \/ \E h \in Handler, t \in Task : Lists(h, t)
         \/ \E h \in Handler : UNCHANGED certs /\ Others(h) /\ handler'[h].on = {}
         \/ UNCHANGED <<certs, handler>>
<1> DEFINE Goal ==
             \/ \E h \in Handler : \E t \in Task : Signs(h, t)
             \/ \E h \in Handler : \E c \in handler[h].old : Revokes(h, c)
             \/ \E h \in Handler, t \in Task : Lists(h, t)
             \/ \E h \in Handler : UNCHANGED certs /\ Others(h) /\ handler'[h].on = {}
             \/ UNCHANGED <<certs, handler>>
<1>1. ASSUME NEW h \in Handler, UNCHANGED certs, Others(h), handler'[h].on = {} PROVE Goal
  BY <1>1
<1>2. ASSUME NEW h \in Handler, HandlerWork(h) PROVE Goal
  <2>1. ASSUME ReadTasks(h) PROVE Goal
    <3>1. UNCHANGED certs /\ Others(h) /\ handler'[h].on = handler[h].on /\ handler[h].at = "tasks"
      BY <2>1, ReadTasksMoves
    <3> QED
      BY <1>1, <3>1 DEF OnInv
  <2>2. ASSUME Scope(h) PROVE Goal
    <3>1. UNCHANGED certs /\ Others(h) /\ handler'[h].on = handler[h].on /\ handler[h].at = "scope"
      BY <2>2, ScopeMoves
    <3> QED
      BY <1>1, <3>1 DEF OnInv
  <2>3. ASSUME NEW t \in Task, ListLive(h, t) PROVE Goal
    <3>1. /\ UNCHANGED certs /\ Others(h) /\ handler[h].at = "next" /\ handler'[h].mode = handler[h].mode
          /\ \/ handler'[h].on = handler[h].on
             \/ /\ handler[h].mode = "issue" => \A c \in CertsOf(t) : c.by # handler[h].want[t]
                /\ handler'[h].want = handler[h].want /\ handler'[h].on = {t}
                /\ handler[h].mode # "retire" => handler'[h].old = CertsOf(t)
      BY <2>3, ListLiveMoves
    <3>2. handler[h].on = {}
      BY <3>1 DEF OnInv
    <3>3. (\E u \in Task : Lists(h, u)) \/ handler'[h].on = {}
      BY <3>1, <3>2 DEF Lists
    <3> QED
      BY <1>1, <3>1, <3>3
  <2>4. ASSUME NEW c \in handler[h].old, Revoke(h, c) PROVE Goal
    <3>1. Revokes(h, c)
      BY <2>4, RevokeMoves DEF Revokes
    <3> QED
      BY <3>1
  <2>5. ASSUME Sign(h) PROVE Goal
    <3>1. PICK t \in handler[h].on :
            /\ t \in Task /\ handler[h].old = {} /\ UNCHANGED gate
            /\ \/ Settled(h) /\ UNCHANGED certs
               \/ Goes(h, Free) /\ UNCHANGED certs
               \/ /\ handler[h].mode = "issue" /\ \A c \in CertsOf(t) : c.by # handler[h].want[t]
                  /\ certs' = certs \cup {[task |-> t, by |-> handler[h].want[t], id |-> issued]}
                  /\ Settled(h) /\ (t \in belated' \/ handler[h].want[t] = Speaks(t))
      BY <2>5, SignMoves
    <3>2. ASSUME Settled(h) \/ Goes(h, Free) PROVE Others(h) /\ handler'[h].on = {}
      BY <3>2, SettledMoves, DoneMoves, FreeRow
    <3>3. (UNCHANGED certs \/ Signs(h, t)) /\ Others(h) /\ handler'[h].on = {}
      BY <3>1, <3>2 DEF Signs
    <3> QED
      BY <1>1, <3>1, <3>3
  <2>6. ASSUME Return(h) PROVE Goal
    BY <1>1, <2>6, ReturnMoves, DoneMoves, FreeRow
  <2> HIDE DEF Goal
  <2> QED
    BY <1>2, <2>1, <2>2, <2>3, <2>4, <2>5, <2>6 DEF HandlerWork
<1>3. ASSUME NEW h \in Handler, NEW t \in Task, Start(h, t) PROVE Goal
  BY <1>1, <1>3, StartMoves
<1>4. ASSUME NEW h \in Handler, NEW t \in Task, Finish(h, t) PROVE Goal
  BY <1>1, <1>4, FinishMoves
<1>5. ASSUME NEW h \in Handler, NEW x \in Approval, NEW t \in Task, RequestApproval(h, x, t) PROVE Goal
  BY <1>1, <1>5, RequestMoves
<1>6. ASSUME NEW h \in Handler, NEW x \in Approval, NEW status \in {"approved", "rejected"},
             Decide(h, x, status)
      PROVE  Goal
  <2>1. UNCHANGED certs /\ Others(h) /\ (handler'[h].on = {} \/ UNCHANGED handler)
    BY <1>6, DecideMovesHandler
  <2> QED
    BY <1>1, <2>1
<1>7. ASSUME UNCHANGED gateVars \/ (\E t \in Task : Call(t)) \/ Verify \/ Govern \/ AnswerCall PROVE Goal
  <2>1. UNCHANGED <<certs, handler>>
    BY <1>7 DEF Call, Verify, Govern, AnswerCall, gateVars, store
  <2> QED
    BY <2>1
<1> HIDE DEF Goal
<1>8. Goal
  BY <1>2, <1>3, <1>4, <1>5, <1>6, <1>7 DEF GateNext
<1> QED
  BY <1>8 DEF Goal

\* A task a handler acted on belatedly is never cleared of it.
LEMMA BelatedGrows ==
  ASSUME GateTypeOK, [GateNext]_gateVars PROVE belated \subseteq belated'
<1>1. ASSUME NEW h \in Handler, HandlerWork(h) PROVE belated \subseteq belated'
  BY <1>1, ReadTasksMoves, ScopeMoves, ListLiveMoves, RevokeMoves, SignMoves, ReturnMoves DEF HandlerWork
<1>2. ASSUME NEW h \in Handler, NEW t \in Task, Start(h, t) \/ Finish(h, t) PROVE belated \subseteq belated'
  BY <1>2, StartMoves, FinishMoves
<1>3. ASSUME NEW h \in Handler, NEW x \in Approval, NEW t \in Task, RequestApproval(h, x, t)
      PROVE  belated \subseteq belated'
  BY <1>3, RequestMoves
<1>4. ASSUME NEW h \in Handler, NEW x \in Approval, NEW status \in {"approved", "rejected"},
             Decide(h, x, status)
      PROVE  belated \subseteq belated'
  BY <1>4, DecideMovesHandler
<1>5. CASE UNCHANGED gateVars \/ (\E t \in Task : Call(t)) \/ Verify \/ Govern \/ AnswerCall
  BY <1>5 DEF Call, Verify, Govern, AnswerCall, gateVars
<1> QED
  BY <1>1, <1>2, <1>3, <1>4, <1>5 DEF GateNext

\* Who signs for t in time signs for whom it is to hold a certificate of now.
LEMMA SignedInTime ==
  ASSUME PassInv, OnInv, AskedInv, OnceInv, NEW h \in Handler, NEW t \in Task, Signs(h, t), t \notin belated'
  PROVE  Granted(Governing[t]) /\ handler[h].want[t] = GrantorOf(Governing[t])
<1>1. handler[h].want[t] = Speaks(t) /\ handler[h].want[t] # NoOne
  BY DEF Signs, OnInv, Wants
<1> QED
  BY <1>1 DEF Speaks

LEMMA LeftStep ==
  PassInv /\ OnInv /\ AskedInv /\ OnceInv /\ LeftInv /\ [GateNext]_gateVars => LeftInv'
<1> SUFFICES ASSUME PassInv, OnInv, AskedInv, OnceInv, LeftInv, [GateNext]_gateVars,
                    NEW g \in Handler, handler'[g].mode = "issue", NEW t \in handler'[g].on,
                    t \notin belated'
             PROVE  \A c \in certs' : c.task = t =>
                      c \in handler'[g].old \/ c.by = handler'[g].want[t] \/ Past(t, handler[g].want[t])'
  BY DEF LeftInv, CertsOf
<1> DEFINE Goal == \A c \in certs' : c.task = t =>
                      c \in handler'[g].old \/ c.by = handler'[g].want[t] \/ Past(t, handler[g].want[t])'
<1>0. GateTypeOK /\ handler \in [Handler -> HandlerRow] /\ t \notin belated
  BY GateRows, BelatedGrows DEF PassInv
\* What it wanted for t it has wanted, and if its time was over it is.
<1>1. ASSUME handler[g].mode = "issue", t \in handler[g].on, handler'[g].want = handler[g].want
      PROVE  /\ t \in Task
             /\ handler[g].want[t] \in Authority /\ Once(t, handler[g].want[t])
             /\ Past(t, handler[g].want[t]) => Past(t, handler[g].want[t])'
             /\ \A c \in certs : c.task = t =>
                  c \in handler[g].old \/ c.by = handler[g].want[t] \/ Past(t, handler[g].want[t])
  <2>1. Wants(g, t) /\ t \in Task
    BY <1>0, <1>1 DEF OnInv, HandlerRow
  <2>2. PICK w \in Authority : w = handler[g].want[t] /\ Once(t, w)
    BY <1>0, <1>1, <2>1 DEF OnceInv, Wants, HandlerRow, Wanted
  <2>3. Past(t, w) => Past(t, w)'
    BY <1>0, <2>1, <2>2, OnceKept
  <2>4. handler'[g].want[t] = w
    BY <1>1, <2>2
  <2>5. \A c \in CertsOf(t) :
          c \in handler[g].old \/ c.by = handler[g].want[t] \/ Past(t, handler[g].want[t])
    BY <1>0, <1>1 DEF LeftInv
  <2>6. Past(t, w)' => Past(t, handler[g].want[t])'
    BY <2>4 DEF Past
  <2> QED
    BY <2>1, <2>2, <2>3, <2>5, <2>6 DEF CertsOf
<1>2. ASSUME certs' \subseteq certs, handler'[g] = handler[g] PROVE Goal
  BY <1>1, <1>2
<1>3. ASSUME NEW h \in Handler, NEW u \in Task, Signs(h, u) PROVE Goal
  <2> DEFINE d == [task |-> u, by |-> handler[h].want[u], id |-> issued]
  <2>1. handler[h].mode = "issue" /\ certs' = certs \cup {d} /\ handler'[g] = handler[g]
    BY <1>3 DEF Signs, Others
  <2>2. d.task = u /\ d.by = handler[h].want[u]
    OBVIOUS
  <2> HIDE DEF d
  <2>3. u = t => d.by = handler[g].want[t] \/ Past(t, handler[g].want[t])
    <3> SUFFICES ASSUME u = t PROVE d.by = handler[g].want[t] \/ Past(t, handler[g].want[t])
      OBVIOUS
    <3>1. Granted(Governing[t]) /\ d.by = GrantorOf(Governing[t])
      BY <1>3, <2>2, SignedInTime
    <3> QED
      BY <1>0, <1>1, <2>1, <3>1, OnceMeans
  <2> QED
    BY <1>1, <2>1, <2>2, <2>3
<1>4. ASSUME NEW h \in Handler, NEW c \in handler[h].old, Revokes(h, c) PROVE Goal
  <2>1. certs' = certs \ {c} /\ Others(h)
    BY <1>4 DEF Revokes
  <2>2. CASE g = h
    <3>1. /\ handler[g].mode = "issue" /\ t \in handler[g].on
          /\ handler'[g].old = handler[g].old \ {c} /\ handler'[g].want = handler[g].want
      BY <1>4, <2>2 DEF Revokes
    <3> QED
      BY <1>1, <2>1, <3>1
  <2>3. CASE g # h
    BY <1>2, <2>1, <2>3 DEF Others
  <2> QED
    BY <2>2, <2>3
<1>5. ASSUME NEW h \in Handler, NEW u \in Task, Lists(h, u) PROVE Goal
  <2>1. CASE g = h
    BY <1>5, <2>1 DEF Lists, CertsOf
  <2>2. CASE g # h
    BY <1>2, <1>5, <2>2 DEF Lists, Others
  <2> QED
    BY <2>1, <2>2
<1>6. ASSUME NEW h \in Handler, UNCHANGED certs, Others(h), handler'[h].on = {} PROVE Goal
  <2>1. g # h
    BY <1>6
  <2> QED
    BY <1>2, <1>6, <2>1 DEF Others
<1>7. ASSUME UNCHANGED <<certs, handler>> PROVE Goal
  BY <1>2, <1>7
<1> HIDE DEF Goal
<1>8. Goal
  BY <1>0, <1>3, <1>4, <1>5, <1>6, <1>7, CertKinds
<1> QED
  BY <1>8 DEF Goal

LEMMA OneStep ==
  PassInv /\ OnInv /\ AskedInv /\ OnceInv /\ LeftInv /\ OneCert /\ [GateNext]_gateVars => OneCert'
<1> SUFFICES ASSUME PassInv, OnInv, AskedInv, OnceInv, LeftInv, OneCert, [GateNext]_gateVars,
                    NEW t \in Task, t \notin belated'
             PROVE  \A c, d \in CertsOf(t)' : c = d
  BY DEF OneCert, Sole
<1>0. GateTypeOK /\ t \notin belated
  BY BelatedGrows DEF PassInv
<1>01. \A c, d \in certs : c.task = t /\ d.task = t => c = d
  BY <1>0 DEF OneCert, Sole, CertsOf
<1>1. ASSUME certs' \subseteq certs PROVE \A c, d \in CertsOf(t)' : c = d
  BY <1>01, <1>1 DEF CertsOf
<1>2. ASSUME NEW h \in Handler, NEW u \in Task, Signs(h, u) PROVE \A c, d \in CertsOf(t)' : c = d
  <2> DEFINE d == [task |-> u, by |-> handler[h].want[u], id |-> issued]
  <2>1. certs' = certs \cup {d} /\ d.task = u
    BY <1>2 DEF Signs
  <2> HIDE DEF d
  <2>2. u = t => CertsOf(t) = {}
    <3> SUFFICES ASSUME u = t PROVE CertsOf(t) = {}
      OBVIOUS
    <3>1. Granted(Governing[t]) /\ handler[h].want[t] = GrantorOf(Governing[t])
      BY <1>2, SignedInTime
    <3>2. Once(t, handler[h].want[t]) /\ ~ Past(t, handler[h].want[t])
      BY <1>0, <3>1, OnceMeans
    <3> QED
      BY <1>0, <1>2, <3>2 DEF Signs, LeftInv
  <2> QED
    BY <1>01, <2>1, <2>2 DEF CertsOf
<1>3. ASSUME NEW h \in Handler, NEW c \in handler[h].old, Revokes(h, c)
      PROVE  \A e, d \in CertsOf(t)' : e = d
  BY <1>1, <1>3 DEF Revokes
<1>4. ASSUME NEW h \in Handler, NEW u \in Task, Lists(h, u) PROVE \A c, d \in CertsOf(t)' : c = d
  BY <1>1, <1>4 DEF Lists
<1>5. ASSUME UNCHANGED certs PROVE \A c, d \in CertsOf(t)' : c = d
  BY <1>1, <1>5
<1> QED
  BY <1>0, <1>2, <1>3, <1>4, <1>5, CertKinds

CertInv == AskedInv /\ WorkInv /\ OnceInv /\ LeftInv /\ OneCert

LEMMA CertInit == GateInit => CertInv
<1> SUFFICES ASSUME GateInit PROVE CertInv
  OBVIOUS
<1>1. \A h \in Handler : handler[h] = Free
  BY DEF GateInit
<1>2. \A x \in Approval : gate[x].on = {} /\ gate[x].status = "none"
  BY DEF GateInit
<1>3. certs = {}
  BY DEF GateInit
<1> QED
  BY <1>1, <1>2, <1>3, FreeRow
     DEF CertInv, AskedInv, WorkInv, WorkRow, OnceInv, LeftInv, OneCert, Sole, Wants, CertsOf

LEMMA GateSound == GateSpec => [](PassInv /\ OnInv /\ CertInv)
<1>1. PassInv /\ OnInv /\ CertInv /\ [GateNext]_gateVars => CertInv'
  BY WorkStep, OnceStep, LeftStep, OneStep DEF CertInv
<1>2. GateInit => PassInv /\ OnInv /\ CertInv
  BY PassInit, CertInit, FreeRow DEF GateInit, OnInv
<1> QED
  BY <1>1, <1>2, CertInit, GatePasses, PTL DEF GateSpec

\* However many handlers settle a task's certificates at once, of starts, decisions,
\* requests and ends: if none of them signed or revoked for it on approvals that had
\* changed since it read them, the task holds at rest one authority's certificate at most
\* (McpToolCertificateService.issue, revoke; nothing in the code keeps a handler from
\* acting on what it read, and then two can live).
THEOREM OneGrantEach == GateSpec => []OneAuthority
<1>1. OneCert => OneAuthority
  BY DEF OneCert, OneAuthority
<1> QED
  BY <1>1, GateSound, PTL DEF CertInv

-----------------------------------------------------------------------------
(* ApprovalGate: a granted task gets its certificate, when the agent asks once. *)

\* No approval of a task is newer than one of its that is open.
LatestInv ==
  \A x, y \in Approval : gate[x].status = "pending" /\ gate[y].on = gate[x].on => y <= x

\* A handler is going to issue what the approvals of t grant.
Coming(h, t) ==
  /\ handler[h].mode = "issue"
  /\ \/ handler[h].at = "tasks" /\ handler[h].of \subseteq Governing[t]
     \/ handler[h].at = "scope" /\ handler[h].of \subseteq Governing[t] /\ t \in handler[h].todo
     \/ handler[h].at \in {"next", "revoke"} /\ handler[h].want[t] = GrantorOf(Governing[t])

Provided(t) == (\E c \in CertsOf(t) : c.by = GrantorOf(Governing[t])) \/ \E h \in Handler : Coming(h, t)

Due(t) == task[t] = "in_progress" /\ Granted(Governing[t])

ReachInv == ~refused => \A t \in Task \ belated : Due(t) => Provided(t)

\* Only requests and decisions touch the approvals.
LEMMA GateKept ==
  ASSUME GateTypeOK, OnInv, [GateNext]_gateVars,
         ~ \E h \in Handler, x \in Approval, t \in Task : RequestApproval(h, x, t),
         ~ \E h \in Handler, x \in Approval, status \in {"approved", "rejected"} : Decide(h, x, status)
  PROVE  UNCHANGED gate
<1>1. ASSUME NEW h \in Handler, Scope(h) PROVE UNCHANGED gate
  BY <1>1, ScopeMoves
<1> QED
  BY <1>1, StepKinds

LEMMA LatestStep ==
  ASSUME ~Insistent, PassInv, OnInv, AskedInv, LatestInv, [GateNext]_gateVars PROVE LatestInv'
<1>0. GateTypeOK /\ gate \in GateKind
  BY GateRows DEF PassInv
<1>1. ASSUME NEW h \in Handler, NEW x \in Approval, NEW o \in Task, RequestApproval(h, x, o)
      PROVE  LatestInv'
  <2>1. /\ gate[x].status = "none"
        /\ \A y \in Approval : gate[y] # [on |-> {o}, status |-> "pending"]
        /\ gate' = [gate EXCEPT ![x] = [on |-> {o}, status |-> "pending"]]
    BY <1>1 DEF RequestApproval
  <2>2. /\ gate'[x] = [on |-> {o}, status |-> "pending"]
        /\ \A y \in Approval : y # x => gate'[y] = gate[y]
    BY <1>0, <2>1 DEF GateKind
  <2>3. gate'[x].on = {o} /\ gate'[x].status = "pending"
    BY <2>2
  <2>4. \A y \in Approval : gate[y].on = {o} => y <= x /\ gate[y].status # "pending"
    <3> SUFFICES ASSUME NEW y \in Approval, gate[y].on = {o}
                 PROVE  y <= x /\ gate[y].status # "pending"
      OBVIOUS
    <3>1. gate[y].status # "none"
      BY DEF AskedInv
    <3>2. ~ (x <= y)
      BY <2>1, <3>1 DEF AskedInv
    <3>3. gate[y] = [on |-> gate[y].on, status |-> gate[y].status]
      BY <1>0 DEF GateKind, ApprovalRow
    <3>4. gate[y].status # "pending"
      BY <2>1, <3>3
    <3>5. y <= x
      BY <3>2, GateAssumption DEF Approval
    <3> QED
      BY <3>4, <3>5
  <2>5. x <= x
    BY GateAssumption DEF Approval
  <2> SUFFICES ASSUME NEW y \in Approval, NEW z \in Approval, gate'[y].status = "pending",
                      gate'[z].on = gate'[y].on
               PROVE  z <= y
    BY DEF LatestInv
  <2>6. CASE y = x
    BY <2>2, <2>3, <2>4, <2>5, <2>6
  <2>7. CASE y # x /\ z = x
    BY <2>2, <2>3, <2>4, <2>7
  <2>8. CASE y # x /\ z # x
    BY <2>2, <2>8 DEF LatestInv
  <2> QED
    BY <2>6, <2>7, <2>8
<1>2. ASSUME NEW h \in Handler, NEW x \in Approval, NEW status \in {"approved", "rejected"},
             Decide(h, x, status)
      PROVE  LatestInv'
  <2>1. gate' = [gate EXCEPT ![x].status = status]
    BY <1>0, <1>2, DecideMovesHandler
  <2>2. /\ \A y \in Approval : gate'[y].on = gate[y].on
        /\ \A y \in Approval : gate'[y].status = "pending" => gate[y].status = "pending"
    BY <1>0, <2>1 DEF GateKind, ApprovalRow
  <2> QED
    BY <2>2 DEF LatestInv
<1>3. ASSUME UNCHANGED gate PROVE LatestInv'
  BY <1>3 DEF LatestInv
<1> QED
  BY <1>0, <1>1, <1>2, <1>3, GateKept

\* A free handler is not coming.
LEMMA FreeIsNotComing ==
  ASSUME NEW h \in Handler, NEW t \in Task, Coming(h, t) PROVE handler[h].at # "off"
  BY DEF Coming

LEMMA ReachStep ==
  ASSUME ~Insistent, PassInv, OnInv, CertInv, LatestInv, ReachInv, [GateNext]_gateVars PROVE ReachInv'
<1> SUFFICES ASSUME ~refused', NEW t \in Task, t \notin belated', Due(t)' PROVE Provided(t)'
  BY DEF ReachInv
<1>0. /\ GateTypeOK /\ AskedInv /\ handler \in [Handler -> HandlerRow]
      /\ task \in [Task -> {"pending", "in_progress", "completed"}] /\ t \notin belated
  BY GateRows, BelatedGrows DEF PassInv, CertInv
<1>01. Governing[t] \subseteq Approval /\ GrantorOf(Governing[t]) # NoOne
  BY <1>0, GoverningTyped, GrantorTyped
\* The case that governs: nothing is decided, and t was under way already.
<1>1. ASSUME UNCHANGED <<gate, refused>>, task'[t] = task[t] PROVE Due(t) /\ Provided(t) /\ Governing' = Governing
  <2>1. Governing' = Governing
    BY <1>0, <1>1, GoverningKept
  <2>2. Due(t)
    BY <1>1, <2>1 DEF Due, Granted
  <2> QED
    BY <1>0, <1>1, <2>1, <2>2 DEF ReachInv
<1>2. ASSUME UNCHANGED <<gate, refused, certs>>, task'[t] = task[t], NEW h \in Handler, Others(h),
             Coming(h, t) => Coming(h, t)' \/ Provided(t)'
      PROVE  Provided(t)'
  <2>1. Due(t) /\ Provided(t) /\ Governing' = Governing
    BY <1>1, <1>2
  <2>2. \A g \in Handler : g # h /\ Coming(g, t) => Coming(g, t)'
    BY <1>2, <2>1 DEF Others, Coming
  <2> QED
    BY <1>2, <2>1, <2>2 DEF Provided, CertsOf
<1>3. ASSUME NEW h \in Handler, ReadTasks(h) PROVE Provided(t)'
  <2>1. /\ UNCHANGED <<task, gate, certs, refused>> /\ Others(h)
        /\ handler[h].at = "tasks" /\ handler'[h].at = "scope"
        /\ handler'[h].todo = {u \in Task : task[u] = "in_progress"}
        /\ handler'[h].mode = handler[h].mode /\ handler'[h].of = handler[h].of
        /\ handler'[h].want = handler[h].want
    BY <1>0, <1>3, ReadTasksMoves
  <2>2. Due(t) /\ Governing' = Governing
    BY <1>1, <2>1
  <2>3. Coming(h, t) => Coming(h, t)'
    BY <2>1, <2>2 DEF Coming, Due
  <2> QED
    BY <1>2, <2>1, <2>3
<1>4. ASSUME NEW h \in Handler, Scope(h) PROVE Provided(t)'
  <2>1. /\ UNCHANGED <<task, gate, certs, refused>> /\ Others(h)
        /\ handler[h].at = "scope" /\ handler'[h].at = "next" /\ handler'[h].mode = handler[h].mode
        /\ \A u \in Task :
             /\ u \in handler[h].todo /\ handler[h].of \subseteq Governing[u]
             /\ handler[h].mode # "stand down" /\ Granted(Governing[u])
             => handler'[h].want[u] = GrantorOf(Governing[u])
    BY <1>0, <1>4, ScopeMoves
  <2>2. Due(t) /\ Governing' = Governing
    BY <1>1, <2>1
  <2>3. CASE t \in handler[h].todo /\ handler[h].of \subseteq Governing[t]
    BY <1>2, <2>1, <2>2, <2>3 DEF Coming, Due
  <2>4. CASE ~ (t \in handler[h].todo /\ handler[h].of \subseteq Governing[t])
    <3>1. ~ Coming(h, t)
      BY <2>1, <2>4 DEF Coming
    <3> QED
      BY <1>2, <2>1, <3>1
  <2> QED
    BY <2>3, <2>4
<1>5. ASSUME NEW h \in Handler, NEW u \in Task, ListLive(h, u) PROVE Provided(t)'
  <2>1. /\ UNCHANGED <<task, gate, certs, refused>> /\ Others(h) /\ handler[h].at = "next"
        /\ handler'[h].at \in {"next", "revoke"} /\ handler'[h].mode = handler[h].mode
        /\ \/ /\ handler[h].mode = "issue" /\ \E c \in CertsOf(u) : c.by = handler[h].want[u]
              /\ handler'[h].want = [handler[h].want EXCEPT ![u] = NoOne]
           \/ handler'[h].want = handler[h].want
    BY <1>0, <1>5, ListLiveMoves
  <2>2. Due(t) /\ Governing' = Governing
    BY <1>1, <2>1
  <2>3. handler[h].want \in [Task -> Wanted]
    BY <1>0 DEF HandlerRow
  <2>4. CASE handler'[h].want = handler[h].want
    BY <1>2, <2>1, <2>2, <2>4 DEF Coming
  <2>5. CASE handler'[h].want = [handler[h].want EXCEPT ![u] = NoOne] /\ u # t
    <3>1. handler'[h].want[t] = handler[h].want[t]
      BY <2>3, <2>5
    <3> QED
      BY <1>2, <2>1, <2>2, <3>1 DEF Coming
  <2>6. CASE u = t /\ \E c \in CertsOf(u) : c.by = handler[h].want[u]
    <3>1. Coming(h, t) => \E c \in CertsOf(t) : c.by = GrantorOf(Governing[t])
      BY <2>1, <2>6 DEF Coming
    <3>2. (\E c \in CertsOf(t) : c.by = GrantorOf(Governing[t])) => Provided(t)'
      BY <2>1, <2>2 DEF Provided, CertsOf
    <3> QED
      BY <1>2, <2>1, <3>1, <3>2
  <2> QED
    BY <2>1, <2>4, <2>5, <2>6
<1>6. ASSUME NEW h \in Handler, NEW d \in handler[h].old, Revoke(h, d) PROVE Provided(t)'
  <2>1. /\ UNCHANGED <<task, gate, refused>> /\ Others(h) /\ handler[h].at = "revoke"
        /\ certs' = certs \ {d} /\ handler'[h].at = handler[h].at
        /\ handler'[h].mode = handler[h].mode /\ handler'[h].want = handler[h].want
        /\ handler[h].mode # "retire" /\ d.by = Speaks(d.task) => d.task \in belated'
    BY <1>0, <1>6, RevokeMoves
  <2>2. Due(t) /\ Provided(t) /\ Governing' = Governing
    BY <1>1, <2>1
  <2>3. d.task = t => d.by # GrantorOf(Governing[t])
    <3> SUFFICES ASSUME d.task = t, d.by = GrantorOf(Governing[t]) PROVE FALSE
      OBVIOUS
    <3>1. handler[h].mode = "retire"
      BY <2>1, <2>2 DEF Speaks, Due
    <3>2. WorkRow(handler[h], task)
      BY DEF CertInv, WorkInv
    <3>3. handler[h].on = {t}
      BY <2>1, <3>2 DEF WorkRow
    <3>4. Wants(h, t)
      BY <3>3 DEF OnInv
    <3> QED
      BY <2>2, <3>1, <3>2, <3>4 DEF WorkRow, Wants, Due
  <2>4. \A g \in Handler : Coming(g, t) => Coming(g, t)'
    BY <2>1, <2>2 DEF Coming, Others
  <2>5. \A c \in CertsOf(t) : c.by = GrantorOf(Governing[t]) => c \in certs'
    BY <2>1, <2>3 DEF CertsOf
  <2> QED
    BY <2>2, <2>4, <2>5 DEF Provided, CertsOf
<1>7. ASSUME NEW h \in Handler, Sign(h) PROVE Provided(t)'
  <2>1. PICK u \in handler[h].on :
          /\ u \in Task /\ UNCHANGED <<task, gate>> /\ handler[h].at = "revoke"
          /\ \/ handler[h].mode # "issue" /\ Settled(h) /\ UNCHANGED <<certs, refused>>
             \/ refused'
             \/ /\ certs' = certs \cup {[task |-> u, by |-> handler[h].want[u], id |-> issued]}
                /\ Settled(h) /\ UNCHANGED refused
    BY <1>0, <1>7, SignMoves
  <2>2. Settled(h) /\ UNCHANGED <<gate, refused>> /\ task'[t] = task[t]
    BY <2>1
  <2>3. /\ Others(h) /\ handler'[h].mode = handler[h].mode /\ handler'[h].at = "next"
        /\ \A v \in Task : handler'[h].want[v] = IF v \in handler[h].on THEN NoOne ELSE handler[h].want[v]
    BY <1>0, <2>2, SettledMoves
  <2>4. Due(t) /\ Provided(t) /\ Governing' = Governing
    BY <1>1, <2>2
  <2>5. \A g \in Handler : g # h /\ Coming(g, t) => Coming(g, t)'
    BY <2>3, <2>4 DEF Coming, Others
  <2>6. certs \subseteq certs'
    BY <2>1
  <2>7. handler[h].on = {u}
    BY <2>1 DEF CertInv, WorkInv, WorkRow
  <2>8. Coming(h, t) /\ t # u => Coming(h, t)'
    BY <2>1, <2>3, <2>4, <2>7 DEF Coming
  <2>9. Coming(h, t) /\ t = u => \E c \in certs' : c.task = t /\ c.by = GrantorOf(Governing[t])
    <3>1. SUFFICES ASSUME Coming(h, t), t = u
                   PROVE  \E c \in certs' : c.task = t /\ c.by = GrantorOf(Governing[t])
      OBVIOUS
    <3>2. handler[h].mode = "issue" /\ handler[h].want[u] = GrantorOf(Governing[t])
      BY <2>1, <3>1 DEF Coming
    <3>3. [task |-> u, by |-> handler[h].want[u], id |-> issued] \in certs'
      BY <2>1, <3>2
    <3> QED
      BY <3>1, <3>2, <3>3
  <2> QED
    BY <2>4, <2>5, <2>6, <2>8, <2>9 DEF Provided, CertsOf
<1>8. ASSUME NEW h \in Handler, Return(h) PROVE Provided(t)'
  <2>1. /\ UNCHANGED <<task, gate, certs, refused>> /\ Others(h) /\ handler[h].at = "next"
        /\ ~ Wants(h, t)
    BY <1>0, <1>8, ReturnMoves, DoneMoves
  <2>2. ~ Coming(h, t)
    BY <1>01, <2>1 DEF Coming, Wants
  <2> QED
    BY <1>2, <2>1, <2>2
<1>9. ASSUME NEW h \in Handler, NEW u \in Task, Start(h, u) PROVE Provided(t)'
  <2>1. /\ UNCHANGED <<gate, certs, refused>> /\ Others(h) /\ handler[h].at = "off"
        /\ task' = [task EXCEPT ![u] = "in_progress"]
        /\ handler'[h].at = "scope" /\ handler'[h].mode = "issue" /\ handler'[h].of = {}
        /\ handler'[h].todo = {u}
    BY <1>0, <1>9, StartMoves
  <2>2. CASE t = u
    BY <2>1, <2>2 DEF Provided, Coming
  <2>3. CASE t # u
    <3>1. task'[t] = task[t]
      BY <1>0, <2>1, <2>3
    <3> QED
      BY <1>2, <2>1, <3>1, FreeIsNotComing
  <2> QED
    BY <2>2, <2>3
<1>10. ASSUME NEW h \in Handler, NEW u \in Task, Finish(h, u) PROVE Provided(t)'
  <2>1. /\ UNCHANGED <<gate, certs, refused>> /\ Others(h) /\ handler[h].at = "off"
        /\ task' = [task EXCEPT ![u] = "completed"]
    BY <1>0, <1>10, FinishMoves
  <2>2. task'[t] = task[t]
    BY <1>0, <2>1 DEF Due
  <2> QED
    BY <1>2, <2>1, <2>2, FreeIsNotComing
\* An approval that does not govern t, requested or decided, leaves t as it was.
<1>11. ASSUME UNCHANGED <<task, certs, refused>>, NEW h \in Handler, Others(h), handler[h].at = "off",
              Governing'[t] = Governing[t], Granted(Governing[t])
       PROVE  Provided(t)'
  <2>1. Due(t) /\ Provided(t)
    BY <1>0, <1>11 DEF Due, ReachInv
  <2>2. ~ Coming(h, t)
    BY <1>11, FreeIsNotComing
  <2>3. \A g \in Handler : Coming(g, t) => Coming(g, t)'
    BY <1>11, <2>2 DEF Coming, Others
  <2> QED
    BY <1>11, <2>1, <2>3 DEF Provided, CertsOf
<1>12. ASSUME NEW h \in Handler, NEW x \in Approval, NEW o \in Task, RequestApproval(h, x, o)
       PROVE  Provided(t)'
  <2>1. UNCHANGED <<task, certs, refused>> /\ Others(h) /\ handler[h].at = "off"
    BY <1>0, <1>12, RequestMoves
  <2>2. /\ Governing'[t] = Governing[t] \/ x \in Governing'[t]
        /\ x \notin Governing[t]
        /\ gate'[x].status = "pending" /\ \A y \in Approval : y # x => gate'[y] = gate[y]
    BY <1>0, <1>12, RequestGoverns
  <2>3. x \notin Governing'[t]
    BY <2>2 DEF Due, Granted
  <2>4. Governing'[t] = Governing[t] /\ Granted(Governing[t])
    BY <1>01, <2>2, <2>3 DEF Due, Granted
  <2> QED
    BY <1>11, <2>1, <2>4
<1>13. ASSUME NEW h \in Handler, NEW x \in Approval, NEW status \in {"approved", "rejected"},
              Decide(h, x, status)
       PROVE  Provided(t)'
  <2>1. /\ UNCHANGED <<task, certs, refused>> /\ Others(h) /\ handler[h].at = "off"
        /\ gate[x].status = "pending"
        /\ \/ /\ status = "approved" /\ handler'[h].at = "tasks" /\ handler'[h].mode = "issue"
              /\ handler'[h].of = {x}
           \/ status = "rejected"
    BY <1>0, <1>13, DecideMovesHandler
  <2>2. \A y \in Approval : gate[y].on = gate[x].on => y <= x /\ (gate[y].status = "pending" => y = x)
    BY <2>1, GateAssumption DEF LatestInv, Approval
  <2>3. /\ Governing'[t] = Governing[t] /\ gate'[x].status = status
        /\ \A y \in Approval : y # x => gate'[y] = gate[y]
    BY <1>0, <1>13, <2>2, DecisionGoverns
  <2>4. CASE x \in Governing[t]
    <3>1. status = "approved"
      BY <2>3, <2>4 DEF Due, Granted
    <3> QED
      BY <2>1, <2>3, <2>4, <3>1 DEF Provided, Coming
  <2>5. CASE x \notin Governing[t]
    <3>1. Granted(Governing[t])
      BY <1>01, <2>3, <2>5 DEF Due, Granted
    <3> QED
      BY <1>11, <2>1, <2>3, <3>1
  <2> QED
    BY <2>4, <2>5
<1>14. CASE UNCHANGED gateVars \/ (\E u \in Task : Call(u)) \/ Verify \/ Govern \/ AnswerCall
  <2>1. UNCHANGED <<task, gate, certs, handler, refused>>
    BY <1>14 DEF Call, Verify, Govern, AnswerCall, gateVars, store
  <2>2. Provided(t) /\ Governing' = Governing
    BY <1>1, <2>1
  <2> QED
    BY <2>1, <2>2 DEF Provided, Coming, CertsOf
<1> QED
  BY <1>3, <1>4, <1>5, <1>6, <1>7, <1>8, <1>9, <1>10, <1>12, <1>13, <1>14 DEF GateNext, HandlerWork

\* An agent that asks for one approval at a time: a task under way whose approvals are all
\* granted, and for which no handler signed or revoked on approvals that had changed since
\* it read them, holds at rest the certificate the gateway accepts -- whichever of its start
\* and the decisions came first, unless an index refused a signature (issue_for_task,
\* issue_for_approval, TaskCertificatePolicy).
THEOREM GrantsReachTheirTasks == ASSUME ~Insistent PROVE GateSpec => []GrantReaches
<1>1. GateInit => LatestInv /\ ReachInv
  <2> SUFFICES ASSUME GateInit PROVE LatestInv /\ ReachInv
    OBVIOUS
  <2>1. (\A x \in Approval : gate[x].status = "none") /\ \A t \in Task : task[t] = "pending"
    BY DEF GateInit
  <2> QED
    BY <2>1 DEF LatestInv, ReachInv, Due
<1>2. PassInv /\ OnInv /\ CertInv /\ LatestInv /\ ReachInv /\ [GateNext]_gateVars => LatestInv' /\ ReachInv'
  BY LatestStep, ReachStep DEF CertInv
<1>3. PassInv /\ CertInv /\ ReachInv => GrantReaches
  <2> SUFFICES ASSUME PassInv, CertInv, ReachInv, AtRest, ~refused, NEW t \in Task \ belated,
                      task[t] = "in_progress", Granted(Governing[t])
               PROVE  \E c \in Presented(t) : Authorizes(c)
    BY DEF GrantReaches, Reached
  <2>0. GateTypeOK /\ certs \subseteq Cert
    BY GateRows DEF PassInv
  <2>1. \A h \in Handler : ~ Coming(h, t)
    BY FreeIsNotComing DEF AtRest
  <2>2. PICK c \in CertsOf(t) : c.by = GrantorOf(Governing[t])
    BY <2>1 DEF ReachInv, Due, Provided
  <2>3. \A d \in CertsOf(t) : d = c
    BY <2>2 DEF CertInv, OneCert, Sole
  <2>4. c.id <= c.id /\ c.task = t
    BY <2>0, <2>2 DEF CertsOf, Cert
  <2>5. c \in Presented(t)
    BY <2>2, <2>3, <2>4 DEF Presented
  <2>6. Governing[t] \in SUBSET Approval
    BY <2>0, GoverningTyped
  <2>7. Authorizes(c)
    <3>1. CASE Governing[t] = {}
      BY <2>2, <2>4, <3>1 DEF Authorizes, GrantorOf
    <3>2. CASE Governing[t] # {}
      <4>1. c.by \in Governing[t]
        BY <2>2, <2>6, <3>2, GrantorTyped
      <4>2. c.by # Initiator
        BY <2>6, <4>1, GateAssumption DEF Approval
      <4> QED
        BY <2>4, <4>1, <4>2 DEF Authorizes
    <3> QED
      BY <3>1, <3>2
  <2> QED
    BY <2>5, <2>7
<1> QED
  BY <1>1, <1>2, <1>3, GateSound, PTL DEF GateSpec
=============================================================================
