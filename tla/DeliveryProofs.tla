--------------------------- MODULE DeliveryProofs ---------------------------
(***************************************************************************)
(* Proofs about EmailQueue, for any number of messages and workers: what   *)
(* is sent, and how often.  And about SessionStream, for any number of     *)
(* turns, events and losses: no event waits for a viewer that sleeps.      *)
(***************************************************************************)
EXTENDS EmailQueue, SessionStream, TLAPS

-----------------------------------------------------------------------------
(* EmailQueue. *)

\* Only the worker that holds the lock has a pass.
SenderInv == \A w \in Worker : pass[w].at # "off" <=> sender = w

\* What a pass holds, by where it is.
PassInv ==
  \A w \in Worker :
    /\ pass[w].at \in {"off", "idle", "reclaimed"} => pass[w].batch = {}
    /\ pass[w].at # "settle" => pass[w].result = "none"
    /\ pass[w].at = "settle" => pass[w].current \in pass[w].batch /\ pass[w].result # "none"

\* A claimed message is being sent, or deleted meanwhile.
BatchInv == \A w \in Worker : \A m \in pass[w].batch : mail[m].status \in {"sending", "gone"}

\* m was accepted a moment ago and its sender knows.
Known(m) == \E w \in Worker : pass[w].at = "settle" /\ pass[w].current = m /\ pass[w].result = "accepted"

\* A message that has yet to be sent, or was given up, or has been claimed, was
\* accepted only in doubt.
CopiesInv ==
  \A m \in Mail :
    /\ copies[m] <= doubt[m] + 1
    /\ /\ ~Known(m)
       /\ mail[m].status \in {"none", "pending", "sending", "failed"} \/ \E w \in Worker : m \in pass[w].batch
       => copies[m] <= doubt[m]

MailInv == MailTypeOK /\ SenderInv /\ PassInv /\ BatchInv /\ CopiesInv

-----------------------------------------------------------------------------
\* An empty queue, and nobody serving it.
LEMMA MailInitInv == MailInit => MailInv
<1> SUFFICES ASSUME MailInit PROVE MailInv
  OBVIOUS
<1> USE DEF MailInit, OffPass
<1>1. MailTypeOK
  BY DEF MailTypeOK, Row, Pass, Live
<1>2. SenderInv /\ PassInv /\ BatchInv /\ CopiesInv
  BY QueueAssumption DEF SenderInv, PassInv, BatchInv, CopiesInv
<1> QED
  BY <1>1, <1>2 DEF MailInv

\* A row, a pass and the sets of messages stay what they are declared to be.
LEMMA MailStepTyped == MailTypeOK /\ PassInv /\ [MailNext]_mailVars => MailTypeOK'
<1> SUFFICES ASSUME MailTypeOK, PassInv, [MailNext]_mailVars PROVE MailTypeOK'
  OBVIOUS
<1>0. /\ IdlePass \in Pass /\ OffPass \in Pass /\ \A w \in Worker : pass[w] \in Pass
      /\ \A m \in Mail : mail[m] \in Row
  BY DEF MailTypeOK, IdlePass, OffPass, Pass, SendResult
<1> USE QueueAssumption DEF MailTypeOK, row, Live, DueNow, NotDue, Unlease, Drop
<1>1. ASSUME NEW m \in Mail, Enqueue(m) PROVE MailTypeOK'
  BY <1>0, <1>1 DEF Enqueue, Row
<1>2. ASSUME NEW m \in Mail, FallDue(m) PROVE MailTypeOK'
  BY <1>2 DEF FallDue
<1>3. ASSUME NEW m \in Mail, Cascade(m) \/ Delete(m) PROVE MailTypeOK'
  <2>1. mail' \in [Mail -> Row]
    BY <1>0, <1>3 DEF Cascade, Delete, Row
  <2>2. ahead' \in [Mail -> SUBSET Mail] /\ claim' \in [Mail -> SUBSET Mail]
    BY <1>3 DEF Cascade, Delete
  <2> QED
    BY <1>3, <2>1, <2>2 DEF Cascade, Delete
<1>4. ASSUME NEW m \in Mail, ExpireLease(m) PROVE MailTypeOK'
  BY <1>4 DEF ExpireLease
<1>5. CASE Configure
  BY <1>5 DEF Configure
<1>6. ASSUME NEW w \in Worker, Elect(w) PROVE MailTypeOK'
  BY <1>0, <1>6 DEF Elect
<1>7. ASSUME NEW w \in Worker, Reclaim(w) PROVE MailTypeOK'
  <2>1. mail' \in [Mail -> Row]
    BY <1>0, <1>7 DEF Reclaim, Row
  <2>2. pass' \in [Worker -> Pass]
    BY <1>0, <1>7 DEF Reclaim, Pass
  <2>3. claim' \in [Mail -> SUBSET Mail] /\ expired' \in SUBSET Mail
    BY <1>7 DEF Reclaim
  <2> QED
    BY <1>7, <2>1, <2>2, <2>3 DEF Reclaim
<1>8. ASSUME NEW w \in Worker, NEW batch \in SUBSET Mail, Claim(w, batch) PROVE MailTypeOK'
  <2>1. mail' \in [Mail -> Row]
    BY <1>0, <1>8 DEF Claim, Row
  <2>2. [pass[w] EXCEPT !.at = "send", !.batch = batch] \in Pass
    BY <1>0 DEF Pass
  <2>3. pass' \in [Worker -> Pass]
    BY <1>0, <1>8, <2>2 DEF Claim
  <2>4. claim' \in [Mail -> SUBSET Mail]
    BY <1>8 DEF Claim
  <2> QED
    BY <1>8, <2>1, <2>3, <2>4 DEF Claim
<1>9. ASSUME NEW w \in Worker, NothingToDo(w) PROVE MailTypeOK'
  BY <1>0, <1>9 DEF NothingToDo
<1>10. ASSUME NEW w \in Worker, NEW m \in Mail, NEW result \in SendResult, NEW accepted \in BOOLEAN, NEW retried \in BOOLEAN,
              Send(w, m, result, accepted, retried)
       PROVE  MailTypeOK'
  <2>1. [pass[w] EXCEPT !.at = "settle", !.current = m, !.result = result] \in Pass
    BY <1>0 DEF Pass
  <2>2. pass' \in [Worker -> Pass]
    BY <1>0, <1>10, <2>1 DEF Send
  <2>3. copies' \in [Mail -> Nat] /\ doubt' \in [Mail -> Nat]
    BY <1>10 DEF Send, One
  <2> QED
    BY <1>10, <2>2, <2>3 DEF Send
<1>11. ASSUME NEW w \in Worker, NEW m \in Mail, Blow(w, m) PROVE MailTypeOK'
  BY <1>0, <1>11 DEF Blow
<1>12. ASSUME NEW w \in Worker, Settle(w) PROVE MailTypeOK'
  <2> DEFINE m == pass[w].current
             outcome == Outcome(m, pass[w].result)
             moved == [status |-> outcome, attempts |-> mail[m].attempts + 1]
  <2>1. /\ m \in Mail /\ pass[w].result \in SendResult /\ pass[w].batch \in SUBSET Mail
        /\ m \in pass[w].batch
    BY <1>0, <1>12 DEF Settle, PassInv, Pass
  <2>2. moved \in Row
    BY <1>0, <2>1 DEF Outcome, Row, SendResult
  <2>3. mail' \in [Mail -> Row]
    BY <1>0, <1>12, <2>1, <2>2 DEF Settle
  <2>4. pass' \in [Worker -> Pass]
    <3>1. \A rest \in SUBSET Mail, at \in {"idle", "send"} :
            [IdlePass EXCEPT !.batch = rest, !.at = at] \in Pass
      BY DEF IdlePass, OffPass, Pass
    <3> QED
      BY <1>0, <1>12, <2>1, <3>1 DEF Settle
  <2>5. claim' \in [Mail -> SUBSET Mail] /\ ahead' \in [Mail -> SUBSET Mail]
    BY <1>12, <2>1 DEF Settle
  <2>6. due' \in SUBSET Mail /\ expired' \in SUBSET Mail
    BY <1>12, <2>1 DEF Settle
  <2> QED
    BY <1>12, <2>3, <2>4, <2>5, <2>6 DEF Settle
<1>13. ASSUME NEW w \in Worker, WorkerDies(w) PROVE MailTypeOK'
  BY <1>0, <1>13 DEF WorkerDies, PassInv, Pass
<1>14. CASE UNCHANGED mailVars
  BY <1>14 DEF mailVars
<1> QED
  BY <1>1, <1>2, <1>3, <1>4, <1>5, <1>6, <1>7, <1>8, <1>9, <1>10, <1>11, <1>12, <1>13, <1>14
     DEF MailNext, Drain

SendInv == SenderInv /\ PassInv /\ BatchInv /\ CopiesInv

\* Producers, people and the relay's settings keep what the sender relies on, and
\* so does every step of its own.
LEMMA MailStepSafe == MailTypeOK /\ SendInv /\ [MailNext]_mailVars => SendInv'
<1> SUFFICES ASSUME MailTypeOK, SendInv, [MailNext]_mailVars PROVE SendInv'
  OBVIOUS
<1> USE QueueAssumption
    DEF MailTypeOK, SendInv, SenderInv, PassInv, BatchInv, CopiesInv, Known, Row, Pass, Live, SendResult,
        row, DueNow, NotDue, Unlease, Drop, IdlePass, OffPass
<1>1. ASSUME NEW m \in Mail, Enqueue(m) PROVE SendInv'
  BY <1>1 DEF Enqueue
<1>2. ASSUME NEW m \in Mail, FallDue(m) PROVE SendInv'
  BY <1>2 DEF FallDue
<1>3. ASSUME NEW m \in Mail, Cascade(m) \/ Delete(m) PROVE SendInv'
  <2>1. /\ mail[m].status # "none" /\ mail'[m].status = "gone"
        /\ \A n \in Mail : n # m => mail'[n] = mail[n]
        /\ UNCHANGED <<sender, pass, copies, doubt>>
    BY <1>3 DEF Cascade, Delete
  <2> QED
    BY <2>1
<1>4. ASSUME NEW m \in Mail, ExpireLease(m) PROVE SendInv'
  BY <1>4 DEF ExpireLease
<1>5. CASE Configure
  BY <1>5 DEF Configure
<1>6. ASSUME NEW w \in Worker, Elect(w) PROVE SendInv'
  BY <1>6 DEF Elect
<1>7. ASSUME NEW w \in Worker, Reclaim(w) PROVE SendInv'
  BY <1>7 DEF Reclaim
<1>8. ASSUME NEW w \in Worker, NEW batch \in SUBSET Mail, Claim(w, batch) PROVE SendInv'
  BY <1>8 DEF Claim, IsBatch, Claimable
<1>9. ASSUME NEW w \in Worker, NothingToDo(w) PROVE SendInv'
  BY <1>9 DEF NothingToDo
<1>10. ASSUME NEW w \in Worker, NEW m \in Mail, NEW result \in SendResult, NEW accepted \in BOOLEAN, NEW retried \in BOOLEAN,
              Send(w, m, result, accepted, retried)
       PROVE  SendInv'
  <2>1. /\ pass[w].at = "send" /\ m \in pass[w].batch
        /\ UNCHANGED <<mail, sender>>
    BY <1>10 DEF Send, IsNext
  <2>2. \A v \in Worker : v # w => pass[v].at = "off" /\ pass[v].batch = {}
    <3>1. sender = w
      BY <2>1
    <3>2. \A v \in Worker : v # w => pass[v].at = "off"
      BY <3>1
    <3> QED
      BY <3>2
  <2>3. pass' = [pass EXCEPT ![w] = [pass[w] EXCEPT !.at = "settle", !.current = m, !.result = result]]
    BY <1>10 DEF Send
  <2>4. /\ \A v \in Worker : v # w => pass'[v] = pass[v]
        /\ pass'[w].at = "settle" /\ pass'[w].batch = pass[w].batch
        /\ pass'[w].current = m /\ pass'[w].result = result
    BY <2>3
  <2>5. SenderInv' /\ PassInv' /\ BatchInv'
    <3>1. SenderInv'
      BY <2>1, <2>4
    <3>2. PassInv'
      BY <2>1, <2>2, <2>4
    <3>3. BatchInv'
      BY <2>1, <2>4
    <3> QED
      BY <3>1, <3>2, <3>3
  <2>6. ~Known(m) /\ copies[m] <= doubt[m] /\ copies[m] \in Nat /\ doubt[m] \in Nat
    BY <2>1, <2>2
  <2>7. \A n \in Mail : n # m => copies'[n] = copies[n] /\ doubt'[n] = doubt[n]
    BY <1>10 DEF Send
  <2>8. copies'[m] <= doubt'[m] + 1 /\ (result # "accepted" => copies'[m] <= doubt'[m])
    BY <1>10, <2>6 DEF Send, One
  <2>9. CopiesInv'
    <3>1. ASSUME NEW n \in Mail, n # m, ~Known(n)' PROVE ~Known(n)
      BY <2>1, <2>4, <3>1
    <3>2. ASSUME NEW n \in Mail, \E v \in Worker : n \in pass'[v].batch
          PROVE  \E v \in Worker : n \in pass[v].batch
      BY <2>4, <3>2
    <3>3. result = "accepted" => Known(m)'
      BY <2>4
    <3> HIDE DEF Known
    <3> QED
      BY <2>1, <2>7, <2>8, <3>1, <3>2, <3>3
  <2> QED
    BY <2>5, <2>9
<1>11. ASSUME NEW w \in Worker, NEW m \in Mail, Blow(w, m) PROVE SendInv'
  BY <1>11 DEF Blow, IsNext
<1>12. ASSUME NEW w \in Worker, Settle(w) PROVE SendInv'
  BY <1>12 DEF Settle, Outcome
<1>13. ASSUME NEW w \in Worker, WorkerDies(w) PROVE SendInv'
  BY <1>13 DEF WorkerDies
<1>14. CASE UNCHANGED mailVars
  BY <1>14 DEF mailVars
<1> HIDE DEF SendInv
<1>15. ASSUME NEW w \in Worker, Drain(w) PROVE SendInv'
  BY <1>7, <1>8, <1>9, <1>10, <1>11, <1>12, <1>15 DEF Drain
<1> QED
  BY <1>1, <1>2, <1>3, <1>4, <1>5, <1>6, <1>13, <1>14, <1>15 DEF MailNext

\* The invariant holds in every reachable state of the queue.
LEMMA MailInvariant == MailSpec => []MailInv
<1>1. MailInit => MailInv
  BY MailInitInv
<1>2. MailInv /\ [MailNext]_mailVars => MailInv'
  BY MailStepTyped, MailStepSafe DEF MailInv, SendInv
<1> QED
  BY <1>1, <1>2, PTL DEF MailSpec

\* Every variable of the queue stays within its type.
THEOREM MailTypeCorrect == MailSpec => []MailTypeOK
<1>1. MailInv => MailTypeOK
  BY DEF MailInv
<1> QED
  BY <1>1, MailInvariant, PTL

\* The relay accepts a message at most once more than there were acceptances that
\* EmailQueueWorker never learned of, however many workers start, die or lose a lease.
THEOREM OneCopyPerDoubt == MailSpec => []SentOncePerDoubt
<1>1. MailInv => SentOncePerDoubt
  BY DEF MailInv, CopiesInv, SentOncePerDoubt
<1> QED
  BY <1>1, MailInvariant, PTL

\* What the queue records as sent or failed stays so, and is not sent, until a person
\* deletes the row.
THEOREM SettledStays == MailSpec => SettledIsFinal
<1> DEFINE Final == \A m \in Mail : mail[m].status \in {"sent", "failed"} =>
                      mail'[m].status \in {mail[m].status, "gone"} /\ copies'[m] = copies[m]
<1>1. MailInv /\ [MailNext]_mailVars => [Final]_mailVars
  <2> SUFFICES ASSUME MailInv, MailNext, NEW m \in Mail, mail[m].status \in {"sent", "failed"}
               PROVE  mail'[m].status \in {mail[m].status, "gone"} /\ copies'[m] = copies[m]
    OBVIOUS
  <2> USE DEF MailInv, MailTypeOK, Row, row, Unlease, Drop
  <2>1. ASSUME NEW n \in Mail,
               Enqueue(n) \/ FallDue(n) \/ Cascade(n) \/ Delete(n) \/ ExpireLease(n)
        PROVE  mail'[m].status \in {mail[m].status, "gone"} /\ copies'[m] = copies[m]
    BY <2>1 DEF Enqueue, FallDue, Cascade, Delete, ExpireLease
  <2>2. ASSUME NEW w \in Worker, Reclaim(w) \/ \E batch \in SUBSET Mail : Claim(w, batch)
        PROVE  mail'[m].status \in {mail[m].status, "gone"} /\ copies'[m] = copies[m]
    BY <2>2 DEF Reclaim, Claim, IsBatch, Claimable
  <2>3. ASSUME NEW w \in Worker, NEW n \in Mail, NEW result \in SendResult, NEW accepted \in BOOLEAN, NEW retried \in BOOLEAN,
               Send(w, n, result, accepted, retried)
        PROVE  mail'[m].status \in {mail[m].status, "gone"} /\ copies'[m] = copies[m]
    BY <2>3 DEF Send, IsNext, BatchInv
  <2>4. ASSUME NEW w \in Worker, Settle(w)
        PROVE  mail'[m].status \in {mail[m].status, "gone"} /\ copies'[m] = copies[m]
    BY <2>4 DEF Settle, BatchInv, PassInv
  <2>5. ASSUME NEW w \in Worker,
               Elect(w) \/ NothingToDo(w) \/ WorkerDies(w) \/ \E n \in Mail : Blow(w, n)
        PROVE  mail'[m].status \in {mail[m].status, "gone"} /\ copies'[m] = copies[m]
    BY <2>5 DEF Elect, NothingToDo, WorkerDies, Blow
  <2>6. CASE Configure
    BY <2>6 DEF Configure
  <2> QED
    BY <2>1, <2>2, <2>3, <2>4, <2>5, <2>6 DEF MailNext, Drain
<1> QED
  BY <1>1, MailInvariant, PTL DEF MailSpec, SettledIsFinal


-----------------------------------------------------------------------------
(* SessionStream: waking the viewer, and what it has seen. *)

\* The latest turn and the row agree; a process without NOTIFY serves every turn.
WriterInv ==
  /\ turn.at # "off" => turn.run >= 1 /\ active = turn.run
  /\ active \in {0, turn.run}
  /\ turn.at = "flush" => turn.wrote < Length
  /\ turn.at = "marked" => turn.wrote = 0
  /\ listener.at = "none" => turn.near /\ ~listener.linked
  /\ listener.at = "down" => ~listener.linked
  /\ \A e \in history : e.run <= turn.run

\* The table holds the events of one turn, in the order of their ids; the turn's last
\* one has a single row.
RowsInv ==
  /\ \A r \in rows : 1 <= r.id /\ r.id <= lastId /\ r.event.run <= turn.run
  /\ \A r, s \in rows : r.event.run = s.event.run
  /\ \A r, s \in rows : IsLast(r.event) /\ IsLast(s.event) => r = s
  /\ turn.at \in {"agent", "flush", "tell"} => \A r \in rows : r.event.run = turn.run
  /\ \A r \in rows : r.event.run = turn.run => r.event.nth <= turn.wrote
  /\ turn.wrote > 0 /\ turn.at # "marked" =>
       \E r \in rows : r.event.run = turn.run /\ r.event.nth = turn.wrote

\* Somebody will wake a viewer that looked too early.
WakeInv ==
  viewer.at \in {"ask", "wait"} /\ ~viewer.woken /\ Unread # {} =>
    \/ note
    \/ listener.at \in {"down", "joined"}
    \/ listener.at = "up" /\ ~listener.linked
    \/ listener.at = "none" /\ turn.at = "tell"

\* The cursor is past the last event of the latest turn.
PastLast == \E r \in rows : r.event.run = turn.run /\ IsLast(r.event) /\ r.id <= viewer.cursor

\* A cursor gets past that event only in a read of the whole conversation, unless it slipped.
CursorInv ==
  /\ viewer.run <= turn.run /\ viewer.cursor <= lastId
  /\ viewer.at = "first" => viewer.run > 0
  /\ viewer.at = "newest" => viewer.run = 0 \/ viewer.slipped
  /\ viewer.at = "history" /\ ~viewer.slipped /\ PastLast => viewer.run = 0
  /\ viewer.at \in Following /\ ~viewer.slipped /\ PastLast => history \subseteq viewer.seen

\* What a viewer holds is of its kind.
Viewing == [at : Reading \cup Following, run : 0..Turns, cursor : Nat,
            seen : SUBSET Event, woken : BOOLEAN, slipped : BOOLEAN]

StreamInv == StreamTypeOK /\ WriterInv /\ RowsInv /\ WakeInv /\ CursorInv

LEMMA StreamInitInv == StreamInit => StreamInv
<1> SUFFICES ASSUME StreamInit PROVE StreamInv
  OBVIOUS
<1> USE StreamAssumption DEF StreamInit
<1>1. StreamTypeOK
  <2>1. turn \in [at : {"off", "marked", "agent", "flush", "tell"}, run : 0..Turns,
                  near : BOOLEAN, wrote : 0..Length] /\ active \in 0..Turns
    OBVIOUS
  <2>2. listener \in [at : {"none", "down", "joined", "up"}, linked : BOOLEAN]
    OBVIOUS
  <2>3. viewer \in Viewing
    BY DEF Viewing, Reading
  <2> QED
    BY <2>1, <2>2, <2>3 DEF StreamTypeOK, Viewing
<1>2. WriterInv /\ RowsInv /\ WakeInv
  BY DEF WriterInv, RowsInv, WakeInv
<1>3. CursorInv
  BY DEF CursorInv, Following
<1> QED
  BY <1>1, <1>2, <1>3 DEF StreamInv

-----------------------------------------------------------------------------
\* The steps of a turn.

LEMMA MarkRunInv == ASSUME StreamInv, NEW near \in BOOLEAN, MarkRun(near) PROVE StreamInv'
<1> USE StreamAssumption DEF StreamInv, StreamTypeOK, MarkRun, Event
<1>1. StreamTypeOK'
  OBVIOUS
<1>2. WriterInv' /\ RowsInv'
  BY DEF WriterInv, RowsInv, IsLast
<1>3. WakeInv'
  BY DEF WakeInv, Unread
<1>4. ~PastLast'
  BY DEF PastLast, RowsInv
<1>5. CursorInv'
  BY <1>4 DEF CursorInv, Reading, Following
<1> QED
  BY <1>1, <1>2, <1>3, <1>5

LEMMA DropInv == ASSUME StreamInv, DropPrevious PROVE StreamInv'
<1> USE StreamAssumption DEF StreamInv, StreamTypeOK, DropPrevious, Event
<1>1. StreamTypeOK'
  OBVIOUS
<1>2. WriterInv' /\ RowsInv'
  BY DEF WriterInv, RowsInv, IsLast
<1>3. WakeInv' /\ ~PastLast'
  BY DEF WakeInv, Unread, PastLast
<1>4. CursorInv'
  BY <1>3 DEF CursorInv
<1> QED
  BY <1>1, <1>2, <1>3, <1>4

LEMMA PersistInv == ASSUME StreamInv, Persist PROVE StreamInv'
<1> USE StreamAssumption DEF StreamInv, StreamTypeOK, Persist
<1> DEFINE e == [run |-> turn.run, nth |-> turn.wrote + 1]
<1>1. e \in Event /\ e.run = turn.run
  BY DEF Event, WriterInv
<1>2. history' = history \cup {e}
  OBVIOUS
<1> HIDE DEF e
<1>3. StreamTypeOK'
  BY <1>1, <1>2
<1>4. WriterInv'
  BY <1>1, <1>2 DEF WriterInv
<1>5. RowsInv' /\ WakeInv'
  BY DEF RowsInv, WakeInv, Unread, IsLast
<1>6. ~PastLast'
  BY DEF PastLast, RowsInv, IsLast, Event
<1>7. CursorInv'
  BY <1>6 DEF CursorInv
<1> QED
  BY <1>3, <1>4, <1>5, <1>7

LEMMA AppendInv == ASSUME StreamInv, AppendRows PROVE StreamInv'
<1> USE StreamAssumption DEF StreamInv, StreamTypeOK, AppendRows
<1> DEFINE e == [run |-> turn.run, nth |-> turn.wrote + 1]
           new == [id |-> lastId + 1, event |-> e]
<1>1. e \in Event /\ e.run = turn.run /\ e.nth = turn.wrote + 1
  BY DEF Event, WriterInv
<1>2. new \in [id : Nat, event : Event] /\ new.id = lastId + 1 /\ new.event = e
  BY <1>1
<1>3. /\ rows' = rows \cup {new} /\ lastId' = lastId + 1 /\ turn.at = "flush"
      /\ turn' = [turn EXCEPT !.at = "tell", !.wrote = turn.wrote + 1]
      /\ UNCHANGED <<active, history, listener, viewer, losses>>
  OBVIOUS
<1> HIDE DEF e, new
<1>4. StreamTypeOK'
  <2>1. turn.wrote + 1 \in 0..Length
    BY <1>3 DEF WriterInv
  <2>2. turn' \in [at : {"off", "marked", "agent", "flush", "tell"}, run : 0..Turns,
                   near : BOOLEAN, wrote : 0..Length]
    BY <1>3, <2>1
  <2>3. rows' \subseteq [id : Nat, event : Event] /\ lastId' \in Nat /\ note' \in BOOLEAN
    BY <1>2, <1>3
  <2> QED
    BY <1>3, <2>2, <2>3
<1>5. WriterInv'
  BY <1>3 DEF WriterInv
<1>6. RowsInv'
  BY <1>1, <1>2, <1>3 DEF RowsInv, WriterInv, IsLast, Event
<1>7. WakeInv'
  BY <1>3 DEF WakeInv, WriterInv
<1>8. ~PastLast'
  BY <1>1, <1>2, <1>3 DEF PastLast, RowsInv, CursorInv, WriterInv, IsLast, Event
<1>9. CursorInv'
  BY <1>3, <1>8 DEF CursorInv
<1> QED
  BY <1>4, <1>5, <1>6, <1>7, <1>9

LEMMA TellInv == ASSUME StreamInv, Tell PROVE StreamInv'
<1> USE StreamAssumption DEF StreamInv, StreamTypeOK, Tell
<1>1. StreamTypeOK'
  OBVIOUS
<1>2. WriterInv' /\ RowsInv'
  BY DEF WriterInv, RowsInv, IsLast
<1>3. WakeInv'
  BY DEF WakeInv, WriterInv, Unread
<1>4. CursorInv'
  BY DEF CursorInv, PastLast, IsLast
<1> QED
  BY <1>1, <1>2, <1>3, <1>4

LEMMA EndTurnInv == ASSUME StreamInv, EndTurn PROVE StreamInv'
<1> USE StreamAssumption DEF StreamInv, StreamTypeOK, EndTurn
<1>1. StreamTypeOK'
  OBVIOUS
<1>2. WriterInv' /\ RowsInv'
  BY DEF WriterInv, RowsInv, IsLast
<1>3. WakeInv'
  BY DEF WakeInv, Unread
<1>4. CursorInv'
  BY DEF CursorInv, PastLast, IsLast
<1> QED
  BY <1>1, <1>2, <1>3, <1>4

LEMMA CutShortInv == ASSUME StreamInv, CutShort PROVE StreamInv'
<1> USE DEF StreamInv
<1>1. /\ UNCHANGED <<active, history, rows, lastId>> /\ losses' = losses + 1
      /\ turn.at # "off" /\ turn' = [turn EXCEPT !.at = "off"]
  BY DEF CutShort
<1> DEFINE Lost == /\ turn.near
                   /\ viewer' = [viewer EXCEPT !.at = "row", !.woken = FALSE]
                   /\ listener' = [at |-> IF listener.at = "none" THEN "none" ELSE "down", linked |-> FALSE]
                   /\ note' = FALSE
           Spared == /\ turn.near => turn.at # "tell"
                     /\ UNCHANGED <<viewer, listener, note>>
<1>2. Lost \/ Spared
  BY DEF CutShort
<1>3. CASE Lost
  <2>1. /\ viewer' = [viewer EXCEPT !.at = "row", !.woken = FALSE] /\ note' = FALSE
        /\ listener' = [at |-> IF listener.at = "none" THEN "none" ELSE "down", linked |-> FALSE]
    BY <1>3
  <2>2. viewer' \in Viewing /\ viewer'.at = "row" /\ viewer'.run = viewer.run /\ viewer'.cursor = viewer.cursor
    BY <2>1 DEF StreamTypeOK, Viewing, Reading
  <2>3. /\ listener' \in [at : {"none", "down", "joined", "up"}, linked : BOOLEAN]
        /\ listener'.at = "none" => listener.at = "none"
        /\ ~listener'.linked
    BY <2>1
  <2>4. StreamTypeOK'
    <3>1. turn' \in [at : {"off", "marked", "agent", "flush", "tell"}, run : 0..Turns,
                     near : BOOLEAN, wrote : 0..Length]
      BY <1>1 DEF StreamTypeOK
    <3>2. note' \in BOOLEAN /\ losses' \in Nat
      <4>1. losses \in Nat
        BY DEF StreamTypeOK
      <4>2. losses' \in Nat
        BY <1>1, <4>1
      <4>3. note' \in BOOLEAN
        BY <2>1
      <4> QED
        BY <4>2, <4>3
    <3> QED
      BY <1>1, <2>2, <2>3, <3>1, <3>2 DEF StreamTypeOK, Viewing
  <2>5. WriterInv' /\ RowsInv'
    BY <1>1, <1>3, <2>3 DEF StreamTypeOK, WriterInv, RowsInv, IsLast
  <2>6. WakeInv' /\ CursorInv'
    BY <1>1, <2>2 DEF StreamTypeOK, WakeInv, CursorInv, Following
  <2> QED
    BY <2>4, <2>5, <2>6
<1>4. CASE Spared
  <2>1. UNCHANGED <<viewer, listener, note>>
    BY <1>4
  <2>2. StreamTypeOK'
    BY <1>1, <2>1 DEF StreamTypeOK
  <2>3. WriterInv' /\ RowsInv'
    BY <1>1, <2>1 DEF StreamTypeOK, WriterInv, RowsInv, IsLast
  <2>4. WakeInv'
    BY <1>1, <1>4, <2>1 DEF WakeInv, WriterInv, Unread
  <2>5. CursorInv'
    BY <1>1, <2>1 DEF StreamTypeOK, CursorInv, PastLast, IsLast
  <2> QED
    BY <2>2, <2>3, <2>4, <2>5
<1> QED
  BY <1>2, <1>3, <1>4

-----------------------------------------------------------------------------
\* The steps of the viewer's process and of the connection it listens on.

LEMMA ListenerInv ==
  ASSUME StreamInv, Listen \/ Announce \/ Notified \/ LoseConnection \/ NoticeLoss
  PROVE  StreamInv'
<1> USE StreamAssumption DEF StreamInv
<1>1. UNCHANGED <<turn, active, history, rows, lastId>>
  BY DEF Listen, Announce, Notified, LoseConnection, NoticeLoss
<1>2. \E b \in BOOLEAN : viewer' = [viewer EXCEPT !.woken = b]
  BY DEF StreamTypeOK, Listen, Announce, Notified, LoseConnection, NoticeLoss
<1>3. StreamTypeOK'
  <2>1. viewer' \in Viewing
    BY <1>2 DEF StreamTypeOK, Viewing
  <2>2. /\ listener' \in [at : {"none", "down", "joined", "up"}, linked : BOOLEAN]
        /\ note' \in BOOLEAN /\ losses' \in Nat
    <3>1. CASE Listen
      BY <3>1 DEF StreamTypeOK, Listen
    <3>2. CASE Announce \/ NoticeLoss
      BY <3>2 DEF StreamTypeOK, Announce, NoticeLoss
    <3>3. CASE Notified
      BY <3>3 DEF StreamTypeOK, Notified
    <3>4. CASE LoseConnection
      <4>1. losses \in Nat /\ listener \in [at : {"none", "down", "joined", "up"}, linked : BOOLEAN]
        BY DEF StreamTypeOK
      <4>2. note' \in BOOLEAN
        BY <3>4 DEF LoseConnection
      <4>3. losses' = losses + 1 /\ listener' = [listener EXCEPT !.linked = FALSE]
        BY <3>4 DEF LoseConnection
      <4>4. losses' \in Nat
        BY <4>1, <4>3
      <4>5. listener' \in [at : {"none", "down", "joined", "up"}, linked : BOOLEAN]
        BY <4>1, <4>3
      <4> QED
        BY <4>2, <4>4, <4>5
    <3> QED
      BY <3>1, <3>2, <3>3, <3>4
  <2> QED
    BY <1>1, <2>1, <2>2 DEF StreamTypeOK, Viewing
<1>4. WriterInv'
  BY DEF StreamTypeOK, WriterInv, Listen, Announce, Notified, LoseConnection, NoticeLoss
<1>5. WakeInv'
  BY DEF StreamTypeOK, WriterInv, WakeInv, Unread, Listen, Announce, Notified, LoseConnection, NoticeLoss
<1>6. RowsInv'
  BY <1>1 DEF RowsInv, IsLast
<1>7. CursorInv'
  BY <1>1, <1>2 DEF StreamTypeOK, CursorInv, PastLast, IsLast
<1> QED
  BY <1>3, <1>4, <1>5, <1>6, <1>7

-----------------------------------------------------------------------------
\* The steps of the viewer.  They write nothing the turn reads.

LEMMA WatchStill ==
  ASSUME StreamInv, UNCHANGED <<turn, active, history, rows, lastId, listener>>
  PROVE  WriterInv' /\ RowsInv'
BY DEF StreamInv, WriterInv, RowsInv, IsLast

LEMMA ReadRowInv == ASSUME StreamInv, ReadRow PROVE StreamInv'
<1> USE DEF StreamInv, StreamTypeOK, ReadRow
<1>1. StreamTypeOK'
  BY DEF Reading
<1>2. WakeInv'
  BY DEF WakeInv
<1>3. CursorInv'
  BY DEF CursorInv, WriterInv, Following
<1> QED
  BY <1>1, <1>2, <1>3, WatchStill

LEMMA ReadFirstInv == ASSUME StreamInv, ReadFirst PROVE StreamInv'
<1> USE DEF StreamInv, StreamTypeOK
<1>1. CASE RowsOf(viewer.run) = {}
  <2> USE <1>1 DEF ReadFirst
  <2>1. StreamTypeOK'
    BY DEF Reading
  <2>2. WakeInv' /\ CursorInv'
    BY DEF WakeInv, CursorInv, Following
  <2> QED
    BY <2>1, <2>2, WatchStill
<1>2. CASE RowsOf(viewer.run) # {}
  <2>1. /\ viewer.at = "first" /\ UNCHANGED <<turn, active, history, rows, lastId, listener, note, losses>>
        /\ \E id \in Ids(RowsOf(viewer.run)) :
             /\ \A other \in Ids(RowsOf(viewer.run)) : id <= other
             /\ viewer' = [viewer EXCEPT !.at = "history", !.cursor = id - 1]
    BY <1>2 DEF ReadFirst
  <2> DEFINE First == RowsOf(viewer.run)
  <2>2. PICK id \in Ids(First) :
          /\ \A other \in Ids(First) : id <= other
          /\ viewer' = [viewer EXCEPT !.at = "history", !.cursor = id - 1]
    BY <2>1
  <2>3. PICK f \in First : f.id = id
    BY DEF Ids
  <2>4. /\ \A other \in Ids(First) : f.id <= other
        /\ viewer' = [viewer EXCEPT !.at = "history", !.cursor = f.id - 1]
    BY <2>2, <2>3
  <2>5. /\ f \in rows /\ f.id \in Nat /\ 1 <= f.id /\ f.id <= lastId /\ f.event.run = viewer.run
        /\ \A r \in rows : r.event.run = viewer.run => f.id <= r.id
    BY <2>4 DEF Ids, RowsOf, RowsInv
  <2> DEFINE n == f.id - 1
  <2>6. n \in Nat /\ n < f.id /\ n <= lastId /\ viewer' = [viewer EXCEPT !.at = "history", !.cursor = n]
    BY <2>4, <2>5
  <2> HIDE DEF n
  <2>7. StreamTypeOK' /\ viewer'.cursor = n
    BY <2>1, <2>6 DEF Reading
  <2>8. ~PastLast'
    <3> SUFFICES ASSUME NEW r \in rows, r.event.run = turn.run, r.id <= n
                 PROVE  FALSE
      BY <2>1, <2>7 DEF PastLast, IsLast
    <3>1. r.id \in Nat /\ r.event.run = viewer.run
      BY <2>5 DEF RowsInv
    <3> QED
      BY <2>5, <2>6, <3>1
  <2>9. WakeInv' /\ CursorInv'
    BY <2>1, <2>8, <2>6 DEF WakeInv, CursorInv, Following
  <2> QED
    BY <2>1, <2>7, <2>9, WatchStill
<1> QED
  BY <1>1, <1>2

LEMMA ReadNewestInv == ASSUME StreamInv, ReadNewest PROVE StreamInv'
<1> USE DEF StreamInv, StreamTypeOK
<1>1. PICK id \in Ids(rows) \cup {0} :
        /\ viewer.at = "newest" /\ UNCHANGED <<turn, active, history, rows, lastId, listener, note, losses>>
        /\ viewer' = [viewer EXCEPT !.at = "history", !.cursor = id,
                        !.slipped = viewer.slipped /\ \E r \in rows : r.event.run >= viewer.run]
  BY DEF ReadNewest
<1>2. id \in Nat /\ id <= lastId
  BY DEF Ids, RowsInv
<1>3. StreamTypeOK'
  BY <1>1, <1>2 DEF Reading
<1>4. ~viewer'.slipped /\ PastLast' => viewer.run = 0
  BY <1>1, <1>2 DEF CursorInv, PastLast
<1>5. WakeInv' /\ CursorInv'
  BY <1>1, <1>2, <1>4 DEF WakeInv, CursorInv, Following
<1> QED
  BY <1>1, <1>3, <1>5, WatchStill

LEMMA ReadHistoryInv == ASSUME StreamInv, ReadHistory PROVE StreamInv'
<1> USE DEF StreamInv, StreamTypeOK, ReadHistory
<1>1. StreamTypeOK'
  BY DEF Following
<1>2. viewer.run = 0 => viewer'.seen = history
  OBVIOUS
<1>3. PastLast' <=> PastLast
  BY DEF PastLast, IsLast
<1>4. WakeInv' /\ CursorInv'
  BY <1>2, <1>3 DEF WakeInv, CursorInv, Following
<1> QED
  BY <1>1, <1>4, WatchStill

LEMMA FailReadInv == ASSUME StreamInv, FailRead PROVE StreamInv'
<1> USE DEF StreamInv, StreamTypeOK
<1>1. /\ UNCHANGED <<turn, active, history, rows, lastId, listener, note>> /\ losses' \in Nat
      /\ viewer' = [viewer EXCEPT !.at = "clear", !.cursor = 0, !.woken = FALSE, !.slipped = FALSE]
  BY DEF FailRead
<1>2. /\ viewer' \in Viewing
      /\ viewer'.at = "clear" /\ viewer'.run = viewer.run /\ viewer'.cursor = 0
  BY <1>1 DEF Viewing, Following
<1>3. StreamTypeOK'
  BY <1>1, <1>2 DEF Viewing
<1>4. ~PastLast'
  BY <1>1, <1>2 DEF PastLast, RowsInv
<1>5. WakeInv' /\ CursorInv'
  BY <1>1, <1>2, <1>4 DEF WakeInv, CursorInv
<1> QED
  BY <1>1, <1>3, <1>5, WatchStill

\* Clearing the wake, looking and finding nothing, sleeping, waking, losing the stream.
LEMMA LoopInv == ASSUME StreamInv, ClearWake \/ Look \/ Sleep \/ Wake \/ BreakStream PROVE StreamInv'
<1> USE DEF StreamInv, StreamTypeOK
<1>1. UNCHANGED <<turn, active, history, rows, lastId, listener, note>> /\ losses' \in Nat
  BY DEF ClearWake, Look, Sleep, Wake, BreakStream
<1> DEFINE Kept == /\ viewer' \in Viewing
                   /\ viewer'.run = viewer.run /\ viewer'.cursor = viewer.cursor
                   /\ viewer'.seen = viewer.seen /\ viewer'.slipped = viewer.slipped
                   /\ viewer'.at = "row" \/ (viewer.at \in Following /\ viewer'.at \in Following)
                   /\ viewer'.at \in {"ask", "wait"} =>
                        /\ viewer'.woken = viewer.woken
                        /\ Unread = {} \/ viewer.at \in {"ask", "wait"}
<1>2. Kept
  <2>1. CASE ClearWake
    BY <2>1 DEF ClearWake, Following, Viewing
  <2>2. CASE Look
    BY <2>2 DEF Look, Following, Viewing
  <2>3. CASE Sleep
    BY <2>3 DEF Sleep, Following, Viewing
  <2>4. CASE Wake
    BY <2>4 DEF Wake, Following, Viewing
  <2>5. CASE BreakStream
    BY <2>5 DEF BreakStream, Reading, Viewing
  <2> QED
    BY <2>1, <2>2, <2>3, <2>4, <2>5
<1>3. StreamTypeOK'
  BY <1>1, <1>2 DEF Viewing
<1>4. WakeInv'
  BY <1>1, <1>2 DEF WakeInv, Unread
<1>5. CursorInv'
  BY <1>1, <1>2 DEF CursorInv, PastLast, Following, IsLast
<1> QED
  BY <1>1, <1>3, <1>4, <1>5, WatchStill

\* Rows are received up to the end of a turn: a cursor that does not end the stream
\* does not pass a last event.
LEMMA ReceiveInv == ASSUME StreamInv, Receive PROVE StreamInv'
<1> USE DEF StreamInv, StreamTypeOK
<1> DEFINE upTo == {r \in Unread : ~\E s \in Unread : IsLast(s.event) /\ s.id < r.id}
           ended == \E r \in upTo : IsLast(r.event)
<1>1. PICK newest \in upTo :
        /\ viewer.at = "look" /\ UNCHANGED <<turn, active, history, rows, lastId, listener, note, losses>>
        /\ viewer' = [viewer EXCEPT !.at = IF ended THEN "row" ELSE "clear",
                        !.cursor = newest.id, !.seen = viewer.seen \cup {r.event : r \in upTo}]
  BY DEF Receive
<1>2. newest \in rows /\ newest.id \in Nat /\ newest.id <= lastId /\ newest.id > viewer.cursor
  BY DEF Unread, RowsInv
<1>3. {r.event : r \in upTo} \subseteq Event
  BY DEF Unread
<1>4. ASSUME ~ended, PastLast' PROVE PastLast
  <2>1. PICK r \in rows : r.event.run = turn.run /\ IsLast(r.event) /\ r.id <= newest.id
    BY <1>1, <1>2, <1>4 DEF PastLast, IsLast
  <2>2. r \in Unread => r \in upTo
    BY <2>1 DEF Unread, RowsInv
  <2> QED
    BY <1>4, <2>1, <2>2 DEF Unread, PastLast
<1> HIDE DEF upTo, ended
<1>5. StreamTypeOK'
  BY <1>1, <1>2, <1>3 DEF Reading, Following
<1>6. WakeInv'
  BY <1>1 DEF WakeInv
<1>7. CursorInv'
  BY <1>1, <1>2, <1>4 DEF CursorInv, Following
<1> QED
  BY <1>1, <1>5, <1>6, <1>7, WatchStill

-----------------------------------------------------------------------------
\* The invariant, in every behaviour.
LEMMA StreamInvariant == StreamSpec => []StreamInv
<1>1. StreamInv /\ [StreamNext]_streamVars => StreamInv'
  <2> SUFFICES ASSUME StreamInv, [StreamNext]_streamVars PROVE StreamInv'
    OBVIOUS
  <2>1. CASE UNCHANGED streamVars
    BY <2>1 DEF streamVars, StreamInv, StreamTypeOK, WriterInv, RowsInv, WakeInv, CursorInv, Unread,
                PastLast, IsLast
  <2>2. CASE StreamNext
    BY <2>2, MarkRunInv, DropInv, PersistInv, AppendInv, TellInv, EndTurnInv, CutShortInv, ListenerInv,
       ReadRowInv, ReadFirstInv, ReadNewestInv, ReadHistoryInv, FailReadInv, LoopInv, ReceiveInv
       DEF StreamNext, Watch
  <2> QED
    BY <2>1, <2>2
<1> QED
  BY <1>1, StreamInitInv, PTL DEF StreamSpec

\* The turn, the table, the connection and the viewer keep their types.
THEOREM StreamTypeCorrect == StreamSpec => []StreamTypeOK
<1>1. StreamInv => StreamTypeOK
  BY DEF StreamInv
<1> QED
  BY <1>1, StreamInvariant, PTL

\* However many turns, events and lost connections there are, and whether the writer or
\* the listener was to wake it, a viewer never sleeps on an event it has not read.
THEOREM NoWakeIsMissed == StreamSpec => []NoMissedWake
<1>1. StreamInv => NoMissedWake
  BY DEF StreamInv, WakeInv, NoMissedWake, Undisturbed
<1> QED
  BY <1>1, StreamInvariant, PTL

\* However many turns were cancelled or cut short, reads failed and connections broke,
\* once a turn has written its last event and is over, a viewer at rest has seen the whole
\* conversation, unless its cursor slipped past a turn that began as it read.
THEOREM ViewersCatchUp == StreamSpec => []QuietIsCurrent
<1>1. StreamInv => QuietIsCurrent
  <2> SUFFICES ASSUME StreamInv, LastWritten, Undisturbed, turn.at = "off", active = 0, ~viewer.slipped
               PROVE  history \subseteq viewer.seen
    BY DEF QuietIsCurrent, StreamEndsWithTurn
  <2>1. CASE turn.run = 0
    BY <2>1 DEF StreamInv, StreamTypeOK, WriterInv, Event
  <2>2. CASE turn.run # 0
    <3>1. PICK r \in rows : r.event.run = turn.run /\ r.event.nth = Length
      BY <2>2, StreamAssumption DEF StreamInv, StreamTypeOK, LastWritten, RowsInv
    <3>2. Unread = {}
      BY DEF StreamInv, WakeInv, Undisturbed
    <3>3. PastLast
      BY <3>1, <3>2 DEF StreamInv, StreamTypeOK, Unread, PastLast, IsLast
    <3> QED
      BY <3>3 DEF StreamInv, CursorInv, Undisturbed, Following
  <2> QED
    BY <2>1, <2>2
<1> QED
  BY <1>1, StreamInvariant, PTL

=============================================================================
