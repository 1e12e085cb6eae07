----------------------------- MODULE EmailQueue -----------------------------
(***************************************************************************)
(* The outgoing-email queue: rows of outbound_emails, the workers that     *)
(* compete for the one sender's lock and drain them                        *)
(* (services/email_queue_worker.py, repositories/outbound_email_queue.py), *)
(* the relay, and the people and cascades that delete rows.                *)
(*                                                                         *)
(* Time is the order in which things fall due: a message when enqueued and *)
(* again after each reschedule; the leases of one claim run out together.  *)
(* Abstracted: the rate limit, the backoff's length, what a message says.  *)
(***************************************************************************)
EXTENDS Naturals, FiniteSets

CONSTANTS
  Mail,         \* messages
  Poison,       \* those whose headers cannot be built (a line feed in the subject)
  Worker,       \* processes running an EmailQueueWorker
  Nobody,       \* nobody holds the lock, no message is under way
  BatchSize,    \* messages claimed per pass
  MaxAttempts,  \* attempts before a message becomes a dead letter
  MaxDeaths,    \* bound: workers that die
  MaxDoubts     \* bound: acceptances of a message whose reply is lost

ASSUME QueueAssumption ==
  /\ Poison \subseteq Mail /\ Nobody \notin Worker /\ Nobody \notin Mail
  /\ BatchSize \in Nat \ {0} /\ MaxAttempts \in Nat \ {0}
  /\ MaxDeaths \in Nat /\ MaxDoubts \in Nat

VARIABLES
  mail,     \* mail[m]: the row, [status, attempts]
  due,      \* messages whose next_attempt_at has passed
  ahead,    \* ahead[m]: those that were due when m fell due
  claim,    \* claim[m]: the messages claimed with m while its lease is set, else {}
  expired,  \* messages whose lease has run out
  sender,   \* the worker holding the email-queue lock
  pass,     \* pass[w]: w's pass, [at, batch, current, result]
  smtp,     \* a relay is configured
  copies,   \* copies[m]: how often the relay accepted m
  doubt,    \* doubt[m]: acceptances the queue never learned of
  deaths

row == <<mail, due, ahead, claim, expired>>
mailVars == <<row, sender, pass, smtp, copies, doubt, deaths>>

Live == {"pending", "sending"}
Row == [status : {"none", "sent", "failed", "gone"} \cup Live, attempts : Nat]
SendResult == {"accepted", "transient", "permanent"}
Pass == [at : {"off", "idle", "reclaimed", "send", "settle"}, batch : SUBSET Mail,
         current : Mail \cup {Nobody}, result : SendResult \cup {"none"}]
OffPass == [at |-> "off", batch |-> {}, current |-> Nobody, result |-> "none"]
IdlePass == [OffPass EXCEPT !.at = "idle"]

MailInit ==
  /\ mail = [m \in Mail |-> [status |-> "none", attempts |-> 0]]
  /\ due = {} /\ ahead = [m \in Mail |-> {}]
  /\ claim = [m \in Mail |-> {}] /\ expired = {}
  /\ sender = Nobody /\ pass = [w \in Worker |-> OffPass] /\ smtp = TRUE
  /\ copies = [m \in Mail |-> 0] /\ doubt = [m \in Mail |-> 0]
  /\ deaths = 0

-----------------------------------------------------------------------------
(* Producers, people, time. *)

DueNow(m) ==
  /\ due' = due \cup {m}
  /\ ahead' = [ahead EXCEPT ![m] = due]

NotDue(m) ==
  /\ due' = due \ {m}
  /\ ahead' = [n \in Mail |-> IF n = m THEN {} ELSE ahead[n] \ {m}]

\* NotificationDispatcher._try_enqueue: nothing is staged without a relay.
Enqueue(m) ==
  /\ mail[m].status = "none" /\ smtp
  /\ mail' = [mail EXCEPT ![m].status = "pending"]
  /\ DueNow(m)
  /\ UNCHANGED <<claim, expired, sender, pass, smtp, copies, doubt, deaths>>

\* The delay of a rescheduled message passes.
FallDue(m) ==
  /\ mail[m].status = "pending" /\ m \notin due
  /\ DueNow(m)
  /\ UNCHANGED <<mail, claim, expired, sender, pass, smtp, copies, doubt, deaths>>

Unlease(m) ==
  /\ claim' = [claim EXCEPT ![m] = {}]
  /\ expired' = expired \ {m}

Drop(m) ==
  /\ mail' = [mail EXCEPT ![m] = [status |-> "gone", attempts |-> 0]]
  /\ NotDue(m) /\ Unlease(m)
  /\ UNCHANGED <<sender, pass, smtp, copies, doubt, deaths>>

\* The notification is deleted, and its mail with it, whatever its status.
Cascade(m) == mail[m].status \in Live /\ Drop(m)

\* OutboundEmailService.delete: only what has been settled.
Delete(m) == mail[m].status \in {"sent", "failed"} /\ Drop(m)

\* The lease of the messages claimed with m runs out.
ExpireLease(m) ==
  /\ claim[m] # {} /\ m \notin expired
  /\ expired' = expired \cup {n \in Mail : claim[n] = claim[m]}
  /\ UNCHANGED <<mail, due, ahead, claim, sender, pass, smtp, copies, doubt, deaths>>

Configure ==
  /\ smtp' = ~smtp
  /\ UNCHANGED <<row, sender, pass, copies, doubt, deaths>>

-----------------------------------------------------------------------------
(* EmailQueueWorker. *)

\* Mutant: the lock is not asked for.
ElectAnyway(w) ==
  /\ pass[w].at = "off"
  /\ sender' = w
  /\ pass' = [pass EXCEPT ![w] = IdlePass]
  /\ UNCHANGED <<row, smtp, copies, doubt, deaths>>

Elect(w) ==
  /\ pass[w].at = "off" /\ sender = Nobody
  /\ sender' = w
  /\ pass' = [pass EXCEPT ![w] = IdlePass]
  /\ UNCHANGED <<row, smtp, copies, doubt, deaths>>

\* reclaim_expired_leases.
Reclaim(w) ==
  LET back == {m \in expired : mail[m].status = "sending"}
  IN /\ pass[w].at = "idle"
     /\ mail' = [m \in Mail |-> IF m \in back THEN [mail[m] EXCEPT !.status = "pending"] ELSE mail[m]]
     /\ claim' = [m \in Mail |-> IF m \in back THEN {} ELSE claim[m]]
     /\ expired' = expired \ back
     /\ pass' = [pass EXCEPT ![w].at = "reclaimed"]
     /\ UNCHANGED <<due, ahead, sender, smtp, copies, doubt, deaths>>

Claimable == {m \in due : mail[m].status = "pending"}

\* At most BatchSize messages, those longest due.
IsBatch(batch) ==
  /\ batch \subseteq Claimable
  /\ \A m \in batch : ahead[m] \cap Claimable \subseteq batch
  /\ batch = Claimable \/ Cardinality(batch) = BatchSize
  /\ Cardinality(batch) <= BatchSize

\* resolve_smtp, then claim_batch.
Claim(w, batch) ==
  /\ pass[w].at = "reclaimed"
  /\ smtp /\ IsBatch(batch) /\ batch # {}
  /\ mail' = [m \in Mail |-> IF m \in batch THEN [mail[m] EXCEPT !.status = "sending"] ELSE mail[m]]
  /\ claim' = [m \in Mail |-> IF m \in batch THEN batch ELSE claim[m]]
  /\ pass' = [pass EXCEPT ![w] = [@ EXCEPT !.at = "send", !.batch = batch]]
  /\ UNCHANGED <<due, ahead, expired, sender, smtp, copies, doubt, deaths>>

\* Delivery is switched off, or nothing is due.
NothingToDo(w) ==
  /\ pass[w].at = "reclaimed"
  /\ ~smtp \/ Claimable = {}
  /\ pass' = [pass EXCEPT ![w] = IdlePass]
  /\ UNCHANGED <<row, sender, smtp, copies, doubt, deaths>>

\* The batch is sent in the order it was claimed in.
IsNext(w, m) == m \in pass[w].batch /\ ahead[m] \cap pass[w].batch = {}

One(b) == IF b THEN 1 ELSE 0

\* SmtpSession.send: an acceptance whose reply is lost reads as a transient failure,
\* unless the relay hung up: then the message is sent again at once (retried).
Send(w, m, result, accepted, retried) ==
  LET doubts == One(retried) + One(accepted /\ result = "transient")
  IN /\ pass[w].at = "send" /\ IsNext(w, m) /\ m \notin Poison
     /\ result = "accepted" => accepted
     /\ result = "permanent" => ~accepted
     /\ doubts > 0 => doubt[m] + doubts <= MaxDoubts
     /\ copies' = [copies EXCEPT ![m] = @ + One(retried) + One(accepted)]
     /\ doubt' = [doubt EXCEPT ![m] = @ + doubts]
     /\ pass' = [pass EXCEPT ![w] = [@ EXCEPT !.at = "settle", !.current = m, !.result = result]]
     /\ UNCHANGED <<row, sender, smtp, deaths>>

\* build_message raises what send does not translate: the pass ends there, the
\* rest of its batch still leased.
Blow(w, m) ==
  /\ pass[w].at = "send" /\ IsNext(w, m) /\ m \in Poison
  /\ pass' = [pass EXCEPT ![w] = IdlePass]
  /\ UNCHANGED <<row, sender, smtp, copies, doubt, deaths>>

\* What _deliver and _settle_failure make of a result.
Outcome(m, result) ==
  CASE result = "accepted" -> "sent"
    [] result = "permanent" -> "failed"
    [] result = "transient" -> IF mail[m].attempts + 1 >= MaxAttempts THEN "failed" ELSE "pending"

\* _settle: no row, no write.  A reschedule also moves next_attempt_at.
Settle(w) ==
  LET m == pass[w].current
      rest == pass[w].batch \ {m}
      outcome == Outcome(m, pass[w].result)
  IN /\ pass[w].at = "settle"
     /\ pass' = [pass EXCEPT ![w] = [IdlePass EXCEPT !.batch = rest,
                                     !.at = IF rest = {} THEN "idle" ELSE "send"]]
     /\ IF mail[m].status = "gone"
        THEN UNCHANGED row
        ELSE /\ mail' = [mail EXCEPT ![m] = [status |-> outcome, attempts |-> @.attempts + 1]]
             /\ Unlease(m)
             /\ IF outcome = "pending" THEN NotDue(m) ELSE UNCHANGED <<due, ahead>>
     /\ UNCHANGED <<sender, smtp, copies, doubt, deaths>>

\* A worker's process dies, or a database error ends its pass, at any point.
WorkerDies(w) ==
  /\ pass[w].at # "off" /\ deaths < MaxDeaths
  /\ deaths' = deaths + 1
  /\ sender' = IF sender = w THEN Nobody ELSE sender
  /\ pass' = [pass EXCEPT ![w] = OffPass]
  /\ doubt' = IF pass[w].result = "accepted"
              THEN [doubt EXCEPT ![pass[w].current] = @ + 1] ELSE doubt
  /\ UNCHANGED <<row, smtp, copies>>

Drain(w) ==
  \/ Reclaim(w) \/ NothingToDo(w) \/ Settle(w)
  \/ \E batch \in SUBSET Mail : Claim(w, batch)
  \/ \E m \in Mail :
       \/ Blow(w, m)
       \/ \E result \in SendResult, accepted \in BOOLEAN, retried \in BOOLEAN :
            Send(w, m, result, accepted, retried)

MailNext ==
  \/ \E m \in Mail : Enqueue(m) \/ FallDue(m) \/ Cascade(m) \/ Delete(m) \/ ExpireLease(m)
  \/ Configure
  \/ \E w \in Worker : Elect(w) \/ Drain(w) \/ WorkerDies(w)

MailSpec == MailInit /\ [][MailNext]_mailVars

-----------------------------------------------------------------------------
(* Properties. *)

MailTypeOK ==
  /\ mail \in [Mail -> Row]
  /\ due \subseteq Mail /\ ahead \in [Mail -> SUBSET Mail]
  /\ claim \in [Mail -> SUBSET Mail] /\ expired \subseteq Mail
  /\ sender \in Worker \cup {Nobody} /\ pass \in [Worker -> Pass] /\ smtp \in BOOLEAN
  /\ copies \in [Mail -> Nat] /\ doubt \in [Mail -> Nat] /\ deaths \in Nat

\* A message goes out again only if the queue never learned that the relay had
\* it: one sender, leases and the settled status prevent every other repeat.
SentOncePerDoubt == \A m \in Mail : copies[m] <= doubt[m] + 1

\* A message the queue knows to be delivered or given up is never sent again.
SettledIsFinal ==
  [][\A m \in Mail : mail[m].status \in {"sent", "failed"} =>
       mail'[m].status \in {mail[m].status, "gone"} /\ copies'[m] = copies[m]]_mailVars

=============================================================================
