---------------------------- MODULE SessionStream ----------------------------
(***************************************************************************)
(* One session's stream: the turn that writes events into a table, in      *)
(* whichever process runs it (services/session_stream.py, StreamWriter;    *)
(* services/session_runner.py), the LISTEN connection of a viewer's        *)
(* process, and a viewer, who reads the history with a cursor              *)
(* (WorkflowExecutionService.get_session_history), follows the stream from *)
(* it (stream_events) and starts over when a turn ends                     *)
(* (frontend useExecutionSessionChat).  Viewers do not affect each other.  *)
(*                                                                         *)
(* Abstracted: what events say, the batching of deltas, keepalives, the    *)
(* read limit.                                                             *)
(***************************************************************************)
EXTENDS Naturals

CONSTANTS
  Turns,   \* bound: turns that start
  Length,  \* events of a turn; its last one ends the stream
  Losses   \* bound: LISTEN connections lost, turns cut short, streams and reads that fail

ASSUME StreamAssumption == Turns \in Nat /\ Length \in Nat \ {0} /\ Losses \in Nat

VARIABLES
  turn,      \* [at, run, near, wrote]: the latest turn
  active,    \* the row's active_run_id, 0 between turns
  history,   \* the events persisted in the conversation
  rows,      \* the events table: [id, event]
  lastId,    \* the last id the table gave out
  listener,  \* the viewer's process: [at, linked]
  note,      \* a NOTIFY is on its way to that process
  viewer,    \* [at, run, cursor, seen, woken, slipped]
  losses

streamVars == <<turn, active, history, rows, lastId, listener, note, viewer, losses>>

Event == [run : 1..Turns, nth : 1..Length]
IsLast(e) == e.nth = Length
Reading == {"row", "first", "newest", "history"}
Following == {"clear", "look", "ask", "wait"}

\* A database without NOTIFY serves one process: its listener returns at once.
StreamInit ==
  /\ turn = [at |-> "off", run |-> 0, near |-> TRUE, wrote |-> 0]
  /\ active = 0 /\ history = {} /\ rows = {} /\ lastId = 0
  /\ \E at \in {"none", "down"} : listener = [at |-> at, linked |-> FALSE]
  /\ note = FALSE
  /\ viewer = [at |-> "row", run |-> 0, cursor |-> 0, seen |-> {}, woken |-> FALSE,
               slipped |-> FALSE]
  /\ losses = 0

-----------------------------------------------------------------------------
(* The turn. *)

\* mark_run, in the viewer's process or another.
MarkRun(near) ==
  /\ turn.at = "off" /\ turn.run < Turns
  /\ listener.at = "none" => near
  /\ turn' = [at |-> "marked", run |-> turn.run + 1, near |-> near, wrote |-> 0]
  /\ active' = turn.run + 1
  /\ UNCHANGED <<history, rows, lastId, listener, note, viewer, losses>>

\* StreamWriter.start: the previous turn's events go.
DropPrevious ==
  /\ turn.at = "marked"
  /\ rows' = {}
  /\ turn' = [turn EXCEPT !.at = "agent"]
  /\ UNCHANGED <<active, history, lastId, listener, note, viewer, losses>>

\* The agent's next event is persisted ...
Persist ==
  /\ turn.at = "agent" /\ turn.wrote < Length
  /\ history' = history \cup {[run |-> turn.run, nth |-> turn.wrote + 1]}
  /\ turn' = [turn EXCEPT !.at = "flush"]
  /\ UNCHANGED <<active, rows, lastId, listener, note, viewer, losses>>

\* ... and appended for viewers, with a NOTIFY in the same transaction ...
AppendRows ==
  /\ turn.at = "flush"
  /\ lastId' = lastId + 1
  /\ rows' = rows \cup {[id |-> lastId + 1, event |-> [run |-> turn.run, nth |-> turn.wrote + 1]]}
  /\ note' = (note \/ listener.linked)
  /\ turn' = [turn EXCEPT !.at = "tell", !.wrote = @ + 1]
  /\ UNCHANGED <<active, history, listener, viewer, losses>>

\* ... which notify_viewers relies on while this process listens.
Tell ==
  /\ turn.at = "tell"
  /\ viewer' = [viewer EXCEPT !.woken = @ \/ (turn.near /\ listener.at # "up")]
  /\ turn' = [turn EXCEPT !.at = "agent"]
  /\ UNCHANGED <<active, history, rows, lastId, listener, note, losses>>

\* However the turn ended: cancelled at shutdown, or left by an agent that raised, it
\* has not written its last event, and at "flush" one it persisted stays unwritten.
EndTurn ==
  /\ turn.at \in {"agent", "flush"}
  /\ active' = 0
  /\ turn' = [turn EXCEPT !.at = "off"]
  /\ UNCHANGED <<history, rows, lastId, listener, note, viewer, losses>>

\* The turn stops without clearing the row; a later one takes its work up again.  The
\* process died, and with it the streams and the connection it served; or it could not
\* write, and lives on.
CutShort ==
  /\ turn.at # "off" /\ losses < Losses
  /\ turn.run < Turns
  /\ losses' = losses + 1
  /\ turn' = [turn EXCEPT !.at = "off"]
  /\ \/ /\ turn.near
        /\ viewer' = [viewer EXCEPT !.at = "row", !.woken = FALSE]
        /\ listener' = [at |-> IF listener.at = "none" THEN "none" ELSE "down", linked |-> FALSE]
        /\ note' = FALSE
     \/ /\ turn.near => turn.at # "tell"
        /\ UNCHANGED <<viewer, listener, note>>
  /\ UNCHANGED <<active, history, rows, lastId>>

-----------------------------------------------------------------------------
(* run_stream_listener. *)

Listen ==
  /\ listener.at = "down"
  /\ listener' = [at |-> "joined", linked |-> TRUE]
  /\ UNCHANGED <<turn, active, history, rows, lastId, note, viewer, losses>>

\* _listening, then _wake_all.
Announce ==
  /\ listener.at = "joined"
  /\ listener' = [listener EXCEPT !.at = "up"]
  /\ viewer' = [viewer EXCEPT !.woken = TRUE]
  /\ UNCHANGED <<turn, active, history, rows, lastId, note, losses>>

\* _on_notify.
Notified ==
  /\ note
  /\ note' = FALSE
  /\ viewer' = [viewer EXCEPT !.woken = TRUE]
  /\ UNCHANGED <<turn, active, history, rows, lastId, listener, losses>>

LoseConnection ==
  /\ listener.linked /\ losses < Losses
  /\ losses' = losses + 1
  /\ listener' = [listener EXCEPT !.linked = FALSE]
  /\ note' = FALSE
  /\ UNCHANGED <<turn, active, history, rows, lastId, viewer>>

\* The termination listener's event is waited for: only then _listening is false.
NoticeLoss ==
  /\ listener.at = "up" /\ ~listener.linked
  /\ listener' = [listener EXCEPT !.at = "down"]
  /\ UNCHANGED <<turn, active, history, rows, lastId, note, viewer, losses>>

-----------------------------------------------------------------------------
(* The viewer. *)

\* get_session_history reads the row ...
ReadRow ==
  /\ viewer.at = "row"
  /\ viewer' = [viewer EXCEPT !.at = IF active = 0 THEN "newest" ELSE "first", !.run = active,
                              !.slipped = FALSE]
  /\ UNCHANGED <<turn, active, history, rows, lastId, listener, note, losses>>

Ids(S) == {r.id : r \in S}
RowsOf(run) == {r \in rows : r.event.run = run}

\* Mutant: the cursor is past every event there is, whatever turn is under way.
ReadNewestInstead ==
  /\ viewer.at = "first"
  /\ viewer' = [viewer EXCEPT !.at = "newest"]
  /\ UNCHANGED <<turn, active, history, rows, lastId, listener, note, losses>>

\* Mutant: one event too many before the turn.
ReadBeforeFirst ==
  /\ viewer.at = "first" /\ RowsOf(viewer.run) # {}
  /\ \E id \in Ids(RowsOf(viewer.run)) :
       /\ \A other \in Ids(RowsOf(viewer.run)) : id <= other
       /\ viewer' = [viewer EXCEPT !.at = "history", !.cursor = id - 2]
  /\ UNCHANGED <<turn, active, history, rows, lastId, listener, note, losses>>

\* ... cursor_before_run, the id before the first event of the turn it names ...
ReadFirst ==
  /\ viewer.at = "first"
  /\ IF RowsOf(viewer.run) = {}
     THEN viewer' = [viewer EXCEPT !.at = "newest", !.slipped = TRUE]
     ELSE \E id \in Ids(RowsOf(viewer.run)) :
            /\ \A other \in Ids(RowsOf(viewer.run)) : id <= other
            /\ viewer' = [viewer EXCEPT !.at = "history", !.cursor = id - 1]
  /\ UNCHANGED <<turn, active, history, rows, lastId, listener, note, losses>>

\* ... or, when there is none, the id of the last one.  slipped: the turn the row
\* named, or one after it, wrote its first event between these reads.
ReadNewest ==
  /\ viewer.at = "newest"
  /\ \E id \in Ids(rows) \cup {0} :
       /\ \A other \in Ids(rows) : other <= id
       /\ viewer' = [viewer EXCEPT !.at = "history", !.cursor = id,
                       !.slipped = @ /\ \E r \in rows : r.event.run >= viewer.run]
  /\ UNCHANGED <<turn, active, history, rows, lastId, listener, note, losses>>

\* ... and the conversation, up to where that turn began.  The stream is opened.
ReadHistory ==
  /\ viewer.at = "history"
  /\ viewer' = [viewer EXCEPT !.at = "clear", !.woken = FALSE, !.seen =
                  {e \in history : viewer.run = 0 \/ e.run < viewer.run}]
  /\ UNCHANGED <<turn, active, history, rows, lastId, listener, note, losses>>

\* The read fails: the client streams from the start, on what it showed before.
FailRead ==
  /\ viewer.at \in Reading /\ losses < Losses
  /\ losses' = losses + 1
  /\ viewer' = [viewer EXCEPT !.at = "clear", !.cursor = 0, !.woken = FALSE, !.slipped = FALSE]
  /\ UNCHANGED <<turn, active, history, rows, lastId, listener, note>>

\* stream_events: the wake is cleared before the read.
ClearWake ==
  /\ viewer.at = "clear"
  /\ viewer' = [viewer EXCEPT !.at = "look", !.woken = FALSE]
  /\ UNCHANGED <<turn, active, history, rows, lastId, listener, note, losses>>

Unread == {r \in rows : r.id > viewer.cursor}

Look ==
  /\ viewer.at = "look" /\ Unread = {}
  /\ viewer' = [viewer EXCEPT !.at = "ask"]
  /\ UNCHANGED <<turn, active, history, rows, lastId, listener, note, losses>>

\* Mutant: the wake is cleared after the read.
ClearAndSleep ==
  /\ viewer.at = "ask"
  /\ viewer' = [viewer EXCEPT !.at = "wait", !.woken = FALSE]
  /\ UNCHANGED <<turn, active, history, rows, lastId, listener, note, losses>>

\* There was nothing, and the viewer, asked after, is still there.
Sleep ==
  /\ viewer.at = "ask"
  /\ viewer' = [viewer EXCEPT !.at = "wait"]
  /\ UNCHANGED <<turn, active, history, rows, lastId, listener, note, losses>>

\* The rows are sent in order; a turn's last event ends the stream, and the
\* client reads the history again.
Receive ==
  /\ viewer.at = "look" /\ Unread # {}
  /\ LET upTo == {r \in Unread : ~\E s \in Unread : IsLast(s.event) /\ s.id < r.id}
         ended == \E r \in upTo : IsLast(r.event)
     IN \E newest \in upTo :
          /\ \A r \in upTo : r.id <= newest.id
          /\ viewer' = [viewer EXCEPT !.at = IF ended THEN "row" ELSE "clear",
                          !.cursor = newest.id, !.seen = @ \cup {r.event : r \in upTo}]
  /\ UNCHANGED <<turn, active, history, rows, lastId, listener, note, losses>>

Wake ==
  /\ viewer.at = "wait" /\ viewer.woken
  /\ viewer' = [viewer EXCEPT !.at = "clear"]
  /\ UNCHANGED <<turn, active, history, rows, lastId, listener, note, losses>>

\* The viewer's connection breaks; the client subscribes again.
BreakStream ==
  /\ viewer.at \in Following /\ losses < Losses
  /\ losses' = losses + 1
  /\ viewer' = [viewer EXCEPT !.at = "row", !.woken = FALSE]
  /\ UNCHANGED <<turn, active, history, rows, lastId, listener, note>>

Watch ==
  \/ ReadRow \/ ReadFirst \/ ReadNewest \/ ReadHistory \/ FailRead
  \/ ClearWake \/ Look \/ Sleep \/ Receive \/ Wake \/ BreakStream

StreamNext ==
  \/ (\E near \in BOOLEAN : MarkRun(near)) \/ DropPrevious \/ Persist \/ AppendRows \/ Tell \/ EndTurn
  \/ CutShort
  \/ Listen \/ Announce \/ Notified \/ LoseConnection \/ NoticeLoss
  \/ Watch

StreamSpec == StreamInit /\ [][StreamNext]_streamVars

-----------------------------------------------------------------------------
(* Properties. *)

StreamTypeOK ==
  /\ turn \in [at : {"off", "marked", "agent", "flush", "tell"}, run : 0..Turns,
               near : BOOLEAN, wrote : 0..Length]
  /\ active \in 0..Turns
  /\ history \subseteq Event
  /\ rows \subseteq [id : Nat, event : Event]
  /\ lastId \in Nat
  /\ listener \in [at : {"none", "down", "joined", "up"}, linked : BOOLEAN]
  /\ note \in BOOLEAN
  /\ viewer \in [at : Reading \cup Following, run : 0..Turns, cursor : Nat,
                 seen : SUBSET Event, woken : BOOLEAN, slipped : BOOLEAN]
  /\ losses \in Nat

\* Nothing is about to wake a waiting viewer: neither the writer, nor a NOTIFY, nor
\* a listener that has yet to come up.
Undisturbed ==
  /\ viewer.at = "wait" /\ ~viewer.woken
  /\ turn.at # "tell" /\ ~note
  /\ listener.at = "none" \/ (listener.at = "up" /\ listener.linked)

\* A viewer never sleeps on events written since it looked, although writer and
\* listener hand over who wakes it (stream_events: "one that arrives mid-read is
\* not lost").
NoMissedWake == Undisturbed => Unread = {}

\* Between turns a viewer at rest has seen every turn there was ("its stream ends with
\* the turn, after which it re-reads the history").
StreamEndsWithTurn ==
  Undisturbed /\ turn.at = "off" /\ active = 0 /\ ~viewer.slipped => history \subseteq viewer.seen

\* The latest turn wrote the event that ends the stream.
LastWritten == turn.run = 0 \/ turn.wrote = Length

\* So it is once a turn wrote its last event, from the history or from the stream,
\* whatever earlier turns were cancelled or cut short and whatever broke as the viewer
\* read the two.
QuietIsCurrent == LastWritten => StreamEndsWithTurn

=============================================================================
