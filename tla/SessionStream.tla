----------------------------- MODULE SessionStream -----------------------------
(***************************************************************************)
(* The event stream of a session: EventPublisher with its replay ring, its *)
(* display fold and a subscriber's bounded queue (session/publisher.py),   *)
(* the snapshot a browser may ask for at any moment (runtime_manager.py,   *)
(* timeline.py, history_projection.py), the web socket that sends          *)
(* snapshots and events (web/websocket.py) and the browser that folds      *)
(* them (web/src/reducer.ts).                                              *)
(*                                                                         *)
(* The thread of the session runs turns: it publishes what it does and     *)
(* records it in the session, in two steps.  A transcript is a sequence of *)
(* items [turn, kind, part, size]; the size of a text is the number of its *)
(* pieces, the part counts the segments or the tool calls of the turn.  An *)
(* event carries the item it is about.                                     *)
(***************************************************************************)
EXTENDS Naturals, Sequences, SequencesExt

CONSTANTS
  MaxEvents,   \* max_events: the length of the replay ring
  QueueMax,    \* subscriber_queue_max
  MaxSeq,      \* bound on the events of all streams
  MaxTurns,    \* bound on turns
  MaxDrops     \* bound on lost connections and restarts of the server

SessionStreamAssumption ==
  /\ {MaxEvents, QueueMax, MaxSeq, MaxTurns} \subseteq Nat \ {0}
  /\ MaxDrops \in Nat

VARIABLES
  stream,    \* stream_id: one per process, the number of events before it and of restarts
  log,       \* the events published on the stream; _events is its tail
  root,      \* DisplayFold.root, with the index it was started at
  ended,     \* published_turns and published_runs
  records,   \* message_records
  work,      \* the session's thread: its turn, where it stands, what it has shown
  lost,      \* history: items that were shown and that no record keeps
  base,      \* history: what was on record when this process started
  inbox,     \* the subscriber's queue
  stale,     \* the subscriber is in _stale
  server,    \* send_events: where it stands
  last_sent,
  held,      \* the event send_events has taken from the queue
  browser,   \* ViewState, with its connection and the cursor it connects with
  drops

publisherVars == <<stream, log, root, ended, inbox, stale>>
vars == <<publisherVars, records, work, lost, base, server, last_sent, held, browser, drops>>

NoTurn == 0
Kinds  == {"user", "text", "tool"}
Item   == [turn : 1..MaxTurns, kind : Kinds, part : Nat, size : Nat]

Larger(m, n) == IF m > n THEN m ELSE n

\* The first event of the ring.
Oldest == IF Len(log) > MaxEvents THEN Len(log) - MaxEvents + 1 ELSE 1

User(t)   == [turn |-> t, kind |-> "user", part |-> 0, size |-> 0]
Text(t, part, size) == [turn |-> t, kind |-> "text", part |-> part, size |-> size]
Tool(t, k) == [turn |-> t, kind |-> "tool", part |-> k, size |-> 0]

SameItem(x, y) == x.turn = y.turn /\ x.kind = y.kind /\ x.part = y.part
Has(items, x)  == \E i \in DOMAIN items : SameItem(items[i], x)
Put(items, x)  ==
  IF Has(items, x)
  THEN [i \in DOMAIN items |-> IF SameItem(items[i], x) THEN x ELSE items[i]]
  ELSE Append(items, x)

-----------------------------------------------------------------------------
(* Folding an event: DisplayFold.apply and _fold_timeline on the server,   *)
(* applyEvent in the browser.  A view is what is shown of one transcript:  *)
(* the live turn, its segment and the items.                               *)

\* A boundary closes the segment that has begun.
Closed(view) ==
  IF view.active # NoTurn /\ Has(view.items, Text(view.active, view.segment, 0))
  THEN [view EXCEPT !.segment = @ + 1] ELSE view

\* A piece lengthens the text of the open segment.
Lengthened(view) ==
  LET text  == Text(view.active, view.segment, 0)
      old   == SelectSeq(view.items, LAMBDA x : SameItem(x, text))
      size  == IF old = <<>> THEN 0 ELSE old[1].size
  IN [view EXCEPT !.items = Put(@, [text EXCEPT !.size = size + 1])]

Folded(view, event) ==
  CASE event.type = "started" ->
         [view EXCEPT !.active = event.turn, !.segment = 0,
                      !.items = Append(@, User(event.turn))]
    [] event.type = "model_turn" -> Closed(view)
    [] event.type = "delta" /\ view.active # NoTurn -> Lengthened(view)
    [] event.type = "tool" /\ view.active # NoTurn ->
         LET next == Closed(view) IN
         [next EXCEPT !.items = Put(@, Tool(view.active, event.part))]
    [] event.type = "ended" -> [view EXCEPT !.active = NoTurn, !.segment = 0,
                                            !.history = @ \cup {event.turn}]
    [] OTHER -> view

Empty == [active |-> NoTurn, segment |-> 0, items |-> <<>>, history |-> {}]

\* The server keeps the live turn only; its start is the number of records then.
FoldedRoot(event) ==
  CASE event.type = "ended" -> [view |-> Empty, start |-> 0]
    [] event.type = "started" -> [view |-> Folded(Empty, event), start |-> Len(records)]
    [] OTHER -> [root EXCEPT !.view = Folded(@, event)]

-----------------------------------------------------------------------------
(* Publishing: one locked section                                          *)

Subscribed == server # "off"

\* Mutant of Delivered: an overflowing queue loses the event and nobody is told.
DeliveredSilently(seq) ==
  IF Subscribed /\ Len(inbox) < QueueMax
  THEN inbox' = Append(inbox, seq) /\ UNCHANGED stale
  ELSE UNCHANGED <<inbox, stale>>

\* put_nowait, or the subscriber turns stale and its queue is drained.
Delivered(seq) ==
  CASE ~Subscribed -> UNCHANGED <<inbox, stale>>
    [] Subscribed /\ Len(inbox) < QueueMax -> inbox' = Append(inbox, seq) /\ UNCHANGED stale
    [] OTHER -> inbox' = <<>> /\ stale' = TRUE

Publish(type, turn, part) ==
  LET event == [type |-> type, turn |-> turn, part |-> part] IN
  /\ stream + Len(log) < MaxSeq
  /\ log' = Append(log, event)
  /\ root' = FoldedRoot(event)
  /\ ended' = IF type = "ended" THEN ended \cup {turn} ELSE ended
  /\ Delivered(Len(log) + 1)
  /\ UNCHANGED stream

-----------------------------------------------------------------------------
(* The session's thread                                                    *)

serverVars == <<server, last_sent, held, browser, drops>>

\* process_session_event: turn.started, before the agent records anything.
BeginTurn ==
  /\ work.at = "idle" /\ work.turn < MaxTurns
  /\ LET t == work.turn + 1 IN
     /\ work' = [turn |-> t, at |-> "begun", pieces |-> 0, part |-> 0, calls |-> 0]
     /\ Publish("started", t, 0)
  /\ UNCHANGED <<records, lost, base, serverVars>>

RecordUser ==
  /\ work.at = "begun"
  /\ records' = Append(records, User(work.turn))
  /\ work' = [work EXCEPT !.at = "ready"]
  /\ UNCHANGED <<publisherVars, lost, base, serverVars>>

\* on_turn_begin, and the model is asked.
BeginModelTurn ==
  /\ work.at = "ready"
  /\ Publish("model_turn", work.turn, 0)
  /\ work' = [work EXCEPT !.at = "model", !.pieces = 0]
  /\ UNCHANGED <<records, lost, base, serverVars>>

Delta ==
  /\ work.at = "model"
  /\ Publish("delta", work.turn, 0)
  /\ work' = [work EXCEPT !.pieces = @ + 1]
  /\ UNCHANGED <<records, lost, base, serverVars>>

Spoken == IF work.pieces = 0 THEN <<>> ELSE <<Text(work.turn, work.part, work.pieces)>>

\* record_assistant_turn; with a tool call the turn goes on, without one, or
\* cancelled while the model answered, it is over.
RecordAnswer(calls) ==
  /\ work.at = "model"
  /\ records' = records \o Spoken
                  \o IF calls THEN <<Tool(work.turn, work.calls + 1)>> ELSE <<>>
  /\ work' = [work EXCEPT !.at = IF calls THEN "tool" ELSE "over",
                          !.part = @ + Len(Spoken),
                          !.calls = IF calls THEN @ + 1 ELSE @]
  /\ UNCHANGED <<publisherVars, lost, base, serverVars>>

\* The tool's events; its result belongs to the item.
RunTool ==
  /\ work.at = "tool"
  /\ Publish("tool", work.turn, work.calls)
  /\ work' = [work EXCEPT !.at = "ready"]
  /\ UNCHANGED <<records, lost, base, serverVars>>

\* The model call fails: what it has said stays on the screens only.
ModelFails ==
  /\ work.at = "model"
  /\ lost' = lost \cup {[x EXCEPT !.size = 0] : x \in {Spoken[i] : i \in DOMAIN Spoken}}
  /\ work' = [work EXCEPT !.at = "over"]
  /\ UNCHANGED <<publisherVars, records, base, serverVars>>

\* _publish_turn_terminal
EndTurn ==
  /\ work.at = "over"
  /\ Publish("ended", work.turn, 0)
  /\ work' = [work EXCEPT !.at = "idle"]
  /\ UNCHANGED <<records, lost, base, serverVars>>

-----------------------------------------------------------------------------
(* The snapshot: EventPublisher.capture                                    *)

\* Mutant of Timeline: the records of the live turn are kept beside its fold.
TimelineUncut == records \o root.view.items

\* project_timeline: the records up to the live turn, then its fold.
Timeline ==
  IF root.view.active = NoTurn THEN records
  ELSE SubSeq(records, 1, root.start) \o root.view.items

\* project_history: the turns whose end has been published.
Snapshot == [root.view EXCEPT !.items = Timeline, !.history = ended]

\* What a snapshot makes of the browser.
Refreshed == [browser EXCEPT !.stream = stream, !.seq = Len(log), !.view = Snapshot, !.gap = FALSE]

-----------------------------------------------------------------------------
(* The browser: applyEvent                                                 *)

\* Seen events are skipped, one after a gap asks for a snapshot.
Applied(b, seq) ==
  CASE b.gap \/ seq <= b.seq -> b
    [] ~b.gap /\ seq = b.seq + 1 -> [b EXCEPT !.seq = seq, !.view = Folded(@, log[seq])]
    [] OTHER -> [b EXCEPT !.gap = TRUE]

threadVars == <<records, work, lost, base>>

\* A snapshot is fetched, to connect with its cursor.
Fetch ==
  /\ browser.link = "none"
  /\ browser' = [Refreshed EXCEPT !.link = "fetched", !.asked = <<stream, Len(log)>>]
  /\ UNCHANGED <<publisherVars, threadVars, server, last_sent, held, drops>>

\* accept and subscribe
Subscribe ==
  /\ browser.link = "fetched"
  /\ browser' = [browser EXCEPT !.link = "up"]
  /\ server' = "opening"
  /\ UNCHANGED <<publisherVars, threadVars, last_sent, held, drops>>

-----------------------------------------------------------------------------
(* The web socket                                                          *)

\* replay: what follows seq is all retained.
Replayable(id, seq) ==
  id = stream /\ seq <= Len(log) /\ (seq = Len(log) \/ seq + 1 >= Oldest)

\* The retained events after seq.
Retained(seq) == [i \in 1..(Len(log) - Larger(seq + 1, Oldest) + 1) |-> Larger(seq + 1, Oldest) + i - 1]

\* opening_frames with a replay
OpenReplay ==
  /\ server = "opening" /\ Replayable(browser.asked[1], browser.asked[2])
  /\ browser' = FoldLeft(Applied, browser, Retained(browser.asked[2]))
  /\ last_sent' = Len(log) /\ server' = "loop"
  /\ UNCHANGED <<publisherVars, threadVars, held, drops>>

\* opening_frames without one
OpenSnapshot ==
  /\ server = "opening" /\ ~Replayable(browser.asked[1], browser.asked[2])
  /\ server' = "snapshot"
  /\ UNCHANGED <<publisherVars, threadVars, last_sent, held, browser, drops>>

\* send_snapshot
SendSnapshot ==
  /\ server = "snapshot"
  /\ browser' = Refreshed
  /\ last_sent' = Len(log) /\ server' = "loop"
  /\ UNCHANGED <<publisherVars, threadVars, held, drops>>

\* take_stale
TakeStale ==
  /\ server = "loop" /\ stale
  /\ stale' = FALSE /\ server' = "snapshot"
  /\ UNCHANGED <<stream, log, root, ended, inbox, threadVars, last_sent, held, browser, drops>>

\* take_stale was false: the queue is waited for, for half a second at most.
Look ==
  /\ server = "loop" /\ ~stale
  /\ server' = "waiting"
  /\ UNCHANGED <<publisherVars, threadVars, last_sent, held, browser, drops>>

GetNothing ==
  /\ server = "waiting" /\ inbox = <<>>
  /\ server' = "loop"
  /\ UNCHANGED <<publisherVars, threadVars, last_sent, held, browser, drops>>

GetEvent ==
  /\ server = "waiting" /\ inbox # <<>>
  /\ held' = Head(inbox) /\ inbox' = Tail(inbox) /\ server' = "sending"
  /\ UNCHANGED <<stream, log, root, ended, stale, threadVars, last_sent, browser, drops>>

\* An old event is skipped, the next one sent, a gap closed by a snapshot.
SendEvent ==
  /\ server = "sending"
  /\ held' = 0
  /\ IF held = last_sent + 1
     THEN browser' = Applied(browser, held) /\ last_sent' = held
     ELSE UNCHANGED <<browser, last_sent>>
  /\ server' = IF held > last_sent + 1 THEN "snapshot" ELSE "loop"
  /\ UNCHANGED <<publisherVars, threadVars, drops>>

\* The connection is lost: the server unsubscribes, the browser fetches a
\* snapshot, or when that fails connects again with the cursor it had.
Drop(link) ==
  /\ server # "off" /\ drops < MaxDrops
  /\ drops' = drops + 1
  /\ server' = "off" /\ inbox' = <<>> /\ stale' = FALSE /\ held' = 0 /\ last_sent' = 0
  /\ browser' = [browser EXCEPT !.link = link]
  /\ UNCHANGED <<stream, log, root, ended, threadVars>>

\* The server is started again on what it had recorded, with a new stream.
Restart ==
  /\ drops < MaxDrops /\ stream + Len(log) < MaxSeq
  /\ drops' = drops + 1
  /\ stream' = stream + Len(log) + 1
  /\ log' = <<>> /\ root' = [view |-> Empty, start |-> 0]
  /\ base' = records /\ lost' = {}
  /\ ended' = {records[i].turn : i \in DOMAIN records}
  /\ work' = [work EXCEPT !.at = "idle"]
  /\ inbox' = <<>> /\ stale' = FALSE /\ server' = "off" /\ held' = 0 /\ last_sent' = 0
  /\ \E link \in {"none", "fetched"} :
       browser' = [browser EXCEPT !.link = IF @ = "up" THEN link ELSE @]
  /\ UNCHANGED records

-----------------------------------------------------------------------------
Init ==
  /\ stream = 0 /\ log = <<>> /\ root = [view |-> Empty, start |-> 0] /\ ended = {}
  /\ records = <<>> /\ lost = {} /\ base = <<>>
  /\ work = [turn |-> 0, at |-> "idle", pieces |-> 0, part |-> 0, calls |-> 0]
  /\ inbox = <<>> /\ stale = FALSE /\ server = "off" /\ last_sent = 0 /\ held = 0
  /\ browser = [link |-> "none", asked |-> <<0, 0>>, stream |-> 0, seq |-> 0,
                 view |-> Empty, gap |-> FALSE]
  /\ drops = 0

ThreadStep ==
  \/ BeginTurn \/ RecordUser \/ BeginModelTurn \/ Delta
  \/ \E calls \in BOOLEAN : RecordAnswer(calls)
  \/ RunTool \/ ModelFails \/ EndTurn

WebStep ==
  \/ Fetch \/ Subscribe
  \/ OpenReplay \/ OpenSnapshot \/ SendSnapshot
  \/ TakeStale \/ Look \/ GetNothing \/ GetEvent \/ SendEvent

Next ==
  \/ ThreadStep
  \/ WebStep
  \/ \E link \in {"none", "fetched"} : Drop(link)
  \/ Restart

\* The web server and the browser go on.
Spec == Init /\ [][Next]_vars /\ WF_vars(WebStep)

-----------------------------------------------------------------------------
(* Properties                                                              *)

TypeOK ==
  /\ stream + Len(log) \in 0..MaxSeq
  /\ work.turn \in 0..MaxTurns
  /\ work.at \in {"idle", "begun", "ready", "model", "tool", "over"}
  /\ \A i \in DOMAIN records : records[i] \in Item
  /\ Len(inbox) <= QueueMax /\ stale \in BOOLEAN
  /\ server \in {"off", "opening", "snapshot", "loop", "waiting", "sending"}
  /\ {last_sent, held, browser.seq} \subseteq 0..MaxSeq
  /\ browser.link \in {"none", "fetched", "up"}
  /\ drops \in 0..MaxDrops

Kept(items) == SelectSeq(items, LAMBDA x : [x EXCEPT !.size = 0] \notin lost)

\* What a browser that was there from the start of the stream shows at seq.
Whole(seq) ==
  FoldLeft(Folded,
           [Empty EXCEPT !.items = base, !.history = {base[i].turn : i \in DOMAIN base}],
           SubSeq(log, 1, seq))

\* Whatever was lost, replayed or overflowed on the way, a browser shows
\* exactly what one that saw every event up to its cursor shows: no piece of a
\* text, no tool and no turn is missing or shown twice, the segments go on
\* where they were.  A text its failed model call left is let off.
ViewIsTrue ==
  browser.stream = stream =>
    /\ ~browser.gap
    /\ LET whole == Whole(browser.seq) IN
       /\ Kept(browser.view.items) = Kept(whole.items)
       /\ browser.view.active = whole.active
       /\ browser.view.segment = whole.segment
       /\ browser.view.history = whole.history

\* A session that falls silent leaves no browser behind: it is connected and
\* has every event, whatever overflowed or was lost before.
ClientCatchesUp ==
  []<>(browser.link = "up" /\ browser.stream = stream /\ browser.seq = Len(log))

=============================================================================
