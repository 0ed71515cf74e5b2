--------------------------- MODULE StreamJournal ---------------------------
(***************************************************************************)
(* The event journal of the bridge and its delivery to one phone:          *)
(* appendEventTx, readReplay, ackCursor and compactLegacyEvents of         *)
(* BridgeStore (core/store.ts), StreamService.sync (core/domain.ts),       *)
(* subscription.set and the live fan-out of server.ts, and the coordinator *)
(* with its OrderedEventReducer (sync/event_reducer.dart).                 *)
(*                                                                         *)
(* An event is its cursor.  A stream subscribed in summary detail carries  *)
(* only the events of the summary types.  The socket is FIFO and drops     *)
(* what is in flight when it closes.                                       *)
(***************************************************************************)
EXTENDS Naturals, Sequences, FiniteSets, SequencesExt

CONSTANTS
  StreamOrder,     \* the subscribed streams, in the order of the request
  HostStream,      \* the host stream, the first of them
  SummaryStream,   \* the streams subscribed in summary detail
  Peer,            \* the other installations that acknowledge cursors
  MaxEvents,       \* bound on the events of all streams
  MaxDisconnects,  \* bound on lost connections
  MaxAppRestarts,  \* bound on restarts of the app
  MaxReselects     \* bound on subscriptions repeated by the user

Stream == {StreamOrder[k] : k \in DOMAIN StreamOrder}
Phone  == "phone"

ASSUME JournalAssumption ==
  /\ StreamOrder \in Seq(Stream) /\ StreamOrder # <<>> /\ HostStream = StreamOrder[1]
  /\ SummaryStream \subseteq Stream \ {HostStream}
  /\ Phone \notin Peer
  /\ MaxEvents \in Nat /\ MaxDisconnects \in Nat
  /\ MaxAppRestarts \in Nat /\ MaxReselects \in Nat

VARIABLES
  current,    \* durable: current_cursor of each stream
  rows,       \* durable: the cursors in the events table
  summary,    \* durable: the cursors whose event type is a summary type
  floor,      \* durable: retention_floor
  acked,      \* durable: client_cursors of each installation
  valid,      \* durable: the installations whose credential is valid
  socket,     \* server: "closed", "open", "syncing" or "synchronized"
  answer,     \* server: the messages of the subscription being answered
  pending,    \* server: live events held back meanwhile
  requests,   \* in flight: subscriptions and acknowledgements
  frames,     \* in flight: snapshots, events and sync.complete
  view,       \* phone: lastContiguousCursor, and the cursor its events start after
  paused,     \* phone: the streams whose integrity is "conflict"
  force,      \* phone: _forceSnapshot
  syncing,    \* phone: _syncPending
  phase,      \* phone: "offline", "synchronizing" or "ready"
  unacked,    \* phone: events were applied since the last acknowledgement
  used

storeVars  == <<current, rows, summary, floor, acked, valid>>
serverVars == <<socket, answer, pending>>
phoneVars  == <<view, paused, force, syncing, phase, unacked>>
vars       == <<storeVars, serverVars, requests, frames, phoneVars, used>>

None == MaxEvents + 1     \* no cursor
Unknown  == [base |-> None, cursor |-> None]
Event(s, c)       == [type |-> "event", stream |-> s, cursor |-> c]
Snapshot(s, c)    == [type |-> "snapshot", stream |-> s, cursor |-> c]
Complete(s, c)    == [type |-> "complete", stream |-> s, cursor |-> c]

Installation == Peer \cup {Phone}

Produced == UNION {{s} \X (1 .. current[s]) : s \in Stream}

-----------------------------------------------------------------------------
(* The store.                                                              *)

\* The acknowledgements that count: rows of installations in good standing.
Acknowledged(s) == {acked[i][s] : i \in valid} \ {None}

\* How far a stream may be compacted: what every client has acknowledged,
\* within the stream; not at all when nobody has.
safeCursor(s) ==
  IF Acknowledged(s) = {} THEN 0
  ELSE CHOOSE c \in Acknowledged(s) \cup {current[s]} :
         \A a \in Acknowledged(s) \cup {current[s]} : c <= a

\* Mutant: rows are deleted, the floor stays.
compactWithoutFloor ==
  \E new \in [Stream -> 0..MaxEvents] :
    /\ \A s \in Stream : new[s] = floor[s] \/ new[s] \in floor[s]..safeCursor(s)
    /\ new # floor
    /\ rows' = [s \in Stream |-> {c \in rows[s] : c > new[s]}]
    /\ UNCHANGED <<current, summary, floor, acked, valid, serverVars, requests, frames, phoneVars, used>>

\* compactLegacyEvents: in one transaction, a prefix of each stream goes (how
\* much of it the row and byte budgets decide) and the floor rises to it.
compactLegacyEvents ==
  \E new \in [Stream -> 0..MaxEvents] :
    /\ \A s \in Stream : new[s] = floor[s] \/ new[s] \in floor[s]..safeCursor(s)
    /\ new # floor
    /\ floor' = new
    /\ rows' = [s \in Stream |-> {c \in rows[s] : c > new[s]}]
    /\ UNCHANGED <<current, summary, acked, valid, serverVars, requests, frames, phoneVars, used>>

\* What a subscription shows of a stream.
Shown(s, c) == s \in SummaryStream => c \in summary[s]

\* The cursors of a set, in order.
InOrder(cursors) ==
  CHOOSE q \in [1 .. Cardinality(cursors) -> cursors] :
    \A i, j \in DOMAIN q : i < j => q[i] < q[j]

\* The events with these cursors, in order, as far as the subscription shows them.
ShownEvents(s, cursors) ==
  LET q == InOrder({c \in cursors : Shown(s, c)}) IN [k \in DOMAIN q |-> Event(s, q[k])]

\* Mutants: the snapshot's baseline is one event early, or one late.
syncBehind(s, after) ==
  (IF after \in floor[s]..current[s]
   THEN ShownEvents(s, {c \in rows[s] : c > after})
   ELSE <<Snapshot(s, IF current[s] > 0 THEN current[s] - 1 ELSE 0)>>)
  \o <<Complete(s, current[s])>>

\* StreamService.sync, as runtime.subscribe words it: nothing or a replay when
\* the cursor lies between floor and current, a snapshot otherwise.
sync(s, after) ==
  (IF after \in floor[s]..current[s]
   THEN ShownEvents(s, {c \in rows[s] : c > after})
   ELSE <<Snapshot(s, current[s])>>)
  \o <<Complete(s, current[s])>>

-----------------------------------------------------------------------------
(* The server.                                                             *)

\* Mutant: events that arrive while a subscription is answered are dropped.
appendDroppingPending(s, isSummary) ==
  LET c == current[s] + 1 IN
  /\ Cardinality(Produced) < MaxEvents
  /\ current' = [current EXCEPT ![s] = c]
  /\ rows' = [rows EXCEPT ![s] = @ \cup {c}]
  /\ summary' = [summary EXCEPT ![s] = IF isSummary THEN @ \cup {c} ELSE @]
  /\ frames' = IF socket = "synchronized" /\ (s \in SummaryStream => isSummary)
               THEN Append(frames, Event(s, c)) ELSE frames
  /\ UNCHANGED <<floor, acked, valid, serverVars, requests, phoneVars, used>>

\* appendEventTx takes the next cursor; after the commit the event goes to the
\* socket, or waits while a subscription is being answered.
append(s, isSummary) ==
  LET c == current[s] + 1 IN
  /\ Cardinality(Produced) < MaxEvents
  /\ current' = [current EXCEPT ![s] = c]
  /\ rows' = [rows EXCEPT ![s] = @ \cup {c}]
  /\ summary' = [summary EXCEPT ![s] = IF isSummary THEN @ \cup {c} ELSE @]
  /\ pending' = IF socket = "syncing" THEN Append(pending, Event(s, c)) ELSE pending
  /\ frames' = IF socket = "synchronized" /\ (s \in SummaryStream => isSummary)
               THEN Append(frames, Event(s, c)) ELSE frames
  /\ UNCHANGED <<floor, acked, valid, socket, answer, requests, phoneVars, used>>

\* subscription.set: live events are held back and runtime.subscribe collects
\* the messages of every stream.
subscribe ==
  LET cursors == Head(requests).cursors IN
  /\ socket \in {"open", "synchronized"}
  /\ requests # <<>> /\ Head(requests).type = "subscribe"
  /\ requests' = Tail(requests)
  /\ answer' = FlattenSeq([k \in DOMAIN StreamOrder |-> sync(StreamOrder[k], cursors[StreamOrder[k]])])
  /\ pending' = <<>>
  /\ socket' = "syncing"
  /\ UNCHANGED <<storeVars, frames, phoneVars, used>>

\* What was held back, without what the answer holds, stream by stream and in
\* the order of the cursors.
Unsent(s) == {e.cursor : e \in {p \in ToSet(pending) \ ToSet(answer) : p.stream = s}}
HeldBack  == FlattenSeq([k \in DOMAIN StreamOrder |-> ShownEvents(StreamOrder[k], Unsent(StreamOrder[k]))])

\* The messages are sent, then what was held back; from now on live events go
\* out directly.
FinishSubscribe ==
  /\ socket = "syncing"
  /\ frames' = frames \o answer \o HeldBack
  /\ socket' = "synchronized"
  /\ answer' = <<>> /\ pending' = <<>>
  /\ UNCHANGED <<storeVars, requests, phoneVars, used>>

\* cursor.ack: the client's row is overwritten.
ackCursor ==
  /\ socket \in {"open", "synchronized"}
  /\ requests # <<>> /\ Head(requests).type = "ack"
  /\ requests' = Tail(requests)
  /\ acked' = [acked EXCEPT ![Phone] = Head(requests).cursors]
  /\ UNCHANGED <<current, rows, summary, floor, valid, serverVars, frames, phoneVars, used>>

\* Another phone, with no chat open, acknowledges what it has of the host
\* stream, or is revoked.
PeerAcks(i) ==
  /\ i \in valid
  /\ \E c \in 0..current[HostStream] : acked' = [acked EXCEPT ![i][HostStream] = c]
  /\ UNCHANGED <<current, rows, summary, floor, valid, serverVars, requests, frames, phoneVars, used>>
Revoke(i) ==
  /\ i \in valid
  /\ valid' = valid \ {i}
  /\ UNCHANGED <<current, rows, summary, floor, acked, serverVars, requests, frames, phoneVars, used>>

-----------------------------------------------------------------------------
(* The phone.                                                              *)

\* _subscribe: every stream is requested after its cursor, or from a snapshot.
RequestOf(v, forced) ==
  [type |-> "subscribe", cursors |-> [s \in Stream |-> IF s \in forced THEN None ELSE v[s].cursor]]
Subscribes(v, forced) ==
  /\ requests' = Append(requests, RequestOf(v, forced))
  /\ force' = {}
  /\ syncing' = Stream
  /\ phase' = "synchronizing"

\* hello.accepted, then _subscribe.
Connect ==
  /\ phase = "offline"
  /\ socket' = "open"
  /\ Subscribes(view, force)
  /\ UNCHANGED <<storeVars, answer, pending, frames, view, paused, unacked, used>>

\* Selecting a chat, or pushing the subscription set, subscribes once more.
Reselect ==
  /\ phase # "offline"
  /\ used.reselects < MaxReselects
  /\ used' = [used EXCEPT !.reselects = @ + 1]
  /\ Subscribes(view, force)
  /\ UNCHANGED <<storeVars, serverVars, frames, view, paused, unacked>>

\* _ackCursors, by the timer or after 20 events.
SendAck ==
  /\ phase = "ready" /\ unacked
  /\ unacked' = FALSE
  /\ requests' = Append(requests,
       [type |-> "ack", cursors |-> [s \in Stream |-> view[s].cursor]])
  /\ UNCHANGED <<storeVars, serverVars, frames, view, paused, force, syncing, phase, used>>

CloseSocket ==
  /\ socket' = "closed" /\ answer' = <<>> /\ pending' = <<>>
  /\ requests' = <<>> /\ frames' = <<>>
  /\ phase' = "offline"

Takes(f) == frames # <<>> /\ Head(frames).type = f /\ frames' = Tail(frames)

\* _snapshotEnd: the stream starts over at the baseline.
SnapshotEnd ==
  LET f == Head(frames) IN
  /\ Takes("snapshot")
  /\ view' = [view EXCEPT ![f.stream] = [base |-> f.cursor, cursor |-> f.cursor]]
  /\ paused' = paused \ {f.stream}
  /\ UNCHANGED <<storeVars, serverVars, requests, force, syncing, phase, unacked, used>>

\* OrderedEventReducer.apply.
disposition(s, c) ==
  LET v == view[s]
      base == IF v = Unknown THEN 0 ELSE v.base
      last == IF v = Unknown THEN 0 ELSE v.cursor
  IN CASE c <= last /\ c > base -> "duplicate"
       [] c <= base -> "conflict"
       [] c > last /\ s \in paused -> "ignored"
       [] c > last + 1 /\ s \notin paused -> "gap"
       [] OTHER -> "applied"

\* _journalEvent: a contiguous event is persisted and applied; a gap asks for
\* a replay; a conflict pauses the stream and asks for a snapshot.
JournalEvent ==
  LET f == Head(frames)
      s == f.stream
      d == disposition(s, f.cursor)
  IN
  /\ Takes("event")
  /\ view' = IF d = "applied"
             THEN [view EXCEPT ![s] = [base |-> IF @ = Unknown THEN 0 ELSE @.base, cursor |-> f.cursor]]
             ELSE view
  /\ unacked' = (unacked \/ d = "applied")
  /\ paused' = IF d = "conflict" THEN paused \cup {s} ELSE paused
  /\ CASE d = "gap" -> Subscribes(view, force)
       [] d = "conflict" -> Subscribes(view, force \cup {s})
       [] OTHER -> UNCHANGED <<requests, force, syncing, phase>>
  /\ UNCHANGED <<storeVars, serverVars, used>>

\* _syncComplete: the phone is ready when every stream is; a stream that stayed
\* behind is a protocol failure, which closes the socket.
SyncComplete ==
  LET f == Head(frames)
      s == f.stream
      last == IF view[s] = Unknown THEN 0 ELSE view[s].cursor
  IN
  /\ Takes("complete")
  /\ s \in syncing => last >= f.cursor
  /\ syncing' = syncing \ {s}
  /\ phase' = IF s \in syncing /\ syncing' = {} THEN "ready" ELSE phase
  /\ UNCHANGED <<storeVars, serverVars, requests, view, paused, force, unacked, used>>
ProtocolFailure ==
  LET f == Head(frames)
      s == f.stream
      last == IF view[s] = Unknown THEN 0 ELSE view[s].cursor
  IN
  /\ frames # <<>> /\ f.type = "complete"
  /\ s \in syncing /\ last < f.cursor
  /\ CloseSocket
  /\ UNCHANGED <<storeVars, view, paused, force, syncing, unacked, used>>

\* The connection is lost, or the bridge crashes: its store is durable.
Disconnect ==
  /\ phase # "offline"
  /\ used.disconnects < MaxDisconnects
  /\ used' = [used EXCEPT !.disconnects = @ + 1]
  /\ CloseSocket
  /\ UNCHANGED <<storeVars, view, paused, force, syncing, unacked>>

\* The app is killed.  Cursors are durable; of a session stream the restored
\* view holds no events (_loadCachedStreams).
AppRestart ==
  /\ used.restarts < MaxAppRestarts
  /\ used' = [used EXCEPT !.restarts = @ + 1]
  /\ CloseSocket
  /\ view' = [s \in Stream |->
       IF s = HostStream THEN view[s] ELSE [view[s] EXCEPT !.base = view[s].cursor]]
  /\ paused' = {} /\ force' = {} /\ syncing' = {} /\ unacked' = FALSE
  /\ UNCHANGED storeVars

-----------------------------------------------------------------------------
Init ==
  /\ current = [s \in Stream |-> 0] /\ rows = [s \in Stream |-> {}]
  /\ summary = [s \in Stream |-> {}] /\ floor = [s \in Stream |-> 0]
  /\ acked = [i \in Installation |-> [s \in Stream |-> None]]
  /\ valid = Installation
  /\ socket = "closed" /\ answer = <<>> /\ pending = <<>>
  /\ requests = <<>> /\ frames = <<>>
  /\ view = [s \in Stream |-> Unknown]
  /\ paused = {} /\ force = {} /\ syncing = {} /\ phase = "offline" /\ unacked = FALSE
  /\ used = [disconnects |-> 0, restarts |-> 0, reselects |-> 0]

\* The type of an event only matters in a summary stream.
Produce == \E s \in Stream, isSummary \in BOOLEAN :
             (s \in SummaryStream \/ isSummary) /\ append(s, isSummary)

Deliver == SnapshotEnd \/ JournalEvent \/ SyncComplete \/ ProtocolFailure
Serve   == subscribe \/ FinishSubscribe \/ ackCursor

Next ==
  \/ Produce
  \/ Serve
  \/ compactLegacyEvents
  \/ \E i \in Peer : PeerAcks(i) \/ Revoke(i)
  \/ Deliver
  \/ Connect
  \/ Reselect
  \/ SendAck
  \/ Disconnect
  \/ AppRestart

Spec == Init /\ [][Next]_vars

\* The server answers, the phone handles frames and reconnects by itself.
FairSpec == Spec /\ WF_vars(Serve) /\ WF_vars(Deliver) /\ WF_vars(Connect)

-----------------------------------------------------------------------------
(* Properties.                                                             *)

\* The journal holds exactly the events above the retention floor, so every
\* replay the bridge grants is complete, whatever was compacted.
JournalIsWhole == \A s \in Stream : rows[s] = (floor[s] + 1)..current[s]

\* On a stream in full detail the phone never meets a gap, across reconnects,
\* repeated subscriptions and events racing the answer to one.  (A conflict it
\* can meet: a replay asked for before a racing snapshot arrived repeats events
\* from below the baseline, and the phone then asks for one more snapshot.)
NoGapInFullDetail ==
  \A s \in Stream \ SummaryStream :
    frames # <<>> /\ Head(frames).type = "event" /\ Head(frames).stream = s
      => disposition(s, Head(frames).cursor) # "gap"

\* A phone that says it is ready, with nothing on its way to it, has every event
\* of the streams in full detail, whatever raced its subscriptions.  (Except of
\* a stream that is paused and waits for a snapshot.)
ReadyMeansCurrent ==
  phase = "ready" /\ socket = "synchronized" /\ frames = <<>> =>
    \A s \in Stream \ (SummaryStream \cup paused) : view[s].cursor = current[s]

\* The phone ends up current in every stream in full detail once events and
\* disconnects stop, whatever happened before, and ready when no other stream
\* stalls it.  (Unless a conflict whose snapshot was not asked for left a stream
\* paused.)
SettlesCurrent ==
  \/ <>[](/\ \A s \in Stream \ SummaryStream : view[s].cursor = current[s]
          /\ SummaryStream = {} => phase = "ready")
  \/ <>[](paused # {})
=============================================================================
