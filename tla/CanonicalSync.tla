--------------------------- MODULE CanonicalSync ---------------------------
(***************************************************************************)
(* Canonical session events, from the host's durable log to the phone's    *)
(* transcript, for one session and one phone:                              *)
(*                                                                         *)
(*   CanonicalSessionStore.append          the log (one sequence/session)  *)
(*   CanonicalEventTransport               replay pages, live buffering    *)
(*   server.ts                             socket fan-out registration     *)
(*   connection_coordinator.dart           subscribe, page, resubscribe    *)
(*   CanonicalSessionManager, SessionEventSynchronizer,                    *)
(*   CanonicalEventRepository              durable cache and projection    *)
(*                                                                         *)
(* The WebSocket is FIFO in both directions and loses everything in flight *)
(* when it closes.  A bridge crash is a disconnect: of the bridge's state  *)
(* only the log is durable.  The phone keeps its cache across an app       *)
(* restart, and its projection across a reconnect.                         *)
(***************************************************************************)
EXTENDS Naturals, Sequences, FiniteSets

CONSTANTS
  Event,           \* event identities (source event ids)
  Batch,           \* replayBatchSize: most events of a replay page
  PendingLimit,    \* pendingLimit: most buffered live events
  CacheReadLimit,  \* cap of CanonicalEventRepository.readAfter
  MaxDisconnects,  \* bound on closed connections (bridge crashes included)
  MaxAppRestarts,  \* bound on restarts of the app
  MaxReselects,    \* bound on selections of the already subscribed chat
  MaxRefusals      \* bound on requests refused by the control-rate limit

ASSUME LimitAssumption ==
  /\ Batch \in Nat \ {0} /\ PendingLimit \in Nat \ {0} /\ CacheReadLimit \in Nat \ {0}
  /\ MaxDisconnects \in Nat /\ MaxAppRestarts \in Nat
  /\ MaxReselects \in Nat /\ MaxRefusals \in Nat

VARIABLES
  log,         \* host, durable: canonical_session_events, by sequence
  sub,         \* host: the transport's subscription of this connection
  fanout,      \* host: the socket's canonicalSubscriptions holds the session
  connected,   \* the WebSocket is open and past hello
  requests,    \* in flight: afterSequence of session.events.subscribe
  frames,      \* in flight: replay results, live events and errors
  cache,       \* phone, durable: sequence -> event
  bound,       \* phone: the manager has a binding for the session
  transcript,  \* phone: the events the projection has applied, in order
  ingest,      \* phone: the frame being ingested, with what is left of it
  used         \* how much of each bound is spent

hostVars  == <<log, sub, fanout>>
netVars   == <<connected, requests, frames>>
phoneVars == <<cache, bound, transcript, ingest>>
vars      == <<hostVars, netVars, phoneVars, used>>


Page(events, complete) == [type |-> "page", events |-> events, complete |-> complete]
Live(record) == [type |-> "live", events |-> <<record>>, complete |-> FALSE]
Error == [type |-> "error", events |-> <<>>, complete |-> FALSE]

NoSub == [active |-> FALSE, lastApplied |-> 0, replaying |-> FALSE, pending |-> <<>>]
Idle  == [type |-> "none", events |-> <<>>, complete |-> FALSE, trouble |-> FALSE]

Least(m, n) == IF m < n THEN m ELSE n

-----------------------------------------------------------------------------
(* The host.                                                               *)

RecordAt(n) == [seq |-> n, id |-> log[n]]

\* readAfter: the next records of the log, at most `limit`.
readAfter(after, limit) ==
  [k \in 1..(Least(after + limit, Len(log)) - Least(after, Len(log))) |-> RecordAt(after + k)]

\* deliverLive: buffer during a replay (dropping the oldest at the limit),
\* otherwise follow the sequence.
deliverLive(s, record) ==
  CASE ~s.active -> s
    [] s.active /\ s.replaying ->
         [s EXCEPT !.pending =
            Append(IF Len(@) >= PendingLimit THEN Tail(@) ELSE @, record)]
    [] OTHER ->
         [s EXCEPT !.lastApplied =
            IF record.seq <= @ THEN @
            ELSE IF record.seq = @ + 1 THEN record.seq ELSE record.seq - 1]

\* Mutant: live events go to the transport only.
appendUnforwarded(e) ==
  LET record == [seq |-> Len(log) + 1, id |-> e] IN
  /\ \A n \in DOMAIN log : log[n] # e
  /\ log' = Append(log, e)
  /\ sub' = deliverLive(sub, record)
  /\ UNCHANGED <<fanout, netVars, phoneVars, used>>

\* append: a source event already in the log is not inserted again; a new one
\* takes the next sequence and, after the commit, is pushed to the transport
\* and to the socket when it is registered.
append(e) ==
  LET record == [seq |-> Len(log) + 1, id |-> e] IN
  /\ \A n \in DOMAIN log : log[n] # e
  /\ log' = Append(log, e)
  /\ sub' = deliverLive(sub, record)
  /\ frames' = IF fanout THEN Append(frames, Live(record)) ELSE frames
  /\ UNCHANGED <<fanout, connected, requests, phoneVars, used>>

\* The subscription a request continues, or the fresh one it installs.
Continued(after) ==
  IF sub.replaying THEN sub
  ELSE [active |-> TRUE, lastApplied |-> after, replaying |-> TRUE, pending |-> <<>>]

\* The buffered records a page can still take: those beyond its cursor.  The
\* buffer is in the order of the commits.
Late(s, cursor) ==
  LET passed == {k \in DOMAIN s.pending : s.pending[k].seq <= cursor} IN
  SubSeq(s.pending, Cardinality(passed) + 1, Len(s.pending))

\* Nothing newer than the page is left, neither buffered nor in the log.
replayComplete(left, cursor) ==
  (\A k \in DOMAIN left : left[k].seq <= cursor) /\ cursor >= Len(log)

\* subscribe: one page after the requested cursor.  A request that does not
\* continue the replay in flight is refused.  `size` is where the byte bound
\* cut the page (at least one record); a short page also takes what was
\* buffered.  The replay is complete when nothing newer is left, and only then
\* does the server register the socket for live events.
subscribe(size) ==
  LET after  == Head(requests)
      s      == Continued(after)
      page   == readAfter(after, Batch)
      short  == size = Len(page) /\ size < Batch
      late   == IF short THEN Late(s, after + size) ELSE <<>>
      events == SubSeq(page, 1, size) \o late
      cursor == after + Len(events)
      left   == IF short THEN <<>> ELSE s.pending
      complete == replayComplete(left, cursor)
  IN
  /\ connected /\ requests # <<>>
  /\ requests' = Tail(requests)
  /\ IF sub.replaying /\ after # sub.lastApplied
     THEN /\ size = 0
          /\ frames' = Append(frames, Error)
          /\ UNCHANGED <<sub, fanout>>
     ELSE /\ size \in (IF page = <<>> THEN {0} ELSE 1..Len(page))
          /\ sub' = [s EXCEPT !.lastApplied = cursor, !.pending = left, !.replaying = ~complete]
          /\ fanout' = complete
          /\ frames' = Append(frames, Page(events, complete))
  /\ UNCHANGED <<log, connected, phoneVars, used>>

\* The token bucket is empty: the request is answered with rate_limited.
RefuseRequest ==
  /\ connected /\ requests # <<>>
  /\ used.refusals < MaxRefusals
  /\ used' = [used EXCEPT !.refusals = @ + 1]
  /\ requests' = Tail(requests)
  /\ frames' = Append(frames, Error)
  /\ UNCHANGED <<hostVars, connected, phoneVars>>

-----------------------------------------------------------------------------
(* The phone.                                                              *)

\* Mutant: off by one.
lastAppliedPlusOne == IF bound THEN Len(transcript) + 1 ELSE 0

lastAppliedSequence == IF bound THEN Len(transcript) ELSE 0

\* _subscribeCanonical: silently nothing while offline.
subscribeCanonical(cursor) ==
  requests' = IF connected THEN Append(requests, cursor) ELSE requests

\* hello.accepted on a new connection, then _subscribe.  Frames are handled one
\* after the other, so the previous connection's last frame is done.
Connect ==
  /\ ~connected /\ ingest = Idle
  /\ connected' = TRUE
  /\ requests' = <<lastAppliedSequence>>
  /\ UNCHANGED <<hostVars, frames, phoneVars, used>>

\* selectSession for a chat that is already subscribed subscribes once more.
Reselect ==
  /\ connected
  /\ used.reselects < MaxReselects
  /\ used' = [used EXCEPT !.reselects = @ + 1]
  /\ subscribeCanonical(lastAppliedSequence)
  /\ UNCHANGED <<hostVars, connected, frames, phoneVars>>

CloseSocket == connected' = FALSE /\ requests' = <<>> /\ frames' = <<>>
               /\ sub' = NoSub /\ fanout' = FALSE

\* The socket closes (network loss, slow consumer, bridge crash).  The frame in
\* ingestion is still finished.
Disconnect ==
  /\ connected
  /\ used.disconnects < MaxDisconnects
  /\ used' = [used EXCEPT !.disconnects = @ + 1]
  /\ CloseSocket
  /\ UNCHANGED <<log, phoneVars>>

\* Mutant: the cache does not survive the app.
AppRestartWithoutCache ==
  /\ used.restarts < MaxAppRestarts
  /\ used' = [used EXCEPT !.restarts = @ + 1]
  /\ CloseSocket
  /\ bound' = FALSE /\ transcript' = <<>> /\ ingest' = Idle /\ cache' = <<>>
  /\ UNCHANGED log

\* The app is killed, at any point of an ingestion.
AppRestart ==
  /\ used.restarts < MaxAppRestarts
  /\ used' = [used EXCEPT !.restarts = @ + 1]
  /\ CloseSocket
  /\ bound' = FALSE /\ transcript' = <<>> /\ ingest' = Idle
  /\ UNCHANGED <<log, cache>>

\* The n events a cold start finds in the cache, at most the read limit.
Cached == [n \in 1..Least(Cardinality(DOMAIN cache), CacheReadLimit) |-> cache[n]]

\* ensureSession: the first frame for the session binds it, rebuilding the
\* projection from the cache (replayFromCache).
ensureSession ==
  /\ bound' = TRUE
  /\ transcript' = IF bound THEN transcript ELSE Cached

\* Take the next frame off the socket.  Errors end nothing and retry nothing.
Receive ==
  /\ connected /\ frames # <<>> /\ ingest = Idle
  /\ frames' = Tail(frames)
  /\ IF Head(frames).type = "error"
     THEN UNCHANGED <<bound, transcript, ingest>>
     ELSE /\ ensureSession
          /\ ingest' = [type |-> Head(frames).type, events |-> Head(frames).events,
                        complete |-> Head(frames).complete, trouble |-> FALSE]
  /\ UNCHANGED <<hostVars, connected, requests, cache, used>>

Store(record) ==
  cache' = [n \in DOMAIN cache \cup {record.seq} |->
              IF n = record.seq THEN record.id ELSE cache[n]]

\* Mutant: an event that is already cached is applied once more.
acceptCachedAgain ==
  LET record == Head(ingest.events)
      next   == Len(transcript) + 1
      bad    == record.seq > next
  IN
  /\ ingest.events # <<>>
  /\ ingest' = [ingest EXCEPT !.events = Tail(@), !.trouble = @ \/ bad]
  /\ IF record.seq <= next THEN Store(record) ELSE UNCHANGED cache
  /\ transcript' = IF record.seq <= next THEN Append(transcript, record.id) ELSE transcript
  /\ UNCHANGED <<hostVars, netVars, bound, used>>

\* SessionEventSynchronizer.accept for the next event of the frame: a cached
\* sequence is a duplicate or a conflict; an event behind the projection is
\* cached; one beyond the next sequence is a gap; the next one is cached and
\* then applied.
accept ==
  LET record == Head(ingest.events)
      known  == record.seq \in DOMAIN cache
      next   == Len(transcript) + 1
      bad    == (known /\ cache[record.seq] # record.id) \/ (~known /\ record.seq > next)
  IN
  /\ ingest.events # <<>>
  /\ ingest' = [ingest EXCEPT !.events = Tail(@), !.trouble = @ \/ bad]
  /\ IF ~known /\ record.seq <= next THEN Store(record) ELSE UNCHANGED cache
  /\ transcript' = IF ~known /\ record.seq = next THEN Append(transcript, record.id) ELSE transcript
  /\ UNCHANGED <<hostVars, netVars, bound, used>>

\* The frame is done: an incomplete page asks for the next one, a live event
\* that met a gap or conflict asks for a replay.
FinishFrame ==
  /\ ingest.type # "none" /\ ingest.events = <<>>
  /\ ingest' = Idle
  /\ IF \/ ingest.type = "page" /\ ~ingest.complete
        \/ ingest.type = "live" /\ ingest.trouble
     THEN subscribeCanonical(lastAppliedSequence)
     ELSE UNCHANGED requests
  /\ UNCHANGED <<hostVars, connected, frames, cache, bound, transcript, used>>

-----------------------------------------------------------------------------
Init ==
  /\ log = <<>> /\ sub = NoSub /\ fanout = FALSE
  /\ connected = FALSE /\ requests = <<>> /\ frames = <<>>
  /\ cache = <<>> /\ bound = FALSE /\ transcript = <<>> /\ ingest = Idle
  /\ used = [disconnects |-> 0, restarts |-> 0, reselects |-> 0, refusals |-> 0]

Subscribe == \E size \in 0..Batch : subscribe(size)

Next ==
  \/ \E e \in Event : append(e)
  \/ Subscribe
  \/ RefuseRequest
  \/ Connect
  \/ Reselect
  \/ Disconnect
  \/ AppRestart
  \/ Receive
  \/ accept
  \/ FinishFrame

Spec == Init /\ [][Next]_vars

\* The server answers requests, the phone handles frames and reconnects by
\* itself; nothing is assumed of the session, the network or the user.
Fairness ==
  /\ WF_vars(Subscribe)
  /\ WF_vars(Connect)
  /\ WF_vars(Receive)
  /\ WF_vars(accept)
  /\ WF_vars(FinishFrame)

FairSpec == Spec /\ Fairness

-----------------------------------------------------------------------------
(* Properties.                                                             *)

\* What the phone shows is a prefix of the host's log, and so is what it keeps:
\* nothing out of order, skipped, repeated or never committed, whatever mix of
\* replay pages, live events, reconnects and restarts delivered it.
TranscriptIsPrefix ==
  /\ Len(transcript) <= Len(log) /\ transcript = SubSeq(log, 1, Len(transcript))
  /\ \A n \in DOMAIN cache : cache[n] = log[n]
  /\ DOMAIN cache = 1..Cardinality(DOMAIN cache)

\* No update is lost silently: a phone registered for live events that has
\* nothing left to receive, ingest or ask for shows the whole log.
QuietMeansCurrent ==
  fanout /\ requests = <<>> /\ frames = <<>> /\ ingest = Idle => transcript = log

\* Once connections last, the phone catches up with the log and stays there,
\* unless a request was refused, the chat was selected again or the app was
\* restarted on the way: none of the three is retried or completed.
Disturbed == used.refusals + used.reselects + used.restarts > 0
CatchesUp == <>[](transcript = log) \/ <>Disturbed

Replica == INSTANCE PrefixReplica WITH
             replica <- [n \in 1..Cardinality(DOMAIN cache) |-> cache[n]]

\* The phone's cache takes over the log one event at a time, in order.
ReplicaSafe == Replica!SafeSpec
=============================================================================
