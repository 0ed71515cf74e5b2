------------------------ MODULE CanonicalSyncProofs ------------------------
(***************************************************************************)
(* Theorems about CanonicalSync, for every set of events, every page and   *)
(* buffer size and any number of disconnects, restarts, reselections and   *)
(* refusals: what the phone keeps and shows is a prefix of the host's log, *)
(* its cache implements the abstract prefix replica, and a phone that has  *)
(* nothing left to receive has lost no update.                             *)
(***************************************************************************)
EXTENDS CanonicalSync, SequenceTheorems, FiniteSetTheorems, TLAPS

-----------------------------------------------------------------------------
(* What the phone has is a prefix of the log.                              *)

Record == [seq : Nat, id : Event]
Frame  == [type : {"page", "live", "error"}, events : Seq(Record), complete : BOOLEAN]

\* Types of what the argument speaks of.
HostOK ==
  /\ log \in Seq(Event)
  /\ sub \in [active : BOOLEAN, lastApplied : Nat, replaying : BOOLEAN, pending : Seq(Record)]
NetOK == requests \in Seq(Nat) /\ frames \in Seq(Frame)
PhoneOK ==
  /\ cache \in Seq(Event) /\ transcript \in Seq(Event)
  /\ ingest \in [type : {"none", "page", "live"}, events : Seq(Record),
                 complete : BOOLEAN, trouble : BOOLEAN]

\* Every record of the sequence is a record of the log l.
Committed(events, l) ==
  \A k \in 1..Len(events) :
    events[k].seq \in 1..Len(l) /\ events[k].id = l[events[k].seq]

\* Nothing was made up on the way: what is buffered, in flight or being
\* ingested was committed.
OnlyCommitted ==
  /\ Committed(sub.pending, log)
  /\ Committed(ingest.events, log)
  /\ \A i \in 1..Len(frames) : Committed(frames[i].events, log)

\* The projection is behind the cache, which is behind the log, and they agree.
Prefixes ==
  /\ Len(transcript) <= Len(cache) /\ Len(cache) <= Len(log)
  /\ \A n \in 1..Len(transcript) : transcript[n] = log[n]
  /\ \A n \in 1..Len(cache) : cache[n] = log[n]

PrefixInv == HostOK /\ NetOK /\ PhoneOK /\ OnlyCommitted /\ Prefixes

\* The initial states: nothing is logged, nothing is on its way.
LEMMA PrefixInit == Init => PrefixInv
<1> SUFFICES ASSUME Init PROVE PrefixInv
  OBVIOUS
<1>1. HostOK /\ NetOK /\ PhoneOK
  BY DEF Init, HostOK, NetOK, PhoneOK, NoSub, Idle
<1>2. OnlyCommitted /\ Prefixes
  BY DEF Init, OnlyCommitted, Prefixes, Committed, NoSub, Idle
<1> QED BY <1>1, <1>2 DEF PrefixInv

\* A sequence of n elements has n indexes.
LEMMA CountTo == ASSUME NEW n \in Nat PROVE Cardinality(1..n) = n
<1>1. ASSUME NEW a \in Int, NEW b \in Int
      PROVE  Cardinality(a..b) = IF a > b THEN 0 ELSE b - a + 1
  BY FS_Interval, Zenon
<1>2. 1 \in Int /\ n \in Int
  OBVIOUS
<1>3. Cardinality(1..n) = IF 1 > n THEN 0 ELSE n - 1 + 1
  BY <1>1, <1>2
<1> QED BY <1>3

\* What was committed stays committed when the log grows.
LEMMA CommittedStays ==
  ASSUME NEW l \in Seq(Event), NEW e \in Event, NEW events, Committed(events, l)
  PROVE  Committed(events, Append(l, e))
<1>1. /\ Len(Append(l, e)) = Len(l) + 1
      /\ \A n \in 1..Len(l) : Append(l, e)[n] = l[n]
  OBVIOUS
<1> QED BY <1>1 DEF Committed

\* What is left of a committed sequence is committed.
LEMMA CommittedTail ==
  ASSUME NEW events \in Seq(Record), events # <<>>, Committed(events, log)
  PROVE  /\ Tail(events) \in Seq(Record) /\ Committed(Tail(events), log)
         /\ Head(events) \in Record
         /\ Head(events).seq \in 1..Len(log) /\ Head(events).id = log[Head(events).seq]
<1>1. /\ Tail(events) \in Seq(Record) /\ Len(Tail(events)) = Len(events) - 1
      /\ \A k \in 1..Len(Tail(events)) : Tail(events)[k] = events[k + 1]
      /\ Head(events) = events[1] /\ Head(events) \in Record /\ Len(events) \in Nat \ {0}
  OBVIOUS
<1> QED BY <1>1 DEF Committed

\* A frame of committed records joins the ones in flight.
LEMMA OneMoreFrame ==
  ASSUME NEW l, NEW fs \in Seq(Frame), NEW f \in Frame,
         \A i \in 1..Len(fs) : Committed(fs[i].events, l), Committed(f.events, l)
  PROVE  /\ Append(fs, f) \in Seq(Frame)
         /\ \A i \in 1..Len(Append(fs, f)) : Committed(Append(fs, f)[i].events, l)
<1>1. /\ Append(fs, f) \in Seq(Frame) /\ Len(Append(fs, f)) = Len(fs) + 1 /\ Len(fs) \in Nat
      /\ \A i \in 1..Len(fs) : Append(fs, f)[i] = fs[i]
      /\ Append(fs, f)[Len(fs) + 1] = f
  OBVIOUS
<1> QED BY <1>1

-----------------------------------------------------------------------------
(* The host's steps.                                                       *)

\* A live record is buffered or followed; the buffer holds records only.
LEMMA DeliverLiveType ==
  ASSUME HostOK, NEW r \in Record
  PROVE  /\ deliverLive(sub, r) \in [active : BOOLEAN, lastApplied : Nat,
                                     replaying : BOOLEAN, pending : Seq(Record)]
         /\ \A k \in 1..Len(deliverLive(sub, r).pending) :
              \/ deliverLive(sub, r).pending[k] = r
              \/ \E j \in 1..Len(sub.pending) : deliverLive(sub, r).pending[k] = sub.pending[j]
<1> DEFINE S == [active : BOOLEAN, lastApplied : Nat, replaying : BOOLEAN, pending : Seq(Record)]
<1> DEFINE rest == IF Len(sub.pending) >= PendingLimit THEN Tail(sub.pending) ELSE sub.pending
<1>0. sub \in S /\ sub.pending \in Seq(Record)
  BY DEF HostOK
<1>1. CASE ~sub.active
  BY <1>0, <1>1 DEF deliverLive
<1>2. CASE sub.active /\ sub.replaying
  <2>1. deliverLive(sub, r) = [sub EXCEPT !.pending = Append(rest, r)]
    BY <1>2 DEF deliverLive
  <2>2. rest \in Seq(Record) /\ \A k \in 1..Len(rest) : \E j \in 1..Len(sub.pending) : rest[k] = sub.pending[j]
    <3>1. CASE Len(sub.pending) >= PendingLimit
      <4>1. sub.pending # <<>>
        BY <3>1, <1>0, LimitAssumption
      <4> QED BY <3>1, <4>1, <1>0, HeadTailProperties
    <3>2. CASE ~(Len(sub.pending) >= PendingLimit)
      BY <3>2, <1>0
    <3> QED BY <3>1, <3>2
  <2>3. Append(rest, r) \in Seq(Record) /\ Len(Append(rest, r)) = Len(rest) + 1
        /\ \A k \in 1..Len(rest) + 1 : Append(rest, r)[k] = IF k <= Len(rest) THEN rest[k] ELSE r
    BY <2>2
  <2>4. deliverLive(sub, r) \in S /\ deliverLive(sub, r).pending = Append(rest, r)
    BY <2>1, <2>3, <1>0
  <2> HIDE DEF rest
  <2> QED BY <2>2, <2>3, <2>4
<1>3. CASE sub.active /\ ~sub.replaying
  <2>1. \E n \in Nat : deliverLive(sub, r) = [sub EXCEPT !.lastApplied = n]
    <3>1. r.seq \in Nat /\ sub.lastApplied \in Nat
      BY <1>0 DEF Record
    <3>2. r.seq > sub.lastApplied => r.seq - 1 \in Nat
      BY <3>1
    <3> QED BY <1>3, <3>1, <3>2 DEF deliverLive
  <2> QED BY <2>1, <1>0
<1> QED BY <1>1, <1>2, <1>3

LEMMA AppendPrefix ==
  ASSUME PrefixInv, NEW e \in Event, append(e)
  PROVE  PrefixInv'
<1> DEFINE r == [seq |-> Len(log) + 1, id |-> e]
<1>0. /\ log' = Append(log, e) /\ sub' = deliverLive(sub, r)
      /\ frames' = IF fanout THEN Append(frames, Live(r)) ELSE frames
      /\ UNCHANGED <<requests, cache, transcript, ingest>>
  BY DEF append, phoneVars
<1>1. r \in Record /\ log' \in Seq(Event) /\ Len(log') = Len(log) + 1
      /\ (\A n \in 1..Len(log) : log'[n] = log[n]) /\ log'[Len(log) + 1] = e
  BY <1>0 DEF PrefixInv, HostOK, Record
<1>2. HostOK'
  BY <1>0, <1>1, DeliverLiveType DEF PrefixInv, HostOK
<1>3. Live(r) \in Frame /\ Live(r).events = <<r>>
  BY <1>1 DEF Live, Frame
<1>4. NetOK' /\ PhoneOK'
  BY <1>0, <1>3 DEF PrefixInv, NetOK, PhoneOK
<1>5. Committed(sub'.pending, log')
  <2>1. \A k \in 1..Len(sub'.pending) :
           sub'.pending[k] = r \/ \E j \in 1..Len(sub.pending) : sub'.pending[k] = sub.pending[j]
    BY <1>0, <1>1, DeliverLiveType DEF PrefixInv
  <2>2. Committed(sub.pending, log)
    BY DEF PrefixInv, OnlyCommitted
  <2>3. Len(log) \in Nat
    BY DEF PrefixInv, HostOK
  <2>4. r.seq = Len(log) + 1 /\ r.id = e
    OBVIOUS
  <2>5. ASSUME NEW k \in 1..Len(sub'.pending)
        PROVE  sub'.pending[k].seq \in 1..Len(log') /\ sub'.pending[k].id = log'[sub'.pending[k].seq]
    <3> HIDE DEF r
    <3>1. CASE sub'.pending[k] = r
      BY <3>1, <2>3, <2>4, <1>1
    <3>2. CASE \E j \in 1..Len(sub.pending) : sub'.pending[k] = sub.pending[j]
      <4>1. PICK j \in 1..Len(sub.pending) : sub'.pending[k] = sub.pending[j]
        BY <3>2
      <4>2. sub.pending[j].seq \in 1..Len(log) /\ sub.pending[j].id = log[sub.pending[j].seq]
        BY <2>2 DEF Committed
      <4> QED BY <4>1, <4>2, <2>3, <1>1
    <3> QED BY <3>1, <3>2, <2>1
  <2> QED BY <2>5 DEF Committed
<1>6. Committed(ingest'.events, log')
  BY <1>0, CommittedStays DEF PrefixInv, OnlyCommitted, HostOK
<1>7. \A i \in 1..Len(frames') : Committed(frames'[i].events, log')
  <2>1. \A i \in 1..Len(frames) : Committed(frames[i].events, log')
    BY <1>0, CommittedStays DEF PrefixInv, OnlyCommitted, HostOK
  <2>2. Committed(<<r>>, log')
    BY <1>1 DEF Committed, PrefixInv, HostOK
  <2>3. frames \in Seq(Frame)
    BY DEF PrefixInv, NetOK
  <2> HIDE DEF r
  <2>4. \A i \in 1..Len(Append(frames, Live(r))) : Committed(Append(frames, Live(r))[i].events, log')
    BY <1>3, <2>1, <2>2, <2>3, OneMoreFrame
  <2> QED BY <1>0, <2>1, <2>4
<1>8. Prefixes'
  BY <1>0, <1>1 DEF PrefixInv, Prefixes, PhoneOK, HostOK
<1> QED BY <1>2, <1>4, <1>5, <1>6, <1>7, <1>8 DEF PrefixInv, OnlyCommitted

\* A page holds the records after the cursor, up to the limit or the log's end.
LEMMA PageRecords ==
  ASSUME log \in Seq(Event), NEW after \in Nat, NEW limit \in Nat
  PROVE  /\ readAfter(after, limit) \in Seq(Record)
         /\ Len(readAfter(after, limit)) <= limit
         /\ Len(readAfter(after, limit)) > 0 => after + Len(readAfter(after, limit)) <= Len(log)
         /\ Len(readAfter(after, limit)) < limit => after + Len(readAfter(after, limit)) >= Len(log)
         /\ \A k \in 1..Len(readAfter(after, limit)) :
              readAfter(after, limit)[k] = [seq |-> after + k, id |-> log[after + k]]
<1> DEFINE n == Least(after + limit, Len(log)) - Least(after, Len(log))
<1>1. /\ n \in Nat /\ n <= limit /\ (n > 0 => after + n <= Len(log))
      /\ (n < limit => after + n >= Len(log))
  <2>0. Len(log) \in Nat
    OBVIOUS
  <2>1. CASE after + limit < Len(log)
    <3>1. n = limit
      BY <2>0, <2>1 DEF Least
    <3> QED BY <2>0, <2>1, <3>1
  <2>2. CASE ~(after + limit < Len(log)) /\ after < Len(log)
    <3>1. n = Len(log) - after
      BY <2>0, <2>2 DEF Least
    <3> QED BY <2>0, <2>2, <3>1
  <2>3. CASE ~(after < Len(log))
    <3>1. n = 0
      BY <2>0, <2>3 DEF Least
    <3> QED BY <2>0, <2>3, <3>1
  <2> QED BY <2>0, <2>1, <2>2, <2>3
<1>2. readAfter(after, limit) = [k \in 1..n |-> RecordAt(after + k)]
  BY DEF readAfter
<1> HIDE DEF n
<1>3. \A k \in 1..n : RecordAt(after + k) \in Record
  BY <1>1 DEF RecordAt, Record
<1>4. readAfter(after, limit) \in Seq(Record) /\ Len(readAfter(after, limit)) = n
  BY <1>1, <1>2, <1>3
<1> QED BY <1>1, <1>2, <1>4 DEF RecordAt

\* The cut of a page at the byte bound.
LEMMA PageCut ==
  ASSUME NEW page \in Seq(Record), NEW size \in 0..Len(page)
  PROVE  /\ SubSeq(page, 1, size) \in Seq(Record)
         /\ Len(SubSeq(page, 1, size)) = size
         /\ \A k \in 1..size : SubSeq(page, 1, size)[k] = page[k]
  BY SubSeqProperties

\* A short page has reached the log's end, and what is buffered is no newer.
LEMMA NothingLate ==
  ASSUME NEW s, NEW cursor \in Nat, log \in Seq(Event), s.pending \in Seq(Record),
         Committed(s.pending, log), cursor >= Len(log)
  PROVE  Late(s, cursor) = <<>>
<1> DEFINE passed == {k \in DOMAIN s.pending : s.pending[k].seq <= cursor}
<1>1. passed = 1..Len(s.pending)
  BY DEF Committed, Record
<1>2. Cardinality(passed) = Len(s.pending)
  <2>1. Len(s.pending) \in Nat
    OBVIOUS
  <2> QED BY <1>1, <2>1, CountTo
<1>3. Late(s, cursor) = SubSeq(s.pending, Len(s.pending) + 1, Len(s.pending))
  BY <1>2 DEF Late
<1> QED BY <1>3, SubSeqProperties

\* The subscription that answers a request has a buffer of committed records.
LEMMA ContinuedOK ==
  ASSUME PrefixInv, NEW after \in Nat
  PROVE  /\ Continued(after) \in [active : BOOLEAN, lastApplied : Nat,
                                  replaying : BOOLEAN, pending : Seq(Record)]
         /\ Committed(Continued(after).pending, log)
<1> DEFINE fresh == [active |-> TRUE, lastApplied |-> after, replaying |-> TRUE, pending |-> <<>>]
<1>1. CASE sub.replaying
  BY <1>1 DEF Continued, PrefixInv, HostOK, OnlyCommitted
<1>2. CASE ~sub.replaying
  <2>1. Continued(after) = fresh
    BY <1>2 DEF Continued
  <2>2. fresh.pending = <<>> /\ Committed(<<>>, log)
    BY DEF Committed
  <2> QED BY <2>1, <2>2
<1> QED BY <1>1, <1>2

\* What an answered request does: the page is a run of the log from the cursor
\* on, and the socket is registered when the page reaches the log's end.
Answered(after, size, events) ==
  /\ events \in Seq(Record) /\ Len(events) = size /\ size \in Nat
  /\ \A k \in 1..size : events[k] = [seq |-> after + k, id |-> log[after + k]]
  /\ size > 0 => after + size <= Len(log)
  /\ fanout' \in BOOLEAN
  /\ fanout' => after + size >= Len(log)
  /\ frames' = Append(frames, Page(events, fanout'))
  /\ sub' \in [active : BOOLEAN, lastApplied : Nat, replaying : BOOLEAN, pending : Seq(Record)]
  /\ Committed(sub'.pending, log)

\* A request is refused, or answered with a page.
LEMMA SubscribeCases ==
  ASSUME PrefixInv, NEW size \in 0..Batch, subscribe(size)
  PROVE  /\ requests # <<>> /\ requests' = Tail(requests) /\ connected
         /\ UNCHANGED <<log, connected, cache, bound, transcript, ingest>>
         /\ \/ frames' = Append(frames, Error) /\ UNCHANGED <<sub, fanout>>
            \/ \E events : Answered(Head(requests), size, events)
<1> DEFINE after  == Head(requests)
           s      == Continued(after)
           page   == readAfter(after, Batch)
           short  == size = Len(page) /\ size < Batch
           late   == IF short THEN Late(s, after + size) ELSE <<>>
           events == SubSeq(page, 1, size) \o late
           cursor == after + Len(events)
           left   == IF short THEN <<>> ELSE s.pending
           complete == replayComplete(left, cursor)
<1>1. /\ requests # <<>> /\ requests' = Tail(requests) /\ connected
      /\ UNCHANGED <<log, connected, cache, bound, transcript, ingest>>
  BY DEF subscribe, phoneVars
<1>2. CASE sub.replaying /\ after # sub.lastApplied
  BY <1>1, <1>2 DEF subscribe
<1>3. CASE ~(sub.replaying /\ after # sub.lastApplied)
  <2>1. /\ size \in (IF page = <<>> THEN {0} ELSE 1..Len(page))
        /\ sub' = [s EXCEPT !.lastApplied = cursor, !.pending = left, !.replaying = ~complete]
        /\ fanout' = complete
        /\ frames' = Append(frames, Page(events, complete))
    BY <1>3 DEF subscribe
  <2>2. after \in Nat /\ log \in Seq(Event) /\ Batch \in Nat
    BY <1>1, LimitAssumption DEF PrefixInv, HostOK, NetOK
  <2>3. /\ page \in Seq(Record) /\ Len(page) <= Batch
        /\ Len(page) > 0 => after + Len(page) <= Len(log)
        /\ Len(page) < Batch => after + Len(page) >= Len(log)
        /\ \A k \in 1..Len(page) : page[k] = [seq |-> after + k, id |-> log[after + k]]
    BY <2>2, PageRecords
  <2>4. /\ s \in [active : BOOLEAN, lastApplied : Nat, replaying : BOOLEAN, pending : Seq(Record)]
        /\ Committed(s.pending, log)
    BY <2>2, ContinuedOK
  <2> HIDE DEF page, s, after
  <2>5. size \in 0..Len(page)
    BY <2>1, <2>3
  <2>6. /\ SubSeq(page, 1, size) \in Seq(Record)
        /\ Len(SubSeq(page, 1, size)) = size
        /\ \A k \in 1..size : SubSeq(page, 1, size)[k] = page[k]
    BY <2>3, <2>5, PageCut
  <2>7. late = <<>>
    <3>1. CASE short
      <4>1. after + size \in Nat /\ after + size >= Len(log) /\ s.pending \in Seq(Record)
        BY <3>1, <2>2, <2>3, <2>4
      <4>2. Late(s, after + size) = <<>>
        BY <4>1, <2>2, <2>4, NothingLate
      <4> QED BY <3>1, <4>2
    <3>2. CASE ~short
      BY <3>2
    <3> QED BY <3>1, <3>2
  <2>8. events = SubSeq(page, 1, size)
    <3>1. SubSeq(page, 1, size) \o <<>> = SubSeq(page, 1, size)
      BY <2>6, ConcatEmptySeq
    <3> QED BY <2>7, <3>1
  <2>9. cursor = after + size /\ cursor \in Nat
    <3> HIDE DEF events
    <3>1. Len(events) = size /\ size \in Nat
      BY <2>5, <2>6, <2>8
    <3> QED BY <2>2, <3>1
  <2>10. left \in Seq(Record) /\ Committed(left, log)
    <3>1. Committed(<<>>, log)
      BY DEF Committed
    <3> QED BY <2>4, <3>1
  <2>11. complete \in BOOLEAN /\ (complete => after + size >= Len(log))
    BY <2>9 DEF replayComplete
  <2> HIDE DEF complete, left, cursor, late, events
  <2>12. /\ sub' \in [active : BOOLEAN, lastApplied : Nat, replaying : BOOLEAN, pending : Seq(Record)]
         /\ sub'.pending = left
    BY <2>1, <2>4, <2>9, <2>10, <2>11
  <2>13. /\ events \in Seq(Record) /\ Len(events) = size /\ size \in Nat
         /\ \A k \in 1..size : events[k] = [seq |-> after + k, id |-> log[after + k]]
    <3>1. Len(page) \in Nat /\ size \in Nat /\ size <= Len(page)
      BY <2>3, <2>5
    <3>2. \A k \in 1..size : k \in 1..Len(page)
      BY <3>1
    <3>3. \A k \in 1..size : page[k] = [seq |-> after + k, id |-> log[after + k]]
      BY <2>3, <3>2
    <3> QED BY <2>6, <2>8, <3>1, <3>3
  <2>14. size > 0 => after + size <= Len(log)
    <3>1. Len(page) \in Nat /\ size \in Nat /\ size <= Len(page) /\ Len(log) \in Nat
      BY <2>2, <2>3, <2>5
    <3> QED BY <2>2, <2>3, <3>1
  <2>15. Answered(after, size, events)
    BY <2>1, <2>10, <2>11, <2>12, <2>13, <2>14 DEF Answered
  <2> QED BY <1>1, <2>15 DEF after
<1> QED BY <1>2, <1>3

LEMMA SubscribePrefix ==
  ASSUME PrefixInv, NEW size \in 0..Batch, subscribe(size)
  PROVE  PrefixInv'
<1>0. /\ requests # <<>> /\ requests' = Tail(requests)
      /\ UNCHANGED <<log, connected, cache, bound, transcript, ingest>>
      /\ \/ frames' = Append(frames, Error) /\ UNCHANGED <<sub, fanout>>
         \/ \E events : Answered(Head(requests), size, events)
  BY SubscribeCases
<1>1. PhoneOK' /\ Prefixes' /\ Committed(ingest'.events, log') /\ log' = log /\ log \in Seq(Event)
  BY <1>0 DEF PrefixInv, PhoneOK, Prefixes, OnlyCommitted, HostOK
<1>2. requests' \in Seq(Nat) /\ Head(requests) \in Nat
  BY <1>0 DEF PrefixInv, NetOK
<1>3. frames \in Seq(Frame) /\ \A i \in 1..Len(frames) : Committed(frames[i].events, log)
  BY DEF PrefixInv, NetOK, OnlyCommitted
<1>4. CASE frames' = Append(frames, Error) /\ UNCHANGED <<sub, fanout>>
  <2>1. Error \in Frame /\ Committed(Error.events, log)
    BY DEF Error, Frame, Committed
  <2>2. frames' \in Seq(Frame) /\ \A i \in 1..Len(frames') : Committed(frames'[i].events, log)
    BY <1>3, <1>4, <2>1, OneMoreFrame
  <2> QED BY <1>0, <1>1, <1>2, <1>4, <2>2 DEF PrefixInv, HostOK, NetOK, OnlyCommitted
<1>5. CASE \E events : Answered(Head(requests), size, events)
  <2>1. PICK events : Answered(Head(requests), size, events)
    BY <1>5
  <2>2. Page(events, fanout') \in Frame /\ Page(events, fanout').events = events
    BY <2>1 DEF Answered, Page, Frame
  <2>3. Committed(events, log)
    <3>1. Len(log) \in Nat
      BY <1>1
    <3>2. ASSUME NEW k \in 1..Len(events)
          PROVE  events[k].seq \in 1..Len(log) /\ events[k].id = log[events[k].seq]
      <4>1. /\ events[k].seq = Head(requests) + k /\ events[k].id = log[Head(requests) + k]
            /\ size \in Nat /\ k \in 1..size /\ Head(requests) + size <= Len(log)
        BY <2>1, <3>2 DEF Answered
      <4> QED BY <4>1, <3>1, <1>2
    <3> QED BY <3>2 DEF Committed
  <2>4. frames' = Append(frames, Page(events, fanout'))
    BY <2>1 DEF Answered
  <2>5. frames' \in Seq(Frame) /\ \A i \in 1..Len(frames') : Committed(frames'[i].events, log)
    BY <1>3, <2>2, <2>3, <2>4, OneMoreFrame
  <2>6. HostOK' /\ Committed(sub'.pending, log')
    BY <1>1, <2>1 DEF HostOK, Answered
  <2> QED BY <1>1, <1>2, <2>5, <2>6 DEF PrefixInv, NetOK, OnlyCommitted
<1> QED BY <1>0, <1>4, <1>5

LEMMA RefuseRequestPrefix == PrefixInv /\ RefuseRequest => PrefixInv'
<1> SUFFICES ASSUME PrefixInv, RefuseRequest PROVE PrefixInv'
  OBVIOUS
<1>0. /\ requests # <<>> /\ requests' = Tail(requests) /\ frames' = Append(frames, Error)
      /\ UNCHANGED <<log, sub, cache, transcript, ingest>>
  BY DEF RefuseRequest, hostVars, phoneVars
<1>1. Error \in Frame /\ Committed(Error.events, log)
  BY DEF Error, Frame, Committed
<1>2. frames' \in Seq(Frame) /\ \A i \in 1..Len(frames') : Committed(frames'[i].events, log)
  BY <1>0, <1>1, OneMoreFrame DEF PrefixInv, NetOK, OnlyCommitted
<1>3. requests' \in Seq(Nat)
  BY <1>0 DEF PrefixInv, NetOK
<1> QED BY <1>0, <1>2, <1>3 DEF PrefixInv, HostOK, NetOK, PhoneOK, OnlyCommitted, Prefixes

-----------------------------------------------------------------------------
(* The phone's steps.                                                      *)

\* The cursor of a request is a sequence number.
LEMMA CursorType == PrefixInv => lastAppliedSequence \in Nat
  BY DEF PrefixInv, PhoneOK, lastAppliedSequence

LEMMA RequestPrefix ==
  ASSUME PrefixInv, Connect \/ Reselect
  PROVE  PrefixInv'
<1>1. /\ UNCHANGED <<log, sub, frames, cache, transcript, ingest>>
      /\ \/ requests' = <<lastAppliedSequence>>
         \/ requests' = Append(requests, lastAppliedSequence)
         \/ requests' = requests
  BY DEF Connect, Reselect, subscribeCanonical, hostVars, phoneVars
<1>2. requests' \in Seq(Nat)
  <2>1. lastAppliedSequence \in Nat /\ requests \in Seq(Nat)
    BY CursorType DEF PrefixInv, NetOK
  <2>2. <<lastAppliedSequence>> \in Seq(Nat) /\ Append(requests, lastAppliedSequence) \in Seq(Nat)
    BY <2>1
  <2> QED BY <1>1, <2>1, <2>2
<1> QED BY <1>1, <1>2 DEF PrefixInv, HostOK, NetOK, PhoneOK, OnlyCommitted, Prefixes

LEMMA ClosePrefix ==
  ASSUME PrefixInv, Disconnect \/ AppRestart
  PROVE  PrefixInv'
<1>1. /\ requests' = <<>> /\ frames' = <<>> /\ sub' = NoSub /\ UNCHANGED <<log, cache>>
      /\ \/ UNCHANGED <<transcript, ingest>>
         \/ transcript' = <<>> /\ ingest' = Idle
  BY DEF Disconnect, AppRestart, CloseSocket, phoneVars
<1>2. HostOK' /\ NetOK' /\ Committed(sub'.pending, log')
  <2>1. /\ NoSub.pending = <<>> /\ Committed(<<>>, log)
        /\ NoSub \in [active : BOOLEAN, lastApplied : Nat, replaying : BOOLEAN, pending : Seq(Record)]
    BY DEF NoSub, Committed
  <2> QED BY <1>1, <2>1 DEF PrefixInv, HostOK, NetOK
<1>3. PhoneOK' /\ Committed(ingest'.events, log')
  <2>1. /\ Idle.events = <<>> /\ Committed(<<>>, log)
        /\ Idle \in [type : {"none", "page", "live"}, events : Seq(Record),
                     complete : BOOLEAN, trouble : BOOLEAN]
    BY DEF Idle, Committed
  <2> QED BY <1>1, <2>1 DEF PrefixInv, PhoneOK, OnlyCommitted
<1>4. Prefixes'
  BY <1>1 DEF PrefixInv, HostOK, PhoneOK, Prefixes
<1> QED BY <1>1, <1>2, <1>3, <1>4 DEF PrefixInv, OnlyCommitted

\* A cold start rebuilds the projection from a prefix of the cache.
LEMMA CachedPrefix ==
  ASSUME PrefixInv
  PROVE  /\ Cached \in Seq(Event) /\ Len(Cached) = Least(Len(cache), CacheReadLimit)
         /\ Len(Cached) <= Len(cache) /\ \A n \in 1..Len(Cached) : Cached[n] = cache[n]
<1>1. cache \in Seq(Event) /\ Len(cache) \in Nat /\ DOMAIN cache = 1..Len(cache)
  BY DEF PrefixInv, PhoneOK
<1>2. Cardinality(DOMAIN cache) = Len(cache)
  BY <1>1, CountTo
<1> DEFINE m == Least(Len(cache), CacheReadLimit)
<1>3. m \in Nat /\ m <= Len(cache)
  BY <1>1, LimitAssumption DEF Least
<1>4. Cached = [n \in 1..m |-> cache[n]]
  BY <1>2 DEF Cached
<1> HIDE DEF m
<1>5. \A n \in 1..m : cache[n] \in Event
  BY <1>1, <1>3
<1>6. Cached \in Seq(Event) /\ Len(Cached) = m
  BY <1>3, <1>4, <1>5
<1> QED BY <1>3, <1>4, <1>6 DEF m

LEMMA ReceivePrefix == PrefixInv /\ Receive => PrefixInv'
<1> SUFFICES ASSUME PrefixInv, Receive PROVE PrefixInv'
  OBVIOUS
<1>0. /\ frames # <<>> /\ frames' = Tail(frames) /\ UNCHANGED <<log, sub, requests, cache>>
      /\ \/ UNCHANGED <<transcript, ingest>>
         \/ /\ transcript' = transcript \/ transcript' = Cached
            /\ Head(frames).type # "error"
            /\ ingest' = [type |-> Head(frames).type, events |-> Head(frames).events,
                          complete |-> Head(frames).complete, trouble |-> FALSE]
  BY DEF Receive, ensureSession, hostVars
<1>1. /\ frames' \in Seq(Frame) /\ Len(frames') = Len(frames) - 1 /\ Len(frames) \in Nat \ {0}
      /\ \A i \in 1..Len(frames') : frames'[i] = frames[i + 1]
      /\ Head(frames) = frames[1] /\ Head(frames) \in Frame
  BY <1>0 DEF PrefixInv, NetOK
<1>2. \A i \in 1..Len(frames) : Committed(frames[i].events, log)
  BY DEF PrefixInv, OnlyCommitted
<1>3. \A i \in 1..Len(frames') : Committed(frames'[i].events, log)
  BY <1>1, <1>2
<1>4. Committed(Head(frames).events, log)
  BY <1>1, <1>2
<1>5. /\ ingest' \in [type : {"none", "page", "live"}, events : Seq(Record),
                      complete : BOOLEAN, trouble : BOOLEAN]
      /\ Committed(ingest'.events, log)
  <2>1. CASE ingest' = ingest
    BY <2>1 DEF PrefixInv, PhoneOK, OnlyCommitted
  <2>2. CASE /\ Head(frames).type # "error"
             /\ ingest' = [type |-> Head(frames).type, events |-> Head(frames).events,
                           complete |-> Head(frames).complete, trouble |-> FALSE]
    <3>1. /\ Head(frames).type \in {"page", "live"} /\ Head(frames).events \in Seq(Record)
          /\ Head(frames).complete \in BOOLEAN
      BY <1>1, <2>2 DEF Frame
    <3>2. ingest'.events = Head(frames).events
      BY <2>2
    <3>3. ingest' \in [type : {"none", "page", "live"}, events : Seq(Record),
                       complete : BOOLEAN, trouble : BOOLEAN]
      BY <2>2, <3>1
    <3> QED BY <1>4, <3>2, <3>3
  <2> QED BY <1>0, <2>1, <2>2
<1>6. transcript' \in Seq(Event) /\ Len(transcript') <= Len(cache)
      /\ \A n \in 1..Len(transcript') : transcript'[n] = log[n]
  <2>1. CASE transcript' = transcript
    BY <2>1 DEF PrefixInv, PhoneOK, Prefixes
  <2>2. CASE transcript' = Cached
    <3>1. \A n \in 1..Len(cache) : cache[n] = log[n]
      BY DEF PrefixInv, Prefixes
    <3>2. Len(cache) \in Nat
      BY DEF PrefixInv, PhoneOK
    <3> QED BY <2>2, <3>1, <3>2, CachedPrefix
  <2> QED BY <1>0, <2>1, <2>2
<1> QED BY <1>0, <1>1, <1>3, <1>5, <1>6 DEF PrefixInv, HostOK, NetOK, PhoneOK, OnlyCommitted, Prefixes

\* What accepting a record does: nothing, or the next event of the log is
\* cached and, the projection being level with the cache, applied.
LEMMA AcceptCases ==
  ASSUME PrefixInv, accept
  PROVE  /\ ingest.events # <<>> /\ ingest'.events = Tail(ingest.events)
         /\ ingest' \in [type : {"none", "page", "live"}, events : Seq(Record),
                         complete : BOOLEAN, trouble : BOOLEAN]
         /\ ingest'.type = ingest.type /\ ingest'.complete = ingest.complete
         /\ UNCHANGED <<log, sub, fanout, connected, requests, frames, bound>>
         /\ \/ /\ UNCHANGED <<cache, transcript>>
               /\ \/ Head(ingest.events).seq <= Len(cache)
                  \/ Head(ingest.events).seq > Len(transcript) + 1
            \/ /\ Len(cache) < Len(log) /\ Len(transcript) = Len(cache)
               /\ Head(ingest.events).seq = Len(cache) + 1
               /\ cache' = Append(cache, log[Len(cache) + 1])
               /\ transcript' = Append(transcript, log[Len(cache) + 1])
<1> DEFINE record == Head(ingest.events)
           known  == record.seq \in DOMAIN cache
           next   == Len(transcript) + 1
           bad    == (known /\ cache[record.seq] # record.id) \/ (~known /\ record.seq > next)
<1>1. /\ ingest.events # <<>>
      /\ ingest' = [ingest EXCEPT !.events = Tail(@), !.trouble = @ \/ bad]
      /\ IF ~known /\ record.seq <= next THEN Store(record) ELSE UNCHANGED cache
      /\ transcript' = IF ~known /\ record.seq = next THEN Append(transcript, record.id) ELSE transcript
      /\ UNCHANGED <<log, sub, fanout, connected, requests, frames, bound>>
  BY DEF accept, hostVars, netVars
<1>2. /\ Tail(ingest.events) \in Seq(Record)
      /\ record \in Record /\ record.seq \in 1..Len(log) /\ record.id = log[record.seq]
  BY <1>1, CommittedTail DEF PrefixInv, PhoneOK, OnlyCommitted
<1>3. bad \in BOOLEAN
  OBVIOUS
<1>4. /\ cache \in Seq(Event) /\ transcript \in Seq(Event) /\ log \in Seq(Event)
      /\ Len(cache) \in Nat /\ Len(transcript) \in Nat /\ Len(log) \in Nat
      /\ DOMAIN cache = 1..Len(cache) /\ Len(transcript) <= Len(cache) /\ Len(cache) <= Len(log)
  BY DEF PrefixInv, PhoneOK, HostOK, Prefixes
<1>5. /\ ingest'.events = Tail(ingest.events)
      /\ ingest' \in [type : {"none", "page", "live"}, events : Seq(Record),
                      complete : BOOLEAN, trouble : BOOLEAN]
      /\ ingest'.type = ingest.type /\ ingest'.complete = ingest.complete
  <2> HIDE DEF bad
  <2> QED BY <1>1, <1>2, <1>3 DEF PrefixInv, PhoneOK
<1> HIDE DEF record
<1>6. CASE known \/ record.seq > next
  <2>1. UNCHANGED <<cache, transcript>> /\ (record.seq <= Len(cache) \/ record.seq > Len(transcript) + 1)
    BY <1>1, <1>2, <1>4, <1>6
  <2> QED BY <1>1, <1>5, <2>1 DEF record
<1>7. CASE ~known /\ record.seq <= next
  <2>1. record.seq = Len(cache) + 1 /\ Len(transcript) = Len(cache) /\ record.seq = next
    BY <1>2, <1>4, <1>7
  <2>2. record.id = log[Len(cache) + 1] /\ Len(cache) < Len(log) /\ record.id \in Event
    BY <1>2, <1>4, <2>1
  <2>3. cache' = Append(cache, log[Len(cache) + 1])
    <3>1. cache' = [n \in DOMAIN cache \cup {record.seq} |->
                      IF n = record.seq THEN record.id ELSE cache[n]]
      BY <1>1, <1>7 DEF Store
    <3>2. DOMAIN cache \cup {record.seq} = 1..(Len(cache) + 1)
      BY <1>4, <2>1
    <3>3. cache' = [n \in 1..(Len(cache) + 1) |-> IF n = Len(cache) + 1 THEN record.id ELSE cache[n]]
      BY <3>1, <3>2, <2>1
    <3>4. Append(cache, record.id) = [n \in 1..(Len(cache) + 1) |-> IF n = Len(cache) + 1 THEN record.id ELSE cache[n]]
      BY <1>4, <2>2
    <3> QED BY <3>3, <3>4, <2>2
  <2>4. transcript' = Append(transcript, log[Len(cache) + 1])
    BY <1>1, <1>7, <2>1, <2>2
  <2> QED BY <1>1, <1>5, <2>1, <2>2, <2>3, <2>4 DEF record
<1> QED BY <1>2, <1>4, <1>6, <1>7

LEMMA AcceptPrefix == PrefixInv /\ accept => PrefixInv'
<1> SUFFICES ASSUME PrefixInv, accept PROVE PrefixInv'
  OBVIOUS
<1>0. /\ ingest.events # <<>> /\ ingest'.events = Tail(ingest.events)
      /\ ingest' \in [type : {"none", "page", "live"}, events : Seq(Record),
                      complete : BOOLEAN, trouble : BOOLEAN]
      /\ UNCHANGED <<log, sub, fanout, connected, requests, frames, bound>>
      /\ \/ UNCHANGED <<cache, transcript>>
         \/ /\ Len(cache) < Len(log) /\ Len(transcript) = Len(cache)
            /\ cache' = Append(cache, log[Len(cache) + 1])
            /\ transcript' = Append(transcript, log[Len(cache) + 1])
  BY AcceptCases
<1>1. Committed(ingest'.events, log)
  BY <1>0, CommittedTail DEF PrefixInv, PhoneOK, OnlyCommitted
<1>2. cache' \in Seq(Event) /\ transcript' \in Seq(Event) /\ Prefixes'
  <2>1. CASE UNCHANGED <<cache, transcript>>
    BY <1>0, <2>1 DEF PrefixInv, PhoneOK, Prefixes
  <2>2. CASE /\ Len(cache) < Len(log) /\ Len(transcript) = Len(cache)
             /\ cache' = Append(cache, log[Len(cache) + 1])
             /\ transcript' = Append(transcript, log[Len(cache) + 1])
    <3>1. /\ cache \in Seq(Event) /\ transcript \in Seq(Event) /\ log \in Seq(Event)
          /\ Len(cache) \in Nat /\ Len(log) \in Nat /\ log[Len(cache) + 1] \in Event
      BY <2>2 DEF PrefixInv, PhoneOK, HostOK
    <3>2. /\ cache' \in Seq(Event) /\ Len(cache') = Len(cache) + 1
          /\ transcript' \in Seq(Event) /\ Len(transcript') = Len(cache) + 1
      BY <2>2, <3>1
    <3>3. \A n \in 1..(Len(cache) + 1) : cache'[n] = log[n] /\ transcript'[n] = log[n]
      BY <2>2, <3>1 DEF PrefixInv, Prefixes
    <3> QED BY <1>0, <2>2, <3>1, <3>2, <3>3 DEF Prefixes
  <2> QED BY <1>0, <2>1, <2>2
<1> QED BY <1>0, <1>1, <1>2 DEF PrefixInv, HostOK, NetOK, PhoneOK, OnlyCommitted

LEMMA FinishFramePrefix == PrefixInv /\ FinishFrame => PrefixInv'
<1> SUFFICES ASSUME PrefixInv, FinishFrame PROVE PrefixInv'
  OBVIOUS
<1>0. /\ UNCHANGED <<log, sub, frames, cache, transcript>> /\ ingest' = Idle
      /\ requests' = requests \/ requests' = Append(requests, lastAppliedSequence)
  BY DEF FinishFrame, subscribeCanonical, hostVars
<1>1. requests' \in Seq(Nat)
  <2>1. requests \in Seq(Nat)
    BY DEF PrefixInv, NetOK
  <2>2. lastAppliedSequence \in Nat
    BY CursorType DEF PrefixInv
  <2> QED BY <1>0, <2>1, <2>2
<1>2. /\ ingest' \in [type : {"none", "page", "live"}, events : Seq(Record),
                      complete : BOOLEAN, trouble : BOOLEAN]
      /\ Committed(ingest'.events, log)
  BY <1>0 DEF Idle, Committed
<1> QED BY <1>0, <1>1, <1>2 DEF PrefixInv, HostOK, NetOK, PhoneOK, OnlyCommitted, Prefixes

-----------------------------------------------------------------------------
LEMMA PrefixStep == PrefixInv /\ [Next]_vars => PrefixInv'
<1> SUFFICES ASSUME PrefixInv, [Next]_vars PROVE PrefixInv'
  OBVIOUS
<1>1. ASSUME NEW e \in Event, append(e) PROVE PrefixInv'
  BY <1>1, AppendPrefix
<1>2. CASE Subscribe
  BY <1>2, SubscribePrefix DEF Subscribe
<1>3. CASE RefuseRequest
  BY <1>3, RefuseRequestPrefix
<1>4. CASE Connect \/ Reselect
  BY <1>4, RequestPrefix
<1>5. CASE Disconnect \/ AppRestart
  BY <1>5, ClosePrefix
<1>6. CASE Receive
  BY <1>6, ReceivePrefix
<1>7. CASE accept
  BY <1>7, AcceptPrefix
<1>8. CASE FinishFrame
  BY <1>8, FinishFramePrefix
<1>9. CASE UNCHANGED vars
  BY <1>9 DEF vars, hostVars, netVars, phoneVars, PrefixInv, HostOK, NetOK, PhoneOK,
              OnlyCommitted, Prefixes
<1> QED BY <1>1, <1>2, <1>3, <1>4, <1>5, <1>6, <1>7, <1>8, <1>9 DEF Next

LEMMA PrefixAlways == Spec => []PrefixInv
  BY PrefixInit, PrefixStep, PTL DEF Spec

LEMMA PrefixImplies == PrefixInv => TranscriptIsPrefix
<1> SUFFICES ASSUME PrefixInv PROVE TranscriptIsPrefix
  OBVIOUS
<1>1. /\ cache \in Seq(Event) /\ transcript \in Seq(Event) /\ log \in Seq(Event)
      /\ Len(transcript) \in Nat /\ Len(cache) \in Nat /\ Len(log) \in Nat
      /\ DOMAIN cache = 1..Len(cache)
      /\ Len(transcript) <= Len(cache) /\ Len(cache) <= Len(log)
      /\ \A n \in 1..Len(transcript) : transcript[n] = log[n]
      /\ \A n \in 1..Len(cache) : cache[n] = log[n]
  BY DEF PrefixInv, PhoneOK, HostOK, Prefixes
<1>2. Cardinality(DOMAIN cache) = Len(cache)
  BY <1>1, CountTo
<1>3. transcript = SubSeq(log, 1, Len(transcript))
  <2>1. SubSeq(log, 1, Len(transcript)) = [n \in 1..Len(transcript) |-> log[n]]
    BY <1>1
  <2>2. transcript = [n \in 1..Len(transcript) |-> transcript[n]]
    BY <1>1
  <2> QED BY <1>1, <2>1, <2>2
<1> QED BY <1>1, <1>2, <1>3 DEF TranscriptIsPrefix

\* What the phone shows and keeps is a prefix of the host's log, whatever mix
\* of pages, live events, reconnects, restarts and refusals delivered it.
THEOREM PhoneShowsPrefix == Spec => []TranscriptIsPrefix
  BY PrefixAlways, PrefixImplies, PTL

-----------------------------------------------------------------------------
(* The cache implements the abstract replica.                              *)

\* The refinement mapping: the cache read as a sequence.
LEMMA MappedCache ==
  ASSUME NEW c \in Seq(Event)
  PROVE  [n \in 1..Cardinality(DOMAIN c) |-> c[n]] = c
<1>1. Len(c) \in Nat /\ DOMAIN c = 1..Len(c)
  OBVIOUS
<1>2. Cardinality(DOMAIN c) = Len(c)
  BY <1>1, CountTo
<1>3. [n \in 1..Len(c) |-> c[n]] = c
  BY <1>1
<1> QED BY <1>2, <1>3

\* A step of the detailed system, seen on the log and the cache only.
ReplicaStep ==
  \/ \E e \in Event : log' = Append(log, e) /\ cache' = cache
  \/ Len(cache) < Len(log) /\ cache' = Append(cache, log[Len(cache) + 1]) /\ log' = log
  \/ log' = log /\ cache' = cache

LEMMA StepsOnReplica == PrefixInv /\ [Next]_vars => ReplicaStep
<1> SUFFICES ASSUME PrefixInv, [Next]_vars PROVE ReplicaStep
  OBVIOUS
<1>1. ASSUME NEW e \in Event, append(e) PROVE ReplicaStep
  BY <1>1 DEF append, phoneVars, ReplicaStep
<1>2. CASE Subscribe
  BY <1>2, SubscribeCases DEF Subscribe, ReplicaStep
<1>3. CASE accept
  BY <1>3, AcceptCases DEF ReplicaStep
<1>4. CASE RefuseRequest \/ Connect \/ Reselect \/ Disconnect \/ AppRestart
  BY <1>4 DEF RefuseRequest, Connect, Reselect, Disconnect, AppRestart, hostVars, phoneVars, ReplicaStep
<1>5. CASE Receive \/ FinishFrame \/ UNCHANGED vars
  BY <1>5 DEF Receive, FinishFrame, vars, hostVars, phoneVars, ReplicaStep
<1> QED BY <1>1, <1>2, <1>3, <1>4, <1>5 DEF Next

LEMMA ReplicaInit == Init => Replica!Init
<1> SUFFICES ASSUME Init PROVE Replica!Init
  OBVIOUS
<1>1. [n \in 1..Cardinality(DOMAIN cache) |-> cache[n]] = cache
  BY PrefixInit, MappedCache DEF PrefixInv, PhoneOK
<1> QED BY <1>1 DEF Init, Replica!Init

LEMMA ReplicaNext ==
  PrefixInv /\ PrefixInv' /\ [Next]_vars => [Replica!Next]_(Replica!replicaVars)
<1> SUFFICES ASSUME PrefixInv, PrefixInv', [Next]_vars
             PROVE  [Replica!Next]_(Replica!replicaVars)
  OBVIOUS
<1>1. cache \in Seq(Event) /\ cache' \in Seq(Event)
  BY DEF PrefixInv, PhoneOK
<1>2. [n \in 1..Cardinality(DOMAIN cache) |-> cache[n]] = cache
  BY <1>1, MappedCache
<1>3. [n \in 1..Cardinality(DOMAIN cache') |-> cache'[n]] = cache'
  BY <1>1, MappedCache
<1>4. CASE \E e \in Event : log' = Append(log, e) /\ cache' = cache
  BY <1>2, <1>3, <1>4 DEF Replica!Next, Replica!Commit
<1>5. CASE Len(cache) < Len(log) /\ cache' = Append(cache, log[Len(cache) + 1]) /\ log' = log
  <2> DEFINE c == [n \in 1..Cardinality(DOMAIN cache) |-> cache[n]]
  <2>1. c = cache /\ c' = cache'
    BY <1>2, <1>3, Zenon
  <2> HIDE DEF c
  <2>2. Len(c) < Len(log) /\ c' = Append(c, log[Len(c) + 1]) /\ UNCHANGED log
    BY <1>5, <2>1, Zenon
  <2>3. Replica!Take
    BY <2>2, Zenon DEF Replica!Take, c
  <2> QED BY <2>3 DEF Replica!Next
<1>6. CASE log' = log /\ cache' = cache
  BY <1>2, <1>3, <1>6 DEF Replica!replicaVars
<1> QED BY <1>4, <1>5, <1>6, StepsOnReplica DEF ReplicaStep

\* Canonical synchronization implements the abstract replica: in every step the
\* phone's durable cache keeps what it has, takes over the next event of the
\* log, or lets the host commit one.
THEOREM CacheIsReplica == Spec => ReplicaSafe
  BY PrefixAlways, ReplicaInit, ReplicaNext, PTL DEF Spec, ReplicaSafe, Replica!SafeSpec

-----------------------------------------------------------------------------
(* No update is lost silently.                                             *)

\* The record with sequence n is among the events.
Has(events, n) == \E k \in 1..Len(events) : events[k].seq = n

\* A run of the log, without holes.
Consecutive(events) ==
  \A k \in 1..Len(events) : events[k].seq = events[1].seq + (k - 1)

\* Sequence n is shown, in ingestion or in a frame before the i-th.
Ahead(shown, taken, fs, i, n) ==
  \/ n <= shown
  \/ Has(taken, n)
  \/ \E h \in 1..Len(fs) : h < i /\ Has(fs[h].events, n)

\* A frame that continues what arrives before it, at the i-th place.
Continues(shown, taken, fs, i, f) ==
  /\ Consecutive(f.events)
  /\ f.type = "error" => f.events = <<>>
  /\ f.events # <<>> => Ahead(shown, taken, fs, i, f.events[1].seq - 1)

\* Unless a cold start left it behind the cache, the projection is level with it.
Level ==
  /\ bound \in BOOLEAN /\ fanout \in BOOLEAN
  /\ bound => Len(transcript) = Len(cache)
  /\ ~bound => transcript = <<>> /\ ingest.events = <<>>

\* A request asks from behind the projection, never beyond it.
AskedFromBehind == \A k \in 1..Len(requests) : requests[k] <= Len(transcript)

\* What is ingested continues the transcript, and every frame what is before it.
Chain(shown, taken, fs) ==
  /\ Consecutive(taken)
  /\ taken # <<>> => taken[1].seq <= shown + 1
  /\ \A i \in 1..Len(fs) : Continues(shown, taken, fs, i, fs[i])
Chained == Chain(Len(transcript), ingest.events, frames)

\* A registered phone has, or has coming, the whole log.
Cover(shown, taken, fs, l) == \A n \in 1..l : Ahead(shown, taken, fs, Len(fs) + 1, n)
Covered == fanout => Cover(Len(transcript), ingest.events, frames, Len(log))

FlowInv == Level /\ AskedFromBehind /\ Chained /\ Covered

\* As long as a cold start can read the whole cache.
Fits == Len(log) <= CacheReadLimit

LEMMA FlowInit == Init => FlowInv
<1> SUFFICES ASSUME Init PROVE FlowInv
  OBVIOUS
<1>1. Idle.events = <<>>
  BY DEF Idle
<1>2. /\ log = <<>> /\ fanout = FALSE /\ bound = FALSE /\ requests = <<>> /\ frames = <<>>
      /\ transcript = <<>> /\ cache = <<>> /\ ingest.events = <<>>
  BY <1>1 DEF Init
<1>3. Level /\ Covered
  BY <1>2 DEF Level, Covered
<1>4. AskedFromBehind
  BY <1>2 DEF AskedFromBehind
<1>5. Chained
  BY <1>2 DEF Chained, Chain, Consecutive
<1> QED BY <1>3, <1>4, <1>5 DEF FlowInv

\* The cursor of a request is the projection's length, bound or not.
LEMMA CursorIsLength == Level => lastAppliedSequence = Len(transcript)
  BY DEF Level, lastAppliedSequence

\* The first sequence number of a frame is a number.
LEMMA FirstType ==
  ASSUME NEW events \in Seq(Record), events # <<>>
  PROVE  events[1].seq \in Nat /\ Len(events) \in Nat \ {0}
<1>1. Len(events) \in Nat \ {0} /\ events[1] \in Record
  OBVIOUS
<1> QED BY <1>1 DEF Record

\* A frame joins the ones in flight, as an answer or a live event.
LEMMA ChainGrows ==
  ASSUME NEW shown \in Nat, NEW taken, NEW fs \in Seq(Frame), NEW f \in Frame,
         Chain(shown, taken, fs), Continues(shown, taken, fs, Len(fs) + 1, f)
  PROVE  /\ Chain(shown, taken, Append(fs, f))
         /\ \A i, n : Ahead(shown, taken, fs, i, n) => Ahead(shown, taken, Append(fs, f), i, n)
<1> DEFINE gs == Append(fs, f)
<1>1. /\ gs \in Seq(Frame) /\ Len(gs) = Len(fs) + 1 /\ Len(fs) \in Nat
      /\ (\A i \in 1..Len(fs) : gs[i] = fs[i]) /\ gs[Len(fs) + 1] = f
  OBVIOUS
<1> HIDE DEF gs
<1>2. ASSUME NEW i, NEW n, Ahead(shown, taken, fs, i, n)
      PROVE  Ahead(shown, taken, gs, i, n)
  <2>1. \A h \in 1..Len(fs) : h \in 1..Len(gs) /\ gs[h] = fs[h]
    BY <1>1
  <2> QED BY <1>2, <2>1 DEF Ahead
<1>3. ASSUME NEW i \in 1..Len(gs) PROVE Continues(shown, taken, gs, i, gs[i])
  <2>1. CASE i \in 1..Len(fs)
    <3>1. gs[i] = fs[i] /\ Continues(shown, taken, fs, i, fs[i])
      BY <1>1, <2>1 DEF Chain
    <3> QED BY <3>1, <1>2 DEF Continues
  <2>2. CASE i = Len(fs) + 1
    <3>1. gs[i] = f
      BY <1>1, <2>2
    <3> QED BY <2>2, <3>1, <1>2 DEF Continues
  <2> QED BY <1>1, <2>1, <2>2
<1>4. Chain(shown, taken, gs)
  BY <1>3 DEF Chain
<1> QED BY <1>2, <1>4 DEF gs

\* The phone applies, or skips, the next record of the frame in ingestion.
LEMMA ChainApplies ==
  ASSUME NEW shown \in Nat, NEW taken \in Seq(Record), taken # <<>>, NEW fs \in Seq(Frame),
         Chain(shown, taken, fs),
         NEW now \in Nat, now = shown \/ now = shown + 1, taken[1].seq <= now
  PROVE  /\ Chain(now, Tail(taken), fs)
         /\ \A i, n : n \in Nat /\ Ahead(shown, taken, fs, i, n) => Ahead(now, Tail(taken), fs, i, n)
<1> DEFINE rest == Tail(taken)
<1>1. /\ rest \in Seq(Record) /\ Len(rest) = Len(taken) - 1 /\ Len(taken) \in Nat \ {0}
      /\ \A k \in 1..Len(rest) : rest[k] = taken[k + 1]
      /\ rest # <<>> => Len(rest) > 0
  OBVIOUS
<1> HIDE DEF rest
<1>2. taken[1].seq \in Nat
  BY FirstType
<1>3. \A k \in 1..Len(taken) : taken[k].seq = taken[1].seq + (k - 1)
  BY DEF Chain, Consecutive
<1>4. ASSUME NEW k \in 1..Len(rest) PROVE rest[k].seq = taken[1].seq + k
  <2>1. k + 1 \in 1..Len(taken) /\ rest[k] = taken[k + 1]
    BY <1>1
  <2>2. rest[k].seq = taken[1].seq + ((k + 1) - 1)
    BY <2>1, <1>3
  <2> QED BY <2>2, <1>2
<1>5. Consecutive(rest) /\ (rest # <<>> => rest[1].seq <= now + 1)
  <2>1. ASSUME rest # <<>>
        PROVE  rest[1].seq = taken[1].seq + 1 /\ rest[1].seq <= now + 1
    <3>1. 1 \in 1..Len(rest)
      BY <1>1, <2>1
    <3>2. rest[1].seq = taken[1].seq + 1
      BY <3>1, <1>4
    <3> QED BY <3>2, <1>2
  <2>2. ASSUME NEW k \in 1..Len(rest) PROVE rest[k].seq = rest[1].seq + (k - 1)
    <3>1. rest # <<>>
      BY <1>1
    <3> QED BY <3>1, <2>1, <1>4, <1>2
  <2> QED BY <2>1, <2>2 DEF Consecutive
<1>6. ASSUME NEW i, NEW n \in Nat, Ahead(shown, taken, fs, i, n)
      PROVE  Ahead(now, rest, fs, i, n)
  <2>1. CASE n <= shown
    BY <2>1 DEF Ahead
  <2>2. CASE Has(taken, n)
    <3>1. PICK k \in 1..Len(taken) : taken[k].seq = n
      BY <2>2 DEF Has
    <3>2. CASE k = 1
      BY <3>1, <3>2, <1>2 DEF Ahead
    <3>3. CASE k # 1
      <4>1. k - 1 \in 1..Len(rest) /\ rest[k - 1] = taken[k]
        BY <1>1, <3>3
      <4> QED BY <3>1, <4>1 DEF Ahead, Has
    <3> QED BY <3>2, <3>3
  <2>3. CASE \E h \in 1..Len(fs) : h < i /\ Has(fs[h].events, n)
    BY <2>3 DEF Ahead
  <2> QED BY <1>6, <2>1, <2>2, <2>3 DEF Ahead
<1>7. ASSUME NEW i \in 1..Len(fs) PROVE Continues(now, rest, fs, i, fs[i])
  <2>1. Continues(shown, taken, fs, i, fs[i])
    BY DEF Chain
  <2>2. ASSUME fs[i].events # <<>> PROVE Ahead(now, rest, fs, i, fs[i].events[1].seq - 1)
    <3> DEFINE n == fs[i].events[1].seq - 1
    <3>1. fs[i].events \in Seq(Record)
      <4>1. fs[i] \in Frame
        OBVIOUS
      <4> QED BY <4>1 DEF Frame
    <3>2. n \in Int /\ n >= -1
      BY <2>2, <3>1, FirstType
    <3>3. Ahead(shown, taken, fs, i, n)
      BY <2>1, <2>2 DEF Continues
    <3> HIDE DEF n
    <3>4. ASSUME n >= 0 PROVE Ahead(now, rest, fs, i, n)
      <4>1. n \in Nat
        BY <3>2, <3>4
      <4> QED BY <3>3, <4>1, <1>6, Zenon
    <3>5. ASSUME n < 0 PROVE Ahead(now, rest, fs, i, n)
      <4>1. n <= now
        BY <3>2, <3>5
      <4> QED BY <4>1, Zenon DEF Ahead
    <3>6. Ahead(now, rest, fs, i, n)
      BY <3>2, <3>4, <3>5
    <3> QED BY <3>6 DEF n
  <2> QED BY <2>1, <2>2 DEF Continues
<1>8. Chain(now, rest, fs)
  BY <1>5, <1>7 DEF Chain
<1> QED BY <1>6, <1>8 DEF rest

\* The phone takes the first frame off the socket.
LEMMA ChainMoves ==
  ASSUME NEW shown \in Nat, NEW fs \in Seq(Frame), fs # <<>>, Chain(shown, <<>>, fs),
         NEW now \in Nat, shown <= now
  PROVE  /\ Chain(now, Head(fs).events, Tail(fs))
         /\ \A i \in Int : \A n \in Int :
              Ahead(shown, <<>>, fs, i + 1, n) => Ahead(now, Head(fs).events, Tail(fs), i, n)
<1> DEFINE gs == Tail(fs)
<1> DEFINE taken == Head(fs).events
<1>1. /\ gs \in Seq(Frame) /\ Len(gs) = Len(fs) - 1 /\ Len(fs) \in Nat \ {0}
      /\ (\A k \in 1..Len(gs) : gs[k] = fs[k + 1])
      /\ Head(fs) = fs[1] /\ Head(fs) \in Frame
  OBVIOUS
<1>2. taken \in Seq(Record) /\ taken = fs[1].events
  BY <1>1 DEF Frame
<1>3. Continues(shown, <<>>, fs, 1, fs[1])
  BY <1>1 DEF Chain
<1> HIDE DEF gs, taken
<1>4. ASSUME NEW i \in Int, NEW n \in Int, Ahead(shown, <<>>, fs, i + 1, n)
      PROVE  Ahead(now, taken, gs, i, n)
  <2>1. CASE n <= shown
    BY <2>1 DEF Ahead
  <2>2. CASE \E h \in 1..Len(fs) : h < i + 1 /\ Has(fs[h].events, n)
    <3>1. PICK h \in 1..Len(fs) : h < i + 1 /\ Has(fs[h].events, n)
      BY <2>2
    <3>2. CASE h = 1
      BY <3>1, <3>2, <1>2 DEF Ahead
    <3>3. CASE h # 1
      <4>1. h - 1 \in 1..Len(gs) /\ gs[h - 1] = fs[h] /\ h - 1 < i
        BY <1>1, <3>1, <3>3
      <4> QED BY <3>1, <4>1 DEF Ahead
    <3> QED BY <3>2, <3>3
  <2> QED BY <1>4, <2>1, <2>2 DEF Ahead, Has
<1>5. Consecutive(taken)
  BY <1>2, <1>3 DEF Continues
<1>6. ASSUME taken # <<>> PROVE taken[1].seq <= now + 1
  <2>1. Ahead(shown, <<>>, fs, 1, taken[1].seq - 1)
    BY <1>2, <1>3, <1>6 DEF Continues
  <2>2. taken[1].seq \in Nat
    BY <1>2, <1>6, FirstType
  <2>3. taken[1].seq - 1 <= shown
    BY <2>1 DEF Ahead, Has
  <2> QED BY <2>2, <2>3
<1>7. ASSUME NEW i \in 1..Len(gs) PROVE Continues(now, taken, gs, i, gs[i])
  <2>1. i + 1 \in 1..Len(fs) /\ gs[i] = fs[i + 1] /\ i \in Int
    BY <1>1
  <2>2. Continues(shown, <<>>, fs, i + 1, gs[i])
    BY <2>1 DEF Chain
  <2>3. ASSUME gs[i].events # <<>> PROVE Ahead(now, taken, gs, i, gs[i].events[1].seq - 1)
    <3>1. gs[i].events \in Seq(Record)
      <4>1. gs[i] \in Frame
        BY <1>1
      <4> QED BY <4>1 DEF Frame
    <3>2. gs[i].events[1].seq - 1 \in Int
      BY <2>3, <3>1, FirstType
    <3> QED BY <2>1, <2>2, <2>3, <3>2, <1>4 DEF Continues
  <2> QED BY <2>2, <2>3 DEF Continues
<1>8. Chain(now, taken, gs)
  BY <1>5, <1>6, <1>7 DEF Chain
<1> QED BY <1>4, <1>8 DEF gs, taken

\* What is ahead of the last frame is ahead of the one that joins.
LEMMA CoverGrows ==
  ASSUME NEW shown, NEW taken, NEW fs \in Seq(Frame), NEW f \in Frame, NEW n,
         Ahead(shown, taken, fs, Len(fs) + 1, n) \/ Has(f.events, n)
  PROVE  Ahead(shown, taken, Append(fs, f), Len(Append(fs, f)) + 1, n)
<1> DEFINE gs == Append(fs, f)
<1>1. /\ Len(gs) = Len(fs) + 1 /\ Len(fs) \in Nat
      /\ (\A i \in 1..Len(fs) : gs[i] = fs[i]) /\ gs[Len(fs) + 1] = f
  OBVIOUS
<1> HIDE DEF gs
<1>2. \A h \in 1..Len(fs) : h \in 1..Len(gs) /\ gs[h] = fs[h] /\ h < Len(gs) + 1
  BY <1>1
<1>3. Len(gs) \in 1..Len(gs) /\ gs[Len(gs)] = f /\ Len(gs) < Len(gs) + 1
  BY <1>1
<1>4. Ahead(shown, taken, gs, Len(gs) + 1, n)
  BY <1>2, <1>3 DEF Ahead
<1> QED BY <1>4 DEF gs

\* The types the steps of the flow speak of.
LEMMA FlowTypes ==
  PrefixInv => /\ Len(transcript) \in Nat /\ Len(cache) \in Nat /\ Len(log) \in Nat
               /\ frames \in Seq(Frame) /\ Len(frames) \in Nat /\ ingest.events \in Seq(Record)
               /\ requests \in Seq(Nat) /\ Len(requests) \in Nat
               /\ Len(transcript) <= Len(cache) /\ Len(cache) <= Len(log)
  BY DEF PrefixInv, HostOK, NetOK, PhoneOK, Prefixes

LEMMA AppendFlow ==
  ASSUME PrefixInv, FlowInv, NEW e \in Event, append(e)
  PROVE  FlowInv'
<1> DEFINE r == [seq |-> Len(log) + 1, id |-> e]
<1>0. /\ log' = Append(log, e)
      /\ frames' = IF fanout THEN Append(frames, Live(r)) ELSE frames
      /\ UNCHANGED <<fanout, requests, cache, bound, transcript, ingest>>
  BY DEF append, phoneVars
<1>1. /\ Len(transcript) \in Nat /\ Len(log) \in Nat /\ frames \in Seq(Frame) /\ Len(log') = Len(log) + 1
      /\ fanout \in BOOLEAN
  BY <1>0, FlowTypes DEF PrefixInv, HostOK, FlowInv, Level
<1>2. r \in Record /\ r.seq = Len(log) + 1
  BY <1>1 DEF Record
<1> HIDE DEF r
<1>3. /\ Live(r) \in Frame /\ Live(r).events = <<r>> /\ Live(r).type = "live"
      /\ <<r>>[1] = r /\ Len(<<r>>) = 1
  BY <1>2 DEF Live, Frame
<1>4. Level' /\ AskedFromBehind'
  BY <1>0 DEF FlowInv, Level, AskedFromBehind
<1>5. CASE ~fanout
  BY <1>0, <1>4, <1>5 DEF FlowInv, Chained, Covered
<1>6. CASE fanout
  <2>1. Ahead(Len(transcript), ingest.events, frames, Len(frames) + 1, Len(log))
    <3>1. CASE Len(log) = 0
      BY <3>1, <1>1 DEF Ahead
    <3>2. CASE Len(log) # 0
      <4>1. Len(log) \in 1..Len(log)
        BY <3>2, <1>1
      <4> QED BY <4>1, <1>6 DEF FlowInv, Covered, Cover
    <3> QED BY <3>1, <3>2
  <2>2. Continues(Len(transcript), ingest.events, frames, Len(frames) + 1, Live(r))
    <3>1. Consecutive(<<r>>)
      BY <1>2, <1>1, <1>3 DEF Consecutive
    <3>2. r.seq - 1 = Len(log)
      BY <1>1, <1>2
    <3> QED BY <1>3, <2>1, <3>1, <3>2 DEF Continues
  <2>3. Chain(Len(transcript), ingest.events, Append(frames, Live(r)))
    BY <1>1, <1>3, <2>2, ChainGrows DEF FlowInv, Chained
  <2>4. ASSUME NEW n \in 1..(Len(log) + 1)
        PROVE  Ahead(Len(transcript), ingest.events, Append(frames, Live(r)),
                     Len(Append(frames, Live(r))) + 1, n)
    <3>1. CASE n \in 1..Len(log)
      <4>1. Ahead(Len(transcript), ingest.events, frames, Len(frames) + 1, n)
        BY <1>6, <3>1 DEF FlowInv, Covered, Cover
      <4> QED BY <4>1, <1>1, <1>3, CoverGrows
    <3>2. CASE n = Len(log) + 1
      <4>1. Has(Live(r).events, n)
        BY <3>2, <1>2, <1>3 DEF Has
      <4> QED BY <4>1, <1>1, <1>3, CoverGrows
    <3> QED BY <1>1, <3>1, <3>2
  <2>5. Chained' /\ Covered'
    BY <1>0, <1>1, <1>6, <2>3, <2>4 DEF Chained, Covered, Cover
  <2> QED BY <1>4, <2>5 DEF FlowInv
<1> QED BY <1>1, <1>5, <1>6

\* An error frame adds nothing and takes nothing away.
LEMMA ErrorFlow ==
  ASSUME PrefixInv, FlowInv, requests # <<>>, requests' = Tail(requests),
         frames' = Append(frames, Error),
         UNCHANGED <<log, fanout, cache, bound, transcript, ingest>>
  PROVE  FlowInv'
<1>1. /\ Len(transcript) \in Nat /\ Len(log) \in Nat /\ frames \in Seq(Frame)
  BY FlowTypes
<1>2. Error \in Frame /\ Error.events = <<>>
  BY DEF Error, Frame
<1>3. Continues(Len(transcript), ingest.events, frames, Len(frames) + 1, Error)
  BY <1>2 DEF Continues, Consecutive
<1>4. Chained'
  BY <1>1, <1>2, <1>3, ChainGrows DEF FlowInv, Chained
<1>5. Covered'
  <2>1. fanout => \A n \in 1..Len(log) : Ahead(Len(transcript), ingest.events, frames, Len(frames) + 1, n)
    BY DEF FlowInv, Covered, Cover
  <2>2. fanout => \A n \in 1..Len(log) :
          Ahead(Len(transcript), ingest.events, Append(frames, Error), Len(Append(frames, Error)) + 1, n)
    BY <1>1, <1>2, <2>1, CoverGrows
  <2> QED BY <2>2 DEF Covered, Cover
<1>6. Level' /\ AskedFromBehind'
  BY FlowTypes DEF FlowInv, Level, AskedFromBehind
<1> QED BY <1>4, <1>5, <1>6 DEF FlowInv

LEMMA SubscribeFlow ==
  ASSUME PrefixInv, FlowInv, NEW size \in 0..Batch, subscribe(size)
  PROVE  FlowInv'
<1>0. /\ requests # <<>> /\ requests' = Tail(requests)
      /\ UNCHANGED <<log, connected, cache, bound, transcript, ingest>>
      /\ \/ frames' = Append(frames, Error) /\ UNCHANGED <<sub, fanout>>
         \/ \E events : Answered(Head(requests), size, events)
  BY SubscribeCases
<1>1. CASE frames' = Append(frames, Error) /\ UNCHANGED <<sub, fanout>>
  BY <1>0, <1>1, ErrorFlow
<1>2. CASE \E events : Answered(Head(requests), size, events)
  <2> DEFINE after == Head(requests)
  <2>1. PICK events : Answered(after, size, events)
    BY <1>2
  <2>2. /\ Len(transcript) \in Nat /\ Len(log) \in Nat /\ frames \in Seq(Frame)
    BY FlowTypes
  <2>3. after \in Nat /\ after <= Len(transcript)
    <3>1. after = requests[1] /\ 1 \in 1..Len(requests) /\ after \in Nat
      BY <1>0, FlowTypes
    <3> QED BY <3>1 DEF FlowInv, AskedFromBehind
  <2> HIDE DEF after
  <2> DEFINE f == Page(events, fanout')
  <2>4. f \in Frame /\ f.events = events /\ f.type = "page" /\ events \in Seq(Record) /\ size \in Nat
    BY <2>1 DEF Answered, Page, Frame
  <2> HIDE DEF f
  <2>5. Len(events) = size /\ \A k \in 1..size : events[k].seq = after + k
    BY <2>1 DEF Answered
  <2>6. Continues(Len(transcript), ingest.events, frames, Len(frames) + 1, f)
    <3>1. Consecutive(events)
      BY <2>3, <2>4, <2>5 DEF Consecutive
    <3>2. ASSUME events # <<>>
          PROVE  Ahead(Len(transcript), ingest.events, frames, Len(frames) + 1, events[1].seq - 1)
      <4>1. events[1].seq = after + 1
        BY <2>4, <2>5, <3>2, FirstType
      <4>2. events[1].seq - 1 <= Len(transcript)
        BY <4>1, <2>2, <2>3
      <4> QED BY <4>2 DEF Ahead
    <3> QED BY <2>4, <3>1, <3>2 DEF Continues
  <2>7. frames' = Append(frames, f)
    BY <2>1 DEF Answered, f
  <2>8. Chained'
    BY <1>0, <2>2, <2>4, <2>6, <2>7, ChainGrows DEF FlowInv, Chained
  <2>9. ASSUME fanout', NEW n \in 1..Len(log)
        PROVE  Ahead(Len(transcript), ingest.events, frames, Len(frames) + 1, n) \/ Has(f.events, n)
    <3>1. after + size >= Len(log)
      BY <2>1, <2>9 DEF Answered
    <3>2. CASE n <= after
      <4>1. n <= Len(transcript)
        BY <3>2, <2>2, <2>3
      <4> QED BY <4>1 DEF Ahead
    <3>3. CASE n > after
      <4>1. n - after \in 1..Len(events) /\ events[n - after].seq = n
        BY <3>1, <3>3, <2>2, <2>3, <2>4, <2>5
      <4> QED BY <4>1, <2>4 DEF Has
    <3> QED BY <3>2, <3>3, <2>3
  <2>10. Covered'
    <3>1. ASSUME fanout', NEW n \in 1..Len(log)
          PROVE  Ahead(Len(transcript), ingest.events, Append(frames, f), Len(Append(frames, f)) + 1, n)
      BY <3>1, <2>2, <2>4, <2>9, CoverGrows
    <3> QED BY <1>0, <2>7, <3>1 DEF Covered, Cover
  <2>11. Level'
    BY <1>0, <2>1 DEF FlowInv, Level, Answered
  <2>12. AskedFromBehind'
    BY <1>0, FlowTypes DEF FlowInv, AskedFromBehind
  <2> QED BY <2>8, <2>10, <2>11, <2>12 DEF FlowInv
<1> QED BY <1>0, <1>1, <1>2

LEMMA RequestFlow ==
  ASSUME PrefixInv, FlowInv, Connect \/ Reselect
  PROVE  FlowInv'
<1>1. /\ UNCHANGED <<log, fanout, frames, cache, bound, transcript, ingest>>
      /\ \/ requests' = <<lastAppliedSequence>>
         \/ requests' = Append(requests, lastAppliedSequence)
         \/ requests' = requests
  BY DEF Connect, Reselect, subscribeCanonical, hostVars, phoneVars
<1>2. AskedFromBehind'
  <2>1. lastAppliedSequence = Len(transcript) /\ Len(transcript) \in Nat /\ requests \in Seq(Nat)
    BY CursorIsLength, FlowTypes DEF FlowInv
  <2>2. \A k \in 1..Len(requests) : requests[k] <= Len(transcript)
    BY DEF FlowInv, AskedFromBehind
  <2> DEFINE c == lastAppliedSequence
  <2> HIDE DEF c
  <2>3. \A k \in 1..Len(requests') : requests'[k] <= Len(transcript)
    <3>0. c = Len(transcript) /\ c \in Nat
      BY <2>1 DEF c
    <3>1. CASE requests' = <<c>>
      BY <3>0, <3>1
    <3>2. CASE requests' = Append(requests, c)
      BY <3>0, <3>2, <2>1, <2>2
    <3> QED BY <1>1, <2>2, <3>1, <3>2 DEF c
  <2> QED BY <1>1, <2>3 DEF AskedFromBehind
<1>3. Level' /\ Chained' /\ Covered'
  BY <1>1 DEF FlowInv, Level, Chained, Covered
<1> QED BY <1>2, <1>3 DEF FlowInv

LEMMA CloseFlow ==
  ASSUME PrefixInv, FlowInv, Disconnect \/ AppRestart
  PROVE  FlowInv'
<1>1. Idle.events = <<>>
  BY DEF Idle
<1>2. /\ requests' = <<>> /\ frames' = <<>> /\ fanout' = FALSE /\ UNCHANGED <<log, cache>>
      /\ \/ UNCHANGED <<bound, transcript, ingest>>
         \/ bound' = FALSE /\ transcript' = <<>> /\ ingest'.events = <<>>
  BY <1>1 DEF Disconnect, AppRestart, CloseSocket, phoneVars
<1>3. Level' /\ Covered'
  <2>1. CASE UNCHANGED <<bound, transcript, ingest>>
    BY <1>2, <2>1 DEF FlowInv, Level, Covered
  <2>2. CASE bound' = FALSE /\ transcript' = <<>> /\ ingest'.events = <<>>
    BY <1>2, <2>2 DEF Level, Covered
  <2> QED BY <1>2, <2>1, <2>2
<1>4. AskedFromBehind'
  BY <1>2 DEF AskedFromBehind
<1>5. Chained'
  <2>1. Consecutive(ingest'.events) /\ (ingest'.events # <<>> => ingest'.events[1].seq <= Len(transcript') + 1)
    <3>1. CASE UNCHANGED <<bound, transcript, ingest>>
      BY <3>1 DEF FlowInv, Chained, Chain
    <3>2. CASE ingest'.events = <<>>
      BY <3>2 DEF Consecutive
    <3> QED BY <1>2, <3>1, <3>2
  <2> QED BY <1>2, <2>1 DEF Chained, Chain
<1> QED BY <1>3, <1>4, <1>5 DEF FlowInv

LEMMA ReceiveFlow ==
  ASSUME PrefixInv, PrefixInv', FlowInv, Fits, Receive
  PROVE  FlowInv'
<1>0. /\ frames # <<>> /\ frames' = Tail(frames) /\ ingest = Idle
      /\ UNCHANGED <<log, fanout, requests, cache>>
      /\ \/ Head(frames).type = "error" /\ UNCHANGED <<bound, transcript, ingest>>
         \/ /\ bound' = TRUE /\ transcript' = IF bound THEN transcript ELSE Cached
            /\ ingest'.events = Head(frames).events
  BY DEF Receive, ensureSession, hostVars
<1>1. /\ Len(transcript) \in Nat /\ Len(log) \in Nat /\ frames \in Seq(Frame) /\ Len(frames) \in Nat
      /\ Len(cache) \in Nat /\ Len(cache) <= Len(log) /\ Len(transcript') \in Nat
      /\ ingest.events = <<>>
  BY <1>0, FlowTypes DEF PrefixInv, PhoneOK, Idle
<1>2. Len(Cached) = Len(cache)
  BY <1>1, CachedPrefix, LimitAssumption DEF Fits, Least
<1>3. /\ Len(transcript) <= Len(transcript') /\ bound' \in BOOLEAN
      /\ bound' => Len(transcript') = Len(cache)
      /\ ~bound' => transcript' = <<>> /\ ingest'.events = <<>>
  <2>1. /\ bound \in BOOLEAN /\ (bound => Len(transcript) = Len(cache))
        /\ ~bound => transcript = <<>> /\ ingest.events = <<>>
    BY DEF FlowInv, Level
  <2>2. CASE UNCHANGED <<bound, transcript, ingest>>
    BY <2>1, <2>2, <1>1
  <2>3. CASE bound' = TRUE /\ transcript' = IF bound THEN transcript ELSE Cached
    <3>1. CASE bound
      BY <2>1, <2>3, <3>1, <1>1
    <3>2. CASE ~bound
      BY <2>1, <2>3, <3>2, <1>1, <1>2
    <3> QED BY <3>1, <3>2
  <2> QED BY <1>0, <2>2, <2>3
<1>4. Level'
  BY <1>0, <1>3 DEF FlowInv, Level
<1>5. AskedFromBehind'
  <2>1. requests \in Seq(Nat) /\ \A k \in 1..Len(requests) : requests[k] <= Len(transcript)
    BY FlowTypes DEF FlowInv, AskedFromBehind
  <2>2. \A k \in 1..Len(requests) : requests[k] <= Len(transcript')
    BY <2>1, <1>1, <1>3
  <2> QED BY <1>0, <2>2 DEF AskedFromBehind
<1>6. ingest'.events = Head(frames).events
  <2>1. CASE Head(frames).type = "error" /\ UNCHANGED <<bound, transcript, ingest>>
    <3>1. Head(frames) = frames[1] /\ 1 \in 1..Len(frames)
      BY <1>0, <1>1
    <3>2. frames[1].type = "error" => frames[1].events = <<>>
      BY <3>1 DEF FlowInv, Chained, Chain, Continues
    <3> QED BY <1>1, <2>1, <3>1, <3>2
  <2> QED BY <1>0, <2>1
<1>7. Chain(Len(transcript), <<>>, frames)
  BY <1>1 DEF FlowInv, Chained
<1>8. /\ Chain(Len(transcript'), Head(frames).events, Tail(frames))
      /\ \A i \in Int : \A n \in Int :
           Ahead(Len(transcript), <<>>, frames, i + 1, n)
             => Ahead(Len(transcript'), Head(frames).events, Tail(frames), i, n)
  BY <1>0, <1>1, <1>3, <1>7, ChainMoves
<1>9. Chained'
  BY <1>0, <1>6, <1>8 DEF Chained
<1>10. Covered'
  <2>1. Len(Tail(frames)) + 1 = Len(frames) /\ Len(Tail(frames)) + 1 \in Int
    BY <1>0, <1>1
  <2>2. ASSUME fanout, NEW n \in 1..Len(log)
        PROVE  Ahead(Len(transcript'), Head(frames).events, Tail(frames), Len(Tail(frames)) + 1, n)
    <3>1. Ahead(Len(transcript), <<>>, frames, (Len(Tail(frames)) + 1) + 1, n)
      BY <2>1, <2>2, <1>1 DEF FlowInv, Covered, Cover
    <3>2. n \in Int
      OBVIOUS
    <3> QED BY <3>1, <3>2, <2>1, <1>8
  <2> QED BY <1>0, <1>6, <2>2 DEF Covered, Cover
<1> QED BY <1>4, <1>5, <1>9, <1>10 DEF FlowInv

LEMMA AcceptFlow ==
  ASSUME PrefixInv, PrefixInv', FlowInv, accept
  PROVE  FlowInv'
<1> DEFINE first == Head(ingest.events).seq
<1>0. /\ ingest.events # <<>> /\ ingest'.events = Tail(ingest.events)
      /\ UNCHANGED <<log, sub, fanout, connected, requests, frames, bound>>
      /\ \/ /\ UNCHANGED <<cache, transcript>>
            /\ first <= Len(cache) \/ first > Len(transcript) + 1
         \/ /\ Len(transcript) = Len(cache) /\ first = Len(cache) + 1
            /\ cache' = Append(cache, log[Len(cache) + 1])
            /\ transcript' = Append(transcript, log[Len(cache) + 1])
  BY AcceptCases
<1>1. /\ Len(transcript) \in Nat /\ Len(log) \in Nat /\ frames \in Seq(Frame) /\ Len(frames) \in Nat
      /\ Len(cache) \in Nat /\ Len(transcript') \in Nat /\ Len(cache') \in Nat
      /\ ingest.events \in Seq(Record) /\ cache \in Seq(Event) /\ transcript \in Seq(Event)
  BY FlowTypes DEF PrefixInv, PhoneOK
<1>2. first = ingest.events[1].seq /\ first \in Nat
  BY <1>0, <1>1, FirstType
<1> HIDE DEF first
<1>3. bound /\ Len(transcript) = Len(cache) /\ first <= Len(transcript) + 1
  BY <1>0, <1>2 DEF FlowInv, Level, Chained, Chain
<1>4. /\ Len(transcript') = Len(transcript) \/ Len(transcript') = Len(transcript) + 1
      /\ first <= Len(transcript') /\ Len(transcript') = Len(cache')
  <2>1. CASE UNCHANGED <<cache, transcript>> /\ (first <= Len(cache) \/ first > Len(transcript) + 1)
    BY <2>1, <1>1, <1>2, <1>3
  <2>2. CASE /\ Len(transcript) = Len(cache) /\ first = Len(cache) + 1
             /\ cache' = Append(cache, log[Len(cache) + 1])
             /\ transcript' = Append(transcript, log[Len(cache) + 1])
    BY <2>2, <1>1, <1>2
  <2> QED BY <1>0, <2>1, <2>2
<1>5. Level'
  BY <1>0, <1>3, <1>4 DEF FlowInv, Level
<1>6. AskedFromBehind'
  <2>1. requests \in Seq(Nat) /\ \A k \in 1..Len(requests) : requests[k] <= Len(transcript)
    BY FlowTypes DEF FlowInv, AskedFromBehind
  <2>2. \A k \in 1..Len(requests) : requests[k] <= Len(transcript')
    BY <2>1, <1>1, <1>4
  <2> QED BY <1>0, <2>2 DEF AskedFromBehind
<1>7. /\ Chain(Len(transcript'), Tail(ingest.events), frames)
      /\ \A i, n : n \in Nat /\ Ahead(Len(transcript), ingest.events, frames, i, n)
                     => Ahead(Len(transcript'), Tail(ingest.events), frames, i, n)
  <2>1. ingest.events[1].seq <= Len(transcript')
    BY <1>2, <1>4
  <2>2. Chain(Len(transcript), ingest.events, frames)
    BY DEF FlowInv, Chained
  <2> QED BY <1>0, <1>1, <1>4, <2>1, <2>2, ChainApplies
<1>8. Chained'
  BY <1>0, <1>7 DEF Chained
<1>9. Covered'
  <2>1. \A n \in 1..Len(log) : n \in Nat
    BY <1>1
  <2>2. fanout => \A n \in 1..Len(log) :
          Ahead(Len(transcript'), Tail(ingest.events), frames, Len(frames) + 1, n)
    BY <1>7, <2>1 DEF FlowInv, Covered, Cover
  <2> QED BY <1>0, <2>2 DEF Covered, Cover
<1> QED BY <1>5, <1>6, <1>8, <1>9 DEF FlowInv

LEMMA FinishFrameFlow ==
  ASSUME PrefixInv, FlowInv, FinishFrame
  PROVE  FlowInv'
<1>1. /\ UNCHANGED <<log, fanout, frames, cache, bound, transcript>>
      /\ ingest'.events = <<>> /\ ingest.events = <<>>
      /\ requests' = requests \/ requests' = Append(requests, lastAppliedSequence)
  BY DEF FinishFrame, subscribeCanonical, hostVars, Idle
<1>2. Level' /\ Chained' /\ Covered'
  BY <1>1 DEF FlowInv, Level, Chained, Covered
<1>3. AskedFromBehind'
  <2> DEFINE c == lastAppliedSequence
  <2>1. c = Len(transcript) /\ c \in Nat /\ requests \in Seq(Nat)
    BY CursorIsLength, FlowTypes DEF FlowInv
  <2>2. requests' = requests \/ requests' = Append(requests, c)
    BY <1>1
  <2> HIDE DEF c
  <2>3. \A k \in 1..Len(requests') : requests'[k] <= Len(transcript)
    BY <2>1, <2>2 DEF FlowInv, AskedFromBehind
  <2> QED BY <1>1, <2>3 DEF AskedFromBehind
<1> QED BY <1>2, <1>3 DEF FlowInv

\* The log only grows: what fits after a step fitted before it.
LEMMA FitsBack == PrefixInv /\ [Next]_vars /\ Fits' => Fits
<1> SUFFICES ASSUME PrefixInv, [Next]_vars, Fits' PROVE Fits
  OBVIOUS
<1>1. log \in Seq(Event)
  BY DEF PrefixInv, HostOK
<1>2. CASE \E e \in Event : log' = Append(log, e)
  <2>1. Len(log') = Len(log) + 1 /\ Len(log) \in Nat
    BY <1>1, <1>2
  <2> QED BY <2>1, LimitAssumption DEF Fits
<1>3. CASE log' = log
  BY <1>3 DEF Fits
<1> QED BY <1>2, <1>3, StepsOnReplica DEF ReplicaStep

FlowWhileFits == Fits => FlowInv

LEMMA FlowStep == PrefixInv /\ PrefixInv' /\ FlowWhileFits /\ [Next]_vars => FlowWhileFits'
<1> SUFFICES ASSUME PrefixInv, PrefixInv', FlowWhileFits, [Next]_vars, Fits' PROVE FlowInv'
  BY DEF FlowWhileFits
<1>0. Fits /\ FlowInv
  BY FitsBack DEF FlowWhileFits
<1>1. ASSUME NEW e \in Event, append(e) PROVE FlowInv'
  BY <1>0, <1>1, AppendFlow
<1>2. CASE Subscribe
  BY <1>0, <1>2, SubscribeFlow DEF Subscribe
<1>3. CASE RefuseRequest
  BY <1>0, <1>3, ErrorFlow DEF RefuseRequest, hostVars, phoneVars
<1>4. CASE Connect \/ Reselect
  BY <1>0, <1>4, RequestFlow
<1>5. CASE Disconnect \/ AppRestart
  BY <1>0, <1>5, CloseFlow
<1>6. CASE Receive
  BY <1>0, <1>6, ReceiveFlow
<1>7. CASE accept
  BY <1>0, <1>7, AcceptFlow
<1>8. CASE FinishFrame
  BY <1>0, <1>8, FinishFrameFlow
<1>9. CASE UNCHANGED vars
  BY <1>0, <1>9 DEF vars, hostVars, netVars, phoneVars, FlowInv, Level, AskedFromBehind, Chained, Covered
<1> QED BY <1>1, <1>2, <1>3, <1>4, <1>5, <1>6, <1>7, <1>8, <1>9 DEF Next

LEMMA FlowAlways == Spec => []FlowWhileFits
<1>1. Init => FlowWhileFits
  BY FlowInit DEF FlowWhileFits
<1> QED BY <1>1, PrefixAlways, FlowStep, PTL DEF Spec

LEMMA FlowImplies == PrefixInv /\ FlowInv => QuietMeansCurrent
<1> SUFFICES ASSUME PrefixInv, FlowInv, fanout, frames = <<>>, ingest = Idle
             PROVE  transcript = log
  BY DEF QuietMeansCurrent
<1>1. /\ transcript \in Seq(Event) /\ log \in Seq(Event) /\ Len(transcript) \in Nat /\ Len(log) \in Nat
      /\ Len(transcript) <= Len(log) /\ \A n \in 1..Len(transcript) : transcript[n] = log[n]
  BY FlowTypes DEF PrefixInv, PhoneOK, HostOK, Prefixes
<1>2. ASSUME NEW n \in 1..Len(log) PROVE n <= Len(transcript)
  <2>1. Ahead(Len(transcript), <<>>, <<>>, 1, n)
    BY DEF FlowInv, Covered, Cover, Idle
  <2> QED BY <2>1 DEF Ahead, Has
<1>3. Len(transcript) = Len(log)
  <2>1. CASE Len(log) = 0
    BY <2>1, <1>1
  <2>2. CASE Len(log) # 0
    <3>1. Len(log) \in 1..Len(log)
      BY <2>2, <1>1
    <3>2. Len(log) <= Len(transcript)
      BY <1>2, <3>1
    <3> QED BY <3>2, <1>1
  <2> QED BY <2>1, <2>2
<1> QED BY <1>1, <1>3, SeqEqual

\* No update is lost silently, while a cold start can read the whole cache: a
\* phone registered for live events with nothing left to receive, ingest or ask
\* for shows the whole log.  Beyond the read limit of the cache it need not.
THEOREM NoSilentLoss == Spec => [](Len(log) <= CacheReadLimit => QuietMeansCurrent)
<1>1. PrefixInv /\ FlowWhileFits => (Len(log) <= CacheReadLimit => QuietMeansCurrent)
  BY FlowImplies DEF FlowWhileFits, Fits
<1> QED BY <1>1, PrefixAlways, FlowAlways, PTL
=============================================================================
