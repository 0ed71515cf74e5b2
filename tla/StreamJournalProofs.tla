------------------------ MODULE StreamJournalProofs ------------------------
(***************************************************************************)
(* Theorems about StreamJournal, for any streams, any number of events,    *)
(* peers, disconnects, restarts and repeated subscriptions: the journal    *)
(* holds exactly what lies above its floor, a phone never meets a gap in a *)
(* stream it has in full detail, and a phone that is ready with nothing on *)
(* its way is current.                                                     *)
(*                                                                         *)
(* The argument follows the frames.  A frame is linked when the phone will *)
(* have everything before it by the time it arrives: because it has it     *)
(* now, because an earlier frame brings it, or because the stream is       *)
(* paused and no snapshot comes first.  A snapshot is never older than     *)
(* what precedes it, so links survive it.                                  *)
(***************************************************************************)
EXTENDS StreamJournal, InductionLemmas, TLAPS

Full  == Stream \ SummaryStream
Frame == [type : {"event", "snapshot", "complete"}, stream : Stream, cursor : Nat]
Request == [type : {"subscribe", "ack"}, cursors : [Stream -> Nat]]

\* The last cursor the phone has of a stream.
LastOf(s) == IF view[s] = Unknown THEN 0 ELSE view[s].cursor

IsSnapshot(f, s) == f.stream = s /\ f.type = "snapshot"
IsComplete(f, s) == f.stream = s /\ f.type = "complete"
IsEvent(f, s)    == f.stream = s /\ f.type = "event"
Carries(f, s)    == f.stream = s /\ f.type \in {"event", "snapshot"}

StoreOK ==
  /\ current \in [Stream -> 0 .. MaxEvents]
  /\ floor \in [Stream -> Nat] /\ \A s \in Stream : floor[s] <= current[s]
  /\ rows = [s \in Stream |-> rows[s]]
  /\ acked \in [Installation -> [Stream -> Nat]]
  /\ valid \subseteq Installation

WireOK ==
  /\ frames \in Seq(Frame) /\ answer \in Seq(Frame) /\ pending \in Seq(Frame)
  /\ requests \in Seq(Request)
  /\ \A k \in 1 .. Len(pending) : pending[k].type = "event" /\ pending[k].cursor > 0

PhoneOK ==
  /\ view \in [Stream -> [base : Nat, cursor : Nat]]
  /\ paused \subseteq Stream /\ syncing \subseteq Stream
  /\ \A s \in Stream : view[s] # Unknown => view[s].cursor <= current[s]

\* Nothing on its way is newer than the store.
Bounded ==
  /\ \A i \in 1 .. Len(frames) : frames[i].cursor <= current[frames[i].stream]
  /\ \A i \in 1 .. Len(answer) : answer[i].cursor <= current[answer[i].stream]
  /\ \A i \in 1 .. Len(pending) : pending[i].cursor <= current[pending[i].stream]

\* A subscription asks for a snapshot or from where the phone has been.
Requested ==
  \A k \in 1 .. Len(requests) : requests[k].type = "subscribe" =>
    \A s \in Stream : \/ requests[k].cursors[s] = None
                      \/ view[s] # Unknown /\ requests[k].cursors[s] <= view[s].cursor

\* The phone will have everything before cursor c of s when frame i arrives.
Linked(s, i, c) ==
  \/ c <= LastOf(s) + 1
  \/ s \in paused /\ \A h \in 1 .. Len(frames) : h < i => ~IsSnapshot(frames[h], s)
  \/ \E h \in 1 .. Len(frames) : h < i /\ Carries(frames[h], s) /\ c <= frames[h].cursor + 1

Links ==
  \A i \in 1 .. Len(frames) : \A s \in Full :
    IsEvent(frames[i], s) => Linked(s, i, frames[i].cursor)

\* A snapshot is not older than what the phone has or what comes before it.
Monotone ==
  \A i \in 1 .. Len(frames) : \A s \in Stream : IsSnapshot(frames[i], s) =>
    /\ LastOf(s) <= frames[i].cursor
    /\ \A h \in 1 .. Len(frames) : h < i /\ Carries(frames[h], s) => frames[h].cursor <= frames[i].cursor

\* Live events will find the phone at the end of the stream.
Caught == socket = "synchronized" => \A s \in Full : Linked(s, Len(frames) + 1, current[s] + 1)

\* The same of the answer that is being put together, and of what is held back.
AnswerLinks ==
  \A k \in 1 .. Len(answer) : \A s \in Full : IsEvent(answer[k], s) =>
    \/ answer[k].cursor <= LastOf(s) + 1
    \/ \E j \in 1 .. Len(answer) : j < k /\ Carries(answer[j], s) /\ answer[k].cursor <= answer[j].cursor + 1
AnswerMonotone ==
  socket = "syncing" => \A k \in 1 .. Len(answer) : \A s \in Stream : IsSnapshot(answer[k], s) =>
    /\ LastOf(s) <= answer[k].cursor
    /\ \A h \in 1 .. Len(frames) : Carries(frames[h], s) => frames[h].cursor <= answer[k].cursor
    /\ \A j \in 1 .. Len(answer) : j < k /\ Carries(answer[j], s) => answer[j].cursor <= answer[k].cursor
PendingLinks ==
  \A k \in 1 .. Len(pending) : \A s \in Full : pending[k].stream = s =>
    \/ pending[k].cursor <= LastOf(s) + 1
    \/ \E j \in 1 .. Len(answer) : Carries(answer[j], s) /\ pending[k].cursor <= answer[j].cursor + 1
    \/ \E j \in 1 .. Len(pending) : pending[j].stream = s /\ pending[k].cursor = pending[j].cursor + 1
Held ==
  socket = "syncing" => \A s \in Full :
    \/ current[s] <= LastOf(s)
    \/ \E j \in 1 .. Len(answer) : Carries(answer[j], s) /\ current[s] <= answer[j].cursor
    \/ \E j \in 1 .. Len(pending) : pending[j].stream = s /\ current[s] = pending[j].cursor

\* A sync.complete finds a phone that knows the stream.
Announced ==
  /\ \A i \in 1 .. Len(frames) : \A s \in Stream : IsComplete(frames[i], s) =>
       view[s] # Unknown \/ \E h \in 1 .. Len(frames) : h < i /\ IsSnapshot(frames[h], s)
  /\ \A k \in 1 .. Len(answer) : \A s \in Stream : IsComplete(answer[k], s) =>
       view[s] # Unknown \/ \E j \in 1 .. Len(answer) : j < k /\ IsSnapshot(answer[j], s)
KnownOnceReady ==
  /\ phase = "ready" => syncing = {}
  /\ phase # "offline" => \A s \in Stream \ syncing : view[s] # Unknown
  /\ phase = "offline" => socket = "closed" /\ frames = <<>>

TypesOK    == StoreOK /\ WireOK /\ PhoneOK
AnswerInv  == AnswerLinks /\ AnswerMonotone /\ PendingLinks /\ Held
JournalInv ==
  /\ TypesOK /\ JournalIsWhole /\ Bounded /\ Requested
  /\ Links /\ Monotone /\ Caught
  /\ AnswerInv /\ Announced /\ KnownOnceReady
-----------------------------------------------------------------------------
(* What the operators of the model return.                                 *)

\* The constants are numbers, streams and an order that lists every stream.
LEMMA Constants ==
  /\ None \in Nat /\ None = MaxEvents + 1 /\ MaxEvents \in Nat
  /\ HostStream \in Stream
  /\ DOMAIN StreamOrder = 1 .. Len(StreamOrder) /\ Len(StreamOrder) \in Nat \ {0}
  /\ \A k \in 1 .. Len(StreamOrder) : StreamOrder[k] \in Stream
  /\ \A s \in Stream : \E k \in 1 .. Len(StreamOrder) : s = StreamOrder[k]
<1>1. /\ DOMAIN StreamOrder = 1 .. Len(StreamOrder) /\ Len(StreamOrder) \in Nat \ {0}
      /\ \A k \in 1 .. Len(StreamOrder) : StreamOrder[k] \in Stream
  BY JournalAssumption
<1>2. \A s \in Stream : \E k \in 1 .. Len(StreamOrder) : s = StreamOrder[k]
  BY <1>1 DEF Stream
<1>3. HostStream \in Stream
  <2>1. 1 \in 1 .. Len(StreamOrder)
    BY <1>1
  <2> QED BY <1>1, <2>1, JournalAssumption
<1> QED BY <1>1, <1>2, <1>3, JournalAssumption DEF None

\* q lists the set C in order.
Lists(q, C) ==
  /\ q \in [1 .. Cardinality(C) -> C]
  /\ \A i, j \in 1 .. Cardinality(C) : i < j => q[i] < q[j]

\* A finite set of numbers can be listed in increasing order.
LEMMA ListExists ==
  ASSUME NEW n \in Nat, NEW C, C \subseteq 1 .. n
  PROVE  \E q : Lists(q, C)
<1> DEFINE D(m) == {c \in C : c <= m}
           T == {m \in 0 .. n : \E q : Lists(q, D(m))}
<1>a. \A c \in C : c \in Nat /\ 1 <= c /\ c <= n
  OBVIOUS
<1>0. ASSUME NEW m \in 0 .. n PROVE IsFiniteSet(D(m)) /\ Cardinality(D(m)) \in Nat
  <2>1. IsFiniteSet(1 .. n)
    BY FS_Interval
  <2>2. D(m) \in SUBSET (1 .. n)
    OBVIOUS
  <2>3. IsFiniteSet(D(m))
    BY <2>1, <2>2, FS_Subset
  <2> QED BY <2>3, FS_CardinalityType
<1>1. 0 \in T
  <2>0. \A c \in C : ~(c <= 0)
    BY <1>a
  <2>1. D(0) = {}
    BY <2>0
  <2>2. Cardinality(D(0)) = 0
    BY <2>1, FS_EmptySet
  <2>3. Lists([i \in 1 .. 0 |-> 0], D(0))
    <3> DEFINE E == D(0)
    <3>1. \A i \in 1 .. 0 : FALSE
      OBVIOUS
    <3>2. Cardinality(E) = 0
      BY <2>2
    <3> HIDE DEF E
    <3>3. Lists([i \in 1 .. 0 |-> 0], E)
      BY <3>1, <3>2 DEF Lists
    <3> QED BY <3>3 DEF E
  <2>4. 0 \in 0 .. n
    OBVIOUS
  <2> HIDE DEF D
  <2> QED BY <2>3, <2>4
<1>2. ASSUME NEW m \in 0 .. n, m \in T, m < n PROVE m + 1 \in T
  <2>1. PICK q : Lists(q, D(m))
    BY <1>2
  <2> DEFINE k == Cardinality(D(m))
  <2>2. m + 1 \in 0 .. n /\ k \in Nat /\ IsFiniteSet(D(m))
    BY <1>0, <1>2
  <2>3. CASE m + 1 \notin C
    <3>1. \A c \in C : c <= m + 1 <=> c <= m
      BY <1>a, <2>3
    <3>2. D(m + 1) = D(m)
      BY <3>1
    <3> HIDE DEF D
    <3> QED BY <2>1, <2>2, <3>2
  <2>4. CASE m + 1 \in C
    <3>0. /\ \A c \in C : c <= m + 1 <=> (c <= m \/ c = m + 1)
          /\ \A c \in C : c <= m => c < m + 1
          /\ ~(m + 1 <= m)
      BY <1>a
    <3>1. D(m + 1) = D(m) \cup {m + 1} /\ m + 1 \notin D(m) /\ \A c \in D(m) : c \in Nat /\ c < m + 1
      BY <1>a, <2>4, <3>0
    <3> HIDE DEF D
    <3>2. Cardinality(D(m + 1)) = k + 1
      BY <2>2, <3>1, FS_AddElement
    <3> DEFINE r == [i \in 1 .. k + 1 |-> IF i = k + 1 THEN m + 1 ELSE q[i]]
    <3>3. /\ q \in [1 .. k -> D(m)]
          /\ \A i, j \in 1 .. k : i < j => q[i] < q[j]
      BY <2>1 DEF Lists
    <3>4. \A i \in 1 .. k + 1 : i # k + 1 => i \in 1 .. k
      BY <2>2
    <3>5. r \in [1 .. k + 1 -> D(m + 1)]
      BY <3>1, <3>3, <3>4
    <3>6. ASSUME NEW i \in 1 .. k + 1, NEW j \in 1 .. k + 1, i < j PROVE r[i] < r[j]
      <4>1. i \in 1 .. k /\ r[i] = q[i]
        BY <2>2, <3>6
      <4>2. CASE j = k + 1
        BY <3>1, <3>3, <4>1, <4>2
      <4>3. CASE j # k + 1
        <5>1. j \in 1 .. k /\ r[j] = q[j]
          BY <3>4, <4>3
        <5> QED BY <3>3, <3>6, <4>1, <5>1
      <4> QED BY <4>2, <4>3
    <3>7. Lists(r, D(m + 1))
      <4> HIDE DEF r, k
      <4> QED BY <3>2, <3>5, <3>6 DEF Lists
    <3> QED BY <2>2, <3>7
  <2> QED BY <2>3, <2>4
<1>3. 0 .. n \subseteq T
  <2> HIDE DEF T
  <2> QED BY <1>1, <1>2, UpTo
<1>4. D(n) = C
  BY <1>a
<1>5. n \in T
  BY <1>3
<1> HIDE DEF D
<1> QED BY <1>4, <1>5

\* InOrder lists every cursor of the set, the smaller ones first.
LEMMA InOrderLists ==
  ASSUME NEW n \in Nat, NEW C, C \subseteq 1 .. n
  PROVE  /\ InOrder(C) \in Seq(C)
         /\ \A i, j \in 1 .. Len(InOrder(C)) : i < j => InOrder(C)[i] < InOrder(C)[j]
         /\ \A c \in C : \E i \in 1 .. Len(InOrder(C)) : InOrder(C)[i] = c
<1> DEFINE m == Cardinality(C)
           q == InOrder(C)
<1>0. IsFiniteSet(C) /\ m \in Nat
  <2>1. IsFiniteSet(1 .. n) /\ C \in SUBSET (1 .. n)
    BY FS_Interval
  <2>2. IsFiniteSet(C)
    BY <2>1, FS_Subset
  <2> QED BY <2>2, FS_CardinalityType
<1>1. \E r \in [1 .. m -> C] : \A i, j \in DOMAIN r : i < j => r[i] < r[j]
  BY ListExists DEF Lists
<1>2. q \in [1 .. m -> C] /\ \A i, j \in DOMAIN q : i < j => q[i] < q[j]
  BY <1>1 DEF InOrder
<1> HIDE DEF q
<1>3. q \in Injection(1 .. m, C)
  <2>1. ASSUME NEW i \in 1 .. m, NEW j \in 1 .. m, q[i] = q[j] PROVE i = j
    <3>1. q[i] \in Nat /\ q[j] \in Nat
      <4>1. q[i] \in C /\ q[j] \in C
        BY <1>2
      <4>2. \A c \in C : c \in Nat
        OBVIOUS
      <4> QED BY <4>1, <4>2
    <3>2. ~(i < j) /\ ~(j < i)
      BY <1>2, <2>1, <3>1
    <3> QED BY <1>0, <3>2
  <2> QED BY <1>2, <2>1 DEF Injection, IsInjective
<1>4. Cardinality(1 .. m) = m
  BY <1>0, FS_Interval
<1>5. q \in Surjection(1 .. m, C)
  BY <1>0, <1>3, <1>4, FS_Injection
<1>6. \A c \in C : \E i \in 1 .. m : q[i] = c
  BY <1>5 DEF Surjection
<1>7. q \in Seq(C) /\ Len(q) = m
  BY <1>0, <1>2
<1> QED BY <1>2, <1>6, <1>7 DEF q

\* The events that are shown are those of the cursors given, in order; in full
\* detail they are all of them.
LEMMA ShownEventsAre ==
  ASSUME NEW s \in Stream, NEW n \in Nat, NEW C, C \subseteq 1 .. n
  PROVE  /\ ShownEvents(s, C) \in Seq({Event(s, c) : c \in C})
         /\ s \in Full => \A c \in C : \E k \in 1 .. Len(ShownEvents(s, C)) :
                                         ShownEvents(s, C)[k] = Event(s, c)
         /\ \A i, j \in 1 .. Len(ShownEvents(s, C)) :
              ShownEvents(s, C)[i].cursor < ShownEvents(s, C)[j].cursor => i < j
<1> DEFINE D == {c \in C : Shown(s, c)}
           q == InOrder(D)
           e == ShownEvents(s, C)
           S == {Event(s, c) : c \in C}
<1>a. \A c \in C : c \in Nat
  OBVIOUS
<1>1. /\ q \in Seq(D)
      /\ \A i, j \in 1 .. Len(q) : i < j => q[i] < q[j]
      /\ \A c \in D : \E i \in 1 .. Len(q) : q[i] = c
  <2>1. D \subseteq 1 .. n
    OBVIOUS
  <2> HIDE DEF D
  <2> QED BY <2>1, InOrderLists
<1>2. e = [k \in 1 .. Len(q) |-> Event(s, q[k])]
  <2>1. DOMAIN q = 1 .. Len(q)
    BY <1>1
  <2> QED BY <2>1 DEF ShownEvents
<1>3. Len(q) \in Nat /\ \A k \in 1 .. Len(q) : q[k] \in C /\ q[k] \in D
  <2>1. D \subseteq C
    OBVIOUS
  <2>2. q \in Seq(D)
    BY <1>1
  <2> HIDE DEF D, q
  <2>3. Len(q) \in Nat /\ \A k \in 1 .. Len(q) : q[k] \in D
    BY <2>2
  <2> QED BY <2>1, <2>3
<1>4. s \in Full => D = C
  BY DEF Full, Shown
<1> HIDE DEF q, e, D
<1>5. e \in Seq(S) /\ Len(e) = Len(q)
  <2>1. e \in [1 .. Len(q) -> S]
    BY <1>2, <1>3
  <2> HIDE DEF S
  <2> QED BY <1>3, <2>1
<1>6. \A k \in 1 .. Len(e) : e[k] = Event(s, q[k]) /\ e[k].cursor = q[k]
  <2>1. \A k \in 1 .. Len(e) : e[k] = Event(s, q[k])
    BY <1>2, <1>5
  <2>2. \A c : Event(s, c).cursor = c
    BY DEF Event
  <2> QED BY <2>1, <2>2
<1>7. ASSUME NEW i \in 1 .. Len(e), NEW j \in 1 .. Len(e), e[i].cursor < e[j].cursor PROVE i < j
  <2>0. i \in 1 .. Len(q) /\ j \in 1 .. Len(q)
    BY <1>5
  <2>a. q[i] \in C /\ q[j] \in C
    BY <1>3, <2>0
  <2>1. q[i] < q[j] /\ q[i] \in Nat /\ q[j] \in Nat
    BY <1>6, <1>7, <1>a, <2>a
  <2>2. ~(j < i) /\ i # j
    BY <1>1, <1>5, <2>1
  <2> QED BY <1>3, <1>5, <2>2
<1>8. s \in Full => \A c \in C : \E k \in 1 .. Len(e) : e[k] = Event(s, c)
  BY <1>1, <1>4, <1>5, <1>6
<1> HIDE DEF S
<1> QED BY <1>5, <1>7, <1>8 DEF e, S
-----------------------------------------------------------------------------
(* The steps that touch the store only.                                    *)

DeliveryOK ==
  /\ WireOK /\ PhoneOK /\ Bounded /\ Requested
  /\ Links /\ Monotone /\ Caught
  /\ AnswerInv /\ Announced /\ KnownOnceReady

\* Delivery is untouched by what happens to the rest of the store.
LEMMA Unaffected ==
  ASSUME DeliveryOK, UNCHANGED <<current, serverVars, requests, frames, phoneVars>>
  PROVE  DeliveryOK'
<1> USE DEF DeliveryOK, serverVars, phoneVars
<1>1. WireOK' /\ PhoneOK' /\ Bounded' /\ Requested'
  BY DEF WireOK, PhoneOK, Bounded, Requested
<1>2. Links' /\ Monotone' /\ Caught'
  BY DEF Links, Monotone, Caught, Linked, LastOf
<1>3. AnswerLinks' /\ AnswerMonotone'
  BY DEF AnswerInv, AnswerLinks, AnswerMonotone, LastOf
<1>4. PendingLinks' /\ Held'
  BY DEF AnswerInv, PendingLinks, Held, LastOf
<1>5. Announced' /\ KnownOnceReady'
  BY DEF Announced, KnownOnceReady
<1> QED BY <1>1, <1>2, <1>3, <1>4, <1>5 DEF AnswerInv

\* The invariant in the three parts that most steps keep apart.
LEMMA InvParts ==
  /\ JournalInv <=> StoreOK /\ JournalIsWhole /\ DeliveryOK
  /\ JournalInv' <=> StoreOK' /\ JournalIsWhole' /\ DeliveryOK'
BY DEF JournalInv, TypesOK, DeliveryOK

\* Nothing is journalled, nothing was sent.
LEMMA InitInv == Init => JournalInv
<1> SUFFICES ASSUME Init PROVE JournalInv
  OBVIOUS
<1>1. StoreOK
  BY Constants DEF Init, StoreOK
<1>2. WireOK
  BY DEF Init, WireOK
<1>3. PhoneOK
  BY Constants DEF Init, PhoneOK, Unknown
<1>4. JournalIsWhole
  <2>1. \A s \in Stream : rows[s] = {} /\ floor[s] = 0 /\ current[s] = 0
    BY DEF Init
  <2>2. (0 + 1) .. 0 = {}
    OBVIOUS
  <2> QED BY <2>1, <2>2 DEF JournalIsWhole
<1>5. \A i \in 1 .. 0 : FALSE
  OBVIOUS
<1>6. Len(<<>>) = 0
  OBVIOUS
<1>7. Bounded /\ Requested /\ Links /\ Monotone /\ Caught
  BY <1>5, <1>6 DEF Init, Bounded, Requested, Links, Monotone, Caught
<1>8. AnswerInv /\ Announced
  BY <1>5, <1>6 DEF Init, AnswerInv, AnswerLinks, AnswerMonotone, PendingLinks, Held, Announced
<1>9. KnownOnceReady
  BY DEF Init, KnownOnceReady
<1> QED BY <1>1, <1>2, <1>3, <1>4, <1>7, <1>8, <1>9 DEF JournalInv, TypesOK

\* Compaction goes no further than the stream.
LEMMA SafeCursorBound ==
  ASSUME StoreOK, NEW s \in Stream
  PROVE  safeCursor(s) \in Nat /\ safeCursor(s) <= current[s]
<1> DEFINE A == Acknowledged(s) \cup {current[s]}
<1>1. current[s] \in Nat
  BY Constants DEF StoreOK
<1>2. A \subseteq Nat
  <2>1. \A i \in valid : acked[i][s] \in Nat
    BY DEF StoreOK
  <2> QED BY <1>1, <2>1 DEF Acknowledged
<1>3. current[s] \in A
  OBVIOUS
<1> HIDE DEF A
<1>4. \E c \in A : \A a \in A : c <= a
  BY <1>2, <1>3, Least
<1>5. CASE Acknowledged(s) = {}
  BY <1>1, <1>5 DEF safeCursor
<1>6. CASE Acknowledged(s) # {}
  <2>1. safeCursor(s) = CHOOSE c \in A : \A a \in A : c <= a
    BY <1>6 DEF safeCursor, A
  <2>2. safeCursor(s) \in A /\ \A a \in A : safeCursor(s) <= a
    BY <1>4, <2>1
  <2> QED BY <1>2, <1>3, <2>2
<1> QED BY <1>5, <1>6

\* Compaction raises floors, up to the cursor that is safe.
LEMMA CompactStep ==
  ASSUME JournalInv, compactLegacyEvents
  PROVE  JournalInv'
<1>0. StoreOK /\ JournalIsWhole /\ DeliveryOK
  BY InvParts
<1>1. PICK new \in [Stream -> 0 .. MaxEvents] :
        /\ \A s \in Stream : new[s] = floor[s] \/ new[s] \in floor[s] .. safeCursor(s)
        /\ floor' = new
        /\ rows' = [s \in Stream |-> {c \in rows[s] : c > new[s]}]
        /\ UNCHANGED <<current, acked, valid, serverVars, requests, frames, phoneVars>>
  BY DEF compactLegacyEvents
<1>2. ASSUME NEW s \in Stream
      PROVE  /\ new[s] \in Nat /\ floor[s] <= new[s] /\ new[s] <= current[s]
             /\ current[s] \in Nat /\ floor[s] \in Nat
  <2>1. /\ current[s] \in Nat /\ floor[s] \in Nat /\ floor[s] <= current[s]
        /\ new[s] \in Nat
    BY <1>0, <1>1, Constants DEF StoreOK
  <2>2. safeCursor(s) \in Nat /\ safeCursor(s) <= current[s]
    BY <1>0, SafeCursorBound
  <2> QED BY <1>1, <2>1, <2>2
<1>3. StoreOK'
  <2>1. floor' \in [Stream -> Nat] /\ rows' = [s \in Stream |-> rows'[s]]
    BY <1>1
  <2> QED BY <1>0, <1>1, <1>2, <2>1 DEF StoreOK
<1>4. JournalIsWhole'
  <2>1. ASSUME NEW s \in Stream PROVE rows'[s] = (floor'[s] + 1) .. current'[s]
    <3>1. rows'[s] = {c \in rows[s] : c > new[s]} /\ rows[s] = (floor[s] + 1) .. current[s]
      BY <1>0, <1>1 DEF JournalIsWhole
    <3>2. rows'[s] = {c \in (floor[s] + 1) .. current[s] : c > new[s]}
      BY <3>1
    <3>3. {c \in (floor[s] + 1) .. current[s] : c > new[s]} = (new[s] + 1) .. current[s]
      BY <1>2
    <3> QED BY <1>1, <3>2, <3>3
  <2> QED BY <2>1 DEF JournalIsWhole
<1>5. DeliveryOK'
  BY <1>0, <1>1, Unaffected
<1> QED BY <1>3, <1>4, <1>5, InvParts

\* Another phone acknowledges or is revoked.
LEMMA PeerStep ==
  ASSUME JournalInv, NEW i \in Peer, PeerAcks(i) \/ Revoke(i)
  PROVE  JournalInv'
<1>0. StoreOK /\ JournalIsWhole /\ DeliveryOK
  BY InvParts
<1>1. UNCHANGED <<current, rows, floor>> /\ UNCHANGED <<current, serverVars, requests, frames, phoneVars>>
  BY DEF PeerAcks, Revoke
<1>2. acked' \in [Installation -> [Stream -> Nat]] /\ valid' \subseteq Installation
  <2>1. CASE PeerAcks(i)
    <3>1. PICK c \in 0 .. current[HostStream] : acked' = [acked EXCEPT ![i][HostStream] = c]
      BY <2>1 DEF PeerAcks
    <3>2. c \in Nat
      <4>1. current[HostStream] \in Nat
        BY <1>0, Constants DEF StoreOK
      <4> QED BY <4>1
    <3>3. valid' = valid
      BY <2>1 DEF PeerAcks
    <3> QED BY <1>0, <3>1, <3>2, <3>3, Constants DEF StoreOK
  <2>2. CASE Revoke(i)
    BY <1>0, <2>2 DEF Revoke, StoreOK
  <2> QED BY <2>1, <2>2
<1>3. StoreOK' /\ JournalIsWhole'
  BY <1>0, <1>1, <1>2 DEF StoreOK, JournalIsWhole
<1>4. DeliveryOK'
  BY <1>0, <1>1, Unaffected
<1> QED BY <1>3, <1>4, InvParts

\* The request at the head of the queue is taken.
LEMMA RequestTaken ==
  ASSUME WireOK, Requested, requests # <<>>, requests' = Tail(requests), view' = view
  PROVE  /\ requests' \in Seq(Request) /\ Requested'
         /\ Head(requests) \in Request /\ Head(requests) = requests[1] /\ 1 \in 1 .. Len(requests)
<1>1. requests \in Seq(Request)
  BY DEF WireOK
<1>2. /\ requests' \in Seq(Request) /\ Len(requests') = Len(requests) - 1
      /\ Len(requests) \in Nat \ {0}
      /\ \A k \in 1 .. Len(requests') : requests'[k] = requests[k + 1] /\ k + 1 \in 1 .. Len(requests)
  BY <1>1
<1>3. Requested'
  BY <1>2 DEF Requested
<1>4. 1 \in 1 .. Len(requests)
  BY <1>2
<1> QED BY <1>1, <1>2, <1>3, <1>4

\* A request joins the queue; a subscription asks from where the phone is.
LEMMA RequestSent ==
  ASSUME WireOK, PhoneOK, Requested, NEW r \in Request, requests' = Append(requests, r), view' = view,
         r.type = "subscribe" => \A s \in Stream : r.cursors[s] = None \/ r.cursors[s] = view[s].cursor
  PROVE  requests' \in Seq(Request) /\ Requested'
<1>1. requests \in Seq(Request) /\ Len(requests) \in Nat
  BY DEF WireOK
<1>2. /\ requests' \in Seq(Request) /\ Len(requests') = Len(requests) + 1
      /\ \A k \in 1 .. Len(requests) : requests'[k] = requests[k]
      /\ requests'[Len(requests) + 1] = r
  BY <1>1
<1>3. ASSUME NEW k \in 1 .. Len(requests'), requests'[k].type = "subscribe", NEW s \in Stream
      PROVE  requests'[k].cursors[s] = None \/ (view[s] # Unknown /\ requests'[k].cursors[s] <= view[s].cursor)
  <2>1. CASE k = Len(requests) + 1
    <3>1. view[s].cursor \in Nat
      BY DEF PhoneOK
    <3>2. requests'[k].cursors[s] = None \/ requests'[k].cursors[s] = view[s].cursor
      BY <1>2, <1>3, <2>1
    <3>3. view[s] = Unknown => view[s].cursor = None
      BY DEF Unknown
    <3> DEFINE x == requests'[k].cursors[s]
               y == view[s].cursor
    <3>4. x = None \/ x = y
      BY <3>2
    <3>5. y <= y
      BY <3>1
    <3>6. x = None \/ (view[s] # Unknown /\ x <= y)
      <4>1. view[s] = Unknown => y = None
        BY <3>3
      <4> HIDE DEF x, y
      <4> QED BY <3>4, <3>5, <4>1
    <3> QED BY <3>6
  <2>2. CASE k # Len(requests) + 1
    <3>1. k \in 1 .. Len(requests)
      BY <1>1, <1>2, <2>2
    <3>2. requests'[k] = requests[k]
      BY <1>2, <3>1
    <3>3. requests[k].type = "subscribe"
      BY <1>3, <3>2
    <3>4. requests[k].cursors[s] = None \/ (view[s] # Unknown /\ requests[k].cursors[s] <= view[s].cursor)
      BY <3>1, <3>3 DEF Requested
    <3> QED BY <3>2, <3>4
  <2> QED BY <2>1, <2>2
<1>4. Requested'
  BY <1>3 DEF Requested
<1> QED BY <1>2, <1>4

\* A request names the cursors the phone has, or none.
LEMMA RequestOfIs ==
  ASSUME PhoneOK, NEW forced
  PROVE  /\ RequestOf(view, forced) \in Request
         /\ \A s \in Stream : \/ RequestOf(view, forced).cursors[s] = None
                              \/ RequestOf(view, forced).cursors[s] = view[s].cursor
<1>1. \A s \in Stream : view[s].cursor \in Nat
  BY DEF PhoneOK
<1> QED BY <1>1, Constants DEF RequestOf, Request

\* An acknowledgement reaches the bridge.
LEMMA AckStep ==
  ASSUME JournalInv, ackCursor
  PROVE  JournalInv'
<1>0. StoreOK /\ JournalIsWhole /\ DeliveryOK /\ WireOK /\ Requested
  BY InvParts DEF DeliveryOK
<1>1. /\ requests # <<>> /\ requests' = Tail(requests)
      /\ acked' = [acked EXCEPT ![Phone] = Head(requests).cursors]
      /\ UNCHANGED <<current, rows, floor, valid, serverVars, frames, phoneVars>>
  BY DEF ackCursor
<1>2. requests' \in Seq(Request) /\ Requested' /\ Head(requests) \in Request
  BY <1>0, <1>1, RequestTaken DEF phoneVars
<1>3. StoreOK' /\ JournalIsWhole'
  <2>1. acked' \in [Installation -> [Stream -> Nat]]
    BY <1>0, <1>1, <1>2 DEF StoreOK, Request
  <2> QED BY <1>0, <1>1, <2>1 DEF StoreOK, JournalIsWhole
<1> USE DEF DeliveryOK, serverVars, phoneVars
<1>4. WireOK' /\ PhoneOK' /\ Bounded'
  BY <1>0, <1>1, <1>2 DEF WireOK, PhoneOK, Bounded
<1>5. Links' /\ Monotone' /\ Caught'
  BY <1>0, <1>1 DEF Links, Monotone, Caught, Linked, LastOf
<1>6. AnswerInv'
  BY <1>0, <1>1 DEF AnswerInv, AnswerLinks, AnswerMonotone, PendingLinks, Held, LastOf
<1>7. Announced' /\ KnownOnceReady'
  BY <1>0, <1>1 DEF Announced, KnownOnceReady
<1> QED BY <1>2, <1>3, <1>4, <1>5, <1>6, <1>7, InvParts
-----------------------------------------------------------------------------
(* The phone asks.                                                         *)

\* Asking disturbs nothing but the queue of requests and the phone's phase.
LEMMA AskStep ==
  ASSUME JournalInv, UNCHANGED <<storeVars, answer, pending, frames, view, paused>>,
         requests' \in Seq(Request), Requested', KnownOnceReady', syncing' \subseteq Stream,
         \/ socket' = socket
         \/ socket' = "open"
  PROVE  JournalInv'
<1>0. StoreOK /\ JournalIsWhole /\ DeliveryOK
  BY InvParts
<1>1. StoreOK' /\ JournalIsWhole'
  BY <1>0 DEF StoreOK, JournalIsWhole, storeVars
<1> USE DEF DeliveryOK, storeVars
<1>2. WireOK' /\ PhoneOK' /\ Bounded'
  BY <1>0 DEF WireOK, PhoneOK, Bounded
<1>3. Links' /\ Monotone'
  BY <1>0 DEF Links, Monotone, Linked, LastOf
<1>4. Caught'
  BY <1>0 DEF Caught, Linked, LastOf
<1>5. AnswerLinks' /\ AnswerMonotone' /\ PendingLinks'
  <2>1. AnswerLinks' /\ PendingLinks'
    BY <1>0 DEF AnswerInv, AnswerLinks, PendingLinks, LastOf
  <2>2. AnswerMonotone'
    BY <1>0 DEF AnswerInv, AnswerMonotone, LastOf
  <2> QED BY <2>1, <2>2
<1>6. Held'
  BY <1>0 DEF AnswerInv, Held, LastOf
<1>7. Announced'
  BY <1>0 DEF Announced
<1> QED BY <1>1, <1>2, <1>3, <1>4, <1>5, <1>6, <1>7, InvParts DEF AnswerInv

\* The phone connects or selects a session again, and asks.
LEMMA SubscribingStep ==
  ASSUME JournalInv, Connect \/ Reselect
  PROVE  JournalInv'
<1>0. WireOK /\ PhoneOK /\ Requested
  BY InvParts DEF DeliveryOK
<1>1. /\ Subscribes(view, force)
      /\ UNCHANGED <<storeVars, answer, pending, frames, view, paused>>
      /\ socket' = socket \/ socket' = "open"
  BY DEF Connect, Reselect, serverVars
<1>2. requests' \in Seq(Request) /\ Requested'
  <2>1. requests' = Append(requests, RequestOf(view, force)) /\ view' = view
    BY <1>1 DEF Subscribes
  <2> HIDE DEF Requested
  <2> QED BY <1>0, <2>1, RequestOfIs, RequestSent
<1>3. KnownOnceReady' /\ syncing' \subseteq Stream
  BY <1>1 DEF Subscribes, KnownOnceReady
<1> QED BY <1>1, <1>2, <1>3, AskStep

\* The phone sends an acknowledgement.
LEMMA SendAckStep ==
  ASSUME JournalInv, SendAck
  PROVE  JournalInv'
<1>0. WireOK /\ PhoneOK /\ Requested /\ KnownOnceReady
  BY InvParts DEF DeliveryOK
<1> DEFINE r == [type |-> "ack", cursors |-> [s \in Stream |-> view[s].cursor]]
<1>1. /\ requests' = Append(requests, r)
      /\ UNCHANGED <<storeVars, answer, pending, frames, view, paused, socket, syncing, phase>>
  BY DEF SendAck, serverVars
<1>2. r \in Request /\ r.type = "ack"
  BY <1>0 DEF Request, PhoneOK
<1> HIDE DEF r
<1>3. requests' \in Seq(Request) /\ Requested'
  BY <1>0, <1>1, <1>2, RequestSent
<1>4. KnownOnceReady' /\ syncing' \subseteq Stream
  BY <1>0, <1>1 DEF KnownOnceReady, PhoneOK
<1> QED BY <1>1, <1>3, <1>4, AskStep
-----------------------------------------------------------------------------
(* The socket closes.                                                      *)

\* A closed connection takes its frames with it.
LEMMA CloseStep ==
  ASSUME JournalInv, CloseSocket, UNCHANGED storeVars, PhoneOK'
  PROVE  JournalInv'
<1>0. StoreOK /\ JournalIsWhole
  BY InvParts
<1>1. StoreOK' /\ JournalIsWhole'
  BY <1>0 DEF StoreOK, JournalIsWhole, storeVars
<1>2. \A i \in 1 .. 0 : FALSE
  OBVIOUS
<1>3. Len(<<>>) = 0
  OBVIOUS
<1>4. WireOK'
  BY DEF CloseSocket, WireOK
<1>5. Bounded' /\ Requested' /\ Links' /\ Monotone' /\ Caught'
  BY <1>2, <1>3 DEF CloseSocket, Bounded, Requested, Links, Monotone, Caught
<1>6. AnswerInv' /\ Announced' /\ KnownOnceReady'
  BY <1>2, <1>3 DEF CloseSocket, AnswerInv, AnswerLinks, AnswerMonotone, PendingLinks, Held, Announced,
                    KnownOnceReady
<1> QED BY <1>1, <1>4, <1>5, <1>6, InvParts DEF DeliveryOK

\* A protocol failure, a disconnect and an app restart close the connection.
LEMMA ClosingSteps ==
  ASSUME JournalInv, ProtocolFailure \/ Disconnect \/ AppRestart
  PROVE  JournalInv'
<1>0. StoreOK /\ PhoneOK
  BY InvParts DEF DeliveryOK
<1>1. CASE ProtocolFailure \/ Disconnect
  <2>1. CloseSocket /\ UNCHANGED storeVars /\ UNCHANGED <<view, paused, syncing>>
    BY <1>1 DEF ProtocolFailure, Disconnect
  <2>2. PhoneOK'
    BY <1>0, <2>1 DEF PhoneOK, storeVars
  <2> QED BY <2>1, <2>2, CloseStep
<1>2. CASE AppRestart
  <2>1. /\ CloseSocket /\ UNCHANGED storeVars /\ paused' = {} /\ syncing' = {}
        /\ view' = [s \in Stream |->
             IF s = HostStream THEN view[s] ELSE [view[s] EXCEPT !.base = view[s].cursor]]
    BY <1>2 DEF AppRestart
  <2>2. view \in [Stream -> [base : Nat, cursor : Nat]]
    BY <1>0 DEF PhoneOK
  <2>3. ASSUME NEW s \in Stream
        PROVE  /\ view'[s] \in [base : Nat, cursor : Nat] /\ view'[s].cursor = view[s].cursor
               /\ view[s] = Unknown => view'[s] = Unknown
    <3>1. CASE s = HostStream
      BY <2>1, <2>2, <3>1
    <3>2. CASE s # HostStream
      <4>1. view'[s] = [view[s] EXCEPT !.base = view[s].cursor]
        BY <2>1, <3>2
      <4>2. view[s] \in [base : Nat, cursor : Nat]
        BY <2>2
      <4>3. view'[s] \in [base : Nat, cursor : Nat] /\ view'[s].cursor = view[s].cursor
        BY <4>1, <4>2
      <4>4. view[s] = Unknown => view'[s] = Unknown
        BY <4>1 DEF Unknown
      <4> QED BY <4>3, <4>4
    <3> QED BY <3>1, <3>2
  <2>4. view' \in [Stream -> [base : Nat, cursor : Nat]]
    BY <2>1, <2>3
  <2>5. PhoneOK'
    BY <1>0, <2>1, <2>3, <2>4 DEF PhoneOK, storeVars
  <2> QED BY <2>1, <2>5, CloseStep
<1> QED BY <1>1, <1>2
-----------------------------------------------------------------------------
(* An event is produced.                                                   *)

\* The bound on the events of all streams bounds every stream.
LEMMA ProducedBound ==
  ASSUME StoreOK, Cardinality(Produced) < MaxEvents, NEW s \in Stream
  PROVE  current[s] \in Nat /\ current[s] + 1 <= MaxEvents
<1>0. current[s] \in Nat /\ \A t \in Stream : current[t] \in Nat /\ current[t] <= MaxEvents
  BY Constants DEF StoreOK
<1>1. IsFiniteSet(Stream)
  <2>1. StreamOrder \in Surjection(1 .. Len(StreamOrder), Stream)
    <3>1. StreamOrder \in [1 .. Len(StreamOrder) -> Stream]
      BY Constants, JournalAssumption
    <3> QED BY <3>1, Constants DEF Surjection
  <2>2. IsFiniteSet(1 .. Len(StreamOrder))
    BY Constants, FS_Interval
  <2> QED BY <2>1, <2>2, FS_Surjection
<1>2. IsFiniteSet(Produced)
  <2>1. IsFiniteSet(1 .. MaxEvents)
    BY Constants, FS_Interval
  <2>2. IsFiniteSet(Stream \X (1 .. MaxEvents))
    BY <1>1, <2>1, FS_Product
  <2>3. \A t \in Stream : \A k \in 1 .. current[t] : k \in 1 .. MaxEvents
    BY <1>0, Constants
  <2>4. Produced \in SUBSET (Stream \X (1 .. MaxEvents))
    BY <2>3 DEF Produced
  <2> QED BY <2>2, <2>4, FS_Subset
<1> DEFINE f == [k \in 1 .. current[s] |-> <<s, k>>]
<1>3. f \in Injection(1 .. current[s], Produced)
  <2>1. \A k \in 1 .. current[s] : <<s, k>> \in Produced
    BY DEF Produced
  <2> QED BY <2>1 DEF Injection, IsInjective
<1>4. Cardinality(1 .. current[s]) = current[s]
  BY <1>0, FS_Interval
<1>5. Cardinality(1 .. current[s]) <= Cardinality(Produced)
  <2> HIDE DEF f
  <2> QED BY <1>2, <1>3, FS_Injection
<1>6. Cardinality(Produced) \in Nat
  BY <1>2, FS_CardinalityType
<1> QED BY <1>0, <1>4, <1>5, <1>6, Constants

\* Links survive frames that come after them.
LEMMA LinkedGrows ==
  ASSUME Len(frames) \in Nat, Len(frames') \in Nat, Len(frames) <= Len(frames'),
         \A h \in 1 .. Len(frames) : frames'[h] = frames[h],
         view' = view, paused' = paused,
         NEW s, NEW i \in 1 .. Len(frames) + 1, NEW c, Linked(s, i, c)
  PROVE  Linked(s, i, c)'
<1>1. \A h \in 1 .. Len(frames) : h \in 1 .. Len(frames')
  OBVIOUS
<1>2. \A h \in 1 .. Len(frames') : h < i => h \in 1 .. Len(frames)
  OBVIOUS
<1>3. CASE c <= LastOf(s) + 1
  BY <1>3 DEF Linked, LastOf
<1>4. CASE s \in paused /\ \A h \in 1 .. Len(frames) : h < i => ~IsSnapshot(frames[h], s)
  <2>1. \A h \in 1 .. Len(frames') : h < i => ~IsSnapshot(frames'[h], s)
    BY <1>2, <1>4
  <2> QED BY <1>4, <2>1 DEF Linked
<1>5. CASE \E h \in 1 .. Len(frames) : h < i /\ Carries(frames[h], s) /\ c <= frames[h].cursor + 1
  <2>1. PICK h \in 1 .. Len(frames) : h < i /\ Carries(frames[h], s) /\ c <= frames[h].cursor + 1
    BY <1>5
  <2>2. h \in 1 .. Len(frames') /\ frames'[h] = frames[h]
    BY <1>1
  <2>3. \E g \in 1 .. Len(frames') : g < i /\ Carries(frames'[g], s) /\ c <= frames'[g].cursor + 1
    BY <2>1, <2>2
  <2> QED BY <2>3 DEF Linked
<1> QED BY <1>3, <1>4, <1>5 DEF Linked

\* An event is journalled and forwarded, or held back while a request is answered.
LEMMA AppendStep ==
  ASSUME JournalInv, NEW s \in Stream, NEW isSummary \in BOOLEAN, s \in SummaryStream \/ isSummary,
         append(s, isSummary)
  PROVE  JournalInv'
<1> DEFINE c == current[s] + 1
           e == Event(s, c)
<1>0. /\ StoreOK /\ JournalIsWhole /\ WireOK /\ PhoneOK /\ Bounded /\ Requested
      /\ Links /\ Monotone /\ Caught /\ Announced /\ KnownOnceReady
      /\ AnswerLinks /\ AnswerMonotone /\ PendingLinks /\ Held
  BY InvParts DEF DeliveryOK, AnswerInv
<1>1. /\ Cardinality(Produced) < MaxEvents
      /\ current' = [current EXCEPT ![s] = c]
      /\ rows' = [rows EXCEPT ![s] = @ \cup {c}]
      /\ pending' = IF socket = "syncing" THEN Append(pending, e) ELSE pending
      /\ frames' = IF socket = "synchronized" /\ (s \in SummaryStream => isSummary)
                   THEN Append(frames, e) ELSE frames
      /\ UNCHANGED <<floor, acked, valid, socket, answer, requests, view, paused, syncing, phase>>
  BY DEF append, phoneVars
<1>2. current[s] \in Nat /\ c \in Nat /\ c <= MaxEvents
  BY <1>0, <1>1, ProducedBound
<1>3. e \in Frame /\ e.type = "event" /\ e.stream = s /\ e.cursor = c
  BY <1>2 DEF Event, Frame
<1>4. current' \in [Stream -> 0 .. MaxEvents] /\ current'[s] = c
      /\ \A t \in Stream : current[t] \in Nat /\ current'[t] \in Nat /\ current[t] <= current'[t]
                           /\ (t # s => current'[t] = current[t])
  BY <1>0, <1>1, <1>2, Constants DEF StoreOK
<1> HIDE DEF e
<1>5. StoreOK'
  <2>1. \A t \in Stream : floor[t] \in Nat /\ floor[t] <= current[t]
    BY <1>0 DEF StoreOK
  <2>2. \A t \in Stream : floor[t] <= current'[t]
    BY <1>4, <2>1
  <2>3. rows' = [t \in Stream |-> rows'[t]]
    BY <1>0, <1>1 DEF StoreOK
  <2> QED BY <1>0, <1>1, <1>4, <2>2, <2>3 DEF StoreOK
<1>6. JournalIsWhole'
  <2>1. ASSUME NEW t \in Stream PROVE rows'[t] = (floor'[t] + 1) .. current'[t]
    <3>1. rows[t] = (floor[t] + 1) .. current[t] /\ rows = [u \in Stream |-> rows[u]]
      BY <1>0 DEF JournalIsWhole, StoreOK
    <3>2. CASE t # s
      BY <1>1, <1>4, <3>1, <3>2
    <3>3. CASE t = s
      <4>1. rows'[s] = ((floor[s] + 1) .. current[s]) \cup {c}
        BY <1>1, <3>1, <3>3
      <4>2. floor[s] \in Nat /\ floor[s] <= current[s]
        BY <1>0 DEF StoreOK
      <4>3. ((floor[s] + 1) .. current[s]) \cup {c} = (floor[s] + 1) .. c
        BY <1>2, <4>2
      <4> QED BY <1>1, <1>4, <3>3, <4>1, <4>3
    <3> QED BY <3>2, <3>3
  <2> QED BY <2>1 DEF JournalIsWhole
<1> HIDE DEF c
<1>7. /\ frames' \in Seq(Frame) /\ Len(frames) \in Nat /\ Len(frames') \in Nat /\ Len(frames) <= Len(frames')
      /\ \A h \in 1 .. Len(frames) : frames'[h] = frames[h] /\ h \in 1 .. Len(frames') /\ frames[h] \in Frame
      /\ \A i \in 1 .. Len(frames') : i \in 1 .. Len(frames) \/ (/\ i = Len(frames) + 1 /\ frames'[i] = e
                                                                /\ socket = "synchronized")
      /\ socket = "synchronized" /\ s \in Full =>
           Len(frames') = Len(frames) + 1 /\ frames'[Len(frames) + 1] = e
  <2>1. frames \in Seq(Frame)
    BY <1>0 DEF WireOK
  <2>2. CASE frames' = Append(frames, e) /\ socket = "synchronized"
    BY <1>3, <2>1, <2>2
  <2>3. CASE frames' = frames /\ ~(socket = "synchronized" /\ s \in Full)
    BY <2>1, <2>3
  <2>4. s \in Full => ~(s \in SummaryStream)
    BY DEF Full
  <2> QED BY <1>1, <2>2, <2>3, <2>4
<1>8. /\ pending' \in Seq(Frame) /\ Len(pending) \in Nat /\ Len(pending') \in Nat /\ Len(pending) <= Len(pending')
      /\ \A h \in 1 .. Len(pending) : pending'[h] = pending[h] /\ h \in 1 .. Len(pending') /\ pending[h] \in Frame
      /\ \A i \in 1 .. Len(pending') : i \in 1 .. Len(pending) \/ (/\ i = Len(pending) + 1 /\ pending'[i] = e
                                                                  /\ socket = "syncing")
      /\ socket = "syncing" => Len(pending') = Len(pending) + 1 /\ pending'[Len(pending) + 1] = e
  <2>1. pending \in Seq(Frame)
    BY <1>0 DEF WireOK
  <2>2. CASE pending' = Append(pending, e) /\ socket = "syncing"
    BY <1>3, <2>1, <2>2
  <2>3. CASE pending' = pending /\ socket # "syncing"
    BY <2>1, <2>3
  <2> QED BY <1>1, <2>2, <2>3
<1>9. WireOK'
  <2>0. e.cursor > 0
    BY <1>2, <1>3 DEF c
  <2>1. \A k \in 1 .. Len(pending') : pending'[k].type = "event" /\ pending'[k].cursor > 0
    BY <1>0, <1>3, <1>8, <2>0 DEF WireOK
  <2> QED BY <1>0, <1>1, <1>7, <1>8, <2>1 DEF WireOK
<1>10. PhoneOK'
  <2>1. \A t \in Stream : view[t] # Unknown => view[t].cursor <= current'[t]
    <3>1. \A t \in Stream : view[t].cursor \in Nat
      BY <1>0 DEF PhoneOK
    <3>2. \A t \in Stream : view[t] # Unknown => view[t].cursor <= current[t]
      BY <1>0 DEF PhoneOK
    <3> QED BY <1>4, <3>1, <3>2
  <2> QED BY <1>0, <1>1, <2>1 DEF PhoneOK
<1>11. Bounded'
  <2>0. \A f \in Frame : f.stream \in Stream /\ f.cursor \in Nat
    BY DEF Frame
  <2>1. \A f \in Frame : f.cursor <= current[f.stream] => f.cursor <= current'[f.stream]
    BY <1>4, <2>0
  <2>2. e.cursor <= current'[e.stream]
    BY <1>2, <1>3, <1>4
  <2>3. \A i \in 1 .. Len(frames') : frames'[i].cursor <= current'[frames'[i].stream]
    BY <1>0, <1>7, <2>1, <2>2 DEF Bounded
  <2>4. \A i \in 1 .. Len(pending') : pending'[i].cursor <= current'[pending'[i].stream]
    BY <1>0, <1>8, <2>1, <2>2 DEF Bounded
  <2>5. \A i \in 1 .. Len(answer) : answer[i] \in Frame /\ answer[i].cursor <= current[answer[i].stream]
    BY <1>0 DEF Bounded, WireOK
  <2> QED BY <1>1, <2>1, <2>3, <2>4, <2>5 DEF Bounded
<1>12. Requested' /\ KnownOnceReady'
  BY <1>0, <1>1 DEF Requested, KnownOnceReady
<1>13. Links'
  <2> SUFFICES ASSUME NEW i \in 1 .. Len(frames'), NEW t \in Full, IsEvent(frames'[i], t),
                      NEW d, d = frames'[i].cursor
               PROVE  Linked(t, i, d)'
    BY DEF Links, Linked
  <2>1. CASE i \in 1 .. Len(frames)
    <3>1. Linked(t, i, frames[i].cursor)
      BY <1>0, <1>7, <2>1 DEF Links
    <3>2. Linked(t, i, d)
      BY <1>7, <2>1, <3>1
    <3>3. i \in 1 .. Len(frames) + 1
      BY <1>7, <2>1
    <3> HIDE DEF Linked
    <3> QED BY <1>1, <1>7, <3>2, <3>3, LinkedGrows
  <2>2. CASE i = Len(frames) + 1 /\ frames'[i] = e /\ socket = "synchronized"
    <3>1. t = s
      BY <1>3, <2>2 DEF IsEvent
    <3>2. Linked(s, i, c)
      BY <1>0, <2>2, <3>1 DEF Caught, c
    <3>3. Linked(t, i, d)
      BY <1>3, <2>2, <3>1, <3>2
    <3>4. i \in 1 .. Len(frames) + 1
      BY <1>7, <2>2
    <3> QED BY <1>1, <1>7, <3>3, <3>4, LinkedGrows
  <2> QED BY <1>7, <2>1, <2>2
<1>14. Monotone'
  <2> SUFFICES ASSUME NEW i \in 1 .. Len(frames'), NEW t \in Stream, IsSnapshot(frames'[i], t)
               PROVE  /\ LastOf(t)' <= frames'[i].cursor
                      /\ \A h \in 1 .. Len(frames') : h < i /\ Carries(frames'[h], t) => frames'[h].cursor <= frames'[i].cursor
    BY DEF Monotone
  <2>1. i \in 1 .. Len(frames)
    BY <1>3, <1>7 DEF IsSnapshot
  <2>2. \A h \in 1 .. Len(frames') : h < i => h \in 1 .. Len(frames)
    BY <1>7, <2>1
  <2>3. LastOf(t)' = LastOf(t)
    BY <1>1 DEF LastOf
  <2> QED BY <1>0, <1>7, <2>1, <2>2, <2>3 DEF Monotone
<1>15. Caught'
  <2> SUFFICES ASSUME socket = "synchronized", NEW t \in Full PROVE Linked(t, Len(frames) + 1, current[t] + 1)'
    BY <1>1 DEF Caught
  <2>0. t \in Stream
    BY DEF Full
  <2>1. CASE t = s
    <3>1. Len(frames') = Len(frames) + 1 /\ frames'[Len(frames) + 1] = e
      BY <1>7, <2>1
    <3>2. Len(frames) + 1 \in 1 .. Len(frames') /\ Len(frames) + 1 < Len(frames') + 1
      BY <1>7, <3>1
    <3>3. Carries(frames'[Len(frames) + 1], s) /\ current'[s] + 1 <= frames'[Len(frames) + 1].cursor + 1
      BY <1>2, <1>3, <1>4, <3>1 DEF Carries
    <3> QED BY <2>1, <3>2, <3>3 DEF Linked
  <2>2. CASE t # s
    <3>1. Linked(t, Len(frames) + 1, current[t] + 1)
      BY <1>0 DEF Caught
    <3>2. Len(frames) + 1 \in 1 .. Len(frames) + 1 /\ current'[t] = current[t]
      BY <1>4, <1>7, <2>0, <2>2
    <3>3. \A h \in 1 .. Len(frames') : h \in 1 .. Len(frames) \/ ~IsSnapshot(frames'[h], t)
      BY <1>3, <1>7 DEF IsSnapshot
    <3>4. CASE current[t] + 1 <= LastOf(t) + 1
      <4>1. LastOf(t)' = LastOf(t)
        BY <1>1 DEF LastOf
      <4> QED BY <3>2, <3>4, <4>1 DEF Linked
    <3>5. CASE t \in paused /\ \A h \in 1 .. Len(frames) : h < Len(frames) + 1 => ~IsSnapshot(frames[h], t)
      <4>1. \A h \in 1 .. Len(frames') : ~IsSnapshot(frames'[h], t)
        BY <1>7, <3>3, <3>5
      <4> QED BY <1>1, <3>5, <4>1 DEF Linked
    <3>6. CASE \E h \in 1 .. Len(frames) : h < Len(frames) + 1 /\ Carries(frames[h], t)
                                           /\ current[t] + 1 <= frames[h].cursor + 1
      <4>1. PICK h \in 1 .. Len(frames) : Carries(frames[h], t) /\ current[t] + 1 <= frames[h].cursor + 1
        BY <3>6
      <4>2. h \in 1 .. Len(frames') /\ h < Len(frames') + 1 /\ frames'[h] = frames[h]
        BY <1>7
      <4>3. \E g \in 1 .. Len(frames') : g < Len(frames') + 1 /\ Carries(frames'[g], t)
                                         /\ current'[t] + 1 <= frames'[g].cursor + 1
        BY <3>2, <4>1, <4>2
      <4> QED BY <4>3 DEF Linked
    <3> QED BY <3>1, <3>4, <3>5, <3>6 DEF Linked
  <2> QED BY <2>1, <2>2
<1>16. AnswerLinks' /\ Announced'
  <2>1. AnswerLinks'
    BY <1>0, <1>1 DEF AnswerLinks, LastOf
  <2>2. ASSUME NEW i \in 1 .. Len(frames'), NEW t \in Stream, IsComplete(frames'[i], t)
        PROVE  view[t] # Unknown \/ \E h \in 1 .. Len(frames') : h < i /\ IsSnapshot(frames'[h], t)
    <3>1. i \in 1 .. Len(frames) /\ frames'[i] = frames[i]
      BY <1>3, <1>7, <2>2 DEF IsComplete
    <3>2. view[t] # Unknown \/ \E h \in 1 .. Len(frames) : h < i /\ IsSnapshot(frames[h], t)
      BY <1>0, <2>2, <3>1 DEF Announced
    <3> QED BY <1>7, <3>2
  <2>3. \A i \in 1 .. Len(frames') : \A t \in Stream : IsComplete(frames'[i], t) =>
          view'[t] # Unknown \/ \E h \in 1 .. Len(frames') : h < i /\ IsSnapshot(frames'[h], t)
    BY <1>1, <2>2 DEF Unknown
  <2>4. \A k \in 1 .. Len(answer') : \A t \in Stream : IsComplete(answer'[k], t) =>
          view'[t] # Unknown \/ \E j \in 1 .. Len(answer') : j < k /\ IsSnapshot(answer'[j], t)
    BY <1>0, <1>1 DEF Announced
  <2> QED BY <2>1, <2>3, <2>4 DEF Announced
<1>17. AnswerMonotone'
  <2>1. socket = "syncing" => frames' = frames
    BY <1>1
  <2> QED BY <1>0, <1>1, <2>1 DEF AnswerMonotone, LastOf
<1>18. PendingLinks'
  <2> SUFFICES ASSUME NEW k \in 1 .. Len(pending'), NEW t \in Full, pending'[k].stream = t
               PROVE  \/ pending'[k].cursor <= LastOf(t) + 1
                      \/ \E j \in 1 .. Len(answer) : Carries(answer[j], t) /\ pending'[k].cursor <= answer[j].cursor + 1
                      \/ \E j \in 1 .. Len(pending') : pending'[j].stream = t /\ pending'[k].cursor = pending'[j].cursor + 1
    BY <1>1 DEF PendingLinks, LastOf
  <2>1. CASE k \in 1 .. Len(pending)
    <3>1. pending'[k] = pending[k] /\ pending[k].stream = t
      BY <1>8, <2>1
    <3>2. \/ pending[k].cursor <= LastOf(t) + 1
          \/ \E j \in 1 .. Len(answer) : Carries(answer[j], t) /\ pending[k].cursor <= answer[j].cursor + 1
          \/ \E j \in 1 .. Len(pending) : pending[j].stream = t /\ pending[k].cursor = pending[j].cursor + 1
      BY <1>0, <2>1, <3>1 DEF PendingLinks
    <3>3. (\E j \in 1 .. Len(pending) : pending[j].stream = t /\ pending[k].cursor = pending[j].cursor + 1)
          => \E j \in 1 .. Len(pending') : pending'[j].stream = t /\ pending[k].cursor = pending'[j].cursor + 1
      BY <1>8
    <3> QED BY <3>1, <3>2, <3>3
  <2>2. CASE k = Len(pending) + 1 /\ pending'[k] = e /\ socket = "syncing"
    <3>1. t = s /\ pending'[k].cursor = current[s] + 1
      BY <1>3, <2>2 DEF c
    <3>2. CASE current[s] <= LastOf(s)
      <4>1. LastOf(s) \in Nat
        BY <1>0 DEF LastOf, PhoneOK
      <4> QED BY <1>2, <3>1, <3>2, <4>1
    <3>3. CASE \E j \in 1 .. Len(answer) : Carries(answer[j], s) /\ current[s] <= answer[j].cursor
      <4>1. PICK j \in 1 .. Len(answer) : Carries(answer[j], s) /\ current[s] <= answer[j].cursor
        BY <3>3
      <4>2. answer[j].cursor \in Nat
        <5>1. answer[j] \in Frame
          BY <1>0 DEF WireOK
        <5> QED BY <5>1 DEF Frame
      <4>3. current[s] + 1 <= answer[j].cursor + 1
        BY <1>2, <4>1, <4>2
      <4> QED BY <3>1, <4>1, <4>3
    <3>4. CASE \E j \in 1 .. Len(pending) : pending[j].stream = s /\ current[s] = pending[j].cursor
      <4>1. PICK j \in 1 .. Len(pending) : pending[j].stream = s /\ current[s] = pending[j].cursor
        BY <3>4
      <4>2. j \in 1 .. Len(pending') /\ pending'[j] = pending[j]
        BY <1>8
      <4> QED BY <3>1, <4>1, <4>2
    <3> QED BY <1>0, <2>2, <3>1, <3>2, <3>3, <3>4 DEF Held
  <2> QED BY <1>8, <2>1, <2>2
<1>19. Held'
  <2> SUFFICES ASSUME socket = "syncing", NEW t \in Full
               PROVE  \/ current'[t] <= LastOf(t)
                      \/ \E j \in 1 .. Len(answer) : Carries(answer[j], t) /\ current'[t] <= answer[j].cursor
                      \/ \E j \in 1 .. Len(pending') : pending'[j].stream = t /\ current'[t] = pending'[j].cursor
    BY <1>1 DEF Held, LastOf
  <2>0. t \in Stream
    BY DEF Full
  <2>1. CASE t = s
    <3>1. Len(pending) + 1 \in 1 .. Len(pending')
      BY <1>8
    <3> QED BY <1>3, <1>4, <1>8, <2>1, <3>1
  <2>2. CASE t # s
    <3>1. current'[t] = current[t]
      BY <1>4, <2>0, <2>2
    <3> QED BY <1>0, <1>8, <3>1 DEF Held
  <2> QED BY <2>1, <2>2
<1> QED BY <1>5, <1>6, <1>9, <1>10, <1>11, <1>12, <1>13, <1>14, <1>15, <1>16, <1>17, <1>18, <1>19, InvParts
        DEF DeliveryOK, AnswerInv
-----------------------------------------------------------------------------
(* A subscription is answered.                                             *)

\* What sync returns for one stream: from a cursor inside the journal every
\* event after it, from any other a snapshot of the present; then the
\* announcement that the stream is complete.
LEMMA SyncIs ==
  ASSUME StoreOK, JournalIsWhole, NEW s \in Stream, NEW after \in Nat, NEW q, q = sync(s, after)
  PROVE  /\ q \in Seq(Frame) /\ Len(q) \in Nat
         /\ \A j \in 1 .. Len(q) : q[j] \in Frame /\ q[j].stream = s /\ q[j].cursor <= current[s]
         /\ \A j \in 1 .. Len(q) : q[j].type = "snapshot" => q[j].cursor = current[s]
         /\ s \in Full => \A j \in 1 .. Len(q) : q[j].type = "event" =>
              \/ after \in floor[s] .. current[s] /\ q[j].cursor <= after + 1
              \/ \E h \in 1 .. Len(q) : h < j /\ q[h].type = "event" /\ q[j].cursor <= q[h].cursor + 1
         /\ \A j \in 1 .. Len(q) : q[j].type = "complete" =>
              after \in floor[s] .. current[s] \/ \E h \in 1 .. Len(q) : h < j /\ q[h].type = "snapshot"
         /\ s \in Full =>
              \/ after \in floor[s] .. current[s] /\ current[s] <= after
              \/ \E j \in 1 .. Len(q) : q[j].type \in {"event", "snapshot"} /\ current[s] <= q[j].cursor
<1>0. current[s] \in Nat /\ floor[s] \in Nat /\ floor[s] <= current[s] /\ rows[s] = (floor[s] + 1) .. current[s]
  BY Constants DEF StoreOK, JournalIsWhole
<1>1. \A c \in 0 .. current[s] :
        /\ Event(s, c) \in Frame /\ Event(s, c).type = "event" /\ Event(s, c).stream = s /\ Event(s, c).cursor = c
        /\ Snapshot(s, c) \in Frame /\ Snapshot(s, c).type = "snapshot" /\ Snapshot(s, c).stream = s
        /\ Snapshot(s, c).cursor = c
        /\ Complete(s, c) \in Frame /\ Complete(s, c).type = "complete" /\ Complete(s, c).stream = s
        /\ Complete(s, c).cursor = c
  BY <1>0 DEF Event, Snapshot, Complete, Frame
<1>2. current[s] \in 0 .. current[s]
  BY <1>0
<1> DEFINE z == Complete(s, current[s])
<1>3. CASE after \in floor[s] .. current[s]
  <2> DEFINE C == {c \in rows[s] : c > after}
             e == ShownEvents(s, C)
             S == {Event(s, c) : c \in C}
  <2>1. C = (after + 1) .. current[s]
    <3>1. C = {c \in (floor[s] + 1) .. current[s] : c > after}
      BY <1>0
    <3> QED BY <1>0, <1>3, <3>1
  <2>2. C \subseteq 1 .. current[s] /\ \A c \in C : c \in 0 .. current[s] /\ c \in Nat /\ after < c /\ c <= current[s]
    BY <1>0, <2>1
  <2>3. q = e \o <<z>>
    BY <1>3 DEF sync
  <2>4. /\ e \in Seq(S)
        /\ s \in Full => \A c \in C : \E k \in 1 .. Len(e) : e[k] = Event(s, c)
        /\ \A i, j \in 1 .. Len(e) : e[i].cursor < e[j].cursor => i < j
    <3> HIDE DEF C
    <3> QED BY <1>0, <2>2, ShownEventsAre
  <2> HIDE DEF e, C
  <2>5. \A x \in S : /\ x \in Frame /\ x.type = "event" /\ x.stream = s /\ x.cursor \in C
                     /\ x.cursor <= current[s]
    BY <1>1, <2>2
  <2>6. z \in Frame /\ z.type = "complete" /\ z.stream = s /\ z.cursor = current[s]
    BY <1>1, <1>2
  <2> HIDE DEF z, S
  <2>7. /\ e \in Seq(Frame) /\ Len(e) \in Nat
        /\ \A j \in 1 .. Len(e) : e[j] \in S
    <3>1. Len(e) \in Nat /\ e \in [1 .. Len(e) -> S] /\ \A j \in 1 .. Len(e) : e[j] \in S
      BY <2>4
    <3>2. e \in [1 .. Len(e) -> Frame]
      BY <2>5, <3>1
    <3> QED BY <3>1, <3>2
  <2>8. /\ q \in Seq(Frame) /\ Len(q) = Len(e) + 1
        /\ \A j \in 1 .. Len(e) : q[j] = e[j] /\ j \in 1 .. Len(q)
        /\ q[Len(e) + 1] = z
    BY <2>3, <2>6, <2>7
  <2>9. \A j \in 1 .. Len(q) : \/ j \in 1 .. Len(e) /\ q[j] = e[j] /\ q[j] \in S
                               \/ j = Len(e) + 1 /\ q[j] = z
    BY <2>7, <2>8
  <2>10. \A j \in 1 .. Len(q) : q[j] \in Frame /\ q[j].stream = s /\ q[j].cursor <= current[s]
    BY <1>0, <2>5, <2>6, <2>9
  <2>11. \A j \in 1 .. Len(q) : q[j].type # "snapshot"
    BY <2>5, <2>6, <2>9
  <2>12. ASSUME s \in Full, NEW j \in 1 .. Len(q), q[j].type = "event"
         PROVE  \/ q[j].cursor <= after + 1
                \/ \E h \in 1 .. Len(q) : h < j /\ q[h].type = "event" /\ q[j].cursor <= q[h].cursor + 1
    <3>1. j \in 1 .. Len(e) /\ q[j] = e[j] /\ q[j] \in S
      BY <2>6, <2>9, <2>12
    <3> DEFINE c == q[j].cursor
    <3>2. c \in C /\ c \in Nat /\ after < c /\ c <= current[s]
      BY <2>2, <2>5, <3>1
    <3>3. CASE c > after + 1
      <4>1. c - 1 \in C /\ c - 1 \in Nat /\ c - 1 \in 0 .. current[s]
        <5> HIDE DEF c
        <5> QED BY <1>0, <2>1, <3>2, <3>3
      <4>2. PICK h \in 1 .. Len(e) : e[h] = Event(s, c - 1)
        BY <2>4, <2>12, <4>1
      <4>3. e[h].cursor = c - 1 /\ e[h].type = "event"
        <5> HIDE DEF c
        <5> QED BY <1>1, <4>1, <4>2
      <4>4. e[h].cursor < e[j].cursor
        <5>1. e[j].cursor = c
          BY <3>1
        <5> HIDE DEF c
        <5> QED BY <3>2, <4>3, <5>1
      <4>5. h < j
        BY <2>4, <3>1, <4>4
      <4>6. c <= q[h].cursor + 1
        <5>1. q[h].cursor = c - 1
          BY <2>8, <4>3
        <5> HIDE DEF c
        <5> QED BY <3>2, <5>1
      <4> QED BY <2>8, <4>3, <4>5, <4>6
    <3>4. CASE ~(c > after + 1)
      <4>1. c <= after + 1
        <5> HIDE DEF c
        <5> QED BY <3>2, <3>4
      <4> QED BY <4>1
    <3> QED BY <3>3, <3>4
  <2>13. ASSUME s \in Full, ~(current[s] <= after)
         PROVE  \E j \in 1 .. Len(q) : q[j].type \in {"event", "snapshot"} /\ current[s] <= q[j].cursor
    <3>1. current[s] \in C
      BY <1>0, <1>3, <2>1, <2>13
    <3>2. PICK k \in 1 .. Len(e) : e[k] = Event(s, current[s])
      BY <2>4, <2>13, <3>1
    <3>3. e[k].type = "event" /\ e[k].cursor = current[s] /\ current[s] <= current[s]
      BY <1>0, <1>1, <1>2, <3>2
    <3> QED BY <2>8, <3>3
  <2>14. Len(q) \in Nat
    BY <2>7, <2>8
  <2> QED BY <1>3, <2>8, <2>10, <2>11, <2>12, <2>13, <2>14
<1>4. CASE after \notin floor[s] .. current[s]
  <2> DEFINE y == Snapshot(s, current[s])
  <2>1. q = <<y>> \o <<z>>
    BY <1>4 DEF sync
  <2>2. /\ y \in Frame /\ y.type = "snapshot" /\ y.stream = s /\ y.cursor = current[s]
        /\ z \in Frame /\ z.type = "complete" /\ z.stream = s /\ z.cursor = current[s]
    BY <1>1, <1>2
  <2> HIDE DEF y, z
  <2>3. q \in Seq(Frame) /\ Len(q) = 2 /\ q[1] = y /\ q[2] = z
    BY <2>1, <2>2
  <2>4. \A j \in 1 .. Len(q) : j = 1 \/ j = 2
    BY <2>3
  <2>5. 1 \in 1 .. Len(q) /\ 1 < 2 /\ current[s] <= current[s]
    BY <1>0, <2>3
  <2>6. \A j \in 1 .. Len(q) : /\ q[j] \in Frame /\ q[j].stream = s /\ q[j].cursor = current[s]
                               /\ q[j].type # "event"
                               /\ q[j].type = "complete" => j = 2
    BY <2>2, <2>3, <2>4
  <2> QED BY <2>2, <2>3, <2>5, <2>6
<1> QED BY <1>3, <1>4

\* The answer to a subscription, over all streams.
LEMMA AnswerIs ==
  ASSUME StoreOK, JournalIsWhole, NEW cursors \in [Stream -> Nat],
         NEW q, q = FlattenSeq([k \in DOMAIN StreamOrder |-> sync(StreamOrder[k], cursors[StreamOrder[k]])])
  PROVE  /\ q \in Seq(Frame)
         /\ \A i \in 1 .. Len(q) : q[i] \in Frame /\ q[i].cursor <= current[q[i].stream]
         /\ \A i \in 1 .. Len(q) : \A s \in Stream : IsSnapshot(q[i], s) => q[i].cursor = current[s]
         /\ \A i \in 1 .. Len(q) : \A s \in Full : IsEvent(q[i], s) =>
              \/ cursors[s] \in floor[s] .. current[s] /\ q[i].cursor <= cursors[s] + 1
              \/ \E h \in 1 .. Len(q) : h < i /\ IsEvent(q[h], s) /\ q[i].cursor <= q[h].cursor + 1
         /\ \A i \in 1 .. Len(q) : \A s \in Stream : IsComplete(q[i], s) =>
              \/ cursors[s] \in floor[s] .. current[s]
              \/ \E h \in 1 .. Len(q) : h < i /\ IsSnapshot(q[h], s)
         /\ \A s \in Full :
              \/ cursors[s] \in floor[s] .. current[s] /\ current[s] <= cursors[s]
              \/ \E h \in 1 .. Len(q) : Carries(q[h], s) /\ current[s] <= q[h].cursor
<1> DEFINE n == Len(StreamOrder)
           ss == [k \in DOMAIN StreamOrder |-> sync(StreamOrder[k], cursors[StreamOrder[k]])]
<1>0. n \in Nat /\ n # 0 /\ DOMAIN StreamOrder = 1 .. n /\ \A k \in 1 .. n : StreamOrder[k] \in Stream
  BY Constants
<1>1. \A k \in 1 .. n : ss[k] = sync(StreamOrder[k], cursors[StreamOrder[k]]) /\ cursors[StreamOrder[k]] \in Nat
  BY <1>0
<1>2. \A k \in 1 .. n : ss[k] \in Seq(Frame) /\ Len(ss[k]) \in Nat
  <2> HIDE DEF n, ss
  <2>1. ASSUME NEW k \in 1 .. n PROVE ss[k] \in Seq(Frame) /\ Len(ss[k]) \in Nat
    BY <1>0, <1>1, SyncIs
  <2> QED BY <2>1
<1>3. ss \in Seq(Seq(Frame)) /\ Len(ss) = n
  <2>1. ss = [k \in 1 .. n |-> ss[k]]
    BY <1>0
  <2> HIDE DEF n, ss
  <2>2. ss \in [1 .. n -> Seq(Frame)]
    BY <1>2, <2>1
  <2> QED BY <1>0, <2>2
<1>4. q = FlattenSeq(ss)
  OBVIOUS
<1> HIDE DEF ss, n
<1>5. q \in Seq(Frame)
  BY <1>3, <1>4, FlattenIsSeq
<1>6. PICK off \in [1 .. n -> Nat] :
        /\ \A k \in 1 .. n : \A j \in 1 .. Len(ss[k]) :
             off[k] + j \in 1 .. Len(q) /\ q[off[k] + j] = ss[k][j]
        /\ \A i \in 1 .. Len(q) : \E k \in 1 .. n : \E j \in 1 .. Len(ss[k]) : i = off[k] + j
  <2>1. \E off : LaidOut(q, ss, n, off)
    <3>1. Len(ss) # 0 /\ ss \in Seq(Seq(Frame))
      BY <1>0, <1>3
    <3>2. \E off : LaidOut(FlattenSeq(ss), ss, Len(ss), off)
      BY <3>1, FlattenLayout
    <3> QED BY <1>3, <1>4, <3>2
  <2> QED BY <2>1 DEF LaidOut
<1>7. ASSUME NEW i \in 1 .. Len(q)
      PROVE  /\ q[i] \in Frame /\ q[i].cursor <= current[q[i].stream]
             /\ \A s \in Stream : IsSnapshot(q[i], s) => q[i].cursor = current[s]
             /\ \A s \in Full : IsEvent(q[i], s) =>
                  \/ cursors[s] \in floor[s] .. current[s] /\ q[i].cursor <= cursors[s] + 1
                  \/ \E h \in 1 .. Len(q) : h < i /\ IsEvent(q[h], s) /\ q[i].cursor <= q[h].cursor + 1
             /\ \A s \in Stream : IsComplete(q[i], s) =>
                  \/ cursors[s] \in floor[s] .. current[s]
                  \/ \E h \in 1 .. Len(q) : h < i /\ IsSnapshot(q[h], s)
  <2>1. PICK k \in 1 .. n : \E j \in 1 .. Len(ss[k]) : i = off[k] + j
    BY <1>6
  <2>2. PICK j \in 1 .. Len(ss[k]) : i = off[k] + j
    BY <2>1
  <2> DEFINE t == StreamOrder[k]
             p == ss[k]
             a == cursors[t]
  <2>3. t \in Stream /\ a \in Nat /\ p = sync(t, a)
    BY <1>0, <1>1
  <2>4. q[i] = p[j] /\ j \in 1 .. Len(p) /\ off[k] \in Nat
    BY <1>6, <2>2
  <2>5. \A h \in 1 .. Len(p) : off[k] + h \in 1 .. Len(q) /\ q[off[k] + h] = p[h]
    BY <1>6
  <2> HIDE DEF t, p, a
  <2>6. /\ p[j] \in Frame /\ p[j].stream = t /\ p[j].cursor <= current[t] /\ Len(p) \in Nat
        /\ p[j].type = "snapshot" => p[j].cursor = current[t]
        /\ \A h \in 1 .. Len(p) : p[h].stream = t
    BY <2>3, <2>4, SyncIs
  <2>7. \A h \in 1 .. Len(p) : h < j => off[k] + h < i
    BY <2>2, <2>4, <2>6
  <2>8. q[i] \in Frame /\ q[i].stream = t /\ q[i].cursor <= current[t]
    BY <2>4, <2>6
  <2>9. ASSUME NEW s \in Full, IsEvent(q[i], s)
        PROVE  \/ cursors[s] \in floor[s] .. current[s] /\ q[i].cursor <= cursors[s] + 1
               \/ \E h \in 1 .. Len(q) : h < i /\ IsEvent(q[h], s) /\ q[i].cursor <= q[h].cursor + 1
    <3>1. s = t /\ cursors[s] = a /\ p[j].type = "event" /\ t \in Full
      BY <2>4, <2>8, <2>9 DEF IsEvent, a, t
    <3>2. \/ a \in floor[t] .. current[t] /\ p[j].cursor <= a + 1
          \/ \E h \in 1 .. Len(p) : h < j /\ p[h].type = "event" /\ p[j].cursor <= p[h].cursor + 1
      BY <2>3, <2>4, <3>1, SyncIs
    <3>3. CASE a \in floor[t] .. current[t] /\ p[j].cursor <= a + 1
      BY <2>4, <3>1, <3>3
    <3>4. CASE \E h \in 1 .. Len(p) : h < j /\ p[h].type = "event" /\ p[j].cursor <= p[h].cursor + 1
      <4>1. PICK h \in 1 .. Len(p) : h < j /\ p[h].type = "event" /\ p[j].cursor <= p[h].cursor + 1
        BY <3>4
      <4>2. off[k] + h \in 1 .. Len(q) /\ off[k] + h < i /\ q[off[k] + h] = p[h]
        BY <2>5, <2>7, <4>1
      <4>3. IsEvent(q[off[k] + h], s) /\ q[i].cursor <= q[off[k] + h].cursor + 1
        BY <2>4, <2>6, <3>1, <4>1, <4>2 DEF IsEvent
      <4> QED BY <4>2, <4>3
    <3> QED BY <3>2, <3>3, <3>4
  <2>10. ASSUME NEW s \in Stream, IsComplete(q[i], s), cursors[s] \notin floor[s] .. current[s]
         PROVE  \E h \in 1 .. Len(q) : h < i /\ IsSnapshot(q[h], s)
    <3>1. s = t /\ cursors[s] = a /\ p[j].type = "complete"
      BY <2>4, <2>8, <2>10 DEF IsComplete, a, t
    <3>2. a \in floor[t] .. current[t] \/ \E h \in 1 .. Len(p) : h < j /\ p[h].type = "snapshot"
      BY <2>3, <2>4, <3>1, SyncIs
    <3>3. PICK h \in 1 .. Len(p) : h < j /\ p[h].type = "snapshot"
      BY <2>10, <3>1, <3>2
    <3>4. off[k] + h \in 1 .. Len(q) /\ off[k] + h < i /\ q[off[k] + h] = p[h]
      BY <2>5, <2>7, <3>3
    <3>5. IsSnapshot(q[off[k] + h], s)
      BY <2>6, <3>1, <3>3, <3>4 DEF IsSnapshot
    <3> QED BY <3>4, <3>5
  <2>11. \A s \in Stream : IsSnapshot(q[i], s) => q[i].cursor = current[s]
    BY <2>4, <2>6 DEF IsSnapshot
  <2> QED BY <2>8, <2>9, <2>10, <2>11
<1>8. ASSUME NEW s \in Full
      PROVE  \/ cursors[s] \in floor[s] .. current[s] /\ current[s] <= cursors[s]
             \/ \E h \in 1 .. Len(q) : Carries(q[h], s) /\ current[s] <= q[h].cursor
  <2>0. s \in Stream
    BY DEF Full
  <2>1. PICK k \in 1 .. n : s = StreamOrder[k]
    BY <2>0, Constants DEF n
  <2> DEFINE p == ss[k]
             a == cursors[s]
  <2>2. a \in Nat /\ p = sync(s, a)
    BY <1>1, <2>1
  <2>3. \A h \in 1 .. Len(p) : off[k] + h \in 1 .. Len(q) /\ q[off[k] + h] = p[h]
    BY <1>6
  <2> HIDE DEF p, a
  <2>4. /\ \/ a \in floor[s] .. current[s] /\ current[s] <= a
           \/ \E j \in 1 .. Len(p) : p[j].type \in {"event", "snapshot"} /\ current[s] <= p[j].cursor
        /\ \A h \in 1 .. Len(p) : p[h].stream = s
    <3>1. \A h \in 1 .. Len(p) : p[h].stream = s
      BY <2>0, <2>2, SyncIs
    <3>2. \/ a \in floor[s] .. current[s] /\ current[s] <= a
          \/ \E j \in 1 .. Len(p) : p[j].type \in {"event", "snapshot"} /\ current[s] <= p[j].cursor
      BY <2>0, <2>2, SyncIs
    <3> QED BY <3>1, <3>2
  <2>5. ASSUME NEW j \in 1 .. Len(p), p[j].type \in {"event", "snapshot"}, current[s] <= p[j].cursor
        PROVE  \E h \in 1 .. Len(q) : Carries(q[h], s) /\ current[s] <= q[h].cursor
    <3>1. Carries(q[off[k] + j], s) /\ current[s] <= q[off[k] + j].cursor
      BY <2>3, <2>4, <2>5 DEF Carries
    <3> QED BY <2>3, <3>1
  <2> QED BY <2>4, <2>5 DEF a
<1> QED BY <1>5, <1>7, <1>8

\* The bridge reads a request.
LEMMA SubscribeStep ==
  ASSUME JournalInv, subscribe
  PROVE  JournalInv'
<1> DEFINE cursors == Head(requests).cursors
           q == FlattenSeq([k \in DOMAIN StreamOrder |-> sync(StreamOrder[k], cursors[StreamOrder[k]])])
<1>0. /\ StoreOK /\ JournalIsWhole /\ WireOK /\ PhoneOK /\ Bounded /\ Requested
      /\ Links /\ Monotone /\ Caught /\ Announced /\ KnownOnceReady
  BY InvParts DEF DeliveryOK
<1>1. /\ requests # <<>> /\ Head(requests).type = "subscribe" /\ requests' = Tail(requests)
      /\ answer' = q /\ pending' = <<>> /\ socket' = "syncing"
      /\ UNCHANGED <<storeVars, frames, phoneVars>>
  BY DEF subscribe
<1> USE DEF storeVars, phoneVars
<1>2. /\ requests' \in Seq(Request) /\ Requested'
      /\ Head(requests) \in Request /\ Head(requests) = requests[1] /\ 1 \in 1 .. Len(requests)
  BY <1>0, <1>1, RequestTaken
<1>3. cursors \in [Stream -> Nat]
  BY <1>2 DEF Request
<1>4. \A s \in Stream : cursors[s] = None \/ (view[s] # Unknown /\ cursors[s] <= view[s].cursor)
  BY <1>0, <1>1, <1>2 DEF Requested
<1> HIDE DEF cursors
<1>5. /\ q \in Seq(Frame)
      /\ \A i \in 1 .. Len(q) : q[i] \in Frame /\ q[i].cursor <= current[q[i].stream]
      /\ \A i \in 1 .. Len(q) : \A s \in Stream : IsSnapshot(q[i], s) => q[i].cursor = current[s]
      /\ \A i \in 1 .. Len(q) : \A s \in Full : IsEvent(q[i], s) =>
           \/ cursors[s] \in floor[s] .. current[s] /\ q[i].cursor <= cursors[s] + 1
           \/ \E h \in 1 .. Len(q) : h < i /\ IsEvent(q[h], s) /\ q[i].cursor <= q[h].cursor + 1
      /\ \A i \in 1 .. Len(q) : \A s \in Stream : IsComplete(q[i], s) =>
           \/ cursors[s] \in floor[s] .. current[s]
           \/ \E h \in 1 .. Len(q) : h < i /\ IsSnapshot(q[h], s)
      /\ \A s \in Full :
           \/ cursors[s] \in floor[s] .. current[s] /\ current[s] <= cursors[s]
           \/ \E h \in 1 .. Len(q) : Carries(q[h], s) /\ current[s] <= q[h].cursor
  BY <1>0, <1>3, AnswerIs
<1> HIDE DEF q
<1>6. \A s \in Stream : current[s] \in Nat /\ floor[s] \in Nat /\ current[s] <= MaxEvents
  BY <1>0, Constants DEF StoreOK
<1>7. \A s \in Stream : cursors[s] \in floor[s] .. current[s] =>
        view[s] # Unknown /\ cursors[s] \in Nat /\ cursors[s] <= LastOf(s)
  <2> SUFFICES ASSUME NEW s \in Stream, cursors[s] \in floor[s] .. current[s]
               PROVE  view[s] # Unknown /\ cursors[s] \in Nat /\ cursors[s] <= LastOf(s)
    OBVIOUS
  <2>1. cursors[s] # None /\ cursors[s] \in Nat
    BY <1>3, <1>6, Constants
  <2> QED BY <1>4, <2>1 DEF LastOf
<1>8. \A s \in Stream : LastOf(s) \in Nat /\ LastOf(s) <= current[s]
  BY <1>0, <1>6 DEF LastOf, PhoneOK
<1>9. \A i \in 1 .. Len(q) : q[i].cursor \in Nat /\ q[i].stream \in Stream
  BY <1>5 DEF Frame
<1>10. StoreOK' /\ JournalIsWhole' /\ PhoneOK' /\ KnownOnceReady'
  <2>1. phase # "offline"
    BY <1>0 DEF subscribe, KnownOnceReady
  <2> QED BY <1>0, <1>1, <2>1 DEF StoreOK, JournalIsWhole, PhoneOK, KnownOnceReady
<1>11. Len(<<>>) = 0 /\ \A i \in 1 .. 0 : FALSE
  OBVIOUS
<1>12. WireOK' /\ Bounded'
  <2>1. WireOK'
    BY <1>0, <1>1, <1>2, <1>5, <1>11 DEF WireOK
  <2>2. Bounded'
    BY <1>0, <1>1, <1>5, <1>11 DEF Bounded
  <2> QED BY <2>1, <2>2
<1>13. Links' /\ Monotone' /\ Caught' /\ PendingLinks'
  <2>1. Links' /\ Monotone'
    BY <1>0, <1>1 DEF Links, Monotone, Linked, LastOf
  <2>2. Caught'
    BY <1>1 DEF Caught
  <2>3. PendingLinks'
    BY <1>1, <1>11 DEF PendingLinks
  <2> QED BY <2>1, <2>2, <2>3
<1>14. AnswerLinks'
  <2> SUFFICES ASSUME NEW k \in 1 .. Len(q), NEW s \in Full, IsEvent(q[k], s)
               PROVE  \/ q[k].cursor <= LastOf(s) + 1
                      \/ \E j \in 1 .. Len(q) : j < k /\ Carries(q[j], s) /\ q[k].cursor <= q[j].cursor + 1
    BY <1>1 DEF AnswerLinks, LastOf
  <2>0. s \in Stream
    BY DEF Full
  <2>1. CASE cursors[s] \in floor[s] .. current[s] /\ q[k].cursor <= cursors[s] + 1
    BY <1>7, <1>8, <1>9, <2>0, <2>1
  <2>2. CASE \E h \in 1 .. Len(q) : h < k /\ IsEvent(q[h], s) /\ q[k].cursor <= q[h].cursor + 1
    BY <2>2 DEF IsEvent, Carries
  <2> QED BY <1>5, <2>1, <2>2
<1>15. AnswerMonotone'
  <2> SUFFICES ASSUME NEW k \in 1 .. Len(q), NEW s \in Stream, IsSnapshot(q[k], s)
               PROVE  /\ LastOf(s) <= q[k].cursor
                      /\ \A h \in 1 .. Len(frames) : Carries(frames[h], s) => frames[h].cursor <= q[k].cursor
                      /\ \A j \in 1 .. Len(q) : j < k /\ Carries(q[j], s) => q[j].cursor <= q[k].cursor
    BY <1>1 DEF AnswerMonotone, LastOf
  <2>1. q[k].cursor = current[s]
    BY <1>5
  <2>2. \A h \in 1 .. Len(frames) : Carries(frames[h], s) => frames[h].cursor <= current[s]
    BY <1>0 DEF Bounded, Carries
  <2>3. \A j \in 1 .. Len(q) : Carries(q[j], s) => q[j].cursor <= current[s]
    BY <1>5 DEF Carries
  <2> QED BY <1>8, <2>1, <2>2, <2>3
<1>16. Held'
  <2> SUFFICES ASSUME NEW s \in Full
               PROVE  \/ current[s] <= LastOf(s)
                      \/ \E j \in 1 .. Len(q) : Carries(q[j], s) /\ current[s] <= q[j].cursor
    BY <1>1 DEF Held, LastOf
  <2>0. s \in Stream
    BY DEF Full
  <2>1. cursors[s] \in floor[s] .. current[s] /\ current[s] <= cursors[s] => current[s] <= LastOf(s)
    BY <1>6, <1>7, <1>8, <2>0
  <2> QED BY <1>5, <2>1
<1>17. Announced'
  <2>1. \A k \in 1 .. Len(q) : \A s \in Stream : IsComplete(q[k], s) =>
          view[s] # Unknown \/ \E j \in 1 .. Len(q) : j < k /\ IsSnapshot(q[j], s)
    BY <1>5, <1>7
  <2> QED BY <1>0, <1>1, <2>1 DEF Announced
<1> QED BY <1>2, <1>10, <1>12, <1>13, <1>14, <1>15, <1>16, <1>17, InvParts DEF DeliveryOK, AnswerInv
-----------------------------------------------------------------------------
(* The answer is sent, and what was held back meanwhile.                   *)

\* What is unsent of a stream was held back; what was held back and is not
\* unsent is in the answer.
LEMMA UnsentAre ==
  ASSUME StoreOK, WireOK, Bounded, NEW s \in Stream
  PROVE  /\ Unsent(s) \subseteq 1 .. current[s] /\ current[s] \in Nat
         /\ \A c \in Unsent(s) : \E k \in 1 .. Len(pending) : pending[k].stream = s /\ pending[k].cursor = c
         /\ \A k \in 1 .. Len(pending) : pending[k].stream = s =>
              \/ pending[k].cursor \in Unsent(s)
              \/ \E j \in 1 .. Len(answer) : answer[j] = pending[k]
<1>0. current[s] \in Nat
  BY Constants DEF StoreOK
<1>1. /\ pending \in Seq(Frame) /\ answer \in Seq(Frame)
      /\ \A k \in 1 .. Len(pending) : pending[k] \in Frame /\ pending[k].cursor > 0
  BY DEF WireOK
<1>2. /\ ToSet(pending) = {pending[k] : k \in 1 .. Len(pending)}
      /\ ToSet(answer) = {answer[k] : k \in 1 .. Len(answer)}
  BY <1>1 DEF ToSet
<1>3. ASSUME NEW c \in Unsent(s)
      PROVE  c \in 1 .. current[s] /\ \E k \in 1 .. Len(pending) : pending[k].stream = s /\ pending[k].cursor = c
  <2>1. PICK k \in 1 .. Len(pending) : pending[k].stream = s /\ pending[k].cursor = c
    BY <1>2, <1>3 DEF Unsent
  <2>2. pending[k].cursor \in Nat /\ pending[k].cursor > 0 /\ pending[k].cursor <= current[s]
    BY <1>1, <2>1 DEF Bounded, Frame
  <2> QED BY <1>0, <2>1, <2>2
<1>4. ASSUME NEW k \in 1 .. Len(pending), pending[k].stream = s, ~\E j \in 1 .. Len(answer) : answer[j] = pending[k]
      PROVE  pending[k].cursor \in Unsent(s)
  <2>1. pending[k] \in ToSet(pending) \ ToSet(answer)
    BY <1>2, <1>4
  <2> QED BY <1>4, <2>1 DEF Unsent
<1> QED BY <1>0, <1>3, <1>4

\* What goes out after the answer: the unsent events, each stream in order.
LEMMA HeldBackIs ==
  ASSUME StoreOK, WireOK, Bounded, NEW q, q = HeldBack
  PROVE  /\ q \in Seq(Frame)
         /\ \A i \in 1 .. Len(q) : \E s \in Stream :
              /\ q[i] \in Frame /\ IsEvent(q[i], s) /\ q[i].cursor \in Unsent(s)
              /\ s \in Full => \A c \in Unsent(s) : c < q[i].cursor =>
                   \E h \in 1 .. Len(q) : h < i /\ IsEvent(q[h], s) /\ q[h].cursor = c
         /\ \A s \in Full : \A c \in Unsent(s) : \E h \in 1 .. Len(q) : IsEvent(q[h], s) /\ q[h].cursor = c
<1> DEFINE n == Len(StreamOrder)
           ss == [k \in DOMAIN StreamOrder |-> ShownEvents(StreamOrder[k], Unsent(StreamOrder[k]))]
<1>0. n \in Nat /\ n # 0 /\ DOMAIN StreamOrder = 1 .. n /\ \A k \in 1 .. n : StreamOrder[k] \in Stream
  BY Constants
<1>1. \A k \in 1 .. n : ss[k] = ShownEvents(StreamOrder[k], Unsent(StreamOrder[k]))
  BY <1>0
<1>2. \A s \in Stream : \A c \in Unsent(s) :
        Event(s, c) \in Frame /\ Event(s, c).type = "event" /\ Event(s, c).stream = s /\ Event(s, c).cursor = c
  <2>1. \A s \in Stream : \A c \in Unsent(s) : c \in Nat
    <3>1. ASSUME NEW s \in Stream PROVE \A c \in Unsent(s) : c \in Nat
      BY UnsentAre
    <3> QED BY <3>1
  <2> QED BY <2>1 DEF Event, Frame
<1> DEFINE OfStream(p, s) ==
      /\ p \in Seq(Frame) /\ Len(p) \in Nat
      /\ \A j \in 1 .. Len(p) : p[j] \in Frame /\ IsEvent(p[j], s) /\ p[j].cursor \in Unsent(s)
      /\ s \in Full => \A c \in Unsent(s) : \E h \in 1 .. Len(p) : IsEvent(p[h], s) /\ p[h].cursor = c
      /\ \A i, j \in 1 .. Len(p) : p[i].cursor < p[j].cursor => i < j
<1>3. ASSUME NEW k \in 1 .. n, NEW s, s = StreamOrder[k], NEW p, p = ss[k]
      PROVE  OfStream(p, s)
  <2> DEFINE S == {Event(s, c) : c \in Unsent(s)}
  <2>1. s \in Stream /\ p = ShownEvents(s, Unsent(s))
    BY <1>0, <1>1, <1>3
  <2>2. Unsent(s) \subseteq 1 .. current[s] /\ current[s] \in Nat
    BY <2>1, UnsentAre
  <2>3. /\ p \in Seq(S)
        /\ s \in Full => \A c \in Unsent(s) : \E k1 \in 1 .. Len(p) : p[k1] = Event(s, c)
        /\ \A i, j \in 1 .. Len(p) : p[i].cursor < p[j].cursor => i < j
    BY <2>1, <2>2, ShownEventsAre
  <2>4. \A x \in S : x \in Frame /\ IsEvent(x, s) /\ x.cursor \in Unsent(s)
    BY <1>2, <2>1 DEF IsEvent
  <2>5. \A c \in Unsent(s) : IsEvent(Event(s, c), s) /\ Event(s, c).cursor = c
    BY <1>2, <2>1 DEF IsEvent
  <2> HIDE DEF S
  <2>6. Len(p) \in Nat /\ p \in [1 .. Len(p) -> S] /\ \A j \in 1 .. Len(p) : p[j] \in S
    BY <2>3
  <2>7. p \in Seq(Frame)
    <3>1. p \in [1 .. Len(p) -> Frame]
      BY <2>4, <2>6
    <3> QED BY <2>6, <3>1
  <2>8. s \in Full => \A c \in Unsent(s) : \E h \in 1 .. Len(p) : IsEvent(p[h], s) /\ p[h].cursor = c
    BY <2>3, <2>5
  <2> QED BY <2>3, <2>4, <2>6, <2>7, <2>8
<1>4. ss \in Seq(Seq(Frame)) /\ Len(ss) = n
  <2>1. ss = [k \in 1 .. n |-> ss[k]]
    BY <1>0
  <2>2. \A k \in 1 .. n : ss[k] \in Seq(Frame)
    <3> HIDE DEF ss, n
    <3>1. ASSUME NEW k \in 1 .. n PROVE ss[k] \in Seq(Frame)
      <4> HIDE DEF OfStream
      <4>1. OfStream(ss[k], StreamOrder[k])
        BY <1>3
      <4> QED BY <4>1 DEF OfStream
    <3> QED BY <3>1
  <2> HIDE DEF n, ss
  <2>3. ss \in [1 .. n -> Seq(Frame)]
    BY <2>1, <2>2
  <2> QED BY <1>0, <2>3
<1>5. q = FlattenSeq(ss)
  BY DEF HeldBack
<1> HIDE DEF ss, n, OfStream
<1>6. q \in Seq(Frame)
  BY <1>4, <1>5, FlattenIsSeq
<1>7. PICK off \in [1 .. n -> Nat] :
        /\ \A k \in 1 .. n : \A j \in 1 .. Len(ss[k]) :
             off[k] + j \in 1 .. Len(q) /\ q[off[k] + j] = ss[k][j]
        /\ \A i \in 1 .. Len(q) : \E k \in 1 .. n : \E j \in 1 .. Len(ss[k]) : i = off[k] + j
  <2>1. Len(ss) # 0 /\ ss \in Seq(Seq(Frame))
    BY <1>0, <1>4
  <2>2. \E off : LaidOut(FlattenSeq(ss), ss, Len(ss), off)
    BY <2>1, FlattenLayout
  <2>3. \E off : LaidOut(q, ss, n, off)
    BY <1>4, <1>5, <2>2
  <2> QED BY <2>3 DEF LaidOut
<1>8. ASSUME NEW i \in 1 .. Len(q)
      PROVE  \E s \in Stream :
              /\ q[i] \in Frame /\ IsEvent(q[i], s) /\ q[i].cursor \in Unsent(s)
              /\ s \in Full => \A c \in Unsent(s) : c < q[i].cursor =>
                   \E h \in 1 .. Len(q) : h < i /\ IsEvent(q[h], s) /\ q[h].cursor = c
  <2>1. PICK k \in 1 .. n : \E j \in 1 .. Len(ss[k]) : i = off[k] + j
    BY <1>7
  <2>2. PICK j \in 1 .. Len(ss[k]) : i = off[k] + j
    BY <2>1
  <2> DEFINE p == ss[k]
             s == StreamOrder[k]
  <2>3. q[i] = p[j] /\ j \in 1 .. Len(p) /\ off[k] \in Nat /\ s \in Stream
    BY <1>0, <1>7, <2>2
  <2>4. \A h \in 1 .. Len(p) : off[k] + h \in 1 .. Len(q) /\ q[off[k] + h] = p[h]
    BY <1>7
  <2>5. i = off[k] + j
    BY <2>2
  <2>6. p = ss[k] /\ s = StreamOrder[k]
    OBVIOUS
  <2> HIDE DEF p, s
  <2>7. /\ \A h \in 1 .. Len(p) : p[h] \in Frame /\ IsEvent(p[h], s) /\ p[h].cursor \in Unsent(s)
        /\ s \in Full => \A c \in Unsent(s) : \E h \in 1 .. Len(p) : IsEvent(p[h], s) /\ p[h].cursor = c
        /\ \A h, g \in 1 .. Len(p) : p[h].cursor < p[g].cursor => h < g
        /\ Len(p) \in Nat
    <3>1. OfStream(p, s)
      BY <1>3, <2>6
    <3> QED BY <3>1 DEF OfStream
  <2>8. ASSUME s \in Full, NEW c \in Unsent(s), c < q[i].cursor
        PROVE  \E h \in 1 .. Len(q) : h < i /\ IsEvent(q[h], s) /\ q[h].cursor = c
    <3>1. PICK h \in 1 .. Len(p) : IsEvent(p[h], s) /\ p[h].cursor = c
      BY <2>7, <2>8
    <3>2. h < j
      BY <2>3, <2>7, <2>8, <3>1
    <3>3. off[k] + h < i
      BY <2>3, <2>5, <2>7, <3>2
    <3> QED BY <2>4, <3>1, <3>3
  <2> QED BY <2>3, <2>7, <2>8
<1>9. ASSUME NEW s \in Full, NEW c \in Unsent(s)
      PROVE  \E h \in 1 .. Len(q) : IsEvent(q[h], s) /\ q[h].cursor = c
  <2>1. PICK k \in 1 .. n : s = StreamOrder[k]
    BY Constants DEF Full, n
  <2> DEFINE p == ss[k]
  <2>2. \A h \in 1 .. Len(p) : off[k] + h \in 1 .. Len(q) /\ q[off[k] + h] = p[h]
    BY <1>7
  <2>3. p = ss[k]
    OBVIOUS
  <2> HIDE DEF p
  <2>4. PICK h \in 1 .. Len(p) : IsEvent(p[h], s) /\ p[h].cursor = c
    <3>1. k \in 1 .. n /\ s = StreamOrder[k] /\ p = ss[k]
      BY <2>1, <2>3
    <3>2. OfStream(p, s)
      BY <1>3, <3>1
    <3> QED BY <3>2 DEF OfStream
  <2> QED BY <2>2, <2>4
<1> QED BY <1>6, <1>8, <1>9

\* The places of two sequences put together, and of three.
Joined(q, a, b) ==
  /\ Len(q) = Len(a) + Len(b) /\ Len(a) \in Nat /\ Len(b) \in Nat
  /\ \A i \in 1 .. Len(a) : i \in 1 .. Len(q) /\ q[i] = a[i]
  /\ \A i \in 1 .. Len(b) : Len(a) + i \in 1 .. Len(q) /\ q[Len(a) + i] = b[i]

\* A sequence of two parts.
LEMMA TwoParts ==
  ASSUME NEW S, NEW a \in Seq(S), NEW b \in Seq(S), NEW q, q = a \o b
  PROVE  q \in Seq(S) /\ Joined(q, a, b)
BY DEF Joined

JoinedAll(q, a, b, c) ==
  /\ Len(a) \in Nat /\ Len(b) \in Nat /\ Len(c) \in Nat
  /\ Len(q) = Len(a) + Len(b) + Len(c)
  /\ \A i \in 1 .. Len(a) : i \in 1 .. Len(q) /\ q[i] = a[i]
  /\ \A i \in 1 .. Len(b) : Len(a) + i \in 1 .. Len(q) /\ q[Len(a) + i] = b[i]
  /\ \A i \in 1 .. Len(c) : Len(a) + Len(b) + i \in 1 .. Len(q) /\ q[Len(a) + Len(b) + i] = c[i]
  /\ \A i \in 1 .. Len(q) : \/ i \in 1 .. Len(a)
                            \/ \E j \in 1 .. Len(b) : i = Len(a) + j
                            \/ \E j \in 1 .. Len(c) : i = Len(a) + Len(b) + j

\* A sequence of three parts.
LEMMA ThreeParts ==
  ASSUME NEW S, NEW a \in Seq(S), NEW b \in Seq(S), NEW c \in Seq(S), NEW q, q = (a \o b) \o c
  PROVE  q \in Seq(S) /\ JoinedAll(q, a, b, c)
<1> DEFINE d == a \o b
<1>1. /\ d \in Seq(S) /\ Len(d) = Len(a) + Len(b) /\ Len(a) \in Nat /\ Len(b) \in Nat
      /\ \A i \in 1 .. Len(a) : i \in 1 .. Len(d) /\ d[i] = a[i]
      /\ \A i \in 1 .. Len(b) : Len(a) + i \in 1 .. Len(d) /\ d[Len(a) + i] = b[i]
  <2>1. d \in Seq(S) /\ Joined(d, a, b)
    BY TwoParts
  <2> QED BY <2>1 DEF Joined
<1>2. q = d \o c
  OBVIOUS
<1> HIDE DEF d
<1>3. /\ q \in Seq(S) /\ Len(q) = Len(d) + Len(c) /\ Len(c) \in Nat
      /\ \A i \in 1 .. Len(d) : i \in 1 .. Len(q) /\ q[i] = d[i]
      /\ \A i \in 1 .. Len(c) : Len(d) + i \in 1 .. Len(q) /\ q[Len(d) + i] = c[i]
  <2>1. d \in Seq(S) /\ c \in Seq(S)
    BY <1>1
  <2>2. q \in Seq(S) /\ Joined(q, d, c)
    BY <1>2, <2>1, TwoParts
  <2> QED BY <2>2 DEF Joined
<1>4. ASSUME NEW i \in 1 .. Len(q)
      PROVE  \/ i \in 1 .. Len(a)
             \/ \E j \in 1 .. Len(b) : i = Len(a) + j
             \/ \E j \in 1 .. Len(c) : i = Len(a) + Len(b) + j
  <2>1. CASE i <= Len(a)
    BY <1>1, <1>3, <2>1
  <2>2. CASE ~(i <= Len(a)) /\ i <= Len(a) + Len(b)
    <3>1. i - Len(a) \in 1 .. Len(b) /\ i = Len(a) + (i - Len(a))
      BY <1>1, <1>3, <2>2
    <3> QED BY <3>1
  <2>3. CASE ~(i <= Len(a) + Len(b))
    <3>1. i - (Len(a) + Len(b)) \in 1 .. Len(c) /\ i = Len(a) + Len(b) + (i - (Len(a) + Len(b)))
      BY <1>1, <1>3, <2>3
    <3> QED BY <3>1
  <2> QED BY <2>1, <2>2, <2>3
<1> QED BY <1>1, <1>3, <1>4 DEF JoinedAll

\* The answer is complete: what was held back follows it.
LEMMA FinishStep ==
  ASSUME JournalInv, FinishSubscribe
  PROVE  JournalInv'
<1> DEFINE b == HeldBack
           m == Len(frames)
           r == Len(answer)
<1>0. /\ StoreOK /\ JournalIsWhole /\ WireOK /\ PhoneOK /\ Bounded /\ Requested
      /\ Links /\ Monotone /\ Announced /\ KnownOnceReady
      /\ AnswerLinks /\ AnswerMonotone /\ PendingLinks /\ Held
  BY InvParts DEF DeliveryOK, AnswerInv
<1>1. /\ socket = "syncing" /\ socket' = "synchronized"
      /\ frames' = (frames \o answer) \o b
      /\ answer' = <<>> /\ pending' = <<>>
      /\ UNCHANGED <<storeVars, requests, phoneVars>>
  BY DEF FinishSubscribe
<1> USE DEF storeVars, phoneVars
<1>2. /\ b \in Seq(Frame)
      /\ \A i \in 1 .. Len(b) : \E s \in Stream :
           /\ b[i] \in Frame /\ IsEvent(b[i], s) /\ b[i].cursor \in Unsent(s)
           /\ s \in Full => \A c \in Unsent(s) : c < b[i].cursor =>
                \E h \in 1 .. Len(b) : h < i /\ IsEvent(b[h], s) /\ b[h].cursor = c
      /\ \A s \in Full : \A c \in Unsent(s) : \E h \in 1 .. Len(b) : IsEvent(b[h], s) /\ b[h].cursor = c
  BY <1>0, HeldBackIs
<1>3. \A i \in 1 .. Len(b) : \A s \in Stream : b[i].stream = s =>
        /\ b[i] \in Frame /\ IsEvent(b[i], s) /\ b[i].cursor \in Unsent(s)
        /\ s \in Full => \A c \in Unsent(s) : c < b[i].cursor =>
             \E h \in 1 .. Len(b) : h < i /\ IsEvent(b[h], s) /\ b[h].cursor = c
  BY <1>2 DEF IsEvent
<1>4. \A i \in 1 .. Len(b) : b[i].type = "event" /\ b[i].stream \in Stream
  BY <1>2 DEF IsEvent
<1> HIDE DEF b
<1>5. frames \in Seq(Frame) /\ answer \in Seq(Frame)
  BY <1>0 DEF WireOK
<1>6. /\ frames' \in Seq(Frame) /\ m \in Nat /\ r \in Nat /\ Len(b) \in Nat
      /\ Len(frames') = m + r + Len(b)
      /\ \A i \in 1 .. m : i \in 1 .. Len(frames') /\ frames'[i] = frames[i]
      /\ \A i \in 1 .. r : m + i \in 1 .. Len(frames') /\ frames'[m + i] = answer[i]
      /\ \A i \in 1 .. Len(b) : m + r + i \in 1 .. Len(frames') /\ frames'[m + r + i] = b[i]
      /\ \A i \in 1 .. Len(frames') : \/ i \in 1 .. m
                                      \/ \E j \in 1 .. r : i = m + j
                                      \/ \E j \in 1 .. Len(b) : i = m + r + j
  <2>1. frames' \in Seq(Frame) /\ JoinedAll(frames', frames, answer, b)
    BY <1>1, <1>2, <1>5, ThreeParts
  <2> QED BY <2>1 DEF JoinedAll
<1> HIDE DEF m, r
<1>7. Len(<<>>) = 0 /\ \A i \in 1 .. 0 : FALSE
  OBVIOUS
<1>8. \A s \in Stream : LastOf(s)' = LastOf(s) /\ LastOf(s) \in Nat
  BY <1>0, <1>1 DEF LastOf, PhoneOK
<1>9. \A s \in Full : s \in Stream
  BY DEF Full
<1>10. \A s \in Stream :
        /\ Unsent(s) \subseteq 1 .. current[s] /\ current[s] \in Nat
        /\ \A c \in Unsent(s) : \E k \in 1 .. Len(pending) : pending[k].stream = s /\ pending[k].cursor = c
        /\ \A k \in 1 .. Len(pending) : pending[k].stream = s =>
             \/ pending[k].cursor \in Unsent(s)
             \/ \E j \in 1 .. Len(answer) : answer[j] = pending[k]
  <2>1. ASSUME NEW s \in Stream
        PROVE  /\ Unsent(s) \subseteq 1 .. current[s] /\ current[s] \in Nat
               /\ \A c \in Unsent(s) : \E k \in 1 .. Len(pending) : pending[k].stream = s /\ pending[k].cursor = c
               /\ \A k \in 1 .. Len(pending) : pending[k].stream = s =>
                    \/ pending[k].cursor \in Unsent(s)
                    \/ \E j \in 1 .. Len(answer) : answer[j] = pending[k]
    BY <1>0, UnsentAre
  <2> QED BY <2>1
<1>11. StoreOK' /\ JournalIsWhole' /\ PhoneOK' /\ KnownOnceReady' /\ Requested'
  BY <1>0, <1>1 DEF StoreOK, JournalIsWhole, PhoneOK, KnownOnceReady, Requested
<1>12. WireOK' /\ Bounded'
  <2>1. WireOK'
    BY <1>0, <1>1, <1>6, <1>7 DEF WireOK
  <2>2. ASSUME NEW i \in 1 .. Len(frames') PROVE frames'[i].cursor <= current[frames'[i].stream]
    <3>1. CASE i \in 1 .. m
      BY <1>0, <1>6, <3>1 DEF Bounded, m
    <3>2. ASSUME NEW j \in 1 .. r, i = m + j PROVE frames'[i].cursor <= current[frames'[i].stream]
      BY <1>0, <1>6, <3>2 DEF Bounded, r
    <3>3. ASSUME NEW j \in 1 .. Len(b), i = m + r + j PROVE frames'[i].cursor <= current[frames'[i].stream]
      <4>1. b[j].stream \in Stream /\ b[j].cursor \in Unsent(b[j].stream)
        BY <1>3, <1>4
      <4>2. b[j].cursor \in 1 .. current[b[j].stream] /\ current[b[j].stream] \in Nat
        BY <1>10, <4>1
      <4>3. b[j].cursor <= current[b[j].stream]
        BY <4>2
      <4> QED BY <1>6, <3>3, <4>3
    <3> QED BY <1>6, <3>1, <3>2, <3>3
  <2>3. Bounded'
    BY <1>1, <1>7, <2>2 DEF Bounded
  <2> QED BY <2>1, <2>3
\* A place after everything an earlier part carries.
<1>13. ASSUME NEW s \in Stream, NEW c, NEW i \in Nat, i > m + r,
              \/ c <= LastOf(s) + 1
              \/ \E j \in 1 .. r : Carries(answer[j], s) /\ c <= answer[j].cursor + 1
              \/ \E h \in 1 .. Len(b) : m + r + h < i /\ Carries(b[h], s) /\ c <= b[h].cursor + 1
       PROVE  Linked(s, i, c)'
  <2>1. CASE c <= LastOf(s) + 1
    <3>1. c <= LastOf(s)' + 1
      BY <1>8, <2>1
    <3> QED BY <3>1 DEF Linked
  <2>2. ASSUME NEW j \in 1 .. r, Carries(answer[j], s), c <= answer[j].cursor + 1 PROVE Linked(s, i, c)'
    <3>1. m + j \in 1 .. Len(frames') /\ m + j < i /\ frames'[m + j] = answer[j]
      BY <1>6, <1>13
    <3>2. \E h \in 1 .. Len(frames') : h < i /\ Carries(frames'[h], s) /\ c <= frames'[h].cursor + 1
      BY <2>2, <3>1
    <3> QED BY <3>2 DEF Linked
  <2>3. ASSUME NEW h \in 1 .. Len(b), m + r + h < i, Carries(b[h], s), c <= b[h].cursor + 1 PROVE Linked(s, i, c)'
    <3>1. m + r + h \in 1 .. Len(frames') /\ frames'[m + r + h] = b[h]
      BY <1>6
    <3>2. \E g \in 1 .. Len(frames') : g < i /\ Carries(frames'[g], s) /\ c <= frames'[g].cursor + 1
      BY <2>3, <3>1
    <3> QED BY <3>2 DEF Linked
  <2> QED BY <1>13, <2>1, <2>2, <2>3
<1>14. ASSUME NEW s \in Full, NEW k \in 1 .. Len(pending), pending[k].stream = s
       PROVE  \/ \E j \in 1 .. r : Carries(answer[j], s) /\ answer[j].cursor = pending[k].cursor
              \/ pending[k].cursor \in Unsent(s)
  <2>1. pending[k].type = "event"
    BY <1>0 DEF WireOK
  <2> QED BY <1>9, <1>10, <1>14, <2>1 DEF Carries, r
<1>15. Links'
  <2> SUFFICES ASSUME NEW i \in 1 .. Len(frames'), NEW s \in Full, IsEvent(frames'[i], s),
                      NEW d, d = frames'[i].cursor
               PROVE  Linked(s, i, d)'
    BY DEF Links, Linked
  <2>0. s \in Stream /\ LastOf(s)' = LastOf(s)
    BY <1>8, <1>9
  <2>1. CASE i \in 1 .. m
    <3>1. Linked(s, i, frames[i].cursor)
      BY <1>0, <1>6, <2>1 DEF Links, m
    <3>2. Linked(s, i, d)
      BY <1>6, <2>1, <3>1
    <3>3. i \in 1 .. Len(frames) + 1 /\ Len(frames) \in Nat /\ Len(frames') \in Nat /\ Len(frames) <= Len(frames')
      BY <1>6, <2>1 DEF m
    <3>4. \A h \in 1 .. Len(frames) : frames'[h] = frames[h]
      BY <1>6 DEF m
    <3> QED BY <1>1, <3>2, <3>3, <3>4, LinkedGrows
  <2>2. ASSUME NEW j \in 1 .. r, i = m + j PROVE Linked(s, i, d)'
    <3>1. frames'[i] = answer[j] /\ IsEvent(answer[j], s) /\ d = answer[j].cursor
      BY <1>6, <2>2
    <3>2. \/ d <= LastOf(s) + 1
          \/ \E g \in 1 .. r : g < j /\ Carries(answer[g], s) /\ d <= answer[g].cursor + 1
      BY <1>0, <3>1 DEF AnswerLinks, r
    <3>3. CASE d <= LastOf(s) + 1
      BY <2>0, <3>3 DEF Linked
    <3>4. ASSUME NEW g \in 1 .. r, g < j, Carries(answer[g], s), d <= answer[g].cursor + 1 PROVE Linked(s, i, d)'
      <4>1. m + g \in 1 .. Len(frames') /\ frames'[m + g] = answer[g] /\ m + g < i
        <5>1. m + g \in 1 .. Len(frames') /\ frames'[m + g] = answer[g] /\ m \in Nat /\ r \in Nat
          BY <1>6
        <5>2. m + g < m + j
          BY <3>4, <5>1
        <5> QED BY <2>2, <5>1, <5>2
      <4>2. \E h \in 1 .. Len(frames') : h < i /\ Carries(frames'[h], s) /\ d <= frames'[h].cursor + 1
        BY <3>4, <4>1
      <4> QED BY <4>2 DEF Linked
    <3> QED BY <3>2, <3>3, <3>4
  <2>3. ASSUME NEW j \in 1 .. Len(b), i = m + r + j PROVE Linked(s, i, d)'
    <3>1. frames'[i] = b[j] /\ b[j].stream = s /\ d = b[j].cursor
      BY <1>6, <2>3 DEF IsEvent
    <3>2. /\ d \in Unsent(s)
          /\ \A c \in Unsent(s) : c < d => \E h \in 1 .. Len(b) : h < j /\ IsEvent(b[h], s) /\ b[h].cursor = c
      BY <1>3, <2>0, <3>1
    <3>3. PICK k \in 1 .. Len(pending) : pending[k].stream = s /\ pending[k].cursor = d
      BY <1>10, <2>0, <3>2
    <3>4. \/ d <= LastOf(s) + 1
          \/ \E g \in 1 .. r : Carries(answer[g], s) /\ d <= answer[g].cursor + 1
          \/ \E g \in 1 .. Len(pending) : pending[g].stream = s /\ d = pending[g].cursor + 1
      BY <1>0, <3>3 DEF PendingLinks, r
    <3>5. i \in Nat /\ i > m + r
      BY <1>6, <2>3
    <3>6. ASSUME NEW g \in 1 .. Len(pending), pending[g].stream = s, d = pending[g].cursor + 1
          PROVE  Linked(s, i, d)'
      <4>1. pending[g].cursor \in Nat
        <5>1. pending[g] \in Frame
          BY <1>0 DEF WireOK
        <5> QED BY <5>1 DEF Frame
      <4>2. d <= pending[g].cursor + 1 /\ pending[g].cursor < d
        BY <3>6, <4>1
      <4>3. CASE \E h \in 1 .. r : Carries(answer[h], s) /\ answer[h].cursor = pending[g].cursor
        <5>1. \E h \in 1 .. r : Carries(answer[h], s) /\ d <= answer[h].cursor + 1
          BY <4>2, <4>3
        <5> QED BY <1>13, <2>0, <3>5, <5>1
      <4>4. CASE pending[g].cursor \in Unsent(s)
        <5>1. PICK h \in 1 .. Len(b) : h < j /\ IsEvent(b[h], s) /\ b[h].cursor = pending[g].cursor
          BY <3>2, <4>2, <4>4
        <5>2. m + r + h < i /\ Carries(b[h], s) /\ d <= b[h].cursor + 1
          BY <1>6, <2>3, <4>2, <5>1 DEF IsEvent, Carries
        <5> QED BY <1>13, <2>0, <3>5, <5>2
      <4> QED BY <1>14, <3>6, <4>3, <4>4
    <3>7. d <= LastOf(s) + 1 => Linked(s, i, d)'
      BY <2>0, <3>5, <1>13
    <3>8. (\E g \in 1 .. r : Carries(answer[g], s) /\ d <= answer[g].cursor + 1) => Linked(s, i, d)'
      BY <2>0, <3>5, <1>13
    <3> QED BY <3>4, <3>6, <3>7, <3>8
  <2> QED BY <1>6, <2>1, <2>2, <2>3
<1>16. Monotone'
  <2> SUFFICES ASSUME NEW i \in 1 .. Len(frames'), NEW s \in Stream, IsSnapshot(frames'[i], s)
               PROVE  /\ LastOf(s)' <= frames'[i].cursor
                      /\ \A h \in 1 .. Len(frames') : h < i /\ Carries(frames'[h], s) => frames'[h].cursor <= frames'[i].cursor
    BY DEF Monotone
  <2>1. CASE i \in 1 .. m
    <3>1. frames'[i] = frames[i] /\ i \in 1 .. Len(frames) /\ \A h \in 1 .. Len(frames') : h < i => h \in 1 .. Len(frames)
      BY <1>6, <2>1 DEF m
    <3>2. \A h \in 1 .. Len(frames) : frames'[h] = frames[h]
      BY <1>6 DEF m
    <3> QED BY <1>0, <1>8, <3>1, <3>2 DEF Monotone
  <2>2. ASSUME NEW j \in 1 .. r, i = m + j
        PROVE  /\ LastOf(s)' <= frames'[i].cursor
               /\ \A h \in 1 .. Len(frames') : h < i /\ Carries(frames'[h], s) => frames'[h].cursor <= frames'[i].cursor
    <3>1. frames'[i] = answer[j] /\ IsSnapshot(answer[j], s)
      BY <1>6, <2>2
    <3>2. /\ LastOf(s) <= answer[j].cursor
          /\ \A h \in 1 .. m : Carries(frames[h], s) => frames[h].cursor <= answer[j].cursor
          /\ \A g \in 1 .. r : g < j /\ Carries(answer[g], s) => answer[g].cursor <= answer[j].cursor
      BY <1>0, <1>1, <3>1 DEF AnswerMonotone, m, r
    <3>3. ASSUME NEW h \in 1 .. Len(frames'), h < i, Carries(frames'[h], s)
          PROVE  frames'[h].cursor <= answer[j].cursor
      <4>1. CASE h \in 1 .. m
        BY <1>6, <3>2, <3>3, <4>1
      <4>2. ASSUME NEW g \in 1 .. r, h = m + g PROVE frames'[h].cursor <= answer[j].cursor
        <5>1. g < j
          BY <1>6, <2>2, <3>3, <4>2
        <5> QED BY <1>6, <3>2, <3>3, <4>2, <5>1
      <4>3. ASSUME NEW g \in 1 .. Len(b), h = m + r + g PROVE FALSE
        BY <1>6, <2>2, <3>3, <4>3
      <4> QED BY <1>6, <4>1, <4>2, <4>3
    <3> QED BY <1>8, <3>1, <3>2, <3>3
  <2>3. ASSUME NEW j \in 1 .. Len(b), i = m + r + j PROVE FALSE
    BY <1>4, <1>6, <2>3 DEF IsSnapshot
  <2> QED BY <1>6, <2>1, <2>2, <2>3
<1>17. Caught'
  <2> SUFFICES ASSUME NEW s \in Full, NEW d, d = current[s] + 1, NEW i, i = Len(frames') + 1
               PROVE  Linked(s, i, d)'
    BY <1>1 DEF Caught, Linked
  <2>0. s \in Stream /\ current[s] \in Nat /\ LastOf(s) \in Nat
    BY <1>8, <1>9, <1>10
  <2>1. i \in Nat /\ i > m + r /\ \A h \in 1 .. Len(b) : m + r + h < i
    BY <1>6
  <2>2. CASE current[s] <= LastOf(s)
    <3>1. d <= LastOf(s) + 1
      BY <2>0, <2>2
    <3> QED BY <1>13, <2>0, <2>1, <3>1
  <2>3. ASSUME NEW j \in 1 .. r, Carries(answer[j], s), current[s] <= answer[j].cursor PROVE Linked(s, i, d)'
    <3>1. answer[j].cursor \in Nat
      <4>1. answer[j] \in Frame
        BY <1>5 DEF r
      <4> QED BY <4>1 DEF Frame
    <3>2. d <= answer[j].cursor + 1
      BY <2>0, <2>3, <3>1
    <3>3. \E g \in 1 .. r : Carries(answer[g], s) /\ d <= answer[g].cursor + 1
      BY <2>3, <3>2
    <3> QED BY <1>13, <2>0, <2>1, <3>3
  <2>4. ASSUME NEW k \in 1 .. Len(pending), pending[k].stream = s, current[s] = pending[k].cursor
        PROVE  Linked(s, i, d)'
    <3>1. CASE pending[k].cursor \in Unsent(s)
      <4>1. PICK h \in 1 .. Len(b) : IsEvent(b[h], s) /\ b[h].cursor = current[s]
        BY <1>2, <2>4, <3>1
      <4>2. m + r + h < i /\ Carries(b[h], s) /\ d <= b[h].cursor + 1
        BY <2>0, <2>1, <4>1 DEF IsEvent, Carries
      <4> QED BY <1>13, <2>0, <2>1, <4>2
    <3>2. ASSUME NEW j \in 1 .. r, Carries(answer[j], s), answer[j].cursor = pending[k].cursor
          PROVE  Linked(s, i, d)'
      <4>1. current[s] <= answer[j].cursor
        BY <2>0, <2>4, <3>2
      <4> QED BY <2>3, <3>2, <4>1
    <3> QED BY <1>14, <2>4, <3>1, <3>2
  <2>5. \/ current[s] <= LastOf(s)
        \/ \E j \in 1 .. r : Carries(answer[j], s) /\ current[s] <= answer[j].cursor
        \/ \E k \in 1 .. Len(pending) : pending[k].stream = s /\ current[s] = pending[k].cursor
    BY <1>0, <1>1 DEF Held, r
  <2> QED BY <2>2, <2>3, <2>4, <2>5
<1>18. AnswerInv'
  BY <1>1, <1>7 DEF AnswerInv, AnswerLinks, AnswerMonotone, PendingLinks, Held
<1>19. Announced'
  <2>1. ASSUME NEW i \in 1 .. Len(frames'), NEW s \in Stream, IsComplete(frames'[i], s)
        PROVE  view[s] # Unknown \/ \E h \in 1 .. Len(frames') : h < i /\ IsSnapshot(frames'[h], s)
    <3>1. CASE i \in 1 .. m
      <4>1. view[s] # Unknown \/ \E h \in 1 .. m : h < i /\ IsSnapshot(frames[h], s)
        BY <1>0, <1>6, <2>1, <3>1 DEF Announced, m
      <4> QED BY <1>6, <4>1
    <3>2. ASSUME NEW j \in 1 .. r, i = m + j
          PROVE  view[s] # Unknown \/ \E h \in 1 .. Len(frames') : h < i /\ IsSnapshot(frames'[h], s)
      <4>1. view[s] # Unknown \/ \E g \in 1 .. r : g < j /\ IsSnapshot(answer[g], s)
        BY <1>0, <1>6, <2>1, <3>2 DEF Announced, r
      <4>2. ASSUME NEW g \in 1 .. r, g < j, IsSnapshot(answer[g], s)
            PROVE  \E h \in 1 .. Len(frames') : h < i /\ IsSnapshot(frames'[h], s)
        <5>1. m + g \in 1 .. Len(frames') /\ m + g < i /\ frames'[m + g] = answer[g]
          BY <1>6, <3>2, <4>2
        <5> QED BY <4>2, <5>1
      <4> QED BY <4>1, <4>2
    <3>3. ASSUME NEW j \in 1 .. Len(b), i = m + r + j PROVE FALSE
      BY <1>4, <1>6, <2>1, <3>3 DEF IsComplete
    <3> QED BY <1>6, <3>1, <3>2, <3>3
  <2> QED BY <1>1, <1>7, <2>1 DEF Announced
<1> QED BY <1>11, <1>12, <1>15, <1>16, <1>17, <1>18, <1>19, InvParts DEF DeliveryOK
-----------------------------------------------------------------------------
(* A frame is handled.                                                     *)

\* What handling a frame does to a stream: the phone goes forward, to the frame
\* or not at all; in full detail a frame it does not follow leaves the stream
\* paused; only a snapshot ends a pause.
Handles(f) ==
  \A s \in Stream :
    /\ LastOf(s)' \in Nat /\ LastOf(s) <= LastOf(s)'
    /\ LastOf(s)' = LastOf(s) \/ (Carries(f, s) /\ LastOf(s)' = f.cursor)
    /\ s \in Full /\ Carries(f, s) => f.cursor <= LastOf(s)' \/ s \in paused'
    /\ s \in paused /\ ~IsSnapshot(f, s) => s \in paused'
    /\ view[s] # Unknown \/ IsSnapshot(f, s) => view'[s] # Unknown

\* Links survive the frame that is handled.
LEMMA LinkedTail ==
  ASSUME frames \in Seq(Frame), frames # <<>>, frames' = Tail(frames), Monotone, Handles(Head(frames)),
         \A s \in Stream : LastOf(s) \in Nat,
         NEW s \in Full, NEW i \in 1 .. Len(frames), NEW c \in Nat, Linked(s, i + 1, c)
  PROVE  Linked(s, i, c)'
<1> DEFINE f == Head(frames)
<1>1. /\ Len(frames) \in Nat \ {0} /\ Len(frames') = Len(frames) - 1
      /\ f = frames[1] /\ 1 \in 1 .. Len(frames) /\ f \in Frame
      /\ \A h \in 1 .. Len(frames') : frames'[h] = frames[h + 1] /\ h + 1 \in 1 .. Len(frames)
      /\ \A h \in 1 .. Len(frames) : h = 1 \/ h - 1 \in 1 .. Len(frames')
      /\ \A h \in 1 .. Len(frames) : frames[h] \in Frame
  OBVIOUS
<1>2. /\ LastOf(s)' \in Nat /\ LastOf(s) <= LastOf(s)' /\ LastOf(s) \in Nat
      /\ s \in Full /\ Carries(f, s) => f.cursor <= LastOf(s)' \/ s \in paused'
      /\ s \in paused /\ ~IsSnapshot(f, s) => s \in paused'
      /\ s \in Stream
  BY DEF Handles, Full
<1>3. f.cursor \in Nat /\ \A h \in 1 .. Len(frames) : frames[h].cursor \in Nat
  BY <1>1 DEF Frame
<1> HIDE DEF f
<1>4. \A h \in 1 .. Len(frames) : h # 1 => /\ h - 1 \in 1 .. Len(frames') /\ frames'[h - 1] = frames[h]
                                           /\ h < i + 1 => h - 1 < i
  <2>1. ASSUME NEW h \in 1 .. Len(frames), h # 1
        PROVE  h - 1 \in 1 .. Len(frames') /\ frames'[h - 1] = frames[h] /\ (h < i + 1 => h - 1 < i)
    <3>1. h - 1 \in 1 .. Len(frames') /\ (h - 1) + 1 = h /\ (h < i + 1 => h - 1 < i)
      BY <1>1, <2>1
    <3> QED BY <1>1, <3>1
  <2> QED BY <2>1
<1>5. ASSUME NEW h \in 1 .. Len(frames), h # 1, h < i + 1, Carries(frames[h], s), c <= frames[h].cursor + 1
      PROVE  Linked(s, i, c)'
  <2>1. \E g \in 1 .. Len(frames') : g < i /\ Carries(frames'[g], s) /\ c <= frames'[g].cursor + 1
    BY <1>4, <1>5
  <2> QED BY <2>1 DEF Linked
<1>6. CASE c <= LastOf(s)' + 1
  BY <1>6 DEF Linked
<1>7. ASSUME s \in paused', \A h \in 1 .. Len(frames) : h # 1 /\ h < i + 1 => ~IsSnapshot(frames[h], s)
      PROVE  Linked(s, i, c)'
  <2>1. ASSUME NEW h \in 1 .. Len(frames'), h < i PROVE ~IsSnapshot(frames'[h], s)
    <3>1. frames'[h] = frames[h + 1] /\ h + 1 \in 1 .. Len(frames) /\ h + 1 # 1 /\ h + 1 < i + 1
      BY <1>1, <2>1
    <3> QED BY <1>7, <3>1
  <2> QED BY <1>7, <2>1 DEF Linked
<1>8. CASE c <= LastOf(s) + 1
  <2>1. c <= LastOf(s)' + 1
    BY <1>2, <1>8
  <2> QED BY <1>6, <2>1
<1>9. CASE s \in paused /\ \A h \in 1 .. Len(frames) : h < i + 1 => ~IsSnapshot(frames[h], s)
  <2>1. 1 < i + 1
    BY <1>1
  <2>2. ~IsSnapshot(f, s)
    BY <1>1, <1>9, <2>1
  <2> QED BY <1>2, <1>7, <1>9, <2>2
<1>10. ASSUME Carries(f, s), c <= f.cursor + 1 PROVE Linked(s, i, c)'
  <2>1. CASE f.cursor <= LastOf(s)'
    <3>1. c <= LastOf(s)' + 1
      BY <1>2, <1>3, <1>10, <2>1
    <3> QED BY <1>6, <3>1
  <2>2. CASE s \in paused' /\ \A h \in 1 .. Len(frames) : h # 1 /\ h < i + 1 => ~IsSnapshot(frames[h], s)
    BY <1>7, <2>2
  <2>3. ASSUME NEW h \in 1 .. Len(frames), h # 1, h < i + 1, IsSnapshot(frames[h], s) PROVE Linked(s, i, c)'
    <3>1. 1 < h
      BY <1>1, <2>3
    <3>2. f.cursor <= frames[h].cursor
      BY <1>1, <1>2, <1>10, <2>3, <3>1 DEF Monotone
    <3>3. c <= frames[h].cursor + 1
      <4>1. frames[h].cursor \in Nat
        BY <1>3
      <4> QED BY <1>3, <1>10, <3>2, <4>1
    <3> QED BY <1>5, <2>3, <3>3 DEF IsSnapshot, Carries
  <2> QED BY <1>2, <1>10, <2>1, <2>2, <2>3
<1>11. ASSUME NEW h \in 1 .. Len(frames), h < i + 1, Carries(frames[h], s), c <= frames[h].cursor + 1
       PROVE  Linked(s, i, c)'
  BY <1>1, <1>5, <1>10, <1>11
<1> QED BY <1>8, <1>9, <1>11 DEF Linked

\* Handling a frame keeps everything that is on its way in order.
LEMMA DeliveryKept ==
  ASSUME JournalInv, frames # <<>>, frames' = Tail(frames), Handles(Head(frames)),
         UNCHANGED <<storeVars, serverVars>>
  PROVE  /\ StoreOK' /\ JournalIsWhole' /\ Bounded' /\ Links' /\ Monotone' /\ Caught' /\ AnswerInv' /\ Announced'
         /\ frames' \in Seq(Frame)
<1> DEFINE f == Head(frames)
<1>0. /\ StoreOK /\ JournalIsWhole /\ WireOK /\ PhoneOK /\ Bounded
      /\ Links /\ Monotone /\ Caught /\ Announced
      /\ AnswerLinks /\ AnswerMonotone /\ PendingLinks /\ Held
  BY InvParts DEF DeliveryOK, AnswerInv
<1> USE DEF storeVars, serverVars
<1>1. frames \in Seq(Frame)
  BY <1>0 DEF WireOK
<1>2. /\ frames' \in Seq(Frame)
      /\ Len(frames) \in Nat \ {0} /\ Len(frames') = Len(frames) - 1
      /\ f = frames[1] /\ 1 \in 1 .. Len(frames) /\ f \in Frame
      /\ \A h \in 1 .. Len(frames') : frames'[h] = frames[h + 1] /\ h + 1 \in 1 .. Len(frames) /\ 1 < h + 1
      /\ \A h \in 1 .. Len(frames) : frames[h] \in Frame
  BY <1>1
<1>3. /\ \A h \in 1 .. Len(frames) : frames[h].cursor \in Nat /\ frames[h].stream \in Stream
      /\ \A h \in 1 .. Len(answer) : answer[h].cursor \in Nat
      /\ \A h \in 1 .. Len(pending) : pending[h].cursor \in Nat
  <2>1. \A h \in 1 .. Len(answer) : answer[h] \in Frame
    BY <1>0 DEF WireOK
  <2>2. \A h \in 1 .. Len(pending) : pending[h] \in Frame
    BY <1>0 DEF WireOK
  <2> QED BY <1>2, <2>1, <2>2 DEF Frame
<1>4. \A s \in Stream : LastOf(s) \in Nat /\ current[s] \in Nat
  BY <1>0, Constants DEF LastOf, PhoneOK, StoreOK
<1>5. \A s \in Stream :
        /\ LastOf(s)' \in Nat /\ LastOf(s) <= LastOf(s)'
        /\ LastOf(s)' = LastOf(s) \/ (Carries(f, s) /\ LastOf(s)' = f.cursor)
        /\ view[s] # Unknown \/ IsSnapshot(f, s) => view'[s] # Unknown
  BY DEF Handles
<1>6. \A s \in Full : s \in Stream
  BY DEF Full
<1> HIDE DEF f
<1>7. StoreOK' /\ JournalIsWhole'
  BY <1>0 DEF StoreOK, JournalIsWhole
<1>8. Bounded'
  BY <1>0, <1>2 DEF Bounded
<1>9. ASSUME NEW s \in Full, NEW i \in 1 .. Len(frames), NEW c \in Nat, Linked(s, i + 1, c)
      PROVE  Linked(s, i, c)'
  BY <1>0, <1>1, <1>4, <1>9, LinkedTail
<1>10. Links'
  <2> SUFFICES ASSUME NEW i \in 1 .. Len(frames'), NEW s \in Full, IsEvent(frames'[i], s),
                      NEW d, d = frames'[i].cursor
               PROVE  Linked(s, i, d)'
    BY DEF Links, Linked
  <2>1. frames'[i] = frames[i + 1] /\ i + 1 \in 1 .. Len(frames) /\ i \in 1 .. Len(frames)
    BY <1>2
  <2>2. Linked(s, i + 1, d) /\ d \in Nat
    BY <1>0, <1>3, <2>1 DEF Links
  <2> QED BY <1>6, <1>9, <2>1, <2>2
<1>11. Monotone'
  <2> SUFFICES ASSUME NEW i \in 1 .. Len(frames'), NEW s \in Stream, IsSnapshot(frames'[i], s)
               PROVE  /\ LastOf(s)' <= frames'[i].cursor
                      /\ \A h \in 1 .. Len(frames') : h < i /\ Carries(frames'[h], s) => frames'[h].cursor <= frames'[i].cursor
    BY DEF Monotone
  <2>1. frames'[i] = frames[i + 1] /\ i + 1 \in 1 .. Len(frames) /\ 1 < i + 1
    BY <1>2
  <2>2. /\ LastOf(s) <= frames[i + 1].cursor
        /\ \A h \in 1 .. Len(frames) : h < i + 1 /\ Carries(frames[h], s) => frames[h].cursor <= frames[i + 1].cursor
    BY <1>0, <2>1 DEF Monotone
  <2>3. Carries(f, s) => f.cursor <= frames[i + 1].cursor
    BY <1>2, <2>1, <2>2
  <2>4. LastOf(s)' <= frames[i + 1].cursor
    BY <1>5, <2>2, <2>3
  <2>5. \A h \in 1 .. Len(frames') : h < i => h + 1 < i + 1
    BY <1>2
  <2> QED BY <1>2, <2>1, <2>2, <2>4, <2>5
<1>12. Caught'
  <2> SUFFICES ASSUME socket = "synchronized", NEW s \in Full, NEW d, d = current[s] + 1, NEW i, i = Len(frames') + 1
               PROVE  Linked(s, i, d)'
    BY DEF Caught, Linked
  <2>1. i = Len(frames) /\ i \in 1 .. Len(frames)
    BY <1>2
  <2>2. Linked(s, i + 1, d) /\ d \in Nat
    BY <1>0, <1>4, <1>6, <2>1 DEF Caught
  <2> QED BY <1>6, <1>9, <2>1, <2>2
<1>13. AnswerLinks'
  <2> SUFFICES ASSUME NEW k \in 1 .. Len(answer), NEW s \in Full, IsEvent(answer[k], s)
               PROVE  \/ answer[k].cursor <= LastOf(s)' + 1
                      \/ \E j \in 1 .. Len(answer) : j < k /\ Carries(answer[j], s) /\ answer[k].cursor <= answer[j].cursor + 1
    BY DEF AnswerLinks
  <2>1. answer[k].cursor <= LastOf(s) + 1 => answer[k].cursor <= LastOf(s)' + 1
    BY <1>3, <1>4, <1>5, <1>6
  <2> QED BY <1>0, <2>1 DEF AnswerLinks
<1>14. AnswerMonotone'
  <2> SUFFICES ASSUME socket = "syncing", NEW k \in 1 .. Len(answer), NEW s \in Stream, IsSnapshot(answer[k], s)
               PROVE  /\ LastOf(s)' <= answer[k].cursor
                      /\ \A h \in 1 .. Len(frames') : Carries(frames'[h], s) => frames'[h].cursor <= answer[k].cursor
                      /\ \A j \in 1 .. Len(answer) : j < k /\ Carries(answer[j], s) => answer[j].cursor <= answer[k].cursor
    BY DEF AnswerMonotone
  <2>1. /\ LastOf(s) <= answer[k].cursor
        /\ \A h \in 1 .. Len(frames) : Carries(frames[h], s) => frames[h].cursor <= answer[k].cursor
        /\ \A j \in 1 .. Len(answer) : j < k /\ Carries(answer[j], s) => answer[j].cursor <= answer[k].cursor
    BY <1>0 DEF AnswerMonotone
  <2>2. LastOf(s)' <= answer[k].cursor
    BY <1>2, <1>5, <2>1
  <2> QED BY <1>2, <2>1, <2>2
<1>15. PendingLinks'
  <2> SUFFICES ASSUME NEW k \in 1 .. Len(pending), NEW s \in Full, pending[k].stream = s
               PROVE  \/ pending[k].cursor <= LastOf(s)' + 1
                      \/ \E j \in 1 .. Len(answer) : Carries(answer[j], s) /\ pending[k].cursor <= answer[j].cursor + 1
                      \/ \E j \in 1 .. Len(pending) : pending[j].stream = s /\ pending[k].cursor = pending[j].cursor + 1
    BY DEF PendingLinks
  <2>1. pending[k].cursor <= LastOf(s) + 1 => pending[k].cursor <= LastOf(s)' + 1
    BY <1>3, <1>4, <1>5, <1>6
  <2> QED BY <1>0, <2>1 DEF PendingLinks
<1>16. Held'
  <2> SUFFICES ASSUME socket = "syncing", NEW s \in Full
               PROVE  \/ current[s] <= LastOf(s)'
                      \/ \E j \in 1 .. Len(answer) : Carries(answer[j], s) /\ current[s] <= answer[j].cursor
                      \/ \E j \in 1 .. Len(pending) : pending[j].stream = s /\ current[s] = pending[j].cursor
    BY DEF Held
  <2>1. current[s] <= LastOf(s) => current[s] <= LastOf(s)'
    BY <1>4, <1>5, <1>6
  <2> QED BY <1>0, <2>1 DEF Held
<1>17. Announced'
  <2>1. ASSUME NEW i \in 1 .. Len(frames'), NEW s \in Stream, IsComplete(frames'[i], s), view'[s] = Unknown
        PROVE  \E h \in 1 .. Len(frames') : h < i /\ IsSnapshot(frames'[h], s)
    <3>1. frames'[i] = frames[i + 1] /\ i + 1 \in 1 .. Len(frames) /\ view[s] = Unknown /\ ~IsSnapshot(f, s)
      BY <1>2, <1>5, <2>1
    <3>2. PICK h \in 1 .. Len(frames) : h < i + 1 /\ IsSnapshot(frames[h], s)
      BY <1>0, <2>1, <3>1 DEF Announced
    <3>3. h # 1
      BY <1>2, <3>1, <3>2
    <3>4. h - 1 \in 1 .. Len(frames') /\ h - 1 < i /\ (h - 1) + 1 = h
      BY <1>2, <3>2, <3>3
    <3>5. frames'[h - 1] = frames[h]
      BY <1>2, <3>4
    <3> QED BY <3>2, <3>4, <3>5
  <2>2. ASSUME NEW k \in 1 .. Len(answer), NEW s \in Stream, IsComplete(answer[k], s), view'[s] = Unknown
        PROVE  \E j \in 1 .. Len(answer) : j < k /\ IsSnapshot(answer[j], s)
    <3>1. view[s] = Unknown
      BY <1>5, <2>2
    <3> QED BY <1>0, <2>2, <3>1 DEF Announced
  <2>3. Unknown' = Unknown
    BY DEF Unknown, None
  <2> QED BY <2>1, <2>2, <2>3 DEF Announced
<1> QED BY <1>2, <1>7, <1>8, <1>10, <1>11, <1>12, <1>13, <1>14, <1>15, <1>16, <1>17 DEF AnswerInv

\* What a subscription asked for, the phone still has.
LEMMA RequestedKept ==
  ASSUME PhoneOK, PhoneOK', WireOK, Requested, requests' = requests, NEW f, Handles(f)
  PROVE  Requested'
<1> SUFFICES ASSUME NEW k \in 1 .. Len(requests), requests[k].type = "subscribe", NEW s \in Stream,
                    requests[k].cursors[s] # None
             PROVE  view'[s] # Unknown /\ requests[k].cursors[s] <= view'[s].cursor
  <2>1. Unknown' = Unknown /\ None' = None
    BY DEF Unknown, None
  <2> QED BY <2>1 DEF Requested
<1>1. view[s] # Unknown /\ requests[k].cursors[s] <= view[s].cursor
  BY DEF Requested
<1>2. view'[s] # Unknown /\ LastOf(s) <= LastOf(s)'
  BY <1>1 DEF Handles
<1>3. LastOf(s) = view[s].cursor /\ LastOf(s)' = view'[s].cursor
  BY <1>1, <1>2 DEF LastOf, Unknown, None
<1>4. requests[k].cursors[s] \in Nat /\ view[s].cursor \in Nat /\ view'[s].cursor \in Nat
  <2>1. requests[k] \in Request
    BY DEF WireOK
  <2> QED BY <2>1 DEF Request, PhoneOK
<1> DEFINE x == requests[k].cursors[s]
           y == view[s].cursor
           z == view'[s].cursor
<1>5. x \in Nat /\ y \in Nat /\ z \in Nat /\ x <= y /\ y <= z
  BY <1>1, <1>2, <1>3, <1>4
<1>6. x <= z
  <2> HIDE DEF x, y, z
  <2> QED BY <1>5
<1> QED BY <1>2, <1>6

\* The frame at the head, and what the invariant says of it.
LEMMA HeadFrame ==
  ASSUME JournalInv, frames # <<>>, NEW f, f = Head(frames)
  PROVE  /\ f \in Frame /\ f.stream \in Stream /\ f.cursor \in Nat /\ f.cursor <= current[f.stream]
         /\ current[f.stream] \in Nat /\ f.cursor # None
         /\ f.type = "snapshot" => LastOf(f.stream) <= f.cursor
         /\ f.type = "event" /\ f.stream \in Full => f.cursor <= LastOf(f.stream) + 1 \/ f.stream \in paused
         /\ f.type = "complete" => view[f.stream] # Unknown
<1>0. StoreOK /\ WireOK /\ Bounded /\ Links /\ Monotone /\ Announced
  BY InvParts DEF DeliveryOK
<1>1. /\ f = frames[1] /\ 1 \in 1 .. Len(frames) /\ f \in Frame
      /\ \A h \in 1 .. Len(frames) : ~(h < 1)
  BY <1>0 DEF WireOK
<1>2. f.stream \in Stream /\ f.cursor \in Nat
  BY <1>1 DEF Frame
<1>3. f.cursor <= current[f.stream]
  BY <1>0, <1>1 DEF Bounded
<1>4. current[f.stream] \in Nat /\ f.cursor # None
  <2>1. current[f.stream] \in 0 .. MaxEvents
    BY <1>0, <1>2 DEF StoreOK
  <2> QED BY <1>2, <1>3, <2>1, Constants
<1>5. f.type = "snapshot" => LastOf(f.stream) <= f.cursor
  BY <1>0, <1>1, <1>2 DEF Monotone, IsSnapshot
<1>6. f.type = "event" /\ f.stream \in Full => f.cursor <= LastOf(f.stream) + 1 \/ f.stream \in paused
  BY <1>0, <1>1, <1>2 DEF Links, Linked, IsEvent
<1>7. f.type = "complete" => view[f.stream] # Unknown
  BY <1>0, <1>1, <1>2 DEF Announced, IsComplete
<1> QED BY <1>1, <1>2, <1>3, <1>4, <1>5, <1>6, <1>7

\* The phone handles a snapshot.
LEMMA SnapshotStep ==
  ASSUME JournalInv, SnapshotEnd
  PROVE  JournalInv'
<1>0. WireOK /\ PhoneOK /\ Requested /\ KnownOnceReady
  BY InvParts DEF DeliveryOK
<1>1. PICK f : f = Head(frames)
  OBVIOUS
<1> DEFINE t == f.stream
           v == [base |-> f.cursor, cursor |-> f.cursor]
<1>2. /\ frames # <<>> /\ f.type = "snapshot" /\ frames' = Tail(frames)
      /\ view' = [view EXCEPT ![t] = v] /\ paused' = paused \ {t}
      /\ UNCHANGED <<storeVars, serverVars, requests, syncing, phase>>
  BY <1>1 DEF SnapshotEnd, Takes
<1>3. /\ t \in Stream /\ f.cursor \in Nat /\ f.cursor <= current[t] /\ f.cursor # None
      /\ LastOf(t) <= f.cursor
  BY <1>1, <1>2, HeadFrame
<1>4. v \in [base : Nat, cursor : Nat] /\ v.cursor = f.cursor /\ v # Unknown
  <2>1. v # Unknown
    BY <1>3 DEF Unknown
  <2> QED BY <1>3, <2>1
<1>5. \A s \in Stream : /\ s = t => IsSnapshot(f, s) /\ Carries(f, s)
                        /\ s # t => ~IsSnapshot(f, s) /\ ~Carries(f, s)
  BY <1>2 DEF IsSnapshot, Carries
<1> HIDE DEF v, t
<1>6. view'[t] = v /\ \A s \in Stream : s # t => view'[s] = view[s]
  BY <1>0, <1>2, <1>3 DEF PhoneOK
<1>7. LastOf(t)' = f.cursor /\ \A s \in Stream : s # t => LastOf(s)' = LastOf(s)
  BY <1>4, <1>6 DEF LastOf, Unknown, None
<1>8. \A s \in Stream : LastOf(s) \in Nat
  BY <1>0 DEF LastOf, PhoneOK
<1>9. ASSUME NEW s \in Stream
      PROVE  /\ LastOf(s)' \in Nat /\ LastOf(s) <= LastOf(s)'
             /\ LastOf(s)' = LastOf(s) \/ (Carries(f, s) /\ LastOf(s)' = f.cursor)
             /\ s \in Full /\ Carries(f, s) => f.cursor <= LastOf(s)' \/ s \in paused'
             /\ s \in paused /\ ~IsSnapshot(f, s) => s \in paused'
             /\ view[s] # Unknown \/ IsSnapshot(f, s) => view'[s] # Unknown
  <2>1. CASE s = t
    BY <1>3, <1>4, <1>5, <1>6, <1>7, <2>1
  <2>2. CASE s # t
    BY <1>2, <1>5, <1>6, <1>7, <1>8, <2>2
  <2> QED BY <2>1, <2>2
<1>10. Handles(f)
  BY <1>9 DEF Handles
<1>11. PhoneOK'
  <2>1. view' \in [Stream -> [base : Nat, cursor : Nat]]
    BY <1>0, <1>2, <1>3, <1>4 DEF PhoneOK
  <2>2. \A s \in Stream : view'[s] # Unknown => view'[s].cursor <= current[s]
    BY <1>0, <1>3, <1>4, <1>6 DEF PhoneOK
  <2>3. Unknown' = Unknown /\ current' = current
    BY <1>2 DEF Unknown, None, storeVars
  <2> QED BY <1>0, <1>2, <2>1, <2>2, <2>3 DEF PhoneOK
<1>12. Requested'
  BY <1>0, <1>2, <1>10, <1>11, RequestedKept
<1>13. KnownOnceReady'
  <2>1. \A s \in Stream : view[s] # Unknown => view'[s] # Unknown
    BY <1>9
  <2>2. Unknown' = Unknown
    BY DEF Unknown, None
  <2> QED BY <1>0, <1>2, <2>1, <2>2 DEF KnownOnceReady
<1>14. /\ StoreOK' /\ JournalIsWhole' /\ Bounded' /\ Links' /\ Monotone' /\ Caught' /\ AnswerInv' /\ Announced'
       /\ frames' \in Seq(Frame)
  BY <1>1, <1>2, <1>10, DeliveryKept
<1>15. WireOK'
  BY <1>0, <1>2, <1>14 DEF WireOK, serverVars
<1> QED BY <1>11, <1>12, <1>13, <1>14, <1>15, InvParts DEF DeliveryOK

\* The phone handles the end of an answer.
LEMMA CompleteStep ==
  ASSUME JournalInv, SyncComplete
  PROVE  JournalInv'
<1>0. WireOK /\ PhoneOK /\ Requested /\ KnownOnceReady
  BY InvParts DEF DeliveryOK
<1>1. PICK f : f = Head(frames)
  OBVIOUS
<1> DEFINE t == f.stream
<1>2. /\ frames # <<>> /\ f.type = "complete" /\ frames' = Tail(frames)
      /\ syncing' = syncing \ {t}
      /\ phase' = IF t \in syncing /\ syncing' = {} THEN "ready" ELSE phase
      /\ UNCHANGED <<storeVars, serverVars, requests, view, paused>>
  BY <1>1 DEF SyncComplete, Takes
<1>3. t \in Stream /\ view[t] # Unknown
  BY <1>1, <1>2, HeadFrame
<1>4. \A s \in Stream : ~IsSnapshot(f, s) /\ ~Carries(f, s)
  BY <1>2 DEF IsSnapshot, Carries
<1> HIDE DEF t
<1>5. Unknown' = Unknown /\ \A s \in Stream : LastOf(s)' = LastOf(s) /\ LastOf(s) \in Nat
  BY <1>0, <1>2 DEF LastOf, PhoneOK, Unknown, None
<1>6. Handles(f)
  BY <1>2, <1>4, <1>5 DEF Handles
<1>7. PhoneOK'
  BY <1>0, <1>2, <1>5 DEF PhoneOK, storeVars
<1>8. Requested'
  BY <1>0, <1>2, <1>6, <1>7, RequestedKept
<1>9. KnownOnceReady'
  <2>1. phase' = "ready" => syncing' = {}
    BY <1>0, <1>2 DEF KnownOnceReady
  <2>2. ASSUME phase' # "offline", NEW s \in Stream \ syncing' PROVE view[s] # Unknown
    <3>1. CASE s = t
      BY <1>3, <3>1
    <3>2. CASE s # t
      <4>1. s \in Stream \ syncing
        BY <1>2, <3>2
      <4>2. CASE t \in syncing /\ syncing' = {}
        <5>1. t \in syncing /\ s \notin syncing
          BY <4>1, <4>2
        <5>2. CASE phase # "offline"
          BY <1>0, <4>1, <5>2 DEF KnownOnceReady
        <5> QED BY <1>0, <1>2, <5>2 DEF KnownOnceReady
      <4>3. CASE ~(t \in syncing /\ syncing' = {})
        BY <1>0, <1>2, <2>2, <4>1, <4>3 DEF KnownOnceReady
      <4> QED BY <4>2, <4>3
    <3> QED BY <3>1, <3>2
  <2>3. phase # "offline"
    BY <1>0, <1>2 DEF KnownOnceReady
  <2> QED BY <1>2, <1>5, <2>1, <2>2, <2>3 DEF KnownOnceReady
<1>10. /\ StoreOK' /\ JournalIsWhole' /\ Bounded' /\ Links' /\ Monotone' /\ Caught' /\ AnswerInv' /\ Announced'
       /\ frames' \in Seq(Frame)
  BY <1>1, <1>2, <1>6, DeliveryKept
<1>11. WireOK'
  BY <1>0, <1>2, <1>10 DEF WireOK, serverVars
<1> QED BY <1>7, <1>8, <1>9, <1>10, <1>11, InvParts DEF DeliveryOK

\* What the reducer decides.  A gap is an event beyond the next one in a stream
\* that is not paused.
LEMMA DispositionIs ==
  ASSUME PhoneOK, NEW s \in Stream, NEW c \in Nat, NEW d, d = disposition(s, c)
  PROVE  /\ LastOf(s) \in Nat
         /\ d = "gap" => c > LastOf(s) + 1 /\ s \notin paused
         /\ d = "applied" => c > LastOf(s) /\ c <= LastOf(s) + 1
         /\ d # "gap" /\ d # "applied" => c <= LastOf(s) \/ s \in paused \/ d = "conflict"
<1> DEFINE v == view[s]
           base == IF v = Unknown THEN 0 ELSE v.base
           last == IF v = Unknown THEN 0 ELSE v.cursor
<1>1. base \in Nat /\ last \in Nat
  BY DEF PhoneOK
<1>2. d = CASE c <= last /\ c > base -> "duplicate"
            [] c <= base -> "conflict"
            [] c > last /\ s \in paused -> "ignored"
            [] c > last + 1 /\ s \notin paused -> "gap"
            [] OTHER -> "applied"
  BY DEF disposition
<1>3. LastOf(s) = last
  BY DEF LastOf
<1> HIDE DEF last, base
<1>4. CASE c <= last /\ c > base
  BY <1>1, <1>2, <1>3, <1>4
<1>5. CASE c <= base
  BY <1>1, <1>2, <1>3, <1>5
<1>6. CASE c > last /\ c > base
  BY <1>1, <1>2, <1>3, <1>6
<1> QED BY <1>1, <1>4, <1>5, <1>6

\* The phone handles an event.
LEMMA EventStep ==
  ASSUME JournalInv, JournalEvent
  PROVE  JournalInv'
<1>0. WireOK /\ PhoneOK /\ Requested /\ KnownOnceReady
  BY InvParts DEF DeliveryOK
<1>1. PICK f : f = Head(frames)
  OBVIOUS
<1>2. PICK t : t = f.stream
  OBVIOUS
<1>3. PICK d : d = disposition(t, f.cursor)
  OBVIOUS
<1> DEFINE v == [base |-> IF view[t] = Unknown THEN 0 ELSE view[t].base, cursor |-> f.cursor]
<1>4. /\ frames # <<>> /\ f.type = "event" /\ frames' = Tail(frames)
      /\ view' = IF d = "applied" THEN [view EXCEPT ![t] = v] ELSE view
      /\ paused' = IF d = "conflict" THEN paused \cup {t} ELSE paused
      /\ CASE d = "gap" -> Subscribes(view, force)
           [] d = "conflict" -> Subscribes(view, force \cup {t})
           [] OTHER -> UNCHANGED <<requests, force, syncing, phase>>
      /\ UNCHANGED <<storeVars, serverVars>>
  BY <1>1, <1>2, <1>3 DEF JournalEvent, Takes
<1>5. /\ t \in Stream /\ f.cursor \in Nat /\ f.cursor <= current[t] /\ f.cursor # None
      /\ t \in Full => f.cursor <= LastOf(t) + 1 \/ t \in paused
  BY <1>1, <1>2, <1>4, HeadFrame
<1>6. v \in [base : Nat, cursor : Nat] /\ v.cursor = f.cursor /\ v # Unknown
  <2>1. v # Unknown
    BY <1>5 DEF Unknown
  <2>2. view[t].base \in Nat
    BY <1>0, <1>5 DEF PhoneOK
  <2> QED BY <1>5, <2>1, <2>2
<1>7. \A s \in Stream : /\ ~IsSnapshot(f, s)
                        /\ s = t => Carries(f, s)
                        /\ s # t => ~Carries(f, s)
  BY <1>2, <1>4 DEF IsSnapshot, Carries
<1>8. /\ LastOf(t) \in Nat
      /\ d = "gap" => f.cursor > LastOf(t) + 1 /\ t \notin paused
      /\ d = "applied" => f.cursor > LastOf(t) /\ f.cursor <= LastOf(t) + 1
      /\ d # "gap" /\ d # "applied" => f.cursor <= LastOf(t) \/ t \in paused \/ d = "conflict"
  BY <1>0, <1>3, <1>5, DispositionIs
<1> HIDE DEF v
<1>9. Unknown' = Unknown
  BY DEF Unknown, None
<1>10. /\ d = "applied" => view'[t] = v
       /\ d # "applied" => view' = view
       /\ \A s \in Stream : s # t => view'[s] = view[s]
  BY <1>0, <1>4, <1>5 DEF PhoneOK
<1>11. /\ d = "applied" => LastOf(t)' = f.cursor
       /\ d # "applied" => \A s \in Stream : LastOf(s)' = LastOf(s)
       /\ \A s \in Stream : s # t => LastOf(s)' = LastOf(s)
  <2>1. d = "applied" => LastOf(t)' = f.cursor
    BY <1>6, <1>9, <1>10 DEF LastOf
  <2>2. d # "applied" => \A s \in Stream : LastOf(s)' = LastOf(s)
    BY <1>9, <1>10 DEF LastOf
  <2>3. \A s \in Stream : s # t => LastOf(s)' = LastOf(s)
    BY <1>9, <1>10 DEF LastOf
  <2> QED BY <2>1, <2>2, <2>3
<1>12. \A s \in Stream : LastOf(s) \in Nat
  BY <1>0 DEF LastOf, PhoneOK
<1>13. /\ \A s \in Stream : s \in paused => s \in paused'
       /\ d = "conflict" => t \in paused'
  BY <1>4
<1>14. ASSUME NEW s \in Stream
       PROVE  /\ LastOf(s)' \in Nat /\ LastOf(s) <= LastOf(s)'
              /\ LastOf(s)' = LastOf(s) \/ (Carries(f, s) /\ LastOf(s)' = f.cursor)
              /\ s \in Full /\ Carries(f, s) => f.cursor <= LastOf(s)' \/ s \in paused'
              /\ s \in paused /\ ~IsSnapshot(f, s) => s \in paused'
              /\ view[s] # Unknown \/ IsSnapshot(f, s) => view'[s] # Unknown
  <2>1. CASE s # t
    BY <1>7, <1>10, <1>11, <1>12, <1>13, <2>1
  <2>2. CASE s = t /\ d = "applied"
    <3>1. LastOf(s)' = f.cursor /\ view'[s] # Unknown
      BY <1>6, <1>10, <1>11, <2>2
    <3>2. LastOf(s) <= f.cursor /\ f.cursor <= f.cursor
      BY <1>5, <1>8, <1>12, <2>2
    <3> QED BY <1>5, <1>7, <1>13, <2>2, <3>1, <3>2
  <2>3. CASE s = t /\ d # "applied"
    <3>1. LastOf(s)' = LastOf(s) /\ view'[s] = view[s] /\ LastOf(s) <= LastOf(s) /\ LastOf(s) \in Nat
      BY <1>8, <1>10, <1>11, <2>3
    <3>2. s \in Full => f.cursor <= LastOf(s) \/ s \in paused'
      <4>1. s \in Full => d # "gap"
        BY <1>5, <1>8, <2>3
      <4> QED BY <1>8, <1>13, <2>3, <4>1
    <3> QED BY <1>7, <1>13, <2>3, <3>1, <3>2
  <2> QED BY <2>1, <2>2, <2>3
<1>15. Handles(f)
  BY <1>14 DEF Handles
<1>16. \/ /\ d = "gap" \/ d = "conflict"
          /\ \E forced : Subscribes(view, forced)
       \/ UNCHANGED <<requests, force, syncing, phase>>
  BY <1>4
<1>17. PhoneOK'
  <2>1. view' \in [Stream -> [base : Nat, cursor : Nat]]
    BY <1>0, <1>4, <1>5, <1>6 DEF PhoneOK
  <2>2. \A s \in Stream : view'[s] # Unknown => view'[s].cursor <= current[s]
    <3>1. ASSUME NEW s \in Stream, view'[s] # Unknown PROVE view'[s].cursor <= current[s]
      <4>1. CASE s = t /\ d = "applied"
        BY <1>5, <1>6, <1>10, <4>1
      <4>2. CASE ~(s = t /\ d = "applied")
        <5>1. view'[s] = view[s]
          BY <1>10, <4>2
        <5> QED BY <1>0, <3>1, <5>1 DEF PhoneOK
      <4> QED BY <4>1, <4>2
    <3> QED BY <3>1
  <2>3. current' = current /\ paused' \subseteq Stream
    BY <1>0, <1>4, <1>5 DEF PhoneOK, storeVars
  <2>4. syncing' \subseteq Stream
    BY <1>0, <1>16 DEF PhoneOK, Subscribes
  <2> QED BY <1>9, <2>1, <2>2, <2>3, <2>4 DEF PhoneOK
<1>18. Requested' /\ requests' \in Seq(Request) /\ KnownOnceReady'
  <2>1. ASSUME NEW forced, Subscribes(view, forced), d = "gap" \/ d = "conflict"
        PROVE  Requested' /\ requests' \in Seq(Request) /\ KnownOnceReady'
    <3>1. requests' = Append(requests, RequestOf(view, forced)) /\ view' = view
      BY <1>10, <2>1 DEF Subscribes
    <3>2. requests' \in Seq(Request) /\ Requested'
      BY <1>0, <3>1, RequestOfIs, RequestSent
    <3>3. KnownOnceReady'
      BY <2>1 DEF Subscribes, KnownOnceReady
    <3> QED BY <3>2, <3>3
  <2>2. CASE UNCHANGED <<requests, force, syncing, phase>>
    <3>1. Requested'
      BY <1>0, <1>15, <1>17, <2>2, RequestedKept
    <3>2. \A s \in Stream : view[s] # Unknown => view'[s] # Unknown
      BY <1>14
    <3>3. phase # "offline"
      BY <1>0, <1>4 DEF KnownOnceReady
    <3>4. KnownOnceReady'
      BY <1>0, <1>9, <2>2, <3>2, <3>3 DEF KnownOnceReady
    <3> QED BY <1>0, <2>2, <3>1, <3>4 DEF WireOK
  <2> QED BY <1>16, <2>1, <2>2
<1>19. /\ StoreOK' /\ JournalIsWhole' /\ Bounded' /\ Links' /\ Monotone' /\ Caught' /\ AnswerInv' /\ Announced'
       /\ frames' \in Seq(Frame)
  BY <1>1, <1>4, <1>15, DeliveryKept
<1>20. WireOK'
  BY <1>0, <1>4, <1>18, <1>19 DEF WireOK, serverVars
<1> QED BY <1>17, <1>18, <1>19, <1>20, InvParts DEF DeliveryOK
-----------------------------------------------------------------------------
(* The theorems.                                                           *)

\* The invariant holds initially and every step of the store, the server, the
\* phone and the network keeps it.
LEMMA JournalInduction == Spec => []JournalInv
<1>1. JournalInv /\ [Next]_vars => JournalInv'
  <2> SUFFICES ASSUME JournalInv, [Next]_vars PROVE JournalInv'
    OBVIOUS
  <2>1. CASE Produce
    <3>1. PICK s \in Stream, isSummary \in BOOLEAN :
            (s \in SummaryStream \/ isSummary) /\ append(s, isSummary)
      BY <2>1 DEF Produce
    <3> QED BY <3>1, AppendStep
  <2>2. CASE Serve
    BY <2>2, SubscribeStep, FinishStep, AckStep DEF Serve
  <2>3. CASE compactLegacyEvents
    BY <2>3, CompactStep
  <2>4. CASE \E i \in Peer : PeerAcks(i) \/ Revoke(i)
    BY <2>4, PeerStep
  <2>5. CASE Deliver
    BY <2>5, SnapshotStep, EventStep, CompleteStep, ClosingSteps DEF Deliver
  <2>6. CASE Connect \/ Reselect
    BY <2>6, SubscribingStep
  <2>7. CASE SendAck
    BY <2>7, SendAckStep
  <2>8. CASE Disconnect \/ AppRestart
    BY <2>8, ClosingSteps
  <2>9. CASE UNCHANGED vars
    <3>1. /\ UNCHANGED <<current, rows, floor, acked, valid>>
          /\ UNCHANGED <<current, serverVars, requests, frames, phoneVars>>
      BY <2>9 DEF vars, storeVars
    <3>2. StoreOK /\ JournalIsWhole /\ DeliveryOK
      BY InvParts
    <3>3. StoreOK' /\ JournalIsWhole'
      BY <3>1, <3>2 DEF StoreOK, JournalIsWhole
    <3> QED BY <3>1, <3>2, <3>3, Unaffected, InvParts
  <2> QED BY <2>1, <2>2, <2>3, <2>4, <2>5, <2>6, <2>7, <2>8, <2>9 DEF Next
<1> QED BY <1>1, InitInv, PTL DEF Spec

\* The journal holds exactly the events above the retention floor
\* (appendEventTx, compactLegacyEvents), whatever was compacted, acknowledged
\* or revoked: every replay readReplay grants is complete.
THEOREM JournalStaysWhole == Spec => []JournalIsWhole
<1>1. JournalInv => JournalIsWhole
  BY DEF JournalInv
<1> QED BY <1>1, JournalInduction, PTL

\* In a stream it has in full detail the phone's reducer never meets a gap,
\* across reconnects, restarts, repeated subscriptions and events that race the
\* answer to one.
THEOREM NoGaps == Spec => []NoGapInFullDetail
<1>1. JournalInv => NoGapInFullDetail
  <2> SUFFICES ASSUME JournalInv, NEW s \in Stream \ SummaryStream,
                      frames # <<>>, Head(frames).type = "event", Head(frames).stream = s
               PROVE  disposition(s, Head(frames).cursor) # "gap"
    BY DEF NoGapInFullDetail
  <2>1. PICK f : f = Head(frames)
    OBVIOUS
  <2>2. f.cursor \in Nat /\ s \in Stream /\ (f.cursor <= LastOf(s) + 1 \/ s \in paused)
    BY <2>1, HeadFrame DEF Full
  <2>3. PhoneOK
    BY InvParts DEF DeliveryOK
  <2>4. LastOf(s) \in Nat /\ (disposition(s, f.cursor) = "gap" => f.cursor > LastOf(s) + 1 /\ s \notin paused)
    BY <2>2, <2>3, DispositionIs
  <2> QED BY <2>1, <2>2, <2>4
<1> QED BY <1>1, JournalInduction, PTL

\* A phone that is ready, synchronized and has nothing on its way to it has
\* every event of every stream it follows in full detail and that is not paused.
THEOREM ReadyIsCurrent == Spec => []ReadyMeansCurrent
<1>1. JournalInv => ReadyMeansCurrent
  <2> SUFFICES ASSUME JournalInv, phase = "ready", socket = "synchronized", frames = <<>>,
                      NEW s \in Stream \ (SummaryStream \cup paused)
               PROVE  view[s].cursor = current[s]
    BY DEF ReadyMeansCurrent
  <2>0. StoreOK /\ PhoneOK /\ Caught /\ KnownOnceReady
    BY InvParts DEF DeliveryOK
  <2>1. s \in Stream /\ s \in Full /\ s \notin paused
    BY DEF Full
  <2>2. view[s] # Unknown /\ view[s].cursor <= current[s] /\ view[s].cursor \in Nat /\ current[s] \in Nat
    BY <2>0, <2>1, Constants DEF KnownOnceReady, PhoneOK, StoreOK
  <2>3. LastOf(s) = view[s].cursor
    BY <2>2 DEF LastOf
  <2>4. Linked(s, Len(frames) + 1, current[s] + 1)
    BY <2>0, <2>1 DEF Caught
  <2>5. \A h \in 1 .. Len(frames) : FALSE
    OBVIOUS
  <2>6. current[s] + 1 <= LastOf(s) + 1
    BY <2>1, <2>4, <2>5 DEF Linked
  <2> QED BY <2>2, <2>3, <2>6
<1> QED BY <1>1, JournalInduction, PTL
=============================================================================
