----------------------- MODULE ControllerLeasesProofs -----------------------
(***************************************************************************)
(* Theorems about ControllerLeases, for every set of scopes, phones and    *)
(* connections, every lease duration and reclaim window, and any number of *)
(* leases and queued writes.                                               *)
(***************************************************************************)
EXTENDS ControllerBooks, TLAPS

\* The row of a scope is one of the issued rows, and belongs to the scope.
RowsAreIssued ==
  \A s \in Scope : Held(s) => /\ lease[s].id \in DOMAIN issued
                              /\ issued[lease[s].id].scope = s

\* Writes wait in the order of their leases, behind the last one executed.
LanesAreOrdered ==
  \A s \in Scope :
    /\ acted[s] <= Len(issued)
    /\ \A k \in DOMAIN lanes[s] : acted[s] <= lanes[s][k].lease
    /\ \A j, k \in DOMAIN lanes[s] : j <= k => lanes[s][j].lease <= lanes[s][k].lease

\* The row of a scope is the newest lease any of its writes was made under.
RowIsNewest ==
  \A s \in Scope : Held(s) =>
    /\ acted[s] <= lease[s].id
    /\ \A k \in DOMAIN lanes[s] : lanes[s][k].lease <= lease[s].id

Inv ==
  /\ TypeOK
  /\ RowsAreIssued
  /\ WritesAreAuthorised
  /\ ReclaimableMeansGone
  /\ LanesAreOrdered
  /\ RowIsNewest

-----------------------------------------------------------------------------
(* A lane, as a sequence, when a write joins it and when its head leaves.  *)

\* What a queue has once a write joined it.
LEMMA JoinFacts ==
  ASSUME NEW S, NEW q \in Seq(S), NEW e \in S
  PROVE  /\ Append(q, e) \in Seq(S)
         /\ DOMAIN Append(q, e) = 1..(Len(q) + 1) /\ DOMAIN q = 1..Len(q)
         /\ Append(q, e)[Len(q) + 1] = e
         /\ \A k \in 1..Len(q) : Append(q, e)[k] = q[k]
OBVIOUS

\* What a queue has once its first write left.
LEMMA LeaveFacts ==
  ASSUME NEW S, NEW q \in Seq(S), q # <<>>
  PROVE  /\ Tail(q) \in Seq(S) /\ Len(q) \in Nat \ {0}
         /\ DOMAIN Tail(q) = 1..(Len(q) - 1) /\ DOMAIN q = 1..Len(q)
         /\ \A k \in 1..(Len(q) - 1) : k + 1 \in 1..Len(q) /\ Tail(q)[k] = q[k + 1]
<1>1. Len(q) \in Nat \ {0} /\ DOMAIN q = 1..Len(q)
  OBVIOUS
<1>2. Tail(q) \in Seq(S) /\ Len(Tail(q)) = Len(q) - 1
  OBVIOUS
<1>3. DOMAIN Tail(q) = 1..(Len(q) - 1)
  BY <1>2
<1>4. \A k \in 1..(Len(q) - 1) : Tail(q)[k] = q[k + 1]
  BY <1>1
<1>5. \A k \in 1..(Len(q) - 1) : k + 1 \in 1..Len(q)
  BY <1>1
<1> QED BY <1>1, <1>2, <1>3, <1>4, <1>5

-----------------------------------------------------------------------------
(* Each action preserves the invariant.                                    *)

\* An announcement keeps the journal well typed.
LEMMA AnnounceType ==
  ASSUME TypeOK, NEW s \in Scope, NEW mode \in {"controller", "observer"},
         NEW id \in 0..MaxLeases, Announce(s, mode, id)
  PROVE  journal' \in [Scope -> Seq(Notice)]
<1>1. [mode |-> mode, lease |-> id] \in Notice
  BY DEF Notice
<1>2. journal[s] \in Seq(Notice)
  BY DEF TypeOK
<1>3. Append(journal[s], [mode |-> mode, lease |-> id]) \in Seq(Notice)
  BY <1>1, <1>2
<1> QED BY <1>3 DEF Announce, TypeOK

\* No leases, no writes.
LEMMA InvInit == Init => Inv
<1> SUFFICES ASSUME Init PROVE Inv
  OBVIOUS
<1>1. TypeOK
  BY LeaseAssumption DEF Init, TypeOK
<1>2. RowsAreIssued /\ WritesAreAuthorised /\ ReclaimableMeansGone
  BY DEF Init, RowsAreIssued, WritesAreAuthorised, ReclaimableMeansGone, Held, NoLease
<1>3. LanesAreOrdered /\ RowIsNewest
  BY DEF Init, LanesAreOrdered, RowIsNewest, Held
<1> QED BY <1>1, <1>2, <1>3 DEF Inv

\* A scope without a row has nothing that could be reclaimed, and a row that
\* is held is a lease.
LEMMA HeldIsLease ==
  ASSUME TypeOK, NEW s \in Scope
  PROVE  /\ Held(s) => lease[s] \in Lease
         /\ ~Held(s) => lease[s] = NoLease
BY DEF TypeOK, Held

\* An issued row names a scope and a connection.
LEMMA RowType ==
  ASSUME TypeOK, NEW id \in DOMAIN issued
  PROVE  id \in Nat \ {0} /\ issued[id].scope \in Scope /\ issued[id].conn \in Connection
<1>1. issued \in Seq(Row)
  BY DEF TypeOK
<1>2. id \in 1..Len(issued) /\ issued[id] \in Row /\ Len(issued) \in Nat
  BY <1>1
<1> QED BY <1>2 DEF Row

\* A row that can be reclaimed was issued to a connection.
LEMMA ReclaimableHolder ==
  ASSUME TypeOK, RowsAreIssued, NEW s \in Scope, lease[s].reclaimIn # Never
  PROVE  HolderConn(s) \in Connection
<1>1. Held(s)
  BY HeldIsLease DEF NoLease
<1> QED BY <1>1, RowType DEF HolderConn, RowsAreIssued

\* A new lease is one number further than all that were issued.
LEMMA GrantInv ==
  ASSUME Inv, NEW c \in Connection, NEW s \in Scope, NEW takeover \in BOOLEAN,
         Grant(c, s, takeover)
  PROVE  Inv'
<1> DEFINE id == Len(issued) + 1
           row == [id |-> id, expiresIn |-> LeaseTTL, reclaimIn |-> Never, takeover |-> takeover]
<1> USE DEF Inv
<1>1. /\ Len(issued) \in Nat /\ id \in LeaseId /\ row \in Lease /\ row # NoLease
  BY LeaseAssumption DEF Grant, TypeOK, Lease, LeaseId, Never, NoLease
<1>2. /\ issued' \in Seq(Row) /\ Len(issued') = id /\ DOMAIN issued' = 1..id
      /\ issued'[id] = [scope |-> s, conn |-> c]
      /\ \A k \in DOMAIN issued : k \in DOMAIN issued' /\ issued'[k] = issued[k]
  BY DEF Grant, TypeOK, Row
<1>3. /\ lease' = [lease EXCEPT ![s] = row]
      /\ UNCHANGED <<lanes, conn, acted>>
  BY DEF Grant
<1>4. /\ lease'[s] = row
      /\ \A t \in Scope : t # s => lease'[t] = lease[t]
  BY <1>3 DEF TypeOK
<1>5. TypeOK'
  <2>1. id \in 0..MaxLeases
    BY <1>1 DEF LeaseId
  <2>2. journal' \in [Scope -> Seq(Notice)]
    BY <2>1, AnnounceType DEF Grant
  <2>3. lease' \in [Scope -> Lease \cup {NoLease}]
    BY <1>1, <1>3 DEF TypeOK
  <2>4. Len(issued') <= MaxLeases
    BY <1>1, <1>2 DEF LeaseId
  <2> QED BY <1>2, <1>3, <2>2, <2>3, <2>4 DEF TypeOK
<1>6. RowsAreIssued'
  BY <1>1, <1>2, <1>4 DEF RowsAreIssued, Held
<1>7. WritesAreAuthorised'
  BY <1>2, <1>3 DEF WritesAreAuthorised
<1>8. ReclaimableMeansGone'
  <2> SUFFICES ASSUME NEW t \in Scope, lease'[t].reclaimIn # Never
               PROVE  conn'[issued'[lease'[t].id].conn] = "closed"
    BY DEF ReclaimableMeansGone, HolderConn
  <2>1. t # s
    BY <1>4
  <2>2. Held(t)
    BY <1>4, <2>1, HeldIsLease DEF NoLease
  <2> QED BY <1>2, <1>3, <1>4, <2>1, <2>2 DEF ReclaimableMeansGone, RowsAreIssued, HolderConn
<1>9. LanesAreOrdered'
  <2>1. \A t \in Scope : acted[t] \in Int /\ acted[t] <= Len(issued')
    BY <1>1, <1>2 DEF LanesAreOrdered, TypeOK
  <2> QED BY <1>3, <2>1 DEF LanesAreOrdered
<1>10. RowIsNewest'
  <2>1. acted[s] <= id
    BY <1>1 DEF LanesAreOrdered, TypeOK
  <2>2. \A k \in DOMAIN lanes[s] : lanes[s][k].lease <= id
    BY <1>1 DEF WritesAreAuthorised, TypeOK
  <2> QED BY <1>3, <1>4, <2>1, <2>2 DEF RowIsNewest, Held
<1> QED BY <1>5, <1>6, <1>7, <1>8, <1>9, <1>10

\* A released scope has no lease.
LEMMA ReleaseInv ==
  ASSUME Inv, NEW c \in Connection, NEW s \in Scope, Release(c, s)
  PROVE  Inv'
<1> USE DEF Inv
<1>1. /\ lease' = [lease EXCEPT ![s] = NoLease]
      /\ UNCHANGED <<issued, lanes, conn, acted>>
  BY DEF Release
<1>2. /\ lease'[s] = NoLease
      /\ \A t \in Scope : t # s => lease'[t] = lease[t]
  BY <1>1 DEF TypeOK
<1>3. TypeOK'
  <2>1. 0 \in 0..MaxLeases
    BY LeaseAssumption
  <2>2. journal' \in [Scope -> Seq(Notice)]
    BY <2>1, AnnounceType DEF Release
  <2> QED BY <1>1, <2>2 DEF TypeOK
<1>4. RowsAreIssued' /\ RowIsNewest'
  BY <1>1, <1>2 DEF RowsAreIssued, RowIsNewest, Held
<1>5. WritesAreAuthorised' /\ LanesAreOrdered'
  BY <1>1 DEF WritesAreAuthorised, LanesAreOrdered
<1>6. ReclaimableMeansGone'
  BY <1>1, <1>2 DEF ReclaimableMeansGone, HolderConn, NoLease
<1> QED BY <1>3, <1>4, <1>5, <1>6

\* What only changes the clocks of the rows, and stamps a row only once its
\* connection is closed, preserves the invariant.
LEMMA ClocksInv ==
  ASSUME Inv, lease' \in [Scope -> Lease \cup {NoLease}],
         conn' \in [Connection -> {"new", "open", "closed"}],
         \A s \in Scope : lease'[s].id = lease[s].id,
         \A s \in Scope : lease'[s].reclaimIn # Never => conn'[HolderConn(s)] = "closed",
         UNCHANGED <<issued, lanes, journal, acted>>
  PROVE  Inv'
<1> USE DEF Inv
<1>1. \A s \in Scope : Held(s)' => Held(s)
  BY DEF Held, TypeOK, Lease, LeaseId, NoLease
<1>2. TypeOK'
  BY DEF TypeOK
<1>3. RowsAreIssued' /\ RowIsNewest'
  BY <1>1 DEF RowsAreIssued, RowIsNewest
<1>4. WritesAreAuthorised' /\ LanesAreOrdered'
  BY DEF WritesAreAuthorised, LanesAreOrdered
<1>5. ReclaimableMeansGone'
  BY DEF ReclaimableMeansGone, HolderConn
<1> QED BY <1>2, <1>3, <1>4, <1>5

\* A renewal changes the expiry only.
LEMMA RenewInv ==
  ASSUME Inv, NEW c \in Connection, NEW id \in DOMAIN issued, Renew(c, id)
  PROVE  Inv'
<1> USE DEF Inv
<1> DEFINE s == issued[id].scope
<1>1. s \in Scope /\ id \in Nat \ {0}
  BY RowType
<1>2. lease[s] \in Lease
  BY <1>1 DEF Renew, TypeOK, NoLease
<1>3. lease' = [lease EXCEPT ![s].expiresIn = LeaseTTL]
  BY DEF Renew
<1>4. [lease[s] EXCEPT !.expiresIn = LeaseTTL] \in Lease
  BY <1>2, LeaseAssumption DEF Lease
<1>5. lease' \in [Scope -> Lease \cup {NoLease}]
  BY <1>3, <1>4 DEF TypeOK
<1>6. \A t \in Scope : lease'[t].id = lease[t].id /\ lease'[t].reclaimIn = lease[t].reclaimIn
  BY <1>2, <1>3 DEF TypeOK, Lease
<1> HIDE DEF s
<1>7. UNCHANGED <<issued, lanes, conn, journal, acted>>
  BY DEF Renew
<1> QED BY <1>5, <1>6, <1>7, ClocksInv DEF TypeOK, ReclaimableMeansGone

\* Time changes the two clocks of a row and nothing else.
LEMMA TickFacts ==
  ASSUME TypeOK, Tick
  PROVE  /\ lease' \in [Scope -> Lease \cup {NoLease}]
         /\ \A s \in Scope : /\ lease'[s].id = lease[s].id
                             /\ lease'[s].reclaimIn # Never => lease[s].reclaimIn # Never
<1> DEFINE aged(s) == [lease[s] EXCEPT !.expiresIn = IF @ > 0 THEN @ - 1 ELSE 0,
                                       !.reclaimIn = IF @ > Never THEN @ - 1 ELSE Never]
<1>1. \A s \in Scope : lease'[s] = aged(s)
  BY DEF Tick
<1>2. ASSUME NEW s \in Scope
      PROVE  /\ aged(s) \in Lease \cup {NoLease}
             /\ aged(s).id = lease[s].id
             /\ aged(s).reclaimIn # Never => lease[s].reclaimIn # Never
  <2> DEFINE e == IF lease[s].expiresIn > 0 THEN lease[s].expiresIn - 1 ELSE 0
             r == IF lease[s].reclaimIn > Never THEN lease[s].reclaimIn - 1 ELSE Never
  <2>1. CASE lease[s] \in Lease
    <3>1. e \in 0..LeaseTTL /\ r \in Never..ReclaimWindow
      BY <2>1, LeaseAssumption DEF Lease, Never
    <3>2. aged(s) = [lease[s] EXCEPT !.expiresIn = e, !.reclaimIn = r]
      BY <2>1 DEF Lease
    <3>3. /\ aged(s) \in Lease
          /\ aged(s).id = lease[s].id /\ aged(s).reclaimIn = r
      BY <2>1, <3>1, <3>2 DEF Lease
    <3> QED BY <2>1, <3>3 DEF Lease, Never
  <2>2. CASE lease[s] = NoLease
    <3>1. e = lease[s].expiresIn /\ r = lease[s].reclaimIn
      BY <2>2 DEF NoLease, Never
    <3>2. aged(s) = [lease[s] EXCEPT !.expiresIn = e, !.reclaimIn = r]
      BY <2>2 DEF NoLease
    <3>3. aged(s) = NoLease
      BY <2>2, <3>1, <3>2 DEF NoLease
    <3> QED BY <2>2, <3>3
  <2> QED BY <2>1, <2>2 DEF TypeOK
<1>3. lease' \in [Scope -> Lease \cup {NoLease}]
  BY <1>2 DEF Tick
<1>4. \A s \in Scope : /\ lease'[s].id = lease[s].id
                       /\ lease'[s].reclaimIn # Never => lease[s].reclaimIn # Never
  BY <1>1, <1>2
<1> HIDE DEF aged
<1> QED BY <1>3, <1>4

\* Time passes for every lease alike.
LEMMA TickInv ==
  ASSUME Inv, Tick
  PROVE  Inv'
<1>1. UNCHANGED <<issued, lanes, conn, journal, acted>>
  BY DEF Tick
<1> QED BY <1>1, TickFacts, ClocksInv DEF Inv, TypeOK, ReclaimableMeansGone

\* A connection that closes stamps at most the rows it holds itself.
LEMMA DisconnectInv ==
  ASSUME Inv, NEW c \in Connection, Disconnect(c)
  PROVE  Inv'
<1> USE DEF Inv
<1>1. /\ conn' = [conn EXCEPT ![c] = "closed"]
      /\ UNCHANGED <<issued, lanes, journal, acted>>
  BY DEF Disconnect
<1>2. /\ conn' \in [Connection -> {"new", "open", "closed"}]
      /\ \A d \in Connection : conn[d] = "closed" => conn'[d] = "closed"
      /\ conn'[c] = "closed"
  BY <1>1 DEF TypeOK
<1>3. \A s \in Scope : lease[s].reclaimIn # Never => conn'[HolderConn(s)] = "closed"
  <2> SUFFICES ASSUME NEW s \in Scope, lease[s].reclaimIn # Never
               PROVE  conn'[HolderConn(s)] = "closed"
    OBVIOUS
  <2> QED BY <1>2, ReclaimableHolder DEF ReclaimableMeansGone
<1>4. CASE UNCHANGED lease
  BY <1>1, <1>2, <1>3, <1>4, ClocksInv DEF TypeOK
<1>5. CASE Stamp([s \in Scope |-> Held(s) /\ HolderConn(s) = c])
  <2>1. \A s \in Scope :
          lease'[s] = IF Held(s) /\ HolderConn(s) = c
                      THEN [lease[s] EXCEPT !.reclaimIn = ReclaimWindow] ELSE lease[s]
    BY <1>5 DEF Stamp
  <2>2. ASSUME NEW s \in Scope, Held(s)
        PROVE  /\ [lease[s] EXCEPT !.reclaimIn = ReclaimWindow] \in Lease
               /\ [lease[s] EXCEPT !.reclaimIn = ReclaimWindow].id = lease[s].id
    BY <2>2, HeldIsLease, LeaseAssumption DEF Lease, Never
  <2>3. lease' \in [Scope -> Lease \cup {NoLease}]
    <3>1. \A s \in Scope : lease'[s] \in Lease \cup {NoLease}
      BY <2>1, <2>2 DEF TypeOK
    <3>2. lease' = [s \in Scope |-> lease'[s]]
      BY <1>5 DEF Stamp
    <3> QED BY <3>1, <3>2
  <2>4. \A s \in Scope : lease'[s].id = lease[s].id
    BY <2>1, <2>2
  <2>5. \A s \in Scope : lease'[s].reclaimIn # Never => conn'[HolderConn(s)] = "closed"
    BY <1>2, <1>3, <2>1
  <2> QED BY <1>1, <1>2, <2>3, <2>4, <2>5, ClocksInv
<1> QED BY <1>4, <1>5 DEF Disconnect

\* Opening, closing and losing connections.
LEMMA ConnectionsInv ==
  ASSUME Inv, Crash \/ \E c \in Connection : Open(c)
  PROVE  Inv'
<1> USE DEF Inv
<1>1. UNCHANGED <<lease, issued, lanes, journal, acted>>
  BY DEF Crash, Open
<1>2. /\ conn' \in [Connection -> {"new", "open", "closed"}]
      /\ \A d \in Connection : conn[d] = "closed" => conn'[d] = "closed"
  BY DEF Crash, Open, TypeOK
<1>3. \A s \in Scope : lease[s].reclaimIn # Never => HolderConn(s) \in Connection
  BY ReclaimableHolder
<1>4. \A s \in Scope : lease'[s].reclaimIn # Never => conn'[HolderConn(s)] = "closed"
  BY <1>1, <1>2, <1>3 DEF ReclaimableMeansGone
<1> QED BY <1>1, <1>2, <1>4, ClocksInv DEF TypeOK

\* An accepted write is made under the row of its scope, the newest lease.
LEMMA SubmitInv ==
  ASSUME Inv, NEW c \in Connection, NEW s \in Scope, NEW id \in DOMAIN issued,
         SubmitWrite(c, s, id)
  PROVE  Inv'
<1> USE DEF Inv
<1> DEFINE w == [lease |-> id, conn |-> c]
           n == Len(lanes[s])
<1>1. /\ Held(s) /\ lease[s].id = id /\ HolderConn(s) = c
      /\ lanes' = [lanes EXCEPT ![s] = Append(@, w)]
      /\ UNCHANGED <<lease, issued, conn, journal, acted>>
  BY DEF SubmitWrite, assertController
<1>2. id \in LeaseId
  BY <1>1, HeldIsLease DEF Lease
<1>3. w \in Write /\ lanes[s] \in Seq(Write) /\ n \in Nat
  <2>1. w \in Write
    BY <1>2 DEF Write
  <2>2. lanes[s] \in Seq(Write)
    BY DEF TypeOK
  <2> QED BY <2>1, <2>2
<1>4. /\ \A t \in Scope : t # s => lanes'[t] = lanes[t]
      /\ lanes'[s] = Append(lanes[s], w) /\ lanes'[s] \in Seq(Write)
  BY <1>1, <1>3 DEF TypeOK
<1>5. /\ DOMAIN lanes'[s] = 1..(n + 1) /\ DOMAIN lanes[s] = 1..n
      /\ lanes'[s][n + 1] = w
      /\ \A k \in 1..n : lanes'[s][k] = lanes[s][k] /\ lanes[s][k].lease \in Nat
  <2>1. \A k \in 1..n : lanes[s][k] \in Write
    BY <1>3
  <2>2. \A k \in 1..n : lanes[s][k].lease \in Nat
    BY <2>1 DEF Write, LeaseId
  <2> QED BY <1>3, <1>4, <2>2, JoinFacts
<1>6. TypeOK'
  BY <1>1, <1>4 DEF TypeOK
<1>7. RowsAreIssued' /\ ReclaimableMeansGone'
  BY <1>1 DEF RowsAreIssued, ReclaimableMeansGone, Held, HolderConn
<1>8. issued[id].scope = s /\ issued[id].conn = c
  BY <1>1 DEF RowsAreIssued, HolderConn
<1>9. WritesAreAuthorised'
  <2> SUFFICES ASSUME NEW t \in Scope, NEW k \in DOMAIN lanes'[t]
               PROVE  /\ lanes'[t][k].lease \in DOMAIN issued
                      /\ issued[lanes'[t][k].lease].scope = t
                      /\ issued[lanes'[t][k].lease].conn = lanes'[t][k].conn
    BY <1>1 DEF WritesAreAuthorised
  <2>1. CASE t # s
    BY <1>4, <2>1 DEF WritesAreAuthorised
  <2>2. CASE t = s /\ k = n + 1
    BY <1>5, <1>8, <2>2
  <2>3. CASE t = s /\ k \in 1..n
    BY <1>5, <2>3 DEF WritesAreAuthorised
  <2> QED BY <1>3, <1>5, <2>1, <2>2, <2>3
<1>10. \A k \in 1..n : lanes[s][k].lease <= id
  BY <1>1, <1>5 DEF RowIsNewest
<1>11. acted[s] <= id
  BY <1>1 DEF RowIsNewest
<1>12. LanesAreOrdered'
  <2> SUFFICES ASSUME NEW t \in Scope
               PROVE  /\ \A k \in DOMAIN lanes'[t] : acted[t] <= lanes'[t][k].lease
                      /\ \A j, k \in DOMAIN lanes'[t] :
                           j <= k => lanes'[t][j].lease <= lanes'[t][k].lease
    BY <1>1 DEF LanesAreOrdered
  <2>1. CASE t # s
    BY <1>4, <2>1 DEF LanesAreOrdered
  <2>2. CASE t = s
    <3>1. ASSUME NEW k \in 1..(n + 1) PROVE acted[s] <= lanes'[s][k].lease
      <4>1. CASE k = n + 1
        BY <1>5, <1>11, <4>1
      <4>2. CASE k \in 1..n
        BY <1>5, <4>2 DEF LanesAreOrdered
      <4> QED BY <1>3, <4>1, <4>2
    <3>2. ASSUME NEW j \in 1..(n + 1), NEW k \in 1..(n + 1), j <= k
          PROVE  lanes'[s][j].lease <= lanes'[s][k].lease
      <4>1. CASE j = n + 1
        BY <1>2, <1>3, <1>5, <3>2, <4>1 DEF LeaseId
      <4>2. CASE j \in 1..n /\ k = n + 1
        BY <1>5, <1>10, <4>2
      <4>3. CASE j \in 1..n /\ k \in 1..n
        BY <1>5, <3>2, <4>3 DEF LanesAreOrdered
      <4> QED BY <1>3, <4>1, <4>2, <4>3
    <3> QED BY <1>5, <2>2, <3>1, <3>2
  <2> QED BY <2>1, <2>2
<1>13. RowIsNewest'
  <2> SUFFICES ASSUME NEW t \in Scope, Held(t)
               PROVE  /\ acted[t] <= lease[t].id
                      /\ \A k \in DOMAIN lanes'[t] : lanes'[t][k].lease <= lease[t].id
    BY <1>1 DEF RowIsNewest, Held
  <2>1. CASE t # s
    BY <1>4, <2>1 DEF RowIsNewest
  <2>2. CASE t = s
    BY <1>1, <1>2, <1>3, <1>5, <1>10, <1>11, <2>2 DEF LeaseId
  <2> QED BY <2>1, <2>2
<1> QED BY <1>6, <1>7, <1>9, <1>12, <1>13

\* The write that is executed is the oldest of its lane.
LEMMA ExecuteInv ==
  ASSUME Inv, NEW s \in Scope, ExecuteWrite(s)
  PROVE  Inv' /\ acted[s] <= acted'[s]
<1> USE DEF Inv
<1> DEFINE n == Len(lanes[s])
<1>1. /\ lanes[s] # <<>>
      /\ acted' = [acted EXCEPT ![s] = Head(lanes[s]).lease]
      /\ lanes' = [lanes EXCEPT ![s] = Tail(@)]
      /\ UNCHANGED <<lease, issued, conn, journal>>
  BY DEF ExecuteWrite
<1>2. lanes[s] \in Seq(Write) /\ n \in Nat \ {0}
  BY <1>1 DEF TypeOK
<1>3. Head(lanes[s]) = lanes[s][1] /\ lanes[s][1] \in Write
  BY <1>1, <1>2
<1>4. /\ \A t \in Scope : t # s => lanes'[t] = lanes[t] /\ acted'[t] = acted[t]
      /\ lanes'[s] = Tail(lanes[s]) /\ lanes'[s] \in Seq(Write)
      /\ acted'[s] = lanes[s][1].lease /\ acted'[s] \in LeaseId
  BY <1>1, <1>2, <1>3 DEF TypeOK, Write
<1>5. /\ DOMAIN lanes'[s] = 1..(n - 1) /\ DOMAIN lanes[s] = 1..n
      /\ \A k \in 1..(n - 1) : k + 1 \in 1..n /\ lanes'[s][k] = lanes[s][k + 1]
  <2>1. /\ DOMAIN Tail(lanes[s]) = 1..(Len(lanes[s]) - 1) /\ DOMAIN lanes[s] = 1..Len(lanes[s])
        /\ \A k \in 1..(Len(lanes[s]) - 1) :
             k + 1 \in 1..Len(lanes[s]) /\ Tail(lanes[s])[k] = lanes[s][k + 1]
    BY <1>1, <1>2, LeaveFacts, Zenon
  <2> QED BY <1>4, <2>1, Zenon
<1>6. TypeOK'
  <2>1. acted' \in [Scope -> 0..MaxLeases]
    BY <1>1, <1>3 DEF TypeOK, Write, LeaseId
  <2> QED BY <1>1, <1>4, <2>1 DEF TypeOK
<1>7. RowsAreIssued' /\ ReclaimableMeansGone'
  BY <1>1 DEF RowsAreIssued, ReclaimableMeansGone, Held, HolderConn
<1>8. WritesAreAuthorised'
  <2> SUFFICES ASSUME NEW t \in Scope, NEW k \in DOMAIN lanes'[t]
               PROVE  /\ lanes'[t][k].lease \in DOMAIN issued
                      /\ issued[lanes'[t][k].lease].scope = t
                      /\ issued[lanes'[t][k].lease].conn = lanes'[t][k].conn
    BY <1>1 DEF WritesAreAuthorised
  <2>1. CASE t # s
    BY <1>4, <2>1 DEF WritesAreAuthorised
  <2>2. CASE t = s
    <3>1. k \in 1..(n - 1)
      BY <1>5, <2>2
    <3>2. /\ k + 1 \in DOMAIN lanes[s]
          /\ lanes'[t][k] = lanes[s][k + 1]
      BY <1>5, <2>2, <3>1
    <3>3. /\ lanes[s][k + 1].lease \in DOMAIN issued
          /\ issued[lanes[s][k + 1].lease].scope = s
          /\ issued[lanes[s][k + 1].lease].conn = lanes[s][k + 1].conn
      BY <3>2 DEF WritesAreAuthorised
    <3> QED BY <2>2, <3>2, <3>3, Zenon
  <2> QED BY <2>1, <2>2
<1>9. 1 \in DOMAIN lanes[s]
  BY <1>2, <1>5
<1>10. acted[s] <= acted'[s]
  BY <1>4, <1>9 DEF LanesAreOrdered
<1>11. acted'[s] <= Len(issued)
  BY <1>4, <1>9 DEF WritesAreAuthorised, TypeOK
<1>12. \A k \in 1..n : acted'[s] <= lanes[s][k].lease
  BY <1>2, <1>4, <1>5, <1>9 DEF LanesAreOrdered
<1>13. LanesAreOrdered'
  <2> SUFFICES ASSUME NEW t \in Scope
               PROVE  /\ acted'[t] <= Len(issued)
                      /\ \A k \in DOMAIN lanes'[t] : acted'[t] <= lanes'[t][k].lease
                      /\ \A j, k \in DOMAIN lanes'[t] :
                           j <= k => lanes'[t][j].lease <= lanes'[t][k].lease
    BY <1>1 DEF LanesAreOrdered
  <2>1. CASE t # s
    BY <1>4, <2>1 DEF LanesAreOrdered
  <2>2. CASE t = s
    <3>1. \A k \in 1..(n - 1) : acted'[s] <= lanes'[s][k].lease
      BY <1>5, <1>12
    <3>2. ASSUME NEW j \in 1..(n - 1), NEW k \in 1..(n - 1), j <= k
          PROVE  lanes'[s][j].lease <= lanes'[s][k].lease
      <4>1. j + 1 <= k + 1
        BY <1>2, <3>2
      <4> QED BY <1>5, <4>1 DEF LanesAreOrdered
    <3> QED BY <1>5, <1>11, <2>2, <3>1, <3>2
  <2> QED BY <2>1, <2>2
<1>14. RowIsNewest'
  <2> SUFFICES ASSUME NEW t \in Scope, Held(t)
               PROVE  /\ acted'[t] <= lease[t].id
                      /\ \A k \in DOMAIN lanes'[t] : lanes'[t][k].lease <= lease[t].id
    BY <1>1 DEF RowIsNewest, Held
  <2>1. CASE t # s
    BY <1>4, <2>1 DEF RowIsNewest
  <2>2. CASE t = s
    <3>1. \A k \in DOMAIN lanes[s] : lanes[s][k].lease <= lease[s].id
      BY <2>2 DEF RowIsNewest
    <3>2. acted'[s] <= lease[s].id
      BY <1>4, <1>9, <3>1
    <3>3. ASSUME NEW k \in DOMAIN lanes'[s]
          PROVE  lanes'[s][k].lease <= lease[s].id
      <4>1. k + 1 \in DOMAIN lanes[s] /\ lanes'[s][k] = lanes[s][k + 1]
        BY <1>5
      <4> QED BY <3>1, <4>1
    <3> QED BY <2>2, <3>2, <3>3, Zenon
  <2> QED BY <2>1, <2>2
<1> QED BY <1>6, <1>7, <1>8, <1>10, <1>13, <1>14

\* One case per action.
LEMMA InvStep == Inv /\ [Next]_vars => Inv'
<1> SUFFICES ASSUME Inv, [Next]_vars PROVE Inv'
  OBVIOUS
<1>1. CASE \E c \in Connection, s \in Scope : Acquire(c, s) \/ Takeover(c, s)
  BY <1>1, GrantInv DEF Acquire, Takeover
<1>2. CASE \E c \in Connection, s \in Scope : Release(c, s)
  BY <1>2, ReleaseInv
<1>3. CASE \E c \in Connection : Open(c) \/ Disconnect(c)
  BY <1>3, ConnectionsInv, DisconnectInv
<1>4. CASE \E c \in Connection, id \in DOMAIN issued :
             Renew(c, id) \/ \E s \in Scope : SubmitWrite(c, s, id)
  BY <1>4, RenewInv, SubmitInv
<1>5. CASE \E s \in Scope : ExecuteWrite(s)
  BY <1>5, ExecuteInv
<1>6. CASE Crash
  BY <1>6, ConnectionsInv
<1>7. CASE Tick
  BY <1>7, TickInv
<1>8. CASE UNCHANGED vars
  BY <1>8 DEF vars, Inv, TypeOK, RowsAreIssued, WritesAreAuthorised, ReclaimableMeansGone,
              LanesAreOrdered, RowIsNewest, Held, HolderConn
<1> QED BY <1>1, <1>2, <1>3, <1>4, <1>5, <1>6, <1>7, <1>8 DEF Next

-----------------------------------------------------------------------------
(* The theorems.                                                           *)

\* No write is ever accepted from a connection other than the one its lease was
\* issued to, or for another scope, and a row becomes reclaimable only when
\* its connection is gone: in every behaviour of leases, writes, connections
\* and crashes.
THEOREM LeasesAreSafe == Spec => [](TypeOK /\ WritesAreAuthorised /\ ReclaimableMeansGone)
<1>1. Inv => TypeOK /\ WritesAreAuthorised /\ ReclaimableMeansGone
  BY DEF Inv
<1> QED BY <1>1, InvInit, InvStep, PTL DEF Spec

\* Writes take effect in the order of the leases they were made under, although
\* the lease is not looked at again when a queued write is executed.
THEOREM ControlIsOrdered == Spec => ControlMovesForward
<1>1. Inv /\ [Next]_vars => [\A s \in Scope : acted[s] <= acted'[s]]_vars
  <2> SUFFICES ASSUME Inv, Next, NEW s \in Scope PROVE acted[s] <= acted'[s]
    OBVIOUS
  <2>1. acted[s] \in Int
    BY DEF Inv, TypeOK
  <2>2. CASE \E t \in Scope : ExecuteWrite(t)
    <3>1. PICK t \in Scope : ExecuteWrite(t)
      BY <2>2
    <3>2. CASE t = s
      BY <3>1, <3>2, ExecuteInv
    <3>3. CASE t # s
      BY <2>1, <3>1, <3>3 DEF ExecuteWrite, Inv, TypeOK
    <3> QED BY <3>2, <3>3
  <2>3. CASE UNCHANGED acted
    BY <2>1, <2>3
  <2> QED BY <2>2, <2>3 DEF Next, Open, Disconnect, Acquire, Takeover, Grant, Release, Renew,
                            SubmitWrite, Crash, Tick
<1> QED BY <1>1, InvInit, InvStep, PTL DEF Spec, ControlMovesForward

\* An active lease changes hands only by an explicit takeover, or to the same
\* phone once the connection that held it is gone.
THEOREM NoSilentSeizure == Spec => SeizedOnlyByTakeover
<1> DEFINE Fair(s) == Held(s) /\ Active(s) /\ lease'[s].id \notin {0, lease[s].id} =>
                        \/ lease'[s].takeover
                        \/ Holder(s)' = Holder(s) /\ conn[HolderConn(s)] = "closed"
<1>1. Inv /\ [Next]_vars => [\A s \in Scope : Fair(s)]_vars
  <2> SUFFICES ASSUME Inv, Next, NEW s \in Scope,
                      Held(s), Active(s), lease'[s].id \notin {0, lease[s].id}
               PROVE  \/ lease'[s].takeover
                      \/ Holder(s)' = Holder(s) /\ conn[HolderConn(s)] = "closed"
    OBVIOUS
  <2>1. CASE \E c \in Connection, t \in Scope : Acquire(c, t) \/ Takeover(c, t)
    <3>1. PICK c \in Connection, t \in Scope : Acquire(c, t) \/ Takeover(c, t)
      BY <2>1
    <3>2. t = s
      BY <3>1 DEF Acquire, Takeover, Grant, Inv, TypeOK
    <3>3. CASE Takeover(c, s)
      BY <3>3 DEF Takeover, Grant, Inv, TypeOK
    <3>4. CASE Acquire(c, s)
      <4>1. Holder(s) = OwnerOf[c] /\ lease[s].reclaimIn # Never
        BY <3>4 DEF Acquire, reclaim
      <4>2. conn[HolderConn(s)] = "closed"
        BY <4>1 DEF Inv, ReclaimableMeansGone
      <4>3. lease'[s].id = Len(issued) + 1 /\ issued' = Append(issued, [scope |-> s, conn |-> c])
        BY <3>4 DEF Acquire, Grant, Inv, TypeOK
      <4>4. issued'[Len(issued) + 1].conn = c
        BY <4>3 DEF Inv, TypeOK
      <4>5. Holder(s)' = OwnerOf[c]
        BY <4>3, <4>4 DEF Holder, HolderConn
      <4> QED BY <4>1, <4>2, <4>5
    <3> QED BY <3>1, <3>2, <3>3, <3>4
  <2>2. CASE \A t \in Scope : lease'[t].id \in {0, lease[t].id}
    BY <2>2
  <2>3. CASE \E c \in Connection, t \in Scope : Release(c, t)
    BY <2>2, <2>3 DEF Release, Inv, TypeOK, NoLease
  <2>4. CASE \E c \in Connection, id \in DOMAIN issued : Renew(c, id)
    BY <2>2, <2>4 DEF Renew, Inv, TypeOK, Lease, NoLease
  <2>5. CASE \E c \in Connection : Disconnect(c)
    <3>1. PICK c \in Connection : Disconnect(c)
      BY <2>5
    <3>2. \A t \in Scope : \/ lease'[t] = lease[t]
                         \/ lease'[t] = [lease[t] EXCEPT !.reclaimIn = ReclaimWindow]
      BY <3>1 DEF Disconnect, Stamp
    <3>3. ASSUME NEW t \in Scope
          PROVE  lease'[t].id = lease[t].id
      <4>1. lease[t] \in Lease \/ lease[t] = NoLease
        BY DEF Inv, TypeOK
      <4>2. [lease[t] EXCEPT !.reclaimIn = ReclaimWindow].id = lease[t].id
        BY <4>1 DEF Lease, NoLease
      <4> QED BY <3>2, <4>2
    <3> QED BY <2>2, <3>3, Zenon
  <2>6. CASE Tick
    BY <2>2, <2>6, TickFacts DEF Inv
  <2>7. CASE UNCHANGED lease
    BY <2>2, <2>7
  <2> QED BY <2>1, <2>3, <2>4, <2>5, <2>6, <2>7 DEF Next, Open, SubmitWrite, ExecuteWrite, Crash
<1> QED BY <1>1, InvInit, InvStep, PTL DEF Spec, SeizedOnlyByTakeover

-----------------------------------------------------------------------------
(* ControllerBooks: the phones' books beside the leases.                   *)

\* The phones only read: beside their books the leases behave as specified, so
\* that every theorem above holds of the composed system, too.
THEOREM BooksImplementLeases == BooksSpec => Spec
<1>1. BooksInit => Init
  BY DEF BooksInit
<1>2. [BooksNext]_booksVars => [Next]_vars
  BY DEF BooksNext, Adopt, AdoptControllerEvent, booksVars
<1> QED BY <1>1, <1>2, PTL DEF BooksSpec, Spec

\* A phone has handled events that there are, and keeps a lease id.
BooksOK ==
  /\ seen \in [Installation -> [Scope -> Nat]]
  /\ book \in [Installation -> [Scope -> [mode : {"none", "primary", "observer"}, lease : 0 .. MaxLeases]]]
  /\ \A i \in Installation, s \in Scope : seen[i][s] <= Len(journal[s])

\* The lease an event announces, and none before the first.
Announced(s, k) == IF k = 0 THEN 0 ELSE journal[s][k].lease

\* The last event announces the row of the scope, and earlier ones older rows.
JournalTells ==
  \A s \in Scope :
    /\ \A k \in 1 .. Len(journal[s]) :
         /\ journal[s][k].mode # "controller" => journal[s][k].lease = 0
         /\ journal[s][k].lease <= Len(issued)
         /\ lease[s].id # 0 => journal[s][k].lease <= lease[s].id
    /\ Announced(s, Len(journal[s])) = lease[s].id

\* A book says what the last event it was given announced.
BookReads ==
  \A i \in Installation, s \in Scope : book[i][s].lease = Announced(s, seen[i][s])

BooksInv == Inv /\ BooksOK /\ JournalTells /\ BookReads

\* No phone has handled anything.
LEMMA BooksStart == BooksInit => BooksInv
<1> SUFFICES ASSUME BooksInit PROVE BooksInv
  OBVIOUS
<1> USE DEF BooksInit, Init
<1>1. Inv
  BY InvInit
<1>2. BooksOK
  <2>1. 0 \in 0 .. MaxLeases
    BY LeaseAssumption
  <2> QED BY <2>1 DEF BooksOK
<1>3. JournalTells /\ BookReads
  BY DEF JournalTells, BookReads, Announced, NoLease
<1> QED BY <1>1, <1>2, <1>3 DEF BooksInv

\* Held is to have a lease id.
LEMMA HeldHasId ==
  ASSUME TypeOK, NEW s \in Scope
  PROVE  (Held(s) <=> lease[s].id # 0) /\ lease[s].id \in Nat
BY LeaseAssumption DEF TypeOK, Held, Lease, LeaseId, NoLease

\* No row is replaced and nothing is announced.
LEMMA SilentKeeps ==
  ASSUME BooksInv, Inv', UNCHANGED <<issued, journal, seen, book>>,
         \A s \in Scope : lease'[s].id = lease[s].id
  PROVE  BooksInv'
<1>1. BooksOK'
  BY DEF BooksInv, BooksOK
<1>2. JournalTells' /\ BookReads'
  BY DEF BooksInv, JournalTells, BookReads, Announced
<1> QED BY <1>1, <1>2 DEF BooksInv

\* A row is replaced, and the new one, or that there is none, is announced.
LEMMA AnnouncingKeeps ==
  ASSUME BooksInv, Inv', UNCHANGED <<seen, book>>,
         NEW t \in Scope, NEW mode \in {"controller", "observer"}, NEW id \in 0 .. MaxLeases,
         Announce(t, mode, id), mode # "controller" => id = 0, Len(issued) <= Len(issued'),
         id = 0 \/ (id = Len(issued) + 1 /\ id = Len(issued')),
         \A s \in Scope : lease'[s].id = IF s = t THEN id ELSE lease[s].id
  PROVE  BooksInv'
<1> DEFINE e == [mode |-> mode, lease |-> id]
<1>1. /\ journal \in [Scope -> Seq(Notice)] /\ Len(issued) \in Nat /\ Len(issued') \in Nat
      /\ \A s \in Scope : lease[s].id \in Nat
  <2>1. issued \in Seq(Row) /\ issued' \in Seq(Row)
    BY DEF BooksInv, Inv, TypeOK, Row
  <2> QED BY <2>1, HeldHasId DEF BooksInv, Inv, TypeOK
<1>2. e \in Notice /\ e.mode = mode /\ e.lease = id /\ id \in Nat
  BY LeaseAssumption DEF Notice
<1>3. journal' = [journal EXCEPT ![t] = Append(journal[t], e)]
  BY DEF Announce
<1> HIDE DEF e
<1>4. /\ Len(journal[t]) \in Nat /\ Len(journal'[t]) = Len(journal[t]) + 1
      /\ \A k \in 1 .. Len(journal[t]) : journal'[t][k] = journal[t][k]
      /\ journal'[t][Len(journal[t]) + 1] = e
      /\ \A s \in Scope : s # t => journal'[s] = journal[s]
  <2>1. journal[t] \in Seq(Notice) /\ journal'[t] = Append(journal[t], e)
    BY <1>1, <1>3
  <2> QED BY <1>1, <1>2, <1>3, <2>1
<1>5. \A i \in Installation, s \in Scope : seen[i][s] \in Nat /\ seen[i][s] <= Len(journal[s])
  BY DEF BooksInv, BooksOK
<1>6. BooksOK'
  <2>1. ASSUME NEW i \in Installation, NEW s \in Scope PROVE seen[i][s] <= Len(journal'[s])
    <3>1. CASE s = t
      BY <1>4, <1>5, <3>1
    <3>2. CASE s # t
      BY <1>4, <1>5, <3>2
    <3> QED BY <3>1, <3>2
  <2> QED BY <2>1 DEF BooksInv, BooksOK
<1>7. BookReads'
  <2>1. ASSUME NEW i \in Installation, NEW s \in Scope
        PROVE  book[i][s].lease = IF seen[i][s] = 0 THEN 0 ELSE journal'[s][seen[i][s]].lease
    <3>1. book[i][s].lease = IF seen[i][s] = 0 THEN 0 ELSE journal[s][seen[i][s]].lease
      BY DEF BooksInv, BookReads, Announced
    <3>2. seen[i][s] # 0 => seen[i][s] \in 1 .. Len(journal[s]) /\ (s = t => seen[i][s] \in 1 .. Len(journal[t]))
      BY <1>4, <1>5
    <3>3. seen[i][s] # 0 => journal'[s][seen[i][s]] = journal[s][seen[i][s]]
      BY <1>4, <3>2
    <3> QED BY <3>1, <3>3
  <2> QED BY <2>1 DEF BookReads, Announced
<1>8. JournalTells'
  <2>1. ASSUME NEW s \in Scope
        PROVE  /\ \A k \in 1 .. Len(journal'[s]) :
                    /\ journal'[s][k].mode # "controller" => journal'[s][k].lease = 0
                    /\ journal'[s][k].lease <= Len(issued')
                    /\ lease'[s].id # 0 => journal'[s][k].lease <= lease'[s].id
               /\ (IF Len(journal'[s]) = 0 THEN 0 ELSE journal'[s][Len(journal'[s])].lease) = lease'[s].id
    <3>0. /\ \A k \in 1 .. Len(journal[s]) :
               /\ journal[s][k].mode # "controller" => journal[s][k].lease = 0
               /\ journal[s][k].lease <= Len(issued)
               /\ lease[s].id # 0 => journal[s][k].lease <= lease[s].id
               /\ journal[s][k].lease \in Nat
          /\ (IF Len(journal[s]) = 0 THEN 0 ELSE journal[s][Len(journal[s])].lease) = lease[s].id
      <4>1. ASSUME NEW k \in 1 .. Len(journal[s]) PROVE journal[s][k].lease \in Nat
        <5>1. journal[s] \in Seq(Notice)
          BY DEF BooksInv, Inv, TypeOK
        <5>2. journal[s][k] \in Notice
          BY <5>1
        <5>3. journal[s][k].lease \in 0 .. MaxLeases
          BY <5>2 DEF Notice
        <5> QED BY <5>3, LeaseAssumption
      <4> QED BY <4>1 DEF BooksInv, JournalTells, Announced
    <3>1. CASE s # t
      <4>1. journal'[s] = journal[s] /\ lease'[s].id = lease[s].id
        BY <1>4, <3>1
      <4>2. \A x \in Nat : x <= Len(issued) => x <= Len(issued')
        BY <1>1
      <4> QED BY <3>0, <4>1, <4>2
    <3>2. CASE s = t
      <4>1. lease'[s].id = id
        BY <3>2
      <4>2. ASSUME NEW k \in 1 .. Len(journal'[s])
            PROVE  /\ journal'[s][k].mode # "controller" => journal'[s][k].lease = 0
                   /\ journal'[s][k].lease <= Len(issued')
                   /\ lease'[s].id # 0 => journal'[s][k].lease <= lease'[s].id
        <5>1. CASE k = Len(journal[s]) + 1
          <6>1. journal'[s][k] = e
            BY <1>4, <3>2, <5>1
          <6>2. id <= Len(issued') /\ id <= id
            BY <1>1, <1>2
          <6> QED BY <1>2, <4>1, <6>1, <6>2
        <5>2. CASE k # Len(journal[s]) + 1
          <6>1. k \in 1 .. Len(journal[s]) /\ k \in 1 .. Len(journal[t])
            BY <1>4, <3>2, <5>2
          <6>2. journal'[s][k] = journal[s][k]
            BY <1>4, <3>2, <6>1
          <6>3. PICK x \in Nat : x = journal[s][k].lease /\ x <= Len(issued)
            BY <3>0, <6>1
          <6>4. x <= Len(issued') /\ (id # 0 => x <= id)
            BY <1>1, <1>2, <6>3
          <6> QED BY <3>0, <4>1, <6>1, <6>2, <6>3, <6>4
        <5> QED BY <5>1, <5>2
      <4>3. (IF Len(journal'[s]) = 0 THEN 0 ELSE journal'[s][Len(journal'[s])].lease) = lease'[s].id
        <5>1. Len(journal'[s]) # 0 /\ journal'[s][Len(journal'[s])] = e
          BY <1>4, <3>2
        <5> QED BY <1>2, <4>1, <5>1
      <4> QED BY <4>2, <4>3
    <3> QED BY <3>1, <3>2
  <2> QED BY <2>1 DEF JournalTells, Announced
<1> QED BY <1>6, <1>7, <1>8 DEF BooksInv

\* A phone handles the next event.
LEMMA AdoptKeeps ==
  ASSUME BooksInv, Inv', NEW i \in Installation, NEW s \in Scope, AdoptControllerEvent(i, s)
  PROVE  BooksInv'
<1> DEFINE n == seen[i][s] + 1
           b == IF journal[s][n].mode = "controller" THEN [mode |-> "primary", lease |-> journal[s][n].lease]
                ELSE [mode |-> "observer", lease |-> 0]
<1>1. /\ seen' = [seen EXCEPT ![i][s] = n] /\ book' = [book EXCEPT ![i][s] = b]
      /\ seen[i][s] < Len(journal[s]) /\ UNCHANGED vars
  BY DEF AdoptControllerEvent
<1>2. journal[s] \in Seq(Notice) /\ Len(journal[s]) \in Nat /\ seen[i][s] \in Nat
  BY DEF BooksInv, BooksOK, Inv, TypeOK
<1>3. n \in 1 .. Len(journal[s]) /\ n \in Nat /\ n # 0
  BY <1>1, <1>2
<1>4. journal[s][n] \in Notice
  BY <1>2, <1>3
<1>5. b \in [mode : {"none", "primary", "observer"}, lease : 0 .. MaxLeases] /\ b.lease = journal[s][n].lease
  <2>1. 0 \in 0 .. MaxLeases /\ journal[s][n].lease \in 0 .. MaxLeases
    BY <1>4, LeaseAssumption DEF Notice
  <2>2. journal[s][n].mode # "controller" => journal[s][n].lease = 0
    BY <1>3 DEF BooksInv, JournalTells
  <2> HIDE DEF n
  <2> QED BY <2>1, <2>2
<1>6. UNCHANGED <<lease, issued, journal>>
  BY <1>1 DEF vars
<1> HIDE DEF n, b
<1>7. JournalTells'
  BY <1>6 DEF BooksInv, JournalTells, Announced
<1>8. /\ seen \in [Installation -> [Scope -> Nat]]
      /\ book \in [Installation -> [Scope -> [mode : {"none", "primary", "observer"}, lease : 0 .. MaxLeases]]]
  BY DEF BooksInv, BooksOK
<1>9. ASSUME NEW j \in Installation, NEW t \in Scope
      PROVE  /\ seen'[j][t] = IF j = i /\ t = s THEN n ELSE seen[j][t]
             /\ book'[j][t] = IF j = i /\ t = s THEN b ELSE book[j][t]
  BY <1>1, <1>8
<1>10. BooksOK'
  <2>1. seen' \in [Installation -> [Scope -> Nat]]
    BY <1>1, <1>3, <1>8
  <2>2. book' \in [Installation -> [Scope -> [mode : {"none", "primary", "observer"}, lease : 0 .. MaxLeases]]]
    BY <1>1, <1>5, <1>8
  <2>3. n <= Len(journal[s])
    BY <1>3
  <2>4. \A j \in Installation, t \in Scope : seen'[j][t] <= Len(journal'[t])
    BY <1>6, <1>9, <2>3 DEF BooksInv, BooksOK
  <2> QED BY <2>1, <2>2, <2>4 DEF BooksOK
<1>11. BookReads'
  <2>1. ASSUME NEW j \in Installation, NEW t \in Scope
        PROVE  book'[j][t].lease = IF seen'[j][t] = 0 THEN 0 ELSE journal'[t][seen'[j][t]].lease
    <3>1. CASE j = i /\ t = s
      BY <1>3, <1>5, <1>6, <1>9, <3>1
    <3>2. CASE ~(j = i /\ t = s)
      <4>1. book[j][t].lease = IF seen[j][t] = 0 THEN 0 ELSE journal[t][seen[j][t]].lease
        BY DEF BooksInv, BookReads, Announced
      <4> QED BY <1>6, <1>9, <3>2, <4>1
    <3> QED BY <3>1, <3>2
  <2> QED BY <2>1 DEF BookReads, Announced
<1> QED BY <1>7, <1>10, <1>11 DEF BooksInv

\* One case per way to change leases and books.
LEMMA BooksStep == BooksInv /\ [BooksNext]_booksVars => BooksInv'
<1> SUFFICES ASSUME BooksInv, [BooksNext]_booksVars PROVE BooksInv'
  OBVIOUS
<1>0. Inv' /\ TypeOK
  <2>1. [Next]_vars
    BY DEF BooksNext, Adopt, AdoptControllerEvent, booksVars
  <2> QED BY <2>1, InvStep DEF BooksInv, Inv
<1>1. CASE Adopt
  BY <1>0, <1>1, AdoptKeeps DEF Adopt
<1>2. CASE UNCHANGED booksVars
  BY <1>0, <1>2, SilentKeeps DEF booksVars, vars
<1>3. ASSUME Next, UNCHANGED <<seen, book>> PROVE BooksInv'
  <2>1. ASSUME NEW c, NEW t \in Scope, NEW takeover, Grant(c, t, takeover) PROVE BooksInv'
    <3> DEFINE id == Len(issued) + 1
    <3>1. issued \in Seq(Row) /\ Len(issued) \in Nat /\ Len(issued) < MaxLeases /\ id \in 0 .. MaxLeases
      BY <1>0, <2>1, LeaseAssumption DEF TypeOK, Grant
    <3>2. Len(issued') = id /\ Len(issued) <= Len(issued')
      <4>1. issued' = Append(issued, [scope |-> t, conn |-> c])
        BY <2>1 DEF Grant
      <4>2. Len(issued') = id
        BY <3>1, <4>1
      <4> QED BY <3>1, <4>2
    <3>3. Announce(t, "controller", id)
      BY <2>1 DEF Grant
    <3>4. \A s \in Scope : lease'[s].id = IF s = t THEN id ELSE lease[s].id
      BY <1>0, <2>1 DEF Grant, TypeOK
    <3> HIDE DEF id
    <3>5. id = Len(issued) + 1
      BY DEF id
    <3> QED BY <1>0, <1>3, <3>1, <3>2, <3>3, <3>4, <3>5, AnnouncingKeeps
  <2>2. ASSUME NEW c \in Connection, NEW t \in Scope, Release(c, t) PROVE BooksInv'
    <3>1. 0 \in 0 .. MaxLeases /\ Len(issued) <= Len(issued')
      <4>1. issued' = issued /\ issued \in Seq(Row)
        BY <1>0, <2>2 DEF Release, TypeOK
      <4> QED BY <4>1, LeaseAssumption
    <3>2. \A s \in Scope : lease'[s].id = IF s = t THEN 0 ELSE lease[s].id
      BY <1>0, <2>2 DEF Release, TypeOK, NoLease
    <3>3. Announce(t, "observer", 0)
      BY <2>2 DEF Release
    <3> QED BY <1>0, <1>3, <3>1, <3>2, <3>3, AnnouncingKeeps
  <2>3. CASE \E c \in Connection, s \in Scope : Acquire(c, s) \/ Takeover(c, s) \/ Release(c, s)
    BY <2>1, <2>2, <2>3 DEF Acquire, Takeover
  <2>4. ASSUME NEW t \in Scope, NEW f
        PROVE  /\ [lease[t] EXCEPT !.reclaimIn = f].id = lease[t].id
               /\ [lease[t] EXCEPT !.expiresIn = f].id = lease[t].id
    BY <1>0 DEF TypeOK, Lease, NoLease
  <2>5. CASE \E c \in Connection, id \in DOMAIN issued : Renew(c, id)
    <3>1. PICK c \in Connection, id \in DOMAIN issued : Renew(c, id)
      BY <2>5
    <3>2. UNCHANGED <<issued, journal>> /\ lease' = [lease EXCEPT ![issued[id].scope].expiresIn = LeaseTTL]
      BY <3>1 DEF Renew
    <3>3. \A s \in Scope : lease'[s].id = lease[s].id
      BY <1>0, <2>4, <3>2 DEF TypeOK
    <3> QED BY <1>0, <1>3, <3>2, <3>3, SilentKeeps
  <2>6. CASE \E c \in Connection : Disconnect(c)
    <3>1. PICK c \in Connection : Disconnect(c)
      BY <2>6
    <3>2. ASSUME NEW s \in Scope PROVE lease'[s].id = lease[s].id
      <4>1. lease'[s] = lease[s] \/ lease'[s] = [lease[s] EXCEPT !.reclaimIn = ReclaimWindow]
        BY <3>1 DEF Disconnect, Stamp
      <4>2. [lease[s] EXCEPT !.reclaimIn = ReclaimWindow].id = lease[s].id
        BY <2>4
      <4> QED BY <4>1, <4>2
    <3>3. UNCHANGED <<issued, journal>>
      BY <3>1 DEF Disconnect
    <3> QED BY <1>0, <1>3, <3>2, <3>3, SilentKeeps
  <2>7. CASE Tick
    <3>1. \A s \in Scope : lease'[s].id = lease[s].id
      BY <1>0, <2>7, TickFacts DEF BooksInv, Inv
    <3> QED BY <1>0, <1>3, <2>7, <3>1, SilentKeeps DEF Tick
  <2>8. CASE UNCHANGED <<lease, issued, journal>>
    BY <1>0, <1>3, <2>8, SilentKeeps
  <2> QED BY <1>3, <2>3, <2>5, <2>6, <2>7, <2>8 DEF Next, Open, SubmitWrite, ExecuteWrite, Crash
<1> QED BY <1>1, <1>2, <1>3 DEF BooksNext

\* A phone that has handled every controller.state event of a session names the
\* lease the store holds (applyLeaseMutationTx journals it in the transaction of
\* the mutation, adoptControllerEvent takes it over), and a phone that is behind an
\* older one, for any phones, connections, takeovers, releases and crashes.
THEOREM BooksAreTrue == BooksSpec => []BookNamesLease
<1>1. BooksInv => BookNamesLease
  <2> SUFFICES ASSUME BooksInv, NEW i \in Installation, NEW s \in Scope
               PROVE  /\ seen[i][s] = Len(journal[s]) => book[i][s].lease = lease[s].id
                      /\ Held(s) => book[i][s].lease <= lease[s].id
    BY DEF BookNamesLease
  <2>1. book[i][s].lease = Announced(s, seen[i][s]) /\ Announced(s, Len(journal[s])) = lease[s].id
    BY DEF BooksInv, BookReads, JournalTells
  <2>2. (Held(s) <=> lease[s].id # 0) /\ lease[s].id \in Nat
    BY HeldHasId DEF BooksInv, Inv
  <2>3. seen[i][s] \in Nat /\ seen[i][s] <= Len(journal[s]) /\ Len(journal[s]) \in Nat
    BY DEF BooksInv, BooksOK, Inv, TypeOK
  <2>4. ASSUME Held(s) PROVE book[i][s].lease <= lease[s].id
    <3>1. CASE seen[i][s] = 0
      BY <2>1, <2>2, <3>1 DEF Announced
    <3>2. CASE seen[i][s] # 0
      <4>1. seen[i][s] \in 1 .. Len(journal[s])
        BY <2>3, <3>2
      <4> QED BY <2>1, <2>2, <2>4, <3>2, <4>1 DEF Announced, BooksInv, JournalTells
    <3> QED BY <3>1, <3>2
  <2> QED BY <2>1, <2>4
<1> QED BY <1>1, BooksStart, BooksStep, PTL DEF BooksSpec
=============================================================================
