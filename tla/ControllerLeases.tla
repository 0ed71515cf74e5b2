-------------------------- MODULE ControllerLeases --------------------------
(***************************************************************************)
(* Controller leases: which connection may write to a scope.  The          *)
(* `controller_leases` table and its mutations (core/store.ts),            *)
(* ControllerLeaseService (core/domain.ts), the lease checks of            *)
(* DurableBridgeRuntime (core/runtime.ts).  ControllerBooks adds what the  *)
(* phones make of the controller.state events.                             *)
(*                                                                         *)
(* Times are kept relative to the clock: `expiresIn` is expiresAt - now,   *)
(* cut off at 0, and `reclaimIn` is reclaimableUntil - now, or Never when  *)
(* that is NULL or in the past.  Tick lets one unit pass.                  *)
(***************************************************************************)
EXTENDS Integers, Sequences

CONSTANTS
  Scope,          \* scope keys
  Installation,   \* paired phones
  Connection,     \* WebSocket connections, over time
  OwnerOf,        \* the installation that opens a connection
  LeaseTTL,       \* how long a lease lasts unless renewed (45 s)
  ReclaimWindow,  \* how long its installation may reclaim it (60 s)
  MaxLeases,      \* bound on leases issued
  MaxQueued       \* bound on accepted writes waiting in a lane

ASSUME LeaseAssumption ==
  /\ OwnerOf \in [Connection -> Installation]
  /\ LeaseTTL \in Nat \ {0} /\ ReclaimWindow \in Nat
  /\ MaxLeases \in Nat /\ MaxQueued \in Nat

VARIABLES
  lease,      \* durable: the unrevoked row of each scope
  issued,     \* durable: every row, by lease id: its scope and connection
  lanes,      \* durable: accepted writes that wait in each scope's lane
  conn,       \* the life of each connection, as the bridge sees it
  journal,    \* durable: the controller.state events of each scope
  acted       \* the lease of the last write executed in each scope

vars == <<lease, issued, lanes, conn, journal, acted>>

Never  == -1
LeaseId == 1..MaxLeases
NoLease == [id |-> 0, expiresIn |-> 0, reclaimIn |-> Never, takeover |-> FALSE]
Lease   == [id: LeaseId, expiresIn: 0..LeaseTTL, reclaimIn: Never..ReclaimWindow, takeover: BOOLEAN]
Row     == [scope: Scope, conn: Connection]
Write   == [lease: LeaseId, conn: Connection]
Notice  == [mode: {"controller", "observer"}, lease: 0..MaxLeases]

Held(s)   == lease[s] # NoLease
Active(s) == lease[s].expiresIn > 0
HolderConn(s) == issued[lease[s].id].conn
Holder(s)     == OwnerOf[HolderConn(s)]

-----------------------------------------------------------------------------
(* The bridge.                                                             *)

\* A command reaches the runtime over an open connection.
Asks(c) == conn[c] = "open"

\* controller.state is journalled in the transaction of the mutation.
Announce(s, mode, id) ==
  journal' = [journal EXCEPT ![s] = Append(@, [mode |-> mode, lease |-> id])]

\* The tail of applyLeaseMutationTx: the current row is revoked, and a row
\* with a fresh id takes its place.
Grant(c, s, takeover) ==
  LET id == Len(issued) + 1 IN
  /\ Len(issued) < MaxLeases
  /\ issued' = Append(issued, [scope |-> s, conn |-> c])
  /\ lease' = [lease EXCEPT ![s] =
       [id |-> id, expiresIn |-> LeaseTTL, reclaimIn |-> Never, takeover |-> takeover]]
  /\ Announce(s, "controller", id)
  /\ UNCHANGED <<lanes, conn, acted>>

\* The row may be reclaimed by the installation that held it.
reclaim(c, s) == Held(s) /\ Holder(s) = OwnerOf[c] /\ lease[s].reclaimIn # Never

\* Mutant: any installation may reclaim.
AcquireReclaimable(c, s) ==
  /\ Asks(c)
  /\ ~Active(s) \/ lease[s].reclaimIn # Never
  /\ Grant(c, s, FALSE)

\* controller.acquire: refused while another holder's lease is active.
Acquire(c, s) ==
  /\ Asks(c)
  /\ ~Active(s) \/ reclaim(c, s)
  /\ Grant(c, s, FALSE)

\* controller.takeover: never refused.
Takeover(c, s) == Asks(c) /\ Grant(c, s, TRUE)

\* controller.release: by the installation and connection that hold the row,
\* expired or not.
Release(c, s) ==
  /\ Asks(c)
  /\ Held(s) /\ HolderConn(s) = c
  /\ lease' = [lease EXCEPT ![s] = NoLease]
  /\ Announce(s, "observer", 0)
  /\ UNCHANGED <<issued, lanes, conn, acted>>

\* Mutant: the lease id is enough to renew.
RenewById(c, id) ==
  LET s == issued[id].scope IN
  /\ Asks(c)
  /\ lease[s].id = id
  /\ Active(s)
  /\ lease' = [lease EXCEPT ![s].expiresIn = LeaseTTL]
  /\ UNCHANGED <<issued, lanes, conn, journal, acted>>

\* controller.renew, with whatever lease id the phone has: every id that was
\* issued is announced to every phone.
Renew(c, id) ==
  LET s == issued[id].scope IN
  /\ Asks(c)
  /\ lease[s].id = id /\ HolderConn(s) = c
  /\ Active(s)
  /\ lease' = [lease EXCEPT ![s].expiresIn = LeaseTTL]
  /\ UNCHANGED <<issued, lanes, conn, journal, acted>>

\* Mutants of the check: any connection that knows the lease id; any lease
\* of the connection.
assertLeaseOnly(c, s, id) == Held(s) /\ lease[s].id = id /\ Active(s)
assertConnectionOnly(c, s, id) == issued[id].scope = s /\ issued[id].conn = c

\* assertController: the id and the connection must match an active row.
assertController(c, s, id) ==
  Held(s) /\ lease[s].id = id /\ HolderConn(s) = c /\ Active(s)

\* A command that requires a lease is accepted and joins its lane.
SubmitWrite(c, s, id) ==
  /\ Asks(c)
  /\ assertController(c, s, id)
  /\ Len(lanes[s]) < MaxQueued
  /\ lanes' = [lanes EXCEPT ![s] = Append(@, [lease |-> id, conn |-> c])]
  /\ UNCHANGED <<lease, issued, conn, journal, acted>>

\* The lane runs its next command.  The lease is not looked at again.
ExecuteWrite(s) ==
  /\ lanes[s] # <<>>
  /\ acted' = [acted EXCEPT ![s] = Head(lanes[s]).lease]
  /\ lanes' = [lanes EXCEPT ![s] = Tail(@)]
  /\ UNCHANGED <<lease, issued, conn, journal>>

\* One unit of time passes.
Tick ==
  /\ lease' = [s \in Scope |->
       [lease[s] EXCEPT !.expiresIn = IF @ > 0 THEN @ - 1 ELSE 0,
                        !.reclaimIn = IF @ > Never THEN @ - 1 ELSE Never]]
  /\ UNCHANGED <<issued, lanes, conn, journal, acted>>

-----------------------------------------------------------------------------
(* Connections.                                                            *)

Open(c) ==
  /\ conn[c] = "new"
  /\ conn' = [conn EXCEPT ![c] = "open"]
  /\ UNCHANGED <<lease, issued, lanes, journal, acted>>

Stamp(held) ==
  lease' = [s \in Scope |->
    IF held[s] THEN [lease[s] EXCEPT !.reclaimIn = ReclaimWindow] ELSE lease[s]]

\* The bridge sees the connection close: disconnectConnection makes the leases
\* held over it reclaimable.  A failing store is ignored, and stamps nothing.
Disconnect(c) ==
  /\ conn[c] = "open"
  /\ conn' = [conn EXCEPT ![c] = "closed"]
  /\ \/ Stamp([s \in Scope |-> Held(s) /\ HolderConn(s) = c])
     \/ UNCHANGED lease
  /\ UNCHANGED <<issued, lanes, journal, acted>>

\* The bridge dies: every connection closes and nothing is stamped.  Accepted
\* writes are queued again, in order, by the recovery.
Crash ==
  /\ \E c \in Connection : conn[c] = "open"
  /\ conn' = [c \in Connection |-> IF conn[c] = "open" THEN "closed" ELSE conn[c]]
  /\ UNCHANGED <<lease, issued, lanes, journal, acted>>

-----------------------------------------------------------------------------
Init ==
  /\ lease = [s \in Scope |-> NoLease]
  /\ issued = <<>>
  /\ lanes = [s \in Scope |-> <<>>]
  /\ conn = [c \in Connection |-> "new"]
  /\ journal = [s \in Scope |-> <<>>]
  /\ acted = [s \in Scope |-> 0]

Next ==
  \/ \E c \in Connection : Open(c) \/ Disconnect(c)
  \/ \E c \in Connection, s \in Scope : Acquire(c, s) \/ Takeover(c, s) \/ Release(c, s)
  \/ \E c \in Connection, id \in DOMAIN issued :
       Renew(c, id) \/ \E s \in Scope : SubmitWrite(c, s, id)
  \/ \E s \in Scope : ExecuteWrite(s)
  \/ Crash
  \/ Tick

Spec == Init /\ [][Next]_vars

-----------------------------------------------------------------------------
(* Properties.                                                             *)

\* Every variable has the shape of the table, map or socket it stands for.
TypeOK ==
  /\ lease \in [Scope -> Lease \cup {NoLease}]
  /\ issued \in Seq(Row) /\ Len(issued) <= MaxLeases
  /\ lanes \in [Scope -> Seq(Write)]
  /\ conn \in [Connection -> {"new", "open", "closed"}]
  /\ journal \in [Scope -> Seq(Notice)]
  /\ acted \in [Scope -> 0..MaxLeases]

\* Every accepted write was sent over the very connection its lease was issued
\* to, for the lease's own scope: a phone that learnt another phone's lease id
\* from the broadcast, or its own earlier connection's, writes nothing.
WritesAreAuthorised ==
  \A s \in Scope : \A k \in DOMAIN lanes[s] :
    LET w == lanes[s][k] IN
    /\ w.lease \in DOMAIN issued
    /\ issued[w.lease].scope = s /\ issued[w.lease].conn = w.conn

\* Control moves forward: once a write of a newer lease was executed, no write
\* of an older one is, although accepted writes outlive their lease.
ControlMovesForward == [][\A s \in Scope : acted[s] <= acted'[s]]_vars

\* A lease can only be reclaimed when its connection is gone: the late close
\* of an earlier connection never makes a live controller's lease reclaimable.
ReclaimableMeansGone ==
  \A s \in Scope : lease[s].reclaimIn # Never => conn[HolderConn(s)] = "closed"

\* An active lease is replaced only by an explicit takeover, or by its own
\* installation once the connection that held it is gone: no other phone's
\* acquire, and no second connection of the same phone, displaces a controller.
SeizedOnlyByTakeover ==
  [][\A s \in Scope :
       Held(s) /\ Active(s) /\ lease'[s].id \notin {0, lease[s].id} =>
         \/ lease'[s].takeover
         \/ Holder(s)' = Holder(s) /\ conn[HolderConn(s)] = "closed"]_vars

\* Nobody is locked out for ever: the lease of a connection that is gone runs
\* out, or has been replaced, whatever lease ids the other phones present.
DeadControllerExpires ==
  \A s \in Scope :
    Held(s) /\ conn[HolderConn(s)] = "closed" ~> ~Active(s) \/ conn[HolderConn(s)] = "open"
=============================================================================
