--------------------------- MODULE PrefixReplica ---------------------------
(***************************************************************************)
(* What canonical session synchronization promises: the host appends       *)
(* events to a log, and a replica takes them over one at a time, in order, *)
(* without inventing, skipping or repeating any, and keeps what it has.    *)
(***************************************************************************)
EXTENDS Naturals, Sequences

CONSTANT Event

VARIABLES log, replica

replicaVars == <<log, replica>>

Init == log = <<>> /\ replica = <<>>

Commit(e) == log' = Append(log, e) /\ UNCHANGED replica

Take ==
  /\ Len(replica) < Len(log)
  /\ replica' = Append(replica, log[Len(replica) + 1])
  /\ UNCHANGED log

Next == Take \/ \E e \in Event : Commit(e)

Spec == Init /\ [][Next]_replicaVars /\ WF_replicaVars(Take)

SafeSpec == Init /\ [][Next]_replicaVars
=============================================================================
