-------------------------- MODULE SessionDirectory --------------------------
(***************************************************************************)
(* The sessions of one host: how they are created, stopped, activated,     *)
(* renamed, branched, exported, soft-deleted, restored and purged, which   *)
(* of them hold one of the host's process slots, which Pi process is       *)
(* really running, and what the phone is told.  Code:                      *)
(* packages/bridge/src/pi/one-session-adapter.ts (the handlers, routing    *)
(* and binding), core/store.ts (the session rows), core/                   *)
(* process-supervisor.ts (the slots) and daemon.ts (start-up).             *)
(*                                                                         *)
(* The adapter's own supervisor manages stub processes: a slot only counts.*)
(* The process that runs Pi belongs to the session's RPC client and is     *)
(* started by the first request that needs it.  The daemon gives the       *)
(* adapter no processSpec, so only session.create ever fills a slot.       *)
(* Queue counts and the fields of a row that no guard reads are left out.  *)
(***************************************************************************)
EXTENDS Naturals, Sequences, FiniteSets

CONSTANTS
  Session,     \* session ids
  NoSession,   \* no session
  Capacity,    \* process slots of the host
  MaxCommands, \* bound: session commands submitted
  MaxRestarts  \* bound: deaths and restarts of the bridge

ASSUME DirectoryAssumption ==
  /\ IsFiniteSet(Session)
  /\ NoSession \notin Session
  /\ Capacity \in Nat \ {0}
  /\ MaxCommands \in Nat /\ MaxRestarts \in Nat

VARIABLES
  life,      \* lifecycleState of each session row, "none" when there is no row
  run,       \* its runtimeState, "none" when the row has none
  expired,   \* soft-deleted sessions whose purgeAfter has passed
  phone,     \* what the host stream last said of each session
  queue,     \* sessions whose session.create is accepted, not yet executed
  creating,  \* the session.create the host lane is executing
  published, \* that creation has written its summary and refreshes it
  op,        \* the command in the lane of each session
  slot,      \* the supervisor's entry of each session
  lru,       \* sessions that were given a slot, oldest first
  bound,     \* sessions whose notifications the adapter listens to
  lastUsed,  \* lastUsedSessionId
  slotsDraining, \* the supervisor is draining
  proc,      \* the Pi process of each session
  submitted, restarts

durable == <<life, run, expired, phone>>
lanes   == <<queue, creating, published, op>>
slots   == <<slot, lru, slotsDraining>>
adapter == <<bound, lastUsed>>
bounds  == <<submitted, restarts>>
directoryVars    == <<durable, lanes, slots, adapter, proc, bounds>>

Kind  == {"stop", "activate", "rename", "branch", "export", "delete",
          "abort_and_delete", "restore", "purge", "prompt", "control", "thinking", "model"}
\* Requests whose handler writes back the row it read before it waited.
KeepsPrior == {"activate", "rename", "branch"}
Free  == [kind |-> "free"]

\* runtimeState values that a guard reads as "idle or stopped".
Settled == {"none", "idle", "stopped"}

InitDirectory ==
  /\ life = [s \in Session |-> "none"]
  /\ run = [s \in Session |-> "none"]
  /\ expired = {}
  /\ phone = [s \in Session |-> "none"]
  /\ queue = {}
  /\ creating = NoSession /\ published = FALSE
  /\ op = [s \in Session |-> Free]
  /\ slot = [s \in Session |-> "absent"]
  /\ lru = <<>>
  /\ bound = {}
  /\ lastUsed = NoSession
  /\ slotsDraining = FALSE
  /\ proc = [s \in Session |-> "stopped"]
  /\ submitted = 0 /\ restarts = 0

-----------------------------------------------------------------------------
(* Slots and admission. *)

Occupied    == {s \in Session : slot[s] = "idle"}
activeCount == Cardinality(Occupied)
admission   == ~slotsDraining /\ activeCount < Capacity

Rows == {s \in Session : life[s] # "none"}

\* The occupied slot that was filled longest ago.
Victim(v) ==
  \E j \in DOMAIN lru :
     /\ lru[j] = v /\ v \in Occupied
     /\ \A i \in DOMAIN lru : i < j => lru[i] \notin Occupied

\* supervisor.start makes room by stopping the least recently used idle slot.
evict(s, v) == IF Cardinality(Occupied \ {s}) >= Capacity THEN v # NoSession /\ Victim(v) ELSE v = NoSession

emptySlot(s) == slot' = [slot EXCEPT ![s] = IF @ = "idle" THEN "stopped" ELSE @]

-----------------------------------------------------------------------------
(* What the host stream says of the sessions. *)

\* A complete summary of the session, merged from its row.
appendSessionSummary(s) == phone' = [phone EXCEPT ![s] = "listed"]

\* Patches the row as it is now and publishes it.
changeSessionSummary(s) == phone' = [phone EXCEPT ![s] = "listed"] /\ UNCHANGED <<life, run>>

\* A new row and its summary, in one transaction.
addSessionSummary(s) ==
  /\ life' = [life EXCEPT ![s] = "active"]
  /\ run' = [run EXCEPT ![s] = "idle"]
  /\ phone' = [phone EXCEPT ![s] = "listed"]

\* The supervisor's changes of slot are written to the rows and published.
publishSummaryChange(change) ==
  /\ run' = [s \in Session |-> IF s \in DOMAIN change THEN change[s] ELSE run[s]]
  /\ phone' = [s \in Session |-> IF s \in DOMAIN change THEN "listed" ELSE phone[s]]

-----------------------------------------------------------------------------
(* session.create, in the host lane. *)

SubmitCreate(s) ==
  /\ life[s] = "none" /\ s \notin queue /\ creating # s
  /\ admission /\ submitted < MaxCommands
  /\ queue' = queue \cup {s}
  /\ submitted' = submitted + 1
  /\ UNCHANGED <<durable, creating, published, op, slots, adapter, proc, restarts>>

\* ensureSession writes a provisional row.
WriteRow(s) ==
  /\ creating = NoSession /\ s \in queue
  /\ queue' = queue \ {s}
  /\ creating' = s
  /\ life' = [life EXCEPT ![s] = "active"]
  /\ run' = [run EXCEPT ![s] = "starting"]
  /\ UNCHANGED <<expired, phone, published, op, slots, adapter, proc, bounds>>

Provisional(s) == creating = s /\ slot[s] # "idle" /\ run[s] = "starting"

\* The supervisor refuses: discardSession.
RefuseCreate(s) ==
  /\ Provisional(s) /\ slotsDraining
  /\ creating' = NoSession
  /\ slot' = [slot EXCEPT ![s] = "stopped"]
  /\ life' = [life EXCEPT ![s] = "none"]
  /\ run' = [run EXCEPT ![s] = "none"]
  /\ UNCHANGED <<expired, phone, queue, published, op, lru, slotsDraining, adapter, proc, bounds>>

\* The slot is filled, evicting another, and both changes are published;
\* then the session's Pi process is awaited.
FillSlot(s, v) ==
  /\ Provisional(s) /\ ~slotsDraining
  /\ evict(s, v)
  /\ slot' = [t \in Session |-> IF t = s THEN "idle" ELSE IF t = v THEN "stopped" ELSE slot[t]]
  /\ lru' = Append(lru, s)
  /\ publishSummaryChange([t \in {s, v} \ {NoSession} |-> IF t = s THEN "idle" ELSE "stopped"])
  /\ UNCHANGED <<life, expired, lanes, slotsDraining, adapter, proc, bounds>>

\* The row is replaced by the summary of a new session, whatever it holds now.
FinishCreate(s) ==
  /\ creating = s /\ ~published /\ ~Provisional(s)
  /\ published' = TRUE
  /\ life' = [life EXCEPT ![s] = "active"]
  /\ proc' = [proc EXCEPT ![s] = IF @ = "stopped" THEN "idle" ELSE @]
  /\ bound' = bound \cup {s}
  /\ lastUsed' = s
  /\ run' = [run EXCEPT ![s] = "idle"]
  /\ appendSessionSummary(s)
  /\ UNCHANGED <<expired, queue, creating, op, slots, bounds>>

\* Pi does not start: the command fails, the row and its slot stay.
CreateFails(s) ==
  /\ creating = s /\ ~published /\ ~Provisional(s) /\ proc[s] = "stopped"
  /\ creating' = NoSession
  /\ run' = [run EXCEPT ![s] = "crashed"]
  /\ UNCHANGED <<life, expired, phone, queue, published, op, slots, adapter, proc, bounds>>

-----------------------------------------------------------------------------
(* The lane of a session. *)

LaneIsFree(s) == op[s] = Free

\* A client names only sessions the host stream told it of.
Submit(s, k) ==
  /\ life[s] # "none" /\ phone[s] # "none" /\ LaneIsFree(s)
  /\ admission /\ submitted < MaxCommands
  /\ op' = [op EXCEPT ![s] = [kind |-> k, at |-> "accepted"]]
  /\ submitted' = submitted + 1
  /\ UNCHANGED <<durable, queue, creating, published, slots, adapter, proc, restarts>>

Starts(s, k)   == op[s] # Free /\ op[s].kind = k /\ op[s].at = "accepted"
Resumes(s, k)  == op[s] # Free /\ op[s].kind = k /\ op[s].at = "awaiting"
Done(s)        == op' = [op EXCEPT ![s] = Free]

\* Mutant: the row that is written back says active, whatever it said.
PriorActive(s) == [life |-> "active", run |-> run[s]]

\* The handler keeps the row it read across its await.
Await(s, k, prior) ==
  op' = [op EXCEPT ![s] = [kind |-> k, at |-> "awaiting", prior |-> prior]]
PriorOf(s) == [life |-> life[s], run |-> run[s]]

\* What each handler requires of the session before it does anything.
Accepts(s, k) ==
  CASE k = "stop"     -> run[s] \in Settled /\ slot[s] # "absent"
    [] k \in {"rename", "branch"} ->
         life[s] # "soft_deleted" /\ run[s] \in Settled /\ s \in bound
    [] k = "export"   -> life[s] \notin {"soft_deleted", "purged"} /\ s \in bound
    [] k = "delete"   -> life[s] = "soft_deleted" \/ (slot[s] # "absent" /\ run[s] # "running")
    [] k = "abort_and_delete" ->
         life[s] = "soft_deleted" \/ (slot[s] # "absent" /\ (run[s] = "running" => s \in bound))
    [] k = "thinking" -> run[s] \in {"idle", "stopped"}
    [] k = "model"    -> proc[s] # "running"
    [] k = "restore"  -> life[s] = "soft_deleted" /\ s \notin expired
    [] OTHER          -> TRUE

Refuse(s, k) ==
  /\ Starts(s, k) /\ ~Accepts(s, k)
  /\ Done(s)
  /\ UNCHANGED <<durable, queue, creating, published, slots, adapter, proc, bounds>>

\* session.stop: the slot is emptied and the session unbound; Pi runs on.
Stop(s) ==
  /\ Starts(s, "stop") /\ Accepts(s, "stop")
  /\ emptySlot(s)
  /\ bound' = bound \ {s}
  /\ run' = [run EXCEPT ![s] = "stopped"]
  /\ appendSessionSummary(s)
  /\ Done(s)
  /\ UNCHANGED <<life, expired, queue, creating, published, lru, slotsDraining, lastUsed, proc, bounds>>

\* Handlers that ask Pi and wait for it.
AskPi(s, k) ==
  /\ k \in KeepsPrior \cup {"export", "prompt", "control", "thinking", "model"}
  /\ Starts(s, k) /\ Accepts(s, k)
  /\ Await(s, k, IF k \in KeepsPrior THEN PriorOf(s) ELSE NoSession)
  /\ bound' = IF k \in {"activate", "prompt"} THEN bound \cup {s} ELSE bound
  /\ lastUsed' = IF k = "prompt" THEN s ELSE lastUsed
  /\ UNCHANGED <<durable, queue, creating, published, slots, proc, bounds>>

\* session.restore revives the row, then goes on as session.activate.
Restore(s) ==
  /\ Starts(s, "restore") /\ Accepts(s, "restore")
  /\ life' = [life EXCEPT ![s] = "active"]
  /\ appendSessionSummary(s)
  /\ bound' = bound \cup {s}
  /\ Await(s, "activate", [life |-> "active", run |-> run[s]])
  /\ UNCHANGED <<run, expired, queue, creating, published, slots, lastUsed, proc, bounds>>

\* ensureRpcStarted, awaited by every request to a process that is not there.
ClientStarts(s) ==
  /\ op[s] # Free /\ op[s].at = "awaiting" /\ proc[s] = "stopped"
  /\ proc' = [proc EXCEPT ![s] = "idle"]
  /\ run' = [run EXCEPT ![s] = "idle"]
  /\ UNCHANGED <<life, expired, phone, lanes, slots, adapter, bounds>>

\* The process does not start, the request fails, is cancelled or times out.
AwaitFails(s) ==
  /\ op[s] # Free /\ op[s].at = "awaiting"
  /\ Done(s)
  /\ run' = [run EXCEPT ![s] = IF proc[s] = "stopped" THEN "crashed" ELSE @]
  /\ UNCHANGED <<life, expired, phone, queue, creating, published, slots, adapter, proc, bounds>>

Answers(s, k) == Resumes(s, k) /\ proc[s] \in {"idle", "running"}

\* Both write back the whole row they read before the await.
FinishActivate(s) ==
  /\ Answers(s, "activate") /\ proc[s] = "idle"
  /\ lastUsed' = s
  /\ life' = [life EXCEPT ![s] = op[s].prior.life]
  /\ run' = [run EXCEPT ![s] = "idle"]
  /\ appendSessionSummary(s)
  /\ op' = [op EXCEPT ![s] = [kind |-> "activate", at |-> "refreshing"]]
  /\ UNCHANGED <<expired, queue, creating, published, slots, bound, proc, bounds>>

\* refreshSessionCapabilities, awaited by activate and create: requests to Pi
\* that may all fail, then fields of the row as it is by then.
RefreshActivated(s) ==
  /\ op[s] # Free /\ op[s].at = "refreshing"
  /\ Done(s)
  /\ UNCHANGED <<durable, queue, creating, published, slots, adapter, proc, bounds>>

RefreshCreated(s) ==
  /\ creating = s /\ published
  /\ creating' = NoSession /\ published' = FALSE
  /\ UNCHANGED <<durable, queue, op, slots, adapter, proc, bounds>>

\* handleSessionControl and handleModelSet patch the row as it is now and
\* tell the session's own stream.
FinishControl(s, k) ==
  /\ k \in {"control", "thinking", "model"}
  /\ Answers(s, k)
  /\ Done(s)
  /\ UNCHANGED <<durable, queue, creating, published, slots, adapter, proc, bounds>>

FinishRename(s) ==
  /\ Answers(s, "rename")
  /\ life' = [life EXCEPT ![s] = op[s].prior.life]
  /\ run' = [run EXCEPT ![s] = op[s].prior.run]
  /\ appendSessionSummary(s)
  /\ Done(s)
  /\ UNCHANGED <<expired, queue, creating, published, slots, adapter, proc, bounds>>

\* session.fork and session.clone add a child row, which has no slot.
FinishBranch(s, c) ==
  /\ Answers(s, "branch")
  /\ life[c] = "none" /\ c \notin queue /\ slot[c] = "absent"
  /\ addSessionSummary(c)
  /\ lastUsed' = c
  /\ Done(s)
  /\ UNCHANGED <<expired, queue, creating, published, slots, bound, proc, bounds>>

\* The export is recorded in the row as it is now.
FinishExport(s) ==
  /\ Answers(s, "export")
  /\ changeSessionSummary(s)
  /\ Done(s)
  /\ UNCHANGED <<expired, queue, creating, published, slots, adapter, proc, bounds>>

\* markDispatchStart moves the client to running, which the row repeats.
FinishPrompt(s) ==
  /\ Answers(s, "prompt") /\ s \in bound
  /\ proc' = [proc EXCEPT ![s] = "running"]
  /\ run' = [run EXCEPT ![s] = "running"]
  /\ Done(s)
  /\ UNCHANGED <<life, expired, phone, queue, creating, published, slots, adapter, bounds>>

\* softDeleteSession, which refuses a purged row after the slot is gone.
softDelete(s) ==
  /\ emptySlot(s)
  /\ bound' = bound \ {s}
  /\ Done(s)
  /\ IF life[s] = "purged"
       THEN UNCHANGED <<life, run, expired, phone>>
       ELSE /\ life' = [life EXCEPT ![s] = "soft_deleted"]
            /\ run' = [run EXCEPT ![s] = "stopped"]
            /\ expired' = expired \ {s}
            /\ phone' = [phone EXCEPT ![s] = "removed"]
  /\ UNCHANGED <<queue, creating, published, lru, slotsDraining, lastUsed, proc, bounds>>

Delete(s, k) ==
  /\ k \in {"delete", "abort_and_delete"}
  /\ Starts(s, k) /\ Accepts(s, k) /\ life[s] # "soft_deleted" /\ run[s] # "running"
  /\ softDelete(s)

DeleteAgain(s, k) ==
  /\ k \in {"delete", "abort_and_delete"}
  /\ Starts(s, k) /\ life[s] = "soft_deleted"
  /\ Done(s)
  /\ UNCHANGED <<durable, queue, creating, published, slots, adapter, proc, bounds>>

\* An active turn is aborted first.
AbortTurn(s) ==
  /\ Starts(s, "abort_and_delete") /\ Accepts(s, "abort_and_delete")
  /\ life[s] # "soft_deleted" /\ run[s] = "running"
  /\ Await(s, "abort_and_delete", PriorOf(s))
  /\ UNCHANGED <<durable, queue, creating, published, slots, adapter, proc, bounds>>

FinishDelete(s) == Answers(s, "abort_and_delete") /\ softDelete(s)

purgeSessionTombstone(s) ==
  /\ life' = [life EXCEPT ![s] = "purged"]
  /\ run' = [run EXCEPT ![s] = IF life[s] = "purged" THEN @ ELSE "none"]
  /\ phone' = [phone EXCEPT ![s] = IF life[s] = "purged" THEN @ ELSE "gone"]

markSessionDeleteFailed(s) ==
  /\ life' = [life EXCEPT ![s] = "delete_failed"]
  /\ phone' = [phone EXCEPT ![s] = "listed"]
  /\ UNCHANGED run

\* A session the supervisor has never heard of cannot be purged.
Purge(s) ==
  /\ Starts(s, "purge")
  /\ bound' = bound \ {s}
  /\ IF slot[s] = "absent"
       THEN markSessionDeleteFailed(s) /\ UNCHANGED slot
       ELSE purgeSessionTombstone(s) /\ emptySlot(s)
  /\ Done(s)
  /\ UNCHANGED <<expired, queue, creating, published, lru, slotsDraining, lastUsed, proc, bounds>>

PurgeWindowElapses(s) ==
  /\ life[s] = "soft_deleted" /\ s \notin expired
  /\ expired' = expired \cup {s}
  /\ UNCHANGED <<life, run, phone, lanes, slots, adapter, proc, bounds>>

-----------------------------------------------------------------------------
(* Pi, and the notifications of its processes. *)

\* The queue starts a turn outside the session's lane.
FollowUpStarts(s) ==
  /\ proc[s] = "idle" /\ s \in bound
  /\ lastUsed' = s
  /\ proc' = [proc EXCEPT ![s] = "running"]
  /\ run' = [run EXCEPT ![s] = "running"]
  /\ UNCHANGED <<life, expired, phone, lanes, slots, bound, bounds>>

\* The session a notification is applied to: the one it names, else the
\* last one used, else any session the adapter listens to.
resolveNotificationSessionId(s, tagged) ==
  IF tagged THEN {s} ELSE IF lastUsed # NoSession THEN {lastUsed} ELSE bound

Settles(s, tagged, t) ==
  /\ proc[s] = "running"
  /\ s \in bound => t \in resolveNotificationSessionId(s, tagged)
  /\ s \notin bound => t = s /\ tagged
  /\ proc' = [proc EXCEPT ![s] = "idle"]
  /\ run' = [u \in Session |-> IF u = s \/ (s \in bound /\ u = t) THEN "idle" ELSE run[u]]
  /\ UNCHANGED <<life, expired, phone, lanes, slots, adapter, bounds>>

Exits(s) ==
  /\ proc[s] \in {"idle", "running"}
  /\ proc' = [proc EXCEPT ![s] = "retry_wait"]
  /\ run' = [run EXCEPT ![s] = "retry_wait"]
  /\ UNCHANGED <<life, expired, phone, lanes, slots, adapter, bounds>>

RetryStarts(s) ==
  /\ proc[s] = "retry_wait"
  /\ proc' = [proc EXCEPT ![s] = "idle"]
  /\ run' = [run EXCEPT ![s] = "idle"]
  /\ UNCHANGED <<life, expired, phone, lanes, slots, adapter, bounds>>

-----------------------------------------------------------------------------
(* Shutdown and start-up. *)

DrainSlots ==
  /\ ~slotsDraining
  /\ slotsDraining' = TRUE
  /\ slot' = [s \in Session |-> IF slot[s] = "idle" THEN "stopped" ELSE slot[s]]
  /\ publishSummaryChange([s \in Occupied |-> "stopped"])
  /\ UNCHANGED <<life, expired, lanes, lru, adapter, proc, bounds>>

\* Mutant: start-up publishes nothing.
publishNothing == UNCHANGED phone

\* A complete summary of every session that is not deleted.
bootstrapSummaries ==
  phone' = [s \in Session |->
              IF life[s] \in {"active", "delete_failed"} THEN "listed" ELSE phone[s]]

\* Commands that were running are indeterminate and never resumed; accepted
\* ones are dispatched again.  Every row is registered and bound.
Restart ==
  /\ restarts < MaxRestarts
  /\ restarts' = restarts + 1
  /\ creating' = NoSession /\ published' = FALSE
  /\ op' = [s \in Session |-> IF op[s] # Free /\ op[s].at # "accepted" THEN Free ELSE op[s]]
  /\ run' = [s \in Session |->
               IF s = creating \/ run[s] \in {"running", "retry_wait"}
                  \/ (op[s] # Free /\ op[s].at # "accepted")
                 THEN "indeterminate" ELSE run[s]]
  /\ slot' = [s \in Session |-> IF s \in Rows THEN "stopped" ELSE "absent"]
  /\ lru' = <<>>
  /\ bound' = Rows
  /\ lastUsed' = NoSession
  /\ slotsDraining' = FALSE
  /\ proc' = [s \in Session |-> "stopped"]
  /\ bootstrapSummaries
  /\ UNCHANGED <<life, expired, queue, submitted>>

-----------------------------------------------------------------------------
SessionNext(s) ==
  \/ SubmitCreate(s) \/ WriteRow(s) \/ RefuseCreate(s) \/ FinishCreate(s) \/ CreateFails(s)
  \/ \E v \in Session \cup {NoSession} : FillSlot(s, v)
  \/ \E k \in Kind : Submit(s, k) \/ Refuse(s, k) \/ AskPi(s, k) \/ Delete(s, k) \/ DeleteAgain(s, k)
                     \/ FinishControl(s, k)
  \/ Stop(s) \/ Restore(s) \/ AbortTurn(s) \/ Purge(s)
  \/ ClientStarts(s) \/ AwaitFails(s)
  \/ RefreshActivated(s) \/ RefreshCreated(s)
  \/ FinishActivate(s) \/ FinishRename(s) \/ FinishExport(s) \/ FinishPrompt(s) \/ FinishDelete(s)
  \/ \E c \in Session : FinishBranch(s, c)
  \/ PurgeWindowElapses(s)
  \/ FollowUpStarts(s) \/ Exits(s) \/ RetryStarts(s)
  \/ \E tagged \in BOOLEAN, t \in Session : Settles(s, tagged, t)

NextDirectory == (\E s \in Session : SessionNext(s)) \/ DrainSlots \/ Restart

DirectorySpec == InitDirectory /\ [][NextDirectory]_directoryVars

-----------------------------------------------------------------------------
(* Properties. *)

\* A handler that writes back the row it read before an await revives no
\* session that was purged meanwhile, and no purged row disappears.
NoStaleRevival ==
  [][\A s \in Session : life[s] = "purged" /\ (creating = s => published) => life'[s] = "purged"]_directoryVars

\* Every session that is not deleted has been announced to the phone, and
\* the phone is told of no session without a row, wherever a creation was
\* refused, failed or cut short by the death of the bridge.
PhoneKnowsDirectory ==
  \A s \in Session :
     /\ life[s] \in {"active", "delete_failed"} => phone[s] = "listed" \/ Provisional(s)
     /\ phone[s] # "none" => life[s] # "none"

=============================================================================
