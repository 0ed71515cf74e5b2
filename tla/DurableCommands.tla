-------------------------- MODULE DurableCommands --------------------------
(***************************************************************************)
(* The durable command path of the bridge: DurableBridgeRuntime.command,   *)
(* DurableCommandService and CommandLanes (core/domain.ts) over the        *)
(* `commands` table of BridgeStore (core/store.ts).                        *)
(*                                                                         *)
(* A command is inserted as "accepted" before anything is dispatched; a    *)
(* per-scope promise chain (a lane) then moves it through "dispatched" and *)
(* "running" to an outcome.  Every transition is one SQLite transaction.   *)
(* The process can be killed between any two transactions, a transaction   *)
(* can fail, clients repeat and reuse command ids, and the adapter answers *)
(* late, with an error, or not at all before a crash.                      *)
(*                                                                         *)
(* JavaScript runs one turn at a time, so between the claim of a command   *)
(* and the call of the adapter nothing but a crash intervenes (see Busy).  *)
(***************************************************************************)
EXTENDS Naturals, Sequences

CONSTANTS
  CommandId,    \* command ids that clients choose
  Body,         \* what the semantic hash covers: a command type and payload
  NoBody,       \* the body of an id that was never accepted
  Scope,        \* scope keys: the host stream and the session streams
  ScopeOf,      \* the scope a body addresses
  LocalBody,    \* controller.acquire/takeover/release: never sent to the adapter
  MaxCrashes,   \* bound on process crashes
  MaxFaults     \* bound on failing transactions (busy, full, io, readonly)

ASSUME BodyAssumption ==
  /\ ScopeOf \in [Body -> Scope]
  /\ LocalBody \subseteq Body
  /\ NoBody \notin Body

ASSUME BoundAssumption == MaxCrashes \in Nat /\ MaxFaults \in Nat

VARIABLES
  \* durable: the commands table and the command.state events of the journal
  state,          \* the state column; "absent" when there is no row
  body,           \* type and payload columns (and so the semantic hash)
  dispatchCount,  \* the dispatch_count column
  order,          \* rows in created_at order
  history,        \* the command.state events journalled for each command
  \* volatile: one bridge process
  phase,          \* the life of the process
  cursor,         \* next row the start-up recovery looks at
  lanes,          \* CommandLanes: the commands queued in each scope
  pc,             \* how far the task at the head of each lane has come
  writable,       \* BridgeStore.writable
  \* observers and the environment
  executed,       \* how often the adapter was called with each command
  effects,        \* the commands in the order the adapter was called
  outcome,        \* what the adapter answered
  replies,        \* what clients were told
  crashes, faults

durable  == <<state, body, dispatchCount, order, history>>
volatile == <<phase, cursor, lanes, pc, writable>>
observed == <<executed, effects, outcome, replies>>
vars     == <<durable, volatile, observed, crashes, faults>>

Terminal == {"completed", "failed", "indeterminate"}
RowState == {"accepted", "dispatched", "running"} \cup Terminal
Answer   == {"ok", "error", "unknown"}

Reply == [id: CommandId, body: Body, kind: {"accepted", "duplicate", "conflict"}]

-----------------------------------------------------------------------------
(* The store.                                                              *)

\* transitionCommand: guarded update of the row and its command.state event,
\* in one transaction; outside `from` it returns null and changes nothing.
transitionCommand(id, from, to) ==
  IF state[id] \in from
  THEN /\ state' = [state EXCEPT ![id] = to]
       /\ history' = [history EXCEPT ![id] = Append(@, to)]
       /\ dispatchCount' =
            [dispatchCount EXCEPT ![id] = IF to = "dispatched" THEN @ + 1 ELSE @]
  ELSE UNCHANGED <<state, history, dispatchCount>>

\* A transaction commits, or throws: always once the store stopped being
\* writable, and otherwise when SQLite reports an error (busy leaves the store
\* writable, every other error does not).
Commits == writable /\ UNCHANGED <<writable, faults>>
Throws ==
  \/ ~writable /\ UNCHANGED <<writable, faults>>
  \/ writable /\ faults < MaxFaults /\ faults' = faults + 1 /\ writable' \in BOOLEAN

-----------------------------------------------------------------------------
(* Lanes.                                                                  *)

Current(s) == Head(lanes[s])

\* The turn that claimed a command runs on, without yielding, until it calls
\* the adapter; only a crash can separate its transactions.
Busy == \E s \in Scope : pc[s] \in {"claimed", "started"}

\* The task settles; the next one in the lane may start.
TaskEnds(s) ==
  /\ lanes' = [lanes EXCEPT ![s] = Tail(@)]
  /\ pc' = [pc EXCEPT ![s] = "idle"]

PcIs(s, at) == pc' = [pc EXCEPT ![s] = at] /\ UNCHANGED lanes

\* The process is gone with everything it kept in memory.
ProcessEnds ==
  /\ phase' = "down"
  /\ cursor' = 1
  /\ lanes' = [s \in Scope |-> <<>>]
  /\ pc' = [s \in Scope |-> "idle"]

\* A task whose promise rejects leaves its row as it is.  During start-up the
\* rejection travels through recover() and start() and ends the process.
TaskRejects(s) ==
  IF phase = "ready"
  THEN TaskEnds(s) /\ UNCHANGED <<phase, cursor>>
  ELSE ProcessEnds

\* The catch block of dispatchAccepted: record `to`, or reject when that
\* transaction throws as well.
TaskFails(s, to) ==
  \/ /\ Commits
     /\ transitionCommand(Current(s), {"dispatched", "running"}, to)
     /\ TaskEnds(s) /\ UNCHANGED <<phase, cursor>>
  \/ /\ Throws
     /\ TaskRejects(s)
     /\ UNCHANGED <<state, history, dispatchCount>>

-----------------------------------------------------------------------------
(* Submission.                                                             *)

Replied(id, b, kind) ==
  replies' = replies \cup {[id |-> id, body |-> b, kind |-> kind]}

\* runtime.command for a new id: acceptCommand inserts the row, and the command
\* joins its lane in the same turn.  A refusal (not ready, draining, stale
\* lease, unknown session, failed validation) changes nothing.
Submit(id, b) ==
  /\ phase = "ready" /\ ~Busy
  /\ state[id] = "absent"
  /\ writable
  /\ state' = [state EXCEPT ![id] = "accepted"]
  /\ body' = [body EXCEPT ![id] = b]
  /\ dispatchCount' = [dispatchCount EXCEPT ![id] = 0]
  /\ history' = [history EXCEPT ![id] = <<"accepted">>]
  /\ order' = Append(order, id)
  /\ lanes' = [lanes EXCEPT ![ScopeOf[b]] = Append(@, id)]
  /\ Replied(id, b, "accepted")
  /\ UNCHANGED <<phase, cursor, pc, writable, executed, effects, outcome, crashes, faults>>

\* Mutant: the semantic hash of a known id is not compared.
ResubmitUnchecked(id, b) ==
  /\ phase = "ready" /\ ~Busy
  /\ state[id] # "absent"
  /\ writable
  /\ Replied(id, b, "duplicate")
  /\ UNCHANGED <<durable, volatile, executed, effects, outcome, crashes, faults>>

\* The id is known: the stored hash decides between a duplicate receipt and an
\* idempotency conflict.
Resubmit(id, b) ==
  /\ phase = "ready" /\ ~Busy
  /\ state[id] # "absent"
  /\ writable
  /\ Replied(id, b, IF body[id] = b THEN "duplicate" ELSE "conflict")
  /\ UNCHANGED <<durable, volatile, executed, effects, outcome, crashes, faults>>

-----------------------------------------------------------------------------
(* The task of the command at the head of a lane (dispatchAccepted).       *)

Running == phase \in {"recovering", "ready"}

\* accepted -> dispatched.  A null claim ends the task without dispatching.
Claim(s) ==
  /\ Running /\ ~Busy
  /\ lanes[s] # <<>> /\ pc[s] = "idle"
  /\ \/ /\ Commits
        /\ transitionCommand(Current(s), {"accepted"}, "dispatched")
        /\ IF state[Current(s)] = "accepted" THEN PcIs(s, "claimed") ELSE TaskEnds(s)
        /\ UNCHANGED <<phase, cursor>>
     \/ /\ Throws
        /\ TaskRejects(s)
        /\ UNCHANGED <<state, history, dispatchCount>>
  /\ UNCHANGED <<body, order, observed, crashes>>

\* dispatched -> running.  If it throws, the catch block runs.
MarkRunning(s) ==
  /\ pc[s] = "claimed"
  /\ \/ /\ Commits
        /\ transitionCommand(Current(s), {"dispatched"}, "running")
        /\ PcIs(s, "started")
        /\ UNCHANGED <<phase, cursor>>
     \/ Throws /\ TaskRejects(s) /\ UNCHANGED <<state, history, dispatchCount>>
     \/ /\ Throws /\ writable'
        /\ transitionCommand(Current(s), {"dispatched", "running"}, "failed")
        /\ TaskEnds(s) /\ UNCHANGED <<phase, cursor>>
  /\ UNCHANGED <<body, order, observed, crashes>>

\* adapter.dispatch is called: from here on the outside world may change.
CallAdapter(s) ==
  /\ pc[s] = "started"
  /\ body[Current(s)] \notin LocalBody
  /\ executed' = [executed EXCEPT ![Current(s)] = @ + 1]
  /\ effects' = Append(effects, Current(s))
  /\ PcIs(s, "awaiting")
  /\ UNCHANGED <<durable, phase, cursor, writable, outcome, replies, crashes, faults>>

\* Mutant: a dispatch with an unknown outcome is tried once more.
AdapterRetries(s, answer) ==
  /\ pc[s] = "awaiting" /\ ~Busy
  /\ outcome' = [outcome EXCEPT ![Current(s)] = answer]
  /\ PcIs(s, IF answer = "unknown" THEN "started" ELSE answer)
  /\ UNCHANGED <<durable, phase, cursor, writable, executed, effects, replies, crashes, faults>>

\* The adapter's promise settles: resolved, rejected, or rejected with
\* IndeterminateDispatchError.
AdapterSettles(s, answer) ==
  /\ pc[s] = "awaiting" /\ ~Busy
  /\ outcome' = [outcome EXCEPT ![Current(s)] = answer]
  /\ PcIs(s, answer)
  /\ UNCHANGED <<durable, phase, cursor, writable, executed, effects, replies, crashes, faults>>

\* Mutant: a dispatch that ended with an unknown outcome is completed.
CompleteUnknown(s) ==
  /\ pc[s] \in {"ok", "unknown"} /\ ~Busy
  /\ Commits
  /\ transitionCommand(Current(s), {"running"}, "completed")
  /\ TaskEnds(s)
  /\ UNCHANGED <<phase, cursor, body, order, observed, crashes>>

\* running -> completed, for a resolved dispatch and for a bridge-local command
\* (which skips the adapter).  A throwing transaction lands in the catch block,
\* which records "failed" or rejects in turn.
Complete(s) ==
  /\ \/ pc[s] = "ok" /\ ~Busy
     \/ pc[s] = "started" /\ body[Current(s)] \in LocalBody
  /\ \/ /\ Commits
        /\ transitionCommand(Current(s), {"running"}, "completed")
        /\ TaskEnds(s) /\ UNCHANGED <<phase, cursor>>
     \/ Throws /\ TaskRejects(s) /\ UNCHANGED <<state, history, dispatchCount>>
     \/ /\ Throws /\ writable'
        /\ transitionCommand(Current(s), {"dispatched", "running"}, "failed")
        /\ TaskEnds(s) /\ UNCHANGED <<phase, cursor>>
  /\ UNCHANGED <<body, order, observed, crashes>>

\* Mutant: a rejected dispatch never leaves its lane.
FailBlocksLane(s) ==
  /\ pc[s] \in {"error", "unknown"} /\ ~Busy
  /\ Commits
  /\ transitionCommand(Current(s), {"dispatched", "running"},
                       IF pc[s] = "unknown" THEN "indeterminate" ELSE "failed")
  /\ UNCHANGED <<phase, cursor, lanes, pc, body, order, observed, crashes>>

\* A rejected dispatch: indeterminate or failed.
Fail(s) ==
  /\ pc[s] \in {"error", "unknown"} /\ ~Busy
  /\ TaskFails(s, IF pc[s] = "unknown" THEN "indeterminate" ELSE "failed")
  /\ UNCHANGED <<body, order, observed, crashes>>

-----------------------------------------------------------------------------
(* Crash and recovery.                                                     *)

Crash ==
  /\ phase # "down"
  /\ crashes < MaxCrashes
  /\ crashes' = crashes + 1
  /\ ProcessEnds
  /\ UNCHANGED <<durable, writable, observed, faults>>

\* launchd starts the daemon again; a new store handle starts writable.
Restart ==
  /\ phase = "down"
  /\ phase' = "marking"
  /\ writable' = TRUE
  /\ UNCHANGED <<durable, cursor, lanes, pc, observed, crashes, faults>>

\* Mutants: settled rows are marked too; a row that was claimed but not yet
\* running is overlooked.
MarkRows(from, to) ==
  /\ phase = "marking"
  /\ IF cursor > Len(order)
     THEN phase' = "resuming" /\ cursor' = 1 /\ UNCHANGED <<state, history, dispatchCount>>
     ELSE transitionCommand(order[cursor], from, to) /\ cursor' = cursor + 1 /\ UNCHANGED phase
  /\ UNCHANGED <<body, order, lanes, pc, writable, observed, crashes, faults>>
MarkSettled == MarkRows(RowState \ {"accepted"}, "indeterminate")
MarkOnlyRunning == MarkRows({"running"}, "indeterminate")

\* markUncertainIndeterminate: one transaction per uncertain row.
MarkUncertain ==
  /\ phase = "marking"
  /\ IF cursor > Len(order)
     THEN /\ phase' = "resuming" /\ cursor' = 1
          /\ UNCHANGED <<state, history, dispatchCount, lanes, pc, writable, faults>>
     ELSE \/ /\ Commits
             /\ transitionCommand(order[cursor], {"dispatched", "running"}, "indeterminate")
             /\ cursor' = cursor + 1
             /\ UNCHANGED <<phase, lanes, pc>>
          \/ /\ Throws
             /\ ProcessEnds
             /\ UNCHANGED <<state, history, dispatchCount>>
  /\ UNCHANGED <<body, order, observed, crashes>>

\* recover(): every row still accepted joins its lane, in created_at order;
\* no task starts before the whole list is queued.
Resume ==
  /\ phase = "resuming"
  /\ IF cursor > Len(order)
     THEN phase' = "recovering" /\ cursor' = 1 /\ UNCHANGED lanes
     ELSE /\ cursor' = cursor + 1
          /\ lanes' = IF state[order[cursor]] = "accepted"
                      THEN [lanes EXCEPT ![ScopeOf[body[order[cursor]]]] = Append(@, order[cursor])]
                      ELSE lanes
          /\ UNCHANGED phase
  /\ UNCHANGED <<durable, pc, writable, observed, crashes, faults>>

\* start() reports ready once every resumed task has settled.
BecomeReady ==
  /\ phase = "recovering"
  /\ \A s \in Scope : lanes[s] = <<>>
  /\ phase' = "ready"
  /\ UNCHANGED <<durable, cursor, lanes, pc, writable, observed, crashes, faults>>

-----------------------------------------------------------------------------
Init ==
  /\ state = [id \in CommandId |-> "absent"]
  /\ body = [id \in CommandId |-> NoBody]
  /\ dispatchCount = [id \in CommandId |-> 0]
  /\ order = <<>>
  /\ history = [id \in CommandId |-> <<>>]
  /\ phase = "down"
  /\ cursor = 1
  /\ lanes = [s \in Scope |-> <<>>]
  /\ pc = [s \in Scope |-> "idle"]
  /\ writable = TRUE
  /\ executed = [id \in CommandId |-> 0]
  /\ effects = <<>>
  /\ outcome = [id \in CommandId |-> "none"]
  /\ replies = {}
  /\ crashes = 0
  /\ faults = 0

Task(s) ==
  \/ Claim(s)
  \/ MarkRunning(s)
  \/ CallAdapter(s)
  \/ Complete(s)
  \/ Fail(s)
  \/ \E answer \in Answer : AdapterSettles(s, answer)

Startup == Restart \/ MarkUncertain \/ Resume \/ BecomeReady

Next ==
  \/ \E id \in CommandId, b \in Body : Submit(id, b) \/ Resubmit(id, b)
  \/ \E s \in Scope : Task(s)
  \/ Startup
  \/ Crash

Spec == Init /\ [][Next]_vars

\* Promise continuations are always run; the adapter bounds every call with a
\* timeout, so it answers; launchd keeps the daemon alive.
Fairness ==
  /\ WF_vars(Startup)
  /\ \A s \in Scope : WF_vars(Task(s))

FairSpec == Spec /\ Fairness

-----------------------------------------------------------------------------
(* Properties.                                                             *)

Pc == {"idle", "claimed", "started", "awaiting"} \cup Answer

\* Every variable has the shape of the column, map or flag it stands for.
TypeOK ==
  /\ state \in [CommandId -> RowState \cup {"absent"}]
  /\ body \in [CommandId -> Body \cup {NoBody}]
  /\ dispatchCount \in [CommandId -> Nat]
  /\ order \in Seq(CommandId)
  /\ history \in [CommandId -> Seq(RowState)]
  /\ phase \in {"down", "marking", "resuming", "recovering", "ready"}
  /\ cursor \in Nat \ {0}
  /\ lanes \in [Scope -> Seq(CommandId)]
  /\ pc \in [Scope -> Pc]
  /\ writable \in BOOLEAN
  /\ executed \in [CommandId -> Nat]
  /\ effects \in Seq(CommandId)
  /\ outcome \in [CommandId -> Answer \cup {"none"}]
  /\ replies \subseteq Reply
  /\ crashes \in 0..MaxCrashes
  /\ faults \in 0..MaxFaults

\* The adapter is called at most once with a command, however often the client
\* repeats it, the process dies or the store fails; and never unless the row
\* durably says so (dispatch_count was raised first).
AtMostOnceDispatch ==
  \A id \in CommandId : executed[id] <= dispatchCount[id] /\ dispatchCount[id] <= 1

\* A reported outcome is never revised: no step, not even recovery after a
\* crash, moves a row out of completed, failed or indeterminate.
TerminalIsFinal ==
  [][\A id \in CommandId : state[id] \in Terminal => state'[id] = state[id]]_vars

\* "completed" is only ever reported for a command the adapter really carried
\* out, or for a bridge-local one.
CompletedMeansDone ==
  \A id \in CommandId :
    state[id] = "completed" => outcome[id] = "ok" \/ body[id] \in LocalBody

\* The places a command has in the lanes.
Queued(id) ==
  {q \in UNION {{s} \X DOMAIN lanes[s] : s \in Scope} : lanes[q[1]][q[2]] = id}

\* While no transaction fails, a ready bridge has forgotten nothing: a row
\* without an outcome has exactly one task, in the lane of its scope, and only
\* the task at the head of a lane has claimed its row.
NothingForgotten ==
  phase = "ready" /\ faults = 0 =>
    \A id \in CommandId :
      /\ state[id] \in RowState \ Terminal =>
           \E k \in DOMAIN lanes[ScopeOf[body[id]]] : Queued(id) = {<<ScopeOf[body[id]], k>>}
      /\ state[id] \in {"dispatched", "running"} => Current(ScopeOf[body[id]]) = id

\* What clients were told about an id agrees with the row, for ever: accepted
\* and duplicate receipts name the body that is stored, conflicts another one.
RepliesAgree ==
  \A r \in replies : state[r.id] # "absent" /\ ((r.kind = "conflict") <=> (body[r.id] # r.body))

\* Every accepted command is eventually given an outcome, through crashes and
\* restarts, as long as transactions commit and the adapter answers.
EveryCommandSettles ==
  \A id \in CommandId : state[id] # "absent" ~> state[id] \in Terminal \/ faults > 0
=============================================================================
