----------------------------- MODULE TurnQueue -----------------------------
(***************************************************************************)
(* The turns of one session: prompts dispatched by the command lane, the   *)
(* durable follow-up queue that is drained when Pi settles, the extension  *)
(* dialogs Pi opens while it works, and what happens to all of them when   *)
(* Pi exits, a request times out or the bridge is killed.  Code:           *)
(* packages/bridge/src/pi/one-session-adapter.ts (prompt, queue, dialogs,  *)
(* notifications), core/store.ts (the two tables), core/runtime.ts         *)
(* (admission), pi/supervised-rpc-client.ts and daemon.ts (exit, restart). *)
(*                                                                         *)
(* Pi is external.  A request written to its stdin is read later, if at    *)
(* all; it may be answered after the bridge has given up on it; and it may *)
(* be refused because Pi is busy with another turn.                        *)
(***************************************************************************)
EXTENDS Naturals, Sequences, FiniteSets

CONSTANTS
  Prompt,      \* ids of the prompt.submit commands; a command id is its turn id
  FollowUp,    \* those sent with deliveryMode "follow_up"
  None,        \* no turn
  QueueLimit,  \* follow-ups a session may hold (10 in the code)
  MaxDialogs,  \* bound: dialogs Pi opens
  MaxFaults    \* bound: process exits, request timeouts and deaths of the bridge

ASSUME TurnAssumption ==
  /\ FollowUp \subseteq Prompt
  /\ None \notin Prompt
  /\ QueueLimit \in Nat
  /\ MaxDialogs \in Nat /\ MaxFaults \in Nat

VARIABLES
  row,       \* table follow_up_queue: the state of each row, "none" when absent
  order,     \* its ids in order of position
  cmd,       \* state of each prompt.submit command row
  shown,     \* user.message.created events of the canonical log, by command id
  turns,     \* by turn id, what the log says of it: nothing, started, or over
  last,      \* the outcome in its latest terminal turn event: none, known, indeterminate
  dialogs,   \* table extension_dialogs, in order of creation
  runtime,   \* runtimeState of the session row
  accepting, \* follow-up whose command row is committed but not yet queued
  lane,      \* accepted commands of the session, oldest first
  calls,     \* handlePromptSubmit calls that are awaiting something
  active,    \* activeTurns entry of the session
  procState, \* state of the session's supervised process
  piStdin,   \* prompts written to Pi that it has not read
  pi,        \* the turn Pi is working on
  began,     \* Pi has announced that turn
  received,  \* prompts Pi has read
  faults     \* exits, timeouts and crashes so far

turnRows == <<row, order, cmd, shown, turns, last, dialogs, runtime>>
memory   == <<accepting, lane, calls, active, procState>>
outside  == <<piStdin, pi, began, received>>
turnVars == <<turnRows, memory, outside, faults>>

Terminal == {"settled", "aborted", "failed", "indeterminate"}
Usable   == {"idle", "running", "waiting_for_input"}

InitTurns ==
  /\ row = [p \in FollowUp |-> "none"]
  /\ order = <<>>
  /\ cmd = [p \in Prompt |-> "new"]
  /\ shown = [p \in Prompt |-> 0]
  /\ turns = [p \in Prompt |-> "none"]
  /\ last = "none"
  /\ dialogs = <<>>
  /\ runtime = "idle"
  /\ accepting = None
  /\ lane = <<>>
  /\ calls = {}
  /\ active = None
  /\ procState = "idle"
  /\ piStdin = <<>>
  /\ pi = None
  /\ began = FALSE
  /\ received = {}
  /\ faults = 0

-----------------------------------------------------------------------------
(* The follow-up table. *)

listFollowUps == {p \in FollowUp : row[p] = "queued"}

\* p has the lowest position of the queued rows.
First(p) ==
  \E j \in DOMAIN order :
     /\ order[j] = p /\ row[p] = "queued"
     /\ \A i \in DOMAIN order : i < j => row[order[i]] # "queued"

enqueueFollowUp(p) ==
  /\ row' = [row EXCEPT ![p] = "queued"]
  /\ order' = Append(order, p)

removeFollowUp(p) == row' = [row EXCEPT ![p] = "none"]

claimNextFollowUp(p) == First(p) /\ row' = [row EXCEPT ![p] = "dispatching"]

\* Mutant: a failed dispatch deletes the row.
finishForGood(p, requeue) == row' = [row EXCEPT ![p] = "none"]

\* A dispatching row is deleted, or put back at the position it has.
finishFollowUp(p, requeue) ==
  row' = [row EXCEPT ![p] = IF @ = "dispatching" THEN IF requeue THEN "queued" ELSE "none" ELSE @]

\* Mutant: start-up leaves the dispatching rows alone.
recoverNothing == UNCHANGED row

recoverDispatchingFollowUps ==
  row' = [p \in FollowUp |-> IF row[p] = "dispatching" THEN "queued" ELSE row[p]]

-----------------------------------------------------------------------------
(* The canonical log, as far as turns are concerned. *)

\* Mutant: the append carries no sourceEventId.
appendPromptAgain(p) == shown' = [shown EXCEPT ![p] = @ + 1]

\* An append whose sourceEventId is already in the log returns the stored row.
appendPrompt(p) == shown' = [shown EXCEPT ![p] = IF @ > 0 THEN @ ELSE @ + 1]

appendTurn(p, type) ==
  /\ turns' = IF p = None THEN turns
              ELSE [turns EXCEPT ![p] = IF type \in Terminal \/ @ = "over" THEN "over" ELSE "started"]
  /\ last' = IF p = None \/ type \notin Terminal THEN last
             ELSE IF type = "indeterminate" THEN type ELSE "known"

OpenTurns == {p \in Prompt : turns[p] = "started"}

-----------------------------------------------------------------------------
(* Admission of prompt.submit (runtime.command). *)

\* Everything the handler checks, then the durable submit.  An indeterminate
\* session refuses prompts until it is activated.
SubmitPrompt(p) ==
  /\ accepting = None
  /\ cmd[p] = "new"
  /\ runtime # "indeterminate"
  /\ p \in FollowUp => Cardinality(listFollowUps) < QueueLimit
  /\ cmd' = [cmd EXCEPT ![p] = "accepted"]
  /\ lane' = Append(lane, p)
  /\ accepting' = IF p \in FollowUp THEN p ELSE None
  /\ UNCHANGED <<row, order, shown, turns, last, dialogs, runtime, calls, active, procState, outside, faults>>

\* The second transaction of the same handler: the follow-up is queued.
commandAccepted ==
  /\ accepting # None
  /\ enqueueFollowUp(accepting)
  /\ accepting' = None
  /\ UNCHANGED <<cmd, shown, turns, last, dialogs, runtime, lane, calls, active, procState, outside, faults>>

-----------------------------------------------------------------------------
(* Dispatch. *)

\* The lane takes its oldest command when the one before has settled.  A
\* follow-up completes at once: the queue owns it from here.
Dispatch ==
  /\ accepting = None
  /\ lane # <<>>
  /\ \A c \in calls : c.by # "lane"
  /\ lane' = Tail(lane)
  /\ LET p == Head(lane) IN
       IF p \in FollowUp
       THEN /\ cmd' = [cmd EXCEPT ![p] = "completed"]
            /\ UNCHANGED calls
       ELSE /\ cmd' = [cmd EXCEPT ![p] = "running"]
            /\ calls' = calls \cup {[id |-> p, by |-> "lane", at |-> "starting"]}
  /\ UNCHANGED <<row, order, shown, turns, last, dialogs, runtime, accepting, active, procState, outside, faults>>

\* The call c comes back from ensureRpcStarted with the process up (a stopped
\* one was started): the prompt is logged, the turn claimed, the request written.
handlePromptSubmit(c) ==
  /\ accepting = None
  /\ c \in calls /\ c.at = "starting"
  /\ procState # "retry_wait"
  /\ appendPrompt(c.id)
  /\ procState' = IF procState \in {"idle", "stopped"} THEN "running" ELSE procState
  /\ runtime' = IF procState \in {"idle", "stopped"} THEN "running" ELSE runtime
  /\ active' = c.id
  /\ piStdin' = Append(piStdin, c.id)
  /\ calls' = (calls \ {c}) \cup {[c EXCEPT !.at = "sent"]}
  /\ UNCHANGED <<row, order, cmd, turns, last, dialogs, accepting, lane, pi, began, received, faults>>

\* The process is waiting for its restart: "Pi process unavailable".  A lane
\* command fails; a queued follow-up goes back to its place.
RefuseUnavailable(c) ==
  /\ accepting = None
  /\ c \in calls /\ c.at = "starting"
  /\ procState = "retry_wait"
  /\ calls' = calls \ {c}
  /\ IF c.by = "lane" THEN cmd' = [cmd EXCEPT ![c.id] = "failed"] /\ UNCHANGED row
                      ELSE finishFollowUp(c.id, TRUE) /\ UNCHANGED cmd
  /\ UNCHANGED <<order, shown, turns, last, dialogs, runtime, accepting, lane, active, procState, outside, faults>>

\* The request was answered: the command completes, or the queue row goes.
PromptAnswered(c) ==
  /\ calls' = calls \ {c}
  /\ IF c.by = "lane" THEN cmd' = [cmd EXCEPT ![c.id] = "completed"] /\ UNCHANGED row
                      ELSE finishFollowUp(c.id, FALSE) /\ UNCHANGED cmd

\* The request was refused, timed out or lost with the process: the turn's
\* outcome is unknown.  A follow-up is put back in the queue all the same.
PromptUnknown(c) ==
  /\ calls' = calls \ {c}
  /\ active' = None
  /\ appendTurn(c.id, "indeterminate")
  /\ runtime' = "indeterminate"
  /\ IF c.by = "lane" THEN cmd' = [cmd EXCEPT ![c.id] = "indeterminate"] /\ UNCHANGED row
                      ELSE finishFollowUp(c.id, TRUE) /\ UNCHANGED cmd

\* No answer within the request timeout.
Timeout(c) ==
  /\ accepting = None
  /\ c \in calls /\ c.at = "sent"
  /\ faults < MaxFaults
  /\ faults' = faults + 1
  /\ PromptUnknown(c)
  /\ UNCHANGED <<order, shown, dialogs, accepting, lane, procState, outside>>

\* The rejection that follows the exit of the process.
Rejected(c) ==
  /\ accepting = None
  /\ c \in calls /\ c.at = "lost"
  /\ PromptUnknown(c)
  /\ UNCHANGED <<order, shown, dialogs, accepting, lane, procState, outside, faults>>

-----------------------------------------------------------------------------
(* Pi reads its stdin and works. *)

\* Pi reads the next prompt: it starts on it, or folds it into the turn it is
\* on.  The bridge may have given up on the request meanwhile.
PiTakes ==
  /\ accepting = None
  /\ piStdin # <<>>
  /\ piStdin' = Tail(piStdin)
  /\ received' = received \cup {Head(piStdin)}
  /\ pi' = IF pi = None THEN Head(piStdin) ELSE pi
  /\ LET waiting == {c \in calls : c.id = Head(piStdin) /\ c.at = "sent"} IN
       IF waiting = {} THEN UNCHANGED <<calls, cmd, row>>
                       ELSE \E c \in waiting : PromptAnswered(c)
  /\ UNCHANGED <<order, shown, turns, last, dialogs, runtime, accepting, lane, active, procState, began, faults>>

\* Pi is busy and refuses the prompt with an error answer.
PiRefuses ==
  /\ accepting = None
  /\ piStdin # <<>> /\ pi # None
  /\ \E c \in calls :
       /\ c.id = Head(piStdin) /\ c.at = "sent"
       /\ PromptUnknown(c)
  /\ piStdin' = Tail(piStdin)
  /\ UNCHANGED <<order, shown, dialogs, accepting, lane, procState, pi, began, received, faults>>

\* agent_start and turn_start: the supervisor projects the process to running,
\* the adapter logs the start under the active turn.
TurnStarts ==
  /\ accepting = None
  /\ pi # None /\ ~began
  /\ began' = TRUE
  /\ procState' = IF procState = "idle" THEN "running" ELSE procState
  /\ runtime' = "running"
  /\ appendTurn(active, "started")
  /\ UNCHANGED <<row, order, cmd, shown, dialogs, accepting, lane, calls, active, piStdin, pi, received, faults>>

orphanPendingDialogs == [i \in DOMAIN dialogs |-> IF dialogs[i] = "pending" THEN "orphaned" ELSE dialogs[i]]

\* The provider fails or the turn is aborted while Pi streams a message.
TurnFails ==
  /\ accepting = None
  /\ pi # None /\ began
  /\ \E type \in {"aborted", "failed"} :
       /\ appendTurn(active, type)
       /\ runtime' = IF type = "failed" THEN "provider_interrupted" ELSE "idle"
  /\ dialogs' = orphanPendingDialogs
  /\ UNCHANGED <<row, order, cmd, shown, memory, outside, faults>>

\* Mutant: the queue is not looked at.
dispatchNothing == UNCHANGED <<row, calls>>

dispatchNextFollowUp ==
  \/ listFollowUps = {} /\ UNCHANGED <<row, calls>>
  \/ \E p \in FollowUp :
       /\ claimNextFollowUp(p)
       /\ calls' = calls \cup {[id |-> p, by |-> "queue", at |-> "starting"]}

\* agent_settled: the turn is over, and the next follow-up is claimed.  This is
\* the only place that claims one.
AgentSettles ==
  /\ accepting = None
  /\ pi # None /\ began
  /\ pi' = None /\ began' = FALSE
  /\ procState' = IF procState \in {"running", "waiting_for_input"} THEN "idle" ELSE procState
  /\ runtime' = "idle"
  /\ appendTurn(active, "settled")
  /\ active' = None
  /\ dispatchNextFollowUp
  /\ UNCHANGED <<order, cmd, shown, dialogs, accepting, lane, piStdin, received, faults>>

-----------------------------------------------------------------------------
(* Dialogs and the queue commands. *)

\* Pi asks the user something: an earlier pending dialog is orphaned.
createDialog ==
  /\ accepting = None
  /\ pi # None /\ Len(dialogs) < MaxDialogs
  /\ dialogs' = Append(orphanPendingDialogs, "pending")
  /\ procState' = IF procState \in {"idle", "running"} THEN "waiting_for_input" ELSE procState
  /\ runtime' = IF procState \in {"idle", "running"} THEN "waiting_for_input" ELSE runtime
  /\ UNCHANGED <<row, order, cmd, shown, turns, last, accepting, lane, calls, active, outside, faults>>

\* extension.respond as it runs in the lane: the dialog is claimed if it is
\* still pending, and only then is Pi told.  A response that fails to reach Pi
\* leaves the claim as it is.
claimDialogResponse(d) ==
  /\ dialogs[d] = "pending"
  /\ dialogs' = [dialogs EXCEPT ![d] = "responded"]

handleExtensionResponse(d) ==
  /\ accepting = None
  /\ d \in DOMAIN dialogs
  /\ claimDialogResponse(d)
  /\ UNCHANGED <<row, order, cmd, shown, turns, last, runtime, memory, outside, faults>>

expireDialogs ==
  /\ accepting = None
  /\ \E d \in DOMAIN dialogs :
       /\ dialogs[d] = "pending"
       /\ dialogs' = [dialogs EXCEPT ![d] = "expired"]
  /\ UNCHANGED <<row, order, cmd, shown, turns, last, runtime, memory, outside, faults>>

QueueRemove(p) ==
  /\ accepting = None
  /\ row[p] = "queued"
  /\ removeFollowUp(p)
  /\ UNCHANGED <<order, cmd, shown, turns, last, dialogs, runtime, memory, outside, faults>>

QueueClear ==
  /\ accepting = None
  /\ listFollowUps # {}
  /\ row' = [p \in FollowUp |-> IF row[p] = "queued" THEN "none" ELSE row[p]]
  /\ UNCHANGED <<order, cmd, shown, turns, last, dialogs, runtime, memory, outside, faults>>

\* session.activate: a stopped process is started; one that is busy or waiting
\* for its restart makes the command fail, which leaves the session as it was.
Activate ==
  /\ accepting = None
  /\ procState \in {"idle", "stopped"}
  /\ procState' = "idle"
  /\ runtime' = "idle"
  /\ UNCHANGED <<row, order, cmd, shown, turns, last, dialogs, accepting, lane, calls, active, outside, faults>>

-----------------------------------------------------------------------------
(* Faults. *)

\* reconcileSessionHistoryTail with no live process: every open turn gets a
\* synthesised turn.indeterminate.
CloseOpenTurns ==
  /\ turns' = [p \in Prompt |-> IF p \in OpenTurns THEN "over" ELSE turns[p]]
  /\ last' = IF OpenTurns # {} THEN "indeterminate" ELSE last

\* The Pi process exits.  The history is reconciled, the supervisor schedules a
\* restart, and the requests in flight will be rejected.
ProcessExits ==
  /\ accepting = None
  /\ procState \in Usable
  /\ faults < MaxFaults
  /\ faults' = faults + 1
  /\ CloseOpenTurns
  /\ procState' = "retry_wait"
  /\ runtime' = "retry_wait"
  /\ calls' = {IF c.at = "sent" THEN [c EXCEPT !.at = "lost"] ELSE c : c \in calls}
  /\ piStdin' = <<>> /\ pi' = None /\ began' = FALSE
  /\ UNCHANGED <<row, order, cmd, shown, dialogs, accepting, lane, active, received>>

\* The restart timer: the process is started again and the session is idle.
ProcessRestarts ==
  /\ accepting = None
  /\ procState = "retry_wait"
  /\ procState' = "idle"
  /\ runtime' = "idle"
  /\ UNCHANGED <<row, order, cmd, shown, turns, last, dialogs, accepting, lane, calls, active, outside, faults>>

\* Thirty minutes without activity: the supervisor stops an idle process.
IdleStop ==
  /\ accepting = None
  /\ procState = "idle" /\ pi = None /\ piStdin = <<>>
  /\ procState' = "stopped"
  /\ runtime' = "stopped"
  /\ UNCHANGED <<row, order, cmd, shown, turns, last, dialogs, accepting, lane, calls, active, outside, faults>>

\* Where start-up leaves the session: the reconciled outcome wins, an
\* unreconciled running session and one with an uncertain command are
\* indeterminate.
StartupState(reconciled) ==
  IF \/ \E p \in Prompt : cmd[p] = "running"
     \/ reconciled /\ (OpenTurns # {} \/ last = "indeterminate")
     \/ ~reconciled /\ runtime \in {"running", "waiting_for_input", "retry_wait"}
  THEN "indeterminate"
  ELSE IF reconciled /\ last # "none" THEN "idle" ELSE runtime

\* The bridge is killed and comes back: memory is lost, Pi dies with its stdin.
\* The history of the session may be unreadable.
BridgeRestarts ==
  /\ faults < MaxFaults
  /\ faults' = faults + 1
  /\ \E reconciled \in BOOLEAN :
       /\ runtime' = StartupState(reconciled)
       /\ IF reconciled THEN CloseOpenTurns ELSE UNCHANGED <<turns, last>>
  /\ cmd' = [p \in Prompt |-> IF cmd[p] = "running" THEN "indeterminate" ELSE cmd[p]]
  /\ recoverDispatchingFollowUps
  /\ \E late \in SUBSET {d \in DOMAIN dialogs : dialogs[d] = "pending"} :
       dialogs' = [d \in DOMAIN dialogs |-> IF d \in late THEN "expired" ELSE dialogs[d]]
  /\ accepting' = None
  /\ calls' = {} /\ active' = None
  /\ procState' = "stopped"
  /\ piStdin' = <<>> /\ pi' = None /\ began' = FALSE
  /\ UNCHANGED <<order, shown, lane, received>>

NextTurns ==
  \/ \E p \in Prompt : SubmitPrompt(p)
  \/ \E p \in FollowUp : QueueRemove(p)
  \/ commandAccepted
  \/ Dispatch
  \/ \E c \in calls : \/ handlePromptSubmit(c) \/ RefuseUnavailable(c)
                      \/ Timeout(c) \/ Rejected(c)
  \/ PiTakes \/ PiRefuses \/ TurnStarts \/ TurnFails \/ AgentSettles
  \/ createDialog \/ expireDialogs
  \/ \E d \in DOMAIN dialogs : handleExtensionResponse(d)
  \/ QueueClear \/ Activate
  \/ ProcessExits \/ ProcessRestarts \/ IdleStop \/ BridgeRestarts

TurnsSpec == InitTurns /\ [][NextTurns]_turnVars

\* The lane and the awaited calls always go on, timers fire, and Pi is assumed
\* to read its stdin and to finish what it works on.
TurnsFairSpec ==
  /\ TurnsSpec
  /\ WF_turnVars(commandAccepted) /\ WF_turnVars(Dispatch)
  /\ WF_turnVars(\E c \in calls : handlePromptSubmit(c) \/ RefuseUnavailable(c) \/ Rejected(c))
  /\ WF_turnVars(PiTakes \/ PiRefuses) /\ WF_turnVars(TurnStarts) /\ WF_turnVars(AgentSettles)
  /\ WF_turnVars(ProcessRestarts)

-----------------------------------------------------------------------------
\* Every prompt Pi ever read is in the transcript, and once, although a
\* follow-up whose request failed is sent again under the same command id.
PromptShownOnce ==
  \A p \in Prompt : shown[p] <= 1 /\ (p \in received => shown[p] = 1)

\* A row that is "dispatching" belongs to a call that is still under way, so it
\* will be finished or put back: no crash or failure leaves one nobody owns.
DispatchingHasOwner ==
  \A p \in FollowUp : row[p] = "dispatching" => \E c \in calls : c.by = "queue" /\ c.id = p

\* A follow-up leaves the queue because the user withdraws it or because Pi has
\* read it, never because a request, the process or the bridge failed.
NoFollowUpLost ==
  [][\A p \in FollowUp : row[p] # "none" /\ row'[p] = "none" =>
        p \in received' \/ QueueRemove(p) \/ QueueClear]_turnVars

\* As long as nothing fails, a follow-up queued behind a turn is taken.
QueueDrains ==
  \A p \in FollowUp :
     (row[p] = "queued" /\ pi # None) ~> (row[p] # "queued" \/ faults > 0)

=============================================================================
