---------------------------- MODULE AdapterProofs ----------------------------
(***************************************************************************)
(* Theorems about the session adapter and what it drives: the queue of a   *)
(* session (TurnQueue), its Pi process (PiProcess), the directory of the   *)
(* sessions (SessionDirectory) and the import of Pi's session files        *)
(* (HistoryImport), for every value of their constants.                    *)
(***************************************************************************)
EXTENDS TurnQueue, PiProcess, SessionDirectory, HistoryImport, InductionLemmas, TLAPS

-----------------------------------------------------------------------------
(* TurnQueue: a prompt Pi has read is in the log exactly once, a           *)
(* dispatching row always has a call that will finish it, and a follow-up  *)
(* leaves the queue only because Pi has read it or the user withdrew it.   *)

Call == [id : Prompt, by : {"lane", "queue"}, at : {"starting", "sent", "lost"}]

\* Types of what the argument speaks of.
QueueOK == row \in [FollowUp -> {"none", "queued", "dispatching"}] /\ accepting \in FollowUp \cup {None}
LogOK   == shown \in [Prompt -> Nat] /\ received \subseteq Prompt
CallsOK == calls \subseteq Call /\ piStdin \in Seq(Prompt) /\ lane \in Seq(Prompt)

\* A prompt is logged before it is written to Pi, and is logged once.
LoggedBeforeSent ==
  /\ \A p \in Prompt : shown[p] <= 1
  /\ \A k \in 1..Len(piStdin) : shown[piStdin[k]] = 1
  /\ \A p \in received : shown[p] = 1

TurnInv == QueueOK /\ LogOK /\ CallsOK /\ LoggedBeforeSent /\ DispatchingHasOwner

\* The invariant holds when the bridge starts with nothing queued.
LEMMA TurnInit == InitTurns => TurnInv
<1> SUFFICES ASSUME InitTurns PROVE TurnInv
  OBVIOUS
<1>1. QueueOK /\ LogOK /\ CallsOK
  BY DEF InitTurns, QueueOK, LogOK, CallsOK
<1>2. LoggedBeforeSent /\ DispatchingHasOwner
  BY DEF InitTurns, LoggedBeforeSent, DispatchingHasOwner
<1> QED BY <1>1, <1>2 DEF TurnInv

-----------------------------------------------------------------------------
(* What a step does to the queue's rows and the calls that own them.       *)

\* A step hands the ownership of rows on properly: every row that is left
\* dispatching had an owner that is still there, or was claimed by a new call.
LEMMA OwnersKept ==
  ASSUME DispatchingHasOwner, UNCHANGED row,
         \A c \in calls : c.by = "queue" => \E d \in calls' : d.by = "queue" /\ d.id = c.id
  PROVE  DispatchingHasOwner'
  BY DEF DispatchingHasOwner

\* A queue call that ends, however it ends, lets go of its row.
LEMMA CallEnds ==
  ASSUME TurnInv, NEW c \in calls, calls' = calls \ {c}, NEW requeue \in BOOLEAN,
         IF c.by = "lane" THEN UNCHANGED row ELSE finishFollowUp(c.id, requeue)
  PROVE  /\ row' \in [FollowUp -> {"none", "queued", "dispatching"}]
         /\ DispatchingHasOwner'
         /\ \A p \in FollowUp : row[p] # "none" /\ row'[p] = "none"
                                  => p = c.id /\ c.by = "queue" /\ ~requeue
<1>0. /\ row \in [FollowUp -> {"none", "queued", "dispatching"}] /\ c \in Call
      /\ calls \subseteq Call
  BY DEF TurnInv, QueueOK, CallsOK
<1>1. CASE c.by = "lane"
  <2>1. \A d \in calls : d.by = "queue" => d \in calls'
    BY <1>1
  <2> QED BY <1>0, <1>1, <2>1, OwnersKept DEF TurnInv
<1>2. CASE c.by = "queue"
  <2>1. row' = [row EXCEPT ![c.id] = IF @ = "dispatching" THEN IF requeue THEN "queued" ELSE "none" ELSE @]
    BY <1>2 DEF finishFollowUp
  <2>2. /\ row' \in [FollowUp -> {"none", "queued", "dispatching"}]
        /\ \A p \in FollowUp : p # c.id => row'[p] = row[p]
        /\ \A p \in FollowUp : p = c.id => row'[p] # "dispatching"
        /\ \A p \in FollowUp : p = c.id /\ requeue /\ row[p] # "none" => row'[p] # "none"
    BY <1>0, <2>1
  <2>3. ASSUME NEW p \in FollowUp, row'[p] = "dispatching"
        PROVE  \E d \in calls' : d.by = "queue" /\ d.id = p
    <3>1. p # c.id /\ row[p] = "dispatching"
      BY <2>2, <2>3
    <3>2. PICK d \in calls : d.by = "queue" /\ d.id = p
      BY <3>1 DEF TurnInv, DispatchingHasOwner
    <3> QED BY <3>1, <3>2
  <2>4. DispatchingHasOwner'
    BY <2>3 DEF DispatchingHasOwner
  <2> QED BY <1>2, <2>2, <2>4
<1> QED BY <1>0, <1>1, <1>2 DEF Call

-----------------------------------------------------------------------------
(* Admission and dispatch.                                                 *)

\* A prompt joins its lane, a follow-up waits to be acknowledged.
LEMMA SubmitTurn ==
  ASSUME TurnInv, NEW p \in Prompt, SubmitPrompt(p)
  PROVE  TurnInv'
<1>1. /\ lane' = Append(lane, p) /\ accepting' = IF p \in FollowUp THEN p ELSE None
      /\ UNCHANGED <<row, shown, calls, piStdin, received>>
  BY DEF SubmitPrompt, outside
<1>2. QueueOK' /\ LogOK' /\ CallsOK'
  BY <1>1 DEF TurnInv, QueueOK, LogOK, CallsOK
<1>3. LoggedBeforeSent' /\ DispatchingHasOwner'
  BY <1>1 DEF TurnInv, LoggedBeforeSent, DispatchingHasOwner
<1> QED BY <1>2, <1>3 DEF TurnInv

\* The acceptance of a follow-up queues it.
LEMMA AcceptedTurn ==
  ASSUME TurnInv, commandAccepted
  PROVE  TurnInv' /\ \A p \in FollowUp : row[p] # "none" => row'[p] # "none"
<1>1. /\ accepting # None /\ row' = [row EXCEPT ![accepting] = "queued"] /\ accepting' = None
      /\ UNCHANGED <<lane, shown, calls, piStdin, received>>
  BY DEF commandAccepted, enqueueFollowUp, outside
<1>2. QueueOK' /\ LogOK' /\ CallsOK'
  BY <1>1 DEF TurnInv, QueueOK, LogOK, CallsOK
<1>3. LoggedBeforeSent' /\ DispatchingHasOwner'
  BY <1>1 DEF TurnInv, LoggedBeforeSent, DispatchingHasOwner, QueueOK
<1> QED BY <1>1, <1>2, <1>3 DEF TurnInv, QueueOK

\* The first command of the lane is dispatched: a call for it, or none.
LEMMA DispatchTurn ==
  ASSUME TurnInv, Dispatch
  PROVE  TurnInv'
<1>1. /\ lane # <<>> /\ lane' = Tail(lane)
      /\ \/ UNCHANGED calls
         \/ calls' = calls \cup {[id |-> Head(lane), by |-> "lane", at |-> "starting"]}
      /\ UNCHANGED <<row, accepting, shown, piStdin, received>>
  BY DEF Dispatch, outside
<1>2. lane' \in Seq(Prompt) /\ Head(lane) \in Prompt
  BY <1>1 DEF TurnInv, CallsOK
<1>3. QueueOK' /\ LogOK' /\ CallsOK'
  BY <1>1, <1>2 DEF TurnInv, QueueOK, LogOK, CallsOK, Call
<1>4. DispatchingHasOwner'
  BY <1>1, OwnersKept DEF TurnInv
<1>5. LoggedBeforeSent'
  BY <1>1 DEF TurnInv, LoggedBeforeSent
<1> QED BY <1>3, <1>4, <1>5 DEF TurnInv

\* The call goes on: the prompt is logged, unless it already is, and then
\* written to Pi.
LEMMA SendTurn ==
  ASSUME TurnInv, NEW c \in calls, handlePromptSubmit(c)
  PROVE  TurnInv'
<1> DEFINE sent == [c EXCEPT !.at = "sent"]
<1>1. /\ shown' = [shown EXCEPT ![c.id] = IF @ > 0 THEN @ ELSE @ + 1]
      /\ piStdin' = Append(piStdin, c.id)
      /\ calls' = (calls \ {c}) \cup {sent}
      /\ UNCHANGED <<row, accepting, lane, received>>
  BY DEF handlePromptSubmit, appendPrompt
<1>2. c \in Call /\ c.id \in Prompt /\ sent \in Call /\ sent.id = c.id /\ sent.by = c.by
  BY DEF TurnInv, CallsOK, Call
<1>3. /\ shown' \in [Prompt -> Nat] /\ shown'[c.id] = 1
      /\ \A p \in Prompt : shown'[p] <= 1 /\ (shown[p] = 1 => shown'[p] = 1)
  BY <1>1, <1>2 DEF TurnInv, LogOK, LoggedBeforeSent
<1>4. piStdin \in Seq(Prompt) /\ piStdin' \in Seq(Prompt)
  BY <1>1, <1>2 DEF TurnInv, CallsOK
<1> HIDE DEF sent
<1>5. QueueOK' /\ LogOK' /\ CallsOK'
  BY <1>1, <1>2, <1>3, <1>4 DEF TurnInv, QueueOK, LogOK, CallsOK
<1>6. DispatchingHasOwner'
  BY <1>1, <1>2, OwnersKept DEF TurnInv
<1>7. LoggedBeforeSent'
  <2>1. \A k \in 1..Len(piStdin') : shown'[piStdin'[k]] = 1
    <3>1. ASSUME NEW k \in 1..Len(piStdin') PROVE shown'[piStdin'[k]] = 1
      <4>1. CASE k \in 1..Len(piStdin)
        <5>1. piStdin'[k] = piStdin[k] /\ piStdin[k] \in Prompt
          BY <4>1, <1>1, <1>2, <1>4
        <5> QED BY <5>1, <4>1, <1>3 DEF TurnInv, LoggedBeforeSent
      <4>2. CASE k = Len(piStdin) + 1
        <5>1. piStdin'[k] = c.id
          BY <4>2, <1>1, <1>2, <1>4
        <5> QED BY <5>1, <1>3
      <4> QED BY <4>1, <4>2, <1>1, <1>2, <1>4
    <3> QED BY <3>1
  <2>2. \A p \in received' : shown'[p] = 1
    BY <1>1, <1>3 DEF TurnInv, LogOK, LoggedBeforeSent
  <2> QED BY <1>3, <2>1, <2>2 DEF LoggedBeforeSent
<1> QED BY <1>5, <1>6, <1>7 DEF TurnInv

\* A call that ends without an answer puts its follow-up back.
LEMMA CallFails ==
  ASSUME TurnInv, NEW c \in calls, calls' = calls \ {c},
         IF c.by = "lane" THEN UNCHANGED row ELSE finishFollowUp(c.id, TRUE),
         UNCHANGED <<accepting, lane, shown, received>>,
         UNCHANGED piStdin \/ (piStdin # <<>> /\ piStdin' = Tail(piStdin))
  PROVE  TurnInv' /\ \A p \in FollowUp : row[p] # "none" => row'[p] # "none"
<1>1. /\ row' \in [FollowUp -> {"none", "queued", "dispatching"}] /\ DispatchingHasOwner'
      /\ \A p \in FollowUp : row[p] # "none" => row'[p] # "none"
  BY CallEnds
<1>2. piStdin' \in Seq(Prompt) /\ \A k \in 1..Len(piStdin') : \E j \in 1..Len(piStdin) : piStdin'[k] = piStdin[j]
  <2>1. piStdin \in Seq(Prompt)
    BY DEF TurnInv, CallsOK
  <2>2. CASE UNCHANGED piStdin
    BY <2>1, <2>2
  <2>3. CASE piStdin # <<>> /\ piStdin' = Tail(piStdin)
    <3>1. /\ piStdin' \in Seq(Prompt) /\ Len(piStdin) \in Nat /\ Len(piStdin') = Len(piStdin) - 1
          /\ \A k \in 1..Len(piStdin') : piStdin'[k] = piStdin[k + 1]
      BY <2>1, <2>3
    <3>2. \A k \in 1..Len(piStdin') : k + 1 \in 1..Len(piStdin)
      BY <3>1
    <3> QED BY <3>1, <3>2
  <2> QED BY <2>2, <2>3
<1>3. QueueOK' /\ LogOK' /\ CallsOK'
  BY <1>1, <1>2 DEF TurnInv, QueueOK, LogOK, CallsOK
<1>4. LoggedBeforeSent'
  BY <1>2 DEF TurnInv, LoggedBeforeSent
<1> QED BY <1>1, <1>3, <1>4 DEF TurnInv

\* A call that fails puts its follow-up back.
LEMMA FailedCallTurn ==
  ASSUME TurnInv, NEW c \in calls, RefuseUnavailable(c) \/ Timeout(c) \/ Rejected(c)
  PROVE  TurnInv' /\ \A p \in FollowUp : row[p] # "none" => row'[p] # "none"
<1>1. /\ calls' = calls \ {c}
      /\ IF c.by = "lane" THEN UNCHANGED row ELSE finishFollowUp(c.id, TRUE)
      /\ UNCHANGED <<accepting, lane, shown, received, piStdin>>
  BY DEF RefuseUnavailable, Timeout, Rejected, PromptUnknown, outside
<1> QED BY <1>1, CallFails

-----------------------------------------------------------------------------
(* Pi's steps.                                                             *)

\* Pi reads a prompt: it was logged before it was written.
LEMMA TakesTurn ==
  ASSUME TurnInv, PiTakes
  PROVE  TurnInv' /\ \A p \in FollowUp : row[p] # "none" /\ row'[p] = "none" => p \in received'
<1>1. /\ piStdin # <<>> /\ piStdin' = Tail(piStdin) /\ received' = received \cup {Head(piStdin)}
      /\ UNCHANGED <<accepting, lane, shown>>
      /\ \/ UNCHANGED <<calls, row>>
         \/ \E c \in calls : /\ c.id = Head(piStdin) /\ calls' = calls \ {c}
                             /\ IF c.by = "lane" THEN UNCHANGED row ELSE finishFollowUp(c.id, FALSE)
  BY DEF PiTakes, PromptAnswered
<1>2. /\ piStdin \in Seq(Prompt) /\ piStdin' \in Seq(Prompt) /\ Head(piStdin) = piStdin[1] /\ Head(piStdin) \in Prompt
      /\ Len(piStdin) \in Nat \ {0} /\ Len(piStdin') = Len(piStdin) - 1
      /\ \A k \in 1..Len(piStdin') : piStdin'[k] = piStdin[k + 1]
  BY <1>1 DEF TurnInv, CallsOK
<1>3. LoggedBeforeSent'
  <2>1. \A k \in 1..Len(piStdin) : shown[piStdin[k]] = 1
    BY DEF TurnInv, LoggedBeforeSent
  <2>2. \A k \in 1..Len(piStdin') : shown[piStdin'[k]] = 1
    <3>1. \A k \in 1..Len(piStdin') : k + 1 \in 1..Len(piStdin)
      BY <1>2
    <3> QED BY <1>2, <2>1, <3>1
  <2>3. shown[Head(piStdin)] = 1
    BY <1>2, <2>1
  <2> QED BY <1>1, <2>2, <2>3 DEF TurnInv, LoggedBeforeSent
<1>4. CASE UNCHANGED <<calls, row>>
  <2>1. QueueOK' /\ LogOK' /\ CallsOK'
    BY <1>1, <1>2, <1>4 DEF TurnInv, QueueOK, LogOK, CallsOK
  <2>2. DispatchingHasOwner'
    BY <1>4 DEF TurnInv, DispatchingHasOwner
  <2> QED BY <1>3, <1>4, <2>1, <2>2 DEF TurnInv
<1>5. CASE \E c \in calls : /\ c.id = Head(piStdin) /\ calls' = calls \ {c}
                            /\ IF c.by = "lane" THEN UNCHANGED row ELSE finishFollowUp(c.id, FALSE)
  <2>1. PICK c \in calls : /\ c.id = Head(piStdin) /\ calls' = calls \ {c}
                           /\ IF c.by = "lane" THEN UNCHANGED row ELSE finishFollowUp(c.id, FALSE)
    BY <1>5
  <2>2. /\ row' \in [FollowUp -> {"none", "queued", "dispatching"}] /\ DispatchingHasOwner'
        /\ \A p \in FollowUp : row[p] # "none" /\ row'[p] = "none" => p = c.id
    BY <2>1, CallEnds
  <2>3. QueueOK' /\ LogOK' /\ CallsOK'
    BY <1>1, <1>2, <2>1, <2>2 DEF TurnInv, QueueOK, LogOK, CallsOK
  <2> QED BY <1>1, <1>3, <2>1, <2>2, <2>3 DEF TurnInv
<1> QED BY <1>1, <1>4, <1>5

\* So does a prompt that Pi refuses.
LEMMA RefusesTurn ==
  ASSUME TurnInv, PiRefuses
  PROVE  TurnInv' /\ \A p \in FollowUp : row[p] # "none" => row'[p] # "none"
<1>1. PICK c \in calls : PromptUnknown(c)
  BY DEF PiRefuses
<1>2. /\ calls' = calls \ {c}
      /\ IF c.by = "lane" THEN UNCHANGED row ELSE finishFollowUp(c.id, TRUE)
      /\ piStdin # <<>> /\ piStdin' = Tail(piStdin)
      /\ UNCHANGED <<accepting, lane, shown, received>>
  BY <1>1 DEF PiRefuses, PromptUnknown
<1> QED BY <1>2, CallFails

\* Pi settles: the next follow-up, if any, is claimed by a new call.
LEMMA SettlesTurn ==
  ASSUME TurnInv, AgentSettles
  PROVE  TurnInv' /\ \A p \in FollowUp : row[p] # "none" => row'[p] # "none"
<1>1. /\ dispatchNextFollowUp /\ UNCHANGED <<accepting, lane, shown, piStdin, received>>
  BY DEF AgentSettles
<1>2. CASE UNCHANGED <<row, calls>>
  BY <1>1, <1>2 DEF TurnInv, QueueOK, LogOK, CallsOK, LoggedBeforeSent, DispatchingHasOwner
<1>3. ASSUME NEW p \in FollowUp, claimNextFollowUp(p),
             calls' = calls \cup {[id |-> p, by |-> "queue", at |-> "starting"]}
      PROVE  TurnInv' /\ \A q \in FollowUp : row[q] # "none" => row'[q] # "none"
  <2> DEFINE new == [id |-> p, by |-> "queue", at |-> "starting"]
  <2>1. new \in Call /\ new.by = "queue" /\ new.id = p
    BY TurnAssumption DEF Call
  <2>2. row' = [row EXCEPT ![p] = "dispatching"] /\ row \in [FollowUp -> {"none", "queued", "dispatching"}]
    BY <1>3 DEF claimNextFollowUp, TurnInv, QueueOK
  <2>3. calls' = calls \cup {new}
    BY <1>3
  <2> HIDE DEF new
  <2>4. QueueOK' /\ LogOK' /\ CallsOK'
    BY <1>1, <2>1, <2>2, <2>3 DEF TurnInv, QueueOK, LogOK, CallsOK
  <2>5. ASSUME NEW q \in FollowUp, row'[q] = "dispatching"
        PROVE  \E d \in calls' : d.by = "queue" /\ d.id = q
    <3>1. CASE q = p
      BY <3>1, <2>1, <2>3
    <3>2. CASE q # p
      <4>1. row[q] = "dispatching"
        BY <3>2, <2>2, <2>5
      <4> QED BY <4>1, <2>3 DEF TurnInv, DispatchingHasOwner
    <3> QED BY <3>1, <3>2
  <2>6. DispatchingHasOwner'
    BY <2>5 DEF DispatchingHasOwner
  <2>7. LoggedBeforeSent'
    BY <1>1 DEF TurnInv, LoggedBeforeSent
  <2> QED BY <2>2, <2>4, <2>6, <2>7 DEF TurnInv
<1> QED BY <1>1, <1>2, <1>3 DEF dispatchNextFollowUp

-----------------------------------------------------------------------------
(* The user's queue commands, faults and restarts.                         *)

\* Queued rows are withdrawn.
LEMMA WithdrawTurn ==
  ASSUME TurnInv, QueueClear \/ \E p \in FollowUp : QueueRemove(p)
  PROVE  TurnInv'
<1>1. /\ UNCHANGED <<accepting, lane, shown, calls, piStdin, received>>
      /\ \/ row' = [p \in FollowUp |-> IF row[p] = "queued" THEN "none" ELSE row[p]]
         \/ \E p \in FollowUp : row' = [row EXCEPT ![p] = "none"]
  BY DEF QueueClear, QueueRemove, removeFollowUp, memory, outside
<1>2. row' \in [FollowUp -> {"none", "queued", "dispatching"}]
      /\ \A p \in FollowUp : row'[p] = "dispatching" => row[p] = "dispatching"
  BY <1>1 DEF TurnInv, QueueOK
<1>3. QueueOK' /\ LogOK' /\ CallsOK'
  BY <1>1, <1>2 DEF TurnInv, QueueOK, LogOK, CallsOK
<1>4. LoggedBeforeSent' /\ DispatchingHasOwner'
  BY <1>1, <1>2 DEF TurnInv, LoggedBeforeSent, DispatchingHasOwner
<1> QED BY <1>3, <1>4 DEF TurnInv

\* The process exits: the calls in flight are lost, and still own their rows.
LEMMA ExitsTurn ==
  ASSUME TurnInv, ProcessExits
  PROVE  TurnInv' /\ UNCHANGED row
<1> DEFINE lost(c) == IF c.at = "sent" THEN [c EXCEPT !.at = "lost"] ELSE c
<1>1. /\ calls' = {lost(c) : c \in calls} /\ piStdin' = <<>>
      /\ UNCHANGED <<row, accepting, lane, shown, received>>
  BY DEF ProcessExits
<1>2. ASSUME NEW c \in calls PROVE lost(c) \in Call /\ lost(c).by = c.by /\ lost(c).id = c.id
  BY DEF TurnInv, CallsOK, Call
<1> HIDE DEF lost
<1>3. QueueOK' /\ LogOK' /\ CallsOK'
  BY <1>1, <1>2 DEF TurnInv, QueueOK, LogOK, CallsOK
<1>4. DispatchingHasOwner'
  <2>1. \A c \in calls : c.by = "queue" => lost(c) \in calls' /\ lost(c).by = "queue" /\ lost(c).id = c.id
    BY <1>1, <1>2
  <2> QED BY <1>1, <2>1, OwnersKept DEF TurnInv
<1>5. LoggedBeforeSent'
  BY <1>1 DEF TurnInv, LoggedBeforeSent
<1> QED BY <1>1, <1>3, <1>4, <1>5 DEF TurnInv

\* The bridge comes back: the calls are gone, and so is every dispatching row.
LEMMA RestartsTurn ==
  ASSUME TurnInv, BridgeRestarts
  PROVE  TurnInv' /\ \A p \in FollowUp : row[p] # "none" => row'[p] # "none"
<1>1. /\ row' = [p \in FollowUp |-> IF row[p] = "dispatching" THEN "queued" ELSE row[p]]
      /\ accepting' = None /\ calls' = {} /\ piStdin' = <<>> /\ UNCHANGED <<lane, shown, received>>
  BY DEF BridgeRestarts, recoverDispatchingFollowUps
<1>2. /\ row' \in [FollowUp -> {"none", "queued", "dispatching"}]
      /\ \A p \in FollowUp : row'[p] # "dispatching" /\ (row[p] # "none" => row'[p] # "none")
  BY <1>1 DEF TurnInv, QueueOK
<1>3. QueueOK' /\ LogOK' /\ CallsOK'
  BY <1>1, <1>2 DEF TurnInv, QueueOK, LogOK, CallsOK
<1>4. DispatchingHasOwner' /\ LoggedBeforeSent'
  BY <1>1, <1>2 DEF TurnInv, LoggedBeforeSent, DispatchingHasOwner
<1> QED BY <1>2, <1>3, <1>4 DEF TurnInv

\* The steps that touch neither the queue nor the calls nor the log of prompts.
Elsewhere == UNCHANGED <<row, accepting, lane, shown, calls, piStdin, received>>

\* The invariant is about no other variable.
LEMMA ElsewhereTurn == TurnInv /\ Elsewhere => TurnInv'
  BY DEF Elsewhere, TurnInv, QueueOK, LogOK, CallsOK, LoggedBeforeSent, DispatchingHasOwner

\* These actions leave queue, calls and pipes alone.
LEMMA ElsewhereSteps ==
  ASSUME \/ TurnStarts \/ TurnFails \/ createDialog \/ expireDialogs
         \/ \E d \in DOMAIN dialogs : handleExtensionResponse(d)
         \/ Activate \/ ProcessRestarts \/ IdleStop \/ UNCHANGED turnVars
  PROVE  Elsewhere
<1>1. CASE TurnStarts \/ TurnFails \/ createDialog \/ expireDialogs
  BY <1>1 DEF TurnStarts, TurnFails, createDialog, expireDialogs, memory, outside, Elsewhere
<1>2. CASE \E d \in DOMAIN dialogs : handleExtensionResponse(d)
  BY <1>2 DEF handleExtensionResponse, memory, outside, Elsewhere
<1>3. CASE Activate \/ ProcessRestarts \/ IdleStop \/ UNCHANGED turnVars
  BY <1>3 DEF Activate, ProcessRestarts, IdleStop, turnVars, turnRows, memory, outside, Elsewhere
<1> QED BY <1>1, <1>2, <1>3

-----------------------------------------------------------------------------
\* A follow-up leaves the queue in one step only if Pi has read it or the user
\* takes it out.
Kept == \A p \in FollowUp : row[p] # "none" /\ row'[p] = "none" =>
           p \in received' \/ QueueRemove(p) \/ QueueClear

\* Each action keeps the invariant, and loses no follow-up.
LEMMA TurnStep == TurnInv /\ [NextTurns]_turnVars => TurnInv' /\ Kept
<1> SUFFICES ASSUME TurnInv, [NextTurns]_turnVars PROVE TurnInv' /\ Kept
  OBVIOUS
<1>1. ASSUME NEW p \in Prompt, SubmitPrompt(p) PROVE TurnInv' /\ Kept
  BY <1>1, SubmitTurn DEF SubmitPrompt, Kept
<1>2. ASSUME NEW p \in FollowUp, QueueRemove(p) PROVE TurnInv' /\ Kept
  <2>1. \A q \in FollowUp : row'[q] = row[q] \/ q = p
    BY <1>2 DEF QueueRemove, removeFollowUp, TurnInv, QueueOK
  <2> QED BY <1>2, <2>1, WithdrawTurn DEF Kept
<1>3. CASE commandAccepted
  BY <1>3, AcceptedTurn DEF Kept
<1>4. CASE Dispatch
  BY <1>4, DispatchTurn DEF Dispatch, Kept
<1>5. ASSUME NEW c \in calls, handlePromptSubmit(c) PROVE TurnInv' /\ Kept
  BY <1>5, SendTurn DEF handlePromptSubmit, Kept
<1>6. ASSUME NEW c \in calls, RefuseUnavailable(c) \/ Timeout(c) \/ Rejected(c) PROVE TurnInv' /\ Kept
  BY <1>6, FailedCallTurn DEF Kept
<1>7. CASE PiTakes
  BY <1>7, TakesTurn DEF Kept
<1>8. CASE PiRefuses
  BY <1>8, RefusesTurn DEF Kept
<1>9. CASE AgentSettles
  BY <1>9, SettlesTurn DEF Kept
<1>10. CASE QueueClear
  BY <1>10, WithdrawTurn DEF Kept
<1>11. CASE ProcessExits
  BY <1>11, ExitsTurn DEF Kept
<1>12. CASE BridgeRestarts
  BY <1>12, RestartsTurn DEF Kept
<1>13. CASE \/ TurnStarts \/ TurnFails \/ createDialog \/ expireDialogs
            \/ \E d \in DOMAIN dialogs : handleExtensionResponse(d)
            \/ Activate \/ ProcessRestarts \/ IdleStop \/ UNCHANGED turnVars
  <2>1. Elsewhere
    BY <1>13, ElsewhereSteps
  <2> QED BY <2>1, ElsewhereTurn DEF Elsewhere, Kept
<1> QED BY <1>1, <1>2, <1>3, <1>4, <1>5, <1>6, <1>7, <1>8, <1>9, <1>10, <1>11, <1>12, <1>13 DEF NextTurns

\* The invariant of the turns holds always.
LEMMA TurnAlways == TurnsSpec => []TurnInv
  BY TurnInit, TurnStep, PTL DEF TurnsSpec

\* Every prompt Pi ever read is in the transcript, and once, although a
\* follow-up whose request failed is sent again under the same command id.
THEOREM PromptsShownOnce == TurnsSpec => []PromptShownOnce
<1>1. TurnInv => PromptShownOnce
  BY DEF TurnInv, LoggedBeforeSent, PromptShownOnce
<1> QED BY <1>1, TurnAlways, PTL

\* No timeout, refusal, exit or restart leaves a dispatching row without the
\* call that will finish it or put it back.
THEOREM DispatchingIsOwned == TurnsSpec => []DispatchingHasOwner
<1>1. TurnInv => DispatchingHasOwner
  BY DEF TurnInv
<1> QED BY <1>1, TurnAlways, PTL

\* A follow-up leaves the queue because the user withdraws it or because Pi has
\* read it, never because a request, the process or the bridge failed.
THEOREM FollowUpsKept == TurnsSpec => NoFollowUpLost
<1>1. TurnInv /\ [NextTurns]_turnVars =>
        [\A p \in FollowUp : row[p] # "none" /\ row'[p] = "none" =>
            p \in received' \/ QueueRemove(p) \/ QueueClear]_turnVars
  BY TurnStep DEF Kept
<1> QED BY <1>1, TurnAlways, PTL DEF TurnsSpec, NoFollowUpLost

-----------------------------------------------------------------------------
(* PiProcess: one Pi process per session.                                  *)

-----------------------------------------------------------------------------
(* The part of the state the argument needs.                               *)

\* Types of the supervisor's entry and of the processes.
EntryOK ==
  /\ sup \in ACTIVE \cup Down
  /\ spawned \in Nat
  /\ os \in Seq({"alive", "dead", "handled"})
  /\ Len(os) = spawned

\* Only the newest process can be anything but gone and handled, and when the
\* entry is down that one is, too.
OnlyNewest ==
  /\ \A p \in 1..spawned : p # spawned => os[p] = "handled"
  /\ sup \in Down => \A p \in 1..spawned : os[p] = "handled"

ProcessInv == EntryOK /\ OnlyNewest

\* The initial state has no process.
LEMMA ProcessInit == InitProcess => ProcessInv
BY DEF InitProcess, ProcessInv, EntryOK, OnlyNewest, Down

-----------------------------------------------------------------------------
(* Starting and exiting.                                                   *)

\* A spawn is reached from a state that is down only, so every earlier process
\* has been handled when the new one is appended.
LEMMA SpawnSafe ==
  ASSUME ProcessInv, sup \in Down, spawn
  PROVE  ProcessInv'
<1> USE DEF ProcessInv, EntryOK, OnlyNewest
<1>1. /\ spawned' = spawned + 1 /\ os' = Append(os, "alive") /\ sup' = "idle"
  BY DEF spawn
<1>2. os' \in Seq({"alive", "dead", "handled"}) /\ Len(os') = spawned'
  BY <1>1
<1>3. \A p \in 1..spawned : os'[p] = "handled"
  BY <1>1
<1>4. sup' \in ACTIVE /\ sup' \notin Down
  BY <1>1 DEF ACTIVE, Answering, Down
<1>5. \A p \in 1..spawned' : p # spawned' => p \in 1..spawned
  BY <1>1
<1> QED BY <1>1, <1>2, <1>3, <1>4, <1>5

\* A spawn that fails leaves the processes alone.
LEMMA SpawnFailsSafe ==
  ASSUME ProcessInv, sup \in Down, spawnFails
  PROVE  ProcessInv'
BY DEF spawnFails, process, ProcessInv, EntryOK, OnlyNewest, Down

\* A spawn happens only while there is no process.
LEMMA StartSafe ==
  ASSUME ProcessInv, StartForRequest \/ TickRestarts \/ ManualRetry
  PROVE  ProcessInv'
<1>1. sup \in Down
  BY DEF StartForRequest, TickRestarts, ManualRetry, Down
<1>2. spawn \/ spawnFails
  BY DEF StartForRequest, TickRestarts, ManualRetry
<1> QED BY <1>1, <1>2, SpawnSafe, SpawnFailsSafe

\* The death of the newest process, before the bridge has noticed it.
LEMMA ExitSafe ==
  ASSUME ProcessInv, Exit
  PROVE  ProcessInv'
<1> USE DEF ProcessInv, EntryOK, OnlyNewest
<1>1. /\ spawned > 0 /\ os[spawned] = "alive"
      /\ os' = [os EXCEPT ![spawned] = "dead"]
      /\ UNCHANGED <<sup, spawned>>
  BY DEF Exit, Alive, Current, entry
<1>2. spawned \in 1..spawned /\ sup \notin Down
  BY <1>1
<1>3. os' \in Seq({"alive", "dead", "handled"}) /\ Len(os') = spawned'
  BY <1>1, <1>2
<1>4. \A p \in 1..spawned : p # spawned => os'[p] = "handled"
  BY <1>1, <1>2
<1> QED BY <1>1, <1>2, <1>3, <1>4

\* Whatever the exit handler tells the supervisor, no process is left.
LEMMA HandleExitSafe ==
  ASSUME ProcessInv, HandleExit
  PROVE  ProcessInv'
<1> USE DEF ProcessInv, EntryOK, OnlyNewest
<1>1. /\ spawned > 0
      /\ os' = [os EXCEPT ![spawned] = "handled"]
      /\ UNCHANGED spawned
  BY DEF HandleExit, Current
<1>2. spawned \in 1..spawned
  BY <1>1
<1>3. os' \in Seq({"alive", "dead", "handled"}) /\ Len(os') = spawned'
  BY <1>1, <1>2
<1>4. \A p \in 1..spawned : os'[p] = "handled"
  BY <1>1, <1>2
<1>5. sup' \in ACTIVE \cup Down
  BY DEF HandleExit, unexpectedExit, Down
<1> QED BY <1>1, <1>3, <1>4, <1>5

-----------------------------------------------------------------------------
(* Records and stops.                                                      *)

\* A record moves an entry that is not down to another that is not down.
LEMMA PumpSafe ==
  ASSUME ProcessInv, PumpStdout
  PROVE  ProcessInv'
<1> USE DEF ProcessInv, EntryOK, OnlyNewest
<1>1. spawned \in 1..spawned /\ os[spawned] # "handled" /\ UNCHANGED <<spawned, os>>
  BY DEF PumpStdout, Running, Current
<1>2. sup \in ACTIVE /\ sup \notin Down
  BY <1>1
<1>3. \A x : project(x) \in ACTIVE /\ project(x) \notin Down
  BY <1>2 DEF project, ACTIVE, Answering, Busy, Down
<1>4. sup' = "stopping" \/ \E x : sup' = project(x)
  BY DEF PumpStdout, dispatchRecord
<1>5. sup' \in ACTIVE /\ sup' \notin Down
  BY <1>3, <1>4 DEF ACTIVE, Down
<1> QED BY <1>1, <1>5

\* A stop never declares an entry down that still has a process: it waits in
\* "stopping", which only an exit that has been handled ends.
LEMMA StopSafe ==
  ASSUME ProcessInv, IdleTimeout \/ Drain \/ Close \/ StopEnds
  PROVE  ProcessInv'
<1> USE DEF ProcessInv, EntryOK, OnlyNewest
<1>1. UNCHANGED <<spawned, os>>
  BY DEF IdleTimeout, Drain, Close, StopEnds, process
<1>2. ~Running => \A p \in 1..spawned : os[p] = "handled"
  BY DEF Running, Current
<1>3. sup' \in ACTIVE \cup Down
  BY DEF IdleTimeout, Drain, Close, StopEnds, beginStop, ACTIVE, Down
<1>4. sup' \in Down => sup \in Down \/ ~Running
  <2>1. CASE IdleTimeout
    BY <2>1 DEF IdleTimeout, beginStop, Down
  <2>2. CASE Drain
    BY <2>2 DEF Drain, beginStop, Down
  <2>3. CASE Close
    BY <2>3 DEF Close, beginStop, Down, ACTIVE
  <2>4. CASE StopEnds
    BY <2>4 DEF StopEnds
  <2> QED BY <2>1, <2>2, <2>3, <2>4
<1> QED BY <1>1, <1>2, <1>3, <1>4

\* Everything else leaves the processes and the entry alone, but for a prompt
\* that is written to an idle one.
LEMMA OthersSafe ==
  ASSUME ProcessInv, UNCHANGED process,
         UNCHANGED sup \/ MarkDispatchStart
  PROVE  ProcessInv'
<1> USE DEF ProcessInv, EntryOK, OnlyNewest
<1>1. sup' = sup \/ sup' = "running"
  BY DEF MarkDispatchStart
<1> QED BY <1>1 DEF process, ACTIVE, Answering, Down

\* One case per action of the supervisor, the client and the process.
LEMMA ProcessStep == ProcessInv /\ [NextProcess]_processVars => ProcessInv'
<1> SUFFICES ASSUME ProcessInv, [NextProcess]_processVars
             PROVE  ProcessInv'
  OBVIOUS
<1>1. CASE StartForRequest \/ TickRestarts \/ ManualRetry
  BY <1>1, StartSafe
<1>2. CASE \E r \in Request : SendRequest(r) \/ TimesOut(r)
  BY <1>2, OthersSafe DEF SendRequest, TimesOut, entry
<1>3. CASE PiReplies \/ PiBegins \/ PiSettles \/ Tick
  BY <1>3, OthersSafe DEF PiReplies, PiBegins, PiSettles, Tick, entry
<1>4. CASE \E x \in {"dialog", "compaction_start", "bad"} : PiNotifies(x)
  BY <1>4, OthersSafe DEF PiNotifies, entry
<1>5. CASE PumpStdout
  BY <1>5, PumpSafe
<1>6. CASE MarkDispatchStart
  BY <1>6, OthersSafe DEF MarkDispatchStart
<1>7. CASE Exit
  BY <1>7, ExitSafe
<1>8. CASE HandleExit
  BY <1>8, HandleExitSafe
<1>9. CASE IdleTimeout \/ Drain \/ Close \/ StopEnds
  BY <1>9, StopSafe
<1>10. CASE UNCHANGED processVars
  BY <1>10, OthersSafe DEF processVars, entry
<1> QED BY <1>1, <1>2, <1>3, <1>4, <1>5, <1>6, <1>7, <1>8, <1>9, <1>10 DEF NextProcess

\* There are never two Pi processes of one session, and an entry that is down
\* has left none behind (process-supervisor.ts stop and exit handling,
\* rpc-process.ts handleExit), however starts, exits, stops and drains race.
THEOREM OneProcess == ProcessSpec => []NoOrphan
<1>1. ProcessInv => NoOrphan
  BY DEF ProcessInv, OnlyNewest, NoOrphan
<1> QED BY <1>1, ProcessInit, ProcessStep, PTL DEF ProcessSpec
-----------------------------------------------------------------------------
(* Type correctness.                                                       *)

\* The entry and the processes keep their types with the invariant above; what
\* is left are the flags, and the pipes with the counters.
FlagsOK ==
  /\ draining \in BOOLEAN /\ closing \in BOOLEAN
  /\ expected \in BOOLEAN /\ deaf \in BOOLEAN /\ working \in BOOLEAN

PipesOK ==
  /\ pending \subseteq Request
  /\ stdin \in Seq(Request)
  /\ stdout \in Seq(Record)
  /\ clock \in Nat /\ records \in Nat

\* Every action keeps the flags.
LEMMA FlagsStep == FlagsOK /\ [NextProcess]_processVars => FlagsOK'
<1> SUFFICES ASSUME FlagsOK, [NextProcess]_processVars
             PROVE  FlagsOK'
  OBVIOUS
<1> USE DEF FlagsOK
<1>1. CASE StartForRequest \/ TickRestarts \/ ManualRetry
  <2>1. spawn \/ spawnFails
    BY <1>1 DEF StartForRequest, TickRestarts, ManualRetry
  <2> QED BY <2>1, Zenon DEF spawn, spawnFails, process, pipes
<1>2. ASSUME NEW r \in Request, SendRequest(r) \/ TimesOut(r)
      PROVE  FlagsOK'
  BY <1>2, Zenon DEF SendRequest, TimesOut, entry, process
<1>3. CASE PiReplies \/ PiBegins \/ PiSettles
  BY <1>3, Zenon DEF PiReplies, PiBegins, PiSettles, entry, process
<1>4. ASSUME NEW x \in {"dialog", "compaction_start", "bad"}, PiNotifies(x)
      PROVE  FlagsOK'
  BY <1>4, Zenon DEF PiNotifies, entry, process
<1>5. CASE PumpStdout
  <2>1. expected' \in BOOLEAN
    BY <1>5, Zenon DEF PumpStdout, dispatchRecord
  <2>2. deaf' \in BOOLEAN
    BY <1>5, Zenon DEF PumpStdout
  <2>3. UNCHANGED <<draining, closing, working>>
    BY <1>5, Zenon DEF PumpStdout
  <2> QED BY <2>1, <2>2, <2>3, Zenon
<1>6. CASE MarkDispatchStart
  BY <1>6, Zenon DEF MarkDispatchStart, process
<1>7. CASE Exit \/ HandleExit
  BY <1>7, Zenon DEF Exit, HandleExit, entry
<1>8. CASE IdleTimeout \/ StopEnds
  BY <1>8, Zenon DEF IdleTimeout, StopEnds, beginStop, process, pipes
<1>9. CASE Drain
  BY <1>9, Zenon DEF Drain, beginStop, pipes
<1>10. CASE Close
  BY <1>10, Zenon DEF Close, beginStop, pipes
<1>11. CASE Tick
  BY <1>11, Zenon DEF Tick, entry, process, pipes
<1>12. CASE UNCHANGED processVars
  BY <1>12, Zenon DEF processVars, entry, process, pipes
<1> QED BY <1>1, <1>2, <1>3, <1>4, <1>5, <1>6, <1>7, <1>8, <1>9, <1>10, <1>11, <1>12, Zenon DEF NextProcess

\* What Pi writes is a record.
LEMMA WritesType ==
  ASSUME PipesOK, NEW x \in Record, Writes(x)
  PROVE  stdout' \in Seq(Record) /\ records' \in Nat
BY DEF PipesOK, Writes

\* Taking one element from a pipe leaves a pipe.
LEMMA TakeType ==
  ASSUME PipesOK
  PROVE  /\ stdin # <<>> => Head(stdin) \in Request /\ Tail(stdin) \in Seq(Request)
         /\ stdout # <<>> => Tail(stdout) \in Seq(Record)
BY DEF PipesOK

\* Every action keeps the pipes.
LEMMA PipesStep == PipesOK /\ [NextProcess]_processVars => PipesOK'
<1> SUFFICES ASSUME PipesOK, [NextProcess]_processVars
             PROVE  PipesOK'
  OBVIOUS
<1>1. CASE StartForRequest \/ TickRestarts \/ ManualRetry
  <2>1. spawn \/ spawnFails
    BY <1>1 DEF StartForRequest, TickRestarts, ManualRetry
  <2>2. CASE spawn
    BY <2>2 DEF spawn, PipesOK
  <2>3. CASE spawnFails
    BY <2>3 DEF spawnFails, pipes, PipesOK
  <2> QED BY <2>1, <2>2, <2>3
<1>2. ASSUME NEW r \in Request, SendRequest(r) \/ TimesOut(r)
      PROVE  PipesOK'
  <2>1. CASE SendRequest(r)
    <3>1. stdin' \in Seq(Request)
      BY <2>1 DEF SendRequest, PipesOK
    <3> QED BY <2>1, <3>1 DEF SendRequest, PipesOK
  <2>2. CASE TimesOut(r)
    BY <2>2 DEF TimesOut, PipesOK
  <2> QED BY <1>2, <2>1, <2>2
<1>3. CASE PiReplies
  <2>1. stdout' \in Seq(Record) /\ records' \in Nat
    BY <1>3, TakeType, WritesType DEF PiReplies, Record
  <2> QED BY <1>3, <2>1, TakeType DEF PiReplies, PipesOK
<1>4. CASE PiBegins
  <2>1. stdout' \in Seq(Record) /\ records' \in Nat
    BY <1>4, WritesType DEF PiBegins, Record
  <2> QED BY <1>4, <2>1 DEF PiBegins, PipesOK
<1>5. CASE PiSettles
  <2>1. "agent_settled" \in Record
    BY DEF Record
  <2>2. stdout' \in Seq(Record)
    BY <1>5, <2>1 DEF PiSettles, PipesOK
  <2> QED BY <1>5, <2>2 DEF PiSettles, PipesOK
<1>6. ASSUME NEW x \in {"dialog", "compaction_start", "bad"}, PiNotifies(x)
      PROVE  PipesOK'
  <2>1. stdout' \in Seq(Record) /\ records' \in Nat
    BY <1>6, WritesType DEF PiNotifies, Record
  <2> QED BY <1>6, <2>1 DEF PiNotifies, PipesOK
<1>7. CASE PumpStdout
  <2>1. pending' \subseteq Request
    BY <1>7 DEF PumpStdout, dispatchRecord, PipesOK
  <2>2. stdout' \in Seq(Record)
    BY <1>7, TakeType DEF PumpStdout
  <2> QED BY <1>7, <2>1, <2>2 DEF PumpStdout, PipesOK
<1>8. CASE MarkDispatchStart \/ Exit \/ HandleExit
  <2>1. UNCHANGED <<stdin, stdout, clock, records>> /\ pending' \subseteq pending
    BY <1>8 DEF MarkDispatchStart, Exit, HandleExit
  <2> QED BY <2>1 DEF PipesOK
<1>9. CASE IdleTimeout \/ Drain \/ Close \/ StopEnds
  <2>1. UNCHANGED <<pipes, clock, records>>
    BY <1>9 DEF IdleTimeout, Drain, Close, StopEnds
  <2> QED BY <2>1 DEF pipes, PipesOK
<1>10. CASE Tick
  BY <1>10 DEF Tick, pipes, PipesOK
<1>11. CASE UNCHANGED processVars
  BY <1>11 DEF processVars, pipes, PipesOK
<1> QED BY <1>1, <1>2, <1>3, <1>4, <1>5, <1>6, <1>7, <1>8, <1>9, <1>10, <1>11 DEF NextProcess

\* Every variable of the supervised process keeps its type.
THEOREM TypeCorrect == ProcessSpec => []TypeOK
<1>1. InitProcess => FlagsOK
  BY Zenon DEF InitProcess, FlagsOK
<1>2. InitProcess => PipesOK
  BY DEF InitProcess, PipesOK
<1>3. ProcessInv /\ PipesOK /\ FlagsOK => TypeOK
  <2> SUFFICES ASSUME ProcessInv, PipesOK, FlagsOK
               PROVE  TypeOK
    OBVIOUS
  <2>1. os \in [1..spawned -> {"alive", "dead", "handled"}]
    BY DEF ProcessInv, EntryOK
  <2> QED BY <2>1, Zenon DEF ProcessInv, EntryOK, PipesOK, FlagsOK, TypeOK
<1> QED BY <1>1, <1>2, <1>3, ProcessInit, ProcessStep, FlagsStep, PipesStep, PTL DEF ProcessSpec

-----------------------------------------------------------------------------
(* SessionDirectory: the phone knows the sessions, and purged is final.    *)

Life == {"none", "active", "soft_deleted", "delete_failed", "purged"}

\* Types of what the argument speaks of.
DirectoryOK ==
  /\ life \in [Session -> Life]
  /\ run = [s \in Session |-> run[s]] /\ phone = [s \in Session |-> phone[s]]
  /\ op = [s \in Session |-> op[s]]
  /\ slot \in [Session -> {"absent", "idle", "stopped"}]
  /\ proc = [s \in Session |-> proc[s]]
  /\ queue \subseteq Session /\ published \in BOOLEAN /\ bound \subseteq Session

\* Nobody has heard of a session without a row, or whose first row is all that
\* its creation has written: no command, slot, process or notification is its.
Unheard(s) ==
  /\ phone[s] = "none" /\ op[s] = Free
  /\ slot[s] # "idle" /\ proc[s] = "stopped"
  /\ s \notin bound /\ lastUsed # s
Unborn == \A s \in Session : life[s] = "none" \/ run[s] = "starting" => Unheard(s)

\* Only the creation under way has such a row, and a queued one has none.
Creations ==
  /\ \A s \in Session : s \in queue => life[s] = "none" /\ run[s] # "starting"
  /\ \A s \in Session : creating = s => life[s] # "none"
  /\ \A s \in Session : run[s] = "starting" => creating = s /\ life[s] = "active" /\ ~published
  /\ creating = NoSession => ~published

\* The handlers that write back the row they read before they waited.
WritesBack(s) == op[s] # Free /\ op[s].at = "awaiting" /\ op[s].kind \in {"activate", "rename"}

\* What such a handler keeps: a row that there was, that said purged if the row
\* says so now, and of a session the supervisor knew when it was purged.
PriorsHold ==
  \A s \in Session :
    WritesBack(s) =>
      /\ op[s].prior.life \in Life \ {"none"}
      /\ life[s] = "purged" => op[s].prior.life = "purged"
      /\ op[s].prior.life = "purged" => slot[s] # "absent"
      /\ op[s].kind = "rename" => op[s].prior.run # "starting"

\* A purged session had a slot entry, and keeps it.
PurgedHasSlot == \A s \in Session : life[s] = "purged" => slot[s] # "absent"

DirectoryInv ==
  DirectoryOK /\ Unborn /\ Creations /\ PriorsHold /\ PurgedHasSlot /\ PhoneKnowsDirectory

\* Clients hand commands to the lanes.
LEMMA SubmitsKeep ==
  ASSUME DirectoryInv, NEW s \in Session, NEW k \in Kind,
         SubmitCreate(s) \/ Submit(s, k) \/ Refuse(s, k) \/ PurgeWindowElapses(s)
  PROVE  DirectoryInv'
<1> USE DirectoryAssumption DEF DirectoryInv, durable, slots, adapter, Free
<1>1. CASE SubmitCreate(s)
  BY <1>1 DEF SubmitCreate, DirectoryOK, Life, Unborn, Unheard, Creations, PriorsHold,
               WritesBack, PurgedHasSlot, PhoneKnowsDirectory, Provisional
<1>2. CASE Submit(s, k)
  BY <1>2 DEF Submit, LaneIsFree, DirectoryOK, Life, Unborn, Unheard, Creations, PriorsHold,
               WritesBack, PurgedHasSlot, PhoneKnowsDirectory, Provisional
<1>3. CASE Refuse(s, k)
  BY <1>3 DEF Refuse, Done, Starts, DirectoryOK, Life, Unborn, Unheard, Creations, PriorsHold,
               WritesBack, PurgedHasSlot, PhoneKnowsDirectory, Provisional
<1>4. CASE PurgeWindowElapses(s)
  BY <1>4 DEF PurgeWindowElapses, lanes, DirectoryOK, Life, Unborn, Unheard, Creations,
               PriorsHold, WritesBack, PurgedHasSlot, PhoneKnowsDirectory, Provisional
<1> QED BY <1>1, <1>2, <1>3, <1>4

\* session.create, from the first row to the refreshed summary.
LEMMA CreatesKeep ==
  ASSUME DirectoryInv, NEW s \in Session, NEW v \in Session \cup {NoSession},
         WriteRow(s) \/ RefuseCreate(s) \/ FillSlot(s, v) \/ FinishCreate(s) \/ CreateFails(s)
         \/ RefreshCreated(s)
  PROVE  DirectoryInv'
<1> USE DirectoryAssumption DEF DirectoryInv, durable, slots, adapter, Free
<1>1. CASE WriteRow(s)
  BY <1>1 DEF WriteRow, DirectoryOK, Life, Unborn, Unheard, Creations, PriorsHold, WritesBack,
               PurgedHasSlot, PhoneKnowsDirectory, Provisional
<1>2. CASE RefuseCreate(s)
  BY <1>2 DEF RefuseCreate, Provisional, DirectoryOK, Life, Unborn, Unheard, Creations,
               PriorsHold, WritesBack, PurgedHasSlot, PhoneKnowsDirectory
<1>3. CASE FillSlot(s, v)
  <2> USE <1>3 DEF FillSlot, publishSummaryChange, evict, Victim, Occupied, Provisional, lanes
  <2>1. DirectoryOK'
    BY DEF DirectoryOK, Life, Unborn, Unheard, PriorsHold, WritesBack
  <2>2. Unborn'
    BY DEF DirectoryOK, Unborn, Unheard, Creations, PriorsHold, WritesBack
  <2>3. Creations'
    BY DEF DirectoryOK, Unborn, Unheard, Creations, PriorsHold, WritesBack
  <2>4. PriorsHold'
    BY DEF DirectoryOK, Unborn, Unheard, PriorsHold, WritesBack, PurgedHasSlot, Life
  <2>5. PurgedHasSlot'
    BY DEF DirectoryOK, PriorsHold, WritesBack, PurgedHasSlot
  <2>6. PhoneKnowsDirectory'
    BY DEF DirectoryOK, Unborn, Unheard, Creations, PhoneKnowsDirectory, Provisional,
           PriorsHold, WritesBack
  <2> QED BY <2>1, <2>2, <2>3, <2>4, <2>5, <2>6
<1>4. CASE FinishCreate(s)
  <2> USE <1>4 DEF FinishCreate, Provisional, appendSessionSummary
  <2>1. DirectoryOK'
    BY DEF DirectoryOK, Life, Unborn, Unheard, PriorsHold, WritesBack
  <2>2. Unborn'
    BY DEF DirectoryOK, Unborn, Unheard, Creations, PriorsHold, WritesBack
  <2>3. Creations'
    BY DEF DirectoryOK, Unborn, Unheard, Creations, PriorsHold, WritesBack
  <2>4. PriorsHold'
    BY DEF DirectoryOK, Unborn, Unheard, PriorsHold, WritesBack, PurgedHasSlot, Life
  <2>5. PurgedHasSlot'
    BY DEF DirectoryOK, PriorsHold, WritesBack, PurgedHasSlot
  <2>6. PhoneKnowsDirectory'
    BY DEF DirectoryOK, Unborn, Unheard, Creations, PhoneKnowsDirectory, Provisional,
           PriorsHold, WritesBack
  <2> QED BY <2>1, <2>2, <2>3, <2>4, <2>5, <2>6
<1>5. CASE CreateFails(s)
  BY <1>5 DEF CreateFails, Provisional, DirectoryOK, Life, Unborn, Unheard, Creations,
               PriorsHold, WritesBack, PurgedHasSlot, PhoneKnowsDirectory
<1>6. CASE RefreshCreated(s)
  <2> USE <1>6 DEF RefreshCreated
  <2>1. DirectoryOK'
    BY DEF DirectoryOK, Life, Unborn, Unheard, PriorsHold, WritesBack
  <2>2. Unborn'
    BY DEF DirectoryOK, Unborn, Unheard, Creations, PriorsHold, WritesBack
  <2>3. Creations'
    BY DEF DirectoryOK, Unborn, Unheard, Creations, PriorsHold, WritesBack
  <2>4. PriorsHold'
    BY DEF DirectoryOK, Unborn, Unheard, PriorsHold, WritesBack, PurgedHasSlot, Life
  <2>5. PurgedHasSlot'
    BY DEF DirectoryOK, PriorsHold, WritesBack, PurgedHasSlot
  <2>6. PhoneKnowsDirectory'
    BY DEF DirectoryOK, Unborn, Unheard, Creations, PhoneKnowsDirectory, Provisional,
           PriorsHold, WritesBack
  <2> QED BY <2>1, <2>2, <2>3, <2>4, <2>5, <2>6
<1> QED BY <1>1, <1>2, <1>3, <1>4, <1>5, <1>6

\* Handlers that begin to wait for Pi, and the process they wait for.
LEMMA AsksKeep ==
  ASSUME DirectoryInv, NEW s \in Session, NEW k \in Kind,
         AskPi(s, k) \/ Restore(s) \/ AbortTurn(s) \/ ClientStarts(s) \/ AwaitFails(s)
  PROVE  DirectoryInv'
<1> USE DirectoryAssumption DEF DirectoryInv, durable, slots, adapter, Free
<1>1. CASE AskPi(s, k)
  <2> USE <1>1 DEF AskPi, Await, Starts, Accepts, Settled, KeepsPrior, PriorOf
  <2>1. DirectoryOK'
    BY DEF DirectoryOK, Life, Unborn, Unheard, PriorsHold, WritesBack
  <2>2. Unborn'
    BY DEF DirectoryOK, Unborn, Unheard, Creations, PriorsHold, WritesBack
  <2>3. Creations'
    BY DEF DirectoryOK, Unborn, Unheard, Creations, PriorsHold, WritesBack
  <2>4. PriorsHold'
    BY DEF DirectoryOK, Unborn, Unheard, PriorsHold, WritesBack, PurgedHasSlot, Life
  <2>5. PurgedHasSlot'
    BY DEF DirectoryOK, PriorsHold, WritesBack, PurgedHasSlot
  <2>6. PhoneKnowsDirectory'
    BY DEF DirectoryOK, Unborn, Unheard, Creations, PhoneKnowsDirectory, Provisional,
           PriorsHold, WritesBack
  <2> QED BY <2>1, <2>2, <2>3, <2>4, <2>5, <2>6
<1>2. CASE Restore(s)
  <2> USE <1>2 DEF Restore, Accepts, Starts, Await, appendSessionSummary
  <2>1. DirectoryOK'
    BY DEF DirectoryOK, Life, Unborn, Unheard, PriorsHold, WritesBack
  <2>2. Unborn'
    BY DEF DirectoryOK, Unborn, Unheard, Creations, PriorsHold, WritesBack
  <2>3. Creations'
    BY DEF DirectoryOK, Unborn, Unheard, Creations, PriorsHold, WritesBack
  <2>4. PriorsHold'
    BY DEF DirectoryOK, Unborn, Unheard, PriorsHold, WritesBack, PurgedHasSlot, Life
  <2>5. PurgedHasSlot'
    BY DEF DirectoryOK, PriorsHold, WritesBack, PurgedHasSlot
  <2>6. PhoneKnowsDirectory'
    BY DEF DirectoryOK, Unborn, Unheard, Creations, PhoneKnowsDirectory, Provisional,
           PriorsHold, WritesBack
  <2> QED BY <2>1, <2>2, <2>3, <2>4, <2>5, <2>6
<1>3. CASE AbortTurn(s)
  <2> USE <1>3 DEF AbortTurn, Starts, Await
  <2>1. DirectoryOK'
    BY DEF DirectoryOK, Life, Unborn, Unheard, PriorsHold, WritesBack
  <2>2. Unborn'
    BY DEF DirectoryOK, Unborn, Unheard, Creations, PriorsHold, WritesBack
  <2>3. Creations'
    BY DEF DirectoryOK, Unborn, Unheard, Creations, PriorsHold, WritesBack
  <2>4. PriorsHold'
    BY DEF DirectoryOK, Unborn, Unheard, PriorsHold, WritesBack, PurgedHasSlot, Life
  <2>5. PurgedHasSlot'
    BY DEF DirectoryOK, PriorsHold, WritesBack, PurgedHasSlot
  <2>6. PhoneKnowsDirectory'
    BY DEF DirectoryOK, Unborn, Unheard, Creations, PhoneKnowsDirectory, Provisional,
           PriorsHold, WritesBack
  <2> QED BY <2>1, <2>2, <2>3, <2>4, <2>5, <2>6
<1>4. CASE ClientStarts(s)
  <2> USE <1>4 DEF ClientStarts, lanes
  <2>1. DirectoryOK'
    BY DEF DirectoryOK, Life, Unborn, Unheard, PriorsHold, WritesBack
  <2>2. Unborn'
    BY DEF DirectoryOK, Unborn, Unheard, Creations, PriorsHold, WritesBack
  <2>3. Creations'
    BY DEF DirectoryOK, Unborn, Unheard, Creations, PriorsHold, WritesBack
  <2>4. PriorsHold'
    BY DEF DirectoryOK, Unborn, Unheard, PriorsHold, WritesBack, PurgedHasSlot, Life
  <2>5. PurgedHasSlot'
    BY DEF DirectoryOK, PriorsHold, WritesBack, PurgedHasSlot
  <2>6. PhoneKnowsDirectory'
    BY DEF DirectoryOK, Unborn, Unheard, Creations, PhoneKnowsDirectory, Provisional,
           PriorsHold, WritesBack
  <2> QED BY <2>1, <2>2, <2>3, <2>4, <2>5, <2>6
<1>5. CASE AwaitFails(s)
  <2> USE <1>5 DEF AwaitFails, Done
  <2>1. DirectoryOK'
    BY DEF DirectoryOK, Life, Unborn, Unheard, PriorsHold, WritesBack
  <2>2. Unborn'
    BY DEF DirectoryOK, Unborn, Unheard, Creations, PriorsHold, WritesBack
  <2>3. Creations'
    BY DEF DirectoryOK, Unborn, Unheard, Creations, PriorsHold, WritesBack
  <2>4. PriorsHold'
    BY DEF DirectoryOK, Unborn, Unheard, PriorsHold, WritesBack, PurgedHasSlot, Life
  <2>5. PurgedHasSlot'
    BY DEF DirectoryOK, PriorsHold, WritesBack, PurgedHasSlot
  <2>6. PhoneKnowsDirectory'
    BY DEF DirectoryOK, Unborn, Unheard, Creations, PhoneKnowsDirectory, Provisional,
           PriorsHold, WritesBack
  <2> QED BY <2>1, <2>2, <2>3, <2>4, <2>5, <2>6
<1> QED BY <1>1, <1>2, <1>3, <1>4, <1>5

\* Handlers that go on with Pi's answer.
LEMMA AnswersKeep ==
  ASSUME DirectoryInv, NEW s \in Session, NEW k \in Kind, NEW c \in Session,
         FinishActivate(s) \/ RefreshActivated(s) \/ FinishRename(s) \/ FinishBranch(s, c) \/
         FinishExport(s) \/ FinishPrompt(s) \/ FinishControl(s, k)
  PROVE  DirectoryInv'
<1> USE DirectoryAssumption DEF DirectoryInv, durable, slots, adapter, Free
<1>1. CASE FinishActivate(s)
  <2> USE <1>1 DEF FinishActivate, Answers, Resumes, appendSessionSummary
  <2>1. DirectoryOK'
    BY DEF DirectoryOK, Life, Unborn, Unheard, PriorsHold, WritesBack
  <2>2. Unborn'
    BY DEF DirectoryOK, Unborn, Unheard, Creations, PriorsHold, WritesBack
  <2>3. Creations'
    BY DEF DirectoryOK, Unborn, Unheard, Creations, PriorsHold, WritesBack
  <2>4. PriorsHold'
    BY DEF DirectoryOK, Unborn, Unheard, PriorsHold, WritesBack, PurgedHasSlot, Life
  <2>5. PurgedHasSlot'
    BY DEF DirectoryOK, PriorsHold, WritesBack, PurgedHasSlot
  <2>6. PhoneKnowsDirectory'
    BY DEF DirectoryOK, Unborn, Unheard, Creations, PhoneKnowsDirectory, Provisional,
           PriorsHold, WritesBack
  <2> QED BY <2>1, <2>2, <2>3, <2>4, <2>5, <2>6
<1>2. CASE RefreshActivated(s)
  <2> USE <1>2 DEF RefreshActivated, Done
  <2>1. DirectoryOK'
    BY DEF DirectoryOK, Life, Unborn, Unheard, PriorsHold, WritesBack
  <2>2. Unborn'
    BY DEF DirectoryOK, Unborn, Unheard, Creations, PriorsHold, WritesBack
  <2>3. Creations'
    BY DEF DirectoryOK, Unborn, Unheard, Creations, PriorsHold, WritesBack
  <2>4. PriorsHold'
    BY DEF DirectoryOK, Unborn, Unheard, PriorsHold, WritesBack, PurgedHasSlot, Life
  <2>5. PurgedHasSlot'
    BY DEF DirectoryOK, PriorsHold, WritesBack, PurgedHasSlot
  <2>6. PhoneKnowsDirectory'
    BY DEF DirectoryOK, Unborn, Unheard, Creations, PhoneKnowsDirectory, Provisional,
           PriorsHold, WritesBack
  <2> QED BY <2>1, <2>2, <2>3, <2>4, <2>5, <2>6
<1>3. CASE FinishRename(s)
  <2> USE <1>3 DEF FinishRename, Answers, Resumes, appendSessionSummary, Done
  <2>1. DirectoryOK'
    BY DEF DirectoryOK, Life, Unborn, Unheard, PriorsHold, WritesBack
  <2>2. Unborn'
    BY DEF DirectoryOK, Unborn, Unheard, Creations, PriorsHold, WritesBack
  <2>3. Creations'
    BY DEF DirectoryOK, Unborn, Unheard, Creations, PriorsHold, WritesBack
  <2>4. PriorsHold'
    BY DEF DirectoryOK, Unborn, Unheard, PriorsHold, WritesBack, PurgedHasSlot, Life
  <2>5. PurgedHasSlot'
    BY DEF DirectoryOK, PriorsHold, WritesBack, PurgedHasSlot
  <2>6. PhoneKnowsDirectory'
    BY DEF DirectoryOK, Unborn, Unheard, Creations, PhoneKnowsDirectory, Provisional,
           PriorsHold, WritesBack
  <2> QED BY <2>1, <2>2, <2>3, <2>4, <2>5, <2>6
<1>4. CASE FinishBranch(s, c)
  <2> USE <1>4 DEF FinishBranch, addSessionSummary, Answers, Resumes, Done
  <2>1. DirectoryOK'
    BY DEF DirectoryOK, Life, Unborn, Unheard, PriorsHold, WritesBack
  <2>2. Unborn'
    BY DEF DirectoryOK, Unborn, Unheard, Creations, PriorsHold, WritesBack
  <2>3. Creations'
    BY DEF DirectoryOK, Unborn, Unheard, Creations, PriorsHold, WritesBack
  <2>4. PriorsHold'
    BY DEF DirectoryOK, Unborn, Unheard, PriorsHold, WritesBack, PurgedHasSlot, Life
  <2>5. PurgedHasSlot'
    BY DEF DirectoryOK, PriorsHold, WritesBack, PurgedHasSlot
  <2>6. PhoneKnowsDirectory'
    BY DEF DirectoryOK, Unborn, Unheard, Creations, PhoneKnowsDirectory, Provisional,
           PriorsHold, WritesBack
  <2> QED BY <2>1, <2>2, <2>3, <2>4, <2>5, <2>6
<1>5. CASE FinishExport(s)
  <2> USE <1>5 DEF FinishExport, Answers, Resumes, changeSessionSummary, Done
  <2>1. DirectoryOK'
    BY DEF DirectoryOK, Life, Unborn, Unheard, PriorsHold, WritesBack
  <2>2. Unborn'
    BY DEF DirectoryOK, Unborn, Unheard, Creations, PriorsHold, WritesBack
  <2>3. Creations'
    BY DEF DirectoryOK, Unborn, Unheard, Creations, PriorsHold, WritesBack
  <2>4. PriorsHold'
    BY DEF DirectoryOK, Unborn, Unheard, PriorsHold, WritesBack, PurgedHasSlot, Life
  <2>5. PurgedHasSlot'
    BY DEF DirectoryOK, PriorsHold, WritesBack, PurgedHasSlot
  <2>6. PhoneKnowsDirectory'
    BY DEF DirectoryOK, Unborn, Unheard, Creations, PhoneKnowsDirectory, Provisional,
           PriorsHold, WritesBack
  <2> QED BY <2>1, <2>2, <2>3, <2>4, <2>5, <2>6
<1>6. CASE FinishPrompt(s)
  <2> USE <1>6 DEF FinishPrompt, Answers, Resumes, Done
  <2>1. DirectoryOK'
    BY DEF DirectoryOK, Life, Unborn, Unheard, PriorsHold, WritesBack
  <2>2. Unborn'
    BY DEF DirectoryOK, Unborn, Unheard, Creations, PriorsHold, WritesBack
  <2>3. Creations'
    BY DEF DirectoryOK, Unborn, Unheard, Creations, PriorsHold, WritesBack
  <2>4. PriorsHold'
    BY DEF DirectoryOK, Unborn, Unheard, PriorsHold, WritesBack, PurgedHasSlot, Life
  <2>5. PurgedHasSlot'
    BY DEF DirectoryOK, PriorsHold, WritesBack, PurgedHasSlot
  <2>6. PhoneKnowsDirectory'
    BY DEF DirectoryOK, Unborn, Unheard, Creations, PhoneKnowsDirectory, Provisional,
           PriorsHold, WritesBack
  <2> QED BY <2>1, <2>2, <2>3, <2>4, <2>5, <2>6
<1>7. CASE FinishControl(s, k)
  BY <1>7 DEF FinishControl, Answers, Resumes, Done, DirectoryOK, Life, Unborn, Unheard,
               Creations, PriorsHold, WritesBack, PurgedHasSlot, PhoneKnowsDirectory,
               Provisional
<1> QED BY <1>1, <1>2, <1>3, <1>4, <1>5, <1>6, <1>7

\* Stop, delete and purge.
LEMMA EndsKeep ==
  ASSUME DirectoryInv, NEW s \in Session, NEW k \in Kind,
         Stop(s) \/ Delete(s, k) \/ DeleteAgain(s, k) \/ FinishDelete(s) \/ Purge(s)
  PROVE  DirectoryInv'
<1> USE DirectoryAssumption DEF DirectoryInv, durable, slots, adapter, Free
<1>1. CASE Stop(s)
  <2> USE <1>1 DEF Stop, emptySlot, Done, Starts, appendSessionSummary
  <2>1. DirectoryOK'
    BY DEF DirectoryOK, Life, Unborn, Unheard, PriorsHold, WritesBack
  <2>2. Unborn'
    BY DEF DirectoryOK, Unborn, Unheard, Creations, PriorsHold, WritesBack
  <2>3. Creations'
    BY DEF DirectoryOK, Unborn, Unheard, Creations, PriorsHold, WritesBack
  <2>4. PriorsHold'
    BY DEF DirectoryOK, Unborn, Unheard, PriorsHold, WritesBack, PurgedHasSlot, Life
  <2>5. PurgedHasSlot'
    BY DEF DirectoryOK, PriorsHold, WritesBack, PurgedHasSlot
  <2>6. PhoneKnowsDirectory'
    BY DEF DirectoryOK, Unborn, Unheard, Creations, PhoneKnowsDirectory, Provisional,
           PriorsHold, WritesBack
  <2> QED BY <2>1, <2>2, <2>3, <2>4, <2>5, <2>6
<1>2. CASE Delete(s, k)
  BY <1>2 DEF Delete, softDelete, emptySlot, Done, Starts, DirectoryOK, Life, Unborn, Unheard,
               Creations, PriorsHold, WritesBack, PurgedHasSlot, PhoneKnowsDirectory,
               Provisional
<1>3. CASE DeleteAgain(s, k)
  BY <1>3 DEF DeleteAgain, Done, Starts, DirectoryOK, Life, Unborn, Unheard, Creations,
               PriorsHold, WritesBack, PurgedHasSlot, PhoneKnowsDirectory, Provisional
<1>4. CASE FinishDelete(s)
  BY <1>4 DEF FinishDelete, softDelete, emptySlot, Done, Answers, Resumes, DirectoryOK, Life,
               Unborn, Unheard, Creations, PriorsHold, WritesBack, PurgedHasSlot,
               PhoneKnowsDirectory, Provisional
<1>5. CASE Purge(s)
  BY <1>5 DEF Purge, purgeSessionTombstone, markSessionDeleteFailed, emptySlot, Done, Starts,
               DirectoryOK, Life, Unborn, Unheard, Creations, PriorsHold, WritesBack,
               PurgedHasSlot, PhoneKnowsDirectory, Provisional
<1> QED BY <1>1, <1>2, <1>3, <1>4, <1>5

\* What Pi does, and the notifications of it.
LEMMA NoticesKeep ==
  ASSUME DirectoryInv, NEW s \in Session, NEW tagged \in BOOLEAN, NEW t \in Session,
         FollowUpStarts(s) \/ Settles(s, tagged, t) \/ Exits(s) \/ RetryStarts(s)
  PROVE  DirectoryInv'
<1> USE DirectoryAssumption DEF DirectoryInv, durable, slots, adapter, Free
<1>1. CASE FollowUpStarts(s)
  <2> USE <1>1 DEF FollowUpStarts, lanes
  <2>1. DirectoryOK'
    BY DEF DirectoryOK, Life, Unborn, Unheard, PriorsHold, WritesBack
  <2>2. Unborn'
    BY DEF DirectoryOK, Unborn, Unheard, Creations, PriorsHold, WritesBack
  <2>3. Creations'
    BY DEF DirectoryOK, Unborn, Unheard, Creations, PriorsHold, WritesBack
  <2>4. PriorsHold'
    BY DEF DirectoryOK, Unborn, Unheard, PriorsHold, WritesBack, PurgedHasSlot, Life
  <2>5. PurgedHasSlot'
    BY DEF DirectoryOK, PriorsHold, WritesBack, PurgedHasSlot
  <2>6. PhoneKnowsDirectory'
    BY DEF DirectoryOK, Unborn, Unheard, Creations, PhoneKnowsDirectory, Provisional,
           PriorsHold, WritesBack
  <2> QED BY <2>1, <2>2, <2>3, <2>4, <2>5, <2>6
<1>2. CASE Settles(s, tagged, t)
  <2> USE <1>2 DEF Settles, resolveNotificationSessionId, lanes
  <2>1. DirectoryOK'
    BY DEF DirectoryOK, Life, Unborn, Unheard, PriorsHold, WritesBack
  <2>2. Unborn'
    BY DEF DirectoryOK, Unborn, Unheard, Creations, PriorsHold, WritesBack
  <2>3. Creations'
    BY DEF DirectoryOK, Unborn, Unheard, Creations, PriorsHold, WritesBack
  <2>4. PriorsHold'
    BY DEF DirectoryOK, Unborn, Unheard, PriorsHold, WritesBack, PurgedHasSlot, Life
  <2>5. PurgedHasSlot'
    BY DEF DirectoryOK, PriorsHold, WritesBack, PurgedHasSlot
  <2>6. PhoneKnowsDirectory'
    BY DEF DirectoryOK, Unborn, Unheard, Creations, PhoneKnowsDirectory, Provisional,
           PriorsHold, WritesBack
  <2> QED BY <2>1, <2>2, <2>3, <2>4, <2>5, <2>6
<1>3. CASE Exits(s)
  <2> USE <1>3 DEF Exits, lanes
  <2>1. DirectoryOK'
    BY DEF DirectoryOK, Life, Unborn, Unheard, PriorsHold, WritesBack
  <2>2. Unborn'
    BY DEF DirectoryOK, Unborn, Unheard, Creations, PriorsHold, WritesBack
  <2>3. Creations'
    BY DEF DirectoryOK, Unborn, Unheard, Creations, PriorsHold, WritesBack
  <2>4. PriorsHold'
    BY DEF DirectoryOK, Unborn, Unheard, PriorsHold, WritesBack, PurgedHasSlot, Life
  <2>5. PurgedHasSlot'
    BY DEF DirectoryOK, PriorsHold, WritesBack, PurgedHasSlot
  <2>6. PhoneKnowsDirectory'
    BY DEF DirectoryOK, Unborn, Unheard, Creations, PhoneKnowsDirectory, Provisional,
           PriorsHold, WritesBack
  <2> QED BY <2>1, <2>2, <2>3, <2>4, <2>5, <2>6
<1>4. CASE RetryStarts(s)
  <2> USE <1>4 DEF RetryStarts, lanes
  <2>1. DirectoryOK'
    BY DEF DirectoryOK, Life, Unborn, Unheard, PriorsHold, WritesBack
  <2>2. Unborn'
    BY DEF DirectoryOK, Unborn, Unheard, Creations, PriorsHold, WritesBack
  <2>3. Creations'
    BY DEF DirectoryOK, Unborn, Unheard, Creations, PriorsHold, WritesBack
  <2>4. PriorsHold'
    BY DEF DirectoryOK, Unborn, Unheard, PriorsHold, WritesBack, PurgedHasSlot, Life
  <2>5. PurgedHasSlot'
    BY DEF DirectoryOK, PriorsHold, WritesBack, PurgedHasSlot
  <2>6. PhoneKnowsDirectory'
    BY DEF DirectoryOK, Unborn, Unheard, Creations, PhoneKnowsDirectory, Provisional,
           PriorsHold, WritesBack
  <2> QED BY <2>1, <2>2, <2>3, <2>4, <2>5, <2>6
<1> QED BY <1>1, <1>2, <1>3, <1>4

\* Shutdown and start-up.
LEMMA HostKeeps ==
  ASSUME DirectoryInv,
         DrainSlots \/ Restart
  PROVE  DirectoryInv'
<1> USE DirectoryAssumption DEF DirectoryInv, durable, slots, adapter, Free
<1>1. CASE DrainSlots
  BY <1>1 DEF DrainSlots, publishSummaryChange, Occupied, lanes, DirectoryOK, Life, Unborn,
               Unheard, Creations, PriorsHold, WritesBack, PurgedHasSlot, PhoneKnowsDirectory,
               Provisional
<1>2. CASE Restart
  <2> USE <1>2 DEF Restart, bootstrapSummaries, Rows
  <2>1. DirectoryOK'
    BY DEF DirectoryOK, Life, Unborn, Unheard, PriorsHold, WritesBack
  <2>2. Unborn'
    BY DEF DirectoryOK, Unborn, Unheard, Creations, PriorsHold, WritesBack
  <2>3. Creations'
    BY DEF DirectoryOK, Unborn, Unheard, Creations, PriorsHold, WritesBack
  <2>4. PriorsHold'
    BY DEF DirectoryOK, Unborn, Unheard, PriorsHold, WritesBack, PurgedHasSlot, Life
  <2>5. PurgedHasSlot'
    BY DEF DirectoryOK, PriorsHold, WritesBack, PurgedHasSlot
  <2>6. PhoneKnowsDirectory'
    BY DEF DirectoryOK, Unborn, Unheard, Creations, PhoneKnowsDirectory, Provisional,
           PriorsHold, WritesBack
  <2> QED BY <2>1, <2>2, <2>3, <2>4, <2>5, <2>6
<1> QED BY <1>1, <1>2

\* An empty directory is known to the phone.
LEMMA DirectoryInit == InitDirectory => DirectoryInv
<1> SUFFICES ASSUME InitDirectory PROVE DirectoryInv
  OBVIOUS
<1> USE DirectoryAssumption DEF InitDirectory
<1>1. DirectoryOK
  BY DEF DirectoryOK, Life
<1>2. Unborn
  BY DEF Unborn, Unheard
<1>3. Creations
  BY DEF Creations
<1>4. PriorsHold
  BY DEF PriorsHold, WritesBack
<1>5. PurgedHasSlot /\ PhoneKnowsDirectory
  BY DEF PurgedHasSlot, PhoneKnowsDirectory
<1> QED BY <1>1, <1>2, <1>3, <1>4, <1>5 DEF DirectoryInv

\* One case per command, handler and event of the directory.
LEMMA DirectoryStep == DirectoryInv /\ [NextDirectory]_directoryVars => DirectoryInv'
<1> SUFFICES ASSUME DirectoryInv, [NextDirectory]_directoryVars PROVE DirectoryInv'
  OBVIOUS
<1>1. ASSUME NEW s \in Session, SessionNext(s) PROVE DirectoryInv'
  <2>1. CASE \/ SubmitCreate(s) \/ PurgeWindowElapses(s)
             \/ \E k \in Kind : Submit(s, k) \/ Refuse(s, k)
    <3>0. "stop" \in Kind
      BY DEF Kind
    <3> QED BY <2>1, <3>0, SubmitsKeep
  <2>2. CASE \/ WriteRow(s) \/ RefuseCreate(s) \/ FinishCreate(s) \/ CreateFails(s)
             \/ RefreshCreated(s) \/ \E v \in Session \cup {NoSession} : FillSlot(s, v)
    <3>0. NoSession \in Session \cup {NoSession}
      OBVIOUS
    <3> QED BY <2>2, <3>0, CreatesKeep
  <2>3. CASE \/ Restore(s) \/ AbortTurn(s) \/ ClientStarts(s) \/ AwaitFails(s)
             \/ \E k \in Kind : AskPi(s, k)
    <3>0. "stop" \in Kind
      BY DEF Kind
    <3> QED BY <2>3, <3>0, AsksKeep
  <2>4. CASE \/ FinishActivate(s) \/ RefreshActivated(s) \/ FinishRename(s) \/ FinishExport(s)
             \/ FinishPrompt(s) \/ \E c \in Session : FinishBranch(s, c)
             \/ \E k \in Kind : FinishControl(s, k)
    <3>0. "stop" \in Kind
      BY DEF Kind
    <3> QED BY <2>4, <3>0, AnswersKeep
  <2>5. CASE Stop(s) \/ FinishDelete(s) \/ Purge(s) \/ \E k \in Kind : Delete(s, k) \/ DeleteAgain(s, k)
    <3>0. "stop" \in Kind
      BY DEF Kind
    <3> QED BY <2>5, <3>0, EndsKeep
  <2>6. CASE \/ FollowUpStarts(s) \/ Exits(s) \/ RetryStarts(s)
             \/ \E tagged \in BOOLEAN, t \in Session : Settles(s, tagged, t)
    BY <2>6, NoticesKeep
  <2> QED BY <1>1, <2>1, <2>2, <2>3, <2>4, <2>5, <2>6 DEF SessionNext
<1>2. CASE DrainSlots \/ Restart
  BY <1>2, HostKeeps
<1>3. CASE UNCHANGED directoryVars
  BY <1>3 DEF directoryVars, durable, lanes, slots, adapter, bounds, DirectoryInv, DirectoryOK,
              Unborn, Unheard, Creations, PriorsHold, WritesBack, PurgedHasSlot,
              PhoneKnowsDirectory, Provisional
<1> QED BY <1>1, <1>2, <1>3 DEF NextDirectory

\* Every session that is not deleted has been announced to the phone, and the
\* phone is told of no session without a row, for any number of sessions, slots,
\* commands and restarts, wherever a creation is refused, fails or is cut short.
THEOREM PhoneIsTold == DirectorySpec => []PhoneKnowsDirectory
<1>1. DirectoryInv => PhoneKnowsDirectory
  BY DEF DirectoryInv
<1> QED BY <1>1, DirectoryInit, DirectoryStep, PTL DEF DirectorySpec

\* What a step may do to a purged session.
StaysPurged ==
  \A s \in Session : life[s] = "purged" /\ (creating = s => published) => life'[s] = "purged"

\* No step gives a purged session another state.
LEMMA PurgedStep == DirectoryInv /\ [NextDirectory]_directoryVars => StaysPurged \/ UNCHANGED directoryVars
<1> SUFFICES ASSUME DirectoryInv, NextDirectory, NEW u \in Session,
                    life[u] = "purged", creating = u => published
             PROVE  life'[u] = "purged"
  BY DEF StaysPurged
<1>1. ASSUME NEW s \in Session, SessionNext(s), life' = life PROVE life'[u] = "purged"
  BY <1>1
<1>2. CASE \E s \in Session : WriteRow(s) \/ RefuseCreate(s) \/ FinishCreate(s)
  BY <1>2 DEF WriteRow, RefuseCreate, FinishCreate, Provisional, DirectoryInv, DirectoryOK, Creations
<1>3. CASE \E s \in Session : Restore(s) \/ FinishActivate(s) \/ FinishRename(s)
  BY <1>3 DEF Restore, Accepts, FinishActivate, FinishRename, Answers, Resumes,
              DirectoryInv, DirectoryOK, PriorsHold, WritesBack
<1>4. CASE \E s, c \in Session : FinishBranch(s, c)
  BY <1>4 DEF FinishBranch, addSessionSummary, DirectoryInv, DirectoryOK
<1>5. CASE \E s \in Session : Purge(s) \/ FinishDelete(s) \/ \E k \in Kind : Delete(s, k)
  BY <1>5 DEF Purge, purgeSessionTombstone, markSessionDeleteFailed, FinishDelete, Delete,
              softDelete, DirectoryInv, DirectoryOK, PurgedHasSlot
<1>6. CASE DrainSlots \/ Restart
  BY <1>6 DEF DrainSlots, Restart
<1>7. ASSUME NEW s \in Session, SessionNext(s)
      PROVE  \/ WriteRow(s) \/ RefuseCreate(s) \/ FinishCreate(s)
             \/ Restore(s) \/ FinishActivate(s) \/ FinishRename(s)
             \/ \E c \in Session : FinishBranch(s, c)
             \/ Purge(s) \/ FinishDelete(s) \/ \E k \in Kind : Delete(s, k)
             \/ life' = life
  BY <1>7 DEF SessionNext, SubmitCreate, CreateFails, FillSlot, Submit, Refuse, AskPi,
              DeleteAgain, FinishControl, Stop, AbortTurn, ClientStarts, AwaitFails,
              RefreshActivated, RefreshCreated, FinishExport, changeSessionSummary, FinishPrompt,
              PurgeWindowElapses, FollowUpStarts, Exits, RetryStarts, Settles, durable
<1> QED BY <1>1, <1>2, <1>3, <1>4, <1>5, <1>6, <1>7 DEF NextDirectory

\* A handler that writes back the row it read before it waited revives no session
\* that was purged meanwhile (one-session-adapter.ts, the session handlers), for
\* any number of sessions and restarts; only the creation of the purged session
\* itself does.
THEOREM PurgedStaysPurged == DirectorySpec => NoStaleRevival
<1>1. DirectoryInv /\ [NextDirectory]_directoryVars => [StaysPurged]_directoryVars
  BY PurgedStep
<1>2. [StaysPurged]_directoryVars
        => [\A s \in Session : life[s] = "purged" /\ (creating = s => published)
                                 => life'[s] = "purged"]_directoryVars
  BY DEF StaysPurged
<1> QED BY <1>1, <1>2, DirectoryInit, DirectoryStep, PTL DEF DirectorySpec, NoStaleRevival

-----------------------------------------------------------------------------
(* HistoryImport: what the session file and an import's plan look like.    *)

\* An entry's parent comes before it.
Rooted(fl) ==
  /\ fl \in Seq(ToSet(fl))
  /\ \A i \in 1 .. Len(fl) : fl[i].parent \in Nat /\ fl[i].parent < i

\* f is the function that BranchTo defines over the file fl, up to n.
Chains(f, fl, n) == f = [i \in 0 .. n |-> IF i = 0 THEN <<>> ELSE Append(f[fl[i].parent], i)]
ChainOf(fl, n) == (CHOOSE f : Chains(f, fl, n))[n]

\* The branch to an entry is its chain, before and after a step.
LEMMA BranchIsChain ==
  ASSUME NEW n
  PROVE  BranchTo(n) = ChainOf(file, n) /\ BranchTo(n)' = ChainOf(file', n)
BY DEF BranchTo, ChainOf, Chains

\* The recursion is well founded, because a parent precedes its entry.
LEMMA ChainsExist ==
  ASSUME NEW fl, Rooted(fl)
  PROVE  \A n \in 0 .. Len(fl) : \E f \in [0 .. n -> Seq(1 .. n)] : Chains(f, fl, n)
<1> DEFINE T == {n \in 0 .. Len(fl) : \E f \in [0 .. n -> Seq(1 .. n)] : Chains(f, fl, n)}
<1>0. Len(fl) \in Nat
  BY DEF Rooted
<1>1. 0 \in T
  <2>1. [i \in 0 .. 0 |-> <<>>] \in [0 .. 0 -> Seq(1 .. 0)]
    OBVIOUS
  <2>2. Chains([i \in 0 .. 0 |-> <<>>], fl, 0)
    BY DEF Chains
  <2> QED BY <1>0, <2>1, <2>2
<1>2. ASSUME NEW k \in 0 .. Len(fl), k \in T, k < Len(fl) PROVE k + 1 \in T
  <2>1. PICK f \in [0 .. k -> Seq(1 .. k)] : Chains(f, fl, k)
    BY <1>2
  <2> DEFINE p == fl[k + 1].parent
             g == [i \in 0 .. k + 1 |-> IF i = k + 1 THEN Append(f[p], i) ELSE f[i]]
  <2>2. p \in 0 .. k
    <3>1. k + 1 \in 1 .. Len(fl)
      BY <1>0, <1>2
    <3> QED BY <1>0, <3>1 DEF Rooted
  <2>3. g \in [0 .. k + 1 -> Seq(1 .. k + 1)]
    <3>1. ASSUME NEW i \in 0 .. k PROVE f[i] \in Seq(1 .. k + 1)
      <4>1. f[i] \in Seq(1 .. k)
        OBVIOUS
      <4> QED BY <4>1
    <3>2. Append(f[p], k + 1) \in Seq(1 .. k + 1)
      <4> HIDE DEF p
      <4>1. f[p] \in Seq(1 .. k + 1) /\ k + 1 \in 1 .. k + 1
        BY <1>0, <2>2, <3>1
      <4> QED BY <4>1
    <3>3. ASSUME NEW i \in 0 .. k + 1, i # k + 1 PROVE i \in 0 .. k
      BY <1>0, <3>3
    <3> HIDE DEF p
    <3> QED BY <3>1, <3>2, <3>3
  <2>4. ASSUME NEW i \in 0 .. k + 1
        PROVE  g[i] = IF i = 0 THEN <<>> ELSE Append(g[fl[i].parent], i)
    <3>1. CASE i = k + 1
      <4>1. i # 0 /\ g[i] = Append(f[p], i) /\ g[p] = f[p]
        BY <1>0, <2>2, <3>1
      <4> QED BY <3>1, <4>1
    <3>2. CASE i # k + 1
      <4>1. i \in 0 .. k /\ g[i] = f[i]
        BY <1>0, <3>2
      <4>2. f[i] = IF i = 0 THEN <<>> ELSE Append(f[fl[i].parent], i)
        BY <2>1, <4>1 DEF Chains
      <4>3. i # 0 => fl[i].parent \in 0 .. k /\ g[fl[i].parent] = f[fl[i].parent]
        <5>1. ASSUME i # 0 PROVE fl[i].parent \in 0 .. k
          <6>1. i \in 1 .. Len(fl)
            BY <1>0, <1>2, <4>1, <5>1
          <6>2. fl[i].parent \in Nat /\ fl[i].parent < i
            BY <6>1 DEF Rooted
          <6> QED BY <1>0, <4>1, <6>2
        <5>2. \A j \in 0 .. k : g[j] = f[j]
          BY <1>0
        <5> QED BY <5>1, <5>2
      <4> HIDE DEF p, g
      <4> QED BY <4>1, <4>2, <4>3, Zenon
    <3> QED BY <3>1, <3>2
  <2>5. Chains(g, fl, k + 1)
    <3> HIDE DEF g
    <3> QED BY <2>3, <2>4 DEF Chains
  <2>6. k + 1 \in 0 .. Len(fl)
    BY <1>0, <1>2
  <2> HIDE DEF g
  <2> QED BY <2>3, <2>5, <2>6
<1>3. 0 .. Len(fl) \subseteq T
  <2> HIDE DEF T
  <2> QED BY <1>0, <1>1, <1>2, UpTo
<1> QED BY <1>3

\* Files that agree up to k have the same branches up to k.
LEMMA ChainsAgree ==
  ASSUME NEW fl, Rooted(fl), NEW gl, NEW n \in Nat, NEW m \in Nat,
         NEW f, Chains(f, fl, n), NEW g, Chains(g, gl, m),
         NEW k \in Nat, k <= n, k <= m, k <= Len(fl),
         \A i \in 1 .. k : gl[i].parent = fl[i].parent
  PROVE  \A i \in 0 .. k : f[i] = g[i]
<1> DEFINE T == {j \in 0 .. k : \A i \in 0 .. j : f[i] = g[i]}
<1>1. ASSUME NEW i \in 0 .. k
      PROVE  /\ f[i] = IF i = 0 THEN <<>> ELSE Append(f[fl[i].parent], i)
             /\ g[i] = IF i = 0 THEN <<>> ELSE Append(g[gl[i].parent], i)
  <2>1. i \in 0 .. n /\ i \in 0 .. m
    OBVIOUS
  <2> QED BY <2>1 DEF Chains
<1>2. 0 \in T
  <2>1. 0 \in 0 .. k /\ \A i \in 0 .. 0 : i = 0
    OBVIOUS
  <2>2. f[0] = g[0]
    BY <1>1, <2>1
  <2> QED BY <2>1, <2>2
<1>3. ASSUME NEW j \in 0 .. k, j \in T, j < k PROVE j + 1 \in T
  <2>1. j + 1 \in 1 .. k /\ j + 1 # 0 /\ j + 1 \in 0 .. k /\ j + 1 \in 1 .. Len(fl) /\ j \in Nat
    <3>1. Len(fl) \in Nat
      BY DEF Rooted
    <3> QED BY <1>3, <3>1
  <2>2. fl[j + 1].parent \in 0 .. j /\ gl[j + 1].parent = fl[j + 1].parent
    BY <2>1 DEF Rooted
  <2>3. f[j + 1] = Append(f[fl[j + 1].parent], j + 1) /\ g[j + 1] = Append(g[gl[j + 1].parent], j + 1)
    BY <1>1, <2>1
  <2>4. f[j + 1] = g[j + 1]
    BY <1>3, <2>2, <2>3
  <2>5. \A i \in 0 .. j + 1 : i \in 0 .. j \/ i = j + 1
    BY <2>1
  <2> QED BY <1>3, <2>1, <2>4, <2>5
<1>4. 0 .. k \subseteq T
  <2> HIDE DEF T
  <2> QED BY <1>2, <1>3, UpTo
<1> QED BY <1>4

\* An entry's chain does not change when the file grows.
LEMMA ChainGrows ==
  ASSUME NEW fl, Rooted(fl), NEW gl, Rooted(gl), Len(fl) <= Len(gl),
         \A i \in 1 .. Len(fl) : gl[i].parent = fl[i].parent,
         NEW n \in 0 .. Len(fl)
  PROVE  ChainOf(gl, n) = ChainOf(fl, n)
<1> DEFINE f == CHOOSE h : Chains(h, fl, n)
           g == CHOOSE h : Chains(h, gl, n)
<1>1. Len(fl) \in Nat /\ Len(gl) \in Nat /\ n \in Nat /\ n <= Len(fl) /\ n \in 0 .. Len(gl)
  BY DEF Rooted
<1>2. Chains(f, fl, n) /\ Chains(g, gl, n)
  BY <1>1, ChainsExist
<1>3. ChainOf(fl, n) = f[n] /\ ChainOf(gl, n) = g[n]
  BY DEF ChainOf
<1> HIDE DEF f, g
<1>4. \A i \in 1 .. n : gl[i].parent = fl[i].parent
  BY <1>1
<1>5. \A i \in 0 .. n : f[i] = g[i]
  BY <1>1, <1>2, <1>4, ChainsAgree
<1>6. n \in 0 .. n
  BY <1>1
<1> QED BY <1>3, <1>5, <1>6, Zenon

\* A chain ends in its entry, after the chain of the parent.
LEMMA ChainStep ==
  ASSUME NEW fl, Rooted(fl)
  PROVE  /\ ChainOf(fl, 0) = <<>>
         /\ \A n \in 1 .. Len(fl) : ChainOf(fl, n) = Append(ChainOf(fl, fl[n].parent), n)
<1>1. Len(fl) \in Nat
  BY DEF Rooted
<1>2. PICK f : Chains(f, fl, Len(fl))
  BY <1>1, ChainsExist
<1>3. ASSUME NEW n \in 0 .. Len(fl) PROVE ChainOf(fl, n) = f[n]
  <2> DEFINE g == CHOOSE h : Chains(h, fl, n)
  <2>1. Chains(g, fl, n)
    BY ChainsExist
  <2>2. ChainOf(fl, n) = g[n]
    BY DEF ChainOf
  <2> HIDE DEF g
  <2>3. n \in Nat /\ n <= Len(fl)
    BY <1>1
  <2>4. \A i \in 0 .. n : f[i] = g[i]
    BY <1>1, <1>2, <2>1, <2>3, ChainsAgree
  <2> QED BY <2>2, <2>3, <2>4
<1>4. \A n \in 0 .. Len(fl) : f[n] = IF n = 0 THEN <<>> ELSE Append(f[fl[n].parent], n)
  BY <1>2 DEF Chains
<1>5. ChainOf(fl, 0) = <<>>
  BY <1>1, <1>3, <1>4
<1>6. ASSUME NEW n \in 1 .. Len(fl) PROVE ChainOf(fl, n) = Append(ChainOf(fl, fl[n].parent), n)
  <2>1. n \in 0 .. Len(fl) /\ n # 0 /\ fl[n].parent \in 0 .. Len(fl)
    BY <1>1 DEF Rooted
  <2> QED BY <1>3, <1>4, <2>1
<1> QED BY <1>5, <1>6

\* b lists the entries from the root to n, each after its parent.
IsChain(b, fl, n) ==
  /\ b \in Seq(1 .. n)
  /\ \A k \in 1 .. Len(b) : fl[b[k]].parent = IF k = 1 THEN 0 ELSE b[k - 1]
  /\ IF n = 0 THEN b = <<>> ELSE Len(b) > 0 /\ b[Len(b)] = n

\* A chain is a path of parents from a root to its entry.
LEMMA ChainLinks ==
  ASSUME NEW fl, Rooted(fl), NEW n \in 0 .. Len(fl)
  PROVE  IsChain(ChainOf(fl, n), fl, n)
<1> DEFINE T == {j \in 0 .. Len(fl) : \A i \in 0 .. j : IsChain(ChainOf(fl, i), fl, i)}
<1>0. Len(fl) \in Nat
  BY DEF Rooted
<1>1. 0 \in T
  <2>1. ChainOf(fl, 0) = <<>>
    BY ChainStep
  <2>2. IsChain(<<>>, fl, 0)
    BY DEF IsChain
  <2>3. \A i \in 0 .. 0 : i = 0
    OBVIOUS
  <2> QED BY <1>0, <2>1, <2>2, <2>3
<1>2. ASSUME NEW j \in 0 .. Len(fl), j \in T, j < Len(fl) PROVE j + 1 \in T
  <2> DEFINE p == fl[j + 1].parent
             a == ChainOf(fl, p)
             b == ChainOf(fl, j + 1)
  <2>1. j + 1 \in 1 .. Len(fl) /\ j + 1 \in 0 .. Len(fl) /\ j \in Nat
    BY <1>0, <1>2
  <2>2. p \in 0 .. j
    BY <2>1 DEF Rooted
  <2>3. b = Append(a, j + 1)
    BY <2>1, ChainStep
  <2>4. IsChain(a, fl, p)
    BY <1>2, <2>2
  <2>5. fl[j + 1].parent = p
    OBVIOUS
  <2> HIDE DEF p, a, b
  <2>6. a \in Seq(1 .. p) /\ a \in Seq(1 .. j + 1) /\ Len(a) \in Nat
    <3>1. a \in Seq(1 .. p)
      BY <2>4 DEF IsChain
    <3>2. \A x \in 1 .. p : x \in 1 .. j + 1
      BY <2>1, <2>2
    <3>3. a \in Seq(1 .. j + 1)
      <4>1. \A S, R : (\A x \in S : x \in R) /\ a \in Seq(S) => a \in Seq(R)
        OBVIOUS
      <4> QED BY <3>1, <3>2, <4>1, Zenon
    <3> QED BY <3>1, <3>3
  <2>7. /\ b \in Seq(1 .. j + 1) /\ Len(b) = Len(a) + 1 /\ b[Len(a) + 1] = j + 1
        /\ \A k \in 1 .. Len(a) : b[k] = a[k]
    <3>1. j + 1 \in 1 .. j + 1
      BY <2>1
    <3> QED BY <2>3, <2>6, <3>1
  <2>8. ASSUME NEW k \in 1 .. Len(b)
        PROVE  fl[b[k]].parent = IF k = 1 THEN 0 ELSE b[k - 1]
    <3>1. CASE k \in 1 .. Len(a)
      <4>1. fl[a[k]].parent = IF k = 1 THEN 0 ELSE a[k - 1]
        BY <2>4, <3>1 DEF IsChain
      <4>2. k # 1 => k - 1 \in 1 .. Len(a)
        BY <2>6, <3>1
      <4> QED BY <2>7, <3>1, <4>1, <4>2
    <3>2. CASE k = Len(a) + 1
      <4>1. fl[b[k]].parent = p
        BY <2>5, <2>7, <3>2
      <4>2. CASE p = 0
        <5>1. a = <<>>
          BY <2>4, <4>2 DEF IsChain
        <5>2. k = 1
          BY <3>2, <5>1
        <5> QED BY <4>1, <4>2, <5>2
      <4>3. CASE p # 0
        <5>1. Len(a) > 0 /\ a[Len(a)] = p
          BY <2>4, <4>3 DEF IsChain
        <5>2. k # 1 /\ k - 1 = Len(a) /\ Len(a) \in 1 .. Len(a)
          BY <2>6, <3>2, <5>1
        <5> QED BY <2>7, <4>1, <5>1, <5>2
      <4> QED BY <4>2, <4>3
    <3> QED BY <2>6, <2>7, <3>1, <3>2
  <2>9. IsChain(b, fl, j + 1)
    <3>1. j + 1 # 0 /\ Len(b) > 0 /\ b[Len(b)] = j + 1
      BY <2>1, <2>6, <2>7
    <3> QED BY <2>7, <2>8, <3>1 DEF IsChain
  <2>10. \A i \in 0 .. j + 1 : i \in 0 .. j \/ i = j + 1
    BY <2>1
  <2> QED BY <1>2, <2>1, <2>9, <2>10 DEF b
<1>3. 0 .. Len(fl) \subseteq T
  <2> HIDE DEF T
  <2> QED BY <1>0, <1>1, <1>2, UpTo
<1>4. n \in 0 .. n
  BY <1>0
<1> QED BY <1>3, <1>4

-----------------------------------------------------------------------------
\* f is the function that EntriesOf defines, up to n.
Shows(f, l, n) ==
  f = [k \in 0 .. n |-> IF k = 0 THEN <<>>
                        ELSE f[k - 1] \o (IF l[k].type \in Message THEN <<l[k].entry>> ELSE <<>>)]

\* The fold of a log into the entries it shows exists for every log.
LEMMA ShowsExist ==
  ASSUME NEW l, l \in Seq(ToSet(l)), NEW E, \A i \in 1 .. Len(l) : l[i].type \in Message => l[i].entry \in E
  PROVE  \A n \in 0 .. Len(l) : \E f \in [0 .. n -> Seq(E)] : Shows(f, l, n)
<1> DEFINE T == {n \in 0 .. Len(l) : \E f \in [0 .. n -> Seq(E)] : Shows(f, l, n)}
           more(k) == IF l[k].type \in Message THEN <<l[k].entry>> ELSE <<>>
<1>0. Len(l) \in Nat
  OBVIOUS
<1>1. 0 \in T
  <2> DEFINE z == [i \in 0 .. 0 |-> <<>>]
  <2>1. z \in [0 .. 0 -> Seq(E)]
    OBVIOUS
  <2>2. Shows(z, l, 0)
    BY DEF Shows
  <2>3. 0 \in 0 .. Len(l)
    BY <1>0
  <2> HIDE DEF z
  <2> QED BY <2>1, <2>2, <2>3, Zenon
<1>2. ASSUME NEW k \in 0 .. Len(l), k \in T, k < Len(l) PROVE k + 1 \in T
  <2>1. PICK f \in [0 .. k -> Seq(E)] : Shows(f, l, k)
    BY <1>2
  <2>2. k + 1 \in 1 .. Len(l) /\ k \in 0 .. k /\ k \in Nat
    BY <1>0, <1>2
  <2>3. more(k + 1) \in Seq(E)
    <3>1. CASE l[k + 1].type \in Message
      <4>1. l[k + 1].entry \in E
        BY <2>2, <3>1
      <4> QED BY <3>1, <4>1
    <3>2. CASE l[k + 1].type \notin Message
      BY <3>2
    <3> QED BY <3>1, <3>2
  <2>4. f[k] \in Seq(E)
    BY <2>2
  <2>5. \A i \in 0 .. k : f[i] = IF i = 0 THEN <<>> ELSE f[i - 1] \o more(i)
    BY <2>1 DEF Shows
  <2> HIDE DEF more
  <2> DEFINE g == [i \in 0 .. k + 1 |-> IF i = k + 1 THEN f[k] \o more(k + 1) ELSE f[i]]
  <2>6. g \in [0 .. k + 1 -> Seq(E)]
    <3>1. f[k] \o more(k + 1) \in Seq(E)
      BY <2>3, <2>4
    <3>2. \A i \in 0 .. k + 1 : i # k + 1 => i \in 0 .. k
      BY <2>2
    <3> QED BY <3>1, <3>2
  <2>7. ASSUME NEW i \in 0 .. k + 1
        PROVE  g[i] = IF i = 0 THEN <<>> ELSE g[i - 1] \o more(i)
    <3>1. CASE i = k + 1
      <4>1. i # 0 /\ i - 1 = k /\ g[k] = f[k]
        BY <2>2, <3>1
      <4> QED BY <3>1, <4>1
    <3>2. CASE i # k + 1
      <4>1. i \in 0 .. k /\ g[i] = f[i] /\ (i # 0 => g[i - 1] = f[i - 1])
        BY <2>2, <3>2
      <4> QED BY <2>5, <4>1
    <3> QED BY <3>1, <3>2
  <2>8. Shows(g, l, k + 1)
    <3> HIDE DEF g
    <3> QED BY <2>6, <2>7 DEF Shows, more
  <2>9. k + 1 \in 0 .. Len(l)
    BY <1>0, <2>2
  <2> HIDE DEF g
  <2> QED BY <2>6, <2>8, <2>9
<1>3. 0 .. Len(l) \subseteq T
  <2> HIDE DEF T
  <2> QED BY <1>0, <1>1, <1>2, UpTo
<1> QED BY <1>3

\* An event added to the log adds its entry if it is a message.
LEMMA EntriesAppend ==
  ASSUME NEW l, l \in Seq(ToSet(l)), NEW e, NEW m, m = Append(l, e)
  PROVE  EntriesOf(m) = EntriesOf(l) \o (IF e.type \in Message THEN <<e.entry>> ELSE <<>>)
<1>0. /\ m \in Seq(ToSet(m)) /\ Len(l) \in Nat /\ Len(m) = Len(l) + 1
      /\ \A i \in 1 .. Len(l) : m[i] = l[i]
      /\ m[Len(l) + 1] = e
  BY AppendOwn
<1> DEFINE n == Len(l)
           f == CHOOSE h : Shows(h, l, n)
           g == CHOOSE h : Shows(h, m, n + 1)
           T == {k \in 0 .. n : f[k] = g[k]}
<1>1. Shows(f, l, n) /\ Shows(g, m, n + 1)
  <2>1. \E h : Shows(h, l, n)
    <3>1. \A i \in 1 .. Len(l) : l[i].type \in Message => l[i].entry \in {l[j].entry : j \in 1 .. Len(l)}
      OBVIOUS
    <3>2. PICK E : \A i \in 1 .. Len(l) : l[i].type \in Message => l[i].entry \in E
      BY <3>1
    <3>3. n \in 0 .. Len(l)
      BY <1>0
    <3> QED BY <3>2, <3>3, ShowsExist
  <2>2. \E h : Shows(h, m, n + 1)
    <3>1. \A i \in 1 .. Len(m) : m[i].type \in Message => m[i].entry \in {m[j].entry : j \in 1 .. Len(m)}
      OBVIOUS
    <3>2. PICK E : \A i \in 1 .. Len(m) : m[i].type \in Message => m[i].entry \in E
      BY <3>1
    <3>3. n + 1 \in 0 .. Len(m)
      BY <1>0
    <3> QED BY <1>0, <3>2, <3>3, ShowsExist
  <2> QED BY <2>1, <2>2
<1>2. EntriesOf(l) = f[n] /\ EntriesOf(m) = g[n + 1]
  BY <1>0 DEF EntriesOf, Shows
<1> HIDE DEF f, g, n
<1>3. n \in Nat /\ Len(l) = n
  BY <1>0 DEF n
<1> DEFINE more(q, k) == IF q[k].type \in Message THEN <<q[k].entry>> ELSE <<>>
<1>4. /\ \A k \in 0 .. n : f[k] = IF k = 0 THEN <<>> ELSE f[k - 1] \o more(l, k)
      /\ \A k \in 0 .. n + 1 : g[k] = IF k = 0 THEN <<>> ELSE g[k - 1] \o more(m, k)
  BY <1>1 DEF Shows
<1>5. /\ \A k \in 1 .. n : more(m, k) = more(l, k)
      /\ more(m, n + 1) = IF e.type \in Message THEN <<e.entry>> ELSE <<>>
  BY <1>0, <1>3
<1> HIDE DEF more
<1>6. 0 \in T
  <2>1. 0 \in 0 .. n /\ 0 \in 0 .. n + 1
    BY <1>3
  <2> QED BY <1>4, <2>1
<1>7. ASSUME NEW k \in 0 .. n, k \in T, k < n PROVE k + 1 \in T
  <2>1. k + 1 \in 0 .. n /\ k + 1 \in 0 .. n + 1 /\ k + 1 \in 1 .. n /\ k + 1 # 0 /\ (k + 1) - 1 = k
    BY <1>3, <1>7
  <2>2. f[k + 1] = f[k] \o more(l, k + 1) /\ g[k + 1] = g[k] \o more(m, k + 1)
    BY <1>4, <2>1
  <2> QED BY <1>5, <1>7, <2>1, <2>2
<1>8. 0 .. n \subseteq T
  <2> HIDE DEF T
  <2> QED BY <1>3, <1>6, <1>7, UpTo
<1>9. f[n] = g[n]
  BY <1>3, <1>8
<1>10. g[n + 1] = g[n] \o more(m, n + 1)
  <2>1. n + 1 \in 0 .. n + 1 /\ n + 1 # 0 /\ (n + 1) - 1 = n
    BY <1>3
  <2> QED BY <1>4, <2>1
<1> QED BY <1>2, <1>5, <1>9, <1>10

\* What a commit of an import is about: a mark moves the marker of the row to an
\* entry, any other commit appends an event of an entry; an event is ahead of the
\* message of its entry, or is the message, or it is past it.
IsMark(c)  == "event" \notin DOMAIN c
EntryOf(c) == IF IsMark(c) THEN c.leaf ELSE c.event.entry
Tells(c)   == ~IsMark(c) /\ c.event.type \in Message
Opens(c)   == ~IsMark(c) /\ c.event.source[4] = 1
Ahead(c)   == Opens(c) \/ Tells(c)

\* The commit d may follow c in an import of the file fl.
Link(fl, c, d) ==
  /\ ~IsMark(c) => EntryOf(d) = EntryOf(c)
  /\ Ahead(c) /\ ~Tells(c) => Ahead(d) /\ ~Opens(d)
  /\ Tells(c) => ~Ahead(d)
  /\ ~IsMark(c) /\ ~Ahead(c) => IsMark(d)
  /\ IsMark(c) => IF Ahead(d) THEN fl[EntryOf(d)].parent = EntryOf(c)
                              ELSE EntryOf(d) = EntryOf(c)

\* It is about an entry of the file and carries the name of that entry.
Proper(fl, c) ==
  /\ EntryOf(c) \in 1 .. Len(fl)
  /\ ~IsMark(c) => /\ c.event.source[1] = "history" /\ c.event.source[2] = c.event.entry
                   /\ c.event.source[3] = c.event.type

Runs(fl, q) ==
  /\ q \in Seq(ToSet(q)) /\ q # <<>>
  /\ \A i \in 1 .. Len(q) : Proper(fl, q[i])
  /\ \A i \in 1 .. Len(q) - 1 : Link(fl, q[i], q[i + 1])
  /\ IsMark(q[Len(q)])

\* It runs from the first commit of entry a to the mark of entry b.
Spans(fl, q, a, b) ==
  /\ Runs(fl, q)
  /\ Opens(q[1]) /\ EntryOf(q[1]) = a /\ EntryOf(q[Len(q)]) = b

\* Two runs of commits joined are one.
LEMMA JoinRuns ==
  ASSUME NEW fl, NEW p, NEW a, NEW b, Spans(fl, p, a, b),
         NEW q, Runs(fl, q), Link(fl, p[Len(p)], q[1]), NEW d, EntryOf(q[Len(q)]) = d,
         NEW r, r = p \o q
  PROVE  Spans(fl, r, a, d)
<1>0. Runs(fl, p)
  BY DEF Spans
<1>1. /\ p \in Seq(ToSet(p)) /\ q \in Seq(ToSet(q)) /\ Len(p) \in Nat \ {0} /\ Len(q) \in Nat \ {0}
  BY <1>0 DEF Runs
<1>2. /\ r \in Seq(ToSet(p) \cup ToSet(q)) /\ Len(r) = Len(p) + Len(q) /\ r # <<>>
      /\ \A i \in 1 .. Len(p) : r[i] = p[i]
      /\ \A i \in 1 .. Len(q) : r[Len(p) + i] = q[i]
  <2>1. p \in Seq(ToSet(p) \cup ToSet(q)) /\ q \in Seq(ToSet(p) \cup ToSet(q))
    BY <1>1
  <2> QED BY <1>1, <2>1
<1>3. r \in Seq(ToSet(r))
  BY <1>2, SeqOfOwn
<1>4. r[1] = p[1] /\ r[Len(r)] = q[Len(q)]
  BY <1>1, <1>2
<1>5. ASSUME NEW i \in 1 .. Len(r) PROVE Proper(fl, r[i])
  <2>1. CASE i \in 1 .. Len(p)
    BY <1>0, <1>2, <2>1 DEF Runs
  <2>2. CASE i \notin 1 .. Len(p)
    <3>1. i - Len(p) \in 1 .. Len(q) /\ i = Len(p) + (i - Len(p))
      BY <1>1, <1>2, <2>2
    <3>2. r[i] = q[i - Len(p)]
      BY <1>2, <3>1
    <3> QED BY <3>1, <3>2 DEF Runs
  <2> QED BY <2>1, <2>2
<1>6. ASSUME NEW i \in 1 .. Len(r) - 1 PROVE Link(fl, r[i], r[i + 1])
  <2>1. CASE i < Len(p)
    <3>1. i \in 1 .. Len(p) - 1 /\ i \in 1 .. Len(p) /\ i + 1 \in 1 .. Len(p)
      BY <1>1, <2>1
    <3> QED BY <1>0, <1>2, <3>1 DEF Runs
  <2>2. CASE i = Len(p)
    <3>1. r[i] = p[Len(p)] /\ r[i + 1] = q[1]
      BY <1>1, <1>2, <2>2
    <3> QED BY <3>1
  <2>3. CASE i > Len(p)
    <3> DEFINE j == i - Len(p)
    <3>1. j \in 1 .. Len(q) - 1 /\ j \in 1 .. Len(q) /\ j + 1 \in 1 .. Len(q)
          /\ i = Len(p) + j /\ i + 1 = Len(p) + (j + 1)
      BY <1>1, <1>2, <2>3
    <3> HIDE DEF j
    <3>2. r[i] = q[j] /\ r[i + 1] = q[j + 1]
      BY <1>2, <3>1
    <3> QED BY <3>1, <3>2 DEF Runs
  <2> QED BY <1>1, <2>1, <2>2, <2>3
<1>7. IsMark(r[Len(r)])
  BY <1>4 DEF Runs
<1>8. Runs(fl, r)
  BY <1>2, <1>3, <1>5, <1>6, <1>7 DEF Runs
<1> QED BY <1>4, <1>8 DEF Spans

\* Of the events e of one entry, number p is the message: the first or the second,
\* and the last or the last but one.
Pattern(e, p) ==
  /\ p \in {1, 2} /\ Len(e) \in {p, p + 1}
  /\ \A i \in 1 .. Len(e) : e[i][1] \in Message <=> i = p

\* Short sequences, built up.
LEMMA Tuples ==
  ASSUME NEW Z, NEW x \in Z, NEW u \in Z, NEW s \in Z
  PROVE  /\ <<>> \o <<u, s>> \in Seq(Z) /\ Len(<<>> \o <<u, s>>) = 2
         /\ (<<>> \o <<u, s>>)[1] = u /\ (<<>> \o <<u, s>>)[2] = s
         /\ <<x>> \o <<u, s>> \in Seq(Z) /\ Len(<<x>> \o <<u, s>>) = 3
         /\ (<<x>> \o <<u, s>>)[1] = x /\ (<<x>> \o <<u, s>>)[2] = u /\ (<<x>> \o <<u, s>>)[3] = s
         /\ Append(<<>>, u) \in Seq(Z) /\ Len(Append(<<>>, u)) = 1 /\ Append(<<>>, u)[1] = u
         /\ Append(<<x>>, u) \in Seq(Z) /\ Len(Append(<<x>>, u)) = 2
         /\ Append(<<x>>, u)[1] = x /\ Append(<<x>>, u)[2] = u
<1>1. <<>> \in Seq(Z) /\ <<x>> \in Seq(Z) /\ <<u, s>> \in Seq(Z) /\ Len(<<>>) = 0 /\ Len(<<x>>) = 1
      /\ Len(<<u, s>>) = 2
  OBVIOUS
<1>2. /\ <<>> \o <<u, s>> \in Seq(Z) /\ Len(<<>> \o <<u, s>>) = 2
      /\ (<<>> \o <<u, s>>)[1] = u /\ (<<>> \o <<u, s>>)[2] = s
  BY <1>1
<1>3. /\ <<x>> \o <<u, s>> \in Seq(Z) /\ Len(<<x>> \o <<u, s>>) = 3
      /\ (<<x>> \o <<u, s>>)[1] = x /\ (<<x>> \o <<u, s>>)[2] = u /\ (<<x>> \o <<u, s>>)[3] = s
  BY <1>1
<1>4. Append(<<>>, u) \in Seq(Z) /\ Len(Append(<<>>, u)) = 1 /\ Append(<<>>, u)[1] = u
  BY <1>1
<1>5. /\ Append(<<x>>, u) \in Seq(Z) /\ Len(Append(<<x>>, u)) = 2
      /\ Append(<<x>>, u)[1] = x /\ Append(<<x>>, u)[2] = u
  BY <1>1
<1> QED BY <1>2, <1>3, <1>4, <1>5

\* The events of one entry follow one of a few patterns.
LEMMA EventPattern ==
  ASSUME NEW n, NEW turn
  PROVE  \E Y : EventsOf(n, turn) \in Seq(Y) /\ \E p : Pattern(EventsOf(n, turn), p)
<1> DEFINE e == EventsOf(n, turn)
           u == <<"user.message.created", Nothing>>
           s == <<"turn.started", <<"entry", n>>>>
           h == <<"turn.started", <<"historical", n>>>>
           x == <<"turn.settled", turn>>
           a == <<"assistant.message", Nothing>>
           t == <<"tool.started", Nothing>>
           c == <<"tool.completed", Nothing>>
           Y == {u, s, h, x, a, t, c}
           starts == IF turn = Nothing THEN <<h>> ELSE <<>>
<1>1. /\ u[1] \in Message /\ a[1] \in Message /\ t[1] \in Message /\ c[1] \in Message
      /\ s[1] \notin Message /\ h[1] \notin Message /\ x[1] \notin Message
  BY DEF Message
<1>2. e = CASE file[n].role = "user" -> settleTurn(turn) \o <<u, s>>
            [] file[n].role = "text" -> Append(starts, a)
            [] file[n].role = "call" -> Append(starts, t)
            [] OTHER -> <<c>>
  BY DEF EventsOf
<1>3. settleTurn(turn) \in {<<>>, <<x>>} /\ starts \in {<<>>, <<h>>}
  BY DEF settleTurn
<1> HIDE DEF e, u, s, h, x, a, t, c, starts
<1>4. u \in Y /\ s \in Y /\ h \in Y /\ x \in Y /\ a \in Y /\ t \in Y /\ c \in Y
  OBVIOUS
<1> HIDE DEF Y
<1>5. \/ e \in {<<>> \o <<u, s>>, <<x>> \o <<u, s>>}
      \/ e \in {Append(<<>>, a), Append(<<>>, t), <<c>>}
      \/ e \in {Append(<<h>>, a), Append(<<h>>, t)}
  BY <1>2, <1>3, Zenon
<1>6. CASE e = <<>> \o <<u, s>>
  <2>1. e \in Seq(Y) /\ Len(e) = 2 /\ e[1] = u /\ e[2] = s
    BY <1>4, <1>6, Tuples
  <2>2. \A i \in 1 .. 2 : i = 1 \/ i = 2
    OBVIOUS
  <2>3. Pattern(e, 1)
    BY <1>1, <2>1, <2>2 DEF Pattern
  <2> QED BY <2>1, <2>3 DEF e
<1>7. CASE e = <<x>> \o <<u, s>>
  <2>1. e \in Seq(Y) /\ Len(e) = 3 /\ e[1] = x /\ e[2] = u /\ e[3] = s
    BY <1>4, <1>7, Tuples
  <2>2. \A i \in 1 .. 3 : i = 1 \/ i = 2 \/ i = 3
    OBVIOUS
  <2>3. Pattern(e, 2)
    BY <1>1, <2>1, <2>2 DEF Pattern
  <2> QED BY <2>1, <2>3 DEF e
<1>8. CASE e \in {Append(<<>>, a), Append(<<>>, t), <<c>>}
  <2>1. e \in Seq(Y) /\ Len(e) = 1 /\ e[1] \in {a, t, c}
    <3>1. <<c>> \in Seq(Y) /\ Len(<<c>>) = 1 /\ <<c>>[1] = c
      BY <1>4
    <3>2. Append(<<>>, a) \in Seq(Y) /\ Len(Append(<<>>, a)) = 1 /\ Append(<<>>, a)[1] = a
      BY <1>4, Tuples
    <3>3. Append(<<>>, t) \in Seq(Y) /\ Len(Append(<<>>, t)) = 1 /\ Append(<<>>, t)[1] = t
      BY <1>4, Tuples
    <3> QED BY <1>8, <3>1, <3>2, <3>3
  <2>2. \A i \in 1 .. 1 : i = 1
    OBVIOUS
  <2>3. Pattern(e, 1)
    BY <1>1, <2>1, <2>2 DEF Pattern
  <2> QED BY <2>1, <2>3 DEF e
<1>9. CASE e \in {Append(<<h>>, a), Append(<<h>>, t)}
  <2>1. e \in Seq(Y) /\ Len(e) = 2 /\ e[1] = h /\ e[2] \in {a, t}
    <3>1. /\ Append(<<h>>, a) \in Seq(Y) /\ Len(Append(<<h>>, a)) = 2
          /\ Append(<<h>>, a)[1] = h /\ Append(<<h>>, a)[2] = a
      BY <1>4, Tuples
    <3>2. /\ Append(<<h>>, t) \in Seq(Y) /\ Len(Append(<<h>>, t)) = 2
          /\ Append(<<h>>, t)[1] = h /\ Append(<<h>>, t)[2] = t
      BY <1>4, Tuples
    <3> QED BY <1>9, <3>1, <3>2
  <2>2. \A i \in 1 .. 2 : i = 1 \/ i = 2
    OBVIOUS
  <2>3. Pattern(e, 2)
    BY <1>1, <2>1, <2>2 DEF Pattern
  <2> QED BY <2>1, <2>3 DEF e
<1> QED BY <1>5, <1>6, <1>7, <1>8, <1>9

\* The commit of event number k + i.
CommitOf(n, e, k, i) ==
  [event |-> Event(e[i][1], e[i][2], n, file[n].tool, <<"history", n, e[i][1], k + i>>)]

\* What one event of an entry commits.
LEMMA CommitFacts ==
  ASSUME NEW n \in 1 .. Len(file), NEW e, NEW k, NEW i, NEW c, c = CommitOf(n, e, k, i)
  PROVE  /\ ~IsMark(c) /\ EntryOf(c) = n /\ Proper(file, c)
         /\ Tells(c) <=> e[i][1] \in Message
         /\ Opens(c) <=> k + i = 1
<1>1. c.event = Event(e[i][1], e[i][2], n, file[n].tool, <<"history", n, e[i][1], k + i>>)
      /\ ~IsMark(c)
  BY DEF CommitOf, IsMark
<1>2. /\ c.event.entry = n /\ c.event.type = e[i][1]
      /\ c.event.source = <<"history", n, e[i][1], k + i>>
  BY <1>1 DEF Event
<1>3. /\ c.event.source[1] = "history" /\ c.event.source[2] = n /\ c.event.source[3] = e[i][1]
      /\ c.event.source[4] = k + i
  BY <1>2
<1>4. EntryOf(c) = n
  BY <1>1, <1>2 DEF EntryOf
<1>6. Proper(file, c)
  BY <1>1, <1>2, <1>3, <1>4 DEF Proper
<1> QED BY <1>1, <1>2, <1>3, <1>4, <1>6 DEF Tells, Opens

\* A checkpoint names its entry, and stands behind its message.
LEMMA MarkFacts ==
  ASSUME NEW n \in 1 .. Len(file), NEW rev, NEW c, c = [rev |-> rev, leaf |-> n]
  PROVE  IsMark(c) /\ EntryOf(c) = n /\ Proper(file, c) /\ ~Ahead(c)
BY DEF IsMark, EntryOf, Proper, Ahead, Opens, Tells

\* The indices of a sequence.
LEMMA SeqDomain ==
  ASSUME NEW S, NEW s \in Seq(S)
  PROVE  DOMAIN s = 1 .. Len(s) /\ Len(s) \in Nat
OBVIOUS

\* The message of an entry is its first or second event, and one may follow.
LEMMA OneOrTwo ==
  ASSUME NEW p \in {1, 2}, NEW l \in {p, p + 1}
  PROVE  /\ p \in Nat /\ p >= 1 /\ p <= 2
         /\ l \in Nat /\ l >= p /\ l <= p + 1
         /\ \A i \in 1 .. l : (i = 1 \/ i = p) <=> i <= p
<1>1. p = 1 \/ p = 2
  OBVIOUS
<1> QED BY <1>1

\* The commits of one entry: first ahead of its message, last the mark.
LEMMA StepRuns ==
  ASSUME NEW n \in 1 .. Len(file), NEW turn, NEW rev, NEW q,
         q = Commits(n, EventsOf(n, turn), 0) \o checkpoint(rev, n)
  PROVE  Spans(file, q, n, n)
<1> DEFINE e == EventsOf(n, turn)
           m == [rev |-> rev, leaf |-> n]
           w == Commits(n, e, 0)
<1>1. PICK Y, p : e \in Seq(Y) /\ Pattern(e, p)
  BY EventPattern, Zenon
<1> HIDE DEF e
<1>1s. DOMAIN e = 1 .. Len(e) /\ Len(e) \in Nat
  BY <1>1, SeqDomain, Zenon
<1>2. /\ p \in {1, 2} /\ Len(e) \in {p, p + 1} /\ DOMAIN e = 1 .. Len(e) /\ Len(e) \in Nat
      /\ \A i \in 1 .. Len(e) : e[i][1] \in Message <=> i = p
  BY <1>1, <1>1s, Zenon DEF Pattern
<1>2n. /\ p \in Nat /\ p >= 1 /\ p <= 2
       /\ Len(e) \in Nat /\ Len(e) >= p /\ Len(e) <= p + 1
       /\ \A i \in 1 .. Len(e) : (i = 1 \/ i = p) <=> i <= p
  BY <1>2, OneOrTwo, Zenon
<1>3. w = [i \in 1 .. Len(e) |-> CommitOf(n, e, 0, i)]
  BY <1>2, Zenon DEF Commits, CommitOf
<1> HIDE DEF w
<1>4. q = w \o <<m>>
  BY DEF checkpoint, e, w
<1> HIDE DEF m
<1>5. \E D : w \in Seq(D) /\ m \in D
  <2>1. w \in Seq({CommitOf(n, e, 0, i) : i \in 1 .. Len(e)})
    BY <1>2n, <1>3
  <2>2. PICK C : w \in Seq(C)
    BY <2>1, Zenon
  <2>3. w \in Seq(C \cup {m}) /\ m \in C \cup {m}
    BY <2>2
  <2> QED BY <2>3, Zenon
<1>5a. PICK D : w \in Seq(D) /\ m \in D
  BY <1>5, Zenon
<1>5b. Len(w) = Len(e)
  BY <1>2n, <1>3
<1>6. /\ q \in Seq(D) /\ Len(q) = Len(e) + 1 /\ q[Len(e) + 1] = m /\ q # <<>>
      /\ \A i \in 1 .. Len(e) : q[i] = w[i]
  <2>1. /\ w \o <<m>> \in Seq(D) /\ Len(w \o <<m>>) = Len(w) + 1 /\ (w \o <<m>>)[Len(w) + 1] = m
        /\ \A i \in 1 .. Len(w) : (w \o <<m>>)[i] = w[i]
    BY <1>5a
  <2>2. q # <<>>
    BY <1>2n, <1>4, <1>5b, <2>1
  <2> QED BY <1>4, <1>5b, <2>1, <2>2
<1>6a. Len(q) = Len(e) + 1
  BY <1>6
<1>7. q \in Seq(ToSet(q))
  BY <1>6, SeqOfOwn
<1>8. \A i \in 1 .. Len(e) : q[i] = CommitOf(n, e, 0, i)
  BY <1>3, <1>6
<1>9. ASSUME NEW i \in 1 .. Len(e)
      PROVE  /\ ~IsMark(q[i]) /\ EntryOf(q[i]) = n /\ Proper(file, q[i])
             /\ Tells(q[i]) <=> i = p
             /\ Opens(q[i]) <=> i = 1
             /\ Ahead(q[i]) <=> i <= p
  <2>1. q[i] = CommitOf(n, e, 0, i) /\ 0 + i = i
    <3>1. 0 + i = i
      BY <1>2n
    <3> QED BY <1>8, <3>1
  <2>2. /\ ~IsMark(q[i]) /\ EntryOf(q[i]) = n /\ Proper(file, q[i])
        /\ Tells(q[i]) <=> e[i][1] \in Message
        /\ Opens(q[i]) <=> 0 + i = 1
    BY <2>1, CommitFacts, Zenon
  <2>3. (i = 1 \/ i = p) <=> i <= p
    BY <1>2n, Zenon
  <2> QED BY <1>2, <2>1, <2>2, <2>3, Zenon DEF Ahead
<1>10. IsMark(m) /\ EntryOf(m) = n /\ Proper(file, m) /\ ~Ahead(m)
  BY MarkFacts DEF m
<1>11. ASSUME NEW i \in 1 .. Len(q) PROVE Proper(file, q[i]) /\ EntryOf(q[i]) = n
  <2>1. i \in 1 .. Len(e) \/ i = Len(e) + 1
    BY <1>2n, <1>6a
  <2> QED BY <1>6, <1>9, <1>10, <2>1
<1>12. ASSUME NEW i \in 1 .. Len(q) - 1 PROVE Link(file, q[i], q[i + 1])
  <2>1. i \in 1 .. Len(e) /\ i + 1 \in 1 .. Len(q)
    BY <1>2n, <1>6a
  <2>2. ~IsMark(q[i]) /\ EntryOf(q[i + 1]) = EntryOf(q[i])
    BY <1>9, <1>11, <2>1
  <2>3. CASE i < p
    <3>1. i + 1 \in 1 .. Len(e) /\ i + 1 <= p /\ i + 1 # 1 /\ i # p /\ i <= p
      BY <1>2n, <2>1, <2>3
    <3>2. /\ Ahead(q[i]) /\ ~Tells(q[i]) /\ ~IsMark(q[i]) /\ Ahead(q[i + 1]) /\ ~Opens(q[i + 1])
      BY <1>9, <2>1, <3>1, Zenon
    <3> QED BY <2>2, <3>2 DEF Link
  <2>4. CASE i >= p
    <3>1. CASE i = Len(e)
      <4>1. q[i + 1] = m
        BY <1>6, <3>1
      <4>0. i <= p => i = p
        BY <1>2n, <2>1, <2>4
      <4>2. Ahead(q[i]) => Tells(q[i])
        BY <1>9, <2>1, <4>0
      <4> QED BY <1>10, <2>2, <4>1, <4>2 DEF Link
    <3>2. CASE i # Len(e)
      <4>1. i = p /\ i + 1 \in 1 .. Len(e) /\ ~(i + 1 <= p)
        BY <1>2n, <2>1, <2>4, <3>2
      <4> QED BY <1>9, <2>1, <2>2, <4>1 DEF Link, Ahead
    <3> QED BY <3>1, <3>2
  <2> QED BY <1>2n, <2>1, <2>3, <2>4
<1>13. 1 \in 1 .. Len(e) /\ 1 \in 1 .. Len(q) /\ Len(q) \in 1 .. Len(q)
  BY <1>2n, <1>6a
<1>14. Runs(file, q)
  BY <1>6, <1>7, <1>10, <1>11, <1>12 DEF Runs
<1> QED BY <1>9, <1>11, <1>13, <1>14 DEF Spans

\* Entries are numbered by position and come after their parents.
FileOK ==
  /\ file \in Seq(ToSet(file))
  /\ \A i \in 1 .. Len(file) : file[i].parent \in Nat /\ file[i].parent < i

\* The commits of a chain of entries, one entry after the other.
LEMMA FlattenRuns ==
  ASSUME NEW fl, NEW S, NEW ss \in Seq(Seq(S)), NEW todo, Len(ss) # 0,
         \A k \in 1 .. Len(ss) : Spans(fl, ss[k], todo[k], todo[k]),
         \A k \in 1 .. Len(ss) - 1 : fl[todo[k + 1]].parent = todo[k],
         NEW r, r = FlattenSeq(ss)
  PROVE  Spans(fl, r, todo[1], todo[Len(ss)])
<1> DEFINE n == Len(ss)
<1>0. n \in Nat /\ n # 0
  OBVIOUS
<1>1. PICK g \in [1 .. n -> Seq(S)] : Flattens(g, ss, n) /\ FlattenSeq(ss) = g[n]
  BY FlattenIsLast
<1>2. \A i \in 1 .. n : g[i] = IF i = 1 THEN ss[i] ELSE g[i - 1] \o ss[i]
  BY <1>1 DEF Flattens
<1> DEFINE T == {m \in 1 .. n : Spans(fl, g[m], todo[1], todo[m])}
<1>3. 1 \in T
  <2>1. 1 \in 1 .. n
    BY <1>0
  <2>2. g[1] = ss[1]
    BY <1>2, <2>1
  <2> QED BY <2>1, <2>2
<1>4. ASSUME NEW m \in 1 .. n, m \in T, m < n PROVE m + 1 \in T
  <2>1. m + 1 \in 1 .. n /\ m + 1 # 1 /\ (m + 1) - 1 = m /\ m \in 1 .. n - 1
    BY <1>0, <1>4
  <2>2. g[m + 1] = g[m] \o ss[m + 1]
    BY <1>2, <2>1
  <2>3. PICK p, q : p = g[m] /\ q = ss[m + 1]
    OBVIOUS
  <2>4. Spans(fl, p, todo[1], todo[m]) /\ Spans(fl, q, todo[m + 1], todo[m + 1])
    BY <1>4, <2>1, <2>3
  <2>5. /\ Runs(fl, q) /\ EntryOf(q[Len(q)]) = todo[m + 1]
        /\ IsMark(p[Len(p)]) /\ EntryOf(p[Len(p)]) = todo[m]
        /\ Opens(q[1]) /\ EntryOf(q[1]) = todo[m + 1]
    BY <2>4 DEF Spans, Runs
  <2>6. fl[todo[m + 1]].parent = todo[m]
    BY <2>1
  <2>7. Link(fl, p[Len(p)], q[1])
    BY <2>5, <2>6 DEF Link, Ahead, Opens, Tells
  <2>8. PICK w : w = p \o q
    OBVIOUS
  <2>9. Spans(fl, w, todo[1], todo[m + 1])
    BY <2>4, <2>5, <2>7, <2>8, JoinRuns
  <2>10. g[m + 1] = w
    BY <2>2, <2>3, <2>8
  <2> QED BY <2>1, <2>9, <2>10
<1>5. 1 .. n \subseteq T
  <2> HIDE DEF T, n
  <2> QED BY <1>0, <1>3, <1>4, UpTo
<1>6. Spans(fl, g[n], todo[1], todo[n])
  <2>1. n \in 1 .. n
    BY <1>0
  <2> HIDE DEF n
  <2> QED BY <1>5, <2>1
<1> QED BY <1>1, <1>6

\* What is left to import is nothing or the rest of the active branch.
RestOf(todo, b, k) ==
  /\ k \in 0 .. Len(b) /\ todo \in Seq(1 .. Len(file)) /\ Len(todo) = Len(b) - k
  /\ \A j \in 1 .. Len(todo) : todo[j] = b[k + j]

\* The branch to an entry is a path of parents.
LEMMA BranchLinks ==
  ASSUME FileOK, NEW n \in 0 .. Len(file)
  PROVE  IsChain(BranchTo(n), file, n)
<1>1. Rooted(file)
  BY DEF FileOK, Rooted
<1> QED BY <1>1, ChainLinks, BranchIsChain

\* What is after a place of the branch is the rest of it.
LEMMA AfterIsRest ==
  ASSUME FileOK, NEW k \in 0 .. Len(activeBranch)
  PROVE  RestOf(After(k), activeBranch, k)
<1>1. PICK b : b = activeBranch
  OBVIOUS
<1>2. Len(file) \in Nat /\ Len(file) \in 0 .. Len(file)
  BY DEF FileOK
<1>3. b \in Seq(1 .. Len(file))
  BY <1>1, <1>2, BranchLinks DEF activeBranch, IsChain
<1>4. k \in 0 .. Len(b) /\ Len(b) \in Nat
  BY <1>1, <1>3
<1>5. /\ SubSeq(b, k + 1, Len(b)) \in Seq(1 .. Len(file))
      /\ Len(SubSeq(b, k + 1, Len(b))) = Len(b) - k
      /\ \A j \in 1 .. Len(b) - k : SubSeq(b, k + 1, Len(b))[j] = b[k + j]
  BY <1>3, <1>4
<1> QED BY <1>1, <1>4, <1>5 DEF RestOf, After

\* The pending entries are what the branch has after the marker.
LEMMA PendingIsRest ==
  ASSUME FileOK, pendingEntries # <<>>
  PROVE  /\ \E k : RestOf(pendingEntries, activeBranch, k)
         /\ marker.leaf = 0 /\ log = <<>> => RestOf(pendingEntries, activeBranch, 0)
         /\ marker.leaf # 0 /\ log # <<>> =>
              \E k : /\ RestOf(pendingEntries, activeBranch, k) /\ k # 0
                     /\ activeBranch[k] = marker.leaf
<1>1. PICK b : b = activeBranch
  OBVIOUS
<1>2. Len(file) \in Nat /\ Len(file) \in 0 .. Len(file)
  BY DEF FileOK
<1>3. b \in Seq(1 .. Len(file)) /\ Len(b) \in Nat /\ DOMAIN b = 1 .. Len(b)
  BY <1>1, <1>2, BranchLinks DEF activeBranch, IsChain
<1>4. ASSUME NEW T, T \subseteq DOMAIN b, T # {} PROVE Max(T) \in T /\ Max(T) \in 0 .. Len(b)
  <2>1. T \subseteq 0 .. Len(b)
    BY <1>3, <1>4
  <2> QED BY <1>3, <1>4, <2>1, Greatest
<1>5. RestOf(b, b, 0)
  <2>1. 0 \in 0 .. Len(b) /\ Len(b) = Len(b) - 0 /\ \A j \in 1 .. Len(b) : j = 0 + j
    BY <1>3
  <2>2. \A j \in 1 .. Len(b) : b[j] = b[0 + j]
    BY <2>1
  <2> QED BY <1>3, <2>1, <2>2 DEF RestOf
<1> DEFINE at == {k \in DOMAIN b : b[k] = marker.leaf}
           known == {k \in DOMAIN b :
                  \/ file[b[k]].role = "call" /\ file[b[k]].tool \in durableStarted
                  \/ file[b[k]].role = "result" /\ file[b[k]].tool \in durableTerminal}
<1>6. CASE log = <<>>
  <2>1. pendingEntries = activeBranch
    BY <1>6 DEF pendingEntries
  <2> QED BY <1>1, <1>5, <1>6, <2>1
<1>7. CASE log # <<>> /\ marker.leaf # 0
  <2>1. pendingEntries = IF at = {} THEN <<>> ELSE After(Max(at))
    <3>1. pendingEntries = LET at2 == {k \in DOMAIN activeBranch : activeBranch[k] = marker.leaf}
                           IN  IF at2 = {} THEN <<>> ELSE After(Max(at2))
      BY <1>7 DEF pendingEntries
    <3> QED BY <1>1, <3>1, Zenon
  <2>2. at # {}
    BY <2>1
  <2>3. Max(at) \in at /\ Max(at) \in 0 .. Len(b)
    BY <1>4, <2>2
  <2>4. RestOf(After(Max(at)), b, Max(at))
    BY <1>1, <2>3, AfterIsRest
  <2>5. Max(at) # 0 /\ b[Max(at)] = marker.leaf
    BY <1>3, <2>3
  <2> HIDE DEF at
  <2> QED BY <1>1, <1>7, <2>1, <2>2, <2>4, <2>5
<1>8. CASE log # <<>> /\ marker.leaf = 0
  <2>1. inferOverlapAnchor = IF marker.leaf # 0 \/ known = {} THEN 0 ELSE Max(known)
    BY <1>1 DEF inferOverlapAnchor
  <2>2. inferOverlapAnchor \in 0 .. Len(b)
    <3>1. known # {} => Max(known) \in 0 .. Len(b)
      BY <1>4
    <3>2. 0 \in 0 .. Len(b)
      BY <1>3
    <3> HIDE DEF known
    <3> QED BY <2>1, <3>1, <3>2
  <2>3. pendingEntries \in {b, After(inferOverlapAnchor), <<>>}
    BY <1>1, <1>8 DEF pendingEntries
  <2>4. \E k : RestOf(pendingEntries, b, k)
    BY <1>1, <1>5, <2>2, <2>3, AfterIsRest
  <2> QED BY <1>1, <1>8, <2>4
<1> QED BY <1>6, <1>7, <1>8

\* A file has a length, which numbers its last entry.
LEMMA FileLength ==
  ASSUME FileOK
  PROVE  /\ Len(file) \in Nat /\ Len(file) \in 0 .. Len(file)
         /\ \A i \in 1 .. Len(file) : i \in Nat
BY DEF FileOK

\* The import of a rest of the active branch.
LEMMA ImportRuns ==
  ASSUME FileOK, pendingEntries # <<>>, NEW rev, NEW q, q = importPending(rev)
  PROVE  \E d : Spans(file, q, pendingEntries[1], d)
<1> DEFINE todo  == pendingEntries
           n     == Len(todo)
           turn  == TurnsOpen(todo, IF inferOverlapAnchor > 0 THEN latestTurn ELSE Nothing)
           ev(k) == EventsOf(todo[k], turn[k - 1])
           steps == [k \in 1 .. n |-> Commits(todo[k], ev(k), 0) \o checkpoint(rev, todo[k])]
           e     == settleTurn(turn[n])
           len   == Len(ev(n))
           tail  == IF file[todo[n]].role = "text" THEN Commits(todo[n], e, len) ELSE <<>>
           b     == activeBranch
           ckpt  == [rev |-> rev, leaf |-> Last(b)]
<1>0. Len(file) \in Nat /\ Len(file) \in 0 .. Len(file) /\ \A i \in 1 .. Len(file) : i \in Nat
  BY FileLength, Zenon
<1>1. PICK k \in 0 .. Len(b) : RestOf(todo, b, k)
  BY PendingIsRest DEF RestOf
<1>2. q = FlattenSeq(steps) \o tail \o <<ckpt>>
  BY DEF importPending, checkpoint
<1>3. IsChain(b, file, Len(file))
  BY <1>0, BranchLinks DEF activeBranch
<1>4. PICK Y, p : ev(n) \in Seq(Y) /\ Pattern(ev(n), p)
  BY EventPattern
<1>5. len \in Nat /\ len # 0
  BY <1>4 DEF Pattern
<1>6. e = <<>> \/ e = <<<<"turn.settled", turn[n]>>>>
  BY DEF settleTurn
<1> HIDE DEF todo, b, len, e
<1>7. /\ n \in Nat /\ n # 0 /\ Len(b) \in Nat /\ n = Len(b) - k /\ k \in Nat
      /\ b # <<>> /\ todo \in Seq(1 .. Len(file))
  <2>1. todo \in Seq(1 .. Len(file)) /\ n = Len(b) - k
    BY <1>1 DEF RestOf
  <2>2. todo # <<>>
    BY DEF todo
  <2>3. n \in Nat /\ n # 0
    BY <2>1, <2>2
  <2>4. b \in Seq(1 .. Len(file))
    BY <1>3 DEF IsChain
  <2>5. Len(b) \in Nat
    BY <2>4
  <2>6. k \in Nat /\ Len(b) # 0
    BY <1>1, <2>1, <2>3, <2>5
  <2>7. b # <<>>
    BY <2>6
  <2> QED BY <2>1, <2>3, <2>5, <2>6, <2>7
<1>8. ASSUME NEW i \in 1 .. n PROVE todo[i] \in 1 .. Len(file) /\ todo[i] = b[k + i]
  BY <1>1, <1>7 DEF RestOf
<1>9. ASSUME NEW i \in 1 .. n - 1 PROVE file[todo[i + 1]].parent = todo[i]
  <2>1. i \in 1 .. n /\ i + 1 \in 1 .. n /\ k + (i + 1) \in 1 .. Len(b) /\ k + (i + 1) # 1
        /\ (k + (i + 1)) - 1 = k + i
    BY <1>7
  <2>2. file[b[k + (i + 1)]].parent = b[k + i]
    BY <1>3, <2>1 DEF IsChain
  <2> QED BY <1>8, <2>1, <2>2
<1>10. Last(b) = todo[n] /\ todo[n] \in 1 .. Len(file)
  <2>1. Last(b) = b[Len(b)]
    BY <1>7 DEF Last
  <2>2. n \in 1 .. n /\ k + n = Len(b)
    BY <1>7
  <2> QED BY <1>8, <2>1, <2>2
<1>11. ASSUME NEW i \in 1 .. n
       PROVE  Spans(file, steps[i], todo[i], todo[i])
  <2>1. steps[i] = Commits(todo[i], EventsOf(todo[i], turn[i - 1]), 0) \o checkpoint(rev, todo[i])
    OBVIOUS
  <2> HIDE DEF steps, turn
  <2> QED BY <1>8, <2>1, StepRuns
<1>12. steps = [i \in 1 .. n |-> steps[i]]
  OBVIOUS
<1> HIDE DEF steps, turn, n, tail
<1>13. \E S : steps \in Seq(Seq(S)) /\ Len(steps) = n
  <2> DEFINE S == UNION {ToSet(steps[i]) : i \in 1 .. n}
  <2>1. ASSUME NEW i \in 1 .. n PROVE steps[i] \in Seq(S)
    <3>1. steps[i] \in Seq(ToSet(steps[i]))
      BY <1>11 DEF Spans, Runs
    <3>2. ToSet(steps[i]) \subseteq S
      OBVIOUS
    <3> HIDE DEF S
    <3> QED BY <3>1, <3>2
  <2> HIDE DEF S
  <2>2. steps \in Seq(Seq(S)) /\ Len(steps) = n
    <3>1. steps \in [1 .. n -> Seq(S)]
      BY <1>12, <2>1, Zenon
    <3>2. n \in Nat
      BY <1>7
    <3>3. steps \in Seq(Seq(S))
      BY <3>1, <3>2
    <3> QED BY <3>1, <3>2, <3>3
  <2> QED BY <2>2
<1>14. PICK S : steps \in Seq(Seq(S)) /\ Len(steps) = n
  BY <1>13
<1>15. PICK r : r = FlattenSeq(steps)
  OBVIOUS
<1>16. Spans(file, r, todo[1], todo[n])
  BY <1>7, <1>9, <1>11, <1>14, <1>15, FlattenRuns
<1>18. IsMark(ckpt) /\ EntryOf(ckpt) = todo[n] /\ Proper(file, ckpt) /\ ~Ahead(ckpt)
  BY <1>10, MarkFacts
<1> HIDE DEF ckpt
<1>19. /\ IsMark(r[Len(r)]) /\ ~Ahead(r[Len(r)]) /\ ~Tells(r[Len(r)])
       /\ EntryOf(r[Len(r)]) = todo[n] /\ r \in Seq(ToSet(r))
  BY <1>16 DEF Spans, Runs, Ahead, Opens, Tells
<1>20. CASE tail = <<>>
  <2>1. PICK d : d = <<ckpt>>
    OBVIOUS
  <2>2. Runs(file, d) /\ d[1] = ckpt /\ EntryOf(d[Len(d)]) = todo[n]
    BY <1>18, <2>1 DEF Runs, ToSet
  <2>3. q = r \o d
    <3>1. r \in Seq(ToSet(r))
      BY <1>19
    <3>2. r \o <<>> = r
      BY <3>1
    <3> QED BY <1>2, <1>15, <1>20, <2>1, <3>2
  <2>4. Link(file, r[Len(r)], d[1])
    BY <1>18, <1>19, <2>2 DEF Link
  <2>5. Spans(file, q, todo[1], todo[n])
    BY <1>16, <2>2, <2>3, <2>4, JoinRuns
  <2> QED BY <2>5 DEF todo
<1>21. CASE tail # <<>>
  <2>1. tail = Commits(todo[n], e, len) /\ e # <<>>
    BY <1>21, <1>6 DEF tail, Commits
  <2>2. e = <<<<"turn.settled", turn[n]>>>>
    BY <1>6, <2>1
  <2>3. PICK c : c = CommitOf(todo[n], e, len, 1)
    OBVIOUS
  <2>4. tail = <<c>>
    <3>1. DOMAIN e = 1 .. 1 /\ 1 .. 1 = {1}
      BY <2>2
    <3>2. tail = [i \in 1 .. 1 |-> CommitOf(todo[n], e, len, i)]
      BY <2>1, <3>1 DEF Commits, CommitOf
    <3> QED BY <2>3, <3>2
  <2>5. e[1][1] \notin Message /\ len + 1 # 1
    BY <1>5, <2>2 DEF Message
  <2>6. ~IsMark(c) /\ EntryOf(c) = todo[n] /\ Proper(file, c) /\ ~Tells(c) /\ ~Opens(c) /\ ~Ahead(c)
    BY <1>10, <2>3, <2>5, CommitFacts DEF Ahead
  <2>7. PICK d : d = <<c, ckpt>>
    OBVIOUS
  <2>8. Link(file, c, ckpt)
    BY <1>18, <2>6 DEF Link
  <2>9. Runs(file, d) /\ d[1] = c /\ EntryOf(d[Len(d)]) = todo[n]
    <3>1. d \in Seq({c, ckpt}) /\ Len(d) = 2 /\ d[1] = c /\ d[2] = ckpt /\ d # <<>>
      BY <2>7
    <3>2. d \in Seq(ToSet(d))
      BY <3>1, SeqOfOwn
    <3>3. \A i \in 1 .. 2 : i = 1 \/ i = 2
      OBVIOUS
    <3>4. \A i \in 1 .. 2 - 1 : i = 1
      OBVIOUS
    <3>5. \A i \in 1 .. Len(d) : Proper(file, d[i])
      BY <1>18, <2>6, <3>1, <3>3
    <3>6. \A i \in 1 .. Len(d) - 1 : Link(file, d[i], d[i + 1])
      BY <2>8, <3>1, <3>4
    <3> QED BY <1>18, <3>1, <3>2, <3>5, <3>6 DEF Runs
  <2>10. q = r \o d
    <3>1. r \in Seq(ToSet(r))
      BY <1>19
    <3>2. (r \o <<c>>) \o <<ckpt>> = r \o <<c, ckpt>>
      BY <3>1
    <3> QED BY <1>2, <1>15, <2>4, <2>7, <3>2
  <2>11. Link(file, r[Len(r)], d[1])
    BY <1>19, <2>6, <2>9 DEF Link
  <2>12. Spans(file, q, todo[1], todo[n])
    BY <1>16, <2>9, <2>10, <2>11, JoinRuns
  <2> QED BY <2>12 DEF todo
<1> QED BY <1>20, <1>21

\* An import has nothing to do, or runs over the rest of the active branch.
LEMMA ImportPlans ==
  ASSUME FileOK, NEW rev, NEW q, q = importPending(rev)
  PROVE  q = <<>> \/ Runs(file, q)
<1>1. CASE pendingEntries = <<>>
  BY <1>1 DEF importPending
<1>2. CASE pendingEntries # <<>>
  BY <1>2, ImportRuns DEF Spans
<1> QED BY <1>1, <1>2

-----------------------------------------------------------------------------
(* HistoryImport: a reconciliation leaves nothing open.                    *)

\* The synthesised ends of a turn and of a tool.
EndOfTurn(t) == Event("turn.indeterminate", t, 0, Nothing, <<"reconcile_turn", t>>)
EndOfTool(t) == Event("tool.failed", Nothing, 0, t, <<"reconcile_tool", t>>)

\* An event under the source of a synthesised end is that end, so that an end
\* the log does not repeat is one it holds.
Honest(e) ==
  e.source # Nothing =>
    /\ e.source[1] = "reconcile_turn" => e.type = "turn.indeterminate" /\ e.turn = e.source[2]
    /\ e.source[1] = "reconcile_tool" => e.type = "tool.failed" /\ e.tool = e.source[2]
LogHonest  == log \in Seq(ToSet(log)) /\ \A i \in 1 .. Len(log) : Honest(log[i])
PlanHonest ==
  /\ plan \in Seq(ToSet(plan))
  /\ \A i \in 1 .. Len(plan) : "event" \in DOMAIN plan[i] => Honest(plan[i].event)

\* While the ends are written, whatever is still open has its end in the plan.
EndsPlanned ==
  phase = "boundary" =>
    /\ \A i \in 1 .. Len(plan) :
         /\ plan[i] = [event |-> plan[i].event]
         /\ plan[i].event \in {EndOfTurn(plan[i].event.turn), EndOfTool(plan[i].event.tool)}
    /\ \A t \in openTurns : \E i \in 1 .. Len(plan) : plan[i].event = EndOfTurn(t)
    /\ \A t \in openTools : \E i \in 1 .. Len(plan) : plan[i].event = EndOfTool(t)

HistoryInv == FileOK /\ LogHonest /\ PlanHonest /\ EndsPlanned /\ NothingLeftOpen

\* An empty log over an empty file.
LEMMA HistoryInit == InitHistory => HistoryInv
<1> SUFFICES ASSUME InitHistory PROVE HistoryInv
  OBVIOUS
<1> USE DEF InitHistory
<1>1. FileOK
  BY DEF FileOK, ToSet
<1>2. LogHonest /\ PlanHonest
  BY DEF LogHonest, PlanHonest, ToSet
<1>3. EndsPlanned /\ NothingLeftOpen
  BY DEF EndsPlanned, NothingLeftOpen
<1> QED BY <1>1, <1>2, <1>3 DEF HistoryInv

\* Steps that leave the log, the plan and the file alone, and do not enter the
\* boundary or, with a session of the bridge and no failure, the ready phase.
LEMMA QuietKeeps ==
  ASSUME HistoryInv, UNCHANGED <<file, log, plan, external>>,
         phase' = "boundary" => phase = "boundary",
         phase' = "ready" /\ ~live' /\ ~external /\ ~failed' => phase = "ready" /\ ~live /\ ~failed
  PROVE  HistoryInv'
<1>1. openTurns' = openTurns /\ openTools' = openTools
  BY DEF openTurns, openTools, Of, TurnEnd, ToolEnd, durableStarted, durableTerminal
<1>2. FileOK' /\ LogHonest' /\ PlanHonest'
  BY DEF HistoryInv, FileOK, LogHonest, PlanHonest
<1>3. EndsPlanned' /\ NothingLeftOpen'
  BY <1>1 DEF HistoryInv, EndsPlanned, NothingLeftOpen
<1> QED BY <1>2, <1>3 DEF HistoryInv

\* The file grows by an entry that comes after its parent.
LEMMA FileGrows ==
  ASSUME FileOK, NEW role, NEW p \in 0 .. Len(file), file' = Append(file, NewEntry(role, p))
  PROVE  FileOK'
<1>1. Len(file) \in Nat /\ NewEntry(role, p).parent = p
  BY DEF FileOK, NewEntry
<1> DEFINE e == NewEntry(role, p)
<1> HIDE DEF e
<1>2. file' = Append(file, e) /\ e.parent = p
  BY <1>1 DEF e
<1>3. /\ file' \in Seq(ToSet(file')) /\ Len(file') = Len(file) + 1
      /\ \A i \in 1 .. Len(file) : file'[i] = file[i]
      /\ file'[Len(file) + 1] = e
  BY <1>2, AppendOwn DEF FileOK
<1>4. ASSUME NEW i \in 1 .. Len(file') PROVE file'[i].parent \in Nat /\ file'[i].parent < i
  <2>1. CASE i = Len(file) + 1
    BY <1>1, <1>2, <1>3, <2>1
  <2>2. CASE i # Len(file) + 1
    <3>1. i \in 1 .. Len(file)
      BY <1>1, <1>3, <2>2
    <3> QED BY <1>3, <3>1 DEF FileOK
  <2> QED BY <2>1, <2>2
<1>5. ToSet(file)' = ToSet(file')
  BY DEF ToSet
<1> QED BY <1>3, <1>4, <1>5 DEF FileOK

\* What is open is finite, because the log is.
LEMMA OpenIsFinite ==
  ASSUME log \in Seq(ToSet(log))
  PROVE  IsFiniteSet(openTurns) /\ IsFiniteSet(openTools)
<1> DEFINE D == 1 .. Len(log)
           f == [i \in D |-> log[i].turn]
           g == [i \in D |-> log[i].tool]
           A == {log[i].turn : i \in D}
           B == {log[i].tool : i \in D}
<1>1. IsFiniteSet(D) /\ DOMAIN log = D
  BY FS_Interval
<1>2. f \in Surjection(D, A) /\ g \in Surjection(D, B)
  BY DEF Surjection
<1>3. IsFiniteSet(A) /\ IsFiniteSet(B)
  <2> HIDE DEF A, B, D, f, g
  <2> QED BY <1>1, <1>2, FS_Surjection
<1>4. openTurns \subseteq A /\ openTools \subseteq B
  BY <1>1 DEF openTurns, openTools, Of, durableStarted, durableTerminal
<1> QED BY <1>3, <1>4, FS_Subset

\* An honest event keeps the log honest, and one that ends a turn or a tool
\* opens nothing and closes that.
LEMMA LogGrows ==
  ASSUME LogHonest, NEW e, Honest(e), log' = Append(log, e)
  PROVE  LogHonest'
<1>1. /\ log' \in Seq(ToSet(log')) /\ Len(log') = Len(log) + 1 /\ Len(log) \in Nat
      /\ \A i \in 1 .. Len(log) : log'[i] = log[i]
      /\ log'[Len(log) + 1] = e
  BY AppendOwn DEF LogHonest
<1>2. ASSUME NEW i \in 1 .. Len(log') PROVE Honest(log'[i])
  <2>1. CASE i = Len(log) + 1
    BY <1>1, <2>1
  <2>2. CASE i # Len(log) + 1
    <3>1. i \in 1 .. Len(log)
      BY <1>1, <2>2
    <3> QED BY <1>1, <3>1 DEF LogHonest
  <2> QED BY <2>1, <2>2
<1>3. LogHonest' <=> log' \in Seq(ToSet(log')) /\ \A i \in 1 .. Len(log') : Honest(log'[i])
  BY DEF LogHonest, ToSet, Honest
<1> QED BY <1>1, <1>2, <1>3

\* An event that starts nothing opens nothing, and an end closes what it names.
LEMMA EndCloses ==
  ASSUME LogHonest, NEW e, e.type \notin {"turn.started", "tool.started"}, log' = Append(log, e)
  PROVE  /\ openTurns' \subseteq openTurns /\ openTools' \subseteq openTools
         /\ e.type = "turn.indeterminate" => e.turn \notin openTurns'
         /\ e.type = "tool.failed" => e.tool \notin openTools'
<1>1. /\ DOMAIN log = 1 .. Len(log) /\ DOMAIN log' = 1 .. Len(log) + 1 /\ Len(log) \in Nat
      /\ \A i \in 1 .. Len(log) : log'[i] = log[i]
      /\ log'[Len(log) + 1] = e
  BY AppendOwn DEF LogHonest
<1> DEFINE n == Len(log)
<1>2. \A i \in 1 .. n + 1 : i # n + 1 => i \in 1 .. n
  BY <1>1
<1>3. ASSUME NEW t \in openTurns' PROVE t \in openTurns /\ ~(e.type = "turn.indeterminate" /\ e.turn = t)
  <2>1. PICK i \in 1 .. n + 1 : log'[i].type = "turn.started" /\ log'[i].turn = t
    BY <1>1, <1>3 DEF openTurns, Of
  <2>2. \A j \in 1 .. n + 1 : log'[j].type \in TurnEnd => log'[j].turn # t
    BY <1>1, <1>3 DEF openTurns, Of, TurnEnd
  <2>3. i \in 1 .. n /\ log[i].type = "turn.started" /\ log[i].turn = t
    BY <1>1, <1>2, <2>1
  <2>4. \A j \in 1 .. n : log[j].type \in TurnEnd => log[j].turn # t
    BY <1>1, <2>2
  <2>5. t \in openTurns
    BY <1>1, <2>3, <2>4 DEF openTurns, Of
  <2>6. n + 1 \in 1 .. n + 1
    BY <1>1
  <2>7. e.type \in TurnEnd => e.turn # t
    BY <1>1, <2>2, <2>6
  <2> QED BY <2>5, <2>7 DEF TurnEnd
<1>4. ASSUME NEW t \in openTools' PROVE t \in openTools /\ ~(e.type = "tool.failed" /\ e.tool = t)
  <2>1. PICK i \in 1 .. n + 1 : log'[i].type = "tool.started" /\ log'[i].tool = t
    BY <1>1, <1>4 DEF openTools, durableStarted, Of
  <2>2. \A j \in 1 .. n + 1 : log'[j].type \in ToolEnd => log'[j].tool # t
    BY <1>1, <1>4 DEF openTools, durableTerminal, Of, ToolEnd
  <2>3. i \in 1 .. n /\ log[i].type = "tool.started" /\ log[i].tool = t
    BY <1>1, <1>2, <2>1
  <2>4. \A j \in 1 .. n : log[j].type \in ToolEnd => log[j].tool # t
    BY <1>1, <2>2
  <2>5. t \in openTools
    BY <1>1, <2>3, <2>4 DEF openTools, durableStarted, durableTerminal, Of
  <2>6. n + 1 \in 1 .. n + 1
    BY <1>1
  <2>7. e.type \in ToolEnd => e.tool # t
    BY <1>1, <2>2, <2>6
  <2> QED BY <2>5, <2>7 DEF ToolEnd
<1> QED BY <1>3, <1>4

\* A commit of the plan: an end that is not repeated is in the log already.
LEMMA CommitKeeps == HistoryInv /\ Commit => HistoryInv'
<1> SUFFICES ASSUME HistoryInv, Commit PROVE HistoryInv'
  OBVIOUS
<1> DEFINE h == plan[1]
           e == plan[1].event
<1>1. /\ plan \in Seq(ToSet(plan)) /\ plan # <<>> /\ plan' = Tail(plan) /\ Head(plan) = h
      /\ phase \in {"importing", "importing_exit", "boundary"}
      /\ UNCHANGED <<external, file, live, phase, failed>>
  BY DEF Commit, Working, HistoryInv, PlanHonest
<1>2. /\ plan' \in Seq(ToSet(plan')) /\ Len(plan') = Len(plan) - 1 /\ Len(plan) \in Nat \ {0}
      /\ \A i \in 1 .. Len(plan) - 1 : plan'[i] = plan[i + 1]
  BY <1>1, TailOwn
<1>3. FileOK' /\ NothingLeftOpen'
  BY <1>1 DEF HistoryInv, FileOK, NothingLeftOpen, ToSet
<1>4. PlanHonest'
  <2>1. ASSUME NEW i \in 1 .. Len(plan')
        PROVE  "event" \in DOMAIN plan'[i] => Honest(plan'[i].event)
    <3>1. i \in 1 .. Len(plan) - 1 /\ i + 1 \in 1 .. Len(plan)
      BY <1>2
    <3> QED BY <1>2, <3>1 DEF HistoryInv, PlanHonest
  <2>2. PlanHonest' <=> /\ plan' \in Seq(ToSet(plan'))
                        /\ \A i \in 1 .. Len(plan') :
                             "event" \in DOMAIN plan'[i] => Honest(plan'[i].event)
    BY DEF PlanHonest, ToSet, Honest
  <2> QED BY <1>2, <2>1, <2>2
<1>5. 1 \in 1 .. Len(plan)
  BY <1>2
<1>6. CASE "event" \notin DOMAIN h
  <2>1. log' = log
    BY <1>1, <1>6 DEF Commit
  <2>2. LogHonest'
    BY <2>1 DEF HistoryInv, LogHonest, ToSet
  <2>3. phase # "boundary"
    <3>1. ASSUME h = [event |-> e] PROVE FALSE
      <4>1. DOMAIN [event |-> e] = {"event"}
        OBVIOUS
      <4> QED BY <1>6, <3>1, <4>1
    <3> QED BY <1>5, <3>1 DEF HistoryInv, EndsPlanned
  <2> QED BY <1>1, <1>3, <1>4, <2>2, <2>3 DEF HistoryInv, EndsPlanned
<1>7. CASE "event" \in DOMAIN h
  <2>1. log' = append(log, e) /\ Honest(e)
    BY <1>1, <1>5, <1>7 DEF Commit, HistoryInv, PlanHonest
  <2> DEFINE known == e.source # Nothing /\ \E i \in DOMAIN log : log[i].source = e.source
  <2>2. known => log' = log
    BY <2>1 DEF append
  <2>3. ~known => log' = Append(log, e)
    BY <2>1 DEF append
  <2>4. DOMAIN log = 1 .. Len(log)
    BY DEF HistoryInv, LogHonest
  <2>5. LogHonest'
    <3>1. CASE known
      BY <2>2, <3>1 DEF HistoryInv, LogHonest, ToSet
    <3>2. CASE ~known
      BY <2>1, <2>3, <3>2, LogGrows DEF HistoryInv
    <3> QED BY <3>1, <3>2
  <2>6. ASSUME phase = "boundary"
        PROVE  /\ openTurns' \subseteq openTurns /\ openTools' \subseteq openTools
               /\ \A t \in openTurns' : e # EndOfTurn(t)
               /\ \A t \in openTools' : e # EndOfTool(t)
    <3>1. e = EndOfTurn(e.turn) \/ e = EndOfTool(e.tool)
      BY <1>5, <2>6 DEF HistoryInv, EndsPlanned
    <3>2. /\ e = EndOfTurn(e.turn) => e.type = "turn.indeterminate" /\ e.source = <<"reconcile_turn", e.turn>>
          /\ e = EndOfTool(e.tool) => e.type = "tool.failed" /\ e.source = <<"reconcile_tool", e.tool>>
      BY DEF EndOfTurn, EndOfTool, Event
    <3>3. CASE ~known
      <4>1. /\ openTurns' \subseteq openTurns /\ openTools' \subseteq openTools
            /\ e.type = "turn.indeterminate" => e.turn \notin openTurns'
            /\ e.type = "tool.failed" => e.tool \notin openTools'
        BY <2>3, <3>1, <3>2, <3>3, EndCloses DEF HistoryInv
      <4> QED BY <4>1 DEF EndOfTurn, EndOfTool, Event
    <3>4. CASE known
      <4>1. openTurns' = openTurns /\ openTools' = openTools
        BY <2>2, <3>4 DEF openTurns, openTools, Of, TurnEnd, ToolEnd, durableStarted, durableTerminal
      <4>2. PICK i \in 1 .. Len(log) : log[i].source = e.source /\ e.source # Nothing
        BY <2>4, <3>4
      <4>3. Honest(log[i])
        BY DEF HistoryInv, LogHonest
      <4>4. ASSUME NEW t \in openTurns PROVE e # EndOfTurn(t)
        <5>1. SUFFICES ASSUME e = EndOfTurn(t) PROVE FALSE
          OBVIOUS
        <5>2. log[i].source = <<"reconcile_turn", t>>
          BY <4>2, <5>1 DEF EndOfTurn, Event
        <5>3. log[i].type = "turn.indeterminate" /\ log[i].turn = t
          BY <4>2, <4>3, <5>2 DEF Honest
        <5> QED BY <2>4, <4>4, <5>3 DEF openTurns, Of, TurnEnd
      <4>5. ASSUME NEW t \in openTools PROVE e # EndOfTool(t)
        <5>1. SUFFICES ASSUME e = EndOfTool(t) PROVE FALSE
          OBVIOUS
        <5>2. log[i].source = <<"reconcile_tool", t>>
          BY <4>2, <5>1 DEF EndOfTool, Event
        <5>3. log[i].type = "tool.failed" /\ log[i].tool = t
          BY <4>2, <4>3, <5>2 DEF Honest
        <5> QED BY <2>4, <4>5, <5>3 DEF openTools, durableTerminal, Of, ToolEnd
      <4> QED BY <4>1, <4>4, <4>5
    <3> QED BY <3>3, <3>4
  <2>7. EndsPlanned'
    <3> SUFFICES ASSUME phase = "boundary" PROVE EndsPlanned'
      BY <1>1 DEF EndsPlanned
    <3>1. ASSUME NEW i \in 1 .. Len(plan')
          PROVE  plan'[i] = plan[i + 1] /\ i + 1 \in 1 .. Len(plan)
      BY <1>2
    <3>2. ASSUME NEW t \in openTurns'
          PROVE  \E i \in 1 .. Len(plan') : plan'[i].event = EndOfTurn(t)
      <4>1. PICK i \in 1 .. Len(plan) : plan[i].event = EndOfTurn(t)
        BY <2>6, <3>2 DEF HistoryInv, EndsPlanned
      <4>2. i # 1
        BY <2>6, <3>2, <4>1
      <4>3. i - 1 \in 1 .. Len(plan') /\ plan'[i - 1] = plan[i]
        BY <1>2, <4>2
      <4> QED BY <4>1, <4>3
    <3>3. ASSUME NEW t \in openTools'
          PROVE  \E i \in 1 .. Len(plan') : plan'[i].event = EndOfTool(t)
      <4>1. PICK i \in 1 .. Len(plan) : plan[i].event = EndOfTool(t)
        BY <2>6, <3>3 DEF HistoryInv, EndsPlanned
      <4>2. i # 1
        BY <2>6, <3>3, <4>1
      <4>3. i - 1 \in 1 .. Len(plan') /\ plan'[i - 1] = plan[i]
        BY <1>2, <4>2
      <4> QED BY <4>1, <4>3
    <3>4. ASSUME NEW i \in 1 .. Len(plan')
          PROVE  /\ plan'[i] = [event |-> plan'[i].event]
                 /\ plan'[i].event \in {EndOfTurn(plan'[i].event.turn), EndOfTool(plan'[i].event.tool)}
      BY <3>1 DEF HistoryInv, EndsPlanned
    <3> QED BY <3>2, <3>3, <3>4 DEF EndsPlanned, EndOfTurn, EndOfTool
  <2> QED BY <1>3, <1>4, <2>5, <2>7 DEF HistoryInv
<1> QED BY <1>6, <1>7

\* The plan of the ends has one for every open turn and tool.
LEMMA CloseKeeps == HistoryInv /\ CloseOpen => HistoryInv'
<1> SUFFICES ASSUME HistoryInv, CloseOpen PROVE HistoryInv'
  OBVIOUS
<1> DEFINE toolSeq == SetToSeq(openTools)
           turnSeq == SetToSeq(openTurns)
           a == [i \in DOMAIN toolSeq |-> [event |-> EndOfTool(toolSeq[i])]]
           b == [i \in DOMAIN turnSeq |-> [event |-> EndOfTurn(turnSeq[i])]]
           S == {[event |-> EndOfTool(t)] : t \in openTools}
                \cup {[event |-> EndOfTurn(t)] : t \in openTurns}
<1>1. /\ plan' = appendBoundary /\ phase' = "boundary"
      /\ UNCHANGED <<external, file, live, log, failed>>
  BY DEF CloseOpen
<1>2. plan' = a \o b
  BY <1>1 DEF appendBoundary, EndOfTurn, EndOfTool
<1>3. IsFiniteSet(openTurns) /\ IsFiniteSet(openTools)
  BY OpenIsFinite DEF HistoryInv, LogHonest
<1>4. /\ toolSeq \in Seq(openTools) /\ \A t \in openTools : \E i \in 1 .. Len(toolSeq) : toolSeq[i] = t
      /\ turnSeq \in Seq(openTurns) /\ \A t \in openTurns : \E i \in 1 .. Len(turnSeq) : turnSeq[i] = t
  BY <1>3, SetToSeqLists
<1> HIDE DEF toolSeq, turnSeq
<1>5. /\ a \in Seq(S) /\ Len(a) = Len(toolSeq) /\ Len(a) \in Nat
      /\ b \in Seq(S) /\ Len(b) = Len(turnSeq) /\ Len(b) \in Nat
      /\ \A i \in 1 .. Len(a) : a[i] = [event |-> EndOfTool(toolSeq[i])]
      /\ \A i \in 1 .. Len(b) : b[i] = [event |-> EndOfTurn(turnSeq[i])]
  <2>1. /\ DOMAIN toolSeq = 1 .. Len(toolSeq) /\ Len(toolSeq) \in Nat
        /\ DOMAIN turnSeq = 1 .. Len(turnSeq) /\ Len(turnSeq) \in Nat
    BY <1>4
  <2>2. \A i \in 1 .. Len(toolSeq) : [event |-> EndOfTool(toolSeq[i])] \in S
    BY <1>4
  <2>3. \A i \in 1 .. Len(turnSeq) : [event |-> EndOfTurn(turnSeq[i])] \in S
    BY <1>4
  <2> HIDE DEF S
  <2>4. a \in [1 .. Len(toolSeq) -> S] /\ b \in [1 .. Len(turnSeq) -> S]
    BY <2>1, <2>2, <2>3
  <2>5. a \in Seq(S) /\ Len(a) = Len(toolSeq) /\ b \in Seq(S) /\ Len(b) = Len(turnSeq)
    <3> HIDE DEF a, b
    <3> QED BY <2>1, <2>4
  <2> QED BY <2>1, <2>5
<1>6. \A c \in S : /\ c = [event |-> c.event] /\ Honest(c.event)
                   /\ c.event \in {EndOfTurn(c.event.turn), EndOfTool(c.event.tool)}
  BY DEF EndOfTurn, EndOfTool, Event, Honest
<1> HIDE DEF S, a, b
<1>7. /\ plan' \in Seq(S) /\ Len(plan') = Len(a) + Len(b)
      /\ \A i \in 1 .. Len(a) : plan'[i] = a[i]
      /\ \A i \in 1 .. Len(b) : plan'[Len(a) + i] = b[i]
  <2>1. a \o b \in Seq(S) /\ Len(a \o b) = Len(a) + Len(b)
    BY <1>5
  <2>2. \A i \in 1 .. Len(a) : (a \o b)[i] = a[i]
    BY <1>5
  <2>3. \A i \in 1 .. Len(b) : (a \o b)[Len(a) + i] = b[i]
    BY <1>5
  <2> QED BY <1>2, <2>1, <2>2, <2>3
<1>8. PlanHonest'
  <2>1. plan' \in Seq(ToSet(plan'))
    BY <1>7, SeqOfOwn
  <2>2. \A i \in 1 .. Len(plan') : Honest(plan'[i].event)
    BY <1>6, <1>7
  <2> QED BY <2>1, <2>2 DEF PlanHonest, ToSet, Honest
<1>9. openTurns' = openTurns /\ openTools' = openTools
  BY <1>1 DEF openTurns, openTools, Of, TurnEnd, ToolEnd, durableStarted, durableTerminal
<1>10. EndsPlanned'
  <2>1. ASSUME NEW t \in openTools
        PROVE  \E i \in 1 .. Len(plan') : plan'[i].event = EndOfTool(t)
    <3>1. PICK i \in 1 .. Len(toolSeq) : toolSeq[i] = t
      BY <1>4
    <3>2. i \in 1 .. Len(a) /\ i \in 1 .. Len(plan')
      BY <1>5, <1>7
    <3>3. plan'[i] = [event |-> EndOfTool(t)]
      BY <1>5, <1>7, <3>1, <3>2
    <3> QED BY <3>2, <3>3
  <2>2. ASSUME NEW t \in openTurns
        PROVE  \E i \in 1 .. Len(plan') : plan'[i].event = EndOfTurn(t)
    <3>1. PICK i \in 1 .. Len(turnSeq) : turnSeq[i] = t
      BY <1>4
    <3>2. i \in 1 .. Len(b) /\ Len(a) + i \in 1 .. Len(plan')
      BY <1>5, <1>7
    <3>3. plan'[Len(a) + i] = [event |-> EndOfTurn(t)]
      BY <1>5, <1>7, <3>1, <3>2
    <3> QED BY <3>2, <3>3
  <2>3. \A i \in 1 .. Len(plan') :
          /\ plan'[i] = [event |-> plan'[i].event]
          /\ plan'[i].event \in {EndOfTurn(plan'[i].event.turn), EndOfTool(plan'[i].event.tool)}
    BY <1>6, <1>7
  <2> QED BY <1>9, <2>1, <2>2, <2>3 DEF EndsPlanned, EndOfTurn, EndOfTool
<1>11. FileOK' /\ LogHonest' /\ NothingLeftOpen'
  BY <1>1 DEF HistoryInv, FileOK, LogHonest, NothingLeftOpen, ToSet
<1> QED BY <1>8, <1>10, <1>11 DEF HistoryInv

\* The live path records events that carry no source.
LEMMA LiveKeeps ==
  ASSUME HistoryInv, SettleLive \/ \E role \in Role : RecordLive(role)
  PROVE  HistoryInv'
<1>1. live /\ phase = "ready" /\ UNCHANGED <<external, live, phase, plan, failed>>
  BY DEF SettleLive, RecordLive
<1>2. PlanHonest' /\ EndsPlanned' /\ NothingLeftOpen'
  BY <1>1 DEF HistoryInv, PlanHonest, EndsPlanned, NothingLeftOpen, ToSet
<1>3. ASSUME NEW type, NEW turn, NEW n, NEW tool PROVE Honest(Event(type, turn, n, tool, Nothing))
  BY DEF Honest, Event
<1>4. CASE SettleLive
  <2>1. PICK t : log' = Append(log, Event("turn.settled", t, 0, Nothing, Nothing))
    BY <1>4 DEF SettleLive
  <2>2. LogHonest'
    BY <1>3, <2>1, LogGrows DEF HistoryInv
  <2>3. FileOK'
    BY <1>4 DEF SettleLive, HistoryInv, FileOK, ToSet
  <2> QED BY <1>2, <2>2, <2>3 DEF HistoryInv
<1>5. ASSUME NEW role \in Role, RecordLive(role) PROVE HistoryInv'
  <2> DEFINE n == Len(file) + 1
             e == NewEntry(role, Len(file))
             ev(type, turn) == Event(type, turn, n, e.tool, Nothing)
             u == ev("user.message.created", Nothing)
             v == CASE role = "user" -> ev("turn.started", <<"live", n>>)
                    [] role = "text" -> ev("assistant.message", Nothing)
                    [] role = "call" -> ev("tool.started", Nothing)
                    [] OTHER         -> ev("tool.completed", Nothing)
  <2>1. FileOK'
    <3>1. Len(file) \in 0 .. Len(file)
      BY DEF HistoryInv, FileOK
    <3> QED BY <1>5, <3>1, FileGrows DEF HistoryInv, RecordLive
  <2>2. Honest(u) /\ Honest(v)
    BY <1>3
  <2>3. log' = IF role = "user" THEN log \o <<u, v>> ELSE log \o <<v>>
    BY <1>5 DEF RecordLive
  <2> HIDE DEF u, v
  <2>4. log \in Seq(ToSet(log)) /\ \A i \in 1 .. Len(log) : Honest(log[i])
    BY DEF HistoryInv, LogHonest
  <2> DEFINE S == ToSet(log) \cup {u, v}
  <2>5. log \in Seq(S) /\ u \in S /\ v \in S
    <3>1. \A T : ToSet(log) \subseteq T => log \in Seq(T)
      BY <2>4
    <3> QED BY <3>1
  <2> HIDE DEF S
  <2>6. /\ log' \in Seq(S) /\ Len(log) \in Nat /\ Len(log') \in {Len(log) + 1, Len(log) + 2}
        /\ \A i \in 1 .. Len(log) : log'[i] = log[i]
        /\ \A i \in 1 .. Len(log') : i > Len(log) => log'[i] \in {u, v}
    <3>1. CASE role = "user"
      BY <2>3, <2>5, <3>1
    <3>2. CASE role # "user"
      BY <2>3, <2>5, <3>2
    <3> QED BY <3>1, <3>2
  <2>7. \A i \in 1 .. Len(log') : Honest(log'[i])
    <3>1. ASSUME NEW i \in 1 .. Len(log'), ~(i > Len(log)) PROVE i \in 1 .. Len(log)
      BY <2>6, <3>1
    <3> QED BY <2>2, <2>4, <2>6, <3>1
  <2>8. log' \in Seq(ToSet(log'))
    BY <2>6, SeqOfOwn
  <2>9. LogHonest' <=> log' \in Seq(ToSet(log')) /\ \A i \in 1 .. Len(log') : Honest(log'[i])
    BY DEF LogHonest, ToSet, Honest
  <2> QED BY <1>2, <2>1, <2>7, <2>8, <2>9 DEF HistoryInv
<1> QED BY <1>4, <1>5

\* Pi writes where nobody listens: only the file changes.
LEMMA UnheardKeeps ==
  ASSUME HistoryInv, NEW role, NEW p \in 0 .. Len(file), WriteUnheard(role, p)
  PROVE  HistoryInv'
<1>1. FileOK'
  BY FileGrows DEF HistoryInv, WriteUnheard
<1>2. UNCHANGED <<external, live, log, phase, plan, failed>>
  BY DEF WriteUnheard
<1>3. openTurns' = openTurns /\ openTools' = openTools
  BY <1>2 DEF openTurns, openTools, Of, TurnEnd, ToolEnd, durableStarted, durableTerminal
<1>4. LogHonest' /\ PlanHonest' /\ EndsPlanned' /\ NothingLeftOpen'
  BY <1>2, <1>3 DEF HistoryInv, LogHonest, PlanHonest, EndsPlanned, NothingLeftOpen, ToSet
<1> QED BY <1>1, <1>4 DEF HistoryInv

\* An import is planned, or the plan is given up: it is not the boundary's.
LEMMA PlansKeep ==
  ASSUME HistoryInv, StatFile \/ ReadFile \/ Die \/ ImportThrows
  PROVE  HistoryInv'
<1>1. /\ UNCHANGED <<external, file, live, log>>
      /\ phase' # "boundary"
      /\ phase' = "ready" => external \/ failed'
  BY DEF StatFile, ReadFile, Die, ImportThrows, Importing
<1>2. FileOK' /\ LogHonest' /\ EndsPlanned' /\ NothingLeftOpen'
  BY <1>1 DEF HistoryInv, FileOK, LogHonest, EndsPlanned, NothingLeftOpen, ToSet
<1>3. PlanHonest'
  <2>1. CASE plan' = plan
    BY <2>1 DEF HistoryInv, PlanHonest, ToSet
  <2>2. CASE plan' = <<>>
    BY <2>2 DEF PlanHonest, ToSet
  <2>3. CASE \E rev : plan' = checkpoint(rev, 0)
    <3>1. PICK rev : plan' = <<[rev |-> rev, leaf |-> 0]>>
      BY <2>3 DEF checkpoint
    <3>2. plan' \in Seq({[rev |-> rev, leaf |-> 0]}) /\ Len(plan') = 1
          /\ "event" \notin DOMAIN plan'[1]
      BY <3>1
    <3>3. plan' \in Seq(ToSet(plan'))
      BY <3>2, SeqOfOwn
    <3> QED BY <3>2, <3>3 DEF PlanHonest, ToSet
  <2>4. CASE \E rev : plan' = importPending(rev)
    <3>1. \/ plan' = <<>>
          \/ /\ plan' \in Seq(ToSet(plan'))
             /\ \A i \in 1 .. Len(plan') : Proper(file, plan'[i])
      BY <2>4, ImportPlans DEF HistoryInv, Runs
    <3>2. CASE plan' = <<>>
      BY <3>2 DEF PlanHonest, ToSet
    <3>3. \A c : Proper(file, c) /\ "event" \in DOMAIN c => Honest(c.event)
      BY DEF Proper, IsMark, Honest
    <3>4. PlanHonest' <=> /\ plan' \in Seq(ToSet(plan'))
                          /\ \A i \in 1 .. Len(plan') :
                               "event" \in DOMAIN plan'[i] => Honest(plan'[i].event)
      BY DEF PlanHonest, ToSet, Honest
    <3> QED BY <3>1, <3>2, <3>3, <3>4
  <2> QED BY <2>1, <2>2, <2>3, <2>4 DEF StatFile, ReadFile, Die, ImportThrows
<1> QED BY <1>2, <1>3 DEF HistoryInv

\* When the plan of the ends has been carried out nothing is open.
LEMMA ReconcileKeeps == HistoryInv /\ ReconcileEnds => HistoryInv'
<1> SUFFICES ASSUME HistoryInv, ReconcileEnds PROVE HistoryInv'
  OBVIOUS
<1>1. /\ phase = "boundary" /\ plan = <<>> /\ phase' = "ready"
      /\ UNCHANGED <<external, file, live, log, plan, failed>>
  BY DEF ReconcileEnds
<1>2. openTurns = {} /\ openTools = {}
  BY <1>1 DEF HistoryInv, EndsPlanned
<1>3. openTurns' = openTurns /\ openTools' = openTools
  BY <1>1 DEF openTurns, openTools, Of, TurnEnd, ToolEnd, durableStarted, durableTerminal
<1> QED BY <1>1, <1>2, <1>3
        DEF HistoryInv, FileOK, LogHonest, PlanHonest, EndsPlanned, NothingLeftOpen, ToSet

\* One case per read, commit, death and live event.
LEMMA HistoryStep == HistoryInv /\ [NextHistory]_historyVars => HistoryInv'
<1> SUFFICES ASSUME HistoryInv, [NextHistory]_historyVars PROVE HistoryInv'
  OBVIOUS
<1>1. CASE Start \/ ImportEnds \/ ActivatePi \/ PiExits
  BY <1>1, QuietKeeps DEF Start, ImportEnds, ActivatePi, PiExits
<1>2. CASE StatFile \/ ReadFile \/ Die \/ ImportThrows
  BY <1>2, PlansKeep
<1>3. CASE Commit \/ CloseOpen \/ ReconcileEnds
  BY <1>3, CommitKeeps, CloseKeeps, ReconcileKeeps
<1>4. CASE \E role \in Role, p \in 0 .. Len(file) : WriteUnheard(role, p)
  BY <1>4, UnheardKeeps
<1>5. CASE SettleLive \/ \E role \in Role : RecordLive(role)
  BY <1>5, LiveKeeps
<1>6. CASE UNCHANGED historyVars
  BY <1>6, QuietKeeps DEF historyVars
<1> QED BY <1>1, <1>2, <1>3, <1>4, <1>5, <1>6 DEF NextHistory

\* Once a session of the bridge has been reconciled and no process owns it, no
\* turn and no tool of its transcript is open (external-history.ts, appendBoundary
\* and reconcileSession), for any file, any branches, any number of deaths and
\* failed writes: the end that a repeated reconciliation does not append again
\* is one the log holds.
THEOREM NothingStaysOpen == HistorySpec => []NothingLeftOpen
<1>1. HistoryInv => NothingLeftOpen
  BY DEF HistoryInv
<1> QED BY <1>1, HistoryInit, HistoryStep, PTL DEF HistorySpec

-----------------------------------------------------------------------------
(* HistoryImport: the transcript of a session nobody listened to is the    *)
(* branch up to the leaf of its marker.                                    *)

\* The entries of the messages of a log are all that EntriesOf lists.
LEMMA EntriesIn ==
  ASSUME NEW l, l \in Seq(ToSet(l)), NEW S, EntriesOf(l) \in Seq(S),
         NEW i \in 1 .. Len(l), l[i].type \in Message
  PROVE  l[i].entry \in S
<1> DEFINE n == Len(l)
           E == {l[j].entry : j \in 1 .. Len(l)}
           g == CHOOSE h : Shows(h, l, n)
           has(s, k) == \A j \in 1 .. k : l[j].type \in Message => \E a \in 1 .. Len(s) : s[a] = l[j].entry
           more(k) == IF l[k].type \in Message THEN <<l[k].entry>> ELSE <<>>
           T == {k \in 0 .. n : g[k] \in Seq(E) /\ has(g[k], k)}
<1>0. n \in Nat /\ n \in 0 .. n
  OBVIOUS
<1>1. \A j \in 1 .. n : l[j].entry \in E
  OBVIOUS
<1>2. Shows(g, l, n)
  <2>1. PICK F : F = E
    OBVIOUS
  <2>2. \A j \in 1 .. Len(l) : l[j].type \in Message => l[j].entry \in F
    BY <1>1, <2>1
  <2>3. \E h : Shows(h, l, n)
    BY <1>0, <2>2, ShowsExist
  <2> QED BY <2>3
<1>3. EntriesOf(l) = g[n]
  BY DEF EntriesOf, Shows
<1> HIDE DEF g, E, n
<1>4. \A k \in 0 .. n : g[k] = IF k = 0 THEN <<>> ELSE g[k - 1] \o more(k)
  BY <1>2 DEF Shows
<1>5. 0 \in T
  <2>1. 0 \in 0 .. n /\ 1 .. 0 = {}
    BY <1>0
  <2>2. g[0] = <<>>
    BY <1>4, <2>1
  <2>3. g[0] \in Seq(E)
    BY <2>2
  <2>4. has(g[0], 0)
    BY <2>1
  <2> HIDE DEF has
  <2> QED BY <2>1, <2>3, <2>4
<1>6. ASSUME NEW k \in 0 .. n, k \in T, k < n PROVE k + 1 \in T
  <2>1. k + 1 \in 0 .. n /\ k + 1 \in 1 .. n /\ k + 1 # 0 /\ (k + 1) - 1 = k
    BY <1>0, <1>6
  <2>2. g[k + 1] = g[k] \o more(k + 1)
    BY <1>4, <2>1
  <2>3. PICK s, t : s = g[k] /\ t = g[k + 1]
    OBVIOUS
  <2>4. s \in Seq(E) /\ has(s, k) /\ l[k + 1].entry \in E
    BY <1>1, <1>6, <2>1, <2>3
  <2>5. /\ t \in Seq(E) /\ Len(t) >= Len(s) /\ \A a \in 1 .. Len(s) : t[a] = s[a]
        /\ l[k + 1].type \in Message => Len(t) = Len(s) + 1 /\ t[Len(s) + 1] = l[k + 1].entry
    <3>1. CASE l[k + 1].type \in Message
      <4>1. t = s \o <<l[k + 1].entry>>
        BY <2>2, <2>3, <3>1
      <4> QED BY <2>4, <4>1
    <3>2. CASE l[k + 1].type \notin Message
      <4>1. t = s \o <<>>
        BY <2>2, <2>3, <3>2
      <4> QED BY <2>4, <3>2, <4>1
    <3> QED BY <3>1, <3>2
  <2>6. Len(s) \in Nat /\ Len(t) \in Nat
    BY <2>4, <2>5
  <2>7. ASSUME NEW j \in 1 .. k + 1, l[j].type \in Message
        PROVE  \E a \in 1 .. Len(t) : t[a] = l[j].entry
    <3>1. CASE j = k + 1
      <4>1. Len(s) + 1 \in 1 .. Len(t)
        BY <2>5, <2>6, <2>7, <3>1
      <4> QED BY <2>5, <2>7, <3>1, <4>1
    <3>2. CASE j # k + 1
      <4>1. j \in 1 .. k
        BY <3>2
      <4>2. PICK a \in 1 .. Len(s) : s[a] = l[j].entry
        BY <2>4, <2>7, <4>1
      <4>3. a \in 1 .. Len(t)
        BY <2>5, <2>6
      <4> QED BY <2>5, <4>2, <4>3
    <3> QED BY <3>1, <3>2
  <2> QED BY <2>1, <2>3, <2>5, <2>7
<1>7. 0 .. n \subseteq T
  <2> HIDE DEF T
  <2> QED BY <1>0, <1>5, <1>6, UpTo
<1>8. has(g[n], n)
  BY <1>0, <1>7
<1>9. i \in 1 .. n
  BY DEF n
<1>10. PICK a \in 1 .. Len(g[n]) : g[n][a] = l[i].entry
  BY <1>8, <1>9
<1>11. g[n] \in Seq(S)
  BY <1>3
<1> QED BY <1>10, <1>11

\* An empty log shows nothing.
LEMMA NoEntries == EntriesOf(<<>>) = <<>>
<1> DEFINE l == <<>>
           z == CHOOSE h : Shows(h, l, 0)
<1>1. l \in Seq(ToSet(l)) /\ Len(l) = 0 /\ 0 \in 0 .. Len(l)
  BY DEF ToSet
<1>2. \A j \in 1 .. Len(l) : l[j].type \in Message => l[j].entry \in {}
  BY <1>1
<1>3. EntriesOf(<<>>) = z[0]
  BY <1>1 DEF EntriesOf, Shows
<1> HIDE DEF l
<1>4. Shows(z, l, 0)
  BY <1>1, <1>2, ShowsExist
<1> HIDE DEF z
<1>5. z[0] = <<>>
  BY <1>4 DEF Shows
<1> QED BY <1>3, <1>5

\* The rest of a run of commits runs on, and the first links to the second.
LEMMA RestRuns ==
  ASSUME NEW fl, NEW q, Runs(fl, q), NEW r, r = Tail(q)
  PROVE  IF r = <<>> THEN IsMark(q[1]) ELSE Runs(fl, r) /\ Link(fl, q[1], r[1])
<1>1. /\ r \in Seq(ToSet(r)) /\ Len(r) = Len(q) - 1 /\ Len(q) \in Nat \ {0}
      /\ \A i \in 1 .. Len(q) - 1 : r[i] = q[i + 1]
  BY TailOwn DEF Runs
<1>2. CASE r = <<>>
  <2>1. Len(r) = 0
    BY <1>2
  <2>2. Len(q) = 1
    BY <1>1, <2>1
  <2> QED BY <1>2, <2>2 DEF Runs
<1>3. CASE r # <<>>
  <2>1. Len(r) # 0 /\ Len(r) \in Nat
    BY <1>1, <1>3
  <2>2. \A i \in 1 .. Len(r) : r[i] = q[i + 1] /\ i + 1 \in 1 .. Len(q)
    BY <1>1
  <2>3. \A i \in 1 .. Len(r) - 1 : r[i] = q[i + 1] /\ r[i + 1] = q[i + 1 + 1] /\ i + 1 \in 1 .. Len(q) - 1
    BY <1>1
  <2>4. r[Len(r)] = q[Len(q)] /\ r[1] = q[1 + 1] /\ 1 \in 1 .. Len(q) - 1
    BY <1>1, <2>1
  <2>5. \A i \in 1 .. Len(r) : Proper(fl, r[i])
    BY <2>2 DEF Runs
  <2>6. \A i \in 1 .. Len(r) - 1 : Link(fl, r[i], r[i + 1])
    BY <2>3 DEF Runs
  <2>7. IsMark(r[Len(r)]) /\ Link(fl, q[1], r[1])
    BY <2>4 DEF Runs
  <2> QED BY <1>1, <1>3, <2>5, <2>6, <2>7 DEF Runs
<1> QED BY <1>2, <1>3

\* A run of commits stays one when the file grows.
LEMMA RunsGrow ==
  ASSUME NEW fl, NEW gl, NEW q, Runs(fl, q), Len(fl) \in Nat, Len(gl) \in Nat, Len(fl) <= Len(gl),
         \A i \in 1 .. Len(fl) : gl[i].parent = fl[i].parent
  PROVE  Runs(gl, q)
<1>1. \A i \in 1 .. Len(fl) : i \in 1 .. Len(gl)
  OBVIOUS
<1>2. ASSUME NEW c, Proper(fl, c) PROVE Proper(gl, c) /\ gl[EntryOf(c)].parent = fl[EntryOf(c)].parent
  BY <1>1, <1>2 DEF Proper
<1>3. ASSUME NEW c, NEW d, Proper(fl, d), Link(fl, c, d) PROVE Link(gl, c, d)
  BY <1>2, <1>3 DEF Link
<1>4. q \in Seq(ToSet(q)) /\ Len(q) \in Nat
  BY DEF Runs
<1>5. \A i \in 1 .. Len(q) - 1 : i + 1 \in 1 .. Len(q)
  BY <1>4
<1>6. \A i \in 1 .. Len(q) : Proper(gl, q[i])
  BY <1>2 DEF Runs
<1>7. \A i \in 1 .. Len(q) - 1 : Link(gl, q[i], q[i + 1])
  BY <1>3, <1>5 DEF Runs
<1> QED BY <1>6, <1>7 DEF Runs

-----------------------------------------------------------------------------
Copying == phase \in {"importing", "importing_exit"} /\ plan # <<>>

\* How much of the file fl a log l tells, with the marker at leaf and c the next
\* commit of an import that is under way: the branch up to the entry of a commit
\* that comes after the message of its entry, otherwise the branch up to the leaf,
\* of which an entry that is about to be told is the next; nothing is appended
\* before the first entry.
Exactly(fl, l, leaf, busy, c) ==
  /\ EntriesOf(l) = ChainOf(fl, IF busy /\ ~Ahead(c) THEN EntryOf(c) ELSE leaf)
  /\ busy /\ Ahead(c) => fl[EntryOf(c)].parent = leaf
  /\ leaf = 0 /\ (busy => Opens(c)) => l = <<>>

\* An event that an import appended is known by its entry and its type.
Named(e) ==
  e.source # Nothing /\ e.source[1] = "history" => e.source[2] = e.entry /\ e.source[3] = e.type

LeafOK   == marker.leaf \in 0 .. Len(file)
LogNamed == \A i \in 1 .. Len(log) : Named(log[i])
PlanRuns == Copying => Runs(file, plan)
Copied   ==
  ~HeardLive /\ ~torn =>
    /\ Exactly(file, log, marker.leaf, Copying, plan[1])
    /\ phase = "boundary" /\ marker.leaf = 0 => plan = <<>>
CopyInv == LeafOK /\ LogNamed /\ PlanRuns /\ Copied

\* The parts of the invariant in the next state.
LEMMA CopyPrimed ==
  /\ LogNamed' <=> \A i \in 1 .. Len(log') : Named(log'[i])
  /\ PlanRuns' <=> (Copying' => Runs(file', plan'))
  /\ Copied' <=> (~HeardLive' /\ ~torn' =>
                    /\ Exactly(file', log', marker'.leaf, Copying', plan'[1])
                    /\ phase' = "boundary" /\ marker'.leaf = 0 => plan' = <<>>)
<1>1. LogNamed' <=> \A i \in 1 .. Len(log') : Named(log'[i])
  BY DEF LogNamed, Named
<1>2. PlanRuns' <=> (Copying' => Runs(file', plan'))
  BY DEF PlanRuns, Runs, Proper, Link, Ahead, Opens, Tells, EntryOf, IsMark, ToSet, Message
<1>3. Copied' <=> (~HeardLive' /\ ~torn' =>
                    /\ Exactly(file', log', marker'.leaf, Copying', plan'[1])
                    /\ phase' = "boundary" /\ marker'.leaf = 0 => plan' = <<>>)
  BY Zenon DEF Copied, Exactly, EntriesOf, ChainOf, Chains, Ahead, Opens, Tells, EntryOf, IsMark, Message
<1> QED BY <1>1, <1>2, <1>3

\* Nothing is copied at the start.
LEMMA CopyInit == InitHistory => CopyInv
<1> SUFFICES ASSUME InitHistory PROVE CopyInv
  OBVIOUS
<1>1. file = <<>> /\ log = <<>> /\ marker.leaf = 0 /\ ~Copying /\ phase = "down"
  BY DEF InitHistory, Copying
<1>2. Rooted(file)
  BY <1>1 DEF Rooted, ToSet
<1>3. LeafOK /\ LogNamed /\ PlanRuns
  BY <1>1 DEF LeafOK, LogNamed, PlanRuns
<1>4. EntriesOf(log) = ChainOf(file, 0)
  BY <1>1, <1>2, NoEntries, ChainStep
<1>5. Copied
  BY <1>1, <1>4 DEF Copied, Exactly
<1> QED BY <1>3, <1>5 DEF CopyInv

\* No import is under way before the step or after it, and file, log and marker
\* stay as they are.
LEMMA CopyQuiet ==
  ASSUME CopyInv, UNCHANGED <<file, log, marker, torn>>, ~Copying, ~Copying',
         phase' = "boundary" /\ log = <<>> => plan' = <<>>
  PROVE  CopyInv'
<1>1. HeardLive' <=> HeardLive
  BY DEF HeardLive
<1>2. LeafOK' /\ LogNamed' /\ PlanRuns'
  BY CopyPrimed DEF CopyInv, LeafOK, LogNamed
<1>3. ASSUME ~HeardLive', ~torn'
      PROVE  /\ Exactly(file', log', marker'.leaf, Copying', plan'[1])
             /\ phase' = "boundary" /\ marker'.leaf = 0 => plan' = <<>>
  <2>1. Exactly(file, log, marker.leaf, Copying, plan[1])
    BY <1>1, <1>3 DEF CopyInv, Copied
  <2> QED BY <2>1 DEF Exactly
<1> QED BY <1>2, <1>3, CopyPrimed DEF CopyInv

\* An import that ends early and leaves no entry half copied ends between two.
LEMMA CopyStops ==
  ASSUME HistoryInv, CopyInv, Die \/ ImportThrows
  PROVE  CopyInv'
<1>1. /\ UNCHANGED <<file, log, marker>> /\ plan' = <<>> /\ torn' = (torn \/ Torn)
      /\ phase' # "boundary"
  BY DEF Die, ImportThrows
<1>2. ~Copying'
  BY <1>1 DEF Copying
<1>3. HeardLive' <=> HeardLive
  BY <1>1 DEF HeardLive
<1>4. LeafOK' /\ LogNamed' /\ PlanRuns'
  BY <1>1, <1>2, CopyPrimed DEF CopyInv, LeafOK, LogNamed
<1>5. ASSUME ~HeardLive', ~torn'
      PROVE  /\ Exactly(file', log', marker'.leaf, Copying', plan'[1])
             /\ phase' = "boundary" /\ marker'.leaf = 0 => plan' = <<>>
  <2>1. Exactly(file, log, marker.leaf, Copying, plan[1]) /\ ~Torn
    BY <1>1, <1>3, <1>5 DEF CopyInv, Copied
  <2>2. ASSUME Copying PROVE Opens(plan[1]) /\ Ahead(plan[1])
    <3>1. Head(plan) = plan[1]
      BY <2>2 DEF Copying, HistoryInv, PlanHonest
    <3> QED BY <2>1, <2>2, <3>1 DEF Torn, Copying, Opens, IsMark, Ahead
  <2>3. EntriesOf(log) = ChainOf(file, marker.leaf) /\ (marker.leaf = 0 => log = <<>>)
    BY <2>1, <2>2 DEF Exactly
  <2> QED BY <1>1, <1>2, <2>3 DEF Exactly
<1> QED BY <1>4, <1>5, CopyPrimed DEF CopyInv

\* With nothing in the log there is nothing to close.
LEMMA NothingToClose ==
  ASSUME log = <<>>
  PROVE  openTurns = {} /\ openTools = {} /\ appendBoundary = <<>>
<1>1. \A type : Of(type) = {}
  BY DEF Of
<1>2. openTurns = {} /\ openTools = {}
  BY <1>1 DEF openTurns, openTools, durableStarted
<1>3. PICK q : q = SetToSeq({})
  OBVIOUS
<1>4. q \in Seq({})
  BY <1>3, SetToSeqLists, FS_EmptySet
<1>5. q = <<>>
  BY <1>4
<1>6. [i \in DOMAIN q |-> [event |-> EndOfTool(q[i])]] = <<>> /\ [i \in DOMAIN q |-> [event |-> EndOfTurn(q[i])]] = <<>>
  BY <1>5
<1>7. appendBoundary = [i \in DOMAIN q |-> [event |-> EndOfTool(q[i])]] \o [i \in DOMAIN q |-> [event |-> EndOfTurn(q[i])]]
  BY <1>2, <1>3 DEF appendBoundary, EndOfTool, EndOfTurn
<1>8. <<>> \o <<>> = <<>>
  OBVIOUS
<1> QED BY <1>2, <1>6, <1>7, <1>8

\* What is imported next continues the branch the log tells.
LEMMA CopyReads ==
  ASSUME HistoryInv, CopyInv, ReadFile
  PROVE  CopyInv'
<1>1. /\ UNCHANGED <<file, log, marker, torn>> /\ ~Copying /\ phase' # "boundary"
      /\ phase' \in {"importing", "importing_exit"}
  BY DEF ReadFile, Copying
<1>2. PICK rev, q : q = importPending(rev) /\ plan' = q
  BY DEF ReadFile
<1>3. HeardLive' <=> HeardLive
  BY <1>1 DEF HeardLive
<1>4. LeafOK' /\ LogNamed'
  BY <1>1, CopyPrimed DEF CopyInv, LeafOK, LogNamed
<1>5. FileOK /\ Rooted(file)
  BY DEF HistoryInv, FileOK, Rooted
<1>6. PlanRuns'
  <2>1. q = <<>> \/ Runs(file, q)
    BY <1>2, <1>5, ImportPlans
  <2> QED BY <1>1, <1>2, <2>1, CopyPrimed DEF Copying
<1>7. ASSUME ~HeardLive', ~torn'
      PROVE  Exactly(file', log', marker'.leaf, Copying', plan'[1])
  <2>1. EntriesOf(log) = ChainOf(file, marker.leaf) /\ (marker.leaf = 0 => log = <<>>)
    BY <1>1, <1>3, <1>7 DEF CopyInv, Copied, Exactly
  <2>2. CASE q = <<>>
    <3>1. ~Copying'
      BY <1>2, <2>2 DEF Copying
    <3> QED BY <1>1, <2>1, <3>1 DEF Exactly
  <2>3. CASE q # <<>>
    <3>1. pendingEntries # <<>>
      BY <1>2, <2>3 DEF importPending
    <3>2. PICK d : Spans(file, q, pendingEntries[1], d)
      BY <1>2, <1>5, <3>1, ImportRuns
    <3>3. Opens(q[1]) /\ Ahead(q[1]) /\ EntryOf(q[1]) = pendingEntries[1]
      BY <3>2 DEF Spans, Ahead
    <3>4. log = <<>> => marker.leaf = 0
      <4>1. SUFFICES ASSUME log = <<>>, marker.leaf # 0 PROVE FALSE
        OBVIOUS
      <4>2. IsChain(ChainOf(file, marker.leaf), file, marker.leaf)
        BY <1>5, ChainLinks DEF CopyInv, LeafOK
      <4>3. EntriesOf(log) = <<>>
        BY <4>1, NoEntries
      <4>4. Len(<<>>) = 0
        OBVIOUS
      <4> QED BY <2>1, <4>1, <4>2, <4>3, <4>4 DEF IsChain
    <3>5. \E k : /\ RestOf(pendingEntries, activeBranch, k)
                 /\ marker.leaf = IF k = 0 THEN 0 ELSE activeBranch[k]
      <4>1. CASE log = <<>>
        BY <1>5, <3>1, <3>4, <4>1, PendingIsRest
      <4>2. CASE log # <<>>
        BY <1>5, <2>1, <3>1, <4>2, PendingIsRest
      <4> QED BY <4>1, <4>2
    <3>6. PICK k, todo, b : /\ RestOf(todo, b, k) /\ todo = pendingEntries /\ b = activeBranch
                            /\ marker.leaf = IF k = 0 THEN 0 ELSE b[k]
      BY <3>5
    <3>7. Len(file) \in 0 .. Len(file)
      BY <1>5 DEF FileOK
    <3>8. IsChain(b, file, Len(file))
      BY <1>5, <3>6, <3>7, BranchLinks DEF activeBranch
    <3>9. k \in Nat /\ k + 1 \in 1 .. Len(b) /\ todo[1] = b[k + 1]
      <4>1. /\ k \in 0 .. Len(b) /\ todo \in Seq(1 .. Len(file)) /\ Len(todo) = Len(b) - k
            /\ \A j \in 1 .. Len(todo) : todo[j] = b[k + j]
        BY <3>6 DEF RestOf
      <4>2. Len(todo) # 0 /\ Len(todo) \in Nat
        BY <3>1, <3>6, <4>1
      <4>3. b \in Seq(1 .. Len(file))
        BY <3>8 DEF IsChain
      <4>4. Len(b) \in Nat
        BY <4>3
      <4>5. 1 \in 1 .. Len(todo)
        BY <4>2
      <4>6. k \in Nat /\ k + 1 \in 1 .. Len(b)
        BY <4>1, <4>2, <4>4
      <4> QED BY <4>1, <4>5, <4>6
    <3>10. file[todo[1]].parent = IF k + 1 = 1 THEN 0 ELSE b[(k + 1) - 1]
      BY <3>8, <3>9 DEF IsChain
    <3>11. (k + 1) - 1 = k /\ (k + 1 = 1 <=> k = 0)
      BY <3>9
    <3>12. file[EntryOf(q[1])].parent = marker.leaf
      BY <3>3, <3>6, <3>10, <3>11
    <3> QED BY <1>1, <1>2, <2>1, <3>3, <3>12 DEF Exactly
  <2> QED BY <2>2, <2>3
<1> QED BY <1>1, <1>4, <1>6, <1>7, CopyPrimed DEF CopyInv

\* An event is appended: a session that was listened to stays one.
LEMMA SaysMore ==
  ASSUME log \in Seq(ToSet(log)), LogNamed, NEW e, Named(e), log' = Append(log, e)
  PROVE  /\ HeardLive => HeardLive'
         /\ LogNamed' /\ log' # <<>>
         /\ EntriesOf(log') = EntriesOf(log) \o (IF e.type \in Message THEN <<e.entry>> ELSE <<>>)
<1>1. PICK m : m = log'
  OBVIOUS
<1>2. /\ m \in Seq(ToSet(m)) /\ Len(log) \in Nat /\ Len(m) = Len(log) + 1
      /\ \A i \in 1 .. Len(log) : m[i] = log[i]
      /\ m[Len(log) + 1] = e
  BY <1>1, AppendOwn
<1>3. DOMAIN log = 1 .. Len(log) /\ DOMAIN m = 1 .. Len(m)
  BY <1>2
<1>4. \A i \in 1 .. Len(log) : i \in 1 .. Len(m)
  BY <1>2
<1>5. HeardLive => HeardLive'
  BY <1>1, <1>2, <1>3, <1>4 DEF HeardLive
<1>6. ASSUME NEW i \in 1 .. Len(m) PROVE Named(m[i])
  <2>1. CASE i = Len(log) + 1
    BY <1>2, <2>1
  <2>2. CASE i # Len(log) + 1
    <3>1. i \in 1 .. Len(log)
      BY <1>2, <2>2
    <3> QED BY <1>2, <3>1 DEF LogNamed
  <2> QED BY <2>1, <2>2
<1>7. LogNamed'
  BY <1>1, <1>6, CopyPrimed
<1>8. m # <<>>
  BY <1>2
<1>9. EntriesOf(m) = EntriesOf(log) \o (IF e.type \in Message THEN <<e.entry>> ELSE <<>>)
  BY <1>1, EntriesAppend
<1> QED BY <1>1, <1>5, <1>7, <1>8, <1>9

\* An event that is no message adds nothing to what the log tells.
LEMMA SaysNothing ==
  ASSUME FileOK, log \in Seq(ToSet(log)), LogNamed, NEW e, Named(e), e.type \notin Message,
         log' = append(log, e)
  PROVE  /\ HeardLive => HeardLive'
         /\ LogNamed' /\ (log # <<>> => log' # <<>>)
         /\ \A n \in 0 .. Len(file) : EntriesOf(log) = ChainOf(file, n) => EntriesOf(log') = ChainOf(file, n)
<1>1. CASE log' = log
  BY <1>1, CopyPrimed DEF HeardLive, LogNamed
<1>2. CASE log' = Append(log, e)
  <2>1. /\ HeardLive => HeardLive'
        /\ LogNamed' /\ log' # <<>>
        /\ EntriesOf(log') = EntriesOf(log) \o <<>>
    BY <1>2, SaysMore
  <2>2. ASSUME NEW n \in 0 .. Len(file), EntriesOf(log) = ChainOf(file, n)
        PROVE  EntriesOf(log') = ChainOf(file, n)
    <3>1. Rooted(file)
      BY DEF FileOK, Rooted
    <3>2. ChainOf(file, n) \in Seq(1 .. n)
      BY <3>1, ChainLinks DEF IsChain
    <3>3. ChainOf(file, n) \o <<>> = ChainOf(file, n)
      BY <3>2
    <3> QED BY <2>1, <2>2, <3>3
  <2> QED BY <2>1, <2>2
<1> QED BY <1>1, <1>2 DEF append

\* A commit of an import.
LEMMA CopyCommits ==
  ASSUME HistoryInv, CopyInv, Commit, phase # "boundary"
  PROVE  CopyInv'
<1> DEFINE h == plan[1]
           n == EntryOf(h)
           busy == plan' # <<>>
           d == plan'[1]
<1>1. /\ plan # <<>> /\ plan' = Tail(plan) /\ Head(plan) = h /\ Copying
      /\ phase \in {"importing", "importing_exit"}
      /\ UNCHANGED <<file, phase, torn>>
  BY DEF Commit, Working, Copying, HistoryInv, PlanHonest
<1>2. Runs(file, plan)
  BY <1>1 DEF CopyInv, PlanRuns
<1>3. Copying' <=> busy
  BY <1>1 DEF Copying
<1>4. IF busy THEN Runs(file, plan') /\ Link(file, h, d) ELSE IsMark(h)
  BY <1>1, <1>2, RestRuns
<1>5. PlanRuns'
  BY <1>1, <1>3, <1>4, CopyPrimed
<1>6. n \in 1 .. Len(file) /\ n \in 0 .. Len(file) /\ n # 0 /\ Proper(file, h)
  <2>1. plan \in Seq(ToSet(plan))
    BY <1>2 DEF Runs
  <2>2. 1 \in 1 .. Len(plan)
    BY <1>1, <2>1
  <2>3. Proper(file, h)
    BY <1>2, <2>2 DEF Runs
  <2>4. n \in 1 .. Len(file) /\ Len(file) \in Nat
    BY <2>3 DEF Proper, HistoryInv, FileOK
  <2> QED BY <2>3, <2>4
<1>7. Rooted(file) /\ FileOK /\ log \in Seq(ToSet(log)) /\ LogNamed /\ marker.leaf \in 0 .. Len(file)
  BY DEF HistoryInv, FileOK, Rooted, LogHonest, CopyInv, LeafOK
<1>8. ~HeardLive /\ ~torn => Exactly(file, log, marker.leaf, Copying, h)
  BY DEF CopyInv, Copied
<1> HIDE DEF h, n, d, busy
<1>9. CASE IsMark(h)
  <2>1. marker' = h /\ log' = log /\ h.leaf = n
    BY <1>1, <1>9 DEF Commit, IsMark, EntryOf, n
  <2>2. LeafOK' /\ LogNamed' /\ (HeardLive' <=> HeardLive)
    BY <1>1, <1>6, <1>7, <2>1, CopyPrimed DEF LeafOK, LogNamed, HeardLive
  <2>3. ~Ahead(h)
    BY <1>9 DEF Ahead, Opens, Tells
  <2>4. ASSUME ~HeardLive', ~torn' PROVE Exactly(file', log', marker'.leaf, Copying', d)
    <3>1. EntriesOf(log) = ChainOf(file, n)
      BY <1>1, <1>8, <2>2, <2>3, <2>4 DEF Exactly, n
    <3>2. busy => IF Ahead(d) THEN file[EntryOf(d)].parent = n ELSE EntryOf(d) = n
      BY <1>4, <1>9 DEF Link, n
    <3> QED BY <1>1, <1>3, <1>6, <2>1, <3>1, <3>2 DEF Exactly
  <2> QED BY <1>1, <1>5, <2>2, <2>4, CopyPrimed DEF CopyInv, d
<1>10. CASE ~IsMark(h)
  <2> DEFINE e == h.event
  <2>1. log' = append(log, e) /\ marker' = marker /\ busy /\ Link(file, h, d) /\ e.entry = n
    BY <1>1, <1>4, <1>10 DEF Commit, IsMark, EntryOf, n
  <2>2. e.source[1] = "history" /\ e.source[2] = n /\ e.source[3] = e.type /\ Named(e)
    BY <1>6, <1>10, <2>1 DEF Proper, Named
  <2>3. EntryOf(d) = n
    BY <1>10, <2>1 DEF Link, n
  <2>4. LeafOK'
    BY <1>1, <1>7, <2>1 DEF LeafOK
  <2> HIDE DEF e
  <2>5. CASE Tells(h)
    <3>1. Ahead(h) /\ ~Ahead(d) /\ ~Opens(d) /\ e.type \in Message
      BY <2>1, <2>5 DEF Link, Ahead, Tells, e
    <3>2. ASSUME ~HeardLive, ~torn
          PROVE  log' = Append(log, e) /\ EntriesOf(log) = ChainOf(file, marker.leaf) /\ file[n].parent = marker.leaf
      <4>1. EntriesOf(log) = ChainOf(file, marker.leaf) /\ file[n].parent = marker.leaf
        BY <1>1, <1>8, <3>1, <3>2 DEF Exactly, n
      <4>2. ASSUME NEW i \in DOMAIN log, log[i].source = e.source, e.source # Nothing PROVE FALSE
        <5>1. i \in 1 .. Len(log)
          BY <1>7
        <5>2. log[i].type \in Message /\ log[i].entry = n
          BY <1>7, <2>2, <3>1, <4>2, <5>1 DEF LogNamed, Named
        <5>3. ChainOf(file, marker.leaf) \in Seq(1 .. marker.leaf)
          BY <1>7, ChainLinks DEF IsChain
        <5>4. n \in 1 .. marker.leaf
          BY <1>7, <4>1, <5>1, <5>2, <5>3, EntriesIn
        <5>5. file[n].parent < n /\ marker.leaf \in Nat /\ n \in Nat
          BY <1>6, <1>7 DEF Rooted
        <5> QED BY <4>1, <5>4, <5>5
      <4>3. log' = Append(log, e)
        BY <2>1, <4>2 DEF append
      <4> QED BY <4>1, <4>3
    <3>3. LogNamed' /\ (HeardLive => HeardLive')
      <4>1. CASE log' = log
        BY <1>7, <4>1, CopyPrimed DEF HeardLive, LogNamed
      <4>2. CASE log' = Append(log, e)
        BY <1>7, <2>2, <4>2, SaysMore
      <4> QED BY <2>1, <4>1, <4>2 DEF append
    <3>4. ASSUME ~HeardLive', ~torn' PROVE Exactly(file', log', marker'.leaf, Copying', d)
      <4>1. log' = Append(log, e) /\ EntriesOf(log) = ChainOf(file, marker.leaf) /\ file[n].parent = marker.leaf
        BY <1>1, <3>2, <3>3, <3>4
      <4>2. EntriesOf(log') = ChainOf(file, marker.leaf) \o <<n>>
        BY <1>7, <2>1, <2>2, <3>1, <4>1, SaysMore
      <4>3. ChainOf(file, n) = Append(ChainOf(file, marker.leaf), n)
        BY <1>6, <1>7, <4>1, ChainStep
      <4>4. ChainOf(file, marker.leaf) \in Seq(1 .. marker.leaf)
        BY <1>7, ChainLinks DEF IsChain
      <4>5. EntriesOf(log') = ChainOf(file, n)
        <5>1. PICK s : s = ChainOf(file, marker.leaf)
          OBVIOUS
        <5>2. PICK T : s \in Seq(T)
          BY <4>4, <5>1
        <5>3. s \o <<n>> = Append(s, n)
          BY <5>2
        <5> QED BY <4>2, <4>3, <5>1, <5>3
      <4> QED BY <1>1, <1>3, <2>1, <2>3, <3>1, <4>5 DEF Exactly
    <3> QED BY <1>1, <1>5, <2>4, <3>3, <3>4, CopyPrimed DEF CopyInv, d
  <2>6. CASE ~Tells(h)
    <3>1. e.type \notin Message
      BY <1>10, <2>6 DEF Tells, e
    <3>2. /\ HeardLive => HeardLive'
          /\ LogNamed'
          /\ \A m \in 0 .. Len(file) : EntriesOf(log) = ChainOf(file, m) => EntriesOf(log') = ChainOf(file, m)
      BY <1>7, <2>1, <2>2, <3>1, SaysNothing
    <3>3. ASSUME ~HeardLive', ~torn' PROVE Exactly(file', log', marker'.leaf, Copying', d)
      <4>1. Exactly(file, log, marker.leaf, Copying, h)
        BY <1>1, <1>8, <3>2, <3>3
      <4>2. CASE Ahead(h)
        <5>1. Ahead(d) /\ ~Opens(d)
          BY <2>1, <2>6, <4>2 DEF Link
        <5>2. EntriesOf(log) = ChainOf(file, marker.leaf) /\ file[n].parent = marker.leaf
          BY <1>1, <4>1, <4>2 DEF Exactly, n
        <5>3. EntriesOf(log') = ChainOf(file, marker.leaf)
          BY <1>7, <3>2, <5>2
        <5> QED BY <1>1, <1>3, <2>1, <2>3, <5>1, <5>2, <5>3 DEF Exactly
      <4>3. CASE ~Ahead(h)
        <5>1. ~Ahead(d) /\ ~Opens(d)
          BY <1>10, <2>1, <4>3 DEF Link, Ahead, Opens, Tells
        <5>2. EntriesOf(log) = ChainOf(file, n)
          BY <1>1, <4>1, <4>3 DEF Exactly, n
        <5>3. EntriesOf(log') = ChainOf(file, n)
          BY <1>6, <3>2, <5>2
        <5> QED BY <1>1, <1>3, <2>1, <2>3, <5>1, <5>3 DEF Exactly
      <4> QED BY <4>2, <4>3
    <3> QED BY <1>1, <1>5, <2>4, <3>2, <3>3, CopyPrimed DEF CopyInv, d
  <2> QED BY <2>5, <2>6
<1> QED BY <1>9, <1>10

\* A commit of the boundary is no message.
LEMMA CopyCloses ==
  ASSUME HistoryInv, CopyInv, Commit, phase = "boundary"
  PROVE  CopyInv'
<1> DEFINE h == plan[1]
           e == plan[1].event
<1>1. /\ plan # <<>> /\ Head(plan) = h /\ plan \in Seq(ToSet(plan))
      /\ UNCHANGED <<file, phase, torn>> /\ ~Copying /\ ~Copying'
  BY DEF Commit, Working, Copying, HistoryInv, PlanHonest
<1>2. 1 \in 1 .. Len(plan)
  BY <1>1
<1>3. h = [event |-> e] /\ (e = EndOfTurn(e.turn) \/ e = EndOfTool(e.tool))
  BY <1>2 DEF HistoryInv, EndsPlanned
<1>4. "event" \in DOMAIN h
  <2>1. DOMAIN [event |-> e] = {"event"}
    OBVIOUS
  <2> HIDE DEF e, h
  <2> QED BY <1>3, <2>1
<1>5. log' = append(log, e) /\ marker' = marker
  BY <1>1, <1>4 DEF Commit
<1>6. e.type \notin Message /\ Named(e)
  <2>1. CASE e = EndOfTurn(e.turn)
    <3>1. e.type = "turn.indeterminate" /\ e.source[1] = "reconcile_turn"
      BY <2>1 DEF EndOfTurn, Event
    <3> HIDE DEF e
    <3> QED BY <3>1 DEF Message, Named
  <2>2. CASE e = EndOfTool(e.tool)
    <3>1. e.type = "tool.failed" /\ e.source[1] = "reconcile_tool"
      BY <2>2 DEF EndOfTool, Event
    <3> HIDE DEF e
    <3> QED BY <3>1 DEF Message, Named
  <2> QED BY <1>3, <2>1, <2>2
<1> HIDE DEF e, h
<1>7. FileOK /\ log \in Seq(ToSet(log)) /\ LogNamed /\ marker.leaf \in 0 .. Len(file)
  BY DEF HistoryInv, LogHonest, CopyInv, LeafOK
<1>8. /\ HeardLive => HeardLive'
      /\ LogNamed'
      /\ \A m \in 0 .. Len(file) : EntriesOf(log) = ChainOf(file, m) => EntriesOf(log') = ChainOf(file, m)
  BY <1>5, <1>6, <1>7, SaysNothing
<1>9. LeafOK' /\ PlanRuns'
  BY <1>1, <1>5, <1>7, CopyPrimed DEF LeafOK
<1>10. ASSUME ~HeardLive', ~torn'
       PROVE  /\ Exactly(file', log', marker'.leaf, Copying', plan'[1])
              /\ phase' = "boundary" /\ marker'.leaf = 0 => plan' = <<>>
  <2>1. Exactly(file, log, marker.leaf, Copying, plan[1]) /\ marker.leaf # 0
    BY <1>1, <1>8, <1>10 DEF CopyInv, Copied
  <2>2. EntriesOf(log) = ChainOf(file, marker.leaf)
    BY <1>1, <2>1 DEF Exactly
  <2>3. EntriesOf(log') = ChainOf(file, marker.leaf)
    BY <1>7, <1>8, <2>2
  <2> QED BY <1>1, <1>5, <2>1, <2>3 DEF Exactly
<1> QED BY <1>8, <1>9, <1>10, CopyPrimed DEF CopyInv

\* The file grows: the branches it had stay as they were.
LEMMA CopyUnheard ==
  ASSUME HistoryInv, HistoryInv', CopyInv, NEW role, NEW p, WriteUnheard(role, p)
  PROVE  CopyInv'
<1>1. file' = Append(file, NewEntry(role, p)) /\ UNCHANGED <<log, marker, phase, plan, torn>>
  BY DEF WriteUnheard
<1>2. PICK fl, gl : fl = file /\ gl = file'
  OBVIOUS
<1>3. Rooted(fl) /\ Rooted(gl)
  BY <1>2 DEF HistoryInv, FileOK, Rooted, ToSet
<1>4. /\ Len(fl) \in Nat /\ Len(gl) \in Nat /\ Len(fl) <= Len(gl) /\ Len(gl) = Len(fl) + 1
      /\ \A i \in 1 .. Len(fl) : gl[i] = fl[i]
  BY <1>1, <1>2, AppendOwn DEF HistoryInv, FileOK
<1>5. \A i \in 1 .. Len(fl) : gl[i].parent = fl[i].parent
  BY <1>4
<1>6. HeardLive' <=> HeardLive
  BY <1>1 DEF HeardLive
<1>7. Copying' <=> Copying
  BY <1>1 DEF Copying
<1>8. LeafOK' /\ LogNamed'
  BY <1>1, <1>2, <1>4, CopyPrimed DEF CopyInv, LeafOK, LogNamed
<1>9. Copying => Runs(fl, plan)
  BY <1>2 DEF CopyInv, PlanRuns
<1>10. PlanRuns'
  BY <1>1, <1>2, <1>4, <1>5, <1>7, <1>9, RunsGrow, CopyPrimed
<1>11. ASSUME ~HeardLive', ~torn'
       PROVE  /\ Exactly(file', log', marker'.leaf, Copying', plan'[1])
              /\ phase' = "boundary" /\ marker'.leaf = 0 => plan' = <<>>
  <2>1. /\ Exactly(fl, log, marker.leaf, Copying, plan[1])
        /\ phase = "boundary" /\ marker.leaf = 0 => plan = <<>>
    BY <1>1, <1>2, <1>6, <1>11 DEF CopyInv, Copied
  <2>2. Copying => EntryOf(plan[1]) \in 1 .. Len(fl) /\ EntryOf(plan[1]) \in 0 .. Len(fl)
    <3>1. ASSUME Copying PROVE Proper(fl, plan[1])
      <4>1. Runs(fl, plan)
        BY <1>9, <3>1
      <4>2. plan \in Seq(ToSet(plan)) /\ plan # <<>>
        BY <4>1 DEF Runs
      <4>3. 1 \in 1 .. Len(plan)
        BY <4>2
      <4> QED BY <4>1, <4>3 DEF Runs
    <3>2. \A i \in 1 .. Len(fl) : i \in 0 .. Len(fl)
      BY <1>4
    <3> QED BY <3>1, <3>2 DEF Proper
  <2>3. marker.leaf \in 0 .. Len(fl)
    BY <1>2 DEF CopyInv, LeafOK
  <2>4. \A i \in 0 .. Len(fl) : ChainOf(gl, i) = ChainOf(fl, i)
    BY <1>3, <1>4, <1>5, ChainGrows
  <2>5. Exactly(gl, log, marker.leaf, Copying, plan[1])
    BY <1>5, <2>1, <2>2, <2>3, <2>4 DEF Exactly
  <2> QED BY <1>1, <1>2, <1>7, <2>1, <2>5 DEF Exactly
<1> QED BY <1>8, <1>10, <1>11, CopyPrimed DEF CopyInv

\* What the adapter hears from its process has no source.
LEMMA CopyLive ==
  ASSUME HistoryInv, HistoryInv', CopyInv, NEW role \in Role, RecordLive(role)
  PROVE  CopyInv'
<1> DEFINE n == Len(file) + 1
           e == NewEntry(role, Len(file))
           ev(type, turn) == Event(type, turn, n, e.tool, Nothing)
           u == IF role = "user" THEN ev("user.message.created", Nothing)
                ELSE ev(CASE role = "text" -> "assistant.message"
                          [] role = "call" -> "tool.started"
                          [] OTHER         -> "tool.completed", Nothing)
           v == ev("turn.started", <<"live", n>>)
<1>1. file' = Append(file, e) /\ UNCHANGED <<marker, phase, plan, torn>> /\ phase = "ready"
  BY DEF RecordLive
<1>2. log' = log \o IF role = "user" THEN <<u, v>> ELSE <<u>>
  BY DEF RecordLive, Role
<1>3. u.source = Nothing /\ u.type \in Message /\ v.source = Nothing
  BY DEF Event, Message
<1> HIDE DEF u, v, e
<1>4. PICK fl, gl : fl = file /\ gl = file'
  OBVIOUS
<1>5. Len(fl) \in Nat /\ Len(gl) = Len(fl) + 1
  BY <1>1, <1>4, AppendOwn DEF HistoryInv, FileOK
<1>6. LeafOK'
  BY <1>1, <1>4, <1>5 DEF CopyInv, LeafOK
<1>7. PICK l, m : l = log /\ m = log'
  OBVIOUS
<1>8. l \in Seq(ToSet(l)) /\ \A i \in 1 .. Len(l) : Named(l[i])
  BY <1>7 DEF HistoryInv, LogHonest, CopyInv, LogNamed
<1> DEFINE S == ToSet(l) \cup {u, v}
<1>9. l \in Seq(S) /\ u \in S /\ v \in S
  <2>1. \A T : ToSet(l) \subseteq T => l \in Seq(T)
    BY <1>8
  <2> QED BY <2>1
<1> HIDE DEF S
<1>10. /\ m \in Seq(S) /\ Len(l) \in Nat /\ Len(l) + 1 \in 1 .. Len(m) /\ m[Len(l) + 1] = u
       /\ \A i \in 1 .. Len(l) : m[i] = l[i]
       /\ \A i \in 1 .. Len(m) : i > Len(l) => m[i] \in {u, v}
  <2>1. CASE role = "user"
    <3>1. m = l \o <<u, v>>
      BY <1>2, <1>7, <2>1
    <3> QED BY <1>9, <3>1
  <2>2. CASE role # "user"
    <3>1. m = l \o <<u>>
      BY <1>2, <1>7, <2>2
    <3> QED BY <1>9, <3>1
  <2> QED BY <2>1, <2>2
<1>11. ASSUME NEW i \in 1 .. Len(m) PROVE Named(m[i])
  <2>1. CASE i > Len(l)
    BY <1>3, <1>10, <2>1 DEF Named
  <2>2. CASE ~(i > Len(l))
    <3>1. i \in 1 .. Len(l)
      BY <1>10, <2>2
    <3> QED BY <1>8, <1>10, <3>1
  <2> QED BY <2>1, <2>2
<1>12. LogNamed'
  BY <1>7, <1>11, CopyPrimed
<1>13. DOMAIN m = 1 .. Len(m)
  BY <1>10
<1>14. HeardLive'
  BY <1>3, <1>7, <1>10, <1>13 DEF HeardLive
<1>15. PlanRuns'
  BY <1>1, CopyPrimed DEF Copying
<1> QED BY <1>6, <1>12, <1>14, <1>15, CopyPrimed DEF CopyInv

\* A live turn that settles adds no message.
LEMMA CopySettles ==
  ASSUME HistoryInv, CopyInv, SettleLive
  PROVE  CopyInv'
<1>1. PICK t : t \in openTurns /\ log' = Append(log, Event("turn.settled", t, 0, Nothing, Nothing))
  BY DEF SettleLive, ActiveTurn
<1>2. PICK e : e = Event("turn.settled", t, 0, Nothing, Nothing)
  OBVIOUS
<1>3. e.type \notin Message /\ e.source = Nothing /\ Named(e)
  <2>1. e.type = "turn.settled" /\ e.source = Nothing
    BY <1>2 DEF Event
  <2> QED BY <2>1 DEF Message, Named
<1>4. log' = append(log, e) /\ log # <<>>
  BY <1>1, <1>2, <1>3, NothingToClose DEF append
<1>5. UNCHANGED <<file, marker, phase, plan, torn>> /\ phase = "ready" /\ ~Copying /\ ~Copying'
  BY DEF SettleLive, Copying
<1>6. FileOK /\ log \in Seq(ToSet(log)) /\ LogNamed /\ marker.leaf \in 0 .. Len(file)
  BY DEF HistoryInv, LogHonest, CopyInv, LeafOK
<1>7. /\ HeardLive => HeardLive'
      /\ LogNamed'
      /\ \A m \in 0 .. Len(file) : EntriesOf(log) = ChainOf(file, m) => EntriesOf(log') = ChainOf(file, m)
  BY <1>3, <1>4, <1>6, SaysNothing
<1>8. LeafOK' /\ PlanRuns'
  BY <1>5, <1>6, CopyPrimed DEF LeafOK
<1>9. ASSUME ~HeardLive', ~torn' PROVE Exactly(file', log', marker'.leaf, Copying', plan'[1])
  <2>1. EntriesOf(log) = ChainOf(file, marker.leaf) /\ marker.leaf # 0
    BY <1>4, <1>5, <1>7, <1>9 DEF CopyInv, Copied, Exactly
  <2>2. EntriesOf(log') = ChainOf(file, marker.leaf)
    BY <1>6, <1>7, <2>1
  <2> QED BY <1>5, <2>1, <2>2 DEF Exactly
<1> QED BY <1>5, <1>7, <1>8, <1>9, CopyPrimed DEF CopyInv

\* One case per read, commit, death and live event.
LEMMA CopyStep == HistoryInv /\ HistoryInv' /\ CopyInv /\ [NextHistory]_historyVars => CopyInv'
<1> SUFFICES ASSUME HistoryInv, HistoryInv', CopyInv, [NextHistory]_historyVars PROVE CopyInv'
  OBVIOUS
<1>1. CASE Start \/ StatFile \/ ImportEnds \/ ReconcileEnds \/ ActivatePi \/ PiExits
  BY <1>1, CopyQuiet
     DEF Start, StatFile, Importing, ImportEnds, ReconcileEnds, ActivatePi, PiExits, Copying
<1>2. CASE CloseOpen
  BY <1>2, CopyQuiet, NothingToClose DEF CloseOpen, Copying
<1>3. CASE ReadFile
  BY <1>3, CopyReads
<1>4. CASE Commit
  BY <1>4, CopyCommits, CopyCloses
<1>5. CASE Die \/ ImportThrows
  BY <1>5, CopyStops
<1>6. CASE \E role \in Role, p \in 0 .. Len(file) : WriteUnheard(role, p)
  BY <1>6, CopyUnheard
<1>7. CASE SettleLive \/ \E role \in Role : RecordLive(role)
  BY <1>7, CopySettles, CopyLive
<1>8. CASE UNCHANGED historyVars
  <2>1. UNCHANGED <<file, log, marker, torn, plan, phase>>
    BY <1>8 DEF historyVars
  <2>2. (HeardLive' <=> HeardLive) /\ (Copying' <=> Copying)
    BY <2>1 DEF HeardLive, Copying
  <2>3. LeafOK' /\ LogNamed' /\ PlanRuns'
    BY <2>1, <2>2, CopyPrimed DEF CopyInv, LeafOK, LogNamed, PlanRuns
  <2>4. Copied'
    BY <2>1, <2>2, CopyPrimed DEF CopyInv, Copied, Exactly
  <2> QED BY <2>3, <2>4 DEF CopyInv
<1> QED BY <1>1, <1>2, <1>3, <1>4, <1>5, <1>6, <1>7, <1>8 DEF NextHistory

\* However often a session that nobody listened to grew between imports, went back
\* to an earlier message or had its import cut short between two entries, its
\* transcript is the branch up to the leaf of the marker, every message once and in
\* order (external-history.ts, importPending and pendingEntries), for any file, any
\* branches and any number of deaths and failed writes.
THEOREM ImportsAreExact == HistorySpec => []ImportIsExact
<1>1. HistoryInv /\ CopyInv => ImportIsExact
  <2> SUFFICES ASSUME CopyInv, phase = "ready", ~HeardLive, ~torn PROVE Shown = BranchTo(marker.leaf)
    BY DEF ImportIsExact
  <2>1. ~Copying
    BY DEF Copying
  <2>2. EntriesOf(log) = ChainOf(file, marker.leaf)
    BY <2>1 DEF CopyInv, Copied, Exactly
  <2> QED BY <2>2, BranchIsChain DEF Shown
<1>2. InitHistory => HistoryInv /\ CopyInv
  BY HistoryInit, CopyInit
<1>3. HistoryInv /\ CopyInv /\ [NextHistory]_historyVars => (HistoryInv /\ CopyInv)'
  BY HistoryStep, CopyStep
<1> QED BY <1>1, <1>2, <1>3, PTL DEF HistorySpec

=============================================================================
