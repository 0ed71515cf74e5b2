----------------------- MODULE DurableCommandsProofs -----------------------
(***************************************************************************)
(* Theorems about DurableCommands, for every set of command ids, bodies    *)
(* and scopes and every number of crashes and failing transactions: a      *)
(* command is dispatched at most once, its outcome is true and final,      *)
(* clients are told what the row says, and a bridge that is ready has not  *)
(* forgotten a row.                                                        *)
(***************************************************************************)
EXTENDS DurableCommands, TLAPS

-----------------------------------------------------------------------------
(* Type correctness.                                                       *)

\* A transition to a row state keeps the types of the columns it writes.
LEMMA TransitionType ==
  ASSUME NEW id \in CommandId, NEW from, NEW to \in RowState,
         state \in [CommandId -> RowState \cup {"absent"}],
         history \in [CommandId -> Seq(RowState)],
         dispatchCount \in [CommandId -> Nat],
         transitionCommand(id, from, to)
  PROVE  /\ state' \in [CommandId -> RowState \cup {"absent"}]
         /\ history' \in [CommandId -> Seq(RowState)]
         /\ dispatchCount' \in [CommandId -> Nat]
<1>1. CASE state[id] \in from
  <2>1. state' \in [CommandId -> RowState \cup {"absent"}]
    BY <1>1 DEF transitionCommand
  <2>2. Append(history[id], to) \in Seq(RowState)
    OBVIOUS
  <2>3. history' \in [CommandId -> Seq(RowState)]
    BY <1>1, <2>2 DEF transitionCommand
  <2>4. dispatchCount' \in [CommandId -> Nat]
    BY <1>1 DEF transitionCommand
  <2> QED BY <2>1, <2>3, <2>4
<1>2. CASE state[id] \notin from
  BY <1>2 DEF transitionCommand
<1> QED BY <1>1, <1>2

\* The head of a lane is a command id, and its tail a lane.
LEMMA LaneType ==
  ASSUME NEW s \in Scope, lanes \in [Scope -> Seq(CommandId)], lanes[s] # <<>>
  PROVE  Current(s) \in CommandId /\ Tail(lanes[s]) \in Seq(CommandId)
BY DEF Current

\* The volatile state is well typed, and a task that is under way is the head
\* of a lane that is not empty.
VolatileOK ==
  /\ phase \in {"down", "marking", "resuming", "recovering", "ready"}
  /\ cursor \in Nat \ {0}
  /\ lanes \in [Scope -> Seq(CommandId)]
  /\ pc \in [Scope -> Pc]
  /\ \A s \in Scope : pc[s] # "idle" => lanes[s] # <<>>

\* The end of a process, of a task, its rejection and its progress keep that.
LEMMA ProcessEndsOK == ProcessEnds => VolatileOK'
BY DEF ProcessEnds, VolatileOK, Pc

LEMMA TaskEndsOK ==
  ASSUME NEW s \in Scope, VolatileOK, lanes[s] # <<>>,
         TaskEnds(s), UNCHANGED <<phase, cursor>>
  PROVE  VolatileOK'
<1>1. Tail(lanes[s]) \in Seq(CommandId)
  BY LaneType DEF VolatileOK
<1>2. lanes' \in [Scope -> Seq(CommandId)]
  BY <1>1 DEF TaskEnds, VolatileOK
<1>3. pc' \in [Scope -> Pc]
  BY DEF TaskEnds, VolatileOK, Pc
<1>4. \A t \in Scope : pc'[t] # "idle" => lanes'[t] # <<>>
  BY DEF TaskEnds, VolatileOK
<1> QED BY <1>2, <1>3, <1>4 DEF VolatileOK

LEMMA TaskRejectsOK ==
  ASSUME NEW s \in Scope, VolatileOK, lanes[s] # <<>>, TaskRejects(s)
  PROVE  VolatileOK'
BY ProcessEndsOK, TaskEndsOK DEF TaskRejects

LEMMA PcIsOK ==
  ASSUME NEW s \in Scope, NEW at \in Pc, VolatileOK, lanes[s] # <<>>,
         PcIs(s, at), UNCHANGED <<phase, cursor>>
  PROVE  VolatileOK'
BY DEF PcIs, VolatileOK

\* A command that joins a lane keeps that.
LEMMA JoinOK ==
  ASSUME NEW x, NEW id \in CommandId, VolatileOK,
         lanes' = [lanes EXCEPT ![x] = Append(@, id)], UNCHANGED <<pc>>
  PROVE  /\ lanes' \in [Scope -> Seq(CommandId)]
         /\ \A s \in Scope : pc'[s] # "idle" => lanes'[s] # <<>>
<1> SUFFICES ASSUME NEW s \in Scope
             PROVE  /\ lanes'[s] \in Seq(CommandId)
                    /\ pc'[s] # "idle" => lanes'[s] # <<>>
  BY DEF VolatileOK
<1>1. CASE s = x
  <2>1. lanes'[s] = Append(lanes[s], id)
    BY <1>1 DEF VolatileOK
  <2>2. lanes[s] \in Seq(CommandId)
    BY DEF VolatileOK
  <2> QED BY <2>1, <2>2
<1>2. CASE s # x
  BY <1>2 DEF VolatileOK
<1> QED BY <1>1, <1>2

\* A transaction keeps the health flag and the fault budget in their types.
LEMMA TransactionType ==
  ASSUME writable \in BOOLEAN, faults \in 0..MaxFaults, Commits \/ Throws
  PROVE  writable' \in BOOLEAN /\ faults' \in 0..MaxFaults
BY BoundAssumption DEF Commits, Throws

\* The other parts of TypeOK.
DurableOK ==
  /\ state \in [CommandId -> RowState \cup {"absent"}]
  /\ body \in [CommandId -> Body \cup {NoBody}]
  /\ dispatchCount \in [CommandId -> Nat]
  /\ order \in Seq(CommandId)
  /\ history \in [CommandId -> Seq(RowState)]
ObservedOK ==
  /\ executed \in [CommandId -> Nat]
  /\ effects \in Seq(CommandId)
  /\ outcome \in [CommandId -> Answer \cup {"none"}]
  /\ replies \subseteq Reply
BudgetOK ==
  /\ writable \in BOOLEAN
  /\ crashes \in 0..MaxCrashes
  /\ faults \in 0..MaxFaults

TypeInv == DurableOK /\ VolatileOK /\ ObservedOK /\ BudgetOK

\* Each action keeps every variable in its type.
LEMMA SubmitType ==
  ASSUME TypeInv, NEW id \in CommandId, NEW b \in Body, Submit(id, b) \/ Resubmit(id, b)
  PROVE  TypeInv'
<1>1. CASE Submit(id, b)
  <2>1. DurableOK'
    <3>1. <<"accepted">> \in Seq(RowState)
      BY DEF RowState
    <3>2. order' \in Seq(CommandId)
      BY <1>1 DEF Submit, TypeInv, DurableOK
    <3> QED BY <1>1, <3>1, <3>2 DEF Submit, TypeInv, DurableOK, RowState
  <2>2. VolatileOK'
    BY <1>1, JoinOK DEF Submit, TypeInv, VolatileOK
  <2>3. [id |-> id, body |-> b, kind |-> "accepted"] \in Reply
    BY DEF Reply
  <2>4. ObservedOK'
    BY <1>1, <2>3 DEF Submit, Replied, TypeInv, ObservedOK
  <2>5. BudgetOK'
    BY <1>1 DEF Submit, TypeInv, BudgetOK
  <2> QED BY <2>1, <2>2, <2>4, <2>5 DEF TypeInv
<1>2. CASE Resubmit(id, b)
  <2>1. DurableOK' /\ BudgetOK' /\ VolatileOK'
    BY <1>2 DEF Resubmit, durable, volatile, TypeInv, DurableOK, BudgetOK, VolatileOK
  <2>2. [id |-> id, body |-> b, kind |-> IF body[id] = b THEN "duplicate" ELSE "conflict"]
          \in Reply
    BY DEF Reply
  <2>3. ObservedOK'
    BY <1>2, <2>2 DEF Resubmit, Replied, TypeInv, ObservedOK
  <2> QED BY <2>1, <2>3 DEF TypeInv
<1> QED BY <1>1, <1>2

\* What the transactions of a task write keeps the types of the row.
LEMMA RowOK ==
  ASSUME TypeInv, NEW id \in CommandId, NEW from, NEW to \in RowState, UNCHANGED <<body, order>>,
         \/ transitionCommand(id, from, to)
         \/ UNCHANGED <<state, history, dispatchCount>>
  PROVE  DurableOK'
BY TransitionType DEF TypeInv, DurableOK

LEMMA TransactionOK ==
  ASSUME TypeInv, UNCHANGED crashes, Commits \/ Throws
  PROVE  BudgetOK'
BY TransactionType DEF TypeInv, BudgetOK

LEMMA ObservedUnchanged == TypeInv /\ UNCHANGED observed => ObservedOK'
BY DEF TypeInv, ObservedOK, observed

LEMMA ClaimType ==
  ASSUME TypeInv, NEW s \in Scope, Claim(s)
  PROVE  TypeInv'
<1>1. lanes[s] # <<>> /\ Current(s) \in CommandId
  BY LaneType DEF Claim, TypeInv, VolatileOK
<1>2. PICK id \in CommandId : id = Current(s)
  BY <1>1
<1>3. DurableOK'
  BY <1>2, RowOK DEF Claim, RowState
<1>4. VolatileOK'
  BY <1>1, TaskEndsOK, TaskRejectsOK, PcIsOK DEF Claim, TypeInv, Pc
<1>5. ObservedOK' /\ BudgetOK'
  BY ObservedUnchanged, TransactionOK DEF Claim
<1> QED BY <1>3, <1>4, <1>5 DEF TypeInv

LEMMA MarkRunningType ==
  ASSUME TypeInv, NEW s \in Scope, MarkRunning(s)
  PROVE  TypeInv'
<1>1. lanes[s] # <<>> /\ Current(s) \in CommandId
  BY LaneType DEF MarkRunning, TypeInv, VolatileOK
<1>2. PICK id \in CommandId : id = Current(s)
  BY <1>1
<1>3. DurableOK'
  BY <1>2, RowOK DEF MarkRunning, RowState, Terminal
<1>4. VolatileOK'
  BY <1>1, TaskEndsOK, TaskRejectsOK, PcIsOK DEF MarkRunning, TypeInv, Pc
<1>5. ObservedOK' /\ BudgetOK'
  BY ObservedUnchanged, TransactionOK DEF MarkRunning
<1> QED BY <1>3, <1>4, <1>5 DEF TypeInv

LEMMA CallAdapterType ==
  ASSUME TypeInv, NEW s \in Scope, CallAdapter(s)
  PROVE  TypeInv'
<1>1. lanes[s] # <<>> /\ Current(s) \in CommandId
  BY LaneType DEF CallAdapter, TypeInv, VolatileOK
<1>2. PICK id \in CommandId : id = Current(s)
  BY <1>1
<1>3. VolatileOK'
  BY <1>1, PcIsOK DEF CallAdapter, TypeInv, Pc
<1>4. ObservedOK'
  BY <1>2 DEF CallAdapter, TypeInv, ObservedOK
<1>5. DurableOK' /\ BudgetOK'
  BY DEF CallAdapter, durable, TypeInv, DurableOK, BudgetOK
<1> QED BY <1>3, <1>4, <1>5 DEF TypeInv

LEMMA AdapterSettlesType ==
  ASSUME TypeInv, NEW s \in Scope, NEW answer \in Answer, AdapterSettles(s, answer)
  PROVE  TypeInv'
<1>1. lanes[s] # <<>>
  BY DEF AdapterSettles, TypeInv, VolatileOK
<1>2. VolatileOK'
  BY <1>1, PcIsOK DEF AdapterSettles, TypeInv, Pc
<1>3. ObservedOK'
  BY DEF AdapterSettles, TypeInv, ObservedOK
<1>4. DurableOK' /\ BudgetOK'
  BY DEF AdapterSettles, durable, TypeInv, DurableOK, BudgetOK
<1> QED BY <1>2, <1>3, <1>4 DEF TypeInv

LEMMA CompleteType ==
  ASSUME TypeInv, NEW s \in Scope, Complete(s)
  PROVE  TypeInv'
<1>1. lanes[s] # <<>> /\ Current(s) \in CommandId
  BY LaneType DEF Complete, TypeInv, VolatileOK
<1>2. PICK id \in CommandId : id = Current(s)
  BY <1>1
<1>3. DurableOK'
  BY <1>2, RowOK DEF Complete, RowState, Terminal
<1>4. VolatileOK'
  BY <1>1, TaskEndsOK, TaskRejectsOK DEF Complete, TypeInv
<1>5. ObservedOK' /\ BudgetOK'
  BY ObservedUnchanged, TransactionOK DEF Complete
<1> QED BY <1>3, <1>4, <1>5 DEF TypeInv

LEMMA FailType ==
  ASSUME TypeInv, NEW s \in Scope, Fail(s)
  PROVE  TypeInv'
<1>1. lanes[s] # <<>> /\ Current(s) \in CommandId
  BY LaneType DEF Fail, TypeInv, VolatileOK
<1>2. PICK id \in CommandId : id = Current(s)
  BY <1>1
<1>3. DurableOK'
  BY <1>2, RowOK DEF Fail, TaskFails, RowState, Terminal
<1>4. VolatileOK'
  BY <1>1, TaskEndsOK, TaskRejectsOK DEF Fail, TaskFails, TypeInv
<1>5. ObservedOK' /\ BudgetOK'
  BY ObservedUnchanged, TransactionOK DEF Fail, TaskFails
<1> QED BY <1>3, <1>4, <1>5 DEF TypeInv

LEMMA MarkUncertainType ==
  ASSUME TypeInv, MarkUncertain
  PROVE  TypeInv'
<1>1. DurableOK'
  <2>1. CASE cursor > Len(order)
    BY <2>1 DEF MarkUncertain, TypeInv, DurableOK
  <2>2. CASE ~(cursor > Len(order))
    <3>1. order[cursor] \in CommandId
      BY <2>2 DEF TypeInv, DurableOK, VolatileOK
    <3> QED BY <2>2, <3>1, RowOK DEF MarkUncertain, RowState, Terminal
  <2> QED BY <2>1, <2>2
<1>2. VolatileOK'
  BY ProcessEndsOK DEF MarkUncertain, TypeInv, VolatileOK
<1>3. ObservedOK'
  BY ObservedUnchanged DEF MarkUncertain
<1>4. BudgetOK'
  BY TransactionOK DEF MarkUncertain, TypeInv, BudgetOK
<1> QED BY <1>1, <1>2, <1>3, <1>4 DEF TypeInv

LEMMA ResumeType ==
  ASSUME TypeInv, Resume
  PROVE  TypeInv'
<1>1. VolatileOK'
  <2>1. CASE cursor > Len(order) \/ state[order[cursor]] # "accepted"
    BY <2>1 DEF Resume, TypeInv, VolatileOK
  <2>2. CASE ~(cursor > Len(order)) /\ state[order[cursor]] = "accepted"
    <3>1. PICK id \in CommandId : id = order[cursor]
      BY <2>2 DEF TypeInv, DurableOK, VolatileOK
    <3>2. /\ lanes' \in [Scope -> Seq(CommandId)]
          /\ \A s \in Scope : pc'[s] # "idle" => lanes'[s] # <<>>
      BY <2>2, <3>1, JoinOK DEF Resume, TypeInv
    <3> QED BY <2>2, <3>2 DEF Resume, TypeInv, VolatileOK
  <2> QED BY <2>1, <2>2
<1>2. DurableOK' /\ ObservedOK' /\ BudgetOK'
  BY DEF Resume, durable, observed, TypeInv, DurableOK, ObservedOK, BudgetOK
<1> QED BY <1>1, <1>2 DEF TypeInv

LEMMA LifecycleType ==
  ASSUME TypeInv, Crash \/ Restart \/ BecomeReady
  PROVE  TypeInv'
<1>1. VolatileOK'
  BY ProcessEndsOK DEF Crash, Restart, BecomeReady, TypeInv, VolatileOK
<1>2. DurableOK' /\ ObservedOK'
  BY DEF Crash, Restart, BecomeReady, durable, observed, TypeInv, DurableOK, ObservedOK
<1>3. BudgetOK'
  <2>1. writable' \in BOOLEAN /\ faults' \in 0..MaxFaults
    BY DEF Crash, Restart, BecomeReady, TypeInv, BudgetOK
  <2>2. crashes' \in 0..MaxCrashes
    BY BoundAssumption DEF Crash, Restart, BecomeReady, TypeInv, BudgetOK
  <2> QED BY <2>1, <2>2 DEF BudgetOK
<1> QED BY <1>1, <1>2, <1>3 DEF TypeInv

LEMMA TypeInit == Init => TypeInv
<1> SUFFICES ASSUME Init PROVE TypeInv
  OBVIOUS
<1>1. DurableOK
  BY DEF Init, DurableOK
<1>2. VolatileOK
  BY DEF Init, VolatileOK, Pc
<1>3. ObservedOK
  BY DEF Init, ObservedOK
<1>4. BudgetOK
  BY BoundAssumption DEF Init, BudgetOK
<1> QED BY <1>1, <1>2, <1>3, <1>4 DEF TypeInv

LEMMA TypeStep == TypeInv /\ [Next]_vars => TypeInv'
<1> SUFFICES ASSUME TypeInv, [Next]_vars PROVE TypeInv'
  OBVIOUS
<1>1. CASE UNCHANGED vars
  BY <1>1 DEF vars, durable, volatile, observed, TypeInv, DurableOK, VolatileOK,
              ObservedOK, BudgetOK
<1>2. CASE \E id \in CommandId, b \in Body : Submit(id, b) \/ Resubmit(id, b)
  BY <1>2, SubmitType
<1>3. CASE \E s \in Scope : Task(s)
  BY <1>3, ClaimType, MarkRunningType, CallAdapterType, AdapterSettlesType,
     CompleteType, FailType DEF Task
<1>4. CASE Startup \/ Crash
  BY <1>4, MarkUncertainType, ResumeType, LifecycleType DEF Startup
<1> QED BY <1>1, <1>2, <1>3, <1>4 DEF Next

\* Every variable of the command path keeps its type, in every behaviour, for
\* any sets of commands, bodies and scopes.
THEOREM TypeCorrect == Spec => []TypeOK
<1>1. TypeInv => TypeOK
  BY DEF TypeInv, TypeOK, DurableOK, VolatileOK, ObservedOK, BudgetOK
<1> QED BY <1>1, TypeInit, TypeStep, PTL DEF Spec

-----------------------------------------------------------------------------
(* A command is dispatched at most once.                                   *)

BusyAt(s) == pc[s] \in {"claimed", "started"}

\* dispatch_count is raised exactly by the step that leaves "accepted".
CountIsClaim ==
  \A id \in CommandId :
    /\ state[id] \in {"absent", "accepted"} => dispatchCount[id] = 0
    /\ state[id] \notin {"absent", "accepted"} => dispatchCount[id] = 1

\* The adapter was not called more often than the row was claimed.
ExecutedIsClaimed == \A id \in CommandId : executed[id] <= dispatchCount[id]

\* One turn runs at a time, only in a process that dispatches.
OneTurn ==
  /\ \A s, t \in Scope : BusyAt(s) /\ BusyAt(t) => s = t
  /\ \A s \in Scope : BusyAt(s) => phase \in {"recovering", "ready"}

\* Between its claim and the call of the adapter, a command has a
\* claimed row, and the adapter has never seen it.
ClaimedIsFresh ==
  \A s \in Scope : BusyAt(s) =>
    /\ state[Current(s)] \in {"dispatched", "running"}
    /\ executed[Current(s)] = 0

\* The inductive invariant behind AtMostOnceDispatch.
Inv == TypeInv /\ CountIsClaim /\ ExecutedIsClaimed /\ OneTurn /\ ClaimedIsFresh

\* The two kinds of transition the command path makes: the claim, which counts,
\* and the steps of a claimed row, which do not.
LEMMA TransitionCounts ==
  ASSUME TypeInv, CountIsClaim, NEW id \in CommandId, NEW from, NEW to \in RowState,
         \/ from = {"accepted"} /\ to = "dispatched"
         \/ from \subseteq {"dispatched", "running"} /\ to \notin {"accepted", "dispatched"},
         transitionCommand(id, from, to)
  PROVE  CountIsClaim' /\ \A x \in CommandId : dispatchCount[x] <= dispatchCount'[x]
<1> SUFFICES ASSUME NEW x \in CommandId
             PROVE  /\ state'[x] \in {"absent", "accepted"} => dispatchCount'[x] = 0
                    /\ state'[x] \notin {"absent", "accepted"} => dispatchCount'[x] = 1
                    /\ dispatchCount[x] <= dispatchCount'[x]
  BY DEF CountIsClaim
<1>1. /\ dispatchCount[x] \in Nat
      /\ state[x] \in {"absent", "accepted"} => dispatchCount[x] = 0
      /\ state[x] \notin {"absent", "accepted"} => dispatchCount[x] = 1
  BY DEF TypeInv, DurableOK, CountIsClaim
<1>2. CASE x = id /\ state[id] \in from
  <2>1. state'[x] = to
    BY <1>2 DEF transitionCommand, TypeInv, DurableOK
  <2>2. dispatchCount'[x] = IF to = "dispatched" THEN dispatchCount[x] + 1 ELSE dispatchCount[x]
    BY <1>2 DEF transitionCommand, TypeInv, DurableOK
  <2>3. CASE to = "dispatched"
    BY <1>1, <1>2, <2>1, <2>2, <2>3
  <2>4. CASE to # "dispatched"
    BY <1>1, <1>2, <2>1, <2>2, <2>4 DEF RowState, Terminal
  <2> QED BY <2>3, <2>4
<1>3. CASE x # id \/ state[id] \notin from
  <2>1. state'[x] = state[x] /\ dispatchCount'[x] = dispatchCount[x]
    BY <1>3 DEF transitionCommand, TypeInv, DurableOK
  <2> QED BY <1>1, <2>1
<1> QED BY <1>2, <1>3

\* A step that only moves rows keeps the executions covered by claims.
LEMMA RowsOnly ==
  ASSUME Inv, CountIsClaim', \A x \in CommandId : dispatchCount[x] <= dispatchCount'[x],
         UNCHANGED executed, TypeInv'
  PROVE  ExecutedIsClaimed'
BY DEF Inv, TypeInv, DurableOK, ObservedOK, ExecutedIsClaimed

\* Outside a busy turn the two last conjuncts say nothing.
LEMMA QuietTurn == ~Busy => OneTurn /\ ClaimedIsFresh
BY DEF Busy, BusyAt, OneTurn, ClaimedIsFresh

\* A turn is over when its task ends, rejects, or waits for the adapter.
LEMMA TurnEnds ==
  ASSUME Inv, NEW s \in Scope, ~Busy \/ BusyAt(s),
         \/ TaskEnds(s)
         \/ TaskRejects(s)
         \/ \E at \in {"awaiting"} \cup Answer : PcIs(s, at)
  PROVE  ~Busy'
<1> SUFFICES ASSUME NEW t \in Scope, pc'[t] \in {"claimed", "started"} PROVE FALSE
  BY DEF Busy
<1>1. pc \in [Scope -> Pc]
  BY DEF Inv, TypeInv, VolatileOK
<1>2. pc'[t] = pc[t] \/ pc'[t] \in {"idle", "awaiting"} \cup Answer
  BY <1>1 DEF TaskEnds, TaskRejects, ProcessEnds, PcIs
<1>3. BusyAt(t)
  BY <1>2 DEF BusyAt, Answer
<1>4. s = t
  BY <1>3 DEF Busy, BusyAt, Inv, OneTurn
<1>5. pc'[s] \in {"idle", "awaiting"} \cup Answer
  BY <1>1 DEF TaskEnds, TaskRejects, ProcessEnds, PcIs
<1> QED BY <1>4, <1>5 DEF Answer

LEMMA QuietTurnNext == ~Busy' => OneTurn' /\ ClaimedIsFresh'
BY DEF Busy, BusyAt, OneTurn, ClaimedIsFresh

LEMMA SameCounts ==
  ASSUME Inv, UNCHANGED <<state, history, dispatchCount>>
  PROVE  CountIsClaim' /\ \A x \in CommandId : dispatchCount[x] <= dispatchCount'[x]
BY DEF Inv, TypeInv, DurableOK, CountIsClaim

\* Each action keeps the invariant.
LEMMA SubmitOnce ==
  ASSUME Inv, NEW id \in CommandId, NEW b \in Body, Submit(id, b) \/ Resubmit(id, b), TypeInv'
  PROVE  Inv'
<1>1. ~Busy'
  BY DEF Submit, Resubmit, Busy, volatile
<1>2. CASE Submit(id, b)
  <2>1. CountIsClaim'
    BY <1>2 DEF Submit, Inv, CountIsClaim, TypeInv, DurableOK
  <2>2. \A x \in CommandId : dispatchCount[x] <= dispatchCount'[x]
    BY <1>2 DEF Submit, Inv, CountIsClaim, TypeInv, DurableOK
  <2>3. ExecutedIsClaimed'
    BY <1>2, <2>1, <2>2, RowsOnly DEF Submit
  <2> QED BY <1>1, <2>1, <2>3, QuietTurnNext DEF Inv
<1>3. CASE Resubmit(id, b)
  <2>1. CountIsClaim' /\ ExecutedIsClaimed'
    BY <1>3 DEF Resubmit, Inv, CountIsClaim, ExecutedIsClaimed, durable
  <2> QED BY <1>1, <2>1, QuietTurnNext DEF Inv
<1> QED BY <1>2, <1>3

LEMMA ClaimOnce ==
  ASSUME Inv, NEW s \in Scope, Claim(s), TypeInv'
  PROVE  Inv'
<1>1. PICK id \in CommandId : id = Current(s)
  BY LaneType DEF Claim, Inv, TypeInv, VolatileOK
<1>2. CountIsClaim' /\ \A x \in CommandId : dispatchCount[x] <= dispatchCount'[x]
  BY <1>1, TransitionCounts, SameCounts DEF Claim, Inv, RowState
<1>3. ExecutedIsClaimed'
  BY <1>2, RowsOnly DEF Claim, observed
<1>4. CASE PcIs(s, "claimed") /\ state[id] = "accepted" /\ UNCHANGED phase
           /\ transitionCommand(id, {"accepted"}, "dispatched")
  <2>1. \A t \in Scope : BusyAt(t)' => t = s
    BY <1>4 DEF Claim, Busy, BusyAt, PcIs, Inv, TypeInv, VolatileOK
  <2>2. OneTurn'
    BY <1>4, <2>1 DEF OneTurn, Claim, Running
  <2>3. Current(s)' = id
    BY <1>1, <1>4 DEF Current, PcIs
  <2>4. state'[id] = "dispatched"
    BY <1>4 DEF transitionCommand, Inv, TypeInv, DurableOK
  <2>5. executed'[id] = 0
    <3>1. executed[id] \in Nat /\ executed[id] <= dispatchCount[id] /\ dispatchCount[id] = 0
      BY <1>4 DEF Inv, ExecutedIsClaimed, CountIsClaim, TypeInv, ObservedOK
    <3> QED BY <3>1 DEF Claim, observed
  <2>6. ClaimedIsFresh'
    BY <2>1, <2>3, <2>4, <2>5 DEF ClaimedIsFresh
  <2> QED BY <1>2, <1>3, <2>2, <2>6 DEF Inv
<1>5. CASE TaskEnds(s) \/ TaskRejects(s)
  <2>1. ~Busy'
    BY <1>5, TurnEnds DEF Claim
  <2> QED BY <1>2, <1>3, <2>1, QuietTurnNext DEF Inv
<1> QED BY <1>1, <1>4, <1>5 DEF Claim

LEMMA MarkRunningOnce ==
  ASSUME Inv, NEW s \in Scope, MarkRunning(s), TypeInv'
  PROVE  Inv'
<1>1. PICK id \in CommandId : id = Current(s)
  BY LaneType DEF MarkRunning, Inv, TypeInv, VolatileOK
<1>2. CountIsClaim' /\ \A x \in CommandId : dispatchCount[x] <= dispatchCount'[x]
  BY <1>1, TransitionCounts, SameCounts DEF MarkRunning, Inv, RowState, Terminal
<1>3. ExecutedIsClaimed'
  BY <1>2, RowsOnly DEF MarkRunning, observed
<1>4. BusyAt(s)
  BY DEF MarkRunning, BusyAt
<1>5. CASE PcIs(s, "started") /\ UNCHANGED phase
           /\ transitionCommand(id, {"dispatched"}, "running")
  <2>1. \A t \in Scope : BusyAt(t)' => t = s
    BY <1>4, <1>5 DEF BusyAt, PcIs, Inv, OneTurn, TypeInv, VolatileOK
  <2>2. OneTurn'
    BY <1>4, <1>5, <2>1 DEF OneTurn, Inv
  <2>3. Current(s)' = id
    BY <1>1, <1>5 DEF Current, PcIs
  <2>4. state'[id] \in {"dispatched", "running"}
    BY <1>1, <1>4, <1>5 DEF transitionCommand, Inv, TypeInv, DurableOK, ClaimedIsFresh
  <2>5. executed'[id] = 0
    BY <1>1, <1>4 DEF MarkRunning, observed, Inv, ClaimedIsFresh
  <2>6. ClaimedIsFresh'
    BY <2>1, <2>3, <2>4, <2>5 DEF ClaimedIsFresh
  <2> QED BY <1>2, <1>3, <2>2, <2>6 DEF Inv
<1>6. CASE TaskEnds(s) \/ TaskRejects(s)
  <2>1. ~Busy'
    BY <1>4, <1>6, TurnEnds
  <2> QED BY <1>2, <1>3, <2>1, QuietTurnNext DEF Inv
<1> QED BY <1>1, <1>5, <1>6 DEF MarkRunning

LEMMA CallAdapterOnce ==
  ASSUME Inv, NEW s \in Scope, CallAdapter(s), TypeInv'
  PROVE  Inv'
<1>1. PICK id \in CommandId : id = Current(s)
  BY LaneType DEF CallAdapter, Inv, TypeInv, VolatileOK
<1>2. BusyAt(s)
  BY DEF CallAdapter, BusyAt
<1>3. CountIsClaim'
  BY DEF CallAdapter, durable, Inv, CountIsClaim
<1>4. dispatchCount[id] = 1 /\ executed[id] = 0
  BY <1>1, <1>2 DEF Inv, ClaimedIsFresh, CountIsClaim
<1>5. ExecutedIsClaimed'
  BY <1>1, <1>4 DEF CallAdapter, durable, Inv, ExecutedIsClaimed, TypeInv, ObservedOK
<1>6. ~Busy'
  BY <1>2, TurnEnds DEF CallAdapter
<1> QED BY <1>3, <1>5, <1>6, QuietTurnNext DEF Inv

LEMMA AdapterSettlesOnce ==
  ASSUME Inv, NEW s \in Scope, NEW answer \in Answer, AdapterSettles(s, answer), TypeInv'
  PROVE  Inv'
<1>1. CountIsClaim' /\ ExecutedIsClaimed'
  BY DEF AdapterSettles, durable, Inv, CountIsClaim, ExecutedIsClaimed
<1>2. ~Busy'
  <2>1. ~Busy /\ answer \in {"awaiting"} \cup Answer /\ PcIs(s, answer)
    BY DEF AdapterSettles
  <2> QED BY <2>1, TurnEnds, Zenon
<1> QED BY <1>1, <1>2, QuietTurnNext DEF Inv

LEMMA CompleteOnce ==
  ASSUME Inv, NEW s \in Scope, Complete(s), TypeInv'
  PROVE  Inv'
<1>1. PICK id \in CommandId : id = Current(s)
  BY LaneType DEF Complete, Inv, TypeInv, VolatileOK
<1>2. CountIsClaim' /\ \A x \in CommandId : dispatchCount[x] <= dispatchCount'[x]
  BY <1>1, TransitionCounts, SameCounts DEF Complete, Inv, RowState, Terminal
<1>3. ExecutedIsClaimed'
  BY <1>2, RowsOnly DEF Complete, observed
<1>4. ~Busy'
  BY TurnEnds DEF Complete, BusyAt
<1> QED BY <1>2, <1>3, <1>4, QuietTurnNext DEF Inv

LEMMA FailOnce ==
  ASSUME Inv, NEW s \in Scope, Fail(s), TypeInv'
  PROVE  Inv'
<1>1. PICK id \in CommandId : id = Current(s)
  BY LaneType DEF Fail, Inv, TypeInv, VolatileOK
<1>2. CountIsClaim' /\ \A x \in CommandId : dispatchCount[x] <= dispatchCount'[x]
  BY <1>1, TransitionCounts, SameCounts DEF Fail, TaskFails, Inv, RowState, Terminal
<1>3. ExecutedIsClaimed'
  BY <1>2, RowsOnly DEF Fail, observed
<1>4. ~Busy'
  BY TurnEnds DEF Fail, TaskFails, BusyAt
<1> QED BY <1>2, <1>3, <1>4, QuietTurnNext DEF Inv

LEMMA StartupOnce ==
  ASSUME Inv, Startup \/ Crash, TypeInv'
  PROVE  Inv'
<1>1. ~Busy'
  <2>1. CASE Crash
    BY <2>1 DEF Crash, ProcessEnds, Busy
  <2>2. CASE Startup
    <3>1. phase # "ready" /\ (pc' = pc \/ ProcessEnds)
      BY <2>2 DEF Startup, Restart, MarkUncertain, Resume, BecomeReady
    <3>2. phase = "recovering" => \A s \in Scope : lanes[s] = <<>>
      BY <2>2 DEF Startup, Restart, MarkUncertain, Resume, BecomeReady
    <3>3. ~Busy
      BY <3>1, <3>2 DEF Busy, BusyAt, Inv, OneTurn, TypeInv, VolatileOK
    <3> QED BY <3>1, <3>3 DEF Busy, ProcessEnds
  <2> QED BY <2>1, <2>2
<1>2. CountIsClaim' /\ \A x \in CommandId : dispatchCount[x] <= dispatchCount'[x]
  <2>1. CASE UNCHANGED <<state, history, dispatchCount>>
    BY <2>1, SameCounts
  <2>2. CASE MarkUncertain /\ ~(cursor > Len(order))
             /\ transitionCommand(order[cursor], {"dispatched", "running"}, "indeterminate")
    <3>1. order[cursor] \in CommandId
      BY <2>2 DEF Inv, TypeInv, DurableOK, VolatileOK
    <3> QED BY <2>2, <3>1, TransitionCounts DEF Inv, RowState, Terminal
  <2> QED BY <2>1, <2>2 DEF Startup, Crash, Restart, MarkUncertain, Resume, BecomeReady, durable
<1>3. ExecutedIsClaimed'
  BY <1>2, RowsOnly DEF Startup, Crash, Restart, MarkUncertain, Resume, BecomeReady, observed
<1> QED BY <1>1, <1>2, <1>3, QuietTurnNext DEF Inv

LEMMA InvInit == Init => Inv
<1> SUFFICES ASSUME Init PROVE Inv
  OBVIOUS
<1>1. ~Busy
  BY DEF Init, Busy
<1>2. CountIsClaim /\ ExecutedIsClaimed
  BY DEF Init, CountIsClaim, ExecutedIsClaimed
<1> QED BY <1>1, <1>2, TypeInit, QuietTurn DEF Inv

LEMMA InvStep == Inv /\ [Next]_vars => Inv'
<1> SUFFICES ASSUME Inv, [Next]_vars PROVE Inv'
  OBVIOUS
<1>1. TypeInv'
  BY TypeStep DEF Inv
<1>2. CASE UNCHANGED vars
  <2>1. CountIsClaim' /\ ExecutedIsClaimed'
    BY <1>2 DEF vars, durable, observed, Inv, CountIsClaim, ExecutedIsClaimed
  <2>2. OneTurn' /\ ClaimedIsFresh'
    BY <1>2 DEF vars, durable, volatile, observed, Inv, OneTurn, ClaimedIsFresh, BusyAt, Current
  <2> QED BY <1>1, <2>1, <2>2 DEF Inv
<1>3. CASE \E id \in CommandId, b \in Body : Submit(id, b) \/ Resubmit(id, b)
  BY <1>1, <1>3, SubmitOnce
<1>4. CASE \E s \in Scope : Task(s)
  BY <1>1, <1>4, ClaimOnce, MarkRunningOnce, CallAdapterOnce, AdapterSettlesOnce,
     CompleteOnce, FailOnce DEF Task
<1>5. CASE Startup \/ Crash
  BY <1>1, <1>5, StartupOnce
<1> QED BY <1>2, <1>3, <1>4, <1>5 DEF Next

\* The adapter is called at most once with a command, and only after the row
\* was durably claimed, through any number of repeats, crashes and failing
\* transactions.
THEOREM AtMostOnce == Spec => []AtMostOnceDispatch
<1>1. Inv => AtMostOnceDispatch
  <2> SUFFICES ASSUME Inv, NEW id \in CommandId
               PROVE  executed[id] <= dispatchCount[id] /\ dispatchCount[id] <= 1
    BY DEF AtMostOnceDispatch
  <2>1. dispatchCount[id] = 0 \/ dispatchCount[id] = 1
    BY DEF Inv, CountIsClaim
  <2> QED BY <2>1 DEF Inv, ExecutedIsClaimed
<1> QED BY <1>1, InvInit, InvStep, PTL DEF Spec

-----------------------------------------------------------------------------
(* An outcome is final.                                                    *)

KeepsOutcomes == \A id \in CommandId : state[id] \in Terminal => state'[id] = state[id]

\* A transition guarded by states without an outcome leaves outcomes alone.
LEMMA TransitionKeepsOutcomes ==
  ASSUME TypeInv, NEW id \in CommandId, NEW from, NEW to,
         from \subseteq {"accepted", "dispatched", "running"},
         transitionCommand(id, from, to)
  PROVE  KeepsOutcomes
<1> SUFFICES ASSUME NEW x \in CommandId, state[x] \in Terminal PROVE state'[x] = state[x]
  BY DEF KeepsOutcomes
<1>1. state[x] \notin from
  BY DEF Terminal
<1> QED BY <1>1 DEF transitionCommand, TypeInv, DurableOK

LEMMA OutcomesStep ==
  ASSUME TypeInv, [Next]_vars
  PROVE  KeepsOutcomes
<1>1. CASE UNCHANGED state
  BY <1>1 DEF KeepsOutcomes
<1>2. CASE \E id \in CommandId, b \in Body : Submit(id, b)
  BY <1>2 DEF Submit, KeepsOutcomes, Terminal, TypeInv, DurableOK
<1>3. CASE \E s \in Scope : Claim(s) \/ MarkRunning(s) \/ Complete(s) \/ Fail(s)
  <2>1. PICK s \in Scope : Claim(s) \/ MarkRunning(s) \/ Complete(s) \/ Fail(s)
    BY <1>3
  <2>2. PICK id \in CommandId : id = Current(s)
    BY <2>1, LaneType DEF Claim, MarkRunning, Complete, Fail, TypeInv, VolatileOK
  <2> QED BY <1>1, <2>1, <2>2, TransitionKeepsOutcomes
          DEF Claim, MarkRunning, Complete, Fail, TaskFails
<1>4. CASE MarkUncertain
  <2>1. CASE ~(cursor > Len(order))
    <3>1. order[cursor] \in CommandId
      BY <2>1 DEF TypeInv, DurableOK, VolatileOK
    <3> QED BY <1>1, <1>4, <2>1, <3>1, TransitionKeepsOutcomes DEF MarkUncertain
  <2> QED BY <1>1, <1>4, <2>1 DEF MarkUncertain
<1>5. CASE \E id \in CommandId, b \in Body : Resubmit(id, b)
  BY <1>1, <1>5 DEF Resubmit, durable
<1>6. CASE \E s \in Scope : CallAdapter(s) \/ \E answer \in Answer : AdapterSettles(s, answer)
  BY <1>1, <1>6 DEF CallAdapter, AdapterSettles, durable
<1>7. CASE Crash \/ Restart \/ Resume \/ BecomeReady
  BY <1>1, <1>7 DEF Crash, Restart, Resume, BecomeReady, durable
<1>8. CASE UNCHANGED vars
  BY <1>1, <1>8 DEF vars, durable
<1> QED BY <1>2, <1>3, <1>4, <1>5, <1>6, <1>7, <1>8 DEF Next, Task, Startup

\* No step ever moves a row out of completed, failed or indeterminate: not a
\* late answer, not a failing transaction, not the recovery after a crash.
THEOREM OutcomesAreFinal == Spec => TerminalIsFinal
<1>1. TypeInv /\ [Next]_vars => [KeepsOutcomes]_vars
  BY OutcomesStep
<1>2. [KeepsOutcomes]_vars
        => [\A id \in CommandId : state[id] \in Terminal => state'[id] = state[id]]_vars
  BY DEF KeepsOutcomes
<1> QED BY <1>1, <1>2, TypeInit, TypeStep, PTL DEF Spec, TerminalIsFinal

-----------------------------------------------------------------------------
(* "completed" is only said of a command that was carried out.             *)

\* A row has a body, and a queued command has a row, in the lane of its scope.
RowHasBody == \A id \in CommandId : state[id] # "absent" => body[id] \in Body
InOwnLane ==
  \A s \in Scope : \A k \in DOMAIN lanes[s] :
    state[lanes[s][k]] # "absent" /\ ScopeOf[body[lanes[s][k]]] = s

\* No task is under way before the start-up has queued what it resumes.
IdleInStartup == phase \notin {"recovering", "ready"} => \A s \in Scope : pc[s] = "idle"

\* How far a task has come says what its row and the adapter's answer are.
HeadIs(at, row, answer) ==
  /\ at = "claimed" => row = "dispatched"
  /\ at \in {"started", "awaiting"} \cup Answer => row = "running"
  /\ at \in Answer => answer = at
HeadsAgree ==
  \A s \in Scope : pc[s] # "idle" => HeadIs(pc[s], state[Current(s)], outcome[Current(s)])

DoneInv ==
  TypeInv /\ RowHasBody /\ InOwnLane /\ IdleInStartup /\ HeadsAgree /\ CompletedMeansDone

\* The heads of two lanes are different commands.
LEMMA HeadsDiffer ==
  ASSUME TypeInv, InOwnLane, NEW s \in Scope, NEW t \in Scope, s # t,
         lanes[s] # <<>>, lanes[t] # <<>>
  PROVE  Current(s) # Current(t)
<1>1. lanes[s] \in Seq(CommandId) /\ lanes[t] \in Seq(CommandId)
  BY DEF TypeInv, VolatileOK
<1>2. /\ Current(s) = lanes[s][1] /\ 1 \in DOMAIN lanes[s]
      /\ Current(t) = lanes[t][1] /\ 1 \in DOMAIN lanes[t]
  BY <1>1 DEF Current
<1> QED BY <1>2 DEF InOwnLane

\* What the tail of a lane holds, the lane held.
LEMMA TailHolds ==
  ASSUME NEW q \in Seq(CommandId), q # <<>>, NEW k \in DOMAIN Tail(q)
  PROVE  \E j \in DOMAIN q : Tail(q)[k] = q[j]
<1>1. Len(q) \in Nat \ {0} /\ DOMAIN q = 1..Len(q) /\ DOMAIN Tail(q) = 1..(Len(q) - 1)
  OBVIOUS
<1>2. k + 1 \in DOMAIN q
  BY <1>1
<1>3. Tail(q)[k] = q[k + 1]
  BY <1>1
<1> QED BY <1>2, <1>3

\* A step of the task at the head of a lane keeps the invariant when the row
\* it leaves behind agrees with how far the task then is.
LEMMA LaneStep ==
  ASSUME DoneInv, TypeInv', NEW s \in Scope, lanes[s] # <<>>,
         phase \in {"recovering", "ready"}, UNCHANGED <<phase, body>>,
         \A x \in CommandId : x # Current(s) => state'[x] = state[x] /\ outcome'[x] = outcome[x],
         state'[Current(s)] # "absent",
         state'[Current(s)] = "completed" =>
           outcome'[Current(s)] = "ok" \/ body[Current(s)] \in LocalBody,
         \/ TaskEnds(s)
         \/ \E at \in Pc : PcIs(s, at) /\ HeadIs(at, state'[Current(s)], outcome'[Current(s)])
  PROVE  DoneInv'
<1> USE DEF DoneInv
<1>1. PICK id \in CommandId : id = Current(s)
  BY LaneType DEF TypeInv, VolatileOK
<1>2. lanes \in [Scope -> Seq(CommandId)] /\ pc \in [Scope -> Pc]
  BY DEF TypeInv, VolatileOK
<1>3. 1 \in DOMAIN lanes[s] /\ lanes[s][1] = id
  BY <1>1, <1>2 DEF Current
<1>4. state[id] # "absent"
  BY <1>3 DEF InOwnLane
<1>5. RowHasBody'
  BY <1>1, <1>4 DEF RowHasBody
<1>6. \A t \in Scope : t # s => lanes'[t] = lanes[t] /\ pc'[t] = pc[t]
  BY <1>2 DEF TaskEnds, PcIs
<1>7. lanes'[s] = lanes[s] \/ lanes'[s] = Tail(lanes[s])
  BY <1>2 DEF TaskEnds, PcIs
<1>8. \A x \in CommandId : state[x] # "absent" => state'[x] # "absent"
  BY <1>1
<1>9. InOwnLane'
  <2> SUFFICES ASSUME NEW t \in Scope, NEW k \in DOMAIN lanes'[t]
               PROVE  state'[lanes'[t][k]] # "absent" /\ ScopeOf[body[lanes'[t][k]]] = t
    BY DEF InOwnLane
  <2>1. \E j \in DOMAIN lanes[t] : lanes'[t][k] = lanes[t][j]
    <3>1. CASE lanes'[t] = lanes[t]
      BY <3>1
    <3>2. CASE lanes'[t] = Tail(lanes[t]) /\ lanes[t] # <<>>
      <4>1. lanes[t] \in Seq(CommandId)
        BY <1>2
      <4>2. k \in DOMAIN Tail(lanes[t])
        BY <3>2
      <4>3. \E j \in DOMAIN lanes[t] : Tail(lanes[t])[k] = lanes[t][j]
        BY <3>2, <4>1, <4>2, TailHolds, Zenon
      <4> QED BY <3>2, <4>3
    <3> QED BY <1>6, <1>7, <3>1, <3>2
  <2>2. PICK j \in DOMAIN lanes[t] : lanes'[t][k] = lanes[t][j]
    BY <2>1
  <2>3. lanes[t][j] \in CommandId
    BY <1>2, <2>2
  <2> QED BY <1>8, <2>2, <2>3 DEF InOwnLane
<1>10. IdleInStartup'
  BY DEF IdleInStartup
<1>11. HeadsAgree'
  <2> SUFFICES ASSUME NEW t \in Scope, pc'[t] # "idle"
               PROVE  HeadIs(pc'[t], state'[Current(t)'], outcome'[Current(t)'])
    BY DEF HeadsAgree
  <2>1. CASE t = s
    <3>1. PICK at \in Pc : PcIs(s, at) /\ HeadIs(at, state'[Current(s)], outcome'[Current(s)])
      BY <1>2, <2>1 DEF TaskEnds
    <3>2. pc'[s] = at /\ Current(s)' = Current(s)
      BY <1>2, <3>1 DEF PcIs, Current
    <3> QED BY <2>1, <3>1, <3>2
  <2>2. CASE t # s
    <3>1. lanes[t] # <<>> /\ pc'[t] = pc[t] /\ Current(t)' = Current(t)
      BY <1>6, <2>2 DEF TypeInv, VolatileOK, Current
    <3>2. Current(t) # Current(s)
      BY <2>2, <3>1, HeadsDiffer
    <3>3. Current(t) \in CommandId
      BY <3>1, LaneType, <1>2
    <3> QED BY <3>1, <3>2, <3>3 DEF HeadsAgree
  <2> QED BY <2>1, <2>2
<1>12. CompletedMeansDone'
  BY <1>1 DEF CompletedMeansDone
<1> QED BY <1>5, <1>9, <1>10, <1>11, <1>12

\* When the process ends, only the rows and what the adapter answered are left.
LEMMA ProcessEndsDone ==
  ASSUME DoneInv, TypeInv', ProcessEnds, UNCHANGED <<state, body, outcome>>
  PROVE  DoneInv'
<1>1. InOwnLane' /\ IdleInStartup' /\ HeadsAgree'
  BY DEF ProcessEnds, InOwnLane, IdleInStartup, HeadsAgree
<1>2. RowHasBody' /\ CompletedMeansDone'
  BY DEF DoneInv, RowHasBody, CompletedMeansDone
<1> QED BY <1>1, <1>2 DEF DoneInv

\* The command at the head of a lane has a row.
LEMMA HeadHasRow ==
  ASSUME TypeInv, InOwnLane, NEW s \in Scope, lanes[s] # <<>>
  PROVE  state[Current(s)] # "absent"
<1>1. lanes[s] \in Seq(CommandId)
  BY DEF TypeInv, VolatileOK
<1>2. Current(s) = lanes[s][1] /\ 1 \in DOMAIN lanes[s]
  BY <1>1 DEF Current
<1> QED BY <1>2 DEF InOwnLane

\* A task that rejects leaves its row as it is.
LEMMA RejectsDone ==
  ASSUME DoneInv, TypeInv', NEW s \in Scope, lanes[s] # <<>>, Running, TaskRejects(s),
         UNCHANGED <<state, body, outcome>>
  PROVE  DoneInv'
<1>1. CASE ProcessEnds
  BY <1>1, ProcessEndsDone
<1>2. CASE TaskEnds(s) /\ UNCHANGED phase
  <2>1. Current(s) \in CommandId /\ state[Current(s)] # "absent"
    BY LaneType, HeadHasRow DEF DoneInv, TypeInv, VolatileOK
  <2>2. state[Current(s)] = "completed" =>
          outcome[Current(s)] = "ok" \/ body[Current(s)] \in LocalBody
    BY <2>1 DEF DoneInv, CompletedMeansDone
  <2> QED BY <1>2, <2>1, <2>2, LaneStep DEF Running
<1> QED BY <1>1, <1>2 DEF TaskRejects

\* A transition of the head's row that ends the task or moves it on.
LEMMA MovesDone ==
  ASSUME DoneInv, TypeInv', NEW s \in Scope, lanes[s] # <<>>, Running, NEW from, NEW to \in RowState,
         transitionCommand(Current(s), from, to), UNCHANGED <<phase, body, outcome>>,
         to = "completed" => outcome[Current(s)] = "ok" \/ body[Current(s)] \in LocalBody,
         \/ TaskEnds(s)
         \/ \E at \in Pc : /\ PcIs(s, at) /\ state[Current(s)] \in from
                           /\ HeadIs(at, to, outcome[Current(s)])
  PROVE  DoneInv'
<1>1. Current(s) \in CommandId /\ state[Current(s)] # "absent"
  BY LaneType, HeadHasRow DEF DoneInv, TypeInv, VolatileOK
<1>2. /\ \A x \in CommandId : x # Current(s) => state'[x] = state[x]
      /\ state[Current(s)] \in from => state'[Current(s)] = to
      /\ state[Current(s)] \notin from => state'[Current(s)] = state[Current(s)]
  BY <1>1 DEF transitionCommand, DoneInv, TypeInv, DurableOK
<1>3. state[Current(s)] = "completed" =>
        outcome[Current(s)] = "ok" \/ body[Current(s)] \in LocalBody
  BY <1>1 DEF DoneInv, CompletedMeansDone
<1>4. state'[Current(s)] # "absent"
  BY <1>1, <1>2 DEF RowState, Terminal
<1> QED BY <1>1, <1>2, <1>3, <1>4, LaneStep DEF Running

\* A task under way belongs to a process that dispatches.
LEMMA UnderWay ==
  ASSUME DoneInv, NEW s \in Scope, pc[s] # "idle"
  PROVE  Running /\ lanes[s] # <<>> /\ HeadIs(pc[s], state[Current(s)], outcome[Current(s)])
BY DEF DoneInv, IdleInStartup, Running, TypeInv, VolatileOK, HeadsAgree

LEMMA ClaimDone ==
  ASSUME DoneInv, NEW s \in Scope, Claim(s), TypeInv'
  PROVE  DoneInv'
<1>1. Running /\ lanes[s] # <<>> /\ UNCHANGED <<body, outcome>>
  BY DEF Claim, observed
<1>2. CASE TaskRejects(s) /\ UNCHANGED state
  BY <1>1, <1>2, RejectsDone
<1>3. CASE /\ transitionCommand(Current(s), {"accepted"}, "dispatched") /\ UNCHANGED phase
           /\ IF state[Current(s)] = "accepted" THEN PcIs(s, "claimed") ELSE TaskEnds(s)
  <2>1. HeadIs("claimed", "dispatched", outcome[Current(s)])
    BY DEF HeadIs, Answer
  <2> QED BY <1>1, <1>3, <2>1, MovesDone DEF Pc, RowState
<1> QED BY <1>2, <1>3 DEF Claim

LEMMA MarkRunningDone ==
  ASSUME DoneInv, NEW s \in Scope, MarkRunning(s), TypeInv'
  PROVE  DoneInv'
<1>1. /\ Running /\ lanes[s] # <<>> /\ UNCHANGED <<body, outcome>>
      /\ state[Current(s)] = "dispatched"
  BY UnderWay DEF MarkRunning, observed, HeadIs
<1>2. CASE TaskRejects(s) /\ UNCHANGED state
  BY <1>1, <1>2, RejectsDone
<1>3. CASE transitionCommand(Current(s), {"dispatched"}, "running")
           /\ PcIs(s, "started") /\ UNCHANGED phase
  <2>1. HeadIs("started", "running", outcome[Current(s)])
    BY DEF HeadIs, Answer
  <2> QED BY <1>1, <1>3, <2>1, MovesDone DEF Pc, RowState
<1>4. CASE transitionCommand(Current(s), {"dispatched", "running"}, "failed")
           /\ TaskEnds(s) /\ UNCHANGED phase
  BY <1>1, <1>4, MovesDone DEF RowState, Terminal
<1> QED BY <1>2, <1>3, <1>4 DEF MarkRunning

LEMMA AdapterDone ==
  ASSUME DoneInv, NEW s \in Scope, TypeInv',
         CallAdapter(s) \/ \E answer \in Answer : AdapterSettles(s, answer)
  PROVE  DoneInv'
<1>1. pc[s] \in {"started", "awaiting"} /\ UNCHANGED <<phase, body, state>>
  BY DEF CallAdapter, AdapterSettles, durable
<1>2. Running /\ lanes[s] # <<>> /\ state[Current(s)] = "running"
  BY <1>1, UnderWay DEF HeadIs
<1>3. Current(s) \in CommandId
  BY <1>2, LaneType DEF DoneInv, TypeInv, VolatileOK
<1>4. CASE CallAdapter(s)
  <2>1. HeadIs("awaiting", state'[Current(s)], outcome'[Current(s)])
    BY <1>1, <1>2 DEF HeadIs, Answer
  <2>2. PcIs(s, "awaiting") /\ UNCHANGED outcome
    BY <1>4 DEF CallAdapter
  <2> QED BY <1>1, <1>2, <1>3, <2>1, <2>2, LaneStep DEF Running, Pc
<1>5. ASSUME NEW answer \in Answer, AdapterSettles(s, answer)
      PROVE  DoneInv'
  <2>1. outcome' = [outcome EXCEPT ![Current(s)] = answer] /\ PcIs(s, answer)
    BY <1>5 DEF AdapterSettles
  <2>2. /\ outcome'[Current(s)] = answer
        /\ \A x \in CommandId : x # Current(s) => outcome'[x] = outcome[x]
    BY <1>3, <2>1 DEF DoneInv, TypeInv, ObservedOK
  <2>3. HeadIs(answer, state'[Current(s)], outcome'[Current(s)])
    BY <1>1, <1>2, <2>2 DEF HeadIs, Answer
  <2> QED BY <1>1, <1>2, <1>3, <2>1, <2>2, <2>3, LaneStep DEF Running, Pc
<1> QED BY <1>4, <1>5

LEMMA CompleteDone ==
  ASSUME DoneInv, NEW s \in Scope, Complete(s), TypeInv'
  PROVE  DoneInv'
<1>1. /\ Running /\ lanes[s] # <<>> /\ UNCHANGED <<body, outcome>>
      /\ outcome[Current(s)] = "ok" \/ body[Current(s)] \in LocalBody
  BY UnderWay DEF Complete, observed, HeadIs, Answer
<1>2. CASE TaskRejects(s) /\ UNCHANGED state
  BY <1>1, <1>2, RejectsDone
<1>3. CASE transitionCommand(Current(s), {"running"}, "completed")
           /\ TaskEnds(s) /\ UNCHANGED phase
  BY <1>1, <1>3, MovesDone DEF RowState, Terminal
<1>4. CASE transitionCommand(Current(s), {"dispatched", "running"}, "failed")
           /\ TaskEnds(s) /\ UNCHANGED phase
  BY <1>1, <1>4, MovesDone DEF RowState, Terminal
<1> QED BY <1>2, <1>3, <1>4 DEF Complete

LEMMA FailDone ==
  ASSUME DoneInv, NEW s \in Scope, Fail(s), TypeInv'
  PROVE  DoneInv'
<1>1. Running /\ lanes[s] # <<>> /\ UNCHANGED <<body, outcome>>
  BY UnderWay DEF Fail, observed
<1> DEFINE to == IF pc[s] = "unknown" THEN "indeterminate" ELSE "failed"
<1>2. to \in RowState /\ to # "completed"
  BY DEF RowState, Terminal
<1>3. \/ TaskRejects(s) /\ UNCHANGED state
      \/ /\ transitionCommand(Current(s), {"dispatched", "running"}, to)
         /\ TaskEnds(s) /\ UNCHANGED phase
  BY DEF Fail, TaskFails
<1> HIDE DEF to
<1> QED BY <1>1, <1>2, <1>3, RejectsDone, MovesDone

\* A command with a row that joins the lane of its scope.
LEMMA JoinsOwnLane ==
  ASSUME TypeInv, NEW x \in Scope, NEW id \in CommandId,
         lanes' = [lanes EXCEPT ![x] = Append(@, id)]
  PROVE  \A s \in Scope :
           /\ \A k \in DOMAIN lanes'[s] :
                \/ \E j \in DOMAIN lanes[s] : lanes'[s][k] = lanes[s][j]
                \/ s = x /\ lanes'[s][k] = id
           /\ lanes[s] # <<>> => Current(s)' = Current(s)
<1> SUFFICES ASSUME NEW s \in Scope
             PROVE  /\ \A k \in DOMAIN lanes'[s] :
                         \/ \E j \in DOMAIN lanes[s] : lanes'[s][k] = lanes[s][j]
                         \/ s = x /\ lanes'[s][k] = id
                    /\ lanes[s] # <<>> => Current(s)' = Current(s)
  OBVIOUS
<1>1. lanes \in [Scope -> Seq(CommandId)] /\ lanes[s] \in Seq(CommandId)
  BY DEF TypeInv, VolatileOK
<1>2. CASE s # x
  BY <1>1, <1>2 DEF Current
<1>3. CASE s = x
  <2>1. lanes'[s] = Append(lanes[s], id)
    BY <1>1, <1>3
  <2>2. /\ DOMAIN Append(lanes[s], id) = 1..(Len(lanes[s]) + 1) /\ DOMAIN lanes[s] = 1..Len(lanes[s])
        /\ Len(lanes[s]) \in Nat
        /\ Append(lanes[s], id)[Len(lanes[s]) + 1] = id
        /\ \A k \in 1..Len(lanes[s]) : Append(lanes[s], id)[k] = lanes[s][k]
    BY <1>1
  <2>3. ASSUME NEW k \in DOMAIN lanes'[s]
        PROVE  (\E j \in DOMAIN lanes[s] : lanes'[s][k] = lanes[s][j]) \/ lanes'[s][k] = id
    <3>1. CASE k = Len(lanes[s]) + 1
      BY <2>1, <2>2, <3>1
    <3>2. CASE k \in 1..Len(lanes[s])
      BY <2>1, <2>2, <3>2
    <3> QED BY <2>1, <2>2, <3>1, <3>2
  <2>4. lanes[s] # <<>> => Head(Append(lanes[s], id)) = Head(lanes[s])
    BY <1>1
  <2> QED BY <1>3, <2>1, <2>3, <2>4 DEF Current
<1> QED BY <1>2, <1>3

LEMMA SubmitDone ==
  ASSUME DoneInv, NEW id \in CommandId, NEW b \in Body, Submit(id, b), TypeInv'
  PROVE  DoneInv'
<1> USE DEF DoneInv
<1>1. /\ state[id] = "absent" /\ phase = "ready" /\ ScopeOf[b] \in Scope
      /\ lanes' = [lanes EXCEPT ![ScopeOf[b]] = Append(@, id)]
      /\ UNCHANGED <<phase, pc, outcome>>
  BY BodyAssumption DEF Submit
<1>2. /\ state'[id] = "accepted" /\ body'[id] = b
      /\ \A x \in CommandId : x # id => state'[x] = state[x] /\ body'[x] = body[x]
  BY DEF Submit, TypeInv, DurableOK
<1>3. RowHasBody' /\ IdleInStartup' /\ CompletedMeansDone'
  BY <1>1, <1>2 DEF RowHasBody, IdleInStartup, CompletedMeansDone
<1>4. \A s \in Scope : \A j \in DOMAIN lanes[s] : lanes[s][j] \in CommandId
  BY DEF TypeInv, VolatileOK
<1>5. InOwnLane'
  <2> SUFFICES ASSUME NEW s \in Scope, NEW k \in DOMAIN lanes'[s]
               PROVE  state'[lanes'[s][k]] # "absent" /\ ScopeOf[body'[lanes'[s][k]]] = s
    BY DEF InOwnLane
  <2>1. CASE s = ScopeOf[b] /\ lanes'[s][k] = id
    BY <1>2, <2>1
  <2>2. CASE \E j \in DOMAIN lanes[s] : lanes'[s][k] = lanes[s][j]
    <3>1. PICK j \in DOMAIN lanes[s] : lanes'[s][k] = lanes[s][j]
      BY <2>2
    <3>2. state[lanes[s][j]] # "absent" /\ ScopeOf[body[lanes[s][j]]] = s
      BY <3>1 DEF InOwnLane
    <3> QED BY <1>1, <1>2, <1>4, <3>1, <3>2
  <2> QED BY <1>1, <2>1, <2>2, JoinsOwnLane
<1>6. HeadsAgree'
  <2> SUFFICES ASSUME NEW s \in Scope, pc[s] # "idle"
               PROVE  HeadIs(pc[s], state'[Current(s)'], outcome[Current(s)'])
    BY <1>1 DEF HeadsAgree
  <2>1. lanes[s] # <<>> /\ Current(s) \in CommandId
    BY LaneType DEF TypeInv, VolatileOK
  <2>2. Current(s)' = Current(s)
    BY <1>1, <2>1, JoinsOwnLane
  <2>3. Current(s) # id
    BY <1>1, <2>1, HeadHasRow
  <2> QED BY <1>2, <2>1, <2>2, <2>3 DEF HeadsAgree
<1> QED BY <1>3, <1>5, <1>6

\* The start-up touches rows and lanes only while no task is under way.
LEMMA StartupDone ==
  ASSUME DoneInv, Startup, TypeInv'
  PROVE  DoneInv'
<1> USE DEF DoneInv
<1>1. CASE BecomeReady \/ Restart
  <2>1. UNCHANGED <<state, body, lanes, pc, outcome>>
    BY <1>1 DEF BecomeReady, Restart, durable, observed
  <2>2. IdleInStartup'
    BY <1>1, <2>1 DEF BecomeReady, Restart, IdleInStartup
  <2>3. RowHasBody' /\ InOwnLane' /\ HeadsAgree' /\ CompletedMeansDone'
    BY <2>1 DEF RowHasBody, InOwnLane, HeadsAgree, CompletedMeansDone, Current
  <2> QED BY <2>2, <2>3
<1>2. CASE Resume
  <2>1. UNCHANGED <<state, body, pc, outcome>> /\ \A s \in Scope : pc[s] = "idle"
    BY <1>2 DEF Resume, durable, observed, IdleInStartup
  <2>2. RowHasBody' /\ IdleInStartup' /\ HeadsAgree' /\ CompletedMeansDone'
    BY <2>1 DEF RowHasBody, IdleInStartup, HeadsAgree, CompletedMeansDone
  <2>3. CASE UNCHANGED lanes
    BY <2>1, <2>2, <2>3 DEF InOwnLane
  <2>4. CASE ~(cursor > Len(order)) /\ state[order[cursor]] = "accepted"
    <3>0. order \in Seq(CommandId) /\ cursor \in Nat \ {0}
      BY DEF TypeInv, DurableOK, VolatileOK
    <3>1. PICK id \in CommandId : id = order[cursor]
      <4>1. cursor \in 1..Len(order)
        BY <2>4, <3>0
      <4> QED BY <3>0, <4>1
    <3>2. ScopeOf[body[id]] \in Scope
      BY <2>4, <3>1, BodyAssumption DEF RowHasBody
    <3>3. lanes' = [lanes EXCEPT ![ScopeOf[body[id]]] = Append(@, id)]
      BY <1>2, <2>4, <3>1 DEF Resume
    <3>4. InOwnLane'
      <4> SUFFICES ASSUME NEW s \in Scope, NEW k \in DOMAIN lanes'[s]
                   PROVE  state[lanes'[s][k]] # "absent" /\ ScopeOf[body[lanes'[s][k]]] = s
        BY <2>1 DEF InOwnLane
      <4>1. CASE s = ScopeOf[body[id]] /\ lanes'[s][k] = id
        BY <2>4, <3>1, <4>1
      <4>2. CASE \E j \in DOMAIN lanes[s] : lanes'[s][k] = lanes[s][j]
        BY <4>2 DEF InOwnLane
      <4>3. \/ \E j \in DOMAIN lanes[s] : lanes'[s][k] = lanes[s][j]
            \/ s = ScopeOf[body[id]] /\ lanes'[s][k] = id
        <5> TypeInv
          OBVIOUS
        <5> HIDE DEF DoneInv
        <5> QED BY <3>2, <3>3, JoinsOwnLane
      <4> QED BY <4>1, <4>2, <4>3
    <3> QED BY <2>2, <3>4
  <2> QED BY <1>2, <2>3, <2>4 DEF Resume
<1>3. CASE MarkUncertain
  <2>1. UNCHANGED <<body, outcome>> /\ \A s \in Scope : pc[s] = "idle"
    BY <1>3 DEF MarkUncertain, observed, IdleInStartup
  <2>2. CASE ProcessEnds /\ UNCHANGED state
    BY <2>1, <2>2, ProcessEndsDone
  <2>3. CASE UNCHANGED <<lanes, pc>>
             /\ \A x \in CommandId : state'[x] = state[x] \/ (state[x] # "absent" /\ state'[x] = "indeterminate")
    <3>1. RowHasBody' /\ CompletedMeansDone'
      BY <2>1, <2>3 DEF RowHasBody, CompletedMeansDone
    <3>2. IdleInStartup' /\ HeadsAgree'
      BY <2>1, <2>3 DEF IdleInStartup, HeadsAgree
    <3>3. InOwnLane'
      <4>1. \A s \in Scope : \A j \in DOMAIN lanes[s] : lanes[s][j] \in CommandId
        BY DEF TypeInv, VolatileOK
      <4> QED BY <2>1, <2>3, <4>1 DEF InOwnLane
    <3> QED BY <3>1, <3>2, <3>3
  <2>4. CASE UNCHANGED <<state, lanes, pc>>
    BY <2>3, <2>4
  <2>5. CASE /\ ~(cursor > Len(order)) /\ UNCHANGED <<lanes, pc>>
             /\ transitionCommand(order[cursor], {"dispatched", "running"}, "indeterminate")
    <3>1. order[cursor] \in CommandId
      BY <2>5 DEF TypeInv, DurableOK, VolatileOK
    <3>2. \A x \in CommandId : state'[x] = state[x] \/ (state[x] # "absent" /\ state'[x] = "indeterminate")
      BY <2>5, <3>1 DEF transitionCommand, TypeInv, DurableOK
    <3> QED BY <2>3, <2>5, <3>2
  <2> QED BY <1>3, <2>2, <2>4, <2>5 DEF MarkUncertain
<1> QED BY <1>1, <1>2, <1>3 DEF Startup

LEMMA DoneInit == Init => DoneInv
<1> SUFFICES ASSUME Init PROVE DoneInv
  OBVIOUS
<1>1. RowHasBody /\ InOwnLane /\ IdleInStartup /\ HeadsAgree /\ CompletedMeansDone
  BY DEF Init, RowHasBody, InOwnLane, IdleInStartup, HeadsAgree, CompletedMeansDone
<1> QED BY <1>1, TypeInit DEF DoneInv

LEMMA DoneStep == DoneInv /\ [Next]_vars => DoneInv'
<1> SUFFICES ASSUME DoneInv, [Next]_vars PROVE DoneInv'
  OBVIOUS
<1>1. TypeInv'
  BY TypeStep DEF DoneInv
<1>2. CASE UNCHANGED <<durable, volatile, outcome>>
  <2>1. RowHasBody' /\ InOwnLane' /\ IdleInStartup' /\ HeadsAgree' /\ CompletedMeansDone'
    BY <1>2 DEF durable, volatile, DoneInv, RowHasBody, InOwnLane, IdleInStartup, HeadsAgree,
                CompletedMeansDone, Current
  <2> QED BY <1>1, <2>1 DEF DoneInv
<1>3. CASE \E id \in CommandId, b \in Body : Submit(id, b)
  BY <1>1, <1>3, SubmitDone
<1>4. CASE \E id \in CommandId, b \in Body : Resubmit(id, b)
  BY <1>2, <1>4 DEF Resubmit
<1>5. CASE \E s \in Scope : Task(s)
  BY <1>1, <1>5, ClaimDone, MarkRunningDone, AdapterDone, CompleteDone, FailDone DEF Task
<1>6. CASE Startup
  BY <1>1, <1>6, StartupDone
<1>7. CASE Crash
  BY <1>1, <1>7, ProcessEndsDone DEF Crash, durable, observed
<1>8. CASE UNCHANGED vars
  BY <1>2, <1>8 DEF vars, observed
<1> QED BY <1>3, <1>4, <1>5, <1>6, <1>7, <1>8 DEF Next

\* "completed" is never reported for a command the adapter did not carry out
\* (unless it is local to the bridge): not when a transaction fails, the
\* process dies, or the tasks of several lanes interleave.
THEOREM CompletedIsTrue == Spec => []CompletedMeansDone
<1>1. DoneInv => CompletedMeansDone
  BY DEF DoneInv
<1> QED BY <1>1, DoneInit, DoneStep, PTL DEF Spec

-----------------------------------------------------------------------------
(* What clients were told agrees with the rows.                            *)

\* A row is never removed, and never gets another body.
LEMMA RowsStay ==
  ASSUME TypeInv, [Next]_vars, NEW x \in CommandId, state[x] # "absent"
  PROVE  state'[x] # "absent" /\ body'[x] = body[x]
<1>0. state \in [CommandId -> RowState \cup {"absent"}] /\ body \in [CommandId -> Body \cup {NoBody}]
  BY DEF TypeInv, DurableOK
<1>1. CASE UNCHANGED <<state, body>>
  BY <1>1
<1>2. ASSUME NEW id \in CommandId, NEW b \in Body, Submit(id, b)
      PROVE  state'[x] # "absent" /\ body'[x] = body[x]
  BY <1>0, <1>2 DEF Submit
<1>3. ASSUME NEW id \in CommandId, NEW from, NEW to \in RowState,
             transitionCommand(id, from, to), UNCHANGED body
      PROVE  state'[x] # "absent" /\ body'[x] = body[x]
  BY <1>0, <1>3 DEF transitionCommand, RowState, Terminal
<1>4. ASSUME NEW s \in Scope, Claim(s) \/ MarkRunning(s) \/ Complete(s) \/ Fail(s)
      PROVE  state'[x] # "absent" /\ body'[x] = body[x]
  <2>1. PICK id \in CommandId : id = Current(s)
    BY <1>4, LaneType DEF Claim, MarkRunning, Complete, Fail, TypeInv, VolatileOK
  <2> QED BY <1>1, <1>3, <1>4, <2>1
          DEF Claim, MarkRunning, Complete, Fail, TaskFails, RowState, Terminal
<1>5. CASE MarkUncertain
  <2>1. CASE ~(cursor > Len(order))
    <3>1. order[cursor] \in CommandId
      BY <2>1 DEF TypeInv, DurableOK, VolatileOK
    <3> QED BY <1>1, <1>3, <1>5, <2>1, <3>1 DEF MarkUncertain, RowState, Terminal
  <2> QED BY <1>1, <1>5, <2>1 DEF MarkUncertain
<1>6. CASE \E id \in CommandId, b \in Body : Resubmit(id, b)
  BY <1>1, <1>6 DEF Resubmit, durable
<1>7. CASE \E s \in Scope : CallAdapter(s) \/ \E answer \in Answer : AdapterSettles(s, answer)
  BY <1>1, <1>7 DEF CallAdapter, AdapterSettles, durable
<1>8. CASE Crash \/ Restart \/ Resume \/ BecomeReady \/ UNCHANGED vars
  BY <1>1, <1>8 DEF Crash, Restart, Resume, BecomeReady, vars, durable
<1> QED BY <1>2, <1>4, <1>5, <1>6, <1>7, <1>8 DEF Next, Task, Startup

\* Only a submission tells a client anything.
LEMMA RepliesStep ==
  ASSUME TypeInv, RepliesAgree, [Next]_vars
  PROVE  RepliesAgree'
<1>0. replies \subseteq Reply
  BY DEF TypeInv, ObservedOK
<1>1. ASSUME NEW r \in replies
      PROVE  state'[r.id] # "absent" /\ ((r.kind = "conflict") <=> (body'[r.id] # r.body))
  <2>1. r.id \in CommandId
    BY <1>0 DEF Reply
  <2>2. state[r.id] # "absent" /\ ((r.kind = "conflict") <=> (body[r.id] # r.body))
    BY DEF RepliesAgree
  <2> QED BY <2>1, <2>2, RowsStay
<1>2. CASE replies' = replies
  BY <1>1, <1>2 DEF RepliesAgree
<1>3. ASSUME NEW id \in CommandId, NEW b \in Body, NEW kind, Replied(id, b, kind),
             state'[id] # "absent", (kind = "conflict") <=> (body'[id] # b)
      PROVE  RepliesAgree'
  BY <1>1, <1>3 DEF Replied, RepliesAgree
<1>4. CASE \E id \in CommandId, b \in Body : Submit(id, b)
  <2>1. PICK id \in CommandId, b \in Body : Submit(id, b)
    BY <1>4
  <2>2. state'[id] = "accepted" /\ body'[id] = b /\ Replied(id, b, "accepted")
    BY <2>1 DEF Submit, TypeInv, DurableOK
  <2> QED BY <1>3, <2>2
<1>5. CASE \E id \in CommandId, b \in Body : Resubmit(id, b)
  <2>1. PICK id \in CommandId, b \in Body : Resubmit(id, b)
    BY <1>5
  <2> DEFINE kind == IF body[id] = b THEN "duplicate" ELSE "conflict"
  <2>2. /\ state'[id] # "absent" /\ body'[id] = body[id] /\ Replied(id, b, kind)
        /\ (kind = "conflict") <=> (body[id] # b)
    BY <2>1 DEF Resubmit, durable
  <2> HIDE DEF kind
  <2> QED BY <1>3, <2>2
<1>6. CASE \E s \in Scope : Task(s)
  BY <1>2, <1>6 DEF Task, Claim, MarkRunning, CallAdapter, AdapterSettles, Complete, Fail, observed
<1>7. CASE Startup \/ Crash \/ UNCHANGED vars
  BY <1>2, <1>7 DEF Startup, Restart, MarkUncertain, Resume, BecomeReady, Crash, vars, observed
<1> QED BY <1>4, <1>5, <1>6, <1>7 DEF Next

\* Whatever clients were told about an id stays true of its row through any
\* number of repeats, reuses, crashes and failing transactions.
THEOREM RepliesStayTrue == Spec => []RepliesAgree
<1>1. Init => RepliesAgree
  BY DEF Init, RepliesAgree
<1> QED BY <1>1, TypeInit, TypeStep, RepliesStep, PTL DEF Spec

-----------------------------------------------------------------------------
(* A ready bridge has forgotten nothing.                                   *)

\* Without failing transactions the store stays writable.
StoreHealthy == writable /\ (phase = "down" => cursor = 1)

\* The rows are listed in the order of their creation, each once.
Listed ==
  /\ \A i, j \in DOMAIN order : order[i] = order[j] => i = j
  /\ \A id \in CommandId : state[id] # "absent" <=> \E i \in DOMAIN order : order[i] = id

\* A command is queued at most once, and the command is in the lane of its scope.
NoRepeat == \A s \in Scope : \A j, k \in DOMAIN lanes[s] : lanes[s][j] = lanes[s][k] => j = k
InLane(id) == \E k \in DOMAIN lanes[ScopeOf[body[id]]] : lanes[ScopeOf[body[id]]][k] = id

Claimed == {"dispatched", "running"}

\* What the start-up has done so far.
Recovering ==
  /\ phase \in {"down", "marking"} => \A s \in Scope : lanes[s] = <<>>
  /\ phase = "marking" => \A i \in DOMAIN order : i < cursor => state[order[i]] \notin Claimed
  /\ phase = "resuming" =>
       /\ \A id \in CommandId : state[id] \notin Claimed
       /\ \A i \in DOMAIN order : i < cursor /\ state[order[i]] = "accepted" => InLane(order[i])
       /\ \A s \in Scope : \A k \in DOMAIN lanes[s] :
            \E i \in DOMAIN order : i < cursor /\ order[i] = lanes[s][k]

\* From then on every row without an outcome has its task, and a claimed row
\* is the head of its lane.
Remembered ==
  phase \in {"recovering", "ready"} =>
    \A id \in CommandId :
      /\ state[id] \in {"accepted"} \cup Claimed => InLane(id)
      /\ state[id] \in Claimed => pc[ScopeOf[body[id]]] # "idle" /\ Current(ScopeOf[body[id]]) = id

\* The inductive invariant behind NothingForgotten.
Mem == StoreHealthy /\ Listed /\ NoRepeat /\ Recovering /\ Remembered
MemoryInv == faults = 0 => Mem

\* The facts about lanes that the steps need.
LEMMA LaneTypes ==
  ASSUME TypeInv
  PROVE  /\ lanes \in [Scope -> Seq(CommandId)] /\ pc \in [Scope -> Pc]
         /\ state \in [CommandId -> RowState \cup {"absent"}]
         /\ body \in [CommandId -> Body \cup {NoBody}]
         /\ order \in Seq(CommandId) /\ cursor \in Nat \ {0}
  BY DEF TypeInv, DurableOK, VolatileOK

\* What is behind the head stays when the head leaves, once if it was once.
LEMMA BehindHead ==
  ASSUME NEW q \in Seq(CommandId), q # <<>>
  PROVE  /\ \A k \in DOMAIN q : q[k] # Head(q) => \E j \in DOMAIN Tail(q) : Tail(q)[j] = q[k]
         /\ (\A j, k \in DOMAIN q : q[j] = q[k] => j = k)
              => (\A j, k \in DOMAIN Tail(q) : Tail(q)[j] = Tail(q)[k] => j = k)
<1> DEFINE t == Tail(q)
<1>1. /\ Len(q) \in Nat \ {0} /\ DOMAIN q = 1..Len(q) /\ DOMAIN t = 1..(Len(q) - 1)
      /\ (\A k \in DOMAIN t : t[k] = q[k + 1]) /\ Head(q) = q[1]
  OBVIOUS
<1> HIDE DEF t
<1>2. ASSUME NEW k \in DOMAIN q, q[k] # Head(q) PROVE \E j \in DOMAIN t : t[j] = q[k]
  <2>1. k - 1 \in DOMAIN t /\ t[k - 1] = q[(k - 1) + 1] /\ (k - 1) + 1 = k
    BY <1>1, <1>2
  <2> QED BY <2>1
<1>3. ASSUME \A j, k \in DOMAIN q : q[j] = q[k] => j = k,
             NEW j \in DOMAIN t, NEW k \in DOMAIN t, t[j] = t[k]
      PROVE  j = k
  <2>1. j + 1 \in DOMAIN q /\ k + 1 \in DOMAIN q /\ q[j + 1] = q[k + 1]
    BY <1>1, <1>3
  <2>2. j + 1 = k + 1
    BY <1>3, <2>1
  <2> QED BY <1>1, <2>2
<1> QED BY <1>2, <1>3 DEF t

\* A command that is not queued joins the end of a lane.
LEMMA JoinsEnd ==
  ASSUME NEW q \in Seq(CommandId), NEW id \in CommandId
  PROVE  /\ \A k \in DOMAIN q : k \in DOMAIN Append(q, id) /\ Append(q, id)[k] = q[k]
         /\ Len(q) + 1 \in DOMAIN Append(q, id) /\ Append(q, id)[Len(q) + 1] = id
         /\ \A k \in DOMAIN Append(q, id) : k \in DOMAIN q \/ k = Len(q) + 1
         /\ q # <<>> => Head(Append(q, id)) = Head(q)
         /\ (\A k \in DOMAIN q : q[k] # id) /\ (\A j, k \in DOMAIN q : q[j] = q[k] => j = k)
              => (\A j, k \in DOMAIN Append(q, id) : Append(q, id)[j] = Append(q, id)[k] => j = k)
<1> DEFINE r == Append(q, id)
<1>1. /\ Len(q) \in Nat /\ DOMAIN q = 1..Len(q) /\ DOMAIN r = 1..(Len(q) + 1)
      /\ (\A k \in 1..Len(q) : r[k] = q[k]) /\ r[Len(q) + 1] = id
  OBVIOUS
<1>2. q # <<>> => Head(r) = Head(q)
  OBVIOUS
<1> HIDE DEF r
<1>3. /\ \A k \in DOMAIN q : k \in DOMAIN r /\ r[k] = q[k]
      /\ Len(q) + 1 \in DOMAIN r /\ r[Len(q) + 1] = id
      /\ \A k \in DOMAIN r : k \in DOMAIN q \/ k = Len(q) + 1
  BY <1>1
<1>4. ASSUME \A k \in DOMAIN q : q[k] # id, \A j, k \in DOMAIN q : q[j] = q[k] => j = k,
             NEW j \in DOMAIN r, NEW k \in DOMAIN r, r[j] = r[k]
      PROVE  j = k
  BY <1>3, <1>4
<1> QED BY <1>2, <1>3, <1>4 DEF r

\* A step of the task at the head of a lane: the task ends with an outcome, or
\* goes on with the row claimed.
LEMMA TaskMem ==
  ASSUME DoneInv, DoneInv', Mem, NEW s \in Scope, lanes[s] # <<>>, Running,
         UNCHANGED <<phase, body, order, writable>>,
         \A x \in CommandId : x # Current(s) => state'[x] = state[x],
         \/ TaskEnds(s) /\ state'[Current(s)] \in Terminal
         \/ \E at \in Pc \ {"idle"} : PcIs(s, at)
  PROVE  Mem'
<1> DEFINE head == Current(s)
<1>0. /\ lanes \in [Scope -> Seq(CommandId)] /\ pc \in [Scope -> Pc]
      /\ state \in [CommandId -> RowState \cup {"absent"}] /\ order \in Seq(CommandId)
  BY LaneTypes DEF DoneInv
<1>1. /\ head \in CommandId /\ lanes[s] \in Seq(CommandId) /\ head = lanes[s][1] /\ 1 \in DOMAIN lanes[s]
      /\ head = Head(lanes[s]) /\ ScopeOf[body[head]] = s /\ state[head] # "absent"
  BY <1>0 DEF Current, DoneInv, InOwnLane
<1>2. state'[head] # "absent"
  <2>1. CASE TaskEnds(s) /\ state'[head] \in Terminal
    BY <2>1 DEF Terminal
  <2>2. CASE \E at \in Pc \ {"idle"} : PcIs(s, at)
    <3>1. lanes' = lanes
      BY <2>2 DEF PcIs
    <3> QED BY <1>1, <3>1 DEF DoneInv, InOwnLane
  <2> QED BY <2>1, <2>2
<1>3. phase \in {"recovering", "ready"}
  BY DEF Running
<1>4. StoreHealthy' /\ Recovering'
  BY <1>3 DEF Mem, StoreHealthy, Recovering
<1>5. Listed'
  BY <1>1, <1>2 DEF Mem, Listed
<1>6. \A t \in Scope : t # s => lanes'[t] = lanes[t] /\ pc'[t] = pc[t]
  BY <1>0 DEF TaskEnds, PcIs
<1>7. ASSUME NEW id \in CommandId, id # head, state'[id] \in {"accepted"} \cup Claimed
      PROVE  /\ state[id] = state'[id]
             /\ ScopeOf[body[id]] \in Scope /\ InLane(id)
             /\ state[id] \in Claimed => /\ ScopeOf[body[id]] # s /\ pc[ScopeOf[body[id]]] # "idle"
                                         /\ Current(ScopeOf[body[id]]) = id
  <2>1. state[id] = state'[id] /\ state[id] # "absent"
    BY <1>7 DEF Claimed
  <2>2. ScopeOf[body[id]] \in Scope
    BY <2>1, BodyAssumption DEF DoneInv, RowHasBody
  <2> QED BY <1>3, <1>7, <2>1, <2>2 DEF Mem, Remembered
<1>8. CASE TaskEnds(s) /\ state'[head] \in Terminal
  <2>1. lanes'[s] = Tail(lanes[s])
    BY <1>0, <1>8 DEF TaskEnds
  <2>2. NoRepeat'
    <3>1. ASSUME NEW t \in Scope
          PROVE  \A j, k \in DOMAIN lanes'[t] : lanes'[t][j] = lanes'[t][k] => j = k
      <4>1. \A j, k \in DOMAIN lanes[t] : lanes[t][j] = lanes[t][k] => j = k
        BY DEF Mem, NoRepeat
      <4>2. CASE t = s
        <5>1. \A j, k \in DOMAIN Tail(lanes[s]) : Tail(lanes[s])[j] = Tail(lanes[s])[k] => j = k
          BY <1>1, <4>1, <4>2, BehindHead
        <5> QED BY <2>1, <4>2, <5>1
      <4>3. CASE t # s
        BY <1>6, <4>1, <4>3
      <4> QED BY <4>2, <4>3
    <3> QED BY <3>1 DEF NoRepeat
  <2>3. ASSUME NEW id \in CommandId, state'[id] \in {"accepted"} \cup Claimed
        PROVE  /\ \E k \in DOMAIN lanes'[ScopeOf[body[id]]] : lanes'[ScopeOf[body[id]]][k] = id
               /\ state'[id] \in Claimed => /\ pc'[ScopeOf[body[id]]] # "idle"
                                            /\ Current(ScopeOf[body[id]])' = id
    <3>1. id # head
      BY <1>8, <2>3 DEF Terminal, Claimed
    <3>2. PICK k \in DOMAIN lanes[ScopeOf[body[id]]] : lanes[ScopeOf[body[id]]][k] = id
      BY <1>7, <2>3, <3>1 DEF InLane
    <3>3. CASE ScopeOf[body[id]] = s
      <4>1. \E j \in DOMAIN Tail(lanes[s]) : Tail(lanes[s])[j] = lanes[s][k]
        BY <1>1, <3>1, <3>2, <3>3, BehindHead
      <4>2. state'[id] \notin Claimed
        BY <1>7, <2>3, <3>1, <3>3
      <4> QED BY <2>1, <3>2, <3>3, <4>1, <4>2
    <3>4. CASE ScopeOf[body[id]] # s
      <4>1. /\ lanes'[ScopeOf[body[id]]] = lanes[ScopeOf[body[id]]]
            /\ pc'[ScopeOf[body[id]]] = pc[ScopeOf[body[id]]]
        BY <1>6, <1>7, <2>3, <3>1, <3>4
      <4> QED BY <1>7, <2>3, <3>1, <3>2, <4>1 DEF Current
    <3> QED BY <3>3, <3>4
  <2>4. Remembered'
    BY <2>3 DEF Remembered, InLane
  <2> QED BY <1>4, <1>5, <2>2, <2>4 DEF Mem
<1>9. CASE \E at \in Pc \ {"idle"} : PcIs(s, at)
  <2>1. lanes' = lanes /\ pc'[s] # "idle"
    BY <1>0, <1>9 DEF PcIs
  <2>2. NoRepeat'
    BY <2>1 DEF Mem, NoRepeat
  <2>3. ASSUME NEW id \in CommandId, state'[id] \in {"accepted"} \cup Claimed
        PROVE  /\ InLane(id)'
               /\ state'[id] \in Claimed => /\ pc'[ScopeOf[body[id]]] # "idle"
                                            /\ Current(ScopeOf[body[id]])' = id
    <3>1. CASE id = head
      BY <1>1, <2>1, <3>1 DEF InLane, Current
    <3>2. CASE id # head
      BY <1>6, <1>7, <2>1, <2>3, <3>2 DEF InLane, Current
    <3> QED BY <3>1, <3>2
  <2>4. Remembered'
    BY <2>3 DEF Remembered
  <2> QED BY <1>4, <1>5, <2>2, <2>4 DEF Mem
<1> QED BY <1>8, <1>9

\* A store that has not failed does not throw without a fault.
LEMMA NoThrow ==
  ASSUME Mem, faults = 0, faults' = 0
  PROVE  ~Throws
BY DEF Mem, StoreHealthy, Throws

\* A transition of the row at the head of a lane.
LEMMA TaskMoves ==
  ASSUME DoneInv, DoneInv', Mem, NEW s \in Scope, lanes[s] # <<>>, Running,
         UNCHANGED <<phase, body, order, writable>>,
         NEW from, NEW to, transitionCommand(Current(s), from, to), state[Current(s)] \in from,
         (TaskEnds(s) /\ to \in Terminal) \/ \E at \in Pc \ {"idle"} : PcIs(s, at)
  PROVE  Mem'
<1>1. Current(s) \in CommandId /\ state \in [CommandId -> RowState \cup {"absent"}]
  BY LaneTypes DEF Current, DoneInv
<1>2. state'[Current(s)] = to /\ \A x \in CommandId : x # Current(s) => state'[x] = state[x]
  BY <1>1 DEF transitionCommand
<1> QED BY <1>2, TaskMem

\* The steps of the task at the head of a lane.
LEMMA TasksMem ==
  ASSUME DoneInv, DoneInv', Mem, faults = 0, faults' = 0, NEW s \in Scope, Task(s)
  PROVE  Mem'
<1>0. ~Throws
  BY NoThrow
<1>1. CASE Claim(s)
  <2>1. /\ Running /\ lanes[s] # <<>> /\ pc[s] = "idle"
        /\ UNCHANGED <<phase, body, order, writable>>
        /\ transitionCommand(Current(s), {"accepted"}, "dispatched")
        /\ IF state[Current(s)] = "accepted" THEN PcIs(s, "claimed") ELSE TaskEnds(s)
    BY <1>0, <1>1 DEF Claim, Commits
  <2>2. CASE state[Current(s)] = "accepted"
    BY <2>1, <2>2, TaskMoves DEF Pc
  <2>3. CASE state[Current(s)] # "accepted"
    <3>1. Current(s) \in CommandId /\ state[Current(s)] \in RowState /\ ScopeOf[body[Current(s)]] = s
      <4>1. 1 \in DOMAIN lanes[s] /\ Current(s) = lanes[s][1] /\ Current(s) \in CommandId
        BY <2>1, LaneTypes DEF Current, DoneInv
      <4> QED BY <4>1, LaneTypes DEF DoneInv, InOwnLane
    <3>2. state[Current(s)] \notin Claimed
      BY <2>1, <3>1 DEF Mem, Remembered, Running
    <3>3. state' = state /\ state[Current(s)] \in Terminal
      BY <2>1, <2>3, <3>1, <3>2 DEF transitionCommand, RowState, Claimed
    <3> QED BY <2>1, <2>3, <3>3, TaskMem
  <2> QED BY <2>2, <2>3
<1>2. CASE MarkRunning(s)
  <2>1. Running /\ lanes[s] # <<>> /\ state[Current(s)] = "dispatched"
    BY <1>2, UnderWay DEF MarkRunning, HeadIs
  <2>2. /\ UNCHANGED <<phase, body, order, writable>> /\ PcIs(s, "started")
        /\ transitionCommand(Current(s), {"dispatched"}, "running")
    BY <1>0, <1>2 DEF MarkRunning, Commits
  <2> QED BY <2>1, <2>2, TaskMoves DEF Pc
<1>3. CASE CallAdapter(s)
  <2>1. Running /\ lanes[s] # <<>>
    BY <1>3, UnderWay DEF CallAdapter
  <2>2. UNCHANGED <<phase, body, order, writable, state>> /\ PcIs(s, "awaiting")
    BY <1>3 DEF CallAdapter, durable
  <2> QED BY <2>1, <2>2, TaskMem DEF Pc
<1>4. ASSUME NEW answer \in Answer, AdapterSettles(s, answer) PROVE Mem'
  <2>1. Running /\ lanes[s] # <<>>
    BY <1>4, UnderWay DEF AdapterSettles
  <2>2. UNCHANGED <<phase, body, order, writable, state>> /\ PcIs(s, answer)
    BY <1>4 DEF AdapterSettles, durable
  <2>3. answer \in Pc \ {"idle"}
    BY DEF Pc, Answer
  <2> QED BY <2>1, <2>2, <2>3, TaskMem
<1>5. CASE Complete(s)
  <2>1. Running /\ lanes[s] # <<>> /\ state[Current(s)] = "running"
    BY <1>5, UnderWay DEF Complete, HeadIs, Answer
  <2>2. /\ UNCHANGED <<phase, body, order, writable>> /\ TaskEnds(s)
        /\ transitionCommand(Current(s), {"running"}, "completed")
    BY <1>0, <1>5 DEF Complete, Commits
  <2> QED BY <2>1, <2>2, TaskMoves DEF Terminal
<1>6. CASE Fail(s)
  <2> DEFINE to == IF pc[s] = "unknown" THEN "indeterminate" ELSE "failed"
  <2>1. Running /\ lanes[s] # <<>> /\ state[Current(s)] = "running"
    BY <1>6, UnderWay DEF Fail, HeadIs, Answer
  <2>2. /\ UNCHANGED <<phase, body, order, writable>> /\ TaskEnds(s)
        /\ transitionCommand(Current(s), {"dispatched", "running"}, to)
    BY <1>0, <1>6 DEF Fail, TaskFails, Commits
  <2>3. to \in Terminal
    BY DEF Terminal
  <2> HIDE DEF to
  <2> QED BY <2>1, <2>2, <2>3, TaskMoves
<1> QED BY <1>1, <1>2, <1>3, <1>4, <1>5, <1>6 DEF Task

\* A command that is queued nowhere joins the lane x: it is queued once, and the
\* others keep their places.
LEMMA QueueJoins ==
  ASSUME TypeInv, NoRepeat, NEW x \in Scope, NEW id \in CommandId,
         lanes' = [lanes EXCEPT ![x] = Append(@, id)],
         \A k \in DOMAIN lanes[x] : lanes[x][k] # id
  PROVE  /\ NoRepeat'
         /\ \A s \in Scope : \A k \in DOMAIN lanes[s] : k \in DOMAIN lanes'[s] /\ lanes'[s][k] = lanes[s][k]
         /\ \E k \in DOMAIN lanes'[x] : lanes'[x][k] = id
<1>1. lanes \in [Scope -> Seq(CommandId)] /\ lanes[x] \in Seq(CommandId)
  BY LaneTypes
<1>2. lanes'[x] = Append(lanes[x], id) /\ \A s \in Scope : s # x => lanes'[s] = lanes[s]
  BY <1>1
<1>3. \A j, k \in DOMAIN lanes[x] : lanes[x][j] = lanes[x][k] => j = k
  BY DEF NoRepeat
<1>4. /\ \A k \in DOMAIN lanes[x] : k \in DOMAIN Append(lanes[x], id) /\ Append(lanes[x], id)[k] = lanes[x][k]
      /\ Len(lanes[x]) + 1 \in DOMAIN Append(lanes[x], id)
      /\ Append(lanes[x], id)[Len(lanes[x]) + 1] = id
      /\ \A j, k \in DOMAIN Append(lanes[x], id) : Append(lanes[x], id)[j] = Append(lanes[x], id)[k] => j = k
  BY <1>1, <1>3, JoinsEnd
<1>5. NoRepeat'
  BY <1>2, <1>4 DEF NoRepeat
<1>6. \A s \in Scope : \A k \in DOMAIN lanes[s] : k \in DOMAIN lanes'[s] /\ lanes'[s][k] = lanes[s][k]
  BY <1>2, <1>4
<1>7. \E k \in DOMAIN lanes'[x] : lanes'[x][k] = id
  BY <1>2, <1>4
<1> QED BY <1>5, <1>6, <1>7

\* A new command is listed last and queued last.
LEMMA SubmitMem ==
  ASSUME DoneInv, Mem, NEW id \in CommandId, NEW b \in Body, Submit(id, b)
  PROVE  Mem'
<1>0. /\ state \in [CommandId -> RowState \cup {"absent"}] /\ body \in [CommandId -> Body \cup {NoBody}]
      /\ order \in Seq(CommandId) /\ lanes \in [Scope -> Seq(CommandId)]
  BY LaneTypes DEF DoneInv
<1>1. /\ state[id] = "absent" /\ phase = "ready" /\ ScopeOf[b] \in Scope
      /\ lanes' = [lanes EXCEPT ![ScopeOf[b]] = Append(@, id)] /\ order' = Append(order, id)
      /\ UNCHANGED <<phase, pc, writable>>
  BY BodyAssumption DEF Submit
<1>2. /\ state'[id] = "accepted" /\ body'[id] = b
      /\ \A x \in CommandId : x # id => state'[x] = state[x] /\ body'[x] = body[x]
  BY <1>0 DEF Submit
<1>3. StoreHealthy' /\ Recovering'
  BY <1>1 DEF Mem, StoreHealthy, Recovering
<1>4. Listed'
  <2>1. \A i \in DOMAIN order : order[i] # id
    BY <1>1 DEF Mem, Listed
  <2>2. /\ \A k \in DOMAIN order : k \in DOMAIN order' /\ order'[k] = order[k]
        /\ Len(order) + 1 \in DOMAIN order' /\ order'[Len(order) + 1] = id
        /\ \A k \in DOMAIN order' : k \in DOMAIN order \/ k = Len(order) + 1
        /\ \A j, k \in DOMAIN order' : order'[j] = order'[k] => j = k
    BY <1>0, <1>1, <2>1, JoinsEnd DEF Mem, Listed
  <2>3. ASSUME NEW x \in CommandId
        PROVE  state'[x] # "absent" <=> \E i \in DOMAIN order' : order'[i] = x
    <3>1. CASE x = id
      BY <1>2, <2>2, <3>1
    <3>2. CASE x # id
      <4>1. state[x] # "absent" <=> \E i \in DOMAIN order : order[i] = x
        BY DEF Mem, Listed
      <4> QED BY <1>2, <2>2, <3>2, <4>1
    <3> QED BY <3>1, <3>2
  <2> QED BY <2>2, <2>3 DEF Listed
<1>5. \A s \in Scope : \A k \in DOMAIN lanes[s] : lanes[s][k] # id
  BY <1>1 DEF DoneInv, InOwnLane
<1>6. /\ NoRepeat'
      /\ \A s \in Scope : \A k \in DOMAIN lanes[s] : k \in DOMAIN lanes'[s] /\ lanes'[s][k] = lanes[s][k]
      /\ \E k \in DOMAIN lanes'[ScopeOf[b]] : lanes'[ScopeOf[b]][k] = id
  BY <1>1, <1>5, QueueJoins DEF Mem, DoneInv
<1>7. Remembered'
  <2>1. ASSUME NEW x \in CommandId, state'[x] \in {"accepted"} \cup Claimed
        PROVE  /\ \E k \in DOMAIN lanes'[ScopeOf[body'[x]]] : lanes'[ScopeOf[body'[x]]][k] = x
               /\ state'[x] \in Claimed => /\ pc'[ScopeOf[body'[x]]] # "idle"
                                           /\ Head(lanes'[ScopeOf[body'[x]]]) = x
    <3>1. CASE x = id
      BY <1>2, <1>6, <3>1 DEF Claimed
    <3>2. CASE x # id
      <4>1. state'[x] = state[x] /\ body'[x] = body[x] /\ state[x] # "absent"
        BY <1>2, <2>1, <3>2 DEF Claimed
      <4>2. ScopeOf[body[x]] \in Scope
        BY <4>1, BodyAssumption DEF DoneInv, RowHasBody
      <4>3. /\ InLane(x)
            /\ state[x] \in Claimed => pc[ScopeOf[body[x]]] # "idle" /\ Current(ScopeOf[body[x]]) = x
        BY <1>1, <2>1, <4>1 DEF Mem, Remembered
      <4>4. PICK k \in DOMAIN lanes[ScopeOf[body[x]]] : lanes[ScopeOf[body[x]]][k] = x
        BY <4>3 DEF InLane
      <4>5. k \in DOMAIN lanes'[ScopeOf[body[x]]] /\ lanes'[ScopeOf[body[x]]][k] = x
        BY <1>6, <4>2, <4>4
      <4>6. Head(lanes'[ScopeOf[body[x]]]) = Head(lanes[ScopeOf[body[x]]])
        <5>1. lanes[ScopeOf[body[x]]] \in Seq(CommandId) /\ lanes[ScopeOf[body[x]]] # <<>>
          BY <1>0, <4>2, <4>4
        <5>2. \/ lanes'[ScopeOf[body[x]]] = Append(lanes[ScopeOf[body[x]]], id)
              \/ lanes'[ScopeOf[body[x]]] = lanes[ScopeOf[body[x]]]
          BY <1>0, <1>1, <4>2
        <5> QED BY <5>1, <5>2, JoinsEnd
      <4> QED BY <1>1, <4>1, <4>3, <4>5, <4>6 DEF Current
    <3> QED BY <3>1, <3>2
  <2> QED BY <2>1 DEF Remembered, InLane, Current
<1> QED BY <1>3, <1>4, <1>6, <1>7 DEF Mem

\* The process ends: the rows stay, the lanes are empty.
LEMMA EndsMem ==
  ASSUME Mem, ProcessEnds, UNCHANGED <<state, order, writable>>
  PROVE  Mem'
<1>1. /\ phase' = "down" /\ cursor' = 1 /\ lanes' = [s \in Scope |-> <<>>]
  BY DEF ProcessEnds
<1>2. StoreHealthy' /\ Listed' /\ Remembered'
  BY <1>1 DEF Mem, StoreHealthy, Listed, Remembered
<1>3. \A s \in Scope : lanes'[s] = <<>>
  BY <1>1
<1>4. NoRepeat'
  BY <1>3 DEF NoRepeat
<1>5. Recovering'
  BY <1>1, <1>3 DEF Recovering
<1> QED BY <1>2, <1>4, <1>5 DEF Mem

\* Restart begins with the first row and empty lanes; ready is only reported.
LEMMA LifecycleMem ==
  ASSUME DoneInv, Mem, Restart \/ BecomeReady
  PROVE  Mem'
<1>1. UNCHANGED <<state, body, order, lanes, pc, cursor>> /\ writable'
  BY DEF Restart, BecomeReady, durable, Mem, StoreHealthy
<1>2. Listed' /\ NoRepeat'
  BY <1>1 DEF Mem, Listed, NoRepeat
<1>3. CASE Restart
  <2>1. phase = "down" /\ phase' = "marking" /\ cursor = 1 /\ order \in Seq(CommandId)
    BY <1>3, LaneTypes DEF Restart, Mem, StoreHealthy, DoneInv
  <2>2. \A i \in DOMAIN order : ~(i < 1)
    BY <2>1
  <2>3. StoreHealthy' /\ Remembered' /\ Recovering'
    BY <1>1, <2>1, <2>2 DEF Mem, StoreHealthy, Remembered, Recovering
  <2> QED BY <1>2, <2>3 DEF Mem
<1>4. CASE BecomeReady
  <2>1. phase = "recovering" /\ phase' = "ready"
    BY <1>4 DEF BecomeReady
  <2>2. StoreHealthy' /\ Recovering'
    BY <1>1, <2>1 DEF StoreHealthy, Recovering
  <2>3. Remembered'
    BY <1>1, <2>1 DEF Mem, Remembered, InLane, Current
  <2> QED BY <1>2, <2>2, <2>3 DEF Mem
<1> QED BY <1>3, <1>4

\* The pass over the uncertain rows leaves no row claimed behind the cursor.
LEMMA MarkUncertainMem ==
  ASSUME DoneInv, Mem, faults = 0, faults' = 0, MarkUncertain
  PROVE  Mem'
<1>0. /\ state \in [CommandId -> RowState \cup {"absent"}]
      /\ order \in Seq(CommandId) /\ cursor \in Nat \ {0}
  BY LaneTypes DEF DoneInv
<1>1. /\ phase = "marking" /\ UNCHANGED <<body, order, lanes>> /\ ~Throws
      /\ \A s \in Scope : lanes[s] = <<>>
      /\ \A i \in DOMAIN order : i < cursor => state[order[i]] \notin Claimed
  BY NoThrow DEF MarkUncertain, Mem, Recovering
<1>2. writable' /\ NoRepeat'
  BY <1>1 DEF MarkUncertain, Commits, Mem, StoreHealthy, NoRepeat
<1>3. CASE cursor > Len(order)
  <2>1. phase' = "resuming" /\ cursor' = 1 /\ UNCHANGED <<state, pc>>
    BY <1>1, <1>3 DEF MarkUncertain
  <2>2. \A id \in CommandId : state[id] \notin Claimed
    <3> SUFFICES ASSUME NEW id \in CommandId, state[id] \in Claimed PROVE FALSE
      OBVIOUS
    <3>1. PICK i \in DOMAIN order : order[i] = id
      BY DEF Claimed, Mem, Listed
    <3>2. i < cursor
      BY <1>0, <1>3, <3>1
    <3> QED BY <1>1, <3>1, <3>2
  <2>3. \A i \in DOMAIN order : ~(i < 1)
    BY <1>0
  <2>4. \A s \in Scope : DOMAIN lanes[s] = {}
    BY <1>1
  <2>5. Recovering'
    BY <1>1, <2>1, <2>2, <2>3, <2>4 DEF Recovering
  <2>6. StoreHealthy' /\ Listed' /\ Remembered'
    BY <1>1, <1>2, <2>1 DEF Mem, StoreHealthy, Listed, Remembered
  <2> QED BY <1>2, <2>5, <2>6 DEF Mem
<1>4. CASE ~(cursor > Len(order))
  <2>1. /\ transitionCommand(order[cursor], {"dispatched", "running"}, "indeterminate")
        /\ cursor' = cursor + 1 /\ UNCHANGED phase
    BY <1>1, <1>4 DEF MarkUncertain
  <2>2. cursor \in DOMAIN order /\ order[cursor] \in CommandId
    BY <1>0, <1>4
  <2>3. /\ \A x \in CommandId : /\ state'[x] = state[x] \/ state'[x] = "indeterminate"
                                /\ state'[x] = "absent" <=> state[x] = "absent"
        /\ state'[order[cursor]] \notin Claimed
    BY <1>0, <2>1, <2>2 DEF transitionCommand, Claimed
  <2>4. \A i \in DOMAIN order : i < cursor + 1 => state'[order[i]] \notin Claimed
    <3> SUFFICES ASSUME NEW i \in DOMAIN order, i < cursor + 1 PROVE state'[order[i]] \notin Claimed
      OBVIOUS
    <3>1. order[i] \in CommandId /\ (i < cursor \/ i = cursor)
      BY <1>0
    <3> QED BY <1>1, <2>3, <3>1 DEF Claimed
  <2>5. Recovering'
    BY <1>1, <2>1, <2>4 DEF Recovering
  <2>6. StoreHealthy' /\ Remembered'
    BY <1>1, <1>2, <2>1 DEF StoreHealthy, Remembered
  <2>7. Listed'
    BY <1>1, <2>3 DEF Mem, Listed
  <2> QED BY <1>2, <2>5, <2>6, <2>7 DEF Mem
<1> QED BY <1>3, <1>4

\* The pass over the accepted rows queues each of them, once.
LEMMA ResumeMem ==
  ASSUME DoneInv, Mem, Resume
  PROVE  Mem'
<1>0. /\ state \in [CommandId -> RowState \cup {"absent"}] /\ lanes \in [Scope -> Seq(CommandId)]
      /\ order \in Seq(CommandId) /\ cursor \in Nat \ {0}
  BY LaneTypes DEF DoneInv
<1>1. /\ phase = "resuming" /\ UNCHANGED <<state, body, order, pc, writable>>
      /\ \A id \in CommandId : state[id] \notin Claimed
      /\ \A i \in DOMAIN order : i < cursor /\ state[order[i]] = "accepted" => InLane(order[i])
      /\ \A s \in Scope : \A k \in DOMAIN lanes[s] :
           \E i \in DOMAIN order : i < cursor /\ order[i] = lanes[s][k]
  BY DEF Resume, durable, Mem, Recovering
<1>2. Listed'
  BY <1>1 DEF Mem, Listed
<1>3. CASE cursor > Len(order)
  <2>1. phase' = "recovering" /\ UNCHANGED lanes
    BY <1>1, <1>3 DEF Resume
  <2>2. \A id \in CommandId : state[id] = "accepted" => InLane(id)
    <3> SUFFICES ASSUME NEW id \in CommandId, state[id] = "accepted" PROVE InLane(id)
      OBVIOUS
    <3>1. PICK i \in DOMAIN order : order[i] = id
      BY DEF Mem, Listed
    <3>2. i < cursor
      BY <1>0, <1>3, <3>1
    <3> QED BY <1>1, <3>1, <3>2
  <2>3. Remembered'
    BY <1>1, <2>1, <2>2 DEF Remembered, InLane
  <2>4. StoreHealthy' /\ NoRepeat' /\ Recovering'
    BY <1>1, <2>1 DEF Mem, StoreHealthy, NoRepeat, Recovering
  <2> QED BY <1>2, <2>3, <2>4 DEF Mem
<1>4. CASE ~(cursor > Len(order))
  <2> DEFINE id == order[cursor]
  <2>1. cursor' = cursor + 1 /\ UNCHANGED phase
    BY <1>4 DEF Resume
  <2>2. cursor \in DOMAIN order /\ id \in CommandId
    BY <1>0, <1>4
  <2>3. StoreHealthy' /\ Remembered'
    BY <1>1, <2>1 DEF Mem, StoreHealthy, Remembered
  <2>4. ASSUME NEW i \in DOMAIN order, i < cursor + 1 PROVE i < cursor \/ i = cursor
    BY <1>0, <2>4
  <2>5. \A i \in DOMAIN order : i < cursor => i < cursor + 1
    BY <1>0
  <2>6. cursor < cursor + 1
    BY <1>0
  <2>7. CASE state[id] # "accepted"
    <3>1. UNCHANGED lanes
      BY <1>4, <2>7 DEF Resume
    <3>2. NoRepeat'
      BY <3>1 DEF Mem, NoRepeat
    <3>3. \A i \in DOMAIN order : i < cursor + 1 /\ state[order[i]] = "accepted" => InLane(order[i])
      BY <1>1, <2>4, <2>7
    <3>4. Recovering'
      BY <1>1, <2>1, <2>5, <3>1, <3>3 DEF Recovering, InLane
    <3> QED BY <1>2, <2>3, <3>2, <3>4 DEF Mem
  <2>8. CASE state[id] = "accepted"
    <3> DEFINE x == ScopeOf[body[id]]
    <3>1. x \in Scope
      BY <2>2, <2>8, BodyAssumption DEF DoneInv, RowHasBody
    <3>2. lanes' = [lanes EXCEPT ![x] = Append(@, id)]
      BY <1>4, <2>8 DEF Resume
    <3>3. \A s \in Scope : \A k \in DOMAIN lanes[s] : lanes[s][k] # id
      <4> SUFFICES ASSUME NEW s \in Scope, NEW k \in DOMAIN lanes[s], lanes[s][k] = id PROVE FALSE
        OBVIOUS
      <4>1. PICK i \in DOMAIN order : i < cursor /\ order[i] = lanes[s][k]
        BY <1>1
      <4>2. i = cursor
        BY <2>2, <4>1 DEF Mem, Listed
      <4> QED BY <1>0, <4>1, <4>2
    <3> HIDE DEF id, x
    <3>4. /\ NoRepeat'
          /\ \A s \in Scope : \A k \in DOMAIN lanes[s] : k \in DOMAIN lanes'[s] /\ lanes'[s][k] = lanes[s][k]
          /\ \E k \in DOMAIN lanes'[x] : lanes'[x][k] = id
      BY <2>2, <3>1, <3>2, <3>3, QueueJoins DEF Mem, DoneInv
    <3>5. ASSUME NEW i \in DOMAIN order, i < cursor + 1, state[order[i]] = "accepted"
          PROVE  \E k \in DOMAIN lanes'[ScopeOf[body[order[i]]]] :
                   lanes'[ScopeOf[body[order[i]]]][k] = order[i]
      <4>1. CASE i = cursor
        BY <3>4, <4>1 DEF id, x
      <4>2. CASE i < cursor
        <5>1. order[i] \in CommandId
          BY <1>0, <3>5
        <5>2. ScopeOf[body[order[i]]] \in Scope
          BY <3>5, <5>1, BodyAssumption DEF DoneInv, RowHasBody
        <5>3. PICK k \in DOMAIN lanes[ScopeOf[body[order[i]]]] : lanes[ScopeOf[body[order[i]]]][k] = order[i]
          BY <1>1, <3>5, <4>2 DEF InLane
        <5> QED BY <3>4, <5>2, <5>3
      <4> QED BY <2>4, <3>5, <4>1, <4>2
    <3>6. ASSUME NEW s \in Scope, NEW k \in DOMAIN lanes'[s]
          PROVE  \E i \in DOMAIN order : i < cursor + 1 /\ order[i] = lanes'[s][k]
      <4>1. CASE lanes'[s][k] = id
        BY <2>2, <2>6, <4>1 DEF id
      <4>2. CASE \E j \in DOMAIN lanes[s] : lanes'[s][k] = lanes[s][j]
        BY <1>1, <2>5, <4>2
      <4> QED BY <2>2, <3>1, <3>2, <3>6, <4>1, <4>2, JoinsOwnLane DEF DoneInv
    <3>7. Recovering'
      BY <1>1, <2>1, <3>5, <3>6 DEF Recovering, InLane
    <3> QED BY <1>2, <2>3, <3>4, <3>7 DEF Mem
  <2> QED BY <2>7, <2>8
<1> QED BY <1>3, <1>4

\* A step that leaves rows, lanes and process alone.
LEMMA SameMem ==
  ASSUME Mem, UNCHANGED <<state, body, order, phase, cursor, lanes, pc, writable>>
  PROVE  Mem'
<1>1. StoreHealthy' /\ Listed' /\ NoRepeat'
  BY DEF Mem, StoreHealthy, Listed, NoRepeat
<1>2. Recovering' /\ Remembered'
  BY DEF Mem, Recovering, Remembered, InLane, Current
<1> QED BY <1>1, <1>2 DEF Mem

\* The number of faults only grows.
LEMMA FaultsGrow ==
  ASSUME TypeInv, [Next]_vars, faults' = 0
  PROVE  faults = 0
<1>0. faults \in Nat
  BY BoundAssumption DEF TypeInv, BudgetOK
<1>1. \A n \in Nat : n + 1 # 0
  OBVIOUS
<1>2. CASE UNCHANGED faults
  BY <1>2
<1>3. CASE Throws
  BY <1>0, <1>1, <1>3 DEF Throws
<1>4. CASE \E s \in Scope : Task(s)
  BY <1>2, <1>3, <1>4
     DEF Task, Claim, MarkRunning, CallAdapter, AdapterSettles, Complete, Fail, TaskFails, Commits
<1>5. CASE Startup
  BY <1>2, <1>3, <1>5 DEF Startup, Restart, MarkUncertain, Resume, BecomeReady, Commits
<1>6. CASE (\E id \in CommandId, b \in Body : Submit(id, b) \/ Resubmit(id, b)) \/ Crash \/ UNCHANGED vars
  BY <1>2, <1>6 DEF Submit, Resubmit, Crash, vars
<1> QED BY <1>4, <1>5, <1>6 DEF Next

LEMMA MemoryStep == DoneInv /\ DoneInv' /\ MemoryInv /\ [Next]_vars => MemoryInv'
<1> SUFFICES ASSUME DoneInv, DoneInv', MemoryInv, [Next]_vars, faults' = 0
             PROVE  Mem'
  BY DEF MemoryInv
<1>0. faults = 0 /\ Mem
  BY FaultsGrow DEF MemoryInv, DoneInv
<1>1. CASE \E id \in CommandId, b \in Body : Submit(id, b)
  BY <1>0, <1>1, SubmitMem
<1>2. CASE \E id \in CommandId, b \in Body : Resubmit(id, b)
  BY <1>0, <1>2, SameMem DEF Resubmit, durable, volatile
<1>3. CASE \E s \in Scope : Task(s)
  BY <1>0, <1>3, TasksMem
<1>4. CASE Startup
  BY <1>0, <1>4, LifecycleMem, MarkUncertainMem, ResumeMem DEF Startup
<1>5. CASE Crash
  BY <1>0, <1>5, EndsMem DEF Crash, durable
<1>6. CASE UNCHANGED vars
  BY <1>0, <1>6, SameMem DEF vars, durable, volatile
<1> QED BY <1>1, <1>2, <1>3, <1>4, <1>5, <1>6 DEF Next

LEMMA MemoryInit == Init => MemoryInv
<1> SUFFICES ASSUME Init PROVE Mem
  BY DEF MemoryInv
<1>1. /\ order = <<>> /\ phase = "down" /\ cursor = 1 /\ writable
      /\ \A id \in CommandId : state[id] = "absent"
      /\ \A s \in Scope : lanes[s] = <<>>
  BY DEF Init
<1>2. StoreHealthy /\ Listed /\ NoRepeat /\ Recovering /\ Remembered
  BY <1>1 DEF StoreHealthy, Listed, NoRepeat, Recovering, Remembered
<1> QED BY <1>2 DEF Mem

\* In a ready bridge the invariant is what the property says.
LEMMA MemoryImplies == DoneInv /\ MemoryInv => NothingForgotten
<1> SUFFICES ASSUME DoneInv, Mem, phase = "ready", NEW id \in CommandId
             PROVE  /\ state[id] \in RowState \ Terminal =>
                         \E k \in DOMAIN lanes[ScopeOf[body[id]]] : Queued(id) = {<<ScopeOf[body[id]], k>>}
                    /\ state[id] \in {"dispatched", "running"} => Current(ScopeOf[body[id]]) = id
  BY DEF MemoryInv, NothingForgotten
<1>1. state[id] \in {"dispatched", "running"} => Current(ScopeOf[body[id]]) = id
  BY DEF Mem, Remembered, Claimed
<1>2. ASSUME state[id] \in RowState \ Terminal
      PROVE  \E k \in DOMAIN lanes[ScopeOf[body[id]]] : Queued(id) = {<<ScopeOf[body[id]], k>>}
  <2> DEFINE x == ScopeOf[body[id]]
  <2>1. state[id] \in {"accepted"} \cup Claimed /\ state[id] # "absent"
    BY <1>2 DEF RowState, Terminal, Claimed
  <2>2. x \in Scope
    BY <2>1, BodyAssumption DEF DoneInv, RowHasBody
  <2>3. PICK k \in DOMAIN lanes[x] : lanes[x][k] = id
    BY <2>1 DEF Mem, Remembered, InLane
  <2>4. ASSUME NEW s \in Scope, NEW j \in DOMAIN lanes[s], lanes[s][j] = id
        PROVE  s = x /\ j = k
    <3>1. s = x
      BY <2>4 DEF DoneInv, InOwnLane
    <3> QED BY <2>3, <2>4, <3>1 DEF Mem, NoRepeat
  <2> HIDE DEF x
  <2>5. <<x, k>> \in Queued(id)
    <3>1. <<x, k>> \in {x} \X DOMAIN lanes[x] /\ lanes[<<x, k>>[1]][<<x, k>>[2]] = id
      BY <2>3
    <3>2. <<x, k>> \in UNION {{s} \X DOMAIN lanes[s] : s \in Scope}
      BY <2>2, <3>1
    <3> QED BY <3>1, <3>2 DEF Queued
  <2>6. ASSUME NEW q \in Queued(id) PROVE q = <<x, k>>
    <3>1. PICK s \in Scope : q \in {s} \X DOMAIN lanes[s]
      BY DEF Queued
    <3>2. q = <<q[1], q[2]>> /\ q[1] = s /\ q[2] \in DOMAIN lanes[s]
      BY <3>1
    <3>3. lanes[q[1]][q[2]] = id
      BY DEF Queued
    <3>4. q[1] = x /\ q[2] = k
      BY <2>4, <3>2, <3>3
    <3> QED BY <3>2, <3>4
  <2>7. Queued(id) = {<<x, k>>}
    BY <2>5, <2>6
  <2> QED BY <2>3, <2>7 DEF x
<1> QED BY <1>1, <1>2

\* While no transaction fails, a bridge that reports ready has exactly one task
\* for each row without an outcome, whatever crashes came before.
THEOREM ReadyForgetsNothing == Spec => []NothingForgotten
BY DoneInit, DoneStep, MemoryInit, MemoryStep, MemoryImplies, PTL DEF Spec
=============================================================================
