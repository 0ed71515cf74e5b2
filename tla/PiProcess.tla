----------------------------- MODULE PiProcess ------------------------------
(***************************************************************************)
(* The Pi process of one session and the client that supervises it: the    *)
(* process is spawned when a request needs it, answers requests and sends  *)
(* notifications over a pipe, exits when it likes, is restarted after a    *)
(* delay until it has exited too often, and is stopped when it is idle for *)
(* long, when the host drains and when the daemon shuts down.  Code:       *)
(* packages/bridge/src/pi/rpc-process.ts (one process), pi/jsonl.ts (its   *)
(* output), pi/supervised-rpc-client.ts (what the output means) and        *)
(* core/process-supervisor.ts (the state machine and its restarts).        *)
(*                                                                         *)
(* Processes are numbered in the order they are spawned; each has its own  *)
(* RpcProcess and its own exit handler, but all of them report to the one  *)
(* supervisor entry.  Bytes, frames and the redacted stderr ring are left  *)
(* out: a record arrives whole, or is one the decoder rejects.             *)
(***************************************************************************)
EXTENDS Naturals, Sequences, FiniteSets

CONSTANTS
  Request,       \* request ids; one id is in flight at most once
  RestartLimit,  \* exits within a window that make a crash loop (3)
  Window,        \* ticks of the clock in restartWindowMs
  MaxSpawns,     \* bound: processes spawned
  MaxClock,      \* bound: ticks of the clock
  MaxOutput,     \* bound: records in the pipe
  MaxRecords     \* bound: records written by Pi

ASSUME ProcessAssumption ==
  /\ IsFiniteSet(Request)
  /\ RestartLimit \in Nat \ {0} /\ Window \in Nat
  /\ MaxSpawns \in Nat /\ MaxClock \in Nat /\ MaxOutput \in Nat /\ MaxRecords \in Nat

VARIABLES
  sup,       \* state of the supervisor's entry
  stamps,    \* restartTimestamps of the entry
  draining,  \* the supervisor is draining
  closing,   \* close() has been called
  spawned,   \* number of processes spawned; the last one is current
  os,        \* each process: alive, dead, or dead with its exit handled
  expected,  \* the current process was told to terminate
  deaf,      \* the stdout pump of the current process has given up
  pending,   \* requests of the current process without an outcome
  stdin,     \* requests Pi has not read
  stdout,    \* records the pump has not read
  working,   \* Pi is in a turn
  clock,     \* time, in ticks
  records

entry   == <<sup, stamps, draining, closing>>
process == <<spawned, os, expected, deaf>>
pipes   == <<pending, stdin, stdout, working>>
processVars    == <<entry, process, pipes, clock, records>>

Answering == {"idle", "running", "waiting_for_input", "compacting"}
Busy      == {"running", "waiting_for_input", "compacting"}
ACTIVE    == Answering \cup {"retry_wait", "stopping"}
Down      == {"stopped", "crashed", "retry_wait", "crash_loop"}

Record == {"agent_start", "agent_settled", "dialog", "compaction_start", "bad"} \cup Request

TypeOK ==
  /\ sup \in ACTIVE \cup Down
  /\ draining \in BOOLEAN /\ closing \in BOOLEAN
  /\ spawned \in Nat
  /\ os \in [1..spawned -> {"alive", "dead", "handled"}]
  /\ expected \in BOOLEAN /\ deaf \in BOOLEAN
  /\ pending \subseteq Request
  /\ stdin \in Seq(Request)
  /\ stdout \in Seq(Record)
  /\ working \in BOOLEAN
  /\ clock \in Nat /\ records \in Nat

InitProcess ==
  /\ sup = "stopped" /\ stamps = <<>> /\ draining = FALSE /\ closing = FALSE
  /\ spawned = 0 /\ os = <<>> /\ expected = FALSE /\ deaf = FALSE
  /\ pending = {} /\ stdin = <<>> /\ stdout = <<>> /\ working = FALSE
  /\ clock = 0 /\ records = 0

-----------------------------------------------------------------------------
(* Starting. *)

\* supervisor.start from the states it accepts, and the spawn itself.
spawn ==
  /\ ~draining /\ spawned < MaxSpawns
  /\ sup' = "idle"
  /\ spawned' = spawned + 1
  /\ os' = Append(os, "alive")
  /\ expected' = FALSE /\ deaf' = FALSE
  /\ stdin' = <<>> /\ stdout' = <<>> /\ working' = FALSE
  /\ UNCHANGED <<draining, closing, pending, clock, records>>

\* The executable, its directory or the session file is missing.
spawnFails ==
  /\ ~draining
  /\ sup' = "crashed"
  /\ UNCHANGED <<draining, closing, process, pipes, clock, records>>

\* ensureRpcStarted, for a request to a client that is stopped or crashed.
StartForRequest ==
  /\ ~closing /\ sup \in {"stopped", "crashed"}
  /\ spawn \/ spawnFails
  /\ UNCHANGED stamps

\* The restart timer, or the maintenance tick, after retryDelayMs.
TickRestarts ==
  /\ ~closing /\ sup = "retry_wait"
  /\ spawn \/ spawnFails
  /\ UNCHANGED stamps

\* session.activate on a client that is down.
ManualRetry ==
  /\ ~closing /\ sup \in {"crash_loop", "crashed", "retry_wait"}
  /\ spawn \/ spawnFails
  /\ stamps' = <<>>

-----------------------------------------------------------------------------
(* Requests and what Pi writes. *)

Current == spawned
Running == spawned > 0 /\ os[Current] # "handled"

\* An id that is in flight is refused; any other is registered and written.
SendRequest(r) ==
  /\ ~draining /\ sup \in Answering /\ Running
  /\ r \notin pending
  /\ Len(stdin) < MaxOutput
  /\ pending' = pending \cup {r}
  /\ stdin' = Append(stdin, r)
  /\ UNCHANGED <<entry, process, stdout, working, clock, records>>

\* The timer or the abort signal: the slot is freed, Pi is not told.
TimesOut(r) ==
  /\ r \in pending
  /\ pending' = pending \ {r}
  /\ UNCHANGED <<entry, process, stdin, stdout, working, clock, records>>

Alive == spawned > 0 /\ os[Current] = "alive"

Writes(x) ==
  /\ Len(stdout) < MaxOutput /\ records < MaxRecords
  /\ stdout' = Append(stdout, x)
  /\ records' = records + 1

PiReplies ==
  /\ Alive /\ stdin # <<>>
  /\ Writes(Head(stdin))
  /\ stdin' = Tail(stdin)
  /\ UNCHANGED <<entry, process, pending, working, clock>>

PiBegins ==
  /\ Alive /\ ~working
  /\ Writes("agent_start")
  /\ working' = TRUE
  /\ UNCHANGED <<entry, process, pending, stdin, clock>>

\* The last record of a turn; the bound never keeps Pi from writing it.
PiSettles ==
  /\ Alive /\ working
  /\ stdout' = Append(stdout, "agent_settled")
  /\ working' = FALSE
  /\ UNCHANGED <<entry, process, pending, stdin, clock, records>>

PiNotifies(x) ==
  /\ Alive
  /\ \/ x = "dialog" /\ working
     \/ x \in {"compaction_start", "bad"}
  /\ Writes(x)
  /\ UNCHANGED <<entry, process, pending, stdin, working, clock>>

\* Mutant: a client that waits for an answer is not told that Pi settled.
projectRunningOnly(x) ==
  CASE x = "agent_start" /\ sup = "idle" -> "running"
    [] x = "compaction_start" /\ sup \in {"idle", "running"} -> "compacting"
    [] x = "dialog" /\ sup \in {"idle", "running"} -> "waiting_for_input"
    [] x = "agent_settled" /\ sup = "running" -> "idle"
    [] OTHER -> sup

\* The state a notification moves the supervisor to.
project(x) ==
  CASE x = "agent_start" /\ sup = "idle" -> "running"
    [] x = "compaction_start" /\ sup \in {"idle", "running"} -> "compacting"
    [] x = "dialog" /\ sup \in {"idle", "running"} -> "waiting_for_input"
    [] x = "agent_settled" /\ sup \in Busy -> "idle"
    [] OTHER -> sup

\* A reply settles its request, anything else (a stray reply too) is a
\* notification; a turn that ends while the host drains stops the process.
dispatchRecord(x) ==
  /\ pending' = pending \ {x}
  /\ IF draining /\ x = "agent_settled" /\ sup \in Busy
       THEN sup' = "stopping" /\ expected' = TRUE
       ELSE sup' = project(x) /\ UNCHANGED expected

\* One record; one that the decoder rejects ends the pump.
PumpStdout ==
  /\ Running /\ ~deaf /\ stdout # <<>>
  /\ dispatchRecord(Head(stdout))
  /\ deaf' = (Head(stdout) = "bad")
  /\ stdout' = Tail(stdout)
  /\ UNCHANGED <<stamps, draining, closing, spawned, os, stdin, working, clock, records>>

\* markDispatchStart, when a prompt is written.
MarkDispatchStart ==
  /\ sup = "idle" /\ pending # {} /\ Alive
  /\ sup' = "running"
  /\ working' = TRUE
  /\ UNCHANGED <<stamps, draining, closing, process, pending, stdin, stdout, clock, records>>

-----------------------------------------------------------------------------
(* Exits. *)

\* By itself, or because it was killed.
Exit ==
  /\ Alive
  /\ os' = [os EXCEPT ![Current] = "dead"]
  /\ working' = FALSE
  /\ UNCHANGED <<entry, spawned, expected, deaf, pending, stdin, stdout, clock, records>>

Drained == deaf \/ stdout = <<>>

crashLoop(s) == Len(s) >= RestartLimit

\* The supervisor's part of an exit nobody asked for.
unexpectedExit ==
  LET recent == Append(SelectSeq(stamps, LAMBDA t : t + Window >= clock), clock) IN
  /\ stamps' = recent
  /\ sup' = IF crashLoop(recent) THEN "crash_loop"
            ELSE IF draining THEN "stopped" ELSE "retry_wait"

\* The exit handler runs once both pumps have ended: it rejects what is still
\* pending and, if the exit was not asked for, tells the supervisor.
HandleExit ==
  /\ spawned > 0 /\ os[Current] = "dead" /\ Drained
  /\ os' = [os EXCEPT ![Current] = "handled"]
  /\ pending' = {}
  /\ IF expected \/ closing THEN UNCHANGED <<sup, stamps>> ELSE unexpectedExit
  /\ UNCHANGED <<draining, closing, spawned, expected, deaf, stdin, stdout, working, clock, records>>

\* supervisor.stop: terminate, and later kill, the process; the entry stays in
\* "stopping" until its exit has been handled.
beginStop ==
  /\ sup' = "stopping"
  /\ expected' = TRUE

IdleTimeout ==
  /\ ~closing /\ sup = "idle" /\ Running
  /\ beginStop
  /\ UNCHANGED <<stamps, draining, closing, spawned, os, deaf, pipes, clock, records>>

Drain ==
  /\ ~draining
  /\ draining' = TRUE
  /\ IF sup = "idle" /\ Running THEN beginStop ELSE UNCHANGED <<sup, expected>>
  /\ UNCHANGED <<stamps, closing, spawned, os, deaf, pipes, clock, records>>

\* close(): whatever the state; without a process there is nothing to wait for.
Close ==
  /\ ~closing
  /\ closing' = TRUE
  /\ IF sup \in Answering /\ Running THEN beginStop
     ELSE /\ sup' = IF sup = "stopping" THEN sup ELSE "stopped"
          /\ UNCHANGED expected
  /\ UNCHANGED <<stamps, draining, spawned, os, deaf, pipes, clock, records>>

\* Mutant: the entry is stopped once the grace period is over.
StopAfterGrace ==
  /\ sup = "stopping"
  /\ sup' = "stopped"
  /\ UNCHANGED <<stamps, draining, closing, process, pipes, clock, records>>

\* waitForExit or forceKillGroup returns when the exit has been handled.
StopEnds ==
  /\ sup = "stopping" /\ ~Running
  /\ sup' = "stopped"
  /\ UNCHANGED <<stamps, draining, closing, process, pipes, clock, records>>

Tick ==
  /\ clock < MaxClock
  /\ clock' = clock + 1
  /\ UNCHANGED <<entry, process, pipes, records>>

-----------------------------------------------------------------------------
NextProcess ==
  \/ StartForRequest \/ TickRestarts \/ ManualRetry
  \/ \E r \in Request : SendRequest(r) \/ TimesOut(r)
  \/ PiReplies \/ PiBegins \/ PiSettles
  \/ \E x \in {"dialog", "compaction_start", "bad"} : PiNotifies(x)
  \/ PumpStdout \/ MarkDispatchStart
  \/ Exit \/ HandleExit
  \/ IdleTimeout \/ Drain \/ Close \/ StopEnds
  \/ Tick

\* A process that was told to terminate dies: SIGKILL follows SIGTERM.
Killed == expected /\ Exit

\* Timers fire, pipes are read, exits are noticed, a killed process dies and
\* Pi finishes the turns it has begun.
Fairness ==
  /\ WF_processVars(PumpStdout) /\ WF_processVars(HandleExit) /\ WF_processVars(StopEnds)
  /\ WF_processVars(Killed) /\ WF_processVars(PiSettles)
  /\ WF_processVars(TickRestarts)
  /\ \A r \in Request : WF_processVars(TimesOut(r))

ProcessSpec == InitProcess /\ [][NextProcess]_processVars
ProcessFairSpec == ProcessSpec /\ Fairness

-----------------------------------------------------------------------------
(* Properties. *)

\* There are never two Pi processes of one session, which would both write
\* its session file, and an entry that is down has left none behind.
NoOrphan ==
  /\ \A p, q \in 1..spawned : os[p] = "alive" /\ os[q] = "alive" => p = q
  /\ sup \in Down => \A p \in 1..spawned : os[p] = "handled"

\* Unless Pi's output became unreadable, a client that is running or waits
\* for an answer leaves that state: Pi settles, exits or is stopped.
BusyEnds ==
  []~deaf =>
     (sup \in {"running", "waiting_for_input"} ~> sup \notin {"running", "waiting_for_input"})
=============================================================================
