---------------------------- MODULE HistoryImport ----------------------------
(***************************************************************************)
(* How the session file that Pi writes becomes canonical transcript        *)
(* events: the import of sessions started in Pi's own terminal, the        *)
(* reconciliation of sessions the bridge owns at start-up and when their   *)
(* process exits, and the live path that records the same messages from    *)
(* Pi's notifications.  Code: packages/bridge/src/pi/external-history.ts,  *)
(* and its callers in daemon.ts.                                           *)
(*                                                                         *)
(* An import is synchronous in the bridge but every event and every        *)
(* checkpoint is a commit of its own, so the bridge may die between any    *)
(* two of them, and Pi is another process that writes the file meanwhile.  *)
(* An import is therefore a plan of commits that is carried out step by    *)
(* step.  The start, content and completion of an assistant message are    *)
(* one event here, as are the output and the end of a tool; entries that   *)
(* are no messages, and thinking blocks, are left out.                     *)
(***************************************************************************)
EXTENDS Naturals, Sequences, SequencesExt, FiniteSetsExt

CONSTANTS
  Nothing,     \* no turn, no source, no tool
  MaxEntries,  \* bound: entries of the session file
  MaxFailures  \* bound: deaths of the bridge and writes that throw

ASSUME HistoryAssumption == MaxEntries \in Nat /\ MaxFailures \in Nat

VARIABLES
  external, \* the session was found on disk, not created by the bridge
  file,     \* the entries of the session file; an entry's id is its position
  live,     \* a Pi process of the bridge owns the session
  log,      \* the canonical events of the session
  marker,   \* externalHistorySourceRevision and externalHistoryLeafId of its row
  phase,    \* down, starting, ready, or what a reconciliation is doing
  plan,     \* the commits the running import has still to make
  torn,     \* an import ended after some but not all commits of an entry
  failed,   \* the last import or reconciliation threw
  failures  \* deaths of the bridge and writes that threw

historyVars == <<external, file, live, log, marker, phase, plan, torn, failed, failures>>

\* An assistant entry holds text or calls the tool named after the entry.
Role == {"user", "text", "call", "result"}

InitHistory ==
  /\ external \in BOOLEAN
  /\ file = <<>> /\ live = FALSE
  /\ log = <<>>
  /\ marker = [rev |-> Nothing, leaf |-> 0]
  /\ phase = "down" /\ plan = <<>>
  /\ torn = FALSE /\ failed = FALSE /\ failures = 0

-----------------------------------------------------------------------------
(* The session file. *)

\* The entries from the root to n, following parent ids.
BranchTo(n) ==
  LET chain[i \in 0 .. n] == IF i = 0 THEN <<>> ELSE Append(chain[file[i].parent], i)
  IN  chain[n]
activeBranch == BranchTo(Len(file))

\* A result answers the last call of its branch.
AnsweredCall(p) ==
  LET calls == {i \in ToSet(BranchTo(p)) : file[i].role = "call"}
  IN  IF calls = {} THEN Nothing ELSE Max(calls)

\* What Pi may write after entry p: a prompt may come at any time.
Follows(role, p) ==
  LET prior == IF p = 0 THEN "none" ELSE file[p].role
  IN  role = "user" \/ <<prior, role>> \in
        {"user", "result"} \X {"text", "call"} \cup {<<"call", "result">>}

NewEntry(role, p) ==
  [role |-> role, parent |-> p,
   tool |-> CASE role = "call" -> Len(file) + 1
              [] role = "result" -> AnsweredCall(p)
              [] OTHER -> Nothing]

-----------------------------------------------------------------------------
(* The canonical log. *)

Event(type, turn, entry, tool, source) ==
  [type |-> type, turn |-> turn, entry |-> entry, tool |-> tool, source |-> source]

\* CanonicalSessionStore.append: an event whose source is known is not repeated.
append(l, e) ==
  IF e.source # Nothing /\ \E i \in DOMAIN l : l[i].source = e.source THEN l ELSE Append(l, e)

Of(type) == {i \in DOMAIN log : log[i].type \in type}
TurnEnd  == {"turn.settled", "turn.indeterminate"}
ToolEnd  == {"tool.completed", "tool.failed"}

durableStarted  == {log[i].tool : i \in Of({"tool.started"})}
durableTerminal == {log[i].tool : i \in Of(ToolEnd)}
openTools == durableStarted \ durableTerminal
openTurns == {log[i].turn : i \in Of({"turn.started"})} \ {log[i].turn : i \in Of(TurnEnd)}

\* latestDurableOpenTurnId: the turn of the last turn event, ended or not.
latestTurn ==
  LET ts == Of({"turn.started"} \cup TurnEnd) IN IF ts = {} THEN Nothing ELSE log[Max(ts)].turn

-----------------------------------------------------------------------------
(* The import. *)

\* The last position of the branch that the log already holds, by tool id.
inferOverlapAnchor ==
  LET known == {k \in DOMAIN activeBranch :
                  LET e == file[activeBranch[k]] IN
                  \/ e.role = "call" /\ e.tool \in durableStarted
                  \/ e.role = "result" /\ e.tool \in durableTerminal}
  IN  IF marker.leaf # 0 \/ known = {} THEN 0 ELSE Max(known)

After(k) == SubSeq(activeBranch, k + 1, Len(activeBranch))

\* Mutant: a branch without the leaf of the marker is imported whole.
pendingOnOtherBranch ==
  LET at == {k \in DOMAIN activeBranch : activeBranch[k] = marker.leaf}
  IN  IF at = {} THEN activeBranch ELSE After(Max(at))

\* The entries to import.
pendingEntries ==
  LET at == {k \in DOMAIN activeBranch : activeBranch[k] = marker.leaf}
  IN  IF log = <<>> THEN activeBranch
      ELSE IF marker.leaf # 0 THEN (IF at = {} THEN <<>> ELSE After(Max(at)))
      ELSE IF inferOverlapAnchor > 0 THEN After(inferOverlapAnchor)
      ELSE IF external THEN activeBranch ELSE <<>>

\* The events of one entry, numbered within it, and the turn it leaves open.
settleTurn(turn) == IF turn = Nothing THEN <<>> ELSE <<<<"turn.settled", turn>>>>
EventsOf(n, turn) ==
  LET starts == IF turn = Nothing THEN <<<<"turn.started", <<"historical", n>>>>>> ELSE <<>>
  IN  CASE file[n].role = "user" ->
             settleTurn(turn) \o <<<<"user.message.created", Nothing>>, <<"turn.started", <<"entry", n>>>>>>
        [] file[n].role = "text" -> Append(starts, <<"assistant.message", Nothing>>)
        [] file[n].role = "call" -> Append(starts, <<"tool.started", Nothing>>)
        [] OTHER                 -> <<<<"tool.completed", Nothing>>>>
TurnAfter(n, turn) ==
  CASE file[n].role = "user" -> <<"entry", n>>
    [] file[n].role \in {"text", "call"} /\ turn = Nothing -> <<"historical", n>>
    [] OTHER -> turn

\* The commits that append events e to the log, the first one numbered k + 1.
Commits(n, e, k) ==
  [i \in DOMAIN e |->
     [event |-> Event(e[i][1], e[i][2], n, file[n].tool, <<"history", n, e[i][1], k + i>>)]]

checkpoint(rev, n) == <<[rev |-> rev, leaf |-> n]>>

\* The turn that is open before the first entry of p and after each of them.
TurnsOpen(p, start) ==
  LET turn[k \in 0 .. Len(p)] == IF k = 0 THEN start ELSE TurnAfter(p[k], turn[k - 1])
  IN  turn

\* Every entry's events and checkpoint, then the end of a settled answer's turn.
importPending(rev) ==
  LET todo  == pendingEntries
      n     == Len(todo)
      turn  == TurnsOpen(todo, IF inferOverlapAnchor > 0 THEN latestTurn ELSE Nothing)
      steps == [k \in 1 .. n |->
                  Commits(todo[k], EventsOf(todo[k], turn[k - 1]), 0) \o checkpoint(rev, todo[k])]
  IN  IF todo = <<>> THEN <<>>
      ELSE FlattenSeq(steps)
           \o (IF file[todo[n]].role = "text"
                 THEN Commits(todo[n], settleTurn(turn[n]), Len(EventsOf(todo[n], turn[n - 1])))
                 ELSE <<>>)
           \o checkpoint(rev, Last(activeBranch))

\* Mutant: only the turns are closed.
boundaryOfTurns ==
  LET turns == SetToSeq(openTurns)
  IN  [i \in DOMAIN turns |->
         [event |-> Event("turn.indeterminate", turns[i], 0, Nothing, <<"reconcile_turn", turns[i]>>)]]

\* The synthesised end of whatever no process owns any more.
appendBoundary ==
  LET tools == SetToSeq(openTools)
      turns == SetToSeq(openTurns)
  IN  [i \in DOMAIN tools |->
         [event |-> Event("tool.failed", Nothing, 0, tools[i], <<"reconcile_tool", tools[i]>>)]]
      \o [i \in DOMAIN turns |->
         [event |-> Event("turn.indeterminate", turns[i], 0, Nothing, <<"reconcile_turn", turns[i]>>)]]

-----------------------------------------------------------------------------
(* The bridge. *)

Start ==
  /\ phase = "down"
  /\ phase' = "starting" /\ live' = FALSE /\ failed' = FALSE
  /\ UNCHANGED <<external, file, log, marker, plan, torn, failures>>

Importing == phase \in {"starting", "exiting"}

\* The file's revision is taken first, then it is read.
StatFile ==
  /\ Importing
  /\ IF marker.rev = Len(file) /\ log # <<>>
       THEN /\ phase' = IF external /\ phase = "starting" THEN "ready" ELSE "closing"
            /\ UNCHANGED plan
       ELSE /\ phase' = IF phase = "starting" THEN "reading" ELSE "reading_exit"
            /\ plan' = checkpoint(Len(file), 0)
  /\ UNCHANGED <<external, file, live, log, marker, torn, failed, failures>>

ReadFile ==
  /\ phase \in {"reading", "reading_exit"}
  /\ plan' = importPending(plan[1].rev)
  /\ phase' = IF phase = "reading" THEN "importing" ELSE "importing_exit"
  /\ UNCHANGED <<external, file, live, log, marker, torn, failed, failures>>

Working == phase \in {"importing", "importing_exit", "boundary"}

Commit ==
  /\ Working /\ plan # <<>>
  /\ plan' = Tail(plan)
  /\ IF "event" \in DOMAIN Head(plan)
       THEN log' = append(log, Head(plan).event) /\ UNCHANGED marker
       ELSE marker' = Head(plan) /\ UNCHANGED log
  /\ UNCHANGED <<external, file, live, phase, torn, failed, failures>>

\* A terminal session is only imported at start-up, any other is reconciled.
ImportEnds ==
  /\ phase \in {"importing", "importing_exit"} /\ plan = <<>>
  /\ phase' = IF external /\ phase = "importing" THEN "ready" ELSE "closing"
  /\ UNCHANGED <<external, file, live, log, marker, plan, torn, failed, failures>>

CloseOpen ==
  /\ phase = "closing"
  /\ plan' = appendBoundary
  /\ phase' = "boundary"
  /\ UNCHANGED <<external, file, live, log, marker, torn, failed, failures>>

ReconcileEnds ==
  /\ phase = "boundary" /\ plan = <<>>
  /\ phase' = "ready"
  /\ UNCHANGED <<external, file, live, log, marker, plan, torn, failed, failures>>

\* Entries are torn when the next commit is not the first of its entry.
Torn ==
  /\ phase \in {"importing", "importing_exit"} /\ plan # <<>>
  /\ "event" \notin DOMAIN Head(plan) \/ Head(plan).event.source[4] # 1

Die ==
  /\ phase # "down" /\ failures < MaxFailures
  /\ phase' = "down" /\ plan' = <<>>
  /\ torn' = (torn \/ Torn)
  /\ failures' = failures + 1
  /\ UNCHANGED <<external, file, live, log, marker, failed>>

\* A write throws.  Both callers swallow it: the host starts, and a process
\* exit is published, without the rest.
ImportThrows ==
  /\ Working /\ plan # <<>> /\ failures < MaxFailures
  /\ phase' = "ready" /\ plan' = <<>> /\ failed' = TRUE
  /\ torn' = (torn \/ Torn)
  /\ failures' = failures + 1
  /\ UNCHANGED <<external, file, live, log, marker>>

-----------------------------------------------------------------------------
(* Pi. *)

\* Pi's terminal, or a process whose bridge died, writes on unheard.  In the
\* terminal a prompt may go back and start another branch.
WriteUnheard(role, p) ==
  /\ Len(file) < MaxEntries
  /\ IF live THEN phase = "down" /\ p = Len(file) ELSE external
  /\ Follows(role, p)
  /\ p = Len(file) \/ role = "user"
  /\ file' = Append(file, NewEntry(role, p))
  /\ UNCHANGED <<external, live, log, marker, phase, plan, torn, failed, failures>>

ActivatePi ==
  /\ phase = "ready" /\ ~live
  /\ live' = TRUE
  /\ UNCHANGED <<external, file, log, marker, phase, plan, torn, failed, failures>>

\* The turn that the adapter has open for the process.
ActiveTurn == {t \in openTurns : t[1] = "live"}

\* Pi writes an entry and the adapter records its notifications.
RecordLive(role) ==
  LET n == Len(file) + 1
      e == NewEntry(role, Len(file))
      ev(type, turn) == Event(type, turn, n, e.tool, Nothing)
  IN  /\ live /\ phase = "ready" /\ Len(file) < MaxEntries
      /\ Follows(role, Len(file))
      /\ role = "user" <=> ActiveTurn = {}
      /\ file' = Append(file, e)
      /\ log' = log \o
           CASE role = "user" -> <<ev("user.message.created", Nothing), ev("turn.started", <<"live", n>>)>>
             [] role = "text" -> <<ev("assistant.message", Nothing)>>
             [] role = "call" -> <<ev("tool.started", Nothing)>>
             [] OTHER         -> <<ev("tool.completed", Nothing)>>
      /\ UNCHANGED <<external, live, marker, phase, plan, torn, failed, failures>>

SettleLive ==
  /\ live /\ phase = "ready"
  /\ file # <<>> /\ Last(file).role = "text"
  /\ \E t \in ActiveTurn : log' = Append(log, Event("turn.settled", t, 0, Nothing, Nothing))
  /\ UNCHANGED <<external, file, live, marker, phase, plan, torn, failed, failures>>

\* beforeUnexpectedExit reconciles before the exit is published.
PiExits ==
  /\ live /\ phase = "ready"
  /\ live' = FALSE /\ phase' = "exiting" /\ failed' = FALSE
  /\ UNCHANGED <<external, file, log, marker, plan, torn, failures>>

NextHistory ==
  \/ Start \/ StatFile \/ ReadFile \/ Commit \/ ImportEnds \/ CloseOpen \/ ReconcileEnds
  \/ Die \/ ImportThrows
  \/ \E role \in Role, p \in 0 .. Len(file) : WriteUnheard(role, p)
  \/ ActivatePi \/ SettleLive \/ PiExits
  \/ \E role \in Role : RecordLive(role)

HistorySpec == InitHistory /\ [][NextHistory]_historyVars

-----------------------------------------------------------------------------
(* Properties. *)

Message == {"user.message.created", "assistant.message", "tool.started", "tool.completed"}

\* The entries that the messages of l are of, in the order of l.
EntriesOf(l) ==
  LET shown[k \in 0 .. Len(l)] ==
        IF k = 0 THEN <<>>
        ELSE shown[k - 1] \o (IF l[k].type \in Message THEN <<l[k].entry>> ELSE <<>>)
  IN  shown[Len(l)]
Shown == EntriesOf(log)
HeardLive == \E i \in DOMAIN log : log[i].type \in Message /\ log[i].source = Nothing

\* However often a session of Pi's terminal grew between imports, went back
\* to an earlier message or had its import cut short between two entries, its
\* transcript is the branch up to the leaf of the marker: every message once
\* and in order.
ImportIsExact ==
  phase = "ready" /\ ~HeardLive /\ ~torn =>
    Shown = BranchTo(marker.leaf)

\* Once a session of the bridge has been reconciled and no process owns it,
\* no turn and no tool of its transcript is open, whatever the bridge died in
\* and whichever earlier reconciliation failed.
NothingLeftOpen ==
  phase = "ready" /\ ~live /\ ~external /\ ~failed => openTurns = {} /\ openTools = {}

\* The comment in reconcileStartup: "the next daemon launch retries because no
\* marker moved".  Every checkpoint moves it, so a later start-up may find
\* nothing to do for a file of which messages are missing.
InterruptedImportIsRetried ==
  phase = "ready" /\ external /\ ~failed /\ ~HeardLive /\ marker.rev = Len(file) =>
    Last(Shown) = Len(file)

=============================================================================
