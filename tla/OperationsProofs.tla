--------------------------- MODULE OperationsProofs ---------------------------
(***************************************************************************)
(* Theorems about what runs beside the sessions: the operations CLI with   *)
(* its releases and backups (Releases), and the enrollment of phones and   *)
(* their notifications (PushNotifications), for every value of the         *)
(* constants.                                                              *)
(***************************************************************************)
EXTENDS Releases, PushNotifications, FiniteSetTheorems, TLAPS

-----------------------------------------------------------------------------
(* PushNotifications: no source event is pushed twice, no pairing locks a  *)
(* phone out unless its answer was lost, and the phone's loop does not     *)
(* rest before it offered the newest token.                                *)

-----------------------------------------------------------------------------
(* Once per source event.                                                  *)

\* Types of what the argument speaks of.
StatusOK ==
  /\ clock \in Nat \ {0}
  /\ created \in [Event -> Nat]
  /\ dedup \in [Event -> Nat]
  /\ sent \in Seq(Event)

\* The events handed to the provider.
Pushed == {sent[k] : k \in 1..Len(sent)}

\* A stored event is older than what is remembered of it, and a pushed one is
\* still remembered or has become stale: it is remembered for longer than it
\* takes to become so.
Remembered ==
  \A e \in Event :
    /\ created[e] <= clock
    /\ dedup[e] # 0 => created[e] # 0 /\ created[e] <= dedup[e]
    /\ e \in Pushed => created[e] # 0 /\ (dedup[e] # 0 \/ clock - created[e] > StaleAfter)

OnceInv == StatusOK /\ Remembered /\ NotifiedOnce

LEMMA OnceInit == InitPush => OnceInv
BY DEF InitPush, OnceInv, StatusOK, Remembered, Pushed, NotifiedOnce, IsInjective

LEMMA OnceUnchanged ==
  ASSUME OnceInv, UNCHANGED <<created, dedup, sent, clock>>
  PROVE  OnceInv'
BY DEF OnceInv, StatusOK, Remembered, Pushed, NotifiedOnce, IsInjective

\* The numbers of one event.
LEMMA Numbers ==
  ASSUME StatusOK, NEW e \in Event
  PROVE  /\ dedup[e] \in Nat /\ created[e] \in Nat /\ clock \in Nat
         /\ StaleAfter \in Nat /\ DedupFor \in Nat /\ DedupFor > StaleAfter
BY PushAssumption DEF StatusOK

LEMMA TickOnce ==
  ASSUME OnceInv, Tick
  PROVE  OnceInv'
<1>1. clock' = clock + 1 /\ UNCHANGED <<created, dedup, sent>>
  BY DEF Tick
<1>2. StatusOK'
  BY <1>1 DEF OnceInv, StatusOK
<1>3. Pushed' = Pushed /\ NotifiedOnce'
  BY <1>1 DEF Pushed, OnceInv, NotifiedOnce
<1>4. ASSUME NEW e \in Event
      PROVE  /\ created[e] <= clock'
             /\ e \in Pushed => created[e] # 0 /\ (dedup[e] # 0 \/ clock' - created[e] > StaleAfter)
  BY <1>1, Numbers DEF OnceInv, Remembered
<1>5. Remembered'
  BY <1>1, <1>3, <1>4 DEF OnceInv, Remembered
<1> QED BY <1>2, <1>3, <1>5 DEF OnceInv

\* The sweep forgets an event only when it has become stale.
LEMMA SweepOnce ==
  ASSUME OnceInv, Sweep
  PROVE  OnceInv'
<1>1. /\ dedup' = [e \in Event |-> IF dedup[e] + DedupFor < clock THEN 0 ELSE dedup[e]]
      /\ UNCHANGED <<created, sent, clock>>
  BY DEF Sweep, sweepNotificationDedup
<1>2. StatusOK'
  BY <1>1 DEF OnceInv, StatusOK
<1>3. Pushed' = Pushed /\ NotifiedOnce'
  BY <1>1 DEF Pushed, OnceInv, NotifiedOnce
<1>4. ASSUME NEW e \in Event
      PROVE  /\ dedup'[e] # 0 => dedup'[e] = dedup[e]
             /\ dedup'[e] = 0 => dedup[e] = 0 \/ dedup[e] + DedupFor < clock
  BY <1>1
<1>5. ASSUME NEW e \in Event, e \in Pushed, dedup'[e] = 0
      PROVE  clock - created[e] > StaleAfter
  BY <1>4, <1>5, Numbers DEF OnceInv, Remembered
<1>6. Remembered'
  BY <1>1, <1>3, <1>4, <1>5 DEF OnceInv, Remembered
<1> QED BY <1>2, <1>3, <1>6 DEF OnceInv

\* An event is pushed only if it is neither remembered nor stale, so that it
\* was not pushed before.
LEMMA PublishOnce ==
  ASSUME OnceInv, NEW e \in Event, PublishStatus(e)
  PROVE  OnceInv'
<1>1. StatusOK /\ Remembered /\ NotifiedOnce /\ clock' = clock
  BY DEF OnceInv, PublishStatus
<1>2. /\ createdAt(e) \in Nat \ {0} /\ createdAt(e) <= clock
      /\ created[e] # 0 => createdAt(e) = created[e]
  BY <1>1 DEF createdAt, StatusOK, Remembered
<1>3. /\ created' \in [Event -> Nat] /\ created'[e] = createdAt(e)
      /\ \A d \in Event : d # e => created'[d] = created[d]
  BY <1>1, <1>2 DEF StatusOK, PublishStatus
<1>4. CASE dedup' = dedup /\ sent' = sent
  <2>1. Pushed' = Pushed
    BY <1>4 DEF Pushed
  <2>2. Remembered'
    BY <1>1, <1>2, <1>3, <1>4, <2>1 DEF Remembered
  <2> QED BY <1>1, <1>3, <1>4, <2>2 DEF OnceInv, StatusOK, NotifiedOnce
<1>5. CASE /\ dedup[e] = 0 /\ dedup' = [dedup EXCEPT ![e] = clock]
           /\ sent' = sent \/ (sent' = Append(sent, e) /\ ~isStale(e))
  <2>1. /\ dedup' \in [Event -> Nat] /\ dedup'[e] = clock /\ clock # 0
        /\ \A d \in Event : d # e => dedup'[d] = dedup[d]
    BY <1>1, <1>5 DEF StatusOK
  <2>2. ASSUME Pushed' \subseteq Pushed \cup {e}
        PROVE  Remembered'
    <3>1. ASSUME NEW d \in Event
          PROVE  /\ created'[d] <= clock
                 /\ dedup'[d] # 0 => created'[d] # 0 /\ created'[d] <= dedup'[d]
                 /\ d \in Pushed' =>
                      created'[d] # 0 /\ (dedup'[d] # 0 \/ clock - created'[d] > StaleAfter)
      <4>1. CASE d = e
        BY <1>2, <1>3, <2>1, <4>1
      <4>2. CASE d # e
        BY <1>1, <1>3, <2>1, <2>2, <4>2 DEF Remembered
      <4> QED BY <4>1, <4>2
    <3> QED BY <1>1, <3>1 DEF Remembered
  <2>3. CASE sent' = sent
    <3>1. Pushed' = Pushed
      BY <2>3 DEF Pushed
    <3> QED BY <1>1, <1>3, <2>1, <2>2, <2>3, <3>1 DEF OnceInv, StatusOK, NotifiedOnce
  <2>4. CASE sent' = Append(sent, e) /\ ~isStale(e)
    <3>1. e \notin Pushed
      <4>1. ~(clock - createdAt(e) > StaleAfter)
        BY <2>4 DEF isStale
      <4> QED BY <1>1, <1>2, <1>5, <4>1 DEF Remembered
    <3>2. /\ sent' \in Seq(Event) /\ Len(sent) \in Nat
          /\ Len(sent') = Len(sent) + 1 /\ sent'[Len(sent) + 1] = e
          /\ \A k \in 1..Len(sent) : sent'[k] = sent[k]
          /\ DOMAIN sent' = 1..(Len(sent) + 1) /\ DOMAIN sent = 1..Len(sent)
      BY <1>1, <2>4 DEF StatusOK
    <3>3. Pushed' \subseteq Pushed \cup {e}
      BY <3>2 DEF Pushed
    <3>4. NotifiedOnce'
      <4> SUFFICES ASSUME NEW a \in 1..(Len(sent) + 1), NEW b \in 1..(Len(sent) + 1),
                          sent'[a] = sent'[b]
                   PROVE  a = b
        BY <3>2 DEF NotifiedOnce, IsInjective
      <4>1. CASE a \in 1..Len(sent) /\ b \in 1..Len(sent)
        BY <1>1, <3>2, <4>1 DEF NotifiedOnce, IsInjective
      <4>2. \A k \in 1..Len(sent) : sent'[k] # e
        BY <3>1, <3>2 DEF Pushed
      <4> QED BY <3>2, <4>1, <4>2
    <3> QED BY <1>1, <1>3, <2>1, <2>2, <3>2, <3>3, <3>4 DEF OnceInv, StatusOK
  <2> QED BY <1>5, <2>3, <2>4
<1> QED BY <1>4, <1>5 DEF PublishStatus, hasNotificationDedup, recordNotificationDedup, decide

LEMMA OnceStep == OnceInv /\ [NextPush]_pushVars => OnceInv'
<1> SUFFICES ASSUME OnceInv, [NextPush]_pushVars
             PROVE  OnceInv'
  OBVIOUS
<1> USE OnceUnchanged DEF status
<1>1. ASSUME NEW c \in Passcode, handlePair(c) \/ PasscodeExpires(c) \/ PostEnrollment(c)
      PROVE  OnceInv'
  BY <1>1 DEF handlePair, PasscodeExpires, PostEnrollment
<1>2. CASE BindEnrollment \/ AnswerLost \/ StoreCredential
  BY <1>2 DEF BindEnrollment, AnswerLost, StoreCredential
<1>3. CASE Hello \/ Disconnect \/ Forget \/ RotateToken
  BY <1>3 DEF Hello, Disconnect, Forget, RotateToken
<1>4. CASE DrainPendingToken \/ RegisterReturns \/ RegisterThrows \/ HandleRegister
  BY <1>4 DEF DrainPendingToken, RegisterReturns, RegisterThrows, HandleRegister
<1>5. ASSUME NEW e \in Event, PublishStatus(e) \/ ProviderAnswers(e)
      PROVE  OnceInv'
  BY <1>5, PublishOnce DEF ProviderAnswers
<1>6. CASE RemoveRejected \/ Crash
  BY <1>6 DEF RemoveRejected, Crash
<1>7. CASE Sweep \/ Tick
  BY <1>7, SweepOnce, TickOnce
<1>8. CASE UNCHANGED pushVars
  BY <1>8 DEF pushVars
<1> QED BY <1>1, <1>2, <1>3, <1>4, <1>5, <1>6, <1>7, <1>8 DEF NextPush

\* The same source event never produces two notifications (policy.ts,
\* service.ts publishStatus), also when Pi repeats it after the table that
\* remembers it was swept or the bridge was restarted.
THEOREM PushedOnce == PushSpec => []NotifiedOnce
<1>1. OnceInv => NotifiedOnce
  BY DEF OnceInv
<1> QED BY <1>1, OnceInit, OnceStep, PTL DEF PushSpec

-----------------------------------------------------------------------------
(* Pairing.                                                                *)

\* A credential that is on its way to the phone is the stored one: nobody
\* binds another passcode before the answer has arrived or is lost.
PairingInv ==
  /\ enroll \in [passcode : Passcode \cup {Nil}, answer : Nat]
  /\ minted \in Nat
  /\ enroll.answer # 0 => enroll.answer = cred
  /\ LockedOutOnlyByLostAnswer

LEMMA PairingUnchanged ==
  ASSUME PairingInv, UNCHANGED <<enroll, minted, cred, phoneCred, answerLost>>
  PROVE  PairingInv'
BY DEF PairingInv, LockedOutOnlyByLostAnswer

LEMMA BindPairing ==
  ASSUME PairingInv, BindEnrollment
  PROVE  PairingInv'
<1> USE DEF PairingInv, LockedOutOnlyByLostAnswer
<1>1. CASE enroll' = NoEnroll /\ UNCHANGED <<secrets, minted, cred>>
  BY <1>1 DEF BindEnrollment, NoEnroll
<1>2. CASE /\ minted' = minted + 1 /\ cred' = minted'
           /\ enroll' = [enroll EXCEPT !.answer = minted']
  <2>1. enroll'.answer = minted' /\ enroll' \in [passcode : Passcode \cup {Nil}, answer : Nat]
    BY <1>2
  <2> QED BY <1>2, <2>1 DEF BindEnrollment
<1> QED BY <1>1, <1>2 DEF BindEnrollment, bind, upsertInstallationCredential

LEMMA PairingStep == PairingInv /\ [NextPush]_pushVars => PairingInv'
<1> SUFFICES ASSUME PairingInv, [NextPush]_pushVars
             PROVE  PairingInv'
  OBVIOUS
<1>1. ASSUME NEW c \in Passcode, handlePair(c) \/ PasscodeExpires(c)
      PROVE  PairingInv'
  BY <1>1, PairingUnchanged DEF handlePair, PasscodeExpires
<1>2. ASSUME NEW c \in Passcode, PostEnrollment(c)
      PROVE  PairingInv'
  BY <1>2 DEF PostEnrollment, PairingInv, LockedOutOnlyByLostAnswer, NoEnroll
<1>3. CASE BindEnrollment
  BY <1>3, BindPairing
<1>4. CASE AnswerLost \/ Crash
  <2>1. enroll' = NoEnroll /\ UNCHANGED <<minted, cred, phoneCred>>
    BY <1>4 DEF AnswerLost, Crash
  <2>2. answerLost' <=> answerLost \/ enroll.answer # 0
    BY <1>4, Zenon DEF AnswerLost, Crash
  <2>3. enroll'.answer = 0 /\ enroll' \in [passcode : Passcode \cup {Nil}, answer : Nat]
    BY <2>1 DEF NoEnroll
  <2>4. ASSUME phoneCred # 0, phoneCred # cred, ~answerLost'
        PROVE  cred = 0
    BY <2>2, <2>4, Zenon DEF PairingInv, LockedOutOnlyByLostAnswer
  <2> QED BY <2>1, <2>3, <2>4 DEF PairingInv, LockedOutOnlyByLostAnswer
<1>5. CASE StoreCredential \/ Forget
  BY <1>5 DEF StoreCredential, Forget, PairingInv, LockedOutOnlyByLostAnswer, NoEnroll
<1>6. CASE Hello \/ Disconnect \/ RotateToken
  BY <1>6, PairingUnchanged DEF Hello, Disconnect, RotateToken, pairing
<1>7. CASE DrainPendingToken \/ RegisterReturns \/ RegisterThrows \/ HandleRegister
  BY <1>7, PairingUnchanged
     DEF DrainPendingToken, RegisterReturns, RegisterThrows, HandleRegister, pairing
<1>8. ASSUME NEW e \in Event, PublishStatus(e) \/ ProviderAnswers(e)
      PROVE  PairingInv'
  BY <1>8, PairingUnchanged DEF PublishStatus, ProviderAnswers, pairing
<1>9. CASE RemoveRejected \/ Sweep \/ Tick
  BY <1>9, PairingUnchanged DEF RemoveRejected, Sweep, Tick, pairing
<1>10. CASE UNCHANGED pushVars
  BY <1>10, PairingUnchanged DEF pushVars, pairing
<1> QED BY <1>1, <1>2, <1>3, <1>4, <1>5, <1>6, <1>7, <1>8, <1>9, <1>10 DEF NextPush

\* A phone is locked out only by a later pairing whose answer it lost or is
\* about to store (auth/enrollment.ts bind, core/store.ts
\* upsertInstallationCredential).
THEOREM NoLockout == PushSpec => []LockedOutOnlyByLostAnswer
<1>1. InitPush => PairingInv
  BY DEF InitPush, PairingInv, LockedOutOnlyByLostAnswer, NoEnroll
<1>2. PairingInv => LockedOutOnlyByLostAnswer
  BY DEF PairingInv
<1> QED BY <1>1, <1>2, PairingStep, PTL DEF PushSpec

-----------------------------------------------------------------------------
(* Registration of the push token.                                         *)

\* A frame on its way keeps the loop alive.  While connected, the newest token
\* is pending until it has been handed to the socket, and nothing else is.
TokenInv ==
  /\ token \in Nat \ {0}
  /\ sending # 0 => draining
  /\ connected => pendingToken \in {0, token}
  /\ connected /\ pendingToken = 0 => registeredToken = token /\ sending = 0
  /\ NewestTokenOffered

LEMMA TokenUnchanged ==
  ASSUME TokenInv, UNCHANGED phone, connected' => connected
  PROVE  TokenInv'
BY DEF TokenInv, NewestTokenOffered, phone

LEMMA TokenStep == TokenInv /\ [NextPush]_pushVars => TokenInv'
<1> SUFFICES ASSUME TokenInv, [NextPush]_pushVars
             PROVE  TokenInv'
  OBVIOUS
<1>1. ASSUME NEW c \in Passcode, handlePair(c) \/ PasscodeExpires(c) \/ PostEnrollment(c)
      PROVE  TokenInv'
  BY <1>1, TokenUnchanged DEF handlePair, PasscodeExpires, PostEnrollment
<1>2. CASE BindEnrollment \/ AnswerLost \/ StoreCredential
  BY <1>2, TokenUnchanged DEF BindEnrollment, AnswerLost, StoreCredential
<1>3. CASE Disconnect \/ HandleRegister \/ RemoveRejected \/ Sweep \/ Tick \/ Crash
  BY <1>3, TokenUnchanged DEF Disconnect, HandleRegister, RemoveRejected, Sweep, Tick, Crash
<1>4. ASSUME NEW e \in Event, PublishStatus(e) \/ ProviderAnswers(e)
      PROVE  TokenInv'
  BY <1>4, TokenUnchanged DEF PublishStatus, ProviderAnswers
<1>5. CASE Hello \/ RotateToken
  BY <1>5 DEF Hello, RotateToken, acceptToken, TokenInv, NewestTokenOffered
<1>6. CASE Forget
  BY <1>6 DEF Forget, TokenInv, NewestTokenOffered
<1>7. CASE DrainPendingToken
  BY <1>7 DEF DrainPendingToken, TokenInv, NewestTokenOffered
<1>8. CASE RegisterReturns
  <2>1. CASE ~connected
    BY <1>8, <2>1 DEF RegisterReturns, TokenInv, NewestTokenOffered
  <2>2. CASE connected
    <3>1. pendingToken = token /\ token # 0 /\ draining
      BY <1>8, <2>2 DEF RegisterReturns, TokenInv
    <3> QED BY <1>8, <3>1 DEF RegisterReturns, afterRegister, TokenInv, NewestTokenOffered
  <2> QED BY <2>1, <2>2
<1>9. CASE RegisterThrows
  BY <1>9 DEF RegisterThrows, TokenInv, NewestTokenOffered
<1>10. CASE UNCHANGED pushVars
  BY <1>10, TokenUnchanged DEF pushVars
<1> QED BY <1>1, <1>2, <1>3, <1>4, <1>5, <1>6, <1>7, <1>8, <1>9, <1>10 DEF NextPush

\* The registration loop of a connected phone rests only when the newest token
\* has been handed to the socket (notification_controller.dart
\* _drainPendingToken), however rotations, disconnects, failing sends and the
\* host's forgetting interleave with it.
THEOREM NewestTokenSent == PushSpec => []NewestTokenOffered
<1>1. InitPush => TokenInv
  BY DEF InitPush, TokenInv, NewestTokenOffered
<1>2. TokenInv => NewestTokenOffered
  BY DEF TokenInv
<1> QED BY <1>1, <1>2, TokenStep, PTL DEF PushSpec

-----------------------------------------------------------------------------
(* Releases: what update and rollback report is true, a restored database  *)
(* is reset exactly once, no command damages a database, and routes of     *)
(* other services are kept.                                                *)
(*                                                                         *)
(* The command under way is a list of steps still to do.  The argument     *)
(* never needs the exact list: only which steps it may hold, which of two  *)
(* steps comes first, and what is true of the machine once a step is no    *)
(* longer to do.                                                           *)

-----------------------------------------------------------------------------
(* Lists of steps.                                                         *)

Has(t, x)       == \E i \in DOMAIN t : t[i] = x
Uses(t, S)      == \A i \in DOMAIN t : t[i] \in S
Before(t, x, y) == \A i, j \in DOMAIN t : t[i] = x /\ t[j] = y /\ i # j => i < j
StopFirst(t)    == \A i \in DOMAIN t : t[i] = "restoreDb" => \E j \in DOMAIN t : j < i /\ t[j] = "stop"

\* The order of the steps in every plan; a step before itself occurs once.
Tidy(t) ==
  /\ Before(t, "stop", "start") /\ Before(t, "stop", "backup")
  /\ Before(t, "backup", "swapDaemon") /\ Before(t, "backup", "swapExtension")
  /\ Before(t, "backup", "start")
  /\ Before(t, "restoreDb", "start") /\ Before(t, "restoreDb", "reset")
  /\ Before(t, "writeDaemon", "writeConfig") /\ Before(t, "list", "set")
  /\ Before(t, "reset", "reset") /\ Before(t, "backup", "backup") /\ Before(t, "start", "start")

\* The steps of each command and of the two hooks of an update.
UpdateSteps   == {"preflight", "verify", "stop", "backup", "migrate", "reset",
                  "swapDaemon", "swapExtension", "start", "ready"}
RestoreSteps  == {"stop", "restoreConfig", "restorePlist", "restoreDaemon", "restoreExtension",
                  "restoreDb", "start", "ready"}
RollbackSteps == RestoreSteps \cup {"preflight", "find", "reset"}
ResetSteps    == {"reset", "start", "ready"}
InstallSteps  == {"preflight", "captureLoginEnv", "writeDaemon", "writeConfig", "writePlist",
                  "bootstrap", "ready", "list", "set", "mark"}
ServeSteps    == {"start", "ready", "list", "set", "mark"}
RemoveSteps   == {"stop", "findOwned", "off", "unmark", "remove"}
AllSteps      == UpdateSteps \cup RollbackSteps \cup InstallSteps \cup ServeSteps \cup RemoveSteps

StepsOf(op, phase) ==
  IF phase = "report" THEN {}
  ELSE IF phase = "restore" THEN RestoreSteps
  ELSE IF phase = "reset" THEN ResetSteps
  ELSE IF op = "update" THEN UpdateSteps
  ELSE IF op = "rollback" THEN RollbackSteps
  ELSE IF op = "install" THEN InstallSteps
  ELSE IF op \in {"start", "serve"} THEN ServeSteps
  ELSE RemoveSteps

-----------------------------------------------------------------------------
(* Types.                                                                  *)

Files  == [daemon : Versions \cup {None}, extension : Versions \cup {None},
           config : [version : Versions, port : Ports] \cup {None}, plist : {TRUE, None}]
Db     == [gen : Nat, events : SUBSET (1 .. MaxEvents), damaged : BOOLEAN]
Wal    == [base : SUBSET (1 .. MaxEvents), added : SUBSET (1 .. MaxEvents)]
Op     == {"none", "install", "start", "stop", "serve", "update", "rollback", "uninstall"}
Route  == {"none", "bridge", "other"}
Cli    == [op : Op, phase : {"run", "restore", "reset", "report"}, cls : Class \cup {None},
           target : Versions \cup {None}, port : Ports \cup {None}, todo : Seq(AllSteps),
           backup : Nat, listed : [Ports -> Route], optIn : BOOLEAN, mode : Mode \cup {None},
           ok : BOOLEAN, rolledBack : BOOLEAN, resetDone : BOOLEAN,
           before : [files : Files \cup {None}, events : SUBSET (1 .. MaxEvents)]]

TypeInv ==
  /\ files \in Files /\ db \in Db /\ wal \in Wal /\ loaded \in BOOLEAN
  /\ backups \in Seq([files : Files, db : Db])
  /\ routes \in [Ports -> Route] /\ marker \in Ports \cup {None}
  /\ sessions \in BOOLEAN /\ cli \in Cli /\ hardKilled \in BOOLEAN

-----------------------------------------------------------------------------
(* The inductive invariant.                                                *)

\* What is left to do is a piece of one of the plans.
PlanInv ==
  /\ Tidy(cli.todo) /\ Uses(cli.todo, StepsOf(cli.op, cli.phase))
  /\ cli.op = "none" => cli.phase = "report"
  /\ cli.phase \in {"restore", "reset"} => cli.op = "update"
  /\ cli.phase # "report" => ~cli.ok /\ ~cli.resetDone
  /\ cli.op \in {"install", "start", "serve"} => cli.port \in Ports
  /\ cli.op \in {"install", "update"} => cli.target \in Versions

\* A database file is only put back with the daemon stopped.  Unless launchd
\* killed a daemon, the log of a stopped daemon is empty and a log extends the
\* file it lies beside.
StopInv == Has(cli.todo, "restoreDb") => ~loaded \/ StopFirst(cli.todo)
LogInv  == ~hardKilled =>
             /\ ~loaded => wal.added = {}
             /\ wal.added # {} => wal.base = db.events
             /\ ~db.damaged
             /\ \A b \in DOMAIN backups : ~backups[b].db.damaged

\* A configured host has a daemon, and so has every backup.
FilesInv ==
  /\ files.config # None => files.daemon # None
  /\ \A b \in DOMAIN backups : backups[b].files.config # None /\ backups[b].files.daemon # None
  /\ cli.op \in {"update", "rollback"} => files.config # None
  /\ cli.op = "install" /\ cli.phase = "run" /\ ~Has(cli.todo, "writeDaemon") => files.daemon # None

\* The steps of an update, and the backup it took.
UpdateRun ==
  /\ ~cli.rolledBack
  /\ cli.before.events \subseteq Committed
  /\ Has(cli.todo, "backup") =>
       files = cli.before.files /\ cli.backup = 0 /\ Has(cli.todo, "start")
  /\ Has(cli.todo, "start") /\ ~Has(cli.todo, "stop") => ~loaded
  /\ ~Has(cli.todo, "start") => loaded /\ ~Has(cli.todo, "stop")
  /\ ~Has(cli.todo, "swapDaemon") => files.daemon = cli.target
UpdateBackup ==
  cli.backup # 0 =>
    /\ cli.backup \in DOMAIN backups
    /\ backups[cli.backup].files = cli.before.files
    /\ ~hardKilled => cli.before.events \subseteq backups[cli.backup].db.events

\* The restore of a failed update and the reset that may follow it.
UpdateRestore ==
  /\ cli.backup # 0 /\ ~cli.rolledBack
  /\ ~Has(cli.todo, "restoreDaemon") => files.daemon = backups[cli.backup].files.daemon
  /\ ~Has(cli.todo, "restoreConfig") => files.config = backups[cli.backup].files.config
  /\ ~Has(cli.todo, "restoreDb") =>
       db.gen = backups[cli.backup].db.gen /\ backups[cli.backup].db.events \subseteq Committed
  /\ cli.cls # "restore_required" /\ ~Has(cli.todo, "start") => loaded /\ ~Has(cli.todo, "stop")
UpdateReset ==
  /\ cli.cls = "restore_required"
  /\ ~Has(cli.todo, "start") => loaded
  /\ cli.rolledBack =>
       db.gen = backups[cli.backup].db.gen + (IF Has(cli.todo, "reset") THEN 0 ELSE 1)
UpdateDone ==
  /\ cli.ok =>
       /\ loaded /\ files.daemon = cli.target /\ cli.before.events \subseteq Committed
       /\ ~cli.rolledBack
  /\ cli.rolledBack /\ (cli.cls = "restore_required" => cli.resetDone) => loaded
  /\ cli.rolledBack /\ cli.cls = "restore_required" /\ cli.resetDone =>
       db.gen = backups[cli.backup].db.gen + 1
UpdateInv ==
  cli.op = "update" =>
    /\ UpdateBackup
    /\ cli.phase = "run" => UpdateRun
    /\ cli.phase = "restore" => UpdateRestore
    /\ cli.phase = "reset" => UpdateReset
    /\ cli.phase = "report" => UpdateDone
    /\ cli.rolledBack =>
         /\ cli.backup # 0
         /\ files.daemon = backups[cli.backup].files.daemon
         /\ files.config = backups[cli.backup].files.config
         /\ backups[cli.backup].db.events \subseteq Committed

\* The steps of a rollback to a backup.
Restored ==
  /\ cli.backup \in DOMAIN backups
  /\ backups[cli.backup].db.events \subseteq Committed
RollbackRun ==
  /\ ~Has(cli.todo, "restoreConfig") =>
       cli.backup \in DOMAIN backups /\ files.config = backups[cli.backup].files.config
  /\ ~Has(cli.todo, "restoreDb") => Restored
  /\ cli.cls = "restore_required" =>
       /\ Has(cli.todo, "restoreDb") => Has(cli.todo, "reset")
       /\ ~Has(cli.todo, "restoreDb") =>
            db.gen = backups[cli.backup].db.gen + (IF Has(cli.todo, "reset") THEN 0 ELSE 1)
  /\ ~Has(cli.todo, "start") => loaded /\ ~Has(cli.todo, "stop")
RollbackDone ==
  cli.ok =>
    /\ loaded /\ Restored /\ files.config = backups[cli.backup].files.config
    /\ cli.cls = "restore_required" => db.gen = backups[cli.backup].db.gen + 1
RollbackInv ==
  cli.op = "rollback" =>
    /\ cli.phase = "run" => RollbackRun
    /\ cli.phase = "report" => RollbackDone

\* A route is set only on a port that nobody else served when it was listed.
RouteInv ==
  Has(cli.todo, "set") /\ ~Has(cli.todo, "list") => cli.listed[cli.port] # "other"

ReleaseInv ==
  TypeInv /\ PlanInv /\ StopInv /\ LogInv /\ FilesInv /\ UpdateInv /\ RollbackInv /\ RouteInv

-----------------------------------------------------------------------------
(* What is known of a list of steps when its first step is done.           *)

LEMMA TailSteps ==
  ASSUME NEW t \in Seq(AllSteps), t # <<>>
  PROVE  /\ Tail(t) \in Seq(AllSteps)
         /\ \A x : Has(t, x) <=> (Head(t) = x \/ Has(Tail(t), x))
         /\ \A S : Uses(t, S) => Head(t) \in S /\ Uses(Tail(t), S)
         /\ \A x, y : Before(t, x, y) => Before(Tail(t), x, y) /\ (Head(t) = y => ~Has(Tail(t), x))
         /\ StopFirst(t) => /\ Head(t) # "restoreDb"
                            /\ Head(t) # "stop" => StopFirst(Tail(t))
<1> DEFINE u == Tail(t)
<1>1. /\ Len(t) \in Nat \ {0} /\ DOMAIN t = 1..Len(t) /\ DOMAIN u = 1..(Len(t) - 1)
      /\ u \in Seq(AllSteps) /\ Head(t) = t[1] /\ \A i \in DOMAIN u : u[i] = t[i + 1]
  OBVIOUS
<1> HIDE DEF u
<1>2. \A i \in DOMAIN u : i + 1 \in DOMAIN t /\ i \in Nat /\ i + 1 # 1
  BY <1>1
<1>3. \A i \in DOMAIN t : i = 1 \/ (i - 1 \in DOMAIN u /\ u[i - 1] = t[i] /\ i \in Nat)
  <2> TAKE i \in DOMAIN t
  <2>1. CASE i # 1
    <3>1. i - 1 \in DOMAIN u /\ (i - 1) + 1 = i
      BY <1>1, <2>1
    <3> QED BY <1>1, <3>1
  <2> QED BY <2>1
<1>4. 1 \in DOMAIN t
  BY <1>1
<1>5. ASSUME NEW x PROVE Has(t, x) <=> (Head(t) = x \/ Has(u, x))
  BY <1>1, <1>2, <1>3, <1>4 DEF Has
<1>6. ASSUME NEW S, Uses(t, S) PROVE Head(t) \in S /\ Uses(u, S)
  BY <1>1, <1>2, <1>4, <1>6 DEF Uses
<1>7. ASSUME NEW x, NEW y, Before(t, x, y) PROVE Before(u, x, y) /\ (Head(t) = y => ~Has(u, x))
  <2>1. ASSUME NEW i \in DOMAIN u, NEW j \in DOMAIN u, u[i] = x, u[j] = y, i # j PROVE i < j
    <3>1. i + 1 # j + 1
      BY <1>2, <2>1
    <3>2. i + 1 < j + 1
      BY <1>1, <1>2, <1>7, <2>1, <3>1 DEF Before
    <3> QED BY <1>2, <3>2
  <2>2. ASSUME NEW i \in DOMAIN u, u[i] = x, t[1] = y PROVE FALSE
    <3>1. i + 1 < 1
      BY <1>1, <1>2, <1>4, <1>7, <2>2 DEF Before
    <3> QED BY <1>2, <3>1
  <2> QED BY <1>1, <2>1, <2>2 DEF Before, Has
<1>9. ASSUME StopFirst(t)
      PROVE  Head(t) # "restoreDb" /\ (Head(t) # "stop" => StopFirst(u))
  <2>1. t[1] # "restoreDb"
    BY <1>1, <1>4, <1>9 DEF StopFirst
  <2>2. ASSUME t[1] # "stop", NEW i \in DOMAIN u, u[i] = "restoreDb"
        PROVE  \E j \in DOMAIN u : j < i /\ u[j] = "stop"
    <3>1. PICK j \in DOMAIN t : j < i + 1 /\ t[j] = "stop"
      BY <1>1, <1>2, <1>9, <2>2 DEF StopFirst
    <3>2. j - 1 \in DOMAIN u /\ u[j - 1] = t[j] /\ j \in Nat
      BY <1>3, <2>2, <3>1
    <3>3. j - 1 < i
      BY <1>2, <3>1, <3>2
    <3> QED BY <3>1, <3>2, <3>3
  <2> QED BY <1>1, <2>1, <2>2 DEF StopFirst
<1> QED BY <1>1, <1>5, <1>6, <1>7, <1>9 DEF u

LEMMA NoSteps ==
  /\ Tidy(<<>>) /\ \A S : Uses(<<>>, S)
  /\ \A x : ~Has(<<>>, x)
<1>1. DOMAIN <<>> = {}
  OBVIOUS
<1> QED BY <1>1 DEF Tidy, Before, Uses, Has

\* Skipping the first steps.
LEMMA LaterSteps ==
  ASSUME NEW t \in Seq(AllSteps), NEW n \in Nat \ {0}
  PROVE  /\ SubSeq(t, n, Len(t)) \in Seq(AllSteps)
         /\ \A x : Has(SubSeq(t, n, Len(t)), x) => Has(t, x)
         /\ \A S : Uses(t, S) => Uses(SubSeq(t, n, Len(t)), S)
         /\ Tidy(t) => Tidy(SubSeq(t, n, Len(t)))
<1> DEFINE u == SubSeq(t, n, Len(t))
<1>1. u \in Seq(AllSteps)
  OBVIOUS
<1>2. \A i \in DOMAIN u : i \in Nat /\ i + n - 1 \in DOMAIN t /\ u[i] = t[i + n - 1]
  OBVIOUS
<1> HIDE DEF u
<1>3. ASSUME NEW x, NEW y, Before(t, x, y) PROVE Before(u, x, y)
  <2> SUFFICES ASSUME NEW i \in DOMAIN u, NEW j \in DOMAIN u, u[i] = x, u[j] = y, i # j PROVE i < j
    BY DEF Before
  <2>1. i + n - 1 # j + n - 1
    BY <1>2
  <2>2. i + n - 1 < j + n - 1
    BY <1>2, <1>3, <2>1 DEF Before
  <2> QED BY <1>2, <2>2
<1>5. Tidy(t) => Tidy(u)
  BY <1>3 DEF Tidy
<1>6. \A x : Has(u, x) => Has(t, x)
  BY <1>2 DEF Has
<1>7. \A S : Uses(t, S) => Uses(u, S)
  BY <1>2 DEF Uses
<1> QED BY <1>1, <1>5, <1>6, <1>7 DEF u

\* Two lists, one after the other: no step of the second may belong before a
\* step of the first.
Follows(S, T) ==
  /\ ~("start" \in S /\ "stop" \in T) /\ ~("backup" \in S /\ "stop" \in T)
  /\ ~("swapDaemon" \in S /\ "backup" \in T) /\ ~("swapExtension" \in S /\ "backup" \in T)
  /\ ~("start" \in S /\ "backup" \in T)
  /\ ~("start" \in S /\ "restoreDb" \in T) /\ ~("reset" \in S /\ "restoreDb" \in T)
  /\ ~("writeConfig" \in S /\ "writeDaemon" \in T) /\ ~("set" \in S /\ "list" \in T)
  /\ ~("reset" \in S /\ "reset" \in T) /\ ~("backup" \in S /\ "backup" \in T)
  /\ ~("start" \in S /\ "start" \in T)

LEMMA JoinSteps ==
  ASSUME NEW s \in Seq(AllSteps), NEW t \in Seq(AllSteps)
  PROVE  /\ s \o t \in Seq(AllSteps)
         /\ \A x : Has(s \o t, x) <=> (Has(s, x) \/ Has(t, x))
         /\ \A S, T : Uses(s, S) /\ Uses(t, T) => Uses(s \o t, S \cup T)
         /\ \A S, T : /\ Uses(s, S) /\ Uses(t, T) /\ Tidy(s) /\ Tidy(t) /\ Follows(S, T)
                     => Tidy(s \o t)
<1> DEFINE u == s \o t
<1>1. /\ u \in Seq(AllSteps) /\ Len(s) \in Nat /\ Len(t) \in Nat
      /\ DOMAIN s = 1..Len(s) /\ DOMAIN t = 1..Len(t) /\ DOMAIN u = 1..(Len(s) + Len(t))
  OBVIOUS
<1>2. \A i \in 1..(Len(s) + Len(t)) : u[i] = IF i <= Len(s) THEN s[i] ELSE t[i - Len(s)]
  OBVIOUS
<1> HIDE DEF u
<1>3. \A i \in DOMAIN u : \/ i \in DOMAIN s /\ u[i] = s[i]
                         \/ /\ i \notin DOMAIN s /\ i - Len(s) \in DOMAIN t /\ u[i] = t[i - Len(s)]
                            /\ i > Len(s) /\ i \in Nat
  BY <1>1, <1>2
<1>4. \A i \in DOMAIN s : i \in DOMAIN u /\ u[i] = s[i]
  BY <1>1, <1>2
<1>5. ASSUME NEW i \in DOMAIN t PROVE i + Len(s) \in DOMAIN u /\ u[i + Len(s)] = t[i]
  <2>1. i + Len(s) \in DOMAIN u /\ ~(i + Len(s) <= Len(s)) /\ (i + Len(s)) - Len(s) = i
    BY <1>1
  <2> QED BY <1>1, <1>2, <2>1
<1>6. ASSUME NEW x PROVE Has(u, x) <=> (Has(s, x) \/ Has(t, x))
  BY <1>3, <1>4, <1>5 DEF Has
<1>7. ASSUME NEW S, NEW T, Uses(s, S), Uses(t, T) PROVE Uses(u, S \cup T)
  BY <1>3, <1>7 DEF Uses
<1>8. ASSUME NEW x, NEW y, Before(s, x, y), Before(t, x, y), ~(Has(s, y) /\ Has(t, x))
      PROVE  Before(u, x, y)
  <2> SUFFICES ASSUME NEW i \in DOMAIN u, NEW j \in DOMAIN u, u[i] = x, u[j] = y, i # j PROVE i < j
    BY DEF Before
  <2>1. CASE i \in DOMAIN s /\ j \in DOMAIN s
    BY <1>4, <1>8, <2>1 DEF Before
  <2>2. CASE i \in DOMAIN s /\ j \notin DOMAIN s
    BY <1>1, <1>3, <2>2
  <2>3. CASE i \notin DOMAIN s /\ j \in DOMAIN s
    BY <1>3, <1>8, <2>3 DEF Has
  <2>4. CASE i \notin DOMAIN s /\ j \notin DOMAIN s
    <3>1. /\ i - Len(s) \in DOMAIN t /\ u[i] = t[i - Len(s)] /\ i \in Nat
          /\ j - Len(s) \in DOMAIN t /\ u[j] = t[j - Len(s)] /\ j \in Nat
      BY <1>3, <2>4
    <3>2. i - Len(s) # j - Len(s)
      BY <1>1, <3>1
    <3>3. i - Len(s) < j - Len(s)
      BY <1>8, <3>1, <3>2 DEF Before
    <3> QED BY <1>1, <3>1, <3>3
  <2> QED BY <2>1, <2>2, <2>3, <2>4
<1>9. ASSUME NEW S, NEW T, Uses(s, S), Uses(t, T), Tidy(s), Tidy(t), Follows(S, T)
      PROVE  Tidy(u)
  <2>1. \A x : (Has(s, x) => x \in S) /\ (Has(t, x) => x \in T)
    BY <1>9 DEF Has, Uses
  <2> QED BY <1>8, <1>9, <2>1 DEF Tidy, Follows
<1> QED BY <1>1, <1>6, <1>7, <1>9 DEF u

-----------------------------------------------------------------------------
(* The plans.                                                              *)

\* The list t consists of the steps in S, in the order plans keep.
Piece(t, S) ==
  /\ t \in Seq(AllSteps) /\ Tidy(t) /\ Uses(t, S)
  /\ \A x \in S : Has(t, x)

LEMMA SingleStep ==
  ASSUME NEW a \in AllSteps
  PROVE  Piece(<<a>>, {a})
<1>1. <<a>> \in Seq(AllSteps)
  OBVIOUS
<1>2. DOMAIN <<a>> = {1} /\ <<a>>[1] = a
  OBVIOUS
<1>3. Uses(<<a>>, {a}) /\ Has(<<a>>, a)
  BY <1>2 DEF Uses, Has
<1>4. Tidy(<<a>>)
  BY <1>2 DEF Tidy, Before
<1> QED BY <1>1, <1>3, <1>4 DEF Piece

\* The lists the plans are made of.
LEMMA Pieces ==
  /\ Piece(<<"preflight", "verify", "stop", "backup">>, {"preflight", "verify", "stop", "backup"})
  /\ Piece(<<"swapDaemon", "swapExtension", "start", "ready">>,
           {"swapDaemon", "swapExtension", "start", "ready"})
  /\ Piece(<<"preflight", "find">>, {"preflight", "find"})
  /\ Piece(<<"stop", "restoreConfig", "restorePlist", "restoreDaemon", "restoreExtension", "restoreDb">>,
           {"stop", "restoreConfig", "restorePlist", "restoreDaemon", "restoreExtension", "restoreDb"})
  /\ Piece(<<"stop", "reset">>, {"stop", "reset"})
  /\ Piece(<<"start", "ready">>, {"start", "ready"})
  /\ Piece(<<"reset", "start", "ready">>, {"reset", "start", "ready"})
  /\ Piece(<<"list", "set", "mark">>, {"list", "set", "mark"})
  /\ Piece(<<"findOwned", "off", "unmark">>, {"findOwned", "off", "unmark"})
  /\ Piece(<<"captureLoginEnv", "writeDaemon", "writeConfig", "writePlist", "bootstrap", "ready">>,
           {"captureLoginEnv", "writeDaemon", "writeConfig", "writePlist", "bootstrap", "ready"})
<1>1. ASSUME NEW t, t = <<"preflight", "verify", "stop", "backup">>
      PROVE  Piece(t, {"preflight", "verify", "stop", "backup"})
  <2>1. /\ DOMAIN t = 1..4
        /\ t[1] = "preflight" /\ t[2] = "verify" /\ t[3] = "stop" /\ t[4] = "backup"
    BY <1>1
  <2>2. <<"preflight", "verify", "stop", "backup">> \in Seq(AllSteps)
    BY DEF AllSteps, UpdateSteps, RollbackSteps, RestoreSteps, InstallSteps, ServeSteps, RemoveSteps
  <2>3. \A i \in DOMAIN t : i \in Int /\ (i = 1 \/ i = 2 \/ i = 3 \/ i = 4)
    BY <2>1
  <2>4. Tidy(t)
    BY <2>1, <2>3 DEF Tidy, Before
  <2>5. Uses(t, {"preflight", "verify", "stop", "backup"})
    BY <2>1, <2>3 DEF Uses
  <2>6. \A x \in {"preflight", "verify", "stop", "backup"} : Has(t, x)
    BY <2>1 DEF Has
  <2> QED BY <1>1, <2>2, <2>4, <2>5, <2>6 DEF Piece
<1>2. ASSUME NEW t, t = <<"swapDaemon", "swapExtension", "start", "ready">>
      PROVE  Piece(t, {"swapDaemon", "swapExtension", "start", "ready"})
  <2>1. /\ DOMAIN t = 1..4
        /\ t[1] = "swapDaemon" /\ t[2] = "swapExtension"
        /\ t[3] = "start" /\ t[4] = "ready"
    BY <1>2
  <2>2. <<"swapDaemon", "swapExtension", "start", "ready">> \in Seq(AllSteps)
    BY DEF AllSteps, UpdateSteps, RollbackSteps, RestoreSteps, InstallSteps, ServeSteps, RemoveSteps
  <2>3. \A i \in DOMAIN t : i \in Int /\ (i = 1 \/ i = 2 \/ i = 3 \/ i = 4)
    BY <2>1
  <2>4. Tidy(t)
    BY <2>1, <2>3 DEF Tidy, Before
  <2>5. Uses(t, {"swapDaemon", "swapExtension", "start", "ready"})
    BY <2>1, <2>3 DEF Uses
  <2>6. \A x \in {"swapDaemon", "swapExtension", "start", "ready"} : Has(t, x)
    BY <2>1 DEF Has
  <2> QED BY <1>2, <2>2, <2>4, <2>5, <2>6 DEF Piece
<1>3. ASSUME NEW t, t = <<"preflight", "find">>
      PROVE  Piece(t, {"preflight", "find"})
  <2>1. /\ DOMAIN t = 1..2
        /\ t[1] = "preflight" /\ t[2] = "find"
    BY <1>3
  <2>2. <<"preflight", "find">> \in Seq(AllSteps)
    BY DEF AllSteps, UpdateSteps, RollbackSteps, RestoreSteps, InstallSteps, ServeSteps, RemoveSteps
  <2>3. \A i \in DOMAIN t : i \in Int /\ (i = 1 \/ i = 2)
    BY <2>1
  <2>4. Tidy(t)
    BY <2>1, <2>3 DEF Tidy, Before
  <2>5. Uses(t, {"preflight", "find"})
    BY <2>1, <2>3 DEF Uses
  <2>6. \A x \in {"preflight", "find"} : Has(t, x)
    BY <2>1 DEF Has
  <2> QED BY <1>3, <2>2, <2>4, <2>5, <2>6 DEF Piece
<1>4. ASSUME NEW t, t = <<"stop", "restoreConfig", "restorePlist", "restoreDaemon", "restoreExtension", "restoreDb">>
      PROVE  Piece(t, {"stop", "restoreConfig", "restorePlist", "restoreDaemon", "restoreExtension", "restoreDb"})
  <2>1. /\ DOMAIN t = 1..6
        /\ t[1] = "stop" /\ t[2] = "restoreConfig" /\ t[3] = "restorePlist"
        /\ t[4] = "restoreDaemon" /\ t[5] = "restoreExtension" /\ t[6] = "restoreDb"
    BY <1>4
  <2>2. <<"stop", "restoreConfig", "restorePlist", "restoreDaemon", "restoreExtension", "restoreDb">> \in Seq(AllSteps)
    BY DEF AllSteps, UpdateSteps, RollbackSteps, RestoreSteps, InstallSteps, ServeSteps, RemoveSteps
  <2>3. \A i \in DOMAIN t : i \in Int /\ (i = 1 \/ i = 2 \/ i = 3 \/ i = 4 \/ i = 5 \/ i = 6)
    BY <2>1
  <2>4. Tidy(t)
    BY <2>1, <2>3 DEF Tidy, Before
  <2>5. Uses(t, {"stop", "restoreConfig", "restorePlist", "restoreDaemon", "restoreExtension", "restoreDb"})
    BY <2>1, <2>3 DEF Uses
  <2>6. \A x \in {"stop", "restoreConfig", "restorePlist", "restoreDaemon", "restoreExtension", "restoreDb"} : Has(t, x)
    BY <2>1 DEF Has
  <2> QED BY <1>4, <2>2, <2>4, <2>5, <2>6 DEF Piece
<1>5. ASSUME NEW t, t = <<"stop", "reset">>
      PROVE  Piece(t, {"stop", "reset"})
  <2>1. /\ DOMAIN t = 1..2
        /\ t[1] = "stop" /\ t[2] = "reset"
    BY <1>5
  <2>2. <<"stop", "reset">> \in Seq(AllSteps)
    BY DEF AllSteps, UpdateSteps, RollbackSteps, RestoreSteps, InstallSteps, ServeSteps, RemoveSteps
  <2>3. \A i \in DOMAIN t : i \in Int /\ (i = 1 \/ i = 2)
    BY <2>1
  <2>4. Tidy(t)
    BY <2>1, <2>3 DEF Tidy, Before
  <2>5. Uses(t, {"stop", "reset"})
    BY <2>1, <2>3 DEF Uses
  <2>6. \A x \in {"stop", "reset"} : Has(t, x)
    BY <2>1 DEF Has
  <2> QED BY <1>5, <2>2, <2>4, <2>5, <2>6 DEF Piece
<1>6. ASSUME NEW t, t = <<"start", "ready">>
      PROVE  Piece(t, {"start", "ready"})
  <2>1. /\ DOMAIN t = 1..2
        /\ t[1] = "start" /\ t[2] = "ready"
    BY <1>6
  <2>2. <<"start", "ready">> \in Seq(AllSteps)
    BY DEF AllSteps, UpdateSteps, RollbackSteps, RestoreSteps, InstallSteps, ServeSteps, RemoveSteps
  <2>3. \A i \in DOMAIN t : i \in Int /\ (i = 1 \/ i = 2)
    BY <2>1
  <2>4. Tidy(t)
    BY <2>1, <2>3 DEF Tidy, Before
  <2>5. Uses(t, {"start", "ready"})
    BY <2>1, <2>3 DEF Uses
  <2>6. \A x \in {"start", "ready"} : Has(t, x)
    BY <2>1 DEF Has
  <2> QED BY <1>6, <2>2, <2>4, <2>5, <2>6 DEF Piece
<1>7. ASSUME NEW t, t = <<"reset", "start", "ready">>
      PROVE  Piece(t, {"reset", "start", "ready"})
  <2>1. /\ DOMAIN t = 1..3
        /\ t[1] = "reset" /\ t[2] = "start" /\ t[3] = "ready"
    BY <1>7
  <2>2. <<"reset", "start", "ready">> \in Seq(AllSteps)
    BY DEF AllSteps, UpdateSteps, RollbackSteps, RestoreSteps, InstallSteps, ServeSteps, RemoveSteps
  <2>3. \A i \in DOMAIN t : i \in Int /\ (i = 1 \/ i = 2 \/ i = 3)
    BY <2>1
  <2>4. Tidy(t)
    BY <2>1, <2>3 DEF Tidy, Before
  <2>5. Uses(t, {"reset", "start", "ready"})
    BY <2>1, <2>3 DEF Uses
  <2>6. \A x \in {"reset", "start", "ready"} : Has(t, x)
    BY <2>1 DEF Has
  <2> QED BY <1>7, <2>2, <2>4, <2>5, <2>6 DEF Piece
<1>8. ASSUME NEW t, t = <<"list", "set", "mark">>
      PROVE  Piece(t, {"list", "set", "mark"})
  <2>1. /\ DOMAIN t = 1..3
        /\ t[1] = "list" /\ t[2] = "set" /\ t[3] = "mark"
    BY <1>8
  <2>2. <<"list", "set", "mark">> \in Seq(AllSteps)
    BY DEF AllSteps, UpdateSteps, RollbackSteps, RestoreSteps, InstallSteps, ServeSteps, RemoveSteps
  <2>3. \A i \in DOMAIN t : i \in Int /\ (i = 1 \/ i = 2 \/ i = 3)
    BY <2>1
  <2>4. Tidy(t)
    BY <2>1, <2>3 DEF Tidy, Before
  <2>5. Uses(t, {"list", "set", "mark"})
    BY <2>1, <2>3 DEF Uses
  <2>6. \A x \in {"list", "set", "mark"} : Has(t, x)
    BY <2>1 DEF Has
  <2> QED BY <1>8, <2>2, <2>4, <2>5, <2>6 DEF Piece
<1>9. ASSUME NEW t, t = <<"findOwned", "off", "unmark">>
      PROVE  Piece(t, {"findOwned", "off", "unmark"})
  <2>1. /\ DOMAIN t = 1..3
        /\ t[1] = "findOwned" /\ t[2] = "off" /\ t[3] = "unmark"
    BY <1>9
  <2>2. <<"findOwned", "off", "unmark">> \in Seq(AllSteps)
    BY DEF AllSteps, UpdateSteps, RollbackSteps, RestoreSteps, InstallSteps, ServeSteps, RemoveSteps
  <2>3. \A i \in DOMAIN t : i \in Int /\ (i = 1 \/ i = 2 \/ i = 3)
    BY <2>1
  <2>4. Tidy(t)
    BY <2>1, <2>3 DEF Tidy, Before
  <2>5. Uses(t, {"findOwned", "off", "unmark"})
    BY <2>1, <2>3 DEF Uses
  <2>6. \A x \in {"findOwned", "off", "unmark"} : Has(t, x)
    BY <2>1 DEF Has
  <2> QED BY <1>9, <2>2, <2>4, <2>5, <2>6 DEF Piece
<1>10. ASSUME NEW t, t = <<"captureLoginEnv", "writeDaemon", "writeConfig", "writePlist", "bootstrap", "ready">>
      PROVE  Piece(t, {"captureLoginEnv", "writeDaemon", "writeConfig", "writePlist", "bootstrap", "ready"})
  <2>1. /\ DOMAIN t = 1..6
        /\ t[1] = "captureLoginEnv" /\ t[2] = "writeDaemon" /\ t[3] = "writeConfig"
        /\ t[4] = "writePlist" /\ t[5] = "bootstrap" /\ t[6] = "ready"
    BY <1>10
  <2>2. <<"captureLoginEnv", "writeDaemon", "writeConfig", "writePlist", "bootstrap", "ready">> \in Seq(AllSteps)
    BY DEF AllSteps, UpdateSteps, RollbackSteps, RestoreSteps, InstallSteps, ServeSteps, RemoveSteps
  <2>3. \A i \in DOMAIN t : i \in Int /\ (i = 1 \/ i = 2 \/ i = 3 \/ i = 4 \/ i = 5 \/ i = 6)
    BY <2>1
  <2>4. Tidy(t)
    BY <2>1, <2>3 DEF Tidy, Before
  <2>5. Uses(t, {"captureLoginEnv", "writeDaemon", "writeConfig", "writePlist", "bootstrap", "ready"})
    BY <2>1, <2>3 DEF Uses
  <2>6. \A x \in {"captureLoginEnv", "writeDaemon", "writeConfig", "writePlist", "bootstrap", "ready"} : Has(t, x)
    BY <2>1 DEF Has
  <2> QED BY <1>10, <2>2, <2>4, <2>5, <2>6 DEF Piece
<1> QED BY <1>1, <1>2, <1>3, <1>4, <1>5, <1>6, <1>7, <1>8, <1>9, <1>10, Zenon

LEMMA JoinPieces ==
  ASSUME NEW s, NEW t, NEW S, NEW T, Piece(s, S), Piece(t, T), Follows(S, T)
  PROVE  Piece(s \o t, S \cup T)
BY JoinSteps DEF Piece

LEMMA EmptyPiece == Piece(<<>>, {})
BY NoSteps DEF Piece

LEMMA PieceHas ==
  ASSUME NEW t, NEW S, Piece(t, S)
  PROVE  \A x : Has(t, x) <=> x \in S
BY DEF Piece, Has, Uses

\* A database is put back after a stop in each of two lists joined.
LEMMA JoinStops ==
  ASSUME NEW s \in Seq(AllSteps), NEW t \in Seq(AllSteps), StopFirst(s), StopFirst(t)
  PROVE  StopFirst(s \o t)
<1> DEFINE u == s \o t
<1>1. /\ Len(s) \in Nat /\ Len(t) \in Nat
      /\ DOMAIN s = 1..Len(s) /\ DOMAIN t = 1..Len(t) /\ DOMAIN u = 1..(Len(s) + Len(t))
  OBVIOUS
<1>2. \A i \in 1..(Len(s) + Len(t)) : u[i] = IF i <= Len(s) THEN s[i] ELSE t[i - Len(s)]
  OBVIOUS
<1> HIDE DEF u
<1> SUFFICES ASSUME NEW i \in DOMAIN u, u[i] = "restoreDb"
             PROVE  \E j \in DOMAIN u : j < i /\ u[j] = "stop"
  BY DEF StopFirst, u
<1>3. CASE i <= Len(s)
  <2>1. i \in DOMAIN s /\ s[i] = "restoreDb"
    BY <1>1, <1>2, <1>3
  <2>2. PICK j \in DOMAIN s : j < i /\ s[j] = "stop"
    BY <2>1 DEF StopFirst
  <2> QED BY <1>1, <1>2, <2>2
<1>4. CASE ~(i <= Len(s))
  <2>1. i - Len(s) \in DOMAIN t /\ t[i - Len(s)] = "restoreDb"
    BY <1>1, <1>2, <1>4
  <2>2. PICK j \in DOMAIN t : j < i - Len(s) /\ t[j] = "stop"
    BY <2>1 DEF StopFirst
  <2>3. j + Len(s) \in DOMAIN u /\ ~(j + Len(s) <= Len(s)) /\ (j + Len(s)) - Len(s) = j
    BY <1>1, <2>2
  <2>4. u[j + Len(s)] = "stop" /\ j + Len(s) < i
    BY <1>1, <1>2, <2>2, <2>3
  <2> QED BY <2>3, <2>4
<1> QED BY <1>3, <1>4

\* Putting a backup back starts with a stop.
LEMMA SwapBackStops == StopFirst(swapBack)
<1>1. DOMAIN swapBack = 1..6 /\ swapBack[1] = "stop" /\ 1 \in DOMAIN swapBack
  BY DEF swapBack
<1>2. swapBack[1] # "restoreDb" /\ \A i \in 1..6 : i # 1 => 1 < i
  BY <1>1
<1> QED BY <1>1, <1>2 DEF StopFirst

LEMMA NoRestoreStops ==
  ASSUME NEW t, ~Has(t, "restoreDb")
  PROVE  StopFirst(t)
BY DEF Has, StopFirst

\* The stages of an update.
LEMMA UpdatePlan ==
  ASSUME NEW c
  PROVE  LET t == stagesForMigrationClass(c)
         IN  /\ t \in Seq(AllSteps) /\ Tidy(t) /\ Uses(t, UpdateSteps)
             /\ Has(t, "stop") /\ Has(t, "backup") /\ Has(t, "swapDaemon") /\ Has(t, "start")
<1> DEFINE p == <<"preflight", "verify", "stop", "backup">>
           m == IF c = "binary_only" THEN <<>> ELSE <<"migrate">>
           r == IF c = "restore_required" THEN <<"reset">> ELSE <<>>
           q == <<"swapDaemon", "swapExtension", "start", "ready">>
           P == {"preflight", "verify", "stop", "backup"}
           Q == {"swapDaemon", "swapExtension", "start", "ready"}
           M == IF c = "binary_only" THEN {} ELSE {"migrate"}
           R == IF c = "restore_required" THEN {"reset"} ELSE {}
<1>1. Piece(p, P) /\ Piece(q, Q)
  BY Pieces
<1>2. Piece(m, M)
  BY EmptyPiece, SingleStep DEF AllSteps, UpdateSteps
<1>3. Piece(r, R)
  BY EmptyPiece, SingleStep DEF AllSteps, UpdateSteps
<1>4. Follows(P, M) /\ Follows(P \cup M, R) /\ Follows((P \cup M) \cup R, Q)
  BY DEF Follows
<1> HIDE DEF p, m, r, q, P, Q, M, R
<1>5. Piece(p \o m, P \cup M)
  BY <1>1, <1>2, <1>4, JoinPieces
<1>6. Piece((p \o m) \o r, (P \cup M) \cup R)
  BY <1>3, <1>4, <1>5, JoinPieces
<1>7. Piece(((p \o m) \o r) \o q, ((P \cup M) \cup R) \cup Q)
  BY <1>1, <1>4, <1>6, JoinPieces
<1>8. stagesForMigrationClass(c) = ((p \o m) \o r) \o q
  BY Zenon DEF stagesForMigrationClass, p, m, r, q
<1>9. ((P \cup M) \cup R) \cup Q \subseteq UpdateSteps
  BY DEF P, M, R, Q, UpdateSteps
<1>10. {"stop", "backup", "swapDaemon", "start"} \subseteq ((P \cup M) \cup R) \cup Q
  BY DEF P, Q
<1> QED BY <1>7, <1>8, <1>9, <1>10 DEF Piece, Uses

\* The stages of a rollback.
LEMMA RollbackPlan ==
  ASSUME NEW c
  PROVE  LET t == stagesForRollback(c)
         IN  /\ t \in Seq(AllSteps) /\ Tidy(t) /\ Uses(t, RollbackSteps) /\ StopFirst(t)
             /\ Has(t, "restoreConfig") /\ Has(t, "restoreDb") /\ Has(t, "start")
             /\ c = "restore_required" => Has(t, "reset")
<1> DEFINE p == <<"preflight", "find">>
           r == IF c = "restore_required" THEN <<"stop", "reset">> ELSE <<>>
           q == <<"start", "ready">>
           P == {"preflight", "find"}
           B == {"stop", "restoreConfig", "restorePlist", "restoreDaemon", "restoreExtension", "restoreDb"}
           R == IF c = "restore_required" THEN {"stop", "reset"} ELSE {}
           Q == {"start", "ready"}
<1>1. Piece(p, P) /\ Piece(q, Q)
  BY Pieces
<1>2. Piece(swapBack, B)
  BY Pieces DEF swapBack
<1>3. Piece(r, R)
  BY EmptyPiece, Pieces
<1>4. Follows(P, B) /\ Follows(P \cup B, R) /\ Follows((P \cup B) \cup R, Q)
  BY DEF Follows
<1>11. ~Has(p, "restoreDb") /\ ~Has(r, "restoreDb") /\ ~Has(q, "restoreDb")
  BY <1>1, <1>3, PieceHas
<1>9. ((P \cup B) \cup R) \cup Q \subseteq RollbackSteps
  BY DEF RollbackSteps, RestoreSteps
<1>10. /\ {"restoreConfig", "restoreDb", "start"} \subseteq ((P \cup B) \cup R) \cup Q
       /\ c = "restore_required" => "reset" \in ((P \cup B) \cup R) \cup Q
  OBVIOUS
<1>12. stagesForRollback(c) = ((p \o swapBack) \o r) \o q
  BY Zenon DEF stagesForRollback
<1> HIDE DEF p, r, q, P, B, Q, R
<1>5. Piece(p \o swapBack, P \cup B)
  BY <1>1, <1>2, <1>4, JoinPieces
<1>6. Piece((p \o swapBack) \o r, (P \cup B) \cup R)
  BY <1>3, <1>4, <1>5, JoinPieces
<1>7. Piece(((p \o swapBack) \o r) \o q, ((P \cup B) \cup R) \cup Q)
  BY <1>1, <1>4, <1>6, JoinPieces
<1>8. StopFirst(((p \o swapBack) \o r) \o q)
  <2>1. StopFirst(p) /\ StopFirst(r) /\ StopFirst(q)
    BY <1>11, NoRestoreStops
  <2>2. p \in Seq(AllSteps) /\ r \in Seq(AllSteps) /\ q \in Seq(AllSteps) /\ swapBack \in Seq(AllSteps)
    BY <1>1, <1>2, <1>3 DEF Piece
  <2>3. StopFirst(p \o swapBack)
    BY <2>1, <2>2, SwapBackStops, JoinStops
  <2>4. StopFirst((p \o swapBack) \o r)
    BY <1>5, <2>1, <2>2, <2>3, JoinStops DEF Piece
  <2> QED BY <1>6, <2>1, <2>2, <2>4, JoinStops DEF Piece
<1> QED BY <1>7, <1>8, <1>9, <1>10, <1>12 DEF Piece, Uses

\* The two hooks of an update that failed.
LEMMA RestorePlan ==
  ASSUME NEW c
  PROVE  LET t == restoreHook(c)
         IN  /\ t \in Seq(AllSteps) /\ Tidy(t) /\ Uses(t, RestoreSteps) /\ StopFirst(t)
             /\ Has(t, "restoreDaemon") /\ Has(t, "restoreConfig") /\ Has(t, "restoreDb")
             /\ c # "restore_required" => Has(t, "start")
<1> DEFINE q == IF c = "restore_required" THEN <<>> ELSE <<"start", "ready">>
           B == {"stop", "restoreConfig", "restorePlist", "restoreDaemon", "restoreExtension", "restoreDb"}
           Q == IF c = "restore_required" THEN {} ELSE {"start", "ready"}
<1>1. Piece(swapBack, B)
  BY Pieces DEF swapBack
<1>2. Piece(q, Q)
  BY EmptyPiece, Pieces
<1>3. Follows(B, Q)
  BY DEF Follows
<1>4. ~Has(q, "restoreDb")
  BY <1>2, PieceHas
<1>5. /\ B \cup Q \subseteq RestoreSteps
      /\ {"restoreDaemon", "restoreConfig", "restoreDb"} \subseteq B \cup Q
      /\ c # "restore_required" => "start" \in B \cup Q
  BY DEF RestoreSteps
<1>6. restoreHook(c) = swapBack \o q
  BY Zenon DEF restoreHook
<1> HIDE DEF q, B, Q
<1>7. Piece(swapBack \o q, B \cup Q)
  BY <1>1, <1>2, <1>3, JoinPieces
<1>8. StopFirst(swapBack \o q)
  BY <1>1, <1>2, <1>4, SwapBackStops, NoRestoreStops, JoinStops DEF Piece
<1> QED BY <1>5, <1>6, <1>7, <1>8 DEF Piece, Uses

LEMMA ResetPlan ==
  /\ resetHook \in Seq(AllSteps) /\ Tidy(resetHook) /\ Uses(resetHook, ResetSteps)
  /\ Has(resetHook, "reset") /\ Has(resetHook, "start") /\ ~Has(resetHook, "restoreDb")
<1>1. Piece(resetHook, ResetSteps)
  BY Pieces DEF resetHook, ResetSteps
<1>2. "reset" \in ResetSteps /\ "start" \in ResetSteps /\ "restoreDb" \notin ResetSteps
  BY DEF ResetSteps
<1> QED BY <1>1, <1>2, PieceHas DEF Piece

\* The steps of an install, with and without the probe of setup before them.
LEMMA InstallPlan ==
  ASSUME NEW t \in {installSteps, <<"preflight">> \o installSteps}
  PROVE  /\ t \in Seq(AllSteps) /\ Tidy(t) /\ Uses(t, InstallSteps)
         /\ Has(t, "writeDaemon") /\ Has(t, "list")
<1> DEFINE w == <<"captureLoginEnv", "writeDaemon", "writeConfig", "writePlist", "bootstrap", "ready">>
           W == {"captureLoginEnv", "writeDaemon", "writeConfig", "writePlist", "bootstrap", "ready"}
           L == {"list", "set", "mark"}
           P == {"preflight"}
<1>1. Piece(w, W)
  BY Pieces
<1>2. Piece(applyServeRoute, L)
  BY Pieces DEF applyServeRoute
<1>3. Piece(<<"preflight">>, P)
  BY SingleStep DEF AllSteps, UpdateSteps
<1>4. Follows(W, L) /\ Follows(P, W \cup L)
  BY DEF Follows
<1>5. installSteps = w \o applyServeRoute
  BY Zenon DEF installSteps
<1>6. /\ W \cup L \subseteq InstallSteps /\ P \cup (W \cup L) \subseteq InstallSteps
      /\ "writeDaemon" \in W \cup L /\ "list" \in W \cup L
  BY DEF InstallSteps
<1> HIDE DEF w, W, L, P
<1>7. Piece(installSteps, W \cup L)
  BY <1>1, <1>2, <1>4, <1>5, JoinPieces
<1>8. Piece(<<"preflight">> \o installSteps, P \cup (W \cup L))
  BY <1>3, <1>4, <1>7, JoinPieces
<1> QED BY <1>6, <1>7, <1>8 DEF Piece, Uses

\* The steps of serve, and of start with and without a running daemon.
LEMMA ServePlan ==
  ASSUME NEW b \in BOOLEAN,
         NEW t \in {applyServeRoute, (IF b THEN <<>> ELSE <<"start", "ready">>) \o applyServeRoute}
  PROVE  t \in Seq(AllSteps) /\ Tidy(t) /\ Uses(t, ServeSteps) /\ Has(t, "list")
<1> DEFINE q == IF b THEN <<>> ELSE <<"start", "ready">>
           Q == IF b THEN {} ELSE {"start", "ready"}
           L == {"list", "set", "mark"}
<1>1. Piece(q, Q)
  BY EmptyPiece, Pieces
<1>2. Piece(applyServeRoute, L)
  BY Pieces DEF applyServeRoute
<1>3. Follows(Q, L)
  BY DEF Follows
<1>4. L \subseteq ServeSteps /\ Q \cup L \subseteq ServeSteps /\ "list" \in L
  BY DEF ServeSteps
<1> HIDE DEF q, Q, L
<1>5. Piece(q \o applyServeRoute, Q \cup L)
  BY <1>1, <1>2, <1>3, JoinPieces
<1>6. t = applyServeRoute \/ t = q \o applyServeRoute
  BY DEF q
<1> QED BY <1>2, <1>4, <1>5, <1>6 DEF Piece, Uses

\* The steps of stop and of uninstall.
LEMMA RemovePlan ==
  ASSUME NEW t \in {<<"stop">> \o removeOwnedServeRoute,
                    <<"stop">> \o removeOwnedServeRoute \o <<"remove">>}
  PROVE  t \in Seq(AllSteps) /\ Tidy(t) /\ Uses(t, RemoveSteps)
<1> DEFINE S == {"stop"}
           L == {"findOwned", "off", "unmark"}
           R == {"remove"}
<1>1. Piece(<<"stop">>, S) /\ Piece(<<"remove">>, R)
  BY SingleStep DEF AllSteps, UpdateSteps, RemoveSteps
<1>2. Piece(removeOwnedServeRoute, L)
  BY Pieces DEF removeOwnedServeRoute
<1>3. Follows(S, L) /\ Follows(S \cup L, R)
  BY DEF Follows
<1>4. S \cup L \subseteq RemoveSteps /\ (S \cup L) \cup R \subseteq RemoveSteps
  BY DEF RemoveSteps
<1> HIDE DEF S, L, R
<1>5. Piece(<<"stop">> \o removeOwnedServeRoute, S \cup L)
  BY <1>1, <1>2, <1>3, JoinPieces
<1>6. Piece(<<"stop">> \o removeOwnedServeRoute \o <<"remove">>, (S \cup L) \cup R)
  BY <1>1, <1>3, <1>5, JoinPieces
<1> QED BY <1>4, <1>5, <1>6 DEF Piece, Uses

-----------------------------------------------------------------------------
(* The command under way.                                                  *)

LEMMA IdleType == Idle \in Cli
<1>1. Nobody \in [Ports -> Route]
  BY DEF Nobody, Route
<1>2. <<>> \in Seq(AllSteps)
  OBVIOUS
<1>3. [files |-> None, events |-> {}] \in [files : Files \cup {None}, events : SUBSET (1 .. MaxEvents)]
  OBVIOUS
<1> QED BY <1>1, <1>2, <1>3 DEF Idle, Cli, Op

\* A new command.
LEMMA BeginType ==
  ASSUME NEW op \in Op, NEW t \in Seq(AllSteps)
  PROVE  LET c == Begin(op, t)
         IN  /\ c \in Cli /\ c.op = op /\ c.todo = t /\ c.phase = "run"
             /\ ~c.ok /\ ~c.rolledBack /\ ~c.resetDone /\ c.backup = 0
BY IdleType DEF Begin, Idle, Cli

\* What a command is about does not change when a phase of it ends.
Same(c, d) ==
  /\ d.op = c.op /\ d.cls = c.cls /\ d.target = c.target /\ d.port = c.port
  /\ d.backup = c.backup /\ d.listed = c.listed /\ d.before = c.before

LEMMA ResetNextCli ==
  ASSUME NEW c \in Cli
  PROVE  LET d == ResetNext(c)
         IN  /\ d \in Cli /\ Same(c, d)
             /\ d.ok = c.ok /\ d.rolledBack = c.rolledBack /\ d.resetDone = c.resetDone
             /\ c.cls = "restore_required" => d.phase = "reset" /\ d.todo = resetHook
             /\ c.cls # "restore_required" => d.phase = "report" /\ d.todo = <<>>
<1>1. resetHook \in Seq(AllSteps) /\ <<>> \in Seq(AllSteps)
  BY ResetPlan
<1>2. CASE c.cls = "restore_required"
  <2>1. ResetNext(c) = [c EXCEPT !.phase = "reset", !.todo = resetHook]
    BY <1>2 DEF ResetNext
  <2> QED BY <1>1, <1>2, <2>1 DEF Cli, Same
<1>3. CASE c.cls # "restore_required"
  <2>1. ResetNext(c) = [c EXCEPT !.phase = "report", !.todo = <<>>]
    BY <1>3 DEF ResetNext
  <2> QED BY <1>1, <1>3, <2>1 DEF Cli, Same
<1> QED BY <1>2, <1>3

LEMMA FailedCli ==
  ASSUME NEW c \in Cli
  PROVE  LET d == Failed(c)
         IN  /\ d \in Cli /\ Same(c, d)
             /\ d.ok = c.ok /\ d.rolledBack = c.rolledBack /\ d.resetDone = c.resetDone
             /\ c.op = "update" /\ c.phase = "run" /\ c.backup # 0 =>
                  d.phase = "restore" /\ d.todo = restoreHook(c.cls)
             /\ c.op = "update" /\ c.phase = "run" /\ c.backup = 0 => d = ResetNext(c)
             /\ c.phase = "restore" => d = ResetNext(c)
             /\ ~(c.op = "update" /\ c.phase = "run") /\ c.phase # "restore" =>
                  d.phase = "report" /\ d.todo = <<>>
<1>1. restoreHook(c.cls) \in Seq(AllSteps) /\ <<>> \in Seq(AllSteps)
  BY RestorePlan
<1>2. CASE c.op = "update" /\ c.phase = "run" /\ c.backup # 0
  <2>1. Failed(c) = [c EXCEPT !.phase = "restore", !.todo = restoreHook(c.cls)]
    BY <1>2 DEF Failed
  <2> QED BY <1>1, <1>2, <2>1 DEF Cli, Same
<1>3. CASE (c.op = "update" /\ c.phase = "run" /\ c.backup = 0) \/ c.phase = "restore"
  <2>1. Failed(c) = ResetNext(c)
    BY <1>3 DEF Failed
  <2> QED BY <1>3, <2>1, ResetNextCli
<1>4. CASE ~(c.op = "update" /\ c.phase = "run") /\ c.phase # "restore"
  <2>1. Failed(c) = [c EXCEPT !.phase = "report", !.todo = <<>>]
    BY <1>4 DEF Failed
  <2> QED BY <1>1, <1>4, <2>1 DEF Cli, Same
<1> QED BY <1>2, <1>3, <1>4

LEMMA SucceededCli ==
  ASSUME NEW c \in Cli
  PROVE  LET d == Succeeded(c)
         IN  /\ d \in Cli /\ Same(c, d)
             /\ c.phase = "run" =>
                  /\ d.phase = "report" /\ d.todo = c.todo /\ d.ok
                  /\ d.rolledBack = c.rolledBack /\ d.resetDone = c.resetDone
             /\ c.phase = "restore" =>
                  /\ d.rolledBack /\ d.ok = c.ok /\ d.resetDone = c.resetDone
                  /\ c.cls = "restore_required" => d.phase = "reset" /\ d.todo = resetHook
                  /\ c.cls # "restore_required" => d.phase = "report" /\ d.todo = <<>>
             /\ c.phase = "reset" =>
                  /\ d.phase = "report" /\ d.todo = c.todo /\ d.resetDone
                  /\ d.rolledBack = c.rolledBack /\ d.ok = c.ok
<1>1. CASE c.phase = "run"
  <2>1. Succeeded(c) = [c EXCEPT !.phase = "report", !.ok = TRUE]
    BY <1>1 DEF Succeeded
  <2> QED BY <1>1, <2>1 DEF Cli, Same
<1>2. CASE c.phase = "restore"
  <2> DEFINE e == [c EXCEPT !.rolledBack = TRUE]
  <2>1. Succeeded(c) = ResetNext(e)
    BY <1>2 DEF Succeeded
  <2>2. e \in Cli /\ Same(c, e) /\ e.rolledBack /\ e.ok = c.ok /\ e.resetDone = c.resetDone
    BY DEF Cli, Same
  <2> HIDE DEF e
  <2> QED BY <1>2, <2>1, <2>2, ResetNextCli DEF Same
<1>3. CASE c.phase \notin {"run", "restore"}
  <2>1. Succeeded(c) = [c EXCEPT !.phase = "report", !.resetDone = TRUE]
    BY <1>3 DEF Succeeded
  <2> QED BY <1>3, <2>1 DEF Cli, Same
<1> QED BY <1>1, <1>2, <1>3

\* The first step of the command is done.
LEMMA StepTail ==
  ASSUME TypeInv, PlanInv, NEW x, At(x)
  PROVE  LET t == Tail(cli.todo)
             S == StepsOf(cli.op, cli.phase)
         IN  /\ t \in Seq(AllSteps) /\ Tidy(t) /\ Uses(t, S) /\ x \in S
             /\ cli.op # "none" /\ cli.phase # "report"
             /\ \A y : Has(cli.todo, y) <=> (y = x \/ Has(t, y))
             /\ x = "start" => /\ ~Has(t, "stop") /\ ~Has(t, "backup") /\ ~Has(t, "restoreDb")
                               /\ ~Has(t, "start")
             /\ x = "backup" => ~Has(t, "stop") /\ ~Has(t, "backup")
             /\ x = "reset" => ~Has(t, "restoreDb") /\ ~Has(t, "reset")
             /\ x \in {"swapDaemon", "swapExtension"} => ~Has(t, "backup")
             /\ x = "writeConfig" => ~Has(t, "writeDaemon")
             /\ x = "set" => ~Has(t, "list")
             /\ StopFirst(cli.todo) => x # "restoreDb" /\ (x # "stop" => StopFirst(t))
<1>1. cli.todo \in Seq(AllSteps) /\ cli.todo # <<>> /\ Head(cli.todo) = x
  BY DEF TypeInv, Cli, At
<1>2. Tidy(cli.todo) /\ Uses(cli.todo, StepsOf(cli.op, cli.phase))
  BY DEF PlanInv
<1>3. x \in StepsOf(cli.op, cli.phase)
  BY <1>1, <1>2, TailSteps
<1>4. cli.phase # "report" /\ cli.op # "none"
  BY <1>3 DEF StepsOf, PlanInv
<1>5. Tail(cli.todo) \in Seq(AllSteps) /\ Uses(Tail(cli.todo), StepsOf(cli.op, cli.phase))
  BY <1>1, <1>2, TailSteps
<1>6. \A y : Has(cli.todo, y) <=> (y = x \/ Has(Tail(cli.todo), y))
  BY <1>1, TailSteps
<1>7. \A a, b : Before(cli.todo, a, b) => Before(Tail(cli.todo), a, b) /\ (x = b => ~Has(Tail(cli.todo), a))
  BY <1>1, TailSteps
<1>8. StopFirst(cli.todo) => x # "restoreDb" /\ (x # "stop" => StopFirst(Tail(cli.todo)))
  BY <1>1, TailSteps
<1>9. Tidy(Tail(cli.todo))
  BY <1>2, <1>7 DEF Tidy
<1>10. /\ x = "start" => /\ ~Has(Tail(cli.todo), "stop") /\ ~Has(Tail(cli.todo), "backup")
                          /\ ~Has(Tail(cli.todo), "restoreDb") /\ ~Has(Tail(cli.todo), "start")
       /\ x = "backup" => ~Has(Tail(cli.todo), "stop") /\ ~Has(Tail(cli.todo), "backup")
       /\ x = "reset" => ~Has(Tail(cli.todo), "restoreDb") /\ ~Has(Tail(cli.todo), "reset")
       /\ x \in {"swapDaemon", "swapExtension"} => ~Has(Tail(cli.todo), "backup")
       /\ x = "writeConfig" => ~Has(Tail(cli.todo), "writeDaemon")
       /\ x = "set" => ~Has(Tail(cli.todo), "list")
  BY <1>2, <1>7 DEF Tidy
<1> QED BY <1>3, <1>4, <1>5, <1>6, <1>8, <1>9, <1>10

\* With nothing left to do, no step is left.
LEMMA NothingLeft ==
  ASSUME cli.todo = <<>>
  PROVE  \A x : ~Has(cli.todo, x)
BY NoSteps

LEMMA DoneCli ==
  ASSUME TypeInv, cli.todo # <<>>
  PROVE  /\ Done \in Cli /\ Same(cli, Done) /\ Done.todo = Tail(cli.todo) /\ Done.phase = cli.phase
         /\ Done.ok = cli.ok /\ Done.rolledBack = cli.rolledBack /\ Done.resetDone = cli.resetDone
<1>1. cli \in Cli
  BY DEF TypeInv
<1>2. Tail(cli.todo) \in Seq(AllSteps)
  BY <1>1, TailSteps DEF Cli
<1>3. Done = [cli EXCEPT !.todo = Tail(cli.todo)]
  BY <1>1 DEF Done, Cli
<1> QED BY <1>1, <1>2, <1>3 DEF Cli, Same

-----------------------------------------------------------------------------
(* Types.                                                                  *)

\* A store with room has a number no event has yet.
LEMMA FreshEvent ==
  ASSUME NEW S \in SUBSET (1 .. MaxEvents), Cardinality(S) < MaxEvents
  PROVE  \E n \in 1 .. MaxEvents : n \notin S
<1>1. MaxEvents \in Nat
  BY ReleasesAssumption
<1>2. Cardinality(1 .. MaxEvents) = MaxEvents
  BY <1>1, FS_Interval
<1>3. S # 1 .. MaxEvents
  BY <1>1, <1>2
<1> QED BY <1>3

LEMMA CommitEvent ==
  ASSUME TypeInv, Commit
  PROVE  \E e \in 1 .. MaxEvents :
           wal' = IF wal.added = {} THEN [base |-> db.events, added |-> {e}]
                  ELSE [wal EXCEPT !.added = @ \cup {e}]
<1> DEFINE e == CHOOSE n \in 1 .. MaxEvents : n \notin Committed
<1>1. Committed \in SUBSET (1 .. MaxEvents)
  BY DEF TypeInv, Db, Wal, Committed
<1>2. Cardinality(Committed) < MaxEvents
  BY DEF Commit
<1>3. e \in 1 .. MaxEvents
  BY <1>1, <1>2, FreshEvent
<1>4. wal' = IF wal.added = {} THEN [base |-> db.events, added |-> {e}]
             ELSE [wal EXCEPT !.added = @ \cup {e}]
  BY DEF Commit
<1> HIDE DEF e
<1> QED BY <1>3, <1>4

LEMMA StoreTypes ==
  ASSUME NEW d \in Db, NEW w \in Wal
  PROVE  /\ [d EXCEPT !.events = @ \cup w.added] \in Db
         /\ [base |-> d.events, added |-> {}] \in Wal
         /\ \A b \in BOOLEAN : [d EXCEPT !.damaged = b] \in Db
         /\ [d EXCEPT !.gen = @ + 1] \in Db
BY DEF Db, Wal

LEMMA TypeInit == Init => TypeInv
<1> SUFFICES ASSUME Init PROVE TypeInv
  OBVIOUS
<1>1. files \in Files /\ db \in Db /\ wal \in Wal
  BY DEF Init, Files, Db, Wal
<1>2. routes \in [Ports -> Route]
  BY DEF Init, Nobody, Route
<1>3. backups \in Seq([files : Files, db : Db]) /\ cli \in Cli
  BY IdleType DEF Init
<1>4. /\ loaded \in BOOLEAN /\ marker \in Ports \cup {None}
      /\ sessions \in BOOLEAN /\ hardKilled \in BOOLEAN
  BY DEF Init
<1> QED BY <1>1, <1>2, <1>3, <1>4 DEF TypeInv

\* A command begins.
LEMMA TypeCommand ==
  ASSUME TypeInv, Command
  PROVE  TypeInv'
<1>1. SUFFICES cli' \in Cli
  BY DEF TypeInv, Command, handleInstall, handleSetup, handleStart, handleStop, handleServe,
         handleUpdate, handleRollback, handleUninstall
<1>2. ASSUME NEW v \in Versions \ Bad, NEW port \in Ports, handleInstall(v, port) \/ handleSetup(v, port)
      PROVE  cli' \in Cli
  <2>1. PICK t \in {installSteps, <<"preflight">> \o installSteps} :
               cli' = [Begin("install", t) EXCEPT !.target = v, !.port = port]
    BY <1>2 DEF handleInstall, handleSetup
  <2>2. Begin("install", t) \in Cli
    BY InstallPlan, BeginType DEF Op
  <2> QED BY <2>1, <2>2 DEF Cli
<1>3. CASE handleStart
  <2> DEFINE t == (IF loaded THEN <<>> ELSE <<"start", "ready">>) \o applyServeRoute
  <2>1. Begin("start", t) \in Cli
    BY ServePlan, BeginType DEF Op, TypeInv
  <2>2. cli' = [Begin("start", t) EXCEPT !.port = files.config.port] /\ files.config.port \in Ports
    BY <1>3 DEF handleStart, TypeInv, Files
  <2> HIDE DEF t
  <2> QED BY <2>1, <2>2 DEF Cli
<1>4. CASE handleStop
  BY <1>4, RemovePlan, BeginType DEF Op, handleStop
<1>5. ASSUME NEW port \in Ports, handleServe(port) PROVE cli' \in Cli
  <2>1. Begin("serve", applyServeRoute) \in Cli
    BY ServePlan, BeginType DEF Op
  <2> QED BY <1>5, <2>1 DEF handleServe, Cli
<1>6. ASSUME NEW v \in Versions, NEW c \in Class, handleUpdate(v, c) PROVE cli' \in Cli
  <2>1. Begin("update", stagesForMigrationClass(c)) \in Cli
    BY UpdatePlan, BeginType DEF Op
  <2>2. [files |-> files, events |-> Committed] \in [files : Files \cup {None}, events : SUBSET (1 .. MaxEvents)]
    BY DEF TypeInv, Committed, Db, Wal
  <2> QED BY <1>6, <2>1, <2>2 DEF handleUpdate, Cli
<1>7. ASSUME NEW b \in 1 .. MaxBackups, NEW c \in Class, handleRollback(b, c) PROVE cli' \in Cli
  <2>1. Begin("rollback", stagesForRollback(c)) \in Cli
    BY RollbackPlan, BeginType DEF Op
  <2>2. b \in Nat
    BY ReleasesAssumption
  <2> QED BY <1>7, <2>1, <2>2 DEF handleRollback, Cli
<1>8. ASSUME NEW mode \in Mode, NEW optIn \in BOOLEAN, handleUninstall(mode, optIn) PROVE cli' \in Cli
  <2>1. Begin("uninstall", <<"stop">> \o removeOwnedServeRoute \o <<"remove">>) \in Cli
    BY RemovePlan, BeginType DEF Op
  <2> QED BY <1>8, <2>1 DEF handleUninstall, Cli
<1> QED BY <1>2, <1>3, <1>4, <1>5, <1>6, <1>7, <1>8 DEF Command

\* A step of the command under way.
LEMMA StepOwner ==
  ASSUME TypeInv, PlanInv, NEW x, At(x)
  PROVE  /\ x \in {"writeDaemon", "writeConfig", "writePlist", "captureLoginEnv", "bootstrap"} => cli.op = "install"
         /\ x \in {"list", "set", "mark"} => cli.op \in {"install", "start", "serve"}
         /\ x \in {"findOwned", "off", "unmark", "remove"} => cli.op \in {"stop", "uninstall"}
         /\ x \in {"backup", "migrate", "swapDaemon", "swapExtension", "verify"} =>
              cli.op = "update" /\ cli.phase = "run"
         /\ x \in {"restoreConfig", "restorePlist", "restoreDaemon", "restoreExtension", "restoreDb"} =>
              (cli.op = "rollback" /\ cli.phase = "run") \/ (cli.op = "update" /\ cli.phase = "restore")
         /\ x = "reset" => \/ cli.op = "update" /\ cli.phase \in {"run", "reset"}
                           \/ cli.op = "rollback" /\ cli.phase = "run"
         /\ cli.phase = "run" \/ cli.op = "update"
<1>1. x \in StepsOf(cli.op, cli.phase) /\ cli.op # "none" /\ cli.phase # "report"
  BY StepTail
<1>2. cli.op \in Op /\ cli.phase \in {"run", "restore", "reset", "report"}
  BY DEF TypeInv, Cli
<1>3. cli.phase = "run" \/ cli.op = "update"
  BY <1>1, <1>2 DEF PlanInv
<1> QED BY <1>1, <1>2, <1>3 DEF StepsOf, Op, UpdateSteps, RestoreSteps, RollbackSteps, ResetSteps,
                              InstallSteps, ServeSteps, RemoveSteps

\* What a backup holds.
LEMMA BackupType ==
  ASSUME NEW B \in Seq([files : Files, db : Db]), NEW b \in DOMAIN B
  PROVE  B[b].files \in Files /\ B[b].db \in Db
<1>1. ASSUME NEW R, NEW s \in Seq(R), NEW i \in DOMAIN s PROVE s[i] \in R
  OBVIOUS
<1>2. B[b] \in [files : Files, db : Db]
  BY <1>1, Zenon
<1> QED BY <1>2

LEMMA TypeQuiet ==
  ASSUME TypeInv, preflight \/ verifyTarget \/ verifyBackup \/ verifyRunning \/ captureLoginEnv
  PROVE  TypeInv'
<1>1. cli' = Done /\ cli.todo # <<>>
  BY DEF preflight, verifyTarget, verifyBackup, verifyRunning, captureLoginEnv, At
<1>2. cli' \in Cli
  BY <1>1, DoneCli
<1>3. UNCHANGED <<files, db, wal, loaded, backups, routes, marker, sessions, hardKilled>>
  BY DEF preflight, verifyTarget, verifyBackup, verifyRunning, captureLoginEnv
<1> QED BY <1>2, <1>3 DEF TypeInv

LEMMA TypeStore ==
  ASSUME TypeInv,
         \/ \E killed \in BOOLEAN : stop(killed)
         \/ backup \/ migrate \/ generationReset \/ start \/ startThrows \/ bootstrap \/ restoreDb
  PROVE  TypeInv'
<1>1. Closed(db) \in Db /\ EmptyLog(db) \in Wal /\ Opened(db) \in Db
  BY StoreTypes DEF TypeInv, Closed, EmptyLog, Opened, Db
<1>2. \A d \in Db : EmptyLog(d) \in Wal
  BY StoreTypes DEF EmptyLog, TypeInv
<1>3. cli.todo # <<>> => Done \in Cli
  BY DoneCli
<1>4. ASSUME NEW killed \in BOOLEAN, stop(killed) PROVE TypeInv'
  <2>1. db' \in Db /\ wal' \in Wal
    BY <1>1, <1>2, <1>4 DEF stop, TypeInv
  <2>2. cli' \in Cli /\ loaded' \in BOOLEAN /\ hardKilled' \in BOOLEAN
    BY <1>3, <1>4 DEF stop, At, TypeInv
  <2> QED BY <1>4, <2>1, <2>2 DEF stop, TypeInv
<1>5. CASE backup
  <2>1. backups' \in Seq([files : Files, db : Db])
    BY <1>5 DEF backup, TypeInv
  <2>2. Done \in Cli /\ Len(backups) + 1 \in Nat
    BY <1>3, <1>5 DEF backup, At, TypeInv
  <2>3. cli' \in Cli
    BY <1>5, <2>2 DEF backup, Cli
  <2> QED BY <1>5, <2>1, <2>3 DEF backup, TypeInv
<1>6. CASE migrate
  <2>1. db' \in Db /\ wal' \in Wal
    BY <1>1, <1>2, <1>6 DEF migrate, TypeInv
  <2> QED BY <1>3, <1>6, <2>1 DEF migrate, At, TypeInv
<1>7. CASE generationReset
  <2>1. (IF loaded THEN db ELSE Closed(db)) \in Db
    BY <1>1 DEF TypeInv
  <2>2. db' \in Db
    BY <1>7, <2>1, StoreTypes DEF generationReset, TypeInv
  <2>3. wal' \in Wal
    BY <1>2, <1>7, <2>2 DEF generationReset, TypeInv
  <2> QED BY <1>3, <1>7, <2>2, <2>3 DEF generationReset, At, TypeInv
<1>8. CASE start
  BY <1>1, <1>3, <1>8 DEF start, At, TypeInv
<1>9. CASE startThrows
  <2>1. Failed(cli) \in Cli
    BY FailedCli DEF TypeInv
  <2> QED BY <1>1, <1>9, <2>1 DEF startThrows, TypeInv
<1>10. CASE bootstrap
  BY <1>1, <1>3, <1>10 DEF bootstrap, At, TypeInv
<1>11. CASE restoreDb
  <2>1. db' \in Db
    BY <1>11, BackupType DEF restoreDb, TypeInv
  <2>2. wal' \in Wal
    BY <1>2, <1>11, <2>1 DEF restoreDb, TypeInv
  <2> QED BY <1>3, <1>11, <2>1, <2>2 DEF restoreDb, At, TypeInv
<1> QED BY <1>4, <1>5, <1>6, <1>7, <1>8, <1>9, <1>10, <1>11

\* The four files of a backup that are put back.
RestoreStep == restoreFile("restoreConfig", "config") \/ restoreFile("restorePlist", "plist")
                 \/ restoreFile("restoreDaemon", "daemon") \/ restoreFile("restoreExtension", "extension")

LEMMA TypeFiles ==
  ASSUME TypeInv, PlanInv,
         swapDaemon \/ swapExtension \/ RestoreStep \/ writeDaemon \/ writeConfig \/ writePlist \/ remove
  PROVE  TypeInv'
<1>1. cli.todo # <<>> => Done \in Cli
  BY DoneCli
<1>2. cli.target \in Versions \cup {None} /\ files \in Files
  BY DEF TypeInv, Cli
<1>3. CASE swapDaemon \/ writeDaemon
  <2>1. files' \in Files
    BY <1>2, <1>3 DEF swapDaemon, writeDaemon, Files
  <2> QED BY <1>1, <1>3, <2>1 DEF swapDaemon, writeDaemon, At, TypeInv
<1>4. CASE swapExtension
  <2>1. files' \in Files
    BY <1>2, <1>4 DEF swapExtension, Files
  <2> QED BY <1>1, <1>4, <2>1 DEF swapExtension, At, TypeInv
<1>5. CASE RestoreStep
  <2>1. cli.backup \in DOMAIN backups
    BY <1>5 DEF RestoreStep, restoreFile
  <2>2. backups[cli.backup].files \in Files
    BY <2>1, BackupType DEF TypeInv
  <2>3. files' \in Files
    BY <1>2, <1>5, <2>2 DEF RestoreStep, restoreFile, Files
  <2> QED BY <1>1, <1>5, <2>3 DEF RestoreStep, restoreFile, At, TypeInv
<1>6. CASE writeConfig
  <2>1. cli.op = "install"
    BY <1>6, StepOwner DEF writeConfig
  <2>2. cli.target \in Versions /\ cli.port \in Ports
    BY <2>1 DEF PlanInv
  <2>3. files' \in Files
    BY <1>2, <1>6, <2>2 DEF writeConfig, Files
  <2> QED BY <1>1, <1>6, <2>3 DEF writeConfig, At, TypeInv
<1>7. CASE writePlist
  <2>1. files' \in Files
    BY <1>2, <1>7 DEF writePlist, Files
  <2> QED BY <1>1, <1>7, <2>1 DEF writePlist, At, TypeInv
<1>8. CASE remove
  <2>1. files' \in Files
    BY <1>2, <1>8 DEF remove, Files
  <2>2. db' \in Db /\ wal' \in Wal
    <3>1. [gen |-> 1, events |-> {}, damaged |-> FALSE] \in Db /\ [base |-> {}, added |-> {}] \in Wal
      BY DEF Db, Wal
    <3> QED BY <1>8, <3>1 DEF remove, TypeInv
  <2>3. backups' \in Seq([files : Files, db : Db]) /\ marker' \in Ports \cup {None}
    <3>1. CASE cli.mode = "retain_data"
      BY <1>8, <3>1 DEF remove, TypeInv
    <3>2. CASE cli.mode # "retain_data"
      BY <1>8, <3>2 DEF remove
    <3> QED BY <3>1, <3>2
  <2>4. sessions' \in BOOLEAN
    BY <1>8 DEF remove, TypeInv
  <2> QED BY <1>1, <1>8, <2>1, <2>2, <2>3, <2>4 DEF remove, At, TypeInv
<1> QED BY <1>3, <1>4, <1>5, <1>6, <1>7, <1>8

LEMMA TypeRoutes ==
  ASSUME TypeInv, listRoutes \/ setRoutes \/ mark \/ findOwned \/ off \/ unmark
  PROVE  TypeInv'
<1>1. cli.todo # <<>> /\ Done \in Cli
  BY DoneCli DEF listRoutes, setRoutes, mark, findOwned, off, unmark, At
<1>2. cli \in Cli /\ cli.port \in Ports \cup {None} /\ cli.todo \in Seq(AllSteps) /\ routes \in [Ports -> Route]
  BY DEF TypeInv, Cli
<1>3. cli' \in Cli
  <2>1. CASE setRoutes \/ mark \/ unmark
    BY <1>1, <2>1 DEF setRoutes, mark, unmark
  <2>2. CASE listRoutes
    BY <1>1, <1>2, <2>2 DEF listRoutes, Cli
  <2>3. CASE findOwned
    <3>1. SubSeq(cli.todo, 4, Len(cli.todo)) \in Seq(AllSteps)
      BY <1>2, LaterSteps
    <3>2. [cli EXCEPT !.todo = SubSeq(cli.todo, 4, Len(cli.todo))] \in Cli
      BY <1>2, <3>1 DEF Cli
    <3>3. [Done EXCEPT !.listed = routes, !.port = marker] \in Cli
      BY <1>1, <1>2 DEF Cli, TypeInv
    <3> QED BY <1>2, <2>3, <3>2, <3>3 DEF findOwned, Cli
  <2>4. CASE off
    <3>1. SubSeq(cli.todo, 3, Len(cli.todo)) \in Seq(AllSteps)
      BY <1>2, LaterSteps
    <3>2. [cli EXCEPT !.todo = SubSeq(cli.todo, 3, Len(cli.todo))] \in Cli
      BY <1>2, <3>1 DEF Cli
    <3> QED BY <1>1, <1>2, <2>4, <3>2 DEF off, Cli
  <2> QED BY <2>1, <2>2, <2>3, <2>4
<1>4. routes' \in [Ports -> Route]
  BY <1>2 DEF listRoutes, setRoutes, mark, findOwned, off, unmark, Route
<1>5. marker' \in Ports \cup {None}
  BY <1>2 DEF listRoutes, setRoutes, mark, findOwned, off, unmark, TypeInv
<1>6. UNCHANGED <<files, db, wal, loaded, backups, sessions, hardKilled>>
  BY DEF listRoutes, setRoutes, mark, findOwned, off, unmark
<1> QED BY <1>3, <1>4, <1>5, <1>6 DEF TypeInv

LEMMA TypeEnd ==
  ASSUME TypeInv, EndPhase \/ Throw \/ Finish \/ CliDies
  PROVE  TypeInv'
<1>1. cli' \in Cli
  BY FailedCli, SucceededCli, IdleType DEF EndPhase, Throw, Finish, CliDies, TypeInv
<1>2. UNCHANGED <<files, db, wal, loaded, backups, routes, marker, sessions, hardKilled>>
  BY DEF EndPhase, Throw, Finish, CliDies
<1> QED BY <1>1, <1>2 DEF TypeInv

LEMMA TypeWorld ==
  ASSUME TypeInv, World
  PROVE  TypeInv'
<1>1. CASE Commit
  <2>1. PICK e \in 1 .. MaxEvents :
           wal' = IF wal.added = {} THEN [base |-> db.events, added |-> {e}]
                  ELSE [wal EXCEPT !.added = @ \cup {e}]
    BY <1>1, CommitEvent
  <2>2. wal' \in Wal
    BY <2>1 DEF TypeInv, Db, Wal
  <2> QED BY <1>1, <2>2 DEF Commit, TypeInv
<1>2. CASE PiSavesSession
  BY <1>2 DEF PiSavesSession, TypeInv
<1>3. ASSUME NEW port \in Ports, NEW who \in {"none", "other"}, OtherService(port, who) PROVE TypeInv'
  <2>1. routes' \in [Ports -> Route]
    BY <1>3 DEF OtherService, TypeInv, Route
  <2> QED BY <1>3, <2>1 DEF OtherService, TypeInv
<1> QED BY <1>1, <1>2, <1>3 DEF World

LEMMA TypeStep ==
  ASSUME TypeInv, PlanInv, [Next]_vars
  PROVE  TypeInv'
<1>1. CASE UNCHANGED vars
  BY <1>1 DEF vars, TypeInv
<1> QED BY <1>1, TypeCommand, TypeQuiet, TypeStore, TypeFiles, TypeRoutes, TypeEnd, TypeWorld
        DEF Next, Step, RestoreStep

-----------------------------------------------------------------------------
(* Steps of the command, as far as the command itself is concerned.        *)

Kept == /\ cli'.op = cli.op /\ cli'.phase = cli.phase /\ cli'.cls = cli.cls
        /\ cli'.target = cli.target /\ cli'.before = cli.before
        /\ cli'.ok = cli.ok /\ cli'.rolledBack = cli.rolledBack /\ cli'.resetDone = cli.resetDone

\* Step x is done.
Moves(x) == /\ At(x) /\ Kept /\ cli'.todo = Tail(cli.todo)
            /\ x # "backup" => cli'.backup = cli.backup
            /\ x # "findOwned" => cli'.port = cli.port
            /\ x \notin {"list", "findOwned"} => cli'.listed = cli.listed

\* A removal that finds no owned route leaves out the rest of it.
Skips == /\ (At("findOwned") \/ At("off")) /\ Kept
         /\ \E n \in Nat \ {0} : cli'.todo = SubSeq(cli.todo, n, Len(cli.todo))
         /\ cli'.backup = cli.backup /\ cli'.port = cli.port /\ cli'.listed = cli.listed

LEMMA StepMoves ==
  ASSUME TypeInv
  PROVE  /\ preflight => Moves("preflight")
         /\ verifyTarget => Moves("verify")
         /\ verifyBackup => Moves("find")
         /\ \A killed : stop(killed) => Moves("stop")
         /\ backup => Moves("backup")
         /\ migrate => Moves("migrate")
         /\ generationReset => Moves("reset")
         /\ swapDaemon => Moves("swapDaemon")
         /\ swapExtension => Moves("swapExtension")
         /\ start => Moves("start")
         /\ bootstrap => Moves("bootstrap")
         /\ verifyRunning => Moves("ready")
         /\ \A x, f : x \notin {"backup", "findOwned"} /\ restoreFile(x, f) => Moves(x)
         /\ restoreDb => Moves("restoreDb")
         /\ writeDaemon => Moves("writeDaemon")
         /\ writeConfig => Moves("writeConfig")
         /\ writePlist => Moves("writePlist")
         /\ captureLoginEnv => Moves("captureLoginEnv")
         /\ remove => Moves("remove")
         /\ listRoutes => Moves("list")
         /\ setRoutes => Moves("set")
         /\ mark => Moves("mark")
         /\ unmark => Moves("unmark")
         /\ findOwned => Moves("findOwned") \/ Skips
         /\ off => Moves("off") \/ Skips
<1>1. ASSUME NEW x, At(x), cli' = Done PROVE Moves(x)
  BY <1>1, DoneCli DEF Moves, Kept, Same, At
<1>2. ASSUME backup PROVE Moves("backup")
  <2>1. cli.todo # <<>> /\ cli' = [Done EXCEPT !.backup = Len(backups) + 1]
    BY <1>2 DEF backup, At
  <2> QED BY <1>2, <2>1, DoneCli DEF Moves, Kept, Same, backup, Cli
<1>3. ASSUME listRoutes PROVE Moves("list")
  <2>1. cli.todo # <<>> /\ cli' = [Done EXCEPT !.listed = routes]
    BY <1>3 DEF listRoutes, At
  <2> QED BY <1>3, <2>1, DoneCli DEF Moves, Kept, Same, listRoutes, Cli
<1>4. ASSUME findOwned, cli' = [Done EXCEPT !.listed = routes, !.port = marker] PROVE Moves("findOwned")
  <2>1. cli.todo # <<>> /\ At("findOwned")
    BY <1>4 DEF findOwned, At
  <2> QED BY <1>4, <2>1, DoneCli DEF Moves, Kept, Same, Cli
<1>5. ASSUME NEW n \in Nat \ {0}, At("findOwned") \/ At("off"),
             cli' = [cli EXCEPT !.todo = SubSeq(cli.todo, n, Len(cli.todo))]
      PROVE  Skips
  <2>1. cli \in Cli
    BY DEF TypeInv
  <2>2. cli'.todo = SubSeq(cli.todo, n, Len(cli.todo))
    BY <1>5, <2>1 DEF Cli
  <2>3. Kept /\ cli'.backup = cli.backup /\ cli'.port = cli.port /\ cli'.listed = cli.listed
    BY <1>5, <2>1 DEF Cli, Kept
  <2> QED BY <1>5, <2>2, <2>3 DEF Skips
<1>6. findOwned => Moves("findOwned") \/ Skips
  <2>1. CASE findOwned /\ \E port \in Ports : Owned(port)
    BY <1>4, <2>1 DEF findOwned
  <2>2. CASE findOwned /\ ~\E port \in Ports : Owned(port)
    <3>1. At("findOwned") /\ cli' = [cli EXCEPT !.todo = SubSeq(cli.todo, 4, Len(cli.todo))]
      BY <2>2 DEF findOwned, TypeInv, Cli
    <3>2. 4 \in Nat \ {0}
      OBVIOUS
    <3> QED BY <1>5, <3>1, <3>2, Zenon
  <2> QED BY <2>1, <2>2
<1>7. off => Moves("off") \/ Skips
  <2>1. CASE off /\ Owned(cli.port)
    BY <1>1, <2>1 DEF off
  <2>2. CASE off /\ ~Owned(cli.port)
    <3>1. At("off") /\ cli' = [cli EXCEPT !.todo = SubSeq(cli.todo, 3, Len(cli.todo))]
      BY <2>2 DEF off, TypeInv, Cli
    <3>2. 3 \in Nat \ {0}
      OBVIOUS
    <3> QED BY <1>5, <3>1, <3>2, Zenon
  <2> QED BY <2>1, <2>2
<1>8. ASSUME NEW x, NEW f, restoreFile(x, f) PROVE Moves(x)
  BY <1>1, <1>8 DEF restoreFile
<1>9. ASSUME NEW killed, stop(killed) PROVE Moves("stop")
  BY <1>1, <1>9 DEF stop
<1>10. /\ preflight => Moves("preflight")
       /\ verifyTarget => Moves("verify")
       /\ verifyBackup => Moves("find")
       /\ migrate => Moves("migrate")
       /\ generationReset => Moves("reset")
       /\ swapDaemon => Moves("swapDaemon")
       /\ swapExtension => Moves("swapExtension")
       /\ start => Moves("start")
       /\ bootstrap => Moves("bootstrap")
       /\ verifyRunning => Moves("ready")
  BY <1>1 DEF preflight, verifyTarget, verifyBackup, migrate, generationReset, swapDaemon,
              swapExtension, start, bootstrap, verifyRunning
<1>11. /\ restoreDb => Moves("restoreDb")
       /\ writeDaemon => Moves("writeDaemon")
       /\ writeConfig => Moves("writeConfig")
       /\ writePlist => Moves("writePlist")
       /\ captureLoginEnv => Moves("captureLoginEnv")
       /\ remove => Moves("remove")
       /\ setRoutes => Moves("set")
       /\ mark => Moves("mark")
       /\ unmark => Moves("unmark")
  BY <1>1 DEF restoreDb, writeDaemon, writeConfig, writePlist, captureLoginEnv, remove, setRoutes,
              mark, unmark
<1> QED BY <1>2, <1>3, <1>6, <1>7, <1>8, <1>9, <1>10, <1>11

-----------------------------------------------------------------------------
(* Plans.                                                                  *)

LEMMA PlanInit == Init => PlanInv
BY NoSteps DEF Init, PlanInv, Idle

LEMMA PlanMoves ==
  ASSUME TypeInv, PlanInv, NEW x, Moves(x)
  PROVE  PlanInv'
<1>1. Tidy(cli'.todo) /\ Uses(cli'.todo, StepsOf(cli'.op, cli'.phase))
  BY StepTail DEF Moves, Kept
<1>2. x = "findOwned" => cli.op \in {"stop", "uninstall"}
  BY StepOwner DEF Moves
<1> QED BY <1>1, <1>2 DEF PlanInv, Moves, Kept

LEMMA PlanSkips ==
  ASSUME TypeInv, PlanInv, Skips
  PROVE  PlanInv'
<1>1. cli.todo \in Seq(AllSteps) /\ Tidy(cli.todo) /\ Uses(cli.todo, StepsOf(cli.op, cli.phase))
  BY DEF TypeInv, Cli, PlanInv
<1>2. Tidy(cli'.todo) /\ Uses(cli'.todo, StepsOf(cli'.op, cli'.phase))
  BY <1>1, LaterSteps DEF Skips, Kept
<1> QED BY <1>2 DEF PlanInv, Skips, Kept

LEMMA PlanEnd ==
  ASSUME TypeInv, PlanInv,
         \/ cli' = Idle
         \/ cli' = Failed(cli) /\ cli.todo # <<>>
         \/ cli' = Succeeded(cli) /\ cli.todo = <<>> /\ cli.phase # "report"
  PROVE  PlanInv'
<1>1. CASE cli' = Idle
  BY <1>1, NoSteps DEF PlanInv, Idle
<1> cli \in Cli
  BY DEF TypeInv
<1>2. StepsOf("update", "restore") = RestoreSteps /\ StepsOf("update", "reset") = ResetSteps
  BY DEF StepsOf
<1>6. \A op : StepsOf(op, "report") = {}
  BY DEF StepsOf
<1>3. cli' = ResetNext(cli) /\ cli.op = "update" /\ cli.phase # "report" => PlanInv'
  BY <1>2, <1>6, ResetNextCli, ResetPlan, NoSteps DEF PlanInv, Same
<1>4. CASE cli' = Failed(cli) /\ cli.todo # <<>>
  <2>0. cli.phase # "report" /\ cli.op # "none"
    <3>1. At(Head(cli.todo))
      BY <1>4 DEF At
    <3> QED BY <3>1, StepTail
  <2>1. CASE cli.op = "update" /\ cli.phase = "run" /\ cli.backup # 0
    BY <1>2, <1>4, <2>0, <2>1, FailedCli, RestorePlan DEF PlanInv, Same
  <2>2. CASE (cli.op = "update" /\ cli.phase = "run" /\ cli.backup = 0) \/ cli.phase = "restore"
    BY <1>3, <1>4, <2>0, <2>2, FailedCli DEF PlanInv
  <2>3. CASE ~(cli.op = "update" /\ cli.phase = "run") /\ cli.phase # "restore"
    BY <1>4, <1>6, <2>3, FailedCli, NoSteps DEF PlanInv, Same
  <2> QED BY <2>1, <2>2, <2>3
<1>5. CASE cli' = Succeeded(cli) /\ cli.todo = <<>> /\ cli.phase # "report"
  <2>1. CASE cli.phase \in {"run", "reset"}
    BY <1>5, <1>6, <2>1, SucceededCli, NoSteps DEF PlanInv, Same
  <2>2. CASE cli.phase = "restore"
    BY <1>2, <1>5, <1>6, <2>2, SucceededCli, ResetPlan, NoSteps DEF PlanInv, Same
  <2> QED BY <1>5, <2>1, <2>2 DEF Cli
<1> QED BY <1>1, <1>4, <1>5

\* How a command begins.
Begun ==
  /\ cli'.phase = "run" /\ ~cli'.ok /\ ~cli'.rolledBack /\ ~cli'.resetDone /\ cli'.op # "none"
  /\ Tidy(cli'.todo) /\ Uses(cli'.todo, StepsOf(cli'.op, "run"))
  /\ cli'.op \in {"install", "start", "serve"} => cli'.port \in Ports /\ Has(cli'.todo, "list")
  /\ cli'.op = "install" => cli'.target \in Versions /\ Has(cli'.todo, "writeDaemon")
  /\ cli'.op = "update" =>
       /\ files.config # None /\ cli'.target \in Versions /\ cli'.backup = 0
       /\ cli'.before.files = files /\ cli'.before.events = Committed
       /\ Has(cli'.todo, "stop") /\ Has(cli'.todo, "backup")
       /\ Has(cli'.todo, "swapDaemon") /\ Has(cli'.todo, "start")
  /\ cli'.op = "rollback" =>
       /\ files.config # None /\ StopFirst(cli'.todo)
       /\ Has(cli'.todo, "restoreConfig") /\ Has(cli'.todo, "restoreDb") /\ Has(cli'.todo, "start")
       /\ cli'.cls = "restore_required" => Has(cli'.todo, "reset")

LEMMA CommandBegins ==
  ASSUME TypeInv, Command
  PROVE  /\ cli.op = "none" /\ Begun
         /\ UNCHANGED <<files, db, wal, loaded, backups, routes, marker, sessions, hardKilled>>
<1>1. /\ cli.op = "none"
      /\ UNCHANGED <<files, db, wal, loaded, backups, routes, marker, sessions, hardKilled>>
  BY DEF Command, handleInstall, handleSetup, handleStart, handleStop, handleServe,
         handleUpdate, handleRollback, handleUninstall
<1>2. ASSUME NEW v \in Versions \ Bad, NEW port \in Ports, handleInstall(v, port) \/ handleSetup(v, port)
      PROVE  Begun
  <2>1. PICK t \in {installSteps, <<"preflight">> \o installSteps} :
               cli' = [Begin("install", t) EXCEPT !.target = v, !.port = port]
    BY <1>2 DEF handleInstall, handleSetup
  <2>2. /\ t \in Seq(AllSteps) /\ Tidy(t) /\ Uses(t, StepsOf("install", "run"))
        /\ Has(t, "writeDaemon") /\ Has(t, "list")
    BY InstallPlan DEF StepsOf
  <2>3. "install" \in Op
    BY DEF Op
  <2>4. /\ cli'.op = "install" /\ cli'.phase = "run" /\ cli'.todo = t /\ cli'.target = v /\ cli'.port = port
        /\ ~cli'.ok /\ ~cli'.rolledBack /\ ~cli'.resetDone
    BY <2>1, <2>2, <2>3, BeginType DEF Cli
  <2> QED BY <2>2, <2>4 DEF Begun
<1>3. ASSUME handleStart \/ \E port \in Ports : handleServe(port) PROVE Begun
  <2>1. PICK op \in {"start", "serve"}, port \in Ports,
             t \in {applyServeRoute, (IF loaded THEN <<>> ELSE <<"start", "ready">>) \o applyServeRoute} :
               cli' = [Begin(op, t) EXCEPT !.port = port]
    <3>1. CASE handleStart
      <4>1. files.config.port \in Ports
        BY <3>1 DEF handleStart, TypeInv, Files
      <4> QED BY <3>1, <4>1 DEF handleStart
    <3>2. CASE \E port \in Ports : handleServe(port)
      BY <3>2 DEF handleServe
    <3> QED BY <1>3, <3>1, <3>2
  <2>2. t \in Seq(AllSteps) /\ Tidy(t) /\ Uses(t, ServeSteps) /\ Has(t, "list")
    BY ServePlan DEF TypeInv
  <2>3. op \in Op /\ StepsOf(op, "run") = ServeSteps
    BY DEF Op, StepsOf
  <2>4. /\ cli'.op = op /\ cli'.phase = "run" /\ cli'.todo = t /\ cli'.port = port
        /\ ~cli'.ok /\ ~cli'.rolledBack /\ ~cli'.resetDone
    BY <2>1, <2>2, <2>3, BeginType DEF Cli
  <2> QED BY <2>2, <2>3, <2>4 DEF Begun
<1>4. ASSUME \/ handleStop
             \/ \E mode \in Mode, optIn \in BOOLEAN : handleUninstall(mode, optIn)
      PROVE  Begun
  <2>1. PICK op \in {"stop", "uninstall"},
             t \in {<<"stop">> \o removeOwnedServeRoute,
                    <<"stop">> \o removeOwnedServeRoute \o <<"remove">>} :
               \/ cli' = Begin(op, t)
               \/ \E mode, optIn : cli' = [Begin(op, t) EXCEPT !.mode = mode, !.optIn = optIn]
    <3>1. CASE handleStop
      BY <3>1 DEF handleStop
    <3>2. CASE \E mode \in Mode, optIn \in BOOLEAN : handleUninstall(mode, optIn)
      BY <3>2 DEF handleUninstall
    <3> QED BY <1>4, <3>1, <3>2
  <2>2. t \in Seq(AllSteps) /\ Tidy(t) /\ Uses(t, RemoveSteps)
    BY RemovePlan
  <2>3. op \in Op /\ StepsOf(op, "run") = RemoveSteps
    BY DEF Op, StepsOf
  <2>4. /\ cli'.op = op /\ cli'.phase = "run" /\ cli'.todo = t
        /\ ~cli'.ok /\ ~cli'.rolledBack /\ ~cli'.resetDone
    <3> DEFINE b == Begin(op, t)
    <3>1. /\ b \in Cli /\ b.op = op /\ b.todo = t /\ b.phase = "run"
          /\ ~b.ok /\ ~b.rolledBack /\ ~b.resetDone
      BY <2>2, <2>3, BeginType
    <3>2. cli' = b \/ \E mode, optIn : cli' = [b EXCEPT !.mode = mode, !.optIn = optIn]
      BY <2>1
    <3> HIDE DEF b
    <3> QED BY <3>1, <3>2 DEF Cli
  <2> QED BY <2>2, <2>3, <2>4 DEF Begun
<1>5. ASSUME NEW v \in Versions, NEW c \in Class, handleUpdate(v, c) PROVE Begun
  <2> DEFINE t == stagesForMigrationClass(c)
  <2>1. /\ t \in Seq(AllSteps) /\ Tidy(t) /\ Uses(t, StepsOf("update", "run"))
        /\ Has(t, "stop") /\ Has(t, "backup") /\ Has(t, "swapDaemon") /\ Has(t, "start")
    BY UpdatePlan DEF StepsOf
  <2>2. /\ files.config # None
        /\ cli' = [Begin("update", t) EXCEPT !.target = v, !.cls = c,
                                             !.before = [files |-> files, events |-> Committed]]
    BY <1>5 DEF handleUpdate
  <2>3. "update" \in Op
    BY DEF Op
  <2> HIDE DEF t
  <2>4. /\ cli'.op = "update" /\ cli'.phase = "run" /\ cli'.todo = t /\ cli'.target = v
        /\ cli'.backup = 0 /\ cli'.before = [files |-> files, events |-> Committed]
        /\ ~cli'.ok /\ ~cli'.rolledBack /\ ~cli'.resetDone
    BY <2>1, <2>2, <2>3, BeginType DEF Cli
  <2> QED BY <2>1, <2>2, <2>4 DEF Begun
<1>6. ASSUME NEW b \in 1 .. MaxBackups, NEW c \in Class, handleRollback(b, c) PROVE Begun
  <2> DEFINE t == stagesForRollback(c)
  <2>1. /\ t \in Seq(AllSteps) /\ Tidy(t) /\ Uses(t, StepsOf("rollback", "run")) /\ StopFirst(t)
        /\ Has(t, "restoreConfig") /\ Has(t, "restoreDb") /\ Has(t, "start")
        /\ c = "restore_required" => Has(t, "reset")
    BY RollbackPlan DEF StepsOf
  <2>2. files.config # None /\ cli' = [Begin("rollback", t) EXCEPT !.cls = c, !.backup = b]
    BY <1>6 DEF handleRollback
  <2>3. "rollback" \in Op
    BY DEF Op
  <2> HIDE DEF t
  <2>4. /\ cli'.op = "rollback" /\ cli'.phase = "run" /\ cli'.todo = t /\ cli'.cls = c
        /\ ~cli'.ok /\ ~cli'.rolledBack /\ ~cli'.resetDone
    BY <2>1, <2>2, <2>3, BeginType DEF Cli
  <2> QED BY <2>1, <2>2, <2>4 DEF Begun
<1>7. Begun
  <2>1. CASE \E v \in Versions \ Bad, port \in Ports : handleInstall(v, port) \/ handleSetup(v, port)
    BY <2>1, <1>2, Zenon
  <2>2. CASE handleStart \/ \E port \in Ports : handleServe(port)
    BY <2>2, <1>3, Zenon
  <2>3. CASE handleStop \/ \E mode \in Mode, optIn \in BOOLEAN : handleUninstall(mode, optIn)
    BY <2>3, <1>4, Zenon
  <2>4. CASE \E v \in Versions, c \in Class : handleUpdate(v, c)
    BY <2>4, <1>5, Zenon
  <2>5. CASE \E b \in 1 .. MaxBackups, c \in Class : handleRollback(b, c)
    BY <2>5, <1>6, Zenon
  <2> QED BY <2>1, <2>2, <2>3, <2>4, <2>5, Zenon DEF Command
<1> QED BY <1>1, <1>7

\* The last step of a command, by its kind.
LEMMA EndForms ==
  ASSUME TypeInv, EndPhase \/ Throw \/ Finish \/ CliDies
  PROVE  /\ \/ cli' = Idle
            \/ cli' = Failed(cli) /\ cli.todo # <<>>
            \/ cli' = Succeeded(cli) /\ cli.todo = <<>> /\ cli.phase # "report"
         /\ UNCHANGED <<files, db, wal, loaded, backups, routes, marker, sessions, hardKilled>>
BY DEF EndPhase, Throw, Finish, CliDies

LEMMA PlanStep ==
  ASSUME TypeInv, PlanInv, [Next]_vars
  PROVE  PlanInv'
<1>1. CASE Command
  BY <1>1, CommandBegins DEF Begun, PlanInv
<1>2. CASE EndPhase \/ Throw \/ Finish \/ CliDies
  BY <1>2, EndForms, PlanEnd
<1>3. CASE startThrows
  BY <1>3, PlanEnd DEF startThrows, At
<1>4. CASE World \/ UNCHANGED vars
  <2>1. UNCHANGED cli
    BY <1>4 DEF World, Commit, PiSavesSession, OtherService, vars
  <2> QED BY <2>1 DEF PlanInv
<1>5. ASSUME \E x : Moves(x) PROVE PlanInv'
  BY <1>5, PlanMoves
<1>6. CASE RestoreStep
  <2>1. \E x : Moves(x)
    BY <1>6, StepMoves DEF RestoreStep
  <2> QED BY <1>5, <2>1
<1>7. CASE Step /\ ~startThrows /\ ~RestoreStep /\ ~(EndPhase \/ Throw \/ Finish \/ CliDies)
  <2>1. (\E x : Moves(x)) \/ Skips
    BY <1>7, StepMoves DEF Step, RestoreStep
  <2> QED BY <1>5, <2>1, PlanSkips
<1> QED BY <1>1, <1>2, <1>3, <1>4, <1>6, <1>7 DEF Next

-----------------------------------------------------------------------------
(* The store.                                                              *)

\* Which variables of the machine a step of Next leaves alone.
LEMMA Untouched ==
  ASSUME preflight \/ verifyTarget \/ verifyBackup \/ verifyRunning \/ captureLoginEnv
           \/ listRoutes \/ setRoutes \/ mark \/ findOwned \/ off \/ unmark
           \/ PiSavesSession \/ (\E port \in Ports, who \in {"none", "other"} : OtherService(port, who))
           \/ EndPhase \/ Throw \/ Finish \/ CliDies \/ UNCHANGED vars
  PROVE  UNCHANGED <<files, db, wal, loaded, backups, hardKilled>>
BY DEF preflight, verifyTarget, verifyBackup, verifyRunning, captureLoginEnv, listRoutes, setRoutes,
       mark, findOwned, off, unmark, PiSavesSession, OtherService, EndPhase, Throw, Finish, CliDies, vars

LEMMA StopInit == Init => StopInv
BY NoSteps DEF Init, StopInv, Idle

LEMMA StopMoves ==
  ASSUME TypeInv, PlanInv, StopInv, NEW x, Moves(x),
         \/ x # "stop" /\ loaded' = loaded
         \/ x = "stop" /\ loaded' = FALSE
         \/ x \in {"start", "bootstrap"}
  PROVE  StopInv'
<1> DEFINE t == Tail(cli.todo)
<1>1. At(x) /\ cli'.todo = t
  BY DEF Moves
<1>2. Uses(t, StepsOf(cli.op, cli.phase)) /\ cli.phase # "report"
  BY <1>1, StepTail
<1>3. x = "bootstrap" => ~Has(t, "restoreDb")
  <2>1. ASSUME x = "bootstrap" PROVE ~Has(t, "restoreDb")
    <3>1. cli.op = "install" /\ cli.phase = "run"
      BY <1>1, <2>1, StepOwner
    <3>2. "restoreDb" \notin StepsOf(cli.op, cli.phase)
      BY <3>1 DEF StepsOf, InstallSteps
    <3> QED BY <1>2, <3>2 DEF Uses, Has
  <2> QED BY <2>1
<1>4. x = "start" => ~Has(t, "restoreDb")
  BY <1>1, StepTail
<1>5. Has(t, "restoreDb") => Has(cli.todo, "restoreDb")
  BY <1>1, StepTail
<1>6. StopFirst(cli.todo) /\ x # "stop" => StopFirst(t)
  BY <1>1, StepTail
<1> HIDE DEF t
<1>7. CASE x # "stop" /\ loaded' = loaded
  BY <1>1, <1>5, <1>6, <1>7, Zenon DEF StopInv
<1>8. CASE x = "stop" /\ loaded' = FALSE
  BY <1>8 DEF StopInv
<1>9. CASE x \in {"start", "bootstrap"}
  BY <1>1, <1>3, <1>4, <1>9 DEF StopInv
<1> QED BY <1>7, <1>8, <1>9

LEMMA StopFailed ==
  ASSUME TypeInv,
         \/ cli' = Idle
         \/ cli' = Failed(cli)
         \/ cli' = Succeeded(cli) /\ cli.todo = <<>> /\ cli.phase # "report"
  PROVE  StopInv'
<1> cli \in Cli
  BY DEF TypeInv
<1>1. CASE cli' = Failed(cli)
  <2>1. ResetNext(cli).todo \in {resetHook, <<>>}
    BY ResetNextCli
  <2>2. cli'.todo \in {restoreHook(cli.cls), resetHook, <<>>}
    BY <1>1, <2>1, FailedCli DEF Cli
  <2> QED BY <2>2, RestorePlan, ResetPlan, NoSteps DEF StopInv
<1>2. CASE cli' = Idle
  BY <1>2, NoSteps DEF StopInv, Idle
<1>3. CASE cli' = Succeeded(cli) /\ cli.todo = <<>> /\ cli.phase # "report"
  <2>1. cli'.todo \in {resetHook, <<>>}
    BY <1>3, SucceededCli DEF Cli
  <2> QED BY <2>1, ResetPlan, NoSteps DEF StopInv
<1> QED BY <1>1, <1>2, <1>3

LEMMA StopStep ==
  ASSUME TypeInv, PlanInv, StopInv, [Next]_vars
  PROVE  StopInv'
<1>1. CASE Command
  <2>1. PlanInv' /\ Begun /\ TypeInv'
    BY <1>1, CommandBegins, PlanStep, TypeStep DEF Next
  <2>2. CASE cli'.op = "rollback"
    BY <2>1, <2>2 DEF Begun, StopInv
  <2>3. CASE cli'.op # "rollback"
    <3>1. "restoreDb" \notin StepsOf(cli'.op, "run")
      BY <2>3 DEF StepsOf, UpdateSteps, InstallSteps, ServeSteps, RemoveSteps
    <3>2. ~Has(cli'.todo, "restoreDb")
      BY <2>1, <3>1 DEF Begun, Uses, Has
    <3> QED BY <3>2 DEF StopInv
  <2> QED BY <2>2, <2>3
<1>2. CASE EndPhase \/ Throw \/ Finish \/ CliDies
  BY <1>2, EndForms, StopFailed
<1>3. CASE startThrows
  BY <1>3, StopFailed DEF startThrows
<1>4. CASE World \/ UNCHANGED vars
  <2>1. UNCHANGED <<cli, loaded>>
    BY <1>4 DEF World, Commit, PiSavesSession, OtherService, vars
  <2> QED BY <2>1 DEF StopInv
<1>5. CASE Skips
  <2>1. cli.todo \in Seq(AllSteps) /\ Uses(cli.todo, StepsOf(cli.op, cli.phase))
    BY DEF TypeInv, Cli, PlanInv
  <2>2. "restoreDb" \notin StepsOf(cli.op, cli.phase)
    <3>1. cli.op \in {"stop", "uninstall"} /\ cli.phase = "run"
      BY <1>5, StepOwner DEF Skips
    <3> QED BY <3>1 DEF StepsOf, RemoveSteps
  <2>3. Uses(cli'.todo, StepsOf(cli.op, cli.phase))
    BY <1>5, <2>1, LaterSteps DEF Skips
  <2> QED BY <2>2, <2>3 DEF StopInv, Uses, Has
<1>6. ASSUME NEW killed, stop(killed) PROVE StopInv'
  <2>1. Moves("stop") /\ loaded' = FALSE
    BY <1>6, StepMoves DEF stop
  <2> QED BY <2>1, StopMoves
<1>7. CASE start
  BY <1>7, StepMoves, StopMoves
<1>8. CASE bootstrap
  BY <1>8, StepMoves, StopMoves
<1>9. ASSUME \E x : x # "stop" /\ Moves(x), loaded' = loaded PROVE StopInv'
  BY <1>9, StopMoves
<1>10. CASE RestoreStep
  <2>1. (\E x : x # "stop" /\ Moves(x)) /\ loaded' = loaded
    BY <1>10, StepMoves DEF RestoreStep, restoreFile
  <2> QED BY <1>9, <2>1
<1>11. CASE preflight \/ verifyTarget \/ verifyBackup \/ verifyRunning \/ captureLoginEnv
              \/ listRoutes \/ setRoutes \/ mark \/ findOwned \/ off \/ unmark
  <2>1. ((\E x : x # "stop" /\ Moves(x)) \/ Skips) /\ loaded' = loaded
    BY <1>11, StepMoves, Untouched
  <2> QED BY <1>5, <1>9, <2>1
<1>12. CASE backup \/ migrate \/ generationReset \/ swapDaemon \/ swapExtension \/ restoreDb
              \/ writeDaemon \/ writeConfig \/ writePlist \/ remove
  <2>1. \E x : x # "stop" /\ Moves(x)
    BY <1>12, StepMoves
  <2>2. loaded' = loaded
    BY <1>12 DEF backup, migrate, generationReset, swapDaemon, swapExtension, restoreDb,
                 writeDaemon, writeConfig, writePlist, remove
  <2> QED BY <1>9, <2>1, <2>2
<1> QED BY <1>1, <1>2, <1>3, <1>4, <1>6, <1>7, <1>8, <1>10, <1>11, <1>12 DEF Next, Step, RestoreStep

LEMMA LogInit == Init => LogInv
BY DEF Init, LogInv

LEMMA LogStep ==
  ASSUME TypeInv, PlanInv, StopInv, LogInv, [Next]_vars
  PROVE  LogInv'
<1>0. db \in Db /\ wal \in Wal /\ hardKilled \in BOOLEAN /\ loaded \in BOOLEAN
  BY DEF TypeInv
<1>1. CASE Command
  BY <1>1, CommandBegins DEF LogInv
<1>2. ASSUME UNCHANGED <<files, db, wal, loaded, backups, hardKilled>> PROVE LogInv'
  BY <1>2 DEF LogInv
<1>3. ASSUME NEW killed \in BOOLEAN, stop(killed) PROVE LogInv'
  <2>1. CASE killed
    BY <1>3, <2>1 DEF stop, LogInv
  <2>2. CASE ~killed /\ ~loaded
    BY <1>3, <2>2 DEF stop, LogInv
  <2>3. CASE ~killed /\ loaded
    <3>1. db' = Closed(db) /\ wal' = EmptyLog(db')
      BY <1>3, <2>3 DEF stop
    <3>2. db'.damaged = db.damaged /\ wal'.added = {}
      BY <1>0, <3>1 DEF Closed, EmptyLog, Db
    <3>3. backups' = backups /\ (hardKilled' = hardKilled)
      BY <1>0, <1>3, <2>3 DEF stop
    <3> QED BY <3>2, <3>3 DEF LogInv
  <2> QED BY <2>1, <2>2, <2>3
<1>4. CASE backup
  <2>1. UNCHANGED <<db, wal, loaded, hardKilled>> /\ backups' = Append(backups, [files |-> files, db |-> db])
    BY <1>4 DEF backup
  <2>2. \A b \in DOMAIN backups' : backups'[b].db = db \/ (b \in DOMAIN backups /\ backups'[b] = backups[b])
    BY <2>1 DEF TypeInv
  <2> QED BY <2>1, <2>2 DEF LogInv
<1>5. CASE migrate \/ generationReset
  <2>1. loaded => db'.events = db.events /\ wal' = wal
    BY <1>0, <1>5 DEF migrate, generationReset, Db
  <2>2. ~loaded => wal'.added = {}
    BY <1>5 DEF migrate, generationReset, EmptyLog
  <2>3. db'.damaged = db.damaged
    BY <1>0, <1>5 DEF migrate, generationReset, Closed, Db
  <2>4. UNCHANGED <<loaded, backups, hardKilled>>
    BY <1>5 DEF migrate, generationReset
  <2> QED BY <2>1, <2>2, <2>3, <2>4 DEF LogInv
<1>6. CASE start \/ startThrows \/ bootstrap
  <2>1. loaded' = TRUE /\ db' = Opened(db) /\ UNCHANGED <<wal, backups, hardKilled>>
    BY <1>6 DEF start, startThrows, bootstrap
  <2>2. db'.events = db.events /\ (db'.damaged <=> db.damaged \/ (wal.added # {} /\ wal.base # db.events))
    BY <1>0, <2>1 DEF Opened, Db
  <2> QED BY <2>1, <2>2 DEF LogInv
<1>7. CASE restoreDb
  <2>1. At("restoreDb") /\ cli.backup \in DOMAIN backups /\ db' = backups[cli.backup].db
    BY <1>7 DEF restoreDb
  <2>2. ~loaded
    BY <2>1, StepTail DEF StopInv
  <2>3. wal.added = {} => wal'.added = {}
    BY <1>7 DEF restoreDb, EmptyLog
  <2> QED BY <1>7, <2>1, <2>2, <2>3 DEF restoreDb, LogInv
<1>8. CASE swapDaemon \/ swapExtension \/ RestoreStep \/ writeDaemon \/ writeConfig \/ writePlist
  BY <1>8 DEF swapDaemon, swapExtension, RestoreStep, restoreFile, writeDaemon, writeConfig, writePlist, LogInv
<1>9. CASE remove
  <2>1. CASE cli.mode = "retain_data"
    BY <1>9, <2>1 DEF remove, LogInv
  <2>2. CASE cli.mode # "retain_data"
    <3>1. db'.damaged = FALSE /\ wal'.added = {} /\ backups' = <<>>
      BY <1>9, <2>2 DEF remove
    <3>2. DOMAIN backups' = {}
      BY <3>1
    <3> QED BY <3>1, <3>2 DEF LogInv
  <2> QED BY <2>1, <2>2
<1>10. CASE Commit
  <2>1. PICK e \in 1 .. MaxEvents :
           wal' = IF wal.added = {} THEN [base |-> db.events, added |-> {e}]
                  ELSE [wal EXCEPT !.added = @ \cup {e}]
    BY <1>10, CommitEvent
  <2>2. wal'.base = IF wal.added = {} THEN db.events ELSE wal.base
    BY <1>0, <2>1 DEF Wal
  <2>3. loaded /\ UNCHANGED <<db, loaded, backups, hardKilled>>
    BY <1>10 DEF Commit
  <2> QED BY <2>2, <2>3 DEF LogInv
<1> QED BY <1>1, <1>2, <1>3, <1>4, <1>5, <1>6, <1>7, <1>8, <1>9, <1>10, Untouched
        DEF Next, Step, World, RestoreStep

LEMMA DamageInit == Init => TypeInv /\ PlanInv /\ StopInv /\ LogInv
BY TypeInit, PlanInit, StopInit, LogInit

\* No command damages the database, in whatever order commands run, throw and
\* die, for any number of releases, backups and events: only a log that a
\* killed daemon left behind does (MacLifecycleDriver.restore).
THEOREM NoDamage == Spec => []DamageNeedsAKill
<1> DEFINE I == TypeInv /\ PlanInv /\ StopInv /\ LogInv
<1>1. Init => I
  BY DamageInit
<1>2. I /\ [Next]_vars => I'
  BY TypeStep, PlanStep, StopStep, LogStep
<1>3. I => DamageNeedsAKill
  BY DEF LogInv, DamageNeedsAKill, TypeInv
<1> QED BY <1>1, <1>2, <1>3, PTL DEF Spec

-----------------------------------------------------------------------------
(* The Serve routes.                                                       *)

\* The hooks of an update and the commands that end have no step of the
\* Serve driver.
LEMMA NoServeStep ==
  ASSUME NEW op, NEW phase,
         \/ phase \in {"restore", "reset", "report"}
         \/ op \in {"update", "rollback", "stop", "uninstall"}
  PROVE  "set" \notin StepsOf(op, phase)
BY DEF StepsOf, UpdateSteps, RollbackSteps, RestoreSteps, ResetSteps, RemoveSteps

LEMMA RouteMoves ==
  ASSUME TypeInv, PlanInv, RouteInv, NEW x, Moves(x), x \notin {"list", "findOwned"}
  PROVE  RouteInv'
<1>1. /\ At(x) /\ cli'.todo = Tail(cli.todo) /\ cli'.listed = cli.listed /\ cli'.port = cli.port
  BY DEF Moves
<1>2. /\ Has(Tail(cli.todo), "set") => Has(cli.todo, "set")
      /\ ~Has(Tail(cli.todo), "list") => ~Has(cli.todo, "list")
  BY <1>1, StepTail
<1> QED BY <1>1, <1>2 DEF RouteInv

\* A command whose steps leave the Serve table alone.
LEMMA RouteOther ==
  ASSUME PlanInv', "set" \notin StepsOf(cli'.op, cli'.phase)
  PROVE  RouteInv'
BY DEF PlanInv, RouteInv, Uses, Has

LEMMA RouteStep ==
  ASSUME TypeInv, PlanInv, RouteInv, [Next]_vars
  PROVE  RouteInv'
<1>0. PlanInv' /\ TypeInv'
  BY PlanStep, TypeStep
<1>1. CASE Command
  <2>1. Begun
    BY <1>1, CommandBegins
  <2>2. CASE cli'.op \in {"install", "start", "serve"}
    BY <2>1, <2>2 DEF Begun, RouteInv
  <2>3. CASE cli'.op \in {"update", "rollback", "stop", "uninstall"}
    BY <1>0, <2>3, NoServeStep, RouteOther
  <2> QED BY <1>0, <2>1, <2>2, <2>3 DEF Begun, TypeInv, Cli, Op
<1>2. CASE (EndPhase \/ Throw \/ Finish \/ CliDies) \/ startThrows
  <2>1. \/ cli' = Idle
        \/ cli' = Failed(cli)
        \/ cli' = Succeeded(cli) /\ cli.todo = <<>> /\ cli.phase # "report"
    BY <1>2, EndForms DEF startThrows
  <2>2. cli'.phase # "run"
    <3>1. cli \in Cli
      BY DEF TypeInv
    <3>2. Idle.phase # "run"
      BY DEF Idle
    <3>3. ResetNext(cli).phase # "run"
      BY <3>1, ResetNextCli
    <3>4. Failed(cli).phase # "run"
      BY <3>1, <3>3, FailedCli DEF Cli
    <3>5. cli.phase # "report" => Succeeded(cli).phase # "run"
      BY <3>1, SucceededCli DEF Cli
    <3> QED BY <2>1, <3>2, <3>4, <3>5
  <2>3. cli'.phase \in {"restore", "reset", "report"}
    BY <1>0, <2>2 DEF TypeInv, Cli
  <2> QED BY <1>0, <2>3, NoServeStep, RouteOther
<1>3. CASE World \/ UNCHANGED vars
  <2>1. UNCHANGED cli
    BY <1>3 DEF World, Commit, PiSavesSession, OtherService, vars
  <2> QED BY <2>1 DEF RouteInv
<1>4. CASE Skips \/ Moves("findOwned")
  <2>1. cli.op \in {"stop", "uninstall"} /\ cli'.op = cli.op
    BY <1>4, StepOwner DEF Skips, Moves, Kept
  <2> QED BY <1>0, <2>1, NoServeStep, RouteOther
<1>5. CASE listRoutes
  <2>1. Moves("list")
    BY <1>5, StepMoves
  <2>2. cli'.listed = routes
    BY <1>5, DoneCli DEF listRoutes, At, Cli
  <2>3. routes[cli.port] # "other"
    BY <1>5 DEF listRoutes, Owned
  <2> QED BY <2>1, <2>2, <2>3 DEF Moves, RouteInv
<1>6. ASSUME \E x : x \notin {"list", "findOwned"} /\ Moves(x) PROVE RouteInv'
  BY <1>6, RouteMoves
<1>7. CASE RestoreStep
  <2>1. \E x : x \notin {"list", "findOwned"} /\ Moves(x)
    BY <1>7, StepMoves DEF RestoreStep
  <2> QED BY <1>6, <2>1
<1>8. CASE preflight \/ verifyTarget \/ verifyBackup \/ verifyRunning \/ captureLoginEnv
             \/ setRoutes \/ mark \/ findOwned \/ off \/ unmark
  <2>1. (\E x : x \notin {"list", "findOwned"} /\ Moves(x)) \/ Skips \/ Moves("findOwned")
    BY <1>8, StepMoves
  <2> QED BY <1>4, <1>6, <2>1
<1>9. CASE backup \/ migrate \/ generationReset \/ swapDaemon \/ swapExtension \/ restoreDb
             \/ writeDaemon \/ writeConfig \/ writePlist \/ remove \/ start \/ bootstrap
             \/ \E killed \in BOOLEAN : stop(killed)
  <2>1. \E x : x \notin {"list", "findOwned"} /\ Moves(x)
    BY <1>9, StepMoves
  <2> QED BY <1>6, <2>1
<1> QED BY <1>1, <1>2, <1>3, <1>5, <1>7, <1>8, <1>9 DEF Next, Step, RestoreStep

\* What one step does to the route of another service.
KeepsForeign ==
  \A port \in Ports :
    cli.op # "none" /\ cli' # cli /\ routes[port] = "other" /\ cli.listed[port] = "other"
      => routes'[port] = "other"

LEMMA RoutesStep ==
  ASSUME TypeInv, PlanInv, RouteInv, [Next]_vars
  PROVE  KeepsForeign
<1>1. CASE setRoutes
  <2>1. At("set") /\ routes' = [routes EXCEPT ![cli.port] = "bridge"]
    BY <1>1 DEF setRoutes
  <2>2. cli.listed[cli.port] # "other"
    BY <2>1, StepTail DEF RouteInv
  <2>3. routes \in [Ports -> Route]
    BY DEF TypeInv
  <2> QED BY <2>1, <2>2, <2>3 DEF KeepsForeign
<1>2. CASE off
  <2>1. \/ routes' = routes
        \/ routes' = [routes EXCEPT ![cli.port] = "none"] /\ routes[cli.port] = "bridge"
    BY <1>2 DEF off, Owned
  <2>2. routes \in [Ports -> Route]
    BY DEF TypeInv
  <2> QED BY <2>1, <2>2 DEF KeepsForeign
<1>3. ASSUME cli' = cli PROVE KeepsForeign
  BY <1>3 DEF KeepsForeign
<1>4. ASSUME routes' = routes PROVE KeepsForeign
  BY <1>4 DEF KeepsForeign
<1>5. CASE World \/ UNCHANGED vars
  <2>1. cli' = cli
    BY <1>5 DEF World, Commit, PiSavesSession, OtherService, vars
  <2> QED BY <1>3, <2>1
<1>6. CASE Command
  BY <1>4, <1>6, CommandBegins
<1>7. CASE Step /\ ~setRoutes /\ ~off
  <2>1. routes' = routes
    BY <1>7 DEF Step, preflight, verifyTarget, verifyBackup, stop, backup, migrate, generationReset,
         swapDaemon, swapExtension, start, startThrows, bootstrap, verifyRunning, restoreFile,
         restoreDb, writeDaemon, writeConfig, writePlist, captureLoginEnv, remove, listRoutes,
         mark, findOwned, unmark, EndPhase, Throw, Finish, CliDies
  <2> QED BY <1>4, <2>1
<1> QED BY <1>1, <1>2, <1>5, <1>6, <1>7 DEF Next

\* No command changes a Serve route of another service that was there when
\* the command read the table, whatever other services do meanwhile
\* (applyServeRoute, removeOwnedServeRoute).
THEOREM RoutesAreKept == Spec => ForeignRoutesKept
<1> DEFINE I == TypeInv /\ PlanInv /\ RouteInv
<1>1. Init => I
  BY TypeInit, PlanInit, NoSteps DEF Init, RouteInv, Idle
<1>2. I /\ [Next]_vars => I'
  BY TypeStep, PlanStep, RouteStep
<1>3. I /\ [Next]_vars => [KeepsForeign]_vars
  BY RoutesStep
<1>4. ForeignRoutesKept <=> [][KeepsForeign]_vars
  BY PTL DEF ForeignRoutesKept, KeepsForeign
<1> QED BY <1>1, <1>2, <1>3, <1>4, PTL DEF Spec

-----------------------------------------------------------------------------
(* The installed files and those of the backups.                           *)

LEMMA FilesInit == Init => FilesInv
<1> SUFFICES ASSUME Init PROVE FilesInv
  OBVIOUS
<1>1. backups = <<>> /\ DOMAIN backups = {} /\ cli.op = "none" /\ files.config = None
  BY DEF Init, Idle
<1> QED BY <1>1 DEF FilesInv

\* The command goes on, or ends, without a new claim about the files.
SameOwner ==
  /\ cli'.op \in {"update", "rollback"} => cli.op \in {"update", "rollback"}
  /\ cli'.op = "install" /\ cli'.phase = "run" /\ ~Has(cli'.todo, "writeDaemon") =>
       cli.op = "install" /\ cli.phase = "run" /\ ~Has(cli.todo, "writeDaemon")

LEMMA OwnerMoves ==
  ASSUME TypeInv, PlanInv, NEW x, Moves(x), x # "writeDaemon"
  PROVE  SameOwner
<1>1. At(x) /\ cli'.todo = Tail(cli.todo) /\ cli'.op = cli.op /\ cli'.phase = cli.phase
  BY DEF Moves, Kept
<1>2. ~Has(Tail(cli.todo), "writeDaemon") => ~Has(cli.todo, "writeDaemon")
  BY <1>1, StepTail
<1> QED BY <1>1, <1>2 DEF SameOwner

LEMMA OwnerSkips ==
  ASSUME TypeInv, PlanInv, Skips
  PROVE  SameOwner
<1>1. cli.op \in {"stop", "uninstall"} /\ cli'.op = cli.op
  BY StepOwner DEF Skips, Kept
<1> QED BY <1>1 DEF SameOwner

\* After the last step of a phase the command is in another phase.
LEMMA NextPhase ==
  ASSUME TypeInv,
         \/ cli' = Idle
         \/ cli' = Failed(cli)
         \/ cli' = Succeeded(cli) /\ cli.todo = <<>> /\ cli.phase # "report"
  PROVE  /\ cli'.phase \in {"restore", "reset", "report"}
         /\ cli'.op \in {cli.op, "none"}
<1>1. cli \in Cli /\ Idle.phase = "report" /\ Idle.op = "none"
  BY DEF TypeInv, Idle
<1>2. ResetNext(cli).phase \in {"reset", "report"}
  BY <1>1, ResetNextCli
<1>3. Failed(cli).phase \in {"restore", "reset", "report"} /\ Failed(cli).op = cli.op
  BY <1>1, <1>2, FailedCli DEF Cli, Same
<1>4. /\ cli.phase # "report" => Succeeded(cli).phase \in {"reset", "report"}
      /\ Succeeded(cli).op = cli.op
  BY <1>1, SucceededCli DEF Cli, Same
<1> QED BY <1>1, <1>3, <1>4

LEMMA FilesSame ==
  ASSUME FilesInv, SameOwner, UNCHANGED <<files, backups>>
  PROVE  FilesInv'
BY DEF FilesInv, SameOwner

LEMMA FilesStep ==
  ASSUME TypeInv, PlanInv, FilesInv, [Next]_vars
  PROVE  FilesInv'
<1>0. files \in Files /\ None \notin Versions
  BY ReleasesAssumption DEF TypeInv
<1>1. CASE Command
  <2>1. Begun /\ UNCHANGED <<files, backups>>
    BY <1>1, CommandBegins
  <2>2. cli'.op = "install" => Has(cli'.todo, "writeDaemon")
    BY <2>1 DEF Begun
  <2>3. cli'.op \in {"update", "rollback"} => files.config # None
    BY <2>1 DEF Begun
  <2> QED BY <2>1, <2>2, <2>3 DEF FilesInv
<1>2. CASE (EndPhase \/ Throw \/ Finish \/ CliDies) \/ startThrows
  <2>1. \/ cli' = Idle
        \/ cli' = Failed(cli)
        \/ cli' = Succeeded(cli) /\ cli.todo = <<>> /\ cli.phase # "report"
    BY <1>2, EndForms DEF startThrows
  <2>2. SameOwner
    BY <2>1, NextPhase DEF SameOwner
  <2>3. UNCHANGED <<files, backups>>
    BY <1>2, EndForms DEF startThrows
  <2> QED BY <2>2, <2>3, FilesSame
<1>3. CASE World \/ UNCHANGED vars
  <2>1. UNCHANGED <<cli, files, backups>>
    BY <1>3 DEF World, Commit, PiSavesSession, OtherService, vars
  <2> QED BY <2>1 DEF FilesInv
<1>4. CASE preflight \/ verifyTarget \/ verifyBackup \/ verifyRunning \/ captureLoginEnv
             \/ listRoutes \/ setRoutes \/ mark \/ findOwned \/ off \/ unmark
  <2>1. (\E x : x # "writeDaemon" /\ Moves(x)) \/ Skips
    BY <1>4, StepMoves
  <2>2. SameOwner
    BY <2>1, OwnerMoves, OwnerSkips
  <2> QED BY <1>4, <2>2, Untouched, FilesSame
<1>5. CASE (\E killed \in BOOLEAN : stop(killed)) \/ migrate \/ generationReset \/ start \/ bootstrap \/ restoreDb
  <2>1. \E x : x # "writeDaemon" /\ Moves(x)
    BY <1>5, StepMoves
  <2>2. SameOwner
    BY <2>1, OwnerMoves
  <2>3. UNCHANGED <<files, backups>>
    BY <1>5 DEF stop, migrate, generationReset, start, bootstrap, restoreDb
  <2> QED BY <2>2, <2>3, FilesSame
<1>6. CASE backup
  <2>1. Moves("backup") /\ cli.op = "update"
    BY <1>6, StepMoves, StepOwner DEF Moves
  <2>2. SameOwner
    BY <2>1, OwnerMoves
  <2>3. files' = files /\ backups' = Append(backups, [files |-> files, db |-> db])
    BY <1>6 DEF backup
  <2>4. files.config # None /\ files.daemon # None
    BY <2>1 DEF FilesInv
  <2>5. \A b \in DOMAIN backups' : backups'[b].files = files \/ (b \in DOMAIN backups /\ backups'[b] = backups[b])
    BY <2>3 DEF TypeInv
  <2> QED BY <2>2, <2>3, <2>4, <2>5 DEF FilesInv, SameOwner
<1>7. CASE swapDaemon
  <2>1. Moves("swapDaemon") /\ cli.op = "update"
    BY <1>7, StepMoves, StepOwner DEF Moves
  <2>2. SameOwner
    BY <2>1, OwnerMoves
  <2>3. cli.target # None
    BY <1>0, <2>1 DEF PlanInv
  <2>4. files'.config = files.config /\ files'.daemon = cli.target /\ backups' = backups
    BY <1>0, <1>7 DEF swapDaemon, Files
  <2> QED BY <2>2, <2>3, <2>4 DEF FilesInv, SameOwner
<1>8. CASE swapExtension \/ writePlist
  <2>1. \E x : x # "writeDaemon" /\ Moves(x)
    BY <1>8, StepMoves
  <2>2. SameOwner
    BY <2>1, OwnerMoves
  <2>3. files'.config = files.config /\ files'.daemon = files.daemon /\ backups' = backups
    BY <1>0, <1>8 DEF swapExtension, writePlist, Files
  <2> QED BY <2>2, <2>3 DEF FilesInv, SameOwner
<1>9. CASE RestoreStep
  <2>1. PICK x \in {"restoreConfig", "restorePlist", "restoreDaemon", "restoreExtension"} : Moves(x)
    BY <1>9, StepMoves DEF RestoreStep
  <2>2. SameOwner
    BY <2>1, OwnerMoves
  <2>3. cli.op \in {"update", "rollback"}
    BY <2>1, StepOwner DEF Moves
  <2>4. cli.backup \in DOMAIN backups /\ backups' = backups
    BY <1>9 DEF RestoreStep, restoreFile
  <2>5. /\ files'.config \in {files.config, backups[cli.backup].files.config}
        /\ files'.daemon \in {files.daemon, backups[cli.backup].files.daemon}
    BY <1>0, <1>9 DEF RestoreStep, restoreFile, Files
  <2> QED BY <2>2, <2>3, <2>4, <2>5 DEF FilesInv, SameOwner
<1>10. CASE writeDaemon
  <2>1. Moves("writeDaemon") /\ cli.op = "install"
    BY <1>10, StepMoves, StepOwner DEF Moves
  <2>2. cli.target # None /\ cli'.op = "install"
    BY <1>0, <2>1 DEF PlanInv, Moves, Kept
  <2>3. files'.config = files.config /\ files'.daemon = cli.target /\ backups' = backups
    BY <1>0, <1>10 DEF writeDaemon, Files
  <2> QED BY <2>2, <2>3 DEF FilesInv
<1>11. CASE writeConfig
  <2>1. Moves("writeConfig") /\ cli.op = "install" /\ cli.phase = "run"
    BY <1>11, StepMoves, StepOwner DEF Moves
  <2>2. ~Has(cli.todo, "writeDaemon")
    BY <2>1, StepTail DEF Moves
  <2>3. SameOwner /\ cli'.op = "install"
    BY <2>1, OwnerMoves DEF Moves, Kept
  <2>4. files'.daemon = files.daemon /\ backups' = backups
    BY <1>0, <1>11 DEF writeConfig, Files
  <2> QED BY <2>1, <2>2, <2>3, <2>4 DEF FilesInv
<1>12. CASE remove
  <2>1. Moves("remove") /\ cli.op \in {"stop", "uninstall"}
    BY <1>12, StepMoves, StepOwner DEF Moves
  <2>2. cli'.op \in {"stop", "uninstall"}
    BY <2>1 DEF Moves, Kept
  <2>3. files'.config = None
    BY <1>12 DEF remove
  <2>4. backups' = backups \/ DOMAIN backups' = {}
    <3>1. backups' = backups \/ backups' = <<>>
      BY <1>12 DEF remove
    <3> QED BY <3>1
  <2> QED BY <2>2, <2>3, <2>4 DEF FilesInv
<1> QED BY <1>1, <1>2, <1>3, <1>4, <1>5, <1>6, <1>7, <1>8, <1>9, <1>10, <1>11, <1>12
        DEF Next, Step, RestoreStep

-----------------------------------------------------------------------------
(* What the steps of an update and of a rollback do to the machine.        *)

Effect(x) ==
  /\ backups' = backups /\ (hardKilled => hardKilled')
  /\ x = "stop" => loaded' = FALSE
  /\ x = "start" => loaded' = TRUE
  /\ x \notin {"stop", "start"} => loaded' = loaded
  /\ x # "restoreDb" => Committed' = Committed
  /\ x \notin {"restoreDb", "reset"} => db'.gen = db.gen
  /\ x = "reset" => db'.gen = db.gen + 1
  /\ x = "restoreDb" => /\ cli.backup \in DOMAIN backups /\ db'.gen = backups[cli.backup].db.gen
                        /\ backups[cli.backup].db.events \subseteq Committed'
  /\ x = "restoreConfig" => /\ cli.backup \in DOMAIN backups
                            /\ files'.config = backups[cli.backup].files.config
  /\ x # "restoreConfig" => files'.config = files.config
  /\ x = "restoreDaemon" => files'.daemon = backups[cli.backup].files.daemon
  /\ x = "swapDaemon" => files'.daemon = cli.target
  /\ x \notin {"restoreDaemon", "swapDaemon"} => files'.daemon = files.daemon
  /\ x \in {"preflight", "verify", "stop", "migrate", "reset", "start", "ready"} => files' = files

\* The store under the steps that stop, open, migrate and reset it.
LEMMA StoreEffects ==
  ASSUME TypeInv
  PROVE  /\ \A killed \in BOOLEAN : stop(killed) => Committed' = Committed /\ db'.gen = db.gen
         /\ migrate => Committed' = Committed /\ db'.gen = db.gen
         /\ generationReset => Committed' = Committed /\ db'.gen = db.gen + 1
         /\ start \/ bootstrap \/ startThrows => Committed' = Committed /\ db'.gen = db.gen
<1>0. db \in Db /\ wal \in Wal
  BY DEF TypeInv
<1>1. /\ Closed(db).events = db.events \cup wal.added /\ Closed(db).gen = db.gen
      /\ Opened(db).events = db.events /\ Opened(db).gen = db.gen
  BY <1>0 DEF Closed, Opened, Db
<1>2. \A d : EmptyLog(d).added = {}
  BY DEF EmptyLog
<1>3. ASSUME NEW killed \in BOOLEAN, stop(killed) PROVE Committed' = Committed /\ db'.gen = db.gen
  BY <1>1, <1>2, <1>3 DEF stop, Committed
<1>4. ASSUME migrate PROVE Committed' = Committed /\ db'.gen = db.gen
  BY <1>1, <1>2, <1>4 DEF migrate, Committed
<1>5. ASSUME generationReset PROVE Committed' = Committed /\ db'.gen = db.gen + 1
  <2> DEFINE d == IF loaded THEN db ELSE Closed(db)
  <2>1. d \in Db
    BY <1>0, StoreTypes DEF Closed
  <2>2. db' = [d EXCEPT !.gen = @ + 1] /\ wal' = IF loaded THEN wal ELSE EmptyLog(db')
    BY <1>5 DEF generationReset
  <2>3. d.gen = db.gen /\ d.events \cup wal'.added = Committed
    BY <1>1, <1>2, <2>2 DEF Committed
  <2> HIDE DEF d
  <2>4. db'.events = d.events /\ db'.gen = d.gen + 1
    BY <2>1, <2>2 DEF Db
  <2> QED BY <2>3, <2>4 DEF Committed
<1>6. ASSUME start \/ bootstrap \/ startThrows PROVE Committed' = Committed /\ db'.gen = db.gen
  BY <1>1, <1>6 DEF start, bootstrap, startThrows, Committed
<1> QED BY <1>3, <1>4, <1>5, <1>6

Ends == EndPhase \/ Throw \/ Finish \/ CliDies

LEMMA Effects ==
  ASSUME TypeInv, PlanInv, FilesInv, cli.op \in {"update", "rollback"}, Step,
         ~backup, ~startThrows, ~Ends
  PROVE  \E x : x # "backup" /\ Moves(x) /\ Effect(x)
<1>0. files \in Files /\ db \in Db /\ wal \in Wal /\ hardKilled \in BOOLEAN
  BY DEF TypeInv
<1>1. ASSUME NEW x \in {"preflight", "verify", "find", "ready"}, Moves(x),
             UNCHANGED <<files, db, wal, loaded, backups, hardKilled>>
      PROVE  \E y : y # "backup" /\ Moves(y) /\ Effect(y)
  <2>1. Effect(x)
    BY <1>1 DEF Effect, Committed
  <2> QED BY <1>1, <2>1
<1>2. CASE preflight \/ verifyTarget \/ verifyBackup \/ verifyRunning
  <2>1. \E x \in {"preflight", "verify", "find", "ready"} : Moves(x)
    BY <1>2, StepMoves
  <2> QED BY <1>1, <1>2, <2>1, Untouched
<1>3. ASSUME NEW killed \in BOOLEAN, stop(killed) PROVE Moves("stop") /\ Effect("stop")
  <2>1. /\ Committed' = Committed /\ db'.gen = db.gen
    BY <1>3, StoreEffects
  <2>2. UNCHANGED <<files, backups>> /\ loaded' = FALSE /\ (hardKilled => hardKilled')
    BY <1>0, <1>3 DEF stop
  <2>3. Effect("stop")
    BY <2>1, <2>2 DEF Effect
  <2> QED BY <1>3, <2>3, StepMoves
<1>4. ASSUME migrate PROVE Moves("migrate") /\ Effect("migrate")
  <2>1. /\ Committed' = Committed /\ db'.gen = db.gen
    BY <1>4, StoreEffects
  <2>2. UNCHANGED <<files, loaded, backups, hardKilled>>
    BY <1>4 DEF migrate
  <2>3. Effect("migrate")
    BY <2>1, <2>2 DEF Effect
  <2> QED BY <1>4, <2>3, StepMoves
<1>5. ASSUME generationReset PROVE Moves("reset") /\ Effect("reset")
  <2>1. /\ Committed' = Committed /\ db'.gen = db.gen + 1
    BY <1>5, StoreEffects
  <2>2. UNCHANGED <<files, loaded, backups, hardKilled>>
    BY <1>5 DEF generationReset
  <2>3. Effect("reset")
    BY <2>1, <2>2 DEF Effect
  <2> QED BY <1>5, <2>3, StepMoves
<1>6. ASSUME start PROVE Moves("start") /\ Effect("start")
  <2>1. /\ Committed' = Committed /\ db'.gen = db.gen
    BY <1>6, StoreEffects
  <2>2. UNCHANGED <<files, backups, hardKilled>> /\ loaded' = TRUE
    BY <1>6 DEF start
  <2>3. Effect("start")
    BY <2>1, <2>2 DEF Effect
  <2> QED BY <1>6, <2>3, StepMoves
<1>7. ASSUME swapDaemon PROVE Moves("swapDaemon") /\ Effect("swapDaemon")
  <2>1. files'.daemon = cli.target /\ files'.config = files.config
    BY <1>0, <1>7 DEF swapDaemon, Files
  <2>2. UNCHANGED <<db, wal, loaded, backups, hardKilled>>
    BY <1>7 DEF swapDaemon
  <2>3. Effect("swapDaemon")
    BY <2>1, <2>2 DEF Effect, Committed
  <2> QED BY <1>7, <2>3, StepMoves
<1>8. ASSUME swapExtension PROVE Moves("swapExtension") /\ Effect("swapExtension")
  <2>1. files'.daemon = files.daemon /\ files'.config = files.config
    BY <1>0, <1>8 DEF swapExtension, Files
  <2>2. UNCHANGED <<db, wal, loaded, backups, hardKilled>>
    BY <1>8 DEF swapExtension
  <2>3. Effect("swapExtension")
    BY <2>1, <2>2 DEF Effect, Committed
  <2> QED BY <1>8, <2>3, StepMoves
<1>9. ASSUME RestoreStep
      PROVE  \E x : x # "backup" /\ Moves(x) /\ Effect(x)
  <2>1. cli.backup \in DOMAIN backups /\ UNCHANGED <<db, wal, loaded, backups, hardKilled>>
    BY <1>9 DEF RestoreStep, restoreFile
  <2>2. backups[cli.backup].files.config # None /\ backups[cli.backup].files.daemon # None
    BY <2>1 DEF FilesInv
  <2>3. CASE restoreFile("restoreConfig", "config")
    <3>1. files'.config = backups[cli.backup].files.config /\ files'.daemon = files.daemon
      BY <1>0, <2>2, <2>3 DEF restoreFile, Files
    <3>2. Effect("restoreConfig")
      BY <2>1, <3>1 DEF Effect, Committed
    <3> QED BY <2>3, <3>2, StepMoves
  <2>4. CASE restoreFile("restoreDaemon", "daemon")
    <3>1. files'.config = files.config /\ files'.daemon = backups[cli.backup].files.daemon
      BY <1>0, <2>2, <2>4 DEF restoreFile, Files
    <3>2. Effect("restoreDaemon")
      BY <2>1, <3>1 DEF Effect, Committed
    <3> QED BY <2>4, <3>2, StepMoves
  <2>5. CASE restoreFile("restorePlist", "plist")
    <3>1. files'.config = files.config /\ files'.daemon = files.daemon
      BY <1>0, <2>5 DEF restoreFile, Files
    <3>2. Effect("restorePlist")
      BY <2>1, <3>1 DEF Effect, Committed
    <3> QED BY <2>5, <3>2, StepMoves
  <2>6. CASE restoreFile("restoreExtension", "extension")
    <3>1. files'.config = files.config /\ files'.daemon = files.daemon
      BY <1>0, <2>6 DEF restoreFile, Files
    <3>2. Effect("restoreExtension")
      BY <2>1, <3>1 DEF Effect, Committed
    <3> QED BY <2>6, <3>2, StepMoves
  <2> QED BY <1>9, <2>3, <2>4, <2>5, <2>6 DEF RestoreStep
<1>10. ASSUME restoreDb PROVE Moves("restoreDb") /\ Effect("restoreDb")
  <2>1. /\ cli.backup \in DOMAIN backups /\ db' = backups[cli.backup].db
        /\ UNCHANGED <<files, loaded, backups, hardKilled>>
    BY <1>10 DEF restoreDb
  <2>2. Effect("restoreDb")
    BY <2>1 DEF Effect, Committed
  <2> QED BY <1>10, <2>2, StepMoves
<1>11. ~writeDaemon /\ ~writeConfig /\ ~writePlist /\ ~captureLoginEnv /\ ~bootstrap
  BY StepOwner DEF writeDaemon, writeConfig, writePlist, captureLoginEnv, bootstrap
<1>12. ~remove /\ ~listRoutes /\ ~setRoutes /\ ~mark /\ ~findOwned /\ ~off /\ ~unmark
  BY StepOwner DEF remove, listRoutes, setRoutes, mark, findOwned, off, unmark
<1> QED BY <1>2, <1>3, <1>4, <1>5, <1>6, <1>7, <1>8, <1>9, <1>10, <1>11, <1>12
        DEF Step, Ends, RestoreStep

-----------------------------------------------------------------------------
(* Rollback.                                                               *)

LEMMA RollbackMoves ==
  ASSUME TypeInv, PlanInv, RollbackInv, cli.op = "rollback",
         NEW x, x # "backup", Moves(x), Effect(x)
  PROVE  RollbackInv'
<1> DEFINE t == Tail(cli.todo)
<1>1. /\ At(x) /\ cli'.todo = t /\ cli'.op = cli.op /\ cli'.phase = cli.phase /\ cli'.cls = cli.cls
      /\ cli'.backup = cli.backup
  BY DEF Moves, Kept
<1>2. cli.phase = "run"
  BY <1>1, StepOwner
<1>3. RollbackRun
  BY <1>2 DEF RollbackInv
<1>4. /\ \A y : Has(cli.todo, y) <=> (y = x \/ Has(t, y))
      /\ x = "start" => ~Has(t, "stop")
      /\ x = "reset" => ~Has(t, "restoreDb") /\ ~Has(t, "reset")
  BY <1>1, StepTail
<1>5. db.gen \in Nat /\ backups' = backups
  BY DEF TypeInv, Db, Effect
<1> HIDE DEF t
<1>6. ~Has(t, "restoreConfig") => cli.backup \in DOMAIN backups /\ files'.config = backups[cli.backup].files.config
  BY <1>3, <1>4 DEF RollbackRun, Effect
<1>7. ~Has(t, "restoreDb") => /\ cli.backup \in DOMAIN backups
                              /\ backups[cli.backup].db.events \subseteq Committed'
  BY <1>3, <1>4 DEF RollbackRun, Restored, Effect
<1>8. ASSUME cli.cls = "restore_required"
      PROVE  /\ Has(t, "restoreDb") => Has(t, "reset")
             /\ ~Has(t, "restoreDb") =>
                  db'.gen = backups[cli.backup].db.gen + (IF Has(t, "reset") THEN 0 ELSE 1)
  <2>1. Has(t, "restoreDb") => Has(t, "reset")
    BY <1>3, <1>4, <1>8 DEF RollbackRun
  <2>2. CASE x = "restoreDb"
    <3>1. cli.backup \in DOMAIN backups /\ db'.gen = backups[cli.backup].db.gen
      BY <2>2 DEF Effect
    <3>2. Has(t, "reset")
      BY <1>3, <1>4, <1>8, <2>2 DEF RollbackRun
    <3>3. backups[cli.backup].db.gen \in Nat
      BY <3>1, BackupType DEF TypeInv, Db
    <3> QED BY <2>1, <3>1, <3>2, <3>3
  <2>3. CASE x = "reset"
    <3>1. ~Has(cli.todo, "restoreDb") /\ Has(cli.todo, "reset")
      BY <1>4, <2>3
    <3>2. cli.backup \in DOMAIN backups /\ db.gen = backups[cli.backup].db.gen + 0
      BY <1>3, <1>8, <3>1 DEF RollbackRun, Restored
    <3>3. backups[cli.backup].db.gen \in Nat
      BY <3>2, BackupType DEF TypeInv, Db
    <3>4. db'.gen = backups[cli.backup].db.gen + 1
      BY <2>3, <3>2, <3>3 DEF Effect
    <3> QED BY <1>4, <2>1, <2>3, <3>4
  <2>4. CASE x \notin {"restoreDb", "reset"}
    <3>1. (Has(t, "restoreDb") <=> Has(cli.todo, "restoreDb")) /\ (Has(t, "reset") <=> Has(cli.todo, "reset"))
      BY <1>4, <2>4
    <3>2. db'.gen = db.gen
      BY <2>4 DEF Effect
    <3>3. ~Has(cli.todo, "restoreDb") =>
            db.gen = backups[cli.backup].db.gen + (IF Has(cli.todo, "reset") THEN 0 ELSE 1)
      BY <1>3, <1>8 DEF RollbackRun
    <3> QED BY <2>1, <3>1, <3>2, <3>3
  <2> QED BY <2>2, <2>3, <2>4
<1>9. ~Has(t, "start") => loaded' /\ ~Has(t, "stop")
  <2>1. CASE x = "start"
    BY <1>4, <2>1 DEF Effect
  <2>2. CASE x # "start"
    <3>1. ~Has(t, "start") => loaded /\ ~Has(cli.todo, "stop")
      BY <1>3, <1>4, <2>2 DEF RollbackRun
    <3>2. Has(t, "stop") => Has(cli.todo, "stop")
      BY <1>4
    <3>3. x = "stop" => Has(cli.todo, "stop")
      BY <1>4
    <3>4. x # "stop" => loaded' = loaded
      BY <2>2 DEF Effect
    <3> QED BY <3>1, <3>2, <3>3, <3>4, Zenon
  <2> QED BY <2>1, <2>2
<1>10. RollbackRun'
  BY <1>1, <1>5, <1>6, <1>7, <1>8, <1>9 DEF RollbackRun, Restored
<1> QED BY <1>1, <1>2, <1>10 DEF RollbackInv

\* A rollback ends.
LEMMA RollbackEnd ==
  ASSUME TypeInv, PlanInv, RollbackInv, cli.op = "rollback",
         \/ cli' = Idle
         \/ cli' = Failed(cli) /\ cli.todo # <<>>
         \/ cli' = Succeeded(cli) /\ cli.todo = <<>> /\ cli.phase # "report" /\ UNCHANGED <<files, db, wal, loaded, backups>>
  PROVE  RollbackInv'
<1> cli \in Cli
  BY DEF TypeInv
<1>1. CASE cli' = Idle
  BY <1>1 DEF RollbackInv, Idle
<1>2. CASE cli' = Failed(cli) /\ cli.todo # <<>>
  <2>1. At(Head(cli.todo))
    BY <1>2 DEF At
  <2>2. cli.phase # "report"
    BY <2>1, StepTail
  <2>3. ~cli'.ok /\ cli'.phase = "report"
    BY <1>2, <2>2, FailedCli DEF PlanInv
  <2> QED BY <2>3 DEF RollbackInv, RollbackDone
<1>3. CASE cli' = Succeeded(cli) /\ cli.todo = <<>> /\ cli.phase # "report" /\ UNCHANGED <<files, db, wal, loaded, backups>>
  <2>1. cli.phase = "run"
    BY <1>3 DEF PlanInv, Cli
  <2>2. RollbackRun /\ \A y : ~Has(cli.todo, y)
    BY <1>3, <2>1, NoSteps DEF RollbackInv
  <2>3. cli'.phase = "report" /\ cli'.backup = cli.backup /\ cli'.cls = cli.cls
    BY <1>3, <2>1, SucceededCli DEF Same
  <2>4. Committed' = Committed
    BY <1>3 DEF Committed
  <2>5. RollbackDone'
    BY <1>3, <2>2, <2>3, <2>4 DEF RollbackDone, RollbackRun, Restored
  <2> QED BY <2>3, <2>5 DEF RollbackInv
<1> QED BY <1>1, <1>2, <1>3

\* The daemon commits, and what was committed stays.
LEMMA CommitEffect ==
  ASSUME TypeInv, Commit
  PROVE  /\ Committed \subseteq Committed'
         /\ UNCHANGED <<files, db, loaded, backups, cli, hardKilled>>
<1>1. PICK e \in 1 .. MaxEvents :
         wal' = IF wal.added = {} THEN [base |-> db.events, added |-> {e}]
                ELSE [wal EXCEPT !.added = @ \cup {e}]
  BY CommitEvent
<1>2. wal.added \subseteq wal'.added
  BY <1>1 DEF TypeInv, Wal
<1>3. UNCHANGED <<files, db, loaded, backups, cli, hardKilled>>
  BY DEF Commit
<1> QED BY <1>2, <1>3 DEF Committed

LEMMA RollbackStep ==
  ASSUME TypeInv, PlanInv, FilesInv, RollbackInv, [Next]_vars
  PROVE  RollbackInv'
<1>1. CASE Command
  <2>1. Begun
    BY <1>1, CommandBegins
  <2>2. cli'.op = "rollback" => RollbackRun'
    BY <2>1 DEF Begun, RollbackRun
  <2>3. cli'.phase = "run"
    BY <2>1 DEF Begun
  <2> QED BY <2>2, <2>3 DEF RollbackInv
<1>2. ASSUME Ends \/ startThrows PROVE RollbackInv'
  <2>1. \/ cli' = Idle
        \/ cli' = Failed(cli) /\ cli.todo # <<>>
        \/ cli' = Succeeded(cli) /\ cli.todo = <<>> /\ cli.phase # "report" /\ UNCHANGED <<files, db, wal, loaded, backups>>
    BY <1>2, EndForms DEF Ends, startThrows, At
  <2>2. CASE cli.op = "rollback"
    BY <2>1, <2>2, RollbackEnd
  <2>3. CASE cli.op # "rollback"
    <3>1. cli'.op # "rollback"
      BY <2>1, <2>3, NextPhase
    <3> QED BY <3>1 DEF RollbackInv
  <2> QED BY <2>2, <2>3
<1>3. CASE Commit
  <2>1. Committed \subseteq Committed' /\ UNCHANGED <<files, db, loaded, backups, cli>>
    BY <1>3, CommitEffect
  <2> QED BY <2>1 DEF RollbackInv, RollbackRun, RollbackDone, Restored
<1>4. ASSUME UNCHANGED <<files, db, wal, loaded, backups, cli>> PROVE RollbackInv'
  BY <1>4 DEF RollbackInv, RollbackRun, RollbackDone, Restored, Committed
<1>5. CASE (World /\ ~Commit) \/ UNCHANGED vars
  <2>1. UNCHANGED <<files, db, wal, loaded, backups, cli>>
    BY <1>5 DEF World, PiSavesSession, OtherService, vars
  <2> QED BY <1>4, <2>1
<1>6. CASE Step /\ ~Ends /\ ~startThrows
  <2>1. CASE cli.op = "rollback"
    <3>1. ~backup
      BY <2>1, StepOwner DEF backup
    <3>2. PICK x : x # "backup" /\ Moves(x) /\ Effect(x)
      BY <1>6, <2>1, <3>1, Effects
    <3> QED BY <2>1, <3>2, RollbackMoves
  <2>2. CASE cli.op # "rollback"
    <3>1. CASE RestoreStep
      <4>1. cli'.op = cli.op
        BY <3>1, StepMoves DEF RestoreStep, Moves, Kept
      <4> QED BY <2>2, <4>1 DEF RollbackInv
    <3>2. CASE ~RestoreStep
      <4>1. (\E x : Moves(x)) \/ Skips
        BY <1>6, <3>2, StepMoves DEF Step, Ends, RestoreStep
      <4>2. cli'.op = cli.op
        BY <4>1 DEF Moves, Skips, Kept
      <4> QED BY <2>2, <4>2 DEF RollbackInv
    <3> QED BY <3>1, <3>2
  <2> QED BY <2>1, <2>2
<1> QED BY <1>1, <1>2, <1>3, <1>5, <1>6 DEF Next

-----------------------------------------------------------------------------
(* Update.                                                                 *)

\* The part of the invariant about an update that has put its backup back.
RolledBack ==
  cli.rolledBack =>
    /\ cli.backup # 0
    /\ files.daemon = backups[cli.backup].files.daemon
    /\ files.config = backups[cli.backup].files.config
    /\ backups[cli.backup].db.events \subseteq Committed

\* The backup of an update stays what it was.
LEMMA BackupKept ==
  ASSUME UpdateBackup, backups' = backups, cli'.backup = cli.backup, cli'.before = cli.before,
         hardKilled => hardKilled'
  PROVE  UpdateBackup'
BY DEF UpdateBackup

LEMMA UpdateRunMoves ==
  ASSUME TypeInv, PlanInv, UpdateInv, cli.op = "update", cli.phase = "run",
         NEW x, x # "backup", Moves(x), Effect(x)
  PROVE  UpdateInv'
<1> DEFINE t == Tail(cli.todo)
<1>1. /\ At(x) /\ cli'.todo = t /\ cli'.op = cli.op /\ cli'.phase = cli.phase
      /\ cli'.backup = cli.backup /\ cli'.before = cli.before /\ cli'.target = cli.target
      /\ cli'.rolledBack = cli.rolledBack
  BY DEF Moves, Kept
<1>2. /\ x \in UpdateSteps
      /\ \A y : Has(cli.todo, y) <=> (y = x \/ Has(t, y))
      /\ x = "start" => ~Has(t, "stop") /\ ~Has(t, "start") /\ ~Has(t, "backup")
      /\ x \in {"swapDaemon", "swapExtension"} => ~Has(t, "backup")
  BY <1>1, StepTail DEF StepsOf
<1>3. UpdateRun /\ UpdateBackup
  BY DEF UpdateInv
<1>4. UpdateBackup'
  BY <1>1, <1>3, BackupKept DEF Effect
<1> HIDE DEF t
<1>5. Has(t, "backup") => files' = cli.before.files /\ cli.backup = 0 /\ Has(t, "start")
  <2>1. Has(t, "backup") => x \notin {"start", "swapDaemon", "swapExtension", "backup"}
    BY <1>2
  <2>2. Has(t, "backup") => files = cli.before.files /\ cli.backup = 0 /\ Has(t, "start")
    BY <1>2, <1>3, <2>1 DEF UpdateRun
  <2>3. Has(t, "backup") => files' = files
    BY <1>2, <2>1 DEF Effect, UpdateSteps
  <2> QED BY <2>2, <2>3
<1>6. cli.before.events \subseteq Committed'
  <2>1. x # "restoreDb"
    BY <1>2 DEF UpdateSteps
  <2> QED BY <1>3, <2>1 DEF UpdateRun, Effect
<1>7. Has(t, "start") /\ ~Has(t, "stop") => ~loaded'
  <2>1. CASE x = "stop"
    BY <2>1 DEF Effect
  <2>2. CASE x # "stop"
    <3>1. Has(t, "start") => x # "start" /\ Has(cli.todo, "start")
      BY <1>2
    <3>2. ~Has(t, "stop") => ~Has(cli.todo, "stop")
      BY <1>2, <2>2
    <3>3. x # "start" => loaded' = loaded
      BY <2>2 DEF Effect
    <3>4. Has(cli.todo, "start") /\ ~Has(cli.todo, "stop") => ~loaded
      BY <1>3 DEF UpdateRun
    <3> QED BY <3>1, <3>2, <3>3, <3>4, Zenon
  <2> QED BY <2>1, <2>2
<1>8. ~Has(t, "start") => loaded' /\ ~Has(t, "stop")
  <2>1. CASE x = "start"
    BY <1>2, <2>1 DEF Effect
  <2>2. CASE x # "start"
    <3>1. ~Has(t, "start") => loaded /\ ~Has(cli.todo, "stop")
      BY <1>2, <1>3, <2>2 DEF UpdateRun
    <3>2. (Has(t, "stop") => Has(cli.todo, "stop")) /\ (x = "stop" => Has(cli.todo, "stop"))
      BY <1>2
    <3>3. x # "stop" => loaded' = loaded
      BY <2>2 DEF Effect
    <3> QED BY <3>1, <3>2, <3>3, Zenon
  <2> QED BY <2>1, <2>2
<1>9. ~Has(t, "swapDaemon") => files'.daemon = cli.target
  <2>1. CASE x = "swapDaemon"
    BY <2>1 DEF Effect
  <2>2. CASE x # "swapDaemon"
    <3>1. x # "restoreDaemon"
      BY <1>2 DEF UpdateSteps
    <3> QED BY <1>2, <1>3, <2>2, <3>1 DEF Effect, UpdateRun
  <2> QED BY <2>1, <2>2
<1>10. ~cli.rolledBack
  BY <1>3 DEF UpdateRun
<1>11. UpdateRun'
  BY <1>1, <1>5, <1>6, <1>7, <1>8, <1>9, <1>10 DEF UpdateRun
<1> QED BY <1>1, <1>4, <1>10, <1>11 DEF UpdateInv

\* The backup an update takes holds everything committed before it.
LEMMA UpdateTakesBackup ==
  ASSUME TypeInv, PlanInv, LogInv, UpdateInv, backup
  PROVE  UpdateInv'
<1> DEFINE t == Tail(cli.todo)
<1>1. /\ Moves("backup") /\ At("backup") /\ cli'.todo = t /\ cli'.op = cli.op /\ cli'.phase = cli.phase
      /\ cli'.before = cli.before /\ cli'.target = cli.target /\ cli'.rolledBack = cli.rolledBack
  BY StepMoves DEF Moves, Kept
<1>2. cli.op = "update" /\ cli.phase = "run"
  BY <1>1, StepOwner
<1>3. UpdateRun
  BY <1>2 DEF UpdateInv
<1>4. /\ \A y : Has(cli.todo, y) <=> (y = "backup" \/ Has(t, y))
      /\ ~Has(t, "stop") /\ ~Has(t, "backup")
  BY <1>1, StepTail
<1>5. Has(cli.todo, "backup") /\ ~Has(cli.todo, "stop")
  BY <1>4
<1>6. Has(cli.todo, "start") /\ ~loaded /\ files = cli.before.files
  BY <1>3, <1>5 DEF UpdateRun
<1>7. ~hardKilled => cli.before.events \subseteq db.events
  BY <1>3, <1>6 DEF UpdateRun, LogInv, Committed
<1>8. /\ backups' = Append(backups, [files |-> files, db |-> db])
      /\ UNCHANGED <<files, db, wal, loaded, hardKilled>>
  BY DEF backup
<1>9. cli'.backup = Len(backups) + 1
  <2>1. cli.todo # <<>> /\ cli' = [Done EXCEPT !.backup = Len(backups) + 1]
    BY DEF backup, At
  <2> QED BY <2>1, DoneCli DEF Cli
<1>10. /\ Len(backups) + 1 \in DOMAIN backups'
       /\ backups'[Len(backups) + 1] = [files |-> files, db |-> db]
  BY <1>8 DEF TypeInv
<1>11. UpdateBackup'
  BY <1>1, <1>6, <1>7, <1>8, <1>9, <1>10 DEF UpdateBackup
<1>12. Committed' = Committed
  BY <1>8 DEF Committed
<1> HIDE DEF t
<1>13. UpdateRun'
  BY <1>1, <1>3, <1>4, <1>6, <1>8, <1>12 DEF UpdateRun
<1>14. ~cli'.rolledBack
  BY <1>1, <1>3 DEF UpdateRun
<1> QED BY <1>1, <1>2, <1>11, <1>13, <1>14 DEF UpdateInv

LEMMA UpdateRestoreMoves ==
  ASSUME TypeInv, PlanInv, UpdateInv, cli.op = "update", cli.phase = "restore",
         NEW x, x # "backup", Moves(x), Effect(x)
  PROVE  UpdateInv'
<1> DEFINE t == Tail(cli.todo)
<1>1. /\ At(x) /\ cli'.todo = t /\ cli'.op = cli.op /\ cli'.phase = cli.phase /\ cli'.cls = cli.cls
      /\ cli'.backup = cli.backup /\ cli'.before = cli.before /\ cli'.rolledBack = cli.rolledBack
  BY DEF Moves, Kept
<1>2. /\ x \in RestoreSteps
      /\ \A y : Has(cli.todo, y) <=> (y = x \/ Has(t, y))
      /\ x = "start" => ~Has(t, "stop")
  BY <1>1, StepTail DEF StepsOf
<1>3. UpdateRestore /\ UpdateBackup
  BY DEF UpdateInv
<1>4. UpdateBackup' /\ backups' = backups
  BY <1>1, <1>3, BackupKept DEF Effect
<1> HIDE DEF t
<1>5. x \notin {"reset", "swapDaemon"}
  BY <1>2 DEF RestoreSteps
<1>6. ~Has(t, "restoreDaemon") => files'.daemon = backups[cli.backup].files.daemon
  BY <1>2, <1>3, <1>5 DEF UpdateRestore, Effect
<1>7. ~Has(t, "restoreConfig") => files'.config = backups[cli.backup].files.config
  BY <1>2, <1>3 DEF UpdateRestore, Effect
<1>8. ~Has(t, "restoreDb") =>
        db'.gen = backups[cli.backup].db.gen /\ backups[cli.backup].db.events \subseteq Committed'
  BY <1>2, <1>3, <1>5 DEF UpdateRestore, Effect
<1>9. cli.cls # "restore_required" /\ ~Has(t, "start") => loaded' /\ ~Has(t, "stop")
  <2>1. CASE x = "start"
    BY <1>2, <2>1 DEF Effect
  <2>2. CASE x # "start"
    <3>1. cli.cls # "restore_required" /\ ~Has(t, "start") => loaded /\ ~Has(cli.todo, "stop")
      BY <1>2, <1>3, <2>2 DEF UpdateRestore
    <3>2. (Has(t, "stop") => Has(cli.todo, "stop")) /\ (x = "stop" => Has(cli.todo, "stop"))
      BY <1>2
    <3>3. x # "stop" => loaded' = loaded
      BY <2>2 DEF Effect
    <3> QED BY <3>1, <3>2, <3>3, Zenon
  <2> QED BY <2>1, <2>2
<1>10. cli.backup # 0 /\ ~cli.rolledBack
  BY <1>3 DEF UpdateRestore
<1>11. UpdateRestore'
  BY <1>1, <1>4, <1>6, <1>7, <1>8, <1>9, <1>10 DEF UpdateRestore
<1> QED BY <1>1, <1>4, <1>10, <1>11 DEF UpdateInv

LEMMA UpdateResetMoves ==
  ASSUME TypeInv, PlanInv, UpdateInv, cli.op = "update", cli.phase = "reset",
         NEW x, x # "backup", Moves(x), Effect(x)
  PROVE  UpdateInv'
<1> DEFINE t == Tail(cli.todo)
<1>1. /\ At(x) /\ cli'.todo = t /\ cli'.op = cli.op /\ cli'.phase = cli.phase /\ cli'.cls = cli.cls
      /\ cli'.backup = cli.backup /\ cli'.before = cli.before /\ cli'.rolledBack = cli.rolledBack
  BY DEF Moves, Kept
<1>2. /\ x \in ResetSteps
      /\ \A y : Has(cli.todo, y) <=> (y = x \/ Has(t, y))
      /\ x = "reset" => ~Has(t, "reset")
  BY <1>1, StepTail DEF StepsOf
<1>3. UpdateReset /\ UpdateBackup /\ RolledBack
  BY DEF UpdateInv, RolledBack
<1>4. UpdateBackup' /\ backups' = backups
  BY <1>1, <1>3, BackupKept DEF Effect
<1> HIDE DEF t
<1>5. x \in {"reset", "start", "ready"}
  BY <1>2 DEF ResetSteps
<1>6. files' = files /\ Committed' = Committed
  BY <1>5 DEF Effect
<1>7. RolledBack'
  BY <1>1, <1>3, <1>4, <1>6 DEF RolledBack
<1>8. ~Has(t, "start") => loaded'
  <2>1. CASE x = "start"
    BY <2>1 DEF Effect
  <2>2. CASE x # "start"
    <3>1. ~Has(t, "start") => loaded
      BY <1>2, <1>3, <2>2 DEF UpdateReset
    <3>2. loaded' = loaded
      BY <1>5, <2>2 DEF Effect
    <3> QED BY <3>1, <3>2
  <2> QED BY <2>1, <2>2
<1>9. cli.rolledBack => db'.gen = backups[cli.backup].db.gen + (IF Has(t, "reset") THEN 0 ELSE 1)
  <2> SUFFICES ASSUME cli.rolledBack
               PROVE  db'.gen = backups[cli.backup].db.gen + (IF Has(t, "reset") THEN 0 ELSE 1)
    OBVIOUS
  <2>1. cli.backup \in DOMAIN backups
    BY <1>3 DEF RolledBack, UpdateBackup
  <2>2. backups[cli.backup].db.gen \in Nat
    BY <2>1, BackupType DEF TypeInv, Db
  <2>3. db.gen = backups[cli.backup].db.gen + (IF Has(cli.todo, "reset") THEN 0 ELSE 1)
    BY <1>3 DEF UpdateReset
  <2>4. CASE x = "reset"
    <3>1. db.gen = backups[cli.backup].db.gen
      BY <1>2, <2>2, <2>3, <2>4
    <3> QED BY <1>2, <2>2, <2>4, <3>1 DEF Effect
  <2>5. CASE x # "reset"
    <3>1. db'.gen = db.gen
      BY <1>5, <2>5 DEF Effect
    <3>2. Has(t, "reset") <=> Has(cli.todo, "reset")
      BY <1>2, <2>5
    <3> QED BY <2>3, <3>1, <3>2
  <2> QED BY <2>4, <2>5
<1>10. UpdateReset'
  BY <1>1, <1>3, <1>4, <1>8, <1>9 DEF UpdateReset
<1> QED BY <1>1, <1>4, <1>7, <1>10 DEF UpdateInv, RolledBack

\* An update that failed before its backup, or whose backup could not be put
\* back, goes on to the reset of its class or reports.
LEMMA UpdateToReset ==
  ASSUME TypeInv, PlanInv, cli.op = "update", ~cli.rolledBack, cli.phase # "report",
         cli' = ResetNext(cli), UpdateBackup'
  PROVE  UpdateInv'
<1> cli \in Cli
  BY DEF TypeInv
<1>1. ~cli'.rolledBack /\ ~cli'.ok /\ cli'.cls = cli.cls
  BY ResetNextCli DEF Same, PlanInv
<1>2. CASE cli.cls = "restore_required"
  <2>1. cli'.phase = "reset" /\ cli'.todo = resetHook
    BY <1>2, ResetNextCli
  <2>2. UpdateReset'
    BY <1>1, <1>2, <2>1, ResetPlan DEF UpdateReset
  <2> QED BY <1>1, <2>1, <2>2 DEF UpdateInv
<1>3. CASE cli.cls # "restore_required"
  <2>1. cli'.phase = "report"
    BY <1>3, ResetNextCli
  <2>2. UpdateDone'
    BY <1>1 DEF UpdateDone
  <2> QED BY <1>1, <2>1, <2>2 DEF UpdateInv
<1> QED BY <1>2, <1>3

\* A step of an update throws; the start of the daemon may do so after it
\* started it.
LEMMA UpdateFails ==
  ASSUME TypeInv, PlanInv, UpdateInv, cli.op = "update", cli.todo # <<>>, cli' = Failed(cli),
         UNCHANGED <<files, backups, hardKilled>>, Committed' = Committed, db'.gen = db.gen
  PROVE  UpdateInv'
<1> cli \in Cli
  BY DEF TypeInv
<1>1. At(Head(cli.todo))
  BY DEF At
<1>2. cli.phase \in {"run", "restore", "reset"}
  BY <1>1, StepTail DEF Cli
<1>3. /\ cli'.op = "update" /\ cli'.backup = cli.backup /\ cli'.before = cli.before /\ cli'.cls = cli.cls
      /\ cli'.rolledBack = cli.rolledBack /\ ~cli'.ok /\ ~cli'.resetDone
  BY <1>2, FailedCli DEF Same, PlanInv
<1>4. UpdateBackup'
  BY <1>3, BackupKept DEF UpdateInv
<1>5. CASE cli.phase = "run" /\ cli.backup # 0
  <2>1. cli'.phase = "restore" /\ cli'.todo = restoreHook(cli.cls)
    BY <1>5, FailedCli
  <2>2. ~cli.rolledBack
    BY <1>5 DEF UpdateInv, UpdateRun
  <2>3. UpdateRestore'
    BY <1>3, <1>5, <2>1, <2>2, RestorePlan DEF UpdateRestore
  <2> QED BY <1>3, <1>4, <2>1, <2>2, <2>3 DEF UpdateInv
<1>6. CASE (cli.phase = "run" /\ cli.backup = 0) \/ cli.phase = "restore"
  <2>1. cli' = ResetNext(cli)
    BY <1>6, FailedCli
  <2>2. ~cli.rolledBack
    BY <1>6 DEF UpdateInv, UpdateRun, UpdateRestore
  <2> QED BY <1>2, <1>4, <2>1, <2>2, UpdateToReset
<1>7. CASE cli.phase = "reset"
  <2>1. cli'.phase = "report"
    BY <1>7, FailedCli
  <2>2. cli.cls = "restore_required"
    BY <1>7 DEF UpdateInv, UpdateReset
  <2>3. UpdateDone'
    BY <1>3, <2>2 DEF UpdateDone
  <2>4. RolledBack'
    BY <1>3 DEF UpdateInv, RolledBack
  <2> QED BY <1>4, <2>1, <2>3, <2>4 DEF UpdateInv, RolledBack
<1> QED BY <1>2, <1>5, <1>6, <1>7

\* A phase of an update succeeds.
LEMMA UpdateSucceeds ==
  ASSUME TypeInv, PlanInv, UpdateInv, cli.op = "update", cli.todo = <<>>, cli.phase # "report",
         cli' = Succeeded(cli), UNCHANGED <<files, db, wal, loaded, backups, hardKilled>>
  PROVE  UpdateInv'
<1> cli \in Cli
  BY DEF TypeInv
<1>1. \A y : ~Has(cli.todo, y)
  BY NoSteps
<1>2. /\ cli'.op = "update" /\ cli'.backup = cli.backup /\ cli'.before = cli.before
      /\ cli'.cls = cli.cls /\ cli'.target = cli.target
  BY SucceededCli DEF Same
<1>3. UpdateBackup' /\ Committed' = Committed
  BY <1>2, BackupKept DEF UpdateInv, Committed
<1>4. CASE cli.phase = "run"
  <2>1. UpdateRun
    BY <1>4 DEF UpdateInv
  <2>2. cli'.phase = "report" /\ cli'.rolledBack = cli.rolledBack
    BY <1>4, SucceededCli
  <2>3. ~cli.rolledBack /\ loaded /\ files.daemon = cli.target /\ cli.before.events \subseteq Committed
    BY <1>1, <2>1 DEF UpdateRun
  <2>4. UpdateDone'
    BY <1>2, <1>3, <2>2, <2>3 DEF UpdateDone
  <2> QED BY <1>3, <2>2, <2>3, <2>4 DEF UpdateInv
<1>5. CASE cli.phase = "restore"
  <2>1. UpdateRestore
    BY <1>5 DEF UpdateInv
  <2>2. cli'.rolledBack /\ ~cli'.ok
    BY <1>5, SucceededCli DEF PlanInv
  <2>3. RolledBack'
    BY <1>1, <1>2, <1>3, <2>1 DEF RolledBack, UpdateRestore
  <2>4. CASE cli.cls = "restore_required"
    <3>1. cli'.phase = "reset" /\ cli'.todo = resetHook
      BY <1>5, <2>4, SucceededCli
    <3>2. cli.backup \in DOMAIN backups
      BY <2>1 DEF UpdateInv, UpdateBackup, UpdateRestore
    <3>3. db.gen = backups[cli.backup].db.gen /\ backups[cli.backup].db.gen \in Nat
      BY <1>1, <2>1, <3>2, BackupType DEF UpdateRestore, TypeInv, Db
    <3>4. db'.gen = backups'[cli'.backup].db.gen + (IF Has(cli'.todo, "reset") THEN 0 ELSE 1)
      BY <1>2, <3>1, <3>3, ResetPlan
    <3>5. UpdateReset'
      BY <1>2, <2>4, <3>1, <3>4, ResetPlan DEF UpdateReset
    <3> QED BY <1>3, <2>3, <3>1, <3>5 DEF UpdateInv, RolledBack
  <2>5. CASE cli.cls # "restore_required"
    <3>1. cli'.phase = "report"
      BY <1>5, <2>5, SucceededCli
    <3>2. loaded
      BY <1>1, <2>1, <2>5 DEF UpdateRestore
    <3>3. UpdateDone'
      BY <1>2, <2>2, <2>5, <3>2 DEF UpdateDone
    <3> QED BY <1>3, <2>3, <3>1, <3>3 DEF UpdateInv, RolledBack
  <2> QED BY <2>4, <2>5
<1>6. CASE cli.phase = "reset"
  <2>1. UpdateReset
    BY <1>6 DEF UpdateInv
  <2>2. cli'.phase = "report" /\ cli'.rolledBack = cli.rolledBack /\ ~cli'.ok
    BY <1>6, SucceededCli DEF PlanInv
  <2>3. RolledBack'
    BY <1>2, <1>3, <2>2 DEF UpdateInv, RolledBack
  <2>4. loaded /\ (cli.rolledBack => db.gen = backups[cli.backup].db.gen + 1)
    BY <1>1, <2>1 DEF UpdateReset
  <2>5. UpdateDone'
    BY <1>2, <2>2, <2>4 DEF UpdateDone
  <2> QED BY <1>3, <2>2, <2>3, <2>5 DEF UpdateInv, RolledBack
<1> QED BY <1>4, <1>5, <1>6 DEF Cli

LEMMA UpdateStep ==
  ASSUME TypeInv, PlanInv, LogInv, FilesInv, UpdateInv, [Next]_vars
  PROVE  UpdateInv'
<1>1. CASE Command
  <2>1. Begun /\ UNCHANGED <<files, db, wal, loaded, backups, hardKilled>>
    BY <1>1, CommandBegins
  <2>2. cli'.phase = "run" /\ ~cli'.rolledBack /\ Committed' = Committed
    BY <2>1 DEF Begun, Committed
  <2>3. ASSUME cli'.op = "update" PROVE UpdateRun' /\ UpdateBackup'
    BY <2>1, <2>2, <2>3 DEF Begun, UpdateRun, UpdateBackup
  <2> QED BY <2>2, <2>3 DEF UpdateInv
<1>2. CASE Ends
  <2>1. UNCHANGED <<files, db, wal, loaded, backups, hardKilled>> /\ Committed' = Committed
    BY <1>2, EndForms DEF Ends, Committed
  <2>2. \/ cli' = Idle
        \/ cli' = Failed(cli) /\ cli.todo # <<>>
        \/ cli' = Succeeded(cli) /\ cli.todo = <<>> /\ cli.phase # "report"
    BY <1>2, EndForms DEF Ends
  <2>3. CASE cli.op = "update"
    <3>1. CASE cli' = Idle
      BY <3>1 DEF UpdateInv, Idle
    <3>2. CASE cli' # Idle
      BY <2>1, <2>2, <2>3, <3>2, UpdateFails, UpdateSucceeds
    <3> QED BY <3>1, <3>2
  <2>4. CASE cli.op # "update"
    <3>1. cli'.op # "update"
      BY <2>2, <2>4, NextPhase
    <3> QED BY <3>1 DEF UpdateInv
  <2> QED BY <2>3, <2>4
<1>3. CASE startThrows
  <2>1. cli.todo # <<>> /\ cli' = Failed(cli) /\ UNCHANGED <<files, backups, hardKilled>>
    BY <1>3 DEF startThrows, At
  <2>2. Committed' = Committed /\ db'.gen = db.gen
    BY <1>3, StoreEffects
  <2>3. CASE cli.op = "update"
    BY <2>1, <2>2, <2>3, UpdateFails
  <2>4. CASE cli.op # "update"
    <3>1. cli'.op # "update"
      BY <2>1, <2>4, NextPhase
    <3> QED BY <3>1 DEF UpdateInv
  <2> QED BY <2>3, <2>4
<1>4. ASSUME Committed \subseteq Committed', UNCHANGED <<files, db, loaded, backups, cli, hardKilled>>
      PROVE  UpdateInv'
  <2>1. UpdateBackup => UpdateBackup'
    BY <1>4 DEF UpdateBackup
  <2>2. (UpdateRun => UpdateRun') /\ (UpdateDone => UpdateDone')
    BY <1>4 DEF UpdateRun, UpdateDone
  <2>3. (UpdateRestore => UpdateRestore') /\ (UpdateReset => UpdateReset')
    BY <1>4 DEF UpdateRestore, UpdateReset
  <2>4. RolledBack => RolledBack'
    BY <1>4 DEF RolledBack
  <2> QED BY <1>4, <2>1, <2>2, <2>3, <2>4 DEF UpdateInv, RolledBack
<1>5. CASE Commit
  BY <1>4, <1>5, CommitEffect
<1>6. CASE (World /\ ~Commit) \/ UNCHANGED vars
  <2>1. UNCHANGED <<files, db, wal, loaded, backups, cli, hardKilled>>
    BY <1>6 DEF World, PiSavesSession, OtherService, vars
  <2>2. Committed' = Committed
    BY <2>1 DEF Committed
  <2> QED BY <1>4, <2>1, <2>2
<1>7. CASE Step /\ ~Ends /\ ~startThrows
  <2>1. CASE backup
    BY <2>1, UpdateTakesBackup
  <2>2. CASE cli.op = "update" /\ ~backup
    <3>1. PICK x : x # "backup" /\ Moves(x) /\ Effect(x)
      BY <1>7, <2>2, Effects
    <3>2. cli.phase \in {"run", "restore", "reset"}
      BY <3>1, StepTail DEF Moves, TypeInv, Cli
    <3> QED BY <2>2, <3>1, <3>2, UpdateRunMoves, UpdateRestoreMoves, UpdateResetMoves
  <2>3. CASE cli.op # "update"
    <3>1. CASE RestoreStep
      <4>1. cli'.op = cli.op
        BY <3>1, StepMoves DEF RestoreStep, Moves, Kept
      <4> QED BY <2>3, <4>1 DEF UpdateInv
    <3>2. CASE ~RestoreStep
      <4>1. (\E x : Moves(x)) \/ Skips
        BY <1>7, <3>2, StepMoves DEF Step, Ends, RestoreStep
      <4>2. cli'.op = cli.op
        BY <4>1 DEF Moves, Skips, Kept
      <4> QED BY <2>3, <4>2 DEF UpdateInv
    <3> QED BY <3>1, <3>2
  <2> QED BY <2>1, <2>2, <2>3
<1> QED BY <1>1, <1>2, <1>3, <1>5, <1>6, <1>7 DEF Next

-----------------------------------------------------------------------------
(* What update and rollback report.                                        *)

LEMMA ReleaseInit == Init => ReleaseInv
<1> SUFFICES ASSUME Init PROVE ReleaseInv
  OBVIOUS
<1>1. cli.op = "none" /\ cli.todo = <<>>
  BY DEF Init, Idle
<1>2. UpdateInv /\ RollbackInv /\ RouteInv
  BY <1>1, NoSteps DEF UpdateInv, RollbackInv, RouteInv
<1> QED BY <1>2, TypeInit, PlanInit, StopInit, LogInit, FilesInit DEF ReleaseInv

LEMMA ReleaseStep == ReleaseInv /\ [Next]_vars => ReleaseInv'
BY TypeStep, PlanStep, StopStep, LogStep, FilesStep, UpdateStep, RollbackStep, RouteStep DEF ReleaseInv

LEMMA ReleaseInvHolds == Spec => []ReleaseInv
BY ReleaseInit, ReleaseStep, PTL DEF Spec

LEMMA InvReports == ReleaseInv => ReportIsTrue
<1> SUFFICES ASSUME ReleaseInv, ~hardKilled PROVE
      /\ Reporting("update") /\ cli.ok =>
             loaded /\ files.daemon = cli.target /\ cli.before.events \subseteq Committed
      /\ Reporting("update") /\ cli.rolledBack =>
             /\ files.daemon = cli.before.files.daemon
             /\ files.config = cli.before.files.config
             /\ cli.before.events \subseteq Committed
             /\ (cli.cls = "restore_required" => cli.resetDone) => loaded
      /\ Reporting("rollback") /\ cli.ok =>
             /\ loaded
             /\ backups[cli.backup].files.config = files.config
             /\ backups[cli.backup].db.events \subseteq Committed
  BY DEF ReportIsTrue
<1>1. ASSUME Reporting("update")
      PROVE  UpdateDone /\ UpdateBackup /\ RolledBack
  BY <1>1 DEF Reporting, ReleaseInv, UpdateInv, RolledBack
<1>2. Reporting("update") /\ cli.ok =>
        loaded /\ files.daemon = cli.target /\ cli.before.events \subseteq Committed
  BY <1>1 DEF UpdateDone
<1>3. ASSUME Reporting("update"), cli.rolledBack
      PROVE  /\ files.daemon = cli.before.files.daemon
             /\ files.config = cli.before.files.config
             /\ cli.before.events \subseteq Committed
             /\ (cli.cls = "restore_required" => cli.resetDone) => loaded
  <2>1. backups[cli.backup].files = cli.before.files /\ cli.before.events \subseteq backups[cli.backup].db.events
    BY <1>1, <1>3 DEF UpdateBackup, RolledBack
  <2> QED BY <1>1, <1>3, <2>1 DEF UpdateDone, RolledBack
<1>4. Reporting("rollback") /\ cli.ok =>
        /\ loaded
        /\ backups[cli.backup].files.config = files.config
        /\ backups[cli.backup].db.events \subseteq Committed
  BY DEF Reporting, ReleaseInv, RollbackInv, RollbackDone, Restored
<1> QED BY <1>2, <1>3, <1>4

\* What an update or a rollback reports is true of the machine, for any
\* releases and backups and wherever steps throw or the CLI dies, unless
\* launchd killed a daemon before it closed its store (executeUpdate,
\* executeRollback).
THEOREM ReportsAreTrue == Spec => []ReportIsTrue
BY ReleaseInvHolds, InvReports, PTL

\* A restored database of the restore_required class is exactly one
\* generation ahead of its backup when the command reports success
\* (planRollback, the rollback hooks of executeUpdate).
THEOREM ResetExactlyOnce == Spec => []ExactlyOneReset
<1>1. ReleaseInv => ExactlyOneReset
  BY DEF ReleaseInv, UpdateInv, UpdateDone, RollbackInv, RollbackDone, ExactlyOneReset
<1> QED BY <1>1, ReleaseInvHolds, PTL

=============================================================================
