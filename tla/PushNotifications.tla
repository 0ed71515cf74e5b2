------------------------- MODULE PushNotifications -------------------------
(***************************************************************************)
(* A phone's installation on one host: pairing with a one-time passcode,   *)
(* the credential that opens a connection, registration of the push token  *)
(* as the platform rotates it, and the status notifications the bridge     *)
(* sends, coalesced and deduplicated.  Code: packages/bridge/src/auth/,    *)
(* core/server.ts (enroll, hello), core/store.ts (the three tables),       *)
(* notifications/, and on the phone pairing_enrollment.dart and            *)
(* notification_controller.dart.                                           *)
(*                                                                         *)
(* One phone, one session, one platform: the phone's device id is its      *)
(* installation id (main.dart).  Revocation has no caller.  The push       *)
(* provider is external and answers as it likes, late or never.            *)
(***************************************************************************)
EXTENDS Naturals, Sequences, FiniteSets, SequencesExt

CONSTANTS
  Passcode,        \* pairing passcodes
  Event,           \* source events that make a notification
  Kind,            \* settled, failed, indeterminate, needs_attention, crash_loop
  KindOf,          \* classifyEvent
  Nil,
  Interval,        \* minIntervalMs of the coalescer
  PerMinute,       \* perMinuteCeiling; a clock unit is a minute
  Ceiling,         \* sessionCeiling
  StaleAfter,      \* staleAfterMs
  Retention,       \* how long the coalescer remembers a session
  DedupFor,        \* how long a source event id is remembered
  MaxTokens,       \* bound: token rotations
  MaxPairings,     \* bound: passcodes issued
  MaxClock,        \* bound: time
  MaxFaults        \* bound: lost connections and deaths of the bridge

ASSUME PushAssumption ==
  /\ KindOf \in [Event -> Kind]
  /\ Nil \notin Passcode \cup Kind
  /\ {Interval, PerMinute, Ceiling, StaleAfter, Retention, DedupFor} \subseteq Nat
  /\ {MaxTokens, MaxPairings, MaxClock, MaxFaults} \subseteq Nat
  /\ DedupFor > StaleAfter

VARIABLES
  secrets,    \* table enrollment_secrets
  issued,     \* passcodes issued so far
  cred,       \* the credential whose hash is stored for the installation, 0 if none
  minted,     \* credentials minted so far
  enroll,     \* the phone's enrollment request: its passcode and its answer
  phoneCred,  \* the credential in the phone's secure store
  answerLost, \* a credential was minted that the phone never received
  connected,  \* a socket with an accepted hello
  wire,       \* commands on that socket the bridge has not handled
  token,      \* the newest token of the platform
  pendingToken, registeredToken, draining, sending,  \* the phone's registration loop
  device,     \* the row of notification_devices
  timer,      \* the removal of a rejected device is scheduled
  created,    \* when each source event was stored, 0 if not yet
  dedup,      \* table notification_dedup, 0 when absent
  coalesced,  \* the coalescer's state for the device and session
  minute,     \* notifications of the current minute
  pushes,     \* requests at the provider
  sent,       \* source events handed to the provider, in order
  clock, faults

pairing == <<secrets, issued, cred, minted, enroll, phoneCred, answerLost>>
phone   == <<token, pendingToken, registeredToken, draining, sending>>
status  == <<created, dedup, coalesced, minute, pushes, sent>>
pushVars    == <<pairing, phone, status, connected, wire, device, timer, clock, faults>>

NoDevice == [token |-> 0, rejected |-> FALSE]
Unseen   == [kind |-> Nil, count |-> 0, last |-> 0]
NoEnroll == [passcode |-> Nil, answer |-> 0]

InitPush ==
  /\ secrets = [c \in Passcode |-> "none"] /\ issued = 0
  /\ cred = 0 /\ minted = 0 /\ enroll = NoEnroll /\ phoneCred = 0 /\ answerLost = FALSE
  /\ connected = FALSE /\ wire = <<>>
  /\ token = 1 /\ pendingToken = 0 /\ registeredToken = 0 /\ draining = FALSE /\ sending = 0
  /\ device = NoDevice /\ timer = FALSE
  /\ created = [e \in Event |-> 0] /\ dedup = [e \in Event |-> 0]
  /\ coalesced = Unseen /\ minute = 0 /\ pushes = {} /\ sent = <<>>
  /\ clock = 1 /\ faults = 0

-----------------------------------------------------------------------------
(* Pairing. *)

issuePendingEnrollment(c) == secrets' = [secrets EXCEPT ![c] = "pending"]

\* The pair command of the operations CLI.
handlePair(c) ==
  /\ issued < MaxPairings
  /\ issued' = issued + 1
  /\ issuePendingEnrollment(c)
  /\ UNCHANGED <<cred, minted, enroll, phoneCred, answerLost, phone, status,
                 connected, wire, device, timer, clock, faults>>

PasscodeExpires(c) ==
  /\ secrets[c] = "pending"
  /\ secrets' = [secrets EXCEPT ![c] = "expired"]
  /\ UNCHANGED <<issued, cred, minted, enroll, phoneCred, answerLost, phone, status,
                 connected, wire, device, timer, clock, faults>>

\* The phone remembers the passcodes it has tried only for one attempt: the
\* pairing screen makes a new service for each.
PostEnrollment(c) ==
  /\ enroll = NoEnroll
  /\ enroll' = [passcode |-> c, answer |-> 0]
  /\ UNCHANGED <<secrets, issued, cred, minted, phoneCred, answerLost, phone, status,
                 connected, wire, device, timer, clock, faults>>

\* Mutant: the credential is minted before the passcode is consumed.
bindMintsFirst(c) ==
  IF secrets[c] = "pending"
  THEN /\ secrets' = [secrets EXCEPT ![c] = "used"]
       /\ minted' = minted + 1 /\ cred' = minted'
       /\ enroll' = [enroll EXCEPT !.answer = minted']
  ELSE /\ enroll' = NoEnroll
       /\ minted' = minted + 1 /\ cred' = minted'
       /\ UNCHANGED secrets

\* A new credential, whose hash replaces the stored one.
upsertInstallationCredential == minted' = minted + 1 /\ cred' = minted'

\* consumeEnrollmentSecret, then the new credential.
bind(c) ==
  IF secrets[c] = "pending"
  THEN /\ secrets' = [secrets EXCEPT ![c] = "used"]
       /\ upsertInstallationCredential
       /\ enroll' = [enroll EXCEPT !.answer = minted']
  ELSE enroll' = NoEnroll /\ UNCHANGED <<secrets, minted, cred>>

BindEnrollment ==
  /\ enroll.passcode # Nil /\ enroll.answer = 0 /\ minted < MaxPairings
  /\ bind(enroll.passcode)
  /\ UNCHANGED <<issued, phoneCred, answerLost, phone, status, connected, wire,
                 device, timer, clock, faults>>

AnswerLost ==
  /\ enroll.passcode # Nil
  /\ enroll' = NoEnroll
  /\ answerLost' = (answerLost \/ enroll.answer # 0)
  /\ UNCHANGED <<secrets, issued, cred, minted, phoneCred, phone, status, connected, wire,
                 device, timer, clock, faults>>

StoreCredential ==
  /\ enroll.answer # 0
  /\ phoneCred' = enroll.answer
  /\ enroll' = NoEnroll
  /\ UNCHANGED <<secrets, issued, cred, minted, answerLost, phone, status, connected, wire,
                 device, timer, clock, faults>>

-----------------------------------------------------------------------------
(* Connecting and registering the token. *)

verifyInstallationCredential(v) == v # 0 /\ v = cred

\* _acceptToken: the newest token is pending and the loop runs.
acceptToken(t) == pendingToken' = t /\ draining' = TRUE

\* An accepted hello; the phone refreshes its token and synchronizes it.
Hello ==
  /\ ~connected /\ verifyInstallationCredential(phoneCred)
  /\ connected' = TRUE /\ wire' = <<>>
  /\ acceptToken(token)
  /\ UNCHANGED <<pairing, token, registeredToken, sending, status, device, timer, clock, faults>>

Disconnect ==
  /\ connected /\ faults < MaxFaults
  /\ connected' = FALSE /\ wire' = <<>> /\ faults' = faults + 1
  /\ UNCHANGED <<pairing, phone, status, device, timer, clock>>

RotateToken ==
  /\ token < MaxTokens
  /\ token' = token + 1
  /\ acceptToken(token + 1)
  /\ UNCHANGED <<pairing, registeredToken, sending, status, connected, wire, device, timer,
                 clock, faults>>

\* One round of _drainPendingToken up to its await.
DrainPendingToken ==
  /\ draining /\ sending = 0
  /\ \/ /\ pendingToken = 0
        /\ draining' = FALSE
        /\ UNCHANGED <<pendingToken, sending, wire>>
     \/ /\ pendingToken # 0 /\ pendingToken = registeredToken
        /\ pendingToken' = 0
        /\ UNCHANGED <<draining, sending, wire>>
     \/ /\ pendingToken \notin {0, registeredToken} /\ ~connected
        /\ draining' = FALSE
        /\ UNCHANGED <<pendingToken, sending, wire>>
     \/ /\ pendingToken \notin {0, registeredToken} /\ connected
        /\ sending' = pendingToken
        /\ wire' = Append(wire, pendingToken)
        /\ UNCHANGED <<pendingToken, draining>>
  /\ UNCHANGED <<pairing, token, registeredToken, status, connected, device, timer, clock, faults>>

\* Mutant: the token rotated meanwhile is forgotten.
afterRegisterForgets(t) == pendingToken' = 0

\* The frame is written; the token counts as registered from here on.
afterRegister(t) == pendingToken' = IF pendingToken = t THEN 0 ELSE pendingToken

RegisterReturns ==
  /\ sending # 0
  /\ registeredToken' = sending
  /\ afterRegister(sending)
  /\ sending' = 0
  /\ UNCHANGED <<pairing, token, draining, status, connected, wire, device, timer, clock, faults>>

RegisterThrows ==
  /\ sending # 0 /\ ~connected
  /\ sending' = 0 /\ draining' = FALSE
  /\ UNCHANGED <<pairing, token, pendingToken, registeredToken, status, connected, wire,
                 device, timer, clock, faults>>

\* unregisterDevice, whose request may be lost with the connection.
unregisterDevice == device' \in {device} \cup (IF connected THEN {NoDevice} ELSE {})

\* The phone forgets the host; unregistering is best effort.
Forget ==
  /\ phoneCred # 0 /\ issued < MaxPairings
  /\ phoneCred' = 0
  /\ registeredToken' = 0 /\ pendingToken' = 0
  /\ unregisterDevice
  /\ connected' = FALSE /\ wire' = <<>>
  /\ UNCHANGED <<secrets, issued, cred, minted, enroll, answerLost, token, draining, sending,
                 status, timer, clock, faults>>

\* The row takes the token and is active again.
registerDeviceInstall(t) == [token |-> t, rejected |-> FALSE]

\* device.register, which the service may refuse.
HandleRegister ==
  /\ connected /\ wire # <<>>
  /\ device' \in {registerDeviceInstall(Head(wire)), device}
  /\ wire' = Tail(wire)
  /\ UNCHANGED <<pairing, phone, status, connected, timer, clock, faults>>

-----------------------------------------------------------------------------
(* Statuses. *)

\* appendNormalizedEvent stores the event once, however often Pi repeats it.
createdAt(e) == IF created[e] = 0 THEN clock ELSE created[e]

\* Mutant: an old event is never stale.
isNeverStale(e) == FALSE

isStale(e) == clock - createdAt(e) > StaleAfter

\* Coalescer.decide.
repeats(k) == coalesced.kind = k /\ clock - coalesced.last < Interval

capped(k) ==
  IF coalesced = Unseen THEN minute >= PerMinute
  ELSE coalesced.count >= Ceiling \/ (~repeats(k) /\ minute >= PerMinute)

decide(e) ==
  LET k == KindOf[e]
      again == [coalesced EXCEPT !.count = @ + 1, !.last = clock]
  IN  IF capped(k) THEN UNCHANGED <<coalesced, minute, pushes, sent>>
         ELSE IF coalesced # Unseen /\ repeats(k)
         THEN coalesced' = again /\ UNCHANGED <<minute, pushes, sent>>
         ELSE /\ coalesced' = [again EXCEPT !.kind = k]
              /\ minute' = minute + 1
              /\ pushes' = pushes \cup {e}
              /\ sent' = Append(sent, e)

listActiveDeviceInstalls == {d \in {device} : d.token # 0 /\ ~d.rejected}

hasNotificationDedup(e)    == dedup[e] # 0
recordNotificationDedup(e) == dedup' = [dedup EXCEPT ![e] = clock]

\* publishStatus for a source event, the first time or again.
PublishStatus(e) ==
  /\ created' = [created EXCEPT ![e] = createdAt(e)]
  /\ \/ /\ hasNotificationDedup(e)
        /\ UNCHANGED <<dedup, coalesced, minute, pushes, sent>>
     \/ /\ ~hasNotificationDedup(e)
        /\ recordNotificationDedup(e)
        /\ \/ ~isStale(e) /\ listActiveDeviceInstalls # {} /\ decide(e)
           \/ /\ isStale(e) \/ listActiveDeviceInstalls = {}
              /\ UNCHANGED <<coalesced, minute, pushes, sent>>
  /\ UNCHANGED <<pairing, phone, connected, wire, device, timer, clock, faults>>

\* The row is marked and its removal scheduled.
rejectDevice ==
  /\ device' = IF device.token = 0 THEN device ELSE [device EXCEPT !.rejected = TRUE]
  /\ timer' = TRUE

\* The provider's answer: delivered or failed for now, or never again.
ProviderAnswers(e) ==
  /\ e \in pushes
  /\ pushes' = pushes \ {e}
  /\ \/ UNCHANGED <<device, timer>>
     \/ rejectDevice
  /\ UNCHANGED <<pairing, phone, created, dedup, coalesced, minute, sent, connected,
                 wire, clock, faults>>

RemoveRejected ==
  /\ timer /\ timer' = FALSE
  /\ device' = NoDevice
  /\ UNCHANGED <<pairing, phone, status, connected, wire, clock, faults>>

sweepNotificationDedup ==
  dedup' = [e \in Event |-> IF dedup[e] + DedupFor < clock THEN 0 ELSE dedup[e]]

\* Coalescer.sweep.
dropOld == IF coalesced.last + Retention < clock THEN Unseen ELSE coalesced

Sweep ==
  /\ sweepNotificationDedup
  /\ coalesced' = dropOld
  /\ UNCHANGED <<pairing, phone, created, minute, pushes, sent, connected, wire, device, timer,
                 clock, faults>>

Tick ==
  /\ clock < MaxClock
  /\ clock' = clock + 1 /\ minute' = 0
  /\ UNCHANGED <<pairing, phone, created, dedup, coalesced, pushes, sent, connected,
                 wire, device, timer, faults>>

\* The bridge dies, perhaps between the two transactions of an enrollment.
Crash ==
  /\ faults < MaxFaults /\ faults' = faults + 1
  /\ connected' = FALSE /\ wire' = <<>>
  /\ timer' = FALSE /\ pushes' = {} /\ coalesced' = Unseen /\ minute' = 0
  /\ enroll' = NoEnroll /\ answerLost' = (answerLost \/ enroll.answer # 0)
  /\ \/ UNCHANGED secrets
     \/ /\ enroll.passcode # Nil /\ enroll.answer = 0 /\ secrets[enroll.passcode] = "pending"
        /\ secrets' = [secrets EXCEPT ![enroll.passcode] = "used"]
  /\ UNCHANGED <<issued, cred, minted, phoneCred, phone, created, dedup, sent, device, clock>>

NextPush ==
  \/ \E c \in Passcode : handlePair(c) \/ PasscodeExpires(c) \/ PostEnrollment(c)
  \/ BindEnrollment \/ AnswerLost \/ StoreCredential
  \/ Hello \/ Disconnect \/ Forget
  \/ RotateToken \/ DrainPendingToken \/ RegisterReturns \/ RegisterThrows \/ HandleRegister
  \/ \E e \in Event : PublishStatus(e) \/ ProviderAnswers(e)
  \/ RemoveRejected \/ Sweep \/ Tick \/ Crash

PushSpec == InitPush /\ [][NextPush]_pushVars

-----------------------------------------------------------------------------
(* Properties. *)

\* "the same source event id can never produce two notifications" (policy.ts),
\* also when Pi repeats an event after the dedup table was swept or the bridge
\* was restarted.
NotifiedOnce == IsInjective(sent)

\* A phone whose credential is refused either lost the answer of a later
\* pairing or is about to store it: a failed enrollment, a repeated one and a
\* death of the bridge between consuming the passcode and storing the
\* credential leave the working credential alone.
LockedOutOnlyByLostAnswer ==
  phoneCred # 0 /\ phoneCred # cred => answerLost \/ enroll.answer = cred

\* A connected phone whose registration loop has come to rest has handed its
\* newest token to the socket, whatever was rotated while it was sending.
NewestTokenOffered ==
  connected /\ ~draining => registeredToken = token

=============================================================================
