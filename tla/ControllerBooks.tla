-------------------------- MODULE ControllerBooks --------------------------
(***************************************************************************)
(* The phones' side of the controller leases: every phone that streams a   *)
(* session handles its controller.state events in order and keeps the last *)
(* one in its ControllerBook (domain/controller_lease.dart), from which the*)
(* coordinator takes the lease id it writes with.                          *)
(***************************************************************************)
EXTENDS ControllerLeases

VARIABLES
  seen,   \* how many controller.state events of a scope each phone handled
  book    \* SessionControllerState of each session, on each phone

booksVars == <<vars, seen, book>>

Streaming(i) == \E c \in Connection : OwnerOf[c] = i /\ conn[c] = "open"

\* Mutant: an event that names a lease is taken for an observer's.
AdoptAsObserver(i, s) ==
  /\ Streaming(i)
  /\ seen[i][s] < Len(journal[s])
  /\ seen' = [seen EXCEPT ![i][s] = @ + 1]
  /\ book' = [book EXCEPT ![i][s] = [mode |-> "observer", lease |-> 0]]
  /\ UNCHANGED vars

\* Mutant: an event that names no lease is skipped.
AdoptLeasesOnly(i, s) ==
  LET event == journal[s][seen[i][s] + 1] IN
  /\ Streaming(i)
  /\ seen[i][s] < Len(journal[s])
  /\ seen' = [seen EXCEPT ![i][s] = @ + 1]
  /\ book' = [book EXCEPT ![i][s] =
       IF event.mode = "controller" THEN [mode |-> "primary", lease |-> event.lease] ELSE @]
  /\ UNCHANGED vars

\* adoptControllerEvent, for the next event of the stream: the mode and the
\* lease id are adopted, the event's installationId is not looked at.
AdoptControllerEvent(i, s) ==
  LET event == journal[s][seen[i][s] + 1] IN
  /\ Streaming(i)
  /\ seen[i][s] < Len(journal[s])
  /\ seen' = [seen EXCEPT ![i][s] = @ + 1]
  /\ book' = [book EXCEPT ![i][s] =
       IF event.mode = "controller"
       THEN [mode |-> "primary", lease |-> event.lease]
       ELSE [mode |-> "observer", lease |-> 0]]
  /\ UNCHANGED vars

BooksInit ==
  /\ Init
  /\ seen = [i \in Installation |-> [s \in Scope |-> 0]]
  /\ book = [i \in Installation |-> [s \in Scope |-> [mode |-> "none", lease |-> 0]]]

Adopt == \E i \in Installation, s \in Scope : AdoptControllerEvent(i, s)

BooksNext ==
  \/ Next /\ UNCHANGED <<seen, book>>
  \/ Adopt

BooksSpec == BooksInit /\ [][BooksNext]_booksVars

\* A connected phone handles the frames it is sent, and time passes.
BooksFairSpec ==
  /\ BooksSpec
  /\ WF_booksVars(Tick /\ UNCHANGED <<seen, book>>)
  /\ \A i \in Installation, s \in Scope : WF_booksVars(AdoptControllerEvent(i, s))

-----------------------------------------------------------------------------
(* Properties.                                                             *)

\* A phone that has handled every controller.state event of a session names the
\* very lease the store would accept a write under, or none if there is none, and
\* a phone that is behind names an older one: the events are journalled with the
\* mutations they announce, whatever takeovers, releases, reconnects and crashes
\* come between.
BookNamesLease ==
  \A i \in Installation, s \in Scope :
    /\ seen[i][s] = Len(journal[s]) => book[i][s].lease = lease[s].id
    /\ Held(s) => book[i][s].lease <= lease[s].id

\* The phone that holds a lease learns its id, without which it could neither
\* write nor renew, unless it loses the lease or the connection first.
HolderLearnsLease ==
  \A i \in Installation, s \in Scope, id \in LeaseId :
    (lease[s].id = id /\ Holder(s) = i)
      ~> \/ book[i][s] = [mode |-> "primary", lease |-> id]
         \/ lease[s].id # id
         \/ ~Streaming(i)
=============================================================================
