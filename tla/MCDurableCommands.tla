------------------------ MODULE MCDurableCommands ------------------------
(* Small instances of DurableCommands: a session scope with a prompt, and    *)
(* the host scope with a bridge-local controller command.                   *)
EXTENDS DurableCommands, TLC

CONSTANTS prompt, acquire, session, host

MCScopeOf == (prompt :> session) @@ (acquire :> host)
=============================================================================
