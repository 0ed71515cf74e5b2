---------------------------- MODULE MCPiProcess -----------------------------
(* One session, one request id that may be reused. *)
EXTENDS PiProcess
=============================================================================
