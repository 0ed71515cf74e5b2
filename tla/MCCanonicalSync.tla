-------------------------- MODULE MCCanonicalSync --------------------------
(* Small instances of CanonicalSync: a handful of events and pages of two.  *)
EXTENDS CanonicalSync
=============================================================================
