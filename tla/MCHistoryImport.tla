--------------------------- MODULE MCHistoryImport ---------------------------
(* One session of either kind, its file a few entries long. *)
EXTENDS HistoryImport
=============================================================================
