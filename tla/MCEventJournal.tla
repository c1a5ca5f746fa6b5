--------------------------- MODULE MCEventJournal ---------------------------
(* EventJournal on a small instance. *)
EXTENDS EventJournal
=============================================================================
