-------------------------- MODULE MCRemoteSessions --------------------------
(* RemoteSessions on a small instance. *)
EXTENDS RemoteSessions
=============================================================================
