---------------------------- MODULE MCReconnect ----------------------------
(* One station and its output, for TLC. *)
EXTENDS Reconnect
=============================================================================
