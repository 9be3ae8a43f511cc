----------------------------- MODULE MCSandbox -----------------------------
(* Instances of Sandbox for TLC: two administrators whose changes cross,   *)
(* one request and one socket of the account.                              *)
EXTENDS Sandbox
=============================================================================
