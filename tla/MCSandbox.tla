----------------------------- MODULE MCSandbox -----------------------------
(* An instance of Sandbox for TLC: three scripts, two workers. *)
EXTENDS Sandbox
=============================================================================
