---------------------------- MODULE MCLifecycle ----------------------------
(* Everything may fail.  Two attempts and two hard resets instead of five   *)
(* reach the limits of the counters within two wakes.                       *)
EXTENDS Lifecycle

MCFaults == Fault
=============================================================================
