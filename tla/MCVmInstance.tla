----------------------------- MODULE MCVmInstance -----------------------------
(* A server that is started twice. *)
EXTENDS VmInstance

CONSTANTS first, second

MCEmulators == {first, second}
=============================================================================
