---------------------------- MODULE MCBootCliOrRun --------------------------
(* A pool of two aids and a table of two entries; millis() wraps at 5, so    *)
(* that a retry set before the wrap comes after it.                          *)
EXTENDS BootCliOrRun

MCPools == {[start |-> 1, end |-> 2, lease |-> 2]}

MCSetTimes == {1}
=============================================================================
