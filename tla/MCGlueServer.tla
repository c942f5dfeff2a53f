---------------------------- MODULE MCGlueServer ----------------------------
(* Two devices, the clock of one of them ahead, a pool of two aids whose     *)
(* leases run out and are given again, and a server with one session.        *)
EXTENDS GlueServer

CONSTANTS d1, d2

MCDevices == {d1, d2}

MCPools == {[start |-> 1, end |-> 2, lease |-> 1]}

MCSkew == [d \in MCDevices |-> IF d = d1 THEN 2 ELSE 0]
=============================================================================
