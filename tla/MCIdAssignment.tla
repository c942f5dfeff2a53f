--------------------------- MODULE MCIdAssignment ---------------------------
(* Two devices with two requests each, a pool of two aids and a table of    *)
(* three: repeated requests exhaust it, leases end and are given again.      *)
EXTENDS IdAssignment

MCPools == {[start |-> 1, end |-> 2, lease |-> 1]}

MCPolicies == {}
=============================================================================
