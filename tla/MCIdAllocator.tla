---------------------------- MODULE MCIdAllocator ---------------------------
(* A small instance of the allocator: aids 0..4, three table slots, a pool   *)
(* inside the range, one that ends at the largest aid (with a default lease *)
(* below the minimum) and an empty one.                                     *)
EXTENDS IdAllocator

MCPools == {[start |-> 1, end |-> 2, lease |-> 3],
            [start |-> 3, end |-> 4, lease |-> 1],
            [start |-> 2, end |-> 1, lease |-> 0]}

MCPolicies ==
  {[min |-> 1, max |-> 3, window |-> 1, threshold |-> 1, rateFactor |-> 50,
    watermark |-> 50, pressureFactor |-> 50, touchFactor |-> 200, adaptive |-> TRUE],
   [min |-> 0, max |-> 0, window |-> 0, threshold |-> 0, rateFactor |-> 0,
    watermark |-> 101, pressureFactor |-> 0, touchFactor |-> 0, adaptive |-> FALSE]}
=============================================================================
