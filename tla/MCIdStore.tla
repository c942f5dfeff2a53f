------------------------------ MODULE MCIdStore -----------------------------
(* Aids 0..3 and two slots: enough for a table that is full, a file that is *)
(* cut short anywhere, and a restart into another pool than the file's.     *)
EXTENDS IdStore

MCPools == {[start |-> 1, end |-> 2, lease |-> 2],
            [start |-> 0, end |-> 2, lease |-> 1]}

MCPolicies ==
  {[min |-> 1, max |-> 1, window |-> 2, threshold |-> 1, rateFactor |-> 50,
    watermark |-> 101, pressureFactor |-> 50, touchFactor |-> 200, adaptive |-> TRUE]}
=============================================================================
