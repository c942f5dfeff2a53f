------------------------------ MODULE SlotOrder ------------------------------
(***************************************************************************)
(* The slots of a fixed table that are in use, in the order a loop over    *)
(* the table meets them: how both the lease table and the rule table are   *)
(* written to their files.                                                 *)
(***************************************************************************)
EXTENDS Integers, FiniteSets

\* How many slots of S the loop has met once it is at slot r.
Place(S, r) == Cardinality({q \in S : q <= r})

NthSlot(S, i) == CHOOSE r \in S : Place(S, r) = i
=============================================================================
