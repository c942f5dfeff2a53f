----------------------------- MODULE MCEasyNode -----------------------------
(* One device with two slots, a pool of the aids 1 and 2, and an inverted    *)
(* range, which osfx_easy_init_id_allocator refuses.  Aid 0 comes from files *)
(* that end before their first line.                                         *)
EXTENDS EasyNode

MCPools == {[start |-> 1, end |-> 2, lease |-> 1],
            [start |-> 2, end |-> 1, lease |-> 1]}

MCPolicies == {}
=============================================================================
