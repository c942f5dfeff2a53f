-------------------------- MODULE MCPlatformRuntime -------------------------
(* The forwarder with room for two rules, and one more service that may be   *)
(* registered with either of two instances, one of them reloadable.          *)
EXTENDS PlatformRuntime, TLC

MCNames == {"forwarder", "other"}
MCInstancesOf == [n \in MCNames |-> IF n = "forwarder" THEN {"pf"} ELSE {"x", "y"}]
MCReloadable == {"pf", "x"}
RuleSymmetry == Permutations(RuleNames)
=============================================================================
