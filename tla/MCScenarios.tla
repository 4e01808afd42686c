----------------------------- MODULE MCScenarios -----------------------------
(* Small instances of Scenarios: places and agents are interchangeable. *)
EXTENDS Scenarios, TLC

MCSymmetry == Permutations(Locations) \cup Permutations(Agents)
MCSeverityCuts == <<2500, 10000, 50000>>
MCPriorWindows == <<30, 60, 90>>
=============================================================================
