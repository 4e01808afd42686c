------------------------------ MODULE MCDataset ------------------------------
(* Small instances of DatasetChecks: places and agents are interchangeable. *)
EXTENDS DatasetChecks, TLC

MCSymmetry == Permutations(Locations) \cup Permutations(Agents)
MCSeverityCuts == <<9, 18, 27>>
MCPriorWindows == <<0, 1, 2>>
=============================================================================
