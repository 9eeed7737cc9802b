------------------------- MODULE MCEngineController -------------------------
(***************************************************************************)
(* EngineController for TLC.                                               *)
(***************************************************************************)
EXTENDS EngineController

MCSpec1 == [ruleSet |-> "rs1", target |-> "gw1"]
MCSpec2 == [ruleSet |-> "rs2", target |-> "gw2"]
MCOneSpec == {MCSpec1}
MCTwoSpecs == {MCSpec1, MCSpec2}
MCTwoTargets == {MCSpec1, [MCSpec1 EXCEPT !.target = "gw2"]}
=============================================================================
