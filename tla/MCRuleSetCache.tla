--------------------------- MODULE MCRuleSetCache ---------------------------
(***************************************************************************)
(* RuleSetCache with payloads of 1 and 3 bytes, for TLC.                   *)
(***************************************************************************)
EXTENDS RuleSetCache

MCPayloads == {"small", "large"}
MCPayloadSize == [p \in MCPayloads |-> IF p = "small" THEN 1 ELSE 3]
=============================================================================
