------------------------ MODULE MCRuleSetController -------------------------
(***************************************************************************)
(* RuleSetController with contents that are fine, broken or unsupported,   *)
(* for TLC.                                                                *)
(***************************************************************************)
EXTENDS RuleSetController

MCContents == {"fine", "broken", "unsupported"}
MCFewContents == {"fine", "broken"}

MCCompiles(loaded) == \A i \in DOMAIN loaded : loaded[i] # "broken"

MCHasUnsupported(loaded) == \E i \in DOMAIN loaded : loaded[i] = "unsupported"

MCDataRefs == {"data"}
MCSourceRefs == {"src"}

\* With and without a data file.
MCSpecs == {<<"src">>, <<"data", "src">>}
MCOneSpec == {<<"data", "src">>}
=============================================================================
