--------------------------- MODULE MCCacheServer ----------------------------
(***************************************************************************)
(* CacheServer with one RuleSet, and the paths and tokens that tell its    *)
(* checks apart, for TLC.                                                  *)
(***************************************************************************)
EXTENDS CacheServer, TLC

CONSTANTS good, foreign   \* the tokens

MCRuleSets == {<<"ns1", "rs">>}

\* Both endpoints of the RuleSet, an unknown RuleSet, and no key.
MCPaths == {<<"ns1", "rs">>, <<"ns1", "rs", "latest">>, <<"ns2", "rs">>, <<>>}

\* good is the token the engine controller requests; foreign has the right
\* audience but lives in another namespace.
MCTokens == {good, foreign}

MCTokenAudience == [t \in Tokens |-> <<"ns1", "rs">>]

MCTokenNamespace == good :> "ns1" @@ foreign :> "ns2"
=============================================================================
