--------------------------- MODULE MCRuleFilter ---------------------------
(* Model of RuleFilter for TLC: the lines that files are made of here.     *)
EXTENDS RuleFilter

CONSTANTS bad, ok

\* An unindented line without attributes.
Plain(dir) == [dir |-> dir, indented |-> FALSE, id |-> NoId, quoted |-> FALSE,
               chain |-> "none", pm |-> FALSE, more |-> FALSE]

First == [Plain("SecRule") EXCEPT !.more = TRUE]

MCFragments == {
    <<[Plain("SecRule") EXCEPT !.id = bad]>>,
    <<[Plain("SecRule") EXCEPT !.id = ok, !.chain = "inline"]>>,
    <<[Plain("SecRule") EXCEPT !.pm = TRUE]>>,
    <<[Plain("SecRule") EXCEPT !.id = bad, !.quoted = TRUE]>>,
    <<First>>,
    <<First, [Plain("text") EXCEPT !.id = bad, !.chain = "inline"]>>,
    <<First, [Plain("text") EXCEPT !.id = ok, !.more = TRUE], Plain("text")>>,
    <<First, [Plain("text") EXCEPT !.id = ok, !.chain = "first"]>>,
    <<[First EXCEPT !.indented = TRUE], Plain("text")>>,
    <<[Plain("SecAction") EXCEPT !.id = ok]>>,
    <<Plain("SecMarker")>>,
    <<Plain("SecRuleEngine")>>,
    <<[Plain("#") EXCEPT !.id = bad, !.more = TRUE]>>,
    <<Plain("")>>}

\* A chain the way CoreRuleSet writes one.
MCCoreRuleSet == {
    <<First, [Plain("text") EXCEPT !.id = bad, !.chain = "first"]>>,
    <<[First EXCEPT !.indented = TRUE], Plain("text")>>}
===========================================================================
