----------------------------- MODULE RuleFilter -----------------------------
(***************************************************************************)
(* The rule filter of the CoreRuleSet manifest generator (kubectl coraza   *)
(* generate, src/tools/corerulesetgen/rules.go and build.go) and the       *)
(* operator's check for unsupported rules (src/internal/rulesets/          *)
(* unsupported.go), which later looks at what the generator wrote.         *)
(*                                                                         *)
(* A rules file is a sequence of lines, and a line is a record of what the *)
(* regular expressions of the code and Coraza's parser find in it:         *)
(*   dir       what it begins with once trimmed: a directive, a comment    *)
(*             ("#"), nothing ("") or text that continues a directive;     *)
(*             "SecRuleEngine" stands for the directives whose names       *)
(*             merely begin with SecRule                                   *)
(*   indented  whether blanks precede it                                   *)
(*   id        the rule id written in it, or NoId                          *)
(*   quoted    whether that id is in quotes                                *)
(*   chain     where it holds the action chain: behind a comma of its own  *)
(*             ("inline"), before any comma ("first"), not at all ("none") *)
(*   pm        whether it holds the operator @pmFromFile                   *)
(*   more      whether it ends with a backslash                            *)
(* The state is one file, growing by Fragments, and then what the          *)
(* generator makes of it.                                                  *)
(***************************************************************************)
EXTENDS Naturals, FiniteSets, Sequences, SequencesExt

CONSTANTS
    Ids,           \* rule ids
    NoId,          \* no id in a line ("unknown")
    Unsupported,   \* the registry of unsupported rules' ids
    Fragments,     \* what a file may be put together from: sequences of lines
    MaxFragments   \* bound on the fragments of a file

VARIABLES
    opts,      \* the options of the command
    content,   \* the lines of the file
    size,      \* its fragments so far
    done,      \* whether the generator has run
    out,       \* the lines it wrote
    warns      \* the groups of blocks it reported as ignored

vars == <<opts, content, size, done, out, warns>>

Directives == {"SecRule", "SecAction", "SecMarker", "SecRuleEngine"}

Line == [dir : Directives \cup {"#", "", "text"}, indented : BOOLEAN,
         id : Ids \cup {NoId}, quoted : BOOLEAN,
         chain : {"inline", "first", "none"}, pm : BOOLEAN, more : BOOLEAN]

ASSUME RuleFilterAssumption ==
    /\ NoId \notin Ids
    /\ Unsupported \subseteq Ids
    /\ Fragments \subseteq Seq(Line)
    /\ MaxFragments \in Nat

Options == [ignore : SUBSET Ids, profile : {"wasm", "none"}, ignorePM : BOOLEAN]

-----------------------------------------------------------------------------
\* Blank lines and comments.
Inactive(line) == line.dir \in {"#", ""}

\* A line that begins, in its first column, with one of three names as a word.
secDirectiveLine(line) ==
    line.dir \in {"SecRule", "SecAction", "SecMarker"} /\ ~line.indented

\* One turn of the loop of splitIntoRules. The code's flag inMultiline is set
\* exactly while current holds lines.
TakeLine(acc, line) ==
    IF acc.current # <<>>
    THEN LET current == Append(acc.current, line) IN
         IF line.more
         THEN [acc EXCEPT !.current = current]
         ELSE [blocks |-> Append(acc.blocks, current), current |-> <<>>]
    ELSE IF secDirectiveLine(line) /\ line.more
         THEN [acc EXCEPT !.current = <<line>>]
         ELSE [acc EXCEPT !.blocks = Append(@, <<line>>)]

\* What the loop has when the lines are used up.
SplitLines(lines) ==
    LET acc[n \in 0..Len(lines)] ==
            IF n = 0 THEN [blocks |-> <<>>, current |-> <<>>]
            ELSE TakeLine(acc[n - 1], lines[n])
    IN  acc[Len(lines)]

\* Mutant of splitIntoRules: a directive that the end of the file cuts off is lost.
splitIntoRulesComplete(lines) == SplitLines(lines).blocks

\* Blocks: a directive with its continuation lines, or any other line by itself.
splitIntoRules(lines) ==
    LET acc == SplitLines(lines)
    IN  IF acc.current = <<>> THEN acc.blocks ELSE Append(acc.blocks, acc.current)

\* The first id of a block that is written without quotes.
extractRuleID(block) ==
    LET found == {i \in DOMAIN block : block[i].id # NoId /\ ~block[i].quoted}
    IN  IF found = {} THEN NoId ELSE block[Min(found)].id

\* What chainActionRe finds: a comma, blanks and chain.  The backslash at the
\* end of a line is no blank, so the comma has to be of the same line.
HasChain(block) == \E i \in DOMAIN block : block[i].chain = "inline"

HasPM(block) == \E i \in DOMAIN block : block[i].pm

\* A block that chainSecRuleGroups passes over.
Skipped(block) == Inactive(block[1])

\* What strings.HasPrefix(block, "SecRule") accepts.
IsSecRule(block) == block[1].dir \in {"SecRule", "SecRuleEngine"}

\* Mutant of TakeBlock: the block behind a rule with chain is taken to be the
\* chained one.
TakeBlockWithNext(blocks, acc, i) ==
    IF IsSecRule(blocks[i])
    THEN [groups |-> acc.groups \cup
              {IF HasChain(blocks[i]) THEN {i, i + 1} ELSE {i}}, cur |-> {}]
    ELSE acc

\* Mutant of TakeBlock: a comment ends a chain.
TakeBlockUntilComment(blocks, acc, i) ==
    IF ~IsSecRule(blocks[i])
    THEN [groups |-> acc.groups \cup {acc.cur}, cur |-> {}]
    ELSE IF HasChain(blocks[i])
         THEN [acc EXCEPT !.cur = @ \cup {i}]
         ELSE [groups |-> acc.groups \cup {acc.cur \cup {i}}, cur |-> {}]

\* One turn of the loop of chainSecRuleGroups; inChain is cur # {}.
TakeBlock(blocks, acc, i) ==
    LET close == [groups |-> acc.groups \cup {acc.cur}, cur |-> {}]
        member == acc.cur \cup {i}
    IN  CASE Skipped(blocks[i]) -> acc
          [] ~Skipped(blocks[i]) /\ ~IsSecRule(blocks[i]) ->
                IF acc.cur = {} THEN acc ELSE close
          [] IsSecRule(blocks[i]) /\ HasChain(blocks[i]) ->
                [acc EXCEPT !.cur = member]
          [] OTHER -> [groups |-> acc.groups \cup {member}, cur |-> {}]

\* What the loop has when the blocks are used up.
GroupBlocks(blocks) ==
    LET acc[n \in 0..Len(blocks)] ==
            IF n = 0 THEN [groups |-> {}, cur |-> {}]
            ELSE TakeBlock(blocks, acc[n - 1], n)
    IN  acc[Len(blocks)]

\* The chains of a file and its rules outside chains, as sets of block indices.
chainSecRuleGroups(blocks) ==
    LET acc == GroupBlocks(blocks)
    IN  acc.groups \cup (IF acc.cur = {} THEN {} ELSE {acc.cur})

\* Mutant of mergeUnsupportedIDs: the user's list replaces the profile's.
mergeUnsupportedIDsUnlessGiven(o) ==
    IF o.ignore # {} \/ o.profile # "wasm" THEN o.ignore ELSE Unsupported

\* The ids to leave out: the user's and those of the selected profile.
mergeUnsupportedIDs(o) ==
    o.ignore \cup (IF o.profile = "wasm" THEN Unsupported ELSE {})

\* The blocks that are unwanted themselves.
WishDrop(blocks, o) ==
    {i \in DOMAIN blocks :
        /\ IsSecRule(blocks[i])
        /\ \/ o.ignorePM /\ HasPM(blocks[i])
           \/ extractRuleID(blocks[i]) \in mergeUnsupportedIDs(o)}

\* The blocks that go: the unwanted and every member of a chain with one.
Drop(blocks, o) ==
    LET wish == WishDrop(blocks, o)
    IN  wish \cup UNION {g \in chainSecRuleGroups(blocks) : g \cap wish # {}}

\* The lines of the blocks that are not in gone.
Without(blocks, gone) ==
    FlattenSeq([i \in DOMAIN blocks |-> IF i \in gone THEN <<>> ELSE blocks[i]])

\* The file without the empty lines at its end; one of blanks only is not empty.
Trimmed(lines) ==
    LET full == {i \in DOMAIN lines : lines[i].dir # "" \/ lines[i].indented}
    IN  IF full = {} THEN <<>>
        ELSE SubSeq(lines, 1, Max(full))

\* SecRule or SecAction occurs somewhere, in a commented-out rule too.
Mentions(lines) ==
    \E i \in DOMAIN lines :
        \/ lines[i].dir \in Directives \ {"SecMarker"}
        \/ (lines[i].dir = "#" /\ lines[i].id # NoId)

-----------------------------------------------------------------------------
Init ==
    /\ opts \in Options
    /\ content = <<>>
    /\ size = 0
    /\ done = FALSE
    /\ out = <<>>
    /\ warns = {}

\* The author of the file adds to it.
Write(fragment) ==
    /\ ~done
    /\ size < MaxFragments
    /\ size' = size + 1
    /\ content' = content \o fragment
    /\ UNCHANGED <<opts, done, out, warns>>

\* A file without rules is passed over: nothing is written for it.
PassOver ==
    /\ ~done
    /\ ~Mentions(content)
    /\ done' = TRUE
    /\ UNCHANGED <<opts, content, size, out, warns>>

\* The whole of processFileContent on any other file: split, decide, report one
\* warning for each group with an unwanted rule, write what is left.
Process ==
    /\ ~done
    /\ Mentions(content)
    /\ LET blocks == splitIntoRules(Trimmed(content)) IN
       /\ out' = Without(blocks, Drop(blocks, opts))
       /\ warns' = {g \in chainSecRuleGroups(blocks) :
                        g \cap WishDrop(blocks, opts) # {}}
    /\ done' = TRUE
    /\ UNCHANGED <<opts, content, size>>

Next ==
    \/ \E fragment \in Fragments : Write(fragment)
    \/ PassOver
    \/ Process

Spec == Init /\ [][Next]_vars

-----------------------------------------------------------------------------
(***************************************************************************)
(* The operator's check of aggregated rules.                               *)
(***************************************************************************)
\* The active lines; their order tells the check nothing.
stripCommentLines(lines) == {line \in ToSet(lines) : ~Inactive(line)}

\* The registered ids among those of the active lines, quoted or not.
CheckUnsupportedRules(lines) ==
    {line.id : line \in stripCommentLines(lines)} \cap Unsupported

-----------------------------------------------------------------------------
(***************************************************************************)
(* How Coraza reads a file, the reference the filter is measured against.  *)
(* Lines are trimmed, comments and empty lines skipped, a line that ends   *)
(* with a backslash joined with the next; indentation means nothing.       *)
(***************************************************************************)
ReadLine(acc, line) ==
    LET current == Append(acc.current, line) IN
    CASE Inactive(line) -> acc
      [] ~Inactive(line) /\ line.more -> [acc EXCEPT !.current = current]
      [] OTHER -> [rules |-> Append(acc.rules, current), current |-> <<>>]

Read(lines) ==
    LET acc[n \in 0..Len(lines)] ==
            IF n = 0 THEN [rules |-> <<>>, current |-> <<>>]
            ELSE ReadLine(acc[n - 1], lines[n])
    IN  acc[Len(lines)]

Rules(lines) == Read(lines).rules

Chained(rule) == \E i \in DOMAIN rule : rule[i].chain # "none"

\* The rules in one chain with rule i: a rule with the action chain is linked
\* to the next.
ChainOf(rules, i) ==
    {j \in DOMAIN rules :
        \A k \in DOMAIN rules :
            (i <= k /\ k < j) \/ (j <= k /\ k < i) => Chained(rules[k])}

\* A SecRule with @pmFromFile, when those are to go, or with an id to leave out,
\* in quotes or not.
Unwanted(rule, o) ==
    /\ rule[1].dir = "SecRule"
    /\ \/ o.ignorePM /\ HasPM(rule)
       \/ \E i \in DOMAIN rule : rule[i].id \in mergeUnsupportedIDs(o)

\* The rules that should be left: all but the chains with an unwanted member.
Wanted(rules, o) ==
    LET kept == {i \in DOMAIN rules :
                    \A j \in ChainOf(rules, i) : ~Unwanted(rules[j], o)}
    IN  FlattenSeq([i \in DOMAIN rules |-> IF i \in kept THEN <<rules[i]>> ELSE <<>>])

\* A file as rule authors write one: each directive is complete, has its lines
\* together and one id at most; one whose name merely begins with SecRule is a
\* line with neither an id nor @pmFromFile; a chain is made of SecRules and ends.
WellFormed(lines) ==
    LET rules == Rules(lines) IN
    /\ Read(lines).current = <<>>
    /\ \A i \in DOMAIN lines :
        /\ (lines[i].dir = "text") <=>
            (i > 1 /\ lines[i - 1].more /\ ~Inactive(lines[i - 1]))
        /\ lines[i].dir = "SecRuleEngine" =>
            ~lines[i].more /\ lines[i].id = NoId /\ ~lines[i].pm
    /\ \A i \in DOMAIN rules :
        /\ \A k, l \in DOMAIN rules[i] :
            rules[i][k].id # NoId /\ rules[i][l].id # NoId => k = l
        /\ Chained(rules[i]) =>
            /\ rules[i][1].dir = "SecRule"
            /\ i < Len(rules)
            /\ rules[i + 1][1].dir = "SecRule"

\* No directive is indented.
Unindented(lines) ==
    \A i \in DOMAIN lines : lines[i].dir \in Directives => ~lines[i].indented

\* No id is in quotes.
Unquoted(lines) == \A i \in DOMAIN lines : ~lines[i].quoted

\* The rules with an unsupported id are SecRules and begin in the first column,
\* as CoreRuleSet's do; the others may be indented.
UnsupportedAtMargin(lines) ==
    \A rule \in ToSet(Rules(lines)) :
        (\E i \in DOMAIN rule : rule[i].id \in Unsupported) =>
            rule[1].dir = "SecRule" /\ ~rule[1].indented

-----------------------------------------------------------------------------
(***************************************************************************)
(* Properties.                                                             *)
(***************************************************************************)
\* The state is of its type; what the generator writes are lines of the file.
TypeOK ==
    /\ opts \in Options
    /\ content \in Seq(Line)
    /\ size \in 0..MaxFragments
    /\ done \in BOOLEAN
    /\ ToSet(out) \subseteq ToSet(content)
    /\ \A g \in warns : g \subseteq 1..Len(content)

\* What goes is what is reported, whatever the file: splitIntoRules loses no
\* line and reorders none, one that the end of the file cuts off included, and
\* the lines missing from the output are those of the groups warned about
\* (processFileContent takes the two decisions in loops of their own).
EveryDropReported ==
    done /\ Mentions(content) =>
        LET blocks == splitIntoRules(Trimmed(content))
        IN  /\ FlattenSeq(blocks) = Trimmed(content)
            /\ out = Without(blocks, UNION warns)

\* The chains of a file are written so that the code can see them.
ChainsInline(lines) == \A i \in DOMAIN lines : lines[i].chain # "first"

\* Of a well-formed, unindented file with rules, unquoted ids and visible chains
\* Coraza reads in the output just the rules it reads in the file less the
\* chains with an unwanted rule: no half of a chain is left to fire alone or to
\* capture the rule behind it, and no rule goes without a reason.
FilterExact ==
    /\ done /\ Mentions(content)
    /\ WellFormed(content) /\ Unquoted(content)
    /\ Unindented(content) /\ ChainsInline(content)
    => Rules(out) = Wanted(Rules(content), opts)

\* The same of every well-formed file with unquoted ids, those with chain on a
\* line of its own and the chained rule indented, the way CoreRuleSet writes
\* them, included.
FilterExactAnyLayout ==
    done /\ Mentions(content) /\ WellFormed(content) /\ Unquoted(content) =>
        Rules(out) = Wanted(Rules(content), opts)

\* With the profile wasm the generator takes every unsupported rule out of a
\* well-formed file, whatever its chains and with other rules indented, as long
\* as the rule is a SecRule of the first column: in what is written the
\* operator's check, which goes by lines, objects to quoted ids only.
OutputSupported ==
    /\ done /\ opts.profile = "wasm"
    /\ WellFormed(content) /\ UnsupportedAtMargin(content)
    => \A line \in ToSet(out) : CheckUnsupportedRules(<<line>>) # {} => line.quoted
=============================================================================
