------------------------ MODULE ProjectManagerProofs ------------------------
(***************************************************************************)
(* Proofs about ProjectManager: what a job leaves behind when it has run   *)
(* on its own, for any number of jobs, areas, sizes, milestones, boards,   *)
(* edits and failing calls.                                                *)
(***************************************************************************)
EXTENDS ProjectManager, FiniteSetTheorems, SequenceTheorems, WellFoundedInduction, TLAPS

-----------------------------------------------------------------------------
(* The inductive invariant, part one: types.                               *)

ItemType ==
  [pr : BOOLEAN, labels : SUBSET Labels, milestone : Numbers \cup {NoMilestone},
   open : BOOLEAN, areas : SUBSET Areas, lines : Sizes,
   board : [Boards -> {"absent", "added", "Review"}]]

\* What a command may still have to do after its labels.
Queues ==
  {<<>>, <<"update-labels">>, <<"closeIssue", "update-labels">>,
   <<"removeMilestone", "update-labels">>,
   <<"removeMilestone", "closeIssue", "update-labels">>, <<"listMilestones">>}

JobType ==
  [pc : Steps, labels : SUBSET Labels, milestone : Numbers \cup {NoMilestone},
   add : SUBSET Labels, remove : SUBSET Triage, calls : Queues,
   project : Boards \cup {NoProject}]

PeriodType ==
  [alone : BOOLEAN, failed : BOOLEAN, edited : BOOLEAN, warned : BOOLEAN,
   unsized : BOOLEAN, unplanned : BOOLEAN, overlapped : BOOLEAN, doubled : BOOLEAN]

IssueSteps ==
  {"idle", "close-declined", "update-labels", "addLabels", "removeLabel",
   "removeMilestone", "closeIssue"}

PullRequestSteps ==
  {"idle", "triage-pr", "info", "files", "addLabels", "listMilestones", "setMilestone"}
    \cup Boarding

\* What a job of an issue, or of a pull request, has in hand at each step.
Shaped(q, pr) ==
  /\ q.pc = "idle" => q = Idle
  /\ q.pc \notin {"addLabels", "files"} => q.add = {}
  /\ q.pc \notin {"addLabels", "removeLabel"} => q.remove = {}
  /\ q.pc \in {"addItem", "lookupStatus", "setStatus"} => q.project \in Boards
  /\ q.pc = "setMilestone" => q.milestone \in Numbers
  /\ pr => /\ q.pc \in PullRequestSteps /\ q.remove = {}
           /\ q.pc = "addLabels" => q.calls = <<"listMilestones">>
  /\ ~pr => /\ q.pc \in IssueSteps /\ q.calls # <<"listMilestones">>
            /\ q.pc = "addLabels" => q.calls = <<>>
            /\ q.pc = "removeMilestone" =>
                 q.calls \in {<<"update-labels">>, <<"closeIssue", "update-labels">>}
            /\ q.pc = "closeIssue" => q.calls = <<"update-labels">>
            /\ q.pc \in {"update-labels", "close-declined"} => q.calls = <<>>

TInv ==
  /\ item \in ItemType
  /\ closed \subseteq Numbers
  /\ pending \in Nat
  /\ job \in [Jobs -> JobType]
  /\ period \in PeriodType
  /\ \A j \in Jobs : Shaped(job[j], item.pr)

-----------------------------------------------------------------------------
(* Part two: what a job on its own, which nobody disturbs, has achieved.   *)

\* The last job started when no other ran, and the jobs never met.
Solo ==
  period.alone \/ ~period.overlapped =>
    \A i, j \in Jobs : job[i].pc # "idle" /\ job[j].pc # "idle" => i = j

\* Labels that, with the milestone and the text of an item, tell one story.
TriagedAs(it, labels) ==
  LET triage == labels \cap Triage IN
  IF declined \in triage
  THEN triage = {declined} /\ it.milestone = NoMilestone /\ ~it.open
  ELSE IF it.milestone # NoMilestone
  THEN /\ triage = {accepted}
       /\ labels \cap SizeLabels # {}
       /\ it.areas # {} => labels \cap Areas # {}
  ELSE /\ triage # {} /\ accepted \notin triage
       /\ needsTriage \in triage => triage = {needsTriage}

RemovesMilestone(q) ==
  \/ q.pc = "removeMilestone"
  \/ q.calls \in {<<"removeMilestone", "update-labels">>,
                  <<"removeMilestone", "closeIssue", "update-labels">>}

ClosesIssue(q) ==
  \/ q.pc = "closeIssue"
  \/ q.calls \in {<<"closeIssue", "update-labels">>,
                  <<"removeMilestone", "closeIssue", "update-labels">>}

\* close-declined, with calls to come, has made or will make a declined
\* issue one; update-labels will leave the labels it has worked out.
Declines(it, q) ==
  /\ q.remove # {} => declined \in it.labels
  /\ declined \in it.labels =>
       /\ declined \notin q.remove
       /\ it.labels \cap Triage \subseteq {declined} \cup q.remove
       /\ it.milestone = NoMilestone \/ RemovesMilestone(q)
       /\ ~it.open \/ ClosesIssue(q)

IssuePhase(it, q) ==
  /\ q.pc \in {"addLabels", "removeLabel"} /\ q.calls = <<>> =>
       TriagedAs(it, (it.labels \cup q.add) \ q.remove)
  /\ q.calls # <<>> \/ q.pc = "update-labels" => Declines(it, q)

Sized(labels) == labels \cap SizeLabels # {}

Milestoned(it) == it.milestone # NoMilestone \/ Candidates = {}

\* A job of a pull request from which nobody takes a size has found one or has
\* one to add; one whose milestone nobody takes off has found one or will set it.
SizedPhase(it, q) ==
  /\ q.pc = "info" /\ Sized(q.labels) => Sized(it.labels)
  /\ q.pc \in {"files", "addLabels"} => Sized(it.labels \cup q.add)
  /\ q.pc \in {"listMilestones", "setMilestone"} \cup Boarding => Sized(it.labels)

MilestonePhase(it, q) ==
  /\ q.pc \in {"info", "files", "addLabels", "listMilestones"} /\ q.milestone # NoMilestone =>
       it.milestone # NoMilestone
  /\ q.pc \in Boarding => Milestoned(it)

\* Nobody has interfered with the last job, or an event of it is pending.
Fresh == period.alone /\ (~period.edited \/ pending = 0)

PhaseInv ==
  /\ Fresh /\ ~item.pr => \A j \in Jobs : IssuePhase(item, job[j])
  /\ period.alone /\ ~period.unsized /\ item.pr => \A j \in Jobs : SizedPhase(item, job[j])
  /\ period.alone /\ ~period.unplanned /\ item.pr =>
       \A j \in Jobs : MilestonePhase(item, job[j])

\* And when it has ended.
Boarded(it, warned) == warned \/ \E b \in Boards : it.board[b] = "Review"

Ended(it) ==
  IF it.pr
  THEN /\ period.unsized \/ Sized(it.labels)
       /\ period.unplanned \/ Milestoned(it)
       /\ Boarded(it, period.warned)
  ELSE TriagedAs(it, it.labels)

EndInv == AtRest /\ Clean => Ended(item)

\* A pull request gets a second size only from jobs that overlap, or from
\* people, next to another or while a job runs.
OneSize(labels) == \A s, t \in labels \cap SizeLabels : s = t

SizePhase(it, q) ==
  /\ q.pc = "info" => it.labels \cap SizeLabels \subseteq q.labels
  /\ q.pc \in {"files", "addLabels"} => OneSize(it.labels \cup q.add)

SizeInv ==
  item.pr /\ ~period.overlapped /\ ~period.doubled =>
    OneSize(item.labels) /\ \A j \in Jobs : SizePhase(item, job[j])

IInv == TInv /\ Solo /\ PhaseInv /\ EndInv /\ SizeInv

-----------------------------------------------------------------------------
(* The operators of the model.                                             *)

\* A set of numbers has a least one.
LEMMA LeastNumber ==
  ASSUME NEW T \in SUBSET Nat, T # {}
  PROVE  \E x \in T : \A y \in T : x <= y
<1>1. IsWellFoundedOn(OpToRel(<, Nat), Nat)
  BY NatLessThanWellFounded
<1>2. PICK x \in T : \A y \in T : ~(<<y, x>> \in OpToRel(<, Nat))
  BY <1>1, WFMin, Zenon
<1>3. \A y \in T : ~(y < x)
  BY <1>2 DEF OpToRel
<1> QED
  BY <1>3

\* findOldestOpenProject returns a board of the owner, or none.
LEMMA OldestIsABoard ==
  ASSUME NEW projects \in SUBSET (OrgProjects \cup UserProjects)
  PROVE  findOldestOpenProject(projects) \in Boards \cup {NoProject}
<1> DEFINE open == {p.number : p \in {q \in projects : ~q.closed}}
<1>1. open \subseteq Boards /\ open \subseteq Nat
  BY TriageAssumption DEF Boards
<1>2. CASE open = {}
  BY <1>2 DEF findOldestOpenProject
<1>3. CASE open # {}
  <2> HIDE DEF open
  <2>1. \E n \in open : \A k \in open : n <= k
    BY <1>1, <1>3, LeastNumber
  <2>2. (CHOOSE n \in open : \A k \in open : n <= k) \in open
    BY <2>1
  <2> USE DEF open
  <2> QED
    BY <2>2, <1>1, <1>3 DEF findOldestOpenProject
<1> QED
  BY <1>2, <1>3

\* findLowestMilestone returns the number of a listed milestone.
LEMMA LowestIsListed ==
  ASSUME Candidates # {}
  PROVE  findLowestMilestone \in Numbers
<1> DEFINE versions == {Milestones[i].version : i \in Candidates}
<1>1. Candidates \subseteq DOMAIN Milestones /\ Candidates \subseteq Nat
  BY TriageAssumption DEF Candidates
<1>2. ASSUME NEW i \in Candidates
      PROVE  Milestones[i].version \in Nat
  <2>1. Milestones[i] \in [number : Nat, version : Nat \cup {NotSemver}]
    <3> DEFINE M == [number : Nat, version : Nat \cup {NotSemver}]
    <3>1. Milestones \in Seq(M) /\ i \in DOMAIN Milestones
      BY <1>1, TriageAssumption
    <3> HIDE DEF M
    <3>2. Milestones[i] \in M
      BY <3>1, ElementOfSeq, LenProperties
    <3> QED
      BY <3>2 DEF M
  <2>2. Milestones[i].version \in Nat \cup {NotSemver}
    BY <2>1
  <2> QED
    BY <2>2 DEF Candidates
<1>3. PICK v \in versions : \A w \in versions : v <= w
  <2>1. versions \in SUBSET Nat /\ versions # {}
    BY <1>2
  <2> HIDE DEF versions
  <2> QED
    BY <2>1, LeastNumber
<1> DEFINE places == {i \in Candidates : Milestones[i].version = v}
<1>4. PICK i \in places : \A k \in places : i <= k
  <2>1. places \in SUBSET Nat /\ places # {}
    BY <1>1, <1>3
  <2> HIDE DEF places
  <2> QED
    BY <2>1, LeastNumber
<1>5. \A k \in Candidates : \/ Milestones[i].version < Milestones[k].version
                            \/ Milestones[i].version = Milestones[k].version /\ i <= k
  <2> TAKE k \in Candidates
  <2>1. Milestones[k].version \in versions
    OBVIOUS
  <2>2. Milestones[i].version <= Milestones[k].version
    BY <2>1, <1>3, <1>4
  <2>3. Milestones[i].version \in Nat /\ Milestones[k].version \in Nat
    BY <1>2, <1>4
  <2>4. Milestones[i].version = Milestones[k].version => k \in places
    BY <1>4
  <2> HIDE DEF places, versions
  <2> QED
    BY <2>2, <2>3, <2>4, <1>4
<1>6. \E m \in Candidates : \A k \in Candidates :
          \/ Milestones[m].version < Milestones[k].version
          \/ Milestones[m].version = Milestones[k].version /\ m <= k
  BY <1>4, <1>5
<1> DEFINE m == CHOOSE m \in Candidates : \A k \in Candidates :
                  \/ Milestones[m].version < Milestones[k].version
                  \/ Milestones[m].version = Milestones[k].version /\ m <= k
<1>7. m \in Candidates
  BY <1>6
<1>8. findLowestMilestone = Milestones[m].number
  BY DEF findLowestMilestone
<1> HIDE DEF m
<1> QED
  BY <1>1, <1>7, <1>8 DEF Numbers

\* What is left of a queue after its first call.
LEMMA QueueSteps ==
  /\ Head(<<"update-labels">>) = "update-labels" /\ Tail(<<"update-labels">>) = <<>>
  /\ Head(<<"listMilestones">>) = "listMilestones" /\ Tail(<<"listMilestones">>) = <<>>
  /\ Head(<<"closeIssue", "update-labels">>) = "closeIssue"
  /\ Tail(<<"closeIssue", "update-labels">>) = <<"update-labels">>
  /\ Head(<<"removeMilestone", "update-labels">>) = "removeMilestone"
  /\ Tail(<<"removeMilestone", "update-labels">>) = <<"update-labels">>
  /\ Head(<<"removeMilestone", "closeIssue", "update-labels">>) = "removeMilestone"
  /\ Tail(<<"removeMilestone", "closeIssue", "update-labels">>) = <<"closeIssue", "update-labels">>
OBVIOUS

\* A plan that Continue can be given: labels to come first, calls to follow.
Planned(p, pr) ==
  /\ pr => p.remove = {} /\ p.calls = <<"listMilestones">>
  /\ ~pr => p.calls # <<"listMilestones">> /\ (p.add # {} => p.calls = <<>>)

\* Continue takes up the first thing there is to do.
LEMMA ContinueCases ==
  ASSUME NEW p \in JobType
  PROVE  /\ p.add # {} => Continue(p) = [p EXCEPT !.pc = "addLabels"]
         /\ p.add = {} /\ p.remove # {} => Continue(p) = [p EXCEPT !.pc = "removeLabel"]
         /\ p.add = {} /\ p.remove = {} =>
              /\ p.calls = <<>> => Continue(p) = Idle
              /\ p.calls # <<>> => Continue(p) = [p EXCEPT !.pc = Head(p.calls), !.calls = Tail(p.calls)]
BY DEF Continue, JobType

\* Taking up a call changes nothing else of the plan.
LEMMA HeadUpdate ==
  ASSUME NEW p \in JobType, NEW h, NEW t
  PROVE  LET q == [p EXCEPT !.pc = h, !.calls = t] IN
         /\ q.pc = h /\ q.calls = t
         /\ q.add = p.add /\ q.remove = p.remove /\ q.milestone = p.milestone
BY DEF JobType

\* A job at rest has nothing in hand.
LEMMA IdleType == Idle \in JobType /\ \A pr \in BOOLEAN : Shaped(Idle, pr)
BY DEF Idle, JobType, Shaped, Queues, Steps, IssueSteps, PullRequestSteps

\* What Continue returns is something a job can be about.
LEMMA ContinueShaped ==
  ASSUME NEW p \in JobType, NEW pr \in BOOLEAN, Planned(p, pr)
  PROVE  Continue(p) \in JobType /\ Shaped(Continue(p), pr)
<1> USE DEF Planned
<1>1. CASE p.add # {}
  BY <1>1, ContinueCases DEF JobType, Shaped, Steps, IssueSteps, PullRequestSteps
<1>2. CASE p.add = {} /\ p.remove # {}
  BY <1>2, ContinueCases DEF JobType, Shaped, Steps, IssueSteps, PullRequestSteps
<1>3. CASE p.add = {} /\ p.remove = {} /\ p.calls = <<>>
  BY <1>3, ContinueCases, IdleType
<1>4. CASE p.add = {} /\ p.remove = {} /\ p.calls # <<>>
  <2>1. Continue(p) = [p EXCEPT !.pc = Head(p.calls), !.calls = Tail(p.calls)]
    BY <1>4, ContinueCases
  <2>2. p.calls \in Queues \ {<<>>}
    BY <1>4 DEF JobType
  <2>3. ASSUME NEW h \in Steps, NEW t \in Queues, Head(p.calls) = h, Tail(p.calls) = t
        PROVE  /\ Continue(p) \in JobType
               /\ Continue(p).pc = h /\ Continue(p).calls = t
               /\ Continue(p).add = {} /\ Continue(p).remove = {}
    BY <1>4, <2>1, <2>3 DEF JobType
  <2> HIDE DEF Planned
  <2>4. CASE p.calls = <<"listMilestones">>
    <3>1. pr
      BY <2>4 DEF Planned
    <3> QED
      BY <2>3, <2>4, <3>1, QueueSteps DEF Shaped, Steps, Queues, PullRequestSteps, Boarding
  <2>5. CASE p.calls # <<"listMilestones">>
    <3>1. ~pr
      BY <2>5 DEF Planned
    <3>2. CASE p.calls = <<"update-labels">>
      BY <2>3, <3>2, <3>1, QueueSteps DEF Shaped, Steps, Queues, IssueSteps
    <3>3. CASE p.calls = <<"closeIssue", "update-labels">>
      BY <2>3, <3>3, <3>1, QueueSteps DEF Shaped, Steps, Queues, IssueSteps
    <3>4. CASE p.calls = <<"removeMilestone", "update-labels">>
      BY <2>3, <3>4, <3>1, QueueSteps DEF Shaped, Steps, Queues, IssueSteps
    <3>5. CASE p.calls = <<"removeMilestone", "closeIssue", "update-labels">>
      BY <2>3, <3>5, <3>1, QueueSteps DEF Shaped, Steps, Queues, IssueSteps
    <3> QED
      BY <2>2, <2>5, <3>2, <3>3, <3>4, <3>5 DEF Queues
  <2> QED
    BY <2>4, <2>5
<1> QED
  BY <1>1, <1>2, <1>3, <1>4

-----------------------------------------------------------------------------
(* What every step of a job that has started does.                         *)

Moves(j, q) ==
  /\ job[j].pc # "idle"
  /\ item' \in ItemType /\ item'.pr = item.pr
  /\ q \in JobType /\ Shaped(q, item.pr)
  /\ job' = [job EXCEPT ![j] = q]
  /\ closed' = closed /\ pending' = pending
  /\ period' \in PeriodType
  /\ period'.alone = period.alone /\ period'.overlapped = period.overlapped
  /\ period'.edited = period.edited /\ period'.doubled = period.doubled
  /\ period'.unsized = period.unsized /\ period'.unplanned = period.unplanned
  /\ period.failed => period'.failed
  /\ period.warned => period'.warned

\* The step with which a job goes on.
LEMMA StepMoves ==
  ASSUME TInv, NEW j \in Jobs, job[j].pc # "idle", NEW q \in JobType, Shaped(q, item.pr),
         Step(j, q), item' \in ItemType, item'.pr = item.pr
  PROVE  Moves(j, q)
BY DEF Step, Moves, TInv

\* The step with which a job is cut off.
LEMMA AbortMoves ==
  ASSUME TInv, NEW j \in Jobs, job[j].pc # "idle", Abort(j), item' \in ItemType,
         item'.pr = item.pr
  PROVE  Moves(j, Idle)
<1>1. item.pr \in BOOLEAN /\ period \in PeriodType
  BY DEF TInv, ItemType
<1>2. /\ period' \in PeriodType
      /\ period'.alone = period.alone /\ period'.overlapped = period.overlapped
      /\ period'.edited = period.edited /\ period'.doubled = period.doubled
      /\ period'.unsized = period.unsized /\ period'.unplanned = period.unplanned
      /\ period.failed => period'.failed
      /\ period.warned => period'.warned
  <2>1. CASE job[j].pc \in Boarding
    BY <1>1, <2>1 DEF Abort, PeriodType
  <2>2. CASE job[j].pc \notin Boarding
    BY <1>1, <2>2 DEF Abort, PeriodType
  <2> QED
    BY <2>1, <2>2
<1> QED
  BY <1>1, <1>2, IdleType DEF Abort, Moves

\* A call that changes the item, answered or not.
LEMMA CallMoves ==
  ASSUME TInv, NEW j \in Jobs, job[j].pc # "idle", NEW q \in JobType, Shaped(q, item.pr),
         NEW it \in ItemType, it.pr = item.pr, Call(j, it, q)
  PROVE  Moves(j, q) \/ Moves(j, Idle)
BY StepMoves, AbortMoves DEF Call

\* What the rules compute is made of labels.
LEMMA RulesType ==
  ASSUME NEW it \in ItemType
  PROVE  /\ computeDeclined(it).remove \subseteq Triage
         /\ LabelUpdates(it).add \subseteq Labels
         /\ LabelUpdates(it).remove \subseteq Triage
         /\ \A labels, lines : computePRSizeLabel(labels, lines) \subseteq SizeLabels
         /\ \A labels : computePRAreaLabels(labels, it.areas) \subseteq Areas
<1>1. it.areas \subseteq Areas /\ it.labels \subseteq Labels
  BY DEF ItemType
<1>2. computeDeclined(it).remove \subseteq Triage
  BY DEF computeDeclined
<1> DEFINE u == computeLabelUpdates(it.labels, it.milestone # NoMilestone)
           e == effectiveLabels(it.labels, u)
<1>3. u.add \subseteq Triage /\ u.remove \subseteq Triage /\ u = [add |-> u.add, remove |-> u.remove]
  BY DEF computeLabelUpdates, Triage
<1>4. computeSizeLabels(e) \subseteq SizeLabels
  BY DEF computeSizeLabels, SizeLabels
<1>5. computeAreaLabels(e, it.areas) \subseteq Areas
  BY <1>1 DEF computeAreaLabels
<1>6. /\ LabelUpdates(it).add = u.add \cup computeSizeLabels(e) \cup computeAreaLabels(e, it.areas)
      /\ LabelUpdates(it).remove = u.remove
  <2> HIDE DEF e
  <2>1. LabelUpdates(it) =
          [u EXCEPT !.add = @ \cup computeSizeLabels(e) \cup computeAreaLabels(e, it.areas)]
    BY DEF LabelUpdates, e
  <2> HIDE DEF u
  <2> QED
    BY <1>3, <2>1
<1>7. \A labels, lines : computePRSizeLabel(labels, lines) \subseteq SizeLabels
  BY DEF computePRSizeLabel, SizeLabels
<1>8. \A labels : computePRAreaLabels(labels, it.areas) \subseteq Areas
  BY <1>1 DEF computePRAreaLabels
<1> HIDE DEF u, e
<1> QED
  BY <1>2, <1>3, <1>4, <1>5, <1>6, <1>7, <1>8 DEF Labels

\* One list of calls after another.
LEMMA CallConcat ==
  ASSUME NEW a, NEW b, NEW c
  PROVE  /\ <<>> \o <<>> = <<>> /\ <<>> \o <<a>> = <<a>> /\ <<a>> \o <<>> = <<a>>
         /\ <<a>> \o <<b>> = <<a, b>> /\ <<a, b>> \o <<c>> = <<a, b, c>>
<1> DEFINE S == {a, b, c}
<1>1. /\ <<>> \in Seq(S) /\ <<a>> \in Seq(S) /\ <<b>> \in Seq(S) /\ <<c>> \in Seq(S)
      /\ <<a, b>> \in Seq(S) /\ <<a, b, c>> \in Seq(S)
  OBVIOUS
<1> HIDE DEF S
<1>2. <<>> \o <<>> = <<>> /\ <<>> \o <<a>> = <<a>> /\ <<a>> \o <<>> = <<a>>
  BY <1>1, ConcatEmptySeq, Zenon
<1>3. /\ <<a>> \o <<b>> \in Seq(S) /\ Len(<<a>> \o <<b>>) = 2
      /\ (<<a>> \o <<b>>)[1] = a /\ (<<a>> \o <<b>>)[2] = b
  BY <1>1, ConcatProperties
<1>4. <<a>> \o <<b>> = <<a, b>>
  <2>1. \A i \in 1..2 : (<<a>> \o <<b>>)[i] = <<a, b>>[i]
    BY <1>3
  <2> QED
    BY <1>1, <1>3, <2>1, SeqEqual
<1>5. /\ <<a, b>> \o <<c>> \in Seq(S) /\ Len(<<a, b>> \o <<c>>) = 3
      /\ (<<a, b>> \o <<c>>)[1] = a /\ (<<a, b>> \o <<c>>)[2] = b
      /\ (<<a, b>> \o <<c>>)[3] = c
  BY <1>1, ConcatProperties
<1>6. <<a, b>> \o <<c>> = <<a, b, c>>
  <2>1. \A i \in 1..3 : (<<a, b>> \o <<c>>)[i] = <<a, b, c>>[i]
    BY <1>5
  <2> QED
    BY <1>1, <1>5, <2>1, SeqEqual
<1> QED
  BY <1>2, <1>4, <1>6

\* The calls that close-declined plans.
LEMMA DeclinedCalls ==
  ASSUME NEW it \in ItemType
  PROVE  computeDeclined(it).calls \o <<"update-labels">> =
           IF it.milestone # NoMilestone
           THEN IF it.open THEN <<"removeMilestone", "closeIssue", "update-labels">>
                ELSE <<"removeMilestone", "update-labels">>
           ELSE IF it.open THEN <<"closeIssue", "update-labels">> ELSE <<"update-labels">>
<1>1. /\ (<<"removeMilestone">> \o <<"closeIssue">>) \o <<"update-labels">>
           = <<"removeMilestone", "closeIssue", "update-labels">>
      /\ (<<"removeMilestone">> \o <<>>) \o <<"update-labels">>
           = <<"removeMilestone", "update-labels">>
      /\ (<<>> \o <<"closeIssue">>) \o <<"update-labels">> = <<"closeIssue", "update-labels">>
      /\ (<<>> \o <<>>) \o <<"update-labels">> = <<"update-labels">>
  BY CallConcat, Zenon
<1>2. computeDeclined(it).calls
        = (IF it.milestone # NoMilestone THEN <<"removeMilestone">> ELSE <<>>)
            \o (IF it.open THEN <<"closeIssue">> ELSE <<>>)
  BY DEF computeDeclined
<1>3. CASE it.milestone # NoMilestone /\ it.open
  BY <1>1, <1>2, <1>3, Zenon
<1>4. CASE it.milestone # NoMilestone /\ ~it.open
  BY <1>1, <1>2, <1>4, Zenon
<1>5. CASE it.milestone = NoMilestone /\ it.open
  BY <1>1, <1>2, <1>5, Zenon
<1>6. CASE it.milestone = NoMilestone /\ ~it.open
  BY <1>1, <1>2, <1>6, Zenon
<1> QED
  BY <1>3, <1>4, <1>5, <1>6, Zenon

\* The commands on an issue.
LEMMA IssueMoves ==
  ASSUME TInv, NEW j \in Jobs,
         \/ CloseDeclined(j) \/ UpdateLabels(j) \/ AddLabels(j)
         \/ (\E l \in Triage : RemoveLabel(j, l)) \/ RemoveMilestone(j) \/ CloseIssue(j)
  PROVE  \E q : Moves(j, q)
<1>1. item \in ItemType /\ item.pr \in BOOLEAN /\ job[j] \in JobType /\ Shaped(job[j], item.pr)
  BY DEF TInv, ItemType
<1>2. CASE CloseDeclined(j)
  <2> DEFINE r == IF declined \in item.labels THEN computeDeclined(item).remove ELSE {}
             c == (IF declined \in item.labels THEN computeDeclined(item).calls ELSE <<>>)
                    \o <<"update-labels">>
             p == [Idle EXCEPT !.remove = r, !.calls = c]
  <2>1. r \subseteq Triage
    BY <1>1, RulesType
  <2>2. c \in Queues /\ c # <<"listMilestones">>
    <3>1. CASE declined \in item.labels
      <4> DEFINE d == computeDeclined(item).calls \o <<"update-labels">>
      <4>1. d \in {<<"update-labels">>, <<"closeIssue", "update-labels">>,
                   <<"removeMilestone", "update-labels">>,
                   <<"removeMilestone", "closeIssue", "update-labels">>}
        BY <1>1, DeclinedCalls, Zenon
      <4>2. c = d
        BY <3>1, Zenon
      <4> HIDE DEF c, d
      <4> QED
        BY <4>1, <4>2 DEF Queues
    <3>2. CASE declined \notin item.labels
      BY <3>2, CallConcat DEF Queues
    <3> QED
      BY <3>1, <3>2
  <2>3. ~item.pr /\ job[j].pc # "idle"
    BY <1>1, <1>2 DEF CloseDeclined, Shaped, PullRequestSteps, Boarding
  <2>4. Step(j, Continue(p)) /\ item' = item
    BY <1>2 DEF CloseDeclined
  <2> HIDE DEF r, c
  <2>5. p \in JobType /\ Planned(p, item.pr)
    BY <2>1, <2>2, <2>3, IdleType DEF JobType, Planned, Idle
  <2> HIDE DEF p
  <2> QED
    BY <1>1, <2>3, <2>4, <2>5, ContinueShaped, StepMoves
<1>3. CASE UpdateLabels(j)
  <2> DEFINE a == LabelUpdates(item).add
             r == LabelUpdates(item).remove
             p == [Idle EXCEPT !.add = a, !.remove = r]
  <2>1. a \subseteq Labels /\ r \subseteq Triage
    BY <1>1, RulesType
  <2>2. ~item.pr /\ job[j].pc # "idle"
    BY <1>1, <1>3 DEF UpdateLabels, Shaped, PullRequestSteps, Boarding
  <2>3. (Step(j, Idle) \/ Step(j, Continue(p))) /\ item' = item
    BY <1>3 DEF UpdateLabels
  <2> HIDE DEF a, r
  <2>4. p \in JobType /\ Planned(p, item.pr)
    BY <2>1, <2>2, IdleType DEF JobType, Planned, Idle
  <2> HIDE DEF p
  <2>5. Step(j, Idle) => Moves(j, Idle)
    BY <1>1, <2>2, <2>3, IdleType, StepMoves
  <2>6. Step(j, Continue(p)) => Moves(j, Continue(p))
    BY <1>1, <2>2, <2>3, <2>4, ContinueShaped, StepMoves
  <2> QED
    BY <2>3, <2>5, <2>6
<1>4. CASE AddLabels(j)
  <2> DEFINE p == [job[j] EXCEPT !.add = {}]
             it == [item EXCEPT !.labels = @ \cup job[j].add]
  <2>1. p \in JobType
    BY <1>1 DEF JobType
  <2>2. Planned(p, item.pr)
    BY <1>1, <1>4 DEF Planned, Shaped, AddLabels, JobType
  <2>3. it \in ItemType /\ it.pr = item.pr
    BY <1>1 DEF ItemType, JobType
  <2>4. Call(j, it, Continue(p)) /\ job[j].pc # "idle"
    BY <1>4 DEF AddLabels
  <2> HIDE DEF p, it
  <2> QED
    BY <1>1, <2>1, <2>2, <2>3, <2>4, ContinueShaped, CallMoves
<1>5. ASSUME NEW l \in Triage, RemoveLabel(j, l)
      PROVE  \E q : Moves(j, q)
  <2> DEFINE p == [job[j] EXCEPT !.remove = @ \ {l}]
             it == [item EXCEPT !.labels = @ \ {l}]
  <2>1. p \in JobType
    BY <1>1 DEF JobType
  <2>2. Planned(p, item.pr)
    BY <1>1, <1>5 DEF Planned, Shaped, RemoveLabel, JobType, PullRequestSteps, Boarding
  <2>3. it \in ItemType /\ it.pr = item.pr
    BY <1>1 DEF ItemType, JobType
  <2>4. Call(j, it, Continue(p)) /\ job[j].pc # "idle"
    BY <1>5 DEF RemoveLabel
  <2> HIDE DEF p, it
  <2> QED
    BY <1>1, <2>1, <2>2, <2>3, <2>4, ContinueShaped, CallMoves
<1>6. CASE RemoveMilestone(j)
  <2> DEFINE it == [item EXCEPT !.milestone = NoMilestone]
  <2>1. Planned(job[j], item.pr)
    BY <1>1, <1>6 DEF Planned, Shaped, RemoveMilestone, PullRequestSteps, Boarding
  <2>2. it \in ItemType /\ it.pr = item.pr
    BY <1>1 DEF ItemType
  <2>3. Call(j, it, Continue(job[j])) /\ job[j].pc # "idle"
    BY <1>6 DEF RemoveMilestone
  <2> HIDE DEF it
  <2> QED
    BY <1>1, <2>1, <2>2, <2>3, ContinueShaped, CallMoves
<1>7. CASE CloseIssue(j)
  <2> DEFINE it == [item EXCEPT !.open = FALSE]
  <2>1. Planned(job[j], item.pr)
    BY <1>1, <1>7 DEF Planned, Shaped, CloseIssue, PullRequestSteps, Boarding
  <2>2. it \in ItemType /\ it.pr = item.pr
    BY <1>1 DEF ItemType
  <2>3. Call(j, it, Continue(job[j])) /\ job[j].pc # "idle"
    BY <1>7 DEF CloseIssue
  <2> HIDE DEF it
  <2> QED
    BY <1>1, <2>1, <2>2, <2>3, ContinueShaped, CallMoves
<1> QED
  BY <1>2, <1>3, <1>4, <1>5, <1>6, <1>7

\* The command on a pull request, and a call that fails.
LEMMA PullRequestMoves ==
  ASSUME TInv, NEW j \in Jobs,
         \/ CallFails(j)
         \/ GetPullRequest(j) \/ GetPullRequestInfo(j) \/ GetPullRequestFiles(j)
         \/ ListOpenMilestones(j) \/ SetMilestone(j)
         \/ ResolveOrganization(j) \/ ResolveOrganizationFails(j) \/ ResolveUser(j)
         \/ AddItem(j) \/ LookupStatusOption(j) \/ SetStatus(j)
  PROVE  \E q : Moves(j, q)
<1>1. item \in ItemType /\ item.pr \in BOOLEAN /\ job[j] \in JobType /\ Shaped(job[j], item.pr)
  BY DEF TInv, ItemType
<1>2. CASE CallFails(j)
  BY <1>1, <1>2, AbortMoves DEF CallFails
<1>3. CASE GetPullRequest(j)
  <2> DEFINE q == [Idle EXCEPT !.pc = "info", !.labels = item.labels, !.milestone = item.milestone]
  <2>1. item.pr /\ job[j].pc # "idle"
    BY <1>1, <1>3 DEF GetPullRequest, Shaped, IssueSteps
  <2>2. Step(j, q) /\ item' = item
    BY <1>3 DEF GetPullRequest
  <2>3. q \in JobType /\ Shaped(q, item.pr)
    BY <1>1, <2>1, IdleType DEF ItemType, JobType, Idle, Shaped, Steps, PullRequestSteps
  <2> HIDE DEF q
  <2> QED
    BY <1>1, <2>1, <2>2, <2>3, StepMoves
<1>4. CASE GetPullRequestInfo(j)
  <2> DEFINE a == computePRSizeLabel(job[j].labels, item.lines)
             q == [job[j] EXCEPT !.pc = "files", !.add = a]
  <2>1. item.pr /\ job[j].pc # "idle"
    BY <1>1, <1>4 DEF GetPullRequestInfo, Shaped, IssueSteps
  <2>2. a \subseteq Labels
    BY <1>1, RulesType DEF Labels
  <2>3. Step(j, q) /\ item' = item
    BY <1>4 DEF GetPullRequestInfo
  <2> HIDE DEF a
  <2>4. q \in JobType /\ Shaped(q, item.pr)
    BY <1>1, <1>4, <2>1, <2>2 DEF JobType, Shaped, Steps, PullRequestSteps, GetPullRequestInfo
  <2> HIDE DEF q
  <2> QED
    BY <1>1, <2>1, <2>3, <2>4, StepMoves
<1>5. CASE GetPullRequestFiles(j)
  <2> DEFINE a == computePRAreaLabels(job[j].labels, item.areas)
             p == [job[j] EXCEPT !.add = @ \cup a, !.calls = <<"listMilestones">>, !.labels = {}]
  <2>1. item.pr /\ job[j].pc # "idle" /\ job[j].remove = {}
    BY <1>1, <1>5 DEF GetPullRequestFiles, Shaped, IssueSteps
  <2>2. a \subseteq Labels
    BY <1>1, RulesType DEF Labels
  <2>3. Step(j, Continue(p)) /\ item' = item
    BY <1>5 DEF GetPullRequestFiles
  <2> HIDE DEF a
  <2>4. p \in JobType /\ Planned(p, item.pr)
    BY <1>1, <2>1, <2>2 DEF JobType, Planned, Queues
  <2> HIDE DEF p
  <2> QED
    BY <1>1, <2>1, <2>3, <2>4, ContinueShaped, StepMoves
<1>6. CASE ListOpenMilestones(j)
  <2> DEFINE n == findLowestMilestone
             q == [Idle EXCEPT !.pc = "setMilestone", !.milestone = n]
             r == [Idle EXCEPT !.pc = "organization"]
  <2>1. item.pr /\ job[j].pc # "idle"
    BY <1>1, <1>6 DEF ListOpenMilestones, Shaped, IssueSteps
  <2>2. ((Candidates # {} /\ Step(j, q)) \/ Step(j, r)) /\ item' = item
    BY <1>6 DEF ListOpenMilestones
  <2>3. Candidates # {} => n \in Numbers
    BY LowestIsListed
  <2> HIDE DEF n
  <2>4. Candidates # {} => q \in JobType /\ Shaped(q, item.pr)
    BY <1>1, <2>1, <2>3, IdleType DEF JobType, Idle, Shaped, Steps, PullRequestSteps
  <2>5. r \in JobType /\ Shaped(r, item.pr)
    BY <1>1, <2>1, IdleType DEF JobType, Idle, Shaped, Steps, PullRequestSteps, Boarding
  <2> HIDE DEF q, r
  <2> QED
    BY <1>1, <2>1, <2>2, <2>4, <2>5, StepMoves
<1>7. CASE SetMilestone(j)
  <2> DEFINE it == [item EXCEPT !.milestone = job[j].milestone]
             r == [Idle EXCEPT !.pc = "organization"]
  <2>1. item.pr /\ job[j].pc # "idle"
    BY <1>1, <1>7 DEF SetMilestone, Shaped, IssueSteps
  <2>2. Call(j, it, r)
    BY <1>7 DEF SetMilestone
  <2>3. it \in ItemType /\ it.pr = item.pr
    BY <1>1 DEF ItemType, JobType
  <2>4. r \in JobType /\ Shaped(r, item.pr)
    BY <1>1, <2>1, IdleType DEF JobType, Idle, Shaped, Steps, PullRequestSteps, Boarding
  <2> HIDE DEF it, r
  <2> QED
    BY <1>1, <2>1, <2>2, <2>3, <2>4, CallMoves
<1>8. CASE ResolveOrganization(j)
  <2> DEFINE b == findOldestOpenProject(OrgProjects)
             q == [Idle EXCEPT !.pc = IF b = NoProject THEN "user" ELSE "addItem", !.project = b]
  <2>1. item.pr /\ job[j].pc # "idle"
    BY <1>1, <1>8 DEF ResolveOrganization, Shaped, IssueSteps
  <2>2. Step(j, q) /\ item' = item
    BY <1>8 DEF ResolveOrganization
  <2>3. b \in Boards \cup {NoProject}
    BY OldestIsABoard
  <2> HIDE DEF b
  <2>4. q \in JobType /\ Shaped(q, item.pr)
    BY <2>1, <2>3, IdleType DEF JobType, Idle, Shaped, Steps, PullRequestSteps, Boarding
  <2> HIDE DEF q
  <2> QED
    BY <1>1, <2>1, <2>2, <2>4, StepMoves
<1>9. CASE ResolveOrganizationFails(j)
  <2> DEFINE q == [job[j] EXCEPT !.pc = "user"]
  <2>1. item.pr /\ job[j].pc # "idle"
    BY <1>1, <1>9 DEF ResolveOrganizationFails, Shaped, IssueSteps
  <2>2. q \in JobType /\ Shaped(q, item.pr)
    BY <1>1, <1>9, <2>1
    DEF ResolveOrganizationFails, JobType, Shaped, Steps, PullRequestSteps, Boarding
  <2>3. job' = [job EXCEPT ![j] = q]
    BY <1>9 DEF ResolveOrganizationFails, TInv
  <2> HIDE DEF q
  <2> QED
    BY <1>1, <1>9, <2>1, <2>2, <2>3 DEF ResolveOrganizationFails, Moves, TInv
<1>10. CASE ResolveUser(j)
  <2> DEFINE b == findOldestOpenProject(UserProjects)
             q == [job[j] EXCEPT !.pc = "addItem", !.project = b]
  <2>1. item.pr /\ job[j].pc # "idle"
    BY <1>1, <1>10 DEF ResolveUser, Shaped, IssueSteps
  <2>2. b \in Boards \cup {NoProject}
    BY OldestIsABoard
  <2>3. /\ job' = [job EXCEPT ![j] = IF b = NoProject THEN Idle ELSE q]
        /\ period' = [period EXCEPT !.warned = @ \/ b = NoProject]
        /\ item' = item /\ closed' = closed /\ pending' = pending
    BY <1>10 DEF ResolveUser
  <2> HIDE DEF b
  <2>4. b # NoProject => q \in JobType /\ Shaped(q, item.pr)
    BY <1>1, <1>10, <2>1, <2>2
    DEF ResolveUser, JobType, Shaped, Steps, PullRequestSteps, Boarding
  <2>5. /\ period' \in PeriodType
        /\ period'.alone = period.alone /\ period'.overlapped = period.overlapped
        /\ period'.edited = period.edited /\ period'.doubled = period.doubled
        /\ period'.unsized = period.unsized /\ period'.unplanned = period.unplanned
        /\ period.failed => period'.failed
        /\ period.warned => period'.warned
    BY <2>3 DEF PeriodType, TInv
  <2> HIDE DEF q
  <2> QED
    BY <1>1, <2>1, <2>3, <2>4, <2>5, IdleType DEF Moves
<1>11. CASE AddItem(j)
  <2> DEFINE it == [item EXCEPT !.board[job[j].project] = IF @ = "absent" THEN "added" ELSE @]
             q == [job[j] EXCEPT !.pc = "lookupStatus"]
  <2>1. item.pr /\ job[j].pc # "idle"
    BY <1>1, <1>11 DEF AddItem, Shaped, IssueSteps
  <2>2. Call(j, it, q)
    BY <1>11 DEF AddItem
  <2>3. q \in JobType /\ Shaped(q, item.pr)
    BY <1>1, <1>11, <2>1 DEF AddItem, JobType, Shaped, Steps, PullRequestSteps, Boarding
  <2>4. it \in ItemType /\ it.pr = item.pr
    BY <1>1 DEF ItemType
  <2> HIDE DEF it, q
  <2> QED
    BY <1>1, <2>1, <2>2, <2>3, <2>4, CallMoves
<1>12. CASE LookupStatusOption(j)
  <2> DEFINE q == [job[j] EXCEPT !.pc = "setStatus"]
  <2>1. item.pr /\ job[j].pc # "idle"
    BY <1>1, <1>12 DEF LookupStatusOption, Shaped, IssueSteps
  <2>2. Step(j, q) /\ item' = item
    BY <1>12 DEF LookupStatusOption
  <2>3. q \in JobType /\ Shaped(q, item.pr)
    BY <1>1, <1>12, <2>1
    DEF LookupStatusOption, JobType, Shaped, Steps, PullRequestSteps, Boarding
  <2> HIDE DEF q
  <2> QED
    BY <1>1, <2>1, <2>2, <2>3, StepMoves
<1>13. CASE SetStatus(j)
  <2> DEFINE it == [item EXCEPT !.board[job[j].project] = "Review"]
  <2>1. job[j].pc # "idle" /\ Call(j, it, Idle)
    BY <1>13 DEF SetStatus
  <2>2. it \in ItemType /\ it.pr = item.pr
    BY <1>1 DEF ItemType
  <2> HIDE DEF it
  <2> QED
    BY <1>1, <2>1, <2>2, IdleType, CallMoves
<1> QED
  BY <1>2, <1>3, <1>4, <1>5, <1>6, <1>7, <1>8, <1>9, <1>10, <1>11, <1>12, <1>13

\* A step of a job that has started, whichever it is.
LEMMA WorkMoves ==
  ASSUME TInv, NEW j \in Jobs, Work(j)
  PROVE  StartJob(j) \/ \E q : Moves(j, q)
BY IssueMoves, PullRequestMoves DEF Work

\* What people do leaves the jobs alone; and a pull request's sizes and its
\* milestone stay, and no second size comes, unless that is noted.
LEMMA PeopleTypes ==
  ASSUME TInv, People
  PROVE  /\ item' \in ItemType /\ item'.pr = item.pr
         /\ closed \subseteq closed' /\ closed' \subseteq Numbers
         /\ pending' \in Nat /\ (pending' = 0 => pending = 0)
         /\ job' = job
         /\ period' \in PeriodType /\ period'.edited /\ period'.alone = period.alone
         /\ period'.failed = period.failed /\ period'.warned = period.warned
         /\ period'.overlapped = period.overlapped
         /\ ~item.pr /\ pending' = 0 =>
              /\ item'.labels = item.labels /\ item'.milestone = item.milestone
              /\ item'.areas = item.areas /\ (item'.open => item.open)
         /\ item'.board = item.board
         /\ ~period'.unsized =>
              ~period.unsized /\ item.labels \cap SizeLabels \subseteq item'.labels
         /\ ~period'.unplanned =>
              ~period.unplanned /\ (item.milestone # NoMilestone => item'.milestone # NoMilestone)
         /\ ~period'.doubled =>
              /\ ~period.doubled
              /\ OneSize(item.labels) => OneSize(item'.labels)
              /\ AllIdle \/ item'.labels \cap SizeLabels \subseteq item.labels
<1>1. item \in ItemType /\ pending \in Nat /\ period \in PeriodType /\ closed \subseteq Numbers
  BY DEF TInv
<1>2. ASSUME NEW b \in BOOLEAN, NEW seen \in PeriodType, Human(b, seen)
      PROVE  /\ pending' \in Nat /\ (pending' = 0 => pending = 0 /\ ~b)
             /\ job' = job /\ period' \in PeriodType /\ period'.edited
             /\ period'.alone = seen.alone /\ period'.failed = seen.failed
             /\ period'.warned = seen.warned /\ period'.overlapped = seen.overlapped
             /\ period'.unsized = seen.unsized /\ period'.unplanned = seen.unplanned
             /\ period'.doubled = seen.doubled
  <2>1. /\ pending' = (IF b THEN pending + 1 ELSE pending)
        /\ job' = job /\ period' = [seen EXCEPT !.edited = TRUE]
    BY <1>2 DEF Human
  <2>2. /\ period' \in PeriodType /\ period'.edited
        /\ period'.alone = seen.alone /\ period'.failed = seen.failed
        /\ period'.warned = seen.warned /\ period'.overlapped = seen.overlapped
        /\ period'.unsized = seen.unsized /\ period'.unplanned = seen.unplanned
        /\ period'.doubled = seen.doubled
    BY <2>1 DEF PeriodType
  <2>3. b => pending' = pending + 1
    BY <2>1, Zenon
  <2>4. ~b => pending' = pending
    BY <2>1, Zenon
  <2> QED
    BY <1>1, <2>1, <2>2, <2>3, <2>4
<1>3. (~item.open) \in BOOLEAN /\ (~item.pr) \in BOOLEAN
  BY <1>1 DEF ItemType
<1>4. CASE \E l \in Labels : Relabel(l)
  <2>1. PICK l \in Labels : Relabel(l)
    BY <1>4
  <2> DEFINE sizes == item.labels \cap SizeLabels
             u == period.unsized \/ l \in sizes
             d == period.doubled \/ (l \in SizeLabels \ sizes /\ (sizes # {} \/ ~AllIdle))
             seen == [period EXCEPT !.unsized = u, !.doubled = d]
             labels == IF l \in item.labels THEN item.labels \ {l} ELSE item.labels \cup {l}
  <2>2. /\ Human(~item.pr, seen) /\ closed' = closed
        /\ item' = [item EXCEPT !.labels = labels]
    BY <2>1 DEF Relabel
  <2>3. u \in BOOLEAN /\ d \in BOOLEAN
    BY <1>1 DEF PeriodType, AllIdle
  <2>4. labels \in SUBSET Labels
    BY <1>1 DEF ItemType
  <2>5. /\ ~u => ~period.unsized /\ sizes \subseteq labels
        /\ ~d => /\ ~period.doubled
                 /\ OneSize(item.labels) => OneSize(labels)
                 /\ AllIdle \/ labels \cap SizeLabels \subseteq item.labels
    BY DEF OneSize
  <2> HIDE DEF u, d, labels
  <2>6. /\ seen \in PeriodType /\ seen.unsized = u /\ seen.doubled = d
        /\ seen.alone = period.alone /\ seen.failed = period.failed
        /\ seen.warned = period.warned /\ seen.overlapped = period.overlapped
        /\ seen.unplanned = period.unplanned
    BY <1>1, <2>3 DEF PeriodType
  <2> HIDE DEF seen
  <2>7. /\ item' \in ItemType /\ item'.pr = item.pr /\ item'.labels = labels
        /\ item'.milestone = item.milestone /\ item'.board = item.board
    BY <1>1, <2>2, <2>4 DEF ItemType
  <2>8. /\ pending' \in Nat /\ (pending' = 0 => pending = 0 /\ ~(~item.pr))
        /\ job' = job /\ period' \in PeriodType /\ period'.edited
        /\ period'.alone = seen.alone /\ period'.failed = seen.failed
        /\ period'.warned = seen.warned /\ period'.overlapped = seen.overlapped
        /\ period'.unsized = seen.unsized /\ period'.unplanned = seen.unplanned
        /\ period'.doubled = seen.doubled
    BY <1>2, <1>3, <2>2, <2>6
  <2> QED
    BY <1>1, <2>2, <2>5, <2>6, <2>7, <2>8
<1>5. CASE \E n \in Numbers \cup {NoMilestone} : ChangeMilestone(n)
  <2>1. PICK n \in Numbers \cup {NoMilestone} : ChangeMilestone(n)
    BY <1>5
  <2> DEFINE u == period.unplanned \/ n = NoMilestone
             seen == [period EXCEPT !.unplanned = u]
  <2>2. /\ Human(~item.pr, seen) /\ closed' = closed
        /\ item' = [item EXCEPT !.milestone = n]
    BY <2>1 DEF ChangeMilestone
  <2>3. u \in BOOLEAN
    BY <1>1 DEF PeriodType
  <2>4. ~u => ~period.unplanned /\ n # NoMilestone
    OBVIOUS
  <2> HIDE DEF u
  <2>5. /\ seen \in PeriodType /\ seen.unplanned = u
        /\ seen.alone = period.alone /\ seen.failed = period.failed
        /\ seen.warned = period.warned /\ seen.overlapped = period.overlapped
        /\ seen.unsized = period.unsized /\ seen.doubled = period.doubled
    BY <1>1, <2>3 DEF PeriodType
  <2> HIDE DEF seen
  <2>6. /\ item' \in ItemType /\ item'.pr = item.pr /\ item'.labels = item.labels
        /\ item'.milestone = n /\ item'.board = item.board
    BY <1>1, <2>2 DEF ItemType
  <2>7. /\ pending' \in Nat /\ (pending' = 0 => pending = 0 /\ ~(~item.pr))
        /\ job' = job /\ period' \in PeriodType /\ period'.edited
        /\ period'.alone = seen.alone /\ period'.failed = seen.failed
        /\ period'.warned = seen.warned /\ period'.overlapped = seen.overlapped
        /\ period'.unsized = seen.unsized /\ period'.unplanned = seen.unplanned
        /\ period'.doubled = seen.doubled
    BY <1>2, <1>3, <2>2, <2>5
  <2> QED
    BY <1>1, <2>2, <2>4, <2>5, <2>6, <2>7
<1>6. ASSUME NEW areas \in SUBSET Areas, EditText(areas)
      PROVE  /\ item' \in ItemType /\ item'.pr = item.pr
             /\ item'.labels = item.labels /\ item'.milestone = item.milestone
             /\ Human(TRUE, period) /\ closed' = closed /\ item'.board = item.board
  BY <1>1, <1>6 DEF EditText, ItemType
<1>7. ASSUME NEW lines \in Sizes, NEW areas \in SUBSET Areas, Push(lines, areas)
      PROVE  /\ item' \in ItemType /\ item'.pr = item.pr
             /\ item'.labels = item.labels /\ item'.milestone = item.milestone
             /\ Human(TRUE, period) /\ closed' = closed /\ item'.board = item.board
  BY <1>1, <1>7 DEF Push, ItemType
<1>8. ASSUME CloseOrReopen
      PROVE  /\ item' \in ItemType /\ item'.pr = item.pr /\ item'.areas = item.areas
             /\ item'.labels = item.labels /\ item'.milestone = item.milestone
             /\ Human(~item.open, period) /\ closed' = closed /\ item'.board = item.board
  BY <1>1, <1>8 DEF CloseOrReopen, ItemType
<1>9. ASSUME NEW n \in Numbers \ closed, CloseMilestone(n)
      PROVE  /\ item' = item /\ Human(FALSE, period)
             /\ closed \subseteq closed' /\ closed' \subseteq Numbers
  BY <1>1, <1>9 DEF CloseMilestone
<1>10. CASE \E areas \in SUBSET Areas : EditText(areas)
  BY <1>1, <1>2, <1>6, <1>10
<1>11. CASE \E lines \in Sizes, areas \in SUBSET Areas : Push(lines, areas)
  BY <1>1, <1>2, <1>7, <1>11
<1>12. CASE CloseOrReopen
  BY <1>1, <1>2, <1>3, <1>8, <1>12
<1>13. CASE \E n \in Numbers \ closed : CloseMilestone(n)
  BY <1>1, <1>2, <1>9, <1>13
<1> QED
  BY <1>4, <1>5, <1>10, <1>11, <1>12, <1>13 DEF People

\* A runner takes up the next event.
LEMMA StartTypes ==
  ASSUME TInv, NEW j \in Jobs, StartJob(j)
  PROVE  /\ item' = item /\ closed' = closed /\ pending' \in Nat /\ period' \in PeriodType
         /\ job' \in [Jobs -> JobType]
         /\ job[j] = Idle
         /\ job' = [job EXCEPT ![j] = [Idle EXCEPT !.pc = IF item.pr THEN "triage-pr"
                                                          ELSE "close-declined"]]
         /\ Shaped(job'[j], item.pr)
         /\ period'.alone <=> AllIdle
         /\ ~period'.overlapped => AllIdle /\ ~period.overlapped
         /\ period'.doubled = period.doubled
<1>1. item.pr \in BOOLEAN /\ job \in [Jobs -> JobType] /\ job[j] = Idle
  BY DEF TInv, ItemType, StartJob, Shaped
<1> DEFINE q == [Idle EXCEPT !.pc = IF item.pr THEN "triage-pr" ELSE "close-declined"]
<1>2. q \in JobType /\ Shaped(q, item.pr)
  BY <1>1, IdleType DEF JobType, Idle, Shaped, Steps, IssueSteps, PullRequestSteps
<1>3. job' = [job EXCEPT ![j] = q]
  BY <1>1 DEF StartJob
<1> HIDE DEF q
<1>4. job' \in [Jobs -> JobType] /\ Shaped(job'[j], item.pr)
  BY <1>1, <1>2, <1>3
<1>5. /\ item' = item /\ closed' = closed /\ pending' \in Nat
  BY DEF StartJob, TInv
<1>6. AllIdle \in BOOLEAN /\ period \in PeriodType
  BY DEF AllIdle, TInv
<1> DEFINE o == period.overlapped \/ ~AllIdle
           a == AllIdle
<1>7. period' = [period EXCEPT !.alone = a, !.failed = FALSE, !.edited = FALSE,
                               !.warned = FALSE, !.unsized = FALSE, !.unplanned = FALSE,
                               !.overlapped = o]
  BY DEF StartJob
<1>8. /\ period' \in PeriodType
      /\ period'.alone <=> AllIdle
      /\ ~period'.overlapped => AllIdle /\ ~period.overlapped
      /\ period'.doubled = period.doubled
  <2>1. a \in BOOLEAN /\ o \in BOOLEAN
    BY <1>6 DEF PeriodType
  <2> HIDE DEF a, o
  <2>2. /\ period' \in PeriodType /\ period'.alone = a /\ period'.overlapped = o
        /\ period'.doubled = period.doubled
    BY <1>6, <1>7, <2>1 DEF PeriodType
  <2> QED
    BY <2>2, Zenon DEF a, o
<1> QED
  BY <1>1, <1>3, <1>4, <1>5, <1>8 DEF q

\* The types hold at the start.
LEMMA InitTypes == Init => TInv
<1> SUFFICES ASSUME Init PROVE TInv
  OBVIOUS
<1>1. item \in ItemType
  <2>1. item.labels \subseteq Labels
    BY DEF Init, Labels, SizeLabels
  <2>2. item.board \in [Boards -> {"absent", "added", "Review"}]
    BY DEF Init
  <2> QED
    BY <2>1, <2>2 DEF Init, ItemType
<1>2. item.pr \in BOOLEAN /\ job \in [Jobs -> JobType] /\ \A j \in Jobs : job[j] = Idle
  BY <1>1, IdleType DEF Init, ItemType
<1>3. period \in PeriodType /\ closed \subseteq Numbers /\ pending \in Nat
  BY DEF Init, PeriodType
<1> QED
  BY <1>1, <1>2, <1>3, IdleType DEF TInv

\* No step breaks the types: people, a start, a step of a job.
LEMMA NextTypes == TInv /\ [Next]_vars => TInv'
<1> SUFFICES ASSUME TInv, [Next]_vars PROVE TInv'
  OBVIOUS
<1>1. CASE People
  <2>1. \A j \in Jobs : Shaped(job'[j], item'.pr)
    BY <1>1, PeopleTypes DEF TInv
  <2> QED
    BY <1>1, <2>1, PeopleTypes DEF TInv
<1>2. ASSUME NEW j \in Jobs, StartJob(j)
      PROVE  TInv'
  <2>1. \A i \in Jobs : Shaped(job'[i], item'.pr)
    BY <1>2, StartTypes DEF TInv
  <2> QED
    BY <1>2, <2>1, StartTypes DEF TInv
<1>3. ASSUME NEW j \in Jobs, NEW q, Moves(j, q)
      PROVE  TInv'
  <2>1. \A i \in Jobs : Shaped(job'[i], item'.pr)
    BY <1>3 DEF TInv, Moves
  <2> QED
    BY <1>3, <2>1 DEF TInv, Moves
<1>4. CASE UNCHANGED vars
  BY <1>4 DEF TInv, vars, ItemType
<1> QED
  BY <1>1, <1>2, <1>3, <1>4, WorkMoves DEF Next

\* The types as an invariant, used by TypeCorrect.
LEMMA TypesAlways == Spec => []TInv
BY InitTypes, NextTypes, PTL DEF Spec

\* Item, milestones and jobs keep their types: a job has only labels in hand,
\* and takes off only triage labels.
THEOREM TypeCorrect == Spec => []TypeOK
<1>1. TInv => TypeOK
  <2> SUFFICES ASSUME TInv PROVE TypeOK
    OBVIOUS
  <2>1. ASSUME NEW j \in Jobs
        PROVE  job[j].pc \in Steps /\ job[j].add \cup job[j].remove \subseteq Labels
    BY DEF TInv, JobType, Labels
  <2> QED
    BY <2>1 DEF TInv, TypeOK, ItemType
<1> QED
  BY <1>1, TypesAlways, PTL

-----------------------------------------------------------------------------
(* An issue: what the plans of its two commands come to.                   *)

\* update-labels works out labels that, with the milestone, tell one story.
LEMMA LabelUpdatesTriage ==
  ASSUME NEW it \in ItemType, declined \notin it.labels
  PROVE  TriagedAs(it, (it.labels \cup LabelUpdates(it).add) \ LabelUpdates(it).remove)
<1> DEFINE labels == it.labels
           others == (labels \cap Triage) \ {accepted}
           u == computeLabelUpdates(labels, it.milestone # NoMilestone)
           e == effectiveLabels(labels, u)
           s == computeSizeLabels(e)
           a == computeAreaLabels(e, it.areas)
           L == (labels \cup (u.add \cup s \cup a)) \ u.remove
<1>1. it.areas \subseteq Areas /\ labels \subseteq Labels /\ declined \notin labels
  BY DEF ItemType
<1>2. LabelUpdates(it).add = u.add \cup s \cup a /\ LabelUpdates(it).remove = u.remove
  <2> HIDE DEF s, a
  <2>1. LabelUpdates(it) = [u EXCEPT !.add = @ \cup s \cup a]
    BY DEF LabelUpdates, s, a
  <2>2. u = [add |-> u.add, remove |-> u.remove]
    BY DEF computeLabelUpdates
  <2> HIDE DEF u
  <2> QED
    BY <2>1, <2>2
<1>3. /\ s \subseteq SizeLabels /\ s = IF accepted \in e /\ e \cap SizeLabels = {}
                                       THEN {"size/needs-sizing"} ELSE {}
      /\ a \subseteq Areas /\ a = IF accepted \in e /\ e \cap Areas = {} THEN it.areas ELSE {}
  BY <1>1 DEF computeSizeLabels, computeAreaLabels, SizeLabels
<1>4. e = (labels \ u.remove) \cup u.add
  BY DEF effectiveLabels
<1>5. /\ SizeLabels \cap Triage = {} /\ Areas \cap Triage = {} /\ Areas \cap SizeLabels = {}
      /\ accepted \in Triage /\ declined \in Triage /\ needsTriage \in Triage
      /\ accepted # declined /\ needsTriage # declined /\ needsTriage # accepted
      /\ "size/needs-sizing" \in SizeLabels
  BY LabelAssumption
  DEF SizeLabels, Triage, accepted, declined, needsTriage, needsInformation
<1>6. CASE it.milestone # NoMilestone
  <2>1. u.add = {accepted} \ labels /\ u.remove = others
    BY <1>6 DEF computeLabelUpdates
  <2> HIDE DEF u, e, s, a, labels
  <2>2. accepted \in e
    BY <1>4, <2>1
  <2>3. L \cap Triage = {accepted}
    BY <1>3, <1>5, <2>1
  <2>4. e \subseteq L
    BY <1>4, <2>1
  <2>5. L \cap SizeLabels # {}
    <3>1. CASE e \cap SizeLabels = {}
      BY <1>3, <1>5, <2>1, <2>2, <3>1
    <3>2. CASE e \cap SizeLabels # {}
      BY <2>4, <3>2
    <3> QED
      BY <3>1, <3>2
  <2>6. it.areas # {} => L \cap Areas # {}
    <3>1. CASE e \cap Areas = {}
      BY <1>1, <1>3, <1>5, <2>1, <2>2, <3>1
    <3>2. CASE e \cap Areas # {}
      BY <2>4, <3>2
    <3> QED
      BY <3>1, <3>2
  <2> HIDE DEF L
  <2>7. TriagedAs(it, L)
    BY <1>5, <1>6, <2>3, <2>5, <2>6 DEF TriagedAs
  <2> QED
    BY <1>2, <2>7 DEF L, labels
<1>7. CASE it.milestone = NoMilestone
  <2>1. /\ u.add = (IF others = {} THEN {needsTriage} ELSE {})
        /\ u.remove = (labels \cap {accepted})
                        \cup (IF others # {needsTriage} THEN others \cap {needsTriage} ELSE {})
    BY <1>7 DEF computeLabelUpdates
  <2> HIDE DEF u, e, s, a, labels
  <2>2. accepted \notin e
    BY <1>4, <1>5, <2>1
  <2>3. s = {} /\ a = {}
    BY <1>3, <2>2
  <2>4. declined \notin L /\ accepted \notin L
    BY <1>1, <1>5, <2>1, <2>3
  <2>5. L \cap Triage # {} /\ (needsTriage \in L => L \cap Triage = {needsTriage})
    <3>1. CASE others = {}
      BY <1>5, <2>1, <2>3, <3>1
    <3>2. CASE others = {needsTriage}
      BY <1>5, <2>1, <2>3, <3>2
    <3>3. CASE others # {} /\ others # {needsTriage}
      BY <1>5, <2>1, <2>3, <3>3
    <3> QED
      BY <3>1, <3>2, <3>3
  <2> HIDE DEF L
  <2>6. TriagedAs(it, L)
    BY <1>5, <1>7, <2>4, <2>5 DEF TriagedAs
  <2> QED
    BY <1>2, <2>6 DEF L, labels
<1> QED
  BY <1>6, <1>7

\* A plan of update-labels, carried on.
LEMMA ContinueLabels ==
  ASSUME NEW it, NEW p \in JobType, p.calls = <<>>,
         TriagedAs(it, (it.labels \cup p.add) \ p.remove)
  PROVE  /\ IssuePhase(it, Continue(p))
         /\ Continue(p).pc = "idle" => TriagedAs(it, it.labels)
<1>1. CASE p.add # {}
  <2>1. Continue(p) = [p EXCEPT !.pc = "addLabels"]
    BY <1>1, ContinueCases
  <2>2. /\ Continue(p).pc = "addLabels" /\ Continue(p).calls = <<>>
        /\ Continue(p).add = p.add /\ Continue(p).remove = p.remove
    BY <2>1 DEF JobType
  <2> QED
    BY <2>2 DEF IssuePhase
<1>2. CASE p.add = {} /\ p.remove # {}
  <2>1. Continue(p) = [p EXCEPT !.pc = "removeLabel"]
    BY <1>2, ContinueCases
  <2>2. /\ Continue(p).pc = "removeLabel" /\ Continue(p).calls = <<>>
        /\ Continue(p).add = p.add /\ Continue(p).remove = p.remove
    BY <2>1 DEF JobType
  <2> QED
    BY <2>2 DEF IssuePhase
<1>3. CASE p.add = {} /\ p.remove = {}
  <2>1. Continue(p) = Idle
    BY <1>3, ContinueCases
  <2>2. (it.labels \cup p.add) \ p.remove = it.labels
    BY <1>3
  <2>3. TriagedAs(it, it.labels)
    BY <2>2
  <2> QED
    BY <2>1, <2>3 DEF IssuePhase, Idle
<1> QED
  BY <1>1, <1>2, <1>3

\* A plan of close-declined, carried on.
LEMMA ContinueDeclines ==
  ASSUME NEW it, NEW p \in JobType, p.calls # <<>>, p.calls # <<"listMilestones">>, p.add = {},
         Declines(it, p), p.pc = "removeMilestone" => it.milestone = NoMilestone,
         p.pc = "closeIssue" => ~it.open
  PROVE  IssuePhase(it, Continue(p)) /\ Continue(p).pc # "idle"
<1>1. CASE p.remove # {}
  <2>1. Continue(p) = [p EXCEPT !.pc = "removeLabel"]
    BY <1>1, ContinueCases
  <2>2. /\ Continue(p).pc = "removeLabel" /\ Continue(p).calls = p.calls
        /\ Continue(p).remove = p.remove
    BY <2>1 DEF JobType
  <2> QED
    BY <2>2 DEF IssuePhase, Declines, RemovesMilestone, ClosesIssue
<1>2. CASE p.remove = {}
  <2>1. Continue(p) = [p EXCEPT !.pc = Head(p.calls), !.calls = Tail(p.calls)]
    BY <1>2, ContinueCases
  <2>2. /\ Continue(p).pc = Head(p.calls) /\ Continue(p).calls = Tail(p.calls)
        /\ Continue(p).remove = {}
    BY <1>2, <2>1 DEF JobType
  <2>3. p.calls \in Queues
    BY DEF JobType
  <2>4. CASE p.calls = <<"update-labels">> \/ p.calls = <<"closeIssue", "update-labels">>
    <3>1. declined \in it.labels => it.milestone = NoMilestone
      BY <2>4 DEF Declines, RemovesMilestone
    <3>2. Continue(p).pc \in {"update-labels", "closeIssue"}
      BY <2>2, <2>4, QueueSteps
    <3>3. declined \in it.labels => ~it.open \/ Continue(p).pc = "closeIssue"
      BY <2>2, <2>4, QueueSteps DEF Declines, ClosesIssue
    <3> QED
      BY <1>2, <2>2, <3>1, <3>2, <3>3 DEF IssuePhase, Declines, ClosesIssue
  <2>5. CASE \/ p.calls = <<"removeMilestone", "update-labels">>
             \/ p.calls = <<"removeMilestone", "closeIssue", "update-labels">>
    <3>1. Continue(p).pc = "removeMilestone"
      BY <2>2, <2>5, QueueSteps
    <3>2. /\ p.calls = <<"removeMilestone", "closeIssue", "update-labels">> =>
               Continue(p).calls = <<"closeIssue", "update-labels">>
          /\ p.calls = <<"removeMilestone", "update-labels">> => ~ClosesIssue(p) \/ ~it.open
      BY <2>2, QueueSteps DEF ClosesIssue
    <3>3. declined \in it.labels => ~it.open \/ ClosesIssue(Continue(p))
      BY <2>5, <3>2 DEF Declines, ClosesIssue
    <3> QED
      BY <1>2, <2>2, <3>1, <3>3 DEF IssuePhase, Declines, RemovesMilestone
  <2> QED
    BY <2>3, <2>4, <2>5 DEF Queues
<1> QED
  BY <1>1, <1>2

\* Where a job is after a step of it.
LEMMA Outcome ==
  ASSUME TInv, NEW j \in Jobs
  PROVE  /\ Abort(j) => /\ job'[j] = Idle
                        /\ job[j].pc \in Boarding => period'.warned /\ period'.failed = period.failed
                        /\ job[j].pc \notin Boarding => period'.failed
         /\ \A q : Step(j, q) => job'[j] = q /\ period' = period
         /\ \A it, q : Call(j, it, q) => item' = it /\ (Abort(j) \/ (job'[j] = q /\ period' = period))
<1>1. j \in DOMAIN job /\ period \in PeriodType
  BY DEF TInv
<1>2. \A q : Step(j, q) => job'[j] = q /\ period' = period
  BY <1>1 DEF Step
<1>3. Abort(j) => job'[j] = Idle
  BY <1>1 DEF Abort
<1>4. ASSUME Abort(j), job[j].pc \in Boarding
      PROVE  period'.warned /\ period'.failed = period.failed
  <2>1. period' = [period EXCEPT !.warned = TRUE]
    BY <1>4 DEF Abort
  <2> QED
    BY <1>1, <2>1 DEF PeriodType
<1>5. ASSUME Abort(j), job[j].pc \notin Boarding
      PROVE  period'.failed
  <2>1. period' = [period EXCEPT !.failed = TRUE]
    BY <1>5 DEF Abort
  <2> QED
    BY <1>1, <2>1 DEF PeriodType
<1>6. \A it, q : Call(j, it, q) => item' = it /\ (Abort(j) \/ Step(j, q))
  BY DEF Call
<1>7. \A it, q : Call(j, it, q) => item' = it /\ (Abort(j) \/ (job'[j] = q /\ period' = period))
  BY <1>2, <1>6, Zenon
<1> QED
  BY <1>2, <1>3, <1>4, <1>5, <1>7, Zenon

\* Every step of an issue's job carries its plan on or cuts it off, and ends
\* the job only when the issue tells one story.
LEMMA IssueStep ==
  ASSUME TInv, NEW j \in Jobs, Work(j), ~StartJob(j), ~item.pr, IssuePhase(item, job[j])
  PROVE  /\ IssuePhase(item', job'[j])
         /\ job'[j].pc = "idle" => period'.failed \/ TriagedAs(item', item'.labels)
<1>1. /\ item \in ItemType /\ job[j] \in JobType /\ Shaped(job[j], FALSE)
      /\ job[j].pc \in IssueSteps /\ job[j].pc \notin Boarding
  <2>1. item \in ItemType /\ job[j] \in JobType /\ Shaped(job[j], item.pr)
    BY DEF TInv
  <2>2. item.pr = FALSE
    BY <2>1 DEF ItemType
  <2>3. Shaped(job[j], FALSE)
    BY <2>1, <2>2
  <2> QED
    BY <2>1, <2>3 DEF Shaped, IssueSteps, Boarding
<1>2. \A it : IssuePhase(it, Idle)
  BY DEF IssuePhase, Idle
<1>3. CASE Abort(j)
  BY <1>1, <1>2, <1>3, Outcome
<1>4. CASE CloseDeclined(j)
  <2> DEFINE r == IF declined \in item.labels THEN computeDeclined(item).remove ELSE {}
             c == (IF declined \in item.labels THEN computeDeclined(item).calls ELSE <<>>)
                    \o <<"update-labels">>
             p == [Idle EXCEPT !.remove = r, !.calls = c]
  <2>1. /\ declined \in item.labels => r = (item.labels \cap Triage) \ {declined}
        /\ declined \notin item.labels => r = {}
    BY DEF computeDeclined
  <2>2. /\ c \in Queues \ {<<>>, <<"listMilestones">>}
        /\ declined \in item.labels /\ item.milestone # NoMilestone =>
             c \in {<<"removeMilestone", "update-labels">>,
                    <<"removeMilestone", "closeIssue", "update-labels">>}
        /\ declined \in item.labels /\ item.open =>
             c \in {<<"closeIssue", "update-labels">>,
                    <<"removeMilestone", "closeIssue", "update-labels">>}
    <3>1. CASE declined \in item.labels
      <4> DEFINE d == computeDeclined(item).calls \o <<"update-labels">>
      <4>1. /\ item.milestone # NoMilestone =>
                 d \in {<<"removeMilestone", "update-labels">>,
                        <<"removeMilestone", "closeIssue", "update-labels">>}
            /\ item.milestone = NoMilestone =>
                 d \in {<<"update-labels">>, <<"closeIssue", "update-labels">>}
            /\ item.open =>
                 d \in {<<"closeIssue", "update-labels">>,
                        <<"removeMilestone", "closeIssue", "update-labels">>}
        BY <1>1, DeclinedCalls, Zenon
      <4>2. c = d
        BY <3>1, Zenon
      <4> HIDE DEF c, d
      <4> QED
        BY <4>1, <4>2 DEF Queues
    <3>2. CASE declined \notin item.labels
      BY <3>2, CallConcat DEF Queues
    <3> QED
      BY <3>1, <3>2
  <2>3. Step(j, Continue(p)) /\ item' = item
    BY <1>4 DEF CloseDeclined
  <2> HIDE DEF r, c
  <2>4. p \in JobType /\ p.add = {} /\ p.remove = r /\ p.calls = c /\ p.pc = "idle"
    BY <2>1, <2>2, IdleType DEF JobType, Idle
  <2> HIDE DEF p
  <2>5. Declines(item, p)
    BY <2>1, <2>2, <2>4 DEF Declines, RemovesMilestone, ClosesIssue
  <2>6. IssuePhase(item, Continue(p)) /\ Continue(p).pc # "idle"
    BY <2>2, <2>4, <2>5, ContinueDeclines
  <2> QED
    BY <2>3, <2>6, Outcome
<1>5. CASE UpdateLabels(j)
  <2> DEFINE a == LabelUpdates(item).add
             r == LabelUpdates(item).remove
             p == [Idle EXCEPT !.add = a, !.remove = r]
  <2>1. CASE declined \in item.labels
    <3>1. Step(j, Idle) /\ item' = item
      BY <1>5, <2>1 DEF UpdateLabels
    <3>2. job[j].pc = "update-labels" /\ job[j].calls = <<>> /\ job[j].remove = {}
      BY <1>1, <1>5 DEF UpdateLabels, Shaped
    <3>3. /\ item.labels \cap Triage \subseteq {declined} /\ item.milestone = NoMilestone
          /\ ~item.open
      BY <2>1, <3>2 DEF IssuePhase, Declines, RemovesMilestone, ClosesIssue
    <3>4. TriagedAs(item, item.labels)
      BY <2>1, <3>3 DEF TriagedAs, Triage
    <3> QED
      BY <1>2, <3>1, <3>4, Outcome
  <2>2. CASE declined \notin item.labels
    <3>1. Step(j, Continue(p)) /\ item' = item
      BY <1>5, <2>2 DEF UpdateLabels
    <3>2. a \subseteq Labels /\ r \subseteq Triage
      BY <1>1, RulesType
    <3>3. TriagedAs(item, (item.labels \cup a) \ r)
      BY <1>1, <2>2, LabelUpdatesTriage
    <3> HIDE DEF a, r
    <3>4. p \in JobType /\ p.add = a /\ p.remove = r /\ p.calls = <<>>
      BY <3>2, IdleType DEF JobType, Idle
    <3> HIDE DEF p
    <3>5. /\ IssuePhase(item, Continue(p))
          /\ Continue(p).pc = "idle" => TriagedAs(item, item.labels)
      BY <3>3, <3>4, ContinueLabels
    <3> QED
      BY <3>1, <3>5, Outcome
  <2> QED
    BY <2>1, <2>2
<1>6. CASE AddLabels(j)
  <2> DEFINE p == [job[j] EXCEPT !.add = {}]
             it == [item EXCEPT !.labels = @ \cup job[j].add]
  <2>1. p \in JobType /\ p.add = {} /\ p.calls = <<>> /\ p.remove = job[j].remove
    BY <1>1, <1>6 DEF JobType, Shaped, AddLabels
  <2>2. TriagedAs(item, (item.labels \cup job[j].add) \ job[j].remove)
    BY <1>1, <1>6 DEF IssuePhase, Shaped, AddLabels
  <2>3. /\ it.labels = item.labels \cup job[j].add /\ it.milestone = item.milestone
        /\ it.areas = item.areas /\ it.open = item.open
    BY <1>1 DEF ItemType
  <2>4. Call(j, it, Continue(p))
    BY <1>6 DEF AddLabels
  <2> HIDE DEF p, it
  <2>5. (it.labels \cup p.add) \ p.remove = (item.labels \cup job[j].add) \ job[j].remove
    BY <2>1, <2>3
  <2>6. TriagedAs(it, (it.labels \cup p.add) \ p.remove)
    BY <2>2, <2>3, <2>5 DEF TriagedAs
  <2>7. IssuePhase(it, Continue(p)) /\ (Continue(p).pc = "idle" => TriagedAs(it, it.labels))
    BY <2>1, <2>6, ContinueLabels
  <2> QED
    BY <1>3, <2>4, <2>7, Outcome
<1>7. ASSUME NEW l \in Triage, RemoveLabel(j, l)
      PROVE  /\ IssuePhase(item', job'[j])
             /\ job'[j].pc = "idle" => period'.failed \/ TriagedAs(item', item'.labels)
  <2> DEFINE p == [job[j] EXCEPT !.remove = @ \ {l}]
             it == [item EXCEPT !.labels = @ \ {l}]
  <2>1. /\ p \in JobType /\ p.add = {} /\ job[j].add = {} /\ p.calls = job[j].calls
        /\ p.remove = job[j].remove \ {l} /\ p.pc = "removeLabel"
        /\ p.calls # <<"listMilestones">>
    BY <1>1, <1>7 DEF JobType, Shaped, RemoveLabel
  <2>2. /\ it.labels = item.labels \ {l} /\ it.milestone = item.milestone
        /\ it.areas = item.areas /\ it.open = item.open
    BY <1>1 DEF ItemType
  <2>3. Call(j, it, Continue(p)) /\ l \in job[j].remove /\ job[j].pc = "removeLabel"
    BY <1>7 DEF RemoveLabel
  <2> HIDE DEF p, it
  <2>4. CASE job[j].calls = <<>>
    <3>1. TriagedAs(item, (item.labels \cup job[j].add) \ job[j].remove)
      BY <2>3, <2>4 DEF IssuePhase
    <3>2. (it.labels \cup p.add) \ p.remove = (item.labels \cup job[j].add) \ job[j].remove
      BY <2>1, <2>2, <2>3
    <3>3. TriagedAs(it, (it.labels \cup p.add) \ p.remove)
      BY <2>2, <3>1, <3>2 DEF TriagedAs
    <3>4. IssuePhase(it, Continue(p)) /\ (Continue(p).pc = "idle" => TriagedAs(it, it.labels))
      BY <2>1, <2>4, <3>3, ContinueLabels
    <3> QED
      BY <1>3, <2>3, <3>4, Outcome
  <2>5. CASE job[j].calls # <<>>
    <3>1. Declines(item, job[j])
      BY <2>5 DEF IssuePhase
    <3>2. Declines(it, p)
      BY <2>1, <2>2, <2>3, <3>1 DEF Declines, RemovesMilestone, ClosesIssue
    <3>3. IssuePhase(it, Continue(p)) /\ Continue(p).pc # "idle"
      BY <2>1, <2>5, <3>2, ContinueDeclines
    <3> QED
      BY <1>3, <2>3, <3>3, Outcome
  <2> QED
    BY <2>4, <2>5
<1>8. CASE RemoveMilestone(j)
  <2> DEFINE it == [item EXCEPT !.milestone = NoMilestone]
  <2>1. /\ job[j].calls # <<>> /\ job[j].calls # <<"listMilestones">> /\ job[j].add = {}
    BY <1>1, <1>8 DEF RemoveMilestone, Shaped
  <2>2. it.labels = item.labels /\ it.milestone = NoMilestone /\ it.open = item.open
    BY <1>1 DEF ItemType
  <2>3. Call(j, it, Continue(job[j]))
    BY <1>8 DEF RemoveMilestone
  <2> HIDE DEF it
  <2>4. Declines(it, job[j])
    BY <2>1, <2>2 DEF IssuePhase, Declines
  <2>5. IssuePhase(it, Continue(job[j])) /\ Continue(job[j]).pc # "idle"
    BY <1>1, <1>8, <2>1, <2>2, <2>4, ContinueDeclines DEF RemoveMilestone
  <2> QED
    BY <1>3, <2>3, <2>5, Outcome
<1>9. CASE CloseIssue(j)
  <2> DEFINE it == [item EXCEPT !.open = FALSE]
  <2>1. /\ job[j].calls # <<>> /\ job[j].calls # <<"listMilestones">> /\ job[j].add = {}
        /\ job[j].pc # "removeMilestone"
    BY <1>1, <1>9 DEF CloseIssue, Shaped
  <2>2. it.labels = item.labels /\ it.milestone = item.milestone /\ ~it.open
    BY <1>1 DEF ItemType
  <2>3. Call(j, it, Continue(job[j]))
    BY <1>9 DEF CloseIssue
  <2> HIDE DEF it
  <2>4. Declines(it, job[j])
    BY <2>1, <2>2 DEF IssuePhase, Declines
  <2>5. IssuePhase(it, Continue(job[j])) /\ Continue(job[j]).pc # "idle"
    BY <1>1, <2>1, <2>2, <2>4, ContinueDeclines
  <2> QED
    BY <1>3, <2>3, <2>5, Outcome
<1>10. CASE CallFails(j)
  BY <1>3, <1>10 DEF CallFails
<1>11. \/ CallFails(j) \/ CloseDeclined(j) \/ UpdateLabels(j) \/ AddLabels(j)
       \/ (\E l \in Triage : RemoveLabel(j, l)) \/ RemoveMilestone(j) \/ CloseIssue(j)
  BY <1>1 DEF Work, IssueSteps, GetPullRequest, GetPullRequestInfo, GetPullRequestFiles,
              ListOpenMilestones, SetMilestone, ResolveOrganization, ResolveOrganizationFails,
              ResolveUser, AddItem, LookupStatusOption, SetStatus
<1> QED
  BY <1>4, <1>5, <1>6, <1>7, <1>8, <1>9, <1>10, <1>11

-----------------------------------------------------------------------------
(* A pull request: what the steps of its command come to.                  *)

\* A job reads the item, its size and its files,
Reads(j, q) ==
  /\ item' = item
  /\ \/ /\ job[j].pc = "triage-pr" /\ q.pc = "info"
        /\ q.labels = item.labels /\ q.milestone = item.milestone
     \/ /\ job[j].pc = "info" /\ q.pc = "files"
        /\ q.labels = job[j].labels /\ q.milestone = job[j].milestone
        /\ q.add = computePRSizeLabel(job[j].labels, item.lines)
     \/ /\ job[j].pc = "files" /\ q.pc \in {"addLabels", "listMilestones"}
        /\ q.milestone = job[j].milestone
        /\ \E a \in SUBSET Areas : q.add = job[j].add \cup a

\* adds labels and sets a milestone,
Writes(j, q) ==
  \/ /\ job[j].pc = "addLabels" /\ q.pc \in {"listMilestones", "idle"}
     /\ item'.labels = item.labels \cup job[j].add /\ item'.milestone = item.milestone
     /\ q.milestone = job[j].milestone \/ q.pc = "idle"
  \/ /\ job[j].pc = "listMilestones" /\ q.pc \in {"setMilestone", "organization"}
     /\ item' = item
     /\ \/ q.pc = "setMilestone" /\ q.milestone \in Numbers
        \/ job[j].milestone # NoMilestone \/ Candidates = {}
  \/ /\ job[j].pc = "setMilestone" /\ q.pc \in {"organization", "idle"}
     /\ item'.labels = item.labels /\ item'.milestone = job[j].milestone

\* and looks for a board to put it on.
FindsBoard(j, q) ==
  /\ job[j].pc \in Boarding /\ q.pc \in Boarding \cup {"idle"}
  /\ item'.labels = item.labels /\ item'.milestone = item.milestone
  /\ q.pc = "idle" => Boarded(item', period'.warned)

\* Every step of a pull request's job is one of these, or the call fails.
LEMMA PullRequestCases ==
  ASSUME TInv, NEW j \in Jobs, Work(j), ~StartJob(j), item.pr
  PROVE  /\ job'[j].pc = "idle" => Abort(j) \/ job[j].pc \in Boarding
         /\ \/ Reads(j, job'[j]) \/ Writes(j, job'[j]) \/ FindsBoard(j, job'[j])
            \/ item' = item /\ Abort(j)
<1>1. /\ item \in ItemType /\ job[j] \in JobType /\ Shaped(job[j], TRUE)
      /\ job[j].pc \in PullRequestSteps /\ period \in PeriodType /\ j \in DOMAIN job
  <2>1. /\ item \in ItemType /\ job[j] \in JobType /\ Shaped(job[j], item.pr)
        /\ period \in PeriodType /\ j \in DOMAIN job
    BY DEF TInv
  <2>2. item.pr = TRUE
    BY <2>1 DEF ItemType
  <2>3. Shaped(job[j], TRUE)
    BY <2>1, <2>2
  <2> QED
    BY <2>1, <2>3 DEF Shaped
<1>2. CASE CallFails(j)
  BY <1>2 DEF CallFails
<1>3. CASE GetPullRequest(j)
  <2> DEFINE q == [Idle EXCEPT !.pc = "info", !.labels = item.labels, !.milestone = item.milestone]
  <2>1. job'[j] = q /\ item' = item /\ job[j].pc = "triage-pr"
    BY <1>3, Outcome DEF GetPullRequest
  <2>2. q.pc = "info" /\ q.labels = item.labels /\ q.milestone = item.milestone
    BY DEF Idle
  <2> QED
    BY <2>1, <2>2 DEF Reads
<1>4. CASE GetPullRequestInfo(j)
  <2> DEFINE a == computePRSizeLabel(job[j].labels, item.lines)
             q == [job[j] EXCEPT !.pc = "files", !.add = a]
  <2>1. job'[j] = q /\ item' = item /\ job[j].pc = "info"
    BY <1>4, Outcome DEF GetPullRequestInfo
  <2>2. /\ q.pc = "files" /\ q.labels = job[j].labels /\ q.milestone = job[j].milestone
        /\ q.add = a
    BY <1>1 DEF JobType
  <2> HIDE DEF q
  <2> QED
    BY <2>1, <2>2 DEF Reads
<1>5. CASE GetPullRequestFiles(j)
  <2> DEFINE a == computePRAreaLabels(job[j].labels, item.areas)
             p == [job[j] EXCEPT !.add = @ \cup a, !.calls = <<"listMilestones">>, !.labels = {}]
  <2>1. job'[j] = Continue(p) /\ item' = item /\ job[j].pc = "files"
    BY <1>5, Outcome DEF GetPullRequestFiles
  <2>2. a \in SUBSET Areas
    BY <1>1, RulesType
  <2> HIDE DEF a
  <2>3. /\ p \in JobType /\ p.add = job[j].add \cup a /\ p.remove = {}
        /\ p.calls = <<"listMilestones">> /\ p.milestone = job[j].milestone
    BY <1>1, <2>1, <2>2 DEF JobType, Queues, Labels, Shaped
  <2> HIDE DEF p
  <2>4. /\ Continue(p).pc \in {"addLabels", "listMilestones"}
        /\ Continue(p).add = p.add /\ Continue(p).milestone = p.milestone
    <3>1. CASE p.add # {}
      BY <2>3, <3>1, ContinueCases DEF JobType
    <3>2. CASE p.add = {}
      <4>1. Continue(p) = [p EXCEPT !.pc = Head(p.calls), !.calls = Tail(p.calls)]
        <5>1. p.calls # <<>>
          BY <2>3
        <5> QED
          BY <2>3, <3>2, <5>1, ContinueCases, Zenon
      <4>2. Head(p.calls) = "listMilestones"
        BY <2>3, QueueSteps
      <4> QED
        BY <2>3, <4>1, <4>2, HeadUpdate
    <3> QED
      BY <3>1, <3>2
  <2> QED
    BY <2>1, <2>2, <2>3, <2>4 DEF Reads
<1>6. CASE AddLabels(j)
  <2> DEFINE p == [job[j] EXCEPT !.add = {}]
             it == [item EXCEPT !.labels = @ \cup job[j].add]
  <2>1. /\ p \in JobType /\ p.add = {} /\ p.remove = {} /\ p.calls = <<"listMilestones">>
        /\ p.milestone = job[j].milestone /\ job[j].pc = "addLabels"
    BY <1>1, <1>6 DEF JobType, Shaped, AddLabels
  <2>2. it.labels = item.labels \cup job[j].add /\ it.milestone = item.milestone
    BY <1>1 DEF ItemType
  <2>3. Call(j, it, Continue(p))
    BY <1>6 DEF AddLabels
  <2> HIDE DEF p, it
  <2>4. Continue(p).pc = "listMilestones" /\ Continue(p).milestone = job[j].milestone
    <3>1. Continue(p) = [p EXCEPT !.pc = Head(p.calls), !.calls = Tail(p.calls)]
      <4>1. p.calls # <<>>
        BY <2>1
      <4> QED
        BY <2>1, <4>1, ContinueCases, Zenon
    <3>2. Head(p.calls) = "listMilestones"
      BY <2>1, QueueSteps
    <3> QED
      BY <2>1, <3>1, <3>2, HeadUpdate
  <2>5. item' = it /\ (Abort(j) \/ job'[j] = Continue(p))
    BY <2>3, Outcome
  <2>6. Abort(j) => job'[j].pc = "idle"
    BY Outcome DEF Idle
  <2> QED
    BY <2>1, <2>2, <2>4, <2>5, <2>6 DEF Writes
<1>7. CASE ListOpenMilestones(j)
  <2> DEFINE n == findLowestMilestone
             q == [Idle EXCEPT !.pc = "setMilestone", !.milestone = n]
             r == [Idle EXCEPT !.pc = "organization"]
  <2>1. job[j].pc = "listMilestones" /\ item' = item
    BY <1>7 DEF ListOpenMilestones
  <2>2. \/ Candidates # {} /\ job'[j] = q
        \/ (job[j].milestone # NoMilestone \/ Candidates = {}) /\ job'[j] = r
    BY <1>7, Outcome DEF ListOpenMilestones
  <2>3. Candidates # {} => n \in Numbers
    BY LowestIsListed
  <2> HIDE DEF n
  <2>4. q.pc = "setMilestone" /\ q.milestone = n /\ r.pc = "organization"
    BY DEF Idle
  <2> HIDE DEF q, r
  <2> QED
    BY <2>1, <2>2, <2>3, <2>4 DEF Writes
<1>8. CASE SetMilestone(j)
  <2> DEFINE it == [item EXCEPT !.milestone = job[j].milestone]
             r == [Idle EXCEPT !.pc = "organization"]
  <2>1. job[j].pc = "setMilestone" /\ Call(j, it, r)
    BY <1>8 DEF SetMilestone
  <2>2. it.labels = item.labels /\ it.milestone = job[j].milestone
    BY <1>1 DEF ItemType
  <2>3. r.pc = "organization"
    BY DEF Idle
  <2> HIDE DEF it, r
  <2>4. item' = it /\ (Abort(j) \/ job'[j] = r)
    BY <2>1, Outcome
  <2>5. Abort(j) => job'[j].pc = "idle"
    BY Outcome DEF Idle
  <2> QED
    BY <2>1, <2>2, <2>3, <2>4, <2>5 DEF Writes
<1>9. CASE ResolveOrganization(j)
  <2> DEFINE b == findOldestOpenProject(OrgProjects)
             q == [Idle EXCEPT !.pc = IF b = NoProject THEN "user" ELSE "addItem", !.project = b]
  <2>1. job[j].pc = "organization" /\ job'[j] = q /\ item' = item
    BY <1>9, Outcome DEF ResolveOrganization
  <2> HIDE DEF b
  <2>2. q.pc \in {"user", "addItem"}
    BY DEF Idle
  <2> HIDE DEF q
  <2> QED
    BY <2>1, <2>2 DEF FindsBoard, Boarding
<1>10. CASE ResolveOrganizationFails(j)
  <2>1. job[j].pc = "organization" /\ item' = item
    BY <1>10 DEF ResolveOrganizationFails
  <2>2. job'[j].pc = "user"
    BY <1>1, <1>10 DEF ResolveOrganizationFails, JobType
  <2> QED
    BY <2>1, <2>2 DEF FindsBoard, Boarding
<1>11. CASE ResolveUser(j)
  <2> DEFINE b == findOldestOpenProject(UserProjects)
             q == [job[j] EXCEPT !.pc = "addItem", !.project = b]
  <2>1. /\ job[j].pc = "user" /\ item' = item
        /\ job'[j] = IF b = NoProject THEN Idle ELSE q
        /\ period' = [period EXCEPT !.warned = @ \/ b = NoProject]
    BY <1>1, <1>11 DEF ResolveUser
  <2> HIDE DEF b
  <2>2. b = NoProject => period'.warned
    BY <1>1, <2>1 DEF PeriodType
  <2>3. q.pc = "addItem" /\ Idle.pc = "idle"
    BY <1>1 DEF JobType, Idle
  <2> HIDE DEF q
  <2> QED
    BY <2>1, <2>2, <2>3 DEF FindsBoard, Boarding, Boarded
<1>12. CASE AddItem(j)
  <2> DEFINE it == [item EXCEPT !.board[job[j].project] = IF @ = "absent" THEN "added" ELSE @]
             q == [job[j] EXCEPT !.pc = "lookupStatus"]
  <2>1. job[j].pc = "addItem" /\ Call(j, it, q)
    BY <1>12 DEF AddItem
  <2>2. it.labels = item.labels /\ it.milestone = item.milestone
    BY <1>1 DEF ItemType
  <2>3. q.pc = "lookupStatus"
    BY <1>1 DEF JobType
  <2> HIDE DEF it, q
  <2>4. item' = it /\ (Abort(j) \/ job'[j] = q)
    BY <2>1, Outcome
  <2>5. Abort(j) => job'[j].pc = "idle" /\ period'.warned
    BY <2>1, Outcome DEF Idle, Boarding
  <2> QED
    BY <2>1, <2>2, <2>3, <2>4, <2>5 DEF FindsBoard, Boarding, Boarded
<1>13. CASE LookupStatusOption(j)
  <2>1. job[j].pc = "lookupStatus" /\ item' = item /\ job'[j] = [job[j] EXCEPT !.pc = "setStatus"]
    BY <1>13, Outcome DEF LookupStatusOption
  <2>2. job'[j].pc = "setStatus"
    BY <1>1, <2>1 DEF JobType
  <2> QED
    BY <2>1, <2>2 DEF FindsBoard, Boarding
<1>14. CASE SetStatus(j)
  <2> DEFINE b == job[j].project
             it == [item EXCEPT !.board[b] = "Review"]
  <2>1. job[j].pc = "setStatus" /\ Call(j, it, Idle)
    BY <1>14 DEF SetStatus
  <2>2. b \in Boards
    BY <1>1, <2>1 DEF Shaped
  <2> HIDE DEF b
  <2>3. /\ it.labels = item.labels /\ it.milestone = item.milestone /\ it.board[b] = "Review"
    BY <1>1, <2>2 DEF ItemType
  <2> HIDE DEF it
  <2>4. item' = it /\ job'[j].pc = "idle"
    BY <2>1, Outcome DEF Idle
  <2> QED
    BY <2>1, <2>2, <2>3, <2>4 DEF FindsBoard, Boarding, Boarded
<1>15. \/ CallFails(j) \/ AddLabels(j)
       \/ GetPullRequest(j) \/ GetPullRequestInfo(j) \/ GetPullRequestFiles(j)
       \/ ListOpenMilestones(j) \/ SetMilestone(j)
       \/ ResolveOrganization(j) \/ ResolveOrganizationFails(j) \/ ResolveUser(j)
       \/ AddItem(j) \/ LookupStatusOption(j) \/ SetStatus(j)
  BY <1>1 DEF Work, PullRequestSteps, Boarding, CloseDeclined, UpdateLabels, RemoveLabel,
              RemoveMilestone, CloseIssue
<1> QED
  BY <1>2, <1>3, <1>4, <1>5, <1>6, <1>7, <1>8, <1>9, <1>10, <1>11, <1>12, <1>13, <1>14, <1>15

\* A size label is added exactly where there was none.
LEMMA SizeLabelChosen ==
  ASSUME NEW labels, NEW lines
  PROVE  /\ Sized(labels) => computePRSizeLabel(labels, lines) = {}
         /\ ~Sized(labels) => Sized(computePRSizeLabel(labels, lines))
         /\ OneSize(computePRSizeLabel(labels, lines))
<1>1. CASE Sized(labels)
  BY <1>1 DEF computePRSizeLabel, Sized, OneSize
<1>2. CASE ~Sized(labels)
  <2>1. PICK s \in SizeLabels : computePRSizeLabel(labels, lines) = {s}
    BY <1>2 DEF computePRSizeLabel, SizeLabels, Sized
  <2> QED
    BY <1>2, <2>1 DEF Sized, OneSize
<1> QED
  BY <1>1, <1>2

\* The label that is missing is added, then a milestone is set, then a board
\* is found, and the job ends only when that is done or could not be.
LEMMA PullRequestStep ==
  ASSUME TInv, TInv', NEW j \in Jobs, Work(j), ~StartJob(j), item.pr
  PROVE  /\ SizedPhase(item, job[j]) =>
              /\ SizedPhase(item', job'[j])
              /\ job'[j].pc = "idle" => period'.failed \/ Sized(item'.labels)
         /\ MilestonePhase(item, job[j]) =>
              /\ MilestonePhase(item', job'[j])
              /\ job'[j].pc = "idle" => period'.failed \/ Milestoned(item')
         /\ job'[j].pc = "idle" => period'.failed \/ Boarded(item', period'.warned)
<1>1. /\ item \in ItemType /\ Shaped(job[j], item.pr) /\ Shaped(job'[j], item'.pr)
      /\ NoMilestone \notin Numbers
  BY TriageAssumption DEF TInv
<1>2. Abort(j) => /\ job'[j].pc = "idle"
                  /\ job[j].pc \in Boarding => period'.warned
                  /\ job[j].pc \notin Boarding => period'.failed
  BY Outcome DEF Idle
<1>3. job'[j].pc = "idle" => SizedPhase(item', job'[j]) /\ MilestonePhase(item', job'[j])
  BY DEF SizedPhase, MilestonePhase, Boarding
<1>4. CASE Reads(j, job'[j])
  <2>1. CASE job[j].pc = "triage-pr"
    BY <1>4, <2>1 DEF Reads, SizedPhase, MilestonePhase, Boarding
  <2>2. CASE job[j].pc = "info"
    <3>1. /\ item' = item /\ job'[j].pc = "files" /\ job'[j].milestone = job[j].milestone
          /\ job'[j].add = computePRSizeLabel(job[j].labels, item.lines)
      BY <1>4, <2>2 DEF Reads
    <3>2. ~Sized(job[j].labels) => Sized(job'[j].add)
      BY <3>1, SizeLabelChosen
    <3>3. SizedPhase(item, job[j]) => SizedPhase(item', job'[j])
      BY <2>2, <3>1, <3>2 DEF SizedPhase, Sized, Boarding
    <3> QED
      BY <2>2, <3>1, <3>3 DEF MilestonePhase, Boarding
  <2>3. CASE job[j].pc = "files"
    <3>1. /\ job'[j].pc \in {"addLabels", "listMilestones"} /\ item' = item
          /\ job'[j].milestone = job[j].milestone /\ job[j].add \subseteq job'[j].add
      BY <1>4, <2>3 DEF Reads
    <3>2. job'[j].pc = "listMilestones" => job'[j].add = {}
      BY <1>1 DEF Shaped
    <3>3. ASSUME SizedPhase(item, job[j])
          PROVE  SizedPhase(item', job'[j])
      <4>1. Sized(item.labels \cup job'[j].add)
        BY <2>3, <3>1, <3>3 DEF SizedPhase, Sized
      <4>2. job'[j].pc = "listMilestones" => Sized(item.labels)
        BY <3>2, <4>1 DEF Sized
      <4> QED
        BY <3>1, <4>1, <4>2 DEF SizedPhase, Boarding
    <3> QED
      BY <2>3, <3>1, <3>3 DEF MilestonePhase, Boarding
  <2> QED
    BY <1>4, <2>1, <2>2, <2>3 DEF Reads
<1>5. CASE Writes(j, job'[j])
  <2>1. CASE job[j].pc = "addLabels"
    BY <1>2, <1>5, <2>1, PullRequestCases DEF Writes, SizedPhase, MilestonePhase, Boarding
  <2>2. CASE job[j].pc = "listMilestones"
    BY <1>5, <2>2 DEF Writes, SizedPhase, MilestonePhase, Boarding, Milestoned
  <2>3. CASE job[j].pc = "setMilestone"
    <3>1. item'.milestone \in Numbers
      BY <1>1, <1>5, <2>3 DEF Writes, Shaped
    <3> QED
      BY <1>1, <1>2, <1>5, <2>3, <3>1, PullRequestCases
      DEF Writes, SizedPhase, MilestonePhase, Boarding, Milestoned
  <2> QED
    BY <1>5, <2>1, <2>2, <2>3 DEF Writes
<1>6. CASE FindsBoard(j, job'[j])
  BY <1>6 DEF FindsBoard, SizedPhase, MilestonePhase, Boarding, Milestoned
<1>7. CASE item' = item /\ Abort(j)
  <2>1. CASE job[j].pc \in Boarding
    <3>1. /\ SizedPhase(item, job[j]) => Sized(item.labels)
          /\ MilestonePhase(item, job[j]) => Milestoned(item)
      BY <2>1 DEF SizedPhase, MilestonePhase
    <3>2. Milestoned(item) => Milestoned(item')
      BY <1>7
    <3> QED
      BY <1>2, <1>3, <1>7, <2>1, <3>1, <3>2 DEF Boarded
  <2>2. CASE job[j].pc \notin Boarding
    BY <1>2, <1>3, <1>7, <2>2
  <2> QED
    BY <2>1, <2>2
<1> QED
  BY <1>4, <1>5, <1>6, <1>7, PullRequestCases

\* A job that is on its own adds no second size.
LEMMA SizeStep ==
  ASSUME TInv, NEW j \in Jobs, Work(j), ~StartJob(j), item.pr,
         OneSize(item.labels), SizePhase(item, job[j])
  PROVE  OneSize(item'.labels) /\ SizePhase(item', job'[j])
<1>1. Abort(j) => job'[j].pc = "idle"
  BY Outcome DEF Idle
<1>2. job'[j].pc = "idle" => SizePhase(item', job'[j])
  BY DEF SizePhase
<1>3. CASE Reads(j, job'[j])
  <2>1. CASE job[j].pc = "triage-pr"
    BY <1>3, <2>1 DEF Reads, SizePhase
  <2>2. CASE job[j].pc = "info"
    <3>1. /\ item' = item /\ job'[j].pc = "files"
          /\ job'[j].add = computePRSizeLabel(job[j].labels, item.lines)
      BY <1>3, <2>2 DEF Reads
    <3>2. /\ item.labels \cap SizeLabels \subseteq job[j].labels
          /\ OneSize(job'[j].add)
          /\ Sized(job[j].labels) => job'[j].add = {}
      BY <2>2, <3>1, SizeLabelChosen DEF SizePhase
    <3>3. OneSize(item.labels \cup job'[j].add)
      BY <3>2 DEF OneSize, Sized
    <3> QED
      BY <3>1, <3>3 DEF SizePhase
  <2>3. CASE job[j].pc = "files"
    <3>1. PICK a \in SUBSET Areas : job'[j].add = job[j].add \cup a
      BY <1>3, <2>3 DEF Reads
    <3>2. (item.labels \cup job'[j].add) \cap SizeLabels = (item.labels \cup job[j].add) \cap SizeLabels
      BY <3>1, LabelAssumption
    <3>3. OneSize(item.labels \cup job'[j].add)
      BY <2>3, <3>2 DEF SizePhase, OneSize
    <3> QED
      BY <1>3, <2>3, <3>3 DEF Reads, SizePhase
  <2> QED
    BY <1>3, <2>1, <2>2, <2>3 DEF Reads
<1>4. CASE Writes(j, job'[j])
  BY <1>4 DEF Writes, SizePhase
<1>5. CASE FindsBoard(j, job'[j])
  BY <1>5 DEF FindsBoard, SizePhase, Boarding
<1>6. CASE item' = item /\ Abort(j)
  BY <1>1, <1>2, <1>6
<1> QED
  BY <1>3, <1>4, <1>5, <1>6, PullRequestCases

-----------------------------------------------------------------------------
(* The invariant.                                                          *)

\* A job that does nothing, or has only been started, has achieved nothing yet.
LEMMA NothingYet ==
  ASSUME NEW it, NEW q, q.pc \in {"idle", "close-declined", "triage-pr"}, q.calls = <<>>
  PROVE  IssuePhase(it, q) /\ SizedPhase(it, q) /\ MilestonePhase(it, q) /\ SizePhase(it, q)
BY DEF IssuePhase, SizedPhase, MilestonePhase, SizePhase, Boarding

\* A job that is on its own finds the others idle.
LEMMA OthersIdle ==
  ASSUME TInv, Solo, NEW j \in Jobs, job[j].pc # "idle", period.alone \/ ~period.overlapped,
         NEW i \in Jobs, i # j
  PROVE  job[i].pc = "idle" /\ job[i].calls = <<>>
BY DEF TInv, Solo, Shaped, Idle

\* A new item has one event pending and no job.
LEMMA InitInvariant == Init => IInv
<1> SUFFICES ASSUME Init PROVE IInv
  OBVIOUS
<1>1. TInv
  BY InitTypes
<1>2. \A j \in Jobs : job[j].pc = "idle" /\ job[j].calls = <<>>
  BY DEF Init, Idle
<1>3. Solo /\ PhaseInv
  BY <1>2, NothingYet DEF Solo, PhaseInv
<1>4. EndInv
  BY DEF Init, EndInv, AtRest
<1>5. ASSUME item.pr
      PROVE  OneSize(item.labels)
  <2>1. item.labels \in (SUBSET Triage) \cup {{}, {"size/M"}} /\ item.labels \cap Triage = {}
    BY <1>5 DEF Init
  <2>2. item.labels = {} \/ item.labels = {"size/M"}
    BY <2>1
  <2> QED
    BY <2>2 DEF OneSize
<1>6. SizeInv
  BY <1>2, <1>5, NothingYet DEF SizeInv
<1> QED
  BY <1>1, <1>3, <1>4, <1>6 DEF IInv

\* A runner takes up the next event.
LEMMA StartInvariant ==
  ASSUME IInv, TInv', NEW j \in Jobs, StartJob(j)
  PROVE  Solo' /\ PhaseInv' /\ EndInv' /\ SizeInv'
<1>1. TInv /\ SizeInv
  BY DEF IInv
<1> DEFINE q == [Idle EXCEPT !.pc = IF item.pr THEN "triage-pr" ELSE "close-declined"]
<1>2. q.pc \in {"triage-pr", "close-declined"} /\ q.calls = <<>>
  BY DEF Idle
<1>3. /\ item' = item /\ job' = [job EXCEPT ![j] = q] /\ job \in [Jobs -> JobType]
      /\ period'.alone <=> AllIdle
      /\ ~period'.overlapped => AllIdle /\ ~period.overlapped
      /\ period'.doubled = period.doubled
  BY <1>1, StartTypes DEF TInv
<1> HIDE DEF q
<1>4. /\ job'[j] = q
      /\ \A i \in Jobs : i # j => job'[i] = job[i]
  BY <1>3
<1>5. ASSUME AllIdle, NEW i \in Jobs
      PROVE  /\ i # j => job'[i].pc = "idle"
             /\ job'[i].pc \in {"idle", "close-declined", "triage-pr"} /\ job'[i].calls = <<>>
  <2>1. CASE i = j
    BY <1>2, <1>4, <2>1
  <2>2. CASE i # j
    <3>1. job[i] = Idle
      BY <1>1, <1>5 DEF TInv, Shaped, AllIdle
    <3> QED
      BY <1>4, <2>2, <3>1 DEF Idle
  <2> QED
    BY <2>1, <2>2
<1>6. Solo'
  BY <1>3, <1>5 DEF Solo
<1>7. PhaseInv'
  <2>1. ASSUME period'.alone, NEW i \in Jobs
        PROVE  (IssuePhase(item, job[i]) /\ SizedPhase(item, job[i]) /\ MilestonePhase(item, job[i]))'
    <3>1. job'[i].pc \in {"idle", "close-declined", "triage-pr"} /\ job'[i].calls = <<>>
      BY <1>3, <1>5, <2>1
    <3> QED
      BY <3>1 DEF IssuePhase, SizedPhase, MilestonePhase, Boarding
  <2> QED
    BY <2>1 DEF PhaseInv, Fresh
<1>8. EndInv'
  BY <1>2, <1>4 DEF EndInv, AtRest, AllIdle
<1>9. SizeInv'
  BY <1>1, <1>3, <1>5, NothingYet DEF SizeInv
<1> QED
  BY <1>6, <1>7, <1>8, <1>9

\* Whatever people do, they do it to a job's item and not to the job; and an
\* event is pending, unless they leave alone what the jobs look after.
LEMMA PeopleInvariant ==
  ASSUME IInv, TInv', People
  PROVE  Solo' /\ PhaseInv' /\ EndInv' /\ SizeInv'
<1>1. TInv /\ Solo /\ PhaseInv /\ EndInv /\ SizeInv
  BY DEF IInv
<1>2. /\ item'.pr = item.pr /\ job' = job /\ closed \subseteq closed'
      /\ pending' = 0 => pending = 0
      /\ period'.edited /\ period'.alone = period.alone /\ period'.failed = period.failed
      /\ period'.warned = period.warned /\ period'.overlapped = period.overlapped
      /\ ~item.pr /\ pending' = 0 =>
           /\ item'.labels = item.labels /\ item'.milestone = item.milestone
           /\ item'.areas = item.areas /\ (item'.open => item.open)
      /\ item'.board = item.board
  BY <1>1, PeopleTypes
<1>3. /\ ~period'.unsized =>
           ~period.unsized /\ item.labels \cap SizeLabels \subseteq item'.labels
      /\ ~period'.unplanned =>
           ~period.unplanned /\ (item.milestone # NoMilestone => item'.milestone # NoMilestone)
      /\ ~period'.doubled =>
           /\ ~period.doubled
           /\ OneSize(item.labels) => OneSize(item'.labels)
           /\ AllIdle \/ item'.labels \cap SizeLabels \subseteq item.labels
  BY <1>1, PeopleTypes
<1>4. Candidates' \subseteq Candidates
  BY <1>2 DEF Candidates
<1>5. Solo'
  BY <1>1, <1>2 DEF Solo
<1>6. ASSUME ~item.pr, pending' = 0, NEW q
      PROVE  /\ IssuePhase(item, q) => IssuePhase(item', q)
             /\ \A labels : TriagedAs(item, labels) => TriagedAs(item', labels)
  <2>1. /\ item'.labels = item.labels /\ item'.milestone = item.milestone
        /\ item'.areas = item.areas /\ (item'.open => item.open)
    BY <1>2, <1>6
  <2>2. \A labels : TriagedAs(item, labels) => TriagedAs(item', labels)
    BY <2>1 DEF TriagedAs
  <2> QED
    BY <2>1, <2>2 DEF IssuePhase, Declines
<1>7. ASSUME ~period'.unsized
      PROVE  /\ \A labels : Sized(item.labels \cup labels) => Sized(item'.labels \cup labels)
             /\ Sized(item.labels) => Sized(item'.labels)
             /\ \A q : SizedPhase(item, q) => SizedPhase(item', q)
  <2>1. item.labels \cap SizeLabels \subseteq item'.labels
    BY <1>3, <1>7
  <2>2. /\ \A labels : Sized(item.labels \cup labels) => Sized(item'.labels \cup labels)
        /\ Sized(item.labels) => Sized(item'.labels)
    BY <2>1 DEF Sized
  <2> QED
    BY <2>2 DEF SizedPhase
<1>8. ASSUME ~period'.unplanned
      PROVE  /\ Milestoned(item) => Milestoned(item)'
             /\ \A q : MilestonePhase(item, q) => MilestonePhase(item, q)'
  <2>1. item.milestone # NoMilestone => item'.milestone # NoMilestone
    BY <1>3, <1>8
  <2>2. Milestoned(item) => Milestoned(item)'
    BY <1>4, <2>1 DEF Milestoned
  <2> QED
    BY <2>1, <2>2 DEF MilestonePhase
<1>9. PhaseInv'
  <2>1. ASSUME Fresh', ~item'.pr, NEW i \in Jobs
        PROVE  IssuePhase(item', job'[i])
    <3>1. pending' = 0 /\ Fresh
      BY <1>2, <2>1 DEF Fresh
    <3>2. IssuePhase(item, job[i])
      BY <1>1, <1>2, <2>1, <3>1 DEF PhaseInv
    <3> QED
      BY <1>2, <1>6, <2>1, <3>1, <3>2
  <2>2. ASSUME period'.alone, ~period'.unsized, item'.pr, NEW i \in Jobs
        PROVE  SizedPhase(item', job'[i])
    <3>1. SizedPhase(item, job[i])
      BY <1>1, <1>2, <1>3, <2>2 DEF PhaseInv
    <3> QED
      BY <1>2, <1>7, <2>2, <3>1
  <2>3. ASSUME period'.alone, ~period'.unplanned, item'.pr, NEW i \in Jobs
        PROVE  MilestonePhase(item, job[i])'
    <3>1. MilestonePhase(item, job[i])
      BY <1>1, <1>2, <1>3, <2>3 DEF PhaseInv
    <3>2. ASSUME NEW q, q = job[i]
          PROVE  MilestonePhase(item, q)'
      BY <1>8, <2>3, <3>1, <3>2
    <3> QED
      BY <1>2, <3>2
  <2> QED
    BY <2>1, <2>2, <2>3 DEF PhaseInv
<1>10. EndInv'
  <2> SUFFICES ASSUME AtRest', Clean'
               PROVE  Ended(item)'
    BY DEF EndInv
  <2>1. pending' = 0 /\ AtRest /\ Clean
    BY <1>2 DEF AtRest, AllIdle, Clean
  <2>2. Ended(item)
    BY <1>1, <2>1 DEF EndInv
  <2>3. CASE item.pr
    <3>1. period'.unsized \/ Sized(item'.labels)
      BY <1>3, <1>7, <2>2, <2>3 DEF Ended
    <3>2. period'.unplanned \/ Milestoned(item)'
      BY <1>3, <1>8, <2>2, <2>3 DEF Ended
    <3>3. Boarded(item', period'.warned)
      BY <1>2, <2>2, <2>3 DEF Ended, Boarded
    <3> QED
      BY <1>2, <2>3, <3>1, <3>2, <3>3 DEF Ended
  <2>4. CASE ~item.pr
    BY <1>2, <1>6, <2>1, <2>2, <2>4 DEF Ended
  <2> QED
    BY <2>3, <2>4
<1>11. SizeInv'
  <2> SUFFICES ASSUME item'.pr, ~period'.overlapped, ~period'.doubled
               PROVE  OneSize(item'.labels) /\ \A i \in Jobs : SizePhase(item', job'[i])
    BY DEF SizeInv
  <2>1. /\ OneSize(item.labels) /\ \A i \in Jobs : SizePhase(item, job[i])
        /\ OneSize(item'.labels)
        /\ AllIdle \/ item'.labels \cap SizeLabels \subseteq item.labels
    BY <1>1, <1>2, <1>3 DEF SizeInv
  <2>2. ASSUME NEW i \in Jobs
        PROVE  SizePhase(item', job[i])
    <3>1. CASE AllIdle
      BY <3>1 DEF AllIdle, SizePhase
    <3>2. CASE item'.labels \cap SizeLabels \subseteq item.labels
      BY <2>1, <3>2 DEF SizePhase, OneSize
    <3> QED
      BY <2>1, <3>1, <3>2
  <2> QED
    BY <1>2, <2>1, <2>2
<1> QED
  BY <1>5, <1>9, <1>10, <1>11

\* A job that has started makes a step.
LEMMA WorkInvariant ==
  ASSUME IInv, TInv', NEW j \in Jobs, Work(j), ~StartJob(j)
  PROVE  Solo' /\ PhaseInv' /\ EndInv' /\ SizeInv'
<1>1. TInv /\ Solo /\ PhaseInv /\ EndInv /\ SizeInv
  BY DEF IInv
<1>2. PICK q : Moves(j, q)
  BY <1>1, WorkMoves
<1>3. /\ job[j].pc # "idle" /\ item'.pr = item.pr /\ item.pr \in BOOLEAN
      /\ job'[j] = q
      /\ \A i \in Jobs : i # j => job'[i] = job[i]
      /\ closed' = closed /\ pending' = pending
      /\ period'.alone = period.alone /\ period'.overlapped = period.overlapped
      /\ period'.edited = period.edited /\ period'.doubled = period.doubled
      /\ period'.unsized = period.unsized /\ period'.unplanned = period.unplanned
  BY <1>1, <1>2 DEF Moves, TInv, ItemType
<1>4. Candidates' = Candidates
  BY <1>3 DEF Candidates
<1>5. Solo'
  BY <1>1, <1>3 DEF Solo
<1>6. ASSUME period.alone \/ ~period.overlapped, NEW i \in Jobs, i # j
      PROVE  job'[i].pc = "idle" /\ job'[i].calls = <<>>
  BY <1>1, <1>3, <1>6, OthersIdle
<1>7. ASSUME Fresh, ~item.pr
      PROVE  IssuePhase(item, job[j])
  BY <1>1, <1>7 DEF PhaseInv
<1>a. ASSUME period.alone, item.pr
      PROVE  /\ ~period.unsized => SizedPhase(item, job[j])
             /\ ~period.unplanned => MilestonePhase(item, job[j])
  BY <1>1, <1>a DEF PhaseInv
<1>8. PhaseInv'
  <2>1. ASSUME Fresh', ~item'.pr, NEW i \in Jobs
        PROVE  IssuePhase(item', job'[i])
    <3>1. Fresh /\ period.alone
      BY <1>3, <2>1 DEF Fresh
    <3>2. CASE i # j
      BY <1>6, <3>1, <3>2, NothingYet
    <3>3. CASE i = j
      BY <1>1, <1>3, <1>7, <2>1, <3>1, <3>3, IssueStep
    <3> QED
      BY <3>2, <3>3
  <2>2. ASSUME period'.alone, ~period'.unsized, item'.pr, NEW i \in Jobs
        PROVE  SizedPhase(item', job'[i])
    <3>1. CASE i # j
      BY <1>3, <1>6, <2>2, <3>1, NothingYet
    <3>2. CASE i = j
      BY <1>1, <1>3, <1>a, <2>2, <3>2, PullRequestStep
    <3> QED
      BY <3>1, <3>2
  <2>3. ASSUME period'.alone, ~period'.unplanned, item'.pr, NEW i \in Jobs
        PROVE  MilestonePhase(item, job[i])'
    <3>1. CASE i # j
      BY <1>3, <1>6, <2>3, <3>1 DEF MilestonePhase, Boarding
    <3>2. CASE i = j
      <4>1. MilestonePhase(item', job'[j])
        BY <1>1, <1>3, <1>a, <2>3, PullRequestStep
      <4>2. MilestonePhase(item, job[j])'
        BY <1>4, <4>1 DEF MilestonePhase, Milestoned
      <4> QED
        BY <3>2, <4>2
    <3> QED
      BY <3>1, <3>2
  <2> QED
    BY <2>1, <2>2, <2>3 DEF PhaseInv
<1>9. EndInv'
  <2> SUFFICES ASSUME AtRest', Clean'
               PROVE  Ended(item)'
    BY DEF EndInv
  <2>1. Fresh /\ period.alone /\ job'[j].pc = "idle" /\ ~period'.failed
    BY <1>3 DEF AtRest, AllIdle, Clean, Fresh
  <2>2. CASE ~item.pr
    <3>1. TriagedAs(item', item'.labels)
      BY <1>1, <1>7, <2>1, <2>2, IssueStep
    <3> QED
      BY <1>3, <2>2, <3>1 DEF Ended
  <2>3. CASE item.pr
    <3>1. /\ period.unsized \/ Sized(item'.labels)
          /\ period.unplanned \/ Milestoned(item')
          /\ Boarded(item', period'.warned)
      BY <1>1, <1>a, <2>1, <2>3, PullRequestStep
    <3>2. period.unplanned \/ Milestoned(item)'
      BY <1>4, <3>1 DEF Milestoned
    <3> QED
      BY <1>3, <2>3, <3>1, <3>2 DEF Ended
  <2> QED
    BY <2>2, <2>3
<1>10. SizeInv'
  <2> SUFFICES ASSUME item'.pr, ~period'.overlapped, ~period'.doubled
               PROVE  OneSize(item'.labels) /\ \A i \in Jobs : SizePhase(item', job'[i])
    BY DEF SizeInv
  <2>1. item.pr /\ ~period.overlapped /\ OneSize(item.labels) /\ SizePhase(item, job[j])
    BY <1>1, <1>3 DEF SizeInv
  <2>2. OneSize(item'.labels) /\ SizePhase(item', job'[j])
    BY <1>1, <2>1, SizeStep
  <2>3. ASSUME NEW i \in Jobs, i # j
        PROVE  SizePhase(item', job'[i])
    BY <1>6, <2>1, <2>3, NothingYet
  <2> QED
    BY <2>2, <2>3
<1> QED
  BY <1>5, <1>8, <1>9, <1>10

\* Every step of people or jobs keeps the invariant.
LEMMA NextInvariant == IInv /\ [Next]_vars => IInv'
<1> SUFFICES ASSUME IInv, [Next]_vars PROVE IInv'
  OBVIOUS
<1>1. TInv'
  BY NextTypes DEF IInv
<1>2. CASE People
  BY <1>1, <1>2, PeopleInvariant DEF IInv
<1>3. ASSUME NEW j \in Jobs, Work(j)
      PROVE  IInv'
  BY <1>1, <1>3, StartInvariant, WorkInvariant DEF IInv
<1>4. CASE UNCHANGED vars
  <2>1. Candidates' = Candidates
    BY <1>4 DEF vars, Candidates
  <2>2. Solo' /\ SizeInv'
    BY <1>4 DEF IInv, vars, Solo, SizeInv
  <2>3. PhaseInv'
    BY <1>4, <2>1 DEF IInv, vars, PhaseInv, Fresh, MilestonePhase, Milestoned
  <2>4. EndInv'
    BY <1>4, <2>1 DEF IInv, vars, EndInv, AtRest, AllIdle, Clean, Ended, Milestoned
  <2> QED
    BY <1>1, <2>2, <2>3, <2>4 DEF IInv
<1> QED
  BY <1>2, <1>3, <1>4 DEF Next

\* The inductive invariant, from which the theorems follow.
LEMMA InvariantAlways == Spec => []IInv
BY InitInvariant, NextInvariant, PTL DEF Spec

-----------------------------------------------------------------------------
(* What follows.                                                           *)

\* Whatever people and failing jobs did before, an issue whose last event was
\* worked off by a job on its own tells one story, and a declined one is closed:
\* runCloseDeclined, then runUpdateLabels on what it reads again, leave nothing
\* to be done.
THEOREM IssuesSettle == Spec => []IssueSettles
<1>1. IInv => IssueSettles
  BY DEF IInv, EndInv, Ended, IssueSettles, TriagedAs, Triaged
<1> QED
  BY <1>1, InvariantAlways, PTL

\* A pull request whose last job ran on its own has a size and, if one was
\* open, a milestone, unless a person has taken it off since the job started;
\* one size at most, unless jobs have ever overlapped or a person put one on
\* next to another or during a job; and a place on a board unless the job could
\* only warn: runTriagePR, from whatever state and whatever people do meanwhile.
THEOREM PullRequestsSettle == Spec => []PullRequestSettles
<1>1. ASSUME IInv, AtRest, Clean, item.pr
      PROVE  /\ period.unsized \/ Sized(item.labels)
             /\ period.unplanned \/ Milestoned(item)
             /\ Boarded(item, period.warned)
             /\ ~period.overlapped /\ ~period.doubled => OneSize(item.labels)
  BY <1>1 DEF IInv, EndInv, Ended, SizeInv
<1>2. ASSUME OneSize(item.labels)
      PROVE  Cardinality(item.labels \cap SizeLabels) <= 1
  <2>1. CASE item.labels \cap SizeLabels = {}
    BY <2>1, FS_EmptySet
  <2>2. CASE item.labels \cap SizeLabels # {}
    <3>1. PICK s : item.labels \cap SizeLabels = {s}
      BY <1>2, <2>2 DEF OneSize
    <3>2. Cardinality({s}) = 1
      BY FS_Singleton
    <3> QED
      BY <3>1, <3>2
  <2> QED
    BY <2>1, <2>2
<1>3. IInv => PullRequestSettles
  BY <1>1, <1>2 DEF PullRequestSettles, Sized, Milestoned, Boarded
<1> QED
  BY <1>3, InvariantAlways, PTL

\* A job that nobody disturbs never leaves an issue without a triage label,
\* not between two of its calls and not when it is cut off: applyLabels adds
\* before it removes, and close-declined keeps triage/declined.
THEOREM TriageIsNeverLost == Spec => NeverUntriaged
<1> DEFINE Kept == period.alone /\ ~period'.edited /\ item.labels \cap Triage # {}
                     => item'.labels \cap Triage # {}
<1>1. IInv /\ [Next]_vars => [Kept]_vars
  <2> SUFFICES ASSUME IInv, Next, period.alone, ~period'.edited, item.labels \cap Triage # {}
               PROVE  item'.labels \cap Triage # {}
    OBVIOUS
  <2>1. TInv /\ PhaseInv /\ item \in ItemType
    BY DEF IInv, TInv
  <2>2. ~People
    BY <2>1, PeopleTypes
  <2>3. PICK j \in Jobs : Work(j)
    BY <2>2 DEF Next
  <2>4. CASE StartJob(j)
    BY <2>4 DEF StartJob
  <2>5. CASE ~StartJob(j) /\ item.pr
    <3>1. item.labels \subseteq item'.labels
      BY <2>1, <2>3, <2>5, PullRequestCases DEF Reads, Writes, FindsBoard
    <3> QED
      BY <3>1
  <2>6. CASE ~StartJob(j) /\ ~item.pr
    <3>1. Fresh
      <4>1. PICK q : Moves(j, q)
        BY <2>1, <2>3, <2>6, WorkMoves
      <4> QED
        BY <4>1 DEF Moves, Fresh
    <3>2. IssuePhase(item, job[j]) /\ Shaped(job[j], item.pr)
      BY <2>1, <2>6, <3>1 DEF PhaseInv, TInv
    <3>3. CASE AddLabels(j)
      <4>1. item' = [item EXCEPT !.labels = @ \cup job[j].add]
        BY <3>3 DEF AddLabels, Call
      <4> QED
        BY <2>1, <4>1 DEF ItemType
    <3>4. ASSUME NEW l \in Triage, RemoveLabel(j, l)
          PROVE  item'.labels \cap Triage # {}
      <4>1. item' = [item EXCEPT !.labels = @ \ {l}]
        BY <3>4 DEF RemoveLabel, Call
      <4>2. item'.labels = item.labels \ {l}
        BY <2>1, <4>1 DEF ItemType
      <4>3. l \in job[j].remove /\ job[j].pc = "removeLabel" /\ job[j].add = {}
        BY <3>2, <3>4 DEF RemoveLabel, Shaped
      <4>4. CASE job[j].calls = <<>>
        <5>1. TriagedAs(item, (item.labels \cup job[j].add) \ job[j].remove)
          BY <3>2, <4>3, <4>4 DEF IssuePhase
        <5>2. ((item.labels \cup job[j].add) \ job[j].remove) \cap Triage # {}
          BY <5>1 DEF TriagedAs
        <5> QED
          BY <4>2, <4>3, <5>2
      <4>5. CASE job[j].calls # <<>>
        <5>1. declined \in item.labels /\ declined \notin job[j].remove
          BY <3>2, <4>3, <4>5 DEF IssuePhase, Declines
        <5> QED
          BY <4>2, <4>3, <5>1 DEF Triage
      <4> QED
        BY <4>4, <4>5
    <3>5. CASE \/ CallFails(j) \/ CloseDeclined(j) \/ UpdateLabels(j)
               \/ RemoveMilestone(j) \/ CloseIssue(j)
      <4>1. \/ item' = item \/ item' = [item EXCEPT !.milestone = NoMilestone]
            \/ item' = [item EXCEPT !.open = FALSE]
        BY <3>5 DEF CallFails, CloseDeclined, UpdateLabels, RemoveMilestone, CloseIssue, Call
      <4>2. item'.labels = item.labels
        BY <2>1, <4>1 DEF ItemType
      <4> QED
        BY <4>2
    <3>6. job[j].pc \in IssueSteps
      BY <2>6, <3>2 DEF Shaped
    <3> QED
      BY <2>3, <2>6, <3>3, <3>4, <3>5, <3>6
      DEF Work, IssueSteps, GetPullRequest, GetPullRequestInfo, GetPullRequestFiles,
          ListOpenMilestones, SetMilestone, ResolveOrganization, ResolveOrganizationFails,
          ResolveUser, AddItem, LookupStatusOption, SetStatus
  <2> QED
    BY <2>3, <2>4, <2>5, <2>6
<1> QED
  BY <1>1, InvariantAlways, PTL DEF Spec, NeverUntriaged
=============================================================================
