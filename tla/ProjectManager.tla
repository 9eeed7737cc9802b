--------------------------- MODULE ProjectManager ---------------------------
(***************************************************************************)
(* The triage tool tools/github_project_manager, as the repository's       *)
(* workflows run it on an issue (close-declined, then update-labels) or on *)
(* a pull request (triage-pr).  Every event starts a job of its own, jobs  *)
(* are not serialised, and each command works from one early read of the   *)
(* item: people and other jobs change it between any two of its calls.  A  *)
(* call may fail, with or without having taken effect.                     *)
(*                                                                         *)
(* A text, or a list of files, stands for the set of areas it suggests; a  *)
(* milestone's title for its place in the order of versions.               *)
(*                                                                         *)
(* External: GitHub.  What a job changes starts no job: an issue's changes *)
(* are made with the workflow's own token, a pull request's labels and     *)
(* milestone are not among its event types.                                *)
(***************************************************************************)
EXTENDS Naturals, Sequences, FiniteSets

CONSTANTS
    Jobs,          \* jobs that can run at the same time
    Areas,         \* area labels
    Sizes,         \* numbers of changed lines of a pull request
    Milestones,    \* the repository's milestones, as listed: [number, version]
    NotSemver,     \* the version of a title that is none
    NoMilestone,
    OrgProjects, UserProjects,   \* boards of the owner: sets of [number, closed]
    NoProject,
    MaxEdits,      \* bound on what people do
    MaxFaults      \* bound on failing calls

Numbers == {Milestones[i].number : i \in DOMAIN Milestones}
Boards == {p.number : p \in OrgProjects \cup UserProjects}

ASSUME TriageAssumption ==
    /\ NoMilestone \notin Numbers /\ NoProject \notin Boards
    /\ Milestones \in Seq([number : Nat, version : Nat \cup {NotSemver}])
    /\ Sizes \subseteq Nat /\ Boards \subseteq Nat
    /\ MaxEdits \in Nat /\ MaxFaults \in Nat

VARIABLES
    item,      \* the issue or pull request
    closed,    \* numbers of the milestones that have been closed
    pending,   \* events whose job has not started
    job,       \* job -> where it is and what it has read and computed
    period,    \* history: what has happened since the last job started, and
               \* whether jobs have ever overlapped and people doubled a size
    edits, faults

vars == <<item, closed, pending, job, period, edits, faults>>

needsTriage == "triage/needs-triage"
needsInformation == "triage/needs-information"
accepted == "triage/accepted"
declined == "triage/declined"

Triage == {needsTriage, needsInformation, accepted, declined}
SizeLabels == {"size/needs-sizing", "size/XS", "size/S", "size/M", "size/L", "size/XL"}
Labels == Triage \cup SizeLabels \cup Areas

ASSUME LabelAssumption == Areas \cap (Triage \cup SizeLabels) = {}

-----------------------------------------------------------------------------
(* The rules.                                                              *)

computeLabelUpdates(labels, hasMilestone) ==
    LET others == (labels \cap Triage) \ {accepted} IN
    IF hasMilestone
    THEN [add |-> {accepted} \ labels, remove |-> others]
    ELSE [add |-> IF others = {} THEN {needsTriage} ELSE {},
          remove |-> (labels \cap {accepted})
                       \cup (IF others # {needsTriage} THEN others \cap {needsTriage} ELSE {})]

\* Mutant of effectiveLabels: the labels as they were.
effectiveLabelsBefore(labels, updates) == labels

effectiveLabels(labels, updates) == (labels \ updates.remove) \cup updates.add

computeSizeLabels(labels) ==
    IF accepted \in labels /\ labels \cap SizeLabels = {} THEN {"size/needs-sizing"} ELSE {}

computeAreaLabels(labels, areas) ==
    IF accepted \in labels /\ labels \cap Areas = {} THEN areas ELSE {}

\* What update-labels does about an issue it has read.
LabelUpdates(issue) ==
    LET updates   == computeLabelUpdates(issue.labels, issue.milestone # NoMilestone)
        effective == effectiveLabels(issue.labels, updates)
    IN [updates EXCEPT !.add = @ \cup computeSizeLabels(effective)
                                 \cup computeAreaLabels(effective, issue.areas)]

\* What close-declined does about an issue it has read as declined.
computeDeclined(issue) ==
    [remove |-> (issue.labels \cap Triage) \ {declined},
     calls |-> (IF issue.milestone # NoMilestone THEN <<"removeMilestone">> ELSE <<>>)
               \o (IF issue.open THEN <<"closeIssue">> ELSE <<>>)]

computePRAreaLabels(labels, areas) == IF labels \cap Areas = {} THEN areas ELSE {}

\* Mutant of computePRSizeLabel: a label that is already there is not seen.
computePRSizeLabelAgain(labels, lines) ==
    {IF lines <= 10 THEN "size/XS" ELSE IF lines <= 50 THEN "size/S"
     ELSE IF lines <= 200 THEN "size/M" ELSE IF lines <= 500 THEN "size/L" ELSE "size/XL"}

computePRSizeLabel(labels, lines) ==
    IF labels \cap SizeLabels # {} THEN {}
    ELSE {IF lines <= 10 THEN "size/XS" ELSE IF lines <= 50 THEN "size/S"
          ELSE IF lines <= 200 THEN "size/M" ELSE IF lines <= 500 THEN "size/L" ELSE "size/XL"}

\* Positions, in the listing, of the open milestones titled with a version.
Candidates ==
    {i \in DOMAIN Milestones : /\ Milestones[i].number \notin closed
                               /\ Milestones[i].version # NotSemver}

\* Mutant of findLowestMilestone: the place in the listing for the number.
findLowestMilestonePosition ==
    CHOOSE i \in Candidates : \A k \in Candidates :
        Milestones[i].version <= Milestones[k].version

\* The first one listed of the lowest version.
findLowestMilestone ==
    Milestones[CHOOSE i \in Candidates : \A k \in Candidates :
                  \/ Milestones[i].version < Milestones[k].version
                  \/ Milestones[i].version = Milestones[k].version /\ i <= k].number

findOldestOpenProject(projects) ==
    LET open == {p.number : p \in {q \in projects : ~q.closed}} IN
    IF open = {} THEN NoProject ELSE CHOOSE n \in open : \A k \in open : n <= k

-----------------------------------------------------------------------------
\* A job: what it has read of a pull request, and what is still to be done.
Idle == [pc |-> "idle", labels |-> {}, milestone |-> NoMilestone,
         add |-> {}, remove |-> {}, calls |-> <<>>, project |-> NoProject]

AllIdle == \A j \in Jobs : job[j].pc = "idle"

\* Just opened, with whatever labels and milestone it was opened with.
Init ==
    /\ item \in [pr : BOOLEAN,
                 labels : (SUBSET Triage) \cup {{}, {"size/M"}},
                 milestone : {NoMilestone} \cup Numbers, open : {TRUE},
                 areas : SUBSET Areas, lines : Sizes,
                 board : {[b \in Boards |-> "absent"]}]
    /\ item.pr => item.labels \cap Triage = {}
    /\ closed = {}
    /\ pending = 1
    /\ job = [j \in Jobs |-> Idle]
    /\ period = [alone |-> TRUE, failed |-> FALSE, edited |-> FALSE, warned |-> FALSE,
                 unsized |-> FALSE, unplanned |-> FALSE,
                 overlapped |-> FALSE, doubled |-> FALSE]
    /\ edits = 0
    /\ faults = 0

-----------------------------------------------------------------------------
(* People.  What is not among the workflow's event types starts no job: of *)
(* a pull request, changes of its labels and its milestone do not.         *)

Human(startsJob, seen) ==
    /\ edits < MaxEdits
    /\ edits' = edits + 1
    /\ pending' = IF startsJob THEN pending + 1 ELSE pending
    /\ period' = [seen EXCEPT !.edited = TRUE]
    /\ UNCHANGED <<job, faults>>

\* A size that is put on next to another, or while a job may be about to add
\* one, is noted as doubled.
Relabel(l) ==
    LET sizes == item.labels \cap SizeLabels IN
    /\ Human(~item.pr,
             [period EXCEPT
                !.unsized = @ \/ l \in sizes,
                !.doubled = @ \/ (l \in SizeLabels \ sizes /\ (sizes # {} \/ ~AllIdle))])
    /\ item' = [item EXCEPT !.labels = IF l \in @ THEN @ \ {l} ELSE @ \cup {l}]
    /\ UNCHANGED closed

ChangeMilestone(n) ==
    /\ Human(~item.pr, [period EXCEPT !.unplanned = @ \/ n = NoMilestone])
    /\ n # item.milestone
    /\ item' = [item EXCEPT !.milestone = n]
    /\ UNCHANGED closed

EditText(areas) ==
    /\ Human(TRUE, period)
    /\ ~item.pr
    /\ item' = [item EXCEPT !.areas = areas]
    /\ UNCHANGED closed

Push(lines, areas) ==
    /\ Human(TRUE, period)
    /\ item.pr
    /\ item' = [item EXCEPT !.lines = lines, !.areas = areas]
    /\ UNCHANGED closed

CloseOrReopen ==
    /\ Human(~item.open, period)
    /\ item' = [item EXCEPT !.open = ~@]
    /\ UNCHANGED closed

CloseMilestone(n) ==
    /\ Human(FALSE, period)
    /\ closed' = closed \cup {n}
    /\ UNCHANGED item

-----------------------------------------------------------------------------
(* Jobs.                                                                   *)

\* A runner takes an event.
StartJob(j) ==
    /\ job[j].pc = "idle" /\ pending > 0
    /\ pending' = pending - 1
    /\ job' = [job EXCEPT ![j].pc = IF item.pr THEN "triage-pr" ELSE "close-declined"]
    /\ period' = [period EXCEPT !.alone = AllIdle, !.failed = FALSE, !.edited = FALSE,
                                !.warned = FALSE, !.unsized = FALSE, !.unplanned = FALSE,
                                !.overlapped = @ \/ ~AllIdle]
    /\ UNCHANGED <<item, closed, edits, faults>>

Step(j, next) ==
    /\ job' = [job EXCEPT ![j] = next]
    /\ UNCHANGED <<closed, pending, period, edits, faults>>

\* The call of a step fails, or only its answer is lost; the command, and the
\* workflow with it, ends.  For the board it ends with a mere warning.
Boarding == {"organization", "user", "addItem", "lookupStatus", "setStatus"}

Abort(j) ==
    /\ faults < MaxFaults
    /\ faults' = faults + 1
    /\ job' = [job EXCEPT ![j] = Idle]
    /\ period' = IF job[j].pc \in Boarding THEN [period EXCEPT !.warned = TRUE]
                 ELSE [period EXCEPT !.failed = TRUE]
    /\ UNCHANGED <<closed, pending, edits>>

CallFails(j) ==
    /\ job[j].pc \notin {"idle", "organization"}
    /\ Abort(j)
    /\ UNCHANGED item

\* A call changes the item, and its answer arrives or not.
Call(j, changed, next) ==
    /\ item' = changed
    /\ Step(j, next) \/ Abort(j)

\* Mutant of Continue: labels are taken off before others are added.
ContinueRemovingFirst(plan) ==
    IF plan.remove # {} THEN [plan EXCEPT !.pc = "removeLabel"]
    ELSE IF plan.add # {} THEN [plan EXCEPT !.pc = "addLabels"]
    ELSE IF plan.calls # <<>> THEN [plan EXCEPT !.pc = Head(plan.calls), !.calls = Tail(@)]
    ELSE Idle

\* The order of a command's calls: labels to add, in one call, labels to take
\* off, one by one, and then the other calls.
Continue(plan) ==
    IF plan.add # {} THEN [plan EXCEPT !.pc = "addLabels"]
    ELSE IF plan.remove # {} THEN [plan EXCEPT !.pc = "removeLabel"]
    ELSE IF plan.calls # <<>> THEN [plan EXCEPT !.pc = Head(plan.calls), !.calls = Tail(@)]
    ELSE Idle

\* close-declined: GetIssue and runCloseDeclined.
CloseDeclined(j) ==
    /\ job[j].pc = "close-declined"
    /\ Step(j, Continue([Idle EXCEPT
                 !.remove = IF declined \in item.labels THEN computeDeclined(item).remove ELSE {},
                 !.calls = (IF declined \in item.labels THEN computeDeclined(item).calls
                            ELSE <<>>) \o <<"update-labels">>]))
    /\ UNCHANGED item

\* update-labels: GetIssue and runUpdateLabels; a declined issue is left alone.
UpdateLabels(j) ==
    /\ job[j].pc = "update-labels"
    /\ Step(j, IF declined \in item.labels THEN Idle
               ELSE Continue([Idle EXCEPT !.add = LabelUpdates(item).add,
                                          !.remove = LabelUpdates(item).remove]))
    /\ UNCHANGED item

AddLabels(j) ==
    /\ job[j].pc = "addLabels"
    /\ Call(j, [item EXCEPT !.labels = @ \cup job[j].add],
            Continue([job[j] EXCEPT !.add = {}]))

\* A label that is gone already counts as taken off.
RemoveLabel(j, l) ==
    /\ job[j].pc = "removeLabel"
    /\ l \in job[j].remove
    /\ Call(j, [item EXCEPT !.labels = @ \ {l}],
            Continue([job[j] EXCEPT !.remove = @ \ {l}]))

RemoveMilestone(j) ==
    /\ job[j].pc = "removeMilestone"
    /\ Call(j, [item EXCEPT !.milestone = NoMilestone], Continue(job[j]))

CloseIssue(j) ==
    /\ job[j].pc = "closeIssue"
    /\ Call(j, [item EXCEPT !.open = FALSE], Continue(job[j]))

-----------------------------------------------------------------------------
(* triage-pr: the item, its size and its files are read one after another. *)

GetPullRequest(j) ==
    /\ job[j].pc = "triage-pr"
    /\ Step(j, [Idle EXCEPT !.pc = "info", !.labels = item.labels,
                            !.milestone = item.milestone])
    /\ UNCHANGED item

GetPullRequestInfo(j) ==
    /\ job[j].pc = "info"
    /\ Step(j, [job[j] EXCEPT !.pc = "files",
                              !.add = computePRSizeLabel(job[j].labels, item.lines)])
    /\ UNCHANGED item

GetPullRequestFiles(j) ==
    /\ job[j].pc = "files"
    /\ Step(j, Continue([job[j] EXCEPT
                  !.add = @ \cup computePRAreaLabels(job[j].labels, item.areas),
                  !.calls = <<"listMilestones">>, !.labels = {}]))
    /\ UNCHANGED item

\* ListOpenMilestones, if the pull request was read without a milestone.
ListOpenMilestones(j) ==
    /\ job[j].pc = "listMilestones"
    /\ Step(j, IF job[j].milestone = NoMilestone /\ Candidates # {}
               THEN [Idle EXCEPT !.pc = "setMilestone", !.milestone = findLowestMilestone]
               ELSE [Idle EXCEPT !.pc = "organization"])
    /\ UNCHANGED item

SetMilestone(j) ==
    /\ job[j].pc = "setMilestone"
    /\ Call(j, [item EXCEPT !.milestone = job[j].milestone],
            [Idle EXCEPT !.pc = "organization"])

\* resolveProjectID: a board of the organization or, failing that, of the user.
ResolveOrganization(j) ==
    /\ job[j].pc = "organization"
    /\ LET p == findOldestOpenProject(OrgProjects) IN
       Step(j, [Idle EXCEPT !.pc = IF p = NoProject THEN "user" ELSE "addItem", !.project = p])
    /\ UNCHANGED item

ResolveOrganizationFails(j) ==
    /\ job[j].pc = "organization"
    /\ faults < MaxFaults
    /\ faults' = faults + 1
    /\ job' = [job EXCEPT ![j].pc = "user"]
    /\ UNCHANGED <<item, closed, pending, period, edits>>

ResolveUser(j) ==
    /\ job[j].pc = "user"
    /\ LET p == findOldestOpenProject(UserProjects) IN
       /\ job' = [job EXCEPT ![j] = IF p = NoProject THEN Idle
                                    ELSE [@ EXCEPT !.pc = "addItem", !.project = p]]
       /\ period' = [period EXCEPT !.warned = @ \/ p = NoProject]
    /\ UNCHANGED <<item, closed, pending, edits, faults>>

\* addItemToProject: adding twice is adding once, then the column is set.
AddItem(j) ==
    /\ job[j].pc = "addItem"
    /\ Call(j, [item EXCEPT !.board[job[j].project] = IF @ = "absent" THEN "added" ELSE @],
            [job[j] EXCEPT !.pc = "lookupStatus"])

LookupStatusOption(j) ==
    /\ job[j].pc = "lookupStatus"
    /\ Step(j, [job[j] EXCEPT !.pc = "setStatus"])
    /\ UNCHANGED item

SetStatus(j) ==
    /\ job[j].pc = "setStatus"
    /\ Call(j, [item EXCEPT !.board[job[j].project] = "Review"], Idle)

-----------------------------------------------------------------------------
People ==
    \/ \E l \in Labels : Relabel(l)
    \/ \E n \in Numbers \cup {NoMilestone} : ChangeMilestone(n)
    \/ \E areas \in SUBSET Areas : EditText(areas)
    \/ \E lines \in Sizes, areas \in SUBSET Areas : Push(lines, areas)
    \/ CloseOrReopen
    \/ \E n \in Numbers \ closed : CloseMilestone(n)

Work(j) ==
    \/ StartJob(j) \/ CallFails(j)
    \/ CloseDeclined(j) \/ UpdateLabels(j) \/ AddLabels(j)
    \/ \E l \in Triage : RemoveLabel(j, l)
    \/ RemoveMilestone(j) \/ CloseIssue(j)
    \/ GetPullRequest(j) \/ GetPullRequestInfo(j) \/ GetPullRequestFiles(j)
    \/ ListOpenMilestones(j) \/ SetMilestone(j)
    \/ ResolveOrganization(j) \/ ResolveOrganizationFails(j) \/ ResolveUser(j)
    \/ AddItem(j) \/ LookupStatusOption(j) \/ SetStatus(j)

Next == People \/ \E j \in Jobs : Work(j)

Spec == Init /\ [][Next]_vars

-----------------------------------------------------------------------------
(* Properties.                                                             *)

Steps == {"idle", "close-declined", "update-labels", "addLabels", "removeLabel",
          "removeMilestone", "closeIssue", "triage-pr", "info", "files",
          "listMilestones", "setMilestone"} \cup Boarding

TypeOK ==
    /\ item.labels \subseteq Labels
    /\ item.milestone \in Numbers \cup {NoMilestone}
    /\ item.areas \subseteq Areas
    /\ item.board \in [Boards -> {"absent", "added", "Review"}]
    /\ closed \subseteq Numbers
    /\ pending \in Nat
    /\ \A j \in Jobs : job[j].pc \in Steps /\ job[j].add \cup job[j].remove \subseteq Labels

AtRest == pending = 0 /\ AllIdle

\* The last job ran on its own and through to its end.
Clean == period.alone /\ ~period.failed

\* What the triage labels promise (CONTRIBUTING.md: "accepted and assigned to
\* an upcoming milestone", "not accepted yet", "not accepted").
Triaged ==
    LET triage == item.labels \cap Triage IN
    IF declined \in triage
    THEN triage = {declined} /\ item.milestone = NoMilestone /\ ~item.open
    ELSE IF item.milestone # NoMilestone
    THEN /\ triage = {accepted}
         /\ item.labels \cap SizeLabels # {}
         /\ item.areas # {} => item.labels \cap Areas # {}
    ELSE /\ triage # {} /\ accepted \notin triage
         /\ needsTriage \in triage => triage = {needsTriage}

\* Whatever people did to an issue, in whichever order and between whichever
\* calls of earlier jobs, and whatever state failing jobs left it in: once the
\* last event has been worked off by a job that did not overlap with another,
\* labels and milestone tell one story, and a declined issue is closed.
IssueSettles == AtRest /\ Clean /\ ~item.pr => Triaged

\* While nobody else touches an issue, a job never leaves it without a triage
\* label, not even if it fails or is cut off halfway (applyLabels adds before
\* it removes; close-declined keeps triage/declined).
NeverUntriaged ==
    [][period.alone /\ ~period'.edited /\ item.labels \cap Triage # {}
         => item'.labels \cap Triage # {}]_vars

\* However often a pull request was pushed to or its job was cut off, and
\* whatever people did to its labels and milestone between two calls: the job
\* sees to a size and, if one is open, a milestone, which only a person who
\* takes one off once the job has started undoes; it adds no second size, save
\* next to another job's or to one that a person puts on meanwhile; and it
\* gets the pull request into the Review column unless it could only warn.
PullRequestSettles ==
    AtRest /\ Clean /\ item.pr =>
        /\ period.unsized \/ item.labels \cap SizeLabels # {}
        /\ \/ period.overlapped \/ period.doubled
           \/ Cardinality(item.labels \cap SizeLabels) <= 1
        /\ period.unplanned \/ item.milestone # NoMilestone \/ Candidates = {}
        /\ period.warned \/ \E b \in Boards : item.board[b] = "Review"
=============================================================================
