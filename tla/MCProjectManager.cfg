SPECIFICATION Spec
CONSTANTS
    Jobs = {j1, j2}
    Areas <- MCAreas
    Sizes <- MCSizes
    Milestones <- MCMilestones
    NotSemver = NotSemver
    NoMilestone = NoMilestone
    OrgProjects <- MCOrgProjects
    UserProjects <- MCUserProjects
    NoProject = NoProject
    MaxEdits = 2
    MaxFaults = 1
SYMMETRY JobSymmetry
INVARIANTS TypeOK IssueSettles PullRequestSettles
PROPERTIES NeverUntriaged
CHECK_DEADLOCK FALSE
