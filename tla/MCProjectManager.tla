-------------------------- MODULE MCProjectManager --------------------------
(***************************************************************************)
(* ProjectManager with two jobs, one area and three milestones, for TLC.   *)
(***************************************************************************)
EXTENDS ProjectManager, TLC

MCAreas == {"area/testing"}

\* Either side of a threshold.
MCSizes == {10, 11}

\* A title that is no version, then a later and an earlier version.
MCMilestones == <<[number |-> 11, version |-> NotSemver],
                  [number |-> 13, version |-> 2],
                  [number |-> 12, version |-> 1]>>

MCOrgProjects == {[number |-> 1, closed |-> TRUE], [number |-> 2, closed |-> FALSE]}
MCUserProjects == {[number |-> 3, closed |-> FALSE]}

JobSymmetry == Permutations(Jobs)
=============================================================================
