-------------------------- MODULE MCMeshGovernance --------------------------
(* Instances of MeshGovernance for TLC.                                    *)
EXTENDS MeshGovernance

CONSTANTS o1, o2, o3, o4, o5, o6, ship, hold, c1, c2

FourOrgans == {o1, o2, o3, o4}
SixOrgans  == {o1, o2, o3, o4, o5, o6}
Liar       == {o1}
TwoDecisions == {ship, hold}
OneCoordinator  == {c1}
TwoCoordinators == {c1, c2}

\* The slack of n_obs with kl = 0 and delta = 0.05, the values
\* decide_and_cosign passes: sqrt(ln(2 sqrt(n) / delta) / (2 n)).
Default      == {64}
DefaultOrBad == {0, 64}
SlackTable(S) == [n \in S |-> IF n = 64 THEN 212285 ELSE 0]
DefaultSlack      == SlackTable(Default)
DefaultOrBadSlack == SlackTable(DefaultOrBad)
=============================================================================
