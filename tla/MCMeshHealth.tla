---------------------------- MODULE MCMeshHealth ----------------------------
(* Instances of MeshHealth for TLC.                                        *)
EXTENDS MeshHealth

CONSTANTS o1, o2, o3, o4

FourOrgans == {o1, o2, o3, o4}
Two        == {o1, o2}
One        == {o1}
LastOfFour == {o4}
NoOrgans   == {}

\* o1 and o2 attest: a cut puts them on different sides.
FourCuts == {{o1}, {o1, o3}, {o1, o3, o4}}
OneCut   == {{o1, o3}}

\* MeshQuorum(n) without an f tolerates what n supports.
FaultsOfFour == MaxByzantineFaults(Cardinality(FourOrgans))

BothReports == BOOLEAN
AliveOnly   == {TRUE}

\* The behaviours of the run: any number of attestors on heartbeats alone, or
\* one attestor with views and dead organs' heartbeats while the others wait.
OnlyAliveBeats(a) == \A h \in inbox[a] : h.alive
Waits(a) == inbox[a] = {} /\ polled[a] = EmptyViews /\ verdict[a] = NoVerdict
HeartbeatsOrOneAttestor ==
  \/ \A a \in Attestors : OnlyAliveBeats(a) /\ polled[a] = EmptyViews
  \/ \A a \in Attestors \ {o1} : Waits(a)
=============================================================================
