--------------------------- MODULE MCMeshTelemetry ---------------------------
(***************************************************************************)
(* The bound of TLC's run over the span pipeline: the more spans there are *)
(* the fewer exports fail, from five and none to two and three; a batch    *)
(* that grows while it is aggregated counts as one span more.              *)
(***************************************************************************)
EXTENDS MeshTelemetry

\* An aggregate, or the reads of one, of a batch that grew meanwhile.
Torn ==
  \/ \E agg \in published : ~Whole(agg)
  \/ caller \in Reading /\ local.leaves # batch

FiveSpansOrFailures == emitted + failures + (IF Torn THEN 1 ELSE 0) <= 5
=============================================================================
