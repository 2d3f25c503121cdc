---------------------------- MODULE MeshTelemetry ----------------------------
(***************************************************************************)
(* One organ's spans on their way to a verifier: MeshEmitter batches,      *)
(* aggregates and drains them (mesh/sdk/mesh.py), the organ's code exports *)
(* the drained list through OtlpBridge (src/mesh/otlp_bridge.py) in one or *)
(* more calls, retrying the calls that fail, and a verifier checks what    *)
(* the collector holds of an aggregate's spans.                            *)
(*                                                                         *)
(* Spans are numbered as they are emitted; a span's number stands for its  *)
(* id, its receipt hash and its start time, all fresh at emit.             *)
(***************************************************************************)
EXTENDS BatchReceipt, FiniteSets

CONSTANTS
  Signer,        \* the emitter's signer id
  MaxSpans,      \* bound: spans emitted
  MaxFailures    \* bound: export calls that raise

ASSUME TelemetryAssumption == MaxSpans \in Nat /\ MaxFailures \in Nat

VARIABLES
  emitted,    \* spans emitted so far
  batch,      \* _batch: the spans not drained yet
  local,      \* what batch_aggregate has read of the batch so far
  published,  \* the aggregates batch_aggregate has returned
  caller,     \* where the organ's code is in its export cycle
  held,       \* the drained spans the caller has still to export
  pending,    \* spans of the call the caller waits for, from the front of held
  wire,       \* the requests under way, oldest first
  arrived,    \* the awaited request is in the collector
  collected,  \* the spans the collector parsed, in order of arrival
  receipts,   \* the batch receipts the bridge has stamped
  given_up,   \* history: the drained spans whose export was abandoned
  failures,   \* export calls that raised, against MaxFailures
  late,       \* history: the spans emitted after an aggregate read its leaves
              \* and before the drain that follows
  cleared     \* history: the spans emitted between drain's two statements

emitterVars == <<emitted, batch, local, published, late, cleared>>

exportVars == <<held, pending, wire, arrived, collected, receipts, given_up, failures>>

vars == <<emitterVars, caller, exportVars>>

Numbers(spans) == {spans[i] : i \in DOMAIN spans}
Front(s, k)    == SubSeq(s, 1, k)
After(s, k)    == SubSeq(s, k + 1, Len(s))
Without(s, i)  == Front(s, i - 1) \o After(s, i)

\* to_otel: the span dict has its times as text under start_time.
ToOtel(n) == [span_id |-> n, receipt_hash |-> n, start_time |-> n]

\* to_otlp_json then parse_otlp_json: the encoder reads start_ns, 0 without.
ToOtlp(d) ==
  [span_id      |-> d.span_id,
   receipt_hash |-> d.receipt_hash,
   start_ns     |-> IF "start_ns" \in DOMAIN d THEN d.start_ns ELSE 0]

\* The receipt export() stamps: what it was told, or nothing after an error.
BatchReceipt(accepted, code) == [accepted |-> accepted, code |-> code]

\* batch_aggregate's locals, and the stages between its reads of the batch.
NoLocals == [leaves |-> <<>>, sigs |-> 0, count |-> 0]
Reading  == {"signing", "counting", "listing"}
----------------------------------------------------------------------------
Init ==
  /\ emitted = 0 /\ batch = <<>> /\ local = NoLocals /\ published = {}
  /\ caller = "idle" /\ held = <<>> /\ pending = 0
  /\ wire = <<>> /\ arrived = FALSE /\ collected = <<>>
  /\ receipts = <<>> /\ given_up = {} /\ failures = 0 /\ late = {} /\ cleared = {}

\* Any thread of the organ, at any time.
Emit ==
  /\ emitted < MaxSpans
  /\ emitted' = emitted + 1
  /\ batch' = Append(batch, emitted + 1)
  /\ late' = IF caller \in Reading \cup {"aggregated"} THEN late \cup {emitted + 1} ELSE late
  /\ cleared' = IF caller = "draining" THEN cleared \cup {emitted + 1} ELSE cleared
  /\ UNCHANGED <<local, published, caller, held, pending, wire, arrived, collected,
                 receipts, given_up, failures>>

\* batch_aggregate of an empty batch: no span, no root.
AggregateNothing ==
  /\ caller = "idle"
  /\ batch = <<>>
  /\ published' = published \cup {BatchAggregate(<<>>, 0, 0, <<>>, Signer)}
  /\ caller' = "aggregated"
  /\ UNCHANGED <<emitted, batch, local, late, cleared, exportVars>>

\* Else it reads the batch four times, and other threads emit in between:
\* the leaves, and the root over them,
ReadLeaves ==
  /\ caller = "idle"
  /\ batch # <<>>
  /\ local' = [NoLocals EXCEPT !.leaves = batch]
  /\ caller' = "signing"
  /\ UNCHANGED <<emitted, batch, published, late, cleared, exportVars>>

\* one signature over the root for every span in the batch,
SignLeaves ==
  /\ caller = "signing"
  /\ local' = [local EXCEPT !.sigs = Len(batch)]
  /\ caller' = "counting"
  /\ UNCHANGED <<emitted, batch, published, late, cleared, exportVars>>

\* the count,
CountBatch ==
  /\ caller = "counting"
  /\ local' = [local EXCEPT !.count = Len(batch)]
  /\ caller' = "listing"
  /\ UNCHANGED <<emitted, batch, published, late, cleared, exportVars>>

\* and the ids.
ListSpans ==
  /\ caller = "listing"
  /\ published' = published \cup
       {BatchAggregate(local.leaves, local.sigs, local.count, batch, Signer)}
  /\ local' = NoLocals
  /\ caller' = "aggregated"
  /\ UNCHANGED <<emitted, batch, late, cleared, exportVars>>

\* Mutations of DrainRender: the batch is cleared before it is rendered; it
\* is rendered from its end.
DrainClearsFirst ==
  /\ caller = "aggregated"
  /\ held' = <<>>
  /\ batch' = <<>>
  /\ caller' = "draining"
  /\ UNCHANGED <<emitted, local, published, late, cleared, pending, wire, arrived,
                 collected, receipts, given_up, failures>>

DrainFromEnd ==
  /\ caller = "aggregated"
  /\ held' = [i \in DOMAIN batch |-> batch[Len(batch) + 1 - i]]
  /\ caller' = "draining"
  /\ UNCHANGED <<emitterVars, pending, wire, arrived, collected, receipts,
                 given_up, failures>>

\* drain's first statement: the list of rendered spans.
DrainRender ==
  /\ caller = "aggregated"
  /\ held' = batch
  /\ caller' = "draining"
  /\ UNCHANGED <<emitterVars, pending, wire, arrived, collected, receipts,
                 given_up, failures>>

\* Its second: the batch is emptied, whatever was emitted in between.
DrainClear ==
  /\ caller = "draining"
  /\ batch' = <<>>
  /\ caller' = IF held = <<>> THEN "idle" ELSE "exporting"
  /\ UNCHANGED <<emitted, local, published, late, cleared, held, pending, wire, arrived,
                 collected, receipts, given_up, failures>>

\* The caller passes the first k spans it holds to export(), which encodes
\* them and calls the transport.
Export(k) ==
  /\ caller = "exporting"
  /\ pending' = k
  /\ wire' = Append(wire, [i \in 1..k |-> ToOtlp(ToOtel(held[i]))])
  /\ caller' = "waiting"
  /\ arrived' = FALSE
  /\ UNCHANGED <<emitterVars, held, collected, receipts, given_up, failures>>

\* The awaited request is the last one sent; earlier ones are late arrivals.
Ingest(i) ==
  /\ collected' = collected \o wire[i]
  /\ wire' = Without(wire, i)
  /\ arrived' = (arrived \/ (caller = "waiting" /\ i = Len(wire)))
  /\ UNCHANGED <<emitterVars, caller, held, pending, receipts, given_up, failures>>

\* The transport answers SUCCESS; with no "accepted" in the answer export()
\* counts the spans it sent.
ExportReturns ==
  /\ caller = "waiting"
  /\ arrived
  /\ receipts' = Append(receipts, BatchReceipt(pending, "SUCCESS"))
  /\ held' = After(held, pending)
  /\ pending' = 0
  /\ arrived' = FALSE
  /\ caller' = IF pending = Len(held) THEN "idle" ELSE "exporting"
  /\ UNCHANGED <<emitterVars, wire, collected, given_up, failures>>

\* A call of export() fails for its caller.  If the request is lost it leaves
\* the wire; if not it may still arrive, or already has.
CallFails(lost) ==
  /\ caller = "waiting"
  /\ failures < MaxFailures
  /\ failures' = failures + 1
  /\ IF lost THEN ~arrived /\ wire' = Front(wire, Len(wire) - 1)
             ELSE UNCHANGED wire
  /\ pending' = 0
  /\ arrived' = FALSE
  /\ caller' = "exporting"
  /\ UNCHANGED <<emitterVars, held, collected, given_up>>

\* Mutation of ExportRaises: the exception is swallowed, the answer empty.
ExportRaisesSwallowed(lost) ==
  /\ CallFails(lost)
  /\ receipts' = Append(receipts, BatchReceipt(pending, "SUCCESS"))

\* The transport raises: connection refused, or the ten seconds passed.
ExportRaises(lost) ==
  /\ CallFails(lost)
  /\ receipts' = Append(receipts, BatchReceipt(0, "FAILURE"))

\* The transport answers FAILURE and no "accepted": the receipt counts the
\* spans that were sent all the same, whatever became of them.
AnswersFailure(lost) ==
  /\ CallFails(lost)
  /\ receipts' = Append(receipts, BatchReceipt(pending, "FAILURE"))

\* Stamping raises, whatever the transport did: the key in the environment is
\* not an EC key.  The caller gets an exception and no receipt.
ReceiptRaises(lost) ==
  /\ CallFails(lost)
  /\ UNCHANGED receipts

\* After a failure the caller may drop what it holds: no one keeps a copy.
GiveUp ==
  /\ caller = "exporting"
  /\ failures > 0
  /\ given_up' = given_up \cup Numbers(held)
  /\ held' = <<>>
  /\ caller' = "idle"
  /\ UNCHANGED <<emitterVars, pending, wire, arrived, collected, receipts, failures>>

Next ==
  \/ Emit
  \/ AggregateNothing
  \/ ReadLeaves
  \/ SignLeaves
  \/ CountBatch
  \/ ListSpans
  \/ DrainRender
  \/ DrainClear
  \/ \E k \in 1..Len(held) : Export(k)
  \/ \E i \in 1..Len(wire) : Ingest(i)
  \/ ExportReturns
  \/ \E lost \in BOOLEAN : ExportRaises(lost) \/ AnswersFailure(lost) \/ ReceiptRaises(lost)
  \/ GiveUp

Spec == Init /\ [][Next]_vars
----------------------------------------------------------------------------
Ids(spans)    == [i \in DOMAIN spans |-> spans[i].span_id]
Leaves(spans) == [i \in DOMAIN spans |-> spans[i].receipt_hash]

\* The spans of a list that have one of these ids, in the list's order.
WithIds(spans, ids) ==
  LET kept[i \in 0..Len(spans)] ==
        IF i = 0 THEN <<>>
        ELSE IF spans[i].span_id \in ids THEN Append(kept[i - 1], spans[i])
        ELSE kept[i - 1]
  IN  kept[Len(spans)]

\* The spans of an aggregate that the collector holds, as it holds them.
Fetched(agg) == WithIds(collected, Numbers(agg.span_ids))

AcceptsPy(agg) == VerifyPy(Leaves(Fetched(agg)), agg, Signer)
AcceptsTs(agg) == VerifyTs(Leaves(Fetched(agg)), agg, Signer)

(* Every span emitted is still batched, held by the caller, in the         *)
(* collector, or was given up after a failed export: the one other way to  *)
(* lose a span is to emit it between the two statements of drain.          *)
EverySpanAccounted ==
  1..emitted = Numbers(batch) \cup Numbers(held)
                 \cup Numbers(Ids(collected)) \cup given_up \cup cleared

\* What the receipts stamped for successful exports say was accepted.
AcceptedSoFar ==
  LET sum[i \in 0..Len(receipts)] ==
        IF i = 0 THEN 0
        ELSE IF receipts[i].code = "SUCCESS" THEN sum[i - 1] + receipts[i].accepted
        ELSE sum[i - 1]
  IN  sum[Len(receipts)]

(* The batch receipts of successful exports together never claim more      *)
(* spans than the collector ingested, retries, lost calls and late         *)
(* arrivals included (otlp_bridge.py line 193: "honest failure, no fake    *)
(* success").  Of receipts with code FAILURE it says nothing: if the       *)
(* transport answered, they count the spans sent as accepted (line 196).   *)
ReceiptsAreBacked == AcceptedSoFar <= Cardinality(Numbers(Ids(collected)))

(* When no export failed, an aggregate that was read of one batch and      *)
(* whose spans all arrived verifies in both SDKs, whatever chunks they     *)
(* were sent in and whatever was emitted meanwhile (batch_aggregate, drain *)
(* and verify_batch agree on the order).                                   *)
CleanDeliveryVerifies ==
  failures = 0 =>
    \A agg \in published :
      Whole(agg) /\ Numbers(agg.span_ids) \subseteq Numbers(Ids(collected))
        => AcceptsPy(agg) /\ AcceptsTs(agg)

(* The same of every aggregate for mesh.py (mesh.py lines 233-234: "a      *)
(* verifier checks the whole batch with a single aggregate verification"). *)
OneCheckPerBatch ==
  failures = 0 =>
    \A agg \in published :
      Numbers(agg.span_ids) \subseteq Numbers(Ids(collected)) => AcceptsPy(agg)

(* What mesh.ts accepts for an aggregate that was read of one batch, as    *)
(* its own always are, is the aggregated list itself: no span missing,     *)
(* repeated or moved, although exports are retried and arrive late.        *)
TsAcceptsExactly ==
  \A agg \in published : Whole(agg) /\ AcceptsTs(agg) => Ids(Fetched(agg)) = agg.span_ids

(* What mesh.py accepts has every span under the root, in order, at least  *)
(* once, whatever was emitted while the batch was read: retries can add    *)
(* copies but never hide a missing span.                                   *)
PyMissesNothing ==
  \A agg \in published :
    AcceptsPy(agg) =>
      LET ids == Ids(Fetched(agg)) IN
        /\ Len(ids) >= Len(agg.leaves)
        /\ Front(ids, Len(agg.leaves)) = agg.leaves

(* The same for mesh.py as for mesh.ts: "confirm the aggregate BLS         *)
(* signature covers exactly those receipt hashes" (mesh.py lines 272-273). *)
PyAcceptsExactly ==
  \A agg \in published : Whole(agg) /\ AcceptsPy(agg) => Ids(Fetched(agg)) = agg.span_ids

(* The only spans that leave the emitter without a root over them are      *)
(* those emitted after batch_aggregate read its leaves and before the      *)
(* drain that follows, listed in the aggregate or not.                     *)
ShippedSpansCovered ==
  \A n \in Numbers(held) \cup Numbers(Ids(collected)) :
    n \notin late => \E agg \in published : n \in Numbers(agg.leaves)
=============================================================================
