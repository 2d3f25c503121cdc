------------------------ MODULE MeshTelemetryProofs -------------------------
(***************************************************************************)
(* The six invariants of the span pipeline hold in every reachable state,  *)
(* for any number of spans, drains, chunks, failures and arrivals.         *)
(*                                                                         *)
(* None is inductive.  EverySpanAccounted says nothing of the requests on  *)
(* the wire, which may be of any age, nor of the request a caller is       *)
(* waiting for, whose arrival lets it forget the spans (CallUnderWay); nor *)
(* of what is in the batch between drain's two statements (CallerHolds).   *)
(* ShippedSpansCovered says nothing of the spans a drain is about to take. *)
(* ReceiptsAreBacked needs the sum of the successful exports' receipts to  *)
(* be the count of the spans whose export returned, so that no span is     *)
(* counted twice (Order, Settled, Honest).  What a verifier accepts rests  *)
(* on the Merkle tree: lists with one root agree where both have an entry, *)
(* and have the same entries (SameRoot), by induction from the root down;  *)
(* and on the list under a root being increasing, and the whole aggregate  *)
(* made of it if its ids are that list (Sealed), as batch_aggregate's      *)
(* reads follow a batch that only grows (ReadInOrder).  A clean delivery   *)
(* also needs the order of arrival (Flow).                                 *)
(***************************************************************************)
EXTENDS MeshTelemetry, FiniteSetTheorems, SequenceTheorems, TLAPS

Spans ==
  {s \in [span_id : Nat, receipt_hash : Nat, start_ns : Nat] : s.receipt_hash = s.span_id}

SpanIds(spans) == Numbers(Ids(spans))

Types ==
  /\ emitted \in Nat /\ batch \in Seq(Nat) /\ held \in Seq(Nat)
  /\ caller \in Reading \cup {"idle", "aggregated", "draining", "exporting", "waiting"}
  /\ local \in [leaves : Seq(Nat), sigs : Nat, count : Nat]
  /\ pending \in Nat /\ wire \in Seq(Seq(Spans)) /\ collected \in Seq(Spans)

\* The caller holds nothing until it drains; while it does, what is in the
\* batch it has rendered, or loses.
CallerHolds ==
  /\ caller \in Reading \cup {"idle", "aggregated"} => held = <<>>
  /\ caller = "draining" => Numbers(batch) \subseteq Numbers(held) \cup cleared

\* Nothing travels that was not emitted, however old the request.
WireIsEmitted == \A i \in DOMAIN wire : SpanIds(wire[i]) \subseteq 1..emitted

\* The spans of the awaited request are in the collector, or are the last
\* request of the wire.
CallUnderWay ==
  caller = "waiting" =>
    /\ pending \in 1..Len(held)
    /\ IF arrived THEN Numbers(Front(held, pending)) \subseteq SpanIds(collected)
       ELSE wire # <<>> /\ SpanIds(wire[Len(wire)]) = Numbers(Front(held, pending))

Accounting ==
  /\ Types
  /\ EverySpanAccounted
  /\ CallerHolds
  /\ WireIsEmitted
  /\ CallUnderWay

Covered(n) == n \in late \/ \E agg \in published : n \in Numbers(agg.leaves)

\* Whatever has left the batch, or is about to, is covered.
Coverage ==
  /\ \A n \in Numbers(held) \cup SpanIds(collected) : Covered(n)
  /\ \A i \in DOMAIN wire : \A n \in SpanIds(wire[i]) : Covered(n)
  /\ caller \in Reading =>
       \A n \in Numbers(batch) : n \in late \/ n \in Numbers(local.leaves)
  /\ caller = "aggregated" => \A n \in Numbers(batch) : Covered(n)

\* The steps of batch_aggregate.
Aggregating ==
  AggregateNothing \/ ReadLeaves \/ SignLeaves \/ CountBatch \/ ListSpans
----------------------------------------------------------------------------
(* What the numbers of a sequence are when one is appended.                *)
LEMMA NumbersAppend ==
  ASSUME NEW s \in Seq(Nat), NEW e \in Nat
  PROVE  Append(s, e) \in Seq(Nat) /\ Numbers(Append(s, e)) = Numbers(s) \cup {e}
<1>1. /\ Append(s, e) \in Seq(Nat) /\ DOMAIN Append(s, e) = 1..(Len(s) + 1)
      /\ DOMAIN s = 1..Len(s) /\ Len(s) \in Nat
      /\ \A i \in 1..Len(s) : Append(s, e)[i] = s[i]
      /\ Append(s, e)[Len(s) + 1] = e
  OBVIOUS
<1>2. Numbers(Append(s, e)) \subseteq Numbers(s) \cup {e}
  BY <1>1 DEF Numbers
<1>3. Numbers(s) \subseteq Numbers(Append(s, e))
  BY <1>1 DEF Numbers
<1>4. e \in Numbers(Append(s, e))
  BY <1>1 DEF Numbers
<1> QED
  BY <1>1, <1>2, <1>3, <1>4

(* Cutting a sequence in two loses none of its numbers.                    *)
LEMMA NumbersCut ==
  ASSUME NEW s \in Seq(Nat), NEW k \in 0..Len(s)
  PROVE  /\ Front(s, k) \in Seq(Nat) /\ After(s, k) \in Seq(Nat)
         /\ Len(Front(s, k)) = k /\ Len(After(s, k)) = Len(s) - k
         /\ Numbers(s) = Numbers(Front(s, k)) \cup Numbers(After(s, k))
<1>1. /\ Front(s, k) \in Seq(Nat) /\ Len(Front(s, k)) = k
      /\ \A i \in 1..k : Front(s, k)[i] = s[i]
  BY DEF Front
<1>2. /\ After(s, k) \in Seq(Nat) /\ Len(After(s, k)) = Len(s) - k
      /\ \A i \in 1..(Len(s) - k) : After(s, k)[i] = s[k + i]
  BY DEF After
<1>3. DOMAIN s = 1..Len(s) /\ DOMAIN Front(s, k) = 1..k /\ DOMAIN After(s, k) = 1..(Len(s) - k)
  BY <1>1, <1>2
<1>4. Numbers(Front(s, k)) \subseteq Numbers(s)
  BY <1>1, <1>3 DEF Numbers
<1>5. Numbers(After(s, k)) \subseteq Numbers(s)
  <2>1. ASSUME NEW i \in 1..(Len(s) - k) PROVE After(s, k)[i] \in Numbers(s)
    <3>1. k + i \in DOMAIN s /\ After(s, k)[i] = s[k + i]
      BY <1>2, <1>3
    <3> QED
      BY <3>1 DEF Numbers
  <2> QED
    BY <1>3, <2>1 DEF Numbers
<1>6. ASSUME NEW i \in 1..Len(s)
      PROVE  s[i] \in Numbers(Front(s, k)) \cup Numbers(After(s, k))
  <2>1. CASE i <= k
    BY <1>1, <1>3, <2>1 DEF Numbers
  <2>2. CASE i > k
    <3>1. i - k \in DOMAIN After(s, k) /\ After(s, k)[i - k] = s[i]
      BY <1>2, <1>3, <2>2
    <3> QED
      BY <3>1 DEF Numbers
  <2> QED
    BY <2>1, <2>2
<1>7. Numbers(s) \subseteq Numbers(Front(s, k)) \cup Numbers(After(s, k))
  BY <1>3, <1>6 DEF Numbers
<1> QED
  BY <1>1, <1>2, <1>4, <1>5, <1>7

(* What is collected after a request has been ingested.                    *)
LEMMA SpanIdsConcat ==
  ASSUME NEW s \in Seq(Spans), NEW t \in Seq(Spans)
  PROVE  s \o t \in Seq(Spans) /\ SpanIds(s \o t) = SpanIds(s) \cup SpanIds(t)
<1>1. /\ s \o t \in Seq(Spans) /\ Len(s \o t) = Len(s) + Len(t)
      /\ \A i \in 1..Len(s) : (s \o t)[i] = s[i]
      /\ \A i \in 1..Len(t) : (s \o t)[Len(s) + i] = t[i]
  OBVIOUS
<1>2. ASSUME NEW q \in Seq(Spans)
      PROVE  \A n : n \in SpanIds(q) <=> \E i \in 1..Len(q) : n = q[i].span_id
  <2>1. DOMAIN q = 1..Len(q)
    OBVIOUS
  <2> QED
    BY <2>1 DEF SpanIds, Ids, Numbers
<1>3. ASSUME NEW n \in SpanIds(s \o t) PROVE n \in SpanIds(s) \cup SpanIds(t)
  <2>1. PICK i \in 1..(Len(s) + Len(t)) : n = (s \o t)[i].span_id
    <3> DEFINE q == s \o t
    <3>1. q \in Seq(Spans) /\ n \in SpanIds(q) /\ Len(q) = Len(s) + Len(t)
      BY <1>1, <1>3
    <3> HIDE DEF q
    <3>2. \E i \in 1..Len(q) : n = q[i].span_id
      BY <1>2, <3>1
    <3> QED
      BY <3>1, <3>2 DEF q
  <2>2. CASE i <= Len(s)
    BY <1>1, <1>2, <2>1, <2>2
  <2>3. CASE i > Len(s)
    <3>1. i - Len(s) \in 1..Len(t) /\ (s \o t)[i] = t[i - Len(s)]
      BY <1>1, <2>3
    <3> QED
      BY <1>2, <2>1, <3>1
  <2> QED
    BY <2>2, <2>3
<1>4. ASSUME NEW n \in SpanIds(s) PROVE n \in SpanIds(s \o t)
  <2>1. PICK i \in 1..Len(s) : n = s[i].span_id
    BY <1>2, <1>4
  <2>2. i \in 1..Len(s \o t) /\ n = (s \o t)[i].span_id
    BY <1>1, <2>1
  <2> QED
    BY <1>1, <1>2, <2>2
<1>5. ASSUME NEW n \in SpanIds(t) PROVE n \in SpanIds(s \o t)
  <2>1. PICK i \in 1..Len(t) : n = t[i].span_id
    BY <1>2, <1>5
  <2>2. Len(s) + i \in 1..Len(s \o t) /\ n = (s \o t)[Len(s) + i].span_id
    BY <1>1, <2>1
  <2> QED
    BY <1>1, <1>2, <2>2
<1> QED
  BY <1>1, <1>3, <1>4, <1>5

(* The request export() puts on the wire carries the spans it was given.   *)
LEMMA RequestCarries ==
  ASSUME NEW s \in Seq(Nat), NEW k \in 1..Len(s)
  PROVE  LET request == [i \in 1..k |-> ToOtlp(ToOtel(s[i]))]
         IN  request \in Seq(Spans) /\ SpanIds(request) = Numbers(Front(s, k))
<1> DEFINE request == [i \in 1..k |-> ToOtlp(ToOtel(s[i]))]
<1>1. ASSUME NEW n \in Nat PROVE ToOtlp(ToOtel(n)) \in Spans /\ ToOtlp(ToOtel(n)).span_id = n
  <2>1. ToOtel(n) = [span_id |-> n, receipt_hash |-> n, start_time |-> n]
    BY DEF ToOtel
  <2>2. "start_ns" \notin DOMAIN ToOtel(n)
    BY <2>1
  <2>3. ToOtlp(ToOtel(n)) = [span_id |-> n, receipt_hash |-> n, start_ns |-> 0]
    BY <2>1, <2>2 DEF ToOtlp
  <2> QED
    BY <2>3 DEF Spans
<1>2. k \in Nat /\ \A i \in 1..k : s[i] \in Nat
  OBVIOUS
<1>3. /\ request \in Seq(Spans) /\ DOMAIN request = 1..k
      /\ \A i \in 1..k : request[i].span_id = s[i]
  BY <1>1, <1>2
<1>4. Front(s, k) \in Seq(Nat) /\ DOMAIN Front(s, k) = 1..k /\ \A i \in 1..k : Front(s, k)[i] = s[i]
  BY DEF Front
<1> HIDE DEF request
<1>5. DOMAIN Ids(request) = 1..k /\ \A i \in 1..k : Ids(request)[i] = Front(s, k)[i]
  BY <1>3, <1>4 DEF Ids
<1>6. SpanIds(request) = Numbers(Front(s, k))
  BY <1>4, <1>5 DEF SpanIds, Numbers
<1> QED
  BY <1>3, <1>6 DEF request

(* The wire after a request was taken from it: the others, in order.       *)
LEMMA WireWithout ==
  ASSUME NEW w \in Seq(Seq(Spans)), NEW i \in 1..Len(w)
  PROVE  /\ Without(w, i) \in Seq(Seq(Spans)) /\ Len(Without(w, i)) = Len(w) - 1
         /\ \A j \in 1..(Len(w) - 1) : \E k \in 1..Len(w) : Without(w, i)[j] = w[k]
         /\ i < Len(w) => Without(w, i)[Len(w) - 1] = w[Len(w)]
<1> DEFINE Requests == Seq(Spans)
           f == Front(w, i - 1)
           a == After(w, i)
<1>0. w \in Seq(Requests) /\ Len(w) \in Nat /\ i \in Nat /\ 1 <= i /\ i <= Len(w)
  OBVIOUS
<1> HIDE DEF Requests
<1>1. /\ f \in Seq(Requests) /\ Len(f) = i - 1
      /\ \A j \in 1..(i - 1) : f[j] = w[j]
  BY <1>0 DEF Front
<1>2. /\ a \in Seq(Requests) /\ Len(a) = Len(w) - i
      /\ \A j \in 1..(Len(w) - i) : a[j] = w[i + j]
  BY <1>0 DEF After
<1>3. Without(w, i) = f \o a
  BY DEF Without
<1> HIDE DEF f, a
<1>4. /\ f \o a \in Seq(Requests) /\ Len(f \o a) = Len(f) + Len(a)
      /\ \A j \in 1..Len(f) : (f \o a)[j] = f[j]
      /\ \A j \in 1..Len(a) : (f \o a)[Len(f) + j] = a[j]
  <2>1. f \in Seq(Requests) /\ a \in Seq(Requests)
    BY <1>1, <1>2
  <2>2. f \o a \in Seq(Requests) /\ Len(f \o a) = Len(f) + Len(a)
    BY <2>1
  <2>3. \A j \in 1..Len(f) : (f \o a)[j] = f[j]
    BY <2>1
  <2>4. \A j \in 1..Len(a) : (f \o a)[Len(f) + j] = a[j]
    BY <2>1
  <2> QED
    BY <2>2, <2>3, <2>4
<1>5. ASSUME NEW j \in 1..(i - 1) PROVE (f \o a)[j] = w[j]
  BY <1>1, <1>4
<1>6. ASSUME NEW j \in i..(Len(w) - 1) PROVE (f \o a)[j] = w[j + 1]
  <2>1. /\ j - (i - 1) \in 1..Len(a) /\ Len(f) + (j - (i - 1)) = j
        /\ i + (j - (i - 1)) = j + 1
    BY <1>0, <1>1, <1>2
  <2>2. (f \o a)[j] = a[j - (i - 1)]
    BY <1>4, <2>1
  <2>3. a[j - (i - 1)] = w[j + 1]
    BY <1>2, <2>1
  <2> QED
    BY <2>2, <2>3
<1>7. ASSUME NEW j \in 1..(Len(w) - 1)
      PROVE  \E k \in 1..Len(w) : (f \o a)[j] = w[k]
  <2>1. CASE j < i
    <3>1. j \in 1..(i - 1) /\ j \in 1..Len(w)
      BY <1>0, <2>1
    <3> QED
      BY <1>5, <3>1
  <2>2. CASE j >= i
    <3>1. j \in i..(Len(w) - 1) /\ j + 1 \in 1..Len(w)
      BY <1>0, <2>2
    <3> QED
      BY <1>6, <3>1
  <2>3. j < i \/ j >= i
    BY <1>0
  <2> QED
    BY <2>1, <2>2, <2>3, Zenon
<1>8. i < Len(w) => (f \o a)[Len(w) - 1] = w[Len(w)]
  <2> SUFFICES ASSUME i < Len(w) PROVE (f \o a)[Len(w) - 1] = w[Len(w)]
    OBVIOUS
  <2>1. Len(w) - 1 \in i..(Len(w) - 1) /\ (Len(w) - 1) + 1 = Len(w)
    BY <1>0
  <2> QED
    BY <1>6, <2>1
<1>9. (f \o a) \in Seq(Requests) /\ Len(f \o a) = Len(w) - 1
  BY <1>0, <1>1, <1>2, <1>4
<1> QED
  BY <1>3, <1>7, <1>8, <1>9 DEF Requests
----------------------------------------------------------------------------
LEMMA InitAccounting == Init => Accounting
<1> SUFFICES ASSUME Init PROVE Accounting
  OBVIOUS
<1>1. Numbers(<<>>) = {} /\ SpanIds(<<>>) = {}
  BY DEF Numbers, SpanIds, Ids
<1>2. Types
  BY DEF Init, Types, NoLocals, Reading
<1>3. EverySpanAccounted /\ CallerHolds
  BY <1>1 DEF Init, EverySpanAccounted, CallerHolds, SpanIds
<1>4. WireIsEmitted /\ CallUnderWay
  BY DEF Init, WireIsEmitted, CallUnderWay
<1> QED
  BY <1>2, <1>3, <1>4 DEF Accounting

LEMMA EmitAccounting ==
  ASSUME Accounting, Emit
  PROVE  Accounting'
<1> USE DEF Accounting, Emit
<1>1. batch' \in Seq(Nat) /\ Numbers(batch') = Numbers(batch) \cup {emitted + 1}
  BY NumbersAppend DEF Types
<1>2. cleared' = (IF caller = "draining" THEN cleared \cup {emitted + 1} ELSE cleared)
  OBVIOUS
<1>3. 1..emitted' = 1..emitted \cup {emitted + 1}
  <2>1. emitted \in Nat /\ emitted' = emitted + 1
    BY DEF Types
  <2> HIDE DEF Accounting, Emit
  <2> QED
    BY <2>1
<1>4. Types'
  BY <1>1 DEF Types
<1>5. EverySpanAccounted'
  BY <1>1, <1>2, <1>3 DEF EverySpanAccounted
<1>6. CallerHolds'
  BY <1>1, <1>2 DEF CallerHolds
<1>7. WireIsEmitted'
  BY <1>3 DEF WireIsEmitted
<1>8. CallUnderWay'
  BY DEF CallUnderWay
<1> QED
  BY <1>4, <1>5, <1>6, <1>7, <1>8

(* batch_aggregate reads, and leaves the spans where they are.             *)
LEMMA AggregatingReads ==
  ASSUME Types, Aggregating
  PROVE  /\ UNCHANGED <<emitted, batch, late, cleared, exportVars>>
         /\ caller \in Reading \cup {"idle"} /\ caller' \in Reading \cup {"aggregated"}
         /\ local' \in [leaves : Seq(Nat), sigs : Nat, count : Nat]
<1> USE DEF Types, Reading, NoLocals
<1>0. PICK n \in Nat : n = Len(batch)
  <2>1. batch \in Seq(Nat)
    OBVIOUS
  <2>2. Len(batch) \in Nat
    BY ONLY <2>1
  <2> QED
    BY ONLY <2>2
<1>1. CASE AggregateNothing
  BY <1>1 DEF AggregateNothing
<1>2. CASE ReadLeaves
  BY <1>2 DEF ReadLeaves
<1>3. CASE SignLeaves
  <2>1. local' = [local EXCEPT !.sigs = n]
    BY <1>0, <1>3 DEF SignLeaves
  <2>2. local' \in [leaves : Seq(Nat), sigs : Nat, count : Nat]
    BY <1>0, <2>1
  <2> QED
    BY <1>3, <2>2 DEF SignLeaves
<1>4. CASE CountBatch
  <2>1. local' = [local EXCEPT !.count = n]
    BY <1>0, <1>4 DEF CountBatch
  <2>2. local' \in [leaves : Seq(Nat), sigs : Nat, count : Nat]
    BY <1>0, <2>1
  <2> QED
    BY <1>4, <2>2 DEF CountBatch
<1>5. CASE ListSpans
  BY <1>5 DEF ListSpans
<1> QED
  BY <1>1, <1>2, <1>3, <1>4, <1>5 DEF Aggregating

LEMMA AggregateAccounting ==
  ASSUME Accounting, Aggregating
  PROVE  Accounting'
<1>1. /\ UNCHANGED <<emitted, batch, late, cleared, exportVars>>
      /\ caller \in Reading \cup {"idle"} /\ caller' \in Reading \cup {"aggregated"}
      /\ local' \in [leaves : Seq(Nat), sigs : Nat, count : Nat]
  BY AggregatingReads DEF Accounting
<1> QED
  BY <1>1 DEF Accounting, Types, EverySpanAccounted, CallerHolds, WireIsEmitted, CallUnderWay,
              Reading, exportVars

LEMMA DrainAccounting ==
  ASSUME Accounting, DrainRender \/ DrainClear
  PROVE  Accounting'
<1> USE DEF Accounting
<1>1. Numbers(<<>>) = {} /\ <<>> \in Seq(Nat)
  BY DEF Numbers
<1>2. CASE DrainRender
  <2>1. /\ caller = "aggregated" /\ held = <<>> /\ held' = batch /\ caller' = "draining"
        /\ UNCHANGED <<emitted, batch, local, published, late, cleared, pending, wire, arrived,
                       collected, receipts, given_up, failures>>
    BY <1>2 DEF DrainRender, CallerHolds, emitterVars
  <2>2. Types'
    BY <2>1 DEF Types
  <2>3. EverySpanAccounted' /\ CallerHolds'
    BY <1>1, <2>1 DEF EverySpanAccounted, CallerHolds, Reading
  <2>4. WireIsEmitted' /\ CallUnderWay'
    BY <2>1 DEF WireIsEmitted, CallUnderWay
  <2> QED
    BY <2>2, <2>3, <2>4
<1>3. CASE DrainClear
  <2>1. /\ caller = "draining" /\ batch' = <<>>
        /\ caller' = (IF held = <<>> THEN "idle" ELSE "exporting")
        /\ UNCHANGED <<emitted, local, published, late, cleared, held, pending, wire, arrived,
                       collected, receipts, given_up, failures>>
    BY <1>3 DEF DrainClear
  <2>2. Types'
    BY <1>1, <2>1 DEF Types
  <2>3. EverySpanAccounted' /\ CallerHolds'
    BY <1>1, <2>1 DEF EverySpanAccounted, CallerHolds, Reading
  <2>4. WireIsEmitted' /\ CallUnderWay'
    BY <2>1 DEF WireIsEmitted, CallUnderWay
  <2> QED
    BY <2>2, <2>3, <2>4
<1> QED
  BY <1>2, <1>3

LEMMA ExportAccounting ==
  ASSUME Accounting, NEW k \in 1..Len(held), Export(k)
  PROVE  Accounting'
<1> DEFINE request == [i \in 1..k |-> ToOtlp(ToOtel(held[i]))]
<1>1. /\ caller' = "waiting" /\ pending' = k /\ arrived' = FALSE
      /\ wire' = Append(wire, request)
      /\ UNCHANGED <<emitted, batch, local, published, late, cleared, held, collected, receipts,
                     given_up, failures>>
  BY DEF Export, emitterVars
<1>2. request \in Seq(Spans) /\ SpanIds(request) = Numbers(Front(held, k))
  BY RequestCarries DEF Accounting, Types
<1> HIDE DEF request
<1>3. SpanIds(request) \subseteq 1..emitted
  BY <1>2, NumbersCut DEF Accounting, Types, EverySpanAccounted
<1>4. /\ wire' \in Seq(Seq(Spans)) /\ Len(wire') = Len(wire) + 1 /\ wire' # <<>>
      /\ \A i \in 1..Len(wire) : wire'[i] = wire[i]
      /\ wire'[Len(wire')] = request
      /\ DOMAIN wire' = 1..Len(wire') /\ DOMAIN wire = 1..Len(wire)
  <2> DEFINE Requests == Seq(Spans)
  <2>1. wire \in Seq(Requests) /\ request \in Requests
    BY <1>2 DEF Accounting, Types
  <2> HIDE DEF Requests
  <2>2. /\ wire' \in Seq(Requests) /\ Len(wire') = Len(wire) + 1 /\ Len(wire) \in Nat
        /\ \A i \in 1..Len(wire) : wire'[i] = wire[i]
        /\ wire'[Len(wire) + 1] = request
    BY <1>1, <2>1
  <2>3. DOMAIN wire' = 1..Len(wire') /\ DOMAIN wire = 1..Len(wire) /\ wire' # <<>>
    BY <2>1, <2>2
  <2> QED
    BY <2>2, <2>3 DEF Requests
<1>5. Types'
  BY <1>1, <1>4 DEF Accounting, Types
<1>6. EverySpanAccounted' /\ CallerHolds'
  BY <1>1 DEF Accounting, EverySpanAccounted, CallerHolds, Reading
<1>7. WireIsEmitted'
  BY <1>1, <1>3, <1>4 DEF Accounting, Types, WireIsEmitted
<1>8. CallUnderWay'
  BY <1>1, <1>2, <1>4 DEF CallUnderWay
<1> QED
  BY <1>5, <1>6, <1>7, <1>8 DEF Accounting

LEMMA IngestAccounting ==
  ASSUME Accounting, NEW i \in 1..Len(wire), Ingest(i)
  PROVE  Accounting'
<1> USE DEF Accounting
<1>1. /\ collected' = collected \o wire[i] /\ wire' = Without(wire, i)
      /\ arrived' = (arrived \/ (caller = "waiting" /\ i = Len(wire)))
      /\ UNCHANGED <<emitted, batch, local, published, late, cleared, caller, held, pending,
                     receipts, given_up, failures>>
  BY DEF Ingest, emitterVars
<1>2. wire[i] \in Seq(Spans) /\ DOMAIN wire = 1..Len(wire) /\ Len(wire) \in Nat
  BY DEF Types
<1>3. collected' \in Seq(Spans) /\ SpanIds(collected') = SpanIds(collected) \cup SpanIds(wire[i])
  BY <1>1, <1>2, SpanIdsConcat DEF Types
<1>4. /\ wire' \in Seq(Seq(Spans)) /\ Len(wire') = Len(wire) - 1
      /\ \A j \in 1..(Len(wire) - 1) : \E k \in 1..Len(wire) : wire'[j] = wire[k]
      /\ i < Len(wire) => wire'[Len(wire) - 1] = wire[Len(wire)]
  BY <1>1, WireWithout DEF Types
<1>5. Types'
  BY <1>1, <1>3, <1>4 DEF Types
<1>6. SpanIds(wire[i]) \subseteq 1..emitted
  BY <1>2 DEF WireIsEmitted
<1>7. EverySpanAccounted'
  BY <1>1, <1>3, <1>6 DEF EverySpanAccounted, SpanIds
<1>8. CallerHolds'
  BY <1>1 DEF CallerHolds
<1>9. WireIsEmitted'
  <2>1. DOMAIN wire' = 1..(Len(wire) - 1)
    BY <1>4
  <2> QED
    BY <1>1, <1>2, <1>4, <2>1 DEF WireIsEmitted
<1>10. CallUnderWay'
  <2> SUFFICES ASSUME caller' = "waiting" PROVE CallUnderWay'
    BY DEF CallUnderWay
  <2>1. caller = "waiting" /\ pending \in 1..Len(held)
    BY <1>1 DEF CallUnderWay
  <2>2. CASE arrived
    BY <1>1, <1>3, <2>1, <2>2 DEF CallUnderWay
  <2>3. CASE ~arrived /\ i = Len(wire)
    BY <1>1, <1>3, <2>1, <2>3 DEF CallUnderWay
  <2>4. CASE ~arrived /\ i # Len(wire)
    <3>0. ~arrived'
      BY <1>1, <2>4, Zenon
    <3>1. i < Len(wire)
      <4>1. i # Len(wire)
        BY <2>4, Zenon
      <4>2. Len(wire) \in Nat /\ i \in 1..Len(wire)
        BY <1>2
      <4> HIDE DEF Accounting
      <4> QED
        BY <4>1, <4>2
    <3>2. wire' # <<>> /\ wire'[Len(wire')] = wire[Len(wire)]
      BY <1>2, <1>4, <3>1
    <3> QED
      BY <1>1, <2>1, <2>4, <3>0, <3>2 DEF CallUnderWay
  <2> QED
    BY <2>2, <2>3, <2>4
<1> QED
  BY <1>5, <1>7, <1>8, <1>9, <1>10

LEMMA ExportReturnsAccounting ==
  ASSUME Accounting, ExportReturns
  PROVE  Accounting'
<1> USE DEF Accounting
<1>1. /\ caller = "waiting" /\ arrived /\ held' = After(held, pending) /\ pending' = 0
      /\ caller' = (IF pending = Len(held) THEN "idle" ELSE "exporting")
      /\ UNCHANGED <<emitted, batch, local, published, late, cleared, wire, collected, given_up>>
  BY DEF ExportReturns, emitterVars
<1>2. pending \in 1..Len(held) /\ Numbers(Front(held, pending)) \subseteq SpanIds(collected)
  BY <1>1 DEF CallUnderWay
<1>3. pending \in 0..Len(held) /\ held \in Seq(Nat)
  BY <1>2 DEF Types
<1>4. /\ held' \in Seq(Nat) /\ Len(held') = Len(held) - pending
      /\ Numbers(held) = Numbers(Front(held, pending)) \cup Numbers(held')
  BY <1>1, <1>3, NumbersCut
<1>5. Types'
  BY <1>1, <1>4 DEF Types
<1>6. EverySpanAccounted'
  BY <1>1, <1>2, <1>4 DEF EverySpanAccounted, SpanIds
<1>7. CallerHolds'
  <2>1. caller' = "idle" => held' = <<>>
    BY <1>1, <1>3, <1>4
  <2> QED
    BY <1>1, <2>1 DEF CallerHolds, Reading
<1>8. WireIsEmitted' /\ CallUnderWay'
  BY <1>1 DEF WireIsEmitted, CallUnderWay
<1> QED
  BY <1>5, <1>6, <1>7, <1>8

LEMMA CallFailsAccounting ==
  ASSUME Accounting, NEW lost \in BOOLEAN, CallFails(lost)
  PROVE  Accounting'
<1> USE DEF Accounting
<1>1. /\ caller = "waiting" /\ caller' = "exporting" /\ pending' = 0
      /\ lost => ~arrived /\ wire' = Front(wire, Len(wire) - 1)
      /\ ~lost => wire' = wire
      /\ UNCHANGED <<emitted, batch, local, published, late, cleared, held, collected, given_up>>
  BY DEF CallFails, emitterVars
<1>2. /\ wire' \in Seq(Seq(Spans)) /\ DOMAIN wire' \subseteq DOMAIN wire
      /\ \A j \in DOMAIN wire' : wire'[j] = wire[j]
  <2>1. CASE lost
    <3>1. wire # <<>> /\ wire \in Seq(Seq(Spans)) /\ wire' = SubSeq(wire, 1, Len(wire) - 1)
      BY <1>1, <2>1 DEF CallUnderWay, Types, Front
    <3> QED
      BY <3>1
  <2>2. CASE ~lost
    BY <1>1, <2>2 DEF Types
  <2> QED
    BY <2>1, <2>2
<1>3. Types'
  BY <1>1, <1>2 DEF Types
<1>4. EverySpanAccounted' /\ CallerHolds' /\ CallUnderWay'
  BY <1>1 DEF EverySpanAccounted, CallerHolds, CallUnderWay, Reading
<1>5. WireIsEmitted'
  BY <1>1, <1>2 DEF WireIsEmitted
<1> QED
  BY <1>3, <1>4, <1>5

LEMMA GiveUpAccounting ==
  ASSUME Accounting, GiveUp
  PROVE  Accounting'
<1> USE DEF Accounting
<1>1. /\ given_up' = given_up \cup Numbers(held) /\ held' = <<>> /\ caller' = "idle"
      /\ UNCHANGED <<emitted, batch, local, published, late, cleared, pending, wire, arrived, collected>>
  BY DEF GiveUp, emitterVars
<1>2. Numbers(<<>>) = {} /\ <<>> \in Seq(Nat)
  BY DEF Numbers
<1>3. Types'
  BY <1>1, <1>2 DEF Types
<1>4. EverySpanAccounted' /\ CallerHolds'
  BY <1>1, <1>2 DEF EverySpanAccounted, CallerHolds, Reading
<1>5. WireIsEmitted' /\ CallUnderWay'
  BY <1>1 DEF WireIsEmitted, CallUnderWay
<1> QED
  BY <1>3, <1>4, <1>5

(* Accounting is inductive.                                                *)
LEMMA NextAccounting == Accounting /\ [Next]_vars => Accounting'
<1> SUFFICES ASSUME Accounting, [Next]_vars PROVE Accounting'
  OBVIOUS
<1>1. CASE Emit
  BY <1>1, EmitAccounting
<1>2. CASE Aggregating
  BY <1>2, AggregateAccounting
<1>3. CASE DrainRender \/ DrainClear
  BY <1>3, DrainAccounting
<1>4. ASSUME NEW k \in 1..Len(held), Export(k) PROVE Accounting'
  BY <1>4, ExportAccounting
<1>5. ASSUME NEW i \in 1..Len(wire), Ingest(i) PROVE Accounting'
  BY <1>5, IngestAccounting
<1>6. CASE ExportReturns
  BY <1>6, ExportReturnsAccounting
<1>7. ASSUME NEW lost \in BOOLEAN,
             ExportRaises(lost) \/ AnswersFailure(lost) \/ ReceiptRaises(lost)
      PROVE  Accounting'
  BY <1>7, CallFailsAccounting DEF ExportRaises, AnswersFailure, ReceiptRaises
<1>8. CASE GiveUp
  BY <1>8, GiveUpAccounting
<1>9. CASE UNCHANGED vars
  BY <1>9 DEF vars, emitterVars, exportVars, Accounting, Types, EverySpanAccounted, CallerHolds,
              WireIsEmitted, CallUnderWay
<1> QED
  BY <1>1, <1>2, <1>3, <1>4, <1>5, <1>6, <1>7, <1>8, <1>9 DEF Next, Aggregating

LEMMA SpecAccounting == Spec => []Accounting
  BY InitAccounting, NextAccounting, PTL DEF Spec

(* Every span emitted is batched, held, in the collector, given up after a *)
(* failure, or was emitted between the two statements of drain (emit,      *)
(* drain, export).                                                         *)
THEOREM SpecEverySpanAccounted == Spec => []EverySpanAccounted
<1>1. Accounting => EverySpanAccounted
  BY DEF Accounting
<1> QED
  BY <1>1, SpecAccounting, PTL
----------------------------------------------------------------------------
(* What is covered stays covered, but for the span that is emitted.        *)
LEMMA CoveredStays ==
  ASSUME late \subseteq late', published \subseteq published', NEW n, Covered(n)
  PROVE  Covered(n)'
BY DEF Covered

(* A step that moves spans on, and aggregates none, keeps the coverage.    *)
LEMMA MovingCoverage ==
  ASSUME Coverage, UNCHANGED <<late, published, batch, local>>,
         caller' = caller \/ caller' \notin Reading \cup {"aggregated"},
         \A n \in Numbers(held') \cup SpanIds(collected') : Covered(n),
         \A i \in DOMAIN wire' : \A n \in SpanIds(wire'[i]) : Covered(n)
  PROVE  Coverage'
<1>1. \A n : Covered(n) => Covered(n)'
  BY CoveredStays
<1>2. \A n \in Numbers(held)' \cup SpanIds(collected)' : Covered(n)'
  BY <1>1
<1>3. \A i \in DOMAIN wire' : \A n \in SpanIds(wire[i])' : Covered(n)'
  BY <1>1
<1>4. (caller = "aggregated")' => \A n \in Numbers(batch)' : Covered(n)'
  BY <1>1 DEF Coverage
<1>5. (caller \in Reading)' =>
        \A n \in Numbers(batch)' : n \in late' \/ n \in Numbers(local.leaves)'
  BY DEF Coverage, Reading
<1> QED
  BY <1>2, <1>3, <1>4, <1>5 DEF Coverage

(* Coverage is inductive, given the accounting.                            *)
LEMMA NextCoverage == Accounting /\ Coverage /\ [Next]_vars => Coverage'
<1> SUFFICES ASSUME Accounting, Coverage, [Next]_vars PROVE Coverage'
  OBVIOUS
<1>0. Types /\ CallerHolds /\ CallUnderWay
  BY DEF Accounting
<1>1. CASE Emit
  <2>0. PICK span : span = emitted + 1
    OBVIOUS
  <2>1. /\ Numbers(batch') = Numbers(batch) \cup {span}
        /\ late \subseteq late' /\ (caller \in Reading \cup {"aggregated"} => span \in late')
        /\ UNCHANGED <<local, published, caller, held, wire, collected>>
    BY <1>0, <1>1, <2>0, NumbersAppend DEF Emit, Types
  <2>2. \A n : Covered(n) => Covered(n)'
    BY <2>1, CoveredStays
  <2>3. caller = "aggregated" => Covered(span)'
    BY <2>1 DEF Covered
  <2>4. (caller = "aggregated")' => \A n \in Numbers(batch)' : Covered(n)'
    BY <2>1, <2>2, <2>3 DEF Coverage
  <2>5. \A n \in Numbers(held)' \cup SpanIds(collected)' : Covered(n)'
    BY <2>1, <2>2 DEF Coverage
  <2>6. \A i \in DOMAIN wire' : \A n \in SpanIds(wire[i])' : Covered(n)'
    BY <2>1, <2>2 DEF Coverage
  <2>7. (caller \in Reading)' =>
          \A n \in Numbers(batch)' : n \in late' \/ n \in Numbers(local.leaves)'
    BY <2>1 DEF Coverage
  <2> QED
    BY <2>4, <2>5, <2>6, <2>7 DEF Coverage
<1>2. CASE Aggregating
  <2>0. /\ UNCHANGED <<batch, late, held, wire, collected>>
        /\ caller' \in Reading \cup {"aggregated"}
    BY <1>0, <1>2, AggregatingReads DEF exportVars
  <2>1. published \subseteq published'
    BY <1>2 DEF Aggregating, AggregateNothing, ReadLeaves, SignLeaves, CountBatch, ListSpans
  <2>2. \A n : Covered(n) => Covered(n)'
    BY <2>0, <2>1, CoveredStays
  <2>3. \A n \in Numbers(held)' \cup SpanIds(collected)' : Covered(n)'
    BY <2>0, <2>2 DEF Coverage
  <2>4. \A i \in DOMAIN wire' : \A n \in SpanIds(wire[i])' : Covered(n)'
    BY <2>0, <2>2 DEF Coverage
  <2>5. (caller = "aggregated")' => \A n \in Numbers(batch)' : Covered(n)'
    <3>1. CASE AggregateNothing
      <4>1. Numbers(batch') = {}
        BY <3>1 DEF AggregateNothing, Numbers
      <4> QED
        BY <4>1
    <3>2. CASE ListSpans
      <4> DEFINE agg == BatchAggregate(local.leaves, local.sigs, local.count, batch, Signer)
      <4>1. caller \in Reading /\ batch' = batch /\ late' = late /\ agg \in published'
        BY <3>2 DEF ListSpans, Reading
      <4>2. agg.leaves = local.leaves
        BY DEF BatchAggregate
      <4>3. \A n \in Numbers(batch) : n \in late \/ n \in Numbers(local.leaves)
        BY <4>1 DEF Coverage
      <4> HIDE DEF agg
      <4> QED
        BY <4>1, <4>2, <4>3 DEF Covered
    <3>3. CASE ReadLeaves \/ SignLeaves \/ CountBatch
      BY <3>3 DEF ReadLeaves, SignLeaves, CountBatch
    <3> QED
      BY <1>2, <3>1, <3>2, <3>3 DEF Aggregating
  <2>6. (caller \in Reading)' =>
          \A n \in Numbers(batch)' : n \in late' \/ n \in Numbers(local.leaves)'
    <3>1. CASE ReadLeaves
      BY <3>1 DEF ReadLeaves, NoLocals
    <3>2. CASE SignLeaves \/ CountBatch
      <4>1. caller \in Reading /\ local'.leaves = local.leaves
        BY <1>0, <3>2 DEF SignLeaves, CountBatch, Reading, Types
      <4> QED
        BY <2>0, <4>1 DEF Coverage
    <3>3. CASE AggregateNothing \/ ListSpans
      BY <3>3 DEF AggregateNothing, ListSpans, Reading
    <3> QED
      BY <1>2, <3>1, <3>2, <3>3 DEF Aggregating
  <2> QED
    BY <2>3, <2>4, <2>5, <2>6 DEF Coverage
<1>3. CASE DrainRender
  BY <1>3, MovingCoverage DEF DrainRender, Coverage, emitterVars, Reading
<1>4. CASE DrainClear
  <2>1. /\ caller' \notin Reading \cup {"aggregated"}
        /\ UNCHANGED <<late, published, held, wire, collected>>
    BY <1>4 DEF DrainClear, Reading
  <2>2. \A n : Covered(n) => Covered(n)'
    BY <2>1, CoveredStays
  <2>3. \A n \in Numbers(held)' \cup SpanIds(collected)' : Covered(n)'
    BY <2>1, <2>2 DEF Coverage
  <2>4. \A i \in DOMAIN wire' : \A n \in SpanIds(wire[i])' : Covered(n)'
    BY <2>1, <2>2 DEF Coverage
  <2> QED
    BY <2>1, <2>3, <2>4 DEF Coverage
<1>5. ASSUME NEW k \in 1..Len(held), Export(k) PROVE Coverage'
  <2> DEFINE request == [i \in 1..k |-> ToOtlp(ToOtel(held[i]))]
  <2>1. /\ caller' = "waiting" /\ wire' = Append(wire, request)
        /\ UNCHANGED <<late, published, batch, local, held, collected>>
    BY <1>5 DEF Export, emitterVars
  <2>2. request \in Seq(Spans) /\ SpanIds(request) = Numbers(Front(held, k))
    BY <1>0, RequestCarries DEF Types
  <2> HIDE DEF request
  <2>3. \A n \in SpanIds(request) : Covered(n)
    BY <1>0, <2>2, NumbersCut DEF Types, Coverage
  <2>4. wire \in Seq(Seq(Spans))
    BY <1>0 DEF Types
  <2>5. \A i \in DOMAIN wire' : wire'[i] = request \/ (i \in DOMAIN wire /\ wire'[i] = wire[i])
    BY <2>1, <2>2, <2>4
  <2>6. \A i \in DOMAIN wire' : \A n \in SpanIds(wire'[i]) : Covered(n)
    BY <2>3, <2>5 DEF Coverage
  <2> QED
    BY <2>1, <2>6, MovingCoverage DEF Coverage, Reading
<1>6. ASSUME NEW i \in 1..Len(wire), Ingest(i) PROVE Coverage'
  <2>1. /\ collected' = collected \o wire[i] /\ wire' = Without(wire, i)
        /\ UNCHANGED <<late, published, batch, local, caller, held>>
    BY <1>6 DEF Ingest, emitterVars
  <2>2. /\ wire \in Seq(Seq(Spans)) /\ wire[i] \in Seq(Spans) /\ collected \in Seq(Spans)
        /\ DOMAIN wire = 1..Len(wire)
    BY <1>0 DEF Types
  <2>3. SpanIds(collected') = SpanIds(collected) \cup SpanIds(wire[i])
    BY <2>1, <2>2, SpanIdsConcat
  <2>4. /\ wire' \in Seq(Seq(Spans)) /\ Len(wire') = Len(wire) - 1
        /\ \A j \in 1..(Len(wire) - 1) : \E k \in 1..Len(wire) : wire'[j] = wire[k]
    BY <2>1, <2>2, WireWithout
  <2>5. \A n \in Numbers(held') \cup SpanIds(collected') : Covered(n)
    BY <2>1, <2>2, <2>3 DEF Coverage
  <2>6. DOMAIN wire' = 1..(Len(wire) - 1)
    BY <2>4
  <2>7. \A j \in DOMAIN wire' : \A n \in SpanIds(wire'[j]) : Covered(n)
    BY <2>2, <2>4, <2>6 DEF Coverage
  <2> QED
    BY <2>1, <2>5, <2>7, MovingCoverage
<1>7. CASE ExportReturns
  <2>1. /\ caller = "waiting" /\ held' = After(held, pending)
        /\ caller' \notin Reading \cup {"aggregated"}
        /\ UNCHANGED <<late, published, batch, local, wire, collected>>
    BY <1>7 DEF ExportReturns, emitterVars, Reading
  <2>2. pending \in 0..Len(held) /\ held \in Seq(Nat)
    BY <1>0, <2>1 DEF CallUnderWay, Types
  <2>3. Numbers(held') \subseteq Numbers(held)
    BY <2>1, <2>2, NumbersCut
  <2> QED
    BY <2>1, <2>3, MovingCoverage DEF Coverage
<1>8. ASSUME NEW lost \in BOOLEAN, CallFails(lost) PROVE Coverage'
  <2>1. /\ caller = "waiting" /\ caller' = "exporting"
        /\ lost => ~arrived /\ wire' = SubSeq(wire, 1, Len(wire) - 1)
        /\ ~lost => wire' = wire
        /\ UNCHANGED <<late, published, batch, local, held, collected>>
    BY <1>8 DEF CallFails, emitterVars, Front
  <2>2. wire \in Seq(Seq(Spans)) /\ (lost => wire # <<>>)
    BY <1>0, <2>1 DEF CallUnderWay, Types
  <2>3. \A i \in DOMAIN wire' : i \in DOMAIN wire /\ wire'[i] = wire[i]
    <3>1. CASE lost
      <4> DEFINE Requests == Seq(Spans)
      <4>1. wire \in Seq(Requests) /\ wire # <<>> /\ wire' = SubSeq(wire, 1, Len(wire) - 1)
        BY <2>1, <2>2, <3>1
      <4> HIDE DEF Requests
      <4> QED
        BY <4>1
    <3>2. CASE ~lost
      BY <2>1, <3>2
    <3> QED
      BY <3>1, <3>2
  <2>4. \A i \in DOMAIN wire' : \A n \in SpanIds(wire'[i]) : Covered(n)
    BY <2>3 DEF Coverage
  <2> QED
    BY <2>1, <2>4, MovingCoverage DEF Coverage, Reading
<1>9. CASE GiveUp
  <2>1. held' = <<>> /\ caller' = "idle" /\ UNCHANGED <<late, published, batch, local, wire, collected>>
    BY <1>9 DEF GiveUp, emitterVars
  <2>2. Numbers(held') = {}
    BY <2>1 DEF Numbers
  <2> QED
    BY <2>1, <2>2, MovingCoverage DEF Coverage, Reading
<1>10. CASE UNCHANGED vars
  BY <1>10, MovingCoverage DEF vars, emitterVars, exportVars, Coverage
<1> QED
  BY <1>1, <1>2, <1>3, <1>4, <1>5, <1>6, <1>7, <1>8, <1>9, <1>10
     DEF Next, Aggregating, ExportRaises, AnswersFailure, ReceiptRaises

(* A span leaves the emitter under a root, or was emitted after            *)
(* batch_aggregate read its leaves and before the drain that followed.     *)
THEOREM SpecShippedSpansCovered == Spec => []ShippedSpansCovered
<1>1. Init => Coverage
  <2>1. Numbers(<<>>) = {} /\ SpanIds(<<>>) = {}
    BY DEF Numbers, SpanIds, Ids
  <2> QED
    BY <2>1 DEF Init, Coverage
<1>2. Coverage => ShippedSpansCovered
  BY DEF Coverage, Covered, ShippedSpansCovered, SpanIds
<1> QED
  BY <1>1, <1>2, NextCoverage, SpecAccounting, PTL DEF Spec
----------------------------------------------------------------------------
(* Induction over the naturals, for a set in place of a predicate.         *)
LEMMA NatSetInduction ==
  ASSUME NEW T, 0 \in T, \A n \in Nat : n \in T => n + 1 \in T
  PROVE  Nat \subseteq T
<1> SUFFICES ASSUME Nat \ T # {} PROVE FALSE
  OBVIOUS
<1> DEFINE R == OpToRel(<, Nat)
<1>0. IsWellFoundedOn(R, Nat)
  BY NatLessThanWellFounded
<1>1. \A x, y \in Nat : x < y => <<x, y>> \in R
  BY DEF OpToRel
<1> HIDE DEF R
<1>2. PICK x \in Nat \ T : \A y \in Nat \ T : ~ (<<y, x>> \in R)
  BY <1>0, WFMin
<1>3. x # 0 /\ x - 1 \in Nat /\ x - 1 < x /\ (x - 1) + 1 = x
  BY <1>2
<1>4. x - 1 \in T
  BY <1>1, <1>2, <1>3
<1> QED
  BY <1>2, <1>3, <1>4

Receipts == [accepted : Nat, code : {"SUCCESS", "FAILURE"}]

\* The running sums of AcceptedSoFar, for any receipts.
Sums(r) ==
  LET sum[i \in 0..Len(r)] ==
        IF i = 0 THEN 0
        ELSE IF r[i].code = "SUCCESS" THEN sum[i - 1] + r[i].accepted
        ELSE sum[i - 1]
  IN  sum

\* What a receipt adds to a sum.
Adds(sum, e) == IF e.code = "SUCCESS" THEN sum + e.accepted ELSE sum

(* The running sums are what their recursion says.                         *)
LEMMA SumsUnfold ==
  ASSUME NEW r \in Seq(Receipts)
  PROVE  /\ Sums(r)[0] = 0
         /\ \A i \in 1..Len(r) : Sums(r)[i] = Adds(Sums(r)[i - 1], r[i])
         /\ \A i \in 0..Len(r) : Sums(r)[i] \in Nat
<1> DEFINE Good(f, n) ==
             /\ f \in [0..n -> Nat]
             /\ \A i \in 0..n : f[i] = IF i = 0 THEN 0 ELSE Adds(f[i - 1], r[i])
           T == {n \in Nat : n <= Len(r) => \E f : Good(f, n)}
<1>0. Len(r) \in Nat /\ \A i \in 1..Len(r) : r[i].accepted \in Nat
  <2>1. Len(r) \in Nat /\ \A i \in 1..Len(r) : r[i] \in Receipts
    OBVIOUS
  <2> QED
    BY <2>1 DEF Receipts
<1>1. 0 \in T
  <2>1. Good([i \in 0..0 |-> 0], 0)
    OBVIOUS
  <2> QED
    BY <2>1
<1>2. ASSUME NEW n \in Nat, n \in T PROVE n + 1 \in T
  <2> SUFFICES ASSUME n + 1 <= Len(r) PROVE \E f : Good(f, n + 1)
    <3> HIDE DEF Good
    <3> QED
      OBVIOUS
  <2>1. n <= Len(r) /\ n + 1 \in 1..Len(r)
    BY <1>0
  <2>2. PICK f : Good(f, n)
    BY <1>2, <2>1
  <2> DEFINE g == [i \in 0..(n + 1) |-> IF i = n + 1 THEN Adds(f[n], r[n + 1]) ELSE f[i]]
  <2>3. f[n] \in Nat /\ Adds(f[n], r[n + 1]) \in Nat
    BY <1>0, <2>1, <2>2 DEF Adds
  <2>4. g \in [0..(n + 1) -> Nat]
    BY <2>2, <2>3
  <2>5. ASSUME NEW i \in 0..(n + 1)
        PROVE  g[i] = IF i = 0 THEN 0 ELSE Adds(g[i - 1], r[i])
    <3>1. CASE i = n + 1
      BY <2>2, <3>1
    <3>2. CASE i # n + 1
      <4>1. i \in 0..n /\ (i # 0 => i - 1 \in 0..n)
        BY <3>2
      <4>2. g[i] = f[i] /\ (i # 0 => g[i - 1] = f[i - 1])
        BY <3>2, <4>1
      <4> QED
        BY <2>2, <4>1, <4>2
    <3> QED
      BY <3>1, <3>2
  <2>6. Good(g, n + 1)
    BY <2>4, <2>5
  <2> HIDE DEF g, Good
  <2> QED
    BY <2>6
<1>3. PICK f : Good(f, Len(r))
  <2> HIDE DEF Good
  <2>1. Len(r) \in T
    <3> HIDE DEF T
    <3> QED
      BY <1>0, <1>1, <1>2, NatSetInduction
  <2> QED
    BY <1>0, <2>1
<1> DEFINE D(h) == h = [i \in 0..Len(r) |-> IF i = 0 THEN 0 ELSE Adds(h[i - 1], r[i])]
<1>4. D(f) /\ Sums(r) = CHOOSE h : D(h)
  BY <1>3 DEF Sums, Adds
<1>5. D(Sums(r))
  BY <1>4
<1>6. \A i \in 0..Len(r) : Sums(r)[i] = IF i = 0 THEN 0 ELSE Adds(Sums(r)[i - 1], r[i])
  BY <1>5
<1> HIDE DEF D, Good
<1> DEFINE N == {n \in Nat : n <= Len(r) => Sums(r)[n] \in Nat}
<1>7. 0 \in N
  BY <1>0, <1>6
<1>8. ASSUME NEW n \in Nat, n \in N PROVE n + 1 \in N
  <2> SUFFICES ASSUME n + 1 <= Len(r) PROVE Sums(r)[n + 1] \in Nat
    OBVIOUS
  <2>1. n + 1 \in 0..Len(r) /\ n + 1 \in 1..Len(r) /\ n + 1 # 0 /\ (n + 1) - 1 = n
    BY <1>0
  <2>2. Sums(r)[n + 1] = Adds(Sums(r)[n], r[n + 1])
    BY <1>6, <2>1
  <2> QED
    BY <1>0, <1>8, <2>1, <2>2 DEF Adds
<1>9. \A i \in 0..Len(r) : Sums(r)[i] \in Nat
  <2>1. Nat \subseteq N
    <3> HIDE DEF N
    <3> QED
      BY <1>7, <1>8, NatSetInduction
  <2> QED
    BY <1>0, <2>1
<1>10. Sums(r)[0] = 0
  BY <1>0, <1>6
<1>11. ASSUME NEW i \in 1..Len(r) PROVE Sums(r)[i] = Adds(Sums(r)[i - 1], r[i])
  <2>1. i \in 0..Len(r) /\ i # 0
    OBVIOUS
  <2> QED
    BY <1>6, <2>1
<1> QED
  BY <1>9, <1>10, <1>11

(* A receipt more adds what it accepted, if its export succeeded.          *)
LEMMA SumsAppend ==
  ASSUME NEW r \in Seq(Receipts), NEW e \in Receipts
  PROVE  /\ Append(r, e) \in Seq(Receipts)
         /\ Sums(Append(r, e))[Len(Append(r, e))] = Adds(Sums(r)[Len(r)], e)
<1> DEFINE s == Append(r, e)
<1>1. /\ s \in Seq(Receipts) /\ Len(s) = Len(r) + 1 /\ Len(r) \in Nat
      /\ s[Len(r) + 1] = e /\ \A i \in 1..Len(r) : s[i] = r[i]
  OBVIOUS
<1> HIDE DEF s
<1>2. /\ Sums(s)[0] = 0
      /\ \A i \in 1..Len(s) : Sums(s)[i] = Adds(Sums(s)[i - 1], s[i])
  BY <1>1, SumsUnfold
<1>3. /\ Sums(r)[0] = 0
      /\ \A i \in 1..Len(r) : Sums(r)[i] = Adds(Sums(r)[i - 1], r[i])
  BY SumsUnfold
<1> DEFINE T == {n \in Nat : n <= Len(r) => Sums(s)[n] = Sums(r)[n]}
<1>4. 0 \in T
  BY <1>2, <1>3
<1>5. ASSUME NEW n \in Nat, n \in T PROVE n + 1 \in T
  <2> SUFFICES ASSUME n + 1 <= Len(r) PROVE Sums(s)[n + 1] = Sums(r)[n + 1]
    OBVIOUS
  <2>1. n + 1 \in 1..Len(r) /\ n + 1 \in 1..Len(s) /\ n <= Len(r) /\ (n + 1) - 1 = n
    BY <1>1
  <2>2. Sums(s)[n + 1] = Adds(Sums(s)[n], s[n + 1])
    BY <1>2, <2>1
  <2>3. Sums(r)[n + 1] = Adds(Sums(r)[n], r[n + 1])
    BY <1>3, <2>1
  <2> QED
    BY <1>1, <1>5, <2>1, <2>2, <2>3
<1>6. Sums(s)[Len(r)] = Sums(r)[Len(r)]
  <2>1. Len(r) \in T
    <3> HIDE DEF T
    <3> QED
      BY <1>1, <1>4, <1>5, NatSetInduction
  <2> QED
    BY <1>1, <2>1
<1>7. Len(s) \in 1..Len(s) /\ Len(s) - 1 = Len(r) /\ s[Len(s)] = e
  BY <1>1
<1>8. Sums(s)[Len(s)] = Adds(Sums(s)[Len(r)], e)
  BY <1>2, <1>7
<1> QED
  BY <1>1, <1>6, <1>8 DEF s
----------------------------------------------------------------------------
Increasing(s) == \A i, j \in DOMAIN s : i < j => s[i] < s[j]

Before(A, B) == \A a \in A, b \in B : a < b

(* An increasing list has as many numbers as places.                       *)
LEMMA NumbersCount ==
  ASSUME NEW s \in Seq(Nat), Increasing(s)
  PROVE  IsFiniteSet(Numbers(s)) /\ Cardinality(Numbers(s)) = Len(s)
<1>1. DOMAIN s = 1..Len(s) /\ Len(s) \in Nat /\ \A i \in 1..Len(s) : s[i] \in Nat
  OBVIOUS
<1>2. s \in [1..Len(s) -> Numbers(s)] /\ \A n \in Numbers(s) : \E i \in 1..Len(s) : s[i] = n
  BY <1>1 DEF Numbers
<1>3. ASSUME NEW i \in 1..Len(s), NEW j \in 1..Len(s), s[i] = s[j] PROVE i = j
  BY <1>1, <1>3 DEF Increasing
<1>4. s \in Bijection(1..Len(s), Numbers(s))
  BY <1>2, <1>3 DEF Bijection, Injection, Surjection, IsInjective
<1>5. ExistsBijection(1..Len(s), Numbers(s))
  BY <1>4 DEF ExistsBijection
<1>6. IsFiniteSet(1..Len(s)) /\ Cardinality(1..Len(s)) = Len(s)
  BY <1>1, FS_Interval
<1> QED
  BY <1>5, <1>6, FS_Bijection

(* The two parts of an increasing list.                                    *)
LEMMA IncreasingCut ==
  ASSUME NEW s \in Seq(Nat), Increasing(s), NEW k \in 0..Len(s)
  PROVE  /\ Increasing(Front(s, k)) /\ Increasing(After(s, k))
         /\ Before(Numbers(Front(s, k)), Numbers(After(s, k)))
<1>1. /\ DOMAIN Front(s, k) = 1..k /\ \A i \in 1..k : Front(s, k)[i] = s[i]
  BY DEF Front
<1>2. /\ DOMAIN After(s, k) = 1..(Len(s) - k)
      /\ \A i \in 1..(Len(s) - k) : After(s, k)[i] = s[k + i]
  BY DEF After
<1>3. DOMAIN s = 1..Len(s) /\ Len(s) \in Nat /\ k \in Nat /\ k <= Len(s)
  OBVIOUS
<1>4. Increasing(Front(s, k))
  BY <1>1, <1>3 DEF Increasing
<1>5. ASSUME NEW i \in 1..(Len(s) - k), NEW j \in 1..(Len(s) - k), i < j
      PROVE  After(s, k)[i] < After(s, k)[j]
  <2>1. k + i \in 1..Len(s) /\ k + j \in 1..Len(s) /\ k + i < k + j
    BY <1>3, <1>5
  <2> QED
    BY <1>2, <1>3, <2>1 DEF Increasing
<1>6. ASSUME NEW i \in 1..k, NEW j \in 1..(Len(s) - k)
      PROVE  Front(s, k)[i] < After(s, k)[j]
  <2>1. i \in 1..Len(s) /\ k + j \in 1..Len(s) /\ i < k + j
    BY <1>3
  <2> QED
    BY <1>1, <1>2, <1>3, <2>1 DEF Increasing
<1>7. Before(Numbers(Front(s, k)), Numbers(After(s, k)))
  BY <1>1, <1>2, <1>6 DEF Before, Numbers
<1> QED
  BY <1>2, <1>4, <1>5, <1>7 DEF Increasing

(* A list grows by a number larger than all of its own.                    *)
LEMMA IncreasingAppend ==
  ASSUME NEW s \in Seq(Nat), Increasing(s), NEW e \in Nat, Before(Numbers(s), {e})
  PROVE  Increasing(Append(s, e))
<1>1. /\ DOMAIN Append(s, e) = 1..(Len(s) + 1) /\ DOMAIN s = 1..Len(s) /\ Len(s) \in Nat
      /\ \A i \in 1..Len(s) : Append(s, e)[i] = s[i]
      /\ Append(s, e)[Len(s) + 1] = e
  OBVIOUS
<1>2. \A i \in 1..Len(s) : s[i] < e
  BY <1>1 DEF Before, Numbers
<1>3. ASSUME NEW i \in 1..(Len(s) + 1), NEW j \in 1..(Len(s) + 1), i < j
      PROVE  Append(s, e)[i] < Append(s, e)[j]
  <2>1. i \in 1..Len(s)
    BY <1>1, <1>3
  <2>2. CASE j = Len(s) + 1
    BY <1>1, <1>2, <2>1, <2>2
  <2>3. CASE j # Len(s) + 1
    <3>1. j \in 1..Len(s)
      BY <1>1, <2>3
    <3> QED
      BY <1>1, <1>3, <2>1, <3>1 DEF Increasing
  <2> QED
    BY <2>2, <2>3
<1> QED
  BY <1>1, <1>3 DEF Increasing

(* An increasing list is told by its numbers.                              *)
LEMMA IncreasingUnique ==
  ASSUME NEW s \in Seq(Nat), NEW t \in Seq(Nat), Increasing(s), Increasing(t),
         Numbers(s) = Numbers(t)
  PROVE  s = t
<1>0. /\ DOMAIN s = 1..Len(s) /\ DOMAIN t = 1..Len(t) /\ Len(s) \in Nat /\ Len(t) \in Nat
      /\ \A i \in 1..Len(s) : s[i] \in Nat
      /\ \A i \in 1..Len(t) : t[i] \in Nat
  OBVIOUS
<1>1. /\ \A i \in 1..Len(s) : \E k \in 1..Len(t) : s[i] = t[k]
      /\ \A i \in 1..Len(t) : \E k \in 1..Len(s) : t[i] = s[k]
  BY <1>0 DEF Numbers
<1> DEFINE T == {n \in Nat : \A i \in 1..n : i <= Len(s) /\ i <= Len(t) => s[i] = t[i]}
<1>2. 0 \in T
  OBVIOUS
<1>3. ASSUME NEW n \in Nat, n \in T PROVE n + 1 \in T
  <2> SUFFICES ASSUME NEW i \in 1..(n + 1), i <= Len(s), i <= Len(t) PROVE s[i] = t[i]
    OBVIOUS
  <2>1. CASE i \in 1..n
    BY <1>3, <2>1
  <2>2. CASE i = n + 1
    <3>1. i \in 1..Len(s) /\ i \in 1..Len(t)
      BY <1>0
    <3>2. ASSUME NEW j \in 1..Len(s), j \in 1..Len(t), j < i PROVE s[j] = t[j]
      <4>1. j \in 1..n /\ j <= Len(s) /\ j <= Len(t)
        BY <1>0, <2>2, <3>2
      <4> QED
        BY <1>3, <4>1
    <3>3. PICK k \in 1..Len(t) : s[i] = t[k]
      BY <1>1, <3>1
    <3>4. PICK l \in 1..Len(s) : t[i] = s[l]
      BY <1>1, <3>1
    <3>5. ~ (k < i)
      <4> SUFFICES ASSUME k < i PROVE FALSE
        OBVIOUS
      <4>0. k \in 1..Len(s)
        BY <1>0, <3>1
      <4>1. s[k] < s[i]
        BY <1>0, <3>1, <4>0 DEF Increasing
      <4> QED
        BY <1>0, <3>1, <3>2, <3>3, <4>0, <4>1
    <3>6. ~ (l < i)
      <4> SUFFICES ASSUME l < i PROVE FALSE
        OBVIOUS
      <4>0. l \in 1..Len(t)
        BY <1>0, <3>1
      <4>1. t[l] < t[i]
        BY <1>0, <3>1, <4>0 DEF Increasing
      <4> QED
        BY <1>0, <3>1, <3>2, <3>4, <4>0, <4>1
    <3>7. t[i] <= t[k]
      <4>1. CASE i = k
        BY <1>0, <3>1, <4>1
      <4>2. CASE i < k
        <5>1. t[i] < t[k]
          BY <1>0, <3>1, <4>2 DEF Increasing
        <5> QED
          BY <1>0, <3>1, <5>1
      <4> QED
        BY <1>0, <3>1, <3>5, <4>1, <4>2
    <3>8. s[i] <= s[l]
      <4>1. CASE i = l
        BY <1>0, <3>1, <4>1
      <4>2. CASE i < l
        <5>1. s[i] < s[l]
          BY <1>0, <3>1, <4>2 DEF Increasing
        <5> QED
          BY <1>0, <3>1, <5>1
      <4> QED
        BY <1>0, <3>1, <3>6, <4>1, <4>2
    <3> QED
      BY <1>0, <3>1, <3>3, <3>4, <3>7, <3>8
  <2> QED
    BY <2>1, <2>2
<1>4. \A i \in 1..Len(s) : i <= Len(t) => s[i] = t[i]
  <2>1. Len(s) \in T
    <3> HIDE DEF T
    <3> QED
      BY <1>0, <1>2, <1>3, NatSetInduction
  <2> QED
    BY <2>1
<1>5. ~ (Len(s) < Len(t))
  <2> SUFFICES ASSUME Len(s) < Len(t) PROVE FALSE
    OBVIOUS
  <2>1. Len(t) \in 1..Len(t)
    BY <1>0
  <2>2. PICK k \in 1..Len(s) : t[Len(t)] = s[k]
    BY <1>1, <2>1
  <2>3. k \in 1..Len(t) /\ k < Len(t) /\ s[k] = t[k]
    BY <1>0, <1>4
  <2>4. t[k] < t[Len(t)]
    BY <1>0, <2>1, <2>3 DEF Increasing
  <2> QED
    BY <1>0, <2>1, <2>2, <2>3, <2>4
<1>6. ~ (Len(t) < Len(s))
  <2> SUFFICES ASSUME Len(t) < Len(s) PROVE FALSE
    OBVIOUS
  <2>1. Len(s) \in 1..Len(s)
    BY <1>0
  <2>2. PICK k \in 1..Len(t) : s[Len(s)] = t[k]
    BY <1>1, <2>1
  <2>3. k \in 1..Len(s) /\ k < Len(s) /\ s[k] = t[k]
    BY <1>0, <1>4
  <2>4. s[k] < s[Len(s)]
    BY <1>0, <2>1, <2>3 DEF Increasing
  <2> QED
    BY <1>0, <2>1, <2>2, <2>3, <2>4
<1>7. Len(s) = Len(t)
  <2>1. Len(s) \in Nat /\ Len(t) \in Nat
    OBVIOUS
  <2>2. \A m, n \in Nat : ~ (m < n) /\ ~ (n < m) => m = n
    OBVIOUS
  <2> QED
    BY <1>5, <1>6, <2>1, <2>2
<1>8. \A i \in 1..Len(s) : s[i] = t[i]
  BY <1>0, <1>4, <1>7
<1> QED
  BY <1>7, <1>8, SeqEqual
----------------------------------------------------------------------------
\* Spans leave in the order they were emitted.
Order ==
  /\ Increasing(batch) /\ Increasing(held)
  /\ caller # "draining" => Before(Numbers(held), Numbers(batch))

\* What was given up, or fell into the gap inside drain, does not come back.
Settled ==
  /\ given_up \cap (Numbers(held) \cup Numbers(batch)) = {}
  /\ cleared \cap Numbers(held) = {}
  /\ caller # "draining" => cleared \cap Numbers(batch) = {}

\* The spans whose export returned.
Returned ==
  (1..emitted) \ (Numbers(batch) \cup Numbers(held) \cup given_up \cup cleared)

\* A receipt accepts the spans whose export returned with it, and no others.
Honest ==
  /\ receipts \in Seq(Receipts)
  /\ Sums(receipts)[Len(receipts)] = Cardinality(Returned)

(* Order and Settled are inductive, given the accounting.                  *)
LEMMA NextOrder == Accounting /\ Order /\ Settled /\ [Next]_vars => Order' /\ Settled'
<1> SUFFICES ASSUME Accounting, Order, Settled, [Next]_vars PROVE Order' /\ Settled'
  OBVIOUS
<1>0. /\ emitted \in Nat /\ batch \in Seq(Nat) /\ held \in Seq(Nat)
      /\ Numbers(batch) \cup Numbers(held) \cup given_up \cup cleared \subseteq 1..emitted
      /\ caller \in Reading \cup {"idle", "aggregated"} => held = <<>>
      /\ caller = "waiting" => pending \in 1..Len(held)
  BY DEF Accounting, Types, EverySpanAccounted, CallerHolds, CallUnderWay
<1>e. Numbers(<<>>) = {} /\ Increasing(<<>>)
  BY DEF Numbers, Increasing
<1>1. CASE Emit
  <2>0. PICK span : span = emitted + 1
    OBVIOUS
  <2>1. /\ batch' = Append(batch, span) /\ span \in Nat /\ emitted < span
        /\ cleared' = (IF caller = "draining" THEN cleared \cup {span} ELSE cleared)
        /\ UNCHANGED <<caller, held, given_up>>
    BY <1>0, <1>1, <2>0 DEF Emit
  <2>2. Numbers(batch') = Numbers(batch) \cup {span}
    BY <1>0, <2>1, NumbersAppend
  <2>3. Before(1..emitted, {span}) /\ span \notin 1..emitted
    BY <1>0, <2>1 DEF Before
  <2>4. Increasing(batch')
    BY <1>0, <2>1, <2>3, IncreasingAppend DEF Before, Order
  <2>5. caller # "draining" => Before(Numbers(held), Numbers(batch'))
    BY <1>0, <2>2, <2>3 DEF Before, Order
  <2>6. Order'
    BY <2>1, <2>4, <2>5 DEF Order
  <2>7. Settled'
    BY <1>0, <2>1, <2>2, <2>3 DEF Settled
  <2> QED
    BY <2>6, <2>7
<1>2. CASE Aggregating
  <2>1. /\ UNCHANGED <<batch, held, given_up, cleared>>
        /\ caller # "draining"
    BY <1>2, AggregatingReads DEF Accounting, exportVars, Reading
  <2> QED
    BY <2>1 DEF Order, Settled
<1>3. CASE DrainRender
  <2>1. /\ caller = "aggregated" /\ caller' = "draining" /\ held' = batch
        /\ UNCHANGED <<batch, given_up, cleared>>
    BY <1>3 DEF DrainRender, emitterVars
  <2> QED
    BY <2>1 DEF Order, Settled
<1>4. CASE DrainClear
  <2>1. batch' = <<>> /\ UNCHANGED <<held, given_up, cleared>>
    BY <1>4 DEF DrainClear
  <2> QED
    BY <1>e, <2>1 DEF Order, Settled, Before
<1>5. ASSUME NEW k \in 1..Len(held), Export(k) PROVE Order' /\ Settled'
  <2>1. caller = "exporting" /\ UNCHANGED <<batch, held, given_up, cleared>>
    BY <1>5 DEF Export, emitterVars
  <2> QED
    BY <2>1 DEF Order, Settled
<1>6. ASSUME NEW i \in 1..Len(wire), Ingest(i) PROVE Order' /\ Settled'
  <2>1. UNCHANGED <<caller, batch, held, given_up, cleared>>
    BY <1>6 DEF Ingest, emitterVars
  <2> QED
    BY <2>1 DEF Order, Settled
<1>7. CASE ExportReturns
  <2>1. /\ caller = "waiting" /\ held' = After(held, pending)
        /\ UNCHANGED <<batch, given_up, cleared>>
    BY <1>7 DEF ExportReturns, emitterVars
  <2>2. pending \in 0..Len(held)
    BY <1>0, <2>1
  <2>3. Numbers(held') \subseteq Numbers(held) /\ Increasing(held')
    BY <1>0, <2>1, <2>2, NumbersCut, IncreasingCut DEF Order
  <2> QED
    BY <2>1, <2>3 DEF Order, Settled, Before
<1>8. ASSUME NEW lost \in BOOLEAN, CallFails(lost) PROVE Order' /\ Settled'
  <2>1. caller = "waiting" /\ UNCHANGED <<batch, held, given_up, cleared>>
    BY <1>8 DEF CallFails, emitterVars
  <2> QED
    BY <2>1 DEF Order, Settled
<1>9. CASE GiveUp
  <2>1. /\ caller = "exporting" /\ held' = <<>> /\ given_up' = given_up \cup Numbers(held)
        /\ UNCHANGED <<batch, cleared>>
    BY <1>9 DEF GiveUp, emitterVars
  <2>2. Numbers(held) \cap Numbers(batch) = {}
    <3>1. \A n \in 1..emitted : ~ (n < n)
      BY <1>0
    <3> QED
      BY <1>0, <2>1, <3>1 DEF Order, Before
  <2> QED
    BY <1>e, <2>1, <2>2 DEF Order, Settled, Before
<1>10. CASE UNCHANGED vars
  BY <1>10 DEF vars, emitterVars, exportVars, Order, Settled
<1> QED
  BY <1>1, <1>2, <1>3, <1>4, <1>5, <1>6, <1>7, <1>8, <1>9, <1>10
     DEF Next, Aggregating, ExportRaises, AnswersFailure, ReceiptRaises

(* A step that returns no span and stamps no receipt, or one of a failure. *)
LEMMA HonestStays ==
  ASSUME Honest, Returned' = Returned,
         receipts' = receipts
           \/ \E n \in Nat : receipts' = Append(receipts, BatchReceipt(n, "FAILURE"))
  PROVE  Honest'
<1>1. CASE receipts' = receipts
  BY <1>1 DEF Honest
<1>2. ASSUME NEW n \in Nat, receipts' = Append(receipts, BatchReceipt(n, "FAILURE"))
      PROVE  Honest'
  <2>0. PICK none : none = BatchReceipt(n, "FAILURE")
    OBVIOUS
  <2>1. none \in Receipts /\ none.code # "SUCCESS"
    BY <2>0 DEF BatchReceipt, Receipts
  <2>2. receipts' \in Seq(Receipts)
        /\ Sums(receipts')[Len(receipts')] = Adds(Sums(receipts)[Len(receipts)], none)
    BY <1>2, <2>0, <2>1, SumsAppend DEF Honest
  <2>3. Sums(receipts')[Len(receipts')] = Sums(receipts)[Len(receipts)]
    BY <2>1, <2>2 DEF Adds
  <2> QED
    BY <2>2, <2>3 DEF Honest
<1> QED
  BY <1>1, <1>2

LEMMA NextHonest ==
  Accounting /\ Order /\ Settled /\ Honest /\ [Next]_vars => Honest'
<1> SUFFICES ASSUME Accounting, Order, Settled, Honest, [Next]_vars PROVE Honest'
  OBVIOUS
<1>0. /\ emitted \in Nat /\ batch \in Seq(Nat) /\ held \in Seq(Nat)
      /\ Numbers(batch) \cup Numbers(held) \cup given_up \cup cleared \subseteq 1..emitted
      /\ caller \in Reading \cup {"idle", "aggregated"} => held = <<>>
      /\ caller = "draining" => Numbers(batch) \subseteq Numbers(held) \cup cleared
      /\ caller = "waiting" => pending \in 1..Len(held)
  BY DEF Accounting, Types, EverySpanAccounted, CallerHolds, CallUnderWay
<1>e. Numbers(<<>>) = {}
  BY DEF Numbers
<1>1. CASE Emit
  <2>0. PICK span : span = emitted + 1
    OBVIOUS
  <2>1. /\ batch' = Append(batch, span) /\ span \in Nat /\ emitted' = span
        /\ cleared' \subseteq cleared \cup {span} /\ cleared \subseteq cleared'
        /\ UNCHANGED <<held, given_up, receipts>>
    BY <1>0, <1>1, <2>0 DEF Emit
  <2>2. Numbers(batch') = Numbers(batch) \cup {span}
    BY <1>0, <2>1, NumbersAppend
  <2>3. 1..emitted' = (1..emitted) \cup {span}
    BY <1>0, <2>0, <2>1
  <2>4. Returned' = Returned
    <3>1. span \notin 1..emitted
      BY <1>0, <2>0
    <3> QED
      BY <2>1, <2>2, <2>3, <3>1 DEF Returned
  <2> QED
    BY <2>1, <2>4, HonestStays
<1>2. CASE Aggregating
  BY <1>2, AggregatingReads, HonestStays DEF Accounting, exportVars, Returned
<1>3. CASE DrainRender
  <2>1. held = <<>> /\ held' = batch /\ UNCHANGED <<emitted, batch, given_up, cleared, receipts>>
    BY <1>0, <1>3 DEF DrainRender, emitterVars
  <2> QED
    BY <1>e, <2>1, HonestStays DEF Returned
<1>4. CASE DrainClear
  <2>1. caller = "draining" /\ batch' = <<>> /\ UNCHANGED <<emitted, held, given_up, cleared, receipts>>
    BY <1>4 DEF DrainClear
  <2>2. Returned' = Returned
    BY <1>0, <1>e, <2>1 DEF Returned
  <2> QED
    BY <2>1, <2>2, HonestStays
<1>5. ASSUME NEW k \in 1..Len(held), Export(k) PROVE Honest'
  BY <1>5, HonestStays DEF Export, emitterVars, Returned
<1>6. ASSUME NEW i \in 1..Len(wire), Ingest(i) PROVE Honest'
  BY <1>6, HonestStays DEF Ingest, emitterVars, Returned
<1>7. CASE ExportReturns
  <2>1. /\ caller = "waiting" /\ held' = After(held, pending)
        /\ receipts' = Append(receipts, BatchReceipt(pending, "SUCCESS"))
        /\ UNCHANGED <<emitted, batch, given_up, cleared>>
    BY <1>7 DEF ExportReturns, emitterVars
  <2>2. pending \in 0..Len(held) /\ pending \in Nat
    BY <1>0, <2>1
  <2> DEFINE sent == Numbers(Front(held, pending))
  <2>3. /\ Numbers(held) = sent \cup Numbers(held') /\ Front(held, pending) \in Seq(Nat)
        /\ Len(Front(held, pending)) = pending
        /\ Increasing(Front(held, pending)) /\ Before(sent, Numbers(held'))
    BY <1>0, <2>1, <2>2, NumbersCut, IncreasingCut DEF Order
  <2>4. IsFiniteSet(sent) /\ Cardinality(sent) = pending
    BY <2>3, NumbersCount
  <2>5. sent \subseteq 1..emitted /\ sent \cap (Numbers(batch) \cup given_up \cup cleared) = {}
    BY <1>0, <2>1, <2>3 DEF Order, Settled, Before
  <2>6. sent \cap Numbers(held') = {}
    BY <1>0, <2>3 DEF Before
  <2> HIDE DEF sent
  <2>7. Returned' = Returned \cup sent /\ Returned \cap sent = {}
    BY <2>1, <2>3, <2>5, <2>6 DEF Returned
  <2>8. Cardinality(Returned') = Cardinality(Returned) + pending
    <3>0. IsFiniteSet(1..emitted)
      BY <1>0, FS_Interval
    <3>1. IsFiniteSet(Returned) /\ Cardinality({}) = 0
      BY <3>0, FS_Subset, FS_EmptySet DEF Returned
    <3>2. Cardinality(Returned \cup sent) = Cardinality(Returned) + Cardinality(sent) - Cardinality({})
      BY <2>4, <2>7, <3>1, FS_Union
    <3>3. Cardinality(Returned) \in Nat
      BY <3>1, FS_CardinalityType
    <3> QED
      BY <2>2, <2>4, <2>7, <3>1, <3>2, <3>3
  <2>9. receipts' \in Seq(Receipts)
        /\ Sums(receipts')[Len(receipts')] = Sums(receipts)[Len(receipts)] + pending
    <3>1. PICK p : p = pending
      OBVIOUS
    <3>2. PICK stamped : stamped = BatchReceipt(p, "SUCCESS")
      OBVIOUS
    <3>3. stamped \in Receipts /\ stamped.accepted = p /\ stamped.code = "SUCCESS"
      BY <2>2, <3>1, <3>2 DEF BatchReceipt, Receipts
    <3>4. receipts' \in Seq(Receipts)
          /\ Sums(receipts')[Len(receipts')] = Adds(Sums(receipts)[Len(receipts)], stamped)
      BY <2>1, <3>1, <3>2, <3>3, SumsAppend DEF Honest
    <3> QED
      BY <3>1, <3>3, <3>4 DEF Adds
  <2> QED
    BY <2>8, <2>9 DEF Honest
<1>8. ASSUME NEW lost \in BOOLEAN,
             ExportRaises(lost) \/ AnswersFailure(lost) \/ ReceiptRaises(lost)
      PROVE  Honest'
  <2>0. pending \in Nat
    BY DEF Accounting, Types
  <2>1. /\ UNCHANGED <<emitted, batch, held, given_up, cleared>>
        /\ receipts' = receipts
             \/ \E n \in Nat : receipts' = Append(receipts, BatchReceipt(n, "FAILURE"))
    BY <1>8, <2>0 DEF ExportRaises, AnswersFailure, ReceiptRaises, CallFails, emitterVars
  <2> QED
    BY <2>1, HonestStays DEF Returned
<1>9. CASE GiveUp
  <2>1. /\ held' = <<>> /\ given_up' = given_up \cup Numbers(held)
        /\ UNCHANGED <<emitted, batch, cleared, receipts>>
    BY <1>9 DEF GiveUp, emitterVars
  <2>2. Returned' = Returned
    BY <1>e, <2>1 DEF Returned
  <2> QED
    BY <2>1, <2>2, HonestStays
<1>10. CASE UNCHANGED vars
  BY <1>10, HonestStays DEF vars, emitterVars, exportVars, Returned
<1> QED
  BY <1>1, <1>2, <1>3, <1>4, <1>5, <1>6, <1>7, <1>8, <1>9, <1>10 DEF Next, Aggregating

LEMMA SpecHonest == Spec => [](Order /\ Settled /\ Honest)
<1>1. Init => Order /\ Settled /\ Honest
  <2> SUFFICES ASSUME Init PROVE Order /\ Settled /\ Honest
    OBVIOUS
  <2>1. Numbers(<<>>) = {} /\ Increasing(<<>>)
    BY DEF Numbers, Increasing
  <2>2. Order /\ Settled
    BY <2>1 DEF Init, Order, Settled, Before
  <2>3. Returned = {} /\ receipts = <<>>
    BY DEF Init, Returned
  <2>4. Sums(<<>>)[0] = 0 /\ Len(<<>>) = 0 /\ <<>> \in Seq(Receipts)
    <3>1. <<>> \in Seq(Receipts) /\ Len(<<>>) = 0
      OBVIOUS
    <3> QED
      BY <3>1, SumsUnfold
  <2>5. Honest
    BY <2>3, <2>4, FS_EmptySet DEF Honest
  <2> QED
    BY <2>2, <2>5
<1> QED
  BY <1>1, NextOrder, NextHonest, SpecAccounting, PTL DEF Spec

(* The batch receipts of successful exports together claim no more spans   *)
(* than the collector has ingested (export, ingest).                       *)
THEOREM SpecReceiptsAreBacked == Spec => []ReceiptsAreBacked
<1>1. Accounting /\ Honest => ReceiptsAreBacked
  <2> SUFFICES ASSUME Accounting, Honest PROVE ReceiptsAreBacked
    OBVIOUS
  <2>1. AcceptedSoFar = Cardinality(Returned)
    BY DEF AcceptedSoFar, Sums, Honest
  <2>2. emitted \in Nat /\ SpanIds(collected) \subseteq 1..emitted /\ Returned \subseteq SpanIds(collected)
    BY DEF Accounting, Types, EverySpanAccounted, Returned, SpanIds
  <2>3. IsFiniteSet(SpanIds(collected))
    <3>1. IsFiniteSet(1..emitted)
      BY <2>2, FS_Interval
    <3> QED
      BY <2>2, <3>1, FS_Subset
  <2>4. Cardinality(Returned) <= Cardinality(SpanIds(collected))
    BY <2>2, <2>3, FS_Subset
  <2> QED
    BY <2>1, <2>4 DEF ReceiptsAreBacked, SpanIds
<1> QED
  BY <1>1, SpecAccounting, SpecHonest, PTL
----------------------------------------------------------------------------
\* What batch_aggregate reads later is not shorter: the batch only grows.
ReadInOrder ==
  caller \in Reading =>
    /\ Increasing(local.leaves) /\ Len(local.leaves) <= Len(batch)
    /\ caller # "signing" => Len(local.leaves) <= local.sigs /\ local.sigs <= Len(batch)
    /\ caller = "listing" => local.sigs <= local.count /\ local.count <= Len(batch)

MadeOf(agg, leaves, sigs, count, ids) ==
  /\ agg = BatchAggregate(leaves, sigs, count, ids, Signer)
  /\ Increasing(leaves) /\ Len(leaves) <= sigs /\ sigs <= count /\ count <= Len(ids)

\* An aggregate has an increasing list of spans under its root.
Sealed ==
  \A agg \in published :
    \E leaves, ids \in Seq(Nat), sigs, count \in Nat : MadeOf(agg, leaves, sigs, count, ids)

\* What the caller has still to see arrive.
Unsent == IF caller = "waiting" /\ arrived THEN After(held, pending) ELSE held

\* While no call has failed, at most the awaited request is on the wire, and
\* everything arrives in the order it was emitted.
Flow ==
  /\ failures \in Nat
  /\ failures = 0 =>
       /\ Increasing(Ids(collected))
       /\ Before(SpanIds(collected), Numbers(Unsent) \cup Numbers(batch))
       /\ caller = "waiting" /\ ~arrived => Len(wire) = 1 /\ Ids(wire[1]) = Front(held, pending)
       /\ ~ (caller = "waiting" /\ ~arrived) => wire = <<>>

(* The ids of a list of spans, which are its leaves as well.               *)
LEMMA IdsOfSpans ==
  ASSUME NEW s \in Seq(Spans)
  PROVE  /\ Ids(s) \in Seq(Nat) /\ Len(Ids(s)) = Len(s) /\ Leaves(s) = Ids(s)
         /\ \A i \in 1..Len(s) : Ids(s)[i] = s[i].span_id
<1>1. DOMAIN s = 1..Len(s) /\ Len(s) \in Nat /\ \A i \in 1..Len(s) : s[i] \in Spans
  OBVIOUS
<1>2. \A i \in 1..Len(s) : s[i].span_id \in Nat /\ s[i].receipt_hash = s[i].span_id
  BY <1>1 DEF Spans
<1>3. Ids(s) = [i \in 1..Len(s) |-> s[i].span_id]
  BY <1>1 DEF Ids
<1>4. Leaves(s) = [i \in 1..Len(s) |-> s[i].receipt_hash]
  BY <1>1 DEF Leaves
<1>5. Leaves(s) = Ids(s)
  BY <1>2, <1>3, <1>4
<1> QED
  BY <1>1, <1>2, <1>3, <1>5

LEMMA IdsAppend ==
  ASSUME NEW s \in Seq(Spans), NEW e \in Spans
  PROVE  /\ Append(s, e) \in Seq(Spans) /\ e.span_id \in Nat
         /\ Ids(Append(s, e)) = Append(Ids(s), e.span_id)
         /\ SpanIds(Append(s, e)) = SpanIds(s) \cup {e.span_id}
<1>1. /\ Append(s, e) \in Seq(Spans) /\ Len(Append(s, e)) = Len(s) + 1 /\ Len(s) \in Nat
      /\ \A i \in 1..Len(s) : Append(s, e)[i] = s[i]
      /\ Append(s, e)[Len(s) + 1] = e
  OBVIOUS
<1>2. e.span_id \in Nat
  BY DEF Spans
<1>3. /\ Ids(s) \in Seq(Nat) /\ Len(Ids(s)) = Len(s)
      /\ \A i \in 1..Len(s) : Ids(s)[i] = s[i].span_id
  BY IdsOfSpans
<1> DEFINE t == Append(s, e)
<1> HIDE DEF t
<1>4. /\ Ids(t) \in Seq(Nat) /\ Len(Ids(t)) = Len(t)
      /\ \A i \in 1..Len(t) : Ids(t)[i] = t[i].span_id
  BY <1>1, IdsOfSpans DEF t
<1>5. Ids(t) = Append(Ids(s), e.span_id)
  <2> DEFINE u == Append(Ids(s), e.span_id)
  <2>1. /\ u \in Seq(Nat) /\ Len(u) = Len(s) + 1
        /\ \A i \in 1..Len(s) : u[i] = Ids(s)[i]
        /\ u[Len(s) + 1] = e.span_id
    BY <1>2, <1>3
  <2> HIDE DEF u
  <2>2. Len(t) = Len(s) + 1 /\ t[Len(s) + 1] = e /\ \A i \in 1..Len(s) : t[i] = s[i]
    BY <1>1 DEF t
  <2>3. ASSUME NEW i \in 1..(Len(s) + 1) PROVE Ids(t)[i] = u[i]
    <3>1. CASE i = Len(s) + 1
      BY <1>4, <2>1, <2>2, <3>1
    <3>2. CASE i # Len(s) + 1
      <4>1. i \in 1..Len(s) /\ i \in 1..Len(t)
        BY <1>1, <2>2, <3>2
      <4> QED
        BY <1>3, <1>4, <2>1, <2>2, <4>1
    <3> QED
      BY <3>1, <3>2
  <2>4. Len(Ids(t)) = Len(u) /\ \A i \in 1..Len(Ids(t)) : Ids(t)[i] = u[i]
    BY <1>4, <2>1, <2>2, <2>3
  <2>5. Ids(t) = u
    BY <1>4, <2>1, <2>4, SeqEqual
  <2> QED
    BY <2>5 DEF u
<1>6. SpanIds(t) = SpanIds(s) \cup {e.span_id}
  BY <1>2, <1>3, <1>5, NumbersAppend DEF SpanIds
<1> QED
  BY <1>1, <1>2, <1>5, <1>6 DEF t

(* The ids of two lists, one behind the other.                             *)
LEMMA IncreasingConcat ==
  ASSUME NEW s \in Seq(Spans), NEW t \in Seq(Spans), Increasing(Ids(s)), Increasing(Ids(t)),
         Before(SpanIds(s), SpanIds(t))
  PROVE  Increasing(Ids(s \o t))
<1> DEFINE u == s \o t
<1>1. /\ u \in Seq(Spans) /\ Len(u) = Len(s) + Len(t) /\ Len(s) \in Nat /\ Len(t) \in Nat
      /\ \A i \in 1..Len(s) : u[i] = s[i]
      /\ \A i \in 1..Len(t) : u[Len(s) + i] = t[i]
  OBVIOUS
<1> HIDE DEF u
<1>2. /\ Ids(s) \in Seq(Nat) /\ DOMAIN Ids(s) = 1..Len(s)
      /\ \A i \in 1..Len(s) : Ids(s)[i] = s[i].span_id /\ Ids(s)[i] \in SpanIds(s)
  <2>1. /\ Ids(s) \in Seq(Nat) /\ DOMAIN Ids(s) = 1..Len(s)
        /\ \A i \in 1..Len(s) : Ids(s)[i] = s[i].span_id
    BY IdsOfSpans
  <2> QED
    BY <2>1 DEF SpanIds, Numbers
<1>3. /\ Ids(t) \in Seq(Nat) /\ DOMAIN Ids(t) = 1..Len(t)
      /\ \A i \in 1..Len(t) : Ids(t)[i] = t[i].span_id /\ Ids(t)[i] \in SpanIds(t)
  <2>1. /\ Ids(t) \in Seq(Nat) /\ DOMAIN Ids(t) = 1..Len(t)
        /\ \A i \in 1..Len(t) : Ids(t)[i] = t[i].span_id
    BY IdsOfSpans
  <2> QED
    BY <2>1 DEF SpanIds, Numbers
<1>4. DOMAIN Ids(u) = 1..(Len(s) + Len(t)) /\ \A i \in 1..(Len(s) + Len(t)) : Ids(u)[i] = u[i].span_id
  <2>1. /\ Ids(u) \in Seq(Nat) /\ Len(Ids(u)) = Len(u)
        /\ \A i \in 1..Len(u) : Ids(u)[i] = u[i].span_id
    BY <1>1, IdsOfSpans
  <2> QED
    BY <1>1, <2>1
<1>5. ASSUME NEW i \in 1..(Len(s) + Len(t)), NEW j \in 1..(Len(s) + Len(t)), i < j
      PROVE  Ids(u)[i] < Ids(u)[j]
  <2>1. ASSUME NEW k \in 1..Len(s) PROVE Ids(u)[k] = Ids(s)[k]
    <3>1. k \in 1..(Len(s) + Len(t))
      BY <1>1
    <3> QED
      BY <1>1, <1>2, <1>4, <3>1
  <2>2. ASSUME NEW k \in 1..(Len(s) + Len(t)), k > Len(s)
        PROVE  k - Len(s) \in 1..Len(t) /\ Ids(u)[k] = Ids(t)[k - Len(s)]
    <3>1. k - Len(s) \in 1..Len(t) /\ Len(s) + (k - Len(s)) = k
      BY <1>1, <2>2
    <3>2. u[k] = t[k - Len(s)]
      BY <1>1, <3>1
    <3> QED
      BY <1>3, <1>4, <3>1, <3>2
  <2>3. CASE j <= Len(s)
    <3>1. i \in 1..Len(s) /\ j \in 1..Len(s)
      BY <1>1, <1>5, <2>3
    <3> QED
      BY <1>2, <1>5, <2>1, <3>1 DEF Increasing
  <2>4. CASE i > Len(s)
    <3>1. j > Len(s) /\ i - Len(s) < j - Len(s)
      BY <1>1, <1>5, <2>4
    <3> QED
      BY <1>3, <2>2, <2>4, <3>1 DEF Increasing
  <2>5. CASE i <= Len(s) /\ j > Len(s)
    <3>1. i \in 1..Len(s)
      BY <1>1, <2>5
    <3>2. Ids(u)[i] \in SpanIds(s)
      BY <1>2, <2>1, <3>1
    <3>3. Ids(u)[j] \in SpanIds(t)
      BY <1>3, <2>2, <2>5
    <3> QED
      BY <3>2, <3>3 DEF Before
  <2> QED
    BY <1>1, <2>3, <2>4, <2>5
<1> QED
  BY <1>4, <1>5 DEF Increasing, u
----------------------------------------------------------------------------
\* The lists WithIds builds, one per span looked at.
Kept(spans, ids) ==
  LET kept[i \in 0..Len(spans)] ==
        IF i = 0 THEN <<>>
        ELSE IF spans[i].span_id \in ids THEN Append(kept[i - 1], spans[i])
        ELSE kept[i - 1]
  IN  kept

(* Each of them is the one before it, with the next span or without.       *)
LEMMA KeptUnfold ==
  ASSUME NEW s \in Seq(Spans), NEW ids
  PROVE  /\ Kept(s, ids)[0] = <<>>
         /\ \A i \in 1..Len(s) :
              Kept(s, ids)[i] = IF s[i].span_id \in ids THEN Append(Kept(s, ids)[i - 1], s[i])
                                ELSE Kept(s, ids)[i - 1]
<1> DEFINE Lists == Seq(Spans)
           Step(f, i) == IF s[i].span_id \in ids THEN Append(f[i - 1], s[i]) ELSE f[i - 1]
           Good(f, n) ==
             /\ f \in [0..n -> Lists]
             /\ f[0] = <<>>
             /\ \A i \in 1..n : f[i] = Step(f, i)
           T == {n \in Nat : n <= Len(s) => \E f : Good(f, n)}
<1>0. Len(s) \in Nat /\ \A i \in 1..Len(s) : s[i] \in Spans
  OBVIOUS
<1>1. 0 \in T
  <2>1. Good([i \in 0..0 |-> <<>>], 0)
    OBVIOUS
  <2> HIDE DEF Good
  <2> QED
    BY <2>1
<1>2. ASSUME NEW n \in Nat, n \in T PROVE n + 1 \in T
  <2> SUFFICES ASSUME n + 1 <= Len(s) PROVE \E f : Good(f, n + 1)
    <3> HIDE DEF Good
    <3> QED
      OBVIOUS
  <2>1. n <= Len(s) /\ n + 1 \in 1..Len(s)
    BY <1>0
  <2>2. PICK f : Good(f, n)
    BY <1>2, <2>1
  <2> DEFINE e == IF s[n + 1].span_id \in ids THEN Append(f[n], s[n + 1]) ELSE f[n]
             g == [i \in 0..(n + 1) |-> IF i = n + 1 THEN e ELSE f[i]]
  <2>3. e \in Lists
    <3>1. s[n + 1] \in Spans /\ f[n] \in Seq(Spans)
      BY <1>0, <2>1, <2>2
    <3> QED
      BY <3>1
  <2> HIDE DEF Lists, e
  <2>4. g \in [0..(n + 1) -> Lists]
    BY <2>2, <2>3
  <2>5. g[0] = <<>>
    BY <2>2
  <2>6. ASSUME NEW i \in 1..(n + 1) PROVE g[i] = Step(g, i)
    <3>1. CASE i = n + 1
      <4>1. g[i] = e /\ g[i - 1] = f[n]
        BY <3>1
      <4> QED
        BY <3>1, <4>1 DEF e
    <3>2. CASE i # n + 1
      <4>1. i \in 1..n /\ i - 1 \in 0..n
        BY <3>2
      <4>2. g[i] = f[i] /\ g[i - 1] = f[i - 1]
        BY <3>2, <4>1
      <4> QED
        BY <2>2, <4>1, <4>2
    <3> QED
      BY <3>1, <3>2
  <2>7. Good(g, n + 1)
    BY <2>4, <2>5, <2>6
  <2> HIDE DEF g, Good
  <2> QED
    BY <2>7
<1>3. PICK f : Good(f, Len(s))
  <2> HIDE DEF Good
  <2>1. Len(s) \in T
    <3> HIDE DEF T
    <3> QED
      BY <1>0, <1>1, <1>2, NatSetInduction
  <2> QED
    BY <1>0, <2>1
<1> DEFINE D(h) == h = [i \in 0..Len(s) |-> IF i = 0 THEN <<>> ELSE Step(h, i)]
<1>4. D(f)
  <2>1. DOMAIN f = 0..Len(s) /\ f = [i \in 0..Len(s) |-> f[i]]
    BY <1>3
  <2>2. ASSUME NEW i \in 0..Len(s) PROVE f[i] = IF i = 0 THEN <<>> ELSE Step(f, i)
    <3>1. f[0] = <<>> /\ \A j \in 1..Len(s) : f[j] = Step(f, j)
      BY <1>3
    <3>2. i = 0 \/ i \in 1..Len(s)
      BY <1>0
    <3>3. ~ (0 \in 1..Len(s))
      OBVIOUS
    <3> HIDE DEF Step
    <3> QED
      BY <3>1, <3>2, <3>3
  <2> QED
    BY <2>1, <2>2
<1>5. Kept(s, ids) = CHOOSE h : D(h)
  BY DEF Kept
<1> DEFINE k == Kept(s, ids)
<1> HIDE DEF k
<1>6. D(k)
  <2> HIDE DEF D
  <2> QED
    BY <1>4, <1>5 DEF k
<1>7. k[0] = <<>> /\ \A i \in 1..Len(s) : k[i] = Step(k, i)
  <2> HIDE DEF Step
  <2>1. \A i \in 0..Len(s) : k[i] = IF i = 0 THEN <<>> ELSE Step(k, i)
    BY <1>6
  <2>2. 0 \in 0..Len(s) /\ \A i \in 1..Len(s) : i \in 0..Len(s) /\ i # 0
    BY <1>0
  <2> QED
    BY <2>1, <2>2
<1> QED
  BY <1>7 DEF k

(* What WithIds keeps: the spans asked for, and their order.               *)
LEMMA WithIdsKeeps ==
  ASSUME NEW s \in Seq(Spans), NEW ids
  PROVE  /\ WithIds(s, ids) \in Seq(Spans)
         /\ SpanIds(WithIds(s, ids)) = SpanIds(s) \cap ids
         /\ Increasing(Ids(s)) => Increasing(Ids(WithIds(s, ids)))
<1> DEFINE kept == Kept(s, ids)
           First(n) == {s[i].span_id : i \in 1..n}
           Fine(n) == /\ kept[n] \in Seq(Spans)
                      /\ SpanIds(kept[n]) = First(n) \cap ids
                      /\ Increasing(Ids(s)) => Increasing(Ids(kept[n]))
           T == {n \in Nat : n <= Len(s) => Fine(n)}
<1>0. Len(s) \in Nat /\ DOMAIN s = 1..Len(s) /\ \A i \in 1..Len(s) : s[i] \in Spans
  OBVIOUS
<1>1. /\ kept[0] = <<>>
      /\ \A i \in 1..Len(s) :
           kept[i] = IF s[i].span_id \in ids THEN Append(kept[i - 1], s[i]) ELSE kept[i - 1]
  BY KeptUnfold
<1> HIDE DEF kept
<1>2. 0 \in T
  <2>1. <<>> \in Seq(Spans) /\ SpanIds(<<>>) = {} /\ Increasing(Ids(<<>>)) /\ First(0) = {}
    BY DEF SpanIds, Ids, Numbers, Increasing
  <2> QED
    BY <1>1, <2>1
<1>3. ASSUME NEW n \in Nat, n \in T PROVE n + 1 \in T
  <2> SUFFICES ASSUME n + 1 <= Len(s) PROVE Fine(n + 1)
    OBVIOUS
  <2>1. n + 1 \in 1..Len(s) /\ (n + 1) - 1 = n /\ Fine(n)
    BY <1>0, <1>3
  <2>2. PICK e : e = s[n + 1]
    OBVIOUS
  <2>3. e \in Spans /\ kept[n + 1] = IF e.span_id \in ids THEN Append(kept[n], e) ELSE kept[n]
    BY <1>0, <1>1, <2>1, <2>2
  <2>4. First(n + 1) = First(n) \cup {e.span_id}
    <3>1. 1..(n + 1) = 1..n \cup {n + 1}
      OBVIOUS
    <3> QED
      BY <2>2, <3>1
  <2>5. CASE e.span_id \notin ids
    BY <2>1, <2>3, <2>4, <2>5
  <2>6. CASE e.span_id \in ids
    <3> DEFINE k == kept[n]
    <3>1. k \in Seq(Spans) /\ kept[n + 1] = Append(k, e)
      BY <2>1, <2>3, <2>6
    <3>2. SpanIds(k) = First(n) \cap ids
      BY <2>1
    <3>3. Increasing(Ids(s)) => Increasing(Ids(k))
      BY <2>1
    <3> HIDE DEF k
    <3>4. /\ Append(k, e) \in Seq(Spans) /\ Ids(Append(k, e)) = Append(Ids(k), e.span_id)
          /\ SpanIds(Append(k, e)) = SpanIds(k) \cup {e.span_id} /\ e.span_id \in Nat
          /\ Ids(k) \in Seq(Nat)
      BY <2>3, <3>1, IdsAppend, IdsOfSpans
    <3>5. SpanIds(Append(k, e)) = First(n + 1) \cap ids
      BY <2>4, <2>6, <3>2, <3>4
    <3>6. ASSUME Increasing(Ids(s)) PROVE Increasing(Append(Ids(k), e.span_id))
      <4>1. ASSUME NEW i \in 1..n PROVE s[i].span_id < e.span_id
        <5>1. i \in 1..Len(s) /\ i < n + 1
          BY <1>0, <2>1
        <5>2. /\ DOMAIN Ids(s) = 1..Len(s)
              /\ Ids(s)[i] = s[i].span_id /\ Ids(s)[n + 1] = e.span_id
          BY <1>0, <2>1, <2>2, <5>1 DEF Ids
        <5> QED
          BY <2>1, <3>6, <5>1, <5>2 DEF Increasing
      <4>2. Before(Numbers(Ids(k)), {e.span_id})
        BY <3>2, <4>1 DEF Before, SpanIds
      <4> QED
        BY <3>3, <3>4, <3>6, <4>2, IncreasingAppend
    <3> QED
      BY <3>1, <3>4, <3>5, <3>6
  <2> QED
    BY <2>5, <2>6
<1>4. Fine(Len(s))
  <2> HIDE DEF Fine
  <2>1. Len(s) \in T
    <3> HIDE DEF T
    <3> QED
      BY <1>0, <1>2, <1>3, NatSetInduction
  <2> QED
    BY <1>0, <2>1
<1>5. First(Len(s)) = SpanIds(s)
  BY <1>0 DEF SpanIds, Ids, Numbers
<1>6. WithIds(s, ids) = kept[Len(s)]
  BY DEF WithIds, Kept, kept
<1> QED
  BY <1>4, <1>5, <1>6
----------------------------------------------------------------------------
(* What export() puts on the wire has the ids of the spans it was given,   *)
(* in their order.                                                         *)
LEMMA RequestIds ==
  ASSUME NEW s \in Seq(Nat), NEW k \in 1..Len(s)
  PROVE  Ids([i \in 1..k |-> ToOtlp(ToOtel(s[i]))]) = Front(s, k)
<1> DEFINE request == [i \in 1..k |-> ToOtlp(ToOtel(s[i]))]
<1>1. ASSUME NEW n PROVE ToOtlp(ToOtel(n)).span_id = n
  BY DEF ToOtel, ToOtlp
<1>2. DOMAIN request = 1..k /\ \A i \in 1..k : request[i].span_id = s[i]
  BY <1>1
<1>3. Front(s, k) \in Seq(Nat) /\ Len(Front(s, k)) = k /\ \A i \in 1..k : Front(s, k)[i] = s[i]
  BY DEF Front
<1> HIDE DEF request
<1>4. Ids(request) = [i \in 1..k |-> s[i]]
  BY <1>2 DEF Ids
<1>5. Front(s, k) = [i \in 1..k |-> s[i]]
  BY <1>3
<1> QED
  BY <1>4, <1>5 DEF request

(* batch_aggregate's reads are in order, whatever is emitted between them. *)
LEMMA NextReadInOrder == Accounting /\ Order /\ ReadInOrder /\ [Next]_vars => ReadInOrder'
<1> SUFFICES ASSUME Accounting, Order, ReadInOrder, [Next]_vars PROVE ReadInOrder'
  OBVIOUS
<1>0. /\ emitted \in Nat /\ batch \in Seq(Nat) /\ Increasing(batch)
      /\ local \in [leaves : Seq(Nat), sigs : Nat, count : Nat]
  BY DEF Accounting, Types, Order
<1>1. CASE Emit
  <2>1. /\ Len(batch') = Len(batch) + 1 /\ Len(batch) \in Nat
        /\ UNCHANGED <<caller, local>>
    BY <1>0, <1>1 DEF Emit
  <2> QED
    BY <1>0, <2>1 DEF ReadInOrder
<1>2. CASE ReadLeaves
  <2>1. /\ caller' = "signing" /\ local'.leaves = batch /\ batch' = batch
    BY <1>2 DEF ReadLeaves, NoLocals
  <2> QED
    BY <1>0, <2>1 DEF ReadInOrder
<1>3. CASE SignLeaves
  <2>1. /\ caller = "signing" /\ caller' = "counting" /\ batch' = batch
        /\ local'.leaves = local.leaves /\ local'.sigs = Len(batch)
    BY <1>0, <1>3 DEF SignLeaves
  <2> QED
    BY <1>0, <2>1 DEF ReadInOrder, Reading
<1>4. CASE CountBatch
  <2>1. /\ caller = "counting" /\ caller' = "listing" /\ batch' = batch
        /\ local'.leaves = local.leaves /\ local'.sigs = local.sigs
        /\ local'.count = Len(batch)
    BY <1>0, <1>4 DEF CountBatch
  <2> QED
    BY <1>0, <2>1 DEF ReadInOrder, Reading
<1>5. CASE UNCHANGED <<caller, local, batch>>
  BY <1>5 DEF ReadInOrder
<1>6. CASE caller' \notin Reading
  BY <1>6 DEF ReadInOrder
<1>7. \/ Emit \/ ReadLeaves \/ SignLeaves \/ CountBatch
      \/ UNCHANGED <<caller, local, batch>> \/ caller' \notin Reading
  BY DEF Next, vars, emitterVars, Reading, AggregateNothing, ListSpans, DrainRender, DrainClear,
         Export, Ingest, ExportReturns, ExportRaises, AnswersFailure, ReceiptRaises, CallFails,
         GiveUp
<1> QED
  BY <1>1, <1>2, <1>3, <1>4, <1>5, <1>6, <1>7

(* Every aggregate stays sealed, and a new one is made of what was read.   *)
LEMMA NextSealed == Accounting /\ ReadInOrder /\ Sealed /\ [Next]_vars => Sealed'
<1> SUFFICES ASSUME Accounting, ReadInOrder, Sealed, [Next]_vars PROVE Sealed'
  OBVIOUS
<1>1. CASE AggregateNothing
  <2>1. Increasing(<<>>) /\ Len(<<>>) = 0 /\ <<>> \in Seq(Nat)
    BY DEF Increasing
  <2> DEFINE agg == BatchAggregate(<<>>, 0, 0, <<>>, Signer)
  <2>2. published' = published \cup {agg} /\ MadeOf(agg, <<>>, 0, 0, <<>>)
    BY <1>1, <2>1 DEF AggregateNothing, MadeOf
  <2> HIDE DEF agg
  <2>3. \E leaves, ids \in Seq(Nat), sigs, count \in Nat : MadeOf(agg, leaves, sigs, count, ids)
    BY <2>1, <2>2
  <2> QED
    BY <2>2, <2>3 DEF Sealed
<1>2. CASE ListSpans
  <2>1. /\ local.leaves \in Seq(Nat) /\ local.sigs \in Nat /\ local.count \in Nat
        /\ batch \in Seq(Nat) /\ caller = "listing"
    BY <1>2 DEF Accounting, Types, ListSpans
  <2> DEFINE agg == BatchAggregate(local.leaves, local.sigs, local.count, batch, Signer)
  <2>2. published' = published \cup {agg}
        /\ MadeOf(agg, local.leaves, local.sigs, local.count, batch)
    BY <1>2, <2>1 DEF ListSpans, MadeOf, ReadInOrder, Reading
  <2> HIDE DEF agg
  <2>3. \E leaves, ids \in Seq(Nat), sigs, count \in Nat : MadeOf(agg, leaves, sigs, count, ids)
    BY <2>1, <2>2
  <2> QED
    BY <2>2, <2>3 DEF Sealed
<1>3. CASE UNCHANGED published
  BY <1>3 DEF Sealed
<1>4. AggregateNothing \/ ListSpans \/ UNCHANGED published
  BY DEF Next, vars, emitterVars, Emit, ReadLeaves, SignLeaves, CountBatch, DrainRender, DrainClear,
         Export, Ingest, ExportReturns, ExportRaises, AnswersFailure, ReceiptRaises, CallFails,
         GiveUp
<1> QED
  BY <1>1, <1>2, <1>3, <1>4

(* What a sealed aggregate says, and says if it was read of one batch.     *)
LEMMA SealedSays ==
  ASSUME Sealed, NEW agg \in published
  PROVE  \E b \in Seq(Nat) :
           /\ Increasing(b) /\ agg.leaves = b /\ agg.root = MerkleRoot(b)
           /\ Whole(agg) => /\ agg.span_ids = b /\ agg.count = Len(b)
                            /\ agg.agg_sig = AggSig(Len(b), Signer, MerkleRoot(b))
<1>1. PICK leaves \in Seq(Nat), ids \in Seq(Nat) :
        \E sigs, count \in Nat : MadeOf(agg, leaves, sigs, count, ids)
  BY DEF Sealed
<1>2. PICK sigs \in Nat, count \in Nat : MadeOf(agg, leaves, sigs, count, ids)
  BY <1>1
<1>3. /\ Increasing(leaves) /\ agg.leaves = leaves /\ agg.root = MerkleRoot(leaves)
      /\ agg.span_ids = ids /\ agg.count = count
      /\ agg.agg_sig = AggSig(sigs, Signer, MerkleRoot(leaves))
      /\ Len(leaves) <= sigs /\ sigs <= count /\ count <= Len(ids)
  BY <1>2 DEF MadeOf, BatchAggregate
<1>4. ASSUME Whole(agg) PROVE ids = leaves /\ sigs = Len(leaves) /\ count = Len(leaves)
  <2>1. ids = leaves
    BY <1>3, <1>4 DEF Whole
  <2>2. Len(leaves) \in Nat
    OBVIOUS
  <2> QED
    BY <1>3, <2>1, <2>2
<1> QED
  BY <1>3, <1>4

(* Flow is inductive, given the accounting and the order.                  *)
LEMMA NextFlow == Accounting /\ Order /\ Flow /\ [Next]_vars => Flow'
<1> SUFFICES ASSUME Accounting, Order, Flow, [Next]_vars PROVE Flow'
  OBVIOUS
<1>0. /\ emitted \in Nat /\ batch \in Seq(Nat) /\ held \in Seq(Nat) /\ failures \in Nat
      /\ wire \in Seq(Seq(Spans)) /\ collected \in Seq(Spans)
      /\ SpanIds(collected) \subseteq 1..emitted
      /\ caller \in Reading \cup {"idle", "aggregated"} => held = <<>>
      /\ caller = "waiting" => pending \in 1..Len(held)
  BY DEF Accounting, Types, EverySpanAccounted, CallerHolds, CallUnderWay, SpanIds, Flow
<1>1. CASE Emit
  <2>0. PICK span : span = emitted + 1
    OBVIOUS
  <2>1. /\ batch' = Append(batch, span) /\ span \in Nat
        /\ UNCHANGED <<caller, held, pending, wire, arrived, collected, failures>>
    BY <1>0, <1>1, <2>0 DEF Emit
  <2>2. Numbers(batch') = Numbers(batch) \cup {span}
    BY <1>0, <2>1, NumbersAppend
  <2>3. Before(SpanIds(collected), {span})
    BY <1>0, <2>0 DEF Before
  <2>4. Unsent' = Unsent
    BY <2>1 DEF Unsent
  <2>5. failures = 0 => Before(SpanIds(collected), Numbers(Unsent) \cup Numbers(batch'))
    BY <2>2, <2>3 DEF Before, Flow
  <2> QED
    BY <2>1, <2>4, <2>5 DEF Flow
<1>2. CASE Aggregating
  <2>1. /\ caller # "waiting" /\ caller' # "waiting"
        /\ UNCHANGED <<batch, held, pending, wire, arrived, collected, failures>>
    BY <1>2, AggregatingReads DEF Accounting, exportVars, Reading
  <2>2. Unsent' = Unsent
    BY <2>1 DEF Unsent
  <2> QED
    BY <2>1, <2>2 DEF Flow
<1>3. CASE DrainRender
  <2>1. /\ caller = "aggregated" /\ caller' = "draining" /\ held' = batch
        /\ UNCHANGED <<batch, pending, wire, arrived, collected, failures>>
    BY <1>3 DEF DrainRender, emitterVars
  <2>2. Unsent' = batch
    BY <2>1 DEF Unsent
  <2> QED
    BY <2>1, <2>2 DEF Flow, Before
<1>4. CASE DrainClear
  <2>1. /\ caller = "draining" /\ caller' # "waiting" /\ batch' = <<>>
        /\ UNCHANGED <<held, pending, wire, arrived, collected, failures>>
    BY <1>4 DEF DrainClear
  <2>2. Unsent' = Unsent /\ Numbers(batch') = {}
    BY <2>1 DEF Unsent, Numbers
  <2> QED
    BY <2>1, <2>2 DEF Flow, Before
<1>5. ASSUME NEW k \in 1..Len(held), Export(k) PROVE Flow'
  <2> DEFINE request == [i \in 1..k |-> ToOtlp(ToOtel(held[i]))]
  <2>1. /\ caller = "exporting" /\ caller' = "waiting" /\ pending' = k /\ arrived' = FALSE
        /\ wire' = Append(wire, request)
        /\ UNCHANGED <<batch, held, collected, failures>>
    BY <1>5 DEF Export, emitterVars
  <2>2. Ids(request) = Front(held, k)
    BY <1>0, RequestIds
  <2> HIDE DEF request
  <2>3. Unsent' = Unsent
    BY <2>1 DEF Unsent
  <2>4. failures = 0 => wire' = <<request>>
    BY <2>1 DEF Flow
  <2>5. failures = 0 => Len(wire') = 1 /\ Ids(wire'[1]) = Front(held', pending')
    BY <2>1, <2>2, <2>4
  <2> QED
    BY <2>1, <2>3, <2>5 DEF Flow
<1>6. ASSUME NEW i \in 1..Len(wire), Ingest(i) PROVE Flow'
  <2>1. /\ collected' = collected \o wire[i] /\ wire' = Without(wire, i)
        /\ arrived' = (arrived \/ (caller = "waiting" /\ i = Len(wire)))
        /\ UNCHANGED <<batch, caller, held, pending, failures>>
    BY <1>6 DEF Ingest, emitterVars
  <2> SUFFICES ASSUME failures = 0 PROVE Flow'
    BY <1>0, <2>1 DEF Flow
  <2>2. wire # <<>> /\ wire[i] \in Seq(Spans)
    BY <1>0
  <2>3. /\ caller = "waiting" /\ ~arrived /\ Len(wire) = 1
        /\ Ids(wire[1]) = Front(held, pending)
    BY <2>2 DEF Flow
  <2>4. i = 1 /\ i = Len(wire)
    BY <2>3
  <2>5. pending \in 0..Len(held)
    BY <1>0, <2>3
  <2> DEFINE sent == Front(held, pending)
  <2>6. /\ Ids(wire[i]) = sent /\ SpanIds(wire[i]) = Numbers(sent)
        /\ Numbers(held) = Numbers(sent) \cup Numbers(After(held, pending))
        /\ Increasing(sent) /\ Before(Numbers(sent), Numbers(After(held, pending)))
    BY <1>0, <2>3, <2>4, <2>5, NumbersCut, IncreasingCut DEF Order, SpanIds
  <2>7. Unsent = held
    BY <2>3 DEF Unsent
  <2>8. /\ Increasing(Ids(collected)) /\ Before(SpanIds(collected), Numbers(held) \cup Numbers(batch))
        /\ Before(Numbers(held), Numbers(batch))
    BY <2>3, <2>7 DEF Flow, Order
  <2> HIDE DEF sent
  <2>9. Increasing(Ids(collected'))
    <3>1. Before(SpanIds(collected), SpanIds(wire[i])) /\ Increasing(Ids(wire[i]))
      BY <2>6, <2>8 DEF Before
    <3>2. Increasing(Ids(collected \o wire[i]))
      BY <1>0, <2>2, <2>8, <3>1, IncreasingConcat
    <3> QED
      BY <2>1, <3>2
  <2>10. SpanIds(collected') = SpanIds(collected) \cup Numbers(sent)
    BY <1>0, <2>1, <2>2, <2>6, SpanIdsConcat
  <2>11. arrived'
    BY <2>1, <2>3, <2>4, Zenon
  <2>12. Unsent' = After(held, pending)
    BY <2>1, <2>3, <2>11 DEF Unsent
  <2>13. Before(SpanIds(collected'), Numbers(After(held, pending)) \cup Numbers(batch))
    BY <2>6, <2>8, <2>10 DEF Before
  <2>14. wire' = <<>>
    <3>0. Without(wire, i) \in Seq(Seq(Spans)) /\ Len(Without(wire, i)) = Len(wire) - 1
      BY <1>0, WireWithout
    <3>1. Without(wire, i) \in Seq(Seq(Spans)) /\ Len(Without(wire, i)) = 0
      BY <2>3, <3>0
    <3> QED
      BY <2>1, <3>1
  <2> QED
    BY <1>0, <2>1, <2>3, <2>9, <2>11, <2>12, <2>13, <2>14 DEF Flow
<1>7. CASE ExportReturns
  <2>1. /\ caller = "waiting" /\ arrived /\ held' = After(held, pending) /\ caller' # "waiting"
        /\ UNCHANGED <<batch, wire, collected, failures>>
    BY <1>7 DEF ExportReturns, emitterVars
  <2>2. Unsent' = Unsent
    BY <2>1 DEF Unsent
  <2> QED
    BY <2>1, <2>2 DEF Flow
<1>8. ASSUME NEW lost \in BOOLEAN, CallFails(lost) PROVE Flow'
  <2>1. failures' = failures + 1
    BY <1>8 DEF CallFails
  <2> QED
    BY <1>0, <2>1 DEF Flow
<1>9. CASE GiveUp
  <2>1. failures > 0 /\ failures' = failures
    BY <1>9 DEF GiveUp
  <2> QED
    BY <1>0, <2>1 DEF Flow
<1>10. CASE UNCHANGED vars
  BY <1>10 DEF vars, emitterVars, exportVars, Flow, Unsent
<1> QED
  BY <1>1, <1>2, <1>3, <1>4, <1>5, <1>6, <1>7, <1>8, <1>9, <1>10
     DEF Next, Aggregating, ExportRaises, AnswersFailure, ReceiptRaises

LEMMA SpecFlow == Spec => [](ReadInOrder /\ Sealed /\ Flow)
<1>1. Init => ReadInOrder /\ Sealed /\ Flow
  <2> SUFFICES ASSUME Init PROVE ReadInOrder /\ Sealed /\ Flow
    OBVIOUS
  <2>1. Numbers(<<>>) = {} /\ SpanIds(<<>>) = {} /\ Increasing(Ids(<<>>))
    BY DEF Numbers, SpanIds, Ids, Increasing
  <2> QED
    BY <2>1 DEF Init, ReadInOrder, Reading, Sealed, Flow, Before, Unsent
<1> QED
  BY <1>1, NextReadInOrder, NextSealed, NextFlow, SpecAccounting, SpecHonest, PTL DEF Spec

(* When no export failed, an aggregate that was read of one batch and      *)
(* whose spans have all arrived verifies in both SDKs (batch_aggregate,    *)
(* drain, export, verify_batch).                                           *)
THEOREM SpecCleanDeliveryVerifies == Spec => []CleanDeliveryVerifies
<1>1. Accounting /\ Sealed /\ Flow => CleanDeliveryVerifies
  <2> SUFFICES ASSUME Accounting, Sealed, Flow, failures = 0, NEW agg \in published,
                      Whole(agg), Numbers(agg.span_ids) \subseteq SpanIds(collected)
               PROVE  AcceptsPy(agg) /\ AcceptsTs(agg)
    BY DEF CleanDeliveryVerifies, SpanIds
  <2>1. PICK b \in Seq(Nat) :
          /\ Increasing(b) /\ agg.root = MerkleRoot(b)
          /\ agg.span_ids = b /\ agg.count = Len(b)
          /\ agg.agg_sig = AggSig(Len(b), Signer, MerkleRoot(b))
    BY SealedSays
  <2>2. /\ agg.span_ids = b /\ agg.count = Len(b) /\ agg.root = MerkleRoot(b)
        /\ agg.agg_sig = AggSig(Len(b), Signer, MerkleRoot(b))
    BY <2>1
  <2>3. collected \in Seq(Spans) /\ Increasing(Ids(collected))
    BY DEF Accounting, Types, Flow
  <2>4. /\ Fetched(agg) \in Seq(Spans) /\ Increasing(Ids(Fetched(agg)))
        /\ SpanIds(Fetched(agg)) = Numbers(b)
    <3>1. /\ WithIds(collected, Numbers(b)) \in Seq(Spans)
          /\ SpanIds(WithIds(collected, Numbers(b))) = SpanIds(collected) \cap Numbers(b)
          /\ Increasing(Ids(WithIds(collected, Numbers(b))))
      BY <2>3, WithIdsKeeps
    <3>2. Fetched(agg) = WithIds(collected, Numbers(b))
      BY <2>2 DEF Fetched
    <3>3. SpanIds(collected) \cap Numbers(b) = Numbers(b)
      BY <2>2
    <3> QED
      BY <3>1, <3>2, <3>3
  <2>5. Leaves(Fetched(agg)) = b
    BY <2>1, <2>4, IdsOfSpans, IncreasingUnique DEF SpanIds
  <2> QED
    BY <2>2, <2>5 DEF AcceptsPy, AcceptsTs, VerifyPy, VerifyTs, AggregateVerify
<1> QED
  BY <1>1, SpecAccounting, SpecFlow, PTL
----------------------------------------------------------------------------
(* A set of naturals has a least element.                                  *)
LEMMA NatLeast ==
  ASSUME NEW D \in SUBSET Nat, D # {}
  PROVE  \E d \in D : \A k \in D : d <= k
<1> DEFINE R == OpToRel(<, Nat)
<1>1. IsWellFoundedOn(R, Nat)
  BY NatLessThanWellFounded
<1>2. \A x, y \in Nat : x < y => <<x, y>> \in R
  BY DEF OpToRel
<1> HIDE DEF R
<1>3. PICK d \in D : \A k \in D : ~ (<<k, d>> \in R)
  BY <1>1, WFMin
<1>4. ASSUME NEW k \in D PROVE d <= k
  <2>1. d \in Nat /\ k \in Nat /\ ~ (k < d)
    BY <1>2, <1>3
  <2> QED
    BY <2>1
<1> QED
  BY <1>4

\* One level of the tree from the one below it.
Up(level) == IF Len(level) > 1 THEN PairUp(Pad(level)) ELSE level

Bottom(x) == [i \in 1..Len(x) |-> <<x[i]>>]

\* The levels of the tree over x, up to the k-th.
Ups(x, k) ==
  LET up[j \in 0..k] ==
        IF j = 0 THEN [i \in 1..Len(x) |-> <<x[i]>>]
        ELSE IF Len(up[j - 1]) > 1 THEN PairUp(Pad(up[j - 1]))
        ELSE up[j - 1]
  IN  up

LEMMA UpsUnfold ==
  ASSUME NEW x, NEW k \in Nat
  PROVE  Ups(x, k)[0] = Bottom(x) /\ \A j \in 1..k : Ups(x, k)[j] = Up(Ups(x, k)[j - 1])
<1> DEFINE Good(f, n) == f = [j \in 0..n |-> IF j = 0 THEN Bottom(x) ELSE Up(f[j - 1])]
           T == {n \in Nat : \E f : Good(f, n)}
<1>1. 0 \in T
  <2>1. Good([j \in 0..0 |-> Bottom(x)], 0)
    OBVIOUS
  <2> HIDE DEF Good
  <2> QED
    BY <2>1
<1>2. ASSUME NEW n \in Nat, n \in T PROVE n + 1 \in T
  <2>1. PICK f : Good(f, n)
    BY <1>2
  <2> DEFINE g == [j \in 0..(n + 1) |-> IF j = n + 1 THEN Up(f[n]) ELSE f[j]]
  <2>2. \A j \in 0..n : f[j] = IF j = 0 THEN Bottom(x) ELSE Up(f[j - 1])
    BY <2>1
  <2>3. ASSUME NEW j \in 0..(n + 1) PROVE g[j] = IF j = 0 THEN Bottom(x) ELSE Up(g[j - 1])
    <3>1. CASE j = n + 1
      <4>1. g[j] = Up(f[n]) /\ j # 0 /\ j - 1 = n /\ g[n] = f[n]
        BY <3>1
      <4> QED
        BY <4>1
    <3>2. CASE j # n + 1
      <4>1. j \in 0..n /\ (j # 0 => j - 1 \in 0..n)
        BY <3>2
      <4>2. g[j] = f[j] /\ (j # 0 => g[j - 1] = f[j - 1])
        BY <3>2, <4>1
      <4> HIDE DEF g
      <4> QED
        BY <2>2, <4>1, <4>2
    <3> QED
      BY <3>1, <3>2
  <2>4. g = [j \in 0..(n + 1) |-> g[j]]
    OBVIOUS
  <2>5. Good(g, n + 1)
    <3> HIDE DEF g
    <3> QED
      BY <2>3, <2>4
  <2> HIDE DEF g, Good
  <2> QED
    BY <2>5
<1>3. PICK f : Good(f, k)
  <2> HIDE DEF Good
  <2>1. k \in T
    <3> HIDE DEF T
    <3> QED
      BY <1>1, <1>2, NatSetInduction
  <2> QED
    BY <2>1
<1>4. Ups(x, k) = CHOOSE h : Good(h, k)
  BY DEF Ups, Bottom, Up
<1> DEFINE u == Ups(x, k)
<1> HIDE DEF u
<1>5. Good(u, k)
  <2> HIDE DEF Good
  <2> QED
    BY <1>3, <1>4 DEF u
<1>6. \A j \in 0..k : u[j] = IF j = 0 THEN Bottom(x) ELSE Up(u[j - 1])
  BY <1>5
<1>7. 0 \in 0..k /\ \A j \in 1..k : j \in 0..k /\ j # 0
  OBVIOUS
<1> QED
  BY <1>6, <1>7 DEF u

(* Level by level.                                                         *)
LEMMA LevelUnfold ==
  ASSUME NEW x
  PROVE  Level(x, 0) = Bottom(x) /\ \A k \in Nat : Level(x, k + 1) = Up(Level(x, k))
<1>1. \A k : Level(x, k) = Ups(x, k)[k]
  BY DEF Level, Ups
<1>2. Level(x, 0) = Bottom(x)
  BY <1>1, UpsUnfold
<1>3. ASSUME NEW k \in Nat PROVE Level(x, k + 1) = Up(Level(x, k))
  <2> DEFINE T == {j \in Nat : j <= k => Ups(x, k + 1)[j] = Ups(x, k)[j]}
  <2>1. /\ Ups(x, k)[0] = Bottom(x) /\ Ups(x, k + 1)[0] = Bottom(x)
        /\ \A j \in 1..k : Ups(x, k)[j] = Up(Ups(x, k)[j - 1])
        /\ \A j \in 1..(k + 1) : Ups(x, k + 1)[j] = Up(Ups(x, k + 1)[j - 1])
    BY UpsUnfold
  <2>2. 0 \in T
    BY <2>1
  <2>3. ASSUME NEW j \in Nat, j \in T PROVE j + 1 \in T
    <3> SUFFICES ASSUME j + 1 <= k PROVE Ups(x, k + 1)[j + 1] = Ups(x, k)[j + 1]
      OBVIOUS
    <3>1. j + 1 \in 1..k /\ j + 1 \in 1..(k + 1) /\ j <= k /\ (j + 1) - 1 = j
      OBVIOUS
    <3>2. Ups(x, k)[j + 1] = Up(Ups(x, k)[j])
      BY <2>1, <3>1
    <3>3. Ups(x, k + 1)[j + 1] = Up(Ups(x, k + 1)[j])
      BY <2>1, <3>1
    <3> QED
      BY <2>3, <3>1, <3>2, <3>3
  <2>4. k \in T
    <3> HIDE DEF T
    <3> QED
      BY <2>2, <2>3, NatSetInduction
  <2>5. Ups(x, k + 1)[k] = Ups(x, k)[k]
    BY <2>4
  <2>6. k + 1 \in 1..(k + 1) /\ (k + 1) - 1 = k
    OBVIOUS
  <2>7. Ups(x, k + 1)[k + 1] = Up(Ups(x, k + 1)[k])
    BY <2>1, <2>6
  <2> QED
    BY <1>1, <2>5, <2>7
<1> QED
  BY <1>2, <1>3

(* A level has half as many nodes as the one below, rounded up, and node p *)
(* holds the nodes 2p - 1 and 2p of it, or the last one twice.             *)
LEMMA UpShape ==
  ASSUME NEW V, NEW l \in Seq(V), Len(l) > 1
  PROVE  /\ Up(l) \in Seq(V \X V) /\ Len(l) <= 2 * Len(Up(l)) /\ 2 * Len(Up(l)) <= Len(l) + 1
         /\ \A p \in 1..Len(Up(l)) :
              Up(l)[p] = <<l[2 * p - 1], IF 2 * p <= Len(l) THEN l[2 * p] ELSE l[Len(l)]>>
<1> DEFINE n == Len(l)
           m == n \div 2
           q == Pad(l)
<1>0. n \in Nat /\ n > 1 /\ m \in Nat /\ (n = 2 * m \/ n = 2 * m + 1)
  OBVIOUS
<1>1. \A i \in 1..n : l[i] \in V
  OBVIOUS
<1>2. CASE n = 2 * m
  <2>1. q = l
    <3>1. n % 2 = 0
      BY <1>0, <1>2
    <3> QED
      BY <3>1 DEF Pad
  <2>2. Up(l) = [i \in 1..m |-> <<l[2 * i - 1], l[2 * i]>>]
    BY <1>0, <2>1 DEF Up, PairUp
  <2>3. \A i \in 1..m : 2 * i - 1 \in 1..n /\ 2 * i \in 1..n /\ 2 * i <= n
    BY <1>0, <1>2
  <2>4. \A i \in 1..m : <<l[2 * i - 1], l[2 * i]>> \in V \X V
    BY <1>1, <2>3
  <2>5. Up(l) \in Seq(V \X V) /\ Len(Up(l)) = m
    BY <1>0, <2>2, <2>4
  <2>6. n <= 2 * m /\ 2 * m <= n + 1
    BY <1>0, <1>2
  <2> QED
    BY <2>2, <2>3, <2>5, <2>6
<1>3. CASE n = 2 * m + 1
  <2>1. q = Append(l, l[n])
    <3>1. n % 2 = 1
      BY <1>0, <1>3
    <3> QED
      BY <3>1 DEF Pad
  <2>2. /\ Len(q) = n + 1 /\ \A i \in 1..n : q[i] = l[i]
        /\ q[n + 1] = l[n]
    BY <1>0, <1>1, <2>1
  <2>3. (n + 1) \div 2 = m + 1
    BY <1>0, <1>3
  <2> DEFINE node(i) == <<l[2 * i - 1], IF 2 * i <= n THEN l[2 * i] ELSE l[n]>>
  <2>4. Up(l) = [i \in 1..(m + 1) |-> <<q[2 * i - 1], q[2 * i]>>]
    BY <1>0, <2>2, <2>3 DEF Up, PairUp
  <2>5. ASSUME NEW i \in 1..(m + 1)
        PROVE  <<q[2 * i - 1], q[2 * i]>> = node(i) /\ node(i) \in V \X V
    <3>1. CASE i = m + 1
      <4>1. 2 * i - 1 = n /\ 2 * i = n + 1 /\ ~ (2 * i <= n) /\ n \in 1..n
        BY <1>0, <1>3, <3>1
      <4> QED
        BY <1>1, <2>2, <4>1
    <3>2. CASE i # m + 1
      <4>1. 2 * i - 1 \in 1..n /\ 2 * i \in 1..n /\ 2 * i <= n
        BY <1>0, <1>3, <3>2
      <4> QED
        BY <1>1, <2>2, <4>1
    <3> QED
      BY <3>1, <3>2
  <2> HIDE DEF q
  <2>6. Up(l) = [i \in 1..(m + 1) |-> node(i)]
    BY <2>4, <2>5
  <2>7. Up(l) \in Seq(V \X V) /\ Len(Up(l)) = m + 1
    <3> HIDE DEF node
    <3> QED
      BY <1>0, <2>5, <2>6
  <2>8. n <= 2 * (m + 1) /\ 2 * (m + 1) <= n + 1
    BY <1>0, <1>3
  <2> QED
    BY <2>6, <2>7, <2>8
<1> QED
  BY <1>0, <1>2, <1>3
----------------------------------------------------------------------------
(* Every level is a list with a node in it, and gets shorter until it has  *)
(* one.                                                                    *)
LEMMA LevelShape ==
  ASSUME NEW x \in Seq(Nat), x # <<>>, NEW k \in Nat
  PROVE  /\ \E V : Level(x, k) \in Seq(V)
         /\ Len(Level(x, k)) \in Nat /\ Len(Level(x, k)) >= 1
         /\ Len(Level(x, k)) = 1 \/ Len(Level(x, k)) + k <= Len(x)
<1> DEFINE lev(n) == Level(x, n)
           Fine(n) == /\ \E V : lev(n) \in Seq(V)
                      /\ Len(lev(n)) \in Nat /\ Len(lev(n)) >= 1
                      /\ Len(lev(n)) = 1 \/ Len(lev(n)) + n <= Len(x)
           T == {n \in Nat : Fine(n)}
<1>0. Len(x) \in Nat /\ Len(x) >= 1 /\ \A i \in 1..Len(x) : x[i] \in Nat
  OBVIOUS
<1>1. lev(0) = Bottom(x) /\ \A n \in Nat : lev(n + 1) = Up(lev(n))
  BY LevelUnfold
<1> HIDE DEF lev
<1>2. 0 \in T
  <2> DEFINE W == {<<e>> : e \in Nat}
  <2>1. Bottom(x) \in Seq(W) /\ Len(Bottom(x)) = Len(x)
    BY <1>0 DEF Bottom
  <2> HIDE DEF W
  <2>2. lev(0) \in Seq(W) /\ Len(lev(0)) = Len(x)
    BY <1>1, <2>1
  <2>3. Len(x) + 0 <= Len(x)
    BY <1>0
  <2>4. Fine(0)
    BY <1>0, <2>2, <2>3
  <2> HIDE DEF Fine
  <2> QED
    BY <2>4
<1>3. ASSUME NEW n \in Nat, n \in T PROVE n + 1 \in T
  <2>1. PICK V : lev(n) \in Seq(V)
    BY <1>3
  <2>2. /\ Len(lev(n)) \in Nat /\ Len(lev(n)) >= 1
        /\ Len(lev(n)) = 1 \/ Len(lev(n)) + n <= Len(x)
    BY <1>3
  <2>3. lev(n + 1) = Up(lev(n))
    BY <1>1
  <2> SUFFICES Fine(n + 1)
    <3> HIDE DEF Fine
    <3> QED
      OBVIOUS
  <2>4. CASE Len(lev(n)) = 1
    <3>1. lev(n + 1) = lev(n)
      BY <2>3, <2>4 DEF Up
    <3>2. lev(n + 1) \in Seq(V) /\ Len(lev(n + 1)) = 1
      BY <2>1, <2>4, <3>1
    <3>3. \E S : lev(n + 1) \in Seq(S)
      BY <3>2
    <3>4. Len(lev(n + 1)) \in Nat /\ Len(lev(n + 1)) >= 1
      <4> DEFINE c == Len(lev(n + 1))
      <4>1. c = 1
        BY <3>2
      <4> HIDE DEF c
      <4>2. c \in Nat /\ c >= 1
        BY <4>1
      <4> QED
        BY <4>2 DEF c
    <3> QED
      BY <3>2, <3>3, <3>4, Zenon
  <2>5. CASE Len(lev(n)) > 1
    <3> DEFINE l == lev(n)
               u == lev(n + 1)
    <3>1. l \in Seq(V) /\ Len(l) > 1 /\ u = Up(l)
      BY <2>1, <2>3, <2>5
    <3>2. Len(l) + n <= Len(x)
      <4> DEFINE c == Len(lev(n))
      <4>1. c \in Nat /\ c > 1 /\ (c = 1 \/ c + n <= Len(x))
        BY <2>2, <2>5
      <4> HIDE DEF c
      <4>2. c + n <= Len(x)
        BY <4>1
      <4> QED
        BY <4>2 DEF c
    <3> HIDE DEF l, u
    <3>3. u \in Seq(V \X V) /\ Len(l) <= 2 * Len(u) /\ 2 * Len(u) <= Len(l) + 1
      BY <3>1, UpShape
    <3>4. Len(l) \in Nat /\ Len(u) \in Nat
      BY <3>1, <3>3
    <3>5. Len(u) >= 1 /\ Len(u) + 1 <= Len(l)
      BY <3>1, <3>3, <3>4
    <3>6. Len(u) + (n + 1) <= Len(x)
      BY <1>0, <3>2, <3>4, <3>5
    <3>7. \E S : u \in Seq(S)
      BY <3>3
    <3> QED
      BY <3>4, <3>5, <3>6, <3>7 DEF u
  <2>6. Len(lev(n)) = 1 \/ Len(lev(n)) > 1
    <3> DEFINE c == Len(lev(n))
    <3>1. c \in Nat /\ c >= 1
      BY <2>2
    <3> HIDE DEF c
    <3>2. c = 1 \/ c > 1
      BY <3>1
    <3> QED
      BY <3>2 DEF c
  <2> QED
    BY <2>4, <2>5, <2>6
<1>4. k \in T
  <2> HIDE DEF T
  <2> QED
    BY <1>2, <1>3, NatSetInduction
<1> QED
  BY <1>4 DEF lev

(* The root is the one node of the first level that has one.               *)
LEMMA RootAtHeight ==
  ASSUME NEW x \in Seq(Nat), x # <<>>
  PROVE  \E d \in Nat :
           /\ Len(Level(x, d)) = 1
           /\ \A k \in Nat : k < d => Len(Level(x, k)) > 1
           /\ MerkleRoot(x) = Level(x, d)[1]
<1> DEFINE D == {k \in Nat : Len(Level(x, k)) = 1}
           n == Len(x)
<1>0. n \in Nat /\ n >= 1
  OBVIOUS
<1>1. n \in D
  <2> DEFINE c == Len(Level(x, n))
  <2>1. c \in Nat /\ c >= 1 /\ (c = 1 \/ c + n <= n)
    BY <1>0, LevelShape
  <2> HIDE DEF c
  <2>2. c = 1
    BY <1>0, <2>1
  <2> QED
    BY <1>0, <2>2 DEF c
<1>2. PICK d \in D : \A k \in D : d <= k
  <2> HIDE DEF D
  <2>1. D \in SUBSET Nat
    BY DEF D
  <2> QED
    BY <1>1, <2>1, NatLeast
<1>3. ASSUME NEW k \in Nat, k < d PROVE Len(Level(x, k)) > 1
  <2> DEFINE c == Len(Level(x, k))
  <2>1. c \in Nat /\ c >= 1
    BY LevelShape
  <2>2. c # 1
    BY <1>2, <1>3
  <2> HIDE DEF c
  <2>3. c > 1
    BY <2>1, <2>2
  <2> QED
    BY <2>3 DEF c
<1> DEFINE T == {j \in Nat : Level(x, d + j) = Level(x, d)}
<1>4. d \in Nat /\ Len(Level(x, d)) = 1 /\ n - d \in Nat /\ d + (n - d) = n
  BY <1>0, <1>1, <1>2
<1> HIDE DEF D
<1>5. 0 \in T
  BY <1>4
<1>6. ASSUME NEW j \in Nat, j \in T PROVE j + 1 \in T
  <2>1. d + (j + 1) = (d + j) + 1 /\ d + j \in Nat
    BY <1>4
  <2>2. Level(x, (d + j) + 1) = Up(Level(x, d + j))
    BY <2>1, LevelUnfold
  <2>3. Up(Level(x, d)) = Level(x, d)
    BY <1>4 DEF Up
  <2> QED
    BY <1>6, <2>1, <2>2, <2>3
<1>7. Level(x, n) = Level(x, d)
  <2>1. n - d \in T
    <3> HIDE DEF T
    <3> QED
      BY <1>4, <1>5, <1>6, NatSetInduction
  <2> QED
    BY <1>4, <2>1
<1> QED
  BY <1>3, <1>4, <1>7 DEF MerkleRoot

\* Two levels agree where both have a node, and have the same nodes.
Agree(a, b) ==
  /\ \A i \in DOMAIN a : i \in DOMAIN b => a[i] = b[i]
  /\ Numbers(a) = Numbers(b)

(* Levels agree when those above them do.                                  *)
LEMMA SubsetDown ==
  ASSUME NEW V, NEW W, NEW a \in Seq(V), NEW b \in Seq(W), Len(a) > 1, Len(b) > 1,
         Numbers(Up(a)) \subseteq Numbers(Up(b))
  PROVE  Numbers(a) \subseteq Numbers(b)
<1>0. /\ DOMAIN a = 1..Len(a) /\ DOMAIN b = 1..Len(b) /\ Len(a) \in Nat /\ Len(b) \in Nat
  OBVIOUS
<1> DEFINE u == Up(a)
           v == Up(b)
<1>1. /\ u \in Seq(V \X V) /\ Len(a) <= 2 * Len(u) /\ 2 * Len(u) <= Len(a) + 1
      /\ \A p \in 1..Len(u) : u[p] = <<a[2 * p - 1], IF 2 * p <= Len(a) THEN a[2 * p] ELSE a[Len(a)]>>
  BY UpShape
<1>2. /\ v \in Seq(W \X W) /\ Len(b) <= 2 * Len(v) /\ 2 * Len(v) <= Len(b) + 1
      /\ \A p \in 1..Len(v) : v[p] = <<b[2 * p - 1], IF 2 * p <= Len(b) THEN b[2 * p] ELSE b[Len(b)]>>
  BY UpShape
<1>3. Numbers(u) \subseteq Numbers(v)
  OBVIOUS
<1> HIDE DEF u, v
<1>4. /\ DOMAIN u = 1..Len(u) /\ DOMAIN v = 1..Len(v) /\ Len(u) \in Nat /\ Len(v) \in Nat
  BY <1>1, <1>2
<1>5. ASSUME NEW q \in 1..Len(v) PROVE v[q][1] \in Numbers(b) /\ v[q][2] \in Numbers(b)
  <2>1. 2 * q - 1 \in 1..Len(b) /\ Len(b) \in 1..Len(b) /\ (2 * q <= Len(b) => 2 * q \in 1..Len(b))
    BY <1>0, <1>2, <1>4
  <2>2. /\ v[q][1] = b[2 * q - 1]
        /\ v[q][2] = IF 2 * q <= Len(b) THEN b[2 * q] ELSE b[Len(b)]
    BY <1>2
  <2> QED
    BY <1>0, <2>1, <2>2 DEF Numbers
<1>6. ASSUME NEW i \in 1..Len(a) PROVE a[i] \in Numbers(b)
  <2>1. PICK p \in Nat : i = 2 * p - 1 \/ i = 2 * p
    <3>1. (i + 1) \div 2 \in Nat /\ (i = 2 * ((i + 1) \div 2) - 1 \/ i = 2 * ((i + 1) \div 2))
      BY <1>0
    <3> QED
      BY <3>1
  <2>2. p \in 1..Len(u)
    BY <1>0, <1>1, <1>4, <2>1
  <2>3. a[i] = u[p][1] \/ a[i] = u[p][2]
    <3>1. CASE i = 2 * p - 1
      BY <1>1, <2>2, <3>1
    <3>2. CASE i = 2 * p
      <4>1. 2 * p <= Len(a)
        BY <1>0, <3>2
      <4> QED
        BY <1>1, <2>2, <3>2, <4>1
    <3> QED
      BY <2>1, <3>1, <3>2
  <2>4. PICK q \in 1..Len(v) : u[p] = v[q]
    BY <1>3, <1>4, <2>2 DEF Numbers
  <2> QED
    BY <1>5, <2>3, <2>4
<1> QED
  BY <1>0, <1>6 DEF Numbers

LEMMA AgreeDown ==
  ASSUME NEW V, NEW W, NEW a \in Seq(V), NEW b \in Seq(W), Len(a) > 1, Len(b) > 1,
         Agree(Up(a), Up(b))
  PROVE  Agree(a, b)
<1>0. /\ DOMAIN a = 1..Len(a) /\ DOMAIN b = 1..Len(b) /\ Len(a) \in Nat /\ Len(b) \in Nat
  OBVIOUS
<1>1. Numbers(a) = Numbers(b)
  <2>1. Numbers(Up(a)) \subseteq Numbers(Up(b)) /\ Numbers(Up(b)) \subseteq Numbers(Up(a))
    BY DEF Agree
  <2>2. Numbers(a) \subseteq Numbers(b)
    BY <2>1, SubsetDown
  <2>3. Numbers(b) \subseteq Numbers(a)
    BY <2>1, SubsetDown
  <2> QED
    BY <2>2, <2>3
<1> DEFINE u == Up(a)
           v == Up(b)
<1>2. /\ u \in Seq(V \X V) /\ Len(a) <= 2 * Len(u) /\ 2 * Len(u) <= Len(a) + 1
      /\ \A p \in 1..Len(u) : u[p] = <<a[2 * p - 1], IF 2 * p <= Len(a) THEN a[2 * p] ELSE a[Len(a)]>>
  BY UpShape
<1>3. /\ v \in Seq(W \X W) /\ Len(b) <= 2 * Len(v) /\ 2 * Len(v) <= Len(b) + 1
      /\ \A p \in 1..Len(v) : v[p] = <<b[2 * p - 1], IF 2 * p <= Len(b) THEN b[2 * p] ELSE b[Len(b)]>>
  BY UpShape
<1>4. \A i \in DOMAIN u : i \in DOMAIN v => u[i] = v[i]
  BY DEF Agree
<1> HIDE DEF u, v
<1>5. /\ DOMAIN u = 1..Len(u) /\ DOMAIN v = 1..Len(v) /\ Len(u) \in Nat /\ Len(v) \in Nat
  BY <1>2, <1>3
<1>6. ASSUME NEW i \in 1..Len(a), i \in 1..Len(b) PROVE a[i] = b[i]
  <2>1. PICK p \in Nat : i = 2 * p - 1 \/ i = 2 * p
    <3>1. (i + 1) \div 2 \in Nat /\ (i = 2 * ((i + 1) \div 2) - 1 \/ i = 2 * ((i + 1) \div 2))
      BY <1>0
    <3> QED
      BY <3>1
  <2>2. p \in 1..Len(u) /\ p \in 1..Len(v)
    BY <1>0, <1>2, <1>3, <1>5, <1>6, <2>1
  <2>3. u[p] = v[p]
    BY <1>4, <1>5, <2>2
  <2>4. CASE i = 2 * p - 1
    <3>1. u[p][1] = a[i] /\ v[p][1] = b[i]
      BY <1>2, <1>3, <2>2, <2>4
    <3> QED
      BY <2>3, <3>1
  <2>5. CASE i = 2 * p
    <3>1. 2 * p <= Len(a) /\ 2 * p <= Len(b)
      BY <1>0, <1>6, <2>5
    <3>2. u[p][2] = a[i] /\ v[p][2] = b[i]
      BY <1>2, <1>3, <2>2, <2>5, <3>1
    <3> QED
      BY <2>3, <3>2
  <2> QED
    BY <2>1, <2>4, <2>5
<1> QED
  BY <1>0, <1>1, <1>6 DEF Agree
----------------------------------------------------------------------------
(* Two levels whose trees have the same root agree, as far down as both    *)
(* trees go.                                                               *)
LEMMA LevelsAgree ==
  ASSUME NEW x \in Seq(Nat), NEW y \in Seq(Nat), x # <<>>, y # <<>>,
         NEW d \in Nat, NEW e \in Nat,
         Len(Level(x, d)) = 1, \A k \in Nat : k < d => Len(Level(x, k)) > 1,
         Len(Level(y, e)) = 1, \A k \in Nat : k < e => Len(Level(y, k)) > 1,
         Level(x, d)[1] = Level(y, e)[1],
         NEW j \in Nat, j <= d, j <= e
  PROVE  Agree(Level(x, d - j), Level(y, e - j))
<1> DEFINE T == {i \in Nat : i <= d /\ i <= e => Agree(Level(x, d - i), Level(y, e - i))}
<1>1. 0 \in T
  <2> DEFINE a == Level(x, d)
             b == Level(y, e)
  <2>1. PICK V : a \in Seq(V)
    BY LevelShape
  <2>2. PICK W : b \in Seq(W)
    BY LevelShape
  <2>3. Len(a) = 1 /\ Len(b) = 1 /\ a[1] = b[1]
    OBVIOUS
  <2> HIDE DEF a, b
  <2>4. DOMAIN a = 1..1 /\ DOMAIN b = 1..1
    BY <2>1, <2>2, <2>3
  <2>5. Agree(a, b)
    BY <2>3, <2>4 DEF Agree, Numbers
  <2>6. d - 0 = d /\ e - 0 = e
    OBVIOUS
  <2> QED
    BY <2>5, <2>6 DEF a, b
<1>2. ASSUME NEW i \in Nat, i \in T PROVE i + 1 \in T
  <2> SUFFICES ASSUME i + 1 <= d, i + 1 <= e
               PROVE  Agree(Level(x, d - (i + 1)), Level(y, e - (i + 1)))
    OBVIOUS
  <2> DEFINE m == d - (i + 1)
             n == e - (i + 1)
             a == Level(x, m)
             b == Level(y, n)
  <2>1. /\ m \in Nat /\ m + 1 = d - i /\ m < d /\ n \in Nat /\ n + 1 = e - i /\ n < e
        /\ i <= d /\ i <= e
    OBVIOUS
  <2>2. Agree(Level(x, d - i), Level(y, e - i))
    BY <1>2, <2>1
  <2> HIDE DEF m, n
  <2>3. Level(x, d - i) = Up(a) /\ Level(y, e - i) = Up(b)
    <3>1. Level(x, m + 1) = Up(Level(x, m)) /\ Level(y, n + 1) = Up(Level(y, n))
      BY <2>1, LevelUnfold
    <3> QED
      BY <2>1, <3>1
  <2>4. Len(a) > 1 /\ Len(b) > 1
    BY <2>1
  <2>5. PICK V : a \in Seq(V)
    BY <2>1, LevelShape
  <2>6. PICK W : b \in Seq(W)
    BY <2>1, LevelShape
  <2> HIDE DEF a, b
  <2>7. Agree(a, b)
    BY <2>2, <2>3, <2>4, <2>5, <2>6, AgreeDown
  <2> QED
    BY <2>7 DEF a, b, m, n
<1>3. j \in T
  <2> HIDE DEF T
  <2> QED
    BY <1>1, <1>2, NatSetInduction
<1> QED
  BY <1>3

(* A leaf is not an inner node: trees with the same root are as high.      *)
LEMMA NoHigher ==
  ASSUME NEW x \in Seq(Nat), NEW y \in Seq(Nat), x # <<>>, y # <<>>,
         NEW k \in Nat, Len(Level(y, k)) > 1,
         Agree(Bottom(x), Level(y, k + 1))
  PROVE  FALSE
<1> DEFINE l == Level(y, k)
           u == Level(y, k + 1)
<1>1. PICK V : l \in Seq(V)
  BY LevelShape
<1>2. u = Up(l) /\ Len(l) > 1
  BY LevelUnfold
<1>3. Agree(Bottom(x), u)
  OBVIOUS
<1> HIDE DEF l, u
<1>4. /\ Len(u) \in Nat /\ Len(l) \in Nat /\ Len(l) <= 2 * Len(u) /\ u \in Seq(V \X V)
      /\ \A p \in 1..Len(u) : u[p] = <<l[2 * p - 1], IF 2 * p <= Len(l) THEN l[2 * p] ELSE l[Len(l)]>>
  <2>1. Len(l) \in Nat
    BY <1>1
  <2>2. /\ Len(l) <= 2 * Len(u) /\ u \in Seq(V \X V)
        /\ \A p \in 1..Len(u) : u[p] = <<l[2 * p - 1], IF 2 * p <= Len(l) THEN l[2 * p] ELSE l[Len(l)]>>
    BY <1>1, <1>2, UpShape
  <2>3. Len(u) \in Nat
    BY <2>2
  <2> QED
    BY <2>1, <2>2, <2>3
<1>5. 1 \in 1..Len(u) /\ DOMAIN u = 1..Len(u)
  BY <1>2, <1>4
<1>6. PICK c : u[1] = <<l[1], c>>
  BY <1>4, <1>5
<1>7. 1 \in DOMAIN Bottom(x) /\ Bottom(x)[1] = <<x[1]>>
  <2>1. Len(x) \in Nat /\ Len(x) >= 1
    OBVIOUS
  <2> QED
    BY <2>1 DEF Bottom
<1>8. <<x[1]>> = <<l[1], c>>
  BY <1>3, <1>5, <1>6, <1>7 DEF Agree
<1> QED
  BY <1>8

(* Lists with the same root agree where both have an entry, and have the   *)
(* same entries: one may repeat, at its end, what the other has once.      *)
LEMMA SameRoot ==
  ASSUME NEW x \in Seq(Nat), NEW y \in Seq(Nat), x # <<>>, y # <<>>,
         MerkleRoot(x) = MerkleRoot(y)
  PROVE  Agree(x, y)
<1>1. PICK d \in Nat : /\ Len(Level(x, d)) = 1
                       /\ \A k \in Nat : k < d => Len(Level(x, k)) > 1
                       /\ MerkleRoot(x) = Level(x, d)[1]
  BY RootAtHeight
<1>2. PICK e \in Nat : /\ Len(Level(y, e)) = 1
                       /\ \A k \in Nat : k < e => Len(Level(y, k)) > 1
                       /\ MerkleRoot(y) = Level(y, e)[1]
  BY RootAtHeight
<1>3. \A j \in Nat : j <= d /\ j <= e => Agree(Level(x, d - j), Level(y, e - j))
  BY <1>1, <1>2, LevelsAgree
<1>0. Level(x, 0) = Bottom(x) /\ Level(y, 0) = Bottom(y)
  BY LevelUnfold
<1>4. ~ (d < e)
  <2> SUFFICES ASSUME d < e PROVE FALSE
    OBVIOUS
  <2>0. PICK k \in Nat : e - d = k + 1 /\ k < e
    <3>1. (e - d) - 1 \in Nat /\ e - d = ((e - d) - 1) + 1 /\ (e - d) - 1 < e
      OBVIOUS
    <3> QED
      BY <3>1
  <2>1. d <= d /\ d <= e /\ d - d = 0
    OBVIOUS
  <2>2. Agree(Level(x, 0), Level(y, k + 1))
    BY <1>3, <2>0, <2>1
  <2>3. Len(Level(y, k)) > 1
    BY <1>2, <2>0
  <2> QED
    BY <1>0, <2>2, <2>3, NoHigher
<1>5. ~ (e < d)
  <2> SUFFICES ASSUME e < d PROVE FALSE
    OBVIOUS
  <2>0. PICK k \in Nat : d - e = k + 1 /\ k < d
    <3>1. (d - e) - 1 \in Nat /\ d - e = ((d - e) - 1) + 1 /\ (d - e) - 1 < d
      OBVIOUS
    <3> QED
      BY <3>1
  <2>1. e <= d /\ e <= e /\ e - e = 0
    OBVIOUS
  <2>2. Agree(Level(x, k + 1), Level(y, 0))
    BY <1>3, <2>0, <2>1
  <2>3. Len(Level(x, k)) > 1
    BY <1>1, <2>0
  <2>4. Agree(Level(y, 0), Level(x, k + 1))
    BY <2>2 DEF Agree
  <2> QED
    BY <1>0, <2>3, <2>4, NoHigher
<1>6. Agree(Bottom(x), Bottom(y))
  <2>1. d <= d /\ d <= e /\ d - d = 0 /\ e - d = 0
    BY <1>4, <1>5
  <2>2. Agree(Level(x, d - d), Level(y, e - d))
    BY <1>3, <2>1
  <2> QED
    BY <1>0, <2>1, <2>2
<1>7. /\ DOMAIN x = 1..Len(x) /\ DOMAIN y = 1..Len(y)
      /\ DOMAIN Bottom(x) = 1..Len(x) /\ DOMAIN Bottom(y) = 1..Len(y)
      /\ \A i \in 1..Len(x) : Bottom(x)[i] = <<x[i]>>
      /\ \A i \in 1..Len(y) : Bottom(y)[i] = <<y[i]>>
  BY DEF Bottom
<1>8. \A a, b : <<a>> = <<b>> => a = b
  OBVIOUS
<1>9. \A i \in DOMAIN x : i \in DOMAIN y => x[i] = y[i]
  BY <1>6, <1>7, <1>8 DEF Agree
<1>10. Numbers(x) \subseteq Numbers(y)
  <2>1. ASSUME NEW i \in 1..Len(x) PROVE x[i] \in Numbers(y)
    <3>0. <<x[i]>> \in Numbers(Bottom(y))
      BY <1>6, <1>7 DEF Agree, Numbers
    <3>1. PICK k \in 1..Len(y) : <<x[i]>> = <<y[k]>>
      BY <1>7, <3>0 DEF Numbers
    <3>2. x[i] = y[k]
      BY <1>8, <3>1
    <3> QED
      BY <1>7, <3>2 DEF Numbers
  <2> QED
    BY <1>7, <2>1 DEF Numbers
<1>11. Numbers(y) \subseteq Numbers(x)
  <2>1. ASSUME NEW i \in 1..Len(y) PROVE y[i] \in Numbers(x)
    <3>0. <<y[i]>> \in Numbers(Bottom(x))
      BY <1>6, <1>7 DEF Agree, Numbers
    <3>1. PICK k \in 1..Len(x) : <<y[i]>> = <<x[k]>>
      BY <1>7, <3>0 DEF Numbers
    <3>2. y[i] = x[k]
      BY <1>8, <3>1
    <3> QED
      BY <1>7, <3>2 DEF Numbers
  <2> QED
    BY <1>7, <2>1 DEF Numbers
<1> QED
  BY <1>9, <1>10, <1>11 DEF Agree

(* Only the empty list has the root of no leaves.                          *)
LEMMA RootOfSome ==
  ASSUME NEW x \in Seq(Nat), x # <<>>
  PROVE  MerkleRoot(x) # <<>>
<1>1. PICK d \in Nat : /\ Len(Level(x, d)) = 1
                       /\ \A k \in Nat : k < d => Len(Level(x, k)) > 1
                       /\ MerkleRoot(x) = Level(x, d)[1]
  BY RootAtHeight
<1>2. CASE d = 0
  <2>1. Len(x) \in Nat /\ Len(x) >= 1 /\ Level(x, d) = Bottom(x)
    BY <1>2, LevelUnfold
  <2>2. MerkleRoot(x) = <<x[1]>>
    BY <1>1, <2>1 DEF Bottom
  <2> QED
    BY <2>2
<1>3. CASE d # 0
  <2>1. PICK k \in Nat : d = k + 1 /\ k < d
    <3>1. d - 1 \in Nat /\ d = (d - 1) + 1 /\ d - 1 < d
      BY <1>3
    <3> QED
      BY <3>1
  <2> DEFINE l == Level(x, k)
             u == Level(x, d)
  <2>2. PICK V : l \in Seq(V)
    BY LevelShape
  <2>3. u = Up(l) /\ Len(l) > 1 /\ Len(u) = 1 /\ MerkleRoot(x) = u[1]
    BY <1>1, <2>1, LevelUnfold
  <2> HIDE DEF l, u
  <2>4. \A p \in 1..Len(u) : u[p] = <<l[2 * p - 1], IF 2 * p <= Len(l) THEN l[2 * p] ELSE l[Len(l)]>>
    BY <2>2, <2>3, UpShape
  <2>5. PICK a, b : u[1] = <<a, b>>
    BY <2>3, <2>4
  <2> QED
    BY <2>3, <2>5
<1> QED
  BY <1>2, <1>3

(* A root of distinct leaves is the root of no shorter list, and of longer *)
(* ones only if they begin with it.                                        *)
LEMMA RootOfDistinct ==
  ASSUME NEW f \in Seq(Nat), NEW b \in Seq(Nat), Increasing(b), MerkleRoot(f) = MerkleRoot(b)
  PROVE  Len(f) >= Len(b) /\ Front(f, Len(b)) = b
<1>1. MerkleRoot(<<>>) = <<>>
  BY DEF MerkleRoot
<1>2. CASE b = <<>>
  <2>1. Len(b) = 0 /\ Len(f) \in Nat
    BY <1>2
  <2>2. Front(f, 0) = <<>>
    <3>1. Front(f, 0) \in Seq(Nat) /\ Len(Front(f, 0)) = 0
      BY NumbersCut
    <3> QED
      BY <3>1
  <2> QED
    BY <1>2, <2>1, <2>2
<1>3. CASE b # <<>>
  <2>1. f # <<>>
    BY <1>1, <1>3, RootOfSome
  <2>2. Agree(f, b)
    BY <1>3, <2>1, SameRoot
  <2>3. DOMAIN f = 1..Len(f) /\ DOMAIN b = 1..Len(b) /\ Len(f) \in Nat /\ Len(b) \in Nat
    OBVIOUS
  <2>4. ~ (Len(f) < Len(b))
    <3> SUFFICES ASSUME Len(f) < Len(b) PROVE FALSE
      OBVIOUS
    <3>1. Len(b) \in 1..Len(b)
      BY <2>3
    <3>2. PICK k \in 1..Len(f) : b[Len(b)] = f[k]
      BY <2>2, <2>3, <3>1 DEF Agree, Numbers
    <3>3. k \in 1..Len(b) /\ k < Len(b)
      BY <2>3
    <3>4. f[k] = b[k]
      BY <2>2, <2>3, <3>3 DEF Agree
    <3>5. b[k] < b[Len(b)] /\ b[k] \in Nat
      BY <2>3, <3>1, <3>3 DEF Increasing
    <3> QED
      BY <3>2, <3>4, <3>5
  <2>5. Len(b) \in 0..Len(f)
    BY <2>3, <2>4
  <2>6. /\ Front(f, Len(b)) \in Seq(Nat) /\ Len(Front(f, Len(b))) = Len(b)
        /\ \A i \in 1..Len(b) : Front(f, Len(b))[i] = f[i]
    BY <2>5 DEF Front
  <2>7. \A i \in 1..Len(b) : f[i] = b[i]
    BY <2>2, <2>3, <2>5 DEF Agree
  <2>8. Front(f, Len(b)) = b
    BY <2>6, <2>7, SeqEqual
  <2> QED
    BY <2>3, <2>5, <2>8
<1> QED
  BY <1>2, <1>3

(* The leaves a verifier takes of an aggregate.                            *)
LEMMA FetchedLeaves ==
  ASSUME Accounting, NEW agg
  PROVE  Ids(Fetched(agg)) \in Seq(Nat) /\ Leaves(Fetched(agg)) = Ids(Fetched(agg))
<1>1. collected \in Seq(Spans)
  BY DEF Accounting, Types
<1>2. WithIds(collected, Numbers(agg.span_ids)) \in Seq(Spans)
  BY <1>1, WithIdsKeeps
<1> QED
  BY <1>2, IdsOfSpans DEF Fetched

(* What mesh.py accepts has every span under the root, in order, at its    *)
(* head, whatever was emitted while the aggregate was made                 *)
(* (batch_aggregate, verify_batch, the duplicate-last padding).            *)
THEOREM SpecPyMissesNothing == Spec => []PyMissesNothing
<1>1. Accounting /\ Sealed => PyMissesNothing
  <2> SUFFICES ASSUME Accounting, Sealed, NEW agg \in published, AcceptsPy(agg)
               PROVE  /\ Len(Ids(Fetched(agg))) >= Len(agg.leaves)
                      /\ Front(Ids(Fetched(agg)), Len(agg.leaves)) = agg.leaves
    BY DEF PyMissesNothing
  <2>1. PICK b \in Seq(Nat) : Increasing(b) /\ agg.leaves = b /\ agg.root = MerkleRoot(b)
    BY SealedSays
  <2>2. agg.leaves = b /\ agg.root = MerkleRoot(b)
    BY <2>1
  <2>3. PICK f : f = Ids(Fetched(agg))
    OBVIOUS
  <2>4. f \in Seq(Nat) /\ MerkleRoot(f) = MerkleRoot(b)
    BY <2>2, <2>3, FetchedLeaves DEF AcceptsPy, VerifyPy
  <2>5. Len(f) >= Len(b) /\ Front(f, Len(b)) = b
    BY <2>1, <2>4, RootOfDistinct
  <2> QED
    BY <2>2, <2>3, <2>5
<1> QED
  BY <1>1, SpecAccounting, SpecFlow, PTL

(* What mesh.ts accepts for an aggregate that was read of one batch is the *)
(* aggregated list: no span missing, repeated or moved (verifyBatch, which *)
(* counts the spans it is given).                                          *)
THEOREM SpecTsAcceptsExactly == Spec => []TsAcceptsExactly
<1>1. Accounting /\ Sealed => TsAcceptsExactly
  <2> SUFFICES ASSUME Accounting, Sealed, NEW agg \in published, Whole(agg), AcceptsTs(agg)
               PROVE  Ids(Fetched(agg)) = agg.span_ids
    BY DEF TsAcceptsExactly
  <2>1. PICK b \in Seq(Nat) :
          /\ Increasing(b) /\ agg.root = MerkleRoot(b) /\ agg.span_ids = b
          /\ agg.agg_sig = AggSig(Len(b), Signer, MerkleRoot(b))
    BY SealedSays
  <2>2. /\ agg.span_ids = b /\ agg.root = MerkleRoot(b)
        /\ agg.agg_sig = AggSig(Len(b), Signer, MerkleRoot(b))
    BY <2>1
  <2>3. PICK f : f = Ids(Fetched(agg))
    OBVIOUS
  <2>4. f \in Seq(Nat) /\ MerkleRoot(f) = MerkleRoot(b)
        /\ AggSig(Len(f), Signer, MerkleRoot(b)) = AggSig(Len(b), Signer, MerkleRoot(b))
    BY <2>2, <2>3, FetchedLeaves DEF AcceptsTs, VerifyTs, AggregateVerify
  <2>5. Len(f) = Len(b)
    BY <2>4 DEF AggSig
  <2>6. Front(f, Len(b)) = b
    BY <2>1, <2>4, RootOfDistinct
  <2>7. f = b
    <3>1. Front(f, Len(f)) = f
      <4>1. /\ Front(f, Len(f)) \in Seq(Nat) /\ Len(Front(f, Len(f))) = Len(f)
            /\ \A i \in 1..Len(f) : Front(f, Len(f))[i] = f[i]
        BY <2>4 DEF Front
      <4> QED
        BY <2>4, <4>1, SeqEqual
    <3> QED
      BY <2>5, <2>6, <3>1
  <2> QED
    BY <2>2, <2>3, <2>7
<1> QED
  BY <1>1, SpecAccounting, SpecFlow, PTL
=============================================================================
