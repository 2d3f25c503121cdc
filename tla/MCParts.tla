------------------------------ MODULE MCParts ------------------------------
(***************************************************************************)
(* MeshParts for TLC: all complexes on five vertices; five latencies with  *)
(* an outlier among them; two envelopes and a relay that changes one of    *)
(* them twice; two receipts in two processes with two keys; two consumers, *)
(* one rotated secret and an envelope changed twice; two refused objects;  *)
(* and the calls and the packs below.                                      *)
(***************************************************************************)
EXTENDS MeshParts

FiveVertices == 0..4

\* Calls that return and calls that raise.
Call(formula, inputs) == [formula |-> formula, inputs |-> inputs]

SomeCalls ==
  {Call("SummationInvariant", [organs |-> <<<<1, 2>>, <<3>>>>, primary_cord |-> 6]),
   Call("SummationInvariant", [organs |-> <<<<1>>, <<3>>>>, primary_cord |-> 6]),
   Call("LiuHuiPi", [k |-> 50]), Call("LiuHuiPi", [k |-> 51]),
   Call("MadhavaBound", [x |-> 1, N |-> 1]), Call("MadhavaBound", [x |-> 1, N |-> 0]),
   Call("FalsePosition", [x1 |-> 0, y1 |-> 0, x2 |-> 1, y2 |-> 0, T |-> 4]),
   Call("AdversarialRobustness", [l1 |-> 2, l2 |-> 3, delta |-> 0]),
   Call("NoSuchFormula", [k |-> 1])}

\* Packs: one that is in order; its decision varied in organ, floor, lambda,
\* verdict and flag; its envelope in all else; and files of other kinds.
Percent(n) == [type |-> "number", value |-> n]
Others(type) == [type |-> type, value |-> 0]

GoodPack ==
  [files |-> "parsed", kinds |-> {"Package"}, organ |-> "sentra", lambda_floor |-> Percent(50),
   request  |-> [request_id |-> 1, organ |-> "sentra", subject |-> "object", context |-> "absent"],
   response |-> [request_id |-> 1, verdict |-> "PERMIT", lambda_value |-> Percent(60),
                 governance_drift |-> "false",
                 receipt |-> [type |-> "object", receipt_hash |-> "64-hex", signature |-> "sentinel"]]]

Decisions ==
  {[GoodPack EXCEPT !.organ = organ, !.request.organ = organ, !.lambda_floor = floor,
                    !.response.lambda_value = lambda, !.response.verdict = verdict,
                    !.response.governance_drift = drift] :
     organ \in {"sentra", "amaru"}, verdict \in {"PERMIT", "DENY", "null", "other"},
     floor \in {Percent(n) : n \in {-1, 0, 50, 100, 150}} \cup {Others("text"), Others("absent")},
     lambda \in {Percent(n) : n \in {-1, 9, 10, 49, 50, 100, 101}}
                 \cup {Others("text"), Others("absent")},
     drift \in {"true", "false", "text"}}

Envelopes ==
  {[GoodPack EXCEPT !.organ = organ, !.request.organ = target, !.kinds = kinds,
                    !.request.subject = subject, !.request.request_id = id,
                    !.response.receipt = [type |-> type, receipt_hash |-> hash, signature |-> sig]] :
     organ \in {"sentra", "other"}, target \in {"", "sentra", "amaru", "absent"},
     kinds \in {{"Package"}, {"Package", "PeerAuthentication"}, {"Deployment"}},
     subject \in {"object", "text"}, id \in {-1, 0, 1, 2}, type \in {"object", "absent"},
     hash \in {"64-hex", "other"}, sig \in {"base64", "placeholder", "sentinel", "text"}}

Companions ==
  {GoodPack, [GoodPack EXCEPT !.kinds = {"Deployment"}],
   [GoodPack EXCEPT !.files = "not an object"], [GoodPack EXCEPT !.files = "missing"]}

Lists ==
  {<<>>} \cup {<<p>> : p \in Envelopes} \cup {<<p, q>> : p \in Decisions, q \in Companions}
         \cup {<<p, q>> : p, q \in Companions}
=============================================================================
