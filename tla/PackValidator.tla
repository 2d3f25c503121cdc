---------------------------- MODULE PackValidator ----------------------------
(***************************************************************************)
(* verticals/validate_pack.py: the loop over the packs it is given, the    *)
(* checks of one pack and the exit code CI goes by.                        *)
(*                                                                         *)
(* A pack is a record of what the checks tell apart.  Lambda and the floor *)
(* are in percent, true and false count as 100 and 0; a field of another   *)
(* type is "text", one that is not there "absent".  Request ids are        *)
(* numbers, 0 the empty one and -1 an absent one.                          *)
(***************************************************************************)
EXTENDS Integers, Sequences, FiniteSets

CONSTANTS PackLists   \* the lists of packs main may be given

VARIABLES
  packs,    \* the packs, in the order they are validated
  at,       \* the pack main is at
  errors,   \* per validated pack: the errors found
  exit      \* what the process ended with, "running" before

vars == <<packs, at, errors, exit>>

ORGANS             == {"a11oy", "sentra", "amaru", "rosie", "killinchu"}
VERDICTS           == {"PERMIT", "DENY", "DEFER"}
FAIL_CLOSED_ORGANS == {"sentra"}
DEFAULT_FLOOR      == 10

Number(n)   == [type |-> "number", value |-> n]
Text        == [type |-> "text", value |-> 0]
Absent      == [type |-> "absent", value |-> 0]
IsNumber(x) == x.type = "number"

\* The errors of a set of checks: the names of those that fail.
Failing(checks) == {name \in DOMAIN checks : ~checks[name]}

ValidateDecisionRequest(req) ==
  Failing([fields  |-> "absent" \notin {req.organ, req.subject} /\ req.request_id # -1,
           organ   |-> req.organ \in ORGANS \cup {"", "absent"},
           subject |-> req.subject = "object",
           context |-> req.context \in {"absent", "object"}])

ValidateReceipt(receipt) ==
  IF receipt.type # "object" THEN {"object"} ELSE
  Failing([fields      |-> "absent" \notin {receipt.receipt_hash, receipt.signature},
           hash        |-> receipt.receipt_hash = "64-hex",
           placeholder |-> receipt.signature # "placeholder",
           signature   |-> receipt.signature \in {"base64", "placeholder", "sentinel"}])

Drifts(lambda, floor) == lambda < floor \/ lambda > 100

FieldsPresent(resp) ==
  /\ resp.request_id # -1
  /\ "absent" \notin {resp.verdict, resp.governance_drift, resp.lambda_value.type,
                     resp.receipt.type}

\* The flag is compared only if it is a boolean; a verdict of null is let by.
ValidateDecision(resp, floor, organ) ==
  LET lam == resp.lambda_value IN
  ValidateReceipt(resp.receipt) \cup
  Failing([fields  |-> FieldsPresent(resp),
           verdict |-> resp.verdict \in VERDICTS \cup {"null", "absent"},
           number  |-> IsNumber(lam),
           range   |-> IsNumber(lam) => lam.value \in 0..100,
           drift   |-> IsNumber(lam) /\ resp.governance_drift \in {"true", "false"} =>
                         (resp.governance_drift = "true" <=> Drifts(lam.value, floor)),
           closed  |-> IsNumber(lam) /\ organ \in FAIL_CLOSED_ORGANS =>
                         ~(Drifts(lam.value, floor) /\ resp.verdict = "PERMIT")])

\* The pack's floor, or the default for one that is absent or refused.
FloorGiven(pack) == IF pack.lambda_floor = Absent THEN Number(DEFAULT_FLOOR) ELSE pack.lambda_floor
FloorSane(pack)  == IsNumber(FloorGiven(pack)) /\ FloorGiven(pack).value \in 0..100
Floor(pack)      == IF FloorSane(pack) THEN FloorGiven(pack).value ELSE DEFAULT_FLOOR

ValidateParsed(pack) ==
  Failing([wire   |-> "Package" \in pack.kinds,
           mtls   |-> pack.kinds \cap {"PeerAuthentication", "AuthorizationPolicy"} = {},
           organ  |-> pack.organ \in ORGANS,
           floor  |-> FloorSane(pack),
           target |-> pack.request.organ \in {"", "absent", pack.organ}
                        \/ pack.organ \in {"", "absent"},
           echo   |-> \/ {0, -1} \cap {pack.request.request_id, pack.response.request_id} # {}
                      \/ pack.request.request_id = pack.response.request_id])
  \cup ValidateDecisionRequest(pack.request)
  \cup ValidateDecision(pack.response, Floor(pack), pack.organ)

\* validate_pack on a pack whose files are there and parse, or do not.
ValidatePack(pack) ==
  IF pack.files # "parsed" THEN {pack.files} ELSE ValidateParsed(pack)
\* A list's floors and lambdas are numbers, or 0 for what is no number.
NumbersIn(pack) == pack.lambda_floor.value \in Int /\ pack.response.lambda_value.value \in Int

ListsAssumption ==
  \A list \in PackLists :
    /\ Len(list) \in Nat /\ DOMAIN list = 1..Len(list)
    /\ \A i \in DOMAIN list : NumbersIn(list[i])
----------------------------------------------------------------------------
Init ==
  /\ packs \in PackLists
  /\ at = 1
  /\ errors = <<>>
  /\ exit = "running"

\* One turn of main's loop.
Validate ==
  /\ exit = "running"
  /\ at <= Len(packs)
  /\ packs[at].files # "not an object"
  /\ errors' = Append(errors, ValidatePack(packs[at]))
  /\ at' = at + 1
  /\ UNCHANGED <<packs, exit>>

\* JSON that parses to a list or a number has no get(): nothing catches that.
Crash ==
  /\ exit = "running"
  /\ at <= Len(packs)
  /\ packs[at].files = "not an object"
  /\ exit' = "traceback"
  /\ UNCHANGED <<packs, at, errors>>

\* Mutation of Finish: the exit code is the last pack's.
FinishWithLast ==
  /\ exit = "running"
  /\ at > Len(packs)
  /\ exit' = IF packs # <<>> /\ errors[Len(errors)] # {} THEN "1" ELSE "0"
  /\ UNCHANGED <<packs, at, errors>>

Finish ==
  /\ exit = "running"
  /\ at > Len(packs)
  /\ exit' = IF \E i \in DOMAIN errors : errors[i] # {} THEN "1" ELSE "0"
  /\ UNCHANGED <<packs, at, errors>>

Next == Validate \/ Crash \/ Finish

Spec == Init /\ [][Next]_vars
----------------------------------------------------------------------------
\* What a reader of the header takes a passed pack to be: lambda is a number
\* in range, a boolean flag agrees with the floor the pack was given, a
\* safety organ permits only at or above it, nothing is signed by a
\* placeholder and no mTLS is promised.
Disciplined(pack) ==
  LET resp == pack.response  lam == resp.lambda_value  floor == FloorGiven(pack) IN
  /\ pack.files = "parsed"
  /\ IsNumber(lam) /\ IsNumber(floor) /\ 0 <= floor.value /\ floor.value <= 100
  /\ resp.governance_drift = "true" => 0 <= lam.value /\ lam.value < floor.value
  /\ resp.governance_drift = "false" => floor.value <= lam.value /\ lam.value <= 100
  /\ pack.organ = "sentra" /\ resp.verdict = "PERMIT" => floor.value <= lam.value
  /\ resp.receipt.signature \in {"base64", "sentinel"}
  /\ pack.kinds \cap {"PeerAuthentication", "AuthorizationPolicy"} = {}

(* CI goes on only if every pack of the list was validated and is          *)
(* disciplined ("Exit code 0 = all validated packs pass"), and whatever    *)
(* stops it - an error in any pack, or a file that crashes the validator   *)
(* before the packs behind it are looked at - is not exit code 0.          *)
ExitZeroMeansDisciplined ==
  exit = "0" => Len(errors) = Len(packs) /\ \A i \in DOMAIN packs : Disciplined(packs[i])
=============================================================================
