---------------------------- MODULE DsseReceipts ----------------------------
(***************************************************************************)
(* The mesh's signed receipts: sign_payload and verify_envelope of         *)
(* pinn_dsse.py, and their callers - signed_lambda_receipt of the PINN,    *)
(* which looks the key up a second time to report it, and the receipts of  *)
(* quorum.py and otlp_bridge.py, which do not.                             *)
(*                                                                         *)
(* The private key is read from the environment on every call, so it may   *)
(* appear, vanish or be another one at any time.  A signature is the       *)
(* record of its key and of what it covers; a relay can move signatures    *)
(* around but make none.                                                   *)
(***************************************************************************)
EXTENDS Integers, Sequences, FiniteSets

CONSTANTS
  Bodies,           \* payloads in canonical JSON
  PayloadTypes,     \* the payload types of the three callers
  PINN_PAYLOAD_TYPE,
  NoReport,         \* no PINN receipt asked for yet
  NothingRelayed,   \* the relay has no envelope
  MaxSeals,         \* bound: envelopes sealed
  MaxAlterations    \* bound: changes the relay makes

VARIABLES
  pem,        \* what SZL_COSIGN_PRIVATE_PEM holds
  sealed,     \* the envelopes returned, each with the key found at the time
  report,     \* the PINN receipt under way or last returned
  relayed,    \* the envelope a relay passes on
  altered     \* changes the relay made, against MaxAlterations

vars == <<pem, sealed, report, relayed, altered>>

\* The uds-bundles key whose public half is embedded, the org key, a key that
\* is not an elliptic-curve key, and text that is no key.
Pems == {"absent", "garbage", "bundles", "org", "rsa"}

KEYID     == "szlholdings-cosign"
KeyIds    == {KEYID, "another"}
Malformed == "malformed"

LoadPrivateKey(text) == IF text \in {"absent", "garbage"} THEN "none" ELSE text

SigningAvailable(text) == LoadPrivateKey(text) # "none"

\* Mutation of Pae: the payload type is left out.
PaeOfBody(payload_type, body) == <<body>>

Pae(payload_type, body) == <<payload_type, body>>

Signature(key, covers, keyid) == [key |-> key, covers |-> covers, keyid |-> keyid]

\* Mutation of SignPayload: the marker says signed before the key is looked up.
SignPayloadMarksFirst(payload_type, body, key) ==
  [payloadType |-> payload_type,
   payload     |-> body,
   signatures  |-> IF key = "none" THEN <<>>
                   ELSE <<Signature(key, Pae(payload_type, body), KEYID)>>,
   signed      |-> TRUE]

SignPayload(payload_type, body, key) ==
  [payloadType |-> payload_type,
   payload     |-> body,
   signatures  |-> IF key = "none" THEN <<>>
                   ELSE <<Signature(key, Pae(payload_type, body), KEYID)>>,
   signed      |-> key # "none"]

\* verify_envelope: an entry that cannot be decoded makes the whole call fail,
\* a signature that does not match does not.
VerifyEnvelope(env) ==
  /\ env.signatures # <<>>
  /\ \A i \in DOMAIN env.signatures : env.signatures[i].key # Malformed
  /\ \E i \in DOMAIN env.signatures :
       env.signatures[i] = Signature("bundles", Pae(env.payloadType, env.payload), KEYID)
----------------------------------------------------------------------------
Init ==
  /\ pem \in Pems
  /\ sealed = {} /\ report = NoReport
  /\ relayed = NothingRelayed /\ altered = 0

Asking == report # NoReport /\ report.state = "asking"

\* The secret is mounted, removed or rotated.
SetPem(text) ==
  /\ pem' = text
  /\ report' = IF Asking THEN [report EXCEPT !.rotated = (@ \/ text # pem)] ELSE report
  /\ UNCHANGED <<sealed, relayed, altered>>

\* sign_payload for a quorum decision or an exported batch.  Signing raises
\* for a key that is not an EC key: then there is no envelope.
Seal(payload_type, body) ==
  LET key == LoadPrivateKey(pem) IN
  /\ Cardinality(sealed) < MaxSeals
  /\ payload_type # PINN_PAYLOAD_TYPE
  /\ key # "rsa"
  /\ sealed' = sealed \cup {[env |-> SignPayload(payload_type, body, key), pem |-> pem]}
  /\ UNCHANGED <<pem, report, relayed, altered>>

\* signed_lambda_receipt: the payload is sealed ...
SealLambda(body) ==
  LET key == LoadPrivateKey(pem)
      env == SignPayload(PINN_PAYLOAD_TYPE, body, key)
  IN
  /\ ~Asking
  /\ Cardinality(sealed) < MaxSeals
  /\ key # "rsa"
  /\ sealed' = sealed \cup {[env |-> env, pem |-> pem]}
  /\ report' = [state |-> "asking", dsse |-> env, signing_available |-> FALSE,
                rotated |-> FALSE]
  /\ UNCHANGED <<pem, relayed, altered>>

\* ... and then the key is asked for again.
ReportAvailability ==
  /\ Asking
  /\ report' = [report EXCEPT !.state = "returned",
                              !.signing_available = SigningAvailable(pem)]
  /\ UNCHANGED <<pem, sealed, relayed, altered>>

Relay(env) ==
  /\ relayed = NothingRelayed
  /\ relayed' = env
  /\ UNCHANGED <<pem, sealed, report, altered>>

\* The relay changes one part of the envelope it has.
Alter(env) ==
  /\ relayed # NothingRelayed
  /\ altered < MaxAlterations
  /\ altered' = altered + 1
  /\ relayed' = env
  /\ UNCHANGED <<pem, sealed, report>>

SignaturesSeen ==
  {Signature(Malformed, <<>>, KEYID)} \cup
  UNION {{s.env.signatures[i] : i \in DOMAIN s.env.signatures} : s \in sealed}

Next ==
  \/ \E text \in Pems : SetPem(text)
  \/ \E t \in PayloadTypes, b \in Bodies : Seal(t, b)
  \/ \E b \in Bodies : SealLambda(b)
  \/ ReportAvailability
  \/ \E s \in sealed : Relay(s.env)
  \/ \E b \in Bodies : Alter([relayed EXCEPT !.payload = b])
  \/ \E t \in PayloadTypes : Alter([relayed EXCEPT !.payloadType = t])
  \/ \E s \in SignaturesSeen, k \in KeyIds :
       Alter([relayed EXCEPT !.signatures = Append(@, [s EXCEPT !.keyid = k])])
  \/ Alter([relayed EXCEPT !.signatures = <<>>])

Spec == Init /\ [][Next]_vars
----------------------------------------------------------------------------
(* An envelope is marked signed exactly when it carries a signature; one   *)
(* sealed with the uds-bundles key verifies, whatever becomes of the key   *)
(* later, and none verifies unmarked.  A PINN receipt's second answer      *)
(* agrees with its envelope unless the secret was changed between the two  *)
(* lookups (sign_payload, signed_lambda_receipt).                          *)
MarkersMatchSignatures ==
  /\ \A s \in sealed :
       /\ s.env.signed <=> s.env.signatures # <<>>
       /\ VerifyEnvelope(s.env) => s.env.signed
       /\ s.pem = "bundles" => VerifyEnvelope(s.env)
  /\ report # NoReport /\ report.state = "returned" /\ ~report.rotated =>
       report.signing_available = report.dsse.signed

(* An envelope that calls itself signed verifies: what sign_payload writes *)
(* into it names the key it can be verified with ("the daa4aeca key, NOT   *)
(* the org key", pinn_dsse.py lines 149-152), whichever key signed.        *)
SignedIsVerifiable == \A s \in sealed : s.env.signed => VerifyEnvelope(s.env)

(* Whatever a relay does to the envelopes it sees, what verifies is a      *)
(* payload that was sealed, as the kind of receipt it was sealed as, with  *)
(* the uds-bundles key (pae: the type and both lengths are signed).        *)
VerifiedWasSealed ==
  relayed # NothingRelayed /\ VerifyEnvelope(relayed) =>
    \E s \in sealed :
      /\ s.pem = "bundles"
      /\ s.env.payload = relayed.payload
      /\ s.env.payloadType = relayed.payloadType
=============================================================================
