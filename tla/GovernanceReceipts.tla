------------------------- MODULE GovernanceReceipts -------------------------
(***************************************************************************)
(* pepr/governance-receipts-pqc.ts: the admission controller's receipts    *)
(* while a cluster moves from HMAC to ML-DSA-65 signatures.  The signer    *)
(* signs with both and later with ML-DSA alone; consumers call one of the  *)
(* two verifiers; keys come from secrets that are read at start; other     *)
(* organs add their own signature to an envelope, and envelopes are held,  *)
(* stripped or changed before they are read.                               *)
(*                                                                         *)
(* Keys are numbered by version, 0 is a secret that is not set.  A         *)
(* signature is the record of its algorithm, its key and what it covers.   *)
(***************************************************************************)
EXTENDS Integers, Sequences, FiniteSets, SequencesExt

CONSTANTS
  Consumers,     \* the processes that verify receipts
  MaxRotations,  \* bound: new versions of a secret
  MaxSigned,     \* bound: receipts signed
  MaxChanges     \* bound: changes made to one envelope

VARIABLES
  secrets,    \* the cluster's secrets: hmac, pqc
  keys,       \* per process: the secrets as it read them; the signer's too
  verifier,   \* per consumer: the verifier it calls
  pqc_only,   \* the signer has gone over to signReceiptPqcOnly
  counter,    \* receiptCounter: the receipts built, a receipt's id
  archive,    \* the envelopes returned, each with the keys that signed it
  read        \* the envelope on its way to the consumers: its content, the
              \* archived one it was and the changes made to it

vars == <<secrets, keys, verifier, pqc_only, counter, archive, read>>

Signer == "signer"

\* The HMAC key of an organ that adds its signature.
OrganKey == -1

Parties == Consumers \cup {Signer}

BuildPAE(payload_type, payload) == <<payload_type, payload>>

PayloadType == "governance-receipt"

\* The signatures of one algorithm are good for the other in no case.
HmacEntry(key, covers) == [alg |-> "hmac-sha256", key |-> key, covers |-> covers]
PqcEntry(key, covers)  == [alg |-> "ml-dsa-65", key |-> key, covers |-> covers]

VerifyHmac(pae, entry, key)    == entry = HmacEntry(key, pae)
VerifyMlDsa65(pae, entry, key) == entry = PqcEntry(key, pae) /\ key # 0

Envelope(receipt, signatures) ==
  [payloadType |-> PayloadType, payload |-> receipt, signatures |-> signatures]

\* Mutation of SignReceiptDualSign: the HMAC covers the payload without its type.
DualSignsPayload(receipt, k) ==
  LET pae == BuildPAE(PayloadType, receipt)
  IN  Envelope(receipt, <<HmacEntry(k.hmac, BuildPAE("", receipt)), PqcEntry(k.pqc, pae)>>)

SignReceiptDualSign(receipt, k) ==
  LET pae == BuildPAE(PayloadType, receipt)
  IN  Envelope(receipt, <<HmacEntry(k.hmac, pae), PqcEntry(k.pqc, pae)>>)

SignReceiptPqcOnly(receipt, k) ==
  Envelope(receipt, <<PqcEntry(k.pqc, BuildPAE(PayloadType, receipt))>>)

OfAlg(env, alg) == {i \in DOMAIN env.signatures : env.signatures[i].alg = alg}

\* verifyReceiptDualSign: each entry of an algorithm overwrites the flag the
\* one before it set, while a name once pushed to the list stays.
VerifyReceiptDualSign(env, k) ==
  LET pae   == BuildPAE(env.payloadType, env.payload)
      hmacs == OfAlg(env, "hmac-sha256")
      pqcs  == OfAlg(env, "ml-dsa-65")
  IN  [hmacValid  |-> \E i \in hmacs : /\ \A j \in hmacs : j <= i
                                     /\ VerifyHmac(pae, env.signatures[i], k.hmac),
       pqcValid   |-> \E i \in pqcs : /\ \A j \in pqcs : j <= i
                                    /\ VerifyMlDsa65(pae, env.signatures[i], k.pqc),
       algorithms |->
         {s.alg : s \in {s \in ToSet(env.signatures) :
                           VerifyHmac(pae, s, k.hmac) \/ VerifyMlDsa65(pae, s, k.pqc)}}]

\* Mutation of VerifyReceiptLegacy: only the envelope's first entry is tried.
VerifyFirstEntry(env, k) ==
  /\ env.signatures # <<>>
  /\ VerifyHmac(BuildPAE(env.payloadType, env.payload), Head(env.signatures), k.hmac)

\* verifyReceiptLegacy: the first HMAC entry decides.
VerifyReceiptLegacy(env, k) ==
  LET hmacs == OfAlg(env, "hmac-sha256")
      pae   == BuildPAE(env.payloadType, env.payload)
  IN  \E i \in hmacs : /\ \A j \in hmacs : i <= j
                      /\ VerifyHmac(pae, env.signatures[i], k.hmac)
----------------------------------------------------------------------------
NothingToRead == [env |-> Envelope(0, <<>>), was |-> {}, changes |-> 0]

Init ==
  /\ secrets = [hmac |-> 1, pqc |-> 1]
  /\ keys \in [Parties -> {secrets, [hmac |-> 1, pqc |-> 0]}]
  /\ keys[Signer] = secrets
  /\ verifier = [c \in Consumers |-> "legacy"]
  /\ pqc_only = FALSE /\ counter = 0 /\ archive = {}
  /\ read = NothingToRead

\* buildGovernanceReceipt and one of the two signers: a key that is not there
\* makes them throw.
SignReceipt ==
  LET receipt == counter + 1
      k       == keys[Signer]
      env     == IF pqc_only THEN SignReceiptPqcOnly(receipt, k)
                 ELSE SignReceiptDualSign(receipt, k)
  IN
  /\ counter < MaxSigned
  /\ k.pqc # 0
  /\ counter' = receipt
  /\ archive' = archive \cup {[env |-> env, keys |-> k]}
  /\ UNCHANGED <<secrets, keys, verifier, pqc_only, read>>

\* An operator replaces a secret; processes read it when they are restarted.
RotateSecret(name) ==
  /\ secrets.hmac + secrets.pqc < 2 + MaxRotations
  /\ secrets' = [secrets EXCEPT ![name] = @ + 1]
  /\ UNCHANGED <<keys, verifier, pqc_only, counter, archive, read>>

LoadKeysFromEnv(p) ==
  /\ keys' = [keys EXCEPT ![p] = secrets]
  /\ UNCHANGED <<secrets, verifier, pqc_only, counter, archive, read>>

\* A consumer is updated to the verifier that knows ML-DSA.
UpgradeConsumer(c) ==
  /\ verifier' = [verifier EXCEPT ![c] = "dual"]
  /\ UNCHANGED <<secrets, keys, pqc_only, counter, archive, read>>

\* "Use ONLY after all consumers are updated to support ML-DSA-65".
SwitchSigner ==
  /\ \A c \in Consumers : verifier[c] = "dual"
  /\ pqc_only' = TRUE
  /\ UNCHANGED <<secrets, keys, verifier, counter, archive, read>>

Deliver(a) ==
  /\ read' = [env |-> a.env, was |-> {a}, changes |-> 0]
  /\ UNCHANGED <<secrets, keys, verifier, pqc_only, counter, archive>>

\* The envelope is changed on its way.
Change(env) ==
  /\ read.was # {}
  /\ read.changes < MaxChanges
  /\ read' = [read EXCEPT !.env = env, !.changes = @ + 1]
  /\ UNCHANGED <<secrets, keys, verifier, pqc_only, counter, archive>>

\* What may be added to an envelope: the HMAC another organ makes of it with
\* its own key, and the entries of the other envelopes.
OtherEntries ==
  {HmacEntry(OrganKey, BuildPAE(PayloadType, read.env.payload))} \cup
  UNION {ToSet(a.env.signatures) : a \in archive}

Next ==
  \/ SignReceipt
  \/ \E name \in {"hmac", "pqc"} : RotateSecret(name)
  \/ \E p \in Parties : LoadKeysFromEnv(p)
  \/ \E c \in Consumers : UpgradeConsumer(c)
  \/ SwitchSigner
  \/ \E a \in archive : Deliver(a)
  \/ \E n \in 1..MaxSigned : Change([read.env EXCEPT !.payload = n])
  \/ \E i \in DOMAIN read.env.signatures :
       Change([read.env EXCEPT !.signatures = RemoveAt(@, i)])
  \/ Change([read.env EXCEPT !.signatures = Reverse(@)])
  \/ \E s \in OtherEntries : Change([read.env EXCEPT !.signatures = Append(@, s)])

Spec == Init /\ [][Next]_vars
----------------------------------------------------------------------------
Hmacs == OfAlg(read.env, "hmac-sha256")

(* An envelope that arrives as it was returned, however late and however   *)
(* far the roll-out has come since, is accepted by a consumer if and only  *)
(* if the key its verifier needs is the one the signer had: consumers not  *)
(* yet updated see a valid HMAC, updated ones a valid ML-DSA signature     *)
(* (signReceiptDualSign, signReceiptPqcOnly).                              *)
GenuineIsAccepted ==
  \A a \in read.was, c \in Consumers :
    read.changes = 0 =>
      IF verifier[c] = "legacy"
      THEN VerifyReceiptLegacy(read.env, keys[c]) <=> keys[c].hmac = a.keys.hmac
      ELSE VerifyReceiptDualSign(read.env, keys[c]).pqcValid <=> keys[c].pqc = a.keys.pqc

(* Whatever was added to an envelope, taken from it or changed in it, a    *)
(* consumer that finds anything valid reads a receipt the signer signed    *)
(* with that consumer's key; and while there is at most one HMAC entry the *)
(* two verifiers and the list of algorithms agree (verifyReceiptDualSign   *)
(* takes the last entry, verifyReceiptLegacy the first).                   *)
VerifiersAgree ==
  read.was # {} =>
    \A c \in Consumers :
      LET dual   == VerifyReceiptDualSign(read.env, keys[c])
          legacy == VerifyReceiptLegacy(read.env, keys[c])
      IN
      /\ dual.algorithms # {} =>
           \E a \in archive :
             /\ a.env.payload = read.env.payload
             /\ a.keys.hmac = keys[c].hmac \/ a.keys.pqc = keys[c].pqc
      /\ dual.hmacValid \/ legacy => "hmac-sha256" \in dual.algorithms
      /\ (\A i, j \in Hmacs : i = j) =>
           (legacy <=> dual.hmacValid) /\ (legacy <=> "hmac-sha256" \in dual.algorithms)
=============================================================================
