--------------------------- MODULE FormulaReceipts ---------------------------
(***************************************************************************)
(* formula_receipts.py: a process computes one of the anchored formulas    *)
(* and signs the receipt with an HMAC key it read when it was started; the *)
(* receipt object renders its envelope anew each time it is asked, and any *)
(* process may verify the envelope with the key it was started with.       *)
(*                                                                         *)
(* Inputs are integers; the output of the summation invariant is computed, *)
(* that of the floating-point formulas is a value of its own for every     *)
(* input on which they return.                                             *)
(***************************************************************************)
EXTENDS Integers, Sequences, FiniteSets

LOCAL INSTANCE SequencesExt

CONSTANTS
  Processes,        \* the processes that emit and verify
  HmacKeys,         \* the values FORMULA_HMAC_KEY may have
  Calls,            \* what is asked of emit_formula_receipt: formula, inputs
  MaxReceipts,      \* bound: receipts emitted
  MaxEdits          \* bound: fields of a receipt object written afterwards

VARIABLES
  hmac_env,     \* FORMULA_HMAC_KEY where processes are started
  hmac_key,     \* per process: _HMAC_KEY, bound when the module was imported
  receipts,     \* per process: the receipt objects it holds
  envelopes,    \* the envelopes rendered so far, with the object's history
  emitted,      \* receipts emitted, against MaxReceipts
  edits         \* writes, against MaxEdits

vars == <<hmac_env, hmac_key, receipts, envelopes, emitted, edits>>

SumOver(s) == FoldLeft(LAMBDA a, b : a + b, 0, s)
AbsOf(i) == IF i < 0 THEN -i ELSE i

\* The inputs on which a formula returns; on others emit raises, as it does
\* on a formula that is not in the registry.
Computes(call) ==
  LET in == call.inputs IN
  \/ call.formula = "MadhavaBound" /\ AbsOf(in.x) <= 1 /\ in.N >= 1
  \/ call.formula = "FalsePosition" /\ in.y1 # in.y2 /\ in.x1 # in.x2
  \/ call.formula = "LiuHuiPi" /\ in.k \in 0..50
  \/ call.formula = "AdversarialRobustness" /\ in.l1 > 0 /\ in.l2 > 0 /\ in.delta > 0
  \/ call.formula = "SummationInvariant"

SummationInvariant(in) ==
  LET pendant_values == [i \in DOMAIN in.organs |-> SumOver(in.organs[i])]
      computed_total == SumOver(pendant_values)
  IN  [pendant_values  |-> pendant_values,
       computed_total  |-> computed_total,
       invariant_holds |-> computed_total = in.primary_cord]

Output(call) ==
  IF call.formula = "SummationInvariant" THEN SummationInvariant(call.inputs) ELSE call

\* The hash of the inputs is the inputs, free of collisions; the Lean anchor
\* is the registry's for the formula.
ReceiptBody(call) ==
  [formula |-> call.formula, inputs_hash |-> call.inputs, output |-> Output(call),
   lean_anchor |-> call.formula]

\* Mutation of SignPayload: the output is left out of what is signed.
SignInputsOnly(body, key) == [key |-> key, over |-> [body EXCEPT !.output = 0]]

SignPayload(body, key) == [key |-> key, over |-> body]

\* to_dsse_envelope: the fields as they are now, the signature as it was.
ToDsseEnvelope(receipt) == [payload |-> receipt.body, sig |-> receipt.signature]

Verify(envelope, key) == envelope.sig = SignPayload(envelope.payload, key)
----------------------------------------------------------------------------
Init ==
  /\ hmac_env \in HmacKeys
  /\ hmac_key = [p \in Processes |-> hmac_env]
  /\ receipts = [p \in Processes |-> {}]
  /\ envelopes = {} /\ emitted = 0 /\ edits = 0

RotateEnv(key) ==
  /\ hmac_env' = key
  /\ UNCHANGED <<hmac_key, receipts, envelopes, emitted, edits>>

\* A process is started again: it reads the environment, its objects are gone.
Restart(p) ==
  /\ hmac_key' = [hmac_key EXCEPT ![p] = hmac_env]
  /\ receipts' = [receipts EXCEPT ![p] = {}]
  /\ UNCHANGED <<hmac_env, envelopes, emitted, edits>>

\* emit_formula_receipt returns the object and a first envelope.
EmitFormulaReceipt(p, call) ==
  LET body == ReceiptBody(call)
      made == [body |-> body, signature |-> SignPayload(body, hmac_key[p]), call |-> call]
  IN
  /\ emitted < MaxReceipts
  /\ Computes(call)
  /\ emitted' = emitted + 1
  /\ receipts' = [receipts EXCEPT ![p] = @ \cup {made}]
  /\ envelopes' = envelopes \cup
       {[env |-> ToDsseEnvelope(made), call |-> call, key |-> hmac_key[p]]}
  /\ UNCHANGED <<hmac_env, hmac_key, edits>>

\* A holder of the object writes another receipt's output into it.
EditReceipt(p, receipt, output) ==
  /\ edits < MaxEdits
  /\ edits' = edits + 1
  /\ receipts' = [receipts EXCEPT
       ![p] = (@ \ {receipt}) \cup {[receipt EXCEPT !.body.output = output]}]
  /\ UNCHANGED <<hmac_env, hmac_key, envelopes, emitted>>

\* The object is asked for its envelope again, some time later.
RenderAgain(p, receipt) ==
  /\ envelopes' = envelopes \cup
       {[env |-> ToDsseEnvelope(receipt), call |-> receipt.call,
         key |-> receipt.signature.key]}
  /\ UNCHANGED <<hmac_env, hmac_key, receipts, emitted, edits>>

Outputs == {Output(call) : call \in {c \in Calls : Computes(c)}}

Next ==
  \/ \E k \in HmacKeys : RotateEnv(k)
  \/ \E p \in Processes : Restart(p)
  \/ \E p \in Processes, call \in Calls : EmitFormulaReceipt(p, call)
  \/ \E p \in Processes : \E r \in receipts[p] :
       \/ \E output \in Outputs : EditReceipt(p, r, output)
       \/ RenderAgain(p, r)

Spec == Init /\ [][Next]_vars
----------------------------------------------------------------------------
(* A process accepts an envelope if and only if it was started with the    *)
(* key the emitter had been started with, and the output is the one the    *)
(* formula gives for the hashed inputs: rotating the key in the            *)
(* environment changes nothing before a restart, and a receipt object that *)
(* was written into renders envelopes nobody accepts (_HMAC_KEY,           *)
(* to_dsse_envelope, verify).                                              *)
AcceptedOutputsAreComputed ==
  \A e \in envelopes, p \in Processes :
    Verify(e.env, hmac_key[p]) <=>
      hmac_key[p] = e.key /\ e.env.payload = ReceiptBody(e.call)
=============================================================================
