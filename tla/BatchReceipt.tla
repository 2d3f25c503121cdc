---------------------------- MODULE BatchReceipt ----------------------------
(***************************************************************************)
(* The pure part of the SDK's batch receipts (mesh/sdk/mesh.py and         *)
(* mesh.ts): the Merkle root with duplicate-last padding, the aggregate    *)
(* over a batch, and the two verifiers, which differ in one count.         *)
(*                                                                         *)
(* Hashes are structural and so free of collisions: a leaf is <<r>>, an    *)
(* inner node is <<left, right>>, the root of no leaves is <<>>.  The code *)
(* tells leaves from inner nodes by nothing (lines 261-267): that no hash  *)
(* of a receipt is one of a pair is part of the same abstraction.  An      *)
(* aggregate of k signatures of one signer over one root is the record     *)
(* [times, key, over]: k * sk * h in the additive group of the code.       *)
(***************************************************************************)
EXTENDS Integers, Sequences

\* Mutation of Pad: an odd node is dropped, not duplicated.
PadDropsOdd(level) ==
  IF Len(level) % 2 = 1 THEN SubSeq(level, 1, Len(level) - 1) ELSE level

Pad(level) ==
  IF Len(level) % 2 = 1 THEN Append(level, level[Len(level)]) ELSE level

PairUp(level) ==
  [i \in 1..(Len(level) \div 2) |-> <<level[2 * i - 1], level[2 * i]>>]

\* The level k steps above the leaves; a level of one node stays.
Level(leaves, k) ==
  LET up[j \in 0..k] ==
        IF j = 0 THEN [i \in 1..Len(leaves) |-> <<leaves[i]>>]
        ELSE IF Len(up[j - 1]) > 1 THEN PairUp(Pad(up[j - 1]))
        ELSE up[j - 1]
  IN  up[k]

MerkleRoot(leaves) ==
  IF leaves = <<>> THEN <<>> ELSE Level(leaves, Len(leaves))[1]

AggSig(times, key, root) == [times |-> times, key |-> key, over |-> root]

\* Sum of the keys times the root's scalar equals the aggregate signature.
AggregateVerify(times, key, root, sig) == sig = AggSig(times, key, root)

\* Mutation of BatchAggregate: the last span is left out.
AggregateSkipsLast(leaves, sigs, count, ids, signer) ==
  LET kept == SubSeq(leaves, 1, Len(leaves) - 1)
  IN  [count    |-> count - 1,
       agg_sig  |-> AggSig(sigs - 1, signer, MerkleRoot(kept)),
       root     |-> MerkleRoot(kept),
       span_ids |-> SubSeq(ids, 1, Len(ids) - 1),
       leaves   |-> kept]

\* What batch_aggregate / batchAggregate returns, from the leaves, the number
\* of signatures, the count and the ids it has read.  The leaves are history:
\* of them the caller gets the root.  "verified" is left out: the aggregate
\* always verifies under as many signers as it has signatures of, and neither
\* verifier reads it.
BatchAggregate(leaves, sigs, count, ids, signer) ==
  [count    |-> count,
   agg_sig  |-> AggSig(sigs, signer, MerkleRoot(leaves)),
   root     |-> MerkleRoot(leaves),
   span_ids |-> ids,
   leaves   |-> leaves]

\* All was read of the same batch.
Whole(agg) == agg.span_ids = agg.leaves

\* verify_batch of mesh.py takes the number of signers from the aggregate.
VerifyPy(leaves, agg, signer) ==
  /\ MerkleRoot(leaves) = agg.root
  /\ AggregateVerify(agg.count, signer, agg.root, agg.agg_sig)

\* Mutation of VerifyTs: the number of signers is the aggregate's.
VerifyTsByAggregate(leaves, agg, signer) ==
  /\ MerkleRoot(leaves) = agg.root
  /\ AggregateVerify(agg.count, signer, agg.root, agg.agg_sig)

\* verifyBatch of mesh.ts takes it from the spans it was given.
VerifyTs(leaves, agg, signer) ==
  /\ MerkleRoot(leaves) = agg.root
  /\ AggregateVerify(Len(leaves), signer, agg.root, agg.agg_sig)
=============================================================================
