----------------------------- MODULE SensorChain -----------------------------
(***************************************************************************)
(* The pure part of UDSSensorReceiptChain (uds_v18_24_substrate.py):       *)
(* packets chained by the digest of their predecessor, the two checks of a *)
(* chain, its overall digest and its projection to SBOM receipts.          *)
(*                                                                         *)
(* Digests are structural and so free of collisions: the digest of a       *)
(* packet is <<p>>, the genesis digest is <<>>, and a fold of digests is   *)
(* their sequence.  A payload is what a tick puts into it.                 *)
(***************************************************************************)
EXTENDS Integers, Sequences

\* A sequence, of whatever it holds.
IsSequence(s) == s \in Seq({s[i] : i \in 1..Len(s)})

GENESIS_SHA == <<>>

\* Mutation of CanonicalSha: the payload is left out of the digest.
ShaOfHeader(packet) == <<[packet EXCEPT !.payload = 0]>>

CanonicalSha(packet) == <<packet>>

\* Mutation of NextPacket: chained to the first packet.
NextPacketChainedToFirst(chain, tail, payload, timestamp) ==
  [tail_number  |-> tail,
   seq          |-> Len(chain),
   timestamp_ns |-> timestamp,
   payload      |-> payload,
   prev_sha     |-> IF chain = <<>> THEN GENESIS_SHA ELSE CanonicalSha(chain[1])]

\* append: the next packet of a chain.
NextPacket(chain, tail, payload, timestamp) ==
  [tail_number  |-> tail,
   seq          |-> Len(chain),
   timestamp_ns |-> timestamp,
   payload      |-> payload,
   prev_sha     |-> IF chain = <<>> THEN GENESIS_SHA ELSE CanonicalSha(chain[Len(chain)])]

\* Mutations of IsTotalOrdered: equal timestamps refused; only the last two
\* packets compared.
IsStrictlyOrdered(chain) ==
  \A i \in 2..Len(chain) :
    /\ chain[i].seq = chain[i - 1].seq + 1
    /\ chain[i].timestamp_ns > chain[i - 1].timestamp_ns

IsOrderedAtEnd(chain) ==
  \A i \in 2..Len(chain) :
    i = Len(chain) => chain[i].timestamp_ns >= chain[i - 1].timestamp_ns

IsTotalOrdered(chain) ==
  \A i \in 2..Len(chain) :
    /\ chain[i].seq = chain[i - 1].seq + 1
    /\ chain[i].timestamp_ns >= chain[i - 1].timestamp_ns

\* Mutation of IsShaComplete: the first link is skipped.
IsShaCompleteFromThird(chain) ==
  \A i \in 3..Len(chain) : chain[i].prev_sha = CanonicalSha(chain[i - 1])

IsShaComplete(chain) ==
  /\ \A i \in 2..Len(chain) : chain[i].prev_sha = CanonicalSha(chain[i - 1])
  /\ chain # <<>> => chain[1].prev_sha = GENESIS_SHA

WellFormed(chain) == IsTotalOrdered(chain) /\ IsShaComplete(chain)

ChainSha256(chain) == [i \in 1..Len(chain) |-> CanonicalSha(chain[i])]

ToSbomChain(chain) ==
  [i \in 1..Len(chain) |->
     [component   |-> <<chain[i].tail_number, chain[i].seq>>,
      sha256      |-> CanonicalSha(chain[i]),
      prev_sha256 |-> chain[i].prev_sha]]

FromSbomChainView(records) == [i \in 1..Len(records) |-> records[i].sha256]
=============================================================================
