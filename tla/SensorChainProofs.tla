-------------------------- MODULE SensorChainProofs --------------------------
(***************************************************************************)
(* Lemmas about the chains of SensorChain: what an append, a write into    *)
(* one place and the digests make of a list, whatever it holds.            *)
(***************************************************************************)
EXTENDS SensorChain, SequenceTheorems, TLAPS

(* A list is a list over the set of its own values.                        *)
LEMMA ListOfItsValues ==
  ASSUME NEW S, NEW s \in Seq(S)
  PROVE  s \in Seq({s[i] : i \in 1..Len(s)})
<1> DEFINE V == {s[i] : i \in 1..Len(s)}
<1>1. /\ Len(s) \in Nat
      /\ s \in [1..Len(s) -> V]
  BY LenProperties
<1> HIDE DEF V
<1>2. s \in UNION {[1..n -> V] : n \in Nat}
  BY <1>1, Zenon
<1>3. s \in Seq(V)
  BY <1>2, SeqDef, Zenon
<1> QED
  BY <1>3, Zenon DEF V

(* What append does to a list, for whatever the list holds.                *)
LEMMA AppendSequence ==
  ASSUME NEW s, IsSequence(s), NEW e
  PROVE  /\ IsSequence(Append(s, e))
         /\ Len(Append(s, e)) = Len(s) + 1
         /\ \A i \in 1..Len(s) : Append(s, e)[i] = s[i]
         /\ Append(s, e)[Len(s) + 1] = e
<1> DEFINE S == {s[i] : i \in 1..Len(s)}
           a == Append(s, e)
           A == {a[i] : i \in 1..Len(a)}
<1>1. s \in Seq(S)
  BY DEF IsSequence
<1>2. s \in Seq(S \cup {e})
  BY <1>1, SeqMonotonic, S \subseteq S \cup {e}
<1>3. /\ a \in Seq(S \cup {e})
      /\ Len(a) = Len(s) + 1
      /\ \A i \in 1..Len(s) : a[i] = s[i]
      /\ a[Len(s) + 1] = e
  BY <1>2, AppendProperties
<1>4. a \in Seq(A)
  BY <1>3, ListOfItsValues
<1> QED
  BY <1>3, <1>4 DEF IsSequence

(* Writing one place of a list leaves a list of the same length.           *)
LEMMA UpdateSequence ==
  ASSUME NEW s, IsSequence(s), NEW j \in 1..Len(s), NEW e
  PROVE  /\ IsSequence([s EXCEPT ![j] = e])
         /\ Len([s EXCEPT ![j] = e]) = Len(s)
         /\ \A i \in 1..Len(s) : [s EXCEPT ![j] = e][i] = IF i = j THEN e ELSE s[i]
<1> DEFINE S == {s[i] : i \in 1..Len(s)}
           a == [s EXCEPT ![j] = e]
           A == {a[i] : i \in 1..Len(a)}
<1>1. /\ s \in Seq(S)
      /\ Len(s) \in Nat
      /\ DOMAIN s = 1..Len(s)
  BY LenProperties DEF IsSequence
<1>2. s \in Seq(S \cup {e})
  BY <1>1, SeqMonotonic, S \subseteq S \cup {e}
<1>3. a \in Seq(S \cup {e}) /\ Len(a) = Len(s)
  BY <1>2, ExceptSeq
<1>4. \A i \in 1..Len(s) : a[i] = IF i = j THEN e ELSE s[i]
  BY <1>1
<1> HIDE DEF a
<1>5. a \in Seq(A)
  BY <1>3, ListOfItsValues, Zenon
<1>6. IsSequence(a)
  BY <1>5 DEF IsSequence
<1> QED
  BY <1>3, <1>4, <1>6 DEF a

(* The empty list is the list of length 0.                                 *)
LEMMA EmptySequence ==
  /\ IsSequence(<<>>)
  /\ Len(<<>>) = 0
  /\ \A s : IsSequence(s) => (s = <<>> <=> Len(s) = 0) /\ Len(s) \in Nat
<1>1. IsSequence(<<>>) /\ Len(<<>>) = 0
  BY DEF IsSequence
<1>2. ASSUME NEW s, IsSequence(s)
      PROVE  (s = <<>> <=> Len(s) = 0) /\ Len(s) \in Nat
  BY <1>2, EmptySeq, LenProperties DEF IsSequence
<1> QED
  BY <1>1, <1>2
(* Without its last element, an appended list is the list again.           *)
LEMMA FrontOfAppend ==
  ASSUME NEW s, IsSequence(s), NEW e
  PROVE  SubSeq(Append(s, e), 1, Len(s)) = s
<1> DEFINE V == {s[i] : i \in 1..Len(s)}
           f == SubSeq(Append(s, e), 1, Len(s))
<1>1. s \in Seq(V) /\ Len(s) \in Nat
  BY LenProperties DEF IsSequence
<1>2. \A i \in 1..Len(s) : Append(s, e)[i] = s[i]
  BY AppendSequence
<1>3. \A i \in 1..Len(s) : Append(s, e)[i] \in V
  BY <1>2
<1> HIDE DEF V
<1>4. /\ f \in Seq(V)
      /\ Len(f) = IF 1 <= Len(s) THEN Len(s) - 1 + 1 ELSE 0
      /\ \A i \in 1..(Len(s) - 1 + 1) : f[i] = Append(s, e)[1 + i - 1]
  BY <1>1, <1>3, SubSeqProperties
<1> HIDE DEF f
<1>5. Len(f) = Len(s) /\ \A i \in 1..Len(f) : f[i] = s[i]
  BY <1>1, <1>2, <1>4
<1>6. f = s
  BY <1>1, <1>4, <1>5, SeqEqual
<1> QED
  BY <1>6 DEF f

(* A list is its front with its last element appended.                     *)
LEMMA FrontAndLast ==
  ASSUME NEW s, IsSequence(s), s # <<>>
  PROVE  Append(SubSeq(s, 1, Len(s) - 1), s[Len(s)]) = s
<1> DEFINE V == {s[i] : i \in 1..Len(s)}
<1>1. s \in Seq(V)
  BY DEF IsSequence
<1> HIDE DEF V
<1>2. PICK u \in Seq(V), x \in V : s = Append(u, x)
  BY <1>1, SequenceEmptyOrAppend
<1>3. IsSequence(u) /\ Len(u) \in Nat
  BY <1>2, ListOfItsValues, LenProperties DEF IsSequence
<1>4. Len(s) = Len(u) + 1 /\ s[Len(u) + 1] = x
  BY <1>2, <1>3, AppendSequence
<1>5. SubSeq(s, 1, Len(u)) = u
  BY <1>2, <1>3, FrontOfAppend
<1>6. Len(s) - 1 = Len(u)
  BY <1>3, <1>4
<1> QED
  BY <1>2, <1>4, <1>5, <1>6

-----------------------------------------------------------------------------
(* A projection has a receipt for every packet.                            *)
LEMMA ReceiptPerPacket ==
  ASSUME NEW c, IsSequence(c)
  PROVE  Len(ToSbomChain(c)) = Len(c)
<1> DEFINE R == ToSbomChain(c)
           V == {R[i] : i \in 1..Len(c)}
<1>1. Len(c) \in Nat
  BY EmptySequence
<1>2. R \in [1..Len(c) -> V]
  BY DEF ToSbomChain
<1> HIDE DEF R, V
<1>3. R \in Seq(V)
  BY <1>1, <1>2, SeqDef
<1>4. 1..Len(R) = 1..Len(c) /\ Len(R) \in Nat
  BY <1>2, <1>3, LenProperties
<1> QED
  BY <1>1, <1>4 DEF R

(* The digests of two chains are equal only if the chains are.             *)
LEMMA DigestsTellChainsApart ==
  ASSUME NEW a, IsSequence(a), NEW c, IsSequence(c), ChainSha256(a) = ChainSha256(c)
  PROVE  a = c
<1>1. /\ Len(a) \in Nat /\ Len(c) \in Nat
  BY EmptySequence
<1>2. 1..Len(a) = 1..Len(c)
  <2>1. DOMAIN ChainSha256(a) = 1..Len(a) /\ DOMAIN ChainSha256(c) = 1..Len(c)
    BY DEF ChainSha256
  <2> QED
    BY <2>1
<1>3. Len(a) = Len(c)
  BY <1>1, <1>2
<1>4. ASSUME NEW i \in 1..Len(a) PROVE a[i] = c[i]
  <2>1. ChainSha256(a)[i] = <<a[i]>> /\ ChainSha256(c)[i] = <<c[i]>>
    BY <1>2 DEF ChainSha256, CanonicalSha
  <2>2. <<a[i]>>[1] = <<c[i]>>[1]
    BY <2>1
  <2> QED
    BY <2>2
<1>5. /\ a = [i \in 1..Len(a) |-> a[i]]
      /\ c = [i \in 1..Len(c) |-> c[i]]
  BY LenProperties DEF IsSequence
<1> QED
  BY <1>3, <1>4, <1>5
=============================================================================
