----------------------- MODULE SensorReceiptChainProofs -----------------------
(***************************************************************************)
(* Proofs about SensorReceiptChain, for every number of drones, packets,   *)
(* tamperings and clock readings.                                          *)
(***************************************************************************)
EXTENDS SensorReceiptChain, SensorChainProofs

(* What an append does to the chain, in the terms of its packets.          *)
LEMMA AppendStep ==
  ASSUME TypeOK, NEW d \in Drones, NEW payload \in Payloads, NEW timestamp \in Times,
         AppendPacket(d, payload, timestamp)
  PROVE  /\ DOMAIN chain' = Drones
         /\ \A c \in Drones : c # d => chain'[c] = chain[c]
         /\ IsSequence(chain'[d])
         /\ Len(chain'[d]) = Len(chain[d]) + 1
         /\ \A i \in 1..Len(chain[d]) : chain'[d][i] = chain[d][i]
         /\ chain'[d][Len(chain[d]) + 1] = NextPacket(chain[d], d, payload, timestamp)
<1>1. DOMAIN chain = Drones /\ IsSequence(chain[d])
  BY DEF TypeOK
<1>2. chain' = [chain EXCEPT
        ![d] = Append(chain[d], NextPacket(chain[d], d, payload, timestamp))]
  BY DEF AppendPacket
<1>3. chain'[d] = Append(chain[d], NextPacket(chain[d], d, payload, timestamp))
  BY <1>1, <1>2
<1> QED
  BY <1>1, <1>2, <1>3, AppendSequence

(* What a tampering does: it changes one payload and nothing else.         *)
LEMMA TamperStep ==
  ASSUME TypeOK, NEW d \in Drones, NEW payload \in Payloads,
         NEW j \in 1..Len(chain[d]), Tamper(d, j, payload)
  PROVE  /\ DOMAIN chain' = Drones
         /\ \A c \in Drones : c # d => chain'[c] = chain[c]
         /\ IsSequence(chain'[d])
         /\ Len(chain'[d]) = Len(chain[d])
         /\ \A i \in 1..Len(chain[d]) :
              chain'[d][i] = IF i = j THEN [chain[d][j] EXCEPT !.payload = payload]
                                      ELSE chain[d][i]
<1>1. DOMAIN chain = Drones /\ IsSequence(chain[d])
  BY DEF TypeOK
<1>2. chain' = [chain EXCEPT
        ![d] = [chain[d] EXCEPT ![j] = [chain[d][j] EXCEPT !.payload = payload]]]
  BY DEF Tamper
<1> DEFINE e == [chain[d][j] EXCEPT !.payload = payload]
<1>3. chain'[d] = [chain[d] EXCEPT ![j] = e]
  BY <1>1, <1>2
<1>4. DOMAIN chain' = Drones /\ \A c \in Drones : c # d => chain'[c] = chain[c]
  BY <1>1, <1>2
<1>5. \A i \in 1..Len(chain[d]) : chain'[d][i] = IF i = j THEN e ELSE chain[d][i]
  <2> HIDE DEF e
  <2> QED
    BY <1>1, <1>3, UpdateSequence
<1>6. IsSequence(chain'[d]) /\ Len(chain'[d]) = Len(chain[d])
  <2> HIDE DEF e
  <2>1. IsSequence([chain[d] EXCEPT ![j] = e]) /\ Len([chain[d] EXCEPT ![j] = e]) = Len(chain[d])
    BY <1>1, UpdateSequence
  <2> QED
    BY <1>3, <2>1
<1> QED
  BY <1>4, <1>5, <1>6

(* A packet keeps every field but its payload when it is tampered with.    *)
LEMMA TamperedPacket ==
  ASSUME NEW p, IsPacket(p), NEW payload \in Payloads
  PROVE  LET q == [p EXCEPT !.payload = payload]
         IN  /\ IsPacket(q)
             /\ q.seq = p.seq
             /\ q.timestamp_ns = p.timestamp_ns
             /\ q.prev_sha = p.prev_sha
  BY DEF IsPacket

(* A tampering leaves lengths, numbers, timestamps and digests in place.   *)
LEMMA TamperKeepsStamps ==
  ASSUME TypeOK, NEW d \in Drones, NEW payload \in Payloads,
         NEW j \in 1..Len(chain[d]), Tamper(d, j, payload)
  PROVE  /\ Len(chain'[d]) = Len(chain[d])
         /\ \A i \in 1..Len(chain[d]) :
              /\ chain'[d][i].seq = chain[d][i].seq
              /\ chain'[d][i].timestamp_ns = chain[d][i].timestamp_ns
              /\ chain'[d][i].prev_sha = chain[d][i].prev_sha
<1> DEFINE e == [chain[d][j] EXCEPT !.payload = payload]
<1>1. /\ Len(chain'[d]) = Len(chain[d])
      /\ \A i \in 1..Len(chain[d]) : chain'[d][i] = IF i = j THEN e ELSE chain[d][i]
  BY TamperStep
<1>2. IsPacket(chain[d][j])
  BY DEF TypeOK
<1>3. /\ e.seq = chain[d][j].seq
      /\ e.timestamp_ns = chain[d][j].timestamp_ns
      /\ e.prev_sha = chain[d][j].prev_sha
  BY <1>2, TamperedPacket
<1> HIDE DEF e
<1> QED
  BY <1>1, <1>3

(* Steps other than appends and tamperings leave the chains alone.         *)
LEMMA OtherSteps ==
  ASSUME [Next]_vars,
         ~ \E d \in Drones, payload \in Payloads, timestamp \in Times :
             AppendPacket(d, payload, timestamp),
         ~ \E d \in Drones, payload \in Payloads :
             \E i \in 1..Len(chain[d]) : Tamper(d, i, payload)
  PROVE  chain' = chain /\ sealed' = sealed
  BY DEF Next, SetClock, Project, ReadPage, vars

(* A page is a contiguous part of the chain, empty past its end.           *)
LEMMA PageRead ==
  ASSUME ChainAssumption, TypeOK, NEW d \in Drones
  PROVE  LET view  == PageOf(chain[d], page[d])
             start == page[d] * PageSize
             seqs  == [i \in 1..Len(view) |-> view[i].seq]
         IN  /\ start \in Nat
             /\ Len(view) = IF start + PageSize <= Len(chain[d]) THEN PageSize
                            ELSE IF start < Len(chain[d]) THEN Len(chain[d]) - start ELSE 0
             /\ seqs \in Seq(Nat)
             /\ Len(seqs) = Len(view)
             /\ \A i \in 1..Len(view) : seqs[i] = chain[d][start + i].seq
<1> DEFINE start == page[d] * PageSize
           stop  == PageEnd(chain[d], page[d])
           view  == PageOf(chain[d], page[d])
           seqs  == [i \in 1..Len(view) |-> view[i].seq]
           P     == {chain[d][i] : i \in 1..Len(chain[d])}
<1>1. start \in Nat /\ page[d] \in Nat /\ PageSize \in Nat \ {0}
  BY DEF ChainAssumption, TypeOK
<1>2. Len(chain[d]) \in Nat
  BY EmptySequence DEF TypeOK
<1>3. (page[d] + 1) * PageSize = start + PageSize
  BY <1>1
<1>4. stop = IF start + PageSize < Len(chain[d]) THEN start + PageSize ELSE Len(chain[d])
  BY <1>3 DEF PageEnd
<1>5. view = SubSeq(chain[d], start + 1, stop)
  BY DEF PageOf
<1> HIDE DEF start, stop, view
<1>6. \A i \in (start + 1)..stop : chain[d][i] \in P
  BY <1>1, <1>2, <1>4
<1>7. /\ view \in Seq(P)
      /\ Len(view) = IF start + 1 <= stop THEN stop - (start + 1) + 1 ELSE 0
      /\ \A i \in 1..(stop - (start + 1) + 1) : view[i] = chain[d][start + 1 + i - 1]
  <2>1. start + 1 \in Int /\ stop \in Int
    BY <1>1, <1>2, <1>4
  <2> HIDE DEF P
  <2> QED
    BY <1>5, <1>6, <2>1, SubSeqProperties
<1>8. Len(view) = IF start + PageSize <= Len(chain[d]) THEN PageSize
                  ELSE IF start < Len(chain[d]) THEN Len(chain[d]) - start ELSE 0
  BY <1>1, <1>2, <1>4, <1>7
<1>9. \A i \in 1..Len(view) : start + i \in 1..Len(chain[d]) /\ view[i] = chain[d][start + i]
  BY <1>1, <1>2, <1>4, <1>7
<1>10. \A i \in 1..Len(view) : view[i].seq = chain[d][start + i].seq /\ view[i].seq \in Nat
  BY <1>9 DEF TypeOK, IsPacket
<1>11. seqs \in [1..Len(view) -> Nat] /\ Len(view) \in Nat
  BY <1>1, <1>2, <1>8, <1>10
<1>12. seqs \in Seq(Nat) /\ Len(seqs) = Len(view)
  BY <1>11, SeqDef
<1> QED
  BY <1>1, <1>8, <1>10, <1>12 DEF start, view

(* TypeOK is inductive.                                                    *)
LEMMA TypeStep == ChainAssumption /\ TypeOK /\ [Next]_vars => TypeOK'
<1> SUFFICES ASSUME ChainAssumption, TypeOK, [Next]_vars PROVE TypeOK'
  OBVIOUS
<1> USE DEF ChainAssumption
<1>1. ASSUME NEW d \in Drones, NEW payload \in Payloads, NEW timestamp \in Times,
             AppendPacket(d, payload, timestamp)
      PROVE  TypeOK'
  <2>1. IsPacket(NextPacket(chain[d], d, payload, timestamp))
    BY EmptySequence DEF TypeOK, IsPacket, NextPacket
  <2>2. \A c \in Drones : /\ IsSequence(chain'[c])
                          /\ \A i \in 1..Len(chain'[c]) : IsPacket(chain'[c][i])
    <3> TAKE c \in Drones
    <3>1. CASE c = d
      <4>1. ASSUME NEW i \in 1..Len(chain'[d]) PROVE IsPacket(chain'[d][i])
        <5>1. Len(chain[d]) \in Nat
          BY EmptySequence DEF TypeOK
        <5>2. CASE i \in 1..Len(chain[d])
          BY <1>1, <5>2, AppendStep DEF TypeOK
        <5>3. CASE i = Len(chain[d]) + 1
          BY <1>1, <2>1, <5>3, AppendStep
        <5> QED
          BY <1>1, <5>1, <5>2, <5>3, AppendStep
      <4> QED
        BY <1>1, <3>1, <4>1, AppendStep
    <3>2. CASE c # d
      BY <1>1, <3>2, AppendStep DEF TypeOK
    <3> QED
      BY <3>1, <3>2
  <2>3. DOMAIN sealed' = Drones /\ \A c \in Drones : IsSequence(sealed'[c])
    <3>1. /\ DOMAIN sealed = Drones
          /\ \A c \in Drones : IsSequence(sealed[c])
      BY DEF TypeOK
    <3>2. sealed' = [sealed EXCEPT ![d] =
            IF chain[d] = <<>> THEN <<>> ELSE Append(sealed[d], chain[d][Len(chain[d])])]
      BY <1>1 DEF AppendPacket
    <3>3. IsSequence(sealed'[d])
      BY <3>1, <3>2, AppendSequence, EmptySequence
    <3> QED
      BY <3>1, <3>2, <3>3
  <2> QED
    BY <1>1, <2>2, <2>3, AppendStep DEF TypeOK, AppendPacket, auditVars, consoleVars
<1>2. ASSUME NEW d \in Drones, NEW payload \in Payloads,
             NEW j \in 1..Len(chain[d]), Tamper(d, j, payload)
      PROVE  TypeOK'
  <2>1. \A i \in 1..Len(chain'[d]) : IsPacket(chain'[d][i])
    <3> TAKE i \in 1..Len(chain'[d])
    <3>1. i \in 1..Len(chain[d]) /\ IsPacket(chain[d][i]) /\ IsPacket(chain[d][j])
      BY <1>2, TamperStep DEF TypeOK
    <3>2. chain'[d][i] = IF i = j THEN [chain[d][j] EXCEPT !.payload = payload]
                                  ELSE chain[d][i]
      BY <1>2, <3>1, TamperStep
    <3>3. IsPacket([chain[d][j] EXCEPT !.payload = payload])
      BY <3>1, TamperedPacket
    <3> QED
      BY <3>1, <3>2, <3>3
  <2>2. \A c \in Drones : /\ IsSequence(chain'[c])
                          /\ \A i \in 1..Len(chain'[c]) : IsPacket(chain'[c][i])
    BY <1>2, <2>1, TamperStep DEF TypeOK
  <2>3. tampers' \in 0..MaxTampers
    BY <1>2 DEF Tamper, TypeOK
  <2> QED
    BY <1>2, <2>2, <2>3, TamperStep DEF TypeOK, Tamper, auditVars, consoleVars
<1>3. ASSUME NEW t \in Times, SetClock(t) PROVE TypeOK'
  BY <1>3 DEF TypeOK, SetClock, auditVars, consoleVars
<1>4. ASSUME NEW d \in Drones, Project(d) PROVE TypeOK'
  BY <1>4 DEF TypeOK, Project, consoleVars
<1>5. ASSUME NEW d \in Drones, ReadPage(d) PROVE TypeOK'
  <2> DEFINE view == PageOf(chain[d], page[d])
             seqs == [i \in 1..Len(view) |-> view[i].seq]
  <2>1. seqs \in Seq(Nat)
    BY <1>5, PageRead
  <2>2. shown' = [shown EXCEPT ![d] = @ \o seqs]
    BY <1>5 DEF ReadPage
  <2>3. shown' \in [Drones -> Seq(Nat)]
    BY <2>1, <2>2, ConcatProperties DEF TypeOK
  <2>4. page' \in [Drones -> Nat] /\ done' \in [Drones -> BOOLEAN]
    BY <1>5 DEF ReadPage, TypeOK
  <2> QED
    BY <1>5, <2>3, <2>4 DEF TypeOK, ReadPage, auditVars
<1>6. CASE UNCHANGED vars
  BY <1>6 DEF TypeOK, vars, auditVars, consoleVars
<1> QED
  BY <1>1, <1>2, <1>3, <1>4, <1>5, <1>6 DEF Next

(* TypeOK: the chains stay lists of packets whatever is appended, tampered *)
(* with, audited and read.                                                 *)
THEOREM TypeCorrect == ASSUME ChainAssumption PROVE Spec => []TypeOK
<1>1. ASSUME Init PROVE TypeOK
  <2>1. \A d \in Drones : chain[d] = <<>> /\ sealed[d] = <<>>
    BY <1>1 DEF Init
  <2>2. \A d \in Drones : /\ IsSequence(chain[d]) /\ IsSequence(sealed[d])
                          /\ \A i \in 1..Len(chain[d]) : IsPacket(chain[d][i])
    BY <2>1, EmptySequence
  <2>3. DOMAIN chain = Drones /\ DOMAIN sealed = Drones
    BY <1>1 DEF Init
  <2>4. /\ clock \in Times /\ set_back \in BOOLEAN /\ misdated \subseteq Drones
        /\ tampers \in 0..MaxTampers
    <3>1. set_back \in BOOLEAN
      BY <1>1, Zenon DEF Init
    <3> QED
      BY <1>1, <3>1 DEF Init, ChainAssumption
  <2>5. /\ page \in [Drones -> Nat]
        /\ shown \in [Drones -> Seq(Nat)]
        /\ done \in [Drones -> BOOLEAN]
    BY <1>1 DEF Init
  <2> QED
    BY <2>2, <2>3, <2>4, <2>5 DEF TypeOK
<1> QED
  BY <1>1, TypeStep, PTL DEF Spec
-----------------------------------------------------------------------------
(* Links between the packets: sequence numbers count the packets, and      *)
(* every prev_sha is the digest of the predecessor as it was then sealed.  *)
Links ==
  \A d \in Drones :
    /\ Len(sealed[d]) = IF Len(chain[d]) = 0 THEN 0 ELSE Len(chain[d]) - 1
    /\ \A i \in 1..Len(chain[d]) : chain[d][i].seq = i - 1
    /\ Len(chain[d]) > 0 => chain[d][1].prev_sha = GENESIS_SHA
    /\ \A i \in 2..Len(chain[d]) : chain[d][i].prev_sha = CanonicalSha(sealed[d][i - 1])

LEMMA LinksStep == TypeOK /\ Links /\ [Next]_vars => Links'
<1> SUFFICES ASSUME TypeOK, Links, [Next]_vars PROVE Links'
  OBVIOUS
<1>1. ASSUME NEW d \in Drones, NEW payload \in Payloads, NEW timestamp \in Times,
             AppendPacket(d, payload, timestamp)
      PROVE  Links'
  <2> DEFINE n == Len(chain[d])
             p == NextPacket(chain[d], d, payload, timestamp)
  <2>1. /\ \A c \in Drones : c # d => chain'[c] = chain[c]
        /\ Len(chain'[d]) = n + 1
        /\ \A i \in 1..n : chain'[d][i] = chain[d][i]
        /\ chain'[d][n + 1] = p
    BY <1>1, AppendStep
  <2>2. n \in Nat /\ (chain[d] = <<>> <=> n = 0) /\ IsSequence(sealed[d])
    BY EmptySequence DEF TypeOK
  <2>3. sealed' = [sealed EXCEPT ![d] =
          IF chain[d] = <<>> THEN <<>> ELSE Append(sealed[d], chain[d][n])]
    BY <1>1 DEF AppendPacket
  <2>4. /\ \A c \in Drones : c # d => sealed'[c] = sealed[c]
        /\ sealed'[d] = IF n = 0 THEN <<>> ELSE Append(sealed[d], chain[d][n])
    BY <2>2, <2>3 DEF TypeOK
  <2>5. /\ p.seq = n
        /\ n = 0 => p.prev_sha = GENESIS_SHA
        /\ n > 0 => p.prev_sha = CanonicalSha(chain[d][n])
    BY <2>2 DEF NextPacket
  <2>6. /\ Len(sealed[d]) = IF n = 0 THEN 0 ELSE n - 1
        /\ \A i \in 1..n : chain[d][i].seq = i - 1
        /\ n > 0 => chain[d][1].prev_sha = GENESIS_SHA
        /\ \A i \in 2..n : chain[d][i].prev_sha = CanonicalSha(sealed[d][i - 1])
    BY DEF Links
  <2> HIDE DEF n, p
  <2>7. /\ Len(sealed'[d]) = n
        /\ \A i \in 1..(n - 1) : sealed'[d][i] = sealed[d][i]
        /\ n > 0 => sealed'[d][n] = chain[d][n]
    <3>1. CASE n = 0
      BY <2>2, <2>4, <3>1, EmptySequence
    <3>2. CASE n > 0
      <4>1. sealed'[d] = Append(sealed[d], chain[d][n]) /\ Len(sealed[d]) = n - 1
        BY <2>2, <2>4, <2>6, <3>2
      <4> QED
        BY <2>2, <3>2, <4>1, AppendSequence
    <3> QED
      BY <2>2, <3>1, <3>2
  <2>8. \A i \in 2..(n + 1) : chain'[d][i].prev_sha = CanonicalSha(sealed'[d][i - 1])
    <3> TAKE i \in 2..(n + 1)
    <3>1. CASE i = n + 1
      BY <2>1, <2>2, <2>5, <2>7, <3>1
    <3>2. CASE i # n + 1
      <4>1. i \in 1..n /\ i \in 2..n /\ i - 1 \in 1..(n - 1)
        BY <2>2, <3>2
      <4>2. chain'[d][i] = chain[d][i] /\ sealed'[d][i - 1] = sealed[d][i - 1]
        BY <2>1, <2>7, <4>1
      <4> QED
        BY <2>6, <4>1, <4>2
    <3> QED
      BY <3>1, <3>2
  <2>9. ASSUME NEW i \in 1..(n + 1) PROVE chain'[d][i].seq = i - 1
    <3>1. CASE i = n + 1
      BY <2>1, <2>2, <2>5, <3>1
    <3>2. CASE i # n + 1
      <4>1. i \in 1..n
        BY <2>2, <3>2
      <4> QED
        BY <2>1, <2>6, <4>1
    <3> QED
      BY <3>1, <3>2
  <2>10. chain'[d][1].prev_sha = GENESIS_SHA
    <3>1. CASE n = 0
      <4>1. n + 1 = 1
        BY <3>1
      <4> QED
        BY <2>1, <2>5, <3>1, <4>1
    <3>2. CASE n > 0
      <4>1. 1 \in 1..n
        BY <2>2, <3>2
      <4>2. chain'[d][1] = chain[d][1]
        BY <2>1, <4>1
      <4> QED
        BY <2>6, <3>2, <4>2
    <3> QED
      BY <2>2, <3>1, <3>2
  <2> QED
    <3> SUFFICES ASSUME NEW c \in Drones
                 PROVE  /\ Len(sealed'[c]) = IF Len(chain'[c]) = 0 THEN 0 ELSE Len(chain'[c]) - 1
                        /\ \A i \in 1..Len(chain'[c]) : chain'[c][i].seq = i - 1
                        /\ Len(chain'[c]) > 0 => chain'[c][1].prev_sha = GENESIS_SHA
                        /\ \A i \in 2..Len(chain'[c]) :
                             chain'[c][i].prev_sha = CanonicalSha(sealed'[c][i - 1])
      BY DEF Links
    <3>1. CASE c = d
      BY <2>1, <2>2, <2>7, <2>8, <2>9, <2>10, <3>1
    <3>2. CASE c # d
      <4>1. chain'[c] = chain[c] /\ sealed'[c] = sealed[c]
        BY <2>1, <2>4, <3>2
      <4> QED
        BY <4>1 DEF Links
    <3> QED
      BY <3>1, <3>2
<1>2. ASSUME NEW d \in Drones, NEW payload \in Payloads,
             NEW j \in 1..Len(chain[d]), Tamper(d, j, payload)
      PROVE  Links'
  <2>1. sealed' = sealed
    BY <1>2 DEF Tamper
  <2>2. \A c \in Drones : c # d => chain'[c] = chain[c]
    BY <1>2, TamperStep
  <2>3. /\ Len(chain'[d]) = Len(chain[d])
        /\ \A i \in 1..Len(chain[d]) : /\ chain'[d][i].seq = chain[d][i].seq
                                       /\ chain'[d][i].prev_sha = chain[d][i].prev_sha
    BY <1>2, TamperKeepsStamps
  <2>4. Len(chain[d]) \in Nat
    BY EmptySequence DEF TypeOK
  <2> SUFFICES ASSUME NEW c \in Drones
               PROVE  /\ Len(sealed[c]) = IF Len(chain'[c]) = 0 THEN 0 ELSE Len(chain'[c]) - 1
                      /\ \A i \in 1..Len(chain'[c]) : chain'[c][i].seq = i - 1
                      /\ Len(chain'[c]) > 0 => chain'[c][1].prev_sha = GENESIS_SHA
                      /\ \A i \in 2..Len(chain'[c]) :
                           chain'[c][i].prev_sha = CanonicalSha(sealed[c][i - 1])
    BY <2>1 DEF Links
  <2>5. CASE c = d
    <3>1. \A i \in 1..Len(chain[d]) : chain'[d][i].seq = i - 1
      BY <2>3 DEF Links
    <3>2. Len(chain[d]) > 0 => chain'[d][1].prev_sha = GENESIS_SHA
      BY <2>3, <2>4 DEF Links
    <3>3. \A i \in 2..Len(chain[d]) : chain'[d][i].prev_sha = CanonicalSha(sealed[d][i - 1])
      <4> TAKE i \in 2..Len(chain[d])
      <4>1. i \in 1..Len(chain[d])
        BY <2>4
      <4> QED
        BY <2>3, <4>1 DEF Links
    <3>4. Len(sealed[d]) = IF Len(chain[d]) = 0 THEN 0 ELSE Len(chain[d]) - 1
      BY DEF Links
    <3> QED
      BY <2>3, <2>5, <3>1, <3>2, <3>3, <3>4
  <2>6. CASE c # d
    <3>1. chain'[c] = chain[c]
      BY <2>2, <2>6
    <3> QED
      BY <3>1 DEF Links
  <2> QED
    BY <2>5, <2>6
<1>3. CASE chain' = chain /\ sealed' = sealed
  BY <1>3 DEF Links
<1> QED
  BY <1>1, <1>2, <1>3, OtherSteps

(* ShaSeesInnerTampering: for any number of packets and tamperings,        *)
(* is_sha_complete is exactly the statement that no packet but the last    *)
(* differs from what its successor was chained to.                         *)
THEOREM TamperingSeen == ASSUME ChainAssumption PROVE Spec => []ShaSeesInnerTampering
<1>1. ASSUME Init PROVE Links
  <2>1. \A d \in Drones : chain[d] = <<>> /\ sealed[d] = <<>>
    BY <1>1 DEF Init
  <2> QED
    BY <2>1, EmptySequence DEF Links
<1>2. ASSUME TypeOK, Links PROVE ShaSeesInnerTampering
  <2> SUFFICES ASSUME NEW d \in Drones
               PROVE  IsShaComplete(chain[d]) <=>
                        \A i \in 1..(Len(chain[d]) - 1) : chain[d][i] = sealed[d][i]
    BY DEF ShaSeesInnerTampering
  <2> DEFINE n == Len(chain[d])
  <2>1. n \in Nat /\ (chain[d] = <<>> <=> n = 0)
    BY <1>2, EmptySequence DEF TypeOK
  <2>2. /\ n > 0 => chain[d][1].prev_sha = GENESIS_SHA
        /\ \A i \in 2..n : chain[d][i].prev_sha = CanonicalSha(sealed[d][i - 1])
    BY <1>2 DEF Links
  <2>3. \A i \in 2..n : chain[d][i].prev_sha = CanonicalSha(chain[d][i - 1])
                          <=> chain[d][i - 1] = sealed[d][i - 1]
    BY <2>2 DEF CanonicalSha
  <2>4. IsShaComplete(chain[d]) <=>
          \A i \in 2..n : chain[d][i].prev_sha = CanonicalSha(chain[d][i - 1])
    BY <2>1, <2>2 DEF IsShaComplete
  <2>5. (\A i \in 2..n : chain[d][i - 1] = sealed[d][i - 1])
          <=> \A i \in 1..(n - 1) : chain[d][i] = sealed[d][i]
    <3>1. ASSUME \A i \in 2..n : chain[d][i - 1] = sealed[d][i - 1], NEW k \in 1..(n - 1)
          PROVE  chain[d][k] = sealed[d][k]
      <4>1. k + 1 \in 2..n /\ (k + 1) - 1 = k
        BY <2>1
      <4> QED
        BY <3>1, <4>1
    <3>2. ASSUME \A i \in 1..(n - 1) : chain[d][i] = sealed[d][i], NEW k \in 2..n
          PROVE  chain[d][k - 1] = sealed[d][k - 1]
      BY <2>1, <3>2
    <3> QED
      BY <3>1, <3>2
  <2> QED
    BY <2>3, <2>4, <2>5
<1> QED
  BY <1>1, <1>2, LinksStep, TypeCorrect, PTL DEF Spec
-----------------------------------------------------------------------------
\* A packet and its predecessor as is_total_ordered wants them.
InOrder(c, i) ==
  c[i].seq = c[i - 1].seq + 1 /\ c[i].timestamp_ns >= c[i - 1].timestamp_ns

(* No step takes a packet away or changes its number or timestamp.         *)
LEMMA StampsStay ==
  ASSUME TypeOK, [Next]_vars, NEW d \in Drones
  PROVE  /\ Len(chain[d]) \in Nat
         /\ Len(chain'[d]) \in Nat
         /\ Len(chain[d]) <= Len(chain'[d])
         /\ \A i \in 1..Len(chain[d]) :
              /\ chain'[d][i].seq = chain[d][i].seq
              /\ chain'[d][i].timestamp_ns = chain[d][i].timestamp_ns
<1>1. Len(chain[d]) \in Nat
  BY EmptySequence DEF TypeOK
<1>2. ASSUME NEW c \in Drones, NEW payload \in Payloads, NEW timestamp \in Times,
             AppendPacket(c, payload, timestamp)
      PROVE  /\ Len(chain'[d]) \in Nat
             /\ Len(chain[d]) <= Len(chain'[d])
             /\ \A i \in 1..Len(chain[d]) : chain'[d][i] = chain[d][i]
  <2>1. CASE c = d
    <3>1. Len(chain'[d]) = Len(chain[d]) + 1 /\ \A i \in 1..Len(chain[d]) : chain'[d][i] = chain[d][i]
      BY <1>2, <2>1, AppendStep
    <3> QED
      BY <1>1, <3>1
  <2>2. CASE c # d
    <3>1. chain'[d] = chain[d]
      BY <1>2, <2>2, AppendStep
    <3> QED
      BY <1>1, <3>1
  <2> QED
    BY <2>1, <2>2
<1>3. ASSUME NEW c \in Drones, NEW payload \in Payloads,
             NEW j \in 1..Len(chain[c]), Tamper(c, j, payload)
      PROVE  /\ Len(chain'[d]) = Len(chain[d])
             /\ \A i \in 1..Len(chain[d]) :
                  /\ chain'[d][i].seq = chain[d][i].seq
                  /\ chain'[d][i].timestamp_ns = chain[d][i].timestamp_ns
  <2>1. CASE c = d
    BY <1>3, <2>1, TamperKeepsStamps
  <2>2. CASE c # d
    <3>1. chain'[d] = chain[d]
      BY <1>3, <2>2, TamperStep
    <3> QED
      BY <3>1
  <2> QED
    BY <2>1, <2>2
<1>4. CASE chain' = chain
  BY <1>1, <1>4
<1> QED
  BY <1>1, <1>2, <1>3, <1>4, OtherSteps

(* OrderNeverRepaired: the pair of packets that broke the order stays in   *)
(* the chain for ever, with its numbers and timestamps.                    *)
THEOREM DisorderIsForever == ASSUME ChainAssumption PROVE Spec => OrderNeverRepaired
<1>1. ASSUME TypeOK, [Next]_vars, NEW d \in Drones, ~IsTotalOrdered(chain[d])
      PROVE  ~IsTotalOrdered(chain'[d])
  <2>1. PICK i \in 2..Len(chain[d]) : ~InOrder(chain[d], i)
    BY <1>1 DEF IsTotalOrdered, InOrder
  <2>2. /\ Len(chain[d]) \in Nat
        /\ Len(chain'[d]) \in Nat
        /\ Len(chain[d]) <= Len(chain'[d])
        /\ \A k \in 1..Len(chain[d]) : /\ chain'[d][k].seq = chain[d][k].seq
                                       /\ chain'[d][k].timestamp_ns = chain[d][k].timestamp_ns
    BY <1>1, StampsStay
  <2>3. i \in 1..Len(chain[d]) /\ i - 1 \in 1..Len(chain[d]) /\ i \in 2..Len(chain'[d])
    BY <2>2
  <2>4. ~InOrder(chain'[d], i)
    BY <2>1, <2>2, <2>3 DEF InOrder
  <2> QED
    BY <2>3, <2>4 DEF IsTotalOrdered, InOrder
<1>2. TypeOK /\ [Next]_vars =>
        [\A d \in Drones : ~IsTotalOrdered(chain[d]) => ~IsTotalOrdered(chain'[d])]_vars
  BY <1>1
<1> QED
  BY <1>2, TypeCorrect, PTL DEF Spec, OrderNeverRepaired
-----------------------------------------------------------------------------
(* Unless the clock was set back or a caller passed a time of its own,     *)
(* timestamps do not decrease along a chain and none is ahead of the clock.*)
Stamped ==
  ~set_back =>
    \A d \in Drones \ misdated :
      /\ \A i \in 2..Len(chain[d]) : chain[d][i].timestamp_ns >= chain[d][i - 1].timestamp_ns
      /\ \A i \in 1..Len(chain[d]) : chain[d][i].timestamp_ns <= clock

LEMMA StampedStep == ChainAssumption /\ TypeOK /\ Stamped /\ [Next]_vars => Stamped'
<1> SUFFICES ASSUME ChainAssumption, TypeOK, Stamped, [Next]_vars, ~set_back',
                    NEW d \in Drones, d \notin misdated'
             PROVE  /\ \A i \in 2..Len(chain'[d]) :
                         chain'[d][i].timestamp_ns >= chain'[d][i - 1].timestamp_ns
                    /\ \A i \in 1..Len(chain'[d]) : chain'[d][i].timestamp_ns <= clock'
  BY DEF Stamped
<1>0. d \notin misdated
  <2>1. CASE misdated' = misdated
    BY <2>1
  <2>2. ASSUME NEW c \in Drones, NEW payload \in Payloads, NEW timestamp \in Times,
               AppendPacket(c, payload, timestamp)
        PROVE  misdated \subseteq misdated'
    BY <2>2 DEF AppendPacket
  <2>3. \/ misdated' = misdated
        \/ \E c \in Drones, payload \in Payloads, timestamp \in Times :
             AppendPacket(c, payload, timestamp)
    BY DEF Next, SetClock, Tamper, Project, ReadPage, vars
  <2> QED
    BY <2>1, <2>2, <2>3
<1>1. /\ clock \in Nat /\ clock' \in Nat
      /\ Len(chain[d]) \in Nat
      /\ \A i \in 1..Len(chain[d]) : chain[d][i].timestamp_ns \in Nat
  <2>1. clock \in Times /\ clock' \in Times
    BY TypeStep DEF TypeOK
  <2> QED
    BY <2>1, EmptySequence DEF ChainAssumption, TypeOK, IsPacket
<1>2. ~set_back /\ clock <= clock'
  <2>1. ASSUME NEW t \in Times, SetClock(t) PROVE ~set_back /\ clock <= clock'
    <3>1. clock' = t /\ ~(set_back \/ t < clock)
      BY <2>1, Zenon DEF SetClock
    <3> QED
      BY <1>1, <3>1
  <2>2. CASE clock' = clock /\ set_back' = set_back
    BY <1>1, <2>2
  <2>3. ~(\E t \in Times : SetClock(t)) => clock' = clock /\ set_back' = set_back
    <3>1. CASE UNCHANGED vars
      BY <3>1, Zenon DEF vars
    <3>2. CASE \E c \in Drones, payload \in Payloads, timestamp \in Times :
                 AppendPacket(c, payload, timestamp)
      BY <3>2, Zenon DEF AppendPacket
    <3>3. CASE \E c \in Drones, payload \in Payloads :
                 \E i \in 1..Len(chain[c]) : Tamper(c, i, payload)
      BY <3>3, Zenon DEF Tamper
    <3>4. CASE \E c \in Drones : Project(c)
      BY <3>4, Zenon DEF Project
    <3>5. CASE \E c \in Drones : ReadPage(c)
      BY <3>5, Zenon DEF ReadPage
    <3> QED
      BY <3>1, <3>2, <3>3, <3>4, <3>5, Zenon DEF Next
  <2> QED
    BY <2>1, <2>2, <2>3
<1>3. /\ \A i \in 2..Len(chain[d]) : chain[d][i].timestamp_ns >= chain[d][i - 1].timestamp_ns
      /\ \A i \in 1..Len(chain[d]) : chain[d][i].timestamp_ns <= clock
  BY <1>2, <1>0 DEF Stamped
<1>4. CASE Len(chain'[d]) = Len(chain[d])
  <2>1. \A i \in 1..Len(chain[d]) : chain'[d][i].timestamp_ns = chain[d][i].timestamp_ns
    BY StampsStay
  <2>2. ASSUME NEW i \in 1..Len(chain[d]) PROVE chain'[d][i].timestamp_ns <= clock'
    <3>1. /\ chain'[d][i].timestamp_ns = chain[d][i].timestamp_ns
          /\ chain[d][i].timestamp_ns \in Nat
          /\ chain[d][i].timestamp_ns <= clock
      BY <1>1, <1>3, <2>1
    <3> QED
      BY <1>1, <1>2, <3>1
  <2>3. ASSUME NEW i \in 2..Len(chain[d])
        PROVE  chain'[d][i].timestamp_ns >= chain'[d][i - 1].timestamp_ns
    <3>1. i \in 1..Len(chain[d]) /\ i - 1 \in 1..Len(chain[d])
      BY <1>1
    <3> QED
      BY <1>3, <2>1, <3>1
  <2> QED
    BY <1>4, <2>2, <2>3
<1>5. ASSUME NEW payload \in Payloads, NEW timestamp \in Times,
             AppendPacket(d, payload, timestamp)
      PROVE  /\ \A i \in 2..Len(chain'[d]) :
                  chain'[d][i].timestamp_ns >= chain'[d][i - 1].timestamp_ns
             /\ \A i \in 1..Len(chain'[d]) : chain'[d][i].timestamp_ns <= clock'
  <2> DEFINE n == Len(chain[d])
  <2>1. /\ Len(chain'[d]) = n + 1
        /\ \A i \in 1..n : chain'[d][i] = chain[d][i]
        /\ chain'[d][n + 1] = NextPacket(chain[d], d, payload, timestamp)
    BY <1>5, AppendStep
  <2>2. chain'[d][n + 1].timestamp_ns = clock
    <3>1. timestamp = clock
      BY <1>5 DEF AppendPacket
    <3> QED
      BY <2>1, <3>1 DEF NextPacket
  <2>3. clock' = clock
    BY <1>5 DEF AppendPacket
  <2>4. ASSUME NEW i \in 1..(n + 1) PROVE chain'[d][i].timestamp_ns <= clock'
    <3>1. CASE i = n + 1
      BY <1>1, <2>2, <2>3, <3>1
    <3>2. CASE i \in 1..n
      BY <1>3, <2>1, <2>3, <3>2
    <3> QED
      BY <1>1, <3>1, <3>2
  <2>5. ASSUME NEW i \in 2..(n + 1)
        PROVE  chain'[d][i].timestamp_ns >= chain'[d][i - 1].timestamp_ns
    <3>1. i - 1 \in 1..n /\ chain'[d][i - 1] = chain[d][i - 1]
      BY <1>1, <2>1
    <3>2. CASE i = n + 1
      BY <1>1, <1>3, <2>2, <3>1, <3>2
    <3>3. CASE i \in 2..n
      <4>1. chain'[d][i] = chain[d][i]
        BY <1>1, <2>1, <3>3
      <4> QED
        BY <1>3, <3>1, <3>3, <4>1
    <3> QED
      BY <1>1, <3>2, <3>3
  <2> QED
    BY <2>1, <2>4, <2>5
<1>6. \/ Len(chain'[d]) = Len(chain[d])
      \/ \E payload \in Payloads, timestamp \in Times : AppendPacket(d, payload, timestamp)
  <2>1. ASSUME NEW c \in Drones, NEW payload \in Payloads, NEW timestamp \in Times,
               AppendPacket(c, payload, timestamp), c # d
        PROVE  chain'[d] = chain[d]
    BY <2>1, AppendStep
  <2>2. ASSUME NEW c \in Drones, NEW payload \in Payloads,
               NEW j \in 1..Len(chain[c]), Tamper(c, j, payload)
        PROVE  Len(chain'[d]) = Len(chain[d])
    BY <2>2, TamperStep
  <2> QED
    BY <2>1, <2>2, OtherSteps
<1> QED
  BY <1>4, <1>5, <1>6

(* OrderBreaksOnlyByClock: appending at the clock's time, tampering,       *)
(* auditing and reading never break the total order of a chain, and times  *)
(* passed for one drone never cost another its order.                      *)
THEOREM OrderKept == ASSUME ChainAssumption PROVE Spec => []OrderBreaksOnlyByClock
<1>1. ASSUME Init PROVE Stamped /\ Links
  <2>1. \A d \in Drones : chain[d] = <<>> /\ sealed[d] = <<>>
    BY <1>1 DEF Init
  <2> QED
    BY <2>1, EmptySequence DEF Links, Stamped
<1>2. ASSUME TypeOK, Links, Stamped PROVE OrderBreaksOnlyByClock
  <2> SUFFICES ASSUME NEW d \in Drones, ~set_back, d \notin misdated
               PROVE  IsTotalOrdered(chain[d])
    BY DEF OrderBreaksOnlyByClock
  <2>1. Len(chain[d]) \in Nat
    BY <1>2, EmptySequence DEF TypeOK
  <2>2. ASSUME NEW i \in 2..Len(chain[d]) PROVE chain[d][i].seq = chain[d][i - 1].seq + 1
    <3>1. i \in 1..Len(chain[d]) /\ i - 1 \in 1..Len(chain[d])
      BY <2>1
    <3>2. chain[d][i].seq = i - 1 /\ chain[d][i - 1].seq = (i - 1) - 1
      BY <1>2, <3>1 DEF Links
    <3> QED
      BY <3>2
  <2>3. \A i \in 2..Len(chain[d]) : chain[d][i].timestamp_ns >= chain[d][i - 1].timestamp_ns
    BY <1>2 DEF Stamped
  <2> QED
    BY <2>2, <2>3 DEF IsTotalOrdered
<1> QED
  BY <1>1, <1>2, LinksStep, StampedStep, TypeCorrect, PTL DEF Spec
-----------------------------------------------------------------------------
(* PagesShowEveryPacket is inductive: a page starts where the whole pages  *)
(* before it ended, and holds the packets that are numbered from there.    *)
LEMMA PagesStep ==
  ChainAssumption /\ TypeOK /\ Links /\ PagesShowEveryPacket /\ [Next]_vars
    => PagesShowEveryPacket'
<1> SUFFICES ASSUME ChainAssumption, TypeOK, Links, PagesShowEveryPacket, [Next]_vars,
                    NEW d \in Drones
             PROVE  /\ \A i \in 1..Len(shown'[d]) : shown'[d][i] = i - 1
                    /\ Len(shown'[d]) <= Len(chain'[d])
                    /\ ~done'[d] => Len(shown'[d]) = page'[d] * PageSize
  BY DEF PagesShowEveryPacket
<1>1. /\ Len(chain[d]) \in Nat /\ Len(chain'[d]) \in Nat
      /\ Len(chain[d]) <= Len(chain'[d])
  BY StampsStay
<1>2. shown[d] \in Seq(Nat) /\ Len(shown[d]) \in Nat /\ page[d] \in Nat
  BY LenProperties DEF TypeOK
<1>3. /\ \A i \in 1..Len(shown[d]) : shown[d][i] = i - 1
      /\ Len(shown[d]) <= Len(chain[d])
      /\ ~done[d] => Len(shown[d]) = page[d] * PageSize
  BY DEF PagesShowEveryPacket
<1>4. CASE shown'[d] = shown[d] /\ page'[d] = page[d] /\ done'[d] = done[d]
  BY <1>1, <1>2, <1>3, <1>4
<1>5. CASE ReadPage(d)
  <2> DEFINE start == page[d] * PageSize
             view  == PageOf(chain[d], page[d])
             seqs  == [i \in 1..Len(view) |-> view[i].seq]
  <2>1. /\ ~done[d]
        /\ shown'[d] = shown[d] \o seqs
        /\ page'[d] = page[d] + 1
        /\ chain' = chain
    BY <1>5 DEF ReadPage, TypeOK
  <2>10. done'[d] = (Len(view) < PageSize)
    <3>1. done' = [done EXCEPT ![d] = Len(view) < PageSize] /\ done \in [Drones -> BOOLEAN]
      BY <1>5 DEF ReadPage, TypeOK
    <3> QED
      BY <3>1, Zenon
  <2>2. Len(shown[d]) = start
    BY <1>3, <2>1
  <2>3. /\ start \in Nat
        /\ Len(view) = IF start + PageSize <= Len(chain[d]) THEN PageSize
                       ELSE IF start < Len(chain[d]) THEN Len(chain[d]) - start ELSE 0
        /\ seqs \in Seq(Nat)
        /\ Len(seqs) = Len(view)
        /\ \A i \in 1..Len(view) : seqs[i] = chain[d][start + i].seq
    BY PageRead
  <2>4. page'[d] * PageSize = start + PageSize
    BY <1>2, <2>1 DEF ChainAssumption
  <2> HIDE DEF start, view, seqs
  <2>5. PageSize \in Nat \ {0}
    BY DEF ChainAssumption
  <2>6. /\ Len(shown'[d]) = start + Len(view)
        /\ \A i \in 1..(start + Len(view)) :
             shown'[d][i] = IF i <= start THEN shown[d][i] ELSE seqs[i - start]
    <3>1. /\ Len(shown[d] \o seqs) = Len(shown[d]) + Len(seqs)
          /\ \A i \in 1..(Len(shown[d]) + Len(seqs)) :
               (shown[d] \o seqs)[i] =
                 IF i <= Len(shown[d]) THEN shown[d][i] ELSE seqs[i - Len(shown[d])]
      <4>1. shown[d] \in Seq(Nat) /\ seqs \in Seq(Nat)
        BY <1>2, <2>3
      <4>2. \A s, t \in Seq(Nat) :
              /\ Len(s \o t) = Len(s) + Len(t)
              /\ \A i \in 1..(Len(s) + Len(t)) :
                   (s \o t)[i] = IF i <= Len(s) THEN s[i] ELSE t[i - Len(s)]
        BY ConcatProperties
      <4> HIDE DEF seqs
      <4> QED
        BY <4>1, <4>2, Zenon
    <3>2. shown'[d] = shown[d] \o seqs /\ Len(seqs) = Len(view)
      BY <2>1, <2>3
    <3> HIDE DEF seqs
    <3> QED
      BY <2>2, <3>1, <3>2
  <2>7. Len(view) \in Nat /\ start + Len(view) <= Len(chain[d])
    BY <1>1, <1>3, <2>2, <2>3, <2>5
  <2>8. ASSUME NEW i \in 1..(start + Len(view)) PROVE shown'[d][i] = i - 1
    <3>1. CASE i <= start
      BY <1>3, <2>2, <2>3, <2>6, <3>1
    <3>2. CASE i > start
      <4>1. i - start \in 1..Len(view) /\ i \in 1..Len(chain[d]) /\ start + (i - start) = i
        BY <1>1, <2>3, <2>7, <3>2
      <4>2. shown'[d][i] = seqs[i - start]
        BY <2>3, <2>6, <3>2
      <4>3. seqs[i - start] = chain[d][i].seq
        BY <2>3, <4>1
      <4>4. chain[d][i].seq = i - 1
        BY <4>1 DEF Links
      <4> QED
        BY <4>2, <4>3, <4>4
    <3> QED
      BY <2>3, <3>1, <3>2
  <2>9. ~done'[d] => Len(shown'[d]) = page'[d] * PageSize
    <3>1. ~done'[d] => ~(Len(view) < PageSize)
      BY <2>10
    <3>2. ~(Len(view) < PageSize) => Len(view) = PageSize
      BY <1>1, <2>3, <2>5
    <3> QED
      BY <2>4, <2>6, <3>1, <3>2
  <2> QED
    BY <2>1, <2>6, <2>7, <2>8, <2>9
<1>6. (shown'[d] = shown[d] /\ page'[d] = page[d] /\ done'[d] = done[d]) \/ ReadPage(d)
  <2>1. ASSUME NEW c \in Drones, c # d, ReadPage(c)
        PROVE  shown'[d] = shown[d] /\ page'[d] = page[d] /\ done'[d] = done[d]
    BY <2>1 DEF ReadPage, TypeOK
  <2>2. ~(\E c \in Drones : ReadPage(c)) => UNCHANGED consoleVars
    BY DEF Next, AppendPacket, SetClock, Tamper, Project, vars
  <2> QED
    BY <2>1, <2>2 DEF consoleVars
<1> QED
  BY <1>4, <1>5, <1>6

(* PagesShowEveryPacket: for any page size and any interleaving of appends *)
(* and page turns the operator has read a gapless prefix of the chain.     *)
THEOREM PagesGapless == ASSUME ChainAssumption PROVE Spec => []PagesShowEveryPacket
<1>1. ASSUME Init PROVE Links /\ PagesShowEveryPacket
  <2>1. \A d \in Drones : /\ chain[d] = <<>> /\ sealed[d] = <<>>
                          /\ shown[d] = <<>> /\ page[d] = 0
    BY <1>1 DEF Init
  <2> QED
    BY <2>1, EmptySequence DEF ChainAssumption, Links, PagesShowEveryPacket
<1> QED
  BY <1>1, LinksStep, PagesStep, TypeCorrect, PTL DEF Spec
-----------------------------------------------------------------------------
(* What the auditor holds is the projection of the chain that was audited. *)
Audited ==
  /\ DOMAIN projection = Drones
  /\ DOMAIN audited = Drones
  /\ \A d \in Drones :
       projection[d] # NoProjection =>
         IsSequence(audited[d]) /\ projection[d] = ToSbomChain(audited[d])

LEMMA AuditedStep == TypeOK /\ Audited /\ [Next]_vars => Audited'
<1> SUFFICES ASSUME TypeOK, Audited, [Next]_vars PROVE Audited'
  OBVIOUS
<1>1. ASSUME NEW d \in Drones, Project(d) PROVE Audited'
  <2>1. IsSequence(chain[d])
    BY DEF TypeOK
  <2> QED
    BY <1>1, <2>1 DEF Audited, Project
<1>2. CASE UNCHANGED auditVars
  BY <1>2 DEF Audited, auditVars
<1>3. UNCHANGED auditVars \/ \E d \in Drones : Project(d)
  BY DEF Next, AppendPacket, SetClock, Tamper, ReadPage, vars
<1> QED
  BY <1>1, <1>2, <1>3

(* ProjectionVouches: whatever was appended to, tampered with or audited   *)
(* since, equal digests mean that the chain is the audited one.            *)
THEOREM AuditVouches == ASSUME ChainAssumption PROVE Spec => []ProjectionVouches
<1>1. ASSUME Init PROVE Audited
  BY <1>1 DEF Init, Audited
<1>2. ASSUME TypeOK, Audited PROVE ProjectionVouches
  <2> SUFFICES ASSUME NEW d \in Drones, projection[d] # NoProjection,
                      FromSbomChainView(projection[d]) = ChainSha256(chain[d])
               PROVE  chain[d] = audited[d]
    BY DEF ProjectionVouches
  <2>1. /\ IsSequence(audited[d]) /\ projection[d] = ToSbomChain(audited[d])
        /\ IsSequence(chain[d])
    BY <1>2 DEF Audited, TypeOK
  <2>2. Len(ToSbomChain(audited[d])) = Len(audited[d])
    BY <2>1, ReceiptPerPacket
  <2>3. \A i \in 1..Len(audited[d]) :
          ToSbomChain(audited[d])[i].sha256 = CanonicalSha(audited[d][i])
    BY DEF ToSbomChain
  <2>4. FromSbomChainView(projection[d]) = ChainSha256(audited[d])
    BY <2>1, <2>2, <2>3 DEF FromSbomChainView, ChainSha256
  <2> QED
    BY <2>1, <2>4, DigestsTellChainsApart
<1> QED
  BY <1>1, <1>2, AuditedStep, TypeCorrect, PTL DEF Spec
=============================================================================
