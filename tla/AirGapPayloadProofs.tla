------------------------- MODULE AirGapPayloadProofs -------------------------
(***************************************************************************)
(* Proofs about AirGapPayload and the console over it, for every number of *)
(* payloads, readings, witnesses, packets and clock readings.              *)
(***************************************************************************)
EXTENDS OperatorConsole, SensorChainProofs, FiniteSetTheorems

(* What a tick puts out.                                                   *)
IsPacket(p) ==
  p \in [tail_number : Drones, seq : Nat, timestamp_ns : Times,
         payload : Payloads, prev_sha : {p.prev_sha}]

(* Every variable holds a value of its type.                               *)
PayloadTypes ==
  /\ armed \in [Drones -> BOOLEAN]
  /\ rtl \in [Drones -> BOOLEAN]
  /\ DOMAIN chain = Drones
  /\ \A d \in Drones : /\ IsSequence(chain[d])
                       /\ \A i \in 1..Len(chain[d]) : IsPacket(chain[d][i])
  /\ witness_count \in [Drones -> Nat]
  /\ clock \in Times
  /\ set_back \in BOOLEAN
  /\ misdated \subseteq Drones

(* What a tick does to the chains, in the terms of their packets.          *)
LEMMA TickStep ==
  ASSUME PayloadTypes, NEW d \in Drones, NEW reading \in Readings,
         NEW timestamp \in Times, Tick(d, reading, timestamp)
  PROVE  LET payload == [reading |-> reading, armed |-> armed[d], rtl |-> rtl[d]]
         IN  /\ payload \in Payloads
             /\ DOMAIN chain' = Drones
             /\ \A c \in Drones : c # d => chain'[c] = chain[c]
             /\ IsSequence(chain'[d])
             /\ Len(chain'[d]) = Len(chain[d]) + 1
             /\ \A i \in 1..Len(chain[d]) : chain'[d][i] = chain[d][i]
             /\ chain'[d][Len(chain[d]) + 1] = NextPacket(chain[d], d, payload, timestamp)
<1> DEFINE payload == [reading |-> reading, armed |-> armed[d], rtl |-> rtl[d]]
           packet  == NextPacket(chain[d], d, payload, timestamp)
<1>1. payload \in Payloads
  BY DEF PayloadTypes, Payloads
<1>2. DOMAIN chain = Drones /\ IsSequence(chain[d])
  BY DEF PayloadTypes
<1>3. chain' = [chain EXCEPT ![d] = Append(chain[d], packet)]
  BY DEF Tick
<1> HIDE DEF payload, packet
<1>4. chain'[d] = Append(chain[d], packet)
  BY <1>2, <1>3
<1> QED
  BY <1>1, <1>2, <1>3, <1>4, AppendSequence DEF payload, packet

(* Only a tick changes a chain.                                            *)
LEMMA OnlyTicksAppend ==
  [Next]_vars =>
    \/ chain' = chain
    \/ \E d \in Drones, reading \in Readings, timestamp \in Times : Tick(d, reading, timestamp)
  BY DEF Next, Arm, DualWitnessDisarm, RequestRtl, Abort, SetClock, vars

LEMMA TypesStep == PayloadTypes /\ [Next]_vars => PayloadTypes'
<1> SUFFICES ASSUME PayloadTypes, [Next]_vars PROVE PayloadTypes'
  OBVIOUS
<1>1. ASSUME NEW d \in Drones, NEW reading \in Readings, NEW timestamp \in Times,
             Tick(d, reading, timestamp)
      PROVE  PayloadTypes'
  <2> DEFINE payload == [reading |-> reading, armed |-> armed[d], rtl |-> rtl[d]]
             packet  == NextPacket(chain[d], d, payload, timestamp)
  <2>1. IsPacket(packet)
    <3>1. payload \in Payloads
      BY <1>1, TickStep
    <3> HIDE DEF payload
    <3>2. Len(chain[d]) \in Nat
      BY EmptySequence DEF PayloadTypes
    <3> QED
      BY <3>1, <3>2 DEF IsPacket, NextPacket
  <2>2. ASSUME NEW i \in 1..Len(chain'[d]) PROVE IsPacket(chain'[d][i])
    <3>1. /\ Len(chain[d]) \in Nat
          /\ Len(chain'[d]) = Len(chain[d]) + 1
          /\ \A k \in 1..Len(chain[d]) : chain'[d][k] = chain[d][k]
          /\ chain'[d][Len(chain[d]) + 1] = packet
      BY <1>1, TickStep, EmptySequence DEF PayloadTypes
    <3>2. \A k \in 1..Len(chain[d]) : IsPacket(chain[d][k])
      BY DEF PayloadTypes
    <3> HIDE DEF packet
    <3> QED
      BY <2>1, <3>1, <3>2
  <2>3. \A c \in Drones : /\ IsSequence(chain'[c])
                          /\ \A i \in 1..Len(chain'[c]) : IsPacket(chain'[c][i])
    <3>1. IsSequence(chain'[d]) /\ \A c \in Drones : c # d => chain'[c] = chain[c]
      BY <1>1, TickStep
    <3>2. \A c \in Drones : /\ IsSequence(chain[c])
                            /\ \A i \in 1..Len(chain[c]) : IsPacket(chain[c][i])
      BY DEF PayloadTypes
    <3> TAKE c \in Drones
    <3>3. CASE c = d
      BY <2>2, <3>1, <3>3
    <3>4. CASE c # d
      BY <3>1, <3>2, <3>4
    <3> QED
      BY <3>3, <3>4
  <2>4. DOMAIN chain' = Drones
    BY <1>1, TickStep
  <2>5. /\ UNCHANGED <<armed, rtl, witness_count, clock, set_back>>
        /\ misdated' = misdated \/ misdated' = misdated \cup {d}
    BY <1>1 DEF Tick
  <2> QED
    BY <2>3, <2>4, <2>5 DEF PayloadTypes
<1>2. ASSUME NEW d \in Drones, Arm(d) PROVE PayloadTypes'
  BY <1>2 DEF PayloadTypes, Arm
<1>3. ASSUME NEW d \in Drones, NEW a, NEW b, DualWitnessDisarm(d, a, b) PROVE PayloadTypes'
  BY <1>3 DEF PayloadTypes, DualWitnessDisarm
<1>4. ASSUME NEW d \in Drones, RequestRtl(d) PROVE PayloadTypes'
  BY <1>4 DEF PayloadTypes, RequestRtl
<1>5. ASSUME NEW d \in Drones, Abort(d) PROVE PayloadTypes'
  BY <1>5 DEF PayloadTypes, Abort
<1>6. ASSUME NEW t \in Times, SetClock(t) PROVE PayloadTypes'
  BY <1>6 DEF PayloadTypes, SetClock
<1>7. CASE UNCHANGED vars
  BY <1>7 DEF PayloadTypes, vars
<1> QED
  BY <1>1, <1>2, <1>3, <1>4, <1>5, <1>6, <1>7 DEF Next

LEMMA InitTypes == Init => PayloadTypes
<1> SUFFICES ASSUME Init PROVE PayloadTypes
  OBVIOUS
<1>1. \A d \in Drones : chain[d] = <<>>
  BY DEF Init
<1>2. \A d \in Drones : /\ IsSequence(chain[d])
                        /\ \A i \in 1..Len(chain[d]) : IsPacket(chain[d][i])
  BY <1>1, EmptySequence
<1>3. set_back \in BOOLEAN
  BY Zenon DEF Init
<1> QED
  BY <1>2, <1>3 DEF Init, PayloadTypes
-----------------------------------------------------------------------------
(* The packets of a chain are numbered from 0 on and each holds the digest *)
(* of the one before it.                                                   *)
Linked ==
  \A d \in Drones :
    /\ \A i \in 1..Len(chain[d]) : chain[d][i].seq = i - 1
    /\ Len(chain[d]) > 0 => chain[d][1].prev_sha = GENESIS_SHA
    /\ \A i \in 2..Len(chain[d]) : chain[d][i].prev_sha = CanonicalSha(chain[d][i - 1])

LEMMA LinkedStep == PayloadTypes /\ Linked /\ [Next]_vars => Linked'
<1> SUFFICES ASSUME PayloadTypes, Linked, [Next]_vars PROVE Linked'
  OBVIOUS
<1>1. ASSUME NEW d \in Drones, NEW reading \in Readings, NEW timestamp \in Times,
             Tick(d, reading, timestamp)
      PROVE  Linked'
  <2> DEFINE n       == Len(chain[d])
             payload == [reading |-> reading, armed |-> armed[d], rtl |-> rtl[d]]
             packet  == NextPacket(chain[d], d, payload, timestamp)
  <2>1. /\ \A c \in Drones : c # d => chain'[c] = chain[c]
        /\ Len(chain'[d]) = n + 1
        /\ \A i \in 1..n : chain'[d][i] = chain[d][i]
        /\ chain'[d][n + 1] = packet
    BY <1>1, TickStep
  <2>2. n \in Nat /\ (chain[d] = <<>> <=> n = 0)
    BY EmptySequence DEF PayloadTypes
  <2>3. /\ packet.seq = n
        /\ packet.prev_sha = IF n = 0 THEN GENESIS_SHA ELSE CanonicalSha(chain[d][n])
    BY <2>2 DEF NextPacket
  <2>4. /\ \A i \in 1..n : chain[d][i].seq = i - 1
        /\ n > 0 => chain[d][1].prev_sha = GENESIS_SHA
        /\ \A i \in 2..n : chain[d][i].prev_sha = CanonicalSha(chain[d][i - 1])
    BY DEF Linked
  <2> HIDE DEF packet, n
  <2>5. ASSUME NEW i \in 1..(n + 1) PROVE chain'[d][i].seq = i - 1
    <3>1. CASE i = n + 1
      BY <2>1, <2>2, <2>3, <3>1
    <3>2. CASE i \in 1..n
      BY <2>1, <2>4, <3>2
    <3> QED
      BY <2>2, <3>1, <3>2
  <2>6. chain'[d][1].prev_sha = GENESIS_SHA
    BY <2>1, <2>2, <2>3, <2>4
  <2>7. ASSUME NEW i \in 2..(n + 1)
        PROVE  chain'[d][i].prev_sha = CanonicalSha(chain'[d][i - 1])
    <3>1. i - 1 \in 1..n /\ chain'[d][i - 1] = chain[d][i - 1]
      BY <2>1, <2>2
    <3>2. CASE i = n + 1
      BY <2>1, <2>2, <2>3, <3>1, <3>2
    <3>3. CASE i \in 2..n
      <4>1. i \in 1..n /\ chain'[d][i] = chain[d][i]
        BY <2>1, <2>2, <3>3
      <4> QED
        BY <2>4, <3>1, <3>3, <4>1
    <3> QED
      BY <2>2, <3>2, <3>3
  <2> QED
    BY <2>1, <2>5, <2>6, <2>7 DEF Linked
<1>2. CASE chain' = chain
  BY <1>2 DEF Linked
<1> QED
  BY <1>1, <1>2, OnlyTicksAppend

(* Unless the clock was set back or a tick was passed a time of its own,   *)
(* timestamps do not decrease along a chain and none is ahead of the clock.*)
Timed ==
  ~set_back =>
    \A d \in Drones \ misdated :
      /\ \A i \in 2..Len(chain[d]) : chain[d][i].timestamp_ns >= chain[d][i - 1].timestamp_ns
      /\ \A i \in 1..Len(chain[d]) : chain[d][i].timestamp_ns <= clock

LEMMA TimedStep == PayloadAssumption /\ PayloadTypes /\ Timed /\ [Next]_vars => Timed'
<1> SUFFICES ASSUME PayloadAssumption, PayloadTypes, Timed, [Next]_vars PROVE Timed'
  OBVIOUS
<1>1. /\ clock \in Nat /\ clock' \in Nat
      /\ \A d \in Drones : /\ Len(chain[d]) \in Nat
                           /\ \A i \in 1..Len(chain[d]) : chain[d][i].timestamp_ns \in Nat
  <2>1. clock \in Times /\ clock' \in Times
    BY TypesStep DEF PayloadTypes
  <2> QED
    BY <2>1, EmptySequence DEF PayloadAssumption, PayloadTypes, IsPacket
<1>2. ASSUME NEW d \in Drones, NEW reading \in Readings, NEW timestamp \in Times,
             Tick(d, reading, timestamp)
      PROVE  Timed'
  <2> DEFINE n       == Len(chain[d])
             payload == [reading |-> reading, armed |-> armed[d], rtl |-> rtl[d]]
  <2> SUFFICES ASSUME ~set_back'
               PROVE  \A c \in Drones \ misdated' :
                        /\ \A i \in 2..Len(chain'[c]) :
                             chain'[c][i].timestamp_ns >= chain'[c][i - 1].timestamp_ns
                        /\ \A i \in 1..Len(chain'[c]) : chain'[c][i].timestamp_ns <= clock'
    BY DEF Timed
  <2>1. /\ clock' = clock /\ ~set_back
        /\ misdated \subseteq misdated'
        /\ timestamp = clock \/ d \in misdated'
    BY <1>2 DEF Tick
  <2>2. \A c \in Drones \ misdated' :
          /\ \A i \in 2..Len(chain[c]) : chain[c][i].timestamp_ns >= chain[c][i - 1].timestamp_ns
          /\ \A i \in 1..Len(chain[c]) : chain[c][i].timestamp_ns <= clock
    BY <2>1 DEF Timed
  <2>3. /\ \A c \in Drones : c # d => chain'[c] = chain[c]
        /\ Len(chain'[d]) = n + 1
        /\ \A i \in 1..n : chain'[d][i] = chain[d][i]
        /\ chain'[d][n + 1].timestamp_ns = timestamp
    <3> DEFINE packet == NextPacket(chain[d], d, payload, timestamp)
    <3>1. packet.timestamp_ns = timestamp
      BY DEF NextPacket
    <3>2. /\ \A c \in Drones : c # d => chain'[c] = chain[c]
          /\ Len(chain'[d]) = n + 1
          /\ \A i \in 1..n : chain'[d][i] = chain[d][i]
          /\ chain'[d][n + 1] = packet
      BY <1>2, TickStep
    <3> HIDE DEF packet, n
    <3> QED
      BY <3>1, <3>2
  <2>4. n \in Nat
    BY <1>1
  <2>5. ASSUME d \notin misdated', NEW i \in 1..(n + 1)
        PROVE  chain'[d][i].timestamp_ns <= clock
    <3>1. CASE i = n + 1
      BY <1>1, <2>1, <2>3, <2>5, <3>1
    <3>2. CASE i \in 1..n
      BY <2>2, <2>3, <2>5, <3>2
    <3> QED
      BY <2>4, <3>1, <3>2
  <2>6. ASSUME d \notin misdated', NEW i \in 2..(n + 1)
        PROVE  chain'[d][i].timestamp_ns >= chain'[d][i - 1].timestamp_ns
    <3>1. i - 1 \in 1..n /\ chain'[d][i - 1] = chain[d][i - 1]
      BY <2>3, <2>4
    <3>2. CASE i = n + 1
      BY <1>1, <2>1, <2>2, <2>3, <2>6, <3>1, <3>2
    <3>3. CASE i \in 2..n
      <4>1. i \in 1..n /\ chain'[d][i] = chain[d][i]
        BY <2>3, <2>4, <3>3
      <4> QED
        BY <2>2, <2>6, <3>1, <3>3, <4>1
    <3> QED
      BY <2>4, <3>2, <3>3
  <2> HIDE DEF n
  <2> QED
    BY <2>1, <2>2, <2>3, <2>5, <2>6
<1>3. ASSUME NEW t \in Times, SetClock(t) PROVE Timed'
  <2>1. /\ clock' = t /\ set_back' = (set_back \/ t < clock)
        /\ chain' = chain /\ misdated' = misdated
    BY <1>3, Zenon DEF SetClock
  <2>2. ~set_back' => ~set_back /\ ~(t < clock)
    BY <2>1, Zenon
  <2>3. ~set_back' => ~set_back /\ clock <= clock'
    BY <1>1, <2>1, <2>2
  <2> SUFFICES ASSUME ~set_back', NEW d \in Drones \ misdated
               PROVE  /\ \A i \in 2..Len(chain[d]) :
                           chain[d][i].timestamp_ns >= chain[d][i - 1].timestamp_ns
                      /\ \A i \in 1..Len(chain[d]) : chain[d][i].timestamp_ns <= clock'
    BY <2>1 DEF Timed
  <2>4. /\ \A i \in 2..Len(chain[d]) :
             chain[d][i].timestamp_ns >= chain[d][i - 1].timestamp_ns
        /\ \A i \in 1..Len(chain[d]) : chain[d][i].timestamp_ns <= clock
    BY <2>3 DEF Timed
  <2> QED
    BY <1>1, <2>3, <2>4
<1>4. CASE UNCHANGED <<chain, clock, set_back, misdated>>
  BY <1>4 DEF Timed
<1> QED
  BY <1>2, <1>3, <1>4 DEF Next, Arm, DualWitnessDisarm, RequestRtl, Abort, vars

(* OnlyStampsBreakTheInvariant: whatever is called in whatever order, the  *)
(* links of the chain hold, and so does its order unless the clock was set *)
(* back or a tick of this payload was passed another time.                 *)
THEOREM ControlKeepsTheChain == ASSUME PayloadAssumption PROVE Spec => []OnlyStampsBreakTheInvariant
<1>1. ASSUME Init PROVE Linked /\ Timed
  <2>1. \A d \in Drones : chain[d] = <<>>
    BY <1>1 DEF Init
  <2> QED
    BY <2>1, EmptySequence DEF Linked, Timed
<1>2. ASSUME PayloadTypes, Linked, Timed PROVE OnlyStampsBreakTheInvariant
  <2> SUFFICES ASSUME NEW d \in Drones
               PROVE  /\ Axis1Provenance(d) = 1
                      /\ ~UdsInvariantHolds(d) =>
                           Axis5Temporal(d) = 0 /\ (set_back \/ d \in misdated)
    BY DEF OnlyStampsBreakTheInvariant
  <2>1. Len(chain[d]) \in Nat /\ (chain[d] = <<>> <=> Len(chain[d]) = 0)
    BY <1>2, EmptySequence DEF PayloadTypes
  <2>2. IsShaComplete(chain[d])
    BY <1>2, <2>1 DEF Linked, IsShaComplete
  <2>3. ASSUME ~set_back, d \notin misdated PROVE IsTotalOrdered(chain[d])
    <3>1. ASSUME NEW i \in 2..Len(chain[d]) PROVE chain[d][i].seq = chain[d][i - 1].seq + 1
      <4>1. i \in 1..Len(chain[d]) /\ i - 1 \in 1..Len(chain[d])
        BY <2>1
      <4>2. chain[d][i].seq = i - 1 /\ chain[d][i - 1].seq = (i - 1) - 1
        BY <1>2, <4>1 DEF Linked
      <4> QED
        BY <4>2
    <3>2. \A i \in 2..Len(chain[d]) : chain[d][i].timestamp_ns >= chain[d][i - 1].timestamp_ns
      BY <1>2, <2>3 DEF Timed
    <3> QED
      BY <3>1, <3>2 DEF IsTotalOrdered
  <2> QED
    BY <2>2, <2>3 DEF Axis1Provenance, Axis5Temporal, UdsInvariantHolds, WellFormed
<1> QED
  BY <1>1, <1>2, InitTypes, TypesStep, LinkedStep, TimedStep, PTL DEF Spec
-----------------------------------------------------------------------------
\* The drone has been disarmed and no packet shows it yet.
DisarmUnseen(d) ==
  chain[d] # <<>> /\ chain[d][Len(chain[d])].payload.armed /\ ~armed[d]

Unseen(d) == IF DisarmUnseen(d) THEN 1 ELSE 0

(* The disarmings a chain shows, and the one its next packet will show,    *)
(* are covered by passages of the gate.                                    *)
Covered ==
  \A d \in Drones :
    Cardinality(DisarmsShown(d)) + Unseen(d) <= witness_count[d]

LEMMA DisarmsAreFinite ==
  ASSUME PayloadTypes, NEW d \in Drones
  PROVE  IsFiniteSet(DisarmsShown(d)) /\ Cardinality(DisarmsShown(d)) \in Nat
<1>1. Len(chain[d]) \in Int
  BY EmptySequence DEF PayloadTypes
<1>2. IsFiniteSet(2..Len(chain[d]))
  BY <1>1, FS_Interval
<1>3. DisarmsShown(d) \subseteq 2..Len(chain[d])
  BY DEF DisarmsShown
<1> QED
  BY <1>2, <1>3, FS_Subset, FS_CardinalityType

(* A tick shows the disarming that was not seen before, and leaves none.   *)
LEMMA TickShowsDisarm ==
  ASSUME PayloadTypes, NEW d \in Drones, NEW reading \in Readings,
         NEW timestamp \in Times, Tick(d, reading, timestamp)
  PROVE  /\ DisarmsShown(d)' = IF DisarmUnseen(d) THEN DisarmsShown(d) \cup {Len(chain[d]) + 1}
                               ELSE DisarmsShown(d)
         /\ ~DisarmUnseen(d)'
<1> DEFINE n       == Len(chain[d])
           payload == [reading |-> reading, armed |-> armed[d], rtl |-> rtl[d]]
           packet  == NextPacket(chain[d], d, payload, timestamp)
<1>1. /\ IsSequence(chain'[d])
      /\ Len(chain'[d]) = n + 1
      /\ \A i \in 1..n : chain'[d][i] = chain[d][i]
      /\ chain'[d][n + 1] = packet
  BY TickStep
<1>2. packet.payload.armed = armed[d]
  BY DEF NextPacket
<1>3. armed' = armed
  BY DEF Tick
<1>4. n \in Nat /\ (chain[d] = <<>> <=> n = 0)
  BY EmptySequence DEF PayloadTypes
<1>5. chain'[d][n + 1].payload.armed = armed[d]
  BY <1>1, <1>2
<1> HIDE DEF packet, payload
<1>6. ~DisarmUnseen(d)'
  <2>1. DisarmUnseen(d)' <=>
          chain'[d] # <<>> /\ chain'[d][Len(chain'[d])].payload.armed /\ ~armed'[d]
    BY Zenon DEF DisarmUnseen
  <2>2. chain'[d][Len(chain'[d])].payload.armed = armed'[d]
    BY <1>1, <1>3, <1>5
  <2> QED
    BY <2>1, <2>2, Zenon
<1>7. DisarmsShown(d)' = {i \in 2..(n + 1) : chain'[d][i - 1].payload.armed
                                              /\ ~chain'[d][i].payload.armed}
  BY <1>1 DEF DisarmsShown
<1>8. ASSUME NEW i \in 2..n PROVE i \in DisarmsShown(d)' <=> i \in DisarmsShown(d)
  <2>1. /\ i \in 2..(n + 1)
        /\ chain'[d][i - 1] = chain[d][i - 1]
        /\ chain'[d][i] = chain[d][i]
    BY <1>1, <1>4
  <2>2. i \in DisarmsShown(d) <=> chain[d][i - 1].payload.armed /\ ~chain[d][i].payload.armed
    BY Zenon DEF DisarmsShown
  <2>3. i \in DisarmsShown(d)' <=> chain'[d][i - 1].payload.armed /\ ~chain'[d][i].payload.armed
    BY <1>7, <2>1, Zenon
  <2> QED
    BY <2>1, <2>2, <2>3, Zenon
<1>9. n + 1 \in DisarmsShown(d)' <=> DisarmUnseen(d)
  <2>1. CASE n = 0
    <3>1. n + 1 \notin 2..(n + 1)
      BY <2>1
    <3> QED
      BY <1>4, <1>7, <2>1, <3>1, Zenon DEF DisarmUnseen
  <2>2. CASE n # 0
    <3>1. n + 1 \in 2..(n + 1) /\ (n + 1) - 1 = n /\ chain'[d][n] = chain[d][n]
      BY <1>1, <1>4, <2>2
    <3>2. n + 1 \in DisarmsShown(d)' <=>
            chain'[d][(n + 1) - 1].payload.armed /\ ~chain'[d][n + 1].payload.armed
      BY <1>7, <3>1, Zenon
    <3>3. n + 1 \in DisarmsShown(d)' <=> chain[d][n].payload.armed /\ ~armed[d]
      BY <1>5, <3>1, <3>2, Zenon
    <3> QED
      BY <1>4, <2>2, <3>3, Zenon DEF DisarmUnseen
  <2> QED
    BY <2>1, <2>2
<1>10. DisarmsShown(d) \subseteq 2..n /\ DisarmsShown(d)' \subseteq 2..(n + 1)
  BY <1>7 DEF DisarmsShown
<1>11. 2..(n + 1) \subseteq (2..n) \cup {n + 1} /\ n + 1 \notin 2..n
  BY <1>4
<1> QED
  <2>1. CASE DisarmUnseen(d)
    <3>1. DisarmsShown(d)' = DisarmsShown(d) \cup {n + 1}
      BY <1>8, <1>9, <1>10, <1>11, <2>1, Zenon
    <3> QED
      BY <1>6, <2>1, <3>1, Zenon
  <2>2. CASE ~DisarmUnseen(d)
    <3>1. DisarmsShown(d)' = DisarmsShown(d)
      BY <1>8, <1>9, <1>10, <1>11, <2>2, Zenon
    <3> QED
      BY <1>6, <2>2, <3>1, Zenon
  <2> QED
    BY <2>1, <2>2

LEMMA CoveredStep == PayloadTypes /\ Covered /\ [Next]_vars => Covered'
<1> SUFFICES ASSUME PayloadTypes, Covered, [Next]_vars, NEW d \in Drones
             PROVE  Cardinality(DisarmsShown(d)') + Unseen(d)' <= witness_count'[d]
  BY DEF Covered
<1> DEFINE shown  == Cardinality(DisarmsShown(d))
           unseen == Unseen(d)
           count  == witness_count[d]
           Goal   == Cardinality(DisarmsShown(d)') + Unseen(d)' <= witness_count'[d]
<1>1. shown \in Nat /\ unseen \in {0, 1} /\ count \in Nat /\ shown + unseen <= count
  BY DisarmsAreFinite DEF PayloadTypes, Covered, Unseen
<1>2. ASSUME NEW reading \in Readings, NEW timestamp \in Times, Tick(d, reading, timestamp)
      PROVE  Goal
  <2>1. witness_count' = witness_count
    BY <1>2 DEF Tick
  <2>2. Unseen(d)' = 0
    BY <1>2, TickShowsDisarm, Zenon DEF Unseen
  <2>3. CASE DisarmUnseen(d)
    <3> DEFINE after == DisarmsShown(d) \cup {Len(chain[d]) + 1}
    <3>1. DisarmsShown(d)' = after
      BY <1>2, <2>3, TickShowsDisarm, Zenon
    <3>2. Cardinality(after) = IF Len(chain[d]) + 1 \in DisarmsShown(d) THEN shown ELSE shown + 1
      BY DisarmsAreFinite, FS_AddElement
    <3>3. unseen = 1
      BY <2>3 DEF Unseen
    <3> HIDE DEF after, shown, unseen, count
    <3>4. Cardinality(after) + 0 <= count
      BY <1>1, <3>2, <3>3
    <3> QED
      BY <2>1, <2>2, <3>1, <3>4 DEF count
  <2>4. CASE ~DisarmUnseen(d)
    <3>1. DisarmsShown(d)' = DisarmsShown(d)
      BY <1>2, <2>4, TickShowsDisarm, Zenon
    <3>2. unseen = 0
      BY <2>4 DEF Unseen
    <3> QED
      BY <1>1, <2>1, <2>2, <3>1, <3>2
  <2> QED
    BY <2>3, <2>4
<1>3. CASE chain'[d] = chain[d] /\ armed'[d] = armed[d] /\ witness_count'[d] = witness_count[d]
  <2>1. DisarmsShown(d)' = DisarmsShown(d) /\ Unseen(d)' = Unseen(d)
    BY <1>3, Zenon DEF DisarmsShown, DisarmUnseen, Unseen
  <2> QED
    BY <1>1, <1>3, <2>1, Zenon
<1>4. CASE Arm(d)
  <2>1. chain' = chain /\ armed'[d] = TRUE /\ witness_count' = witness_count
    BY <1>4 DEF Arm, PayloadTypes
  <2>2. DisarmsShown(d)' = DisarmsShown(d) /\ Unseen(d)' = 0
    BY <2>1, Zenon DEF DisarmsShown, DisarmUnseen, Unseen
  <2>3. shown + 0 <= count
    <3> HIDE DEF shown, unseen, count
    <3> QED
      BY <1>1
  <2> QED
    BY <2>1, <2>2, <2>3, Zenon
<1>5. ASSUME NEW a, NEW b, DualWitnessDisarm(d, a, b) PROVE Goal
  <2>1. chain' = chain /\ witness_count'[d] = count + 1
    BY <1>5 DEF DualWitnessDisarm, PayloadTypes
  <2>2. DisarmsShown(d)' = DisarmsShown(d)
    BY <2>1, Zenon DEF DisarmsShown
  <2> DEFINE after == Unseen(d)'
  <2>3. after \in {0, 1}
    BY DEF Unseen
  <2>4. shown + after <= count + 1
    <3> HIDE DEF shown, unseen, count, after
    <3> QED
      BY <1>1, <2>3
  <2> QED
    BY <2>1, <2>2, <2>4, Zenon
<1>6. \/ \E reading \in Readings, timestamp \in Times : Tick(d, reading, timestamp)
      \/ Arm(d)
      \/ \E a, b : DualWitnessDisarm(d, a, b)
      \/ chain'[d] = chain[d] /\ armed'[d] = armed[d] /\ witness_count'[d] = witness_count[d]
  <2>1. ASSUME NEW c \in Drones, c # d, NEW reading \in Readings, NEW timestamp \in Times,
               Tick(c, reading, timestamp)
        PROVE  chain'[d] = chain[d] /\ armed' = armed /\ witness_count' = witness_count
    <3>1. chain'[d] = chain[d]
      BY <2>1, TickStep
    <3> QED
      BY <2>1, <3>1 DEF Tick
  <2>2. ASSUME NEW c \in Drones, c # d, Arm(c)
        PROVE  chain' = chain /\ armed'[d] = armed[d] /\ witness_count' = witness_count
    BY <2>2 DEF Arm, PayloadTypes
  <2>3. ASSUME NEW c \in Drones, c # d, NEW a, NEW b, DualWitnessDisarm(c, a, b)
        PROVE  chain' = chain /\ armed'[d] = armed[d] /\ witness_count'[d] = witness_count[d]
    BY <2>3 DEF DualWitnessDisarm, PayloadTypes
  <2>4. \/ \E c \in Drones, reading \in Readings, timestamp \in Times :
             Tick(c, reading, timestamp)
        \/ \E c \in Drones : Arm(c)
        \/ \E c \in Drones, a, b \in {EmptyName} \cup Names : DualWitnessDisarm(c, a, b)
        \/ chain' = chain /\ armed' = armed /\ witness_count' = witness_count
    BY DEF Next, RequestRtl, Abort, SetClock, vars
  <2> QED
    BY <2>1, <2>2, <2>3, <2>4, Zenon
<1> QED
  BY <1>2, <1>3, <1>4, <1>5, <1>6, Zenon

(* DisarmsAreWitnessed: RTL, abort, arming again and any number of ticks   *)
(* between them notwithstanding, every disarming in a chain has its own    *)
(* passage of the gate.                                                    *)
THEOREM GateCoversDisarms == Spec => []DisarmsAreWitnessed
<1>1. ASSUME Init PROVE Covered
  <2>1. \A d \in Drones : chain[d] = <<>> /\ witness_count[d] = 0
    BY <1>1 DEF Init
  <2>2. \A d \in Drones : DisarmsShown(d) = {} /\ Unseen(d) = 0
    BY <2>1, EmptySequence DEF DisarmsShown, DisarmUnseen, Unseen
  <2> QED
    <3>1. \A d \in Drones : Cardinality(DisarmsShown(d)) = 0
      BY <2>2, FS_EmptySet
    <3> QED
      BY <2>1, <2>2, <3>1 DEF Covered
<1>2. ASSUME PayloadTypes, Covered PROVE DisarmsAreWitnessed
  <2> SUFFICES ASSUME NEW d \in Drones
               PROVE  /\ Cardinality(DisarmsShown(d)) <= witness_count[d]
                      /\ DisarmsShown(d) # {} => Axis2Witness(d) = 1
    BY DEF DisarmsAreWitnessed
  <2>1. /\ IsFiniteSet(DisarmsShown(d)) /\ Cardinality(DisarmsShown(d)) \in Nat
        /\ witness_count[d] \in Nat
        /\ Unseen(d) \in {0, 1}
    BY <1>2, DisarmsAreFinite DEF PayloadTypes, Unseen
  <2>2. Cardinality(DisarmsShown(d)) <= witness_count[d]
    BY <1>2, <2>1 DEF Covered
  <2>3. DisarmsShown(d) # {} => Cardinality(DisarmsShown(d)) # 0
    BY <2>1, FS_EmptySet
  <2> QED
    BY <2>1, <2>2, <2>3 DEF Axis2Witness
<1> QED
  BY <1>1, <1>2, InitTypes, TypesStep, CoveredStep, PTL DEF Spec
-----------------------------------------------------------------------------
\* What a chain's packets but the last are: what SensorReceiptChain calls sealed.
SealedPart(c) == IF c = <<>> THEN <<>> ELSE SubSeq(c, 1, Len(c) - 1)

LEMMA SealedByAppend ==
  ASSUME NEW c, IsSequence(c), NEW e
  PROVE  SealedPart(Append(c, e)) =
           IF c = <<>> THEN <<>> ELSE Append(SealedPart(c), c[Len(c)])
<1>1. /\ Len(c) \in Nat /\ (c = <<>> <=> Len(c) = 0)
      /\ IsSequence(Append(c, e)) /\ Len(Append(c, e)) = Len(c) + 1
  BY AppendSequence, EmptySequence
<1>2. Append(c, e) # <<>> /\ Len(Append(c, e)) - 1 = Len(c)
  BY <1>1, EmptySequence
<1>3. SealedPart(Append(c, e)) = c
  BY <1>2, FrontOfAppend, Zenon DEF SealedPart
<1>4. c # <<>> => Append(SealedPart(c), c[Len(c)]) = c
  BY FrontAndLast, Zenon DEF SealedPart
<1> QED
  BY <1>3, <1>4, Zenon

(* A tick is an append of the receipt chain.                               *)
LEMMA TickAppends ==
  ASSUME PayloadTypes, NEW d \in Drones, NEW reading \in Readings,
         NEW timestamp \in Times, Tick(d, reading, timestamp)
  PROVE  \E p \in Payloads : Chains!AppendPacket(d, p, timestamp)
<1>1. PICK payload \in Payloads :
        payload = [reading |-> reading, armed |-> armed[d], rtl |-> rtl[d]]
  BY TickStep
<1> DEFINE packet  == NextPacket(chain[d], d, payload, timestamp)
           before  == [e \in Drones |-> SealedPart(chain[e])]
           after   == [e \in Drones |-> SealedPart(chain'[e])]
<1>2. /\ Len(chain[d]) < MaxPackets
      /\ chain' = [chain EXCEPT ![d] = Append(chain[d], packet)]
      /\ UNCHANGED <<clock, set_back>>
      /\ misdated' = IF timestamp = clock THEN misdated ELSE misdated \cup {d}
  BY <1>1 DEF Tick
<1>3. DOMAIN chain = Drones /\ IsSequence(chain[d])
  BY DEF PayloadTypes
<1> HIDE DEF packet
<1>4. SealedPart(chain'[d]) =
        IF chain[d] = <<>> THEN <<>> ELSE Append(SealedPart(chain[d]), chain[d][Len(chain[d])])
  <2>1. chain'[d] = Append(chain[d], packet)
    BY <1>2, <1>3
  <2> QED
    BY <1>3, <2>1, SealedByAppend
<1>5. \A e \in Drones : e # d => chain'[e] = chain[e]
  BY <1>2, <1>3
<1>6. after = [before EXCEPT ![d] =
                 IF chain[d] = <<>> THEN <<>> ELSE Append(before[d], chain[d][Len(chain[d])])]
  BY <1>4, <1>5
<1>7. Chains!NextPacket(chain[d], d, payload, timestamp) = packet
  BY Zenon DEF packet, NextPacket, CanonicalSha, GENESIS_SHA,
               Chains!NextPacket, Chains!CanonicalSha, Chains!GENESIS_SHA
<1>8. Chains!AppendPacket(d, payload, timestamp)
  <2>1. chain' = [chain EXCEPT
          ![d] = Append(chain[d], Chains!NextPacket(chain[d], d, payload, timestamp))]
    BY <1>2, <1>7
  <2>2. after = [before EXCEPT ![d] =
          IF chain[d] = <<>> THEN <<>> ELSE Append(before[d], chain[d][Len(chain[d])])]
    BY <1>6
  <2> QED
    BY <1>2, <2>1, <2>2, Zenon
       DEF Chains!AppendPacket, Chains!auditVars, Chains!consoleVars, SealedPart
<1> QED
  BY <1>8

(* ImplementsReceiptChain: the control loop starts with empty chains, each *)
(* of its ticks appends, a clock change is one, and arming, disarming, RTL *)
(* and abort leave the chains alone.                                       *)
THEOREM LoopImplementsChain == Spec => ImplementsReceiptChain
<1>1. Init => Chains!Init
  <2> SUFFICES ASSUME Init PROVE Chains!Init
    OBVIOUS
  <2>1. /\ chain = [d \in Drones |-> <<>>] /\ clock \in Times /\ set_back = FALSE
        /\ misdated = {}
    BY DEF Init
  <2>2. [d \in Drones |-> IF chain[d] = <<>> THEN <<>> ELSE SubSeq(chain[d], 1, Len(chain[d]) - 1)]
          = [d \in Drones |-> <<>>]
    BY <2>1
  <2> QED
    BY <2>1, <2>2, Zenon DEF Chains!Init
<1>2. PayloadTypes /\ [Next]_vars => [Chains!Next]_(Chains!vars)
  <2> SUFFICES ASSUME PayloadTypes, [Next]_vars PROVE [Chains!Next]_(Chains!vars)
    OBVIOUS
  <2>1. CASE \E d \in Drones, reading \in Readings, timestamp \in Times :
               Tick(d, reading, timestamp)
    BY <2>1, TickAppends DEF Chains!Next
  <2>2. ASSUME NEW t \in Times, SetClock(t) PROVE Chains!Next
    <3>1. Chains!SetClock(t)
      BY <2>2, Zenon DEF SetClock, Chains!SetClock, Chains!auditVars, Chains!consoleVars
    <3> QED
      BY <3>1 DEF Chains!Next
  <2>3. CASE UNCHANGED <<chain, clock, set_back, misdated>>
    BY <2>3 DEF Chains!vars, Chains!auditVars, Chains!consoleVars
  <2>4. \/ \E d \in Drones, reading \in Readings, timestamp \in Times :
             Tick(d, reading, timestamp)
        \/ \E t \in Times : SetClock(t)
        \/ UNCHANGED <<chain, clock, set_back, misdated>>
    BY DEF Next, Arm, DualWitnessDisarm, RequestRtl, Abort, vars
  <2> QED
    BY <2>1, <2>2, <2>3, <2>4
<1> QED
  BY <1>1, <1>2, InitTypes, TypesStep, PTL DEF Spec, ImplementsReceiptChain, Chains!Spec
-----------------------------------------------------------------------------
(* The pane of a payload no earlier one shadows is its own.                *)
LEMMA MatchIsItself ==
  ASSUME ConsoleAssumption, NEW tails, NEW i \in DOMAIN Fleet, ~Shadowed(tails, i)
  PROVE  Match(tails, tails[Fleet[i]]) = i
<1> DEFINE First(k) == /\ tails[Fleet[k]] = tails[Fleet[i]]
                       /\ \A j \in 1..k - 1 : tails[Fleet[j]] # tails[Fleet[i]]
<1>1. DOMAIN Fleet = 1..Len(Fleet) /\ Len(Fleet) \in Nat
  BY DEF ConsoleAssumption
<1>2. First(i)
  BY Zenon DEF Shadowed
<1>3. ASSUME NEW k \in DOMAIN Fleet, First(k) PROVE k = i
  <2>1. CASE k < i
    <3>1. k \in 1..i - 1
      BY <1>1, <2>1
    <3> QED
      BY <1>3, <3>1 DEF Shadowed
  <2>2. CASE i < k
    <3>1. i \in 1..k - 1
      BY <1>1, <2>2
    <3> QED
      BY <1>3, <3>1
  <2> QED
    BY <1>1, <2>1, <2>2
<1>4. Match(tails, tails[Fleet[i]]) = CHOOSE k \in DOMAIN Fleet : First(k)
  BY DEF Match
<1> HIDE DEF First
<1> QED
  BY <1>2, <1>3, <1>4

(* TroubleIsVisible: for any fleet and any tail numbers, tokens and        *)
(* payloads that wait for witnesses are seen, and the chain of a payload   *)
(* with a tail number of its own is the one its pane shows.                *)
THEOREM ConsoleShowsTrouble == ASSUME ConsoleAssumption PROVE Spec => []TroubleIsVisible
<1>1. ASSUME PayloadTypes PROVE TroubleIsVisible
  <2> SUFFICES ASSUME NEW tails \in [Drones -> TailNumbers], NEW i \in DOMAIN Fleet
               PROVE  LET panes == Render(tails)  d == Fleet[i] IN
                      /\ ~Shadowed(tails, i) =>
                           /\ panes.receipt_chain[i].total = Len(chain[d])
                           /\ panes.receipt_chain[i].well_formed = UdsInvariantHolds(d)
                      /\ chain[d] # <<>> /\ tails[d] \in TokenTails =>
                           \E alert \in panes.huklla_alerts : alert[1] = tails[d]
                      /\ armed[d] /\ ~rtl[d] => panes.dual_witness > 0
    BY DEF TroubleIsVisible
  <2> DEFINE d    == Fleet[i]
             pane == Render(tails).receipt_chain
  <2>1. /\ DOMAIN Fleet = 1..Len(Fleet) /\ Len(Fleet) \in Nat
        /\ d \in Drones
    BY DEF ConsoleAssumption
  <2>2. /\ Render(tails).huklla_alerts = HukllaAlerts(tails)
        /\ Render(tails).dual_witness = Cardinality(Pending)
        /\ \A j \in DOMAIN Fleet : pane[j] = ReceiptChainPane(tails, tails[Fleet[j]])
    BY DEF Render
  <2>3. ASSUME ~Shadowed(tails, i)
        PROVE  pane[i].total = Len(chain[d]) /\ pane[i].well_formed = UdsInvariantHolds(d)
    <3>1. Match(tails, tails[d]) = i
      BY <2>3, MatchIsItself
    <3>2. /\ ReceiptChainPane(tails, tails[d]).total = Len(chain[Fleet[Match(tails, tails[d])]])
          /\ ReceiptChainPane(tails, tails[d]).well_formed
               = WellFormed(chain[Fleet[Match(tails, tails[d])]])
      BY DEF ReceiptChainPane
    <3>3. pane[i] = ReceiptChainPane(tails, tails[d])
      BY <2>2
    <3> HIDE DEF pane
    <3> QED
      BY <3>1, <3>2, <3>3, Zenon DEF UdsInvariantHolds
  <2>4. ASSUME chain[d] # <<>>, tails[d] \in TokenTails
        PROVE  \E alert \in HukllaAlerts(tails) : alert[1] = tails[d]
    <3>1. Len(chain[d]) \in Nat /\ Len(chain[d]) # 0
      BY <1>1, <2>1, <2>4, EmptySequence DEF PayloadTypes
    <3>2. 0 \in 0..Len(chain[d]) - 1
      BY <3>1
    <3>3. <<tails[d], 0>> \in HukllaAlerts(tails)
      BY <2>4, <3>2 DEF HukllaAlerts
    <3> QED
      BY <3>3
  <2>5. ASSUME armed[d], ~rtl[d] PROVE Cardinality(Pending) > 0
    <3>1. i \in Pending
      BY <2>5, Zenon DEF Pending
    <3>2. IsFiniteSet(DOMAIN Fleet)
      BY <2>1, FS_Interval
    <3>3. IsFiniteSet(Pending)
      BY <3>2, FS_Subset DEF Pending
    <3>4. Cardinality(Pending) \in Nat /\ Cardinality(Pending) # 0
      BY <3>1, <3>3, FS_CardinalityType, FS_EmptySet
    <3> QED
      BY <3>4
  <2> QED
    BY <2>2, <2>3, <2>4, <2>5
<1> QED
  BY <1>1, InitTypes, TypesStep, PTL DEF Spec
=============================================================================
