---------------------------- MODULE RxPathProofs ----------------------------
(***************************************************************************)
(* RxPath's safety properties for every buffer size, counter width and     *)
(* number of bytes: its types always, the others under the two conditions  *)
(* that the code leaves to its users, that the line does not outrun the    *)
(* reader, and that HT and TC are handled before the bytes of the other    *)
(* half are all in.                                                        *)
(***************************************************************************)
EXTENDS RxPath, RingTheorems, SequenceTheorems

NotLate == MaxLatency < Capacity \div 2

(* The value of CNDTR that raises HT, and how far the channel may be from  *)
(* the last reading of CNDTR when a flag is raised.                        *)
Middle == Capacity \div 2
Stretch == Capacity - Middle

(* While no flag waits, the channel is in the half in which CNDTR was last *)
(* read; while one does, it is no further than its latency allows.         *)
DistancePart ==
    /\ late <= MaxLatency
    /\ Due => Delta <= Stretch + late
    /\ ~Due => cndtr <= prev /\ (prev > Middle => cndtr > Middle)

(* The tail from which a flush will count.                                 *)
Base == IF pc = "flush" THEN 0 ELSE tail

CountPart ==
    /\ released + rb_available(head, Base) + Delta = received
    /\ received <= released + Capacity

(* What rb_get has decided to copy is held, also when more has come.       *)
GetPart ==
    /\ pc = "read_tail" => rb_available(seen, tail) <= rb_available(head, tail)
    /\ pc = "read_head" => seen = tail
    /\ pc \in {"index", "copy", "load", "store"} =>
           n <= rb_available(head, tail)
    /\ pc = "index" => 0 < n
    /\ pc = "copy" => copied < n
    /\ pc = "store" => loaded = tail

(* Until the first flush: counters and channel agree about slots, the      *)
(* bytes not yet given back are in theirs, and the reader is where the     *)
(* bytes it was handed say.                                                *)
HandedBeyond == IF pc = "copy" THEN copied
                ELSE IF pc \in {"load", "store"} THEN n ELSE 0

StreamPart ==
    /\ pc # "flush"
    /\ Capacity - cndtr = Slot(received)
    /\ Slot(tail) = Slot(released)
    /\ \A k \in Nat : released <= k /\ k < received => buffer[Slot(k)] = k + 1
    /\ Len(read) = released + HandedBeyond
    /\ pc = "copy" => index = Slot(released)

RxInvariant ==
    /\ TypeOK /\ flushes \in Nat
    /\ DistancePart
    /\ CountPart
    /\ GetPart
    /\ flushes = 0 => StreamPart

-----------------------------------------------------------------------------
(* Delta is the difference of two readings of CNDTR, round the buffer.     *)
LEMMA DeltaIsDifference ==
    ASSUME prev \in 1 .. Capacity, cndtr \in 1 .. Capacity
    PROVE  Delta \in 0 .. (Capacity - 1) /\ Delta = (prev - cndtr) % Capacity
<1>1. CASE cndtr <= prev
  BY <1>1, RingAssumption DEF Delta, RingAssumption
<1>2. CASE ~(cndtr <= prev)
  <2>1. /\ prev - cndtr \in Int /\ prev - cndtr < 0
        /\ prev - cndtr + Capacity \in 0 .. (Capacity - 1)
    BY <1>2, RingAssumption DEF RingAssumption
  <2>2. (prev - cndtr) % Capacity = prev - cndtr + Capacity
    BY <2>1, RingAssumption DEF RingAssumption
  <2> QED
    BY <1>2, <2>1, <2>2, RingAssumption DEF Delta, RingAssumption
<1> QED
  BY <1>1, <1>2

(* The slot of the next byte.                                              *)
LEMMA SlotNext ==
    ASSUME NEW x \in Nat
    PROVE  Slot(x + 1) = IF Slot(x) = Capacity - 1 THEN 0 ELSE Slot(x) + 1
<1>1. Slot(x) \in 0 .. (Capacity - 1)
  BY SlotInBuffer DEF Slots
<1>2. CASE Slot(x) = Capacity - 1
  <2>1. x - Slot(x) \in Nat /\ Slot(x - Slot(x)) = 0
    BY SlotBase
  <2>2. Slot((x - Slot(x)) + Capacity) = 0
    BY <2>1, SlotIgnoresWrap
  <2>3. (x - Slot(x)) + Capacity = x + 1
    BY <1>1, <1>2, RingAssumption DEF RingAssumption
  <2> QED
    BY <1>2, <2>2, <2>3
<1>3. CASE Slot(x) # Capacity - 1
  <2>1. Slot(x) + 1 < Capacity
    BY <1>1, <1>3, RingAssumption DEF RingAssumption
  <2> QED
    BY <1>3, <2>1, SlotAdvances
<1> QED
  BY <1>2, <1>3

(* Numbers in the same slot stay so when both advance.                     *)
LEMMA SlotsTogether ==
    ASSUME NEW x \in Nat, NEW y \in Nat, NEW d \in Nat, Slot(x) = Slot(y)
    PROVE  Slot(x + d) = Slot(y + d)
<1>1. /\ x - Slot(x) \in Nat /\ Slot(x - Slot(x)) = 0
      /\ y - Slot(y) \in Nat /\ Slot(y - Slot(y)) = 0
  BY SlotBase
<1>2. Slot(x) \in Nat
  BY SlotInBuffer DEF Slots
<1>3. ASSUME NEW m \in Nat, Slot(m) = 0
      PROVE  Slot(m + (Slot(x) + d)) = Slot(Slot(x) + d)
  <2> DEFINE z == Slot(x) + d
  <2>1. /\ z \in Nat /\ z - Slot(z) \in Nat /\ Slot(z - Slot(z)) = 0
        /\ Slot(z) \in Slots /\ Slot(z) \in Nat
    BY <1>2, SlotBase, SlotInBuffer DEF Slots
  <2>2. Slot(m + (z - Slot(z))) = 0
    <3>1. m % Capacity = 0 /\ (z - Slot(z)) % Capacity = 0
      BY <1>3, <2>1 DEF Slot
    <3>2. Capacity \in Nat /\ Capacity > 0
      BY RingAssumption DEF RingAssumption
    <3>3. (m + (z - Slot(z))) % Capacity = 0
      BY <2>1, <3>1, <3>2, SumOfMultiples
    <3> QED
      BY <3>3 DEF Slot
  <2>3. m + (z - Slot(z)) \in Nat
    BY <2>1
  <2>4. Slot((m + (z - Slot(z))) + Slot(z)) = Slot(z)
    BY <2>1, <2>2, <2>3, SlotOfSum
  <2>5. (m + (z - Slot(z))) + Slot(z) = m + z
    BY <2>1
  <2> QED
    BY <2>4, <2>5
<1>4. Slot((x - Slot(x)) + (Slot(x) + d)) = Slot((y - Slot(y)) + (Slot(x) + d))
  BY <1>1, <1>3
<1>5. (x - Slot(x)) + (Slot(x) + d) = x + d /\ (y - Slot(y)) + (Slot(x) + d) = y + d
  BY <1>1, <1>2
<1> QED
  BY <1>4, <1>5

-----------------------------------------------------------------------------
(* What the numbers are.                                                   *)
LEMMA Numbers ==
    /\ Capacity \in Nat /\ 0 < Capacity /\ Capacity < Word /\ Word \in Nat
    /\ 0 \in Counter
    /\ MaxLatency \in Nat /\ MaxBytes \in Nat
    /\ MaxRead \in 1 .. Capacity
BY RingAssumption, RxPathAssumption
   DEF RingAssumption, RxPathAssumption, Counter

LEMMA Counts ==
    ASSUME RxInvariant
    PROVE  /\ Base \in Counter
           /\ rb_available(head, Base) \in Nat
           /\ Delta \in 0 .. (Capacity - 1)
           /\ rb_available(head, Base) + Delta <= Capacity
           /\ received - released = rb_available(head, Base) + Delta
<1>1. /\ head \in Counter /\ tail \in Counter /\ received \in Nat
      /\ released \in Nat /\ prev \in 1 .. Capacity /\ cndtr \in 1 .. Capacity
  BY DEF RxInvariant, TypeOK
<1>2. Base \in Counter
  BY <1>1, Numbers DEF Base
<1>3. rb_available(head, Base) \in Nat
  BY <1>1, <1>2, AvailableCases
<1>4. Delta \in 0 .. (Capacity - 1)
  BY <1>1, DeltaIsDifference
<1>5. /\ released + rb_available(head, Base) + Delta = received
      /\ received <= released + Capacity
  BY DEF RxInvariant, CountPart
<1> HIDE DEF Base, Delta
<1> QED
  BY <1>1, <1>2, <1>3, <1>4, <1>5, Numbers

(* The first state.                                                        *)
LEMMA InitInvariant ==
    ASSUME Init
    PROVE  RxInvariant
<1>1. TypeOK /\ flushes \in Nat
  <2>1. read \in Seq(Nat) /\ buffer \in [Slots -> Nat]
    BY EmptySeq DEF Init
  <2>2. 0 \in Slots /\ Capacity \in 1 .. Capacity
    BY Numbers DEF Slots
  <2> QED
    BY <2>1, <2>2, Numbers DEF Init, TypeOK
<1>2. Delta = 0 /\ ~Due /\ Base = 0 /\ rb_available(head, Base) = 0
  <2>1. Delta = 0 /\ ~Due /\ Base = 0 /\ head = 0
    BY Numbers DEF Init, Delta, Due, Base
  <2> QED
    BY <2>1, Numbers, AvailableCases
<1>3. DistancePart
  BY <1>2, Numbers DEF DistancePart, Init
<1>4. CountPart
  BY <1>2, Numbers DEF CountPart, Init
<1>5. GetPart
  BY DEF GetPart, Init
<1>6. StreamPart
  <2>1. Slot(0) = 0
    BY SlotInBuffer DEF Slots
  <2>2. Len(read) = 0
    BY EmptySeq DEF Init
  <2> QED
    BY <2>1, <2>2, Numbers DEF StreamPart, HandedBeyond, Init
<1> QED
  BY <1>1, <1>3, <1>4, <1>5, <1>6 DEF RxInvariant

-----------------------------------------------------------------------------
(* A byte comes in.                                                        *)
LEMMA DmaByteDistance ==
    ASSUME NotLate, RxInvariant, DmaByte
    PROVE  DistancePart' /\ Delta' = Delta + 1 /\ Delta' \in 0 .. (Capacity - 1)
<1> DEFINE flag == cndtr = 1 \/ cndtr - 1 = Middle
<1>1. /\ prev \in 1 .. Capacity /\ cndtr \in 1 .. Capacity
      /\ late \in Nat /\ late <= MaxLatency
      /\ Middle \in Nat /\ Stretch = Capacity - Middle
      /\ Middle + Middle <= Capacity /\ MaxLatency < Middle
  <2>1. Middle \in Nat /\ Middle + Middle <= Capacity
    BY Numbers DEF Middle
  <2> QED
    BY <2>1 DEF RxInvariant, TypeOK, DistancePart, Stretch, NotLate, Middle
<1>2. /\ cndtr' = IF cndtr = 1 THEN Capacity ELSE cndtr - 1
      /\ prev' = prev
      /\ Due => late < MaxLatency
      /\ late' = IF Due THEN late + 1 ELSE 0
  BY DEF DmaByte
<1>3. Due' <=> Due \/ flag
  BY DEF DmaByte, Due, Middle
<1>4. /\ Due => Delta <= Stretch + late
      /\ ~Due => cndtr <= prev /\ (prev > Middle => cndtr > Middle)
  BY DEF RxInvariant, DistancePart
<1>5. Delta = IF cndtr <= prev THEN prev - cndtr ELSE prev + (Capacity - cndtr)
  BY DEF Delta
<1>6. Delta' = IF cndtr' <= prev' THEN prev' - cndtr' ELSE prev' + (Capacity - cndtr')
  BY DEF Delta
<1> HIDE DEF Due, Delta, Middle, Stretch, flag
<1>7. CASE Due
  <2>1. Delta \in Nat /\ Delta + 1 < Capacity /\ late' = late + 1 /\ late' <= MaxLatency
    BY <1>1, <1>2, <1>4, <1>5, <1>7, Numbers
  <2>2. Delta' = Delta + 1
    BY <1>1, <1>2, <1>5, <1>6, <2>1, Numbers
  <2>3. Delta' <= Stretch + late' /\ Due'
    BY <1>1, <1>2, <1>3, <1>4, <1>7, <2>1, <2>2, Numbers
  <2> QED
    BY <2>1, <2>2, <2>3, Numbers DEF DistancePart
<1>8. CASE ~Due /\ flag
  <2>1. cndtr = 1 \/ cndtr - 1 = Middle
    BY <1>8 DEF flag
  <2>2. Delta = prev - cndtr /\ Delta + 1 <= Stretch
    BY <1>1, <1>4, <1>5, <1>8, <2>1, Numbers
  <2>3. Delta \in Nat /\ Delta + 1 < Capacity
    BY <1>1, <1>4, <1>8, <2>2, Numbers
  <2>4. Delta' = Delta + 1
    BY <1>1, <1>2, <1>5, <1>6, <2>3, Numbers
  <2>5. late' = 0 /\ Due'
    BY <1>2, <1>3, <1>8
  <2> QED
    BY <1>1, <2>2, <2>3, <2>4, <2>5, Numbers DEF DistancePart
<1>9. CASE ~Due /\ ~flag
  <2>1. cndtr # 1 /\ cndtr - 1 # Middle
    BY <1>9 DEF flag
  <2>2. /\ cndtr' = cndtr - 1 /\ cndtr' <= prev' /\ late' = 0
        /\ prev' > Middle => cndtr' > Middle
    BY <1>1, <1>2, <1>4, <1>9, <2>1, Numbers
  <2>3. Delta' = Delta + 1 /\ Delta' \in 0 .. (Capacity - 1)
    BY <1>1, <1>2, <1>4, <1>5, <1>6, <1>9, <2>1, <2>2, Numbers
  <2>4. ~Due'
    BY <1>3, <1>9
  <2> QED
    BY <2>2, <2>3, <2>4, Numbers DEF DistancePart
<1> QED
  BY <1>7, <1>8, <1>9

LEMMA DmaByteStream ==
    ASSUME Paced, RxInvariant, DmaByte, StreamPart
    PROVE  StreamPart'
<1>1. /\ received \in Nat /\ released \in Nat /\ received - released < Capacity
      /\ cndtr \in 1 .. Capacity /\ buffer \in [Slots -> Nat]
      /\ released <= received
  <2>1. received - released \in Nat
    BY Counts, Numbers
  <2> QED
    BY <2>1 DEF RxInvariant, TypeOK, DmaByte
<1>2. /\ received' = received + 1
      /\ buffer' = [buffer EXCEPT ![Capacity - cndtr] = received']
      /\ cndtr' = IF cndtr = 1 THEN Capacity ELSE cndtr - 1
      /\ UNCHANGED <<pc, head, tail, read, released, n, index, copied>>
  BY DEF DmaByte, locals
<1>3. Capacity - cndtr = Slot(received) /\ Slot(received) \in Slots
  BY <1>1, SlotInBuffer DEF StreamPart
<1>4. Capacity - cndtr' = Slot(received')
  <2>1. Slot(received + 1) = IF Slot(received) = Capacity - 1 THEN 0
                                                         ELSE Slot(received) + 1
    BY <1>1, SlotNext
  <2> QED
    BY <1>1, <1>2, <1>3, <2>1, Numbers
<1>5. ASSUME NEW k \in Nat, released <= k, k < received + 1
      PROVE  buffer'[Slot(k)] = k + 1
  <2>1. Slot(k) \in Slots
    BY SlotInBuffer
  <2>2. CASE k = received
    BY <1>1, <1>2, <1>3, <2>2
  <2>3. CASE k # received
    <3>1. k < received /\ received - k \in Nat /\ 0 < received - k
          /\ received - k < Capacity /\ k + (received - k) = received
      BY <1>1, <1>5, <2>3, Numbers
    <3>2. Slot(k + (received - k)) # Slot(k)
      BY <3>1, SlotsDistinct
    <3>3. buffer'[Slot(k)] = buffer[Slot(k)]
      BY <1>1, <1>2, <1>3, <2>1, <3>1, <3>2
    <3>4. buffer[Slot(k)] = k + 1
      BY <1>5, <3>1 DEF StreamPart
    <3> QED
      BY <3>3, <3>4
  <2> QED
    BY <2>2, <2>3
<1> QED
  BY <1>2, <1>4, <1>5 DEF StreamPart, HandedBeyond

LEMMA DmaByteInvariant ==
    ASSUME Paced, NotLate, RxInvariant, DmaByte
    PROVE  RxInvariant'
<1>1. DistancePart' /\ Delta' = Delta + 1 /\ Delta' \in 0 .. (Capacity - 1)
  BY DmaByteDistance
<1>2. TypeOK' /\ flushes' \in Nat
  <2>1. received' \in Nat /\ buffer' \in [Slots -> Nat]
    <3>1. received' = received + 1 /\ received \in Nat /\ buffer \in [Slots -> Nat]
      BY DEF RxInvariant, TypeOK, DmaByte
    <3>2. received' \in Nat
      BY <3>1
    <3>3. buffer' = [buffer EXCEPT ![Capacity - cndtr] = received']
      BY DEF DmaByte
    <3> QED
      BY ONLY <3>1, <3>2, <3>3
  <2>2. cndtr' \in 1 .. Capacity /\ late' \in Nat
    BY Numbers DEF RxInvariant, TypeOK, DmaByte
  <2> QED
    BY <2>1, <2>2 DEF RxInvariant, TypeOK, DmaByte, locals
<1>3. CountPart'
  <2>1. /\ released' = released /\ Base' = Base /\ head' = head
        /\ received' = received + 1 /\ received - released < Capacity
    BY DEF DmaByte, Base
  <2>2. received \in Nat /\ released \in Nat
    BY DEF RxInvariant, TypeOK
  <2>3. rb_available(head, Base) \in Nat /\ Delta \in Nat
    BY Counts, Numbers
  <2>4. released + rb_available(head, Base) + Delta = received
    BY DEF RxInvariant, CountPart
  <2> HIDE DEF Base, Delta
  <2> QED
    BY <1>1, <2>1, <2>2, <2>3, <2>4, Numbers DEF CountPart
<1>4. GetPart'
  BY DEF RxInvariant, GetPart, DmaByte, locals
<1>5. flushes' = 0 => StreamPart'
  <2>1. flushes' = flushes
    BY DEF DmaByte
  <2> QED
    BY <2>1, DmaByteStream DEF RxInvariant
<1> QED
  BY <1>1, <1>2, <1>3, <1>4, <1>5 DEF RxInvariant

-----------------------------------------------------------------------------
(* The line falls quiet, and handlers begin: nothing is counted yet, and a *)
(* flag that is cleared is due until rx_update has run.                    *)
LEMMA SignalInvariant ==
    ASSUME RxInvariant, LineIdle \/ RxDmaInterrupt \/ UsartInterrupt
    PROVE  RxInvariant'
<1>1. /\ UNCHANGED <<ring, prev, cndtr, late, halted, pc, locals, history>>
      /\ Due' <=> Due
  <2>1. CASE LineIdle
    BY <2>1 DEF LineIdle, ring, channel, isr, locals, history, Due
  <2>2. CASE RxDmaInterrupt
    BY <2>2 DEF RxDmaInterrupt, ring, usart, locals, history, Due, RxInvariant, TypeOK
  <2>3. CASE UsartInterrupt
    BY <2>3 DEF UsartInterrupt, ring, channel, locals, history, Due
  <2> QED
    BY <2>1, <2>2, <2>3
<1>2. TypeOK' /\ flushes' \in Nat
  <2>1. htif' \in BOOLEAN /\ tcif' \in BOOLEAN /\ idleif' \in BOOLEAN
        /\ line' \in {"busy", "quiet"}
        /\ handler' \in {"none", "update", "update_then_ht", "update_then_give"}
    BY DEF RxInvariant, TypeOK, LineIdle, RxDmaInterrupt, UsartInterrupt,
           channel, usart, isr
  <2> QED
    BY <1>1, <2>1 DEF RxInvariant, TypeOK, ring, locals, history
<1>3. Base' = Base /\ Delta' = Delta
  BY <1>1 DEF Base, Delta, ring
<1>4. DistancePart'
  <2> HIDE DEF Due, Delta
  <2> QED
    BY <1>1, <1>3 DEF RxInvariant, DistancePart
<1>5. CountPart' /\ GetPart'
  BY <1>1, <1>3 DEF RxInvariant, CountPart, GetPart, ring, locals, history
<1>6. flushes' = 0 => StreamPart'
  BY <1>1 DEF RxInvariant, StreamPart, HandedBeyond, ring, locals, history
<1> QED
  BY <1>2, <1>4, <1>5, <1>6 DEF RxInvariant

(* rx_update counts what has come since CNDTR was last read.  Everything   *)
(* fits, and so the tail stays.                                            *)
LEMMA UpdateCounts ==
    ASSUME RxInvariant, rx_update
    PROVE  /\ head' \in Counter /\ tail' \in Counter
           /\ pc # "flush" => tail' = tail
           /\ rb_available(head', Base') = rb_available(head, Base) + Delta
           /\ Delta' = 0 /\ cndtr' = prev'
<1>1. /\ head \in Counter /\ tail \in Counter /\ head \in Nat /\ tail \in Nat
      /\ cndtr \in 1 .. Capacity
  BY DEF RxInvariant, TypeOK, Counter
<1>2. /\ head' = Plus(head, Delta) /\ tail' = TailMakingRoom(head, tail, Delta)
      /\ prev' = cndtr /\ cndtr' = cndtr /\ pc' = pc
  BY DEF rx_update
<1>3. /\ Base \in Counter /\ Delta \in Nat
      /\ rb_available(head, Base) \in Nat
      /\ rb_available(head, Base) + Delta <= Capacity
  BY Counts, Numbers
<1>4. Delta' = 0
  BY <1>1, <1>2 DEF Delta
<1> HIDE DEF Delta
<1>5. head' \in Counter
  BY <1>1, <1>2, <1>3, PlusInCounter
<1>6. tail' \in Counter
  <2>1. rb_free_space(head, tail) \in Nat
    BY <1>1, FreeSpaceType
  <2>2. CASE Delta > rb_free_space(head, tail)
    <3>1. Delta - rb_free_space(head, tail) \in Nat
      BY <1>3, <2>1, <2>2
    <3>2. Plus(tail, Delta - rb_free_space(head, tail)) \in Counter
      BY <1>1, <3>1, PlusInCounter
    <3> QED
      BY <1>2, <2>2, <3>2 DEF TailMakingRoom
  <2>3. CASE ~(Delta > rb_free_space(head, tail))
    BY <1>1, <1>2, <2>3 DEF TailMakingRoom
  <2> QED
    BY <2>2, <2>3
<1>7. pc # "flush" => tail' = tail
  <2> HAVE pc # "flush"
  <2>1. Base = tail
    BY DEF Base
  <2>2. rb_available(head, tail) \in Nat /\ rb_available(head, tail) <= Capacity
        /\ rb_available(head, tail) + Delta <= Capacity
    BY <1>3, <2>1, Numbers
  <2>3. rb_free_space(head, tail) = Capacity - rb_available(head, tail)
    BY <1>1, <2>2, FreeSpaceIsRoom
  <2>4. ~(Delta > rb_free_space(head, tail))
    BY <1>3, <2>2, <2>3, Numbers
  <2> QED
    BY <1>2, <2>4 DEF TailMakingRoom
<1>8. Base' = Base
  BY <1>2, <1>7 DEF Base
<1>9. rb_available(Plus(head, Delta), Base) = rb_available(head, Base) + Delta
  BY <1>1, <1>3, AvailableAfterPut
<1> QED
  BY <1>2, <1>4, <1>5, <1>6, <1>7, <1>8, <1>9

LEMMA UpdateInvariant ==
    ASSUME RxInvariant, rx_update
    PROVE  RxInvariant'
<1>1. /\ head' \in Counter /\ tail' \in Counter
      /\ pc # "flush" => tail' = tail
      /\ rb_available(head', Base') = rb_available(head, Base) + Delta
      /\ Delta' = 0 /\ cndtr' = prev'
  BY UpdateCounts
<1>2. /\ UNCHANGED <<buffer, cndtr, pc, locals, history>>
      /\ prev' = cndtr
      /\ late' = IF handler = "update_then_give" THEN late ELSE 0
  BY DEF rx_update
<1>3. Delta \in Nat /\ rb_available(head, Base) \in Nat
  BY Counts
<1>4. TypeOK' /\ flushes' \in Nat
  <2>1. /\ prev' \in 1 .. Capacity /\ cndtr' \in 1 .. Capacity /\ late' \in Nat
    BY <1>2 DEF RxInvariant, TypeOK
  <2>2. htif' \in BOOLEAN /\ tcif' \in BOOLEAN /\ idleif' \in BOOLEAN
        /\ halted' \in BOOLEAN
    BY DEF rx_update, RxInvariant, TypeOK, usart
  <2>3. line' \in {"busy", "quiet"}
        /\ handler' \in {"none", "update", "update_then_ht", "update_then_give"}
    BY DEF rx_update, RxInvariant, TypeOK, usart
  <2> QED
    BY <1>1, <1>2, <2>1, <2>2, <2>3 DEF RxInvariant, TypeOK, locals, history
<1>5. DistancePart'
  <2>1. late' \in Nat /\ late' <= MaxLatency /\ Stretch \in Nat /\ cndtr' \in Nat
    BY <1>2, Numbers DEF RxInvariant, TypeOK, DistancePart, Stretch, Middle
  <2> HIDE DEF Delta
  <2>2. Delta' <= Stretch + late'
    <3>0. \A x, y \in Nat : 0 <= x + y
      OBVIOUS
    <3>1. 0 <= Stretch + late'
      BY ONLY <2>1, <3>0, Zenon
    <3>2. Delta' = 0
      BY <1>1
    <3> QED
      BY ONLY <3>1, <3>2
  <2>3. cndtr' <= prev' /\ (prev' > Middle => cndtr' > Middle)
    BY <1>1, <2>1
  <2> QED
    BY <2>1, <2>2, <2>3 DEF DistancePart
<1>6. CountPart'
  <2>1. received' = received /\ released' = released
        /\ received \in Nat /\ released \in Nat
    BY <1>2 DEF RxInvariant, TypeOK, history
  <2> HIDE DEF Delta, Base
  <2> QED
    BY <1>1, <1>3, <2>1 DEF RxInvariant, CountPart
<1>7. GetPart'
  <2>1. pc # "flush" =>
            /\ rb_available(head', tail') = rb_available(head, tail) + Delta
            /\ rb_available(head, tail) \in Nat
    BY <1>1, <1>2, <1>3 DEF Base
  <2>2. UNCHANGED <<pc, seen, n, copied, loaded>>
    BY <1>2 DEF locals
  <2>3. seen \in Counter /\ tail \in Counter /\ n \in Nat
    BY DEF RxInvariant, TypeOK
  <2>4. rb_available(seen, tail) \in Nat
    BY <2>3, AvailableCases
  <2> HIDE DEF Delta
  <2>5. pc = "read_tail" => rb_available(seen, tail) <= rb_available(head', tail')
    BY <1>3, <2>1, <2>4 DEF RxInvariant, GetPart
  <2>6. pc \in {"index", "copy", "load", "store"} => n <= rb_available(head', tail')
    BY <1>3, <2>1, <2>3 DEF RxInvariant, GetPart
  <2> QED
    BY <1>1, <2>2, <2>5, <2>6 DEF RxInvariant, GetPart
<1>8. flushes' = 0 => StreamPart'
  BY <1>1, <1>2 DEF RxInvariant, StreamPart, HandedBeyond, locals, history
<1> QED
  BY <1>4, <1>5, <1>6, <1>7, <1>8 DEF RxInvariant

-----------------------------------------------------------------------------
(* What the task does leaves the channel and the count where they are.     *)
LEMMA TaskKeeps ==
    ASSUME RxInvariant, TaskLeaves
    PROVE  /\ DistancePart' /\ Delta' = Delta
           /\ buffer' \in [Slots -> Nat]
           /\ prev' \in 1 .. Capacity /\ cndtr' \in 1 .. Capacity
           /\ htif' \in BOOLEAN /\ tcif' \in BOOLEAN /\ idleif' \in BOOLEAN
           /\ line' \in {"busy", "quiet"}
           /\ handler' \in {"none", "update", "update_then_ht", "update_then_give"}
           /\ late' \in Nat /\ halted' \in BOOLEAN
           /\ received' \in Nat
<1>1. UNCHANGED <<buffer, prev, cndtr, htif, tcif, line, idleif, handler, late,
                  halted, received>>
  BY DEF TaskLeaves, channel, usart, isr
<1>2. Delta' = Delta /\ (Due' <=> Due)
  BY <1>1 DEF Delta, Due
<1>3. DistancePart'
  <2> HIDE DEF Due, Delta
  <2> QED
    BY <1>1, <1>2 DEF RxInvariant, DistancePart
<1> QED
  BY <1>1, <1>2, <1>3 DEF RxInvariant, TypeOK

LEMMA CountStays ==
    ASSUME RxInvariant, TaskLeaves, UNCHANGED <<head, tail, released>>,
           pc # "flush", pc' # "flush"
    PROVE  CountPart'
<1>1. Delta' = Delta /\ received' = received /\ Base' = Base
  BY TaskKeeps DEF TaskLeaves, Base
<1> QED
  BY <1>1 DEF RxInvariant, CountPart

(* uart_dma_recv begins: one of the counters is read.                      *)
LEMMA RecvInvariant ==
    ASSUME RxInvariant, NEW len \in 1 .. MaxRead, uart_dma_recv(len)
    PROVE  RxInvariant'
<1>1. /\ TaskLeaves /\ pc = "ready" /\ n' = len
      /\ UNCHANGED <<head, tail, index, copied, loaded, read, released, flushes>>
      /\ \/ seen' = head /\ pc' = "read_tail"
         \/ seen' = tail /\ pc' = "read_head"
  BY DEF uart_dma_recv, At
<1>2. TypeOK' /\ flushes' \in Nat
  <2>1. n' \in Nat
    BY <1>1, Numbers
  <2>2. seen' \in Counter /\ pc' \in {"read_tail", "read_head"}
    BY <1>1 DEF RxInvariant, TypeOK
  <2> QED
    BY <1>1, <2>1, <2>2, TaskKeeps DEF RxInvariant, TypeOK
<1>3. DistancePart' /\ CountPart'
  BY <1>1, TaskKeeps, CountStays
<1>4. GetPart'
  <2>1. rb_available(head, tail) \in Nat
    BY AvailableCases DEF RxInvariant, TypeOK
  <2>2. rb_available(head, tail) <= rb_available(head, tail)
    BY <2>1
  <2> QED
    BY <1>1, <2>2 DEF GetPart
<1>5. flushes' = 0 => StreamPart'
  BY <1>1 DEF RxInvariant, StreamPart, HandedBeyond, TaskLeaves, channel
<1> QED
  BY <1>2, <1>3, <1>4, <1>5 DEF RxInvariant

(* ... and the length is cut to what the two readings give: never more     *)
(* than what is held, although head or tail is older than the other.       *)
LEMMA AvailableInvariant ==
    ASSUME RxInvariant, GetAvailable
    PROVE  RxInvariant'
<1> DEFINE avail == IF pc = "read_tail" THEN rb_available(seen, tail)
                                        ELSE rb_available(head, seen)
<1>1. /\ TaskLeaves /\ pc \in {"read_tail", "read_head"}
      /\ n' = Least(n, avail) /\ seen' = 0
      /\ pc' = IF n' = 0 THEN "ready" ELSE "index"
      /\ UNCHANGED <<head, tail, index, copied, loaded, read, released, flushes>>
  BY DEF GetAvailable, At, Clamp
<1>2. /\ head \in Counter /\ tail \in Counter /\ seen \in Counter /\ n \in Nat
  BY DEF RxInvariant, TypeOK
<1>3. /\ rb_available(seen, tail) \in Nat /\ rb_available(head, seen) \in Nat
      /\ rb_available(head, tail) \in Nat
  BY <1>2, AvailableCases
<1>4. avail \in Nat /\ avail <= rb_available(head, tail)
  <2>1. CASE pc = "read_tail"
    BY <1>3, <2>1 DEF RxInvariant, GetPart
  <2>2. CASE pc # "read_tail"
    <3>1. seen = tail /\ avail = rb_available(head, tail)
      BY <1>1, <2>2 DEF RxInvariant, GetPart
    <3> HIDE DEF avail
    <3> QED
      BY <1>3, <3>1
  <2> QED
    BY <2>1, <2>2
<1> HIDE DEF avail
<1>5. n' \in Nat /\ n' <= rb_available(head, tail)
  BY <1>1, <1>2, <1>3, <1>4 DEF Least
<1>6. TypeOK' /\ flushes' \in Nat
  BY <1>1, <1>5, TaskKeeps, Numbers DEF RxInvariant, TypeOK
<1>7. DistancePart' /\ CountPart'
  BY <1>1, TaskKeeps, CountStays
<1>8. GetPart'
  BY <1>1, <1>5 DEF GetPart
<1>9. flushes' = 0 => StreamPart'
  BY <1>1 DEF RxInvariant, StreamPart, HandedBeyond, TaskLeaves, channel
<1> QED
  BY <1>6, <1>7, <1>8, <1>9 DEF RxInvariant

(* The bytes are copied from the tail's slot on, ...                       *)
LEMMA IndexInvariant ==
    ASSUME RxInvariant, GetIndex
    PROVE  RxInvariant'
<1>1. /\ TaskLeaves /\ pc = "index" /\ pc' = "copy"
      /\ index' = Slot(tail) /\ copied' = 0
      /\ UNCHANGED <<head, tail, seen, n, loaded, read, released, flushes>>
  BY DEF GetIndex, At
<1>2. index' \in Slots
  BY <1>1, SlotInBuffer DEF RxInvariant, TypeOK, Counter
<1>3. TypeOK' /\ flushes' \in Nat
  BY <1>1, <1>2, TaskKeeps DEF RxInvariant, TypeOK
<1>4. DistancePart' /\ CountPart'
  BY <1>1, TaskKeeps, CountStays
<1>5. GetPart'
  BY <1>1 DEF RxInvariant, GetPart
<1>6. flushes' = 0 => StreamPart'
  BY <1>1 DEF RxInvariant, StreamPart, HandedBeyond, TaskLeaves, channel
<1> QED
  BY <1>3, <1>4, <1>5, <1>6 DEF RxInvariant

(* ... each of them the next byte of the stream, and intact, ...           *)
LEMMA NextByte ==
    ASSUME RxInvariant, GetByte, flushes = 0
    PROVE  /\ Len(read) < received
           /\ buffer[Slot(index + copied)] = Len(read) + 1
<1>1. /\ pc = "copy" /\ StreamPart
      /\ received \in Nat /\ released \in Nat /\ copied \in Nat /\ n \in Nat
  BY DEF GetByte, At, RxInvariant, TypeOK
<1>2. Len(read) = released + copied /\ index = Slot(released)
  BY <1>1 DEF StreamPart, HandedBeyond
<1>3. released + copied < received
  <2>1. Base = tail
    BY <1>1 DEF Base
  <2>2. copied < n /\ n <= rb_available(head, tail)
    BY <1>1 DEF RxInvariant, GetPart
  <2>3. /\ rb_available(head, tail) \in Nat /\ Delta \in Nat
        /\ received - released = rb_available(head, tail) + Delta
    BY <2>1, Counts, Numbers
  <2> HIDE DEF Delta
  <2> QED
    BY <1>1, <2>2, <2>3
<1>4. Slot(Slot(released)) = Slot(released)
  <2>1. Slot(0) = 0 /\ Slot(released) \in Slots
    BY <1>1, SlotInBuffer DEF Slots
  <2>2. Slot(0 + Slot(released)) = Slot(released)
    BY <2>1, SlotOfSum
  <2>3. Slot(released) \in Nat
    BY <2>1 DEF Slots
  <2> QED
    BY <2>2, <2>3
<1>5. Slot(index + copied) = Slot(released + copied)
  <2>1. Slot(released) \in Nat
    BY <1>1, SlotInBuffer DEF Slots
  <2> QED
    BY <1>1, <1>2, <1>4, <2>1, SlotsTogether
<1>6. buffer[Slot(released + copied)] = (released + copied) + 1
  BY <1>1, <1>3 DEF StreamPart
<1> QED
  BY <1>2, <1>3, <1>5, <1>6

LEMMA ByteInvariant ==
    ASSUME RxInvariant, GetByte
    PROVE  RxInvariant'
<1> DEFINE byte == buffer[Slot(index + copied)]
<1>1. /\ TaskLeaves /\ pc = "copy" /\ copied' = copied + 1
      /\ read' = Append(read, byte)
      /\ pc' = IF copied' = n THEN "load" ELSE "copy"
      /\ UNCHANGED <<head, tail, seen, n, index, loaded, released, flushes>>
  BY DEF GetByte, At
<1>2. /\ copied \in Nat /\ n \in Nat /\ copied < n /\ read \in Seq(Nat)
      /\ n <= rb_available(head, tail) /\ released \in Nat
  BY <1>1 DEF RxInvariant, TypeOK, GetPart
<1>3. byte \in Nat
  <2>1. index + copied \in Nat
    BY <1>2, Numbers DEF RxInvariant, TypeOK, Slots
  <2> QED
    BY <2>1, SlotInBuffer DEF RxInvariant, TypeOK
<1> HIDE DEF byte
<1>4. read' \in Seq(Nat) /\ Len(read') = Len(read) + 1
  BY <1>1, <1>2, <1>3, AppendProperties
<1>5. TypeOK' /\ flushes' \in Nat
  <2>1. copied' \in Nat
    BY <1>1, <1>2
  <2> QED
    BY <1>1, <1>4, <2>1, TaskKeeps DEF RxInvariant, TypeOK
<1>6. DistancePart' /\ CountPart'
  BY <1>1, TaskKeeps, CountStays
<1>7. GetPart'
  <2>1. pc' = "copy" => copied' < n
    BY <1>1, <1>2
  <2> QED
    BY <1>1, <1>2, <2>1 DEF GetPart
<1>8. flushes' = 0 => StreamPart'
  <2> HAVE flushes' = 0
  <2>1. StreamPart /\ UNCHANGED <<buffer, cndtr, received>>
    BY <1>1 DEF RxInvariant, TaskLeaves, channel
  <2>2. Len(read) = released + copied
    BY <1>1, <2>1 DEF StreamPart, HandedBeyond
  <2>3. Len(read') = released + copied'
    BY <1>1, <1>2, <1>4, <2>2
  <2> QED
    BY <1>1, <2>1, <2>3 DEF StreamPart, HandedBeyond
<1> QED
  BY <1>5, <1>6, <1>7, <1>8 DEF RxInvariant

(* ... the tail is loaded ...                                              *)
LEMMA LoadInvariant ==
    ASSUME RxInvariant, GetLoad
    PROVE  RxInvariant'
<1>1. /\ TaskLeaves /\ pc = "load" /\ pc' = "store"
      /\ loaded' = tail /\ index' = 0 /\ copied' = 0
      /\ UNCHANGED <<head, tail, seen, n, read, released, flushes>>
  BY DEF GetLoad, At
<1>2. TypeOK' /\ flushes' \in Nat
  <2>1. 0 \in Slots
    BY Numbers DEF Slots
  <2> QED
    BY <1>1, <2>1, TaskKeeps DEF RxInvariant, TypeOK
<1>3. DistancePart' /\ CountPart'
  BY <1>1, TaskKeeps, CountStays
<1>4. GetPart'
  BY <1>1 DEF RxInvariant, GetPart
<1>5. flushes' = 0 => StreamPart'
  BY <1>1 DEF RxInvariant, StreamPart, HandedBeyond, TaskLeaves, channel
<1> QED
  BY <1>2, <1>3, <1>4, <1>5 DEF RxInvariant

(* ... and stored, not having moved meanwhile.                             *)
LEMMA StoreInvariant ==
    ASSUME RxInvariant, GetStore
    PROVE  RxInvariant'
<1>1. /\ TaskLeaves /\ pc = "store" /\ pc' = "ready"
      /\ tail' = Plus(loaded, n) /\ released' = released + n
      /\ n' = 0 /\ loaded' = 0
      /\ UNCHANGED <<head, seen, index, copied, read, flushes>>
  BY DEF GetStore, At
<1>2. /\ loaded = tail /\ n <= rb_available(head, tail) /\ n \in Nat
      /\ head \in Counter /\ tail \in Counter
      /\ released \in Nat /\ received \in Nat
  BY <1>1 DEF RxInvariant, TypeOK, GetPart
<1>3. /\ Base = tail /\ Base' = tail'
      /\ Delta \in Nat /\ rb_available(head, tail) \in Nat
      /\ rb_available(head, tail) <= Capacity
      /\ received - released = rb_available(head, tail) + Delta
  <2>1. Base = tail /\ Base' = tail'
    BY <1>1 DEF Base
  <2>2. /\ rb_available(head, tail) + Delta <= Capacity
        /\ Delta \in Nat /\ rb_available(head, tail) \in Nat
        /\ received - released = rb_available(head, tail) + Delta
    BY <2>1, Counts, Numbers
  <2> HIDE DEF Delta
  <2>3. rb_available(head, tail) <= Capacity
    BY <2>2, Numbers
  <2> QED
    BY <2>1, <2>2, <2>3
<1>4. /\ tail' \in Counter
      /\ rb_available(head, tail') = rb_available(head, tail) - n
  <2>1. n <= Capacity
    BY <1>2, <1>3, Numbers
  <2> QED
    BY <1>1, <1>2, <2>1, AvailableAfterGet
<1>5. TypeOK' /\ flushes' \in Nat
  <2>1. released' \in Nat
    BY <1>1, <1>2
  <2> QED
    BY <1>1, <1>4, <2>1, Numbers, TaskKeeps DEF RxInvariant, TypeOK
<1>6. DistancePart' /\ Delta' = Delta /\ received' = received
  BY <1>1, TaskKeeps DEF TaskLeaves
<1>7. CountPart'
  <2>1. head' = head
    BY <1>1
  <2> HIDE DEF Delta, Base
  <2>2. received' <= released' + Capacity
    BY <1>1, <1>2, <1>6, Numbers DEF RxInvariant, CountPart
  <2>3. released' + rb_available(head', Base') + Delta' = received'
    BY <1>1, <1>2, <1>3, <1>4, <1>6
  <2> QED
    BY <2>2, <2>3 DEF CountPart
<1>8. GetPart'
  BY <1>1 DEF GetPart
<1>9. flushes' = 0 => StreamPart'
  <2> HAVE flushes' = 0
  <2>1. StreamPart /\ UNCHANGED <<buffer, cndtr, received>>
    BY <1>1 DEF RxInvariant, TaskLeaves, channel
  <2>2. Len(read) = released + n
    BY <1>1, <2>1 DEF StreamPart, HandedBeyond
  <2>3. Slot(tail') = Slot(released')
    <3>1. tail \in Nat /\ n <= Word
      BY <1>2, <1>3, Numbers DEF Counter
    <3>2. Slot(tail + n) = Slot(released + n)
      BY <1>2, <2>1, <3>1, SlotsTogether DEF StreamPart
    <3>3. Slot(Plus(tail, n) + 0) = Slot(tail + n + 0)
      BY <1>2, <3>1, SlotAfterPlus
    <3>4. Plus(tail, n) + 0 = Plus(tail, n) /\ tail + n + 0 = tail + n
      BY <1>1, <1>2, <1>4, <3>1 DEF Counter
    <3> QED
      BY <1>1, <1>2, <3>2, <3>3, <3>4
  <2>4. \A k \in Nat : released' <= k /\ k < received' => buffer'[Slot(k)] = k + 1
    <3>1. \A k \in Nat : released' <= k => released <= k
      BY <1>1, <1>2
    <3> QED
      BY <2>1, <3>1 DEF StreamPart
  <2>5. Len(read') = released' + 0
    BY <1>1, <1>2, <2>2
  <2> QED
    BY <1>1, <2>1, <2>3, <2>4, <2>5 DEF StreamPart, HandedBeyond
<1> QED
  BY <1>5, <1>6, <1>7, <1>8, <1>9 DEF RxInvariant

(* uart_dma_rx_flush: the head starts from zero, ...                       *)
LEMMA FlushInvariant ==
    ASSUME RxInvariant, uart_dma_rx_flush
    PROVE  RxInvariant'
<1>1. /\ TaskLeaves /\ pc = "ready" /\ pc' = "flush"
      /\ head' = 0 /\ flushes' = flushes + 1
      /\ released' = released + rb_available(head, tail)
      /\ UNCHANGED <<tail, seen, n, index, copied, loaded, read>>
  BY DEF uart_dma_rx_flush, At, locals
<1>2. /\ released \in Nat /\ received \in Nat /\ flushes \in Nat
  BY DEF RxInvariant, TypeOK
<1>3. /\ rb_available(head, tail) \in Nat /\ Delta \in Nat
      /\ received - released = rb_available(head, tail) + Delta
  <2>1. Base = tail
    BY <1>1 DEF Base
  <2> QED
    BY <2>1, Counts, Numbers
<1>4. TypeOK' /\ flushes' \in Nat
  <2>1. released' \in Nat /\ flushes' \in Nat
    BY <1>1, <1>2, <1>3
  <2> QED
    BY <1>1, <2>1, Numbers, TaskKeeps DEF RxInvariant, TypeOK
<1>5. DistancePart' /\ Delta' = Delta /\ received' = received
  BY <1>1, TaskKeeps DEF TaskLeaves
<1>6. CountPart'
  <2>1. rb_available(head', Base') = 0
    <3>1. Base' = 0 /\ head' = 0
      BY <1>1 DEF Base
    <3>2. rb_available(0, 0) = 0
      BY Numbers, AvailableCases
    <3> QED
      BY <3>1, <3>2
  <2> HIDE DEF Delta, Base
  <2>2. received' <= released' + Capacity
    BY <1>1, <1>2, <1>3, <1>5, Numbers DEF RxInvariant, CountPart
  <2>3. released' + rb_available(head', Base') + Delta' = received'
    <3>0. Base = tail
      BY <1>1 DEF Base
    <3>1. received = released + rb_available(head, tail) + Delta
      BY <3>0 DEF RxInvariant, CountPart
    <3>2. released' \in Nat /\ released' + Delta = received
      BY <1>1, <1>2, <1>3, <3>1
    <3> QED
      BY <1>3, <1>5, <2>1, <3>2
  <2> QED
    BY <2>2, <2>3 DEF CountPart
<1>7. GetPart'
  BY <1>1 DEF GetPart
<1>8. ~(flushes' = 0)
  BY <1>1, <1>2
<1> QED
  BY <1>4, <1>5, <1>6, <1>7, <1>8 DEF RxInvariant

(* ... then the tail, from which what came in between is counted.          *)
LEMMA FlushTailInvariant ==
    ASSUME RxInvariant, FlushTail
    PROVE  RxInvariant'
<1>1. /\ TaskLeaves /\ pc = "flush" /\ pc' = "ready" /\ tail' = 0
      /\ UNCHANGED <<head, seen, n, index, copied, loaded, read, released, flushes>>
  BY DEF FlushTail, At, locals
<1>2. TypeOK' /\ flushes' \in Nat
  BY <1>1, Numbers, TaskKeeps DEF RxInvariant, TypeOK
<1>3. DistancePart' /\ Delta' = Delta /\ received' = received /\ Base' = Base
  BY <1>1, TaskKeeps DEF TaskLeaves, Base
<1>4. CountPart'
  BY <1>1, <1>3 DEF RxInvariant, CountPart
<1>5. GetPart'
  BY <1>1 DEF GetPart
<1>6. ~(flushes' = 0)
  BY <1>1 DEF RxInvariant, StreamPart
<1> QED
  BY <1>2, <1>3, <1>4, <1>5, <1>6 DEF RxInvariant

-----------------------------------------------------------------------------
(* Every byte, interrupt and access of the task preserves the invariant.   *)
THEOREM RxInvariantInductive ==
    ASSUME Paced, NotLate, RxInvariant, [Next]_vars
    PROVE  RxInvariant'
<1>1. CASE DmaByte
  BY <1>1, DmaByteInvariant
<1>2. CASE LineIdle \/ RxDmaInterrupt \/ UsartInterrupt
  BY <1>2, SignalInvariant
<1>3. CASE rx_update
  BY <1>3, UpdateInvariant
<1>4. CASE Recv
  BY <1>4, RecvInvariant DEF Recv
<1>5. CASE Get
  BY <1>5, AvailableInvariant, IndexInvariant, ByteInvariant, LoadInvariant,
     StoreInvariant DEF Get
<1>6. CASE uart_dma_rx_flush
  BY <1>6, FlushInvariant
<1>7. CASE FlushTail
  BY <1>7, FlushTailInvariant
<1>8. CASE UNCHANGED vars
  <2>1. UNCHANGED <<head, tail, buffer, prev, cndtr, htif, tcif, line, idleif,
                    handler, late, halted, pc, seen, n, index, copied, loaded,
                    received, read, released, flushes>>
    BY <1>8 DEF vars, ring, channel, usart, isr, locals, history
  <2>2. TypeOK' /\ flushes' \in Nat
    BY <2>1 DEF RxInvariant, TypeOK
  <2>3. (Due' <=> Due) /\ Delta' = Delta /\ Base' = Base
    BY <2>1 DEF Due, Delta, Base
  <2>4. DistancePart' /\ CountPart'
    <3> HIDE DEF Due, Delta, Base
    <3> QED
      BY <2>1, <2>3 DEF RxInvariant, DistancePart, CountPart
  <2>5. GetPart' /\ (flushes' = 0 => StreamPart')
    BY <2>1 DEF RxInvariant, GetPart, StreamPart, HandedBeyond
  <2> QED
    BY <2>2, <2>4, <2>5 DEF RxInvariant
<1> QED
  BY <1>1, <1>2, <1>3, <1>4, <1>5, <1>6, <1>7, <1>8 DEF Next

(* The receive path: ring, channel, handlers and reader stay in agreement. *)
THEOREM RxInvariantHolds ==
    ASSUME Paced, NotLate
    PROVE  Spec => []RxInvariant
<1>1. Init => RxInvariant
  BY InitInvariant
<1>2. RxInvariant /\ [Next]_vars => RxInvariant'
  BY RxInvariantInductive
<1> QED
  BY <1>1, <1>2, PTL DEF Spec

(* Types are kept whatever the line does, an overrun included: where the   *)
(* counters are at odds they are counters still.                           *)
LEMMA TypesKept ==
    ASSUME TypeOK, [Next]_vars
    PROVE  TypeOK'
<1>1. CASE DmaByte
  <2>1. received' \in Nat /\ buffer' \in [Slots -> Nat]
    <3>1. received' = received + 1 /\ received \in Nat /\ buffer \in [Slots -> Nat]
      BY <1>1 DEF TypeOK, DmaByte
    <3>2. received' \in Nat
      BY <3>1
    <3>3. buffer' = [buffer EXCEPT ![Capacity - cndtr] = received']
      BY <1>1 DEF DmaByte
    <3> QED
      BY ONLY <3>1, <3>2, <3>3
  <2>2. cndtr' \in 1 .. Capacity /\ late' \in Nat
    BY <1>1, Numbers DEF TypeOK, DmaByte
  <2> QED
    BY <1>1, <2>1, <2>2 DEF TypeOK, DmaByte, locals
<1>2. CASE LineIdle \/ RxDmaInterrupt \/ UsartInterrupt
  BY <1>2 DEF TypeOK, LineIdle, RxDmaInterrupt, UsartInterrupt, ring, channel,
              usart, isr, locals, history
<1>3. CASE rx_update
  <2>1. head' = Plus(head, Delta) /\ tail' = TailMakingRoom(head, tail, Delta)
        /\ prev' = cndtr
    BY <1>3 DEF rx_update
  <2>2. Delta \in Nat /\ head \in Nat /\ tail \in Nat /\ tail \in Counter
        /\ head \in Counter
    BY DeltaIsDifference DEF TypeOK, Counter
  <2> HIDE DEF Delta
  <2>3. head' \in Counter
    BY <2>1, <2>2, PlusInCounter
  <2>4. tail' \in Counter
    <3>1. rb_free_space(head, tail) \in Nat
      BY <2>2, FreeSpaceType
    <3>2. CASE Delta > rb_free_space(head, tail)
      <4>1. Delta - rb_free_space(head, tail) \in Nat
        BY <2>2, <3>1, <3>2
      <4>2. tail' = Plus(tail, Delta - rb_free_space(head, tail))
        BY <2>1, <3>2 DEF TailMakingRoom
      <4> QED
        BY <2>2, <4>1, <4>2, PlusInCounter
    <3>3. CASE ~(Delta > rb_free_space(head, tail))
      BY <2>1, <2>2, <3>3 DEF TailMakingRoom
    <3> QED
      BY <3>2, <3>3
  <2>5. prev' \in 1 .. Capacity /\ cndtr' \in 1 .. Capacity /\ late' \in Nat
    BY <1>3 DEF rx_update, TypeOK
  <2>6. /\ htif' \in BOOLEAN /\ tcif' \in BOOLEAN /\ idleif' \in BOOLEAN
        /\ halted' \in BOOLEAN /\ line' \in {"busy", "quiet"}
        /\ handler' \in {"none", "update", "update_then_ht", "update_then_give"}
    BY <1>3 DEF rx_update, TypeOK, usart
  <2> QED
    BY <1>3, <2>3, <2>4, <2>5, <2>6 DEF rx_update, TypeOK, locals, history
<1>4. CASE TaskLeaves
  <2>1. UNCHANGED <<buffer, prev, cndtr, htif, tcif, line, idleif, handler, late,
                    halted, received>>
    BY <1>4 DEF TaskLeaves, channel, usart, isr
  <2>2. ASSUME NEW len \in 1 .. MaxRead, uart_dma_recv(len) PROVE TypeOK'
    <3>1. n' \in Nat
      BY <2>2, Numbers DEF uart_dma_recv
    <3> QED
      BY <2>1, <2>2, <3>1 DEF TypeOK, uart_dma_recv
  <2>3. CASE GetAvailable
    <3>1. /\ rb_available(seen, tail) \in Nat /\ rb_available(head, seen) \in Nat
      BY AvailableCases DEF TypeOK
    <3>2. n' \in Nat
      BY <2>3, <3>1 DEF GetAvailable, Clamp, Least, TypeOK
    <3> QED
      BY <2>1, <2>3, <3>2, Numbers DEF TypeOK, GetAvailable
  <2>4. CASE GetIndex
    <3>1. Slot(tail) \in Slots
      BY SlotInBuffer DEF TypeOK, Counter
    <3> QED
      BY <2>1, <2>4, <3>1 DEF TypeOK, GetIndex
  <2>5. CASE GetByte
    <3>1. index + copied \in Nat
      BY Numbers DEF TypeOK, Slots
    <3>2. buffer[Slot(index + copied)] \in Nat
      BY <3>1, SlotInBuffer DEF TypeOK
    <3>3. read' \in Seq(Nat)
      BY <2>5, <3>2, AppendProperties DEF TypeOK, GetByte
    <3>4. copied' \in Nat
      BY <2>5 DEF TypeOK, GetByte
    <3> QED
      BY <2>1, <2>5, <3>3, <3>4 DEF TypeOK, GetByte
  <2>6. CASE GetLoad
    <3>1. 0 \in Slots
      BY Numbers DEF Slots
    <3> QED
      BY <2>1, <2>6, <3>1 DEF TypeOK, GetLoad
  <2>7. CASE GetStore
    <3>1. tail' \in Counter
      BY <2>7, PlusInCounter DEF GetStore, TypeOK, Counter
    <3>2. released' \in Nat
      BY <2>7 DEF GetStore, TypeOK
    <3> QED
      BY <2>1, <2>7, <3>1, <3>2, Numbers DEF TypeOK, GetStore
  <2>8. CASE uart_dma_rx_flush
    <3>1. rb_available(head, tail) \in Nat
      BY AvailableCases DEF TypeOK
    <3>2. released' \in Nat
      BY <2>8, <3>1 DEF uart_dma_rx_flush, TypeOK
    <3> QED
      BY <2>1, <2>8, <3>2, Numbers DEF TypeOK, uart_dma_rx_flush, locals
  <2>9. CASE FlushTail
    BY <2>1, <2>9, Numbers DEF TypeOK, FlushTail, locals
  <2>10. CASE DmaByte
    BY <1>1, <2>10
  <2>11. CASE LineIdle \/ RxDmaInterrupt \/ UsartInterrupt
    BY <1>2, <2>11
  <2>12. CASE rx_update
    BY <1>3, <2>12
  <2>13. CASE UNCHANGED vars
    BY <2>13 DEF TypeOK, vars, ring, channel, usart, isr, locals, history
  <2> QED
    BY <2>2, <2>3, <2>4, <2>5, <2>6, <2>7, <2>8, <2>9, <2>10, <2>11, <2>12,
       <2>13 DEF Next, Recv, Get
<1>5. CASE UNCHANGED vars
  BY <1>5 DEF TypeOK, vars, ring, channel, usart, isr, locals, history
<1> QED
  BY <1>1, <1>2, <1>3, <1>4, <1>5 DEF Next, Recv, Get, uart_dma_recv,
     GetAvailable, GetIndex, GetByte, GetLoad, GetStore, uart_dma_rx_flush,
     FlushTail

(* The counters, the last reading of CNDTR and the index of the copy keep  *)
(* their types, however far the line outruns the reader or the interrupt.  *)
THEOREM RxTyped == Spec => []TypeOK
<1>1. Init => TypeOK
  BY InitInvariant DEF RxInvariant
<1>2. TypeOK /\ [Next]_vars => TypeOK'
  BY TypesKept
<1> QED
  BY <1>1, <1>2, PTL DEF Spec

(* rx_update counts every byte, also around a flush: no lap of the buffer  *)
(* is hidden between two readings of CNDTR.                                *)
THEOREM EveryByteCounted ==
    ASSUME Paced, NotLate
    PROVE  Spec => []Accounted
<1>1. RxInvariant => Accounted
  <2> SUFFICES ASSUME RxInvariant, pc # "flush"
               PROVE  released + rb_available(head, tail)
                          + ((prev - cndtr) % Capacity) = received
    BY DEF Accounted
  <2>1. Base = tail
    BY DEF Base
  <2>2. Delta = (prev - cndtr) % Capacity
    BY DeltaIsDifference DEF RxInvariant, TypeOK
  <2> QED
    BY <2>1, <2>2 DEF RxInvariant, CountPart
<1> QED
  BY <1>1, RxInvariantHolds, PTL

(* Until a flush, uart_dma_recv hands out each byte once, in order and     *)
(* intact, although handlers and the channel come between any two of its   *)
(* accesses to the ring.                                                   *)
THEOREM EveryByteInOrder ==
    ASSUME Paced, NotLate
    PROVE  Spec => DeliversStream
<1>1. RxInvariant /\ [Next]_vars =>
          (flushes' = 0 => [Stream!Next]_(Stream!vars))
  <2> SUFFICES ASSUME RxInvariant, [Next]_vars, flushes' = 0
               PROVE  Stream!Next \/ UNCHANGED Stream!vars
    OBVIOUS
  <2>1. CASE DmaByte
    <3>1. flushes = 0
      BY <2>1 DEF DmaByte
    <3>2. /\ StreamPart /\ received \in Nat /\ released \in Nat
          /\ copied \in Nat /\ n \in Nat
      BY <3>1 DEF RxInvariant, TypeOK
    <3>3. Len(read) \in Nat /\ released <= Len(read)
      BY <3>2 DEF StreamPart, HandedBeyond
    <3>4. CountPart' /\ received' = received + 1 /\ UNCHANGED <<read, released>>
          /\ received < MaxBytes
      BY <2>1, RxInvariantInductive DEF RxInvariant, DmaByte
    <3>5. received' <= released' + Capacity
      BY <3>4 DEF CountPart
    <3>6. 1 \in 1 .. MaxBytes
      BY <3>2, <3>4, Numbers
    <3>7. received + 1 - Len(read) <= Capacity
      BY <3>2, <3>3, <3>4, <3>5, Numbers
    <3>8. Stream!Accept(1)
      BY <3>4, <3>7 DEF Stream!Accept
    <3> QED
      BY <3>6, <3>8 DEF Stream!Next
  <2>2. CASE GetByte
    <3>1. flushes = 0 /\ received' = received
          /\ read' = Append(read, buffer[Slot(index + copied)])
      BY <2>2 DEF GetByte, TaskLeaves
    <3>2. Len(read) < received /\ buffer[Slot(index + copied)] = Len(read) + 1
      BY <2>2, <3>1, NextByte
    <3>3. Stream!Send
      BY <3>1, <3>2 DEF Stream!Send
    <3> QED
      BY <3>3 DEF Stream!Next
  <2>3. CASE LineIdle \/ RxDmaInterrupt \/ UsartInterrupt \/ rx_update
    BY <2>3 DEF LineIdle, RxDmaInterrupt, UsartInterrupt, rx_update, history,
                Stream!vars
  <2>4. CASE Recv
    BY <2>4 DEF Recv, uart_dma_recv, TaskLeaves, Stream!vars
  <2>5. CASE GetAvailable \/ GetIndex \/ GetLoad \/ GetStore
    BY <2>5 DEF GetAvailable, GetIndex, GetLoad, GetStore, TaskLeaves, Stream!vars
  <2>6. CASE uart_dma_rx_flush \/ FlushTail
    BY <2>6 DEF uart_dma_rx_flush, FlushTail, TaskLeaves, Stream!vars
  <2>7. CASE UNCHANGED vars
    BY <2>7 DEF vars, history, Stream!vars
  <2> QED
    BY <2>1, <2>2, <2>3, <2>4, <2>5, <2>6, <2>7 DEF Next, Get
<1> QED
  BY <1>1, RxInvariantHolds, PTL DEF DeliversStream, Spec

-----------------------------------------------------------------------------
(* Under the two conditions the ring never says that it holds more than    *)
(* fits, but in the middle of a flush; without the first it does, since    *)
(* the task then stores a tail that the handler has moved.                 *)
THEOREM HeldFitsWhenPaced ==
    ASSUME Paced, NotLate
    PROVE  Spec => [](pc # "flush" => HeldFits)
<1>1. RxInvariant => (pc # "flush" => HeldFits)
  <2> SUFFICES ASSUME RxInvariant, pc # "flush"
               PROVE  rb_available(head, tail) <= Capacity
    BY DEF HeldFits
  <2>1. /\ released + rb_available(head, tail) + Delta = received
        /\ received <= released + Capacity
    BY DEF RxInvariant, CountPart, Base
  <2>2. Delta \in Nat
    BY DeltaIsDifference DEF RxInvariant, TypeOK
  <2>3. /\ rb_available(head, tail) \in Nat
        /\ released \in Nat /\ received \in Nat /\ Capacity \in Nat
    BY RingAssumption, AvailableCases DEF RxInvariant, TypeOK, RingAssumption
  <2> QED
    BY <2>1, <2>2, <2>3
<1> QED
  BY <1>1, RxInvariantHolds, PTL

(* Until a flush the i-th byte handed out is the i-th received, ...        *)
InOrder == flushes = 0 => \A i \in 1 .. Len(read) : read[i] = i

LEMMA InOrderInductive ==
    ASSUME Paced, NotLate, RxInvariant, InOrder, [Next]_vars
    PROVE  InOrder'
<1>1. CASE GetByte
  <2> SUFFICES ASSUME flushes' = 0
               PROVE  \A i \in 1 .. Len(read') : read'[i] = i
    BY DEF InOrder
  <2>1. flushes = 0 /\ read' = Append(read, buffer[Slot(index + copied)])
    BY <1>1 DEF GetByte, TaskLeaves
  <2>2. buffer[Slot(index + copied)] = Len(read) + 1
    BY <1>1, <2>1, NextByte
  <2>3. read \in Seq(Nat)
    BY DEF RxInvariant, TypeOK
  <2>4. /\ Len(read') = Len(read) + 1
        /\ \A i \in 1 .. Len(read) : read'[i] = read[i]
        /\ read'[Len(read) + 1] = Len(read) + 1
    BY <2>1, <2>2, <2>3
  <2>5. \A i \in 1 .. Len(read) : read[i] = i
    BY <2>1 DEF InOrder
  <2> QED
    BY <2>3, <2>4, <2>5
<1>2. CASE ~GetByte
  <2>1. read' = read /\ (flushes' = 0 => flushes = 0)
    BY <1>2 DEF RxInvariant, Next, Get, Recv, DmaByte, LineIdle, RxDmaInterrupt, UsartInterrupt,
          rx_update, history, uart_dma_recv, GetAvailable, GetIndex, GetLoad,
          GetStore, TaskLeaves, uart_dma_rx_flush, FlushTail, vars
  <2> QED
    BY <2>1 DEF InOrder
<1> QED
  BY <1>1, <1>2

(* ... so that none is handed out twice: only a flush, after which the     *)
(* counters and the channel are at odds, makes the reader see one again.   *)
THEOREM ReadOnceUntilFlush ==
    ASSUME Paced, NotLate
    PROVE  Spec => [](flushes = 0 => ReadOnce)
<1>1. Init => InOrder
  BY DEF Init, InOrder
<1>2. RxInvariant /\ InOrder /\ [Next]_vars => InOrder'
  BY InOrderInductive
<1>3. InOrder => (flushes = 0 => ReadOnce)
  BY DEF InOrder, ReadOnce
<1> QED
  BY <1>1, <1>2, <1>3, RxInvariantHolds, PTL DEF Spec
=============================================================================
