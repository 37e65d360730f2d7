---------------------------- MODULE TxPathProofs ----------------------------
(***************************************************************************)
(* The transmit path is correct for every Word, Capacity and bound: type   *)
(* correctness, the inductive invariant of TxPathInvariant, the safety     *)
(* properties of TxPath that follow from it, and the refinement of         *)
(* ByteStream.                                                               *)
(***************************************************************************)
EXTENDS TxPathInvariant, RingTheorems

(* What the proofs below use of the constants.                             *)
THEOREM Constants ==
    /\ Word \in Nat /\ Capacity \in Nat /\ 0 < Capacity /\ Capacity < Word
    /\ MaxLen \in Nat /\ 0 < MaxLen /\ MaxBytes \in Nat
    /\ Beyond \notin Nat /\ TxTaskSet \in BOOLEAN
    /\ IrqPriority \in Nat /\ MaxSyscallPriority \in Nat
BY RingAssumption, TxPathAssumption, KernelAssumption

USE Constants

-----------------------------------------------------------------------------
(* The segment tx_kick computes from two different counters is a proper    *)
(* one: it starts at a slot of the buffer and is not empty.                *)
THEOREM SegmentType ==
    ASSUME NEW h \in Counter, NEW t \in Counter, h # t
    PROVE  Segment(h, t) \in Segments
<1>1. Slot(t) \in Slots /\ Slot(h) \in Slots
  BY Constants, SlotInBuffer DEF Counter
<1> QED
  BY <1>1, Constants DEF Segment, Segments, Counter, Slots

(* The counter at the end of the buffer, clamped or not, is a counter.     *)
THEOREM TailAtBufferEndType ==
    ASSUME tail \in Counter, kick_head \in Counter
    PROVE  TailAtBufferEnd \in Counter
<1>1. tail - Slot(tail) \in Nat
  BY Constants, SlotBase DEF Counter
<1>2. Plus(tail - Slot(tail), Capacity) \in Counter
  BY <1>1, Constants, PlusInCounter
<1> QED
  BY <1>2 DEF TailAtBufferEnd

(* Every step of the task, the handler and the channel keeps the types.    *)
THEOREM TypeStep == TypeOK /\ [Next]_vars => TypeOK'
<1> SUFFICES ASSUME TypeOK, [Next]_vars PROVE TypeOK'
  OBVIOUS
<1>1. ASSUME NEW len \in 1 .. MaxLen, uart_dma_send(len) PROVE TypeOK'
  <2>1. rb_free_space(head, tail) \in Nat
    BY FreeSpaceType DEF TypeOK
  <2>2. n' \in Nat
    BY <1>1, <2>1, Constants DEF uart_dma_send, Least
  <2> QED
    BY <1>1, <2>2 DEF TypeOK, uart_dma_send, ring, handle, channel, history
<1>2. CASE CopyByte
  <2>1. put + copied + 1 \in Nat /\ copied' \in Nat
    BY <1>2 DEF TypeOK, CopyByte
  <2>2. buffer' \in [Slots -> Nat]
    BY <1>2, <2>1 DEF TypeOK, CopyByte
  <2> QED
    BY <1>2, <2>1, <2>2 DEF TypeOK, CopyByte, handle, channel, history
<1>3. CASE Publish
  <2>1. head' \in Counter
    BY <1>3, PlusInCounter DEF TypeOK, Publish, Counter
  <2> QED
    BY <1>3, <2>1 DEF TypeOK, Publish, handle, channel
<1>4. CASE TestIdle
  BY <1>4 DEF TypeOK, TestIdle, ring, handle, channel, history
<1>5. CASE TestEmpty
  BY <1>5 DEF TypeOK, TestEmpty, ring, handle, channel, history
<1>6. CASE KickRead
  BY <1>6, SegmentType
  DEF TypeOK, KickRead, rb_is_empty, ring, channel, history
<1>7. CASE KickMark
  BY <1>7 DEF TypeOK, KickMark, ring, channel, history
<1>8. CASE KickProgram
  <2>1. /\ segment.from \in Nat /\ segment.len \in Nat
        /\ segment.chain \in BOOLEAN
    BY DEF TypeOK, Segments, Slots
  <2> QED
    BY <1>8, <2>1 DEF TypeOK, KickProgram, ring, history
<1>9. CASE KickUnmask
  BY <1>9 DEF TypeOK, KickUnmask, ring, handle, history
<1>10. CASE KickEnable
  BY <1>10 DEF TypeOK, KickEnable, ring, handle, history
<1>11. CASE uart_dma_tx_flush
  BY <1>11 DEF TypeOK, uart_dma_tx_flush, ring, handle, channel, history
<1>12. CASE Flush
  BY <1>12 DEF TypeOK, Flush, FlushTestEmpty, FlushTestIdle, FlushWake,
               FlushReturn, ring, handle, channel, history
<1>13. CASE FlushTimeout
  BY <1>13 DEF TypeOK, FlushTimeout, ring, handle, channel, history
<1>14. CASE DmaByte
  <2>1. addr' \in Nat /\ cndtr' \in Nat /\ tcif' \in BOOLEAN
    BY <1>14 DEF TypeOK, DmaByte
  <2>2. (IF addr < Capacity THEN buffer[addr] ELSE Beyond)
            \in Nat \cup {Beyond}
    BY DEF TypeOK, Slots
  <2>3. wire' \in Seq(Nat \cup {Beyond})
    BY <1>14, <2>2 DEF TypeOK, DmaByte
  <2> QED
    BY <1>14, <2>1, <2>3 DEF TypeOK, DmaByte, ring, handle, task
<1>15. CASE TcSecondSegment
  <2>1. kick_head \in Nat
    BY DEF TypeOK, Counter
  <2>2. Slot(kick_head) \in Nat
    BY <2>1, SlotInBuffer DEF Slots
  <2> QED
    BY <1>15, <2>2, TailAtBufferEndType
    DEF TypeOK, TcSecondSegment, StartDma, task, history
<1>16. CASE TcKickAgain
  <2>1. Segment(head, kick_head) \in Segments
    BY <1>16, SegmentType DEF TypeOK, TcKickAgain, SentUpTo
  <2>2. /\ Segment(head, kick_head).from \in Nat
        /\ Segment(head, kick_head).len \in Nat
        /\ Segment(head, kick_head).chain \in BOOLEAN
    BY <2>1 DEF Segments, Slots
  <2> QED
    BY <1>16, <2>2
    DEF TypeOK, TcKickAgain, SentUpTo, StartDma, task, history
<1>17. CASE TcIdle
  BY <1>17 DEF TypeOK, TcIdle, SentUpTo, GiveHalts, GiveFromISRHalts, task, history
<1>18. CASE UNCHANGED vars
  BY <1>18 DEF TypeOK, vars, ring, handle, channel, task, history
<1> QED
  BY <1>1, <1>2, <1>3, <1>4, <1>5, <1>6, <1>7, <1>8, <1>9, <1>10, <1>11,
     <1>12, <1>13, <1>14, <1>15, <1>16, <1>17, <1>18
  DEF Next, Kick, on_tx_tc

(* The driver is opened with counters, registers and locals in range.     *)
THEOREM InitType == Init => TypeOK
<1> SUFFICES ASSUME Init PROVE TypeOK
  OBVIOUS
<1>1. NoSegment \in Segments /\ 0 \in Counter
  BY DEF NoSegment, Segments, Slots, Counter
<1>2. wire \in Seq(Nat \cup {Beyond})
  BY DEF Init
<1>3. buffer \in [Slots -> Nat]
  BY DEF Init
<1> QED
  BY <1>1, <1>2, <1>3 DEF Init, TypeOK

(* TypeIsInvariant: the counters stay uint32_t values and the channel's    *)
(* registers stay in range, whatever the interleaving.                     *)
THEOREM TypeIsInvariant == Spec => []TypeOK
BY InitType, TypeStep, PTL DEF Spec

-----------------------------------------------------------------------------
(* The counters of the last buffer length before the wrap, and those of    *)
(* the first after it, denote their slots plainly.                         *)
THEOREM SlotsAtWrap ==
    ASSUME NEW x \in Counter
    PROVE  /\ x < Capacity => Slot(x) = x
           /\ x >= Word - Capacity => Slot(x) = x - (Word - Capacity)
<1>1. Slot(0) = 0
  BY SlotInBuffer DEF Slots
<1>2. Slot(Word) = 0
  <2>1. Slot(0 + Word) = Slot(0)
    BY SlotIgnoresWrap
  <2> QED
    BY <1>1, <2>1
<1>3. Slot(Word - Capacity) = 0
  <2>1. Slot((Word - Capacity) + Capacity) = Slot(Word - Capacity)
    BY SlotIgnoresWrap
  <2>2. (Word - Capacity) + Capacity = Word
    OBVIOUS
  <2> QED
    BY <1>2, <2>1, <2>2
<1>4. ASSUME x < Capacity PROVE Slot(x) = x
  <2>1. Slot(0 + x) = x
    BY <1>1, <1>4, SlotOfSum DEF Slots, Counter
  <2> QED
    BY <2>1 DEF Counter
<1>5. ASSUME x >= Word - Capacity PROVE Slot(x) = x - (Word - Capacity)
  <2>1. x - (Word - Capacity) \in Slots
    BY <1>5 DEF Slots, Counter
  <2>2. Slot((Word - Capacity) + (x - (Word - Capacity)))
            = x - (Word - Capacity)
    BY <1>3, <2>1, SlotOfSum
  <2>3. (Word - Capacity) + (x - (Word - Capacity)) = x
    BY DEF Counter
  <2> QED
    BY <2>2, <2>3
<1> QED
  BY <1>4, <1>5

(* What tx_kick sends of a ring that holds at most Capacity bytes: either  *)
(* all of it in one segment, or, when the counters have wrapped between    *)
(* tail and head, what comes before the wrap, with the rest chained.       *)
THEOREM SegmentMeaning ==
    ASSUME NEW h \in Counter, NEW t \in Counter, h # t,
           rb_available(h, t) <= Capacity
    PROVE  LET s == Segment(h, t)
           IN  /\ s.from = Slot(t)
               /\ s.len \in Nat /\ 0 < s.len
               /\ s.chain \in BOOLEAN
               /\ s.chain => 0 < h /\ h < t /\ s.len = Word - t
               /\ ~s.chain => s.len = rb_available(h, t)
<1>1. rb_available(h, t) = IF t <= h THEN h - t ELSE h + Word - t
  BY AvailableCases
<1>2. CASE t < h
  BY <1>1, <1>2 DEF Segment, Counter
<1>3. CASE h < t
  <2>1. t >= Word - Capacity /\ h < Capacity
    BY <1>1, <1>3 DEF Counter
  <2>2. Slot(t) = t - (Word - Capacity) /\ Slot(h) = h
    BY <2>1, SlotsAtWrap
  <2>3. Segment(h, t) =
            [from |-> Slot(t), len |-> Capacity - Slot(t), chain |-> Slot(h) > 0]
    BY <1>3 DEF Segment, Counter
  <2>4. Capacity - Slot(t) = Word - t
    BY <2>2 DEF Counter
  <2>5. Word - t \in Nat /\ 0 < Word - t /\ h \in Nat
    BY DEF Counter
  <2>6. h = 0 => Word - t = rb_available(h, t)
    BY <1>1, <1>3 DEF Counter
  <2>7. /\ Segment(h, t).from = Slot(t)
        /\ Segment(h, t).len = Word - t
        /\ Segment(h, t).chain = (h > 0)
    BY <2>2, <2>3, <2>4
  <2>8. Segment(h, t).chain \in BOOLEAN /\ (Segment(h, t).chain <=> h > 0)
    <3>1. CASE h > 0
      BY <2>7, <3>1
    <3>2. CASE ~(h > 0)
      <4>1. (h > 0) = FALSE
        BY <3>2
      <4>2. Segment(h, t).chain = FALSE
        BY <2>7, <4>1, Zenon
      <4> QED
        BY <4>2, <3>2
    <3> QED
      BY <3>1, <3>2
  <2> QED
    BY <1>3, <2>5, <2>6, <2>7, <2>8
<1> QED
  BY <1>2, <1>3 DEF Counter

-----------------------------------------------------------------------------
(* The invariant holds when the driver has been opened.                    *)
THEOREM InitInvariant == Init => TxInvariant
<1> SUFFICES ASSUME Init PROVE TxInvariant
  OBVIOUS
<1>1. TypeOK
  BY InitType
<1>2. Held = 0 /\ Released = 0 /\ Copied = 0
  <2>1. head \in Counter /\ tail \in Counter /\ head = tail
    BY <1>1 DEF Init, TypeOK
  <2>2. rb_available(head, tail) = 0
    BY <2>1, AvailableCases
  <2> QED
    BY <2>2 DEF Init, Held, Released, Copied
<1>3. RingPart /\ ContentPart
  BY <1>2 DEF Init, RingPart, ContentPart
<1>4. CopyPart /\ KickPart /\ FlightPart /\ FlushPart
  BY DEF Init, CopyPart, KickPart, FlightPart, FlushPart
<1>5. Len(wire) = 0
  BY DEF Init
<1>6. RestPart /\ WirePart
  BY <1>2, <1>5 DEF Init, RestPart, WirePart
<1> QED
  BY <1>1, <1>3, <1>4, <1>6 DEF TxInvariant

-----------------------------------------------------------------------------
(* What the typing part of the invariant says of its own quantities.       *)
THEOREM Quantities ==
    ASSUME TypeOK
    PROVE  /\ Held \in Nat /\ Goal \in Nat /\ Len(wire) \in Nat
           /\ Released \in Int /\ Progress \in Int
           /\ Released = put - Held /\ Progress = Len(wire) - Released
<1>1. Held \in Nat /\ Goal \in Nat
  BY AvailableCases DEF TypeOK, Held, Goal
<1>2. Len(wire) \in Nat /\ put \in Nat
  BY DEF TypeOK
<1> QED
  BY <1>1, <1>2 DEF Released, Progress

(* The steps of the task that read and decide: only pc changes.            *)
PcStep == TestIdle \/ TestEmpty \/ uart_dma_tx_flush \/ Flush \/ FlushTimeout

THEOREM PcStepInvariant ==
    ASSUME TxInvariant, TypeOK', PcStep
    PROVE  TxInvariant'
<1>1. /\ UNCHANGED <<head, tail, buffer, kick_head, chain_pending, idle, en,
                    addr, cndtr, tcif, irq_on, tx_busy, n, copied, segment,
                    put, wire>>
  BY DEF PcStep, TestIdle, TestEmpty, uart_dma_tx_flush, Flush, FlushTestEmpty,
         FlushTestIdle, FlushWake, FlushReturn, FlushTimeout, ring, handle,
         channel, history
<1>2. /\ Held' = Held /\ Released' = Released /\ Progress' = Progress
      /\ Goal' = Goal /\ Transfer' = Transfer
  BY <1>1 DEF Held, Released, Progress, Goal, Transfer
<1>3. /\ pc \in {"test_idle", "test_empty", "ready", "flush_empty",
               "flush_idle", "wait", "flushed"}
      /\ pc' \in {"test_empty", "ready", "kick", "flush_empty", "flush_idle",
                 "wait", "flushed"}
  BY DEF PcStep, TestIdle, TestEmpty, uart_dma_tx_flush, Flush, FlushTestEmpty,
         FlushTestIdle, FlushWake, FlushReturn, FlushTimeout
<1>4. RingPart' /\ CopyPart' /\ WirePart'
  BY <1>1, <1>2, <1>3 DEF TxInvariant, RingPart, CopyPart, WirePart
<1>5. ContentPart'
  <2>1. Copied = 0 /\ Copied' = 0
    BY <1>3 DEF Copied
  <2> QED
    BY <1>1, <1>2, <2>1 DEF TxInvariant, ContentPart
<1>6. RestPart'
  <2>1. idle /\ ~Sending' => head = tail
    <3>1. CASE Sending
      <4>1. idle /\ pc' = "ready" => head = tail
        BY <3>1 DEF PcStep, TestIdle, TestEmpty, uart_dma_tx_flush, Flush,
                    FlushTestEmpty, FlushTestIdle, FlushWake, FlushReturn,
                    FlushTimeout, Sending, rb_is_empty
      <4>2. ~Sending' => pc' = "ready"
        BY <3>1 DEF PcStep, TestIdle, TestEmpty, uart_dma_tx_flush, Flush,
                    FlushTestEmpty, FlushTestIdle, FlushWake, FlushReturn,
                    FlushTimeout, Sending
      <4> QED
        BY <4>1, <4>2
    <3>2. CASE ~Sending
      BY <3>2 DEF TxInvariant, RestPart
    <3> QED
      BY <3>1, <3>2
  <2> QED
    BY <1>1, <1>2, <2>1 DEF TxInvariant, RestPart
<1>7. KickPart'
  <2>1. pc' \in {"test_empty", "kick", "flushed"} => idle
    BY DEF PcStep, TestIdle, TestEmpty, uart_dma_tx_flush, Flush,
           FlushTestEmpty, FlushTestIdle, FlushWake, FlushReturn, FlushTimeout,
           TxInvariant, KickPart
  <2> QED
    BY <1>1, <1>3, <2>1 DEF KickPart
<1>8. FlightPart'
  BY <1>1, <1>2, <1>3 DEF TxInvariant, FlightPart
<1>9. FlushPart'
  <2>1. pc' \in {"flush_idle", "flushed"} => head = tail
    BY DEF PcStep, TestIdle, TestEmpty, uart_dma_tx_flush, Flush,
           FlushTestEmpty, FlushTestIdle, FlushWake, FlushReturn, FlushTimeout,
           TxInvariant, FlushPart, rb_is_empty
  <2> QED
    BY <1>1, <2>1 DEF FlushPart
<1> QED
  BY <1>4, <1>5, <1>6, <1>7, <1>8, <1>9 DEF TxInvariant

(* uart_dma_send decides how many bytes fit.                               *)
THEOREM SendInvariant ==
    ASSUME TxInvariant, TypeOK', NEW len \in 1 .. MaxLen, uart_dma_send(len)
    PROVE  TxInvariant'
<1>1. /\ UNCHANGED <<head, tail, buffer, kick_head, chain_pending, idle, en,
                    addr, cndtr, tcif, irq_on, tx_busy, segment, put, wire>>
      /\ pc = "ready" /\ pc' \in {"copy", "test_idle"}
  BY DEF uart_dma_send, ring, handle, channel, history
<1>2. /\ Held' = Held /\ Released' = Released /\ Progress' = Progress
      /\ Goal' = Goal /\ Transfer' = Transfer
  BY <1>1 DEF Held, Released, Progress, Goal, Transfer
<1>3. CopyPart'
  <2>1. rb_free_space(head, tail) = Capacity - Held /\ Held \in Nat
    BY FreeSpaceIsRoom, Quantities DEF TxInvariant, RingPart, Held, TypeOK
  <2>2. n' \in Nat /\ n' + Held <= Capacity /\ n' <= len
    BY <2>1 DEF uart_dma_send, Least, TxInvariant, RingPart
  <2>3. put + len <= MaxBytes /\ put \in Nat /\ copied' = 0
        /\ (pc' = "copy" => n' # 0)
    BY DEF uart_dma_send, TxInvariant, TypeOK
  <2>4. n' + put' <= MaxBytes
    <3>1. put' = put /\ put \in Nat /\ len \in Nat
      BY <1>1, <2>3
    <3>2. PICK fits \in Nat : n' = fits /\ fits <= len
      BY <2>2
    <3>3. put + len <= MaxBytes
      BY <2>3
    <3> QED
      BY <3>1, <3>2, <3>3
  <2>5. n' + Held' <= Capacity
    BY <1>2, <2>2
  <2>6. pc' = "copy" => 0 < n' /\ copied' < n'
    BY <2>2, <2>3
  <2>7. pc' # "publish"
    BY <1>1
  <2> QED
    BY <2>4, <2>5, <2>6, <2>7 DEF CopyPart
<1>4. ContentPart'
  <2>1. Copied = 0 /\ Copied' = 0
    BY <1>1 DEF Copied, uart_dma_send
  <2> QED
    BY <1>1, <1>2, <2>1 DEF TxInvariant, ContentPart
<1>5. RestPart'
  BY <1>1, <1>2 DEF TxInvariant, RestPart, Sending
<1>6. KickPart' /\ FlushPart'
  BY <1>1 DEF KickPart, FlushPart
<1>7. FlightPart'
  BY <1>1, <1>2 DEF TxInvariant, FlightPart
<1>8. RingPart' /\ WirePart'
  BY <1>1, <1>2 DEF TxInvariant, RingPart, WirePart
<1> QED
  BY <1>3, <1>4, <1>5, <1>6, <1>7, <1>8 DEF TxInvariant

(* rb_put writes one byte into the first free slot that is left.           *)
THEOREM CopyInvariant ==
    ASSUME TxInvariant, TypeOK', CopyByte
    PROVE  TxInvariant'
<1>1. /\ UNCHANGED <<head, tail, kick_head, chain_pending, idle, en, addr, cndtr,
                    tcif, irq_on, tx_busy, n, segment, put, wire>>
      /\ pc = "copy" /\ pc' \in {"copy", "publish"}
      /\ copied' = copied + 1
      /\ pc' = IF copied + 1 = n THEN "publish" ELSE "copy"
      /\ buffer' = [buffer EXCEPT ![Slot(head + copied)] = put + copied + 1]
  BY DEF CopyByte, handle, channel, history
<1>2. /\ Held' = Held /\ Released' = Released /\ Progress' = Progress
      /\ Goal' = Goal /\ Transfer' = Transfer
  BY <1>1 DEF Held, Released, Progress, Goal, Transfer
<1>3. /\ copied \in Nat /\ n \in Nat /\ copied < n /\ n + Held <= Capacity
      /\ Held \in Nat /\ put \in Nat /\ Released = put - Held
  BY <1>1, Quantities DEF TxInvariant, CopyPart, TypeOK
<1>4. CopyPart'
  BY <1>1, <1>2, <1>3 DEF TxInvariant, CopyPart
<1>5. ContentPart'
  <2>1. Copied = copied /\ Copied' = copied + 1
    BY <1>1 DEF Copied
  <2>2. head \in Counter /\ tail \in Counter /\ tail \in Nat
    BY DEF TxInvariant, TypeOK, Counter
  <2>3. Slot(head + copied) = Slot(tail + (Held + copied))
    <3>1. head = Plus(tail, Held) /\ Held <= Word
      BY <1>3, <2>2, HeadFromTail DEF Held
    <3>2. Slot(Plus(tail, Held) + copied) = Slot(tail + Held + copied)
      BY <1>3, <2>2, <3>1, SlotAfterPlus
    <3>3. tail + Held + copied = tail + (Held + copied)
      BY <1>3, <2>2
    <3> QED
      BY <3>1, <3>2, <3>3
  <2>4. SUFFICES ASSUME NEW k \in 0 .. Held + copied
                 PROVE  buffer'[Slot(tail + k)] = Released + k + 1
    BY <1>1, <1>2, <1>3, <2>1 DEF ContentPart
  <2>5. Slot(tail + k) \in Slots /\ Slot(head + copied) \in Slots
    BY <1>3, <2>2, <2>3, SlotInBuffer
  <2>6. buffer \in [Slots -> Nat]
    BY DEF TxInvariant, TypeOK
  <2>7. CASE k = Held + copied
    <3>1. buffer'[Slot(tail + k)] = put + copied + 1
      BY <1>1, <2>3, <2>5, <2>6, <2>7
    <3> QED
      BY <1>3, <2>7, <3>1
  <2>8. CASE k < Held + copied
    <3>1. Slot(tail + k) # Slot(tail + (Held + copied))
      <4>1. PICK d \in Nat : d = Held + copied - k
        BY <1>3, <2>8
      <4>2. 0 < d /\ d < Capacity /\ tail + k \in Nat
        BY <1>3, <2>2, <2>8, <4>1
      <4>3. Slot((tail + k) + d) # Slot(tail + k)
        BY <4>2, SlotsDistinct
      <4>4. (tail + k) + d = tail + (Held + copied)
        BY <1>3, <2>2, <4>1
      <4> QED
        BY <4>3, <4>4
    <3>2. buffer'[Slot(tail + k)] = buffer[Slot(tail + k)]
      BY <1>1, <2>3, <2>5, <2>6, <3>1
    <3>3. buffer[Slot(tail + k)] = Released + k + 1
      BY <1>3, <2>1, <2>8 DEF TxInvariant, ContentPart
    <3> QED
      BY <3>2, <3>3
  <2> QED
    BY <1>3, <2>7, <2>8
<1>6. RestPart' /\ KickPart' /\ FlushPart'
  BY <1>1, <1>2 DEF TxInvariant, RestPart, KickPart, FlushPart, Sending
<1>7. FlightPart'
  BY <1>1, <1>2 DEF TxInvariant, FlightPart
<1>8. RingPart' /\ WirePart'
  BY <1>1, <1>2 DEF TxInvariant, RingPart, WirePart
<1> QED
  BY <1>4, <1>5, <1>6, <1>7, <1>8 DEF TxInvariant

(* rb_put publishes the copied bytes with the head.                        *)
THEOREM PublishInvariant ==
    ASSUME TxInvariant, TypeOK', Publish
    PROVE  TxInvariant'
<1>1. /\ UNCHANGED <<tail, buffer, kick_head, chain_pending, idle, en, addr,
                    cndtr, tcif, irq_on, tx_busy, n, copied, segment, wire>>
      /\ pc = "publish" /\ pc' = "test_idle"
      /\ head' = Plus(head, n) /\ put' = put + n
  BY DEF Publish, handle, channel
<1>2. /\ n \in Nat /\ copied = n /\ n + Held <= Capacity /\ Held <= put
      /\ Held \in Nat /\ put \in Nat /\ Released = put - Held
  BY <1>1, Quantities DEF TxInvariant, CopyPart, RingPart, TypeOK
<1>3. /\ Held' = Held + n /\ Released' = Released
      /\ Progress' = Progress /\ Goal' = Goal
  <2>1. rb_available(Plus(head, n), tail) = rb_available(head, tail) + n
    BY <1>2, AvailableAfterPut DEF TxInvariant, TypeOK, Held
  <2>2. Held' = Held + n
    BY <1>1, <2>1 DEF Held
  <2>3. Released' = (put + n) - (Held + n)
    BY <1>1, <2>2 DEF Released
  <2>4. Released' = Released
    BY <1>2, <2>3
  <2> QED
    BY <1>1, <2>2, <2>4 DEF Progress, Goal
<1>4. RingPart'
  BY <1>1, <1>2, <1>3 DEF RingPart
<1>5. ContentPart'
  <2>1. Copied = n /\ Copied' = 0
    BY <1>1, <1>2 DEF Copied
  <2>2. Held' + Copied' - 1 = Held + Copied - 1
    BY <1>2, <1>3, <2>1
  <2> QED
    BY <1>1, <1>3, <2>2 DEF TxInvariant, ContentPart
<1>6. FlightPart'
  <2>1. Goal <= Held => Goal' <= Held'
    BY <1>2, <1>3, Quantities DEF TxInvariant
  <2>2. Transfer => Transfer'
    BY <1>1, <1>3, <2>1 DEF Transfer
  <2> QED
    BY <1>1, <2>2 DEF TxInvariant, FlightPart
<1>7. RestPart' /\ KickPart' /\ FlushPart' /\ CopyPart' /\ WirePart'
  BY <1>1, <1>3
  DEF TxInvariant, RestPart, KickPart, FlushPart, CopyPart, WirePart, Sending
<1> QED
  BY <1>4, <1>5, <1>6, <1>7 DEF TxInvariant

(* tx_kick reads the counters and notes the goal.                          *)
THEOREM KickReadInvariant ==
    ASSUME TxInvariant, TypeOK', KickRead
    PROVE  TxInvariant'
<1>1. /\ UNCHANGED <<head, tail, buffer, chain_pending, en, addr, cndtr, tcif,
                    irq_on, tx_busy, n, copied, put, wire>>
      /\ pc = "kick" /\ pc' \in {"ready", "mark"} /\ idle /\ idle'
  BY DEF KickRead, ring, channel, history, TxInvariant, KickPart
<1>2. Held' = Held /\ Released' = Released
  BY <1>1 DEF Held, Released
<1>3. /\ pc' = "ready" => head = tail
      /\ pc' = "mark" => /\ head # tail /\ kick_head' = head
                         /\ segment' = Segment(head, tail)
  BY DEF KickRead, rb_is_empty
<1>4. RingPart' /\ WirePart' /\ CopyPart'
  BY <1>1, <1>2 DEF TxInvariant, RingPart, WirePart, CopyPart
<1>5. RestPart'
  BY <1>1, <1>2, <1>3 DEF TxInvariant, RestPart, Sending
<1>6. KickPart'
  <2>1. Segment(head, tail)' = Segment(head, tail)
    BY <1>1 DEF Segment
  <2> QED
    BY <1>1, <1>3, <2>1 DEF KickPart
<1>7. FlightPart' /\ FlushPart'
  BY <1>1 DEF FlightPart, FlushPart
<1>8. ContentPart'
  <2>1. Copied = 0 /\ Copied' = 0
    BY <1>1 DEF Copied
  <2> QED
    BY <1>1, <1>2, <2>1 DEF TxInvariant, ContentPart
<1> QED
  BY <1>4, <1>5, <1>6, <1>7, <1>8 DEF TxInvariant

(* tx_kick marks the handle busy before it touches the channel.            *)
THEOREM KickMarkInvariant ==
    ASSUME TxInvariant, TypeOK', KickMark
    PROVE  TxInvariant'
<1>1. /\ UNCHANGED <<head, tail, buffer, kick_head, chain_pending, en, addr,
                    cndtr, tcif, irq_on, tx_busy, n, copied, segment, put,
                    wire>>
      /\ pc = "mark" /\ pc' = "program" /\ idle /\ ~idle'
  BY DEF KickMark, ring, channel, history, TxInvariant, KickPart
<1>2. Held' = Held /\ Released' = Released
  BY <1>1 DEF Held, Released
<1>3. RingPart' /\ WirePart' /\ CopyPart'
  BY <1>1, <1>2 DEF TxInvariant, RingPart, WirePart, CopyPart
<1>4. RestPart' /\ FlightPart' /\ FlushPart'
  BY <1>1 DEF RestPart, FlightPart, FlushPart
<1>5. KickPart'
  <2>1. Segment(head, tail)' = Segment(head, tail)
    BY <1>1 DEF Segment
  <2>2. ~tcif /\ Len(wire) = Released /\ cndtr = 0
    BY <1>1 DEF TxInvariant, RestPart
  <2>3. head # tail /\ kick_head = head /\ segment = Segment(head, tail)
    BY <1>1 DEF TxInvariant, KickPart
  <2> QED
    BY <1>1, <1>2, <2>1, <2>2, <2>3 DEF KickPart
<1>6. ContentPart'
  <2>1. Copied = 0 /\ Copied' = 0
    BY <1>1 DEF Copied
  <2> QED
    BY <1>1, <1>2, <2>1 DEF TxInvariant, ContentPart
<1> QED
  BY <1>3, <1>4, <1>5, <1>6 DEF TxInvariant

(* A transfer of Segment(h, t), just programmed, is the one that Transfer  *)
(* describes: nothing of it sent, its goal what the ring held.             *)
Programmed ==
    /\ head # tail /\ kick_head = head
    /\ Len(wire) = Released
    /\ addr = Segment(head, tail).from
    /\ cndtr = Segment(head, tail).len
    /\ chain_pending = Segment(head, tail).chain

Started == Transfer /\ 0 < cndtr

THEOREM ProgrammedTransfer == TypeOK /\ RingPart /\ Programmed => Started
<1> SUFFICES ASSUME TypeOK, RingPart, Programmed PROVE Started
  OBVIOUS
<1> USE DEF Programmed, Started
<1> DEFINE s == Segment(head, tail)
<1>1. head \in Counter /\ tail \in Counter /\ rb_available(head, tail) <= Capacity
  BY DEF TypeOK, RingPart, Held
<1>2. /\ s.from = Slot(tail)
      /\ s.len \in Nat /\ 0 < s.len
      /\ s.chain => 0 < head /\ head < tail /\ s.len = Word - tail
      /\ ~s.chain => s.len = rb_available(head, tail)
  BY <1>1, SegmentMeaning
<1>3. Progress = 0 /\ Goal = Held /\ Held \in Nat /\ Held # 0
  BY <1>1, AvailableCases, Quantities DEF Goal, Held
<1>4. Slot(tail) \in Nat /\ tail \in Nat /\ Word - tail \in Nat
  BY <1>1, SlotInBuffer DEF Counter, Slots
<1>5. CASE chain_pending
  BY <1>2, <1>3, <1>4, <1>5 DEF Transfer
<1>6. CASE ~chain_pending
  BY <1>2, <1>3, <1>4, <1>6 DEF Transfer, Held
<1> QED
  BY <1>5, <1>6 DEF TypeOK

(* tx_kick programs the channel with the segment it decided on.            *)
THEOREM KickProgramInvariant ==
    ASSUME TxInvariant, TypeOK', KickProgram
    PROVE  TxInvariant'
<1>1. /\ UNCHANGED <<head, tail, buffer, kick_head, idle, tcif, irq_on, n,
                    copied, segment, put, wire>>
      /\ pc = "program" /\ pc' = "unmask" /\ ~idle /\ ~en'
      /\ chain_pending' = segment.chain /\ addr' = segment.from
      /\ cndtr' = segment.len
  BY DEF KickProgram, ring, history, TxInvariant, KickPart
<1>2. Held' = Held /\ Released' = Released
  BY <1>1 DEF Held, Released
<1>3. RingPart' /\ WirePart' /\ CopyPart'
  BY <1>1, <1>2 DEF TxInvariant, RingPart, WirePart, CopyPart
<1>4. RestPart' /\ FlightPart' /\ FlushPart'
  BY <1>1 DEF RestPart, FlightPart, FlushPart
<1>5. /\ ~tcif /\ Len(wire) = Released /\ head # tail /\ kick_head = head
      /\ segment = Segment(head, tail)
  BY <1>1 DEF TxInvariant, KickPart
<1>6. Segment(head, tail)' = Segment(head, tail)
  BY <1>1 DEF Segment
<1>7. Transfer' /\ 0 < cndtr'
  <2>1. Programmed'
    BY <1>1, <1>2, <1>5, <1>6 DEF Programmed
  <2>2. Started'
    BY <1>3, <2>1, ProgrammedTransfer, PTL
  <2> QED
    BY <2>2 DEF Started
<1>8. KickPart'
  BY <1>1, <1>2, <1>5, <1>7 DEF KickPart
<1>9. ContentPart'
  <2>1. Copied = 0 /\ Copied' = 0
    BY <1>1 DEF Copied
  <2> QED
    BY <1>1, <1>2, <2>1 DEF TxInvariant, ContentPart
<1> QED
  BY <1>3, <1>4, <1>8, <1>9 DEF TxInvariant

(* tx_kick unmasks the interrupt and enables the channel.                  *)
THEOREM KickStartInvariant ==
    ASSUME TxInvariant, TypeOK', KickUnmask \/ KickEnable
    PROVE  TxInvariant'
<1>1. /\ UNCHANGED <<head, tail, buffer, kick_head, chain_pending, idle, addr,
                    cndtr, tcif, tx_busy, n, copied, segment, put, wire>>
      /\ pc \in {"unmask", "enable"} /\ pc' \in {"enable", "ready"}
      /\ pc' = "enable" => irq_on' /\ en' = en
      /\ pc' = "ready" => pc = "enable" /\ irq_on' = irq_on /\ en'
  BY DEF KickUnmask, KickEnable, ring, handle, history
<1>2. /\ Held' = Held /\ Released' = Released /\ Progress' = Progress
      /\ Goal' = Goal /\ Transfer' = Transfer
  BY <1>1 DEF Held, Released, Progress, Goal, Transfer
<1>3. /\ ~idle /\ ~tcif /\ Len(wire) = Released /\ ~en /\ cndtr > 0 /\ Transfer
      /\ pc = "enable" => irq_on
  BY <1>1 DEF TxInvariant, KickPart
<1>4. RingPart' /\ WirePart' /\ CopyPart' /\ RestPart' /\ FlushPart'
  BY <1>1, <1>2, <1>3
  DEF TxInvariant, RingPart, WirePart, CopyPart, RestPart, FlushPart
<1>5. KickPart'
  BY <1>1, <1>2, <1>3 DEF KickPart
<1>6. FlightPart'
  <2>1. cndtr # 0
    BY <1>3
  <2> QED
    BY <1>1, <1>2, <1>3, <2>1 DEF FlightPart
<1>7. ContentPart'
  <2>1. Copied = 0 /\ Copied' = 0
    BY <1>1 DEF Copied
  <2> QED
    BY <1>1, <1>2, <2>1 DEF TxInvariant, ContentPart
<1> QED
  BY <1>4, <1>5, <1>6, <1>7 DEF TxInvariant

-----------------------------------------------------------------------------
(* What a transfer covers, sent or not, is still held.                     *)
THEOREM TransferHeld ==
    ASSUME TypeOK, Transfer
    PROVE  Progress \in Nat /\ Progress + cndtr <= Held
<1>1. /\ Held \in Nat /\ Goal \in Nat /\ Progress \in Nat /\ cndtr \in Nat
      /\ Goal <= Held
  BY Quantities DEF Transfer, TypeOK
<1>2. CASE ~chain_pending
  BY <1>1, <1>2 DEF Transfer
<1>3. CASE chain_pending
  <2>1. /\ kick_head \in Counter /\ tail \in Counter
        /\ 0 < kick_head /\ kick_head < tail /\ cndtr + Progress = Word - tail
    BY <1>3 DEF Transfer, TypeOK
  <2>2. Goal = kick_head + Word - tail
    BY <2>1, AvailableCases DEF Goal, Counter
  <2> QED
    BY <1>1, <2>1, <2>2 DEF Counter
<1> QED
  BY <1>2, <1>3 DEF TypeOK

(* The channel only runs when the transfer is in flight, and it takes the  *)
(* next byte of the stream, or something from past the buffer.             *)
THEOREM DmaSends ==
    ASSUME TxInvariant, DmaByte
    PROVE  /\ ~idle /\ pc \notin {"program", "unmask", "enable"}
           /\ irq_on /\ ~tcif /\ Transfer
           /\ Progress \in Nat /\ Progress < Held
           /\ \E byte \in {Len(wire) + 1, Beyond} : wire' = Append(wire, byte)
           /\ addr < Capacity => wire' = Append(wire, Len(wire) + 1)
<1>1. en /\ cndtr > 0
  BY DEF DmaByte
<1>2. /\ TypeOK /\ cndtr \in Nat /\ addr \in Nat /\ put \in Nat
      /\ Held \in Nat /\ Released \in Int /\ Len(wire) \in Nat
      /\ Progress = Len(wire) - Released
  BY Quantities DEF TxInvariant, TypeOK
<1>3. ~idle /\ pc \notin {"program", "unmask", "enable"}
  BY <1>1, <1>2 DEF TxInvariant, RestPart, KickPart
<1>4. irq_on /\ ~tcif /\ Transfer
  BY <1>1, <1>2, <1>3 DEF TxInvariant, FlightPart
<1>5. Progress \in Nat /\ Progress < Held
  BY <1>1, <1>2, <1>4, TransferHeld
<1> DEFINE byte == IF addr < Capacity THEN buffer[addr] ELSE Beyond
<1>6. byte = IF addr < Capacity THEN Len(wire) + 1 ELSE Beyond
  <2>1. CASE addr < Capacity
    <3>1. tail \in Nat /\ Slot(tail) + Progress = addr
      BY <1>2, <1>4 DEF TypeOK, Counter, Transfer
    <3>2. Slot(tail + Progress) = addr
      BY <1>5, <2>1, <3>1, SlotAdvances
    <3>3. Progress \in 0 .. Held + Copied - 1
      <4>1. Copied \in Nat
        BY <1>2 DEF Copied, TypeOK
      <4> QED
        BY <1>2, <1>5, <4>1
    <3>4. buffer[addr] = Released + Progress + 1
      BY <3>2, <3>3 DEF TxInvariant, ContentPart
    <3> QED
      BY <1>2, <2>1, <3>4
  <2> QED
    BY <2>1
<1>7. wire' = Append(wire, byte)
  BY DEF DmaByte
<1> QED
  BY <1>3, <1>4, <1>5, <1>6, <1>7

(* The channel sends the next byte of the stream, or from past the buffer. *)
THEOREM DmaInvariant ==
    ASSUME TxInvariant, TypeOK', DmaByte
    PROVE  TxInvariant'
<1>1. /\ UNCHANGED <<head, tail, buffer, kick_head, chain_pending, idle, en,
                    irq_on, tx_busy, pc, n, copied, segment, put>>
      /\ en /\ cndtr > 0 /\ addr' = addr + 1 /\ cndtr' = cndtr - 1
      /\ tcif' = (tcif \/ cndtr = 1)
  BY DEF DmaByte, ring, handle, task
<1>2. Held' = Held /\ Released' = Released /\ Goal' = Goal /\ Copied' = Copied
  BY <1>1 DEF Held, Released, Goal, Copied
<1>3. /\ TypeOK /\ cndtr \in Nat /\ addr \in Nat /\ put \in Nat
      /\ Held \in Nat /\ Released \in Int /\ Len(wire) \in Nat
      /\ Progress = Len(wire) - Released
  BY Quantities DEF TxInvariant, TypeOK
<1>4. ~idle /\ pc \notin {"program", "unmask", "enable"}
  BY DmaSends
<1>5. irq_on /\ ~tcif /\ Transfer
  BY DmaSends
<1>6. Progress \in Nat /\ Progress < Held
  BY DmaSends
<1>7. PICK byte \in {Len(wire) + 1, Beyond} : wire' = Append(wire, byte)
  BY DmaSends
<1>8. wire \in Seq(Nat \cup {Beyond}) /\ byte \in Nat \cup {Beyond}
  BY <1>3 DEF TypeOK
<1>9. Len(wire') = Len(wire) + 1
  BY <1>7, <1>8
<1>10. WirePart'
  <2>1. SUFFICES ASSUME NEW i \in 1 .. Len(wire) + 1
                 PROVE  wire'[i] \in {i, Beyond}
    BY <1>9 DEF WirePart
  <2>2. CASE i = Len(wire) + 1
    BY <1>7, <1>8, <2>2
  <2>3. CASE i <= Len(wire)
    <3>1. wire'[i] = wire[i] /\ i \in 1 .. Len(wire)
      BY <1>3, <1>7, <1>8, <2>3
    <3> QED
      BY <3>1 DEF TxInvariant, WirePart
  <2> QED
    BY <1>3, <2>2, <2>3
<1>11. Progress' = Progress + 1
  <2>1. Progress' = Len(wire') - Released
    BY <1>2 DEF Progress
  <2> QED
    BY <1>3, <1>9, <2>1
<1>12. Transfer'
  <2>1. /\ Progress' >= 0
        /\ addr' = Slot(tail') + Progress'
    <3>1. Slot(tail) \in Nat /\ addr = Slot(tail) + Progress
      BY <1>3, <1>5, SlotInBuffer DEF TypeOK, Counter, Slots, Transfer
    <3>2. addr' = Slot(tail) + (Progress + 1)
      BY <1>1, <1>6, <3>1
    <3>3. Progress + 1 >= 0
      BY <1>6
    <3> QED
      BY <1>1, <1>11, <3>2, <3>3
  <2>2. cndtr' + Progress' = cndtr + Progress
    <3>1. (cndtr - 1) + (Progress + 1) = cndtr + Progress
      BY <1>3, <1>6
    <3> QED
      BY <1>1, <1>11, <3>1
  <2> QED
    BY <1>1, <1>2, <1>5, <2>1, <2>2 DEF Transfer
<1>13. FlightPart'
  <2>1. tcif' <=> cndtr - 1 = 0
    <3>1. CASE cndtr = 1
      <4>1. (tcif \/ cndtr = 1) = TRUE
        BY <3>1
      <4>2. tcif' = TRUE
        BY <1>1, <4>1, Zenon
      <4>3. cndtr - 1 = 0
        BY <3>1
      <4> QED
        BY <4>2, <4>3
    <3>2. CASE cndtr # 1
      <4>1. (tcif \/ cndtr = 1) = FALSE
        BY <1>5, <3>2
      <4>2. tcif' = FALSE
        BY <1>1, <4>1, Zenon
      <4>3. cndtr - 1 # 0
        BY <1>3, <3>2
      <4> QED
        BY <4>2, <4>3
    <3> QED
      BY <3>1, <3>2
  <2> QED
    BY <1>1, <1>4, <1>5, <1>12, <2>1 DEF FlightPart
<1>14. RestPart' /\ RingPart' /\ CopyPart' /\ FlushPart'
  BY <1>1, <1>2, <1>4
  DEF TxInvariant, RestPart, RingPart, CopyPart, FlushPart
<1>15. KickPart'
  BY <1>1, <1>4 DEF TxInvariant, KickPart
<1>16. ContentPart'
  BY <1>1, <1>2 DEF TxInvariant, ContentPart
<1> QED
  BY <1>10, <1>13, <1>14, <1>15, <1>16 DEF TxInvariant

-----------------------------------------------------------------------------
(* A chained transfer has its second segment to send: it stops where the   *)
(* counters wrap, and that is where the tail goes.                         *)
THEOREM ChainedTransfer ==
    ASSUME TypeOK, RingPart, Transfer, chain_pending
    PROVE  /\ SecondSegmentDue /\ Slot(kick_head) = kick_head
           /\ TailAtBufferEnd = 0 /\ Slot(0) = 0
           /\ rb_available(0, tail) = Word - tail
           /\ rb_available(kick_head, 0) = kick_head
           /\ Goal = kick_head + (Word - tail)
<1>1. /\ kick_head \in Counter /\ tail \in Counter /\ 0 \in Counter
      /\ 0 < kick_head /\ kick_head < tail
      /\ Goal <= Capacity /\ Goal \in Nat
  <2>1. Goal <= Held /\ Held <= Capacity /\ Goal \in Nat /\ Held \in Nat
    BY Quantities DEF Transfer, RingPart
  <2> QED
    BY <2>1 DEF Transfer, TypeOK, Counter
<1>2. Goal = kick_head + (Word - tail)
  BY <1>1, AvailableCases DEF Goal, Counter
<1>3. kick_head < Capacity /\ tail >= Word - Capacity
  BY <1>1, <1>2 DEF Counter
<1>4. /\ Slot(kick_head) = kick_head /\ Slot(tail) = tail - (Word - Capacity)
      /\ Slot(0) = 0
  BY <1>1, <1>3, SlotsAtWrap
<1>5. TailAtBufferEnd = 0
  <2>1. tail - Slot(tail) = Word - Capacity
    BY <1>1, <1>4 DEF Counter
  <2>2. Plus(Word - Capacity, Capacity) = 0
    <3>1. Plus(Word - Capacity, Capacity) = Word % Word
      BY DEF Plus
    <3> QED
      BY <3>1, WrapCases
  <2>3. Plus(tail - Slot(tail), Capacity) = 0
    BY <2>1, <2>2
  <2> QED
    BY <1>1, <2>3 DEF TailAtBufferEnd, Counter
<1>6. rb_available(0, tail) = Word - tail /\ rb_available(kick_head, 0) = kick_head
  BY <1>1, AvailableCases DEF Counter
<1> QED
  BY <1>1, <1>2, <1>4, <1>5, <1>6 DEF SecondSegmentDue

(* What the handler finds: a transfer that is complete, and the task       *)
(* nowhere near the channel or the end of a flush.                         *)
THEOREM AtInterrupt ==
    ASSUME TxInvariant, TxInterrupt
    PROVE  /\ ~idle /\ cndtr = 0 /\ Transfer
           /\ pc \notin {"test_empty", "kick", "mark", "program", "unmask",
                         "enable", "flush_idle", "flushed"}
           /\ chain_pending => SecondSegmentDue
           /\ Held \in Nat /\ 0 < Held /\ Goal \in Nat /\ Goal <= Held
<1>1. tcif /\ irq_on
  BY DEF TxInterrupt
<1>2. ~idle
  BY <1>1 DEF TxInvariant, RestPart
<1>3. pc \notin {"test_empty", "kick", "mark", "program", "unmask", "enable",
                "flushed"}
  BY <1>1, <1>2 DEF TxInvariant, KickPart
<1>4. cndtr = 0 /\ Transfer
  BY <1>1, <1>2, <1>3 DEF TxInvariant, FlightPart
<1>5. Held \in Nat /\ 0 < Held /\ Goal \in Nat /\ Goal <= Held
  BY <1>4, Quantities DEF TxInvariant, Transfer
<1>6. pc # "flush_idle"
  BY <1>5, AvailableCases DEF TxInvariant, FlushPart, TypeOK, Held
<1>7. chain_pending => SecondSegmentDue
  BY <1>4, ChainedTransfer DEF TxInvariant
<1> QED
  BY <1>2, <1>3, <1>4, <1>5, <1>6, <1>7

(* Moving the tail forward over d held bytes releases just those, and the  *)
(* bytes still held are found from the new tail on.                        *)
THEOREM TailMoves ==
    ASSUME TxInvariant, TypeOK', UNCHANGED <<head, buffer, pc, copied, put>>,
           NEW d \in Nat, d = rb_available(tail', tail), d <= Held
    PROVE  /\ Held' = Held - d /\ Released' = Released + d
           /\ RingPart' /\ ContentPart'
<1>1. /\ head \in Counter /\ tail \in Counter /\ tail' \in Counter
      /\ put \in Nat /\ Held \in Nat /\ Released = put - Held
      /\ Held <= Capacity /\ Held <= put
  BY Quantities DEF TxInvariant, RingPart, TypeOK
<1>2. rb_available(head, tail') = Held - d
  BY <1>1, AvailableSplits DEF Held
<1>3. Held' = Held - d
  BY <1>2 DEF Held
<1>4. Released' = Released + d
  <2>1. Released' = put - (Held - d)
    BY <1>3 DEF Released
  <2> QED
    BY <1>1, <2>1
<1>5. RingPart'
  <2>1. Held - d <= Capacity /\ Held - d <= put
    BY <1>1
  <2> QED
    BY <1>3, <2>1 DEF RingPart
<1>6. ContentPart'
  <2>1. Copied' = Copied /\ Copied \in Nat
    BY DEF Copied, TxInvariant, TypeOK
  <2>2. SUFFICES ASSUME NEW k \in 0 .. Held - d + Copied - 1
                 PROVE  buffer[Slot(tail' + k)] = Released + d + k + 1
    BY <1>3, <1>4, <2>1 DEF ContentPart
  <2>3. k \in Nat /\ d + k \in 0 .. Held + Copied - 1
    BY <1>1, <2>1
  <2>4. tail' = Plus(tail, d) /\ d <= Word
    BY <1>1, HeadFromTail
  <2>5. Slot(Plus(tail, d) + k) = Slot(tail + d + k)
    BY <1>1, <2>3, <2>4, SlotAfterPlus
  <2>6. tail + d + k = tail + (d + k)
    BY <1>1, <2>3 DEF Counter
  <2>7. buffer[Slot(tail + (d + k))] = Released + (d + k) + 1
    BY <2>3 DEF TxInvariant, ContentPart
  <2>8. Slot(tail' + k) = Slot(tail + (d + k))
    BY <2>4, <2>5, <2>6
  <2> QED
    BY <1>1, <2>3, <2>7, <2>8
<1> QED
  BY <1>3, <1>4, <1>5, <1>6

(* The handler starts the second segment: the tail goes to the wrap.       *)
THEOREM SecondSegmentInvariant ==
    ASSUME TxInvariant, TypeOK', TcSecondSegment
    PROVE  TxInvariant'
<1>1. /\ UNCHANGED <<head, buffer, kick_head, idle, pc, n, copied, segment, put,
                    wire>>
      /\ chain_pending /\ ~chain_pending' /\ ~tcif' /\ tail' = TailAtBufferEnd
      /\ en' /\ irq_on' /\ addr' = 0 /\ cndtr' = Slot(kick_head)
  BY DEF TcSecondSegment, SecondSegmentDue, StartDma, task, history
<1>2. /\ ~idle /\ Transfer /\ cndtr = 0
      /\ pc \notin {"test_empty", "kick", "mark", "program", "unmask", "enable",
                    "flush_idle", "flushed"}
      /\ Held \in Nat /\ Goal \in Nat /\ Goal <= Held
  BY AtInterrupt DEF TcSecondSegment
<1>3. /\ Slot(kick_head) = kick_head /\ tail' = 0 /\ Slot(0) = 0
      /\ rb_available(tail', tail) = Word - tail
      /\ rb_available(kick_head, 0) = kick_head
      /\ Goal = kick_head + (Word - tail)
  BY <1>1, <1>2, ChainedTransfer DEF TxInvariant
<1>4. PICK d \in Nat : d = Word - tail
  BY DEF TxInvariant, TypeOK, Counter
<1>5. /\ kick_head \in Nat /\ 0 < kick_head
      /\ Progress \in Int /\ Progress = Len(wire) - Released
      /\ Len(wire) \in Nat /\ Released \in Int
  BY <1>1, <1>2, Quantities DEF TxInvariant, TypeOK, Counter, Transfer
<1>6. Progress = d
  BY <1>1, <1>2, <1>4, <1>5 DEF Transfer
<1>7. d <= Held
  BY <1>2, <1>3, <1>4, <1>5
<1>8. Held' = Held - d /\ Released' = Released + d /\ RingPart' /\ ContentPart'
  BY <1>1, <1>3, <1>4, <1>7, TailMoves
<1>9. Transfer' /\ cndtr' # 0
  <2>1. Goal' = kick_head
    BY <1>1, <1>3 DEF Goal
  <2>2. Progress' = Len(wire) - (Released + d)
    BY <1>1, <1>8 DEF Progress
  <2>3. Progress' = 0
    BY <1>4, <1>5, <1>6, <2>2
  <2>4. kick_head <= Held - d
    BY <1>2, <1>3, <1>4, <1>5
  <2> QED
    BY <1>1, <1>3, <1>5, <1>8, <2>1, <2>3, <2>4 DEF Transfer
<1>10. FlightPart' /\ RestPart' /\ KickPart' /\ FlushPart'
  BY <1>1, <1>2, <1>9 DEF FlightPart, RestPart, KickPart, FlushPart
<1>11. CopyPart'
  <2>1. ASSUME pc \in {"copy", "publish"} PROVE n + (Held - d) <= Capacity
    BY <1>2, <2>1 DEF TxInvariant, CopyPart, TypeOK
  <2> QED
    BY <1>1, <1>8, <2>1 DEF TxInvariant, CopyPart
<1>12. WirePart'
  BY <1>1 DEF TxInvariant, WirePart
<1> QED
  BY <1>8, <1>10, <1>11, <1>12 DEF TxInvariant

(* What the other two branches share: the whole transfer is released.      *)
THEOREM TransferReleased ==
    ASSUME TxInvariant, TypeOK', TxInterrupt, ~SecondSegmentDue,
           tail' = kick_head,
           UNCHANGED <<head, buffer, pc, n, copied, put, wire>>
    PROVE  /\ Len(wire') = Released'
           /\ RingPart' /\ CopyPart' /\ ContentPart' /\ WirePart'
<1>1. /\ Transfer /\ cndtr = 0 /\ ~chain_pending
      /\ Held \in Nat /\ Goal \in Nat /\ Goal <= Held
  BY AtInterrupt
<1>2. /\ Len(wire) \in Nat /\ Released \in Int /\ Progress \in Int
      /\ Progress = Len(wire) - Released
  BY Quantities DEF TxInvariant
<1>3. Progress = Goal
  BY <1>1, <1>2 DEF Transfer
<1>4. rb_available(tail', tail) = Goal
  BY DEF Goal
<1>5. /\ Held' = Held - Goal /\ Released' = Released + Goal
      /\ RingPart' /\ ContentPart'
  BY <1>1, <1>4, TailMoves
<1>6. Len(wire') = Released'
  BY <1>1, <1>2, <1>3, <1>5
<1>7. CopyPart'
  <2>1. ASSUME pc \in {"copy", "publish"} PROVE n + (Held - Goal) <= Capacity
    BY <1>1, <2>1 DEF TxInvariant, CopyPart, TypeOK
  <2> QED
    BY <1>5, <2>1 DEF TxInvariant, CopyPart
<1>8. WirePart'
  BY DEF TxInvariant, WirePart
<1> QED
  BY <1>5, <1>6, <1>7, <1>8

(* The handler sends what was put during the transfer.                     *)
THEOREM KickAgainInvariant ==
    ASSUME TxInvariant, TypeOK', TcKickAgain
    PROVE  TxInvariant'
<1>1. /\ UNCHANGED <<head, buffer, pc, n, copied, segment, put, wire>>
      /\ TxInterrupt /\ ~SecondSegmentDue /\ tail' = kick_head
      /\ head # kick_head /\ kick_head' = head /\ ~tcif' /\ ~idle'
      /\ en' /\ irq_on'
      /\ chain_pending' = Segment(head, kick_head).chain
      /\ addr' = Segment(head, kick_head).from
      /\ cndtr' = Segment(head, kick_head).len
  BY DEF TcKickAgain, SentUpTo, StartDma, task, history
<1>2. /\ Len(wire') = Released'
      /\ RingPart' /\ CopyPart' /\ ContentPart' /\ WirePart'
  BY <1>1, TransferReleased
<1>3. pc \notin {"test_empty", "kick", "mark", "program", "unmask", "enable",
                "flush_idle", "flushed"}
  BY <1>1, AtInterrupt
<1>4. Started'
  <2>1. Segment(head, tail)' = Segment(head, kick_head)
    BY <1>1 DEF Segment
  <2>2. Programmed'
    BY <1>1, <1>2, <2>1 DEF Programmed
  <2> QED
    BY <1>2, <2>2, ProgrammedTransfer, PTL
<1>5. Transfer' /\ cndtr' # 0
  BY <1>4 DEF Started
<1>6. FlightPart' /\ RestPart' /\ KickPart' /\ FlushPart'
  BY <1>1, <1>3, <1>5 DEF FlightPart, RestPart, KickPart, FlushPart
<1> QED
  BY <1>2, <1>6 DEF TxInvariant

(* The handler goes idle: everything put has been sent.                    *)
THEOREM IdleInvariant ==
    ASSUME TxInvariant, TypeOK', TcIdle
    PROVE  TxInvariant'
<1>1. /\ UNCHANGED <<head, buffer, kick_head, en, addr, cndtr, pc, n, copied,
                    segment, put, wire>>
      /\ TxInterrupt /\ ~SecondSegmentDue /\ tail' = kick_head
      /\ head = kick_head /\ ~tcif' /\ idle' /\ ~tx_busy'
  BY DEF TcIdle, SentUpTo, task, history
<1>2. /\ Len(wire') = Released'
      /\ RingPart' /\ CopyPart' /\ ContentPart' /\ WirePart'
  BY <1>1, TransferReleased
<1>3. /\ pc \notin {"test_empty", "kick", "mark", "program", "unmask", "enable",
                    "flush_idle", "flushed"}
      /\ cndtr = 0
  BY <1>1, AtInterrupt
<1>4. FlightPart' /\ RestPart' /\ KickPart' /\ FlushPart'
  BY <1>1, <1>2, <1>3 DEF FlightPart, RestPart, KickPart, FlushPart
<1> QED
  BY <1>2, <1>4 DEF TxInvariant

-----------------------------------------------------------------------------
(* Every step of the task, the handler and the channel keeps the invariant *)
(* that relates the ring, the handle and the channel.                      *)
THEOREM StepInvariant == TxInvariant /\ [Next]_vars => TxInvariant'
<1> SUFFICES ASSUME TxInvariant, [Next]_vars PROVE TxInvariant'
  OBVIOUS
<1>1. TypeOK'
  BY TypeStep DEF TxInvariant
<1>2. ASSUME NEW len \in 1 .. MaxLen, uart_dma_send(len) PROVE TxInvariant'
  BY <1>1, <1>2, SendInvariant
<1>3. CASE CopyByte
  BY <1>1, <1>3, CopyInvariant
<1>4. CASE Publish
  BY <1>1, <1>4, PublishInvariant
<1>5. CASE PcStep
  BY <1>1, <1>5, PcStepInvariant
<1>6. CASE KickRead
  BY <1>1, <1>6, KickReadInvariant
<1>7. CASE KickMark
  BY <1>1, <1>7, KickMarkInvariant
<1>8. CASE KickProgram
  BY <1>1, <1>8, KickProgramInvariant
<1>9. CASE KickUnmask \/ KickEnable
  BY <1>1, <1>9, KickStartInvariant
<1>10. CASE DmaByte
  BY <1>1, <1>10, DmaInvariant
<1>11. CASE TcSecondSegment
  BY <1>1, <1>11, SecondSegmentInvariant
<1>12. CASE TcKickAgain
  BY <1>1, <1>12, KickAgainInvariant
<1>13. CASE TcIdle
  BY <1>1, <1>13, IdleInvariant
<1>14. CASE UNCHANGED vars
  <2>1. UNCHANGED <<head, tail, buffer, kick_head, chain_pending, idle, en,
                    addr, cndtr, tcif, irq_on, tx_busy, pc, n, copied, segment,
                    put, wire>>
    BY <1>14 DEF vars, ring, handle, channel, task, history
  <2>2. /\ Held' = Held /\ Released' = Released /\ Progress' = Progress
        /\ Goal' = Goal /\ Copied' = Copied /\ Transfer' = Transfer
    BY <2>1 DEF Held, Released, Progress, Goal, Copied, Transfer
  <2>3. RingPart' /\ CopyPart' /\ RestPart' /\ FlushPart' /\ FlightPart'
    BY <2>1, <2>2 DEF TxInvariant, RingPart, CopyPart, RestPart, FlushPart,
                      FlightPart, Sending
  <2>4. ContentPart' /\ WirePart'
    BY <2>1, <2>2 DEF TxInvariant, ContentPart, WirePart
  <2>5. Segment(head, tail)' = Segment(head, tail)
    BY <2>1 DEF Segment
  <2>6. KickPart'
    BY <2>1, <2>2, <2>5 DEF TxInvariant, KickPart
  <2> QED
    BY <1>1, <2>3, <2>4, <2>6 DEF TxInvariant
<1> QED
  BY <1>2, <1>3, <1>4, <1>5, <1>6, <1>7, <1>8, <1>9, <1>10, <1>11, <1>12,
     <1>13, <1>14
  DEF Next, Kick, PcStep, on_tx_tc

(* InvariantHolds: in every behaviour, for every ring and every bound.     *)
THEOREM InvariantHolds == Spec => []TxInvariant
BY InitInvariant, StepInvariant, PTL DEF Spec

-----------------------------------------------------------------------------
(* NoStranded, IdleMeansSent, FlushMeansSent, RoomIsSent and               *)
(* CopyClearOfDma follow from the invariant.                               *)
THEOREM NoneStranded == Spec => []NoStranded
<1>1. ASSUME TxInvariant PROVE NoStranded
  BY <1>1 DEF TxInvariant, TypeOK, NoStranded, RestPart, FlightPart, InFlight,
              Sending
<1> QED
  BY <1>1, InvariantHolds, PTL

(* An idle handle, read outside uart_dma_send, has sent everything.        *)
THEOREM IdleSent == TxInvariant => IdleMeansSent
<1> SUFFICES ASSUME TxInvariant, idle, ~Sending
             PROVE  /\ rb_is_empty(head, tail) /\ Len(wire) = put
                    /\ cndtr = 0 /\ ~tcif /\ ~tx_busy
  BY DEF IdleMeansSent
<1>1. head = tail /\ Len(wire) = Released /\ cndtr = 0 /\ ~tcif /\ ~tx_busy
  BY DEF TxInvariant, RestPart
<1>2. Held = 0 /\ put \in Nat
  BY <1>1, AvailableCases DEF TxInvariant, TypeOK, Held
<1> QED
  BY <1>1, <1>2 DEF Released, rb_is_empty

(* IdleMeansSent: uart_dma_tx_busy tells the truth.                        *)
THEOREM IdleIsSent == Spec => []IdleMeansSent
BY IdleSent, InvariantHolds, PTL

(* FlushMeansSent: uart_dma_tx_flush returns true only when all is sent.   *)
THEOREM FlushIsSent == Spec => []FlushMeansSent
<1>1. ASSUME TxInvariant PROVE FlushMeansSent
  BY <1>1, IdleSent
  DEF TxInvariant, FlushMeansSent, KickPart, IdleMeansSent, Sending
<1> QED
  BY <1>1, InvariantHolds, PTL

(* Whatever the handler and the task are doing, what is released is sent   *)
(* and what is sent was put.                                               *)
THEOREM SentBetween ==
    ASSUME TxInvariant
    PROVE  Released <= Len(wire) /\ Len(wire) <= put
<1>1. /\ Held \in Nat /\ Len(wire) \in Nat /\ put \in Nat /\ cndtr \in Nat
      /\ Released \in Int /\ Released = put - Held
      /\ Progress = Len(wire) - Released
  BY Quantities DEF TxInvariant, TypeOK
<1>2. CASE Len(wire) = Released
  BY <1>1, <1>2
<1>3. CASE Len(wire) # Released
  <2>1. Transfer
    BY <1>3 DEF TxInvariant, RestPart, KickPart, FlightPart
  <2>2. Progress \in Nat /\ Progress + cndtr <= Held
    BY <2>1, TransferHeld DEF TxInvariant
  <2> QED
    BY <1>1, <2>2
<1> QED
  BY <1>2, <1>3

(* RoomIsSent: no slot is offered to rb_put before the DMA has read it.    *)
THEOREM RoomIsAlwaysSent == Spec => []RoomIsSent
<1>1. ASSUME TxInvariant PROVE RoomIsSent
  BY <1>1, SentBetween DEF RoomIsSent, Released, Held
<1> QED
  BY <1>1, InvariantHolds, PTL

(* CopyClearOfDma: rb_put never writes a slot the DMA has yet to read.     *)
THEOREM CopyIsClearOfDma == Spec => []CopyClearOfDma
<1>1. ASSUME TxInvariant PROVE CopyClearOfDma
  <2> SUFFICES ASSUME pc = "copy", NEW k \in copied .. n - 1,
                      Slot(head + k) \in addr .. addr + cndtr - 1
               PROVE  FALSE
    BY DEF CopyClearOfDma
  <2>1. /\ head \in Counter /\ tail \in Counter /\ tail \in Nat
        /\ copied \in Nat /\ n \in Nat /\ k \in Nat /\ addr \in Nat
        /\ cndtr \in Nat /\ Held \in Nat
    BY <1>1, Quantities DEF TxInvariant, TypeOK, Counter
  <2>2. k < n /\ n + Held <= Capacity /\ 0 < cndtr
    BY <1>1, <2>1 DEF TxInvariant, CopyPart
  <2>3. Transfer
    BY <1>1, <2>2 DEF TxInvariant, RestPart, FlightPart
  <2>4. Progress \in Nat /\ Progress + cndtr <= Held
    BY <1>1, <2>3, TransferHeld DEF TxInvariant
  <2>5. Slot(tail) \in Nat /\ addr = Slot(tail) + Progress
    BY <2>1, <2>3, SlotInBuffer DEF Transfer, Slots
  <2>6. Slot(head + k) \in Nat /\ Slot(head + k) < Capacity
    <3>1. head + k \in Nat
      BY <2>1 DEF Counter
    <3> QED
      BY <3>1, SlotInBuffer DEF Slots
  <2>7. PICK j \in Nat : Slot(head + k) = Slot(tail) + j
    <3>1. addr <= Slot(head + k)
      BY <2>1, <2>6
    <3>2. Slot(head + k) - Slot(tail) \in Nat
      BY <2>4, <2>5, <2>6, <3>1
    <3>3. Slot(head + k) = Slot(tail) + (Slot(head + k) - Slot(tail))
      BY <2>5, <2>6
    <3> QED
      BY <3>2, <3>3
  <2>8. j < Held
    BY <2>1, <2>4, <2>5, <2>6, <2>7
  <2>9. Slot(tail + j) = Slot(head + k)
    BY <2>1, <2>6, <2>7, SlotAdvances
  <2>10. Slot(head + k) = Slot(tail + Held + k)
    <3>1. head = Plus(tail, Held) /\ Held <= Word
      BY <2>1, <2>2, HeadFromTail DEF Held
    <3> QED
      BY <2>1, <3>1, SlotAfterPlus
  <2>11. PICK d \in Nat : d = Held + k - j
    BY <2>1, <2>8
  <2>12. 0 < d /\ d < Capacity /\ tail + j \in Nat
    BY <2>1, <2>2, <2>8, <2>11
  <2>13. Slot((tail + j) + d) # Slot(tail + j)
    BY <2>12, SlotsDistinct
  <2>14. (tail + j) + d = tail + Held + k
    BY <2>1, <2>11
  <2> QED
    BY <2>9, <2>10, <2>13, <2>14
<1> QED
  BY <1>1, InvariantHolds, PTL

-----------------------------------------------------------------------------
(* ReprogrammedWhenDrained: neither the task nor the handler touches a     *)
(* transfer under way.                                                     *)
THEOREM NeverReprogrammed == Spec => ReprogrammedWhenDrained
<1>1. ASSUME TxInvariant, [Next]_vars
      PROVE  [DmaByte \/ UNCHANGED <<addr, cndtr>> \/ cndtr = 0]_vars
  <2>1. CASE TcSecondSegment \/ TcKickAgain
    BY <1>1, <2>1, AtInterrupt DEF TcSecondSegment, TcKickAgain
  <2>2. CASE KickProgram
    BY <1>1, <2>2 DEF KickProgram, TxInvariant, KickPart
  <2>3. CASE TcIdle
    BY <2>3 DEF TcIdle
  <2>4. CASE PcStep
    BY <2>4 DEF PcStep, TestIdle, TestEmpty, uart_dma_tx_flush, Flush,
                FlushTestEmpty, FlushTestIdle, FlushWake, FlushReturn,
                FlushTimeout, channel
  <2>5. CASE CopyByte \/ Publish \/ KickRead \/ KickMark \/ KickUnmask
             \/ KickEnable
    BY <2>5 DEF CopyByte, Publish, KickRead, KickMark, KickUnmask, KickEnable,
                channel
  <2>6. ASSUME NEW len \in 1 .. MaxLen, uart_dma_send(len)
        PROVE  UNCHANGED <<addr, cndtr>>
    BY <2>6 DEF uart_dma_send, channel
  <2> QED
    BY <1>1, <2>1, <2>2, <2>3, <2>4, <2>5, <2>6
    DEF Next, Kick, PcStep, on_tx_tc
<1> QED
  BY <1>1, InvariantHolds, PTL DEF Spec, ReprogrammedWhenDrained

-----------------------------------------------------------------------------
(* A step of the driver is a step of the stream or leaves it alone: only   *)
(* Publish accepts and only the channel transmits.                         *)
THEOREM StreamStep ==
    ASSUME TxInvariant, [Next]_vars
    PROVE  [Stream!Next]_(Stream!vars)
<1>1. CASE Publish
  <2>1. /\ n \in Nat /\ 0 < n /\ n + Held <= Capacity /\ n + put <= MaxBytes
        /\ Held \in Nat /\ put \in Nat /\ Len(wire) \in Nat
    BY <1>1, Quantities DEF Publish, TxInvariant, CopyPart, TypeOK
  <2>2. put - Held <= Len(wire)
    BY SentBetween DEF Released
  <2>3. n \in 1 .. MaxBytes /\ put + n - Len(wire) <= Capacity
    BY <2>1, <2>2
  <2>4. put' = put + n /\ wire' = wire
    BY <1>1 DEF Publish
  <2>5. Stream!Accept(n)
    BY <2>3, <2>4 DEF Stream!Accept
  <2> QED
    BY <2>3, <2>5 DEF Stream!Next
<1>2. CASE DmaByte
  <2>1. /\ Progress < Held
        /\ \E byte \in {Len(wire) + 1, Beyond} : wire' = Append(wire, byte)
    BY <1>2, DmaSends
  <2>2. Len(wire) < put /\ put' = put
    BY <1>2, <2>1, Quantities DEF TxInvariant, TypeOK, DmaByte
  <2>3. Stream!Send
    BY <2>1, <2>2 DEF Stream!Send
  <2> QED
    BY <2>3 DEF Stream!Next
<1>3. CASE PcStep
  BY <1>3 DEF PcStep, TestIdle, TestEmpty, uart_dma_tx_flush, Flush,
              FlushTestEmpty, FlushTestIdle, FlushWake, FlushReturn,
              FlushTimeout, history, Stream!vars
<1>4. CASE CopyByte \/ Kick
  BY <1>4 DEF CopyByte, Kick, KickRead, KickMark, KickProgram, KickUnmask,
              KickEnable, history, Stream!vars
<1>5. CASE on_tx_tc
  BY <1>5 DEF on_tx_tc, TcSecondSegment, TcKickAgain, TcIdle, history,
              Stream!vars
<1>6. ASSUME NEW len \in 1 .. MaxLen, uart_dma_send(len)
      PROVE  UNCHANGED <<put, wire>>
  BY <1>6 DEF uart_dma_send, history
<1>7. CASE UNCHANGED vars
  BY <1>7 DEF vars, history, Stream!vars
<1> QED
  BY <1>1, <1>2, <1>3, <1>4, <1>5, <1>6, <1>7 DEF Next, PcStep, Stream!vars

(* ImplementsStream: the transmit path is the stream of ByteStream, for    *)
(* every ring and every number of bytes.                                   *)
THEOREM ImplementsByteStream == Spec => ImplementsStream
<1>1. Init => Stream!Init
  BY DEF Init, Stream!Init
<1>2. TxInvariant /\ [Next]_vars => [Stream!Next]_(Stream!vars)
  BY StreamStep
<1> QED
  BY <1>1, <1>2, InvariantHolds, PTL DEF Spec, ImplementsStream, Stream!Spec

-----------------------------------------------------------------------------
(* The bytes in the ring lie before the buffer's end.                      *)
Straight == Slot(tail) + Held <= Capacity

(* Only for bytes that go round the buffer's end does a transfer read past *)
(* it, whatever the counters are and whatever else is put meanwhile.       *)
THEOREM InsideUnlessRound == Spec => [](Straight => InsideBuffer)
<1>1. ASSUME TxInvariant, Straight PROVE InsideBuffer
  <2> SUFFICES ASSUME en, cndtr > 0 PROVE addr + cndtr <= Capacity
    BY DEF InsideBuffer
  <2>1. /\ TypeOK /\ cndtr \in Nat /\ addr \in Nat
        /\ Held \in Nat /\ Progress \in Int
    BY <1>1, Quantities DEF TxInvariant, TypeOK
  <2>2. Transfer
    <3>1. ~idle /\ pc \notin {"program", "unmask", "enable"}
      BY <1>1, <2>1 DEF TxInvariant, RestPart, KickPart
    <3> QED
      BY <1>1, <3>1 DEF TxInvariant, FlightPart
  <2>3. Progress + cndtr <= Held /\ addr = Slot(tail) + Progress
    BY <2>1, <2>2, TransferHeld DEF Transfer
  <2>4. Slot(tail) \in Nat
    <3>1. tail \in Nat
      BY <2>1 DEF TypeOK, Counter
    <3> QED
      BY <3>1, SlotInBuffer DEF Slots
  <2>5. Capacity \in Nat
    BY Constants
  <2> QED
    BY <1>1, <2>1, <2>3, <2>4, <2>5 DEF Straight
<1> QED
  BY <1>1, InvariantHolds, PTL

(* A sender whose bytes never go round the buffer's end has each of them   *)
(* sent as it is: what is sent in the place of others comes from there.    *)
THEOREM RightUnlessRound ==
    Spec /\ []Straight => [](\A i \in 1 .. Len(wire) : wire[i] = i)
<1> DEFINE Right == \A i \in 1 .. Len(wire) : wire[i] = i
<1>1. Init => Right
  BY DEF Init
<1>2. TxInvariant /\ InsideBuffer /\ Right /\ [Next]_vars => Right'
  <2> SUFFICES ASSUME TxInvariant, InsideBuffer, Right, [Next]_vars PROVE Right'
    OBVIOUS
  <2>1. CASE DmaByte
    <3>1. addr < Capacity
      <4>1. en /\ cndtr > 0 /\ addr + cndtr <= Capacity
        BY <2>1 DEF DmaByte, InsideBuffer
      <4>2. addr \in Nat /\ cndtr \in Nat
        BY DEF TxInvariant, TypeOK
      <4>3. Capacity \in Nat
        BY Constants
      <4> QED
        BY <4>1, <4>2, <4>3
    <3>2. wire' = Append(wire, Len(wire) + 1)
      BY <2>1, <3>1, DmaSends
    <3>3. wire \in Seq(Nat \cup {Beyond})
      BY DEF TxInvariant, TypeOK
    <3>4. /\ Len(wire) \in Nat /\ Len(wire') = Len(wire) + 1
          /\ \A i \in 1 .. Len(wire) : wire'[i] = wire[i]
          /\ wire'[Len(wire) + 1] = Len(wire) + 1
      BY <3>2, <3>3
    <3> QED
      BY <3>4
  <2>2. CASE ~DmaByte
    <3>1. wire' = wire
      BY <2>2 DEF Next, uart_dma_send, CopyByte, Publish, TestIdle, TestEmpty,
            Kick, KickRead, KickMark, KickProgram, KickUnmask, KickEnable,
            uart_dma_tx_flush, Flush, FlushTestEmpty, FlushTestIdle, FlushWake,
            FlushReturn, FlushTimeout, on_tx_tc, TcSecondSegment, TcKickAgain,
            TcIdle, history, vars
    <3> QED
      BY <3>1
  <2> QED
    BY <2>1, <2>2
<1> QED
  BY <1>1, <1>2, InsideUnlessRound, InvariantHolds, PTL DEF Spec
=============================================================================
