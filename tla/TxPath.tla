------------------------------- MODULE TxPath -------------------------------
(***************************************************************************)
(* The transmit path of one UART port: uart_dma_send, tx_kick and          *)
(* uart_dma_tx_flush of src/Framework/uart_dma.c run by a task, the        *)
(* transfer-complete interrupt (uart_port_dma_tx_irq_handler and on_tx_tc) *)
(* that may come between any two of the task's accesses to shared memory,  *)
(* and the DMA channel, which moves a byte of the ring to the USART        *)
(* whenever it is enabled.                                                 *)
(*                                                                         *)
(* uart_api.c calls the driver with the port's transmit mutex held, so one *)
(* task at a time is inside; it is the single producer of the ring.        *)
(* Interrupts are not masked and do not nest in one another (they share a  *)
(* priority): the handler is one step.  It may come late, after further    *)
(* steps of the task: more behaviours than the chip has, never fewer.      *)
(*                                                                         *)
(* A byte is named by its place in the stream of accepted bytes: the k-th  *)
(* byte ever put is the number k, so that a byte lost, repeated, stale or  *)
(* out of order on the wire shows.                                         *)
(***************************************************************************)
EXTENDS Ring, Kernel

CONSTANTS MaxLen,              \* longest length handed to uart_dma_send
          MaxBytes,            \* bound: bytes accepted in a behaviour
          Beyond,              \* what lies in memory after the ring's buffer
          TxTaskSet            \* whether uart_dma_open found a current task

ASSUME TxPathAssumption == /\ MaxLen \in Nat \ {0}
                           /\ MaxBytes \in Nat
                           /\ Beyond \notin Nat
                           /\ TxTaskSet \in BOOLEAN

VARIABLES
    head, tail, buffer,                 \* h->tx_rb
    kick_head, chain_pending, idle,     \* the rest of the handle
    en, addr, cndtr, tcif,              \* DMA channel: CCR.EN, next slot,
                                        \*   CNDTR, transfer-complete flag
    irq_on,                             \* NVIC enable of the channel's irq
    tx_busy,                            \* g_port[p].tx_busy
    halted,                             \* stopped in a configASSERT
    pc, n, copied, segment,             \* the task and its locals
    put, wire                           \* history: bytes accepted, sent

ring    == <<head, tail, buffer>>
handle  == <<kick_head, chain_pending, idle>>
channel == <<en, addr, cndtr, tcif, irq_on, tx_busy>>
task    == <<pc, n, copied, segment>>
history == <<put, wire>>
vars    == <<ring, handle, channel, halted, task, history>>

Segments == [from : Slots, len : 1 .. Word, chain : BOOLEAN]

NoSegment == [from |-> 0, len |-> 1, chain |-> FALSE]

(* uart_dma_open and uart_port_init, before the first send. *)
Init == /\ head = 0 /\ tail = 0 /\ buffer = [s \in Slots |-> 0]
        /\ kick_head = 0 /\ chain_pending = FALSE /\ idle = TRUE
        /\ en = FALSE /\ addr = 0 /\ cndtr = 0 /\ tcif = FALSE
        /\ irq_on = FALSE /\ tx_busy = FALSE
        /\ halted = FALSE
        /\ pc = "ready" /\ n = 0 /\ copied = 0 /\ segment = NoSegment
        /\ put = 0 /\ wire = <<>>

-----------------------------------------------------------------------------
(* What tx_kick sends, given the counters it read: up to the head, or up   *)
(* to the end of the buffer and the rest chained, told apart by comparing  *)
(* the counters (not the slots).                                           *)
Segment_NoChain(h, t) ==     \* mutant: the second segment is forgotten
    [from |-> Slot(t), chain |-> FALSE,
     len  |-> IF t < h THEN h - t ELSE Capacity - Slot(t)]

Segment(h, t) ==
    IF t < h
    THEN [from |-> Slot(t), len |-> h - t, chain |-> FALSE]
    ELSE [from |-> Slot(t), len |-> Capacity - Slot(t), chain |-> Slot(h) > 0]

(* uart_port_dma_tx_start, when nothing can come in between. *)
StartDma(from, len) ==
    /\ en' = TRUE /\ addr' = from /\ cndtr' = len
    /\ tx_busy' = TRUE /\ irq_on' = TRUE

-----------------------------------------------------------------------------
(* The task: uart_dma_send.  rb_put reads the free space ...               *)
uart_dma_send(len) ==
    /\ ~halted /\ pc = "ready"
    /\ put + len <= MaxBytes
    /\ n' = Least(len, rb_free_space(head, tail))
    /\ copied' = 0
    /\ pc' = IF n' = 0 THEN "test_idle" ELSE "copy"
    /\ UNCHANGED <<ring, handle, channel, halted, segment, history>>

(* ... copies byte after byte into the free slots ...                      *)
CopyByte ==
    /\ ~halted /\ pc = "copy"
    /\ buffer' = [buffer EXCEPT ![Slot(head + copied)] = put + copied + 1]
    /\ copied' = copied + 1
    /\ pc' = IF copied' = n THEN "publish" ELSE "copy"
    /\ UNCHANGED <<head, tail, handle, channel, halted, n, segment, history>>

(* ... and publishes them.                                                 *)
Publish ==
    /\ ~halted /\ pc = "publish"
    /\ head' = Plus(head, n)
    /\ put' = put + n
    /\ pc' = "test_idle"
    /\ UNCHANGED <<tail, buffer, handle, channel, halted, n, copied, segment,
                   wire>>

(* if (h->idle && !rb_is_empty(&h->tx_rb)) tx_kick(h);                     *)
TestIdle_Always ==           \* mutant: kick whether or not the DMA is busy
    /\ ~halted /\ pc = "test_idle"
    /\ pc' = "test_empty"
    /\ UNCHANGED <<ring, handle, channel, halted, n, copied, segment, history>>

TestIdle ==
    /\ ~halted /\ pc = "test_idle"
    /\ pc' = IF idle THEN "test_empty" ELSE "ready"
    /\ UNCHANGED <<ring, handle, channel, halted, n, copied, segment, history>>

TestEmpty ==
    /\ ~halted /\ pc = "test_empty"
    /\ pc' = IF rb_is_empty(head, tail) THEN "ready" ELSE "kick"
    /\ UNCHANGED <<ring, handle, channel, halted, n, copied, segment, history>>

(* tx_kick, called by the task: read the counters and note the goal, ...   *)
KickRead ==
    /\ ~halted /\ pc = "kick"
    /\ IF rb_is_empty(head, tail)
       THEN /\ idle' = TRUE
            /\ pc' = "ready"
            /\ UNCHANGED <<kick_head, segment>>
       ELSE /\ kick_head' = head
            /\ segment' = Segment(head, tail)
            /\ pc' = "mark"
            /\ UNCHANGED idle
    /\ UNCHANGED <<ring, chain_pending, channel, halted, n, copied, history>>

(* ... h->idle = false, ...                                                *)
KickMark_Forgotten ==        \* mutant: h->idle stays true during a transfer
    /\ ~halted /\ pc = "mark"
    /\ pc' = "program"
    /\ UNCHANGED <<ring, handle, channel, halted, n, copied, segment, history>>

KickMark ==
    /\ ~halted /\ pc = "mark"
    /\ idle' = FALSE
    /\ pc' = "program"
    /\ UNCHANGED <<ring, kick_head, chain_pending, channel, halted, n, copied,
                   segment, history>>

(* ... disable and reprogram the channel, ...                              *)
KickProgram ==
    /\ ~halted /\ pc = "program"
    /\ chain_pending' = segment.chain
    /\ en' = FALSE
    /\ addr' = segment.from
    /\ cndtr' = segment.len
    /\ tx_busy' = TRUE
    /\ pc' = "unmask"
    /\ UNCHANGED <<ring, kick_head, idle, tcif, irq_on, halted, n, copied,
                   segment, history>>

(* ... HAL_NVIC_EnableIRQ, ...                                             *)
KickUnmask ==
    /\ ~halted /\ pc = "unmask"
    /\ irq_on' = TRUE
    /\ pc' = "enable"
    /\ UNCHANGED <<ring, handle, en, addr, cndtr, tcif, tx_busy, halted, n,
                   copied, segment, history>>

(* ... and set CCR.EN.                                                     *)
KickEnable ==
    /\ ~halted /\ pc = "enable"
    /\ en' = TRUE
    /\ pc' = "ready"
    /\ UNCHANGED <<ring, handle, addr, cndtr, tcif, irq_on, tx_busy, halted, n,
                   copied, segment, history>>

Kick == KickRead \/ KickMark \/ KickProgram \/ KickUnmask \/ KickEnable

(* uart_dma_tx_flush: while (!rb_is_empty(..) || !h->idle) wait.           *)
uart_dma_tx_flush ==
    /\ ~halted /\ pc = "ready"
    /\ pc' = "flush_empty"
    /\ UNCHANGED <<ring, handle, channel, halted, n, copied, segment, history>>

FlushTestEmpty ==
    /\ ~halted /\ pc = "flush_empty"
    /\ pc' = IF rb_is_empty(head, tail) THEN "flush_idle" ELSE "wait"
    /\ UNCHANGED <<ring, handle, channel, halted, n, copied, segment, history>>

FlushTestIdle ==
    /\ ~halted /\ pc = "flush_idle"
    /\ pc' = IF idle THEN "flushed" ELSE "wait"
    /\ UNCHANGED <<ring, handle, channel, halted, n, copied, segment, history>>

(* ulTaskNotifyTake returns at the latest after ten ticks.                 *)
FlushWake ==
    /\ ~halted /\ pc = "wait"
    /\ pc' = "flush_empty"
    /\ UNCHANGED <<ring, handle, channel, halted, n, copied, segment, history>>

(* The caller's timeout has passed: return false.                          *)
FlushTimeout ==
    /\ ~halted /\ pc = "wait"
    /\ pc' = "ready"
    /\ UNCHANGED <<ring, handle, channel, halted, n, copied, segment, history>>

(* Return true.                                                            *)
FlushReturn ==
    /\ ~halted /\ pc = "flushed"
    /\ pc' = "ready"
    /\ UNCHANGED <<ring, handle, channel, halted, n, copied, segment, history>>

Flush == FlushTestEmpty \/ FlushTestIdle \/ FlushWake \/ FlushReturn

-----------------------------------------------------------------------------
(* The DMA channel hands the next byte to the USART; it knows nothing of   *)
(* where the ring ends.                                                    *)
DmaByte ==
    /\ en /\ cndtr > 0
    /\ wire' = Append(wire, IF addr < Capacity THEN buffer[addr] ELSE Beyond)
    /\ addr' = addr + 1
    /\ cndtr' = cndtr - 1
    /\ tcif' = (tcif \/ cndtr = 1)
    /\ UNCHANGED <<ring, handle, en, irq_on, tx_busy, halted, task, put>>

-----------------------------------------------------------------------------
(* The transfer-complete interrupt: the flag is cleared and the irq masked *)
(* by the port, then on_tx_tc continues in one of three ways.              *)
TxInterrupt == ~halted /\ irq_on /\ tcif

(* on_tx_tc, the second segment of a chained transfer: ...                 *)
SecondSegmentDue == chain_pending /\ Slot(kick_head) > 0

(* ... the counter goes on to the next multiple of Capacity.               *)
TailAtBufferEnd_All == kick_head   \* mutant: releases the second segment too

TailAtBufferEnd ==
    LET end == Plus(tail - Slot(tail), Capacity)
    IN  IF end > kick_head THEN kick_head ELSE end

TcSecondSegment ==
    /\ TxInterrupt /\ SecondSegmentDue
    /\ tcif' = FALSE
    /\ chain_pending' = FALSE
    /\ tail' = TailAtBufferEnd
    /\ StartDma(0, Slot(kick_head))
    /\ UNCHANGED <<head, buffer, kick_head, idle, halted, task, history>>

(* h->tx_rb.tail = h->kick_head: what the finished transfer has sent.      *)
SentUpTo_Head == head        \* mutant: releases bytes put during the transfer

SentUpTo == kick_head

(* on_tx_tc, more was put meanwhile: release what was sent, tx_kick again. *)
TcKickAgain ==
    /\ TxInterrupt /\ ~SecondSegmentDue
    /\ head # SentUpTo
    /\ tcif' = FALSE
    /\ tail' = SentUpTo
    /\ kick_head' = head
    /\ idle' = FALSE
    /\ LET next == Segment(head, SentUpTo)
       IN  /\ chain_pending' = next.chain
           /\ StartDma(next.from, next.len)
    /\ UNCHANGED <<head, buffer, halted, task, history>>

(* if (h->tx_task) vTaskNotifyGiveFromISR(h->tx_task, &woken).  The        *)
(* wake-up it gives is not state here: the only wait, in                   *)
(* uart_dma_tx_flush, may end at any moment.                               *)
GiveHalts == TxTaskSet /\ GiveFromISRHalts

(* on_tx_tc, all sent: release, go idle, tell the task that opened.        *)
TcIdle_NoRecheck ==          \* mutant: goes idle without looking at the head
    /\ TxInterrupt /\ ~SecondSegmentDue
    /\ tcif' = FALSE
    /\ tail' = SentUpTo
    /\ chain_pending' = FALSE
    /\ idle' = TRUE
    /\ tx_busy' = FALSE
    /\ irq_on' = FALSE
    /\ halted' = GiveHalts
    /\ UNCHANGED <<head, buffer, kick_head, en, addr, cndtr, task, history>>

TcIdle_StaysBusy ==          \* mutant: h->idle = true is forgotten
    /\ TxInterrupt /\ ~SecondSegmentDue
    /\ head = SentUpTo
    /\ tcif' = FALSE
    /\ tail' = SentUpTo
    /\ chain_pending' = FALSE
    /\ tx_busy' = FALSE
    /\ irq_on' = FALSE
    /\ halted' = GiveHalts
    /\ UNCHANGED <<head, buffer, kick_head, idle, en, addr, cndtr, task, history>>

TcIdle ==
    /\ TxInterrupt /\ ~SecondSegmentDue
    /\ head = SentUpTo
    /\ tcif' = FALSE
    /\ tail' = SentUpTo
    /\ chain_pending' = FALSE
    /\ idle' = TRUE
    /\ tx_busy' = FALSE
    /\ irq_on' = FALSE
    /\ halted' = GiveHalts
    /\ UNCHANGED <<head, buffer, kick_head, en, addr, cndtr, task, history>>

on_tx_tc == TcSecondSegment \/ TcKickAgain \/ TcIdle

-----------------------------------------------------------------------------
Next == \/ \E len \in 1 .. MaxLen : uart_dma_send(len)
        \/ CopyByte \/ Publish \/ TestIdle \/ TestEmpty \/ Kick
        \/ uart_dma_tx_flush \/ Flush \/ FlushTimeout
        \/ DmaByte
        \/ on_tx_tc

Spec == Init /\ [][Next]_vars

(* The channel makes progress while it is enabled, an enabled and pending  *)
(* interrupt is taken, a task inside the driver runs on, and a wait of ten *)
(* ticks ends.  Nothing makes a task call the driver, and no timeout has   *)
(* to strike.                                                              *)
FairSpec == /\ Spec
            /\ WF_vars(DmaByte)
            /\ WF_vars(on_tx_tc)
            /\ WF_vars(CopyByte \/ Publish \/ TestIdle \/ TestEmpty \/ Kick)
            /\ WF_vars(Flush)

-----------------------------------------------------------------------------
(* TypeOK: counters stay uint32_t values, the channel is never programmed  *)
(* with a start outside the buffer, and the locals fit the ring.           *)
TypeOK ==
    /\ head \in Counter /\ tail \in Counter /\ kick_head \in Counter
    /\ buffer \in [Slots -> Nat]
    /\ chain_pending \in BOOLEAN /\ idle \in BOOLEAN
    /\ en \in BOOLEAN /\ addr \in Nat /\ cndtr \in Nat
    /\ tcif \in BOOLEAN /\ irq_on \in BOOLEAN /\ tx_busy \in BOOLEAN
    /\ halted \in BOOLEAN
    /\ pc \in {"ready", "copy", "publish", "test_idle", "test_empty", "kick",
               "mark", "program", "unmask", "enable", "flush_empty",
               "flush_idle", "wait", "flushed"}
    /\ n \in Nat /\ copied \in Nat
    /\ segment \in Segments
    /\ put \in Nat
    /\ wire \in Seq(Nat \cup {Beyond})

(* A transfer is under way, or its end is about to be handled.             *)
InFlight == irq_on /\ (tcif \/ (en /\ cndtr > 0))

(* The task is between publishing bytes and having dealt with them.        *)
Sending == pc \in {"test_idle", "test_empty", "kick", "mark", "program",
                  "unmask", "enable"}

(* NoStranded: whenever the task is outside uart_dma_send, bytes in the    *)
(* ring are being sent.  Nobody would start them: the next kick is the     *)
(* next send's or the next interrupt's.  The race is between rb_put, the   *)
(* test of h->idle (uart_dma.c:94-95) and the handler's test of the head   *)
(* before it goes idle (uart_dma.c:140-143).                               *)
NoStranded == (head # tail /\ ~Sending) => InFlight

(* IdleMeansSent: h->idle read by a task outside uart_dma_send (what       *)
(* uart_dma_tx_busy reports) means that every byte accepted has been       *)
(* handed to the USART and that the channel is at rest.                    *)
IdleMeansSent ==
    (idle /\ ~Sending) => /\ rb_is_empty(head, tail)
                         /\ Len(wire) = put
                         /\ cndtr = 0 /\ ~tcif /\ ~tx_busy

(* FlushMeansSent: uart_dma_tx_flush returns true only after every byte    *)
(* accepted before it was called has been handed to the USART.             *)
FlushMeansSent == pc = "flushed" => Len(wire) = put

(* RoomIsSent: a byte is released, and its slot offered to the next        *)
(* rb_put, only after the DMA has read it.  tail is advanced for a whole   *)
(* segment, to a head remembered in kick_head while the head moves on.     *)
RoomIsSent == /\ put - rb_available(head, tail) <= Len(wire)
              /\ Len(wire) <= put

(* CopyClearOfDma: rb_put never writes a slot the DMA has yet to read.     *)
CopyClearOfDma ==
    pc = "copy" => \A k \in copied .. n - 1 :
                       Slot(head + k) \notin addr .. addr + cndtr - 1

(* ReprogrammedWhenDrained: the channel's address and count are written    *)
(* only when it has nothing left to move: neither the task nor the handler *)
(* restarts a transfer that is under way.                                  *)
ReprogrammedWhenDrained ==
    [][DmaByte \/ UNCHANGED <<addr, cndtr>> \/ cndtr = 0]_vars

(* The stream of bytes this path transmits.                                *)
Stream == INSTANCE ByteStream
              WITH accepted <- put, sent <- wire, Foreign <- {Beyond}

(* ImplementsStream: every byte time carries the next byte of the stream   *)
(* or, where a transfer runs past the buffer, something foreign: nothing   *)
(* stale, repeated or reordered, and never more bytes accepted than the    *)
(* ring has room for.                                                      *)
ImplementsStream == Stream!Spec

(* KeepsSending: the same with the stream's fairness, so that bytes which  *)
(* are accepted leave, whatever the order of sends, DMA and interrupts.    *)
KeepsSending == Stream!FairSpec

(* FlushEnds: a flush ends, also one with tx_task NULL, which nobody gives *)
(* notice and no timeout has to free: it sees by polling, every ten ticks, *)
(* that all is sent.  (README.md:248 and debug-journal.md:291 of the       *)
(* program say that it then ends by its timeout.)                          *)
FlushEnds == (pc = "flush_empty") ~> (pc \in {"flushed", "ready"})

(* InsideBuffer: what a transfer has left to read lies in the ring's       *)
(* buffer, which the project's documents promise of the two segments.      *)
InsideBuffer == (en /\ cndtr > 0) => addr + cndtr <= Capacity
=============================================================================
