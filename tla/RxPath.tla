------------------------------- MODULE RxPath -------------------------------
(***************************************************************************)
(* The receive path of one UART port: the circular DMA channel that fills  *)
(* the ring, the half-transfer, transfer-complete and idle-line interrupts *)
(* whose rx_update (src/Framework/uart_dma.c) works out from the channel's *)
(* counter how many bytes came in, and a task that takes them with         *)
(* uart_dma_recv or drops them with uart_dma_rx_flush.                     *)
(*                                                                         *)
(* The channel is never held back.  An interrupt may come between any two  *)
(* of the task's accesses to the ring's counters, and bytes may come in    *)
(* between any two steps, those of a handler included; the task does not   *)
(* run during a handler, and handlers do not nest (they share a priority). *)
(*                                                                         *)
(* A byte is named by its place among the bytes the channel has received.  *)
(***************************************************************************)
EXTENDS Ring, Kernel

CONSTANTS MaxRead,      \* bound: longest length handed to uart_dma_recv
          MaxBytes,     \* bound: bytes received in a behaviour
          MaxLatency,   \* bytes that come in while HT or TC waits, at most
          Paced,        \* whether the line never outruns the reader
          MaxFlushes,   \* bound: calls of uart_rx_flush in a behaviour
          RxTaskSet     \* whether a task was noted in h->rx_task

ASSUME RxPathAssumption == /\ MaxRead \in 1 .. Capacity
                           /\ MaxBytes \in Nat
                           /\ MaxLatency \in Nat
                           /\ Paced \in BOOLEAN
                           /\ MaxFlushes \in Nat
                           /\ RxTaskSet \in BOOLEAN

VARIABLES
    head, tail, buffer,       \* h->rx_rb
    prev,                     \* h->rx_prev_cndtr
    cndtr, htif, tcif,        \* DMA channel: CNDTR, half and complete flags
    line, idleif,             \* the RX line, USART_SR_IDLE
    handler, late,            \* the running handler; bytes since HT or TC
    halted,                   \* stopped in a configASSERT
    pc, seen, n, index,       \* the task and the locals of rb_get
    copied, loaded,
    received, read, released, \* history: bytes in, handed out, given back,
    flushes                   \* ... and the flushes begun

ring    == <<head, tail, buffer>>
channel == <<cndtr, htif, tcif>>
usart   == <<line, idleif>>
isr     == <<handler, late, halted>>
locals  == <<seen, n, index, copied, loaded>>
history == <<received, read, released, flushes>>
vars    == <<ring, prev, channel, usart, isr, pc, locals, history>>

(* uart_dma_open and uart_port_dma_rx_start.                               *)
Init == /\ head = 0 /\ tail = 0 /\ buffer = [s \in Slots |-> 0]
        /\ prev = Capacity
        /\ cndtr = Capacity /\ htif = FALSE /\ tcif = FALSE
        /\ line = "quiet" /\ idleif = FALSE
        /\ handler = "none" /\ late = 0 /\ halted = FALSE
        /\ pc = "ready"
        /\ seen = 0 /\ n = 0 /\ index = 0 /\ copied = 0 /\ loaded = 0
        /\ received = 0 /\ read = <<>> /\ released = 0
        /\ flushes = 0

-----------------------------------------------------------------------------
(* The line and the channel.  A byte goes to the slot that CNDTR stands    *)
(* for; at zero CNDTR is reloaded.  While HT or TC waits for its rx_update *)
(* only so many bytes come in: what the interrupts' latency allows.        *)
Due == htif \/ tcif \/ handler \in {"update", "update_then_ht"}

DmaByte ==
    /\ received < MaxBytes
    /\ Due => late < MaxLatency
    /\ Paced => received - released < Capacity
    /\ received' = received + 1
    /\ buffer' = [buffer EXCEPT ![Capacity - cndtr] = received']
    /\ cndtr' = IF cndtr = 1 THEN Capacity ELSE cndtr - 1
    /\ tcif' = (tcif \/ cndtr = 1)
    /\ htif' = (htif \/ cndtr - 1 = Capacity \div 2)
    /\ late' = IF Due THEN late + 1 ELSE 0
    /\ line' = "busy"
    /\ UNCHANGED <<head, tail, prev, idleif, handler, halted, pc, locals, read,
                   released, flushes>>

(* A character time without a start bit sets USART_SR_IDLE, once.          *)
LineIdle ==
    /\ line = "busy"
    /\ line' = "quiet"
    /\ idleif' = TRUE
    /\ UNCHANGED <<ring, prev, channel, isr, pc, locals, history>>

-----------------------------------------------------------------------------
(* The handlers.  Each clears its flag before rx_update reads CNDTR; the   *)
(* channel's handler takes TC first, then HT, of the flags it found.       *)
RxDmaInterrupt ==
    /\ ~halted /\ handler = "none"
    /\ htif \/ tcif
    /\ tcif' = FALSE
    /\ htif' = (htif /\ tcif)
    /\ handler' = IF htif /\ tcif THEN "update_then_ht" ELSE "update"
    /\ UNCHANGED <<ring, prev, cndtr, usart, late, halted, pc, locals, history>>

UsartInterrupt ==
    /\ ~halted /\ handler = "none"
    /\ idleif
    /\ idleif' = FALSE
    /\ handler' = "update_then_give"
    /\ UNCHANGED <<ring, prev, channel, line, late, halted, pc, locals, history>>

(* How far CNDTR has come since it was last read.                          *)
Delta_NoReload ==            \* mutant: the reload is forgotten
    IF cndtr <= prev THEN prev - cndtr ELSE Capacity - cndtr

Delta == IF cndtr <= prev THEN prev - cndtr ELSE prev + (Capacity - cndtr)

(* rx_update, and what its caller does next: on_rx_tc's may be followed by *)
(* that of on_rx_ht, on_idle notifies rx_task.                             *)
rx_update_NotOnIdle ==       \* mutant: the idle handler does not count
    /\ ~halted /\ handler # "none"
    /\ IF handler = "update_then_give"
       THEN UNCHANGED <<prev, tail, head>>
       ELSE /\ prev' = cndtr
            /\ tail' = TailMakingRoom(head, tail, Delta)
            /\ head' = Plus(head, Delta)
    /\ htif' = (htif /\ handler # "update_then_ht")
    /\ handler' = IF handler = "update_then_ht" THEN "update" ELSE "none"
    /\ late' = IF handler = "update_then_give" THEN late ELSE 0
    /\ halted' = (handler = "update_then_give" /\ RxTaskSet /\ GiveFromISRHalts)
    /\ UNCHANGED <<buffer, cndtr, tcif, usart, pc, locals, history>>

rx_update ==
    /\ ~halted /\ handler # "none"
    /\ prev' = cndtr
    /\ tail' = TailMakingRoom(head, tail, Delta)
    /\ head' = Plus(head, Delta)
    /\ htif' = (htif /\ handler # "update_then_ht")
    /\ handler' = IF handler = "update_then_ht" THEN "update" ELSE "none"
    /\ late' = IF handler = "update_then_give" THEN late ELSE 0
    /\ halted' = (handler = "update_then_give" /\ RxTaskSet /\ GiveFromISRHalts)
    /\ UNCHANGED <<buffer, cndtr, tcif, usart, pc, locals, history>>

-----------------------------------------------------------------------------
(* The task, when no handler runs.                                         *)
At(place) == ~halted /\ handler = "none" /\ pc = place

TaskLeaves == UNCHANGED <<buffer, prev, channel, usart, isr, received>>

(* uart_dma_recv, rb_get: head - tail reads two volatile counters in an    *)
(* order that C leaves open, ...                                           *)
uart_dma_recv(len) ==
    /\ At("ready")
    /\ n' = len
    /\ \/ seen' = head /\ pc' = "read_tail"
       \/ seen' = tail /\ pc' = "read_head"
    /\ UNCHANGED <<head, tail, index, copied, loaded, read, released,
                   flushes>>
    /\ TaskLeaves

(* ... the length is cut to what that gives, ...                           *)
Clamp_Trusting(avail) == n   \* mutant: returns what was asked for
Clamp(avail) == Least(n, avail)

GetAvailable ==
    /\ At("read_tail") \/ At("read_head")
    /\ n' = Clamp(IF pc = "read_tail" THEN rb_available(seen, tail)
                                      ELSE rb_available(head, seen))
    /\ seen' = 0
    /\ pc' = IF n' = 0 THEN "ready" ELSE "index"
    /\ UNCHANGED <<head, tail, index, copied, loaded, read, released,
                   flushes>>
    /\ TaskLeaves

(* ... the bytes are copied from the tail's slot on, ...                   *)
GetIndex ==
    /\ At("index")
    /\ index' = Slot(tail)
    /\ copied' = 0
    /\ pc' = "copy"
    /\ UNCHANGED <<head, tail, seen, n, loaded, read, released, flushes>>
    /\ TaskLeaves

GetByte ==
    /\ At("copy")
    /\ read' = Append(read, buffer[Slot(index + copied)])
    /\ copied' = copied + 1
    /\ pc' = IF copied' = n THEN "load" ELSE "copy"
    /\ UNCHANGED <<head, tail, seen, n, index, loaded, released, flushes>>
    /\ TaskLeaves

(* ... and rb->tail += len loads and stores the tail.                      *)
GetLoad ==
    /\ At("load")
    /\ loaded' = tail
    /\ index' = 0 /\ copied' = 0
    /\ pc' = "store"
    /\ UNCHANGED <<head, tail, seen, n, read, released, flushes>>
    /\ TaskLeaves

GetStore ==
    /\ At("store")
    /\ tail' = Plus(loaded, n)
    /\ released' = released + n
    /\ n' = 0 /\ loaded' = 0
    /\ pc' = "ready"
    /\ UNCHANGED <<head, seen, index, copied, read, flushes>>
    /\ TaskLeaves

Get == GetAvailable \/ GetIndex \/ GetByte \/ GetLoad \/ GetStore

(* uart_dma_rx_flush, rb_flush: both counters start again from zero.  What *)
(* was held counts as given back.                                          *)
uart_dma_rx_flush ==
    /\ flushes < MaxFlushes /\ At("ready")
    /\ flushes' = flushes + 1
    /\ head' = 0
    /\ released' = released + rb_available(head, tail)
    /\ pc' = "flush"
    /\ UNCHANGED <<tail, locals, read>>
    /\ TaskLeaves

FlushTail ==
    /\ At("flush")
    /\ tail' = 0
    /\ pc' = "ready"
    /\ UNCHANGED <<head, locals, read, released, flushes>>
    /\ TaskLeaves

-----------------------------------------------------------------------------
Recv == \E len \in 1 .. MaxRead : uart_dma_recv(len)

Next == \/ DmaByte \/ LineIdle
        \/ RxDmaInterrupt \/ UsartInterrupt \/ rx_update
        \/ Recv \/ Get
        \/ uart_dma_rx_flush \/ FlushTail

Spec == Init /\ [][Next]_vars

(* The line falls quiet after the last byte, interrupts are taken, and a   *)
(* task like echo_task of main.c calls uart_dma_recv again and again.      *)
FairSpec == /\ Spec
            /\ WF_vars(LineIdle)
            /\ WF_vars(RxDmaInterrupt) /\ WF_vars(UsartInterrupt)
            /\ WF_vars(rx_update)
            /\ WF_vars(Recv) /\ WF_vars(Get)

-----------------------------------------------------------------------------
(* TypeOK: the software's counters are uint32_t values and CNDTR, the last *)
(* value read of it and the slot read from lie in the buffer.              *)
TypeOK ==
    /\ head \in Counter /\ tail \in Counter /\ buffer \in [Slots -> Nat]
    /\ prev \in 1 .. Capacity /\ cndtr \in 1 .. Capacity
    /\ htif \in BOOLEAN /\ tcif \in BOOLEAN /\ idleif \in BOOLEAN
    /\ line \in {"busy", "quiet"}
    /\ handler \in {"none", "update", "update_then_ht", "update_then_give"}
    /\ late \in Nat /\ halted \in BOOLEAN
    /\ pc \in {"ready", "read_tail", "read_head", "index", "copy", "load",
               "store", "flush"}
    /\ seen \in Counter /\ n \in Nat /\ index \in Slots /\ copied \in Nat
    /\ loaded \in Counter
    /\ received \in Nat /\ read \in Seq(Nat) /\ released \in Nat

(* Accounted: rx_update counts every byte.  What was given back, what the  *)
(* ring says it holds and what came in since CNDTR was last read are what  *)
(* was received: two equal readings of CNDTR never hide a lap of the       *)
(* buffer, and a handler between the two stores of a flush loses nothing.  *)
Accounted ==
    pc # "flush" =>
        released + rb_available(head, tail) + ((prev - cndtr) % Capacity) = received

(* The stream of bytes this path delivers.                                 *)
Stream == INSTANCE ByteStream
              WITH accepted <- received, sent <- read, Foreign <- {}

(* DeliversStream: while the line does not outrun the reader, and until it *)
(* is flushed, uart_dma_recv hands out the bytes received, each once, in   *)
(* order and intact, although the handlers move the counters and the       *)
(* channel writes the buffer between any two accesses of rb_get.           *)
DeliversStream == [][flushes' = 0 => [Stream!Next]_(Stream!vars)]_vars

(* KeepsDelivering: and every byte received is handed out to a reader that *)
(* keeps asking, the last ones too, which only the idle line announces.    *)
KeepsDelivering == <>(flushes > 0) \/ Stream!Sends

(* HeldFits: what the ring says it holds fits in it, so that after an      *)
(* overrun the newest Capacity bytes are what can be read.                 *)
HeldFits == rb_available(head, tail) <= Capacity

(* ReadOnce: no byte is handed out twice, a flush in between or not.       *)
ReadOnce == \A i, j \in 1 .. Len(read) : i < j => read[i] < read[j]
=============================================================================
