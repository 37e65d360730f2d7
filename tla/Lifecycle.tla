----------------------------- MODULE Lifecycle ------------------------------
(***************************************************************************)
(* One port from uart_init to uart_deinit and back: what uart_api.c,       *)
(* uart_dma.c and uart_port.c allocate, register, enable and release, in   *)
(* which order, while interrupts go on.                                    *)
(*                                                                         *)
(* The task that opens and closes the port does so in steps; between two   *)
(* of them the channels transfer, the line falls idle, and handlers run.   *)
(* The port's interrupts are above everything FreeRTOS masks, so that one  *)
(* that is pending and enabled comes before the task's next step.  Memory  *)
(* is told apart by the opening that allocated it, 0 being NULL.  Of the   *)
(* rings only the number of bytes matters here.                            *)
(***************************************************************************)
EXTENDS Integers, Sequences, FiniteSets

CONSTANTS MaxOpens,   \* bound: how often the port is opened
          MaxQueued,  \* bound: bytes in the transmit ring
          Sizes       \* the ring sizes that callers pass

ASSUME LifecycleAssumption == /\ MaxOpens \in Nat /\ MaxQueued \in Nat
                              /\ Sizes \subseteq Nat \ {0}

VARIABLES init, drv,      \* of g_ctx[port]
          heap,           \* the blocks allocated
          g_handle,       \* g_handle[port]
          rings, idle,    \* of *h: whether the rings are initialised; idle,
          queued, kicked, \* bytes in the transmit ring and given to the channel
          callbacks,      \* whether g_port[p] has its callbacks
          irq,            \* interrupts enabled in the NVIC
          flags,          \* of the USART and the DMA channels
          ue,             \* USART_CR1_UE
          txChannel,      \* memory it reads (Null when it is off), count to go
          rxChannel,      \* memory it writes
          doing, step,    \* what the task does to the port, and how far it is
          opens,          \* openings so far
          halted, fault   \* in the malloc-failed hook; touched what is not there

ctx      == <<init, drv>>
handle   == <<rings, idle, queued, kicked>>
driver   == <<g_handle, handle>>
hardware == <<irq, flags, ue, txChannel, rxChannel>>
task     == <<doing, step, opens>>
vars     == <<ctx, heap, driver, callbacks, hardware, task, halted, fault>>

Null == 0

Off == [memory |-> Null, left |-> 0]

Blocks(g) == {"handle", "mutex", "storage"} \X {g}

AllBlocks == UNION {Blocks(g) : g \in 1 .. MaxOpens}

Live(kind, g) == <<kind, g>> \in heap

Init == /\ init = FALSE /\ drv = Null
        /\ heap = {}
        /\ g_handle = Null
        /\ rings = FALSE /\ idle = FALSE /\ queued = 0 /\ kicked = 0
        /\ callbacks = FALSE
        /\ irq = {} /\ flags = {} /\ ue = FALSE
        /\ txChannel = Off /\ rxChannel = Null
        /\ doing = "nothing" /\ step = 0 /\ opens = 0
        /\ halted = FALSE /\ fault = FALSE

-----------------------------------------------------------------------------
(* Interrupts that are pending and enabled.                                *)
Pending == \/ "usart" \in irq /\ "idle" \in flags
           \/ "tx" \in irq /\ "tc" \in flags
           \/ "rx" \in irq /\ "half" \in flags

TaskRuns == ~halted /\ ~fault /\ ~Pending

(* uart_dma_open and uart_port_init, uart_dma_close and uart_port_deinit,  *)
(* in the order of their statements.                                       *)
OpenOrder_CallbacksFirst ==  \* mutant: memset clears the callbacks
    <<"alloc", "callbacks", "configure", "listen",
      "rx_irq_on", "rx_on", "publish", "opened">>

OpenOrder ==
    <<"alloc", "configure", "listen", "callbacks",
      "rx_irq_on", "rx_on", "publish", "opened">>

CloseOrder_FreesFirst ==     \* mutant: frees before it has stopped the port
    <<"tx_off", "tx_irq_off", "forget", "free", "rx_off", "rx_irq_off",
      "port_off", "closed">>

CloseOrder ==
    <<"tx_off", "tx_irq_off", "rx_off", "rx_irq_off", "port_off", "forget",
      "free", "closed">>

Opening(place) ==
    TaskRuns /\ doing = "opening" /\ OpenOrder[step] = place

Closing(place) ==
    TaskRuns /\ doing \in {"closing", "reopening"} /\ CloseOrder[step] = place

GoOn == step' = step + 1 /\ UNCHANGED <<doing, opens>>

-----------------------------------------------------------------------------
(* uart_init closes a port that is open, and opens it.                     *)
uart_init_Anyway ==          \* mutant: opens what is open
    /\ TaskRuns /\ doing = "nothing"
    /\ opens < MaxOpens
    /\ doing' = "opening" /\ step' = 1
    /\ init' = FALSE /\ drv' = Null
    /\ UNCHANGED <<heap, driver, callbacks, hardware, opens, halted, fault>>

uart_init ==
    /\ TaskRuns /\ doing = "nothing"
    /\ opens < MaxOpens
    /\ doing' = (IF init THEN "reopening" ELSE "opening") /\ step' = 1
    /\ drv' = (IF init THEN drv ELSE Null)
    /\ UNCHANGED <<init, heap, driver, callbacks, hardware, opens, halted, fault>>

(* ... allocating memory; when there is none the hook does not return.     *)
Alloc ==
    /\ Opening("alloc")
    /\ opens' = opens + 1
    /\ heap' = heap \cup Blocks(opens')
    /\ step' = step + 1
    /\ UNCHANGED <<ctx, driver, callbacks, hardware, doing, halted, fault>>

AllocFails ==
    /\ Opening("alloc")
    /\ halted' = TRUE
    /\ UNCHANGED <<ctx, heap, driver, callbacks, hardware, task, fault>>

(* The handle's fields, and uart_port_init up to the NVIC.                 *)
is_power_of_two(size) == \E k \in 0 .. size : size = 2^k

Fresh_Busy(size) ==          \* mutant: idle is not set
    /\ rings' = is_power_of_two(size)
    /\ queued' = 0 /\ kicked' = 0
    /\ UNCHANGED idle

Fresh(size) ==
    /\ rings' = is_power_of_two(size)
    /\ queued' = 0 /\ kicked' = 0
    /\ idle' = TRUE

Configure ==
    /\ Opening("configure")
    /\ \E size \in Sizes : Fresh(size)
    /\ callbacks' = FALSE
    /\ txChannel' = Off /\ rxChannel' = Null
    /\ GoOn
    /\ UNCHANGED <<ctx, heap, g_handle, irq, flags, ue, halted, fault>>

Listen ==
    /\ Opening("listen")
    /\ irq' = irq \cup {"usart"}
    /\ ue' = TRUE
    /\ GoOn
    /\ UNCHANGED <<ctx, heap, driver, callbacks, flags, txChannel, rxChannel,
                   halted, fault>>

SetCallbacks ==
    /\ Opening("callbacks")
    /\ callbacks' = TRUE
    /\ GoOn
    /\ UNCHANGED <<ctx, heap, driver, hardware, halted, fault>>

(* uart_port_dma_rx_start                                                  *)
RxIrqOn ==
    /\ Opening("rx_irq_on")
    /\ irq' = irq \cup {"rx"}
    /\ GoOn
    /\ UNCHANGED <<ctx, heap, driver, callbacks, flags, ue, txChannel,
                   rxChannel, halted, fault>>

RxOn ==
    /\ Opening("rx_on")
    /\ rxChannel' = opens
    /\ GoOn
    /\ UNCHANGED <<ctx, heap, driver, callbacks, irq, flags, ue, txChannel,
                   halted, fault>>

Publish ==
    /\ Opening("publish")
    /\ g_handle' = opens
    /\ GoOn
    /\ UNCHANGED <<ctx, heap, handle, callbacks, hardware, halted, fault>>

Opened ==
    /\ Opening("opened")
    /\ init' = TRUE /\ drv' = opens
    /\ doing' = "nothing" /\ step' = 0
    /\ UNCHANGED <<heap, driver, callbacks, hardware, opens, halted, fault>>

-----------------------------------------------------------------------------
uart_deinit ==
    /\ TaskRuns /\ doing = "nothing"
    /\ init
    /\ doing' = "closing" /\ step' = 1
    /\ UNCHANGED <<ctx, heap, driver, callbacks, hardware, opens, halted, fault>>

(* uart_port_dma_tx_stop                                                   *)
TxOff_NotOff ==              \* mutant: only its interrupt is disabled
    /\ Closing("tx_off")
    /\ GoOn
    /\ UNCHANGED <<ctx, heap, driver, callbacks, hardware, halted, fault>>

TxOff ==
    /\ Closing("tx_off")
    /\ txChannel' = Off
    /\ GoOn
    /\ UNCHANGED <<ctx, heap, driver, callbacks, irq, flags, ue, rxChannel,
                   halted, fault>>

TxIrqOff ==
    /\ Closing("tx_irq_off")
    /\ irq' = irq \ {"tx"}
    /\ GoOn
    /\ UNCHANGED <<ctx, heap, driver, callbacks, flags, ue, txChannel,
                   rxChannel, halted, fault>>

(* uart_port_dma_rx_stop                                                   *)
RxOff ==
    /\ Closing("rx_off")
    /\ rxChannel' = Null
    /\ GoOn
    /\ UNCHANGED <<ctx, heap, driver, callbacks, irq, flags, ue, txChannel,
                   halted, fault>>

RxIrqOff ==
    /\ Closing("rx_irq_off")
    /\ irq' = irq \ {"rx"}
    /\ GoOn
    /\ UNCHANGED <<ctx, heap, driver, callbacks, flags, ue, txChannel,
                   rxChannel, halted, fault>>

(* uart_port_deinit                                                        *)
PortOff ==
    /\ Closing("port_off")
    /\ txChannel' = Off
    /\ rxChannel' = Null
    /\ ue' = FALSE
    /\ irq' = {}
    /\ GoOn
    /\ UNCHANGED <<ctx, heap, driver, callbacks, flags, halted, fault>>

Forget ==
    /\ Closing("forget")
    /\ g_handle' = Null
    /\ GoOn
    /\ UNCHANGED <<ctx, heap, handle, callbacks, hardware, halted, fault>>

Free ==
    /\ Closing("free")
    /\ heap' = heap \ Blocks(drv)
    /\ GoOn
    /\ UNCHANGED <<ctx, driver, callbacks, hardware, halted, fault>>

Closed ==
    /\ Closing("closed")
    /\ init' = FALSE
    /\ drv' = (IF doing = "reopening" THEN Null ELSE drv)
    /\ IF doing = "reopening" THEN doing' = "opening" /\ step' = 1
                              ELSE doing' = "nothing" /\ step' = 0
    /\ UNCHANGED <<heap, driver, callbacks, hardware, opens, halted, fault>>

-----------------------------------------------------------------------------
(* uart_dma_send of a byte by a task, which a call reaches only when init  *)
(* is set.  Calls and openings do not overlap.                             *)
Transfer(n) == txChannel' = [memory |-> g_handle, left |-> n]

Kick(n) ==
    /\ idle' = FALSE
    /\ kicked' = n
    /\ Transfer(n)
    /\ irq' = irq \cup {"tx"}

uart_dma_send ==
    /\ TaskRuns /\ doing = "nothing"
    /\ init /\ queued < MaxQueued
    /\ fault' = ~\A block \in Blocks(drv) : block \in heap
    /\ queued' = queued + 1
    /\ IF idle THEN Kick(queued + 1)
               ELSE UNCHANGED <<idle, kicked, irq, txChannel>>
    /\ UNCHANGED <<ctx, heap, g_handle, rings, callbacks, flags, ue, rxChannel,
                   task, halted>>

-----------------------------------------------------------------------------
(* The hardware: a transfer completes, half a receive buffer is full, the  *)
(* line falls idle.                                                        *)
TransferCompletes ==
    /\ ue /\ txChannel.left > 0
    /\ txChannel' = [txChannel EXCEPT !.left = 0]
    /\ flags' = flags \cup {"tc"}
    /\ UNCHANGED <<ctx, heap, driver, callbacks, irq, ue, rxChannel, task,
                   halted, fault>>

HalfFills ==
    /\ ue /\ rxChannel # Null
    /\ flags' = flags \cup {"half"}
    /\ UNCHANGED <<ctx, heap, driver, callbacks, irq, ue, txChannel, rxChannel,
                   task, halted, fault>>

LineIdle ==
    /\ ue
    /\ flags' = flags \cup {"idle"}
    /\ UNCHANGED <<ctx, heap, driver, callbacks, irq, ue, txChannel, rxChannel,
                   task, halted, fault>>

-----------------------------------------------------------------------------
(* The handlers, each with its callback.                                   *)
on_idle_Unchecked ==         \* mutant: does not test g_handle
    fault' = ~Live("handle", g_handle)

on_idle == fault' = (g_handle # Null /\ ~Live("handle", g_handle))

UsartInterrupt ==
    /\ ~halted /\ ~fault /\ "usart" \in irq /\ "idle" \in flags
    /\ flags' = flags \ {"idle"}
    /\ IF callbacks THEN on_idle ELSE UNCHANGED fault
    /\ UNCHANGED <<ctx, heap, driver, callbacks, irq, ue, txChannel, rxChannel,
                   task, halted>>

on_rx_ht_tc == fault' = ~Live("handle", g_handle)

RxInterrupt ==
    /\ ~halted /\ ~fault /\ "rx" \in irq /\ "half" \in flags
    /\ flags' = flags \ {"half"}
    /\ IF callbacks THEN on_rx_ht_tc ELSE UNCHANGED fault
    /\ UNCHANGED <<ctx, heap, driver, callbacks, irq, ue, txChannel, rxChannel,
                   task, halted>>

(* The interrupt is disabled until the next transfer.                      *)
Idle ==
    /\ idle' = TRUE
    /\ irq' = irq \ {"tx"}
    /\ UNCHANGED txChannel

on_tx_tc_OldTail ==          \* mutant: counts from the tail before its update
    LET rest == queued - kicked
    IN  /\ fault' = ~Live("handle", g_handle)
        /\ queued' = rest
        /\ kicked' = IF rest > 0 THEN queued ELSE 0
        /\ IF rest > 0 THEN Transfer(queued) /\ UNCHANGED <<idle, irq>> ELSE Idle

on_tx_tc ==
    LET rest == queued - kicked
    IN  /\ fault' = ~Live("handle", g_handle)
        /\ queued' = rest /\ kicked' = rest
        /\ IF rest > 0 THEN Transfer(rest) /\ UNCHANGED <<idle, irq>> ELSE Idle

TxInterrupt ==
    /\ ~halted /\ ~fault /\ "tx" \in irq /\ "tc" \in flags
    /\ flags' = flags \ {"tc"}
    /\ IF callbacks /\ g_handle # Null
       THEN on_tx_tc
       ELSE /\ irq' = irq \ {"tx"}
            /\ UNCHANGED <<idle, queued, kicked, txChannel, fault>>
    /\ UNCHANGED <<ctx, heap, g_handle, rings, callbacks, ue, rxChannel, task, halted>>

-----------------------------------------------------------------------------
OpenStep == \/ Alloc \/ AllocFails \/ Configure \/ Listen \/ SetCallbacks
            \/ RxIrqOn \/ RxOn \/ Publish \/ Opened

CloseStep == \/ TxOff \/ TxIrqOff \/ RxOff \/ RxIrqOff \/ PortOff
             \/ Forget \/ Free \/ Closed

Interrupt == UsartInterrupt \/ RxInterrupt \/ TxInterrupt

Next == \/ uart_init \/ uart_deinit \/ uart_dma_send
        \/ OpenStep \/ CloseStep
        \/ TransferCompletes \/ HalfFills \/ LineIdle
        \/ Interrupt

Spec == Init /\ [][Next]_vars

(* A channel that is on completes its transfer, and an interrupt that is   *)
(* pending and enabled is taken.                                           *)
FairSpec == Spec /\ WF_vars(TransferCompletes) /\ WF_vars(TxInterrupt)

-----------------------------------------------------------------------------
(* TypeOK: no more bytes are given to the channel than are queued.         *)
TypeOK ==
    /\ init \in BOOLEAN /\ drv \in 0 .. MaxOpens
    /\ heap \subseteq AllBlocks
    /\ g_handle \in 0 .. MaxOpens
    /\ rings \in BOOLEAN /\ idle \in BOOLEAN
    /\ queued \in 0 .. MaxQueued /\ kicked \in 0 .. queued
    /\ callbacks \in BOOLEAN
    /\ irq \subseteq {"usart", "tx", "rx"}
    /\ flags \subseteq {"idle", "tc", "half"}
    /\ ue \in BOOLEAN
    /\ txChannel \in [memory : 0 .. MaxOpens, left : 0 .. MaxQueued]
    /\ rxChannel \in 0 .. MaxOpens
    /\ doing \in {"nothing", "opening", "closing", "reopening"}
    /\ step \in 0 .. 8 /\ opens \in 0 .. MaxOpens
    /\ halted \in BOOLEAN /\ fault \in BOOLEAN

(* NoStrayDma: a channel that still transfers does so from or into memory  *)
(* that is allocated, through every closing and reopening.                 *)
NoStrayDma ==
    /\ txChannel.left > 0 => Live("storage", txChannel.memory)
    /\ rxChannel # Null => Live("storage", rxChannel)

(* FaultsOnlyUnpublished: a handler or a call touches a handle that is not *)
(* there in one place only: on_rx_ht and on_rx_tc do not test g_handle,    *)
(* and fault when half of the buffer fills before uart_dma_open has set    *)
(* it.  No handler reaches a freed handle, at whatever step of closing it  *)
(* comes, and none of the others an unpublished one.                       *)
FaultsOnlyUnpublished ==
    fault => doing = "opening" /\ OpenOrder[step] = "publish" /\ "rx" \in irq

(* ReadyWhenOpen: when uart_init has returned the port hears: callbacks,   *)
(* interrupts, ring and channel are in place, none undone by a later step  *)
(* (if the sizes are powers of two, which rb_init does not insist on).     *)
ReadyWhenOpen ==
    init /\ doing = "nothing" =>
        /\ callbacks /\ rings
        /\ g_handle = drv /\ Blocks(drv) \subseteq heap
        /\ ue /\ {"usart", "rx"} \subseteq irq
        /\ rxChannel = drv

(* SilentWhenClosed: when uart_deinit has returned nothing of the port is  *)
(* left running or allocated, of earlier openings neither.                 *)
SilentWhenClosed ==
    ~init /\ doing = "nothing" =>
        /\ heap = {} /\ irq = {} /\ ~ue
        /\ txChannel.left = 0 /\ rxChannel = Null
        /\ g_handle = Null

(* CompletionIsOwn: a completion that on_tx_tc is about to count is one of *)
(* a transfer of this opening, and that transfer is over; none is left     *)
(* from before the port was closed.                                        *)
CompletionIsOwn ==
    "tx" \in irq /\ "tc" \in flags =>
        /\ txChannel.left = 0 /\ txChannel.memory = g_handle
        /\ kicked > 0

(* SendsWhenOpen: bytes queued in an open port are sent, also when it has  *)
(* been closed in mid-transfer and opened again.                           *)
SendsWhenOpen ==
    init /\ queued > 0 ~> "tc" \in flags \/ doing # "nothing"
=============================================================================
