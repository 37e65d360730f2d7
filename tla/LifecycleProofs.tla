--------------------------- MODULE LifecycleProofs ---------------------------
(***************************************************************************)
(* Lifecycle's safety properties for any number of openings and any sizes  *)
(* of the rings; that a port hears when it is open, if the sizes are       *)
(* powers of two, which the code leaves to its callers.                    *)
(***************************************************************************)
EXTENDS Lifecycle, TLAPS

SizesFit == \A size \in Sizes : is_power_of_two(size)

(* What is there while the task is at step of opening, when the port is    *)
(* open, at step of closing, and when it is closed.                        *)
WhileOpening ==
    doing = "opening" =>
        /\ step \in 1 .. 8 /\ ~init
        /\ IF step = 1 THEN heap = {} /\ opens < MaxOpens
                       ELSE heap = Blocks(opens) /\ opens > 0
        /\ step >= 3 => idle /\ (SizesFit => rings)
        /\ ue <=> step >= 4
        /\ step >= 5 => callbacks
        /\ irq = IF step <= 3 THEN {} ELSE IF step <= 5 THEN {"usart"}
                 ELSE {"usart", "rx"}
        /\ txChannel.left = 0
        /\ rxChannel = IF step >= 7 THEN opens ELSE Null
        /\ g_handle = IF step = 8 THEN opens ELSE Null
        /\ "tc" \notin flags
        /\ step < 7 => "half" \notin flags

WhenOpen ==
    doing = "nothing" /\ init =>
        /\ opens > 0 /\ drv = opens /\ g_handle = opens
        /\ heap = Blocks(opens)
        /\ callbacks /\ ue /\ (SizesFit => rings)
        /\ "usart" \in irq /\ "rx" \in irq
        /\ rxChannel = opens

WhileClosing ==
    doing \in {"closing", "reopening"} =>
        /\ step \in 1 .. 8 /\ init
        /\ opens > 0 /\ drv = opens
        /\ heap = IF step = 8 THEN {} ELSE Blocks(opens)
        /\ g_handle = IF step >= 7 THEN Null ELSE opens
        /\ callbacks
        /\ step >= 2 => txChannel.left = 0 /\ "tc" \notin flags
        /\ step >= 3 => "tx" \notin irq
        /\ step <= 4 => "rx" \in irq
        /\ rxChannel # Null => step <= 3 /\ rxChannel = opens
        /\ step >= 5 => "rx" \notin irq /\ "half" \notin flags
        /\ step >= 6 => irq = {} /\ ~ue
        /\ doing = "reopening" => opens < MaxOpens

WhenClosed ==
    doing = "nothing" /\ ~init =>
        /\ heap = {} /\ irq = {} /\ ~ue
        /\ txChannel.left = 0 /\ rxChannel = Null
        /\ g_handle = Null
        /\ "tc" \notin flags /\ "half" \notin flags

(* A transfer under way, or completed and not yet counted, is the          *)
(* handle's, and the interrupt that will count it is enabled.              *)
Transfers ==
    /\ txChannel.left > 0 =>
          /\ "tx" \in irq /\ "tc" \notin flags
          /\ g_handle = opens /\ txChannel.memory = opens /\ opens > 0
          /\ kicked > 0
    /\ "tc" \in flags =>
          /\ "tx" \in irq /\ txChannel.left = 0
          /\ g_handle = opens /\ txChannel.memory = opens /\ opens > 0
          /\ kicked > 0
    /\ g_handle # Null /\ idle =>
          "tx" \notin irq /\ queued = 0 /\ kicked = 0
    /\ g_handle = Null /\ doing = "opening" /\ step >= 3 =>
          queued = 0 /\ kicked = 0

LifecycleInvariant ==
    /\ TypeOK /\ FaultsOnlyUnpublished
    /\ WhileOpening /\ WhenOpen /\ WhileClosing /\ WhenClosed
    /\ Transfers

-----------------------------------------------------------------------------
(* Which statement a step stands for.                                      *)
LEMMA OpenPlaces ==
    ASSUME step \in 1 .. 8
    PROVE  /\ OpenOrder[step] = "alloc" => step = 1
           /\ OpenOrder[step] = "configure" => step = 2
           /\ OpenOrder[step] = "listen" => step = 3
           /\ OpenOrder[step] = "callbacks" => step = 4
           /\ OpenOrder[step] = "rx_irq_on" => step = 5
           /\ OpenOrder[step] = "rx_on" => step = 6
           /\ OpenOrder[step] = "publish" => step = 7
           /\ OpenOrder[step] = "opened" => step = 8
BY DEF OpenOrder

LEMMA ClosePlaces ==
    ASSUME step \in 1 .. 8
    PROVE  /\ CloseOrder[step] = "tx_off" => step = 1
           /\ CloseOrder[step] = "tx_irq_off" => step = 2
           /\ CloseOrder[step] = "rx_off" => step = 3
           /\ CloseOrder[step] = "rx_irq_off" => step = 4
           /\ CloseOrder[step] = "port_off" => step = 5
           /\ CloseOrder[step] = "forget" => step = 6
           /\ CloseOrder[step] = "free" => step = 7
           /\ CloseOrder[step] = "closed" => step = 8
BY DEF CloseOrder

(* The blocks of an opening.                                               *)
LEMMA OwnBlocks ==
    ASSUME NEW g
    PROVE  /\ <<"handle", g>> \in Blocks(g)
           /\ <<"mutex", g>> \in Blocks(g)
           /\ <<"storage", g>> \in Blocks(g)
BY DEF Blocks

LEMMA BlocksTyped ==
    ASSUME NEW g \in 1 .. MaxOpens
    PROVE  Blocks(g) \subseteq AllBlocks
BY DEF AllBlocks

(* A handle that handlers see is there.                                    *)
LEMMA HandleIsLive ==
    ASSUME LifecycleInvariant, g_handle # Null
    PROVE  g_handle = opens /\ Live("handle", g_handle)
<1>1. g_handle = opens /\ heap = Blocks(opens)
  BY DEF LifecycleInvariant, TypeOK, WhileOpening, WhenOpen, WhileClosing,
         WhenClosed, Null
<1> QED
  BY <1>1, OwnBlocks DEF Live

(* LifecycleInductive: every statement of opening and closing, every call  *)
(* and every interrupt preserves the invariant.                            *)
THEOREM LifecycleInductive ==
    ASSUME LifecycleInvariant, [Next]_vars
    PROVE  LifecycleInvariant'
<1> USE LifecycleAssumption
    DEF LifecycleAssumption, LifecycleInvariant, FaultsOnlyUnpublished
<1>1. CASE uart_init
  BY <1>1, SMTT(60)
     DEF uart_init, TaskRuns, Pending,
         TypeOK, WhileOpening, WhenOpen, WhileClosing, WhenClosed, Transfers,
         ctx, driver, handle, hardware, task, GoOn, Null
<1>2. CASE uart_deinit
  BY <1>2, SMTT(60)
     DEF uart_deinit, TaskRuns, Pending,
         TypeOK, WhileOpening, WhenOpen, WhileClosing, WhenClosed, Transfers,
         ctx, driver, handle, hardware, task, GoOn, Null
<1>3. CASE uart_dma_send
  <2>a. "usart" \in irq' /\ "rx" \in irq' /\ UNCHANGED rings
    BY <1>3 DEF uart_dma_send, Kick, WhenOpen
  <2>b. Live("handle", opens) /\ Live("mutex", opens) /\ Live("storage", opens)
    BY <1>3, OwnBlocks DEF uart_dma_send, WhenOpen, Live
  <2>c. g_handle = opens /\ drv = opens
    BY <1>3 DEF uart_dma_send, WhenOpen
  <2>1. TypeOK'
    <3>1. queued + 1 \in 0 .. MaxQueued /\ queued' = queued + 1
      BY <1>3 DEF TypeOK, uart_dma_send
    <3>2. kicked' \in 0 .. queued'
      BY <1>3, <3>1 DEF TypeOK, uart_dma_send, Kick
    <3>3. txChannel' \in [memory : 0 .. MaxOpens, left : 0 .. MaxQueued]
      BY <1>3, <3>1 DEF TypeOK, uart_dma_send, Kick, Transfer
    <3>4. idle' \in BOOLEAN /\ irq' \subseteq {"usart", "tx", "rx"}
      BY <1>3 DEF TypeOK, uart_dma_send, Kick
    <3> QED
      BY <1>3, <3>1, <3>2, <3>3, <3>4 DEF TypeOK, uart_dma_send,
             ctx, driver, handle, hardware, task, GoOn, Null
  <2> USE <1>3, OwnBlocks, <2>a, <2>b, <2>c
      DEF uart_dma_send, TaskRuns, Pending, Kick, Transfer, Live,
          TypeOK, WhileOpening, WhenOpen, WhileClosing, WhenClosed, Transfers,
          ctx, driver, handle, hardware, task, GoOn, Null
  <2>2. FaultsOnlyUnpublished'
    BY SMTT(60)
  <2>3. WhileOpening'
    BY SMTT(60)
  <2>4. WhenOpen'
    BY SMTT(60)
  <2>5. WhileClosing'
    BY SMTT(60)
  <2>6. WhenClosed'
    BY SMTT(60)
  <2>7. Transfers'
    BY SMTT(60)
  <2> QED
    BY <2>1, <2>2, <2>3, <2>4, <2>5, <2>6, <2>7
<1>4. CASE Alloc
  BY <1>4, OpenPlaces, BlocksTyped, SMTT(60)
     DEF Alloc, Opening, TaskRuns, Pending,
         TypeOK, WhileOpening, WhenOpen, WhileClosing, WhenClosed, Transfers,
         ctx, driver, handle, hardware, task, GoOn, Null
<1>5. CASE AllocFails
  BY <1>5, OpenPlaces, SMTT(60)
     DEF AllocFails, Opening, TaskRuns, Pending,
         TypeOK, WhileOpening, WhenOpen, WhileClosing, WhenClosed, Transfers,
         ctx, driver, handle, hardware, task, GoOn, Null
<1>6. CASE Configure
  <2>1. TypeOK'
    <3>1. txChannel' \in [memory : 0 .. MaxOpens, left : 0 .. MaxQueued]
      BY <1>6 DEF TypeOK, Configure, Off, Null
    <3>2. step' \in 0 .. 8 /\ doing' = doing /\ opens' = opens
      BY <1>6, OpenPlaces DEF TypeOK, WhileOpening, Opening, Configure, GoOn
    <3>3. rings' \in BOOLEAN /\ idle' \in BOOLEAN
      <4>1. PICK size \in Sizes : rings' = is_power_of_two(size)
        BY <1>6 DEF Configure, Fresh
      <4>2. is_power_of_two(size) \in BOOLEAN
        BY DEF is_power_of_two
      <4>3. idle' = TRUE
        BY <1>6 DEF Configure, Fresh
      <4> QED
        BY <4>1, <4>2, <4>3
    <3>4. queued' = 0 /\ kicked' = 0
      BY <1>6 DEF Configure, Fresh
    <3>5. rxChannel' = 0 /\ callbacks' = FALSE
      BY <1>6 DEF Configure, Null
    <3>6. UNCHANGED <<ctx, heap, g_handle, irq, flags, ue, halted, fault>>
      BY <1>6 DEF Configure
    <3>7. /\ heap' \subseteq AllBlocks' /\ irq' \subseteq {"usart", "tx", "rx"}
          /\ flags' \subseteq {"idle", "tc", "half"}
      BY <3>6 DEF TypeOK
    <3>8. /\ rxChannel' \in 0 .. MaxOpens /\ opens' \in 0 .. MaxOpens
          /\ g_handle' \in 0 .. MaxOpens
          /\ queued' \in 0 .. MaxQueued /\ kicked' \in 0 .. queued'
      BY <3>2, <3>4, <3>5, <3>6 DEF TypeOK
    <3>9. /\ init' \in BOOLEAN /\ drv' \in 0 .. MaxOpens
          /\ callbacks' \in BOOLEAN /\ ue' \in BOOLEAN
          /\ halted' \in BOOLEAN /\ fault' \in BOOLEAN
      BY <3>5, <3>6 DEF TypeOK, ctx
    <3> QED
      BY <3>1, <3>2, <3>3, <3>7, <3>8, <3>9 DEF TypeOK
  <2> USE <1>6, OpenPlaces
      DEF Configure, Opening, TaskRuns, Pending, Fresh, SizesFit, Off,
          TypeOK, WhileOpening, WhenOpen, WhileClosing, WhenClosed, Transfers,
          ctx, driver, handle, hardware, task, GoOn, Null
  <2>2. FaultsOnlyUnpublished'
    BY SMTT(60)
  <2>3. WhileOpening'
    BY SMTT(60)
  <2>4. WhenOpen'
    BY SMTT(60)
  <2>5. WhileClosing'
    BY SMTT(60)
  <2>6. WhenClosed'
    BY SMTT(60)
  <2>7. Transfers'
    BY SMTT(60)
  <2> QED
    BY <2>1, <2>2, <2>3, <2>4, <2>5, <2>6, <2>7
<1>7. CASE Listen
  <2>a. step = 3
    BY <1>7, OpenPlaces DEF Listen, Opening, WhileOpening
  <2>b. irq = {}
    BY <2>a, <1>7 DEF Listen, Opening, WhileOpening
  <2>c. irq' = {"usart"}
    BY <2>b, <1>7 DEF Listen
  <2> USE <1>7, OpenPlaces, <2>a, <2>b, <2>c
      DEF Listen, Opening, TaskRuns, Pending,
          TypeOK, WhileOpening, WhenOpen, WhileClosing, WhenClosed, Transfers,
          ctx, driver, handle, hardware, task, GoOn, Null
  <2>1. TypeOK'
    BY SMTT(60)
  <2>2. FaultsOnlyUnpublished'
    BY SMTT(60)
  <2>3. WhileOpening'
    BY SMTT(60)
  <2>4. WhenOpen'
    BY SMTT(60)
  <2>5. WhileClosing'
    BY SMTT(60)
  <2>6. WhenClosed'
    BY SMTT(60)
  <2>7. Transfers'
    BY SMTT(60)
  <2> QED
    BY <2>1, <2>2, <2>3, <2>4, <2>5, <2>6, <2>7
<1>8. CASE SetCallbacks
  BY <1>8, OpenPlaces, SMTT(60)
     DEF SetCallbacks, Opening, TaskRuns, Pending,
         TypeOK, WhileOpening, WhenOpen, WhileClosing, WhenClosed, Transfers,
         ctx, driver, handle, hardware, task, GoOn, Null
<1>9. CASE RxIrqOn
  BY <1>9, OpenPlaces, SMTT(60)
     DEF RxIrqOn, Opening, TaskRuns, Pending,
         TypeOK, WhileOpening, WhenOpen, WhileClosing, WhenClosed, Transfers,
         ctx, driver, handle, hardware, task, GoOn, Null
<1>10. CASE RxOn
  BY <1>10, OpenPlaces, SMTT(60)
     DEF RxOn, Opening, TaskRuns, Pending,
         TypeOK, WhileOpening, WhenOpen, WhileClosing, WhenClosed, Transfers,
         ctx, driver, handle, hardware, task, GoOn, Null
<1>11. CASE Publish
  BY <1>11, OpenPlaces, SMTT(60)
     DEF Publish, Opening, TaskRuns, Pending,
         TypeOK, WhileOpening, WhenOpen, WhileClosing, WhenClosed, Transfers,
         ctx, driver, handle, hardware, task, GoOn, Null
<1>12. CASE Opened
  BY <1>12, OpenPlaces, SMTT(60)
     DEF Opened, Opening, TaskRuns, Pending,
         TypeOK, WhileOpening, WhenOpen, WhileClosing, WhenClosed, Transfers,
         ctx, driver, handle, hardware, task, GoOn, Null
<1>13. CASE TxOff
  <2>1. TypeOK'
    <3>1. txChannel' \in [memory : 0 .. MaxOpens, left : 0 .. MaxQueued]
      BY <1>13 DEF TypeOK, TxOff, Off, Null
    <3> QED
      BY <3>1, <1>13, ClosePlaces, SMTT(60)
         DEF TypeOK, WhileClosing, Closing, TxOff,
             ctx, driver, handle, hardware, task, GoOn, Null
  <2> USE <1>13, ClosePlaces
      DEF TxOff, Closing, TaskRuns, Pending, Off,
          TypeOK, WhileOpening, WhenOpen, WhileClosing, WhenClosed, Transfers,
          ctx, driver, handle, hardware, task, GoOn, Null
  <2>2. FaultsOnlyUnpublished'
    BY SMTT(60)
  <2>3. WhileOpening'
    BY SMTT(60)
  <2>4. WhenOpen'
    BY SMTT(60)
  <2>5. WhileClosing'
    BY SMTT(60)
  <2>6. WhenClosed'
    BY SMTT(60)
  <2>7. Transfers'
    BY SMTT(60)
  <2> QED
    BY <2>1, <2>2, <2>3, <2>4, <2>5, <2>6, <2>7
<1>14. CASE TxIrqOff
  BY <1>14, ClosePlaces, SMTT(60)
     DEF TxIrqOff, Closing, TaskRuns, Pending,
         TypeOK, WhileOpening, WhenOpen, WhileClosing, WhenClosed, Transfers,
         ctx, driver, handle, hardware, task, GoOn, Null
<1>15. CASE RxOff
  <2> USE <1>15, ClosePlaces
      DEF RxOff, Closing, TaskRuns, Pending,
          TypeOK, WhileOpening, WhenOpen, WhileClosing, WhenClosed, Transfers,
          ctx, driver, handle, hardware, task, GoOn, Null
  <2>1. TypeOK'
    BY SMTT(60)
  <2>2. FaultsOnlyUnpublished'
    BY SMTT(60)
  <2>3. WhileOpening'
    BY SMTT(60)
  <2>4. WhenOpen'
    BY SMTT(60)
  <2>5. WhileClosing'
    BY SMTT(60)
  <2>6. WhenClosed'
    BY SMTT(60)
  <2>7. Transfers'
    BY SMTT(60)
  <2> QED
    BY <2>1, <2>2, <2>3, <2>4, <2>5, <2>6, <2>7
<1>16. CASE RxIrqOff
  <2> USE <1>16, ClosePlaces
      DEF RxIrqOff, Closing, TaskRuns, Pending,
          TypeOK, WhileOpening, WhenOpen, WhileClosing, WhenClosed, Transfers,
          ctx, driver, handle, hardware, task, GoOn, Null
  <2>1. TypeOK'
    BY SMTT(60)
  <2>2. FaultsOnlyUnpublished'
    BY SMTT(60)
  <2>3. WhileOpening'
    BY SMTT(60)
  <2>4. WhenOpen'
    BY SMTT(60)
  <2>5. WhileClosing'
    BY SMTT(60)
  <2>6. WhenClosed'
    BY SMTT(60)
  <2>7. Transfers'
    BY SMTT(60)
  <2> QED
    BY <2>1, <2>2, <2>3, <2>4, <2>5, <2>6, <2>7
<1>17. CASE PortOff
  <2>1. TypeOK'
    <3>1. txChannel' \in [memory : 0 .. MaxOpens, left : 0 .. MaxQueued]
      BY <1>17 DEF TypeOK, PortOff, Off, Null
    <3>2. step' \in 0 .. 8 /\ doing' = doing /\ opens' = opens
      BY <1>17, ClosePlaces DEF TypeOK, WhileClosing, Closing, PortOff, GoOn
    <3>3. rxChannel' = 0 /\ irq' = {} /\ ue' = FALSE
      BY <1>17 DEF PortOff, Null
    <3>4. UNCHANGED <<ctx, heap, driver, callbacks, flags, halted, fault>>
      BY <1>17 DEF PortOff
    <3>5. /\ heap' \subseteq AllBlocks' /\ irq' \subseteq {"usart", "tx", "rx"}
          /\ flags' \subseteq {"idle", "tc", "half"}
      BY <3>3, <3>4 DEF TypeOK
    <3>6. rxChannel' \in 0 .. MaxOpens /\ opens' \in 0 .. MaxOpens
      BY <3>2, <3>3 DEF TypeOK
    <3>7. /\ init' \in BOOLEAN /\ drv' \in 0 .. MaxOpens
          /\ callbacks' \in BOOLEAN /\ ue' \in BOOLEAN
          /\ halted' \in BOOLEAN /\ fault' \in BOOLEAN
      BY <3>3, <3>4 DEF TypeOK, ctx
    <3>8. /\ rings' \in BOOLEAN /\ idle' \in BOOLEAN
          /\ g_handle' \in 0 .. MaxOpens
          /\ queued' \in 0 .. MaxQueued /\ kicked' \in 0 .. queued'
      BY <3>4 DEF TypeOK, driver, handle
    <3> QED
      BY <3>1, <3>2, <3>5, <3>6, <3>7, <3>8 DEF TypeOK
  <2> USE <1>17, ClosePlaces
      DEF PortOff, Closing, TaskRuns, Pending, Off,
          TypeOK, WhileOpening, WhenOpen, WhileClosing, WhenClosed, Transfers,
          ctx, driver, handle, hardware, task, GoOn, Null
  <2>2. FaultsOnlyUnpublished'
    BY SMTT(60)
  <2>3. WhileOpening'
    BY SMTT(60)
  <2>4. WhenOpen'
    BY SMTT(60)
  <2>5. WhileClosing'
    BY SMTT(60)
  <2>6. WhenClosed'
    BY SMTT(60)
  <2>7. Transfers'
    BY SMTT(60)
  <2> QED
    BY <2>1, <2>2, <2>3, <2>4, <2>5, <2>6, <2>7
<1>18. CASE Forget
  BY <1>18, ClosePlaces, SMTT(60)
     DEF Forget, Closing, TaskRuns, Pending,
         TypeOK, WhileOpening, WhenOpen, WhileClosing, WhenClosed, Transfers,
         ctx, driver, handle, hardware, task, GoOn, Null
<1>19. CASE Free
  BY <1>19, ClosePlaces, SMTT(60)
     DEF Free, Closing, TaskRuns, Pending,
         TypeOK, WhileOpening, WhenOpen, WhileClosing, WhenClosed, Transfers,
         ctx, driver, handle, hardware, task, GoOn, Null
<1>20. CASE Closed
  <2>1. TypeOK'
    <3>1. drv' \in 0 .. MaxOpens
      BY <1>20 DEF TypeOK, Closed, Null
    <3>2. /\ step' \in 0 .. 8
          /\ doing' \in {"nothing", "opening", "closing", "reopening"}
      BY <1>20 DEF Closed
    <3>3. init' \in BOOLEAN
      BY <1>20 DEF Closed
    <3>4. UNCHANGED <<heap, driver, callbacks, hardware, opens, halted, fault>>
      BY <1>20 DEF Closed
    <3> QED
      BY <3>1, <3>2, <3>3, <3>4 DEF TypeOK,
             ctx, driver, handle, hardware, task, GoOn, Null
  <2> USE <1>20, ClosePlaces
      DEF Closed, Closing, TaskRuns, Pending,
          TypeOK, WhileOpening, WhenOpen, WhileClosing, WhenClosed, Transfers,
          ctx, driver, handle, hardware, task, GoOn, Null
  <2>2. FaultsOnlyUnpublished'
    BY SMTT(60)
  <2>3. WhileOpening'
    BY SMTT(60)
  <2>4. WhenOpen'
    BY SMTT(60)
  <2>5. WhileClosing'
    BY SMTT(60)
  <2>6. WhenClosed'
    BY SMTT(60)
  <2>7. Transfers'
    BY SMTT(60)
  <2> QED
    BY <2>1, <2>2, <2>3, <2>4, <2>5, <2>6, <2>7
<1>21. CASE TransferCompletes
  <2>1. TypeOK'
    <3>1. txChannel' \in [memory : 0 .. MaxOpens, left : 0 .. MaxQueued]
      BY <1>21 DEF TypeOK, TransferCompletes
    <3> QED
      BY <3>1, <1>21, SMTT(60) DEF TypeOK, TransferCompletes,
             ctx, driver, handle, hardware, task, GoOn, Null
  <2> USE <1>21
      DEF TransferCompletes,
          TypeOK, WhileOpening, WhenOpen, WhileClosing, WhenClosed, Transfers,
          ctx, driver, handle, hardware, task, GoOn, Null
  <2>2. FaultsOnlyUnpublished'
    BY SMTT(60)
  <2>3. WhileOpening'
    BY SMTT(60)
  <2>4. WhenOpen'
    BY SMTT(60)
  <2>5. WhileClosing'
    BY SMTT(60)
  <2>6. WhenClosed'
    BY SMTT(60)
  <2>7. Transfers'
    BY SMTT(60)
  <2> QED
    BY <2>1, <2>2, <2>3, <2>4, <2>5, <2>6, <2>7
<1>22. CASE HalfFills
  BY <1>22, SMTT(60)
     DEF HalfFills,
         TypeOK, WhileOpening, WhenOpen, WhileClosing, WhenClosed, Transfers,
         ctx, driver, handle, hardware, task, GoOn, Null
<1>23. CASE LineIdle
  <2>a. /\ "tc" \in flags' <=> "tc" \in flags
        /\ "half" \in flags' <=> "half" \in flags
    BY <1>23 DEF LineIdle
  <2> USE <1>23, <2>a
      DEF LineIdle,
          TypeOK, WhileOpening, WhenOpen, WhileClosing, WhenClosed, Transfers,
          ctx, driver, handle, hardware, task, GoOn, Null
  <2>1. TypeOK'
    BY SMTT(60)
  <2>2. FaultsOnlyUnpublished'
    BY SMTT(60)
  <2>3. WhileOpening'
    BY SMTT(60)
  <2>4. WhenOpen'
    BY SMTT(60)
  <2>5. WhileClosing'
    BY SMTT(60)
  <2>6. WhenClosed'
    BY SMTT(60)
  <2>7. Transfers'
    BY SMTT(60)
  <2> QED
    BY <2>1, <2>2, <2>3, <2>4, <2>5, <2>6, <2>7
<1>24. CASE UsartInterrupt
  <2>a. g_handle # Null => Live("handle", g_handle)
    BY HandleIsLive
  <2>b. ~fault'
    BY <1>24, <2>a DEF UsartInterrupt, on_idle
  <2> USE <1>24, OwnBlocks, <2>a
      DEF UsartInterrupt, on_idle, Live,
          TypeOK, WhileOpening, WhenOpen, WhileClosing, WhenClosed, Transfers,
          ctx, driver, handle, hardware, task, GoOn, Null
  <2>1. TypeOK'
    BY SMTT(60)
  <2>2. FaultsOnlyUnpublished'
    BY <2>b
  <2>3. WhileOpening'
    BY SMTT(60)
  <2>4. WhenOpen'
    BY SMTT(60)
  <2>5. WhileClosing'
    BY SMTT(60)
  <2>6. WhenClosed'
    BY SMTT(60)
  <2>7. Transfers'
    BY SMTT(60)
  <2> QED
    BY <2>1, <2>2, <2>3, <2>4, <2>5, <2>6, <2>7
<1>25. CASE RxInterrupt
  <2>a. Live("handle", g_handle) \/ (doing = "opening" /\ step = 7)
    <3>1. g_handle # Null \/ (doing = "opening" /\ step = 7)
      BY <1>25
         DEF RxInterrupt, WhileOpening, WhenOpen, WhileClosing, WhenClosed,
                  TypeOK, Null
    <3> QED
      BY <3>1, HandleIsLive
  <2>b. FaultsOnlyUnpublished'
    <3>1. ~fault /\ "rx" \in irq /\ UNCHANGED <<irq, task>>
      BY <1>25 DEF RxInterrupt
    <3>2. fault' => ~Live("handle", g_handle)
      BY <1>25, <3>1 DEF RxInterrupt, on_rx_ht_tc
    <3>3. fault' => doing = "opening" /\ step = 7
      BY <2>a, <3>2
    <3>4. OpenOrder[7] = "publish" /\ OpenOrder' = OpenOrder
      BY DEF OpenOrder
    <3> QED
      BY <3>1, <3>3, <3>4 DEF task, FaultsOnlyUnpublished
  <2> USE <1>25, OwnBlocks, <2>a
      DEF RxInterrupt, on_rx_ht_tc, Live,
          TypeOK, WhileOpening, WhenOpen, WhileClosing, WhenClosed, Transfers,
          ctx, driver, handle, hardware, task, GoOn, Null
  <2>1. TypeOK'
    BY SMTT(60)
  <2>2. FaultsOnlyUnpublished'
    BY <2>b
  <2>3. WhileOpening'
    BY SMTT(60)
  <2>4. WhenOpen'
    BY SMTT(60)
  <2>5. WhileClosing'
    BY SMTT(60)
  <2>6. WhenClosed'
    BY SMTT(60)
  <2>7. Transfers'
    BY SMTT(60)
  <2> QED
    BY <2>1, <2>2, <2>3, <2>4, <2>5, <2>6, <2>7
<1>26. CASE TxInterrupt
  <2>a. g_handle = opens /\ opens > 0 /\ g_handle # Null
    BY <1>26 DEF TxInterrupt, Transfers, Null, TypeOK
  <2>b. Live("handle", g_handle)
    BY <2>a, HandleIsLive
  <2>c. ~fault'
    BY <1>26, <2>b DEF TxInterrupt, on_tx_tc
  <2>1. TypeOK'
    <3>1. CASE callbacks /\ g_handle # Null
      <4>1. /\ queued - kicked \in 0 .. MaxQueued
            /\ queued' = queued - kicked /\ kicked' = queued - kicked
        BY <1>26, <3>1 DEF TypeOK, TxInterrupt, on_tx_tc
      <4>2. txChannel' \in [memory : 0 .. MaxOpens, left : 0 .. MaxQueued]
        BY <1>26, <3>1, <4>1 DEF TypeOK, TxInterrupt, on_tx_tc, Transfer, Idle
      <4>3. idle' \in BOOLEAN /\ irq' \subseteq {"usart", "tx", "rx"}
        BY <1>26, <3>1 DEF TypeOK, TxInterrupt, on_tx_tc, Idle
      <4>4. fault' \in BOOLEAN
        BY <1>26, <3>1 DEF TxInterrupt, on_tx_tc
      <4> QED
        BY <1>26, <4>1, <4>2, <4>3, <4>4 DEF TypeOK, TxInterrupt,
               ctx, driver, handle, hardware, task, GoOn, Null
    <3>2. CASE ~(callbacks /\ g_handle # Null)
      BY <1>26, <3>2 DEF TypeOK, TxInterrupt,
             ctx, driver, handle, hardware, task, GoOn, Null
    <3> QED
      BY <3>1, <3>2
  <2> USE <1>26, OwnBlocks, <2>a, <2>b
      DEF TxInterrupt, on_tx_tc, Transfer, Idle, Live,
          TypeOK, WhileOpening, WhenOpen, WhileClosing, WhenClosed, Transfers,
          ctx, driver, handle, hardware, task, GoOn, Null
  <2>2. FaultsOnlyUnpublished'
    BY <2>c
  <2>3. WhileOpening'
    BY SMTT(60)
  <2>4. WhenOpen'
    BY SMTT(60)
  <2>5. WhileClosing'
    BY SMTT(60)
  <2>6. WhenClosed'
    BY SMTT(60)
  <2>7. Transfers'
    BY SMTT(60)
  <2> QED
    BY <2>1, <2>2, <2>3, <2>4, <2>5, <2>6, <2>7
<1>27. CASE UNCHANGED vars
  BY <1>27 DEF vars,
         TypeOK, WhileOpening, WhenOpen, WhileClosing, WhenClosed, Transfers,
         ctx, driver, handle, hardware, task, GoOn, Null
<1> QED
  BY <1>1, <1>2, <1>3, <1>4, <1>5, <1>6, <1>7, <1>8, <1>9, <1>10, <1>11,
     <1>12, <1>13, <1>14, <1>15, <1>16, <1>17, <1>18, <1>19, <1>20, <1>21,
     <1>22, <1>23, <1>24, <1>25, <1>26, <1>27
     DEF Next, OpenStep, CloseStep, Interrupt

(* LifecycleAlways: from the first opening on the invariant holds, through *)
(* every order of interrupts and steps of opening and closing.             *)
THEOREM LifecycleAlways == Spec => []LifecycleInvariant
<1>1. Init => LifecycleInvariant
  <2> SUFFICES ASSUME Init PROVE LifecycleInvariant
    OBVIOUS
  <2> USE DEF Init, Off, Null
  <2>1. TypeOK
    <3>1. txChannel \in [memory : 0 .. MaxOpens, left : 0 .. MaxQueued]
      BY LifecycleAssumption DEF LifecycleAssumption
    <3>2. /\ heap \subseteq AllBlocks /\ irq \subseteq {"usart", "tx", "rx"}
          /\ flags \subseteq {"idle", "tc", "half"}
      OBVIOUS
    <3>3. /\ init \in BOOLEAN /\ rings \in BOOLEAN /\ idle \in BOOLEAN
          /\ callbacks \in BOOLEAN /\ ue \in BOOLEAN
          /\ halted \in BOOLEAN /\ fault \in BOOLEAN
      OBVIOUS
    <3>4. 0 \in 0 .. MaxOpens /\ 0 \in 0 .. MaxQueued /\ 0 \in 0 .. 8
      BY LifecycleAssumption DEF LifecycleAssumption
    <3>5. /\ drv \in 0 .. MaxOpens /\ g_handle \in 0 .. MaxOpens
          /\ queued \in 0 .. MaxQueued /\ kicked \in 0 .. queued
          /\ rxChannel \in 0 .. MaxOpens /\ opens \in 0 .. MaxOpens
          /\ step \in 0 .. 8
          /\ doing \in {"nothing", "opening", "closing", "reopening"}
      BY <3>4
    <3> QED
      BY <3>1, <3>2, <3>3, <3>5 DEF TypeOK
  <2>2. WhileOpening /\ WhenOpen /\ WhileClosing
    BY DEF WhileOpening, WhenOpen, WhileClosing
  <2>3. WhenClosed /\ Transfers
    BY DEF WhenClosed, Transfers
  <2> QED
    BY <2>1, <2>2, <2>3 DEF LifecycleInvariant, FaultsOnlyUnpublished
<1>2. LifecycleInvariant /\ [Next]_vars => LifecycleInvariant'
  BY LifecycleInductive
<1> QED
  BY <1>1, <1>2, PTL DEF Spec

(* LifecycleTyped: the variables have their types, however often the port  *)
(* is opened; in particular a completion never counts more bytes than are  *)
(* queued.                                                                 *)
THEOREM LifecycleTyped == Spec => []TypeOK
<1>1. LifecycleInvariant => TypeOK
  BY DEF LifecycleInvariant
<1> QED
  BY <1>1, LifecycleAlways, PTL

(* FaultsAreUnpublished: whatever the order of interrupts and steps, no    *)
(* handler and no call touches a handle that is freed, and one that is not *)
(* yet published is touched only by on_rx_ht and on_rx_tc, between the     *)
(* start of the receive channel and the statement that sets g_handle.      *)
THEOREM FaultsAreUnpublished == Spec => []FaultsOnlyUnpublished
<1>1. LifecycleInvariant => FaultsOnlyUnpublished
  BY DEF LifecycleInvariant
<1> QED
  BY <1>1, LifecycleAlways, PTL

(* DmaStaysInside: the channels are off before uart_dma_close frees what   *)
(* they read and write.                                                    *)
THEOREM DmaStaysInside == Spec => []NoStrayDma
<1>1. LifecycleInvariant => NoStrayDma
  <2> SUFFICES ASSUME LifecycleInvariant PROVE NoStrayDma
    OBVIOUS
  <2> USE DEF LifecycleInvariant
  <2>1. ASSUME txChannel.left > 0 PROVE Live("storage", txChannel.memory)
    <3>1. g_handle # Null /\ g_handle = opens /\ txChannel.memory = opens
      BY <2>1 DEF Transfers, TypeOK, Null
    <3>2. heap = Blocks(opens)
      BY <3>1
         DEF TypeOK, WhileOpening, WhenOpen, WhileClosing, WhenClosed, Null
    <3> QED
      BY <3>1, <3>2, OwnBlocks DEF Live
  <2>2. ASSUME rxChannel # Null PROVE Live("storage", rxChannel)
    <3>1. rxChannel = opens /\ heap = Blocks(opens)
      BY <2>2
         DEF TypeOK, WhileOpening, WhenOpen, WhileClosing, WhenClosed, Null
    <3> QED
      BY <3>1, OwnBlocks DEF Live
  <2> QED
    BY <2>1, <2>2 DEF NoStrayDma
<1> QED
  BY <1>1, LifecycleAlways, PTL

(* HearsWhenOpen: when uart_init has returned, everything that reception   *)
(* needs is in place, at whatever step interrupts came.                    *)
THEOREM HearsWhenOpen ==
    ASSUME SizesFit
    PROVE  Spec => []ReadyWhenOpen
<1>1. LifecycleInvariant => ReadyWhenOpen
  BY DEF LifecycleInvariant, WhenOpen, ReadyWhenOpen
<1> QED
  BY <1>1, LifecycleAlways, PTL

(* NothingLeft: when uart_deinit has returned, nothing runs and nothing of *)
(* this or an earlier opening is allocated.                                *)
THEOREM NothingLeft == Spec => []SilentWhenClosed
<1>1. LifecycleInvariant => SilentWhenClosed
  BY DEF LifecycleInvariant, WhenClosed, SilentWhenClosed
<1> QED
  BY <1>1, LifecycleAlways, PTL

(* CountsItsOwn: on_tx_tc counts no completion twice and none of a         *)
(* transfer that was under way when the port was closed.                   *)
THEOREM CountsItsOwn == Spec => []CompletionIsOwn
<1>1. LifecycleInvariant => CompletionIsOwn
  BY DEF LifecycleInvariant, Transfers, CompletionIsOwn
<1> QED
  BY <1>1, LifecycleAlways, PTL
=============================================================================
