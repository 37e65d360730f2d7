# A formal model of the DMA ring-buffer UART driver

This directory holds a TLA+ model of the UART stack under `src/Framework`: an
STM32F103 driver that moves bytes between FreeRTOS tasks and three USARTs with
DMA channels and lock-free ring buffers. It says what the stack does, what TLC
has checked of it on small instances, and what TLAPS has proved of it for every
buffer size and counter width, and any number of tasks, calls and openings.

Contents: [the program](#1-the-program) · [what is hard](#2-what-is-hard-about-it)
· [modules](#3-the-modules) · [abstractions](#4-what-is-abstracted-and-how) ·
[runs](#5-the-runs) · [fairness](#6-fairness) · [proofs](#7-the-proofs) ·
[findings](#8-what-the-violation-runs-show) ·
[not modelled](#9-what-is-not-modelled) · [plan](#10-plan)

## 1. The program

```
tasks (main.c)         uart_send / printf / flush      uart_recv / recv_async
                                 |                             |
uart_api.c    one context per port: tx_mutex, driver handle, storage
                                 |                             |
uart_dma.c    tx_rb, kick_head,  |                             |  rx_rb,
              chain_pending, idle| uart_dma_send     recv      |  rx_prev_cndtr
                                 v                             ^
ringbuffer.c  head ----> [ buffer ] ----> tail   head ----> [ buffer ] ----> tail
                                 |                             ^
uart_port.c          normal-mode TX channel         circular RX channel
                       |                               |     |
interrupts           TC: on_tx_tc            HT, TC: rx_update   IDLE: on_idle
```

| component | state it keeps | operations | what makes it correct |
|---|---|---|---|
| ring buffer (`ringbuffer.c`) | free-running `head`, `tail` (`uint32_t`), `buffer`, `mask` | put, get, peek, discard, flush, advance, contiguous lengths | it is a bounded FIFO across the wrap of the counters; contiguous lengths stay inside the buffer |
| transmit driver (`uart_dma.c` 31-52, 91-97, 110-147; `uart_port.c` 133-152, 213-226) | `tx_rb`, `kick_head`, `chain_pending`, `idle`, `tx_task`; the channel's `CCR.EN`, `CMAR`, `CNDTR`, TC flag; `tx_busy` | send, kick, flush, the TC interrupt | no byte stranded, lost, repeated or overwritten before it is sent; a slot is reused only after the DMA read it; "idle" and "flushed" mean sent; the channel reads the ring only |
| receive driver (`uart_dma.c` 99-108, 150-178; `uart_port.c` 155-173, 195-210, 229-246) | `rx_rb`, `rx_prev_cndtr`, `rx_task`; `CNDTR`, HT, TC and IDLE flags | recv, flush, HT, TC and IDLE interrupts | every byte counted once; a reader that keeps up gets each byte once, in order, intact; the last bytes of a burst are announced; an overrun leaves the newest bytes readable |
| API, sending (`uart_api.c` 54-77, 104-115, 125-133, 139-151) | `tx_mutex` | blocking and asynchronous send, printf, flush | the mutex is always given back; messages of several tasks are not mixed; a blocking send ends |
| API, receiving (`uart_api.c` 80-101, 117-122, 158-184) | `rx_task`, `rx_cb`; the caller's notification, tick count and place in the kernel's lists | recv, recv_async, yield, set_rx_callback | a reader is not left sleeping on data that was announced, and hears of all data; empty hands mean that the time is up; timeouts hold; bytes are handed out once |
| lifecycle (`uart_api.c` 25-51, `uart_dma.c` 55-89, `uart_port.c` 31-173) | `g_ctx`, `g_handle`, `g_port`, the heap, interrupt enables, channels | init, deinit, open, close, start and stop of the channels | no handler runs on a handle that does not exist; no channel uses memory that is freed; a reopened port starts clean and works |
| demo (`main.c`), interrupt routing (`stm32f1xx_it.c`) | two echo/loopback tasks | | |
| FreeRTOS kernel | tick count, delayed lists, notifications, suspension of the scheduler | | modelled where the stack waits (`TaskNotify`) and where a handler calls it (`Kernel`) |
| HAL, CMSIS, start-up | vendored | | |

How they interact: a task calls the API, which takes the port's mutex for
transmission (and nothing for reception) and calls the driver; the driver calls
the ring and programs the channel through `uart_port.c`. The channels and the
USART work on their own. Interrupts enter through `stm32f1xx_it.c`, are
acknowledged in `uart_port.c` and call back into `uart_dma.c`, which changes the
same ring and handle the task is using, with interrupts enabled and no critical
section anywhere. All interrupts of a port share NVIC priority 4: they do not
nest, and FreeRTOS's critical sections (BASEPRI 5) do not mask them.

## 2. What is hard about it

`PROJECT.json` lists each hazard at its line, with the properties that cover it.
In groups:

* **A task against the TC interrupt.** `uart_dma_send` publishes bytes, then
  tests `h->idle`, then tests the ring, then kicks (`uart_dma.c:94-95`); the
  handler releases bytes, then looks at the head, then goes idle
  (`uart_dma.c:139-143`). A wrong order on either side strands bytes, restarts a
  transfer under way, or releases bytes that were put meanwhile.
* **A segment against the ring.** `tx_kick` tells a contiguous segment from one
  that goes round the buffer by comparing free-running counters
  (`uart_dma.c:42`), and `on_tx_tc` releases a whole segment by arithmetic on
  the tail (`uart_dma.c:132-134`).
* **A reader against the RX interrupts.** `rb_get` reads `head` and `tail` at
  different moments, copies, and then does `tail += len` as a load and a store,
  while `rb_advance_head` in the interrupt writes `head` and, on overrun, `tail`
  too (`ringbuffer.c:35-47`, `ringbuffer.c:97-99`).
* **A channel nobody holds back.** The circular channel writes on while
  interrupts wait; `rx_update` sees only `CNDTR` modulo the buffer
  (`uart_dma.c:152-161`), and only the idle-line interrupt announces the last
  bytes of a burst.
* **Counters that wrap** at 2^32 under all of this.
* **Kernel calls from interrupts** at a priority the kernel does not allow
  (`uart_port.c:112-114`, `uart_dma.c:144`, `uart_dma.c:176`).
* **The API's mutex**, given back in the middle of a message when the ring is
  full (`uart_api.c:64-69`).
* **Going to sleep.** `uart_recv` looks at the ring, then at the clock, then calls
  `ulTaskNotifyTake`, which takes four more steps to put the task to sleep
  (`tasks.c:7720-7755`); bytes and notices come between any two of them, HT and TC
  announce nothing, one `rx_task` serves every reader, and a notice may be an old one.
* **A tick count that wraps** under timeouts that are differences of two readings
  (`uart_api.c:95`), and under the kernel's two delayed lists (`tasks.c:265-277`), with
  ticks that are counted late because the scheduler was suspended.
* **Several readers**: nothing locks the receiving half (`uart_api.c:80-122`).
* **Opening and closing** with interrupts enabled between the steps
  (`uart_dma.c:74-77`, `uart_dma.c:84-88`), and reopening in mid-transfer.

## 3. The modules

| module | what it is |
|---|---|
| `Ring` | the index arithmetic of `ringbuffer.c` as pure operators on counters and buffers, under the C names |
| `ByteQueue` | abstract: a bounded queue of bytes |
| `RingBuffer` | `ringbuffer.c` used by one caller, one action per function; implements `ByteQueue` |
| `ByteStream` | abstract: what either direction of a port promises its users |
| `Kernel` | what FreeRTOS does to a handler that calls it |
| `TxPath` | the transmit path: task, TC interrupt and TX channel interleaved at every shared access; implements `ByteStream` |
| `TxPathInvariant` | the inductive invariant of `TxPath` |
| `RxPath` | the receive path: line, RX channel, three interrupts and a reader interleaved at every shared access; implements `ByteStream` |
| `ApiTx` | the sending API: tasks in send, printf, asynchronous send and flush, and the mutex, over `ByteStream` |
| `TaskNotify` | the part of `tasks.c` that a task waits with: `ulTaskNotifyTake` step by step, notices from interrupts, delayed lists, late ticks |
| `ApiRx` | the receiving API: tasks in recv, recv_async and yield, the receive interrupts and the ticks, over `TaskNotify` |
| `Lifecycle` | a port opened, used, closed and opened again, with interrupts between all statements |
| `RingTheorems` | facts about counters that wrap |
| `RingBufferProofs`, `TxPathProofs`, `RxPathProofs`, `ApiTxProofs`, `TaskNotifyProofs`, `ApiRxProofs`, `LifecycleProofs` | the theorems about each module |

The constants are numbers, Booleans and sets of model values, so the `.cfg` files
give them values directly and TLC runs the modules themselves.

### Ring and RingBuffer

A ring has `head` and `tail`, counters modulo `Word` (2^32 in the program), and a
buffer of `Capacity` slots. `Slot(counter)` is `counter & mask`; `rb_available`
and `rb_free_space` are the `uint32_t` subtractions, wrap included. `Stored` and
`Loaded` stand for the two-piece `memcpy`s. `RingBuffer` has an action for each
function of the C file, with the arguments chosen from `1 .. MaxLen` and the
bytes from `Byte`; its abstraction to a queue reads the buffer from tail to head,
and `given` and `got`, what an operation was handed and handed back, are the same in
both, so that the queue is held to the bytes of the very call.

### TxPath

| variable | code |
|---|---|
| `head`, `tail`, `buffer` | `h->tx_rb` |
| `kick_head`, `chain_pending`, `idle` | the fields of the handle |
| `en`, `addr`, `cndtr`, `tcif` | `CCR.EN`, the slot the channel reads next, `CNDTR`, the TC flag |
| `irq_on`, `tx_busy` | NVIC enable, `g_port[p].tx_busy` |
| `pc`, `n`, `copied`, `segment` | where the task is, and its locals |
| `put`, `wire` | history: bytes accepted, what went to the USART |

The task's steps are split where it touches something the interrupt or the
channel also touches: `uart_dma_send` (read the free space), `CopyByte`,
`Publish`, `TestIdle`, `TestEmpty`, the five steps of `tx_kick` with
`uart_port_dma_tx_start` (`KickRead`, `KickMark`, `KickProgram`, `KickUnmask`,
`KickEnable`), and the loop of `uart_dma_tx_flush`. `DmaByte` is the channel.
`on_tx_tc`, with the acknowledgement and masking of
`uart_port_dma_tx_irq_handler`, is one of three steps: `TcSecondSegment`,
`TcKickAgain`, `TcIdle`. One task at a time is inside the driver, because
`uart_api.c` calls it with the port's mutex held.

### RxPath

| variable | code |
|---|---|
| `head`, `tail`, `buffer`, `prev` | `h->rx_rb`, `h->rx_prev_cndtr` |
| `cndtr`, `htif`, `tcif` | the circular channel |
| `line`, `idleif` | the RX line, `USART_SR_IDLE` |
| `handler` | the handler that is running, and what it does after `rx_update` |
| `late` | bytes that came in since HT or TC was raised |
| `pc`, `seen`, `n`, `index`, `copied`, `loaded` | the task in `rb_get`; `seen` is the counter it has read of the two, `loaded` the tail it is about to add to |
| `received`, `read`, `released` | history: bytes received, handed out, given back or dropped by a flush |
| `flushes` | history: calls of `uart_rx_flush` begun |

C leaves open in which order `head - tail` reads its two volatile operands; the
model takes either. A handler clears its flag in one step (`RxDmaInterrupt`,
`UsartInterrupt`) and reads `CNDTR` in the next (`rx_update`); bytes may come in
between. `on_idle` then notifies `rx_task`.

### ApiTx

| variable | code |
|---|---|
| `owner` | the holder of `tx_mutex` |
| `stream`, `left` | the driver below, as a `ByteStream`: bytes accepted, and how many slots were freed again |
| `pc`, `job` | where each task is, and the call it makes (kind, length, whether it waits for `portMAX_DELAY`) |
| `free`, `done` | `f` and `sent`, the locals of `uart_send` |
| `calls`, `result` | history: calls begun, and what the last returned (-1 also for `false`) |

`uart_send`, `uart_printf`, `uart_send_async` and `uart_tx_flush` begin a call;
`Take` and `Refused` are the two outcomes of `xSemaphoreTake`, at the start and after
a tick's wait; `ReadFree`, `Put`, `GiveUp`, `BackOff` and `DelayEnds` are the loop of
`uart_send`; `AsyncFails`, `Drained` and `DrainFails` the other ways on; `Give` the
last `xSemaphoreGive`. How the two levels fit: `TxPath` takes one caller at a time for
granted and implements `ByteStream`; `ApiTx` uses the driver by the actions of
`ByteStream` and guarantees the one caller (`OneTaskInDriver`).

### ApiRx and TaskNotify

| variable | code |
|---|---|
| `arrived`, `line` | what the channel has written, the RX line |
| `head`, `tail` | `h->rx_rb`, as numbers of bytes |
| `rx_task`, `rx_cb` | `h->rx_task`; whether `c->rx_cb` is set |
| `pc`, `job`, `st`, `n` | where each task is, the call it makes, its locals |
| `delays` | `xTickCount`, `xNextTaskUnblockTime`, the list each task is in and its time to wake |
| `suspender`, `pended`, `pendingReady` | `uxSchedulerSuspended`, `xPendedTicks`, `xPendingReadyList` |
| `value`, `state` | the notification of each task |
| `step`, `ticks` | where each task is inside `ulTaskNotifyTake`, and `xTicksToWait` |
| `lag` | ticks that have passed while a call kept the processor busy |
| `handed`, `age` | history: bytes handed out, ticks since the call began |

A call begins with `uart_recv`, `uart_yield` or `uart_recv_async`; `Look` finds bytes,
`Get` and `Advance` are the copy and the tail's update in `rb_get`, `GiveUp` is the
timeout, `Rest` works out how long to sleep and calls `ulTaskNotifyTake`, whose five
steps (`NotifyTest`, `NotifyMark`, `NotifyBlock`, `xTaskResumeAll`, `NotifyCollect`)
are `InNotifyTake`. `on_rx_ht_tc` counts bytes and tells nobody, `on_idle` counts and
notifies. `SysTick` wakes whose time has come, or, while the scheduler is suspended,
pends a tick that `xTaskResumeAll` then counts.

### Lifecycle

| variable | code |
|---|---|
| `init`, `drv` | of `g_ctx[port]` |
| `heap` | the blocks allocated, each with the opening it belongs to |
| `g_handle`, `callbacks` | `g_handle[port]`; whether `g_port[p]` has its callbacks |
| `rings`, `idle`, `queued`, `kicked` | of the handle: `rb_init` succeeded, `idle`, bytes in the transmit ring and given to the channel |
| `irq`, `flags`, `ue` | NVIC enables; IDLE, TC and half-buffer flags; `USART_CR1_UE` |
| `txChannel`, `rxChannel` | the opening whose memory each channel uses, and what is left to transfer |
| `doing`, `step`, `opens` | what the task does to the port, how far it is, openings so far |

`OpenOrder` and `CloseOrder` are the statements of `uart_dma_open` with
`uart_port_init`, and of `uart_dma_close` with `uart_port_deinit`, in their order; each
has its action (`Alloc` ... `Opened`, `TxOff` ... `Closed`). `uart_init` of an open port
closes it first. Between any two statements the channels transfer and the line falls
idle. An interrupt that is pending and enabled comes before the next statement: the
port's interrupts are above everything that FreeRTOS masks. Memory is told apart by the
opening it was allocated in, so that a channel or handler that outlives its opening is
seen.

## 4. What is abstracted, and how

* **Bytes are named by their place in the stream** (`TxPath`, `RxPath`): a byte
  lost, repeated, stale or out of order shows as a wrong number. The driver never
  looks at a byte, so nothing else can depend on its value.
* **Counters** keep their width: `Word` is a parameter, every counter operation is
  taken modulo it, and it only has to be a multiple of `Capacity` larger than it
  (`RingAssumption`), as 2^32 is of any power of two below it.
* **An interrupt handler** is one step (TX) or two (RX) and may be taken late,
  between any two steps of the task. On the chip it preempts at once; the model
  allows more, never less. Handlers do not nest: they share a priority.
* **Registers that nobody reads back** (`CPAR`, the clock and pin setup, the baud
  rate) are left out. `CMAR` is the slot it points to.
* **The ring's content during the copy** of `rb_put` is exact, byte by byte, but
  the two pieces of a `memcpy` are one sequence of slots.
* **Time** appears where code or correctness depends on it: a wait of ten ticks
  may end at any moment (`FlushWake`), a timeout may strike at any moment
  (`FlushTimeout`), and the receive path is told by `MaxLatency` how many bytes
  can come in while a half-buffer interrupt waits.
  The sending API's timeouts are found to have passed whenever the code looks, so
  that how long a call takes is not modelled, only what it does when time is up. The
  receiving API's are counted in ticks of a count that wraps (`ApiRx`).
* **The receive ring in `ApiRx`** is two numbers of bytes: how the handlers work out
  the count, and how `rb_get` stands up to them, is `RxPath`'s subject, and here the
  line never outruns the readers. Its `DmaByte` fills at most `Capacity`.
* **Scheduling in `ApiRx`**: with `Preempted` FALSE a task runs only while every other
  one is outside a call or asleep in it, which is how tasks of which none has the time
  to be preempted behave; TRUE allows every interleaving.
* **The interrupt priority** in every run is the 4 that `uart_port.c:112-114` sets, at
  which the first idle interrupt that finds a task noted halts the system
  (`api_halts`). `api_rx` says what holds until then; the theorems about `ApiRx` hold
  for every priority, 5 included, which would be the correction.
* **`portMAX_DELAY`** is a wait of that many ticks, not one without end:
  `FreeRTOSConfig.h` leaves `INCLUDE_vTaskSuspend` 0. A task that takes the mutex with it
  may be refused like any other (`Refused`); only `uart_send`'s own test of the time
  (`uart_api.c:65`) never strikes a call that waits forever.
* **`rb_available` in `ApiRx`** is `head - tail` modulo `Word`, as the `uint32_t`
  subtraction is: huge when readers that preempt each other have moved the tail beyond
  the head.
* **`uart_port_dma_tx_start`'s `(uint16_t)len`** is the identity in `TxPath` (`StartDma`):
  a ring of 65536 bytes or more would be cut there, but the chip has 64 KB of memory.
* **HT and TC at once**: the update for TC and the clearing of HT that follows it
  (`uart_port.c:238-243`) are one step of `RxPath`. Nothing reads the flag in between,
  and bytes of that moment are counted by the second update.
* **History variables** (`put`, `wire`, `received`, `read`, `released`, `flushes`,
  `calls`, `result`, `handed`, `age`) are read by properties, by bounds, and by the assumption `Paced` only.

## 5. The runs

| run | module, cfg | checks | instance |
|---|---|---|---|
| `ring_buffer` | `RingBuffer` | `TypeOK`, `Bounded`, `ContigInside`, `ImplementsQueue` | `Word` 8, `Capacity` 4, two byte values, lengths to 5 |
| `tx_path` | `TxPathInvariant`, `TxPath.cfg` | `TypeOK`, `TxInvariant`, `NoStranded`, `IdleMeansSent`, `FlushMeansSent`, `RoomIsSent`, `CopyClearOfDma`, `ReprogrammedWhenDrained`, `ImplementsStream`; `KeepsSending`, `FlushEnds` under `FairSpec` | `Word` 8, `Capacity` 4, lengths to 5, 18 bytes |
| `rx_path` | `RxPath` | `TypeOK`, `Accounted`; `DeliversStream` until the first flush; `KeepsDelivering` under `FairSpec` | `Word` 8, `Capacity` 4, lengths to 3, 9 bytes, one flush, `MaxLatency` 1, `Paced` |
| `api_tx` | `ApiTx` | `TypeOK`, `OneTaskInDriver`, `ReportsWhatItSent`, `ForeverShortIfRefused`, `FlushLeavesNothing`; `MutexComesBack`, `CallsEnd` under `FairSpec` | two tasks, three calls, a ring of 2 bytes, messages of 2 and 3 |
| `api_rx` | `ApiRx` | `TypeOK`, `RecvInTime`, `ListsSwitchEmpty`, `HandsOutOnce`, `EmptyMeansTimeout`; `HearsBytes` under `FairSpec` | a receiver and a yielder that take turns, two bytes, 5 tick values, timeouts of 2 ticks and `portMAX_DELAY`, priority 4 |
| `lifecycle` | `Lifecycle` | `TypeOK`, `NoStrayDma`, `FaultsOnlyUnpublished`, `ReadyWhenOpen`, `SilentWhenClosed`, `CompletionIsOwn`; `SendsWhenOpen` under `FairSpec` | three openings, three bytes queued, half a receive buffer filling at any moment |
| `tx_overrun`, `rx_overrun`, `rx_flush`, `api_mixed`, `api_readers`, `api_halts` | | one property each, violated: section 8 | |

Why the bounds are enough:

* `Capacity` 4 and `Word` 8 give a ring that can be empty, partly full and full
  with head and tail at every slot, a buffer end that falls inside a transfer at
  every place, and counters that wrap after two laps. `Word` is twice `Capacity`,
  the smallest value at which a full ring, an empty ring and a full ring one lap
  later are all different and for which the halves of the counter range are seen.
* 18 bytes take the transmit counters through two wraps and into a third lap, so
  that every branch of `on_tx_tc` is taken before, at and after a wrap, and lengths
  to 5 exceed the capacity, so that `rb_put` truncates. 9 bytes take the receive
  counters through a wrap.
* `MaxLatency` 1 is the largest the receive path tolerates at `Capacity` 4, which
  is less than half a buffer: with 2 a whole lap fits between two readings of
  `CNDTR`, they are equal, and `Accounted` fails. For the ring of 512 bytes that
  `main.c` gives its second port this is 255 bytes, 22 ms at 115200 baud.
* In `ApiTx` a message of 3 bytes and a ring of 2 fill the ring in mid-message, so that
  the mutex changes hands there; `uart_printf` is cut to `UART_PRINTF_BUF - 1`, here 2.
  The third call is made by a task whose first is over, against one still running. That
  two tasks are enough for mutual exclusion is not left to the bound: it is proved for
  any number.
* In `ApiRx` the tick count has 5 values, so that every wait begins before, at and after
  a wrap and some last beyond it. The bounds keep `Timeouts` + 2 `Lag` below `Ticks`
  where a call has a timeout, as 2^32 is above any in use: a call that is late by the
  whole range of the clock cannot tell. Sleeps of 2 ticks (`Poll`, `YieldPoll`) are at
  once the whole of a timeout of 2 and a part of `portMAX_DELAY`. `Lag` 1 lets a tick
  come while the scheduler is suspended, so that ticks are counted late. Two bytes fill
  half a ring of 4, so that they may come by HT, by the idle line, or one by each.
* In `Lifecycle` three openings let a transfer of the first be mistaken for one of the
  second while the third is opened. Three bytes let a completion find less, as much and
  more in the ring than it counts. Half of a receive buffer may fill as soon as the
  channel is on, so that the run reaches the fault of `on_rx_ht` and `on_rx_tc`, which
  use `g_handle` before `uart_dma.c:77` sets it; `FaultsOnlyUnpublished` confines faults
  to those few instructions. `Sizes` has powers of two only, as `项目说明.md` asks of the
  caller. With {3} `ReadyWhenOpen` fails, because `rb_init` refuses the size and nobody
  looks: a hazard in `PROJECT.json` that no property covers.
* Deadlock is checked in every run but those of `ApiTx`, which stop when all calls are
  made (that no call hangs is `CallsEnd`), of `ApiRx`, which stop in FreeRTOS's assertion,
  and of `Lifecycle`, which stops in the malloc-failed hook (`main.c:127`), in a fault, or
  when the openings are used up.

Every property is paired in `PROJECT.json` with a mutation of the code that breaks
it (a forgotten test, a missing wrap, a release too early), and TLC finds each.

## 6. Fairness

`TxPath!FairSpec` assumes: the channel moves bytes while enabled (hardware); a
pending, unmasked interrupt is taken (the priority is above everything that masks
interrupts in this program); a task inside the driver keeps running (FreeRTOS runs
the highest-priority ready task, and nothing in the driver waits for another task);
a wait of ten ticks ends. It does not assume that anyone calls the driver, nor that
a timeout strikes, nor that a notification arrives: `FlushEnds` holds by the polling
alone, with `tx_task` NULL as `main.c` leaves it. The repository says the contrary of
this case: see the end of section 8.

`RxPath!FairSpec` assumes: the line falls quiet after the last byte; pending
interrupts are taken and handlers finish; and a task asks for data again and again,
as `echo_task` does (`main.c:48-96`). Only weak fairness is used.

`ApiTx!FairSpec` assumes that the driver keeps sending (`KeepsSending` of `TxPath`),
that a task inside a call that can go on does, without its time ever having to be up
(`Proceed`; that a take is refused or a timeout strikes may happen and need not), and,
strongly, that a mutex given back again and again comes to each task that waits for it.
FreeRTOS gives it to the waiting task of the highest priority, so this holds among tasks
of one priority, not across priorities.
`CallsEnd` also rests on the bound on calls: a blocking send ends once the others stop
filling the ring. With tasks that send forever the code promises no more than this, since
a sender that finds the ring full goes back behind the others for a tick.

`ApiRx!FairSpec` assumes that time passes as long as the system has not stopped in the
assertion: ticks go on coming. `HearsBytes` therefore speaks of the behaviours in which no
idle line finds a task noted, those of a line that never pauses before HT or TC has counted
its bytes; of the others it says only that they stop. Calls keep the processor
busy over `Lag` ticks at most, so that this lets them run on, and it is all `HearsBytes`
needs: not that a handler announces anything, since bytes that HT or TC counts are found
by polling alone.

`Lifecycle!FairSpec` assumes that a channel that is on completes its transfer and that a
completion that is pending and enabled is taken; not that anyone opens or closes.

## 7. The proofs

The named assumptions of the modules (`RingAssumption`, `RingBufferAssumption`,
`TxPathAssumption`, `RxPathAssumption`, `KernelAssumption`, `TaskNotifyAssumption`,
`ApiTxAssumption`, `ApiRxAssumption`, `LifecycleAssumption`) are all that is assumed of
the constants: `Capacity` is positive, below `Word` and divides it; nobody is not a task;
the others have their types. Where a theorem needs a condition that the code leaves to
its users it is a hypothesis of the theorem: `Paced` and `NotLate`, `~Preempted`,
`TimesFit` and `SizesFit`, below. Every invariant and action property that a passing run
checks is stated by a theorem.

**`RingTheorems`**: lemmas on the arithmetic of counters that wrap, for the proofs about
the modules that use it: `AvailableAfterPut` (publishing what fits adds to what is available, across a wrap),
`AvailableSplits` (distances on the circle of counters add up), `SlotIgnoresWrap`
(`counter & mask` is unaffected by the wrap), `SlotsDistinct` (bytes less than a
buffer apart never share a slot), `SlotAfterPlus`.

**`TxPathProofs`**:

| theorem | states |
|---|---|
| `TypeIsInvariant` | `Spec => []TypeOK` |
| `InvariantHolds` | `Spec => []TxInvariant` |
| `NoneStranded`, `IdleIsSent`, `FlushIsSent`, `RoomIsAlwaysSent`, `CopyIsClearOfDma` | the safety properties of the runs |
| `NeverReprogrammed` | the action property |
| `ImplementsByteStream` | the transmit path implements `ByteStream` |

None of the safety properties is inductive. `NoStranded`, for instance, says nothing
of what the channel is doing, so a handler step from an arbitrary state that
satisfies it may go idle with bytes left. The invariant `TxInvariant` says who owns
the transfer at each moment:

* `RestPart`: idle, the channel is at rest and all that was released is sent;
* `KickPart`: from its test of `idle` to `CCR.EN`, the task alone has the channel,
  and `segment` is still what the counters say;
* `FlightPart` with `Transfer`: otherwise the registers hold the transfer `tx_kick`
  chose: `addr` is the tail's slot plus the bytes sent, and what is sent plus
  `CNDTR` is the distance to `kick_head`, or to the wrap of the counters when the
  rest is chained;
* `RingPart`, `CopyPart`, `ContentPart`, `WirePart`: the ring is not overfull, what
  `rb_put` decided to copy still fits, the slots from the tail on hold the next
  bytes of the stream, and the wire carries byte i at place i, or `Beyond`.

The proof that a step preserves it has one theorem per action (`SendInvariant`,
`CopyInvariant`, ... `IdleInvariant`), put together in `StepInvariant`. Two facts
carry the weight. `SegmentMeaning`: while the ring holds at most `Capacity` bytes,
the comparison of unmasked counters in `tx_kick` takes its second branch only when
the counters have wrapped between tail and head, and the chained transfer is then
right. `TailMoves`: advancing the tail over bytes that are held keeps the rest
where they are.

That `wire` may carry `Beyond` is part of what is proved, not an omission: see
`tx_overrun` below. `InsideUnlessRound` and `RightUnlessRound` say where it comes from: as
long as the bytes in the ring lie before the buffer's end (`Straight`), whatever the
counters, `InsideBuffer` holds and each byte is sent as it is.

**`ApiTxProofs`**, for any set of tasks and any number of calls: `DriverIsAlone`,
`FlushIsComplete` and `ForeverIsShortIfRefused` are the properties `OneTaskInDriver`,
`FlushLeavesNothing` and `ForeverShortIfRefused`. The invariant, `ApiTxInvariant`, says that
the mutex is held by exactly the task that stands where the code needs it (`Tenure`),
which calls come to which places (`Course`), and with what a call reaches its last
`xSemaphoreGive` (`Last`); a flush stays true up to there because nobody else can be at
`Put`, which is `Tenure` again.

`CallsAreTyped` adds `TypeOK`: what a task has read as free space the driver still has
when it puts, because nobody else puts meanwhile.

`ReportsAreTrue` is `ReportsWhatItSent`. Its invariant, `Reports`, says for each task that
the bytes of its call in the stream are the first of the message, in order, and as many
as the call counts (`Reported`, with `Sent`); that no byte in the stream is of a call not
yet made, so that a new one starts from nothing (`Begun`); and where a call has sent
nothing, so that it may say that it has failed (`Early`). `OwnSent` and `OthersSent` are
what a put does to the message it is for and to all others.

`UndividedUnlessBackOff` bounds what `api_mixed` shows: the messages of a task that never
takes `BackOff` stay in one piece, whatever the other tasks do, for it then has the mutex
from the first byte to the last (`Undivided`); so with no `BackOff` at all `Unmixed` holds
(`UnmixedUnlessFull`).

**`RingBufferProofs`**: `RingIsQueue`, that `ringbuffer.c` implements `ByteQueue`, with
`RingTyped`, `RingBounded` and `RunsStayInside` for `TypeOK`, `Bounded` and
`ContigInside`. The invariant is that the ring is not overfull and that the slots from
tail to head hold bytes that were written; the refinement reads the queue out of the
buffer, and one lemma per operation says what that operation makes of it (`StoredAt`: a
put leaves the bytes at their slots and no other slot changed, also when the copy is in
two pieces).

**`RxPathProofs`**: `RxTyped` is `TypeOK`, whatever the line does. Under `Paced` (the
line does not outrun the reader) and `NotLate` (`MaxLatency` is less than half a
buffer), `EveryByteCounted` and `EveryByteInOrder` are `Accounted` and
`DeliversStream`. Their invariant, `RxInvariant`:

* `DistancePart`: while no flag waits, the channel is in the half of the buffer in which
  `CNDTR` was last read; while one does, it is no more than half a buffer and its
  latency away, which is less than a lap. This is what makes a difference of two
  readings of `CNDTR` a number of bytes, and why `NotLate` is needed;
* `CountPart`: what was given back, what is available and what `CNDTR` still has to
  tell add up to what was received, and fit the buffer. In the middle of a flush, whose
  head is already 0, the available bytes are counted from 0;
* `GetPart`: what `rb_get` decided to copy is held, although the handler moves the head
  between its reads;
* `StreamPart`, until the first flush: the channel is at the slot of the next byte, the
  tail at the slot of the next to be given back, and the slots between hold the bytes.

`HeldFitsWhenPaced` and `ReadOnceUntilFlush` are the two properties that the violation
runs refute, where they do hold: under both conditions the ring never claims to hold more
than fits, but between the two assignments of a flush, and until a flush no byte is handed
out twice.

**`LifecycleProofs`**, for any number of openings and whatever fills when:
`LifecycleTyped`, `FaultsAreUnpublished`, `DmaStaysInside`, `HearsWhenOpen` (under
`SizesFit`: sizes are powers of two), `NothingLeft` and `CountsItsOwn` are the six
invariants of the run. The inductive one
says for every statement of opening and closing what is allocated, enabled, registered
and on when the task is there (`WhileOpening`, `WhenOpen`, `WhileClosing`,
`WhenClosed`), and of a transfer under way or completed that it is the handle's own and
that its interrupt is enabled (`Transfers`).

**`TaskNotifyProofs`**, for any number of tasks and any width of the tick count, has the
invariant `NotifyInvariant` of what a task waits with, and one lemma for each step of
`ulTaskNotifyTake`, for a tick and for a notice from an interrupt, that it is kept:

* `InOrder`: a delayed task's time to wake lies ahead of the count if it is in the current
  list and behind it if it is in the overflow list, and `xNextTaskUnblockTime` is no later
  than the first of the current list;
* `SuspenderPart`: the scheduler is suspended exactly while a task is between `NotifyMark`
  and `xTaskResumeAll`; only then are ticks pended and tasks kept ready aside;
* `SleeperPart`, `NoticePart`: who is delayed is inside `ulTaskNotifyTake`, and as long as
  his notification is 0 he is marked as waiting; if it came while the scheduler was
  suspended, he is among those made ready when it is resumed.

`Ticked` counts late ticks one by one, by a recursive function. The library's induction
theorems cannot be used, but that a set of numbers has a least member can
(`LeastOf`, from `WellFoundedInduction`), and induction over a set follows from it
(`SetInduction`): `TicksKeepOrder` is proved that way. `LaterTwice` and `ElapsedTicks` are
the arithmetic of a clock that wraps.

**`ApiRxProofs`**, for any number of tasks, bytes and ticks:

| theorem | states | if |
|---|---|---|
| `ReaderInvariantHolds` | `ReaderInvariant`: `NotifyInvariant`, which calls come where (`CoursePart`), what a call makes of the clock (`ClockPart`) | |
| `ListsSwitchEmptyHolds` | `ListsSwitchEmpty` | |
| `RecvIsInTime` | `RecvInTime` | `TimesFit` |
| `AnnouncedWakesOrHalts` | `halted \/ AnnouncedWakes` | |
| `EmptyOnlyOnTimeout` | `EmptyMeansTimeout` | `~Preempted` |
| `ReaderTypeOK` | `TypeOK` | `~Preempted` |
| `TurnsHandOutOnce` | `HandsOutOnce` | `~Preempted` |

`TimesFit` says that a timeout is `portMAX_DELAY`, or with twice `Lag` still below the range
of the tick count; a longer one cannot be told from a short one by a difference of two
readings. `AnnouncedWakesOrHalts` needs no condition on the priority: at one that the
kernel allows, nothing halts and no wake-up is lost; at the one the code sets, the
assertion is what loses it (`api_halts`). What the proofs rest on beyond
`ReaderInvariant`:

* `TimePart`: for a task that is asleep, the age of its call and what it still has to sleep,
  less the ticks that are pended, stay within the timeout and `Lag`; for one that is
  awake, its age does, up to the ticks in which others have kept the processor since;
* `AnnouncePart`, until the system halts: when the line is quiet all bytes have been counted, and a task that waits
  for bytes that are there has a notice;
* `TurnInvariant`: a task inside `rb_get` does not sleep, there is one at most, and what is
  handed out is what has been let go of and what that task has copied; `HoldPart`: what a
  task in `rb_get` has found nobody takes from it. `api_readers` shows that without turns
  this is false.

Only model-checked: liveness (`KeepsSending`, `FlushEnds`, `KeepsDelivering`,
`MutexComesBack`, `CallsEnd`, `HearsBytes`, `SendsWhenOpen`), since ENABLED is out of the
prover's reach.

## 8. What the violation runs show

* **`tx_overrun`, `InsideBuffer`.** `tx_kick` compares `tail < head` on free-running
  counters, which is true of nearly every non-empty ring: a transfer that goes round
  the end of the buffer is started as one segment of `head - tail` bytes and the
  channel reads on past the buffer. The documents describe two segments
  (`项目说明.md:111-113`). The two-segment branch is taken only when the counters
  themselves wrap at 2^32. The rest of the path is right about it, which is why
  everything else holds: bytes are counted and released correctly, and what is sent
  in the place of a wrapped byte is whatever follows the buffer. Bytes that do not go
  round the end are not affected (`RightUnlessRound`).
* **`api_halts`, `AnnouncedWakes`.** The handlers run at priority 4, above
  `configMAX_SYSCALL_INTERRUPT_PRIORITY` 5, and call `vTaskNotifyGiveFromISR`, which
  asserts against exactly this and stops the system: with a task in `uart_recv` or
  `uart_yield`, which note it in `rx_task` (`uart_api.c:84`, `:166`), at the first idle
  line (`uart_dma.c:176`). The documents say that the notice wakes the reader
  (`框架原理.md:264`, `:269`). The repository has met the effect, a `uart_recv` that gets
  no data, and blames `tx_task` being NULL for it (`README.md:247`,
  `debug-journal.md:276-291`, `:324`), which `on_idle` never reads; the priority was
  lowered to 4 in the course of an earlier repair (`debug-journal.md:320`). The same
  happens to transmission (`uart_dma.c:144`, `GiveHalts` of `TxPath`) in a port that a
  task opens. It does not show in the demo because `main.c` opens the ports before the
  scheduler runs, so that both tasks are NULL, and polls. Raising the number to 5 would
  be the correction: `AnnouncedWakesOrHalts` then says that no wake-up is lost.
* **`rx_overrun`, `HeldFits`.** On overrun `rb_advance_head` moves the tail from the
  interrupt, between the load and the store of `rb_get`'s `tail += len`: the store
  puts the old tail back, the ring then claims to hold more than `Capacity`,
  `rb_free_space` underflows, and the tail is not corrected any more. The documents
  promise a single writer of each counter and that the newest `Capacity` bytes are
  readable. With a line that does not outrun the reader it does not happen
  (`HeldFitsWhenPaced`).
* **`rx_flush`, `ReadOnce`.** `uart_dma_rx_flush` sets both counters to zero while
  the channel stays where it is in the buffer: from then on the counters and the
  channel disagree about slots, and the reader is given bytes it already had.

* **`api_mixed`, `Unmixed`.** `uart_send` gives the mutex back when the ring is full, in
  the middle of a message, so that another task's message comes between its parts. The
  documents say that the mutex keeps messages apart (`README.md:31`,
  `框架原理.md:284`, `项目说明.md:194`). It does for messages that fit the free space
  (`UnmixedUnlessFull`).
* **`api_readers`, `HandsOutOnce`.** Nothing locks the receiving half. Two tasks inside
  `rb_get` read the same tail, copy the same bytes and both move the tail over them, so
  that later bytes are dropped. The documents promise concurrent use of a port
  (`项目说明.md:11`) and the header says thread-safe (`uart_api.h:2`).

Two more disagreements, which no violation run shows because the properties concerned
hold in the passing runs:

* **A flush without a notice.** `src/README.md:248` says that `uart_tx_flush` depends on
  the notice to `tx_task`, to be noted with `uart_dma_set_tx_task`, a function that the
  repository does not have; `debug-journal.md:291` says that with `tx_task` NULL it ends
  by its timeout; `main.c:62` waits 50 ms instead, to avoid a "`uart_tx_flush`
  notification issue". The code does not need the notice: it waits at most 10 ms at a
  time and looks at the ring and at `idle` again (`uart_dma.c:114-117`). `tx_path` checks
  exactly this case, `tx_task` NULL: `FlushEnds` needs no timeout to strike, so that a
  flush without a notice ends because all is sent, and `FlushMeansSent` says that the
  `true` it returns is true. What the notice would save is up to 10 ms of waiting.
* **The order in the idle interrupt.** `项目说明.md:263` advises reading the channel's count
  before clearing the IDLE flag; `uart_port.c:202` clears the flag and then reads. The
  code's order is the right one: with the other, bytes that end between the reading and
  the clearing are announced by nothing (`KeepsDelivering`).

## 9. What is not modelled

* The vendored code: most of FreeRTOS (priorities, queues, the mutex's inheritance, the
  heap), the HAL, CMSIS, start-up, linker and RTE files. Of some 77 600 lines in the
  repository all but about 1100 are of this kind. Their behaviour enters where the stack
  depends on it: notifications, delays and ticks (`TaskNotify`), the assertion in
  `vTaskNotifyGiveFromISR` (`Kernel`), a mutex (`ApiTx`), DMA and USART flags. The rest
  is headers of register addresses and drivers for devices that the program does not
  use; a model of it would say nothing about this program, and so the share of all lines
  that is modelled stays small although of the program's own files under
  `src/Framework` nearly everything is.
* Clock, pin and baud setup (`msp_init`, most of `uart_port_init`): register writes
  without interaction.
* UART line errors: `on_error` does nothing.
* The echo and loopback tasks of `main.c` as such; what they do to the driver is
  among the behaviours of `RxPath` and `TxPath`.
* How long a call of the sending API takes: it takes the mutex again with its whole
  timeout each time round (`uart_api.c:68`), and does not look at the time while there
  is room.
* Calls that overlap an opening or a closing. `uart_deinit` deletes the handle and the
  mutex without taking it (`uart_api.c:46`); nothing in the code keeps a task in
  `uart_send` from using them, and no document says that one may or may not.
* Which callback and argument `uart_yield` calls (`uart_api.c:174` reads the pointer
  twice and the argument apart from it), and frames: bytes have no frames in the model.
* Two ports at once: they share nothing but the kernel.

## 10. Plan

Done, in the order of what matters most to the program's users: `Ring`, `RingBuffer`
and the proof that it is a queue; `TxPath` with its invariant and proofs; `RxPath` with
its own; `ApiTx` and its proofs; `TaskNotify` and `ApiRx` with theirs; `Lifecycle` and its
proofs. All safety properties of the runs are proved.

What could follow: `ApiTx` over `TaskNotify`, so that the repeated timeouts of
`uart_api.c:68` are counted; calls that overlap `uart_deinit`, should the program come to
promise something of them; what the rings of both paths do to their bytes as a refinement
of `ByteQueue`, so that the three uses of `ringbuffer.c` share one abstract
specification.
