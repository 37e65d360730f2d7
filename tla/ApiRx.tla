------------------------------- MODULE ApiRx --------------------------------
(***************************************************************************)
(* The receiving half of src/Framework/uart_api.c for one port: tasks that *)
(* call uart_recv, uart_recv_async and uart_yield, the receive interrupts  *)
(* that count bytes and notify h->rx_task, and the kernel's notifications, *)
(* delays and ticks (TaskNotify) that the waiting is made of.              *)
(*                                                                         *)
(* How the handlers work out the count and how rb_get stands up to them is *)
(* RxPath's subject; here a handler is one step, and the accesses of rb_get *)
(* matter between tasks.  A byte is named by its place among those         *)
(* received.                                                               *)
(*                                                                         *)
(* FreeRTOSConfig.h leaves INCLUDE_vTaskSuspend 0, so that a wait of       *)
(* portMAX_DELAY is one of that many ticks.                                *)
(***************************************************************************)
EXTENDS Sequences, TaskNotify

CONSTANTS Word,        \* number of values of a uint32_t
          Capacity,    \* size of the receive ring
          FrameBuf,    \* sizeof(f) in uart_yield
          Poll,        \* pdMS_TO_TICKS(10), the longest sleep in uart_recv
          YieldPoll,   \* pdMS_TO_TICKS(100), the longest in uart_yield
          Receiver, Yielder, \* the tasks that call uart_recv, uart_yield
          Timeouts,    \* bound: the timeouts that callers pass
          Lengths,     \* bound: the lengths they pass
          MaxBytes,    \* bound: bytes received in a behaviour
          Lag,         \* ticks that pass at most while a task is ready to run
          Preempted    \* whether a task may run while another's call does

ASSUME ApiRxAssumption == /\ Receiver \subseteq Task /\ Yielder \subseteq Task
                          /\ Capacity \in Nat \ {0}
                          /\ Word \in Nat /\ Capacity < Word
                          /\ FrameBuf \in Nat \ {0}
                          /\ Poll \in 1 .. portMAX_DELAY - 1
                          /\ YieldPoll \in 1 .. portMAX_DELAY - 1
                          /\ Timeouts \subseteq 0 .. portMAX_DELAY
                          /\ Lengths \subseteq Nat \ {0}
                          /\ MaxBytes \in Nat
                          /\ Lag \in Nat
                          /\ Preempted \in BOOLEAN

VARIABLES arrived,        \* bytes the channel has written
          head, tail,     \* h->rx_rb
          line,           \* the RX line
          rx_task,        \* h->rx_task
          rx_cb,          \* whether c->rx_cb is set
          pc, job,        \* where each task is, and the call it makes
          st, n,          \* its locals: the start, the length it takes
          handed,         \* history: the bytes handed out, in order
          lag,            \* ticks since the processor was last idle
          age             \* history: ticks since its call began

ring    == <<arrived, head, tail, line>>
api     == <<rx_task, rx_cb>>
locals  == <<pc, job, st, n>>
timing  == <<lag, age>>
vars    == <<notifyVars, ring, api, locals, handed, timing>>

(* rb_available: a difference of unsigned counters, which says of a tail   *)
(* that has passed the head that there is a great deal to read.            *)
Available == (head - tail) % Word

Jobs == [op : {"recv"}, len : Lengths, timeout : Timeouts]
        \cup [op : {"yield"}, len : {FrameBuf}, timeout : Timeouts]
        \cup [op : {"async"}, len : Lengths, timeout : {0}]

NoJob == [op |-> "none", len |-> 0, timeout |-> 0]

Init == /\ NotifyInit
        /\ arrived = 0 /\ head = 0 /\ tail = 0 /\ line = "quiet"
        /\ rx_task = Nobody /\ rx_cb = FALSE
        /\ pc = [t \in Task |-> "out"] /\ job = [t \in Task |-> NoJob]
        /\ st = [t \in Task |-> 0] /\ n = [t \in Task |-> 0]
        /\ handed = <<>>
        /\ lag = 0 /\ age = [t \in Task |-> 0]

-----------------------------------------------------------------------------
InCall(t) == pc[t] # "out"

(* Who may run: one at a time, none while another has the scheduler        *)
(* suspended, and when calls are not preempted, only while every other     *)
(* task is outside a call or asleep in it.                                 *)
Resting(t) == ~InCall(t) \/ step[t] = "collect"

MayRun(t) == /\ ~halted
             /\ suspender \in {t, Nobody}
             /\ Preempted \/ \A u \in Task \ {t} : Resting(u)

InCode(t, place) == MayRun(t) /\ Ready(t) /\ step[t] = "out" /\ pc[t] = place

KernelLeaves == UNCHANGED notifyVars

Jump(t, place) == pc' = [pc EXCEPT ![t] = place]

(* A call ends, and its locals with it.                                    *)
Return(t) ==
    /\ Jump(t, "out")
    /\ job' = [job EXCEPT ![t] = NoJob]
    /\ st' = [st EXCEPT ![t] = 0] /\ n' = [n EXCEPT ![t] = 0]
    /\ age' = [age EXCEPT ![t] = 0]
    /\ UNCHANGED lag

-----------------------------------------------------------------------------
(* The calls.  Those that wait note the task and the time (which nothing   *)
(* reads when they wait forever).                                          *)
Waits(j) == j.timeout \notin {0, portMAX_DELAY}

Call(t, j, place) ==
    /\ InCode(t, "out")
    /\ Jump(t, place)
    /\ job' = [job EXCEPT ![t] = j]
    /\ st' = [st EXCEPT ![t] = IF Waits(j) THEN Now ELSE 0]
    /\ UNCHANGED <<ring, rx_cb, handed, timing>>
    /\ KernelLeaves

uart_recv(t) ==
    /\ t \in Receiver
    /\ \E j \in Jobs : j.op = "recv" /\ Call(t, j, "look")
    /\ rx_task' = t
    /\ UNCHANGED n

uart_yield(t) ==
    /\ t \in Yielder
    /\ \E j \in Jobs : j.op = "yield" /\ Call(t, j, "look")
    /\ rx_task' = t
    /\ UNCHANGED n

uart_recv_async(t) ==
    /\ t \in Receiver
    /\ \E j \in Jobs :
          /\ j.op = "async" /\ Call(t, j, "get")
          /\ n' = [n EXCEPT ![t] = j.len]
    /\ UNCHANGED rx_task

uart_set_rx_callback ==
    /\ ~halted
    /\ rx_cb' = TRUE
    /\ UNCHANGED <<ring, rx_task, locals, handed, timing>>
    /\ KernelLeaves

-----------------------------------------------------------------------------
(* Are there bytes, and somebody to hand them to?                          *)
Wanted(t) == job[t].op = "recv" \/ rx_cb

Look(t) ==
    /\ InCode(t, "look") /\ Available > 0 /\ Wanted(t)
    /\ n' = [n EXCEPT ![t] = Min({job[t].len, Available})]
    /\ Jump(t, "get")
    /\ UNCHANGED <<ring, api, job, st, handed, timing>>
    /\ KernelLeaves

Idle(t) ==
    \/ InCode(t, "look") /\ ~(Available > 0 /\ Wanted(t))
    \/ InCode(t, "rest")

(* rb_get copies what there is, up to the length asked for, ...            *)
Get_Trusting(t) ==           \* mutant: takes the length asked for
    LET m == n[t]
    IN  /\ InCode(t, "get")
        /\ UNCHANGED n
        /\ handed' = handed \o [i \in 1 .. m |-> tail + i]
        /\ Jump(t, "advance")
        /\ UNCHANGED <<ring, api, job, st, timing>>
        /\ KernelLeaves

Get(t) ==
    LET m == Min({n[t], Available})
    IN  /\ InCode(t, "get")
        /\ n' = [n EXCEPT ![t] = m]
        /\ handed' = handed \o [i \in 1 .. m |-> tail + i]
        /\ Jump(t, "advance")
        /\ UNCHANGED <<ring, api, job, st, timing>>
        /\ KernelLeaves

(* ... and moves the tail.  uart_yield hands the bytes to the callback and *)
(* goes on, the others return.                                             *)
Advance_Recounts(t) ==       \* mutant: what is there now, not what was copied
    /\ InCode(t, "advance")
    /\ tail' = tail + Min({job[t].len, Available})
    /\ IF job[t].op = "yield"
       THEN /\ Jump(t, "rest")
            /\ n' = [n EXCEPT ![t] = 0]
            /\ UNCHANGED <<job, st, lag, age>>
       ELSE Return(t)
    /\ UNCHANGED <<arrived, head, line, api, handed>>
    /\ KernelLeaves

Advance(t) ==
    /\ InCode(t, "advance")
    /\ tail' = tail + n[t]
    /\ IF job[t].op = "yield"
       THEN /\ Jump(t, "rest")
            /\ n' = [n EXCEPT ![t] = 0]
            /\ UNCHANGED <<job, st, lag, age>>
       ELSE Return(t)
    /\ UNCHANGED <<arrived, head, line, api, handed>>
    /\ KernelLeaves

(* The time has passed, ...                                                *)
TimedOut_Absolute(t) ==      \* mutant: a deadline instead of a difference
    job[t].timeout # portMAX_DELAY /\ Now >= Later(st[t], job[t].timeout)

TimedOut(t) ==
    job[t].timeout # portMAX_DELAY /\ Elapsed(st[t]) >= job[t].timeout

GiveUp(t) ==
    /\ Idle(t)
    /\ TimedOut(t)
    /\ Return(t)
    /\ UNCHANGED <<ring, api, handed>>
    /\ KernelLeaves

(* ... or the task sleeps for what is left of it, but not for longer than  *)
(* the poll, and looks again.                                              *)
PollOf(t) == IF job[t].op = "recv" THEN Poll ELSE YieldPoll

Sleep(t) ==
    IF job[t].timeout = portMAX_DELAY THEN PollOf(t)
    ELSE Min({PollOf(t), job[t].timeout - Elapsed(st[t])})

Rest_Blindly(t) ==           \* mutant: does not look again
    /\ Idle(t)
    /\ ~TimedOut(t)
    /\ WaitForNotice(t, Sleep(t))
    /\ Jump(t, "rest")
    /\ UNCHANGED <<ring, api, job, st, n, handed, timing>>

Rest(t) ==
    /\ Idle(t)
    /\ ~TimedOut(t)
    /\ WaitForNotice(t, Sleep(t))
    /\ Jump(t, "look")
    /\ UNCHANGED <<ring, api, job, st, n, handed, timing>>

InNotifyTake(t) ==
    /\ MayRun(t)
    /\ ulTaskNotifyTake(t)
    /\ UNCHANGED <<ring, api, locals, handed, timing>>

-----------------------------------------------------------------------------
(* The line, and the handlers.  The channel reports each half of the       *)
(* buffer; an idle line is reported, counted and given notice of.          *)
DmaByte ==
    /\ arrived < MaxBytes
    /\ arrived - tail < Capacity
    /\ arrived' = arrived + 1
    /\ line' = "busy"
    /\ UNCHANGED <<head, tail, api, locals, handed, timing>>
    /\ KernelLeaves

on_rx_ht_tc ==
    /\ ~halted
    /\ \E half \in head + 1 .. arrived : half % (Capacity \div 2) = 0
    /\ head' = arrived
    /\ UNCHANGED <<arrived, tail, line, api, locals, handed, timing>>
    /\ KernelLeaves

on_idle ==
    /\ ~halted
    /\ line = "busy"
    /\ line' = "quiet"
    /\ head' = arrived
    /\ IF rx_task = Nobody THEN KernelLeaves
       ELSE /\ NotifyGiveFromISR(rx_task)
            /\ UNCHANGED <<suspender, pended, step, ticks>>
    /\ UNCHANGED <<arrived, tail, api, locals, handed, timing>>

(* A tick.  Calls keep the processor busy over Lag ticks at most.          *)
Busy == \E t \in Task : InCall(t) /\ (Ready(t) \/ suspender = t)

SysTick ==
    /\ ~halted
    /\ Busy => lag < Lag
    /\ TickInterrupt
    /\ lag' = IF Busy THEN lag + 1 ELSE 0
    /\ age' = [t \in Task |-> IF InCall(t) /\ job[t].timeout # portMAX_DELAY
                              THEN age[t] + 1 ELSE 0]
    /\ UNCHANGED <<ring, api, locals, handed>>

-----------------------------------------------------------------------------
Calls(t) == uart_recv(t) \/ uart_yield(t) \/ uart_recv_async(t)

Continue(t) == \/ Look(t) \/ Get(t) \/ Advance(t) \/ GiveUp(t) \/ Rest(t)
               \/ InNotifyTake(t)

Next == \/ DmaByte \/ on_rx_ht_tc \/ on_idle \/ SysTick
        \/ uart_set_rx_callback
        \/ \E t \in Task : Calls(t) \/ Continue(t)

Spec == Init /\ [][Next]_vars

(* Time passes until the system stops in an assertion.  Since calls keep   *)
(* the processor busy over Lag ticks at most, a task that is inside a call *)
(* then runs on.                                                           *)
FairSpec == Spec /\ (<>halted \/ []<><<SysTick>>_vars)

-----------------------------------------------------------------------------
(* TypeOK: while readers take turns the tail never passes the head: no     *)
(* call is told of bytes that have not come.                               *)
TypeOK ==
    /\ NotifyTypeOK
    /\ tail \in 0 .. head /\ head \in 0 .. arrived /\ arrived \in 0 .. MaxBytes
    /\ line \in {"busy", "quiet"}
    /\ rx_task \in Task \cup {Nobody} /\ rx_cb \in BOOLEAN
    /\ pc \in [Task -> {"out", "look", "get", "advance", "rest"}]
    /\ job \in [Task -> Jobs \cup {NoJob}]
    /\ st \in [Task -> 0 .. portMAX_DELAY] /\ n \in [Task -> Nat]
    /\ \A t \in Task : step[t] # "out" => InCall(t)
    /\ handed \in Seq(1 .. MaxBytes)
    /\ lag \in 0 .. Lag /\ age \in [Task -> Nat]

(* RecvInTime: a call with a timeout is over when that time has passed,    *)
(* give or take the ticks for which the processor was busy when it set its *)
(* clock and when it woke; also when the tick count, or the time to wake   *)
(* up, wraps.                                                              *)
RecvInTime ==
    \A t \in Task : InCall(t) => age[t] <= job[t].timeout + 2 * Lag

(* ListsSwitchEmpty: nobody is left in the current list of delayed tasks   *)
(* when the tick count is about to wrap, which taskSWITCH_DELAYED_LISTS    *)
(* asserts, however late a task's ticks were counted.                      *)
ListsSwitchEmpty == Now = portMAX_DELAY => Delayed(delays.list) = {}

(* AnnouncedWakes: a task in uart_recv that on_idle had to notify is not   *)
(* left asleep over the bytes that it announced, which the documents       *)
(* promise of every burst.  (on_idle's call of the kernel stops the system *)
(* instead, and the task with it.)                                         *)
AnnouncedWakes ==
    \A t \in Task :
        /\ line = "quiet" /\ tail < head /\ rx_task = t
        /\ job[t].op = "recv" /\ step[t] = "collect"
        => Ready(t) \/ t \in pendingReady

(* HandsOutOnce: bytes are handed out in the order in which they came,     *)
(* each once, and none is let go of before it has been.                    *)
HandsOutOnce == /\ handed = [i \in 1 .. Len(handed) |-> i]
                /\ tail <= Len(handed)

(* EmptyMeansTimeout: uart_recv comes back with nothing only when its      *)
(* timeout has passed, whatever other notices and wake-ups it had.         *)
EmptyMeansTimeout ==
    [][\A t \in Task :
          job[t].op = "recv" /\ InCall(t) /\ pc'[t] = "out" /\ n[t] = 0
              => age[t] >= job[t].timeout]_vars

(* HearsBytes: a task inside uart_recv gets the bytes that HT and TC have  *)
(* counted, which nobody announces, by polling, unless they go to another, *)
(* for as long as no idle line stops the system in on_idle.                *)
HearsBytes ==
    \A t \in Receiver :
        job[t].op = "recv" /\ Available > 0
            ~> job[t].op # "recv" \/ Available = 0 \/ halted
=============================================================================
