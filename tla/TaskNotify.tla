----------------------------- MODULE TaskNotify -----------------------------
(***************************************************************************)
(* The part of src/FreeRTOS/tasks.c that lets a task wait for a notice or  *)
(* for its time to pass, as FreeRTOSConfig.h configures it: one core, no   *)
(* vTaskSuspend, a tick count of Ticks values that wraps.                  *)
(*                                                                         *)
(* A task waits with ulTaskNotifyTake(pdTRUE, w), in steps between which   *)
(* interrupts come: it suspends the scheduler, marks itself as waiting,    *)
(* moves itself to the list of delayed tasks and resumes the scheduler.    *)
(* An interrupt gives a notice with vTaskNotifyGiveFromISR, the tick       *)
(* interrupt wakes the tasks whose time has come.                          *)
(*                                                                         *)
(* The lists are kept as the list that each task's state item is in.  Of   *)
(* the ready list only membership is kept; who runs is the business of the *)
(* module that extends this one.                                           *)
(***************************************************************************)
EXTENDS Kernel, FiniteSetsExt

CONSTANTS Task,     \* the tasks
          Nobody,   \* no task, NULL
          Ticks     \* number of values of a TickType_t

ASSUME TaskNotifyAssumption == /\ Nobody \notin Task
                               /\ Ticks \in Nat \ {0, 1}

VARIABLES delays,        \* tick count, delayed lists, time of the next wake-up
          suspender,     \* who has the scheduler suspended
          pended,        \* xPendedTicks
          pendingReady,  \* xPendingReadyList
          value, state,  \* ulNotifiedValue, ucNotifyState
          step,          \* where each task is in ulTaskNotifyTake, or "out"
          ticks,         \* xTicksToWait
          halted         \* stopped in a configASSERT

notifyVars == <<delays, suspender, pended, pendingReady, value, state, step,
                ticks, halted>>

portMAX_DELAY == Ticks - 1

Now == delays.now     \* xTaskGetTickCount

Later(time, n) == (time + n) % Ticks            \* + and - of a TickType_t

Elapsed_NoWrap(since) == IF Now < since THEN 0 ELSE Now - since  \* mutant
Elapsed(since) == (Now - since) % Ticks

NotifyInit ==
    /\ delays = [now    |-> 0,
                 next   |-> portMAX_DELAY,
                 list   |-> [t \in Task |-> "ready"],
                 wake   |-> [t \in Task |-> 0]]
    /\ suspender = Nobody /\ pended = 0 /\ pendingReady = {}
    /\ value = [t \in Task |-> 0]
    /\ state = [t \in Task |-> "not_waiting"]
    /\ step = [t \in Task |-> "out"]
    /\ ticks = [t \in Task |-> 0]
    /\ halted = FALSE

Ready(t) == delays.list[t] = "ready"

-----------------------------------------------------------------------------
(* The delayed lists.  xNextTaskUnblockTime is the time of the first task  *)
(* in the current one.                                                     *)
Delayed(list) == {t \in Task : list[t] = "delayed"}

NextUnblockTime(list, wake) ==
    IF Delayed(list) = {} THEN portMAX_DELAY
                          ELSE Min({wake[t] : t \in Delayed(list)})

(* When the count wraps, the overflow list becomes the current one.        *)
Switched(list) ==
    [t \in Task |-> IF list[t] = "overflow" THEN "delayed" ELSE list[t]]

(* xTaskIncrementTick, while the scheduler is not suspended.               *)
TickedOnce(d) ==
    LET now  == Later(d.now, 1)
        list == IF now = 0 THEN Switched(d.list) ELSE d.list
        next == IF now = 0 THEN NextUnblockTime(list, d.wake) ELSE d.next
        left == [t \in Task |-> IF list[t] = "delayed" /\ d.wake[t] <= now
                                THEN "ready" ELSE list[t]]
    IN  IF now < next
        THEN [d EXCEPT !.now = now, !.list = list, !.next = next]
        ELSE [d EXCEPT !.now = now, !.list = left,
                       !.next = NextUnblockTime(left, d.wake)]

Ticked(d, n) ==
    LET after[i \in 0 .. n] == IF i = 0 THEN d ELSE TickedOnce(after[i - 1])
    IN  after[n]

TickInterrupt ==
    /\ IF suspender = Nobody
       THEN delays' = TickedOnce(delays) /\ UNCHANGED pended
       ELSE pended' = pended + 1 /\ UNCHANGED delays
    /\ UNCHANGED <<suspender, pendingReady, value, state, step, ticks, halted>>

(* prvAddCurrentTaskToDelayedList.                                         *)
DelayedBy_OneList(d, t, n) ==   \* mutant: no overflow list
    LET wake == Later(d.now, n)
    IN  [d EXCEPT !.wake[t] = wake, !.list[t] = "delayed",
                  !.next = Min({d.next, wake})]

DelayedBy(d, t, n) ==
    LET wake == Later(d.now, n)
    IN  IF wake < d.now
        THEN [d EXCEPT !.wake[t] = wake, !.list[t] = "overflow"]
        ELSE [d EXCEPT !.wake[t] = wake, !.list[t] = "delayed",
                       !.next = Min({d.next, wake})]

-----------------------------------------------------------------------------
(* ulTaskNotifyTake(pdTRUE, w).  A notice that is there already is taken   *)
(* without waiting; otherwise the scheduler is suspended.                  *)
At(t, place) == ~halted /\ Ready(t) /\ step[t] = place

Goto(t, place) == step' = [step EXCEPT ![t] = place]

NotifyTest(t) ==
    /\ At(t, "test") /\ suspender = Nobody
    /\ IF value[t] = 0 /\ ticks[t] > 0
       THEN suspender' = t /\ Goto(t, "mark")
       ELSE Goto(t, "collect") /\ UNCHANGED suspender
    /\ UNCHANGED <<delays, pended, pendingReady, value, state, ticks, halted>>

(* The critical section: it masks the interrupts that may give a notice.   *)
NotifyMark(t) ==
    /\ At(t, "mark")
    /\ IF value[t] = 0
       THEN state' = [state EXCEPT ![t] = "waiting"] /\ Goto(t, "block")
       ELSE Goto(t, "resume") /\ UNCHANGED state
    /\ UNCHANGED <<delays, suspender, pended, pendingReady, value, ticks, halted>>

NotifyBlock(t) ==
    /\ At(t, "block")
    /\ delays' = DelayedBy(delays, t, ticks[t])
    /\ Goto(t, "resume")
    /\ UNCHANGED <<suspender, pended, pendingReady, value, state, ticks, halted>>

(* xTaskResumeAll: tasks that were given a notice meanwhile become ready,  *)
(* then the ticks that came meanwhile are counted.                         *)
xTaskResumeAll(t) ==
    LET list == [u \in Task |-> IF u \in pendingReady THEN "ready"
                                                      ELSE delays.list[u]]
        next == IF pendingReady = {} THEN delays.next
                                     ELSE NextUnblockTime(list, delays.wake)
    IN  /\ ~halted /\ suspender = t /\ step[t] = "resume"
        /\ suspender' = Nobody
        /\ pendingReady' = {}
        /\ delays' = Ticked([delays EXCEPT !.list = list, !.next = next], pended)
        /\ pended' = 0
        /\ Goto(t, "collect")
        /\ UNCHANGED <<value, state, ticks, halted>>

(* The task runs again, woken, timed out or never blocked.  (The time in   *)
(* its state item means nothing any more.)                                 *)
NotifyCollect(t) ==
    /\ At(t, "collect") /\ suspender = Nobody
    /\ value' = [value EXCEPT ![t] = 0]
    /\ state' = [state EXCEPT ![t] = "not_waiting"]
    /\ ticks' = [ticks EXCEPT ![t] = 0]
    /\ delays' = [delays EXCEPT !.wake[t] = 0]
    /\ Goto(t, "out")
    /\ UNCHANGED <<suspender, pended, pendingReady, halted>>

ulTaskNotifyTake(t) ==
    \/ NotifyTest(t) \/ NotifyMark(t) \/ NotifyBlock(t)
    \/ xTaskResumeAll(t) \/ NotifyCollect(t)

(* vTaskNotifyGiveFromISR.  A waiting task becomes ready at once, or when  *)
(* the scheduler is resumed.                                               *)
NotifyGiveFromISR(t) ==
    IF GiveFromISRHalts
    THEN /\ halted' = TRUE
         /\ UNCHANGED <<delays, pendingReady, value, state>>
    ELSE /\ value' = [value EXCEPT ![t] = @ + 1]
         /\ state' = [state EXCEPT ![t] = "received"]
         /\ delays' = IF state[t] = "waiting" /\ suspender = Nobody
                      THEN [delays EXCEPT !.list[t] = "ready"] ELSE delays
         /\ pendingReady' = IF state[t] = "waiting" /\ suspender # Nobody
                            THEN pendingReady \cup {t} ELSE pendingReady
         /\ UNCHANGED halted

(* A task calls ulTaskNotifyTake.                                          *)
WaitForNotice(t, n) ==
    /\ Goto(t, "test")
    /\ ticks' = [ticks EXCEPT ![t] = n]
    /\ UNCHANGED <<delays, suspender, pended, pendingReady, value, state, halted>>

-----------------------------------------------------------------------------
NotifyTypeOK ==
    /\ delays \in [now : 0 .. portMAX_DELAY, next : 0 .. portMAX_DELAY,
                   list : [Task -> {"ready", "delayed", "overflow"}],
                   wake : [Task -> 0 .. portMAX_DELAY]]
    /\ suspender \in Task \cup {Nobody}
    /\ pended \in Nat /\ pendingReady \subseteq Task
    /\ value \in [Task -> Nat]
    /\ state \in [Task -> {"not_waiting", "waiting", "received"}]
    /\ step \in [Task -> {"out", "test", "mark", "block", "resume", "collect"}]
    /\ ticks \in [Task -> 0 .. portMAX_DELAY]
    /\ halted \in BOOLEAN
=============================================================================
