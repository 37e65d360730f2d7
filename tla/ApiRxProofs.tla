---------------------------- MODULE ApiRxProofs -----------------------------
(***************************************************************************)
(* What the receiving API promises, for any number of tasks, timeouts and  *)
(* bytes and any width of the tick count.                                  *)
(*                                                                         *)
(* To readers that take turns (no task runs while another is inside a      *)
(* call, unless that one sleeps): each byte is handed out once, in order,  *)
(* and uart_recv comes back with nothing only when its timeout has passed. *)
(* To whoever reads: a call is over in time, no wake-up is lost, and the   *)
(* kernel's delayed lists switch when they should.                         *)
(***************************************************************************)
EXTENDS ApiRx, TaskNotifyProofs, SequenceTheorems

Taking == {"get", "advance"}

(* What the argument needs of types.  No byte is counted that has not      *)
(* come, none let go of that has not been counted.                         *)
Kinds == /\ pc \in [Task -> {"out", "look", "get", "advance", "rest"}]
         /\ job \in [Task -> Jobs \cup {NoJob}]
         /\ n \in [Task -> Nat]
         /\ step \in [Task -> {"out", "test", "mark", "block", "resume", "collect"}]
         /\ handed \in Seq(Nat)
         /\ arrived \in Nat /\ head \in 0 .. arrived /\ tail \in 0 .. head

(* A task inside rb_get does not sleep, and is the only one there.         *)
Awake == \A t \in Task : pc[t] \in Taking => step[t] = "out"

Alone == \A s, t \in Task : pc[s] \in Taking /\ pc[t] \in Taking => s = t

(* What has been handed out is what has been let go of, and what the task  *)
(* about to move the tail has copied.                                      *)
Cursor == /\ \A i \in 1 .. Len(handed) : handed[i] = i
          /\ \A t \in Task : pc[t] = "advance" =>
                 tail + n[t] = Len(handed) /\ tail + n[t] <= head
          /\ (\A t \in Task : pc[t] # "advance") => tail = Len(handed)

TurnInvariant == Kinds /\ Awake /\ Alone /\ Cursor

-----------------------------------------------------------------------------
(* The smaller of two numbers.                                             *)
LEMMA MinOfTwo ==
    ASSUME NEW a \in Nat, NEW b \in Nat
    PROVE  /\ Min({a, b}) \in Nat /\ Min({a, b}) \in {a, b}
           /\ Min({a, b}) <= a /\ Min({a, b}) <= b
<1>1. {a, b} \subseteq Nat /\ {a, b} # {}
  OBVIOUS
<1>2. Min({a, b}) \in {a, b} /\ \A y \in {a, b} : Min({a, b}) <= y
  BY <1>1, MinOfNumbers, Zenon
<1> QED
  BY <1>2

(* What rb_available says is a number, and while the tail is not past the  *)
(* head no more than there is.                                             *)
LEMMA AvailableIsNumber ==
    ASSUME head \in Nat, tail \in Nat
    PROVE  /\ Available \in Nat
           /\ tail <= head => tail + Available <= head
<1>1. Word \in Nat \ {0}
  BY ApiRxAssumption DEF ApiRxAssumption
<1>2. \A x \in Int : x % Word \in Nat
  BY <1>1
<1>3. \A x \in Nat : x % Word <= x
  BY <1>1
<1> QED
  BY <1>2, <1>3 DEF Available

(* Sizes are numbers, and so are lengths.                                  *)
LEMMA CapacityIsNumber == Word \in Nat /\ Capacity \in Nat \ {0} /\ Capacity < Word
BY ApiRxAssumption DEF ApiRxAssumption

LEMMA LengthsAreNumbers ==
    \A j \in Jobs \cup {NoJob} : j.len \in Nat
<1>1. Lengths \subseteq Nat /\ FrameBuf \in Nat
  BY ApiRxAssumption DEF ApiRxAssumption
<1>2. ASSUME NEW j \in [op : {"recv"}, len : Lengths, timeout : Timeouts]
      PROVE  j.len \in Nat
  BY <1>1
<1>3. ASSUME NEW j \in [op : {"yield"}, len : {FrameBuf}, timeout : Timeouts]
      PROVE  j.len \in Nat
  BY <1>1
<1>4. ASSUME NEW j \in [op : {"async"}, len : Lengths, timeout : {0}]
      PROVE  j.len \in Nat
  BY <1>1
<1>5. NoJob.len \in Nat
  BY DEF NoJob
<1> QED
  BY <1>2, <1>3, <1>4, <1>5 DEF Jobs

(* While a task runs, no other is inside rb_get.                           *)
LEMMA OthersRest ==
    ASSUME ~Preempted, Awake, NEW t \in Task, MayRun(t)
    PROVE  \A u \in Task \ {t} : pc[u] \notin Taking
BY DEF MayRun, Resting, InCall, Awake, Taking

(* Steps that leave the calls where they are: the line, the handlers, the  *)
(* tick, and the kernel.                                                   *)
LEMMA QuietHolds ==
    ASSUME TurnInvariant, UNCHANGED <<pc, job, n, handed, tail>>,
           arrived' \in Nat, head' \in 0 .. arrived', head <= head',
           step' \in [Task -> {"out", "test", "mark", "block", "resume", "collect"}],
           \A u \in Task : step[u] = "out" => step'[u] = "out"
    PROVE  TurnInvariant'
<1>1. tail' \in 0 .. head'
  BY DEF TurnInvariant, Kinds
<1>2. Kinds'
  BY <1>1 DEF TurnInvariant, Kinds
<1>3. Awake' /\ Alone'
  BY DEF TurnInvariant, Awake, Alone
<1>4. Cursor'
  BY DEF TurnInvariant, Kinds, Cursor
<1> QED
  BY <1>2, <1>3, <1>4 DEF TurnInvariant

(* A task that goes to a place outside rb_get, or begins it, without       *)
(* having copied anything.                                                 *)
LEMMA MoveHolds ==
    ASSUME ~Preempted, TurnInvariant, NEW t \in Task, MayRun(t),
           pc[t] # "advance",
           NEW place \in {"out", "look", "get", "rest"}, Jump(t, place),
           job' \in [Task -> Jobs \cup {NoJob}], n' \in [Task -> Nat],
           step' \in [Task -> {"out", "test", "mark", "block", "resume", "collect"}],
           \A u \in Task \ {t} : step'[u] = step[u],
           place = "get" => step'[t] = "out",
           UNCHANGED <<handed, arrived, head, tail>>
    PROVE  TurnInvariant'
<1>1. \A u \in Task \ {t} : pc[u] \notin Taking
  BY OthersRest DEF TurnInvariant
<1>2. /\ pc' \in [Task -> {"out", "look", "get", "advance", "rest"}]
      /\ pc'[t] = place /\ \A u \in Task \ {t} : pc'[u] = pc[u]
  BY DEF Jump, TurnInvariant, Kinds
<1>3. Kinds'
  BY <1>2 DEF TurnInvariant, Kinds
<1>4. \A u \in Task : pc'[u] \in Taking => u = t /\ place = "get"
  BY <1>1, <1>2 DEF Taking
<1>5. Awake' /\ Alone'
  BY <1>4 DEF Awake, Alone
<1>6. \A u \in Task : pc[u] # "advance" /\ pc'[u] # "advance"
  BY <1>1, <1>2 DEF Taking
<1>7. Cursor'
  BY <1>6 DEF TurnInvariant, Cursor
<1> QED
  BY <1>3, <1>5, <1>7 DEF TurnInvariant

(* rb_get copies.                                                          *)
LEMMA GetHolds ==
    ASSUME ~Preempted, TurnInvariant, NEW t \in Task, Get(t)
    PROVE  TurnInvariant'
<1> DEFINE m == Min({n[t], Available})
           copy == [i \in 1 .. m |-> tail + i]
<1>1. /\ MayRun(t) /\ step[t] = "out" /\ pc[t] = "get"
      /\ n' = [n EXCEPT ![t] = m]
      /\ handed' = handed \o copy
      /\ Jump(t, "advance")
      /\ UNCHANGED <<arrived, head, tail, job, step>>
  BY DEF Get, InCode, ring, KernelLeaves, notifyVars
<1>2. /\ pc \in [Task -> {"out", "look", "get", "advance", "rest"}]
      /\ n \in [Task -> Nat] /\ handed \in Seq(Nat)
      /\ arrived \in Nat /\ head \in 0 .. arrived /\ tail \in 0 .. head
  BY DEF TurnInvariant, Kinds
<1>3. m \in Nat /\ tail + m <= head
  <2>1. Available \in Nat /\ tail + Available <= head
    BY <1>2, AvailableIsNumber
  <2>2. m \in Nat /\ m <= Available
    BY <1>2, <2>1, MinOfTwo
  <2> HIDE DEF m
  <2> QED
    BY <1>2, <2>1, <2>2
<1>4. \A u \in Task \ {t} : pc[u] \notin Taking
  BY <1>1, OthersRest DEF TurnInvariant
<1>5. tail = Len(handed)
  BY <1>1, <1>4 DEF TurnInvariant, Cursor, Taking
<1> HIDE DEF m
<1>6. copy \in Seq(Nat) /\ Len(copy) = m
  <2>1. copy \in [1 .. m -> Nat]
    BY <1>2, <1>3
  <2> QED
    BY <1>3, <2>1
<1>7. /\ handed' \in Seq(Nat) /\ Len(handed') = tail + m
      /\ \A i \in 1 .. Len(handed') : handed'[i] = i
  <2>1. handed' \in Seq(Nat) /\ Len(handed') = Len(handed) + Len(copy)
    BY <1>1, <1>2, <1>6, ConcatProperties
  <2> HIDE DEF copy
  <2>2. \A i \in 1 .. Len(handed) + Len(copy) :
            handed'[i] = IF i <= Len(handed) THEN handed[i] ELSE copy[i - Len(handed)]
    BY <1>1, <1>2, <1>6, ConcatProperties
  <2>3. ASSUME NEW i \in 1 .. Len(handed')
        PROVE  handed'[i] = i
    <3>1. CASE i <= Len(handed)
      <4>1. i \in 1 .. Len(handed)
        BY <1>2, <3>1
      <4> QED
        BY <2>1, <2>2, <3>1, <4>1 DEF TurnInvariant, Cursor
    <3>2. CASE ~(i <= Len(handed))
      <4>1. i - Len(handed) \in 1 .. m /\ tail + (i - Len(handed)) = i
        BY <1>2, <1>3, <1>5, <1>6, <2>1, <3>2
      <4>2. copy[i - Len(handed)] = tail + (i - Len(handed))
        BY <4>1 DEF copy
      <4> QED
        BY <2>1, <2>2, <3>2, <4>1, <4>2
    <3> QED
      BY <3>1, <3>2
  <2> QED
    BY <1>5, <1>6, <2>1, <2>3
<1>8. /\ pc' \in [Task -> {"out", "look", "get", "advance", "rest"}]
      /\ n' \in [Task -> Nat]
      /\ pc'[t] = "advance" /\ n'[t] = m
      /\ \A u \in Task \ {t} : pc'[u] = pc[u]
  BY <1>1, <1>2, <1>3 DEF Jump
<1>9. Kinds'
  BY <1>1, <1>7, <1>8 DEF TurnInvariant, Kinds
<1>10. \A u \in Task : pc'[u] \in Taking <=> u = t
  BY <1>4, <1>8 DEF Taking
<1>11. Awake' /\ Alone'
  BY <1>1, <1>10 DEF Awake, Alone
<1>12. Cursor'
  BY <1>1, <1>3, <1>7, <1>8, <1>10 DEF Cursor, Taking
<1> QED
  BY <1>9, <1>11, <1>12 DEF TurnInvariant

(* ... and moves the tail over what it copied.                             *)
LEMMA AdvanceHolds ==
    ASSUME ~Preempted, TurnInvariant, NEW t \in Task, Advance(t)
    PROVE  TurnInvariant'
<1>1. /\ MayRun(t) /\ pc[t] = "advance"
      /\ tail' = tail + n[t]
      /\ UNCHANGED <<arrived, head, handed, step>>
  BY DEF Advance, InCode, KernelLeaves, notifyVars
<1>2. \E place \in {"out", "rest"} : Jump(t, place)
  BY DEF Advance, Return
<1>3. n' = [n EXCEPT ![t] = 0]
  BY DEF Advance, Return
<1>4. job' \in [Task -> Jobs \cup {NoJob}]
  <2>1. job' = job \/ job' = [job EXCEPT ![t] = NoJob]
    BY DEF Advance, Return
  <2> QED
    BY <2>1 DEF TurnInvariant, Kinds
<1>5. /\ pc \in [Task -> {"out", "look", "get", "advance", "rest"}]
      /\ n \in [Task -> Nat]
      /\ arrived \in Nat /\ head \in 0 .. arrived /\ tail \in 0 .. head
      /\ tail + n[t] = Len(handed) /\ tail + n[t] <= head
  BY <1>1 DEF TurnInvariant, Kinds, Cursor
<1>6. \A u \in Task \ {t} : pc[u] \notin Taking
  BY <1>1, OthersRest DEF TurnInvariant
<1>7. /\ pc' \in [Task -> {"out", "look", "get", "advance", "rest"}]
      /\ pc'[t] \in {"out", "rest"} /\ \A u \in Task \ {t} : pc'[u] = pc[u]
  BY <1>2, <1>5 DEF Jump
<1>8. tail' \in 0 .. head' /\ n' \in [Task -> Nat]
  BY <1>1, <1>3, <1>5
<1>9. Kinds'
  BY <1>1, <1>4, <1>7, <1>8 DEF TurnInvariant, Kinds
<1>10. \A u \in Task : pc'[u] \notin Taking
  BY <1>6, <1>7 DEF Taking
<1>11. Awake' /\ Alone'
  BY <1>10 DEF Awake, Alone
<1>12. Cursor'
  BY <1>1, <1>5, <1>10 DEF TurnInvariant, Cursor, Taking
<1> QED
  BY <1>9, <1>11, <1>12 DEF TurnInvariant

-----------------------------------------------------------------------------
(* What calls, and the tests they make, leave of the invariant.            *)
LEMMA CallHolds ==
    ASSUME ~Preempted, TurnInvariant, NEW t \in Task, Calls(t)
    PROVE  TurnInvariant'
<1>1. \E j \in Jobs, place \in {"look", "get"} :
          /\ MayRun(t) /\ step[t] = "out" /\ pc[t] = "out"
          /\ Jump(t, place)
          /\ job' = [job EXCEPT ![t] = j]
          /\ n' = n \/ n' = [n EXCEPT ![t] = j.len]
          /\ UNCHANGED <<step, handed, arrived, head, tail>>
  <2>1. CASE uart_recv(t)
    BY <2>1 DEF uart_recv, Call, InCode, KernelLeaves, notifyVars, ring
  <2>2. CASE uart_yield(t)
    BY <2>2 DEF uart_yield, Call, InCode, KernelLeaves, notifyVars, ring
  <2>3. CASE uart_recv_async(t)
    BY <2>3 DEF uart_recv_async, Call, InCode, KernelLeaves, notifyVars, ring
  <2> QED
    BY <2>1, <2>2, <2>3 DEF Calls
<1>2. PICK j \in Jobs, place \in {"look", "get"} :
          /\ MayRun(t) /\ step[t] = "out" /\ pc[t] = "out"
          /\ Jump(t, place)
          /\ job' = [job EXCEPT ![t] = j]
          /\ n' = n \/ n' = [n EXCEPT ![t] = j.len]
          /\ UNCHANGED <<step, handed, arrived, head, tail>>
  BY <1>1
<1>3. j.len \in Nat
  BY LengthsAreNumbers
<1>4. job' \in [Task -> Jobs \cup {NoJob}]
  BY <1>2 DEF TurnInvariant, Kinds
<1>5. n' \in [Task -> Nat]
  BY <1>2, <1>3 DEF TurnInvariant, Kinds
<1>6. step' \in [Task -> {"out", "test", "mark", "block", "resume", "collect"}]
  BY <1>2 DEF TurnInvariant, Kinds
<1> QED
  BY <1>2, <1>4, <1>5, <1>6, MoveHolds

(* A task inside a call looks, gives up or goes to sleep.                  *)
LEMMA WaitHolds ==
    ASSUME ~Preempted, TurnInvariant, NEW t \in Task,
           Look(t) \/ GiveUp(t) \/ Rest(t)
    PROVE  TurnInvariant'
<1>1. CASE Look(t)
  <2>1. /\ MayRun(t) /\ step[t] = "out" /\ pc[t] = "look" /\ Jump(t, "get")
        /\ n' = [n EXCEPT ![t] = Min({job[t].len, Available})]
        /\ UNCHANGED <<job, step, handed, arrived, head, tail>>
    BY <1>1 DEF Look, InCode, KernelLeaves, notifyVars, ring
  <2>2. job[t].len \in Nat /\ Available \in Nat
    BY LengthsAreNumbers, AvailableIsNumber DEF TurnInvariant, Kinds
  <2>3. Min({job[t].len, Available}) \in Nat
    BY <2>2, MinOfTwo
  <2>4. n' \in [Task -> Nat]
    BY <2>1, <2>3 DEF TurnInvariant, Kinds
  <2>5. /\ job' \in [Task -> Jobs \cup {NoJob}]
        /\ step' \in [Task -> {"out", "test", "mark", "block", "resume", "collect"}]
    BY <2>1 DEF TurnInvariant, Kinds
  <2> QED
    BY <2>1, <2>4, <2>5, MoveHolds
<1>2. CASE GiveUp(t)
  <2>1. /\ MayRun(t) /\ pc[t] # "advance" /\ Jump(t, "out")
        /\ job' = [job EXCEPT ![t] = NoJob] /\ n' = [n EXCEPT ![t] = 0]
        /\ UNCHANGED <<step, handed, arrived, head, tail>>
    BY <1>2 DEF GiveUp, Idle, InCode, Return, KernelLeaves, notifyVars, ring
  <2>2. /\ job' \in [Task -> Jobs \cup {NoJob}] /\ n' \in [Task -> Nat]
        /\ step' \in [Task -> {"out", "test", "mark", "block", "resume", "collect"}]
    BY <2>1 DEF TurnInvariant, Kinds
  <2> QED
    BY <2>1, <2>2, MoveHolds
<1>3. CASE Rest(t)
  <2>1. /\ MayRun(t) /\ pc[t] # "advance" /\ Jump(t, "look")
        /\ step' = [step EXCEPT ![t] = "test"]
        /\ UNCHANGED <<job, n, handed, arrived, head, tail>>
    BY <1>3 DEF Rest, Idle, InCode, WaitForNotice, Goto, ring
  <2>2. /\ job' \in [Task -> Jobs \cup {NoJob}] /\ n' \in [Task -> Nat]
        /\ step' \in [Task -> {"out", "test", "mark", "block", "resume", "collect"}]
        /\ \A u \in Task \ {t} : step'[u] = step[u]
    BY <2>1 DEF TurnInvariant, Kinds
  <2> QED
    BY <2>1, <2>2, MoveHolds
<1> QED
  BY <1>1, <1>2, <1>3

(* The kernel moves a task that waits.                                     *)
LEMMA NotifyHolds ==
    ASSUME TurnInvariant, NEW t \in Task, InNotifyTake(t)
    PROVE  TurnInvariant'
<1>1. UNCHANGED <<pc, job, n, handed, tail, arrived, head>>
  BY DEF InNotifyTake, ring, locals
<1>2. step[t] # "out"
  BY DEF InNotifyTake, ulTaskNotifyTake, NotifyTest, NotifyMark, NotifyBlock,
         xTaskResumeAll, NotifyCollect, At
<1>3. \E place \in {"out", "test", "mark", "block", "resume", "collect"} :
          step' = [step EXCEPT ![t] = place]
  BY DEF InNotifyTake, ulTaskNotifyTake, NotifyTest, NotifyMark, NotifyBlock,
         xTaskResumeAll, NotifyCollect, Goto
<1>4. /\ step' \in [Task -> {"out", "test", "mark", "block", "resume", "collect"}]
      /\ \A u \in Task : step[u] = "out" => step'[u] = "out"
  BY <1>2, <1>3 DEF TurnInvariant, Kinds
<1>5. arrived' \in Nat /\ head' \in 0 .. arrived' /\ head <= head'
  BY <1>1 DEF TurnInvariant, Kinds
<1> QED
  BY <1>1, <1>4, <1>5, QuietHolds

(* The line, the handlers, the tick and uart_set_rx_callback.              *)
LEMMA InterruptHolds ==
    ASSUME TurnInvariant,
           DmaByte \/ on_rx_ht_tc \/ on_idle \/ SysTick \/ uart_set_rx_callback
    PROVE  TurnInvariant'
<1>1. UNCHANGED <<pc, job, n, handed, tail, step>>
  BY DEF DmaByte, on_rx_ht_tc, on_idle, SysTick, TickInterrupt,
         uart_set_rx_callback, KernelLeaves, notifyVars, locals, ring,
         NotifyGiveFromISR
<1>2. \/ arrived' = arrived + 1 /\ head' = head
      \/ arrived' = arrived /\ (head' = head \/ head' = arrived)
  BY DEF DmaByte, on_rx_ht_tc, on_idle, SysTick, uart_set_rx_callback, ring
<1>3. arrived' \in Nat /\ head' \in 0 .. arrived' /\ head <= head'
  BY <1>2 DEF TurnInvariant, Kinds
<1>4. /\ step' \in [Task -> {"out", "test", "mark", "block", "resume", "collect"}]
      /\ \A u \in Task : step[u] = "out" => step'[u] = "out"
  BY <1>1 DEF TurnInvariant, Kinds
<1> QED
  BY <1>1, <1>3, <1>4, QuietHolds

(* Every step keeps the turns.                                             *)
THEOREM TurnInvariantInductive ==
    ASSUME ~Preempted, TurnInvariant, [Next]_vars
    PROVE  TurnInvariant'
<1>1. CASE DmaByte \/ on_rx_ht_tc \/ on_idle \/ SysTick \/ uart_set_rx_callback
  BY <1>1, InterruptHolds
<1>2. ASSUME NEW t \in Task, Calls(t)
      PROVE  TurnInvariant'
  BY <1>2, CallHolds
<1>3. ASSUME NEW t \in Task, Continue(t)
      PROVE  TurnInvariant'
  BY <1>3, WaitHolds, GetHolds, AdvanceHolds, NotifyHolds DEF Continue
<1>4. CASE UNCHANGED vars
  <2>1. UNCHANGED <<pc, job, n, handed, tail, step, arrived, head>>
    BY <1>4 DEF vars, ring, locals, notifyVars
  <2>2. /\ arrived' \in Nat /\ head' \in 0 .. arrived' /\ head <= head'
        /\ step' \in [Task -> {"out", "test", "mark", "block", "resume", "collect"}]
        /\ \A u \in Task : step[u] = "out" => step'[u] = "out"
    BY <2>1 DEF TurnInvariant, Kinds
  <2> QED
    BY <2>1, <2>2, QuietHolds
<1> QED
  BY <1>1, <1>2, <1>3, <1>4 DEF Next

(* The invariant holds: whoever reads, what is copied and not yet let go   *)
(* of is one task's.                                                       *)
THEOREM TurnInvariantHolds ==
    ASSUME ~Preempted
    PROVE  Spec => []TurnInvariant
<1>1. Init => TurnInvariant
  <2> SUFFICES ASSUME Init PROVE TurnInvariant
    OBVIOUS
  <2>1. handed = <<>> /\ handed \in Seq(Nat) /\ Len(handed) = 0
    BY DEF Init
  <2>2. Kinds
    BY <2>1 DEF Init, NotifyInit, Kinds
  <2>3. Awake /\ Alone
    BY DEF Init, Awake, Alone, Taking
  <2>4. Cursor
    BY <2>1 DEF Init, Cursor
  <2> QED
    BY <2>2, <2>3, <2>4 DEF TurnInvariant
<1>2. TurnInvariant /\ [Next]_vars => TurnInvariant'
  BY TurnInvariantInductive
<1> QED
  BY <1>1, <1>2, PTL DEF Spec

(* Readers that take turns are handed each byte once and in order, and no  *)
(* byte leaves the ring before it has been handed out, however the calls   *)
(* of uart_recv, uart_recv_async and uart_yield, the handlers and the      *)
(* ticks interleave.                                                       *)
THEOREM TurnsHandOutOnce ==
    ASSUME ~Preempted
    PROVE  Spec => []HandsOutOnce
<1>1. TurnInvariant => HandsOutOnce
  <2> SUFFICES ASSUME TurnInvariant PROVE HandsOutOnce
    OBVIOUS
  <2>1. handed \in Seq(Nat) /\ \A i \in 1 .. Len(handed) : handed[i] = i
    BY DEF TurnInvariant, Kinds, Cursor
  <2>2. handed = [i \in 1 .. Len(handed) |-> i]
    BY <2>1
  <2>3. tail <= Len(handed)
    <3>1. CASE \A t \in Task : pc[t] # "advance"
      BY <2>1, <3>1 DEF TurnInvariant, Kinds, Cursor
    <3>2. ASSUME NEW t \in Task, pc[t] = "advance"
          PROVE  tail <= Len(handed)
      BY <2>1, <3>2 DEF TurnInvariant, Kinds, Cursor
    <3> QED
      BY <3>1, <3>2
  <2> QED
    BY <2>2, <2>3 DEF HandsOutOnce
<1>2. Spec => []TurnInvariant
  BY TurnInvariantHolds
<1> QED
  BY <1>1, <1>2, PTL

-----------------------------------------------------------------------------
(* What is true of the calls whoever runs: what they are, where they are   *)
(* in the code, and where in the kernel.                                   *)
CallTypes == /\ pc \in [Task -> {"out", "look", "get", "advance", "rest"}]
             /\ job \in [Task -> Jobs \cup {NoJob}]
             /\ st \in [Task -> 0 .. portMAX_DELAY] /\ n \in [Task -> Nat]
             /\ lag \in 0 .. Lag /\ age \in [Task -> Nat]
             /\ arrived \in 0 .. MaxBytes /\ head \in 0 .. arrived /\ tail \in Nat
             /\ arrived - tail <= Capacity
             /\ line \in {"busy", "quiet"}
             /\ rx_task \in Task \cup {Nobody} /\ rx_cb \in BOOLEAN

CoursePart ==
    \A t \in Task : /\ pc[t] = "out" <=> job[t] = NoJob
                    /\ pc[t] = "look" => job[t].op \in {"recv", "yield"}
                    /\ pc[t] = "rest" => job[t].op = "yield"
                    /\ step[t] # "out" => pc[t] = "look"

(* A call that waits for a time can tell from the tick count how old it    *)
(* is, up to the ticks that have not been counted yet.                     *)
Clocked(t) == /\ ~InCall(t) \/ job[t].timeout = portMAX_DELAY => age[t] = 0
              /\ InCall(t) /\ Waits(job[t]) =>
                     pended <= age[t] /\ Now = Later(st[t], age[t] - pended)

ClockPart == \A t \in Task : Clocked(t)

ReaderInvariant == NotifyInvariant /\ CallTypes /\ CoursePart /\ ClockPart

(* The calls that are made.                                                *)
LEMMA JobTypes ==
    /\ \A j \in Jobs : /\ j.op \in {"recv", "yield", "async"}
                       /\ j.len \in Nat \ {0}
                       /\ j.timeout \in 0 .. portMAX_DELAY
                       /\ j.op # "async" => j.timeout \in Timeouts
                       /\ j.op = "async" => j.timeout = 0
                       /\ j # NoJob
    /\ NoJob.op = "none" /\ NoJob.timeout = 0 /\ NoJob.len = 0
<1>1. /\ Lengths \subseteq Nat \ {0} /\ FrameBuf \in Nat \ {0}
      /\ Timeouts \subseteq 0 .. portMAX_DELAY /\ 0 \in 0 .. portMAX_DELAY
  BY ApiRxAssumption, TicksAreNumbers DEF ApiRxAssumption
<1>2. NoJob.op = "none" /\ NoJob.timeout = 0 /\ NoJob.len = 0
  BY DEF NoJob
<1>3. ASSUME NEW j \in Jobs
      PROVE  /\ j.op \in {"recv", "yield", "async"}
             /\ j.len \in Nat \ {0}
             /\ j.timeout \in 0 .. portMAX_DELAY
             /\ j.op # "async" => j.timeout \in Timeouts
             /\ j.op = "async" => j.timeout = 0
  <2>1. CASE j \in [op : {"recv"}, len : Lengths, timeout : Timeouts]
    BY <1>1, <2>1
  <2>2. CASE j \in [op : {"yield"}, len : {FrameBuf}, timeout : Timeouts]
    BY <1>1, <2>2
  <2>3. CASE j \in [op : {"async"}, len : Lengths, timeout : {0}]
    BY <1>1, <2>3
  <2> QED
    BY <2>1, <2>2, <2>3 DEF Jobs
<1> QED
  BY <1>2, <1>3

(* Bytes that are held are available: they are less than a counter's range *)
(* many.                                                                   *)
LEMMA HeldIsAvailable ==
    ASSUME ReaderInvariant, tail < head
    PROVE  Available > 0
<1>1. /\ head \in Nat /\ tail \in Nat /\ arrived \in Nat
      /\ head <= arrived /\ arrived - tail <= Capacity
  BY ApiRxAssumption DEF ReaderInvariant, CallTypes, ApiRxAssumption
<1>2. head - tail \in 1 .. Word - 1
  BY <1>1, CapacityIsNumber
<1>3. \A x \in 1 .. Word - 1 : x % Word = x
  BY CapacityIsNumber
<1> QED
  BY <1>2, <1>3 DEF Available

(* What a task that runs outside the kernel knows: no ticks are put off.   *)
LEMMA NonePended ==
    ASSUME ReaderInvariant, NEW t \in Task, MayRun(t), step[t] = "out"
    PROVE  suspender = Nobody /\ pended = 0
<1>1. suspender # t
  BY DEF ReaderInvariant, NotifyInvariant, SuspenderPart
<1>2. suspender = Nobody
  BY <1>1 DEF MayRun
<1> QED
  BY <1>2 DEF ReaderInvariant, NotifyInvariant, SuspenderPart

(* The parts of the invariant that a step does not touch.                  *)
LEMMA SameNotify ==
    ASSUME NotifyInvariant, UNCHANGED notifyVars
    PROVE  NotifyInvariant'
<1>1. UNCHANGED <<delays, suspender, pended, pendingReady, value, state, step,
                  ticks, halted>>
  BY DEF notifyVars
<1>2. InOrder(delays)'
  BY <1>1, SameDelays
<1>3. NotifyTypeOK'
  BY <1>1 DEF NotifyInvariant, NotifyTypeOK
<1>4. SuspenderPart' /\ SleeperPart' /\ NoticePart'
  BY <1>1 DEF NotifyInvariant, SuspenderPart, SleeperPart, NoticePart, Asleep, Expects
<1> QED
  BY <1>2, <1>3, <1>4 DEF NotifyInvariant

(* A step that leaves a call and the tick count alone leaves its clock.    *)
LEMMA SameClock ==
    ASSUME NEW t \in Task, Clocked(t), job'[t] = job[t], st'[t] = st[t],
           age'[t] = age[t], pc[t] = "out" <=> pc'[t] = "out",
           UNCHANGED <<delays, pended>>
    PROVE  Clocked(t)'
BY DEF Clocked, InCall, Waits, Now, Later

(* A call begins.                                                          *)
Begins(t, j, place) ==
    /\ MayRun(t) /\ Ready(t) /\ step[t] = "out" /\ pc[t] = "out"
    /\ place = "look" <=> j.op # "async"
    /\ pc' = [pc EXCEPT ![t] = place]
    /\ job' = [job EXCEPT ![t] = j]
    /\ st' = [st EXCEPT ![t] = IF Waits(j) THEN Now ELSE 0]
    /\ n' = n \/ n' = [n EXCEPT ![t] = j.len]
    /\ rx_task' \in {t, rx_task}
    /\ UNCHANGED <<arrived, head, tail, line, rx_cb, handed, lag, age>>
    /\ UNCHANGED notifyVars

(* The three ways a call begins.                                           *)
LEMMA CallDoes ==
    ASSUME NEW t \in Task, Calls(t)
    PROVE  \E j \in Jobs, place \in {"look", "get"} : Begins(t, j, place)
<1>1. CASE uart_recv(t)
  BY <1>1 DEF uart_recv, Call, InCode, Jump, KernelLeaves, ring, timing, Begins
<1>2. CASE uart_yield(t)
  BY <1>2 DEF uart_yield, Call, InCode, Jump, KernelLeaves, ring, timing, Begins
<1>3. CASE uart_recv_async(t)
  BY <1>3 DEF uart_recv_async, Call, InCode, Jump, KernelLeaves, ring, timing, Begins
<1> QED
  BY <1>1, <1>2, <1>3 DEF Calls

(* What it leaves of the invariant.                                        *)
LEMMA CallReads ==
    ASSUME ReaderInvariant, NEW t \in Task, Calls(t)
    PROVE  ReaderInvariant'
<1> SUFFICES ASSUME NEW j \in Jobs, NEW place \in {"look", "get"}, Begins(t, j, place)
             PROVE  ReaderInvariant'
  BY CallDoes
<1>1. /\ MayRun(t) /\ Ready(t) /\ step[t] = "out" /\ pc[t] = "out"
      /\ place = "look" <=> j.op # "async"
      /\ pc' = [pc EXCEPT ![t] = place]
      /\ job' = [job EXCEPT ![t] = j]
      /\ st' = [st EXCEPT ![t] = IF Waits(j) THEN Now ELSE 0]
      /\ n' = n \/ n' = [n EXCEPT ![t] = j.len]
      /\ rx_task' \in {t, rx_task}
      /\ UNCHANGED <<arrived, head, tail, line, rx_cb, handed, lag, age>>
      /\ UNCHANGED notifyVars
  BY DEF Begins
<1>2. /\ j.op \in {"recv", "yield", "async"} /\ j.len \in Nat /\ j # NoJob
  BY JobTypes
<1>3. UNCHANGED <<delays, pended, step>>
  BY <1>1 DEF notifyVars
<1>4. delays.now \in 0 .. portMAX_DELAY /\ 0 \in 0 .. portMAX_DELAY
  BY NotifyTypes, TicksAreNumbers DEF ReaderInvariant
<1>5. CallTypes'
  <2>1. (IF Waits(j) THEN Now ELSE 0) \in 0 .. portMAX_DELAY
    BY <1>4 DEF Now
  <2>2. st' \in [Task -> 0 .. portMAX_DELAY]
    BY <1>1, <2>1 DEF ReaderInvariant, CallTypes
  <2>3. n' \in [Task -> Nat]
    BY <1>1, <1>2 DEF ReaderInvariant, CallTypes
  <2> QED
    BY <1>1, <2>2, <2>3 DEF ReaderInvariant, CallTypes
<1>6. CoursePart'
  BY <1>1, <1>2, <1>3 DEF ReaderInvariant, CallTypes, CoursePart
<1>7. ClockPart'
  <2>1. ASSUME NEW u \in Task \ {t}
        PROVE  Clocked(u)'
    <3>1. /\ job'[u] = job[u] /\ st'[u] = st[u] /\ age'[u] = age[u]
          /\ pc'[u] = pc[u] /\ Clocked(u)
      BY <1>1 DEF ReaderInvariant, CallTypes, ClockPart
    <3> QED
      BY <1>3, <3>1, SameClock
  <2>2. Clocked(t)'
    <3>1. age'[t] = 0 /\ age[t] = 0
      BY <1>1 DEF ReaderInvariant, CallTypes, ClockPart, Clocked, InCall
    <3>2. pended' = 0 /\ Now' = Now
      BY <1>1, <1>3, NonePended DEF Now
    <3>3. job'[t] = j /\ pc'[t] = place
      BY <1>1 DEF ReaderInvariant, CallTypes
    <3>4. Waits(j) => st'[t] = Now
      BY <1>1 DEF ReaderInvariant, CallTypes
    <3>5. Later(Now, 0) = Now
      BY <1>4, TicksAreNumbers DEF Now, Later
    <3> QED
      BY <3>1, <3>2, <3>3, <3>4, <3>5 DEF Clocked, InCall, Later
  <2> QED
    BY <2>1, <2>2 DEF ClockPart
<1>8. NotifyInvariant'
  BY <1>1, SameNotify DEF ReaderInvariant
<1> QED
  BY <1>5, <1>6, <1>7, <1>8 DEF ReaderInvariant

(* A call goes on to the next place, ...                                   *)
GoesOn(t, place) ==
    /\ MayRun(t) /\ Ready(t) /\ step[t] = "out"
    /\ <<pc[t], place>> \in {<<"look", "get">>, <<"get", "advance">>,
                             <<"advance", "rest">>}
    /\ place = "rest" => job[t].op = "yield"
    /\ pc' = [pc EXCEPT ![t] = place]
    /\ n' \in [Task -> Nat]
    /\ tail' \in Nat /\ tail <= tail' /\ (tail' = tail \/ pc[t] = "advance")
    /\ UNCHANGED <<arrived, head, line, rx_task, rx_cb, job, st, lag, age>>
    /\ UNCHANGED notifyVars

(* ... or ends.                                                            *)
Leaves(t) ==
    /\ MayRun(t) /\ Ready(t) /\ step[t] = "out"
    /\ pc[t] \in {"look", "rest", "advance"}
    /\ pc' = [pc EXCEPT ![t] = "out"] /\ job' = [job EXCEPT ![t] = NoJob]
    /\ st' = [st EXCEPT ![t] = 0] /\ n' = [n EXCEPT ![t] = 0]
    /\ age' = [age EXCEPT ![t] = 0]
    /\ tail' \in Nat /\ tail <= tail' /\ (tail' = tail \/ pc[t] = "advance")
    /\ UNCHANGED <<arrived, head, line, rx_task, rx_cb, lag>>
    /\ UNCHANGED notifyVars

(* Which of the two each operation does.                                   *)
LEMMA StepDoes ==
    ASSUME CallTypes, NEW t \in Task
    PROVE  /\ Look(t) => GoesOn(t, "get") /\ tail' = tail
           /\ Get(t) => GoesOn(t, "advance") /\ tail' = tail
           /\ Advance(t) => GoesOn(t, "rest") \/ Leaves(t)
           /\ GiveUp(t) => Leaves(t) /\ tail' = tail
<1>1. /\ n \in [Task -> Nat] /\ job[t] \in Jobs \cup {NoJob}
      /\ head \in Nat /\ tail \in Nat /\ Available \in Nat
  BY AvailableIsNumber DEF CallTypes
<1>2. job[t].len \in Nat
  BY <1>1, JobTypes
<1>3. ASSUME Look(t) PROVE GoesOn(t, "get") /\ tail' = tail
  <2>1. Min({job[t].len, Available}) \in Nat
    BY <1>1, <1>2, MinOfTwo
  <2>2. n' \in [Task -> Nat]
    BY <1>1, <1>3, <2>1 DEF Look
  <2> QED
    BY <1>1, <1>3, <2>2
    DEF Look, InCode, Jump, KernelLeaves, ring, api, timing, GoesOn
<1>4. ASSUME Get(t) PROVE GoesOn(t, "advance") /\ tail' = tail
  <2>1. Min({n[t], Available}) \in Nat
    BY <1>1, MinOfTwo
  <2>2. n' \in [Task -> Nat]
    BY <1>1, <1>4, <2>1 DEF Get
  <2> QED
    BY <1>1, <1>4, <2>2
    DEF Get, InCode, Jump, KernelLeaves, ring, api, timing, GoesOn
<1>5. ASSUME Advance(t) PROVE GoesOn(t, "rest") \/ Leaves(t)
  <2>1. tail' = tail + n[t] /\ tail' \in Nat /\ tail <= tail'
    BY <1>1, <1>5 DEF Advance
  <2>2. CASE job[t].op = "yield"
    <3>1. n' \in [Task -> Nat]
      BY <1>1, <1>5, <2>2 DEF Advance
    <3> QED
      BY <1>5, <2>1, <2>2, <3>1
      DEF Advance, InCode, Jump, KernelLeaves, api, GoesOn
  <2>3. CASE job[t].op # "yield"
    BY <1>5, <2>1, <2>3
    DEF Advance, Return, InCode, Jump, KernelLeaves, api, Leaves
  <2> QED
    BY <2>2, <2>3
<1>6. ASSUME GiveUp(t) PROVE Leaves(t) /\ tail' = tail
  BY <1>1, <1>6
  DEF GiveUp, Idle, Return, InCode, Jump, KernelLeaves, ring, api, Leaves
<1> QED
  BY <1>3, <1>4, <1>5, <1>6

(* What fits still fits when bytes are let go of.                          *)
LEMMA HeldFits ==
    ASSUME CallTypes, tail' \in Nat, tail <= tail', arrived' = arrived
    PROVE  arrived' - tail' <= Capacity
<1>1. arrived \in Nat /\ tail \in Nat /\ arrived - tail <= Capacity
  BY ApiRxAssumption DEF CallTypes, ApiRxAssumption
<1>2. \A a, b, c, d \in Nat : a - b <= d /\ b <= c => a - c <= d
  OBVIOUS
<1>3. arrived - tail' <= Capacity
  BY <1>1, <1>2, CapacityIsNumber
<1> QED
  BY <1>3

(* A call that goes on keeps the invariant, ...                            *)
LEMMA GoesOnReads ==
    ASSUME ReaderInvariant, NEW t \in Task, NEW place, GoesOn(t, place)
    PROVE  ReaderInvariant'
<1>1. /\ step[t] = "out"
      /\ <<pc[t], place>> \in {<<"look", "get">>, <<"get", "advance">>,
                               <<"advance", "rest">>}
      /\ place = "rest" => job[t].op = "yield"
      /\ pc' = [pc EXCEPT ![t] = place]
      /\ n' \in [Task -> Nat] /\ tail' \in Nat /\ tail <= tail'
      /\ UNCHANGED <<arrived, head, line, rx_task, rx_cb, job, st, lag, age>>
      /\ UNCHANGED notifyVars
  BY DEF GoesOn
<1>2. UNCHANGED <<delays, pended, step>>
  BY <1>1 DEF notifyVars
<1>3. place \in {"get", "advance", "rest"} /\ pc[t] # "out"
  BY <1>1
<1>4. CallTypes'
  <2>1. arrived' - tail' <= Capacity
    BY <1>1, HeldFits DEF ReaderInvariant
  <2> QED
    BY <1>1, <1>3, <2>1 DEF ReaderInvariant, CallTypes
<1>5. CoursePart'
  BY <1>1, <1>2, <1>3 DEF ReaderInvariant, CallTypes, CoursePart
<1>6. ClockPart'
  <2>1. ASSUME NEW u \in Task
        PROVE  Clocked(u)'
    <3>1. /\ job'[u] = job[u] /\ st'[u] = st[u] /\ age'[u] = age[u]
          /\ pc'[u] = "out" <=> pc[u] = "out"
          /\ Clocked(u)
      BY <1>1, <1>3 DEF ReaderInvariant, CallTypes, ClockPart
    <3> QED
      BY <1>2, <3>1, SameClock
  <2> QED
    BY <2>1 DEF ClockPart
<1>7. NotifyInvariant'
  BY <1>1, SameNotify DEF ReaderInvariant
<1> QED
  BY <1>4, <1>5, <1>6, <1>7 DEF ReaderInvariant

(* ... and so does one that ends.                                          *)
LEMMA LeavesReads ==
    ASSUME ReaderInvariant, NEW t \in Task, Leaves(t)
    PROVE  ReaderInvariant'
<1>1. /\ step[t] = "out"
      /\ pc' = [pc EXCEPT ![t] = "out"] /\ job' = [job EXCEPT ![t] = NoJob]
      /\ st' = [st EXCEPT ![t] = 0] /\ n' = [n EXCEPT ![t] = 0]
      /\ age' = [age EXCEPT ![t] = 0]
      /\ tail' \in Nat /\ tail <= tail'
      /\ UNCHANGED <<arrived, head, line, rx_task, rx_cb, lag>>
      /\ UNCHANGED notifyVars
  BY DEF Leaves
<1>2. UNCHANGED <<delays, pended, step>>
  BY <1>1 DEF notifyVars
<1>3. CallTypes'
  <2>1. 0 \in 0 .. portMAX_DELAY
    BY TicksAreNumbers
  <2>2. st' \in [Task -> 0 .. portMAX_DELAY]
    BY <1>1, <2>1 DEF ReaderInvariant, CallTypes
  <2>3. arrived' - tail' <= Capacity
    BY <1>1, HeldFits DEF ReaderInvariant
  <2> QED
    BY <1>1, <2>2, <2>3 DEF ReaderInvariant, CallTypes
<1>4. CoursePart'
  BY <1>1, <1>2 DEF ReaderInvariant, CallTypes, CoursePart
<1>5. ClockPart'
  <2>1. ASSUME NEW u \in Task, u # t
        PROVE  Clocked(u)'
    <3>1. /\ job'[u] = job[u] /\ st'[u] = st[u] /\ age'[u] = age[u]
          /\ pc'[u] = "out" <=> pc[u] = "out"
          /\ Clocked(u)
      BY <1>1, <2>1 DEF ReaderInvariant, CallTypes, ClockPart
    <3> QED
      BY <1>2, <3>1, SameClock
  <2>2. Clocked(t)'
    BY <1>1 DEF ReaderInvariant, CallTypes, Clocked, InCall
  <2> QED
    BY <2>1, <2>2 DEF ClockPart
<1>6. NotifyInvariant'
  BY <1>1, SameNotify DEF ReaderInvariant
<1> QED
  BY <1>3, <1>4, <1>5, <1>6 DEF ReaderInvariant

(* A task that finds nothing, in time, goes to sleep, for a tick at least  *)
(* and for as long as its time lasts at most.                              *)
LEMMA SleepIsPositive ==
    ASSUME ReaderInvariant, NEW t \in Task, job[t] \in Jobs, ~TimedOut(t)
    PROVE  /\ Sleep(t) \in 1 .. portMAX_DELAY
           /\ job[t].timeout # portMAX_DELAY =>
                  Waits(job[t]) /\ Elapsed(st[t]) + Sleep(t) <= job[t].timeout
<1> DEFINE e == Elapsed(st[t])
           w == job[t].timeout
           p == PollOf(t)
<1>1. p \in 1 .. portMAX_DELAY
  <2>1. Poll \in 1 .. portMAX_DELAY - 1 /\ YieldPoll \in 1 .. portMAX_DELAY - 1
    BY ApiRxAssumption DEF ApiRxAssumption
  <2> QED
    BY <2>1, TicksAreNumbers DEF PollOf
<1>2. e \in 0 .. portMAX_DELAY /\ w \in 0 .. portMAX_DELAY
  <2>1. delays.now \in 0 .. portMAX_DELAY /\ st[t] \in 0 .. portMAX_DELAY
    BY NotifyTypes DEF ReaderInvariant, CallTypes
  <2>2. e \in 0 .. portMAX_DELAY
    BY <2>1, TicksAreNumbers DEF Elapsed, Now
  <2> QED
    BY <2>2, JobTypes
<1>3. w # portMAX_DELAY => ~(e >= w)
  BY DEF TimedOut
<1>4. Sleep(t) = IF w = portMAX_DELAY THEN p ELSE Min({p, w - e})
  BY DEF Sleep
<1>5. w # 0 /\ w # portMAX_DELAY => Waits(job[t])
  BY DEF Waits
<1> HIDE DEF e, w, p
<1>6. CASE w = portMAX_DELAY
  BY <1>1, <1>4, <1>6 DEF w
<1>7. CASE w # portMAX_DELAY
  <2>1. p \in Nat /\ p > 0 /\ w - e \in Nat /\ w - e > 0 /\ w # 0
    BY <1>1, <1>2, <1>3, <1>7, TicksAreNumbers
  <2>2. /\ Min({p, w - e}) \in {p, w - e}
        /\ Min({p, w - e}) <= p /\ Min({p, w - e}) <= w - e
    BY <2>1, MinOfTwo
  <2>3. Sleep(t) \in 1 .. portMAX_DELAY /\ e + Sleep(t) <= w
    BY <1>1, <1>2, <1>4, <1>7, <2>1, <2>2, TicksAreNumbers
  <2> QED
    BY <1>5, <1>7, <2>1, <2>3 DEF e, w
<1> QED
  BY <1>6, <1>7

(* Going to sleep keeps the invariant.                                     *)
LEMMA RestReads ==
    ASSUME ReaderInvariant, NEW t \in Task, Rest(t)
    PROVE  ReaderInvariant' /\ job[t] \in Jobs
<1>1. /\ MayRun(t) /\ step[t] = "out" /\ pc[t] \in {"look", "rest"}
      /\ ~TimedOut(t)
      /\ WaitForNotice(t, Sleep(t))
      /\ pc' = [pc EXCEPT ![t] = "look"]
      /\ UNCHANGED <<arrived, head, tail, line, rx_task, rx_cb, job, st, n, lag, age>>
  BY DEF Rest, Idle, InCode, Jump, ring, api, timing
<1>2. /\ step' = [step EXCEPT ![t] = "test"]
      /\ UNCHANGED <<delays, pended>>
  BY <1>1 DEF WaitForNotice, Goto
<1>3. job[t] \in Jobs
  BY <1>1 DEF ReaderInvariant, CallTypes, CoursePart
<1>4. NotifyInvariant'
  <2>1. Sleep(t) \in 1 .. portMAX_DELAY
    BY <1>1, <1>3, SleepIsPositive
  <2> QED
    BY <1>1, <2>1, WaitKeeps DEF ReaderInvariant
<1>5. CallTypes'
  BY <1>1 DEF ReaderInvariant, CallTypes
<1>6. CoursePart'
  <2>1. step \in [Task -> {"out", "test", "mark", "block", "resume", "collect"}]
    BY DEF ReaderInvariant, NotifyInvariant, NotifyTypeOK
  <2> QED
    BY <1>1, <1>2, <2>1 DEF ReaderInvariant, CallTypes, CoursePart
<1>7. ClockPart'
  <2>1. ASSUME NEW u \in Task
        PROVE  Clocked(u)'
    <3>1. /\ job'[u] = job[u] /\ st'[u] = st[u] /\ age'[u] = age[u]
          /\ pc'[u] = "out" <=> pc[u] = "out"
          /\ Clocked(u)
      BY <1>1 DEF ReaderInvariant, CallTypes, ClockPart
    <3> QED
      BY <1>2, <3>1, SameClock
  <2> QED
    BY <2>1 DEF ClockPart
<1> QED
  BY <1>3, <1>4, <1>5, <1>6, <1>7 DEF ReaderInvariant

(* The kernel's part of a call.                                            *)
LEMMA TakeDoes ==
    ASSUME ReaderInvariant, NEW t \in Task, InNotifyTake(t)
    PROVE  /\ NotifyInvariant' /\ MayRun(t)
           /\ UNCHANGED <<arrived, head, tail, line, rx_task, rx_cb, pc, job, st, n,
                          handed, lag, age>>
           /\ step[t] # "out"
           /\ \E place \in {"out", "mark", "block", "resume", "collect"} :
                 step' = [step EXCEPT ![t] = place]
           /\ \/ pended' = pended /\ delays'.now = delays.now
              \/ pended' = 0 /\ delays'.now = Later(delays.now, pended)
<1>1. /\ MayRun(t) /\ ulTaskNotifyTake(t) /\ NotifyInvariant
      /\ UNCHANGED <<arrived, head, tail, line, rx_task, rx_cb, pc, job, st, n,
                     handed, lag, age>>
  BY DEF InNotifyTake, ring, api, locals, timing, ReaderInvariant
<1>2. CASE NotifyTest(t)
  BY <1>1, <1>2, TestKeeps DEF NotifyTest, At, Goto
<1>3. CASE NotifyMark(t)
  BY <1>1, <1>3, MarkKeeps DEF NotifyMark, At, Goto
<1>4. CASE NotifyBlock(t)
  <2>1. NotifyInvariant' /\ delays'.now = delays.now
    BY <1>1, <1>4, BlockKeeps
  <2> QED
    BY <1>1, <1>4, <2>1 DEF NotifyBlock, At, Goto
<1>5. CASE xTaskResumeAll(t)
  <2>1. NotifyInvariant' /\ delays'.now = Later(delays.now, pended) /\ pended' = 0
    BY <1>1, <1>5, ResumeKeeps
  <2> QED
    BY <1>1, <1>5, <2>1 DEF xTaskResumeAll, Goto
<1>6. CASE NotifyCollect(t)
  <2>1. NotifyInvariant' /\ delays'.now = delays.now
    BY <1>1, <1>6, CollectKeeps
  <2> QED
    BY <1>1, <1>6, <2>1 DEF NotifyCollect, At, Goto
<1> QED
  BY <1>1, <1>2, <1>3, <1>4, <1>5, <1>6 DEF ulTaskNotifyTake

(* Counting the ticks that were put off leaves the calls' clocks right.    *)
LEMMA TakeReads ==
    ASSUME ReaderInvariant, NEW t \in Task, InNotifyTake(t)
    PROVE  ReaderInvariant'
<1>1. /\ NotifyInvariant'
      /\ UNCHANGED <<arrived, head, tail, line, rx_task, rx_cb, pc, job, st, n, lag, age>>
      /\ step[t] # "out"
      /\ \E place \in {"out", "mark", "block", "resume", "collect"} :
            step' = [step EXCEPT ![t] = place]
      /\ \/ pended' = pended /\ delays'.now = delays.now
         \/ pended' = 0 /\ delays'.now = Later(delays.now, pended)
  BY TakeDoes
<1>2. CallTypes'
  BY <1>1 DEF ReaderInvariant, CallTypes
<1>3. CoursePart'
  <2>1. \A u \in Task : step'[u] # "out" => step[u] # "out"
    BY <1>1 DEF ReaderInvariant, NotifyInvariant, NotifyTypeOK
  <2> QED
    BY <1>1, <2>1 DEF ReaderInvariant, CoursePart
<1>4. ASSUME NEW u \in Task
      PROVE  Clocked(u)'
  <2>1. Clocked(u) /\ age[u] \in Nat /\ st[u] \in 0 .. portMAX_DELAY /\ pended \in Nat
    BY DEF ReaderInvariant, ClockPart, CallTypes, NotifyInvariant, NotifyTypeOK
  <2>2. CASE pended' = pended /\ delays'.now = delays.now
    BY <1>1, <2>1, <2>2 DEF Clocked, InCall, Now, Later
  <2>3. CASE pended' = 0 /\ delays'.now = Later(delays.now, pended)
    <3>1. SUFFICES ASSUME InCall(u), Waits(job[u])
                   PROVE  delays'.now = Later(st[u], age[u])
      BY <1>1, <2>1, <2>3, <3>1 DEF Clocked, InCall, Now, Later
    <3>2. pended <= age[u] /\ delays.now = Later(st[u], age[u] - pended)
      BY <2>1, <3>1 DEF Clocked, Now
    <3> DEFINE y == st[u] + (age[u] - pended)
    <3>3. y \in Nat /\ y + pended = st[u] + age[u] /\ delays.now = y % Ticks
      BY <2>1, <3>2, TicksAreNumbers DEF Later
    <3> HIDE DEF y
    <3>4. Later(y % Ticks, pended) = (y + pended) % Ticks
      BY <2>1, <3>3, LaterTwice
    <3> QED
      BY <2>3, <3>3, <3>4 DEF Later
  <2> QED
    BY <1>1, <2>2, <2>3
<1> QED
  BY <1>1, <1>2, <1>3, <1>4 DEF ReaderInvariant, ClockPart

(* A tick.                                                                 *)
LEMMA TickReads ==
    ASSUME ReaderInvariant, SysTick
    PROVE  ReaderInvariant'
<1>1. /\ Busy => lag < Lag
      /\ TickInterrupt /\ NotifyInvariant
      /\ lag' = IF Busy THEN lag + 1 ELSE 0
      /\ age' = [t \in Task |-> IF InCall(t) /\ job[t].timeout # portMAX_DELAY
                                THEN age[t] + 1 ELSE 0]
      /\ UNCHANGED <<arrived, head, tail, line, rx_task, rx_cb, pc, job, st, n>>
  BY DEF SysTick, ring, api, locals, ReaderInvariant
<1>2. /\ NotifyInvariant'
      /\ suspender = Nobody => delays'.now = Later(delays.now, 1) /\ pended' = pended
      /\ suspender # Nobody => UNCHANGED delays /\ pended' = pended + 1
      /\ UNCHANGED step
      /\ suspender = Nobody => pended = 0
      /\ pended \in Nat
  BY <1>1, TickKeeps DEF NotifyInvariant, SuspenderPart, NotifyTypeOK
<1>3. CallTypes'
  <2>1. lag' \in 0 .. Lag
    BY <1>1, ApiRxAssumption DEF ReaderInvariant, CallTypes, ApiRxAssumption
  <2>2. age' \in [Task -> Nat]
    BY <1>1 DEF ReaderInvariant, CallTypes
  <2> QED
    BY <1>1, <2>1, <2>2 DEF ReaderInvariant, CallTypes
<1>4. CoursePart'
  BY <1>1, <1>2 DEF ReaderInvariant, CoursePart
<1>5. ASSUME NEW u \in Task
      PROVE  Clocked(u)'
  <2>1. Clocked(u) /\ age[u] \in Nat /\ st[u] \in 0 .. portMAX_DELAY
    BY DEF ReaderInvariant, ClockPart, CallTypes
  <2>2. ~InCall(u) \/ job[u].timeout = portMAX_DELAY => age'[u] = 0
    BY <1>1 DEF InCall
  <2>3. SUFFICES ASSUME InCall(u), Waits(job[u])
                 PROVE  pended' <= age'[u] /\ delays'.now = Later(st[u], age'[u] - pended')
    BY <1>1, <2>2, <2>3 DEF Clocked, InCall, Waits, Now, Later
  <2>4. age'[u] = age[u] + 1
    BY <1>1, <2>3 DEF Waits
  <2>5. pended <= age[u] /\ delays.now = Later(st[u], age[u] - pended)
    BY <2>1, <2>3 DEF Clocked, Now
  <2>6. CASE suspender # Nobody
    <3>1. age'[u] - pended' = age[u] - pended /\ pended' <= age'[u]
      BY <1>2, <2>1, <2>4, <2>5, <2>6
    <3> QED
      BY <1>2, <2>5, <2>6, <3>1
  <2>7. CASE suspender = Nobody
    <3> DEFINE y == st[u] + age[u]
    <3>1. y \in Nat /\ delays.now = y % Ticks
      BY <1>2, <2>1, <2>5, <2>7, TicksAreNumbers DEF Later
    <3>2. st[u] + (age'[u] - pended') = y + 1 /\ pended' <= age'[u]
      BY <1>2, <2>1, <2>4, <2>5, <2>7
    <3> HIDE DEF y
    <3>3. Later(y % Ticks, 1) = (y + 1) % Ticks
      BY <3>1, LaterTwice
    <3> QED
      BY <1>2, <2>7, <3>1, <3>2, <3>3 DEF Later
  <2> QED
    BY <2>6, <2>7
<1> QED
  BY <1>2, <1>3, <1>4, <1>5 DEF ReaderInvariant, ClockPart

(* The line, the handlers and uart_set_rx_callback.                        *)
LineMoves ==
    /\ \/ /\ arrived < MaxBytes /\ arrived - tail < Capacity
          /\ arrived' = arrived + 1 /\ head' = head /\ line' = "busy"
       \/ arrived' = arrived /\ head' = head /\ line' = line
       \/ arrived' = arrived /\ head' = arrived /\ line' = line
       \/ arrived' = arrived /\ head' = arrived /\ line' = "quiet" /\ line = "busy"
    /\ UNCHANGED <<tail, rx_task, pc, job, st, n, handed, lag, age>>
    /\ UNCHANGED <<suspender, pended, step, ticks>>

(* They move nothing in the kernel but a task that is given notice.        *)
LEMMA LineDoes ==
    ASSUME ReaderInvariant, DmaByte \/ on_rx_ht_tc \/ on_idle \/ uart_set_rx_callback
    PROVE  /\ LineMoves /\ NotifyInvariant' /\ rx_cb' \in BOOLEAN
           /\ Sleeps(0) /\ delays'.now = delays.now
<1>1. LineMoves /\ rx_cb' \in BOOLEAN
  BY DEF ReaderInvariant, CallTypes, DmaByte, on_rx_ht_tc, on_idle,
         uart_set_rx_callback, KernelLeaves, notifyVars, ring, api, locals, timing,
         LineMoves
<1>2. \/ UNCHANGED notifyVars
      \/ /\ rx_task \in Task /\ NotifyGiveFromISR(rx_task)
         /\ UNCHANGED <<suspender, pended, step, ticks>>
  BY DEF ReaderInvariant, CallTypes, DmaByte, on_rx_ht_tc, on_idle,
         uart_set_rx_callback, KernelLeaves
<1>3. CASE UNCHANGED notifyVars
  <2>1. UNCHANGED delays
    BY <1>3 DEF notifyVars
  <2> QED
    BY <1>1, <1>3, <2>1, SameNotify, SameDelays DEF ReaderInvariant
<1>4. CASE /\ rx_task \in Task /\ NotifyGiveFromISR(rx_task)
           /\ UNCHANGED <<suspender, pended, step, ticks>>
  BY <1>1, <1>4, GiveKeeps DEF ReaderInvariant
<1> QED
  BY <1>2, <1>3, <1>4

(* They keep the invariant.                                                *)
LEMMA LineReads ==
    ASSUME ReaderInvariant, DmaByte \/ on_rx_ht_tc \/ on_idle \/ uart_set_rx_callback
    PROVE  ReaderInvariant'
<1>1. LineMoves /\ NotifyInvariant' /\ rx_cb' \in BOOLEAN /\ delays'.now = delays.now
  BY LineDoes
<1>2. CallTypes'
  <2>1. MaxBytes \in Nat
    BY ApiRxAssumption DEF ApiRxAssumption
  <2>2. /\ arrived' \in 0 .. MaxBytes /\ head' \in 0 .. arrived'
        /\ arrived' - tail <= Capacity /\ line' \in {"busy", "quiet"}
    BY <1>1, <2>1, CapacityIsNumber DEF ReaderInvariant, CallTypes, LineMoves
  <2> QED
    BY <1>1, <2>2 DEF ReaderInvariant, CallTypes, LineMoves
<1>3. CoursePart'
  BY <1>1 DEF ReaderInvariant, CoursePart, LineMoves
<1>4. ClockPart'
  BY <1>1 DEF ReaderInvariant, ClockPart, Clocked, InCall, Waits, Now, Later, LineMoves
<1> QED
  BY <1>1, <1>2, <1>3, <1>4 DEF ReaderInvariant

(* Every step keeps what is true of the calls.                             *)
THEOREM ReaderInvariantInductive ==
    ASSUME ReaderInvariant, [Next]_vars
    PROVE  ReaderInvariant'
<1>1. CASE DmaByte \/ on_rx_ht_tc \/ on_idle \/ uart_set_rx_callback
  BY <1>1, LineReads
<1>2. CASE SysTick
  BY <1>2, TickReads
<1>3. ASSUME NEW t \in Task, Calls(t)
      PROVE  ReaderInvariant'
  BY <1>3, CallReads
<1>4. ASSUME NEW t \in Task, Continue(t)
      PROVE  ReaderInvariant'
  <2>1. CASE Rest(t)
    BY <2>1, RestReads
  <2>2. CASE InNotifyTake(t)
    BY <2>2, TakeReads
  <2>3. CASE Look(t) \/ Get(t) \/ Advance(t) \/ GiveUp(t)
    BY <2>3, StepDoes, GoesOnReads, LeavesReads DEF ReaderInvariant
  <2> QED
    BY <1>4, <2>1, <2>2, <2>3 DEF Continue
<1>5. CASE UNCHANGED vars
  <2>1. UNCHANGED <<arrived, head, tail, line, rx_task, rx_cb, pc, job, st, n, lag, age>>
        /\ UNCHANGED notifyVars
    BY <1>5 DEF vars, ring, api, locals, timing
  <2>2. NotifyInvariant' /\ UNCHANGED <<delays, pended, step>>
    BY <2>1, SameNotify DEF ReaderInvariant, notifyVars
  <2>3. CallTypes' /\ CoursePart'
    BY <2>1, <2>2 DEF ReaderInvariant, CallTypes, CoursePart
  <2>4. ClockPart'
    BY <2>1, <2>2 DEF ReaderInvariant, ClockPart, Clocked, InCall, Waits, Now, Later
  <2> QED
    BY <2>2, <2>3, <2>4 DEF ReaderInvariant
<1> QED
  BY <1>1, <1>2, <1>3, <1>4, <1>5 DEF Next

(* The calls of the receiving API and the kernel agree, whoever runs: who  *)
(* sleeps can be woken, and calls can tell the time.                       *)
THEOREM ReaderInvariantHolds == Spec => []ReaderInvariant
<1>1. Init => ReaderInvariant
  <2> SUFFICES ASSUME Init PROVE ReaderInvariant
    OBVIOUS
  <2>1. NotifyInvariant
    BY NotifyBegins DEF Init
  <2>2. 0 \in 0 .. portMAX_DELAY /\ Lag \in Nat /\ MaxBytes \in Nat
    BY ApiRxAssumption, TicksAreNumbers DEF ApiRxAssumption
  <2>3. CallTypes
    <3>1. /\ pc \in [Task -> {"out", "look", "get", "advance", "rest"}]
          /\ job \in [Task -> Jobs \cup {NoJob}]
          /\ n \in [Task -> Nat] /\ age \in [Task -> Nat]
          /\ line \in {"busy", "quiet"} /\ rx_task \in Task \cup {Nobody}
          /\ rx_cb \in BOOLEAN
      BY DEF Init
    <3>2. st \in [Task -> 0 .. portMAX_DELAY]
      BY <2>2 DEF Init
    <3>3. lag = 0 /\ arrived = 0 /\ head = 0 /\ tail = 0
      BY DEF Init
    <3> QED
      BY <2>2, <3>1, <3>2, <3>3, CapacityIsNumber DEF CallTypes
  <2>4. CoursePart /\ ClockPart
    BY DEF Init, NotifyInit, CoursePart, ClockPart, Clocked, InCall
  <2> QED
    BY <2>1, <2>3, <2>4 DEF ReaderInvariant
<1>2. ReaderInvariant /\ [Next]_vars => ReaderInvariant'
  BY ReaderInvariantInductive
<1> QED
  BY <1>1, <1>2, PTL DEF Spec

(* taskSWITCH_DELAYED_LISTS finds the current list empty, whatever the     *)
(* number of tasks, the width of the tick count and the time for which     *)
(* ticks are put off.                                                      *)
THEOREM ListsSwitchEmptyHolds == Spec => []ListsSwitchEmpty
<1>1. ReaderInvariant => ListsSwitchEmpty
  <2> SUFFICES ASSUME ReaderInvariant, Now = portMAX_DELAY,
                      NEW t \in Task, delays.list[t] = "delayed"
               PROVE  FALSE
    BY DEF ListsSwitchEmpty, Delayed
  <2>1. delays.wake[t] \in 0 .. portMAX_DELAY /\ delays.now < delays.wake[t]
    BY NotifyTypes DEF ReaderInvariant, InOrder
  <2> QED
    BY <2>1, TicksAreNumbers DEF Now
<1> QED
  BY <1>1, ReaderInvariantHolds, PTL

-----------------------------------------------------------------------------
(* Timeouts that the tick count can tell from the time that has passed:    *)
(* those, with the ticks for which calls keep the processor busy, that are *)
(* shorter than its round, or that mean for ever.                          *)
TimesFit == \A x \in Timeouts : x = portMAX_DELAY \/ x + 2 * Lag < Ticks

(* A call that sleeps wakes when its time has passed, give or take the     *)
(* ticks that passed between its reading the clock and its sleeping; one   *)
(* that does not may have been kept from running since it woke.            *)
InTime(t) ==
    InCall(t) /\ job[t].timeout # portMAX_DELAY =>
        IF Asleep(t)
        THEN age[t] - pended + Remaining(delays, t) <= job[t].timeout + Lag
        ELSE /\ age[t] <= job[t].timeout + Lag + lag
             /\ step[t] \in {"test", "mark", "block"} =>
                    age[t] + ticks[t] <= job[t].timeout + lag

TimePart == pended <= lag /\ \A t \in Task : InTime(t)

(* What the arithmetic of a call's time is about.                          *)
LEMMA TimeTypes ==
    ASSUME ReaderInvariant, NEW t \in Task
    PROVE  /\ job[t].timeout \in Nat /\ age[t] \in Nat /\ lag \in Nat /\ Lag \in Nat
           /\ lag <= Lag /\ pended \in Nat /\ ticks[t] \in Nat
           /\ Remaining(delays, t) \in Int
           /\ Asleep(t) => Remaining(delays, t) > 0
           /\ Asleep(t) => step[t] \in {"resume", "collect"}
<1>1. job[t].timeout \in Nat
  BY JobTypes, TicksAreNumbers DEF ReaderInvariant, CallTypes
<1>2. age[t] \in Nat /\ lag \in Nat /\ Lag \in Nat /\ lag <= Lag
  BY ApiRxAssumption DEF ReaderInvariant, CallTypes, ApiRxAssumption
<1>3. /\ pended \in Nat /\ ticks[t] \in Nat
      /\ Asleep(t) => step[t] \in {"resume", "collect"}
  BY TicksAreNumbers DEF ReaderInvariant, NotifyInvariant, NotifyTypeOK, SleeperPart
<1>4. Remaining(delays, t) \in Int /\ (Asleep(t) => Remaining(delays, t) > 0)
  BY NotifyTypes DEF ReaderInvariant
<1> QED
  BY <1>1, <1>2, <1>3, <1>4

(* Asleep or not, a call is no older than this.                            *)
LEMMA NotTooOld ==
    ASSUME ReaderInvariant, TimePart, NEW t \in Task, InCall(t),
           job[t].timeout # portMAX_DELAY
    PROVE  age[t] <= job[t].timeout + Lag + lag
<1>1. InTime(t) /\ pended <= lag
  BY DEF TimePart
<1> QED
  BY <1>1, TimeTypes DEF InTime

(* A step that changes nothing of this for a task.                         *)
LEMMA SameTime ==
    ASSUME NEW t \in Task, InTime(t), job'[t] = job[t], age'[t] = age[t],
           pc[t] = "out" <=> pc'[t] = "out", step'[t] = step[t], ticks'[t] = ticks[t],
           UNCHANGED <<delays, pended, lag>>
    PROVE  InTime(t)'
BY DEF InTime, InCall, Asleep, Remaining

(* A step over which no time passes, and after which who sleeps slept      *)
(* before, until the same time.                                            *)
LEMMA MoveTime ==
    ASSUME ReaderInvariant, TimePart, NEW t \in Task, UNCHANGED <<pc, job, age, lag>>,
           pended' \in Nat, Remaining(delays', t) \in Int,
           delays'.list[t] # "ready" =>
               /\ Asleep(t)
               /\ Remaining(delays', t) - pended' = Remaining(delays, t) - pended,
           step'[t] \in {"test", "mark", "block"} =>
               step[t] \in {"test", "mark", "block"} /\ ticks'[t] = ticks[t]
    PROVE  InTime(t)'
<1> SUFFICES ASSUME InCall(t), job[t].timeout # portMAX_DELAY
             PROVE  IF delays'.list[t] # "ready"
                    THEN age[t] - pended' + Remaining(delays', t) <= job[t].timeout + Lag
                    ELSE /\ age[t] <= job[t].timeout + Lag + lag
                         /\ step'[t] \in {"test", "mark", "block"} =>
                                age[t] + ticks'[t] <= job[t].timeout + lag
  BY DEF InTime, InCall, Asleep, Remaining
<1>1. InTime(t)
  BY DEF TimePart
<1>2. CASE delays'.list[t] # "ready"
  <2>1. age[t] - pended + Remaining(delays, t) <= job[t].timeout + Lag
    BY <1>1, <1>2 DEF InTime
  <2>2. /\ age[t] \in Nat /\ pended \in Nat /\ Remaining(delays, t) \in Int
        /\ job[t].timeout \in Nat /\ Lag \in Nat
    BY TimeTypes
  <2> QED
    BY <1>2, <2>1, <2>2
<1>3. CASE delays'.list[t] = "ready"
  <2>1. age[t] <= job[t].timeout + Lag + lag
    BY NotTooOld
  <2>2. step'[t] \in {"test", "mark", "block"} =>
            age[t] + ticks'[t] <= job[t].timeout + lag
    BY <1>1, TimeTypes DEF InTime
  <2> QED
    BY <1>3, <2>1, <2>2
<1> QED
  BY <1>2, <1>3

(* A call is young when it begins, ...                                     *)
LEMMA CallInTime ==
    ASSUME ReaderInvariant, TimePart, NEW t \in Task, Calls(t)
    PROVE  TimePart'
<1> SUFFICES ASSUME NEW j \in Jobs, NEW place \in {"look", "get"}, Begins(t, j, place)
             PROVE  TimePart'
  BY CallDoes
<1>1. /\ step[t] = "out" /\ pc[t] = "out"
      /\ pc' = [pc EXCEPT ![t] = place]
      /\ job' = [job EXCEPT ![t] = j]
      /\ UNCHANGED <<lag, age>>
      /\ UNCHANGED <<delays, pended, step, ticks>>
  BY DEF Begins, notifyVars
<1>2. ASSUME NEW u \in Task, u # t
      PROVE  InTime(u)'
  <2>1. /\ job'[u] = job[u] /\ age'[u] = age[u] /\ pc'[u] = pc[u]
        /\ step'[u] = step[u] /\ ticks'[u] = ticks[u] /\ InTime(u)
    BY <1>1, <1>2 DEF ReaderInvariant, CallTypes, TimePart
  <2> QED
    BY <1>1, <2>1, SameTime
<1>3. InTime(t)'
  <2>1. age'[t] = 0 /\ ~Asleep(t) /\ job'[t] = j
    BY <1>1, TimeTypes
    DEF ReaderInvariant, CallTypes, ClockPart, Clocked, InCall
  <2>2. delays'.list[t] = "ready" /\ step'[t] = "out" /\ lag' = lag
    BY <1>1, <2>1 DEF Asleep
  <2>3. j.timeout \in Nat /\ Lag \in Nat /\ lag \in Nat
    BY JobTypes, TimeTypes, TicksAreNumbers
  <2> QED
    BY <2>1, <2>2, <2>3 DEF InTime, Asleep
<1> QED
  BY <1>1, <1>2, <1>3 DEF TimePart

(* ... no older for going on, ...                                          *)
LEMMA MoveInTime ==
    ASSUME ReaderInvariant, TimePart, NEW t \in Task,
           (\E place \in {"get", "advance", "rest"} : GoesOn(t, place)) \/ Leaves(t)
    PROVE  TimePart'
<1>1. UNCHANGED <<delays, pended, step, ticks, lag>>
  BY DEF GoesOn, Leaves, notifyVars
<1>2. ASSUME NEW u \in Task, ~(u = t /\ Leaves(t))
      PROVE  InTime(u)'
  <2>1. /\ job'[u] = job[u] /\ age'[u] = age[u]
        /\ pc'[u] = "out" <=> pc[u] = "out"
        /\ InTime(u)
    <3>1. CASE Leaves(t)
      BY <1>2, <3>1 DEF Leaves, ReaderInvariant, CallTypes, TimePart
    <3>2. ASSUME NEW place \in {"get", "advance", "rest"}, GoesOn(t, place)
          PROVE  /\ job'[u] = job[u] /\ age'[u] = age[u]
                 /\ pc'[u] = "out" <=> pc[u] = "out"
                 /\ InTime(u)
      BY <3>2 DEF GoesOn, ReaderInvariant, CallTypes, TimePart
    <3> QED
      BY <3>1, <3>2
  <2> QED
    BY <1>1, <2>1, SameTime
<1>3. ASSUME Leaves(t)
      PROVE  InTime(t)'
  BY <1>3 DEF Leaves, ReaderInvariant, CallTypes, InTime, InCall
<1> QED
  BY <1>1, <1>2, <1>3 DEF TimePart

(* A task that goes to sleep knows how old its call is.                    *)
LEMMA RestInTime ==
    ASSUME TimesFit, ReaderInvariant, TimePart, NEW t \in Task, Rest(t)
    PROVE  TimePart'
<1>1. /\ MayRun(t) /\ step[t] = "out" /\ pc[t] \in {"look", "rest"} /\ ~TimedOut(t)
      /\ pc' = [pc EXCEPT ![t] = "look"]
      /\ step' = [step EXCEPT ![t] = "test"]
      /\ ticks' = [ticks EXCEPT ![t] = Sleep(t)]
      /\ UNCHANGED <<delays, pended, job, lag, age>>
  BY DEF Rest, Idle, InCode, Jump, WaitForNotice, Goto, timing
<1>2. /\ step \in [Task -> {"out", "test", "mark", "block", "resume", "collect"}]
      /\ ticks \in [Task -> 0 .. portMAX_DELAY]
      /\ pc \in [Task -> {"out", "look", "get", "advance", "rest"}]
  BY DEF ReaderInvariant, CallTypes, NotifyInvariant, NotifyTypeOK
<1>3. ASSUME NEW u \in Task, u # t
      PROVE  InTime(u)'
  <2>1. /\ job'[u] = job[u] /\ age'[u] = age[u] /\ pc'[u] = pc[u]
        /\ step'[u] = step[u] /\ ticks'[u] = ticks[u] /\ InTime(u)
    BY <1>1, <1>2, <1>3 DEF TimePart
  <2> QED
    BY <1>1, <2>1, SameTime
<1>4. InTime(t)'
  <2>1. SUFFICES ASSUME job[t].timeout # portMAX_DELAY
                 PROVE  /\ age[t] <= job[t].timeout + Lag + lag
                        /\ age[t] + Sleep(t) <= job[t].timeout + lag
    <3>1. step'[t] = "test" /\ ticks'[t] = Sleep(t) /\ delays'.list[t] = "ready"
      BY <1>1, <1>2, TimeTypes DEF Asleep
    <3> QED
      BY <1>1, <2>1, <3>1 DEF InTime, InCall, Asleep
  <2>2. /\ InCall(t) /\ job[t] \in Jobs /\ job[t].op # "async"
    BY <1>1 DEF InCall, ReaderInvariant, CallTypes, CoursePart
  <2>3. age[t] <= job[t].timeout + Lag + lag
    BY <2>1, <2>2, NotTooOld
  <2>4. job[t].timeout + 2 * Lag < Ticks
    BY <2>1, <2>2, JobTypes DEF TimesFit
  <2>5. age[t] < Ticks
    <3> DEFINE w == job[t].timeout
               a == age[t]
    <3>1. w \in Nat /\ a \in Nat /\ lag \in Nat /\ Lag \in Nat /\ lag <= Lag
      BY TimeTypes
    <3> HIDE DEF w, a
    <3>2. a <= w + Lag + lag /\ w + 2 * Lag < Ticks
      BY <2>3, <2>4 DEF w, a
    <3>3. a < Ticks
      BY <3>1, <3>2, TicksAreNumbers
    <3> QED
      BY <3>3 DEF a
  <2>6. /\ Waits(job[t]) /\ Elapsed(st[t]) + Sleep(t) <= job[t].timeout
        /\ Sleep(t) \in Nat
    BY <1>1, <2>1, <2>2, SleepIsPositive, TicksAreNumbers
  <2>7. Elapsed(st[t]) = age[t]
    <3>1. st[t] \in 0 .. portMAX_DELAY /\ age[t] \in Nat
      BY DEF ReaderInvariant, CallTypes
    <3>2. delays.now = Later(st[t], age[t] - pended) /\ pended = 0
      BY <1>1, <2>2, <2>6, NonePended DEF ReaderInvariant, ClockPart, Clocked, Now
    <3>3. delays.now = Later(st[t], age[t])
      BY <3>1, <3>2
    <3>4. (Later(st[t], age[t]) - st[t]) % Ticks = age[t]
      BY <2>5, <3>1, ElapsedTicks
    <3> QED
      BY <3>3, <3>4 DEF Elapsed, Now
  <2>8. /\ age[t] \in Nat /\ lag \in Nat /\ job[t].timeout \in Nat
    BY TimeTypes
  <2> QED
    BY <2>3, <2>6, <2>7, <2>8
<1> QED
  BY <1>1, <1>3, <1>4 DEF TimePart

(* Who sleeps after a step of the kernel, and for how long.                *)
LEMMA TakeSleeps ==
    ASSUME ReaderInvariant, NEW t \in Task, InNotifyTake(t), NEW u \in Task
    PROVE  /\ step'[u] \in {"test", "mark", "block"} =>
                  step[u] \in {"test", "mark", "block"} /\ ticks'[u] = ticks[u]
           /\ delays'.list[u] # "ready" =>
                  \/ /\ Asleep(u)
                     /\ Remaining(delays', u) - pended' = Remaining(delays, u) - pended
                  \/ /\ step[u] = "block" /\ pended' = pended
                     /\ Remaining(delays', u) = ticks[u]
<1>1. ulTaskNotifyTake(t) /\ NotifyInvariant
  BY DEF InNotifyTake, ReaderInvariant
<1>2. /\ step \in [Task -> {"out", "test", "mark", "block", "resume", "collect"}]
      /\ ticks \in [Task -> 0 .. portMAX_DELAY] /\ pended \in Nat
      /\ Remaining(delays, u) \in Int
  BY TimeTypes DEF ReaderInvariant, NotifyInvariant, NotifyTypeOK
<1>3. CASE NotifyTest(t) \/ NotifyMark(t)
  <2>1. UNCHANGED <<delays, pended, ticks>>
    BY <1>3 DEF NotifyTest, NotifyMark
  <2>2. step'[u] \in {"test", "mark", "block"} => step[u] \in {"test", "mark", "block"}
    BY <1>2, <1>3 DEF NotifyTest, NotifyMark, At, Goto
  <2> QED
    BY <2>1, <2>2 DEF Asleep
<1>4. CASE NotifyBlock(t)
  <2>1. /\ step[t] = "block" /\ Remaining(delays', t) = ticks[t]
        /\ \A v \in Task \ {t} : /\ delays'.list[v] = delays.list[v]
                                 /\ Remaining(delays', v) = Remaining(delays, v)
    BY <1>1, <1>4, BlockKeeps
  <2>2. UNCHANGED <<pended, ticks>> /\ step' = [step EXCEPT ![t] = "resume"]
    BY <1>4 DEF NotifyBlock, Goto
  <2> QED
    BY <1>2, <2>1, <2>2 DEF Asleep
<1>5. CASE xTaskResumeAll(t)
  <2>1. Sleeps(pended) /\ pended' = 0
    BY <1>1, <1>5, ResumeKeeps
  <2>2. UNCHANGED ticks /\ step' = [step EXCEPT ![t] = "collect"]
    BY <1>5 DEF xTaskResumeAll, Goto
  <2>3. delays'.list[u] # "ready" =>
            Asleep(u) /\ Remaining(delays', u) - pended' = Remaining(delays, u) - pended
    BY <1>2, <2>1 DEF Sleeps
  <2> QED
    BY <1>2, <2>2, <2>3
<1>6. CASE NotifyCollect(t)
  <2>1. Sleeps(0)
    BY <1>1, <1>6, CollectKeeps
  <2>2. /\ UNCHANGED pended /\ step' = [step EXCEPT ![t] = "out"]
        /\ ticks' = [ticks EXCEPT ![t] = 0]
    BY <1>6 DEF NotifyCollect, Goto
  <2>3. delays'.list[u] # "ready" =>
            Asleep(u) /\ Remaining(delays', u) - pended' = Remaining(delays, u) - pended
    BY <1>2, <2>1, <2>2 DEF Sleeps
  <2> QED
    BY <1>2, <2>2, <2>3
<1> QED
  BY <1>1, <1>3, <1>4, <1>5, <1>6 DEF ulTaskNotifyTake

(* A task that falls asleep does so in time, and those that were asleep    *)
(* wake no later for ticks that were put off.                              *)
LEMMA TakeInTime ==
    ASSUME ReaderInvariant, TimePart, NEW t \in Task, InNotifyTake(t)
    PROVE  TimePart'
<1>1. /\ UNCHANGED <<pc, job, lag, age>> /\ ReaderInvariant'
      /\ pended' = pended \/ pended' = 0
  BY TakeDoes, TakeReads
<1>2. pended' <= lag' /\ pended' \in Nat
  BY <1>1, TimeTypes DEF TimePart, ReaderInvariant, NotifyInvariant, NotifyTypeOK, CallTypes
<1>3. ASSUME NEW u \in Task
      PROVE  InTime(u)'
  <2>1. step'[u] \in {"test", "mark", "block"} =>
            step[u] \in {"test", "mark", "block"} /\ ticks'[u] = ticks[u]
    BY TakeSleeps
  <2>2. CASE delays'.list[u] # "ready" =>
                 /\ Asleep(u)
                 /\ Remaining(delays', u) - pended' = Remaining(delays, u) - pended
    <3>1. Remaining(delays', u) \in Int
      <4>1. delays' \in DelaysType
        BY <1>1 DEF ReaderInvariant, NotifyInvariant, NotifyTypeOK, DelaysType
      <4> QED
        BY <4>1, RemainingIsNumber
    <3> QED
      BY <1>1, <1>2, <2>1, <2>2, <3>1, MoveTime
  <2>3. CASE /\ delays'.list[u] # "ready" /\ step[u] = "block"
             /\ pended' = pended /\ Remaining(delays', u) = ticks[u]
    <3>1. SUFFICES ASSUME InCall(u), job[u].timeout # portMAX_DELAY
                   PROVE  age[u] - pended + ticks[u] <= job[u].timeout + Lag
      BY <1>1, <2>3, <3>1 DEF InTime, InCall, Asleep, Remaining
    <3>2. age[u] + ticks[u] <= job[u].timeout + lag
      BY <2>3, <3>1, TimeTypes DEF TimePart, InTime
    <3>3. /\ job[u].timeout \in Nat /\ age[u] \in Nat /\ lag \in Nat /\ Lag \in Nat
          /\ lag <= Lag /\ pended \in Nat /\ ticks[u] \in Nat
      BY TimeTypes
    <3> QED
      BY <3>2, <3>3
  <2> QED
    BY <2>2, <2>3, TakeSleeps
<1> QED
  BY <1>2, <1>3 DEF TimePart

(* A tick: who sleeps has one less to wait, who is awake keeps the         *)
(* processor busy.                                                         *)
LEMMA TickInTime ==
    ASSUME ReaderInvariant, TimePart, SysTick
    PROVE  TimePart'
<1>1. /\ TickInterrupt /\ NotifyInvariant
      /\ lag' = IF Busy THEN lag + 1 ELSE 0
      /\ age' = [t \in Task |-> IF InCall(t) /\ job[t].timeout # portMAX_DELAY
                                THEN age[t] + 1 ELSE 0]
      /\ UNCHANGED <<pc, job>>
      /\ lag \in Nat
  BY DEF SysTick, locals, ReaderInvariant, CallTypes
<1>2. /\ NotifyInvariant'
      /\ suspender = Nobody => Sleeps(1) /\ pended' = pended
      /\ suspender # Nobody => UNCHANGED delays /\ pended' = pended + 1
      /\ UNCHANGED <<step, ticks, suspender>>
  BY <1>1, TickKeeps
<1>3. /\ suspender = Nobody => pended = 0
      /\ pended \in Nat /\ pended <= lag
      /\ suspender \in Task \cup {Nobody}
  BY <1>1 DEF NotifyInvariant, SuspenderPart, NotifyTypeOK, TimePart
<1>4. suspender # Nobody => Busy
  <2>1. ASSUME suspender # Nobody
        PROVE  InCall(suspender) /\ suspender \in Task
    BY <1>1, <1>3, <2>1
    DEF NotifyInvariant, SuspenderPart, ReaderInvariant, CoursePart, InCall
  <2> QED
    BY <2>1 DEF Busy
<1>5. pended' <= lag'
  BY <1>1, <1>2, <1>3, <1>4
<1>6. ASSUME NEW u \in Task
      PROVE  InTime(u)'
  <2>1. SUFFICES ASSUME InCall(u), job[u].timeout # portMAX_DELAY
                 PROVE  IF delays'.list[u] # "ready"
                        THEN age'[u] - pended' + Remaining(delays', u)
                                 <= job[u].timeout + Lag
                        ELSE /\ age'[u] <= job[u].timeout + Lag + lag'
                             /\ step[u] \in {"test", "mark", "block"} =>
                                    age'[u] + ticks[u] <= job[u].timeout + lag'
    BY <1>1, <1>2, <2>1 DEF InTime, InCall, Asleep, Remaining
  <2> DEFINE w == job[u].timeout
             a == age[u]
             r == Remaining(delays, u)
             s == Remaining(delays', u)
             k == ticks[u]
  <2>2. /\ w \in Nat /\ a \in Nat /\ Lag \in Nat /\ k \in Nat /\ r \in Int
        /\ (Asleep(u) => r > 0) /\ age'[u] = a + 1
        /\ Asleep(u) => step[u] \in {"resume", "collect"}
    BY <1>1, <2>1, TimeTypes
  <2>3. /\ Asleep(u) => a - pended + r <= w + Lag
        /\ ~Asleep(u) => /\ a <= w + Lag + lag
                         /\ step[u] \in {"test", "mark", "block"} => a + k <= w + lag
    BY <2>1 DEF TimePart, InTime
  <2>4. ~Asleep(u) => lag' = lag + 1
    BY <1>1, <2>1 DEF Busy, Asleep, Ready
  <2>5. lag' \in Nat
    BY <1>1
  <2>6. CASE suspender # Nobody
    <3>1. delays' = delays /\ pended' = pended + 1 /\ lag' = lag + 1
      BY <1>1, <1>2, <1>4, <2>6
    <3>2. s = r /\ delays'.list[u] = delays.list[u]
      BY <3>1
    <3> HIDE DEF w, a, r, s, k
    <3>3. (a + 1) - (pended + 1) = a - pended
      BY <1>3, <2>2
    <3>4. CASE Asleep(u)
      BY <1>3, <2>2, <2>3, <3>1, <3>2, <3>3, <3>4 DEF Asleep, s, w
    <3>5. CASE ~Asleep(u)
      BY <1>1, <2>2, <2>3, <3>1, <3>2, <3>5 DEF Asleep, w, k
    <3> QED
      BY <3>4, <3>5
  <2>7. CASE suspender = Nobody
    <3>1. /\ pended' = 0 /\ pended = 0
          /\ delays'.list[u] # "ready" => Asleep(u) /\ s = r - 1
      BY <1>2, <1>3, <2>7 DEF Sleeps
    <3> HIDE DEF w, a, r, s, k
    <3>2. CASE delays'.list[u] # "ready"
      BY <2>2, <2>3, <3>1, <3>2 DEF s, w
    <3>3. CASE delays'.list[u] = "ready" /\ Asleep(u)
      BY <2>2, <2>3, <2>5, <3>1, <3>3 DEF w
    <3>4. CASE delays'.list[u] = "ready" /\ ~Asleep(u)
      BY <1>1, <2>2, <2>3, <2>4, <3>1, <3>4 DEF w, k
    <3> QED
      BY <3>2, <3>3, <3>4
  <2> QED
    BY <2>6, <2>7
<1> QED
  BY <1>5, <1>6 DEF TimePart

(* A notice makes nobody late.                                             *)
LEMMA LineInTime ==
    ASSUME ReaderInvariant, TimePart,
           DmaByte \/ on_rx_ht_tc \/ on_idle \/ uart_set_rx_callback
    PROVE  TimePart'
<1>1. LineMoves /\ Sleeps(0) /\ NotifyInvariant'
  BY LineDoes
<1>2. UNCHANGED <<pc, job, lag, age, pended, step, ticks>>
  BY <1>1 DEF LineMoves
<1>3. ASSUME NEW u \in Task
      PROVE  InTime(u)'
  <2>1. /\ pended' \in Nat /\ Remaining(delays', u) \in Int /\ Remaining(delays, u) \in Int
    <3>1. delays' \in DelaysType /\ pended' \in Nat
      BY <1>1 DEF NotifyInvariant, NotifyTypeOK, DelaysType
    <3> QED
      BY <3>1, RemainingIsNumber, TimeTypes
  <2>2. delays'.list[u] # "ready" =>
            /\ Asleep(u)
            /\ Remaining(delays', u) - pended' = Remaining(delays, u) - pended
    BY <1>1, <1>2, <2>1 DEF Sleeps
  <2> QED
    BY <1>2, <2>1, <2>2, MoveTime
<1> QED
  BY <1>2, <1>3 DEF TimePart

(* Every step keeps the calls in time.                                     *)
THEOREM TimeInductive ==
    ASSUME TimesFit, ReaderInvariant, TimePart, [Next]_vars
    PROVE  TimePart'
<1>1. CASE DmaByte \/ on_rx_ht_tc \/ on_idle \/ uart_set_rx_callback
  BY <1>1, LineInTime
<1>2. CASE SysTick
  BY <1>2, TickInTime
<1>3. ASSUME NEW t \in Task, Calls(t)
      PROVE  TimePart'
  BY <1>3, CallInTime
<1>4. ASSUME NEW t \in Task, Continue(t)
      PROVE  TimePart'
  <2>1. CASE Rest(t)
    BY <2>1, RestInTime
  <2>2. CASE InNotifyTake(t)
    BY <2>2, TakeInTime
  <2>3. CASE Look(t) \/ Get(t) \/ Advance(t) \/ GiveUp(t)
    BY <2>3, StepDoes, MoveInTime DEF ReaderInvariant
  <2> QED
    BY <1>4, <2>1, <2>2, <2>3 DEF Continue
<1>5. CASE UNCHANGED vars
  <2>1. UNCHANGED <<pc, job, lag, age, delays, pended, step, ticks>>
    BY <1>5 DEF vars, locals, timing, notifyVars
  <2> QED
    BY <2>1 DEF TimePart, InTime, InCall, Asleep, Remaining
<1> QED
  BY <1>1, <1>2, <1>3, <1>4, <1>5 DEF Next

(* A call with a timeout is over when that time has passed, give or take   *)
(* the ticks for which calls keep the processor busy, whatever the width   *)
(* of the tick count, as long as the timeouts fit it; ticks put off while  *)
(* the scheduler is suspended delay nobody further.                        *)
THEOREM RecvIsInTime ==
    ASSUME TimesFit
    PROVE  Spec => []RecvInTime
<1>1. Init => TimePart
  <2> SUFFICES ASSUME Init PROVE TimePart
    OBVIOUS
  <2>1. pended = 0 /\ lag = 0 /\ \A t \in Task : ~InCall(t)
    BY DEF Init, NotifyInit, InCall
  <2> QED
    BY <2>1 DEF TimePart, InTime
<1>2. ReaderInvariant /\ TimePart /\ [Next]_vars => TimePart'
  BY TimeInductive
<1>3. ReaderInvariant /\ TimePart => RecvInTime
  <2> SUFFICES ASSUME ReaderInvariant, TimePart, NEW t \in Task, InCall(t)
               PROVE  age[t] <= job[t].timeout + 2 * Lag
    BY DEF RecvInTime
  <2>1. CASE job[t].timeout # portMAX_DELAY
    <3>1. age[t] <= job[t].timeout + Lag + lag
      BY <2>1, NotTooOld
    <3> QED
      BY <3>1, TimeTypes
  <2>2. CASE job[t].timeout = portMAX_DELAY
    <3>1. age[t] = 0
      BY <2>2 DEF ReaderInvariant, ClockPart, Clocked
    <3> QED
      BY <3>1, TimeTypes
  <2> QED
    BY <2>1, <2>2
<1> QED
  BY <1>1, <1>2, <1>3, ReaderInvariantHolds, PTL DEF Spec

-----------------------------------------------------------------------------
(* When the line is quiet all bytes have been counted, and a task that     *)
(* waits for them has its notice.                                          *)
HasNotice(t) ==
    /\ line = "quiet" /\ tail < head /\ rx_task = t
    /\ job[t].op = "recv" /\ step[t] # "out"
    => value[t] > 0

AnnouncePart == /\ line = "quiet" => head = arrived
                /\ \A t \in Task : HasNotice(t)

(* Steps that bring no byte, and no task that waits.                       *)
LEMMA SameNotice ==
    ASSUME ReaderInvariant, AnnouncePart, NEW t \in Task,
           UNCHANGED <<line, head>>, tail' \in Nat, tail <= tail',
           rx_task' = t => rx_task = t,
           job'[t].op = "recv" => job[t].op = "recv",
           step'[t] # "out" => step[t] # "out" /\ value'[t] = value[t]
    PROVE  HasNotice(t)'
<1>1. tail' < head' => tail < head
  BY DEF ReaderInvariant, CallTypes
<1>2. HasNotice(t)
  BY DEF AnnouncePart
<1> QED
  BY <1>1, <1>2 DEF HasNotice

(* A call begins awake, ...                                                *)
LEMMA CallNotices ==
    ASSUME ReaderInvariant, AnnouncePart, NEW t \in Task, Calls(t)
    PROVE  AnnouncePart'
<1> SUFFICES ASSUME NEW j \in Jobs, NEW place \in {"look", "get"}, Begins(t, j, place)
             PROVE  AnnouncePart'
  BY CallDoes
<1>1. /\ step[t] = "out" /\ job' = [job EXCEPT ![t] = j] /\ rx_task' \in {t, rx_task}
      /\ UNCHANGED <<arrived, head, tail, line>> /\ UNCHANGED <<step, value>>
  BY DEF Begins, notifyVars
<1>2. ASSUME NEW u \in Task, u # t
      PROVE  HasNotice(u)'
  <2>1. job'[u] = job[u] /\ tail \in Nat
    BY <1>1, <1>2 DEF ReaderInvariant, CallTypes
  <2> QED
    BY <1>1, <1>2, <2>1, SameNotice
<1>3. HasNotice(t)'
  BY <1>1 DEF HasNotice
<1> QED
  BY <1>1, <1>2, <1>3 DEF AnnouncePart

(* ... and takes bytes, but brings none.                                   *)
LEMMA MoveNotices ==
    ASSUME ReaderInvariant, AnnouncePart, NEW t \in Task,
           (\E place \in {"get", "advance", "rest"} : GoesOn(t, place)) \/ Leaves(t)
    PROVE  AnnouncePart'
<1>1. /\ UNCHANGED <<arrived, head, line, rx_task>> /\ UNCHANGED <<step, value>>
      /\ tail' \in Nat /\ tail <= tail'
      /\ job' = job \/ job' = [job EXCEPT ![t] = NoJob]
  BY DEF GoesOn, Leaves, notifyVars
<1>2. ASSUME NEW u \in Task
      PROVE  HasNotice(u)'
  <2>1. job'[u].op = "recv" => job[u].op = "recv"
    BY <1>1, JobTypes DEF ReaderInvariant, CallTypes
  <2> QED
    BY <1>1, <2>1, SameNotice
<1> QED
  BY <1>1, <1>2 DEF AnnouncePart

(* A task goes to sleep only over an empty ring.                           *)
LEMMA RestNotices ==
    ASSUME ReaderInvariant, AnnouncePart, NEW t \in Task, Rest(t)
    PROVE  AnnouncePart'
<1>1. /\ UNCHANGED <<arrived, head, tail, line, rx_task, job>> /\ UNCHANGED value
      /\ step' = [step EXCEPT ![t] = "test"]
      /\ \/ pc[t] = "look" /\ ~(Available > 0 /\ Wanted(t))
         \/ pc[t] = "rest"
  BY DEF Rest, Idle, InCode, WaitForNotice, Goto, ring, api
<1>2. /\ step \in [Task -> {"out", "test", "mark", "block", "resume", "collect"}]
      /\ tail \in Nat
  BY DEF ReaderInvariant, CallTypes, NotifyInvariant, NotifyTypeOK
<1>3. ASSUME NEW u \in Task, u # t
      PROVE  HasNotice(u)'
  <2>1. step'[u] = step[u]
    BY <1>1, <1>2, <1>3
  <2> QED
    BY <1>1, <1>2, <2>1, SameNotice
<1>4. HasNotice(t)'
  <2>1. job[t].op = "recv" => ~(Available > 0)
    BY <1>1 DEF ReaderInvariant, CoursePart, Wanted
  <2>2. tail < head => Available > 0
    BY HeldIsAvailable
  <2> QED
    BY <1>1, <2>1, <2>2 DEF HasNotice
<1> QED
  BY <1>1, <1>3, <1>4 DEF AnnouncePart

(* A notice is taken by a task that wakes for it.                          *)
LEMMA TakeNotices ==
    ASSUME ReaderInvariant, AnnouncePart, NEW t \in Task, InNotifyTake(t)
    PROVE  AnnouncePart'
<1>1. /\ UNCHANGED <<arrived, head, tail, line, rx_task, job>> /\ step[t] # "out"
      /\ \E place \in {"out", "mark", "block", "resume", "collect"} :
            step' = [step EXCEPT ![t] = place]
      /\ tail \in Nat
  BY TakeDoes DEF ReaderInvariant, CallTypes
<1>2. /\ step \in [Task -> {"out", "test", "mark", "block", "resume", "collect"}]
      /\ value \in [Task -> Nat]
  BY DEF ReaderInvariant, NotifyInvariant, NotifyTypeOK
<1>3. \/ value' = value
      \/ value' = [value EXCEPT ![t] = 0] /\ step' = [step EXCEPT ![t] = "out"]
  BY DEF InNotifyTake, ulTaskNotifyTake, NotifyTest, NotifyMark, NotifyBlock,
         xTaskResumeAll, NotifyCollect, Goto
<1>4. ASSUME NEW u \in Task
      PROVE  HasNotice(u)'
  <2>1. step'[u] # "out" => step[u] # "out" /\ value'[u] = value[u]
    BY <1>1, <1>2, <1>3
  <2> QED
    BY <1>1, <2>1, SameNotice
<1> QED
  BY <1>1, <1>4 DEF AnnouncePart

(* The bytes of a burst are announced when it ends.                        *)
LEMMA LineNotices ==
    ASSUME ReaderInvariant, AnnouncePart, ~halted',
           DmaByte \/ on_rx_ht_tc \/ on_idle \/ uart_set_rx_callback \/ SysTick
    PROVE  AnnouncePart'
<1>1. tail \in Nat /\ head \in Nat /\ arrived \in Nat
  BY ApiRxAssumption DEF ReaderInvariant, CallTypes, ApiRxAssumption
<1>2. UNCHANGED <<job, step, tail, rx_task>>
  BY DEF DmaByte, on_rx_ht_tc, on_idle, uart_set_rx_callback, SysTick, TickInterrupt,
         NotifyGiveFromISR, KernelLeaves, notifyVars, ring, api, locals
<1>3. CASE DmaByte
  BY <1>3 DEF DmaByte, AnnouncePart, HasNotice
<1>4. CASE on_rx_ht_tc \/ uart_set_rx_callback \/ SysTick
  <2>1. UNCHANGED <<line, arrived, value>> /\ (head' = head \/ head' = arrived)
    BY <1>4 DEF on_rx_ht_tc, uart_set_rx_callback, SysTick, TickInterrupt,
                KernelLeaves, notifyVars, ring
  <2>2. ASSUME line = "quiet", NEW u \in Task
        PROVE  HasNotice(u)'
    <3>1. head' = head
      BY <2>1, <2>2 DEF AnnouncePart
    <3> QED
      BY <1>1, <1>2, <2>1, <3>1, SameNotice
  <2>3. \A u \in Task : HasNotice(u)'
    <3>1. CASE line = "quiet"
      BY <2>2, <3>1
    <3>2. CASE line # "quiet"
      BY <2>1, <3>2 DEF HasNotice
    <3> QED
      BY <3>1, <3>2
  <2> QED
    BY <2>1, <2>3 DEF AnnouncePart
<1>5. CASE on_idle
  <2>1. head' = arrived /\ arrived' = arrived
    BY <1>5 DEF on_idle
  <2>2. ASSUME NEW u \in Task, rx_task = u
        PROVE  value'[u] > 0
    <3>1. u # Nobody
      BY TaskNotifyAssumption DEF TaskNotifyAssumption
    <3>2. value' = [value EXCEPT ![u] = @ + 1]
      BY <1>5, <2>2, <3>1 DEF on_idle, NotifyGiveFromISR
    <3>3. value \in [Task -> Nat]
      BY DEF ReaderInvariant, NotifyInvariant, NotifyTypeOK
    <3> QED
      BY <3>2, <3>3
  <2> QED
    BY <1>2, <2>1, <2>2 DEF AnnouncePart, HasNotice
<1> QED
  BY <1>3, <1>4, <1>5

(* Every step keeps the notices.                                           *)
THEOREM AnnounceInductive ==
    ASSUME ReaderInvariant, AnnouncePart, [Next]_vars
    PROVE  halted' \/ AnnouncePart'
<1> SUFFICES ASSUME ~halted' PROVE AnnouncePart'
  OBVIOUS
<1>1. CASE DmaByte \/ on_rx_ht_tc \/ on_idle \/ uart_set_rx_callback \/ SysTick
  BY <1>1, LineNotices
<1>2. ASSUME NEW t \in Task, Calls(t)
      PROVE  AnnouncePart'
  BY <1>2, CallNotices
<1>3. ASSUME NEW t \in Task, Continue(t)
      PROVE  AnnouncePart'
  <2>1. CASE Rest(t)
    BY <2>1, RestNotices
  <2>2. CASE InNotifyTake(t)
    BY <2>2, TakeNotices
  <2>3. CASE Look(t) \/ Get(t) \/ Advance(t) \/ GiveUp(t)
    BY <2>3, StepDoes, MoveNotices DEF ReaderInvariant
  <2> QED
    BY <1>3, <2>1, <2>2, <2>3 DEF Continue
<1>4. CASE UNCHANGED vars
  <2>1. UNCHANGED <<arrived, head, tail, line, rx_task, job, step, value>>
    BY <1>4 DEF vars, ring, api, locals, notifyVars
  <2> QED
    BY <2>1 DEF AnnouncePart, HasNotice
<1> QED
  BY <1>1, <1>2, <1>3, <1>4 DEF Next

(* What stops, stays.                                                      *)
LEMMA HaltedStays ==
    ASSUME halted, [Next]_vars
    PROVE  halted'
<1>1. CASE DmaByte \/ on_rx_ht_tc \/ on_idle \/ uart_set_rx_callback \/ SysTick
  BY <1>1 DEF DmaByte, on_rx_ht_tc, on_idle, uart_set_rx_callback, SysTick,
              KernelLeaves, notifyVars
<1>2. ASSUME NEW t \in Task, Calls(t) \/ Continue(t)
      PROVE  FALSE
  <2>1. ~MayRun(t)
    BY DEF MayRun
  <2>2. ~Calls(t)
    BY <2>1, CallDoes DEF Begins
  <2> QED
    BY <1>2, <2>1, <2>2
    DEF Continue, Look, Get, Advance, GiveUp, Rest, Idle, InNotifyTake, InCode
<1>3. CASE UNCHANGED vars
  BY <1>3 DEF vars, notifyVars
<1> QED
  BY <1>1, <1>2, <1>3 DEF Next

(* No wake-up is lost but by the assertion: until the system stops in it,  *)
(* a task in uart_recv, the last that called, never sleeps on over bytes   *)
(* that on_idle has counted, at whatever step of its falling asleep the    *)
(* notice came and however many ticks were put off meanwhile.              *)
THEOREM AnnouncedWakesOrHalts == Spec => [](halted \/ AnnouncedWakes)
<1>1. Init => halted \/ AnnouncePart
  BY DEF Init, NotifyInit, AnnouncePart, HasNotice
<1>2. ReaderInvariant /\ (halted \/ AnnouncePart) /\ [Next]_vars
          => (halted \/ AnnouncePart)'
  BY AnnounceInductive, HaltedStays
<1>3. ReaderInvariant /\ (halted \/ AnnouncePart) => halted \/ AnnouncedWakes
  <2> SUFFICES ASSUME ReaderInvariant, AnnouncePart, NEW t \in Task,
                      line = "quiet", tail < head, rx_task = t,
                      job[t].op = "recv", step[t] = "collect", ~Ready(t)
               PROVE  t \in pendingReady
    BY DEF AnnouncedWakes
  <2>1. value[t] > 0 /\ value[t] \in Nat
    BY DEF AnnouncePart, HasNotice, ReaderInvariant, NotifyInvariant, NotifyTypeOK
  <2>2. Expects(t)
    BY DEF ReaderInvariant, NotifyInvariant, NoticePart, Asleep, Ready
  <2> QED
    BY <2>1, <2>2 DEF Expects
<1> QED
  BY <1>1, <1>2, <1>3, ReaderInvariantHolds, PTL DEF Spec

-----------------------------------------------------------------------------
(* A task in rb_get on uart_recv's behalf has found bytes, and while       *)
(* readers take turns nobody takes them from it.                           *)
Holds(t) == job[t].op = "recv" => /\ pc[t] = "get" => n[t] > 0 /\ tail < head
                                  /\ pc[t] = "advance" => n[t] > 0

HoldPart == \A t \in Task : Holds(t)

(* Steps that take no byte.                                                *)
LEMMA SameHold ==
    ASSUME ReaderInvariant, HoldPart, UNCHANGED <<pc, job, n, tail>>,
           head' \in Nat, head <= head'
    PROVE  HoldPart'
<1>1. tail < head => tail' < head'
  BY DEF ReaderInvariant, CallTypes
<1> QED
  BY <1>1 DEF HoldPart, Holds

(* Steps of a task that runs: the others are not in rb_get.                *)
LEMMA OwnHold ==
    ASSUME ~Preempted, TurnInvariant, NEW t \in Task, MayRun(t),
           \A u \in Task \ {t} : pc'[u] = pc[u],
           Holds(t)'
    PROVE  HoldPart'
<1>1. \A u \in Task \ {t} : pc[u] \notin Taking
  BY OthersRest DEF TurnInvariant
<1> QED
  BY <1>1 DEF HoldPart, Holds, Taking

(* uart_recv goes to rb_get with bytes to take, and comes out with some.   *)
LEMMA StepHolds ==
    ASSUME ~Preempted, TurnInvariant, ReaderInvariant, HoldPart, NEW t \in Task,
           Calls(t) \/ Look(t) \/ Get(t) \/ Advance(t) \/ GiveUp(t) \/ Rest(t)
    PROVE  HoldPart'
<1>1. /\ pc \in [Task -> {"out", "look", "get", "advance", "rest"}]
      /\ job \in [Task -> Jobs \cup {NoJob}] /\ n \in [Task -> Nat]
      /\ Available \in Nat
  BY AvailableIsNumber DEF ReaderInvariant, CallTypes
<1>2. CASE Calls(t)
  <2>1. PICK j \in Jobs, place \in {"look", "get"} : Begins(t, j, place)
    BY <1>2, CallDoes
  <2>2. /\ MayRun(t) /\ pc' = [pc EXCEPT ![t] = place]
        /\ job' = [job EXCEPT ![t] = j]
        /\ place = "look" <=> j.op # "async"
    BY <2>1 DEF Begins
  <2>3. Holds(t)'
    BY <1>1, <2>2 DEF Holds
  <2> QED
    BY <1>1, <2>2, <2>3, OwnHold
<1>3. CASE Look(t)
  <2>1. /\ MayRun(t) /\ Available > 0
        /\ n' = [n EXCEPT ![t] = Min({job[t].len, Available})]
        /\ pc' = [pc EXCEPT ![t] = "get"] /\ pc[t] = "look"
        /\ UNCHANGED <<job, head, tail>>
    BY <1>3 DEF Look, InCode, Jump, ring
  <2>2. job[t].len \in Nat /\ job[t].len > 0
    BY <2>1, JobTypes DEF ReaderInvariant, CallTypes, CoursePart
  <2>3. Min({job[t].len, Available}) > 0
    BY <1>1, <2>1, <2>2, MinOfTwo
  <2>4. tail < head
    BY <1>1, <2>1, AvailableIsNumber DEF TurnInvariant, Kinds
  <2>5. Holds(t)'
    BY <1>1, <2>1, <2>3, <2>4 DEF Holds
  <2> QED
    BY <1>1, <2>1, <2>5, OwnHold
<1>4. CASE Get(t)
  <2>1. /\ MayRun(t) /\ pc[t] = "get"
        /\ n' = [n EXCEPT ![t] = Min({n[t], Available})]
        /\ pc' = [pc EXCEPT ![t] = "advance"]
        /\ UNCHANGED job
    BY <1>4 DEF Get, InCode, Jump
  <2>2. job[t].op = "recv" => n[t] > 0 /\ Available > 0
    BY <2>1, HeldIsAvailable DEF HoldPart, Holds
  <2>3. job[t].op = "recv" => Min({n[t], Available}) > 0
    BY <1>1, <2>2, MinOfTwo
  <2>4. Holds(t)'
    BY <1>1, <2>1, <2>3 DEF Holds
  <2> QED
    BY <1>1, <2>1, <2>4, OwnHold
<1>5. CASE Advance(t) \/ GiveUp(t) \/ Rest(t)
  <2>1. MayRun(t) /\ \E place \in {"out", "rest", "look"} : pc' = [pc EXCEPT ![t] = place]
    BY <1>5 DEF Advance, GiveUp, Rest, Return, Idle, InCode, Jump
  <2>2. Holds(t)'
    BY <1>1, <2>1 DEF Holds
  <2> QED
    BY <1>1, <2>1, <2>2, OwnHold
<1> QED
  BY <1>2, <1>3, <1>4, <1>5

(* Every step keeps what is there for the task that takes it.              *)
THEOREM HoldInductive ==
    ASSUME ~Preempted, TurnInvariant, ReaderInvariant, HoldPart, [Next]_vars
    PROVE  HoldPart'
<1>1. arrived \in Nat /\ head \in Nat /\ head <= arrived
  BY ApiRxAssumption DEF ReaderInvariant, CallTypes, ApiRxAssumption
<1>2. CASE DmaByte \/ on_rx_ht_tc \/ on_idle \/ uart_set_rx_callback \/ SysTick
  <2>1. UNCHANGED <<pc, job, n, tail>> /\ (head' = head \/ head' = arrived)
    BY <1>2 DEF DmaByte, on_rx_ht_tc, on_idle, uart_set_rx_callback, SysTick,
                ring, locals
  <2> QED
    BY <1>1, <2>1, SameHold
<1>3. ASSUME NEW t \in Task, Calls(t)
      PROVE  HoldPart'
  BY <1>3, StepHolds
<1>4. ASSUME NEW t \in Task, Continue(t)
      PROVE  HoldPart'
  <2>1. CASE InNotifyTake(t)
    BY <1>1, <2>1, TakeDoes, SameHold
  <2> QED
    BY <1>4, <2>1, StepHolds DEF Continue
<1>5. CASE UNCHANGED vars
  BY <1>1, <1>5, SameHold DEF vars, ring, locals
<1> QED
  BY <1>2, <1>3, <1>4, <1>5 DEF Next

(* What a call takes for the time it has waited is no more than that.      *)
LEMMA GiveUpInTime ==
    ASSUME ReaderInvariant, NEW t \in Task, GiveUp(t)
    PROVE  age[t] >= job[t].timeout
<1>1. MayRun(t) /\ step[t] = "out" /\ InCall(t) /\ TimedOut(t)
  BY DEF GiveUp, Idle, InCode, InCall
<1>2. job[t].timeout \in Nat /\ age[t] \in Nat /\ st[t] \in 0 .. portMAX_DELAY
  BY TimeTypes DEF ReaderInvariant, CallTypes
<1>3. job[t].timeout # portMAX_DELAY /\ Elapsed(st[t]) >= job[t].timeout
  BY <1>1 DEF TimedOut
<1>4. CASE job[t].timeout = 0
  BY <1>2, <1>4
<1>5. CASE job[t].timeout # 0
  <2>1. delays.now = Later(st[t], age[t] - pended) /\ pended = 0
    BY <1>1, <1>3, <1>5, NonePended
    DEF ReaderInvariant, ClockPart, Clocked, Now, Waits
  <2>2. delays.now = Later(st[t], age[t])
    BY <1>2, <2>1
  <2>3. /\ (Later(st[t], age[t]) - st[t]) % Ticks <= age[t]
        /\ (Later(st[t], age[t]) - st[t]) % Ticks \in 0 .. portMAX_DELAY
    BY <1>2, ElapsedTicks
  <2>4. Elapsed(st[t]) <= age[t] /\ Elapsed(st[t]) \in Int
    BY <2>2, <2>3 DEF Elapsed, Now
  <2> QED
    BY <1>2, <1>3, <2>4
<1> QED
  BY <1>4, <1>5

(* The invariant of readers that take turns.                               *)
THEOREM HoldPartHolds ==
    ASSUME ~Preempted
    PROVE  Spec => []HoldPart
<1>1. Init => HoldPart
  BY JobTypes DEF Init, HoldPart, Holds
<1>2. TurnInvariant /\ ReaderInvariant /\ HoldPart /\ [Next]_vars => HoldPart'
  BY HoldInductive
<1> QED
  BY <1>1, <1>2, TurnInvariantHolds, ReaderInvariantHolds, PTL DEF Spec

(* While readers take turns, uart_recv comes back with nothing only when   *)
(* at least its timeout has passed since it was called, whatever notices   *)
(* and wake-ups it had, and whether or not the timeout fits the tick       *)
(* count.                                                                  *)
THEOREM EmptyOnlyOnTimeout ==
    ASSUME ~Preempted
    PROVE  Spec => EmptyMeansTimeout
<1>1. ASSUME ReaderInvariant, HoldPart, [Next]_vars, NEW t \in Task,
             job[t].op = "recv", InCall(t), pc'[t] = "out", n[t] = 0
      PROVE  age[t] >= job[t].timeout
  <2>1. pc \in [Task -> {"out", "look", "get", "advance", "rest"}]
    BY <1>1 DEF ReaderInvariant, CallTypes
  <2>2. GiveUp(t) \/ Advance(t)
    <3>1. pc[t] # "out" /\ pc' # pc
      BY <1>1 DEF InCall
    <3>2. ~(DmaByte \/ on_rx_ht_tc \/ on_idle \/ SysTick \/ uart_set_rx_callback)
      BY <3>1 DEF DmaByte, on_rx_ht_tc, on_idle, SysTick, uart_set_rx_callback, locals
    <3>3. ~(UNCHANGED vars)
      BY <3>1 DEF vars, locals
    <3>4. PICK u \in Task : Calls(u) \/ Continue(u)
      BY <1>1, <3>2, <3>3 DEF Next
    <3>5. ~InNotifyTake(u)
      BY <3>1 DEF InNotifyTake, locals
    <3>6. ~(Look(u) \/ Get(u) \/ Rest(u))
      BY <1>1, <2>1, <3>1 DEF Look, Get, Rest, Jump
    <3>7. ~Calls(u)
      <4>1. SUFFICES ASSUME NEW j \in Jobs, NEW place \in {"look", "get"},
                            Begins(u, j, place)
                     PROVE  FALSE
        BY CallDoes
      <4> QED
        BY <1>1, <2>1, <3>1, <4>1 DEF Begins
    <3>8. GiveUp(u) \/ Advance(u)
      BY <3>4, <3>5, <3>6, <3>7 DEF Continue
    <3>9. u = t
      BY <1>1, <2>1, <3>1, <3>8 DEF GiveUp, Advance, Return, Jump
    <3> QED
      BY <3>8, <3>9
  <2>3. ~Advance(t)
    <3>1. pc[t] = "advance" => n[t] > 0
      BY <1>1 DEF HoldPart, Holds
    <3> QED
      BY <1>1, <3>1 DEF Advance, InCode
  <2> QED
    BY <1>1, <2>2, <2>3, GiveUpInTime
<1>2. ReaderInvariant /\ HoldPart /\ [Next]_vars =>
          [\A t \in Task : job[t].op = "recv" /\ InCall(t) /\ pc'[t] = "out" /\ n[t] = 0
                               => age[t] >= job[t].timeout]_vars
  BY <1>1
<1> QED
  BY <1>2, ReaderInvariantHolds, HoldPartHolds, PTL DEF Spec, EmptyMeansTimeout

(* The types of the state: while readers take turns the tail never passes  *)
(* the head, so that no call is told of bytes that have not come.          *)
THEOREM ReaderTypeOK ==
    ASSUME ~Preempted
    PROVE  Spec => []TypeOK
<1>1. TurnInvariant /\ ReaderInvariant => TypeOK
  <2> SUFFICES ASSUME TurnInvariant, ReaderInvariant PROVE TypeOK
    OBVIOUS
  <2>1. /\ NotifyTypeOK
        /\ \A t \in Task : step[t] # "out" => InCall(t)
    BY DEF ReaderInvariant, NotifyInvariant, CoursePart, InCall
  <2>2. tail \in 0 .. head /\ MaxBytes \in Nat /\ arrived \in 0 .. MaxBytes
        /\ head \in 0 .. arrived
    BY ApiRxAssumption
    DEF TurnInvariant, Kinds, ReaderInvariant, CallTypes, ApiRxAssumption
  <2>3. handed \in Seq(1 .. MaxBytes)
    <3>1. handed \in Seq(Nat) /\ \A i \in 1 .. Len(handed) : handed[i] = i
      BY DEF TurnInvariant, Kinds, Cursor
    <3>2. Len(handed) <= head
      <4>1. CASE \A t \in Task : pc[t] # "advance"
        BY <2>2, <4>1 DEF TurnInvariant, Cursor
      <4>2. ASSUME NEW t \in Task, pc[t] = "advance"
            PROVE  Len(handed) <= head
        BY <4>2 DEF TurnInvariant, Cursor
      <4> QED
        BY <4>1, <4>2
    <3>3. Len(handed) \in 0 .. MaxBytes
      BY <2>2, <3>1, <3>2
    <3>4. \A i \in 1 .. Len(handed) : handed[i] \in 1 .. MaxBytes
      BY <2>2, <3>1, <3>3
    <3> DEFINE copy == [i \in 1 .. Len(handed) |-> handed[i]]
    <3>5. copy \in Seq(1 .. MaxBytes)
      BY <3>3, <3>4
    <3>6. handed = copy
      BY <3>1
    <3> QED
      BY <3>5, <3>6
  <2> QED
    BY <2>1, <2>2, <2>3 DEF TypeOK, ReaderInvariant, CallTypes
<1> QED
  BY <1>1, TurnInvariantHolds, ReaderInvariantHolds, PTL
=============================================================================
