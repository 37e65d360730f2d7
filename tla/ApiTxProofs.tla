---------------------------- MODULE ApiTxProofs -----------------------------
(***************************************************************************)
(* What ApiTx promises, for any number of tasks, calls and bytes: the      *)
(* mutex keeps the driver to one task, a flush that succeeds leaves it     *)
(* empty, a send that waits forever falls short only when the mutex is     *)
(* refused, and every send says truly what it has sent.                    *)
(***************************************************************************)
EXTENDS ApiTx, SequenceTheorems, TLAPS

(* Who has the mutex is told by where he is.                               *)
Tenure == \A t \in Task : pc[t] \in Holding <=> owner = t

(* Which calls come to which places.                                       *)
Course ==
    \A t \in Task :
        /\ pc[t] = "drain" => job[t].op = "flush"
        /\ pc[t] \in {"look", "put", "full"} => job[t].op \in {"send", "async"}
        /\ pc[t] \in {"delay", "retake"} => job[t].op = "send"
        /\ pc[t] \in {"take", "give"} => job[t].op # "none"
        /\ pc[t] = "out" => job[t] = NoJob

(* With what a call goes to its last xSemaphoreGive.                       *)
Last ==
    \A t \in Task : pc[t] = "give" =>
        /\ job[t].op = "flush" => left = Len(stream)
        /\ job[t].op = "send" /\ job[t].forever => done[t] = job[t].len

Byte == [call : Task \X Nat, place : Nat]

(* What ApiTxInvariant needs of types.                                     *)
Kinds == /\ pc \in [Task -> Places]
         /\ job \in [Task -> [op : {"none", "send", "async", "flush"},
                              len : Nat, forever : BOOLEAN]]
         /\ done \in [Task -> Nat]
         /\ free \in [Task -> Nat]
         /\ \A t \in Task : done[t] <= job[t].len
         /\ result \in [Task -> Int]
         /\ stream \in Seq(Byte)
         /\ left \in 0 .. Len(stream) /\ Len(stream) - left <= Capacity
         /\ calls \in [Task -> Nat]

ApiTxInvariant == Kinds /\ Tenure /\ Course /\ Last

-----------------------------------------------------------------------------
(* The bytes of a message from the one after place m on, n of them.        *)
LEMMA BytesAreBytes ==
    ASSUME NEW t \in Task, NEW k \in Nat, NEW m \in Nat, NEW n \in Nat
    PROVE  /\ Bytes(<<t, k>>, m + 1, m + n) \in Seq(Byte)
           /\ Len(Bytes(<<t, k>>, m + 1, m + n)) = n
<1>1. m + n - (m + 1) + 1 = n
  OBVIOUS
<1>2. \A i \in 1 .. n : m + 1 + i - 1 \in Nat
  OBVIOUS
<1>3. Bytes(<<t, k>>, m + 1, m + n)
        = [i \in 1 .. n |-> [call |-> <<t, k>>, place |-> m + 1 + i - 1]]
  BY <1>1 DEF Bytes
<1>4. \A i \in 1 .. n : [call |-> <<t, k>>, place |-> m + 1 + i - 1] \in Byte
  BY <1>2 DEF Byte
<1>5. [i \in 1 .. n |-> [call |-> <<t, k>>, place |-> m + 1 + i - 1]] \in [1 .. n -> Byte]
  BY <1>4
<1>6. [i \in 1 .. n |-> [call |-> <<t, k>>, place |-> m + 1 + i - 1]] \in Seq(Byte)
  BY <1>5
<1>7. Len([i \in 1 .. n |-> [call |-> <<t, k>>, place |-> m + 1 + i - 1]]) = n
  BY <1>6
<1> QED
  BY <1>3, <1>6, <1>7

(* Nothing has happened: no calls, the mutex free, the driver empty.       *)
THEOREM InitHolds == Init => ApiTxInvariant
<1> SUFFICES ASSUME Init PROVE ApiTxInvariant
  OBVIOUS
<1>1. Kinds
  BY ApiTxAssumption DEF Init, Kinds, Places, NoJob
<1>2. Tenure
  BY ApiTxAssumption DEF Init, Tenure, Holding
<1>3. Course
  BY DEF Init, Course, NoJob
<1>4. Last
  BY DEF Init, Last
<1> QED
  BY <1>1, <1>2, <1>3, <1>4 DEF ApiTxInvariant

(* A task that comes back, with the mutex given or never had.              *)
LEMMA ReturnHolds ==
    ASSUME ApiTxInvariant, NEW t \in Task, NEW v \in Int, Return(t, v),
           \/ owner' = Nobody /\ owner = t
           \/ owner' = owner /\ owner # t
    PROVE  ApiTxInvariant'
<1> USE DEF Return, Goto
<1>1. Kinds'
  BY DEF ApiTxInvariant, Kinds, Places, NoJob
<1>2. Tenure'
  BY ApiTxAssumption DEF ApiTxInvariant, Kinds, Tenure, Holding
<1>3. Course'
  BY DEF ApiTxInvariant, Kinds, Course, NoJob
<1>4. Last'
  BY DEF ApiTxInvariant, Kinds, Last, NoJob
<1> QED
  BY <1>1, <1>2, <1>3, <1>4 DEF ApiTxInvariant

(* A task that goes from one place to another inside its call, having the  *)
(* mutex after it if it goes where one needs it.                           *)
LEMMA MoveHolds ==
    ASSUME ApiTxInvariant, NEW t \in Task, NEW place \in Places \ {"out", "give"},
           Goto(t, place),
           UNCHANGED <<stream, left, job, done, calls, result>>,
           free' \in [Task -> Nat],
           IF place \in Holding THEN owner' = t /\ owner \in {t, Nobody}
           ELSE owner' = owner /\ owner # t,
           place = "drain" => job[t].op = "flush",
           place \in {"look", "put", "full"} => job[t].op \in {"send", "async"},
           place \in {"delay", "retake"} => job[t].op = "send",
           place # "take"
    PROVE  ApiTxInvariant'
<1> USE DEF Goto
<1>1. Kinds'
  BY DEF ApiTxInvariant, Kinds
<1>2. Tenure'
  BY ApiTxAssumption DEF ApiTxInvariant, Kinds, Tenure
<1>3. Course'
  BY DEF ApiTxInvariant, Kinds, Course
<1>4. Last'
  BY DEF ApiTxInvariant, Kinds, Last
<1> QED
  BY <1>1, <1>2, <1>3, <1>4 DEF ApiTxInvariant

(* A task lets others have the mutex.                                      *)
LEMMA BackOffHolds ==
    ASSUME ApiTxInvariant, NEW t \in Task, BackOff(t)
    PROVE  ApiTxInvariant'
<1> USE DEF BackOff, Goto
<1>1. Kinds'
  BY DEF ApiTxInvariant, Kinds, Places
<1>2. Tenure'
  BY ApiTxAssumption DEF ApiTxInvariant, Kinds, Tenure, Holding
<1>3. Course'
  BY DEF ApiTxInvariant, Kinds, Course
<1>4. Last'
  BY DEF ApiTxInvariant, Kinds, Last
<1> QED
  BY <1>1, <1>2, <1>3, <1>4 DEF ApiTxInvariant

(* A call begins: its task had nothing, and now waits for the mutex.       *)
LEMMA CallHolds ==
    ASSUME ApiTxInvariant, NEW t \in Task,
           NEW j \in [op : {"send", "async", "flush"}, len : Nat, forever : BOOLEAN],
           Call(t, j)
    PROVE  ApiTxInvariant'
<1> USE DEF Call, Goto
<1>1. done[t] = 0
  BY DEF ApiTxInvariant, Kinds, Course, NoJob
<1>2. Kinds'
  BY <1>1 DEF ApiTxInvariant, Kinds, Places
<1>3. Tenure'
  BY ApiTxAssumption DEF ApiTxInvariant, Kinds, Tenure, Holding
<1>4. Course'
  BY DEF ApiTxInvariant, Kinds, Course
<1>5. Last'
  BY DEF ApiTxInvariant, Kinds, Last
<1> QED
  BY <1>2, <1>3, <1>4, <1>5 DEF ApiTxInvariant

(* The driver takes bytes of a message: it has the room that was read, and *)
(* nobody is about to report it empty, for the sender has the mutex.       *)
LEMMA PutHolds ==
    ASSUME ApiTxInvariant, NEW t \in Task, Put(t)
    PROVE  ApiTxInvariant'
<1> DEFINE chunk == Least(job[t].len - done[t], free[t])
           n     == Least(chunk, Room)
<1>1. /\ Len(stream) \in Nat /\ left \in Nat /\ left <= Len(stream)
      /\ Len(stream) - left <= Capacity /\ Capacity \in Nat
      /\ done[t] \in Nat /\ job[t].len \in Nat /\ free[t] \in Nat
      /\ done[t] <= job[t].len /\ calls[t] \in Nat
      /\ stream \in Seq(Byte)
  BY ApiTxAssumption DEF ApiTxInvariant, Kinds
<1>2. chunk \in Nat /\ chunk <= job[t].len - done[t]
  BY <1>1 DEF Least
<1>3. Room \in Nat /\ Room = Capacity - (Len(stream) - left)
  BY <1>1 DEF Room
<1>4. n \in Nat /\ n <= job[t].len - done[t] /\ n <= Room
  BY <1>1, <1>2, <1>3 DEF Least
<1> HIDE DEF n
<1> DEFINE new == Bytes(<<t, calls[t]>>, done[t] + 1, done[t] + n)
<1>5. new \in Seq(Byte) /\ Len(new) = n
  BY <1>1, <1>4, BytesAreBytes
<1>6. /\ stream' = stream \o new
      /\ left' = left
      /\ done' = [done EXCEPT ![t] = done[t] + n]
      /\ UNCHANGED <<owner, job, free, calls, result>>
      /\ pc[t] = "put"
      /\ Goto(t, IF job[t].op = "send" /\ done'[t] < job[t].len
                 THEN "look" ELSE "give")
  BY DEF Put, CallOf, n
<1> HIDE DEF new
<1>7. stream' \in Seq(Byte) /\ Len(stream') = Len(stream) + n
  <2>1. stream \o new \in Seq(Byte) /\ Len(stream \o new) = Len(stream) + Len(new)
    BY <1>1, <1>5, ConcatProperties
  <2> QED
    BY <1>5, <1>6, <2>1
<1>8. done'[t] = done[t] + n /\ done[t] + n <= job[t].len
  BY <1>1, <1>4, <1>6 DEF ApiTxInvariant, Kinds
<1>9. job[t].op \in {"send", "async"}
  BY <1>6 DEF ApiTxInvariant, Course
<1>10. owner = t
  BY <1>6 DEF ApiTxInvariant, Tenure, Holding
<1>11. Kinds'
  <2>1. pc' \in [Task -> Places]
    BY <1>6 DEF ApiTxInvariant, Kinds, Goto, Places
  <2>2. /\ job' \in [Task -> [op : {"none", "send", "async", "flush"},
                             len : Nat, forever : BOOLEAN]]
        /\ free' \in [Task -> Nat]
        /\ result' \in [Task -> Int] /\ calls' \in [Task -> Nat]
    BY <1>6 DEF ApiTxInvariant, Kinds
  <2>3. done' \in [Task -> Nat]
    BY <1>1, <1>4, <1>6 DEF ApiTxInvariant, Kinds
  <2>4. \A s \in Task : done'[s] <= job'[s].len
    BY <1>1, <1>6, <1>8 DEF ApiTxInvariant, Kinds
  <2>5. left' \in 0 .. Len(stream') /\ Len(stream') - left' <= Capacity
    BY <1>1, <1>3, <1>4, <1>6, <1>7
  <2> QED
    BY <1>7, <2>1, <2>2, <2>3, <2>4, <2>5 DEF Kinds
<1>12. Tenure'
  BY <1>6, <1>10 DEF ApiTxInvariant, Kinds, Tenure, Goto, Holding
<1>13. Course'
  BY <1>6, <1>9 DEF ApiTxInvariant, Kinds, Course, Goto
<1>14. Last'
  <2> SUFFICES ASSUME NEW s \in Task, pc'[s] = "give"
               PROVE  /\ job'[s].op = "flush" => left' = Len(stream')
                      /\ job'[s].op = "send" /\ job'[s].forever
                           => done'[s] = job'[s].len
    BY DEF Last
  <2>1. s = t
    BY <1>6, <1>10 DEF ApiTxInvariant, Kinds, Tenure, Goto, Holding
  <2>2. job'[s] = job[t] /\ job[t].op # "flush"
    BY <1>6, <1>9, <2>1
  <2>3. job[t].op = "send" => ~(done'[t] < job[t].len)
    BY <1>6, <2>1 DEF ApiTxInvariant, Kinds, Goto
  <2> QED
    BY <1>1, <1>4, <1>8, <2>1, <2>2, <2>3
<1> QED
  BY <1>11, <1>12, <1>13, <1>14 DEF ApiTxInvariant

(* A task reaches its last xSemaphoreGive.                                 *)
LEMMA ToGiveHolds ==
    ASSUME ApiTxInvariant, NEW t \in Task, pc[t] \in Holding, Goto(t, "give"),
           UNCHANGED <<owner, stream, left, job, free, done, calls, result>>,
           job[t].op # "none",
           job[t].op = "flush" => left = Len(stream),
           job[t].op = "send" => ~job[t].forever
    PROVE  ApiTxInvariant'
<1> USE DEF Goto
<1>1. Kinds'
  BY DEF ApiTxInvariant, Kinds, Places
<1>2. Tenure'
  BY DEF ApiTxInvariant, Kinds, Tenure, Holding
<1>3. Course'
  BY DEF ApiTxInvariant, Kinds, Course
<1>4. Last'
  BY DEF ApiTxInvariant, Kinds, Last
<1> QED
  BY <1>1, <1>2, <1>3, <1>4 DEF ApiTxInvariant

(* A byte leaves the driver.                                               *)
LEMMA SendsHolds == ApiTxInvariant /\ DriverSends => ApiTxInvariant'
<1> SUFFICES ASSUME ApiTxInvariant, DriverSends PROVE ApiTxInvariant'
  OBVIOUS
<1> USE DEF DriverSends
<1>1. Kinds'
  BY ApiTxAssumption DEF ApiTxInvariant, Kinds
<1>2. Tenure'
  BY DEF ApiTxInvariant, Tenure
<1>3. Course'
  BY DEF ApiTxInvariant, Course
<1>4. Last'
  BY DEF ApiTxInvariant, Kinds, Last
<1> QED
  BY <1>1, <1>2, <1>3, <1>4 DEF ApiTxInvariant

-----------------------------------------------------------------------------
(* Every step of the API keeps the invariant.                              *)
THEOREM StepHolds == ApiTxInvariant /\ [Next]_vars => ApiTxInvariant'
<1> SUFFICES ASSUME ApiTxInvariant, [Next]_vars PROVE ApiTxInvariant'
  OBVIOUS
<1>1. CASE DriverSends
  BY <1>1, SendsHolds
<1>2. CASE UNCHANGED vars
  BY <1>2 DEF vars, ApiTxInvariant, Kinds, Tenure, Course, Last
<1>3. ASSUME NEW t \in Task, Calls(t) PROVE ApiTxInvariant'
  <2> DEFINE Job == [op : {"send", "async", "flush"}, len : Nat, forever : BOOLEAN]
  <2>1. \A j \in Jobs : j \in Job
    <3>1. \A k \in Lengths : k \in Nat
      BY ApiTxAssumption
    <3>2. [op : {"send"}, len : Lengths, forever : BOOLEAN] \subseteq Job
      BY <3>1
    <3>3. [op : {"async"}, len : Lengths, forever : {FALSE}] \subseteq Job
      BY <3>1
    <3>4. [op : {"flush"}, len : {0}, forever : BOOLEAN] \subseteq Job
      OBVIOUS
    <3> QED
      BY <3>2, <3>3, <3>4 DEF Jobs
  <2>2. \A k \in Lengths :
          [op |-> "send", len |-> Least(k, PrintfBuf - 1), forever |-> TRUE] \in Job
    BY ApiTxAssumption DEF Least
  <2>3. PICK j \in Job : Call(t, j)
    BY <1>3, <2>1, <2>2 DEF Calls, uart_send, uart_send_async, uart_tx_flush, uart_printf
  <2> QED
    BY <2>3, CallHolds
<1>4. ASSUME NEW t \in Task, Take(t) PROVE ApiTxInvariant'
  <2>1. /\ pc[t] \in {"take", "retake"} /\ owner = Nobody /\ owner' = t
        /\ Goto(t, IF job[t].op = "flush" THEN "drain" ELSE "look")
        /\ UNCHANGED <<stream, left, job, free, done, calls, result>>
    BY <1>4 DEF Take
  <2>2. job[t].op \in {"send", "async", "flush"}
    BY <2>1 DEF ApiTxInvariant, Kinds, Course
  <2>3. free' \in [Task -> Nat]
    BY <2>1 DEF ApiTxInvariant, Kinds
  <2>4. CASE job[t].op = "flush"
    BY <2>1, <2>3, <2>4, MoveHolds DEF Places, Holding
  <2>5. CASE job[t].op # "flush"
    BY <2>1, <2>2, <2>3, <2>5, MoveHolds DEF Places, Holding
  <2> QED
    BY <2>4, <2>5
<1>5. ASSUME NEW t \in Task, Continue(t) PROVE ApiTxInvariant'
  <2>1. free \in [Task -> Nat] /\ done[t] \in Int
    BY DEF ApiTxInvariant, Kinds
  <2>2. pc[t] \in Holding <=> owner = t
    BY DEF ApiTxInvariant, Tenure
  <2>3. CASE Refused(t)
    <3>1. (IF pc[t] = "retake" THEN done[t] ELSE -1) \in Int
      BY <2>1
    <3> QED
      BY <2>2, <2>3, <3>1, ReturnHolds DEF Refused, Holding
  <2>4. CASE Give(t)
    BY <2>1, <2>2, <2>4, ReturnHolds DEF Give, Holding
  <2>5. CASE ReadFree(t)
    <3>1. /\ pc[t] = "look"
          /\ Goto(t, IF Room = 0 THEN "full" ELSE "put")
          /\ free' = [free EXCEPT ![t] = Room]
          /\ UNCHANGED <<owner, stream, left, job, done, calls, result>>
      BY <2>5 DEF ReadFree
    <3>2. Room \in Nat
      BY ApiTxAssumption DEF ApiTxInvariant, Kinds, Room
    <3>3. free' \in [Task -> Nat]
      BY <2>1, <3>1, <3>2
    <3>4. job[t].op \in {"send", "async"}
      BY <3>1 DEF ApiTxInvariant, Course
    <3>5. CASE Room = 0
      BY <2>2, <3>1, <3>3, <3>4, <3>5, MoveHolds DEF Places, Holding
    <3>6. CASE Room # 0
      BY <2>2, <3>1, <3>3, <3>4, <3>6, MoveHolds DEF Places, Holding
    <3> QED
      BY <3>5, <3>6
  <2>6. CASE Put(t)
    BY <2>6, PutHolds
  <2>7. CASE AsyncFails(t)
    BY <2>2, <2>7, ReturnHolds DEF AsyncFails, Holding
  <2>8. CASE GiveUp(t)
    BY <2>8, ToGiveHolds DEF GiveUp, Holding
  <2>9. CASE BackOff(t)
    BY <2>9, BackOffHolds
  <2>10. CASE DelayEnds(t)
    <3>1. job[t].op = "send"
      BY <2>10 DEF DelayEnds, ApiTxInvariant, Course
    <3> QED
      BY <2>1, <2>2, <2>10, <3>1, MoveHolds DEF DelayEnds, Places, Holding
  <2>11. CASE Drained(t)
    <3>1. job[t].op = "flush"
      BY <2>11 DEF Drained, ApiTxInvariant, Course
    <3> QED
      BY <2>11, <3>1, ToGiveHolds DEF Drained, Holding
  <2>12. CASE DrainFails(t)
    BY <2>2, <2>12, ReturnHolds DEF DrainFails, Holding
  <2> QED
    BY <1>5, <2>3, <2>4, <2>5, <2>6, <2>7, <2>8, <2>9, <2>10, <2>11, <2>12
       DEF Continue, Proceed, TimeIsUp
<1> QED
  BY <1>1, <1>2, <1>3, <1>4, <1>5 DEF Next

(* The invariant of the sending API: whoever holds the mutex is told by    *)
(* where he is, and with what a call reaches its end.                      *)
THEOREM ApiTxInvariantHolds == Spec => []ApiTxInvariant
<1>1. Init => ApiTxInvariant
  BY InitHolds
<1>2. ApiTxInvariant /\ [Next]_vars => ApiTxInvariant'
  BY StepHolds
<1> QED
  BY <1>1, <1>2, PTL DEF Spec

(* Never two tasks at once inside the driver's transmit functions: what    *)
(* TxPath takes for granted of its caller.                                 *)
THEOREM DriverIsAlone == Spec => []OneTaskInDriver
<1>1. ApiTxInvariant => OneTaskInDriver
  BY DEF ApiTxInvariant, Tenure, OneTaskInDriver, InDriver, Holding
<1> QED
  BY <1>1, ApiTxInvariantHolds, PTL

(* A flush that is about to report success leaves the driver empty.        *)
THEOREM FlushIsComplete == Spec => []FlushLeavesNothing
<1>1. ApiTxInvariant => FlushLeavesNothing
  BY DEF ApiTxInvariant, Last, FlushLeavesNothing
<1> QED
  BY <1>1, ApiTxInvariantHolds, PTL

(* A send that waits for portMAX_DELAY returns with its message sent, or   *)
(* from a take of the mutex refused while another task has it: of the      *)
(* other ways out of the API only the last xSemaphoreGive is its own.      *)
THEOREM ForeverIsShortIfRefused == Spec => ForeverShortIfRefused
<1> DEFINE Ended(t) == \/ result'[t] = job[t].len
                       \/ pc[t] \in {"take", "retake"} /\ owner \notin {t, Nobody}
           Whole == \A t \in Task :
              job[t].op = "send" /\ job[t].forever /\ pc'[t] = "out" => Ended(t)
<1>1. ApiTxInvariant /\ [Next]_vars => [Whole]_vars
  <2> SUFFICES ASSUME ApiTxInvariant, Next, NEW t \in Task,
                      job[t].op = "send", job[t].forever, pc'[t] = "out"
               PROVE  Ended(t)
    OBVIOUS
  <2>1. pc[t] # "out"
    BY DEF ApiTxInvariant, Course, NoJob
  <2>2. pc \in [Task -> Places] /\ result \in [Task -> Int]
    BY DEF ApiTxInvariant, Kinds
  <2>3. ~DriverSends
    BY <2>1 DEF DriverSends
  <2>4. PICK s \in Task : Calls(s) \/ Take(s) \/ Continue(s)
    BY <2>3 DEF Next
  <2>5. ~Calls(s)
    <3>1. ASSUME NEW j, Call(s, j) PROVE FALSE
      BY <2>1, <2>2, <3>1 DEF Call, Goto
    <3> QED
      BY <3>1 DEF Calls, uart_send, uart_send_async, uart_tx_flush, uart_printf
  <2>6. ~Take(s)
    BY <2>1, <2>2 DEF Take, Goto
  <2>7. ~ReadFree(s) /\ ~GiveUp(s) /\ ~BackOff(s) /\ ~DelayEnds(s) /\ ~Drained(s)
    BY <2>1, <2>2 DEF ReadFree, GiveUp, BackOff, DelayEnds, Drained, Goto
  <2>8. ~Put(s)
    <3>1. Put(s) => Goto(s, "look") \/ Goto(s, "give")
      BY Zenon DEF Put
    <3>2. ~Goto(s, "look") /\ ~Goto(s, "give")
      BY <2>1, <2>2 DEF Goto
    <3> QED
      BY <3>1, <3>2
  <2>9. CASE Refused(s)
    <3>1. s = t /\ pc[t] \in {"take", "retake"} /\ owner # Nobody
      BY <2>1, <2>2, <2>9 DEF Refused, Return, Goto
    <3>2. owner # t
      BY <3>1 DEF ApiTxInvariant, Tenure, Holding
    <3> QED
      BY <3>1, <3>2
  <2>10. CASE AsyncFails(s)
    BY <2>1, <2>2, <2>10 DEF AsyncFails, Return, Goto
  <2>11. CASE DrainFails(s)
    BY <2>1, <2>2, <2>11 DEF DrainFails, Return, Goto
  <2>12. CASE Give(s)
    <3>1. s = t
      BY <2>1, <2>2, <2>12 DEF Give, Return, Goto
    <3>2. done[t] = job[t].len
      BY <2>12, <3>1 DEF Give, ApiTxInvariant, Last
    <3> QED
      BY <2>2, <2>12, <3>1, <3>2 DEF Give, Return
  <2> QED
    BY <2>4, <2>5, <2>6, <2>7, <2>8, <2>9, <2>10, <2>11, <2>12
       DEF Continue, Proceed, TimeIsUp
<1> QED
  BY <1>1, ApiTxInvariantHolds, PTL DEF Spec, ForeverShortIfRefused

(* What the mutex's holder and the room read add to the types.             *)
OwnerAndRoom == /\ owner \in Task \cup {Nobody}
                /\ free \in [Task -> 0 .. Capacity]

(* Every step keeps them.                                                  *)
LEMMA OwnerAndRoomHold ==
    ASSUME ApiTxInvariant, OwnerAndRoom, [Next]_vars
    PROVE  OwnerAndRoom'
<1>1. Room \in 0 .. Capacity /\ 0 \in 0 .. Capacity
  BY ApiTxAssumption DEF ApiTxInvariant, Kinds, Room, ApiTxAssumption
<1>2. CASE DriverSends \/ UNCHANGED vars
  BY <1>2 DEF OwnerAndRoom, DriverSends, vars
<1>3. ASSUME NEW t \in Task, Calls(t)
      PROVE  OwnerAndRoom'
  BY <1>3 DEF OwnerAndRoom, Calls, uart_send, uart_send_async, uart_tx_flush,
              uart_printf, Call
<1>4. ASSUME NEW t \in Task, Take(t) \/ Give(t) \/ Refused(t) \/ AsyncFails(t)
                                 \/ DrainFails(t)
      PROVE  OwnerAndRoom'
  BY <1>1, <1>4 DEF OwnerAndRoom, Take, Give, Refused, AsyncFails, DrainFails, Return
<1>5. ASSUME NEW t \in Task, ReadFree(t)
      PROVE  OwnerAndRoom'
  BY <1>1, <1>5 DEF OwnerAndRoom, ReadFree
<1>6. ASSUME NEW t \in Task,
             Put(t) \/ GiveUp(t) \/ BackOff(t) \/ DelayEnds(t) \/ Drained(t)
      PROVE  OwnerAndRoom'
  BY <1>6 DEF OwnerAndRoom, Put, GiveUp, BackOff, DelayEnds, Drained
<1> QED
  BY <1>2, <1>3, <1>4, <1>5, <1>6 DEF Next, Continue, Proceed, TimeIsUp

(* No call counts more bytes as sent than its message has, and no room is  *)
(* read that the ring does not have, for any number of tasks and calls.    *)
THEOREM CallsAreTyped == Spec => []TypeOK
<1>1. Init => OwnerAndRoom
  BY ApiTxAssumption DEF Init, OwnerAndRoom, ApiTxAssumption
<1>2. ApiTxInvariant /\ OwnerAndRoom /\ [Next]_vars => OwnerAndRoom'
  BY OwnerAndRoomHold
<1>3. ApiTxInvariant /\ OwnerAndRoom => TypeOK
  BY DEF ApiTxInvariant, Kinds, OwnerAndRoom, TypeOK
<1> QED
  BY <1>1, <1>2, <1>3, ApiTxInvariantHolds, PTL DEF Spec

-----------------------------------------------------------------------------
(* Where in a stream s the bytes of a call are, ...                        *)
In(s, call) == {i \in 1 .. Len(s) : s[i].call = call}

(* ... and that they are the first count bytes of its message, in order.   *)
Sent(s, call, count) ==
    /\ \A i \in In(s, call) : s[i].place \in 1 .. count
    /\ \A p \in 1 .. count : \E i \in In(s, call) : s[i].place = p
    /\ \A i, j \in In(s, call) : i < j => s[i].place < s[j].place

(* Stream r is s and the next n bytes of a message, after its first m.     *)
Appended(s, r, call, m, n) ==
    /\ Len(s) \in Nat /\ Len(r) = Len(s) + n
    /\ \A i \in 1 .. Len(s) : r[i] = s[i]
    /\ \A i \in 1 .. n : r[Len(s) + i].call = call /\ r[Len(s) + i].place = m + i

(* That is what the driver does when it takes them.                        *)
LEMMA BytesAppended ==
    ASSUME NEW s \in Seq(Byte), NEW t \in Task, NEW k \in Nat,
           NEW m \in Nat, NEW n \in Nat
    PROVE  Appended(s, s \o Bytes(<<t, k>>, m + 1, m + n), <<t, k>>, m, n)
<1> DEFINE new == Bytes(<<t, k>>, m + 1, m + n)
           call == <<t, k>>
<1>1. new \in Seq(Byte) /\ Len(new) = n
  BY BytesAreBytes
<1>2. new = [i \in 1 .. n |-> [call |-> call, place |-> m + 1 + i - 1]]
  <2>1. m + n - (m + 1) + 1 = n
    OBVIOUS
  <2> QED
    BY <2>1 DEF Bytes
<1> HIDE DEF new, call
<1>3. \A i \in 1 .. n : m + 1 + i - 1 = m + i
  OBVIOUS
<1>4. \A i \in 1 .. n : new[i] = [call |-> call, place |-> m + 1 + i - 1]
  BY <1>2
<1>5. \A i \in 1 .. n : new[i].call = call /\ new[i].place = m + i
  <2> SUFFICES ASSUME NEW i \in 1 .. n
               PROVE  new[i].call = call /\ new[i].place = m + i
    OBVIOUS
  <2>1. new[i].call = call /\ new[i].place = m + 1 + i - 1
    <3>1. \A e, c, p :
              e = [call |-> c, place |-> p] => e.call = c /\ e.place = p
      OBVIOUS
    <3>2. new[i] = [call |-> call, place |-> m + 1 + i - 1]
      BY <1>4
    <3> QED
      BY <3>1, <3>2
  <2> QED
    BY <1>3, <2>1
<1> DEFINE r == s \o new
<1>6. Len(s) \in Nat
  OBVIOUS
<1>7. Len(r) = Len(s) + n
  BY <1>1, ConcatProperties
<1>8. \A i \in 1 .. Len(s) + Len(new) :
          r[i] = IF i <= Len(s) THEN s[i] ELSE new[i - Len(s)]
  BY <1>1, ConcatProperties
<1> HIDE DEF r
<1>9. ASSUME NEW old \in Nat, NEW i \in 1 .. n
      PROVE  /\ old + i \in 1 .. old + n
             /\ ~(old + i <= old) /\ (old + i) - old = i
  OBVIOUS
<1>10. \A i \in 1 .. n : r[Len(s) + i] = new[i]
  BY ONLY <1>1, <1>6, <1>8, <1>9
<1>11. \A i \in 1 .. Len(s) : r[i] = s[i]
  BY ONLY <1>1, <1>6, <1>8, n \in Nat
<1>12. Appended(s, r, call, m, n)
  BY <1>5, <1>6, <1>7, <1>10, <1>11 DEF Appended
<1> QED
  BY <1>12 DEF r, new, call

(* Where the places of the longer stream are.                              *)
LEMMA OldOrNew ==
    ASSUME NEW old \in Nat, NEW n \in Nat, NEW i \in 1 .. old + n
    PROVE  i \in 1 .. old \/ \E h \in 1 .. n : i = old + h
<1>1. CASE i <= old
  BY <1>1
<1>2. CASE ~(i <= old)
  <2>1. i - old \in 1 .. n /\ i = old + (i - old)
    BY <1>2
  <2> QED
    BY <2>1
<1> QED
  BY <1>1, <1>2

(* Nothing of another call's message is touched, ...                       *)
LEMMA OthersSent ==
    ASSUME NEW s, NEW r, NEW other, NEW m \in Nat, NEW n \in Nat,
           Appended(s, r, other, m, n),
           NEW call, call # other, NEW count, Sent(s, call, count)
    PROVE  Sent(r, call, count)
<1>1. /\ Len(s) \in Nat /\ Len(r) = Len(s) + n
      /\ \A i \in 1 .. Len(s) : r[i] = s[i]
      /\ \A i \in 1 .. n : r[Len(s) + i].call = other
  BY DEF Appended
<1>2. \A i \in In(r, call) : i \in In(s, call) /\ r[i] = s[i]
  <2> SUFFICES ASSUME NEW i \in In(r, call)
               PROVE  i \in In(s, call) /\ r[i] = s[i]
    OBVIOUS
  <2>1. i \in 1 .. Len(s) + n /\ r[i].call = call
    BY <1>1 DEF In
  <2>2. i \in 1 .. Len(s) \/ \E h \in 1 .. n : i = Len(s) + h
    BY <1>1, <2>1, OldOrNew
  <2>3. ASSUME NEW h \in 1 .. n, i = Len(s) + h PROVE FALSE
    <3>1. r[Len(s) + h].call = other
      BY <1>1
    <3> QED
      BY <2>1, <2>3, <3>1
  <2> QED
    BY <1>1, <2>1, <2>2, <2>3 DEF In
<1>3. \A i \in In(s, call) : i \in In(r, call) /\ r[i] = s[i]
  <2>1. \A i \in 1 .. Len(s) : i \in 1 .. Len(r)
    BY <1>1
  <2> QED
    BY <1>1, <2>1 DEF In
<1> QED
  BY <1>2, <1>3 DEF Sent

(* ... and the message that goes on is in order still.                     *)
LEMMA OwnSent ==
    ASSUME NEW s, NEW r, NEW call, NEW m \in Nat, NEW n \in Nat,
           Appended(s, r, call, m, n), Sent(s, call, m)
    PROVE  Sent(r, call, m + n)
<1> DEFINE old == Len(s)
<1>1. /\ old \in Nat /\ Len(r) = old + n
      /\ \A i \in 1 .. old : r[i] = s[i]
      /\ \A i \in 1 .. n : r[old + i].call = call /\ r[old + i].place = m + i
  BY DEF Appended
<1>3. \A i \in In(s, call) : i \in 1 .. old
  BY DEF In
<1> HIDE DEF old
<1>4. \A i \in In(s, call) : /\ i \in In(r, call) /\ r[i] = s[i]
                             /\ r[i].place \in 1 .. m
  <2>1. \A i \in 1 .. old : i \in 1 .. Len(r)
    BY <1>1
  <2> QED
    BY <1>1, <1>3, <2>1 DEF In, Sent
<1>5. \A h \in 1 .. n : old + h \in In(r, call)
  <2>1. \A h \in 1 .. n : old + h \in 1 .. Len(r)
    BY <1>1
  <2> QED
    BY <1>1, <2>1 DEF In
<1>6. \A i \in In(r, call) :
          i \in In(s, call) \/ \E h \in 1 .. n : i = old + h
  <2> SUFFICES ASSUME NEW i \in In(r, call)
               PROVE  i \in In(s, call) \/ \E h \in 1 .. n : i = old + h
    OBVIOUS
  <2>1. i \in 1 .. old + n /\ r[i].call = call
    BY <1>1 DEF In
  <2>2. i \in 1 .. old \/ \E h \in 1 .. n : i = old + h
    BY <1>1, <2>1, OldOrNew
  <2> QED
    BY <1>1, <2>1, <2>2 DEF In, old
<1>7. \A i \in In(r, call) : r[i].place \in 1 .. m + n
  <2>1. \A p \in 1 .. m : p \in 1 .. m + n
    OBVIOUS
  <2>2. \A h \in 1 .. n : m + h \in 1 .. m + n
    OBVIOUS
  <2> QED
    BY <1>1, <1>4, <1>6, <2>1, <2>2
<1>8. \A p \in 1 .. m + n : \E i \in In(r, call) : r[i].place = p
  <2> SUFFICES ASSUME NEW p \in 1 .. m + n
               PROVE  \E i \in In(r, call) : r[i].place = p
    OBVIOUS
  <2>1. p \in 1 .. m \/ \E h \in 1 .. n : p = m + h
    BY OldOrNew
  <2>2. CASE p \in 1 .. m
    <3>1. PICK i \in In(s, call) : s[i].place = p
      BY <2>2 DEF Sent
    <3> QED
      BY <1>4, <3>1
  <2>3. CASE \E h \in 1 .. n : p = m + h
    BY <1>1, <1>5, <2>3
  <2> QED
    BY <2>1, <2>2, <2>3
<1>9. ASSUME NEW i \in In(r, call), NEW j \in In(r, call), i < j
      PROVE  r[i].place < r[j].place
  <2>1. CASE i \in In(s, call) /\ j \in In(s, call)
    BY <1>4, <1>9, <2>1 DEF Sent
  <2>2. CASE i \in In(s, call) /\ \E h \in 1 .. n : j = old + h
    <3>1. PICK h \in 1 .. n : j = old + h
      BY <2>2
    <3>2. r[j].place = m + h /\ r[i].place \in 1 .. m
      BY <1>1, <1>4, <2>2, <3>1
    <3>3. \A p \in 1 .. m : p < m + h
      OBVIOUS
    <3> QED
      BY <3>2, <3>3
  <2>3. CASE j \in In(s, call) /\ \E h \in 1 .. n : i = old + h
    <3>1. PICK h \in 1 .. n : i = old + h
      BY <2>3
    <3>2. j \in 1 .. old
      BY <1>3, <2>3
    <3> QED
      BY <1>1, <1>9, <3>1, <3>2
  <2>4. CASE /\ \E h \in 1 .. n : i = old + h
             /\ \E h \in 1 .. n : j = old + h
    <3>1. PICK g \in 1 .. n : i = old + g
      BY <2>4
    <3>2. PICK h \in 1 .. n : j = old + h
      BY <2>4
    <3>3. g < h
      BY <1>1, <1>9, <3>1, <3>2
    <3>4. r[i].place = m + g /\ r[j].place = m + h
      BY <1>1, <3>1, <3>2
    <3> QED
      BY <3>3, <3>4
  <2> QED
    BY <1>6, <2>1, <2>2, <2>3, <2>4
<1> QED
  BY <1>7, <1>8, <1>9 DEF Sent

-----------------------------------------------------------------------------
(* Where a call has sent nothing yet.                                      *)
Early == \A t \in Task :
    /\ pc[t] = "take" => done[t] = 0
    /\ pc[t] \in {"look", "put", "full"} /\ job[t].op = "async" => done[t] = 0
    /\ job[t].op = "flush" => done[t] = 0

(* The bytes in the stream are of calls that have been made.               *)
Begun == \A i \in 1 .. Len(stream) : \A t \in Task, k \in Nat :
             stream[i].call = <<t, k>> => k <= calls[t]

(* What a call has sent, or its task's last one had, as it counts.         *)
Counted(t) == IF pc[t] # "out" THEN done[t]
              ELSE IF result[t] < 0 THEN 0 ELSE result[t]

Reported == \A t \in Task : Sent(stream, CallOf(t), Counted(t))

Reports == ApiTxInvariant /\ Early /\ Begun /\ Reported

(* A call whose bytes are nowhere has sent none.                           *)
LEMMA NothingSent ==
    ASSUME NEW s, NEW call, \A i \in 1 .. Len(s) : s[i].call # call
    PROVE  Sent(s, call, 0)
<1>1. In(s, call) = {}
  BY DEF In
<1>2. 1 .. 0 = {}
  OBVIOUS
<1> QED
  BY <1>1, <1>2 DEF Sent

(* Nothing has been sent when nothing has been called.                     *)
LEMMA ReportsInit == Init => Reports
<1> SUFFICES ASSUME Init PROVE Reports
  OBVIOUS
<1>1. ApiTxInvariant
  BY InitHolds
<1>2. Early
  BY DEF Init, Early
<1>3. 1 .. Len(stream) = {}
  BY DEF Init
<1>4. Begun
  BY <1>3 DEF Begun
<1>5. Reported
  <2> SUFFICES ASSUME NEW t \in Task PROVE Sent(stream, CallOf(t), Counted(t))
    BY DEF Reported
  <2>1. Counted(t) = 0
    BY DEF Init, Counted
  <2>2. Sent(stream, CallOf(t), 0)
    BY <1>3, NothingSent
  <2> QED
    BY <2>1, <2>2
<1> QED
  BY <1>1, <1>2, <1>4, <1>5 DEF Reports

(* A step that leaves stream and calls as they are, and the count of every *)
(* call, leaves it a true one.                                             *)
LEMMA SameCount ==
    ASSUME Reports, ApiTxInvariant', UNCHANGED <<stream, calls>>, Early',
           \A t \in Task : Counted(t)' = Counted(t)
    PROVE  Reports'
<1>1. Begun'
  BY DEF Reports, Begun
<1>2. Reported'
  BY DEF Reports, Reported, CallOf
<1> QED
  BY <1>1, <1>2 DEF Reports

(* A task that moves on inside its call.                                   *)
LEMMA MoveReports ==
    ASSUME Reports, ApiTxInvariant', NEW t \in Task,
           NEW place \in Places \ {"out", "take"},
           Goto(t, place), pc[t] # "out",
           UNCHANGED <<stream, calls, job, done, result>>,
           place \in {"look", "put", "full"} =>
               \/ pc[t] \in {"take", "look", "put", "full"}
               \/ job[t].op # "async"
    PROVE  Reports'
<1>1. Kinds
  BY DEF Reports, ApiTxInvariant
<1>2. Early'
  BY <1>1 DEF Reports, Early, Goto, Kinds
<1>3. \A s \in Task : Counted(s)' = Counted(s)
  BY <1>1 DEF Counted, Goto, Kinds
<1> QED
  BY <1>2, <1>3, SameCount

(* A task that comes back and says how much its call has sent, or that the *)
(* call has failed, having sent nothing.                                   *)
LEMMA ReturnReports ==
    ASSUME Reports, ApiTxInvariant', NEW t \in Task, NEW v \in Int, Return(t, v),
           pc[t] # "out", done[t] = IF v < 0 THEN 0 ELSE v
    PROVE  Reports'
<1>1. Kinds
  BY DEF Reports, ApiTxInvariant
<1>2. /\ pc' = [pc EXCEPT ![t] = "out"]
      /\ result' = [result EXCEPT ![t] = v]
      /\ job' = [job EXCEPT ![t] = NoJob]
      /\ done' = [done EXCEPT ![t] = 0]
      /\ UNCHANGED <<stream, calls>>
  BY DEF Return, Goto
<1>3. Early'
  BY <1>1, <1>2 DEF Reports, Early, Kinds, NoJob
<1>4. ASSUME NEW s \in Task PROVE Counted(s)' = Counted(s)
  <2>1. CASE s = t
    <3>1. done[t] \in Nat /\ pc'[t] = "out" /\ result'[t] = v
      BY <1>1, <1>2 DEF Kinds
    <3>2. Counted(t)' = IF v < 0 THEN 0 ELSE v
      BY <3>1 DEF Counted
    <3>3. Counted(t) = done[t]
      BY DEF Counted
    <3> QED
      BY <2>1, <3>2, <3>3
  <2>2. CASE s # t
    <3>1. pc'[s] = pc[s] /\ result'[s] = result[s] /\ done'[s] = done[s]
      BY <1>1, <1>2, <2>2 DEF Kinds
    <3> QED
      BY <3>1 DEF Counted
  <2> QED
    BY <2>1, <2>2
<1> QED
  BY <1>2, <1>3, <1>4, SameCount

(* A call begins: none of its bytes can be in the stream yet.              *)
LEMMA CallReports ==
    ASSUME Reports, ApiTxInvariant', NEW t \in Task, NEW j, Call(t, j)
    PROVE  Reports'
<1>1. Kinds /\ Course
  BY DEF Reports, ApiTxInvariant
<1>2. /\ pc[t] = "out"
      /\ calls' = [calls EXCEPT ![t] = calls[t] + 1]
      /\ result' = [result EXCEPT ![t] = 0]
      /\ job' = [job EXCEPT ![t] = j]
      /\ pc' = [pc EXCEPT ![t] = "take"]
      /\ UNCHANGED <<stream, done>>
  BY DEF Call, Goto
<1>3. done[t] = 0
  BY <1>1, <1>2 DEF Kinds, Course, NoJob
<1>4. \A s \in Task : s # t =>
          /\ pc'[s] = pc[s] /\ job'[s] = job[s] /\ done'[s] = done[s]
          /\ result'[s] = result[s] /\ calls'[s] = calls[s]
  BY <1>1, <1>2 DEF Kinds
<1>5. pc'[t] = "take" /\ done'[t] = 0 /\ calls'[t] = calls[t] + 1
  BY <1>1, <1>2, <1>3 DEF Kinds
<1>6. Early'
  BY <1>4, <1>5 DEF Reports, Early
<1>7. Begun'
  <2>1. \A s \in Task : calls[s] \in Nat /\ calls'[s] \in Nat /\ calls[s] <= calls'[s]
    BY <1>1, <1>4, <1>5 DEF Kinds
  <2> SUFFICES ASSUME NEW i \in 1 .. Len(stream), NEW s \in Task, NEW k \in Nat,
                      stream[i].call = <<s, k>>
               PROVE  k <= calls'[s]
    BY <1>2 DEF Begun
  <2>2. k <= calls[s]
    BY DEF Reports, Begun
  <2> QED
    BY <2>1, <2>2
<1>8. Reported'
  <2> SUFFICES ASSUME NEW s \in Task
               PROVE  Sent(stream', CallOf(s)', Counted(s)')
    BY DEF Reported
  <2>1. CASE s = t
    <3>1. CallOf(t)' = <<t, calls[t] + 1>>
      BY <1>5 DEF CallOf
    <3>2. Counted(t)' = 0
      BY <1>5 DEF Counted
    <3>3. calls[t] \in Nat /\ calls[t] + 1 \in Nat /\ ~(calls[t] + 1 <= calls[t])
      BY <1>1 DEF Kinds
    <3>4. \A i \in 1 .. Len(stream) : stream[i].call # <<t, calls[t] + 1>>
      BY <3>3 DEF Reports, Begun
    <3>5. Sent(stream, <<t, calls[t] + 1>>, 0)
      BY <3>4, NothingSent
    <3> QED
      BY <1>2, <2>1, <3>1, <3>2, <3>5
  <2>2. CASE s # t
    <3>1. CallOf(s)' = CallOf(s) /\ Counted(s)' = Counted(s)
      BY <1>4, <2>2 DEF CallOf, Counted
    <3> QED
      BY <1>2, <3>1 DEF Reports, Reported
  <2> QED
    BY <2>1, <2>2
<1> QED
  BY <1>6, <1>7, <1>8 DEF Reports

(* What the driver takes of a message are its next bytes, and they are     *)
(* counted.                                                                *)
LEMMA PutAppends ==
    ASSUME Kinds, NEW t \in Task, Put(t)
    PROVE  \E n \in Nat :
               /\ Appended(stream, stream', <<t, calls[t]>>, done[t], n)
               /\ done' = [done EXCEPT ![t] = done[t] + n]
<1> DEFINE chunk == Least(job[t].len - done[t], free[t])
           n     == Least(chunk, Room)
<1>1. /\ Len(stream) \in Nat /\ left \in Nat /\ left <= Len(stream)
      /\ Len(stream) - left <= Capacity /\ Capacity \in Nat
      /\ done[t] \in Nat /\ job[t].len \in Nat /\ free[t] \in Nat
      /\ done[t] <= job[t].len /\ calls[t] \in Nat
      /\ stream \in Seq(Byte)
  BY ApiTxAssumption DEF Kinds
<1>2. chunk \in Nat
  BY <1>1 DEF Least
<1>3. Room \in Nat
  BY <1>1 DEF Room
<1>4. n \in Nat
  BY <1>2, <1>3 DEF Least
<1> HIDE DEF n
<1>5. /\ stream' = stream \o Bytes(<<t, calls[t]>>, done[t] + 1, done[t] + n)
      /\ done' = [done EXCEPT ![t] = done[t] + n]
  BY DEF Put, CallOf, n
<1>6. Appended(stream, stream', <<t, calls[t]>>, done[t], n)
  BY <1>1, <1>4, <1>5, BytesAppended
<1> QED
  BY <1>4, <1>5, <1>6

(* The driver takes bytes of a message: the reports stay true.             *)
LEMMA PutReports ==
    ASSUME Reports, ApiTxInvariant', NEW t \in Task, Put(t)
    PROVE  Reports'
<1>1. Kinds /\ Course
  BY DEF Reports, ApiTxInvariant
<1>2. done[t] \in Nat /\ calls[t] \in Nat /\ Len(stream) \in Nat
  BY <1>1 DEF Kinds
<1>3. PICK n \in Nat :
          /\ Appended(stream, stream', <<t, calls[t]>>, done[t], n)
          /\ done' = [done EXCEPT ![t] = done[t] + n]
  BY <1>1, PutAppends
<1>4. n \in Nat
  OBVIOUS
<1>5. /\ UNCHANGED <<job, calls, result>>
      /\ pc[t] = "put"
      /\ pc' = [pc EXCEPT ![t] = IF job[t].op = "send" /\ done'[t] < job[t].len
                                 THEN "look" ELSE "give"]
  BY DEF Put, Goto
<1>6. job[t].op \in {"send", "async"}
  BY <1>1, <1>5 DEF Course
<1>7. \A s \in Task : s # t =>
          pc'[s] = pc[s] /\ done'[s] = done[s] /\ Counted(s)' = Counted(s)
  BY <1>1, <1>3, <1>5 DEF Kinds, Counted
<1>8. /\ pc'[t] \in {"look", "give"} /\ done'[t] = done[t] + n
      /\ pc'[t] = "look" => job[t].op = "send"
  BY <1>1, <1>3, <1>5 DEF Kinds
<1>9. Early'
  BY <1>5, <1>6, <1>7, <1>8 DEF Reports, Early
<1>10. Begun'
  <2>1. \A i \in 1 .. Len(stream') :
            i \in 1 .. Len(stream) \/ \E h \in 1 .. n : i = Len(stream) + h
    <3>1. Len(stream') = Len(stream) + n
      BY <1>3 DEF Appended
    <3>2. \A i \in 1 .. Len(stream) + n :
              i \in 1 .. Len(stream) \/ \E h \in 1 .. n : i = Len(stream) + h
      BY <1>2, <1>4, OldOrNew
    <3> QED
      BY <3>1, <3>2
  <2>2. \A i \in 1 .. Len(stream') :
            \/ i \in 1 .. Len(stream) /\ stream'[i].call = stream[i].call
            \/ stream'[i].call = <<t, calls[t]>>
    BY <1>3, <2>1 DEF Appended
  <2> SUFFICES ASSUME NEW i \in 1 .. Len(stream'), NEW s \in Task, NEW k \in Nat,
                      stream'[i].call = <<s, k>>
               PROVE  k <= calls[s]
    BY <1>5 DEF Begun
  <2>3. CASE i \in 1 .. Len(stream) /\ stream[i].call = <<s, k>>
    BY <2>3 DEF Reports, Begun
  <2>4. CASE <<t, calls[t]>> = <<s, k>>
    BY <1>2, <2>4
  <2> QED
    BY <2>2, <2>3, <2>4
<1>11. Reported'
  <2> SUFFICES ASSUME NEW s \in Task
               PROVE  Sent(stream', <<s, calls[s]>>, Counted(s)')
    BY <1>5 DEF Reported, CallOf
  <2>1. Sent(stream, <<s, calls[s]>>, Counted(s))
    BY DEF Reports, Reported, CallOf
  <2>2. CASE s = t
    <3>1. Counted(t) = done[t] /\ Counted(t)' = done[t] + n
      BY <1>5, <1>8 DEF Counted
    <3>2. Sent(stream', <<t, calls[t]>>, done[t] + n)
      BY <1>2, <1>4, <1>3, <2>1, <2>2, <3>1, OwnSent
    <3> QED
      BY <2>2, <3>1, <3>2
  <2>3. CASE s # t
    <3>1. <<s, calls[s]>> # <<t, calls[t]>>
      BY <2>3
    <3>2. Sent(stream', <<s, calls[s]>>, Counted(s))
      BY <1>2, <1>4, <1>3, <2>1, <3>1, OthersSent
    <3> QED
      BY <1>7, <2>3, <3>2
  <2> QED
    BY <2>2, <2>3
<1> QED
  BY <1>9, <1>10, <1>11 DEF Reports

(* Every step of the API keeps the reports true.                           *)
LEMMA StepReports == Reports /\ [Next]_vars => Reports'
<1> SUFFICES ASSUME Reports, [Next]_vars PROVE Reports'
  OBVIOUS
<1>1. ApiTxInvariant'
  BY StepHolds DEF Reports
<1>2. Kinds /\ Course
  BY DEF Reports, ApiTxInvariant
<1>3. CASE UNCHANGED <<stream, calls, pc, job, done, result>>
  <2>1. Early' /\ \A t \in Task : Counted(t)' = Counted(t)
    BY <1>3 DEF Reports, Early, Counted
  <2> QED
    BY <1>1, <1>3, <2>1, SameCount
<1>4. ASSUME NEW t \in Task, Calls(t) PROVE Reports'
  <2>1. PICK j : Call(t, j)
    BY <1>4 DEF Calls, uart_send, uart_send_async, uart_tx_flush, uart_printf
  <2> QED
    BY <1>1, <2>1, CallReports
<1>5. ASSUME NEW t \in Task, Take(t) PROVE Reports'
  <2>1. /\ pc[t] \in {"take", "retake"}
        /\ Goto(t, IF job[t].op = "flush" THEN "drain" ELSE "look")
        /\ UNCHANGED <<stream, job, done, calls, result>>
    BY <1>5 DEF Take
  <2>2. pc[t] = "retake" => job[t].op # "async"
    BY <1>2 DEF Course
  <2>3. CASE job[t].op = "flush"
    BY <1>1, <2>1, <2>3, MoveReports DEF Places
  <2>4. CASE job[t].op # "flush"
    BY <1>1, <2>1, <2>2, <2>4, MoveReports DEF Places
  <2> QED
    BY <2>3, <2>4
<1>6. ASSUME NEW t \in Task, Continue(t) PROVE Reports'
  <2>1. CASE Refused(t)
    <3>1. /\ pc[t] \in {"take", "retake"}
          /\ Return(t, IF pc[t] = "retake" THEN done[t] ELSE -1)
      BY <2>1 DEF Refused
    <3>2. CASE pc[t] = "retake"
      <4>1. Return(t, done[t])
        BY <3>1, <3>2
      <4>2. done[t] \in Int /\ done[t] = IF done[t] < 0 THEN 0 ELSE done[t]
        BY <1>2 DEF Kinds
      <4>3. pc[t] # "out"
        BY <3>2
      <4> QED
        BY <1>1, <4>1, <4>2, <4>3, ReturnReports, Zenon
    <3>3. CASE pc[t] = "take"
      <4>1. Return(t, -1)
        BY <3>1, <3>3
      <4>2. done[t] = 0
        BY <3>3 DEF Reports, Early
      <4> QED
        BY <1>1, <3>3, <4>1, <4>2, ReturnReports
    <3> QED
      BY <3>1, <3>2, <3>3
  <2>2. CASE Give(t)
    <3>1. pc[t] = "give" /\ pc[t] # "out" /\ Return(t, done[t])
      BY <2>2 DEF Give
    <3>2. done[t] \in Int /\ done[t] = IF done[t] < 0 THEN 0 ELSE done[t]
      BY <1>2 DEF Kinds
    <3> QED
      BY <1>1, <3>1, <3>2, ReturnReports, Zenon
  <2>3. CASE ReadFree(t)
    <3>1. /\ pc[t] = "look"
          /\ Goto(t, IF Room = 0 THEN "full" ELSE "put")
          /\ UNCHANGED <<stream, job, done, calls, result>>
      BY <2>3 DEF ReadFree
    <3>2. CASE Room = 0
      BY <1>1, <3>1, <3>2, MoveReports DEF Places
    <3>3. CASE Room # 0
      BY <1>1, <3>1, <3>3, MoveReports DEF Places
    <3> QED
      BY <3>2, <3>3
  <2>4. CASE Put(t)
    BY <1>1, <2>4, PutReports
  <2>5. CASE AsyncFails(t)
    <3>1. pc[t] = "full" /\ job[t].op = "async" /\ Return(t, -1)
      BY <2>5 DEF AsyncFails
    <3>2. done[t] = 0
      BY <3>1 DEF Reports, Early
    <3> QED
      BY <1>1, <3>1, <3>2, ReturnReports
  <2>6. CASE GiveUp(t)
    BY <1>1, <2>6, MoveReports DEF GiveUp, Places
  <2>7. CASE BackOff(t)
    BY <1>1, <2>7, MoveReports DEF BackOff, Places
  <2>8. CASE DelayEnds(t)
    BY <1>1, <2>8, MoveReports DEF DelayEnds, Places
  <2>9. CASE Drained(t)
    BY <1>1, <2>9, MoveReports DEF Drained, Places
  <2>10. CASE DrainFails(t)
    <3>1. pc[t] = "drain" /\ Return(t, -1)
      BY <2>10 DEF DrainFails
    <3>2. done[t] = 0
      BY <1>2, <3>1 DEF Reports, Early, Course
    <3> QED
      BY <1>1, <3>1, <3>2, ReturnReports
  <2> QED
    BY <1>6, <2>1, <2>2, <2>3, <2>4, <2>5, <2>6, <2>7, <2>8, <2>9, <2>10
       DEF Continue, Proceed, TimeIsUp
<1> QED
  BY <1>3, <1>4, <1>5, <1>6 DEF Next, DriverSends, vars

(* What a call has sent is what it counts and returns: the first bytes of  *)
(* its message in order, however often it lost the mutex in between.       *)
THEOREM ReportsAreTrue == Spec => []ReportsWhatItSent
<1>1. Init => Reports
  BY ReportsInit
<1>2. Reports /\ [Next]_vars => Reports'
  BY StepReports
<1>3. Reports => ReportsWhatItSent
  <2> SUFFICES ASSUME Reports, NEW t \in Task
               PROVE  /\ {stream[i].place : i \in PlacesOf(CallOf(t))}
                           = 1 .. Counted(t)
                      /\ \A i, j \in PlacesOf(CallOf(t)) :
                             i < j => stream[i].place < stream[j].place
    BY DEF ReportsWhatItSent, Counted
  <2>1. Sent(stream, CallOf(t), Counted(t))
    BY DEF Reports, Reported
  <2>2. PlacesOf(CallOf(t)) = In(stream, CallOf(t))
    BY DEF PlacesOf, In
  <2> QED
    BY <2>1, <2>2 DEF Sent
<1> QED
  BY <1>1, <1>2, <1>3, PTL DEF Spec

-----------------------------------------------------------------------------
(* The bytes of a call are together: none of another's is between them.    *)
Together(s, call) ==
    \A i, j \in In(s, call), h \in 1 .. Len(s) :
        i < h /\ h < j => s[h].call = call

(* Bytes of another call come after them, ...                              *)
LEMMA OtherApart ==
    ASSUME NEW s, NEW r, NEW other, NEW m \in Nat, NEW n \in Nat,
           Appended(s, r, other, m, n),
           NEW call, call # other, Together(s, call)
    PROVE  Together(r, call)
<1> DEFINE old == Len(s)
<1>1. /\ old \in Nat /\ Len(r) = old + n
      /\ \A i \in 1 .. old : r[i] = s[i]
      /\ \A i \in 1 .. n : r[old + i].call = other
  BY DEF Appended
<1>2. \A i, j \in In(s, call), h \in 1 .. old : i < h /\ h < j => s[h].call = call
  BY DEF Together
<1>3. \A i \in In(r, call) : i \in In(s, call) /\ i \in 1 .. old
  <2> SUFFICES ASSUME NEW i \in In(r, call)
               PROVE  i \in In(s, call) /\ i \in 1 .. old
    OBVIOUS
  <2> HIDE DEF old
  <2>1. i \in 1 .. old + n /\ r[i].call = call
    BY <1>1 DEF In
  <2>2. i \in 1 .. old \/ \E h \in 1 .. n : i = old + h
    BY <1>1, <2>1, OldOrNew
  <2>3. ASSUME NEW h \in 1 .. n, i = old + h PROVE FALSE
    <3>1. r[old + h].call = other
      BY <1>1
    <3> QED
      BY <2>1, <2>3, <3>1
  <2>4. i \in 1 .. old /\ s[i].call = call
    BY <1>1, <2>1, <2>2, <2>3
  <2> QED
    BY <2>4 DEF In, old
<1> HIDE DEF old
<1> SUFFICES ASSUME NEW i \in In(r, call), NEW j \in In(r, call),
                    NEW h \in 1 .. old + n, i < h, h < j
             PROVE  r[h].call = call
  BY <1>1 DEF Together
<1>4. h \in 1 .. old
  BY <1>1, <1>3
<1> QED
  BY <1>1, <1>2, <1>3, <1>4

(* ... and more of its own too, if the last one there is one of its own.   *)
LEMMA OwnTogether ==
    ASSUME NEW s, NEW r, NEW call, NEW m \in Nat, NEW n \in Nat,
           Appended(s, r, call, m, n), Together(s, call),
           In(s, call) # {} => s[Len(s)].call = call
    PROVE  Together(r, call)
<1> DEFINE old == Len(s)
<1>1. /\ old \in Nat /\ Len(r) = old + n
      /\ \A i \in 1 .. old : r[i] = s[i]
      /\ \A i \in 1 .. n : r[old + i].call = call
  BY DEF Appended
<1>2. \A i, j \in In(s, call), h \in 1 .. old : i < h /\ h < j => s[h].call = call
  BY DEF Together
<1>3. \A i \in 1 .. old : r[i].call = call => i \in In(s, call)
  BY <1>1 DEF In
<1>4. In(s, call) # {} => s[old].call = call /\ (old > 0 => old \in In(s, call))
  BY <1>1 DEF In
<1> HIDE DEF old
<1> SUFFICES ASSUME NEW i \in 1 .. old + n, NEW j \in 1 .. old + n,
                    NEW h \in 1 .. old + n, i < h, h < j,
                    r[i].call = call, r[j].call = call
             PROVE  r[h].call = call
  BY <1>1 DEF Together, In
<1>5. CASE \E g \in 1 .. n : h = old + g
  BY <1>1, <1>5
<1>6. CASE h \in 1 .. old
  <2>1. i \in 1 .. old /\ i \in In(s, call)
    BY <1>1, <1>3, <1>6
  <2>2. s[old].call = call /\ old \in In(s, call)
    BY <1>1, <1>4, <1>6, <2>1
  <2>3. CASE j \in 1 .. old
    <3>1. j \in In(s, call)
      BY <1>3, <2>3
    <3>2. s[h].call = call
      BY <1>2, <1>6, <2>1, <3>1
    <3> QED
      BY <1>1, <1>6, <3>2
  <2>4. CASE h = old
    BY <1>1, <1>6, <2>2, <2>4
  <2>5. CASE h < old
    <3>1. s[h].call = call
      BY <1>2, <1>6, <2>1, <2>2, <2>5
    <3> QED
      BY <1>1, <1>6, <3>1
  <2> QED
    BY <1>1, <1>6, <2>4, <2>5
<1>7. h \in 1 .. old \/ \E g \in 1 .. n : h = old + g
  BY <1>1, OldOrNew
<1> QED
  BY <1>5, <1>6, <1>7

(* A task that never backs off has the mutex from its message's first byte *)
(* to its last.                                                            *)
Undivided(t) ==
    /\ pc[t] \notin {"delay", "retake"}
    /\ \A k \in Nat : Together(stream, <<t, k>>)
    /\ pc[t] \in {"look", "put", "full"} /\ done[t] > 0 =>
           stream[Len(stream)].call = CallOf(t)

(* Every step keeps it undivided.                                          *)
LEMMA UndividedStep ==
    ASSUME NEW t \in Task, Reports, Undivided(t), [Next]_vars, [~BackOff(t)]_vars
    PROVE  Undivided(t)'
<1>1. Kinds /\ Course /\ Tenure /\ Early /\ Reported
  BY DEF Reports, ApiTxInvariant
<1>2. CASE UNCHANGED vars
  BY <1>2 DEF vars, Undivided, CallOf
<1>3. CASE DriverSends
  BY <1>3 DEF DriverSends, Undivided, CallOf
<1>4. ASSUME NEW s \in Task, s # t, Calls(s) \/ Take(s) \/ Continue(s), ~Put(s)
      PROVE  Undivided(t)'
  <2>1. /\ stream' = stream
        /\ pc'[t] = pc[t] /\ done'[t] = done[t] /\ calls'[t] = calls[t]
    BY <1>1, <1>4
       DEF Kinds, Calls, Continue, Proceed, TimeIsUp, Goto, Return, uart_send, uart_printf,
          uart_send_async, uart_tx_flush, Call, Take, Refused, Give, ReadFree,
          AsyncFails, GiveUp, BackOff, DelayEnds, Drained, DrainFails
  <2> QED
    BY <2>1 DEF Undivided, CallOf
<1>5. ASSUME Calls(t) \/ Take(t) \/ Continue(t), ~Put(t)
      PROVE  Undivided(t)'
  <2>1. ~BackOff(t)
    <3>1. pc \in [Task -> Places] /\ (BackOff(t) => pc'[t] # pc[t])
      BY <1>1 DEF Kinds, BackOff, Goto
    <3> QED
      BY <3>1 DEF vars
  <2>2. stream' = stream
    BY <1>5 DEF Calls, Continue, Proceed, TimeIsUp, Return, uart_send, uart_printf,
          uart_send_async, uart_tx_flush, Call, Take, Refused, Give, ReadFree,
          AsyncFails, GiveUp, BackOff, DelayEnds, Drained, DrainFails
  <2>3. pc'[t] \notin {"delay", "retake"}
    BY <1>1, <1>5, <2>1
       DEF Undivided, Kinds, Calls, Continue, Proceed, TimeIsUp, Goto, Return,
          uart_send, uart_printf, uart_send_async, uart_tx_flush, Call, Take,
          Refused, Give, ReadFree, AsyncFails, GiveUp, BackOff, DelayEnds,
          Drained, DrainFails
  <2>4. pc'[t] \in {"look", "put", "full"} =>
            /\ pc[t] \in {"take", "look"}
            /\ done'[t] = done[t] /\ calls'[t] = calls[t]
    BY <1>1, <1>5, <2>1
       DEF Undivided, Kinds, Calls, Continue, Proceed, TimeIsUp, Goto, Return,
          uart_send, uart_printf, uart_send_async, uart_tx_flush, Call, Take,
          Refused, Give, ReadFree, AsyncFails, GiveUp, BackOff, DelayEnds,
          Drained, DrainFails
  <2>5. pc[t] = "take" => ~(done[t] > 0)
    BY <1>1 DEF Early
  <2> QED
    BY <2>2, <2>3, <2>4, <2>5 DEF Undivided, CallOf
<1>6. ASSUME NEW s \in Task, Put(s) PROVE Undivided(t)'
  <2>1. PICK n \in Nat :
            /\ Appended(stream, stream', <<s, calls[s]>>, done[s], n)
            /\ done' = [done EXCEPT ![s] = done[s] + n]
    BY <1>1, <1>6, PutAppends
  <2>2. /\ pc[s] = "put" /\ calls' = calls
        /\ \E place \in {"look", "give"} : pc' = [pc EXCEPT ![s] = place]
    BY <1>6 DEF Put, Goto
  <2>3. done[s] \in Nat /\ calls[s] \in Nat /\ calls[t] \in Nat
    BY <1>1 DEF Kinds
  <2>4. pc'[t] \notin {"delay", "retake"}
    BY <1>1, <2>2 DEF Kinds, Undivided
  <2>5. CASE s # t
    <3>1. pc'[t] = pc[t] /\ pc[t] \notin Holding
      BY <1>1, <2>2, <2>5 DEF Kinds, Tenure, Holding
    <3>2. \A k \in Nat : Together(stream', <<t, k>>)
      <4> SUFFICES ASSUME NEW k \in Nat PROVE Together(stream', <<t, k>>)
        OBVIOUS
      <4>1. <<t, k>> # <<s, calls[s]>>
        BY <2>5
      <4>2. Together(stream, <<t, k>>)
        BY DEF Undivided
      <4> QED
        BY <2>1, <2>3, <4>1, <4>2, OtherApart
    <3> QED
      BY <2>4, <3>1, <3>2 DEF Undivided, Holding
  <2>6. CASE s = t
    <3>1. Sent(stream, <<t, calls[t]>>, done[t])
      BY <1>1, <2>2, <2>6 DEF Reported, CallOf, Counted
    <3>2. In(stream, <<t, calls[t]>>) # {} => done[t] > 0
      <4>1. ASSUME NEW i \in In(stream, <<t, calls[t]>>) PROVE done[t] > 0
        <5>1. stream[i].place \in 1 .. done[t]
          BY <3>1 DEF Sent
        <5> QED
          BY <2>3, <2>6, <5>1
      <4> QED
        BY <4>1
    <3>3. done[t] > 0 => stream[Len(stream)].call = <<t, calls[t]>>
      BY <2>2, <2>6 DEF Undivided, CallOf
    <3>4. \A k \in Nat : Together(stream', <<t, k>>)
      <4> SUFFICES ASSUME NEW k \in Nat PROVE Together(stream', <<t, k>>)
        OBVIOUS
      <4>1. Together(stream, <<t, k>>)
        BY DEF Undivided
      <4>2. CASE k = calls[t]
        <5>1. In(stream, <<t, k>>) # {} => stream[Len(stream)].call = <<t, k>>
          BY <3>2, <3>3, <4>2
        <5>2. Appended(stream, stream', <<t, k>>, done[t], n)
          BY <2>1, <2>6, <4>2
        <5>3. done[t] \in Nat
          BY <2>3, <2>6
        <5> QED
          BY <4>1, <5>1, <5>2, <5>3, OwnTogether
      <4>3. CASE k # calls[t]
        <5>1. <<t, k>> # <<s, calls[s]>>
          BY <2>6, <4>3
        <5> QED
          BY <2>1, <2>3, <4>1, <5>1, OtherApart
      <4> QED
        BY <4>2, <4>3
    <3>5. done'[t] > 0 => stream'[Len(stream')].call = <<t, calls[t]>>
      <4>1. /\ Len(stream) \in Nat /\ Len(stream') = Len(stream) + n
            /\ \A i \in 1 .. Len(stream) : stream'[i] = stream[i]
            /\ \A i \in 1 .. n : stream'[Len(stream) + i].call = <<t, calls[t]>>
        BY <2>1, <2>6 DEF Appended
      <4>2. CASE n > 0
        <5>1. n \in 1 .. n
          BY <4>2
        <5> QED
          BY <4>1, <5>1
      <4>3. CASE n = 0 /\ done[t] > 0
        <5>1. PICK i \in In(stream, <<t, calls[t]>>) : TRUE
          <6>1. 1 \in 1 .. done[t]
            BY <2>3, <2>6, <4>3
          <6> QED
            BY <3>1, <6>1 DEF Sent
        <5>2. i \in 1 .. Len(stream)
          BY <5>1 DEF In
        <5>3. Len(stream) \in 1 .. Len(stream) /\ Len(stream') = Len(stream)
          BY <4>1, <4>3, <5>2
        <5> QED
          BY <3>3, <4>1, <4>3, <5>3
      <4>4. done'[t] = done[t] + n
        BY <1>1, <2>1, <2>6 DEF Kinds
      <4>5. \A d \in Nat : d + n > 0 => n > 0 \/ (n = 0 /\ d > 0)
        BY ONLY n \in Nat
      <4>6. done'[t] > 0 => n > 0 \/ (n = 0 /\ done[t] > 0)
        BY <2>3, <2>6, <4>4, <4>5, Zenon
      <4> QED
        BY <4>2, <4>3, <4>6
    <3> QED
      BY <2>2, <2>4, <3>4, <3>5 DEF Undivided, CallOf
  <2> QED
    BY <2>5, <2>6
<1> QED
  BY <1>2, <1>3, <1>4, <1>5, <1>6 DEF Next

(* A message is divided only where its own sender backs off: the bytes of  *)
(* a task that never finds the ring full stay together, whatever the other *)
(* tasks do and however long their messages are.                           *)
THEOREM UndividedUnlessBackOff ==
    ASSUME NEW t \in Task
    PROVE  Spec /\ [][~BackOff(t)]_vars => []Undivided(t)
<1>1. Init => Reports /\ Undivided(t)
  <2> SUFFICES ASSUME Init PROVE Undivided(t)
    BY ReportsInit
  <2>1. 1 .. Len(stream) = {} /\ pc[t] = "out"
    BY DEF Init
  <2> QED
    BY <2>1 DEF Undivided, Together
<1>2. Reports /\ Undivided(t) /\ [Next]_vars /\ [~BackOff(t)]_vars
          => (Reports /\ Undivided(t))'
  BY StepReports, UndividedStep
<1> QED
  BY <1>1, <1>2, PTL DEF Spec

(* What lies from one place to another.                                    *)
LEMMA Between ==
    ASSUME NEW n \in Nat, NEW i \in 1 .. n, NEW k \in 1 .. n, NEW j \in i .. k
    PROVE  j \in 1 .. n /\ (j = i \/ j = k \/ (i < j /\ j < k))
  OBVIOUS

(* So the mutex does keep messages apart as long as nobody backs off, that *)
(* is, as long as every message finds room.                                *)
THEOREM UnmixedUnlessFull ==
    Spec /\ [][\A t \in Task : ~BackOff(t)]_vars => []Unmixed
<1> DEFINE Whole == \A t \in Task : Undivided(t)
<1>1. Init => Reports /\ Whole
  <2> SUFFICES ASSUME Init, NEW t \in Task PROVE Undivided(t)
    BY ReportsInit
  <2>1. 1 .. Len(stream) = {} /\ pc[t] = "out"
    BY DEF Init
  <2> QED
    BY <2>1 DEF Undivided, Together
<1>2. Reports /\ Whole /\ [Next]_vars /\ [\A t \in Task : ~BackOff(t)]_vars
          => (Reports /\ Whole)'
  <2> SUFFICES ASSUME Reports, Whole, [Next]_vars,
                      [\A t \in Task : ~BackOff(t)]_vars
               PROVE  Reports' /\ Whole'
    OBVIOUS
  <2>1. ASSUME NEW t \in Task PROVE Undivided(t)'
    <3>1. Undivided(t) /\ [~BackOff(t)]_vars
      OBVIOUS
    <3> QED
      BY <3>1, UndividedStep
  <2> QED
    BY <2>1, StepReports
<1>3. Reports /\ Whole => Unmixed
  <2> SUFFICES ASSUME Reports, Whole, NEW i \in 1 .. Len(stream),
                      NEW k \in 1 .. Len(stream), NEW j \in i .. k,
                      i < k, stream[i].call = stream[k].call
               PROVE  stream[j].call = stream[i].call
    BY DEF Unmixed
  <2>1. stream \in Seq(Byte) /\ Len(stream) \in Nat
    BY DEF Reports, ApiTxInvariant, Kinds
  <2>2. stream[i] \in Byte
    BY <2>1
  <2>3. PICK t \in Task, c \in Nat : stream[i].call = <<t, c>>
    BY <2>2 DEF Byte
  <2>4. i \in In(stream, <<t, c>>) /\ k \in In(stream, <<t, c>>)
    BY <2>3 DEF In
  <2>5. Together(stream, <<t, c>>)
    BY DEF Undivided
  <2>6. j \in 1 .. Len(stream) /\ (j = i \/ j = k \/ (i < j /\ j < k))
    BY <2>1, Between
  <2>7. i < j /\ j < k => stream[j].call = <<t, c>>
    BY <2>4, <2>5, <2>6 DEF Together
  <2> QED
    BY <2>3, <2>6, <2>7
<1> QED
  BY <1>1, <1>2, <1>3, PTL DEF Spec
=============================================================================
