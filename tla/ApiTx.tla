------------------------------- MODULE ApiTx --------------------------------
(***************************************************************************)
(* The sending half of src/Framework/uart_api.c for one port: tasks that   *)
(* call uart_send, uart_printf, uart_send_async and uart_tx_flush and take *)
(* turns by the port's tx_mutex.                                           *)
(*                                                                         *)
(* The driver below is the ByteStream that TxPath implements when one task *)
(* at a time calls it; that the API lets only one in is a property here.   *)
(* A byte is named by the call it belongs to and its place in the message, *)
(* and has left the driver when its slot is free again: the code frees     *)
(* slots a transfer at a time, here one after the other.                   *)
(*                                                                         *)
(* Ticks are not counted.  A timeout may be found to have passed whenever  *)
(* the code looks.  One of portMAX_DELAY (forever) never is where uart_send*)
(* and uart_dma_tx_flush look themselves; but the kernel, for want of      *)
(* INCLUDE_vTaskSuspend, counts that many ticks when it waits for the      *)
(* mutex, and may refuse it in the end.                                    *)
(***************************************************************************)
EXTENDS Integers, Sequences, Functions

CONSTANTS Task,        \* the tasks that use the port
          Nobody,      \* the holder of a mutex that is free
          Capacity,    \* size of the driver's transmit ring
          PrintfBuf,   \* UART_PRINTF_BUF
          Lengths,     \* bound: the lengths of messages
          MaxCalls     \* bound: calls made in a behaviour

ASSUME ApiTxAssumption == /\ Nobody \notin Task
                          /\ Capacity \in Nat \ {0}
                          /\ PrintfBuf \in Nat \ {0, 1}
                          /\ Lengths \subseteq Nat \ {0}
                          /\ MaxCalls \in Nat

VARIABLES owner,     \* holder of c->tx_mutex
          stream,    \* the bytes the driver has accepted
          left,      \* how many of them have left it (their slots are free)
          pc, job,   \* where each task is, and the call it makes
          free,      \* f, the free space it read
          done,      \* sent, the bytes of its message the driver has taken
          calls,     \* history: how many calls it has begun, ...
          result     \* ... and what the last one returned, -1 for false

vars == <<owner, stream, left, pc, job, free, done, calls, result>>

Driver == INSTANCE ByteStream WITH accepted <- Len(stream),
                                   sent <- [i \in 1 .. left |-> i],
                                   MaxBytes <- Capacity, Foreign <- {}

Room == Capacity - (Len(stream) - left)     \* uart_dma_tx_free

Least(m, n) == IF m < n THEN m ELSE n

(* A call, and the bytes of its message.                                   *)
Jobs == [op : {"send"}, len : Lengths, forever : BOOLEAN]
        \cup [op : {"async"}, len : Lengths, forever : {FALSE}]
        \cup [op : {"flush"}, len : {0}, forever : BOOLEAN]

NoJob == [op |-> "none", len |-> 0, forever |-> FALSE]

CallsMade == FoldFunction(+, 0, calls)

CallOf(t) == <<t, calls[t]>>

Bytes(call, first, last) ==
    [i \in 1 .. (last - first + 1) |-> [call |-> call, place |-> first + i - 1]]

Init == /\ owner = Nobody
        /\ stream = <<>> /\ left = 0
        /\ pc = [t \in Task |-> "out"]
        /\ job = [t \in Task |-> NoJob]
        /\ free = [t \in Task |-> 0]
        /\ done = [t \in Task |-> 0]
        /\ calls = [t \in Task |-> 0]
        /\ result = [t \in Task |-> 0]

Goto(t, place) == pc' = [pc EXCEPT ![t] = place]

(* A call ends, and its locals with it.                                    *)
Return(t, value) ==
    /\ Goto(t, "out")
    /\ result' = [result EXCEPT ![t] = value]
    /\ job' = [job EXCEPT ![t] = NoJob]
    /\ free' = [free EXCEPT ![t] = 0]
    /\ done' = [done EXCEPT ![t] = 0]
    /\ UNCHANGED <<stream, left, calls>>

-----------------------------------------------------------------------------
(* The calls.  uart_printf sends what fits of its buffer, forever.         *)
Call(t, j) ==
    /\ pc[t] = "out"
    /\ CallsMade < MaxCalls
    /\ calls' = [calls EXCEPT ![t] = @ + 1]
    /\ result' = [result EXCEPT ![t] = 0]
    /\ job' = [job EXCEPT ![t] = j]
    /\ Goto(t, "take")
    /\ UNCHANGED <<owner, stream, left, free, done>>

uart_send(t) == \E j \in Jobs : j.op = "send" /\ Call(t, j)

uart_send_async(t) == \E j \in Jobs : j.op = "async" /\ Call(t, j)

uart_tx_flush(t) == \E j \in Jobs : j.op = "flush" /\ Call(t, j)

uart_printf(t) ==
    \E n \in Lengths :
        Call(t, [op |-> "send", len |-> Least(n, PrintfBuf - 1), forever |-> TRUE])

-----------------------------------------------------------------------------
(* xSemaphoreTake and xSemaphoreGive of tx_mutex.                          *)
Take(t) ==
    /\ pc[t] \in {"take", "retake"}
    /\ owner = Nobody
    /\ owner' = t
    /\ Goto(t, IF job[t].op = "flush" THEN "drain" ELSE "look")
    /\ UNCHANGED <<stream, left, job, free, done, calls, result>>

Refused_Lost(t) ==           \* mutant: what was sent before is not reported
    /\ pc[t] \in {"take", "retake"}
    /\ owner # Nobody
    /\ Return(t, -1)
    /\ UNCHANGED owner

Refused_GoesOn(t) ==         \* mutant: the result of the take is not looked at
    /\ pc[t] \in {"take", "retake"}
    /\ owner # Nobody
    /\ Goto(t, IF job[t].op = "flush" THEN "drain" ELSE "look")
    /\ UNCHANGED <<owner, stream, left, job, free, done, calls, result>>

Refused(t) ==
    /\ pc[t] \in {"take", "retake"}
    /\ owner # Nobody
    /\ Return(t, IF pc[t] = "retake" THEN done[t] ELSE -1)
    /\ UNCHANGED owner

Give(t) ==
    /\ pc[t] = "give"
    /\ owner' = Nobody
    /\ Return(t, done[t])

(* The loop of uart_send and the body of uart_send_async: how much room    *)
(* is there, ...                                                           *)
ReadFree(t) ==
    /\ pc[t] = "look"
    /\ free' = [free EXCEPT ![t] = Room]
    /\ Goto(t, IF Room = 0 THEN "full" ELSE "put")
    /\ UNCHANGED <<owner, stream, left, job, done, calls, result>>

(* ... send that many bytes of the rest (uart_dma_send), ...               *)
Put_Unbounded(t) ==          \* mutant: fills the room, whatever is left to send
    LET n == Least(free[t], Room)
    IN  /\ pc[t] = "put"
        /\ stream' = stream \o Bytes(CallOf(t), done[t] + 1, done[t] + n)
        /\ UNCHANGED left
        /\ Driver!Accept(n)
        /\ done' = [done EXCEPT ![t] = @ + n]
        /\ Goto(t, IF job[t].op = "send" /\ done'[t] < job[t].len
                   THEN "look" ELSE "give")
        /\ UNCHANGED <<owner, job, free, calls, result>>

Put(t) ==
    LET chunk == Least(job[t].len - done[t], free[t])
        n     == Least(chunk, Room)
    IN  /\ pc[t] = "put"
        /\ stream' = stream \o Bytes(CallOf(t), done[t] + 1, done[t] + n)
        /\ UNCHANGED left
        /\ Driver!Accept(n)
        /\ done' = [done EXCEPT ![t] = @ + n]
        /\ Goto(t, IF job[t].op = "send" /\ done'[t] < job[t].len
                   THEN "look" ELSE "give")
        /\ UNCHANGED <<owner, job, free, calls, result>>

(* ... and when there is none, an asynchronous send fails, ...             *)
AsyncFails_Keeps(t) ==       \* mutant: the early return keeps the mutex
    /\ pc[t] = "full" /\ job[t].op = "async"
    /\ Return(t, -1)
    /\ UNCHANGED owner

AsyncFails(t) ==
    /\ pc[t] = "full" /\ job[t].op = "async"
    /\ owner' = Nobody
    /\ Return(t, -1)

(* ... a blocking one gives up if its time has passed, ...                 *)
GiveUp_Always(t) ==          \* mutant: portMAX_DELAY is a time like another
    /\ pc[t] = "full" /\ job[t].op = "send"
    /\ Goto(t, "give")
    /\ UNCHANGED <<owner, stream, left, job, free, done, calls, result>>

GiveUp(t) ==
    /\ pc[t] = "full" /\ job[t].op = "send"
    /\ ~job[t].forever
    /\ Goto(t, "give")
    /\ UNCHANGED <<owner, stream, left, job, free, done, calls, result>>

(* ... and otherwise lets others have the mutex for a tick.                *)
BackOff_Keeps(t) ==          \* mutant: waits with the mutex, then takes it again
    /\ pc[t] = "full" /\ job[t].op = "send"
    /\ Goto(t, "delay")
    /\ UNCHANGED <<owner, stream, left, job, free, done, calls, result>>

BackOff(t) ==
    /\ pc[t] = "full" /\ job[t].op = "send"
    /\ owner' = Nobody
    /\ Goto(t, "delay")
    /\ UNCHANGED <<stream, left, job, free, done, calls, result>>

DelayEnds_NoRetake(t) ==     \* mutant: goes on without the mutex
    /\ pc[t] = "delay"
    /\ Goto(t, "look")
    /\ UNCHANGED <<owner, stream, left, job, free, done, calls, result>>

DelayEnds(t) ==
    /\ pc[t] = "delay"
    /\ Goto(t, "retake")
    /\ UNCHANGED <<owner, stream, left, job, free, done, calls, result>>

(* uart_dma_tx_flush, inside the mutex: it is true when nothing is left,   *)
(* false when its time has passed.                                         *)
Drained(t) ==
    /\ pc[t] = "drain"
    /\ left = Len(stream)
    /\ Goto(t, "give")
    /\ UNCHANGED <<owner, stream, left, job, free, done, calls, result>>

DrainFails(t) ==
    /\ pc[t] = "drain"
    /\ ~job[t].forever
    /\ owner' = Nobody
    /\ Return(t, -1)

(* The driver sends a byte.                                                *)
DriverSends ==
    /\ left < Len(stream)
    /\ left' = left + 1
    /\ UNCHANGED stream
    /\ Driver!Send
    /\ UNCHANGED <<owner, pc, job, free, done, calls, result>>

-----------------------------------------------------------------------------
Calls(t) == \/ uart_send(t) \/ uart_printf(t)
            \/ uart_send_async(t) \/ uart_tx_flush(t)

Proceed(t) == \/ Give(t) \/ ReadFree(t) \/ Put(t) \/ AsyncFails(t)
              \/ BackOff(t) \/ DelayEnds(t) \/ Drained(t)

TimeIsUp(t) == Refused(t) \/ GiveUp(t) \/ DrainFails(t)

Continue(t) == Proceed(t) \/ TimeIsUp(t)

Next == DriverSends \/ \E t \in Task : Calls(t) \/ Take(t) \/ Continue(t)

Spec == Init /\ [][Next]_vars

(* The driver keeps sending, a task inside a call runs on, and among tasks *)
(* of one priority a mutex given back again and again comes to each of     *)
(* those that wait.  No timeout has to strike.                             *)
FairSpec == /\ Spec
            /\ WF_vars(DriverSends)
            /\ \A t \in Task : WF_vars(Proceed(t)) /\ SF_vars(Take(t))

-----------------------------------------------------------------------------
Places == {"out", "take", "look", "put", "full", "delay", "retake", "drain",
           "give"}

Holding == {"look", "put", "full", "drain", "give"}

InDriver == {"look", "put", "drain"}

(* TypeOK: a call never counts more bytes as sent than its message has.    *)
TypeOK == /\ owner \in Task \cup {Nobody}
          /\ left \in 0 .. Len(stream)
          /\ pc \in [Task -> Places]
          /\ \A t \in Task : job[t] \in [op : {"none", "send", "async", "flush"},
                                      len : Nat, forever : BOOLEAN]
          /\ free \in [Task -> 0 .. Capacity]
          /\ \A t \in Task : done[t] \in 0 .. job[t].len
          /\ calls \in [Task -> Nat]
          /\ result \in [Task -> Int]

(* OneTaskInDriver: never two tasks at once in the driver's transmit       *)
(* functions, which its lock-free ring and TxPath's proofs take for        *)
(* granted, although uart_send lets the mutex go in mid-message and every  *)
(* take may fail.                                                          *)
OneTaskInDriver ==
    \A s, t \in Task : pc[s] \in InDriver /\ pc[t] \in InDriver => s = t

(* Where in the stream the bytes of a call's message are.                  *)
PlacesOf(call) == {i \in 1 .. Len(stream) : stream[i].call = call}

(* ReportsWhatItSent: what the driver has taken of a message is its first  *)
(* bytes, in order, none twice, as many as the call has counted, however   *)
(* often the ring was full and the mutex lost; and it returns that number, *)
(* also when it ends early.                                                *)
ReportsWhatItSent ==
    \A t \in Task :
        LET counted == IF pc[t] # "out" THEN done[t]
                       ELSE IF result[t] < 0 THEN 0 ELSE result[t]
        IN  /\ {stream[i].place : i \in PlacesOf(CallOf(t))} = 1 .. counted
            /\ \A i, j \in PlacesOf(CallOf(t)) :
                   i < j => stream[i].place < stream[j].place

(* ForeverShortIfRefused: a send that waits for portMAX_DELAY, as          *)
(* uart_printf's, comes back with part of its message unsent only from a   *)
(* take of the mutex that the kernel refused while another task had it,    *)
(* never for want of room, however long the ring stays full.               *)
ForeverShortIfRefused ==
    [][\A t \in Task :
          job[t].op = "send" /\ job[t].forever /\ pc'[t] = "out"
              => \/ result'[t] = job[t].len
                 \/ pc[t] \in {"take", "retake"} /\ owner \notin {t, Nobody}]_vars

(* FlushLeavesNothing: when uart_tx_flush is about to report success the   *)
(* driver is empty: nobody has put bytes since it looked.                  *)
FlushLeavesNothing ==
    \A t \in Task :
        pc[t] = "give" /\ job[t].op = "flush" => left = Len(stream)

(* MutexComesBack: whoever has the mutex gives it back, on every way out.  *)
MutexComesBack == \A t \in Task : owner = t ~> owner # t

(* CallsEnd: every call ends, those that wait forever too, whatever the    *)
(* other tasks do meanwhile, and without a timeout's having to strike.     *)
CallsEnd == \A t \in Task : pc[t] # "out" ~> pc[t] = "out"

(* Unmixed: the bytes of two messages are never mixed: between two bytes   *)
(* of a call there is none of another's.                                   *)
Unmixed ==
    \A i, k \in 1 .. Len(stream) :
        i < k /\ stream[i].call = stream[k].call
            => \A j \in i .. k : stream[j].call = stream[i].call
=============================================================================
