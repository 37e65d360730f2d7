----------------------------- MODULE RingBuffer -----------------------------
(***************************************************************************)
(* src/Framework/ringbuffer.c as a sequential object: every operation of   *)
(* its header is an action on (head, tail, buffer).  Which operation runs  *)
(* concurrently with which is the business of the drivers that own a ring  *)
(* (TxPath); here a caller runs one operation at a time.                   *)
(*                                                                         *)
(* rb_init leaves the struct as it found it when the capacity is not a     *)
(* power of two; the model is of a ring that rb_init accepted.             *)
(***************************************************************************)
EXTENDS Ring

CONSTANTS Byte,     \* values of a byte
          MaxLen,   \* longest length argument enumerated
          Garbage   \* content of a heap block that was never written

ASSUME RingBufferAssumption == /\ MaxLen \in Nat \ {0}
                               /\ Garbage \notin Byte

VARIABLES head, tail, buffer,
          given,   \* bytes the last operation was handed by its caller
          got      \* bytes the last operation copied to its caller

vars == <<head, tail, buffer, given, got>>

Batches == UNION {[1 .. n -> Byte] : n \in 1 .. MaxLen}

rb_init == /\ head = 0 /\ tail = 0
           /\ buffer = [s \in Slots |-> Garbage]
           /\ given = <<>> /\ got = <<>>

rb_put(data) ==
    LET n == Least(Len(data), rb_free_space(head, tail))
    IN  /\ buffer' = Stored(buffer, head, SubSeq(data, 1, n))
        /\ head' = Plus(head, n)
        /\ given' = data /\ got' = <<>>
        /\ UNCHANGED tail

rb_get(len) ==
    LET n == Least(len, rb_available(head, tail))
    IN  /\ got' = Loaded(buffer, tail, n)
        /\ tail' = Plus(tail, n)
        /\ given' = <<>>
        /\ UNCHANGED <<head, buffer>>

rb_peek(len) ==
    /\ got' = Loaded(buffer, tail, Least(len, rb_available(head, tail)))
    /\ given' = <<>>
    /\ UNCHANGED <<head, tail, buffer>>

rb_discard(len) ==
    /\ tail' = Plus(tail, Least(len, rb_available(head, tail)))
    /\ given' = <<>> /\ got' = <<>>
    /\ UNCHANGED <<head, buffer>>

rb_advance_tail(len) ==
    /\ len > 0
    /\ tail' = Plus(tail, Least(len, rb_available(head, tail)))
    /\ given' = <<>> /\ got' = <<>>
    /\ UNCHANGED <<head, buffer>>

(***************************************************************************)
(* The buffer was filled from the head's slot on by someone else, the      *)
(* receive DMA, before rb_advance_head is told how many bytes there are.   *)
(* rx_update never reports more than a buffer.                             *)
(***************************************************************************)
rb_advance_head(data) ==
    /\ Len(data) \in 1 .. Capacity
    /\ buffer' = Stored(buffer, head, data)
    /\ tail' = TailMakingRoom(head, tail, Len(data))
    /\ head' = Plus(head, Len(data))
    /\ given' = data /\ got' = <<>>

rb_flush == /\ head' = 0 /\ tail' = 0
            /\ given' = <<>> /\ got' = <<>>
            /\ UNCHANGED buffer

Next == \/ \E data \in Batches : rb_put(data) \/ rb_advance_head(data)
        \/ \E len \in 1 .. MaxLen : \/ rb_get(len) \/ rb_peek(len)
                                    \/ rb_discard(len) \/ rb_advance_tail(len)
        \/ rb_flush

Spec == rb_init /\ [][Next]_vars

-----------------------------------------------------------------------------
(* TypeOK: the counters stay uint32_t values, and no operation hands its   *)
(* caller a slot that was never written.                                   *)
TypeOK == /\ head \in Counter
          /\ tail \in Counter
          /\ buffer \in [Slots -> Byte \cup {Garbage}]
          /\ given \in Seq(Byte)
          /\ got \in Seq(Byte)

(* Bounded: the ring never claims more bytes than it has slots, also after *)
(* an overrun by rb_advance_head and across a wrap of the counters; past   *)
(* this point rb_free_space would underflow to almost 2^32.                *)
Bounded == rb_available(head, tail) <= Capacity

(* ContigInside: the runs rb_contig_read_len and rb_contig_write_len offer *)
(* to a DMA stay inside the buffer, and are cut short only by its end.     *)
ContigInside ==
    LET readable == rb_contig_read_len(head, tail)
        writable == rb_contig_write_len(head, tail)
    IN  /\ Slot(tail) + readable <= Capacity
        /\ Slot(head) + writable <= Capacity
        /\ \/ readable = rb_available(head, tail)
           \/ Slot(tail) + readable = Capacity
        /\ \/ writable = rb_free_space(head, tail)
           \/ Slot(head) + writable = Capacity

(* The ring is the queue of the bytes between tail and head, oldest first. *)
Queue == INSTANCE ByteQueue
             WITH queue <- Loaded(buffer, tail, rb_available(head, tail))

(* ImplementsQueue: every ringbuffer.c operation does to the bytes held    *)
(* what the queue promises: first in first out, short puts and gets, the   *)
(* newest Capacity bytes after an overrun, whatever the two counters and   *)
(* their wraps are.                                                        *)
ImplementsQueue == Queue!Spec
=============================================================================
