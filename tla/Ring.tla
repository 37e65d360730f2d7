-------------------------------- MODULE Ring --------------------------------
(***************************************************************************)
(* The index arithmetic of src/Framework/ringbuffer.c.                     *)
(*                                                                         *)
(* A ring is a buffer of Capacity slots and two free-running unsigned      *)
(* counters, head (bytes ever written) and tail (bytes ever released),     *)
(* which wrap at Word (2^32 in the program).  A counter is reduced to a    *)
(* slot only when the buffer is touched.  rb_init refuses a capacity that  *)
(* is not a power of two; all that the arithmetic needs of this is that    *)
(* Capacity divides Word, so that "counter & mask" is "counter % Capacity" *)
(* across a wrap of the counter, and that Capacity is below Word, so that  *)
(* a full ring is told from an empty one.                                  *)
(***************************************************************************)
EXTENDS Integers, Sequences

CONSTANTS Word,      \* number of values of a uint32_t
          Capacity   \* rb->capacity, slots of the buffer

ASSUME RingAssumption == /\ Word \in Nat
                         /\ Capacity \in Nat \ {0}
                         /\ Capacity < Word
                         /\ Word % Capacity = 0

Counter == 0 .. (Word - 1)
Slots   == 0 .. (Capacity - 1)

Least(m, n) == IF m < n THEN m ELSE n

Plus_NoWrap(counter, n) == counter + n       \* mutant: no uint32_t wrap
Plus(counter, n) == (counter + n) % Word      \* counter += n, as uint32_t
Slot(counter)    == counter % Capacity        \* counter & rb->mask

rb_available(head, tail)  == (head - tail) % Word

rb_free_space_Masked(head, tail) ==           \* mutant: a full ring looks empty
    Capacity - Slot(rb_available(head, tail))
rb_free_space(head, tail) == (Capacity - rb_available(head, tail)) % Word

rb_is_empty(head, tail)   == head = tail
rb_is_full(head, tail)    == rb_available(head, tail) >= Capacity

rb_contig_read_len_Whole(head, tail) ==       \* mutant: forgets the buffer's end
    rb_available(head, tail)
rb_contig_read_len(head, tail) ==
    Least(rb_available(head, tail), Capacity - Slot(tail))

rb_contig_write_len(head, tail) ==
    Least(rb_free_space(head, tail), Capacity - Slot(head))

(***************************************************************************)
(* The tail after rb_advance_head(len): a writer that cannot be held back  *)
(* (the receive DMA) makes room by dropping the oldest bytes.              *)
(***************************************************************************)
TailMakingRoom_Keep(head, tail, len) == tail  \* mutant: overrun not handled
TailMakingRoom(head, tail, len) ==
    IF len > rb_free_space(head, tail)
    THEN Plus(tail, len - rb_free_space(head, tail))
    ELSE tail

(***************************************************************************)
(* The memcpy pairs of rb_put and of rb_get: at most Capacity bytes that   *)
(* start at a counter's slot and go round the end of the buffer.           *)
(***************************************************************************)
Stored_OnePiece(buffer, counter, data) ==     \* mutant: second memcpy forgotten
    [s \in Slots |-> IF s - Slot(counter) \in 0 .. Len(data) - 1
                     THEN data[s - Slot(counter) + 1]
                     ELSE buffer[s]]
Stored(buffer, counter, data) ==
    [s \in Slots |-> LET offset == (s - counter) % Capacity
                     IN  IF offset < Len(data) THEN data[offset + 1]
                                               ELSE buffer[s]]

Loaded(buffer, counter, n) == [i \in 1 .. n |-> buffer[Slot(counter + i - 1)]]
=============================================================================
