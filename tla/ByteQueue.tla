----------------------------- MODULE ByteQueue ------------------------------
(***************************************************************************)
(* What a byte ring promises its users: a first-in first-out queue of at   *)
(* most Capacity bytes.  A put that does not fit is cut short, a get       *)
(* returns the oldest bytes, and an overrun by a writer that cannot wait   *)
(* keeps the newest Capacity bytes.                                        *)
(***************************************************************************)
EXTENDS Integers, Sequences

CONSTANTS Capacity, Byte, MaxLen

VARIABLES queue,   \* the bytes held, oldest first
          given,   \* the bytes the last operation was handed by its caller
          got      \* the bytes the last operation handed to its caller

vars == <<queue, given, got>>

Prefix(s, n) == SubSeq(s, 1, IF n < Len(s) THEN n ELSE Len(s))
Rest(s, n)   == SubSeq(s, n + 1, Len(s))

Batches == UNION {[1 .. n -> Byte] : n \in 1 .. MaxLen}

Init == queue = <<>> /\ given = <<>> /\ got = <<>>

Put(data) == /\ given' = data /\ got' = <<>>
             /\ queue' = queue \o Prefix(data, Capacity - Len(queue))

Get(n) == /\ got' = Prefix(queue, n)
          /\ queue' = Rest(queue, n)
          /\ given' = <<>>

Peek(n) == /\ got' = Prefix(queue, n)
           /\ given' = <<>>
           /\ UNCHANGED queue

Drop(n) == /\ queue' = Rest(queue, n)
           /\ given' = <<>> /\ got' = <<>>

Overrun(data) == /\ given' = data /\ got' = <<>>
                 /\ LET all == queue \o data
                    IN  queue' = IF Len(all) > Capacity
                                 THEN Rest(all, Len(all) - Capacity)
                                 ELSE all

Clear == queue' = <<>> /\ given' = <<>> /\ got' = <<>>

Next == \/ \E data \in Batches : Put(data) \/ Overrun(data)
        \/ \E n \in 1 .. MaxLen : Get(n) \/ Peek(n) \/ Drop(n)
        \/ Clear

Spec == Init /\ [][Next]_vars
=============================================================================
