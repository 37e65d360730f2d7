--------------------------- MODULE TxPathInvariant ---------------------------
(***************************************************************************)
(* The inductive invariant of TxPath: what holds between any two accesses  *)
(* of the task, the handler and the DMA channel, and from which the safety *)
(* properties of TxPath follow.  TLC checks it here on the instance of     *)
(* TxPath.cfg; TxPathProofs proves it for every instance.                  *)
(***************************************************************************)
EXTENDS TxPath

Held     == rb_available(head, tail)
Released == put - Held                  \* bytes whose slots were given back
Progress == Len(wire) - Released        \* bytes sent of what is not released
Goal     == rb_available(kick_head, tail)

(* The ring never holds more than its slots, nor more than was ever put.   *)
RingPart == Held <= Capacity /\ Held <= put

(* What rb_put decided to copy still fits: the handler only makes room.    *)
CopyPart ==
    /\ pc \in {"copy", "publish"} => /\ 0 < n
                                     /\ n + Held <= Capacity
                                     /\ n + put <= MaxBytes
    /\ pc = "copy" => copied < n
    /\ pc = "publish" => copied = n

(* While the handle is idle the channel is at rest.                        *)
RestPart ==
    idle => /\ ~tcif /\ cndtr = 0 /\ ~tx_busy
            /\ Len(wire) = Released
            /\ ~Sending => head = tail

(* The transfer in the channel's registers is the one tx_kick decided on.  *)
Transfer ==
    /\ Progress >= 0
    /\ addr = Slot(tail) + Progress
    /\ 0 < Goal /\ Goal <= Held
    /\ IF chain_pending
       THEN /\ 0 < kick_head /\ kick_head < tail
            /\ cndtr + Progress = Word - tail
       ELSE cndtr + Progress = Goal

(* The task in tx_kick has the channel for itself, from its test of idle   *)
(* until it sets CCR.EN.                                                   *)
KickPart ==
    /\ pc \in {"test_empty", "kick", "mark", "flushed"} => idle
    /\ pc \in {"program", "unmask", "enable"} =>
           ~idle /\ ~tcif /\ Len(wire) = Released
    /\ pc \in {"mark", "program"} => /\ head # tail
                                     /\ kick_head = head
                                     /\ segment = Segment(head, tail)
    /\ pc = "program" => cndtr = 0
    /\ pc \in {"unmask", "enable"} => ~en /\ cndtr > 0 /\ Transfer
    /\ pc = "enable" => irq_on

(* Otherwise a handle that is not idle has a transfer under way, or the    *)
(* interrupt at its end pending.                                           *)
FlightPart ==
    (~idle /\ pc \notin {"program", "unmask", "enable"}) =>
        /\ en /\ irq_on
        /\ tcif <=> cndtr = 0
        /\ Transfer

(* A task that found the ring empty in a flush leaves it empty.            *)
FlushPart == pc \in {"flush_idle", "flushed"} => head = tail

(* The slots from the tail on hold the next bytes of the stream, those     *)
(* that rb_put has copied but not published included.                      *)
Copied == IF pc \in {"copy", "publish"} THEN copied ELSE 0

ContentPart ==
    \A k \in 0 .. Held + Copied - 1 : buffer[Slot(tail + k)] = Released + k + 1

WirePart == \A i \in 1 .. Len(wire) : wire[i] \in {i, Beyond}

(* TxInvariant: the conjunction, which every step of the task, the handler *)
(* and the channel preserves.                                              *)
TxInvariant ==
    /\ TypeOK
    /\ RingPart /\ CopyPart /\ RestPart /\ KickPart /\ FlightPart /\ FlushPart
    /\ ContentPart /\ WirePart
=============================================================================
