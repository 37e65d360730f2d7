----------------------------- MODULE ByteStream -----------------------------
(***************************************************************************)
(* What either direction of one port promises: bytes that come in leave    *)
(* one by one, each at its own place in the stream, never twice, never in  *)
(* another order, and never more than Capacity of them are inside.         *)
(*                                                                         *)
(* A byte is named by its place in the stream.  Foreign is what may leave  *)
(* in the place of a byte: nothing, for a path that keeps the contents.    *)
(***************************************************************************)
EXTENDS Integers, Sequences

CONSTANTS Capacity, MaxBytes, Foreign

VARIABLES accepted,   \* number of bytes that have come in
          sent        \* what has left so far

vars == <<accepted, sent>>

Init == accepted = 0 /\ sent = <<>>

Accept(n) == /\ accepted + n - Len(sent) <= Capacity
             /\ accepted' = accepted + n
             /\ UNCHANGED sent

Send == /\ Len(sent) < accepted
        /\ \E byte \in {Len(sent) + 1} \cup Foreign : sent' = Append(sent, byte)
        /\ UNCHANGED accepted

Next == \/ \E n \in 1 .. MaxBytes : Accept(n)
        \/ Send

Spec == Init /\ [][Next]_vars

Sends == WF_vars(Send)

FairSpec == Spec /\ Sends
=============================================================================
