-------------------------- MODULE RingBufferProofs --------------------------
(***************************************************************************)
(* ringbuffer.c is a bounded queue of bytes, for every buffer size, every  *)
(* counter width and every length of put and get.                          *)
(***************************************************************************)
EXTENDS RingBuffer, RingTheorems, SequenceTheorems

(* The bytes held, oldest first: what Queue's queue stands for.            *)
Held == Loaded(buffer, tail, rb_available(head, tail))

Written(b, t, n) == \A i \in 0 .. (n - 1) : b[Slot(t + i)] \in Byte

(* The n bytes from the counter on are those of the queue.                 *)
Holds(b, t, n, queue) == Written(b, t, n) /\ queue = Loaded(b, t, n)

RingInvariant ==
    TypeOK /\ Bounded /\ Written(buffer, tail, rb_available(head, tail))

Content == Byte \cup {Garbage}

-----------------------------------------------------------------------------
(* The offset by which Stored finds a slot's byte is the byte's place.     *)
LEMMA OffsetOfSlot ==
    ASSUME NEW c \in Nat, NEW k \in 0 .. (Capacity - 1)
    PROVE  (Slot(c + k) - c) % Capacity = k
<1>1. PICK q \in Nat : c + k = Capacity * q + Slot(c + k)
  <2>1. (c + k) \div Capacity \in Nat
        /\ c + k = Capacity * ((c + k) \div Capacity) + ((c + k) % Capacity)
    BY RingAssumption DEF RingAssumption
  <2> QED
    BY <2>1 DEF Slot
<1>2. Slot(c + k) - c = k - Capacity * q
  <2>1. Slot(c + k) \in Int /\ Capacity * q \in Int /\ k \in Int
    BY SlotInBuffer, RingAssumption DEF Slots, RingAssumption
  <2> QED
    BY <1>1, <2>1
<1>3. (k - Capacity * q) % Capacity = k
  BY RingAssumption DEF RingAssumption
<1> QED
  BY <1>2, <1>3

(* What Stored leaves at the k-th slot from the counter on.                *)
LEMMA StoredAt ==
    ASSUME NEW b, NEW c \in Nat, NEW data \in Seq(Byte),
           NEW k \in 0 .. (Capacity - 1)
    PROVE  Stored(b, c, data)[Slot(c + k)] =
               IF k < Len(data) THEN data[k + 1] ELSE b[Slot(c + k)]
<1>1. Slot(c + k) \in Slots
  BY SlotInBuffer
<1>2. (Slot(c + k) - c) % Capacity = k
  BY OffsetOfSlot
<1> QED
  BY <1>1, <1>2 DEF Stored

(* The buffer keeps its type.                                              *)
LEMMA StoredType ==
    ASSUME NEW b \in [Slots -> Content], NEW c \in Nat, NEW data \in Seq(Byte)
    PROVE  Stored(b, c, data) \in [Slots -> Content]
<1> SUFFICES ASSUME NEW s \in Slots
             PROVE  Stored(b, c, data)[s] \in Content
  BY DEF Stored
<1> DEFINE offset == (s - c) % Capacity
<1>1. offset \in Nat
  BY RingAssumption DEF RingAssumption, Slots
<1>2. Stored(b, c, data)[s] = IF offset < Len(data) THEN data[offset + 1] ELSE b[s]
  BY DEF Stored
<1>3. CASE offset < Len(data)
  <2>1. offset + 1 \in 1 .. Len(data)
    BY <1>1, <1>3, LenProperties
  <2> QED
    BY <2>1, <1>2, <1>3, ElementOfSeq DEF Content
<1>4. CASE ~(offset < Len(data))
  BY <1>2, <1>4
<1> QED
  BY <1>3, <1>4

(* A store at the head, seen from the tail: the bytes held stay, but for   *)
(* the oldest of them when there is no room, and the data comes after.     *)
LEMMA HeldAfterStore ==
    ASSUME NEW b, NEW h \in Counter, NEW t \in Counter, NEW data \in Seq(Byte),
           rb_available(h, t) <= Capacity, Len(data) <= Capacity,
           NEW i \in Nat, i < rb_available(h, t) + Len(data),
           rb_available(h, t) + Len(data) <= Capacity + i
    PROVE  Stored(b, h, data)[Slot(t + i)] =
               IF i < rb_available(h, t) THEN b[Slot(t + i)]
                                         ELSE data[i - rb_available(h, t) + 1]
<1> DEFINE held == rb_available(h, t)
<1>1. held \in Nat /\ h = Plus(t, held) /\ held <= Word
  BY AvailableCases, HeadFromTail, RingAssumption DEF RingAssumption
<1>2. t \in Nat /\ h \in Nat /\ Len(data) \in Nat /\ Capacity \in Nat
  BY LenProperties, RingAssumption DEF RingAssumption, Counter
<1> HIDE DEF held
<1>3. CASE i < held
  <2>1. (i + Capacity) - held \in 0 .. (Capacity - 1)
    BY <1>1, <1>2, <1>3 DEF held
  <2>2. Slot(h + ((i + Capacity) - held)) = Slot(t + i)
    <3>1. Slot(Plus(t, held) + ((i + Capacity) - held))
              = Slot(t + held + ((i + Capacity) - held))
      BY <1>1, <2>1, SlotAfterPlus
    <3>2. t + held + ((i + Capacity) - held) = (t + i) + Capacity
      BY <1>1, <1>2
    <3>3. Slot((t + i) + Capacity) = Slot(t + i)
      BY <1>2, SlotIgnoresWrap
    <3> QED
      BY <1>1, <3>1, <3>2, <3>3
  <2>3. ~((i + Capacity) - held < Len(data))
    BY <1>1, <1>2 DEF held
  <2>4. Stored(b, h, data)[Slot(h + ((i + Capacity) - held))]
            = b[Slot(h + ((i + Capacity) - held))]
    BY <1>2, <2>1, <2>3, StoredAt
  <2> QED
    BY <1>3, <2>2, <2>4 DEF held
<1>4. CASE ~(i < held)
  <2>1. i - held \in 0 .. (Capacity - 1) /\ i - held < Len(data)
    BY <1>1, <1>2, <1>4 DEF held
  <2>2. Slot(h + (i - held)) = Slot(t + i)
    <3>1. Slot(Plus(t, held) + (i - held)) = Slot(t + held + (i - held))
      BY <1>1, <2>1, SlotAfterPlus
    <3>2. t + held + (i - held) = t + i
      BY <1>1, <1>2
    <3> QED
      BY <1>1, <3>1, <3>2
  <2>3. Stored(b, h, data)[Slot(h + (i - held))] = data[i - held + 1]
    BY <1>2, <2>1, StoredAt
  <2> QED
    BY <1>4, <2>2, <2>3 DEF held
<1> QED
  BY <1>3, <1>4

(* What is read from a counter on.                                         *)
LEMMA LoadedProperties ==
    ASSUME NEW b, NEW c \in Nat, NEW n \in Nat, NEW S,
           \A i \in 0 .. (n - 1) : b[Slot(c + i)] \in S
    PROVE  /\ Loaded(b, c, n) \in Seq(S)
           /\ Len(Loaded(b, c, n)) = n
           /\ \A i \in 1 .. n : Loaded(b, c, n)[i] = b[Slot(c + i - 1)]
<1>1. \A i \in 1 .. n : b[Slot(c + i - 1)] \in S
  <2> TAKE i \in 1 .. n
  <2>1. i - 1 \in 0 .. (n - 1) /\ c + (i - 1) = c + i - 1
    OBVIOUS
  <2> QED
    BY <2>1
<1>2. Loaded(b, c, n) \in [1 .. n -> S]
  BY <1>1 DEF Loaded
<1>3. Loaded(b, c, n) \in Seq(S)
  BY <1>2, SeqDef
<1>4. DOMAIN Loaded(b, c, n) = 1 .. n
  BY DEF Loaded
<1>5. Len(Loaded(b, c, n)) = n
  BY <1>3, <1>4, LenProperties
<1> QED
  BY <1>3, <1>5 DEF Loaded

(* rb_put and rb_advance_head: data stored at the head, and the oldest d   *)
(* bytes given up, leave what a queue would hold.                          *)
LEMMA StoreHolds ==
    ASSUME NEW b, NEW h \in Counter, NEW t \in Counter, NEW data \in Seq(Byte),
           rb_available(h, t) <= Capacity, Len(data) <= Capacity,
           NEW queue, Holds(b, t, rb_available(h, t), queue),
           NEW d \in Nat, d <= rb_available(h, t),
           rb_available(h, t) + Len(data) <= Capacity + d,
           NEW m, m = rb_available(h, t) + Len(data),
           NEW k \in Nat, d + k = m
    PROVE  Holds(Stored(b, h, data), Plus(t, d), k,
                 SubSeq(queue \o data, d + 1, m))
<1> DEFINE held == rb_available(h, t)
           old  == Loaded(b, t, held)
           new  == Stored(b, h, data)
           all  == old \o data
           c    == Plus(t, d)
<1>1. /\ held \in Nat /\ t \in Nat /\ h \in Nat /\ Len(data) \in Nat
      /\ Capacity \in Nat /\ d <= Word
  BY AvailableCases, LenProperties, RingAssumption DEF RingAssumption, Counter
<1>2. /\ m \in Nat /\ k \in Nat /\ m = held + Len(data) /\ d + k = m
      /\ m <= Capacity + d
  BY <1>1
<1>3. c \in Nat
  BY <1>1, PlusInCounter DEF Counter
<1>4. /\ old \in Seq(Byte) /\ Len(old) = held
      /\ \A i \in 1 .. held : old[i] = b[Slot(t + i - 1)]
  BY <1>1, LoadedProperties DEF Holds, Written
<1>5. /\ all \in Seq(Byte) /\ Len(all) = m
      /\ \A i \in 1 .. m : all[i] = IF i <= held THEN b[Slot(t + i - 1)]
                                                ELSE data[i - held]
  <2> HIDE DEF old
  <2>1. /\ all \in Seq(Byte) /\ Len(all) = Len(old) + Len(data)
        /\ \A i \in 1 .. Len(old) + Len(data) :
               all[i] = IF i <= Len(old) THEN old[i] ELSE data[i - Len(old)]
    BY <1>4, ConcatProperties
  <2> HIDE DEF all, held
  <2>2. Len(old) + Len(data) = m
    BY <1>2, <1>4
  <2>3. ASSUME NEW i \in 1 .. m
        PROVE  all[i] = IF i <= held THEN b[Slot(t + i - 1)] ELSE data[i - held]
    <3>1. all[i] = IF i <= held THEN old[i] ELSE data[i - held]
      BY <1>4, <2>1, <2>2
    <3>2. i <= held => i \in 1 .. held
      BY <1>1, <1>2
    <3> QED
      BY <1>4, <3>1, <3>2
  <2> QED
    BY <2>1, <2>2, <2>3
<1>6. \A i \in 1 .. m : all[i] \in Byte
  BY <1>5, ElementOfSeq
<1>7. \A j \in 0 .. (k - 1) : new[Slot(c + j)] = all[d + j + 1]
  <2> TAKE j \in 0 .. (k - 1)
  <2>1. /\ j \in Nat /\ d + j \in Nat /\ d + j + 1 \in 1 .. m
        /\ d + j < held + Len(data) /\ held + Len(data) <= Capacity + (d + j)
    <3> HIDE DEF held
    <3> QED
      BY <1>1, <1>2
  <2>2. Slot(c + j) = Slot(t + (d + j))
    <3>1. Slot(c + j) = Slot(t + d + j) /\ t + d + j = t + (d + j)
      BY <1>1, <2>1, SlotAfterPlus
    <3> QED
      BY <3>1
  <2>3. new[Slot(t + (d + j))] = IF d + j < held THEN b[Slot(t + (d + j))]
                                                 ELSE data[(d + j) - held + 1]
    <3> DEFINE i == d + j
    <3>1. i \in Nat /\ i < held + Len(data) /\ held + Len(data) <= Capacity + i
      BY <2>1
    <3> HIDE DEF i
    <3>2. new[Slot(t + i)] = IF i < held THEN b[Slot(t + i)]
                                         ELSE data[i - held + 1]
      BY <3>1, HeldAfterStore, ZenonT(30)
    <3> QED
      BY <3>2 DEF i
  <2>4. /\ t + (d + j + 1) - 1 = t + (d + j)
        /\ (d + j + 1) - held = (d + j) - held + 1
    BY <1>1, <2>1
  <2>5. all[d + j + 1] = IF d + j + 1 <= held THEN b[Slot(t + (d + j + 1) - 1)]
                                              ELSE data[(d + j + 1) - held]
    BY <1>5, <2>1
  <2>6. d + j < held <=> d + j + 1 <= held
    BY <1>1, <2>1
  <2> HIDE DEF held, old, new, all, c
  <2> QED
    BY <2>2, <2>3, <2>4, <2>5, <2>6
<1> HIDE DEF held, old, new, all, c
<1>8. \A j \in 0 .. (k - 1) : new[Slot(c + j)] \in Byte
  <2> TAKE j \in 0 .. (k - 1)
  <2>1. d + j + 1 \in 1 .. m
    BY <1>2
  <2> QED
    BY <1>6, <1>7, <2>1
<1>9. /\ Loaded(new, c, k) \in Seq(Byte) /\ Len(Loaded(new, c, k)) = k
      /\ \A i \in 1 .. k : Loaded(new, c, k)[i] = new[Slot(c + i - 1)]
  BY <1>2, <1>3, <1>8, LoadedProperties
<1>10. /\ SubSeq(all, d + 1, m) \in Seq(Byte) /\ Len(SubSeq(all, d + 1, m)) = k
       /\ \A i \in 1 .. k : SubSeq(all, d + 1, m)[i] = all[d + 1 + i - 1]
  <2>1. d + 1 \in Int /\ m \in Int /\ m - (d + 1) + 1 = k
    BY <1>2
  <2>2. \A i \in (d + 1) .. m : all[i] \in Byte
    BY <1>2, <1>6
  <2>3. d + 1 <= m \/ k = 0
    BY <1>2
  <2>4. /\ SubSeq(all, d + 1, m) \in Seq(Byte)
        /\ Len(SubSeq(all, d + 1, m)) = IF d + 1 <= m THEN m - (d + 1) + 1 ELSE 0
        /\ \A i \in 1 .. m - (d + 1) + 1 :
               SubSeq(all, d + 1, m)[i] = all[d + 1 + i - 1]
    BY <2>1, <2>2, SubSeqProperties
  <2> QED
    BY <2>1, <2>3, <2>4
<1>11. \A i \in 1 .. k : Loaded(new, c, k)[i] = SubSeq(all, d + 1, m)[i]
  <2> TAKE i \in 1 .. k
  <2>1. /\ i - 1 \in 0 .. (k - 1) /\ d + (i - 1) + 1 = d + 1 + i - 1
        /\ c + (i - 1) = c + i - 1
    BY <1>2, <1>3
  <2>2. new[Slot(c + (i - 1))] = all[d + (i - 1) + 1]
    BY <1>7, <2>1
  <2> QED
    BY <1>9, <1>10, <2>1, <2>2
<1>12. Loaded(new, c, k) = SubSeq(all, d + 1, m)
  BY <1>9, <1>10, <1>11, SeqEqual
<1> QED
  BY <1>8, <1>12 DEF Holds, Written, held, old, new, all, c

(* rb_get, rb_peek and what moves the tail: a piece of what is held.       *)
LEMMA SliceHolds ==
    ASSUME NEW b, NEW t \in Counter, NEW m \in Nat,
           NEW queue, Holds(b, t, m, queue),
           NEW d \in Nat, NEW k \in Nat, d + k <= m, d <= Word
    PROVE  Holds(b, Plus(t, d), k, SubSeq(queue, d + 1, d + k))
<1> DEFINE old == Loaded(b, t, m)
           c   == Plus(t, d)
<1>1. t \in Nat /\ c \in Nat
  BY PlusInCounter DEF Counter
<1>2. /\ old \in Seq(Byte) /\ Len(old) = m
      /\ \A i \in 1 .. m : old[i] = b[Slot(t + i - 1)]
  BY <1>1, LoadedProperties DEF Holds, Written
<1>3. \A j \in 0 .. (k - 1) : b[Slot(c + j)] = old[d + j + 1]
  <2> TAKE j \in 0 .. (k - 1)
  <2>1. j \in Nat /\ d + j + 1 \in 1 .. m /\ t + (d + j + 1) - 1 = t + d + j
    BY <1>1
  <2>2. Slot(c + j) = Slot(t + d + j)
    BY <2>1, SlotAfterPlus
  <2> HIDE DEF old, c
  <2>3. old[d + j + 1] = b[Slot(t + (d + j + 1) - 1)]
    BY <1>2, <2>1
  <2> QED
    BY <2>1, <2>2, <2>3
<1> HIDE DEF old, c
<1>4. \A i \in 1 .. m : old[i] \in Byte
  BY <1>2, ElementOfSeq
<1>5. \A j \in 0 .. (k - 1) : b[Slot(c + j)] \in Byte
  <2> TAKE j \in 0 .. (k - 1)
  <2>1. d + j + 1 \in 1 .. m
    OBVIOUS
  <2> QED
    BY <1>3, <1>4, <2>1
<1>6. /\ Loaded(b, c, k) \in Seq(Byte) /\ Len(Loaded(b, c, k)) = k
      /\ \A i \in 1 .. k : Loaded(b, c, k)[i] = b[Slot(c + i - 1)]
  BY <1>1, <1>5, LoadedProperties
<1>7. /\ SubSeq(old, d + 1, d + k) \in Seq(Byte)
      /\ Len(SubSeq(old, d + 1, d + k)) = k
      /\ \A i \in 1 .. k : SubSeq(old, d + 1, d + k)[i] = old[d + 1 + i - 1]
  <2>1. d + 1 \in Int /\ d + k \in Int /\ d + k - (d + 1) + 1 = k
    OBVIOUS
  <2>2. \A i \in (d + 1) .. (d + k) : old[i] \in Byte
    BY <1>4
  <2>3. d + 1 <= d + k \/ k = 0
    OBVIOUS
  <2>4. /\ SubSeq(old, d + 1, d + k) \in Seq(Byte)
        /\ Len(SubSeq(old, d + 1, d + k)) =
               IF d + 1 <= d + k THEN d + k - (d + 1) + 1 ELSE 0
        /\ \A i \in 1 .. d + k - (d + 1) + 1 :
               SubSeq(old, d + 1, d + k)[i] = old[d + 1 + i - 1]
    BY <2>1, <2>2, SubSeqProperties
  <2> QED
    BY <2>1, <2>3, <2>4
<1>8. \A i \in 1 .. k : Loaded(b, c, k)[i] = SubSeq(old, d + 1, d + k)[i]
  <2> TAKE i \in 1 .. k
  <2>1. /\ i - 1 \in 0 .. (k - 1) /\ d + (i - 1) + 1 = d + 1 + i - 1
        /\ c + (i - 1) = c + i - 1
    BY <1>1
  <2>2. b[Slot(c + (i - 1))] = old[d + (i - 1) + 1]
    BY <1>3, <2>1
  <2> QED
    BY <1>6, <1>7, <2>1, <2>2
<1>9. Loaded(b, c, k) = SubSeq(old, d + 1, d + k)
  BY <1>6, <1>7, <1>8, SeqEqual
<1> QED
  BY <1>5, <1>9 DEF Holds, Written, old, c

(* Adding nothing to a counter.                                            *)
LEMMA PlusZero ==
    ASSUME NEW t \in Counter
    PROVE  Plus(t, 0) = t
BY WrapCases, RingAssumption DEF Plus, Counter, RingAssumption

-----------------------------------------------------------------------------
(* The operations, on a ring that satisfies the invariant.                 *)
LEMMA HeldFacts ==
    ASSUME RingInvariant
    PROVE  /\ head \in Counter /\ tail \in Counter
           /\ rb_available(head, tail) \in 0 .. Capacity
           /\ Held \in Seq(Byte) /\ Len(Held) = rb_available(head, tail)
           /\ rb_free_space(head, tail) = Capacity - Len(Held)
<1>1. /\ head \in Counter /\ tail \in Counter /\ tail \in Nat
      /\ rb_available(head, tail) \in Nat
      /\ rb_available(head, tail) <= Capacity
      /\ Capacity \in Nat
  BY AvailableCases, RingAssumption
     DEF RingInvariant, TypeOK, Bounded, Counter, RingAssumption
<1>2. Held \in Seq(Byte) /\ Len(Held) = rb_available(head, tail)
  BY <1>1, LoadedProperties DEF RingInvariant, Written, Held
<1> QED
  BY <1>1, <1>2, FreeSpaceIsRoom

(* rb_put                                                                  *)
LEMMA PutHolds ==
    ASSUME RingInvariant, NEW data \in Seq(Byte), rb_put(data)
    PROVE  RingInvariant' /\ Held' = Held \o Queue!Prefix(data, Capacity - Len(Held))
<1> DEFINE held == rb_available(head, tail)
           n    == Least(Len(data), Capacity - held)
           part == SubSeq(data, 1, n)
<1>1. /\ head \in Counter /\ tail \in Counter /\ held \in 0 .. Capacity
      /\ Held \in Seq(Byte) /\ Len(Held) = held
      /\ rb_free_space(head, tail) = Capacity - held
      /\ Capacity \in Nat /\ Len(data) \in Nat
  BY HeldFacts, LenProperties, RingAssumption DEF RingAssumption
<1>2. n \in Nat /\ n <= Len(data) /\ held + n <= Capacity
  BY <1>1 DEF Least
<1>3. part \in Seq(Byte) /\ Len(part) = n
  <2>1. \A i \in 1 .. n : data[i] \in Byte
    BY <1>1, <1>2, ElementOfSeq
  <2> HIDE DEF n
  <2>2. part \in Seq(Byte) /\ Len(part) = IF 1 <= n THEN n - 1 + 1 ELSE 0
    BY <1>2, <2>1, SubSeqProperties
  <2> QED
    BY <1>2, <2>2
<1>4. /\ buffer' = Stored(buffer, head, part) /\ head' = Plus(head, n)
      /\ tail' = tail /\ given' = data /\ got' = <<>>
  BY <1>1 DEF rb_put
<1> HIDE DEF held, n, part
<1>5. head' \in Counter /\ rb_available(head', tail') = held + n
  BY <1>1, <1>2, <1>4, AvailableAfterPut, PlusInCounter DEF Counter, held
<1>6. Plus(tail, 0) = tail
  BY <1>1, PlusZero
<1>7. /\ Written(buffer', tail', held + n)
      /\ Loaded(buffer', tail', held + n) = SubSeq(Held \o part, 1, held + n)
  <2> DEFINE d == 0
             m == held + n
  <2>1. /\ Len(part) <= Capacity /\ d \in Nat
        /\ m \in Nat /\ d + m = m /\ d + 1 = 1
    BY <1>1, <1>2, <1>3
  <2>2. /\ d <= rb_available(head, tail)
        /\ rb_available(head, tail) <= Capacity
        /\ rb_available(head, tail) + Len(part) <= Capacity + d
        /\ m = rb_available(head, tail) + Len(part)
    BY <1>1, <1>2, <1>3 DEF held
  <2>3. Holds(buffer, tail, rb_available(head, tail), Held)
    BY DEF RingInvariant, Holds, Held
  <2> HIDE DEF d, m
  <2>4. head \in Counter /\ tail \in Counter /\ part \in Seq(Byte)
    BY <1>1, <1>3
  <2>5. Holds(Stored(buffer, head, part), Plus(tail, d), m,
              SubSeq(Held \o part, d + 1, m))
    BY ONLY <2>1, <2>2, <2>3, <2>4, StoreHolds, ZenonT(30)
  <2> QED
    BY <1>4, <1>6, <2>1, <2>5 DEF Holds, d, m
<1>8. SubSeq(Held \o part, 1, held + n) = Held \o part
  <2>1. Held \o part \in Seq(Byte) /\ Len(Held \o part) = held + n
    BY <1>1, <1>3, ConcatProperties
  <2> QED
    BY <2>1, SubSeqFull
<1>9. Queue!Prefix(data, Capacity - Len(Held)) = part
  BY <1>1 DEF Queue!Prefix, Least, part, n
<1>10. TypeOK'
  <2>1. buffer' \in [Slots -> Byte \cup {Garbage}]
    BY <1>1, <1>3, <1>4, StoredType DEF RingInvariant, TypeOK, Content, Counter
  <2> QED
    BY <1>1, <1>4, <1>5, <2>1, EmptySeq DEF TypeOK
<1>11. Bounded'
  BY <1>2, <1>5 DEF Bounded
<1> QED
  BY <1>5, <1>7, <1>8, <1>9, <1>10, <1>11 DEF RingInvariant, Held

(* rb_advance_head                                                         *)
LEMMA OverrunHolds ==
    ASSUME RingInvariant, NEW data \in Seq(Byte), rb_advance_head(data)
    PROVE  RingInvariant' /\ Queue!Overrun(data)
<1> DEFINE held == rb_available(head, tail)
           len  == Len(data)
           m    == held + len
           d    == IF m > Capacity THEN m - Capacity ELSE 0
           k    == m - d
           all  == Held \o data
<1>1. /\ head \in Counter /\ tail \in Counter /\ held \in 0 .. Capacity
      /\ Held \in Seq(Byte) /\ Len(Held) = held
      /\ rb_free_space(head, tail) = Capacity - held
      /\ Capacity \in Nat /\ len \in Nat /\ len <= Capacity
  BY HeldFacts, LenProperties, RingAssumption
     DEF RingAssumption, rb_advance_head
<1>2. /\ m \in Nat /\ d \in Nat /\ k \in Nat /\ d + k = m
      /\ d <= held /\ held + len <= Capacity + d /\ k <= Capacity
      /\ (held - d) + len = k
  <2> HIDE DEF held, len
  <2>1. m \in Nat /\ m = held + len
    BY <1>1
  <2>2. CASE m > Capacity
    <3>1. d = m - Capacity /\ k = m - d
      BY <2>2
    <3> HIDE DEF m, d, k
    <3> QED
      BY <1>1, <2>1, <2>2, <3>1
  <2>3. CASE ~(m > Capacity)
    <3>1. d = 0 /\ k = m - d
      BY <2>3
    <3> HIDE DEF m, d, k
    <3> QED
      BY <1>1, <2>1, <2>3, <3>1
  <2> QED
    BY <2>2, <2>3
<1>3. all \in Seq(Byte) /\ Len(all) = m
  BY <1>1, ConcatProperties
<1>4. tail' = Plus(tail, d)
  <2>1. CASE m > Capacity
    BY <1>1, <2>1 DEF rb_advance_head, TailMakingRoom
  <2>2. CASE ~(m > Capacity)
    <3>1. d = 0 /\ Plus(tail, 0) = tail
      BY <1>1, <2>2, PlusZero
    <3>2. tail' = tail
      BY <1>1, <2>2 DEF rb_advance_head, TailMakingRoom
    <3> QED
      BY <3>1, <3>2
  <2> QED
    BY <2>1, <2>2
<1>5. /\ buffer' = Stored(buffer, head, data) /\ head' = Plus(head, len)
      /\ given' = data /\ got' = <<>>
  BY DEF rb_advance_head
<1>6. Queue!Overrun(data) <=> Held' = SubSeq(all, d + 1, m)
  <2> HIDE DEF all
  <2>1. CASE m > Capacity
    BY <1>1, <1>3, <1>5, <2>1 DEF Queue!Overrun, Queue!Rest, Held, all
  <2>2. CASE ~(m > Capacity)
    <3>1. d + 1 = 1 /\ SubSeq(all, 1, m) = all
      BY <1>3, <2>2, SubSeqFull
    <3> QED
      BY <1>1, <1>3, <1>5, <2>2, <3>1 DEF Queue!Overrun, Held, all
  <2> QED
    BY <2>1, <2>2
<1> HIDE DEF len, m, d, k, all
<1>7. /\ d <= rb_available(head, tail) /\ Len(data) <= Capacity
      /\ rb_available(head, tail) <= Capacity
      /\ rb_available(head, tail) + Len(data) <= Capacity + d
      /\ m = rb_available(head, tail) + Len(data)
  BY <1>1, <1>2 DEF len, m
<1>8. Holds(buffer, tail, rb_available(head, tail), Held)
  BY DEF RingInvariant, Holds, Held
<1>9. Holds(Stored(buffer, head, data), Plus(tail, d), k,
            SubSeq(Held \o data, d + 1, m))
  <2>1. head \in Counter /\ tail \in Counter
    BY <1>1
  <2>2. d \in Nat /\ k \in Nat /\ d + k = m
    BY <1>2
  <2> QED
    BY ONLY data \in Seq(Byte), <2>1, <2>2, <1>7, <1>8, StoreHolds, ZenonT(30)
<1> HIDE DEF held
<1>10. head' \in Counter /\ tail' \in Counter /\ rb_available(head', tail') = k
  <2>1. /\ Plus(tail, d) \in Counter
        /\ rb_available(head, Plus(tail, d)) = held - d
    BY <1>1, <1>2, AvailableAfterGet DEF held
  <2>2. Plus(head, len) \in Counter
    <3>1. head \in Nat
      BY <1>1 DEF Counter
    <3> QED
      BY <1>1, <3>1, PlusInCounter
  <2>3. rb_available(Plus(head, len), Plus(tail, d)) = (held - d) + len
    BY <1>1, <1>2, <2>1, AvailableAfterPut
  <2> QED
    BY <1>2, <1>4, <1>5, <2>1, <2>2, <2>3
<1>11. Written(buffer', tail', k) /\ Loaded(buffer', tail', k) = SubSeq(all, d + 1, m)
  BY <1>4, <1>5, <1>9 DEF Holds, all
<1>12. TypeOK'
  <2>1. buffer' \in [Slots -> Byte \cup {Garbage}]
    BY <1>1, <1>5, StoredType DEF RingInvariant, TypeOK, Content, Counter
  <2> QED
    BY <1>5, <1>10, <2>1, EmptySeq DEF TypeOK
<1> QED
  BY <1>2, <1>6, <1>10, <1>11, <1>12 DEF RingInvariant, Bounded, Held

(* rb_get and rb_peek: the bytes handed out.                               *)
LEMMA PrefixHolds ==
    ASSUME RingInvariant, NEW len \in Nat
    PROVE  LET n == Least(len, rb_available(head, tail))
           IN  /\ Loaded(buffer, tail, n) = Queue!Prefix(Held, len)
               /\ Loaded(buffer, tail, n) \in Seq(Byte)
<1> DEFINE held == rb_available(head, tail)
           n    == Least(len, held)
<1>1. /\ head \in Counter /\ tail \in Counter /\ held \in Nat
      /\ Held \in Seq(Byte) /\ Len(Held) = held
  BY HeldFacts
<1>2. n \in Nat /\ 0 + n <= held /\ 0 <= Word /\ 0 \in Nat
      /\ 0 + n = n /\ 0 + 1 = 1
  BY <1>1, RingAssumption DEF Least, RingAssumption
<1>3. Queue!Prefix(Held, len) = SubSeq(Held, 1, n)
  BY <1>1 DEF Queue!Prefix, Least
<1> HIDE DEF n
<1>4. Holds(buffer, tail, held, Held)
  BY DEF RingInvariant, Holds, Held
<1> HIDE DEF held
<1>5. Holds(buffer, Plus(tail, 0), n, SubSeq(Held, 0 + 1, 0 + n))
  BY ONLY <1>1, <1>2, <1>4, SliceHolds, ZenonT(30)
<1>6. Holds(buffer, tail, n, SubSeq(Held, 1, n))
  BY <1>1, <1>2, <1>5, PlusZero
<1>7. Loaded(buffer, tail, n) \in Seq(Byte)
  <2>1. tail \in Nat
    BY <1>1 DEF Counter
  <2> QED
    BY <1>2, <1>6, <2>1, LoadedProperties DEF Holds, Written
<1> QED
  BY <1>3, <1>6, <1>7 DEF Holds, n, held

(* rb_get, rb_discard and rb_advance_tail: what stays.                     *)
LEMMA RestHolds ==
    ASSUME RingInvariant, NEW len \in Nat,
           tail' = Plus(tail, Least(len, rb_available(head, tail))),
           UNCHANGED <<head, buffer>>, given' = <<>>, got' \in Seq(Byte)
    PROVE  RingInvariant' /\ Held' = Queue!Rest(Held, len)
<1> DEFINE held == rb_available(head, tail)
           n    == Least(len, held)
           k    == held - n
<1>1. /\ head \in Counter /\ tail \in Counter /\ held \in 0 .. Capacity
      /\ Held \in Seq(Byte) /\ Len(Held) = held
      /\ Capacity \in Nat /\ Capacity < Word
  BY HeldFacts, RingAssumption DEF RingAssumption
<1>2. n \in Nat /\ k \in Nat /\ n + k <= held /\ n <= Word /\ n + k = held
      /\ n <= held /\ n <= Capacity /\ held \in Nat
  <2> HIDE DEF held
  <2>1. n = IF len < held THEN len ELSE held
    BY DEF Least
  <2>2. k = held - n /\ Word \in Nat
    BY RingAssumption DEF RingAssumption
  <2> HIDE DEF n, k
  <2> QED
    BY <1>1, <2>1, <2>2
<1>3. Queue!Rest(Held, len) = SubSeq(Held, n + 1, held)
  <2>1. CASE len <= held
    <3> HIDE DEF held
    <3>1. n = len
      BY <1>1, <2>1 DEF Least
    <3> QED
      BY <1>1, <3>1 DEF Queue!Rest
  <2>2. CASE ~(len <= held)
    <3>1. n = held /\ held \in Int /\ held < len + 1 /\ held < held + 1
          /\ len + 1 \in Int /\ held + 1 \in Int
      BY <1>1, <2>2 DEF Least
    <3> HIDE DEF n, held
    <3>2. SubSeq(Held, len + 1, held) = <<>> /\ SubSeq(Held, held + 1, held) = <<>>
      BY <3>1, SubSeqEmpty
    <3> QED
      BY <1>1, <3>1, <3>2 DEF Queue!Rest
  <2> QED
    BY <1>1, <2>1, <2>2
<1>4. Holds(buffer, tail, held, Held)
  BY DEF RingInvariant, Holds, Held
<1> HIDE DEF k, n, held
<1>5. Holds(buffer, Plus(tail, n), k, SubSeq(Held, n + 1, n + k))
  BY ONLY <1>1, <1>2, <1>4, SliceHolds, ZenonT(30)
<1>6. tail' = Plus(tail, n)
  BY DEF n, held
<1>7. tail' \in Counter /\ rb_available(head', tail') = k
  BY <1>1, <1>2, <1>6, AvailableAfterGet DEF k, held
<1>8. Written(buffer', tail', k) /\ Loaded(buffer', tail', k) = SubSeq(Held, n + 1, held)
  BY <1>2, <1>5, <1>6 DEF Holds
<1>9. TypeOK'
  BY <1>1, <1>7, EmptySeq DEF RingInvariant, TypeOK
<1>10. Bounded'
  BY <1>1, <1>2, <1>7 DEF Bounded
<1> QED
  BY <1>3, <1>7, <1>8, <1>9, <1>10 DEF RingInvariant, Held

(* rb_init and rb_flush: both counters at zero.                            *)
LEMMA EmptyRing ==
    /\ 0 \in Counter
    /\ rb_available(0, 0) = 0 /\ 0 <= Capacity
    /\ \A b : Loaded(b, 0, 0) = <<>> /\ Written(b, 0, 0)
<1>1. 0 \in Counter /\ 0 <= Capacity
  BY RingAssumption DEF Counter, RingAssumption
<1>2. rb_available(0, 0) = 0
  BY <1>1, AvailableCases
<1>3. ASSUME NEW b PROVE Loaded(b, 0, 0) = <<>> /\ Written(b, 0, 0)
  <2>1. Written(b, 0, 0)
    BY DEF Written
  <2>2. 0 \in Nat /\ \A i \in 0 .. (0 - 1) : b[Slot(0 + i)] \in Byte
    OBVIOUS
  <2>3. Loaded(b, 0, 0) \in Seq(Byte) /\ Len(Loaded(b, 0, 0)) = 0
    BY <2>2, LoadedProperties
  <2> QED
    BY <2>1, <2>3, EmptySeq
<1> QED
  BY <1>1, <1>2, <1>3

(* rb_init starts the invariant and an empty queue.                        *)
LEMMA InitHolds ==
    ASSUME rb_init
    PROVE  RingInvariant /\ Queue!Init
<1>1. /\ head = 0 /\ tail = 0 /\ buffer = [s \in Slots |-> Garbage]
      /\ given = <<>> /\ got = <<>>
  BY DEF rb_init
<1>2. TypeOK
  <2>1. buffer \in [Slots -> Byte \cup {Garbage}]
    BY <1>1
  <2>2. given \in Seq(Byte) /\ got \in Seq(Byte)
    BY <1>1, EmptySeq
  <2> QED
    BY <1>1, <2>1, <2>2, EmptyRing DEF TypeOK
<1> QED
  BY <1>1, <1>2, EmptyRing DEF RingInvariant, Bounded, Queue!Init

(* rb_flush empties the queue.                                             *)
LEMMA FlushHolds ==
    ASSUME RingInvariant, rb_flush
    PROVE  RingInvariant' /\ Queue!Clear
<1>1. /\ head' = 0 /\ tail' = 0 /\ buffer' = buffer
      /\ given' = <<>> /\ got' = <<>>
  BY DEF rb_flush
<1>2. TypeOK'
  <2>1. given' \in Seq(Byte) /\ got' \in Seq(Byte)
    BY <1>1, EmptySeq
  <2> QED
    BY <1>1, <2>1, EmptyRing DEF RingInvariant, TypeOK
<1> QED
  BY <1>1, <1>2, EmptyRing DEF RingInvariant, Bounded, Queue!Clear

(* rb_get takes the oldest bytes out of the queue.                         *)
LEMMA GetHolds ==
    ASSUME RingInvariant, NEW len \in Nat, rb_get(len)
    PROVE  RingInvariant' /\ Queue!Get(len)
<1>1. /\ got' = Loaded(buffer, tail, Least(len, rb_available(head, tail)))
      /\ tail' = Plus(tail, Least(len, rb_available(head, tail)))
      /\ given' = <<>> /\ UNCHANGED <<head, buffer>>
  BY DEF rb_get
<1>2. got' = Queue!Prefix(Held, len) /\ got' \in Seq(Byte)
  BY <1>1, PrefixHolds
<1>3. RingInvariant' /\ Held' = Queue!Rest(Held, len)
  BY <1>1, <1>2, RestHolds
<1> QED
  BY <1>1, <1>2, <1>3 DEF Queue!Get, Held

(* rb_peek shows them and leaves the queue as it is.                       *)
LEMMA PeekHolds ==
    ASSUME RingInvariant, NEW len \in Nat, rb_peek(len)
    PROVE  RingInvariant' /\ Queue!Peek(len)
<1>1. /\ got' = Loaded(buffer, tail, Least(len, rb_available(head, tail)))
      /\ given' = <<>> /\ UNCHANGED <<head, tail, buffer>>
  BY DEF rb_peek
<1>2. got' = Queue!Prefix(Held, len) /\ got' \in Seq(Byte)
  BY <1>1, PrefixHolds
<1>3. given' \in Seq(Byte)
  BY <1>1, EmptySeq
<1> QED
  BY <1>1, <1>2, <1>3
     DEF RingInvariant, TypeOK, Bounded, Queue!Peek, Held

(* rb_discard and rb_advance_tail drop them.                               *)
LEMMA DropHolds ==
    ASSUME RingInvariant, NEW len \in Nat,
           rb_discard(len) \/ rb_advance_tail(len)
    PROVE  RingInvariant' /\ Queue!Drop(len)
<1>1. /\ tail' = Plus(tail, Least(len, rb_available(head, tail)))
      /\ given' = <<>> /\ got' = <<>> /\ UNCHANGED <<head, buffer>>
  BY DEF rb_discard, rb_advance_tail
<1>2. got' \in Seq(Byte)
  BY <1>1, EmptySeq
<1>3. RingInvariant' /\ Held' = Queue!Rest(Held, len)
  BY <1>1, <1>2, RestHolds
<1> QED
  BY <1>1, <1>3 DEF Queue!Drop, Held

-----------------------------------------------------------------------------
(* Every ringbuffer.c operation keeps the invariant and does to the bytes  *)
(* held what the queue's operation does.                                   *)
THEOREM StepHolds ==
    ASSUME RingInvariant, [Next]_vars
    PROVE  RingInvariant' /\ [Queue!Next]_(Queue!vars)
<1>1. ASSUME NEW data \in Batches, rb_put(data)
      PROVE  RingInvariant' /\ Queue!Next
  <2>1. data \in Seq(Byte) /\ data \in Queue!Batches
    BY <1>1, RingBufferAssumption DEF Batches, Queue!Batches, RingBufferAssumption
  <2>2. RingInvariant' /\ Held' = Held \o Queue!Prefix(data, Capacity - Len(Held))
    BY <1>1, <2>1, PutHolds
  <2>3. Queue!Put(data)
    BY <1>1, <2>2 DEF rb_put, Queue!Put, Held
  <2> QED
    BY <2>1, <2>2, <2>3 DEF Queue!Next
<1>2. ASSUME NEW data \in Batches, rb_advance_head(data)
      PROVE  RingInvariant' /\ Queue!Next
  <2>1. data \in Seq(Byte) /\ data \in Queue!Batches
    BY <1>2, RingBufferAssumption DEF Batches, Queue!Batches, RingBufferAssumption
  <2>2. RingInvariant' /\ Queue!Overrun(data)
    BY <1>2, <2>1, OverrunHolds
  <2> QED
    BY <2>1, <2>2 DEF Queue!Next
<1>3. ASSUME NEW len \in 1 .. MaxLen,
             rb_get(len) \/ rb_peek(len) \/ rb_discard(len) \/ rb_advance_tail(len)
      PROVE  RingInvariant' /\ Queue!Next
  <2>1. len \in Nat
    BY RingBufferAssumption DEF RingBufferAssumption
  <2>2. CASE rb_get(len)
    <3>1. RingInvariant' /\ Queue!Get(len)
      BY <2>1, <2>2, GetHolds
    <3> QED
      BY <3>1 DEF Queue!Next
  <2>3. CASE rb_peek(len)
    <3>1. RingInvariant' /\ Queue!Peek(len)
      BY <2>1, <2>3, PeekHolds
    <3> QED
      BY <3>1 DEF Queue!Next
  <2>4. CASE rb_discard(len) \/ rb_advance_tail(len)
    <3>1. RingInvariant' /\ Queue!Drop(len)
      BY <2>1, <2>4, DropHolds
    <3> QED
      BY <3>1 DEF Queue!Next
  <2> QED
    BY <1>3, <2>2, <2>3, <2>4
<1>4. CASE rb_flush
  <2>1. RingInvariant' /\ Queue!Clear
    BY <1>4, FlushHolds
  <2> QED
    BY <2>1 DEF Queue!Next
<1>5. CASE UNCHANGED vars
  BY <1>5 DEF vars, RingInvariant, TypeOK, Bounded, Queue!vars
<1>6. CASE Next
  BY <1>1, <1>2, <1>3, <1>4, <1>6 DEF Next
<1> QED
  BY <1>5, <1>6

(* The runs offered to a DMA are cut short by the buffer's end only.       *)
LEMMA RunsFit ==
    ASSUME RingInvariant
    PROVE  ContigInside
<1> DEFINE held == rb_available(head, tail)
           room == rb_free_space(head, tail)
           r    == Slot(tail)
           w    == Slot(head)
<1>1. /\ held \in Nat /\ room \in Nat /\ Capacity \in Nat
      /\ r \in 0 .. (Capacity - 1) /\ w \in 0 .. (Capacity - 1)
  <2>1. head \in Counter /\ tail \in Counter /\ held \in 0 .. Capacity
        /\ Len(Held) = held /\ room = Capacity - Len(Held)
    BY HeldFacts
  <2>2. head \in Nat /\ tail \in Nat
    BY <2>1 DEF Counter
  <2>3. r \in Slots /\ w \in Slots
    BY <2>2, SlotInBuffer
  <2>4. Capacity \in Nat
    BY RingAssumption DEF RingAssumption
  <2>5. room \in Nat
    <3> HIDE DEF held, room
    <3> QED
      BY <2>1, <2>4
  <2> QED
    BY <2>1, <2>3, <2>4, <2>5 DEF Slots
<1>2. ContigInside <=>
          LET readable == Least(held, Capacity - r)
              writable == Least(room, Capacity - w)
          IN  /\ r + readable <= Capacity /\ w + writable <= Capacity
              /\ readable = held \/ r + readable = Capacity
              /\ writable = room \/ w + writable = Capacity
  BY DEF ContigInside, rb_contig_read_len, rb_contig_write_len
<1> HIDE DEF held, room, r, w
<1> QED
  BY <1>1, <1>2 DEF Least

(* ringbuffer.c, any sequence of its operations: the invariant holds.      *)
THEOREM RingInvariantHolds == Spec => []RingInvariant
<1>1. rb_init => RingInvariant
  BY InitHolds
<1>2. RingInvariant /\ [Next]_vars => RingInvariant'
  BY StepHolds
<1> QED
  BY <1>1, <1>2, PTL DEF Spec

(* rb_get and rb_peek never hand out a slot that was not written.          *)
THEOREM RingTyped == Spec => []TypeOK
<1>1. RingInvariant => TypeOK
  BY DEF RingInvariant
<1> QED
  BY <1>1, RingInvariantHolds, PTL

(* The ring never claims more bytes than it has slots, so that             *)
(* rb_free_space does not underflow.                                       *)
THEOREM RingBounded == Spec => []Bounded
<1>1. RingInvariant => Bounded
  BY DEF RingInvariant
<1> QED
  BY <1>1, RingInvariantHolds, PTL

(* rb_contig_read_len and rb_contig_write_len stay inside the buffer.      *)
THEOREM RunsStayInside == Spec => []ContigInside
<1>1. RingInvariant => ContigInside
  BY RunsFit
<1> QED
  BY <1>1, RingInvariantHolds, PTL

(* ringbuffer.c is a first-in first-out queue of at most Capacity bytes.   *)
THEOREM RingIsQueue == Spec => ImplementsQueue
<1>1. rb_init => Queue!Init
  BY InitHolds
<1>2. RingInvariant /\ [Next]_vars => [Queue!Next]_(Queue!vars)
  BY StepHolds
<1> QED
  BY <1>1, <1>2, RingInvariantHolds, PTL DEF Spec, ImplementsQueue, Queue!Spec
=============================================================================
