---------------------------- MODULE RingTheorems ----------------------------
(***************************************************************************)
(* Facts about the index arithmetic of the ring, for every Word and        *)
(* Capacity: what the proofs about the drivers need to know of counters    *)
(* that wrap.                                                              *)
(***************************************************************************)
EXTENDS Ring, TLAPS

(* Multiples of c: what they are, ...                                      *)
LEMMA MultipleForm ==
    ASSUME NEW c \in Nat, c > 0, NEW m \in Nat, m % c = 0
    PROVE  \E q \in Nat : m = c * q
<1>1. m \div c \in Nat /\ m = c * (m \div c) + (m % c)
  OBVIOUS
<1> QED
  BY <1>1

LEMMA RemainderForm ==
    ASSUME NEW c \in Nat, c > 0, NEW q \in Nat, NEW r \in 0 .. (c - 1)
    PROVE  (c * q + r) % c = r
OBVIOUS

(* ... their sums, ...                                                     *)
LEMMA SumOfMultiples ==
    ASSUME NEW c \in Nat, c > 0, NEW m \in Nat, NEW w \in Nat,
           m % c = 0, w % c = 0
    PROVE  (m + w) % c = 0
<1>1. PICK q \in Nat : m = c * q
  BY MultipleForm
<1>2. PICK r \in Nat : w = c * r
  BY MultipleForm
<1>3. m + w = c * (q + r)
  BY <1>1, <1>2
<1>4. q + r \in Nat /\ 0 \in 0 .. (c - 1)
  OBVIOUS
<1>5. (c * (q + r) + 0) % c = 0
  BY <1>4, RemainderForm, Zenon
<1> QED
  BY <1>3, <1>4, <1>5

(* ... a remainder added to one, ...                                       *)
LEMMA MultiplePlusRemainder ==
    ASSUME NEW c \in Nat, c > 0, NEW m \in Nat, m % c = 0,
           NEW r \in 0 .. (c - 1)
    PROVE  (m + r) % c = r
<1>1. PICK q \in Nat : m = c * q
  BY MultipleForm
<1> QED
  BY <1>1

(* ... and the one below a number.                                         *)
LEMMA MultipleBelow ==
    ASSUME NEW c \in Nat, c > 0, NEW x \in Nat
    PROVE  x - (x % c) \in Nat /\ (x - (x % c)) % c = 0
<1>1. x \div c \in Nat /\ x = c * (x \div c) + (x % c)
  OBVIOUS
<1>2. x - (x % c) = c * (x \div c)
  BY <1>1
<1>3. (c * (x \div c)) % c = 0
  OBVIOUS
<1> QED
  BY <1>1, <1>2, <1>3

USE RingAssumption

(* A counter always denotes a slot of the buffer (buffer[head & mask]).    *)
LEMMA SlotInBuffer ==
    ASSUME NEW x \in Nat
    PROVE  Slot(x) \in Slots /\ Slot(x) <= x
BY DEF Slot, Slots

(* Reduction by Word of what adding or subtracting two counters can give.  *)
LEMMA WrapCases ==
    ASSUME NEW x \in Int, -Word < x, x < 2 * Word
    PROVE  x % Word = IF x < 0 THEN x + Word
                      ELSE IF x < Word THEN x ELSE x - Word
<1>1. CASE x < 0
  BY <1>1
<1>2. CASE 0 <= x /\ x < Word
  BY <1>2
<1>3. CASE Word <= x
  BY <1>3
<1> QED
  BY <1>1, <1>2, <1>3

(* Increments of a uint32_t counter stay uint32_t values.                  *)
LEMMA PlusInCounter ==
    ASSUME NEW x \in Nat, NEW k \in Nat
    PROVE  Plus(x, k) \in Counter
BY DEF Plus, Counter

(* head - tail, as uint32_t, is the distance from tail to head.            *)
LEMMA AvailableCases ==
    ASSUME NEW h \in Counter, NEW t \in Counter
    PROVE  /\ rb_available(h, t) \in Nat
           /\ rb_available(h, t) = IF t <= h THEN h - t ELSE h + Word - t
           /\ rb_available(h, t) = 0 <=> h = t
<1>1. h \in Int /\ t \in Int /\ h - t \in Int /\ -Word < h - t /\ h - t < 2 * Word
  BY DEF Counter
<1>2. rb_available(h, t) = IF h - t < 0 THEN h - t + Word ELSE h - t
  BY <1>1, WrapCases DEF rb_available, Counter
<1> QED
  BY <1>2 DEF Counter

(* rb_put: publishing k bytes that fit makes k more bytes available.       *)
LEMMA AvailableAfterPut ==
    ASSUME NEW h \in Counter, NEW t \in Counter, NEW k \in Nat,
           rb_available(h, t) + k <= Capacity
    PROVE  rb_available(Plus(h, k), t) = rb_available(h, t) + k
<1>1. Plus(h, k) = IF h + k < Word THEN h + k ELSE h + k - Word
  <2>1. k <= Capacity
    BY AvailableCases
  <2> QED
    BY <2>1, WrapCases DEF Plus, Counter
<1>2. Plus(h, k) \in Counter
  BY AvailableCases, PlusInCounter DEF Counter
<1>3. rb_available(h, t) = IF t <= h THEN h - t ELSE h + Word - t
  BY AvailableCases
<1>4. rb_available(Plus(h, k), t) =
          IF t <= Plus(h, k) THEN Plus(h, k) - t ELSE Plus(h, k) + Word - t
  BY <1>2, AvailableCases
<1> QED
  BY <1>1, <1>3, <1>4 DEF Counter

(* Free space is a uint32_t whatever the counters are.                     *)
LEMMA FreeSpaceType ==
    ASSUME NEW h \in Counter, NEW t \in Counter
    PROVE  rb_free_space(h, t) \in Nat
<1>1. rb_available(h, t) \in Nat
  BY AvailableCases
<1> QED
  BY <1>1 DEF rb_free_space

(* Free space does not underflow while the ring holds at most its slots.   *)
LEMMA FreeSpaceIsRoom ==
    ASSUME NEW h \in Counter, NEW t \in Counter,
           rb_available(h, t) <= Capacity
    PROVE  /\ rb_free_space(h, t) \in Nat
           /\ rb_free_space(h, t) = Capacity - rb_available(h, t)
BY AvailableCases DEF rb_free_space

(* Counters with the same distance to both ends: for tail <= mid <= head   *)
(* on the circle of counters the distances add up.                         *)
LEMMA AvailableSplits ==
    ASSUME NEW h \in Counter, NEW m \in Counter, NEW t \in Counter,
           rb_available(m, t) <= rb_available(h, t)
    PROVE  rb_available(h, m) = rb_available(h, t) - rb_available(m, t)
<1>1. rb_available(h, t) = IF t <= h THEN h - t ELSE h + Word - t
  BY AvailableCases
<1>2. rb_available(m, t) = IF t <= m THEN m - t ELSE m + Word - t
  BY AvailableCases
<1>3. rb_available(h, m) = IF m <= h THEN h - m ELSE h + Word - m
  BY AvailableCases
<1> QED
  BY <1>1, <1>2, <1>3 DEF Counter

(* A multiple of Capacity (the start of the buffer) plus a slot.           *)
LEMMA SlotOfSum ==
    ASSUME NEW m \in Nat, Slot(m) = 0, NEW s \in Slots
    PROVE  Slot(m + s) = s
BY MultiplePlusRemainder DEF Slot, Slots

(* What is below a counter's slot: a multiple of Capacity.                 *)
LEMMA SlotBase ==
    ASSUME NEW x \in Nat
    PROVE  x - Slot(x) \in Nat /\ Slot(x - Slot(x)) = 0
BY MultipleBelow DEF Slot

(* Slots of consecutive bytes are consecutive up to the buffer's end.      *)
LEMMA SlotAdvances ==
    ASSUME NEW x \in Nat, NEW k \in Nat, Slot(x) + k < Capacity
    PROVE  Slot(x + k) = Slot(x) + k
<1>1. x - Slot(x) \in Nat /\ Slot(x - Slot(x)) = 0
  BY SlotBase
<1>2. Slot(x) \in Nat /\ Slot(x) + k \in Slots
  BY SlotInBuffer DEF Slots
<1>3. Slot((x - Slot(x)) + (Slot(x) + k)) = Slot(x) + k
  BY <1>1, <1>2, SlotOfSum
<1> QED
  BY <1>2, <1>3

(* Capacity divides Word: wrapping the counter does not move the slot, the *)
(* fact behind "counter & mask".  Nor does a whole turn of the buffer.     *)
LEMMA SlotIgnoresWrap ==
    ASSUME NEW x \in Nat, NEW w \in {Word, Capacity}
    PROVE  Slot(x + w) = Slot(x)
<1>1. PICK base \in Nat : Slot(base) = 0 /\ base = x - Slot(x)
  BY SlotBase
<1>2. Slot(x) \in Slots /\ Slot(x) \in Nat
  BY SlotInBuffer DEF Slots
<1>3. w \in Nat /\ Slot(w) = 0
  BY DEF Slot
<1>4. Slot(base + w) = 0
  <2>1. base % Capacity = 0 /\ w % Capacity = 0
    BY <1>1, <1>3 DEF Slot
  <2>2. Capacity \in Nat /\ Capacity > 0
    OBVIOUS
  <2>3. (base + w) % Capacity = 0
    BY <2>1, <2>2, <1>3, SumOfMultiples
  <2> QED
    BY <2>3 DEF Slot
<1>5. base + w \in Nat
  BY <1>3
<1>6. Slot((base + w) + Slot(x)) = Slot(x)
  BY <1>2, <1>4, <1>5, SlotOfSum
<1>7. (base + w) + Slot(x) = x + w
  BY <1>1, <1>2, <1>3
<1> QED
  BY <1>6, <1>7

(* Fewer than Capacity bytes apart, two bytes never share a slot.          *)
LEMMA SlotsDistinct ==
    ASSUME NEW x \in Nat, NEW d \in Nat, 0 < d, d < Capacity
    PROVE  Slot(x + d) # Slot(x)
<1>1. Slot(x) \in Nat /\ Slot(x) < Capacity
  BY SlotInBuffer DEF Slots
<1>2. CASE Slot(x) + d < Capacity
  BY <1>1, <1>2, SlotAdvances
<1>3. CASE Slot(x) + d >= Capacity
  <2>1. x - Slot(x) \in Nat /\ Slot(x - Slot(x)) = 0
    BY SlotBase
  <2>2. Slot((x - Slot(x)) + Capacity) = 0
    BY <2>1, SlotIgnoresWrap
  <2>3. Slot(x) + d - Capacity \in Slots
    BY <1>1, <1>3 DEF Slots
  <2>4. (x - Slot(x)) + Capacity \in Nat
    BY <2>1
  <2>5. Slot(((x - Slot(x)) + Capacity) + (Slot(x) + d - Capacity))
            = Slot(x) + d - Capacity
    BY <2>2, <2>3, <2>4, SlotOfSum
  <2>6. ((x - Slot(x)) + Capacity) + (Slot(x) + d - Capacity) = x + d
    BY <1>1
  <2> QED
    BY <1>1, <2>5, <2>6
<1> QED
  BY <1>1, <1>2, <1>3

(* The k-th byte after a counter that was advanced by d: its slot is that  *)
(* of byte d + k.                                                          *)
LEMMA SlotAfterPlus ==
    ASSUME NEW x \in Counter, NEW d \in Nat, NEW k \in Nat, d <= Word
    PROVE  Slot(Plus(x, d) + k) = Slot(x + d + k)
<1>1. CASE x + d < Word
  BY <1>1 DEF Plus, Counter
<1>2. CASE x + d >= Word
  <2>1. Plus(x, d) = x + d - Word
    BY <1>2 DEF Plus, Counter
  <2>2. x + d - Word + k \in Nat
    BY <1>2 DEF Counter
  <2> QED
    BY <2>1, <2>2, SlotIgnoresWrap DEF Counter
<1> QED
  BY <1>1, <1>2 DEF Counter

(* The head is Held bytes after the tail.                                  *)
LEMMA HeadFromTail ==
    ASSUME NEW h \in Counter, NEW t \in Counter
    PROVE  h = Plus(t, rb_available(h, t))
<1>1. rb_available(h, t) = IF t <= h THEN h - t ELSE h + Word - t
  BY AvailableCases
<1>2. t + rb_available(h, t) \in Int
      /\ -Word < t + rb_available(h, t) /\ t + rb_available(h, t) < 2 * Word
  BY <1>1 DEF Counter
<1>3. Plus(t, rb_available(h, t)) = IF t + rb_available(h, t) < Word
                                   THEN t + rb_available(h, t)
                                   ELSE t + rb_available(h, t) - Word
  BY <1>1, <1>2, WrapCases DEF Plus, Counter
<1> QED
  BY <1>1, <1>3 DEF Counter

(* Moving the tail over n of the bytes held.                               *)
LEMMA AvailableAfterGet ==
    ASSUME NEW h \in Counter, NEW t \in Counter, NEW n \in Nat,
           n <= rb_available(h, t), n <= Capacity
    PROVE  /\ Plus(t, n) \in Counter
           /\ rb_available(h, Plus(t, n)) = rb_available(h, t) - n
<1>1. t \in Nat /\ rb_available(t, t) = 0 /\ Plus(t, n) \in Counter
  BY AvailableCases, PlusInCounter DEF Counter
<1>2. rb_available(Plus(t, n), t) = n
  BY <1>1, AvailableAfterPut
<1>3. rb_available(Plus(t, n), t) <= rb_available(h, t)
  BY <1>2
<1>4. rb_available(h, Plus(t, n))
          = rb_available(h, t) - rb_available(Plus(t, n), t)
  BY <1>1, <1>3, AvailableSplits
<1> QED
  BY <1>1, <1>2, <1>4
=============================================================================
