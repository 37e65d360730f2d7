-------------------------- MODULE TaskNotifyProofs ---------------------------
(***************************************************************************)
(* What the kernel's delayed lists and notices keep, whatever task waits   *)
(* for how long: the lists stay in the order of time, also when the tick   *)
(* count wraps and when ticks are counted late, and who sleeps can be      *)
(* given notice.  One lemma says what each operation of TaskNotify does to *)
(* the invariant; the modules that extend it cite them.                    *)
(***************************************************************************)
EXTENDS TaskNotify, WellFoundedInduction, TLAPS

(* A set of numbers has a least one.                                       *)
LEMMA LeastOf ==
    ASSUME NEW S, S \subseteq Nat, S # {}
    PROVE  \E x \in S : \A y \in S : x <= y
<1>1. PICK x \in S : \A y \in S : ~(<<y, x>> \in OpToRel(<, Nat))
  BY WFMin, NatLessThanWellFounded, Zenon
<1>2. \A y \in S : ~(y < x)
  BY <1>1, Zenon DEF OpToRel
<1> QED
  BY <1>2

(* Induction, over a set.                                                  *)
LEMMA SetInduction ==
    ASSUME NEW S, 0 \in S, \A n \in Nat : n \in S => n + 1 \in S
    PROVE  Nat \subseteq S
<1> DEFINE T == Nat \ S
<1> SUFFICES ASSUME T # {} PROVE FALSE
  OBVIOUS
<1>1. PICK x \in T : \A y \in T : x <= y
  BY LeastOf
<1>2. x - 1 \in Nat /\ x - 1 \notin T
  BY <1>1
<1> QED
  BY <1>1, <1>2

(* The smallest of some numbers.                                           *)
LEMMA MinOfNumbers ==
    ASSUME NEW S, S \subseteq Nat, S # {}
    PROVE  Min(S) \in S /\ \A y \in S : Min(S) <= y
<1>1. \E x \in S : \A y \in S : x <= y
  BY LeastOf
<1> QED
  BY <1>1, Zenon DEF Min

-----------------------------------------------------------------------------
(* Times.                                                                  *)
LEMMA TicksAreNumbers ==
    /\ Ticks \in Nat /\ Ticks > 1
    /\ portMAX_DELAY \in Nat /\ portMAX_DELAY > 0 /\ portMAX_DELAY = Ticks - 1
BY TaskNotifyAssumption DEF TaskNotifyAssumption, portMAX_DELAY

(* A sum of times is a time, one round of the count less if it does not    *)
(* fit.                                                                    *)
LEMMA LaterIsSum ==
    ASSUME NEW x \in 0 .. portMAX_DELAY, NEW n \in 0 .. portMAX_DELAY
    PROVE  /\ Later(x, n) \in 0 .. portMAX_DELAY
           /\ Later(x, n) = IF x + n <= portMAX_DELAY THEN x + n ELSE x + n - Ticks
<1>1. CASE x + n <= portMAX_DELAY
  BY <1>1, TicksAreNumbers DEF Later
<1>2. CASE ~(x + n <= portMAX_DELAY)
  <2>1. x + n - Ticks \in 0 .. portMAX_DELAY
    BY <1>2, TicksAreNumbers
  <2>2. (x + n) % Ticks = x + n - Ticks
    BY <1>2, <2>1, TicksAreNumbers
  <2> QED
    BY <1>2, <2>1, <2>2 DEF Later
<1> QED
  BY <1>1, <1>2

(* The types of the tick count and of what is ordered by it.               *)
DelaysType == [now : 0 .. portMAX_DELAY, next : 0 .. portMAX_DELAY,
               list : [Task -> {"ready", "delayed", "overflow"}],
               wake : [Task -> 0 .. portMAX_DELAY]]

(* Tasks in the current list wake later in this round of the count, no     *)
(* sooner than the next wake-up is expected; those in the overflow list    *)
(* in the next round.                                                      *)
InOrder(d) ==
    \A t \in Task :
        /\ d.list[t] = "delayed" => d.now < d.wake[t] /\ d.next <= d.wake[t]
        /\ d.list[t] = "overflow" => d.wake[t] < d.now

(* The ticks until a delayed task wakes.                                   *)
Remaining(d, t) == IF d.list[t] = "delayed" THEN d.wake[t] - d.now
                                            ELSE d.wake[t] + Ticks - d.now

(* It is a number, in whatever state.                                      *)
LEMMA RemainingIsNumber ==
    ASSUME NEW d \in DelaysType, NEW t \in Task
    PROVE  Remaining(d, t) \in Int
<1>1. d.now \in Int /\ d.wake[t] \in Int
  BY DEF DelaysType
<1> QED
  BY <1>1, TicksAreNumbers DEF Remaining

(* The next wake-up is no later than any task's.                           *)
LEMMA NextIsFirst ==
    ASSUME NEW list \in [Task -> {"ready", "delayed", "overflow"}],
           NEW wake \in [Task -> 0 .. portMAX_DELAY]
    PROVE  /\ NextUnblockTime(list, wake) \in 0 .. portMAX_DELAY
           /\ \A t \in Task : list[t] = "delayed" =>
                                  NextUnblockTime(list, wake) <= wake[t]
<1> DEFINE S == {wake[t] : t \in Delayed(list)}
<1>1. CASE Delayed(list) = {}
  <2>1. NextUnblockTime(list, wake) = portMAX_DELAY
    BY <1>1 DEF NextUnblockTime
  <2>2. \A t \in Task : list[t] # "delayed"
    BY <1>1 DEF Delayed
  <2> QED
    BY <2>1, <2>2, TicksAreNumbers
<1>2. CASE Delayed(list) # {}
  <2>1. S \subseteq 0 .. portMAX_DELAY /\ S # {} /\ S \subseteq Nat
    BY <1>2 DEF Delayed
  <2>2. Min(S) \in S /\ \A y \in S : Min(S) <= y
    BY <2>1, MinOfNumbers
  <2>3. NextUnblockTime(list, wake) = Min(S)
    BY <1>2 DEF NextUnblockTime
  <2>4. \A t \in Task : list[t] = "delayed" => wake[t] \in S
    BY DEF Delayed
  <2> QED
    BY <2>1, <2>2, <2>3, <2>4
<1> QED
  BY <1>1, <1>2

(* A tick: a delayed task has one tick less to wait, or is awake.          *)
LEMMA TickKeepsOrder ==
    ASSUME NEW d \in DelaysType, InOrder(d)
    PROVE  /\ TickedOnce(d) \in DelaysType /\ InOrder(TickedOnce(d))
           /\ TickedOnce(d).now = Later(d.now, 1)
           /\ \A t \in Task : TickedOnce(d).list[t] # "ready" =>
                  /\ d.list[t] # "ready"
                  /\ Remaining(TickedOnce(d), t) = Remaining(d, t) - 1
<1> DEFINE now  == Later(d.now, 1)
           list == IF now = 0 THEN Switched(d.list) ELSE d.list
           next == IF now = 0 THEN NextUnblockTime(list, d.wake) ELSE d.next
           left == [t \in Task |-> IF list[t] = "delayed" /\ d.wake[t] <= now
                                   THEN "ready" ELSE list[t]]
           e    == TickedOnce(d)
<1>1. e = IF now < next
          THEN [d EXCEPT !.now = now, !.list = list, !.next = next]
          ELSE [d EXCEPT !.now = now, !.list = left,
                         !.next = NextUnblockTime(left, d.wake)]
  BY Zenon DEF TickedOnce
<1>2. /\ d = [now |-> d.now, next |-> d.next, list |-> d.list, wake |-> d.wake]
      /\ d.now \in 0 .. portMAX_DELAY /\ d.next \in 0 .. portMAX_DELAY
      /\ d.list \in [Task -> {"ready", "delayed", "overflow"}]
      /\ d.wake \in [Task -> 0 .. portMAX_DELAY]
  BY DEF DelaysType
<1>3. /\ now \in 0 .. portMAX_DELAY
      /\ now = IF d.now = portMAX_DELAY THEN 0 ELSE d.now + 1
  BY <1>2, LaterIsSum, TicksAreNumbers
<1> HIDE DEF now
<1>4. /\ list \in [Task -> {"ready", "delayed", "overflow"}]
      /\ \A t \in Task : list[t] = IF now = 0 /\ d.list[t] = "overflow"
                                   THEN "delayed" ELSE d.list[t]
  BY <1>2 DEF Switched
<1>5. /\ next \in 0 .. portMAX_DELAY
      /\ \A t \in Task : list[t] = "delayed" => next <= d.wake[t]
  <2>1. CASE now = 0
    BY <2>1, <1>2, <1>4, NextIsFirst
  <2>2. CASE now # 0
    BY <2>2, <1>2, <1>4 DEF InOrder
  <2> QED
    BY <2>1, <2>2
<1> HIDE DEF list, next
<1>6. left \in [Task -> {"ready", "delayed", "overflow"}]
  BY <1>4
<1>7. /\ NextUnblockTime(left, d.wake) \in 0 .. portMAX_DELAY
      /\ \A t \in Task : left[t] = "delayed" =>
                             NextUnblockTime(left, d.wake) <= d.wake[t]
  BY <1>2, <1>6, NextIsFirst
<1> HIDE DEF left
<1>8. /\ e \in DelaysType /\ e.now = now /\ e.wake = d.wake
      /\ e.next = IF now < next THEN next ELSE NextUnblockTime(left, d.wake)
      /\ e.list = IF now < next THEN list ELSE left
  BY <1>1, <1>2, <1>3, <1>4, <1>5, <1>6, <1>7 DEF DelaysType
<1> HIDE DEF e
<1>9. ASSUME NEW t \in Task
      PROVE  /\ e.list[t] = "delayed" => e.now < e.wake[t] /\ e.next <= e.wake[t]
             /\ e.list[t] = "overflow" => e.wake[t] < e.now
             /\ e.list[t] # "ready" => /\ d.list[t] # "ready"
                                       /\ Remaining(e, t) = Remaining(d, t) - 1
  <2>1. left[t] = IF list[t] = "delayed" /\ d.wake[t] <= now THEN "ready" ELSE list[t]
    BY DEF left
  <2>2. /\ list[t] = IF now = 0 /\ d.list[t] = "overflow" THEN "delayed" ELSE d.list[t]
        /\ d.list[t] \in {"ready", "delayed", "overflow"}
        /\ d.wake[t] \in 0 .. portMAX_DELAY
    BY <1>2, <1>4
  <2>3. /\ d.list[t] = "delayed" => d.now < d.wake[t] /\ d.next <= d.wake[t]
        /\ d.list[t] = "overflow" => d.wake[t] < d.now
    BY DEF InOrder
  <2>4. /\ list[t] = "delayed" => next <= d.wake[t]
        /\ left[t] = "delayed" => NextUnblockTime(left, d.wake) <= d.wake[t]
    BY <1>5, <1>7
  <2>5. /\ e.list[t] = IF now < next THEN list[t] ELSE left[t]
        /\ e.wake[t] = d.wake[t]
    BY <1>8
  <2>6. CASE e.list[t] = "ready"
    BY <2>6
  <2>7. CASE e.list[t] = "delayed"
    <3>1. list[t] = "delayed"
      BY <2>1, <2>5, <2>7
    <3>2. e.now < e.wake[t] /\ e.next <= e.wake[t]
      BY <1>3, <1>5, <1>8, <2>1, <2>2, <2>4, <2>5, <2>7, <3>1
    <3>3. d.list[t] = "delayed" \/ (now = 0 /\ d.list[t] = "overflow")
      BY <2>2, <3>1
    <3>4. Remaining(e, t) = d.wake[t] - now
      BY <1>8, <2>5, <2>7 DEF Remaining
    <3>5. Remaining(e, t) = Remaining(d, t) - 1
      <4>1. CASE d.list[t] = "delayed"
        <5>1. now = d.now + 1
          BY <1>2, <1>3, <2>2, <2>3, <4>1
        <5>2. Remaining(d, t) = d.wake[t] - d.now
          BY <4>1 DEF Remaining
        <5> QED
          BY <1>2, <2>2, <3>4, <5>1, <5>2
      <4>2. CASE now = 0 /\ d.list[t] = "overflow"
        <5>1. d.now = portMAX_DELAY
          BY <1>2, <1>3, <4>2
        <5>2. Remaining(d, t) = d.wake[t] + Ticks - d.now
          BY <4>2 DEF Remaining
        <5> QED
          BY <2>2, <3>4, <4>2, <5>1, <5>2, TicksAreNumbers
      <4> QED
        BY <3>3, <4>1, <4>2
    <3> QED
      BY <2>7, <3>2, <3>3, <3>5
  <2>8. CASE e.list[t] = "overflow"
    <3>1. list[t] = "overflow" /\ d.list[t] = "overflow" /\ now # 0
      BY <2>1, <2>2, <2>5, <2>8
    <3>2. now = d.now + 1
      BY <1>3, <3>1
    <3>3. Remaining(e, t) = d.wake[t] + Ticks - now
      BY <1>8, <2>5, <2>8 DEF Remaining
    <3>4. Remaining(d, t) = d.wake[t] + Ticks - d.now
      BY <3>1 DEF Remaining
    <3>5. Remaining(e, t) = Remaining(d, t) - 1
      BY <1>2, <2>2, <3>2, <3>3, <3>4, TicksAreNumbers
    <3>6. e.wake[t] < e.now
      BY <1>2, <1>8, <2>2, <2>3, <2>5, <3>1, <3>2
    <3> QED
      BY <2>8, <3>1, <3>5, <3>6
  <2>9. e.list[t] \in {"ready", "delayed", "overflow"}
    BY <1>8 DEF DelaysType
  <2> QED
    BY <2>6, <2>7, <2>8, <2>9
<1>10. InOrder(e)
  BY <1>9 DEF InOrder
<1> QED
  BY <1>8, <1>9, <1>10 DEF e, now

-----------------------------------------------------------------------------
(* The ticks counted one after the other.                                  *)
LEMMA TickedSteps ==
    ASSUME NEW d, NEW n \in Nat
    PROVE  \E after : /\ after = [i \in 0 .. n |-> IF i = 0 THEN d
                                                 ELSE TickedOnce(after[i - 1])]
                      /\ Ticked(d, n) = after[n]
<1> DEFINE S == {k \in Nat : \E f : f = [i \in 0 .. k |-> IF i = 0 THEN d
                                                 ELSE TickedOnce(f[i - 1])]}
<1>1. 0 \in S
  <2> DEFINE f == [i \in 0 .. 0 |-> d]
  <2>1. f = [i \in 0 .. 0 |-> IF i = 0 THEN d ELSE TickedOnce(f[i - 1])]
    OBVIOUS
  <2> HIDE DEF f
  <2> QED
    BY <2>1
<1>2. ASSUME NEW k \in Nat, k \in S
      PROVE  k + 1 \in S
  <2>1. PICK f : f = [i \in 0 .. k |-> IF i = 0 THEN d
                                         ELSE TickedOnce(f[i - 1])]
    BY <1>2
  <2> DEFINE g == [i \in 0 .. k + 1 |-> IF i = k + 1 THEN TickedOnce(f[k])
                                        ELSE f[i]]
  <2>2. ASSUME NEW i \in 0 .. k + 1
        PROVE  g[i] = IF i = 0 THEN d ELSE TickedOnce(g[i - 1])
    <3>1. CASE i = 0
      BY <2>1, <3>1
    <3>2. CASE i \in 1 .. k
      <4>1. i \in 0 .. k /\ i # k + 1 /\ i # 0 /\ i - 1 \in 0 .. k /\ i - 1 # k + 1
            /\ i - 1 \in 0 .. k + 1
        BY <3>2
      <4>2. g[i] = f[i] /\ g[i - 1] = f[i - 1]
        BY <4>1
      <4>3. f[i] = TickedOnce(f[i - 1])
        BY <2>1, <4>1, Zenon
      <4> QED
        BY <4>1, <4>2, <4>3
    <3>3. CASE i = k + 1
      BY <3>3
    <3> QED
      BY <3>1, <3>2, <3>3
  <2>3. g = [i \in 0 .. k + 1 |-> IF i = 0 THEN d ELSE TickedOnce(g[i - 1])]
    <3>1. g = [i \in 0 .. k + 1 |-> g[i]]
      OBVIOUS
    <3> HIDE DEF g
    <3> QED
      BY <2>2, <3>1, Zenon
  <2> HIDE DEF g
  <2> QED
    BY <2>3
<1>3. n \in S
  <2> HIDE DEF S
  <2> QED
    BY <1>1, <1>2, SetInduction
<1>4. \E f : f = [i \in 0 .. n |-> IF i = 0 THEN d ELSE TickedOnce(f[i - 1])]
  BY <1>3
<1> DEFINE after == CHOOSE f : f = [i \in 0 .. n |-> IF i = 0 THEN d
                                                 ELSE TickedOnce(f[i - 1])]
<1>5. after = [i \in 0 .. n |-> IF i = 0 THEN d ELSE TickedOnce(after[i - 1])]
  BY <1>4, Zenon
<1>6. Ticked(d, n) = after[n]
  BY Zenon DEF Ticked
<1> HIDE DEF after
<1> QED
  BY <1>5, <1>6, Zenon

(* Times add up.                                                           *)
LEMMA LaterAgain ==
    ASSUME NEW y \in Nat, NEW n \in 0 .. portMAX_DELAY
    PROVE  /\ y % Ticks \in 0 .. portMAX_DELAY
           /\ Later(y % Ticks, n) = (y + n) % Ticks
<1> DEFINE q == y \div Ticks
           r == y % Ticks
<1>1. q \in Nat /\ r \in 0 .. (Ticks - 1) /\ y = Ticks * q + r
  BY TicksAreNumbers
<1> HIDE DEF q, r
<1>2. r \in 0 .. portMAX_DELAY
  BY <1>1, TicksAreNumbers
<1>3. Later(r, n) \in 0 .. portMAX_DELAY
      /\ \E k \in {q, q + 1} : y + n = Ticks * k + Later(r, n)
  <2>1. /\ Later(r, n) \in 0 .. portMAX_DELAY
        /\ Later(r, n) = IF r + n <= portMAX_DELAY THEN r + n ELSE r + n - Ticks
    BY <1>2, LaterIsSum
  <2>2. CASE r + n <= portMAX_DELAY
    BY <1>1, <1>2, <2>1, <2>2, TicksAreNumbers
  <2>3. CASE ~(r + n <= portMAX_DELAY)
    <3>1. Ticks * (q + 1) = Ticks * q + Ticks
      BY <1>1, TicksAreNumbers
    <3> QED
      BY <1>1, <1>2, <2>1, <2>3, <3>1, TicksAreNumbers
  <2> QED
    BY <2>1, <2>2, <2>3
<1>4. PICK k \in Nat : y + n = Ticks * k + Later(r, n)
  BY <1>1, <1>3
<1>5. (y + n) % Ticks = Later(r, n)
  <2> DEFINE s == Later(r, n)
  <2>1. s \in 0 .. (Ticks - 1)
    BY <1>3, TicksAreNumbers
  <2> HIDE DEF s
  <2>2. (Ticks * k + s) % Ticks = s
    BY <2>1, <1>4, TicksAreNumbers
  <2> QED
    BY <1>4, <2>2 DEF s
<1> QED
  BY <1>2, <1>5 DEF r

(* A sum of times, one after the other, at whatever time it begins.        *)
LEMMA LaterTwice ==
    ASSUME NEW y \in Nat, NEW n \in Nat
    PROVE  Later(y % Ticks, n) = (y + n) % Ticks
<1> DEFINE q == y \div Ticks
           z == (y % Ticks) + n
           k == z \div Ticks
           r == z % Ticks
<1>1. q \in Nat /\ y % Ticks \in Nat /\ y = Ticks * q + (y % Ticks)
  BY TicksAreNumbers
<1> DEFINE p == Ticks * q
           x == y % Ticks
<1>2. z \in Nat /\ y + n = Ticks * q + z
  <2>1. p \in Nat /\ x \in Nat /\ y = p + x
    BY <1>1, TicksAreNumbers
  <2> HIDE DEF p, q, x
  <2>2. x + n \in Nat /\ y + n = p + (x + n)
    BY <2>1
  <2> QED
    BY <2>2 DEF p, x
<1> HIDE DEF z
<1>3. k \in Nat /\ r \in 0 .. (Ticks - 1) /\ z = Ticks * k + r
  BY <1>2, TicksAreNumbers
<1> HIDE DEF q, k, r
<1>4. y + n = Ticks * (q + k) + r
  BY <1>1, <1>2, <1>3, TicksAreNumbers
<1>5. (Ticks * (q + k) + r) % Ticks = r
  <2> DEFINE m == q + k
  <2>1. m \in Nat
    BY <1>1, <1>3
  <2> HIDE DEF m
  <2>2. (Ticks * m + r) % Ticks = r
    BY <1>3, <2>1, TicksAreNumbers
  <2> QED
    BY <2>2 DEF m
<1> QED
  BY <1>4, <1>5 DEF Later, z, r

(* What is read off the clock after some ticks: as many as have come, if   *)
(* they fit the count, and never more.                                     *)
LEMMA ElapsedTicks ==
    ASSUME NEW x \in 0 .. portMAX_DELAY, NEW n \in Nat
    PROVE  /\ (Later(x, n) - x) % Ticks \in 0 .. portMAX_DELAY
           /\ (Later(x, n) - x) % Ticks <= n
           /\ n < Ticks => (Later(x, n) - x) % Ticks = n
<1> DEFINE y == Later(x, n)
           e == (y - x) % Ticks
<1>1. y \in 0 .. portMAX_DELAY
  BY TicksAreNumbers DEF Later
<1>2. e \in 0 .. portMAX_DELAY
  <2> HIDE DEF y
  <2> QED
    BY <1>1, TicksAreNumbers
<1>3. ASSUME n < Ticks
      PROVE  e = n
  <2>1. y = IF x + n <= portMAX_DELAY THEN x + n ELSE x + n - Ticks
    BY <1>3, LaterIsSum, TicksAreNumbers
  <2> HIDE DEF y
  <2>2. CASE x + n <= portMAX_DELAY
    <3>1. y - x = n
      BY <1>1, <2>1, <2>2, TicksAreNumbers
    <3>2. n % Ticks = n
      BY <1>3, TicksAreNumbers
    <3> QED
      BY <3>1, <3>2
  <2>3. CASE ~(x + n <= portMAX_DELAY)
    <3>1. y - x = n - Ticks
      BY <1>1, <2>1, <2>3, TicksAreNumbers
    <3>2. (n - Ticks) % Ticks = n
      BY <1>3, TicksAreNumbers
    <3> QED
      BY <3>1, <3>2
  <2> QED
    BY <2>2, <2>3
<1> HIDE DEF e
<1>4. e <= n
  BY <1>2, <1>3, TicksAreNumbers
<1> QED
  BY <1>2, <1>3, <1>4 DEF e

(* Ticks counted late: as many ticks less to wait for those still delayed. *)
LEMMA TicksKeepOrder ==
    ASSUME NEW d \in DelaysType, InOrder(d), NEW n \in Nat
    PROVE  /\ Ticked(d, n) \in DelaysType /\ InOrder(Ticked(d, n))
           /\ Ticked(d, n).now = Later(d.now, n)
           /\ \A t \in Task : Ticked(d, n).list[t] # "ready" =>
                  /\ d.list[t] # "ready"
                  /\ Remaining(Ticked(d, n), t) = Remaining(d, t) - n
<1>1. PICK after : /\ after = [i \in 0 .. n |-> IF i = 0 THEN d
                                                ELSE TickedOnce(after[i - 1])]
                   /\ Ticked(d, n) = after[n]
  BY TickedSteps
<1> DEFINE Good(i) == /\ after[i] \in DelaysType /\ InOrder(after[i])
                      /\ after[i].now = (d.now + i) % Ticks
                      /\ \A t \in Task : after[i].list[t] # "ready" =>
                             /\ d.list[t] # "ready"
                             /\ Remaining(after[i], t) = Remaining(d, t) - i
           S == {i \in Nat : i <= n => Good(i)}
<1>2. /\ d.now \in 0 .. portMAX_DELAY
      /\ \A t \in Task : Remaining(d, t) \in Int
  BY TicksAreNumbers DEF DelaysType, Remaining
<1>3. 0 \in S
  <2>1. after[0] = d
    BY <1>1
  <2>2. d.now % Ticks = d.now
    BY <1>2, TicksAreNumbers
  <2>3. (d.now + 0) % Ticks = d.now
    BY <1>2, <2>2
  <2>4. \A t \in Task : Remaining(d, t) = Remaining(d, t) - 0
    BY <1>2
  <2>5. Good(0)
    BY <2>1, <2>3, <2>4
  <2> QED
    BY <2>5
<1>4. ASSUME NEW i \in Nat, i \in S
      PROVE  i + 1 \in S
  <2> SUFFICES ASSUME i + 1 <= n PROVE Good(i + 1)
    OBVIOUS
  <2>1. Good(i)
    BY <1>4
  <2>2. after[i + 1] = TickedOnce(after[i])
    <3>1. i + 1 \in 0 .. n /\ i + 1 # 0 /\ (i + 1) - 1 = i
      OBVIOUS
    <3> QED
      BY <1>1, <3>1, Zenon
  <2> DEFINE b == after[i]
  <2>3. b \in DelaysType /\ InOrder(b)
    BY <2>1
  <2>4. /\ TickedOnce(b) \in DelaysType /\ InOrder(TickedOnce(b))
        /\ TickedOnce(b).now = Later(b.now, 1)
        /\ \A t \in Task : TickedOnce(b).list[t] # "ready" =>
               /\ b.list[t] # "ready"
               /\ Remaining(TickedOnce(b), t) = Remaining(b, t) - 1
    BY <2>3, TickKeepsOrder
  <2>5. TickedOnce(b).now = (d.now + (i + 1)) % Ticks
    <3>1. d.now + i \in Nat /\ 1 \in 0 .. portMAX_DELAY
      BY <1>2, TicksAreNumbers
    <3>2. Later((d.now + i) % Ticks, 1) = ((d.now + i) + 1) % Ticks
      BY <3>1, LaterAgain
    <3>3. (d.now + i) + 1 = d.now + (i + 1)
      BY <1>2
    <3> QED
      BY <2>1, <2>4, <3>2, <3>3
  <2>6. ASSUME NEW t \in Task, TickedOnce(b).list[t] # "ready"
        PROVE  /\ d.list[t] # "ready"
               /\ Remaining(TickedOnce(b), t) = Remaining(d, t) - (i + 1)
    <3>1. /\ b.list[t] # "ready" /\ Remaining(TickedOnce(b), t) = Remaining(b, t) - 1
      BY <2>4, <2>6
    <3>2. d.list[t] # "ready" /\ Remaining(b, t) = Remaining(d, t) - i
      BY <2>1, <3>1
    <3>3. Remaining(d, t) \in Int
      BY <1>2
    <3> QED
      BY <3>1, <3>2, <3>3
  <2> QED
    BY <2>2, <2>4, <2>5, <2>6
<1>5. n \in S
  <2> HIDE DEF S
  <2> QED
    BY <1>3, <1>4, SetInduction
<1>6. Good(n)
  BY <1>5
<1> QED
  BY <1>1, <1>6 DEF Later

-----------------------------------------------------------------------------
(* Waking tasks, or looking for the next wake-up again, keeps the order.   *)
LEMMA WakingKeepsOrder ==
    ASSUME NEW d \in DelaysType, InOrder(d), NEW e \in DelaysType, e.now = d.now,
           \A t \in Task : e.list[t] # "ready" =>
               e.list[t] = d.list[t] /\ e.wake[t] = d.wake[t],
           \A t \in Task : e.list[t] = "delayed" => e.next <= e.wake[t]
    PROVE  /\ InOrder(e)
           /\ \A t \in Task : e.list[t] # "ready" =>
                  d.list[t] # "ready" /\ Remaining(e, t) = Remaining(d, t)
<1>1. InOrder(e)
  BY DEF InOrder
<1>2. \A t \in Task : e.list[t] # "ready" =>
          d.list[t] # "ready" /\ Remaining(e, t) = Remaining(d, t)
  BY DEF Remaining
<1> QED
  BY <1>1, <1>2

(* A task that goes to sleep is in one of the lists for as many ticks as   *)
(* it asked for.                                                           *)
LEMMA DelayingKeepsOrder ==
    ASSUME NEW d \in DelaysType, InOrder(d), NEW t \in Task,
           NEW n \in 1 .. portMAX_DELAY
    PROVE  LET e == DelayedBy(d, t, n)
           IN  /\ e \in DelaysType /\ InOrder(e) /\ e.now = d.now
               /\ e.list[t] # "ready" /\ Remaining(e, t) = n
               /\ \A u \in Task \ {t} :
                      e.list[u] = d.list[u] /\ Remaining(e, u) = Remaining(d, u)
<1> DEFINE wake == Later(d.now, n)
           e == DelayedBy(d, t, n)
<1>1. /\ d.now \in 0 .. portMAX_DELAY /\ d.next \in 0 .. portMAX_DELAY
      /\ d.list \in [Task -> {"ready", "delayed", "overflow"}]
      /\ d.wake \in [Task -> 0 .. portMAX_DELAY]
      /\ d = [now |-> d.now, next |-> d.next, list |-> d.list, wake |-> d.wake]
  BY DEF DelaysType
<1>2. /\ wake \in 0 .. portMAX_DELAY
      /\ wake = IF d.now + n <= portMAX_DELAY THEN d.now + n ELSE d.now + n - Ticks
  BY <1>1, LaterIsSum, TicksAreNumbers
<1>3. wake # d.now
  BY <1>1, <1>2, TicksAreNumbers
<1>4. e = IF wake < d.now
          THEN [d EXCEPT !.wake[t] = wake, !.list[t] = "overflow"]
          ELSE [d EXCEPT !.wake[t] = wake, !.list[t] = "delayed",
                         !.next = Min({d.next, wake})]
  BY Zenon DEF DelayedBy
<1>5. /\ Min({d.next, wake}) \in 0 .. portMAX_DELAY
      /\ Min({d.next, wake}) <= d.next /\ Min({d.next, wake}) <= wake
  <2> HIDE DEF wake
  <2>1. {d.next, wake} \subseteq Nat /\ {d.next, wake} # {}
    BY <1>1, <1>2
  <2>2. /\ Min({d.next, wake}) \in {d.next, wake}
        /\ \A y \in {d.next, wake} : Min({d.next, wake}) <= y
    BY ONLY <2>1, MinOfNumbers, Zenon
  <2> QED
    BY <1>1, <1>2, <2>2
<1> DEFINE first == Min({d.next, wake})
<1> HIDE DEF wake, first
<1>6. /\ first \in 0 .. portMAX_DELAY /\ first <= d.next /\ first <= wake
  BY <1>5 DEF first
<1>7. /\ e \in DelaysType /\ e.now = d.now
      /\ e.next = IF wake < d.now THEN d.next ELSE first
      /\ e.list = [d.list EXCEPT ![t] = IF wake < d.now THEN "overflow" ELSE "delayed"]
      /\ e.wake = [d.wake EXCEPT ![t] = wake]
  <2>1. CASE wake < d.now
    <3>1. e = [d EXCEPT !.wake[t] = wake, !.list[t] = "overflow"]
      BY <1>4, <2>1
    <3> HIDE DEF e
    <3> QED
      BY <1>1, <1>2, <2>1, <3>1 DEF DelaysType
  <2>2. CASE ~(wake < d.now)
    <3>1. e = [d EXCEPT !.wake[t] = wake, !.list[t] = "delayed", !.next = first]
      BY <1>4, <2>2 DEF first
    <3> HIDE DEF e
    <3> QED
      BY <1>1, <1>2, <1>6, <2>2, <3>1 DEF DelaysType
  <2> QED
    BY <2>1, <2>2
<1> HIDE DEF e
<1>8. ASSUME NEW u \in Task \ {t}
      PROVE  e.list[u] = d.list[u] /\ e.wake[u] = d.wake[u]
             /\ Remaining(e, u) = Remaining(d, u)
  <2>1. e.list[u] = d.list[u] /\ e.wake[u] = d.wake[u]
    BY <1>1, <1>7
  <2> QED
    BY <1>7, <2>1 DEF Remaining
<1>9. /\ e.list[t] = IF wake < d.now THEN "overflow" ELSE "delayed"
      /\ e.wake[t] = wake
  BY <1>1, <1>7
<1>10. Remaining(e, t) = n
  <2>1. CASE wake < d.now
    <3>1. Remaining(e, t) = wake + Ticks - d.now
      BY <1>7, <1>9, <2>1 DEF Remaining
    <3> QED
      BY <1>1, <1>2, <2>1, <3>1, TicksAreNumbers
  <2>2. CASE ~(wake < d.now)
    <3>1. Remaining(e, t) = wake - d.now
      BY <1>7, <1>9, <2>2 DEF Remaining
    <3> QED
      BY <1>1, <1>2, <2>2, <3>1, TicksAreNumbers
  <2> QED
    BY <2>1, <2>2
<1>11. InOrder(e)
  <2>1. ASSUME NEW u \in Task, u # t
        PROVE  /\ e.list[u] = "delayed" => e.now < e.wake[u] /\ e.next <= e.wake[u]
               /\ e.list[u] = "overflow" => e.wake[u] < e.now
    <3>1. e.list[u] = d.list[u] /\ e.wake[u] = d.wake[u]
      BY <1>8, <2>1
    <3>2. e.next <= d.next /\ e.next \in Nat /\ d.wake[u] \in Nat
      BY <1>1, <1>6, <1>7
    <3> QED
      BY <1>1, <1>7, <3>1, <3>2 DEF InOrder
  <2>2. /\ e.list[t] = "delayed" => e.now < e.wake[t] /\ e.next <= e.wake[t]
        /\ e.list[t] = "overflow" => e.wake[t] < e.now
    BY <1>1, <1>2, <1>3, <1>6, <1>7, <1>9
  <2> QED
    BY <2>1, <2>2 DEF InOrder
<1> QED
  BY <1>7, <1>8, <1>9, <1>10, <1>11 DEF e

-----------------------------------------------------------------------------
(* The scheduler is suspended by the task that goes to sleep, and by no    *)
(* other; only then are ticks and wake-ups put off.                        *)
SuspenderPart ==
    /\ \A t \in Task : step[t] \in {"mark", "block", "resume"} <=> suspender = t
    /\ suspender = Nobody => pended = 0 /\ pendingReady = {}

(* A task sleeps nowhere else, and for one tick at least.                  *)
Asleep(t) == delays.list[t] # "ready"

SleeperPart ==
    \A t \in Task : /\ Asleep(t) => step[t] \in {"resume", "collect"}
                    /\ step[t] \in {"mark", "block"} => ticks[t] > 0

(* A task that sleeps, or is about to, can be given notice, or has been    *)
(* and is about to be woken.                                               *)
Expects(t) == IF value[t] = 0 THEN state[t] = "waiting" ELSE t \in pendingReady

NoticePart == \A t \in Task : step[t] = "block" \/ Asleep(t) => Expects(t)

NotifyInvariant == /\ NotifyTypeOK /\ InOrder(delays)
                   /\ SuspenderPart /\ SleeperPart /\ NoticePart

(* Over a step: those still asleep slept before, for k ticks more.         *)
Sleeps(k) == \A t \in Task : delays'.list[t] # "ready" =>
                 /\ Asleep(t)
                 /\ Remaining(delays', t) = Remaining(delays, t) - k

(* What the conjuncts of the invariant say of types.                       *)
LEMMA NotifyTypes ==
    ASSUME NotifyInvariant
    PROVE  /\ delays \in DelaysType /\ InOrder(delays)
           /\ delays = [now |-> delays.now, next |-> delays.next,
                        list |-> delays.list, wake |-> delays.wake]
           /\ delays.now \in 0 .. portMAX_DELAY
           /\ delays.next \in 0 .. portMAX_DELAY
           /\ delays.list \in [Task -> {"ready", "delayed", "overflow"}]
           /\ delays.wake \in [Task -> 0 .. portMAX_DELAY]
           /\ \A t \in Task : Remaining(delays, t) \in Int
           /\ \A t \in Task : Asleep(t) => Remaining(delays, t) > 0
<1>1. delays \in DelaysType /\ InOrder(delays)
  BY DEF NotifyInvariant, NotifyTypeOK, DelaysType
<1>2. /\ delays = [now |-> delays.now, next |-> delays.next,
                   list |-> delays.list, wake |-> delays.wake]
      /\ delays.now \in 0 .. portMAX_DELAY
      /\ delays.next \in 0 .. portMAX_DELAY
      /\ delays.list \in [Task -> {"ready", "delayed", "overflow"}]
      /\ delays.wake \in [Task -> 0 .. portMAX_DELAY]
  BY <1>1 DEF DelaysType
<1>3. ASSUME NEW t \in Task
      PROVE  /\ Remaining(delays, t) \in Int
             /\ Asleep(t) => Remaining(delays, t) > 0
  <2>1. /\ delays.wake[t] \in 0 .. portMAX_DELAY
        /\ delays.list[t] \in {"ready", "delayed", "overflow"}
    BY <1>2
  <2>2. delays.list[t] = "delayed" => delays.now < delays.wake[t]
    BY <1>1 DEF InOrder
  <2> QED
    BY <1>2, <2>1, <2>2, TicksAreNumbers DEF Remaining, Asleep
<1> QED
  BY <1>1, <1>2, <1>3

(* The other parts when the delayed lists stay as they are.                *)
LEMMA SameDelays ==
    ASSUME NotifyInvariant, UNCHANGED delays
    PROVE  InOrder(delays)' /\ Sleeps(0)
<1>1. \A t \in Task : Remaining(delays, t) = Remaining(delays, t) - 0
  BY NotifyTypes
<1> QED
  BY <1>1 DEF NotifyInvariant, InOrder, Sleeps, Asleep, Remaining

(* A tick interrupt.                                                       *)
LEMMA TickKeeps ==
    ASSUME NotifyInvariant, TickInterrupt
    PROVE  /\ NotifyInvariant'
           /\ suspender = Nobody =>
                  Sleeps(1) /\ delays'.now = Later(delays.now, 1) /\ pended' = pended
           /\ suspender # Nobody => UNCHANGED delays /\ pended' = pended + 1
           /\ UNCHANGED <<step, ticks, suspender>>
<1>1. /\ UNCHANGED <<suspender, pendingReady, value, state, step, ticks, halted>>
      /\ suspender = Nobody => delays' = TickedOnce(delays) /\ pended' = pended
      /\ suspender # Nobody => pended' = pended + 1 /\ delays' = delays
  BY DEF TickInterrupt
<1>2. delays \in DelaysType /\ InOrder(delays)
  BY NotifyTypes
<1>3. /\ delays' \in DelaysType /\ InOrder(delays')
      /\ suspender = Nobody => Sleeps(1) /\ delays'.now = Later(delays.now, 1)
      /\ \A t \in Task : delays'.list[t] # "ready" => Asleep(t)
  <2>1. CASE suspender = Nobody
    <3>1. /\ TickedOnce(delays) \in DelaysType /\ InOrder(TickedOnce(delays))
          /\ TickedOnce(delays).now = Later(delays.now, 1)
          /\ \A t \in Task : TickedOnce(delays).list[t] # "ready" =>
                 /\ delays.list[t] # "ready"
                 /\ Remaining(TickedOnce(delays), t) = Remaining(delays, t) - 1
      BY <1>2, TickKeepsOrder
    <3>2. delays' = TickedOnce(delays)
      BY <1>1, <2>1
    <3> QED
      BY <2>1, <3>1, <3>2 DEF Sleeps, Asleep
  <2>2. CASE suspender # Nobody
    BY <1>1, <1>2, <2>2 DEF Asleep
  <2> QED
    BY <2>1, <2>2
<1>4. pended' \in Nat
  BY <1>1 DEF NotifyInvariant, NotifyTypeOK
<1>5. NotifyTypeOK'
  BY <1>1, <1>3, <1>4 DEF NotifyInvariant, NotifyTypeOK, DelaysType
<1>6. SuspenderPart'
  BY <1>1 DEF NotifyInvariant, SuspenderPart
<1>7. SleeperPart' /\ NoticePart'
  BY <1>1, <1>3 DEF NotifyInvariant, SleeperPart, NoticePart, Asleep, Expects
<1> QED
  BY <1>1, <1>3, <1>5, <1>6, <1>7 DEF NotifyInvariant, InOrder

(* A task calls ulTaskNotifyTake.                                          *)
LEMMA WaitKeeps ==
    ASSUME NotifyInvariant, NEW t \in Task, step[t] = "out",
           NEW n \in 1 .. portMAX_DELAY, WaitForNotice(t, n)
    PROVE  NotifyInvariant'
<1>1. /\ step' = [step EXCEPT ![t] = "test"] /\ ticks' = [ticks EXCEPT ![t] = n]
      /\ UNCHANGED <<delays, suspender, pended, pendingReady, value, state, halted>>
  BY DEF WaitForNotice, Goto
<1>2. /\ step \in [Task -> {"out", "test", "mark", "block", "resume", "collect"}]
      /\ ticks \in [Task -> 0 .. portMAX_DELAY]
  BY DEF NotifyInvariant, NotifyTypeOK
<1>3. ticks' \in [Task -> 0 .. portMAX_DELAY]
  BY <1>1, <1>2
<1>4. NotifyTypeOK'
  BY <1>1, <1>2, <1>3 DEF NotifyInvariant, NotifyTypeOK
<1>5. SuspenderPart'
  BY <1>1, <1>2 DEF NotifyInvariant, SuspenderPart
<1>6. SleeperPart' /\ NoticePart'
  BY <1>1, <1>2 DEF NotifyInvariant, SleeperPart, NoticePart, Asleep, Expects
<1> QED
  BY <1>1, <1>4, <1>5, <1>6, SameDelays DEF NotifyInvariant

(* The steps of ulTaskNotifyTake before the task is delayed.               *)
LEMMA TestKeeps ==
    ASSUME NotifyInvariant, NEW t \in Task, NotifyTest(t)
    PROVE  NotifyInvariant'
<1>1. /\ step[t] = "test" /\ delays.list[t] = "ready" /\ suspender = Nobody
      /\ UNCHANGED <<delays, pended, pendingReady, value, state, ticks, halted>>
      /\ \/ /\ value[t] = 0 /\ ticks[t] > 0
            /\ suspender' = t /\ step' = [step EXCEPT ![t] = "mark"]
         \/ /\ suspender' = suspender /\ step' = [step EXCEPT ![t] = "collect"]
  BY DEF NotifyTest, At, Goto, Ready
<1>2. /\ step \in [Task -> {"out", "test", "mark", "block", "resume", "collect"}]
      /\ t # Nobody
  BY TaskNotifyAssumption DEF NotifyInvariant, NotifyTypeOK, TaskNotifyAssumption
<1>3. NotifyTypeOK'
  BY <1>1, <1>2 DEF NotifyInvariant, NotifyTypeOK
<1>4. SuspenderPart'
  <2>1. \A u \in Task : step[u] \notin {"mark", "block", "resume"}
    BY <1>1, <1>2, TaskNotifyAssumption
    DEF NotifyInvariant, SuspenderPart, TaskNotifyAssumption
  <2>2. pended = 0 /\ pendingReady = {}
    BY <1>1 DEF NotifyInvariant, SuspenderPart
  <2>3. CASE suspender' = t /\ step' = [step EXCEPT ![t] = "mark"]
    BY <1>1, <1>2, <2>1, <2>3 DEF SuspenderPart
  <2>4. CASE suspender' = suspender /\ step' = [step EXCEPT ![t] = "collect"]
    BY <1>1, <1>2, <2>1, <2>2, <2>4, TaskNotifyAssumption
    DEF SuspenderPart, TaskNotifyAssumption
  <2> QED
    BY <1>1, <2>3, <2>4
<1>5. SleeperPart' /\ NoticePart'
  BY <1>1, <1>2 DEF NotifyInvariant, SleeperPart, NoticePart, Asleep, Expects
<1> QED
  BY <1>1, <1>3, <1>4, <1>5, SameDelays DEF NotifyInvariant

(* ... marked as waiting, ...                                              *)
LEMMA MarkKeeps ==
    ASSUME NotifyInvariant, NEW t \in Task, NotifyMark(t)
    PROVE  NotifyInvariant'
<1>1. /\ step[t] = "mark" /\ delays.list[t] = "ready"
      /\ UNCHANGED <<delays, suspender, pended, pendingReady, value, ticks, halted>>
      /\ \/ /\ value[t] = 0 /\ state' = [state EXCEPT ![t] = "waiting"]
            /\ step' = [step EXCEPT ![t] = "block"]
         \/ /\ state' = state /\ step' = [step EXCEPT ![t] = "resume"]
  BY DEF NotifyMark, At, Goto, Ready
<1>2. /\ step \in [Task -> {"out", "test", "mark", "block", "resume", "collect"}]
      /\ state \in [Task -> {"not_waiting", "waiting", "received"}]
  BY DEF NotifyInvariant, NotifyTypeOK
<1>3. NotifyTypeOK'
  BY <1>1, <1>2 DEF NotifyInvariant, NotifyTypeOK
<1>4. SuspenderPart'
  BY <1>1, <1>2 DEF NotifyInvariant, SuspenderPart
<1>5. SleeperPart' /\ NoticePart'
  BY <1>1, <1>2 DEF NotifyInvariant, SleeperPart, NoticePart, Asleep, Expects
<1> QED
  BY <1>1, <1>3, <1>4, <1>5, SameDelays DEF NotifyInvariant

(* ... and delayed.                                                        *)
LEMMA BlockKeeps ==
    ASSUME NotifyInvariant, NEW t \in Task, NotifyBlock(t)
    PROVE  /\ NotifyInvariant'
           /\ step[t] = "block" /\ delays'.now = delays.now
           /\ delays'.list[t] # "ready" /\ Remaining(delays', t) = ticks[t]
           /\ \A u \in Task \ {t} : /\ delays'.list[u] = delays.list[u]
                                    /\ Remaining(delays', u) = Remaining(delays, u)
<1>1. /\ step[t] = "block" /\ delays.list[t] = "ready"
      /\ delays' = DelayedBy(delays, t, ticks[t])
      /\ step' = [step EXCEPT ![t] = "resume"]
      /\ UNCHANGED <<suspender, pended, pendingReady, value, state, ticks, halted>>
  BY DEF NotifyBlock, At, Goto, Ready
<1>2. /\ step \in [Task -> {"out", "test", "mark", "block", "resume", "collect"}]
      /\ ticks[t] \in 1 .. portMAX_DELAY
  BY <1>1 DEF NotifyInvariant, NotifyTypeOK, SleeperPart
<1>3. /\ delays' \in DelaysType /\ InOrder(delays') /\ delays'.now = delays.now
      /\ delays'.list[t] # "ready" /\ Remaining(delays', t) = ticks[t]
      /\ \A u \in Task \ {t} : /\ delays'.list[u] = delays.list[u]
                               /\ Remaining(delays', u) = Remaining(delays, u)
  <2>1. delays \in DelaysType /\ InOrder(delays)
    BY NotifyTypes
  <2> QED
    BY <1>1, <1>2, <2>1, DelayingKeepsOrder
<1>4. NotifyTypeOK'
  BY <1>1, <1>2, <1>3 DEF NotifyInvariant, NotifyTypeOK, DelaysType
<1>5. SuspenderPart'
  BY <1>1, <1>2 DEF NotifyInvariant, SuspenderPart
<1>6. SleeperPart' /\ NoticePart'
  BY <1>1, <1>2, <1>3 DEF NotifyInvariant, SleeperPart, NoticePart, Asleep, Expects
<1> QED
  BY <1>1, <1>3, <1>4, <1>5, <1>6 DEF NotifyInvariant, InOrder

(* The scheduler is resumed: those who were given notice are awake, and    *)
(* the ticks that were put off are counted.                                *)
LEMMA ResumeKeeps ==
    ASSUME NotifyInvariant, NEW t \in Task, xTaskResumeAll(t)
    PROVE  /\ NotifyInvariant' /\ Sleeps(pended) /\ step[t] = "resume"
           /\ delays'.now = Later(delays.now, pended) /\ pended' = 0
<1> DEFINE list == [u \in Task |-> IF u \in pendingReady THEN "ready"
                                                        ELSE delays.list[u]]
           next == IF pendingReady = {} THEN delays.next
                                        ELSE NextUnblockTime(list, delays.wake)
           d    == [delays EXCEPT !.list = list, !.next = next]
<1>1. /\ step[t] = "resume" /\ suspender = t /\ suspender' = Nobody
      /\ pendingReady' = {} /\ pended' = 0
      /\ delays' = Ticked(d, pended)
      /\ step' = [step EXCEPT ![t] = "collect"]
      /\ UNCHANGED <<value, state, ticks, halted>>
  BY DEF xTaskResumeAll, Goto
<1>2. /\ step \in [Task -> {"out", "test", "mark", "block", "resume", "collect"}]
      /\ pended \in Nat
      /\ t # Nobody
  BY TaskNotifyAssumption DEF NotifyInvariant, NotifyTypeOK, TaskNotifyAssumption
<1>3. /\ delays \in DelaysType /\ InOrder(delays)
      /\ delays = [now |-> delays.now, next |-> delays.next,
                   list |-> delays.list, wake |-> delays.wake]
      /\ delays.now \in 0 .. portMAX_DELAY
      /\ delays.next \in 0 .. portMAX_DELAY
      /\ delays.list \in [Task -> {"ready", "delayed", "overflow"}]
      /\ delays.wake \in [Task -> 0 .. portMAX_DELAY]
      /\ \A u \in Task : Remaining(delays, u) \in Int
  BY NotifyTypes
<1>4. list \in [Task -> {"ready", "delayed", "overflow"}]
  BY <1>3
<1>5. /\ NextUnblockTime(list, delays.wake) \in 0 .. portMAX_DELAY
      /\ \A u \in Task : list[u] = "delayed" =>
             NextUnblockTime(list, delays.wake) <= delays.wake[u]
  <2> HIDE DEF list
  <2> QED
    BY <1>3, <1>4, NextIsFirst
<1>6. /\ next \in 0 .. portMAX_DELAY
      /\ \A u \in Task : list[u] = "delayed" => next <= delays.wake[u]
  <2>1. CASE pendingReady = {}
    BY <1>3, <2>1 DEF InOrder
  <2>2. CASE pendingReady # {}
    BY <1>5, <2>2
  <2> QED
    BY <2>1, <2>2
<1>7. /\ d \in DelaysType /\ d.now = delays.now /\ d.wake = delays.wake
      /\ d.list = list /\ d.next = next
  <2> HIDE DEF list, next
  <2> QED
    BY <1>3, <1>4, <1>6 DEF DelaysType
<1>8. \A u \in Task : list[u] # "ready" =>
          u \notin pendingReady /\ list[u] = delays.list[u]
  OBVIOUS
<1> HIDE DEF list, next, d
<1>9. /\ InOrder(d)
      /\ \A u \in Task : d.list[u] # "ready" =>
             delays.list[u] # "ready" /\ Remaining(d, u) = Remaining(delays, u)
  BY <1>3, <1>6, <1>7, <1>8, WakingKeepsOrder
<1>10. /\ Ticked(d, pended) \in DelaysType /\ InOrder(Ticked(d, pended))
       /\ Ticked(d, pended).now = Later(d.now, pended)
       /\ \A u \in Task : Ticked(d, pended).list[u] # "ready" =>
              /\ d.list[u] # "ready"
              /\ Remaining(Ticked(d, pended), u) = Remaining(d, u) - pended
  BY <1>2, <1>7, <1>9, TicksKeepOrder
<1>11. /\ delays' \in DelaysType /\ InOrder(delays')
       /\ delays'.now = Later(delays.now, pended)
       /\ Sleeps(pended)
       /\ \A u \in Task : delays'.list[u] # "ready" =>
              Asleep(u) /\ u \notin pendingReady
  BY <1>1, <1>7, <1>8, <1>9, <1>10 DEF Sleeps, Asleep
<1>12. NotifyTypeOK'
  BY <1>1, <1>2, <1>11 DEF NotifyInvariant, NotifyTypeOK, DelaysType
<1>13. SuspenderPart'
  <2>1. ASSUME NEW u \in Task
        PROVE  step'[u] \notin {"mark", "block", "resume"} /\ u # Nobody
    <3>1. CASE u = t
      BY <1>1, <1>2, <3>1
    <3>2. CASE u # t
      <4>1. step'[u] = step[u] /\ suspender # u
        BY <1>1, <1>2, <3>2
      <4> QED
        BY <4>1, TaskNotifyAssumption
        DEF NotifyInvariant, SuspenderPart, TaskNotifyAssumption
    <3> QED
      BY <3>1, <3>2
  <2> QED
    BY <1>1, <2>1 DEF SuspenderPart
<1>14. SleeperPart' /\ NoticePart'
  <2>1. ASSUME NEW u \in Task, delays'.list[u] # "ready"
        PROVE  step'[u] \in {"resume", "collect"} /\ Expects(u)'
    BY <1>1, <1>2, <1>11, <2>1 DEF NotifyInvariant, SleeperPart, NoticePart, Expects
  <2>2. ASSUME NEW u \in Task, step'[u] \in {"mark", "block"}
        PROVE  FALSE
    BY <1>1, <1>2, <2>2 DEF NotifyInvariant, SuspenderPart
  <2> QED
    BY <2>1, <2>2 DEF SleeperPart, NoticePart, Asleep
<1> QED
  BY <1>1, <1>11, <1>12, <1>13, <1>14 DEF NotifyInvariant, InOrder

(* The task runs again.                                                    *)
LEMMA CollectKeeps ==
    ASSUME NotifyInvariant, NEW t \in Task, NotifyCollect(t)
    PROVE  /\ NotifyInvariant' /\ Sleeps(0) /\ delays'.now = delays.now
           /\ step[t] = "collect" /\ suspender = Nobody
<1>1. /\ step[t] = "collect" /\ delays.list[t] = "ready" /\ suspender = Nobody
      /\ value' = [value EXCEPT ![t] = 0]
      /\ state' = [state EXCEPT ![t] = "not_waiting"]
      /\ ticks' = [ticks EXCEPT ![t] = 0]
      /\ delays' = [delays EXCEPT !.wake[t] = 0]
      /\ step' = [step EXCEPT ![t] = "out"]
      /\ UNCHANGED <<suspender, pended, pendingReady, halted>>
  BY DEF NotifyCollect, At, Goto, Ready
<1>2. /\ step \in [Task -> {"out", "test", "mark", "block", "resume", "collect"}]
      /\ ticks \in [Task -> 0 .. portMAX_DELAY]
      /\ value \in [Task -> Nat]
      /\ state \in [Task -> {"not_waiting", "waiting", "received"}]
      /\ t # Nobody
  BY TaskNotifyAssumption DEF NotifyInvariant, NotifyTypeOK, TaskNotifyAssumption
<1>3. /\ delays \in DelaysType /\ InOrder(delays)
      /\ delays = [now |-> delays.now, next |-> delays.next,
                   list |-> delays.list, wake |-> delays.wake]
      /\ delays.now \in 0 .. portMAX_DELAY
      /\ delays.next \in 0 .. portMAX_DELAY
      /\ delays.list \in [Task -> {"ready", "delayed", "overflow"}]
      /\ delays.wake \in [Task -> 0 .. portMAX_DELAY]
      /\ \A u \in Task : Remaining(delays, u) \in Int
  BY NotifyTypes
<1>4. /\ delays' \in DelaysType /\ delays'.now = delays.now
      /\ delays'.next = delays.next /\ delays'.list = delays.list
      /\ delays'.wake = [delays.wake EXCEPT ![t] = 0]
  BY <1>1, <1>3, TicksAreNumbers DEF DelaysType
<1>5. /\ \A u \in Task : delays'.list[u] # "ready" =>
             delays'.list[u] = delays.list[u] /\ delays'.wake[u] = delays.wake[u]
      /\ \A u \in Task : delays'.list[u] = "delayed" => delays'.next <= delays'.wake[u]
  BY <1>1, <1>3, <1>4 DEF InOrder
<1>6. /\ InOrder(delays')
      /\ \A u \in Task : delays'.list[u] # "ready" =>
             delays.list[u] # "ready" /\ Remaining(delays', u) = Remaining(delays, u)
  BY <1>3, <1>4, <1>5, WakingKeepsOrder
<1>7. Sleeps(0)
  BY <1>3, <1>6 DEF Sleeps, Asleep
<1>8. NotifyTypeOK'
  <2>1. /\ ticks' \in [Task -> 0 .. portMAX_DELAY] /\ value' \in [Task -> Nat]
    BY <1>1, <1>2, TicksAreNumbers
  <2> QED
    BY <1>1, <1>2, <1>4, <2>1 DEF NotifyInvariant, NotifyTypeOK, DelaysType
<1>9. SuspenderPart'
  BY <1>1, <1>2 DEF NotifyInvariant, SuspenderPart
<1>10. SleeperPart' /\ NoticePart'
  <2>1. ASSUME NEW u \in Task, u # t
        PROVE  /\ delays'.list[u] # "ready" => step'[u] \in {"resume", "collect"}
               /\ step'[u] \in {"mark", "block"} => ticks'[u] > 0
               /\ step'[u] = "block" \/ delays'.list[u] # "ready" => Expects(u)'
    <3>1. /\ delays'.list[u] = delays.list[u] /\ step'[u] = step[u]
          /\ ticks'[u] = ticks[u] /\ value'[u] = value[u] /\ state'[u] = state[u]
      BY <1>1, <1>2, <1>4, <2>1
    <3> QED
      BY <1>1, <3>1 DEF NotifyInvariant, SleeperPart, NoticePart, Asleep, Expects
  <2>2. delays'.list[t] = "ready" /\ step'[t] = "out"
    BY <1>1, <1>2, <1>4
  <2> QED
    BY <2>1, <2>2 DEF SleeperPart, NoticePart, Asleep
<1> QED
  BY <1>1, <1>4, <1>6, <1>7, <1>8, <1>9, <1>10 DEF NotifyInvariant, InOrder

(* A notice from an interrupt.                                             *)
LEMMA GiveKeeps ==
    ASSUME NotifyInvariant, NEW t \in Task, NotifyGiveFromISR(t),
           UNCHANGED <<suspender, pended, step, ticks>>
    PROVE  /\ NotifyInvariant' /\ Sleeps(0) /\ delays'.now = delays.now
           /\ ~GiveFromISRHalts => value' = [value EXCEPT ![t] = @ + 1]
<1>1. CASE GiveFromISRHalts
  <2>1. halted' = TRUE /\ UNCHANGED <<delays, pendingReady, value, state>>
    BY <1>1 DEF NotifyGiveFromISR
  <2>2. NotifyTypeOK'
    BY <2>1 DEF NotifyInvariant, NotifyTypeOK
  <2>3. SuspenderPart' /\ SleeperPart' /\ NoticePart'
    BY <2>1 DEF NotifyInvariant, SuspenderPart, SleeperPart, NoticePart, Asleep, Expects
  <2> QED
    BY <1>1, <2>1, <2>2, <2>3, SameDelays DEF NotifyInvariant
<1>2. CASE ~GiveFromISRHalts
  <2>1. /\ value' = [value EXCEPT ![t] = @ + 1]
        /\ state' = [state EXCEPT ![t] = "received"]
        /\ delays' = IF state[t] = "waiting" /\ suspender = Nobody
                     THEN [delays EXCEPT !.list[t] = "ready"] ELSE delays
        /\ pendingReady' = IF state[t] = "waiting" /\ suspender # Nobody
                           THEN pendingReady \cup {t} ELSE pendingReady
        /\ UNCHANGED halted
    BY <1>2 DEF NotifyGiveFromISR
  <2>2. /\ value \in [Task -> Nat]
        /\ state \in [Task -> {"not_waiting", "waiting", "received"}]
        /\ pendingReady \subseteq Task
    BY DEF NotifyInvariant, NotifyTypeOK
  <2>3. /\ delays \in DelaysType /\ InOrder(delays)
        /\ delays = [now |-> delays.now, next |-> delays.next,
                     list |-> delays.list, wake |-> delays.wake]
        /\ delays.now \in 0 .. portMAX_DELAY
        /\ delays.next \in 0 .. portMAX_DELAY
        /\ delays.list \in [Task -> {"ready", "delayed", "overflow"}]
        /\ delays.wake \in [Task -> 0 .. portMAX_DELAY]
        /\ \A u \in Task : Remaining(delays, u) \in Int
    BY NotifyTypes
  <2>4. /\ delays' \in DelaysType /\ delays'.now = delays.now
        /\ delays'.next = delays.next /\ delays'.wake = delays.wake
        /\ delays'.list = IF state[t] = "waiting" /\ suspender = Nobody
                          THEN [delays.list EXCEPT ![t] = "ready"] ELSE delays.list
    BY <2>1, <2>3 DEF DelaysType
  <2>5. /\ \A u \in Task : delays'.list[u] # "ready" =>
               delays'.list[u] = delays.list[u] /\ delays'.wake[u] = delays.wake[u]
        /\ \A u \in Task : delays'.list[u] = "delayed" => delays'.next <= delays'.wake[u]
    BY <2>3, <2>4 DEF InOrder
  <2>6. /\ InOrder(delays')
        /\ \A u \in Task : delays'.list[u] # "ready" =>
               delays.list[u] # "ready" /\ Remaining(delays', u) = Remaining(delays, u)
    BY <2>3, <2>4, <2>5, WakingKeepsOrder
  <2>7. Sleeps(0)
    BY <2>3, <2>6 DEF Sleeps, Asleep
  <2>8. NotifyTypeOK'
    BY <2>1, <2>2, <2>4 DEF NotifyInvariant, NotifyTypeOK, DelaysType
  <2>9. SuspenderPart'
    BY <2>1 DEF NotifyInvariant, SuspenderPart
  <2>10. SleeperPart'
    BY <2>6 DEF NotifyInvariant, SleeperPart, Asleep
  <2>11. NoticePart'
    <3>1. ASSUME NEW u \in Task, u # t, step'[u] = "block" \/ delays'.list[u] # "ready"
          PROVE  Expects(u)'
      <4>1. value'[u] = value[u] /\ state'[u] = state[u]
        BY <2>1, <2>2, <3>1
      <4>2. Expects(u)
        BY <2>6, <3>1 DEF NotifyInvariant, NoticePart, Asleep
      <4>3. u \in pendingReady => u \in pendingReady'
        BY <2>1
      <4> QED
        BY <4>1, <4>2, <4>3 DEF Expects
    <3>2. ASSUME step'[t] = "block" \/ delays'.list[t] # "ready"
          PROVE  Expects(t)'
      <4>1. value'[t] # 0
        BY <2>1, <2>2
      <4>2. Expects(t)
        BY <2>6, <3>2 DEF NotifyInvariant, NoticePart, Asleep
      <4>3. t \in pendingReady'
        <5>1. CASE value[t] # 0
          BY <2>1, <4>2, <5>1 DEF Expects
        <5>2. CASE value[t] = 0
          <6>1. state[t] = "waiting"
            BY <4>2, <5>2 DEF Expects
          <6>2. suspender # Nobody
            <7>1. CASE step[t] = "block"
              BY <7>1, TaskNotifyAssumption DEF NotifyInvariant, SuspenderPart, TaskNotifyAssumption
            <7>2. CASE delays'.list[t] # "ready"
              BY <2>3, <2>4, <6>1, <7>2
            <7> QED
              BY <3>2, <7>1, <7>2
          <6> QED
            BY <2>1, <6>1, <6>2
        <5> QED
          BY <5>1, <5>2
      <4> QED
        BY <4>1, <4>3 DEF Expects
    <3> QED
      BY <3>1, <3>2 DEF NoticePart, Asleep
  <2> QED
    BY <2>1, <2>4, <2>6, <2>7, <2>8, <2>9, <2>10, <2>11 DEF NotifyInvariant, InOrder
<1> QED
  BY <1>1, <1>2

(* Nothing has happened yet.                                               *)
LEMMA NotifyBegins == NotifyInit => NotifyInvariant
<1> SUFFICES ASSUME NotifyInit PROVE NotifyInvariant
  OBVIOUS
<1>1. NotifyTypeOK
  <2>1. 0 \in 0 .. portMAX_DELAY /\ portMAX_DELAY \in 0 .. portMAX_DELAY
    BY TicksAreNumbers
  <2>2. delays \in DelaysType
    BY <2>1 DEF NotifyInit, DelaysType
  <2>3. ticks \in [Task -> 0 .. portMAX_DELAY]
    BY <2>1 DEF NotifyInit
  <2> QED
    BY <2>2, <2>3 DEF NotifyInit, NotifyTypeOK, DelaysType
<1>2. InOrder(delays) /\ \A t \in Task : ~Asleep(t)
  BY DEF NotifyInit, InOrder, Asleep
<1>3. SuspenderPart
  BY TaskNotifyAssumption DEF NotifyInit, SuspenderPart, TaskNotifyAssumption
<1>4. SleeperPart /\ NoticePart
  BY <1>2 DEF NotifyInit, SleeperPart, NoticePart
<1> QED
  BY <1>1, <1>2, <1>3, <1>4 DEF NotifyInvariant
=============================================================================
