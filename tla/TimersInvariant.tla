-------------------------- MODULE TimersInvariant ---------------------------
(***************************************************************************)
(* The inductive invariant of Timers, and what the operations on its lists *)
(* do.                                                                     *)
(*                                                                         *)
(* WheelConsistent and FreeListConsistent hold whatever callbacks do.      *)
(* That step_all misses no timer needs WalkInv and TimeInv, which hold     *)
(* only when the callbacks leave alone the timer step_all visits next.     *)
(***************************************************************************)
EXTENDS Timers, FiniteSetTheorems, TLAPS

\* In a list, a stands before b.
Before(list, a, b) ==
  \E i, j \in 1 .. Len(list) : i < j /\ list[i] = a /\ list[j] = b

\* A timer somebody has is one of timer_list.
PoolInv == \A t \in Ids : allocated[t] => t <= nof_timers

\* The timer of a defer_callback whose callback runs is still its own.
CallbackInv ==
  /\ pc = "callback" => firing \in Ids
  /\ pc = "callback" /\ deferred => callback[firing] = "defer" /\ ~Running(firing)

\* Tics until t expires.
Remaining(t) == Minus(state[t].timeout, cur_time)

\* Where careful users leave step_all: it stands in the list of the tic it
\* works on, with every timer due in this tic at it or behind it.
WalkInv ==
  /\ pc = "idle" => it = Null
  /\ careful /\ it # Null => Contains(time_wheel[Pos(Now)], it)
  /\ careful /\ pc # "idle" =>
       \A u \in Ids : Due(u) => it # Null /\ (u = it \/ Before(time_wheel[Pos(Now)], it, u))

\* With careful users a running timer expires within its duration, and not
\* in the tic that is over.
TimeInv ==
  careful => \A t \in Ids : Running(t) => Remaining(t) \in 1 .. state[t].duration

\* The inductive invariant.
IInv ==
  /\ TypeOK /\ WheelConsistent /\ FreeListConsistent
  /\ PoolInv /\ CallbackInv /\ WalkInv /\ TimeInv

\* Z3 and then Zenon get half a minute for a leaf.
USE SMTT(30), ZenonT(30)

-----------------------------------------------------------------------------
(* The lists of the wheel.                                                 *)

\* The elements of a list after the one at place k is unlinked.
LEMMA RemoveAtList ==
  ASSUME NEW s \in Seq(Ids), NEW k \in 1 .. Len(s)
  PROVE  /\ RemoveAt(s, k) \in Seq(Ids) /\ Len(RemoveAt(s, k)) = Len(s) - 1
         /\ \A i \in 1 .. Len(s) - 1 :
              RemoveAt(s, k)[i] = IF i < k THEN s[i] ELSE s[i + 1]
<1>. DEFINE f == SubSeq(s, 1, k - 1)
            b == SubSeq(s, k + 1, Len(s))
<1>1. f \in Seq(Ids) /\ Len(f) = k - 1 /\ \A i \in 1 .. k - 1 : f[i] = s[i]
  OBVIOUS
<1>2. b \in Seq(Ids) /\ Len(b) = Len(s) - k /\ \A i \in 1 .. Len(s) - k : b[i] = s[i + k]
  OBVIOUS
<1>3. RemoveAt(s, k) = f \o b
  BY DEF RemoveAt
<1>. HIDE DEF f, b
<1>4. /\ f \o b \in Seq(Ids) /\ Len(f \o b) = Len(s) - 1
      /\ \A i \in 1 .. Len(s) - 1 : (f \o b)[i] = IF i < k THEN f[i] ELSE b[i - (k - 1)]
  BY <1>1, <1>2
<1>5. \A i \in 1 .. Len(s) - 1 :
        (IF i < k THEN f[i] ELSE b[i - (k - 1)]) = IF i < k THEN s[i] ELSE s[i + 1]
  <2>. TAKE i \in 1 .. Len(s) - 1
  <2>1. CASE i < k
    BY <1>1, <2>1
  <2>2. CASE i >= k
    <3>1. i - (k - 1) \in 1 .. Len(s) - k /\ i - (k - 1) + k = i + 1
      BY <2>2
    <3>. QED BY <1>2, <2>2, <3>1
  <2>. QED BY <2>1, <2>2
<1>. QED BY <1>3, <1>4, <1>5

\* pop takes one element out of a list without repetitions and leaves the
\* others in their order.
LEMMA ListPop ==
  ASSUME NEW s \in Seq(Ids), IsInjective(s), NEW t \in Ids, Contains(s, t)
  PROVE  LET r == RemoveAt(s, Place(s, t))
         IN  /\ r \in Seq(Ids) /\ IsInjective(r)
             /\ \A u \in Ids : Contains(r, u) <=> Contains(s, u) /\ u # t
             /\ \A a, b \in Ids \ {t} : Before(s, a, b) => Before(r, a, b)
<1>. DEFINE k == Place(s, t)
            r == RemoveAt(s, k)
<1>1. k \in 1 .. Len(s) /\ s[k] = t
  BY DEF Contains, Place
<1>2. DOMAIN s = 1 .. Len(s) /\ Len(s) \in Nat
  OBVIOUS
<1>. HIDE DEF k
<1>3. /\ r \in Seq(Ids) /\ Len(r) = Len(s) - 1
      /\ \A i \in 1 .. Len(s) - 1 : r[i] = IF i < k THEN s[i] ELSE s[i + 1]
  BY <1>1, RemoveAtList, Zenon
<1>. HIDE DEF r
<1>4. DOMAIN r = 1 .. Len(s) - 1
  BY <1>3
<1>5. \A i, j \in 1 .. Len(s) : s[i] = s[j] => i = j
  BY <1>2 DEF IsInjective
<1>6. \A i \in 1 .. Len(s) : i # k =>
        \E j \in 1 .. Len(s) - 1 : j = (IF i < k THEN i ELSE i - 1) /\ r[j] = s[i]
  BY <1>1, <1>2, <1>3
<1>7. IsInjective(r)
  BY <1>1, <1>2, <1>3, <1>4, <1>5 DEF IsInjective
<1>8. ASSUME NEW u \in Ids PROVE Contains(r, u) <=> Contains(s, u) /\ u # t
  <2>1. ASSUME Contains(r, u) PROVE Contains(s, u) /\ u # t
    BY <1>1, <1>2, <1>3, <1>5, <2>1 DEF Contains
  <2>2. ASSUME Contains(s, u), u # t PROVE Contains(r, u)
    BY <1>1, <1>3, <1>6, <2>2, Zenon DEF Contains
  <2>. QED BY <2>1, <2>2
<1>9. ASSUME NEW a \in Ids \ {t}, NEW b \in Ids \ {t}, Before(s, a, b) PROVE Before(r, a, b)
  <2>1. PICK i, j \in 1 .. Len(s) : i < j /\ s[i] = a /\ s[j] = b
    BY <1>9 DEF Before
  <2>2. i # k /\ j # k
    BY <1>1, <2>1
  <2>3. PICK x \in 1 .. Len(s) - 1 : x = (IF i < k THEN i ELSE i - 1) /\ r[x] = a
    BY <1>6, <2>1, <2>2
  <2>4. PICK y \in 1 .. Len(s) - 1 : y = (IF j < k THEN j ELSE j - 1) /\ r[y] = b
    BY <1>6, <2>1, <2>2
  <2>5. x < y
    BY <1>1, <2>1, <2>2, <2>3, <2>4
  <2>. QED BY <1>3, <2>3, <2>4, <2>5 DEF Before
<1>. QED BY <1>3, <1>7, <1>8, <1>9 DEF k, r

\* push_front puts a new element before all others.
LEMMA ListPush ==
  ASSUME NEW s \in Seq(Ids), IsInjective(s), NEW t \in Ids, ~Contains(s, t)
  PROVE  LET r == <<t>> \o s
         IN  /\ r \in Seq(Ids) /\ IsInjective(r)
             /\ \A u \in Ids : Contains(r, u) <=> Contains(s, u) \/ u = t
             /\ \A a, b \in Ids : Before(s, a, b) => Before(r, a, b)
<1>. DEFINE r == <<t>> \o s
<1>1. DOMAIN s = 1 .. Len(s) /\ Len(s) \in Nat
  OBVIOUS
<1>2. /\ r \in Seq(Ids) /\ Len(r) = Len(s) + 1 /\ r[1] = t
      /\ \A i \in 1 .. Len(s) : r[i + 1] = s[i]
  OBVIOUS
<1>. HIDE DEF r
<1>3. DOMAIN r = 1 .. Len(s) + 1
  BY <1>2
<1>4. \A i \in 2 .. Len(s) + 1 : i - 1 \in 1 .. Len(s) /\ r[i] = s[i - 1]
  BY <1>1, <1>2
<1>5. \A i \in 1 .. Len(s) : s[i] # t
  BY DEF Contains
<1>6. IsInjective(r)
  <2>. SUFFICES ASSUME NEW i \in 1 .. Len(s) + 1, NEW j \in 1 .. Len(s) + 1, r[i] = r[j]
                PROVE  i = j
    BY <1>3 DEF IsInjective
  <2>1. \A x, y \in 1 .. Len(s) : s[x] = s[y] => x = y
    BY <1>1 DEF IsInjective
  <2>2. CASE i = 1 \/ j = 1
    BY <1>1, <1>2, <1>4, <1>5, <2>2
  <2>3. CASE i # 1 /\ j # 1
    BY <1>1, <1>4, <2>1, <2>3
  <2>. QED BY <2>2, <2>3
<1>7. ASSUME NEW u \in Ids PROVE Contains(r, u) <=> Contains(s, u) \/ u = t
  BY <1>1, <1>2, <1>4 DEF Contains
<1>8. ASSUME NEW a \in Ids, NEW b \in Ids, Before(s, a, b) PROVE Before(r, a, b)
  <2>1. PICK i, j \in 1 .. Len(s) : i < j /\ s[i] = a /\ s[j] = b
    BY <1>8 DEF Before
  <2>2. /\ i + 1 \in 1 .. Len(r) /\ j + 1 \in 1 .. Len(r) /\ i + 1 < j + 1
        /\ r[i + 1] = a /\ r[j + 1] = b
    BY <1>1, <1>2, <2>1
  <2>. QED BY <2>2 DEF Before
<1>. QED BY <1>2, <1>6, <1>7, <1>8 DEF r

-----------------------------------------------------------------------------
(* Tics count modulo TicMod.                                               *)

Tics == 0 .. (TicMod - 1)

\* Reduction modulo TicMod of a number below twice the modulus.
LEMMA ModSmall ==
  ASSUME NEW x \in Nat, x < 2 * TicMod
  PROVE  /\ x < TicMod => x % TicMod = x
         /\ x >= TicMod => x % TicMod = x - TicMod
<1>1. TicMod \in Nat /\ TicMod > 1
  BY SizeAssumption
<1>2. CASE x < TicMod
  BY <1>1, <1>2
<1>3. CASE x >= TicMod
  BY <1>1, <1>3
<1>. QED BY <1>1, <1>2, <1>3

\* Sums and differences of tics.
LEMMA TicArithmetic ==
  ASSUME NEW a \in Tics, NEW b \in Tics
  PROVE  /\ Plus(a, b) = IF a + b < TicMod THEN a + b ELSE a + b - TicMod
         /\ Minus(a, b) = IF a < b THEN a - b + TicMod ELSE a - b
         /\ Plus(a, b) \in Tics /\ Minus(a, b) \in Tics
<1>1. TicMod \in Nat /\ TicMod > 1 /\ a \in Nat /\ b \in Nat /\ a < TicMod /\ b < TicMod
  BY SizeAssumption DEF Tics
<1>. DEFINE x == a + b
            y == a + TicMod - b
<1>2. x \in Nat /\ x < 2 * TicMod /\ y \in Nat /\ y < 2 * TicMod
  BY <1>1
<1>3. Plus(a, b) = x % TicMod /\ Minus(a, b) = y % TicMod
  BY DEF Plus, Minus
<1>. HIDE DEF x, y
<1>4. (x < TicMod => x % TicMod = x) /\ (x >= TicMod => x % TicMod = x - TicMod)
  BY <1>2, ModSmall, Zenon
<1>5. (y < TicMod => y % TicMod = y) /\ (y >= TicMod => y % TicMod = y - TicMod)
  BY <1>2, ModSmall, Zenon
<1>6. Plus(a, b) = (IF x < TicMod THEN x ELSE x - TicMod) /\ Plus(a, b) \in Tics
  BY <1>1, <1>2, <1>3, <1>4 DEF Tics
<1>7. Minus(a, b) = (IF y < TicMod THEN y ELSE y - TicMod) /\ Minus(a, b) \in Tics
  BY <1>1, <1>2, <1>3, <1>5 DEF Tics
<1>8. Plus(a, b) = IF a + b < TicMod THEN a + b ELSE a + b - TicMod
  BY <1>1, <1>6 DEF x
<1>9. Minus(a, b) = IF a < b THEN a - b + TicMod ELSE a - b
  BY <1>1, <1>7 DEF y
<1>. QED BY <1>6, <1>7, <1>8, <1>9

\* What start_run_ computes is a tic d tics ahead, one tic ahead is Now, and
\* when the clock goes on there is a tic less to wait.
LEMMA Waiting ==
  ASSUME NEW c \in Tics, NEW t \in Tics
  PROVE  /\ Plus(c, t) \in Tics /\ Minus(t, c) \in Tics /\ Plus(c, 1) \in Tics
         /\ Minus(Plus(c, t), c) = t
         /\ Minus(t, c) = 1 <=> t = Plus(c, 1)
         /\ Minus(t, c) > 0 => Minus(t, Plus(c, 1)) = Minus(t, c) - 1
<1>1. TicMod \in Nat /\ TicMod > 1 /\ 1 \in Tics
  BY SizeAssumption DEF Tics
<1>2. Plus(c, t) \in Tics /\ Plus(c, t) = IF c + t < TicMod THEN c + t ELSE c + t - TicMod
  BY TicArithmetic, Zenon
<1>3. Minus(t, c) \in Tics /\ Minus(t, c) = IF t < c THEN t - c + TicMod ELSE t - c
  BY TicArithmetic, Zenon
<1>4. Plus(c, 1) \in Tics /\ Plus(c, 1) = IF c + 1 < TicMod THEN c + 1 ELSE c + 1 - TicMod
  BY <1>1, TicArithmetic, Zenon
<1>5. Minus(Plus(c, t), c) = IF Plus(c, t) < c THEN Plus(c, t) - c + TicMod ELSE Plus(c, t) - c
  BY <1>2, TicArithmetic, Zenon
<1>6. Minus(t, Plus(c, 1)) = IF t < Plus(c, 1) THEN t - Plus(c, 1) + TicMod ELSE t - Plus(c, 1)
  BY <1>4, TicArithmetic, Zenon
<1>. QED BY <1>1, <1>2, <1>3, <1>4, <1>5, <1>6 DEF Tics

\* A tic has a slot of the wheel.
LEMMA PosSlot == ASSUME NEW c \in Tics PROVE Pos(c) \in Slots
BY SizeAssumption DEF Tics, Slots, Pos

-----------------------------------------------------------------------------
(* The wheel.                                                              *)

\* Unlinking a running timer from its slot takes it off the wheel.
LEMMA WheelPop ==
  ASSUME TypeOK, WheelConsistent, NEW t \in Ids, Running(t)
  PROVE  LET w == Pop(time_wheel, t)
         IN  /\ w \in [Slots -> Seq(Ids)]
             /\ \A p \in Slots :
                  /\ IsInjective(w[p])
                  /\ \A u \in Ids : Contains(w[p], u) <=> Contains(time_wheel[p], u) /\ u # t
                  /\ \A a, b \in Ids \ {t} : Before(time_wheel[p], a, b) => Before(w[p], a, b)
<1>. DEFINE q == Pos(state[t].timeout)
            r == RemoveAt(time_wheel[q], Place(time_wheel[q], t))
            w == Pop(time_wheel, t)
<1>1. q \in Slots /\ time_wheel \in [Slots -> Seq(Ids)]
  BY PosSlot DEF TypeOK, Tics
<1>2. time_wheel[q] \in Seq(Ids) /\ IsInjective(time_wheel[q]) /\ Contains(time_wheel[q], t)
  BY <1>1 DEF WheelConsistent
<1>3. \A p \in Slots \ {q} : ~Contains(time_wheel[p], t)
  BY DEF WheelConsistent
<1>4. w = [time_wheel EXCEPT ![q] = r]
  BY DEF Pop
<1>5. /\ r \in Seq(Ids) /\ IsInjective(r)
      /\ \A u \in Ids : Contains(r, u) <=> Contains(time_wheel[q], u) /\ u # t
      /\ \A a, b \in Ids \ {t} : Before(time_wheel[q], a, b) => Before(r, a, b)
  BY <1>2, ListPop, Zenon
<1>. HIDE DEF q, r, w
<1>6. w \in [Slots -> Seq(Ids)] /\ w[q] = r /\ \A p \in Slots \ {q} : w[p] = time_wheel[p]
  BY <1>1, <1>4, <1>5
<1>7. \A p \in Slots : IsInjective(w[p])
  BY <1>5, <1>6 DEF WheelConsistent
<1>8. \A p \in Slots, u \in Ids : Contains(w[p], u) <=> Contains(time_wheel[p], u) /\ u # t
  BY <1>3, <1>5, <1>6
<1>9. \A p \in Slots, a \in Ids \ {t}, b \in Ids \ {t} :
        Before(time_wheel[p], a, b) => Before(w[p], a, b)
  BY <1>5, <1>6
<1>. QED BY <1>6, <1>7, <1>8, <1>9 DEF w

\* Linking a timer that is in no list of the wheel into a slot.
LEMMA WheelPush ==
  ASSUME NEW w \in [Slots -> Seq(Ids)], NEW t \in Ids, NEW q \in Slots,
         \A p \in Slots : IsInjective(w[p]) /\ ~Contains(w[p], t)
  PROVE  LET v == PushFront(w, q, t)
         IN  /\ v \in [Slots -> Seq(Ids)]
             /\ \A p \in Slots :
                  /\ IsInjective(v[p])
                  /\ \A u \in Ids : Contains(v[p], u) <=> Contains(w[p], u) \/ (u = t /\ p = q)
                  /\ \A a, b \in Ids : Before(w[p], a, b) => Before(v[p], a, b)
<1>. DEFINE r == <<t>> \o w[q]
            v == PushFront(w, q, t)
<1>1. w[q] \in Seq(Ids) /\ IsInjective(w[q]) /\ ~Contains(w[q], t)
  OBVIOUS
<1>2. v = [w EXCEPT ![q] = r]
  BY DEF PushFront
<1>3. /\ r \in Seq(Ids) /\ IsInjective(r)
      /\ \A u \in Ids : Contains(r, u) <=> Contains(w[q], u) \/ u = t
      /\ \A a, b \in Ids : Before(w[q], a, b) => Before(r, a, b)
  BY <1>1, ListPush, Zenon
<1>. HIDE DEF r, v
<1>4. v \in [Slots -> Seq(Ids)] /\ v[q] = r /\ \A p \in Slots \ {q} : v[p] = w[p]
  BY <1>2, <1>3
<1>5. \A p \in Slots : IsInjective(v[p])
  BY <1>3, <1>4, Zenon
<1>6. \A p \in Slots, u \in Ids : Contains(v[p], u) <=> Contains(w[p], u) \/ (u = t /\ p = q)
  BY <1>3, <1>4
<1>7. \A p \in Slots, a \in Ids, b \in Ids : Before(w[p], a, b) => Before(v[p], a, b)
  BY <1>3, <1>4, Zenon
<1>. QED BY <1>4, <1>5, <1>6, <1>7 DEF v

\* What nof_timers_running_ counts is at most the number of timers, and it
\* counts a timer more or less.
LEMMA Counting ==
  ASSUME NEW R \in SUBSET Ids, NEW t \in Ids
  PROVE  /\ Cardinality(R) \in 0 .. MaxTimers
         /\ Cardinality(R \cup {t}) = IF t \in R THEN Cardinality(R) ELSE Cardinality(R) + 1
         /\ Cardinality(R \ {t}) = IF t \in R THEN Cardinality(R) - 1 ELSE Cardinality(R)
<1>1. IsFiniteSet(Ids) /\ Cardinality(Ids) = MaxTimers /\ MaxTimers \in Nat
  <2>1. MaxTimers \in Nat
    BY SizeAssumption
  <2>2. /\ IsFiniteSet(1 .. MaxTimers)
        /\ Cardinality(1 .. MaxTimers) = IF 1 > MaxTimers THEN 0 ELSE MaxTimers - 1 + 1
    BY <2>1, FS_Interval
  <2>. QED BY <2>1, <2>2 DEF Ids
<1>2. IsFiniteSet(R) /\ Cardinality(R) <= MaxTimers
  BY <1>1, FS_Subset
<1>3. Cardinality(R) \in 0 .. MaxTimers
  BY <1>1, <1>2, FS_CardinalityType
<1>. QED BY <1>2, <1>3, FS_AddElement, FS_RemoveElement, Zenon

States == [mode : {"stopped", "running", "expired"}, duration : Tics, timeout : Tics]

\* The wheel is consistent after a step, and the order of the timers other
\* than t in its lists is the same as before.
WheelKept(t) ==
  /\ state' \in [Ids -> States] /\ time_wheel' \in [Slots -> Seq(Ids)]
  /\ nof_timers_running' \in 0 .. MaxTimers /\ WheelConsistent'
  /\ \A p \in Slots : \A a, b \in Ids \ {t} :
       Before(time_wheel[p], a, b) => Before(time_wheel'[p], a, b)

\* What start_run_ does to the wheel: the timer is in the list of its new
\* timeout, and the order of the others does not change.
LEMMA StartRunWheel ==
  ASSUME TypeOK, WheelConsistent, NEW t \in Ids, NEW d \in Tics, StartRun(t, d)
  PROVE  /\ state' = [state EXCEPT ![t] = State("running", d, Plus(cur_time, d))]
         /\ WheelKept(t)
<1>. DEFINE timeout == Plus(cur_time, d)
            q == Pos(timeout)
            R == {u \in Ids : Running(u)}
<1>1. timeout \in Tics /\ q \in Slots /\ state \in [Ids -> States] /\ time_wheel \in [Slots -> Seq(Ids)]
  BY TicArithmetic, PosSlot, Zenon DEF TypeOK, Tics, States
<1>2. state' = [state EXCEPT ![t] = State("running", d, timeout)]
  BY DEF StartRun
<1>3. /\ state' \in [Ids -> States] /\ state'[t].mode = "running" /\ state'[t].timeout = timeout
      /\ \A u \in Ids \ {t} : state'[u] = state[u]
  BY <1>1, <1>2 DEF State, States
<1>4. nof_timers_running' = nof_timers_running + (IF Running(t) THEN 0 ELSE 1)
  BY DEF StartRun
<1>5. Running(t) /\ Pos(state[t].timeout) = q => time_wheel' = time_wheel
  BY DEF StartRun
<1>6. Running(t) /\ Pos(state[t].timeout) # q => time_wheel' = PushFront(Pop(time_wheel, t), q, t)
  BY DEF StartRun
<1>7. ~Running(t) => time_wheel' = PushFront(time_wheel, q, t)
  BY DEF StartRun
<1>. HIDE DEF timeout, q, R
<1>8. /\ time_wheel' \in [Slots -> Seq(Ids)]
      /\ \A p \in Slots :
           /\ IsInjective(time_wheel'[p])
           /\ Contains(time_wheel'[p], t) <=> p = q
           /\ \A u \in Ids \ {t} : Contains(time_wheel'[p], u) <=> Contains(time_wheel[p], u)
           /\ \A a, b \in Ids \ {t} : Before(time_wheel[p], a, b) => Before(time_wheel'[p], a, b)
  <2>1. CASE Running(t) /\ Pos(state[t].timeout) = q
    BY <1>1, <1>5, <2>1 DEF WheelConsistent
  <2>2. CASE Running(t) /\ Pos(state[t].timeout) # q
    <3>. DEFINE w == Pop(time_wheel, t)
    <3>1. /\ w \in [Slots -> Seq(Ids)]
          /\ \A p \in Slots :
               /\ IsInjective(w[p])
               /\ \A u \in Ids : Contains(w[p], u) <=> Contains(time_wheel[p], u) /\ u # t
               /\ \A a, b \in Ids \ {t} : Before(time_wheel[p], a, b) => Before(w[p], a, b)
      BY <2>2, WheelPop, Zenon
    <3>2. \A p \in Slots : IsInjective(w[p]) /\ ~Contains(w[p], t)
      BY <3>1, Zenon
    <3>. HIDE DEF w
    <3>. DEFINE v == PushFront(w, q, t)
    <3>3. /\ v \in [Slots -> Seq(Ids)]
          /\ \A p \in Slots :
               /\ IsInjective(v[p])
               /\ \A u \in Ids : Contains(v[p], u) <=> Contains(w[p], u) \/ (u = t /\ p = q)
               /\ \A a, b \in Ids : Before(w[p], a, b) => Before(v[p], a, b)
      BY <1>1, <3>1, <3>2, WheelPush, Zenon
    <3>4. time_wheel' = v
      BY <1>6, <2>2 DEF w
    <3>. HIDE DEF v
    <3>. QED BY <3>1, <3>3, <3>4
  <2>3. CASE ~Running(t)
    <3>. DEFINE v == PushFront(time_wheel, q, t)
    <3>1. \A p \in Slots : IsInjective(time_wheel[p]) /\ ~Contains(time_wheel[p], t)
      BY <2>3 DEF WheelConsistent
    <3>2. /\ v \in [Slots -> Seq(Ids)]
          /\ \A p \in Slots :
               /\ IsInjective(v[p])
               /\ \A u \in Ids : Contains(v[p], u) <=> Contains(time_wheel[p], u) \/ (u = t /\ p = q)
               /\ \A a, b \in Ids : Before(time_wheel[p], a, b) => Before(v[p], a, b)
      BY <1>1, <3>1, WheelPush, Zenon
    <3>3. time_wheel' = v
      BY <1>7, <2>3
    <3>. HIDE DEF v
    <3>. QED BY <3>1, <3>2, <3>3
  <2>. QED BY <2>1, <2>2, <2>3
<1>9. {u \in Ids : Running(u)'} = R \cup {t}
  BY <1>3 DEF R, Running
<1>10. nof_timers_running' = Cardinality({u \in Ids : Running(u)'}) /\ nof_timers_running' \in 0 .. MaxTimers
  <2>1. R \in SUBSET Ids /\ R \cup {t} \in SUBSET Ids /\ (t \in R <=> Running(t))
    BY DEF R
  <2>2. nof_timers_running = Cardinality(R)
    BY DEF WheelConsistent, R
  <2>3. /\ Cardinality(R) \in 0 .. MaxTimers /\ Cardinality(R \cup {t}) \in 0 .. MaxTimers
        /\ Cardinality(R \cup {t}) = IF t \in R THEN Cardinality(R) ELSE Cardinality(R) + 1
    BY <2>1, Counting, Zenon
  <2>. QED BY <1>4, <1>9, <2>1, <2>2, <2>3
<1>11. ASSUME NEW p \in Slots, NEW u \in Ids
       PROVE  Contains(time_wheel'[p], u) <=> Running(u)' /\ Pos(state'[u].timeout) = p
  <2>1. CASE u = t
    BY <1>3, <1>8, <2>1 DEF Running, q
  <2>2. CASE u # t
    BY <1>3, <1>8, <2>2 DEF Running, WheelConsistent
  <2>. QED BY <2>1, <2>2
<1>12. WheelConsistent'
  BY <1>8, <1>10, <1>11 DEF WheelConsistent
<1>. QED BY <1>2, <1>3, <1>8, <1>10, <1>12 DEF timeout, WheelKept

\* What taking a timer out of the wheel does, if it is there, whatever becomes
\* of the rest of its state.
LEMMA StopWheel ==
  ASSUME TypeOK, WheelConsistent, NEW t \in Ids,
         NEW r \in States, r.mode # "running", state' = [state EXCEPT ![t] = r],
         IF Running(t)
         THEN time_wheel' = Pop(time_wheel, t) /\ nof_timers_running' = nof_timers_running - 1
         ELSE UNCHANGED listVars
  PROVE  WheelKept(t)
<1>. DEFINE R == {u \in Ids : Running(u)}
<1>1. state \in [Ids -> States]
  BY DEF TypeOK, Tics, States
<1>2. /\ state' \in [Ids -> States] /\ state'[t] = r
      /\ \A u \in Ids \ {t} : state'[u] = state[u]
  BY <1>1
<1>3. /\ time_wheel' \in [Slots -> Seq(Ids)]
      /\ \A p \in Slots :
           /\ IsInjective(time_wheel'[p])
           /\ \A u \in Ids : Contains(time_wheel'[p], u) <=> Contains(time_wheel[p], u) /\ u # t
           /\ \A a, b \in Ids \ {t} : Before(time_wheel[p], a, b) => Before(time_wheel'[p], a, b)
  <2>1. CASE Running(t)
    BY <2>1, WheelPop, Zenon
  <2>2. CASE ~Running(t)
    <3>1. time_wheel' = time_wheel /\ time_wheel \in [Slots -> Seq(Ids)]
      BY <2>2 DEF listVars, TypeOK
    <3>2. \A p \in Slots : IsInjective(time_wheel[p]) /\ ~Contains(time_wheel[p], t)
      BY <2>2 DEF WheelConsistent
    <3>. QED BY <3>1, <3>2
  <2>. QED BY <2>1, <2>2
<1>4. nof_timers_running' = nof_timers_running - (IF Running(t) THEN 1 ELSE 0)
  BY DEF listVars, TypeOK
<1>. HIDE DEF R
<1>5. {u \in Ids : Running(u)'} = R \ {t}
  BY <1>2 DEF R, Running
<1>6. nof_timers_running' = Cardinality({u \in Ids : Running(u)'}) /\ nof_timers_running' \in 0 .. MaxTimers
  <2>1. R \in SUBSET Ids /\ R \ {t} \in SUBSET Ids /\ (t \in R <=> Running(t))
    BY DEF R
  <2>2. nof_timers_running = Cardinality(R)
    BY DEF WheelConsistent, R
  <2>3. /\ Cardinality(R) \in 0 .. MaxTimers /\ Cardinality(R \ {t}) \in 0 .. MaxTimers
        /\ Cardinality(R \ {t}) = IF t \in R THEN Cardinality(R) - 1 ELSE Cardinality(R)
    BY <2>1, Counting, Zenon
  <2>4. nof_timers_running' = Cardinality(R \ {t})
    <3>1. CASE Running(t)
      BY <1>4, <2>1, <2>2, <2>3, <3>1
    <3>2. CASE ~Running(t)
      BY <1>4, <2>1, <2>2, <2>3, <3>2
    <3>. QED BY <3>1, <3>2
  <2>. QED BY <1>5, <2>3, <2>4, Zenon
<1>7. ASSUME NEW p \in Slots, NEW u \in Ids
      PROVE  Contains(time_wheel'[p], u) <=> Running(u)' /\ Pos(state'[u].timeout) = p
  BY <1>2, <1>3 DEF Running, WheelConsistent
<1>8. WheelConsistent'
  BY <1>3, <1>6, <1>7 DEF WheelConsistent
<1>. QED BY <1>2, <1>3, <1>6, <1>8 DEF WheelKept

\* operator++ of step_all's iterator: everything behind a timer is behind or
\* at the next one.
LEMMA NextNodeBehind ==
  ASSUME TypeOK, WheelConsistent, NEW t \in Ids, NEW p \in Slots, Contains(time_wheel[p], t)
  PROVE  LET n == NextNode(t)
         IN  /\ n # Null => n \in Ids \ {t} /\ Contains(time_wheel[p], n)
             /\ \A u \in Ids : Before(time_wheel[p], t, u) =>
                   n # Null /\ (u = n \/ Before(time_wheel[p], n, u))
<1>. DEFINE Follows(n) == \E q \in Slots : \E i \in 2..Len(time_wheel[q]) :
                            time_wheel[q][i - 1] = t /\ time_wheel[q][i] = n
            n == NextNode(t)
            s == time_wheel[p]
<1>1. n = IF \E m \in Ids : Follows(m) THEN CHOOSE m \in Ids : Follows(m) ELSE Null
  BY DEF NextNode
<1>2. s \in Seq(Ids) /\ IsInjective(s) /\ Len(s) \in Nat /\ DOMAIN s = 1 .. Len(s)
  BY DEF TypeOK, WheelConsistent
<1>3. PICK k \in 1 .. Len(s) : s[k] = t
  BY DEF Contains
<1>4. \A q \in Slots : q # p => ~Contains(time_wheel[q], t)
  BY DEF WheelConsistent
<1>5. ASSUME NEW m \in Ids, Follows(m) PROVE k + 1 \in 1 .. Len(s) /\ s[k + 1] = m
  <2>1. PICK q \in Slots : \E i \in 2..Len(time_wheel[q]) : time_wheel[q][i - 1] = t /\ time_wheel[q][i] = m
    BY <1>5
  <2>2. PICK i \in 2..Len(time_wheel[q]) : time_wheel[q][i - 1] = t /\ time_wheel[q][i] = m
    BY <2>1
  <2>3. time_wheel[q] \in Seq(Ids) /\ Len(time_wheel[q]) \in Nat
    BY DEF TypeOK
  <2>4. i - 1 \in 1 .. Len(time_wheel[q]) /\ i = (i - 1) + 1
    BY <2>3
  <2>5. q = p
    BY <1>4, <2>2, <2>4 DEF Contains
  <2>6. i - 1 = k
    BY <1>2, <1>3, <2>2, <2>4, <2>5 DEF IsInjective
  <2>. QED BY <2>2, <2>4, <2>5, <2>6
<1>6. ASSUME k + 1 \in 1 .. Len(s) PROVE s[k + 1] \in Ids /\ Follows(s[k + 1])
  <2>1. k + 1 \in 2 .. Len(s) /\ (k + 1) - 1 = k /\ s[k + 1] \in Ids
    BY <1>2, <1>3, <1>6
  <2>2. time_wheel[p][(k + 1) - 1] = t /\ time_wheel[p][k + 1] = s[k + 1]
    BY <1>3, <2>1
  <2>. QED BY <2>1, <2>2
<1>. HIDE DEF Follows, n
<1>7. CASE k + 1 \in 1 .. Len(s)
  <2>1. n \in Ids /\ Follows(n)
    BY <1>1, <1>6, <1>7
  <2>2. n = s[k + 1]
    BY <1>5, <2>1
  <2>3. n # t /\ Contains(s, n) /\ n # Null
    BY <1>2, <1>3, <1>7, <2>1, <2>2 DEF Contains, IsInjective, Ids, Null
  <2>4. ASSUME NEW u \in Ids, Before(s, t, u) PROVE u = n \/ Before(s, n, u)
    <3>1. PICK i, j \in 1 .. Len(s) : i < j /\ s[i] = t /\ s[j] = u
      BY <2>4 DEF Before
    <3>2. i = k
      BY <1>2, <1>3, <3>1 DEF IsInjective
    <3>3. CASE j = k + 1
      BY <2>2, <3>1, <3>3
    <3>4. CASE j # k + 1
      <4>1. k + 1 < j
        BY <3>1, <3>2, <3>4
      <4>. QED BY <1>7, <2>2, <3>1, <4>1 DEF Before
    <3>. QED BY <3>3, <3>4
  <2>. QED BY <2>1, <2>3, <2>4 DEF n
<1>8. CASE k + 1 \notin 1 .. Len(s)
  <2>1. n = Null
    BY <1>1, <1>5, <1>8
  <2>2. ASSUME NEW u \in Ids, Before(s, t, u) PROVE FALSE
    <3>1. PICK i, j \in 1 .. Len(s) : i < j /\ s[i] = t /\ s[j] = u
      BY <2>2 DEF Before
    <3>2. i = k
      BY <1>2, <1>3, <3>1 DEF IsInjective
    <3>. QED BY <1>2, <1>3, <1>8, <3>1, <3>2
  <2>. QED BY <2>1, <2>2 DEF n
<1>. QED BY <1>7, <1>8

\* The iterator is at a timer or at the end of a list.
LEMMA NextNodeType == ASSUME NEW t \in Ids PROVE NextNode(t) \in Ids \cup {Null}
BY DEF NextNode
=============================================================================
