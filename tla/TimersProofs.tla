---------------------------- MODULE TimersProofs ----------------------------
(***************************************************************************)
(* The operations of timer_handler keep the invariant of TimersInvariant,  *)
(* one lemma for each, and the theorems that follow.                       *)
(***************************************************************************)
EXTENDS TimersInvariant

\* Z3 and then Zenon get half a minute for a leaf.
USE SMTT(30), ZenonT(30) DEF listVars, walkVars, poolVars

-----------------------------------------------------------------------------
(* The pool of timers.                                                     *)

\* alloc_timer takes a timer that nobody has.
LEMMA AllocPool ==
  ASSUME TypeOK, FreeListConsistent, PoolInv, NEW t \in Ids, Alloc(t)
  PROVE  /\ ~allocated[t] /\ allocated' = [allocated EXCEPT ![t] = TRUE]
         /\ free_list' \in Seq(Ids) /\ nof_timers' \in Capacity .. MaxTimers
         /\ IsInjective(free_list') /\ PoolInv'
         /\ Range(free_list') = {u \in 1 .. nof_timers' : ~allocated'[u]}
<1>. DEFINE f == free_list
<1>1. /\ f \in Seq(Ids) /\ Len(f) \in Nat /\ DOMAIN f = 1 .. Len(f) /\ allocated \in [Ids -> BOOLEAN]
      /\ nof_timers \in Nat /\ nof_timers >= Capacity /\ nof_timers <= MaxTimers
      /\ MaxTimers \in Nat /\ Capacity \in Nat
  BY SizeAssumption DEF TypeOK
<1>2. \A i, j \in 1 .. Len(f) : f[i] = f[j] => i = j
  BY <1>1 DEF FreeListConsistent, IsInjective
<1>3. /\ \A i \in 1 .. Len(f) : f[i] \in 1 .. nof_timers /\ ~allocated[f[i]]
      /\ \A u \in 1 .. nof_timers : ~allocated[u] => \E i \in 1 .. Len(f) : f[i] = u
  <2>1. {f[i] : i \in 1 .. Len(f)} = {u \in 1 .. nof_timers : ~allocated[u]}
    BY <1>1, Zenon DEF FreeListConsistent, Range
  <2>. QED BY <2>1
<1>4. allocated' = [allocated EXCEPT ![t] = TRUE]
  BY DEF Alloc
<1>5. allocated'[t] /\ \A u \in Ids \ {t} : allocated'[u] = allocated[u]
  BY <1>1, <1>4
<1>6. CASE f # <<>>
  <2>1. t = Head(f) /\ free_list' = Tail(f) /\ nof_timers' = nof_timers
    BY <1>6 DEF Alloc
  <2>2. /\ 1 \in 1 .. Len(f) /\ t = f[1] /\ free_list' \in Seq(Ids) /\ Len(free_list') = Len(f) - 1
        /\ \A i \in 1 .. Len(f) - 1 : free_list'[i] = f[i + 1]
    BY <1>1, <1>6, <2>1
  <2>3. ~allocated[t] /\ t \in 1 .. nof_timers
    BY <1>3, <2>2
  <2>4. DOMAIN free_list' = 1 .. Len(f) - 1
    BY <2>2
  <2>5. IsInjective(free_list')
    BY <1>1, <1>2, <2>2, <2>4 DEF IsInjective
  <2>6. \A i \in 1 .. Len(f) - 1 : i + 1 \in 1 .. Len(f) /\ free_list'[i] # t
    BY <1>1, <1>2, <2>2
  <2>7. \A i \in 1 .. Len(f) : i # 1 => i - 1 \in 1 .. Len(f) - 1 /\ free_list'[i - 1] = f[i]
    BY <1>1, <2>2
  <2>8. ASSUME NEW u \in Ids, u <= nof_timers, ~allocated'[u]
        PROVE  u \in {free_list'[i] : i \in 1 .. Len(f) - 1}
    <3>1. u # t /\ ~allocated[u] /\ u \in 1 .. nof_timers
      BY <1>1, <1>5, <2>8 DEF Ids
    <3>2. PICK i \in 1 .. Len(f) : f[i] = u
      BY <1>3, <3>1
    <3>. QED BY <2>2, <2>7, <3>1, <3>2
  <2>9. ASSUME NEW i \in 1 .. Len(f) - 1
        PROVE  free_list'[i] \in 1 .. nof_timers /\ ~allocated'[free_list'[i]]
    <3>1. free_list'[i] \in 1 .. nof_timers /\ ~allocated[free_list'[i]] /\ free_list'[i] # t
      BY <1>3, <2>2, <2>6
    <3>. QED BY <1>1, <1>5, <3>1 DEF Ids
  <2>10. Range(free_list') = {u \in 1 .. nof_timers' : ~allocated'[u]}
    <3>1. 1 .. nof_timers \subseteq Ids
      BY <1>1 DEF Ids
    <3>2. Range(free_list') = {free_list'[i] : i \in 1 .. Len(f) - 1}
      BY <2>4 DEF Range
    <3>3. \A u \in {free_list'[i] : i \in 1 .. Len(f) - 1} : u \in 1 .. nof_timers /\ ~allocated'[u]
      BY <2>9
    <3>4. \A u \in 1 .. nof_timers : ~allocated'[u] => u \in {free_list'[i] : i \in 1 .. Len(f) - 1}
      BY <1>1, <2>8, <3>1
    <3>. QED BY <2>1, <3>2, <3>3, <3>4
  <2>11. PoolInv'
    BY <1>1, <1>5, <2>1, <2>3 DEF PoolInv
  <2>. QED BY <1>1, <1>4, <2>1, <2>2, <2>3, <2>5, <2>10, <2>11
<1>7. CASE f = <<>>
  <2>1. t = nof_timers + 1 /\ free_list' = <<>> /\ nof_timers' = t
    BY <1>7 DEF Alloc
  <2>2. ~allocated[t]
    BY <1>1, <2>1 DEF PoolInv
  <2>3. \A u \in 1 .. nof_timers' : allocated'[u]
    <3>1. \A u \in 1 .. nof_timers : allocated[u]
      BY <1>1, <1>3, <1>7
    <3>2. ASSUME NEW u \in 1 .. nof_timers' PROVE (u = t \/ u \in 1 .. nof_timers) /\ u \in Ids
      BY <1>1, <2>1 DEF Ids
    <3>. QED BY <1>1, <1>5, <3>1, <3>2
  <2>4. PoolInv'
    BY <1>1, <1>5, <2>1 DEF PoolInv, Ids
  <2>5. Range(free_list') = {} /\ IsInjective(free_list') /\ free_list' \in Seq(Ids)
    BY <2>1 DEF Range, IsInjective
  <2>6. nof_timers' \in Capacity .. MaxTimers
    BY <1>1, <2>1 DEF Ids
  <2>. QED BY <1>4, <2>2, <2>3, <2>4, <2>5, <2>6
<1>. QED BY <1>6, <1>7

\* dealloc_timer_ gives back a timer of timer_list that is not in the free list.
LEMMA DeallocPool ==
  ASSUME TypeOK, FreeListConsistent, PoolInv, NEW t \in Ids, DeallocTimer(t), UNCHANGED nof_timers
  PROVE  /\ allocated' = [allocated EXCEPT ![t] = FALSE]
         /\ free_list' \in Seq(Ids) /\ IsInjective(free_list') /\ PoolInv'
         /\ Range(free_list') = {u \in 1 .. nof_timers' : ~allocated'[u]}
<1>. DEFINE f == free_list
<1>1. /\ f \in Seq(Ids) /\ Len(f) \in Nat /\ DOMAIN f = 1 .. Len(f) /\ allocated \in [Ids -> BOOLEAN]
      /\ nof_timers \in Nat /\ nof_timers <= MaxTimers /\ MaxTimers \in Nat
  BY SizeAssumption DEF TypeOK
<1>2. {f[i] : i \in 1 .. Len(f)} = {u \in 1 .. nof_timers : ~allocated[u]}
  BY <1>1 DEF FreeListConsistent, Range
<1>3. allocated[t] /\ allocated' = [allocated EXCEPT ![t] = FALSE] /\ free_list' = <<t>> \o f
  BY DEF DeallocTimer
<1>4. t \in 1 .. nof_timers /\ ~allocated'[t] /\ \A u \in Ids \ {t} : allocated'[u] = allocated[u]
  BY <1>1, <1>3 DEF PoolInv, Ids
<1>5. ~Contains(f, t)
  BY <1>2, <1>3 DEF Contains
<1>6. /\ free_list' \in Seq(Ids) /\ IsInjective(free_list')
      /\ \A u \in Ids : Contains(free_list', u) <=> Contains(f, u) \/ u = t
  BY <1>1, <1>3, <1>5, ListPush DEF FreeListConsistent
<1>7. \A u \in Ids : u \in Range(free_list') <=> Contains(free_list', u)
  BY <1>6 DEF Range, Contains
<1>8. \A u \in Ids : Contains(f, u) <=> u \in 1 .. nof_timers /\ ~allocated[u]
  BY <1>2 DEF Contains
<1>9. Range(free_list') \subseteq Ids /\ 1 .. nof_timers \subseteq Ids
  BY <1>1, <1>6 DEF Range, Ids
<1>10. \A u \in Ids : u \in Range(free_list') <=> u \in 1 .. nof_timers /\ ~allocated'[u]
  BY <1>4, <1>6, <1>7, <1>8
<1>11. Range(free_list') = {u \in 1 .. nof_timers' : ~allocated'[u]}
  BY <1>9, <1>10
<1>12. PoolInv'
  BY <1>4 DEF PoolInv
<1>. QED BY <1>3, <1>6, <1>11, <1>12

-----------------------------------------------------------------------------
(* The users.                                                              *)

\* A careful user who starts or stops a timer of theirs leaves step_all where
\* it is, misses no timer that is due, and makes none due in this tic.
LEMMA UserStep ==
  ASSUME IInv, NEW t \in Ids, Unlocked, MayTouch(t), UNCHANGED <<cur_time, walkVars>>,
         WheelKept(t), callback[t] # "defer",
         \A u \in Ids \ {t} : state'[u] = state[u] /\ callback'[u] = callback[u],
         Running(t)' => \E d \in Tics \ {0} :
                          state'[t] = State("running", d, Plus(cur_time, d)) /\ MayArm(d)
  PROVE  CallbackInv' /\ WalkInv' /\ TimeInv'
<1>1. /\ cur_time \in Tics /\ 1 \in Tics /\ state \in [Ids -> States] /\ pc \in {"idle", "callback"}
      /\ it \in Ids \cup {Null} /\ Null \notin Ids /\ Pos(Now) \in Slots
  <2>1. cur_time \in Tics /\ 1 \in Tics
    BY SizeAssumption DEF IInv, TypeOK, Tics
  <2>2. Now \in Tics
    BY <2>1, TicArithmetic DEF Now
  <2>3. Pos(Now) \in Slots
    BY <2>2, PosSlot
  <2>4. state \in [Ids -> States] /\ it \in Ids \cup {Null} /\ pc \in {"idle", "callback"}
    BY DEF IInv, TypeOK, Tics, States, Unlocked
  <2>. QED BY <2>1, <2>3, <2>4 DEF Ids, Null
<1>2. CallbackInv'
  BY DEF IInv, CallbackInv, Running
<1>3. ASSUME Running(t)' PROVE Remaining(t)' \in 1 .. state'[t].duration /\ (Due(t)' => state'[t].duration = 1)
  <2>1. PICK d \in Tics \ {0} : state'[t] = State("running", d, Plus(cur_time, d)) /\ MayArm(d)
    BY <1>3
  <2>2. state'[t].duration = d /\ state'[t].timeout = Plus(cur_time, d) /\ cur_time' = cur_time
    BY <2>1 DEF State
  <2>3. Minus(Plus(cur_time, d), cur_time) = d /\ Plus(cur_time, d) \in Tics
    BY <1>1, Waiting, Zenon
  <2>4. Minus(Plus(cur_time, d), cur_time) = 1 <=> Plus(cur_time, d) = Plus(cur_time, 1)
    BY <1>1, <2>3, Waiting, Zenon
  <2>5. d \in 1 .. d
    BY SizeAssumption DEF Tics
  <2>6. Remaining(t)' = d
    BY <2>2, <2>3 DEF Remaining
  <2>7. Due(t)' => d = 1
    BY <2>2, <2>3, <2>4 DEF Due, Now
  <2>. QED BY <2>2, <2>5, <2>6, <2>7
<1>4. TimeInv'
  <2>. SUFFICES ASSUME careful', NEW u \in Ids, Running(u)' PROVE Remaining(u)' \in 1 .. state'[u].duration
    BY DEF TimeInv
  <2>1. CASE u = t
    BY <1>3, <2>1
  <2>2. CASE u # t
    <3>1. state'[u] = state[u] /\ Running(u) /\ careful /\ cur_time' = cur_time
      BY <2>2 DEF Running
    <3>2. Remaining(u) \in 1 .. state[u].duration /\ Remaining(u)' = Remaining(u)
      BY <3>1 DEF IInv, TimeInv, Remaining
    <3>. QED BY <3>1, <3>2
  <2>. QED BY <2>1, <2>2
<1>5. ASSUME careful, pc = "callback" PROVE ~Due(t)' /\ it # t
  <2>1. it # t
    BY <1>5 DEF MayTouch
  <2>2. ASSUME Due(t)' PROVE FALSE
    <3>1. PICK d \in Tics \ {0} : state'[t] = State("running", d, Plus(cur_time, d)) /\ MayArm(d)
      BY <2>2 DEF Due
    <3>2. d = 1
      BY <1>3, <2>2, <3>1 DEF Due, State
    <3>. QED BY <1>5, <3>1, <3>2 DEF MayArm
  <2>. QED BY <2>1, <2>2
<1>6. pc' = pc /\ it' = it /\ (careful' <=> careful) /\ Now' = Now
  BY DEF Now
<1>7. WalkInv'
  <2>1. CASE careful /\ pc = "callback"
    <3>. DEFINE p == Pos(Now)
    <3>1. ASSUME it # Null PROVE Contains(time_wheel'[p], it)
      <4>1. it \in Ids /\ it # t /\ Contains(time_wheel[p], it)
        BY <1>1, <1>5, <2>1, <3>1 DEF IInv, WalkInv
      <4>2. Running(it) /\ Pos(state[it].timeout) = p
        BY <1>1, <4>1 DEF IInv, WheelConsistent
      <4>3. Running(it)' /\ Pos(state'[it].timeout) = p
        BY <4>1, <4>2 DEF Running
      <4>. QED BY <1>1, <4>1, <4>3 DEF WheelKept, WheelConsistent
    <3>2. ASSUME NEW u \in Ids, Due(u)' PROVE it # Null /\ (u = it \/ Before(time_wheel'[p], it, u))
      <4>1. u # t /\ it # t
        BY <1>5, <2>1, <3>2
      <4>2. Due(u)
        BY <1>6, <3>2, <4>1 DEF Due, Running
      <4>3. it # Null /\ (u = it \/ Before(time_wheel[p], it, u))
        BY <2>1, <4>2 DEF IInv, WalkInv
      <4>. QED BY <1>1, <4>1, <4>3 DEF WheelKept
    <3>3. Pos(Now)' = p
      BY <1>6
    <3>. HIDE DEF p
    <3>. QED BY <1>6, <2>1, <3>1, <3>2, <3>3 DEF WalkInv
  <2>2. CASE ~careful \/ pc = "idle"
    <3>1. pc = "idle" => it = Null
      BY DEF IInv, WalkInv
    <3>. QED BY <1>6, <2>2, <3>1 DEF WalkInv
  <2>. QED BY <1>1, <2>1, <2>2
<1>. QED BY <1>2, <1>4, <1>7

\* What a user does to a timer they hold keeps the invariant.
LEMMA HeldStep ==
  ASSUME IInv, NEW t \in Handles, Unlocked, MayTouch(t), UNCHANGED <<cur_time, poolVars, walkVars>>,
         WheelKept(t), callback' \in [Ids -> {"none", "user", "defer"}],
         \A u \in Ids \ {t} : state'[u] = state[u] /\ callback'[u] = callback[u],
         Running(t)' => \E d \in Tics \ {0} :
                          state'[t] = State("running", d, Plus(cur_time, d)) /\ MayArm(d)
  PROVE  IInv'
<1>1. t \in Ids /\ allocated[t] /\ callback[t] # "defer"
  BY DEF Handles
<1>2. CallbackInv' /\ WalkInv' /\ TimeInv'
  BY <1>1, UserStep
<1>3. TypeOK' /\ WheelConsistent'
  BY DEF IInv, TypeOK, WheelKept, States, Tics
<1>4. FreeListConsistent'
  <2>1. \A u \in Ids : ~allocated[u] => ~Running(u)' /\ callback'[u] = "none"
    BY <1>1 DEF IInv, FreeListConsistent, Running
  <2>. QED BY <2>1 DEF IInv, FreeListConsistent
<1>5. PoolInv'
  BY DEF IInv, PoolInv
<1>. QED BY <1>2, <1>3, <1>4, <1>5 DEF IInv

\* timer_impl::run keeps the invariant.
LEMMA RunStep == ASSUME IInv, NEW t \in Handles, Run(t) PROVE IInv'
<1>. DEFINE d == state[t].duration
<1>1. t \in Ids /\ state \in [Ids -> States] /\ TypeOK /\ WheelConsistent
  BY DEF Handles, IInv, TypeOK, States, Tics
<1>2. d \in Tics \ {0}
  BY <1>1 DEF Run, States
<1>3. StartRun(t, d) /\ Unlocked /\ MayTouch(t) /\ MayArm(d) /\ UNCHANGED <<cur_time, callback, poolVars, walkVars>>
  BY DEF Run
<1>. HIDE DEF d
<1>4. state' = [state EXCEPT ![t] = State("running", d, Plus(cur_time, d))] /\ WheelKept(t)
  BY <1>1, <1>2, <1>3, StartRunWheel
<1>5. state'[t] = State("running", d, Plus(cur_time, d)) /\ \A u \in Ids \ {t} : state'[u] = state[u]
  BY <1>1, <1>4
<1>6. callback' \in [Ids -> {"none", "user", "defer"}] /\ callback' = callback
  BY <1>1, <1>3 DEF TypeOK
<1>. QED BY <1>2, <1>3, <1>4, <1>5, <1>6, HeldStep

\* timer_impl::stop keeps the invariant.
LEMMA StopStep == ASSUME IInv, NEW t \in Handles, Stop(t) PROVE IInv'
<1>. DEFINE r == IF Running(t) THEN [state[t] EXCEPT !.mode = "stopped"] ELSE state[t]
<1>1. t \in Ids /\ state \in [Ids -> States] /\ TypeOK /\ WheelConsistent
  BY DEF Handles, IInv, TypeOK, States, Tics
<1>2. r \in States /\ r.mode # "running"
  BY <1>1 DEF States, Running
<1>3. StopTimer(t, "stopped") /\ Unlocked /\ MayTouch(t) /\ UNCHANGED <<cur_time, callback, poolVars, walkVars>>
  BY DEF Stop
<1>4. state' = [state EXCEPT ![t] = r]
  BY <1>1, <1>3 DEF StopTimer
<1>5. IF Running(t)
      THEN time_wheel' = Pop(time_wheel, t) /\ nof_timers_running' = nof_timers_running - 1
      ELSE UNCHANGED listVars
  BY <1>3 DEF StopTimer
<1>. HIDE DEF r
<1>6. WheelKept(t)
  BY <1>1, <1>2, <1>4, <1>5, StopWheel, Zenon
<1>7. ~Running(t)' /\ \A u \in Ids \ {t} : state'[u] = state[u]
  BY <1>1, <1>2, <1>4 DEF Running
<1>8. callback' \in [Ids -> {"none", "user", "defer"}] /\ callback' = callback
  BY <1>1, <1>3 DEF TypeOK
<1>. QED BY <1>3, <1>6, <1>7, <1>8, HeldStep

\* timer_impl::set keeps the invariant.
LEMMA SetStep ==
  ASSUME IInv, NEW t \in Handles, NEW c \in Durations, NEW cb \in BOOLEAN, Set(t, c, cb) PROVE IInv'
<1>. DEFINE d == IF c = 0 THEN 1 ELSE c
            r == State("stopped", d, 0)
<1>1. t \in Ids /\ state \in [Ids -> States] /\ TypeOK /\ WheelConsistent
  BY DEF Handles, IInv, TypeOK, States, Tics
<1>2. d \in Tics \ {0} /\ 0 \in Tics
  BY SizeAssumption, DurationAssumption DEF Tics
<1>3. Unlocked /\ MayTouch(t) /\ UNCHANGED <<cur_time, poolVars, walkVars>>
  BY DEF Set
<1>4. callback' = [callback EXCEPT ![t] = IF cb THEN "user" ELSE @]
  BY DEF Set
<1>5. callback' \in [Ids -> {"none", "user", "defer"}] /\ \A u \in Ids \ {t} : callback'[u] = callback[u]
  <2>1. callback \in [Ids -> {"none", "user", "defer"}]
    BY <1>1 DEF TypeOK
  <2>. QED BY <1>1, <1>4, <2>1
<1>6. CASE Running(t)
  <2>1. MayArm(d) /\ StartRun(t, d)
    BY <1>6 DEF Set
  <2>. HIDE DEF d
  <2>2. state' = [state EXCEPT ![t] = State("running", d, Plus(cur_time, d))] /\ WheelKept(t)
    BY <1>1, <1>2, <2>1, StartRunWheel
  <2>3. state'[t] = State("running", d, Plus(cur_time, d)) /\ \A u \in Ids \ {t} : state'[u] = state[u]
    BY <1>1, <2>2
  <2>. QED BY <1>2, <1>3, <1>5, <2>1, <2>2, <2>3, HeldStep
<1>7. CASE ~Running(t)
  <2>1. state' = [state EXCEPT ![t] = r] /\ UNCHANGED listVars
    BY <1>7 DEF Set
  <2>2. r \in States /\ r.mode # "running"
    BY <1>2 DEF State, States
  <2>. HIDE DEF r
  <2>3. WheelKept(t)
    BY <1>1, <1>7, <2>1, <2>2, StopWheel, Zenon
  <2>4. ~Running(t)' /\ \A u \in Ids \ {t} : state'[u] = state[u]
    BY <1>1, <2>1, <2>2 DEF Running
  <2>. QED BY <1>3, <1>5, <2>3, <2>4, HeldStep
<1>. QED BY <1>6, <1>7

\* unique_timer::release keeps the invariant: the timer is stopped before it
\* goes to the free list.
LEMMA ReleaseStep == ASSUME IInv, NEW t \in Handles, Release(t) PROVE IInv'
<1>. DEFINE r == State("stopped", 0, 0)
<1>1. /\ t \in Ids /\ state \in [Ids -> States] /\ TypeOK /\ WheelConsistent /\ FreeListConsistent /\ PoolInv
      /\ callback[t] # "defer" /\ callback \in [Ids -> {"none", "user", "defer"}]
  BY DEF Handles, IInv, TypeOK, States, Tics
<1>2. r \in States /\ r.mode # "running"
  BY SizeAssumption DEF State, States, Tics
<1>3. DeallocTimer(t) /\ Unlocked /\ MayTouch(t) /\ UNCHANGED <<cur_time, nof_timers, walkVars>>
  BY DEF Release
<1>4. state' = [state EXCEPT ![t] = r] /\ callback' = [callback EXCEPT ![t] = "none"]
  BY <1>3 DEF DeallocTimer
<1>5. IF Running(t)
      THEN time_wheel' = Pop(time_wheel, t) /\ nof_timers_running' = nof_timers_running - 1
      ELSE UNCHANGED listVars
  BY <1>3 DEF DeallocTimer
<1>. HIDE DEF r
<1>6. WheelKept(t)
  BY <1>1, <1>2, <1>4, <1>5, StopWheel, Zenon
<1>7. ~Running(t)' /\ \A u \in Ids \ {t} : state'[u] = state[u]
  BY <1>1, <1>2, <1>4 DEF Running
<1>8. /\ callback' \in [Ids -> {"none", "user", "defer"}] /\ callback'[t] = "none"
      /\ \A u \in Ids \ {t} : callback'[u] = callback[u]
  BY <1>1, <1>4
<1>9. CallbackInv' /\ WalkInv' /\ TimeInv'
  BY <1>1, <1>3, <1>6, <1>7, <1>8, UserStep
<1>10. /\ allocated' = [allocated EXCEPT ![t] = FALSE]
       /\ free_list' \in Seq(Ids) /\ IsInjective(free_list') /\ PoolInv'
       /\ Range(free_list') = {u \in 1 .. nof_timers' : ~allocated'[u]}
  BY <1>1, <1>3, DeallocPool
<1>11. allocated' \in [Ids -> BOOLEAN] /\ \A u \in Ids \ {t} : allocated'[u] = allocated[u]
  BY <1>1, <1>10 DEF TypeOK
<1>12. TypeOK'
  BY <1>3, <1>6, <1>8, <1>10, <1>11 DEF IInv, TypeOK, WheelKept, States, Tics
<1>13. \A u \in Ids : ~allocated'[u] => ~Running(u)' /\ callback'[u] = "none"
  BY <1>1, <1>7, <1>8, <1>11 DEF FreeListConsistent, Running
<1>14. FreeListConsistent'
  BY <1>10, <1>13 DEF FreeListConsistent
<1>. QED BY <1>6, <1>9, <1>10, <1>12, <1>14 DEF IInv, WheelKept

\* get_unique_timer keeps the invariant.
LEMMA GetStep == ASSUME IInv, GetUniqueTimer PROVE IInv'
<1>1. PICK t \in Ids : Alloc(t)
  BY DEF GetUniqueTimer
<1>2. TypeOK /\ FreeListConsistent /\ PoolInv /\ UNCHANGED <<cur_time, state, callback, listVars, walkVars>>
  BY DEF IInv, GetUniqueTimer
<1>3. /\ ~allocated[t] /\ allocated' = [allocated EXCEPT ![t] = TRUE]
      /\ free_list' \in Seq(Ids) /\ nof_timers' \in Capacity .. MaxTimers
      /\ IsInjective(free_list') /\ PoolInv'
      /\ Range(free_list') = {u \in 1 .. nof_timers' : ~allocated'[u]}
  BY <1>1, <1>2, AllocPool
<1>4. allocated' \in [Ids -> BOOLEAN] /\ \A u \in Ids : ~allocated'[u] => ~allocated[u]
  BY <1>2, <1>3 DEF TypeOK
<1>5. TypeOK'
  BY <1>2, <1>3, <1>4 DEF TypeOK
<1>6. \A u \in Ids : ~allocated'[u] => ~Running(u)' /\ callback'[u] = "none"
  BY <1>2, <1>4 DEF FreeListConsistent, Running
<1>7. FreeListConsistent'
  BY <1>3, <1>6 DEF FreeListConsistent
<1>8. WheelConsistent' /\ CallbackInv' /\ TimeInv'
  BY <1>2 DEF IInv, WheelConsistent, CallbackInv, TimeInv, Running, Remaining
<1>9. WalkInv'
  BY <1>2 DEF IInv, WalkInv, Due, Running, Now
<1>. QED BY <1>3, <1>5, <1>7, <1>8, <1>9 DEF IInv

\* defer_callback keeps the invariant: the timer it takes is not the one
\* step_all visits next, which runs.
LEMMA DeferStep == ASSUME IInv, NEW c \in Durations, DeferCallback(c) PROVE IInv'
<1>. DEFINE d == IF c = 0 THEN 1 ELSE c
<1>1. PICK t \in Ids : Alloc(t) /\ callback' = [callback EXCEPT ![t] = "defer"] /\ StartRun(t, d)
  BY Zenon DEF DeferCallback
<1>2. /\ TypeOK /\ WheelConsistent /\ FreeListConsistent /\ PoolInv /\ state \in [Ids -> States]
      /\ callback \in [Ids -> {"none", "user", "defer"}]
  BY DEF IInv, TypeOK, States, Tics
<1>3. d \in Tics \ {0}
  BY SizeAssumption, DurationAssumption DEF Tics
<1>4. MayArm(d) /\ Unlocked /\ UNCHANGED <<cur_time, walkVars>>
  BY <1>1 DEF DeferCallback, Alloc
<1>. HIDE DEF d
<1>5. /\ ~allocated[t] /\ allocated' = [allocated EXCEPT ![t] = TRUE]
      /\ free_list' \in Seq(Ids) /\ nof_timers' \in Capacity .. MaxTimers
      /\ IsInjective(free_list') /\ PoolInv'
      /\ Range(free_list') = {u \in 1 .. nof_timers' : ~allocated'[u]}
  BY <1>1, <1>2, AllocPool
<1>6. ~Running(t) /\ callback[t] # "defer"
  BY <1>2, <1>5 DEF FreeListConsistent
<1>7. MayTouch(t)
  <2>1. ASSUME careful, t = it PROVE FALSE
    <3>1. it # Null
      BY <2>1 DEF Ids, Null
    <3>2. Contains(time_wheel[Pos(Now)], t) /\ Pos(Now) \in Slots
      <4>1. cur_time \in Tics /\ 1 \in Tics
        BY <1>2, SizeAssumption DEF TypeOK, Tics
      <4>2. Now \in Tics
        BY <4>1, TicArithmetic DEF Now
      <4>. QED BY <2>1, <3>1, <4>2, PosSlot DEF IInv, WalkInv
    <3>. QED BY <1>2, <1>6, <3>2 DEF WheelConsistent
  <2>. QED BY <2>1 DEF MayTouch
<1>8. state' = [state EXCEPT ![t] = State("running", d, Plus(cur_time, d))] /\ WheelKept(t)
  BY <1>1, <1>2, <1>3, StartRunWheel
<1>9. state'[t] = State("running", d, Plus(cur_time, d)) /\ \A u \in Ids \ {t} : state'[u] = state[u]
  BY <1>2, <1>8
<1>10. callback' \in [Ids -> {"none", "user", "defer"}] /\ \A u \in Ids \ {t} : callback'[u] = callback[u]
  BY <1>1, <1>2
<1>11. CallbackInv' /\ WalkInv' /\ TimeInv'
  BY <1>3, <1>4, <1>6, <1>7, <1>8, <1>9, <1>10, UserStep
<1>12. /\ allocated' \in [Ids -> BOOLEAN] /\ allocated'[t]
       /\ \A u \in Ids \ {t} : allocated'[u] = allocated[u]
  BY <1>2, <1>5 DEF TypeOK
<1>13. TypeOK'
  BY <1>4, <1>5, <1>8, <1>10, <1>12 DEF IInv, TypeOK, WheelKept, States, Tics
<1>14. \A u \in Ids : ~allocated'[u] => ~Running(u)' /\ callback'[u] = "none"
  BY <1>2, <1>9, <1>10, <1>12 DEF FreeListConsistent, Running
<1>15. FreeListConsistent'
  BY <1>5, <1>14 DEF FreeListConsistent
<1>. QED BY <1>5, <1>8, <1>11, <1>13, <1>15 DEF IInv, WheelKept

\* stop_all keeps the invariant.
LEMMA StopAllStep == ASSUME IInv, StopAll PROVE IInv'
<1>. DEFINE R == {t \in Ids : Running(t)}
<1>1. state \in [Ids -> States] /\ TypeOK /\ nof_timers_running = Cardinality(R)
  BY DEF IInv, TypeOK, States, Tics, WheelConsistent
<1>2. /\ time_wheel' = [p \in Slots |-> <<>>]
      /\ state' = [t \in Ids |-> IF Running(t) THEN [state[t] EXCEPT !.mode = "stopped"] ELSE state[t]]
      /\ nof_timers_running' = nof_timers_running - Cardinality(R)
      /\ UNCHANGED <<cur_time, callback, poolVars, walkVars>> /\ (careful => pc = "idle")
  BY DEF StopAll
<1>3. state' \in [Ids -> States] /\ \A t \in Ids : ~Running(t)'
  BY <1>1, <1>2 DEF States, Running
<1>4. nof_timers_running' = 0
  BY <1>1, <1>2 DEF TypeOK
<1>5. /\ time_wheel' \in [Slots -> Seq(Ids)]
      /\ \A p \in Slots : IsInjective(time_wheel'[p]) /\ \A t \in Ids : ~Contains(time_wheel'[p], t)
  BY <1>2 DEF IsInjective, Contains
<1>6. TypeOK'
  <2>1. nof_timers_running' \in 0 .. MaxTimers
    BY <1>4, SizeAssumption
  <2>. QED BY <1>1, <1>2, <1>3, <1>5, <2>1 DEF TypeOK, States, Tics
<1>7. WheelConsistent'
  <2>1. {t \in Ids : Running(t)'} = {}
    BY <1>3
  <2>2. Cardinality({t \in Ids : Running(t)'}) = 0
    BY <2>1, FS_EmptySet
  <2>. QED BY <1>3, <1>4, <1>5, <2>2 DEF WheelConsistent
<1>8. FreeListConsistent' /\ PoolInv' /\ CallbackInv' /\ TimeInv'
  BY <1>2, <1>3 DEF IInv, FreeListConsistent, PoolInv, CallbackInv, TimeInv
<1>9. WalkInv'
  BY <1>2 DEF IInv, WalkInv
<1>. QED BY <1>6, <1>7, <1>8, <1>9 DEF IInv

-----------------------------------------------------------------------------
(* step_all.                                                               *)

\* The slot of the tic step_all works on.
LEMMA SlotNow == ASSUME TypeOK PROVE cur_time \in Tics /\ Now \in Tics /\ Pos(Now) \in Slots
<1>1. cur_time \in Tics /\ 1 \in Tics
  BY SizeAssumption DEF TypeOK, Tics
<1>2. Now \in Tics
  BY <1>1, TicArithmetic DEF Now
<1>. QED BY <1>1, <1>2, PosSlot

\* step_all starts with the first timer of the slot: all that are due are
\* there.
LEMMA BeginStep == ASSUME IInv, StepBegin PROVE IInv'
<1>. DEFINE p == Pos(Now)
            s == time_wheel[p]
<1>1. /\ TypeOK /\ pc = "idle" /\ pc' = "walk" /\ it' = (IF s = <<>> THEN Null ELSE Head(s))
      /\ UNCHANGED <<cur_time, state, callback, poolVars, listVars, firing, deferred, careful>>
  BY DEF IInv, StepBegin
<1>2. p \in Slots /\ s \in Seq(Ids) /\ Now' = Now
  BY <1>1, SlotNow DEF TypeOK, Now
<1>3. s # <<>> => it' = s[1] /\ 1 \in 1 .. Len(s) /\ it' \in Ids /\ Len(s) \in Nat
  BY <1>1, <1>2
<1>4. it' \in Ids \cup {Null} /\ Null \notin Ids
  BY <1>1, <1>3 DEF Ids, Null
<1>5. TypeOK' /\ WheelConsistent' /\ FreeListConsistent' /\ PoolInv' /\ CallbackInv' /\ TimeInv'
  <2>1. TypeOK'
    BY <1>1, <1>4 DEF TypeOK
  <2>2. WheelConsistent' /\ FreeListConsistent' /\ PoolInv'
    BY <1>1 DEF IInv, WheelConsistent, FreeListConsistent, PoolInv, Running
  <2>3. CallbackInv' /\ TimeInv'
    BY <1>1 DEF IInv, CallbackInv, TimeInv, Running, Remaining
  <2>. QED BY <2>1, <2>2, <2>3
<1>. HIDE DEF s
<1>6. it' # Null => Contains(s, it')
  BY <1>1, <1>3 DEF Contains
<1>7. ASSUME NEW u \in Ids, Due(u) PROVE it' # Null /\ (u = it' \/ Before(s, it', u))
  <2>1. Contains(s, u)
    BY <1>2, <1>7 DEF IInv, WheelConsistent, Due, s
  <2>2. PICK k \in 1 .. Len(s) : s[k] = u
    BY <2>1 DEF Contains
  <2>3. s # <<>>
    BY <2>2
  <2>4. CASE k = 1
    BY <1>3, <1>4, <2>2, <2>3, <2>4
  <2>5. CASE k # 1
    <3>1. 1 < k
      BY <1>2, <2>5
    <3>. QED BY <1>3, <1>4, <2>2, <2>3, <3>1 DEF Before
  <2>. QED BY <2>4, <2>5
<1>8. time_wheel'[Pos(Now)'] = s /\ \A u \in Ids : Due(u)' => Due(u)
  BY <1>1, <1>2 DEF s, Due, Running
<1>9. WalkInv'
  BY <1>1, <1>6, <1>7, <1>8 DEF WalkInv
<1>. QED BY <1>5, <1>9 DEF IInv

\* step_all visits a timer: its iterator is already at the next one when it
\* stops this one, and no timer that is due stays behind it.
LEMMA VisitStep == ASSUME IInv, StepVisit PROVE IInv'
<1>. DEFINE p == Pos(Now)
            n == NextNode(it)
            expires == state[it].timeout = Now
            r == IF expires /\ Running(it) THEN [state[it] EXCEPT !.mode = "expired"] ELSE state[it]
<1>1. /\ TypeOK /\ WheelConsistent /\ state \in [Ids -> States] /\ it \in Ids /\ p \in Slots
      /\ pc = "walk" /\ n \in Ids \cup {Null}
  <2>1. TypeOK /\ it \in Ids
    BY DEF IInv, TypeOK, StepVisit
  <2>2. n \in Ids \cup {Null}
    BY <2>1, NextNodeType
  <2>. QED BY <2>1, <2>2, SlotNow DEF IInv, TypeOK, StepVisit, States, Tics
<1>2. it' = n /\ UNCHANGED <<cur_time, callback, poolVars, careful>> /\ Now' = Now
  BY DEF StepVisit, Now
<1>3. state' = [state EXCEPT ![it] = r]
  BY <1>1 DEF StepVisit, StopTimer
<1>4. IF expires /\ Running(it)
      THEN time_wheel' = Pop(time_wheel, it) /\ nof_timers_running' = nof_timers_running - 1
      ELSE UNCHANGED listVars
  BY DEF StepVisit, StopTimer
<1>5. \/ expires /\ pc' = "callback" /\ firing' = it /\ deferred' = (callback[it] = "defer")
      \/ pc' = "walk" /\ firing' = firing /\ deferred' = deferred
  BY <1>1 DEF StepVisit
<1>6. r \in States /\ (expires => r.mode # "running") /\ (~expires => r = state[it])
  BY <1>1 DEF States, Running
<1>. HIDE DEF n, r, expires
<1>7. WheelKept(it)
  <2>1. CASE expires
    BY <1>1, <1>3, <1>4, <1>6, <2>1, StopWheel, Zenon
  <2>2. CASE ~expires
    <3>1. UNCHANGED <<state, listVars>>
      BY <1>1, <1>3, <1>4, <1>6, <2>2
    <3>2. WheelConsistent'
      BY <1>1, <3>1 DEF WheelConsistent, Running
    <3>. QED BY <1>1, <3>1, <3>2 DEF WheelKept, TypeOK
  <2>. QED BY <2>1, <2>2
<1>8. /\ state'[it] = r /\ \A u \in Ids \ {it} : state'[u] = state[u]
      /\ \A u \in Ids : Running(u)' => Running(u) /\ state'[u] = state[u]
  <2>1. state'[it] = r /\ \A u \in Ids \ {it} : state'[u] = state[u]
    BY <1>1, <1>3
  <2>2. state'[it].mode = "running" => Running(it) /\ state'[it] = state[it]
    BY <1>6, <2>1 DEF Running
  <2>. QED BY <2>1, <2>2 DEF Running
<1>9. TypeOK' /\ WheelConsistent'
  <2>1. pc' \in {"idle", "walk", "callback"} /\ firing' \in Ids \cup {Null} /\ deferred' \in BOOLEAN
    BY <1>1, <1>5, Zenon DEF TypeOK
  <2>. QED BY <1>1, <1>2, <1>7, <2>1 DEF TypeOK, WheelKept, States, Tics
<1>10. FreeListConsistent' /\ PoolInv'
  BY <1>2, <1>8 DEF IInv, FreeListConsistent, PoolInv
<1>11. CallbackInv'
  BY <1>1, <1>2, <1>5, <1>6, <1>8, Zenon DEF CallbackInv, Running
<1>12. TimeInv'
  BY <1>2, <1>8 DEF IInv, TimeInv, Remaining
<1>13. ASSUME careful PROVE /\ n # Null => Contains(time_wheel'[p], n)
                            /\ \A u \in Ids : Due(u)' => n # Null /\ (u = n \/ Before(time_wheel'[p], n, u))
  <2>1. Contains(time_wheel[p], it) /\ Running(it)
    BY <1>1, <1>13 DEF IInv, WalkInv, WheelConsistent, Ids, Null
  <2>2. /\ n # Null => n \in Ids \ {it} /\ Contains(time_wheel[p], n)
        /\ \A u \in Ids : Before(time_wheel[p], it, u) =>
               n # Null /\ (u = n \/ Before(time_wheel[p], n, u))
    BY <1>1, <2>1, NextNodeBehind, Zenon DEF n
  <2>3. ASSUME n # Null PROVE Contains(time_wheel'[p], n)
    <3>1. n \in Ids \ {it} /\ Running(n) /\ Pos(state[n].timeout) = p
      BY <1>1, <2>2, <2>3 DEF WheelConsistent
    <3>2. state'[n].mode = "running" /\ Pos(state'[n].timeout) = p
      BY <1>8, <3>1 DEF Running
    <3>. QED BY <1>1, <1>9, <3>1, <3>2 DEF WheelConsistent, Running
  <2>4. ASSUME NEW u \in Ids, Due(u)' PROVE n # Null /\ (u = n \/ Before(time_wheel'[p], n, u))
    <3>1. Due(u)
      BY <1>2, <1>8, <2>4 DEF Due
    <3>2. u # it
      BY <1>2, <1>6, <1>8, <2>4 DEF Due, Running, expires
    <3>3. Before(time_wheel[p], it, u)
      BY <1>1, <1>13, <3>1, <3>2 DEF IInv, WalkInv
    <3>4. n # Null /\ n \in Ids \ {it} /\ (u = n \/ Before(time_wheel[p], n, u))
      BY <2>2, <3>3
    <3>. QED BY <1>1, <1>7, <3>2, <3>4 DEF WheelKept
  <2>. QED BY <2>3, <2>4
<1>14. WalkInv'
  <2>1. pc' # "idle" /\ Pos(Now)' = p
    BY <1>2, <1>5
  <2>. QED BY <1>2, <1>13, <2>1 DEF WalkInv
<1>. QED BY <1>9, <1>10, <1>11, <1>12, <1>14 DEF IInv

\* When a callback returns, the timer of a defer_callback goes back to the pool.
LEMMA ReturnStep == ASSUME IInv, CallbackReturn PROVE IInv'
<1>1. /\ TypeOK /\ WheelConsistent /\ FreeListConsistent /\ PoolInv /\ state \in [Ids -> States]
      /\ callback \in [Ids -> {"none", "user", "defer"}] /\ pc = "callback" /\ firing \in Ids
  BY DEF IInv, TypeOK, CallbackInv, CallbackReturn, States, Tics
<1>2. /\ pc' = "walk" /\ firing' = Null /\ deferred' = FALSE /\ UNCHANGED <<cur_time, it, careful>>
      /\ Now' = Now
  BY DEF CallbackReturn, Now
<1>3. CallbackInv'
  BY <1>2 DEF CallbackInv
<1>4. CASE ~deferred
  <2>1. UNCHANGED <<state, callback, listVars, poolVars>>
    BY <1>4 DEF CallbackReturn
  <2>2. TypeOK' /\ WheelConsistent'
    BY <1>1, <1>2, <2>1, Zenon DEF TypeOK, WheelConsistent, Running
  <2>3. FreeListConsistent' /\ PoolInv' /\ TimeInv'
    BY <1>2, <2>1 DEF IInv, FreeListConsistent, PoolInv, TimeInv, Running, Remaining
  <2>4. WalkInv'
    BY <1>1, <1>2, <2>1 DEF IInv, WalkInv, Due, Running
  <2>. QED BY <1>3, <2>2, <2>3, <2>4 DEF IInv
<1>5. CASE deferred
  <2>. DEFINE t == firing
              r == State("stopped", 0, 0)
  <2>1. DeallocTimer(t) /\ nof_timers' = nof_timers /\ ~Running(t) /\ t \in Ids
    BY <1>1, <1>5 DEF CallbackReturn, IInv, CallbackInv
  <2>. HIDE DEF t
  <2>2. /\ state' = [state EXCEPT ![t] = r] /\ callback' = [callback EXCEPT ![t] = "none"]
        /\ UNCHANGED listVars
    BY <2>1 DEF DeallocTimer
  <2>3. r \in States /\ r.mode # "running"
    BY SizeAssumption DEF State, States, Tics
  <2>. HIDE DEF r
  <2>4. WheelKept(t)
    BY <1>1, <2>1, <2>2, <2>3, StopWheel, Zenon
  <2>5. \A u \in Ids : IF u = t THEN state'[u] = r ELSE state'[u] = state[u]
    BY <1>1, <2>1, <2>2
  <2>6. \A u \in Ids : Running(u)' => Running(u) /\ state'[u] = state[u]
    BY <2>3, <2>5 DEF Running
  <2>7. /\ callback' \in [Ids -> {"none", "user", "defer"}]
        /\ \A u \in Ids : callback'[u] = IF u = t THEN "none" ELSE callback[u]
    BY <1>1, <2>1, <2>2
  <2>8. /\ allocated' = [allocated EXCEPT ![t] = FALSE]
        /\ free_list' \in Seq(Ids) /\ IsInjective(free_list') /\ PoolInv'
        /\ Range(free_list') = {u \in 1 .. nof_timers' : ~allocated'[u]}
    BY <1>1, <2>1, DeallocPool
  <2>9. allocated' \in [Ids -> BOOLEAN] /\ \A u \in Ids : u # t => allocated'[u] = allocated[u]
    BY <1>1, <2>8, Zenon DEF TypeOK
  <2>10. TypeOK'
    BY <1>1, <1>2, <2>1, <2>4, <2>7, <2>8, <2>9, Zenon DEF TypeOK, WheelKept, States, Tics
  <2>11. \A u \in Ids : ~allocated'[u] => ~Running(u)' /\ callback'[u] = "none"
    BY <1>1, <2>1, <2>6, <2>7, <2>9 DEF FreeListConsistent
  <2>12. FreeListConsistent'
    BY <2>8, <2>11 DEF FreeListConsistent
  <2>13. TimeInv'
    BY <1>2, <2>6 DEF IInv, TimeInv, Remaining
  <2>14. WalkInv'
    <3>1. (\A u \in Ids : Due(u)' => Due(u)) /\ time_wheel' = time_wheel
      BY <1>2, <2>2, <2>6 DEF Due
    <3>. QED BY <1>1, <1>2, <3>1 DEF IInv, WalkInv
  <2>. QED BY <1>3, <2>4, <2>8, <2>10, <2>12, <2>13, <2>14 DEF IInv, WheelKept
<1>6. deferred \in BOOLEAN
  BY <1>1 DEF TypeOK
<1>. QED BY <1>4, <1>5, <1>6

\* The clock goes on when step_all has reached the end of the slot: with careful
\* users, no timer that was due still runs.
LEMMA EndStep == ASSUME IInv, StepEnd PROVE IInv'
<1>1. /\ TypeOK /\ pc = "walk" /\ it = Null /\ cur_time' = Now /\ pc' = "idle"
      /\ UNCHANGED <<state, callback, poolVars, listVars, it, firing, deferred, careful>>
  BY DEF IInv, StepEnd
<1>2. TypeOK'
  BY <1>1, SlotNow DEF TypeOK, Tics
<1>3. WheelConsistent' /\ FreeListConsistent' /\ PoolInv'
  BY <1>1 DEF IInv, WheelConsistent, FreeListConsistent, PoolInv, Running
<1>4. CallbackInv' /\ WalkInv'
  BY <1>1 DEF CallbackInv, WalkInv
<1>5. ASSUME careful, NEW t \in Ids, Running(t) PROVE Remaining(t)' \in 1 .. state[t].duration
  <2>1. cur_time \in Tics /\ state[t].timeout \in Tics /\ state[t].duration \in Tics
    BY <1>1 DEF TypeOK, Tics
  <2>2. Remaining(t) \in 1 .. state[t].duration
    BY <1>5 DEF IInv, TimeInv
  <2>3. state[t].timeout # Now
    BY <1>1, <1>5 DEF IInv, WalkInv, Due
  <2>4. /\ Minus(state[t].timeout, cur_time) = 1 <=> state[t].timeout = Plus(cur_time, 1)
        /\ Minus(state[t].timeout, cur_time) > 0 =>
             Minus(state[t].timeout, Plus(cur_time, 1)) = Minus(state[t].timeout, cur_time) - 1
    BY <2>1, Waiting, Zenon
  <2>5. Remaining(t) # 1
    BY <2>3, <2>4 DEF Remaining, Now
  <2>6. Remaining(t) > 0 => Remaining(t)' = Remaining(t) - 1
    BY <1>1, <2>4 DEF Remaining, Now
  <2>7. state[t].duration \in Nat
    BY <2>1, SizeAssumption DEF Tics
  <2>. QED BY <2>2, <2>5, <2>6, <2>7
<1>6. TimeInv'
  BY <1>1, <1>5 DEF TimeInv, Running
<1>. QED BY <1>2, <1>3, <1>4, <1>6 DEF IInv

-----------------------------------------------------------------------------
(* The theorems.                                                           *)

\* A timer_handler starts with every timer free and an empty wheel.
LEMMA InitStep == Init => IInv
<1>. SUFFICES ASSUME Init PROVE IInv
  OBVIOUS
<1>1. /\ 0 \in Tics /\ State("stopped", 0, 0) \in States /\ State("stopped", 0, 0).mode # "running"
      /\ Capacity \in Nat /\ MaxTimers \in Nat /\ Capacity <= MaxTimers
  BY SizeAssumption DEF State, States, Tics
<1>2. \A t \in Ids : state[t] = State("stopped", 0, 0) /\ ~allocated[t] /\ callback[t] = "none"
  BY DEF Init
<1>3. \A t \in Ids : ~Running(t)
  BY <1>1, <1>2 DEF Running
<1>4. state \in [Ids -> States]
  BY <1>1 DEF Init
<1>5. free_list \in Seq(Ids) /\ Len(free_list) = Capacity /\ \A i \in 1 .. Capacity : free_list[i] = i
  BY <1>1 DEF Init, Ids
<1>6. \A p \in Slots : time_wheel[p] = <<>>
  BY DEF Init
<1>7. TypeOK
  <2>1. nof_timers \in Capacity .. MaxTimers /\ nof_timers_running \in 0 .. MaxTimers
    BY <1>1 DEF Init
  <2>2. time_wheel \in [Slots -> Seq(Ids)]
    BY DEF Init
  <2>. QED BY <1>1, <1>4, <1>5, <2>1, <2>2, Zenon DEF Init, TypeOK, States, Tics
<1>8. WheelConsistent
  <2>1. {t \in Ids : Running(t)} = {}
    BY <1>3
  <2>2. Cardinality({}) = 0
    BY FS_EmptySet
  <2>3. \A p \in Slots : IsInjective(time_wheel[p]) /\ \A t \in Ids : ~Contains(time_wheel[p], t)
    BY <1>6 DEF IsInjective, Contains
  <2>. QED BY <1>3, <2>1, <2>2, <2>3, Zenon DEF Init, WheelConsistent
<1>9. FreeListConsistent
  <2>1. IsInjective(free_list)
    BY <1>5 DEF IsInjective
  <2>2. Range(free_list) = 1 .. Capacity
    BY <1>1, <1>5 DEF Range
  <2>3. {t \in 1 .. nof_timers : ~allocated[t]} = 1 .. Capacity
    <3>1. nof_timers = Capacity /\ 1 .. Capacity \subseteq Ids
      BY <1>1 DEF Init, Ids
    <3>. QED BY <1>2, <3>1
  <2>. QED BY <1>2, <1>3, <2>1, <2>2, <2>3 DEF FreeListConsistent
<1>10. PoolInv /\ CallbackInv /\ WalkInv /\ TimeInv
  BY <1>2, <1>3 DEF Init, PoolInv, CallbackInv, WalkInv, TimeInv
<1>. QED BY <1>7, <1>8, <1>9, <1>10 DEF IInv

\* Every step of a user or of step_all keeps the invariant.
LEMMA NextStep == IInv /\ [Next]_vars => IInv'
<1>. SUFFICES ASSUME IInv, [Next]_vars PROVE IInv'
  OBVIOUS
<1>1. CASE User
  <2>1. CASE GetUniqueTimer
    BY <2>1, GetStep
  <2>2. ASSUME NEW t \in Handles, Run(t) \/ Stop(t) \/ Release(t) PROVE IInv'
    BY <2>2, RunStep, StopStep, ReleaseStep
  <2>3. ASSUME NEW t \in Handles, NEW d \in Durations, NEW cb \in BOOLEAN, Set(t, d, cb) PROVE IInv'
    BY <2>3, SetStep
  <2>4. ASSUME NEW d \in Durations, DeferCallback(d) PROVE IInv'
    BY <2>4, DeferStep
  <2>. QED BY <1>1, <2>1, <2>2, <2>3, <2>4 DEF User
<1>2. CASE StopAll
  BY <1>2, StopAllStep
<1>3. CASE StepAll
  BY <1>3, BeginStep, VisitStep, ReturnStep, EndStep DEF StepAll
<1>4. CASE UNCHANGED vars
  <2>1. /\ UNCHANGED <<cur_time, state, callback, nof_timers, allocated, free_list>>
        /\ UNCHANGED <<time_wheel, nof_timers_running, pc, it, firing, deferred, careful>>
    BY <1>4 DEF vars
  <2>2. TypeOK' /\ WheelConsistent' /\ FreeListConsistent'
    BY <2>1 DEF IInv, TypeOK, WheelConsistent, FreeListConsistent, Running
  <2>3. PoolInv' /\ CallbackInv' /\ TimeInv'
    BY <2>1 DEF IInv, PoolInv, CallbackInv, TimeInv, Remaining, Running
  <2>4. WalkInv'
    BY <2>1 DEF IInv, WalkInv, Due, Running, Now
  <2>. QED BY <2>2, <2>3, <2>4 DEF IInv
<1>. QED BY <1>1, <1>2, <1>3, <1>4 DEF Next

\* The invariant of timer_handler, its lists, its pool and step_all's walk.
THEOREM TimersInductive == Spec => []IInv
BY InitStep, NextStep, PTL DEF Spec

\* timer_handler's fields keep their types for any number of timers, any
\* wheel and any tic_t: nof_timers_running_ never wraps below 0 and step_all's
\* iterator is a timer or the end of a list.
THEOREM TimersTypeCorrect == Spec => []TypeOK
<1>1. IInv => TypeOK
  BY DEF IInv
<1>. QED BY <1>1, TimersInductive, PTL

\* The wheel agrees with the timers' states, whatever the callbacks that
\* step_all calls with its mutex released do to the timers.
THEOREM WheelAgrees == Spec => []WheelConsistent
<1>1. IInv => WheelConsistent
  BY DEF IInv
<1>. QED BY <1>1, TimersInductive, PTL

\* alloc_timer and dealloc_timer keep the free list: no timer is in it twice
\* or while somebody has it, and a free one neither runs nor has a callback.
THEOREM FreeListAgrees == Spec => []FreeListConsistent
<1>1. IInv => FreeListConsistent
  BY DEF IInv
<1>. QED BY <1>1, TimersInductive, PTL

\* As long as callbacks leave the next timer of the walk alone, step_all
\* misses no timer whose time has come.
THEOREM NoTimerMissed == Spec => []ElapsedWithinDuration
<1>1. IInv => ElapsedWithinDuration
  <2>. SUFFICES ASSUME IInv, careful, NEW t \in Ids, Running(t)
                PROVE  TimeElapsed(t) <= state[t].duration
    BY DEF ElapsedWithinDuration
  <2>. DEFINE d == state[t].duration
              r == Remaining(t)
  <2>1. d \in Tics /\ d \in Nat /\ r \in 1 .. d
    BY SizeAssumption DEF IInv, TypeOK, TimeInv, Tics
  <2>2. TimeElapsed(t) = Minus(d, r)
    BY DEF TimeElapsed, Remaining
  <2>. HIDE DEF d, r
  <2>3. r \in Tics
    BY <2>1, SizeAssumption DEF Tics
  <2>4. Minus(d, r) = IF d < r THEN d - r + TicMod ELSE d - r
    BY <2>1, <2>3, TicArithmetic, Zenon
  <2>5. Minus(d, r) = d - r
    BY <2>1, <2>4
  <2>6. TimeElapsed(t) <= d
    BY <2>1, <2>2, <2>5
  <2>. QED BY <2>6 DEF d
<1>. QED BY <1>1, TimersInductive, PTL

\* And it calls the callback of no timer but one that runs and is due.
THEOREM OnlyDueTimersCalled == Spec => OnlyExpiredCalled
<1>1. IInv /\ [Next]_vars => [careful /\ Fires => Due(firing')]_vars
  <2>. SUFFICES ASSUME IInv, Next, careful, Fires PROVE Due(firing')
    BY DEF vars, Fires
  <2>1. StepVisit
    BY DEF Next, User, StopAll, StepAll, Fires, GetUniqueTimer, Run, Stop, Release, Set,
           DeferCallback, Alloc, Unlocked, StepBegin, CallbackReturn, StepEnd
  <2>2. state[it].timeout = Now /\ firing' = it /\ it # Null
    BY <2>1 DEF StepVisit, Fires
  <2>3. it \in Ids /\ Contains(time_wheel[Pos(Now)], it) /\ Pos(Now) \in Slots
    BY <2>2, SlotNow, Zenon DEF IInv, TypeOK, WalkInv
  <2>4. Running(it)
    BY <2>3 DEF IInv, WheelConsistent
  <2>. QED BY <2>2, <2>4 DEF Due, Running, Now
<1>. QED BY <1>1, TimersInductive, PTL DEF Spec, OnlyExpiredCalled
=============================================================================
