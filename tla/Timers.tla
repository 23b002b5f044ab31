------------------------------- MODULE Timers -------------------------------
(***************************************************************************)
(* srsran::timer_handler: the timer wheel of the stack thread.             *)
(*                                                                         *)
(* Every method runs under one mutex, except that step_all releases it     *)
(* while it calls a callback.  What the callback and the other threads do  *)
(* to the timers then happens in the middle of step_all's walk through a   *)
(* list of the wheel.                                                      *)
(***************************************************************************)
EXTENDS Integers, FiniteSets, Sequences, Functions

CONSTANTS
  MaxTimers,   \* bound on the size of timer_list
  Capacity,    \* its initial size
  WHEEL_SIZE,
  TicMod,      \* tic_t counts modulo 2^32 in the code
  Durations,   \* the durations set() is called with
  Users        \* the kinds of users considered, see careful

ASSUME SizeAssumption ==
  /\ MaxTimers \in Nat /\ Capacity \in 0..MaxTimers
  /\ WHEEL_SIZE \in Nat \ {0} /\ TicMod \in Nat \ {0, 1} /\ TicMod % WHEEL_SIZE = 0
ASSUME DurationAssumption ==
  Durations \subseteq 0..(TicMod - 1) /\ Users \subseteq BOOLEAN

VARIABLES
  cur_time,
  nof_timers,         \* timer_list.size()
  state,              \* timer_impl::state, decoded: [mode, duration, timeout]
  callback,           \* "none", a "user" callback or that of defer_callback
  allocated,          \* timer_impl::allocated
  free_list,
  time_wheel,         \* a list of timers per slot, front first
  nof_timers_running,
  pc,                 \* "idle", or where step_all is: "walk", "callback"
  it,                 \* step_all's iterator
  firing,             \* the timer whose callback runs
  deferred,           \* is that the callback of a defer_callback
  careful             \* TRUE: while a callback runs, nobody touches the timer
                      \* that step_all visits next or arms one for a single tic

listVars == <<time_wheel, nof_timers_running>>
walkVars == <<pc, it, firing, deferred, careful>>
poolVars == <<nof_timers, allocated, free_list>>
vars     == <<cur_time, state, callback, poolVars, listVars, walkVars>>

Ids       == 1..MaxTimers
Slots     == 0..(WHEEL_SIZE - 1)
Null      == 0
Pos(tic)  == tic % WHEEL_SIZE
Plus(a, b) == (a + b) % TicMod
Minus(a, b) == (a + TicMod - b) % TicMod
Running(t) == state[t].mode = "running"
State(mode, duration, timeout) == [mode |-> mode, duration |-> duration, timeout |-> timeout]

Init ==
  /\ cur_time = 0
  /\ nof_timers = Capacity
  /\ state = [t \in Ids |-> State("stopped", 0, 0)]
  /\ callback = [t \in Ids |-> "none"]
  /\ allocated = [t \in Ids |-> FALSE]
  /\ free_list = [i \in 1..Capacity |-> i]
  /\ time_wheel = [p \in Slots |-> <<>>]
  /\ nof_timers_running = 0
  /\ pc = "idle" /\ it = Null /\ firing = Null /\ deferred = FALSE
  /\ careful \in Users

----------------------------------------------------------------------------
(* The lists *)

Contains(list, t) == \E i \in 1..Len(list) : list[i] = t

\* intrusive_double_linked_list::pop and push_front
Place(list, t)    == CHOOSE i \in 1..Len(list) : list[i] = t
RemoveAt(list, i) == SubSeq(list, 1, i - 1) \o SubSeq(list, i + 1, Len(list))
Pop(wheel, t)       == [wheel EXCEPT ![Pos(state[t].timeout)] = RemoveAt(@, Place(@, t))]
PushFront(wheel, p, t) == [wheel EXCEPT ![p] = <<t>> \o @]

\* operator++ of the iterator: the node after t in whatever list t is now in.
NextNode(t) ==
  LET Follows(n) == \E p \in Slots : \E i \in 2..Len(time_wheel[p]) :
                       time_wheel[p][i - 1] = t /\ time_wheel[p][i] = n
  IN  IF \E n \in Ids : Follows(n) THEN CHOOSE n \in Ids : Follows(n) ELSE Null

StopTimer_Always(t, mode) ==
  /\ time_wheel' = IF Running(t) THEN Pop(time_wheel, t) ELSE time_wheel
  /\ state' = [state EXCEPT ![t].mode = mode]
  /\ nof_timers_running' = nof_timers_running - 1

\* stop_timer_
StopTimer(t, mode) ==
  IF Running(t)
  THEN /\ time_wheel' = Pop(time_wheel, t)
       /\ state' = [state EXCEPT ![t].mode = mode]
       /\ nof_timers_running' = nof_timers_running - 1
  ELSE UNCHANGED <<listVars, state>>

StartRun_NoPop(t, duration) ==
  LET timeout == Plus(cur_time, duration)
      stay    == Running(t) /\ Pos(state[t].timeout) = Pos(timeout)
  IN  /\ state' = [state EXCEPT ![t] = State("running", duration, timeout)]
      /\ time_wheel' = IF stay THEN time_wheel ELSE PushFront(time_wheel, Pos(timeout), t)
      /\ nof_timers_running' = nof_timers_running + (IF Running(t) THEN 0 ELSE 1)

\* start_run_
StartRun(t, duration) ==
  LET timeout == Plus(cur_time, duration)
      stay    == Running(t) /\ Pos(state[t].timeout) = Pos(timeout)
      off     == IF Running(t) THEN Pop(time_wheel, t) ELSE time_wheel
  IN  /\ state' = [state EXCEPT ![t] = State("running", duration, timeout)]
      /\ time_wheel' = IF stay THEN time_wheel ELSE PushFront(off, Pos(timeout), t)
      /\ nof_timers_running' = nof_timers_running + (IF Running(t) THEN 0 ELSE 1)

----------------------------------------------------------------------------
(* The operations of the timers' users, in a callback or any thread.       *)

Unlocked == pc \in {"idle", "callback"}

\* What a careful callback leaves alone.
MayTouch(t) == careful /\ pc = "callback" => t # it
MayArm(d)   == careful /\ pc = "callback" => d > 1

\* alloc_timer
Alloc(t) ==
  /\ Unlocked
  /\ IF free_list # <<>>
     THEN /\ t = Head(free_list)
          /\ free_list' = Tail(free_list) /\ UNCHANGED nof_timers
     ELSE /\ t = nof_timers + 1 /\ t \in Ids
          /\ nof_timers' = t /\ UNCHANGED free_list
  /\ allocated' = [allocated EXCEPT ![t] = TRUE]

GetUniqueTimer ==
  /\ \E t \in Ids : Alloc(t)
  /\ UNCHANGED <<cur_time, state, callback, listVars, walkVars>>

\* The timers somebody holds a unique_timer to.
Handles == {t \in Ids : allocated[t] /\ callback[t] # "defer"}

\* timer_impl::set, with and without a callback
Set(t, d, cb) ==
  LET duration == IF d = 0 THEN 1 ELSE d
  IN  /\ Unlocked /\ MayTouch(t)
      /\ callback' = [callback EXCEPT ![t] = IF cb THEN "user" ELSE @]
      /\ IF Running(t)
         THEN MayArm(duration) /\ StartRun(t, duration)
         ELSE /\ state' = [state EXCEPT ![t] = State("stopped", duration, 0)]
              /\ UNCHANGED listVars
      /\ UNCHANGED <<cur_time, poolVars, walkVars>>

\* timer_impl::run.  The code does not ask whether the timer has been set; it
\* is the eNodeB's callers that run no timer before they have set it.
Run(t) ==
  /\ Unlocked /\ MayTouch(t) /\ MayArm(state[t].duration)
  /\ state[t].duration > 0
  /\ StartRun(t, state[t].duration)
  /\ UNCHANGED <<cur_time, callback, poolVars, walkVars>>

\* timer_impl::stop
Stop(t) ==
  /\ Unlocked /\ MayTouch(t)
  /\ StopTimer(t, "stopped")
  /\ UNCHANGED <<cur_time, callback, poolVars, walkVars>>

DeallocTimer_KeepRunning(t) ==
  /\ allocated[t]
  /\ allocated' = [allocated EXCEPT ![t] = FALSE]
  /\ callback' = [callback EXCEPT ![t] = "none"]
  /\ free_list' = <<t>> \o free_list
  /\ UNCHANGED <<state, listVars>>

\* dealloc_timer_
DeallocTimer(t) ==
  /\ allocated[t]
  /\ IF Running(t)
     THEN /\ time_wheel' = Pop(time_wheel, t)
          /\ nof_timers_running' = nof_timers_running - 1
     ELSE UNCHANGED listVars
  /\ allocated' = [allocated EXCEPT ![t] = FALSE]
  /\ state' = [state EXCEPT ![t] = State("stopped", 0, 0)]
  /\ callback' = [callback EXCEPT ![t] = "none"]
  /\ free_list' = <<t>> \o free_list

\* unique_timer::release
Release(t) ==
  /\ Unlocked /\ MayTouch(t)
  /\ DeallocTimer(t)
  /\ UNCHANGED <<cur_time, nof_timers, walkVars>>

\* defer_callback: nobody else knows of the timer until it runs.
DeferCallback(d) ==
  LET duration == IF d = 0 THEN 1 ELSE d
  IN  /\ MayArm(duration)
      /\ \E t \in Ids : /\ Alloc(t)
                        /\ callback' = [callback EXCEPT ![t] = "defer"]
                        /\ StartRun(t, duration)
      /\ UNCHANGED <<cur_time, walkVars>>

User ==
  \/ GetUniqueTimer
  \/ \E t \in Handles : \/ Run(t) \/ Stop(t) \/ Release(t)
                        \/ \E d \in Durations, cb \in BOOLEAN : Set(t, d, cb)
  \/ \E d \in Durations : DeferCallback(d)

\* stop_all
StopAll ==
  /\ Unlocked /\ (careful => pc = "idle")
  /\ time_wheel' = [p \in Slots |-> <<>>]
  /\ state' = [t \in Ids |-> IF Running(t) THEN [state[t] EXCEPT !.mode = "stopped"] ELSE state[t]]
  /\ nof_timers_running' = nof_timers_running - Cardinality({t \in Ids : Running(t)})
  /\ UNCHANGED <<cur_time, callback, poolVars, walkVars>>

----------------------------------------------------------------------------
(* step_all *)

Now == Plus(cur_time, 1)     \* cur_time_local

StepBegin ==
  /\ pc = "idle"
  /\ pc' = "walk"
  /\ it' = IF time_wheel[Pos(Now)] = <<>> THEN Null ELSE Head(time_wheel[Pos(Now)])
  /\ UNCHANGED <<cur_time, state, callback, poolVars, listVars, firing, deferred, careful>>

StepVisit_LateIncrement ==
  /\ pc = "walk" /\ it # Null
  /\ IF state[it].timeout = Now
     THEN /\ StopTimer(it, "expired")
          /\ it' = Null
          /\ IF callback[it] # "none"
             THEN pc' = "callback" /\ firing' = it /\ deferred' = (callback[it] = "defer")
             ELSE UNCHANGED <<pc, firing, deferred>>
     ELSE it' = NextNode(it) /\ UNCHANGED <<state, listVars, pc, firing, deferred>>
  /\ UNCHANGED <<cur_time, callback, poolVars, careful>>

StepVisit_WholeSlot ==
  /\ pc = "walk" /\ it # Null
  /\ it' = NextNode(it)
  /\ StopTimer(it, "expired")
  /\ IF callback[it] # "none"
     THEN pc' = "callback" /\ firing' = it /\ deferred' = (callback[it] = "defer")
     ELSE UNCHANGED <<pc, firing, deferred>>
  /\ UNCHANGED <<cur_time, callback, poolVars, careful>>

StepVisit ==
  /\ pc = "walk" /\ it # Null
  /\ it' = NextNode(it)
  /\ IF state[it].timeout = Now
     THEN /\ StopTimer(it, "expired")
          /\ IF callback[it] # "none"
             THEN pc' = "callback" /\ firing' = it /\ deferred' = (callback[it] = "defer")
             ELSE UNCHANGED <<pc, firing, deferred>>
     ELSE UNCHANGED <<state, listVars, pc, firing, deferred>>
  /\ UNCHANGED <<cur_time, callback, poolVars, careful>>

\* The callback of defer_callback ends by freeing its own timer.
CallbackReturn ==
  /\ pc = "callback"
  /\ IF deferred
     THEN DeallocTimer(firing) /\ UNCHANGED nof_timers
     ELSE UNCHANGED <<state, callback, listVars, poolVars>>
  /\ pc' = "walk" /\ firing' = Null /\ deferred' = FALSE
  /\ UNCHANGED <<cur_time, it, careful>>

StepEnd ==
  /\ pc = "walk" /\ it = Null
  /\ cur_time' = Now
  /\ pc' = "idle"
  /\ UNCHANGED <<state, callback, poolVars, listVars, it, firing, deferred, careful>>

StepAll == StepBegin \/ StepVisit \/ CallbackReturn \/ StepEnd

Next == User \/ StopAll \/ StepAll
Spec == Init /\ [][Next]_vars

----------------------------------------------------------------------------
(* Properties *)

\* Every variable keeps its type; nof_timers_running_ never wraps below 0.
TypeOK ==
  /\ cur_time \in 0..(TicMod - 1)
  /\ nof_timers \in Capacity..MaxTimers
  /\ state \in [Ids -> [mode : {"stopped", "running", "expired"},
                        duration : 0..(TicMod - 1), timeout : 0..(TicMod - 1)]]
  /\ callback \in [Ids -> {"none", "user", "defer"}]
  /\ allocated \in [Ids -> BOOLEAN]
  /\ free_list \in Seq(Ids)
  /\ time_wheel \in [Slots -> Seq(Ids)]
  /\ nof_timers_running \in 0..MaxTimers
  /\ pc \in {"idle", "walk", "callback"}
  /\ it \in Ids \cup {Null} /\ firing \in Ids \cup {Null} /\ deferred \in BOOLEAN /\ careful \in Users

\* The wheel and the timers' states agree, whatever callbacks do: a timer is
\* in the list of its timeout's slot, once, when it runs and in none when it
\* does not, and nof_timers_running_ counts those that run.
WheelConsistent ==
  /\ \A p \in Slots :
       /\ IsInjective(time_wheel[p])
       /\ \A t \in Ids : Contains(time_wheel[p], t) <=>
                            Running(t) /\ Pos(state[t].timeout) = p
  /\ nof_timers_running = Cardinality({t \in Ids : Running(t)})

\* The free list holds the timers of timer_list nobody has, each once, and a
\* free timer neither runs nor has a callback left.
FreeListConsistent ==
  /\ IsInjective(free_list)
  /\ Range(free_list) = {t \in 1..nof_timers : ~allocated[t]}
  /\ \A t \in Ids : ~allocated[t] => ~Running(t) /\ callback[t] = "none"

TimeElapsed(t) == Minus(state[t].duration, Minus(state[t].timeout, cur_time))

\* With careful users, a running timer has not run longer than its duration:
\* step_all misses no timer whose time has come (timer_test.cc asserts
\* time_elapsed() <= duration() of every running timer after a step).
ElapsedWithinDuration ==
  careful /\ pc = "idle" => \A t \in Ids : Running(t) => TimeElapsed(t) <= state[t].duration

Fires == pc = "walk" /\ pc' = "callback"
Due(t) == Running(t) /\ state[t].timeout = Now

\* With careful users, step_all calls the callback of no timer but one that
\* runs and whose time has come.
OnlyExpiredCalled == [][careful /\ Fires => Due(firing')]_vars

\* step_all never calls the callback of a timer that has been stopped
\* (timer_test.cc: "calling stop() early, forbids the timer from getting
\* expired").
StoppedNotCalled == [][Fires => Running(firing')]_vars
=============================================================================
