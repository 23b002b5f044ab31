----------------------------- MODULE TaskQueues -----------------------------
(***************************************************************************)
(* The task queues of the eNodeB's stack thread, as its other threads see  *)
(* them: bounded FIFOs into which they push, waiting or not when a queue   *)
(* is full, and which the stack thread empties in a fair order until they  *)
(* are stopped.  The locks and condition variables that make an operation  *)
(* on them one step are left out.                                          *)
(***************************************************************************)
EXTENDS Naturals, Sequences

CONSTANTS
  Queues,     \* the input ports
  Capacity    \* by queue

ASSUME CapacityAssumption == Capacity \in [Queues -> Nat \ {0}]

VARIABLES
  buffer,     \* by queue: the tasks in it, oldest first
  active      \* the queues accept tasks

queueVars == <<buffer, active>>

QueuesInit ==
  /\ buffer = [q \in Queues |-> <<>>]
  /\ active = TRUE

Full(q) == Len(buffer[q]) >= Capacity[q]

Push_NoLimit(q, task) ==
  /\ buffer' = IF active THEN [buffer EXCEPT ![q] = Append(@, task)] ELSE buffer
  /\ UNCHANGED active

\* queue_handle::push returns: with the task in the queue, or without when
\* the queues have been stopped.  While the queue is full it waits.
Push(q, task) ==
  /\ active => ~Full(q)
  /\ buffer' = IF active THEN [buffer EXCEPT ![q] = Append(@, task)] ELSE buffer
  /\ UNCHANGED active

\* queue_handle::try_push
TryPush(q, task, success) ==
  /\ success = (active /\ ~Full(q))
  /\ buffer' = IF success THEN [buffer EXCEPT ![q] = Append(@, task)] ELSE buffer
  /\ UNCHANGED active

\* multiqueue_handler::wait_pop takes the oldest task of some queue.
WaitPop(q) ==
  /\ active /\ buffer[q] # <<>>
  /\ buffer' = [buffer EXCEPT ![q] = Tail(@)]
  /\ UNCHANGED active

\* multiqueue_handler::stop drops what is queued and lets pushing threads go.
StopQueues ==
  /\ active' = FALSE
  /\ buffer' = [q \in Queues |-> <<>>]

QueuesTypeOK(Tasks) ==
  /\ \A q \in Queues : buffer[q] \in Seq(Tasks) /\ Len(buffer[q]) <= Capacity[q]
  /\ active \in BOOLEAN
=============================================================================
