---------------------------- MODULE S1Connection ----------------------------
(***************************************************************************)
(* S1AP's connection to the MME: the procedure s1_setup_proc_t, its two    *)
(* timers and the handler of what is received.  All of it runs in tasks of *)
(* the stack thread (the first launch, in s1ap::init, before the thread    *)
(* starts), but calls to RxSockets in the middle of a task may have to     *)
(* wait for the RXsockets thread.  The timers expire after any number of   *)
(* tics: ten and five seconds differ, but not from what they race with.  A *)
(* tic runs at most one callback: when both expire, the second runs in the *)
(* next tic, and nothing need come between the two.                        *)
(*                                                                         *)
(* Of the messages, the answer that accepts the set-up request, the        *)
(* notification of a shutdown and an empty read are told apart.  All the   *)
(* others, the answer that rejects it included, leave the connection as it *)
(* is and are one kind.                                                    *)
(***************************************************************************)
EXTENDS RxSockets

VARIABLES
  running,
  mme_connected,
  busy,                \* s1setup_proc.is_busy()
  mme_connect_timer,   \* is running
  s1setup_timeout,     \* is running
  pc,                  \* where the stack thread is
  closing,             \* why it closes the socket: "then" or "down"
  assoc                \* the MME: the current association is "down" or "up",
                       \* S1AP has "asked" for the set-up, or the MME "answered"

s1Vars == <<running, mme_connected, busy, mme_connect_timer, s1setup_timeout, closing>>

S1Init ==
  /\ running = TRUE /\ mme_connected = FALSE /\ busy = FALSE
  /\ mme_connect_timer = FALSE /\ s1setup_timeout = FALSE
  /\ pc = "launch" /\ closing = "no"
  /\ assoc = "down"

-----------------------------------------------------------------------------
(* The MME and the network, external.  The association is gone for good    *)
(* after a shutdown, or an empty read.                                     *)

Receive(kind) ==
  /\ kind \in Arrivals
  /\ open /\ Len(inbox) < MaxInbox
  /\ inbox' = Append(inbox, kind)
  /\ UNCHANGED <<queueVars, open, managerVars, rxVars, s1Vars, pc>>

MmeAccepts == assoc = "asked" /\ assoc' = "answered" /\ Receive("response")
MmeRejects == assoc = "asked" /\ assoc' = "answered" /\ Receive("other")
MmeSends   == assoc \in {"up", "asked", "answered"} /\ UNCHANGED assoc /\ Receive("other")
MmeLeaves  ==
  /\ assoc # "down" /\ assoc' = "down"
  /\ Receive("shutdown") \/ Receive("empty")

Mme == MmeAccepts \/ MmeRejects \/ MmeSends \/ MmeLeaves

-----------------------------------------------------------------------------
\* unique_socket::close.  What has been read from it stays in the queue.
CloseSocket == open' = FALSE /\ inbox' = <<>> /\ assoc' = "down"

-----------------------------------------------------------------------------
(* s1_setup_proc_t                                                         *)

\* launch up to connect_mme's call of add_socket_handler; the socket cannot
\* be opened and bound, cannot be connected, or is connected.
Launch ==
  /\ pc = "launch"
  /\ UNCHANGED <<queueVars, inbox, managerVars, rxVars, running, mme_connected,
                 mme_connect_timer, s1setup_timeout>>
  /\ \/ /\ busy \/ (running /\ mme_connected)
        /\ pc' = "wait" /\ UNCHANGED <<open, busy, closing, assoc>>
     \/ /\ ~busy /\ ~running
        /\ pc' = "remove" /\ closing' = "then" /\ UNCHANGED <<open, busy, assoc>>
     \/ /\ ~busy /\ running /\ ~mme_connected
        /\ pc' = "remove" /\ closing' = "then"
        /\ open' \in {open, TRUE} /\ UNCHANGED <<busy, assoc>>
     \/ /\ ~busy /\ running /\ ~mme_connected /\ ~open
        /\ open' = TRUE /\ assoc' = "up"
        /\ pc' = "add" /\ busy' = TRUE /\ UNCHANGED closing

ConnectMme ==
  /\ pc = "add" /\ pc' = "setup"
  /\ AddSocketHandler
  /\ UNCHANGED <<queueVars, socketVars, rxVars, s1Vars, assoc>>

SetupS1_NoTimeout ==
  /\ pc = "setup" /\ pc' = "wait"
  /\ assoc' = IF assoc = "up" THEN "asked" ELSE assoc
  /\ UNCHANGED <<queueVars, socketVars, managerVars, rxVars, s1Vars>>

\* setup_s1 and what follows it; busy is idle again before then() runs.
SetupS1 ==
  /\ pc = "setup"
  /\ \/ /\ s1setup_timeout' = TRUE /\ assoc' = IF assoc = "up" THEN "asked" ELSE assoc
        /\ pc' = "wait" /\ UNCHANGED <<running, busy, closing>>
     \/ /\ running' = FALSE /\ busy' = FALSE
        /\ pc' = "remove" /\ closing' = "then"
        /\ UNCHANGED <<s1setup_timeout, assoc>>
  /\ UNCHANGED <<queueVars, socketVars, managerVars, rxVars, mme_connected,
                 mme_connect_timer>>

Remove_NonBlocking ==
  /\ pc = "remove" /\ pc' = "close"
  /\ IF open /\ registered THEN RemoveSocketBegin ELSE UNCHANGED managerVars
  /\ UNCHANGED <<queueVars, socketVars, rxVars, s1Vars, assoc>>

\* remove_socket, in then() and in handle_mme_rx_msg
Remove ==
  /\ pc = "remove"
  /\ IF open /\ registered
     THEN RemoveSocketBegin /\ pc' = "removing"
     ELSE pc' = "close" /\ UNCHANGED managerVars
  /\ UNCHANGED <<queueVars, socketVars, rxVars, s1Vars, assoc>>

Removed ==
  /\ pc = "removing" /\ pc' = "close"
  /\ RemoveSocketEnd
  /\ UNCHANGED <<queueVars, socketVars, rxVars, s1Vars, assoc>>

Close_KeepConnected ==
  /\ pc = "close"
  /\ CloseSocket
  /\ closing' = "no"
  /\ mme_connect_timer' = (mme_connect_timer \/ closing = "then")
  /\ pc' = IF closing = "then" \/ busy THEN "wait" ELSE "launch"
  /\ UNCHANGED <<queueVars, managerVars, rxVars, running, mme_connected, busy,
                 s1setup_timeout>>

Close_NoTimer ==
  /\ pc = "close"
  /\ CloseSocket
  /\ closing' = "no"
  /\ mme_connected' = (mme_connected /\ closing = "then")
  /\ pc' = IF closing = "then" \/ busy THEN "wait" ELSE "launch"
  /\ UNCHANGED <<queueVars, managerVars, rxVars, running, busy, mme_connect_timer,
                 s1setup_timeout>>

\* The socket is closed; then() arms the reconnection timer,
\* handle_mme_rx_msg starts the procedure again if it can.
Close ==
  /\ pc = "close"
  /\ CloseSocket
  /\ closing' = "no"
  /\ IF closing = "then"
     THEN mme_connect_timer' = TRUE /\ pc' = "wait" /\ UNCHANGED mme_connected
     ELSE /\ mme_connected' = FALSE
          /\ pc' = IF busy THEN "wait" ELSE "launch"
          /\ UNCHANGED mme_connect_timer
  /\ UNCHANGED <<queueVars, managerVars, rxVars, running, busy, s1setup_timeout>>

-----------------------------------------------------------------------------
(* Events                                                                  *)

\* The callbacks of the timers, run by task_sched.tic().
ConnectTimerExpires ==
  /\ mme_connect_timer /\ mme_connect_timer' = FALSE
  /\ pc' = "launch"
  /\ UNCHANGED <<running, mme_connected, busy, s1setup_timeout, closing>>

SetupTimeoutExpires ==
  /\ s1setup_timeout /\ s1setup_timeout' = FALSE
  /\ busy' = FALSE
  /\ IF busy THEN pc' = "remove" /\ closing' = "then" ELSE UNCHANGED <<pc, closing>>
  /\ UNCHANGED <<running, mme_connected, mme_connect_timer>>

\* handle_mme_rx_msg, with the message the stack thread takes from the queue.
HandleMmeRxMsg ==
  LET kind == Head(buffer["mme"])
  IN  /\ WaitPop("mme")
      /\ \/ /\ kind = "shutdown"
            /\ pc' = "remove" /\ closing' = "down"
            /\ UNCHANGED <<socketVars, mme_connected, busy, s1setup_timeout, assoc>>
         \/ /\ kind = "empty" \/ (kind # "shutdown" /\ ~open)
            /\ CloseSocket
            /\ mme_connected' = FALSE
            /\ pc' = IF busy THEN "wait" ELSE "launch"
            /\ UNCHANGED <<busy, s1setup_timeout, closing>>
         \/ /\ kind = "response" /\ open
            /\ mme_connected' = TRUE
            /\ s1setup_timeout' = (s1setup_timeout /\ ~busy) /\ busy' = FALSE
            /\ pc' = "wait"
            /\ UNCHANGED <<socketVars, closing, assoc>>
         \/ /\ kind = "other" /\ open
            /\ pc' = "wait"
            /\ UNCHANGED <<socketVars, mme_connected, busy, s1setup_timeout, closing, assoc>>
      /\ UNCHANGED <<managerVars, rxVars, running, mme_connect_timer>>

\* s1ap::stop
StopS1 ==
  /\ running' = FALSE
  /\ CloseSocket
  /\ UNCHANGED <<mme_connected, busy, mme_connect_timer, s1setup_timeout, closing>>

S1Labels == {"launch", "add", "setup", "remove", "removing", "close"}
S1Procedure == Launch \/ ConnectMme \/ SetupS1 \/ Remove \/ Removed \/ Close

S1TypeOK ==
  /\ running \in BOOLEAN /\ mme_connected \in BOOLEAN /\ busy \in BOOLEAN
  /\ mme_connect_timer \in BOOLEAN /\ s1setup_timeout \in BOOLEAN
  /\ closing \in {"no", "then", "down"}
  /\ assoc \in {"down", "up", "asked", "answered"}
=============================================================================
