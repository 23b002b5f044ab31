----------------------------- MODULE RxSockets ------------------------------
(***************************************************************************)
(* srsran::socket_manager, the RXsockets thread: it waits in select for    *)
(* data, reads a message from each socket that has one and pushes it into  *)
(* the socket's task queue, and obeys the commands the stack thread writes *)
(* into a pipe.  It holds socket_mutex from the moment select returns to   *)
(* the end of the round, also while it waits for room in a queue.          *)
(*                                                                         *)
(* There are two sockets, that of the MME, which comes and goes, and that  *)
(* of GTP-U, which stays.  The system gives a socket that is opened the    *)
(* lowest free descriptor: the MME's is the same each time.                *)
(***************************************************************************)
EXTENDS TaskQueues

CONSTANTS
  MaxInbox,   \* bound: messages of the MME not yet read
  Arrivals    \* what the network delivers

MessageKinds == {"response", "shutdown", "empty", "other"}

ASSUME InboxAssumption == MaxInbox \in Nat \ {0}
ASSUME ArrivalsAssumption == Arrivals \subseteq MessageKinds \cup {"packet"}

VARIABLES
  open,        \* the system: the MME's descriptor is that of an open socket
  inbox,       \* the system: messages received on it, and not read yet
  registered,  \* active_sockets has the MME's descriptor
  watched,     \* total_fd_set has it
  pipe,        \* commands written to pipefd[1]
  removed,     \* rem_fd_tmp_list has it
  rx,          \* where the thread is
  ready,       \* read_fd_set after select
  message      \* the message the callback has read

socketVars == <<open, inbox>>
managerVars == <<registered, watched, pipe, removed>>
rxVars == <<rx, ready, message>>

NoMessage == "none"

SocketsInit ==
  /\ open = FALSE /\ inbox = <<>>
  /\ registered = FALSE /\ watched = FALSE /\ pipe = <<>> /\ removed = FALSE
  /\ rx = "loop" /\ ready = {} /\ message = NoMessage

\* socket_mutex is free: the other thread that takes it, the stack thread,
\* does so for single steps of this model.
MutexFree == rx \in {"loop", "select", "lock", "exited"}

-----------------------------------------------------------------------------
(* The thread.  A descriptor in the set that is closed makes select fail,  *)
(* and the thread tries again without a look at the pipe.                  *)

RxSelect ==
  /\ rx = "loop" /\ (watched => open)
  /\ rx' = "select"
  /\ UNCHANGED <<queueVars, socketVars, managerVars, ready, message>>

\* select returns what is ready; a packet for GTP-U may come at any time.
RxReady ==
  /\ rx = "select"
  /\ \E packets \in SUBSET (Arrivals \cap {"packet"}) :
       ready' = {fd \in {"mme", "gtpu", "pipe"} :
                   CASE fd = "mme"  -> watched /\ open /\ inbox # <<>>
                     [] fd = "gtpu" -> packets # {}
                     [] fd = "pipe" -> pipe # <<>>}
  /\ ready' # {}
  /\ rx' = "lock"
  /\ UNCHANGED <<queueVars, socketVars, managerVars, message>>

RxLock ==
  /\ rx = "lock"
  /\ rx' = IF registered /\ "mme" \in ready THEN "read" ELSE "command"
  /\ UNCHANGED <<queueVars, socketVars, managerVars, ready, message>>

\* sctp_recvmsg_pdu_task: the socket blocks when it has been reopened and
\* nothing has been received on it yet, and fails when it has been closed.
RxRead ==
  /\ rx = "read"
  /\ open => inbox # <<>>
  /\ IF open
     THEN message' = Head(inbox) /\ inbox' = Tail(inbox) /\ rx' = "push"
     ELSE rx' = "command" /\ UNCHANGED <<message, inbox>>
  /\ UNCHANGED <<queueVars, open, managerVars, ready>>

RxPush ==
  /\ rx = "push" /\ rx' = "command"
  /\ Push("mme", message)
  /\ message' = NoMessage
  /\ UNCHANGED <<socketVars, managerVars, ready>>

\* recvfrom_pdu_task, then the command: the pipe is written with the mutex.
RxCommand ==
  /\ rx = "command"
  /\ ready' = {}
  /\ IF "gtpu" \in ready THEN Push("gtpu", "packet")
                         ELSE UNCHANGED queueVars
  /\ \/ /\ "pipe" \notin ready
        /\ rx' = "loop" /\ UNCHANGED managerVars
     \/ /\ "pipe" \in ready /\ Head(pipe) = "NEW_FD" /\ pipe' = Tail(pipe)
        /\ watched' = TRUE
        /\ rx' = "loop" /\ UNCHANGED <<registered, removed>>
     \/ /\ "pipe" \in ready /\ Head(pipe) = "RM_FD" /\ pipe' = Tail(pipe)
        /\ registered' = FALSE /\ watched' = FALSE /\ removed' = TRUE
        /\ rx' = "loop"
     \/ /\ "pipe" \in ready /\ Head(pipe) = "EXIT" /\ pipe' = Tail(pipe)
        /\ rx' = "exited" /\ UNCHANGED <<registered, watched, removed>>
  /\ UNCHANGED <<socketVars, message>>

RxThread == RxSelect \/ RxReady \/ RxLock \/ RxRead \/ RxPush \/ RxCommand

-----------------------------------------------------------------------------
(* The calls of the stack thread.                                          *)

AddSocketHandler ==
  /\ MutexFree
  /\ registered' = TRUE
  /\ pipe' = IF registered THEN pipe ELSE Append(pipe, "NEW_FD")
  /\ UNCHANGED <<watched, removed>>

\* remove_socket with a descriptor that is registered: the request ...
RemoveSocketBegin ==
  /\ MutexFree /\ open /\ registered
  /\ pipe' = Append(pipe, "RM_FD")
  /\ UNCHANGED <<registered, watched, removed>>

\* ... and its completion.  With any other it returns at once.
RemoveSocketEnd ==
  /\ removed
  /\ removed' = FALSE
  /\ UNCHANGED <<registered, watched, pipe>>

StopBegin_NoCommand == MutexFree /\ UNCHANGED managerVars

StopBegin ==
  /\ MutexFree
  /\ pipe' = Append(pipe, "EXIT")
  /\ UNCHANGED <<registered, watched, removed>>

RxSocketsTypeOK ==
  /\ open \in BOOLEAN /\ registered \in BOOLEAN /\ watched \in BOOLEAN
  /\ removed \in BOOLEAN
  /\ Len(inbox) <= MaxInbox
  /\ pipe \in Seq({"NEW_FD", "RM_FD", "EXIT"})
  /\ rx \in {"loop", "select", "lock", "read", "push", "command", "exited"}
  /\ ready \subseteq {"mme", "gtpu", "pipe"}
=============================================================================
