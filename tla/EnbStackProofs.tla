--------------------------- MODULE EnbStackProofs ---------------------------
(***************************************************************************)
(* S1AP never forgets to go on, and never takes for connected an MME it    *)
(* cannot hear, for queues and a receive buffer of any size: the inductive *)
(* invariant of the stack thread's and the RXsockets thread's shared state *)
(* and its proof; then the types, with the bounds of the queues.           *)
(***************************************************************************)
EXTENDS EnbStack, TLAPS

Commands == {"NEW_FD", "RM_FD", "EXIT"}
Removing == {"remove", "removing", "close"}

TypeInv ==
  /\ running \in BOOLEAN /\ mme_connected \in BOOLEAN /\ busy \in BOOLEAN
  /\ mme_connect_timer \in BOOLEAN /\ s1setup_timeout \in BOOLEAN
  /\ open \in BOOLEAN /\ registered \in BOOLEAN /\ watched \in BOOLEAN
  /\ removed \in BOOLEAN

\* The commands in the pipe: a descriptor to be watched has its handler, at
\* most one removal is under way, and nothing is added behind it.
PipeInv ==
  /\ pipe \in Seq(Commands)
  /\ "pipe" \in ready => pipe # <<>>
  /\ \A i \in 1 .. Len(pipe) : pipe[i] = "NEW_FD" => registered
  /\ \A i, j \in 1 .. Len(pipe) :
       pipe[i] = "RM_FD" /\ i < j => pipe[j] \notin {"NEW_FD", "RM_FD"}

\* The manager's view of the MME's socket, as in ManagerConsistent.
ManagerInv ==
  /\ watched => registered
  /\ registered => watched \/ \E i \in 1 .. Len(pipe) : pipe[i] = "NEW_FD"
  /\ \A i \in 1 .. Len(pipe) : pipe[i] = "RM_FD" => registered /\ pc = "removing" /\ ~removed
  /\ removed => pc = "removing" /\ ~registered

\* The set-up procedure: what is left to take it further, where it is busy,
\* and when the socket is open and has its handler.
SetupInv ==
  /\ busy => s1setup_timeout \/ pc \in {"add", "setup"}
  /\ running /\ ~busy /\ ~mme_connected => mme_connect_timer \/ pc \in Removing \cup {"launch"}
  /\ pc \in {"add", "setup"} => busy /\ running
  /\ mme_connected => ~busy

ConnectionInv ==
  /\ mme_connected /\ pc \in {"wait", "launch"} => open
  /\ open /\ pc \notin Removing \cup {"add"} => registered
  /\ pc \in Removing /\ closing # "down" => ~mme_connected
  /\ ~running /\ pc # "done" => ~mme_connected /\ (open => pc \in Removing)

IInv == TypeInv /\ PipeInv /\ ManagerInv /\ SetupInv /\ ConnectionInv

\* Z3 and then Zenon get half a minute for a leaf.
USE SMTT(30), ZenonT(30) DEF Commands, Removing, queueVars, socketVars, managerVars, rxVars, s1Vars,
        stackVars, threadVars

\* The invariant holds when s1ap::init is about to launch the procedure.
LEMMA InitInv == Init => IInv
<1>. SUFFICES ASSUME Init PROVE IInv
  OBVIOUS
<1>. USE DEF Init, SocketsInit, S1Init
<1>1. TypeInv /\ SetupInv /\ ConnectionInv
  BY Zenon DEF TypeInv, SetupInv, ConnectionInv
<1>2. PipeInv /\ ManagerInv
  BY DEF PipeInv, ManagerInv
<1>. QED BY <1>1, <1>2 DEF IInv

\* A step that leaves all the invariant speaks of alone keeps it.
LEMMA Untouched ==
  ASSUME IInv,
         UNCHANGED <<open, managerVars, ready, running, mme_connected, busy,
                     mme_connect_timer, s1setup_timeout, closing, pc>>
  PROVE  IInv'
BY DEF IInv, TypeInv, PipeInv, ManagerInv, SetupInv, ConnectionInv

\* What a queue of commands holds after a write.
LEMMA PipeAppend ==
  ASSUME NEW p \in Seq(Commands), NEW c \in Commands
  PROVE  /\ Append(p, c) \in Seq(Commands) /\ Append(p, c) # <<>>
         /\ Len(Append(p, c)) = Len(p) + 1
         /\ \A i \in 1 .. Len(p) : Append(p, c)[i] = p[i]
         /\ Append(p, c)[Len(p) + 1] = c
OBVIOUS

\* What it holds after a read.
LEMMA PipeTail ==
  ASSUME NEW p \in Seq(Commands), p # <<>>
  PROVE  /\ Tail(p) \in Seq(Commands)
         /\ Len(Tail(p)) = Len(p) - 1 /\ Len(p) \in Nat \ {0}
         /\ \A i \in 1 .. Len(Tail(p)) : Tail(p)[i] = p[i + 1]
         /\ Head(p) = p[1]
OBVIOUS

-----------------------------------------------------------------------------
(* The set-up procedure.                                                   *)

\* Starting the procedure keeps the invariant, whether it gets a connection,
\* fails, or finds that there is nothing to do.
LEMMA LaunchStep == ASSUME IInv, Launch PROVE IInv'
<1>. USE DEF IInv, Launch
<1>1. PipeInv' /\ ManagerInv'
  BY DEF PipeInv, ManagerInv
<1>2. CASE (busy \/ (running /\ mme_connected)) /\ pc' = "wait" /\ UNCHANGED <<open, busy, closing>>
  BY <1>1, <1>2 DEF TypeInv, SetupInv, ConnectionInv
<1>3. CASE ~busy /\ ~running /\ pc' = "remove" /\ closing' = "then" /\ UNCHANGED <<open, busy>>
  BY <1>1, <1>3 DEF TypeInv, SetupInv, ConnectionInv
<1>4. CASE /\ ~busy /\ running /\ ~mme_connected
           /\ pc' = "remove" /\ closing' = "then" /\ open' \in {open, TRUE} /\ UNCHANGED busy
  BY <1>1, <1>4, Zenon DEF TypeInv, SetupInv, ConnectionInv
<1>5. CASE /\ ~busy /\ running /\ ~mme_connected /\ ~open
           /\ open' = TRUE /\ pc' = "add" /\ busy' = TRUE /\ UNCHANGED closing
  BY <1>1, <1>5 DEF TypeInv, SetupInv, ConnectionInv
<1>. QED BY <1>2, <1>3, <1>4, <1>5, Zenon

\* Registering the new socket with the manager keeps the invariant.
LEMMA ConnectStep == ASSUME IInv, ConnectMme PROVE IInv'
<1>. USE DEF IInv, ConnectMme, AddSocketHandler
<1>1. TypeInv'
  BY DEF TypeInv
<1>2. PipeInv'
  <2>1. CASE registered
    BY <2>1 DEF PipeInv
  <2>2. CASE ~registered
    <3>1. pipe' = Append(pipe, "NEW_FD") /\ pipe \in Seq(Commands)
      BY <2>2 DEF PipeInv
    <3>. QED BY <2>2, <3>1, PipeAppend DEF PipeInv, ManagerInv
  <2>. QED BY <2>1, <2>2
<1>3. ManagerInv'
  <2>1. CASE registered
    BY <2>1 DEF ManagerInv
  <2>2. CASE ~registered
    <3>1. pipe' = Append(pipe, "NEW_FD") /\ pipe \in Seq(Commands)
      BY <2>2 DEF PipeInv
    <3>2. pipe'[Len(pipe')] = "NEW_FD" /\ Len(pipe') \in 1 .. Len(pipe')
      BY <3>1, PipeAppend
    <3>3. \A i \in 1 .. Len(pipe') : pipe'[i] # "RM_FD"
      BY <2>2, <3>1, PipeAppend DEF ManagerInv
    <3>. QED BY <2>2, <3>2, <3>3 DEF ManagerInv
  <2>. QED BY <2>1, <2>2
<1>4. SetupInv' /\ ConnectionInv'
  BY DEF SetupInv, ConnectionInv
<1>. QED BY <1>1, <1>2, <1>3, <1>4

\* Sending the set-up request, or failing to, keeps the invariant.
LEMMA SetupStep == ASSUME IInv, SetupS1 PROVE IInv'
<1>. USE DEF IInv, SetupS1
<1>1. TypeInv'
  BY ZenonT(60) DEF TypeInv
<1>2. PipeInv' /\ ManagerInv'
  BY DEF PipeInv, ManagerInv
<1>3. SetupInv'
  BY Zenon DEF SetupInv, TypeInv
<1>4. ConnectionInv'
  BY Zenon DEF ConnectionInv, SetupInv, TypeInv
<1>. QED BY <1>1, <1>2, <1>3, <1>4

\* Asking for the removal of the socket keeps the invariant.
LEMMA RemoveStep == ASSUME IInv, Remove PROVE IInv'
<1>. USE DEF IInv, Remove
<1>1. TypeInv' /\ SetupInv' /\ ConnectionInv'
  BY DEF TypeInv, SetupInv, ConnectionInv, RemoveSocketBegin
<1>2. CASE open /\ registered
  <2>1. pipe' = Append(pipe, "RM_FD") /\ pipe \in Seq(Commands) /\ pc' = "removing"
        /\ UNCHANGED <<registered, watched, removed, ready>>
    BY <1>2 DEF PipeInv, RemoveSocketBegin
  <2>2. \A i \in 1 .. Len(pipe) : pipe[i] # "RM_FD"
    BY DEF ManagerInv
  <2>3. ~removed
    BY DEF ManagerInv
  <2>4. PipeInv'
    BY <1>2, <2>1, <2>2, PipeAppend DEF PipeInv
  <2>5. ManagerInv'
    BY <1>2, <2>1, <2>3, PipeAppend DEF ManagerInv
  <2>. QED BY <1>1, <2>4, <2>5
<1>3. CASE ~(open /\ registered)
  <2>1. PipeInv' /\ ManagerInv'
    BY <1>3 DEF PipeInv, ManagerInv
  <2>. QED BY <1>1, <2>1
<1>. QED BY <1>2, <1>3

\* The completed removal keeps the invariant.
LEMMA RemovedStep == ASSUME IInv, Removed PROVE IInv'
<1>. USE DEF IInv, Removed, RemoveSocketEnd
<1>1. TypeInv' /\ SetupInv' /\ ConnectionInv'
  BY Zenon DEF TypeInv, SetupInv, ConnectionInv
<1>2. PipeInv' /\ ManagerInv'
  BY DEF PipeInv, ManagerInv
<1>. QED BY <1>1, <1>2

\* Closing the socket keeps the invariant, both at the end of the procedure
\* and in the handler of a lost association.
LEMMA CloseStep == ASSUME IInv, Close PROVE IInv'
<1>. USE DEF IInv, Close, CloseSocket
<1>1. PipeInv' /\ ManagerInv'
  BY DEF PipeInv, ManagerInv
<1>2. CASE closing = "then"
  <2>1. /\ pc = "close" /\ pc' = "wait" /\ open' = FALSE /\ mme_connect_timer' = TRUE
        /\ UNCHANGED <<mme_connected, running, busy, s1setup_timeout, managerVars>>
    BY <1>2
  <2>2. ~mme_connected
    BY <1>2, <2>1 DEF ConnectionInv
  <2>3. TypeInv'
    BY <2>1, Zenon DEF TypeInv
  <2>4. SetupInv'
    BY <2>1 DEF SetupInv
  <2>5. ConnectionInv'
    BY <2>1, <2>2 DEF ConnectionInv
  <2>. QED BY <1>1, <2>3, <2>4, <2>5
<1>3. CASE closing # "then"
  <2>1. /\ pc = "close" /\ pc' = (IF busy THEN "wait" ELSE "launch")
        /\ open' = FALSE /\ mme_connected' = FALSE
        /\ UNCHANGED <<mme_connect_timer, running, busy, s1setup_timeout, managerVars>>
    BY <1>3
  <2>2. TypeInv'
    BY <2>1, Zenon DEF TypeInv
  <2>3. SetupInv'
    BY <2>1 DEF SetupInv
  <2>4. ConnectionInv'
    BY <2>1 DEF ConnectionInv
  <2>. QED BY <1>1, <2>2, <2>3, <2>4
<1>. QED BY <1>2, <1>3

-----------------------------------------------------------------------------
(* The tasks of the stack thread.                                          *)

\* The expiry of a timer of S1AP keeps the invariant.
LEMMA TimerStep == ASSUME IInv, RunConnectTimer \/ RunSetupTimeout PROVE IInv'
<1>. USE DEF IInv, RunTic, Waiting
<1>1. CASE RunConnectTimer
  <2>. USE <1>1 DEF RunConnectTimer, ConnectTimerExpires
  <2>1. TypeInv' /\ SetupInv' /\ ConnectionInv'
    BY Zenon DEF TypeInv, SetupInv, ConnectionInv
  <2>2. PipeInv' /\ ManagerInv'
    BY DEF PipeInv, ManagerInv
  <2>. QED BY <2>1, <2>2
<1>2. CASE RunSetupTimeout
  <2>. USE <1>2 DEF RunSetupTimeout, SetupTimeoutExpires
  <2>1. PipeInv' /\ ManagerInv'
    BY DEF PipeInv, ManagerInv
  <2>2. CASE busy
    BY <2>1, <2>2, Zenon DEF TypeInv, SetupInv, ConnectionInv
  <2>3. CASE ~busy
    BY <2>1, <2>3, Zenon DEF TypeInv, SetupInv, ConnectionInv
  <2>. QED BY <2>2, <2>3
<1>. QED BY <1>1, <1>2

\* handle_mme_rx_msg keeps the invariant, whatever the message, and whether
\* or not it belongs to the current association.
LEMMA MessageStep == ASSUME IInv, RunMmeMessage PROVE IInv'
<1>. USE DEF IInv, RunMmeMessage, Waiting, HandleMmeRxMsg
<1>. DEFINE kind == Head(buffer["mme"])
<1>1. PipeInv' /\ ManagerInv'
  BY DEF PipeInv, ManagerInv
<1>2. CASE kind = "shutdown"
  BY <1>1, <1>2 DEF TypeInv, SetupInv, ConnectionInv
<1>3. CASE kind = "empty" \/ (kind # "shutdown" /\ ~open)
  <2>1. /\ open' = FALSE /\ mme_connected' = FALSE
        /\ pc' = (IF busy THEN "wait" ELSE "launch")
        /\ UNCHANGED <<busy, s1setup_timeout, closing, running, mme_connect_timer, managerVars>>
    BY <1>3 DEF CloseSocket
  <2>. QED BY <1>1, <2>1, Zenon DEF TypeInv, SetupInv, ConnectionInv
<1>4. CASE kind = "response" /\ open
  <2>1. /\ mme_connected' = TRUE /\ busy' = FALSE /\ s1setup_timeout' = (s1setup_timeout /\ ~busy)
        /\ pc' = "wait"
        /\ UNCHANGED <<open, closing, running, mme_connect_timer, managerVars>>
    BY <1>4, Zenon
  <2>2. s1setup_timeout' \in BOOLEAN
    BY <2>1
  <2>3. TypeInv'
    BY <2>1, <2>2, ZenonT(60) DEF TypeInv
  <2>4. SetupInv'
    BY <2>1 DEF SetupInv
  <2>5. ConnectionInv'
    BY <1>4, <2>1 DEF ConnectionInv
  <2>. QED BY <1>1, <2>3, <2>4, <2>5
<1>5. CASE kind = "other" /\ open
  <2>1. UNCHANGED <<open, managerVars, ready, running, mme_connected, busy,
                    mme_connect_timer, s1setup_timeout, closing, pc>>
    BY <1>5, ZenonT(60)
  <2>. QED BY <2>1, Untouched
<1>. QED BY <1>2, <1>3, <1>4, <1>5

\* Stopping the stack keeps the invariant.
LEMMA StopStep == ASSUME IInv, RunStop \/ StopRxSockets \/ StopImpl PROVE IInv'
<1>. USE DEF IInv
<1>1. CASE RunStop
  BY <1>1 DEF RunStop, Waiting, TypeInv, PipeInv, ManagerInv, SetupInv, ConnectionInv
<1>2. CASE StopRxSockets
  <2>. USE <1>2 DEF StopRxSockets, StopBegin
  <2>1. TypeInv' /\ SetupInv' /\ ConnectionInv'
    BY DEF TypeInv, SetupInv, ConnectionInv
  <2>2. pipe' = Append(pipe, "EXIT") /\ pipe \in Seq(Commands)
    BY DEF PipeInv
  <2>3. PipeInv'
    BY <2>2, PipeAppend DEF PipeInv
  <2>4. ManagerInv'
    BY <2>2, PipeAppend DEF ManagerInv
  <2>. QED BY <2>1, <2>3, <2>4
<1>3. CASE StopImpl
  BY <1>3, ZenonT(60) DEF StopImpl, StopS1, CloseSocket, TypeInv, PipeInv, ManagerInv, SetupInv,
     ConnectionInv
<1>. QED BY <1>1, <1>2, <1>3

-----------------------------------------------------------------------------
(* The RXsockets thread.                                                   *)

\* Carrying out a command keeps the invariant: RM_FD finds the handler it
\* erases, and NEW_FD a descriptor that still has one.
LEMMA CommandStep == ASSUME IInv, RxCommand, UNCHANGED stackVars PROVE IInv'
<1>. USE DEF IInv
<1>1. SetupInv' /\ ready' = {} /\ UNCHANGED <<open, closing, pc, running, mme_connected>>
  BY DEF SetupInv, RxCommand
<1>2. CASE "pipe" \notin ready
  <2>1. UNCHANGED managerVars
    BY <1>2 DEF RxCommand
  <2>. QED BY <1>1, <2>1 DEF TypeInv, PipeInv, ManagerInv, ConnectionInv, RxCommand
<1>3. CASE "pipe" \in ready
  <2>1. /\ pipe \in Seq(Commands) /\ pipe # <<>> /\ pipe' = Tail(pipe)
        /\ Head(pipe) = pipe[1] /\ Len(pipe) \in Nat \ {0} /\ Len(pipe') = Len(pipe) - 1
        /\ pipe' \in Seq(Commands)
        /\ \A i \in 1 .. Len(pipe') : pipe'[i] = pipe[i + 1] /\ i + 1 \in 1 .. Len(pipe)
    <3>1. pipe \in Seq(Commands) /\ pipe # <<>>
      BY <1>3 DEF PipeInv
    <3>2. pipe' = Tail(pipe)
      BY <1>3 DEF RxCommand
    <3>3. \A n \in Nat \ {0} : \A i \in 1 .. n - 1 : i + 1 \in 1 .. n
      OBVIOUS
    <3>. QED BY <3>1, <3>2, <3>3, PipeTail
  <2>2. CASE Head(pipe) = "NEW_FD"
    <3>1. watched' = TRUE /\ UNCHANGED <<registered, removed>>
      BY <1>3, <2>2 DEF RxCommand
    <3>2. registered
      BY <2>1, <2>2 DEF PipeInv
    <3>3. TypeInv' /\ ConnectionInv'
      BY <1>1, <3>1, UNCHANGED stackVars DEF TypeInv, ConnectionInv
    <3>4. PipeInv'
      BY <1>1, <2>1, <3>1 DEF PipeInv
    <3>5. ManagerInv'
      BY <1>1, <2>1, <3>1, <3>2 DEF ManagerInv
    <3>. QED BY <1>1, <3>3, <3>4, <3>5
  <2>3. CASE Head(pipe) = "RM_FD"
    <3>1. registered' = FALSE /\ watched' = FALSE /\ removed' = TRUE
      BY <1>3, <2>3 DEF RxCommand
    <3>2. pc = "removing"
      BY <2>1, <2>3 DEF ManagerInv
    <3>3. \A i \in 1 .. Len(pipe') : pipe'[i] \notin {"NEW_FD", "RM_FD"}
      BY <2>1, <2>3 DEF PipeInv
    <3>4. TypeInv'
      BY <1>1, <3>1, UNCHANGED stackVars, Zenon DEF TypeInv
    <3>5. ConnectionInv'
      BY <1>1, <3>2 DEF ConnectionInv
    <3>6. PipeInv' /\ ManagerInv'
      BY <1>1, <2>1, <3>1, <3>2, <3>3 DEF PipeInv, ManagerInv
    <3>. QED BY <1>1, <3>4, <3>5, <3>6
  <2>4. CASE Head(pipe) = "EXIT"
    <3>1. UNCHANGED <<registered, watched, removed>>
      BY <1>3, <2>4 DEF RxCommand
    <3>2. TypeInv' /\ ConnectionInv'
      BY <1>1, <3>1, UNCHANGED stackVars DEF TypeInv, ConnectionInv
    <3>3. PipeInv'
      BY <1>1, <2>1, <3>1 DEF PipeInv
    <3>4. registered => watched \/ \E i \in 1 .. Len(pipe') : pipe'[i] = "NEW_FD"
      <4>1. SUFFICES ASSUME registered, ~watched
                     PROVE  \E i \in 1 .. Len(pipe') : pipe'[i] = "NEW_FD"
        OBVIOUS
      <4>2. PICK i \in 1 .. Len(pipe) : pipe[i] = "NEW_FD"
        BY <4>1 DEF ManagerInv
      <4>3. i - 1 \in 1 .. Len(pipe') /\ (i - 1) + 1 = i
        BY <2>1, <2>4, <4>2
      <4>. QED BY <2>1, <4>2, <4>3
    <3>5. ManagerInv'
      BY <1>1, <2>1, <3>1, <3>4 DEF ManagerInv
    <3>. QED BY <1>1, <3>2, <3>3, <3>5
  <2>. QED BY <1>3, <2>2, <2>3, <2>4 DEF RxCommand
<1>. QED BY <1>2, <1>3

\* Every step of the RXsockets thread keeps the invariant.
LEMMA RxStep == ASSUME IInv, Rx PROVE IInv'
<1>. USE DEF Rx
<1>1. CASE RxReady
  <2>1. UNCHANGED <<open, managerVars, stackVars>>
    BY <1>1 DEF RxReady
  <2>2. "pipe" \in ready' => pipe # <<>>
    BY <1>1 DEF RxReady
  <2>. QED BY <2>1, <2>2 DEF IInv, TypeInv, PipeInv, ManagerInv, SetupInv, ConnectionInv
<1>2. CASE RxSelect \/ RxLock \/ RxRead \/ RxPush
  BY <1>2, Untouched DEF RxSelect, RxLock, RxRead, RxPush
<1>3. CASE RxCommand
  BY <1>3, CommandStep
<1>. QED BY <1>1, <1>2, <1>3 DEF RxThread

-----------------------------------------------------------------------------
(* The whole program.                                                      *)

\* The invariant is inductive, for queues and receive buffers of any size.
THEOREM StackInductive == Spec => []IInv
<1>1. IInv /\ [Next]_vars => IInv'
  <2>. SUFFICES ASSUME IInv, [Next]_vars PROVE IInv'
    OBVIOUS
  <2>1. CASE Stack
    <3>1. CASE S1Procedure
      BY <3>1, LaunchStep, ConnectStep, SetupStep, RemoveStep, RemovedStep, CloseStep
         DEF S1Procedure
    <3>2. CASE RunTask
      <4>1. CASE RunTicOnly \/ RunGtpuPacket \/ RunMetrics
        BY <4>1, Untouched DEF RunTicOnly, RunTic, RunGtpuPacket, RunMetrics
      <4>. QED BY <3>2, <4>1, TimerStep, MessageStep, StopStep DEF RunTask
    <3>. QED BY <2>1, <3>1, <3>2, StopStep DEF Stack
  <2>2. CASE Rx
    BY <2>2, RxStep
  <2>3. CASE NextTti \/ TtiClock \/ TxrxEnds \/ NextPeriod \/ GetMetrics \/ GetMetricsReturns \/ HubEnds
    BY <2>3, Untouched DEF NextTti, TtiClock, TxrxEnds, NextPeriod, GetMetrics, GetMetricsReturns,
                           HubEnds
  <2>4. CASE Main \/ Signal
    BY <2>4, Untouched DEF Main, Signal, MainStep, InitReturns, JoinMetrics, JoinTxrx,
                           StackStop, JoinStack
  <2>5. CASE Network
    BY <2>5, Untouched DEF Network, Mme, MmeAccepts, MmeRejects, MmeSends, MmeLeaves, Receive
  <2>6. CASE Halted \/ UNCHANGED vars
    BY <2>6, Untouched DEF Halted, vars
  <2>. QED BY <2>1, <2>2, <2>3, <2>4, <2>5, <2>6 DEF Next
<1>. QED BY <1>1, InitInv, PTL DEF Spec

\* Whenever S1AP is not at work on its connection, a timer is running that
\* takes it further, unless it is connected or has given up.
THEOREM S1NeverForgotten == Spec => []NeverForgotten
<1>1. IInv => NeverForgotten
  BY DEF IInv, SetupInv, NeverForgotten, S1Labels
<1>. QED BY <1>1, StackInductive, PTL

\* An MME taken for connected has an open socket with a handler.
THEOREM S1ConnectedIsHeard == Spec => []ConnectedIsHeard
<1>1. IInv => ConnectedIsHeard
  BY DEF IInv, SetupInv, ConnectionInv, ConnectedIsHeard
<1>. QED BY <1>1, StackInductive, PTL

\* The socket manager's tables and the commands in its pipe agree.
THEOREM SocketManagerConsistent == Spec => []ManagerConsistent
<1>1. IInv => ManagerConsistent
  <2>. SUFFICES ASSUME IInv PROVE ManagerConsistent
    OBVIOUS
  <2>1. DOMAIN pipe = 1 .. Len(pipe)
    BY DEF IInv, PipeInv
  <2>. QED BY <2>1 DEF IInv, ManagerInv, ManagerConsistent
<1>. QED BY <1>1, StackInductive, PTL

-----------------------------------------------------------------------------
(* Types, the bounds of the queues, and the answers to the metrics hub.    *)

\* What is pushed into the queues.
Tasks == MessageKinds \cup {"tic", "metrics", "stop", "packet"}

\* The queues hold tasks, no more than they have room for.
QueueInv ==
  /\ buffer \in [Queues -> Seq(Tasks)] /\ active \in BOOLEAN
  /\ \A q \in Queues : Len(buffer[q]) <= Capacity[q]

\* What the RXsockets thread has read, or can read, is a message of the MME,
\* and it has one when it is about to push it.
MessageInv ==
  /\ inbox \in Seq(MessageKinds) /\ Len(inbox) <= MaxInbox
  /\ message \in MessageKinds \cup {NoMessage}
  /\ rx = "push" => message \in MessageKinds

\* A request of the metrics hub is in the queue or has been answered, once, and
\* neither is left when the hub does not wait.
MetricsInv ==
  /\ answers \in Nat
  /\ Len(buffer["metrics"]) + answers <= 1
  /\ hub # "wait" => Len(buffer["metrics"]) + answers = 0

\* Where the stack thread and the RXsockets thread are.
LabelInv ==
  /\ rx \in {"loop", "select", "lock", "read", "push", "command", "exited"}
  /\ ready \subseteq {"mme", "gtpu", "pipe"}
  /\ closing \in {"no", "then", "down"}
  /\ assoc \in {"down", "up", "asked", "answered"}
  /\ pc \in {"wait", "stop", "join", "done"} \cup S1Labels

\* Where the other threads are.
ThreadInv ==
  /\ main \in {"init", "run", "metrics", "phy", "stack", "join", "exit"}
  /\ txrx \in {"run", "clock", "done"} /\ hub \in {"idle", "period", "wait", "done"}

\* What Push, TryPush and WaitPop do to the queue they are called for.
LEMMA AppendTask ==
  ASSUME QueueInv, NEW q \in Queues, NEW task \in Tasks, ~Full(q),
         buffer' = [buffer EXCEPT ![q] = Append(@, task)], UNCHANGED active
  PROVE  /\ QueueInv' /\ Len(buffer'[q]) = Len(buffer[q]) + 1
         /\ \A r \in Queues \ {q} : buffer'[r] = buffer[r]
<1>1. /\ buffer[q] \in Seq(Tasks) /\ Capacity[q] \in Nat
  BY CapacityAssumption DEF QueueInv
<1>2. /\ Append(buffer[q], task) \in Seq(Tasks)
      /\ Len(Append(buffer[q], task)) = Len(buffer[q]) + 1
      /\ Len(buffer[q]) \in Nat
  BY <1>1
<1>3. Len(buffer[q]) + 1 <= Capacity[q]
  BY <1>1, <1>2 DEF Full
<1>4. /\ buffer'[q] = Append(buffer[q], task) /\ buffer' \in [Queues -> Seq(Tasks)]
      /\ \A r \in Queues \ {q} : buffer'[r] = buffer[r]
  BY <1>2, Zenon DEF QueueInv
<1>. QED BY <1>2, <1>3, <1>4, Zenon DEF QueueInv

\* The oldest task leaves its queue.
LEMMA TakeTask ==
  ASSUME QueueInv, NEW q \in Queues, WaitPop(q)
  PROVE  /\ QueueInv' /\ Len(buffer'[q]) = Len(buffer[q]) - 1 /\ Len(buffer[q]) \in Nat \ {0}
         /\ \A r \in Queues \ {q} : buffer'[r] = buffer[r]
<1>1. /\ buffer[q] \in Seq(Tasks) /\ buffer[q] # <<>> /\ Capacity[q] \in Nat
      /\ Len(buffer[q]) <= Capacity[q]
  BY CapacityAssumption DEF QueueInv, WaitPop
<1>2. /\ Tail(buffer[q]) \in Seq(Tasks) /\ Len(Tail(buffer[q])) = Len(buffer[q]) - 1
      /\ Len(buffer[q]) \in Nat \ {0} /\ Len(buffer[q]) - 1 <= Capacity[q]
  BY <1>1
<1>3. /\ buffer'[q] = Tail(buffer[q]) /\ buffer' \in [Queues -> Seq(Tasks)]
      /\ \A r \in Queues \ {q} : buffer'[r] = buffer[r]
  BY <1>2, Zenon DEF QueueInv, WaitPop
<1>. QED BY <1>2, <1>3, Zenon DEF QueueInv, WaitPop

\* A thread that pushes, waiting or not, leaves the other queues alone.
LEMMA PushTask ==
  ASSUME QueueInv, NEW q \in Queues, NEW task \in Tasks, Push(q, task)
  PROVE  QueueInv' /\ \A r \in Queues \ {q} : buffer'[r] = buffer[r]
<1>1. CASE active
  BY <1>1, AppendTask, Zenon DEF Push
<1>2. CASE ~active
  BY <1>2, Zenon DEF Push, QueueInv
<1>. QED BY <1>1, <1>2

\* Stopping empties the queues.
LEMMA DropTasks ==
  ASSUME StopQueues
  PROVE  QueueInv' /\ \A q \in Queues : buffer'[q] = <<>>
<1>1. <<>> \in Seq(Tasks) /\ Len(<<>>) = 0 /\ \A n \in Nat : 0 <= n
  OBVIOUS
<1>2. \A q \in Queues : Capacity[q] \in Nat
  BY CapacityAssumption
<1>. QED BY <1>1, <1>2, Zenon DEF StopQueues, QueueInv

\* Types and bounds.
BoundInv == QueueInv /\ MessageInv /\ MetricsInv /\ LabelInv /\ ThreadInv

\* A step that does not touch the hub's queue and its answers.
LEMMA MetricsKept ==
  ASSUME MetricsInv, buffer'["metrics"] = buffer["metrics"], UNCHANGED <<hub, answers>>
  PROVE  MetricsInv'
BY Zenon DEF MetricsInv

\* Who pushes into a queue waits for room in it or gives up, and an answer is
\* made for the one request in the hub's queue.
LEMMA QueuesStep ==
  ASSUME QueueInv, MessageInv, MetricsInv, [Next]_vars
  PROVE  QueueInv' /\ MetricsInv'
<1>0. /\ "sync" \in Queues /\ "mme" \in Queues /\ "gtpu" \in Queues /\ "metrics" \in Queues
      /\ "enb" \in Queues
  BY QueuesAssumption, Zenon
<1>1. CASE UNCHANGED <<queueVars, hub, answers>>
  <2>1. QueueInv'
    BY <1>1, Zenon DEF QueueInv
  <2>2. buffer'["metrics"] = buffer["metrics"]
    BY <1>1, Zenon
  <2>. QED BY <1>1, <2>1, <2>2, MetricsKept, Zenon
<1>2. ASSUME NEW q \in {"sync", "mme", "gtpu", "enb"}, NEW task \in Tasks,
             WaitPop(q) \/ Push(q, task), UNCHANGED <<hub, answers>>
      PROVE  QueueInv' /\ MetricsInv'
  <2>1. q \in Queues /\ "metrics" \in Queues \ {q}
    BY <1>0, Zenon
  <2>2. QueueInv' /\ buffer'["metrics"] = buffer["metrics"]
    BY <1>2, <2>1, TakeTask, PushTask, Zenon
  <2>. QED BY <1>2, <2>2, MetricsKept, Zenon
<1>3. CASE RunMetrics
  <2>1. WaitPop("metrics") /\ answers' = answers + 1 /\ hub' = hub
    BY <1>3, Zenon DEF RunMetrics
  <2>. DEFINE n == Len(buffer["metrics"])
              m == Len(buffer'["metrics"])
  <2>2. QueueInv' /\ m = n - 1 /\ n \in Nat \ {0}
    BY <1>0, <2>1, TakeTask, Zenon
  <2>3. answers \in Nat /\ n + answers <= 1 /\ (hub # "wait" => n + answers = 0)
    BY Zenon DEF MetricsInv
  <2>. HIDE DEF n, m
  <2>4. answers' \in Nat /\ m + answers' <= 1 /\ hub = "wait"
    BY <2>1, <2>2, <2>3
  <2>. QED BY <2>1, <2>2, <2>4, Zenon DEF MetricsInv, m
<1>4. CASE StopImpl
  <2>1. StopQueues /\ UNCHANGED <<hub, answers>>
    BY <1>4, Zenon DEF StopImpl
  <2>. DEFINE n == Len(buffer["metrics"])
              m == Len(buffer'["metrics"])
  <2>2. QueueInv' /\ buffer'["metrics"] = <<>>
    BY <1>0, <2>1, DropTasks, Zenon
  <2>3. m = 0
    BY <2>2
  <2>4. answers \in Nat /\ n + answers <= 1 /\ (hub # "wait" => n + answers = 0)
    BY Zenon DEF MetricsInv
  <2>5. n \in Nat
    <3>1. buffer["metrics"] \in Seq(Tasks)
      BY <1>0, Zenon DEF QueueInv
    <3>. QED BY <3>1
  <2>. HIDE DEF n, m
  <2>6. m + answers <= 1 /\ (hub # "wait" => m + answers = 0)
    BY <2>3, <2>4, <2>5
  <2>. QED BY <2>1, <2>2, <2>4, <2>6, Zenon DEF MetricsInv, m
<1>5. CASE GetMetrics
  <2>1. PICK success \in BOOLEAN : /\ TryPush("metrics", "metrics", success)
                                   /\ hub' = IF success THEN "wait" ELSE "idle"
    BY <1>5, Zenon DEF GetMetrics
  <2>2. hub = "period" /\ answers' = answers
    BY <1>5, Zenon DEF GetMetrics
  <2>. DEFINE n == Len(buffer["metrics"])
              m == Len(buffer'["metrics"])
  <2>3. answers \in Nat /\ n + answers = 0
    BY <2>2, Zenon DEF MetricsInv
  <2>4. n \in Nat
    <3>1. buffer["metrics"] \in Seq(Tasks)
      BY <1>0, Zenon DEF QueueInv
    <3>. QED BY <3>1
  <2>5. CASE success
    <3>1. "metrics" \in Tasks
      BY Zenon DEF Tasks
    <3>2. QueueInv' /\ m = n + 1
      BY <1>0, <2>1, <2>5, <3>1, AppendTask, Zenon DEF TryPush
    <3>. HIDE DEF n, m
    <3>3. m + answers <= 1
      BY <2>3, <2>4, <3>2
    <3>. QED BY <2>1, <2>2, <2>3, <2>5, <3>2, <3>3, Zenon DEF MetricsInv, m
  <2>6. CASE ~success
    <3>1. UNCHANGED <<queueVars, answers>> /\ hub' = "idle"
      BY <2>1, <2>2, <2>6, Zenon DEF TryPush
    <3>. QED BY <2>2, <3>1, Zenon DEF QueueInv, MetricsInv
  <2>. QED BY <2>5, <2>6
<1>6. CASE GetMetricsReturns
  <2>1. /\ hub = "wait" /\ hub' = "idle" /\ answers > 0 /\ answers' = answers - 1
        /\ UNCHANGED queueVars
    BY <1>6, Zenon DEF GetMetricsReturns
  <2>. DEFINE n == Len(buffer["metrics"])
  <2>2. answers \in Nat /\ n + answers <= 1
    BY Zenon DEF MetricsInv
  <2>3. n \in Nat
    <3>1. buffer["metrics"] \in Seq(Tasks)
      BY <1>0, Zenon DEF QueueInv
    <3>. QED BY <3>1
  <2>4. QueueInv' /\ Len(buffer'["metrics"]) = n
    BY <2>1, Zenon DEF QueueInv
  <2>. HIDE DEF n
  <2>5. answers' \in Nat /\ n + answers' <= 1 /\ n + answers' = 0
    BY <2>1, <2>2, <2>3
  <2>. QED BY <2>1, <2>4, <2>5, Zenon DEF MetricsInv
<1>7. CASE NextPeriod \/ HubEnds
  <2>1. UNCHANGED <<queueVars, answers>> /\ hub # "wait"
    BY <1>7, Zenon DEF NextPeriod, HubEnds
  <2>. QED BY <2>1, Zenon DEF QueueInv, MetricsInv
<1>8. CASE RxPush /\ UNCHANGED threadVars
  <2>1. message \in Tasks /\ Push("mme", message)
    BY <1>8, Zenon DEF RxPush, MessageInv, Tasks
  <2>. QED BY <1>2, <1>8, <2>1, Zenon
<1>9. CASE RxCommand /\ UNCHANGED threadVars
  <2>1. "packet" \in Tasks
    BY Zenon DEF Tasks
  <2>2. Push("gtpu", "packet") \/ UNCHANGED queueVars
    BY <1>9, Zenon DEF RxCommand
  <2>. QED BY <1>1, <1>2, <1>9, <2>1, <2>2, Zenon
<1>10. CASE Rx
  <2>1. CASE RxSelect \/ RxReady \/ RxLock \/ RxRead
    BY <1>1, <1>10, <2>1, Zenon DEF Rx, RxSelect, RxReady, RxLock, RxRead
  <2>. QED BY <1>8, <1>9, <1>10, <2>1, Zenon DEF Rx, RxThread
<1>11. CASE Stack
  <2>0. "tic" \in Tasks
    BY Zenon DEF Tasks
  <2>1. CASE RunTicOnly \/ RunConnectTimer \/ RunSetupTimeout
    BY <1>2, <2>0, <2>1, Zenon DEF RunTicOnly, RunConnectTimer, RunSetupTimeout, RunTic
  <2>2. CASE RunMmeMessage \/ RunGtpuPacket \/ RunStop
    BY <1>2, <2>0, <2>2, Zenon DEF RunMmeMessage, RunGtpuPacket, RunStop, HandleMmeRxMsg
  <2>3. CASE StopRxSockets
    BY <1>1, <2>3, Zenon DEF StopRxSockets
  <2>4. CASE S1Procedure /\ UNCHANGED threadVars
    BY <1>1, <2>4, Zenon DEF S1Procedure, Launch, ConnectMme, SetupS1, Remove, Removed, Close
  <2>. QED BY <1>3, <1>4, <1>11, <2>1, <2>2, <2>3, <2>4, Zenon DEF Stack, RunTask
<1>12. CASE TtiClock \/ StackStop
  <2>1. "tic" \in Tasks /\ "stop" \in Tasks
    BY Zenon DEF Tasks
  <2>. QED BY <1>2, <1>12, <2>1, Zenon DEF TtiClock, StackStop, MainStep
<1>13. CASE NextTti \/ TxrxEnds \/ InitReturns \/ JoinMetrics \/ JoinTxrx \/ JoinStack \/ Signal
  BY <1>1, <1>13, Zenon DEF NextTti, TxrxEnds, InitReturns, JoinMetrics, JoinTxrx, JoinStack, Signal, MainStep
<1>14. CASE Network \/ Halted \/ UNCHANGED vars
  BY <1>1, <1>14, Zenon DEF Network, Mme, MmeAccepts, MmeRejects, MmeSends, MmeLeaves, Receive,
     Halted, vars
<1>. QED BY <1>5, <1>6, <1>7, <1>10, <1>11, <1>12, <1>13, <1>14, Zenon DEF Next, Main

\* The RXsockets thread hands on what it has read, and reads what was sent.
LEMMA DeliveryStep ==
  ASSUME MessageInv, [Next]_vars
  PROVE  MessageInv'
<1>1. CASE UNCHANGED <<inbox, message, rx>>
  BY <1>1, Zenon DEF MessageInv
<1>2. CASE inbox' = <<>> /\ UNCHANGED <<message, rx>>
  <2>1. <<>> \in Seq(MessageKinds) /\ Len(<<>>) <= MaxInbox
    BY InboxAssumption
  <2>. QED BY <1>2, <2>1, Zenon DEF MessageInv
<1>3. ASSUME NEW kind \in MessageKinds, Receive(kind) PROVE MessageInv'
  <2>1. Len(inbox) < MaxInbox /\ inbox' = Append(inbox, kind) /\ inbox \in Seq(MessageKinds)
    BY <1>3, Zenon DEF Receive, MessageInv
  <2>2. inbox' \in Seq(MessageKinds) /\ Len(inbox') <= MaxInbox
    BY <2>1, InboxAssumption
  <2>. QED BY <1>3, <2>2, Zenon DEF Receive, MessageInv
<1>4. CASE Rx
  <2>1. CASE RxSelect \/ RxReady \/ RxLock \/ RxCommand
    <3>1. UNCHANGED <<inbox, message>> /\ rx' # "push"
      BY <2>1, Zenon DEF RxSelect, RxReady, RxLock, RxCommand
    <3>. QED BY <3>1, Zenon DEF MessageInv
  <2>2. CASE RxPush
    BY <2>2, Zenon DEF RxPush, MessageInv
  <2>3. CASE RxRead /\ ~open
    <3>1. UNCHANGED <<inbox, message>> /\ rx' # "push"
      BY <2>3, Zenon DEF RxRead
    <3>. QED BY <3>1, Zenon DEF MessageInv
  <2>4. CASE RxRead /\ open
    <3>1. inbox \in Seq(MessageKinds) /\ inbox # <<>> /\ Len(inbox) <= MaxInbox
      BY <2>4, Zenon DEF RxRead, MessageInv
    <3>2. Head(inbox) \in MessageKinds /\ Tail(inbox) \in Seq(MessageKinds) /\ Len(Tail(inbox)) <= MaxInbox
      BY <3>1, InboxAssumption
    <3>3. message' = Head(inbox) /\ inbox' = Tail(inbox)
      BY <2>4, Zenon DEF RxRead
    <3>. QED BY <3>2, <3>3, Zenon DEF MessageInv
  <2>. QED BY <1>4, <2>1, <2>2, <2>3, <2>4, Zenon DEF Rx, RxThread
<1>5. CASE Stack
  <2>1. CASE RunTicOnly \/ RunConnectTimer \/ RunSetupTimeout \/ RunGtpuPacket \/ RunMetrics \/ RunStop
    BY <1>1, <2>1, Zenon DEF RunTicOnly, RunConnectTimer, RunSetupTimeout, RunTic, RunGtpuPacket,
       RunMetrics, RunStop
  <2>2. CASE RunMmeMessage
    BY <1>1, <1>2, <2>2, Zenon DEF RunMmeMessage, HandleMmeRxMsg, CloseSocket
  <2>3. CASE StopRxSockets \/ StopImpl
    BY <1>1, <1>2, <2>3, Zenon DEF StopRxSockets, StopImpl, StopS1, CloseSocket
  <2>4. CASE S1Procedure
    BY <1>1, <1>2, <2>4, Zenon DEF S1Procedure, Launch, ConnectMme, SetupS1, Remove, Removed, Close,
       CloseSocket
  <2>. QED BY <1>5, <2>1, <2>2, <2>3, <2>4, Zenon DEF Stack, RunTask
<1>6. CASE NextTti \/ TtiClock \/ TxrxEnds \/ NextPeriod \/ GetMetrics \/ GetMetricsReturns \/ HubEnds
  BY <1>1, <1>6, Zenon DEF NextTti, TtiClock, TxrxEnds, NextPeriod, GetMetrics, GetMetricsReturns,
                           HubEnds
<1>7. CASE Main \/ Signal
  BY <1>1, <1>7, Zenon DEF Main, InitReturns, JoinMetrics, JoinTxrx, StackStop, JoinStack, Signal, MainStep
<1>8. CASE Network
  <2>1. {"response", "other", "shutdown", "empty"} \subseteq MessageKinds
    BY Zenon DEF MessageKinds
  <2>. QED BY <1>3, <1>8, <2>1, Zenon DEF Network, Mme, MmeAccepts, MmeRejects, MmeSends, MmeLeaves
<1>9. CASE Halted \/ UNCHANGED vars
  BY <1>1, <1>9, Zenon DEF Halted, vars
<1>. QED BY <1>4, <1>5, <1>6, <1>7, <1>8, <1>9, Zenon DEF Next

\* The stack thread and the RXsockets thread go from one of their places to
\* another.
LEMMA LabelStep ==
  ASSUME LabelInv, [Next]_vars
  PROVE  LabelInv'
<1>1. CASE Rx
  <2>1. UNCHANGED <<stackVars, threadVars>>
    BY <1>1, Zenon DEF Rx
  <2>2. /\ rx' \in {"loop", "select", "lock", "read", "push", "command", "exited"}
        /\ ready' \subseteq {"mme", "gtpu", "pipe"}
    BY <1>1, Zenon DEF Rx, RxThread, RxSelect, RxReady, RxLock, RxRead, RxPush, RxCommand, LabelInv
  <2>. QED BY <2>1, <2>2, Zenon DEF LabelInv
<1>2. CASE Stack
  <2>1. UNCHANGED <<rx, ready>>
    BY <1>2, Zenon DEF Stack, RunTask, RunTicOnly, RunConnectTimer, RunSetupTimeout, RunTic, RunMmeMessage,
       HandleMmeRxMsg, RunGtpuPacket, RunMetrics, RunStop, StopRxSockets, StopImpl, S1Procedure, Launch,
       ConnectMme, SetupS1, Remove, Removed, Close
  <2>. DEFINE Labels == {"wait", "stop", "join", "done", "launch", "add", "setup", "remove",
                         "removing", "close"}
              Whys   == {"no", "then", "down"}
              Assocs == {"down", "up", "asked", "answered"}
              Placed == pc' \in Labels /\ closing' \in Whys /\ assoc' \in Assocs
  <2>2. pc \in Labels /\ closing \in Whys /\ assoc \in Assocs
    BY Zenon DEF LabelInv, S1Labels
  <2>3. ASSUME Launch PROVE Placed
    BY <2>2, <2>3 DEF Launch
  <2>4. ASSUME ConnectMme \/ SetupS1 \/ Remove \/ Removed PROVE Placed
    BY <2>2, <2>4 DEF ConnectMme, SetupS1, Remove, Removed
  <2>5. ASSUME Close PROVE Placed
    BY <2>2, <2>5 DEF Close, CloseSocket
  <2>6. ASSUME RunTicOnly \/ RunConnectTimer \/ RunSetupTimeout PROVE Placed
    BY <2>2, <2>6 DEF RunTicOnly, RunConnectTimer, RunSetupTimeout, RunTic, ConnectTimerExpires,
       SetupTimeoutExpires
  <2>7. ASSUME RunMmeMessage PROVE Placed
    BY <2>2, <2>7 DEF RunMmeMessage, HandleMmeRxMsg, CloseSocket
  <2>8. ASSUME RunGtpuPacket \/ RunMetrics \/ RunStop \/ StopRxSockets \/ StopImpl PROVE Placed
    BY <2>2, <2>8 DEF RunGtpuPacket, RunMetrics, RunStop, StopRxSockets, StopImpl, StopS1, CloseSocket
  <2>9. Placed
    BY <1>2, <2>3, <2>4, <2>5, <2>6, <2>7, <2>8, Zenon DEF Stack, RunTask, S1Procedure
  <2>. QED BY <2>1, <2>9, Zenon DEF LabelInv, S1Labels
<1>3. CASE NextTti \/ TtiClock \/ TxrxEnds \/ NextPeriod \/ GetMetrics \/ GetMetricsReturns \/ HubEnds
  BY <1>3, Zenon DEF LabelInv, NextTti, TtiClock, TxrxEnds, NextPeriod, GetMetrics, GetMetricsReturns,
     HubEnds
<1>4. CASE Main \/ Signal
  BY <1>4, Zenon DEF LabelInv, Main, InitReturns, JoinMetrics, JoinTxrx, StackStop, JoinStack, Signal,
     MainStep
<1>5. CASE Network
  BY <1>5, Zenon DEF LabelInv, Network, Mme, MmeAccepts, MmeRejects, MmeSends, MmeLeaves, Receive
<1>6. CASE Halted \/ UNCHANGED vars
  BY <1>6, Zenon DEF LabelInv, Halted, vars
<1>. QED BY <1>1, <1>2, <1>3, <1>4, <1>5, <1>6, Zenon DEF Next

\* So do the main thread, the TXRX thread and the metrics hub.
LEMMA ThreadStep ==
  ASSUME ThreadInv, [Next]_vars
  PROVE  ThreadInv'
<1>1. ASSUME UNCHANGED <<main, txrx, hub>> PROVE ThreadInv'
  BY <1>1, Zenon DEF ThreadInv
<1>2. CASE Stack
  BY <1>1, <1>2, Zenon DEF Stack, RunTask, RunTicOnly, RunConnectTimer, RunSetupTimeout, RunTic, RunMmeMessage,
     RunGtpuPacket, RunMetrics, RunStop, StopRxSockets, StopImpl, threadVars
<1>3. CASE NextTti \/ TtiClock \/ TxrxEnds
  <2>1. txrx' \in {"run", "clock", "done"} /\ UNCHANGED <<main, hub>>
    BY <1>3, Zenon DEF NextTti, TtiClock, TxrxEnds
  <2>. QED BY <2>1, Zenon DEF ThreadInv
<1>4. CASE NextPeriod \/ GetMetrics \/ GetMetricsReturns \/ HubEnds
  <2>1. hub' \in {"idle", "period", "wait", "done"} /\ UNCHANGED <<main, txrx>>
    BY <1>4, Zenon DEF NextPeriod, GetMetrics, GetMetricsReturns, HubEnds
  <2>. QED BY <2>1, Zenon DEF ThreadInv
<1>5. CASE Main \/ Signal
  <2>1. main' \in {"run", "metrics", "phy", "stack", "join", "exit"} /\ UNCHANGED <<txrx, hub>>
    BY <1>5, Zenon DEF Main, InitReturns, JoinMetrics, JoinTxrx, StackStop, JoinStack, Signal, MainStep
  <2>. QED BY <2>1, Zenon DEF ThreadInv
<1>6. CASE Rx \/ Network \/ Halted \/ UNCHANGED vars
  BY <1>1, <1>6, Zenon DEF Rx, Network, Halted, threadVars, vars
<1>. QED BY <1>2, <1>3, <1>4, <1>5, <1>6, Zenon DEF Next

\* The types and bounds hold at the start.
LEMMA BoundInit == Init => BoundInv
<1>. SUFFICES ASSUME Init PROVE BoundInv
  OBVIOUS
<1>1. <<>> \in Seq(Tasks) /\ <<>> \in Seq(MessageKinds) /\ Len(<<>>) = 0 /\ 0 + 0 = 0 /\ 0 <= 1 /\ 0 \in Nat
  OBVIOUS
<1>2. 0 <= MaxInbox /\ \A q \in Queues : 0 <= Capacity[q]
  BY InboxAssumption, CapacityAssumption
<1>3. "metrics" \in Queues
  BY QueuesAssumption, Zenon
<1>4. QueueInv
  BY <1>1, <1>2, Zenon DEF Init, QueuesInit, QueueInv
<1>5. MessageInv
  BY <1>1, <1>2, Zenon DEF Init, SocketsInit, MessageInv
<1>6. MetricsInv
  <2>1. buffer["metrics"] = <<>> /\ answers = 0
    BY <1>3, Zenon DEF Init, QueuesInit
  <2>. QED BY <1>1, <2>1, Zenon DEF MetricsInv
<1>7. LabelInv
  BY Zenon DEF Init, SocketsInit, S1Init, LabelInv, S1Labels
<1>8. ThreadInv
  BY Zenon DEF Init, ThreadInv
<1>. QED BY <1>4, <1>5, <1>6, <1>7, <1>8, Zenon DEF BoundInv

\* For queues of any capacity every variable keeps its type, no queue holds more
\* than its capacity, and at most one answer to enb_stack_lte::get_metrics is
\* pending, so that the hub never takes an earlier request's answer for its own.
THEOREM StackTypeCorrect == Spec => []TypeOK
<1>1. BoundInv /\ [Next]_vars => BoundInv'
  BY QueuesStep, DeliveryStep, LabelStep, ThreadStep, Zenon DEF BoundInv
<1>2. IInv /\ BoundInv => TypeOK
  <2>. SUFFICES ASSUME IInv, BoundInv PROVE TypeOK
    OBVIOUS
  <2>1. answers \in 0 .. 1
    <3>. DEFINE n == Len(buffer["metrics"])
    <3>1. "metrics" \in Queues /\ buffer \in [Queues -> Seq(Tasks)]
      BY QueuesAssumption, Zenon DEF BoundInv, QueueInv
    <3>2. n \in Nat
      BY <3>1
    <3>3. answers \in Nat /\ n + answers <= 1
      BY Zenon DEF BoundInv, MetricsInv
    <3>. HIDE DEF n
    <3>. QED BY <3>2, <3>3
  <2>2. QueuesTypeOK(MessageKinds \cup {"tic", "metrics", "stop", "packet"})
    BY Zenon DEF BoundInv, QueueInv, QueuesTypeOK, Tasks
  <2>3. RxSocketsTypeOK /\ S1TypeOK
    BY Zenon DEF IInv, TypeInv, PipeInv, BoundInv, MessageInv, LabelInv, RxSocketsTypeOK, S1TypeOK
  <2>. QED BY <2>1, <2>2, <2>3, Zenon DEF BoundInv, MessageInv, LabelInv, ThreadInv, TypeOK
<1>. QED BY <1>1, <1>2, BoundInit, StackInductive, PTL DEF Spec
=============================================================================
