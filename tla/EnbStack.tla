------------------------------ MODULE EnbStack ------------------------------
(***************************************************************************)
(* The threads around the eNodeB's stack, from the end of the stack's      *)
(* initialisation to the end of the program: the stack thread with its     *)
(* task queues, the RXsockets thread with the sockets of S1AP and GTP-U,   *)
(* the TXRX thread that pushes a task for every TTI, the metrics hub that  *)
(* asks the stack thread for its metrics, and the main thread, which stops *)
(* them one after the other.                                               *)
(***************************************************************************)
EXTENDS S1Connection

\* The queues of enb_stack_lte, and those of the two sockets' handlers.
ASSUME QueuesAssumption == {"sync", "mme", "gtpu", "metrics", "enb"} \subseteq Queues

VARIABLES
  main,       \* the main thread
  txrx,       \* the TXRX thread: "run", "clock" in tti_clock, "done"
  hub,        \* the metrics hub: "idle", "period" and "wait" in run_period, "done"
  answers     \* pending_stack_metrics

threadVars == <<main, txrx, hub, answers>>
stackVars == <<s1Vars, pc, assoc>>
vars == <<queueVars, socketVars, managerVars, rxVars, stackVars, threadVars>>

Init ==
  /\ QueuesInit /\ SocketsInit /\ S1Init
  /\ main = "init" /\ txrx = "run" /\ hub = "idle" /\ answers = 0

-----------------------------------------------------------------------------
(* The stack thread: run_next_task.                                        *)

\* The thread starts when the stack has been initialised.
Waiting == pc = "wait" /\ main # "init"

\* tti_clock_impl
RunTic(callback) ==
  /\ Waiting /\ WaitPop("sync")
  /\ callback
  /\ UNCHANGED <<socketVars, managerVars, rxVars, assoc, threadVars>>

RunTicOnly      == RunTic(UNCHANGED <<s1Vars, pc>>)
RunConnectTimer == RunTic(ConnectTimerExpires)
RunSetupTimeout == RunTic(SetupTimeoutExpires)

RunMmeMessage ==
  /\ Waiting /\ buffer["mme"] # <<>>
  /\ HandleMmeRxMsg
  /\ UNCHANGED threadVars

\* handle_gtpu_s1u_rx_packet and the M1-U handler touch nothing of this.
RunGtpuPacket ==
  /\ Waiting /\ WaitPop("gtpu")
  /\ UNCHANGED <<socketVars, managerVars, rxVars, stackVars, threadVars>>

RunMetrics ==
  /\ Waiting /\ WaitPop("metrics")
  /\ answers' = answers + 1
  /\ UNCHANGED <<socketVars, managerVars, rxVars, stackVars, main, txrx, hub>>

\* stop_impl: rx_sockets.stop() first, the queues last.
RunStop ==
  /\ Waiting /\ WaitPop("enb")
  /\ pc' = "stop"
  /\ UNCHANGED <<socketVars, managerVars, rxVars, s1Vars, assoc, threadVars>>

StopRxSockets ==
  /\ pc = "stop" /\ pc' = "join"
  /\ StopBegin
  /\ UNCHANGED <<queueVars, socketVars, rxVars, s1Vars, assoc, threadVars>>

StopImpl ==
  /\ pc = "join" /\ rx = "exited"
  /\ pc' = "done"
  /\ StopS1 /\ StopQueues
  /\ UNCHANGED <<managerVars, rxVars, threadVars>>

RunTask ==
  \/ RunTicOnly \/ RunConnectTimer \/ RunSetupTimeout \/ RunMmeMessage
  \/ RunGtpuPacket \/ RunMetrics \/ RunStop

Stack ==
  \/ RunTask \/ StopRxSockets \/ StopImpl
  \/ S1Procedure /\ UNCHANGED threadVars

-----------------------------------------------------------------------------
(* The other threads.                                                      *)

\* txrx::run_thread goes from TTI to TTI until phy::stop clears `running' ...
NextTti ==
  /\ txrx = "run" /\ main \in {"run", "metrics"}
  /\ txrx' = "clock"
  /\ UNCHANGED <<queueVars, socketVars, managerVars, rxVars, stackVars, main, hub, answers>>

\* ... and ends each in tti_clock, where it waits for room in the queue.
TtiClock ==
  /\ txrx = "clock" /\ txrx' = "run"
  /\ Push("sync", "tic")
  /\ UNCHANGED <<socketVars, managerVars, rxVars, stackVars, main, hub, answers>>

TxrxEnds ==
  /\ txrx = "run" /\ main = "phy"
  /\ txrx' = "done"
  /\ UNCHANGED <<queueVars, socketVars, managerVars, rxVars, stackVars, main, hub, answers>>

\* The metrics hub finds run_enable set; it may be cleared before get_metrics.
NextPeriod ==
  /\ hub = "idle" /\ main = "run"
  /\ hub' = "period"
  /\ UNCHANGED <<queueVars, socketVars, managerVars, rxVars, stackVars, main, txrx, answers>>

\* enb_stack_lte::get_metrics
GetMetrics ==
  /\ hub = "period"
  /\ \E success \in BOOLEAN : /\ TryPush("metrics", "metrics", success)
                              /\ hub' = IF success THEN "wait" ELSE "idle"
  /\ UNCHANGED <<socketVars, managerVars, rxVars, stackVars, main, txrx, answers>>

GetMetricsReturns ==
  /\ hub = "wait" /\ answers > 0
  /\ hub' = "idle" /\ answers' = answers - 1
  /\ UNCHANGED <<queueVars, socketVars, managerVars, rxVars, stackVars, main, txrx>>

HubEnds ==
  /\ hub = "idle" /\ main = "metrics"
  /\ hub' = "done"
  /\ UNCHANGED <<queueVars, socketVars, managerVars, rxVars, stackVars, main, txrx, answers>>

\* main(): enb::init returns, a signal, metricshub.stop(), then enb::stop()
\* with phy->stop() and eutra_stack->stop().
MainStep(from, to, condition) ==
  /\ main = from /\ condition
  /\ main' = to
  /\ UNCHANGED <<socketVars, managerVars, rxVars, stackVars, txrx, hub, answers>>

InitReturns == MainStep("init", "run", pc = "wait") /\ UNCHANGED queueVars
Signal      == MainStep("run", "metrics", TRUE) /\ UNCHANGED queueVars
JoinMetrics_NoWait == MainStep("metrics", "phy", TRUE) /\ UNCHANGED queueVars
JoinMetrics == MainStep("metrics", "phy", hub = "done") /\ UNCHANGED queueVars
JoinTxrx    == MainStep("phy", "stack", txrx = "done") /\ UNCHANGED queueVars
StackStop   == MainStep("stack", "join", TRUE) /\ Push("enb", "stop")
JoinStack   == MainStep("join", "exit", pc = "done") /\ UNCHANGED queueVars

Main == InitReturns \/ JoinMetrics \/ JoinTxrx \/ StackStop \/ JoinStack

\* GTP-U's socket is registered at the end of the initialisation.
Rx ==
  /\ RxThread
  /\ main = "init" => "gtpu" \notin ready'
  /\ UNCHANGED <<stackVars, threadVars>>

Network == Mme /\ UNCHANGED threadVars

\* The RXsockets thread cannot go on by itself: it holds socket_mutex and
\* waits for room in a queue or for a message, or select fails at once
\* because total_fd_set has a closed descriptor.
RxStuck ==
  \/ rx = "push" /\ Full("mme")
  \/ rx = "command" /\ "gtpu" \in ready /\ Full("gtpu")
  \/ rx = "read" /\ open /\ inbox = <<>>
  \/ rx = "loop" /\ watched /\ ~open

\* The stack thread waits for socket_mutex, for the removal of a socket or
\* for the end of the RXsockets thread, and that thread is stuck.
Wedged ==
  /\ RxStuck
  /\ \/ pc \in {"removing", "join"}
     \/ ~MutexFree /\ pc \in {"add", "stop"}
     \/ ~MutexFree /\ pc = "remove" /\ open /\ registered

\* Nothing more need happen.
Halted == (main = "exit" \/ Wedged) /\ UNCHANGED vars

Next ==
  \/ Stack \/ Rx \/ NextTti \/ TtiClock \/ TxrxEnds
  \/ NextPeriod \/ GetMetrics \/ GetMetricsReturns \/ HubEnds \/ Main \/ Signal \/ Network \/ Halted

\* Threads are scheduled.  The round robin of wait_pop serves every queue,
\* and a running timer expires after a number of tics.
Fairness ==
  /\ WF_vars(Stack) /\ SF_vars(RunMetrics) /\ SF_vars(RunStop)
  /\ SF_vars(RunConnectTimer) /\ SF_vars(RunSetupTimeout)
  /\ WF_vars(Rx) /\ WF_vars(NextTti) /\ WF_vars(TtiClock) /\ WF_vars(TxrxEnds)
  /\ WF_vars(GetMetrics) /\ WF_vars(GetMetricsReturns) /\ WF_vars(HubEnds) /\ WF_vars(Main)

Spec == Init /\ [][Next]_vars /\ Fairness

-----------------------------------------------------------------------------
(* Properties                                                              *)

\* Types, and the queues and the inbox within their bounds.
TypeOK ==
  /\ QueuesTypeOK(MessageKinds \cup {"tic", "metrics", "stop", "packet"})
  /\ RxSocketsTypeOK /\ S1TypeOK
  /\ message \in MessageKinds \cup {NoMessage}
  /\ pc \in {"wait", "stop", "join", "done"} \cup S1Labels
  /\ main \in {"init", "run", "metrics", "phy", "stack", "join", "exit"}
  /\ txrx \in {"run", "clock", "done"} /\ hub \in {"idle", "period", "wait", "done"}
  /\ answers \in 0 .. 1

\* While S1AP is not at work on its connection, the set-up procedure it has
\* started is limited by s1setup_timeout, and if there is neither a connection
\* nor a procedure, mme_connect_timer runs: whatever the order of answers,
\* shutdowns, failures and expiries, an event is left that takes it further.
NeverForgotten ==
  pc \notin S1Labels =>
    /\ busy => s1setup_timeout
    /\ running /\ ~busy /\ ~mme_connected => mme_connect_timer

\* mme_connected is only set while the MME's socket is open and registered
\* with the RXsockets thread, so that a loss of the connection is noticed.
ConnectedIsHeard ==
  mme_connected /\ pc = "wait" => open /\ registered /\ ~busy

\* The socket manager's two views of the MME's socket agree: what is watched
\* has a handler, what has a handler is watched or about to be, and a removal
\* is in the pipe, or its completion in rem_fd_tmp_list, only while the stack
\* thread waits for it; RM_FD then finds the descriptor it erases.
ManagerConsistent ==
  /\ watched => registered
  /\ registered => watched \/ \E i \in DOMAIN pipe : pipe[i] = "NEW_FD"
  /\ \A i \in DOMAIN pipe : pipe[i] = "RM_FD" => registered /\ pc = "removing" /\ ~removed
  /\ removed => pc = "removing" /\ ~registered

\* As long as no write of a set-up request fails, S1AP does not stay without
\* a connection to the MME and without a new attempt.
Retries ==
  <>Wedged \/ []<>(mme_connected \/ pc = "launch" \/ ~running \/ main # "run")

\* The metrics hub gets an answer to every request the stack has accepted.
MetricsAnswered ==
  <>Wedged \/ (hub = "wait" ~> hub # "wait")

\* After a signal the program ends, with every thread joined, unless the
\* stack thread waits for a stuck RXsockets thread.
StopReturns ==
  <>Wedged \/ (main = "metrics" ~> main = "exit")
=============================================================================
