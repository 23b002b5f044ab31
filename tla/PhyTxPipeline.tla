--------------------------- MODULE PhyTxPipeline ---------------------------
(***************************************************************************)
(* The subframe pipeline of the eNB physical layer.                        *)
(*                                                                         *)
(* The TXRX thread (srsenb/src/phy/txrx.cc) takes, for every TTI, an idle  *)
(* worker of the LTE pool and, when NR carriers are configured, one of the *)
(* NR pool, enters them in a FIFO (tti_semaphore) and starts them.  The    *)
(* workers (sf_worker, slot_worker) make their subframes in parallel and   *)
(* meet again in phy_common::worker_end, where the FIFO lets them through  *)
(* one at a time: the workers of one TTI combine their samples by POINTER  *)
(* into one tx_buffer, and the last of them hands it to the radio.  A      *)
(* worker that is not the last holds until the radio has its samples.      *)
(* phy::stop tears the pipeline down.                                      *)
(*                                                                         *)
(* Samples are abstracted to the TTI they were made for: buf[w] is the TTI *)
(* of what worker w's transmit buffer holds now.                           *)
(***************************************************************************)
EXTENDS Integers, Sequences, FiniteSets

CONSTANTS
  NofLte,    \* workers of the LTE pool (phy.nof_phy_threads; 0: NR standalone)
  NofNr,     \* workers of the NR pool (0: no NR carrier)
  TtiMod,    \* TTIs are counted modulo 10240 in the code
  Delay      \* FDD_HARQ_DELAY_UL_MS, 4 in the code

ASSUME PoolAssumption == NofLte \in Nat /\ NofNr \in Nat /\ NofLte + NofNr > 0
ASSUME TtiAssumption  == TtiMod \in Nat /\ Delay \in Nat /\ Delay + 1 < TtiMod

Lte     == 1..NofLte
Nr      == (NofLte + 1)..(NofLte + NofNr)
Workers == Lte \cup Nr
Pools   == {"lte", "nr"}
Pool(w) == IF w \in Lte THEN "lte" ELSE "nr"
NoWorker == 0
NoContext == [tti |-> 0, last |-> FALSE]

Ttis          == 0..(TtiMod - 1)
TTI_ADD_NoWrap(a, b) == a + b
TTI_ADD(a, b) == (a + b) % TtiMod
TTI_SUB(a, b) == ((a + TtiMod) - b) % TtiMod

VARIABLES
  running,      \* txrx::running
  rx,           \* where the TXRX thread is in its loop
  tti,          \* txrx::tti, the TTI being received
  lw, nw,       \* lte_worker and nr_worker of the current iteration
  pool_running, \* thread_pool::running of the two pools
  status,       \* thread_pool::status of every worker
  wpc,          \* where the worker's thread is
  ctx,          \* worker_context_t: [tti (sf_idx), last]
  tx_enable,    \* does worker_end get samples to send from the worker
  buf,          \* TTI of the samples in the worker's transmit buffer
  fifo,         \* phy_common::semaphore
  slot_sync,    \* nr::worker_pool::slot_sync
  tx_buffer,    \* workers whose buffers phy_common::tx_buffer points to
  tx_hold,      \* phy_common_interface::tx_hold
  sent,         \* transmit TTI of the last radio->tx
  on_air,       \* TTIs of the samples the last radio->tx was given
  stop          \* progress of phy::stop

rxVars   == <<running, rx, tti, lw, nw>>
poolVars == <<pool_running, status>>
workVars == <<wpc, ctx, tx_enable, buf>>
txVars   == <<tx_buffer, tx_hold, sent, on_air>>
vars     == <<rxVars, poolVars, workVars, fifo, slot_sync, txVars, stop>>

RxPcs     == {"head", "lte", "nr", "push_nr", "start_nr", "push_lte", "start_lte", "done"}
Statuses  == {"STOP", "IDLE", "START_WORK", "WORKER_READY", "WORKING"}
WorkerPcs == {"wait", "work", "sync", "sched", "turn", "combine", "tx", "last",
              "release", "hold", "finish", "exit"}
StopPcs   == {"run", "join_rx", "wait_all", "stop_lte", "join_lte", "stop_nr", "join_nr", "stopped"}

\* No iteration has begun: the first one receives TTI_SUB(0, Delay) and so
\* transmits TTI 0.
Init ==
  /\ running = TRUE
  /\ rx = "head"
  /\ tti = TTI_SUB(0, Delay + 1)
  /\ lw = NoWorker /\ nw = NoWorker
  /\ pool_running = [p \in Pools |-> TRUE]
  /\ status = [w \in Workers |-> "IDLE"]
  /\ wpc = [w \in Workers |-> "wait"]
  /\ ctx = [w \in Workers |-> NoContext]
  /\ tx_enable = [w \in Workers |-> FALSE]
  /\ buf = [w \in Workers |-> 0]
  /\ fifo = <<>>
  /\ slot_sync = <<>>
  /\ tx_buffer = {} /\ tx_hold = FALSE
  /\ sent = TTI_SUB(0, 1) /\ on_air = {}
  /\ stop = "run"

----------------------------------------------------------------------------
(* The TXRX thread: txrx::run_thread.                                      *)

RxLoop_CountLast ==
  /\ rx = "head"
  /\ tti' = TTI_ADD(tti, 1)
  /\ rx' = IF ~running THEN "done" ELSE IF NofLte > 0 THEN "lte" ELSE "nr"
  /\ lw' = NoWorker /\ nw' = NoWorker
  /\ UNCHANGED <<running, poolVars, workVars, fifo, slot_sync, txVars, stop>>

\* while (running) { tti = TTI_ADD(tti, 1); ...
RxLoop ==
  /\ rx = "head"
  /\ IF running
     THEN /\ tti' = TTI_ADD(tti, 1)
          /\ rx' = IF NofLte > 0 THEN "lte" ELSE "nr"
     ELSE rx' = "done" /\ UNCHANGED tti
  /\ lw' = NoWorker /\ nw' = NoWorker
  /\ UNCHANGED <<running, poolVars, workVars, fifo, slot_sync, txVars, stop>>

FinishedWorker_AlsoBusy(S, w) ==
  /\ w \in S /\ status[w] \in {"IDLE", "WORKING"}
  /\ \A v \in S : status[v] \in {"IDLE", "WORKING"} => w <= v

\* find_finished_worker: the first idle worker of the pool.
FinishedWorker(S, w) ==
  /\ w \in S /\ status[w] = "IDLE"
  /\ \A v \in S : status[v] = "IDLE" => w <= v

\* thread_pool::wait_worker: blocks until a worker of S is idle.
WaitWorker(S, w) ==
  /\ FinishedWorker(S, w)
  /\ status' = [status EXCEPT ![w] = "WORKER_READY"]

\* A pool being stopped makes wait_worker return a null pointer, and the
\* loop ends.
RxQuit ==
  /\ running' = FALSE
  /\ rx' = "head"
  /\ UNCHANGED <<status, lw, nw>>

RxWaitLte ==
  /\ rx = "lte"
  /\ IF pool_running["lte"]
     THEN \E w \in Lte : /\ WaitWorker(Lte, w)
                         /\ lw' = w
                         /\ rx' = IF NofNr > 0 THEN "nr" ELSE "push_lte"
                         /\ UNCHANGED <<running, nw>>
     ELSE RxQuit
  /\ UNCHANGED <<tti, pool_running, workVars, fifo, slot_sync, txVars, stop>>

RxWaitNr ==
  /\ rx = "nr"
  /\ IF pool_running["nr"]
     THEN \E w \in Nr : /\ WaitWorker(Nr, w)
                        /\ nw' = w
                        /\ rx' = "push_nr"
                        /\ UNCHANGED <<running, lw>>
     ELSE RxQuit
  /\ UNCHANGED <<tti, pool_running, workVars, fifo, slot_sync, txVars, stop>>

\* rx_now has filled the worker's receive buffer; set_context and
\* semaphore.push.
RxPush(pc, w, last, next) ==
  /\ rx = pc
  /\ ctx' = [ctx EXCEPT ![w] = [tti |-> tti, last |-> last]]
  /\ fifo' = Append(fifo, w)
  /\ rx' = next
  /\ UNCHANGED <<running, tti, lw, nw, poolVars, wpc, tx_enable, buf, slot_sync, txVars, stop>>

RxPushNr_AlwaysLast == RxPush("push_nr", nw, TRUE, "start_nr")

RxPushNr  == RxPush("push_nr", nw, NofLte = 0, "start_nr")
RxPushLte == RxPush("push_lte", lw, TRUE, "start_lte")

\* thread_pool::start_worker
StartWorker(w) ==
  status' = IF status[w] # "STOP" THEN [status EXCEPT ![w] = "START_WORK"] ELSE status

\* nr::worker_pool::start_worker also enters the worker in slot_sync.
RxStartNr ==
  /\ rx = "start_nr"
  /\ slot_sync' = Append(slot_sync, nw)
  /\ StartWorker(nw)
  /\ rx' = IF NofLte > 0 THEN "push_lte" ELSE "head"
  /\ UNCHANGED <<running, tti, lw, nw, pool_running, workVars, fifo, txVars, stop>>

RxStartLte ==
  /\ rx = "start_lte"
  /\ StartWorker(lw)
  /\ rx' = "head"
  /\ UNCHANGED <<running, tti, lw, nw, pool_running, workVars, fifo, slot_sync, txVars, stop>>

Txrx == RxLoop \/ RxWaitLte \/ RxWaitNr \/ RxPushNr \/ RxStartNr \/ RxPushLte \/ RxStartLte

----------------------------------------------------------------------------
(* A worker thread: thread_pool::worker::run_thread, and work_imp of       *)
(* sf_worker and slot_worker.                                              *)

Goto(w, pc) == wpc' = [wpc EXCEPT ![w] = pc]

\* wait_to_start, and the loop's exit once the pool has been stopped.  The
\* loop tests running once more before work_imp; as thread_pool::stop comes
\* after wait_all, it never finds a worker there.
WaitToStart(w) ==
  /\ wpc[w] = "wait"
  /\ status[w] \in {"START_WORK", "STOP"}
  /\ IF status[w] = "STOP"
     THEN Goto(w, "exit") /\ UNCHANGED status
     ELSE Goto(w, "work") /\ status' = [status EXCEPT ![w] = "WORKING"]
  /\ UNCHANGED <<rxVars, pool_running, ctx, tx_enable, buf, fifo, slot_sync, txVars, stop>>

\* The TTI a worker makes its subframe for: tti_tx_dl.
TxTti(w) == TTI_ADD(ctx[w].tti, Delay)

\* sf_worker::work_imp up to worker_end.  With a schedule from the MAC it
\* makes the subframe; on an error it calls worker_end all the same, with a
\* buffer that holds no samples.
WorkLte(w, ok) ==
  /\ wpc[w] = "work" /\ w \in Lte
  /\ tx_enable' = [tx_enable EXCEPT ![w] = ok]
  /\ buf' = IF ok THEN [buf EXCEPT ![w] = TxTti(w)] ELSE buf
  /\ Goto(w, "turn")
  /\ UNCHANGED <<rxVars, poolVars, ctx, fifo, slot_sync, txVars, stop>>

\* slot_worker::work_ul; either way the worker then waits for its turn to
\* call the scheduler.
WorkUlNr(w, ok) ==
  /\ wpc[w] = "work" /\ w \in Nr
  /\ tx_enable' = [tx_enable EXCEPT ![w] = ok]
  /\ Goto(w, "sync")
  /\ UNCHANGED <<rxVars, poolVars, ctx, buf, fifo, slot_sync, txVars, stop>>

\* tti_semaphore::wait
MayPass(queue, w) == queue = <<>> \/ Head(queue) = w

SyncWait_NoOrder(w) ==
  /\ wpc[w] = "sync"
  /\ Goto(w, "sched")
  /\ UNCHANGED <<rxVars, poolVars, ctx, tx_enable, buf, fifo, slot_sync, txVars, stop>>

SyncWait(w) ==
  /\ wpc[w] = "sync"
  /\ MayPass(slot_sync, w)
  /\ Goto(w, "sched")
  /\ UNCHANGED <<rxVars, poolVars, ctx, tx_enable, buf, fifo, slot_sync, txVars, stop>>

\* get_dl_sched, sync.release() and the rest of work_dl, which may fail; a
\* worker whose work_ul failed only releases.
WorkDlNr(w, ok) ==
  /\ wpc[w] = "sched"
  /\ slot_sync' = Tail(slot_sync)
  /\ tx_enable' = [tx_enable EXCEPT ![w] = @ /\ ok]
  /\ buf' = IF tx_enable[w] THEN [buf EXCEPT ![w] = TxTti(w)] ELSE buf
  /\ Goto(w, "turn")
  /\ UNCHANGED <<rxVars, poolVars, ctx, fifo, txVars, stop>>

(* phy_common::worker_end *)

SemaphoreWait(w) ==
  /\ wpc[w] = "turn"
  /\ MayPass(fifo, w)
  /\ Goto(w, "combine")
  /\ UNCHANGED <<rxVars, poolVars, ctx, tx_enable, buf, fifo, slot_sync, txVars, stop>>

\* tx_buffer.set_combine(buffer) and, unless this is the last worker of the
\* TTI, reset_last_worker()
Combine(w) ==
  /\ wpc[w] = "combine"
  /\ tx_buffer' = IF tx_enable[w] THEN tx_buffer \cup {w} ELSE tx_buffer
  /\ tx_hold' = IF ~ctx[w].last /\ tx_enable[w] THEN TRUE ELSE tx_hold
  /\ Goto(w, IF ctx[w].last THEN "tx" ELSE "release")
  /\ UNCHANGED <<rxVars, poolVars, ctx, tx_enable, buf, fifo, slot_sync, sent, on_air, stop>>

\* radio->tx(tx_buffer, tx_time); tx_buffer = {}
Transmit(w) ==
  /\ wpc[w] = "tx"
  /\ sent' = TxTti(w)
  /\ on_air' = {buf[v] : v \in tx_buffer}
  /\ tx_buffer' = {}
  /\ Goto(w, "last")
  /\ UNCHANGED <<rxVars, poolVars, ctx, tx_enable, buf, fifo, slot_sync, tx_hold, stop>>

\* last_worker()
LastWorker(w) ==
  /\ wpc[w] = "last"
  /\ tx_hold' = FALSE
  /\ Goto(w, "release")
  /\ UNCHANGED <<rxVars, poolVars, ctx, tx_enable, buf, fifo, slot_sync, tx_buffer, sent, on_air, stop>>

\* semaphore.release() pops whatever is in front.
Release(w) ==
  /\ wpc[w] = "release"
  /\ fifo' = Tail(fifo)
  /\ Goto(w, IF ~ctx[w].last /\ tx_enable[w] THEN "hold" ELSE "finish")
  /\ UNCHANGED <<rxVars, poolVars, ctx, tx_enable, buf, slot_sync, txVars, stop>>

WaitLastWorker_NoHold(w) ==
  /\ wpc[w] = "hold"
  /\ Goto(w, "finish")
  /\ UNCHANGED <<rxVars, poolVars, ctx, tx_enable, buf, fifo, slot_sync, txVars, stop>>

\* wait_last_worker()
WaitLastWorker(w) ==
  /\ wpc[w] = "hold"
  /\ ~tx_hold
  /\ Goto(w, "finish")
  /\ UNCHANGED <<rxVars, poolVars, ctx, tx_enable, buf, fifo, slot_sync, txVars, stop>>

\* thread_pool::worker::finished.  Values nobody reads again are forgotten:
\* the context and, unless tx_buffer still points to them, the samples.
Finished(w) ==
  /\ wpc[w] = "finish"
  /\ status' = IF status[w] # "STOP" THEN [status EXCEPT ![w] = "IDLE"] ELSE status
  /\ ctx' = [ctx EXCEPT ![w] = NoContext]
  /\ tx_enable' = [tx_enable EXCEPT ![w] = FALSE]
  /\ buf' = IF w \in tx_buffer THEN buf ELSE [buf EXCEPT ![w] = 0]
  /\ Goto(w, "wait")
  /\ UNCHANGED <<rxVars, pool_running, fifo, slot_sync, txVars, stop>>

Worker(w) ==
  \/ WaitToStart(w)
  \/ \E ok \in BOOLEAN : WorkLte(w, ok) \/ WorkUlNr(w, ok) \/ WorkDlNr(w, ok)
  \/ SyncWait(w)
  \/ SemaphoreWait(w) \/ Combine(w) \/ Transmit(w) \/ LastWorker(w)
  \/ Release(w) \/ WaitLastWorker(w) \/ Finished(w)

----------------------------------------------------------------------------
(* phy::stop, called once by the thread that owns the eNB.                 *)

StopStep(from, to) == stop = from /\ stop' = to

StopTxrx_KeepRunning ==
  /\ StopStep("run", "join_rx")
  /\ UNCHANGED <<rxVars, poolVars, workVars, fifo, slot_sync, txVars>>

\* tx_rx.stop()
StopTxrx ==
  /\ StopStep("run", "join_rx")
  /\ running' = FALSE
  /\ UNCHANGED <<rx, tti, lw, nw, poolVars, workVars, fifo, slot_sync, txVars>>

JoinTxrx ==
  /\ StopStep("join_rx", "wait_all")
  /\ rx = "done"
  /\ UNCHANGED <<rxVars, poolVars, workVars, fifo, slot_sync, txVars>>

WaitAll_Skipped ==
  /\ StopStep("wait_all", "stop_lte")
  /\ UNCHANGED <<rxVars, poolVars, workVars, fifo, slot_sync, txVars>>

\* workers_common.stop(): semaphore.wait_all()
WaitAll ==
  /\ StopStep("wait_all", "stop_lte")
  /\ fifo = <<>>
  /\ UNCHANGED <<rxVars, poolVars, workVars, fifo, slot_sync, txVars>>

\* thread_pool::stop, up to the joins
StopPool(from, to, p) ==
  /\ StopStep(from, to)
  /\ pool_running' = [pool_running EXCEPT ![p] = FALSE]
  /\ status' = [w \in Workers |-> IF Pool(w) = p THEN "STOP" ELSE status[w]]
  /\ UNCHANGED <<rxVars, workVars, fifo, slot_sync, txVars>>

JoinPool(from, to, p) ==
  /\ StopStep(from, to)
  /\ \A w \in Workers : Pool(w) = p => wpc[w] = "exit"
  /\ UNCHANGED <<rxVars, poolVars, workVars, fifo, slot_sync, txVars>>

PhyStop ==
  \/ StopTxrx \/ JoinTxrx \/ WaitAll
  \/ StopPool("stop_lte", "join_lte", "lte") \/ JoinPool("join_lte", "stop_nr", "lte")
  \/ StopPool("stop_nr", "join_nr", "nr") \/ JoinPool("join_nr", "stopped", "nr")

----------------------------------------------------------------------------
Terminated == stop = "stopped" /\ UNCHANGED vars

Next == Txrx \/ (\E w \in Workers : Worker(w)) \/ PhyStop \/ Terminated

Spec == Init /\ [][Next]_vars

\* The operating system schedules every thread, and the radio's calls return;
\* nobody is obliged to call phy::stop, but once called it goes on.
Fairness ==
  /\ WF_vars(Txrx)
  /\ \A w \in Workers : WF_vars(Worker(w))
  /\ WF_vars(stop # "run" /\ PhyStop)

FairSpec == Spec /\ Fairness

----------------------------------------------------------------------------
(* Properties *)

\* Every variable keeps its type; the TTIs stay below the modulus.
TypeOK ==
  /\ running \in BOOLEAN
  /\ rx \in RxPcs
  /\ tti \in Ttis
  /\ lw \in Lte \cup {NoWorker} /\ nw \in Nr \cup {NoWorker}
  /\ pool_running \in [Pools -> BOOLEAN]
  /\ status \in [Workers -> Statuses]
  /\ wpc \in [Workers -> WorkerPcs]
  /\ ctx \in [Workers -> [tti : Ttis, last : BOOLEAN]]
  /\ tx_enable \in [Workers -> BOOLEAN]
  /\ buf \in [Workers -> Ttis]
  /\ fifo \in Seq(Workers) /\ slot_sync \in Seq(Nr)
  /\ tx_buffer \in SUBSET Workers /\ tx_hold \in BOOLEAN
  /\ sent \in Ttis /\ on_air \in SUBSET Ttis
  /\ stop \in StopPcs

\* The radio is given one subframe per TTI, in TTI order, none missing and
\* none twice, the first one being TTI 0, however the workers are scheduled
\* (comment above worker_end: "transmission ... must be in sequence").
TxInOrder ==
  [][\A w \in Workers : Transmit(w) => sent' = TTI_ADD(sent, 1)]_vars

\* What goes on the air for a TTI was made for that TTI: no worker whose
\* buffer the radio is about to be given was released and has overwritten it
\* (comment above wait_last_worker).
TxCoherent == on_air \subseteq {sent}

ToBeScheduled(v) ==
  status[v] = "START_WORK" \/ wpc[v] \in {"work", "sync", "sched"}

\* The NR scheduler is called by one worker at a time, and in slot order: a
\* worker in get_dl_sched is ahead of every other NR worker still to call it
\* (comment in slot_worker::work_dl).
SchedInSlotOrder ==
  \A v, w \in Nr : v # w /\ wpc[w] = "sched" /\ ToBeScheduled(v) =>
      /\ wpc[v] # "sched"
      /\ TTI_SUB(ctx[v].tti, ctx[w].tti) \in 1..(NofNr - 1)

\* phy::stop stops no pool before every TTI taken from the radio has been
\* transmitted.
NothingLeftAtStop ==
  stop \in {"stop_lte", "join_lte", "stop_nr", "join_nr", "stopped"} =>
      fifo = <<>> /\ sent = TTI_ADD(tti, Delay)

\* TTIs in hand: one for each worker of the pool whose worker is the last of
\* its TTI, and the one that waits for a worker.
Capacity == (IF NofLte > 0 THEN NofLte ELSE NofNr) + 1

Transmitter == INSTANCE TtiTransmitter WITH taken <- tti

\* The pipeline implements the single-threaded transmitter: TTIs are
\* transmitted in the order in which they are taken, no TTI is transmitted
\* before it has been taken, and no more are in hand than the pool has workers,
\* plus the one that waits for a worker (txrx::run_thread and worker_end).
ImplementsTransmitter == Transmitter!Spec

\* Every TTI taken is eventually transmitted, also when phy::stop is called
\* with TTIs in hand (worker_end, tti_semaphore::wait_all).
EveryTtiSent == Transmitter!Fairness

\* phy::stop returns once it has been called: neither the TXRX thread nor a
\* worker it joins waits for ever.
StopReturns == stop # "run" ~> stop = "stopped"

=============================================================================
