---------------------------- MODULE PhyTxProofs -----------------------------
(***************************************************************************)
(* Every step of a PHY worker's thread (sf_worker and slot_worker          *)
(* work_imp, worker_end) and of phy::stop keeps the invariant, so the      *)
(* invariant holds throughout every behaviour; the properties of the       *)
(* pipeline follow from it.                                                *)
(***************************************************************************)
EXTENDS PhyTxInvariant

\* Z3 and then Zenon get half a minute for a leaf.
USE SMTT(30), ZenonT(30) DEF rxVars, poolVars, workVars, txVars

-----------------------------------------------------------------------------
(* A worker's thread *)

\* A worker that wakes up to work, or to exit, keeps the invariant.
LEMMA WaitToStartStep ==
  ASSUME IInv, NEW w \in Workers, WaitToStart(w)
  PROVE  IInv'
<1>. USE DEF IInv
<1>0. /\ wpc[w] = "wait" /\ status[w] \in {"START_WORK", "STOP"}
      /\ UNCHANGED <<rxVars, pool_running, ctx, tx_enable, buf, fifo, slot_sync, txVars, stop>>
  BY DEF WaitToStart
<1>a. PICK pc \in {"work", "exit"}, st \in {"WORKING", "STOP"} :
        /\ wpc' = [wpc EXCEPT ![w] = pc] /\ status' = [status EXCEPT ![w] = st]
        /\ IF status[w] = "STOP" THEN pc = "exit" /\ st = "STOP"
                                 ELSE pc = "work" /\ st = "WORKING"
  BY FunFacts DEF WaitToStart, Goto
<1>1. TypeOK'
  <2>1. status' \in [Workers -> Statuses] /\ wpc' \in [Workers -> WorkerPcs]
    BY <1>a DEF TypeOK, Statuses, WorkerPcs
  <2>. QED BY <1>0, <2>1 DEF TypeOK
<1>2. ControlInv'
  <2>1. StatusInv'
    BY <1>0, <1>a, FunFacts DEF ControlInv, StatusInv
  <2>2. RxInv'
    BY <1>0, <1>a DEF ControlInv, RxInv
  <2>3. StopInv'
    BY <1>0, <1>a DEF ControlInv, StopInv
  <2>. QED BY <2>1, <2>2, <2>3 DEF ControlInv
<1>3. QueueInv'
  BY <1>0, <1>a DEF QueueInv, FifoInv, FrontInv, Entered, HasTurn
<1>4. SyncInv'
  BY <1>0, <1>a, FunFacts DEF SyncInv, Unscheduled
<1>5. OrderInv'
  BY <1>0, <1>a, OrderUnchanged DEF Transmitted
<1>6. SampleInv'
  <2>1. BufInv'
    BY <1>0, <1>a DEF SampleInv, BufInv, TxTti
  <2>2. TxBufferInv'
    BY <1>0, <1>a DEF SampleInv, TxBufferInv, Due, Transmitted
  <2>. QED BY <1>0, <2>1, <2>2 DEF SampleInv, TxCoherent
<1>. QED BY <1>1, <1>2, <1>3, <1>4, <1>5, <1>6

\* sf_worker::work_imp up to worker_end keeps the invariant.
LEMMA WorkLteStep ==
  ASSUME IInv, NEW w \in Workers, NEW ok \in BOOLEAN, WorkLte(w, ok)
  PROVE  IInv'
<1>. USE DEF IInv, WorkLte, Goto
<1>1. TypeOK'
  <2>1. TxTti(w) \in Ttis
    BY TtiFacts DEF TypeOK, TxTti
  <2>. QED BY <2>1 DEF TypeOK, WorkerPcs
<1>2. ControlInv'
  BY DEF ControlInv, StatusInv, RxInv, StopInv
<1>3. QueueInv'
  BY DEF QueueInv, FifoInv, FrontInv, Entered, HasTurn
<1>4. SyncInv'
  BY FunFacts DEF SyncInv, Unscheduled
<1>5. OrderInv'
  BY DEF OrderInv, After, Pushed, NextPush, Due, Transmitted
<1>6. SampleInv'
  BY FunFacts DEF SampleInv, BufInv, TxBufferInv, TxCoherent, TxTti, Due, Transmitted
<1>. QED BY <1>1, <1>2, <1>3, <1>4, <1>5, <1>6

\* slot_worker::work_ul keeps the invariant.
LEMMA WorkUlNrStep ==
  ASSUME IInv, NEW w \in Workers, NEW ok \in BOOLEAN, WorkUlNr(w, ok)
  PROVE  IInv'
<1>. USE DEF IInv, WorkUlNr, Goto
<1>1. TypeOK'
  BY DEF TypeOK, WorkerPcs
<1>2. ControlInv'
  BY DEF ControlInv, StatusInv, RxInv, StopInv
<1>3. QueueInv'
  BY DEF QueueInv, FifoInv, FrontInv, Entered, HasTurn
<1>4. SyncInv'
  BY DEF SyncInv, Unscheduled
<1>5. OrderInv'
  BY DEF OrderInv, After, Pushed, NextPush, Due, Transmitted
<1>6. SampleInv'
  BY DEF SampleInv, BufInv, TxBufferInv, TxCoherent, TxTti, Due, Transmitted
<1>. QED BY <1>1, <1>2, <1>3, <1>4, <1>5, <1>6

\* An NR worker whose turn it is to call the scheduler keeps the invariant.
LEMMA SyncWaitStep ==
  ASSUME IInv, NEW w \in Workers, SyncWait(w)
  PROVE  IInv'
<1>. USE DEF IInv, SyncWait, MayPass, Goto
<1>1. TypeOK'
  BY DEF TypeOK, WorkerPcs
<1>2. ControlInv'
  BY DEF ControlInv, StatusInv, RxInv, StopInv
<1>3. QueueInv'
  BY DEF QueueInv, FifoInv, FrontInv, Entered, HasTurn
<1>4. SyncInv'
  <2>1. slot_sync # <<>> /\ slot_sync[1] = w
    BY FrontFacts DEF SyncInv, Unscheduled, ControlInv, StatusInv, TypeOK
  <2>. QED BY <2>1 DEF SyncInv, Unscheduled
<1>5. OrderInv'
  BY DEF OrderInv, After, Pushed, NextPush, Due, Transmitted
<1>6. SampleInv'
  BY DEF SampleInv, BufInv, TxBufferInv, TxCoherent, TxTti, Due, Transmitted
<1>. QED BY <1>1, <1>2, <1>3, <1>4, <1>5, <1>6

\* slot_worker::work_dl with its release of slot_sync keeps the invariant.
LEMMA WorkDlNrStep ==
  ASSUME IInv, NEW w \in Workers, NEW ok \in BOOLEAN, WorkDlNr(w, ok)
  PROVE  IInv'
<1>. USE DEF IInv, WorkDlNr, Goto
<1>1. TypeOK'
  <2>1. TxTti(w) \in Ttis
    BY TtiFacts DEF TypeOK, TxTti
  <2>2. Tail(slot_sync) \in Seq(Nr)
    BY DEF TypeOK, SyncInv
  <2>. QED BY <2>1, <2>2 DEF TypeOK, WorkerPcs
<1>2. ControlInv'
  BY DEF ControlInv, StatusInv, RxInv, StopInv
<1>3. QueueInv'
  BY DEF QueueInv, FifoInv, FrontInv, Entered, HasTurn
<1>4. SyncInv'
  <2>1. slot_sync # <<>> /\ slot_sync[1] = w /\ w \in Nr /\ status[w] # "START_WORK"
    BY DEF SyncInv, ControlInv, StatusInv
  <2>2. /\ Distinct(slot_sync')
        /\ \A v \in Workers : InQueue(slot_sync', v) <=> InQueue(slot_sync, v) /\ v # w
    BY PopFacts DEF SyncInv, TypeOK
  <2>. QED BY FunFacts, <2>1, <2>2 DEF SyncInv, Unscheduled
<1>5. OrderInv'
  BY DEF OrderInv, After, Pushed, NextPush, Due, Transmitted
<1>6. SampleInv'
  <2>1. BufInv'
    BY FunFacts, ZenonT(60) DEF SampleInv, BufInv, TxTti
  <2>2. w \notin tx_buffer
    BY DEF SampleInv, TxBufferInv
  <2>3. TxBufferInv'
    BY DEF SampleInv, TxBufferInv, Due, Transmitted
  <2>. QED BY <2>1, <2>3 DEF SampleInv, TxCoherent
<1>. QED BY <1>1, <1>2, <1>3, <1>4, <1>5, <1>6

\* A step of a worker that has its turn, or gets it, leaves the FIFO as it is.
LEMMA QueueUnchanged ==
  ASSUME QueueInv, fifo' = fifo,
         \A v \in Workers : Entered(v)' <=> Entered(v),
         \A v \in Workers : HasTurn(v)' => /\ fifo # <<>> /\ fifo[1] = v
                                           /\ wpc'[v] \in {"tx", "last"} => ctx'[v].last
  PROVE  QueueInv'
<1>1. FifoInv'
  BY Zenon DEF QueueInv, FifoInv, Distinct, InQueue
<1>2. FrontInv'
  BY DEF FrontInv
<1>. QED BY <1>1, <1>2 DEF QueueInv

\* A worker let through by the FIFO keeps the invariant.
LEMMA SemaphoreWaitStep ==
  ASSUME IInv, NEW w \in Workers, SemaphoreWait(w)
  PROVE  IInv'
<1>. USE DEF IInv, SemaphoreWait, MayPass, Goto
<1>1. TypeOK'
  BY DEF TypeOK, WorkerPcs
<1>2. ControlInv'
  BY DEF ControlInv, StatusInv, RxInv, StopInv
<1>3. QueueInv'
  <2>1. InQueue(fifo, w)
    BY FunFacts DEF QueueInv, FifoInv, Entered, ControlInv, StatusInv, TypeOK,
       Statuses
  <2>2. fifo # <<>> /\ fifo[1] = w
    BY <2>1, FrontFacts DEF TypeOK
  <2>3. fifo' = fifo /\ \A v \in Workers : Entered(v)' <=> Entered(v)
    BY FunFacts DEF Entered
  <2>4. \A v \in Workers : HasTurn(v)' => /\ fifo # <<>> /\ fifo[1] = v
                                          /\ wpc'[v] \in {"tx", "last"} => ctx'[v].last
    BY <2>2, FunFacts DEF QueueInv, FrontInv, HasTurn
  <2>. QED BY <2>3, <2>4, QueueUnchanged, Zenon
<1>4. SyncInv'
  BY DEF SyncInv, Unscheduled
<1>5. OrderInv'
  BY DEF OrderInv, After, Pushed, NextPush, Due, Transmitted
<1>6. SampleInv'
  BY DEF SampleInv, BufInv, TxBufferInv, TxCoherent, TxTti, Due, Transmitted
<1>. QED BY <1>1, <1>2, <1>3, <1>4, <1>5, <1>6

\* Adding a worker's samples to tx_buffer keeps the invariant.
LEMMA CombineStep ==
  ASSUME IInv, NEW w \in Workers, Combine(w)
  PROVE  IInv'
<1>. USE DEF IInv, Combine, Goto
<1>1. TypeOK'
  <2>1. tx_buffer' \in SUBSET Workers /\ tx_hold' \in BOOLEAN
    BY Zenon DEF TypeOK
  <2>. QED BY Zenon DEF TypeOK, WorkerPcs
<1>2. ControlInv'
  BY DEF ControlInv, StatusInv, RxInv, StopInv
<1>3. QueueInv'
  <2>1. fifo' = fifo /\ \A v \in Workers : Entered(v)' <=> Entered(v)
    BY FunFacts DEF Entered
  <2>2. \A v \in Workers : HasTurn(v)' => /\ fifo # <<>> /\ fifo[1] = v
                                          /\ wpc'[v] \in {"tx", "last"} => ctx'[v].last
    BY FunFacts DEF QueueInv, FrontInv, HasTurn
  <2>. QED BY <2>1, <2>2, QueueUnchanged, Zenon
<1>4. SyncInv'
  BY DEF SyncInv, Unscheduled
<1>5. OrderInv'
  BY DEF OrderInv, After, Pushed, NextPush, Due, Transmitted
<1>6. SampleInv'
  <2>1. fifo # <<>> /\ fifo[1] = w /\ ~Transmitted(w)
    BY FunFacts DEF QueueInv, FrontInv, HasTurn, Transmitted
  <2>2. Due(ctx[w].tti)
    BY <2>1, Zenon DEF OrderInv
  <2>3. /\ ctx' = ctx /\ tx_enable' = tx_enable /\ buf' = buf /\ sent' = sent /\ on_air' = on_air
        /\ wpc' = [wpc EXCEPT ![w] = IF ctx[w].last THEN "tx" ELSE "release"]
    OBVIOUS
  <2>4. BufInv' /\ TxCoherent'
    BY <2>3, FunFacts DEF SampleInv, BufInv, TxCoherent, TxTti
  <2>5. ASSUME NEW v \in tx_buffer'
        PROVE  /\ tx_enable'[v] /\ Due(ctx[v].tti)'
               /\ \/ wpc'[v] = "tx"
                  \/ wpc'[v] \in {"release", "hold"} /\ ~ctx'[v].last /\ tx_hold'
    <3>1. CASE v = w
      BY <2>2, <2>3, <2>5, <3>1, FunFacts DEF Due, SampleInv, TxBufferInv
    <3>2. CASE v # w
      BY <2>3, <2>5, <3>2, FunFacts DEF Due, SampleInv, TxBufferInv
    <3>. QED BY <3>1, <3>2
  <2>6. \A v \in Workers : ~Transmitted(v)'
    BY <2>1, <2>3, FunFacts DEF Transmitted, QueueInv, FrontInv, HasTurn
  <2>. QED BY <2>4, <2>5, <2>6 DEF SampleInv, TxBufferInv
<1>. QED BY <1>1, <1>2, <1>3, <1>4, <1>5, <1>6

\* Handing tx_buffer to the radio keeps the invariant.
LEMMA TransmitStep ==
  ASSUME IInv, NEW w \in Workers, Transmit(w)
  PROVE  IInv'
<1>0. /\ wpc[w] = "tx" /\ wpc' = [wpc EXCEPT ![w] = "last"]
      /\ sent' = TTI_ADD(ctx[w].tti, Delay) /\ tx_buffer' = {}
      /\ UNCHANGED <<rxVars, poolVars, ctx, tx_enable, buf, fifo, slot_sync, tx_hold, stop>>
  BY DEF Transmit, Goto, TxTti
<1>. USE DEF IInv
<1>1. TypeOK'
  <2>1. sent' \in Ttis
    BY <1>0, TtiFacts DEF TypeOK
  <2>2. on_air' \in SUBSET Ttis
    BY DEF TypeOK, Transmit
  <2>. QED BY <1>0, <2>1, <2>2 DEF TypeOK, WorkerPcs
<1>2. ControlInv'
  BY <1>0 DEF ControlInv, StatusInv, RxInv, StopInv, TypeOK
<1>3. QueueInv'
  BY <1>0 DEF QueueInv, FifoInv, FrontInv, Entered, HasTurn, TypeOK
<1>4. SyncInv'
  BY <1>0 DEF SyncInv, Unscheduled, TypeOK
<1>5. OrderInv'
  <2>1. fifo # <<>> /\ fifo[1] = w /\ ctx[w].last /\ ~Transmitted(w)
    BY <1>0 DEF Transmitted, QueueInv, FrontInv, HasTurn
  <2>2. ctx[w].tti \in Ttis /\ Transmitted(w)'
    BY <1>0, <2>1 DEF TypeOK, Transmitted
  <2>3. Due(After(w))'
    BY <1>0, <2>1, <2>2, AddCommutes DEF After, Due
  <2>4. OrderInv /\ fifo' = fifo /\ ctx' = ctx /\ NextPush' = NextPush
    BY <1>0 DEF Pushed, NextPush
  <2>. HIDE DEF IInv
  <2>. QED BY <2>1, <2>2, <2>3, <2>4 DEF OrderInv, After
<1>6. SampleInv'
  <2>1. fifo # <<>> /\ fifo[1] = w /\ ~Transmitted(w) /\ Due(ctx[w].tti)
    BY <1>0 DEF QueueInv, FrontInv, HasTurn, OrderInv, Transmitted
  <2>2. \A v \in tx_buffer : v \in Workers /\ buf[v] = TxTti(v) /\ Due(ctx[v].tti)
    BY DEF TypeOK, SampleInv, BufInv, TxBufferInv
  <2>3. TxCoherent'
    BY <2>1, <2>2 DEF Transmit, TxCoherent, TxTti, Due
  <2>4. BufInv'
    BY <1>0 DEF SampleInv, BufInv, TxTti, TypeOK
  <2>5. TxBufferInv'
    BY <1>0 DEF TxBufferInv
  <2>. QED BY <2>3, <2>4, <2>5 DEF SampleInv
<1>. QED BY <1>1, <1>2, <1>3, <1>4, <1>5, <1>6

\* Waking the workers that hold their samples keeps the invariant.
LEMMA LastWorkerStep ==
  ASSUME IInv, NEW w \in Workers, LastWorker(w)
  PROVE  IInv'
<1>. USE DEF IInv, LastWorker, Goto
<1>1. TypeOK'
  BY WorkerSets, TtiFacts, ZenonT(60) DEF TypeOK, RxPcs, Statuses, WorkerPcs, StopPcs, NoContext
<1>2. ControlInv'
  BY DEF ControlInv, StatusInv, RxInv, StopInv
<1>3. QueueInv'
  <2>1. fifo' = fifo /\ \A v \in Workers : Entered(v)' <=> Entered(v)
    BY FunFacts DEF Entered
  <2>2. \A v \in Workers : HasTurn(v)' => /\ fifo # <<>> /\ fifo[1] = v
                                          /\ wpc'[v] \in {"tx", "last"} => ctx'[v].last
    BY FunFacts DEF QueueInv, FrontInv, HasTurn
  <2>. QED BY <2>1, <2>2, QueueUnchanged, Zenon
<1>4. SyncInv'
  BY DEF SyncInv, Unscheduled
<1>5. OrderInv'
  BY DEF OrderInv, After, Pushed, NextPush, Due, Transmitted
<1>6. SampleInv'
  BY DEF SampleInv, BufInv, TxBufferInv, TxCoherent, TxTti, Transmitted, QueueInv,
     FrontInv, HasTurn
<1>. QED BY <1>1, <1>2, <1>3, <1>4, <1>5, <1>6

\* Releasing the FIFO to the next worker keeps the invariant.
LEMMA ReleaseStep ==
  ASSUME IInv, NEW w \in Workers, Release(w)
  PROVE  IInv'
<1>. USE DEF IInv, Release, Goto
<1>1. TypeOK'
  <2>1. Tail(fifo) \in Seq(Workers)
    BY DEF TypeOK, QueueInv, FifoInv, FrontInv, HasTurn
  <2>. QED BY <2>1 DEF TypeOK, WorkerPcs
<1>2. ControlInv'
  BY DEF ControlInv, StatusInv, RxInv, StopInv
<1>3. QueueInv'
  <2>1. fifo # <<>> /\ fifo[1] = w /\ status[w] = "WORKING"
    BY FunFacts, ZenonT(60) DEF QueueInv, FifoInv, FrontInv, Entered, HasTurn, ControlInv,
       StatusInv, TypeOK, Statuses
  <2>2. /\ Distinct(fifo')
        /\ \A v \in Workers : InQueue(fifo', v) <=> InQueue(fifo, v) /\ v # w
    BY <2>1, PopFacts DEF QueueInv, FifoInv, TypeOK
  <2>3. \A v \in Workers : Entered(v)' <=> Entered(v) /\ v # w
    BY FunFacts, <2>1 DEF Entered
  <2>4. FrontInv'
    BY FunFacts DEF QueueInv, FrontInv, HasTurn
  <2>. QED BY <2>2, <2>3, <2>4, ZenonT(60) DEF QueueInv, FifoInv
<1>4. SyncInv'
  BY DEF SyncInv, Unscheduled
<1>5. OrderInv'
  BY FunFacts, ReleaseOrder, ZenonT(60) DEF OrderInv, After, Pushed, NextPush, Due, Transmitted
<1>6. SampleInv'
  BY DEF SampleInv, BufInv, TxBufferInv, TxCoherent, TxTti, Due, Transmitted
<1>. QED BY <1>1, <1>2, <1>3, <1>4, <1>5, <1>6

\* A worker whose samples have been sent, and stops holding, keeps the invariant.
LEMMA WaitLastWorkerStep ==
  ASSUME IInv, NEW w \in Workers, WaitLastWorker(w)
  PROVE  IInv'
<1>. USE DEF IInv, WaitLastWorker, Goto
<1>1. TypeOK'
  BY DEF TypeOK, WorkerPcs
<1>2. ControlInv'
  <2>1. StatusInv'
    BY DEF ControlInv, StatusInv, TypeOK
  <2>2. RxInv'
    BY DEF ControlInv, RxInv
  <2>3. StopInv'
    BY DEF ControlInv, StopInv
  <2>. QED BY <2>1, <2>2, <2>3 DEF ControlInv
<1>3. QueueInv'
  BY DEF QueueInv, FifoInv, FrontInv, Entered, HasTurn
<1>4. SyncInv'
  BY DEF SyncInv, Unscheduled
<1>5. OrderInv'
  BY DEF OrderInv, After, Pushed, NextPush, Due, Transmitted
<1>6. SampleInv'
  BY DEF SampleInv, BufInv, TxBufferInv, TxCoherent, TxTti, Due, Transmitted
<1>. QED BY <1>1, <1>2, <1>3, <1>4, <1>5, <1>6

\* A worker that becomes idle again keeps the invariant.
LEMMA FinishedStep ==
  ASSUME IInv, NEW w \in Workers, Finished(w)
  PROVE  IInv'
<1>. USE DEF IInv, Finished, Goto
<1>1. TypeOK'
  BY TtiFacts DEF TypeOK, Statuses, WorkerPcs, NoContext
<1>2. ControlInv'
  BY FunFacts DEF ControlInv, StatusInv, RxInv, StopInv
<1>3. QueueInv'
  BY FunFacts DEF QueueInv, FifoInv, FrontInv, Entered, HasTurn, ControlInv, StatusInv
<1>4. SyncInv'
  BY DEF SyncInv, Unscheduled, ControlInv, StatusInv
<1>5. OrderInv'
  <2>1. ~InQueue(fifo, w)
    BY DEF ControlInv, StatusInv, QueueInv, FifoInv, Entered
  <2>2. \A v \in Workers : v # w => ctx'[v] = ctx[v] /\ wpc'[v] = wpc[v]
    BY FunFacts
  <2>. QED BY <2>1, OrderUnchanged DEF Transmitted
<1>6. SampleInv'
  BY DEF SampleInv, BufInv, TxBufferInv, TxCoherent, TxTti, Due, Transmitted
<1>. QED BY <1>1, <1>2, <1>3, <1>4, <1>5, <1>6

-----------------------------------------------------------------------------
(* phy::stop *)

\* Telling the TXRX thread to stop keeps the invariant.
LEMMA StopTxrxStep ==
  ASSUME IInv, StopTxrx
  PROVE  IInv'
<1>. USE DEF IInv, StopTxrx, StopStep
<1>1. TypeOK'
  BY WorkerSets, TtiFacts, Zenon DEF TypeOK, RxPcs, Statuses, WorkerPcs, StopPcs, NoContext
<1>2. ControlInv'
  BY DEF ControlInv, StatusInv, RxInv, StopInv, LteTaken
<1>3. QueueInv'
  BY Zenon DEF QueueInv, FifoInv, FrontInv, Entered, HasTurn
<1>4. SyncInv'
  BY Zenon DEF SyncInv, Unscheduled
<1>5. OrderInv'
  BY DEF OrderInv, After, Pushed, NextPush, Due, Transmitted
<1>6. SampleInv'
  BY DEF SampleInv, BufInv, TxBufferInv, TxCoherent, TxTti, Due, Transmitted
<1>. QED BY <1>1, <1>2, <1>3, <1>4, <1>5, <1>6

\* Joining the TXRX thread keeps the invariant.
LEMMA JoinTxrxStep ==
  ASSUME IInv, JoinTxrx
  PROVE  IInv'
<1>. USE DEF IInv, JoinTxrx, StopStep
<1>1. TypeOK'
  BY DEF TypeOK, StopPcs
<1>2. ControlInv'
  BY DEF ControlInv, StatusInv, RxInv, StopInv
<1>3. QueueInv'
  BY Zenon DEF QueueInv, FifoInv, FrontInv, Entered, HasTurn
<1>4. SyncInv'
  BY Zenon DEF SyncInv, Unscheduled
<1>5. OrderInv'
  BY DEF OrderInv, After, Pushed, NextPush, Due, Transmitted
<1>6. SampleInv'
  BY DEF SampleInv, BufInv, TxBufferInv, TxCoherent, TxTti, Due, Transmitted
<1>. QED BY <1>1, <1>2, <1>3, <1>4, <1>5, <1>6

\* phy_common::stop, which waits for the FIFO to drain, keeps the invariant.
LEMMA WaitAllStep ==
  ASSUME IInv, WaitAll
  PROVE  IInv'
<1>. USE DEF IInv, WaitAll, StopStep
<1>1. TypeOK'
  BY DEF TypeOK, StopPcs
<1>2. ControlInv'
  BY DEF ControlInv, StatusInv, RxInv, StopInv
<1>3. QueueInv'
  BY Zenon DEF QueueInv, FifoInv, FrontInv, Entered, HasTurn
<1>4. SyncInv'
  BY Zenon DEF SyncInv, Unscheduled
<1>5. OrderInv'
  BY DEF OrderInv, Pushed, NextPush, Due
<1>6. SampleInv'
  BY DEF SampleInv, BufInv, TxBufferInv, TxCoherent, TxTti, Due, Transmitted
<1>. QED BY <1>1, <1>2, <1>3, <1>4, <1>5, <1>6

\* Stopping the LTE pool keeps the invariant.
LEMMA StopLteStep ==
  ASSUME IInv, StopPool("stop_lte", "join_lte", "lte")
  PROVE  IInv'
<1>. USE DEF IInv, StopPool, StopStep, Pool
<1>1. TypeOK'
  BY WorkerSets, TtiFacts, ZenonT(60) DEF TypeOK, RxPcs, Statuses, WorkerPcs, StopPcs, NoContext
<1>2. ControlInv'
  <2>1. /\ rx = "done" /\ fifo = <<>>
        /\ \A w \in Workers : /\ status[w] \in {"IDLE", "STOP", "WORKING"}
                              /\ status[w] = "WORKING" => wpc[w] \in {"hold", "finish"}
    BY Drained
  <2>2. \A w \in Workers : status'[w] \in {"STOP", status[w]}
    BY FunFacts
  <2>3. StatusInv'
    BY <2>1 DEF ControlInv, StatusInv
  <2>4. RxInv'
    BY <2>1 DEF RxInv, LteTaken, NrTaken
  <2>5. StopInv'
    BY <2>1 DEF StopInv
  <2>. QED BY <2>3, <2>4, <2>5 DEF ControlInv
<1>3. QueueInv'
  <2>1. \A w \in Workers : /\ ~InQueue(fifo, w)
                           /\ status[w] \in {"IDLE", "STOP", "WORKING"}
                           /\ status[w] = "WORKING" => wpc[w] \in {"hold", "finish"}
    BY Drained
  <2>2. \A w \in Workers : status'[w] \in {"STOP", status[w]}
    BY FunFacts
  <2>. QED BY <2>1 DEF QueueInv, FifoInv, FrontInv, Entered, HasTurn
<1>4. SyncInv'
  BY FunFacts DEF SyncInv, Unscheduled
<1>5. OrderInv'
  BY DEF OrderInv, After, Pushed, NextPush, Due, Transmitted
<1>6. SampleInv'
  BY DEF SampleInv, BufInv, TxBufferInv, TxCoherent, TxTti, Due, Transmitted
<1>. QED BY <1>1, <1>2, <1>3, <1>4, <1>5, <1>6

\* Joining the LTE pool's workers keeps the invariant.
LEMMA JoinLteStep ==
  ASSUME IInv, JoinPool("join_lte", "stop_nr", "lte")
  PROVE  IInv'
<1>. USE DEF IInv, JoinPool, StopStep
<1>1. TypeOK'
  BY DEF TypeOK, StopPcs
<1>2. ControlInv'
  BY DEF ControlInv, StatusInv, RxInv, StopInv, NrTaken
<1>3. QueueInv'
  BY Zenon DEF QueueInv, FifoInv, FrontInv, Entered, HasTurn
<1>4. SyncInv'
  BY Zenon DEF SyncInv, Unscheduled
<1>5. OrderInv'
  BY DEF OrderInv, After, Pushed, NextPush, Due, Transmitted
<1>6. SampleInv'
  BY DEF SampleInv, BufInv, TxBufferInv, TxCoherent, TxTti, Due, Transmitted
<1>. QED BY <1>1, <1>2, <1>3, <1>4, <1>5, <1>6

\* Stopping the NR pool keeps the invariant.
LEMMA StopNrStep ==
  ASSUME IInv, StopPool("stop_nr", "join_nr", "nr")
  PROVE  IInv'
<1>. USE DEF IInv, StopPool, StopStep, Pool
<1>1. TypeOK'
  BY WorkerSets, TtiFacts, ZenonT(60) DEF TypeOK, RxPcs, Statuses, WorkerPcs, StopPcs, NoContext
<1>2. ControlInv'
  <2>1. /\ rx = "done" /\ fifo = <<>>
        /\ \A w \in Workers : /\ status[w] \in {"IDLE", "STOP", "WORKING"}
                              /\ status[w] = "WORKING" => wpc[w] \in {"hold", "finish"}
    BY Drained
  <2>2. \A w \in Workers : status'[w] \in {"STOP", status[w]}
    BY FunFacts
  <2>3. StatusInv'
    BY <2>1 DEF ControlInv, StatusInv
  <2>4. RxInv'
    BY <2>1 DEF RxInv, LteTaken, NrTaken
  <2>5. StopInv'
    BY <2>1 DEF StopInv
  <2>. QED BY <2>3, <2>4, <2>5 DEF ControlInv
<1>3. QueueInv'
  <2>1. \A w \in Workers : /\ ~InQueue(fifo, w)
                           /\ status[w] \in {"IDLE", "STOP", "WORKING"}
                           /\ status[w] = "WORKING" => wpc[w] \in {"hold", "finish"}
    BY Drained
  <2>2. \A w \in Workers : status'[w] \in {"STOP", status[w]}
    BY FunFacts
  <2>. QED BY <2>1 DEF QueueInv, FifoInv, FrontInv, Entered, HasTurn
<1>4. SyncInv'
  <2>1. \A w \in Workers : /\ status[w] \in {"IDLE", "STOP", "WORKING"}
                           /\ status[w] = "WORKING" => wpc[w] \in {"hold", "finish"}
    BY Drained
  <2>2. \A w \in Workers : status'[w] \in {"STOP", status[w]}
    BY FunFacts
  <2>. QED BY <2>1 DEF SyncInv, Unscheduled
<1>5. OrderInv'
  BY DEF OrderInv, After, Pushed, NextPush, Due, Transmitted
<1>6. SampleInv'
  BY DEF SampleInv, BufInv, TxBufferInv, TxCoherent, TxTti, Due, Transmitted
<1>. QED BY <1>1, <1>2, <1>3, <1>4, <1>5, <1>6

\* Joining the NR pool's workers keeps the invariant.
LEMMA JoinNrStep ==
  ASSUME IInv, JoinPool("join_nr", "stopped", "nr")
  PROVE  IInv'
<1>. USE DEF IInv, JoinPool, StopStep
<1>1. TypeOK'
  BY DEF TypeOK, StopPcs
<1>2. ControlInv'
  BY DEF ControlInv, StatusInv, RxInv, StopInv
<1>3. QueueInv'
  BY Zenon DEF QueueInv, FifoInv, FrontInv, Entered, HasTurn
<1>4. SyncInv'
  BY Zenon DEF SyncInv, Unscheduled
<1>5. OrderInv'
  BY DEF OrderInv, After, Pushed, NextPush, Due, Transmitted
<1>6. SampleInv'
  BY DEF SampleInv, BufInv, TxBufferInv, TxCoherent, TxTti, Due, Transmitted
<1>. QED BY <1>1, <1>2, <1>3, <1>4, <1>5, <1>6

\* A step that changes nothing keeps the invariant.
LEMMA StutterStep ==
  ASSUME IInv, UNCHANGED vars
  PROVE  IInv'
<1>. USE DEF IInv, vars
<1>1. TypeOK'
  BY DEF TypeOK
<1>2. ControlInv'
  BY DEF ControlInv, StatusInv, RxInv, StopInv
<1>3. QueueInv'
  BY Zenon DEF QueueInv, FifoInv, FrontInv, Entered, HasTurn
<1>4. SyncInv'
  BY Zenon DEF SyncInv, Unscheduled
<1>5. OrderInv'
  BY DEF OrderInv, After, Pushed, NextPush, Due, Transmitted
<1>6. SampleInv'
  BY DEF SampleInv, BufInv, TxBufferInv, TxCoherent, TxTti, Due, Transmitted
<1>. QED BY <1>1, <1>2, <1>3, <1>4, <1>5, <1>6

\* The invariant holds when phy::init has started the threads.
LEMMA InitIInv == Init => IInv
<1>. SUFFICES ASSUME Init
             PROVE  IInv
  OBVIOUS
<1>. USE WorkerSets, TtiFacts DEF Init
<1>1. TypeOK
  <2>1. TTI_SUB(0, Delay + 1) \in Ttis /\ TTI_SUB(0, 1) \in Ttis
    BY SubType, TtiAssumption
  <2>2. ctx \in [Workers -> [tti : Ttis, last : BOOLEAN]] /\ buf \in [Workers -> Ttis]
    BY DEF NoContext
  <2>3. status \in [Workers -> Statuses] /\ wpc \in [Workers -> WorkerPcs]
    BY DEF Statuses, WorkerPcs
  <2>4. fifo \in Seq(Workers) /\ slot_sync \in Seq(Nr)
    OBVIOUS
  <2>5. pool_running \in [Pools -> BOOLEAN] /\ tx_enable \in [Workers -> BOOLEAN]
    OBVIOUS
  <2>. QED BY <2>1, <2>2, <2>3, <2>4, <2>5, Zenon DEF TypeOK, RxPcs, StopPcs
<1>2. ControlInv
  BY DEF ControlInv, StatusInv, RxInv, StopInv, LteTaken, NrTaken
<1>3. QueueInv /\ SyncInv
  BY DEF QueueInv, FifoInv, FrontInv, SyncInv, Distinct, InQueue, Entered, HasTurn,
     Unscheduled
<1>4. OrderInv
  <2>1. TTI_ADD(TTI_SUB(0, Delay + 1), 1) = TTI_SUB(0, Delay)
    <3>1. TTI_SUB(0, Delay + 1) = TtiMod - (Delay + 1)
      BY SubType, TtiAssumption
    <3>2. TTI_ADD(TTI_SUB(0, Delay + 1), 1) = (TtiMod - Delay) % TtiMod
      BY <3>1, TtiAssumption DEF TTI_ADD
    <3>. QED BY <3>2, TtiAssumption DEF TTI_SUB
  <2>2. TTI_ADD(TTI_SUB(0, Delay), Delay) = 0
    <3>1. CASE Delay = 0
      BY TtiAssumption DEF TTI_ADD, TTI_SUB
    <3>2. CASE Delay > 0
      BY <3>2, SubType, TtiAssumption DEF TTI_ADD
    <3>. QED BY <3>1, <3>2
  <2>3. TTI_ADD(TTI_SUB(0, 1), 1) = 0
    BY SubType, TtiAssumption DEF TTI_ADD
  <2>. QED BY <2>1, <2>2, <2>3 DEF OrderInv, Due, NextPush, Pushed
<1>5. SampleInv
  BY DEF SampleInv, BufInv, TxBufferInv, TxCoherent
<1>. QED BY <1>1, <1>2, <1>3, <1>4, <1>5 DEF IInv

\* Every step keeps the invariant.
LEMMA NextStep == IInv /\ [Next]_vars => IInv'
  BY RxLoopStep, RxWaitLteStep, RxWaitNrStep, RxPushNrStep, RxStartNrStep,
     RxPushLteStep, RxStartLteStep, WaitToStartStep, WorkLteStep, WorkUlNrStep,
     SyncWaitStep, WorkDlNrStep, SemaphoreWaitStep, CombineStep, TransmitStep,
     LastWorkerStep, ReleaseStep, WaitLastWorkerStep, FinishedStep, StopTxrxStep,
     JoinTxrxStep, WaitAllStep, StopLteStep, JoinLteStep, StopNrStep, JoinNrStep,
     StutterStep DEF Next, Txrx, Worker, PhyStop, Terminated

\* The invariant is inductive.
THEOREM Inductive == Spec => []IInv
  BY InitIInv, NextStep, PTL DEF Spec

----------------------------------------------------------------------------
(* The properties *)

\* Every variable keeps its type, whatever the pools' sizes.
THEOREM TypeCorrect == Spec => []TypeOK
<1>1. IInv => TypeOK
  BY DEF IInv
<1>. QED BY Inductive, <1>1, PTL

\* worker_end gives the radio one subframe per TTI, in TTI order.
THEOREM TransmitsInOrder == Spec => TxInOrder
<1>1. ASSUME IInv, NEW w \in Workers, Transmit(w)
      PROVE  sent' = TTI_ADD(sent, 1)
  BY <1>1 DEF IInv, QueueInv, FrontInv, HasTurn, OrderInv, Transmitted, Due, Transmit,
     TxTti
<1>2. IInv /\ [Next]_vars => [\A w \in Workers : Transmit(w) => sent' = TTI_ADD(sent, 1)]_vars
  BY <1>1
<1>. QED BY Inductive, <1>2, PTL DEF Spec, TxInOrder

\* The samples radio->tx is given for a TTI were made for that TTI: no buffer
\* that tx_buffer points to is overwritten before it has been sent.
THEOREM TransmitsCoherently == Spec => []TxCoherent
<1>1. IInv => TxCoherent
  BY DEF IInv, SampleInv
<1>. QED BY Inductive, <1>1, PTL

\* phy::stop stops no pool before everything taken has been transmitted.
THEOREM StopsDrained == Spec => []NothingLeftAtStop
<1>1. ASSUME IInv, stop \in {"stop_lte", "join_lte", "stop_nr", "join_nr", "stopped"}
      PROVE  fifo = <<>> /\ sent = TTI_ADD(tti, Delay)
  <2>1. rx = "done" /\ fifo = <<>>
    BY <1>1 DEF IInv, ControlInv, StopInv
  <2>2. TTI_ADD(TTI_ADD(tti, 1), Delay) = TTI_ADD(sent, 1)
    BY <1>1, <2>1 DEF IInv, OrderInv, Due, NextPush, Pushed
  <2>3. tti \in Ttis /\ sent \in Ttis
    BY <1>1 DEF IInv, TypeOK
  <2>4. TTI_ADD(TTI_ADD(tti, Delay), 1) = TTI_ADD(sent, 1)
    BY <2>2, <2>3, AddCommutes
  <2>. QED BY <2>1, <2>3, <2>4, TtiFacts, SuccInjective
<1>2. IInv => NothingLeftAtStop
  BY <1>1 DEF NothingLeftAtStop
<1>. QED BY Inductive, <1>2, PTL
=============================================================================
