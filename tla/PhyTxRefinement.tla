-------------------------- MODULE PhyTxRefinement ---------------------------
(***************************************************************************)
(* What counting the workers gives.  No more TTIs are taken than the pool  *)
(* has workers, plus the one that waits, so that the threaded pipeline     *)
(* takes and transmits TTIs as the single-threaded transmitter of          *)
(* TtiTransmitter does; and the NR scheduler is called for one slot after  *)
(* the other.  Both hold for any number of workers, as long as the TTIs,   *)
(* or slots, in hand can be told apart by their number modulo TtiMod.      *)
(***************************************************************************)
EXTENDS PhyTxBacklog, FiniteSetTheorems

\* Z3 and then Zenon get half a minute for a leaf.
USE SMTT(30), ZenonT(30) DEF rxVars, poolVars, workVars, txVars

----------------------------------------------------------------------------
(* Taking a TTI *)

\* Each TTI that has its last worker occupies a worker of the last pool.
LEMMA MannedBound ==
  ASSUME IInv, BacklogInv
  PROVE  Manned \in Int /\ Manned <= Capacity - 1 /\ Capacity \in Nat
<1>1. Manned \in Int
  BY AheadFacts DEF Manned
<1>2. Capacity \in Nat /\ IsFiniteSet(LastPool) /\ Cardinality(LastPool) = Capacity - 1
  <2>1. CASE NofLte > 0
    <3>1. IsFiniteSet(1..NofLte) /\ Cardinality(1..NofLte) = NofLte
      BY <2>1, FS_Interval, PoolAssumption
    <3>. QED BY <2>1, <3>1, PoolAssumption DEF LastPool, Lte, Capacity
  <2>2. CASE NofLte = 0
    <3>1. IsFiniteSet(1..NofNr) /\ Cardinality(1..NofNr) = NofNr
      BY <2>2, FS_Interval, PoolAssumption
    <3>2. Nr = 1..NofNr
      BY <2>2, PoolAssumption DEF Nr
    <3>. QED BY <2>2, <3>1, <3>2, PoolAssumption DEF LastPool, Capacity
  <2>. QED BY <2>1, <2>2, PoolAssumption
<1>. DEFINE last(k) == CHOOSE w \in LastPool :
                         Pending(w) /\ ctx[w].last /\ Ahead(ctx[w].tti) = k
            f == [k \in 1..Manned |-> last(k)]
<1>3. \A k \in 1..Manned : last(k) \in LastPool /\ Ahead(ctx[last(k)].tti) = k
  BY DEF BacklogInv
<1>4. f \in [1..Manned -> LastPool] /\ \A k \in 1..Manned : Ahead(ctx[f[k]].tti) = k
  BY <1>3, Zenon
<1>5. \A j, k \in 1..Manned : f[j] = f[k] => j = k
  BY <1>4
<1>6. f \in Injection(1..Manned, LastPool)
  BY <1>4, <1>5, Zenon DEF Injection, IsInjective
<1>7. Cardinality(1..Manned) <= Cardinality(LastPool)
  BY <1>2, <1>6, FS_Injection
<1>8. Cardinality(1..Manned) = IF 1 > Manned THEN 0 ELSE Manned
  BY <1>1, FS_Interval
<1>. QED BY <1>1, <1>2, <1>7, <1>8

\* The TXRX thread takes a TTI only when its pool can have room for it.
LEMMA RxLoopTakes ==
  ASSUME TtisSuffice, IInv, BacklogInv, RxLoop
  PROVE  /\ BacklogInv'
         /\ tti' = tti \/ (tti' = TTI_ADD(tti, 1) /\ Ahead(tti) < Capacity)
<1>1. /\ rx = "head" /\ Pushed /\ UNCHANGED <<fifo, sent, ctx, wpc, status>>
      /\ rx' \in {"lte", "nr", "done"}
      /\ \A w \in Workers : /\ Entered(w)' <=> Entered(w)
                            /\ Transmitted(w)' <=> Transmitted(w)
  BY DEF RxLoop, Pushed, Entered, Transmitted
<1>2. CASE ~running
  <2>1. tti' = tti /\ Pushed'
    BY <1>2 DEF RxLoop, Pushed
  <2>. QED BY <1>1, <2>1, Quiet
<1>3. CASE running
  <2>1. tti' = TTI_ADD(tti, 1) /\ ~Pushed'
    BY <1>3 DEF RxLoop, Pushed
  <2>2. Manned = Ahead(tti) /\ Ahead(tti) < Capacity /\ Ahead(tti) < TtiMod - 1
    BY <1>1, MannedBound, AheadFacts DEF Manned, TtisSuffice
  <2>3. Ahead(tti)' = Ahead(tti) + 1 /\ Ahead(tti) \in Nat
    BY <1>1, <2>1, <2>2, AheadFacts, DistanceFacts DEF Ahead
  <2>4. Manned' = Manned
    BY <2>1, <2>2, <2>3 DEF Manned
  <2>5. /\ \A w \in Workers : Pending(w)' <=> Pending(w)
        /\ \A w : Ahead(ctx[w].tti)' = Ahead(ctx[w].tti)
    BY <1>1 DEF Pending, Ahead
  <2>6. \A w \in Workers : Pending(w)' => Ahead(ctx[w].tti)' \in 1..Ahead(tti)'
    BY <2>3, <2>5 DEF BacklogInv
  <2>7. \A k \in 1..Manned' :
          \E w \in LastPool : Pending(w)' /\ ctx'[w].last /\ Ahead(ctx[w].tti)' = k
    <3>1. LastPool \subseteq Workers
      BY WorkerSets DEF LastPool
    <3>. QED BY <1>1, <2>4, <2>5, <3>1 DEF BacklogInv
  <2>8. \A w \in Workers : Pending(w)' => ctx'[w].tti # tti'
    <3>1. SUFFICES ASSUME NEW w \in Workers, Pending(w), ctx[w].tti = tti'
                   PROVE  FALSE
      BY <1>1, <2>5
    <3>2. Ahead(ctx[w].tti) = Ahead(tti)'
      BY <1>1, <3>1 DEF Ahead
    <3>. QED BY <2>3, <3>1, <3>2 DEF BacklogInv
  <2>9. \A i, j \in 1..Len(fifo') :
          i < j /\ ctx'[fifo'[i]].last /\ ~Transmitted(fifo[i])' =>
            ctx'[fifo'[i]].tti # ctx'[fifo'[j]].tti
    BY <1>1 DEF BacklogInv, Transmitted
  <2>. QED BY <2>1, <2>2, <2>3, <2>6, <2>7, <2>8, <2>9 DEF BacklogInv
<1>. QED BY <1>2, <1>3

----------------------------------------------------------------------------
(* The refinement *)

\* Nothing is in hand before the first TTI.
LEMMA InitBacklog ==
  Init => BacklogInv /\ Transmitter!Init
<1>. SUFFICES ASSUME Init
             PROVE  BacklogInv /\ Transmitter!Init
  OBVIOUS
<1>1. tti = TtiMod - (Delay + 1) /\ sent = TtiMod - 1 /\ tti \in Ttis /\ sent \in Ttis
  BY SubType, TtiAssumption DEF Init
<1>2. Ahead(tti) = 0
  BY <1>1, DistanceIs, TtiAssumption DEF Ahead, Gap
<1>3. Manned = 0 /\ Pushed
  BY <1>2 DEF Manned, Pushed, Init
<1>4. \A w \in Workers : ~Pending(w)
  BY DEF Pending, Entered, Init
<1>5. BacklogInv
  BY <1>3, <1>4 DEF BacklogInv, Init
<1>. QED BY <1>1, <1>5 DEF Transmitter!Init

\* A step of the pipeline takes a TTI, transmits one, or does neither.
LEMMA StepRefines ==
  ASSUME TtisSuffice, IInv, BacklogInv, [Next]_vars
  PROVE  BacklogInv' /\ [Transmitter!Next]_(Transmitter!vars)
<1>. USE DEF Transmitter!Next, Transmitter!vars
<1>1. Transmitter!Backlog = Ahead(tti)
  BY DEF Transmitter!Backlog, Ahead, Distance
<1>2. CASE RxLoop
  <2>1. sent' = sent
    BY <1>2 DEF RxLoop
  <2>2. tti' = tti \/ Transmitter!Take
    BY <1>1, <1>2, <2>1, RxLoopTakes DEF Transmitter!Take, TTI_ADD
  <2>. QED BY <1>2, <2>1, <2>2, RxLoopTakes
<1>3. CASE RxWaitLte \/ RxWaitNr \/ RxStartNr \/ RxStartLte
  <2>1. UNCHANGED <<tti, sent>>
    BY <1>3 DEF RxWaitLte, RxWaitNr, RxStartNr, RxStartLte
  <2>2. BacklogInv'
    BY <1>3, TxrxQuiet, Zenon
  <2>. QED BY <2>1, <2>2, Zenon
<1>4. CASE RxPushNr \/ RxPushLte
  <2>1. UNCHANGED <<tti, sent>>
    BY <1>4 DEF RxPushNr, RxPushLte, RxPush
  <2>2. BacklogInv'
    BY <1>4, RxPushNrBacklog, RxPushLteBacklog, Zenon
  <2>. QED BY <2>1, <2>2, Zenon
<1>5. ASSUME NEW w \in Workers, Worker(w)
      PROVE  BacklogInv' /\ [Transmitter!Next]_(Transmitter!vars)
  <2>1. CASE Transmit(w)
    <3>1. tti' = tti
      BY <2>1, Zenon DEF Transmit
    <3>2. Transmitter!Send
      BY <1>1, <2>1, <3>1, TransmitSends DEF Transmitter!Send, TTI_ADD
    <3>. QED BY <2>1, <3>2, TransmitSends
  <2>2. CASE SemaphoreWait(w) \/ Combine(w) \/ LastWorker(w)
    <3>1. UNCHANGED <<tti, sent>>
      BY <2>2, ZenonT(60) DEF SemaphoreWait, Combine, LastWorker
    <3>. QED BY <2>2, <3>1, TurnQuiet
  <2>3. CASE Release(w)
    <3>1. UNCHANGED <<tti, sent>>
      BY <2>3 DEF Release
    <3>. QED BY <2>3, <3>1, ReleaseBacklog
  <2>4. ASSUME NEW ok \in BOOLEAN,
               \/ WaitToStart(w) \/ WorkLte(w, ok) \/ WorkUlNr(w, ok) \/ SyncWait(w)
               \/ WorkDlNr(w, ok) \/ WaitLastWorker(w) \/ Finished(w)
        PROVE  BacklogInv' /\ UNCHANGED <<tti, sent>>
    <3>1. UNCHANGED <<tti, sent>>
      BY <2>4 DEF WaitToStart, WorkLte, WorkUlNr, SyncWait, WorkDlNr, WaitLastWorker, Finished
    <3>2. BacklogInv'
      BY <2>4, WorkQuiet, Zenon
    <3>. QED BY <3>1, <3>2, Zenon
  <2>5. TRUE \in BOOLEAN
    BY Zenon
  <2>. QED BY <1>5, <2>1, <2>2, <2>3, <2>4, <2>5, ZenonT(60) DEF Worker
<1>6. CASE PhyStop
  <2>1. UNCHANGED <<tti, sent>>
    BY <1>6 DEF PhyStop, StopTxrx, JoinTxrx, WaitAll, StopPool, JoinPool
  <2>2. BacklogInv'
    BY <1>6, StopQuiet, Zenon
  <2>. QED BY <2>1, <2>2, Zenon
<1>7. CASE UNCHANGED vars
  <2>1. /\ UNCHANGED <<fifo, sent, tti, ctx>> /\ (Pushed' <=> Pushed)
        /\ \A v \in Workers : /\ Entered(v)' <=> Entered(v)
                              /\ Transmitted(v)' <=> Transmitted(v)
    BY <1>7 DEF vars, Pushed, Entered, Transmitted
  <2>. QED BY <2>1, Quiet
<1>. QED BY <1>2, <1>3, <1>4, <1>5, <1>6, <1>7 DEF Next, Txrx, Terminated

\* The pipeline implements the single-threaded transmitter, its fairness
\* aside: worker_end sends what txrx::run_thread takes, in order, and not
\* more than the pool's workers and one are in hand.
THEOREM Implements == TtisSuffice => (Spec => ImplementsTransmitter)
<1>. SUFFICES ASSUME TtisSuffice
             PROVE  Spec => ImplementsTransmitter
  OBVIOUS
<1>1. Init => IInv /\ BacklogInv /\ Transmitter!Init
  BY InitIInv, InitBacklog
<1>2. IInv /\ BacklogInv /\ [Next]_vars =>
        IInv' /\ BacklogInv' /\ [Transmitter!Next]_(Transmitter!vars)
  BY NextStep, StepRefines
<1>. QED BY <1>1, <1>2, PTL DEF Spec, ImplementsTransmitter, Transmitter!Spec

-----------------------------------------------------------------------------
(* The order of the slots *)

\* The slots in hand have different numbers.
SlotsSuffice == NofNr <= TtiMod

\* The slot that is entered next in slot_sync.
NextSlot == IF rx \in {"head", "done", "push_lte", "start_lte"} THEN TTI_ADD(tti, 1) ELSE tti

\* The slots in slot_sync are consecutive and lead up to the next one.
SlotInv ==
  /\ rx = "start_nr" => ctx[nw].tti = tti
  /\ \A i \in 1..Len(slot_sync) :
       TTI_ADD(ctx[slot_sync[i]].tti, Len(slot_sync) + 1 - i) = NextSlot

----------------------------------------------------------------------------
(* TTI arithmetic and the length of slot_sync *)

\* A TTI more, after k of them.
LEMMA AddOne ==
  ASSUME NEW t \in Ttis, NEW k \in Nat, k <= TtiMod
  PROVE  TTI_ADD(TTI_ADD(t, k), 1) = TTI_ADD(t, k + 1)
<1>1. TtiMod \in Nat /\ TtiMod > 1 /\ t \in Nat /\ t < TtiMod
  BY TtiAssumption DEF Ttis
<1>2. t + k \in Nat /\ t + k < 2 * TtiMod
  BY <1>1
<1>3. (t + k) % TtiMod = Wrap(t + k)
  BY <1>1, <1>2, ModSmall DEF Wrap
<1>4. t + k + 1 \in Nat /\ t + k + 1 < 3 * TtiMod
  BY <1>1
<1>5. Wrap(t + k) + 1 \in Nat /\ Wrap(t + k) + 1 < 3 * TtiMod
  BY <1>1, <1>2 DEF Wrap
<1>. DEFINE Red(x) == IF x < TtiMod THEN x
                      ELSE IF x < 2 * TtiMod THEN x - TtiMod ELSE x - 2 * TtiMod
<1>6. (t + k + 1) % TtiMod = Red(t + k + 1) /\ (Wrap(t + k) + 1) % TtiMod = Red(Wrap(t + k) + 1)
  BY <1>4, <1>5, ModThree
<1>7. Red(t + k + 1) = Red(Wrap(t + k) + 1)
  BY <1>1, <1>2 DEF Wrap
<1>. HIDE DEF Red
<1>8. TTI_ADD(TTI_ADD(t, k), 1) = (Wrap(t + k) + 1) % TtiMod /\ TTI_ADD(t, k + 1) = (t + k + 1) % TtiMod
  BY <1>1, <1>3 DEF TTI_ADD
<1>. QED BY <1>6, <1>7, <1>8

\* Two TTIs that lead up to the same one are as far apart as their distances.
LEMMA ApartBy ==
  ASSUME NEW s \in Ttis, NEW t \in Ttis, NEW n \in Nat, NEW k \in Nat,
         k < n, n - k < TtiMod, n <= TtiMod, TTI_ADD(s, n) = TTI_ADD(t, k)
  PROVE  TTI_SUB(t, s) = n - k
<1>1. TtiMod \in Nat /\ TtiMod > 1 /\ t \in Nat /\ t < TtiMod /\ s \in Nat /\ s < TtiMod
  BY TtiAssumption DEF Ttis
<1>2. TTI_ADD(s, n) = Wrap(s + n) /\ TTI_ADD(t, k) = Wrap(t + k)
  BY <1>1, ModSmall DEF TTI_ADD, Wrap
<1>3. TTI_SUB(t, s) = Wrap((t + TtiMod) - s)
  <2>1. (t + TtiMod) - s \in Nat /\ (t + TtiMod) - s < 2 * TtiMod
    BY <1>1
  <2>. QED BY <1>1, <2>1, ModSmall DEF TTI_SUB, Wrap
<1>4. s + n = t + k \/ s + n = t + k + TtiMod
  <2>1. Wrap(s + n) = Wrap(t + k)
    BY <1>2, Zenon
  <2>. QED BY <1>1, <2>1 DEF Wrap
<1>5. CASE s + n = t + k
  <2>1. (t + TtiMod) - s = (n - k) + TtiMod
    BY <1>1, <1>5
  <2>. QED BY <1>1, <1>3, <2>1 DEF Wrap
<1>6. CASE s + n = t + k + TtiMod
  <2>1. (t + TtiMod) - s = n - k
    BY <1>1, <1>6
  <2>. QED BY <1>1, <1>3, <2>1 DEF Wrap
<1>. QED BY <1>4, <1>5, <1>6

\* slot_sync holds a worker once, so not more than the pool has.
LEMMA SlotBound ==
  ASSUME IInv
  PROVE  Len(slot_sync) \in Nat /\ Len(slot_sync) <= NofNr
<1>1. slot_sync \in Seq(Nr) /\ Distinct(slot_sync)
  BY DEF IInv, TypeOK, SyncInv
<1>2. IsFiniteSet(Nr) /\ Cardinality(Nr) = NofNr
  <2>1. /\ IsFiniteSet((NofLte + 1)..(NofLte + NofNr))
        /\ Cardinality((NofLte + 1)..(NofLte + NofNr)) =
             IF NofLte + 1 > NofLte + NofNr THEN 0 ELSE (NofLte + NofNr) - (NofLte + 1) + 1
    BY FS_Interval, PoolAssumption
  <2>. QED BY <2>1, PoolAssumption DEF Nr
<1>3. Len(slot_sync) \in Nat /\ slot_sync \in [1..Len(slot_sync) -> Nr]
  BY <1>1
<1>4. slot_sync \in Injection(1..Len(slot_sync), Nr)
  BY <1>1, <1>3, Zenon DEF Distinct, Injection, IsInjective
<1>5. Cardinality(1..Len(slot_sync)) <= Cardinality(Nr)
  BY <1>2, <1>4, FS_Injection
<1>6. Cardinality(1..Len(slot_sync)) = IF 1 > Len(slot_sync) THEN 0 ELSE Len(slot_sync)
  BY <1>3, FS_Interval
<1>. QED BY <1>2, <1>3, <1>5, <1>6, PoolAssumption

----------------------------------------------------------------------------
(* The steps *)

\* A step that leaves slot_sync, the next slot and the contexts of the workers
\* in slot_sync alone keeps the order.
LEMMA SlotQuiet ==
  ASSUME IInv, SlotInv, UNCHANGED slot_sync, slot_sync = <<>> \/ NextSlot' = NextSlot,
         \A v \in Nr : Unscheduled(v) => ctx'[v].tti = ctx[v].tti,
         rx' = "start_nr" => ctx'[nw'].tti = tti'
  PROVE  SlotInv'
<1>1. slot_sync \in Seq(Nr) /\ \A i \in 1..Len(slot_sync) : Unscheduled(slot_sync[i])
  <2>1. slot_sync \in Seq(Nr) /\ \A w \in Workers : InQueue(slot_sync, w) <=> Unscheduled(w)
    BY DEF IInv, TypeOK, SyncInv
  <2>2. \A i \in 1..Len(slot_sync) : slot_sync[i] \in Workers /\ InQueue(slot_sync, slot_sync[i])
    BY <2>1, WorkerSets DEF InQueue
  <2>. QED BY <2>1, <2>2
<1>2. \A i \in 1..Len(slot_sync) : ctx'[slot_sync[i]].tti = ctx[slot_sync[i]].tti
  BY <1>1
<1>3. ASSUME NEW i \in 1..Len(slot_sync)
      PROVE  TTI_ADD(ctx'[slot_sync[i]].tti, Len(slot_sync) + 1 - i) = NextSlot'
  <2>1. slot_sync # <<>>
    BY <1>3
  <2>. QED BY <1>2, <2>1 DEF SlotInv
<1>. QED BY <1>3 DEF SlotInv

\* The TXRX thread takes TTI and workers.
LEMMA TxrxSlots ==
  ASSUME IInv, SlotInv,
         RxLoop \/ RxWaitLte \/ RxWaitNr \/ RxPushNr \/ RxPushLte \/ RxStartLte
  PROVE  SlotInv'
<1>1. CASE RxLoop \/ RxStartLte
  <2>1. /\ UNCHANGED <<slot_sync, ctx>> /\ NextSlot' = NextSlot /\ rx' # "start_nr"
    BY <1>1 DEF RxLoop, RxStartLte, NextSlot
  <2>. QED BY <2>1, SlotQuiet
<1>2. CASE RxWaitLte
  <2>1. /\ UNCHANGED <<slot_sync, ctx, tti>> /\ rx = "lte"
        /\ rx' = IF NofNr > 0 THEN "nr" ELSE "push_lte"
    BY <1>2, RxWaitFacts DEF RxWaitLte
  <2>2. slot_sync = <<>> \/ NextSlot' = NextSlot
    <3>1. slot_sync \in Seq(Nr)
      BY DEF IInv, TypeOK
    <3>2. NofNr = 0 => slot_sync = <<>>
      BY <3>1, SlotBound
    <3>. QED BY <2>1, <3>2, PoolAssumption DEF NextSlot
  <2>. QED BY <2>1, <2>2, SlotQuiet
<1>3. CASE RxWaitNr
  <2>1. /\ UNCHANGED <<slot_sync, ctx, tti>> /\ rx = "nr" /\ rx' = "push_nr"
    BY <1>3, RxWaitFacts DEF RxWaitNr
  <2>. QED BY <2>1, SlotQuiet DEF NextSlot
<1>4. CASE RxPushNr
  <2>1. /\ UNCHANGED <<slot_sync, tti, nw>> /\ rx = "push_nr" /\ rx' = "start_nr"
        /\ ctx' = [ctx EXCEPT ![nw] = [tti |-> tti, last |-> (NofLte = 0)]]
    BY <1>4 DEF RxPushNr, RxPush
  <2>2. nw \in Nr /\ nw \in Workers /\ status[nw] = "WORKER_READY" /\ wpc[nw] = "wait"
    BY <2>1, WorkerSets DEF IInv, ControlInv, RxInv, NrTaken, StatusInv
  <2>3. ctx'[nw].tti = tti /\ \A v \in Nr \ {nw} : ctx'[v] = ctx[v]
    BY <2>1, <2>2, FunFacts
  <2>4. ~Unscheduled(nw)
    BY <2>2 DEF Unscheduled
  <2>5. NextSlot' = NextSlot
    BY <2>1 DEF NextSlot
  <2>. QED BY <2>1, <2>3, <2>4, <2>5, SlotQuiet
<1>5. CASE RxPushLte
  <2>1. /\ UNCHANGED <<slot_sync, tti>> /\ rx = "push_lte" /\ rx' = "start_lte"
        /\ ctx' = [ctx EXCEPT ![lw] = [tti |-> tti, last |-> TRUE]]
    BY <1>5 DEF RxPushLte, RxPush
  <2>2. lw \in Lte
    BY <2>1 DEF IInv, ControlInv, RxInv
  <2>3. \A v \in Nr : ctx'[v] = ctx[v]
    BY <2>1, <2>2, FunFacts
  <2>4. NextSlot' = NextSlot
    BY <2>1 DEF NextSlot
  <2>. QED BY <2>1, <2>3, <2>4, SlotQuiet
<1>. QED BY <1>1, <1>2, <1>3, <1>4, <1>5

\* nr::worker_pool::start_worker enters the next slot.
LEMMA RxStartNrSlots ==
  ASSUME SlotsSuffice, IInv, SlotInv, RxStartNr
  PROVE  SlotInv'
<1>1. /\ rx = "start_nr" /\ slot_sync' = Append(slot_sync, nw) /\ UNCHANGED <<tti, nw, ctx>>
      /\ rx' \in {"push_lte", "head"}
  BY DEF RxStartNr
<1>2. /\ slot_sync \in Seq(Nr) /\ nw \in Nr /\ tti \in Ttis
      /\ \A w \in Workers : ctx[w].tti \in Ttis
  BY <1>1 DEF IInv, TypeOK, ControlInv, RxInv, NrTaken
<1>3. ctx[nw].tti = tti /\ NextSlot = tti /\ NextSlot' = TTI_ADD(tti, 1)
  BY <1>1 DEF SlotInv, NextSlot
<1>4. /\ Len(slot_sync) \in Nat /\ Len(slot_sync') = Len(slot_sync) + 1
      /\ slot_sync'[Len(slot_sync) + 1] = nw
      /\ \A i \in 1..Len(slot_sync) : slot_sync'[i] = slot_sync[i] /\ slot_sync[i] \in Workers
  BY <1>1, <1>2, PushFacts, WorkerSets
<1>5. ASSUME NEW i \in 1..Len(slot_sync')
      PROVE  TTI_ADD(ctx'[slot_sync'[i]].tti, Len(slot_sync') + 1 - i) = NextSlot'
  <2>1. CASE i = Len(slot_sync) + 1
    BY <1>1, <1>3, <1>4, <2>1
  <2>2. CASE i \in 1..Len(slot_sync)
    <3>. DEFINE k == Len(slot_sync) + 1 - i
    <3>1. k \in Nat /\ k <= TtiMod /\ Len(slot_sync') + 1 - i = k + 1
      BY <1>4, <2>2, SlotBound, PoolAssumption, TtiAssumption DEF SlotsSuffice
    <3>2. ctx'[slot_sync'[i]].tti = ctx[slot_sync[i]].tti /\ ctx[slot_sync[i]].tti \in Ttis
      BY <1>1, <1>2, <1>4, <2>2
    <3>3. TTI_ADD(ctx[slot_sync[i]].tti, k) = tti
      BY <1>3, <2>2 DEF SlotInv
    <3>4. TTI_ADD(ctx[slot_sync[i]].tti, k + 1) = TTI_ADD(tti, 1)
      BY <3>1, <3>2, <3>3, AddOne
    <3>. HIDE DEF k
    <3>. QED BY <1>3, <3>1, <3>2, <3>4
  <2>. QED BY <1>4, <2>1, <2>2
<1>. QED BY <1>1, <1>5 DEF SlotInv

\* The worker that has called the scheduler leaves slot_sync.
LEMMA WorkDlNrSlots ==
  ASSUME IInv, SlotInv, NEW w \in Workers, NEW ok \in BOOLEAN, WorkDlNr(w, ok)
  PROVE  SlotInv'
<1>1. UNCHANGED <<rx, tti, nw, ctx>> /\ slot_sync' = Tail(slot_sync) /\ wpc[w] = "sched"
  BY DEF WorkDlNr
<1>2. slot_sync \in Seq(Nr) /\ slot_sync # <<>> /\ Distinct(slot_sync)
  BY <1>1 DEF IInv, TypeOK, SyncInv
<1>3. Len(slot_sync) \in Nat /\ Len(slot_sync') = Len(slot_sync) - 1
  BY <1>1, <1>2, PopFacts
<1>4. \A i \in 1..(Len(slot_sync) - 1) : slot_sync'[i] = slot_sync[i + 1]
  BY <1>1, <1>2, PopFacts
<1>5. ASSUME NEW i \in 1..Len(slot_sync')
      PROVE  TTI_ADD(ctx'[slot_sync'[i]].tti, Len(slot_sync') + 1 - i) = NextSlot'
  <2>1. i \in Nat /\ i >= 1 /\ i <= Len(slot_sync) - 1
    BY <1>3
  <2>2. i + 1 \in 1..Len(slot_sync) /\ i \in 1..(Len(slot_sync) - 1)
    BY <1>3, <2>1
  <2>3. slot_sync'[i] = slot_sync[i + 1]
    BY <1>4, <2>2
  <2>4. Len(slot_sync') + 1 - i = Len(slot_sync) + 1 - (i + 1)
    BY <1>3, <2>1
  <2>5. TTI_ADD(ctx[slot_sync[i + 1]].tti, Len(slot_sync) + 1 - (i + 1)) = NextSlot
    BY <2>2 DEF SlotInv
  <2>6. NextSlot' = NextSlot
    BY <1>1 DEF NextSlot
  <2>. QED BY <1>1, <2>3, <2>4, <2>5, <2>6
<1>. QED BY <1>1, <1>5 DEF SlotInv

\* The other steps of a worker.
LEMMA WorkerSlots ==
  ASSUME IInv, SlotInv, NEW w \in Workers, NEW ok \in BOOLEAN,
         \/ WaitToStart(w) \/ WorkLte(w, ok) \/ WorkUlNr(w, ok) \/ SyncWait(w)
         \/ SemaphoreWait(w) \/ Combine(w) \/ Transmit(w) \/ LastWorker(w)
         \/ Release(w) \/ WaitLastWorker(w) \/ Finished(w)
  PROVE  SlotInv'
<1>1. CASE Finished(w)
  <2>1. /\ UNCHANGED <<rx, tti, nw, slot_sync>> /\ wpc[w] = "finish"
        /\ ctx' = [ctx EXCEPT ![w] = NoContext]
    BY <1>1 DEF Finished
  <2>2. ~Unscheduled(w) /\ (rx = "start_nr" => nw # w /\ nw \in Nr)
    BY <2>1, WorkerSets DEF Unscheduled, IInv, ControlInv, StatusInv, RxInv, NrTaken
  <2>3. \A v \in Nr \ {w} : ctx'[v] = ctx[v]
    BY <2>1, FunFacts
  <2>4. NextSlot' = NextSlot
    BY <2>1 DEF NextSlot
  <2>5. rx = "start_nr" => ctx[nw].tti = tti
    BY DEF SlotInv
  <2>. QED BY <2>1, <2>2, <2>3, <2>4, <2>5, SlotQuiet
<1>2. ~Finished(w) => UNCHANGED <<rx, tti, nw, slot_sync, ctx>>
  <2>1. CASE WaitToStart(w) \/ WorkLte(w, ok) \/ WorkUlNr(w, ok) \/ SyncWait(w)
    BY <2>1 DEF WaitToStart, WorkLte, WorkUlNr, SyncWait
  <2>2. CASE SemaphoreWait(w) \/ Combine(w) \/ Transmit(w)
    BY <2>2, Zenon DEF SemaphoreWait, Combine, Transmit
  <2>3. CASE LastWorker(w) \/ Release(w) \/ WaitLastWorker(w)
    BY <2>3 DEF LastWorker, Release, WaitLastWorker
  <2>. QED BY <2>1, <2>2, <2>3, Zenon
<1>3. CASE ~Finished(w)
  BY <1>2, <1>3 DEF SlotInv, NextSlot
<1>. QED BY <1>1, <1>3

\* The slots in slot_sync stay consecutive in every step.
LEMMA SlotStep ==
  ASSUME SlotsSuffice, IInv, SlotInv, [Next]_vars
  PROVE  SlotInv'
<1>1. CASE Txrx
  BY <1>1, TxrxSlots, RxStartNrSlots DEF Txrx
<1>2. ASSUME NEW w \in Workers, Worker(w)
      PROVE  SlotInv'
  BY <1>2, WorkerSlots, WorkDlNrSlots, Zenon DEF Worker
<1>3. CASE PhyStop \/ UNCHANGED vars
  <2>1. UNCHANGED <<rx, tti, nw, slot_sync, ctx>>
    BY <1>3 DEF PhyStop, StopTxrx, JoinTxrx, WaitAll, StopPool, JoinPool, vars
  <2>. QED BY <2>1 DEF SlotInv, NextSlot
<1>. QED BY <1>1, <1>2, <1>3 DEF Next, Terminated

----------------------------------------------------------------------------
(* The property *)

\* A worker in get_dl_sched is the first of slot_sync, and the others are as
\* many slots behind it as they are places.
LEMMA FirstInOrder ==
  ASSUME SlotsSuffice, IInv, SlotInv
  PROVE  SchedInSlotOrder
<1>1. SUFFICES ASSUME NEW v \in Nr, NEW w \in Nr, v # w, wpc[w] = "sched", ToBeScheduled(v)
               PROVE  /\ wpc[v] # "sched"
                      /\ TTI_SUB(ctx[v].tti, ctx[w].tti) \in 1..(NofNr - 1)
  BY DEF SchedInSlotOrder
<1>2. v \in Workers /\ w \in Workers /\ Unscheduled(v)
  BY <1>1, WorkerSets DEF Unscheduled, ToBeScheduled
<1>3. /\ slot_sync # <<>> /\ slot_sync[1] = w /\ InQueue(slot_sync, v) /\ wpc[v] # "sched"
      /\ slot_sync \in Seq(Nr) /\ ctx[v].tti \in Ttis /\ ctx[w].tti \in Ttis
  BY <1>1, <1>2 DEF IInv, SyncInv, TypeOK
<1>4. PICK j \in 1..Len(slot_sync) : slot_sync[j] = v
  BY <1>3 DEF InQueue
<1>. DEFINE n == Len(slot_sync)
            k == n + 1 - j
<1>5. n \in Nat /\ n <= NofNr /\ n <= TtiMod /\ j \in 2..n /\ 1 \in 1..n
  BY <1>1, <1>3, <1>4, SlotBound, PoolAssumption, TtiAssumption DEF SlotsSuffice
<1>6. TTI_ADD(ctx[w].tti, n) = TTI_ADD(ctx[v].tti, k)
  <2>1. TTI_ADD(ctx[slot_sync[1]].tti, n + 1 - 1) = NextSlot
    BY <1>5 DEF SlotInv
  <2>2. TTI_ADD(ctx[slot_sync[j]].tti, k) = NextSlot
    BY <1>4 DEF SlotInv
  <2>3. n + 1 - 1 = n
    BY <1>5
  <2>. QED BY <1>3, <1>4, <2>1, <2>2, <2>3
<1>7. k \in Nat /\ k < n /\ n - k = j - 1 /\ n - k < TtiMod
  BY <1>5, TtiAssumption
<1>. HIDE DEF n, k
<1>8. TTI_SUB(ctx[v].tti, ctx[w].tti) = n - k
  BY <1>3, <1>5, <1>6, <1>7, ApartBy
<1>. QED BY <1>3, <1>5, <1>7, <1>8, PoolAssumption

\* The NR scheduler is called by one worker at a time and in slot order, for
\* any number of workers (slot_worker::work_dl, nr::worker_pool::start_worker).
THEOREM SchedulesInSlotOrder == SlotsSuffice => (Spec => []SchedInSlotOrder)
<1>. SUFFICES ASSUME SlotsSuffice
             PROVE  Spec => []SchedInSlotOrder
  OBVIOUS
<1>1. Init => IInv /\ SlotInv
  <2>1. Init => SlotInv
    BY DEF Init, SlotInv
  <2>. QED BY <2>1, InitIInv
<1>2. IInv /\ SlotInv /\ [Next]_vars => IInv' /\ SlotInv'
  BY NextStep, SlotStep
<1>3. IInv /\ SlotInv => SchedInSlotOrder
  BY FirstInOrder
<1>. QED BY <1>1, <1>2, <1>3, PTL DEF Spec
=============================================================================
