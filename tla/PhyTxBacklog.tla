---------------------------- MODULE PhyTxBacklog ----------------------------
(***************************************************************************)
(* The TTIs in hand reach from the last one transmitted to the last one    *)
(* taken, and each of them that has got its workers occupies one: what is  *)
(* invariant about them, and the steps that enter, transmit and release    *)
(* workers.                                                                *)
(***************************************************************************)
EXTENDS PhyTxProofs

\* The TTIs in hand have different numbers.
TtisSuffice == Capacity < TtiMod

\* The pool whose worker is the last of its TTI.
LastPool == IF NofLte > 0 THEN Lte ELSE Nr

\* How far the transmission of TTI t is ahead of that of s.
Distance(t, s) == (t + Delay + TtiMod - s) % TtiMod
Ahead(t)       == Distance(t, sent)

\* Workers in the FIFO whose TTI has not been transmitted.
Pending(w) == Entered(w) /\ ~Transmitted(w)

\* TTIs in hand that have got their last worker.
Manned == IF Pushed THEN Ahead(tti) ELSE Ahead(tti) - 1

\* What is pending lies between the last TTI transmitted and the last one
\* taken; each TTI in between has its own last worker; and nothing of a TTI is
\* behind the last worker in the FIFO.
BacklogInv ==
  /\ \A w \in Workers : Pending(w) => Ahead(ctx[w].tti) \in 1..Ahead(tti)
  /\ \A k \in 1..Manned :
       \E w \in LastPool : Pending(w) /\ ctx[w].last /\ Ahead(ctx[w].tti) = k
  /\ ~Pushed => /\ Ahead(tti) > 0
                /\ \A w \in Workers : Pending(w) /\ ctx[w].last => ctx[w].tti # tti
  /\ \A i, j \in 1..Len(fifo) :
       i < j /\ ctx[fifo[i]].last /\ ~Transmitted(fifo[i]) =>
         ctx[fifo[i]].tti # ctx[fifo[j]].tti

\* Z3 and then Zenon get half a minute for a leaf.
USE SMTT(30), ZenonT(30) DEF rxVars, poolVars, workVars, txVars

----------------------------------------------------------------------------
(* Distances between TTIs *)

Gap(x) == IF x < 0 THEN x + TtiMod ELSE IF x < TtiMod THEN x ELSE x - TtiMod

\* The distance without a modulus.
LEMMA DistanceIs ==
  ASSUME NEW t \in Ttis, NEW s \in Ttis
  PROVE  Distance(t, s) = Gap(t + Delay - s)
<1>1. t + Delay + TtiMod - s \in Nat /\ t + Delay + TtiMod - s < 3 * TtiMod
  BY TtiAssumption DEF Ttis
<1>2. TtiMod \in Nat /\ t \in Nat /\ s \in Nat /\ Delay \in Nat
  BY TtiAssumption DEF Ttis
<1>. QED BY <1>1, <1>2, ModThree DEF Distance, Gap

\* A TTI more on either side, the TTI that is due, and different TTIs.
LEMMA DistanceFacts ==
  ASSUME NEW t \in Ttis, NEW s \in Ttis
  PROVE  /\ Distance(t, s) \in 0..(TtiMod - 1)
         /\ Distance(t, s) < TtiMod - 1 => Distance(TTI_ADD(t, 1), s) = Distance(t, s) + 1
         /\ Distance(t, s) > 0 => Distance(t, TTI_ADD(s, 1)) = Distance(t, s) - 1
         /\ TTI_ADD(t, Delay) = TTI_ADD(s, 1) <=> Distance(t, s) = 1
         /\ \A u \in Ttis : Distance(t, s) = Distance(u, s) => t = u
<1>1. 1 \in Nat /\ 1 < TtiMod /\ Delay \in Nat /\ Delay < TtiMod /\ TtiMod \in Nat
  BY TtiAssumption
<1>2. /\ TTI_ADD(t, 1) \in Ttis /\ TTI_ADD(t, 1) = Wrap(t + 1)
      /\ TTI_ADD(s, 1) \in Ttis /\ TTI_ADD(s, 1) = Wrap(s + 1)
      /\ TTI_ADD(t, Delay) = Wrap(t + Delay)
  BY <1>1, AddType
<1>3. /\ Distance(t, s) = Gap(t + Delay - s)
      /\ Distance(TTI_ADD(t, 1), s) = Gap(Wrap(t + 1) + Delay - s)
      /\ Distance(t, TTI_ADD(s, 1)) = Gap(t + Delay - Wrap(s + 1))
      /\ \A u \in Ttis : Distance(u, s) = Gap(u + Delay - s)
  BY <1>2, DistanceIs
<1>4. Gap(t + Delay - s) \in 0..(TtiMod - 1)
  BY <1>1 DEF Ttis, Gap
<1>5. Gap(t + Delay - s) < TtiMod - 1 => Gap(Wrap(t + 1) + Delay - s) = Gap(t + Delay - s) + 1
  BY <1>1 DEF Ttis, Wrap, Gap
<1>6. Gap(t + Delay - s) > 0 => Gap(t + Delay - Wrap(s + 1)) = Gap(t + Delay - s) - 1
  BY <1>1 DEF Ttis, Wrap, Gap
<1>7. Wrap(t + Delay) = Wrap(s + 1) <=> Gap(t + Delay - s) = 1
  BY <1>1 DEF Ttis, Wrap, Gap
<1>8. \A u \in Ttis : Gap(t + Delay - s) = Gap(u + Delay - s) => t = u
  BY <1>1 DEF Ttis, Gap
<1>. QED BY <1>2, <1>3, <1>4, <1>5, <1>6, <1>7, <1>8

\* What the invariant knows of the TTIs it speaks of.
LEMMA AheadFacts ==
  ASSUME IInv
  PROVE  /\ sent \in Ttis /\ tti \in Ttis /\ TtiMod \in Nat
         /\ Ahead(tti) \in 0..(TtiMod - 1)
         /\ \A w \in Workers : ctx[w].tti \in Ttis /\ Ahead(ctx[w].tti) \in 0..(TtiMod - 1)
<1>1. sent \in Ttis /\ tti \in Ttis /\ \A w \in Workers : ctx[w].tti \in Ttis
  BY DEF IInv, TypeOK
<1>. QED BY <1>1, DistanceFacts, TtiAssumption DEF Ahead

----------------------------------------------------------------------------
(* Steps that neither take nor transmit a TTI *)

\* A step that leaves the FIFO and the TTIs in it alone keeps the invariant.
LEMMA Quiet ==
  ASSUME IInv, BacklogInv, UNCHANGED <<fifo, sent, tti>>, Pushed' <=> Pushed,
         \A v \in Workers :
           /\ Entered(v)' <=> Entered(v)
           /\ Entered(v) => ctx'[v] = ctx[v] /\ (Transmitted(v)' <=> Transmitted(v))
  PROVE  BacklogInv'
<1>1. \A v \in Workers : (Pending(v)' <=> Pending(v)) /\ (Pending(v) => ctx'[v] = ctx[v])
  BY DEF Pending
<1>2. /\ Ahead(tti)' = Ahead(tti) /\ Manned' = Manned
      /\ \A v \in Workers : Pending(v) => Ahead(ctx[v].tti)' = Ahead(ctx[v].tti)
  BY <1>1 DEF Ahead, Manned
<1>3. LastPool \subseteq Workers
  BY WorkerSets DEF LastPool
<1>4. ASSUME NEW i \in 1..Len(fifo)
      PROVE  /\ fifo[i] \in Workers /\ ctx'[fifo[i]] = ctx[fifo[i]]
             /\ Transmitted(fifo[i])' <=> Transmitted(fifo[i])
  <2>1. PICK v \in Workers : v = fifo[i] /\ v = fifo'[i] /\ Entered(v)
    BY DEF IInv, TypeOK, QueueInv, FifoInv, InQueue
  <2>2. Transmitted(fifo[i])' <=> Transmitted(v)'
    BY <2>1 DEF Transmitted
  <2>. QED BY <2>1, <2>2
<1>5. \A w \in Workers : Pending(w)' => Ahead(ctx[w].tti)' \in 1..Ahead(tti)'
  BY <1>1, <1>2 DEF BacklogInv
<1>6. \A k \in 1..Manned' :
        \E w \in LastPool : Pending(w)' /\ ctx'[w].last /\ Ahead(ctx[w].tti)' = k
  BY <1>1, <1>2, <1>3 DEF BacklogInv
<1>7. ~Pushed' => /\ Ahead(tti)' > 0
                  /\ \A w \in Workers : Pending(w)' /\ ctx'[w].last => ctx'[w].tti # tti'
  BY <1>1, <1>2 DEF BacklogInv
<1>8. \A i, j \in 1..Len(fifo') :
        i < j /\ ctx'[fifo'[i]].last /\ ~Transmitted(fifo[i])' =>
          ctx'[fifo'[i]].tti # ctx'[fifo'[j]].tti
  BY <1>4 DEF BacklogInv
<1>. QED BY <1>5, <1>6, <1>7, <1>8 DEF BacklogInv

\* Taking a worker from its pool enters nothing in the FIFO, and starting one
\* leaves it there.
LEMMA TxrxQuiet ==
  ASSUME IInv, BacklogInv, RxWaitLte \/ RxWaitNr \/ RxStartNr \/ RxStartLte
  PROVE  BacklogInv'
<1>. USE DEF IInv
<1>1. CASE RxWaitLte
  <2>1. PICK v \in Lte : /\ rx = "lte" /\ status[v] = "IDLE" /\ rx' \in {"nr", "push_lte"}
                         /\ status' = [status EXCEPT ![v] = "WORKER_READY"]
                         /\ UNCHANGED <<tti, workVars, fifo, sent>>
    BY <1>1, RxWaitFacts DEF RxWaitLte
  <2>2. /\ Pushed' <=> Pushed
        /\ \A w \in Workers : /\ Entered(w)' <=> Entered(w)
                              /\ Transmitted(w)' <=> Transmitted(w)
    BY <2>1, FunFacts DEF Pushed, Entered, Transmitted
  <2>. QED BY <2>1, <2>2, Quiet
<1>2. CASE RxWaitNr
  <2>1. PICK v \in Nr : /\ rx = "nr" /\ status[v] = "IDLE" /\ rx' = "push_nr"
                        /\ status' = [status EXCEPT ![v] = "WORKER_READY"]
                        /\ UNCHANGED <<tti, workVars, fifo, sent>>
    BY <1>2, RxWaitFacts DEF RxWaitNr
  <2>2. /\ Pushed' <=> Pushed
        /\ \A w \in Workers : /\ Entered(w)' <=> Entered(w)
                              /\ Transmitted(w)' <=> Transmitted(w)
    BY <2>1, FunFacts DEF Pushed, Entered, Transmitted
  <2>. QED BY <2>1, <2>2, Quiet
<1>3. CASE RxStartNr
  <2>1. /\ rx = "start_nr" /\ nw \in Nr /\ status[nw] = "WORKER_READY"
        /\ status' = [status EXCEPT ![nw] = "START_WORK"]
        /\ rx' = IF NofLte > 0 THEN "push_lte" ELSE "head"
        /\ UNCHANGED <<tti, lw, nw, workVars, fifo, sent>>
    BY <1>3 DEF RxStartNr, StartWorker, ControlInv, RxInv, NrTaken
  <2>2. /\ Pushed' <=> Pushed
        /\ \A w \in Workers : /\ Entered(w)' <=> Entered(w)
                              /\ Transmitted(w)' <=> Transmitted(w)
    BY <2>1, FunFacts, PoolAssumption DEF Pushed, Entered, Transmitted
  <2>. QED BY <2>1, <2>2, Quiet
<1>4. CASE RxStartLte
  <2>1. /\ rx = "start_lte" /\ lw \in Lte /\ status[lw] = "WORKER_READY"
        /\ status' = [status EXCEPT ![lw] = "START_WORK"] /\ rx' = "head"
        /\ UNCHANGED <<tti, lw, nw, workVars, fifo, sent>>
    BY <1>4, WorkerSets DEF RxStartLte, StartWorker, ControlInv, RxInv, LteTaken
  <2>2. /\ Pushed' <=> Pushed
        /\ \A w \in Workers : /\ Entered(w)' <=> Entered(w)
                              /\ Transmitted(w)' <=> Transmitted(w)
    BY <2>1, FunFacts DEF Pushed, Entered, Transmitted
  <2>. QED BY <2>1, <2>2, Quiet
<1>. QED BY <1>1, <1>2, <1>3, <1>4

\* A step of worker w that leaves the others alone, and w in the FIFO or out
\* of it, keeps the invariant.
LEMMA WorkerQuietly ==
  ASSUME IInv, BacklogInv, NEW w \in Workers, UNCHANGED <<rx, tti, lw, nw, fifo, sent>>,
         \A v \in Workers \ {w} :
           status'[v] = status[v] /\ wpc'[v] = wpc[v] /\ ctx'[v] = ctx[v],
         Entered(w)' <=> Entered(w),
         Entered(w) => ctx'[w] = ctx[w] /\ (Transmitted(w)' <=> Transmitted(w))
  PROVE  BacklogInv'
<1>1. \A v \in Workers \ {w} : /\ Entered(v)' <=> Entered(v)
                               /\ Transmitted(v)' <=> Transmitted(v)
  BY DEF Entered, Transmitted
<1>2. Pushed' <=> Pushed
  BY DEF Pushed
<1>. QED BY <1>1, <1>2, Quiet

\* The steps of a worker before its turn, and after it has left the FIFO.
LEMMA WorkQuiet ==
  ASSUME IInv, BacklogInv, NEW w \in Workers, NEW ok \in BOOLEAN,
         \/ WaitToStart(w) \/ WorkLte(w, ok) \/ WorkUlNr(w, ok) \/ SyncWait(w)
         \/ WorkDlNr(w, ok) \/ WaitLastWorker(w) \/ Finished(w)
  PROVE  BacklogInv'
<1>. USE DEF IInv, Goto
<1>1. CASE WaitToStart(w)
  <2>1. /\ UNCHANGED <<rx, tti, lw, nw, fifo, sent, ctx>> /\ wpc[w] = "wait"
        /\ \/ status[w] = "STOP" /\ status' = status /\ wpc' = [wpc EXCEPT ![w] = "exit"]
           \/ /\ status[w] = "START_WORK" /\ status' = [status EXCEPT ![w] = "WORKING"]
              /\ wpc' = [wpc EXCEPT ![w] = "work"]
    BY <1>1 DEF WaitToStart
  <2>2. /\ Entered(w)' <=> Entered(w)
        /\ Transmitted(w)' <=> Transmitted(w)
        /\ \A v \in Workers \ {w} : status'[v] = status[v] /\ wpc'[v] = wpc[v]
    BY <2>1, FunFacts DEF Entered, Transmitted
  <2>. QED BY <2>1, <2>2, WorkerQuietly
<1>2. CASE WorkLte(w, ok) \/ WorkUlNr(w, ok) \/ SyncWait(w) \/ WorkDlNr(w, ok)
  <2>1. /\ UNCHANGED <<rx, tti, lw, nw, fifo, sent, ctx, status>>
        /\ wpc[w] \in {"work", "sync", "sched"}
        /\ \E to \in {"turn", "sync", "sched"} : wpc' = [wpc EXCEPT ![w] = to]
    BY <1>2 DEF WorkLte, WorkUlNr, SyncWait, WorkDlNr
  <2>2. /\ Entered(w)' <=> Entered(w)
        /\ Transmitted(w)' <=> Transmitted(w)
        /\ \A v \in Workers \ {w} : wpc'[v] = wpc[v]
    BY <2>1, FunFacts DEF Entered, Transmitted
  <2>. QED BY <2>1, <2>2, WorkerQuietly
<1>3. CASE WaitLastWorker(w)
  <2>1. /\ UNCHANGED <<rx, tti, lw, nw, fifo, sent, ctx, status>>
        /\ wpc[w] = "hold" /\ wpc' = [wpc EXCEPT ![w] = "finish"]
    BY <1>3 DEF WaitLastWorker
  <2>2. /\ Entered(w)' <=> Entered(w)
        /\ Transmitted(w)' <=> Transmitted(w)
        /\ \A v \in Workers \ {w} : wpc'[v] = wpc[v]
    BY <2>1, FunFacts DEF Entered, Transmitted
  <2>. QED BY <2>1, <2>2, WorkerQuietly
<1>4. CASE Finished(w)
  <2>1. /\ UNCHANGED <<rx, tti, lw, nw, fifo, sent>>
        /\ ctx' = [ctx EXCEPT ![w] = NoContext]
        /\ wpc[w] = "finish" /\ wpc' = [wpc EXCEPT ![w] = "wait"]
        /\ status' = IF status[w] # "STOP" THEN [status EXCEPT ![w] = "IDLE"] ELSE status
    BY <1>4 DEF Finished
  <2>2. ~Entered(w)
    BY <2>1 DEF Entered, ControlInv, StatusInv
  <2>3. \A v \in Workers \ {w} : wpc'[v] = wpc[v] /\ status'[v] = status[v] /\ ctx'[v] = ctx[v]
    BY <2>1, FunFacts
  <2>4. status'[w] \in {"IDLE", "STOP"}
    BY <2>1, FunFacts
  <2>5. ~Entered(w)'
    BY <2>4 DEF Entered
  <2>. QED BY <2>1, <2>2, <2>3, <2>5, WorkerQuietly
<1>. QED BY <1>1, <1>2, <1>3, <1>4

\* The steps of worker_end that neither transmit nor release.
LEMMA TurnQuiet ==
  ASSUME IInv, BacklogInv, NEW w \in Workers,
         SemaphoreWait(w) \/ Combine(w) \/ LastWorker(w)
  PROVE  BacklogInv'
<1>. USE DEF IInv, Goto
<1>1. CASE SemaphoreWait(w)
  <2>1. /\ UNCHANGED <<rx, tti, lw, nw, fifo, sent, ctx, status>>
        /\ wpc[w] = "turn" /\ wpc' = [wpc EXCEPT ![w] = "combine"]
    BY <1>1 DEF SemaphoreWait
  <2>2. /\ Entered(w)' <=> Entered(w)
        /\ Transmitted(w)' <=> Transmitted(w)
        /\ \A v \in Workers \ {w} : wpc'[v] = wpc[v]
    BY <2>1, FunFacts DEF Entered, Transmitted
  <2>. QED BY <2>1, <2>2, WorkerQuietly
<1>2. CASE Combine(w)
  <2>1. /\ UNCHANGED <<rx, tti, lw, nw, fifo, sent, ctx, status>> /\ wpc[w] = "combine"
        /\ wpc' = [wpc EXCEPT ![w] = IF ctx[w].last THEN "tx" ELSE "release"]
    BY <1>2 DEF Combine
  <2>2. /\ Entered(w)' <=> Entered(w)
        /\ Transmitted(w)' <=> Transmitted(w)
        /\ \A v \in Workers \ {w} : wpc'[v] = wpc[v]
    BY <2>1, FunFacts DEF Entered, Transmitted
  <2>. QED BY <2>1, <2>2, WorkerQuietly
<1>3. CASE LastWorker(w)
  <2>1. /\ UNCHANGED <<rx, tti, lw, nw, fifo, sent, ctx, status>>
        /\ wpc[w] = "last" /\ wpc' = [wpc EXCEPT ![w] = "release"]
    BY <1>3 DEF LastWorker
  <2>2. /\ Entered(w)' <=> Entered(w)
        /\ Transmitted(w)' <=> Transmitted(w)
        /\ \A v \in Workers \ {w} : wpc'[v] = wpc[v]
    BY <2>1, FunFacts DEF Entered, Transmitted
  <2>. QED BY <2>1, <2>2, WorkerQuietly
<1>. QED BY <1>1, <1>2, <1>3

\* phy::stop finds no worker in the FIFO when it stops a pool.
LEMMA StopQuiet ==
  ASSUME IInv, BacklogInv, PhyStop
  PROVE  BacklogInv'
<1>1. UNCHANGED <<rx, tti, lw, nw, fifo, sent, ctx, wpc>>
  BY DEF PhyStop, StopTxrx, JoinTxrx, WaitAll, StopPool, JoinPool
<1>2. \/ status' = status
      \/ /\ stop \notin {"run", "join_rx", "wait_all"}
         /\ \A w \in Workers : status'[w] \in {"STOP", status[w]}
  BY DEF PhyStop, StopStep, StopTxrx, JoinTxrx, WaitAll, StopPool, JoinPool
<1>3. \A w \in Workers : Entered(w)' <=> Entered(w)
  <2>1. CASE status' = status
    BY <1>1, <2>1 DEF Entered
  <2>2. CASE /\ stop \notin {"run", "join_rx", "wait_all"}
             /\ \A w \in Workers : status'[w] \in {"STOP", status[w]}
    BY <1>1, <2>2, Drained DEF Entered
  <2>. QED BY <1>2, <2>1, <2>2
<1>4. (Pushed' <=> Pushed) /\ \A w \in Workers : Transmitted(w)' <=> Transmitted(w)
  BY <1>1 DEF Pushed, Transmitted
<1>. QED BY <1>1, <1>3, <1>4, Quiet

-----------------------------------------------------------------------------
(* Entering and transmitting the workers of a TTI *)

\* Entering a worker of the TTI in hand.
LEMMA PushBacklog ==
  ASSUME IInv, BacklogInv, NEW w \in Workers, NEW pc, NEW last \in BOOLEAN, NEW next,
         RxPush(pc, w, last, next), status[w] = "WORKER_READY", ~Entered(w),
         ~Pushed, Pushed' <=> last, last => w \in LastPool, Entered(w)',
         \A v \in Workers \ {w} : Entered(v)' <=> Entered(v)
  PROVE  BacklogInv'
<1>1. /\ UNCHANGED <<tti, sent, wpc>> /\ tti \in Ttis
      /\ ctx' = [ctx EXCEPT ![w] = [tti |-> tti, last |-> last]]
      /\ ctx \in [Workers -> [tti : Ttis, last : BOOLEAN]]
      /\ wpc[w] = "wait" /\ fifo \in Seq(Workers) /\ fifo' = Append(fifo, w)
  BY DEF IInv, RxPush, TypeOK, ControlInv, StatusInv
<1>2. /\ ctx'[w].tti = tti /\ ctx'[w].last = last
      /\ \A v \in Workers \ {w} : ctx'[v] = ctx[v]
  BY <1>1
<1>3. /\ Pending(w)' /\ ~Pending(w)
      /\ \A v \in Workers \ {w} : /\ Pending(v)' <=> Pending(v)
                                  /\ Transmitted(v)' <=> Transmitted(v)
  BY <1>1, <1>2 DEF Pending, Transmitted
<1>4. /\ Ahead(tti)' = Ahead(tti) /\ Ahead(ctx[w].tti)' = Ahead(tti)
      /\ \A v \in Workers \ {w} : Ahead(ctx[v].tti)' = Ahead(ctx[v].tti)
  BY <1>1, <1>2 DEF Ahead
<1>5. Ahead(tti) \in Nat /\ Ahead(tti) > 0 /\ Manned = Ahead(tti) - 1
  BY AheadFacts DEF BacklogInv, Manned
<1>6. \A v \in Workers : Pending(v)' => Ahead(ctx[v].tti)' \in 1..Ahead(tti)'
  BY <1>3, <1>4, <1>5 DEF BacklogInv
<1>7. ASSUME NEW k \in 1..Manned'
      PROVE  \E v \in LastPool : Pending(v)' /\ ctx'[v].last /\ Ahead(ctx[v].tti)' = k
  <2>1. LastPool \subseteq Workers /\ Manned' = IF last THEN Ahead(tti) ELSE Ahead(tti) - 1
    BY <1>4, WorkerSets DEF LastPool, Manned
  <2>2. CASE k = Ahead(tti)
    BY <1>2, <1>3, <1>4, <1>5, <2>1, <2>2
  <2>3. CASE k < Ahead(tti)
    <3>1. PICK v \in LastPool : Pending(v) /\ ctx[v].last /\ Ahead(ctx[v].tti) = k
      BY <1>5, <2>3 DEF BacklogInv
    <3>. QED BY <1>2, <1>3, <1>4, <2>1, <3>1
  <2>. QED BY <1>5, <2>1, <2>2, <2>3
<1>8. ~Pushed' => /\ Ahead(tti)' > 0
                  /\ \A v \in Workers : Pending(v)' /\ ctx'[v].last => ctx'[v].tti # tti'
  BY <1>1, <1>2, <1>3, <1>4, <1>5, ZenonT(60) DEF BacklogInv
<1>9. ASSUME NEW i \in 1..Len(fifo'), NEW j \in 1..Len(fifo'), i < j,
             ctx'[fifo'[i]].last, ~Transmitted(fifo[i])'
      PROVE  ctx'[fifo'[i]].tti # ctx'[fifo'[j]].tti
  <2>1. /\ Len(fifo) \in Nat /\ Len(fifo') = Len(fifo) + 1 /\ fifo'[Len(fifo) + 1] = w
        /\ \A n \in 1..Len(fifo) : fifo'[n] = fifo[n] /\ fifo[n] \in Workers
        /\ \A n \in 1..Len(fifo) : Entered(fifo[n])
    BY <1>1 DEF IInv, QueueInv, FifoInv, InQueue
  <2>2. i \in 1..Len(fifo) /\ fifo[i] \in Workers \ {w} /\ fifo'[i] = fifo[i]
    BY <1>9, <2>1
  <2>3. ctx'[fifo'[i]] = ctx[fifo[i]] /\ ~Transmitted(fifo[i]) /\ Pending(fifo[i])
    BY <1>1, <1>2, <1>9, <2>1, <2>2 DEF Pending, Transmitted
  <2>4. CASE j = Len(fifo) + 1
    BY <1>2, <1>9, <2>1, <2>2, <2>3, <2>4 DEF BacklogInv
  <2>5. CASE j \in 1..Len(fifo)
    <3>1. fifo[j] \in Workers \ {w} /\ fifo'[j] = fifo[j] /\ ctx'[fifo'[j]] = ctx[fifo[j]]
      BY <1>2, <2>1, <2>5
    <3>. QED BY <1>9, <2>2, <2>3, <2>5, <3>1 DEF BacklogInv
  <2>. QED BY <1>9, <2>1, <2>4, <2>5
<1>. QED BY <1>6, <1>7, <1>8, <1>9 DEF BacklogInv
\* The NR worker of a TTI is entered, and is the last only without LTE.
LEMMA RxPushNrBacklog ==
  ASSUME IInv, BacklogInv, RxPushNr
  PROVE  BacklogInv'
<1>1. /\ rx = "push_nr" /\ rx' = "start_nr" /\ nw \in Nr /\ nw \in Workers
      /\ status[nw] = "WORKER_READY" /\ UNCHANGED <<status, wpc, lw, nw>>
      /\ lw # nw
  BY WorkerSets DEF IInv, TypeOK, ControlInv, RxInv, NrTaken, RxPushNr, RxPush
<1>2. /\ ~Entered(nw) /\ Entered(nw)'
      /\ \A v \in Workers \ {nw} : Entered(v)' <=> Entered(v)
  BY <1>1 DEF Entered
<1>3. ~Pushed /\ (Pushed' <=> NofLte = 0)
  BY <1>1 DEF Pushed
<1>4. (NofLte = 0) \in BOOLEAN /\ (NofLte = 0 => nw \in LastPool)
  BY <1>1 DEF LastPool
<1>5. RxPush("push_nr", nw, NofLte = 0, "start_nr")
  BY DEF RxPushNr
<1>. QED BY <1>1, <1>2, <1>3, <1>4, <1>5, PushBacklog, Zenon

\* The LTE worker of a TTI is entered, and is the last.
LEMMA RxPushLteBacklog ==
  ASSUME IInv, BacklogInv, RxPushLte
  PROVE  BacklogInv'
<1>1. /\ rx = "push_lte" /\ rx' = "start_lte" /\ lw \in Lte /\ lw \in Workers /\ NofLte > 0
      /\ status[lw] = "WORKER_READY" /\ UNCHANGED <<status, wpc, lw, nw>>
      /\ lw # nw
  BY WorkerSets DEF IInv, TypeOK, ControlInv, RxInv, LteTaken, RxPushLte, RxPush
<1>2. /\ ~Entered(lw) /\ Entered(lw)'
      /\ \A v \in Workers \ {lw} : Entered(v)' <=> Entered(v)
  BY <1>1 DEF Entered
<1>3. ~Pushed /\ Pushed'
  BY <1>1 DEF Pushed
<1>4. lw \in LastPool
  BY <1>1 DEF LastPool
<1>5. RxPush("push_lte", lw, TRUE, "start_lte")
  BY Zenon DEF RxPushLte
<1>. QED BY <1>1, <1>2, <1>3, <1>4, <1>5, PushBacklog, ZenonT(60)

\* radio->tx is called for the oldest TTI in hand, and leaves the others.
LEMMA TransmitSends ==
  ASSUME IInv, BacklogInv, NEW w \in Workers, Transmit(w)
  PROVE  /\ BacklogInv'
         /\ sent' = TTI_ADD(sent, 1) /\ Ahead(tti) > 0
<1>1. /\ wpc[w] = "tx" /\ wpc' = [wpc EXCEPT ![w] = "last"] /\ sent' = TTI_ADD(ctx[w].tti, Delay)
      /\ UNCHANGED <<rx, tti, lw, nw, status, ctx, fifo>>
      /\ sent \in Ttis /\ tti \in Ttis /\ wpc \in [Workers -> WorkerPcs]
      /\ \A v \in Workers : ctx[v].tti \in Ttis
  BY DEF IInv, Transmit, Goto, TxTti, TypeOK
<1>2. fifo # <<>> /\ fifo \in Seq(Workers) /\ fifo[1] = w /\ ctx[w].last /\ ~Transmitted(w)
  BY <1>1 DEF IInv, QueueInv, FrontInv, HasTurn, Transmitted, TypeOK
<1>3. Entered(w) /\ Pending(w) /\ Due(ctx[w].tti)
  <2>1. InQueue(fifo, w)
    BY <1>2, FrontFacts
  <2>. QED BY <1>2, <2>1 DEF IInv, Pending, QueueInv, FifoInv, OrderInv
<1>4. sent' = TTI_ADD(sent, 1) /\ Ahead(ctx[w].tti) = 1
  BY <1>1, <1>3, DistanceFacts DEF Due, Ahead
<1>5. /\ Ahead(tti) \in Nat /\ Ahead(tti) > 0 /\ Ahead(tti)' = Ahead(tti) - 1
      /\ Manned' = Manned - 1 /\ Manned \in Int /\ (Pushed' <=> Pushed)
  <2>1. Ahead(tti) \in Nat /\ Ahead(tti) > 0
    BY <1>3, <1>4, AheadFacts DEF BacklogInv
  <2>2. Ahead(tti)' = Ahead(tti) - 1
    BY <1>1, <1>4, <2>1, DistanceFacts DEF Ahead
  <2>. QED BY <1>1, <2>1, <2>2 DEF Manned, Pushed
<1>6. /\ ~Pending(w)'
      /\ \A v \in Workers \ {w} : /\ Pending(v)' <=> Pending(v)
                                  /\ Transmitted(v)' <=> Transmitted(v)
  <2>1. Transmitted(w)'
    BY <1>1, <1>2 DEF Transmitted
  <2>2. \A v \in Workers \ {w} : /\ Entered(v)' <=> Entered(v)
                                 /\ Transmitted(v)' <=> Transmitted(v)
    BY <1>1 DEF Entered, Transmitted
  <2>. QED BY <2>1, <2>2 DEF Pending
<1>7. ASSUME NEW v \in Workers \ {w}, Pending(v)
      PROVE  /\ Ahead(ctx[v].tti) \in 2..Ahead(tti)
             /\ Ahead(ctx[v].tti)' = Ahead(ctx[v].tti) - 1
  <2>1. Ahead(ctx[v].tti) \in 1..Ahead(tti)
    BY <1>7 DEF BacklogInv
  <2>2. PICK j \in 1..Len(fifo) : fifo[j] = v
    BY <1>7 DEF IInv, Pending, QueueInv, FifoInv, InQueue
  <2>3. 1 \in 1..Len(fifo) /\ 1 < j
    BY <1>2, <2>2
  <2>4. ctx[w].tti # ctx[v].tti
    <3>1. \A i, n \in 1..Len(fifo) :
            i < n /\ ctx[fifo[i]].last /\ ~Transmitted(fifo[i]) =>
              ctx[fifo[i]].tti # ctx[fifo[n]].tti
      BY DEF BacklogInv
    <3>. QED BY <1>2, <2>2, <2>3, <3>1
  <2>5. /\ \A u \in Ttis : Distance(ctx[v].tti, sent) = Distance(u, sent) => ctx[v].tti = u
        /\ Distance(ctx[v].tti, sent) > 0 =>
             Distance(ctx[v].tti, TTI_ADD(sent, 1)) = Distance(ctx[v].tti, sent) - 1
    BY <1>1, DistanceFacts
  <2>6. Ahead(ctx[v].tti) # 1
    BY <1>1, <1>4, <2>4, <2>5 DEF Ahead
  <2>7. Ahead(ctx[v].tti)' = Ahead(ctx[v].tti) - 1
    BY <1>1, <1>4, <1>5, <2>1, <2>5 DEF Ahead
  <2>. QED BY <1>5, <2>1, <2>6, <2>7
<1>8. \A v \in Workers : Pending(v)' => Ahead(ctx[v].tti)' \in 1..Ahead(tti)'
  BY <1>5, <1>6, <1>7
<1>9. ASSUME NEW k \in 1..Manned'
      PROVE  \E v \in LastPool : Pending(v)' /\ ctx'[v].last /\ Ahead(ctx[v].tti)' = k
  <2>1. k + 1 \in 1..Manned
    BY <1>5
  <2>2. PICK v \in LastPool : Pending(v) /\ ctx[v].last /\ Ahead(ctx[v].tti) = k + 1
    BY <2>1 DEF BacklogInv
  <2>3. v \in Workers \ {w}
    BY <1>4, <2>1, <2>2, WorkerSets DEF LastPool
  <2>4. Ahead(ctx[v].tti)' = k /\ Pending(v)'
    BY <1>6, <1>7, <2>2, <2>3
  <2>. QED BY <1>1, <2>2, <2>4
<1>10. ~Pushed' => /\ Ahead(tti)' > 0
                   /\ \A v \in Workers : Pending(v)' /\ ctx'[v].last => ctx'[v].tti # tti'
  <2>1. ~Pushed => ctx[w].tti # tti
    BY <1>2, <1>3 DEF BacklogInv
  <2>2. ~Pushed => Ahead(tti) # 1
    <3>1. \A u \in Ttis : Distance(ctx[w].tti, sent) = Distance(u, sent) => ctx[w].tti = u
      BY <1>1, DistanceFacts
    <3>. QED BY <1>1, <1>4, <2>1, <3>1 DEF Ahead
  <2>. QED BY <1>1, <1>5, <1>6, <2>2 DEF BacklogInv
<1>11. \A i, j \in 1..Len(fifo') :
         i < j /\ ctx'[fifo'[i]].last /\ ~Transmitted(fifo[i])' =>
           ctx'[fifo'[i]].tti # ctx'[fifo'[j]].tti
  <2>1. \A i \in 1..Len(fifo) : fifo[i] \in Workers
    BY <1>2
  <2>2. \A i \in 1..Len(fifo) : ~Transmitted(fifo[i])' => ~Transmitted(fifo[i])
    BY <1>1, <1>2, <1>6, <2>1 DEF Transmitted
  <2>. QED BY <1>1, <2>2 DEF BacklogInv
<1>. QED BY <1>4, <1>5, <1>8, <1>9, <1>10, <1>11 DEF BacklogInv

\* The worker that leaves the FIFO has transmitted its TTI, or is not the last.
LEMMA ReleaseBacklog ==
  ASSUME IInv, BacklogInv, NEW w \in Workers, Release(w)
  PROVE  BacklogInv'
<1>1. /\ wpc[w] = "release" /\ fifo' = Tail(fifo)
      /\ \E to \in {"hold", "finish"} : wpc' = [wpc EXCEPT ![w] = to]
      /\ UNCHANGED <<rx, tti, lw, nw, status, ctx, sent>>
      /\ wpc \in [Workers -> WorkerPcs]
  BY Zenon DEF IInv, Release, Goto, TypeOK
<1>2. fifo # <<>> /\ fifo \in Seq(Workers) /\ fifo[1] = w /\ Distinct(fifo)
  BY <1>1 DEF IInv, QueueInv, FrontInv, FifoInv, HasTurn, TypeOK
<1>3. /\ ~Pending(w)' /\ (Pending(w) => ~ctx[w].last)
      /\ \A v \in Workers \ {w} : /\ Pending(v)' <=> Pending(v)
                                  /\ Transmitted(v)' <=> Transmitted(v)
  <2>1. ~Entered(w)'
    BY <1>1 DEF IInv, Entered, ControlInv, StatusInv
  <2>2. \A v \in Workers \ {w} : /\ Entered(v)' <=> Entered(v)
                                 /\ Transmitted(v)' <=> Transmitted(v)
    BY <1>1 DEF Entered, Transmitted
  <2>3. ctx[w].last => Transmitted(w)
    BY <1>1 DEF Transmitted
  <2>. QED BY <2>1, <2>2, <2>3 DEF Pending
<1>4. /\ Ahead(tti)' = Ahead(tti) /\ Manned' = Manned /\ (Pushed' <=> Pushed)
      /\ \A v : Ahead(ctx[v].tti)' = Ahead(ctx[v].tti)
  BY <1>1 DEF Ahead, Manned, Pushed
<1>5. \A v \in Workers : Pending(v)' => Ahead(ctx[v].tti)' \in 1..Ahead(tti)'
  BY <1>3, <1>4 DEF BacklogInv
<1>6. \A k \in 1..Manned' :
        \E v \in LastPool : Pending(v)' /\ ctx'[v].last /\ Ahead(ctx[v].tti)' = k
  <2>. SUFFICES ASSUME NEW k \in 1..Manned
                PROVE  \E v \in LastPool : Pending(v)' /\ ctx'[v].last /\ Ahead(ctx[v].tti)' = k
    BY <1>4
  <2>1. LastPool \subseteq Workers
    BY WorkerSets DEF LastPool
  <2>2. PICK v \in LastPool : Pending(v) /\ ctx[v].last /\ Ahead(ctx[v].tti) = k
    BY Zenon DEF BacklogInv
  <2>3. v \in Workers /\ v # w
    BY <1>3, <2>1, <2>2, Zenon
  <2>4. Pending(v)' /\ ctx'[v].last /\ Ahead(ctx[v].tti)' = k
    BY <1>1, <1>3, <1>4, <2>2, <2>3, Zenon
  <2>. QED BY <2>4
<1>7. ~Pushed' => /\ Ahead(tti)' > 0
                  /\ \A v \in Workers : Pending(v)' /\ ctx'[v].last => ctx'[v].tti # tti'
  <2>. SUFFICES ASSUME ~Pushed
                PROVE  /\ Ahead(tti) > 0
                       /\ \A v \in Workers : Pending(v)' /\ ctx[v].last => ctx[v].tti # tti
    BY <1>1, <1>4
  <2>1. Ahead(tti) > 0 /\ \A v \in Workers : Pending(v) /\ ctx[v].last => ctx[v].tti # tti
    BY Zenon DEF BacklogInv
  <2>. QED BY <1>3, <2>1, Zenon
<1>8. ASSUME NEW i \in 1..Len(fifo'), NEW j \in 1..Len(fifo'), i < j,
             ctx'[fifo'[i]].last, ~Transmitted(fifo[i])'
      PROVE  ctx'[fifo'[i]].tti # ctx'[fifo'[j]].tti
  <2>1. /\ Len(fifo) \in Nat /\ Len(fifo') = Len(fifo) - 1
        /\ \A n \in 1..(Len(fifo) - 1) : fifo'[n] = fifo[n + 1]
    BY <1>1, <1>2, PopFacts
  <2>2. /\ i + 1 \in 1..Len(fifo) /\ j + 1 \in 1..Len(fifo) /\ i + 1 < j + 1
        /\ fifo'[i] = fifo[i + 1] /\ fifo'[j] = fifo[j + 1]
        /\ fifo[i + 1] \in Workers \ {w}
    BY <1>2, <1>8, <2>1 DEF Distinct
  <2>3. ~Transmitted(fifo[i + 1])
    <3>1. PICK v \in Workers \ {w} : v = fifo[i + 1] /\ v = fifo'[i]
      BY <2>2
    <3>2. ~Transmitted(v)'
      BY <1>8, <3>1 DEF Transmitted
    <3>. QED BY <1>3, <3>1, <3>2
  <2>4. ctx[fifo[i + 1]].last /\ ctx' = ctx
    BY <1>1, <1>8, <2>2, Zenon
  <2>5. ctx[fifo[i + 1]].tti # ctx[fifo[j + 1]].tti
    BY <2>2, <2>3, <2>4, Zenon DEF BacklogInv
  <2>. QED BY <2>2, <2>4, <2>5, Zenon
<1>. QED BY <1>5, <1>6, <1>7, <1>8 DEF BacklogInv
=============================================================================
