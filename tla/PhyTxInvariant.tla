---------------------------- MODULE PhyTxInvariant ---------------------------
(***************************************************************************)
(* The inductive invariant of the subframe pipeline, for any number of LTE *)
(* and NR workers, any TTI modulus and any delay; the facts about TTI      *)
(* arithmetic, the semaphore's queue and the pool that its proof rests on; *)
(* and the proof that the steps of the TXRX thread (txrx::run_thread) keep *)
(* it.                                                                     *)
(***************************************************************************)
EXTENDS PhyTxPipeline, TLAPS

InQueue(q, w) == \E i \in 1..Len(q) : q[i] = w
Distinct(q)   == \A i, j \in 1..Len(q) : q[i] = q[j] => i = j

\* Where a worker's thread is, given its status in the pool.
StatusInv ==
  \A w \in Workers :
    /\ status[w] \in {"IDLE", "WORKER_READY", "START_WORK"} => wpc[w] = "wait"
    /\ status[w] = "WORKING" => wpc[w] \notin {"wait", "exit"}
    /\ status[w] = "STOP" => wpc[w] \in {"wait", "exit", "hold", "finish"} /\ rx = "done"
    /\ wpc[w] \in {"sync", "sched"} => w \in Nr

\* The workers the TXRX thread has taken and not yet started.
LteTaken == {"nr", "push_nr", "start_nr", "push_lte", "start_lte"}
NrTaken  == {"push_nr", "start_nr"}

RxInv ==
  /\ rx = "lte" => NofLte > 0
  /\ rx \in {"push_lte", "start_lte"} => lw \in Lte
  /\ rx \in LteTaken /\ NofLte > 0 => lw \in Lte /\ status[lw] = "WORKER_READY"
  /\ rx \in NrTaken => nw \in Nr /\ status[nw] = "WORKER_READY"
  /\ \A w \in Workers : status[w] = "WORKER_READY" =>
        \/ w = lw /\ rx \in LteTaken
        \/ w = nw /\ rx \in NrTaken

\* phy::stop joins the TXRX thread and drains the FIFO before it stops a pool.
StopInv ==
  /\ stop \notin {"run", "join_rx"} => rx = "done"
  /\ stop \notin {"run", "join_rx", "wait_all"} => fifo = <<>>
  /\ stop \in {"run", "join_rx", "wait_all", "stop_lte"} =>
       /\ \A p \in Pools : pool_running[p]
       /\ \A w \in Workers : status[w] # "STOP"

\* The workers in the FIFO are those entered and not yet past release().
Entered(w) ==
  \/ status[w] = "WORKER_READY" /\ w = lw /\ rx = "start_lte"
  \/ status[w] = "WORKER_READY" /\ w = nw /\ rx = "start_nr"
  \/ status[w] = "START_WORK"
  \/ status[w] = "WORKING" /\ wpc[w] \notin {"hold", "finish"}

FifoInv ==
  /\ Distinct(fifo)
  /\ \A w \in Workers : InQueue(fifo, w) <=> Entered(w)

\* Only the front of the FIFO is between wait() and release().
HasTurn(w) == wpc[w] \in {"combine", "tx", "last", "release"}

FrontInv ==
  \A w \in Workers : HasTurn(w) => /\ fifo # <<>> /\ fifo[1] = w
                                   /\ wpc[w] \in {"tx", "last"} => ctx[w].last

\* The same two facts for slot_sync.
Unscheduled(w) ==
  w \in Nr /\ (status[w] = "START_WORK" \/ wpc[w] \in {"work", "sync", "sched"})

SyncInv ==
  /\ Distinct(slot_sync)
  /\ \A w \in Workers : InQueue(slot_sync, w) <=> Unscheduled(w)
  /\ \A w \in Workers : wpc[w] = "sched" => slot_sync # <<>> /\ slot_sync[1] = w

\* The TTIs along the FIFO.  After(w) is the TTI of what is entered next
\* after w, NextPush that of the TXRX thread's next entry, and Due(t) says
\* that t is the TTI whose transmission comes next.
After(w)  == IF ctx[w].last THEN TTI_ADD(ctx[w].tti, 1) ELSE ctx[w].tti
Pushed    == rx \in {"head", "done", "start_lte"} \/ (rx = "start_nr" /\ NofLte = 0)
NextPush  == IF Pushed THEN TTI_ADD(tti, 1) ELSE tti
Due(t)    == TTI_ADD(t, Delay) = TTI_ADD(sent, 1)
Transmitted(w) == ctx[w].last /\ wpc[w] \in {"last", "release"}

OrderInv ==
  /\ \A i \in 1..(Len(fifo) - 1) : ctx[fifo[i+1]].tti = After(fifo[i])
  /\ fifo # <<>> => /\ After(fifo[Len(fifo)]) = NextPush
                    /\ Transmitted(fifo[1]) => Due(After(fifo[1]))
                    /\ ~Transmitted(fifo[1]) => Due(ctx[fifo[1]].tti)
  /\ fifo = <<>> => Due(NextPush)

\* A worker past its work has its own TTI in its buffer, and the buffers
\* tx_buffer points to belong to workers that have not got away.
BufInv ==
  \A w \in Workers :
    tx_enable[w] /\ wpc[w] \in {"turn", "combine", "tx", "last", "release", "hold"} =>
      buf[w] = TxTti(w)

TxBufferInv ==
  /\ \A w \in tx_buffer :
       /\ tx_enable[w]
       /\ Due(ctx[w].tti)
       /\ \/ wpc[w] = "tx"
          \/ wpc[w] \in {"release", "hold"} /\ ~ctx[w].last /\ tx_hold
  /\ \A w \in Workers : Transmitted(w) => tx_buffer = {}

\* The inductive invariant, in the groups the proof treats together.
ControlInv == StatusInv /\ RxInv /\ StopInv
QueueInv   == FifoInv /\ FrontInv
SampleInv  == BufInv /\ TxBufferInv /\ TxCoherent

IInv == TypeOK /\ ControlInv /\ QueueInv /\ SyncInv /\ OrderInv /\ SampleInv

\* Z3 and then Zenon get half a minute for a leaf.
USE SMTT(30), ZenonT(30)

----------------------------------------------------------------------------
(* TTI arithmetic *)

\* Reduction modulo TtiMod of a number below twice the modulus, the only kind
\* TTI_ADD and TTI_SUB are given.
LEMMA ModSmall ==
  ASSUME NEW x \in Nat, x < 2 * TtiMod
  PROVE  /\ x < TtiMod => x % TtiMod = x
         /\ x >= TtiMod => x % TtiMod = x - TtiMod
<1>1. TtiMod \in Nat /\ TtiMod > 0
  BY TtiAssumption
<1>2. CASE x < TtiMod
  BY <1>1, <1>2
<1>3. CASE x >= TtiMod
  BY <1>1, <1>3
<1>. QED BY <1>1, <1>2, <1>3

\* Reduction modulo TtiMod of a number below three times the modulus.
LEMMA ModThree ==
  ASSUME NEW x \in Nat, x < 3 * TtiMod
  PROVE  x % TtiMod = IF x < TtiMod THEN x
                      ELSE IF x < 2 * TtiMod THEN x - TtiMod ELSE x - 2 * TtiMod
<1>1. TtiMod \in Nat /\ TtiMod > 0
  BY TtiAssumption
<1>2. CASE x < 2 * TtiMod
  BY <1>1, <1>2, ModSmall
<1>3. CASE x >= 2 * TtiMod
  BY <1>1, <1>3
<1>. QED BY <1>1, <1>2, <1>3

Wrap(x) == IF x < TtiMod THEN x ELSE x - TtiMod

\* Adding to a TTI gives a TTI (TTI_ADD of common.h).
LEMMA AddType ==
  ASSUME NEW a \in Ttis, NEW b \in Nat, b < TtiMod
  PROVE  TTI_ADD(a, b) \in Ttis /\ TTI_ADD(a, b) = Wrap(a + b)
  BY ModSmall, TtiAssumption DEF Ttis, TTI_ADD, Wrap

\* Subtracting from a TTI gives a TTI (TTI_SUB of common.h).
LEMMA SubType ==
  ASSUME NEW b \in Nat, b < TtiMod
  PROVE  /\ TTI_SUB(0, b) \in Ttis
         /\ b > 0 => TTI_SUB(0, b) = TtiMod - b
  BY ModSmall, TtiAssumption DEF Ttis, TTI_SUB

\* Advancing by one TTI and by the transmit delay commute.
LEMMA AddCommutes ==
  ASSUME NEW t \in Ttis
  PROVE  TTI_ADD(TTI_ADD(t, 1), Delay) = TTI_ADD(TTI_ADD(t, Delay), 1)
<1>1. 1 \in Nat /\ 1 < TtiMod /\ Delay \in Nat /\ Delay < TtiMod
  BY TtiAssumption
<1>2. TTI_ADD(t, 1) \in Ttis /\ TTI_ADD(t, 1) = Wrap(t + 1)
  BY <1>1, AddType
<1>3. TTI_ADD(t, Delay) \in Ttis /\ TTI_ADD(t, Delay) = Wrap(t + Delay)
  BY <1>1, AddType
<1>4. TTI_ADD(TTI_ADD(t, 1), Delay) = Wrap(Wrap(t + 1) + Delay)
  BY <1>1, <1>2, AddType
<1>5. TTI_ADD(TTI_ADD(t, Delay), 1) = Wrap(Wrap(t + Delay) + 1)
  BY <1>1, <1>3, AddType
<1>6. Wrap(Wrap(t + 1) + Delay) = Wrap(Wrap(t + Delay) + 1)
  BY TtiAssumption DEF Wrap, Ttis
<1>. QED BY <1>4, <1>5, <1>6

\* Different TTIs have different successors.
LEMMA SuccInjective ==
  ASSUME NEW s \in Ttis, NEW t \in Ttis, TTI_ADD(s, 1) = TTI_ADD(t, 1)
  PROVE  s = t
<1>1. 1 \in Nat /\ 1 < TtiMod
  BY TtiAssumption
<1>2. TTI_ADD(s, 1) = Wrap(s + 1) /\ TTI_ADD(t, 1) = Wrap(t + 1)
  BY <1>1, AddType
<1>. QED BY <1>2, TtiAssumption DEF Ttis, Wrap

\* What the proofs use of TTI arithmetic modulo the frame counter.
LEMMA TtiFacts ==
  /\ 0 \in Ttis /\ 1 \in Nat /\ 1 < TtiMod /\ Delay \in Nat /\ Delay < TtiMod
  /\ \A t \in Ttis : TTI_ADD(t, 1) \in Ttis /\ TTI_ADD(t, Delay) \in Ttis
<1>1. 0 \in Ttis /\ 1 \in Nat /\ 1 < TtiMod /\ Delay \in Nat /\ Delay < TtiMod
  BY TtiAssumption DEF Ttis
<1>. QED BY <1>1, AddType

----------------------------------------------------------------------------
(* Workers and queues *)

\* The two pools are disjoint sets of positive worker numbers.
LEMMA WorkerSets ==
  /\ Lte \cap Nr = {} /\ Lte \subseteq Workers /\ Nr \subseteq Workers
  /\ Workers \subseteq Lte \cup Nr
  /\ NofLte > 0 <=> Lte # {}
  /\ NofNr > 0 <=> Nr # {}
  /\ NoWorker \notin Workers
<1>1. NofLte > 0 => 1 \in Lte
  BY PoolAssumption DEF Lte
<1>2. NofNr > 0 => NofLte + 1 \in Nr
  BY PoolAssumption DEF Nr
<1>. QED BY PoolAssumption, <1>1, <1>2 DEF Lte, Nr, Workers, NoWorker

\* What tti_semaphore::push does to a queue of different workers.
LEMMA PushFacts ==
  ASSUME NEW S, NEW q \in Seq(S), NEW v \in S
  PROVE  /\ Append(q, v) \in Seq(S)
         /\ Append(q, v) # <<>>
         /\ Len(Append(q, v)) = Len(q) + 1
         /\ \A i \in 1..Len(q) : Append(q, v)[i] = q[i]
         /\ Append(q, v)[Len(q) + 1] = v
         /\ \A w : InQueue(Append(q, v), w) <=> InQueue(q, w) \/ w = v
         /\ Distinct(q) /\ ~InQueue(q, v) => Distinct(Append(q, v))
  BY DEF InQueue, Distinct

\* What tti_semaphore::release does to it.
LEMMA PopFacts ==
  ASSUME NEW S, NEW q \in Seq(S), q # <<>>, Distinct(q)
  PROVE  /\ Tail(q) \in Seq(S)
         /\ Len(Tail(q)) = Len(q) - 1
         /\ Len(q) \in Nat /\ Len(q) > 0
         /\ Tail(q) = <<>> <=> Len(q) = 1
         /\ \A i \in 1..(Len(q) - 1) : Tail(q)[i] = q[i + 1]
         /\ \A w : InQueue(Tail(q), w) <=> InQueue(q, w) /\ w # q[1]
         /\ Distinct(Tail(q))
<1>1. /\ Tail(q) \in Seq(S) /\ Len(Tail(q)) = Len(q) - 1 /\ Len(q) \in Nat /\ Len(q) > 0
      /\ \A i \in 1..(Len(q) - 1) : Tail(q)[i] = q[i + 1]
  OBVIOUS
<1>2. \A s \in Seq(S) : Len(s) = 0 <=> s = <<>>
  OBVIOUS
<1>3. Tail(q) = <<>> <=> Len(q) = 1
  <2>1. Len(Tail(q)) = 0 <=> Len(q) = 1
    BY <1>1
  <2>2. Len(Tail(q)) = 0 <=> Tail(q) = <<>>
    BY <1>1, <1>2, Zenon
  <2>. QED BY <2>1, <2>2
<1>4. ASSUME NEW w, InQueue(Tail(q), w)
      PROVE  InQueue(q, w) /\ w # q[1]
  BY <1>1, <1>4 DEF InQueue, Distinct
<1>5. ASSUME NEW w, InQueue(q, w), w # q[1]
      PROVE  InQueue(Tail(q), w)
  <2>1. PICK i \in 1..Len(q) : q[i] = w
    BY <1>5 DEF InQueue
  <2>2. i - 1 \in 1..Len(Tail(q)) /\ Tail(q)[i - 1] = w
    BY <1>1, <1>5, <2>1
  <2>. QED BY <2>2 DEF InQueue
<1>6. Distinct(Tail(q))
  BY <1>1 DEF Distinct
<1>. QED BY <1>1, <1>3, <1>4, <1>5, <1>6

\* The front of a queue is in it.
LEMMA FrontFacts ==
  ASSUME NEW S, NEW q \in Seq(S)
  PROVE  /\ q # <<>> => q[1] \in S /\ Head(q) = q[1] /\ InQueue(q, q[1])
         /\ \A w : InQueue(q, w) => q # <<>>
         /\ \A w : ~InQueue(<<>>, w)
  BY DEF InQueue

----------------------------------------------------------------------------
(* The inductive invariant *)

USE DEF rxVars, poolVars, workVars, txVars

\* What the steps below need of the type invariant and of the worker sets.
LEMMA FunFacts ==
  ASSUME IInv
  PROVE  /\ DOMAIN status = Workers /\ DOMAIN wpc = Workers /\ DOMAIN ctx = Workers
         /\ DOMAIN tx_enable = Workers /\ DOMAIN buf = Workers
         /\ status = [w \in Workers |-> status[w]] /\ wpc = [w \in Workers |-> wpc[w]]
         /\ ctx = [w \in Workers |-> ctx[w]]
         /\ tx_enable = [w \in Workers |-> tx_enable[w]] /\ buf = [w \in Workers |-> buf[w]]
         /\ Lte \cap Nr = {} /\ Workers = Lte \cup Nr /\ (NofLte > 0 <=> Lte # {})
         /\ lw \in Workers => lw \in Lte
         /\ nw \in Workers => nw \in Nr
  BY WorkerSets DEF IInv, TypeOK

\* While the TXRX thread runs no pool has been stopped, so wait_worker never
\* returns a null pointer to it.
LEMMA RxWaitFacts ==
  ASSUME IInv
  PROVE  /\ RxWaitLte => \E v \in Lte : /\ status[v] = "IDLE"
                                        /\ status' = [status EXCEPT ![v] = "WORKER_READY"]
                                        /\ lw' = v /\ UNCHANGED <<running, nw>>
                                        /\ rx' = IF NofNr > 0 THEN "nr" ELSE "push_lte"
         /\ RxWaitNr => \E v \in Nr : /\ status[v] = "IDLE"
                                      /\ status' = [status EXCEPT ![v] = "WORKER_READY"]
                                      /\ nw' = v /\ UNCHANGED <<running, lw>>
                                      /\ rx' = "push_nr"
<1>1. rx \in {"lte", "nr"} => pool_running["lte"] /\ pool_running["nr"]
  BY DEF IInv, ControlInv, StopInv, Pools, TypeOK, StopPcs
<1>. QED BY <1>1 DEF RxWaitLte, RxWaitNr, WaitWorker, FinishedWorker

\* Once wait_all has returned no worker is in the FIFO or on its way to it.
LEMMA Drained ==
  ASSUME IInv, stop \notin {"run", "join_rx", "wait_all"}
  PROVE  /\ rx = "done" /\ fifo = <<>>
         /\ \A w \in Workers :
              /\ ~InQueue(fifo, w)
              /\ status[w] \in {"IDLE", "STOP", "WORKING"}
              /\ status[w] = "WORKING" => wpc[w] \in {"hold", "finish"}
<1>1. rx = "done" /\ fifo = <<>>
  BY DEF IInv, ControlInv, StopInv
<1>2. \A w \in Workers : ~InQueue(fifo, w)
  BY <1>1 DEF InQueue
<1>3. \A w \in Workers : status[w] \in Statuses /\ status[w] # "WORKER_READY"
  BY <1>1 DEF IInv, ControlInv, RxInv, TypeOK, LteTaken, NrTaken
<1>. QED BY <1>1, <1>2, <1>3 DEF IInv, QueueInv, FifoInv, Entered, Statuses

\* A step that leaves the FIFO, the TXRX thread's TTI and the contexts and the
\* progress of the workers in the FIFO alone does not disturb the order.
LEMMA OrderUnchanged ==
  ASSUME IInv, UNCHANGED <<fifo, sent, rx, tti>>,
         \A v \in Workers : InQueue(fifo, v) =>
             ctx'[v] = ctx[v] /\ (Transmitted(v)' <=> Transmitted(v))
  PROVE  OrderInv'
<1>1. fifo \in Seq(Workers) /\ Len(fifo) \in Nat /\ OrderInv
  BY DEF IInv, TypeOK
<1>2. fifo' = fifo /\ sent' = sent /\ NextPush' = NextPush
  BY DEF NextPush, Pushed
<1>3. ASSUME NEW i \in 1..Len(fifo)
      PROVE  /\ ctx'[fifo'[i]] = ctx[fifo[i]]
             /\ After(fifo[i])' = After(fifo[i])
             /\ Transmitted(fifo[i])' <=> Transmitted(fifo[i])
  <2>1. PICK v \in Workers : v = fifo[i] /\ v = fifo'[i] /\ InQueue(fifo, v)
    BY <1>1, <1>2 DEF InQueue
  <2>2. ctx'[v] = ctx[v] /\ (Transmitted(v)' <=> Transmitted(v))
    BY <2>1
  <2>3. After(v)' = After(v)
    BY <2>2 DEF After
  <2>4. After(fifo[i])' = After(v)' /\ (Transmitted(fifo[i])' <=> Transmitted(v)')
    BY <2>1 DEF After, Transmitted
  <2>. QED BY <2>1, <2>2, <2>3, <2>4
<1>4. ASSUME NEW i \in 1..(Len(fifo) - 1)
      PROVE  ctx'[fifo'[i+1]].tti = After(fifo[i])'
  <2>1. i \in 1..Len(fifo) /\ i + 1 \in 1..Len(fifo)
    BY <1>1
  <2>2. ctx[fifo[i+1]].tti = After(fifo[i])
    BY <1>1 DEF OrderInv
  <2>. QED BY <1>3, <2>1, <2>2
<1>5. fifo = <<>> => Due(NextPush)'
  BY <1>1, <1>2 DEF OrderInv, Due
<1>6. ASSUME fifo # <<>>
      PROVE  /\ After(fifo[Len(fifo)])' = NextPush'
             /\ Transmitted(fifo[1])' => Due(After(fifo[1]))'
             /\ ~Transmitted(fifo[1])' => Due(ctx[fifo[1]].tti)'
  <2>1. 1 \in 1..Len(fifo) /\ Len(fifo) \in 1..Len(fifo)
    BY <1>1, <1>6
  <2>2. /\ After(fifo[Len(fifo)])' = After(fifo[Len(fifo)])
        /\ After(fifo[1])' = After(fifo[1]) /\ ctx'[fifo'[1]] = ctx[fifo[1]]
        /\ Transmitted(fifo[1])' <=> Transmitted(fifo[1])
    BY <1>2, <1>3, <2>1
  <2>3. /\ After(fifo[Len(fifo)]) = NextPush
        /\ Transmitted(fifo[1]) => Due(After(fifo[1]))
        /\ ~Transmitted(fifo[1]) => Due(ctx[fifo[1]].tti)
    BY <1>1, <1>6 DEF OrderInv
  <2>4. \A t, u : t = u => (TTI_ADD(t, Delay) = TTI_ADD(sent', 1) <=> Due(u))
    BY <1>2 DEF Due
  <2>. QED BY <1>2, <2>2, <2>3, <2>4 DEF Due
<1>. QED BY <1>2, <1>4, <1>5, <1>6 DEF OrderInv

\* When a worker leaves the FIFO the next one in it is the next due.
LEMMA ReleaseOrder ==
  ASSUME IInv, NEW w \in Workers, Release(w)
  PROVE  OrderInv'
<1>1. fifo # <<>> /\ fifo[1] = w /\ Due(After(w)) /\ fifo \in Seq(Workers) /\ Distinct(fifo)
  BY DEF IInv, TypeOK, QueueInv, FrontInv, FifoInv, HasTurn, OrderInv, Transmitted, After, Release
<1>2. /\ Len(fifo) \in Nat /\ Len(fifo) > 0 /\ Len(fifo') = Len(fifo) - 1
      /\ fifo' = <<>> <=> Len(fifo) = 1
      /\ \A i \in 1..(Len(fifo) - 1) : fifo'[i] = fifo[i+1] /\ fifo[i+1] \in Workers
  BY <1>1, PopFacts DEF Release
<1>3. UNCHANGED <<ctx, sent, rx, tti>> /\ \A v \in Workers : v # w => wpc'[v] = wpc[v]
  BY DEF Release, Goto, IInv, TypeOK
<1>4. /\ \A i \in 1..(Len(fifo) - 1) : ctx[fifo[i+1]].tti = After(fifo[i])
      /\ After(fifo[Len(fifo)]) = NextPush
  BY <1>1 DEF IInv, OrderInv
<1>5. \A i \in 1..(Len(fifo') - 1) : ctx'[fifo'[i+1]].tti = After(fifo[i])'
  BY <1>2, <1>3, <1>4 DEF After
<1>6. fifo' = <<>> => Due(NextPush)'
  BY <1>1, <1>2, <1>3, <1>4, Zenon DEF Due, NextPush, Pushed
<1>7. ASSUME fifo' # <<>>
      PROVE  /\ After(fifo[Len(fifo)])' = NextPush'
             /\ ~Transmitted(fifo[1])' /\ Due(ctx[fifo[1]].tti)'
  <2>1. Len(fifo) > 1 /\ fifo'[1] = fifo[2] /\ fifo[2] \in Workers /\ fifo[2] # w
    BY <1>1, <1>2, <1>7 DEF Distinct
  <2>2. fifo'[Len(fifo')] = fifo[Len(fifo)]
    BY <1>2, <2>1
  <2>3. After(fifo[Len(fifo)])' = NextPush'
    BY <1>3, <1>4, <2>2 DEF After, NextPush, Pushed
  <2>4. ~HasTurn(fifo[2])
    BY <1>1, <2>1 DEF IInv, QueueInv, FrontInv
  <2>5. ~Transmitted(fifo[1])'
    BY <1>3, <2>1, <2>4 DEF Transmitted, HasTurn
  <2>6. ctx[fifo[2]].tti = After(w)
    BY <1>1, <1>4, <2>1
  <2>. QED BY <1>1, <1>3, <2>1, <2>3, <2>5, <2>6 DEF Due
<1>. QED BY <1>5, <1>6, <1>7 DEF OrderInv

-----------------------------------------------------------------------------
(* The TXRX thread *)

\* The head of the loop of txrx::run_thread keeps the invariant.
LEMMA RxLoopStep ==
  ASSUME IInv, RxLoop
  PROVE  IInv'
<1>. USE DEF IInv, RxLoop
<1>1. TypeOK'
  BY TtiFacts DEF TypeOK, RxPcs
<1>2. ControlInv'
  BY DEF ControlInv, StatusInv, RxInv, StopInv, LteTaken, NrTaken
<1>3. QueueInv'
  BY DEF QueueInv, FifoInv, FrontInv, Entered, HasTurn
<1>4. SyncInv'
  BY DEF SyncInv, Unscheduled
<1>5. OrderInv'
  BY DEF OrderInv, After, Pushed, NextPush, Due, Transmitted
<1>6. SampleInv'
  BY DEF SampleInv, BufInv, TxBufferInv, TxCoherent, TxTti, Due, Transmitted
<1>. QED BY <1>1, <1>2, <1>3, <1>4, <1>5, <1>6

\* Taking an LTE worker from its pool keeps the invariant.
LEMMA RxWaitLteStep ==
  ASSUME IInv, RxWaitLte
  PROVE  IInv'
<1>. USE DEF IInv
<1>0. PICK v \in Lte :
        /\ rx = "lte" /\ status[v] = "IDLE"
        /\ status' = [status EXCEPT ![v] = "WORKER_READY"]
        /\ lw' = v /\ rx' = IF NofNr > 0 THEN "nr" ELSE "push_lte"
        /\ UNCHANGED <<running, nw, tti, pool_running, workVars, fifo, slot_sync, txVars, stop>>
  BY RxWaitFacts DEF RxWaitLte
<1>1. TypeOK'
  <2>1. status' \in [Workers -> Statuses] /\ rx' \in RxPcs
    BY <1>0, WorkerSets DEF TypeOK, Statuses, RxPcs
  <2>. QED BY <1>0, <2>1 DEF TypeOK
<1>2. ControlInv'
  <2>1. StatusInv'
    BY <1>0 DEF ControlInv, StatusInv
  <2>2. RxInv'
    BY <1>0, FunFacts DEF ControlInv, RxInv, LteTaken, NrTaken
  <2>3. StopInv'
    BY <1>0 DEF ControlInv, StopInv
  <2>. QED BY <2>1, <2>2, <2>3 DEF ControlInv
<1>3. QueueInv'
  BY <1>0 DEF QueueInv, FifoInv, FrontInv, Entered, HasTurn
<1>4. SyncInv'
  BY <1>0 DEF SyncInv, Unscheduled
<1>5. OrderInv'
  BY <1>0 DEF OrderInv, After, Pushed, NextPush, Due, Transmitted
<1>6. SampleInv'
  BY <1>0 DEF SampleInv, BufInv, TxBufferInv, TxCoherent, TxTti, Due, Transmitted
<1>. QED BY <1>1, <1>2, <1>3, <1>4, <1>5, <1>6

\* Taking an NR worker from its pool keeps the invariant.
LEMMA RxWaitNrStep ==
  ASSUME IInv, RxWaitNr
  PROVE  IInv'
<1>. USE DEF IInv
<1>0. PICK v \in Nr :
        /\ rx = "nr" /\ status[v] = "IDLE"
        /\ status' = [status EXCEPT ![v] = "WORKER_READY"]
        /\ nw' = v /\ rx' = "push_nr"
        /\ UNCHANGED <<running, lw, tti, pool_running, workVars, fifo, slot_sync, txVars, stop>>
  BY RxWaitFacts DEF RxWaitNr
<1>1. TypeOK'
  <2>1. status' \in [Workers -> Statuses] /\ rx' \in RxPcs
    BY <1>0, WorkerSets DEF TypeOK, Statuses, RxPcs
  <2>. QED BY <1>0, <2>1 DEF TypeOK
<1>2. ControlInv'
  <2>1. StatusInv'
    BY <1>0 DEF ControlInv, StatusInv
  <2>2. RxInv'
    BY <1>0, FunFacts DEF ControlInv, RxInv, LteTaken, NrTaken
  <2>3. StopInv'
    BY <1>0 DEF ControlInv, StopInv
  <2>. QED BY <2>1, <2>2, <2>3 DEF ControlInv
<1>3. QueueInv'
  BY <1>0 DEF QueueInv, FifoInv, FrontInv, Entered, HasTurn
<1>4. SyncInv'
  BY <1>0 DEF SyncInv, Unscheduled
<1>5. OrderInv'
  BY <1>0 DEF OrderInv, After, Pushed, NextPush, Due, Transmitted
<1>6. SampleInv'
  BY <1>0 DEF SampleInv, BufInv, TxBufferInv, TxCoherent, TxTti, Due, Transmitted
<1>. QED BY <1>1, <1>2, <1>3, <1>4, <1>5, <1>6

\* Entering worker w for the current TTI puts it, and its TTI, at the end of
\* the FIFO.
LEMMA PushStep ==
  ASSUME IInv, NEW w \in Workers, NEW pc, NEW last \in BOOLEAN, NEW next,
         RxPush(pc, w, last, next), status[w] = "WORKER_READY", ~Entered(w),
         ~Pushed, Pushed' <=> last
  PROVE  /\ fifo' \in Seq(Workers) /\ ctx' \in [Workers -> [tti : Ttis, last : BOOLEAN]]
         /\ Distinct(fifo')
         /\ \A v \in Workers : InQueue(fifo', v) <=> InQueue(fifo, v) \/ v = w
         /\ fifo' # <<>> /\ (fifo # <<>> => fifo'[1] = fifo[1])
         /\ OrderInv'
<1>. USE DEF IInv
<1>1. /\ fifo \in Seq(Workers) /\ Len(fifo) \in Nat
      /\ Distinct(fifo) /\ ~InQueue(fifo, w) /\ wpc[w] = "wait"
      /\ \A i \in 1..Len(fifo) : fifo[i] \in Workers /\ fifo[i] # w
  BY DEF TypeOK, QueueInv, FifoInv, InQueue, ControlInv, StatusInv
<1>2. /\ fifo' \in Seq(Workers) /\ fifo' # <<>> /\ Len(fifo') = Len(fifo) + 1
      /\ Distinct(fifo') /\ fifo'[Len(fifo) + 1] = w
      /\ \A i \in 1..Len(fifo) : fifo'[i] = fifo[i]
      /\ \A v \in Workers : InQueue(fifo', v) <=> InQueue(fifo, v) \/ v = w
  BY <1>1, PushFacts DEF RxPush
<1>3. fifo # <<>> => fifo'[1] = fifo[1] /\ fifo[1] \in Workers /\ fifo[1] # w
  BY <1>1, <1>2
<1>4. /\ ctx' = [ctx EXCEPT ![w] = [tti |-> tti, last |-> last]]
      /\ UNCHANGED <<tti, wpc, sent>>
      /\ tti \in Ttis /\ ctx \in [Workers -> [tti : Ttis, last : BOOLEAN]]
  BY DEF RxPush, TypeOK
<1>5. ctx' \in [Workers -> [tti : Ttis, last : BOOLEAN]]
  BY <1>4
<1>6. /\ ctx'[w].tti = tti /\ NextPush = tti /\ After(w)' = NextPush'
      /\ \A v \in Workers : v # w => ctx'[v] = ctx[v] /\ After(v)' = After(v)
                                   /\ Transmitted(v)' = Transmitted(v)
      /\ ~Transmitted(w)'
  BY <1>1, <1>4 DEF NextPush, After, Transmitted
<1>7. OrderInv'
  <2>1. \A i \in 1..(Len(fifo') - 1) : ctx'[fifo'[i+1]].tti = After(fifo[i])'
    <3>1. ASSUME NEW i \in 1..Len(fifo)
          PROVE  ctx'[fifo'[i+1]].tti = After(fifo[i])
      <4>1. CASE i = Len(fifo)
        BY <1>2, <1>6, <4>1 DEF OrderInv
      <4>2. CASE i < Len(fifo)
        BY <1>1, <1>2, <1>6 DEF OrderInv
      <4>. QED BY <4>1, <4>2
    <3>2. \A i \in 1..Len(fifo) : After(fifo[i])' = After(fifo[i])
      BY <1>1, <1>2, <1>6
    <3>. QED BY <1>2, <3>1, <3>2
  <2>2. After(fifo[Len(fifo)])' = NextPush'
    BY <1>2, <1>6
  <2>3. CASE fifo = <<>>
    BY <1>2, <1>4, <1>6, <2>3 DEF OrderInv, Due
  <2>4. CASE fifo # <<>>
    BY <1>2, <1>3, <1>4, <1>6, <2>1 DEF OrderInv, Due
  <2>. QED BY <2>3, <2>4
<1>. QED BY <1>2, <1>5, <1>7

\* Entering the NR worker of a TTI in the FIFO keeps the invariant.
LEMMA RxPushNrStep ==
  ASSUME IInv, RxPushNr
  PROVE  IInv'
<1>. USE DEF IInv, RxPushNr, RxPush
<1>0. /\ fifo' \in Seq(Workers) /\ ctx' \in [Workers -> [tti : Ttis, last : BOOLEAN]]
      /\ Distinct(fifo')
      /\ \A v \in Workers : InQueue(fifo', v) <=> InQueue(fifo, v) \/ v = nw
      /\ fifo' # <<>> /\ (fifo # <<>> => fifo'[1] = fifo[1])
      /\ OrderInv'
  <2>1. nw \in Workers /\ status[nw] = "WORKER_READY" /\ ~Entered(nw)
    BY FunFacts DEF ControlInv, RxInv, NrTaken, Entered
  <2>2. ~Pushed /\ (Pushed' <=> NofLte = 0) /\ (NofLte = 0) \in BOOLEAN
    BY DEF Pushed
  <2>. QED BY <2>1, <2>2, PushStep, ZenonT(60)
<1>1. TypeOK'
  BY <1>0 DEF TypeOK, RxPcs
<1>2. ControlInv'
  BY DEF ControlInv, StatusInv, RxInv, StopInv, LteTaken, NrTaken
<1>3. QueueInv'
  <2>1. nw \in Workers /\ status[nw] = "WORKER_READY" /\ wpc[nw] = "wait"
    BY FunFacts DEF ControlInv, StatusInv, RxInv, NrTaken
  <2>2. \A w \in Workers : Entered(w)' <=> Entered(w) \/ w = nw
    BY <2>1 DEF Entered
  <2>3. FrontInv'
    BY <2>1 DEF QueueInv, FrontInv, HasTurn
  <2>. QED BY <1>0, <2>2, <2>3 DEF QueueInv, FifoInv
<1>4. SyncInv'
  BY DEF SyncInv, Unscheduled
<1>6. SampleInv'
  BY FunFacts DEF SampleInv, BufInv, TxBufferInv, TxCoherent, TxTti, Due, Transmitted,
     ControlInv, StatusInv, RxInv, NrTaken
<1>. QED BY <1>0, <1>1, <1>2, <1>3, <1>4, <1>6

\* Starting the NR worker, which enters it in slot_sync, keeps the invariant.
LEMMA RxStartNrStep ==
  ASSUME IInv, RxStartNr
  PROVE  IInv'
<1>. USE DEF IInv, RxStartNr, StartWorker
<1>1. TypeOK'
  <2>1. nw \in Nr /\ Append(slot_sync, nw) \in Seq(Nr)
    BY DEF TypeOK, ControlInv, RxInv, NrTaken
  <2>. QED BY WorkerSets, <2>1 DEF TypeOK, RxPcs, Statuses
<1>2. ControlInv'
  BY FunFacts DEF ControlInv, StatusInv, RxInv, StopInv, LteTaken, NrTaken
<1>3. QueueInv'
  BY FunFacts DEF QueueInv, FifoInv, FrontInv, Entered, HasTurn, ControlInv, RxInv,
     NrTaken
<1>4. SyncInv'
  <2>1. nw \in Nr /\ status[nw] = "WORKER_READY" /\ wpc[nw] = "wait" /\
     ~InQueue(slot_sync, nw)
    BY FunFacts DEF SyncInv, Unscheduled, ControlInv, StatusInv, RxInv, NrTaken
  <2>2. /\ Distinct(slot_sync')
        /\ \A w \in Workers : InQueue(slot_sync', w) <=> InQueue(slot_sync, w) \/ w = nw
        /\ slot_sync' # <<>> /\ (slot_sync # <<>> => slot_sync'[1] = slot_sync[1])
    BY <2>1, PushFacts DEF SyncInv, Unscheduled, TypeOK
  <2>. QED BY FunFacts, <2>1, <2>2 DEF SyncInv, Unscheduled
<1>5. OrderInv'
  <2>1. nw \in Nr /\ NextPush' = NextPush
    BY PoolAssumption DEF Pushed, NextPush, ControlInv, RxInv, NrTaken
  <2>. QED BY <2>1 DEF OrderInv, After, Pushed, NextPush, Due, Transmitted
<1>6. SampleInv'
  BY DEF SampleInv, BufInv, TxBufferInv, TxCoherent, TxTti, Due, Transmitted
<1>. QED BY <1>1, <1>2, <1>3, <1>4, <1>5, <1>6

\* Entering the LTE worker of a TTI in the FIFO keeps the invariant.
LEMMA RxPushLteStep ==
  ASSUME IInv, RxPushLte
  PROVE  IInv'
<1>. USE DEF IInv, RxPushLte, RxPush
<1>0. /\ fifo' \in Seq(Workers) /\ ctx' \in [Workers -> [tti : Ttis, last : BOOLEAN]]
      /\ Distinct(fifo')
      /\ \A v \in Workers : InQueue(fifo', v) <=> InQueue(fifo, v) \/ v = lw
      /\ fifo' # <<>> /\ (fifo # <<>> => fifo'[1] = fifo[1])
      /\ OrderInv'
  <2>1. lw \in Workers /\ status[lw] = "WORKER_READY" /\ ~Entered(lw)
    BY FunFacts DEF ControlInv, RxInv, LteTaken, Entered
  <2>2. ~Pushed /\ Pushed'
    BY DEF Pushed
  <2>. QED BY <2>1, <2>2, PushStep, ZenonT(60)
<1>1. TypeOK'
  BY <1>0 DEF TypeOK, RxPcs
<1>2. ControlInv'
  BY DEF ControlInv, StatusInv, RxInv, StopInv, LteTaken, NrTaken
<1>3. QueueInv'
  <2>1. lw \in Workers /\ status[lw] = "WORKER_READY" /\ wpc[lw] = "wait"
    BY FunFacts DEF ControlInv, StatusInv, RxInv, LteTaken
  <2>2. \A w \in Workers : Entered(w)' <=> Entered(w) \/ w = lw
    BY <2>1 DEF Entered
  <2>3. FrontInv'
    BY DEF QueueInv, FrontInv, HasTurn
  <2>. QED BY <1>0, <2>2, <2>3 DEF QueueInv, FifoInv
<1>4. SyncInv'
  BY DEF SyncInv, Unscheduled
<1>6. SampleInv'
  BY FunFacts DEF SampleInv, BufInv, TxBufferInv, TxCoherent, TxTti, Due, Transmitted,
     ControlInv, StatusInv, RxInv, LteTaken
<1>. QED BY <1>0, <1>1, <1>2, <1>3, <1>4, <1>6

\* Starting the LTE worker keeps the invariant.
LEMMA RxStartLteStep ==
  ASSUME IInv, RxStartLte
  PROVE  IInv'
<1>. USE DEF IInv, RxStartLte, StartWorker
<1>1. TypeOK'
  BY WorkerSets, TtiFacts, Zenon DEF TypeOK, RxPcs, Statuses, WorkerPcs, StopPcs, NoContext
<1>2. ControlInv'
  BY FunFacts DEF ControlInv, StatusInv, RxInv, StopInv, LteTaken, NrTaken
<1>3. QueueInv'
  BY FunFacts DEF QueueInv, FifoInv, FrontInv, Entered, HasTurn, ControlInv, RxInv,
     LteTaken
<1>4. SyncInv'
  BY FunFacts DEF SyncInv, Unscheduled
<1>5. OrderInv'
  BY DEF OrderInv, After, Pushed, NextPush, Due, Transmitted
<1>6. SampleInv'
  BY DEF SampleInv, BufInv, TxBufferInv, TxCoherent, TxTti, Due, Transmitted
<1>. QED BY <1>1, <1>2, <1>3, <1>4, <1>5, <1>6
=============================================================================
