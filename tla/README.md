# TLA+ specifications of rt-mbms-tx

rt-mbms-tx is an LTE-based 5G Broadcast transmitter, derived from srsRAN 4G. MBMS
packets enter at the MBMS gateway (`srsepc`), travel over M1-U multicast to the eNodeB
(`srsenb`), and leave as PMCH subframes through a software radio. This directory holds
TLA+ models of its concurrent core, the TLC runs that check them on small instances, and
TLAPS proofs of the most important properties for every size.

## The system

| Part | State | Operations | What is hard |
|---|---|---|---|
| TXRX thread, PHY worker pools (`srsenb/src/phy/txrx.cc`, `lib/src/common/thread_pool.cc`) | TTI, status of each worker, two FIFOs, `tx_buffer`, `tx_hold` | take a TTI, start a worker, make a subframe, combine, transmit, stop | workers finish in any order; samples are combined by pointer; orderly stop |
| Timers (`lib/include/srsran/common/timers.h`) | wheel, free list, clock | set, run, stop, release, `defer_callback`, `step_all` | callbacks run unlocked in the middle of the walk |
| MBSFN subframes (`srsenb/src/phy/phy_common.cc`) | configuration | classify a TTI | PHY and MAC classify independently |
| MBMS scheduling (`srsenb/src/stack/mac/mac.cc`, `ue.cc`, RLC UM) | plan of the period, counters, shared buffers | report, plan, fetch, generate, encode | several PHY workers share MAC's structures under a read lock |
| Start-up (`srsenb/src/enb.cc`, `enb_stack_lte.cc`, `task_scheduler.h`) | task queues, configuration flags | initialise, defer, run, configure | two threads, order left open |
| Stack thread, metrics hub, main (`enb_stack_lte.cc`, `multiqueue.h`, `metrics_hub.h`, `main.cc`) | bounded queues, what each thread waits for | push, pop, ask for metrics, signal, join | full queues; threads are joined one after the other |
| RXsockets thread (`lib/src/common/network_utils.cc`) | registered sockets, set of descriptors, control pipe | select, read, push, add, remove, stop | waits for a queue with the mutex held |
| S1AP connection (`s1ap.cc`, `stack_procedure.h`) | socket, set-up procedure, two timers | launch, connect, send, answer, time out, close | late answers, lost associations, retries |
| GTP-U (`upper/gtpu.cc`) with LTE RRC's calls (`rrc_mobility.cc`, `rrc_bearer_cfg.cc`, `rrc_ue.cc`) | tunnels, forwarding, buffers | add, remove, activate, suspend, forward, change RNTI | End Markers, timers, removal from callbacks |
| M1-U, PDCP, MBMS-GW | no state of interest on the MBMS path | | |
| MAC scheduler, RLC, rest of RRC and S1AP, EPC | UE contexts, procedures, HARQ | | retries, late answers, UE removal |
| Signal processing, ASN.1, logging, parsing, drivers | | | not for a model checker |

## Modules

| Module | Models | State and actions |
|---|---|---|
| `PhyTxPipeline` | TXRX loop, both worker pools, `tti_semaphore`, `worker_end`, `phy::stop` | program counters of the TXRX thread (`rx`), of each worker (`wpc`) and of the stopping thread (`stop`); one action per blocking or shared access |
| `TtiTransmitter` | what the pipeline promises, without threads | last TTI taken, last TTI sent |
| `Timers` | `timer_handler` and its intrusive lists | a sequence per slot; `step_all` is a walk that is interrupted by callbacks |
| `MbsfnSubframes` | `is_mch_subframe`, `is_mcch_subframe`, `generate_mcch_table` | operators only; `MCMbsfnSubframes` walks through the TTIs |
| `MchScheduling` | `build_mch_sched`, `get_mch_sched`, `generate_mch_pdu` with RLC and the PHY workers | a program counter per worker, one step per access to shared state; `MCMchScheduling` adds the symmetry of the workers |
| `MbsfnStartup` | `enb::init`, stack thread, deferred configuration | three threads and the task counts |
| `TaskQueues` | `multiqueue_handler`: push, try_push, wait_pop, stop | a sequence of tasks per queue, and the active flag |
| `RxSockets` | `socket_manager` (RXsockets thread), `make_sdu_handler` and its tasks | a program counter (`rx`), the pipe, the thread's set and the registry |
| `S1Connection` | S1AP's connection to the MME and its set-up procedure | procedure, timers, socket; `pc` says what the stack thread is in the middle of |
| `EnbStack` | the three composed with the stack thread, the TXRX thread's TTI tasks, the metrics hub, the signal and main's shutdown | `MCEnbStack` has the capacities |
| `EnbStackProofs` | the proofs about `EnbStack` | |
| `Gtpu` | `gtpu_tunnel_manager`, the handlers of `gtpu`, RRC's calls to them | tunnels by TEID, the list of each RNTI, what RRC remembers; a handler is one step, as all of them run on the stack thread |
| `PhyTxInvariant`, `PhyTxProofs` | the proofs about `PhyTxPipeline` | |
| `PhyTxBacklog`, `PhyTxRefinement` | the proofs that `PhyTxPipeline` implements `TtiTransmitter` and of `SchedInSlotOrder` | |
| `TimersInvariant`, `TimersProofs` | the proofs about `Timers` | |
| `MchProofs` | the proofs about `MbsfnSubframes` and `MchScheduling` | |

How data is abstracted: samples are the TTI they were made for; MBMS data is a sequence
of numbered units and a transport block holds `UnitsPerSf` of them, so that the headers of
RLC and MAC, for which `build_mch_sched` leaves six bytes and `get_mch_sched` two, are not
told apart; messages are tasks in a queue. The steps of a PHY worker are its accesses to what
other threads write: `build_mch_sched` reads `lcid_buffer_size` twice, with only the read lock
held, and RLC may report in between, so `TotalBytes` and `BuildMchSched` are two steps. The
two mentions of it in the expression for `requested_bytes` are one read, as in the optimised
build that is the default. An SDU for which RLC has no room is dropped and gets no number. `Finished` and `WorkerEnd` reset what no one
reads any more, to keep states equal that behave equally.

`TTI_ADD`, the frame counter and the timer clock keep their wrap-around, with a modulus
given as a constant. `MbsfnSubframes` assumes that the MCCH period is not 256 frames: the
code keeps it in eight bits and divides by it.

## Runs

| Run | Instance | Shows |
|---|---|---|
| `phy_tx` | 2 LTE and 2 NR workers, modulus 3 | TTIs are transmitted once and in order (`TxInOrder`); samples on the air were made for their TTI (`TxCoherent`); the NR scheduler is called in slot order (`SchedInSlotOrder`); stop drains the FIFO before it stops a pool (`NothingLeftAtStop`) |
| `phy_live` | 2 LTE and 1 NR worker, fair | the pipeline implements `TtiTransmitter` (`ImplementsTransmitter`) and its fairness (`EveryTtiSent`: nothing taken is left unsent); `phy::stop` returns (`StopReturns`) |
| `timers` | 2 timers, 2 slots, several durations | wheel, counter and free list agree with the timers' states whatever callbacks do (`WheelConsistent`, `FreeListConsistent`); no timer is missed (`ElapsedWithinDuration`) and none is called early or after a stop (`OnlyExpiredCalled`), provided callbacks leave the next timer of the slot alone and arm none for one tic |
| `timers_stopped` | 2 timers | the first proviso is needed (see Findings) |
| `mbsfn_subframes` | the code's values, all 10240 TTIs | numbering without gaps; PHY and MAC choose the same coding scheme |
| `mch_one_worker` | 1 worker, a period of 2 frames with 3 PMCH subframes, 9 units, a queue of 8, fair | data RLC accepts goes out once, in order, within the announced subframes, as planned, and all of it in the end |
| `mch_shared` | 2 workers | the shared `mch` and payload buffer do race (see Findings) |
| `mbsfn_startup` | 3 tasks, SIB2 with and without a list of MBSFN subframes, fair | unless radio or PHY fail to start, the configuration arrives without any message from the network (`ConfigurationArrives`) |
| `mbsfn_tables` | | it may arrive too late for the MCCH table (see Findings) |
| `enb_stack` | 5 queues of one task, two for S1AP | S1AP is never left without something that takes it further (`NeverForgotten`); it holds an MME for connected only while it can hear it (`ConnectedIsHeard`); commands, registry and set of the RXsockets thread agree, whatever the order (`ManagerConsistent`) |
| `enb_live` | 5 queues of one task, fair | S1AP connects or tries again for ever (`Retries`); an accepted metrics request is answered (`MetricsAnswered`); after a signal every thread is joined (`StopReturns`) |
| `gtpu` | 2 RNTIs, 2 bearers, 3 tunnels per UE, 5 in all, buffers of one SDU | tunnels and lists agree (`DbConsistent`); forwarding is a relation between two tunnels of one bearer (`ForwardingPaired`); a tunnel that may be activated has its buffer (`BufferThere`); the new path waits for the old one (`FlushedFirst`), and something is left that ends the wait (`SomeoneActivates`); no SDU stays in a buffer that is no longer filled (`NothingStranded`); a UE that came back is served here (`ServedHere`); a source tunnel ends with an End Marker that was sent, or that could not be sent in two attempts (`EndMarkerSent`) |

Bounds. Two workers of each kind are enough for an NR worker of the next TTI to meet a
held one, and for workers to finish in the wrong order; the proofs cover other numbers. The
modulus is small, so that the TTI wraps with workers on both sides of the wrap. Two slots
and a clock of six tics let timers of different turns share a slot and let the clock
wrap. Nine units, two per subframe and two subframes for them leave a period full, partly
filled and empty; the queue of eight can double between the two reads of `build_mch_sched`, so
that it plans twice the subframes there are, and can overflow. Queues
of one task are full at once, so that every wait for room happens; the second task of
S1AP's queue lets messages of an old association be handled on a new one. Tunnels for three
of a UE's four E-RAB paths, and five for two UEs that could want eight, make both limits
bite in the middle of a handover; `MaxTeid` ends a history after four or more tunnels, and
is why `gtpu` does without the deadlock check: a state in which nothing but an allocation is
left has no successor. That is the only run without it. `PhyTxPipeline` and `EnbStack`
stutter explicitly once everything has been joined, `EnbStack` in a deadlock of the code
too, described below.

Fairness. Each thread of the process is weakly fair: the operating system schedules it,
and the calls it makes to the radio return. So does `tti_clock` in `PhyTxPipeline`, whose TXRX
thread never waits for the stack thread; `EnbStack` has that wait. Nobody is obliged to call `phy::stop`, the
network need not send anything, and the gateway need not either. In `MbsfnStartup` the
three threads are fair and `Receive` is not.

In `EnbStack` the stack thread, the RXsockets thread, the TXRX thread, the hub and main are
weakly fair. The TXRX thread tests `running`, and the hub `run_enable`, a step before the call
that may block, so that a stop finds them inside it. `wait_pop` takes from the queues in turn, so a task that is at the front of its
queue again and again is run (strong fairness of the metrics and stop tasks), and a
running timer expires (strong fairness of the two timers). The network owes nothing.

The three properties of `enb_live` are stated up to `Wedged`. The RXsockets thread keeps
`socket_mutex` while it waits for room in a queue that only the stack thread empties, and
the stack thread takes the mutex to add or remove a socket and to stop; the thread also
spins while a descriptor closed behind its back is in its set, and blocks when it reads one
that has been opened again and has nothing to read. `Wedged` is the stack thread waiting for
an RXsockets thread in one of these states. The queues of the code hold 512 tasks, and
`signal_handler.cc` forces the exit five seconds after a signal, so this bounds what the
program promises; nothing in the repository says that it cannot happen.

Three observations are named by history variables or by a condition, not assumed away. In
`Timers`, `careful` tells users that keep both provisos from those that do not: a timer armed
for one tic inside a callback lands in the slot being walked, behind the walk, and does not
fire. In `EnbStack`, a failing write of the set-up request clears `running`, after which
S1AP tries no more. In `Gtpu`, `rushed` holds the main tunnels of UEs that were handed out
again before their own flush was over: the late removal of the flushed tunnel activates the
main one and so ends the forwarding. `marked` and `failed` record which End Markers the last
handler sent and which it could not, for want of a buffer or because `sendto` failed; the
outcome of each attempt is arbitrary. The properties say which of these cases they except.

## Findings

* `timers_stopped`: `step_all` advances its iterator before it calls a callback. If that
  callback stops the next timer of the same expiry, its callback is called all the same.
* `mch_shared`: the comment on `tti % SRSRAN_FDD_NOF_HARQ` is right about the transport
  blocks, but the payload buffer and `mch.pdu[0]` from which they are built are shared by
  all workers under a read lock.
* `mbsfn_tables`: the MCCH table is built by `phy_common::init` only, from a configuration
  that is deferred, by its comment, until PHY has been initialised.

## Proofs

For every number of LTE and NR workers (not both zero), every modulus and every delay with
`Delay + 1 < TtiMod` (`PoolAssumption`, `TtiAssumption`), TLAPS proves in `PhyTxProofs`:

* `Inductive`: `Spec => []IInv`
* `TypeCorrect`: `Spec => []TypeOK`
* `TransmitsInOrder`: `Spec => TxInOrder`
* `TransmitsCoherently`: `Spec => []TxCoherent`
* `StopsDrained`: `Spec => []NothingLeftAtStop`

None of these is inductive. That the radio gets TTI after TTI rests on the order of the
FIFO (`OrderInv`: neighbours in the FIFO have the same or consecutive TTIs, its front is
due, its end joins on to the TXRX thread's next TTI), which rests on who is in it
(`QueueInv`: exactly the workers entered and not released; only the front is between
`wait` and `release`), which rests on the pools' status (`ControlInv`). That samples are
intact rests on `SampleInv`: a buffer that `tx_buffer` points to belongs to a worker that
is transmitting, or that is held and `tx_hold` is up. `SyncInv` is what `QueueInv` is, for
the scheduler's FIFO. `PhyTxInvariant` has the invariant and the lemmas on TTI arithmetic
and on queues, and shows that the steps of the TXRX thread preserve it, one lemma per action
and one step per group; `PhyTxProofs` does so for the workers and the stopping thread and
combines them.

`PhyTxRefinement` proves that the NR scheduler is called in slot order if the pool has no
more workers than there are TTI numbers (`SlotsSuffice`: `NofNr <= TtiMod`):

* `SchedulesInSlotOrder`: `SlotsSuffice => (Spec => []SchedInSlotOrder)`

`SyncInv` only knows who is in `slot_sync`. `SlotInv` adds that a worker `k` places from the
end of it has the slot `k` before the one entered next. It is stated for every place, not
for neighbours, so that no induction along the queue is needed; the length of the queue is
bounded by the pool's size by counting (`SlotBound`).

It also proves the refinement, fairness aside, for every such instance in which
the TTIs in hand have different numbers (`TtisSuffice`: `Capacity < TtiMod`; in the code a
handful of workers against a modulus of 10240):

* `Implements`: `TtisSuffice => (Spec => ImplementsTransmitter)`

`IInv` says what is next to what in the FIFO, not how much is in it. `BacklogInv` adds the
distance: what is pending lies between the last TTI sent and the last one taken, every TTI
in between has a last worker of its own, and nothing of a TTI stands behind its last worker.
Last workers all come from one pool and no two share a TTI, so there are no more TTIs in
hand than that pool has workers, plus the one the TXRX thread is waiting with
(`MannedBound`, by counting an injection). That bound is the guard of `Take`, and it keeps
distances modulo `TtiMod` meaningful, so that a transmission moves every other TTI in hand
exactly one closer.

For queues of any capacity, any bound on unread messages and any subset of the messages
(`CapacityAssumption`, `QueuesAssumption`, `InboxAssumption`, `ArrivalsAssumption`),
`EnbStackProofs` has:

* `StackInductive`: `Spec => []IInv`
* `S1NeverForgotten`: `Spec => []NeverForgotten`
* `S1ConnectedIsHeard`: `Spec => []ConnectedIsHeard`
* `SocketManagerConsistent`: `Spec => []ManagerConsistent`
* `StackTypeCorrect`: `Spec => []TypeOK`

That a timer is left when S1AP does nothing has to be strengthened by what happens in
between: a busy procedure has its time-out running or the stack thread is still connecting
(`SetupInv`). That a connected MME is heard needs to know that a socket that is open has its
handler except while it is being added or removed (`ConnectionInv`), and that removing is
answered once, which rests on the order of the commands in the pipe (`PipeInv`, `ManagerInv`):
one removal at most, with the stack thread waiting for it, and no registration behind it.

The types carry two bounds that need an argument of their own (`BoundInv`): no queue exceeds
its capacity, whoever pushes, and at most one answer of `get_metrics` is pending. For the
second, the requests in the queue and the answers given add up to one exactly while the hub
waits (`MetricsInv`).

For any number of timers, any wheel size and any tic counter that the wheel divides
(`SizeAssumption`; the counter takes at least two values, it has 32 bits in the code) and any
durations below the wrap (`DurationAssumption`), `TimersProofs` has:

* `TimersInductive`: `Spec => []IInv`
* `TimersTypeCorrect`: `Spec => []TypeOK`
* `WheelAgrees`: `Spec => []WheelConsistent`
* `FreeListAgrees`: `Spec => []FreeListConsistent`
* `NoTimerMissed`: `Spec => []ElapsedWithinDuration`
* `OnlyDueTimersCalled`: `Spec => OnlyExpiredCalled`

The first four hold whatever callbacks do: the lists have no duplicates, within a slot or
across slots, and a timer is in the list of its timeout's slot exactly while it runs; counting
the running ones gives `nof_timers_running_`. That no timer is missed is about the walk of
`step_all`: every timer due in this tic is at the iterator or behind it in the slot's list
(`WalkInv`), so that none is due when the walk ends, and a running timer's timeout lies
between the next tic and its duration from now (`TimeInv`), modulo the wrap. Both are
conditional on `careful`, as the properties are, and `timers_stopped` shows why.
`TimersInvariant` has the invariant and the lemmas on lists; `TimersProofs` one lemma per
action.

`MchProofs` is about the PMCH, for every frame length, scheduling period, MCCH period, PMCH
size, block size and queue size (`PeriodAssumption`, `CycleAssumption`,
`SchedulingAssumption`). What a theorem needs beyond them is in its statement:

* `SfIdxIsOrdinal`: `CasAligned => (Walk => []SfIdxCounts)`
* `McsAlwaysAgrees`: `CasAligned /\ McchComesFirst /\ WholePeriod => (Walk => []McsAgrees)`
* `MchTypeCorrect`: `Spec => []TypeOK`
* `AirsInOrder`: `Serial /\ CasAligned /\ WholePeriod => (Spec => []AiredInOrder)`
* `BlocksAreOwn`: `Serial => (Spec => []BlockIsOwn)`
* `AirsWithinAnnounced`: `Serial /\ CasAligned /\ McchOnlyFirst => (Spec => WithinAnnounced)`
* `CarriesOutPlan`: `Serial /\ CasAligned /\ McchOnlyFirst /\ WholePeriod => (Spec => []PlanCarriedOut)`

| Condition | Says | In the code |
|---|---|---|
| `CasAligned` | the scheduling period holds a whole number of CAS | 64 frames, CAS every 4 |
| `McchComesFirst` | every scheduling period begins with an MCCH | `mcch_offset = 0`, both periods 64 frames, `sf_alloc_info = 32` |
| `McchOnlyFirst` | and the MCCH has no other subframe | the same |
| `WholePeriod` | the PMCH has every subframe of the period up to the last index, `LastIdx` | `sf_alloc_end` is 624, `LastIdx` 623 |
| `Serial` | PHY has one worker | `nof_phy_threads = 1`; the default is 3, and with more than one `mch_shared` shows the violation |

All of them hold in the instance of `mch_one_worker` too. The values are those of
`rrc::configure_mbsfn_sibs` and `sib.conf.mbsfn.example`; the walk of `mbsfn_subframes` is one
cycle with exactly these. The argument has four stages. (1) Arithmetic: `sf_idx` is computed
from the frame number by a formula, and the successor of a subframe has the next index, or the
same after a CAS, up to the wrap (`NextOrdinal`). (2) Data: the payload buffer, then the
transport block, then the encoded block hold what the worker read (`Block`). This is where
`Serial` is needed, as two workers share the buffer. What is on the air, with the worker and in
RLC is then what was written, in order (`Stream`), provided that `cc_worker` encodes every
subframe for which data was read; `WholePeriod` and `CasAligned` are needed for that. (3) Plan: what is announced, or on its way to be, is
the stop of the plan (`Announces`); `current_sf_allocation_num`, which counts calls, agrees
with the ordinal, which is computed from the TTI (`Counts`); so data is read only up to the
stop (`Grants`). (4) Debt: what the plan promised and is not out yet is in RLC and has been
reported (`Backed`), and the subframes left have room for it, both up to the stop and up to the
end of the period (`Room`). At the next MCCH no subframe is left, so nothing can be owed. The
number of MTCH subframes in a period is bounded by an injection into the indices
(`MtchPerPeriodBound`).

`MchTypeCorrect` needs none of the conditions and holds for racing workers. Its bound on a stop
is what a full queue needs, `MaxStop`, and not `SfAllocEnd`: the ratio of the two reads of
`lcid_buffer_size` can be two or more, and `mch_one_worker` reaches such a plan. (The data still
fits: `Room` speaks of both the stop and the end of the period.)

Only model-checked: `EveryTtiSent`, `EventuallyAired` and all other liveness (fairness is out of
the prover's reach); the types of `MbsfnStartup`, whose other properties are liveness; and
everything about `Gtpu`, which follows the code's recursion, in which removing a tunnel removes
others, with RECURSIVE operators, which the prover does not take.

## Not modelled, and next

Not modelled by choice: uplink and channel emulation in the workers, PRACH, the GUI; signal
processing, ASN.1 codecs, logging, parsing and drivers; the UE; more than one PMCH or MTCH
(RRC configures one of each).

No state of its own on the MBMS path, hence no module: the MBMS gateway reads a packet, puts
a header in front and sends it; `m1u_handler` strips it and calls PDCP, which passes MBMS
packets on to RLC UM. RLC's queue is part of `MchScheduling`.

Left for later: the UE-associated procedures of S1AP and RRC (security, reconfiguration,
release) with their timers; HARQ and the removal of UEs in MAC; RLC AM and PDCP for unicast
bearers; the EPC; X2 and the NR stack; EN-DC, and with it the calls by which `rrc_endc.cc` moves
GTP-U tunnels between the LTE and the NR RNTI.

Proofs left for later: how much of `MchScheduling` survives several workers (the transport
blocks' own buffers do, the shared ones do not), and the invariants of `Gtpu` with its
recursion unfolded.
