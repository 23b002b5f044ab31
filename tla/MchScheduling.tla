--------------------------- MODULE MchScheduling ----------------------------
(***************************************************************************)
(* MBMS data from the RLC bearer of an MTCH to the air.  Each PHY worker   *)
(* of a PMCH subframe calls mac::get_mch_sched, which in the MCCH subframe *)
(* plans the scheduling period (build_mch_sched) and announces it, and in  *)
(* the others fetches data from RLC and puts it into a transport block.    *)
(* get_mch_sched holds the MAC lock only for reading, and so does RLC's    *)
(* report of its queue, so several workers are inside it at once, sharing  *)
(* the structure mch and the buffer mtch_payload_buffer, and the reported  *)
(* size changes under them.  A step below ends wherever it has read or     *)
(* written lcid_buffer_size, the bearer, the payload buffer, a transport   *)
(* block or, to count, current_sf_allocation_num; with them it makes the   *)
(* accesses to stop, pdu and the counter that go along.  Workers start in  *)
(* the order of their TTIs and transmit in that order (module              *)
(* PhyTxPipeline).                                                         *)
(*                                                                         *)
(* Data is counted in units; a transport block holds UnitsPerSf of them.   *)
(* The plan is modelled for one MTCH, the number rrc.cc configures.  The   *)
(* stop that set_mch_period_stop stores in phy_common is read nowhere and  *)
(* is left out.                                                            *)
(***************************************************************************)
EXTENDS MbsfnSubframes, Sequences, FiniteSets

CONSTANTS
  Workers,       \* PHY worker threads
  NOF_HARQ,      \* transport-block buffers of the MBMS user
  UnitsPerSf,    \* capacity of an MTCH transport block
  MaxUnits,      \* bound: units the gateway sends
  MaxQueue       \* length of RLC's queue

ASSUME SchedulingAssumption ==
  /\ IsFiniteSet(Workers) /\ Workers # {}
  /\ NOF_HARQ \in Nat \ {0} /\ TtiMod % NOF_HARQ = 0
  /\ UnitsPerSf \in Nat \ {0}
  /\ MaxUnits \in Nat /\ MaxQueue \in Nat

VARIABLES
  \* RLC and the stack thread
  rlc,                 \* units queued in the RLC bearer
  written,             \* units written to RLC so far
  reporting,           \* the stack thread is between write_sdu and its report
  \* mac
  lcid_buffer_size,    \* mch.mtch_sched[0].lcid_buffer_size
  stop,                \* mch.mtch_sched[0].stop
  current_sf_allocation_num,
  pdu,                 \* mch.pdu[0]: its kind and its number of units
  mtch_payload_buffer,
  tx_payload_buffer,   \* transport blocks of the MBMS user, by HARQ process
  \* TXRX thread and PHY workers
  next_tti,            \* the next TTI to hand to a worker
  fifo,                \* workers in TTI order
  pc,
  tti_tx_dl,           \* by worker: the TTI it transmits in
  total,               \* by worker: total_bytes_to_tx
  requested,           \* by worker: requested_bytes
  received,            \* by worker: the units read_pdu gave it
  increment,           \* by worker: the counter it read to increment it
  data,                \* by worker: it holds a transport block to encode
  encoded,             \* by worker: what it encoded
  \* the air
  aired,               \* MTCH units transmitted, in order
  announced,           \* stop in the scheduling information last transmitted
  promised             \* units that must have been aired at the next MCCH

rlcVars == <<rlc, written, reporting>>
planVars == <<stop, current_sf_allocation_num>>
bufVars == <<pdu, mtch_payload_buffer, tx_payload_buffer>>
workerVars == <<next_tti, fifo, tti_tx_dl>>
localVars == <<total, requested, received, increment, data, encoded>>
airVars == <<aired, announced, promised>>
vars == <<rlcVars, lcid_buffer_size, planVars, bufVars, workerVars, pc,
          localVars, airVars>>

Units == 1 .. MaxUnits
None == -1   \* no scheduling information transmitted yet
Empty == [kind |-> "none", stop |-> 0, units |-> <<>>]
PerWorker(v) == [w \in Workers |-> v]
MtchPerPeriod == Cardinality({t \in 0 .. SfPerFrame * MchSchedPeriod - 1 :
                                IsMbsfnSf(t) /\ ~IsMcch(t)})
\* The subframes that a full queue needs: no plan stops later.
MaxStop == (MaxQueue + UnitsPerSf - 1) \div UnitsPerSf

Init ==
  /\ rlc = <<>> /\ written = 0 /\ reporting = FALSE
  /\ lcid_buffer_size = 0 /\ stop = 0 /\ current_sf_allocation_num = 0
  /\ pdu = [kind |-> "none", nbytes |-> 0]
  /\ mtch_payload_buffer = <<>>
  /\ tx_payload_buffer = [p \in 0 .. NOF_HARQ - 1 |-> [tti |-> 0, block |-> Empty]]
  /\ next_tti \in Ttis /\ fifo = <<>> /\ pc = PerWorker("idle")
  /\ tti_tx_dl = PerWorker(0) /\ total = PerWorker(0) /\ requested = PerWorker(0)
  /\ received = PerWorker(<<>>) /\ increment = PerWorker(0)
  /\ data = PerWorker(FALSE) /\ encoded = PerWorker(Empty)
  /\ aired = <<>> /\ announced = None /\ promised = 0

Goto(w, label) == pc' = [pc EXCEPT ![w] = label]
At(w, label) == pc[w] = label
Least(a, b) == IF a < b THEN a ELSE b

-----------------------------------------------------------------------------
(* The stack thread: a packet of the gateway reaches RLC, which drops it   *)
(* when its queue is full, and in either case reports its buffer state to  *)
(* MAC in a second step, under its own lock.                               *)

WriteSdu ==
  /\ ~reporting /\ written < MaxUnits
  /\ \/ /\ Len(rlc) < MaxQueue
        /\ written' = written + 1
        /\ rlc' = Append(rlc, written')
     \/ Len(rlc) = MaxQueue /\ UNCHANGED <<written, rlc>>
  /\ reporting' = TRUE
  /\ UNCHANGED <<lcid_buffer_size, planVars, bufVars, workerVars, pc, localVars, airVars>>

UpdateBsr_Lost ==
  /\ reporting
  /\ reporting' = FALSE
  /\ UNCHANGED <<rlc, written, lcid_buffer_size, planVars, bufVars, workerVars,
                 pc, localVars, airVars>>

UpdateBsr ==
  /\ reporting
  /\ lcid_buffer_size' = Len(rlc)
  /\ reporting' = FALSE
  /\ UNCHANGED <<rlc, written, planVars, bufVars, workerVars, pc, localVars, airVars>>

-----------------------------------------------------------------------------
(* A PHY worker, from its TTI to the radio.                                *)

\* TXRX thread: the next TTI to an idle worker; the worker then finds out
\* what kind of subframe it is.
StartWorker(w) ==
  /\ At(w, "idle")
  /\ tti_tx_dl' = [tti_tx_dl EXCEPT ![w] = next_tti]
  /\ next_tti' = (next_tti + 1) % TtiMod
  /\ fifo' = Append(fifo, w)
  /\ Goto(w, CASE ~IsMbsfnSf(next_tti) -> "encode"
               [] IsMcch(next_tti)     -> "mcch"
               [] OTHER                -> "mtch")
  /\ UNCHANGED <<rlcVars, lcid_buffer_size, planVars, bufVars, localVars, airVars>>

\* The last subframe of the period in which the MTCH has data: the sum was
\* read before the size, and the ratio is a quotient of integers.
PlannedStop_Floor(sum, size) ==
  IF sum > 0 /\ sum >= SfAllocEnd * UnitsPerSf
  THEN SfAllocEnd * (size \div sum)
  ELSE size \div UnitsPerSf

PlannedStop(sum, size) ==
  IF sum > 0 /\ sum >= SfAllocEnd * UnitsPerSf
  THEN SfAllocEnd * (size \div sum)
  ELSE (size + UnitsPerSf - 1) \div UnitsPerSf

\* build_mch_sched, its first loop.
TotalBytes(w) ==
  /\ At(w, "mcch")
  /\ total' = [total EXCEPT ![w] = lcid_buffer_size]
  /\ stop' = 0
  /\ Goto(w, "plan")
  /\ UNCHANGED <<rlcVars, lcid_buffer_size, current_sf_allocation_num, bufVars,
                 workerVars, requested, received, increment, data, encoded, airVars>>

\* build_mch_sched, its second loop: lcid_buffer_size is read again.
BuildMchSched(w) ==
  /\ At(w, "plan")
  /\ stop' = PlannedStop(total[w], lcid_buffer_size)
  /\ promised' = Len(aired) + Least(lcid_buffer_size, MtchPerPeriod * UnitsPerSf)
  /\ Goto(w, "start")
  /\ UNCHANGED <<rlcVars, lcid_buffer_size, current_sf_allocation_num, bufVars,
                 workerVars, localVars, aired, announced>>

StartPeriod_NoReset(w) ==
  /\ At(w, "start")
  /\ pdu' = [pdu EXCEPT !.kind = "msi"]
  /\ Goto(w, "generate")
  /\ UNCHANGED <<rlcVars, lcid_buffer_size, planVars, mtch_payload_buffer,
                 tx_payload_buffer, workerVars, localVars, airVars>>

\* The MCCH branch from there to generate_mch_pdu.
StartPeriod(w) ==
  /\ At(w, "start")
  /\ current_sf_allocation_num' = 1
  /\ pdu' = [pdu EXCEPT !.kind = "msi"]
  /\ Goto(w, "generate")
  /\ UNCHANGED <<rlcVars, lcid_buffer_size, stop, mtch_payload_buffer,
                 tx_payload_buffer, workerVars, localVars, airVars>>

SelectMtch_Whole(w) ==
  /\ At(w, "mtch")
  /\ IF current_sf_allocation_num <= stop
     THEN /\ requested' = [requested EXCEPT ![w] = lcid_buffer_size]
          /\ Goto(w, "read")
     ELSE Goto(w, "count") /\ UNCHANGED requested
  /\ UNCHANGED <<rlcVars, lcid_buffer_size, planVars, bufVars, workerVars,
                 total, received, increment, data, encoded, airVars>>

\* The MTCH branch decides whether the plan has data for this subframe.  The
\* expression for requested_bytes names lcid_buffer_size twice; the optimising
\* build that is the project's default loads it once.
SelectMtch(w) ==
  /\ At(w, "mtch")
  /\ IF current_sf_allocation_num <= stop
     THEN /\ requested' = [requested EXCEPT ![w] = Least(UnitsPerSf, lcid_buffer_size)]
          /\ Goto(w, "read")
     ELSE Goto(w, "count") /\ UNCHANGED requested
  /\ UNCHANGED <<rlcVars, lcid_buffer_size, planVars, bufVars, workerVars,
                 total, received, increment, data, encoded, airVars>>

ReadPdu_NotAdvanced(w) ==
  /\ At(w, "read")
  /\ LET n == Least(requested[w], Len(rlc))
     IN  /\ mtch_payload_buffer' = SubSeq(rlc, 1, n)
              \o SubSeq(mtch_payload_buffer, n + 1, Len(mtch_payload_buffer))
         /\ received' = [received EXCEPT ![w] = SubSeq(rlc, 1, n)]
  /\ Goto(w, "report")
  /\ UNCHANGED <<rlcVars, lcid_buffer_size, planVars, pdu, tx_payload_buffer,
                 workerVars, total, requested, increment, data, encoded, airVars>>

ReadPdu(w) ==
  /\ At(w, "read")
  /\ LET n == Least(requested[w], Len(rlc))
     IN  /\ rlc' = SubSeq(rlc, n + 1, Len(rlc))
         /\ mtch_payload_buffer' = SubSeq(rlc, 1, n)
              \o SubSeq(mtch_payload_buffer, n + 1, Len(mtch_payload_buffer))
         /\ received' = [received EXCEPT ![w] = SubSeq(rlc, 1, n)]
  /\ Goto(w, "report")
  /\ UNCHANGED <<written, reporting, lcid_buffer_size, planVars, pdu,
                 tx_payload_buffer, workerVars, total, requested, increment, data,
                 encoded, airVars>>

\* RLC reports its new buffer state before read_pdu returns.
ReadReport(w) ==
  /\ At(w, "report")
  /\ lcid_buffer_size' = Len(rlc)
  /\ Goto(w, "pdu")
  /\ UNCHANGED <<rlcVars, planVars, bufVars, workerVars, localVars, airVars>>

SetPdu(w) ==
  /\ At(w, "pdu")
  /\ pdu' = [kind |-> "mtch", nbytes |-> Len(received[w])]
  /\ Goto(w, IF received[w] # <<>> THEN "generate" ELSE "count")
  /\ UNCHANGED <<rlcVars, lcid_buffer_size, planVars, mtch_payload_buffer,
                 tx_payload_buffer, workerVars, localVars, airVars>>

HarqPid(t) == t % NOF_HARQ

\* generate_mch_pdu, under the lock of the MBMS user: the block is put
\* together from whatever mch and mtch_payload_buffer hold now.
GenerateMchPdu(w) ==
  /\ At(w, "generate")
  /\ LET n == Least(pdu.nbytes, Len(mtch_payload_buffer))
         block == IF pdu.kind = "msi"
                  THEN [kind |-> "msi", stop |-> stop, units |-> <<>>]
                  ELSE [kind |-> "mtch", stop |-> 0,
                        units |-> SubSeq(mtch_payload_buffer, 1, n)]
     IN  tx_payload_buffer' = [tx_payload_buffer EXCEPT ![HarqPid(tti_tx_dl[w])] =
                                 [tti |-> tti_tx_dl[w], block |-> block]]
  /\ data' = [data EXCEPT ![w] = TRUE]
  /\ Goto(w, IF IsMcch(tti_tx_dl[w]) THEN "encode" ELSE "count")
  /\ UNCHANGED <<rlcVars, lcid_buffer_size, planVars, pdu, mtch_payload_buffer,
                 workerVars, total, requested, received, increment, encoded, airVars>>

\* current_sf_allocation_num++ is a read and a write of an ordinary integer.
\* Above MaxStop, the largest stop there is, its values are not told apart.
CountRead(w) ==
  /\ At(w, "count")
  /\ increment' = [increment EXCEPT ![w] = current_sf_allocation_num]
  /\ Goto(w, "increment")
  /\ UNCHANGED <<rlcVars, lcid_buffer_size, planVars, bufVars, workerVars,
                 total, requested, received, data, encoded, airVars>>

CountWrite(w) ==
  /\ At(w, "increment")
  /\ current_sf_allocation_num' = Least(increment[w] + 1, MaxStop + 1)
  /\ Goto(w, "encode")
  /\ UNCHANGED <<rlcVars, lcid_buffer_size, stop, bufVars, workerVars,
                 localVars, airVars>>

\* cc_worker encodes a PMCH only in the subframes of the MCCH and in those up
\* to SfAllocEnd, and encode_pmch reads the block through the pointer it was
\* given.
EncodePmch(w) ==
  /\ At(w, "encode")
  /\ encoded' = [encoded EXCEPT ![w] =
       IF data[w] /\ PmchEnabled(tti_tx_dl[w])
       THEN tx_payload_buffer[HarqPid(tti_tx_dl[w])].block
       ELSE Empty]
  /\ Goto(w, "end")
  /\ UNCHANGED <<rlcVars, lcid_buffer_size, planVars, bufVars, workerVars,
                 total, requested, received, increment, data, airVars>>

\* phy_common::worker_end: the subframes reach the radio in the order of the
\* FIFO.  The worker's local variables end here.
WorkerEnd(w) ==
  /\ At(w, "end") /\ w = Head(fifo)
  /\ fifo' = Tail(fifo)
  /\ aired' = aired \o encoded[w].units
  /\ announced' = IF encoded[w].kind = "msi" THEN encoded[w].stop ELSE announced
  /\ Goto(w, "idle")
  /\ total' = [total EXCEPT ![w] = 0]
  /\ requested' = [requested EXCEPT ![w] = 0]
  /\ received' = [received EXCEPT ![w] = <<>>]
  /\ increment' = [increment EXCEPT ![w] = 0]
  /\ data' = [data EXCEPT ![w] = FALSE]
  /\ encoded' = [encoded EXCEPT ![w] = Empty]
  /\ tti_tx_dl' = [tti_tx_dl EXCEPT ![w] = 0]
  /\ UNCHANGED <<rlcVars, lcid_buffer_size, planVars, bufVars, next_tti, promised>>

Worker(w) ==
  \/ TotalBytes(w) \/ BuildMchSched(w) \/ StartPeriod(w)
  \/ SelectMtch(w) \/ ReadPdu(w) \/ ReadReport(w) \/ SetPdu(w)
  \/ GenerateMchPdu(w) \/ CountRead(w) \/ CountWrite(w)
  \/ EncodePmch(w) \/ WorkerEnd(w)

Next ==
  \/ WriteSdu \/ UpdateBsr
  \/ \E w \in Workers : StartWorker(w) \/ Worker(w)

Spec == Init /\ [][Next]_vars

\* The radio clock keeps handing out TTIs and every thread runs; the gateway
\* need not send anything.
FairSpec ==
  /\ Spec
  /\ WF_vars(UpdateBsr)
  /\ WF_vars(\E w \in Workers : StartWorker(w))
  /\ \A w \in Workers : WF_vars(Worker(w))

-----------------------------------------------------------------------------

\* Every variable keeps its type; no request to RLC, and no block, exceeds what a
\* subframe holds, and no stop exceeds what a full queue needs.  (A stop may well
\* exceed SfAllocEnd: build_mch_sched compares the total with the space of the
\* PMCH and then computes the stop from a size it reads again.)
TypeOK ==
  /\ rlc \in Seq(Units) /\ Len(rlc) <= MaxQueue
  /\ written \in 0 .. MaxUnits /\ reporting \in BOOLEAN
  /\ lcid_buffer_size \in 0 .. MaxQueue /\ stop \in 0 .. MaxStop
  /\ pdu.kind \in {"none", "msi", "mtch"} /\ pdu.nbytes \in 0 .. UnitsPerSf
  /\ next_tti \in Ttis /\ tti_tx_dl \in [Workers -> Ttis]
  /\ \A w \in Workers : total[w] \in 0 .. MaxQueue /\ requested[w] \in 0 .. UnitsPerSf
  /\ \A w \in Workers : Len(received[w]) <= UnitsPerSf
  /\ announced \in {None} \cup 0 .. MaxStop

(***************************************************************************)
(* The units that RLC accepts from the stack thread go on the air          *)
(* completely, once each and in the order in which they were written:      *)
(* get_mch_sched neither loses, repeats nor reorders what it takes from    *)
(* the bearer, and PHY encodes every block it is given.                    *)
(***************************************************************************)
AiredInOrder == aired = [i \in 1 .. Len(aired) |-> i]

(***************************************************************************)
(* MTCH data is transmitted only up to the stop announced by the           *)
(* scheduling information of its period: a receiver that stops listening   *)
(* there misses nothing.  (Before the first MCCH of all, when stop and     *)
(* current_sf_allocation_num are both still 0, data may be sent without    *)
(* an announcement.)                                                       *)
(***************************************************************************)
WithinAnnounced ==
  [][aired' # aired /\ announced # None => SfIdx(tti_tx_dl[Head(fifo)]) <= announced]_vars

(***************************************************************************)
(* When the MCCH subframe of the next period is reached, everything that   *)
(* RLC had reported when this period was planned, as far as the period has *)
(* room for it, is on the air: what build_mch_sched planned, the other     *)
(* subframes of the period carry out.                                      *)
(***************************************************************************)
PlanCarriedOut == \A w \in Workers : At(w, "mcch") => Len(aired) >= promised

(***************************************************************************)
(* A worker's MTCH block holds the data that this worker read from RLC,    *)
(* the purpose of the separate buffers in the comment of get_mch_sched:    *)
(* no race between PHY workers of consecutive TTIs reaches the data.       *)
(***************************************************************************)
BlockIsOwn ==
  \A w \in Workers :
    data[w] /\ pc[w] \in {"count", "increment"}
      => tx_payload_buffer[HarqPid(tti_tx_dl[w])].block.units = received[w]

(***************************************************************************)
(* Whatever RLC accepts is transmitted in the end.                         *)
(***************************************************************************)
EventuallyAired ==
  \A n \in Units : written >= n ~> Len(aired) >= n
=============================================================================
