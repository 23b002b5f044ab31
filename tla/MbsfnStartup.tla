---------------------------- MODULE MbsfnStartup ----------------------------
(***************************************************************************)
(* How the broadcast configuration reaches PHY and MAC while the eNodeB    *)
(* starts.  enb::init first initialises the stack, where RRC defers the    *)
(* configuration to the stack thread, and then the radio and the physical  *)
(* layer.  The stack thread runs deferred tasks only after a task that     *)
(* came from outside: an answer of the MME, a packet of the gateway, or    *)
(* the clock tick of a TTI, and TTIs begin with the physical layer.        *)
(***************************************************************************)
EXTENDS Integers

CONSTANT MaxTasks   \* bound: external tasks waiting for the stack thread

ASSUME TaskAssumption == MaxTasks \in Nat \ {0}

VARIABLES
  init,              \* how far enb::init is
  external_tasks,    \* external tasks waiting for the stack thread
  internal_tasks,    \* deferred tasks of the stack thread
  stack,             \* what the stack thread is doing
  mcch_configured,   \* phy_common: configure_mbsfn has been called
  mcch_table,        \* phy_common: the subframes of the MCCH are filled in
  num_mtch_sched,    \* mac: MTCHs, 0 until write_mcch
  sf,                \* a PHY worker: the kind of its subframe, in an MCCH place
  sib2_list          \* mbsfn_sf_cfg_list_present of the configured SIB2

taskVars == <<external_tasks, internal_tasks, stack>>
phyVars == <<mcch_configured, mcch_table>>
vars == <<init, taskVars, phyVars, num_mtch_sched, sf, sib2_list>>

\* After enb_stack_lte::init, with the stack thread started.
Init ==
  /\ init = "radio"
  /\ external_tasks = 0 /\ internal_tasks = 1 /\ stack = "wait"
  /\ mcch_configured = FALSE /\ mcch_table = FALSE
  /\ num_mtch_sched = 0
  /\ sf = "none"
  /\ sib2_list \in BOOLEAN

\* A message of the MME or the gateway; it may never come.
Receive ==
  /\ external_tasks < MaxTasks
  /\ external_tasks' = external_tasks + 1
  /\ UNCHANGED <<init, internal_tasks, stack, phyVars, num_mtch_sched, sf, sib2_list>>

-----------------------------------------------------------------------------
(* The main thread.  If the radio or the physical layer cannot be          *)
(* initialised, the program ends.                                          *)

RadioInit ==
  /\ init = "radio" /\ init' \in {"common", "failed"}
  /\ UNCHANGED <<taskVars, phyVars, num_mtch_sched, sf, sib2_list>>

\* phy_common::init builds the tables of what it knows by then.
CommonInit ==
  /\ init = "common" /\ init' = "workers"
  /\ mcch_table' = mcch_configured
  /\ UNCHANGED <<taskVars, mcch_configured, num_mtch_sched, sf, sib2_list>>

\* Workers, PRACH and TXRX are started and phy::initialized is set.
PhyInit ==
  /\ init = "workers" /\ init' \in {"up", "failed"}
  /\ UNCHANGED <<taskVars, phyVars, num_mtch_sched, sf, sib2_list>>

-----------------------------------------------------------------------------
(* The stack thread.                                                       *)

RunExternalTask_Empty ==
  /\ stack = "wait"
  /\ external_tasks' = external_tasks - 1
  /\ stack' = "internal"
  /\ UNCHANGED <<init, internal_tasks, phyVars, num_mtch_sched, sf, sib2_list>>

RunExternalTask ==
  /\ stack = "wait" /\ external_tasks > 0
  /\ external_tasks' = external_tasks - 1
  /\ stack' = "internal"
  /\ UNCHANGED <<init, internal_tasks, phyVars, num_mtch_sched, sf, sib2_list>>

NoInternalTask ==
  /\ stack = "internal" /\ internal_tasks = 0
  /\ stack' = "wait"
  /\ UNCHANGED <<init, external_tasks, internal_tasks, phyVars, num_mtch_sched, sf, sib2_list>>

\* The task rrc::configure_mbsfn_sibs deferred: PHY first, then MAC.  Without
\* a list of MBSFN subframes phy::configure_mbsfn returns early.
ConfigurePhy ==
  /\ stack = "internal" /\ internal_tasks > 0
  /\ internal_tasks' = internal_tasks - 1
  /\ mcch_configured' = (mcch_configured \/ sib2_list)
  /\ stack' = "mac"
  /\ UNCHANGED <<init, external_tasks, mcch_table, num_mtch_sched, sf, sib2_list>>

WriteMcch ==
  /\ stack = "mac" /\ stack' = "internal"
  /\ num_mtch_sched' = 1
  /\ UNCHANGED <<init, external_tasks, internal_tasks, phyVars, sf, sib2_list>>

-----------------------------------------------------------------------------
(* A TTI in which the MCCH is due, once the physical layer is up.          *)

TtiClock_NoPush ==
  /\ init = "up" /\ sf = "none"
  /\ sf' = CASE ~mcch_configured -> "norm"
             [] mcch_table       -> "mcch"
             [] OTHER            -> "mtch"
  /\ UNCHANGED <<init, taskVars, phyVars, num_mtch_sched, sib2_list>>

\* The TXRX thread pushes the clock tick, waiting while the queue is full,
\* and a worker classifies the subframe.
TtiClock ==
  /\ init = "up" /\ sf = "none"
  /\ external_tasks < MaxTasks
  /\ external_tasks' = external_tasks + 1
  /\ sf' = CASE ~mcch_configured -> "norm"
             [] mcch_table       -> "mcch"
             [] OTHER            -> "mtch"
  /\ UNCHANGED <<init, internal_tasks, stack, phyVars, num_mtch_sched, sib2_list>>

EndSubframe ==
  /\ sf # "none" /\ sf' = "none"
  /\ UNCHANGED <<init, taskVars, phyVars, num_mtch_sched, sib2_list>>

-----------------------------------------------------------------------------

Main == RadioInit \/ CommonInit \/ PhyInit
Stack == RunExternalTask \/ NoInternalTask \/ ConfigurePhy \/ WriteMcch
Phy == TtiClock \/ EndSubframe

Next == Receive \/ Main \/ Stack \/ Phy

\* Every thread of the process runs; the network owes nothing.
Spec ==
  /\ Init /\ [][Next]_vars
  /\ WF_vars(Main) /\ WF_vars(Stack) /\ WF_vars(Phy)

-----------------------------------------------------------------------------

\* Every variable keeps its type; the stack thread takes no task from an empty
\* queue.
TypeOK ==
  /\ init \in {"radio", "common", "workers", "up", "failed"}
  /\ external_tasks \in 0 .. MaxTasks /\ internal_tasks \in 0 .. 1
  /\ stack \in {"wait", "internal", "mac"}
  /\ mcch_configured \in BOOLEAN /\ mcch_table \in BOOLEAN
  /\ num_mtch_sched \in 0 .. 1
  /\ sf \in {"none", "norm", "mcch", "mtch"} /\ sib2_list \in BOOLEAN

(***************************************************************************)
(* Unless the radio or the physical layer cannot be initialised, start-up  *)
(* ends with the physical layer running and the broadcast configuration in *)
(* MAC, and in PHY exactly if SIB2 has a list of MBSFN subframes, even when *)
(* neither the MME nor the gateway ever sends anything: the clock ticks of *)
(* the physical layer make the stack thread run the task RRC deferred.     *)
(***************************************************************************)
ConfigurationArrives ==
  \/ <>(init = "failed")
  \/ <>[](init = "up" /\ mcch_configured = sib2_list /\ num_mtch_sched = 1)

(***************************************************************************)
(* The comment on the deferred task, "Configure PHY when PHY is done being *)
(* initialized": configuring an initialised PHY works, so that a worker of *)
(* a configured PHY takes the MCCH's subframe for what it is.              *)
(***************************************************************************)
ConfiguredAfterInit ==
  init = "up" /\ mcch_configured => mcch_table
=============================================================================
