--------------------------- MODULE MbsfnSubframes ---------------------------
(***************************************************************************)
(* How phy_common classifies the subframes of a 5G Broadcast carrier: the  *)
(* cell acquisition subframe (CAS) at the head of every fourth frame, the  *)
(* MCCH subframe, and the other PMCH subframes, numbered through the MCH   *)
(* scheduling period.  MAC is told only whether a subframe is the MCCH's;  *)
(* PHY must choose the same modulation and coding scheme by itself.        *)
(***************************************************************************)
EXTENDS Integers

CONSTANTS
  SfPerFrame,      \* subframes of a frame: 10
  CasFrames,       \* frames from one CAS to the next: 4
  TtiMod,          \* TTIs of the frame counter: 10240
  McchPeriod,      \* mcch_repeat_period of SIB13, in frames
  McchOffset,      \* mcch_offset of SIB13, in frames
  SfAllocInfo,     \* sf_alloc_info of SIB13, 6 bits
  MchSchedPeriod,  \* mch_sched_period of the PMCH, in frames: 64
  SfAllocEnd       \* sf_alloc_end of the PMCH: 624

\* The period is kept in a uint8_t and divides the frame number, so a period
\* of 256 frames (value 0) is outside the code's reach.
ASSUME PeriodAssumption ==
  /\ {SfPerFrame, CasFrames, MchSchedPeriod} \subseteq Nat \ {0}
  /\ McchPeriod \in 1 .. 255
  /\ McchOffset \in 0 .. McchPeriod - 1
  /\ SfAllocInfo \in 0 .. 63 /\ SfAllocEnd \in Nat

ASSUME CycleAssumption ==
  /\ TtiMod \in Nat \ {0}
  /\ TtiMod % (SfPerFrame * MchSchedPeriod) = 0
  /\ TtiMod % (SfPerFrame * McchPeriod) = 0

Ttis == 0 .. TtiMod - 1
Sfn(t) == t \div SfPerFrame
Sf(t) == t % SfPerFrame

\* generate_mcch_table: the subframes selected by the six bits of
\* sf_alloc_info, the most significant bit first.
McchTable ==
  LET Bit(k) == (SfAllocInfo \div 2 ^ k) % 2 = 1
      BitOf  == [sf \in {1, 2, 3, 6, 7, 8} |-> IF sf < 4 THEN 6 - sf ELSE 8 - sf]
  IN  {sf \in {1, 2, 3, 6, 7, 8} : Bit(BitOf[sf])}

IsCas(t) == Sfn(t) % CasFrames = 0 /\ Sf(t) = 0

IsMcch(t) == Sfn(t) % (McchPeriod % 256) = McchOffset /\ Sf(t) \in McchTable

FnInSchedulingPeriod(t) == Sfn(t) % MchSchedPeriod

SfIdx_NoCas(t) == FnInSchedulingPeriod(t) * SfPerFrame + Sf(t) - 1

SfIdx(t) ==
  LET fn == FnInSchedulingPeriod(t)
  IN  fn * SfPerFrame + Sf(t) - (fn \div CasFrames) - 1

SignallingSf_FrameOnly(t) == FnInSchedulingPeriod(t) = 0

\* The subframe of a scheduling period that PHY takes for its first.
SignallingSf(t) == FnInSchedulingPeriod(t) = 0 /\ Sf(t) = 1

PmchEnabled(t) == IsMcch(t) \/ SfIdx(t) <= SfAllocEnd

\* is_mch_subframe: its result, and the configuration it fills in.
IsMbsfnSf(t) == ~IsCas(t)
MbsfnMcs(t) ==
  CASE IsMcch(t)          -> "sig"
    [] ~PmchEnabled(t)    -> "default"
    [] SignallingSf(t)    -> "sig"
    [] OTHER              -> "data"

\* mac::get_mch_sched: the scheme a transport block is sized for.
MacMcs(t) == IF IsMcch(t) THEN "sig" ELSE "data"
=============================================================================
