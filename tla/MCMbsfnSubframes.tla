-------------------------- MODULE MCMbsfnSubframes --------------------------
(***************************************************************************)
(* A walk through the TTIs of one cycle of the frame counter, checking at  *)
(* each how phy_common classifies the subframe.                            *)
(***************************************************************************)
EXTENDS MbsfnSubframes

VARIABLES
  tti,   \* tti_tx_dl of the subframe being worked on
  idx    \* PMCH subframes of the scheduling period before this one

Subframe ==
  /\ tti' = (tti + 1) % TtiMod
  /\ idx' = IF tti' % (SfPerFrame * MchSchedPeriod) = 0 THEN 0
            ELSE IF IsMbsfnSf(tti) THEN idx + 1 ELSE idx

Walk == tti = 0 /\ idx = 0 /\ [][Subframe]_<<tti, idx>>

-----------------------------------------------------------------------------

(***************************************************************************)
(* sf_idx of is_mch_subframe numbers the PMCH subframes of a scheduling    *)
(* period without a gap or a repetition, skipping every CAS, up to the     *)
(* wrap of the frame counter: it is the ordinal the scheduling information *)
(* that MAC sends to receivers speaks of.                                  *)
(***************************************************************************)
SfIdxCounts == IsMbsfnSf(tti) => SfIdx(tti) = idx

(***************************************************************************)
(* In every PMCH subframe PHY encodes with the modulation and coding       *)
(* scheme for which MAC sized the transport block, and it does encode: a   *)
(* block that get_mch_sched took from RLC is neither dropped nor cut.      *)
(***************************************************************************)
McsAgrees == IsMbsfnSf(tti) => PmchEnabled(tti) /\ MbsfnMcs(tti) = MacMcs(tti)
=============================================================================
