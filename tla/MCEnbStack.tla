----------------------------- MODULE MCEnbStack -----------------------------
(***************************************************************************)
(* EnbStack with short queues.                                             *)
(***************************************************************************)
EXTENDS EnbStack

MCCapacity == [q \in Queues |-> 1]
MCLongMmeQueue == [q \in Queues |-> IF q = "mme" THEN 2 ELSE 1]
=============================================================================
