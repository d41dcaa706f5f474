----------------------------- MODULE MCDelivery -----------------------------
(***************************************************************************)
(* Instances of CollectorDelivery for TLC. With batches as large as the    *)
(* byte cap every push evicts the one before; where only the third is, both *)
(* caps evict and one push evicts two.                                     *)
(***************************************************************************)
EXTENDS CollectorDelivery

OneRecordEach == [b \in Batch |-> 1]
ThirdIsLarge == [b \in Batch |-> IF b = 3 THEN BufferMaxBytes ELSE 1]
EachFillsTheBuffer == [b \in Batch |-> BufferMaxBytes]
AllFaults == FaultKinds
=============================================================================
