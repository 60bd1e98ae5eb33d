---------------------------- MODULE MCTxnCompare ----------------------------
(***************************************************************************)
(* TLC instance of TxnCompare: a shred provider, a gRPC source that takes  *)
(* everything and may not know a slot, and one that rotates.  s1, s3 and   *)
(* the vote v, which the RPC leaves out, are in the block of slot 1; s2 is *)
(* in no block, and its slot 2 retires the others and makes slot 1 due.    *)
(***************************************************************************)
EXTENDS TxnCompare

CONSTANTS p, g, r, s1, s2, s3, v

MCSlotOf == [x \in Sigs |-> IF x = s2 THEN 2 ELSE 1]

MCSends == [x \in Sources |-> CASE x = p -> {s1, s3} [] x = g -> {s2, v} [] OTHER -> {s1, v}]
=============================================================================
