----------------------------- MODULE MCFlowTable -----------------------------
(* Model checking FlowTable: keys of no bit and of two, one a prefix of the    *)
(* others, two that differ in their masks only, two buckets for all, and        *)
(* memory that runs out, any chunk of which stands for any other.               *)
EXTENDS FlowTable, TLC

Keys == [field : {<< >>, <<0, 0>>, <<0, 1>>}, mask : {"any"}]
          \cup {[field |-> <<0, 1>>, mask |-> "all"]}
TwoBuckets == [f \in Field |-> IF f = <<0, 0>> THEN 1 ELSE 0]
ChunksAlike == Permutations(Chunk)
=============================================================================
