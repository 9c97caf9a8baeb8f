--------------------------- MODULE MCOnlineSoftmax ---------------------------
(***************************************************************************)
(* Two shapes for OnlineSoftmax: two columns of warps and a causal mask,   *)
(* and a single column that takes three blocks without a mask.             *)
(***************************************************************************)
EXTENDS OnlineSoftmax

TwoColumns ==
  [WARPS_N |-> 2, kBlockM |-> 4, kBlockN |-> 8, SeqLen |-> 16,
   IsCausal |-> TRUE, Rows |-> {0, 2, 5, 7, 8, 9}]
OneColumn ==
  [WARPS_N |-> 1, kBlockM |-> 4, kBlockN |-> 4, SeqLen |-> 12,
   IsCausal |-> FALSE, Rows |-> {5}]

MCShapes == {TwoColumns, OneColumn}
=============================================================================
