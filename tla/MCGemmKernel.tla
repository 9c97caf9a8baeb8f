---------------------------- MODULE MCGemmKernel ----------------------------
(***************************************************************************)
(* Instances of GemmKernel for TLC.                                        *)
(***************************************************************************)
EXTENDS GemmBlock

CONSTANTS w0, w1

TwoWarps == {w0, w1}
=============================================================================
