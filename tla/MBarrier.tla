------------------------------ MODULE MBarrier ------------------------------
(***************************************************************************)
(* The synchronisation primitives the kernels take from CUTLASS/PTX, as    *)
(* they are used by src/gemm/gemm_cute.hpp and the pipeline.hpp files.     *)
(* They are not part of the repository: this is the contract the kernels   *)
(* rely on.                                                                *)
(*                                                                         *)
(* An mbarrier completes a phase when its pending arrivals and its pending *)
(* transaction bytes are both zero.  The hardware keeps only one bit of    *)
(* the number of completed phases; "phase" below is the whole number, and  *)
(* Passes looks at its parity only, so that a waiter which lags by two     *)
(* phases is fooled in the model exactly as it is on the device.           *)
(***************************************************************************)
EXTENDS Integers

\* mbarrier.init with an arrival count (ClusterBarrier::init).
NewBarrier(count) == [phase |-> 0, pending |-> count, tx |-> 0]

\* Complete the phase when nothing is pending, and re-arm the arrivals.
Settle(b, count) ==
  IF b.pending = 0 /\ b.tx = 0
  THEN [phase |-> b.phase + 1, pending |-> count, tx |-> 0]
  ELSE b

\* ClusterBarrier::arrive.
Arrive(b, count) ==
  Settle([phase |-> b.phase, pending |-> b.pending - 1, tx |-> b.tx], count)

\* ClusterTransactionBarrier::arrive_and_expect_tx.
ArriveExpectTx(b, count, bytes) ==
  Settle([phase |-> b.phase, pending |-> b.pending - 1, tx |-> b.tx + bytes],
         count)

\* complete_tx, performed by the TMA unit once the bytes are in shared memory.
CompleteTx(b, count, bytes) ==
  Settle([phase |-> b.phase, pending |-> b.pending, tx |-> b.tx - bytes],
         count)

\* try_wait.parity: the phase of the given parity has completed.
Passes(b, parity) == b.phase % 2 # parity

Flip(parity) == 1 - parity

\* cutlass::PipelineState: the slot, the parity of the current round over the
\* slots, and the number of advances.
NewState(parity) == [index |-> 0, phase |-> parity, count |-> 0]

Advance(st, stages) ==
  [index |-> IF st.index + 1 = stages THEN 0 ELSE st.index + 1,
   phase |-> IF st.index + 1 = stages THEN Flip(st.phase) ELSE st.phase,
   count |-> st.count + 1]
=============================================================================
