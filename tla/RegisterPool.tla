----------------------------- MODULE RegisterPool -----------------------------
(***************************************************************************)
(* The register reconfiguration of the kernels.  A thread block is         *)
(* launched with the same number of registers for every thread; the four   *)
(* producer warps then give most of theirs back (setmaxnreg.dec) and every *)
(* consumer warp asks for more (setmaxnreg.inc), which blocks the warp     *)
(* until the pool of the block has enough.  Nothing else ever returns      *)
(* registers, so a request that does not fit once the producers have       *)
(* released theirs blocks for ever.                                        *)
(***************************************************************************)
EXTENDS Integers

CONSTANTS
  CWGs,        \* CWG of the GEMM kernels, four consumer warps each
  FlashWarps   \* kNWarps of the v3_mMnNkN kernels

\* CWG: asserted in gemm.cu.in.  kNWarps: at most 8 in flash_configs.py.
ASSUME WarpAssumption == CWGs \subseteq 1 .. 4 /\ FlashWarps \subseteq 1 .. 8

ProducerWarps == 4
WarpSize == 32
RegisterFile == 64 * 1024

kProducerRegCount == 40

\* setmaxnreg and the launch count registers in units of 8.
Rounded(n) == (n \div 8) * 8
AtMost(max, n) == IF n > max THEN max ELSE n

\* get_consumer_registers<NWarps, producer_reg>.
\* Mutant: the quotient is not rounded to the granularity of setmaxnreg.
get_consumer_registers_Unrounded(NWarps) ==
  AtMost(256, (RegisterFile - 128 * kProducerRegCount)
                \div (NWarps * WarpSize))
get_consumer_registers(NWarps) ==
  AtMost(256, Rounded((RegisterFile - 128 * kProducerRegCount)
                        \div (NWarps * WarpSize)))

\* kUseRegReconfig of the GEMM kernel.
\* Mutant: the registers are moved whatever the number of consumers.
kUseRegReconfig_Always(Consumer) == TRUE
kUseRegReconfig(Consumer) == Consumer <= 8

\* Registers per thread at the launch: what __launch_bounds__ allows one
\* block of producers and NWarps consumers, in the granularity of 8.
launch_registers(NWarps) ==
  AtMost(256, Rounded(RegisterFile \div ((NWarps + ProducerWarps) * WarpSize)))

\* The kernels: consumer warps, kConsumerRegCount, kUseRegReconfig.
GemmKernel(CWG) ==
  [warps |-> 4 * CWG, want |-> get_consumer_registers(4 * CWG),
   reconfig |-> kUseRegReconfig(4 * CWG)]
ColumnKernel(NWarps) ==
  [warps |-> NWarps, want |-> get_consumer_registers(NWarps),
   reconfig |-> TRUE]
OneColumnKernel == [warps |-> 8, want |-> 232, reconfig |-> TRUE]

Kernels == {GemmKernel(c) : c \in CWGs} \cup {OneColumnKernel}
             \cup {ColumnKernel(n) : n \in FlashWarps}

VARIABLES
  kernel,    \* the kernel that was launched
  released,  \* producer warps that have released registers
  raised,    \* consumer warps that have got theirs
  free       \* registers in the pool of the block

poolVars == <<kernel, released, raised, free>>

launched == launch_registers(kernel.warps)
Released == WarpSize * (launched - kProducerRegCount)  \* by one warp
Requested == WarpSize * (kernel.want - launched)       \* by one warp

PoolInit ==
  /\ kernel \in Kernels
  /\ released = 0 /\ raised = 0 /\ free = 0

\* warpgroup_reg_dealloc at the head of the producer branch.
Dealloc ==
  /\ kernel.reconfig
  /\ released < ProducerWarps
  /\ released' = released + 1
  /\ free' = free + Released
  /\ UNCHANGED <<kernel, raised>>

\* warpgroup_reg_alloc at the head of the consumer branch.
Alloc ==
  /\ kernel.reconfig
  /\ raised < kernel.warps
  /\ Requested <= free
  /\ raised' = raised + 1
  /\ free' = free - Requested
  /\ UNCHANGED <<kernel, released>>

Running ==
  kernel.reconfig => released = ProducerWarps /\ raised = kernel.warps

Settled == Running /\ UNCHANGED poolVars

PoolNext == Dealloc \/ Alloc \/ Settled

\* Every resident warp is scheduled.
PoolSpec ==
  /\ PoolInit /\ [][PoolNext]_poolVars
  /\ WF_poolVars(Dealloc) /\ WF_poolVars(Alloc)

-----------------------------------------------------------------------------
(* Properties.                                                             *)

\* The arguments of setmaxnreg are ones the instruction accepts
\* (kProducerRegCount, kConsumerRegCount): multiples of 8 between 24 and 256,
\* which lower the count of a producer and do not lower that of a consumer.
RequestsValid ==
  kernel.reconfig =>
    /\ \A r \in {kProducerRegCount, kernel.want} : r \in 24 .. 256 /\ r % 8 = 0
    /\ kProducerRegCount <= launched /\ launched <= kernel.want

\* No consumer warp waits for ever in setmaxnreg.inc: when all producers have
\* released their registers, those left suffice for every consumer that has
\* not got its own, in whatever order the warps came.
NobodyStarves ==
  kernel.reconfig /\ released = ProducerWarps =>
    free >= (kernel.warps - raised) * Requested
=============================================================================
