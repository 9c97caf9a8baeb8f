---------------------------- MODULE FlashDispatch ----------------------------
(***************************************************************************)
(* From a build of the Python extension to a kernel launch, for both       *)
(* versions of the flash kernel: flash_configs.py decides which kernels    *)
(* are compiled, the bindings pick one of them for a call, and flash_fwd   *)
(* sets up the tensor maps and the grid.  Nothing in the kernel checks its *)
(* arguments again, so what FlashKernel and FlashOneColumn assume of them  *)
(* has to be established here.                                             *)
(*                                                                         *)
(* A configuration is its name: the numbers the name is made of.           *)
(***************************************************************************)
EXTENDS Integers, Sequences, FiniteSets

CONSTANTS
  MaxSmem,        \* FLASH_FWD_MAX_SMEM_KB, in bytes
  BlockMs, BlockNs, WarpNs, \* block shapes and warp columns considered
  MaxNames,       \* bound: names listed in FLASH_FWD_ONLY_CONFIGS
  SeqLens, Batches, HeadNums, \* sizes of the tensors in calls
  SmNum           \* multiprocessors of the device

ASSUME DispatchAssumption ==
  /\ MaxSmem \in Nat /\ MaxNames \in Nat /\ SmNum \in Nat \ {0}
  /\ BlockMs \subseteq Nat /\ BlockNs \subseteq Nat /\ WarpNs \subseteq Nat
  /\ SeqLens \subseteq Nat /\ Batches \subseteq Nat /\ HeadNums \subseteq Nat

OneColumn == "v3_mMn1k1"
Columns == "v3_mMnNkN"

HEAD_DIM_VALUES == {64, 128}
HEAD_DIM_TO_BM(version) ==
  [hd \in HEAD_DIM_VALUES |-> IF version = Columns THEN {32, 64, 128}
                              ELSE IF hd = 64 THEN {128, 256} ELSE {64, 128}]
HEAD_DIM_TO_BN(version) ==
  [hd \in HEAD_DIM_VALUES |-> IF version = Columns /\ hd = 64
                              THEN {32, 64, 128} ELSE {32, 64}]
WARP_RANGE == {16, 32, 64}

\* HeadNum instances of a configuration (run_flash_fwd_...).
INSTANTIATED_HEAD_NUMS == {1, 4, 8, 16, 32, 64, 80}

\* The sizes are cast to int, in which flash_fwd also multiplies them.  A
\* tensor with more rows than an int counts would take 256 GB.
MaxInt == 2147483647
ASSUME SizesFitInt ==
  \A s \in SeqLens, b \in Batches, h \in INSTANTIATED_HEAD_NUMS :
    s * b * h <= MaxInt

AtLeast(x, y) == IF x >= y THEN x ELSE y
align_up(n, unit) == ((n + unit - 1) \div unit) * unit

-----------------------------------------------------------------------------
(* Shared memory of a kernel, as computed by the generator and as laid out *)
(* by struct Storage; elements have two bytes.                             *)

qkvo_bytes(c) ==
  LET q == c.block_m * c.head_dim
      k == c.block_n * c.head_dim
  IN  2 * AtLeast(k + AtLeast(q, k) + k, AtLeast(c.warps_n - 1, 1) * q)

row_stats_slots(c) ==
  IF c.warps_n > 1 THEN c.warps_n * (c.block_m \div 16) * 16 ELSE 1

pipeline_storage_bytes(stage) ==
  align_up(align_up(stage * 8, 16) + stage * 8, 16)

\* Mutant: the statistics of the warp columns are forgotten.
smem_bytes_NoStats(version, c) ==
  align_up(align_up(qkvo_bytes(c), 16)
             + pipeline_storage_bytes(2) + pipeline_storage_bytes(1), 128)
smem_bytes(version, c) ==
  LET stats == IF version = Columns THEN row_stats_slots(c) * 4 ELSE 0
      v_stage == IF version = Columns THEN 2 ELSE 1
  IN  align_up(align_up(qkvo_bytes(c), 128)
                 + align_up(stats, 128) + align_up(stats, 16)
                 + pipeline_storage_bytes(2)
                 + pipeline_storage_bytes(v_stage), 128)

\* Where a member of Storage ends that follows what ends at offset.
Behind(offset, alignment, bytes) == align_up(offset, alignment) + bytes

\* sizeof(Storage): QKVO, row_max and row_sum, the barriers of p_qk and p_v.
SStorageSize(version, c) ==
  LET stats == row_stats_slots(c) * 4
      tiles == qkvo_bytes(c)
      rows == IF version = Columns
              THEN Behind(Behind(tiles, 128, stats), 128, stats) ELSE tiles
      p_qk == Behind(Behind(rows, 16, 16), 16, 16)
      p_v == Behind(Behind(p_qk, 16, 8), 16, 8)
  IN  align_up(p_v, 128)

-----------------------------------------------------------------------------
(* flash_configs.py.                                                       *)

is_valid_config(version, c) ==
  /\ c.head_dim > 0 /\ c.block_m > 0 /\ c.block_n > 0
  /\ c.warps_m > 0 /\ c.warps_n > 0
  /\ c.head_dim % 32 = 0 /\ c.block_n % (16 * c.warps_n) = 0
  /\ IF version = Columns
     THEN /\ (c.block_m \div 16) * (c.block_n \div 16) > 4
          /\ c.warps_m * c.warps_n \in 5 .. 8
          /\ c.block_m = 16 * c.warps_m
     ELSE /\ (c.block_m \div 16) * (c.block_n \div 16) >= 4
          /\ c.warps_m = 8 /\ c.warps_n = 1
          /\ c.block_m % (16 * c.warps_m) = 0
  /\ smem_bytes(version, c) <= MaxSmem

\* The loops of default_configs, in their order.
Listed(version) ==
  {c \in [head_dim : HEAD_DIM_VALUES, block_m : {32, 64, 128, 256},
          block_n : {32, 64, 128}, warps_m : 1 .. 8, warps_n : 1 .. 8] :
     /\ c.block_m \in HEAD_DIM_TO_BM(version)[c.head_dim]
     /\ c.block_n \in HEAD_DIM_TO_BN(version)[c.head_dim]
     /\ version = Columns =>
          /\ \E r \in WARP_RANGE : c.block_m = c.warps_m * r
          /\ \E r \in WARP_RANGE : c.block_n = c.warps_n * r
     /\ is_valid_config(version, c)}

Earlier(c, d) ==
  \/ c.head_dim < d.head_dim
  \/ c.head_dim = d.head_dim /\ c.block_m < d.block_m
  \/ c.head_dim = d.head_dim /\ c.block_m = d.block_m /\ c.block_n < d.block_n

default_configs(version) ==
  LET S == Listed(version)
  IN  [i \in 1 .. Cardinality(S) |->
         CHOOSE c \in S : Cardinality({d \in S : Earlier(d, c)}) = i - 1]

\* Names a user may list.
Names(version) ==
  [head_dim : HEAD_DIM_VALUES, block_m : BlockMs, block_n : BlockNs,
   warps_m : {b \div 16 : b \in BlockMs} \cup {8}, warps_n : WarpNs]

Name(head_dim, block_m, block_n, warps_m, warps_n) ==
  [head_dim |-> head_dim, block_m |-> block_m, block_n |-> block_n,
   warps_m |-> warps_m, warps_n |-> warps_n]

Elements(s) == {s[i] : i \in DOMAIN s}
default_name(version, configs) ==
  LET name == IF version = Columns THEN Name(64, 64, 64, 4, 2)
                                   ELSE Name(64, 128, 32, 8, 1)
  IN  IF name \in Elements(configs) THEN name ELSE configs[1]

VARIABLES
  version,  \* which of the two extensions this is
  configs,  \* kFlashFwdConfigs
  stage,    \* of the build and of the call being served
  call,     \* the arguments of the call
  config,   \* the configuration chosen for it
  answer    \* why it was refused, or the launch

vars == <<version, configs, stage, call, config, answer>>

None == [kind |-> "none"]
Refused(why) == [kind |-> "refused", why |-> why]

Init ==
  /\ version \in {OneColumn, Columns}
  /\ configs = << >> /\ stage = "build"
  /\ call = None /\ config = None /\ answer = None

\* The build: the default set, or the names of FLASH_FWD_ONLY_CONFIGS without
\* repetitions.  A name that is not valid, or an empty set, fails the build.
BuildDefault ==
  /\ stage = "build"
  /\ configs' = default_configs(version)
  /\ stage' = IF configs' = << >> THEN "failed" ELSE "idle"
  /\ UNCHANGED <<version, call, config, answer>>

BuildOnly(names) ==
  /\ stage = "build" /\ Len(names) > 0
  /\ \A i, j \in DOMAIN names : i # j => names[i] # names[j]
  /\ IF \A n \in Elements(names) : is_valid_config(version, n)
     THEN configs' = names /\ stage' = "idle"
     ELSE configs' = << >> /\ stage' = "failed"
  /\ UNCHANGED <<version, call, config, answer>>

-----------------------------------------------------------------------------
(* The bindings.                                                           *)

\* find_config finds the configuration of that name.
find_config(name) == {c \in Elements(configs) : c = name}

First(head_dim) ==
  LET match == {i \in DOMAIN configs : configs[i].head_dim = head_dim}
  IN  IF match = {} THEN {}
      ELSE {configs[CHOOSE i \in match : \A j \in match : i <= j]}

preferred(head_dim) ==
  IF version = Columns THEN Name(head_dim, 64, 64, 4, 2)
  ELSE Name(head_dim, IF head_dim = 64 THEN 128 ELSE 64, 32, 8, 1)

\* The first nonempty set of the list.
FirstOf(list) ==
  LET some == {i \in DOMAIN list : list[i] # {}}
  IN  IF some = {} THEN {}
      ELSE list[CHOOSE i \in some : \A j \in some : i <= j]

\* default_config: only v3_mMn1k1 begins with kFlashFwdDefaultConfigName.
\* Mutant: whatever its head_dim.
default_config_AnyHeadDim(head_dim) ==
  FirstOf(<< IF version = Columns THEN {}
             ELSE {default_name(version, configs)},
             find_config(preferred(head_dim)), First(head_dim) >>)
default_config(head_dim) ==
  FirstOf(<< IF version = Columns THEN {}
             ELSE {c \in {default_name(version, configs)} :
                     c.head_dim = head_dim},
             find_config(preferred(head_dim)), First(head_dim) >>)

\* A call of fwd, or of fwd_config with a name that was built or one that was
\* not; tensors stands for what check_inputs looks at.
Unknown == CHOOSE n \in Names(version) : n \notin Elements(configs)
Calls ==
  [kind : {"fwd", "fwd_config"}, name : Elements(configs) \cup {Unknown},
   tensors : {"matching", "mismatched"}, batch : Batches, seq_len : SeqLens,
   head_num : HeadNums, head_dim : HEAD_DIM_VALUES, causal : BOOLEAN]

Call(c) ==
  /\ stage = "idle"
  /\ c.kind = "fwd" => c.name = Unknown   \* fwd takes no name
  /\ call' = c /\ stage' = "check"
  /\ UNCHANGED <<version, configs, config, answer>>

Refuse(why) ==
  /\ answer' = Refused(why) /\ stage' = "answered"
  /\ UNCHANGED <<version, configs, call, config>>

\* check_inputs, then the choice of the configuration.
Select ==
  /\ stage = "check" /\ call.tensors = "matching"
  /\ \E c \in (IF call.kind = "fwd" THEN default_config(call.head_dim)
                                    ELSE find_config(call.name)) :
       config' = c
  /\ stage' = "shape"
  /\ UNCHANGED <<version, configs, call, answer>>

RefuseInputs ==
  stage = "check" /\ call.tensors # "matching" /\ Refuse("inputs")

RefuseUnbuilt ==
  /\ stage = "check" /\ call.tensors = "matching"
  /\ IF call.kind = "fwd" THEN default_config(call.head_dim) = {}
                          ELSE find_config(call.name) = {}
  /\ Refuse("unbuilt")

\* check_runtime_shape.
\* Mutant: block_n is not looked at.
ShapeAllowed_BlockMOnly ==
  /\ call.seq_len > 0 /\ call.batch > 0
  /\ call.seq_len % config.block_m = 0
ShapeAllowed ==
  /\ call.seq_len > 0 /\ call.batch > 0
  /\ call.seq_len % config.block_m = 0 /\ call.seq_len % config.block_n = 0

CheckShape ==
  /\ stage = "shape" /\ ShapeAllowed
  /\ stage' = "run"
  /\ UNCHANGED <<version, configs, call, config, answer>>

RefuseShape == stage = "shape" /\ ~ ShapeAllowed /\ Refuse("shape")

\* run_flash_fwd_...: the checks before an instance is called.
RefuseHeadDim ==
  stage = "run" /\ call.head_dim # config.head_dim /\ Refuse("head_dim")

RefuseHeadNum ==
  /\ stage = "run" /\ call.head_dim = config.head_dim
  /\ call.head_num \notin INSTANTIATED_HEAD_NUMS /\ Refuse("head_num")

CEILDIV(x, y) == (x + y - 1) \div y
Smaller(x, y) == IF x <= y THEN x ELSE y
TileCount(c) == CEILDIV(call.seq_len, c.block_m) * call.batch * call.head_num

\* run_fixed_shape of the instance for this head_num and causal.  There may be
\* no memory for the output,
InstanceFound ==
  /\ stage = "run" /\ call.head_dim = config.head_dim
  /\ call.head_num \in INSTANTIATED_HEAD_NUMS

OutOfMemory == InstanceFound /\ Refuse("memory")

\* and flash_fwd ends the process if the device denies an attribute, as it
\* does the shared memory when MaxSmem is more than it has.
AttributeFails ==
  /\ InstanceFound /\ stage' = "ended"
  /\ UNCHANGED <<version, configs, call, config, answer>>

Launch ==
  /\ InstanceFound
  /\ \E HeadNum \in INSTANTIATED_HEAD_NUMS :
       /\ call.head_num = HeadNum
       /\ answer' = [kind |-> "launch", HeadNum |-> HeadNum,
                     HeadDim |-> config.head_dim, causal |-> call.causal,
                     grid |-> Smaller(SmNum, TileCount(config))]
  /\ stage' = "launched"
  /\ UNCHANGED <<version, configs, call, config>>

\* cudaGetLastError reports whether this launch, or anything before, failed.
LaunchFails == stage = "launched" /\ Refuse("launch")

LaunchSucceeds ==
  /\ stage = "launched" /\ stage' = "answered"
  /\ UNCHANGED <<version, configs, call, config, answer>>

\* The caller gets the output tensor or the exception.
Return ==
  /\ stage = "answered"
  /\ stage' = "idle" /\ call' = None /\ config' = None /\ answer' = None
  /\ UNCHANGED <<version, configs>>

Terminated == stage \in {"failed", "ended"} /\ UNCHANGED vars

Next ==
  \/ BuildDefault
  \/ \E n \in 1 .. MaxNames : \E names \in [1 .. n -> Names(version)] :
       BuildOnly(names)
  \/ \E c \in Calls : Call(c)
  \/ Select \/ RefuseInputs \/ RefuseUnbuilt
  \/ CheckShape \/ RefuseShape \/ RefuseHeadDim \/ RefuseHeadNum
  \/ OutOfMemory \/ AttributeFails \/ Launch \/ LaunchFails \/ LaunchSucceeds
  \/ Return \/ Terminated

Spec == Init /\ [][Next]_vars

-----------------------------------------------------------------------------
(* Properties.                                                             *)

\* Every kernel that is compiled passes the static_asserts of its traits
\* (Flash_fwd_kernel_traits), and the shared memory the generator filtered by
\* and configs() reports is sizeof(Storage), the amount flash_fwd asks for.
BuiltKernelsFit ==
  \A c \in Elements(configs) :
    /\ c.head_dim % 32 = 0
    /\ c.block_m % (16 * c.warps_m) = 0 /\ c.block_n % (16 * c.warps_n) = 0
    /\ smem_bytes(version, c) = SStorageSize(version, c)
    /\ SStorageSize(version, c) <= MaxSmem

\* What the kernels assume of their arguments holds at every launch, also one
\* that fails, whichever way the configuration was chosen: the instance is the one for the tensors,
\* the sequence consists of whole tiles of both sizes, and every block of the
\* grid has a first tile.
LaunchIsSound ==
  answer.kind = "launch" =>
    /\ answer.HeadDim = call.head_dim /\ answer.HeadNum = call.head_num
    /\ answer.causal = call.causal
    /\ config \in Elements(configs)
    /\ call.seq_len % config.block_m = 0 /\ call.seq_len % config.block_n = 0
    /\ answer.grid \in 1 .. TileCount(config)

\* README: fwd() selects a config by head dimension.  Whichever attempt of
\* default_config finds it, the configuration fwd selects was built and is one
\* for the head dimension of the tensors, and the selection fails only when
\* there is none.  A call that is refused although there is one is refused for
\* the tensors, the divisibility, the number of heads, the memory or a failed
\* launch.
FwdSelectsByHeadDim ==
  call.kind = "fwd" =>
    /\ \/ config = None
       \/ config \in Elements(configs) /\ config.head_dim = call.head_dim
    /\ answer.kind = "refused" =>
         \/ answer.why \in {"inputs", "shape", "head_num", "memory", "launch"}
         \/ \A c \in Elements(configs) : c.head_dim # call.head_dim
=============================================================================
