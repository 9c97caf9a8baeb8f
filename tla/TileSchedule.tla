---------------------------- MODULE TileSchedule ----------------------------
(***************************************************************************)
(* How the thread blocks of one launch share the tiles of the output.      *)
(*                                                                         *)
(* The launchers start min(SMs, tiles) blocks.  Block b takes the tile     *)
(* numbers b, b + gridDim.x, ... and turns each of them into a place of    *)
(* the output: b16_gemm by block_swizzle (utils/tools.h), which walks the  *)
(* output in groups of BS_W columns, flash_atten_v3_fwd by get_tile_coord, *)
(* which visits the last rows of a head first.  No two blocks communicate, *)
(* so that the numbering alone must hand every place to exactly one block. *)
(* What a block does with a tile is the subject of GemmKernel and          *)
(* FlashKernel.                                                            *)
(***************************************************************************)
EXTENDS Integers, FiniteSets

CONSTANTS
  Rows,     \* tile rows a launch may have: M_NUM, M_num
  Columns,  \* tile columns (N_NUM), or heads times batches
  Widths,   \* BS_W
  SmCounts  \* sm_num

ASSUME LaunchAssumption ==
  Rows \cup Columns \cup Widths \cup SmCounts \subseteq Nat \ {0}

Smaller(x, y) == IF x < y THEN x ELSE y

GemmLaunches ==
  [kernel : {"gemm"}, rows : Rows, cols : Columns, width : Widths,
   sm_num : SmCounts]
FlashLaunches ==
  [kernel : {"flash"}, rows : Rows, cols : Columns, sm_num : SmCounts]

VARIABLES
  launch,   \* shape of the launch, chosen by the host
  tiled_id, \* loop variable of every block
  taken     \* the tiles blocks have taken: by whom, which, and its place

vars == <<launch, tiled_id, taken>>

tiles_num(l) == l.rows * l.cols
block_num(l) == Smaller(l.sm_num, tiles_num(l))
Blocks(l) == 0 .. block_num(l) - 1

\* Place of a tile: block_swizzle<BS_W>, with rows BM and columns BN.
\* Mutant: the last group of columns is as wide as the others.
block_swizzle_NoRagged(l, t) ==
  LET SW == Smaller(l.width, l.cols)
      num == t \div (SW * l.rows)
      in_square == t % (SW * l.rows)
  IN  <<in_square \div SW, num * SW + (in_square % SW)>>

block_swizzle(l, t) ==
  LET SW == Smaller(l.width, l.cols)
      base_col == (t \div (SW * l.rows)) * SW
      SW2 == IF base_col + SW < l.cols THEN SW ELSE l.cols - base_col
      in_square == t % (SW2 * l.rows)
  IN  <<in_square \div SW2, base_col + (in_square % SW2)>>

\* Place of a tile: get_tile_coord, with head_total for head and batch.
get_tile_coord(l, t) == <<l.rows - 1 - (t % l.rows), t \div l.rows>>

Place(l, t) ==
  IF l.kernel = "gemm" THEN block_swizzle(l, t) ELSE get_tile_coord(l, t)

Places(l) == (0 .. l.rows - 1) \X (0 .. l.cols - 1)

Init ==
  /\ launch \in GemmLaunches \cup FlashLaunches
  /\ tiled_id = [b \in Blocks(launch) |-> b]
  /\ taken = {}

Active(b) == tiled_id[b] < tiles_num(launch)

\* Loop increment.
\* Mutant: the block moves on to its neighbour's tile.
NextTile_Neighbour(t) == t + 1
NextTile(t) == t + block_num(launch)

TakeTile(b) ==
  /\ Active(b)
  /\ taken' = taken \cup
       {[block |-> b, tile |-> tiled_id[b],
         place |-> Place(launch, tiled_id[b])]}
  /\ tiled_id' = [tiled_id EXCEPT ![b] = NextTile(@)]
  /\ UNCHANGED launch

Done == \A b \in Blocks(launch) : ~ Active(b)

Terminated == Done /\ UNCHANGED vars

Next == (\E b \in Blocks(launch) : TakeTile(b)) \/ Terminated

Spec == Init /\ [][Next]_vars

-----------------------------------------------------------------------------
(* Properties.                                                             *)

\* No place of the output is computed twice, by one block or by two: the
\* blocks store their tiles without any synchronisation.
ExclusivePlaces ==
  \A x, y \in taken : x.place = y.place => x = y

\* When all blocks have left their loops every place has been computed, and
\* none outside the output, however the column groups divide the columns.
CoveredWhenDone == Done => {x.place : x \in taken} = Places(launch)

\* The persistent blocks share the work evenly: when the launch is over, no
\* block has done two tiles more than another.
Load(b) == Cardinality({x \in taken : x.block = b})
BalancedBlocks ==
  Done => \A a, b \in Blocks(launch) : Load(a) <= Load(b) + 1
=============================================================================
