---------------------------- MODULE FlashOneColumn ----------------------------
(***************************************************************************)
(* One thread block of flash_atten_v3_fwd in the version with one column   *)
(* of warps (src/flashattention/v3_mMn1k1).  No warp needs another one's   *)
(* results, so nothing but the two rings and one bar_sync per tile orders  *)
(* the consumers, and the output tile is written over the memory of Q and  *)
(* K as soon as a warp has its own rows.                                   *)
(*                                                                         *)
(* As in FlashKernel: shared memory is modelled by cells, here one for 16  *)
(* rows of a tile, those of an MMA atom; the unit of interleaving is the   *)
(* warp; the TMA unit is an actor; a cell under a load is Torn; the        *)
(* accumulator of a warp is the sequence of <<Q, K, V>> blocks that went   *)
(* into it.  The tiles loaded for one tile of the output are numbered      *)
(* 0 (Q), 1 (K of block 0), 2 (V of block 0), ...                          *)
(***************************************************************************)
EXTENDS MBarrier, Sequences, TLC

CONSTANTS
  kNWarps,          \* consumer warps, one below the other
  kBlockM, kBlockN, \* cells of a Q/O tile and of a K/V tile
  seq_len,          \* in the same unit
  Heads,            \* batch * kHeadNum
  is_causal,
  BlockIdx, GridDim,
  Torn              \* contents of shared memory nobody may rely on

STAGE == 2
CEILDIV(x, y) == (x + y - 1) \div y

M_num == CEILDIV(seq_len, kBlockM)
N_num == CEILDIV(seq_len, kBlockN)
tiles_num == M_num * Heads

ASSUME ShapeAssumption ==
  /\ {kNWarps, kBlockM, kBlockN, seq_len, Heads, GridDim} \subseteq Nat \ {0}
  /\ kBlockM % kNWarps = 0
  /\ seq_len % kBlockM = 0 /\ seq_len % kBlockN = 0
  /\ is_causal \in BOOLEAN
  /\ BlockIdx \in 0 .. GridDim - 1 /\ GridDim <= tiles_num

Warps == 0 .. kNWarps - 1
Leader == 0
Tiles == 0 .. tiles_num - 1

\* get_tile_coord.
q_block(t) == M_num - 1 - (t % M_num)
head(t) == t \div M_num

k_blocks(t) ==
  IF is_causal THEN CEILDIV((q_block(t) + 1) * kBlockM, kBlockN) ELSE N_num

\* Loads of a tile: number n is the Q tile, or K or V of a block.
LastLoad(t) == 2 * k_blocks(t)
KindOf(n) == IF n = 0 THEN "Q" ELSE IF n % 2 = 1 THEN "K" ELSE "V"
BlockOf(n) == (n - 1) \div 2
Data(t, n) ==
  <<KindOf(n), head(t), IF n = 0 THEN q_block(t) ELSE BlockOf(n)>>

-----------------------------------------------------------------------------
(* Storage: rows of kHeadDim elements.                                     *)

Larger == IF kBlockM >= kBlockN THEN kBlockM ELSE kBlockN
QK_size == kBlockN + Larger
k_stage_stride == Larger
QKVO_size == QK_size + kBlockN    \* O_size = q_size never exceeds it

Cells == 0 .. QKVO_size - 1

\* get_sQ(slot), stage slot of get_sK(), get_sV(), get_sO().
Base(kind, slot) ==
  CASE kind = "Q" -> kBlockN * slot
    [] kind = "K" -> k_stage_stride * slot
    [] kind = "V" -> QK_size
    [] kind = "O" -> 0

Tile(kind) == 0 .. (IF kind \in {"Q", "O"} THEN kBlockM ELSE kBlockN) - 1

\* TiledMMA deals the MMA atoms out to the warps in turn (row_stride).
RowsOf(w) == {r \in Tile("O") : r % kNWarps = w}

VARIABLES
  full, empty,  \* barriers of p_qk, one per slot, and of p_v
  mem,          \* QKV: per cell the data and the row of it the cell holds
  loads,        \* TMA loads issued and not completed
  prod,         \* the producer thread
  cons,         \* the consumer warps
  unfenced,     \* warps whose O rows are not yet visible to the TMA unit
  stores,       \* <<tile, warp>>: rows of sO a TMA store still has to read
  gO            \* the writes that reached each part of each output tile

vars == <<full, empty, mem, loads, prod, cons, unfenced, stores, gO>>

Bars == {"qk", "v"} \X (0 .. STAGE - 1)

\* One arrival per consumer warp (kNWarps<<5 threads).
EmptyCount == kNWarps

\* A side of the two pipelines: Pipeline is a PipelineState, SimplePipeline
\* one phase bit.  Both sides run through the loads of their tiles.
NewSide(parity, step) ==
  [tile |-> BlockIdx, n |-> 0, step |-> step,
   qk |-> NewState(parity), v |-> parity]

Kind(s) == KindOf(s.n)
Bar(s) == IF Kind(s) = "V" THEN <<"v", 0>> ELSE <<"qk", s.qk.index>>
Parity(s) == IF Kind(s) = "V" THEN s.v ELSE s.qk.phase

\* operator++ of the pipeline just used.
\* Mutant: the phase bit of SimplePipeline is never flipped.
Advanced_KeepPhase(s) ==
  IF Kind(s) = "V" THEN s ELSE [s EXCEPT !.qk = Advance(@, STAGE)]
Advanced(s) ==
  IF Kind(s) = "V" THEN [s EXCEPT !.v = Flip(@)]
                   ELSE [s EXCEPT !.qk = Advance(@, STAGE)]

\* The next load of the tile, or what follows the last one.
Proceed(s, again, after) ==
  IF s.n = LastLoad(s.tile) THEN [s EXCEPT !.step = after]
                            ELSE [s EXCEPT !.n = @ + 1, !.step = again]

\* The loop over the tiles of the block.
NextTile(s, first) ==
  [s EXCEPT !.tile = @ + GridDim, !.n = 0,
            !.step = IF s.tile + GridDim < tiles_num THEN first ELSE "done"]

Init ==
  /\ full = [b \in Bars |-> NewBarrier(1)]
  /\ empty = [b \in Bars |-> NewBarrier(EmptyCount)]
  /\ mem = [c \in Cells |-> <<Torn, 0>>]
  /\ loads = {}
  /\ prod = NewSide(1, "acquire")
  /\ cons = [w \in Warps |-> NewSide(0, "wait") @@
                             [rQ |-> Torn, rP |-> Torn, acc |-> << >>]]
  /\ unfenced = {} /\ stores = {}
  /\ gO = [tw \in Tiles \X Warps |-> << >>]

\* Memory after rows of a tile were overwritten, and what is found in rows.
Written(kind, slot, rows, data) ==
  [c \in Cells |-> LET r == c - Base(kind, slot)
                   IN  IF r \in rows THEN <<data, r>> ELSE mem[c]]
Read(kind, slot, rows) ==
  LET data == mem[Base(kind, slot) + (CHOOSE r \in rows : TRUE)][1]
  IN  IF \A r \in rows : mem[Base(kind, slot) + r] = <<data, r>>
      THEN data ELSE Torn

-----------------------------------------------------------------------------
(* Producer and TMA loads.                                                 *)

\* acquire: wait for the consumers, then announce the bytes.
SlotFree == Passes(empty[Bar(prod)], Parity(prod))

Acquire ==
  /\ prod.step = "acquire" /\ SlotFree
  /\ full' = [full EXCEPT ![Bar(prod)] = ArriveExpectTx(@, 1, 1)]
  /\ prod' = [prod EXCEPT !.step = "issue"]
  /\ UNCHANGED <<empty, mem, loads, cons, unfenced, stores, gO>>

\* The rest of copy_g2s.
Issue ==
  /\ prod.step = "issue"
  /\ LET kind == Kind(prod)
         slot == Bar(prod)[2]
         load == [kind |-> kind, slot |-> slot, bar |-> Bar(prod),
                  data |-> Data(prod.tile, prod.n)]
     IN  /\ loads' = loads \cup {load}
         /\ mem' = [c \in Cells |-> IF c - Base(kind, slot) \in Tile(kind)
                                    THEN <<Torn, 0>> ELSE mem[c]]
  /\ prod' = Proceed(Advanced(prod), "acquire", "tile")
  /\ UNCHANGED <<full, empty, cons, unfenced, stores, gO>>

LoadDone(l) ==
  /\ l \in loads
  /\ loads' = loads \ {l}
  /\ mem' = Written(l.kind, l.slot, Tile(l.kind), l.data)
  /\ full' = [full EXCEPT ![l.bar] = CompleteTx(@, 1, 1)]
  /\ UNCHANGED <<empty, prod, cons, unfenced, stores, gO>>

-----------------------------------------------------------------------------
(* Consumers.  Q_s2r, gemm_flash and gemm_flash_v wait for their tile, copy *)
(* it to registers, and release the slot.                                  *)

Wait(w) ==
  /\ cons[w].step = "wait"
  /\ Passes(full[Bar(cons[w])], Parity(cons[w]))
  /\ cons' = [cons EXCEPT ![w].step = "copy"]
  /\ UNCHANGED <<full, empty, mem, loads, prod, unfenced, stores, gO>>

\* The copy and the product of the tile; mask and softmax are in registers.
Copy(w) ==
  /\ cons[w].step = "copy"
  /\ LET s == cons[w]
         kind == Kind(s)
         rows == IF kind = "Q" THEN RowsOf(w) ELSE Tile(kind)
         got == Read(kind, Bar(s)[2], rows)
     IN  cons' = [cons EXCEPT ![w] =
           [CASE kind = "Q" -> [s EXCEPT !.rQ = got]
              [] kind = "K" -> [s EXCEPT !.rP = got]
              [] kind = "V" ->
                   [s EXCEPT !.acc = Append(@, <<s.rQ, s.rP, got>>)]
            EXCEPT !.step = "release"]]
  /\ UNCHANGED <<full, empty, mem, loads, prod, unfenced, stores, gO>>

Release(w) ==
  /\ cons[w].step = "release"
  /\ empty' = [empty EXCEPT ![Bar(cons[w])] = Arrive(@, EmptyCount)]
  /\ cons' = [cons EXCEPT ![w] = Proceed(Advanced(@), "wait", "writeO")]
  /\ UNCHANGED <<full, mem, loads, prod, unfenced, stores, gO>>

\* normalize_stats is local to the warp; O_r2s copies its rows to sO,
WriteO(w) ==
  /\ cons[w].step = "writeO"
  /\ mem' = Written("O", 0, RowsOf(w), <<"O", cons[w].acc>>)
  /\ unfenced' = unfenced \cup {w}
  /\ cons' = [cons EXCEPT ![w].step = "fenceO"]
  /\ UNCHANGED <<full, empty, loads, prod, stores, gO>>

\* and ends with tma_store_fence.
FenceO(w) ==
  /\ cons[w].step = "fenceO"
  /\ unfenced' = unfenced \ {w}
  /\ cons' = [cons EXCEPT ![w].step = "barO"]
  /\ UNCHANGED <<full, empty, mem, loads, prod, stores, gO>>

\* Mutant: the barrier expects one warp too few.
AllAtBarSync_ShortCount ==
  \A w \in Warps \ {Leader + 1} : cons[w].step = "barO"
AllAtBarSync == \A w \in Warps : cons[w].step = "barO"

AfterBarSync(w) == IF w = Leader THEN "store" ELSE "tile"

BarSync ==
  /\ AllAtBarSync
  /\ cons' = [w \in Warps |->
       IF cons[w].step # "barO" THEN cons[w]
       ELSE [cons[w] EXCEPT !.step = AfterBarSync(w)]]
  /\ UNCHANGED <<full, empty, mem, loads, prod, unfenced, stores, gO>>

\* O_s2g by the leader, and tma_store_wait<0>.
StoreO ==
  /\ cons[Leader].step = "store"
  /\ stores' = {cons[Leader].tile} \X Warps
  /\ cons' = [cons EXCEPT ![Leader].step = "drain"]
  /\ UNCHANGED <<full, empty, mem, loads, prod, unfenced, gO>>

DrainO ==
  /\ cons[Leader].step = "drain" /\ stores = {}
  /\ cons' = [cons EXCEPT ![Leader].step = "tile"]
  /\ UNCHANGED <<full, empty, mem, loads, prod, unfenced, stores, gO>>

\* The TMA unit reads and stores the rows one warp wrote.
StoreRead(st) ==
  /\ st \in stores
  /\ stores' = stores \ {st}
  /\ gO' = [gO EXCEPT ![st] = Append(@,
       IF st[2] \in unfenced THEN Torn ELSE Read("O", 0, RowsOf(st[2])))]
  /\ UNCHANGED <<full, empty, mem, loads, prod, cons, unfenced>>

\* tile_buffer_sync: consumers and producer leave the tile together.
TileSync ==
  /\ prod.step = "tile" /\ \A w \in Warps : cons[w].step = "tile"
  /\ prod' = NextTile(prod, "acquire")
  /\ cons' = [w \in Warps |-> [NextTile(cons[w], "wait") EXCEPT !.acc = << >>]]
  /\ UNCHANGED <<full, empty, mem, loads, unfenced, stores, gO>>

-----------------------------------------------------------------------------
Finished == prod.step = "done" /\ \A w \in Warps : cons[w].step = "done"
Terminated == Finished /\ UNCHANGED vars

ProducerStep == Acquire \/ Issue
ConsumerStep(w) == Wait(w) \/ Copy(w) \/ Release(w) \/ WriteO(w) \/ FenceO(w)
LeaderStep == StoreO \/ DrainO
TmaStep == (\E l \in loads : LoadDone(l)) \/ (\E st \in stores : StoreRead(st))

Next ==
  \/ ProducerStep \/ (\E w \in Warps : ConsumerStep(w)) \/ LeaderStep
  \/ BarSync \/ TileSync \/ TmaStep \/ Terminated

\* Every resident warp is scheduled, a complete barrier opens, and the TMA
\* unit finishes what it was given.
Fairness ==
  /\ WF_vars(ProducerStep) /\ WF_vars(LeaderStep)
  /\ \A w \in Warps : WF_vars(ConsumerStep(w))
  /\ WF_vars(BarSync) /\ WF_vars(TileSync) /\ WF_vars(TmaStep)

Spec == Init /\ [][Next]_vars
FairSpec == Spec /\ Fairness

-----------------------------------------------------------------------------
(* Properties.                                                             *)

\* What the rows of any warp must hold: every block up to the diagonal of a
\* causal tile, or all of them, each with the Q rows of the tile.
Attended(t) ==
  {i \in 0 .. N_num - 1 :
     is_causal => i * kBlockN < (q_block(t) + 1) * kBlockM}
TileResult(t, w) ==
  LET last == CHOOSE i \in Attended(t) : \A j \in Attended(t) : j <= i
  IN  <<"O", [i \in 1 .. last + 1 |-> << <<"Q", head(t), q_block(t)>>,
                <<"K", head(t), i - 1>>, <<"V", head(t), i - 1>> >>]>>

\* README: the kernel computes what the reference attention computes.  Every
\* part of the output that was stored (O_s2g) holds the result of its tile.
OutputMatchesReference ==
  \A t \in Tiles, w \in Warps :
    gO[<<t, w>>] \in {<< >>, << TileResult(t, w) >>}

Output == INSTANCE TileOutput WITH
            Parts <- Warps, Result <- TileResult, out <- gO,
            Mine <- {t \in Tiles : t % GridDim = BlockIdx}

\* With an odd number of key blocks the thread block keeps its promise: each
\* of its tiles stored once, complete and in order, nothing else written, and
\* every tile eventually stored.
ImplementsOutput == Output!Spec

\* Every thread leaves the kernel: neither ring, nor the named barriers, nor
\* the wait for the store blocks for ever.
Termination == <>[]Finished
=============================================================================
