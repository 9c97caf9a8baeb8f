----------------------------- MODULE FlashKernel -----------------------------
(***************************************************************************)
(* One thread block of flash_atten_v3_fwd                                  *)
(* (src/flashattention/v3_mMnNkN; v3_mMn1k1 is in FlashOneColumn).         *)
(*                                                                         *)
(* Q and K tiles share a two-slot ring, V has a ring of one slot, and the  *)
(* output tile and the partial outputs of the warp columns are staged on   *)
(* top of the memory of Q, K and V.  Shared memory is therefore modelled   *)
(* cell by cell, one cell per row of a tile, and who may touch which cell  *)
(* when is what the properties are about.                                  *)
(*                                                                         *)
(* As in GemmKernel the unit of interleaving is the warp, the TMA unit is  *)
(* an actor, a cell under a TMA load holds Torn, and arithmetic is         *)
(* replaced by labels: the accumulator of a warp is the sequence of        *)
(* <<Q, K, V>> blocks it was computed from.                                *)
(***************************************************************************)
EXTENDS MBarrier, Sequences, FiniteSets

CONSTANTS
  STAGE,            \* slots of the Q/K ring; the code asserts 2
  WARPS_M, WARPS_N, \* rows and columns of the consumer warp grid
  kBlockM, kBlockN, \* rows of a Q/O tile and of a K/V tile
  SeqLen,           \* seq_len, in the same rows
  Heads,            \* batch * kHeadNum
  IsCausal,         \* is_causal
  BlockIdx, GridDim,
  Torn              \* contents of shared memory nobody may rely on

CeilDiv(x, y) == (x + y - 1) \div y

M_num == CeilDiv(SeqLen, kBlockM)
N_num == CeilDiv(SeqLen, kBlockN)
tiles_num == M_num * Heads

ASSUME ShapeAssumption ==
  /\ STAGE = 2
  /\ {WARPS_M, WARPS_N, kBlockM, kBlockN, SeqLen, Heads, GridDim}
       \subseteq Nat \ {0}
  /\ kBlockM % WARPS_M = 0 /\ kBlockN % WARPS_N = 0
  /\ SeqLen % kBlockM = 0 /\ SeqLen % kBlockN = 0
  /\ IsCausal \in BOOLEAN
  /\ BlockIdx \in 0 .. GridDim - 1
  /\ GridDim <= tiles_num

-----------------------------------------------------------------------------
(* Warps and tiles.                                                        *)

Warps == 0 .. WARPS_M * WARPS_N - 1
Leader == 0
warp_m(w) == w % WARPS_M
warp_n(w) == w \div WARPS_M

\* get_tile_coord: the last block of queries of a head comes first.
q_block(t) == M_num - 1 - (t % M_num)
head(t) == t \div M_num

\* Causal tiles stop at the block that holds their last row.
\* Mutant: the division rounds down.
k_blocks_Floor(t) ==
  IF IsCausal THEN ((q_block(t) + 1) * kBlockM) \div kBlockN ELSE N_num
k_blocks(t) ==
  IF IsCausal THEN CeilDiv((q_block(t) + 1) * kBlockM, kBlockN) ELSE N_num

Qdata(t) == <<"Q", head(t), q_block(t)>>
Kdata(t, i) == <<"K", head(t), i>>
Vdata(t, i) == <<"V", head(t), i>>

-----------------------------------------------------------------------------
(* The layout of Storage::QKV in rows of kHeadDim elements.                *)

q_size == kBlockM
k_size == kBlockN
Larger == IF q_size >= k_size THEN q_size ELSE k_size
QK_size == k_size + Larger
k_stage_stride == Larger
O_size == (IF WARPS_N > 1 THEN WARPS_N - 1 ELSE 1) * q_size
QKV_size == QK_size + k_size
QKVO_size == IF QKV_size >= O_size THEN QKV_size ELSE O_size

Cells == 0 .. QKVO_size - 1

\* Mutant: K stages packed at the size of a K tile.
Base_Packed(kind, slot) ==
  CASE kind = "Q" -> k_size * slot
    [] kind = "K" -> k_size * slot
    [] kind = "V" -> QK_size
    [] kind = "O" -> q_size * slot

\* First cell of get_sQ(slot), stage slot of get_sK(), get_sV(), get_sO(slot).
Base(kind, slot) ==
  CASE kind = "Q" -> k_size * slot
    [] kind = "K" -> k_stage_stride * slot
    [] kind = "V" -> QK_size
    [] kind = "O" -> q_size * slot

Rows(kind) == IF kind \in {"Q", "O"} THEN q_size ELSE k_size

\* Rows of a tile used by warp row m (Q, O) and warp column n (K, V).
RowsOfM(m) == {r \in 0 .. kBlockM - 1 : r \div (kBlockM \div WARPS_M) = m}
RowsOfN(n) == {r \in 0 .. kBlockN - 1 : r \div (kBlockN \div WARPS_N) = n}
AllRows(kind) == 0 .. Rows(kind) - 1
CellsOf(kind, slot, rows) == {Base(kind, slot) + r : r \in rows}

VARIABLES
  full, empty, \* p_qk and p_v: barriers of <<pipeline, slot>>
  mem,         \* QKV: per cell the data and the row of it the cell holds
  loads,       \* TMA loads issued and not completed
  ppc, pTile, pI, pState, \* producer: operation, tile, k-block, pipelines
  cpc, cTile, cI, cState, \* consumer warps: the same
  frag,        \* operand fragments of a warp: Q, and K of the current block
  acc,         \* blocks accumulated into rO, rS_max and rS_sum of a warp
  rowStats,    \* row_max/row_sum: what each warp published
  result,      \* normalised output of a warp, then the sum over its row
  unfenced,    \* warps whose O rows were written and not yet fenced
  stores,      \* reads of sO by TMA stores still to be done
  gO           \* the writes that reached each part of each output tile

pvars == <<ppc, pTile, pI, pState>>
cvars == <<cpc, cTile, cI, cState, frag, acc, result>>
evars == <<rowStats, unfenced, stores, gO>>
vars  == <<full, empty, mem, loads, pvars, cvars, evars>>

Pipes == {"qk", "v"}
Stages(p) == IF p = "qk" THEN STAGE ELSE 1
Bars == {b \in Pipes \X (0 .. STAGE - 1) : b[2] < Stages(b[1])}
FullCount == 1
\* Mutant: the leader's warp is not counted.
EmptyCount_TooFew == WARPS_M * WARPS_N - 1
EmptyCount == WARPS_M * WARPS_N    \* kNWarps<<5 threads, counted per warp

Blank == <<Torn, 0>>

\* The data found in the given rows of a tile, Torn unless they all hold it.
Read(kind, slot, rows) ==
  LET cell(r) == mem[Base(kind, slot) + r]
      data == cell(CHOOSE r \in rows : TRUE)[1]
  IN  IF \A r \in rows : cell(r) = <<data, r>> THEN data ELSE Torn

\* Shared memory after rows of a tile were overwritten with data.
Written(kind, slot, rows, data) ==
  [c \in Cells |-> IF c \in CellsOf(kind, slot, rows)
                   THEN <<data, c - Base(kind, slot)>> ELSE mem[c]]

Tiles == 0 .. tiles_num - 1
TileRows == 0 .. WARPS_M - 1

Init ==
  /\ full = [b \in Bars |-> NewBarrier(FullCount)]
  /\ empty = [b \in Bars |-> NewBarrier(EmptyCount)]
  /\ mem = [c \in Cells |-> Blank]
  /\ loads = {}
  /\ ppc = "Q" /\ pTile = BlockIdx /\ pI = 0
  /\ pState = [p \in Pipes |-> NewState(1)]
  /\ cpc = [w \in Warps |-> "Q"]
  /\ cTile = [w \in Warps |-> BlockIdx]
  /\ cI = [w \in Warps |-> 0]
  /\ cState = [w \in Warps |-> [p \in Pipes |-> NewState(0)]]
  /\ frag = [w \in Warps |-> << >>]
  /\ acc = [w \in Warps |-> << >>]
  /\ rowStats = [w \in Warps |-> << >>]
  /\ result = [w \in Warps |-> << >>]
  /\ unfenced = {}
  /\ stores = {}
  /\ gO = [tm \in Tiles \X TileRows |-> << >>]

-----------------------------------------------------------------------------
(* Producer: per tile Q, then K and V of every block.                      *)

PipeOf(kind) == IF kind = "V" THEN "v" ELSE "qk"
pBar(p) == <<p, pState[p].index>>

Producing == {"Q", "K", "V"}
Copying == [Q |-> "copyQ", K |-> "copyK", V |-> "copyV"]

\* Mutant: no wait for the consumers' release.
SlotFree_Always(p) == TRUE
SlotFree(p) == Passes(empty[pBar(p)], pState[p].phase)

\* Pipeline::acquire.
Acquire(kind) ==
  /\ ppc = kind
  /\ SlotFree(PipeOf(kind))
  /\ full' = [full EXCEPT ![pBar(PipeOf(kind))] =
                ArriveExpectTx(@, FullCount, 1)]
  /\ ppc' = Copying[kind]
  /\ UNCHANGED <<empty, mem, loads, pTile, pI, pState, cvars, evars>>

Data(kind) == CASE kind = "Q" -> Qdata(pTile)
                [] kind = "K" -> Kdata(pTile, pI)
                [] kind = "V" -> Vdata(pTile, pI)

\* Loop header of the k-loops.
LastBlock(t, i) == i + 1 >= k_blocks(t)

\* The rest of Pipeline::copy_g2s, then the producer's loop header.
Issue(kind) ==
  /\ ppc = Copying[kind]
  /\ LET p == PipeOf(kind)
         s == pState[p].index
         load == [kind |-> kind, slot |-> s, data |-> Data(kind)]
     IN  /\ loads' = loads \cup {load}
         /\ mem' = [c \in Cells |-> IF c \in CellsOf(kind, s, AllRows(kind))
                                    THEN Blank ELSE mem[c]]
         /\ pState' = [pState EXCEPT ![p] = Advance(@, Stages(p))]
  /\ ppc' = CASE kind = "Q" -> "K"
              [] kind = "K" -> "V"
              [] kind = "V" -> IF LastBlock(pTile, pI) THEN "tile" ELSE "K"
  /\ pI' = IF kind = "V" THEN pI + 1 ELSE pI
  /\ UNCHANGED <<full, empty, pTile, cvars, evars>>

\* The TMA unit finishes a load and counts its bytes on the full barrier.
LoadDone(l) ==
  /\ l \in loads
  /\ loads' = loads \ {l}
  /\ mem' = Written(l.kind, l.slot, AllRows(l.kind), l.data)
  /\ full' = [full EXCEPT ![<<PipeOf(l.kind), l.slot>>] =
                CompleteTx(@, FullCount, 1)]
  /\ UNCHANGED <<empty, pvars, cvars, evars>>

-----------------------------------------------------------------------------
(* Consumers: main loop.                                                   *)

cBar(w, p) == <<p, cState[w][p].index>>

SlotFull(w, p) == Passes(full[cBar(w, p)], cState[w][p].phase)

Goto(w, label) == cpc' = [cpc EXCEPT ![w] = label]

\* Q_s2r and gemm_flash: wait, then copy the fragments of the warp.
ReadQ(w) ==
  /\ cpc[w] = "Q"
  /\ SlotFull(w, "qk")
  /\ frag' = [frag EXCEPT ![w] =
       << Read("Q", cState[w]["qk"].index, RowsOfM(warp_m(w))) >>]
  /\ Goto(w, "relQ")
  /\ UNCHANGED <<full, empty, mem, loads, pvars, cTile, cI, cState, acc,
                 result, evars>>

ReadK(w) ==
  /\ cpc[w] = "K"
  /\ SlotFull(w, "qk")
  /\ Goto(w, "mulK")
  /\ UNCHANGED <<full, empty, mem, loads, pvars, cTile, cI, cState, frag, acc,
                 result, evars>>

\* The copies of K are interleaved with the products, long after the wait.
MultiplyK(w) ==
  /\ cpc[w] = "mulK"
  /\ frag' = [frag EXCEPT ![w] = << @[1],
       Read("K", cState[w]["qk"].index, RowsOfN(warp_n(w))) >>]
  /\ Goto(w, "relK")
  /\ UNCHANGED <<full, empty, mem, loads, pvars, cTile, cI, cState, acc,
                 result, evars>>

\* Pipeline::release of the ring p.
\* Mutant: the slot is released without the arrival.
Arrived_Forgotten(w, p) == empty
Arrived(w, p) == [empty EXCEPT ![cBar(w, p)] = Arrive(@, EmptyCount)]

ReleaseQK(w) ==
  /\ cpc[w] \in {"relQ", "relK"}
  /\ empty' = Arrived(w, "qk")
  /\ cState' = [cState EXCEPT ![w]["qk"] = Advance(@, STAGE)]
  /\ Goto(w, IF cpc[w] = "relQ" THEN "K" ELSE "V")
  /\ UNCHANGED <<full, mem, loads, pvars, cTile, cI, frag, acc, result, evars>>

\* gemm_flash_v, after the mask and the softmax of the block in registers.
ReadV(w) ==
  /\ cpc[w] = "V"
  /\ SlotFull(w, "v")
  /\ acc' = [acc EXCEPT ![w] = Append(@,
       <<frag[w][1], frag[w][2], Read("V", 0, RowsOfN(warp_n(w)))>>)]
  /\ Goto(w, "relV")
  /\ UNCHANGED <<full, empty, mem, loads, pvars, cTile, cI, cState, frag,
                 result, evars>>

ReleaseV(w) ==
  /\ cpc[w] = "relV"
  /\ empty' = Arrived(w, "v")
  /\ cState' = [cState EXCEPT ![w]["v"] = Advance(@, 1)]
  /\ cI' = [cI EXCEPT ![w] = @ + 1]
  /\ Goto(w, IF LastBlock(cTile[w], cI[w]) THEN "stats" ELSE "K")
  /\ UNCHANGED <<full, mem, loads, pvars, cTile, frag, acc, result, evars>>

-----------------------------------------------------------------------------
(* Consumers: normalisation over the warp columns and output.              *)

\* normalize_stats needs no other warp with one warp column; with several,
\* every warp publishes its statistics,
NormalizeStats(w) ==
  /\ cpc[w] = "stats"
  /\ IF WARPS_N = 1
     THEN /\ result' = [result EXCEPT ![w] = << <<acc[w], <<acc[w]>> >> >>]
          /\ Goto(w, "writeO")
          /\ UNCHANGED rowStats
     ELSE /\ rowStats' = [rowStats EXCEPT ![w] = acc[w]]
          /\ Goto(w, "barStats")
          /\ UNCHANGED result
  /\ UNCHANGED <<full, empty, mem, loads, pvars, cTile, cI, cState, frag, acc,
                 unfenced, stores, gO>>

\* Warps of the same rows, in the order of their columns.
RowPeers(w) == [n \in 1 .. WARPS_N |-> warp_m(w) + WARPS_M * (n - 1)]

\* and reads those of its row after a barrier.
NormalizeRow(w) ==
  /\ cpc[w] = "normalize"
  /\ result' = [result EXCEPT ![w] =
       << <<acc[w], [n \in 1 .. WARPS_N |-> rowStats[RowPeers(w)[n]]]>> >>]
  /\ Goto(w, IF warp_n(w) > 0 THEN "partial" ELSE "barReduce")
  /\ UNCHANGED <<full, empty, mem, loads, pvars, cTile, cI, cState, frag, acc,
                 evars>>

\* reduce_o_warps_n: the other columns leave their partial outputs in sO,
WritePartial(w) ==
  /\ cpc[w] = "partial"
  /\ mem' = Written("O", warp_n(w) - 1, RowsOfM(warp_m(w)), <<"O", result[w]>>)
  /\ Goto(w, "barReduce")
  /\ UNCHANGED <<full, empty, loads, pvars, cTile, cI, cState, frag, acc,
                 result, evars>>

Partial(w, n) ==
  LET data == Read("O", n - 1, RowsOfM(warp_m(w)))
  IN  IF data # Torn /\ data[1] = "O" THEN data[2][1] ELSE Torn

\* and column 0 adds them up after a barrier.
ReducePartials(w) ==
  /\ cpc[w] = "reduce"
  /\ result' = [result EXCEPT ![w] =
       @ \o [n \in 1 .. WARPS_N - 1 |-> Partial(w, n)]]
  /\ Goto(w, "writeO")
  /\ UNCHANGED <<full, empty, mem, loads, pvars, cTile, cI, cState, frag, acc,
                 evars>>

\* O_r2s: the copy ...
WriteO(w) ==
  /\ cpc[w] = "writeO"
  /\ mem' = Written("O", 0, RowsOfM(warp_m(w)), <<"O", result[w]>>)
  /\ unfenced' = unfenced \cup {w}
  /\ Goto(w, "fenceO")
  /\ UNCHANGED <<full, empty, loads, pvars, cTile, cI, cState, frag, acc,
                 result, rowStats, stores, gO>>

\* ... and tma_store_fence.
FenceO(w) ==
  /\ cpc[w] = "fenceO"
  /\ unfenced' = unfenced \ {w}
  /\ Goto(w, "barO")
  /\ UNCHANGED <<full, empty, mem, loads, pvars, cTile, cI, cState, frag, acc,
                 result, rowStats, stores, gO>>

\* All bar_sync calls share EpilogueBarrier: it opens when every consumer
\* warp waits at it, whichever call it is in.
AtBarSync(w) == cpc[w] \in {"barStats", "barReduce", "barO"}

\* Mutant: the barrier expects one warp too few.
AllAtBarSync_ShortCount == \A w \in Warps \ {Leader} : AtBarSync(w)
AllAtBarSync == \A w \in Warps : AtBarSync(w)

AfterBarSync(w) ==
  CASE cpc[w] = "barStats" -> "normalize"
    [] cpc[w] = "barReduce" -> IF warp_n(w) = 0 THEN "reduce" ELSE "barO"
    [] cpc[w] = "barO" -> IF w = Leader THEN "store" ELSE "tile"
    [] OTHER -> cpc[w]

BarSync ==
  /\ AllAtBarSync
  /\ cpc' = [w \in Warps |-> AfterBarSync(w)]
  /\ UNCHANGED <<full, empty, mem, loads, pvars, cTile, cI, cState, frag, acc,
                 result, evars>>

\* O_s2g: the leader issues and commits the store of the tile,
StoreO ==
  /\ cpc[Leader] = "store"
  /\ stores' = stores \cup [tile : {cTile[Leader]}, row : TileRows]
  /\ Goto(Leader, "drain")
  /\ UNCHANGED <<full, empty, mem, loads, pvars, cTile, cI, cState, frag, acc,
                 result, rowStats, unfenced, gO>>

\* and tma_store_wait<0> waits until it has been read.
\* Mutant: the wait is dropped.
Drained_NoWait == TRUE
Drained == stores = {}

DrainO ==
  /\ cpc[Leader] = "drain"
  /\ Drained
  /\ Goto(Leader, "tile")
  /\ UNCHANGED <<full, empty, mem, loads, pvars, cTile, cI, cState, frag, acc,
                 result, evars>>

\* The TMA unit reads the rows one warp wrote and stores them; column 0 of
\* warp row m is the warp m.  Rows that were not fenced are not visible.
StoreRead(st) ==
  /\ st \in stores
  /\ stores' = stores \ {st}
  /\ gO' = [gO EXCEPT ![<<st.tile, st.row>>] = Append(@,
       IF st.row \in unfenced THEN Torn ELSE Read("O", 0, RowsOfM(st.row)))]
  /\ UNCHANGED <<full, empty, mem, loads, pvars, cvars, rowStats, unfenced>>

\* tile_buffer_sync: consumers and producer leave the tile together.
AllAtTile == ppc = "tile" /\ \A w \in Warps : cpc[w] = "tile"

NextTile(t) == t + GridDim
Resume(t) == IF NextTile(t) < tiles_num THEN "Q" ELSE "done"

TileSync ==
  /\ AllAtTile
  /\ ppc' = Resume(pTile) /\ pTile' = NextTile(pTile) /\ pI' = 0
  /\ cpc' = [w \in Warps |-> Resume(cTile[w])]
  /\ cTile' = [w \in Warps |-> NextTile(cTile[w])]
  /\ cI' = [w \in Warps |-> 0]
  /\ acc' = [w \in Warps |-> << >>]
  /\ UNCHANGED <<full, empty, mem, loads, pState, cState, frag, result, evars>>

-----------------------------------------------------------------------------
Finished == ppc = "done" /\ \A w \in Warps : cpc[w] = "done"

Terminated == Finished /\ UNCHANGED vars

ProducerStep == \E kind \in Producing : Acquire(kind) \/ Issue(kind)
ConsumerStep(w) ==
  \/ ReadQ(w) \/ ReadK(w) \/ MultiplyK(w) \/ ReleaseQK(w) \/ ReadV(w)
  \/ ReleaseV(w)
  \/ NormalizeStats(w) \/ NormalizeRow(w)
  \/ WritePartial(w) \/ ReducePartials(w) \/ WriteO(w) \/ FenceO(w)
LeaderStep == StoreO \/ DrainO
TmaStep == (\E l \in loads : LoadDone(l)) \/ (\E st \in stores : StoreRead(st))

Next ==
  \/ ProducerStep
  \/ \E w \in Warps : ConsumerStep(w)
  \/ LeaderStep
  \/ BarSync
  \/ TileSync
  \/ TmaStep
  \/ Terminated

Spec == Init /\ [][Next]_vars

\* The hardware schedules every resident warp, opens a complete barrier and
\* finishes every TMA operation.
Fairness ==
  /\ WF_vars(ProducerStep)
  /\ \A w \in Warps : WF_vars(ConsumerStep(w))
  /\ WF_vars(LeaderStep)
  /\ WF_vars(BarSync)
  /\ WF_vars(TileSync)
  /\ WF_vars(TmaStep)

FairSpec == Spec /\ Fairness

-----------------------------------------------------------------------------
(* Properties.                                                             *)

PPcs == Producing \cup {"copyQ", "copyK", "copyV", "tile", "done"}
CPcs == {"Q", "relQ", "K", "mulK", "relK", "V", "relV", "stats", "barStats",
         "normalize", "partial", "barReduce", "reduce", "writeO", "fenceO",
         "barO", "store", "drain", "tile", "done"}
Barriers(count) == [phase : Nat, pending : 1 .. count, tx : {0}]
States(p) == [index : 0 .. Stages(p) - 1, phase : {0, 1}, count : Nat]

\* Types of the control state of a thread block (flash_atten_v3_fwd), with the
\* arrivals of no empty barrier ever exceeding its count.
TypeOK ==
  /\ \A b \in Bars :
       /\ full[b].phase \in Nat /\ full[b].pending \in {0, 1}
       /\ full[b].tx = 1 - full[b].pending
       /\ empty[b] \in Barriers(EmptyCount)
  /\ DOMAIN mem = Cells
  /\ loads \subseteq [kind : Producing, slot : 0 .. STAGE - 1,
                      data : Producing \X Nat \X Nat]
  /\ ppc \in PPcs /\ pTile \in Nat /\ pI \in Nat
  /\ \A p \in Pipes : pState[p] \in States(p)
  /\ \A w \in Warps : \A p \in Pipes : cState[w][p] \in States(p)
  /\ cpc \in [Warps -> CPcs]
  /\ cTile \in [Warps -> Nat] /\ cI \in [Warps -> Nat]
  /\ unfenced \subseteq Warps
  /\ stores \subseteq [tile : Tiles, row : TileRows]

Round(p, n) == n \div Stages(p)

\* A wait looks at one parity bit.  On both rings nobody is ever two phases
\* away from the barrier it waits on, so the bit identifies the phase.
NoParityAlias ==
  /\ \A w \in Warps, p \in Pipes :
       cpc[w] \in (IF p = "qk" THEN {"Q", "K"} ELSE {"V"}) =>
         full[cBar(w, p)].phase - Round(p, cState[w][p].count) \in {0, 1}
  /\ \A kind \in Producing : ppc = kind =>
       LET p == PipeOf(kind)
       IN  Round(p, pState[p].count) - empty[pBar(p)].phase \in {0, 1}

\* Shared memory a warp may still read.
LiveCells(w) ==
  LET ring == cState[w]["qk"].index
  IN  CASE cpc[w] = "relQ" -> CellsOf("Q", ring, RowsOfM(warp_m(w)))
        [] cpc[w] \in {"mulK", "relK"} ->
             CellsOf("K", ring, RowsOfN(warp_n(w)))
        [] cpc[w] = "relV" -> CellsOf("V", 0, RowsOfN(warp_n(w)))
        [] cpc[w] = "reduce" ->
             UNION {CellsOf("O", n, RowsOfM(warp_m(w))) :
                      n \in 0 .. WARPS_N - 2}
        [] OTHER -> {}

\* Cells the TMA unit is writing, and cells it still has to read.
LoadCells(l) == CellsOf(l.kind, l.slot, AllRows(l.kind))
StoreCells(st) == CellsOf("O", 0, RowsOfM(st.row))

\* No TMA load overwrites a tile a warp is reading or a store has to read, and
\* two loads in flight never share memory: Q, K, V and O are laid over each
\* other, but their uses never meet.
NoOverlap ==
  /\ \A l \in loads :
       /\ \A w \in Warps : LoadCells(l) \cap LiveCells(w) = {}
       /\ \A st \in stores : LoadCells(l) \cap StoreCells(st) = {}
       /\ \A k \in loads : k # l => LoadCells(l) \cap LoadCells(k) = {}
  /\ stores # {} => \A w \in Warps : cpc[w] \in {"barO", "tile", "drain"}

\* Each warp multiplies the Q, K and V blocks of its own tile, each block once
\* and in order, and never one that another warp's output has overwritten.  A
\* causal tile attends to every block with a column up to its last row.
Attended(t) ==
  {i \in 0 .. N_num - 1 : IsCausal => i * kBlockN < (q_block(t) + 1) * kBlockM}
FullAcc(t) == [i \in 1 .. Cardinality(Attended(t)) |->
                 <<Qdata(t), Kdata(t, i - 1), Vdata(t, i - 1)>>]

OperandsIntact ==
  \A w \in Warps :
    /\ acc[w] = SubSeq(FullAcc(cTile[w]), 1, Len(acc[w]))
    /\ cpc[w] = "stats" => acc[w] = FullAcc(cTile[w])

\* Warps waiting together at EpilogueBarrier are at the same call of the same
\* tile; nobody is at a later call before all have passed the earlier ones.
BarSyncAligned ==
  \A v, w \in Warps : AtBarSync(v) /\ AtBarSync(w) =>
    /\ cTile[v] = cTile[w]
    /\ cpc[v] = "barStats" => cpc[w] = "barStats"
    /\ cpc[v] = "barReduce" => cpc[w] = "barReduce"

\* The value of a row part of a tile: the sum over the warp columns of outputs
\* normalised with the statistics of all columns.
ColumnResult(t) == <<FullAcc(t), [n \in 1 .. WARPS_N |-> FullAcc(t)]>>
TileResult(t, m) == <<"O", [n \in 1 .. WARPS_N |-> ColumnResult(t)]>>

\* Torn is told apart from the partial outputs in shared memory.
ASSUME TornAssumption ==
  \A t \in Tiles : Torn # <<"O", << ColumnResult(t) >> >>

\* README: the kernel computes what the reference attention computes.  Every
\* part of the output that was stored holds the complete result of its tile.
OutputMatchesReference ==
  \A t \in Tiles, m \in TileRows :
    gO[<<t, m>>] \in {<< >>, << TileResult(t, m) >>}

\* Tiles blockIdx.x, blockIdx.x + gridDim.x, ... of the grid-stride loops.
Mine == {t \in Tiles : t % GridDim = BlockIdx}

Output == INSTANCE TileOutput WITH
            Parts <- TileRows, Result <- TileResult, out <- gO

\* The block implements its promise: each of its tiles stored once, complete
\* and in order, nothing else written, and every tile eventually stored.
ImplementsOutput == Output!Spec

\* Every thread leaves the kernel: neither ring, nor the named barriers, nor
\* the store wait blocks for ever.
Termination == <>[]Finished
=============================================================================
