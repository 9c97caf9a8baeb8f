------------------------------ MODULE FlashBlock ------------------------------
(***************************************************************************)
(* The inductive invariant of a whole block of FlashKernel, on top of that *)
(* of its pipelines (FlashRing).  AlignInv says how the named barriers     *)
(* keep the warps together and when stores are pending, ContentsOK what    *)
(* the rings hold; they hold for every grid of warps.  RegistersOK and     *)
(* OutputInv follow the data through the memory that Q, K, V and O share.  *)
(* They need KeysClear: with one column of warps, a warp writes sO while   *)
(* another may still read the last K block, which must not lie there.      *)
(***************************************************************************)
EXTENDS FlashRing

-----------------------------------------------------------------------------
(* The named barrier and the stores.                                       *)

\* Main loop and statistics; between the barriers of the statistics and of
\* the partial outputs; up to the barrier of the output; up to the end of the
\* tile.  With one column of warps only the barrier of the output is left.
Sections ==
  [looping  |-> AtQ \cup AtK \cup AtV \cup {"stats", "barStats"},
   partials |-> {"normalize", "partial", "barReduce"},
   writing  |-> {"reduce", "writeO", "fenceO", "barO"},
   storing  |-> {"store", "drain", "tile"},
   over     |-> {"done"}]

In(w, section) == cpc[w] \in Sections[section]
SameSection(v, w) ==
  \/ \E s \in DOMAIN Sections : In(v, s) /\ In(w, s)
  \/ WARPS_N = 1 /\ \A u \in {v, w} : In(u, "looping") \/ In(u, "writing")

AlignOK == \A v, w \in Warps : SameSection(v, w)

\* The points only some of the warps go through.
RolesOK ==
  \A w \in Warps :
    /\ cpc[w] = "partial" => warp_n(w) > 0
    /\ cpc[w] \in {"reduce", "writeO", "fenceO"} => warp_n(w) = 0
    /\ cpc[w] \in {"store", "drain"} => w = Leader
    /\ WARPS_N = 1 => ~ In(w, "partials") /\ cpc[w] \notin {"barStats", "reduce"}

\* Stores are pending only while the leader waits for them.
StoresOK ==
  /\ \A st \in stores :
       /\ st \in [tile : {cTile[Leader]}, row : TileRows]
       /\ cpc[Leader] = "drain"
  /\ unfenced = {w \in Warps : cpc[w] = "fenceO"}

AlignInv == AlignOK /\ RolesOK /\ StoresOK

-----------------------------------------------------------------------------
(* From the loads to the accumulators.                                     *)

\* The output tile lies over the first slot of the ring of Q and K.  No key
\* that is still to be multiplied is there when it is written: with several
\* columns since all warps pass the barrier of the statistics first, with one
\* column since the last of an odd number of key blocks is in the second slot.
KeysClear == WARPS_N > 1 \/ \A t \in Mine : k_blocks(t) % 2 = 1

\* The block stays with its tiles; with one column each begins in slot 0.
StartOK ==
  /\ pTile % GridDim = BlockIdx
  /\ WARPS_N = 1 /\ KeysClear => TileStart("qk") % 2 = 0

\* The rows of a tile in shared memory are those of the data.
Holds(kind, slot, rows, data) ==
  \A r \in rows : mem[Base(kind, slot) + r] = <<data, r>>

\* A slot holds its tile from the end of the load on, until the warps have
\* left the main loop.
ContentsOK ==
  (\A w \in Warps : In(w, "looping")) =>
    \A p \in Pipes : \A j \in Recent(p) :
      InFlight(<<p, SlotOf(p, j)>>)
        \/ Holds(KindOf(p, j), SlotOf(p, j), AllRows(KindOf(p, j)),
                 DataOf(p, j))

\* What the warps may still read when, with one column, the first of them is
\* past the main loop: the last block, and their rows of Q if it is the only
\* one.
LastOK ==
  WARPS_N = 1 /\ (\E w \in Warps : In(w, "writing")) =>
    LET i == k_blocks(pTile) - 1
    IN  /\ Holds("K", 1, AllRows("K"), Kdata(pTile, i))
        /\ Holds("V", 0, AllRows("V"), Vdata(pTile, i))
        /\ \A w \in Warps : cpc[w] \in AtQ =>
             Holds("Q", 0, RowsOfM(warp_m(w)), Qdata(pTile))

\* What a warp has in its registers.
Block(t, i) == <<Qdata(t), Kdata(t, i), Vdata(t, i)>>
SumTo(t, n) == [i \in 1 .. n |-> Block(t, i - 1)]
Progress(w) == cI[w] + (IF cpc[w] = "relV" THEN 1 ELSE 0)

RegistersOK ==
  \A w \in Warps :
    /\ acc[w] = SumTo(cTile[w], Progress(w))
    /\ cpc[w] \in (AtQ \cup AtK \cup AtV) \ {"Q"} =>
         frag[w][1] = Qdata(cTile[w])
    /\ cpc[w] \in {"relK", "V"} => frag[w][2] = Kdata(cTile[w], cI[w])

-----------------------------------------------------------------------------
(* From the accumulators to the output.                                    *)

Total(t) == SumTo(t, k_blocks(t))
Column(t) == <<Total(t), [n \in 1 .. WARPS_N |-> Total(t)]>>
WholeRow(t) == [n \in 1 .. WARPS_N |-> Column(t)]

StatsOK ==
  \A w \in Warps :
    cpc[w] = "barStats" \/ In(w, "partials") =>
      rowStats[w] = Total(cTile[w])

\* What a warp has normalised, and then added up.
ResultsOK ==
  \A w \in Warps :
    /\ cpc[w] \in {"partial", "barReduce", "reduce"} =>
         result[w] = << Column(cTile[w]) >>
    /\ cpc[w] = "writeO" => result[w] = WholeRow(cTile[w])

\* A partial output lies in sO until the warp in column 0 has added it.
PartialsOK ==
  \A w \in Warps :
    /\ warp_n(w) > 0
    /\ \/ cpc[w] = "barReduce"
       \/ In(w, "writing") /\ cpc[warp_m(w)] = "reduce"
    => Holds("O", warp_n(w) - 1, RowsOfM(warp_m(w)),
             <<"O", << Column(cTile[w]) >> >>)

\* The rows of the output lie in sO from their copy to the end of the tile.
StagedOK ==
  \A m \in TileRows :
    cpc[m] \in {"fenceO", "barO"} \/ In(m, "storing") =>
      Holds("O", 0, RowsOfM(m), <<"O", WholeRow(cTile[m])>>)

\* A part of a tile is written unless its store is still to come or pending.
Pending(t, m) == [tile |-> t, row |-> m] \in stores
Stored(t, m) ==
  /\ t \in Mine
  /\ t < pTile + (IF cpc[Leader] \in {"drain", "tile"} THEN 1 ELSE 0)
  /\ ~ Pending(t, m)

OutputOK ==
  \A t \in Tiles, m \in TileRows :
    gO[<<t, m>>] = IF Stored(t, m) THEN << <<"O", WholeRow(t)>> >> ELSE << >>

OutputInv == StatsOK /\ ResultsOK /\ PartialsOK /\ StagedOK /\ OutputOK

\* The inductive invariant of a block (flash_atten_v3_fwd).
BlockInv ==
  /\ RingInv /\ AlignInv /\ StartOK /\ ContentsOK
  /\ KeysClear => LastOK /\ RegistersOK /\ OutputInv
=============================================================================
