------------------------------ MODULE FlashRing ------------------------------
(***************************************************************************)
(* The inductive invariant of the two pipelines of FlashKernel.  For every *)
(* barrier b, a slot of a pipeline, the rounds are ordered as in GemmRing: *)
(*                                                                         *)
(*    empty[b].phase <= Freed(w, b) <= full[b].phase <= Armed(b)           *)
(*                   <= empty[b].phase + 1                                 *)
(*                                                                         *)
(* for every consumer warp w.  Unlike there, the loads of a tile differ in *)
(* kind and size, and what lies where is known from the position of a use  *)
(* in its tile: the Q tile is use 0 of the ring of Q and K, block i of K   *)
(* is use i + 1, and block i of V is use i of the ring of V.               *)
(***************************************************************************)
EXTENDS FlashKernel

-----------------------------------------------------------------------------
(* The barriers.                                                           *)

\* How many of the uses 0 .. n - 1 of pipeline p were uses of slot s.
Uses(p, n, s) == (n + Stages(p) - 1 - s) \div Stages(p)

\* The producer has armed a full barrier of p and not issued the load.
Filling(p) == ppc \in (IF p = "qk" THEN {"copyQ", "copyK"} ELSE {"copyV"})

\* The warp is between its wait and its release.
Reading(w, p) ==
  cpc[w] \in (IF p = "qk" THEN {"relQ", "mulK", "relK"} ELSE {"relV"})

Unissued(b) == Filling(b[1]) /\ pState[b[1]].index = b[2]

Armed(b) ==
  Uses(b[1], pState[b[1]].count, b[2]) + (IF Unissued(b) THEN 1 ELSE 0)
Freed(w, b) == Uses(b[1], cState[w][b[1]].count, b[2])
Held(w, b) ==
  IF Reading(w, b[1]) /\ cState[w][b[1]].index = b[2] THEN 1 ELSE 0

\* Warps that have arrived on the current phase of the empty barrier.
Arrivals(b) == {w \in Warps : Freed(w, b) = empty[b].phase + 1}

BarOf(l) == <<PipeOf(l.kind), l.slot>>
InFlight(b) == \E l \in loads : BarOf(l) = b
Owed(b) == IF Unissued(b) \/ InFlight(b) THEN 1 ELSE 0

\* The producer starts with the parity 1, so that its first waits pass.
StateOK(p, st, start) ==
  /\ st.index = st.count % Stages(p)
  /\ st.phase = (st.count \div Stages(p) + start) % 2

StatesOK ==
  \A p \in Pipes :
    StateOK(p, pState[p], 1) /\ \A w \in Warps : StateOK(p, cState[w][p], 0)

RoundsOK ==
  \A b \in Bars :
    /\ full[b].phase <= Armed(b) /\ Armed(b) <= full[b].phase + 1
    /\ Armed(b) <= empty[b].phase + 1
    /\ \A w \in Warps :
         /\ empty[b].phase <= Freed(w, b)
         /\ Freed(w, b) + Held(w, b) <= full[b].phase

\* The full barrier waits for the load that is owed, or for the producer.
FullOK ==
  \A b \in Bars :
    /\ full[b].tx = Owed(b)
    /\ IF full[b].phase = Armed(b)
       THEN full[b].pending = 1 /\ full[b].tx = 0
       ELSE full[b].pending = 0 /\ full[b].tx = 1

\* A slot has one load at a time, and none before it is issued.
LoadsOK ==
  /\ \A k, l \in loads : BarOf(k) = BarOf(l) => k = l
  /\ \A l \in loads : BarOf(l) \in Bars /\ ~ Unissued(BarOf(l))

\* The empty barrier counts the warps that have released the slot.
EmptyOK ==
  \A b \in Bars :
    /\ empty[b].tx = 0
    /\ empty[b].pending = EmptyCount - Cardinality(Arrivals(b))
    /\ empty[b].pending # 0

-----------------------------------------------------------------------------
(* The loops.                                                              *)

AnyBarrier == [phase : Nat, pending : Int, tx : Int]
AnyState == [index : 0 .. STAGE - 1, phase : {0, 1}, count : Nat]

\* The types of the control state, but for the bounds the rest implies.
FlashTypes ==
  /\ full \in [Bars -> AnyBarrier] /\ empty \in [Bars -> AnyBarrier]
  /\ DOMAIN mem = Cells
  /\ ppc \in PPcs /\ pTile \in Nat /\ pI \in Nat
  /\ pState \in [Pipes -> AnyState]
  /\ cpc \in [Warps -> CPcs]
  /\ cTile \in [Warps -> Nat] /\ cI \in [Warps -> Nat]
  /\ cState \in [Warps -> [Pipes -> AnyState]]
  /\ loads \subseteq [kind : Producing, slot : 0 .. STAGE - 1,
                      data : Producing \X Nat \X Nat]
  /\ unfenced \subseteq Warps
  /\ DOMAIN frag = Warps /\ DOMAIN acc = Warps
  /\ DOMAIN rowStats = Warps /\ DOMAIN result = Warps
  /\ DOMAIN gO = Tiles \X TileRows

\* Program points of a warp before, inside and after the loop over k-blocks.
AtQ == {"Q", "relQ"}
AtK == {"K", "mulK", "relK"}
AtV == {"V", "relV"}
Past == CPcs \ (AtQ \cup AtK \cup AtV \cup {"done"})

ProducerOK ==
  /\ ppc \in {"Q", "copyQ", "done"} => pI = 0
  /\ ppc \in {"K", "copyK", "V", "copyV"} => pI < k_blocks(pTile)
  /\ ppc = "tile" => pI = k_blocks(pTile)
  /\ ppc = "done" <=> pTile >= tiles_num

\* Everybody is in the same tile, and leaves it together.
ConsumerOK ==
  \A w \in Warps :
    /\ cTile[w] = pTile
    /\ cpc[w] = "done" <=> ppc = "done"
    /\ cpc[w] \in AtQ \cup {"done"} => cI[w] = 0
    /\ cpc[w] \in AtK \cup AtV => cI[w] < k_blocks(pTile)
    /\ cpc[w] \in Past => cI[w] = k_blocks(pTile)

\* Uses of the two rings in the tile so far, by the producer and a warp.
pUses(p) ==
  IF p = "v" THEN pI
  ELSE IF ppc \in {"Q", "copyQ", "done"} THEN 0
  ELSE IF ppc \in {"V", "copyV"} THEN pI + 2 ELSE pI + 1
cUses(w, p) ==
  IF p = "v" THEN cI[w]
  ELSE IF cpc[w] \in AtQ \cup {"done"} THEN 0
  ELSE IF cpc[w] \in AtV THEN cI[w] + 2 ELSE cI[w] + 1

\* The use of p with which the tile began.
TileStart(p) == pState[p].count - pUses(p)

CountsOK ==
  \A p \in Pipes :
    /\ TileStart(p) >= 0
    /\ \A w \in Warps : cState[w][p].count - cUses(w, p) = TileStart(p)

-----------------------------------------------------------------------------
(* The loads.                                                              *)

\* What use j of a tile loads.
KindOf(p, j) == IF p = "v" THEN "V" ELSE IF j = 0 THEN "Q" ELSE "K"
DataOf(p, j) ==
  IF p = "v" THEN Vdata(pTile, j)
  ELSE IF j = 0 THEN Qdata(pTile) ELSE Kdata(pTile, j - 1)
SlotOf(p, j) == (TileStart(p) + j) % Stages(p)

\* The uses the producer has issued and nobody has overwritten.
Recent(p) == {j \in pUses(p) - Stages(p) .. pUses(p) - 1 : j >= 0}

\* Every load in flight is one of the last of its pipeline.
IssuedOK ==
  \A l \in loads : \E p \in Pipes : \E j \in Recent(p) :
    l = [kind |-> KindOf(p, j), slot |-> SlotOf(p, j), data |-> DataOf(p, j)]

\* The inductive invariant of the pipelines (pipeline.hpp and the two loops of
\* flash_atten_v3_fwd): that of the barriers, and what the loops make of them.
PipesInv ==
  FlashTypes /\ StatesOK /\ RoundsOK /\ FullOK /\ LoadsOK /\ EmptyOK
LoopsInv == ProducerOK /\ ConsumerOK /\ CountsOK /\ IssuedOK

RingInv == PipesInv /\ LoopsInv
=============================================================================
