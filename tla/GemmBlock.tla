------------------------------ MODULE GemmBlock ------------------------------
(***************************************************************************)
(* The inductive invariant of a whole block of GemmKernel, on top of that  *)
(* of its ring (GemmRing).  OperandsInv follows the data from the loads to *)
(* the accumulators: the n-th use of the ring belongs to tile TileOf(n)    *)
(* and k-block KOf(n), for the producer and for every consumer warp.       *)
(* EpilogueInv follows them on to the output: the named barrier keeps the  *)
(* warps at the same tile, and the leader's wait empties sC of stores      *)
(* before any warp writes it again.                                        *)
(***************************************************************************)
EXTENDS GemmRing

-----------------------------------------------------------------------------
(* From the loads to the accumulators.                                     *)

\* The tile and the k-block of the n-th use of the ring.
TileOf(n) == BlockIdx + GridDim * (n \div KNum)
KOf(n) == n % KNum
Label(n) == <<TileOf(n), KOf(n)>>

\* Consumer warps whose k-loop is over for the tile they are on, and those
\* whose tile loop is over.
InEpilogue(w) ==
  cpc[w] \in {"drain", "bar1", "stage", "fence", "bar2", "store", "commit"}
LoopOver(w) == cpc[w] \in {"final", "exit", "done"}

\* The loop variables of the producer and of the consumers are functions of
\* the number of times they went on in the ring.
ProducerOK ==
  /\ pTile = TileOf(wState.count) /\ pK = KOf(wState.count)
  /\ pTile >= TilesNum <=> ppc \in {"exit", "invalidate", "done"}
  /\ pTile < TilesNum + GridDim
  /\ pTile >= TilesNum => pK = 0

ConsumerOK ==
  \A w \in Warps :
    /\ TileOf(rState[w].count)
         = cTile[w] + (IF InEpilogue(w) THEN GridDim ELSE 0)
    /\ cK[w] = KOf(rState[w].count)
    /\ cTile[w] >= TilesNum <=> LoopOver(w)
    /\ cTile[w] < TilesNum + GridDim
    /\ InEpilogue(w) \/ LoopOver(w) => cK[w] = 0

\* All threads enter and leave the loops together.
PhasesOK ==
  /\ bars = CASE ppc = "init" -> "raw" [] ppc = "done" -> "dead"
              [] OTHER -> "live"
  /\ ppc \in {"init", "sync"} => loads = {}
  /\ \A w \in Warps :
       /\ cpc[w] = "sync" <=> ppc \in {"init", "sync"}
       /\ cpc[w] = "done" <=> ppc \in {"invalidate", "done"}

\* The use of the ring slot s was armed for last.
LastUse(s) == STAGE * (Armed(s) - 1) + s

\* A slot holds, or is being loaded with, the operands of its last use.
LabelsOK ==
  \A m \in Mats, s \in Slots :
    /\ \A l \in loads : l.mat = m /\ l.slot = s => l.data = Label(LastUse(s))
    /\ Armed(s) > 0 /\ Owed(m, s) = 0 => smem[<<m, s>>] = Label(LastUse(s))

\* What the accumulator of a warp contains.
SumTo(t, n) == [i \in 1 .. n |-> << <<t, i - 1>>, <<t, i - 1>> >>]
Progress(w) ==
  IF InEpilogue(w) THEN KNum
  ELSE cK[w] + (IF cpc[w] = "release" THEN 1 ELSE 0)

SumsOK ==
  \A w \in Warps :
    /\ rC[w] = SumTo(cTile[w], Progress(w))
    /\ cpc[w] = "mul" => rB[w] = <<cTile[w], cK[w]>>

LoopsInv == ProducerOK /\ ConsumerOK /\ PhasesOK
OperandsInv == LoopsInv /\ LabelsOK /\ SumsOK

-----------------------------------------------------------------------------
(* From the accumulators to the output.                                    *)

\* Between the two bar_sync of the epilogue, and after the second one.
Mid(w) == cpc[w] \in {"stage", "fence", "bar2"}
Back(w) == cpc[w] \in {"store", "commit"}

\* The tile whose first bar_sync the warp has not passed, or is passing.
NextTile(w) == cTile[w] + (IF Back(w) THEN GridDim ELSE 0)

\* All warps have passed the named barrier the same number of times.
AlignOK ==
  \A v, w \in Warps : NextTile(v) = NextTile(w) /\ (Mid(v) <=> Mid(w))

\* The tile whose store the leader will issue next.
IssuedTo ==
  cTile[Leader] + (IF cpc[Leader] = "commit" THEN GridDim ELSE 0)

\* The stores are those of the tile before, and all committed but while the
\* leader is about to do it.  None is left where the leader has waited.
StoresOK ==
  /\ \A st \in stores :
       /\ st.tile + GridDim = IssuedTo
       /\ st.committed <=> cpc[Leader] # "commit"
  /\ stores # {} => flying[Leader] \/ cpc[Leader] = "commit"
  /\ cpc[Leader] \in {"bar1", "stage", "fence", "bar2", "store", "exit",
                      "done"}
       => stores = {}

\* sC holds the sum of a tile from the moment a warp has written its part
\* until it writes the next one, and nobody but a writer is not fenced.
StagedOK ==
  /\ unfenced = {w \in Warps : cpc[w] = "fence"}
  /\ \A w \in Warps :
       /\ cpc[w] \in {"fence", "bar2"} => sC[w] = FullSum(cTile[w])
       /\ ~ Mid(w) /\ NextTile(w) # BlockIdx
            => sC[w] = FullSum(NextTile(w) - GridDim)

\* A part of a tile is written unless its store is still to come or pending.
Pending(t, p) == \E st \in stores : st.tile = t /\ st.part = p
Written(t, p) == t \in Mine /\ t < IssuedTo /\ ~ Pending(t, p)

OutputOK ==
  \A t \in Tiles, p \in Warps :
    gC[<<t, p>>] = IF Written(t, p) THEN <<FullSum(t)>> ELSE << >>

EpilogueInv == AlignOK /\ StoresOK /\ StagedOK /\ OutputOK

\* The inductive invariant of a block (gemm_cute.hpp, lines 105 to 293).
BlockInv == RingInv /\ OperandsInv /\ EpilogueInv
=============================================================================
