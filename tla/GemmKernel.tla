----------------------------- MODULE GemmKernel -----------------------------
(***************************************************************************)
(* One thread block of b16_gemm (src/gemm/gemm_cute.hpp): a producer       *)
(* thread that fills a ring of STAGE shared-memory slots with TMA loads,   *)
(* consumer warps that multiply the slots and release them, and an         *)
(* epilogue that stages the result in shared memory for an asynchronous    *)
(* TMA store.  The TMA unit is an actor of its own: loads and stores take  *)
(* effect at any time after they were issued, in any order.                *)
(*                                                                         *)
(* The unit of interleaving is the warp: every shared-memory access of a   *)
(* consumer is a warp-collective instruction, so the 32 arrivals of a warp *)
(* on a barrier count as one.  An operand is a label <<tile, k>>, a slot   *)
(* under a TMA load holds Torn, and an accumulator is the sequence of      *)
(* operand pairs multiplied into it.                                       *)
(***************************************************************************)
EXTENDS MBarrier, Sequences, FiniteSets

CONSTANTS
  STAGE,      \* slots of the ring
  Warps,      \* consumer warps
  Leader,     \* the consumer warp holding wid = 0, thread 0
  BlockIdx,   \* blockIdx.x
  GridDim,    \* gridDim.x
  TilesNum,   \* tiles_num = M_NUM * N_NUM
  KNum,       \* K_NUM, k-blocks per tile
  Torn        \* contents of shared memory nobody may rely on

ASSUME StageAssumption == STAGE \in {2, 3}
ASSUME WarpsAssumption == IsFiniteSet(Warps) /\ Leader \in Warps
ASSUME GridAssumption ==
  /\ GridDim \in Nat \ {0} /\ TilesNum \in Nat /\ KNum \in Nat \ {0}
  /\ BlockIdx \in 0 .. GridDim - 1
  /\ GridDim <= TilesNum
ASSUME TornAssumption == Torn \notin Nat \X Nat

Slots == 0 .. STAGE - 1
Mats  == {"A", "B"}
Tiles == 0 .. TilesNum - 1
Labels == Nat \X Nat
Loads == [mat : Mats, slot : Slots, data : Labels]

EmptyCount == Cardinality(Warps)   \* Consumer<<5 threads, counted per warp
FullCount  == 1
TxBytes    == 2                   \* transfer_bytes, one unit per operand

VARIABLES
  bars,     \* "raw" before init, "live", "dead" after invalidate
  full,     \* full_barrier[STAGE]
  empty,    \* empty_barrier[STAGE]
  smem,     \* sA and sB, per matrix and slot
  loads,    \* TMA loads issued and not completed
  ppc,      \* where the producer is
  pTile, pK,\* its loop variables tiled_id and k
  wState,   \* write_state; its count is total_k
  cpc,      \* where each consumer warp is
  cTile, cK,\* loop variables of each consumer warp
  rState,   \* read_state of each consumer warp
  rB,       \* B fragments of each warp
  rC,       \* accumulator of each warp
  sC,       \* the part of sC each warp writes
  unfenced, \* warps whose part of sC was written and not yet fenced
  flying,   \* store_in_flight of each warp
  stores,   \* reads of sC by TMA stores still to be done
  gC        \* the writes that reached each part of each output tile

pvars == <<ppc, pTile, pK, wState>>
cvars == <<cpc, cTile, cK, rState, rB, rC>>
evars == <<sC, unfenced, flying, stores, gC>>
vars  == <<bars, full, empty, smem, loads, pvars, cvars, evars>>

Init ==
  /\ bars = "raw"
  /\ full = [s \in Slots |-> NewBarrier(FullCount)]
  /\ empty = [s \in Slots |-> NewBarrier(EmptyCount)]
  /\ smem = [ms \in Mats \X Slots |-> Torn]
  /\ loads = {}
  /\ ppc = "init" /\ pTile = BlockIdx /\ pK = 0 /\ wState = NewState(0)
  /\ cpc = [w \in Warps |-> "sync"]
  /\ cTile = [w \in Warps |-> BlockIdx]
  /\ cK = [w \in Warps |-> 0]
  /\ rState = [w \in Warps |-> NewState(0)]
  /\ rB = [w \in Warps |-> Torn]
  /\ rC = [w \in Warps |-> << >>]
  /\ sC = [w \in Warps |-> << >>]
  /\ unfenced = {}
  /\ flying = [w \in Warps |-> FALSE]
  /\ stores = {}
  /\ gC = [tw \in Tiles \X Warps |-> << >>]

-----------------------------------------------------------------------------
(* Set-up and tear-down of the barriers.                                   *)

InitBarriers ==
  /\ ppc = "init"
  /\ bars' = "live"
  /\ full' = [s \in Slots |-> NewBarrier(FullCount)]
  /\ empty' = [s \in Slots |-> NewBarrier(EmptyCount)]
  /\ ppc' = "sync"
  /\ UNCHANGED <<smem, loads, pTile, pK, wState, cvars, evars>>

\* __syncthreads before the roles split.
SyncStart ==
  /\ ppc = "sync" /\ \A w \in Warps : cpc[w] = "sync"
  /\ ppc' = "acquire"
  /\ cpc' = [w \in Warps |-> "wait"]
  /\ UNCHANGED <<bars, full, empty, smem, loads, pTile, pK, wState,
                 cTile, cK, rState, rB, rC, evars>>

\* __syncthreads after both roles have left their loops.
\* Mutant: it does not wait for the consumers.
AllLeft_ProducerOnly == ppc = "exit"
AllLeft == ppc = "exit" /\ \A w \in Warps : cpc[w] = "exit"

SyncEnd ==
  /\ AllLeft
  /\ ppc' = "invalidate"
  /\ cpc' = [w \in Warps |-> "done"]
  /\ UNCHANGED <<bars, full, empty, smem, loads, pTile, pK, wState,
                 cTile, cK, rState, rB, rC, evars>>

Invalidate ==
  /\ ppc = "invalidate"
  /\ bars' = "dead"
  /\ ppc' = "done"
  /\ UNCHANGED <<full, empty, smem, loads, pTile, pK, wState, cvars, evars>>

-----------------------------------------------------------------------------
(* Producer.                                                               *)

\* Mutants: no wait on the empty barrier; a wait for the opposite parity.
SlotFree_Always == TRUE
SlotFree_WrongParity ==
  wState.count >= STAGE => Passes(empty[wState.index], wState.phase)

\* A slot is free on its first use, and afterwards when every consumer warp
\* has released its previous contents.
SlotFree ==
  wState.count >= STAGE => Passes(empty[wState.index], Flip(wState.phase))

Acquire ==
  /\ ppc = "acquire"
  /\ SlotFree
  /\ full' = [full EXCEPT ![wState.index] =
                ArriveExpectTx(@, FullCount, TxBytes)]
  /\ ppc' = "copyA"
  /\ UNCHANGED <<bars, empty, smem, loads, pTile, pK, wState, cvars, evars>>

\* A TMA load owns its slot from the moment it is issued.
Issue(m) ==
  /\ loads' = loads \cup
       {[mat |-> m, slot |-> wState.index, data |-> <<pTile, pK>>]}
  /\ smem' = [smem EXCEPT ![<<m, wState.index>>] = Torn]

CopyA ==
  /\ ppc = "copyA"
  /\ Issue("A")
  /\ ppc' = "copyB"
  /\ UNCHANGED <<bars, full, empty, pTile, pK, wState, cvars, evars>>

\* Loop header of the k-loops.  Mutant: k <= K_NUM.
LastK_OffByOne(k) == k = KNum
LastK(k) == k + 1 = KNum

\* The last copy of a k-block, then the headers of the two loops.
CopyB ==
  /\ ppc = "copyB"
  /\ Issue("B")
  /\ wState' = Advance(wState, STAGE)
  /\ IF LastK(pK)
     THEN /\ pK' = 0
          /\ pTile' = pTile + GridDim
          /\ ppc' = IF pTile + GridDim < TilesNum THEN "acquire" ELSE "exit"
     ELSE /\ pK' = pK + 1
          /\ pTile' = pTile
          /\ ppc' = "acquire"
  /\ UNCHANGED <<bars, full, empty, cvars, evars>>

\* The TMA unit finishes a load: the bytes are in place, then they are
\* counted on the full barrier of the slot.
LoadDone(l) ==
  /\ l \in loads
  /\ loads' = loads \ {l}
  /\ smem' = [smem EXCEPT ![<<l.mat, l.slot>>] = l.data]
  /\ full' = [full EXCEPT ![l.slot] = CompleteTx(@, FullCount, 1)]
  /\ UNCHANGED <<bars, empty, pvars, cvars, evars>>

-----------------------------------------------------------------------------
(* Consumers: main loop.                                                   *)

\* Mutant: no wait on the full barrier.
SlotFull_NoWait(w) == TRUE
SlotFull(w) == Passes(full[rState[w].index], rState[w].phase)

\* Wait for the slot, then copy all of its B fragments.
WaitFull(w) ==
  /\ cpc[w] = "wait"
  /\ SlotFull(w)
  /\ rB' = [rB EXCEPT ![w] = smem[<<"B", rState[w].index>>]]
  /\ cpc' = [cpc EXCEPT ![w] = "mul"]
  /\ UNCHANGED <<bars, full, empty, smem, loads, pvars, cTile, cK, rState, rC,
                 evars>>

\* Copy the A fragments and multiply them with the B fragments.
Multiply(w) ==
  /\ cpc[w] = "mul"
  /\ rC' = [rC EXCEPT ![w] =
              Append(@, <<smem[<<"A", rState[w].index>>], rB[w]>>)]
  /\ cpc' = [cpc EXCEPT ![w] = "release"]
  /\ UNCHANGED <<bars, full, empty, smem, loads, pvars, cTile, cK, rState, rB,
                 evars>>

\* The empty barriers once this warp has released its slot.
\* Mutant: the last slot of a tile is kept.
Released_SkipLast(w) ==
  IF LastK(cK[w]) THEN empty
  ELSE [empty EXCEPT ![rState[w].index] = Arrive(@, EmptyCount)]
Released(w) == [empty EXCEPT ![rState[w].index] = Arrive(@, EmptyCount)]

Release(w) ==
  /\ cpc[w] = "release"
  /\ empty' = Released(w)
  /\ rState' = [rState EXCEPT ![w] = Advance(@, STAGE)]
  /\ cK' = [cK EXCEPT ![w] = IF LastK(@) THEN 0 ELSE @ + 1]
  /\ cpc' = [cpc EXCEPT ![w] = IF LastK(cK[w]) THEN "drain" ELSE "wait"]
  /\ UNCHANGED <<bars, full, smem, loads, pvars, cTile, rB, rC, evars>>

-----------------------------------------------------------------------------
(* Consumers: epilogue.                                                    *)

\* tma_store_wait<0>: every committed store has read its source.
StoresRead == \A st \in stores : ~ st.committed

\* Only the thread that issues the stores waits for them.
\* Mutant: nobody waits for the previous store.
Drained_NoWait(w) == TRUE
Drained(w) == (flying[w] /\ w = Leader) => StoresRead

DrainStore(w) ==
  /\ cpc[w] = "drain"
  /\ Drained(w)
  /\ cpc' = [cpc EXCEPT ![w] = "bar1"]
  /\ UNCHANGED <<bars, full, empty, smem, loads, pvars, cTile, cK, rState, rB,
                 rC, evars>>

\* The two bar_sync of the epilogue use one hardware barrier: it opens when
\* all consumer warps wait at it, whichever of the two calls they are in.
\* Mutant: it expects one warp too few.
AtBarSync(w) == cpc[w] \in {"bar1", "bar2"}
AllAtBarSync_ShortCount == \A w \in Warps \ {Leader} : AtBarSync(w)
AllAtBarSync == \A w \in Warps : AtBarSync(w)

BarSync ==
  /\ AllAtBarSync
  /\ cpc' = [w \in Warps |-> CASE cpc[w] = "bar1" -> "stage"
                                [] cpc[w] = "bar2" -> "store"
                                [] OTHER -> cpc[w]]
  /\ UNCHANGED <<bars, full, empty, smem, loads, pvars, cTile, cK, rState, rB,
                 rC, evars>>

\* Copy the converted accumulator into sC (generic proxy).
StageC(w) ==
  /\ cpc[w] = "stage"
  /\ sC' = [sC EXCEPT ![w] = rC[w]]
  /\ unfenced' = unfenced \cup {w}
  /\ cpc' = [cpc EXCEPT ![w] = "fence"]
  /\ UNCHANGED <<bars, full, empty, smem, loads, pvars, cTile, cK, rState, rB,
                 rC, flying, stores, gC>>

\* tma_store_fence: this warp's writes become visible to the TMA unit.
FenceC(w) ==
  /\ cpc[w] = "fence"
  /\ unfenced' = unfenced \ {w}
  /\ cpc' = [cpc EXCEPT ![w] = "bar2"]
  /\ UNCHANGED <<bars, full, empty, smem, loads, pvars, cTile, cK, rState, rB,
                 rC, sC, flying, stores, gC>>

\* The leader issues the TMA store of the tile ...
IssueStore ==
  /\ cpc[Leader] = "store"
  /\ stores' = stores \cup
       [tile : {cTile[Leader]}, part : Warps, committed : {FALSE}]
  /\ cpc' = [cpc EXCEPT ![Leader] = "commit"]
  /\ UNCHANGED <<bars, full, empty, smem, loads, pvars, cTile, cK, rState, rB,
                 rC, sC, unfenced, flying, gC>>

\* ... and tma_store_arrive commits everything issued so far.
\* Mutant: it is forgotten.
Committed_Forgotten == stores
Committed == {[st EXCEPT !.committed = TRUE] : st \in stores}

\* End of a tile: the next iteration starts by clearing the accumulator.
FinishTile(w) ==
  /\ cpc[w] = IF w = Leader THEN "commit" ELSE "store"
  /\ stores' = IF w = Leader THEN Committed ELSE stores
  /\ flying' = [flying EXCEPT ![w] = TRUE]
  /\ rC' = [rC EXCEPT ![w] = << >>]
  /\ cTile' = [cTile EXCEPT ![w] = @ + GridDim]
  /\ cpc' = [cpc EXCEPT ![w] = IF cTile[w] + GridDim < TilesNum
                               THEN "wait" ELSE "final"]
  /\ UNCHANGED <<bars, full, empty, smem, loads, pvars, cK, rState, rB, sC,
                 unfenced, gC>>

FinalWait(w) ==
  /\ cpc[w] = "final"
  /\ Drained(w)
  /\ cpc' = [cpc EXCEPT ![w] = "exit"]
  /\ UNCHANGED <<bars, full, empty, smem, loads, pvars, cTile, cK, rState, rB,
                 rC, evars>>

\* The TMA unit reads one part of a staged tile and writes it to the output.
\* Parts that were not fenced are not visible to it.
StoreRead(st) ==
  /\ st \in stores
  /\ stores' = stores \ {st}
  /\ gC' = [gC EXCEPT ![<<st.tile, st.part>>] =
              Append(@, IF st.part \in unfenced THEN << >> ELSE sC[st.part])]
  /\ UNCHANGED <<bars, full, empty, smem, loads, pvars, cvars, sC, unfenced,
                 flying>>

-----------------------------------------------------------------------------
Finished == ppc = "done" /\ \A w \in Warps : cpc[w] = "done"

Terminated == Finished /\ UNCHANGED vars

ProducerStep == Acquire \/ CopyA \/ CopyB
ConsumerStep(w) ==
  \/ WaitFull(w) \/ Multiply(w) \/ Release(w)
  \/ DrainStore(w) \/ StageC(w) \/ FenceC(w) \/ FinishTile(w) \/ FinalWait(w)
TmaStep == (\E l \in loads : LoadDone(l)) \/ (\E st \in stores : StoreRead(st))
BlockStep == InitBarriers \/ SyncStart \/ SyncEnd \/ Invalidate

Next ==
  \/ BlockStep
  \/ ProducerStep
  \/ \E w \in Warps : ConsumerStep(w)
  \/ BarSync
  \/ IssueStore
  \/ TmaStep
  \/ Terminated

Spec == Init /\ [][Next]_vars

\* The hardware schedules every resident warp, opens a complete barrier and
\* finishes every TMA operation.
Fairness ==
  /\ WF_vars(BlockStep)
  /\ WF_vars(ProducerStep)
  /\ \A w \in Warps : WF_vars(ConsumerStep(w))
  /\ WF_vars(BarSync)
  /\ WF_vars(IssueStore)
  /\ WF_vars(TmaStep)

FairSpec == Spec /\ Fairness

-----------------------------------------------------------------------------
(* Properties.                                                             *)

PPcs == {"init", "sync", "acquire", "copyA", "copyB", "exit", "invalidate",
         "done"}
CPcs == {"sync", "wait", "mul", "release", "drain", "bar1", "stage", "fence",
         "bar2", "store", "commit", "final", "exit", "done"}
Contents == Labels \cup {Torn}
Sums == Seq(Contents \X Contents)
Barriers == [phase : Nat, pending : Int, tx : Int]
States == [index : Slots, phase : {0, 1}, count : Nat]
StoreReads == [tile : Nat, part : Warps, committed : BOOLEAN]

\* Types of the variables of one thread block (gemm_cute.hpp, b16_gemm).
TypeOK ==
  /\ bars \in {"raw", "live", "dead"}
  /\ full \in [Slots -> Barriers] /\ empty \in [Slots -> Barriers]
  /\ smem \in [Mats \X Slots -> Contents]
  /\ loads \in SUBSET Loads
  /\ ppc \in PPcs /\ pTile \in Nat /\ pK \in 0 .. KNum - 1
  /\ wState \in States
  /\ cpc \in [Warps -> CPcs]
  /\ cTile \in [Warps -> Nat] /\ cK \in [Warps -> 0 .. KNum - 1]
  /\ rState \in [Warps -> States]
  /\ rB \in [Warps -> Contents] /\ rC \in [Warps -> Sums]
  /\ sC \in [Warps -> Sums] /\ unfenced \in SUBSET Warps
  /\ flying \in [Warps -> BOOLEAN]
  /\ stores \in SUBSET StoreReads
  /\ gC \in [Tiles \X Warps -> Seq(Sums)]

\* Which time round the ring the n-th use of a slot is.
Round(n) == n \div STAGE

\* A wait looks at one parity bit.  It is right only because nobody is ever
\* two phases away from the barrier it waits on: a consumer at its slot sees
\* the round it wants or the one before, the producer likewise.  Otherwise a
\* stale phase would let a thread through, or a missed one block it forever.
NoParityAlias ==
  /\ \A w \in Warps : cpc[w] = "wait" =>
       full[rState[w].index].phase - Round(rState[w].count) \in {0, 1}
  /\ ppc = "acquire" =>
       Round(wState.count) - empty[wState.index].phase \in {0, 1}

\* From the moment a consumer warp passes the full barrier until it arrives
\* on the empty barrier, no TMA load is writing the slot it reads.
Reading(w) == cpc[w] \in {"mul", "release"}

NoLoadUnderReader ==
  \A w \in Warps : Reading(w) =>
    \A l \in loads : l.slot # rState[w].index

\* The k-loop multiplies the operand pair of every k-block of the tile the
\* warp is on, in order, never one of another tile, another k or a torn one,
\* although producer and consumers count tiles and k-blocks independently.
FullSum(t) == [n \in 1 .. KNum |-> << <<t, n - 1>>, <<t, n - 1>> >>]

OperandsInOrder ==
  \A w \in Warps :
    /\ rC[w] = SubSeq(FullSum(cTile[w]), 1, Len(rC[w]))
    /\ cpc[w] = "mul" => rB[w] = <<cTile[w], cK[w]>>
    /\ cpc[w] \in {"drain", "bar1", "stage"} => Len(rC[w]) = KNum

\* The two bar_sync calls of the epilogue share one hardware barrier.  Warps
\* waiting at it together are at the same call of the same tile.
BarSyncAligned ==
  \A v, w \in Warps : AtBarSync(v) /\ AtBarSync(w) =>
    cpc[v] = cpc[w] /\ cTile[v] = cTile[w]

\* While some warp rewrites its part of sC or has not fenced it, the TMA unit
\* has no read of sC left to do: the wait of one thread protects all warps.
SourceStable ==
  \A w \in Warps : cpc[w] \in {"stage", "fence"} => stores = {}

\* The block touches barriers only between init and invalidate, and they are
\* invalidated with no load, store or phase unfinished.
Idle(b, count) == b.pending = count /\ b.tx = 0
BarrierLifetime ==
  /\ \/ ppc \in {"acquire", "copyA", "copyB"}
     \/ \E w \in Warps : cpc[w] = "wait" \/ Reading(w)
     \/ loads # {}
     => bars = "live"
  /\ bars = "dead" =>
       /\ stores = {}
       /\ \A s \in Slots :
            /\ Idle(full[s], FullCount) /\ Idle(empty[s], EmptyCount)
            /\ full[s].phase = empty[s].phase

\* Tiles blockIdx.x, blockIdx.x + gridDim.x, ... of the grid-stride loops.
Mine == {t \in Tiles : t % GridDim = BlockIdx}

TileResult(t, w) == FullSum(t)

Output == INSTANCE TileOutput WITH
            Parts <- Warps, Result <- TileResult, out <- gC

\* The block implements its promise: each of its tiles stored once, complete
\* and in order, nothing else written, and every tile eventually stored.
ImplementsOutput == Output!Spec

\* Every thread leaves the kernel: no barrier, phase or store is waited for
\* in vain.
Termination == <>[]Finished
=============================================================================
