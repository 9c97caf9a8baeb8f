--------------------------- MODULE FlashBlock_proofs ---------------------------
(***************************************************************************)
(* Proofs about one block of FlashKernel, for every grid of consumer       *)
(* warps, every shape of the tiles and every size of the problem.  First   *)
(* the two pipelines: RingInv is inductive, and what TLC checks of the     *)
(* pipelines on small instances follows from it.  Then the whole block:    *)
(* the named barriers keep the warps in the same section and the loads     *)
(* away from what is being read.                                           *)
(***************************************************************************)
EXTENDS FlashBlock, EuclideanDivision, FiniteSetTheorems

-----------------------------------------------------------------------------
(* Constants.                                                              *)

LEMMA ShapeFacts ==
  /\ STAGE = 2
  /\ WARPS_M \in Nat \ {0} /\ WARPS_N \in Nat \ {0}
  /\ kBlockM \in Nat \ {0} /\ kBlockN \in Nat \ {0}
  /\ SeqLen \in Nat \ {0} /\ Heads \in Nat \ {0} /\ GridDim \in Nat \ {0}
  /\ IsCausal \in BOOLEAN
  /\ BlockIdx \in 0 .. GridDim - 1 /\ GridDim <= tiles_num
BY ShapeAssumption

LEMMA PipeFacts ==
  /\ Pipes = {"qk", "v"}
  /\ Stages("qk") = 2 /\ Stages("v") = 1
  /\ Bars = {<<"qk", 0>>, <<"qk", 1>>, <<"v", 0>>}
<1>1. Stages("qk") = 2 /\ Stages("v") = 1
  BY ShapeFacts DEF Stages
<1>2. Bars = {b \in {"qk", "v"} \X {0, 1} : b[2] < Stages(b[1])}
  <2>1. 0 .. STAGE - 1 = {0, 1}
    BY ShapeFacts
  <2> QED
    BY <2>1 DEF Bars, Pipes
<1>3. \A b \in {"qk", "v"} \X {0, 1} :
        b[2] < Stages(b[1]) <=> b \in {<<"qk", 0>>, <<"qk", 1>>, <<"v", 0>>}
  BY <1>1
<1>4. {<<"qk", 0>>, <<"qk", 1>>, <<"v", 0>>} \subseteq {"qk", "v"} \X {0, 1}
  OBVIOUS
<1> QED
  BY <1>1, <1>2, <1>3, <1>4 DEF Pipes

\* A barrier is a slot of a pipeline.
LEMMA BarFacts ==
  ASSUME NEW p, NEW s
  PROVE  <<p, s>> \in Bars <=> p \in Pipes /\ s \in 0 .. Stages(p) - 1
<1>1. CASE p = "qk"
  <2>1. 0 .. Stages("qk") - 1 = {0, 1}
    BY PipeFacts
  <2> QED
    BY <1>1, <2>1, PipeFacts
<1>2. CASE p = "v"
  <2>1. 0 .. Stages("v") - 1 = {0}
    BY PipeFacts
  <2> QED
    BY <1>2, <2>1, PipeFacts
<1>3. CASE p \notin Pipes
  BY <1>3, PipeFacts
<1> QED
  BY <1>1, <1>2, <1>3, PipeFacts

LEMMA BarParts ==
  ASSUME NEW b \in Bars
  PROVE  /\ b[1] \in Pipes /\ b[2] \in 0 .. Stages(b[1]) - 1
         /\ b = <<b[1], b[2]>>
<1>1. b = <<b[1], b[2]>>
  BY PipeFacts
<1> QED
  BY <1>1, BarFacts

LEMMA EmptyCountFacts ==
  /\ EmptyCount \in Nat \ {0}
  /\ IsFiniteSet(Warps) /\ Cardinality(Warps) = EmptyCount
  /\ Leader \in Warps
<1>1. WARPS_M * WARPS_N \in Nat \ {0}
  BY ShapeFacts
<1> DEFINE n == WARPS_M * WARPS_N
<1>2. n \in Nat \ {0}
  BY <1>1
<1> HIDE DEF n
<1>3. 0 \in Int /\ n - 1 \in Int
  BY <1>2
<1>4. IsFiniteSet(0 .. n - 1)
      /\ Cardinality(0 .. n - 1) = IF 0 > n - 1 THEN 0 ELSE (n - 1) - 0 + 1
  BY ONLY <1>3, FS_Interval
<1>5. Cardinality(0 .. n - 1) = n /\ 0 \in 0 .. n - 1
  BY <1>2, <1>4
<1> QED
  BY <1>2, <1>4, <1>5 DEF Warps, EmptyCount, Leader, n

-----------------------------------------------------------------------------
(* Arithmetic of the pipelines.                                            *)

\* The uses of a slot grow by one each time the count passes through it.
LEMMA UsesFacts ==
  ASSUME NEW p \in Pipes, NEW n \in Nat, NEW s, <<p, s>> \in Bars
  PROVE  /\ Uses(p, n, s) \in Nat
         /\ Uses(p, 0, s) = 0
         /\ Uses(p, n + 1, s)
              = Uses(p, n, s) + (IF s = n % Stages(p) THEN 1 ELSE 0)
         /\ s = n % Stages(p) => Uses(p, n, s) = n \div Stages(p)
<1>1. CASE p = "qk"
  <2>1. (s = 0 \/ s = 1) /\ Stages(p) = 2 /\ s \in Int
    BY <1>1, PipeFacts
  <2>2. \A m \in Nat : Uses(p, m, s) = (m + 1 - s) \div 2
    BY <2>1 DEF Uses
  <2>3. /\ Uses(p, n, s) = (n + 1 - s) \div 2
        /\ Uses(p, n + 1, s) = (n + 1 + 1 - s) \div 2
        /\ Uses(p, 0, s) = (0 + 1 - s) \div 2
    BY <2>2
  <2>4. /\ (n + 1 - s) \div 2 \in Nat /\ (0 + 1 - s) \div 2 = 0
        /\ (n + 1 + 1 - s) \div 2
             = (n + 1 - s) \div 2 + (IF s = n % 2 THEN 1 ELSE 0)
        /\ s = n % 2 => (n + 1 - s) \div 2 = n \div 2
    BY <2>1
  <2> QED
    BY <2>1, <2>3, <2>4
<1>2. CASE p = "v"
  <2>1. s = 0 /\ Stages(p) = 1
    BY <1>2, PipeFacts
  <2>2. \A m \in Nat : Uses(p, m, s) = m /\ m % 1 = 0 /\ m \div 1 = m
    BY <2>1 DEF Uses
  <2> QED
    BY <2>1, <2>2
<1> QED
  BY <1>1, <1>2, PipeFacts

LEMMA UsesMonotone ==
  ASSUME NEW p \in Pipes, NEW n \in Nat, NEW m \in Nat, n <= m,
         NEW s, <<p, s>> \in Bars
  PROVE  Uses(p, n, s) <= Uses(p, m, s)
<1>1. CASE p = "qk"
  <2>1. (s = 0 \/ s = 1) /\ Stages(p) = 2 /\ s \in Int
    BY <1>1, PipeFacts
  <2>2. Uses(p, n, s) = (n + 1 - s) \div 2 /\ Uses(p, m, s) = (m + 1 - s) \div 2
    BY <2>1 DEF Uses
  <2> QED
    BY <2>1, <2>2
<1>2. CASE p = "v"
  <2>1. s = 0 /\ Stages(p) = 1
    BY <1>2, PipeFacts
  <2>2. Uses(p, n, s) = n /\ Uses(p, m, s) = m
    BY <2>1 DEF Uses
  <2> QED
    BY <2>2
<1> QED
  BY <1>1, <1>2, PipeFacts

\* Advancing a pipeline state keeps its slot and parity in step with its
\* count.
LEMMA AdvanceFacts ==
  ASSUME NEW p \in Pipes, NEW st \in AnyState, NEW start \in {0, 1},
         StateOK(p, st, start)
  PROVE  /\ Advance(st, Stages(p)) \in AnyState
         /\ StateOK(p, Advance(st, Stages(p)), start)
         /\ Advance(st, Stages(p)).count = st.count + 1
<1> DEFINE n == st.count
           c == st.count + 1
           i == st.index
           f == st.phase
<1>1. /\ n \in Nat /\ c = n + 1 /\ f \in {0, 1}
      /\ i = n % Stages(p) /\ f = (n \div Stages(p) + start) % 2
  BY DEF AnyState, StateOK
<1> HIDE DEF n, c, i, f
<1>2. CASE p = "qk"
  <2>1. Stages(p) = 2
    BY <1>2, PipeFacts
  <2>2. i = n % 2 /\ f = (n \div 2 + start) % 2
    BY <1>1, <2>1
  <2>3. c % 2 = (IF i + 1 = 2 THEN 0 ELSE i + 1) /\ i \in {0, 1}
    BY <1>1, <2>2
  <2>4. (c \div 2 + start) % 2 = IF i + 1 = 2 THEN 1 - f ELSE f
    <3>1. CASE start = 0
      BY <3>1, <1>1, <2>2
    <3>2. CASE start = 1
      BY <3>2, <1>1, <2>2
    <3> QED
      BY <3>1, <3>2
  <2>5. Advance(st, Stages(p)) =
          [index |-> IF i + 1 = 2 THEN 0 ELSE i + 1,
           phase |-> IF i + 1 = 2 THEN 1 - f ELSE f, count |-> c]
    BY <2>1 DEF Advance, Flip, i, f, c
  <2>6. Advance(st, Stages(p)) \in AnyState
    BY <1>1, <2>3, <2>5, ShapeFacts DEF AnyState
  <2>7. /\ Advance(st, Stages(p)).index = c % 2
        /\ Advance(st, Stages(p)).phase = (c \div 2 + start) % 2
        /\ Advance(st, Stages(p)).count = c
    BY <2>3, <2>4, <2>5
  <2> QED
    BY <2>1, <2>6, <2>7 DEF StateOK, c
<1>3. CASE p = "v"
  <2>1. Stages(p) = 1
    BY <1>3, PipeFacts
  <2>2. i = 0 /\ f = (n + start) % 2 /\ c % 1 = 0 /\ c \div 1 = c
    BY <1>1, <2>1
  <2>3. (c + start) % 2 = 1 - f
    <3>1. CASE start = 0
      BY <3>1, <1>1, <2>2
    <3>2. CASE start = 1
      BY <3>2, <1>1, <2>2
    <3> QED
      BY <3>1, <3>2
  <2>4. Advance(st, Stages(p)) = [index |-> 0, phase |-> 1 - f, count |-> c]
    BY <2>1, <2>2 DEF Advance, Flip, i, f, c
  <2>5. Advance(st, Stages(p)) \in AnyState
    BY <1>1, <2>4, ShapeFacts DEF AnyState
  <2>6. /\ Advance(st, Stages(p)).index = c % 1
        /\ Advance(st, Stages(p)).phase = (c \div 1 + start) % 2
        /\ Advance(st, Stages(p)).count = c
    BY <2>2, <2>3, <2>4
  <2> QED
    BY <2>1, <2>5, <2>6 DEF StateOK, c
<1> QED
  BY <1>2, <1>3, PipeFacts

\* The slot of a pipeline state, and the rounds it has made over it.
LEMMA StateRound ==
  ASSUME NEW p \in Pipes, NEW st \in AnyState, NEW start \in {0, 1},
         StateOK(p, st, start)
  PROVE  /\ <<p, st.index>> \in Bars /\ st.count \in Nat
         /\ st.index = st.count % Stages(p)
         /\ Uses(p, st.count, st.index) = Round(p, st.count)
         /\ Round(p, st.count) \in Nat
         /\ st.phase = (Round(p, st.count) + start) % 2
<1>1. st.count \in Nat /\ st.index = st.count % Stages(p)
      /\ st.phase = (st.count \div Stages(p) + start) % 2
  BY DEF AnyState, StateOK
<1>2. Stages(p) \in Nat \ {0}
  BY PipeFacts
<1>3. <<p, st.index>> \in Bars
  BY <1>1, <1>2, BarFacts, Division
<1>4. Uses(p, st.count, st.index) = st.count \div Stages(p)
  BY <1>1, <1>3, UsesFacts
<1>5. st.count \div Stages(p) \in Nat
  BY <1>1, <1>3, <1>4, UsesFacts
<1> QED
  BY <1>1, <1>3, <1>4, <1>5 DEF Round

-----------------------------------------------------------------------------
(* The tiles.                                                              *)

LEMMA CeilFacts ==
  ASSUME NEW x \in Nat \ {0}, NEW d \in Nat \ {0}
  PROVE  /\ CeilDiv(x, d) \in Nat \ {0}
         /\ x <= d * CeilDiv(x, d) /\ d * (CeilDiv(x, d) - 1) < x
<1> DEFINE n == x + d - 1
           q == n \div d
           r == n % d
<1>1. n \in Nat
  OBVIOUS
<1>2. q \in Nat /\ r \in 0 .. d - 1 /\ n = d * q + r
  BY <1>1, Division
<1>3. CeilDiv(x, d) = q
  BY DEF CeilDiv
<1>4. n = x + d - 1
  OBVIOUS
<1> HIDE DEF n, q, r
<1>5. x <= d * q /\ q # 0
  BY <1>1, <1>2, <1>4
<1>6. d * (q - 1) < x
  <2>1. d * (q - 1) = d * q - d
    BY <1>2
  <2> QED
    BY <2>1, <1>1, <1>2, <1>4
<1> QED
  BY <1>2, <1>3, <1>5, <1>6

\* The coordinates of a tile and the number of its blocks.
LEMMA TileFacts ==
  /\ M_num \in Nat \ {0} /\ N_num \in Nat \ {0} /\ tiles_num \in Nat \ {0}
  /\ \A t \in Nat : /\ head(t) \in Nat /\ q_block(t) \in 0 .. M_num - 1
                    /\ k_blocks(t) \in Nat \ {0}
<1>1. M_num \in Nat \ {0} /\ N_num \in Nat \ {0}
  BY ShapeFacts, CeilFacts DEF M_num, N_num
<1>2. tiles_num \in Nat \ {0}
  BY <1>1, ShapeFacts DEF tiles_num
<1>3. ASSUME NEW t \in Nat
      PROVE  head(t) \in Nat /\ q_block(t) \in 0 .. M_num - 1
  <2>1. t \div M_num \in Nat /\ t % M_num \in 0 .. M_num - 1
    BY <1>1, Division
  <2> QED
    BY <1>1, <2>1 DEF head, q_block
<1>4. ASSUME NEW t \in Nat
      PROVE  k_blocks(t) \in Nat \ {0}
  <2>1. (q_block(t) + 1) * kBlockM \in Nat \ {0}
    <3>1. q_block(t) + 1 \in Nat \ {0}
      BY <1>1, <1>3
    <3> QED
      BY <3>1, ShapeFacts
  <2> QED
    BY <1>1, <2>1, ShapeFacts, CeilFacts DEF k_blocks
<1> QED
  BY <1>1, <1>2, <1>3, <1>4

-----------------------------------------------------------------------------
(* Types.                                                                  *)

\* The barrier operations return barriers.
LEMMA BarrierTypes ==
  ASSUME NEW b \in AnyBarrier, NEW c \in Nat, NEW n \in Nat
  PROVE  /\ Arrive(b, c) \in AnyBarrier
         /\ ArriveExpectTx(b, c, n) \in AnyBarrier
         /\ CompleteTx(b, c, n) \in AnyBarrier
BY DEF AnyBarrier, Arrive, ArriveExpectTx, CompleteTx, Settle

LEMMA TypesInit == Init => FlashTypes
<1> SUFFICES ASSUME Init PROVE FlashTypes
  OBVIOUS
<1>1. /\ NewBarrier(FullCount) \in AnyBarrier
      /\ NewBarrier(EmptyCount) \in AnyBarrier
  BY EmptyCountFacts DEF AnyBarrier, NewBarrier, FullCount
<1>2. NewState(0) \in AnyState /\ NewState(1) \in AnyState
  BY ShapeFacts DEF AnyState, NewState
<1>3. BlockIdx \in Nat
  BY ShapeFacts
<1> QED
  BY <1>1, <1>2, <1>3 DEF Init, FlashTypes, PPcs, CPcs, Producing

\* What the producer loads.
LEMMA LoadType ==
  ASSUME FlashTypes, NEW kind \in Producing
  PROVE  [kind |-> kind, slot |-> pState[PipeOf(kind)].index,
          data |-> Data(kind)]
           \in [kind : Producing, slot : 0 .. STAGE - 1,
                data : Producing \X Nat \X Nat]
<1>1. pTile \in Nat /\ pI \in Nat
  BY DEF FlashTypes
<1>2. head(pTile) \in Nat /\ q_block(pTile) \in Nat
  BY <1>1, TileFacts
<1>3. Data(kind) \in Producing \X Nat \X Nat
  BY <1>1, <1>2 DEF Data, Qdata, Kdata, Vdata, Producing
<1>4. pState[PipeOf(kind)].index \in 0 .. STAGE - 1
  BY DEF FlashTypes, PipeOf, Pipes, AnyState
<1> QED
  BY <1>3, <1>4

\* The action of the producer, and its pipeline.
LEMMA PipeOfFacts ==
  /\ \A kind \in Producing : PipeOf(kind) \in Pipes
  /\ \A kind \in Producing : Copying[kind] \in PPcs
  /\ Copying["Q"] = "copyQ" /\ Copying["K"] = "copyK" /\ Copying["V"] = "copyV"
BY DEF PipeOf, Pipes, Copying, PPcs, Producing

LEMMA TypesStep == FlashTypes /\ StatesOK /\ [Next]_vars => FlashTypes'
<1> SUFFICES ASSUME FlashTypes, StatesOK, [Next]_vars PROVE FlashTypes'
  OBVIOUS
<1> USE PipeOfFacts, EmptyCountFacts
<1>1. ASSUME NEW kind \in Producing, Acquire(kind) PROVE FlashTypes'
  <2>1. full' \in [Bars -> AnyBarrier]
    BY <1>1, BarrierTypes DEF Acquire, FlashTypes, FullCount
  <2> QED
    BY <1>1, <2>1 DEF Acquire, FlashTypes, cvars, evars
<1>2. ASSUME NEW kind \in Producing, Issue(kind) PROVE FlashTypes'
  <2>1. loads' \subseteq [kind : Producing, slot : 0 .. STAGE - 1,
                          data : Producing \X Nat \X Nat]
    <3> DEFINE x == [kind |-> kind, slot |-> pState[PipeOf(kind)].index,
                     data |-> Data(kind)]
    <3>1. loads' = loads \cup {x}
      BY <1>2 DEF Issue
    <3>2. x \in [kind : Producing, slot : 0 .. STAGE - 1,
                 data : Producing \X Nat \X Nat]
      BY LoadType
    <3> HIDE DEF x
    <3> QED
      BY <3>1, <3>2 DEF FlashTypes
  <2>2. pState' \in [Pipes -> AnyState]
    <3>1. /\ pState[PipeOf(kind)] \in AnyState
          /\ StateOK(PipeOf(kind), pState[PipeOf(kind)], 1)
      BY DEF FlashTypes, StatesOK
    <3>2. Advance(pState[PipeOf(kind)], Stages(PipeOf(kind))) \in AnyState
      BY <3>1, AdvanceFacts
    <3> QED
      BY <1>2, <3>2 DEF Issue, FlashTypes
  <2>3. DOMAIN mem' = Cells /\ ppc' \in PPcs /\ pI' \in Nat
    BY <1>2 DEF Issue, FlashTypes, PPcs, Producing
  <2> QED
    BY <1>2, <2>1, <2>2, <2>3 DEF Issue, FlashTypes, cvars, evars
<1>3. ASSUME NEW l \in loads, LoadDone(l) PROVE FlashTypes'
  <2>1. full' \in [Bars -> AnyBarrier]
    BY <1>3, BarrierTypes DEF LoadDone, FlashTypes, FullCount
  <2>2. DOMAIN mem' = Cells
    BY <1>3 DEF LoadDone, Written
  <2> QED
    BY <1>3, <2>1, <2>2 DEF LoadDone, FlashTypes, pvars, cvars, evars
<1>4. ASSUME NEW w \in Warps, ReadQ(w) \/ ReadK(w) \/ MultiplyK(w) \/ ReadV(w)
      PROVE  FlashTypes'
  BY <1>4 DEF ReadQ, ReadK, MultiplyK, ReadV, FlashTypes, Goto, CPcs,
     pvars, cvars, evars
<1>5. ASSUME NEW w \in Warps, NEW p \in Pipes, empty' = Arrived(w, p),
             cState' = [cState EXCEPT ![w][p] = Advance(@, Stages(p))]
      PROVE  /\ empty' \in [Bars -> AnyBarrier]
             /\ cState' \in [Warps -> [Pipes -> AnyState]]
  <2>1. cState[w][p] \in AnyState /\ StateOK(p, cState[w][p], 0)
    BY DEF FlashTypes, StatesOK
  <2>2. Advance(cState[w][p], Stages(p)) \in AnyState
    BY <2>1, AdvanceFacts
  <2>3. cState' \in [Warps -> [Pipes -> AnyState]]
    BY <1>5, <2>2 DEF FlashTypes
  <2>4. empty' \in [Bars -> AnyBarrier]
    BY <1>5, BarrierTypes DEF Arrived, FlashTypes
  <2> QED
    BY <2>3, <2>4
<1>6. ASSUME NEW w \in Warps, ReleaseQK(w) PROVE FlashTypes'
  <2>1. Stages("qk") = STAGE /\ "qk" \in Pipes
    BY DEF Stages, Pipes
  <2>2. /\ empty' \in [Bars -> AnyBarrier]
        /\ cState' \in [Warps -> [Pipes -> AnyState]]
    BY <1>5, <1>6, <2>1 DEF ReleaseQK
  <2> QED
    BY <1>6, <2>2 DEF ReleaseQK, FlashTypes, Goto, CPcs, pvars, evars
<1>7. ASSUME NEW w \in Warps, ReleaseV(w) PROVE FlashTypes'
  <2>1. Stages("v") = 1 /\ "v" \in Pipes
    BY DEF Stages, Pipes
  <2>2. /\ empty' \in [Bars -> AnyBarrier]
        /\ cState' \in [Warps -> [Pipes -> AnyState]]
    BY <1>5, <1>7, <2>1 DEF ReleaseV
  <2> QED
    BY <1>7, <2>2 DEF ReleaseV, FlashTypes, Goto, CPcs, pvars, evars
<1>8. ASSUME NEW w \in Warps, NormalizeStats(w) \/ NormalizeRow(w)
      PROVE  FlashTypes'
  BY <1>8 DEF NormalizeStats, NormalizeRow, FlashTypes, Goto, CPcs, pvars, evars
<1>9. ASSUME NEW w \in Warps,
             WritePartial(w) \/ ReducePartials(w) \/ WriteO(w) \/ FenceO(w)
      PROVE  FlashTypes'
  BY <1>9 DEF WritePartial, ReducePartials, WriteO, FenceO, Written,
     FlashTypes, Goto, CPcs, pvars, evars
<1>10. CASE BarSync
  BY <1>10 DEF BarSync, AfterBarSync, FlashTypes, CPcs, pvars, evars
<1>11. CASE LeaderStep
  BY <1>11 DEF LeaderStep, StoreO, DrainO, FlashTypes, Goto, CPcs, pvars, evars
<1>12. CASE TileSync
  <2>1. \A t \in Nat : NextTile(t) \in Nat /\ Resume(t) \in {"Q", "done"}
    BY ShapeFacts DEF NextTile, Resume
  <2> QED
    BY <1>12, <2>1 DEF TileSync, FlashTypes, PPcs, CPcs, Producing, evars
<1>13. ASSUME NEW st \in stores, StoreRead(st) PROVE FlashTypes'
  BY <1>13 DEF StoreRead, FlashTypes, pvars, cvars
<1>14. CASE UNCHANGED vars
  BY <1>14 DEF vars, pvars, cvars, evars, FlashTypes
<1> QED
  BY <1>1, <1>2, <1>3, <1>4, <1>6, <1>7, <1>8, <1>9, <1>10, <1>11, <1>12,
     <1>13, <1>14
  DEF Next, ProducerStep, ConsumerStep, TmaStep, Terminated

-----------------------------------------------------------------------------
(* Facts of one state.                                                     *)

\* The quantities of RoundsOK are natural numbers.
LEMMA RingTypes ==
  ASSUME FlashTypes, NEW b \in Bars
  PROVE  /\ Armed(b) \in Nat
         /\ full[b] \in AnyBarrier /\ empty[b] \in AnyBarrier
         /\ full[b].phase \in Nat /\ empty[b].phase \in Nat
         /\ full[b].pending \in Int /\ full[b].tx \in Int
         /\ empty[b].pending \in Int /\ empty[b].tx \in Int
         /\ \A w \in Warps : Freed(w, b) \in Nat /\ Held(w, b) \in {0, 1}
<1>1. b[1] \in Pipes /\ <<b[1], b[2]>> \in Bars
  BY BarParts
<1>2. pState[b[1]].count \in Nat /\ \A w \in Warps : cState[w][b[1]].count \in Nat
  BY <1>1 DEF FlashTypes, AnyState
<1>3. Armed(b) \in Nat
  BY <1>1, <1>2, UsesFacts DEF Armed
<1>4. \A w \in Warps : Freed(w, b) \in Nat /\ Held(w, b) \in {0, 1}
  BY <1>1, <1>2, UsesFacts DEF Freed, Held
<1>5. full[b] \in AnyBarrier /\ empty[b] \in AnyBarrier
  BY DEF FlashTypes
<1> QED
  BY <1>3, <1>4, <1>5 DEF AnyBarrier

\* The states of the pipelines.
LEMMA StateFacts ==
  ASSUME PipesInv, NEW p \in Pipes
  PROVE  /\ pState[p] \in AnyState /\ StateOK(p, pState[p], 1)
         /\ \A w \in Warps :
              cState[w][p] \in AnyState /\ StateOK(p, cState[w][p], 0)
BY DEF PipesInv, FlashTypes, StatesOK

\* The rounds of a slot, in the order of the module comment of FlashRing.
LEMMA RoundFacts ==
  ASSUME PipesInv, NEW b \in Bars
  PROVE  /\ empty[b].phase <= full[b].phase /\ full[b].phase <= Armed(b)
         /\ Armed(b) <= empty[b].phase + 1
         /\ \A w \in Warps :
              /\ empty[b].phase <= Freed(w, b)
              /\ Freed(w, b) + Held(w, b) <= full[b].phase
<1>1. /\ full[b].phase <= Armed(b) /\ Armed(b) <= empty[b].phase + 1
      /\ \A w \in Warps : /\ empty[b].phase <= Freed(w, b)
                          /\ Freed(w, b) + Held(w, b) <= full[b].phase
  BY DEF PipesInv, RoundsOK
<1>2. /\ full[b].phase \in Nat /\ empty[b].phase \in Nat
      /\ Freed(Leader, b) \in Nat /\ Held(Leader, b) \in {0, 1}
  BY RingTypes, EmptyCountFacts DEF PipesInv
<1>3. empty[b].phase <= full[b].phase
  BY <1>1, <1>2, EmptyCountFacts
<1> QED
  BY <1>1, <1>3

\* A slot whose full barrier expects no bytes is not being loaded.
LEMMA IdleSlot ==
  ASSUME PipesInv, NEW b \in Bars, full[b].tx = 0
  PROVE  (\A l \in loads : BarOf(l) # b) /\ ~ Unissued(b)
<1>1. Owed(b) = 0
  BY DEF PipesInv, FullOK
<1> QED
  BY <1>1 DEF Owed, InFlight

\* A slot the producer finds free has been released by every warp, and its
\* full barrier is idle.
LEMMA FreeSlot ==
  ASSUME PipesInv, NEW p \in Pipes, ~ Filling(p), SlotFree(p),
         NEW b, b = pBar(p)
  PROVE  /\ b \in Bars
         /\ full[b].phase = Armed(b) /\ empty[b].phase = Armed(b)
<1> DEFINE r == Round(p, pState[p].count)
<1>1. b \in Bars /\ b[1] = p /\ b[2] = pState[p].index
      /\ Uses(p, pState[p].count, b[2]) = r /\ r \in Nat
      /\ pState[p].phase = (r + 1) % 2
  <2>1. b = <<p, pState[p].index>>
    BY DEF pBar
  <2> QED
    BY <2>1, StateFacts, StateRound
<1> HIDE DEF r
<1>2. Armed(b) = r
  BY <1>1 DEF Armed, Unissued
<1>3. /\ empty[b].phase <= full[b].phase
      /\ full[b].phase <= r /\ r <= empty[b].phase + 1
      /\ empty[b].phase \in Nat /\ full[b].phase \in Nat
  BY <1>1, <1>2, RoundFacts, RingTypes DEF PipesInv
<1>4. empty[b].phase % 2 # (r + 1) % 2
  BY <1>1 DEF SlotFree, Passes
<1>5. empty[b].phase = r
  BY <1>1, <1>3, <1>4
<1> QED
  BY <1>1, <1>2, <1>3, <1>5

\* A slot a warp finds full is one round ahead of the warp.
LEMMA FullSlot ==
  ASSUME PipesInv, NEW w \in Warps, NEW p \in Pipes, SlotFull(w, p),
         NEW b, b = cBar(w, p)
  PROVE  b \in Bars /\ full[b].phase = Freed(w, b) + 1
<1> DEFINE r == Round(p, cState[w][p].count)
<1>1. b \in Bars /\ b[1] = p /\ b[2] = cState[w][p].index
      /\ Uses(p, cState[w][p].count, b[2]) = r /\ r \in Nat
      /\ cState[w][p].phase = (r + 0) % 2
  <2>1. b = <<p, cState[w][p].index>>
    BY DEF cBar
  <2> QED
    BY <2>1, StateFacts, StateRound
<1> HIDE DEF r
<1>2. Freed(w, b) = r
  BY <1>1 DEF Freed
<1>3. /\ r <= full[b].phase /\ full[b].phase <= r + 1
      /\ full[b].phase \in Nat
  BY <1>1, <1>2, RoundFacts, RingTypes DEF PipesInv
<1>4. full[b].phase % 2 # (r + 0) % 2
  BY <1>1 DEF SlotFull, Passes
<1> QED
  BY <1>1, <1>2, <1>3, <1>4

-----------------------------------------------------------------------------
(* The initial states of the pipelines.                                    *)

LEMMA PipesInit == Init => PipesInv
<1> SUFFICES ASSUME Init PROVE PipesInv
  OBVIOUS
<1>1. FlashTypes
  BY TypesInit
<1>2. StatesOK
  <2>1. \A p \in Pipes : /\ 0 % Stages(p) = 0
                         /\ (0 \div Stages(p) + 0) % 2 = 0
                         /\ (0 \div Stages(p) + 1) % 2 = 1
    BY PipeFacts
  <2> QED
    BY <2>1 DEF Init, StatesOK, StateOK, NewState
<1>3. ASSUME NEW b \in Bars
      PROVE  /\ Armed(b) = 0 /\ \A w \in Warps : Freed(w, b) = 0
             /\ \A w \in Warps : Held(w, b) = 0
             /\ Arrivals(b) = {} /\ Owed(b) = 0
             /\ full[b] = NewBarrier(FullCount)
             /\ empty[b] = NewBarrier(EmptyCount)
  <2>1. b[1] \in Pipes /\ Uses(b[1], 0, b[2]) = 0
    BY BarParts, UsesFacts
  <2>2. Armed(b) = 0 /\ \A w \in Warps : Freed(w, b) = 0
    BY <2>1 DEF Init, Armed, Freed, Unissued, Filling, NewState
  <2>3. \A w \in Warps : Held(w, b) = 0
    BY DEF Init, Held, Reading
  <2>4. full[b] = NewBarrier(FullCount) /\ empty[b] = NewBarrier(EmptyCount)
    BY DEF Init
  <2>5. Arrivals(b) = {}
    BY <2>2, <2>4 DEF Arrivals, NewBarrier
  <2>6. Owed(b) = 0
    BY DEF Init, Owed, Unissued, InFlight, Filling
  <2> QED
    BY <2>2, <2>3, <2>4, <2>5, <2>6
<1>4. RoundsOK
  BY <1>3 DEF RoundsOK, NewBarrier
<1>5. FullOK
  BY <1>3 DEF FullOK, NewBarrier, FullCount
<1>6. LoadsOK
  BY DEF LoadsOK, Init
<1>7. EmptyOK
  <2>1. Cardinality({}) = 0 /\ EmptyCount \in Nat /\ EmptyCount # 0
    BY FS_EmptySet, EmptyCountFacts
  <2>2. \A b \in Bars : /\ empty[b].tx = 0 /\ empty[b].pending = EmptyCount
                        /\ Cardinality(Arrivals(b)) = 0
    BY <1>3, <2>1 DEF NewBarrier
  <2> QED
    BY <2>1, <2>2 DEF EmptyOK
<1> QED
  BY <1>1, <1>2, <1>4, <1>5, <1>6, <1>7 DEF PipesInv

-----------------------------------------------------------------------------
(* The steps of the pipelines.                                             *)

\* A step that leaves the barriers, the loads and the pipeline states alone,
\* and nobody filling or reading who was not, keeps the invariant.
LEMMA QuietStep ==
  ASSUME PipesInv, FlashTypes',
         UNCHANGED <<full, empty, loads, pState, cState>>,
         \A p \in Pipes : Filling(p)' <=> Filling(p),
         \A w \in Warps, p \in Pipes : Reading(w, p)' <=> Reading(w, p)
  PROVE  PipesInv'
<1> USE DEF PipesInv
<1>1. \A b \in Bars : b[1] \in Pipes
  BY BarParts
<1>2. ASSUME NEW b \in Bars
      PROVE  /\ Armed(b)' = Armed(b) /\ Arrivals(b)' = Arrivals(b)
             /\ \A w \in Warps : /\ Freed(w, b)' = Freed(w, b)
                                 /\ Held(w, b)' = Held(w, b)
             /\ Unissued(b)' <=> Unissued(b)
             /\ Owed(b)' = Owed(b)
  BY <1>1 DEF Armed, Freed, Held, Arrivals, Unissued, Owed, InFlight
<1>3. StatesOK'
  BY DEF StatesOK
<1>4. RoundsOK'
  BY <1>2 DEF RoundsOK
<1>5. FullOK'
  BY <1>2 DEF FullOK
<1>6. LoadsOK'
  BY <1>2 DEF LoadsOK
<1>7. EmptyOK'
  BY <1>2 DEF EmptyOK
<1> QED
  BY <1>3, <1>4, <1>5, <1>6, <1>7

\* Acquiring a slot starts its next round: nothing is being loaded into it,
\* and one load is owed.
LEMMA AcquireFacts ==
  ASSUME PipesInv, NEW kind \in Producing, Acquire(kind),
         NEW p, p = PipeOf(kind), NEW i, i = pBar(p)
  PROVE  /\ p \in Pipes /\ i \in Bars
         /\ full[i].phase = Armed(i) /\ empty[i].phase = Armed(i)
         /\ full[i].pending = 1 /\ full[i].tx = 0
         /\ \A l \in loads : BarOf(l) # i
         /\ Armed(i)' = Armed(i) + 1 /\ Unissued(i)'
         /\ \A b \in Bars \ {i} : /\ Armed(b)' = Armed(b)
                                  /\ ~ Unissued(b)' /\ ~ Unissued(b)
<1>1. /\ p \in Pipes /\ SlotFree(p) /\ pState' = pState
      /\ Filling(p)' /\ \A q \in Pipes : ~ Filling(q)
      /\ \A q \in Pipes \ {p} : ~ Filling(q)'
  BY DEF Acquire, Filling, PipeOf, Pipes, Producing, Copying
<1>2. i \in Bars /\ full[i].phase = Armed(i) /\ empty[i].phase = Armed(i)
  BY <1>1, FreeSlot
<1>3. full[i].pending = 1 /\ full[i].tx = 0
  BY <1>2 DEF PipesInv, FullOK
<1>4. \A l \in loads : BarOf(l) # i
  BY <1>2, <1>3, IdleSlot
<1>5. i[1] = p /\ i[2] = pState[p].index
  BY DEF pBar
<1>6. /\ Unissued(i)' /\ ~ Unissued(i)
      /\ \A b \in Bars \ {i} : ~ Unissued(b)' /\ ~ Unissued(b)
  <2>1. Unissued(i)' /\ ~ Unissued(i)
    BY <1>1, <1>5 DEF Unissued
  <2>2. ASSUME NEW b \in Bars \ {i} PROVE ~ Unissued(b)' /\ ~ Unissued(b)
    <3>1. b[1] \in Pipes /\ b = <<b[1], b[2]>>
      BY BarParts
    <3>2. b[1] # p \/ b[2] # pState[p].index
      BY <3>1 DEF pBar
    <3> QED
      BY <1>1, <3>1, <3>2 DEF Unissued
  <2> QED
    BY <2>1, <2>2
<1>7. /\ Armed(i)' = Armed(i) + 1
      /\ \A b \in Bars \ {i} : Armed(b)' = Armed(b)
  <2>1. \A b \in Bars : Uses(b[1], pState[b[1]].count, b[2]) \in Nat
    <3> SUFFICES ASSUME NEW b \in Bars
                 PROVE  Uses(b[1], pState[b[1]].count, b[2]) \in Nat
      OBVIOUS
    <3>1. b[1] \in Pipes /\ <<b[1], b[2]>> \in Bars
      BY BarParts
    <3>2. pState[b[1]].count \in Nat
      BY <3>1, StateFacts DEF AnyState
    <3> QED
      BY <3>1, <3>2, UsesFacts
  <2> QED
    BY <1>1, <1>2, <1>6, <2>1 DEF Armed
<1> QED
  BY <1>1, <1>2, <1>3, <1>4, <1>6, <1>7

\* The producer arms the full barrier of a free slot.
LEMMA AcquireStep ==
  ASSUME PipesInv, FlashTypes', NEW kind \in Producing, Acquire(kind),
         NEW p, p = PipeOf(kind), NEW i, i = pBar(p)
  PROVE  PipesInv'
<1>1. /\ p \in Pipes /\ i \in Bars
      /\ full[i].phase = Armed(i) /\ empty[i].phase = Armed(i)
      /\ full[i].pending = 1 /\ full[i].tx = 0
      /\ \A l \in loads : BarOf(l) # i
      /\ Armed(i)' = Armed(i) + 1 /\ Unissued(i)'
      /\ \A b \in Bars \ {i} : /\ Armed(b)' = Armed(b)
                               /\ ~ Unissued(b)' /\ ~ Unissued(b)
  BY AcquireFacts
<1>2. full' = [full EXCEPT ![i] = ArriveExpectTx(@, FullCount, 1)]
  BY DEF Acquire
<1>3. /\ UNCHANGED <<empty, loads, pState, cState, cpc>>
  BY DEF Acquire, cvars
<1>4. /\ full'[i].phase = full[i].phase
      /\ full'[i].pending = 0 /\ full'[i].tx = 1
      /\ \A b \in Bars \ {i} : full'[b] = full[b]
  <2>1. /\ full'[i] = ArriveExpectTx(full[i], FullCount, 1)
        /\ \A b \in Bars \ {i} : full'[b] = full[b]
    BY <1>1, <1>2 DEF PipesInv, FlashTypes
  <2> QED
    BY <1>1, <2>1 DEF ArriveExpectTx, Settle, FullCount
<1>5. ASSUME NEW b \in Bars
      PROVE  /\ Arrivals(b)' = Arrivals(b)
             /\ \A w \in Warps : /\ Freed(w, b)' = Freed(w, b)
                                 /\ Held(w, b)' = Held(w, b)
  BY <1>3 DEF Freed, Held, Arrivals, Reading
<1>6. StatesOK'
  BY <1>3 DEF PipesInv, StatesOK
<1>7. RoundsOK'
  <2> SUFFICES ASSUME NEW b \in Bars
               PROVE  /\ full'[b].phase <= Armed(b)'
                      /\ Armed(b)' <= full'[b].phase + 1
                      /\ Armed(b)' <= empty'[b].phase + 1
                      /\ \A w \in Warps :
                           /\ empty'[b].phase <= Freed(w, b)'
                           /\ Freed(w, b)' + Held(w, b)' <= full'[b].phase
    BY DEF RoundsOK
  <2>1. CASE b = i
    BY <2>1, <1>1, <1>3, <1>4, <1>5, RingTypes DEF PipesInv, RoundsOK
  <2>2. CASE b # i
    BY <2>2, <1>1, <1>3, <1>4, <1>5 DEF PipesInv, RoundsOK
  <2> QED
    BY <2>1, <2>2
<1>8. FullOK'
  <2> SUFFICES ASSUME NEW b \in Bars
               PROVE  /\ full'[b].tx = Owed(b)'
                      /\ IF full'[b].phase = Armed(b)'
                         THEN full'[b].pending = 1 /\ full'[b].tx = 0
                         ELSE full'[b].pending = 0 /\ full'[b].tx = 1
    BY DEF FullOK
  <2>1. CASE b = i
    <3>1. Owed(i)' = 1
      BY <1>1 DEF Owed
    <3>2. full'[i].phase # Armed(i)'
      BY <1>1, <1>4, RingTypes DEF PipesInv
    <3> QED
      BY <2>1, <3>1, <3>2, <1>4
  <2>2. CASE b # i
    <3>1. Owed(b)' = Owed(b)
      BY <2>2, <1>1, <1>3 DEF Owed, InFlight
    <3> QED
      BY <2>2, <3>1, <1>1, <1>4 DEF PipesInv, FullOK
  <2> QED
    BY <2>1, <2>2
<1>9. LoadsOK'
  BY <1>1, <1>3 DEF PipesInv, LoadsOK
<1>10. EmptyOK'
  BY <1>3, <1>5 DEF PipesInv, EmptyOK
<1> QED
  BY <1>6, <1>7, <1>8, <1>9, <1>10 DEF PipesInv

\* What issuing a load does to the slot: it is in flight, and a past use of
\* the producer.
LEMMA IssueFacts ==
  ASSUME PipesInv, NEW kind \in Producing, Issue(kind),
         NEW p, p = PipeOf(kind), NEW i, i = pBar(p)
  PROVE  /\ p \in Pipes /\ i \in Bars /\ Unissued(i)
         /\ \E x : loads' = loads \cup {x} /\ BarOf(x) = i
         /\ \A l \in loads : BarOf(l) # i
         /\ StateOK(p, pState'[p], 1) /\ pState'[p].count = pState[p].count + 1
         /\ \A q \in Pipes \ {p} : pState'[q] = pState[q]
         /\ \A b \in Bars : ~ Unissued(b)' /\ Armed(b)' = Armed(b)
         /\ \A b \in Bars \ {i} : ~ Unissued(b)
         /\ \A b \in Bars : Owed(b)' = Owed(b)
<1>1. /\ p \in Pipes /\ Filling(p) /\ i = <<p, pState[p].index>>
      /\ \A q \in Pipes \ {p} : ~ Filling(q)
      /\ \A q \in Pipes : ~ Filling(q)'
  BY DEF Issue, Filling, PipeOf, Pipes, Producing, Copying, pBar
<1>2. /\ pState[p] \in AnyState /\ StateOK(p, pState[p], 1)
      /\ i \in Bars /\ pState[p].count \in Nat
      /\ pState[p].index = pState[p].count % Stages(p)
  BY <1>1, StateFacts, StateRound
<1>3. Unissued(i) /\ i[1] = p /\ i[2] = pState[p].index
  BY <1>1 DEF Unissued
<1>4. PICK x : loads' = loads \cup {x} /\ BarOf(x) = i
  <2> DEFINE y == [kind |-> kind, slot |-> pState[PipeOf(kind)].index,
                   data |-> Data(kind)]
  <2>1. BarOf(y) = i
    BY <1>1 DEF BarOf
  <2>2. loads' = loads \cup {y}
    BY DEF Issue
  <2> HIDE DEF y
  <2> QED
    BY <2>1, <2>2
<1>5. \A l \in loads : BarOf(l) # i
  BY <1>3 DEF PipesInv, LoadsOK
<1>6. /\ pState'[p] = Advance(pState[p], Stages(p))
      /\ \A q \in Pipes \ {p} : pState'[q] = pState[q]
  BY <1>1 DEF Issue, PipesInv, FlashTypes
<1>7. StateOK(p, pState'[p], 1) /\ pState'[p].count = pState[p].count + 1
  BY <1>1, <1>2, <1>6, AdvanceFacts
<1>8. \A b \in Bars : ~ Unissued(b)'
  BY <1>1, BarParts DEF Unissued
<1>9. \A b \in Bars \ {i} : ~ Unissued(b)
  BY <1>1, BarParts DEF Unissued
<1>10. ASSUME NEW b \in Bars PROVE Armed(b)' = Armed(b)
  <2>1. b[1] \in Pipes /\ b = <<b[1], b[2]>>
    BY BarParts
  <2>2. CASE b[1] = p
    <3>1. Uses(p, pState[p].count + 1, b[2])
            = Uses(p, pState[p].count, b[2])
              + (IF b[2] = pState[p].index THEN 1 ELSE 0)
          /\ Uses(p, pState[p].count, b[2]) \in Nat
      BY <1>1, <1>2, <2>1, <2>2, UsesFacts
    <3>2. Unissued(b) <=> b[2] = pState[p].index
      BY <1>1, <2>2 DEF Unissued
    <3>3. Armed(b) = Uses(p, pState[p].count, b[2])
                       + (IF b[2] = pState[p].index THEN 1 ELSE 0)
      BY <2>2, <3>2 DEF Armed
    <3>4. Armed(b)' = Uses(p, pState[p].count + 1, b[2]) + 0
      BY <1>7, <1>8, <2>2 DEF Armed
    <3> QED
      BY <3>1, <3>3, <3>4
  <2>3. CASE b[1] # p
    <3>1. b # i
      BY <1>3, <2>3
    <3> QED
      BY <1>6, <1>8, <1>9, <2>1, <2>3, <3>1 DEF Armed
  <2> QED
    BY <2>2, <2>3
<1>11. ASSUME NEW b \in Bars PROVE Owed(b)' = Owed(b)
  <2>1. CASE b = i
    <3>1. InFlight(i)'
      BY <1>4 DEF InFlight, BarOf
    <3> QED
      BY <2>1, <3>1, <1>3 DEF Owed
  <2>2. CASE b # i
    <3>1. InFlight(b)' <=> InFlight(b)
      BY <2>2, <1>4 DEF InFlight, BarOf
    <3> QED
      BY <2>2, <3>1, <1>8, <1>9 DEF Owed
  <2> QED
    BY <2>1, <2>2
<1> QED
  BY <1>1, <1>2, <1>3, <1>4, <1>5, <1>6, <1>7, <1>8, <1>9, <1>10, <1>11

LEMMA IssueStep ==
  ASSUME PipesInv, FlashTypes', NEW kind \in Producing, Issue(kind),
         NEW p, p = PipeOf(kind), NEW i, i = pBar(p)
  PROVE  PipesInv'
<1>1. /\ p \in Pipes /\ i \in Bars
      /\ \E x : loads' = loads \cup {x} /\ BarOf(x) = i
      /\ \A l \in loads : BarOf(l) # i
      /\ StateOK(p, pState'[p], 1)
      /\ \A q \in Pipes \ {p} : pState'[q] = pState[q]
      /\ \A b \in Bars : ~ Unissued(b)' /\ Armed(b)' = Armed(b)
      /\ \A b \in Bars : Owed(b)' = Owed(b)
  BY IssueFacts
<1>2. UNCHANGED <<full, empty, cState, cpc>>
  BY DEF Issue, cvars
<1>3. ASSUME NEW b \in Bars
      PROVE  /\ Arrivals(b)' = Arrivals(b)
             /\ \A w \in Warps : /\ Freed(w, b)' = Freed(w, b)
                                 /\ Held(w, b)' = Held(w, b)
  BY <1>2 DEF Freed, Held, Arrivals, Reading
<1>4. StatesOK'
  BY <1>1, <1>2 DEF PipesInv, StatesOK
<1>5. RoundsOK'
  BY <1>1, <1>2, <1>3 DEF PipesInv, RoundsOK
<1>6. FullOK'
  BY <1>1, <1>2 DEF PipesInv, FullOK
<1>7. LoadsOK'
  <2>1. PICK x : loads' = loads \cup {x} /\ BarOf(x) = i
    BY <1>1
  <2>2. \A k, l \in loads' : BarOf(k) = BarOf(l) => k = l
    BY <1>1, <2>1 DEF PipesInv, LoadsOK
  <2>3. \A l \in loads' : BarOf(l) \in Bars
    BY <1>1, <2>1 DEF PipesInv, LoadsOK
  <2> QED
    BY <1>1, <2>2, <2>3 DEF LoadsOK, BarOf
<1>8. EmptyOK'
  BY <1>2, <1>3 DEF PipesInv, EmptyOK
<1> QED
  BY <1>4, <1>5, <1>6, <1>7, <1>8 DEF PipesInv

\* A load that completes ends the phase of its slot's full barrier.
LEMMA LoadDoneFacts ==
  ASSUME PipesInv, NEW l \in loads, LoadDone(l), NEW i, i = BarOf(l)
  PROVE  /\ i \in Bars /\ Owed(i)' = 0
         /\ full[i].phase + 1 = Armed(i) /\ full[i].phase \in Nat
         /\ full'[i].phase = full[i].phase + 1
         /\ full'[i].pending = 1 /\ full'[i].tx = 0
         /\ \A b \in Bars \ {i} : full'[b] = full[b] /\ Owed(b)' = Owed(b)
         /\ \A b \in Bars : /\ Armed(b)' = Armed(b)
                            /\ Unissued(b)' <=> Unissued(b)
<1>1. /\ i = <<PipeOf(l.kind), l.slot>> /\ i \in Bars /\ ~ Unissued(i)
      /\ \A k \in loads : BarOf(k) = i => k = l
  BY DEF BarOf, PipesInv, LoadsOK
<1>2. /\ loads' = loads \ {l} /\ pState' = pState /\ ppc' = ppc
      /\ full' = [full EXCEPT ![i] = CompleteTx(@, FullCount, 1)]
  BY <1>1 DEF LoadDone, pvars
<1>3. \A b \in Bars : Armed(b)' = Armed(b) /\ (Unissued(b)' <=> Unissued(b))
  BY <1>2 DEF Armed, Unissued, Filling
<1>4. InFlight(i) /\ Owed(i) = 1
  BY DEF InFlight, Owed
<1>5. ~ InFlight(i)'
  BY <1>1, <1>2 DEF InFlight, BarOf
<1>6. Owed(i)' = 0
  BY <1>1, <1>3, <1>5 DEF Owed
<1>7. ASSUME NEW b \in Bars \ {i} PROVE Owed(b)' = Owed(b)
  <2>1. InFlight(b)' <=> InFlight(b)
    BY <1>2 DEF InFlight, BarOf
  <2> QED
    BY <2>1, <1>3 DEF Owed
<1>8. /\ full[i].tx = 1 /\ full[i].pending = 0
      /\ full[i].phase # Armed(i)
  BY <1>1, <1>4 DEF PipesInv, FullOK
<1>9. full[i].phase + 1 = Armed(i) /\ full[i].phase \in Nat
  <2>1. full[i].phase <= Armed(i) /\ Armed(i) <= full[i].phase + 1
    BY <1>1 DEF PipesInv, RoundsOK
  <2>2. full[i].phase \in Nat /\ Armed(i) \in Nat
    BY <1>1, RingTypes DEF PipesInv
  <2> QED
    BY <2>1, <2>2, <1>8
<1>10. /\ full'[i] = CompleteTx(full[i], FullCount, 1)
       /\ \A b \in Bars \ {i} : full'[b] = full[b]
  BY <1>1, <1>2 DEF PipesInv, FlashTypes
<1>11. /\ full'[i].phase = full[i].phase + 1
       /\ full'[i].pending = 1 /\ full'[i].tx = 0
  BY <1>8, <1>10 DEF CompleteTx, Settle, FullCount
<1> QED
  BY <1>1, <1>3, <1>6, <1>7, <1>9, <1>10, <1>11

LEMMA LoadDoneStep ==
  ASSUME PipesInv, FlashTypes', NEW l \in loads, LoadDone(l),
         NEW i, i = BarOf(l)
  PROVE  PipesInv'
<1>1. /\ i \in Bars /\ Owed(i)' = 0
      /\ full[i].phase + 1 = Armed(i) /\ full[i].phase \in Nat
      /\ full'[i].phase = full[i].phase + 1
      /\ full'[i].pending = 1 /\ full'[i].tx = 0
      /\ \A b \in Bars \ {i} : full'[b] = full[b] /\ Owed(b)' = Owed(b)
      /\ \A b \in Bars : /\ Armed(b)' = Armed(b)
                         /\ Unissued(b)' <=> Unissued(b)
  BY LoadDoneFacts
<1>2. /\ loads' = loads \ {l}
      /\ UNCHANGED <<empty, pState, cState, cpc>>
  BY DEF LoadDone, pvars, cvars
<1>3. ASSUME NEW b \in Bars
      PROVE  /\ Arrivals(b)' = Arrivals(b)
             /\ \A w \in Warps : /\ Freed(w, b)' = Freed(w, b)
                                 /\ Held(w, b)' = Held(w, b)
  BY <1>2 DEF Freed, Held, Arrivals, Reading
<1>4. StatesOK'
  BY <1>2 DEF PipesInv, StatesOK
<1>5. RoundsOK'
  <2> SUFFICES ASSUME NEW b \in Bars
               PROVE  /\ full'[b].phase <= Armed(b)'
                      /\ Armed(b)' <= full'[b].phase + 1
                      /\ Armed(b)' <= empty'[b].phase + 1
                      /\ \A w \in Warps :
                           /\ empty'[b].phase <= Freed(w, b)'
                           /\ Freed(w, b)' + Held(w, b)' <= full'[b].phase
    BY DEF RoundsOK
  <2>1. CASE b = i
    BY <2>1, <1>1, <1>2, <1>3, RingTypes DEF PipesInv, RoundsOK
  <2>2. CASE b # i
    BY <2>2, <1>1, <1>2, <1>3 DEF PipesInv, RoundsOK
  <2> QED
    BY <2>1, <2>2
<1>6. FullOK'
  <2> SUFFICES ASSUME NEW b \in Bars
               PROVE  /\ full'[b].tx = Owed(b)'
                      /\ IF full'[b].phase = Armed(b)'
                         THEN full'[b].pending = 1 /\ full'[b].tx = 0
                         ELSE full'[b].pending = 0 /\ full'[b].tx = 1
    BY DEF FullOK
  <2>1. CASE b = i
    BY <2>1, <1>1
  <2>2. CASE b # i
    BY <2>2, <1>1 DEF PipesInv, FullOK
  <2> QED
    BY <2>1, <2>2
<1>7. LoadsOK'
  BY <1>1, <1>2 DEF PipesInv, LoadsOK, BarOf
<1>8. EmptyOK'
  BY <1>2, <1>3 DEF PipesInv, EmptyOK
<1> QED
  BY <1>4, <1>5, <1>6, <1>7, <1>8 DEF PipesInv

\* A consumer warp takes a full slot of p and begins to read it.
LEMMA WaitStep ==
  ASSUME PipesInv, FlashTypes', NEW w \in Warps, NEW p \in Pipes,
         SlotFull(w, p), UNCHANGED <<full, empty, loads, ppc, pState, cState>>,
         ~ Reading(w, p), Reading(w, p)',
         \A v \in Warps, q \in Pipes :
           ~ (v = w /\ q = p) => (Reading(v, q)' <=> Reading(v, q)),
         NEW i, i = cBar(w, p)
  PROVE  PipesInv'
<1>1. i \in Bars /\ full[i].phase = Freed(w, i) + 1
  BY FullSlot
<1>2. i[1] = p /\ i[2] = cState[w][p].index
  BY DEF cBar
<1>3. ASSUME NEW b \in Bars
      PROVE  /\ Armed(b)' = Armed(b) /\ Arrivals(b)' = Arrivals(b)
             /\ \A v \in Warps : Freed(v, b)' = Freed(v, b)
             /\ \A v \in Warps : ~ (v = w /\ b = i) => Held(v, b)' = Held(v, b)
             /\ Unissued(b)' <=> Unissued(b)
             /\ Owed(b)' = Owed(b)
  <2>1. b[1] \in Pipes /\ b = <<b[1], b[2]>>
    BY BarParts
  <2>2. \A v \in Warps : ~ (v = w /\ b = i) => Held(v, b)' = Held(v, b)
    BY <2>1 DEF Held, cBar
  <2> QED
    BY <2>2
    DEF Armed, Filling, Freed, Arrivals, Owed, Unissued, InFlight
<1>4. Held(w, i)' = 1
  BY <1>2 DEF Held
<1>5. RoundsOK'
  <2> SUFFICES ASSUME NEW b \in Bars, NEW v \in Warps
               PROVE  Freed(v, b)' + Held(v, b)' <= full'[b].phase
    BY <1>3 DEF PipesInv, RoundsOK
  <2>1. CASE v = w /\ b = i
    <3>1. Freed(v, b)' + Held(v, b)' = full'[b].phase
      BY <2>1, <1>1, <1>3, <1>4
    <3>2. full'[b].phase \in Nat
      BY RingTypes DEF PipesInv
    <3> QED
      BY <3>1, <3>2
  <2>2. CASE ~ (v = w /\ b = i)
    BY <2>2, <1>3 DEF PipesInv, RoundsOK
  <2> QED
    BY <2>1, <2>2
<1>6. FullOK' /\ EmptyOK'
  BY <1>3 DEF PipesInv, FullOK, EmptyOK
<1>7. StatesOK' /\ LoadsOK'
  BY <1>3 DEF PipesInv, StatesOK, LoadsOK, BarOf
<1> QED
  BY <1>5, <1>6, <1>7 DEF PipesInv

\* A warp leaves the slot of p it has read.
Leaves(w, p) ==
  /\ Reading(w, p)
  /\ UNCHANGED <<full, loads, ppc, pState>>
  /\ cState' = [cState EXCEPT ![w][p] = Advance(@, Stages(p))]
  /\ \A v \in Warps, q \in Pipes :
       Reading(v, q)' <=> Reading(v, q) /\ ~ (v = w /\ q = p)

\* What a warp's release of its slot of p does to the rounds of the slots.
LEMMA ReleaseFacts ==
  ASSUME PipesInv, NEW w \in Warps, NEW p \in Pipes, Leaves(w, p), NEW i, i = cBar(w, p)
  PROVE  /\ i \in Bars
         /\ cState'[w][p].count = cState[w][p].count + 1
         /\ \A v \in Warps, q \in Pipes :
              ~ (v = w /\ q = p) => cState'[v][q] = cState[v][q]
         /\ StatesOK'
         /\ Freed(w, i)' = Freed(w, i) + 1 /\ Held(w, i) = 1 /\ Held(w, i)' = 0
         /\ \A b \in Bars, v \in Warps :
              /\ ~ (v = w /\ b = i) => Freed(v, b)' = Freed(v, b)
              /\ Held(v, b)' <= Held(v, b) /\ Held(v, b)' \in {0, 1}
         /\ \A b \in Bars : /\ Armed(b)' = Armed(b) /\ Owed(b)' = Owed(b)
                            /\ Unissued(b)' <=> Unissued(b)
<1> USE DEF Leaves
<1>1. /\ i = <<p, cState[w][p].index>> /\ i[1] = p
      /\ i[2] = cState[w][p].index
  BY DEF cBar
<1>2. /\ cState[w][p] \in AnyState /\ StateOK(p, cState[w][p], 0)
      /\ i \in Bars /\ cState[w][p].count \in Nat
      /\ cState[w][p].index = cState[w][p].count % Stages(p)
  BY <1>1, StateFacts, StateRound
<1>3. /\ cState'[w][p] = Advance(cState[w][p], Stages(p))
      /\ \A v \in Warps, q \in Pipes :
           ~ (v = w /\ q = p) => cState'[v][q] = cState[v][q]
  BY DEF PipesInv, FlashTypes
<1>4. /\ StateOK(p, cState'[w][p], 0)
      /\ cState'[w][p].count = cState[w][p].count + 1
  BY <1>2, <1>3, AdvanceFacts
<1>5. StatesOK'
  BY <1>3, <1>4 DEF PipesInv, StatesOK
<1>6. \A b \in Bars, v \in Warps :
        ~ (v = w /\ b = i) => Freed(v, b)' = Freed(v, b)
  <2> SUFFICES ASSUME NEW b \in Bars, NEW v \in Warps, ~ (v = w /\ b = i)
               PROVE  Freed(v, b)' = Freed(v, b)
    OBVIOUS
  <2>1. b[1] \in Pipes /\ b = <<b[1], b[2]>>
    BY BarParts
  <2>2. CASE v = w /\ b[1] = p
    <3>1. b[2] # cState[w][p].index
      BY <1>1, <2>1, <2>2
    <3>2. Uses(p, cState[w][p].count + 1, b[2])
            = Uses(p, cState[w][p].count, b[2])
          /\ Uses(p, cState[w][p].count, b[2]) \in Nat
      BY <1>2, <2>1, <2>2, <3>1, UsesFacts
    <3> QED
      BY <1>4, <2>2, <3>2 DEF Freed
  <2>3. CASE ~ (v = w /\ b[1] = p)
    BY <1>3, <2>1, <2>3 DEF Freed
  <2> QED
    BY <2>2, <2>3
<1>7. Freed(w, i)' = Freed(w, i) + 1
  <2>1. Uses(p, cState[w][p].count + 1, i[2])
          = Uses(p, cState[w][p].count, i[2]) + 1
    BY <1>1, <1>2, UsesFacts
  <2> QED
    BY <1>1, <1>4, <2>1 DEF Freed
<1>8. Held(w, i) = 1 /\ Held(w, i)' = 0
  BY <1>1 DEF Held
<1>9. \A b \in Bars, v \in Warps :
        Held(v, b)' <= Held(v, b) /\ Held(v, b)' \in {0, 1}
  <2> SUFFICES ASSUME NEW b \in Bars, NEW v \in Warps
               PROVE  Held(v, b)' <= Held(v, b) /\ Held(v, b)' \in {0, 1}
    OBVIOUS
  <2>1. b[1] \in Pipes
    BY BarParts
  <2>2. CASE v = w /\ b[1] = p
    BY <2>1, <2>2 DEF Held
  <2>3. CASE ~ (v = w /\ b[1] = p)
    BY <1>3, <2>1, <2>3 DEF Held
  <2> QED
    BY <2>2, <2>3
<1>10. \A b \in Bars : /\ Armed(b)' = Armed(b) /\ Owed(b)' = Owed(b)
                       /\ Unissued(b)' <=> Unissued(b)
  BY DEF Armed, Filling, Owed, Unissued, InFlight
<1> QED
  BY <1>2, <1>3, <1>4, <1>5, <1>6, <1>7, <1>8, <1>9, <1>10

\* The last warp to release a slot opens it for the producer.
LEMMA ReleaseStep ==
  ASSUME PipesInv, FlashTypes', NEW w \in Warps, NEW p \in Pipes,
         Leaves(w, p), empty' = Arrived(w, p), NEW i, i = cBar(w, p)
  PROVE  PipesInv'
<1>1. /\ i \in Bars
      /\ StatesOK'
      /\ Freed(w, i)' = Freed(w, i) + 1 /\ Held(w, i) = 1 /\ Held(w, i)' = 0
      /\ \A b \in Bars, v \in Warps :
           /\ ~ (v = w /\ b = i) => Freed(v, b)' = Freed(v, b)
           /\ Held(v, b)' <= Held(v, b) /\ Held(v, b)' \in {0, 1}
      /\ \A b \in Bars : /\ Armed(b)' = Armed(b) /\ Owed(b)' = Owed(b)
                         /\ Unissued(b)' <=> Unissued(b)
  BY ReleaseFacts
<1>0. UNCHANGED <<full, loads>>
  BY DEF Leaves
<1>2. empty' = [empty EXCEPT ![i] = Arrive(@, EmptyCount)]
  BY DEF Arrived
<1> DEFINE e == empty[i].phase
<1>3. /\ e \in Nat /\ Freed(w, i) = e
      /\ \A v \in Warps : Freed(v, i) \in {e, e + 1}
      /\ Armed(i) <= e + 1 /\ Armed(i) \in Nat
      /\ full[i].phase \in Nat /\ full[i].phase = e + 1
  <2>1. e \in Nat /\ full[i].phase \in Nat /\ Armed(i) \in Nat
        /\ \A v \in Warps : Freed(v, i) \in Nat /\ Held(v, i) \in {0, 1}
    BY <1>1, RingTypes DEF PipesInv
  <2>2. /\ full[i].phase <= Armed(i) /\ Armed(i) <= e + 1
        /\ \A v \in Warps : e <= Freed(v, i)
                             /\ Freed(v, i) + Held(v, i) <= full[i].phase
    BY <1>1, RoundFacts
  <2> HIDE DEF e
  <2>3. full[i].phase <= e + 1
    BY <2>1, <2>2
  <2>4. Freed(w, i) = e /\ full[i].phase = e + 1
    BY <1>1, <2>1, <2>2, <2>3
  <2>5. \A v \in Warps : Freed(v, i) \in {e, e + 1}
    BY <2>1, <2>2, <2>3
  <2> QED
    BY <2>1, <2>2, <2>4, <2>5
<1>4. /\ w \notin Arrivals(i) /\ Arrivals(i) \in SUBSET Warps
      /\ Cardinality(Arrivals(i) \cup {w}) = Cardinality(Arrivals(i)) + 1
      /\ Cardinality(Arrivals(i)) \in Nat
  <2>1. w \notin Arrivals(i) /\ Arrivals(i) \in SUBSET Warps
    BY <1>3 DEF Arrivals
  <2>2. IsFiniteSet(Arrivals(i))
    BY <2>1, EmptyCountFacts, FS_Subset
  <2> QED
    BY <2>1, <2>2, FS_AddElement, FS_CardinalityType
<1>5. /\ empty[i].pending = EmptyCount - Cardinality(Arrivals(i))
      /\ empty[i].pending # 0 /\ empty[i].tx = 0
  BY <1>1 DEF PipesInv, EmptyOK
<1>6. /\ empty'[i] = Arrive(empty[i], EmptyCount)
      /\ \A b \in Bars \ {i} : empty'[b] = empty[b]
  BY <1>1, <1>2 DEF PipesInv, FlashTypes
<1>7. \A b \in Bars \ {i} : Arrivals(b)' = Arrivals(b)
  BY <1>1, <1>6 DEF Arrivals
<1>8. EmptyCount \in Nat /\ EmptyCount # 0
  BY EmptyCountFacts
<1>9. /\ e <= empty'[i].phase /\ empty'[i].phase \in Nat
      /\ \A v \in Warps : empty'[i].phase <= Freed(v, i)'
      /\ empty'[i].tx = 0 /\ empty'[i].pending # 0
      /\ empty'[i].pending = EmptyCount - Cardinality(Arrivals(i)')
  <2>1. CASE empty[i].pending - 1 = 0
    <3>1. Arrivals(i) \cup {w} = Warps
      <4>1. Cardinality(Arrivals(i) \cup {w}) = Cardinality(Warps)
        BY <2>1, <1>4, <1>5, EmptyCountFacts
      <4>2. Arrivals(i) \cup {w} \in SUBSET Warps
        BY <1>4
      <4> QED
        BY <4>1, <4>2, EmptyCountFacts, FS_Subset
    <3>2. \A v \in Warps : Freed(v, i)' = e + 1
      BY <3>1, <1>1, <1>3 DEF Arrivals
    <3>3. /\ empty'[i].phase = e + 1 /\ empty'[i].pending = EmptyCount
          /\ empty'[i].tx = 0
      BY <2>1, <1>5, <1>6 DEF Arrive, Settle
    <3>4. Arrivals(i)' = {}
      BY <3>2, <3>3, <1>3 DEF Arrivals
    <3>5. Cardinality({}) = 0
      BY FS_EmptySet
    <3> QED
      BY <3>2, <3>3, <3>4, <3>5, <1>3, <1>8
  <2>2. CASE empty[i].pending - 1 # 0
    <3>1. /\ empty'[i].phase = e /\ empty'[i].pending = empty[i].pending - 1
          /\ empty'[i].tx = 0
      BY <2>2, <1>5, <1>6 DEF Arrive, Settle
    <3>2. \A v \in Warps : e <= Freed(v, i)'
      BY <1>1, <1>3
    <3>3. Arrivals(i)' = Arrivals(i) \cup {w}
      BY <3>1, <1>1, <1>3 DEF Arrivals
    <3> QED
      BY <2>2, <3>1, <3>2, <3>3, <1>3, <1>4, <1>5, <1>8
  <2> QED
    BY <2>1, <2>2
<1>10. RoundsOK'
  <2> SUFFICES ASSUME NEW b \in Bars
               PROVE  /\ full'[b].phase <= Armed(b)'
                      /\ Armed(b)' <= full'[b].phase + 1
                      /\ Armed(b)' <= empty'[b].phase + 1
                      /\ \A v \in Warps :
                           /\ empty'[b].phase <= Freed(v, b)'
                           /\ Freed(v, b)' + Held(v, b)' <= full'[b].phase
    BY DEF RoundsOK
  <2>1. full'[b].phase <= Armed(b)' /\ Armed(b)' <= full'[b].phase + 1
    BY <1>0, <1>1 DEF PipesInv, RoundsOK
  <2>2. Armed(b)' <= empty'[b].phase + 1
    <3>1. CASE b = i
      BY <3>1, <1>1, <1>3, <1>9
    <3>2. CASE b # i
      BY <3>2, <1>1, <1>6 DEF PipesInv, RoundsOK
    <3> QED
      BY <3>1, <3>2
  <2>3. ASSUME NEW v \in Warps
        PROVE  /\ empty'[b].phase <= Freed(v, b)'
               /\ Freed(v, b)' + Held(v, b)' <= full'[b].phase
    <3>1. CASE v = w /\ b = i
      BY <3>1, <1>0, <1>1, <1>3, <1>9
    <3>2. CASE ~ (v = w /\ b = i)
      <4>1. /\ Freed(v, b)' = Freed(v, b) /\ Held(v, b)' <= Held(v, b)
            /\ Held(v, b)' \in {0, 1} /\ Held(v, b) \in {0, 1}
            /\ Freed(v, b) \in Nat /\ full[b].phase \in Nat
            /\ Freed(v, b) + Held(v, b) <= full[b].phase
        BY <3>2, <1>1, RingTypes DEF PipesInv, RoundsOK
      <4>2. Freed(v, b)' + Held(v, b)' <= full'[b].phase
        BY <1>0, <4>1
      <4>3. empty'[b].phase <= Freed(v, b)'
        <5>1. CASE b = i
          BY <5>1, <1>9
        <5>2. CASE b # i
          BY <5>2, <4>1, <1>6 DEF PipesInv, RoundsOK
        <5> QED
          BY <5>1, <5>2
      <4> QED
        BY <4>2, <4>3
    <3> QED
      BY <3>1, <3>2
  <2> QED
    BY <2>1, <2>2, <2>3
<1>11. FullOK'
  BY <1>0, <1>1 DEF PipesInv, FullOK
<1>12. LoadsOK'
  BY <1>0, <1>1 DEF PipesInv, LoadsOK, BarOf
<1>13. EmptyOK'
  <2> SUFFICES ASSUME NEW b \in Bars
               PROVE  /\ empty'[b].tx = 0 /\ empty'[b].pending # 0
                      /\ empty'[b].pending
                           = EmptyCount - Cardinality(Arrivals(b)')
    BY DEF EmptyOK
  <2>1. CASE b = i
    BY <2>1, <1>9
  <2>2. CASE b # i
    BY <2>2, <1>6, <1>7 DEF PipesInv, EmptyOK
  <2> QED
    BY <2>1, <2>2
<1> QED
  BY <1>1, <1>10, <1>11, <1>12, <1>13 DEF PipesInv

LEMMA PipesStep == PipesInv /\ [Next]_vars => PipesInv'
<1> SUFFICES ASSUME PipesInv, [Next]_vars PROVE PipesInv'
  OBVIOUS
<1>1. FlashTypes'
  BY TypesStep DEF PipesInv
<1>2. cpc \in [Warps -> CPcs] /\ "qk" \in Pipes /\ "v" \in Pipes
      /\ Stages("qk") = STAGE /\ Stages("v") = 1
  BY DEF PipesInv, FlashTypes, Pipes, Stages
<1> USE <1>1
\* The steps of the pipelines.
<1>3. ASSUME NEW kind \in Producing, Acquire(kind) PROVE PipesInv'
  BY <1>3, AcquireStep
<1>4. ASSUME NEW kind \in Producing, Issue(kind) PROVE PipesInv'
  BY <1>4, IssueStep
<1>5. ASSUME NEW l \in loads, LoadDone(l) PROVE PipesInv'
  BY <1>5, LoadDoneStep
<1>6. ASSUME NEW w \in Warps, ReadQ(w) PROVE PipesInv'
  BY <1>2, <1>6, WaitStep DEF ReadQ, Goto, Reading, Pipes, pvars
<1>7. ASSUME NEW w \in Warps, ReadK(w) PROVE PipesInv'
  BY <1>2, <1>7, WaitStep DEF ReadK, Goto, Reading, Pipes, pvars
<1>8. ASSUME NEW w \in Warps, ReadV(w) PROVE PipesInv'
  BY <1>2, <1>8, WaitStep DEF ReadV, Goto, Reading, Pipes, pvars
<1>9. ASSUME NEW w \in Warps, ReleaseQK(w) PROVE PipesInv'
  BY <1>2, <1>9, ReleaseStep DEF ReleaseQK, Leaves, Goto, Reading, Pipes,
     pvars
<1>10. ASSUME NEW w \in Warps, ReleaseV(w) PROVE PipesInv'
  BY <1>2, <1>10, ReleaseStep DEF ReleaseV, Leaves, Goto, Reading, Pipes,
     pvars
\* The steps that leave them alone.
<1>11. ASSUME NEW w \in Warps,
              MultiplyK(w) \/ NormalizeStats(w) \/ NormalizeRow(w)
       PROVE  PipesInv'
  BY <1>2, <1>11, QuietStep
  DEF MultiplyK, NormalizeStats, NormalizeRow, Goto, Reading, Filling, pvars,
      cvars, evars
<1>12. ASSUME NEW w \in Warps,
              WritePartial(w) \/ ReducePartials(w) \/ WriteO(w) \/ FenceO(w)
       PROVE  PipesInv'
  BY <1>2, <1>12, QuietStep
  DEF WritePartial, ReducePartials, WriteO, FenceO, Goto, Reading, Filling,
      pvars, cvars, evars
<1>13. CASE BarSync
  BY <1>2, <1>13, QuietStep
  DEF BarSync, AfterBarSync, AllAtBarSync, AtBarSync, Reading, Filling, pvars
<1>14. CASE LeaderStep
  BY <1>2, <1>14, QuietStep
  DEF LeaderStep, StoreO, DrainO, Goto, Reading, Filling, pvars, evars
<1>15. CASE TileSync
  <2>1. Resume(pTile) \in {"Q", "done"}
        /\ \A w \in Warps : Resume(cTile[w]) \in {"Q", "done"}
    BY DEF Resume
  <2> QED
    BY <1>2, <1>15, <2>1, QuietStep
    DEF TileSync, AllAtTile, Reading, Filling, evars
<1>16. ASSUME NEW st \in stores, StoreRead(st) PROVE PipesInv'
  BY <1>16, QuietStep DEF StoreRead, Reading, Filling, pvars, cvars
<1>17. CASE UNCHANGED vars
  BY <1>17, QuietStep DEF vars, Reading, Filling, pvars, cvars, evars
<1> QED
  BY <1>3, <1>4, <1>5, <1>6, <1>7, <1>8, <1>9, <1>10, <1>11, <1>12,
     <1>13, <1>14, <1>15, <1>16, <1>17
  DEF Next, ProducerStep, ConsumerStep, TmaStep, Terminated

-----------------------------------------------------------------------------
(* The uses of the producer and of the consumers.                          *)

\* The full barrier of a slot has completed no more phases than there were
\* loads issued into it.
LEMMA FullIssued ==
  ASSUME PipesInv, NEW b \in Bars
  PROVE  full[b].phase <= Uses(b[1], pState[b[1]].count, b[2])
<1> DEFINE u == Uses(b[1], pState[b[1]].count, b[2])
<1>1. u \in Nat
  BY BarParts, StateFacts, UsesFacts DEF AnyState
<1>2. full[b].phase <= Armed(b) /\ full[b].phase \in Nat
  BY RingTypes, RoundFacts DEF PipesInv
<1>3. CASE Unissued(b)
  <2>1. Armed(b) = u + 1
    BY <1>3 DEF Armed
  <2>2. full[b].phase # Armed(b)
    BY <1>3 DEF PipesInv, FullOK, Owed
  <2> HIDE DEF u
  <2>3. full[b].phase <= u
    BY <1>1, <1>2, <2>1, <2>2
  <2> QED
    BY <2>3 DEF u
<1>4. CASE ~ Unissued(b)
  <2>1. Armed(b) = u
    BY <1>1, <1>4 DEF Armed
  <2> QED
    BY <1>2, <2>1
<1> QED
  BY <1>3, <1>4

\* A consumer is never ahead of the producer, and never behind it by more
\* than the slots of the pipeline.
LEMMA CountOrder ==
  ASSUME PipesInv, NEW p \in Pipes, NEW w \in Warps
  PROVE  /\ pState[p].count \in Nat /\ cState[w][p].count \in Nat
         /\ cState[w][p].count <= pState[p].count
         /\ Reading(w, p) => cState[w][p].count + 1 <= pState[p].count
         /\ pState[p].count <= cState[w][p].count + Stages(p)
<1> DEFINE n == pState[p].count
           c == cState[w][p].count
           S == Stages(p)
<1>1. n \in Nat /\ c \in Nat
  BY StateFacts DEF AnyState
<1>2. S \in {1, 2}
  BY PipeFacts
<1> HIDE DEF n, c, S
<1>3. ASSUME NEW s \in 0 .. S - 1
      PROVE  /\ Uses(p, c, s) \in Nat /\ Uses(p, n, s) \in Nat
             /\ Uses(p, c, s) + Held(w, <<p, s>>) <= Uses(p, n, s)
             /\ Held(w, <<p, s>>) \in {0, 1}
             /\ Uses(p, n, s) <= Uses(p, c, s) + 1
  <2>1. <<p, s>> \in Bars
    BY BarFacts DEF S
  <2>2. Uses(p, c, s) \in Nat /\ Uses(p, n, s) \in Nat
    BY <1>1, <2>1, UsesFacts
  <2>3. Freed(w, <<p, s>>) = Uses(p, c, s)
    BY DEF Freed, c
  <2>4. /\ Freed(w, <<p, s>>) + Held(w, <<p, s>>) <= full[<<p, s>>].phase
        /\ empty[<<p, s>>].phase <= Freed(w, <<p, s>>)
        /\ Armed(<<p, s>>) <= empty[<<p, s>>].phase + 1
    BY <2>1, RoundFacts
  <2>5. full[<<p, s>>].phase <= Uses(p, n, s)
    BY <2>1, FullIssued DEF n
  <2>6. Uses(p, n, s) <= Armed(<<p, s>>)
    BY <2>2 DEF Armed, n
  <2>7. /\ full[<<p, s>>].phase \in Nat /\ empty[<<p, s>>].phase \in Nat
        /\ Armed(<<p, s>>) \in Nat /\ Held(w, <<p, s>>) \in {0, 1}
    BY <2>1, RingTypes DEF PipesInv
  <2> QED
    BY <2>2, <2>3, <2>4, <2>5, <2>6, <2>7
<1>4. ASSUME NEW m \in Nat
      PROVE  /\ m % S \in 0 .. S - 1 /\ <<p, m % S>> \in Bars
             /\ Uses(p, m + 1, m % S) = Uses(p, m, m % S) + 1
  <2>1. m % S \in 0 .. S - 1
    BY <1>2
  <2>2. <<p, m % S>> \in Bars
    BY <2>1, BarFacts DEF S
  <2> QED
    BY <2>1, <2>2, UsesFacts DEF S
<1>5. c <= n
  <2> SUFFICES ASSUME n + 1 <= c PROVE FALSE
    BY <1>1
  <2>1. n + 1 \in Nat /\ n % S \in 0 .. S - 1 /\ <<p, n % S>> \in Bars
    BY <1>1, <1>4
  <2>2. Uses(p, n + 1, n % S) <= Uses(p, c, n % S)
    BY <1>1, <2>1, UsesMonotone
  <2>3. Uses(p, n + 1, n % S) = Uses(p, n, n % S) + 1
    BY <1>1, <1>4
  <2>4. /\ Uses(p, c, n % S) \in Nat /\ Uses(p, n, n % S) \in Nat
        /\ Uses(p, c, n % S) + Held(w, <<p, n % S>>) <= Uses(p, n, n % S)
        /\ Held(w, <<p, n % S>>) \in {0, 1}
    BY <1>3, <2>1
  <2> QED
    BY <2>2, <2>3, <2>4
<1>6. ASSUME Reading(w, p) PROVE c + 1 <= n
  <2> SUFFICES ASSUME n <= c PROVE FALSE
    BY <1>1
  <2>1. cState[w][p].index = c % S
    BY StateFacts DEF StateOK, c, S
  <2>2. Held(w, <<p, c % S>>) = 1
    BY <1>6, <2>1 DEF Held
  <2>3. Uses(p, n, c % S) <= Uses(p, c, c % S)
    BY <1>1, <1>4, UsesMonotone
  <2> QED
    BY <2>2, <2>3, <1>1, <1>3, <1>4
<1>7. n <= c + S
  <2> SUFFICES ASSUME c + S + 1 <= n PROVE FALSE
    BY <1>1, <1>2
  <2>1. c + S \in Nat /\ c + S + 1 \in Nat /\ c + 1 \in Nat
        /\ c % S \in 0 .. S - 1 /\ <<p, c % S>> \in Bars
    BY <1>1, <1>2, <1>4
  <2>2. Uses(p, c + S + 1, c % S) = Uses(p, c, c % S) + 2
    <3>1. CASE S = 1
      <4>1. c % S = 0 /\ (c + 1) % S = 0
        BY <1>1, <3>1
      <4>2. /\ Uses(p, c + 1, 0) = Uses(p, c, 0) + 1
            /\ Uses(p, c + 1 + 1, 0) = Uses(p, c + 1, 0) + 1
        BY <1>1, <1>4, <2>1, <4>1
      <4>3. Uses(p, c, 0) \in Nat
        BY <1>3, <2>1, <4>1
      <4> QED
        BY <1>1, <3>1, <4>1, <4>2, <4>3
    <3>2. CASE S = 2
      <4>1. (c + 1) % S # c % S /\ (c + 2) % S = c % S
        BY <1>1, <3>2
      <4>2. Uses(p, c + 1, c % S) = Uses(p, c, c % S) + 1
        BY <1>1, <1>4
      <4>3. Uses(p, c + 1 + 1, c % S) = Uses(p, c + 1, c % S)
        <5>1. /\ Uses(p, c + 1, c % S) \in Nat
              /\ Uses(p, c + 1 + 1, c % S) = Uses(p, c + 1, c % S)
                   + (IF c % S = (c + 1) % Stages(p) THEN 1 ELSE 0)
          BY <2>1, UsesFacts
        <5> QED
          BY <4>1, <5>1 DEF S
      <4>4. c + 1 + 1 = c + 2 /\ c + 2 \in Nat
        BY <1>1
      <4>5. Uses(p, c + 2 + 1, (c + 2) % S) = Uses(p, c + 2, (c + 2) % S) + 1
        BY <1>4, <4>4
      <4>6. Uses(p, c, c % S) \in Nat
        BY <1>1, <1>3, <1>4
      <4> QED
        BY <3>2, <4>1, <4>2, <4>3, <4>4, <4>5, <4>6
    <3> QED
      BY <1>2, <3>1, <3>2
  <2>3. Uses(p, c + S + 1, c % S) <= Uses(p, n, c % S)
    BY <1>1, <2>1, UsesMonotone
  <2>4. /\ Uses(p, c, c % S) \in Nat /\ Uses(p, n, c % S) \in Nat
        /\ Uses(p, n, c % S) <= Uses(p, c, c % S) + 1
    BY <1>3, <2>1
  <2> QED
    BY <2>2, <2>3, <2>4
<1> QED
  BY <1>1, <1>5, <1>6, <1>7 DEF n, c, S

\* When a warp has caught up with the producer nothing is being loaded.
LEMMA CaughtUp ==
  ASSUME PipesInv, NEW w \in Warps,
         \A p \in Pipes : ~ Filling(p) /\ cState[w][p].count = pState[p].count
  PROVE  loads = {}
<1> SUFFICES ASSUME NEW l \in loads PROVE FALSE
  OBVIOUS
<1> DEFINE b == BarOf(l)
<1>1. b \in Bars
  BY DEF PipesInv, LoadsOK
<1> HIDE DEF b
<1>2. b[1] \in Pipes
  BY <1>1, BarParts
<1>3. Owed(b) = 1
  BY DEF Owed, InFlight, b
<1>4. full[b].phase # Armed(b)
  BY <1>1, <1>3 DEF PipesInv, FullOK
<1>5. Armed(b) = Freed(w, b)
  <2>1. ~ Unissued(b)
    BY <1>2 DEF Unissued
  <2>2. Freed(w, b) \in Nat
    BY <1>1, RingTypes DEF PipesInv
  <2> QED
    BY <1>2, <2>1, <2>2 DEF Armed, Freed
<1>6. /\ full[b].phase <= Armed(b) /\ Freed(w, b) + Held(w, b) <= full[b].phase
      /\ full[b].phase \in Nat /\ Freed(w, b) \in Nat /\ Held(w, b) \in {0, 1}
  BY <1>1, RoundFacts, RingTypes DEF PipesInv
<1> QED
  BY <1>4, <1>5, <1>6

\* A warp that has left the loop over the k-blocks is past every load of the
\* tile: the producer is at its end too, and nothing is being loaded.
LEMMA PastLoads ==
  ASSUME PipesInv, ProducerOK, ConsumerOK, CountsOK,
         NEW w \in Warps, cpc[w] \in Past
  PROVE  /\ ppc = "tile" /\ pI = cI[w] /\ loads = {}
         /\ \A p \in Pipes : cState[w][p].count = pState[p].count
<1>1. /\ "qk" \in Pipes /\ "v" \in Pipes /\ Pipes = {"qk", "v"}
      /\ pI \in Nat /\ pTile \in Nat /\ cI[w] \in Nat
      /\ ppc \in PPcs /\ cpc[w] \in CPcs
  BY DEF PipesInv, FlashTypes, Pipes
<1>2. cI[w] = k_blocks(pTile) /\ k_blocks(pTile) \in Nat \ {0}
  BY <1>1, TileFacts DEF ConsumerOK
<1>3. pI >= k_blocks(pTile)
  <2>1. /\ cState[w]["v"].count - cI[w] = pState["v"].count - pI
    BY <1>1 DEF CountsOK, TileStart, pUses, cUses
  <2>2. /\ cState[w]["v"].count \in Nat /\ pState["v"].count \in Nat
        /\ cState[w]["v"].count <= pState["v"].count
    BY <1>1, CountOrder
  <2> QED
    BY <1>1, <1>2, <2>1, <2>2
<1>4. ppc = "tile" /\ pI = cI[w]
  BY <1>1, <1>2, <1>3 DEF ProducerOK, PPcs, Producing
<1>5. \A p \in Pipes : cState[w][p].count = pState[p].count
  <2> SUFFICES ASSUME NEW p \in Pipes
               PROVE  cState[w][p].count = pState[p].count
    OBVIOUS
  <2>1. pUses(p) = cUses(w, p) /\ pUses(p) \in Nat
    BY <1>1, <1>4 DEF pUses, cUses, Past, AtQ, AtK, AtV
  <2>2. cState[w][p].count - cUses(w, p) = pState[p].count - pUses(p)
    BY DEF CountsOK, TileStart
  <2>3. cState[w][p].count \in Nat /\ pState[p].count \in Nat
    BY CountOrder
  <2> QED
    BY <2>1, <2>2, <2>3
<1>6. loads = {}
  <2>1. \A p \in Pipes : ~ Filling(p)
    BY <1>4 DEF Filling
  <2> QED
    BY <1>5, <2>1, CaughtUp
<1> QED
  BY <1>4, <1>5, <1>6

-----------------------------------------------------------------------------
(* The loops of the producer and of the consumers.                         *)

LEMMA LoopsInit == Init => LoopsInv
<1> SUFFICES ASSUME Init PROVE LoopsInv
  OBVIOUS
<1>1. BlockIdx \in Nat /\ GridDim \in Nat \ {0} /\ GridDim <= tiles_num
      /\ BlockIdx < GridDim
  BY ShapeFacts
<1>2. ProducerOK
  BY <1>1, TileFacts DEF Init, ProducerOK
<1>3. ConsumerOK
  BY DEF Init, ConsumerOK, AtQ, AtK, AtV, Past
<1>4. CountsOK
  BY DEF Init, CountsOK, TileStart, pUses, cUses, AtQ, NewState
<1>5. IssuedOK
  BY DEF Init, IssuedOK
<1> QED
  BY <1>2, <1>3, <1>4, <1>5 DEF LoopsInv

\* A step that changes no counter, and nobody's place in the loops.
LEMMA QuietLoops ==
  ASSUME LoopsInv, UNCHANGED <<pTile, pI, pState, cTile, cI, cState>>,
         loads' \subseteq loads,
         ppc' = ppc \/ \E kind \in Producing : ppc = kind /\ ppc' = Copying[kind],
         \A w \in Warps, group \in {AtQ, AtK, AtV, Past, {"done"}} :
           cpc'[w] \in group <=> cpc[w] \in group
  PROVE  LoopsInv'
<1>1. \A group \in { {"Q", "copyQ", "done"}, {"K", "copyK", "V", "copyV"},
                     {"V", "copyV"}, {"tile"}, {"done"} } :
        ppc' \in group <=> ppc \in group
  BY PipeOfFacts DEF Producing
<1>2. ASSUME NEW w \in Warps
      PROVE  /\ cpc'[w] \in AtQ <=> cpc[w] \in AtQ
             /\ cpc'[w] \in AtK <=> cpc[w] \in AtK
             /\ cpc'[w] \in AtV <=> cpc[w] \in AtV
             /\ cpc'[w] \in Past <=> cpc[w] \in Past
             /\ cpc'[w] = "done" <=> cpc[w] = "done"
  BY DEF AtQ
<1>3. /\ \A p : pUses(p)' = pUses(p)
      /\ \A w \in Warps : \A p : cUses(w, p)' = cUses(w, p)
  BY <1>1, <1>2 DEF pUses, cUses
<1>4. \A p : TileStart(p)' = TileStart(p)
  BY <1>3 DEF TileStart
<1>5. ProducerOK'
  BY <1>1 DEF LoopsInv, ProducerOK
<1>6. ConsumerOK'
  BY <1>1, <1>2 DEF LoopsInv, ConsumerOK
<1>7. CountsOK'
  BY <1>3, <1>4 DEF LoopsInv, CountsOK
<1>8. IssuedOK'
  <2>1. \A p : Recent(p)' = Recent(p)
    BY <1>3 DEF Recent
  <2>2. \A p, j : /\ SlotOf(p, j)' = SlotOf(p, j)
                  /\ DataOf(p, j)' = DataOf(p, j)
    BY <1>4 DEF SlotOf, DataOf
  <2> QED
    BY <2>1, <2>2 DEF LoopsInv, IssuedOK
<1> QED
  BY <1>5, <1>6, <1>7, <1>8 DEF LoopsInv

\* The counters of a pipeline in terms of its uses in the tile.
LEMMA UseFacts ==
  ASSUME PipesInv, LoopsInv, NEW p \in Pipes
  PROVE  /\ pUses(p) \in Nat /\ TileStart(p) \in Nat
         /\ pState[p].count = TileStart(p) + pUses(p)
         /\ pState[p].index = SlotOf(p, pUses(p))
         /\ \A w \in Warps :
              /\ cUses(w, p) \in Nat
              /\ cState[w][p].count = TileStart(p) + cUses(w, p)
              /\ cState[w][p].index = SlotOf(p, cUses(w, p))
<1>1. pI \in Nat /\ \A w \in Warps : cI[w] \in Nat
  BY DEF PipesInv, FlashTypes
<1>2. pUses(p) \in Nat /\ \A w \in Warps : cUses(w, p) \in Nat
  BY <1>1 DEF pUses, cUses
<1>3. pState[p].count \in Nat /\ \A w \in Warps : cState[w][p].count \in Nat
  BY StateFacts DEF AnyState
<1>4. TileStart(p) \in Nat
      /\ \A w \in Warps : cState[w][p].count - cUses(w, p) = TileStart(p)
  BY <1>2, <1>3 DEF LoopsInv, CountsOK, TileStart
<1>5. pState[p].count = TileStart(p) + pUses(p)
  BY <1>2, <1>3, <1>4 DEF TileStart
<1>6. \A w \in Warps : cState[w][p].count = TileStart(p) + cUses(w, p)
  BY <1>2, <1>3, <1>4
<1>7. pState[p].index = SlotOf(p, pUses(p))
  BY <1>5, StateFacts DEF SlotOf, StateOK
<1>8. \A w \in Warps : cState[w][p].index = SlotOf(p, cUses(w, p))
  BY <1>6, StateFacts DEF SlotOf, StateOK
<1> QED
  BY <1>2, <1>4, <1>5, <1>6, <1>7, <1>8

\* Slots recur with the stages.
LEMMA SlotFacts ==
  ASSUME NEW p \in Pipes, TileStart(p) \in Nat, NEW j \in Nat
  PROVE  /\ SlotOf(p, j) \in 0 .. Stages(p) - 1
         /\ SlotOf(p, j + Stages(p)) = SlotOf(p, j)
         /\ \A k \in Nat : j < k /\ k < j + Stages(p) =>
              SlotOf(p, j) # SlotOf(p, k)
<1>1. Stages(p) \in {1, 2}
  BY PipeFacts
<1> DEFINE n == TileStart(p) + j
<1>2. n \in Nat
  OBVIOUS
<1>3. TileStart(p) + (j + Stages(p)) = n + Stages(p)
  BY <1>1
<1>4. SlotOf(p, j) = n % Stages(p)
      /\ SlotOf(p, j + Stages(p)) = (n + Stages(p)) % Stages(p)
  BY <1>3 DEF SlotOf
<1> HIDE DEF n
<1>5. n % Stages(p) \in 0 .. Stages(p) - 1
      /\ (n + Stages(p)) % Stages(p) = n % Stages(p)
  <2>1. Stages(p) \in Nat \ {0}
    BY <1>1
  <2> QED
    BY <1>2, <2>1, Division, NextRemainder
<1>6. ASSUME NEW k \in Nat, j < k, k < j + Stages(p)
      PROVE  SlotOf(p, j) # SlotOf(p, k)
  <2>1. Stages(p) = 2 /\ k = j + 1
    BY <1>1, <1>6
  <2>2. SlotOf(p, k) = (n + 1) % 2
    BY <2>1 DEF SlotOf, n
  <2> QED
    BY <1>2, <1>4, <2>1, <2>2
<1> QED
  BY <1>4, <1>5, <1>6

\* What issuing a load does to the counters of the tile.
LEMMA IssueUses ==
  ASSUME PipesInv, LoopsInv, NEW kind \in Producing, Issue(kind),
         NEW p, p = PipeOf(kind)
  PROVE  /\ p \in Pipes /\ pUses(p)' = pUses(p) + 1
         /\ \A q \in Pipes \ {p} : pUses(q)' = pUses(q)
         /\ \A q \in Pipes : TileStart(q)' = TileStart(q)
         /\ loads' = loads \cup {[kind |-> KindOf(p, pUses(p)),
                                  slot |-> SlotOf(p, pUses(p)),
                                  data |-> DataOf(p, pUses(p))]}
<1>1. /\ p \in Pipes /\ Pipes = {"qk", "v"} /\ pI \in Nat
      /\ pState'[p].count = pState[p].count + 1
      /\ \A q \in Pipes \ {p} : pState'[q] = pState[q]
  BY IssueFacts DEF PipesInv, FlashTypes, Pipes
<1>2. pUses(p) \in Nat /\ pState[p].count \in Nat
      /\ pState[p].index = SlotOf(p, pUses(p))
  BY <1>1, UseFacts, StateFacts DEF AnyState
<1>3. /\ pUses(p)' = pUses(p) + 1
      /\ \A q \in Pipes \ {p} : pUses(q)' = pUses(q)
      /\ kind = KindOf(p, pUses(p)) /\ Data(kind) = DataOf(p, pUses(p))
  <2>1. CASE kind = "Q"
    <3>1. p = "qk" /\ ppc = "copyQ" /\ ppc' = "K" /\ pI' = pI /\ pI = 0
      BY <2>1 DEF Issue, PipeOf, Copying, LoopsInv, ProducerOK
    <3> QED
      BY <2>1, <3>1, <1>1 DEF pUses, KindOf, Data, DataOf
  <2>2. CASE kind = "K"
    <3>1. p = "qk" /\ ppc = "copyK" /\ ppc' = "V" /\ pI' = pI
      BY <2>2 DEF Issue, PipeOf, Copying
    <3>2. pUses("qk") = pI + 1 /\ pUses("qk")' = pI + 2
          /\ pUses("v") = pI /\ pUses("v")' = pI
      BY <3>1 DEF pUses
    <3>3. pI + 1 # 0 /\ pI + 2 = (pI + 1) + 1 /\ (pI + 1) - 1 = pI
      BY <1>1
    <3> QED
      BY <2>2, <3>1, <3>2, <3>3, <1>1 DEF KindOf, Data, DataOf
  <2>3. CASE kind = "V"
    <3>1. /\ p = "v" /\ ppc = "copyV" /\ ppc' \in {"tile", "K"}
          /\ pI' = pI + 1
      BY <2>3 DEF Issue, PipeOf, Copying
    <3>2. pUses("qk") = pI + 2 /\ pUses("qk")' = (pI + 1) + 1
          /\ pUses("v") = pI /\ pUses("v")' = pI + 1
      BY <3>1 DEF pUses
    <3> QED
      BY <2>3, <3>1, <3>2, <1>1 DEF KindOf, Data, DataOf
  <2> QED
    BY <2>1, <2>2, <2>3 DEF Producing
<1>4. \A q \in Pipes : TileStart(q)' = TileStart(q)
  <2>1. TileStart(p)' = TileStart(p)
    BY <1>1, <1>2, <1>3 DEF TileStart
  <2> QED
    BY <2>1, <1>1, <1>3 DEF TileStart
<1>5. loads' = loads \cup {[kind |-> kind, slot |-> pState[p].index,
                            data |-> Data(kind)]}
  BY DEF Issue
<1> QED
  BY <1>1, <1>2, <1>3, <1>4, <1>5

LEMMA IssueLoops ==
  ASSUME PipesInv, LoopsInv, PipesInv', NEW kind \in Producing, Issue(kind),
         NEW p, p = PipeOf(kind), NEW n, n = pUses(p)
  PROVE  LoopsInv'
<1>1. /\ p \in Pipes /\ pUses(p)' = n + 1
      /\ \A q \in Pipes \ {p} : pUses(q)' = pUses(q)
      /\ \A q \in Pipes : TileStart(q)' = TileStart(q)
      /\ loads' = loads \cup {[kind |-> KindOf(p, n), slot |-> SlotOf(p, n),
                               data |-> DataOf(p, n)]}
  BY IssueUses
<1>2. /\ UNCHANGED <<pTile, cTile, cI, cpc, cState>> /\ ppc = Copying[kind]
      /\ ppc' = CASE kind = "Q" -> "K" [] kind = "K" -> "V"
                  [] kind = "V" -> IF LastBlock(pTile, pI) THEN "tile" ELSE "K"
      /\ pI' = IF kind = "V" THEN pI + 1 ELSE pI
  BY DEF Issue, cvars
<1>3. pI \in Nat /\ pTile \in Nat /\ k_blocks(pTile) \in Nat \ {0}
  BY TileFacts DEF PipesInv, FlashTypes
<1>4. ProducerOK'
  <2>1. CASE kind = "Q"
    BY <2>1, <1>2, <1>3 DEF LoopsInv, ProducerOK, Copying
  <2>2. CASE kind = "K"
    BY <2>2, <1>2, <1>3 DEF LoopsInv, ProducerOK, Copying
  <2>3. CASE kind = "V"
    BY <2>3, <1>2, <1>3 DEF LoopsInv, ProducerOK, Copying, LastBlock
  <2> QED
    BY <2>1, <2>2, <2>3 DEF Producing
<1>5. ConsumerOK'
  <2>1. ppc # "done" /\ ppc' # "done"
    BY <1>2 DEF Producing, Copying
  <2> QED
    BY <1>2, <2>1 DEF LoopsInv, ConsumerOK
<1>6. CountsOK'
  <2>1. \A w \in Warps, q \in Pipes : cUses(w, q)' = cUses(w, q)
    BY <1>2 DEF cUses
  <2> QED
    BY <1>1, <1>2, <2>1 DEF LoopsInv, CountsOK
<1>7. \A q \in Pipes : \A j : SlotOf(q, j)' = SlotOf(q, j)
                              /\ DataOf(q, j)' = DataOf(q, j)
  BY <1>1, <1>2 DEF SlotOf, DataOf
<1>8. n \in Nat /\ TileStart(p) \in Nat /\ Stages(p) \in {1, 2}
      /\ SlotOf(p, n) = pState[p].index
  BY <1>1, UseFacts, PipeFacts
<1>9. IssuedOK'
  <2> SUFFICES ASSUME NEW l \in loads'
               PROVE  \E q \in Pipes : \E j \in Recent(q)' :
                        l = [kind |-> KindOf(q, j), slot |-> SlotOf(q, j),
                             data |-> DataOf(q, j)]
    BY <1>7 DEF IssuedOK
  <2>1. CASE l \in loads
    <3>0. PICK q \in Pipes : \E j \in Recent(q) :
            l = [kind |-> KindOf(q, j), slot |-> SlotOf(q, j),
                 data |-> DataOf(q, j)]
      BY <2>1 DEF LoopsInv, IssuedOK
    <3>1. PICK j \in Recent(q) :
            l = [kind |-> KindOf(q, j), slot |-> SlotOf(q, j),
                 data |-> DataOf(q, j)]
      BY <3>0
    <3>2. CASE q # p
      <4>1. j \in Recent(q)'
        BY <3>2, <1>1 DEF Recent
      <4> QED
        BY <3>1, <4>1
    <3>3. CASE q = p
      <4>1. j \in n - Stages(p) .. n - 1 /\ j \in Nat
        BY <3>3, <1>8 DEF Recent
      <4>2. j # n - Stages(p)
        <5> SUFFICES ASSUME n = j + Stages(p) PROVE FALSE
          BY <1>8, <4>1
        <5>1. SlotOf(p, j) = pState[p].index
          BY <1>1, <1>8, <4>1, SlotFacts
        <5>2. BarOf(l) = pBar(p)
          <6>1. PipeOf(l.kind) = p
            BY <3>1, <3>3, PipeFacts DEF PipeOf, KindOf
          <6>2. l.slot = pState[p].index
            BY <3>1, <3>3, <5>1
          <6> QED
            BY <6>1, <6>2 DEF BarOf, pBar
        <5>3. BarOf(l) # pBar(p)
          BY <2>1, IssueFacts
        <5> QED
          BY <5>2, <5>3
      <4>3. j \in Recent(p)'
        BY <4>1, <4>2, <1>1, <1>8 DEF Recent
      <4> QED
        BY <3>1, <3>3, <4>3
    <3> QED
      BY <3>2, <3>3
  <2>2. CASE l \notin loads
    <3>1. l = [kind |-> KindOf(p, n), slot |-> SlotOf(p, n),
               data |-> DataOf(p, n)]
      BY <2>2, <1>1
    <3>2. n \in Recent(p)'
      BY <1>1, <1>8 DEF Recent
    <3> QED
      BY <3>1, <3>2, <1>1
  <2> QED
    BY <2>1, <2>2
<1> QED
  BY <1>4, <1>5, <1>6, <1>9 DEF LoopsInv

\* A step of the consumers alone: the producer and the loads stay as they are.
LEMMA ConsumerLoops ==
  ASSUME LoopsInv, UNCHANGED <<loads, ppc, pTile, pI, pState, cTile>>,
         ConsumerOK',
         \A w \in Warps, p \in Pipes :
           cState'[w][p].count - cUses(w, p)' = cState[w][p].count - cUses(w, p)
  PROVE  LoopsInv'
<1>1. \A p : /\ pUses(p)' = pUses(p) /\ TileStart(p)' = TileStart(p)
             /\ Recent(p)' = Recent(p)
             /\ \A j : /\ SlotOf(p, j)' = SlotOf(p, j)
                       /\ DataOf(p, j)' = DataOf(p, j)
  BY DEF pUses, TileStart, Recent, SlotOf, DataOf
<1>2. ProducerOK' /\ CountsOK' /\ IssuedOK'
  BY <1>1 DEF LoopsInv, ProducerOK, CountsOK, IssuedOK
<1> QED
  BY <1>2 DEF LoopsInv

LEMMA ReleaseQKLoops ==
  ASSUME PipesInv, LoopsInv, NEW w \in Warps, ReleaseQK(w)
  PROVE  LoopsInv'
<1>1. /\ UNCHANGED <<loads, ppc, pTile, pI, pState, cTile, cI>>
      /\ cpc[w] \in {"relQ", "relK"}
      /\ cpc'[w] = IF cpc[w] = "relQ" THEN "K" ELSE "V"
      /\ \A v \in Warps \ {w} : cpc'[v] = cpc[v]
  BY DEF ReleaseQK, Goto, pvars, PipesInv, FlashTypes
<1>2. /\ cState'[w]["qk"] = Advance(cState[w]["qk"], STAGE)
      /\ \A v \in Warps, p \in Pipes :
           ~ (v = w /\ p = "qk") => cState'[v][p] = cState[v][p]
  BY PipeFacts DEF ReleaseQK, PipesInv, FlashTypes
<1>3. cI[w] \in Nat /\ pTile \in Nat /\ k_blocks(pTile) \in Nat \ {0}
  BY TileFacts DEF PipesInv, FlashTypes
<1>4. ConsumerOK'
  BY <1>1, <1>3 DEF LoopsInv, ConsumerOK, AtQ, AtK, AtV, Past
<1>5. ASSUME NEW v \in Warps, NEW p \in Pipes
      PROVE  cState'[v][p].count - cUses(v, p)'
               = cState[v][p].count - cUses(v, p)
  <2>1. CASE v = w /\ p = "qk"
    <3>1. cState'[w]["qk"].count = cState[w]["qk"].count + 1
      BY <1>2 DEF Advance
    <3>2. cState[w]["qk"].count \in Nat
      BY PipeFacts, StateFacts DEF AnyState
    <3>3. cpc[w] = "relQ" => cI[w] = 0
      BY DEF LoopsInv, ConsumerOK, AtQ
    <3>4. cUses(w, "qk")' = cUses(w, "qk") + 1 /\ cUses(w, "qk") \in Nat
      <4>1. CASE cpc[w] = "relQ"
        BY <4>1, <3>3, <1>1 DEF cUses, AtQ, AtV
      <4>2. CASE cpc[w] = "relK"
        BY <4>2, <1>1, <1>3 DEF cUses, AtQ, AtV
      <4> QED
        BY <4>1, <4>2, <1>1
    <3> QED
      BY <2>1, <3>1, <3>2, <3>4
  <2>2. CASE v # w
    BY <2>2, <1>1, <1>2 DEF cUses
  <2>3. CASE p # "qk"
    BY <2>3, <1>1, <1>2, PipeFacts DEF cUses
  <2> QED
    BY <2>1, <2>2, <2>3
<1> QED
  BY <1>1, <1>4, <1>5, ConsumerLoops

LEMMA ReleaseVLoops ==
  ASSUME PipesInv, LoopsInv, NEW w \in Warps, ReleaseV(w)
  PROVE  LoopsInv'
<1>1. /\ UNCHANGED <<loads, ppc, pTile, pI, pState, cTile>>
      /\ cpc[w] = "relV" /\ cI'[w] = cI[w] + 1
      /\ cpc'[w] = IF LastBlock(cTile[w], cI[w]) THEN "stats" ELSE "K"
      /\ \A v \in Warps \ {w} : cpc'[v] = cpc[v] /\ cI'[v] = cI[v]
  BY DEF ReleaseV, Goto, pvars, PipesInv, FlashTypes
<1>2. /\ cState'[w]["v"] = Advance(cState[w]["v"], 1)
      /\ \A v \in Warps, p \in Pipes :
           ~ (v = w /\ p = "v") => cState'[v][p] = cState[v][p]
  BY PipeFacts DEF ReleaseV, PipesInv, FlashTypes
<1>3. cI[w] \in Nat /\ pTile \in Nat /\ k_blocks(pTile) \in Nat \ {0}
  BY TileFacts DEF PipesInv, FlashTypes
<1>4. ConsumerOK'
  <2>1. cTile[w] = pTile /\ cI[w] < k_blocks(pTile)
    BY <1>1 DEF LoopsInv, ConsumerOK, AtV
  <2>2. /\ cpc'[w] = "stats" => cI'[w] = k_blocks(pTile)
        /\ cpc'[w] = "K" => cI'[w] < k_blocks(pTile)
    BY <2>1, <1>1, <1>3 DEF LastBlock
  <2>3. cpc'[w] \in {"stats", "K"}
    BY <1>1
  <2> QED
    BY <2>1, <2>2, <2>3, <1>1 DEF LoopsInv, ConsumerOK, AtQ, AtK, AtV, Past
<1>5. ASSUME NEW v \in Warps, NEW p \in Pipes
      PROVE  cState'[v][p].count - cUses(v, p)'
               = cState[v][p].count - cUses(v, p)
  <2>1. CASE v = w /\ p = "v"
    <3>1. cState'[w]["v"].count = cState[w]["v"].count + 1
      BY <1>2 DEF Advance
    <3>2. cState[w]["v"].count \in Nat
      BY PipeFacts, StateFacts DEF AnyState
    <3>3. cUses(w, "v") = cI[w] /\ cUses(w, "v")' = cI[w] + 1
      BY <1>1 DEF cUses
    <3> QED
      BY <2>1, <3>1, <3>2, <3>3, <1>3
  <2>2. CASE v = w /\ p = "qk"
    <3>1. cUses(w, "qk") = cI[w] + 2
      BY <1>1 DEF cUses, AtQ, AtV
    <3>2. cUses(w, "qk")' = (cI[w] + 1) + 1
      BY <1>1 DEF cUses, AtQ, AtV
    <3>3. cUses(w, "qk")' = cUses(w, "qk")
      BY <3>1, <3>2, <1>3
    <3>4. cState'[v][p] = cState[v][p]
      BY <2>2, <1>2
    <3> QED
      BY <2>2, <3>3, <3>4
  <2>3. CASE v # w
    BY <2>3, <1>1, <1>2 DEF cUses
  <2> QED
    BY <2>1, <2>2, <2>3, PipeFacts
<1> QED
  BY <1>1, <1>4, <1>5, ConsumerLoops

\* All leave the tile together: nothing is being loaded, and every ring is
\* where the next tile finds it.
LEMMA TileSyncLoops ==
  ASSUME PipesInv, LoopsInv, TileSync
  PROVE  LoopsInv'
<1>1. /\ ppc = "tile" /\ \A w \in Warps : cpc[w] = "tile"
      /\ ppc' = Resume(pTile) /\ pTile' = NextTile(pTile) /\ pI' = 0
      /\ \A w \in Warps : /\ cpc'[w] = Resume(cTile[w])
                          /\ cTile'[w] = NextTile(cTile[w]) /\ cI'[w] = 0
      /\ UNCHANGED <<loads, pState, cState>>
  BY DEF TileSync, AllAtTile
<1>2. \A w \in Warps : cTile[w] = pTile
  BY DEF LoopsInv, ConsumerOK
<1>3. /\ loads = {}
      /\ \A w \in Warps, p \in Pipes : cState[w][p].count = pState[p].count
  <2>1. \A w \in Warps : cpc[w] \in Past
    BY <1>1 DEF Past, CPcs, AtQ, AtK, AtV
  <2> QED
    BY <2>1, PastLoads, EmptyCountFacts DEF LoopsInv
<1>4. /\ NextTile(pTile) \in Nat /\ tiles_num \in Nat
      /\ k_blocks(NextTile(pTile)) \in Nat \ {0}
      /\ Resume(pTile) \in {"Q", "done"}
      /\ Resume(pTile) = "done" <=> NextTile(pTile) >= tiles_num
  <2>1. NextTile(pTile) \in Nat
    BY ShapeFacts DEF PipesInv, FlashTypes, NextTile
  <2> QED
    BY <2>1, TileFacts DEF Resume
<1>5. ProducerOK'
  BY <1>1, <1>4 DEF ProducerOK
<1>6. ConsumerOK'
  BY <1>1, <1>2, <1>4 DEF ConsumerOK, AtQ, AtK, AtV, Past
<1>7. CountsOK'
  <2> SUFFICES ASSUME NEW p \in Pipes
               PROVE  /\ TileStart(p)' >= 0
                      /\ \A w \in Warps : cState'[w][p].count - cUses(w, p)'
                                            = TileStart(p)'
    BY DEF CountsOK
  <2>1. pUses(p)' = 0 /\ \A w \in Warps : cUses(w, p)' = 0
    BY <1>1, <1>2, <1>4 DEF pUses, cUses, AtQ
  <2>2. pState[p].count \in Nat
    BY StateFacts DEF AnyState
  <2>3. TileStart(p)' = pState[p].count
    BY <2>1, <2>2, <1>1 DEF TileStart
  <2> QED
    BY <2>1, <2>2, <2>3, <1>1, <1>3
<1>8. IssuedOK'
  BY <1>1, <1>3 DEF IssuedOK
<1> QED
  BY <1>5, <1>6, <1>7, <1>8 DEF LoopsInv

LEMMA RingInit == Init => RingInv
BY PipesInit, LoopsInit DEF RingInv

LEMMA RingStep == RingInv /\ [Next]_vars => RingInv'
<1> SUFFICES ASSUME PipesInv, LoopsInv, [Next]_vars PROVE PipesInv' /\ LoopsInv'
  BY DEF RingInv
<1>1. PipesInv'
  BY PipesStep
<1>2. cpc \in [Warps -> CPcs]
  BY DEF PipesInv, FlashTypes
<1> SUFFICES LoopsInv'
  BY <1>1
\* The steps that count.
<1>3. ASSUME NEW kind \in Producing, Issue(kind) PROVE LoopsInv'
  BY <1>1, <1>3, IssueLoops
<1>4. ASSUME NEW w \in Warps, ReleaseQK(w) PROVE LoopsInv'
  BY <1>4, ReleaseQKLoops
<1>5. ASSUME NEW w \in Warps, ReleaseV(w) PROVE LoopsInv'
  BY <1>5, ReleaseVLoops
<1>6. CASE TileSync
  BY <1>6, TileSyncLoops
\* The steps that do not.
<1>7. ASSUME NEW kind \in Producing, Acquire(kind) PROVE LoopsInv'
  BY <1>7, QuietLoops DEF Acquire, cvars
<1>8. ASSUME NEW l \in loads, LoadDone(l) PROVE LoopsInv'
  BY <1>8, QuietLoops DEF LoadDone, pvars, cvars
<1>9. ASSUME NEW w \in Warps,
             ReadQ(w) \/ ReadK(w) \/ MultiplyK(w) \/ ReadV(w)
      PROVE  LoopsInv'
  BY <1>2, <1>9, QuietLoops DEF ReadQ, ReadK, MultiplyK, ReadV, Goto, pvars,
     AtQ, AtK, AtV, Past, CPcs
<1>10. ASSUME NEW w \in Warps, NormalizeStats(w) \/ NormalizeRow(w)
       PROVE  LoopsInv'
  BY <1>2, <1>10, QuietLoops DEF NormalizeStats, NormalizeRow, Goto, pvars,
     AtQ, AtK, AtV, Past, CPcs
<1>11. ASSUME NEW w \in Warps,
              WritePartial(w) \/ ReducePartials(w) \/ WriteO(w) \/ FenceO(w)
       PROVE  LoopsInv'
  BY <1>2, <1>11, QuietLoops DEF WritePartial, ReducePartials, WriteO, FenceO,
     Goto, pvars, AtQ, AtK, AtV, Past, CPcs
<1>12. CASE BarSync
  BY <1>2, <1>12, QuietLoops DEF BarSync, AfterBarSync, AllAtBarSync, AtBarSync,
     pvars, AtQ, AtK, AtV, Past, CPcs
<1>13. CASE LeaderStep
  BY <1>2, <1>13, QuietLoops, EmptyCountFacts DEF LeaderStep, StoreO, DrainO,
     Goto, pvars, AtQ, AtK, AtV, Past, CPcs
<1>14. ASSUME NEW st \in stores, StoreRead(st) PROVE LoopsInv'
  BY <1>14, QuietLoops DEF StoreRead, pvars, cvars
<1>15. CASE UNCHANGED vars
  BY <1>15, QuietLoops DEF vars, pvars, cvars
<1> QED
  BY <1>3, <1>4, <1>5, <1>6, <1>7, <1>8, <1>9, <1>10, <1>11, <1>12,
     <1>13, <1>14, <1>15
  DEF Next, ProducerStep, ConsumerStep, TmaStep, Terminated

-----------------------------------------------------------------------------
(* The theorems.                                                           *)

\* The barriers of both pipelines, the loads and the loop counters of the
\* producer and of all consumer warps stay in step in every run of a block.
THEOREM FlashRingCorrect == Spec => []RingInv
BY RingInit, RingStep, PTL DEF Spec

\* Every wait looks at a phase that is the one it needs or the one before, so
\* that the parity bit it tests cannot mislead it.
THEOREM FlashNoParityAlias == Spec => []NoParityAlias
<1>1. ASSUME PipesInv, NEW w \in Warps, NEW p \in Pipes, NEW b, b = cBar(w, p)
      PROVE  full[b].phase - Round(p, cState[w][p].count) \in {0, 1}
  <2>1. b \in Bars /\ Freed(w, b) = Round(p, cState[w][p].count)
    BY <1>1, StateFacts, StateRound DEF Freed, cBar
  <2>2. /\ Freed(w, b) \in Nat /\ full[b].phase \in Nat
        /\ Armed(b) \in Nat /\ empty[b].phase \in Nat
        /\ Held(w, b) \in {0, 1}
    BY <1>1, <2>1, RingTypes DEF PipesInv
  <2>3. /\ Freed(w, b) + Held(w, b) <= full[b].phase
        /\ empty[b].phase <= Freed(w, b)
        /\ full[b].phase <= Armed(b) /\ Armed(b) <= empty[b].phase + 1
    BY <1>1, <2>1, RoundFacts
  <2> QED
    BY <2>1, <2>2, <2>3
<1>2. ASSUME PipesInv, NEW kind \in Producing, ppc = kind,
             NEW p, p = PipeOf(kind), NEW b, b = pBar(p)
      PROVE  Round(p, pState[p].count) - empty[b].phase \in {0, 1}
  <2>1. p \in Pipes /\ b \in Bars /\ Armed(b) = Round(p, pState[p].count)
    <3>1. p \in Pipes /\ ~ Filling(p)
      BY <1>2 DEF PipeOf, Pipes, Producing, Filling
    <3>2. b \in Bars /\ b = <<p, pState[p].index>>
          /\ Uses(p, pState[p].count, pState[p].index) = Round(p, pState[p].count)
          /\ Round(p, pState[p].count) \in Nat
      BY <1>2, <3>1, StateFacts, StateRound DEF pBar
    <3> QED
      BY <3>1, <3>2 DEF Armed, Unissued
  <2>2. /\ full[b].phase \in Nat /\ Armed(b) \in Nat
        /\ empty[b].phase \in Nat
    BY <1>2, <2>1, RingTypes DEF PipesInv
  <2>3. /\ empty[b].phase <= full[b].phase
        /\ full[b].phase <= Armed(b) /\ Armed(b) <= empty[b].phase + 1
    BY <1>2, <2>1, RoundFacts
  <2> QED
    BY <2>1, <2>2, <2>3
<1>3. RingInv => NoParityAlias
  BY <1>1, <1>2 DEF NoParityAlias, RingInv
<1> QED
  BY <1>3, FlashRingCorrect, PTL

-----------------------------------------------------------------------------
(* The named barrier.                                                      *)

\* The column of a warp.
LEMMA WarpFacts ==
  ASSUME NEW w \in Warps
  PROVE  /\ w \in Nat
         /\ warp_n(w) \in Nat /\ warp_m(w) \in TileRows
         /\ warp_n(w) < WARPS_N
         /\ w = WARPS_M * warp_n(w) + warp_m(w)
<1>1. w \in Nat /\ w < WARPS_M * WARPS_N
  BY ShapeFacts DEF Warps
<1> DEFINE n == w \div WARPS_M
           m == w % WARPS_M
<1>2. n \in Nat /\ m \in 0 .. WARPS_M - 1 /\ w = WARPS_M * n + m
  BY <1>1, ShapeFacts, Division
<1>3. warp_n(w) = n /\ warp_m(w) = m /\ TileRows = 0 .. WARPS_M - 1
  BY DEF warp_n, warp_m, TileRows
<1> HIDE DEF n, m
<1>4. n < WARPS_N
  <2> SUFFICES ASSUME WARPS_N <= n PROVE FALSE
    BY <1>2, ShapeFacts
  <2>1. WARPS_M * (n - WARPS_N) >= 0
    BY <1>2, ShapeFacts
  <2>2. WARPS_M * (n - WARPS_N) = WARPS_M * n - WARPS_M * WARPS_N
    BY <1>2, ShapeFacts
  <2>3. WARPS_M * n \in Nat /\ WARPS_M * WARPS_N \in Nat
    BY <1>2, ShapeFacts
  <2> QED
    BY <1>1, <1>2, <2>1, <2>2, <2>3
<1> QED
  BY <1>1, <1>2, <1>3, <1>4

LEMMA LeaderFacts ==
  /\ Leader \in Warps /\ Leader = 0
  /\ warp_n(Leader) = 0 /\ warp_m(Leader) = 0
<1>1. 0 % WARPS_M = 0 /\ 0 \div WARPS_M = 0
  BY ShapeFacts, Division, SmallRemainder
<1> QED
  BY <1>1, EmptyCountFacts DEF Leader, warp_n, warp_m

LEMMA OneColumn ==
  ASSUME WARPS_N = 1, NEW w \in Warps
  PROVE  warp_n(w) = 0
BY WarpFacts

\* Column 0 of warp row m is the warp m.
LEMMA FirstColumn ==
  /\ \A m \in TileRows : m \in Warps /\ warp_m(m) = m /\ warp_n(m) = 0
  /\ \A w \in Warps : warp_n(w) = 0 => w = warp_m(w)
  /\ \A v, w \in Warps : warp_n(v) = warp_n(w) /\ warp_m(v) = warp_m(w) => v = w
<1>1. ASSUME NEW m \in TileRows
      PROVE  m \in Warps /\ warp_m(m) = m /\ warp_n(m) = 0
  <2>1. m \in 0 .. WARPS_M - 1 /\ m \in Nat
    BY DEF TileRows
  <2>2. WARPS_M <= WARPS_M * WARPS_N /\ WARPS_M * WARPS_N \in Nat
    <3>1. WARPS_M * 1 <= WARPS_M * WARPS_N
      BY ShapeFacts
    <3> QED
      BY <3>1, ShapeFacts
  <2>3. m \in Warps
    BY <2>1, <2>2, ShapeFacts DEF Warps
  <2>4. warp_m(m) = m
    BY <2>1, ShapeFacts, SmallRemainder DEF warp_m
  <2>5. warp_n(m) = 0
    <3>1. m = WARPS_M * warp_n(m) + m /\ warp_n(m) \in Nat
      BY <2>3, <2>4, WarpFacts
    <3>2. WARPS_M * warp_n(m) \in Nat
      BY <3>1, ShapeFacts
    <3>3. WARPS_M * warp_n(m) = 0
      BY <2>1, <3>1, <3>2
    <3> QED
      BY <3>1, <3>3, ShapeFacts
  <2> QED
    BY <2>3, <2>4, <2>5
<1>2. ASSUME NEW w \in Warps, warp_n(w) = 0 PROVE w = warp_m(w)
  <2>1. w = WARPS_M * 0 + warp_m(w) /\ warp_m(w) \in Nat
    BY <1>2, WarpFacts, ShapeFacts DEF TileRows
  <2>2. WARPS_M * 0 = 0
    BY ShapeFacts
  <2> QED
    BY <2>1, <2>2
<1>3. ASSUME NEW v \in Warps, NEW w \in Warps, warp_n(v) = warp_n(w),
             warp_m(v) = warp_m(w)
      PROVE  v = w
  BY <1>3, WarpFacts
<1> QED
  BY <1>1, <1>2, <1>3

\* The sections, and when two warps are in the same one.
LEMMA SectionFacts ==
  /\ DOMAIN Sections = {"looping", "partials", "writing", "storing", "over"}
  /\ \A w : /\ In(w, "looping") <=>
                 cpc[w] \in {"Q", "relQ", "K", "mulK", "relK", "V", "relV",
                             "stats", "barStats"}
            /\ In(w, "partials") <=>
                 cpc[w] \in {"normalize", "partial", "barReduce"}
            /\ In(w, "writing") <=>
                 cpc[w] \in {"reduce", "writeO", "fenceO", "barO"}
            /\ In(w, "storing") <=> cpc[w] \in {"store", "drain", "tile"}
            /\ In(w, "over") <=> cpc[w] = "done"
BY DEF Sections, In, AtQ, AtK, AtV

LEMMA SameFacts ==
  ASSUME NEW v, NEW w
  PROVE  SameSection(v, w) <=>
           \/ In(v, "looping") /\ In(w, "looping")
           \/ In(v, "partials") /\ In(w, "partials")
           \/ In(v, "writing") /\ In(w, "writing")
           \/ In(v, "storing") /\ In(w, "storing")
           \/ In(v, "over") /\ In(w, "over")
           \/ /\ WARPS_N = 1
              /\ In(v, "looping") \/ In(v, "writing")
              /\ In(w, "looping") \/ In(w, "writing")
<1>1. (\E s \in DOMAIN Sections : In(v, s) /\ In(w, s)) <=>
           \/ In(v, "looping") /\ In(w, "looping")
           \/ In(v, "partials") /\ In(w, "partials")
           \/ In(v, "writing") /\ In(w, "writing")
           \/ In(v, "storing") /\ In(w, "storing")
           \/ In(v, "over") /\ In(w, "over")
  BY SectionFacts
<1>2. (\A u \in {v, w} : In(u, "looping") \/ In(u, "writing")) <=>
        /\ In(v, "looping") \/ In(v, "writing")
        /\ In(w, "looping") \/ In(w, "writing")
  OBVIOUS
<1> QED
  BY <1>1, <1>2 DEF SameSection

LEMMA AlignInit == Init => AlignInv
<1> SUFFICES ASSUME Init PROVE AlignInv
  OBVIOUS
<1>1. AlignOK
  BY SectionFacts, SameFacts DEF Init, AlignOK
<1>2. RolesOK
  BY SectionFacts DEF Init, RolesOK
<1>3. StoresOK
  BY DEF Init, StoresOK
<1> QED
  BY <1>1, <1>2, <1>3 DEF AlignInv

\* A step that takes no warp to another section.
LEMMA QuietAlign ==
  ASSUME AlignOK,
         \A w \in Warps, s \in DOMAIN Sections : In(w, s)' <=> In(w, s)
  PROVE  AlignOK'
<1> SUFFICES ASSUME NEW v \in Warps, NEW w \in Warps
             PROVE  SameSection(v, w)'
  BY DEF AlignOK
<1>1. SameSection(v, w)
  BY DEF AlignOK
<1>2. DOMAIN Sections' = DOMAIN Sections
  BY DEF Sections, AtQ, AtK, AtV
<1>3. \A u \in {v, w} : /\ In(u, "looping")' <=> In(u, "looping")
                        /\ In(u, "writing")' <=> In(u, "writing")
  BY SectionFacts
<1> QED
  BY <1>1, <1>2, <1>3 DEF SameSection

\* The warps that wait at the barrier wait at the same call.
LEMMA SameCall ==
  ASSUME AlignOK, RolesOK, NEW v \in Warps, NEW w \in Warps,
         AtBarSync(v), AtBarSync(w)
  PROVE  cpc[v] = cpc[w]
<1>1. SameSection(v, w)
  BY DEF AlignOK
<1>2. /\ cpc[v] \in {"barStats", "barReduce", "barO"}
      /\ cpc[w] \in {"barStats", "barReduce", "barO"}
  BY DEF AtBarSync
<1>3. WARPS_N = 1 => cpc[v] # "barStats" /\ cpc[w] # "barStats"
  BY DEF RolesOK
<1> QED
  BY <1>1, <1>2, <1>3, SectionFacts, SameFacts

\* The steps of a single warp.
WarpMoves ==
  {<<"Q", "relQ">>, <<"K", "mulK">>, <<"mulK", "relK">>, <<"relQ", "K">>,
   <<"relK", "V">>, <<"V", "relV">>, <<"relV", "stats">>, <<"relV", "K">>,
   <<"stats", "writeO">>, <<"stats", "barStats">>, <<"normalize", "partial">>,
   <<"normalize", "barReduce">>, <<"partial", "barReduce">>,
   <<"reduce", "writeO">>, <<"writeO", "fenceO">>, <<"fenceO", "barO">>,
   <<"store", "drain">>, <<"drain", "tile">>}

LEMMA WarpSteps ==
  ASSUME FlashTypes, NEW w \in Warps,
         ConsumerStep(w) \/ (w = Leader /\ LeaderStep)
  PROVE  /\ \A v \in Warps \ {w} : cpc'[v] = cpc[v]
         /\ <<cpc[w], cpc'[w]>> \in WarpMoves
         /\ cpc[w] = "stats" => (cpc'[w] = "writeO" <=> WARPS_N = 1)
         /\ cpc[w] = "normalize" => (cpc'[w] = "partial" <=> warp_n(w) > 0)
         /\ cpc[w] \in {"store", "drain"} => w = Leader
         /\ UNCHANGED <<cTile, pTile, ppc, pI, pState, loads, full, gO>>
<1> USE DEF WarpMoves
<1>1. DOMAIN cpc = Warps
  BY DEF FlashTypes
<1>2. CASE ConsumerStep(w)
  <2>1. CASE ReadQ(w) \/ ReadK(w) \/ MultiplyK(w) \/ ReleaseQK(w) \/ ReadV(w)
    BY <2>1, <1>1 DEF ReadQ, ReadK, MultiplyK, ReleaseQK, ReadV, Goto, pvars,
       evars
  <2>2. CASE ReleaseV(w)
    BY <2>2, <1>1 DEF ReleaseV, Goto, pvars, evars
  <2>3. CASE NormalizeStats(w)
    BY <2>3, <1>1 DEF NormalizeStats, Goto, pvars, evars
  <2>4. CASE NormalizeRow(w)
    BY <2>4, <1>1 DEF NormalizeRow, Goto, pvars, evars
  <2>5. CASE WritePartial(w) \/ ReducePartials(w) \/ WriteO(w) \/ FenceO(w)
    BY <2>5, <1>1 DEF WritePartial, ReducePartials, WriteO, FenceO, Goto, pvars,
       evars
  <2> QED
    BY <1>2, <2>1, <2>2, <2>3, <2>4, <2>5 DEF ConsumerStep
<1>3. CASE w = Leader /\ LeaderStep
  BY <1>1, <1>3 DEF LeaderStep, StoreO, DrainO, Goto, pvars, evars
<1> QED
  BY <1>2, <1>3

\* A warp's own step keeps it in its section, except that with one column it
\* goes from the loop to the output without a barrier.
LEMMA WarpStepAlign ==
  ASSUME FlashTypes, AlignOK, RolesOK, NEW w \in Warps,
         ConsumerStep(w) \/ (w = Leader /\ LeaderStep)
  PROVE  AlignOK' /\ RolesOK'
<1> USE DEF WarpMoves
<1>1. /\ \A v \in Warps \ {w} : cpc'[v] = cpc[v]
      /\ <<cpc[w], cpc'[w]>> \in WarpMoves
      /\ cpc[w] = "stats" => (cpc'[w] = "writeO" <=> WARPS_N = 1)
      /\ cpc[w] = "normalize" => (cpc'[w] = "partial" <=> warp_n(w) > 0)
      /\ cpc[w] \in {"store", "drain"} => w = Leader
  BY WarpSteps
<1>2. AlignOK'
  <2>1. CASE cpc[w] = "stats" /\ WARPS_N = 1
    <3> SUFFICES ASSUME NEW u \in Warps, NEW v \in Warps
                 PROVE  SameSection(u, v)'
      BY DEF AlignOK
    <3>1. \A x \in Warps :
            /\ In(w, "looping")
            /\ In(x, "looping") \/ In(x, "writing")
      BY <2>1, SectionFacts, SameFacts DEF AlignOK
    <3>2. cpc'[w] = "writeO"
      BY <1>1, <2>1
    <3>3. DOMAIN Sections' = DOMAIN Sections
          /\ Sections' = Sections
      BY DEF Sections, AtQ, AtK, AtV
    <3>4. In(w, "writing")'
      BY <3>2, <3>3, SectionFacts DEF In, Sections
    <3>5. \A x \in Warps \ {w} : /\ In(x, "looping")' <=> In(x, "looping")
                                 /\ In(x, "writing")' <=> In(x, "writing")
      BY <1>1, <3>3 DEF In
    <3> QED
      BY <2>1, <3>1, <3>4, <3>5 DEF SameSection
  <2>2. CASE ~ (cpc[w] = "stats" /\ WARPS_N = 1)
    <3>1. ASSUME NEW x \in Warps, NEW s \in DOMAIN Sections
          PROVE  In(x, s)' <=> In(x, s)
      <4>1. CASE x # w
        BY <4>1, <1>1 DEF In, Sections, AtQ, AtK, AtV
      <4>2. CASE x = w
        <5>1. s \in {"looping", "partials", "writing", "storing", "over"}
          BY SectionFacts
        <5> QED
          BY <4>2, <5>1, <2>2, <1>1 DEF In, Sections, AtQ, AtK, AtV
      <4> QED
        BY <4>1, <4>2
    <3> QED
      BY <3>1, QuietAlign
  <2> QED
    BY <2>1, <2>2
<1>3. RolesOK'
  <2> SUFFICES ASSUME NEW x \in Warps
               PROVE  /\ cpc'[x] = "partial" => warp_n(x) > 0
                      /\ cpc'[x] \in {"reduce", "writeO", "fenceO"}
                           => warp_n(x) = 0
                      /\ cpc'[x] \in {"store", "drain"} => x = Leader
                      /\ WARPS_N = 1 =>
                           /\ cpc'[x] \notin {"normalize", "partial", "barReduce"}
                           /\ cpc'[x] \notin {"barStats", "reduce"}
    BY DEF RolesOK, In, Sections
  <2>1. /\ cpc[x] = "partial" => warp_n(x) > 0
        /\ cpc[x] \in {"reduce", "writeO", "fenceO"} => warp_n(x) = 0
        /\ cpc[x] \in {"store", "drain"} => x = Leader
        /\ WARPS_N = 1 => /\ cpc[x] \notin {"normalize", "partial", "barReduce"}
                          /\ cpc[x] \notin {"barStats", "reduce"}
    BY DEF RolesOK, In, Sections
  <2>2. CASE x # w
    BY <2>1, <2>2, <1>1
  <2>3. CASE x = w
    BY <2>1, <2>3, <1>1, OneColumn
  <2> QED
    BY <2>2, <2>3
<1> QED
  BY <1>2, <1>3

\* The barrier opens: all go from one section to the next.
LEMMA BarSyncAlign ==
  ASSUME FlashTypes, AlignOK, RolesOK, BarSync
  PROVE  AlignOK' /\ RolesOK'
<1>1. \A w \in Warps : AtBarSync(w) /\ cpc'[w] = AfterBarSync(w)
  BY DEF BarSync, AllAtBarSync
<1>2. \A v, w \in Warps : cpc[v] = cpc[w]
  BY <1>1, SameCall
<1>3. ASSUME NEW w \in Warps
      PROVE  /\ cpc[w] \in {"barStats", "barReduce", "barO"}
             /\ cpc[w] = "barStats" => cpc'[w] = "normalize"
             /\ cpc[w] = "barReduce" =>
                  cpc'[w] = IF warp_n(w) = 0 THEN "reduce" ELSE "barO"
             /\ cpc[w] = "barO" =>
                  cpc'[w] = IF w = Leader THEN "store" ELSE "tile"
  BY <1>1 DEF AtBarSync, AfterBarSync
<1>4. AlignOK'
  <2> SUFFICES ASSUME NEW v \in Warps, NEW w \in Warps
               PROVE  SameSection(v, w)'
    BY DEF AlignOK
  <2>1. \E s \in {"partials", "writing", "storing"} : In(v, s)' /\ In(w, s)'
    BY <1>2, <1>3 DEF In, Sections
  <2> QED
    BY <2>1, SectionFacts DEF SameSection, Sections
<1>5. RolesOK'
  <2> SUFFICES ASSUME NEW x \in Warps
               PROVE  /\ cpc'[x] = "partial" => warp_n(x) > 0
                      /\ cpc'[x] \in {"reduce", "writeO", "fenceO"}
                           => warp_n(x) = 0
                      /\ cpc'[x] \in {"store", "drain"} => x = Leader
                      /\ WARPS_N = 1 =>
                           /\ cpc'[x] \notin {"normalize", "partial", "barReduce"}
                           /\ cpc'[x] \notin {"barStats", "reduce"}
    BY DEF RolesOK, In, Sections
  <2>1. WARPS_N = 1 => cpc[x] \notin {"barStats", "barReduce"}
    BY DEF RolesOK, In, Sections
  <2> QED
    BY <2>1, <1>3
<1> QED
  BY <1>4, <1>5

LEMMA TileSyncAlign ==
  ASSUME FlashTypes, ConsumerOK, TileSync
  PROVE  AlignOK' /\ RolesOK'
<1>1. \A w \in Warps : cpc'[w] = Resume(pTile)
  BY DEF TileSync, ConsumerOK
<1>2. Resume(pTile) \in {"Q", "done"}
  BY DEF Resume
<1>3. AlignOK'
  <2> SUFFICES ASSUME NEW v \in Warps, NEW w \in Warps
               PROVE  SameSection(v, w)'
    BY DEF AlignOK
  <2>1. \E s \in {"looping", "over"} : In(v, s)' /\ In(w, s)'
    BY <1>1, <1>2 DEF In, Sections, AtQ
  <2> QED
    BY <2>1, SectionFacts DEF SameSection, Sections
<1>4. RolesOK'
  BY <1>1, <1>2 DEF RolesOK, In, Sections
<1> QED
  BY <1>3, <1>4

\* Stores are issued and drained by the leader alone, and rows are fenced by
\* the warp that wrote them.
LEMMA WarpStepStores ==
  ASSUME FlashTypes, StoresOK, NEW w \in Warps,
         ConsumerStep(w) \/ (w = Leader /\ LeaderStep)
  PROVE  StoresOK'
<1> USE DEF WarpMoves
<1>1. /\ \A v \in Warps \ {w} : cpc'[v] = cpc[v]
      /\ <<cpc[w], cpc'[w]>> \in WarpMoves
      /\ cTile' = cTile
  BY WarpSteps
<1>2. /\ IF cpc[w] = "writeO" THEN unfenced' = unfenced \cup {w}
         ELSE IF cpc[w] = "fenceO" THEN unfenced' = unfenced \ {w}
         ELSE unfenced' = unfenced
      /\ cpc[w] # "store" => stores' = stores
      /\ cpc[w] = "store" =>
           w = Leader /\ stores' = stores \cup [tile : {cTile[Leader]},
                                                row : TileRows]
      /\ cpc[w] = "drain" => stores = {}
  <2>1. CASE w = Leader /\ LeaderStep
    BY <2>1 DEF LeaderStep, StoreO, DrainO, Drained, evars
  <2>2. CASE ReadQ(w) \/ ReadK(w) \/ MultiplyK(w) \/ ReleaseQK(w) \/ ReadV(w)
    BY <2>2 DEF ReadQ, ReadK, MultiplyK, ReleaseQK, ReadV, evars
  <2>3. CASE ReleaseV(w) \/ NormalizeStats(w) \/ NormalizeRow(w)
    BY <2>3 DEF ReleaseV, NormalizeStats, NormalizeRow, evars
  <2>4. CASE WritePartial(w) \/ ReducePartials(w) \/ WriteO(w) \/ FenceO(w)
    BY <2>4 DEF WritePartial, ReducePartials, WriteO, FenceO, evars
  <2> QED
    BY <2>1, <2>2, <2>3, <2>4 DEF ConsumerStep
<1>3. unfenced' = {v \in Warps : cpc'[v] = "fenceO"}
  <2>1. unfenced = {v \in Warps : cpc[v] = "fenceO"}
    BY DEF StoresOK
  <2>2. cpc'[w] = "fenceO" <=> cpc[w] = "writeO"
    BY <1>1
  <2> QED
    BY <2>1, <2>2, <1>1, <1>2
<1>4. ASSUME NEW st \in stores'
      PROVE  /\ st \in [tile : {cTile'[Leader]}, row : TileRows]
             /\ cpc'[Leader] = "drain"
  <2>1. CASE st \in stores
    <3>1. st \in [tile : {cTile[Leader]}, row : TileRows] /\ cpc[Leader] = "drain"
      BY <2>1 DEF StoresOK
    <3>2. cpc'[Leader] = "drain"
      BY <2>1, <3>1, <1>1, <1>2, LeaderFacts
    <3> QED
      BY <3>1, <3>2, <1>1
  <2>2. CASE st \notin stores
    <3>1. /\ cpc[w] = "store" /\ w = Leader
          /\ st \in [tile : {cTile[Leader]}, row : TileRows]
      BY <2>2, <1>2
    <3> QED
      BY <3>1, <1>1
  <2> QED
    BY <2>1, <2>2
<1>5. TileRows' = TileRows
  BY DEF TileRows
<1> QED
  BY <1>3, <1>4, <1>5 DEF StoresOK

\* The other steps: none of them finds a store pending that it could disturb.
LEMMA OtherStores ==
  ASSUME FlashTypes, StoresOK, cpc'[Leader] # cpc[Leader] => stores = {},
         UNCHANGED <<unfenced>>, stores' \subseteq stores,
         cTile' = cTile \/ stores = {},
         \A w \in Warps : cpc'[w] = "fenceO" <=> cpc[w] = "fenceO"
  PROVE  StoresOK'
<1>1. TileRows' = TileRows
  BY DEF TileRows
<1>2. unfenced' = {w \in Warps : cpc'[w] = "fenceO"}
  BY DEF StoresOK
<1>3. ASSUME NEW st \in stores'
      PROVE  /\ st \in [tile : {cTile'[Leader]}, row : TileRows]
             /\ cpc'[Leader] = "drain"
  BY DEF StoresOK
<1> QED
  BY <1>1, <1>2, <1>3 DEF StoresOK

LEMMA AlignStep == RingInv /\ AlignInv /\ [Next]_vars => AlignInv'
<1> SUFFICES ASSUME RingInv, AlignInv, [Next]_vars PROVE AlignInv'
  OBVIOUS
<1>1. FlashTypes /\ ConsumerOK /\ AlignOK /\ RolesOK /\ StoresOK
      /\ DOMAIN Sections = {"looping", "partials", "writing", "storing", "over"}
  BY SectionFacts DEF RingInv, PipesInv, LoopsInv, AlignInv
<1>2. ASSUME NEW w \in Warps, ConsumerStep(w) \/ (w = Leader /\ LeaderStep)
      PROVE  AlignInv'
  BY <1>1, <1>2, WarpStepAlign, WarpStepStores DEF AlignInv
<1>3. CASE BarSync
  <2>1. cpc[Leader] \in {"barStats", "barReduce", "barO"} /\ stores = {}
    BY <1>1, <1>3, LeaderFacts DEF BarSync, AllAtBarSync, AtBarSync, StoresOK
  <2>2. \A w \in Warps : cpc'[w] = "fenceO" <=> cpc[w] = "fenceO"
    BY <1>3 DEF BarSync, AllAtBarSync, AtBarSync, AfterBarSync
  <2>3. stores' = stores /\ unfenced' = unfenced /\ cTile' = cTile
    BY <1>3 DEF BarSync, evars
  <2> QED
    BY <1>1, <1>3, <2>1, <2>2, <2>3, BarSyncAlign, OtherStores DEF AlignInv
<1>4. CASE TileSync
  <2>1. cpc[Leader] = "tile" /\ stores = {}
    BY <1>1, <1>4, LeaderFacts DEF TileSync, AllAtTile, StoresOK
  <2>2. \A w \in Warps : cpc'[w] = "fenceO" <=> cpc[w] = "fenceO"
    BY <1>4 DEF TileSync, AllAtTile, Resume
  <2>3. stores' = stores /\ unfenced' = unfenced
    BY <1>4 DEF TileSync, evars
  <2> QED
    BY <1>1, <1>4, <2>1, <2>2, <2>3, TileSyncAlign, OtherStores DEF AlignInv
<1>5. ASSUME UNCHANGED <<cpc, cTile, unfenced>>, stores' \subseteq stores
      PROVE  AlignInv'
  <2>1. AlignOK'
    BY <1>1, <1>5, QuietAlign DEF In, Sections, AtQ, AtK, AtV
  <2>2. RolesOK'
    BY <1>1, <1>5 DEF RolesOK, In, Sections
  <2>3. StoresOK'
    BY <1>1, <1>5, OtherStores
  <2> QED
    BY <2>1, <2>2, <2>3 DEF AlignInv
<1>6. ASSUME NEW kind \in Producing, Acquire(kind) \/ Issue(kind)
      PROVE  AlignInv'
  BY <1>5, <1>6 DEF Acquire, Issue, cvars, evars
<1>7. ASSUME NEW l \in loads, LoadDone(l) PROVE AlignInv'
  BY <1>5, <1>7 DEF LoadDone, cvars, evars
<1>8. ASSUME NEW st \in stores, StoreRead(st) PROVE AlignInv'
  BY <1>5, <1>8 DEF StoreRead, cvars
<1>9. CASE UNCHANGED vars
  BY <1>5, <1>9 DEF vars, cvars, evars
<1> QED
  BY <1>2, <1>3, <1>4, <1>6, <1>7, <1>8, <1>9, LeaderFacts
  DEF Next, ProducerStep, TmaStep, Terminated

-----------------------------------------------------------------------------
(* What the barriers and the pipelines keep apart, for any grid of warps.  *)

\* In every run of a block the two pipelines and the named barriers keep the
\* producer, the consumer warps and the stores of the leader in step.
THEOREM FlashControlCorrect == Spec => [](RingInv /\ AlignInv)
<1>1. Init => RingInv /\ AlignInv
  BY RingInit, AlignInit
<1>2. RingInv /\ AlignInv /\ [Next]_vars => RingInv' /\ AlignInv'
  BY RingStep, AlignStep
<1> QED
  BY <1>1, <1>2, PTL DEF Spec

\* Warps that wait together at the named barrier are at the same call of the
\* same tile.
THEOREM FlashBarSyncAligned == Spec => []BarSyncAligned
<1>1. RingInv /\ AlignInv => BarSyncAligned
  <2> SUFFICES ASSUME RingInv, AlignInv, NEW v \in Warps, NEW w \in Warps,
                      AtBarSync(v), AtBarSync(w)
               PROVE  cTile[v] = cTile[w] /\ cpc[v] = cpc[w]
    BY DEF BarSyncAligned
  <2>1. cTile[v] = cTile[w]
    BY DEF RingInv, LoopsInv, ConsumerOK
  <2> QED
    BY <2>1, SameCall DEF AlignInv
<1> QED
  BY <1>1, FlashControlCorrect, PTL

LEMMA TypesFollow ==
  ASSUME RingInv, AlignInv
  PROVE  TypeOK
<1>1. FlashTypes /\ PipesInv
  BY DEF RingInv, PipesInv
<1>2. ASSUME NEW b \in Bars
      PROVE  /\ full[b].phase \in Nat /\ full[b].pending \in {0, 1}
             /\ full[b].tx = 1 - full[b].pending
             /\ empty[b] \in Barriers(EmptyCount)
  <2>1. full[b].phase \in Nat /\ full[b].pending \in {0, 1}
        /\ full[b].tx = 1 - full[b].pending
    BY <1>1, RingTypes DEF PipesInv, FullOK
  <2>2. /\ empty[b] \in AnyBarrier /\ empty[b].tx = 0
        /\ empty[b].pending = EmptyCount - Cardinality(Arrivals(b))
        /\ empty[b].pending # 0
    BY <1>1, RingTypes DEF PipesInv, EmptyOK
  <2>3. /\ Cardinality(Arrivals(b)) \in Nat
        /\ Cardinality(Arrivals(b)) <= EmptyCount
    <3>1. Arrivals(b) \in SUBSET Warps
      BY DEF Arrivals
    <3> QED
      BY <3>1, EmptyCountFacts, FS_Subset, FS_CardinalityType
  <2>4. empty[b].pending \in 1 .. EmptyCount
    BY <2>2, <2>3, EmptyCountFacts
  <2> QED
    BY <2>1, <2>2, <2>4 DEF AnyBarrier, Barriers
<1>3. /\ \A p \in Pipes : pState[p] \in States(p)
      /\ \A w \in Warps : \A p \in Pipes : cState[w][p] \in States(p)
  <2>1. \A p \in Pipes : \A st \in AnyState :
          <<p, st.index>> \in Bars => st \in States(p)
    BY BarFacts DEF AnyState, States
  <2> QED
    BY <2>1, <1>1, StateFacts, StateRound
<1>4. stores \subseteq [tile : Tiles, row : TileRows]
  <2> SUFFICES ASSUME NEW st \in stores
               PROVE  st \in [tile : Tiles, row : TileRows]
    OBVIOUS
  <2>1. /\ st \in [tile : {cTile[Leader]}, row : TileRows]
        /\ cpc[Leader] = "drain"
    BY DEF AlignInv, StoresOK
  <2>2. cTile[Leader] = pTile /\ ~ (pTile >= tiles_num) /\ pTile \in Nat
    BY <1>1, <2>1, LeaderFacts
    DEF RingInv, LoopsInv, ConsumerOK, ProducerOK, FlashTypes
  <2>3. cTile[Leader] \in Tiles
    BY <2>2, TileFacts DEF Tiles
  <2> QED
    BY <2>1, <2>3
<1> QED
  BY <1>1, <1>2, <1>3, <1>4 DEF TypeOK, FlashTypes

\* Every variable of a thread block keeps its type, and no empty barrier gets
\* more arrivals than it counts.
THEOREM FlashTypeCorrect == Spec => []TypeOK
BY TypesFollow, FlashControlCorrect, PTL

-----------------------------------------------------------------------------
(* The layout of the shared memory.                                        *)

LEMMA LayoutFacts ==
  /\ q_size \in Nat \ {0} /\ k_size \in Nat \ {0} /\ Larger \in Nat \ {0}
  /\ q_size <= Larger /\ k_size <= Larger
  /\ QK_size = k_size + Larger
BY ShapeFacts DEF q_size, k_size, Larger, QK_size

LEMMA RowFacts ==
  /\ AllRows("Q") = 0 .. q_size - 1 /\ AllRows("O") = 0 .. q_size - 1
  /\ AllRows("K") = 0 .. k_size - 1 /\ AllRows("V") = 0 .. k_size - 1
  /\ \A m : RowsOfM(m) \subseteq AllRows("Q")
  /\ \A n : RowsOfN(n) \subseteq AllRows("K")
  /\ \A n : RowsOfN(n) \subseteq AllRows("V")
BY DEF AllRows, Rows, RowsOfM, RowsOfN, q_size, k_size

\* Cells of rows of a tile are cells of the tile.
LEMMA CellsMonotone ==
  ASSUME NEW kind, NEW slot, NEW rows, rows \subseteq AllRows(kind)
  PROVE  CellsOf(kind, slot, rows) \subseteq CellsOf(kind, slot, AllRows(kind))
BY DEF CellsOf

\* Q and K lie below V, and tiles in different slots of their ring lie apart
\* unless both are of Q.
LEMMA LayoutApart ==
  /\ \A kind \in {"Q", "K"}, s \in {0, 1} : \A t :
       CellsOf(kind, s, AllRows(kind)) \cap CellsOf("V", t, AllRows("V")) = {}
  /\ \A kind, other \in {"Q", "K"} : ~ (kind = "Q" /\ other = "Q") =>
       CellsOf(kind, 0, AllRows(kind)) \cap CellsOf(other, 1, AllRows(other)) = {}
<1> USE LayoutFacts, RowFacts
<1>1. /\ Base("Q", 0) = 0 /\ Base("K", 0) = 0
      /\ Base("Q", 1) = k_size /\ Base("K", 1) = Larger
      /\ \A t : Base("V", t) = QK_size
  BY DEF Base, k_stage_stride
<1>2. ASSUME NEW kind \in {"Q", "K"}, NEW s \in {0, 1}, NEW t
      PROVE  CellsOf(kind, s, AllRows(kind))
               \cap CellsOf("V", t, AllRows("V")) = {}
  <2>1. ASSUME NEW r \in AllRows(kind), NEW u \in AllRows("V")
        PROVE  Base(kind, s) + r # Base("V", t) + u
    <3>1. CASE kind = "Q" /\ s = 0
      BY <3>1, <1>1
    <3>2. CASE kind = "Q" /\ s = 1
      BY <3>2, <1>1
    <3>3. CASE kind = "K" /\ s = 0
      BY <3>3, <1>1
    <3>4. CASE kind = "K" /\ s = 1
      BY <3>4, <1>1
    <3> QED
      BY <3>1, <3>2, <3>3, <3>4
  <2> QED
    BY <2>1 DEF CellsOf
<1>3. ASSUME NEW kind \in {"Q", "K"}, NEW other \in {"Q", "K"},
             ~ (kind = "Q" /\ other = "Q")
      PROVE  CellsOf(kind, 0, AllRows(kind))
               \cap CellsOf(other, 1, AllRows(other)) = {}
  <2>1. ASSUME NEW r \in AllRows(kind), NEW u \in AllRows(other)
        PROVE  Base(kind, 0) + r # Base(other, 1) + u
    <3>1. CASE kind = "Q" /\ other = "K"
      BY <3>1, <1>1
    <3>2. CASE kind = "K" /\ other = "Q"
      BY <3>2, <1>1
    <3>3. CASE kind = "K" /\ other = "K"
      BY <3>3, <1>1
    <3> QED
      BY <1>3, <3>1, <3>2, <3>3
  <2> QED
    BY <2>1 DEF CellsOf
<1> QED
  BY <1>2, <1>3

-----------------------------------------------------------------------------
(* Loads and readers.                                                      *)

\* Recent uses j and k of the two pipelines do not share memory.
LEMMA RecentApart ==
  ASSUME RingInv, NEW p \in Pipes, NEW q \in Pipes,
         NEW j \in Recent(p), NEW k \in Recent(q), ~ (p = q /\ j = k)
  PROVE  CellsOf(KindOf(p, j), SlotOf(p, j), AllRows(KindOf(p, j)))
           \cap CellsOf(KindOf(q, k), SlotOf(q, k), AllRows(KindOf(q, k))) = {}
<1>1. \A r \in Pipes : TileStart(r) \in Nat /\ pUses(r) \in Nat
  BY UseFacts DEF RingInv
<1>2. /\ j \in Nat /\ j < pUses(p) /\ pUses(p) <= j + Stages(p)
      /\ k \in Nat /\ k < pUses(q) /\ pUses(q) <= k + Stages(q)
  BY <1>1, PipeFacts DEF Recent
<1>3. /\ SlotOf(p, j) \in 0 .. Stages(p) - 1
      /\ SlotOf(q, k) \in 0 .. Stages(q) - 1
  BY <1>1, <1>2, SlotFacts
<1>4. CASE p = "qk" /\ q = "v"
  <2>1. SlotOf(p, j) \in {0, 1} /\ KindOf(p, j) \in {"Q", "K"}
        /\ KindOf(q, k) = "V"
    BY <1>3, <1>4, PipeFacts DEF KindOf
  <2> QED
    BY <2>1, LayoutApart
<1>5. CASE p = "v" /\ q = "qk"
  <2>1. SlotOf(q, k) \in {0, 1} /\ KindOf(q, k) \in {"Q", "K"}
        /\ KindOf(p, j) = "V"
    BY <1>3, <1>5, PipeFacts DEF KindOf
  <2>2. CellsOf(KindOf(q, k), SlotOf(q, k), AllRows(KindOf(q, k)))
          \cap CellsOf(KindOf(p, j), SlotOf(p, j), AllRows(KindOf(p, j))) = {}
    BY <2>1, LayoutApart
  <2> QED
    BY <2>2
<1>6. CASE p = "v" /\ q = "v"
  BY <1>1, <1>2, <1>6, PipeFacts
<1>7. CASE p = "qk" /\ q = "qk"
  <2>1. /\ j # k /\ j < k + 2 /\ k < j + 2 /\ Stages("qk") = 2
    BY <1>1, <1>2, <1>7, PipeFacts
  <2>2. SlotOf(p, j) # SlotOf(q, k)
    <3>1. CASE j < k
      BY <2>1, <3>1, <1>1, <1>2, <1>7, SlotFacts
    <3>2. CASE k < j
      BY <2>1, <3>2, <1>1, <1>2, <1>7, SlotFacts
    <3> QED
      BY <2>1, <3>1, <3>2, <1>2
  <2>3. /\ KindOf(p, j) \in {"Q", "K"} /\ KindOf(q, k) \in {"Q", "K"}
        /\ ~ (KindOf(p, j) = "Q" /\ KindOf(q, k) = "Q")
    BY <2>1, <1>7 DEF KindOf
  <2>4. \/ SlotOf(p, j) = 0 /\ SlotOf(q, k) = 1
        \/ SlotOf(p, j) = 1 /\ SlotOf(q, k) = 0
    BY <2>1, <2>2, <1>3, <1>7
  <2>5. CASE SlotOf(p, j) = 0 /\ SlotOf(q, k) = 1
    BY <2>3, <2>5, LayoutApart
  <2>6. CASE SlotOf(p, j) = 1 /\ SlotOf(q, k) = 0
    <3>1. CellsOf(KindOf(q, k), 0, AllRows(KindOf(q, k)))
          \cap CellsOf(KindOf(p, j), 1, AllRows(KindOf(p, j))) = {}
      BY <2>3, LayoutApart
    <3> QED
      BY <2>6, <3>1
  <2> QED
    BY <2>4, <2>5, <2>6
<1> QED
  BY <1>4, <1>5, <1>6, <1>7, PipeFacts

\* A slot that a warp is reading is not being loaded: it holds the use of the
\* ring the warp is at, one of the last the producer has issued.
LEMMA ReaderFacts ==
  ASSUME RingInv, NEW w \in Warps, NEW p \in Pipes, Reading(w, p),
         NEW j, j = cUses(w, p)
  PROVE  /\ j \in Recent(p)
         /\ cState[w][p].index = SlotOf(p, j)
         /\ ~ InFlight(<<p, SlotOf(p, j)>>)
<1> USE DEF RingInv
<1>1. /\ pUses(p) \in Nat /\ TileStart(p) \in Nat /\ j \in Nat
      /\ pState[p].count = TileStart(p) + pUses(p)
      /\ cState[w][p].count = TileStart(p) + j
      /\ cState[w][p].index = SlotOf(p, j)
  BY UseFacts
<1>2. /\ cState[w][p].count + 1 <= pState[p].count
      /\ pState[p].count <= cState[w][p].count + Stages(p)
  BY CountOrder
<1>3. Stages(p) \in {1, 2}
  BY PipeFacts
<1>4. j \in Recent(p)
  BY <1>1, <1>2, <1>3 DEF Recent
<1> DEFINE b == <<p, SlotOf(p, j)>>
<1>5. b \in Bars /\ b[1] = p /\ b[2] = cState[w][p].index
  BY <1>1, StateFacts, StateRound
<1> HIDE DEF b
<1>6. Held(w, b) = 1
  BY <1>5 DEF Held
<1>7. full[b].phase = Armed(b)
  <2>1. /\ Freed(w, b) + Held(w, b) <= full[b].phase
        /\ empty[b].phase <= Freed(w, b)
        /\ full[b].phase <= Armed(b) /\ Armed(b) <= empty[b].phase + 1
    BY <1>5, RoundFacts
  <2>2. /\ Freed(w, b) \in Nat /\ full[b].phase \in Nat
        /\ Armed(b) \in Nat /\ empty[b].phase \in Nat
    BY <1>5, RingTypes DEF PipesInv
  <2> QED
    BY <1>6, <2>1, <2>2
<1>8. ~ InFlight(b)
  BY <1>5, <1>7, IdleSlot DEF PipesInv, FullOK, InFlight
<1> QED
  BY <1>1, <1>4, <1>8 DEF b

\* A load in flight is a recent use of its pipeline.
LEMMA LoadFacts ==
  ASSUME RingInv, NEW l \in loads
  PROVE  \E p \in Pipes : \E j \in Recent(p) :
           /\ BarOf(l) = <<p, SlotOf(p, j)>> /\ l.data = DataOf(p, j)
           /\ l.kind = KindOf(p, j) /\ l.slot = SlotOf(p, j)
<1>1. PICK p \in Pipes : \E j \in Recent(p) :
        l = [kind |-> KindOf(p, j), slot |-> SlotOf(p, j),
             data |-> DataOf(p, j)]
  BY DEF RingInv, LoopsInv, IssuedOK
<1>2. PICK j \in Recent(p) :
        l = [kind |-> KindOf(p, j), slot |-> SlotOf(p, j),
             data |-> DataOf(p, j)]
  BY <1>1
<1>3. PipeOf(KindOf(p, j)) = p
  BY PipeFacts DEF PipeOf, KindOf
<1>4. BarOf(l) = <<p, SlotOf(p, j)>>
  BY <1>2, <1>3 DEF BarOf
<1> QED
  BY <1>2, <1>4

\* What a warp may still read of Q, K and V.
LEMMA LiveFacts ==
  ASSUME RingInv, NEW w \in Warps
  PROVE  \/ LiveCells(w) = {}
         \/ cpc[w] = "reduce"
         \/ \E p \in Pipes :
              /\ Reading(w, p)
              /\ LiveCells(w) \subseteq
                   CellsOf(KindOf(p, cUses(w, p)), SlotOf(p, cUses(w, p)),
                           AllRows(KindOf(p, cUses(w, p))))
<1>1. /\ "qk" \in Pipes /\ "v" \in Pipes /\ cI[w] \in Nat
      /\ cpc[w] \in CPcs
  BY DEF Pipes, RingInv, PipesInv, FlashTypes
<1>2. CASE cpc[w] = "relQ"
  <2>1. Reading(w, "qk") /\ cUses(w, "qk") = 0 /\ KindOf("qk", 0) = "Q"
    BY <1>2 DEF Reading, cUses, AtQ, KindOf
  <2>2. cState[w]["qk"].index = SlotOf("qk", 0)
    BY <1>1, <2>1, ReaderFacts
  <2>3. LiveCells(w) = CellsOf("Q", SlotOf("qk", 0), RowsOfM(warp_m(w)))
    BY <1>2, <2>2 DEF LiveCells
  <2> QED
    BY <1>1, <2>1, <2>3, RowFacts, CellsMonotone
<1>3. CASE cpc[w] \in {"mulK", "relK"}
  <2> DEFINE j == cI[w] + 1
  <2>1. Reading(w, "qk") /\ cUses(w, "qk") = j /\ KindOf("qk", j) = "K"
    BY <1>1, <1>3 DEF Reading, cUses, AtQ, AtV, KindOf
  <2>2. cState[w]["qk"].index = SlotOf("qk", j)
    BY <1>1, <2>1, ReaderFacts
  <2>3. LiveCells(w) = CellsOf("K", SlotOf("qk", j), RowsOfN(warp_n(w)))
    BY <1>3, <2>2 DEF LiveCells
  <2> QED
    BY <1>1, <2>1, <2>3, RowFacts, CellsMonotone
<1>4. CASE cpc[w] = "relV"
  <2> DEFINE j == cI[w]
  <2>1. Reading(w, "v") /\ cUses(w, "v") = j /\ KindOf("v", j) = "V"
    BY <1>4 DEF Reading, cUses, KindOf
  <2>2. SlotOf("v", j) = 0
    <3>1. TileStart("v") \in Nat
      BY <1>1, UseFacts DEF RingInv
    <3>2. SlotOf("v", j) \in 0 .. Stages("v") - 1
      BY <1>1, <3>1, SlotFacts
    <3> QED
      BY <3>2, PipeFacts
  <2>3. LiveCells(w) = CellsOf("V", SlotOf("v", j), RowsOfN(warp_n(w)))
    BY <1>4, <2>2 DEF LiveCells
  <2> QED
    BY <1>1, <2>1, <2>3, RowFacts, CellsMonotone
<1>5. CASE cpc[w] \notin {"relQ", "mulK", "relK", "relV", "reduce"}
  BY <1>5 DEF LiveCells
<1> QED
  BY <1>2, <1>3, <1>4, <1>5

\* While a store is pending every warp waits for the end of the tile.
LEMMA StoringFacts ==
  ASSUME RingInv, AlignInv, stores # {}
  PROVE  /\ cpc[Leader] = "drain"
         /\ \A w \in Warps : cpc[w] \in {"tile", "drain"}
         /\ loads = {} /\ ppc = "tile"
<1>1. cpc[Leader] = "drain"
  BY DEF AlignInv, StoresOK
<1>2. ASSUME NEW w \in Warps PROVE cpc[w] \in {"tile", "drain"}
  <2>1. SameSection(Leader, w)
    BY LeaderFacts DEF AlignInv, AlignOK
  <2>2. In(w, "storing")
    BY <1>1, <2>1, SectionFacts, SameFacts
  <2>3. cpc[w] \in {"store", "drain", "tile"}
    BY <2>2, SectionFacts
  <2>4. cpc[w] = "store" => w = Leader
    BY DEF AlignInv, RolesOK
  <2> QED
    BY <1>1, <2>3, <2>4
<1>3. cpc[Leader] \in Past
  BY <1>1 DEF Past, CPcs, AtQ, AtK, AtV
<1>4. loads = {} /\ ppc = "tile"
  BY <1>3, PastLoads, LeaderFacts DEF RingInv, LoopsInv
<1> QED
  BY <1>1, <1>2, <1>4

LEMMA OverlapFollows ==
  ASSUME RingInv, AlignInv
  PROVE  NoOverlap
<1>1. ASSUME NEW l \in loads, NEW w \in Warps
      PROVE  LoadCells(l) \cap LiveCells(w) = {}
  <2>1. CASE LiveCells(w) = {}
    BY <2>1
  <2>2. CASE cpc[w] = "reduce"
    <3>1. cpc[w] \in Past
      BY <2>2 DEF Past, CPcs, AtQ, AtK, AtV
    <3>2. loads = {}
      BY <3>1, PastLoads DEF RingInv, LoopsInv
    <3> QED
      BY <3>2
  <2>3. ASSUME NEW p \in Pipes, Reading(w, p), NEW j, j = cUses(w, p),
               LiveCells(w) \subseteq
                 CellsOf(KindOf(p, j), SlotOf(p, j), AllRows(KindOf(p, j)))
        PROVE  LoadCells(l) \cap LiveCells(w) = {}
    <3>1. j \in Recent(p) /\ ~ InFlight(<<p, SlotOf(p, j)>>)
      BY <2>3, ReaderFacts
    <3>2. PICK q \in Pipes : \E k \in Recent(q) :
            /\ BarOf(l) = <<q, SlotOf(q, k)>> /\ l.data = DataOf(q, k)
            /\ l.kind = KindOf(q, k) /\ l.slot = SlotOf(q, k)
      BY LoadFacts
    <3>3. PICK k \in Recent(q) :
            /\ BarOf(l) = <<q, SlotOf(q, k)>> /\ l.data = DataOf(q, k)
            /\ l.kind = KindOf(q, k) /\ l.slot = SlotOf(q, k)
      BY <3>2
    <3>4. ~ (q = p /\ k = j)
      BY <3>1, <3>3 DEF InFlight
    <3>5. LoadCells(l)
            = CellsOf(KindOf(q, k), SlotOf(q, k), AllRows(KindOf(q, k)))
      BY <3>3 DEF LoadCells
    <3> QED
      BY <2>3, <3>1, <3>4, <3>5, RecentApart
  <2> QED
    BY <2>1, <2>2, <2>3, LiveFacts
<1>2. ASSUME NEW l \in loads, NEW st \in stores PROVE FALSE
  BY <1>2, StoringFacts
<1>3. ASSUME NEW l \in loads, NEW m \in loads, m # l
      PROVE  LoadCells(l) \cap LoadCells(m) = {}
  <2>1. PICK p \in Pipes : \E j \in Recent(p) :
          /\ BarOf(l) = <<p, SlotOf(p, j)>> /\ l.data = DataOf(p, j)
          /\ l.kind = KindOf(p, j) /\ l.slot = SlotOf(p, j)
    BY LoadFacts
  <2>2. PICK j \in Recent(p) :
          /\ BarOf(l) = <<p, SlotOf(p, j)>> /\ l.data = DataOf(p, j)
          /\ l.kind = KindOf(p, j) /\ l.slot = SlotOf(p, j)
    BY <2>1
  <2>3. PICK q \in Pipes : \E k \in Recent(q) :
          /\ BarOf(m) = <<q, SlotOf(q, k)>> /\ m.data = DataOf(q, k)
          /\ m.kind = KindOf(q, k) /\ m.slot = SlotOf(q, k)
    BY LoadFacts
  <2>4. PICK k \in Recent(q) :
          /\ BarOf(m) = <<q, SlotOf(q, k)>> /\ m.data = DataOf(q, k)
          /\ m.kind = KindOf(q, k) /\ m.slot = SlotOf(q, k)
    BY <2>3
  <2>5. ~ (p = q /\ j = k)
    BY <1>3, <2>2, <2>4 DEF RingInv, PipesInv, LoadsOK
  <2> QED
    BY <2>2, <2>4, <2>5, RecentApart DEF LoadCells
<1>4. stores # {} => \A w \in Warps : cpc[w] \in {"barO", "tile", "drain"}
  BY StoringFacts
<1> QED
  BY <1>1, <1>2, <1>3, <1>4 DEF NoOverlap

\* No TMA load overwrites a tile a warp is reading or a store has to read, and
\* two loads in flight never share memory, whatever the shape of the tiles.
THEOREM FlashNoOverlap == Spec => []NoOverlap
BY OverlapFollows, FlashControlCorrect, PTL

-----------------------------------------------------------------------------
(* The blocks of a tile.                                                   *)

LEMMA SumFacts ==
  ASSUME NEW t, NEW n \in Nat
  PROVE  /\ SumTo(t, n) \in Seq({Block(t, i) : i \in Nat})
         /\ Len(SumTo(t, n)) = n
         /\ SumTo(t, 0) = << >>
         /\ Append(SumTo(t, n), Block(t, n)) = SumTo(t, n + 1)
         /\ \A m \in Nat : n <= m => SumTo(t, n) = SubSeq(SumTo(t, m), 1, n)
<1> DEFINE P == {Block(t, i) : i \in Nat}
           B(i) == Block(t, i)
           x == Block(t, n)
           f(k) == [i \in 1 .. k |-> B(i - 1)]
<1>0. x \in P
  OBVIOUS
<1>1. \A k \in Nat : f(k) \in Seq(P) /\ Len(f(k)) = k
  <2> SUFFICES ASSUME NEW k \in Nat PROVE f(k) \in Seq(P) /\ Len(f(k)) = k
    OBVIOUS
  <2>1. \A i \in 1 .. k : i - 1 \in Nat /\ B(i - 1) \in P
    OBVIOUS
  <2> HIDE DEF P, B
  <2>2. f(k) \in [1 .. k -> P]
    BY <2>1
  <2> QED
    BY <2>2
<1>2. Append(f(n), x) = f(n + 1)
  <2>1. \A i \in 1 .. n + 1 : i = n + 1 => B(i - 1) = x
    OBVIOUS
  <2> HIDE DEF P, B, x
  <2>2. /\ Append(f(n), x) \in Seq(P) /\ Len(Append(f(n), x)) = n + 1
        /\ \A i \in 1 .. n : Append(f(n), x)[i] = f(n)[i]
        /\ Append(f(n), x)[n + 1] = x
    <3> HIDE DEF f
    <3> QED
      BY <1>0, <1>1
  <2>3. \A i \in 1 .. n + 1 : Append(f(n), x)[i] = f(n + 1)[i]
    <3> SUFFICES ASSUME NEW i \in 1 .. n + 1
                 PROVE  Append(f(n), x)[i] = f(n + 1)[i]
      OBVIOUS
    <3>1. CASE i = n + 1
      BY <2>1, <2>2, <3>1
    <3>2. CASE i # n + 1
      <4>1. i \in 1 .. n
        BY <3>2
      <4> QED
        BY <2>2, <4>1
    <3> QED
      BY <3>1, <3>2
  <2>4. Append(f(n), x) = [i \in 1 .. n + 1 |-> Append(f(n), x)[i]]
    BY <2>2
  <2>5. [i \in 1 .. n + 1 |-> Append(f(n), x)[i]] = f(n + 1)
    BY <2>3
  <2> QED
    BY <2>4, <2>5
<1>3. f(0) = << >>
  OBVIOUS
<1>4. ASSUME NEW m \in Nat, n <= m
      PROVE  f(n) = SubSeq(f(m), 1, n)
  <2> HIDE DEF P, B
  <2>1. f(m) \in Seq(P) /\ Len(f(m)) = m
    BY <1>1
  <2>2. /\ SubSeq(f(m), 1, n) \in Seq(P) /\ Len(SubSeq(f(m), 1, n)) = n
        /\ \A i \in 1 .. n : SubSeq(f(m), 1, n)[i] = f(m)[i]
    <3> HIDE DEF f
    <3> QED
      BY <1>4, <2>1
  <2>3. \A i \in 1 .. n : SubSeq(f(m), 1, n)[i] = f(n)[i]
    BY <1>4, <2>2
  <2>4. SubSeq(f(m), 1, n) = [i \in 1 .. n |-> SubSeq(f(m), 1, n)[i]]
    BY <2>2
  <2>5. [i \in 1 .. n |-> SubSeq(f(m), 1, n)[i]] = f(n)
    BY <2>3
  <2> QED
    BY <2>4, <2>5
<1>5. \A k : SumTo(t, k) = f(k)
  BY DEF SumTo
<1> HIDE DEF f, P, x
<1> QED
  BY <1>1, <1>2, <1>3, <1>4, <1>5 DEF P, x

\* A causal tile attends to exactly the blocks its loop counts.
LEMMA AttendedFacts ==
  ASSUME NEW t \in Nat
  PROVE  /\ Attended(t) = 0 .. k_blocks(t) - 1
         /\ k_blocks(t) \in Nat \ {0}
         /\ FullAcc(t) = Total(t)
<1>1. /\ N_num \in Nat \ {0} /\ M_num \in Nat \ {0}
      /\ q_block(t) \in 0 .. M_num - 1 /\ k_blocks(t) \in Nat \ {0}
  BY TileFacts
<1>2. Attended(t) = 0 .. k_blocks(t) - 1
  <2>1. CASE ~ IsCausal
    <3>1. Attended(t) = 0 .. N_num - 1
      BY <2>1 DEF Attended
    <3> QED
      BY <2>1, <3>1 DEF k_blocks
  <2>2. CASE IsCausal
    <3> DEFINE x == (q_block(t) + 1) * kBlockM
               k == k_blocks(t)
    <3>1. x \in Nat \ {0} /\ k = CeilDiv(x, kBlockN)
      <4>1. q_block(t) + 1 \in Nat \ {0}
        BY <1>1
      <4> QED
        BY <2>2, <4>1, ShapeFacts DEF k_blocks
    <3>2. x <= SeqLen
      <4>1. M_num * kBlockM = SeqLen
        <5>1. SeqLen % kBlockM = 0
          BY ShapeAssumption
        <5>2. SeqLen <= kBlockM * M_num /\ kBlockM * (M_num - 1) < SeqLen
          BY ShapeFacts, CeilFacts DEF M_num
        <5> DEFINE q == SeqLen \div kBlockM
        <5>3. q \in Nat /\ SeqLen = kBlockM * q
          <6>1. q \in Nat /\ SeqLen = kBlockM * q + (SeqLen % kBlockM)
            BY ShapeFacts, Division
          <6>2. kBlockM * q \in Nat
            BY <6>1, ShapeFacts
          <6> HIDE DEF q
          <6> QED
            BY <5>1, <6>1, <6>2
        <5> HIDE DEF q
        <5>4. M_num = q
          <6>1. CASE q < M_num
            <7>1. q <= M_num - 1
              BY <1>1, <5>3, <6>1
            <7>2. kBlockM * q <= kBlockM * (M_num - 1)
              BY <1>1, <5>3, <7>1, ShapeFacts
            <7> QED
              BY <5>2, <5>3, <7>2, <1>1, ShapeFacts
          <6>2. CASE q > M_num
            <7>1. q >= M_num + 1
              BY <1>1, <5>3, <6>2
            <7>2. kBlockM * q >= kBlockM * (M_num + 1)
              BY <1>1, <5>3, <7>1, ShapeFacts
            <7>3. kBlockM * (M_num + 1) = kBlockM * M_num + kBlockM
              BY <1>1, ShapeFacts
            <7>4. kBlockM * M_num \in Nat
              BY <1>1, ShapeFacts
            <7> QED
              BY <5>2, <5>3, <7>2, <7>3, <7>4, ShapeFacts
          <6> QED
            BY <1>1, <5>3, <6>1, <6>2
        <5> QED
          BY <5>3, <5>4, <1>1, ShapeFacts
      <4>2. q_block(t) + 1 \in Nat /\ q_block(t) + 1 <= M_num
        BY <1>1
      <4>3. (q_block(t) + 1) * kBlockM <= M_num * kBlockM
        BY <4>2, <1>1, ShapeFacts
      <4> QED
        BY <4>1, <4>3
    <3>3. SeqLen <= kBlockN * N_num
      BY ShapeFacts, CeilFacts DEF N_num
    <3>4. x <= kBlockN * k /\ kBlockN * (k - 1) < x /\ k \in Nat \ {0}
      <4> HIDE DEF x
      <4> QED
        BY <3>1, ShapeFacts, CeilFacts
    <3> HIDE DEF k
    <3>5. k <= N_num
      <4> SUFFICES ASSUME N_num <= k - 1 PROVE FALSE
        BY <1>1, <3>4
      <4>1. kBlockN * N_num <= kBlockN * (k - 1)
        BY <1>1, <3>4, ShapeFacts
      <4>2. kBlockN * N_num \in Nat /\ kBlockN * (k - 1) \in Int
        BY <1>1, <3>4, ShapeFacts
      <4> HIDE DEF x
      <4> QED
        BY <3>1, <3>2, <3>3, <3>4, <4>1, <4>2, ShapeFacts
    <3>6. ASSUME NEW i \in Nat
          PROVE  i * kBlockN < x <=> i < k
      <4>1. ASSUME i < k PROVE i * kBlockN < x
        <5>1. i <= k - 1
          BY <3>4, <4>1
        <5>2. kBlockN * i <= kBlockN * (k - 1)
          BY <3>4, <5>1, ShapeFacts
        <5>3. kBlockN * i \in Nat /\ kBlockN * (k - 1) \in Int
              /\ kBlockN * i = i * kBlockN
          BY <3>4, ShapeFacts
        <5> HIDE DEF x
        <5> QED
          BY <3>1, <3>4, <5>2, <5>3
      <4>2. ASSUME i >= k PROVE ~ (i * kBlockN < x)
        <5>1. kBlockN * i >= kBlockN * k
          BY <3>4, <4>2, ShapeFacts
        <5>2. kBlockN * i \in Nat /\ kBlockN * k \in Nat
              /\ kBlockN * i = i * kBlockN
          BY <3>4, ShapeFacts
        <5> HIDE DEF x
        <5> QED
          BY <3>1, <3>4, <5>1, <5>2
      <4> QED
        BY <4>1, <4>2, <3>4
    <3>7. Attended(t) = {i \in 0 .. N_num - 1 : i * kBlockN < x}
      BY <2>2 DEF Attended
    <3> HIDE DEF x
    <3>8. {i \in 0 .. N_num - 1 : i * kBlockN < x} = 0 .. k - 1
      BY <1>1, <3>4, <3>5, <3>6
    <3> QED
      BY <3>7, <3>8 DEF k
  <2> QED
    BY <2>1, <2>2, ShapeFacts
<1>3. Cardinality(Attended(t)) = k_blocks(t)
  <2> DEFINE k == k_blocks(t)
  <2>1. 0 \in Int /\ k - 1 \in Int
    BY <1>1
  <2> HIDE DEF k
  <2>2. Cardinality(0 .. k - 1) = IF 0 > k - 1 THEN 0 ELSE (k - 1) - 0 + 1
    BY ONLY <2>1, FS_Interval
  <2> QED
    BY <1>1, <1>2, <2>2 DEF k
<1>4. FullAcc(t) = Total(t)
  BY <1>3 DEF FullAcc, Total, SumTo, Block
<1> QED
  BY <1>1, <1>2, <1>4

-----------------------------------------------------------------------------
(* Shared memory.                                                          *)

\* Every part of the rows of a tile has a row.
LEMMA PartOfRows ==
  ASSUME NEW n \in Nat \ {0}, NEW d \in Nat \ {0}, n % d = 0, NEW i \in 0 .. d - 1
  PROVE  \E r \in 0 .. n - 1 : r \div (n \div d) = i
<1> DEFINE q == n \div d
           r == q * i
<1>1. q \in Nat /\ n = d * q
  <2>1. q \in Nat /\ n = d * q + (n % d)
    BY Division
  <2>2. d * q \in Nat
    BY <2>1
  <2> HIDE DEF q
  <2> QED
    BY <2>1, <2>2
<1> HIDE DEF q
<1>2. q # 0
  <2> SUFFICES ASSUME q = 0 PROVE FALSE
    OBVIOUS
  <2>1. d * q = 0
    OBVIOUS
  <2> QED
    BY <1>1, <2>1
<1>3. r \in Nat /\ r < n
  <2>1. q * i <= q * (d - 1)
    BY <1>1
  <2>2. q * (d - 1) = d * q - q
    BY <1>1
  <2>3. q * i \in Nat /\ d * q \in Nat
    BY <1>1
  <2> QED
    BY <1>1, <1>2, <2>1, <2>2, <2>3
<1>4. r \div q = i
  <2> DEFINE e == r \div q
             s == r % q
  <2>1. e \in Nat /\ s \in 0 .. q - 1 /\ r = q * e + s
    BY <1>1, <1>2, <1>3, Division
  <2>2. r = q * i + 0 /\ 0 \in 0 .. q - 1
    BY <1>1, <1>2
  <2> HIDE DEF e, s
  <2>3. q * e + s = q * i + 0
    BY <2>1, <2>2
  <2>4. e = i
    BY <1>1, <1>2, <2>1, <2>2, <2>3, DivisionUnique
  <2> QED
    BY <2>4 DEF e
<1>5. r \in 0 .. n - 1
  BY <1>3
<1>6. r \div (n \div d) = i
  BY <1>4 DEF q
<1> HIDE DEF r
<1> QED
  BY <1>5, <1>6, Zenon

LEMMA PartsFacts ==
  ASSUME NEW w \in Warps
  PROVE  /\ RowsOfM(warp_m(w)) # {} /\ RowsOfM(warp_m(w)) \subseteq AllRows("Q")
         /\ RowsOfN(warp_n(w)) # {} /\ RowsOfN(warp_n(w)) \subseteq AllRows("K")
         /\ RowsOfN(warp_n(w)) \subseteq AllRows("V")
<1>0. /\ WARPS_M \in Nat \ {0} /\ WARPS_N \in Nat \ {0}
      /\ kBlockM \in Nat \ {0} /\ kBlockN \in Nat \ {0}
  BY ShapeFacts
<1>1. warp_m(w) \in 0 .. WARPS_M - 1 /\ warp_n(w) \in 0 .. WARPS_N - 1
  BY WarpFacts, ShapeFacts DEF TileRows
<1>2. kBlockM % WARPS_M = 0 /\ kBlockN % WARPS_N = 0
  BY ShapeAssumption
<1>3. \E r \in 0 .. kBlockM - 1 : r \div (kBlockM \div WARPS_M) = warp_m(w)
  BY <1>0, <1>1, <1>2, PartOfRows, Zenon
<1>4. \E r \in 0 .. kBlockN - 1 : r \div (kBlockN \div WARPS_N) = warp_n(w)
  BY <1>0, <1>1, <1>2, PartOfRows, Zenon
<1> QED
  BY <1>3, <1>4, RowFacts DEF RowsOfM, RowsOfN

\* The tiles of Q, K and V lie in the shared memory.
LEMMA TilesFit ==
  /\ \A kind \in {"Q", "K"}, s \in {0, 1} :
       Base(kind, s) \in Nat /\ CellsOf(kind, s, AllRows(kind)) \subseteq Cells
  /\ \A s : Base("V", s) \in Nat /\ CellsOf("V", s, AllRows("V")) \subseteq Cells
<1> USE LayoutFacts, RowFacts
<1>1. /\ Base("Q", 0) = 0 /\ Base("K", 0) = 0
      /\ Base("Q", 1) = k_size /\ Base("K", 1) = Larger
      /\ \A t : Base("V", t) = QK_size
  BY DEF Base, k_stage_stride
<1>2. /\ QKV_size = k_size + Larger + k_size /\ QKVO_size \in Nat
      /\ QKV_size <= QKVO_size
  <2>1. O_size \in Nat
    BY ShapeFacts DEF O_size
  <2>2. QKV_size = k_size + Larger + k_size
    BY DEF QKV_size
  <2> QED
    BY <2>1, <2>2 DEF QKVO_size
<1>3. ASSUME NEW kind \in {"Q", "K"}, NEW s \in {0, 1},
             NEW r \in AllRows(kind)
      PROVE  Base(kind, s) \in Nat /\ Base(kind, s) + r \in Cells
  <2>1. CASE kind = "Q" /\ s = 0
    BY <2>1, <1>1, <1>2 DEF Cells
  <2>2. CASE kind = "Q" /\ s = 1
    BY <2>2, <1>1, <1>2 DEF Cells
  <2>3. CASE kind = "K" /\ s = 0
    BY <2>3, <1>1, <1>2 DEF Cells
  <2>4. CASE kind = "K" /\ s = 1
    BY <2>4, <1>1, <1>2 DEF Cells
  <2> QED
    BY <2>1, <2>2, <2>3, <2>4
<1>4. ASSUME NEW s, NEW r \in AllRows("V")
      PROVE  Base("V", s) + r \in Cells
  BY <1>1, <1>2 DEF Cells
<1>5. \A kind \in {"Q", "K"}, s \in {0, 1} : Base(kind, s) \in Nat
  BY <1>1
<1>6. \A s : Base("V", s) \in Nat
  BY <1>1
<1> QED
  BY <1>3, <1>4, <1>5, <1>6 DEF CellsOf

\* What a warp finds in rows that hold data.
LEMMA ReadHolds ==
  ASSUME NEW kind, NEW slot, NEW rows, NEW part, NEW data,
         Holds(kind, slot, rows, data), part \subseteq rows, part # {}
  PROVE  Read(kind, slot, part) = data
<1>1. (CHOOSE r \in part : TRUE) \in part
  OBVIOUS
<1>2. \A r \in part : mem[Base(kind, slot) + r] = <<data, r>>
  BY DEF Holds
<1>3. mem[Base(kind, slot) + (CHOOSE r \in part : TRUE)][1] = data
  BY <1>1, <1>2
<1> QED
  BY <1>2, <1>3 DEF Read

\* Rows keep what they hold when their cells do.
LEMMA StillHolds ==
  ASSUME NEW kind, NEW slot, NEW rows, NEW data,
         Holds(kind, slot, rows, data), NEW S,
         CellsOf(kind, slot, rows) \subseteq Cells,
         CellsOf(kind, slot, rows) \cap S = {},
         \A c \in Cells \ S : mem'[c] = mem[c]
  PROVE  Holds(kind, slot, rows, data)'
<1>1. \A r \in rows : mem[Base(kind, slot) + r] = <<data, r>>
  BY DEF Holds
<1>2. \A r \in rows : mem'[Base(kind, slot) + r] = <<data, r>>
  BY <1>1 DEF CellsOf
<1>3. Base(kind, slot)' = Base(kind, slot)
  BY DEF Base, k_size, k_stage_stride, Larger, QK_size, q_size
<1> QED
  BY <1>2, <1>3 DEF Holds

\* Rows hold what is written to them, and no other cell changes.
LEMMA WrittenFacts ==
  ASSUME NEW kind, NEW slot, NEW rows, NEW data,
         CellsOf(kind, slot, rows) \subseteq Cells,
         Base(kind, slot) \in Nat, rows \subseteq Nat,
         mem' = Written(kind, slot, rows, data)
  PROVE  /\ Holds(kind, slot, rows, data)'
         /\ \A c \in Cells \ CellsOf(kind, slot, rows) : mem'[c] = mem[c]
<1>1. ASSUME NEW r \in rows
      PROVE  mem'[Base(kind, slot) + r] = <<data, r>>
  <2>1. Base(kind, slot) + r \in CellsOf(kind, slot, rows)
    BY DEF CellsOf
  <2>2. (Base(kind, slot) + r) - Base(kind, slot) = r
    OBVIOUS
  <2> QED
    BY <2>1, <2>2 DEF Written
<1>2. \A c \in Cells \ CellsOf(kind, slot, rows) : mem'[c] = mem[c]
  BY DEF Written
<1>3. Base(kind, slot)' = Base(kind, slot)
  BY DEF Base, k_size, k_stage_stride, Larger, QK_size, q_size
<1> QED
  BY <1>1, <1>2, <1>3 DEF Holds

-----------------------------------------------------------------------------
(* The rings hold what was loaded.                                         *)

\* Where use j of pipeline p lies.
Place(p, j) == CellsOf(KindOf(p, j), SlotOf(p, j), AllRows(KindOf(p, j)))

Apart ==
  \A p, q \in Pipes : \A j \in Recent(p), k \in Recent(q) :
    ~ (p = q /\ j = k) => Place(p, j) \cap Place(q, k) = {}

Placed ==
  \A p \in Pipes : \A j \in Recent(p) :
    /\ j \in Nat /\ SlotOf(p, j) \in 0 .. Stages(p) - 1
    /\ Place(p, j) \subseteq Cells
    /\ Base(KindOf(p, j), SlotOf(p, j)) \in Nat
    /\ AllRows(KindOf(p, j)) \subseteq Nat

LEMMA PlacesApart == RingInv => Apart
BY RecentApart DEF Apart, Place

LEMMA PlacesFit == RingInv => Placed
<1> SUFFICES ASSUME RingInv, NEW p \in Pipes, NEW j \in Recent(p)
             PROVE  /\ j \in Nat /\ SlotOf(p, j) \in 0 .. Stages(p) - 1
                    /\ Place(p, j) \subseteq Cells
                    /\ Base(KindOf(p, j), SlotOf(p, j)) \in Nat
                    /\ AllRows(KindOf(p, j)) \subseteq Nat
  BY DEF Placed
<1>1. TileStart(p) \in Nat /\ pUses(p) \in Nat
  BY UseFacts DEF RingInv
<1>2. j \in Nat
  BY <1>1, PipeFacts DEF Recent
<1>3. SlotOf(p, j) \in 0 .. Stages(p) - 1
  BY <1>1, <1>2, SlotFacts
<1>4. CASE p = "v"
  <2>1. KindOf(p, j) = "V" /\ AllRows("V") \subseteq Nat
    BY <1>4, RowFacts, LayoutFacts DEF KindOf
  <2> QED
    BY <1>2, <1>3, <2>1, TilesFit DEF Place
<1>5. CASE p = "qk"
  <2>1. KindOf(p, j) \in {"Q", "K"} /\ SlotOf(p, j) \in {0, 1}
    BY <1>3, <1>5, PipeFacts DEF KindOf
  <2>2. AllRows("Q") \subseteq Nat /\ AllRows("K") \subseteq Nat
    BY RowFacts, LayoutFacts
  <2> QED
    BY <1>2, <1>3, <2>1, <2>2, TilesFit DEF Place
<1> QED
  BY <1>4, <1>5, PipeFacts

LEMMA IssueContents ==
  ASSUME RingInv, RingInv', ContentsOK, NEW kind \in Producing, Issue(kind)
  PROVE  ContentsOK'
<1> DEFINE p == PipeOf(kind)
<1>1. PICK n : n = pUses(p)
  OBVIOUS
<1>2. /\ p \in Pipes /\ n \in Nat
      /\ pState[p].index = SlotOf(p, n) /\ ppc = Copying[kind]
  <2>1. p \in Pipes
    BY PipeFacts DEF Producing, PipeOf
  <2> QED
    BY <1>1, <2>1, UseFacts DEF RingInv, Issue
<1>3. /\ pUses(p)' = n + 1
      /\ \A q \in Pipes \ {p} : pUses(q)' = pUses(q)
      /\ \A q \in Pipes : TileStart(q)' = TileStart(q)
      /\ loads' = loads \cup {[kind |-> KindOf(p, n), slot |-> SlotOf(p, n),
                               data |-> DataOf(p, n)]}
  BY <1>1, IssueUses DEF RingInv
<1>4. kind = KindOf(p, n)
  <2>1. [kind |-> kind, slot |-> pState[p].index, data |-> Data(kind)] \in loads'
    BY DEF Issue
  <2>2. CASE kind = "Q"
    BY <1>1, <2>2 DEF Issue, Copying, PipeOf, pUses, KindOf
  <2>3. CASE kind = "K"
    <3>1. p = "qk" /\ n = pI + 1 /\ pI \in Nat
      BY <1>1, <2>3 DEF Issue, Copying, PipeOf, pUses, RingInv, PipesInv,
         FlashTypes
    <3> QED
      BY <2>3, <3>1 DEF KindOf
  <2>4. CASE kind = "V"
    BY <2>4 DEF PipeOf, KindOf
  <2> QED
    BY <2>2, <2>3, <2>4 DEF Producing
<1>5. \A c \in Cells \ Place(p, n) : mem'[c] = mem[c]
  BY <1>2, <1>4 DEF Issue, Place
<1>6. \A q \in Pipes : \A j : /\ SlotOf(q, j)' = SlotOf(q, j)
                          /\ DataOf(q, j)' = DataOf(q, j)
                          /\ KindOf(q, j)' = KindOf(q, j)
  <2>1. pTile' = pTile
    BY DEF Issue
  <2> QED
    BY <1>3, <2>1 DEF SlotOf, DataOf, KindOf, Stages, Vdata, Qdata, Kdata
<1>7. /\ n \in Recent(p)'
      /\ \A q \in Pipes : \A j \in Recent(q)' :
           ~ (q = p /\ j = n) => j \in Recent(q)
  <2>1. /\ Stages(p) \in {1, 2} /\ \A q : Stages(q)' = Stages(q)
        /\ \A q \in Pipes : pUses(q) \in Nat
    BY PipeFacts, UseFacts DEF Stages, RingInv
  <2>2. n \in Recent(p)'
    BY <1>2, <1>3, <2>1 DEF Recent
  <2>3. ASSUME NEW q \in Pipes, NEW j \in Recent(q)', ~ (q = p /\ j = n)
        PROVE  j \in Recent(q)
    BY <1>1, <1>2, <1>3, <2>1, <2>3 DEF Recent
  <2> QED
    BY <2>2, <2>3
<1>8. Apart' /\ Placed'
  BY PlacesApart, PlacesFit, PTL
<1>9. \A q \in Pipes : \A j : Place(q, j)' = Place(q, j)
  <2>1. \A a, b, c : CellsOf(a, b, c)' = CellsOf(a, b, c)
    BY DEF CellsOf, Base, k_size, k_stage_stride, Larger, QK_size, q_size
  <2>2. \A a : AllRows(a)' = AllRows(a)
    BY DEF AllRows, Rows, q_size, k_size
  <2> QED
    BY <1>6, <2>1, <2>2 DEF Place
<1> SUFFICES ASSUME \A w \in Warps : In(w, "looping")',
                    NEW q \in Pipes, NEW j \in Recent(q)'
             PROVE  \/ InFlight(<<q, SlotOf(q, j)>>)'
                    \/ Holds(KindOf(q, j), SlotOf(q, j), AllRows(KindOf(q, j)),
                             DataOf(q, j))'
  BY DEF ContentsOK
<1>10. CASE q = p /\ j = n
  <2> DEFINE l == [kind |-> KindOf(p, n), slot |-> SlotOf(p, n),
                   data |-> DataOf(p, n)]
  <2>1. l \in loads' /\ BarOf(l) = <<p, SlotOf(p, n)>>
    BY <1>3, <1>4 DEF BarOf
  <2>2. BarOf(l)' = <<p, SlotOf(p, n)>>
    BY <1>2, <1>6, <2>1 DEF BarOf, PipeOf
  <2> QED
    BY <1>2, <1>6, <1>10, <2>1, <2>2 DEF InFlight
<1>11. CASE ~ (q = p /\ j = n)
  <2>1. \A w \in Warps : In(w, "looping")
    BY DEF Issue, In, Sections, cvars
  <2>2. j \in Recent(q)
    BY <1>7, <1>11
  <2>3. CASE InFlight(<<q, SlotOf(q, j)>>)
    BY <1>3, <1>6, <2>3 DEF InFlight, BarOf, PipeOf
  <2>4. CASE Holds(KindOf(q, j), SlotOf(q, j), AllRows(KindOf(q, j)),
                   DataOf(q, j))
    <3>1. Place(q, j) \cap Place(p, n) = {} /\ Place(q, j) \subseteq Cells
      BY <1>2, <1>7, <1>8, <1>9, <1>11 DEF Apart, Placed
    <3>2. Holds(KindOf(q, j), SlotOf(q, j), AllRows(KindOf(q, j)), DataOf(q, j))'
            <=> \A r \in AllRows(KindOf(q, j)) :
                  mem'[Base(KindOf(q, j), SlotOf(q, j)) + r] = <<DataOf(q, j), r>>
      BY <1>6 DEF Holds, Base, k_size, k_stage_stride, Larger, QK_size, q_size,
         AllRows, Rows
    <3> QED
      BY <1>5, <2>4, <3>1, <3>2 DEF Holds, Place, CellsOf
  <2> QED
    BY <2>1, <2>2, <2>3, <2>4 DEF ContentsOK
<1> QED
  BY <1>10, <1>11

LEMMA LoadDoneContents ==
  ASSUME RingInv, ContentsOK, NEW l \in loads, LoadDone(l)
  PROVE  ContentsOK'
<1>1. PICK p \in Pipes : \E i \in Recent(p) :
        /\ BarOf(l) = <<p, SlotOf(p, i)>> /\ l.data = DataOf(p, i)
        /\ l.kind = KindOf(p, i) /\ l.slot = SlotOf(p, i)
  BY LoadFacts
<1>2. PICK n \in Recent(p) :
        /\ BarOf(l) = <<p, SlotOf(p, n)>> /\ l.data = DataOf(p, n)
        /\ l.kind = KindOf(p, n) /\ l.slot = SlotOf(p, n)
  BY <1>1
<1>3. Apart /\ Placed
  BY PlacesApart, PlacesFit
<1>4. /\ Holds(KindOf(p, n), SlotOf(p, n), AllRows(KindOf(p, n)), DataOf(p, n))'
      /\ \A c \in Cells \ Place(p, n) : mem'[c] = mem[c]
  <2> DEFINE kind == l.kind
             slot == l.slot
             data == l.data
             rows == AllRows(l.kind)
  <2>1. /\ CellsOf(kind, slot, rows) \subseteq Cells
        /\ Base(kind, slot) \in Nat /\ rows \subseteq Nat
    BY <1>2, <1>3 DEF Placed, Place
  <2>2. mem' = Written(kind, slot, rows, data)
    BY DEF LoadDone
  <2>3. \A r \in rows : Base(kind, slot) + r \in CellsOf(kind, slot, rows)
                        /\ (Base(kind, slot) + r) - Base(kind, slot) = r
    BY <2>1 DEF CellsOf
  <2>4. \A r \in rows : mem'[Base(kind, slot) + r] = <<data, r>>
    BY <2>1, <2>2, <2>3 DEF Written
  <2>5. \A c \in Cells \ CellsOf(kind, slot, rows) : mem'[c] = mem[c]
    BY <2>2 DEF Written
  <2>6. pTile' = pTile /\ pState' = pState /\ pI' = pI /\ ppc' = ppc
    BY DEF LoadDone, pvars
  <2>7. /\ SlotOf(p, n)' = SlotOf(p, n) /\ KindOf(p, n)' = KindOf(p, n)
        /\ DataOf(p, n)' = DataOf(p, n)
    BY <2>6 DEF SlotOf, TileStart, pUses, KindOf, DataOf
  <2>8. \A r \in AllRows(KindOf(p, n)) :
          mem'[Base(KindOf(p, n), SlotOf(p, n)) + r] = <<DataOf(p, n), r>>
    BY <1>2, <2>4
  <2>9. Holds(KindOf(p, n), SlotOf(p, n), AllRows(KindOf(p, n)), DataOf(p, n))'
    BY <2>7, <2>8 DEF Holds, Base, k_size, k_stage_stride, Larger, QK_size,
       q_size, AllRows, Rows
  <2> QED
    BY <1>2, <2>5, <2>9 DEF Place
<1>5. /\ \A q, j : /\ SlotOf(q, j)' = SlotOf(q, j)
                   /\ DataOf(q, j)' = DataOf(q, j)
                   /\ KindOf(q, j)' = KindOf(q, j)
      /\ \A q : Recent(q)' = Recent(q)
      /\ UNCHANGED cpc
  BY DEF LoadDone, pvars, cvars, SlotOf, TileStart, pUses, KindOf, DataOf, Recent
<1> SUFFICES ASSUME \A w \in Warps : In(w, "looping")',
                    NEW q \in Pipes, NEW j \in Recent(q)'
             PROVE  \/ InFlight(<<q, SlotOf(q, j)>>)'
                    \/ Holds(KindOf(q, j), SlotOf(q, j), AllRows(KindOf(q, j)),
                             DataOf(q, j))'
  BY DEF ContentsOK
<1>6. CASE q = p /\ j = n
  BY <1>4, <1>6
<1>7. CASE ~ (q = p /\ j = n)
  <2>1. \A w \in Warps : In(w, "looping")
    BY <1>5 DEF In, Sections
  <2>2. j \in Recent(q)
    BY <1>5
  <2>3. CASE InFlight(<<q, SlotOf(q, j)>>)
    <3>1. PICK m \in loads : BarOf(m) = <<q, SlotOf(q, j)>>
      BY <2>3 DEF InFlight
    <3>2. <<p, SlotOf(p, n)>> # <<q, SlotOf(q, j)>>
      <4> SUFFICES ASSUME q = p, SlotOf(p, n) = SlotOf(p, j) PROVE FALSE
        OBVIOUS
      <4>1. j # n /\ j \in Nat /\ n \in Nat /\ Stages(p) \in {1, 2}
            /\ j < n + Stages(p) /\ n < j + Stages(p)
        <5>1. pUses(p) \in Nat
          BY UseFacts DEF RingInv
        <5> QED
          BY <1>3, <1>7, <2>2, <5>1, PipeFacts DEF Placed, Recent
      <4>2. TileStart(p) \in Nat
        BY UseFacts DEF RingInv
      <4> QED
        BY <4>1, <4>2, SlotFacts
    <3>3. m # l
      BY <1>2, <3>1, <3>2
    <3>4. m \in loads'
      BY <3>3 DEF LoadDone
    <3> QED
      BY <1>5, <3>1, <3>4 DEF InFlight, BarOf, PipeOf
  <2>4. CASE Holds(KindOf(q, j), SlotOf(q, j), AllRows(KindOf(q, j)),
                   DataOf(q, j))
    <3>1. Place(q, j) \cap Place(p, n) = {} /\ Place(q, j) \subseteq Cells
      BY <1>3, <1>7, <2>2 DEF Apart, Placed
    <3>2. Holds(KindOf(q, j), SlotOf(q, j), AllRows(KindOf(q, j)), DataOf(q, j))'
            <=> \A r \in AllRows(KindOf(q, j)) :
                  mem'[Base(KindOf(q, j), SlotOf(q, j)) + r] = <<DataOf(q, j), r>>
      BY <1>5 DEF Holds, Base, k_size, k_stage_stride, Larger, QK_size, q_size,
         AllRows, Rows
    <3> QED
      BY <1>4, <2>4, <3>1, <3>2 DEF Holds, Place, CellsOf
  <2> QED
    BY <2>1, <2>2, <2>3, <2>4 DEF ContentsOK
<1> QED
  BY <1>6, <1>7

\* The steps that move no load: either they leave the memory alone, or a warp
\* is past the main loop.
LEMMA QuietContents ==
  ASSUME ContentsOK, UNCHANGED <<mem, loads, pTile, pI, pState>>,
         ppc' = ppc \/ \E kind \in Producing : ppc = kind /\ ppc' = Copying[kind],
         (\A w \in Warps : In(w, "looping")') => \A w \in Warps : In(w, "looping")
  PROVE  ContentsOK'
<1>1. \A p : pUses(p)' = pUses(p)
  BY DEF pUses, Producing, Copying
<1>2. /\ \A q, j : /\ SlotOf(q, j)' = SlotOf(q, j)
                   /\ DataOf(q, j)' = DataOf(q, j)
                   /\ KindOf(q, j)' = KindOf(q, j)
      /\ \A q : Recent(q)' = Recent(q)
  BY <1>1 DEF SlotOf, TileStart, KindOf, DataOf, Recent
<1>3. /\ \A b : InFlight(b)' <=> InFlight(b)
      /\ \A a, b, c, d : Holds(a, b, c, d)' <=> Holds(a, b, c, d)
      /\ \A a : AllRows(a)' = AllRows(a)
  BY DEF InFlight, BarOf, PipeOf, Holds, Base, k_size, k_stage_stride, Larger,
     QK_size, q_size, AllRows, Rows
<1> QED
  BY <1>2, <1>3 DEF ContentsOK

LEMMA ContentsStep ==
  ASSUME RingInv, RingInv', ContentsOK, [Next]_vars
  PROVE  ContentsOK'
<1> USE DEF WarpMoves
<1>1. /\ cpc \in [Warps -> CPcs] /\ Leader \in Warps
  BY LeaderFacts DEF RingInv, PipesInv, FlashTypes
<1>2. ASSUME NEW kind \in Producing, Acquire(kind) PROVE ContentsOK'
  <2>1. /\ UNCHANGED <<mem, loads, pTile, pI, pState, cpc>>
        /\ ppc = kind /\ ppc' = Copying[kind]
    BY <1>2 DEF Acquire, cvars
  <2> QED
    BY <2>1, QuietContents DEF In, Sections
<1>3. ASSUME NEW kind \in Producing, Issue(kind) PROVE ContentsOK'
  BY <1>3, IssueContents
<1>4. ASSUME NEW l \in loads, LoadDone(l) PROVE ContentsOK'
  BY <1>4, LoadDoneContents
<1>5. ASSUME NEW w \in Warps, WritePartial(w) \/ WriteO(w) PROVE ContentsOK'
  <2>1. cpc'[w] \in {"barReduce", "fenceO"}
    BY <1>1, <1>5 DEF WritePartial, WriteO, Goto
  <2>2. ~ In(w, "looping")'
    BY <2>1 DEF In, Sections, AtQ, AtK, AtV
  <2> QED
    BY <2>2 DEF ContentsOK
<1>6. ASSUME NEW w \in Warps,
             \/ ReadQ(w) \/ ReadK(w) \/ MultiplyK(w) \/ ReleaseQK(w) \/ ReadV(w)
             \/ ReleaseV(w) \/ NormalizeStats(w) \/ NormalizeRow(w)
             \/ ReducePartials(w) \/ FenceO(w) \/ (w = Leader /\ LeaderStep)
      PROVE  ContentsOK'
  <2>1. ConsumerStep(w) \/ (w = Leader /\ LeaderStep)
    BY <1>6 DEF ConsumerStep
  <2>2. UNCHANGED <<mem, loads, pTile, pI, pState, ppc>>
    <3>1. CASE ReadQ(w) \/ ReadK(w) \/ MultiplyK(w) \/ ReleaseQK(w) \/ ReadV(w)
      BY <3>1 DEF ReadQ, ReadK, MultiplyK, ReleaseQK, ReadV, pvars
    <3>2. CASE ReleaseV(w) \/ NormalizeStats(w) \/ NormalizeRow(w)
      BY <3>2 DEF ReleaseV, NormalizeStats, NormalizeRow, pvars
    <3>3. CASE ReducePartials(w) \/ FenceO(w) \/ LeaderStep
      BY <3>3 DEF ReducePartials, FenceO, LeaderStep, StoreO, DrainO, pvars
    <3> QED
      BY <1>6, <3>1, <3>2, <3>3
  <2>3. ASSUME \A v \in Warps : In(v, "looping")'
        PROVE  \A v \in Warps : In(v, "looping")
    <3> SUFFICES ASSUME NEW v \in Warps PROVE In(v, "looping")
      OBVIOUS
    <3>1. cpc'[v] \in {"Q", "relQ", "K", "mulK", "relK", "V", "relV", "stats",
                       "barStats"}
      BY <2>3 DEF In, Sections, AtQ, AtK, AtV
    <3>2. /\ \A u \in Warps \ {w} : cpc'[u] = cpc[u]
          /\ <<cpc[w], cpc'[w]>> \in WarpMoves
      BY <2>1, WarpSteps DEF RingInv, PipesInv
    <3> QED
      BY <3>1, <3>2, SectionFacts
  <2> QED
    BY <2>2, <2>3, QuietContents
<1>7. CASE BarSync
  <2>1. AtBarSync(Leader) /\ cpc'[Leader] = AfterBarSync(Leader)
    BY <1>1, <1>7 DEF BarSync, AllAtBarSync
  <2>2. cpc'[Leader] \in {"normalize", "reduce", "barO", "store", "tile"}
    BY <2>1 DEF AtBarSync, AfterBarSync
  <2>3. ~ In(Leader, "looping")'
    BY <2>2 DEF In, Sections, AtQ, AtK, AtV, Leader
  <2> QED
    BY <1>1, <2>3 DEF ContentsOK
<1>8. CASE TileSync
  <2>1. ppc' \in {"Q", "done"} /\ pI' = 0
    BY <1>8 DEF TileSync, Resume
  <2>2. \A p : pUses(p)' = 0
    BY <2>1 DEF pUses
  <2>3. ASSUME NEW p \in Pipes PROVE Recent(p)' = {}
    <3>1. Stages(p)' = Stages(p) /\ Stages(p) \in {1, 2}
      BY PipeFacts DEF Stages
    <3> QED
      BY <2>2, <3>1 DEF Recent
  <2> QED
    BY <2>3 DEF ContentsOK
<1>9. ASSUME NEW st \in stores, StoreRead(st) PROVE ContentsOK'
  <2>1. UNCHANGED <<mem, loads, ppc, pTile, pI, pState, cpc>>
    BY <1>9 DEF StoreRead, pvars, cvars
  <2> QED
    BY <2>1, QuietContents DEF In, Sections
<1>10. CASE UNCHANGED vars
  <2>1. UNCHANGED <<mem, loads, ppc, pTile, pI, pState, cpc>>
    BY <1>10 DEF vars, pvars, cvars
  <2> QED
    BY <2>1, QuietContents DEF In, Sections
<1> QED
  BY <1>1, <1>2, <1>3, <1>4, <1>5, <1>6, <1>7, <1>8, <1>9, <1>10
  DEF Next, ProducerStep, ConsumerStep, TmaStep, Terminated

-----------------------------------------------------------------------------
(* Where a tile begins.                                                    *)

\* The tile of the block is one of its own while it is at work.
LEMMA TileIsMine ==
  ASSUME RingInv, StartOK, ppc # "done"
  PROVE  pTile \in Tiles /\ pTile \in Mine /\ k_blocks(pTile) \in Nat \ {0}
<1>1. pTile \in Nat /\ ~ (pTile >= tiles_num) /\ tiles_num \in Nat
  BY TileFacts DEF RingInv, PipesInv, FlashTypes, LoopsInv, ProducerOK
<1>2. pTile \in Tiles
  BY <1>1 DEF Tiles
<1> QED
  BY <1>1, <1>2, TileFacts DEF StartOK, Mine

LEMMA StartInit == Init => StartOK
<1> SUFFICES ASSUME Init PROVE StartOK
  OBVIOUS
<1>1. pTile % GridDim = BlockIdx
  BY ShapeFacts, SmallRemainder DEF Init
<1>2. TileStart("qk") = 0
  BY PipeFacts DEF Init, TileStart, pUses, NewState
<1>3. 0 % 2 = 0
  OBVIOUS
<1> QED
  BY <1>1, <1>2, <1>3 DEF StartOK

LEMMA SumOfOddAndOne ==
  ASSUME NEW m \in Nat, NEW k \in Nat, m % 2 = 0, k % 2 = 1
  PROVE  (m + (k + 1)) % 2 = 0
OBVIOUS

LEMMA StartStep ==
  ASSUME RingInv, StartOK, [Next]_vars
  PROVE  StartOK'
<1>1. ASSUME UNCHANGED <<pTile, pState>>, pUses("qk")' = pUses("qk")
      PROVE  StartOK'
  BY <1>1 DEF StartOK, TileStart
<1>2. ASSUME NEW kind \in Producing, Acquire(kind) PROVE StartOK'
  <2>1. UNCHANGED <<pTile, pState, pI>> /\ ppc = kind /\ ppc' = Copying[kind]
    BY <1>2 DEF Acquire
  <2>2. pUses("qk")' = pUses("qk")
    BY <2>1 DEF pUses, Producing, Copying
  <2> QED
    BY <1>1, <2>1, <2>2
<1>3. ASSUME NEW kind \in Producing, Issue(kind) PROVE StartOK'
  <2>1. TileStart("qk")' = TileStart("qk")
    BY <1>3, IssueUses, PipeFacts DEF RingInv
  <2>2. pTile' = pTile
    BY <1>3 DEF Issue
  <2> QED
    BY <2>1, <2>2 DEF StartOK
<1>4. CASE TileSync
  <2>1. /\ pTile' = pTile + GridDim /\ pState' = pState /\ ppc = "tile"
        /\ pI' = 0 /\ ppc' \in {"Q", "done"}
    BY <1>4 DEF TileSync, AllAtTile, NextTile, Resume
  <2>2. (pTile % GridDim = BlockIdx)'
    BY <2>1, ShapeFacts, NextRemainder
    DEF StartOK, RingInv, PipesInv, FlashTypes
  <2>3. ASSUME WARPS_N = 1, KeysClear PROVE TileStart("qk")' % 2 = 0
    <3>1. /\ k_blocks(pTile) \in Nat \ {0} /\ k_blocks(pTile) % 2 = 1
          /\ pTile \in Mine
      BY <2>1, <2>3, TileIsMine DEF KeysClear
    <3>2. pI = k_blocks(pTile)
      BY <2>1 DEF RingInv, LoopsInv, ProducerOK
    <3>3. pUses("qk") = k_blocks(pTile) + 1 /\ pUses("qk")' = 0
      BY <2>1, <3>2 DEF pUses
    <3>4. /\ TileStart("qk") \in Nat
          /\ pState["qk"].count = TileStart("qk") + pUses("qk")
      BY UseFacts, PipeFacts DEF RingInv
    <3>5. TileStart("qk")' = pState["qk"].count - 0
      BY <2>1, <3>3 DEF TileStart
    <3>6. TileStart("qk")' = TileStart("qk") + (k_blocks(pTile) + 1)
      BY <3>1, <3>3, <3>4, <3>5
    <3> QED
      BY <2>3, <3>1, <3>4, <3>6, SumOfOddAndOne DEF StartOK
  <2> QED
    BY <2>2, <2>3 DEF StartOK
<1>5. ASSUME UNCHANGED pvars PROVE StartOK'
  BY <1>1, <1>5 DEF pvars, pUses
<1>6. ASSUME NEW w \in Warps, ConsumerStep(w) \/ (w = Leader /\ LeaderStep)
      PROVE  StartOK'
  <2>1. UNCHANGED <<pTile, pState, ppc, pI>>
    BY <1>6, WarpSteps DEF RingInv, PipesInv
  <2> QED
    BY <1>5, <2>1 DEF pvars
<1>7. CASE BarSync \/ TmaStep \/ UNCHANGED vars
  BY <1>5, <1>7 DEF BarSync, TmaStep, LoadDone, StoreRead, vars
<1> QED
  BY <1>2, <1>3, <1>4, <1>6, <1>7, LeaderFacts
  DEF Next, ProducerStep, Terminated

-----------------------------------------------------------------------------
(* The last key block of a tile, with one column of warps.                 *)

LEMMA OddSlot ==
  ASSUME NEW m \in Nat, NEW k \in Nat, m % 2 = 0, k % 2 = 1
  PROVE  (m + 0) % 2 = 0 /\ (m + k) % 2 = 1
OBVIOUS

\* When a warp is past the main loop, all loads of the tile are done, the last
\* K block is in the second slot, and nobody is more than a block behind.
LEMMA LastBlockFacts ==
  ASSUME RingInv, StartOK, KeysClear, WARPS_N = 1,
         NEW v \in Warps, cpc[v] \in Past, NEW k, k = k_blocks(pTile)
  PROVE  /\ ppc = "tile" /\ loads = {} /\ k \in Nat \ {0}
         /\ pUses("qk") = k + 1 /\ pUses("v") = k
         /\ SlotOf("qk", 0) = 0 /\ SlotOf("qk", k) = 1 /\ SlotOf("v", k - 1) = 0
         /\ \A w \in Warps : /\ cpc[w] \in AtQ => cI[w] = 0 /\ k = 1
                             /\ cpc[w] \in AtK \cup AtV => cI[w] = k - 1
<1>1. ppc = "tile" /\ loads = {}
  BY PastLoads DEF RingInv, LoopsInv
<1>2. k \in Nat \ {0} /\ k % 2 = 1
  BY <1>1, TileIsMine DEF KeysClear
<1>3. pI = k
  BY <1>1 DEF RingInv, LoopsInv, ProducerOK
<1>4. pUses("qk") = k + 1 /\ pUses("v") = k
  BY <1>1, <1>3 DEF pUses
<1>5. /\ TileStart("qk") \in Nat /\ TileStart("v") \in Nat
      /\ TileStart("qk") % 2 = 0
  BY UseFacts, PipeFacts DEF RingInv, StartOK
<1>6. SlotOf("qk", 0) = 0 /\ SlotOf("qk", k) = 1
  BY <1>2, <1>5, OddSlot, PipeFacts DEF SlotOf
<1>7. SlotOf("v", k - 1) = 0
  <2>1. k - 1 \in Nat
    BY <1>2
  <2> DEFINE j == k - 1
  <2>2. SlotOf("v", j) \in 0 .. Stages("v") - 1
    <3>1. j \in Nat /\ "v" \in Pipes
      BY <2>1, PipeFacts
    <3> HIDE DEF j
    <3> QED
      BY <1>5, <3>1, SlotFacts
  <2> QED
    BY <2>2, PipeFacts
<1>8. ASSUME NEW w \in Warps
      PROVE  /\ cpc[w] \in AtQ => cI[w] = 0 /\ k = 1
             /\ cpc[w] \in AtK \cup AtV => cI[w] = k - 1
  <2>1. /\ cI[w] \in Nat
        /\ cpc[w] \in AtQ => cI[w] = 0
        /\ cpc[w] \in AtK \cup AtV => cI[w] < k
    BY DEF RingInv, PipesInv, FlashTypes, LoopsInv, ConsumerOK
  <2>2. /\ pState["v"].count = TileStart("v") + k
        /\ cState[w]["v"].count = TileStart("v") + cI[w]
    BY <1>4, UseFacts, PipeFacts DEF RingInv, cUses
  <2>3. pState["v"].count <= cState[w]["v"].count + 1
    BY CountOrder, PipeFacts DEF RingInv
  <2>4. k <= cI[w] + 1
    BY <1>2, <1>5, <2>1, <2>2, <2>3
  <2> QED
    BY <1>2, <2>1, <2>4
<1> QED
  BY <1>1, <1>2, <1>4, <1>6, <1>7, <1>8

\* Rows of the output lie apart from that block, and from other rows of Q.
LEMMA OutputClear ==
  ASSUME NEW m, NEW data, mem' = Written("O", 0, RowsOfM(m), data)
  PROVE  /\ \A d : Holds("K", 1, AllRows("K"), d)
                     => Holds("K", 1, AllRows("K"), d)'
         /\ \A d : Holds("V", 0, AllRows("V"), d)
                     => Holds("V", 0, AllRows("V"), d)'
         /\ \A n : \A d : n # m /\ Holds("Q", 0, RowsOfM(n), d)
                     => Holds("Q", 0, RowsOfM(n), d)'
<1> DEFINE S == CellsOf("O", 0, RowsOfM(m))
<1>1. \A c \in Cells \ S : mem'[c] = mem[c]
  BY DEF Written
<1>2. Base("O", 0) = 0 /\ Base("Q", 0) = 0
  BY LayoutFacts DEF Base
<1>3. S \subseteq CellsOf("Q", 0, AllRows("Q"))
  BY <1>2, RowFacts DEF CellsOf
<1>4. /\ CellsOf("K", 1, AllRows("K")) \cap CellsOf("Q", 0, AllRows("Q")) = {}
      /\ CellsOf("V", 0, AllRows("V")) \cap CellsOf("Q", 0, AllRows("Q")) = {}
  BY LayoutApart
<1>5. /\ CellsOf("K", 1, AllRows("K")) \subseteq Cells
      /\ CellsOf("V", 0, AllRows("V")) \subseteq Cells
      /\ CellsOf("Q", 0, AllRows("Q")) \subseteq Cells
  BY TilesFit
<1>6. /\ CellsOf("K", 1, AllRows("K")) \cap S = {}
      /\ CellsOf("V", 0, AllRows("V")) \cap S = {}
  BY <1>3, <1>4
<1>7. ASSUME NEW n, n # m, NEW d, Holds("Q", 0, RowsOfM(n), d)
      PROVE  Holds("Q", 0, RowsOfM(n), d)'
  <2>1. RowsOfM(n) \cap RowsOfM(m) = {} /\ RowsOfM(n) \subseteq AllRows("Q")
        /\ RowsOfM(m) \subseteq AllRows("Q") /\ AllRows("Q") \subseteq Nat
    BY <1>7, RowFacts, LayoutFacts DEF RowsOfM
  <2>2. CellsOf("Q", 0, RowsOfM(n)) \cap S = {}
    BY <1>2, <2>1 DEF CellsOf
  <2>3. CellsOf("Q", 0, RowsOfM(n)) \subseteq Cells
    BY <1>5, <2>1, CellsMonotone
  <2> HIDE DEF S
  <2> QED
    BY <1>1, <1>7, <2>2, <2>3, StillHolds
<1> HIDE DEF S
<1>8. ASSUME NEW d, Holds("K", 1, AllRows("K"), d)
      PROVE  Holds("K", 1, AllRows("K"), d)'
  <2>1. Holds("K", 1, AllRows("K"), d)'
    BY <1>1, <1>5, <1>6, <1>8, StillHolds
  <2> QED
    BY <2>1
<1>9. ASSUME NEW d, Holds("V", 0, AllRows("V"), d)
      PROVE  Holds("V", 0, AllRows("V"), d)'
  BY <1>1, <1>5, <1>6, <1>9, StillHolds
<1> QED
  BY <1>7, <1>8, <1>9

\* The consequence of LastOK.
LastHeld ==
  LET i == k_blocks(pTile) - 1
  IN  /\ Holds("K", 1, AllRows("K"), Kdata(pTile, i))
      /\ Holds("V", 0, AllRows("V"), Vdata(pTile, i))
      /\ \A w \in Warps : cpc[w] \in AtQ =>
           Holds("Q", 0, RowsOfM(warp_m(w)), Qdata(pTile))

\* It holds when the first warp leaves the main loop,
LEMMA LastEntered ==
  ASSUME RingInv, StartOK, ContentsOK, KeysClear, WARPS_N = 1,
         \A w \in Warps : In(w, "looping"), NEW v \in Warps, cpc[v] \in Past
  PROVE  LastHeld
<1>1. PICK k : k = k_blocks(pTile)
  OBVIOUS
<1>2. /\ loads = {} /\ k \in Nat \ {0}
      /\ pUses("qk") = k + 1 /\ pUses("v") = k
      /\ SlotOf("qk", 0) = 0 /\ SlotOf("qk", k) = 1 /\ SlotOf("v", k - 1) = 0
      /\ \A w \in Warps : cpc[w] \in AtQ => k = 1
  BY <1>1, LastBlockFacts
<1>3. /\ k \in Recent("qk") /\ k - 1 \in Recent("v")
      /\ k = 1 => 0 \in Recent("qk")
  BY <1>2, PipeFacts DEF Recent
<1>4. ASSUME NEW p \in Pipes, NEW j \in Recent(p)
      PROVE  Holds(KindOf(p, j), SlotOf(p, j), AllRows(KindOf(p, j)),
                   DataOf(p, j))
  BY <1>2, <1>4 DEF ContentsOK, InFlight
<1>5. Holds("K", 1, AllRows("K"), Kdata(pTile, k - 1))
  <2>1. KindOf("qk", k) = "K" /\ DataOf("qk", k) = Kdata(pTile, k - 1)
    BY <1>2 DEF KindOf, DataOf
  <2> QED
    BY <1>2, <1>3, <1>4, <2>1, PipeFacts
<1>6. Holds("V", 0, AllRows("V"), Vdata(pTile, k - 1))
  <2>1. KindOf("v", k - 1) = "V" /\ DataOf("v", k - 1) = Vdata(pTile, k - 1)
    BY DEF KindOf, DataOf
  <2> QED
    BY <1>2, <1>3, <1>4, <2>1, PipeFacts
<1>7. ASSUME NEW w \in Warps, cpc[w] \in AtQ
      PROVE  Holds("Q", 0, RowsOfM(warp_m(w)), Qdata(pTile))
  <2>1. KindOf("qk", 0) = "Q" /\ DataOf("qk", 0) = Qdata(pTile)
    BY DEF KindOf, DataOf
  <2>2. 0 \in Recent("qk")
    BY <1>2, <1>3, <1>7
  <2>3. Holds("Q", 0, AllRows("Q"), Qdata(pTile))
    BY <1>2, <1>4, <2>1, <2>2, PipeFacts
  <2> QED
    BY <2>3, PartsFacts DEF Holds
<1> QED
  BY <1>1, <1>5, <1>6, <1>7 DEF LastHeld

\* and no output that is written then takes it away.
LEMMA LastKept ==
  ASSUME LastHeld, pTile' = pTile,
         \A w \in Warps : cpc'[w] \in AtQ => cpc[w] \in AtQ,
         \/ mem' = mem
         \/ \E m : \E data :
              /\ mem' = Written("O", 0, RowsOfM(m), data)
              /\ \A w \in Warps : cpc[w] \in AtQ => warp_m(w) # m
  PROVE  LastHeld'
<1>1. PICK i : i = k_blocks(pTile) - 1
  OBVIOUS
<1>2. /\ (k_blocks(pTile) - 1)' = i
      /\ Kdata(pTile, i)' = Kdata(pTile, i) /\ Vdata(pTile, i)' = Vdata(pTile, i)
      /\ Qdata(pTile)' = Qdata(pTile)
  BY <1>1 DEF Kdata, Vdata, Qdata
<1>3. /\ Holds("K", 1, AllRows("K"), Kdata(pTile, i))
      /\ Holds("V", 0, AllRows("V"), Vdata(pTile, i))
      /\ \A w \in Warps : cpc[w] \in AtQ =>
           Holds("Q", 0, RowsOfM(warp_m(w)), Qdata(pTile))
  BY <1>1 DEF LastHeld
<1> DEFINE Kept(a, s, rows, d) ==
             \A r \in rows : mem'[Base(a, s) + r] = <<d, r>>
<1>4. /\ Kept("K", 1, AllRows("K"), Kdata(pTile, i))
      /\ Kept("V", 0, AllRows("V"), Vdata(pTile, i))
      /\ \A w \in Warps : cpc[w] \in AtQ =>
           Kept("Q", 0, RowsOfM(warp_m(w)), Qdata(pTile))
  <2>1. CASE mem' = mem
    BY <1>3, <2>1 DEF Holds
  <2>2. ASSUME NEW m, NEW data, mem' = Written("O", 0, RowsOfM(m), data),
               \A w \in Warps : cpc[w] \in AtQ => warp_m(w) # m
        PROVE  /\ Kept("K", 1, AllRows("K"), Kdata(pTile, i))
               /\ Kept("V", 0, AllRows("V"), Vdata(pTile, i))
               /\ \A w \in Warps : cpc[w] \in AtQ =>
                    Kept("Q", 0, RowsOfM(warp_m(w)), Qdata(pTile))
    <3>1. /\ \A d : Holds("K", 1, AllRows("K"), d)
                     => Kept("K", 1, AllRows("K"), d)
          /\ \A d : Holds("V", 0, AllRows("V"), d)
                     => Kept("V", 0, AllRows("V"), d)
          /\ \A n : \A d : n # m /\ Holds("Q", 0, RowsOfM(n), d)
                     => Kept("Q", 0, RowsOfM(n), d)
      <4>1. /\ \A d : Holds("K", 1, AllRows("K"), d)
                       => Holds("K", 1, AllRows("K"), d)'
            /\ \A d : Holds("V", 0, AllRows("V"), d)
                       => Holds("V", 0, AllRows("V"), d)'
            /\ \A n : \A d : n # m /\ Holds("Q", 0, RowsOfM(n), d)
                       => Holds("Q", 0, RowsOfM(n), d)'
        BY <2>2, OutputClear
      <4>2. \A a, s, rows, d : Holds(a, s, rows, d)' <=> Kept(a, s, rows, d)
        BY DEF Holds
      <4> HIDE DEF Kept
      <4> QED
        BY <4>1, <4>2
    <3> HIDE DEF Kept
    <3> QED
      BY <1>3, <2>2, <3>1
  <2> QED
    BY <2>1, <2>2
<1> QED
  BY <1>1, <1>2, <1>4 DEF LastHeld, Holds

\* What the step of a warp does to the memory.
LEMMA WarpMemory ==
  ASSUME NEW w \in Warps, ConsumerStep(w) \/ (w = Leader /\ LeaderStep)
  PROVE  /\ cpc[w] = "partial" =>
              mem' = Written("O", warp_n(w) - 1, RowsOfM(warp_m(w)),
                             <<"O", result[w]>>)
         /\ cpc[w] = "writeO" =>
              mem' = Written("O", 0, RowsOfM(warp_m(w)), <<"O", result[w]>>)
         /\ cpc[w] \notin {"partial", "writeO"} => mem' = mem
<1>1. CASE ReadQ(w) \/ ReadK(w) \/ MultiplyK(w) \/ ReleaseQK(w) \/ ReadV(w)
  BY <1>1 DEF ReadQ, ReadK, MultiplyK, ReleaseQK, ReadV
<1>2. CASE ReleaseV(w) \/ NormalizeStats(w) \/ NormalizeRow(w)
  BY <1>2 DEF ReleaseV, NormalizeStats, NormalizeRow
<1>3. CASE WritePartial(w) \/ ReducePartials(w) \/ WriteO(w) \/ FenceO(w)
  BY <1>3 DEF WritePartial, ReducePartials, WriteO, FenceO
<1>4. CASE w = Leader /\ LeaderStep
  BY <1>4 DEF LeaderStep, StoreO, DrainO
<1> QED
  BY <1>1, <1>2, <1>3, <1>4 DEF ConsumerStep

LEMMA LastStep ==
  ASSUME RingInv, AlignInv, StartOK, ContentsOK, KeysClear, LastOK, [Next]_vars
  PROVE  LastOK'
<1> SUFFICES ASSUME WARPS_N = 1, NEW v \in Warps, In(v, "writing")'
             PROVE  LastHeld'
  BY DEF LastOK, LastHeld
<1>1. /\ cpc'[v] \in {"reduce", "writeO", "fenceO", "barO"}
      /\ cpc \in [Warps -> CPcs] /\ Leader \in Warps
  BY LeaderFacts DEF In, Sections, RingInv, PipesInv, FlashTypes
<1>2. ASSUME NEW w \in Warps
      PROVE  cpc[w] \notin {"normalize", "partial", "barReduce", "barStats",
                            "reduce"}
  BY DEF AlignInv, RolesOK, In, Sections
\* A warp that is writing is past the main loop.
<1>3. ASSUME NEW u \in Warps, In(u, "writing")
      PROVE  LastHeld /\ cpc[u] \in Past /\ ppc = "tile" /\ loads = {}
  <2>1. LastHeld
    BY <1>3 DEF LastOK, LastHeld
  <2>2. cpc[u] \in Past
    BY <1>1, <1>3 DEF In, Sections, Past, AtQ, AtK, AtV, CPcs
  <2> QED
    BY <2>1, <2>2, PastLoads DEF RingInv, LoopsInv
<1>4. ASSUME NEW w \in Warps, ConsumerStep(w) \/ (w = Leader /\ LeaderStep)
      PROVE  LastHeld'
  <2> USE DEF WarpMoves
  <2>1. /\ \A u \in Warps \ {w} : cpc'[u] = cpc[u]
        /\ <<cpc[w], cpc'[w]>> \in WarpMoves /\ pTile' = pTile
    BY <1>4, WarpSteps DEF RingInv, PipesInv
  <2>2. \A u \in Warps : cpc'[u] \in AtQ => cpc[u] \in AtQ
    BY <2>1 DEF AtQ
  <2>3. /\ cpc[w] = "writeO" =>
             mem' = Written("O", 0, RowsOfM(warp_m(w)), <<"O", result[w]>>)
        /\ cpc[w] # "writeO" => mem' = mem
    BY <1>2, <1>4, WarpMemory
  <2>4. LastHeld
    <3>1. CASE In(v, "writing")
      BY <1>3, <3>1
    <3>2. CASE ~ In(v, "writing")
      <4>1. v = w /\ cpc[v] = "stats"
        BY <1>1, <1>2, <2>1, <3>2 DEF In, Sections
      <4>2. cpc[v] \in Past /\ In(v, "looping")
        BY <4>1 DEF In, Sections, Past, AtQ, AtK, AtV, CPcs
      <4>3. CASE \A u \in Warps : In(u, "looping")
        BY <4>2, <4>3, LastEntered
      <4>4. CASE \E u \in Warps : ~ In(u, "looping")
        <5>1. PICK u \in Warps : ~ In(u, "looping")
          BY <4>4
        <5>2. SameSection(v, u)
          BY DEF AlignInv, AlignOK
        <5>3. In(u, "writing")
          BY <4>1, <5>1, <5>2, SectionFacts, SameFacts
        <5> QED
          BY <1>3, <5>3
      <4> QED
        BY <4>3, <4>4
    <3> QED
      BY <3>1, <3>2
  <2>5. CASE cpc[w] # "writeO"
    BY <2>1, <2>2, <2>3, <2>4, <2>5, LastKept
  <2>6. CASE cpc[w] = "writeO"
    <3>1. ASSUME NEW u \in Warps, cpc[u] \in AtQ PROVE warp_m(u) # warp_m(w)
      <4>1. u # w
        BY <2>6, <3>1 DEF AtQ
      <4> QED
        BY <4>1, OneColumn, FirstColumn
    <3> QED
      BY <2>1, <2>2, <2>3, <2>4, <2>6, <3>1, LastKept
  <2> QED
    BY <2>5, <2>6
<1>5. ASSUME UNCHANGED <<cpc, pTile, mem>> PROVE LastHeld'
  <2>1. In(v, "writing")
    BY <1>5 DEF In, Sections
  <2> QED
    BY <1>3, <1>5, <2>1, LastKept
<1>6. ASSUME UNCHANGED cpc PROVE ppc = "tile" /\ loads = {}
  <2>1. In(v, "writing")
    BY <1>6 DEF In, Sections
  <2> QED
    BY <1>3, <2>1
<1>7. ASSUME NEW kind \in Producing, Acquire(kind) \/ Issue(kind)
      PROVE  LastHeld'
  <2>1. UNCHANGED cpc /\ ppc # "tile"
    BY <1>7 DEF Acquire, Issue, cvars, Producing, Copying
  <2> QED
    BY <1>6, <2>1
<1>8. ASSUME NEW l \in loads, LoadDone(l) PROVE LastHeld'
  BY <1>6, <1>8 DEF LoadDone, cvars
<1>9. ASSUME (\E st \in stores : StoreRead(st)) \/ UNCHANGED vars
      PROVE  LastHeld'
  BY <1>5, <1>9 DEF StoreRead, vars, pvars, cvars
<1>10. CASE BarSync
  <2>1. AtBarSync(v) /\ cpc'[v] = AfterBarSync(v)
    BY <1>10 DEF BarSync, AllAtBarSync
  <2> QED
    BY <1>1, <1>2, <2>1 DEF AtBarSync, AfterBarSync
<1>11. CASE TileSync
  BY <1>1, <1>11 DEF TileSync, Resume
<1> QED
  BY <1>1, <1>4, <1>7, <1>8, <1>9, <1>10, <1>11
  DEF Next, ProducerStep, TmaStep, Terminated

-----------------------------------------------------------------------------
(* From the rings to the accumulators.                                     *)

\* The rows of a tile a warp reads before its release: all but of Q.
RowsRead(w, kind) == IF kind = "Q" THEN RowsOfM(warp_m(w)) ELSE AllRows(kind)

\* A warp between its wait and its release finds the use of the ring it is at.
ReadsOK ==
  KeysClear =>
    \A w \in Warps, p \in Pipes : Reading(w, p) =>
      \A j \in Nat : j = cUses(w, p) =>
        Holds(KindOf(p, j), cState[w][p].index, RowsRead(w, KindOf(p, j)),
              DataOf(p, j))

LEMMA ReadsFollow ==
  RingInv /\ AlignInv /\ StartOK /\ ContentsOK /\ (KeysClear => LastOK)
    => ReadsOK
<1> SUFFICES ASSUME RingInv, AlignInv, StartOK, ContentsOK, KeysClear, LastOK,
                    NEW w \in Warps, NEW p \in Pipes, Reading(w, p),
                    NEW j \in Nat, j = cUses(w, p)
             PROVE  Holds(KindOf(p, j), cState[w][p].index,
                          RowsRead(w, KindOf(p, j)), DataOf(p, j))
  BY DEF ReadsOK
<1>1. /\ j \in Recent(p) /\ cState[w][p].index = SlotOf(p, j)
      /\ ~ InFlight(<<p, SlotOf(p, j)>>)
  BY ReaderFacts
<1>2. In(w, "looping")
  BY DEF Reading, In, Sections, AtQ, AtK, AtV
<1>3. CASE \A v \in Warps : In(v, "looping")
  <2>1. Holds(KindOf(p, j), SlotOf(p, j), AllRows(KindOf(p, j)), DataOf(p, j))
    BY <1>1, <1>3 DEF ContentsOK
  <2>2. RowsRead(w, KindOf(p, j)) \subseteq AllRows(KindOf(p, j))
    BY RowFacts DEF RowsRead
  <2> QED
    BY <1>1, <2>1, <2>2 DEF Holds
\* Otherwise there is one column, and some warp is past the main loop.
<1>4. CASE \E v \in Warps : ~ In(v, "looping")
  <2>1. PICK v \in Warps : ~ In(v, "looping")
    BY <1>4
  <2>2. WARPS_N = 1 /\ In(v, "writing")
    <3>1. SameSection(w, v)
      BY DEF AlignInv, AlignOK
    <3> QED
      BY <1>2, <2>1, <3>1, SectionFacts, SameFacts
  <2>3. LastHeld
    BY <2>2 DEF LastOK, LastHeld
  <2>4. cpc[v] \in Past
    BY <2>2 DEF In, Sections, Past, AtQ, AtK, AtV, CPcs
  <2>5. PICK k : k = k_blocks(pTile)
    OBVIOUS
  <2>6. /\ k \in Nat \ {0}
        /\ SlotOf("qk", 0) = 0 /\ SlotOf("qk", k) = 1 /\ SlotOf("v", k - 1) = 0
        /\ cpc[w] \in AtQ => cI[w] = 0 /\ k = 1
        /\ cpc[w] \in AtK \cup AtV => cI[w] = k - 1
    BY <2>2, <2>4, <2>5, LastBlockFacts
  <2>7. /\ Holds("K", 1, AllRows("K"), Kdata(pTile, k - 1))
        /\ Holds("V", 0, AllRows("V"), Vdata(pTile, k - 1))
        /\ cpc[w] \in AtQ => Holds("Q", 0, RowsOfM(warp_m(w)), Qdata(pTile))
    BY <2>3, <2>5 DEF LastHeld
  <2>8. CASE p = "qk" /\ cpc[w] = "relQ"
    <3>1. j = 0 /\ KindOf(p, j) = "Q" /\ DataOf(p, j) = Qdata(pTile)
      BY <2>8 DEF cUses, AtQ, KindOf, DataOf
    <3> QED
      BY <1>1, <2>6, <2>7, <2>8, <3>1 DEF RowsRead, AtQ
  <2>9. CASE p = "qk" /\ cpc[w] \in {"mulK", "relK"}
    <3>1. j = k
      BY <2>6, <2>9 DEF cUses, AtQ, AtK, AtV
    <3>2. KindOf(p, j) = "K" /\ DataOf(p, j) = Kdata(pTile, k - 1)
      BY <2>6, <2>9, <3>1 DEF KindOf, DataOf
    <3> QED
      BY <1>1, <2>6, <2>7, <2>9, <3>1, <3>2 DEF RowsRead
  <2>10. CASE p = "v" /\ cpc[w] = "relV"
    <3>1. j = k - 1
      BY <2>6, <2>10 DEF cUses, AtV
    <3>2. KindOf(p, j) = "V" /\ DataOf(p, j) = Vdata(pTile, k - 1)
      BY <2>10, <3>1 DEF KindOf, DataOf
    <3> QED
      BY <1>1, <2>6, <2>7, <2>10, <3>1, <3>2 DEF RowsRead
  <2> QED
    BY <2>8, <2>9, <2>10, PipeFacts DEF Reading
<1> QED
  BY <1>3, <1>4

LEMMA RegistersInit == Init => RegistersOK
<1> SUFFICES ASSUME Init, NEW w \in Warps
             PROVE  /\ acc[w] = SumTo(cTile[w], Progress(w))
                    /\ cpc[w] = "Q"
  BY DEF RegistersOK, AtQ, AtK, AtV
<1>1. cpc[w] = "Q" /\ cI[w] = 0 /\ acc[w] = << >>
  BY DEF Init
<1>2. Progress(w) = 0
  BY <1>1 DEF Progress
<1> QED
  BY <1>1, <1>2, SumFacts

\* The registers of one warp.
WarpRegisters(w) ==
  /\ acc[w] = SumTo(cTile[w], Progress(w))
  /\ cpc[w] \in {"relQ", "K", "mulK", "relK", "V", "relV"} =>
       frag[w][1] = Qdata(cTile[w])
  /\ cpc[w] \in {"relK", "V"} => frag[w][2] = Kdata(cTile[w], cI[w])

LEMMA RegistersAre == RegistersOK <=> \A w \in Warps : WarpRegisters(w)
BY DEF RegistersOK, WarpRegisters, AtQ, AtK, AtV

\* A step that leaves the registers of a warp alone.
LEMMA QuietRegisters ==
  ASSUME NEW w \in Warps, WarpRegisters(w),
         acc'[w] = acc[w], frag'[w] = frag[w], cTile'[w] = cTile[w],
         Progress(w)' = Progress(w), cI'[w] = cI[w] \/ cpc'[w] \notin {"relK", "V"},
         cpc'[w] \in {"relQ", "K", "mulK", "relK", "V", "relV"} =>
           cpc[w] \in {"relQ", "K", "mulK", "relK", "V", "relV"},
         cpc'[w] \in {"relK", "V"} => cpc[w] \in {"relK", "V"}
  PROVE  WarpRegisters(w)'
<1>1. /\ SumTo(cTile[w], Progress(w))' = SumTo(cTile[w], Progress(w))
      /\ Qdata(cTile[w])' = Qdata(cTile[w])
  BY DEF SumTo, Qdata, Block, Kdata, Vdata, q_block, head
<1>2. cI'[w] = cI[w] => Kdata(cTile[w], cI[w])' = Kdata(cTile[w], cI[w])
  BY DEF Kdata, head
<1> QED
  BY <1>1, <1>2 DEF WarpRegisters

LEMMA ReadQRegisters ==
  ASSUME KeysClear, RingInv, RingInv', ReadsOK', NEW w \in Warps, ReadQ(w)
  PROVE  /\ Read("Q", cState[w]["qk"].index, RowsOfM(warp_m(w)))
              = Qdata(cTile[w])
         /\ frag'[w] = << Qdata(cTile[w]) >>
<1>1. /\ "qk" \in Pipes /\ cpc'[w] = "relQ" /\ mem' = mem /\ cState' = cState
      /\ pTile' = pTile /\ cTile[w] = pTile
  BY DEF Pipes, ReadQ, Goto, pvars, RingInv, PipesInv, LoopsInv, ConsumerOK,
     FlashTypes
<1>2. Reading(w, "qk")' /\ cUses(w, "qk")' = 0
  BY <1>1 DEF Reading, cUses, AtQ
<1>3. Holds(KindOf("qk", 0), cState[w]["qk"].index,
            RowsRead(w, KindOf("qk", 0)), DataOf("qk", 0))'
  BY <1>1, <1>2 DEF ReadsOK
<1>4. Holds("Q", cState[w]["qk"].index, RowsOfM(warp_m(w)), Qdata(pTile))
  BY <1>1, <1>3 DEF KindOf, DataOf, Holds, Base, RowsRead, k_size, q_size,
     k_stage_stride, Larger, QK_size, Qdata, q_block, head
<1>5. Read("Q", cState[w]["qk"].index, RowsOfM(warp_m(w))) = Qdata(pTile)
  BY <1>4, PartsFacts, ReadHolds
<1>6. frag'[w] = << Read("Q", cState[w]["qk"].index, RowsOfM(warp_m(w))) >>
  BY DEF ReadQ, RingInv, PipesInv, FlashTypes
<1> QED
  BY <1>1, <1>5, <1>6

LEMMA MultiplyKRegisters ==
  ASSUME KeysClear, RingInv, ReadsOK, NEW w \in Warps, MultiplyK(w)
  PROVE  frag'[w] = << frag[w][1], Kdata(cTile[w], cI[w]) >>
<1>1. /\ "qk" \in Pipes /\ cpc[w] = "mulK" /\ cI[w] \in Nat
      /\ cTile[w] = pTile
  BY DEF Pipes, MultiplyK, RingInv, PipesInv, LoopsInv, ConsumerOK, FlashTypes
<1>2. PICK j \in Nat : j = cI[w] + 1
  BY <1>1
<1>3. Reading(w, "qk") /\ cUses(w, "qk") = j
  BY <1>1, <1>2 DEF Reading, cUses, AtQ, AtV
<1>4. Holds(KindOf("qk", j), cState[w]["qk"].index,
            RowsRead(w, KindOf("qk", j)), DataOf("qk", j))
  BY <1>1, <1>3 DEF ReadsOK
<1>5. KindOf("qk", j) = "K" /\ DataOf("qk", j) = Kdata(pTile, cI[w])
  <2>1. j # 0 /\ j - 1 = cI[w]
    BY <1>1, <1>2
  <2> QED
    BY <2>1 DEF KindOf, DataOf
<1>6. Read("K", cState[w]["qk"].index, RowsOfN(warp_n(w)))
        = Kdata(pTile, cI[w])
  BY <1>4, <1>5, PartsFacts, ReadHolds DEF RowsRead
<1> QED
  BY <1>1, <1>6 DEF MultiplyK, RingInv, PipesInv, FlashTypes

LEMMA ReadVRegisters ==
  ASSUME KeysClear, RingInv, RingInv', ReadsOK', NEW w \in Warps, ReadV(w),
         WarpRegisters(w)
  PROVE  acc'[w] = SumTo(cTile[w], cI[w] + 1)
<1>1. /\ "v" \in Pipes /\ cpc[w] = "V" /\ cpc'[w] = "relV" /\ mem' = mem
      /\ cState' = cState /\ pTile' = pTile /\ cI' = cI
      /\ cTile[w] = pTile /\ cI[w] \in Nat
  BY DEF Pipes, ReadV, Goto, pvars, RingInv, PipesInv, LoopsInv, ConsumerOK,
     FlashTypes
<1>2. PICK j \in Nat : j = cI[w]
  BY <1>1
<1>3. Reading(w, "v")' /\ cUses(w, "v")' = j
  BY <1>1, <1>2 DEF Reading, cUses
<1>4. cState[w]["v"].index = 0
  <2>1. cState[w]["v"].index \in 0 .. Stages("v") - 1
    BY <1>1, StateFacts, BarFacts, StateRound DEF RingInv
  <2> QED
    BY <2>1, PipeFacts
<1>5. Holds(KindOf("v", j), cState[w]["v"].index, RowsRead(w, KindOf("v", j)),
            DataOf("v", j))'
  BY <1>1, <1>3 DEF ReadsOK
<1>6. Holds("V", 0, AllRows("V"), Vdata(pTile, j))
  BY <1>1, <1>4, <1>5 DEF KindOf, DataOf, Holds, Base, RowsRead, AllRows, Rows,
     k_size, q_size, k_stage_stride, Larger, QK_size, Vdata, head
<1>7. Read("V", 0, RowsOfN(warp_n(w))) = Vdata(pTile, j)
  BY <1>6, PartsFacts, ReadHolds
<1>8. /\ frag[w][1] = Qdata(pTile) /\ frag[w][2] = Kdata(pTile, j)
      /\ acc[w] = SumTo(pTile, j)
  BY <1>1, <1>2 DEF WarpRegisters, Progress
<1>9. acc'[w] = Append(acc[w], Block(pTile, j))
  BY <1>7, <1>8 DEF ReadV, RingInv, PipesInv, FlashTypes, Block
<1> QED
  BY <1>1, <1>2, <1>8, <1>9, SumFacts

LEMMA RegistersStep ==
  ASSUME KeysClear, RingInv, RingInv', ReadsOK, ReadsOK', RegistersOK,
         [Next]_vars
  PROVE  RegistersOK'
<1>1. /\ FlashTypes /\ Leader \in Warps
      /\ cpc \in [Warps -> CPcs] /\ cI \in [Warps -> Nat]
      /\ cTile \in [Warps -> Nat]
      /\ DOMAIN acc = Warps /\ DOMAIN frag = Warps
  BY LeaderFacts DEF RingInv, PipesInv, FlashTypes
<1>2. ASSUME NEW x \in Warps PROVE WarpRegisters(x)
  BY RegistersAre
<1>3. SUFFICES ASSUME NEW x \in Warps PROVE WarpRegisters(x)'
  <2>1. Warps' = Warps
    BY DEF Warps
  <2> QED
    BY <1>3, <2>1 DEF RegistersOK, WarpRegisters, AtQ, AtK, AtV
<1>4. ASSUME UNCHANGED <<cpc[x], cTile[x], cI[x], acc[x], frag[x]>>
      PROVE  WarpRegisters(x)'
  <2>1. Progress(x)' = Progress(x)
    BY <1>4 DEF Progress
  <2> QED
    BY <1>2, <1>4, <2>1, QuietRegisters
<1>5. ASSUME NEW w \in Warps, ReadQ(w) PROVE WarpRegisters(x)'
  <2>1. CASE x = w
    <3>1. frag'[w] = << Qdata(cTile[w]) >>
      BY <1>5, ReadQRegisters
    <3>2. /\ cpc[w] = "Q" /\ cpc'[w] = "relQ"
          /\ UNCHANGED <<cTile, cI, acc>>
      BY <1>1, <1>5 DEF ReadQ, Goto
    <3>3. acc[w] = SumTo(cTile[w], Progress(w)) /\ Progress(w)' = Progress(w)
      BY <1>2, <3>2 DEF WarpRegisters, Progress
    <3> QED
      BY <2>1, <3>1, <3>2, <3>3 DEF WarpRegisters, SumTo, Qdata, Block, Kdata,
         Vdata, q_block, head
  <2>2. CASE x # w
    BY <1>1, <1>4, <1>5, <2>2 DEF ReadQ, Goto
  <2> QED
    BY <2>1, <2>2
<1>6. ASSUME NEW w \in Warps, MultiplyK(w) PROVE WarpRegisters(x)'
  <2>1. CASE x = w
    <3>1. frag'[w] = << frag[w][1], Kdata(cTile[w], cI[w]) >>
      BY <1>6, MultiplyKRegisters
    <3>2. /\ cpc[w] = "mulK" /\ cpc'[w] = "relK"
          /\ UNCHANGED <<cTile, cI, acc>>
      BY <1>1, <1>6 DEF MultiplyK, Goto
    <3>3. /\ acc[w] = SumTo(cTile[w], Progress(w)) /\ Progress(w)' = Progress(w)
          /\ frag[w][1] = Qdata(cTile[w])
      BY <1>2, <3>2 DEF WarpRegisters, Progress
    <3> QED
      BY <2>1, <3>1, <3>2, <3>3 DEF WarpRegisters, SumTo, Qdata, Block, Kdata,
         Vdata, q_block, head
  <2>2. CASE x # w
    BY <1>1, <1>4, <1>6, <2>2 DEF MultiplyK, Goto
  <2> QED
    BY <2>1, <2>2
<1>7. ASSUME NEW w \in Warps, ReadV(w) PROVE WarpRegisters(x)'
  <2>1. CASE x = w
    <3>1. acc'[w] = SumTo(cTile[w], cI[w] + 1)
      BY <1>2, <1>7, ReadVRegisters
    <3>2. /\ cpc[w] = "V" /\ cpc'[w] = "relV"
          /\ UNCHANGED <<cTile, cI, frag>>
      BY <1>1, <1>7 DEF ReadV, Goto
    <3>3. frag[w][1] = Qdata(cTile[w]) /\ Progress(w)' = cI[w] + 1
      BY <1>2, <3>2 DEF WarpRegisters, Progress
    <3> QED
      BY <2>1, <3>1, <3>2, <3>3 DEF WarpRegisters, SumTo, Qdata, Block, Kdata,
         Vdata, q_block, head
  <2>2. CASE x # w
    BY <1>1, <1>4, <1>7, <2>2 DEF ReadV, Goto
  <2> QED
    BY <2>1, <2>2
<1>8. ASSUME NEW w \in Warps, ReleaseV(w) PROVE WarpRegisters(x)'
  <2>1. CASE x = w
    <3>1. /\ cpc[w] = "relV" /\ cpc'[w] \in {"stats", "K"}
          /\ cI'[w] = cI[w] + 1 /\ UNCHANGED <<cTile, acc, frag>>
      BY <1>1, <1>8 DEF ReleaseV, Goto
    <3>2. Progress(w)' = Progress(w)
      BY <1>1, <3>1 DEF Progress
    <3> QED
      BY <1>2, <2>1, <3>1, <3>2, QuietRegisters
  <2>2. CASE x # w
    BY <1>1, <1>4, <1>8, <2>2 DEF ReleaseV, Goto
  <2> QED
    BY <2>1, <2>2
<1>9. ASSUME NEW w \in Warps,
             \/ ReadK(w) \/ ReleaseQK(w) \/ NormalizeStats(w) \/ NormalizeRow(w)
             \/ WritePartial(w) \/ ReducePartials(w) \/ WriteO(w) \/ FenceO(w)
             \/ (w = Leader /\ LeaderStep)
      PROVE  WarpRegisters(x)'
  <2>1. /\ UNCHANGED <<cTile, cI, acc, frag>>
        /\ \A u \in Warps \ {w} : cpc'[u] = cpc[u]
        /\ \/ <<cpc[w], cpc'[w]>> \in
                {<<"K", "mulK">>, <<"relQ", "K">>, <<"relK", "V">>}
           \/ /\ cpc[w] # "relV"
              /\ cpc'[w] \notin {"relQ", "K", "mulK", "relK", "V", "relV"}
    <3>1. CASE ReadK(w) \/ ReleaseQK(w)
      BY <1>1, <3>1 DEF ReadK, ReleaseQK, Goto
    <3>2. CASE NormalizeStats(w) \/ NormalizeRow(w)
      BY <1>1, <3>2 DEF NormalizeStats, NormalizeRow, Goto
    <3>3. CASE WritePartial(w) \/ ReducePartials(w) \/ WriteO(w) \/ FenceO(w)
      BY <1>1, <3>3 DEF WritePartial, ReducePartials, WriteO, FenceO, Goto
    <3>4. CASE w = Leader /\ LeaderStep
      BY <1>1, <3>4 DEF LeaderStep, StoreO, DrainO, Goto
    <3> QED
      BY <1>9, <3>1, <3>2, <3>3, <3>4
  <2>2. CASE x = w
    <3>1. Progress(w)' = Progress(w)
      BY <2>1 DEF Progress
    <3> QED
      BY <1>2, <2>1, <2>2, <3>1, QuietRegisters
  <2>3. CASE x # w
    BY <1>4, <2>1, <2>3
  <2> QED
    BY <2>2, <2>3
<1>10. CASE BarSync
  <2>1. /\ UNCHANGED <<cTile, cI, acc, frag>>
        /\ AtBarSync(x) /\ cpc'[x] = AfterBarSync(x)
    BY <1>10 DEF BarSync, AllAtBarSync
  <2>2. cpc[x] # "relV" /\ cpc'[x] \in {"normalize", "reduce", "barO", "store",
                                        "tile"}
    BY <2>1 DEF AtBarSync, AfterBarSync
  <2>3. Progress(x)' = Progress(x)
    BY <2>1, <2>2 DEF Progress
  <2> QED
    BY <1>2, <2>1, <2>2, <2>3, QuietRegisters
<1>11. CASE TileSync
  <2>1. cpc'[x] \in {"Q", "done"} /\ cI'[x] = 0 /\ acc'[x] = << >>
    BY <1>11 DEF TileSync, Resume
  <2>2. Progress(x)' = 0
    BY <2>1 DEF Progress
  <2>3. SumTo(cTile'[x], 0) = << >>
    BY SumFacts
  <2> QED
    BY <2>1, <2>2, <2>3 DEF WarpRegisters, SumTo, Block, Qdata, Kdata, Vdata,
       q_block, head
<1>12. ASSUME UNCHANGED cvars PROVE WarpRegisters(x)'
  BY <1>4, <1>12 DEF cvars
<1>13. ASSUME NEW kind \in Producing, Acquire(kind) \/ Issue(kind)
       PROVE  WarpRegisters(x)'
  BY <1>12, <1>13 DEF Acquire, Issue
<1>14. CASE TmaStep \/ UNCHANGED vars
  BY <1>12, <1>14 DEF TmaStep, LoadDone, StoreRead, vars
<1> QED
  BY <1>1, <1>5, <1>6, <1>7, <1>8, <1>9, <1>10, <1>11, <1>13, <1>14
  DEF Next, ProducerStep, ConsumerStep, Terminated

LEMMA ContentsInit == Init => ContentsOK
<1> SUFFICES ASSUME Init, NEW p \in Pipes, NEW j \in Recent(p) PROVE FALSE
  BY DEF ContentsOK
<1>1. pUses(p) = 0 /\ Stages(p) \in {1, 2}
  BY PipeFacts DEF Init, pUses
<1> QED
  BY <1>1 DEF Recent

\* What the rings and the registers hold, on top of the pipelines.
OperandsInv ==
  /\ RingInv /\ AlignInv /\ StartOK /\ ContentsOK
  /\ KeysClear => LastOK /\ RegistersOK

LEMMA OperandsInit == Init => OperandsInv
<1>1. Init => LastOK
  BY DEF Init, LastOK, In, Sections
<1> QED
  BY <1>1, RingInit, AlignInit, StartInit, ContentsInit, RegistersInit
  DEF OperandsInv

LEMMA OperandsStep == OperandsInv /\ [Next]_vars => OperandsInv'
<1> SUFFICES ASSUME OperandsInv, [Next]_vars PROVE OperandsInv'
  OBVIOUS
<1>1. RingInv' /\ AlignInv' /\ StartOK'
  BY RingStep, AlignStep, StartStep DEF OperandsInv
<1>2. ContentsOK'
  BY <1>1, ContentsStep DEF OperandsInv
<1>3. KeysClear => LastOK'
  BY LastStep DEF OperandsInv
<1>4. ReadsOK
  BY ReadsFollow DEF OperandsInv
<1>5. ReadsOK'
  <2>1. (KeysClear => LastOK)'
    BY <1>3
  <2> QED
    BY <1>1, <1>2, <2>1, ReadsFollow, PTL
<1>6. KeysClear => RegistersOK'
  BY <1>1, <1>4, <1>5, RegistersStep DEF OperandsInv
<1> QED
  BY <1>1, <1>2, <1>3, <1>6 DEF OperandsInv

\* The blocks a warp has attended to.
LEMMA ProgressFacts ==
  ASSUME RingInv, NEW w \in Warps
  PROVE  /\ cTile[w] = pTile /\ pTile \in Nat
         /\ Progress(w) \in Nat /\ Progress(w) <= k_blocks(pTile)
         /\ cpc[w] \in Past => Progress(w) = k_blocks(pTile)
<1>1. /\ cTile[w] = pTile /\ pTile \in Nat /\ cI[w] \in Nat
      /\ cpc[w] \in CPcs /\ k_blocks(pTile) \in Nat \ {0}
      /\ cpc[w] \in AtQ \cup {"done"} => cI[w] = 0
      /\ cpc[w] \in AtK \cup AtV => cI[w] < k_blocks(pTile)
      /\ cpc[w] \in Past => cI[w] = k_blocks(pTile)
  BY TileFacts DEF RingInv, PipesInv, LoopsInv, ConsumerOK, FlashTypes
<1>2. CASE cpc[w] = "relV"
  BY <1>1, <1>2 DEF Progress, AtV, Past
<1>3. CASE cpc[w] # "relV"
  <2>1. Progress(w) = cI[w]
    BY <1>1, <1>3 DEF Progress
  <2> QED
    BY <1>1, <2>1 DEF Past
<1> QED
  BY <1>2, <1>3

LEMMA IntactFollows ==
  ASSUME RingInv, RegistersOK
  PROVE  OperandsIntact
<1> SUFFICES ASSUME NEW w \in Warps
             PROVE  /\ acc[w] = SubSeq(FullAcc(cTile[w]), 1, Len(acc[w]))
                    /\ cpc[w] = "stats" => acc[w] = FullAcc(cTile[w])
  BY DEF OperandsIntact
<1>1. PICK n \in Nat : n = Progress(w)
  BY ProgressFacts
<1>2. /\ cTile[w] = pTile /\ pTile \in Nat /\ n <= k_blocks(pTile)
      /\ cpc[w] = "stats" => n = k_blocks(pTile)
  BY <1>1, ProgressFacts DEF Past, CPcs, AtQ, AtK, AtV
<1>3. acc[w] = SumTo(pTile, n)
  BY <1>1, <1>2 DEF RegistersOK
<1>4. Len(acc[w]) = n
  BY <1>3, SumFacts
<1>5. FullAcc(pTile) = SumTo(pTile, k_blocks(pTile)) /\ k_blocks(pTile) \in Nat
  BY <1>2, AttendedFacts DEF Total
<1>6. SumTo(pTile, n) = SubSeq(SumTo(pTile, k_blocks(pTile)), 1, n)
  BY <1>2, <1>5, SumFacts
<1> QED
  BY <1>2, <1>3, <1>4, <1>5, <1>6

\* With two or more columns of warps, or one and odd numbers of key blocks,
\* every warp multiplies the blocks of its own tile, each once and in order, and
\* has all of them when it normalises.
THEOREM FlashOperandsIntact ==
  ASSUME KeysClear
  PROVE  Spec => []OperandsIntact
<1>1. OperandsInv => OperandsIntact
  BY IntactFollows DEF OperandsInv
<1> QED
  BY <1>1, OperandsInit, OperandsStep, PTL DEF Spec

-----------------------------------------------------------------------------
(* The output in shared memory.                                            *)

\* Places in sO: one for each partial output, and one at least.
OutputTiles == IF WARPS_N > 1 THEN WARPS_N - 1 ELSE 1
OutputSlots == 0 .. OutputTiles - 1

LEMMA OutputSlotFacts ==
  /\ OutputTiles \in Nat \ {0} /\ 0 \in OutputSlots /\ OutputSlots \subseteq Nat
  /\ \A n \in Nat : 0 < n /\ n < WARPS_N => n - 1 \in OutputSlots
BY ShapeFacts DEF OutputTiles, OutputSlots

\* The partial outputs and the output tile lie in the shared memory.
LEMMA OutputFits ==
  ASSUME NEW s \in OutputSlots
  PROVE  /\ Base("O", s) \in Nat /\ Base("O", 0) = 0
         /\ CellsOf("O", s, AllRows("O")) \subseteq Cells
<1>1. Base("O", s) = q_size * s /\ s \in Nat /\ q_size * s \in Nat
      /\ Base("O", 0) = q_size * 0 /\ q_size * 0 = 0
  BY OutputSlotFacts, LayoutFacts DEF Base
<1>2. QKVO_size \in Nat /\ O_size <= QKVO_size /\ O_size = q_size * OutputTiles
  <2>1. OutputTiles \in Nat /\ O_size = OutputTiles * q_size
    BY OutputSlotFacts DEF O_size, OutputTiles
  <2>2. O_size \in Nat /\ O_size = q_size * OutputTiles
    BY <2>1, LayoutFacts
  <2>3. QKV_size \in Nat
    BY LayoutFacts DEF QKV_size
  <2> QED
    BY <2>2, <2>3 DEF QKVO_size
<1>3. q_size * s + q_size <= q_size * OutputTiles
  <2>1. s + 1 <= OutputTiles /\ OutputTiles \in Nat
    BY OutputSlotFacts DEF OutputSlots
  <2>2. q_size * (s + 1) <= q_size * OutputTiles
    BY <1>1, <2>1, LayoutFacts
  <2>3. q_size * (s + 1) = q_size * s + q_size
    BY <1>1, LayoutFacts
  <2> QED
    BY <2>2, <2>3
<1>4. ASSUME NEW r \in AllRows("O") PROVE Base("O", s) + r \in Cells
  <2> DEFINE b == q_size * s
             o == q_size * OutputTiles
  <2>1. /\ b \in Nat /\ b + q_size <= o /\ o <= QKVO_size /\ o \in Nat
        /\ Base("O", s) = b
    BY <1>1, <1>2, <1>3, OutputSlotFacts, LayoutFacts
  <2> HIDE DEF b, o
  <2> QED
    BY <1>2, <2>1, LayoutFacts, RowFacts DEF Cells
<1> QED
  BY <1>1, <1>4 DEF CellsOf

\* Different warps have different places for their rows.
LEMMA OutputApart ==
  ASSUME NEW s \in Nat, NEW t \in Nat, NEW m, NEW n, s # t \/ m # n
  PROVE  CellsOf("O", s, RowsOfM(m)) \cap CellsOf("O", t, RowsOfM(n)) = {}
<1> SUFFICES ASSUME NEW r \in RowsOfM(m), NEW u \in RowsOfM(n),
                    Base("O", s) + r = Base("O", t) + u
             PROVE  FALSE
  BY DEF CellsOf
<1>1. Base("O", s) = q_size * s /\ Base("O", t) = q_size * t
  BY DEF Base
<1>2. /\ r \in 0 .. q_size - 1 /\ u \in 0 .. q_size - 1
      /\ r \div (kBlockM \div WARPS_M) = m /\ u \div (kBlockM \div WARPS_M) = n
  BY DEF RowsOfM, q_size
<1>3. q_size * s + r = q_size * t + u
  BY <1>1
<1>4. s = t /\ r = u
  BY <1>2, <1>3, LayoutFacts, DivisionUnique
<1> QED
  BY <1>2, <1>4

\* The warps of a row, column by column.
LEMMA RowPeersFacts ==
  ASSUME NEW w \in Warps, NEW n \in 1 .. WARPS_N
  PROVE  RowPeers(w)[n] \in Warps
<1> DEFINE m == warp_m(w)
           v == m + WARPS_M * (n - 1)
<1>1. m \in 0 .. WARPS_M - 1
  BY WarpFacts DEF TileRows
<1>2. RowPeers(w)[n] = v
  BY DEF RowPeers
<1> HIDE DEF m
<1>3. v \in Nat /\ v < WARPS_M * WARPS_N
  <2>1. n - 1 \in Nat /\ n - 1 <= WARPS_N - 1
    BY ShapeFacts
  <2>2. WARPS_M * (n - 1) <= WARPS_M * (WARPS_N - 1)
    BY <2>1, ShapeFacts
  <2>3. WARPS_M * (WARPS_N - 1) = WARPS_M * WARPS_N - WARPS_M
    BY ShapeFacts
  <2>4. WARPS_M * (n - 1) \in Nat /\ WARPS_M * WARPS_N \in Nat
    BY <2>1, ShapeFacts
  <2> QED
    BY <1>1, <2>2, <2>3, <2>4, ShapeFacts
<1> HIDE DEF v
<1>4. WARPS_M * WARPS_N \in Nat
  BY ShapeFacts
<1> QED
  BY <1>2, <1>3, <1>4 DEF Warps

\* A warp's own output and those of the other columns are the whole row.
LEMMA WholeRowFacts ==
  ASSUME NEW x
  PROVE  <<x>> \o [n \in 1 .. WARPS_N - 1 |-> x] = [n \in 1 .. WARPS_N |-> x]
<1> DEFINE f == [n \in 1 .. WARPS_N - 1 |-> x]
           g == [n \in 1 .. WARPS_N |-> x]
<1>1. WARPS_N \in Nat \ {0}
  BY ShapeFacts
<1>2. <<x>> \in Seq({x}) /\ f \in Seq({x}) /\ Len(<<x>>) = 1
      /\ Len(f) = WARPS_N - 1
  <2>1. f \in [1 .. WARPS_N - 1 -> {x}] /\ WARPS_N - 1 \in Nat
    BY <1>1
  <2> QED
    BY <2>1
<1> HIDE DEF f
<1>3. /\ <<x>> \o f \in Seq({x}) /\ Len(<<x>> \o f) = WARPS_N
  BY <1>1, <1>2
<1>4. <<x>> \o f = [n \in 1 .. WARPS_N |-> (<<x>> \o f)[n]]
  BY <1>3
<1>5. \A n \in 1 .. WARPS_N : (<<x>> \o f)[n] = x
  BY <1>3
<1>6. [n \in 1 .. WARPS_N |-> (<<x>> \o f)[n]] = g
  BY <1>5
<1> QED
  BY <1>4, <1>6 DEF f

-----------------------------------------------------------------------------
(* Steps of a single warp.                                                 *)

\* What the step of a warp does to the statistics and results.
LEMMA WarpData ==
  ASSUME FlashTypes, NEW w \in Warps,
         ConsumerStep(w) \/ (w = Leader /\ LeaderStep)
  PROVE  /\ \A v \in Warps \ {w} : /\ rowStats'[v] = rowStats[v]
                                   /\ result'[v] = result[v]
         /\ rowStats'[w] = IF cpc[w] = "stats" /\ WARPS_N # 1
                           THEN acc[w] ELSE rowStats[w]
         /\ cpc[w] = "stats" /\ WARPS_N = 1 =>
              result'[w] = << <<acc[w], <<acc[w]>> >> >>
         /\ cpc[w] = "normalize" =>
              result'[w] = << <<acc[w], [n \in 1 .. WARPS_N |->
                                           rowStats[RowPeers(w)[n]]]>> >>
         /\ cpc[w] = "reduce" =>
              result'[w] = result[w] \o [n \in 1 .. WARPS_N - 1 |-> Partial(w, n)]
         /\ cpc[w] \notin {"stats", "normalize", "reduce"} =>
              result'[w] = result[w]
         /\ cTile' = cTile
<1>1. DOMAIN rowStats = Warps /\ DOMAIN result = Warps
  BY DEF FlashTypes
<1>2. CASE ReadQ(w) \/ ReadK(w) \/ MultiplyK(w) \/ ReleaseQK(w) \/ ReadV(w)
  BY <1>2 DEF ReadQ, ReadK, MultiplyK, ReleaseQK, ReadV, evars
<1>3. CASE ReleaseV(w)
  BY <1>3 DEF ReleaseV, evars
<1>4. CASE NormalizeStats(w)
  BY <1>1, <1>4 DEF NormalizeStats
<1>5. CASE NormalizeRow(w)
  BY <1>1, <1>5 DEF NormalizeRow, evars
<1>6. CASE WritePartial(w)
  BY <1>6 DEF WritePartial, evars
<1>7. CASE ReducePartials(w)
  BY <1>1, <1>7 DEF ReducePartials, evars
<1>8. CASE WriteO(w) \/ FenceO(w)
  BY <1>8 DEF WriteO, FenceO
<1>9. CASE w = Leader /\ LeaderStep
  BY <1>9 DEF LeaderStep, StoreO, DrainO, evars
<1> QED
  BY <1>2, <1>3, <1>4, <1>5, <1>6, <1>7, <1>8, <1>9 DEF ConsumerStep

WarpStep(w) == ConsumerStep(w) \/ (w = Leader /\ LeaderStep)

\* Where the output is looked at.
DataInv ==
  KeysClear /\ RingInv /\ AlignInv /\ StartOK /\ RegistersOK /\ OutputInv

\* What an accumulator holds after the main loop.
LEMMA PastTotal ==
  ASSUME RingInv, RegistersOK, NEW w \in Warps, cpc[w] \in Past
  PROVE  acc[w] = Total(pTile) /\ cTile[w] = pTile
BY ProgressFacts DEF RegistersOK, Total

LEMMA WarpStepTable ==
  ASSUME DataInv, NEW w \in Warps, WarpStep(w)
  PROVE  /\ \A v \in Warps \ {w} : /\ cpc'[v] = cpc[v]
                                   /\ rowStats'[v] = rowStats[v]
                                   /\ result'[v] = result[v]
         /\ <<cpc[w], cpc'[w]>> \in WarpMoves
         /\ cTile' = cTile /\ pTile' = pTile /\ gO' = gO
         /\ cpc[w] = "stats" => (cpc'[w] = "writeO" <=> WARPS_N = 1)
         /\ cpc[w] = "normalize" => (cpc'[w] = "partial" <=> warp_n(w) > 0)
<1>1. FlashTypes /\ (ConsumerStep(w) \/ (w = Leader /\ LeaderStep))
  BY DEF WarpStep, DataInv, RingInv, PipesInv
<1>2. /\ \A v \in Warps \ {w} : cpc'[v] = cpc[v]
      /\ <<cpc[w], cpc'[w]>> \in WarpMoves
      /\ cpc[w] = "stats" => (cpc'[w] = "writeO" <=> WARPS_N = 1)
      /\ cpc[w] = "normalize" => (cpc'[w] = "partial" <=> warp_n(w) > 0)
      /\ pTile' = pTile /\ gO' = gO
  BY <1>1, WarpSteps
<1>3. /\ \A v \in Warps \ {w} : /\ rowStats'[v] = rowStats[v]
                                /\ result'[v] = result[v]
      /\ cTile' = cTile
  BY <1>1, WarpData
<1> QED
  BY <1>2, <1>3

LEMMA WarpStepStats ==
  ASSUME DataInv, NEW w \in Warps, WarpStep(w)
  PROVE  StatsOK'
<1> SUFFICES ASSUME NEW x \in Warps,
                    cpc'[x] \in {"barStats", "normalize", "partial", "barReduce"}
             PROVE  rowStats'[x] = Total(cTile'[x])
  BY DEF StatsOK, In, Sections
<1>1. /\ \A v \in Warps \ {w} : /\ cpc'[v] = cpc[v]
                                /\ rowStats'[v] = rowStats[v]
      /\ <<cpc[w], cpc'[w]>> \in WarpMoves /\ cTile' = cTile
      /\ cpc[w] = "stats" => (cpc'[w] = "writeO" <=> WARPS_N = 1)
  BY WarpStepTable
<1>2. cpc[x] \in {"barStats", "normalize", "partial", "barReduce"} =>
        rowStats[x] = Total(cTile[x])
  BY DEF DataInv, OutputInv, StatsOK, In, Sections
<1>3. CASE x # w
  BY <1>1, <1>2, <1>3
<1>4. CASE x = w
  <2>1. rowStats'[w] = IF cpc[w] = "stats" /\ WARPS_N # 1
                       THEN acc[w] ELSE rowStats[w]
    BY WarpData DEF DataInv, RingInv, PipesInv, WarpStep
  <2>2. CASE cpc[w] = "stats"
    <3>1. cpc[w] \in Past
      BY <2>2 DEF Past, CPcs, AtQ, AtK, AtV
    <3> QED
      BY <1>1, <1>4, <2>1, <2>2, <3>1, PastTotal DEF DataInv
  <2>3. CASE cpc[w] # "stats"
    BY <1>1, <1>2, <1>4, <2>1, <2>3 DEF WarpMoves
  <2> QED
    BY <2>2, <2>3
<1> QED
  BY <1>3, <1>4

\* The statistics a warp normalises with are those of its row.
LEMMA NormalizeFacts ==
  ASSUME DataInv, NEW w \in Warps, cpc[w] = "normalize"
  PROVE  <<acc[w], [n \in 1 .. WARPS_N |-> rowStats[RowPeers(w)[n]]]>>
           = Column(cTile[w])
<1>1. cpc[w] \in Past /\ In(w, "partials") /\ WARPS_N # 1
  BY DEF Past, CPcs, AtQ, AtK, AtV, In, Sections, DataInv, AlignInv, RolesOK
<1>2. acc[w] = Total(pTile) /\ cTile[w] = pTile
  BY <1>1, PastTotal DEF DataInv
<1>3. ASSUME NEW v \in Warps PROVE rowStats[v] = Total(pTile)
  <2>1. In(v, "partials")
    BY <1>1, SectionFacts, SameFacts DEF DataInv, AlignInv, AlignOK
  <2>2. cTile[v] = pTile
    BY DEF DataInv, RingInv, LoopsInv, ConsumerOK
  <2> QED
    BY <2>1, <2>2 DEF DataInv, OutputInv, StatsOK
<1>4. \A n \in 1 .. WARPS_N : rowStats[RowPeers(w)[n]] = Total(pTile)
  BY <1>3, RowPeersFacts
<1>5. [n \in 1 .. WARPS_N |-> rowStats[RowPeers(w)[n]]]
        = [n \in 1 .. WARPS_N |-> Total(pTile)]
  BY <1>4
<1> QED
  BY <1>2, <1>5 DEF Column

\* A partial output is found where its warp left it.
LEMMA PartialFacts ==
  ASSUME DataInv, NEW w \in Warps, cpc[w] = "reduce",
         NEW n \in 1 .. WARPS_N - 1
  PROVE  Partial(w, n) = Column(cTile[w])
<1>1. warp_n(w) = 0 /\ w = warp_m(w) /\ warp_m(w) \in TileRows /\ WARPS_N # 1
  BY FirstColumn, WarpFacts, ShapeFacts DEF DataInv, AlignInv, RolesOK
<1> DEFINE v == WARPS_M * n + warp_m(w)
<1>2. v \in Warps /\ warp_n(v) = n /\ warp_m(v) = warp_m(w)
  <2> DEFINE m == warp_m(w)
  <2>1. m \in 0 .. WARPS_M - 1 /\ n \in Nat /\ n <= WARPS_N - 1
    BY <1>1, ShapeFacts DEF TileRows
  <2> HIDE DEF m
  <2>2. WARPS_M * n + m \in Nat /\ WARPS_M * n + m < WARPS_M * WARPS_N
        /\ WARPS_M * WARPS_N \in Nat
    <3>1. WARPS_M * n <= WARPS_M * (WARPS_N - 1)
      BY <2>1, ShapeFacts
    <3>2. WARPS_M * (WARPS_N - 1) = WARPS_M * WARPS_N - WARPS_M
      BY ShapeFacts
    <3>3. WARPS_M * n \in Nat /\ WARPS_M * WARPS_N \in Nat
      BY <2>1, ShapeFacts
    <3> QED
      BY <2>1, <3>1, <3>2, <3>3, ShapeFacts
  <2>3. v = WARPS_M * n + m
    BY DEF m
  <2> HIDE DEF v
  <2>4. v \in Warps
    <3> DEFINE k == WARPS_M * WARPS_N
    <3>1. k \in Nat /\ v \in Nat /\ v < k
      BY <2>2, <2>3
    <3> HIDE DEF k
    <3>2. v \in 0 .. k - 1
      BY <3>1
    <3> QED
      BY <3>2 DEF k, Warps
  <2>5. /\ v = WARPS_M * warp_n(v) + warp_m(v) /\ warp_n(v) \in Nat
        /\ warp_m(v) \in 0 .. WARPS_M - 1
    BY <2>4, WarpFacts DEF TileRows
  <2>6. WARPS_M * warp_n(v) + warp_m(v) = WARPS_M * n + m
    BY <2>3, <2>5
  <2>7. WARPS_M \in Nat \ {0} /\ warp_n(v) \in Int /\ n \in Int
    BY <2>1, <2>5, ShapeFacts
  <2>8. warp_n(v) = n /\ warp_m(v) = m
    BY <2>1, <2>5, <2>6, <2>7, DivisionUnique
  <2> QED
    BY <2>4, <2>8 DEF m
<1> HIDE DEF v
<1>3. In(v, "writing") /\ cTile[v] = pTile /\ cTile[w] = pTile
  <2>1. In(w, "writing")
    BY DEF In, Sections
  <2> QED
    BY <1>1, <1>2, <2>1, SectionFacts, SameFacts
    DEF DataInv, AlignInv, AlignOK, RingInv, LoopsInv, ConsumerOK
<1>4. Holds("O", n - 1, RowsOfM(warp_m(w)), <<"O", << Column(pTile) >> >>)
  <2>1. warp_n(v) > 0
    BY <1>2
  <2>2. Holds("O", warp_n(v) - 1, RowsOfM(warp_m(v)),
              <<"O", << Column(cTile[v]) >> >>)
    BY <1>1, <1>2, <1>3, <2>1 DEF DataInv, OutputInv, PartialsOK
  <2> QED
    BY <1>2, <1>3, <2>2
<1>5. Read("O", n - 1, RowsOfM(warp_m(w))) = <<"O", << Column(pTile) >> >>
  BY <1>4, PartsFacts, ReadHolds
<1>6. <<"O", << Column(pTile) >> >> # Torn
  <2>1. pTile \in Tiles
    <3>1. cpc[w] # "done" /\ pTile \in Nat
      BY DEF DataInv, RingInv, PipesInv, FlashTypes
    <3>2. ~ (pTile >= tiles_num) /\ tiles_num \in Nat
      BY <3>1, TileFacts DEF DataInv, RingInv, LoopsInv, ProducerOK, ConsumerOK
    <3> QED
      BY <3>1, <3>2 DEF Tiles
  <2>2. ColumnResult(pTile) = Column(pTile)
    <3>1. pTile \in Nat
      BY <2>1 DEF Tiles
    <3> QED
      BY <3>1, AttendedFacts DEF ColumnResult, Column
  <2> QED
    BY <2>1, <2>2, TornAssumption
<1> QED
  BY <1>3, <1>5, <1>6 DEF Partial

LEMMA WarpStepResults ==
  ASSUME DataInv, RolesOK', NEW w \in Warps, WarpStep(w)
  PROVE  ResultsOK'
<1> SUFFICES ASSUME NEW x \in Warps
             PROVE  /\ cpc'[x] \in {"partial", "barReduce", "reduce"} =>
                         result'[x] = << Column(cTile'[x]) >>
                    /\ cpc'[x] = "writeO" => result'[x] = WholeRow(cTile'[x])
  BY DEF ResultsOK
<1>1. /\ \A v \in Warps \ {w} : /\ cpc'[v] = cpc[v]
                                /\ result'[v] = result[v]
      /\ <<cpc[w], cpc'[w]>> \in WarpMoves /\ cTile' = cTile
      /\ cpc[w] = "stats" => (cpc'[w] = "writeO" <=> WARPS_N = 1)
  BY WarpStepTable
<1>2. /\ cpc[x] \in {"partial", "barReduce", "reduce"} =>
           result[x] = << Column(cTile[x]) >>
      /\ cpc[x] = "writeO" => result[x] = WholeRow(cTile[x])
  BY DEF DataInv, OutputInv, ResultsOK
<1>3. /\ cpc[w] = "stats" /\ WARPS_N = 1 =>
           result'[w] = << <<acc[w], <<acc[w]>> >> >>
      /\ cpc[w] = "normalize" =>
           result'[w] = << <<acc[w], [n \in 1 .. WARPS_N |->
                                        rowStats[RowPeers(w)[n]]]>> >>
      /\ cpc[w] = "reduce" =>
           result'[w] = result[w] \o [n \in 1 .. WARPS_N - 1 |-> Partial(w, n)]
      /\ cpc[w] \notin {"stats", "normalize", "reduce"} => result'[w] = result[w]
  BY WarpData DEF DataInv, RingInv, PipesInv, WarpStep
<1>4. CASE x # w
  BY <1>1, <1>2, <1>4
<1>5. CASE x = w /\ cpc[w] = "normalize"
  <2>1. result'[w] = << Column(cTile[w]) >>
    BY <1>3, <1>5, NormalizeFacts
  <2>2. cpc'[w] \in {"partial", "barReduce"}
    BY <1>1, <1>5 DEF WarpMoves
  <2> QED
    BY <1>1, <1>5, <2>1, <2>2
<1>6. CASE x = w /\ cpc[w] = "reduce"
  <2>1. \A n \in 1 .. WARPS_N - 1 : Partial(w, n) = Column(cTile[w])
    BY <1>6, PartialFacts
  <2>2. [n \in 1 .. WARPS_N - 1 |-> Partial(w, n)]
          = [n \in 1 .. WARPS_N - 1 |-> Column(cTile[w])]
    BY <2>1
  <2>3. result'[w] = WholeRow(cTile[w])
    <3>1. result[w] = << Column(cTile[w]) >>
      BY <1>2, <1>6
    <3>2. result'[w] = << Column(cTile[w]) >>
                         \o [n \in 1 .. WARPS_N - 1 |-> Column(cTile[w])]
      BY <1>3, <1>6, <2>2, <3>1, Zenon
    <3> QED
      BY <3>2, WholeRowFacts, Zenon DEF WholeRow
  <2>4. cpc'[w] = "writeO"
    BY <1>1, <1>6 DEF WarpMoves
  <2> QED
    BY <1>1, <1>6, <2>3, <2>4
<1>7. CASE x = w /\ cpc[w] = "stats"
  <2>1. CASE WARPS_N # 1
    BY <1>1, <1>7, <2>1 DEF WarpMoves
  <2>2. CASE WARPS_N = 1
    <3>1. cpc[w] \in Past
      BY <1>7 DEF Past, CPcs, AtQ, AtK, AtV
    <3>2. result'[w] = << <<Total(cTile[w]), <<Total(cTile[w])>> >> >>
      BY <1>3, <1>7, <2>2, <3>1, PastTotal DEF DataInv
    <3>3. \A y : <<y>> = [n \in 1 .. WARPS_N |-> y]
      BY <2>2
    <3>4. result'[w] = WholeRow(cTile[w])
      <4>1. <<Total(cTile[w]), <<Total(cTile[w])>> >> = Column(cTile[w])
        BY <3>3, Zenon DEF Column
      <4> QED
        BY <3>2, <3>3, <4>1, Zenon DEF WholeRow
    <3>5. cpc'[w] = "writeO"
      BY <1>1, <1>7, <2>2
    <3> QED
      BY <1>1, <1>7, <3>4, <3>5
  <2> QED
    BY <2>1, <2>2
<1>8. CASE x = w /\ cpc[w] \notin {"stats", "normalize", "reduce"}
  BY <1>1, <1>2, <1>3, <1>8 DEF WarpMoves
<1> QED
  BY <1>4, <1>5, <1>6, <1>7, <1>8

\* The rows a warp writes are in place, and those of other places untouched.
LEMMA OutputWritten ==
  ASSUME NEW s \in OutputSlots, NEW w \in Warps, NEW data,
         mem' = Written("O", s, RowsOfM(warp_m(w)), data)
  PROVE  /\ Holds("O", s, RowsOfM(warp_m(w)), data)'
         /\ \A t \in OutputSlots, v \in Warps : \A other :
              /\ s # t \/ warp_m(w) # warp_m(v)
              /\ Holds("O", t, RowsOfM(warp_m(v)), other)
              => Holds("O", t, RowsOfM(warp_m(v)), other)'
<1>1. \A t \in OutputSlots :
        Base("O", t) \in Nat /\ CellsOf("O", t, AllRows("O")) \subseteq Cells
  BY OutputFits
<1>2. ASSUME NEW v \in Warps
      PROVE  /\ RowsOfM(warp_m(v)) \subseteq Nat
             /\ \A t \in OutputSlots :
                  CellsOf("O", t, RowsOfM(warp_m(v))) \subseteq Cells
  <2>1. RowsOfM(warp_m(v)) \subseteq AllRows("O") /\ AllRows("O") \subseteq Nat
    BY PartsFacts, RowFacts, LayoutFacts
  <2> QED
    BY <1>1, <2>1, CellsMonotone
<1>3. /\ Holds("O", s, RowsOfM(warp_m(w)), data)'
      /\ \A c \in Cells \ CellsOf("O", s, RowsOfM(warp_m(w))) : mem'[c] = mem[c]
  BY <1>1, <1>2, WrittenFacts
<1>4. ASSUME NEW t \in OutputSlots, NEW v \in Warps, NEW other,
             s # t \/ warp_m(w) # warp_m(v),
             Holds("O", t, RowsOfM(warp_m(v)), other)
      PROVE  Holds("O", t, RowsOfM(warp_m(v)), other)'
  <2>1. s \in Nat /\ t \in Nat
    BY OutputSlotFacts
  <2>2. CellsOf("O", t, RowsOfM(warp_m(v)))
          \cap CellsOf("O", s, RowsOfM(warp_m(w))) = {}
    BY <1>4, <2>1, OutputApart
  <2> QED
    BY <1>2, <1>3, <1>4, <2>2, StillHolds
<1> QED
  BY <1>3, <1>4

LEMMA WarpStepPartials ==
  ASSUME DataInv, RolesOK', AlignOK', NEW w \in Warps, WarpStep(w)
  PROVE  PartialsOK'
<1> DEFINE Kept(x) == \/ cpc[x] = "barReduce"
                      \/ In(x, "writing") /\ cpc[warp_m(x)] = "reduce"
<1> SUFFICES ASSUME NEW x \in Warps, warp_n(x) > 0, Kept(x)'
             PROVE  Holds("O", warp_n(x) - 1, RowsOfM(warp_m(x)),
                          <<"O", << Column(cTile[x]) >> >>)'
  BY DEF PartialsOK
<1>1. /\ \A v \in Warps \ {w} : cpc'[v] = cpc[v]
      /\ <<cpc[w], cpc'[w]>> \in WarpMoves /\ cTile' = cTile
      /\ cpc[w] = "stats" => (cpc'[w] = "writeO" <=> WARPS_N = 1)
      /\ cpc[w] = "normalize" => (cpc'[w] = "partial" <=> warp_n(w) > 0)
  BY WarpStepTable
<1>2. /\ cpc[w] = "partial" =>
           mem' = Written("O", warp_n(w) - 1, RowsOfM(warp_m(w)),
                          <<"O", result[w]>>)
      /\ cpc[w] = "writeO" =>
           mem' = Written("O", 0, RowsOfM(warp_m(w)), <<"O", result[w]>>)
      /\ cpc[w] \notin {"partial", "writeO"} => mem' = mem
  BY WarpMemory DEF WarpStep
<1>3. /\ warp_n(x) - 1 \in OutputSlots /\ WARPS_N # 1
      /\ warp_m(x) \in Warps /\ warp_m(warp_m(x)) = warp_m(x)
      /\ warp_n(warp_m(x)) = 0
  BY WarpFacts, FirstColumn, OutputSlotFacts, OneColumn, ShapeFacts
<1>4. CASE x = w /\ cpc[w] = "partial"
  <2>1. result[w] = << Column(cTile[w]) >>
    BY <1>4 DEF DataInv, OutputInv, ResultsOK
  <2> QED
    BY <1>1, <1>2, <1>3, <1>4, <2>1, OutputWritten
<1>5. CASE ~ (x = w /\ cpc[w] = "partial")
  <2>1. Kept(x)
    <3>1. CASE cpc'[x] = "barReduce"
      BY <1>1, <1>5, <3>1 DEF WarpMoves
    <3>2. CASE In(x, "writing")' /\ cpc'[warp_m(x)] = "reduce"
      <4>1. cpc[warp_m(x)] = "reduce"
        BY <1>1, <1>3, <3>2 DEF WarpMoves
      <4>2. cpc'[x] \in {"reduce", "writeO", "fenceO", "barO"}
        BY <3>2 DEF In, Sections
      <4>3. cpc[x] \in {"reduce", "writeO", "fenceO", "barO", "stats"}
        BY <1>1, <4>2 DEF WarpMoves
      <4>4. cpc[x] # "stats"
        <5>1. cpc[x] = "stats" => ~ SameSection(x, warp_m(x))
          BY <1>3, <4>1, SectionFacts, SameFacts
        <5> QED
          BY <1>3, <5>1 DEF DataInv, AlignInv, AlignOK
      <4> QED
        BY <4>1, <4>3, <4>4 DEF In, Sections
    <3> QED
      BY <3>1, <3>2
  <2>2. Holds("O", warp_n(x) - 1, RowsOfM(warp_m(x)),
              <<"O", << Column(cTile[x]) >> >>)
    BY <2>1 DEF DataInv, OutputInv, PartialsOK
  <2>3. CASE cpc[w] = "partial"
    <3>1. x # w /\ warp_n(w) > 0
      BY <1>5, <2>3 DEF DataInv, AlignInv, RolesOK
    <3>2. warp_n(w) - 1 \in OutputSlots
      BY <3>1, WarpFacts, OutputSlotFacts
    <3>3. warp_n(w) - 1 # warp_n(x) - 1 \/ warp_m(w) # warp_m(x)
      <4>1. warp_n(w) # warp_n(x) \/ warp_m(w) # warp_m(x)
        BY <3>1, FirstColumn
      <4> QED
        BY <4>1, WarpFacts
    <3> QED
      BY <1>1, <1>2, <1>3, <2>2, <2>3, <3>2, <3>3, OutputWritten
  <2>4. CASE cpc[w] = "writeO"
    <3>1. warp_n(w) = 0 /\ w = warp_m(w)
      BY <2>4, FirstColumn DEF DataInv, AlignInv, RolesOK
    <3>2. warp_m(x) # warp_m(w)
      <4> SUFFICES ASSUME warp_m(x) = warp_m(w) PROVE FALSE
        OBVIOUS
      <4>1. cpc[x] = "barReduce"
        BY <2>1, <2>4, <3>1
      <4>2. ~ SameSection(x, w)
        BY <1>3, <2>4, <4>1, SectionFacts, SameFacts
      <4> QED
        BY <4>2 DEF DataInv, AlignInv, AlignOK
    <3> QED
      BY <1>1, <1>2, <1>3, <2>2, <2>4, <3>2, OutputSlotFacts, OutputWritten
  <2>5. CASE cpc[w] \notin {"partial", "writeO"}
    BY <1>1, <1>2, <2>2, <2>5 DEF Holds
  <2> QED
    BY <2>3, <2>4, <2>5
<1> QED
  BY <1>4, <1>5

LEMMA WarpStepStaged ==
  ASSUME DataInv, NEW w \in Warps, WarpStep(w)
  PROVE  StagedOK'
<1> DEFINE After == {"fenceO", "barO", "store", "drain", "tile"}
<1> SUFFICES ASSUME NEW m \in TileRows, cpc'[m] \in After
             PROVE  Holds("O", 0, RowsOfM(m), <<"O", WholeRow(cTile[m])>>)'
  BY DEF StagedOK, In, Sections, TileRows
<1>1. /\ \A v \in Warps \ {w} : cpc'[v] = cpc[v]
      /\ <<cpc[w], cpc'[w]>> \in WarpMoves /\ cTile' = cTile
  BY WarpStepTable
<1>2. /\ cpc[w] = "partial" =>
           mem' = Written("O", warp_n(w) - 1, RowsOfM(warp_m(w)),
                          <<"O", result[w]>>)
      /\ cpc[w] = "writeO" =>
           mem' = Written("O", 0, RowsOfM(warp_m(w)), <<"O", result[w]>>)
      /\ cpc[w] \notin {"partial", "writeO"} => mem' = mem
  BY WarpMemory DEF WarpStep
<1>3. 0 \in OutputSlots /\ m \in Warps /\ warp_m(m) = m /\ warp_n(m) = 0
  BY FirstColumn, OutputSlotFacts
<1>4. CASE m = w /\ cpc[w] = "writeO"
  <2>1. result[w] = WholeRow(cTile[w])
    BY <1>4 DEF DataInv, OutputInv, ResultsOK
  <2> QED
    BY <1>1, <1>2, <1>3, <1>4, <2>1, OutputWritten
<1>5. CASE ~ (m = w /\ cpc[w] = "writeO")
  <2>1. cpc[m] \in After
    BY <1>1, <1>3, <1>5 DEF WarpMoves
  <2>2. Holds("O", 0, RowsOfM(m), <<"O", WholeRow(cTile[m])>>)
    BY <2>1 DEF DataInv, OutputInv, StagedOK, In, Sections
  <2>3. cpc[w] # "partial"
    <3> SUFFICES ASSUME cpc[w] = "partial" PROVE FALSE
      OBVIOUS
    <3>1. ~ SameSection(m, w)
      BY <2>1, SectionFacts, SameFacts
    <3> QED
      BY <1>3, <3>1 DEF DataInv, AlignInv, AlignOK
  <2>4. CASE cpc[w] = "writeO"
    <3>1. warp_n(w) = 0 /\ w = warp_m(w)
      BY <2>4, FirstColumn DEF DataInv, AlignInv, RolesOK
    <3>2. warp_m(m) # warp_m(w)
      BY <1>3, <1>5, <2>4, <3>1
    <3>3. Holds("O", 0, RowsOfM(warp_m(m)), <<"O", WholeRow(cTile[m])>>)'
      BY <1>1, <1>2, <1>3, <2>2, <2>4, <3>2, OutputWritten
    <3> QED
      BY <1>3, <3>3
  <2>5. CASE cpc[w] # "writeO"
    BY <1>1, <1>2, <2>2, <2>3, <2>5 DEF Holds
  <2> QED
    BY <2>4, <2>5
<1> QED
  BY <1>4, <1>5

LEMMA WarpStepStored ==
  ASSUME DataInv, NEW w \in Warps, WarpStep(w)
  PROVE  OutputOK'
<1>1. /\ \A v \in Warps \ {w} : cpc'[v] = cpc[v]
      /\ <<cpc[w], cpc'[w]>> \in WarpMoves
      /\ cTile' = cTile /\ pTile' = pTile /\ gO' = gO
  BY WarpStepTable
<1>2. /\ cpc[w] # "store" => stores' = stores
      /\ cpc[w] = "store" =>
           w = Leader /\ stores' = stores \cup [tile : {cTile[Leader]},
                                                row : TileRows]
  <2>1. CASE w = Leader /\ LeaderStep
    BY <2>1 DEF LeaderStep, StoreO, DrainO, evars
  <2>2. CASE ReadQ(w) \/ ReadK(w) \/ MultiplyK(w) \/ ReleaseQK(w) \/ ReadV(w)
    BY <2>2 DEF ReadQ, ReadK, MultiplyK, ReleaseQK, ReadV, evars
  <2>3. CASE ReleaseV(w) \/ NormalizeStats(w) \/ NormalizeRow(w)
    BY <2>3 DEF ReleaseV, NormalizeStats, NormalizeRow, evars
  <2>4. CASE WritePartial(w) \/ ReducePartials(w) \/ WriteO(w) \/ FenceO(w)
    BY <2>4 DEF WritePartial, ReducePartials, WriteO, FenceO, evars
  <2> QED
    BY <2>1, <2>2, <2>3, <2>4 DEF WarpStep, ConsumerStep
<1>3. Leader \in Warps /\ cTile[Leader] = pTile /\ pTile \in Nat
      /\ (stores # {} => cpc[Leader] = "drain")
  BY LeaderFacts DEF DataInv, RingInv, PipesInv, FlashTypes, LoopsInv,
     ConsumerOK, AlignInv, StoresOK
<1>4. ASSUME NEW t \in Tiles, NEW m \in TileRows
      PROVE  Stored(t, m)' <=> Stored(t, m)
  <2>1. t \in Nat /\ (t \in Mine)' = (t \in Mine)
    BY DEF Tiles
  <2>2. CASE cpc[w] = "store"
    <3>1. cpc[Leader] = "store" /\ cpc'[Leader] = "drain" /\ stores = {}
      BY <1>1, <1>2, <1>3, <2>2 DEF WarpMoves
    <3>2. Pending(t, m)' <=> t = pTile
      BY <1>1, <1>2, <1>3, <2>2, <3>1 DEF Pending
    <3>3. ~ Pending(t, m)
      BY <3>1 DEF Pending
    <3> QED
      BY <1>1, <1>3, <2>1, <3>1, <3>2, <3>3 DEF Stored
  <2>3. CASE cpc[w] # "store"
    <3>1. cpc'[Leader] \in {"drain", "tile"} <=> cpc[Leader] \in {"drain", "tile"}
      BY <1>1, <1>3, <2>3 DEF WarpMoves
    <3>2. Pending(t, m)' <=> Pending(t, m)
      BY <1>2, <2>3 DEF Pending
    <3> QED
      BY <1>1, <3>1, <3>2 DEF Stored
  <2> QED
    BY <2>2, <2>3
<1>5. ASSUME NEW t \in Tiles, NEW m \in TileRows
      PROVE  gO'[<<t, m>>]
               = IF Stored(t, m)' THEN << <<"O", WholeRow(t)>> >> ELSE << >>
  BY <1>1, <1>4 DEF DataInv, OutputInv, OutputOK
<1>6. Tiles' = Tiles /\ TileRows' = TileRows
  BY DEF Tiles, TileRows
<1> QED
  BY <1>5, <1>6 DEF OutputOK

LEMMA WarpStepOutput ==
  ASSUME DataInv, AlignInv', NEW w \in Warps, WarpStep(w)
  PROVE  OutputInv'
<1>1. RolesOK' /\ AlignOK'
  BY DEF AlignInv
<1> QED
  BY <1>1, WarpStepStats, WarpStepResults, WarpStepPartials,
     WarpStepStaged, WarpStepStored DEF OutputInv

-----------------------------------------------------------------------------
(* Steps of all warps, of the producer and of the TMA unit.                *)

LEMMA BarSyncOutput ==
  ASSUME DataInv, BarSync
  PROVE  OutputInv'
<1>1. /\ UNCHANGED <<mem, cTile, pTile, rowStats, result, stores, gO>>
      /\ \A w \in Warps : AtBarSync(w) /\ cpc'[w] = AfterBarSync(w)
  BY DEF BarSync, AllAtBarSync, pvars, evars
<1>2. \A v, w \in Warps : cpc[v] = cpc[w]
  BY <1>1, SameCall DEF DataInv, AlignInv
<1>3. ASSUME NEW w \in Warps
      PROVE  /\ cpc[w] \in {"barStats", "barReduce", "barO"}
             /\ cpc[w] = "barStats" => cpc'[w] = "normalize"
             /\ cpc[w] = "barReduce" =>
                  cpc'[w] = IF warp_n(w) = 0 THEN "reduce" ELSE "barO"
             /\ cpc[w] = "barO" =>
                  cpc'[w] = IF w = Leader THEN "store" ELSE "tile"
  BY <1>1 DEF AtBarSync, AfterBarSync
<1>4. StatsOK'
  <2> SUFFICES ASSUME NEW x \in Warps,
                      cpc'[x] \in {"barStats", "normalize", "partial",
                                   "barReduce"}
               PROVE  rowStats'[x] = Total(cTile'[x])
    BY DEF StatsOK, In, Sections
  <2>1. cpc[x] = "barStats"
    BY <1>3
  <2> QED
    BY <1>1, <2>1 DEF DataInv, OutputInv, StatsOK
<1>5. ResultsOK'
  <2> SUFFICES ASSUME NEW x \in Warps
               PROVE  /\ cpc'[x] \in {"partial", "barReduce", "reduce"} =>
                           result'[x] = << Column(cTile'[x]) >>
                      /\ cpc'[x] = "writeO" => result'[x] = WholeRow(cTile'[x])
    BY DEF ResultsOK
  <2>1. cpc'[x] # "writeO"
        /\ (cpc'[x] \in {"partial", "barReduce", "reduce"} => cpc[x] = "barReduce")
    BY <1>3
  <2> QED
    BY <1>1, <2>1 DEF DataInv, OutputInv, ResultsOK
<1>6. PartialsOK'
  <2> SUFFICES ASSUME NEW x \in Warps, warp_n(x) > 0,
                      \/ cpc'[x] = "barReduce"
                      \/ In(x, "writing")' /\ cpc'[warp_m(x)] = "reduce"
               PROVE  Holds("O", warp_n(x) - 1, RowsOfM(warp_m(x)),
                            <<"O", << Column(cTile[x]) >> >>)'
    BY DEF PartialsOK
  <2>1. cpc'[x] # "barReduce" /\ cpc'[warp_m(x)] = "reduce"
    BY <1>3
  <2>2. warp_m(x) \in Warps
    BY WarpFacts, FirstColumn
  <2>3. cpc[x] = "barReduce"
    BY <1>2, <1>3, <2>1, <2>2
  <2>4. Holds("O", warp_n(x) - 1, RowsOfM(warp_m(x)),
              <<"O", << Column(cTile[x]) >> >>)
    BY <2>3 DEF DataInv, OutputInv, PartialsOK
  <2> QED
    BY <1>1, <2>4 DEF Holds
<1>7. StagedOK'
  <2> SUFFICES ASSUME NEW m \in TileRows,
                      cpc'[m] \in {"fenceO", "barO", "store", "drain", "tile"}
               PROVE  Holds("O", 0, RowsOfM(m), <<"O", WholeRow(cTile[m])>>)'
    BY DEF StagedOK, In, Sections, TileRows
  <2>1. m \in Warps /\ warp_n(m) = 0
    BY FirstColumn
  <2>2. cpc[m] = "barO"
    BY <1>3, <2>1
  <2>3. Holds("O", 0, RowsOfM(m), <<"O", WholeRow(cTile[m])>>)
    BY <2>2 DEF DataInv, OutputInv, StagedOK
  <2> QED
    BY <1>1, <2>3 DEF Holds
<1>8. OutputOK'
  <2>1. /\ cpc[Leader] \notin {"drain", "tile"}
        /\ cpc'[Leader] \notin {"drain", "tile"}
    BY <1>3, LeaderFacts
  <2>2. \A t, m : Stored(t, m)' <=> Stored(t, m)
    BY <1>1, <2>1 DEF Stored, Pending
  <2> QED
    BY <1>1, <2>2 DEF DataInv, OutputInv, OutputOK
<1> QED
  BY <1>4, <1>5, <1>6, <1>7, <1>8 DEF OutputInv

LEMMA TileSyncOutput ==
  ASSUME DataInv, TileSync
  PROVE  OutputInv'
<1>1. /\ UNCHANGED <<mem, rowStats, result, stores, gO>>
      /\ pTile' = pTile + GridDim
      /\ \A w \in Warps : cpc[w] = "tile" /\ cpc'[w] \in {"Q", "done"}
  BY DEF TileSync, AllAtTile, Resume, NextTile, evars
<1>2. \A m \in TileRows : m \in Warps
  BY FirstColumn
<1>3. StatsOK' /\ ResultsOK'
  BY <1>1 DEF StatsOK, ResultsOK, In, Sections
<1>4. PartialsOK'
  <2> SUFFICES ASSUME NEW x \in Warps,
                      cpc'[x] = "barReduce" \/ In(x, "writing")'
               PROVE  FALSE
    BY DEF PartialsOK
  <2> QED
    BY <1>1 DEF In, Sections
<1>5. StagedOK'
  <2> SUFFICES ASSUME NEW m \in TileRows,
                      cpc'[m] \in {"fenceO", "barO", "store", "drain", "tile"}
               PROVE  FALSE
    BY DEF StagedOK, In, Sections, TileRows
  <2> QED
    BY <1>1, <1>2
<1>6. /\ pTile \in Nat /\ GridDim \in Nat \ {0} /\ pTile % GridDim = BlockIdx
      /\ cpc[Leader] = "tile" /\ stores = {}
      /\ cpc'[Leader] \notin {"drain", "tile"}
  BY <1>1, LeaderFacts, ShapeFacts DEF DataInv, RingInv, PipesInv, FlashTypes,
     StartOK, AlignInv, StoresOK
<1>7. OutputOK'
  <2>1. ASSUME NEW t \in Tiles, NEW m \in TileRows
        PROVE  Stored(t, m)' <=> Stored(t, m)
    <3>1. t \in Nat /\ (t \in Mine => t % GridDim = BlockIdx)
          /\ (t \in Mine)' = (t \in Mine)
      BY DEF Tiles, Mine
    <3>2. ~ Pending(t, m) /\ ~ Pending(t, m)'
      BY <1>1, <1>6 DEF Pending
    <3>3. /\ Stored(t, m) <=> t \in Mine /\ t < pTile + 1
          /\ Stored(t, m)' <=> t \in Mine /\ t < pTile + GridDim
      BY <1>1, <1>6, <3>1, <3>2 DEF Stored
    <3>4. ASSUME t \in Mine, t < pTile + GridDim PROVE t < pTile + 1
      <4>1. CASE pTile < t + GridDim
        <5>1. t = pTile
          BY <1>6, <3>1, <3>4, <4>1, SameRemainder
        <5> QED
          BY <1>6, <5>1
      <4>2. CASE ~ (pTile < t + GridDim)
        BY <1>6, <3>1, <4>2
      <4> QED
        BY <4>1, <4>2
    <3> QED
      BY <1>6, <3>1, <3>3, <3>4
  <2>2. ASSUME NEW t \in Tiles, NEW m \in TileRows
        PROVE  gO'[<<t, m>>]
                 = IF Stored(t, m)' THEN << <<"O", WholeRow(t)>> >> ELSE << >>
    BY <1>1, <2>1 DEF DataInv, OutputInv, OutputOK
  <2>3. Tiles' = Tiles /\ TileRows' = TileRows
    BY DEF Tiles, TileRows
  <2> QED
    BY <2>2, <2>3 DEF OutputOK
<1> QED
  BY <1>3, <1>4, <1>5, <1>7 DEF OutputInv

\* What a store finds and where it leaves it.
LEMMA StoreReadFacts ==
  ASSUME DataInv, NEW st \in stores, StoreRead(st)
  PROVE  /\ st.tile = pTile /\ st.row \in TileRows /\ pTile \in Tiles
         /\ pTile \in Mine
         /\ st = [tile |-> pTile, row |-> st.row]
         /\ gO[<<pTile, st.row>>] = << >>
         /\ gO' = [gO EXCEPT ![<<pTile, st.row>>] =
                     << <<"O", WholeRow(pTile)>> >>]
<1>1. /\ st \in [tile : {cTile[Leader]}, row : TileRows]
      /\ cpc[Leader] = "drain"
      /\ \A w \in Warps : cpc[w] \in {"tile", "drain"}
  BY StoringFacts DEF DataInv, AlignInv, StoresOK
<1>2. /\ st.tile = pTile /\ st.row \in TileRows /\ pTile \in Nat
      /\ st = [tile |-> pTile, row |-> st.row]
  BY <1>1, LeaderFacts DEF DataInv, RingInv, PipesInv, FlashTypes, LoopsInv,
     ConsumerOK
<1>3. pTile \in Tiles /\ pTile \in Mine
  <2>1. ppc # "done"
    BY StoringFacts DEF DataInv
  <2> QED
    BY <2>1, TileIsMine DEF DataInv
<1>4. gO[<<pTile, st.row>>] = << >>
  <2>1. Pending(pTile, st.row)
    BY <1>2 DEF Pending
  <2>2. ~ Stored(pTile, st.row)
    BY <2>1 DEF Stored
  <2> QED
    BY <1>2, <1>3, <2>2 DEF DataInv, OutputInv, OutputOK
<1>5. st.row \in Warps /\ warp_m(st.row) = st.row /\ cTile[st.row] = pTile
  BY <1>2, FirstColumn DEF DataInv, RingInv, LoopsInv, ConsumerOK
<1>6. st.row \notin unfenced
  BY <1>1, <1>5 DEF DataInv, AlignInv, StoresOK
<1>7. Read("O", 0, RowsOfM(st.row)) = <<"O", WholeRow(pTile)>>
  <2>1. In(st.row, "storing")
    BY <1>1, <1>5 DEF In, Sections
  <2>2. Holds("O", 0, RowsOfM(st.row), <<"O", WholeRow(pTile)>>)
    BY <1>2, <1>5, <2>1 DEF DataInv, OutputInv, StagedOK
  <2>3. RowsOfM(st.row) # {}
    BY <1>5, PartsFacts
  <2> QED
    BY <2>2, <2>3, ReadHolds
<1>8. gO' = [gO EXCEPT ![<<pTile, st.row>>] =
               Append(<< >>, <<"O", WholeRow(pTile)>>)]
  BY <1>2, <1>4, <1>6, <1>7 DEF StoreRead
<1>9. Append(<< >>, <<"O", WholeRow(pTile)>>) = << <<"O", WholeRow(pTile)>> >>
  OBVIOUS
<1> QED
  BY <1>2, <1>3, <1>4, <1>8, <1>9

\* The parts of the output change only with their stores.
LEMMA OthersOutput ==
  ASSUME DataInv, UNCHANGED <<cpc, cTile, pTile, rowStats, result>>,
         mem' = mem \/ \A w \in Warps : cpc[w] \notin Past
  PROVE  StatsOK' /\ ResultsOK' /\ PartialsOK' /\ StagedOK'
<1>1. StatsOK' /\ ResultsOK'
  BY DEF DataInv, OutputInv, StatsOK, ResultsOK, In, Sections
<1>2. PartialsOK'
  <2> SUFFICES ASSUME NEW x \in Warps, warp_n(x) > 0,
                      \/ cpc[x] = "barReduce"
                      \/ In(x, "writing") /\ cpc[warp_m(x)] = "reduce"
               PROVE  Holds("O", warp_n(x) - 1, RowsOfM(warp_m(x)),
                            <<"O", << Column(cTile[x]) >> >>)'
    BY DEF PartialsOK, In, Sections
  <2>1. cpc[x] \in Past
    BY DEF In, Sections, Past, CPcs, AtQ, AtK, AtV
  <2>2. Holds("O", warp_n(x) - 1, RowsOfM(warp_m(x)),
              <<"O", << Column(cTile[x]) >> >>)
    BY DEF DataInv, OutputInv, PartialsOK
  <2> QED
    BY <2>1, <2>2 DEF Holds
<1>3. StagedOK'
  <2> SUFFICES ASSUME NEW m \in TileRows,
                      cpc[m] \in {"fenceO", "barO", "store", "drain", "tile"}
               PROVE  Holds("O", 0, RowsOfM(m), <<"O", WholeRow(cTile[m])>>)'
    BY DEF StagedOK, In, Sections, TileRows
  <2>1. cpc[m] \in Past /\ m \in Warps
    BY FirstColumn DEF Past, CPcs, AtQ, AtK, AtV
  <2>2. Holds("O", 0, RowsOfM(m), <<"O", WholeRow(cTile[m])>>)
    BY DEF DataInv, OutputInv, StagedOK, In, Sections
  <2> QED
    BY <2>1, <2>2 DEF Holds
<1> QED
  BY <1>1, <1>2, <1>3

LEMMA StoreReadOutput ==
  ASSUME DataInv, NEW st \in stores, StoreRead(st)
  PROVE  OutputInv'
<1>1. /\ st.tile = pTile /\ st.row \in TileRows /\ pTile \in Tiles
      /\ pTile \in Mine /\ st = [tile |-> pTile, row |-> st.row]
      /\ gO' = [gO EXCEPT ![<<pTile, st.row>>] = << <<"O", WholeRow(pTile)>> >>]
      /\ cpc[Leader] = "drain"
  BY StoreReadFacts, StoringFacts DEF DataInv
<1>2. /\ UNCHANGED <<cpc, cTile, pTile, rowStats, result, mem>>
      /\ stores' = stores \ {st}
  BY DEF StoreRead, pvars, cvars
<1>3. ASSUME NEW t \in Tiles, NEW m \in TileRows
      PROVE  gO'[<<t, m>>]
               = IF Stored(t, m)' THEN << <<"O", WholeRow(t)>> >> ELSE << >>
  <2>1. gO[<<t, m>>] = IF Stored(t, m) THEN << <<"O", WholeRow(t)>> >> ELSE << >>
    BY DEF DataInv, OutputInv, OutputOK
  <2>2. DOMAIN gO = Tiles \X TileRows
    BY DEF DataInv, RingInv, PipesInv, FlashTypes
  <2>3. CASE t = pTile /\ m = st.row
    <3>1. ~ Pending(t, m)'
      BY <1>1, <1>2, <2>3 DEF Pending
    <3>2. t < pTile + 1
      BY <2>3 DEF Tiles
    <3>3. Stored(t, m)'
      BY <1>1, <1>2, <2>3, <3>1, <3>2 DEF Stored, Mine, Tiles
    <3> QED
      BY <1>1, <2>2, <2>3, <3>3
  <2>4. CASE ~ (t = pTile /\ m = st.row)
    <3>1. <<t, m>> # <<pTile, st.row>>
      BY <2>4
    <3>2. gO'[<<t, m>>] = gO[<<t, m>>]
      BY <1>1, <2>2, <3>1
    <3>3. [tile |-> t, row |-> m] # st
      BY <1>1, <2>4
    <3>4. Pending(t, m)' <=> Pending(t, m)
      BY <1>2, <3>3 DEF Pending
    <3>5. Stored(t, m)' <=> Stored(t, m)
      BY <1>2, <3>4 DEF Stored, Mine, Tiles
    <3> QED
      BY <2>1, <3>2, <3>5
  <2> QED
    BY <2>3, <2>4
<1>4. OutputOK'
  BY <1>3 DEF OutputOK, Tiles, TileRows
<1> QED
  BY <1>2, <1>4, OthersOutput DEF OutputInv

LEMMA QuietOutput ==
  ASSUME DataInv,
         UNCHANGED <<cpc, cTile, pTile, rowStats, result, stores, gO>>,
         mem' = mem \/ \A w \in Warps : cpc[w] \notin Past
  PROVE  OutputInv'
<1>1. \A t, m : Stored(t, m)' <=> Stored(t, m)
  BY DEF Stored, Pending
<1>2. OutputOK'
  BY <1>1 DEF DataInv, OutputInv, OutputOK
<1> QED
  BY <1>2, OthersOutput DEF OutputInv

LEMMA OutputStep ==
  ASSUME DataInv, AlignInv', [Next]_vars
  PROVE  OutputInv'
<1>1. ASSUME NEW w \in Warps, WarpStep(w) PROVE OutputInv'
  BY <1>1, WarpStepOutput
<1>2. ASSUME NEW kind \in Producing, Acquire(kind) PROVE OutputInv'
  BY <1>2, QuietOutput DEF Acquire, cvars, evars
<1>3. ASSUME NEW kind \in Producing, Issue(kind) PROVE OutputInv'
  <2>1. ppc # "tile"
    BY <1>3 DEF Issue, Copying, Producing
  <2>2. \A w \in Warps : cpc[w] \notin Past
    BY <2>1, PastLoads DEF DataInv, RingInv, LoopsInv
  <2> QED
    BY <1>3, <2>2, QuietOutput DEF Issue, cvars, evars
<1>4. ASSUME NEW l \in loads, LoadDone(l) PROVE OutputInv'
  <2>1. \A w \in Warps : cpc[w] \notin Past
    BY PastLoads DEF DataInv, RingInv, LoopsInv
  <2> QED
    BY <1>4, <2>1, QuietOutput DEF LoadDone, pvars, cvars, evars
<1>5. ASSUME NEW st \in stores, StoreRead(st) PROVE OutputInv'
  BY <1>5, StoreReadOutput
<1>6. CASE UNCHANGED vars
  BY <1>6, QuietOutput DEF vars, pvars, cvars, evars
<1> QED
  BY <1>1, <1>2, <1>3, <1>4, <1>5, <1>6, BarSyncOutput, TileSyncOutput,
     LeaderFacts
  DEF Next, ProducerStep, TmaStep, Terminated, WarpStep

LEMMA OutputInit == Init => OutputInv
<1> SUFFICES ASSUME Init PROVE OutputInv
  OBVIOUS
<1>1. StatsOK /\ ResultsOK
  BY DEF Init, StatsOK, ResultsOK, In, Sections
<1>2. PartialsOK
  <2> SUFFICES ASSUME NEW x \in Warps,
                      cpc[x] = "barReduce" \/ In(x, "writing")
               PROVE  FALSE
    BY DEF PartialsOK
  <2> QED
    BY DEF Init, In, Sections
<1>3. StagedOK
  BY FirstColumn DEF Init, StagedOK, In, Sections
<1>4. BlockIdx \in Nat /\ BlockIdx % GridDim = BlockIdx /\ GridDim \in Nat \ {0}
  BY ShapeFacts, SmallRemainder
<1>5. OutputOK
  <2> SUFFICES ASSUME NEW t \in Tiles, NEW m \in TileRows
               PROVE  gO[<<t, m>>] = << >> /\ ~ Stored(t, m)
    BY DEF OutputOK
  <2>1. gO[<<t, m>>] = << >>
    BY DEF Init
  <2>2. ASSUME Stored(t, m) PROVE FALSE
    <3>1. t \in Nat /\ t % GridDim = BlockIdx /\ t < BlockIdx
      BY <1>4, <2>2, LeaderFacts DEF Init, Stored, Mine, Tiles
    <3>2. t < BlockIdx + GridDim /\ BlockIdx < t + GridDim
      BY <1>4, <3>1, ShapeFacts
    <3>3. t = BlockIdx
      BY <1>4, <3>1, <3>2, SameRemainder
    <3> QED
      BY <1>4, <3>1, <3>3
  <2> QED
    BY <2>1, <2>2
<1> QED
  BY <1>1, <1>2, <1>3, <1>5 DEF OutputInv

-----------------------------------------------------------------------------
(* The theorems about the data.                                            *)

LEMMA BlockInit == Init => BlockInv
BY OperandsInit, OutputInit DEF OperandsInv, BlockInv

LEMMA BlockStep == BlockInv /\ [Next]_vars => BlockInv'
<1> SUFFICES ASSUME BlockInv, [Next]_vars PROVE BlockInv'
  OBVIOUS
<1>1. OperandsInv'
  BY OperandsStep DEF OperandsInv, BlockInv
<1>2. KeysClear => OutputInv'
  BY <1>1, OutputStep DEF OperandsInv, BlockInv, DataInv
<1> QED
  BY <1>1, <1>2 DEF OperandsInv, BlockInv

\* The pipelines, the named barrier and the contents of the rings are right for
\* every grid of warps; where the output stays clear of the keys, so are the
\* registers, the partial outputs, the staged output and the output itself.
THEOREM FlashBlockCorrect == Spec => []BlockInv
BY BlockInit, BlockStep, PTL DEF Spec

LEMMA ResultFacts ==
  ASSUME NEW t \in Tiles, NEW m
  PROVE  TileResult(t, m) = <<"O", WholeRow(t)>>
<1>1. t \in Nat
  BY DEF Tiles
<1>2. FullAcc(t) = Total(t)
  BY <1>1, AttendedFacts
<1> QED
  BY <1>2 DEF TileResult, ColumnResult, WholeRow, Column

\* With two or more columns of warps, or one and odd numbers of key blocks,
\* every part of the output that was stored holds the complete result of its
\* tile.
THEOREM FlashOutputCorrect ==
  ASSUME KeysClear
  PROVE  Spec => []OutputMatchesReference
<1>1. BlockInv => OutputMatchesReference
  <2> SUFFICES ASSUME BlockInv, NEW t \in Tiles, NEW m \in TileRows
               PROVE  gO[<<t, m>>] \in {<< >>, << TileResult(t, m) >>}
    BY DEF OutputMatchesReference
  <2> QED
    BY ResultFacts DEF BlockInv, OutputInv, OutputOK
<1> QED
  BY <1>1, FlashBlockCorrect, PTL

\* Under the same condition a block implements the safety part of TileOutput:
\* it writes the parts of its own tiles, each once and with the complete
\* result, and no tile before the earlier ones are complete.
THEOREM FlashImplementsTileOutput ==
  ASSUME KeysClear
  PROVE  Spec => Output!Init /\ [][Output!Next]_gO
<1>1. Init => Output!Init
  BY DEF Init, Output!Init
<1>2. BlockInv /\ [Next]_vars => [Output!Next]_gO
  <2> SUFFICES ASSUME BlockInv, [Next]_vars, gO' # gO PROVE Output!Next
    OBVIOUS
  <2>1. DataInv
    BY DEF BlockInv, DataInv
  <2>2. PICK st \in stores : StoreRead(st)
    <3>1. \A w \in Warps : WarpStep(w) => gO' = gO
      BY <2>1, WarpStepTable
    <3>2. ~ \E kind \in Producing : Acquire(kind) \/ Issue(kind)
      BY DEF Acquire, Issue, evars
    <3>3. ~ \E l \in loads : LoadDone(l)
      BY DEF LoadDone, evars
    <3>4. ~ BarSync /\ ~ TileSync /\ ~ UNCHANGED vars
      BY DEF BarSync, TileSync, vars, evars
    <3> QED
      BY <3>1, <3>2, <3>3, <3>4, LeaderFacts
      DEF Next, ProducerStep, TmaStep, Terminated, WarpStep
  <2>3. /\ st.row \in TileRows /\ pTile \in Tiles /\ pTile \in Mine
        /\ gO[<<pTile, st.row>>] = << >>
        /\ gO' = [gO EXCEPT ![<<pTile, st.row>>] = << <<"O", WholeRow(pTile)>> >>]
    BY <2>1, <2>2, StoreReadFacts
  <2>4. ASSUME NEW u \in Mine, u < pTile, NEW m \in TileRows
        PROVE  gO[<<u, m>>] # << >>
    <3>1. u \in Tiles /\ u \in Nat /\ pTile \in Nat
      BY <2>3 DEF Mine, Tiles
    <3>2. ~ Pending(u, m)
      <4>1. \A s \in stores : s.tile = pTile
        BY <2>1, LeaderFacts DEF DataInv, AlignInv, StoresOK, RingInv, LoopsInv,
           ConsumerOK
      <4> QED
        BY <2>4, <3>1, <4>1 DEF Pending
    <3>3. Stored(u, m)
      BY <2>4, <3>1, <3>2 DEF Stored
    <3>4. gO[<<u, m>>] = << <<"O", WholeRow(u)>> >>
      BY <2>1, <3>1, <3>3 DEF DataInv, OutputInv, OutputOK
    <3> QED
      BY <3>4
  <2>5. Output!Write(pTile, st.row)
    BY <2>3, <2>4, ResultFacts DEF Output!Write, Output!Missing, Output!Complete
  <2> QED
    BY <2>3, <2>5 DEF Output!Next
<1> QED
  BY <1>1, <1>2, FlashBlockCorrect, PTL DEF Spec
===============================================================================
