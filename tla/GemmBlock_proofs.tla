-------------------------- MODULE GemmBlock_proofs --------------------------
(***************************************************************************)
(* Proofs about GemmKernel for every number of consumer warps, of tiles,   *)
(* of k-blocks and of blocks.  First the ring: RingInv is inductive, and   *)
(* the two properties of the ring that TLC checks on small instances       *)
(* follow from it.  Then the whole block: it multiplies the right operands *)
(* and stages and stores its tiles safely, since BlockInv is inductive.    *)
(***************************************************************************)
EXTENDS GemmBlock, EuclideanDivision, FiniteSetTheorems

-----------------------------------------------------------------------------
(* Types.                                                                  *)

\* Advancing a pipeline state keeps its index inside the ring.
LEMMA AdvanceType ==
  ASSUME NEW st \in States
  PROVE  Advance(st, STAGE) \in States
BY StageAssumption DEF States, Slots, Advance, Flip

\* The barrier operations return barriers.
LEMMA BarrierType ==
  ASSUME NEW b \in Barriers, NEW c \in Nat, NEW n \in Nat
  PROVE  /\ NewBarrier(c) \in Barriers
         /\ Arrive(b, c) \in Barriers
         /\ ArriveExpectTx(b, c, n) \in Barriers
         /\ CompleteTx(b, c, n) \in Barriers
BY DEF Barriers, NewBarrier, Arrive, ArriveExpectTx, CompleteTx, Settle

LEMMA CountType == EmptyCount \in Nat /\ FullCount \in Nat /\ TxBytes \in Nat
BY WarpsAssumption, FS_CardinalityType DEF EmptyCount, FullCount, TxBytes

LEMMA InitBarrierType ==
  ASSUME NEW c \in Nat
  PROVE  NewBarrier(c) \in Barriers
BY DEF Barriers, NewBarrier

LEMMA TypeInit == Init => TypeOK
<1> SUFFICES ASSUME Init PROVE TypeOK
  OBVIOUS
<1>1. full \in [Slots -> Barriers] /\ empty \in [Slots -> Barriers]
  BY CountType, InitBarrierType DEF Init
<1>2. wState \in States /\ rState \in [Warps -> States]
  BY StageAssumption DEF Init, States, NewState, Slots
<1>3. BlockIdx \in Nat /\ KNum \in Nat \ {0}
  BY GridAssumption
<1>4. << >> \in Sums /\ << >> \in Seq(Sums)
  BY DEF Sums
<1> QED
  BY <1>1, <1>2, <1>3, <1>4
  DEF Init, TypeOK, Contents, PPcs, CPcs

\* What each action does to the types.
LEMMA TypeStep == TypeOK /\ [Next]_vars => TypeOK'
<1> SUFFICES ASSUME TypeOK, [Next]_vars PROVE TypeOK'
  OBVIOUS
<1> USE StageAssumption, WarpsAssumption, GridAssumption, CountType,
        BarrierType, AdvanceType
<1>1. CASE InitBarriers
  BY <1>1, InitBarrierType
  DEF InitBarriers, TypeOK, PPcs, cvars, evars
<1>2. CASE SyncStart
  BY <1>2 DEF SyncStart, TypeOK, PPcs, CPcs, evars
<1>3. CASE SyncEnd
  BY <1>3 DEF SyncEnd, TypeOK, PPcs, CPcs, evars
<1>4. CASE Invalidate
  BY <1>4 DEF Invalidate, TypeOK, PPcs, cvars, evars
<1>5. CASE Acquire
  BY <1>5 DEF Acquire, TypeOK, PPcs, cvars, evars, States
<1>6. ASSUME NEW m \in Mats, Issue(m)
      PROVE  loads' \in SUBSET Loads /\ smem' \in [Mats \X Slots -> Contents]
  <2>1. wState.index \in Slots /\ <<pTile, pK>> \in Labels
    <3>1. pTile \in Nat /\ pK \in Nat
      BY DEF TypeOK
    <3>2. wState.index \in Slots
      BY DEF TypeOK, States
    <3> QED
      BY <3>1, <3>2 DEF Labels
  <2>2. [mat |-> m, slot |-> wState.index, data |-> <<pTile, pK>>] \in Loads
    BY <2>1 DEF Loads
  <2>3. loads' \in SUBSET Loads
    BY <1>6, <2>2 DEF Issue, TypeOK
  <2>4. smem' \in [Mats \X Slots -> Contents]
    BY <1>6, <2>1 DEF Issue, TypeOK, Contents
  <2> QED
    BY <2>3, <2>4
<1>7. CASE CopyA
  BY <1>6, <1>7 DEF CopyA, TypeOK, PPcs, cvars, evars, Mats
<1>8. CASE CopyB
  BY <1>6, <1>8 DEF CopyB, TypeOK, PPcs, cvars, evars, Mats, LastK
<1>9. ASSUME NEW l \in loads, LoadDone(l) PROVE TypeOK'
  BY <1>9 DEF LoadDone, TypeOK, Loads, Contents, pvars, cvars, evars
<1>10. ASSUME NEW w \in Warps, WaitFull(w) PROVE TypeOK'
  BY <1>10 DEF WaitFull, TypeOK, CPcs, pvars, evars, States, Mats
<1>11. ASSUME NEW w \in Warps, Multiply(w) PROVE TypeOK'
  <2>1. smem[<<"A", rState[w].index>>] \in Contents
    BY DEF TypeOK, States, Mats
  <2>2. rC' \in [Warps -> Sums]
    BY <1>11, <2>1 DEF Multiply, TypeOK, Sums
  <2> QED
    BY <1>11, <2>2 DEF Multiply, TypeOK, CPcs, pvars, evars
<1>12. ASSUME NEW w \in Warps, Release(w) PROVE TypeOK'
  <2>1. empty' \in [Slots -> Barriers]
    BY <1>12 DEF Release, Released, TypeOK, States
  <2>2. rState' \in [Warps -> States]
    BY <1>12 DEF Release, TypeOK
  <2> QED
    BY <1>12, <2>1, <2>2 DEF Release, LastK, TypeOK, CPcs, pvars, evars
<1>13. ASSUME NEW w \in Warps, DrainStore(w) PROVE TypeOK'
  BY <1>13 DEF DrainStore, TypeOK, CPcs, pvars, evars
<1>14. ASSUME NEW w \in Warps, StageC(w) PROVE TypeOK'
  BY <1>14 DEF StageC, TypeOK, CPcs, pvars
<1>15. ASSUME NEW w \in Warps, FenceC(w) PROVE TypeOK'
  BY <1>15 DEF FenceC, TypeOK, CPcs, pvars
<1>16. ASSUME NEW w \in Warps, FinishTile(w) PROVE TypeOK'
  <2>1. stores' \in SUBSET StoreReads
    <3>1. ASSUME NEW st \in StoreReads
          PROVE  [st EXCEPT !.committed = TRUE] \in StoreReads
      BY DEF StoreReads
    <3>2. Committed \in SUBSET StoreReads
      BY <3>1 DEF Committed, TypeOK
    <3> QED
      BY <1>16, <3>2 DEF FinishTile, TypeOK
  <2>2. rC' \in [Warps -> Sums]
    BY <1>16 DEF FinishTile, TypeOK, Sums
  <2> QED
    BY <1>16, <2>1, <2>2 DEF FinishTile, TypeOK, CPcs, pvars
<1>17. ASSUME NEW w \in Warps, FinalWait(w) PROVE TypeOK'
  BY <1>17 DEF FinalWait, TypeOK, CPcs, pvars, evars
<1>18. CASE BarSync
  BY <1>18 DEF BarSync, TypeOK, CPcs, pvars, evars
<1>19. CASE IssueStore
  BY <1>19 DEF IssueStore, TypeOK, CPcs, pvars, StoreReads
<1>20. ASSUME NEW st \in stores, StoreRead(st) PROVE TypeOK'
  <2>1. (IF st.part \in unfenced THEN << >> ELSE sC[st.part]) \in Sums
    BY DEF TypeOK, StoreReads, Sums
  <2>2. gC' \in [Tiles \X Warps -> Seq(Sums)]
    <3> DEFINE part == IF st.part \in unfenced THEN << >> ELSE sC[st.part]
    <3>1. \A ss \in Seq(Sums) : Append(ss, part) \in Seq(Sums)
      BY <2>1
    <3>2. gC' = [gC EXCEPT ![<<st.tile, st.part>>] = Append(@, part)]
      BY <1>20 DEF StoreRead
    <3>3. gC \in [Tiles \X Warps -> Seq(Sums)]
      BY DEF TypeOK
    <3> HIDE DEF part
    <3> QED
      BY <3>1, <3>2, <3>3
  <2> QED
    BY <1>20, <2>2 DEF StoreRead, TypeOK, pvars, cvars
<1>21. CASE UNCHANGED vars
  BY <1>21 DEF TypeOK, vars, pvars, cvars, evars
<1> QED
  BY <1>1, <1>2, <1>3, <1>4, <1>5, <1>7, <1>8, <1>9, <1>10, <1>11, <1>12,
     <1>13, <1>14, <1>15, <1>16, <1>17, <1>18, <1>19, <1>20, <1>21
  DEF Next, BlockStep, ProducerStep, ConsumerStep, TmaStep, Terminated

\* Every variable of a thread block keeps its type.
THEOREM GemmTypeCorrect == Spec => []TypeOK
BY TypeInit, TypeStep, PTL DEF Spec

-----------------------------------------------------------------------------
(* Arithmetic of the ring.                                                 *)

\* The uses of a slot grow by one each time the count passes through it.
LEMMA UsesFacts ==
  ASSUME NEW n \in Nat, NEW s \in Slots
  PROVE  /\ Uses(n, s) \in Nat
         /\ Uses(0, s) = 0
         /\ Uses(n + 1, s) = Uses(n, s) + (IF s = n % STAGE THEN 1 ELSE 0)
         /\ s = n % STAGE => Uses(n, s) = n \div STAGE
<1>1. CASE STAGE = 2
  <2>1. s \in Int /\ (s = 0 \/ s = 1)
    BY <1>1 DEF Slots
  <2>2. (n + 1 - s) \div 2 \in Nat
    BY <2>1
  <2>3. (0 + 1 - s) \div 2 = 0
    BY <2>1
  <2>4. (n + 1 + 1 - s) \div 2
          = (n + 1 - s) \div 2 + (IF s = n % 2 THEN 1 ELSE 0)
    BY <2>1
  <2>5. s = n % 2 => (n + 1 - s) \div 2 = n \div 2
    BY <2>1
  <2>6. \A m \in Nat : Uses(m, s) = (m + 1 - s) \div 2
    BY <1>1, <2>1 DEF Uses
  <2>7. /\ Uses(n, s) = (n + 1 - s) \div 2
        /\ Uses(n + 1, s) = (n + 1 + 1 - s) \div 2
        /\ Uses(0, s) = (0 + 1 - s) \div 2
    BY <2>6
  <2> QED
    BY <1>1, <2>2, <2>3, <2>4, <2>5, <2>7
<1>2. CASE STAGE = 3
  <2>1. s \in Int /\ (s = 0 \/ s = 1 \/ s = 2)
    BY <1>2 DEF Slots
  <2>2. (n + 2 - s) \div 3 \in Nat
    BY <2>1
  <2>3. (0 + 2 - s) \div 3 = 0
    BY <2>1
  <2>4. (n + 1 + 2 - s) \div 3
          = (n + 2 - s) \div 3 + (IF s = n % 3 THEN 1 ELSE 0)
    BY <2>1
  <2>5. s = n % 3 => (n + 2 - s) \div 3 = n \div 3
    BY <2>1
  <2>6. \A m \in Nat : Uses(m, s) = (m + 2 - s) \div 3
    BY <1>2, <2>1 DEF Uses
  <2>7. /\ Uses(n, s) = (n + 2 - s) \div 3
        /\ Uses(n + 1, s) = (n + 1 + 2 - s) \div 3
        /\ Uses(0, s) = (0 + 2 - s) \div 3
    BY <2>6
  <2> QED
    BY <1>2, <2>2, <2>3, <2>4, <2>5, <2>7
<1> QED
  BY <1>1, <1>2, StageAssumption

\* Advancing a pipeline state keeps its slot and parity in step with its
\* count.
LEMMA AdvanceFacts ==
  ASSUME NEW st \in States, StateOK(st)
  PROVE  /\ StateOK(Advance(st, STAGE))
         /\ Advance(st, STAGE).count = st.count + 1
<1> DEFINE n == st.count
           c == st.count + 1
           i == st.index
           p == st.phase
<1>1. /\ n \in Nat /\ c = n + 1
      /\ i = n % STAGE /\ p = (n \div STAGE) % 2
  BY DEF States, StateOK
<1>2. CASE STAGE = 2
  <2>1. /\ c % 2 = IF i + 1 = 2 THEN 0 ELSE i + 1
        /\ (c \div 2) % 2 = IF i + 1 = 2 THEN 1 - p ELSE p
    BY <1>1, <1>2
  <2> QED
    BY <1>1, <1>2, <2>1 DEF StateOK, Advance, Flip
<1>3. CASE STAGE = 3
  <2>1. /\ c % 3 = IF i + 1 = 3 THEN 0 ELSE i + 1
        /\ (c \div 3) % 2 = IF i + 1 = 3 THEN 1 - p ELSE p
    BY <1>1, <1>3
  <2> QED
    BY <1>1, <1>3, <2>1 DEF StateOK, Advance, Flip
<1> QED
  BY <1>2, <1>3, StageAssumption

\* The slot of a pipeline state, and the rounds it has made over it.
LEMMA StateRound ==
  ASSUME NEW st \in States, StateOK(st)
  PROVE  /\ st.index \in Slots /\ st.count \in Nat
         /\ Uses(st.count, st.index) = Round(st.count)
         /\ st.phase = Round(st.count) % 2
         /\ st.count < STAGE => Round(st.count) = 0
<1>1. st.index \in Slots /\ st.count \in Nat
  BY DEF States
<1>2. Uses(st.count, st.index) = st.count \div STAGE
  BY <1>1, UsesFacts DEF StateOK
<1>3. st.count < STAGE => st.count \div STAGE = 0
  BY <1>1, StageAssumption
<1> QED
  BY <1>1, <1>2, <1>3 DEF StateOK, Round

-----------------------------------------------------------------------------
(* Facts of one state.                                                     *)

\* The quantities of RoundsOK are natural numbers.
LEMMA RingTypes ==
  ASSUME TypeOK, NEW s \in Slots
  PROVE  /\ Armed(s) \in Nat
         /\ full[s] \in Barriers /\ empty[s] \in Barriers
         /\ full[s].phase \in Nat /\ empty[s].phase \in Nat
         /\ full[s].pending \in Int /\ full[s].tx \in Int
         /\ empty[s].pending \in Int /\ empty[s].tx \in Int
         /\ \A w \in Warps : Freed(w, s) \in Nat /\ Held(w, s) \in {0, 1}
<1>1. wState.count \in Nat /\ \A w \in Warps : rState[w].count \in Nat
  BY DEF TypeOK, States
<1>2. Armed(s) \in Nat
  BY <1>1, UsesFacts DEF Armed
<1>3. \A w \in Warps : Freed(w, s) \in Nat /\ Held(w, s) \in {0, 1}
  BY <1>1, UsesFacts DEF Freed, Held
<1>4. full[s] \in Barriers /\ empty[s] \in Barriers
  BY DEF TypeOK
<1> QED
  BY <1>2, <1>3, <1>4 DEF Barriers

\* A slot whose full barrier expects no bytes is not being loaded.
LEMMA IdleSlot ==
  ASSUME RingInv, NEW s \in Slots, full[s].tx = 0
  PROVE  /\ \A l \in loads : l.slot # s
         /\ \A m \in Mats : ~ Unissued(m, s)
<1>1. Owed("A", s) \in {0, 1} /\ Owed("B", s) \in {0, 1}
  BY DEF Owed
<1>2. Owed("A", s) = 0 /\ Owed("B", s) = 0
  BY <1>1 DEF RingInv, FullOK
<1>3. \A m \in Mats : ~ Unissued(m, s) /\ ~ InFlight(m, s)
  BY <1>2 DEF Owed, Mats
<1>4. \A l \in loads : l.mat \in Mats
  BY DEF RingInv, TypeOK, Loads
<1> QED
  BY <1>3, <1>4 DEF InFlight

\* A slot the producer finds free has been released by every warp, and its
\* full barrier is idle.
LEMMA FreeSlot ==
  ASSUME RingInv, ~ Filling, SlotFree, NEW s, s = wState.index
  PROVE  /\ s \in Slots
         /\ full[s].phase = Armed(s) /\ empty[s].phase = Armed(s)
<1> DEFINE r == Round(wState.count)
<1>1. s \in Slots /\ Uses(wState.count, s) = r /\ wState.phase = r % 2
      /\ (wState.count < STAGE => r = 0) /\ wState.count \in Nat
  BY StateRound DEF RingInv, TypeOK, StatesOK
<1>2. Armed(s) = r /\ r \in Nat
  <2>1. Uses(wState.count, s) \in Nat
    BY <1>1, UsesFacts
  <2> QED
    BY <1>1, <2>1 DEF Armed
<1> HIDE DEF r
<1>3. /\ empty[s].phase <= full[s].phase
      /\ full[s].phase <= r /\ r <= empty[s].phase + 1
      /\ empty[s].phase \in Nat /\ full[s].phase \in Nat
  <2>1. /\ empty[s].phase <= Freed(Leader, s)
        /\ Freed(Leader, s) + Held(Leader, s) <= full[s].phase
        /\ full[s].phase <= Armed(s) /\ Armed(s) <= empty[s].phase + 1
    BY <1>1, WarpsAssumption DEF RingInv, RoundsOK
  <2>2. Freed(Leader, s) \in Nat /\ Held(Leader, s) \in {0, 1}
        /\ empty[s].phase \in Nat /\ full[s].phase \in Nat
    BY <1>1, RingTypes, WarpsAssumption DEF RingInv
  <2> QED
    BY <1>2, <2>1, <2>2
<1>4. empty[s].phase = r
  <2>1. CASE wState.count < STAGE
    BY <2>1, <1>1, <1>2, <1>3
  <2>2. CASE wState.count >= STAGE
    BY <2>2, <1>1, <1>2, <1>3 DEF SlotFree, Passes, Flip
  <2> QED
    BY <1>1, <2>1, <2>2, StageAssumption
<1> QED
  BY <1>1, <1>2, <1>3, <1>4

\* A slot a warp finds full is one round ahead of the warp.
LEMMA FullSlot ==
  ASSUME RingInv, NEW w \in Warps, SlotFull(w), NEW s, s = rState[w].index
  PROVE  s \in Slots /\ full[s].phase = Freed(w, s) + 1
<1> DEFINE r == Round(rState[w].count)
<1>1. s \in Slots /\ Freed(w, s) = r /\ rState[w].phase = r % 2
  BY StateRound DEF RingInv, TypeOK, StatesOK, Freed
<1>2. r \in Nat
  BY <1>1, RingTypes DEF RingInv
<1> HIDE DEF r
<1>3. /\ r <= full[s].phase /\ full[s].phase <= r + 1
      /\ full[s].phase \in Nat
  BY <1>1, <1>2, RingTypes DEF RingInv, RoundsOK
<1>4. full[s].phase % 2 # r % 2
  BY <1>1 DEF SlotFull, Passes
<1> QED
  BY <1>1, <1>2, <1>3, <1>4

-----------------------------------------------------------------------------
(* The initial states.                                                     *)

LEMMA CountFacts == EmptyCount \in Nat /\ EmptyCount # 0
<1>1. EmptyCount \in Nat
  BY CountType
<1>2. Warps # {}
  BY WarpsAssumption
<1> QED
  BY <1>1, <1>2, WarpsAssumption, FS_EmptySet DEF EmptyCount

LEMMA RingInit == Init => RingInv
<1> SUFFICES ASSUME Init PROVE RingInv
  OBVIOUS
<1>1. TypeOK
  BY TypeInit
<1>2. StatesOK
  <2>1. 0 % STAGE = 0 /\ (0 \div STAGE) % 2 = 0
    <3>1. CASE STAGE = 2
      BY <3>1
    <3>2. CASE STAGE = 3
      BY <3>2
    <3> QED
      BY <3>1, <3>2, StageAssumption
  <2> QED
    BY <2>1 DEF Init, StatesOK, StateOK, NewState
<1>3. ASSUME NEW s \in Slots
      PROVE  /\ Armed(s) = 0 /\ \A w \in Warps : Freed(w, s) = 0
             /\ \A w \in Warps : Held(w, s) = 0
             /\ Arrivals(s) = {}
             /\ full[s] = NewBarrier(FullCount)
             /\ empty[s] = NewBarrier(EmptyCount)
  <2>1. Uses(0, s) = 0
    BY UsesFacts
  <2>2. Armed(s) = 0 /\ \A w \in Warps : Freed(w, s) = 0
    BY <2>1 DEF Init, Armed, Freed, Filling, NewState
  <2>3. \A w \in Warps : Held(w, s) = 0
    BY DEF Init, Held, Reading
  <2>4. full[s] = NewBarrier(FullCount) /\ empty[s] = NewBarrier(EmptyCount)
    BY DEF Init
  <2>5. Arrivals(s) = {}
    BY <2>2, <2>4 DEF Arrivals, NewBarrier
  <2> QED
    BY <2>2, <2>3, <2>4, <2>5
<1>4. RoundsOK
  BY <1>3 DEF RoundsOK, NewBarrier
<1>5. FullOK
  <2>1. \A m, s : Owed(m, s) = 0
    BY DEF Init, Owed, Unissued, InFlight, Filling
  <2> QED
    BY <1>3, <2>1 DEF FullOK, NewBarrier, FullCount
<1>6. LoadsOK
  BY DEF LoadsOK, Init
<1>7. EmptyOK
  <2>1. Cardinality({}) = 0
    BY FS_EmptySet
  <2> QED
    BY <1>3, <2>1, CountFacts DEF EmptyOK, NewBarrier
<1>8. FreshOK
  BY DEF FreshOK, Init
<1> QED
  BY <1>1, <1>2, <1>4, <1>5, <1>6, <1>7, <1>8 DEF RingInv

-----------------------------------------------------------------------------
(* The steps.                                                              *)

\* A step that leaves the barriers, the loads and both pipeline states alone,
\* and nobody filling or reading who was not, keeps the invariant.
LEMMA QuietStep ==
  ASSUME RingInv, TypeOK',
         UNCHANGED <<full, empty, loads, wState, rState>>,
         ppc' = ppc \/ (~ Filling /\ ~ Filling' /\ ppc' # "init"),
         \A w \in Warps : Reading(w)' <=> Reading(w)
  PROVE  RingInv'
<1> USE DEF RingInv
<1>1. (Filling' <=> Filling) /\ (ppc' = "copyA" <=> ppc = "copyA")
  BY DEF Filling
<1>2. ASSUME NEW s \in Slots
      PROVE  /\ Armed(s)' = Armed(s) /\ Arrivals(s)' = Arrivals(s)
             /\ \A w \in Warps : /\ Freed(w, s)' = Freed(w, s)
                                 /\ Held(w, s)' = Held(w, s)
             /\ \A m : /\ Unissued(m, s)' <=> Unissued(m, s)
                       /\ Owed(m, s)' = Owed(m, s)
  BY <1>1 DEF Armed, Freed, Held, Arrivals, Unissued, Owed, InFlight
<1>3. StatesOK'
  BY DEF StatesOK
<1>4. RoundsOK'
  BY <1>2 DEF RoundsOK
<1>5. FullOK'
  BY <1>2 DEF FullOK
<1>6. LoadsOK'
  BY <1>1 DEF LoadsOK, Unissued
<1>7. EmptyOK'
  BY <1>2 DEF EmptyOK
<1>8. FreshOK'
  BY DEF FreshOK
<1> QED
  BY <1>3, <1>4, <1>5, <1>6, <1>7, <1>8

\* Acquiring a slot starts its next round: nothing is being loaded into it,
\* and both operands are owed.
LEMMA AcquireFacts ==
  ASSUME RingInv, Acquire, NEW i, i = wState.index
  PROVE  /\ i \in Slots /\ full[i].phase = Armed(i)
         /\ empty[i].phase = Armed(i)
         /\ full[i].pending = 1 /\ full[i].tx = 0
         /\ \A l \in loads : l.slot # i
         /\ Armed(i)' = Armed(i) + 1
         /\ \A s \in Slots \ {i} : Armed(s)' = Armed(s)
         /\ \A m : Unissued(m, i)'
         /\ \A s \in Slots \ {i} : \A m : /\ ~ Unissued(m, s)'
                                         /\ ~ Unissued(m, s)
<1>1. /\ ~ Filling /\ Filling' /\ wState' = wState /\ ppc' = "copyA"
      /\ SlotFree
  BY DEF Acquire, Filling
<1>2. i \in Slots /\ full[i].phase = Armed(i) /\ empty[i].phase = Armed(i)
  BY <1>1, FreeSlot
<1>3. full[i].pending = 1 /\ full[i].tx = 0 /\ \A l \in loads : l.slot # i
  BY <1>2, IdleSlot DEF RingInv, FullOK
<1>4. /\ Armed(i)' = Armed(i) + 1
      /\ \A s \in Slots \ {i} : Armed(s)' = Armed(s)
  <2>1. \A s \in Slots : Uses(wState.count, s) \in Nat
    BY UsesFacts DEF RingInv, TypeOK, States
  <2> QED
    BY <1>1, <1>2, <2>1 DEF Armed
<1>5. /\ \A m : Unissued(m, i)'
      /\ \A s \in Slots \ {i} : \A m : ~ Unissued(m, s)' /\ ~ Unissued(m, s)
  BY <1>1 DEF Unissued
<1> QED
  BY <1>2, <1>3, <1>4, <1>5

\* The producer arms the full barrier of a free slot.
LEMMA AcquireStep ==
  ASSUME RingInv, Acquire, TypeOK', NEW i, i = wState.index
  PROVE  RingInv'
<1>0. ~ Filling /\ Filling' /\ wState' = wState /\ ppc' = "copyA"
  BY DEF Acquire, Filling
<1>1. i \in Slots /\ full[i].phase = Armed(i) /\ empty[i].phase = Armed(i)
  BY AcquireFacts
<1>2. full[i].pending = 1 /\ full[i].tx = 0 /\ \A l \in loads : l.slot # i
  BY AcquireFacts
<1>3. /\ full'[i].phase = full[i].phase
      /\ full'[i].pending = 0 /\ full'[i].tx = 2
      /\ \A s \in Slots \ {i} : full'[s] = full[s]
      /\ empty' = empty /\ loads' = loads /\ rState' = rState
      /\ cpc' = cpc
  BY <1>1, <1>2 DEF Acquire, ArriveExpectTx, Settle, TxBytes, FullCount,
     RingInv, TypeOK, cvars
<1>4. /\ Armed(i)' = Armed(i) + 1
      /\ \A s \in Slots \ {i} : Armed(s)' = Armed(s)
  BY AcquireFacts
<1>5. ASSUME NEW s \in Slots
      PROVE  /\ Arrivals(s)' = Arrivals(s)
             /\ \A w \in Warps : /\ Freed(w, s)' = Freed(w, s)
                                 /\ Held(w, s)' = Held(w, s)
  BY <1>3 DEF Freed, Held, Arrivals, Reading
<1>6. StatesOK'
  BY <1>0, <1>3 DEF RingInv, StatesOK
<1>7. RoundsOK'
  <2> SUFFICES ASSUME NEW s \in Slots
               PROVE  /\ full'[s].phase <= Armed(s)'
                      /\ Armed(s)' <= full'[s].phase + 1
                      /\ Armed(s)' <= empty'[s].phase + 1
                      /\ \A w \in Warps :
                           /\ empty'[s].phase <= Freed(w, s)'
                           /\ Freed(w, s)' + Held(w, s)' <= full'[s].phase
    BY DEF RoundsOK
  <2>1. CASE s = i
    BY <2>1, <1>1, <1>3, <1>4, <1>5, RingTypes DEF RingInv, RoundsOK
  <2>2. CASE s # i
    BY <2>2, <1>3, <1>4, <1>5 DEF RingInv, RoundsOK
  <2> QED
    BY <2>1, <2>2
<1>8. /\ \A m : Unissued(m, i)'
      /\ \A s \in Slots \ {i} : \A m : ~ Unissued(m, s)' /\ ~ Unissued(m, s)
  BY AcquireFacts
<1>9. FullOK'
  <2> SUFFICES ASSUME NEW s \in Slots
               PROVE  /\ full'[s].tx = Owed("A", s)' + Owed("B", s)'
                      /\ IF full'[s].phase = Armed(s)'
                         THEN full'[s].pending = 1 /\ full'[s].tx = 0
                         ELSE full'[s].pending = 0 /\ full'[s].tx # 0
    BY DEF FullOK
  <2>1. CASE s = i
    <3>1. Owed("A", i)' = 1 /\ Owed("B", i)' = 1
      BY <1>8 DEF Owed
    <3>2. full'[i].phase # Armed(i)'
      BY <1>1, <1>3, <1>4, RingTypes DEF RingInv
    <3> QED
      BY <2>1, <3>1, <3>2, <1>3
  <2>2. CASE s # i
    <3>1. \A m : Owed(m, s)' = Owed(m, s)
      BY <2>2, <1>3, <1>8 DEF Owed, InFlight
    <3> QED
      BY <2>2, <3>1, <1>3, <1>4 DEF RingInv, FullOK
  <2> QED
    BY <2>1, <2>2
<1>10. LoadsOK'
  <2>1. \A l \in loads : l.slot # i
    BY <1>2
  <2> QED
    BY <2>1, <1>0, <1>3 DEF RingInv, LoadsOK, Unissued
<1>11. EmptyOK'
  BY <1>3, <1>5 DEF RingInv, EmptyOK
<1>12. FreshOK'
  BY <1>0 DEF FreshOK
<1> QED
  BY <1>6, <1>7, <1>9, <1>10, <1>11, <1>12 DEF RingInv

\* Issuing an operand moves it from the unissued to the loads in flight: what
\* is owed is the same.
LEMMA IssueOwed ==
  ASSUME NEW i, i = wState.index, NEW m \in Mats, Issue(m), Unissued(m, i),
         \A n \in Mats, s \in Slots :
           Unissued(n, s)' <=> Unissued(n, s) /\ ~ (n = m /\ s = i),
         NEW n \in Mats, NEW s \in Slots
  PROVE  Owed(n, s)' = Owed(n, s)
<1>1. PICK x : loads' = loads \cup {x} /\ x.mat = m /\ x.slot = i
  <2> DEFINE y == [mat |-> m, slot |-> wState.index, data |-> <<pTile, pK>>]
  <2>1. y.mat = m /\ y.slot = i
    OBVIOUS
  <2>2. loads' = loads \cup {y}
    BY DEF Issue
  <2> HIDE DEF y
  <2> QED
    BY <2>1, <2>2
<1>2. CASE n = m /\ s = i
  <2>1. InFlight(n, s)'
    BY <1>1, <1>2 DEF InFlight
  <2> QED
    BY <1>2, <2>1 DEF Owed
<1>3. CASE ~ (n = m /\ s = i)
  <2>1. InFlight(n, s)' <=> InFlight(n, s)
    BY <1>1, <1>3 DEF InFlight
  <2> QED
    BY <1>3, <2>1 DEF Owed
<1> QED
  BY <1>2, <1>3

\* The full barrier waits for the same operands once one of them is issued.
LEMMA IssueStep ==
  ASSUME RingInv, TypeOK', NEW i, i = wState.index, NEW m \in Mats,
         Issue(m), Unissued(m, i),
         UNCHANGED <<full, empty, cpc, rState>>, ppc' # "init",
         \A s \in Slots : Armed(s)' = Armed(s),
         \A n \in Mats, s \in Slots :
           Unissued(n, s)' <=> Unissued(n, s) /\ ~ (n = m /\ s = i),
         StateOK(wState)'
  PROVE  RingInv'
<1>1. PICK x : loads' = loads \cup {x} /\ x.mat = m /\ x.slot = i
  <2> DEFINE y == [mat |-> m, slot |-> wState.index, data |-> <<pTile, pK>>]
  <2>1. y.mat = m /\ y.slot = i
    OBVIOUS
  <2>2. loads' = loads \cup {y}
    BY DEF Issue
  <2> HIDE DEF y
  <2> QED
    BY <2>1, <2>2
<1>2. i \in Slots /\ \A l \in loads : ~ (l.mat = m /\ l.slot = i)
  BY DEF RingInv, LoadsOK, TypeOK, States
<1>3. \A n \in Mats, s \in Slots : Owed(n, s)' = Owed(n, s)
  BY IssueOwed
<1>4. ASSUME NEW s \in Slots
      PROVE  /\ Arrivals(s)' = Arrivals(s)
             /\ \A w \in Warps : /\ Freed(w, s)' = Freed(w, s)
                                 /\ Held(w, s)' = Held(w, s)
  BY DEF Freed, Held, Arrivals, Reading
<1>5. StatesOK'
  BY DEF RingInv, StatesOK
<1>6. RoundsOK'
  BY <1>4 DEF RingInv, RoundsOK
<1>7. FullOK'
  <2>1. "A" \in Mats /\ "B" \in Mats
    BY DEF Mats
  <2> QED
    BY <2>1, <1>3 DEF RingInv, FullOK
<1>8. LoadsOK'
  <2>1. \A k, l \in loads' : k.mat = l.mat /\ k.slot = l.slot => k = l
    BY <1>1, <1>2 DEF RingInv, LoadsOK
  <2>2. ASSUME NEW l \in loads' PROVE ~ Unissued(l.mat, l.slot)'
    <3>1. l.mat \in Mats /\ l.slot \in Slots
      BY DEF TypeOK, Loads
    <3> QED
      BY <3>1, <1>1 DEF RingInv, LoadsOK
  <2> QED
    BY <2>1, <2>2 DEF LoadsOK
<1>9. EmptyOK'
  BY <1>4 DEF RingInv, EmptyOK
<1>10. FreshOK'
  BY DEF FreshOK
<1> QED
  BY <1>5, <1>6, <1>7, <1>8, <1>9, <1>10 DEF RingInv

\* Neither copy changes the number of rounds a slot was armed for; the second
\* one advances the pipeline state of the producer, so that the slot it was
\* filling becomes one of its past uses.
LEMMA CopyAFacts ==
  ASSUME RingInv, CopyA, NEW i, i = wState.index
  PROVE  /\ "A" \in Mats /\ Issue("A") /\ Unissued("A", i)
         /\ \A s \in Slots : Armed(s)' = Armed(s)
         /\ \A n \in Mats, s \in Slots :
              Unissued(n, s)' <=> Unissued(n, s) /\ ~ (n = "A" /\ s = i)
<1>1. "A" \in Mats /\ Issue("A") /\ Unissued("A", i)
  BY DEF CopyA, Unissued, Filling, Mats
<1>2. \A s \in Slots : Armed(s)' = Armed(s)
  BY DEF CopyA, Armed, Filling
<1>3. \A n \in Mats, s \in Slots :
        Unissued(n, s)' <=> Unissued(n, s) /\ ~ (n = "A" /\ s = i)
  BY DEF CopyA, Unissued, Filling, Mats
<1> QED
  BY <1>1, <1>2, <1>3

LEMMA CopyBFacts ==
  ASSUME RingInv, CopyB, NEW i, i = wState.index
  PROVE  /\ "B" \in Mats /\ Issue("B") /\ Unissued("B", i)
         /\ StateOK(wState') /\ wState'.count = wState.count + 1
         /\ \A s \in Slots : Armed(s)' = Armed(s)
         /\ \A n \in Mats, s \in Slots :
              Unissued(n, s)' <=> Unissued(n, s) /\ ~ (n = "B" /\ s = i)
<1>1. "B" \in Mats /\ Issue("B") /\ Unissued("B", i)
  BY DEF CopyB, Unissued, Filling, Mats
<1>2. /\ wState \in States /\ StateOK(wState)
      /\ wState' = Advance(wState, STAGE)
      /\ ppc = "copyB" /\ ppc' \in {"acquire", "exit"}
  BY DEF CopyB, RingInv, TypeOK, StatesOK
<1>3. StateOK(wState') /\ wState'.count = wState.count + 1
  BY <1>2, AdvanceFacts
<1>4. ASSUME NEW s \in Slots PROVE Armed(s)' = Armed(s)
  <2>1. wState.count \in Nat /\ wState.index = wState.count % STAGE
    BY <1>2 DEF States, StateOK
  <2>2. Uses(wState.count + 1, s)
          = Uses(wState.count, s) + (IF s = wState.index THEN 1 ELSE 0)
    BY <2>1, UsesFacts
  <2>3. Armed(s) = Uses(wState.count, s) + (IF wState.index = s THEN 1 ELSE 0)
    BY <1>2 DEF Armed, Filling
  <2>4. Armed(s)' = Uses(wState.count + 1, s) + 0
    BY <1>2, <1>3 DEF Armed, Filling
  <2>5. Uses(wState.count, s) \in Nat
    BY <2>1, UsesFacts
  <2> QED
    BY <2>2, <2>3, <2>4, <2>5
<1>5. \A n \in Mats, s \in Slots :
        Unissued(n, s)' <=> Unissued(n, s) /\ ~ (n = "B" /\ s = i)
  BY <1>2 DEF Unissued, Filling, Mats
<1> QED
  BY <1>1, <1>3, <1>4, <1>5

LEMMA CopyAStep ==
  ASSUME RingInv, CopyA, TypeOK'
  PROVE  RingInv'
<1>1. UNCHANGED <<full, empty, cpc, rState>> /\ ppc' # "init"
  BY DEF CopyA, cvars
<1>2. StateOK(wState)'
  BY DEF CopyA, RingInv, StatesOK
<1> QED
  BY <1>1, <1>2, CopyAFacts, IssueStep

LEMMA CopyBStep ==
  ASSUME RingInv, CopyB, TypeOK'
  PROVE  RingInv'
<1>1. UNCHANGED <<full, empty, cpc, rState>> /\ ppc' # "init"
  BY DEF CopyB, cvars
<1> QED
  BY <1>1, CopyBFacts, IssueStep

\* A load that completes is owed no more.
LEMMA LoadDoneFacts ==
  ASSUME RingInv, NEW l \in loads, LoadDone(l), NEW i, i = l.slot
  PROVE  /\ Owed(l.mat, i) = 1 /\ Owed(l.mat, i)' = 0
         /\ \A m \in Mats, s \in Slots :
              ~ (m = l.mat /\ s = i) => Owed(m, s)' = Owed(m, s)
         /\ \A s \in Slots : Armed(s)' = Armed(s)
<1>1. /\ i \in Slots /\ l.mat \in Mats
      /\ loads' = loads \ {l} /\ wState' = wState /\ ppc' = ppc
  BY DEF LoadDone, RingInv, TypeOK, Loads, pvars
<1>2. InFlight(l.mat, i) /\ ~ InFlight(l.mat, i)'
  BY <1>1 DEF InFlight, RingInv, LoadsOK
<1>3. \A m \in Mats, s \in Slots :
        /\ Unissued(m, s)' <=> Unissued(m, s)
        /\ ~ (m = l.mat /\ s = i) => (InFlight(m, s)' <=> InFlight(m, s))
  BY <1>1 DEF InFlight, Unissued, Filling
<1>4. ~ Unissued(l.mat, i)
  BY DEF RingInv, LoadsOK
<1>5. \A s \in Slots : Armed(s)' = Armed(s)
  BY <1>1 DEF Armed, Filling
<1> QED
  BY <1>1, <1>2, <1>3, <1>4, <1>5 DEF Owed

\* A load completes: the full barrier waits for one operand less, and its
\* phase ends with the last one.
LEMMA LoadDoneStep ==
  ASSUME RingInv, TypeOK', NEW l \in loads, LoadDone(l), NEW i, i = l.slot
  PROVE  RingInv'
<1>1. /\ i \in Slots /\ l.mat \in Mats
      /\ loads' = loads \ {l} /\ empty' = empty /\ wState' = wState
      /\ rState' = rState /\ cpc' = cpc /\ ppc' = ppc
      /\ full' = [full EXCEPT ![i] = CompleteTx(@, FullCount, 1)]
  BY DEF LoadDone, RingInv, TypeOK, Loads, pvars, cvars
<1>2. /\ Owed(l.mat, i) = 1 /\ Owed(l.mat, i)' = 0
      /\ \A m \in Mats, s \in Slots :
           ~ (m = l.mat /\ s = i) => Owed(m, s)' = Owed(m, s)
  BY LoadDoneFacts
<1>3. ASSUME NEW s \in Slots
      PROVE  /\ Armed(s)' = Armed(s) /\ Arrivals(s)' = Arrivals(s)
             /\ \A w \in Warps : /\ Freed(w, s)' = Freed(w, s)
                                 /\ Held(w, s)' = Held(w, s)
  BY <1>1 DEF Armed, Filling, Freed, Held, Arrivals, Reading
<1>4. /\ full[i].tx = Owed("A", i) + Owed("B", i)
      /\ Owed("A", i) \in {0, 1} /\ Owed("B", i) \in {0, 1}
      /\ Owed("A", i)' + Owed("B", i)' = full[i].tx - 1
      /\ full[i].tx # 0
  <2>1. full[i].tx = Owed("A", i) + Owed("B", i)
    BY <1>1 DEF RingInv, FullOK
  <2>2. Owed("A", i) \in {0, 1} /\ Owed("B", i) \in {0, 1}
    BY DEF Owed
  <2>3. CASE l.mat = "A"
    BY <2>1, <2>2, <2>3, <1>1, <1>2 DEF Mats
  <2>4. CASE l.mat = "B"
    BY <2>1, <2>2, <2>4, <1>1, <1>2 DEF Mats
  <2> QED
    BY <1>1, <2>1, <2>2, <2>3, <2>4 DEF Mats
<1>5. full[i].pending = 0 /\ full[i].phase + 1 = Armed(i)
  <2>1. full[i].phase # Armed(i) /\ full[i].pending = 0
    BY <1>1, <1>4 DEF RingInv, FullOK
  <2> QED
    BY <1>1, <2>1, RingTypes DEF RingInv, RoundsOK
<1>6. /\ IF full[i].tx = 1
         THEN /\ full'[i].phase = full[i].phase + 1
              /\ full'[i].pending = 1 /\ full'[i].tx = 0
         ELSE /\ full'[i].phase = full[i].phase
              /\ full'[i].pending = 0 /\ full'[i].tx = full[i].tx - 1
      /\ \A s \in Slots \ {i} : full'[s] = full[s]
  <2>1. full'[i] = CompleteTx(full[i], FullCount, 1)
        /\ \A s \in Slots \ {i} : full'[s] = full[s]
    BY <1>1 DEF RingInv, TypeOK
  <2>2. full[i].tx \in Int
    BY <1>4
  <2>3. full[i].tx - 1 = 0 <=> full[i].tx = 1
    BY <2>2
  <2> QED
    BY <2>1, <2>3, <1>5 DEF CompleteTx, Settle, FullCount
<1>7. RoundsOK'
  <2> SUFFICES ASSUME NEW s \in Slots
               PROVE  /\ full'[s].phase <= Armed(s)'
                      /\ Armed(s)' <= full'[s].phase + 1
                      /\ Armed(s)' <= empty'[s].phase + 1
                      /\ \A w \in Warps :
                           /\ empty'[s].phase <= Freed(w, s)'
                           /\ Freed(w, s)' + Held(w, s)' <= full'[s].phase
    BY DEF RoundsOK
  <2>1. CASE s = i
    <3>1. full'[i].phase \in {full[i].phase, full[i].phase + 1}
      BY <1>6
    <3> QED
      BY <2>1, <3>1, <1>1, <1>3, <1>5, RingTypes DEF RingInv, RoundsOK
  <2>2. CASE s # i
    BY <2>2, <1>1, <1>3, <1>6 DEF RingInv, RoundsOK
  <2> QED
    BY <2>1, <2>2
<1>8. FullOK'
  <2> SUFFICES ASSUME NEW s \in Slots
               PROVE  /\ full'[s].tx = Owed("A", s)' + Owed("B", s)'
                      /\ IF full'[s].phase = Armed(s)'
                         THEN full'[s].pending = 1 /\ full'[s].tx = 0
                         ELSE full'[s].pending = 0 /\ full'[s].tx # 0
    BY DEF FullOK
  <2>1. CASE s = i
    <3>1. full[i].phase \in Nat /\ full[i].tx \in {1, 2}
      BY <1>1, <1>4, RingTypes DEF RingInv
    <3> QED
      BY <2>1, <3>1, <1>1, <1>3, <1>4, <1>5, <1>6
  <2>2. CASE s # i
    <3>1. Owed("A", s)' = Owed("A", s) /\ Owed("B", s)' = Owed("B", s)
      BY <2>2, <1>2 DEF Mats
    <3> QED
      BY <2>2, <3>1, <1>3, <1>6 DEF RingInv, FullOK
  <2> QED
    BY <2>1, <2>2
<1>9. LoadsOK'
  BY <1>1 DEF RingInv, LoadsOK, Unissued, Filling
<1>10. EmptyOK'
  BY <1>1, <1>3 DEF RingInv, EmptyOK
<1>11. StatesOK' /\ FreshOK'
  <2>1. ppc # "init"
    <3> SUFFICES ASSUME ppc = "init" PROVE FALSE
      OBVIOUS
    <3>1. full[i].tx = 0
      BY <1>1 DEF RingInv, FreshOK, NewBarrier
    <3> QED
      BY <3>1, <1>4
  <2> QED
    BY <2>1, <1>1 DEF RingInv, StatesOK, FreshOK
<1> QED
  BY <1>7, <1>8, <1>9, <1>10, <1>11 DEF RingInv

\* A consumer warp takes a full slot and begins to read it.
LEMMA WaitFullStep ==
  ASSUME RingInv, TypeOK', NEW w \in Warps, WaitFull(w),
         NEW i, i = rState[w].index
  PROVE  RingInv'
<1>1. i \in Slots /\ full[i].phase = Freed(w, i) + 1
  BY FullSlot DEF WaitFull
<1>2. /\ UNCHANGED <<full, empty, loads, ppc, wState, rState>>
      /\ ~ Reading(w) /\ Reading(w)'
      /\ \A v \in Warps \ {w} : Reading(v)' <=> Reading(v)
      /\ ppc # "init" \/ ppc' = ppc
  BY DEF WaitFull, Reading, RingInv, TypeOK, pvars
<1>3. ASSUME NEW s \in Slots
      PROVE  /\ Armed(s)' = Armed(s) /\ Arrivals(s)' = Arrivals(s)
             /\ \A v \in Warps : Freed(v, s)' = Freed(v, s)
             /\ \A v \in Warps : ~ (v = w /\ s = i) => Held(v, s)' = Held(v, s)
             /\ \A m : Owed(m, s)' = Owed(m, s)
  BY <1>2
  DEF Armed, Filling, Freed, Held, Arrivals, Owed, Unissued, InFlight
<1>4. Held(w, i)' = 1
  BY <1>2 DEF Held
<1>5. RoundsOK'
  <2> SUFFICES ASSUME NEW s \in Slots
               PROVE  /\ full'[s].phase <= Armed(s)'
                      /\ Armed(s)' <= full'[s].phase + 1
                      /\ Armed(s)' <= empty'[s].phase + 1
                      /\ \A v \in Warps :
                           /\ empty'[s].phase <= Freed(v, s)'
                           /\ Freed(v, s)' + Held(v, s)' <= full'[s].phase
    BY DEF RoundsOK
  <2>1. ASSUME NEW v \in Warps
        PROVE  /\ empty'[s].phase <= Freed(v, s)'
               /\ Freed(v, s)' + Held(v, s)' <= full'[s].phase
    <3>1. CASE v = w /\ s = i
      <4>1. empty'[s].phase <= Freed(v, s)'
        BY <1>2, <1>3 DEF RingInv, RoundsOK
      <4>2. Freed(v, s)' + Held(v, s)' = full'[s].phase
        BY <3>1, <1>1, <1>2, <1>3, <1>4
      <4>3. full'[s].phase \in Nat
        BY <1>2, RingTypes DEF RingInv
      <4> QED
        BY <4>1, <4>2, <4>3
    <3>2. CASE ~ (v = w /\ s = i)
      BY <3>2, <1>2, <1>3 DEF RingInv, RoundsOK
    <3> QED
      BY <3>1, <3>2
  <2> QED
    BY <2>1, <1>2, <1>3 DEF RingInv, RoundsOK
<1>6. FullOK' /\ EmptyOK'
  BY <1>2, <1>3 DEF RingInv, FullOK, EmptyOK
<1>7. StatesOK' /\ LoadsOK' /\ FreshOK'
  BY <1>2 DEF RingInv, StatesOK, LoadsOK, FreshOK, Unissued, Filling
<1> QED
  BY <1>5, <1>6, <1>7 DEF RingInv

\* A consumer warp arrives on the empty barrier of the slot it has read; the
\* last one to do so opens the slot for the producer.
LEMMA ReleaseStep ==
  ASSUME RingInv, TypeOK', NEW w \in Warps, Release(w),
         NEW i, i = rState[w].index
  PROVE  RingInv'
<1>1. /\ UNCHANGED <<full, loads, ppc, wState>>
      /\ empty' = [empty EXCEPT ![i] = Arrive(@, EmptyCount)]
      /\ rState' = [rState EXCEPT ![w] = Advance(@, STAGE)]
      /\ Reading(w) /\ ~ Reading(w)'
      /\ \A v \in Warps \ {w} : Reading(v)' <=> Reading(v)
  BY DEF Release, Released, Reading, RingInv, TypeOK, pvars
<1>2. /\ i \in Slots /\ i = rState[w].count % STAGE
      /\ rState[w] \in States /\ rState[w].count \in Nat
      /\ StateOK(rState[w])
  BY DEF RingInv, TypeOK, StatesOK, StateOK, States
<1>3. /\ rState'[w] = Advance(rState[w], STAGE)
      /\ \A v \in Warps \ {w} : rState'[v] = rState[v]
  BY <1>1 DEF RingInv, TypeOK
<1>4. StateOK(rState'[w]) /\ rState'[w].count = rState[w].count + 1
  BY <1>2, <1>3, AdvanceFacts
<1>5. ASSUME NEW s \in Slots
      PROVE  /\ Armed(s)' = Armed(s)
             /\ \A v \in Warps :
                  ~ (v = w /\ s = i) => Freed(v, s)' = Freed(v, s)
             /\ \A v \in Warps : Held(v, s)' <= Held(v, s)
             /\ \A v \in Warps : Held(v, s)' \in {0, 1}
             /\ \A m : Owed(m, s)' = Owed(m, s)
  <2>1. s # i => Uses(rState[w].count + 1, s) = Uses(rState[w].count, s)
    BY <1>2, UsesFacts
  <2>2. \A v \in Warps : ~ (v = w /\ s = i) => Freed(v, s)' = Freed(v, s)
    BY <1>3, <1>4, <2>1 DEF Freed
  <2>3. \A v \in Warps : Held(v, s)' <= Held(v, s) /\ Held(v, s)' \in {0, 1}
    BY <1>1, <1>3 DEF Held
  <2>4. Armed(s)' = Armed(s) /\ \A m : Owed(m, s)' = Owed(m, s)
    BY <1>1 DEF Armed, Filling, Owed, Unissued, InFlight
  <2> QED
    BY <2>2, <2>3, <2>4
<1>6. Freed(w, i)' = Freed(w, i) + 1 /\ Held(w, i) = 1 /\ Held(w, i)' = 0
  <2>1. Uses(rState[w].count + 1, i) = Uses(rState[w].count, i) + 1
    BY <1>2, UsesFacts
  <2> QED
    BY <1>1, <1>4, <2>1 DEF Freed, Held
<1> DEFINE e == empty[i].phase
<1>7. /\ e \in Nat /\ Freed(w, i) = e
      /\ \A v \in Warps : Freed(v, i) \in {e, e + 1}
      /\ Armed(i) <= e + 1 /\ Armed(i) \in Nat
      /\ full[i].phase \in Nat /\ full[i].phase <= e + 1
      /\ e + 1 <= full[i].phase
  <2>1. e \in Nat /\ full[i].phase \in Nat /\ Armed(i) \in Nat
        /\ \A v \in Warps : Freed(v, i) \in Nat /\ Held(v, i) \in {0, 1}
    BY <1>2, RingTypes DEF RingInv
  <2>2. /\ full[i].phase <= Armed(i) /\ Armed(i) <= e + 1
        /\ \A v \in Warps : e <= Freed(v, i)
                             /\ Freed(v, i) + Held(v, i) <= full[i].phase
    BY <1>2 DEF RingInv, RoundsOK
  <2> HIDE DEF e
  <2>3. full[i].phase <= e + 1
    BY <2>1, <2>2
  <2>4. Freed(w, i) = e /\ e + 1 <= full[i].phase
    BY <1>6, <2>1, <2>2, <2>3
  <2>5. \A v \in Warps : Freed(v, i) \in {e, e + 1}
    BY <2>1, <2>2, <2>3
  <2> QED
    BY <2>1, <2>2, <2>3, <2>4, <2>5
<1>8. /\ w \notin Arrivals(i) /\ Arrivals(i) \in SUBSET Warps
      /\ IsFiniteSet(Arrivals(i))
      /\ Cardinality(Arrivals(i) \cup {w}) = Cardinality(Arrivals(i)) + 1
      /\ Cardinality(Arrivals(i)) \in Nat
  <2>1. w \notin Arrivals(i) /\ Arrivals(i) \in SUBSET Warps
    BY <1>7 DEF Arrivals
  <2>2. IsFiniteSet(Arrivals(i))
    BY <2>1, WarpsAssumption, FS_Subset
  <2> QED
    BY <2>1, <2>2, FS_AddElement, FS_CardinalityType
<1>9. /\ empty[i].pending = EmptyCount - Cardinality(Arrivals(i))
      /\ empty[i].pending # 0 /\ empty[i].tx = 0
  BY <1>2 DEF RingInv, EmptyOK
<1>10. /\ empty'[i] = Arrive(empty[i], EmptyCount)
       /\ \A s \in Slots \ {i} : empty'[s] = empty[s]
  BY <1>1, <1>2 DEF RingInv, TypeOK
<1>11. \A s \in Slots \ {i} : Arrivals(s)' = Arrivals(s)
  BY <1>5, <1>10 DEF Arrivals
<1>12. /\ e <= empty'[i].phase /\ empty'[i].phase \in Nat
       /\ \A v \in Warps : empty'[i].phase <= Freed(v, i)'
       /\ empty'[i].tx = 0 /\ empty'[i].pending # 0
       /\ empty'[i].pending = EmptyCount - Cardinality(Arrivals(i)')
  <2>1. CASE empty[i].pending - 1 = 0
    <3>1. Arrivals(i) \cup {w} = Warps
      <4>1. Cardinality(Arrivals(i) \cup {w}) = Cardinality(Warps)
        BY <2>1, <1>8, <1>9, CountFacts DEF EmptyCount
      <4>2. Arrivals(i) \cup {w} \in SUBSET Warps
        BY <1>8
      <4> QED
        BY <4>1, <4>2, WarpsAssumption, FS_Subset
    <3>2. \A v \in Warps : Freed(v, i)' = e + 1
      BY <3>1, <1>2, <1>5, <1>6, <1>7 DEF Arrivals
    <3>3. /\ empty'[i].phase = e + 1 /\ empty'[i].pending = EmptyCount
          /\ empty'[i].tx = 0
      BY <2>1, <1>9, <1>10 DEF Arrive, Settle
    <3>4. Arrivals(i)' = {}
      BY <3>2, <3>3, <1>7 DEF Arrivals
    <3>5. Cardinality({}) = 0
      BY FS_EmptySet
    <3> QED
      BY <3>2, <3>3, <3>4, <3>5, <1>7, CountFacts
  <2>2. CASE empty[i].pending - 1 # 0
    <3>1. /\ empty'[i].phase = e /\ empty'[i].pending = empty[i].pending - 1
          /\ empty'[i].tx = 0
      BY <2>2, <1>9, <1>10 DEF Arrive, Settle
    <3>2. \A v \in Warps : e <= Freed(v, i)'
      BY <1>2, <1>5, <1>6, <1>7
    <3>3. Arrivals(i)' = Arrivals(i) \cup {w}
      BY <3>1, <1>2, <1>5, <1>6, <1>7 DEF Arrivals
    <3> QED
      BY <2>2, <3>1, <3>2, <3>3, <1>7, <1>8, <1>9, CountFacts
  <2> QED
    BY <2>1, <2>2
<1>13. StatesOK'
  BY <1>1, <1>3, <1>4 DEF RingInv, StatesOK
<1>14. RoundsOK'
  <2> SUFFICES ASSUME NEW s \in Slots
               PROVE  /\ full'[s].phase <= Armed(s)'
                      /\ Armed(s)' <= full'[s].phase + 1
                      /\ Armed(s)' <= empty'[s].phase + 1
                      /\ \A v \in Warps :
                           /\ empty'[s].phase <= Freed(v, s)'
                           /\ Freed(v, s)' + Held(v, s)' <= full'[s].phase
    BY DEF RoundsOK
  <2>1. full'[s].phase <= Armed(s)' /\ Armed(s)' <= full'[s].phase + 1
    BY <1>1, <1>5 DEF RingInv, RoundsOK
  <2>2. Armed(s)' <= empty'[s].phase + 1
    <3>1. CASE s = i
      BY <3>1, <1>5, <1>7, <1>12
    <3>2. CASE s # i
      BY <3>2, <1>5, <1>10 DEF RingInv, RoundsOK
    <3> QED
      BY <3>1, <3>2
  <2>3. ASSUME NEW v \in Warps
        PROVE  /\ empty'[s].phase <= Freed(v, s)'
               /\ Freed(v, s)' + Held(v, s)' <= full'[s].phase
    <3>1. CASE v = w /\ s = i
      BY <3>1, <1>1, <1>6, <1>7, <1>12
    <3>2. CASE ~ (v = w /\ s = i)
      <4>1. /\ Freed(v, s)' = Freed(v, s) /\ Held(v, s)' <= Held(v, s)
            /\ Held(v, s)' \in {0, 1} /\ Held(v, s) \in {0, 1}
            /\ Freed(v, s) \in Nat /\ full[s].phase \in Nat
            /\ Freed(v, s) + Held(v, s) <= full[s].phase
        BY <3>2, <1>5, RingTypes DEF RingInv, RoundsOK
      <4>2. Freed(v, s)' + Held(v, s)' <= full'[s].phase
        BY <4>1, <1>1
      <4>3. empty'[s].phase <= Freed(v, s)'
        <5>1. CASE s = i
          BY <5>1, <1>12
        <5>2. CASE s # i
          BY <5>2, <4>1, <1>10 DEF RingInv, RoundsOK
        <5> QED
          BY <5>1, <5>2
      <4> QED
        BY <4>2, <4>3
    <3> QED
      BY <3>1, <3>2
  <2> QED
    BY <2>1, <2>2, <2>3
<1>15. FullOK'
  BY <1>1, <1>5 DEF RingInv, FullOK
<1>16. LoadsOK'
  BY <1>1 DEF RingInv, LoadsOK, Unissued, Filling
<1>17. EmptyOK'
  <2> SUFFICES ASSUME NEW s \in Slots
               PROVE  /\ empty'[s].tx = 0 /\ empty'[s].pending # 0
                      /\ empty'[s].pending
                           = EmptyCount - Cardinality(Arrivals(s)')
    BY DEF EmptyOK
  <2>1. CASE s = i
    BY <2>1, <1>12
  <2>2. CASE s # i
    BY <2>2, <1>10, <1>11 DEF RingInv, EmptyOK
  <2> QED
    BY <2>1, <2>2
<1>18. FreshOK'
  <2>1. ppc # "init"
    <3> SUFFICES ASSUME ppc = "init" PROVE FALSE
      OBVIOUS
    <3>1. full[i].phase = 0
      BY <1>2 DEF RingInv, FreshOK, NewBarrier
    <3> QED
      BY <3>1, <1>7
  <2> QED
    BY <2>1, <1>1 DEF FreshOK
<1> QED
  BY <1>13, <1>14, <1>15, <1>16, <1>17, <1>18 DEF RingInv

LEMMA RingStep == RingInv /\ [Next]_vars => RingInv'
<1> SUFFICES ASSUME RingInv, [Next]_vars PROVE RingInv'
  OBVIOUS
<1>1. TypeOK'
  BY TypeStep DEF RingInv
<1> USE <1>1
\* The steps of the ring.
<1>2. CASE InitBarriers
  <2>1. full' = full /\ empty' = empty
    BY <1>2 DEF InitBarriers, RingInv, FreshOK
  <2> QED
    BY <1>2, <2>1, QuietStep DEF InitBarriers, Reading, Filling, cvars
<1>3. CASE Acquire
  BY <1>3, AcquireStep
<1>4. CASE CopyA
  BY <1>4, CopyAStep
<1>5. CASE CopyB
  BY <1>5, CopyBStep
<1>6. ASSUME NEW l \in loads, LoadDone(l) PROVE RingInv'
  BY <1>6, LoadDoneStep
<1>7. ASSUME NEW w \in Warps, WaitFull(w) PROVE RingInv'
  BY <1>7, WaitFullStep
<1>8. ASSUME NEW w \in Warps, Release(w) PROVE RingInv'
  BY <1>8, ReleaseStep
\* The steps that leave it alone.
<1>9. CASE SyncStart
  BY <1>9, QuietStep DEF SyncStart, Reading, Filling,
     RingInv, TypeOK, pvars, cvars, evars
<1>10. CASE SyncEnd
  BY <1>10, QuietStep DEF SyncEnd, AllLeft, Reading, Filling,
     RingInv, TypeOK, pvars, cvars, evars
<1>11. CASE Invalidate
  BY <1>11, QuietStep DEF Invalidate, Reading, Filling,
     RingInv, TypeOK, pvars, cvars, evars
<1>12. CASE BarSync
  BY <1>12, QuietStep DEF BarSync, Reading, Filling,
     RingInv, TypeOK, pvars, cvars, evars
<1>13. CASE IssueStore
  BY <1>13, QuietStep DEF IssueStore, Reading, Filling,
     RingInv, TypeOK, pvars, cvars, evars
<1>14. ASSUME NEW w \in Warps, Multiply(w) PROVE RingInv'
  BY <1>14, QuietStep DEF Multiply, Reading, RingInv, TypeOK, pvars, evars
<1>15. ASSUME NEW w \in Warps, DrainStore(w) PROVE RingInv'
  BY <1>15, QuietStep DEF DrainStore, Reading, RingInv, TypeOK, pvars, evars
<1>16. ASSUME NEW w \in Warps, StageC(w) PROVE RingInv'
  BY <1>16, QuietStep DEF StageC, Reading, RingInv, TypeOK, pvars, evars
<1>17. ASSUME NEW w \in Warps, FenceC(w) PROVE RingInv'
  BY <1>17, QuietStep DEF FenceC, Reading, RingInv, TypeOK, pvars, evars
<1>18. ASSUME NEW w \in Warps, FinishTile(w) PROVE RingInv'
  BY <1>18, QuietStep DEF FinishTile, Reading, RingInv, TypeOK, pvars, evars
<1>19. ASSUME NEW w \in Warps, FinalWait(w) PROVE RingInv'
  BY <1>19, QuietStep DEF FinalWait, Reading, RingInv, TypeOK, pvars, evars
<1>20. ASSUME NEW st \in stores, StoreRead(st) PROVE RingInv'
  BY <1>20, QuietStep DEF StoreRead, Reading, pvars, cvars
<1>21. CASE UNCHANGED vars
  BY <1>21, QuietStep DEF vars, Reading, pvars, cvars
<1> QED
  BY <1>2, <1>3, <1>4, <1>5, <1>6, <1>7, <1>8, <1>9, <1>10, <1>11, <1>12,
     <1>13, <1>14, <1>15, <1>16, <1>17, <1>18, <1>19, <1>20, <1>21
  DEF Next, BlockStep, ProducerStep, ConsumerStep, TmaStep, Terminated

-----------------------------------------------------------------------------
(* The theorems.                                                           *)

\* The barriers of every slot, the loads and the pipeline states of the
\* producer and of all consumer warps stay in step in every run of a block.
THEOREM GemmRingCorrect == Spec => []RingInv
BY RingInit, RingStep, PTL DEF Spec

\* No TMA load writes a slot that a consumer warp may be reading.
THEOREM GemmNoLoadUnderReader == Spec => []NoLoadUnderReader
<1>1. RingInv => NoLoadUnderReader
  <2> SUFFICES ASSUME RingInv, NEW w \in Warps, Reading(w), NEW l \in loads,
                      NEW i, l.slot = i, i = rState[w].index
               PROVE  FALSE
    BY DEF NoLoadUnderReader
  <2>1. i \in Slots /\ Held(w, i) = 1
    BY DEF Held, RingInv, TypeOK, States
  <2>2. full[i].phase = Armed(i)
    <3>1. /\ Freed(w, i) + Held(w, i) <= full[i].phase
          /\ empty[i].phase <= Freed(w, i)
          /\ full[i].phase <= Armed(i) /\ Armed(i) <= empty[i].phase + 1
      BY <2>1 DEF RingInv, RoundsOK
    <3>2. /\ Freed(w, i) \in Nat /\ full[i].phase \in Nat
          /\ Armed(i) \in Nat /\ empty[i].phase \in Nat
      BY <2>1, RingTypes DEF RingInv
    <3> QED
      BY <2>1, <3>1, <3>2
  <2> QED
    BY <2>1, <2>2, IdleSlot DEF RingInv, FullOK
<1> QED
  BY <1>1, GemmRingCorrect, PTL

\* Every wait looks at a phase that is the one it needs or the one before, so
\* that the parity bit it tests cannot mislead it.
THEOREM GemmNoParityAlias == Spec => []NoParityAlias
<1>1. ASSUME RingInv, NEW w \in Warps, NEW i, i = rState[w].index
      PROVE  full[i].phase - Round(rState[w].count) \in {0, 1}
  <2>1. i \in Slots /\ Freed(w, i) = Round(rState[w].count)
    BY <1>1, StateRound DEF RingInv, TypeOK, StatesOK, Freed
  <2>2. /\ Freed(w, i) \in Nat /\ full[i].phase \in Nat
        /\ Armed(i) \in Nat /\ empty[i].phase \in Nat
        /\ Held(w, i) \in {0, 1}
    BY <1>1, <2>1, RingTypes DEF RingInv
  <2>3. /\ Freed(w, i) + Held(w, i) <= full[i].phase
        /\ empty[i].phase <= Freed(w, i)
        /\ full[i].phase <= Armed(i) /\ Armed(i) <= empty[i].phase + 1
    BY <1>1, <2>1 DEF RingInv, RoundsOK
  <2> QED
    BY <2>1, <2>2, <2>3
<1>2. ASSUME RingInv, ppc = "acquire", NEW i, i = wState.index
      PROVE  Round(wState.count) - empty[i].phase \in {0, 1}
  <2>1. i \in Slots /\ Armed(i) = Round(wState.count)
    <3>1. i \in Slots /\ Uses(wState.count, i) = Round(wState.count)
          /\ wState.count \in Nat
      BY <1>2, StateRound DEF RingInv, TypeOK, StatesOK
    <3>2. Uses(wState.count, i) \in Nat
      BY <3>1, UsesFacts
    <3> QED
      BY <1>2, <3>1, <3>2 DEF Armed, Filling
  <2>2. /\ full[i].phase \in Nat /\ Armed(i) \in Nat
        /\ empty[i].phase \in Nat /\ Freed(Leader, i) \in Nat
        /\ Held(Leader, i) \in {0, 1}
    BY <1>2, <2>1, RingTypes, WarpsAssumption DEF RingInv
  <2>3. /\ empty[i].phase <= Freed(Leader, i)
        /\ Freed(Leader, i) + Held(Leader, i) <= full[i].phase
        /\ full[i].phase <= Armed(i) /\ Armed(i) <= empty[i].phase + 1
    BY <1>2, <2>1, WarpsAssumption DEF RingInv, RoundsOK
  <2> QED
    BY <2>1, <2>2, <2>3
<1>3. RingInv => NoParityAlias
  BY <1>1, <1>2 DEF NoParityAlias
<1> QED
  BY <1>3, GemmRingCorrect, PTL

-----------------------------------------------------------------------------
(* Arithmetic of the loops.                                                *)

\* The label of a use of the ring, and how it follows from the one before.
LEMMA TileFacts ==
  ASSUME NEW n \in Nat
  PROVE  /\ TileOf(n) \in Nat /\ KOf(n) \in 0 .. KNum - 1
         /\ KOf(n) + 1 = KNum => /\ TileOf(n + 1) = TileOf(n) + GridDim
                                 /\ KOf(n + 1) = 0
         /\ KOf(n) + 1 # KNum => /\ TileOf(n + 1) = TileOf(n)
                                 /\ KOf(n + 1) = KOf(n) + 1
<1> DEFINE q == n \div KNum
           r == n % KNum
           q1 == (n + 1) \div KNum
           r1 == (n + 1) % KNum
<1>1. /\ KNum \in Nat \ {0} /\ GridDim \in Nat \ {0} /\ BlockIdx \in Nat
  BY GridAssumption
<1>2. /\ q \in Nat /\ r \in 0 .. KNum - 1 /\ n = KNum * q + r
      /\ q1 \in Nat /\ r1 \in 0 .. KNum - 1 /\ n + 1 = KNum * q1 + r1
  <2>1. n + 1 \in Nat
    OBVIOUS
  <2>2. q \in Nat /\ r \in 0 .. KNum - 1 /\ n = KNum * q + r
    BY <1>1, Division
  <2>3. q1 \in Nat /\ r1 \in 0 .. KNum - 1 /\ n + 1 = KNum * q1 + r1
    BY <1>1, <2>1, Division
  <2> QED
    BY <2>2, <2>3
<1>3. /\ TileOf(n) = BlockIdx + GridDim * q /\ KOf(n) = r
      /\ TileOf(n + 1) = BlockIdx + GridDim * q1 /\ KOf(n + 1) = r1
  BY DEF TileOf, KOf
<1> HIDE DEF q, r, q1, r1
<1>4. GridDim * q \in Nat /\ GridDim * (q + 1) = GridDim * q + GridDim
  BY <1>1, <1>2
<1>5. CASE r + 1 = KNum
  <2>1. KNum * (q + 1) + 0 = KNum * q1 + r1
    BY <1>1, <1>2, <1>5
  <2>2. q + 1 = q1 /\ r1 = 0
    <3>1. q + 1 \in Int /\ q1 \in Int /\ 0 \in 0 .. KNum - 1
      BY <1>1, <1>2
    <3> QED
      BY <1>1, <1>2, <2>1, <3>1, DivisionUnique
  <2> QED
    BY <1>1, <1>2, <1>3, <1>4, <1>5, <2>2
<1>6. CASE r + 1 # KNum
  <2>1. KNum * q + (r + 1) = KNum * q1 + r1
    BY <1>1, <1>2
  <2>2. q = q1 /\ r1 = r + 1
    <3>1. q \in Int /\ q1 \in Int /\ r + 1 \in 0 .. KNum - 1
      BY <1>1, <1>2, <1>6
    <3> QED
      BY <1>1, <1>2, <2>1, <3>1, DivisionUnique
  <2> QED
    BY <1>1, <1>2, <1>3, <1>4, <1>6, <2>2
<1> QED
  BY <1>5, <1>6

\* A block takes every GridDim-th tile, starting with BlockIdx.
LEMMA TileMine ==
  ASSUME NEW c \in Nat, NEW q \in Int, c = GridDim * q + BlockIdx
  PROVE  /\ c < TilesNum => c \in Mine
         /\ \A t \in Mine : c <= t /\ t < c + GridDim => t = c
<1>1. /\ GridDim \in Nat \ {0} /\ BlockIdx \in 0 .. GridDim - 1
      /\ TilesNum \in Nat
  BY GridAssumption
<1>2. c % GridDim = BlockIdx
  <2> DEFINE a == c \div GridDim
             b == c % GridDim
  <2>1. a \in Nat /\ b \in 0 .. GridDim - 1 /\ c = GridDim * a + b
    BY <1>1, Division
  <2> HIDE DEF a, b
  <2>2. GridDim * a + b = GridDim * q + BlockIdx
    BY <2>1
  <2>3. b = BlockIdx
    <3>1. a \in Int /\ q \in Int
      BY <2>1
    <3> QED
      BY ONLY <1>1, <2>1, <2>2, <3>1, DivisionUnique
  <2> QED
    BY <2>3 DEF b
<1>3. ASSUME NEW t \in Mine, c <= t, t < c + GridDim
      PROVE  t = c
  <2> DEFINE a == t \div GridDim
  <2>1. t \in Nat /\ t % GridDim = BlockIdx
    BY <1>1 DEF Mine, Tiles
  <2>2. a \in Nat /\ t = GridDim * a + BlockIdx
    BY <1>1, <2>1, Division
  <2> HIDE DEF a
  <2>3. t - c \in 0 .. GridDim - 1
    BY <1>1, <1>3, <2>1
  <2>4. GridDim * a + 0 = GridDim * q + (t - c)
    BY <1>1, <2>1, <2>2
  <2>5. a = q
    <3>1. a \in Int /\ 0 \in 0 .. GridDim - 1
      BY <1>1, <2>2
    <3> QED
      BY <1>1, <2>3, <2>4, <3>1, DivisionUnique
  <2> QED
    BY <2>2, <2>5
<1>4. c < TilesNum => c \in Mine
  BY <1>1, <1>2 DEF Mine, Tiles
<1> QED
  BY <1>3, <1>4

\* The loops of all threads end after the same number of uses of the ring.
LEMMA SameEnd ==
  ASSUME NEW m \in Nat, NEW n \in Nat, KOf(m) = 0, KOf(n) = 0,
         TileOf(m) >= TilesNum, TileOf(m) < TilesNum + GridDim,
         TileOf(n) >= TilesNum, TileOf(n) < TilesNum + GridDim
  PROVE  m = n
<1> DEFINE p == m \div KNum
           q == n \div KNum
<1>1. /\ KNum \in Nat \ {0} /\ GridDim \in Nat \ {0}
      /\ BlockIdx \in Nat /\ TilesNum \in Nat
  BY GridAssumption
<1>2. p \in Nat /\ m = KNum * p /\ TileOf(m) = BlockIdx + GridDim * p
  <2>1. p \in Nat /\ m = KNum * p + KOf(m)
    BY <1>1, Division DEF KOf
  <2>2. TileOf(m) = BlockIdx + GridDim * p
    BY DEF TileOf
  <2> HIDE DEF p
  <2> QED
    BY <1>1, <2>1, <2>2
<1>3. q \in Nat /\ n = KNum * q /\ TileOf(n) = BlockIdx + GridDim * q
  <2>1. q \in Nat /\ n = KNum * q + KOf(n)
    BY <1>1, Division DEF KOf
  <2>2. TileOf(n) = BlockIdx + GridDim * q
    BY DEF TileOf
  <2> HIDE DEF q
  <2> QED
    BY <1>1, <2>1, <2>2
<1> HIDE DEF p, q
<1>4. \A a, b \in Nat : a < b => GridDim * a + GridDim <= GridDim * b
  <2> SUFFICES ASSUME NEW a \in Nat, NEW b \in Nat, a < b
               PROVE  GridDim * a + GridDim <= GridDim * b
    OBVIOUS
  <2>1. GridDim * (b - a) >= GridDim
    BY <1>1
  <2> QED
    BY <1>1, <2>1
<1>5. GridDim * p \in Nat /\ GridDim * q \in Nat
  BY <1>1, <1>2, <1>3
<1>6. ~ p < q /\ ~ q < p
  BY <1>1, <1>2, <1>3, <1>4, <1>5
<1>7. p = q
  BY <1>2, <1>3, <1>6
<1> QED
  BY <1>2, <1>3, <1>7

-----------------------------------------------------------------------------
(* The loops of the producer and of the consumers.                         *)

LEMMA GridFacts ==
  /\ GridDim \in Nat /\ GridDim > 0 /\ TilesNum \in Nat
  /\ KNum \in Nat /\ KNum > 0 /\ BlockIdx \in Nat /\ BlockIdx < TilesNum
BY GridAssumption

\* The counts and the loop variables are numbers.
LEMMA LoopTypes ==
  ASSUME TypeOK
  PROVE  /\ wState.count \in Nat /\ pTile \in Nat /\ pK \in Nat
         /\ \A w \in Warps : /\ rState[w].count \in Nat
                             /\ cTile[w] \in Nat /\ cK[w] \in Nat
BY GridFacts DEF TypeOK, States

LEMMA LoopsInit == Init => LoopsInv
<1> SUFFICES ASSUME Init PROVE LoopsInv
  OBVIOUS
<1>1. TileOf(0) = BlockIdx /\ KOf(0) = 0
  <2>1. 0 \div KNum = 0 /\ 0 % KNum = 0
    BY GridFacts
  <2> QED
    BY <2>1, GridFacts DEF TileOf, KOf
<1>2. ProducerOK
  BY <1>1, GridFacts DEF Init, ProducerOK, NewState
<1>3. ConsumerOK
  BY <1>1, GridFacts DEF Init, ConsumerOK, NewState, InEpilogue, LoopOver
<1>4. PhasesOK
  BY DEF Init, PhasesOK
<1> QED
  BY <1>2, <1>3, <1>4 DEF LoopsInv

\* A step that leaves the consumers alone.
LEMMA QuietConsumers ==
  ASSUME ConsumerOK, UNCHANGED <<cpc, cTile, cK, rState>>
  PROVE  ConsumerOK'
BY DEF ConsumerOK, InEpilogue, LoopOver

\* A step of one consumer warp that leaves the producer alone.
LEMMA ConsumerLoops ==
  ASSUME TypeOK, LoopsInv, NEW w \in Warps, UNCHANGED <<bars, loads, pvars>>,
         cpc[w] \notin {"sync", "done"}, cpc'[w] \notin {"sync", "done"},
         \A v \in Warps \ {w} : cpc'[v] = cpc[v],
         ConsumerOK'
  PROVE  LoopsInv'
<1>1. ProducerOK'
  BY DEF LoopsInv, ProducerOK, pvars
<1>2. PhasesOK'
  BY DEF LoopsInv, PhasesOK, pvars
<1> QED
  BY <1>1, <1>2 DEF LoopsInv

\* A step of a consumer warp inside its loops: its count stays the same.
LEMMA ConsumerStays ==
  ASSUME TypeOK, LoopsInv, NEW w \in Warps, UNCHANGED <<bars, loads, pvars>>,
         UNCHANGED <<cTile, cK, rState>>,
         NEW p \in CPcs, cpc' = [cpc EXCEPT ![w] = p],
         cpc[w] \notin {"sync", "done"}, p \notin {"sync", "done"},
         InEpilogue(w)' <=> InEpilogue(w), LoopOver(w)' <=> LoopOver(w)
  PROVE  LoopsInv'
<1>1. \A v \in Warps \ {w} : cpc'[v] = cpc[v]
  BY DEF TypeOK
<1>2. cpc'[w] = p
  BY DEF TypeOK
<1>3. ConsumerOK'
  BY <1>1 DEF LoopsInv, ConsumerOK, InEpilogue, LoopOver
<1> QED
  BY <1>1, <1>2, <1>3, ConsumerLoops

LEMMA LoopsStep == TypeOK /\ LoopsInv /\ [Next]_vars => LoopsInv'
<1> SUFFICES ASSUME TypeOK, LoopsInv, [Next]_vars PROVE LoopsInv'
  OBVIOUS
<1> USE GridFacts, LoopTypes
<1>1. CASE InitBarriers
  BY <1>1, QuietConsumers
  DEF InitBarriers, LoopsInv, ProducerOK, PhasesOK, cvars
<1>2. CASE SyncStart
  BY <1>2 DEF SyncStart, LoopsInv, ProducerOK, ConsumerOK, PhasesOK,
     InEpilogue, LoopOver
<1>3. CASE SyncEnd
  BY <1>3 DEF SyncEnd, AllLeft, LoopsInv, ProducerOK, ConsumerOK, PhasesOK,
     InEpilogue, LoopOver
<1>4. CASE Invalidate
  BY <1>4, QuietConsumers
  DEF Invalidate, LoopsInv, ProducerOK, PhasesOK, cvars
<1>5. CASE Acquire
  BY <1>5, QuietConsumers
  DEF Acquire, LoopsInv, ProducerOK, PhasesOK, cvars
<1>6. CASE CopyA
  BY <1>6, QuietConsumers
  DEF CopyA, LoopsInv, ProducerOK, PhasesOK, cvars
<1>7. CASE CopyB
  <2>1. PhasesOK' /\ ConsumerOK'
    BY <1>7, QuietConsumers DEF CopyB, LoopsInv, PhasesOK, cvars
  <2>2. wState'.count = wState.count + 1
    BY <1>7 DEF CopyB, Advance
  <2>3. ProducerOK'
    BY <1>7, <2>2, TileFacts DEF CopyB, LoopsInv, ProducerOK, LastK
  <2> QED
    BY <2>1, <2>3 DEF LoopsInv
<1>8. ASSUME NEW l \in loads, LoadDone(l) PROVE LoopsInv'
  BY <1>8, QuietConsumers
  DEF LoadDone, LoopsInv, ProducerOK, PhasesOK, cvars, pvars
<1>9. ASSUME NEW w \in Warps, WaitFull(w) PROVE LoopsInv'
  BY <1>9, ConsumerStays DEF WaitFull, TypeOK, CPcs, InEpilogue, LoopOver
<1>10. ASSUME NEW w \in Warps, Multiply(w) PROVE LoopsInv'
  BY <1>10, ConsumerStays DEF Multiply, TypeOK, CPcs, InEpilogue, LoopOver
<1>11. ASSUME NEW w \in Warps, Release(w) PROVE LoopsInv'
  <2>1. rState'[w].count = rState[w].count + 1
    BY <1>11 DEF Release, Advance, TypeOK
  <2>2. \A v \in Warps \ {w} : /\ cpc'[v] = cpc[v] /\ rState'[v] = rState[v]
                              /\ cK'[v] = cK[v] /\ cTile'[v] = cTile[v]
    BY <1>11 DEF Release, TypeOK
  <2>3. ConsumerOK'
    <3> SUFFICES ASSUME NEW v \in Warps
                 PROVE  /\ TileOf(rState'[v].count)
                             = cTile'[v]
                               + (IF InEpilogue(v)' THEN GridDim ELSE 0)
                        /\ cK'[v] = KOf(rState'[v].count)
                        /\ cTile'[v] >= TilesNum <=> LoopOver(v)'
                        /\ cTile'[v] < TilesNum + GridDim
                        /\ InEpilogue(v)' \/ LoopOver(v)' => cK'[v] = 0
      BY DEF ConsumerOK
    <3>1. CASE v = w
      <4>1. /\ cTile' = cTile /\ cpc[w] = "release"
            /\ cK'[w] = IF cK[w] + 1 = KNum THEN 0 ELSE cK[w] + 1
            /\ cpc'[w] = IF cK[w] + 1 = KNum THEN "drain" ELSE "wait"
        BY <1>11 DEF Release, LastK, TypeOK
      <4>2. /\ TileOf(rState[w].count) = cTile[w]
            /\ KOf(rState[w].count) = cK[w]
            /\ cTile[w] < TilesNum
        BY <4>1 DEF LoopsInv, ConsumerOK, InEpilogue, LoopOver
      <4>3. CASE cK[w] + 1 = KNum
        <5>1. /\ TileOf(rState'[w].count) = cTile[w] + GridDim
              /\ KOf(rState'[w].count) = 0
          BY <2>1, <4>2, <4>3, TileFacts
        <5> QED
          BY <3>1, <4>1, <4>2, <4>3, <5>1 DEF InEpilogue, LoopOver
      <4>4. CASE cK[w] + 1 # KNum
        <5>1. /\ TileOf(rState'[w].count) = cTile[w]
              /\ KOf(rState'[w].count) = cK[w] + 1
          BY <2>1, <4>2, <4>4, TileFacts
        <5> QED
          BY <3>1, <4>1, <4>2, <4>4, <5>1 DEF InEpilogue, LoopOver
      <4> QED
        BY <4>3, <4>4
    <3>2. CASE v # w
      BY <3>2, <2>2 DEF LoopsInv, ConsumerOK, InEpilogue, LoopOver
    <3> QED
      BY <3>1, <3>2
  <2> QED
    BY <1>11, <2>2, <2>3, ConsumerLoops DEF Release, TypeOK
<1>12. ASSUME NEW w \in Warps, DrainStore(w) PROVE LoopsInv'
  BY <1>12, ConsumerStays DEF DrainStore, TypeOK, CPcs, InEpilogue, LoopOver
<1>13. ASSUME NEW w \in Warps, StageC(w) PROVE LoopsInv'
  BY <1>13, ConsumerStays DEF StageC, TypeOK, CPcs, InEpilogue, LoopOver
<1>14. ASSUME NEW w \in Warps, FenceC(w) PROVE LoopsInv'
  BY <1>14, ConsumerStays DEF FenceC, TypeOK, CPcs, InEpilogue, LoopOver
<1>15. ASSUME NEW w \in Warps, FinishTile(w) PROVE LoopsInv'
  <2>1. \A v \in Warps \ {w} : cpc'[v] = cpc[v] /\ cTile'[v] = cTile[v]
    BY <1>15 DEF FinishTile, TypeOK
  <2>2. ConsumerOK'
    BY <1>15, <2>1
    DEF FinishTile, TypeOK, LoopsInv, ConsumerOK, InEpilogue, LoopOver
  <2> QED
    BY <1>15, <2>1, <2>2, ConsumerLoops DEF FinishTile, TypeOK
<1>16. ASSUME NEW w \in Warps, FinalWait(w) PROVE LoopsInv'
  BY <1>16, ConsumerStays DEF FinalWait, TypeOK, CPcs, InEpilogue, LoopOver
<1>17. CASE BarSync
  <2>1. /\ \A w \in Warps :
             \/ cpc[w] = "bar1" /\ cpc'[w] = "stage"
             \/ cpc[w] = "bar2" /\ cpc'[w] = "store"
        /\ UNCHANGED <<bars, loads, pvars, cTile, cK, rState>>
    BY <1>17 DEF BarSync, AllAtBarSync, AtBarSync
  <2> QED
    BY <2>1 DEF LoopsInv, ProducerOK, ConsumerOK, PhasesOK, InEpilogue,
       LoopOver, pvars
<1>18. CASE IssueStore
  BY <1>18, ConsumerStays, WarpsAssumption
  DEF IssueStore, TypeOK, CPcs, InEpilogue, LoopOver
<1>19. ASSUME NEW st \in stores, StoreRead(st) PROVE LoopsInv'
  BY <1>19, QuietConsumers
  DEF StoreRead, LoopsInv, ProducerOK, PhasesOK, cvars, pvars
<1>20. CASE UNCHANGED vars
  BY <1>20, QuietConsumers
  DEF vars, LoopsInv, ProducerOK, PhasesOK, cvars, pvars
<1> QED
  BY <1>1, <1>2, <1>3, <1>4, <1>5, <1>6, <1>7, <1>8, <1>9, <1>10, <1>11,
     <1>12, <1>13, <1>14, <1>15, <1>16, <1>17, <1>18, <1>19, <1>20
  DEF Next, BlockStep, ProducerStep, ConsumerStep, TmaStep, Terminated

-----------------------------------------------------------------------------
(* What the slots hold.                                                    *)

\* A pipeline state counts to its slot and the rounds made over it.
LEMMA CountOf ==
  ASSUME NEW st \in States, StateOK(st)
  PROVE  st.count = STAGE * Uses(st.count, st.index) + st.index
<1>1. st.count \in Nat /\ STAGE \in Nat \ {0}
  BY StageAssumption DEF States
<1>2. st.count = STAGE * (st.count \div STAGE) + (st.count % STAGE)
  BY <1>1, Division
<1> QED
  BY <1>2, StateRound DEF StateOK, Round

\* While the producer fills a slot, the last use of the slot is the current
\* use of the producer.
LEMMA FillingUse ==
  ASSUME RingInv, Filling, NEW i, i = wState.index
  PROVE  i \in Slots /\ Armed(i) \in Nat /\ LastUse(i) = wState.count
<1>1. wState \in States /\ StateOK(wState) /\ i \in Slots
  BY DEF RingInv, TypeOK, StatesOK, States
<1>2. Uses(wState.count, i) \in Nat /\ Armed(i) = Uses(wState.count, i) + 1
  BY <1>1, UsesFacts DEF Armed, States
<1>3. Armed(i) - 1 = Uses(wState.count, i) /\ Armed(i) \in Nat
  BY <1>2
<1> QED
  BY <1>1, <1>3, CountOf DEF LastUse

\* A slot that is a round ahead of a warp holds what the warp comes to next,
\* complete.
LEMMA CurrentUse ==
  ASSUME RingInv, NEW w \in Warps, NEW i, i = rState[w].index,
         full[i].phase > Freed(w, i)
  PROVE  /\ i \in Slots /\ Armed(i) > 0 /\ LastUse(i) = rState[w].count
         /\ \A m \in Mats : Owed(m, i) = 0
<1>1. rState[w] \in States /\ StateOK(rState[w]) /\ i \in Slots
  BY DEF RingInv, TypeOK, StatesOK, States
<1>2. /\ full[i].phase <= Armed(i) /\ Armed(i) <= empty[i].phase + 1
      /\ empty[i].phase <= Freed(w, i)
  BY <1>1 DEF RingInv, RoundsOK
<1>3. /\ full[i].phase \in Nat /\ empty[i].phase \in Nat
      /\ Armed(i) \in Nat /\ Freed(w, i) \in Nat
  BY <1>1, RingTypes DEF RingInv
<1>4. /\ Armed(i) - 1 = Freed(w, i) /\ full[i].phase = Armed(i)
      /\ Armed(i) > 0
  BY <1>2, <1>3
<1>5. LastUse(i) = rState[w].count
  BY <1>1, <1>4, CountOf DEF LastUse, Freed
<1>6. \A m \in Mats : Owed(m, i) = 0
  <2>1. full[i].tx = 0
    BY <1>1, <1>4 DEF RingInv, FullOK
  <2>2. \A m \in Mats : ~ Unissued(m, i) /\ \A l \in loads : l.slot # i
    BY <1>1, <2>1, IdleSlot
  <2> QED
    BY <2>2 DEF Owed, InFlight
<1> QED
  BY <1>1, <1>4, <1>5, <1>6

LEMMA LabelsInit == Init => LabelsOK
<1> SUFFICES ASSUME Init PROVE LabelsOK
  OBVIOUS
<1>1. ASSUME NEW s \in Slots PROVE Armed(s) = 0
  <2>1. Uses(0, s) = 0
    BY UsesFacts
  <2> QED
    BY <2>1 DEF Init, Armed, Filling, NewState
<1> QED
  BY <1>1 DEF Init, LabelsOK

\* A step that leaves the slots, the loads and the producer alone.
LEMMA QuietLabels ==
  ASSUME LabelsOK, UNCHANGED <<smem, loads, wState>>,
         ppc' = ppc \/ (~ Filling /\ ~ Filling')
  PROVE  LabelsOK'
<1>1. \A s \in Slots : Armed(s)' = Armed(s) /\ LastUse(s)' = LastUse(s)
  BY DEF Armed, LastUse, Filling
<1>2. \A m \in Mats, s \in Slots : Owed(m, s)' = Owed(m, s)
  BY DEF Owed, Unissued, InFlight, Filling
<1> QED
  BY <1>1, <1>2 DEF LabelsOK, Label

\* A step of the producer that issues an operand of its current use.
LEMMA IssueLabels ==
  ASSUME RingInv, ProducerOK, LabelsOK, NEW i, i = wState.index,
         NEW m \in Mats, Issue(m), Unissued(m, i),
         \A s \in Slots : Armed(s)' = Armed(s),
         \A n \in Mats, s \in Slots :
           Unissued(n, s)' <=> Unissued(n, s) /\ ~ (n = m /\ s = i)
  PROVE  LabelsOK'
<1>1. /\ i \in Slots /\ LastUse(i) = wState.count
      /\ <<pTile, pK>> = Label(wState.count)
  BY FillingUse DEF Unissued, ProducerOK, Label
<1>2. PICK x : /\ loads' = loads \cup {x} /\ x.mat = m /\ x.slot = i
               /\ x.data = Label(LastUse(i))
  <2> DEFINE y == [mat |-> m, slot |-> wState.index, data |-> <<pTile, pK>>]
  <2>1. y.mat = m /\ y.slot = i /\ y.data = Label(LastUse(i))
    BY <1>1
  <2>2. loads' = loads \cup {y}
    BY DEF Issue
  <2> HIDE DEF y
  <2> QED
    BY <2>1, <2>2
<1>3. \A s \in Slots : LastUse(s)' = LastUse(s)
  BY DEF LastUse
<1>4. Owed(m, i)' = 1
  BY <1>2 DEF Owed, InFlight
<1>5. \A n \in Mats, s \in Slots : Owed(n, s)' = Owed(n, s)
  BY IssueOwed
<1>6. \A n \in Mats, s \in Slots :
        ~ (n = m /\ s = i) => smem'[<<n, s>>] = smem[<<n, s>>]
  BY DEF Issue, RingInv, TypeOK
<1>7. ASSUME NEW n \in Mats, NEW s \in Slots
      PROVE  /\ \A l \in loads' :
                  l.mat = n /\ l.slot = s => l.data = Label(LastUse(s)')
             /\ Armed(s)' > 0 /\ Owed(n, s)' = 0
                  => smem'[<<n, s>>] = Label(LastUse(s)')
  <2>1. \A l \in loads' :
          l.mat = n /\ l.slot = s => l.data = Label(LastUse(s))
    BY <1>2 DEF LabelsOK
  <2>2. CASE n = m /\ s = i
    BY <2>1, <2>2, <1>3, <1>4
  <2>3. CASE ~ (n = m /\ s = i)
    BY <2>1, <2>3, <1>3, <1>5, <1>6 DEF LabelsOK
  <2> QED
    BY <2>2, <2>3
<1> QED
  BY <1>7 DEF LabelsOK, Label

LEMMA LabelsStep ==
  RingInv /\ LoopsInv /\ LabelsOK /\ [Next]_vars => LabelsOK'
<1> SUFFICES ASSUME RingInv, LoopsInv, LabelsOK, [Next]_vars PROVE LabelsOK'
  OBVIOUS
<1>1. CASE Acquire
  <2>1. PICK i : i = wState.index
    OBVIOUS
  <2>2. UNCHANGED <<smem, loads>>
    BY <1>1 DEF Acquire
  <2>3. ASSUME NEW m \in Mats, NEW s \in Slots
        PROVE  /\ \A l \in loads' :
                    l.mat = m /\ l.slot = s => l.data = Label(LastUse(s)')
               /\ Armed(s)' > 0 /\ Owed(m, s)' = 0
                    => smem'[<<m, s>>] = Label(LastUse(s)')
    <3>1. CASE s = i
      <4>1. Owed(m, i)' = 1 /\ \A l \in loads : l.slot # i
        BY <1>1, <2>1, AcquireFacts DEF Owed
      <4> QED
        BY <3>1, <2>2, <4>1
    <3>2. CASE s # i
      <4>1. Armed(s)' = Armed(s) /\ LastUse(s)' = LastUse(s)
        BY <1>1, <2>1, <3>2, AcquireFacts DEF LastUse
      <4>2. Owed(m, s)' = Owed(m, s)
        BY <1>1, <2>1, <2>2, <3>2, AcquireFacts DEF Owed, InFlight
      <4> QED
        BY <2>2, <4>1, <4>2 DEF LabelsOK
    <3> QED
      BY <3>1, <3>2
  <2> QED
    BY <2>3 DEF LabelsOK, Label
<1>2. CASE CopyA
  BY <1>2, CopyAFacts, IssueLabels DEF LoopsInv
<1>3. CASE CopyB
  BY <1>3, CopyBFacts, IssueLabels DEF LoopsInv
<1>4. ASSUME NEW l \in loads, LoadDone(l) PROVE LabelsOK'
  <2>1. PICK i : i = l.slot
    OBVIOUS
  <2>2. /\ i \in Slots /\ l.mat \in Mats /\ loads' = loads \ {l}
        /\ smem' = [smem EXCEPT ![<<l.mat, i>>] = l.data]
        /\ l.data = Label(LastUse(i))
    BY <1>4, <2>1 DEF LoadDone, RingInv, TypeOK, Loads, LabelsOK
  <2>3. \A s \in Slots : Armed(s)' = Armed(s) /\ LastUse(s)' = LastUse(s)
    BY <1>4, <2>1, LoadDoneFacts DEF LastUse
  <2>4. \A m \in Mats, s \in Slots :
          ~ (m = l.mat /\ s = i) => /\ Owed(m, s)' = Owed(m, s)
                                    /\ smem'[<<m, s>>] = smem[<<m, s>>]
    BY <1>4, <2>1, <2>2, LoadDoneFacts DEF RingInv, TypeOK
  <2>5. smem'[<<l.mat, i>>] = l.data
    BY <2>2 DEF RingInv, TypeOK
  <2>6. ASSUME NEW m \in Mats, NEW s \in Slots
        PROVE  /\ \A k \in loads' :
                    k.mat = m /\ k.slot = s => k.data = Label(LastUse(s)')
               /\ Armed(s)' > 0 /\ Owed(m, s)' = 0
                    => smem'[<<m, s>>] = Label(LastUse(s)')
    <3>1. \A k \in loads' :
            k.mat = m /\ k.slot = s => k.data = Label(LastUse(s))
      BY <2>2 DEF LabelsOK
    <3>2. CASE m = l.mat /\ s = i
      BY <3>1, <3>2, <2>2, <2>3, <2>5
    <3>3. CASE ~ (m = l.mat /\ s = i)
      BY <3>1, <3>3, <2>3, <2>4 DEF LabelsOK
    <3> QED
      BY <3>2, <3>3
  <2> QED
    BY <2>6 DEF LabelsOK, Label
<1>5. CASE BlockStep
  BY <1>5, QuietLabels
  DEF BlockStep, InitBarriers, SyncStart, SyncEnd, AllLeft, Invalidate, Filling
<1>6. ASSUME NEW w \in Warps, ConsumerStep(w) PROVE LabelsOK'
  BY <1>6, QuietLabels
  DEF ConsumerStep, WaitFull, Multiply, Release, DrainStore, StageC, FenceC,
      FinishTile, FinalWait, pvars
<1>7. CASE BarSync \/ IssueStore \/ UNCHANGED vars
  BY <1>7, QuietLabels DEF BarSync, IssueStore, vars, pvars
<1>8. ASSUME NEW st \in stores, StoreRead(st) PROVE LabelsOK'
  BY <1>8, QuietLabels DEF StoreRead, pvars
<1> QED
  BY <1>1, <1>2, <1>3, <1>4, <1>5, <1>6, <1>7, <1>8
  DEF Next, ProducerStep, TmaStep, Terminated

-----------------------------------------------------------------------------
(* What the accumulators hold.                                             *)

LEMMA SumFacts ==
  ASSUME NEW t \in Nat, NEW n \in Nat
  PROVE  /\ SumTo(t, n) \in Seq((Nat \X Nat) \X (Nat \X Nat))
         /\ Len(SumTo(t, n)) = n
         /\ SumTo(t, 0) = << >>
         /\ Append(SumTo(t, n), << <<t, n>>, <<t, n>> >>) = SumTo(t, n + 1)
         /\ SumTo(t, KNum) = FullSum(t)
         /\ n <= KNum => SumTo(t, n) = SubSeq(FullSum(t), 1, n)
<1> DEFINE P == (Nat \X Nat) \X (Nat \X Nat)
           f == [i \in 1 .. n |-> << <<t, i - 1>>, <<t, i - 1>> >>]
           x == << <<t, n>>, <<t, n>> >>
<1>1. f \in Seq(P) /\ Len(f) = n
  <2>1. f \in [1 .. n -> P]
    OBVIOUS
  <2> QED
    BY <2>1
<1>2. Append(f, x) = SumTo(t, n + 1)
  <2> DEFINE g == [i \in 1 .. n + 1 |-> << <<t, i - 1>>, <<t, i - 1>> >>]
  <2>1. /\ Append(f, x) \in Seq(P) /\ Len(Append(f, x)) = n + 1
        /\ \A i \in 1 .. n : Append(f, x)[i] = f[i]
        /\ Append(f, x)[n + 1] = x
    <3>1. x \in P
      OBVIOUS
    <3> HIDE DEF f, x
    <3> QED
      BY <1>1, <3>1
  <2>2. \A i \in 1 .. n + 1 : Append(f, x)[i] = g[i]
    <3> SUFFICES ASSUME NEW i \in 1 .. n + 1 PROVE Append(f, x)[i] = g[i]
      OBVIOUS
    <3>1. CASE i = n + 1
      BY <2>1, <3>1
    <3>2. CASE i # n + 1
      <4>1. i \in 1 .. n
        BY <3>2
      <4> QED
        BY <2>1, <4>1
    <3> QED
      BY <3>1, <3>2
  <2>3. Append(f, x) = [i \in 1 .. n + 1 |-> Append(f, x)[i]]
    BY <2>1
  <2>4. [i \in 1 .. n + 1 |-> Append(f, x)[i]] = g
    BY <2>2
  <2> QED
    BY <2>3, <2>4 DEF SumTo
<1>3. SumTo(t, 0) = << >>
  BY DEF SumTo
<1>4. SumTo(t, KNum) = FullSum(t)
  BY DEF SumTo, FullSum
<1>5. ASSUME n <= KNum PROVE SumTo(t, n) = SubSeq(FullSum(t), 1, n)
  <2> DEFINE h == [i \in 1 .. KNum |-> << <<t, i - 1>>, <<t, i - 1>> >>]
  <2>1. h \in Seq(P) /\ Len(h) = KNum
    <3>1. h \in [1 .. KNum -> P]
      OBVIOUS
    <3> QED
      BY <3>1, GridFacts
  <2>2. /\ SubSeq(h, 1, n) \in Seq(P) /\ Len(SubSeq(h, 1, n)) = n
        /\ \A i \in 1 .. n : SubSeq(h, 1, n)[i] = h[i]
    <3> HIDE DEF h, P
    <3> QED
      BY <1>5, <2>1, GridFacts
  <2>3. \A i \in 1 .. n : SubSeq(h, 1, n)[i] = f[i]
    BY <1>5, <2>2, GridFacts
  <2>4. SubSeq(h, 1, n) = [i \in 1 .. n |-> SubSeq(h, 1, n)[i]]
    BY <2>2
  <2>5. [i \in 1 .. n |-> SubSeq(h, 1, n)[i]] = f
    BY <2>3
  <2> QED
    BY <2>4, <2>5 DEF SumTo, FullSum
<1>6. SumTo(t, n) = f
  BY DEF SumTo
<1> QED
  BY <1>1, <1>2, <1>3, <1>4, <1>5, <1>6

LEMMA SumsInit == Init => SumsOK
<1> SUFFICES ASSUME Init PROVE SumsOK
  OBVIOUS
<1>1. SumTo(BlockIdx, 0) = << >>
  BY GridFacts, SumFacts
<1>2. \A w \in Warps : Progress(w) = 0
  BY DEF Init, Progress, InEpilogue
<1> QED
  BY <1>1, <1>2 DEF Init, SumsOK

\* What a warp reads from its slot is the operand pair of its k-block: before
\* it copies the B fragments, and as long as it holds the slot.
LEMMA SlotContents ==
  ASSUME RingInv, LoopsInv, LabelsOK, NEW w \in Warps,
         \/ cpc[w] = "wait" /\ SlotFull(w)
         \/ Reading(w)
  PROVE  \A m \in Mats :
           smem[<<m, rState[w].index>>] = <<cTile[w], cK[w]>>
<1> DEFINE i == rState[w].index
<1>1. i \in Slots /\ rState[w].index = i
  BY DEF RingInv, TypeOK, States
<1>2. full[i].phase \in Nat /\ Freed(w, i) \in Nat
  BY <1>1, RingTypes DEF RingInv
<1> HIDE DEF i
<1>3. full[i].phase > Freed(w, i)
  <2>1. CASE SlotFull(w)
    <3>1. full[i].phase = Freed(w, i) + 1
      BY <1>1, <2>1, FullSlot
    <3> QED
      BY <1>2, <3>1
  <2>2. CASE Reading(w)
    <3>1. Freed(w, i) + 1 <= full[i].phase
      BY <1>1, <2>2 DEF Held, RingInv, RoundsOK
    <3> QED
      BY <1>2, <3>1
  <2> QED
    BY <2>1, <2>2
<1>4. /\ Armed(i) > 0 /\ LastUse(i) = rState[w].count
      /\ \A m \in Mats : Owed(m, i) = 0
  BY <1>1, <1>3, CurrentUse
<1>5. Label(rState[w].count) = <<cTile[w], cK[w]>>
  <2>1. ~ InEpilogue(w)
    BY DEF InEpilogue, Reading
  <2>2. TileOf(rState[w].count) = cTile[w] /\ KOf(rState[w].count) = cK[w]
    BY <2>1, GridFacts, LoopTypes DEF RingInv, LoopsInv, ConsumerOK
  <2> QED
    BY <2>2 DEF Label
<1>6. \A m \in Mats : smem[<<m, i>>] = Label(LastUse(i))
  BY <1>1, <1>4 DEF LabelsOK
<1> QED
  BY <1>1, <1>4, <1>5, <1>6

\* A step of a warp that does not touch the accumulators, nor how far the
\* warp is.
LEMMA QuietSums ==
  ASSUME TypeOK, SumsOK, NEW w \in Warps, UNCHANGED <<cTile, rC>>,
         \A v \in Warps \ {w} : /\ cpc'[v] = cpc[v] /\ cK'[v] = cK[v]
                                /\ rB'[v] = rB[v],
         Progress(w)' = Progress(w),
         cpc'[w] = "mul" => rB'[w] = <<cTile[w], cK'[w]>>
  PROVE  SumsOK'
BY DEF SumsOK, Progress, InEpilogue

LEMMA SumsStep ==
  RingInv /\ OperandsInv /\ [Next]_vars => SumsOK'
<1> SUFFICES ASSUME RingInv, OperandsInv, [Next]_vars PROVE SumsOK'
  OBVIOUS
<1> USE DEF OperandsInv
<1>0. TypeOK /\ \A w \in Warps : cTile[w] \in Nat /\ cK[w] \in Nat
  BY LoopTypes DEF RingInv
<1>1. ASSUME NEW w \in Warps, WaitFull(w) PROVE SumsOK'
  <2>1. smem[<<"B", rState[w].index>>] = <<cTile[w], cK[w]>>
    BY <1>1, SlotContents DEF WaitFull, Mats
  <2> QED
    BY <1>0, <1>1, <2>1, QuietSums
    DEF WaitFull, TypeOK, Progress, InEpilogue
<1>2. ASSUME NEW w \in Warps, Multiply(w) PROVE SumsOK'
  <2> DEFINE x == << <<cTile[w], cK[w]>>, <<cTile[w], cK[w]>> >>
  <2>1. <<smem[<<"A", rState[w].index>>], rB[w]>> = x
    BY <1>2, SlotContents DEF Multiply, Mats, Reading, SumsOK
  <2>2. /\ rC'[w] = Append(rC[w], x) /\ cpc'[w] = "release"
        /\ \A v \in Warps \ {w} : rC'[v] = rC[v] /\ cpc'[v] = cpc[v]
        /\ cTile' = cTile /\ cK' = cK /\ rB' = rB
    BY <1>0, <1>2, <2>1 DEF Multiply, TypeOK
  <2>3. Progress(w) = cK[w] /\ Progress(w)' = cK[w] + 1
    BY <1>0, <1>2, <2>2 DEF Multiply, Progress, InEpilogue
  <2>4. rC'[w] = SumTo(cTile[w], cK[w] + 1)
    <3>1. rC[w] = SumTo(cTile[w], cK[w])
      BY <2>3 DEF SumsOK
    <3> QED
      BY <1>0, <2>2, <3>1, SumFacts
  <2> QED
    BY <2>2, <2>3, <2>4 DEF SumsOK, Progress, InEpilogue
<1>3. ASSUME NEW w \in Warps, Release(w) PROVE SumsOK'
  <2>1. Progress(w)' = Progress(w)
    BY <1>0, <1>3, GridFacts DEF Release, TypeOK, Progress, InEpilogue, LastK
  <2>2. cpc'[w] # "mul"
    BY <1>0, <1>3 DEF Release, TypeOK
  <2> QED
    BY <1>0, <1>3, <2>1, <2>2, QuietSums DEF Release, TypeOK
<1>4. ASSUME NEW w \in Warps, FinishTile(w) PROVE SumsOK'
  <2>1. /\ rC'[w] = << >> /\ cTile'[w] = cTile[w] + GridDim /\ cK' = cK
        /\ rB' = rB /\ cpc'[w] \in {"wait", "final"}
        /\ \A v \in Warps \ {w} : /\ rC'[v] = rC[v] /\ cpc'[v] = cpc[v]
                                  /\ cTile'[v] = cTile[v]
    BY <1>0, <1>4 DEF FinishTile, TypeOK
  <2>2. cK[w] = 0
    BY <1>4 DEF FinishTile, InEpilogue, LoopsInv, ConsumerOK
  <2>3. Progress(w)' = 0
    BY <2>1, <2>2 DEF Progress, InEpilogue
  <2>4. SumTo(cTile'[w], 0) = << >>
    <3>1. cTile'[w] \in Nat
      BY <1>0, <2>1, GridFacts
    <3> QED
      BY <3>1, SumFacts
  <2> QED
    BY <2>1, <2>3, <2>4 DEF SumsOK, Progress, InEpilogue
<1>5. ASSUME NEW w \in Warps, DrainStore(w) \/ StageC(w) \/ FenceC(w)
      PROVE  SumsOK'
  BY <1>0, <1>5, QuietSums
  DEF DrainStore, StageC, FenceC, TypeOK, Progress, InEpilogue
<1>6. ASSUME NEW w \in Warps, FinalWait(w) PROVE SumsOK'
  BY <1>0, <1>6, QuietSums DEF FinalWait, TypeOK, Progress, InEpilogue
<1>7. CASE IssueStore
  BY <1>0, <1>7, QuietSums, WarpsAssumption
  DEF IssueStore, TypeOK, Progress, InEpilogue
<1>8. CASE BarSync
  BY <1>8 DEF BarSync, AllAtBarSync, AtBarSync, SumsOK, Progress, InEpilogue
<1>9. CASE BlockStep
  BY <1>9 DEF BlockStep, InitBarriers, SyncStart, SyncEnd, AllLeft, Invalidate,
     cvars, SumsOK, Progress, InEpilogue
<1>10. CASE ProducerStep \/ UNCHANGED vars
  BY <1>10 DEF ProducerStep, Acquire, CopyA, CopyB, vars, cvars, SumsOK,
     Progress, InEpilogue
<1>11. CASE TmaStep
  BY <1>11 DEF TmaStep, LoadDone, StoreRead, cvars, SumsOK, Progress,
     InEpilogue
<1> QED
  BY <1>1, <1>2, <1>3, <1>4, <1>5, <1>6, <1>7, <1>8, <1>9, <1>10, <1>11
  DEF Next, ConsumerStep, Terminated

LEMMA OperandsInit == Init => OperandsInv
BY LoopsInit, LabelsInit, SumsInit DEF OperandsInv

LEMMA OperandsStep == RingInv /\ OperandsInv /\ [Next]_vars => OperandsInv'
BY LoopsStep, LabelsStep, SumsStep DEF OperandsInv, RingInv

\* The loop variables, the slots and the accumulators agree in every run of a
\* block about which operands belong together.
THEOREM GemmOperandsCorrect == Spec => []OperandsInv
BY GemmRingCorrect, OperandsInit, OperandsStep, PTL DEF Spec

\* Every warp multiplies the operand pairs of its tile, all of them and in
\* order.
THEOREM GemmOperandsInOrder == Spec => []OperandsInOrder
<1>1. TypeOK /\ OperandsInv => OperandsInOrder
  <2> SUFFICES ASSUME TypeOK, OperandsInv, NEW w \in Warps
               PROVE  /\ rC[w] = SubSeq(FullSum(cTile[w]), 1, Len(rC[w]))
                      /\ cpc[w] = "mul" => rB[w] = <<cTile[w], cK[w]>>
                      /\ cpc[w] \in {"drain", "bar1", "stage"}
                           => Len(rC[w]) = KNum
    BY DEF OperandsInOrder
  <2>1. Progress(w) \in Nat /\ Progress(w) <= KNum
    BY GridFacts DEF TypeOK, Progress
  <2>2. /\ rC[w] = SumTo(cTile[w], Progress(w))
        /\ cpc[w] = "mul" => rB[w] = <<cTile[w], cK[w]>>
    BY DEF OperandsInv, SumsOK
  <2>3. cTile[w] \in Nat
    BY LoopTypes
  <2>4. Len(rC[w]) = Progress(w)
    <3>1. Len(SumTo(cTile[w], Progress(w))) = Progress(w)
      BY ONLY <2>1, <2>3, SumFacts
    <3> QED
      BY <2>2, <3>1
  <2>5. rC[w] = SubSeq(FullSum(cTile[w]), 1, Len(rC[w]))
    BY <2>1, <2>2, <2>3, <2>4, SumFacts
  <2>6. cpc[w] \in {"drain", "bar1", "stage"} => Progress(w) = KNum
    BY DEF Progress, InEpilogue
  <2> QED
    BY <2>2, <2>4, <2>5, <2>6
<1>2. RingInv => TypeOK
  BY DEF RingInv
<1> QED
  BY <1>1, <1>2, GemmRingCorrect, GemmOperandsCorrect, PTL

-----------------------------------------------------------------------------
(* The named barrier.                                                      *)

\* A step that passes no barrier.
LEMMA QuietAlign ==
  ASSUME AlignOK,
         \A w \in Warps : NextTile(w)' = NextTile(w) /\ (Mid(w)' <=> Mid(w))
  PROVE  AlignOK'
BY DEF AlignOK

LEMMA AlignInit == Init => AlignOK
BY DEF Init, AlignOK, NextTile, Back, Mid

LEMMA AlignStep == TypeOK /\ AlignOK /\ [Next]_vars => AlignOK'
<1> SUFFICES ASSUME TypeOK, AlignOK, [Next]_vars PROVE AlignOK'
  OBVIOUS
<1> USE GridFacts, LoopTypes
<1>1. CASE BarSync
  <2>1. /\ AllAtBarSync /\ cTile' = cTile
        /\ \A w \in Warps : /\ cpc[w] = "bar1" => cpc'[w] = "stage"
                            /\ cpc[w] = "bar2" => cpc'[w] = "store"
    BY <1>1 DEF BarSync
  <2>2. CASE cpc[Leader] = "bar1"
    <3>1. \A w \in Warps : cpc[w] = "bar1"
      BY <2>1, <2>2, WarpsAssumption DEF AllAtBarSync, AtBarSync, AlignOK, Mid
    <3> QED
      BY <2>1, <3>1 DEF AlignOK, NextTile, Back, Mid
  <2>3. CASE cpc[Leader] = "bar2"
    <3>1. \A w \in Warps : cpc[w] = "bar2"
      BY <2>1, <2>3, WarpsAssumption DEF AllAtBarSync, AtBarSync, AlignOK, Mid
    <3> QED
      BY <2>1, <3>1 DEF AlignOK, NextTile, Back, Mid
  <2> QED
    BY <2>1, <2>2, <2>3, WarpsAssumption DEF AllAtBarSync, AtBarSync
<1>2. ASSUME NEW w \in Warps, ConsumerStep(w) PROVE AlignOK'
  <2>1. \A v \in Warps \ {w} : cpc'[v] = cpc[v] /\ cTile'[v] = cTile[v]
    BY <1>2 DEF ConsumerStep, WaitFull, Multiply, Release, DrainStore, StageC,
       FenceC, FinishTile, FinalWait, TypeOK
  <2>2. ASSUME ~ FinishTile(w)
        PROVE  cTile'[w] = cTile[w] /\ (Mid(w)' <=> Mid(w))
               /\ (Back(w)' <=> Back(w))
    BY <1>2, <2>2
    DEF ConsumerStep, WaitFull, Multiply, Release, DrainStore, StageC,
        FenceC, FinalWait, TypeOK, Mid, Back
  <2>3. ASSUME FinishTile(w)
        PROVE  NextTile(w)' = NextTile(w) /\ (Mid(w)' <=> Mid(w))
    BY <2>3 DEF FinishTile, TypeOK, Mid, NextTile, Back
  <2> QED
    BY <2>1, <2>2, <2>3, QuietAlign DEF NextTile, Mid, Back
<1>3. CASE IssueStore
  BY <1>3, QuietAlign DEF IssueStore, TypeOK, NextTile, Mid, Back
<1>4. CASE BlockStep
  BY <1>4, QuietAlign
  DEF BlockStep, InitBarriers, SyncStart, SyncEnd, AllLeft, Invalidate, cvars,
      NextTile, Mid, Back
<1>5. CASE ProducerStep \/ TmaStep \/ UNCHANGED vars
  BY <1>5, QuietAlign
  DEF ProducerStep, Acquire, CopyA, CopyB, TmaStep, LoadDone, StoreRead, vars,
      cvars, NextTile, Mid, Back
<1> QED
  BY <1>1, <1>2, <1>3, <1>4, <1>5 DEF Next, Terminated

-----------------------------------------------------------------------------
(* The stores.                                                             *)

LEMMA StoresInit == Init => StoresOK
BY DEF Init, StoresOK

\* A step that neither moves the leader in its epilogue nor adds a store.
LEMMA QuietStores ==
  ASSUME StoresOK, stores' \subseteq stores, cTile'[Leader] = cTile[Leader],
         flying[Leader] => flying'[Leader],
         \/ cpc'[Leader] = cpc[Leader]
         \/ /\ cpc[Leader] # "commit"
            /\ cpc'[Leader] \in {"sync", "wait", "mul", "release", "drain"}
         \/ /\ cpc[Leader] \in {"bar1", "stage", "fence", "bar2", "store",
                                "exit", "done"}
            /\ cpc'[Leader] # "commit"
  PROVE  StoresOK'
BY DEF StoresOK, IssuedTo

\* Once the leader has waited, there is no store left.
LEMMA DrainedStores ==
  ASSUME StoresOK, Drained(Leader), cpc[Leader] # "commit"
  PROVE  stores = {}
BY DEF StoresOK, Drained, StoresRead

LEMMA StoresStep == TypeOK /\ StoresOK /\ [Next]_vars => StoresOK'
<1> SUFFICES ASSUME TypeOK, StoresOK, [Next]_vars PROVE StoresOK'
  OBVIOUS
<1> USE WarpsAssumption
<1>1. CASE DrainStore(Leader) \/ FinalWait(Leader)
  <2>1. stores = {} /\ stores' = stores /\ cpc'[Leader] # "commit"
    BY <1>1, DrainedStores DEF DrainStore, FinalWait, TypeOK, evars
  <2> QED
    BY <2>1 DEF StoresOK
<1>2. CASE IssueStore
  <2>1. /\ stores = {} /\ cTile' = cTile /\ cpc'[Leader] = "commit"
        /\ stores' = [tile : {cTile[Leader]}, part : Warps,
                      committed : {FALSE}]
    BY <1>2 DEF IssueStore, StoresOK, TypeOK
  <2>2. \A st \in stores' : st.tile = cTile[Leader] /\ ~ st.committed
    BY <2>1
  <2> QED
    BY <2>1, <2>2 DEF StoresOK, IssuedTo
<1>3. CASE FinishTile(Leader)
  <2>1. /\ stores' = Committed /\ cpc[Leader] = "commit"
        /\ cTile'[Leader] = cTile[Leader] + GridDim /\ flying'[Leader]
        /\ cpc'[Leader] \in {"wait", "final"}
    BY <1>3 DEF FinishTile, TypeOK
  <2>2. \A st \in stores' : st.tile + GridDim = IssuedTo /\ st.committed
    BY <2>1 DEF Committed, StoresOK, TypeOK, StoreReads
  <2>3. IssuedTo' = IssuedTo
    BY <2>1, GridFacts, LoopTypes DEF IssuedTo
  <2> QED
    BY <2>1, <2>2, <2>3 DEF StoresOK
<1>4. ASSUME NEW w \in Warps \ {Leader}, ConsumerStep(w) PROVE StoresOK'
  BY <1>4, QuietStores
  DEF ConsumerStep, WaitFull, Multiply, Release, DrainStore, StageC, FenceC,
      FinishTile, FinalWait, TypeOK, evars
<1>5. CASE \/ WaitFull(Leader) \/ Multiply(Leader) \/ Release(Leader)
           \/ StageC(Leader) \/ FenceC(Leader)
  BY <1>5, QuietStores
  DEF WaitFull, Multiply, Release, StageC, FenceC, TypeOK, evars
<1>6. CASE BarSync
  BY <1>6, QuietStores
  DEF BarSync, AllAtBarSync, AtBarSync, TypeOK, evars
<1>7. CASE BlockStep
  BY <1>7, QuietStores
  DEF BlockStep, InitBarriers, SyncStart, SyncEnd, AllLeft, Invalidate, TypeOK,
      cvars, evars
<1>8. CASE ProducerStep \/ TmaStep \/ UNCHANGED vars
  BY <1>8, QuietStores
  DEF ProducerStep, Acquire, CopyA, CopyB, TmaStep, LoadDone, StoreRead, vars,
      cvars, evars
<1> QED
  BY <1>1, <1>2, <1>3, <1>4, <1>5, <1>6, <1>7, <1>8
  DEF Next, ConsumerStep, Terminated

-----------------------------------------------------------------------------
(* The staging memory.                                                     *)

LEMMA StagedInit == Init => StagedOK
<1> SUFFICES ASSUME Init PROVE StagedOK
  OBVIOUS
<1>1. \A w \in Warps : cpc[w] = "sync" /\ cTile[w] = BlockIdx
  BY DEF Init
<1>2. unfenced = {w \in Warps : cpc[w] = "fence"}
  BY <1>1 DEF Init
<1>3. \A w \in Warps : NextTile(w) = BlockIdx
  BY <1>1, GridFacts DEF NextTile, Back
<1> QED
  BY <1>1, <1>2, <1>3 DEF StagedOK

\* What is to be shown of a step.
LEMMA StagedAfter ==
  ASSUME \A w \in Warps : w \in unfenced' <=> cpc'[w] = "fence",
         unfenced' \subseteq Warps,
         \A w \in Warps :
           /\ cpc'[w] \in {"fence", "bar2"} => sC'[w] = FullSum(cTile'[w])
           /\ ~ Mid(w)' /\ NextTile(w)' # BlockIdx
                => sC'[w] = FullSum(NextTile(w)' - GridDim)
  PROVE  StagedOK'
<1>1. unfenced' = {w \in Warps : cpc'[w] = "fence"}
  OBVIOUS
<1> QED
  BY <1>1 DEF StagedOK, FullSum

\* A step that neither writes sC, nor fences it, nor passes a barrier.
LEMMA QuietStaged ==
  ASSUME StagedOK, UNCHANGED <<sC, unfenced>>,
         \A w \in Warps :
           \/ cpc'[w] = cpc[w] /\ cTile'[w] = cTile[w]
           \/ NextTile(w)' = NextTile(w) /\ ~ Mid(w) /\ ~ Mid(w)'
  PROVE  StagedOK'
<1>1. \A w \in Warps : cpc'[w] = "fence" <=> cpc[w] = "fence"
  BY DEF Mid
<1>2. /\ unfenced' \subseteq Warps
      /\ \A w \in Warps : w \in unfenced' <=> cpc'[w] = "fence"
  BY <1>1 DEF StagedOK
<1>3. \A w \in Warps :
        /\ cpc'[w] \in {"fence", "bar2"} => sC'[w] = FullSum(cTile'[w])
        /\ ~ Mid(w)' /\ NextTile(w)' # BlockIdx
             => sC'[w] = FullSum(NextTile(w)' - GridDim)
  BY DEF StagedOK, NextTile, Back, Mid
<1> QED
  BY <1>2, <1>3, StagedAfter

LEMMA StagedStep ==
  TypeOK /\ SumsOK /\ AlignOK /\ StagedOK /\ [Next]_vars => StagedOK'
<1> SUFFICES ASSUME TypeOK, SumsOK, AlignOK, StagedOK, [Next]_vars
             PROVE  StagedOK'
  OBVIOUS
<1> USE GridFacts, LoopTypes
<1>1. ASSUME NEW w \in Warps, StageC(w) PROVE StagedOK'
  <2>1. rC[w] = FullSum(cTile[w])
    BY <1>1, SumFacts DEF StageC, SumsOK, Progress, InEpilogue
  <2>2. /\ sC'[w] = FullSum(cTile[w]) /\ cTile' = cTile
        /\ cpc[w] = "stage" /\ cpc'[w] = "fence"
        /\ unfenced' = unfenced \cup {w}
        /\ \A v \in Warps \ {w} : sC'[v] = sC[v] /\ cpc'[v] = cpc[v]
    BY <1>1, <2>1 DEF StageC, TypeOK
  <2>3. /\ unfenced' \subseteq Warps
        /\ \A v \in Warps : v \in unfenced' <=> cpc'[v] = "fence"
    BY <2>2 DEF StagedOK
  <2>4. \A v \in Warps \ {w} : /\ Mid(v)' <=> Mid(v)
                              /\ NextTile(v)' = NextTile(v)
    BY <2>2 DEF Mid, NextTile, Back
  <2>5. Mid(w)'
    BY <2>2 DEF Mid
  <2> QED
    BY <2>2, <2>3, <2>4, <2>5, StagedAfter DEF StagedOK
<1>2. ASSUME NEW w \in Warps, FenceC(w) PROVE StagedOK'
  <2>1. /\ sC' = sC /\ cTile' = cTile
        /\ cpc[w] = "fence" /\ cpc'[w] = "bar2"
        /\ unfenced' = unfenced \ {w}
        /\ \A v \in Warps \ {w} : cpc'[v] = cpc[v]
    BY <1>2 DEF FenceC, TypeOK
  <2>2. /\ unfenced' \subseteq Warps
        /\ \A v \in Warps : v \in unfenced' <=> cpc'[v] = "fence"
    BY <2>1 DEF StagedOK
  <2>3. \A v \in Warps \ {w} : /\ Mid(v)' <=> Mid(v)
                              /\ NextTile(v)' = NextTile(v)
    BY <2>1 DEF Mid, NextTile, Back
  <2>4. Mid(w)'
    BY <2>1 DEF Mid
  <2> QED
    BY <2>1, <2>2, <2>3, <2>4, StagedAfter DEF StagedOK
<1>3. CASE BarSync
  <2>1. /\ \A w \in Warps :
             \/ cpc[w] = "bar1" /\ cpc'[w] = "stage"
             \/ cpc[w] = "bar2" /\ cpc'[w] = "store"
        /\ UNCHANGED <<cTile, sC, unfenced>>
    BY <1>3 DEF BarSync, AllAtBarSync, AtBarSync, evars
  <2>2. /\ unfenced' \subseteq Warps
        /\ \A w \in Warps : /\ w \in unfenced' <=> cpc'[w] = "fence"
                            /\ cpc'[w] \notin {"fence", "bar2"}
    BY <2>1 DEF StagedOK
  <2>3. ASSUME NEW w \in Warps, ~ Mid(w)'
        PROVE  sC'[w] = FullSum(NextTile(w)' - GridDim)
    <3>1. cpc[w] = "bar2" /\ cpc'[w] = "store"
      BY <2>1, <2>3 DEF Mid
    <3>2. sC'[w] = FullSum(cTile[w])
      BY <2>1, <3>1 DEF StagedOK
    <3>3. NextTile(w)' - GridDim = cTile[w]
      BY <2>1, <3>1 DEF NextTile, Back
    <3> QED
      BY <3>2, <3>3
  <2> QED
    BY <2>2, <2>3, StagedAfter
<1>4. ASSUME NEW w \in Warps,
             \/ WaitFull(w) \/ Multiply(w) \/ Release(w) \/ DrainStore(w)
             \/ FinishTile(w) \/ FinalWait(w)
      PROVE  StagedOK'
  <2>1. /\ \A v \in Warps \ {w} : cpc'[v] = cpc[v] /\ cTile'[v] = cTile[v]
        /\ ~ Mid(w) /\ ~ Mid(w)'
        /\ UNCHANGED <<sC, unfenced>>
    BY <1>4 DEF WaitFull, Multiply, Release, DrainStore, FinishTile, FinalWait,
       TypeOK, Mid, evars
  <2>2. NextTile(w)' = NextTile(w)
    BY <1>4 DEF WaitFull, Multiply, Release, DrainStore, FinishTile, FinalWait,
       TypeOK, NextTile, Back
  <2> QED
    BY <2>1, <2>2, QuietStaged
<1>5. CASE IssueStore
  BY <1>5, QuietStaged, WarpsAssumption
  DEF IssueStore, TypeOK, NextTile, Mid, Back
<1>6. CASE BlockStep
  BY <1>6, QuietStaged
  DEF BlockStep, InitBarriers, SyncStart, SyncEnd, AllLeft, Invalidate, cvars,
      evars, NextTile, Mid, Back
<1>7. CASE ProducerStep \/ TmaStep \/ UNCHANGED vars
  BY <1>7, QuietStaged
  DEF ProducerStep, Acquire, CopyA, CopyB, TmaStep, LoadDone, StoreRead, vars,
      cvars, evars, NextTile, Mid, Back
<1> QED
  BY <1>1, <1>2, <1>3, <1>4, <1>5, <1>6, <1>7
  DEF Next, ConsumerStep, Terminated

-----------------------------------------------------------------------------
(* The output.                                                             *)

\* The tile of a warp in its tile loop belongs to the block.
LEMMA WarpTile ==
  ASSUME TypeOK, LoopsInv, NEW w \in Warps
  PROVE  /\ \E q \in Int : cTile[w] = GridDim * q + BlockIdx
         /\ \E q \in Int : cTile[w] - GridDim = GridDim * q + BlockIdx
<1> DEFINE q == rState[w].count \div KNum
<1>1. q \in Nat
  BY LoopTypes, GridAssumption, Division
<1>2. TileOf(rState[w].count) = GridDim * q + BlockIdx
  BY <1>1, GridFacts DEF TileOf
<1>3. \/ cTile[w] = GridDim * q + BlockIdx
      \/ cTile[w] + GridDim = GridDim * q + BlockIdx
  BY <1>2, GridFacts, LoopTypes DEF LoopsInv, ConsumerOK
<1> HIDE DEF q
<1>4. cTile[w] \in Nat
  BY LoopTypes
<1>5. /\ GridDim * (q - 1) = GridDim * q - GridDim
      /\ GridDim * (q - 2) = GridDim * q - GridDim - GridDim
      /\ GridDim * q \in Int
  BY <1>1, GridFacts
<1>6. CASE cTile[w] = GridDim * q + BlockIdx
  <2>1. cTile[w] - GridDim = GridDim * (q - 1) + BlockIdx
    BY <1>4, <1>5, <1>6, GridFacts
  <2> QED
    BY <1>1, <1>6, <2>1
<1>7. CASE cTile[w] + GridDim = GridDim * q + BlockIdx
  <2>1. /\ cTile[w] = GridDim * (q - 1) + BlockIdx
        /\ cTile[w] - GridDim = GridDim * (q - 2) + BlockIdx
    BY <1>4, <1>5, <1>7, GridFacts
  <2>2. q - 1 \in Int /\ q - 2 \in Int
    BY <1>1
  <2> QED
    BY <2>1, <2>2
<1> QED
  BY <1>3, <1>6, <1>7

\* A pending store belongs to the last tile issued, its part of sC holds the
\* sum of that tile and is fenced, and it is the only one of its part.
LEMMA StoreFacts ==
  ASSUME TypeOK, OperandsInv, EpilogueInv, NEW st \in stores
  PROVE  /\ st.tile \in Mine /\ st.part \in Warps
         /\ st.tile + GridDim = IssuedTo /\ st.tile \in Nat
         /\ st.part \notin unfenced /\ sC[st.part] = FullSum(st.tile)
         /\ \A su \in stores : su.part = st.part => su = st
<1> USE WarpsAssumption, GridFacts
<1>1. /\ cTile[Leader] \in Nat /\ st.tile \in Nat /\ st.part \in Warps
      /\ st \in StoreReads
  BY LoopTypes DEF TypeOK, StoreReads
<1>2. /\ st.tile + GridDim = IssuedTo
      /\ cpc[Leader] \notin {"bar1", "stage", "fence", "bar2", "store"}
  BY DEF EpilogueInv, StoresOK
<1>3. NextTile(Leader) = IssuedTo
  BY <1>2 DEF NextTile, Back, IssuedTo
<1>4. /\ NextTile(st.part) = IssuedTo /\ ~ Mid(st.part)
  BY <1>1, <1>2, <1>3 DEF EpilogueInv, AlignOK, Mid
<1>5. st.part \notin unfenced
  BY <1>4 DEF EpilogueInv, StagedOK, Mid
<1>6. sC[st.part] = FullSum(st.tile)
  <2>1. IssuedTo # BlockIdx /\ IssuedTo - GridDim = st.tile
    BY <1>1, <1>2, GridAssumption
  <2> QED
    BY <1>1, <1>4, <2>1 DEF EpilogueInv, StagedOK
<1>7. ASSUME NEW su \in stores, su.part = st.part PROVE su = st
  <2>1. su.tile + GridDim = IssuedTo /\ su \in StoreReads
    BY DEF EpilogueInv, StoresOK, TypeOK
  <2>2. su.tile = st.tile
    BY <1>1, <1>2, <2>1 DEF StoreReads
  <2>3. su.committed = st.committed
    <3>1. su.committed \in BOOLEAN /\ st.committed \in BOOLEAN
      BY <1>1, <2>1 DEF StoreReads
    <3>2. su.committed <=> st.committed
      BY Zenon DEF EpilogueInv, StoresOK
    <3> QED
      BY ONLY <3>1, <3>2
  <2> QED
    BY <1>1, <1>7, <2>1, <2>2, <2>3 DEF StoreReads
<1>8. st.tile \in Mine
  <2>1. \E q \in Int : st.tile = GridDim * q + BlockIdx
    <3>1. st.tile = cTile[Leader] \/ st.tile = cTile[Leader] - GridDim
      BY <1>1, <1>2 DEF IssuedTo
    <3> QED
      BY <3>1, WarpTile DEF OperandsInv
  <2>2. st.tile < TilesNum
    BY <1>1, <1>2
    DEF IssuedTo, OperandsInv, LoopsInv, ConsumerOK, LoopOver
  <2> QED
    BY <1>1, <2>1, <2>2, TileMine
<1> QED
  BY <1>1, <1>2, <1>5, <1>6, <1>7, <1>8

LEMMA OutputInit == Init => OutputOK
<1> SUFFICES ASSUME Init, NEW t \in Tiles, NEW p \in Warps
             PROVE  gC[<<t, p>>] = << >> /\ ~ Written(t, p)
  BY DEF OutputOK
<1>1. IssuedTo = BlockIdx
  BY WarpsAssumption, GridFacts DEF Init, IssuedTo
<1>2. t \in Mine => t >= BlockIdx
  <2> SUFFICES ASSUME t \in Mine PROVE t >= BlockIdx
    OBVIOUS
  <2>1. t \in Nat /\ t % GridDim = BlockIdx /\ GridDim \in Nat \ {0}
    BY GridAssumption DEF Mine, Tiles
  <2> DEFINE a == t \div GridDim
  <2>2. a \in Nat /\ t = GridDim * a + BlockIdx
    BY <2>1, Division
  <2> HIDE DEF a
  <2>3. GridDim * a >= 0
    BY <2>1, <2>2
  <2> QED
    BY <2>2, <2>3, GridFacts
<1>3. t \in Nat
  BY GridFacts DEF Tiles
<1> QED
  BY <1>1, <1>2, <1>3, GridFacts DEF Init, Written

\* A step that stores nothing, and issues nothing.
LEMMA QuietOutput ==
  ASSUME OutputOK, gC' = gC, IssuedTo' = IssuedTo,
         \A t \in Tiles, p \in Warps : Pending(t, p)' <=> Pending(t, p)
  PROVE  OutputOK'
<1>1. \A t \in Tiles, p \in Warps : Written(t, p)' <=> Written(t, p)
  BY DEF Written
<1> QED
  BY <1>1 DEF OutputOK, FullSum

\* The write of one part of a tile.
LEMMA StoreWrites ==
  ASSUME TypeOK, OperandsInv, EpilogueInv, NEW st \in stores, StoreRead(st)
  PROVE  /\ st.tile \in Tiles /\ st.part \in Warps
         /\ gC[<<st.tile, st.part>>] = << >>
         /\ gC' = [gC EXCEPT ![<<st.tile, st.part>>] = <<FullSum(st.tile)>>]
<1>1. /\ st.tile \in Tiles /\ st.part \in Warps /\ st.part \notin unfenced
      /\ sC[st.part] = FullSum(st.tile)
  BY StoreFacts DEF Mine
<1>2. gC[<<st.tile, st.part>>] = << >>
  BY <1>1 DEF EpilogueInv, OutputOK, Written, Pending
<1>3. Append(<< >>, FullSum(st.tile)) = <<FullSum(st.tile)>>
  OBVIOUS
<1>4. gC' = [gC EXCEPT ![<<st.tile, st.part>>] =
               Append(gC[<<st.tile, st.part>>], sC[st.part])]
  BY <1>1 DEF StoreRead
<1> QED
  BY <1>1, <1>2, <1>3, <1>4

LEMMA OutputStep ==
  TypeOK /\ OperandsInv /\ EpilogueInv /\ [Next]_vars => OutputOK'
<1> SUFFICES ASSUME TypeOK, OperandsInv, EpilogueInv, [Next]_vars
             PROVE  OutputOK'
  OBVIOUS
<1> USE WarpsAssumption, GridFacts
<1>0. OutputOK
  BY DEF EpilogueInv
<1>1. ASSUME NEW st \in stores, StoreRead(st) PROVE OutputOK'
  <2> SUFFICES ASSUME NEW t \in Tiles, NEW p \in Warps
               PROVE  /\ Written(t, p)' => gC'[<<t, p>>] = <<FullSum(t)>>
                      /\ ~ Written(t, p)' => gC'[<<t, p>>] = << >>
    BY DEF OutputOK, FullSum
  <2>1. /\ stores' = stores \ {st} /\ IssuedTo' = IssuedTo
        /\ gC' = [gC EXCEPT ![<<st.tile, st.part>>] = <<FullSum(st.tile)>>]
    BY <1>1, StoreWrites DEF StoreRead, IssuedTo, cvars
  <2>2. CASE t = st.tile /\ p = st.part
    <3>1. ~ Pending(t, p)'
      BY <2>1, <2>2, StoreFacts DEF Pending
    <3>2. t \in Mine /\ t < IssuedTo
      BY <2>2, StoreFacts
    <3> QED
      BY <2>1, <2>2, <3>1, <3>2 DEF Written, TypeOK
  <2>3. CASE ~ (t = st.tile /\ p = st.part)
    <3>1. Pending(t, p)' <=> Pending(t, p)
      BY <2>1, <2>3 DEF Pending
    <3>2. Written(t, p)' <=> Written(t, p)
      BY <2>1, <3>1 DEF Written
    <3>3. gC'[<<t, p>>] = gC[<<t, p>>]
      BY <2>1, <2>3 DEF TypeOK
    <3> QED
      BY <1>0, <3>2, <3>3 DEF OutputOK
  <2> QED
    BY <2>2, <2>3
<1>2. CASE IssueStore
  <2> DEFINE c == cTile[Leader]
  <2>1. /\ stores = {} /\ gC' = gC /\ c \in Nat
        /\ stores' = [tile : {c}, part : Warps, committed : {FALSE}]
        /\ IssuedTo = c /\ IssuedTo' = c + GridDim
    <3>1. /\ stores = {} /\ gC' = gC /\ cTile' = cTile
          /\ cpc[Leader] = "store" /\ cpc'[Leader] = "commit"
          /\ stores' = [tile : {c}, part : Warps, committed : {FALSE}]
      BY <1>2 DEF IssueStore, EpilogueInv, StoresOK, TypeOK
    <3>2. c \in Nat
      BY LoopTypes
    <3> QED
      BY <3>1, <3>2 DEF IssuedTo
  <2>2. \A t \in Mine : c <= t /\ t < c + GridDim => t = c
    BY <2>1, WarpTile, TileMine DEF OperandsInv
  <2> HIDE DEF c
  <2>3. ASSUME NEW t \in Tiles, NEW p \in Warps
        PROVE  Written(t, p)' <=> Written(t, p)
    <3>1. ~ Pending(t, p)
      BY <2>1 DEF Pending
    <3>2. Pending(t, p)' <=> t = c
      <4>1. ASSUME t = c PROVE Pending(t, p)'
        <5>1. [tile |-> c, part |-> p, committed |-> FALSE] \in stores'
          BY <2>1
        <5> QED
          BY <4>1, <5>1 DEF Pending
      <4>2. ASSUME Pending(t, p)' PROVE t = c
        BY <2>1, <4>2 DEF Pending
      <4> QED
        BY <4>1, <4>2
    <3>3. t \in Nat
      BY DEF Tiles
    <3> QED
      BY <2>1, <2>2, <3>1, <3>2, <3>3 DEF Written
  <2> QED
    BY <1>0, <2>1, <2>3 DEF OutputOK, FullSum
<1>3. CASE FinishTile(Leader)
  <2>1. /\ stores' = Committed /\ gC' = gC
        /\ cpc[Leader] = "commit" /\ cpc'[Leader] # "commit"
        /\ cTile'[Leader] = cTile[Leader] + GridDim
    BY <1>3 DEF FinishTile, TypeOK
  <2>2. IssuedTo' = IssuedTo
    BY <2>1, LoopTypes DEF IssuedTo
  <2>3. ASSUME NEW t \in Tiles, NEW p \in Warps
        PROVE  Pending(t, p)' <=> Pending(t, p)
    <3>1. \A st \in stores : /\ [st EXCEPT !.committed = TRUE].tile = st.tile
                             /\ [st EXCEPT !.committed = TRUE].part = st.part
      BY DEF TypeOK, StoreReads
    <3>2. ASSUME NEW st \in stores, st.tile = t, st.part = p
          PROVE  \E su \in stores' : su.tile = t /\ su.part = p
      <4>1. [st EXCEPT !.committed = TRUE] \in stores'
        BY <2>1 DEF Committed
      <4> QED
        BY <3>1, <3>2, <4>1
    <3>3. ASSUME NEW su \in stores', su.tile = t, su.part = p
          PROVE  \E st \in stores : st.tile = t /\ st.part = p
      <4>1. PICK st \in stores : su = [st EXCEPT !.committed = TRUE]
        BY <2>1 DEF Committed
      <4> QED
        BY <3>1, <3>3, <4>1
    <3> QED
      BY <3>2, <3>3 DEF Pending
  <2> QED
    BY <1>0, <2>1, <2>2, <2>3, QuietOutput
<1>4. ASSUME NEW w \in Warps, ConsumerStep(w), ~ FinishTile(Leader)
      PROVE  OutputOK'
  <2>1. /\ gC' = gC /\ stores' = stores
        /\ w # Leader \/ ~ FinishTile(w)
    BY <1>4
    DEF ConsumerStep, WaitFull, Multiply, Release, DrainStore, StageC, FenceC,
        FinishTile, FinalWait, evars
  <2>2. IssuedTo' = IssuedTo
    BY <1>4
    DEF ConsumerStep, WaitFull, Multiply, Release, DrainStore, StageC, FenceC,
        FinishTile, FinalWait, IssuedTo, TypeOK
  <2> QED
    BY <1>0, <2>1, <2>2, QuietOutput DEF Pending
<1>5. CASE BarSync
  BY <1>0, <1>5, QuietOutput
  DEF BarSync, AllAtBarSync, AtBarSync, IssuedTo, Pending, evars
<1>6. CASE BlockStep
  BY <1>0, <1>6, QuietOutput
  DEF BlockStep, InitBarriers, SyncStart, SyncEnd, AllLeft, Invalidate, cvars,
      evars, IssuedTo, Pending
<1>7. CASE ProducerStep \/ UNCHANGED vars
  BY <1>0, <1>7, QuietOutput
  DEF ProducerStep, Acquire, CopyA, CopyB, vars, cvars, evars, IssuedTo,
      Pending
<1>8. ASSUME NEW l \in loads, LoadDone(l) PROVE OutputOK'
  BY <1>0, <1>8, QuietOutput DEF LoadDone, cvars, evars, IssuedTo, Pending
<1> QED
  BY <1>1, <1>2, <1>3, <1>4, <1>5, <1>6, <1>7, <1>8
  DEF Next, TmaStep, Terminated

-----------------------------------------------------------------------------
(* The theorems.                                                           *)

LEMMA EpilogueInit == Init => EpilogueInv
BY AlignInit, StoresInit, StagedInit, OutputInit DEF EpilogueInv

LEMMA EpilogueStep ==
  TypeOK /\ OperandsInv /\ EpilogueInv /\ [Next]_vars => EpilogueInv'
BY AlignStep, StoresStep, StagedStep, OutputStep DEF EpilogueInv, OperandsInv

\* The ring, the operands, the named barrier, the staging memory and the
\* output of a block stay consistent in every run of it.
THEOREM GemmBlockCorrect == Spec => []BlockInv
<1>1. Init => BlockInv
  BY RingInit, OperandsInit, EpilogueInit DEF BlockInv
<1>2. BlockInv /\ [Next]_vars => BlockInv'
  BY RingStep, OperandsStep, EpilogueStep DEF BlockInv, RingInv
<1> QED
  BY <1>1, <1>2, PTL DEF Spec

\* Warps that wait at the one named barrier of the epilogue are at the same
\* call of the same tile.
THEOREM GemmBarSyncAligned == Spec => []BarSyncAligned
<1>1. BlockInv => BarSyncAligned
  <2> SUFFICES ASSUME BlockInv, NEW v \in Warps, NEW w \in Warps,
                      AtBarSync(v), AtBarSync(w)
               PROVE  cpc[v] = cpc[w] /\ cTile[v] = cTile[w]
    BY DEF BarSyncAligned
  <2>1. cTile[v] \in Nat /\ cTile[w] \in Nat
    BY LoopTypes DEF BlockInv, RingInv
  <2>2. NextTile(v) = NextTile(w) /\ (Mid(v) <=> Mid(w))
    BY DEF BlockInv, EpilogueInv, AlignOK
  <2> QED
    BY <2>1, <2>2 DEF AtBarSync, NextTile, Back, Mid
<1> QED
  BY <1>1, GemmBlockCorrect, PTL

\* No store is left to read sC while a warp rewrites or fences its part.
THEOREM GemmSourceStable == Spec => []SourceStable
<1>1. BlockInv => SourceStable
  <2> SUFFICES ASSUME BlockInv, NEW w \in Warps,
                      cpc[w] \in {"stage", "fence"}
               PROVE  stores = {}
    BY DEF SourceStable
  <2>1. Mid(Leader)
    BY WarpsAssumption DEF BlockInv, EpilogueInv, AlignOK, Mid
  <2> QED
    BY <2>1 DEF BlockInv, EpilogueInv, StoresOK, Mid
<1> QED
  BY <1>1, GemmBlockCorrect, PTL

\* When all threads have left their loops, the ring is at rest.
LEMMA RingAtRest ==
  ASSUME RingInv, LoopsInv, ppc \in {"invalidate", "done"}, NEW s \in Slots
  PROVE  /\ \A l \in loads : l.slot # s
         /\ Idle(full[s], FullCount) /\ Idle(empty[s], EmptyCount)
         /\ full[s].phase = empty[s].phase
<1> USE WarpsAssumption, GridFacts
<1>1. ASSUME NEW w \in Warps PROVE rState[w].count = wState.count
  <2>1. /\ wState.count \in Nat /\ rState[w].count \in Nat
        /\ pTile \in Nat /\ cTile[w] \in Nat
    BY LoopTypes DEF RingInv
  <2>2. /\ TileOf(wState.count) = pTile /\ KOf(wState.count) = 0
        /\ pTile >= TilesNum /\ pTile < TilesNum + GridDim
    BY DEF LoopsInv, ProducerOK
  <2>3. LoopOver(w) /\ ~ InEpilogue(w)
    BY DEF LoopsInv, PhasesOK, LoopOver, InEpilogue
  <2>4. /\ TileOf(rState[w].count) = cTile[w] /\ KOf(rState[w].count) = 0
        /\ cTile[w] >= TilesNum /\ cTile[w] < TilesNum + GridDim
    BY <2>1, <2>3 DEF LoopsInv, ConsumerOK
  <2> QED
    BY <2>1, <2>2, <2>4, SameEnd
<1> DEFINE a == Armed(s)
           e == empty[s].phase
           f == full[s].phase
<1>2. /\ a \in Nat /\ e \in Nat /\ f \in Nat
      /\ \A w \in Warps : Freed(w, s) \in Nat /\ Held(w, s) \in {0, 1}
  BY RingTypes DEF RingInv
<1>3. \A w \in Warps : Freed(w, s) = a
  <2>1. Uses(wState.count, s) \in Nat
    BY UsesFacts DEF RingInv, TypeOK, States
  <2>2. a = Uses(wState.count, s)
    BY <2>1 DEF Armed, Filling
  <2> QED
    BY <1>1, <2>2 DEF Freed
<1>4. /\ f <= a /\ a <= e + 1
      /\ \A w \in Warps : e <= Freed(w, s) /\ Freed(w, s) + Held(w, s) <= f
  BY DEF RingInv, RoundsOK
<1> HIDE DEF a, e, f
<1>5. f = a /\ (e = a \/ a = e + 1)
  BY <1>2, <1>3, <1>4
<1>6. full[s].pending = 1 /\ full[s].tx = 0
  BY <1>5 DEF a, f, RingInv, FullOK
<1>7. /\ empty[s].tx = 0 /\ empty[s].pending # 0
      /\ empty[s].pending = EmptyCount - Cardinality(Arrivals(s))
  BY DEF RingInv, EmptyOK
<1>8. e = a
  <2> SUFFICES ASSUME a = e + 1 PROVE FALSE
    BY <1>5
  <2>1. Arrivals(s) = Warps
    BY <1>3 DEF Arrivals, e
  <2> QED
    BY <1>7, <2>1, CountFacts DEF EmptyCount
<1>9. empty[s].pending = EmptyCount
  <2>1. Arrivals(s) = {}
    BY <1>2, <1>3, <1>8 DEF Arrivals, e
  <2>2. Cardinality({}) = 0
    BY FS_EmptySet
  <2> QED
    BY <1>7, <2>1, <2>2, CountFacts
<1>10. \A l \in loads : l.slot # s
  BY <1>6, IdleSlot
<1> QED
  BY <1>5, <1>6, <1>7, <1>8, <1>9, <1>10 DEF Idle, FullCount, e, f

\* The barriers are used between their initialisation and their invalidation
\* only, and are at rest when they are invalidated.
THEOREM GemmBarrierLifetime == Spec => []BarrierLifetime
<1>1. BlockInv => BarrierLifetime
  <2> SUFFICES ASSUME BlockInv PROVE BarrierLifetime
    OBVIOUS
  <2>1. ppc \in {"init", "sync", "invalidate", "done"} => loads = {}
    <3>1. ASSUME ppc \in {"invalidate", "done"} PROVE loads = {}
      <4>1. \A l \in loads : l.slot \in Slots
        BY DEF BlockInv, RingInv, TypeOK, Loads
      <4> QED
        BY <3>1, <4>1, RingAtRest DEF BlockInv, OperandsInv
    <3> QED
      BY <3>1 DEF BlockInv, OperandsInv, LoopsInv, PhasesOK
  <2>2. \/ ppc \in {"acquire", "copyA", "copyB"}
        \/ \E w \in Warps : cpc[w] = "wait" \/ Reading(w)
        \/ loads # {}
        => bars = "live"
    BY <2>1 DEF BlockInv, OperandsInv, LoopsInv, PhasesOK, Reading
  <2>3. ASSUME bars = "dead"
        PROVE  /\ stores = {}
               /\ \A s \in Slots :
                    /\ Idle(full[s], FullCount) /\ Idle(empty[s], EmptyCount)
                    /\ full[s].phase = empty[s].phase
    <3>1. ppc = "done" /\ cpc[Leader] = "done"
      BY <2>3, WarpsAssumption DEF BlockInv, OperandsInv, LoopsInv, PhasesOK
    <3>2. stores = {}
      BY <3>1 DEF BlockInv, EpilogueInv, StoresOK
    <3> QED
      BY <3>1, <3>2, RingAtRest DEF BlockInv, OperandsInv
  <2> QED
    BY <2>2, <2>3 DEF BarrierLifetime
<1> QED
  BY <1>1, GemmBlockCorrect, PTL

\* The block implements the safety of what it promises (TileOutput): it writes
\* every part of its tiles at most once and with the complete sum, a tile after
\* the one before, and nothing else.
THEOREM GemmImplementsTileOutput == Spec => Output!Init /\ [][Output!Next]_gC
<1>1. Init => Output!Init
  BY DEF Init, Output!Init
<1>2. BlockInv /\ [Next]_vars => [Output!Next]_gC
  <2> SUFFICES ASSUME BlockInv, [Next]_vars, gC' # gC PROVE Output!Next
    OBVIOUS
  <2>1. PICK st \in stores : StoreRead(st)
    BY DEF Next, BlockStep, InitBarriers, SyncStart, SyncEnd, Invalidate,
       ProducerStep, Acquire, CopyA, CopyB, ConsumerStep, WaitFull, Multiply,
       Release, DrainStore, StageC, FenceC, FinishTile, FinalWait, BarSync,
       IssueStore, TmaStep, LoadDone, Terminated, vars, evars
  <2>2. TypeOK /\ OperandsInv /\ EpilogueInv
    BY DEF BlockInv, RingInv
  <2>3. /\ st.tile \in Mine /\ st.part \in Warps
        /\ gC[<<st.tile, st.part>>] = << >>
        /\ gC' = [gC EXCEPT ![<<st.tile, st.part>>] = <<FullSum(st.tile)>>]
    BY <2>1, <2>2, StoreFacts, StoreWrites
  <2>4. ASSUME NEW u \in Mine, u < st.tile, NEW p \in Warps
        PROVE  gC[<<u, p>>] # << >>
    <3>1. st.tile + GridDim = IssuedTo /\ st.tile \in Nat /\ u \in Tiles
      BY <2>2, StoreFacts DEF Mine
    <3>2. \A su \in stores : su.tile = st.tile
      BY <2>2, StoreFacts, GridFacts
    <3>3. Written(u, p)
      BY <2>4, <3>1, <3>2, GridFacts DEF Written, Pending, Tiles
    <3>4. gC[<<u, p>>] = <<FullSum(u)>>
      BY <2>2, <3>1, <3>3 DEF EpilogueInv, OutputOK
    <3> QED
      BY <3>4
  <2>5. Output!Write(st.tile, st.part)
    BY <2>3, <2>4
    DEF Output!Write, Output!Missing, Output!Complete, TileResult
  <2> QED
    BY <2>3, <2>5 DEF Output!Next
<1> QED
  BY <1>1, <1>2, GemmBlockCorrect, PTL DEF Spec
=============================================================================
