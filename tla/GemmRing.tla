------------------------------ MODULE GemmRing ------------------------------
(***************************************************************************)
(* The inductive invariant of the ring of GemmKernel: how the two barriers *)
(* of a slot, the TMA loads and the pipeline states of the producer and of *)
(* the consumers relate.  Each quantity of a slot s is a number of rounds: *)
(*                                                                         *)
(*    empty[s].phase <= Freed(w, s) <= full[s].phase <= Armed(s)           *)
(*                                                                         *)
(* for every consumer warp w, and Armed(s) <= empty[s].phase + 1 closes    *)
(* the circle, so that no two of them are ever more than one apart.        *)
(***************************************************************************)
EXTENDS GemmKernel

\* How many of the uses 0 .. n - 1 of the ring were uses of slot s.
Uses(n, s) == (n + STAGE - 1 - s) \div STAGE

\* The producer has armed the full barrier and not issued both copies.
Filling == ppc \in {"copyA", "copyB"}

\* Rounds of slot s armed by the producer, and released by warp w.
Armed(s) ==
  Uses(wState.count, s) + (IF Filling /\ wState.index = s THEN 1 ELSE 0)
Freed(w, s) == Uses(rState[w].count, s)
Held(w, s) == IF Reading(w) /\ rState[w].index = s THEN 1 ELSE 0

\* Warps that have arrived on the current phase of the empty barrier.
Arrivals(s) == {w \in Warps : Freed(w, s) = empty[s].phase + 1}

\* Operands of slot s that are still to come in the current phase.
Unissued(m, s) ==
  Filling /\ wState.index = s /\ (m = "B" \/ ppc = "copyA")
InFlight(m, s) == \E l \in loads : l.mat = m /\ l.slot = s
Owed(m, s) == IF Unissued(m, s) \/ InFlight(m, s) THEN 1 ELSE 0

\* A pipeline state is a function of its count.
StateOK(st) ==
  st.index = st.count % STAGE /\ st.phase = (st.count \div STAGE) % 2

StatesOK == StateOK(wState) /\ \A w \in Warps : StateOK(rState[w])

RoundsOK ==
  \A s \in Slots :
    /\ full[s].phase <= Armed(s) /\ Armed(s) <= full[s].phase + 1
    /\ Armed(s) <= empty[s].phase + 1
    /\ \A w \in Warps :
         /\ empty[s].phase <= Freed(w, s)
         /\ Freed(w, s) + Held(w, s) <= full[s].phase

\* The full barrier waits for exactly the operands owed, and for the
\* producer's arrival when none is.
FullOK ==
  \A s \in Slots :
    /\ full[s].tx = Owed("A", s) + Owed("B", s)
    /\ IF full[s].phase = Armed(s)
       THEN full[s].pending = 1 /\ full[s].tx = 0
       ELSE full[s].pending = 0 /\ full[s].tx # 0

\* No operand is loaded twice at a time, nor before it is issued.
LoadsOK ==
  /\ \A k, l \in loads : k.mat = l.mat /\ k.slot = l.slot => k = l
  /\ \A l \in loads : ~ Unissued(l.mat, l.slot)

\* The empty barrier counts the warps that have released the slot.
EmptyOK ==
  \A s \in Slots :
    /\ empty[s].tx = 0
    /\ empty[s].pending = EmptyCount - Cardinality(Arrivals(s))
    /\ empty[s].pending # 0

\* Nothing moves before the barriers are initialised.
FreshOK ==
  ppc = "init" =>
    /\ full = [s \in Slots |-> NewBarrier(FullCount)]
    /\ empty = [s \in Slots |-> NewBarrier(EmptyCount)]

\* The inductive invariant of the ring (gemm_cute.hpp, lines 105 to 231).
RingInv ==
  TypeOK /\ StatesOK /\ RoundsOK /\ FullOK /\ LoadsOK /\ EmptyOK /\ FreshOK
=============================================================================
