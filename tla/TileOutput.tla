----------------------------- MODULE TileOutput -----------------------------
(***************************************************************************)
(* What one thread block of either kernel promises: every tile of its      *)
(* share of the grid is written to the output exactly once, part by part   *)
(* and in any order of the parts, with the complete result; a tile is      *)
(* complete before a later tile of the block is begun; no other tile is    *)
(* touched.                                                                *)
(***************************************************************************)
EXTENDS Integers, Sequences

CONSTANTS
  Tiles,        \* tiles of the output
  Parts,        \* parts of a tile that are written separately
  Mine,         \* tiles of this thread block
  Result(_, _)  \* the value of a part of a tile

VARIABLE out    \* the writes each part of each tile has received

Missing(t, p) == out[<<t, p>>] = << >>
Complete(t) == \A p \in Parts : ~ Missing(t, p)

Init == out = [tp \in Tiles \X Parts |-> << >>]

Write(t, p) ==
  /\ Missing(t, p)
  /\ \A u \in Mine : u < t => Complete(u)
  /\ out' = [out EXCEPT ![<<t, p>>] = << Result(t, p) >>]

Next == \E t \in Mine, p \in Parts : Write(t, p)

Spec == Init /\ [][Next]_out /\ WF_out(Next)
=============================================================================
