---------------------------- MODULE MCGemmDriver ----------------------------
(* A small instance of GemmDriver: three configurations, of which all,     *)
(* two or none divide a shape.                                             *)
EXTENDS GemmDriver

ThreeConfigs ==
  <<[bm |-> 1, bn |-> 1, bk |-> 2], [bm |-> 2, bn |-> 1, bk |-> 2],
    [bm |-> 1, bn |-> 2, bk |-> 2]>>

EvenShape == [M |-> 2, N |-> 2, K |-> 2]
OddRows == [M |-> 3, N |-> 2, K |-> 2]
OddShape == [M |-> 1, N |-> 1, K |-> 1]

TwoShapes == <<EvenShape, OddRows>>
AnyShape == {EvenShape, OddRows, OddShape}
=============================================================================
