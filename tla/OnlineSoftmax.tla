---------------------------- MODULE OnlineSoftmax ----------------------------
(***************************************************************************)
(* One row of the output of flash_atten_v3_fwd: causal_mask,               *)
(* softmax_rescale and normalize_stats of both variants and the reductions *)
(* of src/utils/utils.h.  The key columns of a block are divided among the *)
(* WARPS_N warps of the row, and those of a warp among the four lanes of a *)
(* quad (a pair of adjacent columns is one column here).                   *)
(*                                                                         *)
(* Arithmetic is exact.  Scores, already multiplied by scale, are integers *)
(* or NegInf; every weight the kernel computes is a power of two or zero   *)
(* and is represented by its exponent, zero by NegInf.  A sum of weights   *)
(* is kept as the function from keys to their terms, and so is rO, whose   *)
(* term of a key multiplies the V row of that key.  NaN stands for every   *)
(* value no formula of the kernel may produce.                             *)
(***************************************************************************)
EXTENDS Integers

CONSTANTS
  Shapes,           \* template parameters and sizes a behaviour may be about
  Scores,           \* scores looked at
  NegInf, NaN

ASSUME ValueAssumption ==
  /\ Scores \subseteq Int /\ Scores # {}
  /\ NegInf \notin Int /\ NaN \notin Int /\ NegInf # NaN

ASSUME SoftmaxShape ==
  \A s \in Shapes :
    /\ {s.WARPS_N, s.kBlockM, s.kBlockN, s.SeqLen} \subseteq Nat \ {0}
    /\ s.IsCausal \in BOOLEAN
    /\ s.kBlockN % (s.WARPS_N * 4) = 0
    /\ s.SeqLen % s.kBlockM = 0 /\ s.SeqLen % s.kBlockN = 0
    /\ s.Rows \subseteq 0 .. s.SeqLen - 1

VARIABLES
  shape,          \* what the kernel was instantiated and called with
  row,            \* row of the sequence that is computed
  score,          \* scores of the blocks done so far, before the mask
  pc, i,          \* operation and key block of every warp column
  rS_max, rS_sum, \* running maximum and sum of every column and lane
  rO,             \* accumulated output of every column and lane
  row_stats,      \* row_max and row_sum in shared memory
  result          \* normalised output of every column and lane

WARPS_N == shape.WARPS_N    \* warp columns; 1 in v3_mMn1k1
kBlockM == shape.kBlockM    \* rows of a Q tile
kBlockN == shape.kBlockN    \* rows of a K tile
SeqLen == shape.SeqLen
IsCausal == shape.IsCausal
Rows == shape.Rows          \* query rows looked at

Keys == 0 .. SeqLen - 1
Columns == 0 .. WARPS_N - 1
Lanes == 0 .. 3
N_len == kBlockN \div WARPS_N

registers == <<rS_max, rS_sum, rO>>
vars == <<shape, row, score, pc, i, registers, row_stats, result>>

-----------------------------------------------------------------------------
(* Floating point.                                                         *)

fmaxf(x, y) ==
  CASE x = NegInf -> y
    [] y = NegInf -> x
    [] OTHER -> IF x >= y THEN x ELSE y

\* x - y of two scores: minus infinity less minus infinity is not a number.
Minus(x, y) ==
  CASE NaN \in {x, y} \/ y = NegInf -> NaN
    [] x = NegInf /\ y # NegInf -> NegInf
    [] OTHER -> x - y

\* Exponents of the product and of the sum of two weights; only equal powers
\* of two have a sum that is one.
Times(x, y) ==
  CASE NaN \in {x, y} -> NaN
    [] NegInf \in {x, y} /\ NaN \notin {x, y} -> NegInf
    [] OTHER -> x + y

Plus(x, y) ==
  CASE x = NegInf -> y
    [] y = NegInf -> x
    [] x # NegInf /\ x = y /\ x # NaN -> x + 1
    [] OTHER -> NaN

ZeroTerms == [k \in Keys |-> NegInf]
Scaled(terms, e) == [k \in Keys |-> Times(terms[k], e)]
Add(f, g) == [k \in Keys |-> Plus(f[k], g[k])]

\* reduce with max: the largest element, which max_fn finds in any order.
Largest(S) == CHOOSE m \in S : \A x \in S : fmaxf(m, x) = m

\* __shfl_xor_sync within a quad.
Partner(l, mask) == IF (l \div mask) % 2 = 0 THEN l + mask ELSE l - mask

\* warp_reduce_max<4> and warp_reduce_sum<4>: an exchange with the partner two
\* lanes away, then with the neighbour.
warp_reduce_max(f) ==
  LET turn(g, mask) == [l \in Lanes |-> fmaxf(g[l], g[Partner(l, mask)])]
  IN  turn(turn(f, 2), 1)
warp_reduce_sum(f) ==
  LET turn(g, mask) == [l \in Lanes |-> Add(g[l], g[Partner(l, mask)])]
  IN  turn(turn(f, 2), 1)

-----------------------------------------------------------------------------
(* The row, its blocks and the mask.                                       *)

q_block == row \div kBlockM
k_blocks ==
  IF IsCausal THEN ((q_block + 1) * kBlockM + kBlockN - 1) \div kBlockN
              ELSE SeqLen \div kBlockN

BlockKeys(n, b) == {b * kBlockN + n * N_len + c : c \in 0 .. N_len - 1}
Lane(k) == k % 4

\* Blocks the kernel calls causal_mask for.
Masks(b) == IsCausal /\ (b + 1) * kBlockN > q_block * kBlockM

\* causal_mask: a column after the row gets the score minus infinity.
causal_mask(k, s) == IF row < k THEN NegInf ELSE s

Attended(k) == IsCausal => k <= row

\* clear(rO), clear(rS_sum) and rS_max = -INFINITY at the head of the loop
\* over the tiles.
ClearedMax == [n \in Columns |-> [l \in Lanes |-> NegInf]]
ClearedTerms == [n \in Columns |-> [l \in Lanes |-> ZeroTerms]]

Init ==
  /\ shape \in Shapes
  /\ row \in Rows
  /\ score = [k \in Keys |-> NegInf]
  /\ pc = [n \in Columns |-> "block"]
  /\ i = [n \in Columns |-> 0]
  /\ rS_max = ClearedMax /\ rS_sum = ClearedTerms /\ rO = ClearedTerms
  /\ row_stats = [n \in Columns |-> NaN]
  /\ result = [n \in Columns |-> NaN]

-----------------------------------------------------------------------------
(* softmax_rescale.                                                        *)

\* reduce_max<4>: over the columns of a lane, then over the lanes.
NewMax(n, s) ==
  warp_reduce_max(
    [l \in Lanes |-> Largest({rS_max[n][l]} \cup
                             {s[k] : k \in {x \in DOMAIN s : Lane(x) = l}})])

\* Factor of what was accumulated so far.
\* Mutant: no case for a row that is masked completely.
exp_scale_Plain(prev, smax) == Minus(prev, smax)
exp_scale(prev, smax) == IF smax = NegInf THEN 0 ELSE Minus(prev, smax)

\* What is subtracted from the scores of the block.
max_scale(smax) == IF smax = NegInf THEN 0 ELSE smax

\* One turn of the k-loop of a warp column: the scores of the block from
\* gemm_flash, the mask, softmax_rescale and the product with V.  A score the
\* mask has to hide is drawn as the largest one, which would be seen.
Drawn(k) == IF Attended(k) THEN Scores ELSE {Largest(Scores)}

Block(n) ==
  /\ pc[n] = "block"
  /\ \E raw \in {f \in [BlockKeys(n, i[n]) -> Scores] :
                   \A k \in DOMAIN f : f[k] \in Drawn(k)} :
       LET b == i[n]
           s == [k \in DOMAIN raw |->
                   IF Masks(b) THEN causal_mask(k, raw[k]) ELSE raw[k]]
           m == NewMax(n, s)
           P(k) == Minus(s[k], max_scale(m[Lane(k)]))
           old(f, l) == Scaled(f, exp_scale(rS_max[n][l], m[l]))
           Mine(l) == [k \in Keys |-> IF k \in DOMAIN s /\ Lane(k) = l
                                      THEN P(k) ELSE NegInf]
           All == [k \in Keys |-> IF k \in DOMAIN s THEN P(k) ELSE NegInf]
       IN  /\ score' = [k \in Keys |-> IF k \in DOMAIN raw THEN raw[k]
                                       ELSE score[k]]
           /\ rS_max' = [rS_max EXCEPT ![n] = m]
           /\ rS_sum' = [rS_sum EXCEPT ![n] =
                [l \in Lanes |-> Add(old(@[l], l), Mine(l))]]
           /\ rO' = [rO EXCEPT ![n] =
                [l \in Lanes |-> Add(old(@[l], l), All)]]
  /\ i' = [i EXCEPT ![n] = @ + 1]
  /\ pc' = [pc EXCEPT ![n] = IF i[n] + 1 < k_blocks THEN "block" ELSE "stats"]
  /\ UNCHANGED <<shape, row, row_stats, result>>

-----------------------------------------------------------------------------
(* normalize_stats.                                                        *)

LaneSum(n) == warp_reduce_sum(rS_sum[n])

\* rO divided by a sum; by one when the sum is zero.
Normalised(out, sum) ==
  [num |-> out, den |-> IF sum = ZeroTerms THEN << >> ELSE sum]

\* One warp column has the whole row.
NormalizeAlone(n) ==
  /\ pc[n] = "stats" /\ WARPS_N = 1
  /\ result' = [result EXCEPT ![n] =
       [l \in Lanes |-> Normalised(rO[n][l], LaneSum(n)[l])]]
  /\ pc' = [pc EXCEPT ![n] = "done"]
  /\ UNCHANGED <<shape, row, score, i, registers, row_stats>>

\* Several columns exchange their statistics; lane 0 of the quad writes.
Publish(n) ==
  /\ pc[n] = "stats" /\ WARPS_N > 1
  /\ row_stats' = [row_stats EXCEPT ![n] =
       [max |-> rS_max[n][0], sum |-> LaneSum(n)[0]]]
  /\ pc' = [pc EXCEPT ![n] = "bar"]
  /\ UNCHANGED <<shape, row, score, i, registers, result>>

BarSync ==
  /\ \A n \in Columns : pc[n] = "bar"
  /\ pc' = [n \in Columns |-> "normalize"]
  /\ UNCHANGED <<shape, row, score, i, registers, row_stats, result>>

global_max == Largest({row_stats[n].max : n \in Columns})

\* Mutant: the sums of the columns are added as they are.
Rescaled_Not(n) == row_stats[n].sum
Rescaled(n) == Scaled(row_stats[n].sum, Minus(row_stats[n].max, global_max))

global_sum ==
  LET upto[n \in 0 .. WARPS_N] ==
        IF n = 0 THEN ZeroTerms ELSE Add(upto[n - 1], Rescaled(n - 1))
  IN  upto[WARPS_N]

partial_scale(m) == IF m = NegInf THEN NegInf ELSE Minus(m, global_max)

Normalize(n) ==
  /\ pc[n] = "normalize"
  /\ result' = [result EXCEPT ![n] =
       [l \in Lanes |->
          Normalised(Scaled(rO[n][l], partial_scale(rS_max[n][l])),
                     global_sum)]]
  /\ pc' = [pc EXCEPT ![n] = "done"]
  /\ UNCHANGED <<shape, row, score, i, registers, row_stats>>

\* The columns meet at the end of the tile and go on with another one; what
\* is left in shared memory is of no meaning then.
Done == \A n \in Columns : pc[n] = "done"

NextTile ==
  /\ Done
  /\ row' \in Rows
  /\ score' = [k \in Keys |-> NegInf]
  /\ pc' = [n \in Columns |-> "block"]
  /\ i' = [n \in Columns |-> 0]
  /\ rS_max' = ClearedMax /\ rS_sum' = ClearedTerms /\ rO' = ClearedTerms
  /\ row_stats' = [n \in Columns |-> NaN]
  /\ result' = [n \in Columns |-> NaN]
  /\ UNCHANGED shape

Next ==
  \/ \E n \in Columns :
       Block(n) \/ NormalizeAlone(n) \/ Publish(n) \/ Normalize(n)
  \/ BarSync
  \/ NextTile

Spec == Init /\ [][Next]_vars

-----------------------------------------------------------------------------
(* Properties.                                                             *)

Seen(n) == {k \in UNION {BlockKeys(n, b) : b \in 0 .. i[n] - 1} : Attended(k)}

\* The invariant of the online softmax (softmax_rescale): after any number of
\* blocks all lanes of a warp column agree on the maximum of the unmasked
\* scores seen, every such key has the weight 2^(score - maximum) in rO and in
\* the partial sum of exactly one lane, and masked keys have none, also while
\* everything seen is masked.
RunningSoftmax ==
  \A n \in Columns, l \in Lanes :
    LET m == Largest({NegInf} \cup {score[k] : k \in Seen(n)})
    IN  /\ rS_max[n][l] = m
        /\ \A k \in Keys :
             /\ rO[n][l][k] = IF k \in Seen(n) THEN Minus(score[k], m)
                                               ELSE NegInf
             /\ rS_sum[n][l][k] = IF k \in Seen(n) /\ Lane(k) = l
                                  THEN Minus(score[k], m) ELSE NegInf

\* The output of a row: the columns added up, as reduce_o_warps_n does.
Output(l) ==
  LET upto[n \in 0 .. WARPS_N] ==
        IF n = 0 THEN ZeroTerms ELSE Add(upto[n - 1], result[n - 1][l].num)
  IN  upto[WARPS_N]

\* When a tile is done every lane holds softmax(scores) of its row: exactly the
\* keys up to the row have a weight if causal, all keys otherwise, and the
\* weights relate to the divisor as the definition
\* 2^score[k] / Sum(2^score[j]) wants, whatever the blocking, the number of
\* warp columns and the columns that are masked completely.
SoftmaxWhenDone ==
  Done =>
    \A n \in Columns, l \in Lanes :
      LET den == result[n][l].den
      IN  /\ den # << >>
          /\ \A k \in Keys :
               ~ Attended(k) => Output(l)[k] = NegInf /\ den[k] = NegInf
          /\ \A j, k \in {x \in Keys : Attended(x)} :
               Minus(Output(l)[k], den[j]) = Minus(score[k], score[j])
=============================================================================
