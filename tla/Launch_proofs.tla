----------------------------- MODULE Launch_proofs -----------------------------
(***************************************************************************)
(* What a launch decides, for every shape of it: which block computes      *)
(* which tile, and how the warps of a block share its registers.           *)
(*                                                                         *)
(* The blocks of a launch share its tiles without communicating, whatever  *)
(* the shape of the output, the width of the column groups and the number  *)
(* of SMs.  The numbering of the tiles is a bijection with the places of   *)
(* the output, and the blocks take the numbers of different remainders.    *)
(*                                                                         *)
(* No consumer starves for registers, whichever of the admissible kernels  *)
(* are built.  The pool is the balance of what was released and what was   *)
(* claimed; what four producers release covers all consumers, a matter of  *)
(* arithmetic on each number of warps.  So is the validity of the requests.*)
(***************************************************************************)
EXTENDS TileSchedule, RegisterPool, EuclideanDivision, FiniteSetTheorems

Launches == GemmLaunches \cup FlashLaunches
TileNumbers(l) == 0 .. tiles_num(l) - 1

LEMMA LaunchFacts ==
  ASSUME NEW l \in Launches
  PROVE  /\ l.rows \in Nat \ {0} /\ l.cols \in Nat \ {0}
         /\ tiles_num(l) \in Nat \ {0}
         /\ block_num(l) \in Nat \ {0} /\ block_num(l) <= tiles_num(l)
<1>1. l.rows \in Nat \ {0} /\ l.cols \in Nat \ {0} /\ l.sm_num \in Nat \ {0}
  BY LaunchAssumption DEF Launches, GemmLaunches, FlashLaunches
<1>2. l.rows * l.cols \in Nat \ {0}
  BY <1>1
<1> QED
  BY <1>1, <1>2 DEF tiles_num, block_num, Smaller

-----------------------------------------------------------------------------
(* The numbering of the tiles.                                             *)

\* The group of columns of a tile: its number, its first column and its
\* width, which is SW but for the last group.
GroupOf(l, t) ==
  LET SW == Smaller(l.width, l.cols)
      first == (t \div (SW * l.rows)) * SW
  IN  [number |-> t \div (SW * l.rows), first |-> first,
       width |-> IF first + SW < l.cols THEN SW ELSE l.cols - first]

\* The tiles of a group are numbered one after the other, group by group.
LEMMA GroupFacts ==
  ASSUME NEW l \in GemmLaunches, NEW t \in TileNumbers(l),
         NEW g, g = GroupOf(l, t), NEW SW, SW = Smaller(l.width, l.cols)
  PROVE  /\ SW \in Nat \ {0}
         /\ g.number \in Nat /\ g.width \in 1 .. SW
         /\ g.first = SW * g.number /\ g.first + g.width <= l.cols
         /\ g.width * l.rows \in Nat \ {0}
         /\ g.first * l.rows <= t
         /\ t < g.first * l.rows + g.width * l.rows
<1>1. /\ l.rows \in Nat \ {0} /\ l.cols \in Nat \ {0}
      /\ l.width \in Nat \ {0} /\ t \in Nat /\ t < l.rows * l.cols
  <2>1. l \in Launches
    BY DEF Launches
  <2>2. tiles_num(l) \in Nat
    BY <2>1, LaunchFacts
  <2> QED
    BY <2>1, <2>2, LaunchFacts, LaunchAssumption
       DEF GemmLaunches, TileNumbers, tiles_num
<1> DEFINE R == l.rows
           C == l.cols
           n == t \div (SW * R)
           r == t % (SW * R)
<1>2. SW \in Nat \ {0} /\ SW <= C
  BY <1>1 DEF Smaller
<1>3. SW * R \in Nat \ {0}
  BY <1>1, <1>2
<1>4. n \in Nat /\ r \in Nat /\ r < SW * R /\ t = (SW * R) * n + r
  <2>1. \A d \in Nat \ {0} :
          t \div d \in Nat /\ t % d \in 0 .. d - 1 /\ t = d * (t \div d) + (t % d)
    BY <1>1, Division
  <2>2. n \in Nat /\ r \in 0 .. SW * R - 1 /\ t = (SW * R) * n + r
    BY <1>3, <2>1
  <2> QED
    BY ONLY <1>3, <2>2
<1>5. g.number = n /\ g.first = n * SW
      /\ g.width = IF n * SW + SW < C THEN SW ELSE C - n * SW
  BY DEF GroupOf
<1> HIDE DEF R, C, n, r
<1>6. R \in Nat \ {0} /\ C \in Nat \ {0} /\ t < R * C
  BY <1>1 DEF R, C
<1>7. n * SW \in Nat /\ n * SW = SW * n
  BY <1>2, <1>4
<1>8. (n * SW) * R <= t /\ (n * SW) * R + r = t
  <2>1. (SW * R) * n = (n * SW) * R
    BY <1>2, <1>4, <1>6
  <2> QED
    BY <1>2, <1>4, <1>6, <1>7, <2>1
<1>9. n * SW < C
  <2> SUFFICES ASSUME n * SW >= C PROVE FALSE
    BY <1>6, <1>7
  <2>1. (n * SW) * R >= C * R
    BY <1>6, <1>7
  <2>2. C * R = R * C /\ C * R \in Nat /\ (n * SW) * R \in Nat /\ t \in Nat
    BY <1>1, <1>6, <1>7
  <2> QED
    BY <1>6, <1>8, <2>1, <2>2
<1>10. g.width \in 1 .. SW /\ g.first + g.width <= C
  BY <1>2, <1>5, <1>6, <1>7, <1>9
<1>11. g.width * R \in Nat \ {0}
  BY <1>6, <1>10
<1>12. t < (n * SW) * R + g.width * R
  <2>1. CASE n * SW + SW < C
    <3>1. (n * SW) * R \in Nat /\ g.width * R = SW * R
      BY <2>1, <1>5, <1>6, <1>7
    <3> QED
      BY <3>1, <1>3, <1>4, <1>8 DEF R
  <2>2. CASE ~ (n * SW + SW < C)
    <3>1. (n * SW) * R + (C - n * SW) * R = R * C
      BY <1>6, <1>7
    <3> QED
      BY <2>2, <3>1, <1>5, <1>6
  <2> QED
    BY <2>1, <2>2
<1> QED
  BY <1>1, <1>2, <1>4, <1>5, <1>7, <1>8, <1>10, <1>11, <1>12 DEF R, C

LEMMA Decomposition ==
  ASSUME NEW m \in Nat, NEW w \in Nat \ {0}, NEW R \in Nat, m < w * R
  PROVE  /\ m \div w \in 0 .. R - 1 /\ m % w \in 0 .. w - 1
         /\ m = w * (m \div w) + (m % w)
<1> DEFINE q == m \div w
           r == m % w
<1>1. q \in Nat /\ r \in 0 .. w - 1 /\ m = w * q + r
  BY Division
<1> HIDE DEF q, r
<1>2. q < R
  <2> SUFFICES ASSUME q >= R PROVE FALSE
    BY <1>1
  <2>1. w * q >= w * R /\ w * q \in Nat /\ w * R \in Nat
    BY <1>1
  <2> QED
    BY <1>1, <2>1
<1> QED
  BY <1>1, <1>2 DEF q, r

LEMMA SwizzleFacts ==
  ASSUME NEW l \in GemmLaunches, NEW t \in TileNumbers(l),
         NEW g, g = GroupOf(l, t), NEW m, m = t % (g.width * l.rows)
  PROVE  /\ block_swizzle(l, t) = <<m \div g.width, g.first + (m % g.width)>>
         /\ m \in 0 .. g.width * l.rows - 1
         /\ m \div g.width \in 0 .. l.rows - 1
         /\ m % g.width \in 0 .. g.width - 1
         /\ m = g.width * (m \div g.width) + (m % g.width)
<1>1. block_swizzle(l, t) = <<m \div g.width, g.first + (m % g.width)>>
  BY DEF block_swizzle, GroupOf
<1>2. /\ t \in Nat /\ l.rows \in Nat \ {0} /\ g.width \in Nat \ {0}
      /\ g.width * l.rows \in Nat \ {0}
  <2>1. l \in Launches
    BY DEF Launches
  <2>2. Smaller(l.width, l.cols) \in Nat \ {0}
    BY GroupFacts
  <2> QED
    BY <2>1, <2>2, LaunchFacts, GroupFacts DEF TileNumbers
<1>3. m \in 0 .. g.width * l.rows - 1
  BY <1>2, Division
<1>4. m \in Nat /\ m < g.width * l.rows
  BY <1>2, <1>3
<1>5. /\ m \div g.width \in 0 .. l.rows - 1 /\ m % g.width \in 0 .. g.width - 1
      /\ m = g.width * (m \div g.width) + (m % g.width)
  BY <1>2, <1>4, Decomposition
<1> QED
  BY ONLY <1>1, <1>3, <1>5

\* block_swizzle maps different tiles to different places of the output.
LEMMA SwizzleInjective ==
  ASSUME NEW l \in GemmLaunches, NEW t \in TileNumbers(l),
         NEW u \in TileNumbers(l), block_swizzle(l, t) = block_swizzle(l, u)
  PROVE  t = u
<1> DEFINE SW == Smaller(l.width, l.cols)
           g == GroupOf(l, t)
           h == GroupOf(l, u)
           m == t % (g.width * l.rows)
           k == u % (h.width * l.rows)
<1>1. /\ SW \in Nat \ {0}
      /\ g.number \in Nat /\ g.width \in 1 .. SW /\ g.first = SW * g.number
      /\ g.width * l.rows \in Nat \ {0} /\ g.first * l.rows <= t
      /\ t < g.first * l.rows + g.width * l.rows
  BY GroupFacts
<1>2. /\ h.number \in Nat /\ h.width \in 1 .. SW /\ h.first = SW * h.number
      /\ h.first * l.rows <= u
      /\ u < h.first * l.rows + h.width * l.rows
  BY GroupFacts
<1>3. /\ block_swizzle(l, t) = <<m \div g.width, g.first + (m % g.width)>>
      /\ m % g.width \in 0 .. g.width - 1
      /\ m = g.width * (m \div g.width) + (m % g.width)
  BY SwizzleFacts
<1>4. /\ block_swizzle(l, u) = <<k \div h.width, h.first + (k % h.width)>>
      /\ k % h.width \in 0 .. h.width - 1
      /\ k = h.width * (k \div h.width) + (k % h.width)
  BY SwizzleFacts
<1>5. /\ m \div g.width = k \div h.width
      /\ g.first + (m % g.width) = h.first + (k % h.width)
  <2>1. <<m \div g.width, g.first + (m % g.width)>>
          = <<k \div h.width, h.first + (k % h.width)>>
    BY <1>3, <1>4
  <2> HIDE DEF g, h, m, k
  <2> QED
    BY <2>1
<1>6. g.number = h.number /\ m % g.width = k % h.width
  <2> DEFINE x == m % g.width
             y == k % h.width
  <2> HIDE DEF SW, g, h, m, k
  <2>1. x \in 0 .. g.width - 1 /\ y \in 0 .. h.width - 1
        /\ g.first + x = h.first + y
    BY <1>3, <1>4, <1>5
  <2> HIDE DEF x, y
  <2>2. x \in 0 .. SW - 1 /\ y \in 0 .. SW - 1
    BY <1>1, <1>2, <2>1
  <2>3. SW * g.number + x = SW * h.number + y
    BY <1>1, <1>2, <2>1
  <2>4. g.number = h.number /\ x = y
    <3>1. g.number \in Int /\ h.number \in Int /\ SW \in Nat \ {0}
      BY <1>1, <1>2
    <3> DEFINE p == g.number
               q == h.number
    <3>2. SW * p + x = SW * q + y /\ p \in Int /\ q \in Int
      BY <2>3, <3>1
    <3> HIDE DEF p, q
    <3>3. p = q /\ x = y
      BY <2>2, <3>1, <3>2, DivisionUnique
    <3> QED
      BY <3>3 DEF p, q
  <2> QED
    BY <2>4 DEF x, y
<1>7. g = h
  BY <1>6 DEF GroupOf
<1>8. m = k
  BY <1>3, <1>4, <1>5, <1>6, <1>7
<1>9. t \in Nat /\ u \in Nat /\ g.first * l.rows \in Int
  <2>1. g.first \in Nat
    BY <1>1
  <2>2. l.rows \in Nat
    BY LaunchFacts DEF Launches
  <2> QED
    BY <2>1, <2>2 DEF TileNumbers
<1>10. t < u + g.width * l.rows /\ u < t + g.width * l.rows
  BY <1>1, <1>2, <1>7, <1>9
<1>11. t % (g.width * l.rows) = u % (g.width * l.rows)
  BY <1>7, <1>8
<1> QED
  BY <1>1, <1>9, <1>10, <1>11, SameRemainder

\* So does get_tile_coord.
LEMMA CoordFacts ==
  ASSUME NEW l \in FlashLaunches, NEW t \in TileNumbers(l)
  PROVE  /\ get_tile_coord(l, t) \in Places(l)
         /\ \A u \in TileNumbers(l) :
              get_tile_coord(l, t) = get_tile_coord(l, u) => t = u
<1>1. l.rows \in Nat \ {0} /\ l.cols \in Nat \ {0}
  BY LaunchFacts DEF Launches
<1>2. ASSUME NEW u \in TileNumbers(l)
      PROVE  /\ u \div l.rows \in 0 .. l.cols - 1
             /\ u % l.rows \in 0 .. l.rows - 1
             /\ u = l.rows * (u \div l.rows) + (u % l.rows)
  <2>1. l.rows * l.cols \in Nat
    BY <1>1
  <2>2. u \in Nat /\ u < l.rows * l.cols
    BY <2>1 DEF TileNumbers, tiles_num
  <2> QED
    BY <1>1, <2>2, Decomposition
<1>4. get_tile_coord(l, t) \in Places(l)
  <2> DEFINE q == t \div l.rows
             r == t % l.rows
  <2>1. q \in 0 .. l.cols - 1 /\ r \in 0 .. l.rows - 1
    BY <1>2
  <2>2. get_tile_coord(l, t) = <<l.rows - 1 - r, q>>
    BY DEF get_tile_coord
  <2> HIDE DEF q, r
  <2> QED
    BY <1>1, <2>1, <2>2 DEF Places
<1>5. ASSUME NEW u \in TileNumbers(l),
             get_tile_coord(l, t) = get_tile_coord(l, u)
      PROVE  t = u
  <2> DEFINE q == t \div l.rows
             r == t % l.rows
             v == u \div l.rows
             w == u % l.rows
  <2>1. <<l.rows - 1 - r, q>> = <<l.rows - 1 - w, v>>
    BY <1>5 DEF get_tile_coord
  <2>2. r \in 0 .. l.rows - 1 /\ w \in 0 .. l.rows - 1
        /\ t = l.rows * q + r /\ u = l.rows * v + w
    BY <1>2
  <2> HIDE DEF q, r, v, w
  <2>3. r = w /\ q = v
    BY <1>1, <2>1, <2>2
  <2> QED
    BY <2>2, <2>3
<1> QED
  BY <1>4, <1>5

LEMMA PlaceFacts ==
  ASSUME NEW l \in Launches, NEW t \in TileNumbers(l)
  PROVE  /\ Place(l, t) \in Places(l)
         /\ \A u \in TileNumbers(l) : Place(l, t) = Place(l, u) => t = u
<1>1. CASE l \in GemmLaunches
  <2>1. l.kernel = "gemm"
    BY <1>1 DEF GemmLaunches
  <2>2. block_swizzle(l, t) \in Places(l)
    <3> DEFINE g == GroupOf(l, t)
               m == t % (g.width * l.rows)
               SW == Smaller(l.width, l.cols)
    <3>1. /\ block_swizzle(l, t) = <<m \div g.width, g.first + (m % g.width)>>
          /\ m \div g.width \in 0 .. l.rows - 1
          /\ m % g.width \in 0 .. g.width - 1
      BY <1>1, SwizzleFacts
    <3>2. /\ SW \in Nat \ {0} /\ g.number \in Nat /\ g.width \in 1 .. SW
          /\ g.first = SW * g.number /\ g.first + g.width <= l.cols
      BY <1>1, GroupFacts
    <3>3. g.first \in Nat /\ l.cols \in Nat
      BY <3>2, LaunchFacts
    <3>4. g.first + (m % g.width) \in 0 .. l.cols - 1
      BY <3>1, <3>2, <3>3
    <3> HIDE DEF g, m
    <3> QED
      BY <3>1, <3>4 DEF Places
  <2> QED
    BY <1>1, <2>1, <2>2, SwizzleInjective DEF Place
<1>2. CASE l \in FlashLaunches
  <2>1. l.kernel = "flash"
    BY <1>2 DEF FlashLaunches
  <2> QED
    BY <1>2, <2>1, CoordFacts DEF Place
<1> QED
  BY <1>1, <1>2 DEF Launches

LEMMA RangeSize ==
  ASSUME NEW n \in Nat
  PROVE  IsFiniteSet(0 .. n - 1) /\ Cardinality(0 .. n - 1) = n
<1>1. 0 \in Int /\ n - 1 \in Int
  OBVIOUS
<1>2. IsFiniteSet(0 .. n - 1)
      /\ Cardinality(0 .. n - 1) = IF 0 > n - 1 THEN 0 ELSE (n - 1) - 0 + 1
  BY ONLY <1>1, FS_Interval
<1> QED
  BY <1>2

LEMMA Onto ==
  ASSUME NEW S, NEW T, NEW f \in Injection(S, T), IsFiniteSet(T),
         Cardinality(S) = Cardinality(T)
  PROVE  f \in Surjection(S, T)
BY FS_Injection

\* There are as many tiles as places, so that every place has its tile.
LEMMA PlacesCovered ==
  ASSUME NEW l \in Launches
  PROVE  {Place(l, t) : t \in TileNumbers(l)} = Places(l)
<1> DEFINE T == TileNumbers(l)
           f == [t \in T |-> Place(l, t)]
<1>1. f \in Injection(T, Places(l))
  <2>1. f \in [T -> Places(l)]
    BY PlaceFacts
  <2>2. \A t, u \in T : f[t] = f[u] => t = u
    BY PlaceFacts
  <2> QED
    BY <2>1, <2>2 DEF Injection, IsInjective
<1>2. IsFiniteSet(T) /\ Cardinality(T) = l.rows * l.cols
  BY LaunchFacts, RangeSize DEF TileNumbers, tiles_num
<1>3. IsFiniteSet(Places(l)) /\ Cardinality(Places(l)) = l.rows * l.cols
  <2> DEFINE A == 0 .. l.rows - 1
             B == 0 .. l.cols - 1
  <2>1. /\ IsFiniteSet(A) /\ Cardinality(A) = l.rows
        /\ IsFiniteSet(B) /\ Cardinality(B) = l.cols
    BY LaunchFacts, RangeSize
  <2>2. Places(l) = A \X B
    BY DEF Places
  <2> HIDE DEF A, B
  <2>3. /\ IsFiniteSet(A \X B)
        /\ Cardinality(A \X B) = Cardinality(A) * Cardinality(B)
    BY <2>1, FS_Product
  <2> QED
    BY <2>1, <2>2, <2>3
<1>4. f \in Surjection(T, Places(l))
  <2>1. Cardinality(T) = Cardinality(Places(l))
    BY <1>2, <1>3
  <2> HIDE DEF T, f
  <2> QED
    BY <1>1, <1>3, <2>1, Onto
<1>5. \A p \in Places(l) : \E t \in T : f[t] = p
  BY <1>4 DEF Surjection
<1> QED
  BY <1>5, PlaceFacts

-----------------------------------------------------------------------------
(* The blocks.                                                             *)

\* The remainder of a tile number names the block that takes it.
Entry(t) ==
  [block |-> t % block_num(launch), tile |-> t, place |-> Place(launch, t)]

\* The tiles that lie behind the loop variable of their block.
Behind == {t \in TileNumbers(launch) : t < tiled_id[t % block_num(launch)]}

\* The inductive invariant: every block runs through the numbers of its own
\* remainder, and taken holds exactly those it has left behind.
SharedInv ==
  /\ launch \in Launches
  /\ tiled_id \in [Blocks(launch) -> Nat]
  /\ \A b \in Blocks(launch) : tiled_id[b] % block_num(launch) = b
  /\ taken = {Entry(t) : t \in Behind}

LEMMA SharedInit ==
  ASSUME Init
  PROVE  SharedInv
<1> DEFINE B == block_num(launch)
<1>1. launch \in Launches /\ B \in Nat \ {0}
  BY LaunchFacts DEF Init, Launches
<1>2. tiled_id \in [Blocks(launch) -> Nat]
  BY <1>1 DEF Init, Blocks
<1>3. ASSUME NEW b \in Blocks(launch)
      PROVE  tiled_id[b] % B = b
  <2>1. tiled_id[b] = b /\ b \in 0 .. B - 1
    BY <1>3 DEF Init, Blocks
  <2>2. b % B = b
    BY <1>1, <2>1, SmallRemainder
  <2> QED
    BY <2>1, <2>2
<1>4. Behind = {}
  <2> SUFFICES ASSUME NEW t \in TileNumbers(launch),
                      t < tiled_id[t % B]
               PROVE  FALSE
    BY DEF Behind
  <2>1. t \in Nat
    BY DEF TileNumbers
  <2>2. /\ t % B \in 0 .. B - 1 /\ t \div B \in Nat
        /\ t = B * (t \div B) + (t % B)
    BY <1>1, <2>1, Division
  <2>3. tiled_id[t % B] = t % B
    BY <2>2 DEF Init, Blocks
  <2>4. B * (t \div B) \in Nat
    BY <1>1, <2>2
  <2> HIDE DEF B
  <2> QED
    BY <2>1, <2>2, <2>3, <2>4 DEF B
<1> QED
  BY <1>1, <1>2, <1>3, <1>4 DEF SharedInv, Init

LEMMA SharedStep ==
  ASSUME SharedInv, [Next]_vars
  PROVE  SharedInv'
<1> DEFINE B == block_num(launch)
<1>1. B \in Nat \ {0}
  BY LaunchFacts DEF SharedInv
<1>2. ASSUME NEW b \in Blocks(launch), TakeTile(b)
      PROVE  SharedInv'
  <2> DEFINE n == tiled_id[b]
  <2>1. /\ n \in Nat /\ n % B = b /\ n < tiles_num(launch)
        /\ n \in TileNumbers(launch)
    <3>1. n \in Nat /\ n % B = b /\ n < tiles_num(launch)
      BY <1>2 DEF SharedInv, TakeTile, Active
    <3>2. tiles_num(launch) \in Nat
      BY LaunchFacts DEF SharedInv
    <3> QED
      BY <3>1, <3>2 DEF TileNumbers
  <2>2. launch' = launch /\ tiled_id' = [tiled_id EXCEPT ![b] = n + B]
    BY <1>2 DEF TakeTile, NextTile, SharedInv
  <2>3. tiled_id' \in [Blocks(launch) -> Nat]
    BY <1>1, <2>1, <2>2 DEF SharedInv
  <2>4. ASSUME NEW c \in Blocks(launch)
        PROVE  tiled_id'[c] % B = c
    <3>1. CASE c = b
      <4>1. (n + B) % B = n % B
        BY <1>1, <2>1, NextRemainder
      <4> QED
        BY <2>1, <2>2, <3>1, <4>1 DEF SharedInv
    <3>2. CASE c # b
      BY <2>2, <3>2 DEF SharedInv
    <3> QED
      BY <3>1, <3>2
  <2>5. Behind' = Behind \cup {n}
    <3>1. ASSUME NEW t \in TileNumbers(launch)
          PROVE  t < tiled_id'[t % B] <=> t < tiled_id[t % B] \/ t = n
      <4>1. t \in Nat /\ t % B \in Blocks(launch)
        <5>1. t \in Nat
          BY DEF TileNumbers
        <5> QED
          BY <1>1, <5>1, Division DEF Blocks
      <4>2. CASE t % B # b
        BY <2>1, <2>2, <4>1, <4>2 DEF SharedInv
      <4>3. CASE t % B = b
        <5>1. tiled_id'[t % B] = n + B /\ tiled_id[t % B] = n
          BY <2>2, <4>3 DEF SharedInv
        <5>2. t < n + B /\ ~ (t < n) => t = n
          <6> SUFFICES ASSUME t < n + B, ~ (t < n) PROVE t = n
            OBVIOUS
          <6>1. n < t + B /\ t % B = n % B
            BY <1>1, <2>1, <4>1, <4>3
          <6> QED
            BY <1>1, <2>1, <4>1, <6>1, SameRemainder
        <5> QED
          BY <1>1, <2>1, <4>1, <5>1, <5>2
      <4> QED
        BY <4>2, <4>3
    <3>2. Behind' = {t \in TileNumbers(launch) : t < tiled_id'[t % B]}
      BY <2>2 DEF Behind
    <3> QED
      BY <2>1, <3>1, <3>2 DEF Behind
  <2>6. taken' = taken \cup {Entry(n)}
    BY <1>2, <2>1 DEF TakeTile, Entry
  <2>7. \A t : Entry(t)' = Entry(t)
    BY <2>2 DEF Entry
  <2>8. taken' = {Entry(t)' : t \in Behind'}
    BY <2>5, <2>6, <2>7 DEF SharedInv
  <2> QED
    BY <2>2, <2>3, <2>4, <2>8 DEF SharedInv
<1>3. CASE UNCHANGED vars
  BY <1>3 DEF vars, SharedInv, Behind, Entry
<1> QED
  BY <1>2, <1>3 DEF Next, Terminated

LEMMA SharedInvariant == Spec => []SharedInv
BY SharedInit, SharedStep, PTL DEF Spec

-----------------------------------------------------------------------------
(* The theorems.                                                           *)

\* No place of the output is computed twice, by one block of the launch or by
\* two (the grid-stride loops with block_swizzle or get_tile_coord).
THEOREM PlacesExclusive == Spec => []ExclusivePlaces
<1>1. SharedInv => ExclusivePlaces
  <2> SUFFICES ASSUME SharedInv, NEW t \in Behind, NEW u \in Behind,
                      Place(launch, t) = Place(launch, u)
               PROVE  t = u
    BY DEF SharedInv, ExclusivePlaces, Entry
  <2>1. t \in TileNumbers(launch) /\ u \in TileNumbers(launch)
    BY DEF Behind
  <2> QED
    BY <2>1, PlaceFacts DEF SharedInv
<1> QED
  BY <1>1, SharedInvariant, PTL

\* When the loops are over nothing is left ahead of any block.
LEMMA AllBehind ==
  ASSUME SharedInv, Done
  PROVE  Behind = TileNumbers(launch)
<1> SUFFICES ASSUME NEW t \in TileNumbers(launch)
             PROVE  t < tiled_id[t % block_num(launch)]
  BY DEF Behind
<1>1. t \in Nat /\ t < tiles_num(launch) /\ tiles_num(launch) \in Nat
  BY LaunchFacts DEF TileNumbers, SharedInv
<1>2. t % block_num(launch) \in Blocks(launch)
  BY <1>1, LaunchFacts, Division DEF SharedInv, Blocks
<1> QED
  BY <1>1, <1>2 DEF Done, Active, SharedInv

\* When all blocks have left their loops the whole output has been computed
\* and nothing outside it, also where the column groups do not divide it.
THEOREM OutputCovered == Spec => []CoveredWhenDone
<1>1. SharedInv => CoveredWhenDone
  <2> SUFFICES ASSUME SharedInv, Done
               PROVE  {x.place : x \in taken} = Places(launch)
    BY DEF CoveredWhenDone
  <2>1. {x.place : x \in taken} = {Place(launch, t) : t \in TileNumbers(launch)}
    <3>1. taken = {Entry(t) : t \in TileNumbers(launch)}
      BY AllBehind DEF SharedInv
    <3>2. \A t : Entry(t).place = Place(launch, t)
      BY DEF Entry
    <3> QED
      BY <3>1, <3>2
  <2> QED
    BY <2>1, PlacesCovered DEF SharedInv
<1> QED
  BY <1>1, SharedInvariant, PTL

\* The tiles of block b are b, b + B, ...: there are RoundsOf(b) of them.
RoundsOf(b) == (tiles_num(launch) - 1 - b) \div block_num(launch) + 1

LEMMA RoundsFacts ==
  ASSUME SharedInv, NEW b \in Blocks(launch), NEW B, B = block_num(launch),
         NEW T, T = tiles_num(launch)
  PROVE  /\ B \in Nat \ {0} /\ b \in 0 .. B - 1 /\ T \in Nat \ {0}
         /\ RoundsOf(b) \in Nat \ {0}
         /\ \E r \in 0 .. B - 1 : T - 1 - b = B * (RoundsOf(b) - 1) + r
<1>1. /\ B \in Nat \ {0} /\ T \in Nat \ {0} /\ B <= T
      /\ b \in 0 .. B - 1
  BY LaunchFacts DEF SharedInv, Blocks
<1> DEFINE n == T - 1 - b
           q == n \div B
           r == n % B
<1>2. n \in Nat
  BY <1>1
<1>3. q \in Nat /\ r \in 0 .. B - 1 /\ n = B * q + r
  BY <1>1, <1>2, Division
<1>4. RoundsOf(b) = q + 1
  BY DEF RoundsOf
<1> HIDE DEF q, r
<1>5. RoundsOf(b) - 1 = q /\ RoundsOf(b) \in Nat \ {0}
  BY <1>3, <1>4
<1> QED
  BY <1>1, <1>3, <1>5

LEMMA LoadOf ==
  ASSUME SharedInv, Done, NEW b \in Blocks(launch)
  PROVE  Load(b) = RoundsOf(b)
<1> DEFINE B == block_num(launch)
           T == tiles_num(launch)
           n == RoundsOf(b)
           S == 0 .. n - 1
           X == {x \in taken : x.block = b}
           f == [k \in S |-> Entry(B * k + b)]
<1>1. /\ B \in Nat \ {0} /\ b \in 0 .. B - 1 /\ T \in Nat \ {0}
      /\ n \in Nat \ {0}
      /\ \E r \in 0 .. B - 1 : T - 1 - b = B * (n - 1) + r
  BY RoundsFacts
<1> HIDE DEF B, T, n
<1>2. PICK r \in 0 .. B - 1 : T - 1 - b = B * (n - 1) + r
  BY <1>1
<1>3. \A t : /\ Entry(t).block = t % B /\ Entry(t).tile = t
  BY DEF Entry, B
<1>4. X = {Entry(t) : t \in {u \in 0 .. T - 1 : u % B = b}}
  <2>1. taken = {Entry(t) : t \in 0 .. T - 1}
    BY AllBehind DEF SharedInv, TileNumbers, T
  <2> QED
    BY <1>3, <2>1
<1>5. ASSUME NEW k \in S
      PROVE  B * k + b \in 0 .. T - 1 /\ (B * k + b) % B = b
  <2>1. k \in Nat /\ k <= n - 1
    BY <1>1, <1>5
  <2>2. B * k \in Nat /\ B * (n - 1) \in Nat /\ B * k <= B * (n - 1)
    <3>1. B * (n - 1) = B * k + B * (n - 1 - k)
      BY <1>1, <2>1
    <3>2. B * (n - 1 - k) \in Nat
      BY <1>1, <2>1
    <3>3. B * k \in Nat
      BY <1>1, <2>1
    <3> QED
      BY <3>1, <3>2, <3>3
  <2>3. B * k + b \in 0 .. T - 1
    BY <1>1, <1>2, <2>2
  <2>4. (B * k + b) % B = b
    BY <1>1, <2>1, RemainderOf
  <2> QED
    BY <2>3, <2>4
<1>6. ASSUME NEW u \in 0 .. T - 1, u % B = b
      PROVE  \E k \in S : u = B * k + b
  <2> DEFINE k == u \div B
  <2>1. u \in Nat
    BY <1>1
  <2>2. k \in Nat /\ u = B * k + (u % B)
    BY <1>1, <2>1, Division
  <2> HIDE DEF k
  <2>3. u = B * k + b /\ k \in Nat
    BY <1>6, <2>2
  <2>4. k <= n - 1
    <3> SUFFICES ASSUME k >= n PROVE FALSE
      BY <1>1, <2>3
    <3>1. B * k = B * (n - 1) + B * (k - n + 1)
      BY <1>1, <2>3
    <3>2. B * (k - n + 1) >= B
      BY <1>1, <2>3
    <3>3. B * (n - 1) \in Int /\ B * k \in Int /\ B * (k - n + 1) \in Int
      BY <1>1, <2>3
    <3> QED
      BY <1>1, <1>2, <2>1, <2>3, <3>1, <3>2, <3>3
  <2> QED
    BY <1>1, <2>3, <2>4
<1>7. f \in Bijection(S, X)
  <2>1. f \in [S -> X]
    BY <1>4, <1>5
  <2>2. ASSUME NEW j \in S, NEW k \in S, f[j] = f[k]
        PROVE  j = k
    <3>1. f[j].tile = B * j + b /\ f[k].tile = B * k + b
      BY <1>3
    <3>2. j \in Int /\ k \in Int /\ B * j + b = B * k + b
      BY <1>1, <2>2, <3>1
    <3> HIDE DEF f, S
    <3> QED
      BY <1>1, <3>2, DivisionUnique
  <2>3. ASSUME NEW x \in X
        PROVE  \E k \in S : f[k] = x
    <3>1. PICK u \in 0 .. T - 1 : u % B = b /\ x = Entry(u)
      BY <1>4
    <3>2. PICK k \in S : u = B * k + b
      BY <1>6, <3>1
    <3> QED
      BY <3>1, <3>2
  <2> HIDE DEF f, S, X
  <2> QED
    BY <2>1, <2>2, <2>3 DEF Bijection, Injection, IsInjective, Surjection
<1>8. IsFiniteSet(S) /\ Cardinality(S) = n
  BY <1>1, RangeSize
<1>9. Cardinality(X) = Cardinality(S)
  <2> HIDE DEF f, S, X
  <2> QED
    BY <1>7, <1>8, FS_Bijection DEF ExistsBijection
<1> QED
  BY <1>8, <1>9 DEF Load, n

\* The persistent blocks share the work evenly: when the launch is over none
\* has done two tiles more than another.
THEOREM WorkBalanced == Spec => []BalancedBlocks
<1>1. SharedInv => BalancedBlocks
  <2> SUFFICES ASSUME SharedInv, Done, NEW a \in Blocks(launch),
                      NEW b \in Blocks(launch)
               PROVE  Load(a) <= Load(b) + 1
    BY DEF BalancedBlocks
  <2> DEFINE B == block_num(launch)
             T == tiles_num(launch)
             m == RoundsOf(a)
             n == RoundsOf(b)
  <2>1. /\ B \in Nat \ {0} /\ a \in 0 .. B - 1 /\ T \in Nat \ {0}
        /\ m \in Nat \ {0}
        /\ \E r \in 0 .. B - 1 : T - 1 - a = B * (m - 1) + r
    BY RoundsFacts
  <2>2. /\ b \in 0 .. B - 1 /\ n \in Nat \ {0}
        /\ \E s \in 0 .. B - 1 : T - 1 - b = B * (n - 1) + s
    BY RoundsFacts
  <2>3. Load(a) = m /\ Load(b) = n
    BY LoadOf
  <2> HIDE DEF B, T, m, n
  <2>4. PICK r \in 0 .. B - 1 : T - 1 - a = B * (m - 1) + r
    BY <2>1
  <2>5. PICK s \in 0 .. B - 1 : T - 1 - b = B * (n - 1) + s
    BY <2>2
  <2>6. m <= n + 1
    <3> SUFFICES ASSUME m - n >= 2 PROVE FALSE
      BY <2>1, <2>2
    <3>1. B * (m - 1) = B * (n - 1) + B * (m - n)
      BY <2>1, <2>2
    <3>2. B * (m - n) >= 2 * B
      BY <2>1, <2>2
    <3>3. /\ B * (m - 1) \in Int /\ B * (n - 1) \in Int
          /\ B * (m - n) \in Int
      BY <2>1, <2>2
    <3> QED
      BY <2>1, <2>2, <2>4, <2>5, <3>1, <3>2, <3>3
  <2> QED
    BY <2>3, <2>6
<1> QED
  BY <1>1, SharedInvariant, PTL

-----------------------------------------------------------------------------
(* The registers of a thread block.                                        *)


Launched(k) == launch_registers(k.warps)

\* The numbers of a kernel that moves registers: what one producer releases
\* and one consumer claims are naturals, and the claims are covered.
Affordable(k) ==
  /\ k.warps \in Nat
  /\ Launched(k) - kProducerRegCount \in Nat
  /\ k.want - Launched(k) \in Nat
  /\ k.want - Launched(k) <= 256
  /\ k.warps * (k.want - Launched(k))
       <= ProducerWarps * (Launched(k) - kProducerRegCount)

\* Kernels that take their request from get_consumer_registers, by number of
\* consumer warps.
LEMMA RequestAffordable ==
  ASSUME NEW n \in 1 .. 8, NEW r
  PROVE  Affordable([warps |-> n, want |-> get_consumer_registers(n),
                     reconfig |-> r])
<1> DEFINE k == [warps |-> n, want |-> get_consumer_registers(n),
                 reconfig |-> r]
<1>1. /\ k.warps = n /\ k.want = get_consumer_registers(n)
  OBVIOUS
<1>2. /\ n = 1 => Launched(k) = 256 /\ k.want = 256
      /\ n = 2 => Launched(k) = 256 /\ k.want = 256
      /\ n = 3 => Launched(k) = 256 /\ k.want = 256
      /\ n = 4 => Launched(k) = 256 /\ k.want = 256
  BY <1>1 DEF Launched, launch_registers, get_consumer_registers, AtMost,
     Rounded, RegisterFile, WarpSize, ProducerWarps, kProducerRegCount
<1>3. /\ n = 5 => Launched(k) = 224 /\ k.want = 256
      /\ n = 6 => Launched(k) = 200 /\ k.want = 256
      /\ n = 7 => Launched(k) = 184 /\ k.want = 256
      /\ n = 8 => Launched(k) = 168 /\ k.want = 232
  BY <1>1 DEF Launched, launch_registers, get_consumer_registers, AtMost,
     Rounded, RegisterFile, WarpSize, ProducerWarps, kProducerRegCount
<1> QED
  BY <1>1, <1>2, <1>3 DEF Affordable, ProducerWarps, kProducerRegCount

\* The kernel with one warp column states its request of 232 itself.
LEMMA OneColumnAffordable == Affordable(OneColumnKernel)
<1>1. Launched(OneColumnKernel) = 168
  BY DEF Launched, launch_registers, OneColumnKernel, AtMost, Rounded,
     RegisterFile, WarpSize, ProducerWarps
<1> QED
  BY <1>1 DEF Affordable, OneColumnKernel, ProducerWarps, kProducerRegCount

\* Every other kernel that moves registers is one with at most 8 consumer
\* warps: kUseRegReconfig excludes the larger GEMM kernels.
LEMMA NumberOfWarps ==
  ASSUME NEW k \in Kernels, k.reconfig, k # OneColumnKernel
  PROVE  \E n \in 1 .. 8 : \E r :
           k = [warps |-> n, want |-> get_consumer_registers(n),
                reconfig |-> r]
<1>1. CASE \E c \in CWGs : k = GemmKernel(c)
  <2>1. PICK c \in CWGs : k = GemmKernel(c)
    BY <1>1
  <2>2. c \in 1 .. 4
    BY WarpAssumption
  <2>3. kUseRegReconfig(4 * c)
    BY <2>1, Zenon DEF GemmKernel
  <2>4. 4 * c \in 1 .. 8
    BY <2>2, <2>3 DEF kUseRegReconfig
  <2> QED
    BY <2>1, <2>4 DEF GemmKernel
<1>2. CASE \E n \in FlashWarps : k = ColumnKernel(n)
  BY <1>2, WarpAssumption DEF ColumnKernel
<1> QED
  BY <1>1, <1>2 DEF Kernels

LEMMA KernelAffordable ==
  ASSUME NEW k \in Kernels, k.reconfig
  PROVE  Affordable(k)
<1>1. CASE k = OneColumnKernel
  BY <1>1, OneColumnAffordable
<1>2. CASE k # OneColumnKernel
  BY <1>2, NumberOfWarps, RequestAffordable
<1> QED
  BY <1>1, <1>2

\* The inductive invariant: the balance of the pool.
PoolInv ==
  /\ kernel \in Kernels
  /\ released \in Nat /\ raised \in Nat
  /\ kernel.reconfig =>
       free = released * Released - raised * Requested

LEMMA PoolInvariant == PoolSpec => []PoolInv
<1>1. PoolInit => PoolInv
  <2> SUFFICES ASSUME PoolInit PROVE PoolInv
    OBVIOUS
  <2>1. kernel.reconfig => Released \in Nat /\ Requested \in Nat
    BY KernelAffordable DEF PoolInit, Affordable, Launched, Released, Requested,
       launched, WarpSize
  <2> QED
    BY <2>1 DEF PoolInit, PoolInv
<1>2. PoolInv /\ [PoolNext]_poolVars => PoolInv'
  <2> SUFFICES ASSUME PoolInv, [PoolNext]_poolVars PROVE PoolInv'
    OBVIOUS
  <2>1. kernel.reconfig => Released \in Nat /\ Requested \in Nat
    BY KernelAffordable DEF PoolInv, Affordable, Launched, Released,
       Requested, launched, WarpSize
  <2>2. CASE Dealloc
    <3>1. Released' = Released /\ Requested' = Requested
      BY <2>2 DEF Dealloc, Released, Requested, launched
    <3>2. (released + 1) * Released = released * Released + Released
      BY <2>1, <2>2 DEF PoolInv, Dealloc
    <3> QED
      BY <2>1, <2>2, <3>1, <3>2 DEF PoolInv, Dealloc
  <2>3. CASE Alloc
    <3>1. Released' = Released /\ Requested' = Requested
      BY <2>3 DEF Alloc, Released, Requested, launched
    <3>2. (raised + 1) * Requested = raised * Requested + Requested
      BY <2>1, <2>3 DEF PoolInv, Alloc
    <3> QED
      BY <2>1, <2>3, <3>1, <3>2 DEF PoolInv, Alloc
  <2>4. CASE UNCHANGED poolVars
    BY <2>4 DEF poolVars, PoolInv, Released, Requested, launched
  <2> QED
    BY <2>2, <2>3, <2>4 DEF PoolNext, Settled
<1> QED
  BY <1>1, <1>2, PTL DEF PoolSpec

\* Whatever kernels are built, no consumer warp waits for ever for its
\* registers (warpgroup_reg_alloc): once the producers have released theirs,
\* the pool covers every claim that is still to come.
THEOREM NobodyStarvesAlways == PoolSpec => []NobodyStarves
<1>1. PoolInv => NobodyStarves
  <2> SUFFICES ASSUME PoolInv, kernel.reconfig, released = ProducerWarps
               PROVE  free >= (kernel.warps - raised) * Requested
    BY DEF NobodyStarves
  <2> DEFINE claim == kernel.want - launched
             give == launched - kProducerRegCount
  <2>1. /\ kernel.warps \in Nat /\ raised \in Nat
        /\ claim \in Nat /\ give \in Nat
        /\ kernel.warps * claim <= ProducerWarps * give
    BY KernelAffordable DEF PoolInv, Affordable, Launched, launched
  <2>2. Requested = 32 * claim /\ Released = 32 * give
    BY DEF Requested, Released, WarpSize
  <2>3. free = ProducerWarps * (32 * give) - raised * (32 * claim)
    BY <2>2 DEF PoolInv
  <2> HIDE DEF claim, give
  <2>4. ProducerWarps * (32 * give) = 32 * (ProducerWarps * give)
    BY <2>1 DEF ProducerWarps
  <2>5. (kernel.warps - raised) * (32 * claim)
          = 32 * (kernel.warps * claim) - raised * (32 * claim)
    BY <2>1
  <2> QED
    BY <2>1, <2>2, <2>3, <2>4, <2>5 DEF ProducerWarps
<1> QED
  BY <1>1, PoolInvariant, PTL

\* The arguments of setmaxnreg for k are ones the instruction accepts.
Acceptable(k) ==
  /\ \A r \in {kProducerRegCount, k.want} : r \in 24 .. 256 /\ r % 8 = 0
  /\ kProducerRegCount <= Launched(k) /\ Launched(k) <= k.want

LEMMA RequestAcceptable ==
  ASSUME NEW n \in 1 .. 8, NEW r
  PROVE  Acceptable([warps |-> n, want |-> get_consumer_registers(n),
                     reconfig |-> r])
<1> DEFINE k == [warps |-> n, want |-> get_consumer_registers(n),
                 reconfig |-> r]
<1>1. k.want = 256 \/ k.want = 232
  BY DEF get_consumer_registers, AtMost, Rounded, RegisterFile, WarpSize,
     kProducerRegCount
<1>2. k.want % 8 = 0 /\ k.want \in 24 .. 256
  BY <1>1
<1>3. Affordable(k)
  BY RequestAffordable
<1>4. /\ n <= 4 => Launched(k) = 256
      /\ n = 5 => Launched(k) = 224
      /\ n = 6 => Launched(k) = 200
      /\ n = 7 => Launched(k) = 184
      /\ n = 8 => Launched(k) = 168
  BY DEF Launched, launch_registers, AtMost, Rounded, RegisterFile, WarpSize,
     ProducerWarps
<1>5. Launched(k) \in Int /\ k.want \in Int
  BY <1>1, <1>4
<1>6. kProducerRegCount <= Launched(k) /\ Launched(k) <= k.want
  BY <1>3, <1>5 DEF Affordable, kProducerRegCount
<1> QED
  BY <1>2, <1>6 DEF Acceptable, kProducerRegCount

LEMMA KernelAcceptable ==
  ASSUME NEW k \in Kernels, k.reconfig
  PROVE  Acceptable(k)
<1>1. CASE k = OneColumnKernel
  <2>1. Launched(k) = 168 /\ k.want = 232
    BY <1>1 DEF Launched, launch_registers, OneColumnKernel, AtMost, Rounded,
       RegisterFile, WarpSize, ProducerWarps
  <2> QED
    BY <2>1 DEF Acceptable, kProducerRegCount
<1>2. CASE k # OneColumnKernel
  BY <1>2, NumberOfWarps, RequestAcceptable
<1> QED
  BY <1>1, <1>2

\* Whatever kernels are built, the numbers given to setmaxnreg are ones the
\* instruction accepts (kProducerRegCount, kConsumerRegCount).
THEOREM RequestsAlwaysValid == PoolSpec => []RequestsValid
<1>1. PoolInv => RequestsValid
  <2> SUFFICES ASSUME PoolInv, kernel.reconfig PROVE RequestsValid
    BY DEF RequestsValid
  <2>1. Acceptable(kernel)
    BY KernelAcceptable DEF PoolInv
  <2> QED
    BY <2>1 DEF Acceptable, RequestsValid, Launched, launched
<1> QED
  BY <1>1, PoolInvariant, PTL
================================================================================
