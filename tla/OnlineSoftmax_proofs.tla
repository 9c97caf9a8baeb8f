------------------------- MODULE OnlineSoftmax_proofs -------------------------
(***************************************************************************)
(* The online softmax computes the softmax, for every block size, sequence *)
(* length and number of warp columns, with and without a causal mask.  The *)
(* invariant is that of softmax_rescale: a warp column knows the maximum   *)
(* of what it has seen and has every key once, relative to that maximum.   *)
(* The columns see disjoint sets of keys which in the end cover the row;   *)
(* so a sum of weights never has two terms for one key, and every sum, in  *)
(* the quad or over the columns, just puts its terms side by side.         *)
(***************************************************************************)
EXTENDS OnlineSoftmax, EuclideanDivision, FiniteSetTheorems,
        WellFoundedInduction

Weights == Int \cup {NegInf}

-----------------------------------------------------------------------------
(* The order of weights and largest elements.                              *)

Leq(x, y) == x = NegInf \/ (y # NegInf /\ x <= y)
IsLargest(m, S) == m \in S /\ \A x \in S : Leq(x, m)

LEMMA LeqOrder ==
  ASSUME NEW x \in Weights, NEW y \in Weights
  PROVE  /\ Leq(x, x) /\ (Leq(x, y) \/ Leq(y, x))
         /\ Leq(x, y) /\ Leq(y, x) => x = y
         /\ \A z \in Weights : Leq(x, y) /\ Leq(y, z) => Leq(x, z)
BY ValueAssumption DEF Weights, Leq

LEMMA MaxFacts ==
  ASSUME NEW x \in Weights, NEW y \in Weights
  PROVE  /\ fmaxf(x, y) \in {x, y}
         /\ Leq(x, fmaxf(x, y)) /\ Leq(y, fmaxf(x, y))
         /\ fmaxf(x, y) = x <=> Leq(y, x)
BY ValueAssumption DEF Weights, Leq, fmaxf

LEMMA LargestUnique ==
  ASSUME NEW S \in SUBSET Weights, NEW m, IsLargest(m, S)
  PROVE  Largest(S) = m
<1>1. m \in S /\ \A x \in S : fmaxf(m, x) = m
  BY MaxFacts DEF IsLargest
<1>2. /\ Largest(S) \in S
      /\ \A x \in S : fmaxf(Largest(S), x) = Largest(S)
  BY <1>1 DEF Largest
<1>3. Leq(m, Largest(S)) /\ Leq(Largest(S), m)
  BY <1>1, <1>2, MaxFacts
<1> QED
  BY <1>1, <1>2, <1>3, LeqOrder

\* A finite set has a largest element: the smallest one without would still
\* have one after an element is removed.
LEMMA LargestExists ==
  ASSUME NEW S \in SUBSET Weights, IsFiniteSet(S), S # {}
  PROVE  \E m : IsLargest(m, S)
<1> DEFINE Bad == {U \in SUBSET S : U # {} /\ ~ \E m : IsLargest(m, U)}
<1> SUFFICES ASSUME Bad # {} PROVE FALSE
  BY Zenon
<1>1. PICK U \in Bad :
        \A V \in Bad : <<V, U>> \notin StrictSubsetOrdering(S)
  <2>1. Bad \subseteq FiniteSubsetsOf(S)
    BY FS_Subset DEF FiniteSubsetsOf
  <2>2. IsWellFoundedOn(StrictSubsetOrdering(S), FiniteSubsetsOf(S))
    BY FS_StrictSubsetOrderingWellFounded
  <2> QED
    BY <2>1, <2>2, WFMin, Zenon
<1>2. PICK x : x \in U
  BY <1>1
<1>3. U \ {x} \notin Bad
  <2>1. U \ {x} \subseteq U /\ U \ {x} # U
    BY <1>2
  <2> QED
    BY <1>1, <2>1 DEF StrictSubsetOrdering
<1>4. CASE U \ {x} = {}
  <2>1. IsLargest(x, U)
    BY <1>2, <1>4, LeqOrder DEF IsLargest
  <2> QED
    BY <1>1, <2>1
<1>5. CASE U \ {x} # {}
  <2>1. PICK m : IsLargest(m, U \ {x})
    BY <1>1, <1>3, <1>5
  <2>2. x \in Weights /\ m \in Weights
    BY <1>1, <1>2, <2>1 DEF IsLargest
  <2>3. IsLargest(fmaxf(x, m), U)
    <3>1. fmaxf(x, m) \in U
      BY <1>2, <2>1, <2>2, MaxFacts DEF IsLargest
    <3>2. Leq(x, fmaxf(x, m)) /\ Leq(m, fmaxf(x, m))
      BY <2>2, MaxFacts
    <3>3. ASSUME NEW z \in U PROVE Leq(z, fmaxf(x, m))
      BY <1>1, <2>1, <2>2, <3>1, <3>2, LeqOrder DEF IsLargest
    <3> QED
      BY <3>1, <3>3 DEF IsLargest
  <2> QED
    BY <1>1, <2>3
<1> QED
  BY <1>4, <1>5

LEMMA LargestIs ==
  ASSUME NEW S \in SUBSET Weights, IsFiniteSet(S), S # {}
  PROVE  IsLargest(Largest(S), S)
<1>1. PICK m : IsLargest(m, S)
  BY LargestExists
<1> QED
  BY <1>1, LargestUnique

-----------------------------------------------------------------------------
(* The keys of a block, of a column and of a row.                          *)

LEMMA Divides ==
  ASSUME NEW n \in Nat, NEW d \in Nat \ {0}, n % d = 0
  PROVE  n \div d \in Nat /\ n = d * (n \div d)
<1> DEFINE p == n \div d
<1>1. p \in Nat /\ n = d * p + (n % d)
  BY Division
<1> HIDE DEF p
<1>2. d * p \in Nat
  BY <1>1
<1>3. n = d * p
  BY <1>1, <1>2
<1> QED
  BY <1>1, <1>3 DEF p

LEMMA ShapeFacts ==
  ASSUME shape \in Shapes
  PROVE  /\ {WARPS_N, kBlockM, kBlockN, SeqLen, N_len} \subseteq Nat \ {0}
         /\ IsCausal \in BOOLEAN
         /\ kBlockN = WARPS_N * N_len
         /\ Rows \subseteq Keys
<1>1. /\ {WARPS_N, kBlockM, kBlockN, SeqLen} \subseteq Nat \ {0}
      /\ IsCausal \in BOOLEAN /\ Rows \subseteq Keys
      /\ kBlockN % (WARPS_N * 4) = 0
  BY SoftmaxShape DEF WARPS_N, kBlockM, kBlockN, SeqLen, IsCausal, Rows, Keys
<1> DEFINE W == WARPS_N
           B == kBlockN
           q == B \div (W * 4)
           r == B % W
<1>2. q \in Nat /\ B = (W * 4) * q
  <2>1. W * 4 \in Nat \ {0}
    BY <1>1
  <2> QED
    BY <1>1, <2>1, Divides
<1>3. N_len \in Nat /\ r \in 0 .. W - 1 /\ B = W * N_len + r
  BY <1>1, Division DEF N_len
<1> HIDE DEF q, r
<1>4. W * (4 * q) + 0 = W * N_len + r
  <2>1. W * (4 * q) = (W * 4) * q
    BY <1>1, <1>2
  <2> QED
    BY <1>2, <1>3, <2>1
<1>5. N_len = 4 * q /\ r = 0
  <2>1. 4 * q \in Int /\ N_len \in Int /\ 0 \in 0 .. W - 1
    BY <1>1, <1>2, <1>3
  <2> QED
    BY <1>1, <1>3, <1>4, <2>1, DivisionUnique
<1>6. N_len # 0
  BY <1>1, <1>2, <1>5
<1> QED
  BY <1>1, <1>3, <1>5, <1>6

LEMMA KeysFinite ==
  ASSUME shape \in Shapes
  PROVE  Keys \subseteq Nat /\ IsFiniteSet(Keys) /\ 0 \in Keys
<1>1. SeqLen \in Nat \ {0}
  BY ShapeFacts
<1> DEFINE top == SeqLen - 1
<1>2. top \in Nat
  BY <1>1
<1>3. Keys = 0 .. top
  BY DEF Keys
<1> HIDE DEF top
<1> QED
  BY <1>2, <1>3, FS_Interval

LEMMA BlockSizes ==
  ASSUME shape \in Shapes, row \in Keys
  PROVE  /\ k_blocks \in Nat /\ k_blocks * kBlockN <= SeqLen
         /\ \A k \in Keys : Attended(k) => k < k_blocks * kBlockN
         /\ q_block \in Nat /\ q_block * kBlockM <= row
<1>1. /\ {WARPS_N, kBlockM, kBlockN, SeqLen} \subseteq Nat \ {0}
      /\ IsCausal \in BOOLEAN
  BY ShapeFacts
<1> DEFINE B == kBlockN
           M == kBlockM
           N == SeqLen \div B
           R == SeqLen \div M
           r == row % M
<1>2. N \in Nat /\ SeqLen = B * N /\ R \in Nat /\ SeqLen = M * R
  <2>1. SeqLen % M = 0 /\ SeqLen % B = 0
    BY SoftmaxShape DEF SeqLen, kBlockM, kBlockN
  <2> QED
    BY <1>1, <2>1, Divides
<1>3. row \in Nat /\ row < SeqLen
  BY <1>1 DEF Keys
<1>4. q_block \in Nat /\ r \in 0 .. M - 1 /\ row = M * q_block + r
  BY <1>1, <1>3, Division DEF q_block
<1>5. Keys \subseteq Nat /\ \A k \in Keys : k < SeqLen
  BY <1>1 DEF Keys
<1> HIDE DEF N, R, r
<1>6. q_block + 1 <= R
  <2> SUFFICES ASSUME q_block >= R PROVE FALSE
    BY <1>2, <1>4
  <2>1. M * q_block >= M * R
    BY <1>1, <1>2, <1>4
  <2>2. M * q_block \in Nat
    BY <1>1, <1>4
  <2> QED
    BY <1>1, <1>2, <1>3, <1>4, <2>1, <2>2
<1> DEFINE top == (q_block + 1) * M
<1>7. top \in Nat /\ top <= SeqLen /\ row < top
  <2>1. (q_block + 1) * M <= R * M
    BY <1>1, <1>2, <1>4, <1>6
  <2>2. top = M * q_block + M /\ M * q_block \in Nat /\ top \in Nat
    BY <1>1, <1>4
  <2>3. R * M = M * R
    BY <1>1, <1>2
  <2> QED
    BY <1>1, <1>2, <1>3, <1>4, <2>1, <2>2, <2>3
<1> HIDE DEF top
<1>8. CASE ~ IsCausal
  <2>1. k_blocks = N
    BY <1>8 DEF k_blocks, N
  <2>2. k_blocks * B = SeqLen
    BY <1>1, <1>2, <2>1
  <2> QED
    BY <1>1, <1>2, <1>4, <1>5, <2>1, <2>2
<1>9. CASE IsCausal
  <2> DEFINE n == top + B - 1
             p == n \div B
             s == n % B
  <2>1. k_blocks = p
    BY <1>9 DEF k_blocks, top
  <2>2. p \in Nat /\ s \in 0 .. B - 1 /\ n = B * p + s
    <3>1. n \in Nat
      BY <1>1, <1>7
    <3> QED
      BY <1>1, <3>1, Division
  <2> HIDE DEF p, s
  <2>3. p * B = B * p /\ B * p \in Nat
    BY <1>1, <2>2
  <2>4. top <= p * B /\ p * B <= top + B - 1
    BY <1>1, <1>7, <2>2, <2>3
  <2>5. p <= N
    <3> SUFFICES ASSUME p >= N + 1 PROVE FALSE
      BY <1>2, <2>2
    <3>1. B * p >= B * (N + 1)
      BY <1>1, <1>2, <2>2
    <3>2. B * (N + 1) = B * N + B
      BY <1>1, <1>2
    <3> QED
      BY <1>1, <1>2, <1>7, <2>3, <2>4, <3>1, <3>2
  <2>6. p * B <= SeqLen
    <3>1. B * p <= B * N
      BY <1>1, <1>2, <2>2, <2>5
    <3> QED
      BY <1>2, <2>3, <3>1
  <2>7. \A k \in Keys : Attended(k) => k < p * B
    BY <1>3, <1>5, <1>7, <1>9, <2>3, <2>4 DEF Attended
  <2> QED
    BY <1>1, <1>4, <2>1, <2>2, <2>6, <2>7
<1> QED
  BY <1>8, <1>9

\* Where a key of a block lies.
LEMMA KeyOfBlock ==
  ASSUME shape \in Shapes, NEW n \in Columns, NEW b \in Nat,
         NEW k \in BlockKeys(n, b)
  PROVE  /\ k \in Nat /\ b * kBlockN <= k /\ k < (b + 1) * kBlockN
         /\ \E c \in 0 .. N_len - 1 :
              k = kBlockN * b + (N_len * n + c)
                /\ N_len * n + c \in 0 .. kBlockN - 1
<1>1. {WARPS_N, kBlockN, N_len} \subseteq Nat \ {0}
        /\ kBlockN = WARPS_N * N_len
  BY ShapeFacts
<1>2. PICK c \in 0 .. N_len - 1 : k = b * kBlockN + n * N_len + c
  BY DEF BlockKeys
<1>3. n \in Nat /\ n + 1 <= WARPS_N
  BY <1>1 DEF Columns
<1> DEFINE p == N_len * n
           q == kBlockN * b
<1>4. p \in Nat /\ p = n * N_len /\ p + N_len <= kBlockN
  <2>1. p \in Nat /\ p = n * N_len
    BY <1>1, <1>3
  <2>2. N_len * (n + 1) <= N_len * WARPS_N
    BY <1>1, <1>3
  <2>3. N_len * (n + 1) = p + N_len
    BY <1>1, <1>3
  <2>4. N_len * WARPS_N = WARPS_N * N_len
    BY <1>1
  <2> QED
    BY <1>1, <2>1, <2>2, <2>3, <2>4
<1>5. q \in Nat /\ q = b * kBlockN /\ (b + 1) * kBlockN = q + kBlockN
  BY <1>1
<1> HIDE DEF p, q
<1>6. p + c \in 0 .. kBlockN - 1
  BY <1>1, <1>2, <1>4
<1>7. k = q + (p + c) /\ k \in Nat
  BY <1>1, <1>2, <1>4, <1>5
<1>8. b * kBlockN <= k /\ k < (b + 1) * kBlockN
  BY <1>1, <1>5, <1>6, <1>7
<1> QED
  BY <1>2, <1>6, <1>7, <1>8 DEF p, q

\* A key lies in one block only.
LEMMA BlocksDisjoint ==
  ASSUME shape \in Shapes, NEW n \in Columns, NEW m \in Columns,
         NEW b \in Nat, NEW c \in Nat,
         NEW k \in BlockKeys(n, b), k \in BlockKeys(m, c)
  PROVE  n = m /\ b = c
<1>1. {WARPS_N, kBlockN, N_len} \subseteq Nat \ {0}
  BY ShapeFacts
<1>2. n \in Int /\ m \in Int
  BY <1>1 DEF Columns
<1>3. PICK x \in 0 .. N_len - 1 :
        k = kBlockN * b + (N_len * n + x)
          /\ N_len * n + x \in 0 .. kBlockN - 1
  BY KeyOfBlock
<1>4. PICK y \in 0 .. N_len - 1 :
        k = kBlockN * c + (N_len * m + y)
          /\ N_len * m + y \in 0 .. kBlockN - 1
  BY KeyOfBlock
<1>5. b = c /\ N_len * n + x = N_len * m + y
  <2>1. b \in Int /\ c \in Int
    OBVIOUS
  <2> QED
    BY <1>1, <1>3, <1>4, <2>1, DivisionUnique
<1>6. n = m
  BY <1>1, <1>2, <1>5, DivisionUnique
<1> QED
  BY <1>5, <1>6

\* The blocks of the loop lie in the row,
LEMMA BlocksInside ==
  ASSUME shape \in Shapes, row \in Keys, NEW n \in Columns, NEW b \in Nat,
         b < k_blocks
  PROVE  BlockKeys(n, b) \subseteq Keys
<1> SUFFICES ASSUME NEW k \in BlockKeys(n, b) PROVE k \in Keys
  OBVIOUS
<1>1. {kBlockN, SeqLen} \subseteq Nat \ {0}
  BY ShapeFacts
<1>2. k_blocks \in Nat /\ k_blocks * kBlockN <= SeqLen
  BY BlockSizes
<1>3. k \in Nat /\ k < (b + 1) * kBlockN
  BY KeyOfBlock
<1>4. (b + 1) * kBlockN <= k_blocks * kBlockN
  BY <1>1, <1>2
<1>5. (b + 1) * kBlockN \in Nat /\ k_blocks * kBlockN \in Nat
  BY <1>1, <1>2
<1> QED
  BY <1>1, <1>2, <1>3, <1>4, <1>5 DEF Keys

\* and contain every key the row attends to.
LEMMA BlocksCover ==
  ASSUME shape \in Shapes, row \in Keys, NEW k \in Keys, Attended(k)
  PROVE  \E n \in Columns : \E b \in 0 .. k_blocks - 1 : k \in BlockKeys(n, b)
<1>1. {WARPS_N, kBlockN, N_len, SeqLen} \subseteq Nat \ {0}
        /\ kBlockN = WARPS_N * N_len
  BY ShapeFacts
<1>2. k_blocks \in Nat /\ k < k_blocks * kBlockN
  BY BlockSizes
<1>3. k \in Nat
  BY <1>1 DEF Keys
<1> DEFINE b == k \div kBlockN
           r == k % kBlockN
           n == r \div N_len
           c == r % N_len
<1>4. b \in Nat /\ r \in 0 .. kBlockN - 1 /\ k = kBlockN * b + r
  BY <1>1, <1>3, Division
<1>5. n \in Nat /\ c \in 0 .. N_len - 1 /\ r = N_len * n + c
  <2>1. r \in Nat
    BY <1>4
  <2> QED
    BY <1>1, <2>1, Division
<1> HIDE DEF b, r, n, c
<1>6. b < k_blocks
  <2> SUFFICES ASSUME b >= k_blocks PROVE FALSE
    BY <1>2, <1>4
  <2>1. b * kBlockN >= k_blocks * kBlockN
    BY <1>1, <1>2, <1>4
  <2>2. b * kBlockN = kBlockN * b /\ b * kBlockN \in Nat
    BY <1>1, <1>4
  <2>3. k_blocks * kBlockN \in Nat
    BY <1>1, <1>2
  <2> QED
    BY <1>2, <1>3, <1>4, <2>1, <2>2, <2>3
<1>7. n < WARPS_N
  <2> SUFFICES ASSUME n >= WARPS_N PROVE FALSE
    BY <1>1, <1>5
  <2>1. N_len * n >= N_len * WARPS_N
    BY <1>1, <1>5
  <2>2. N_len * n \in Nat /\ N_len * WARPS_N = kBlockN
    BY <1>1, <1>5
  <2> QED
    BY <1>1, <1>4, <1>5, <2>1, <2>2
<1>8. k = b * kBlockN + n * N_len + c
  <2>1. b * kBlockN = kBlockN * b /\ n * N_len = N_len * n
    BY <1>1, <1>4, <1>5
  <2>2. kBlockN * b \in Nat /\ N_len * n \in Nat
    BY <1>1, <1>4, <1>5
  <2> QED
    BY <1>4, <1>5, <2>1, <2>2
<1>9. n \in Columns /\ b \in 0 .. k_blocks - 1 /\ k \in BlockKeys(n, b)
  <2>1. n \in Columns /\ b \in 0 .. k_blocks - 1
    BY <1>1, <1>2, <1>4, <1>5, <1>6, <1>7 DEF Columns
  <2>2. k \in BlockKeys(n, b)
    BY <1>5, <1>8 DEF BlockKeys
  <2> QED
    BY <2>1, <2>2
<1> QED
  BY <1>9

\* The kernel masks every block that holds a key the row must not see.
LEMMA MasksWhereNeeded ==
  ASSUME shape \in Shapes, row \in Keys, NEW n \in Columns, NEW b \in Nat,
         NEW k \in BlockKeys(n, b), NEW x
  PROVE  (IF Masks(b) THEN causal_mask(k, x) ELSE x)
           = IF Attended(k) THEN x ELSE NegInf
<1>1. {kBlockN, kBlockM, SeqLen} \subseteq Nat \ {0} /\ IsCausal \in BOOLEAN
  BY ShapeFacts
<1>2. k \in Nat /\ k < (b + 1) * kBlockN
  BY KeyOfBlock
<1>3. q_block \in Nat /\ q_block * kBlockM <= row /\ row \in Nat
  BY <1>1, BlockSizes DEF Keys
<1>4. (b + 1) * kBlockN \in Nat /\ q_block * kBlockM \in Nat
  BY <1>1, <1>3
<1>5. ~ Attended(k) <=> IsCausal /\ row < k
  BY <1>1, <1>2, <1>3 DEF Attended
<1>6. ~ Attended(k) => Masks(b)
  BY <1>2, <1>3, <1>4, <1>5 DEF Masks
<1>7. Masks(b) => IsCausal
  BY DEF Masks
<1> QED
  BY <1>5, <1>6, <1>7 DEF causal_mask

-----------------------------------------------------------------------------
(* The inductive invariant.                                                *)

\* The maximum of the scores of a set of keys, and their weights relative to
\* a maximum; the other keys have none.
Peak(sc, S) == Largest({NegInf} \cup {sc[k] : k \in S})
Terms(sc, S, m) ==
  [k \in DOMAIN sc |-> IF k \in S THEN Minus(sc[k], m) ELSE NegInf]

OfLane(S, l) == {k \in S : Lane(k) = l}
AllSeen == {k \in Keys : Attended(k)}

SoftmaxTypes ==
  /\ shape \in Shapes /\ row \in Keys
  /\ score \in [Keys -> Scores \cup {NegInf}]
  /\ pc \in [Columns -> {"block", "stats", "bar", "normalize", "done"}]
  /\ i \in [Columns -> Nat]
  /\ DOMAIN rS_max = Columns /\ DOMAIN rS_sum = Columns /\ DOMAIN rO = Columns
  /\ DOMAIN row_stats = Columns /\ DOMAIN result = Columns

LoopOK ==
  \A n \in Columns :
    /\ i[n] <= k_blocks
    /\ pc[n] = "block" <=> i[n] < k_blocks
    /\ \A k \in Seen(n) : score[k] \in Scores

RegistersOK ==
  \A n \in Columns, l \in Lanes :
    LET m == Peak(score, Seen(n))
    IN  /\ rS_max[n][l] = m
        /\ rO[n][l] = Terms(score, Seen(n), m)
        /\ rS_sum[n][l] = Terms(score, OfLane(Seen(n), l), m)

\* Between the barrier and the end of the tile all columns have published.
StagesOK ==
  /\ WARPS_N = 1 => \A n \in Columns : pc[n] \in {"block", "stats", "done"}
  /\ WARPS_N > 1 /\ (\E n \in Columns : pc[n] \in {"normalize", "done"}) =>
       \A n \in Columns : pc[n] \in {"normalize", "done"}

StatsOK ==
  \A n \in Columns :
    pc[n] \in {"bar", "normalize", "done"} /\ WARPS_N > 1 =>
      LET m == Peak(score, Seen(n))
      IN  row_stats[n] = [max |-> m, sum |-> Terms(score, Seen(n), m)]

ResultsOK ==
  \A n \in Columns, l \in Lanes :
    pc[n] = "done" =>
      LET m == Peak(score, AllSeen)
      IN  result[n][l] = [num |-> Terms(score, Seen(n), m),
                          den |-> Terms(score, AllSeen, m)]

SoftmaxInv ==
  SoftmaxTypes /\ LoopOK /\ RegistersOK /\ StagesOK /\ StatsOK /\ ResultsOK

-----------------------------------------------------------------------------
(* Arithmetic of weights.                                                  *)

LEMMA WeightFacts ==
  ASSUME NEW x \in Int, NEW p \in Int, NEW q \in Int
  PROVE  /\ Minus(x, p) = x - p /\ Minus(NegInf, p) = NegInf
         /\ Times(Minus(x, p), Minus(p, q)) = Minus(x, q)
         /\ Times(Minus(x, p), exp_scale(p, q)) = Minus(x, q)
         /\ Minus(x, p) \in Weights /\ Minus(NegInf, p) \in Weights
         /\ max_scale(p) = p /\ max_scale(NegInf) = 0
BY ValueAssumption DEF Minus, Times, exp_scale, max_scale, Weights

LEMMA NoWeight ==
  ASSUME NEW w \in Weights
  PROVE  /\ Plus(w, NegInf) = w /\ Plus(NegInf, w) = w
         /\ Times(NegInf, w) = NegInf
BY ValueAssumption DEF Plus, Times, Weights

LEMMA ScaleType ==
  ASSUME NEW p \in Weights, NEW q \in Weights, Leq(p, q)
  PROVE  exp_scale(p, q) \in Weights
BY ValueAssumption DEF Minus, exp_scale, Weights, Leq

LEMMA PeakIs ==
  ASSUME NEW sc, NEW S, IsFiniteSet(S), \A k \in S : sc[k] \in Scores
  PROVE  /\ Peak(sc, S) \in {NegInf} \cup {sc[k] : k \in S}
         /\ Peak(sc, S) \in Weights
         /\ \A k \in S : Leq(sc[k], Peak(sc, S))
         /\ S # {} => Peak(sc, S) \in Int
<1> DEFINE T == {NegInf} \cup {sc[k] : k \in S}
<1>1. T \subseteq Weights /\ T # {}
  BY ValueAssumption DEF Weights
<1>2. IsFiniteSet(T)
  <2>1. IsFiniteSet({sc[k] : k \in S})
    <3>1. [k \in S |-> sc[k]] \in Surjection(S, {sc[k] : k \in S})
      BY DEF Surjection
    <3> QED
      BY <3>1, FS_Surjection
  <2> QED
    BY <2>1, FS_Singleton, FS_Union
<1>3. IsLargest(Peak(sc, S), T)
  BY <1>1, <1>2, LargestIs DEF Peak
<1>4. \A k \in S : Leq(sc[k], Peak(sc, S))
  BY <1>3 DEF IsLargest
<1>5. ASSUME NEW k \in S PROVE Peak(sc, S) # NegInf
  BY <1>4, ValueAssumption DEF Leq
<1> QED
  BY <1>1, <1>3, <1>4, <1>5 DEF IsLargest, Weights

LEMMA PeakUnique ==
  ASSUME NEW sc, NEW S, \A k \in S : sc[k] \in Scores,
         NEW m \in {NegInf} \cup {sc[k] : k \in S},
         \A k \in S : Leq(sc[k], m)
  PROVE  Peak(sc, S) = m
<1>1. {NegInf} \cup {sc[k] : k \in S} \subseteq Weights
  BY ValueAssumption DEF Weights
<1>2. IsLargest(m, {NegInf} \cup {sc[k] : k \in S})
  BY DEF IsLargest, Leq
<1> QED
  BY <1>1, <1>2, LargestUnique DEF Peak

\* The maximum of a quad is that of its lanes.
LEMMA QuadMax ==
  ASSUME NEW f \in [Lanes -> Weights], NEW l \in Lanes
  PROVE  /\ \E x \in Lanes : warp_reduce_max(f)[l] = f[x]
         /\ \A x \in Lanes : Leq(f[x], warp_reduce_max(f)[l])
<1> DEFINE g == [x \in Lanes |-> fmaxf(f[x], f[Partner(x, 2)])]
           h == [x \in Lanes |-> fmaxf(g[x], g[Partner(x, 1)])]
<1>1. warp_reduce_max(f) = h
  BY DEF warp_reduce_max
<1>2. Lanes = {0, 1, 2, 3}
  BY DEF Lanes
<1>3. /\ Partner(0, 2) = 2 /\ Partner(1, 2) = 3
      /\ Partner(2, 2) = 0 /\ Partner(3, 2) = 1
      /\ Partner(0, 1) = 1 /\ Partner(1, 1) = 0
      /\ Partner(2, 1) = 3 /\ Partner(3, 1) = 2
  BY DEF Partner
<1>4. /\ g[0] = fmaxf(f[0], f[2]) /\ g[1] = fmaxf(f[1], f[3])
      /\ g[2] = fmaxf(f[2], f[0]) /\ g[3] = fmaxf(f[3], f[1])
  BY <1>2, <1>3
<1>5. /\ h[0] = fmaxf(g[0], g[1]) /\ h[1] = fmaxf(g[1], g[0])
      /\ h[2] = fmaxf(g[2], g[3]) /\ h[3] = fmaxf(g[3], g[2])
  BY <1>2, <1>3
<1> HIDE DEF g, h
<1>6. f[0] \in Weights /\ f[1] \in Weights /\ f[2] \in Weights /\ f[3] \in Weights
  BY <1>2
<1>7. /\ g[0] \in {f[0], f[2]} /\ Leq(f[0], g[0]) /\ Leq(f[2], g[0])
      /\ g[1] \in {f[1], f[3]} /\ Leq(f[1], g[1]) /\ Leq(f[3], g[1])
      /\ g[2] \in {f[0], f[2]} /\ Leq(f[0], g[2]) /\ Leq(f[2], g[2])
      /\ g[3] \in {f[1], f[3]} /\ Leq(f[1], g[3]) /\ Leq(f[3], g[3])
  BY <1>4, <1>6, MaxFacts
<1>8. g[0] \in Weights /\ g[1] \in Weights /\ g[2] \in Weights /\ g[3] \in Weights
  BY <1>6, <1>7
<1>9. /\ h[0] \in {g[0], g[1]} /\ Leq(g[0], h[0]) /\ Leq(g[1], h[0])
      /\ h[1] \in {g[0], g[1]} /\ Leq(g[0], h[1]) /\ Leq(g[1], h[1])
      /\ h[2] \in {g[2], g[3]} /\ Leq(g[2], h[2]) /\ Leq(g[3], h[2])
      /\ h[3] \in {g[2], g[3]} /\ Leq(g[2], h[3]) /\ Leq(g[3], h[3])
  BY <1>5, <1>8, MaxFacts
<1>10. h[0] \in Weights /\ h[1] \in Weights /\ h[2] \in Weights /\ h[3] \in Weights
  BY <1>8, <1>9
<1>11. ASSUME NEW y \in {0, 1, 2, 3}, NEW z \in {0, 1, 2, 3}
       PROVE  Leq(f[y], h[z])
  <2>1. \A u, v, w \in Weights : Leq(u, v) /\ Leq(v, w) => Leq(u, w)
    BY LeqOrder
  <2> QED
    BY <1>6, <1>7, <1>8, <1>9, <1>10, <2>1
<1>12. h[l] \in {f[0], f[1], f[2], f[3]}
  BY <1>2, <1>7, <1>9
<1> QED
  BY <1>1, <1>2, <1>11, <1>12

-----------------------------------------------------------------------------
(* One block of one column.                                                *)

LEMMA SeenFacts ==
  ASSUME SoftmaxInv, NEW n \in Columns
  PROVE  /\ Seen(n) \subseteq AllSeen /\ IsFiniteSet(Seen(n))
         /\ \A k : k \in Seen(n) <=>
              Attended(k) /\ \E b \in 0 .. i[n] - 1 : k \in BlockKeys(n, b)
<1>1. shape \in Shapes /\ row \in Keys
  BY DEF SoftmaxInv, SoftmaxTypes
<1>2. k_blocks \in Nat /\ i[n] \in Nat /\ i[n] <= k_blocks
  BY <1>1, BlockSizes DEF SoftmaxInv, SoftmaxTypes, LoopOK
<1>3. \A k : k \in Seen(n) <=>
        Attended(k) /\ \E b \in 0 .. i[n] - 1 : k \in BlockKeys(n, b)
  BY DEF Seen
<1>4. \A b \in 0 .. i[n] - 1 : BlockKeys(n, b) \subseteq Keys
  BY <1>1, <1>2, BlocksInside
<1>5. Seen(n) \subseteq AllSeen
  BY <1>3, <1>4 DEF AllSeen
<1>6. IsFiniteSet(Keys)
  BY <1>1, KeysFinite
<1>7. IsFiniteSet(Seen(n))
  BY <1>5, <1>6, FS_Subset DEF AllSeen
<1> QED
  BY <1>3, <1>5, <1>7

Masked(raw) == [k \in DOMAIN raw |-> IF Attended(k) THEN raw[k] ELSE NegInf]
ScoreWith(raw) ==
  [k \in Keys |-> IF k \in DOMAIN raw THEN raw[k] ELSE score[k]]
SeenWith(n) == Seen(n) \cup {k \in BlockKeys(n, i[n]) : Attended(k)}

\* What a column sees with one more block.
LEMMA SeenWithFacts ==
  ASSUME SoftmaxInv, NEW n \in Columns, pc[n] = "block",
         NEW raw \in [BlockKeys(n, i[n]) -> Scores]
  PROVE  /\ BlockKeys(n, i[n]) \subseteq Keys
         /\ \A m \in Columns : BlockKeys(n, i[n]) \cap Seen(m) = {}
         /\ SeenWith(n) \subseteq Keys /\ IsFiniteSet(SeenWith(n))
         /\ \A k \in SeenWith(n) : ScoreWith(raw)[k] \in Scores
<1> DEFINE B == BlockKeys(n, i[n])
<1>1. shape \in Shapes /\ row \in Keys /\ i \in [Columns -> Nat]
  BY DEF SoftmaxInv, SoftmaxTypes
<1>2. i[n] \in Nat /\ i[n] < k_blocks
  BY <1>1 DEF SoftmaxInv, LoopOK
<1>3. B \subseteq Keys
  BY <1>1, <1>2, BlocksInside
<1>4. ASSUME NEW m \in Columns PROVE B \cap Seen(m) = {}
  <2> SUFFICES ASSUME NEW k \in B, k \in Seen(m) PROVE FALSE
    OBVIOUS
  <2>1. PICK b \in 0 .. i[m] - 1 : k \in BlockKeys(m, b)
    BY SeenFacts
  <2>2. b \in Nat /\ b < i[m] /\ i[m] \in Nat
    BY <1>1
  <2>3. n = m /\ i[n] = b
    BY <1>1, <1>2, <2>1, <2>2, BlocksDisjoint
  <2> QED
    BY <2>2, <2>3
<1>5. Seen(n) \subseteq Keys /\ IsFiniteSet(Seen(n))
  BY SeenFacts DEF AllSeen
<1>6. IsFiniteSet(Keys)
  BY <1>1, KeysFinite
<1>7. SeenWith(n) \subseteq Keys
  BY <1>3, <1>5 DEF SeenWith
<1>8. IsFiniteSet(SeenWith(n))
  BY <1>6, <1>7, FS_Subset
<1>9. ASSUME NEW k \in SeenWith(n) PROVE ScoreWith(raw)[k] \in Scores
  <2>1. CASE k \in B
    BY <1>3, <2>1 DEF ScoreWith
  <2>2. CASE k \notin B
    BY <1>5, <2>2 DEF ScoreWith, SeenWith, SoftmaxInv, LoopOK
  <2> QED
    BY <2>1, <2>2
<1> QED
  BY <1>3, <1>4, <1>7, <1>8, <1>9

\* reduce_max finds the maximum of everything seen, in every lane.
LEMMA NewMaxIs ==
  ASSUME SoftmaxInv, NEW n \in Columns, pc[n] = "block",
         NEW raw \in [BlockKeys(n, i[n]) -> Scores], NEW l \in Lanes
  PROVE  NewMax(n, Masked(raw))[l] = Peak(ScoreWith(raw), SeenWith(n))
<1> DEFINE B == BlockKeys(n, i[n])
           s == Masked(raw)
           sc == ScoreWith(raw)
           S == SeenWith(n)
           old == Peak(score, Seen(n))
           In(x) == {rS_max[n][x]} \cup {s[k] : k \in {y \in DOMAIN s : Lane(y) = x}}
           f == [x \in Lanes |-> Largest(In(x))]
           m == warp_reduce_max(f)[l]
<1>1. NewMax(n, s) = warp_reduce_max(f)
  BY DEF NewMax
<1>2. /\ B \subseteq Keys /\ B \cap Seen(n) = {}
      /\ S \subseteq Keys /\ IsFiniteSet(S)
      /\ \A k \in S : sc[k] \in Scores
  BY SeenWithFacts
<1>3. /\ DOMAIN s = B
      /\ \A k \in B : s[k] = IF Attended(k) THEN sc[k] ELSE NegInf
      /\ \A k \in B : s[k] \in Weights
  BY <1>2, ValueAssumption DEF Masked, ScoreWith, Weights
<1>4. /\ \A x \in Lanes : rS_max[n][x] = old
      /\ old \in Weights
      /\ old \in {NegInf} \cup {score[k] : k \in Seen(n)}
      /\ \A k \in Seen(n) : Leq(score[k], old)
  <2>1. IsFiniteSet(Seen(n)) /\ \A k \in Seen(n) : score[k] \in Scores
    BY SeenFacts DEF SoftmaxInv, LoopOK
  <2>2. \A x \in Lanes : rS_max[n][x] = old
    BY DEF SoftmaxInv, RegistersOK
  <2> QED
    BY <2>1, <2>2, PeakIs
<1>5. \A k \in Seen(n) : k \in S /\ sc[k] = score[k]
  <2>1. Seen(n) \subseteq Keys
    BY SeenFacts DEF AllSeen
  <2> QED
    BY <1>2, <2>1 DEF SeenWith, ScoreWith
<1>6. \A k \in B : Attended(k) => k \in S
  BY DEF SeenWith
<1>7. \A k \in S : k \in Seen(n) \/ (k \in B /\ Attended(k))
  BY DEF SeenWith
<1> HIDE DEF s, sc, S, old
<1>8. ASSUME NEW x \in Lanes
      PROVE  /\ IsLargest(f[x], In(x)) /\ f[x] \in Weights
             /\ f[x] \in {NegInf} \cup {sc[k] : k \in S}
  <2>1. In(x) \subseteq Weights /\ In(x) # {}
    BY <1>3, <1>4
  <2>2. IsFiniteSet(In(x))
    <3> DEFINE D == {y \in DOMAIN s : Lane(y) = x}
    <3>1. IsFiniteSet(D)
      <4>1. IsFiniteSet(Keys)
        BY KeysFinite DEF SoftmaxInv, SoftmaxTypes
      <4>2. D \subseteq Keys
        BY <1>2, <1>3
      <4> QED
        BY <4>1, <4>2, FS_Subset
    <3> HIDE DEF D
    <3>2. [k \in D |-> s[k]] \in Surjection(D, {s[k] : k \in D})
      BY DEF Surjection
    <3>3. IsFiniteSet({s[k] : k \in D})
      BY <3>1, <3>2, FS_Surjection
    <3>4. In(x) = {rS_max[n][x]} \cup {s[k] : k \in D}
      BY DEF D
    <3> QED
      BY <3>3, <3>4, FS_Singleton, FS_Union
  <2>3. IsLargest(Largest(In(x)), In(x))
    BY <2>1, <2>2, LargestIs
  <2>4. f[x] = Largest(In(x))
    OBVIOUS
  <2>5. f[x] \in In(x)
    BY <2>3, <2>4 DEF IsLargest
  <2>6. In(x) \subseteq {NegInf} \cup {sc[k] : k \in S}
    BY <1>3, <1>4, <1>5, <1>6
  <2> QED
    BY <2>1, <2>3, <2>4, <2>5, <2>6
<1>9. f \in [Lanes -> Weights]
  BY <1>8
<1>10. /\ \E x \in Lanes : m = f[x]
       /\ \A x \in Lanes : Leq(f[x], m)
  BY <1>9, QuadMax
<1>11. m \in Weights /\ m \in {NegInf} \cup {sc[k] : k \in S}
  BY <1>8, <1>10
<1>12. ASSUME NEW k \in S PROVE Leq(sc[k], m)
  <2>1. CASE k \in Seen(n)
    <3>1. rS_max[n][l] = old /\ Leq(rS_max[n][l], f[l])
      BY <1>4, <1>8 DEF IsLargest
    <3>2. sc[k] = score[k] /\ Leq(score[k], old)
      BY <1>4, <1>5, <2>1
    <3>3. sc[k] \in Weights
      BY <1>2, ValueAssumption DEF Weights
    <3>4. f[l] \in Weights /\ Leq(f[l], m)
      BY <1>8, <1>10
    <3> QED
      BY <1>4, <1>11, <3>1, <3>2, <3>3, <3>4, LeqOrder
  <2>2. CASE k \in B /\ Attended(k)
    <3>1. Lane(k) \in Lanes
      <4>1. k \in Nat
        BY <1>2, <2>2, KeysFinite DEF SoftmaxInv, SoftmaxTypes
      <4> QED
        BY <4>1 DEF Lane, Lanes
    <3>2. s[k] = sc[k] /\ s[k] \in Weights /\ s[k] \in In(Lane(k))
      BY <1>3, <2>2
    <3>3. Leq(s[k], f[Lane(k)])
      BY <1>8, <3>1, <3>2 DEF IsLargest
    <3>4. f[Lane(k)] \in Weights /\ Leq(f[Lane(k)], m)
      BY <1>8, <1>10, <3>1
    <3> QED
      BY <1>11, <3>2, <3>3, <3>4, LeqOrder
  <2> QED
    BY <1>7, <2>1, <2>2
<1>13. Peak(sc, S) = m
  BY <1>2, <1>11, <1>12, PeakUnique
<1> QED
  BY <1>1, <1>13 DEF s, sc, S

\* Scores of other keys do not matter.
LEMMA SameScores ==
  ASSUME NEW sc, NEW tc, DOMAIN sc = DOMAIN tc, NEW S,
         \A k \in S : sc[k] = tc[k]
  PROVE  /\ Peak(sc, S) = Peak(tc, S)
         /\ \A T \in SUBSET S : \A m : Terms(sc, T, m) = Terms(tc, T, m)
<1>1. {sc[k] : k \in S} = {tc[k] : k \in S}
  OBVIOUS
<1>2. Peak(sc, S) = Peak(tc, S)
  BY <1>1 DEF Peak
<1>3. ASSUME NEW T \in SUBSET S, NEW m
      PROVE  Terms(sc, T, m) = Terms(tc, T, m)
  BY DEF Terms
<1> QED
  BY <1>2, <1>3

PeakSeen(n) == Peak(score, Seen(n))
PeakWith(n, raw) == Peak(ScoreWith(raw), SeenWith(n))
Added(n, raw, L, k) ==
  IF k \in BlockKeys(n, i[n]) /\ k \in L
  THEN Minus(Masked(raw)[k], max_scale(PeakWith(n, raw))) ELSE NegInf

\* softmax_rescale: what was accumulated is brought to the new maximum, and
\* the keys of the block are added; L is the part of the keys a sum is about.
LEMMA BlockTerms ==
  ASSUME SoftmaxInv, NEW n \in Columns, pc[n] = "block",
         NEW raw \in [BlockKeys(n, i[n]) -> Scores], NEW L, NEW g,
         \A k \in Keys : g[k] = Added(n, raw, L, k)
  PROVE  Add(Scaled(Terms(score, Seen(n) \cap L, PeakSeen(n)),
                    exp_scale(PeakSeen(n), PeakWith(n, raw))), g)
           = Terms(ScoreWith(raw), SeenWith(n) \cap L, PeakWith(n, raw))
<1> DEFINE old == PeakSeen(n)
           top == PeakWith(n, raw)
           B == BlockKeys(n, i[n])
           s == Masked(raw)
           sc == ScoreWith(raw)
           S == SeenWith(n)
           f == Terms(score, Seen(n) \cap L, old)
           e == exp_scale(old, top)
           h == Terms(sc, S \cap L, top)
<1>1. /\ B \subseteq Keys /\ B \cap Seen(n) = {}
      /\ S \subseteq Keys /\ IsFiniteSet(S)
      /\ \A k \in S : sc[k] \in Scores
  BY SeenWithFacts
<1>2. /\ IsFiniteSet(Seen(n)) /\ Seen(n) \subseteq Keys
      /\ \A k \in Seen(n) : score[k] \in Scores
      /\ DOMAIN score = Keys
  BY SeenFacts DEF SoftmaxInv, LoopOK, SoftmaxTypes, AllSeen
<1>3. /\ old \in Weights /\ old \in {NegInf} \cup {score[k] : k \in Seen(n)}
      /\ Seen(n) # {} => old \in Int
      /\ top \in Weights /\ \A k \in S : Leq(sc[k], top)
      /\ S # {} => top \in Int
  BY <1>1, <1>2, PeakIs DEF PeakSeen, PeakWith
<1>4. \A k \in Seen(n) : k \in S /\ sc[k] = score[k]
  BY <1>1, <1>2 DEF SeenWith, ScoreWith
<1>5. \A k \in B : /\ s[k] = IF Attended(k) THEN sc[k] ELSE NegInf
                   /\ k \in S <=> Attended(k)
  BY <1>1 DEF Masked, ScoreWith, SeenWith
<1>6. \A k \in S : k \in Seen(n) \/ k \in B
  BY DEF SeenWith
<1>7. e \in Weights
  <2>1. Leq(old, top)
    BY <1>3, <1>4 DEF Leq
  <2> QED
    BY <1>3, <2>1, ScaleType
<1>8. DOMAIN sc = Keys
  BY DEF ScoreWith
<1> HIDE DEF s, sc, S, e, old, top
<1>8a. \A k \in Keys : g[k] = IF k \in B /\ k \in L
                             THEN Minus(s[k], max_scale(top)) ELSE NegInf
  BY DEF s, top, Added
<1>9. ASSUME NEW k \in Keys
      PROVE  Plus(Times(f[k], e), g[k]) = h[k]
  <2>1. CASE k \in Seen(n) /\ k \in L
    <3>1. k \in S /\ k \notin B /\ sc[k] = score[k] /\ score[k] \in Int
      BY <1>1, <1>2, <1>4, <2>1, ValueAssumption
    <3>2. old \in Int /\ top \in Int
      BY <1>3, <2>1, <3>1
    <3>3. f[k] = Minus(score[k], old) /\ g[k] = NegInf
      BY <1>2, <1>8a, <2>1, <3>1 DEF Terms
    <3>4. h[k] = Minus(score[k], top)
      BY <1>8, <2>1, <3>1 DEF Terms
    <3>5. Times(f[k], e) = h[k] /\ h[k] \in Weights
      <4>1. /\ Times(Minus(score[k], old), exp_scale(old, top))
                  = Minus(score[k], top)
            /\ Minus(score[k], top) \in Weights
        BY <3>1, <3>2, WeightFacts
      <4> QED
        BY <3>3, <3>4, <4>1 DEF e
    <3> QED
      BY <3>3, <3>5, NoWeight
  <2>2. CASE k \in B /\ k \in L
    <3>1. k \notin Seen(n)
      BY <1>1, <2>2
    <3>2. f[k] = NegInf /\ g[k] = Minus(s[k], max_scale(top))
      BY <1>2, <1>8a, <2>2, <3>1 DEF Terms
    <3>3. Times(f[k], e) = NegInf
      BY <1>7, <3>2, NoWeight
    <3>4. CASE Attended(k)
      <4>1. k \in S /\ sc[k] \in Int /\ top \in Int
        BY <1>1, <1>3, <1>5, <2>2, <3>4, ValueAssumption
      <4>2. h[k] = Minus(sc[k], top) /\ g[k] = Minus(sc[k], top)
        BY <1>5, <1>8, <2>2, <3>2, <3>4, <4>1, WeightFacts DEF Terms
      <4>3. h[k] \in Weights
        BY <4>1, <4>2, WeightFacts
      <4> QED
        BY <3>3, <4>2, <4>3, NoWeight
    <3>5. CASE ~ Attended(k)
      <4>1. k \notin S /\ s[k] = NegInf
        BY <1>5, <2>2, <3>5
      <4>2. h[k] = NegInf
        BY <1>8, <4>1 DEF Terms
      <4>3. max_scale(top) \in Int
        BY <1>3 DEF max_scale, Weights
      <4>4. g[k] = NegInf
        BY <3>2, <4>1, <4>3, WeightFacts
      <4>5. NegInf \in Weights
        BY DEF Weights
      <4> QED
        BY <3>3, <4>2, <4>4, <4>5, NoWeight
    <3> QED
      BY <3>4, <3>5
  <2>3. CASE k \notin L \/ (k \notin Seen(n) /\ k \notin B)
    <3>1. f[k] = NegInf /\ g[k] = NegInf /\ h[k] = NegInf
      BY <1>2, <1>6, <1>8, <1>8a, <2>3 DEF Terms
    <3>2. NegInf \in Weights
      BY DEF Weights
    <3> QED
      BY <1>7, <3>1, <3>2, NoWeight
  <2> QED
    BY <2>1, <2>2, <2>3
<1>10. Scaled(f, e) = [k \in Keys |-> Times(f[k], e)]
  BY DEF Scaled
<1>11. Add(Scaled(f, e), g) = [k \in Keys |-> Plus(Times(f[k], e), g[k])]
  BY <1>10 DEF Add
<1>12. h = [k \in Keys |-> h[k]]
  BY <1>8 DEF Terms
<1> HIDE DEF f, h
<1>13. Add(Scaled(f, e), g) = h
  BY <1>9, <1>11, <1>12
<1> QED
  BY <1>13 DEF f, h, e, s, sc, S, old, top

-----------------------------------------------------------------------------
(* The steps.                                                              *)

\* Within a row the keys, the blocks and the mask stay what they are.
LEMMA SameRow ==
  ASSUME shape' = shape, row' = row
  PROVE  /\ Keys' = Keys /\ Columns' = Columns /\ WARPS_N' = WARPS_N
         /\ k_blocks' = k_blocks /\ AllSeen' = AllSeen
         /\ \A n, b : BlockKeys(n, b)' = BlockKeys(n, b)
         /\ \A k : Attended(k)' <=> Attended(k)
         /\ \A n : i'[n] = i[n] => Seen(n)' = Seen(n)
<1>1. /\ WARPS_N' = WARPS_N /\ kBlockM' = kBlockM /\ kBlockN' = kBlockN
      /\ SeqLen' = SeqLen /\ IsCausal' = IsCausal
  BY DEF WARPS_N, kBlockM, kBlockN, SeqLen, IsCausal
<1>2. Keys' = Keys /\ Columns' = Columns /\ N_len' = N_len
  BY <1>1 DEF Keys, Columns, N_len
<1>3. q_block' = q_block
  BY <1>1 DEF q_block
<1>4. k_blocks' = k_blocks
  BY <1>1, <1>3 DEF k_blocks
<1>5. \A n, b : BlockKeys(n, b)' = BlockKeys(n, b)
  BY <1>1, <1>2 DEF BlockKeys
<1>6. \A k : Attended(k)' <=> Attended(k)
  BY <1>1 DEF Attended
<1>7. AllSeen' = AllSeen
  BY <1>2, <1>6 DEF AllSeen
<1>8. ASSUME NEW n, i'[n] = i[n] PROVE Seen(n)' = Seen(n)
  BY <1>5, <1>6, <1>8 DEF Seen
<1> QED
  BY <1>1, <1>2, <1>4, <1>5, <1>6, <1>7, <1>8

LEMMA BlockEffect ==
  ASSUME SoftmaxInv, NEW n \in Columns, Block(n)
  PROVE  /\ shape' = shape /\ row' = row
         /\ \E raw \in [BlockKeys(n, i[n]) -> Scores] :
              /\ score' = ScoreWith(raw)
              /\ \A l \in Lanes :
                   LET m == Peak(score', SeenWith(n))
                   IN  /\ rS_max'[n][l] = m
                       /\ rO'[n][l] = Terms(score', SeenWith(n), m)
                       /\ rS_sum'[n][l] =
                            Terms(score', OfLane(SeenWith(n), l), m)
<1>1. PICK raw \in [BlockKeys(n, i[n]) -> Scores] :
        LET b == i[n]
            s == [k \in DOMAIN raw |->
                    IF Masks(b) THEN causal_mask(k, raw[k]) ELSE raw[k]]
            m == NewMax(n, s)
            P(k) == Minus(s[k], max_scale(m[Lane(k)]))
            old(f, l) == Scaled(f, exp_scale(rS_max[n][l], m[l]))
            Mine(l) == [k \in Keys |-> IF k \in DOMAIN s /\ Lane(k) = l
                                       THEN P(k) ELSE NegInf]
            All == [k \in Keys |-> IF k \in DOMAIN s THEN P(k) ELSE NegInf]
        IN  /\ score' = [k \in Keys |-> IF k \in DOMAIN raw THEN raw[k]
                                        ELSE score[k]]
            /\ rS_max' = [rS_max EXCEPT ![n] = m]
            /\ rS_sum' = [rS_sum EXCEPT ![n] =
                 [l \in Lanes |-> Add(old(@[l], l), Mine(l))]]
            /\ rO' = [rO EXCEPT ![n] =
                 [l \in Lanes |-> Add(old(@[l], l), All)]]
  BY DEF Block
<1> DEFINE B == BlockKeys(n, i[n])
           S == SeenWith(n)
           s == [k \in DOMAIN raw |->
                   IF Masks(i[n]) THEN causal_mask(k, raw[k]) ELSE raw[k]]
           m == NewMax(n, s)
           P(k) == Minus(s[k], max_scale(m[Lane(k)]))
           old == PeakSeen(n)
           top == PeakWith(n, raw)
<1>2. pc[n] = "block" /\ shape' = shape /\ row' = row
  BY DEF Block
<1>3. score' = ScoreWith(raw)
  BY <1>1 DEF ScoreWith
<1>4. shape \in Shapes /\ row \in Keys /\ i[n] \in Nat
  BY DEF SoftmaxInv, SoftmaxTypes
<1>5. s = Masked(raw) /\ DOMAIN s = B
  <2>1. DOMAIN raw = B
    OBVIOUS
  <2>2. \A k \in B : (IF Masks(i[n]) THEN causal_mask(k, raw[k]) ELSE raw[k])
                       = IF Attended(k) THEN raw[k] ELSE NegInf
    BY <1>4, MasksWhereNeeded
  <2> QED
    BY <2>1, <2>2 DEF Masked
<1>6. \A l \in Lanes : m[l] = top
  BY <1>2, <1>5, NewMaxIs DEF PeakWith
<1>7. /\ n \in DOMAIN rS_max /\ n \in DOMAIN rS_sum /\ n \in DOMAIN rO
      /\ B \subseteq Keys /\ SeenWith(n) \subseteq Keys
  BY <1>2, SeenWithFacts DEF SoftmaxInv, SoftmaxTypes
<1>8. \A l \in Lanes :
        /\ rS_max[n][l] = old
        /\ rO[n][l] = Terms(score, Seen(n), old)
        /\ rS_sum[n][l] = Terms(score, OfLane(Seen(n), l), old)
  BY DEF SoftmaxInv, RegistersOK, PeakSeen
<1>9. \A k \in B : Lane(k) \in Lanes /\ P(k) = Minus(Masked(raw)[k], max_scale(top))
  <2>1. ASSUME NEW k \in B PROVE Lane(k) \in Lanes
    <3>1. k \in Nat
      BY <1>4, <1>7, KeysFinite
    <3> QED
      BY <3>1 DEF Lane, Lanes
  <2> QED
    BY <1>5, <1>6, <2>1
<1>10. ASSUME NEW l \in Lanes
       PROVE  rO'[n][l] = Terms(score', S, top)
  <2> DEFINE All == [k \in Keys |-> IF k \in DOMAIN s THEN P(k) ELSE NegInf]
  <2>1. rO'[n][l] = Add(Scaled(rO[n][l], exp_scale(rS_max[n][l], m[l])), All)
    BY <1>1, <1>7
  <2>2. \A k \in Keys :
          All[k] = Added(n, raw, Keys, k)
    BY <1>5, <1>9 DEF Added
  <2>3. Seen(n) \cap Keys = Seen(n) /\ S \cap Keys = S
    BY <1>7, SeenFacts DEF AllSeen
  <2>4. Add(Scaled(Terms(score, Seen(n) \cap Keys, old), exp_scale(old, top)), All)
          = Terms(ScoreWith(raw), S \cap Keys, top)
    <3> HIDE DEF All
    <3> QED
      BY <1>2, <2>2, BlockTerms
  <2> HIDE DEF s, m, P, old, top, All
  <2> QED
    BY <1>3, <1>6, <1>8, <2>1, <2>3, <2>4
<1>11. ASSUME NEW l \in Lanes
       PROVE  rS_sum'[n][l] = Terms(score', OfLane(S, l), top)
  <2> DEFINE L == {k \in Keys : Lane(k) = l}
             Mine == [k \in Keys |-> IF k \in DOMAIN s /\ Lane(k) = l
                                     THEN P(k) ELSE NegInf]
  <2>1. rS_sum'[n][l] =
          Add(Scaled(rS_sum[n][l], exp_scale(rS_max[n][l], m[l])), Mine)
    BY <1>1, <1>7
  <2>2. \A k \in Keys :
          Mine[k] = Added(n, raw, L, k)
    BY <1>5, <1>9 DEF Added
  <2>3. Seen(n) \cap L = OfLane(Seen(n), l) /\ S \cap L = OfLane(S, l)
    BY <1>7, SeenFacts DEF AllSeen, OfLane
  <2>4. Add(Scaled(Terms(score, Seen(n) \cap L, old), exp_scale(old, top)), Mine)
          = Terms(ScoreWith(raw), S \cap L, top)
    <3> HIDE DEF Mine
    <3> QED
      BY <1>2, <2>2, BlockTerms
  <2> HIDE DEF s, m, P, old, top, Mine
  <2> QED
    BY <1>3, <1>6, <1>8, <2>1, <2>3, <2>4
<1>12. \A l \in Lanes : rS_max'[n][l] = top
  BY <1>1, <1>6, <1>7
<1> HIDE DEF top
<1>13. Peak(score', S) = top
  BY <1>3 DEF top, PeakWith
<1> QED
  BY <1>2, <1>3, <1>10, <1>11, <1>12, <1>13

LEMMA BlockStep ==
  ASSUME SoftmaxInv, NEW n \in Columns, Block(n)
  PROVE  SoftmaxInv'
<1>1. /\ shape' = shape /\ row' = row /\ pc[n] = "block"
      /\ i' = [i EXCEPT ![n] = @ + 1]
      /\ pc' = [pc EXCEPT ![n] = IF i[n] + 1 < k_blocks THEN "block" ELSE "stats"]
      /\ row_stats' = row_stats /\ result' = result
  BY DEF Block
<1>2. PICK raw \in [BlockKeys(n, i[n]) -> Scores] :
        /\ score' = ScoreWith(raw)
        /\ \A l \in Lanes :
             LET m == Peak(score', SeenWith(n))
             IN  /\ rS_max'[n][l] = m
                 /\ rO'[n][l] = Terms(score', SeenWith(n), m)
                 /\ rS_sum'[n][l] = Terms(score', OfLane(SeenWith(n), l), m)
  BY BlockEffect
<1>3. /\ shape \in Shapes /\ row \in Keys
      /\ score \in [Keys -> Scores \cup {NegInf}]
      /\ pc \in [Columns -> {"block", "stats", "bar", "normalize", "done"}]
      /\ i \in [Columns -> Nat]
      /\ DOMAIN rS_max = Columns /\ DOMAIN rS_sum = Columns /\ DOMAIN rO = Columns
      /\ DOMAIN row_stats = Columns /\ DOMAIN result = Columns
  BY DEF SoftmaxInv, SoftmaxTypes
<1>4. /\ Keys' = Keys /\ Columns' = Columns /\ WARPS_N' = WARPS_N
      /\ k_blocks' = k_blocks /\ AllSeen' = AllSeen
      /\ \A c, b : BlockKeys(c, b)' = BlockKeys(c, b)
      /\ \A k : Attended(k)' <=> Attended(k)
      /\ \A c : i'[c] = i[c] => Seen(c)' = Seen(c)
  BY <1>1, SameRow
<1>5. i[n] \in Nat /\ i[n] < k_blocks /\ k_blocks \in Nat
  BY <1>1, <1>3, BlockSizes DEF SoftmaxInv, LoopOK
<1>6. /\ BlockKeys(n, i[n]) \subseteq Keys
      /\ \A c \in Columns : BlockKeys(n, i[n]) \cap Seen(c) = {}
      /\ \A k \in SeenWith(n) : ScoreWith(raw)[k] \in Scores
  BY <1>1, SeenWithFacts
<1>7. Seen(n)' = SeenWith(n)
  <2>1. i'[n] = i[n] + 1
    BY <1>1, <1>3
  <2>2. \A k : k \in Seen(n)' <=>
          Attended(k) /\ \E b \in 0 .. i[n] : k \in BlockKeys(n, b)
    BY <1>4, <1>5, <2>1 DEF Seen
  <2>3. \A k : k \in Seen(n) <=>
          Attended(k) /\ \E b \in 0 .. i[n] - 1 : k \in BlockKeys(n, b)
    BY SeenFacts
  <2>4. \A b : b \in 0 .. i[n] <=> b \in 0 .. i[n] - 1 \/ b = i[n]
    BY <1>5
  <2> QED
    BY <2>2, <2>3, <2>4 DEF SeenWith
<1>8. ASSUME NEW c \in Columns, c # n
      PROVE  /\ i'[c] = i[c] /\ pc'[c] = pc[c] /\ Seen(c)' = Seen(c)
             /\ rS_max'[c] = rS_max[c] /\ rS_sum'[c] = rS_sum[c]
             /\ rO'[c] = rO[c]
             /\ \A k \in Seen(c) : score'[k] = score[k]
             /\ Peak(score', Seen(c)) = Peak(score, Seen(c))
             /\ \A T \in SUBSET Seen(c) : \A m :
                  Terms(score', T, m) = Terms(score, T, m)
  <2>1. i'[c] = i[c] /\ pc'[c] = pc[c]
    BY <1>1, <1>3, <1>8
  <2>2. /\ rS_max'[c] = rS_max[c] /\ rS_sum'[c] = rS_sum[c]
        /\ rO'[c] = rO[c]
    BY <1>3, <1>8 DEF Block
  <2>3. \A k \in Seen(c) : score'[k] = score[k]
    <3>1. Seen(c) \subseteq Keys
      BY SeenFacts DEF AllSeen
    <3> QED
      BY <1>2, <1>6, <3>1 DEF ScoreWith
  <2>4. DOMAIN score' = DOMAIN score
    BY <1>2, <1>3 DEF ScoreWith
  <2> QED
    BY <1>4, <2>1, <2>2, <2>3, <2>4, SameScores
<1>9. SoftmaxTypes'
  <2>1. score' \in [Keys -> Scores \cup {NegInf}]
    BY <1>2, <1>3, <1>6 DEF ScoreWith
  <2>2. pc' \in [Columns -> {"block", "stats", "bar", "normalize", "done"}]
    BY <1>1, <1>3
  <2>3. i' \in [Columns -> Nat]
    BY <1>1, <1>3, <1>5
  <2>4. /\ DOMAIN rS_max' = Columns /\ DOMAIN rS_sum' = Columns
        /\ DOMAIN rO' = Columns
    BY <1>3 DEF Block
  <2> QED
    BY <1>1, <1>3, <1>4, <2>1, <2>2, <2>3, <2>4 DEF SoftmaxTypes
<1>10. LoopOK'
  <2> SUFFICES ASSUME NEW c \in Columns
               PROVE  /\ i'[c] <= k_blocks
                      /\ pc'[c] = "block" <=> i'[c] < k_blocks
                      /\ \A k \in Seen(c)' : score'[k] \in Scores
    BY <1>4 DEF LoopOK
  <2>1. CASE c = n
    <3>1. i'[n] = i[n] + 1
          /\ pc'[n] = IF i[n] + 1 < k_blocks THEN "block" ELSE "stats"
      BY <1>1, <1>3
    <3> QED
      BY <1>2, <1>5, <1>6, <1>7, <2>1, <3>1
  <2>2. CASE c # n
    BY <1>8, <2>2 DEF SoftmaxInv, LoopOK
  <2> QED
    BY <2>1, <2>2
<1>11. RegistersOK'
  <2> SUFFICES ASSUME NEW c \in Columns, NEW l \in Lanes
               PROVE  LET m == Peak(score', Seen(c)')
                      IN  /\ rS_max'[c][l] = m
                          /\ rO'[c][l] = Terms(score', Seen(c)', m)
                          /\ rS_sum'[c][l] = Terms(score', OfLane(Seen(c)', l), m)
    BY <1>4 DEF RegistersOK, Peak, Terms, OfLane, Lane, Lanes
  <2>1. CASE c = n
    BY <1>2, <1>7, <2>1
  <2>2. CASE c # n
    <3>1. OfLane(Seen(c), l) \subseteq Seen(c)
      BY DEF OfLane
    <3>2. LET m == Peak(score, Seen(c))
          IN  /\ rS_max[c][l] = m
              /\ rO[c][l] = Terms(score, Seen(c), m)
              /\ rS_sum[c][l] = Terms(score, OfLane(Seen(c), l), m)
      BY DEF SoftmaxInv, RegistersOK
    <3> QED
      BY <1>8, <2>2, <3>1, <3>2
  <2> QED
    BY <2>1, <2>2
<1>12. pc'[n] \in {"block", "stats"}
  BY <1>1, <1>3
<1>13. StagesOK'
  <2>1. \A c \in Columns : pc'[c] \in {"normalize", "done"} => pc[c] = pc'[c]
    BY <1>8, <1>12
  <2> QED
    BY <1>1, <1>4, <1>8, <1>12, <2>1 DEF SoftmaxInv, StagesOK
<1>14. StatsOK'
  <2> SUFFICES ASSUME NEW c \in Columns, pc'[c] \in {"bar", "normalize", "done"},
                      WARPS_N > 1
               PROVE  LET m == Peak(score', Seen(c)')
                      IN  row_stats'[c] =
                            [max |-> m, sum |-> Terms(score', Seen(c)', m)]
    BY <1>4 DEF StatsOK, Peak, Terms
  <2>1. c # n
    BY <1>12
  <2>2. LET m == Peak(score, Seen(c))
        IN  row_stats[c] = [max |-> m, sum |-> Terms(score, Seen(c), m)]
    BY <1>8, <2>1 DEF SoftmaxInv, StatsOK
  <2> QED
    BY <1>1, <1>8, <2>1, <2>2
<1>15. ResultsOK'
  <2>1. \A c \in Columns : pc'[c] # "done"
    <3> SUFFICES ASSUME NEW c \in Columns, pc'[c] = "done" PROVE FALSE
      OBVIOUS
    <3>1. c # n /\ pc[c] = "done"
      BY <1>8, <1>12
    <3>2. WARPS_N \in Nat \ {0}
      BY <1>3, ShapeFacts
    <3>3. WARPS_N > 1
      BY <3>1, <3>2 DEF Columns
    <3> QED
      BY <1>1, <3>1, <3>3 DEF SoftmaxInv, StagesOK
  <2> QED
    BY <1>4, <2>1 DEF ResultsOK
<1> QED
  BY <1>9, <1>10, <1>11, <1>13, <1>14, <1>15 DEF SoftmaxInv

-----------------------------------------------------------------------------
(* Sums of weights of disjoint sets of keys.                               *)

\* Scores of the keys of S relative to a maximum are weights.
LEMMA TermsFacts ==
  ASSUME NEW sc, NEW S \in SUBSET DOMAIN sc, \A k \in S : sc[k] \in Scores,
         NEW m, m \in Int \/ S = {}
  PROVE  /\ DOMAIN Terms(sc, S, m) = DOMAIN sc
         /\ \A k \in DOMAIN sc : Terms(sc, S, m)[k] \in Weights
         /\ \A k \in DOMAIN sc : k \notin S => Terms(sc, S, m)[k] = NegInf
         /\ \A k \in S : /\ sc[k] \in Int /\ m \in Int
                         /\ Terms(sc, S, m)[k] = sc[k] - m
<1>1. \A k \in S : sc[k] \in Int /\ m \in Int /\ Minus(sc[k], m) = sc[k] - m
  BY ValueAssumption, WeightFacts
<1>2. \A k \in S : Minus(sc[k], m) \in Weights
  BY <1>1 DEF Weights
<1>3. NegInf \in Weights
  BY DEF Weights
<1> QED
  BY <1>1, <1>2, <1>3 DEF Terms

\* Two sets without a common key.
LEMMA AddTerms ==
  ASSUME NEW sc, DOMAIN sc = Keys, NEW S \in SUBSET Keys, NEW T \in SUBSET Keys,
         \A k \in S \cup T : sc[k] \in Scores, S \cap T = {},
         NEW m, m \in Int \/ S \cup T = {}
  PROVE  Add(Terms(sc, S, m), Terms(sc, T, m)) = Terms(sc, S \cup T, m)
<1> DEFINE f == Terms(sc, S, m)
           g == Terms(sc, T, m)
           h == Terms(sc, S \cup T, m)
<1>1. /\ \A k \in Keys : f[k] \in Weights /\ g[k] \in Weights
      /\ \A k \in Keys : k \notin S => f[k] = NegInf
      /\ \A k \in Keys : k \notin T => g[k] = NegInf
  <2>1. ASSUME NEW U \in SUBSET (S \cup T)
        PROVE  /\ \A k \in Keys : Terms(sc, U, m)[k] \in Weights
               /\ \A k \in Keys : k \notin U => Terms(sc, U, m)[k] = NegInf
    <3>1. U \in SUBSET DOMAIN sc
      OBVIOUS
    <3>2. \A k \in U : sc[k] \in Scores
      OBVIOUS
    <3>3. m \in Int \/ U = {}
      OBVIOUS
    <3> QED
      BY <3>1, <3>2, <3>3, TermsFacts
  <2>2. S \in SUBSET (S \cup T) /\ T \in SUBSET (S \cup T)
    OBVIOUS
  <2> QED
    BY <2>1, <2>2
<1>2. \A k \in Keys : /\ k \in S => h[k] = f[k]
                      /\ k \in T => h[k] = g[k]
                      /\ k \notin S /\ k \notin T => h[k] = NegInf
  BY DEF Terms
<1>3. h = [k \in Keys |-> h[k]]
  BY DEF Terms
<1> HIDE DEF f, g, h
<1>4. \A k \in Keys : Plus(f[k], g[k]) = h[k]
  BY <1>1, <1>2, NoWeight
<1>5. Add(f, g) = h
  BY <1>3, <1>4 DEF Add
<1> QED
  BY <1>5 DEF f, g, h

\* The sum over a quad: every key belongs to one lane.
LEMMA QuadSum ==
  ASSUME shape \in Shapes,
         NEW sc, DOMAIN sc = Keys, NEW S \in SUBSET Keys,
         \A k \in S : sc[k] \in Scores, NEW m, m \in Int \/ S = {},
         NEW f, \A l \in Lanes : f[l] = Terms(sc, OfLane(S, l), m),
         NEW l \in Lanes
  PROVE  warp_reduce_sum(f)[l] = Terms(sc, S, m)
<1> DEFINE g == [x \in Lanes |-> Add(f[x], f[Partner(x, 2)])]
           h == [x \in Lanes |-> Add(g[x], g[Partner(x, 1)])]
           A(x) == OfLane(S, x)
           Two(x, y) == A(x) \cup A(y)
<1>1. warp_reduce_sum(f) = h
  BY DEF warp_reduce_sum
<1>2. Lanes = {0, 1, 2, 3}
  BY DEF Lanes
<1>3. /\ Partner(0, 2) = 2 /\ Partner(1, 2) = 3
      /\ Partner(2, 2) = 0 /\ Partner(3, 2) = 1
      /\ Partner(0, 1) = 1 /\ Partner(1, 1) = 0
      /\ Partner(2, 1) = 3 /\ Partner(3, 1) = 2
  BY DEF Partner
<1>4. /\ g[0] = Add(f[0], f[2]) /\ g[1] = Add(f[1], f[3])
      /\ g[2] = Add(f[2], f[0]) /\ g[3] = Add(f[3], f[1])
  BY <1>2, <1>3
<1>5. /\ h[0] = Add(g[0], g[1]) /\ h[1] = Add(g[1], g[0])
      /\ h[2] = Add(g[2], g[3]) /\ h[3] = Add(g[3], g[2])
  BY <1>2, <1>3
<1>6. \A x, y \in Lanes : x # y => A(x) \cap A(y) = {}
  BY DEF OfLane
<1>7. \A x \in Lanes : A(x) \subseteq S
  BY DEF OfLane
<1>8. ASSUME NEW x \in Lanes, NEW y \in Lanes, x # y
      PROVE  Add(f[x], f[y]) = Terms(sc, Two(x, y), m)
  <2>1. f[x] = Terms(sc, A(x), m) /\ f[y] = Terms(sc, A(y), m)
    OBVIOUS
  <2>2. /\ A(x) \subseteq Keys /\ A(y) \subseteq Keys /\ A(x) \cap A(y) = {}
        /\ \A k \in A(x) \cup A(y) : sc[k] \in Scores
        /\ m \in Int \/ A(x) \cup A(y) = {}
    BY <1>6, <1>7, <1>8
  <2> HIDE DEF A
  <2>3. Add(Terms(sc, A(x), m), Terms(sc, A(y), m)) = Terms(sc, A(x) \cup A(y), m)
    BY <2>2, AddTerms
  <2> QED
    BY <2>1, <2>3
<1> HIDE DEF g, h
<1>9. /\ g[0] = Terms(sc, Two(0, 2), m) /\ g[2] = Terms(sc, Two(0, 2), m)
      /\ g[1] = Terms(sc, Two(1, 3), m) /\ g[3] = Terms(sc, Two(1, 3), m)
  <2>1. Two(2, 0) = Two(0, 2) /\ Two(3, 1) = Two(1, 3)
    OBVIOUS
  <2> HIDE DEF Two
  <2> QED
    BY <1>2, <1>4, <1>8, <2>1
<1>10. Two(0, 2) \cup Two(1, 3) = S
  <2>1. \A k \in S : Lane(k) \in Lanes
    BY KeysFinite DEF Lane, Lanes
  <2> QED
    BY <1>2, <2>1 DEF OfLane
<1>11. Two(0, 2) \cap Two(1, 3) = {}
  BY DEF OfLane
<1> HIDE DEF Two, A
<1>12. /\ Add(Terms(sc, Two(0, 2), m), Terms(sc, Two(1, 3), m)) = Terms(sc, S, m)
       /\ Add(Terms(sc, Two(1, 3), m), Terms(sc, Two(0, 2), m)) = Terms(sc, S, m)
  <2>1. /\ Two(0, 2) \subseteq Keys /\ Two(1, 3) \subseteq Keys
        /\ Two(1, 3) \cap Two(0, 2) = {} /\ Two(1, 3) \cup Two(0, 2) = S
    BY <1>10, <1>11
  <2> QED
    BY <1>10, <1>11, <2>1, AddTerms
<1> QED
  BY <1>1, <1>2, <1>5, <1>9, <1>12

\* A nonempty set of naturals has a smallest element.
LEMMA Smallest ==
  ASSUME NEW S \in SUBSET Nat, S # {}
  PROVE  \E x \in S : \A y \in S : x <= y
<1>1. PICK x \in S : \A y \in S : <<y, x>> \notin OpToRel(<, Nat)
  BY NatLessThanWellFounded, WFMin
<1>2. \A y \in S : ~ (y < x)
  BY <1>1 DEF OpToRel
<1> QED
  BY <1>2

-----------------------------------------------------------------------------
(* Sums over the columns.                                                  *)

\* What the columns before column n see.
SeenBelow(n) == UNION {Seen(c) : c \in 0 .. n - 1}

\* The columns see disjoint sets of keys, and in the end the whole row.
LEMMA ColumnsDisjoint ==
  ASSUME SoftmaxInv, NEW n \in Columns, NEW m \in Columns, n # m
  PROVE  Seen(n) \cap Seen(m) = {}
<1> SUFFICES ASSUME NEW k \in Seen(n), k \in Seen(m) PROVE FALSE
  OBVIOUS
<1>1. shape \in Shapes /\ i \in [Columns -> Nat]
  BY DEF SoftmaxInv, SoftmaxTypes
<1>2. PICK b \in 0 .. i[n] - 1 : k \in BlockKeys(n, b)
  BY SeenFacts
<1>3. PICK c \in 0 .. i[m] - 1 : k \in BlockKeys(m, c)
  BY SeenFacts
<1>4. b \in Nat /\ c \in Nat
  BY <1>1
<1> QED
  BY <1>1, <1>2, <1>3, <1>4, BlocksDisjoint

LEMMA ColumnsCover ==
  ASSUME SoftmaxInv, \A n \in Columns : pc[n] # "block"
  PROVE  /\ AllSeen = UNION {Seen(n) : n \in Columns}
         /\ \A k \in AllSeen : score[k] \in Scores
         /\ 0 \in AllSeen /\ IsFiniteSet(AllSeen)
         /\ Peak(score, AllSeen) \in Int
<1>1. /\ shape \in Shapes /\ row \in Keys /\ i \in [Columns -> Nat]
      /\ \A n \in Columns : i[n] <= k_blocks /\ ~ (i[n] < k_blocks)
      /\ \A n \in Columns : \A k \in Seen(n) : score[k] \in Scores
  BY DEF SoftmaxInv, SoftmaxTypes, LoopOK
<1>2. k_blocks \in Nat
  BY <1>1, BlockSizes
<1>3. \A n \in Columns : i[n] = k_blocks
  BY <1>1, <1>2
<1>4. ASSUME NEW k \in AllSeen PROVE \E n \in Columns : k \in Seen(n)
  <2>1. k \in Keys /\ Attended(k)
    BY DEF AllSeen
  <2>2. PICK n \in Columns, b \in 0 .. k_blocks - 1 : k \in BlockKeys(n, b)
    BY <1>1, <2>1, BlocksCover
  <2>3. b \in 0 .. i[n] - 1
    BY <1>3, <2>2
  <2>4. k \in Seen(n)
    BY <2>1, <2>2, <2>3, SeenFacts
  <2> QED
    BY <2>4
<1>5. \A n \in Columns : Seen(n) \subseteq AllSeen
  BY SeenFacts
<1>6. AllSeen = UNION {Seen(n) : n \in Columns}
  BY <1>4, <1>5
<1>7. \A k \in AllSeen : score[k] \in Scores
  BY <1>1, <1>4
<1>8. 0 \in AllSeen
  <2>1. 0 \in Keys /\ row \in Nat
    BY <1>1, KeysFinite
  <2> QED
    BY <2>1 DEF AllSeen, Attended
<1>9. IsFiniteSet(AllSeen)
  <2>1. IsFiniteSet(Keys) /\ AllSeen \subseteq Keys
    BY <1>1, KeysFinite DEF AllSeen
  <2> QED
    BY <2>1, FS_Subset
<1>10. Peak(score, AllSeen) \in Int
  BY <1>7, <1>8, <1>9, PeakIs
<1> QED
  BY <1>6, <1>7, <1>8, <1>9, <1>10

\* One more column.
LEMMA NextColumn ==
  ASSUME SoftmaxInv, NEW m \in Int, NEW n \in Columns
  PROVE  Add(Terms(score, SeenBelow(n), m), Terms(score, Seen(n), m))
           = Terms(score, SeenBelow(n + 1), m)
<1>1. shape \in Shapes /\ DOMAIN score = Keys
  BY DEF SoftmaxInv, SoftmaxTypes
<1>2. WARPS_N \in Nat
  BY <1>1, ShapeFacts
<1>3. n \in Nat /\ \A c \in 0 .. n - 1 : c \in Columns /\ c # n
  BY <1>2 DEF Columns
<1>4. SeenBelow(n) \subseteq Keys /\ Seen(n) \subseteq Keys
  BY <1>3, SeenFacts DEF SeenBelow, AllSeen
<1>5. SeenBelow(n) \cap Seen(n) = {}
  BY <1>3, ColumnsDisjoint DEF SeenBelow
<1>6. \A k \in SeenBelow(n) \cup Seen(n) : score[k] \in Scores
  BY <1>3 DEF SeenBelow, SoftmaxInv, LoopOK
<1>7. SeenBelow(n + 1) = SeenBelow(n) \cup Seen(n)
  <2>1. 0 .. (n + 1) - 1 = (0 .. n - 1) \cup {n}
    BY <1>3
  <2> QED
    BY <2>1 DEF SeenBelow
<1> QED
  BY <1>1, <1>4, <1>5, <1>6, <1>7, AddTerms

Summed(u, f) ==
  [n \in 0 .. WARPS_N |-> IF n = 0 THEN ZeroTerms ELSE Add(u[n - 1], f[n - 1])]

\* The recursive sum over the columns exists, and it has every key of the row
\* once: a column at which a solution differed first would have a predecessor
\* at which it does not.
LEMMA ColumnsSum ==
  ASSUME SoftmaxInv, \A n \in Columns : pc[n] # "block", NEW m \in Int,
         NEW f, \A n \in Columns : f[n] = Terms(score, Seen(n), m)
  PROVE  /\ \E u : u = Summed(u, f)
         /\ \A u : u = Summed(u, f) =>
              u[WARPS_N] = Terms(score, AllSeen, m)
<1> DEFINE T(n) == Terms(score, SeenBelow(n), m)
<1>1. shape \in Shapes /\ DOMAIN score = Keys
  BY DEF SoftmaxInv, SoftmaxTypes
<1>2. WARPS_N \in Nat \ {0}
  BY <1>1, ShapeFacts
<1>3. ZeroTerms = T(0)
  <2>1. SeenBelow(0) = {}
    BY DEF SeenBelow
  <2> QED
    BY <1>1, <2>1 DEF ZeroTerms, Terms
<1>4. ASSUME NEW n \in 0 .. WARPS_N, n # 0
      PROVE  /\ n - 1 \in 0 .. WARPS_N /\ n - 1 \in Columns
             /\ Add(T(n - 1), f[n - 1]) = T(n)
  <2>1. n - 1 \in Columns /\ n - 1 \in 0 .. WARPS_N /\ (n - 1) + 1 = n
    BY <1>2, <1>4 DEF Columns
  <2> QED
    BY <2>1, NextColumn
<1>5. T(WARPS_N) = Terms(score, AllSeen, m)
  <2>1. SeenBelow(WARPS_N) = AllSeen
    BY ColumnsCover DEF SeenBelow, Columns
  <2> QED
    BY <2>1
<1> HIDE DEF T
<1>6. \E u : u = Summed(u, f)
  <2> DEFINE u == [n \in 0 .. WARPS_N |-> T(n)]
  <2>1. u = Summed(u, f)
    BY <1>3, <1>4 DEF Summed
  <2> QED
    BY <2>1
<1>7. ASSUME NEW u, u = Summed(u, f)
      PROVE  \A n \in 0 .. WARPS_N : u[n] = T(n)
  <2> DEFINE Bad == {n \in 0 .. WARPS_N : u[n] # T(n)}
  <2>1. \A n \in 0 .. WARPS_N :
          u[n] = IF n = 0 THEN ZeroTerms ELSE Add(u[n - 1], f[n - 1])
    BY <1>7 DEF Summed
  <2> SUFFICES ASSUME Bad # {} PROVE FALSE
    OBVIOUS
  <2>2. Bad \in SUBSET Nat
    OBVIOUS
  <2>3. PICK x \in Bad : \A y \in Bad : x <= y
    BY <2>2, Smallest
  <2>4. x # 0
    BY <1>3, <2>1
  <2>5. x - 1 \in 0 .. WARPS_N /\ Add(T(x - 1), f[x - 1]) = T(x)
    BY <1>4, <2>4
  <2>6. u[x - 1] = T(x - 1)
    BY <2>3, <2>5
  <2>7. u[x] = T(x)
    BY <2>1, <2>4, <2>5, <2>6
  <2> QED
    BY <2>7
<1> QED
  BY <1>2, <1>5, <1>6, <1>7

\* The quad adds up what its lanes have.
LEMMA LaneSumIs ==
  ASSUME SoftmaxInv, NEW n \in Columns, NEW l \in Lanes
  PROVE  LaneSum(n)[l] = Terms(score, Seen(n), PeakSeen(n))
<1> DEFINE m == PeakSeen(n)
           S == Seen(n)
           f == rS_sum[n]
<1>1. shape \in Shapes /\ DOMAIN score = Keys
  BY DEF SoftmaxInv, SoftmaxTypes
<1>2. S \subseteq Keys /\ IsFiniteSet(S) /\ \A k \in S : score[k] \in Scores
  BY SeenFacts DEF AllSeen, SoftmaxInv, LoopOK
<1>3. m \in Int \/ S = {}
  BY <1>2, PeakIs DEF PeakSeen
<1>4. \A x \in Lanes : f[x] = Terms(score, OfLane(S, x), m)
  BY DEF SoftmaxInv, RegistersOK, PeakSeen
<1> HIDE DEF m, S, f
<1>5. warp_reduce_sum(f)[l] = Terms(score, S, m)
  BY <1>1, <1>2, <1>3, <1>4, QuadSum
<1> QED
  BY <1>5 DEF LaneSum, f, m, S

\* Factors that bring a column from its own maximum to that of the row.
LEMMA ToPeak ==
  ASSUME SoftmaxInv, \A n \in Columns : pc[n] # "block", NEW n \in Columns,
         NEW e \in Weights,
         Seen(n) # {} => e = Minus(PeakSeen(n), Peak(score, AllSeen))
  PROVE  Scaled(Terms(score, Seen(n), PeakSeen(n)), e)
           = Terms(score, Seen(n), Peak(score, AllSeen))
<1> DEFINE m == PeakSeen(n)
           top == Peak(score, AllSeen)
           f == Terms(score, Seen(n), m)
           h == Terms(score, Seen(n), top)
<1>1. DOMAIN score = Keys /\ top \in Int
  BY ColumnsCover DEF SoftmaxInv, SoftmaxTypes
<1>2. IsFiniteSet(Seen(n)) /\ \A k \in Seen(n) : score[k] \in Scores
  BY SeenFacts DEF SoftmaxInv, LoopOK
<1>3. Seen(n) # {} => m \in Int
  BY <1>2, PeakIs DEF PeakSeen
<1> HIDE DEF m, top
<1>4. ASSUME NEW k \in Keys PROVE Times(f[k], e) = h[k]
  <2>1. CASE k \in Seen(n)
    <3>1. f[k] = Minus(score[k], m) /\ h[k] = Minus(score[k], top)
      BY <1>1, <2>1 DEF Terms
    <3>2. score[k] \in Int /\ m \in Int /\ e = Minus(m, top)
      BY <1>2, <1>3, <2>1, ValueAssumption DEF m, top
    <3> QED
      BY <1>1, <3>1, <3>2, WeightFacts
  <2>2. CASE k \notin Seen(n)
    <3>1. f[k] = NegInf /\ h[k] = NegInf
      BY <1>1, <2>2 DEF Terms
    <3> QED
      BY <3>1, NoWeight
  <2> QED
    BY <2>1, <2>2
<1>5. Scaled(f, e) = [k \in Keys |-> Times(f[k], e)]
  BY DEF Scaled
<1>6. h = [k \in Keys |-> h[k]]
  BY <1>1 DEF Terms
<1> HIDE DEF f, h
<1>7. Scaled(f, e) = h
  BY <1>4, <1>5, <1>6
<1> QED
  BY <1>7 DEF f, h, m, top

\* What is divided by: the sum of all weights, which is not zero.
LEMMA NotZero ==
  ASSUME SoftmaxInv, \A n \in Columns : pc[n] # "block", NEW out
  PROVE  LET sum == Terms(score, AllSeen, Peak(score, AllSeen))
         IN  /\ Normalised(out, sum) = [num |-> out, den |-> sum]
             /\ sum # << >>
<1> DEFINE sum == Terms(score, AllSeen, Peak(score, AllSeen))
<1>1. DOMAIN score = Keys /\ 0 \in Keys
  BY KeysFinite DEF SoftmaxInv, SoftmaxTypes
<1>2. /\ 0 \in AllSeen /\ score[0] \in Int
      /\ Peak(score, AllSeen) \in Int
  BY ColumnsCover, ValueAssumption
<1>3. DOMAIN sum = Keys /\ sum[0] = Minus(score[0], Peak(score, AllSeen))
  BY <1>1, <1>2 DEF Terms
<1>4. sum[0] = score[0] - Peak(score, AllSeen)
  BY <1>2, <1>3, WeightFacts
<1> HIDE DEF sum
<1>5. sum[0] # NegInf
  BY <1>2, <1>4, ValueAssumption
<1>6. sum # ZeroTerms
  BY <1>1, <1>5 DEF ZeroTerms
<1>7. DOMAIN << >> = {}
  OBVIOUS
<1>8. sum # << >>
  BY <1>1, <1>3, <1>7
<1> QED
  BY <1>6, <1>8 DEF Normalised, sum

LEMMA Published ==
  ASSUME SoftmaxInv, WARPS_N > 1, NEW n \in Columns,
         pc[n] \in {"bar", "normalize", "done"}
  PROVE  /\ row_stats[n].max = PeakSeen(n)
         /\ row_stats[n].sum = Terms(score, Seen(n), PeakSeen(n))
<1>1. LET m == PeakSeen(n)
      IN  row_stats[n] = [max |-> m, sum |-> Terms(score, Seen(n), m)]
  BY DEF SoftmaxInv, StatsOK, PeakSeen
<1> QED
  BY <1>1

\* The maximum of the published maxima is that of the row.
LEMMA GlobalMax ==
  ASSUME SoftmaxInv, WARPS_N > 1,
         \A n \in Columns : pc[n] \in {"normalize", "done"}
  PROVE  global_max = Peak(score, AllSeen)
<1> DEFINE top == Peak(score, AllSeen)
           M == {row_stats[n].max : n \in Columns}
<1>1. /\ AllSeen = UNION {Seen(n) : n \in Columns}
      /\ \A k \in AllSeen : score[k] \in Scores
      /\ IsFiniteSet(AllSeen) /\ top \in Int
  BY ColumnsCover
<1>2. /\ top \in {NegInf} \cup {score[k] : k \in AllSeen}
      /\ \A k \in AllSeen : Leq(score[k], top)
  BY <1>1, PeakIs
<1>3. ASSUME NEW n \in Columns PROVE row_stats[n].max = PeakSeen(n)
  BY Published
<1>4. ASSUME NEW n \in Columns
      PROVE  /\ PeakSeen(n) \in {NegInf} \cup {score[k] : k \in Seen(n)}
             /\ PeakSeen(n) \in Weights
             /\ \A k \in Seen(n) : Leq(score[k], PeakSeen(n))
  <2>1. IsFiniteSet(Seen(n)) /\ \A k \in Seen(n) : score[k] \in Scores
    BY SeenFacts DEF SoftmaxInv, LoopOK
  <2> QED
    BY <2>1, PeakIs DEF PeakSeen
<1> HIDE DEF top
<1>5. \A n \in Columns : Leq(PeakSeen(n), top)
  BY <1>1, <1>2, <1>4 DEF Leq
<1>6. PICK k \in AllSeen : top = score[k]
  BY <1>1, <1>2, ValueAssumption
<1>7. PICK n \in Columns : k \in Seen(n)
  BY <1>1, <1>6
<1>8. Leq(top, PeakSeen(n)) /\ Leq(PeakSeen(n), top)
  BY <1>4, <1>5, <1>6, <1>7
<1>9. top = PeakSeen(n)
  <2>1. top \in Weights
    BY <1>1 DEF Weights
  <2> QED
    BY <1>4, <1>8, <2>1, LeqOrder
<1>10. IsLargest(top, M)
  BY <1>3, <1>5, <1>9 DEF IsLargest
<1>11. M \subseteq Weights
  BY <1>3, <1>4
<1> HIDE DEF M
<1>12. Largest(M) = top
  BY <1>10, <1>11, LargestUnique
<1> QED
  BY <1>12 DEF global_max, M, top

\* The factors of normalize_stats are differences of maxima, or zero for a
\* column that has seen nothing but masked keys.
LEMMA ColumnScale ==
  ASSUME SoftmaxInv, WARPS_N > 1,
         \A n \in Columns : pc[n] \in {"normalize", "done"}, NEW n \in Columns
  PROVE  LET top == Peak(score, AllSeen)
             all == Terms(score, Seen(n), top)
         IN  /\ Rescaled(n) = all
             /\ Scaled(Terms(score, Seen(n), PeakSeen(n)),
                       partial_scale(PeakSeen(n))) = all
<1> DEFINE top == Peak(score, AllSeen)
           m == PeakSeen(n)
           f == Terms(score, Seen(n), m)
<1>1. top \in Int /\ global_max = top
  BY ColumnsCover, GlobalMax
<1>2. m \in Weights /\ (Seen(n) # {} => m \in Int)
  <2>1. IsFiniteSet(Seen(n)) /\ \A k \in Seen(n) : score[k] \in Scores
    BY SeenFacts DEF SoftmaxInv, LoopOK
  <2> QED
    BY <2>1, PeakIs DEF PeakSeen
<1>3. row_stats[n].max = m /\ row_stats[n].sum = f
  BY Published
<1>4. Minus(m, top) \in Weights
  BY <1>1, <1>2, WeightFacts DEF Weights
<1>5. /\ partial_scale(m) \in Weights
      /\ Seen(n) # {} => partial_scale(m) = Minus(m, top)
  BY <1>1, <1>2, <1>4, ValueAssumption DEF partial_scale, Weights
<1>6. \A x \in Columns : pc[x] # "block"
  OBVIOUS
<1>7. Scaled(f, Minus(m, top)) = Terms(score, Seen(n), top)
  BY <1>4, <1>6, ToPeak
<1>8. Scaled(f, partial_scale(m)) = Terms(score, Seen(n), top)
  BY <1>5, <1>6, ToPeak
<1>9. Rescaled(n) = Scaled(f, Minus(m, top))
  BY <1>1, <1>3 DEF Rescaled
<1> QED
  BY <1>7, <1>8, <1>9

LEMMA GlobalSum ==
  ASSUME SoftmaxInv, WARPS_N > 1,
         \A n \in Columns : pc[n] \in {"normalize", "done"}
  PROVE  global_sum = Terms(score, AllSeen, Peak(score, AllSeen))
<1> DEFINE top == Peak(score, AllSeen)
           f == [n \in Columns |-> Rescaled(n)]
           Rec(u) == [n \in 0 .. WARPS_N |->
                        IF n = 0 THEN ZeroTerms
                                 ELSE Add(u[n - 1], Rescaled(n - 1))]
           u == CHOOSE x : x = Rec(x)
<1>1. /\ \A n \in Columns : pc[n] # "block"
      /\ \A n \in Columns : f[n] = Terms(score, Seen(n), top)
      /\ top \in Int
  BY ColumnsCover, ColumnScale
<1>2. \A x : Rec(x) = Summed(x, f)
  <2>1. WARPS_N \in Nat
    BY ShapeFacts DEF SoftmaxInv, SoftmaxTypes
  <2>2. \A n \in 0 .. WARPS_N : n # 0 => f[n - 1] = Rescaled(n - 1)
    BY <2>1 DEF Columns
  <2> HIDE DEF f
  <2> QED
    BY <2>2 DEF Summed
<1>3. global_sum = u[WARPS_N]
  BY DEF global_sum
<1> HIDE DEF f, top, Rec
<1>4. /\ \E x : x = Summed(x, f)
      /\ \A x : x = Summed(x, f) => x[WARPS_N] = Terms(score, AllSeen, top)
  BY <1>1, ColumnsSum
<1>5. u = Rec(u)
  BY <1>2, <1>4
<1> QED
  BY <1>2, <1>3, <1>4, <1>5 DEF top

\* What a lane has when it is through with the row.
LEMMA OutputOfLane ==
  ASSUME SoftmaxInv, WARPS_N > 1,
         \A n \in Columns : pc[n] \in {"normalize", "done"},
         NEW n \in Columns, NEW l \in Lanes
  PROVE  Normalised(Scaled(rO[n][l], partial_scale(rS_max[n][l])), global_sum)
           = LET m == Peak(score, AllSeen)
             IN  [num |-> Terms(score, Seen(n), m),
                  den |-> Terms(score, AllSeen, m)]
<1>1. /\ rS_max[n][l] = PeakSeen(n)
      /\ rO[n][l] = Terms(score, Seen(n), PeakSeen(n))
  BY DEF SoftmaxInv, RegistersOK, PeakSeen
<1>2. \A x \in Columns : pc[x] # "block"
  OBVIOUS
<1> QED
  BY <1>1, <1>2, ColumnScale, GlobalSum, NotZero

\* With one column there is nothing to exchange.
LEMMA OutputAlone ==
  ASSUME SoftmaxInv, WARPS_N = 1, NEW n \in Columns, pc[n] # "block",
         NEW l \in Lanes
  PROVE  Normalised(rO[n][l], LaneSum(n)[l])
           = LET m == Peak(score, AllSeen)
             IN  [num |-> Terms(score, Seen(n), m),
                  den |-> Terms(score, AllSeen, m)]
<1>1. Columns = {n}
  BY DEF Columns
<1>2. \A x \in Columns : pc[x] # "block"
  BY <1>1
<1>3. AllSeen = Seen(n)
  BY <1>1, <1>2, ColumnsCover
<1>4. rO[n][l] = Terms(score, Seen(n), PeakSeen(n))
  BY DEF SoftmaxInv, RegistersOK, PeakSeen
<1> QED
  BY <1>2, <1>3, <1>4, LaneSumIs, NotZero DEF PeakSeen

-----------------------------------------------------------------------------
(* The steps after the loop.                                               *)

Operations == {"block", "stats", "bar", "normalize", "done"}

\* They leave the registers alone.
LEMMA AfterLoop ==
  ASSUME SoftmaxInv, UNCHANGED <<shape, row, score, i, registers>>,
         pc' \in [Columns -> Operations],
         \A n \in Columns : pc'[n] = "block" <=> pc[n] = "block",
         DOMAIN row_stats' = Columns, DOMAIN result' = Columns
  PROVE  /\ SoftmaxTypes' /\ LoopOK' /\ RegistersOK'
         /\ Columns' = Columns /\ WARPS_N' = WARPS_N /\ AllSeen' = AllSeen
         /\ \A n \in Columns : Seen(n)' = Seen(n)
<1>1. /\ shape' = shape /\ row' = row /\ score' = score /\ i' = i
      /\ rS_max' = rS_max /\ rS_sum' = rS_sum /\ rO' = rO
  BY DEF registers
<1>2. /\ Keys' = Keys /\ Columns' = Columns /\ WARPS_N' = WARPS_N
      /\ k_blocks' = k_blocks /\ AllSeen' = AllSeen
      /\ \A n \in Columns : Seen(n)' = Seen(n)
  BY <1>1, SameRow
<1>3. SoftmaxTypes'
  BY <1>1, <1>2 DEF SoftmaxInv, SoftmaxTypes, Operations
<1>4. LoopOK'
  BY <1>1, <1>2 DEF SoftmaxInv, LoopOK
<1>5. RegistersOK'
  <2> SUFFICES ASSUME NEW c \in Columns, NEW l \in Lanes
               PROVE  LET m == Peak(score', Seen(c)')
                      IN  /\ rS_max'[c][l] = m
                          /\ rO'[c][l] = Terms(score', Seen(c)', m)
                          /\ rS_sum'[c][l] =
                               Terms(score', OfLane(Seen(c)', l), m)
    BY <1>2 DEF RegistersOK, Peak, Terms, OfLane, Lane, Lanes
  <2>1. LET m == Peak(score, Seen(c))
        IN  /\ rS_max[c][l] = m
            /\ rO[c][l] = Terms(score, Seen(c), m)
            /\ rS_sum[c][l] = Terms(score, OfLane(Seen(c), l), m)
    BY DEF SoftmaxInv, RegistersOK
  <2> QED
    BY <1>1, <1>2, <2>1
<1> QED
  BY <1>2, <1>3, <1>4, <1>5

LEMMA NormalizeAloneStep ==
  ASSUME SoftmaxInv, NEW n \in Columns, NormalizeAlone(n)
  PROVE  SoftmaxInv'
<1>1. /\ pc[n] = "stats" /\ WARPS_N = 1
      /\ UNCHANGED <<shape, row, score, i, registers>>
      /\ pc' = [pc EXCEPT ![n] = "done"] /\ row_stats' = row_stats
      /\ result' = [result EXCEPT ![n] =
           [l \in Lanes |-> Normalised(rO[n][l], LaneSum(n)[l])]]
  BY DEF NormalizeAlone
<1>2. pc \in [Columns -> Operations] /\ DOMAIN result = Columns
        /\ DOMAIN row_stats = Columns
  BY DEF SoftmaxInv, SoftmaxTypes, Operations
<1>3. /\ pc' \in [Columns -> Operations]
      /\ DOMAIN row_stats' = Columns /\ DOMAIN result' = Columns
      /\ \A c \in Columns : pc'[c] = "block" <=> pc[c] = "block"
  BY <1>1, <1>2 DEF Operations
<1>4. /\ SoftmaxTypes' /\ LoopOK' /\ RegistersOK'
      /\ Columns' = Columns /\ WARPS_N' = WARPS_N /\ AllSeen' = AllSeen
      /\ \A c \in Columns : Seen(c)' = Seen(c)
  BY <1>1, <1>3, AfterLoop
<1>5. score' = score
  BY <1>1
<1>6. StagesOK'
  BY <1>1, <1>2, <1>4 DEF SoftmaxInv, StagesOK
<1>7. StatsOK'
  BY <1>1, <1>4 DEF StatsOK
<1>8. ResultsOK'
  <2> SUFFICES ASSUME NEW c \in Columns, NEW l \in Lanes
               PROVE  result'[c][l] =
                        LET m == Peak(score, AllSeen)
                        IN  [num |-> Terms(score, Seen(c), m),
                             den |-> Terms(score, AllSeen, m)]
    BY <1>4, <1>5 DEF ResultsOK, Peak, Terms, Lanes
  <2>1. c = n
    BY <1>1 DEF Columns
  <2>2. result'[n][l] = Normalised(rO[n][l], LaneSum(n)[l])
    BY <1>1, <1>2
  <2> QED
    BY <1>1, <2>1, <2>2, OutputAlone
<1> QED
  BY <1>4, <1>6, <1>7, <1>8 DEF SoftmaxInv

LEMMA PublishStep ==
  ASSUME SoftmaxInv, NEW n \in Columns, Publish(n)
  PROVE  SoftmaxInv'
<1>1. /\ pc[n] = "stats" /\ WARPS_N > 1
      /\ UNCHANGED <<shape, row, score, i, registers>>
      /\ pc' = [pc EXCEPT ![n] = "bar"] /\ result' = result
      /\ row_stats' = [row_stats EXCEPT ![n] =
           [max |-> rS_max[n][0], sum |-> LaneSum(n)[0]]]
  BY DEF Publish
<1>2. pc \in [Columns -> Operations] /\ DOMAIN result = Columns
        /\ DOMAIN row_stats = Columns
  BY DEF SoftmaxInv, SoftmaxTypes, Operations
<1>3. /\ pc' \in [Columns -> Operations]
      /\ DOMAIN row_stats' = Columns /\ DOMAIN result' = Columns
      /\ \A c \in Columns : pc'[c] = "block" <=> pc[c] = "block"
  BY <1>1, <1>2 DEF Operations
<1>4. /\ SoftmaxTypes' /\ LoopOK' /\ RegistersOK'
      /\ Columns' = Columns /\ WARPS_N' = WARPS_N /\ AllSeen' = AllSeen
      /\ \A c \in Columns : Seen(c)' = Seen(c)
  BY <1>1, <1>3, AfterLoop
<1>5. score' = score /\ WARPS_N # 1
  BY <1>1
<1>6. \A c \in Columns : pc[c] \notin {"normalize", "done"}
  BY <1>1 DEF SoftmaxInv, StagesOK
<1>7. \A c \in Columns : pc'[c] \notin {"normalize", "done"}
  BY <1>1, <1>2, <1>6
<1>8. StagesOK'
  BY <1>4, <1>5, <1>7 DEF StagesOK
<1>9. StatsOK'
  <2> SUFFICES ASSUME NEW c \in Columns, pc'[c] \in {"bar", "normalize", "done"}
               PROVE  row_stats'[c] =
                        LET m == Peak(score, Seen(c))
                        IN  [max |-> m, sum |-> Terms(score, Seen(c), m)]
    BY <1>4, <1>5 DEF StatsOK, Peak, Terms
  <2>1. CASE c = n
    <3>1. 0 \in Lanes
      BY DEF Lanes
    <3>2. rS_max[n][0] = PeakSeen(n)
      BY <3>1 DEF SoftmaxInv, RegistersOK, PeakSeen
    <3>3. LaneSum(n)[0] = Terms(score, Seen(n), PeakSeen(n))
      BY <3>1, LaneSumIs
    <3> QED
      BY <1>1, <1>2, <2>1, <3>2, <3>3 DEF PeakSeen
  <2>2. CASE c # n
    <3>1. row_stats'[c] = row_stats[c] /\ pc'[c] = pc[c]
      BY <1>1, <1>2, <2>2
    <3> QED
      BY <1>1, <3>1 DEF SoftmaxInv, StatsOK
  <2> QED
    BY <2>1, <2>2
<1>10. ResultsOK'
  BY <1>4, <1>7 DEF ResultsOK
<1> QED
  BY <1>4, <1>8, <1>9, <1>10 DEF SoftmaxInv

LEMMA BarSyncStep ==
  ASSUME SoftmaxInv, BarSync
  PROVE  SoftmaxInv'
<1>1. /\ \A c \in Columns : pc[c] = "bar"
      /\ UNCHANGED <<shape, row, score, i, registers, row_stats, result>>
      /\ pc' = [c \in Columns |-> "normalize"]
  BY DEF BarSync
<1>2. DOMAIN result = Columns /\ DOMAIN row_stats = Columns
  BY DEF SoftmaxInv, SoftmaxTypes
<1>3. /\ pc' \in [Columns -> Operations]
      /\ DOMAIN row_stats' = Columns /\ DOMAIN result' = Columns
      /\ \A c \in Columns : pc'[c] = "block" <=> pc[c] = "block"
  BY <1>1, <1>2 DEF Operations
<1>4. /\ SoftmaxTypes' /\ LoopOK' /\ RegistersOK'
      /\ Columns' = Columns /\ WARPS_N' = WARPS_N /\ AllSeen' = AllSeen
      /\ \A c \in Columns : Seen(c)' = Seen(c)
  BY <1>1, <1>3, AfterLoop
<1>5. score' = score /\ row_stats' = row_stats
  BY <1>1
<1>6. WARPS_N # 1
  <2> SUFFICES ASSUME WARPS_N = 1 PROVE FALSE
    OBVIOUS
  <2>1. 0 \in Columns
    BY DEF Columns
  <2> QED
    BY <1>1, <2>1 DEF SoftmaxInv, StagesOK
<1>7. StagesOK'
  BY <1>1, <1>4, <1>6 DEF StagesOK
<1>8. StatsOK'
  BY <1>1, <1>4, <1>5 DEF SoftmaxInv, StatsOK, Peak, Terms
<1>9. ResultsOK'
  BY <1>1, <1>4 DEF ResultsOK
<1> QED
  BY <1>4, <1>7, <1>8, <1>9 DEF SoftmaxInv

LEMMA NormalizeStep ==
  ASSUME SoftmaxInv, NEW n \in Columns, Normalize(n)
  PROVE  SoftmaxInv'
<1>1. /\ pc[n] = "normalize"
      /\ UNCHANGED <<shape, row, score, i, registers, row_stats>>
      /\ pc' = [pc EXCEPT ![n] = "done"]
      /\ result' = [result EXCEPT ![n] =
           [l \in Lanes |->
              Normalised(Scaled(rO[n][l], partial_scale(rS_max[n][l])),
                         global_sum)]]
  BY DEF Normalize
<1>2. pc \in [Columns -> Operations] /\ DOMAIN result = Columns
        /\ DOMAIN row_stats = Columns
  BY DEF SoftmaxInv, SoftmaxTypes, Operations
<1>3. /\ pc' \in [Columns -> Operations]
      /\ DOMAIN row_stats' = Columns /\ DOMAIN result' = Columns
      /\ \A c \in Columns : pc'[c] = "block" <=> pc[c] = "block"
  BY <1>1, <1>2 DEF Operations
<1>4. /\ SoftmaxTypes' /\ LoopOK' /\ RegistersOK'
      /\ Columns' = Columns /\ WARPS_N' = WARPS_N /\ AllSeen' = AllSeen
      /\ \A c \in Columns : Seen(c)' = Seen(c)
  BY <1>1, <1>3, AfterLoop
<1>5. score' = score /\ row_stats' = row_stats
  BY <1>1
<1>6. WARPS_N > 1
  <2>1. WARPS_N \in Nat \ {0}
    BY ShapeFacts DEF SoftmaxInv, SoftmaxTypes
  <2>2. WARPS_N # 1
    BY <1>1 DEF SoftmaxInv, StagesOK
  <2> QED
    BY <2>1, <2>2
<1>7. \A c \in Columns : pc[c] \in {"normalize", "done"}
  BY <1>1, <1>6 DEF SoftmaxInv, StagesOK
<1>8. \A c \in Columns : pc'[c] \in {"normalize", "done"}
  BY <1>1, <1>2, <1>7
<1>9. StagesOK'
  BY <1>4, <1>6, <1>8 DEF StagesOK
<1>10. StatsOK'
  BY <1>4, <1>5, <1>6, <1>7 DEF SoftmaxInv, StatsOK, Peak, Terms
<1>11. ResultsOK'
  <2> SUFFICES ASSUME NEW c \in Columns, NEW l \in Lanes, pc'[c] = "done"
               PROVE  LET m == Peak(score', AllSeen')
                      IN  result'[c][l] =
                            [num |-> Terms(score', Seen(c)', m),
                             den |-> Terms(score', AllSeen', m)]
    BY <1>4 DEF ResultsOK, Peak, Terms, Lanes
  <2> SUFFICES result'[c][l] = LET m == Peak(score, AllSeen)
                               IN  [num |-> Terms(score, Seen(c), m),
                                    den |-> Terms(score, AllSeen, m)]
    BY <1>4, <1>5
  <2>1. CASE c = n
    <3>1. result'[n][l] =
            Normalised(Scaled(rO[n][l], partial_scale(rS_max[n][l])), global_sum)
      BY <1>1, <1>2
    <3> QED
      BY <1>6, <1>7, <2>1, <3>1, OutputOfLane
  <2>2. CASE c # n
    <3>1. result'[c] = result[c] /\ pc[c] = "done"
      BY <1>1, <1>2, <2>2
    <3> QED
      BY <3>1 DEF SoftmaxInv, ResultsOK
  <2> QED
    BY <2>1, <2>2
<1> QED
  BY <1>4, <1>9, <1>10, <1>11 DEF SoftmaxInv

-----------------------------------------------------------------------------
(* The head of the loop over the tiles.                                    *)

LEMMA InitInv == Init => SoftmaxInv
<1> SUFFICES ASSUME Init PROVE SoftmaxInv
  OBVIOUS
<1>1. /\ shape \in Shapes /\ row \in Keys
      /\ score = [k \in Keys |-> NegInf]
      /\ pc = [n \in Columns |-> "block"] /\ i = [n \in Columns |-> 0]
      /\ rS_max = ClearedMax /\ rS_sum = ClearedTerms /\ rO = ClearedTerms
      /\ row_stats = [n \in Columns |-> NaN]
      /\ result = [n \in Columns |-> NaN]
  BY ShapeFacts DEF Init
<1>2. \A n \in Columns : Seen(n) = {}
  <2>1. \A n \in Columns : 0 .. i[n] - 1 = {}
    BY <1>1
  <2> QED
    BY <2>1 DEF Seen
<1>3. k_blocks \in Nat \ {0}
  <2>1. 0 \in Keys /\ Attended(0)
    BY <1>1, KeysFinite DEF Attended
  <2>2. k_blocks \in Nat /\ 0 < k_blocks * kBlockN /\ kBlockN \in Nat \ {0}
    BY <1>1, <2>1, BlockSizes, ShapeFacts
  <2>3. k_blocks # 0
    BY <2>2
  <2> QED
    BY <2>2, <2>3
<1>4. SoftmaxTypes
  BY <1>1 DEF SoftmaxTypes, ClearedMax, ClearedTerms
<1>5. LoopOK
  BY <1>1, <1>2, <1>3 DEF LoopOK
<1>6. RegistersOK
  <2>1. Peak(score, {}) = NegInf
    BY PeakUnique
  <2>2. \A m : Terms(score, {}, m) = ZeroTerms
    BY <1>1 DEF Terms, ZeroTerms
  <2>3. \A l : OfLane({}, l) = {}
    BY DEF OfLane
  <2> QED
    BY <1>1, <1>2, <2>1, <2>2, <2>3
       DEF RegistersOK, ClearedMax, ClearedTerms
<1>7. StagesOK /\ StatsOK /\ ResultsOK
  BY <1>1 DEF StagesOK, StatsOK, ResultsOK
<1> QED
  BY <1>4, <1>5, <1>6, <1>7 DEF SoftmaxInv

\* Everything is cleared again for the next tile.
LEMMA NextTileStep ==
  ASSUME SoftmaxInv, NextTile
  PROVE  SoftmaxInv'
<1>1. shape' = shape /\ shape \in Shapes
  BY DEF NextTile, SoftmaxInv, SoftmaxTypes
<1>2. /\ Keys' = Keys /\ Columns' = Columns /\ Rows' = Rows
      /\ Lanes' = Lanes
  BY <1>1 DEF Keys, Columns, Rows, SeqLen, WARPS_N, Lanes
<1>3. /\ ZeroTerms' = ZeroTerms /\ ClearedMax' = ClearedMax
      /\ ClearedTerms' = ClearedTerms
  BY <1>2 DEF ZeroTerms, ClearedMax, ClearedTerms
<1>4. Init'
  BY <1>1, <1>2, <1>3 DEF Init, NextTile
<1>5. Init' => SoftmaxInv'
  BY InitInv, PTL
<1> QED
  BY <1>4, <1>5

LEMMA NextInv == SoftmaxInv /\ [Next]_vars => SoftmaxInv'
<1> SUFFICES ASSUME SoftmaxInv, [Next]_vars PROVE SoftmaxInv'
  OBVIOUS
<1>1. CASE \E n \in Columns : Block(n)
  BY <1>1, BlockStep
<1>2. CASE \E n \in Columns : NormalizeAlone(n)
  BY <1>2, NormalizeAloneStep
<1>3. CASE \E n \in Columns : Publish(n)
  BY <1>3, PublishStep
<1>4. CASE \E n \in Columns : Normalize(n)
  BY <1>4, NormalizeStep
<1>5. CASE BarSync
  BY <1>5, BarSyncStep
<1>6. CASE NextTile
  BY <1>6, NextTileStep
<1>7. CASE UNCHANGED vars
  <2>1. /\ UNCHANGED <<shape, row, score, i, registers>>
        /\ pc' = pc /\ row_stats' = row_stats /\ result' = result
    BY <1>7 DEF vars
  <2>2. /\ pc \in [Columns -> Operations]
        /\ DOMAIN row_stats = Columns /\ DOMAIN result = Columns
    BY DEF SoftmaxInv, SoftmaxTypes, Operations
  <2>3. /\ SoftmaxTypes' /\ LoopOK' /\ RegistersOK'
        /\ Columns' = Columns /\ WARPS_N' = WARPS_N /\ AllSeen' = AllSeen
        /\ \A n \in Columns : Seen(n)' = Seen(n)
    BY <2>1, <2>2, AfterLoop
  <2>4. StagesOK'
    BY <2>1, <2>3 DEF SoftmaxInv, StagesOK
  <2>5. StatsOK'
    BY <2>1, <2>3 DEF SoftmaxInv, StatsOK, Peak, Terms
  <2>6. ResultsOK'
    BY <2>1, <2>3 DEF SoftmaxInv, ResultsOK, Peak, Terms, Lanes
  <2> QED
    BY <2>3, <2>4, <2>5, <2>6 DEF SoftmaxInv
<1> QED
  BY <1>1, <1>2, <1>3, <1>4, <1>5, <1>6, <1>7 DEF Next

\* The inductive invariant holds in every behaviour of the row.
THEOREM SoftmaxInvariant == Spec => []SoftmaxInv
<1> QED
  BY InitInv, NextInv, PTL DEF Spec

LEMMA ResultIs ==
  ASSUME SoftmaxInv, NEW n \in Columns, NEW l \in Lanes, pc[n] = "done"
  PROVE  LET m == Peak(score, AllSeen)
         IN  /\ result[n][l].num = Terms(score, Seen(n), m)
             /\ result[n][l].den = Terms(score, AllSeen, m)
<1>1. LET m == Peak(score, AllSeen)
      IN  result[n][l] = [num |-> Terms(score, Seen(n), m),
                          den |-> Terms(score, AllSeen, m)]
  BY DEF SoftmaxInv, ResultsOK
<1> QED
  BY <1>1

\* The columns added up are the weights of all keys the row attends to.
LEMMA OutputIs ==
  ASSUME SoftmaxInv, Done, NEW l \in Lanes
  PROVE  Output(l) = Terms(score, AllSeen, Peak(score, AllSeen))
<1> DEFINE top == Peak(score, AllSeen)
           f == [n \in Columns |-> result[n][l].num]
           Rec(u) == [n \in 0 .. WARPS_N |->
                        IF n = 0 THEN ZeroTerms
                                 ELSE Add(u[n - 1], result[n - 1][l].num)]
           u == CHOOSE x : x = Rec(x)
<1>1. \A n \in Columns : f[n] = Terms(score, Seen(n), top)
  BY ResultIs DEF Done
<1>2. /\ \A n \in Columns : pc[n] # "block"
      /\ top \in Int
  BY ColumnsCover DEF Done
<1>3. \A x : Rec(x) = Summed(x, f)
  <2>1. WARPS_N \in Nat
    BY ShapeFacts DEF SoftmaxInv, SoftmaxTypes
  <2>2. \A n \in 0 .. WARPS_N : n # 0 => f[n - 1] = result[n - 1][l].num
    BY <2>1 DEF Columns
  <2> HIDE DEF f
  <2> QED
    BY <2>2 DEF Summed
<1>4. Output(l) = u[WARPS_N]
  BY DEF Output
<1> HIDE DEF f, top, Rec
<1>5. /\ \E x : x = Summed(x, f)
      /\ \A x : x = Summed(x, f) => x[WARPS_N] = Terms(score, AllSeen, top)
  BY <1>1, <1>2, ColumnsSum
<1>6. u = Rec(u)
  BY <1>3, <1>5
<1> QED
  BY <1>3, <1>4, <1>5, <1>6 DEF top

-----------------------------------------------------------------------------
(* What the runs check.                                                    *)

\* After any number of blocks, whatever their size and the number of columns,
\* every lane of a column has the maximum of the unmasked scores seen, and
\* every unmasked key has its weight relative to that maximum in the output
\* and in the sum of one lane (softmax_rescale).
THEOREM RunningSoftmaxHolds == Spec => []RunningSoftmax
<1>1. SoftmaxInv => RunningSoftmax
  <2> SUFFICES ASSUME SoftmaxInv, NEW n \in Columns, NEW l \in Lanes
               PROVE  LET m == Peak(score, Seen(n))
                      IN  /\ rS_max[n][l] = m
                          /\ \A k \in Keys :
                               /\ rO[n][l][k] =
                                    IF k \in Seen(n) THEN Minus(score[k], m)
                                                     ELSE NegInf
                               /\ rS_sum[n][l][k] =
                                    IF k \in Seen(n) /\ Lane(k) = l
                                    THEN Minus(score[k], m) ELSE NegInf
    BY DEF RunningSoftmax, Peak
  <2>1. DOMAIN score = Keys
    BY DEF SoftmaxInv, SoftmaxTypes
  <2>2. LET m == Peak(score, Seen(n))
        IN  /\ rS_max[n][l] = m
            /\ rO[n][l] = Terms(score, Seen(n), m)
            /\ rS_sum[n][l] = Terms(score, OfLane(Seen(n), l), m)
    BY DEF SoftmaxInv, RegistersOK
  <2> QED
    BY <2>1, <2>2 DEF Terms, OfLane
<1> QED
  BY <1>1, SoftmaxInvariant, PTL

\* When the row is done, the weights of the keys over the divisor are the
\* softmax of the scores: exactly the keys the row attends to have a weight,
\* and the divisor is not zero, whatever the blocks, the number of warp columns
\* and the columns that are masked completely (normalize_stats).
THEOREM SoftmaxWhenDoneHolds == Spec => []SoftmaxWhenDone
<1>1. SoftmaxInv => SoftmaxWhenDone
  <2> SUFFICES ASSUME SoftmaxInv, Done, NEW n \in Columns, NEW l \in Lanes
               PROVE  /\ result[n][l].den # << >>
                      /\ \A k \in Keys :
                           ~ Attended(k) =>
                             Output(l)[k] = NegInf /\ result[n][l].den[k] = NegInf
                      /\ \A j, k \in {x \in Keys : Attended(x)} :
                           Minus(Output(l)[k], result[n][l].den[j])
                             = Minus(score[k], score[j])
    BY DEF SoftmaxWhenDone
  <2> DEFINE top == Peak(score, AllSeen)
             all == Terms(score, AllSeen, top)
  <2>1. DOMAIN score = Keys
    BY DEF SoftmaxInv, SoftmaxTypes
  <2>2. \A x \in Columns : pc[x] # "block"
    BY DEF Done
  <2>3. /\ \A k \in AllSeen : score[k] \in Int
        /\ top \in Int
    BY <2>2, ColumnsCover, ValueAssumption
  <2>4. all # << >>
    BY <2>2, NotZero
  <2>5. result[n][l].den = all
    BY ResultIs DEF Done
  <2>6. Output(l) = all
    BY OutputIs
  <2>7. \A k \in Keys : ~ Attended(k) => all[k] = NegInf
    BY <2>1 DEF Terms, AllSeen
  <2>8. \A k \in AllSeen : all[k] = Minus(score[k], top)
    BY <2>1 DEF Terms, AllSeen
  <2> HIDE DEF top, all
  <2>9. ASSUME NEW j \in AllSeen, NEW k \in AllSeen
        PROVE  Minus(all[k], all[j]) = Minus(score[k], score[j])
    <3>1. all[k] = score[k] - top /\ all[j] = score[j] - top
      BY <2>3, <2>8, WeightFacts
    <3>2. all[k] \in Int /\ all[j] \in Int
      BY <2>3, <3>1
    <3>3. /\ Minus(all[k], all[j]) = all[k] - all[j]
          /\ Minus(score[k], score[j]) = score[k] - score[j]
      BY <2>3, <3>2, WeightFacts
    <3> QED
      BY <2>3, <3>1, <3>3
  <2> QED
    BY <2>4, <2>5, <2>6, <2>7, <2>9 DEF AllSeen
<1> QED
  BY <1>1, SoftmaxInvariant, PTL
===============================================================================
