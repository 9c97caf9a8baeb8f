------------------------ MODULE FlashDispatch_proofs ------------------------
(***************************************************************************)
(* From a build of the flash extension to a launch: for every limit of the *)
(* shared memory, every set of configurations that builds and every call,  *)
(* what is launched satisfies what the kernels assume.                     *)
(***************************************************************************)
EXTENDS FlashDispatch, EuclideanDivision, FiniteSetTheorems,
        FunctionTheorems, SequenceTheorems, TLAPS

-----------------------------------------------------------------------------
(* Order.                                                                  *)

Below(S, R, x) == {y \in S : <<y, x>> \in R}

\* In a finite total order every rank is the rank of an element.
LEMMA RanksCover ==
  ASSUME NEW S, IsFiniteSet(S), NEW R,
         \A x \in S : <<x, x>> \notin R,
         \A x, y \in S : x # y => <<x, y>> \in R \/ <<y, x>> \in R,
         \A x, y, z \in S : <<x, y>> \in R /\ <<y, z>> \in R => <<x, z>> \in R,
         NEW k \in 0 .. Cardinality(S) - 1
  PROVE  \E x \in S : Cardinality(Below(S, R, x)) = k
<1> DEFINE n == Cardinality(S)
           T == 0 .. n - 1
           f == [x \in S |-> Cardinality(Below(S, R, x))]
<1>1. n \in Nat
  BY FS_CardinalityType
<1>2. ASSUME NEW x \in S
      PROVE  /\ IsFiniteSet(Below(S, R, x))
             /\ Cardinality(Below(S, R, x)) \in T
  <2>1. Below(S, R, x) \subseteq S /\ Below(S, R, x) # S
    BY DEF Below
  <2>2. /\ IsFiniteSet(Below(S, R, x)) /\ Cardinality(Below(S, R, x)) <= n
        /\ Cardinality(Below(S, R, x)) # n
    BY <2>1, FS_Subset
  <2>3. Cardinality(Below(S, R, x)) \in Nat
    BY <2>2, FS_CardinalityType
  <2> QED
    BY <1>1, <2>2, <2>3
<1>3. ASSUME NEW x \in S, NEW y \in S, <<x, y>> \in R
      PROVE  f[x] # f[y]
  <2>1. /\ Below(S, R, x) \subseteq Below(S, R, y)
        /\ x \in Below(S, R, y) /\ x \notin Below(S, R, x)
    BY <1>3 DEF Below
  <2>2. IsFiniteSet(Below(S, R, y))
    BY <1>2
  <2>3. Cardinality(Below(S, R, x)) # Cardinality(Below(S, R, y))
    BY <2>1, <2>2, FS_Subset
  <2> QED
    BY <2>3
<1>4. f \in Injection(S, T)
  <2>1. f \in [S -> T]
    BY <1>2
  <2>2. \A x, y \in S : f[x] = f[y] => x = y
    BY <1>3
  <2> QED
    BY <2>1, <2>2 DEF Injection, IsInjective
<1>5. IsFiniteSet(T) /\ Cardinality(T) = n
  BY <1>1, FS_Interval
<1> HIDE DEF f, T, n
<1>6. f \in Surjection(S, T)
  BY <1>4, <1>5, FS_Injection DEF n
<1>7. PICK x \in S : f[x] = k
  BY <1>6 DEF Surjection, T, n
<1> QED
  BY <1>7 DEF f

LEMMA SmallestOf ==
  ASSUME NEW n \in Nat, NEW S \in SUBSET (1 .. n), S # {}
  PROVE  \E i \in S : \A j \in S : i <= j
<1> DEFINE R == {p \in S \X S : p[1] < p[2]}
<1>1. IsFiniteSet(S)
  <2>1. IsFiniteSet(1 .. n)
    BY FS_Interval
  <2> QED
    BY <2>1, FS_Subset
<1>2. 0 \in 0 .. Cardinality(S) - 1
  <2>1. Cardinality(S) \in Nat /\ Cardinality(S) # 0
    BY <1>1, FS_CardinalityType, FS_EmptySet
  <2> QED
    BY <2>1
<1>3. \A x, y \in S : <<x, y>> \in R <=> x < y
  OBVIOUS
<1> HIDE DEF R
<1>4. /\ \A x \in S : <<x, x>> \notin R
      /\ \A x, y \in S : x # y => <<x, y>> \in R \/ <<y, x>> \in R
      /\ \A x, y, z \in S :
           <<x, y>> \in R /\ <<y, z>> \in R => <<x, z>> \in R
  BY <1>3
<1>5. \E x \in S : Cardinality(Below(S, R, x)) = 0
  BY <1>1, <1>2, <1>4, RanksCover
<1>6. PICK x \in S : Cardinality(Below(S, R, x)) = 0
  BY <1>5
<1>7. Below(S, R, x) = {}
  <2>1. IsFiniteSet(Below(S, R, x))
    BY <1>1, FS_Subset DEF Below
  <2> QED
    BY <1>6, <2>1, FS_EmptySet
<1>8. \A y \in S : ~ (y < x)
  BY <1>3, <1>7 DEF Below
<1> QED
  BY <1>8

-----------------------------------------------------------------------------
(* Configurations.                                                         *)

Configs ==
  [head_dim : HEAD_DIM_VALUES, block_m : Nat, block_n : Nat, warps_m : Nat,
   warps_n : Nat]
Valid(v) == {c \in Configs : is_valid_config(v, c)}

LEMMA ListedFacts ==
  ASSUME NEW v \in {OneColumn, Columns}, NEW c \in Listed(v)
  PROVE  /\ c \in Valid(v)
         /\ c.head_dim \in {64, 128} /\ c.block_m \in {32, 64, 128, 256}
         /\ c.block_n \in {32, 64, 128}
         /\ IF v = Columns
            THEN c.warps_m = c.block_m \div 16 /\ c.warps_m * c.warps_n = 8
            ELSE c.warps_m = 8 /\ c.warps_n = 1
<1>1. /\ c \in [head_dim : HEAD_DIM_VALUES, block_m : {32, 64, 128, 256},
                block_n : {32, 64, 128}, warps_m : 1 .. 8, warps_n : 1 .. 8]
      /\ v = Columns => \E r \in WARP_RANGE : c.block_n = c.warps_n * r
      /\ is_valid_config(v, c)
  BY DEF Listed
<1>2. c \in Valid(v)
  BY <1>1 DEF Valid, Configs
<1>3. ASSUME v = Columns
      PROVE  c.warps_m = c.block_m \div 16 /\ c.warps_m * c.warps_n = 8
  <2>1. /\ c.block_m = 16 * c.warps_m /\ c.warps_m * c.warps_n \in 5 .. 8
        /\ c.warps_m \in 1 .. 8 /\ c.warps_n \in 1 .. 8
    BY <1>1, <1>3 DEF is_valid_config
  <2>2. c.warps_m \in {2, 4, 8} /\ c.warps_m = c.block_m \div 16
    BY <1>1, <2>1
  <2>3. c.warps_n \in {1, 2, 4, 8}
    <3>1. PICK r \in WARP_RANGE : c.block_n = c.warps_n * r
      BY <1>1, <1>3
    <3>2. r \in {16, 32, 64} /\ c.block_n \in {32, 64, 128}
      BY <1>1 DEF WARP_RANGE
    <3> QED
      BY <2>1, <3>1, <3>2
  <2> QED
    BY <2>1, <2>2, <2>3
<1>4. v # Columns => c.warps_m = 8 /\ c.warps_n = 1
  BY <1>1 DEF is_valid_config
<1> QED
  BY <1>1, <1>2, <1>3, <1>4 DEF HEAD_DIM_VALUES

\* The block shape of a listed configuration determines it.
LEMMA ListedDiffer ==
  ASSUME NEW v \in {OneColumn, Columns}, NEW c \in Listed(v),
         NEW d \in Listed(v), c.head_dim = d.head_dim,
         c.block_m = d.block_m, c.block_n = d.block_n
  PROVE  c = d
<1>1. /\ c \in Configs /\ d \in Configs
      /\ c.warps_m \in Nat /\ d.warps_m \in Nat
      /\ c.warps_n \in Nat /\ d.warps_n \in Nat
  BY ListedFacts DEF Valid, Configs
<1>2. c.warps_m = d.warps_m
  BY ListedFacts
<1>3. c.warps_n = d.warps_n
  <2>1. CASE v = Columns
    <3>1. /\ c.warps_m * c.warps_n = 8 /\ c.warps_m * d.warps_n = 8
          /\ c.warps_m \in {2, 4, 8, 16}
      BY <1>2, <2>1, ListedFacts
    <3> QED
      BY <1>1, <3>1
  <2>2. CASE v # Columns
    BY <2>2, ListedFacts
  <2> QED
    BY <2>1, <2>2
<1> QED
  BY <1>1, <1>2, <1>3 DEF Configs

LEMMA ListedFinite ==
  ASSUME NEW v \in {OneColumn, Columns}
  PROVE  IsFiniteSet(Listed(v))
<1> DEFINE S == Listed(v)
           I == 0 .. 256
           T == I \X (I \X I)
           f == [c \in S |-> <<c.head_dim, <<c.block_m, c.block_n>> >>]
<1>1. f \in [S -> T]
  <2>1. \A c \in S : c.head_dim \in I /\ c.block_m \in I /\ c.block_n \in I
    BY ListedFacts
  <2> HIDE DEF I
  <2> QED
    BY <2>1
<1>2. ASSUME NEW c \in S, NEW d \in S, f[c] = f[d]
      PROVE  c = d
  <2>1. /\ c.head_dim = d.head_dim /\ c.block_m = d.block_m
        /\ c.block_n = d.block_n
    BY <1>2
  <2> QED
    BY <2>1, ListedDiffer
<1>3. f \in Injection(S, T)
  BY <1>1, <1>2 DEF Injection, IsInjective
<1>4. IsFiniteSet(T)
  <2>1. IsFiniteSet(I)
    <3>1. 0 \in Int /\ 256 \in Int
      OBVIOUS
    <3> QED
      BY <3>1, FS_Interval
  <2> HIDE DEF I
  <2>2. IsFiniteSet(I \X I)
    BY <2>1, FS_Product
  <2> QED
    BY <2>1, <2>2, FS_Product
<1> HIDE DEF f, T
<1> QED
  BY <1>3, <1>4, FS_Injection

\* The loops of default_configs generate valid configurations.
LEMMA DefaultsValid ==
  ASSUME NEW v \in {OneColumn, Columns}
  PROVE  default_configs(v) \in Seq(Valid(v))
<1> DEFINE S == Listed(v)
           R == {p \in S \X S : Earlier(p[1], p[2])}
<1>1. IsFiniteSet(S) /\ Cardinality(S) \in Nat
  BY ListedFinite, FS_CardinalityType
<1>2. \A x, y \in S : <<x, y>> \in R <=> Earlier(x, y)
  OBVIOUS
<1>3. \A c \in S : c.head_dim \in Nat /\ c.block_m \in Nat /\ c.block_n \in Nat
  BY ListedFacts
<1> HIDE DEF R
<1>4. \A x \in S : <<x, x>> \notin R
  BY <1>2, <1>3 DEF Earlier
<1>5. \A x, y \in S : x # y => <<x, y>> \in R \/ <<y, x>> \in R
  BY <1>2, <1>3, ListedDiffer DEF Earlier
<1>6. \A x, y, z \in S : <<x, y>> \in R /\ <<y, z>> \in R => <<x, z>> \in R
  BY <1>2, <1>3 DEF Earlier
<1>7. ASSUME NEW i \in 1 .. Cardinality(S)
      PROVE  \E c \in S : Cardinality({d \in S : Earlier(d, c)}) = i - 1
  <2>1. i - 1 \in 0 .. Cardinality(S) - 1
    BY <1>1
  <2>2. PICK c \in S : Cardinality(Below(S, R, c)) = i - 1
    BY <1>1, <1>4, <1>5, <1>6, <2>1, RanksCover
  <2>3. Below(S, R, c) = {d \in S : Earlier(d, c)}
    BY <1>2 DEF Below
  <2> QED
    BY <2>2, <2>3
<1>8. S \subseteq Valid(v)
  BY ListedFacts
<1>9. ASSUME NEW i \in 1 .. Cardinality(S)
      PROVE  (CHOOSE c \in S : Cardinality({d \in S : Earlier(d, c)}) = i - 1)
               \in Valid(v)
  BY <1>7, <1>8
<1> DEFINE n == Cardinality(S)
           g == default_configs(v)
<1>10. g \in [1 .. n -> Valid(v)]
  BY <1>9 DEF default_configs
<1> HIDE DEF n, g
<1>11. n \in Nat
  BY <1>1 DEF n
<1>12. g \in Seq(Valid(v))
  BY <1>10, <1>11
<1> QED
  BY <1>12 DEF g

-----------------------------------------------------------------------------
(* The size of the shared memory.                                          *)

\* All of Q, K, V and O together are a multiple of 128 bytes.
LEMMA TilesAligned ==
  ASSUME NEW v \in {OneColumn, Columns}, NEW c \in Valid(v)
  PROVE  \E a \in Nat : qkvo_bytes(c) = 128 * a
<1>1. c.block_m \in Nat /\ c.block_n \in Nat /\ c.warps_n \in Nat \ {0}
      /\ c.head_dim \in {64, 128}
  BY DEF Valid, Configs, is_valid_config, HEAD_DIM_VALUES
<1> DEFINE m == c.block_m
           n == c.block_n
           s == AtLeast(c.warps_n - 1, 1)
<1>2. s \in Nat /\ s * m \in Nat /\ s * (2 * m) \in Nat
  <2>1. s \in Nat
    BY <1>1 DEF AtLeast
  <2> HIDE DEF s
  <2> QED
    BY <1>1, <2>1
<1>3. CASE c.head_dim = 64
  <2>1. s * (m * 64) = 64 * (s * m)
    BY <1>1, <1>2
  <2>2. qkvo_bytes(c) = 128 * AtLeast(n + AtLeast(m, n) + n, s * m)
    <3> DEFINE p == s * m
    <3>1. qkvo_bytes(c) =
            2 * AtLeast(n * 64 + AtLeast(m * 64, n * 64) + n * 64, 64 * p)
      BY <1>3, <2>1 DEF qkvo_bytes
    <3> HIDE DEF p
    <3> QED
      BY <1>1, <1>2, <3>1 DEF AtLeast, p
  <2>3. AtLeast(n + AtLeast(m, n) + n, s * m) \in Nat
    BY <1>1, <1>2 DEF AtLeast
  <2> QED
    BY <2>2, <2>3
<1>4. CASE c.head_dim = 128
  <2>1. s * (m * 128) = 128 * (s * m)
    BY <1>1, <1>2
  <2>2. qkvo_bytes(c) = 128 * (2 * AtLeast(n + AtLeast(m, n) + n, s * m))
    <3> DEFINE p == s * m
    <3>1. qkvo_bytes(c) =
            2 * AtLeast(n * 128 + AtLeast(m * 128, n * 128) + n * 128, 128 * p)
      BY <1>4, <2>1 DEF qkvo_bytes
    <3> HIDE DEF p
    <3> QED
      BY <1>1, <1>2, <3>1 DEF AtLeast, p
  <2>3. 2 * AtLeast(n + AtLeast(m, n) + n, s * m) \in Nat
    BY <1>1, <1>2 DEF AtLeast
  <2> QED
    BY <2>2, <2>3
<1> QED
  BY <1>1, <1>3, <1>4

\* The statistics of a column are one float or whole rows of 16 floats.
LEMMA StatsSize ==
  ASSUME NEW v \in {OneColumn, Columns}, NEW c \in Valid(v)
  PROVE  \/ row_stats_slots(c) = 1
         \/ \E b \in Nat : row_stats_slots(c) = 16 * b
<1>1. c.block_m \in Nat /\ c.warps_n \in Nat
  BY DEF Valid, Configs
<1>2. c.block_m \div 16 \in Nat
  BY <1>1
<1> DEFINE d == c.block_m \div 16
<1>3. c.warps_n > 1 => row_stats_slots(c) = c.warps_n * d * 16
  BY DEF row_stats_slots
<1> HIDE DEF d
<1>4. c.warps_n * d \in Nat
  BY <1>1, <1>2 DEF d
<1>5. c.warps_n > 1 => row_stats_slots(c) = 16 * (c.warps_n * d)
  BY <1>3, <1>4
<1>6. ~ (c.warps_n > 1) => row_stats_slots(c) = 1
  BY DEF row_stats_slots
<1> QED
  BY <1>4, <1>5, <1>6

\* What the generator computes is sizeof(Storage).
LEMMA SizesAgree ==
  ASSUME NEW v \in {OneColumn, Columns}, NEW c \in Valid(v)
  PROVE  smem_bytes(v, c) = SStorageSize(v, c)
<1>1. PICK a \in Nat : qkvo_bytes(c) = 128 * a
  BY TilesAligned
<1>2. pipeline_storage_bytes(1) = 32 /\ pipeline_storage_bytes(2) = 32
  BY DEF pipeline_storage_bytes, align_up
<1>3. align_up(128 * a, 128) = 128 * a /\ align_up(128 * a, 16) = 128 * a
  BY DEF align_up
<1>4. CASE v = Columns
  <2> DEFINE t == row_stats_slots(c) * 4
  <2>1. smem_bytes(v, c) =
          align_up(128 * a + align_up(t, 128) + align_up(t, 16) + 32 + 32, 128)
    BY <1>1, <1>2, <1>3, <1>4 DEF smem_bytes
  <2>2. SStorageSize(v, c) =
          LET rows == align_up(128 * a + t, 128) + t
          IN  align_up(align_up(align_up(align_up(align_up(rows, 16) + 16, 16)
                + 16, 16) + 8, 16) + 8, 128)
    BY <1>1, <1>3, <1>4 DEF SStorageSize, Behind
  <2>3. CASE row_stats_slots(c) = 1
    BY <2>1, <2>2, <2>3 DEF align_up
  <2>4. CASE \E b \in Nat : row_stats_slots(c) = 16 * b
    <3>1. PICK b \in Nat : t = 64 * b
      BY <2>4
    <3> HIDE DEF t
    <3>2. align_up(t, 16) = 64 * b
      BY <3>1 DEF align_up
    <3>3. PICK e \in Nat : align_up(t, 128) = 128 * e
      BY <3>1 DEF align_up
    <3>4. align_up(128 * a + t, 128) = 128 * a + 128 * e
      BY <3>1, <3>3 DEF align_up
    <3>5. smem_bytes(v, c) =
            align_up(128 * a + 128 * e + 64 * b + 64, 128)
      BY <2>1, <3>2, <3>3
    <3>6. SStorageSize(v, c) =
            align_up(128 * a + 128 * e + 64 * b + 56, 128)
      <4> DEFINE x == 128 * a + 128 * e + 64 * b
      <4>1. align_up(x, 16) = x /\ align_up(x + 16, 16) = x + 16
            /\ align_up(x + 32, 16) = x + 32 /\ align_up(x + 40, 16) = x + 48
        BY DEF align_up
      <4>2. align_up(128 * a + t, 128) + t = x
        BY <3>1, <3>4
      <4>3. SStorageSize(v, c) =
              align_up(align_up(align_up(align_up(align_up(x, 16) + 16, 16)
                + 16, 16) + 8, 16) + 8, 128)
        BY <2>2, <4>2
      <4>4. x \in Nat
        OBVIOUS
      <4> HIDE DEF x
      <4>5. /\ x + 16 + 16 = x + 32 /\ x + 32 + 8 = x + 40
            /\ x + 48 + 8 = x + 56
        BY <4>4
      <4>6. SStorageSize(v, c) = align_up(x + 56, 128)
        BY <4>1, <4>3, <4>5
      <4> QED
        BY <4>6 DEF x
    <3> QED
      BY <3>5, <3>6 DEF align_up
  <2> QED
    BY <2>3, <2>4, StatsSize
<1>5. CASE v # Columns
  <2>1. smem_bytes(v, c) = align_up(128 * a + 64, 128)
    <3>1. align_up(0, 128) = 0 /\ align_up(0, 16) = 0
      BY DEF align_up
    <3> QED
      BY <1>1, <1>2, <1>3, <1>5, <3>1 DEF smem_bytes
  <2>2. SStorageSize(v, c) =
          align_up(align_up(align_up(align_up(align_up(128 * a, 16) + 16, 16)
            + 16, 16) + 8, 16) + 8, 128)
    BY <1>1, <1>5 DEF SStorageSize, Behind
  <2> QED
    BY <2>1, <2>2 DEF align_up
<1> QED
  BY <1>4, <1>5

\* The static_asserts of the traits.
LEMMA ValidFits ==
  ASSUME NEW v \in {OneColumn, Columns}, NEW c \in Valid(v)
  PROVE  /\ c.head_dim % 32 = 0
         /\ c.block_m % (16 * c.warps_m) = 0
         /\ c.block_n % (16 * c.warps_n) = 0
         /\ SStorageSize(v, c) <= MaxSmem
<1>1. /\ c.head_dim % 32 = 0 /\ c.block_n % (16 * c.warps_n) = 0
      /\ smem_bytes(v, c) <= MaxSmem
      /\ c.warps_m \in Nat \ {0}
      /\ IF v = Columns THEN c.block_m = 16 * c.warps_m
                        ELSE c.block_m % (16 * c.warps_m) = 0
  BY DEF Valid, Configs, is_valid_config
<1>2. CASE v = Columns
  <2> DEFINE d == 16 * c.warps_m
  <2>1. d \in Nat \ {0} /\ d * 1 + 0 = d /\ 0 \in 0 .. d - 1 /\ 1 \in Nat
    BY <1>1
  <2> HIDE DEF d
  <2>2. d % d = 0
    BY <2>1, RemainderOf
  <2>3. c.block_m % (16 * c.warps_m) = 0
    BY <1>1, <1>2, <2>2 DEF d
  <2> QED
    BY <1>1, <2>3, SizesAgree
<1>3. CASE v # Columns
  BY <1>1, <1>3, SizesAgree
<1> QED
  BY <1>2, <1>3

-----------------------------------------------------------------------------
(* The choice of a configuration.                                          *)

LEMMA ElementFacts ==
  ASSUME NEW s, NEW V, s \in Seq(V)
  PROVE  /\ DOMAIN s = 1 .. Len(s) /\ Len(s) \in Nat
         /\ \A c \in Elements(s) : c \in V
         /\ \A i \in DOMAIN s : s[i] \in Elements(s)
         /\ s # << >> => 1 \in DOMAIN s
BY DEF Elements

LEMMA FirstFacts ==
  ASSUME NEW V, configs \in Seq(V), NEW hd
  PROVE  /\ \A c \in First(hd) : c \in Elements(configs) /\ c.head_dim = hd
         /\ First(hd) = {} => \A c \in Elements(configs) : c.head_dim # hd
<1> DEFINE match == {i \in DOMAIN configs : configs[i].head_dim = hd}
<1>1. CASE match = {}
  <2>1. First(hd) = {}
    BY <1>1 DEF First
  <2>2. \A c \in Elements(configs) : c.head_dim # hd
    BY <1>1 DEF Elements
  <2> QED
    BY <2>1, <2>2
<1>2. CASE match # {}
  <2> DEFINE k == CHOOSE i \in match : \A j \in match : i <= j
  <2>1. k \in match
    <3>1. match \in SUBSET (1 .. Len(configs)) /\ Len(configs) \in Nat
      BY ElementFacts
    <3> HIDE DEF match
    <3>2. \E i \in match : \A j \in match : i <= j
      BY <1>2, <3>1, SmallestOf
    <3> QED
      BY <3>2
  <2>2. First(hd) = {configs[k]}
    BY <1>2 DEF First
  <2> HIDE DEF k
  <2>3. configs[k] \in Elements(configs) /\ configs[k].head_dim = hd
    BY <2>1, ElementFacts
  <2> QED
    BY <2>2, <2>3
<1> QED
  BY <1>1, <1>2

LEMMA FirstOfThree ==
  ASSUME NEW x, NEW y, NEW z
  PROVE  FirstOf(<<x, y, z>>) =
           IF x # {} THEN x ELSE IF y # {} THEN y ELSE z
<1> DEFINE list == <<x, y, z>>
           some == {i \in DOMAIN list : list[i] # {}}
<1>1. /\ 1 \in some <=> x # {}
      /\ 2 \in some <=> y # {}
      /\ 3 \in some <=> z # {}
      /\ some \subseteq {1, 2, 3}
  OBVIOUS
<1>2. FirstOf(list) = IF some = {} THEN {}
        ELSE list[CHOOSE i \in some : \A j \in some : i <= j]
  BY DEF FirstOf
<1>3. list[1] = x /\ list[2] = y /\ list[3] = z
  OBVIOUS
<1> HIDE DEF list, some
<1>4. CASE x # {}
  <2>1. (CHOOSE i \in some : \A j \in some : i <= j) = 1
    <3>1. 1 \in some /\ \A j \in some : 1 <= j
      BY <1>1, <1>4
    <3>2. \A i \in some : (\A j \in some : i <= j) => i = 1
      BY <1>1, <3>1
    <3> QED
      BY <3>1, <3>2
  <2> QED
    BY <1>1, <1>2, <1>3, <1>4, <2>1 DEF list
<1>5. CASE x = {} /\ y # {}
  <2>1. (CHOOSE i \in some : \A j \in some : i <= j) = 2
    <3>1. 2 \in some /\ \A j \in some : 2 <= j
      BY <1>1, <1>5
    <3>2. \A i \in some : (\A j \in some : i <= j) => i = 2
      BY <1>1, <3>1
    <3> QED
      BY <3>1, <3>2
  <2> QED
    BY <1>1, <1>2, <1>3, <1>5, <2>1 DEF list
<1>6. CASE x = {} /\ y = {} /\ z # {}
  <2>1. some = {3}
    BY <1>1, <1>6
  <2>2. (CHOOSE i \in some : \A j \in some : i <= j) = 3
    BY <2>1
  <2> QED
    BY <1>1, <1>2, <1>3, <1>6, <2>2 DEF list
<1>7. CASE x = {} /\ y = {} /\ z = {}
  <2>1. some = {}
    BY <1>1, <1>7
  <2> QED
    BY <1>2, <1>7, <2>1 DEF list
<1> QED
  BY <1>4, <1>5, <1>6, <1>7

\* fwd takes a configuration for the head dimension whenever there is one.
LEMMA DefaultFacts ==
  ASSUME NEW V, configs \in Seq(V), configs # << >>, NEW hd
  PROVE  /\ \A c \in default_config(hd) :
              c \in Elements(configs) /\ c.head_dim = hd
         /\ default_config(hd) = {} =>
              \A c \in Elements(configs) : c.head_dim # hd
<1> DEFINE x == IF version = Columns THEN {}
                ELSE {c \in {default_name(version, configs)} :
                        c.head_dim = hd}
           y == find_config(preferred(hd))
           z == First(hd)
<1>1. default_config(hd) = IF x # {} THEN x ELSE IF y # {} THEN y ELSE z
  <2>1. default_config(hd) = FirstOf(<<x, y, z>>)
    BY DEF default_config
  <2> HIDE DEF x, y, z
  <2> QED
    BY <2>1, FirstOfThree
<1>2. \A c \in x : c \in Elements(configs) /\ c.head_dim = hd
  <2>1. default_name(version, configs) \in Elements(configs)
    BY ElementFacts DEF default_name
  <2> QED
    BY <2>1
<1>3. \A c \in y : c \in Elements(configs) /\ c.head_dim = hd
  BY DEF find_config, preferred, Name
<1>4. /\ \A c \in z : c \in Elements(configs) /\ c.head_dim = hd
      /\ z = {} => \A c \in Elements(configs) : c.head_dim # hd
  BY FirstFacts
<1> HIDE DEF x, y, z
<1> QED
  BY <1>1, <1>2, <1>3, <1>4

-----------------------------------------------------------------------------
(* The invariant.                                                          *)

Stages ==
  {"build", "failed", "idle", "check", "shape", "run", "launched", "answered",
   "ended"}
Served == {"check", "shape", "run", "launched", "answered"}
Sizes(c) == c.seq_len \in Nat /\ c.batch \in Nat /\ c.head_num \in Nat

\* The configuration that was chosen, as fwd or fwd_config promise.
Chosen ==
  /\ config \in Elements(configs)
  /\ call.kind = "fwd" => config.head_dim = call.head_dim

DispatchInv ==
  /\ version \in {OneColumn, Columns} /\ stage \in Stages
  /\ configs \in Seq(Valid(version))
  /\ stage \notin {"build", "failed"} => configs # << >>
  /\ stage \in Served => Sizes(call)
  /\ stage \in {"build", "failed", "idle", "check"} => config = None
  /\ stage \in {"shape", "run", "launched"} => Chosen
  /\ stage = "run" => ShapeAllowed
  /\ stage \notin {"launched", "answered"} => answer = None
  /\ LaunchIsSound /\ FwdSelectsByHeadDim

\* Without an answer there is nothing but the choice to be right.
LEMMA NoAnswer ==
  ASSUME answer = None, config = None \/ Chosen
  PROVE  LaunchIsSound /\ FwdSelectsByHeadDim
BY DEF None, Chosen, LaunchIsSound, FwdSelectsByHeadDim

LEMMA BuildDefaultStep ==
  ASSUME DispatchInv, BuildDefault
  PROVE  DispatchInv'
<1>1. /\ configs' = default_configs(version)
      /\ stage' = IF configs' = << >> THEN "failed" ELSE "idle"
      /\ UNCHANGED <<version, call, config, answer>> /\ stage = "build"
  BY DEF BuildDefault
<1>2. configs' \in Seq(Valid(version))
  BY <1>1, DefaultsValid DEF DispatchInv
<1>3. answer' = None /\ config' = None
  BY <1>1 DEF DispatchInv, None
<1>4. LaunchIsSound' /\ FwdSelectsByHeadDim'
  BY <1>3 DEF None, LaunchIsSound, FwdSelectsByHeadDim
<1> QED
  BY <1>1, <1>2, <1>3, <1>4 DEF DispatchInv, Stages, Served, None

LEMMA NamesFacts ==
  ASSUME NEW n \in Names(version)
  PROVE  n \in Configs
<1>1. /\ BlockMs \subseteq Nat /\ BlockNs \subseteq Nat /\ WarpNs \subseteq Nat
  BY DispatchAssumption
<1>2. {b \div 16 : b \in BlockMs} \cup {8} \subseteq Nat
  BY <1>1
<1> QED
  BY <1>1, <1>2 DEF Names, Configs

LEMMA BuildOnlyStep ==
  ASSUME DispatchInv, NEW n \in 1 .. MaxNames,
         NEW names \in [1 .. n -> Names(version)], BuildOnly(names)
  PROVE  DispatchInv'
<1>1. /\ stage = "build" /\ Len(names) > 0
      /\ UNCHANGED <<version, call, config, answer>>
      /\ IF \A e \in Elements(names) : is_valid_config(version, e)
         THEN configs' = names /\ stage' = "idle"
         ELSE configs' = << >> /\ stage' = "failed"
  BY DEF BuildOnly
<1>2. configs' \in Seq(Valid(version))
  <2>1. CASE configs' = << >>
    BY <2>1
  <2>2. CASE /\ configs' = names
             /\ \A e \in Elements(names) : is_valid_config(version, e)
    <3>1. \A i \in 1 .. n : names[i] \in Valid(version)
      BY <2>2, NamesFacts DEF Elements, Valid
    <3>2. n \in Nat
      BY DispatchAssumption
    <3> QED
      BY <2>2, <3>1, <3>2
  <2> QED
    BY <1>1, <2>1, <2>2
<1>3. stage' = "idle" => configs' # << >>
  BY <1>1
<1>4. answer' = None /\ config' = None
  BY <1>1 DEF DispatchInv, None
<1>5. LaunchIsSound' /\ FwdSelectsByHeadDim'
  BY <1>4 DEF None, LaunchIsSound, FwdSelectsByHeadDim
<1> QED
  BY <1>1, <1>2, <1>3, <1>4, <1>5 DEF DispatchInv, Stages, Served, None

LEMMA CallStep ==
  ASSUME DispatchInv, NEW c \in Calls, Call(c)
  PROVE  DispatchInv'
<1>1. /\ stage = "idle" /\ call' = c /\ stage' = "check"
      /\ UNCHANGED <<version, configs, config, answer>>
  BY DEF Call
<1>2. Sizes(c)
  BY DispatchAssumption DEF Calls, Sizes
<1>3. answer' = None /\ config' = None
  BY <1>1 DEF DispatchInv
<1>4. LaunchIsSound' /\ FwdSelectsByHeadDim'
  BY <1>3 DEF None, LaunchIsSound, FwdSelectsByHeadDim
<1> QED
  BY <1>1, <1>2, <1>3, <1>4 DEF DispatchInv, Stages, Served

LEMMA SelectStep ==
  ASSUME DispatchInv, Select
  PROVE  DispatchInv'
<1>1. /\ stage = "check" /\ stage' = "shape"
      /\ config' \in (IF call.kind = "fwd" THEN default_config(call.head_dim)
                                           ELSE find_config(call.name))
      /\ UNCHANGED <<version, configs, call, answer>>
  BY DEF Select
<1>2. configs \in Seq(Valid(version)) /\ configs # << >> /\ Sizes(call)
      /\ answer' = None
  BY <1>1 DEF DispatchInv, Served
<1>3. Chosen'
  <2>1. CASE call.kind = "fwd"
    BY <1>1, <1>2, <2>1, DefaultFacts DEF Chosen
  <2>2. CASE call.kind # "fwd"
    BY <1>1, <2>2 DEF Chosen, find_config
  <2> QED
    BY <2>1, <2>2
<1>4. LaunchIsSound' /\ FwdSelectsByHeadDim'
  BY <1>2, <1>3 DEF None, Chosen, LaunchIsSound, FwdSelectsByHeadDim
<1> QED
  BY <1>1, <1>2, <1>3, <1>4 DEF DispatchInv, Stages, Served, Sizes

\* A refusal with one of the reasons fwd may give.
LEMMA RefuseStep ==
  ASSUME DispatchInv, stage \in Served, NEW why, Refuse(why),
         call.kind = "fwd" =>
           \/ why \in {"inputs", "shape", "head_num", "memory", "launch"}
           \/ \A c \in Elements(configs) : c.head_dim # call.head_dim
  PROVE  DispatchInv'
<1>1. /\ answer' = [kind |-> "refused", why |-> why] /\ stage' = "answered"
      /\ UNCHANGED <<version, configs, call, config>>
  BY DEF Refuse, Refused
<1>2. LaunchIsSound' /\ FwdSelectsByHeadDim'
  <2>1. LaunchIsSound'
    BY <1>1 DEF LaunchIsSound
  <2>2. answer'.why = why
    BY <1>1
  <2> QED
    BY <1>1, <2>1, <2>2 DEF DispatchInv, FwdSelectsByHeadDim
<1>3. configs # << >> /\ Sizes(call)
  BY DEF DispatchInv, Served
<1> QED
  BY <1>1, <1>2, <1>3 DEF DispatchInv, Stages, Served, Sizes

LEMMA RefusesStep ==
  ASSUME DispatchInv,
         \/ RefuseInputs \/ RefuseUnbuilt \/ RefuseShape
         \/ RefuseHeadDim \/ RefuseHeadNum \/ OutOfMemory \/ LaunchFails
  PROVE  DispatchInv'
<1>1. CASE RefuseInputs
  BY <1>1, RefuseStep DEF RefuseInputs, Served
<1>2. CASE RefuseUnbuilt
  <2>1. /\ stage = "check" /\ Refuse("unbuilt")
        /\ call.kind = "fwd" => default_config(call.head_dim) = {}
    BY <1>2 DEF RefuseUnbuilt
  <2>2. configs \in Seq(Valid(version)) /\ configs # << >>
    BY <2>1 DEF DispatchInv
  <2>3. call.kind = "fwd" =>
          \A c \in Elements(configs) : c.head_dim # call.head_dim
    BY <2>1, <2>2, DefaultFacts
  <2> QED
    BY <2>1, <2>3, RefuseStep DEF Served
<1>3. CASE RefuseShape
  BY <1>3, RefuseStep DEF RefuseShape, Served
<1>4. CASE RefuseHeadDim
  BY <1>4, RefuseStep DEF RefuseHeadDim, Served, DispatchInv, Chosen
<1>5. CASE RefuseHeadNum
  BY <1>5, RefuseStep DEF RefuseHeadNum, Served
<1>6. CASE OutOfMemory \/ LaunchFails
  BY <1>6, RefuseStep DEF OutOfMemory, LaunchFails, InstanceFound, Served
<1> QED
  BY <1>1, <1>2, <1>3, <1>4, <1>5, <1>6

LEMMA CheckShapeStep ==
  ASSUME DispatchInv, CheckShape
  PROVE  DispatchInv'
<1>1. /\ stage = "shape" /\ ShapeAllowed /\ stage' = "run"
      /\ UNCHANGED <<version, configs, call, config, answer>>
  BY DEF CheckShape
<1>2. Chosen /\ Sizes(call) /\ answer' = None /\ configs # << >>
  BY <1>1 DEF DispatchInv, Served
<1>3. Chosen' /\ ShapeAllowed'
  BY <1>1, <1>2 DEF Chosen, ShapeAllowed
<1>4. LaunchIsSound' /\ FwdSelectsByHeadDim'
  BY <1>2, <1>3 DEF None, Chosen, LaunchIsSound, FwdSelectsByHeadDim
<1> QED
  BY <1>1, <1>2, <1>3, <1>4 DEF DispatchInv, Stages, Served, Sizes

\* A sequence of whole tiles has at least one, for every batch and head.
LEMMA TilesExist ==
  ASSUME NEW c \in Configs, c.block_m > 0, Sizes(call), call.seq_len > 0,
         call.batch > 0, call.head_num > 0
  PROVE  TileCount(c) \in Nat \ {0}
<1> DEFINE d == c.block_m
           q == (call.seq_len + d - 1) \div d
           r == (call.seq_len + d - 1) % d
<1>1. /\ d \in Nat \ {0} /\ call.seq_len \in Nat \ {0}
      /\ call.batch \in Nat \ {0} /\ call.head_num \in Nat \ {0}
  BY DEF Configs, Sizes
<1>2. call.seq_len + d - 1 \in Nat /\ call.seq_len + d - 1 >= d
  BY <1>1
<1>3. q \in Nat /\ r \in 0 .. d - 1 /\ call.seq_len + d - 1 = d * q + r
  BY <1>1, <1>2, Division
<1>4. TileCount(c) = q * call.batch * call.head_num
  BY DEF TileCount, CEILDIV
<1> HIDE DEF q, r, d
<1>5. q # 0
  BY <1>1, <1>2, <1>3
<1>6. q * call.batch \in Nat \ {0}
  BY <1>1, <1>3, <1>5
<1>7. q * call.batch * call.head_num \in Nat \ {0}
  BY <1>1, <1>6
<1> QED
  BY <1>4, <1>7

LEMMA LaunchStep ==
  ASSUME DispatchInv, Launch
  PROVE  DispatchInv'
<1>1. PICK HeadNum \in INSTANTIATED_HEAD_NUMS :
        /\ call.head_num = HeadNum
        /\ answer' = [kind |-> "launch", HeadNum |-> HeadNum,
                      HeadDim |-> config.head_dim, causal |-> call.causal,
                      grid |-> Smaller(SmNum, TileCount(config))]
  BY DEF Launch
<1>2. /\ stage = "run" /\ call.head_dim = config.head_dim
      /\ stage' = "launched" /\ UNCHANGED <<version, configs, call, config>>
  BY DEF Launch, InstanceFound
<1>3. Chosen /\ ShapeAllowed /\ Sizes(call) /\ configs # << >>
      /\ configs \in Seq(Valid(version))
  BY <1>2 DEF DispatchInv, Served
<1>4. config \in Valid(version) /\ config \in Elements(configs)
  BY <1>3, ElementFacts DEF Chosen
<1>5. TileCount(config) \in Nat \ {0}
  <2>1. config \in Configs /\ config.block_m > 0
    BY <1>4 DEF Valid, is_valid_config
  <2>2. call.seq_len > 0 /\ call.batch > 0
    BY <1>3 DEF ShapeAllowed
  <2>3. call.head_num > 0
    BY <1>1 DEF INSTANTIATED_HEAD_NUMS
  <2> QED
    BY <1>3, <2>1, <2>2, <2>3, TilesExist
<1>6. Smaller(SmNum, TileCount(config)) \in 1 .. TileCount(config)
  BY <1>5, DispatchAssumption DEF Smaller
<1>7. LaunchIsSound'
  <2>1. /\ answer'.HeadDim = call.head_dim /\ answer'.HeadNum = call.head_num
        /\ answer'.causal = call.causal
        /\ answer'.grid \in 1 .. TileCount(config)
    BY <1>1, <1>2, <1>6
  <2>2. TileCount(config)' = TileCount(config)
    BY <1>2 DEF TileCount
  <2> QED
    BY <1>2, <1>3, <1>4, <2>1, <2>2 DEF LaunchIsSound, ShapeAllowed
<1>8. Chosen'
  BY <1>2, <1>3 DEF Chosen
<1>9. FwdSelectsByHeadDim'
  BY <1>1, <1>8 DEF Chosen, FwdSelectsByHeadDim
<1> QED
  BY <1>2, <1>3, <1>7, <1>8, <1>9 DEF DispatchInv, Stages, Served, Sizes

\* The steps after a launch, and one that ends the process before it.
LEMMA LaunchedStep ==
  ASSUME DispatchInv, AttributeFails \/ LaunchSucceeds
  PROVE  DispatchInv'
<1>1. /\ UNCHANGED <<version, configs, call, config, answer>>
      /\ \/ stage = "run" /\ stage' = "ended"
         \/ stage = "launched" /\ stage' = "answered"
  BY DEF AttributeFails, LaunchSucceeds, InstanceFound
<1>2. LaunchIsSound' /\ FwdSelectsByHeadDim'
  BY <1>1 DEF DispatchInv, LaunchIsSound, FwdSelectsByHeadDim, TileCount
<1> QED
  BY <1>1, <1>2 DEF DispatchInv, Stages, Served, Sizes

LEMMA ReturnStep ==
  ASSUME DispatchInv, Return
  PROVE  DispatchInv'
<1>1. /\ stage = "answered" /\ stage' = "idle"
      /\ answer' = None /\ config' = None
      /\ UNCHANGED <<version, configs>>
  BY DEF Return
<1>2. LaunchIsSound' /\ FwdSelectsByHeadDim'
  BY <1>1 DEF None, LaunchIsSound, FwdSelectsByHeadDim
<1> QED
  BY <1>1, <1>2 DEF DispatchInv, Stages, Served

LEMMA DispatchStep ==
  ASSUME DispatchInv, [Next]_vars
  PROVE  DispatchInv'
<1>1. CASE UNCHANGED vars
  <2>1. UNCHANGED <<version, configs, stage, call, config, answer>>
    BY <1>1 DEF vars
  <2>2. Chosen' = Chosen /\ ShapeAllowed' = ShapeAllowed
    BY <2>1 DEF Chosen, ShapeAllowed
  <2>3. LaunchIsSound' /\ FwdSelectsByHeadDim'
    BY <2>1 DEF DispatchInv, LaunchIsSound, FwdSelectsByHeadDim, TileCount
  <2> QED
    BY <2>1, <2>2, <2>3 DEF DispatchInv, Sizes
<1>2. CASE BuildDefault
  BY <1>2, BuildDefaultStep
<1>3. CASE \E n \in 1 .. MaxNames : \E names \in [1 .. n -> Names(version)] :
             BuildOnly(names)
  BY <1>3, BuildOnlyStep
<1>4. CASE \E c \in Calls : Call(c)
  BY <1>4, CallStep
<1>5. CASE \/ Select \/ CheckShape \/ Launch \/ Return
           \/ AttributeFails \/ LaunchSucceeds
  BY <1>5, SelectStep, CheckShapeStep, LaunchStep, LaunchedStep, ReturnStep
<1>6. CASE \/ RefuseInputs \/ RefuseUnbuilt \/ RefuseShape
           \/ RefuseHeadDim \/ RefuseHeadNum \/ OutOfMemory \/ LaunchFails
  BY <1>6, RefusesStep
<1>7. CASE Terminated
  BY <1>1, <1>7 DEF Terminated
<1> QED
  BY <1>1, <1>2, <1>3, <1>4, <1>5, <1>6, <1>7 DEF Next

\* From the build to the answer of a call: what was built is valid, and what
\* is chosen was built and passed the checks of the bindings.
THEOREM DispatchCorrect == Spec => []DispatchInv
<1>1. Init => DispatchInv
  <2> SUFFICES ASSUME Init PROVE DispatchInv
    OBVIOUS
  <2>1. /\ version \in {OneColumn, Columns} /\ configs = << >>
        /\ stage = "build" /\ config = None /\ answer = None
    BY DEF Init
  <2> QED
    BY <2>1, NoAnswer DEF DispatchInv, Stages, Served
<1>2. DispatchInv /\ [Next]_vars => DispatchInv'
  BY DispatchStep
<1> QED
  BY <1>1, <1>2, PTL DEF Spec

\* Whatever flash_configs.py is told to generate, each kernel that builds
\* passes its static_asserts and asks for the shared memory the generator
\* computed in Python, which is within the limit.
THEOREM BuiltKernelsAlwaysFit == Spec => []BuiltKernelsFit
<1>1. DispatchInv => BuiltKernelsFit
  <2> SUFFICES ASSUME DispatchInv, NEW c \in Elements(configs)
               PROVE  /\ c.head_dim % 32 = 0
                      /\ c.block_m % (16 * c.warps_m) = 0
                      /\ c.block_n % (16 * c.warps_n) = 0
                      /\ smem_bytes(version, c) = SStorageSize(version, c)
                      /\ SStorageSize(version, c) <= MaxSmem
    BY DEF BuiltKernelsFit
  <2>1. version \in {OneColumn, Columns} /\ c \in Valid(version)
    BY ElementFacts DEF DispatchInv
  <2> QED
    BY <2>1, ValidFits, SizesAgree
<1> QED
  BY <1>1, DispatchCorrect, PTL

\* Whichever way fwd or fwd_config choose a configuration, the instance
\* launched is one that was built for the tensors, and the kernel gets whole
\* tiles and a grid whose blocks all have one.
THEOREM LaunchesAreSound == Spec => []LaunchIsSound
<1>1. DispatchInv => LaunchIsSound
  BY DEF DispatchInv
<1> QED
  BY <1>1, DispatchCorrect, PTL

\* With every selection of configurations to build, fwd finds one for a head
\* dimension as soon as one was built, and never runs one for another.  What
\* it then refuses a call for is the tensors, the divisibility, the number of
\* heads, the memory or a failed launch.
THEOREM FwdAlwaysSelectsByHeadDim == Spec => []FwdSelectsByHeadDim
<1>1. DispatchInv => FwdSelectsByHeadDim
  BY DEF DispatchInv
<1> QED
  BY <1>1, DispatchCorrect, PTL
=============================================================================
