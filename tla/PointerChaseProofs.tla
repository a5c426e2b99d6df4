------------------------- MODULE PointerChaseProofs -------------------------
(***************************************************************************)
(* Proofs about pointer_chase.c for all command lines: whatever the        *)
(* shuffles do and however the workers interleave, the list is linked in   *)
(* an order of all nodes that has the shape of its sort mode, and the list *)
(* of each thread is its chunk of that order.                              *)
(***************************************************************************)
EXTENDS PointerChase, Integers, FiniteSetTheorems, WellFoundedInduction, TLAPS

-----------------------------------------------------------------------------
(* Arithmetic *)

\* hot_range.c strides its indices in the same way.  What is used of its proofs are
\* facts about division, which do not depend on its state.
Striding == INSTANCE HotRangeProofs WITH
               Arguments <- {}, array <- next, pc <- next, oldval <- next

\* A natural number has a quotient and a remainder.
LEMMA Divides ==
    ASSUME NEW n \in Nat \ {0}, NEW a \in Nat
    PROVE  /\ a = (a \div n) * n + (a % n) /\ a % n \in 0..n-1 /\ a \div n \in Nat
           /\ \A m \in Nat : a < m * n => a \div n < m
BY Striding!Division

\* It has no other ones.
LEMMA DividesUniquely ==
    ASSUME NEW n \in Nat \ {0}, NEW q \in Nat, NEW r \in 0..n-1
    PROVE  (q * n + r) \div n = q /\ (q * n + r) % n = r
BY Striding!DivisionUnique

\* A pair of natural numbers of which the first is the smaller one.
Below == {s \in Nat \X Nat : s[1] < s[2]}

\* Among natural numbers one is the smallest.
LEMMA LeastElement ==
    ASSUME NEW T, T \subseteq Nat, T # {}
    PROVE  \E x \in T : \A y \in T : x <= y
<1>1. IsWellFoundedOn(Below, Nat)
  BY NatLessThanWellFounded DEF OpToRel, Below
<1>2. PICK x \in T : \A y \in T : <<y, x>> \notin Below
  BY <1>1, WFMin
<1>3. ASSUME NEW y \in T, ~(x <= y) PROVE FALSE
  <2>1. x \in Nat /\ y \in Nat /\ y < x
    BY <1>3
  <2>2. <<y, x>> \in Below
    BY <2>1 DEF Below
  <2> QED
    BY <1>2, <2>2
<1> QED
  BY <1>3

\* A set that has 0, and with each natural number the next one, has them all.
LEMMA Counting ==
    ASSUME NEW S \in SUBSET Nat, 0 \in S, \A k \in Nat : k \in S => k + 1 \in S
    PROVE  S = Nat
<1> SUFFICES ASSUME Nat \ S # {} PROVE FALSE
  OBVIOUS
<1>1. PICK x \in Nat \ S : \A y \in Nat \ S : x <= y
  BY LeastElement
<1>2. x # 0
  OBVIOUS
<1>3. x - 1 \in S
  BY <1>1, <1>2
<1> QED
  BY <1>1, <1>3

-----------------------------------------------------------------------------
(* The inductive invariant *)

Phases == {"index", "shuffle_blocks", "move_blocks", "shuffle_in_blocks", "scatter",
           "relink", "chop", "start", "run", "finished", "failed", "refused", "wild"}

\* The types of the variables that the order and the lists depend on.
Types ==
    /\ args \in Arguments
    /\ phase \in Phases
    /\ block_indices \in [BlockIds -> BlockIds]
    /\ block_i \in Nat
    /\ old_indices \in [Nodes -> Nat]
    /\ indices \in [Nodelets -> [Nodes -> Nat]]
    /\ in_block_i \in [BlockIds -> Nat]
    /\ relink_i \in [Nodelets -> Nat]
    /\ next \in [Nodes -> Nodes \cup {Null, Unset}]

\* No value of f occurs twice among S.
OneToOne(f, S) == \A x, y \in S : f[x] = f[y] => x = y

\* Every member of S is a value of f.
Onto(f, S) == \A y \in S : \E x \in S : f[x] = y

\* The blocks are there once each, and in their places if they are not to be shuffled.
BlocksPermuted ==
    /\ OneToOne(block_indices, BlockIds) /\ Onto(block_indices, BlockIds)
    /\ ~ShufflesBlocks => \A b \in BlockIds : block_indices[b] = b

\* Blocks fill the array, and each shuffle runs in the sort modes that want it.
PhaseFits ==
    /\ phase \notin {"index", "refused"} => args.n % args.block_size = 0
    /\ phase \in {"shuffle_blocks", "move_blocks"} => ShufflesBlocks
    /\ phase = "shuffle_in_blocks" => ShufflesInBlocks

Offsets == 0..args.block_size-1

\* Order f has block b of the strided order as its block d.
HasBlock(f, d, b) == \A j \in Offsets : f[d * args.block_size + j]
                                            = StridedIndices[b * args.block_size + j]

\* While the blocks are moved, those that are done are in their places.
BlocksMove ==
    /\ phase = "shuffle_blocks" => indices[0] = StridedIndices
    /\ phase = "move_blocks" => /\ old_indices = StridedIndices
                                /\ todo \subseteq BlockIds
                                /\ \A b \in BlockIds \ todo : HasBlock(indices[0], block_indices[b], b)

Arranging == phase \in {"shuffle_in_blocks", "scatter"} \/ Linking

\* Order f is one of the sort mode if block d[b] holds the elements of block b.
Arranges(f, d) ==
    /\ OneToOne(f, Nodes)
    /\ \A b \in BlockIds : Elements(f, d[b]) = Elements(StridedIndices, b)
    /\ ~ShufflesInBlocks => \A b \in BlockIds : HasBlock(f, d[b], b)

\* The order is made, and has been since before the copies are.
OrderMade == Arranging => Arranges(indices[0], block_indices)

\* The nodelets that have their copy of the order.
CopiesMade ==
    /\ phase = "scatter" => /\ todo \subseteq Nodelets \ {0}
                            /\ \A k \in Nodelets \ todo : indices[k] = indices[0]
    /\ Linking => \A k \in Nodelets : indices[k] = indices[0]

\* The node after the i-th one of the order.
Successor(i) == IF i = args.n - 1 THEN 0 ELSE i + 1

\* The i-th node of the order and the next one are nodes of the pool.
InPool(i) == indices[0][i] \in Nodes /\ indices[0][Successor(i)] \in Nodes

\* The relink worker of nodelet k works on the indices of its nodelet, and those behind
\* it are linked.
LinksMade ==
    /\ ~Linking /\ phase # "wild" => \A k \in Nodelets : relink_i[k] = k
    /\ phase = "relink" =>
          /\ \A k \in Nodelets : relink_i[k] % args.nodelets = k
          /\ \A i \in Nodes : i < relink_i[Home(i)] =>
                InPool(i) /\ next[indices[0][i]] = indices[0][Successor(i)]
    /\ phase = "chop" =>
          \A i \in Nodes : InPool(i) /\ next[indices[0][i]] = indices[0][Successor(i)]

ChunkSize == args.n \div args.num_threads

\* The last index of some thread's chunk.
IsTail(i) == \E t \in Chasers : i = LastIndex(t, ChunkSize)

\* The list is cut behind each chunk.
ListsMade ==
    Linked => /\ ChunkSize # 0
              /\ \A t \in Chasers : heads[t] = indices[0][t * ChunkSize]
              /\ \A i \in Nodes : /\ InPool(i)
                                  /\ next[indices[0][i]] = IF IsTail(i) THEN Null
                                                           ELSE indices[0][Successor(i)]

\* The inductive invariant.
ChaseInv == /\ Types /\ BlocksPermuted /\ PhaseFits /\ BlocksMove /\ OrderMade
            /\ CopiesMade /\ LinksMade /\ ListsMade

-----------------------------------------------------------------------------
(* The command line *)

\* What parse_args has checked, and what it means that one of two powers of two divides
\* the other.
LEMMA ArgumentFacts ==
    ASSUME args \in Arguments
    PROVE  /\ args.n \in Nat \ {0, 1} /\ args.nodelets \in Nat \ {0}
           /\ args.block_size \in Nat \ {0} /\ args.num_threads \in Nat \ {0}
           /\ args.nodelets <= args.n => \E m \in Nat \ {0} : args.n = m * args.nodelets
           /\ args.nodelets > args.n => \E m \in Nat \ {0} : args.nodelets = m * args.n
           /\ RandMax \in Nat \ {0} /\ Null \notin Nat /\ Unset \notin Nat
<1> DEFINE n == args.n
           k == args.nodelets
<1>1. /\ n \in Nat \ {0, 1} /\ k \in Nat \ {0}
      /\ args.block_size \in Nat \ {0} /\ args.num_threads \in Nat \ {0}
      /\ n % k = 0 \/ k % n = 0
      /\ RandMax \in Nat \ {0} /\ Null \notin Nat /\ Unset \notin Nat
  BY PointerChaseAssumption
<1> HIDE DEF n, k
<1>2. ASSUME NEW a \in Nat \ {0}, NEW b \in Nat \ {0}, b % a = 0
      PROVE  \E m \in Nat \ {0} : b = m * a
  <2>1. b = (b \div a) * a + (b % a) /\ b \div a \in Nat
    BY Divides
  <2> DEFINE m == b \div a
  <2>2. b = m * a /\ m \in Nat
    BY <1>2, <2>1
  <2> HIDE DEF m
  <2>3. m # 0
    BY <2>2
  <2> QED
    BY <2>2, <2>3
<1>3. ASSUME NEW a \in Nat \ {0}, NEW b \in Nat \ {0}, a <= b, a % b = 0
      PROVE  b % a = 0
  <2>1. PICK m \in Nat \ {0} : a = m * b
    BY <1>2, <1>3
  <2>2. m * b - b = (m - 1) * b /\ (m - 1) * b \in Nat
    BY <2>1
  <2>3. a = b
    BY <1>3, <2>1, <2>2
  <2>4. (1 * a + 0) % a = 0 /\ 1 * a + 0 = a
    BY DividesUniquely
  <2> QED
    BY <2>3, <2>4
<1>4. k <= n => n % k = 0
  BY <1>1, <1>3
<1>5. k > n => k % n = 0
  BY <1>1, <1>3
<1>6. /\ k <= n => \E m \in Nat \ {0} : n = m * k
      /\ k > n => \E m \in Nat \ {0} : k = m * n
  BY <1>1, <1>2, <1>4, <1>5
<1> QED
  BY <1>1, <1>6 DEF n, k

\* No index is given to two nodes, and with a node on each nodelet every node has one.
LEMMA StridedPermutes ==
    ASSUME args \in Arguments
    PROVE  /\ StridedIndices \in [Nodes -> Nat]
           /\ OneToOne(StridedIndices, Nodes)
           /\ args.nodelets <= args.n =>
                 /\ \A x \in Nodes : StridedIndices[x] \in Nodes
                 /\ \A y \in Nodes : \E x \in Nodes : StridedIndices[x] = y
<1> DEFINE n == args.n
           k == args.nodelets
<1> n \in Nat \ {0} /\ k \in Nat \ {0}
  BY ArgumentFacts
<1>0. /\ Nodes = 0..n-1
      /\ k <= n => \E m \in Nat \ {0} : n = m * k
      /\ k > n => \E m \in Nat \ {0} : k = m * n
  BY ArgumentFacts DEF Nodes
<1>1. \A x \in Nodes : StridedIndices[x] = ((x * k) % n) + ((x * k) \div n)
  BY DEF StridedIndices
<1> HIDE DEF n, k
<1>2. CASE k <= n
  <2>1. PICK m \in Nat \ {0} : n = m * k
    BY <1>0, <1>2
  <2>2. ASSUME NEW x \in Nodes
        PROVE  /\ StridedIndices[x] = (x % m) * k + (x \div m)
               /\ x \div m \in 0..k-1 /\ x % m \in 0..m-1
               /\ StridedIndices[x] \in Nodes
               /\ x = (x \div m) * m + (x % m)
               /\ StridedIndices[x] \div k = x % m /\ StridedIndices[x] % k = x \div m
    <3>1. x \in 0..m*k-1 /\ x \in Nat
      BY <1>0, <2>1
    <3>2. /\ ((x * k) % (m * k)) + ((x * k) \div (m * k)) = (x % m) * k + (x \div m)
          /\ x \div m \in 0..k-1 /\ x % m \in 0..m-1
          /\ (x % m) * k + (x \div m) \in 0..m*k-1
      <4>1. k \in Nat \ {0} /\ m \in Nat \ {0}
        OBVIOUS
      <4> QED
        BY ONLY <3>1, <4>1, Striding!StripedPosition
    <3>3. StridedIndices[x] = (x % m) * k + (x \div m) /\ StridedIndices[x] \in Nodes
      BY <1>0, <1>1, <2>1, <3>2
    <3>4. x = (x \div m) * m + (x % m)
      BY <3>1, Divides
    <3>2a. x \div m \in 0..k-1 /\ x % m \in Nat
      BY <3>2
    <3>5. /\ ((x % m) * k + (x \div m)) \div k = x % m
          /\ ((x % m) * k + (x \div m)) % k = x \div m
      BY <3>2a, DividesUniquely
    <3> QED
      BY <3>2, <3>3, <3>4, <3>5
  <2>3. ASSUME NEW y \in Nodes PROVE \E x \in Nodes : StridedIndices[x] = y
    <3> DEFINE q == y % k
               r == y \div k
    <3>1. y = r * k + q /\ q \in 0..k-1 /\ r \in Nat /\ r < m
      <4>1. y \in Nat /\ y < m * k
        BY <1>0, <2>1
      <4> QED
        BY <4>1, Divides
    <3> HIDE DEF q, r
    <3>2. (q * m + r) \div m = q /\ (q * m + r) % m = r
      <4>1. q \in Nat /\ r \in 0..m-1
        BY <3>1
      <4> QED
        BY <4>1, DividesUniquely
    <3>3. q * m + r \in Nodes
      <4>1. n - (q * m + m) = (k - 1 - q) * m /\ (k - 1 - q) * m \in Nat /\ q * m \in Nat
        BY <1>0, <2>1, <3>1
      <4> QED
        BY <1>0, <3>1, <4>1
    <3>4. StridedIndices[q * m + r] = r * k + q
      BY <2>2, <3>2, <3>3
    <3> QED
      BY <3>1, <3>3, <3>4
  <2>4. StridedIndices \in [Nodes -> Nat]
    <3>1. \A x \in Nodes : StridedIndices[x] \in Nat
      BY <1>0, <2>2
    <3> QED
      BY <3>1 DEF StridedIndices
  <2> QED
    BY <2>2, <2>3, <2>4 DEF OneToOne
<1>3. CASE k > n
  <2>1. PICK m \in Nat \ {0} : k = m * n
    BY <1>0, <1>3
  <2>2. \A x \in Nodes : StridedIndices[x] = x * m /\ x * m \in Nat
    <3> SUFFICES ASSUME NEW x \in Nodes PROVE StridedIndices[x] = x * m /\ x * m \in Nat
      OBVIOUS
    <3>1. x \in Nat
      BY <1>0
    <3>2. ((x * (m * n)) % n) + ((x * (m * n)) \div n) = x * m /\ x * m \in Nat
      BY <3>1, Striding!SparsePosition
    <3> QED
      BY <1>1, <2>1, <3>2
  <2>3. \A x \in Nodes : (x * m) \div m = x
    <3> SUFFICES ASSUME NEW x \in Nodes PROVE (x * m) \div m = x
      OBVIOUS
    <3>1. x \in Nat
      BY <1>0
    <3> QED
      BY <3>1, Striding!DivideMultiple
  <2>4. StridedIndices \in [Nodes -> Nat]
    BY <2>2 DEF StridedIndices
  <2>5. OneToOne(StridedIndices, Nodes)
    <3> SUFFICES ASSUME NEW x \in Nodes, NEW y \in Nodes, x * m = y * m PROVE x = y
      BY <2>2 DEF OneToOne
    <3> QED
      BY <2>3
  <2> QED
    BY <1>3, <2>4, <2>5 DEF n, k
<1> QED
  BY <1>2, <1>3

-----------------------------------------------------------------------------
(* Shuffles and blocks *)

\* lcg_rand is scaled to the elements from i on, never further.
LEMMA PickInside ==
    ASSUME args \in Arguments, NEW len \in Nat, NEW i \in Nat, i < len, NEW r \in 0..RandMax
    PROVE  Pick(i, len, r) \in i..len-1
<1> DEFINE m == len - i
           q == RandMax \div m
<1>1. m \in Nat \ {0} /\ RandMax \in Nat
  BY ArgumentFacts
<1>2. RandMax = q * m + (RandMax % m) /\ RandMax % m \in 0..m-1 /\ q \in Nat
  BY <1>1, Divides
<1> HIDE DEF m, q
<1>3. r < m * (q + 1) /\ r \in Nat /\ q + 1 \in Nat \ {0}
  BY <1>1, <1>2
<1>4. r \div (q + 1) < m /\ r \div (q + 1) \in Nat
  BY <1>1, <1>3, Divides
<1>5. Pick(i, len, r) = i + (r \div (q + 1))
  BY DEF Pick, m, q
<1> QED
  BY <1>4, <1>5 DEF m

\* An exchange moves two elements.
LEMMA SwapMoves ==
    ASSUME NEW S, NEW V, NEW f \in [S -> V], NEW i \in S, NEW j \in S
    PROVE  /\ Swap(f, i, j) \in [S -> V]
           /\ Swap(f, i, j)[i] = f[j] /\ Swap(f, i, j)[j] = f[i]
           /\ \A x \in S \ {i, j} : Swap(f, i, j)[x] = f[x]
           /\ OneToOne(f, S) => OneToOne(Swap(f, i, j), S)
           /\ Onto(f, S) => Onto(Swap(f, i, j), S)
<1> DEFINE g == Swap(f, i, j)
<1>1. g \in [S -> V] /\ g[i] = f[j] /\ g[j] = f[i] /\ \A x \in S \ {i, j} : g[x] = f[x]
  BY DEF Swap
<1> HIDE DEF g
<1>2. OneToOne(f, S) => OneToOne(g, S)
  BY <1>1 DEF OneToOne
<1>3. ASSUME NEW x \in S PROVE \E z \in S : g[z] = f[x]
  BY <1>1
<1>4. Onto(f, S) => Onto(g, S)
  <2> SUFFICES ASSUME Onto(f, S), NEW y \in S PROVE \E z \in S : g[z] = y
    BY DEF Onto
  <2>1. PICK x \in S : f[x] = y
    BY DEF Onto
  <2> QED
    BY <1>3, <2>1
<1> QED
  BY <1>1, <1>2, <1>4 DEF g

\* Blocks that divide the array cut it into so many pieces, and an index is a block and
\* an offset in it.
LEMMA BlockFacts ==
    ASSUME args \in Arguments, args.n % args.block_size = 0
    PROVE  /\ Cardinality(BlockIds) \in Nat
           /\ BlockIds = 0..Cardinality(BlockIds)-1
           /\ \A x \in Nodes : /\ x \div args.block_size \in BlockIds
                               /\ x % args.block_size \in Offsets
                               /\ x = (x \div args.block_size) * args.block_size
                                         + (x % args.block_size)
           /\ \A b \in BlockIds, j \in Offsets :
                 /\ b * args.block_size + j \in Nodes
                 /\ (b * args.block_size + j) \div args.block_size = b
                 /\ (b * args.block_size + j) % args.block_size = j
<1> DEFINE n == args.n
           s == args.block_size
           c == n \div s
<1>1. n \in Nat \ {0} /\ s \in Nat \ {0} /\ n % s = 0
  BY ArgumentFacts
<1>2. Nodes = 0..n-1 /\ Offsets = 0..s-1 /\ BlockIds = 0..c-1
  BY DEF Nodes, Offsets, BlockIds
<1>3. n = c * s + (n % s) /\ c \in Nat
  BY <1>1, Divides
<1> HIDE DEF n, s, c
<1>4. n = c * s
  BY <1>1, <1>3
<1>5. Cardinality(BlockIds) = c
  <2>1. 0 \in Int /\ c - 1 \in Int
    BY <1>3
  <2>2. Cardinality(0..c-1) = IF 0 > c - 1 THEN 0 ELSE (c - 1) - 0 + 1
    BY <2>1, FS_Interval
  <2> QED
    BY <1>2, <1>3, <2>2
<1>6. ASSUME NEW x \in Nodes
      PROVE  x \div s \in BlockIds /\ x % s \in Offsets /\ x = (x \div s) * s + (x % s)
  <2>1. x \in Nat /\ x < c * s
    BY <1>1, <1>2, <1>4
  <2>2. x = (x \div s) * s + (x % s) /\ x % s \in 0..s-1 /\ x \div s \in Nat /\ x \div s < c
    BY <1>1, <1>3, <2>1, Divides
  <2> QED
    BY <1>2, <1>3, <2>2
<1>7. ASSUME NEW b \in BlockIds, NEW j \in Offsets
      PROVE  b * s + j \in Nodes /\ (b * s + j) \div s = b /\ (b * s + j) % s = j
  <2>1. b \in Nat /\ j \in 0..s-1
    BY <1>2, <1>3
  <2>2. (b * s + j) \div s = b /\ (b * s + j) % s = j
    BY <1>1, <2>1, DividesUniquely
  <2>3. c * s - (b * s + s) = (c - 1 - b) * s /\ (c - 1 - b) * s \in Nat /\ b * s \in Nat
    BY <1>1, <1>2, <1>3
  <2> QED
    BY <1>1, <1>2, <1>4, <2>1, <2>2, <2>3
<1>8. Cardinality(BlockIds) \in Nat /\ BlockIds = 0..Cardinality(BlockIds)-1
  BY <1>2, <1>3, <1>5
<1> QED
  BY <1>6, <1>7, <1>8 DEF s, n

\* What a block of an order consists of.
LEMMA ElementsAre ==
    ASSUME NEW f, NEW b
    PROVE  Elements(f, b) = {f[b * args.block_size + j] : j \in Offsets}
BY DEF Elements, Block, Offsets

\* Exchanges in a block leave each block its elements.
LEMMA SwapInBlock ==
    ASSUME args \in Arguments, args.n % args.block_size = 0, NEW f \in [Nodes -> Nat],
           NEW b \in BlockIds, NEW i \in Offsets, NEW j \in Offsets, NEW d \in BlockIds
    PROVE  Elements(Swap(f, b * args.block_size + i, b * args.block_size + j), d)
              = Elements(f, d)
<1> DEFINE At(c, k) == c * args.block_size + k
           g == Swap(f, At(b, i), At(b, j))
<1>1. ASSUME NEW c \in BlockIds, NEW k \in Offsets, NEW e \in BlockIds, NEW l \in Offsets,
             At(c, k) = At(e, l)
      PROVE  c = e /\ k = l
  <2>1. At(c, k) \div args.block_size = c /\ At(c, k) % args.block_size = k
    BY BlockFacts
  <2>2. At(e, l) \div args.block_size = e /\ At(e, l) % args.block_size = l
    BY BlockFacts
  <2> QED
    BY <1>1, <2>1, <2>2
<1>2. \A c \in BlockIds, k \in Offsets : At(c, k) \in Nodes
  BY BlockFacts
<1> HIDE DEF At
<1>3. /\ g[At(b, i)] = f[At(b, j)] /\ g[At(b, j)] = f[At(b, i)]
      /\ \A x \in Nodes \ {At(b, i), At(b, j)} : g[x] = f[x]
  <2>1. At(b, i) \in Nodes /\ At(b, j) \in Nodes
    BY <1>2
  <2> QED
    BY <2>1 DEF Swap
<1> HIDE DEF g
<1>4. ASSUME NEW k \in Offsets PROVE \E l \in Offsets : g[At(d, k)] = f[At(d, l)]
  BY <1>1, <1>2, <1>3
<1>5. ASSUME NEW k \in Offsets PROVE \E l \in Offsets : f[At(d, k)] = g[At(d, l)]
  BY <1>1, <1>2, <1>3
<1>6. {g[At(d, k)] : k \in Offsets} = {f[At(d, k)] : k \in Offsets}
  BY <1>4, <1>5
<1> QED
  BY <1>6, ElementsAre DEF At, g

\* An order that has all blocks, each once, is one of the sort mode.
LEMMA BlocksArrange ==
    ASSUME args \in Arguments, args.n % args.block_size = 0,
           NEW f, NEW d \in [BlockIds -> BlockIds],
           OneToOne(d, BlockIds), Onto(d, BlockIds),
           \A b \in BlockIds : HasBlock(f, d[b], b)
    PROVE  Arranges(f, d)
<1> DEFINE At(c, k) == c * args.block_size + k
<1>1. ASSUME NEW x \in Nodes
      PROVE  \E b \in BlockIds, k \in Offsets : x = At(d[b], k) /\ f[x] = StridedIndices[At(b, k)]
  <2>1. /\ x \div args.block_size \in BlockIds /\ x % args.block_size \in Offsets
        /\ x = At(x \div args.block_size, x % args.block_size)
    BY BlockFacts
  <2>2. PICK b \in BlockIds : d[b] = x \div args.block_size
    BY <2>1 DEF Onto
  <2> HIDE DEF At
  <2>3. x = At(d[b], x % args.block_size)
    BY <2>1, <2>2
  <2>4. f[At(d[b], x % args.block_size)] = StridedIndices[At(b, x % args.block_size)]
    BY <2>1 DEF HasBlock, At
  <2> QED
    BY <2>1, <2>3, <2>4
<1>2. \A b, c \in BlockIds, k, l \in Offsets :
         StridedIndices[At(b, k)] = StridedIndices[At(c, l)] => b = c /\ k = l
  <2> SUFFICES ASSUME NEW b \in BlockIds, NEW c \in BlockIds, NEW k \in Offsets,
                      NEW l \in Offsets, StridedIndices[At(b, k)] = StridedIndices[At(c, l)]
               PROVE  b = c /\ k = l
    OBVIOUS
  <2>1. At(b, k) \in Nodes /\ At(c, l) \in Nodes
    BY BlockFacts
  <2>2. At(b, k) = At(c, l)
    BY <2>1, StridedPermutes DEF OneToOne
  <2>3. /\ At(b, k) \div args.block_size = b /\ At(b, k) % args.block_size = k
        /\ At(c, l) \div args.block_size = c /\ At(c, l) % args.block_size = l
    BY BlockFacts
  <2> QED
    BY <2>2, <2>3
<1> HIDE DEF At
<1>3. OneToOne(f, Nodes)
  <2> SUFFICES ASSUME NEW x \in Nodes, NEW y \in Nodes, f[x] = f[y] PROVE x = y
    BY DEF OneToOne
  <2>1. PICK b \in BlockIds, k \in Offsets : x = At(d[b], k) /\ f[x] = StridedIndices[At(b, k)]
    BY <1>1
  <2>2. PICK c \in BlockIds, l \in Offsets : y = At(d[c], l) /\ f[y] = StridedIndices[At(c, l)]
    BY <1>1
  <2>3. b = c /\ k = l
    BY <1>2, <2>1, <2>2
  <2> QED
    BY <2>1, <2>2, <2>3
<1>4. \A b \in BlockIds : Elements(f, d[b]) = Elements(StridedIndices, b)
  <2> SUFFICES ASSUME NEW b \in BlockIds
               PROVE  Elements(f, d[b]) = Elements(StridedIndices, b)
    OBVIOUS
  <2>1. \A j \in Offsets : f[d[b] * args.block_size + j]
                              = StridedIndices[b * args.block_size + j]
    BY DEF HasBlock
  <2>2. {f[d[b] * args.block_size + j] : j \in Offsets}
           = {StridedIndices[b * args.block_size + j] : j \in Offsets}
    BY <2>1
  <2> QED
    BY <2>2, ElementsAre
<1> QED
  BY <1>3, <1>4 DEF Arranges

\* The strided order is one of every mode that does not ask for shuffled blocks.
LEMMA StridedArranges ==
    ASSUME args \in Arguments, args.n % args.block_size = 0,
           NEW d \in [BlockIds -> BlockIds], \A b \in BlockIds : d[b] = b
    PROVE  Arranges(StridedIndices, d)
<1>1. OneToOne(d, BlockIds) /\ Onto(d, BlockIds)
  BY DEF OneToOne, Onto
<1>2. \A b \in BlockIds : HasBlock(StridedIndices, d[b], b)
  BY DEF HasBlock
<1> QED
  BY <1>1, <1>2, BlocksArrange

-----------------------------------------------------------------------------
(* Links and chunks *)

\* The indices of one nodelet are every so many apart.
LEMMA RelinkTurn ==
    ASSUME NEW m \in Nat \ {0}, NEW k \in 0..m-1, NEW r \in Nat, r % m = k
    PROVE  /\ (r + m) % m = k
           /\ \A i \in Nat : i % m = k /\ i < r + m => i <= r
<1> DEFINE a == r \div m
<1>1. r = a * m + k /\ a \in Nat
  BY Divides
<1> HIDE DEF a
<1>2. (a + 1) * m + k = r + m /\ a + 1 \in Nat
  BY <1>1
<1>3. ((a + 1) * m + k) % m = k
  BY <1>2, DividesUniquely
<1>4. ASSUME NEW i \in Nat, i % m = k, i < r + m PROVE i <= r
  <2> DEFINE c == i \div m
  <2>1. i = c * m + k /\ c \in Nat
    BY <1>4, Divides
  <2> HIDE DEF c
  <2>2. ASSUME c > a PROVE FALSE
    <3>1. c * m - (a * m + m) = (c - a - 1) * m /\ (c - a - 1) * m \in Nat
      BY <1>1, <2>1, <2>2
    <3> QED
      BY <1>1, <1>4, <2>1, <3>1
  <2>3. a * m - c * m = (a - c) * m /\ (a - c) * m \in Nat
    BY <1>1, <2>1, <2>2
  <2> QED
    BY <1>1, <2>1, <2>3
<1> QED
  BY <1>2, <1>3, <1>4

\* Chunks lie in the order one behind the other, and end with the tails.
LEMMA ChunkFacts ==
    ASSUME args \in Arguments, ChunkSize # 0
    PROVE  /\ ChunkSize \in Nat \ {0}
           /\ \A t \in Chasers : LastIndex(t, ChunkSize) \in Nodes
           /\ \A t \in Chasers, k \in 0..ChunkSize-1 :
                 /\ t * ChunkSize + k \in Nodes
                 /\ IsTail(t * ChunkSize + k) <=> k = ChunkSize - 1
                 /\ k # ChunkSize - 1 => Successor(t * ChunkSize + k) = t * ChunkSize + (k + 1)
<1> DEFINE n == args.n
           p_ == args.num_threads
           c == ChunkSize
<1>1. /\ n \in Nat \ {0} /\ p_ \in Nat \ {0} /\ Nodes = 0..n-1 /\ Chasers = 0..p_-1
      /\ c = n \div p_ /\ c # 0
  BY ArgumentFacts DEF Nodes, Chasers, ChunkSize
<1> HIDE DEF n, p_, c
<1>2. n = c * p_ + (n % p_) /\ n % p_ \in Nat /\ c \in Nat \ {0}
  <2>1. n \in Nat /\ p_ \in Nat \ {0}
    BY <1>1
  <2>2. n = (n \div p_) * p_ + (n % p_) /\ n % p_ \in 0..p_-1 /\ n \div p_ \in Nat
    BY <2>1, Divides
  <2> QED
    BY <1>1, <2>2
<1>3. ASSUME NEW t \in Chasers, NEW k \in 0..c-1
      PROVE  /\ t * c + k \in 0..n-1
             /\ t * c \in Nat /\ t \in Nat
  <2>1. c * p_ - (t * c + c) = (p_ - 1 - t) * c /\ (p_ - 1 - t) * c \in Nat /\ t * c \in Nat
    BY <1>1, <1>2
  <2>2. t * c + c <= c * p_ /\ c * p_ \in Nat /\ t \in Nat
    BY <1>1, <1>2, <2>1
  <2> QED
    BY <1>1, <1>2, <2>1, <2>2
<1>4. ASSUME NEW t \in Chasers PROVE LastIndex(t, c) = t * c + (c - 1)
  <2>1. t \in Nat /\ c \in Nat
    BY <1>1, <1>2
  <2>2. (t + 1) * c - 1 = t * c + (c - 1)
    BY <2>1
  <2> QED
    BY <2>2 DEF LastIndex
<1>5. ASSUME NEW t \in Chasers, NEW k \in 0..c-1
      PROVE  IsTail(t * c + k) <=> k = c - 1
  <2>1. CASE k = c - 1
    BY <1>4, <2>1 DEF IsTail, c
  <2>2. ASSUME NEW u \in Chasers, t * c + k = u * c + (c - 1) PROVE k = c - 1
    <3>1. t \in Nat /\ u \in Nat /\ c - 1 \in 0..c-1
      BY <1>1, <1>2
    <3>2. (t * c + k) % c = k /\ (u * c + (c - 1)) % c = c - 1
      BY <1>2, <3>1, DividesUniquely
    <3> QED
      BY <2>2, <3>2
  <2> QED
    BY <1>4, <2>1, <2>2 DEF IsTail, c
<1>6. ASSUME NEW t \in Chasers, NEW k \in 0..c-1, k # c - 1
      PROVE  Successor(t * c + k) = t * c + (k + 1)
  <2>1. k + 1 \in 0..c-1
    BY <1>2, <1>6
  <2>2. t * c + (k + 1) \in 0..n-1 /\ t * c \in Nat
    BY <1>3, <2>1
  <2>3. t * c + k # n - 1 /\ (t * c + k) + 1 = t * c + (k + 1)
    BY <1>1, <2>2
  <2> QED
    BY <2>3 DEF Successor, n
<1>7. ASSUME NEW t \in Chasers PROVE LastIndex(t, c) \in Nodes
  <2>1. c - 1 \in 0..c-1
    BY <1>2
  <2> QED
    BY <1>1, <1>3, <1>4, <2>1
<1> QED
  BY <1>1, <1>2, <1>3, <1>5, <1>6, <1>7 DEF c, n

-----------------------------------------------------------------------------
(* The next state *)

\* What the command line determines does not change with it.
LEMMA SameArguments ==
    ASSUME args' = args
    PROVE  /\ Nodes' = Nodes /\ Nodelets' = Nodelets /\ BlockIds' = BlockIds
           /\ Offsets' = Offsets /\ Chasers' = Chasers /\ ChunkSize' = ChunkSize
           /\ StridedIndices' = StridedIndices
           /\ ShufflesBlocks' = ShufflesBlocks /\ ShufflesInBlocks' = ShufflesInBlocks
           /\ \A i : Home(i)' = Home(i) /\ Successor(i)' = Successor(i)
BY DEF Nodes, Nodelets, BlockIds, Offsets, Chasers, ChunkSize, StridedIndices,
       ShufflesBlocks, ShufflesInBlocks, Home, Successor

\* An order of the sort mode remains one.
LEMMA OrderMadeNext ==
    ASSUME args' = args, Arranging' => Arranges(indices'[0], block_indices')
    PROVE  OrderMade'
<1> SUFFICES ASSUME Arranging' PROVE Arranges(indices[0], block_indices)'
  BY DEF OrderMade
<1>1. \A b : /\ Elements(indices[0], block_indices[b])' = Elements(indices'[0], block_indices'[b])
             /\ Elements(StridedIndices, b)' = Elements(StridedIndices, b)
             /\ HasBlock(indices[0], block_indices[b], b)'
                   <=> HasBlock(indices'[0], block_indices'[b], b)
  BY SameArguments DEF Elements, Block, HasBlock
<1>2. OneToOne(indices[0], Nodes)' <=> OneToOne(indices'[0], Nodes)
  BY SameArguments DEF OneToOne
<1> QED
  BY <1>1, <1>2, SameArguments DEF Arranges

\* A step that leaves the blocks where they are keeps their permutation.
LEMMA BlocksPermutedNext ==
    ASSUME BlocksPermuted, args' = args, block_indices' = block_indices
    PROVE  BlocksPermuted'
BY SameArguments DEF BlocksPermuted, OneToOne, Onto

\* The phases that come before the links are made.
LEMMA PhaseGroups ==
    /\ Linking <=> phase \in {"relink", "chop", "start", "run", "finished", "failed"}
    /\ Linked <=> phase \in {"start", "run", "finished", "failed"}
    /\ Arranging <=> phase \in {"shuffle_in_blocks", "scatter", "relink", "chop", "start",
                                "run", "finished", "failed"}
BY DEF Linking, Linked, Arranging

\* After set-up the state is one in which nothing is arranged.
LEMMA ChaseInvInit == Init => ChaseInv
<1> SUFFICES ASSUME Init PROVE ChaseInv
  OBVIOUS
<1> USE DEF Init
<1>1. Types
  <2>1. args \in Arguments /\ args.nodelets \in Nat \ {0}
    BY ArgumentFacts
  <2>2. indices \in [Nodelets -> [Nodes -> Nat]] /\ relink_i \in [Nodelets -> Nat]
    BY <2>1 DEF Nodelets
  <2> QED
    BY <2>1, <2>2 DEF Types, Phases
<1>2. BlocksPermuted
  BY DEF BlocksPermuted, OneToOne, Onto
<1>3. PhaseFits /\ BlocksMove /\ OrderMade /\ CopiesMade /\ LinksMade /\ ListsMade
  BY PhaseGroups DEF PhaseFits, BlocksMove, OrderMade, CopiesMade, LinksMade, ListsMade
<1> QED
  BY <1>1, <1>2, <1>3 DEF ChaseInv

\* What every step of the preparation keeps: the command line and, until the nodes are
\* linked, the links.
LEMMA BeforeLinking ==
    ASSUME Types, LinksMade, phase' \in Phases, UNCHANGED <<args, relink_i, next>>,
           ~Linking, phase # "wild", ~Linked',
           ~Linking' \/ phase' = "relink"
    PROVE  LinksMade' /\ ListsMade'
<1>1. ListsMade'
  BY DEF ListsMade
<1>2. \A k \in Nodelets : relink_i[k] = k
  BY DEF LinksMade
<1>3. CASE ~Linking'
  <2>1. \A k \in Nodelets' : relink_i'[k] = k
    BY <1>2, SameArguments
  <2>2. phase' # "relink" /\ phase' # "chop"
    BY <1>3 DEF Linking
  <2> QED
    BY <1>1, <2>1, <2>2 DEF LinksMade
<1>4. CASE phase' = "relink"
  <2>1. \A k \in Nodelets : k % args.nodelets = k
    <3> SUFFICES ASSUME NEW k \in Nodelets PROVE k % args.nodelets = k
      OBVIOUS
    <3>1. args.nodelets \in Nat \ {0} /\ k \in 0..args.nodelets-1 /\ 0 \in Nat
      BY ArgumentFacts DEF Types, Nodelets
    <3>2. (0 * args.nodelets + k) % args.nodelets = k /\ 0 * args.nodelets + k = k
      BY <3>1, DividesUniquely
    <3> QED
      BY <3>2
  <2>2. \A i \in Nodes : ~(i < relink_i[Home(i)])
    <3> SUFFICES ASSUME NEW i \in Nodes PROVE ~(i < relink_i[Home(i)])
      OBVIOUS
    <3> DEFINE m == args.nodelets
               q == i \div m
    <3>1. i \in Nat /\ m \in Nat \ {0}
      BY ArgumentFacts DEF Types, Nodes
    <3>2. i = q * m + (i % m) /\ i % m \in 0..m-1 /\ q \in Nat
      BY <3>1, Divides
    <3>3. relink_i[Home(i)] = i % m
      BY <1>2, <3>2 DEF Home, Nodelets
    <3> HIDE DEF m, q
    <3>4. q * m \in Nat
      BY <3>1, <3>2
    <3> QED
      BY <3>1, <3>2, <3>3, <3>4
  <2>3. phase' # "chop" /\ Linking'
    BY <1>4 DEF Linking
  <2>4. Nodes' = Nodes /\ Nodelets' = Nodelets /\ \A i : Home(i)' = Home(i)
    BY SameArguments
  <2>5. \A i \in Nodes' : ~(i < relink_i'[Home(i)'])
    BY <2>2, <2>4
  <2>6. \A k \in Nodelets' : relink_i'[k] % args'.nodelets = k
    BY <1>2, <2>1, <2>4
  <2> QED
    BY <1>1, <1>4, <2>3, <2>5, <2>6 DEF LinksMade
<1> QED
  BY <1>1, <1>3, <1>4

\* The indices are strided, and the blocks stay in order unless they are to be shuffled.
LEMMA InitIndicesKeeps == ASSUME ChaseInv, InitIndices PROVE ChaseInv'
<1> USE DEF ChaseInv, InitIndices
<1>1. /\ args \in Arguments /\ args' = args /\ phase = "index"
      /\ UNCHANGED <<block_indices, block_i, old_indices, in_block_i, relink_i, next>>
      /\ StridedIndices \in [Nodes -> Nat] /\ 0 \in Nodelets
  BY StridedPermutes, ArgumentFacts DEF Types, nodeVars, Nodelets
<1>2. /\ phase' \in {"refused", "shuffle_blocks", "shuffle_in_blocks", "scatter"}
      /\ phase' # "refused" => args.n % args.block_size = 0
      /\ phase' = "shuffle_blocks" => ShufflesBlocks
      /\ phase' \in {"shuffle_in_blocks", "scatter"} => ~ShufflesBlocks
      /\ phase' = "shuffle_in_blocks" => ShufflesInBlocks
      /\ phase' = "scatter" => todo' = Nodelets \ {0}
  BY DEF AfterBlockShuffle, TodoIn
<1>3. indices'[0] = StridedIndices /\ indices' \in [Nodelets -> [Nodes -> Nat]]
  BY <1>1 DEF Types
<1>4. Types'
  BY <1>1, <1>2, <1>3, SameArguments DEF Types, Phases
<1>5. BlocksPermuted'
  BY <1>1, BlocksPermutedNext
<1>6. PhaseFits'
  BY <1>1, <1>2, SameArguments DEF PhaseFits
<1>7. BlocksMove'
  BY <1>1, <1>2, <1>3, SameArguments DEF BlocksMove
<1>8. OrderMade'
  <2>1. ASSUME phase' \in {"shuffle_in_blocks", "scatter"}
        PROVE  Arranges(indices'[0], block_indices')
    BY <1>1, <1>2, <1>3, <2>1, StridedArranges DEF Types, BlocksPermuted
  <2> QED
    BY <1>1, <1>2, <2>1, OrderMadeNext DEF Arranging, Linking
<1>9. CopiesMade'
  BY <1>1, <1>2, SameArguments DEF CopiesMade, Linking
<1>10. LinksMade' /\ ListsMade'
  BY <1>1, <1>2, BeforeLinking DEF Linking, Linked, Phases
<1> QED
  BY <1>4, <1>5, <1>6, <1>7, <1>8, <1>9, <1>10

\* An exchange of two blocks keeps the permutation.
LEMMA ShuffleBlocksKeeps == ASSUME ChaseInv, ShuffleBlocks PROVE ChaseInv'
<1> USE DEF ChaseInv, ShuffleBlocks
<1>1. /\ args \in Arguments /\ args' = args /\ phase = "shuffle_blocks" /\ phase' = phase
      /\ UNCHANGED <<old_indices, indices, in_block_i, todo, relink_i, next>>
      /\ args.n % args.block_size = 0 /\ ShufflesBlocks
      /\ block_i \in Nat /\ block_i' = block_i + 1 /\ block_i + 1 < Cardinality(BlockIds)
  BY DEF Types, nodeVars, PhaseFits
<1>2. PICK r \in 0..RandMax :
         block_indices' = Swap(block_indices, block_i, Pick(block_i, Cardinality(BlockIds), r))
  BY <1>1
<1>3. Cardinality(BlockIds) \in Nat /\ BlockIds = 0..Cardinality(BlockIds)-1
  BY <1>1, BlockFacts
<1>4. block_i \in BlockIds /\ Pick(block_i, Cardinality(BlockIds), r) \in BlockIds
  <2>1. Pick(block_i, Cardinality(BlockIds), r) \in block_i..Cardinality(BlockIds)-1
    BY <1>1, <1>3, PickInside
  <2> HIDE DEF ChaseInv, ShuffleBlocks
  <2> QED
    BY <1>1, <1>3, <2>1
<1>5. block_indices \in [BlockIds -> BlockIds]
  BY DEF Types
<1>6. /\ block_indices' \in [BlockIds -> BlockIds]
      /\ OneToOne(block_indices', BlockIds) /\ Onto(block_indices', BlockIds)
  <2>1. OneToOne(block_indices, BlockIds) /\ Onto(block_indices, BlockIds)
    BY DEF BlocksPermuted
  <2> HIDE DEF ChaseInv, ShuffleBlocks
  <2> DEFINE j == Pick(block_i, Cardinality(BlockIds), r)
             new == Swap(block_indices, block_i, j)
  <2>2. j \in BlockIds /\ block_i \in BlockIds /\ block_indices' = new
    BY <1>2, <1>4
  <2> HIDE DEF j
  <2>3. new \in [BlockIds -> BlockIds]
    BY <1>5, <2>2, SwapMoves
  <2>4. OneToOne(new, BlockIds)
    BY <1>5, <2>1, <2>2, SwapMoves
  <2>5. Onto(new, BlockIds)
    BY <1>5, <2>1, <2>2, SwapMoves
  <2> HIDE DEF new
  <2> QED
    BY <2>2, <2>3, <2>4, <2>5
<1>7. Types'
  BY <1>1, <1>6, SameArguments DEF Types
<1>8. BlocksPermuted'
  BY <1>1, <1>6, SameArguments DEF BlocksPermuted, OneToOne, Onto
<1>9. PhaseFits' /\ BlocksMove' /\ OrderMade' /\ CopiesMade'
  BY <1>1, SameArguments DEF PhaseFits, BlocksMove, OrderMade, CopiesMade, Arranging, Linking
<1>10. LinksMade' /\ ListsMade'
  BY <1>1, BeforeLinking DEF Linking, Linked, Types
<1> QED
  BY <1>7, <1>8, <1>9, <1>10

\* The strided indices are saved, and no block has been moved yet.
LEMMA SaveIndicesKeeps == ASSUME ChaseInv, SaveIndices PROVE ChaseInv'
<1> USE DEF ChaseInv, SaveIndices
<1>1. /\ args \in Arguments /\ args' = args /\ phase = "shuffle_blocks"
      /\ phase' = "move_blocks" /\ todo' = BlockIds
      /\ UNCHANGED <<block_indices, block_i, indices, in_block_i, relink_i, next>>
      /\ args.n % args.block_size = 0 /\ ShufflesBlocks
      /\ old_indices' = indices[0] /\ indices[0] = StridedIndices
  BY DEF Types, nodeVars, PhaseFits, BlocksMove
<1>2. StridedIndices \in [Nodes -> Nat]
  BY <1>1, StridedPermutes
<1>3. Types'
  BY <1>1, <1>2, SameArguments DEF Types, Phases
<1>4. BlocksPermuted'
  BY <1>1, BlocksPermutedNext
<1>5. PhaseFits' /\ BlocksMove' /\ OrderMade' /\ CopiesMade'
  BY <1>1, SameArguments DEF PhaseFits, BlocksMove, OrderMade, CopiesMade, Arranging, Linking
<1>6. LinksMade' /\ ListsMade'
  BY <1>1, BeforeLinking DEF Linking, Linked, Types, Phases
<1> QED
  BY <1>3, <1>4, <1>5, <1>6

\* A block is moved to a place no other block is moved to.
LEMMA MoveBlockKeeps ==
    ASSUME ChaseInv, NEW b \in BlockIds, MoveBlock(b)
    PROVE  ChaseInv'
<1> USE DEF ChaseInv, MoveBlock
<1> DEFINE place == block_indices[b]
           s == args.block_size
<1>1. /\ args \in Arguments /\ args' = args /\ phase = "move_blocks" /\ phase' = phase
      /\ UNCHANGED <<block_indices, block_i, old_indices, in_block_i, relink_i, next>>
      /\ args.n % args.block_size = 0 /\ ShufflesBlocks
      /\ old_indices = StridedIndices /\ todo \subseteq BlockIds /\ todo' = todo \ {b}
      /\ indices \in [Nodelets -> [Nodes -> Nat]] /\ 0 \in Nodelets
      /\ block_indices \in [BlockIds -> BlockIds] /\ OneToOne(block_indices, BlockIds)
  BY ArgumentFacts DEF Types, nodeVars, PhaseFits, BlocksMove, BlocksPermuted, Nodelets
<1>2. indices'[0] = [x \in Nodes |-> IF x \div s = place
                                     THEN StridedIndices[b * s + (x % s)]
                                     ELSE indices[0][x]]
  BY <1>1
<1>3. \A c \in BlockIds \ todo : HasBlock(indices[0], block_indices[c], c)
  BY <1>1 DEF BlocksMove
<1>4. indices' \in [Nodelets -> [Nodes -> Nat]]
  <2>1. indices'[0] \in [Nodes -> Nat]
    <3>1. StridedIndices \in [Nodes -> Nat]
      BY <1>1, StridedPermutes
    <3>2. ASSUME NEW x \in Nodes PROVE b * s + (x % s) \in Nodes
      BY <1>1, BlockFacts
    <3> QED
      BY <1>1, <1>2, <3>1, <3>2
  <2> QED
    BY <1>1, <2>1
<1>5. ASSUME NEW c \in BlockIds \ (todo \ {b}) PROVE HasBlock(indices'[0], block_indices[c], c)
  <2> SUFFICES ASSUME NEW j \in Offsets
               PROVE  indices'[0][block_indices[c] * s + j] = StridedIndices[c * s + j]
    BY DEF HasBlock
  <2>1. block_indices[c] \in BlockIds
    BY <1>1
  <2>2. /\ block_indices[c] * s + j \in Nodes
        /\ (block_indices[c] * s + j) \div s = block_indices[c]
        /\ (block_indices[c] * s + j) % s = j
    BY <1>1, <2>1, BlockFacts
  <2>3. CASE c = b
    BY <1>2, <2>2, <2>3
  <2>4. CASE c # b
    <3>1. block_indices[c] # place
      BY <1>1, <2>4 DEF OneToOne
    <3>2. indices[0][block_indices[c] * s + j] = StridedIndices[c * s + j]
      BY <1>3, <2>4 DEF HasBlock
    <3> QED
      BY <1>2, <2>2, <3>1, <3>2
  <2> QED
    BY <2>3, <2>4
<1>6. Types'
  BY <1>1, <1>4, SameArguments DEF Types
<1>7. BlocksPermuted'
  BY <1>1, BlocksPermutedNext
<1>8. BlocksMove'
  <2>1. \A c : HasBlock(indices[0], block_indices[c], c)'
                  <=> HasBlock(indices'[0], block_indices[c], c)
    BY <1>1, SameArguments DEF HasBlock
  <2> QED
    BY <1>1, <1>5, <2>1, SameArguments DEF BlocksMove
<1>9. PhaseFits' /\ OrderMade' /\ CopiesMade'
  BY <1>1, SameArguments DEF PhaseFits, OrderMade, CopiesMade, Arranging, Linking
<1>10. LinksMade' /\ ListsMade'
  BY <1>1, BeforeLinking DEF Linking, Linked, Types
<1> QED
  BY <1>6, <1>7, <1>8, <1>9, <1>10

\* Once all blocks are in their places, the order is one of the sort mode.
LEMMA BlocksMovedKeeps == ASSUME ChaseInv, BlocksMoved PROVE ChaseInv'
<1> USE DEF ChaseInv, BlocksMoved
<1>1. /\ args \in Arguments /\ args' = args /\ phase = "move_blocks" /\ todo = {}
      /\ UNCHANGED <<block_indices, block_i, old_indices, indices, in_block_i, relink_i, next>>
      /\ args.n % args.block_size = 0
      /\ phase' \in {"shuffle_in_blocks", "scatter"}
      /\ phase' = "shuffle_in_blocks" => ShufflesInBlocks
      /\ phase' = "scatter" => todo' = Nodelets \ {0}
  BY DEF Types, nodeVars, indexVars, PhaseFits, BlocksMove, AfterBlockShuffle, TodoIn
<1>2. Types'
  BY <1>1, SameArguments DEF Types, Phases
<1>3. BlocksPermuted'
  BY <1>1, BlocksPermutedNext
<1>4. OrderMade'
  <2>1. \A b \in BlockIds : HasBlock(indices[0], block_indices[b], b)
    BY <1>1 DEF BlocksMove
  <2>2. Arranges(indices[0], block_indices)
    BY <1>1, <2>1, BlocksArrange DEF Types, BlocksPermuted
  <2> QED
    BY <1>1, <2>2, OrderMadeNext
<1>5. PhaseFits' /\ BlocksMove' /\ CopiesMade'
  BY <1>1, SameArguments DEF PhaseFits, BlocksMove, CopiesMade, Linking
<1>6. LinksMade' /\ ListsMade'
  BY <1>1, BeforeLinking DEF Linking, Linked, Types, Phases
<1> QED
  BY <1>2, <1>3, <1>4, <1>5, <1>6

\* A shuffle inside a block exchanges two indices of this block.
LEMMA ShuffleInBlockKeeps ==
    ASSUME ChaseInv, NEW b \in BlockIds, ShuffleInBlock(b)
    PROVE  ChaseInv'
<1> USE DEF ChaseInv, ShuffleInBlock
<1> DEFINE s == args.block_size
           i == in_block_i[b]
<1>1. /\ args \in Arguments /\ args' = args /\ phase = "shuffle_in_blocks" /\ phase' = phase
      /\ UNCHANGED <<block_indices, block_i, old_indices, todo, relink_i, next>>
      /\ args.n % args.block_size = 0 /\ ShufflesInBlocks
      /\ indices \in [Nodelets -> [Nodes -> Nat]] /\ 0 \in Nodelets
      /\ block_indices \in [BlockIds -> BlockIds]
      /\ s \in Nat \ {0} /\ i \in Nat /\ i + 1 < s
      /\ in_block_i' = [in_block_i EXCEPT ![b] = @ + 1] /\ in_block_i \in [BlockIds -> Nat]
  BY ArgumentFacts DEF Types, nodeVars, PhaseFits, Nodelets
<1>2. PICK r \in 0..RandMax :
         indices' = [indices EXCEPT ![0] = Swap(@, b * s + i, b * s + Pick(i, s, r))]
  OBVIOUS
<1> DEFINE j == Pick(i, s, r)
           new == Swap(indices[0], b * s + i, b * s + j)
<1>3. i \in Offsets /\ j \in Offsets
  <2>1. j \in i..s-1
    BY <1>1, PickInside
  <2> HIDE DEF ChaseInv, ShuffleInBlock, i, j, s
  <2>2. i \in 0..s-1 /\ j \in 0..s-1
    BY <1>1, <2>1
  <2> QED
    BY <2>2 DEF Offsets, s
<1>4. b * s + i \in Nodes /\ b * s + j \in Nodes
  BY <1>1, <1>3, BlockFacts
<1>5. indices[0] \in [Nodes -> Nat] /\ OneToOne(indices[0], Nodes)
  BY <1>1 DEF OrderMade, Arranging, Arranges
<1>6. new \in [Nodes -> Nat] /\ OneToOne(new, Nodes)
  <2> HIDE DEF ChaseInv, ShuffleInBlock, i, j, s
  <2> QED
    BY <1>4, <1>5, SwapMoves
<1>7. indices'[0] = new /\ indices' \in [Nodelets -> [Nodes -> Nat]]
  BY <1>1, <1>2, <1>6
<1>8. Arranges(new, block_indices)
  <2>1. ASSUME NEW c \in BlockIds
        PROVE  Elements(new, block_indices[c]) = Elements(StridedIndices, c)
    <3>1. Elements(indices[0], block_indices[c]) = Elements(StridedIndices, c)
      BY <1>1 DEF OrderMade, Arranging, Arranges
    <3>2. block_indices[c] \in BlockIds
      BY <1>1
    <3>3. Elements(new, block_indices[c]) = Elements(indices[0], block_indices[c])
      BY <1>1, <1>3, <1>5, <3>2, SwapInBlock
    <3> QED
      BY <3>1, <3>3
  <2> QED
    BY <1>1, <1>6, <2>1 DEF Arranges
<1>9. Types'
  <2> HIDE DEF ShuffleInBlock, s, i, j, new
  <2>1. in_block_i' \in [BlockIds -> Nat]
    <3>1. in_block_i[b] + 1 \in Nat
      BY <1>1 DEF i
    <3> QED
      BY <1>1, <3>1
  <2> QED
    BY <1>1, <1>7, <2>1, SameArguments DEF Types
<1>10. BlocksPermuted'
  BY <1>1, BlocksPermutedNext
<1>11. OrderMade'
  BY <1>1, <1>7, <1>8, OrderMadeNext
<1>12. PhaseFits' /\ BlocksMove' /\ CopiesMade'
  BY <1>1, SameArguments DEF PhaseFits, BlocksMove, CopiesMade, Linking
<1>13. LinksMade' /\ ListsMade'
  BY <1>1, BeforeLinking DEF Linking, Linked, Types
<1> QED
  BY <1>9, <1>10, <1>11, <1>12, <1>13

\* The copies are made once the order is.
LEMMA BlocksShuffledKeeps == ASSUME ChaseInv, BlocksShuffled PROVE ChaseInv'
<1> USE DEF ChaseInv, BlocksShuffled
<1>1. /\ args \in Arguments /\ args' = args /\ phase = "shuffle_in_blocks" /\ phase' = "scatter"
      /\ UNCHANGED <<block_indices, block_i, old_indices, indices, in_block_i, relink_i, next>>
      /\ args.n % args.block_size = 0 /\ todo' = Nodelets \ {0}
  BY DEF Types, nodeVars, indexVars, PhaseFits, TodoIn
<1>2. Types'
  BY <1>1, SameArguments DEF Types, Phases
<1>3. BlocksPermuted'
  BY <1>1, BlocksPermutedNext
<1>4. OrderMade'
  BY <1>1, OrderMadeNext DEF OrderMade, Arranging
<1>5. PhaseFits' /\ BlocksMove' /\ CopiesMade'
  BY <1>1, SameArguments DEF PhaseFits, BlocksMove, CopiesMade, Linking
<1>6. LinksMade' /\ ListsMade'
  BY <1>1, BeforeLinking DEF Linking, Linked, Types, Phases
<1> QED
  BY <1>2, <1>3, <1>4, <1>5, <1>6

\* A copy is one of the order, which is not written any more.
LEMMA ScatterKeeps ==
    ASSUME ChaseInv, NEW k \in Nodelets, Scatter(k)
    PROVE  ChaseInv'
<1> USE DEF ChaseInv, Scatter
<1>1. /\ args \in Arguments /\ args' = args /\ phase = "scatter" /\ phase' = "scatter"
      /\ UNCHANGED <<block_indices, block_i, old_indices, in_block_i, relink_i, next>>
      /\ args.n % args.block_size = 0 /\ indices \in [Nodelets -> [Nodes -> Nat]]
      /\ indices' = [indices EXCEPT ![k] = indices[0]] /\ todo' = todo \ {k} /\ 0 \in Nodelets
      /\ todo \subseteq Nodelets \ {0} /\ \A l \in Nodelets \ todo : indices[l] = indices[0]
  BY ArgumentFacts DEF Types, nodeVars, PhaseFits, CopiesMade, Nodelets
<1>2. indices' \in [Nodelets -> [Nodes -> Nat]] /\ indices'[0] = indices[0]
  BY <1>1
<1>3. Types'
  BY <1>1, <1>2, SameArguments DEF Types
<1>4. BlocksPermuted'
  BY <1>1, BlocksPermutedNext
<1>5. OrderMade'
  BY <1>1, <1>2, OrderMadeNext DEF OrderMade, Arranging
<1>6. CopiesMade'
  BY <1>1, <1>2, SameArguments DEF CopiesMade, Linking
<1>7. PhaseFits' /\ BlocksMove'
  BY <1>1, SameArguments DEF PhaseFits, BlocksMove
<1>8. LinksMade' /\ ListsMade'
  BY <1>1, BeforeLinking DEF Linking, Linked, Types
<1> QED
  BY <1>3, <1>4, <1>5, <1>6, <1>7, <1>8

\* The nodes are linked once every nodelet has its copy.
LEMMA ScatteredKeeps == ASSUME ChaseInv, Scattered PROVE ChaseInv'
<1> USE DEF ChaseInv, Scattered
<1>1. /\ args \in Arguments /\ args' = args /\ phase = "scatter" /\ phase' = "relink"
      /\ UNCHANGED <<block_indices, block_i, old_indices, indices, in_block_i, todo,
                     relink_i, next>>
      /\ args.n % args.block_size = 0 /\ \A l \in Nodelets : indices[l] = indices[0]
  BY DEF Types, setupVars, nodeVars, indexVars, PhaseFits, CopiesMade
<1>2. Types'
  BY <1>1, SameArguments DEF Types, Phases
<1>3. BlocksPermuted'
  BY <1>1, BlocksPermutedNext
<1>4. OrderMade'
  BY <1>1, OrderMadeNext DEF OrderMade, Arranging
<1>5. PhaseFits' /\ BlocksMove' /\ CopiesMade'
  BY <1>1, SameArguments DEF PhaseFits, BlocksMove, CopiesMade
<1>6. LinksMade' /\ ListsMade'
  BY <1>1, BeforeLinking DEF Linking, Linked, Types, Phases
<1> QED
  BY <1>2, <1>3, <1>4, <1>5, <1>6

\* A relink worker links its next node, which no worker has linked before, for no node
\* is twice in the order.
LEMMA RelinkKeeps ==
    ASSUME ChaseInv, NEW k \in Nodelets, Relink(k)
    PROVE  ChaseInv'
<1> USE DEF ChaseInv
<1> DEFINE m == args.nodelets
           i == relink_i[k]
           a == indices[k][i]
           b == indices[k][Successor(i)]
<1>1. /\ args \in Arguments /\ args' = args /\ phase = "relink" /\ i < args.n
      /\ UNCHANGED <<block_indices, block_i, old_indices, indices, in_block_i, todo>>
      /\ args.n % args.block_size = 0
      /\ m \in Nat \ {0} /\ Nodelets = 0..m-1 /\ args.n \in Nat \ {0}
      /\ i \in Nat /\ relink_i \in [Nodelets -> Nat] /\ i % m = k
      /\ next \in [Nodes -> Nodes \cup {Null, Unset}]
      /\ indices[k] = indices[0] /\ OneToOne(indices[0], Nodes)
  BY ArgumentFacts DEF Relink, Types, indexVars, PhaseFits, Nodelets, LinksMade, CopiesMade,
                       Linking, OrderMade, Arranging, Arranges
<1>2. \/ /\ {a, b} \subseteq Nodes
         /\ next' = [next EXCEPT ![a] = b]
         /\ relink_i' = [relink_i EXCEPT ![k] = @ + m]
         /\ phase' = phase
      \/ phase' = "wild" /\ UNCHANGED <<relink_i, next>>
  BY DEF Relink, Successor
<1>3. /\ i \in Nodes /\ a = indices[0][i] /\ b = indices[0][Successor(i)]
  BY <1>1 DEF Nodes
<1>4. Types'
  <2>1. relink_i' \in [Nodelets -> Nat]
    <3>1. i + m \in Nat
      BY <1>1
    <3> HIDE DEF a, b
    <3> QED
      BY <1>1, <1>2, <3>1
  <2>2. next' \in [Nodes -> Nodes \cup {Null, Unset}]
    <3> HIDE DEF a, b
    <3> QED
      BY <1>1, <1>2
  <2> HIDE DEF a, b
  <2> QED
    BY <1>1, <1>2, <2>1, <2>2, SameArguments DEF Types, Phases
<1>5. BlocksPermuted'
  BY <1>1, BlocksPermutedNext
<1>6. OrderMade'
  BY <1>1, <1>2, OrderMadeNext DEF OrderMade, Arranging, Linking
<1>7. PhaseFits' /\ BlocksMove' /\ CopiesMade' /\ ListsMade'
  BY <1>1, <1>2, SameArguments
     DEF PhaseFits, BlocksMove, CopiesMade, ListsMade, Linking, Linked
<1>8. LinksMade'
  <2>1. CASE phase' = "wild"
    BY <2>1 DEF LinksMade, Linking
  <2>2. CASE phase' = "relink"
    <3>1. /\ a \in Nodes /\ b \in Nodes
          /\ next' = [next EXCEPT ![a] = b] /\ relink_i' = [relink_i EXCEPT ![k] = @ + m]
      BY <1>2, <2>2
    <3>2. relink_i'[k] = i + m /\ \A l \in Nodelets \ {k} : relink_i'[l] = relink_i[l]
      BY <1>1, <3>1
    <3>3. (i + m) % m = k /\ \A x \in Nat : x % m = k /\ x < i + m => x <= i
      BY <1>1, RelinkTurn
    <3>4. \A l \in Nodelets : relink_i'[l] % m = l
      BY <1>1, <3>2, <3>3 DEF LinksMade
    <3>5. ASSUME NEW x \in Nodes, x < relink_i'[Home(x)]
          PROVE  InPool(x) /\ next'[indices[0][x]] = indices[0][Successor(x)]
      <4>1. x \in Nat /\ Home(x) \in Nodelets /\ Home(x) = x % m
        <5>1. x \in Nat
          BY <1>1 DEF Nodes
        <5> QED
          BY <1>1, <5>1, Divides DEF Home
      <4>2. CASE x = i
        BY <1>1, <1>3, <3>1, <4>2 DEF InPool
      <4>3. CASE x # i
        <5>1. x < relink_i[Home(x)]
          <6>1. CASE Home(x) = k
            <7>1. x <= i
              BY <3>2, <3>3, <3>5, <4>1, <6>1
            <7> QED
              BY <1>1, <4>1, <4>3, <6>1, <7>1
          <6>2. CASE Home(x) # k
            BY <3>2, <3>5, <4>1, <6>2
          <6> QED
            BY <6>1, <6>2
        <5>2. InPool(x) /\ next[indices[0][x]] = indices[0][Successor(x)]
          BY <1>1, <5>1 DEF LinksMade
        <5>3. indices[0][x] # a
          BY <1>1, <1>3, <4>3 DEF OneToOne
        <5>4. indices[0][x] \in Nodes
          BY <5>2 DEF InPool
        <5> HIDE DEF a, b
        <5>5. next'[indices[0][x]] = next[indices[0][x]]
          BY <1>1, <3>1, <5>3, <5>4
        <5> QED
          BY <5>2, <5>5
      <4> QED
        BY <4>2, <4>3
    <3>6. \A x : InPool(x)' <=> InPool(x)
      BY <1>1, SameArguments DEF InPool
    <3>7. Linking'
      BY <2>2 DEF Linking
    <3> QED
      BY <1>1, <2>2, <3>4, <3>5, <3>6, <3>7, SameArguments DEF LinksMade
  <2> QED
    BY <1>1, <1>2, <2>1, <2>2
<1> QED
  BY <1>4, <1>5, <1>6, <1>7, <1>8

\* When the workers are done, every node is linked to the next one.
LEMMA RelinkedKeeps == ASSUME ChaseInv, Relinked PROVE ChaseInv'
<1> USE DEF ChaseInv, Relinked
<1>1. /\ args \in Arguments /\ args' = args /\ phase = "relink" /\ phase' = "chop"
      /\ UNCHANGED <<block_indices, block_i, old_indices, indices, in_block_i, todo,
                     relink_i, next>>
      /\ args.n % args.block_size = 0 /\ \A k \in Nodelets : relink_i[k] >= args.n
  BY DEF Types, setupVars, nodeVars, indexVars, PhaseFits
<1>2. Types'
  BY <1>1, SameArguments DEF Types, Phases
<1>3. BlocksPermuted'
  BY <1>1, BlocksPermutedNext
<1>4. OrderMade'
  BY <1>1, OrderMadeNext DEF OrderMade, Arranging, Linking
<1>5. PhaseFits' /\ BlocksMove' /\ CopiesMade' /\ ListsMade'
  BY <1>1, SameArguments DEF PhaseFits, BlocksMove, CopiesMade, ListsMade, Linking, Linked
<1>6. LinksMade'
  <2>1. ASSUME NEW x \in Nodes
        PROVE  InPool(x) /\ next[indices[0][x]] = indices[0][Successor(x)]
    <3>1. /\ x \in Nat /\ x < args.n /\ args.n \in Nat
          /\ args.nodelets \in Nat \ {0} /\ Nodelets = 0..args.nodelets-1
      BY <1>1, ArgumentFacts DEF Nodes, Nodelets
    <3>2. Home(x) \in Nodelets
      BY <3>1, Divides DEF Home
    <3>3. relink_i[Home(x)] \in Nat /\ relink_i[Home(x)] >= args.n
      BY <1>1, <3>2 DEF Types
    <3>4. x < relink_i[Home(x)]
      BY <3>1, <3>3
    <3> QED
      BY <1>1, <3>4 DEF LinksMade
  <2>2. \A x : InPool(x)' <=> InPool(x)
    BY <1>1, SameArguments DEF InPool
  <2>3. Linking'
    BY <1>1 DEF Linking
  <2> QED
    BY <1>1, <2>1, <2>2, <2>3, SameArguments DEF LinksMade
<1> QED
  BY <1>2, <1>3, <1>4, <1>5, <1>6

\* The list is cut behind each chunk, and nowhere else, for no other node is a tail.
LEMMA ChopKeeps == ASSUME ChaseInv, Chop PROVE ChaseInv'
<1> USE DEF ChaseInv
<1>1. /\ args \in Arguments /\ args' = args /\ phase = "chop"
      /\ UNCHANGED <<block_indices, block_i, old_indices, indices, in_block_i, todo, relink_i>>
      /\ args.n % args.block_size = 0 /\ OneToOne(indices[0], Nodes)
      /\ \A i \in Nodes : InPool(i) /\ next[indices[0][i]] = indices[0][Successor(i)]
      /\ next \in [Nodes -> Nodes \cup {Null, Unset}]
  BY DEF Chop, Types, indexVars, PhaseFits, LinksMade, OrderMade, Arranging, Arranges, Linking
<1>2. \/ phase' = "wild" /\ next' = next
      \/ /\ ChunkSize # 0 /\ phase' = "start"
         /\ heads' = [t \in Chasers |-> indices[0][t * ChunkSize]]
         /\ next' = [x \in Nodes |->
                        IF \E t \in Chasers : x = indices[0][LastIndex(t, ChunkSize)]
                        THEN Null ELSE next[x]]
  BY DEF Chop, ChunkSize
<1>3. Types'
  <2>1. next' \in [Nodes -> Nodes \cup {Null, Unset}]
    BY <1>1, <1>2
  <2> QED
    BY <1>1, <1>2, <2>1, SameArguments DEF Types, Phases
<1>4. BlocksPermuted'
  BY <1>1, BlocksPermutedNext
<1>5. OrderMade'
  BY <1>1, <1>2, OrderMadeNext DEF OrderMade, Arranging, Linking
<1>6. PhaseFits' /\ BlocksMove' /\ CopiesMade' /\ LinksMade'
  BY <1>1, <1>2, SameArguments DEF PhaseFits, BlocksMove, CopiesMade, LinksMade, Linking
<1>7. ListsMade'
  <2>1. CASE phase' = "wild"
    BY <2>1 DEF ListsMade, Linked
  <2>2. CASE phase' = "start"
    <3>1. /\ ChunkSize # 0
          /\ heads' = [t \in Chasers |-> indices[0][t * ChunkSize]]
          /\ next' = [x \in Nodes |->
                         IF \E t \in Chasers : x = indices[0][LastIndex(t, ChunkSize)]
                         THEN Null ELSE next[x]]
      BY <1>2, <2>2
    <3>2. ASSUME NEW i \in Nodes
          PROVE  next'[indices[0][i]] = IF IsTail(i) THEN Null ELSE indices[0][Successor(i)]
      <4>1. \A t \in Chasers : indices[0][i] = indices[0][LastIndex(t, ChunkSize)]
                                  <=> i = LastIndex(t, ChunkSize)
        BY <1>1, <3>1, ChunkFacts DEF OneToOne
      <4>2. indices[0][i] \in Nodes
        BY <1>1 DEF InPool
      <4> QED
        BY <1>1, <3>1, <4>1, <4>2 DEF IsTail
    <3>3. \A i : (InPool(i)' <=> InPool(i)) /\ (IsTail(i)' <=> IsTail(i))
      BY <1>1, SameArguments DEF InPool, IsTail, LastIndex
    <3> QED
      BY <1>1, <3>1, <3>2, <3>3, SameArguments DEF ListsMade
  <2> QED
    BY <1>2, <2>1, <2>2
<1> QED
  BY <1>3, <1>4, <1>5, <1>6, <1>7

\* The trials only read the lists.
LEMMA TrialsKeep ==
    ASSUME ChaseInv, UNCHANGED setupVars,
           phase' = phase \/ {phase, phase'} \subseteq {"start", "run", "failed", "finished"}
    PROVE  ChaseInv'
<1> USE DEF ChaseInv
<1>1. /\ args' = args /\ phase' \in Phases
      /\ UNCHANGED <<block_indices, block_i, old_indices, indices, in_block_i, todo,
                     relink_i, next, heads>>
      /\ (Linking' <=> Linking) /\ (Linked' <=> Linked) /\ (Arranging' <=> Arranging)
  BY DEF setupVars, indexVars, nodeVars, Types, Phases, Linking, Linked, Arranging
<1>2. Types'
  BY <1>1, SameArguments DEF Types
<1>3. BlocksPermuted'
  BY <1>1, BlocksPermutedNext
<1>4. OrderMade'
  BY <1>1, OrderMadeNext DEF OrderMade
<1>5. \A x, b, i : /\ HasBlock(indices[0], x, b)' <=> HasBlock(indices[0], x, b)
                   /\ InPool(i)' <=> InPool(i)
                   /\ IsTail(i)' <=> IsTail(i)
  BY <1>1, SameArguments DEF HasBlock, InPool, IsTail, LastIndex
<1>6. PhaseFits'
  BY <1>1, SameArguments DEF PhaseFits
<1>7. BlocksMove'
  BY <1>1, <1>5, SameArguments DEF BlocksMove
<1>8. CopiesMade'
  BY <1>1, SameArguments DEF CopiesMade
<1>9. LinksMade'
  BY <1>1, <1>5, SameArguments DEF LinksMade
<1>10. ListsMade'
  BY <1>1, <1>5, SameArguments DEF ListsMade
<1> QED
  BY <1>2, <1>3, <1>4, <1>6, <1>7, <1>8, <1>9, <1>10

\* Every step keeps the invariant.
LEMMA ChaseInvStep == ChaseInv /\ [Next]_vars => ChaseInv'
<1> SUFFICES ASSUME ChaseInv, [Next]_vars PROVE ChaseInv'
  OBVIOUS
<1>1. CASE Main
  <2>1. CASE StartTrial
    BY <2>1, TrialsKeep DEF StartTrial
  <2>2. CASE EndTrial
    <3>1. phase' \in {"failed", "start", "finished"}
      BY <2>2 DEF EndTrial
    <3> QED
      BY <2>2, <3>1, TrialsKeep DEF EndTrial
  <2> QED
    BY <1>1, <2>1, <2>2, InitIndicesKeeps, ShuffleBlocksKeeps, SaveIndicesKeeps,
       BlocksMovedKeeps, BlocksShuffledKeeps, ScatteredKeeps, RelinkedKeeps, ChopKeeps
       DEF Main
<1>2. CASE Worker
  <2>1. ASSUME NEW s \in spawners, SpawnLocal(s) \/ SpawnChaser(s) \/ SpawnerExits(s)
        PROVE  ChaseInv'
    BY <2>1, TrialsKeep DEF SpawnLocal, SpawnChaser, SpawnerExits
  <2>2. ASSUME NEW t \in Chasers, Chase(t) \/ Add(t)
        PROVE  ChaseInv'
    BY <2>2, TrialsKeep DEF Chase, Add
  <2> QED
    BY <1>2, <2>1, <2>2, MoveBlockKeeps, ShuffleInBlockKeeps, ScatterKeeps, RelinkKeeps
       DEF Worker
<1>3. CASE UNCHANGED vars
  BY <1>3, TrialsKeep DEF vars
<1> QED
  BY <1>1, <1>2, <1>3 DEF Next

\* Whatever the shuffles draw and however the workers interleave, the order, its copies and
\* the links are as the phase promises.
THEOREM ChaseInvariant == Spec => []ChaseInv
BY ChaseInvInit, ChaseInvStep, PTL DEF Spec

\* The order has an element of each node in every copy, for the strided order has all nodes
\* and each block is somewhere with its elements.
THEOREM ChaseIndicesPermutation == Spec => []IndicesPermutation
<1>1. ChaseInv => IndicesPermutation
  <2> SUFFICES ASSUME ChaseInv, Linking, args.nodelets <= args.n
               PROVE  {indices[0][i] : i \in Nodes} = Nodes
    BY DEF IndicesPermutation, ChaseInv, CopiesMade
  <2> DEFINE f == indices[0]
             d == block_indices
             s == args.block_size
  <2>1. /\ args \in Arguments /\ args.n % s = 0 /\ d \in [BlockIds -> BlockIds]
        /\ Onto(d, BlockIds) /\ Arranges(f, d)
    BY DEF ChaseInv, Types, BlocksPermuted, PhaseFits, OrderMade, Arranging, Linking
  <2>2. \A b \in BlockIds : {f[d[b] * s + j] : j \in Offsets}
                               = {StridedIndices[b * s + j] : j \in Offsets}
    BY <2>1, ElementsAre DEF Arranges
  <2>3. /\ \A x \in Nodes : StridedIndices[x] \in Nodes
        /\ \A y \in Nodes : \E x \in Nodes : StridedIndices[x] = y
    BY <2>1, StridedPermutes
  <2>4. ASSUME NEW x \in Nodes
        PROVE  \E b \in BlockIds, j \in Offsets : x = b * s + j
    BY <2>1, BlockFacts
  <2>5. \A b \in BlockIds, j \in Offsets : b * s + j \in Nodes
    BY <2>1, BlockFacts
  <2> HIDE DEF f, d, s
  <2>6. ASSUME NEW i \in Nodes PROVE f[i] \in Nodes
    <3>1. PICK c \in BlockIds, j \in Offsets : i = c * s + j
      BY <2>4
    <3>2. PICK b \in BlockIds : d[b] = c
      BY <2>1 DEF Onto
    <3>3. f[i] \in {f[d[b] * s + l] : l \in Offsets}
      BY <3>1, <3>2
    <3>4. PICK l \in Offsets : f[i] = StridedIndices[b * s + l]
      BY <2>2, <3>3
    <3> QED
      BY <2>3, <2>5, <3>4
  <2>7. ASSUME NEW y \in Nodes PROVE \E i \in Nodes : f[i] = y
    <3>1. PICK x \in Nodes : StridedIndices[x] = y
      BY <2>3
    <3>2. PICK b \in BlockIds, j \in Offsets : x = b * s + j
      BY <2>4
    <3>3. y \in {StridedIndices[b * s + l] : l \in Offsets}
      BY <3>1, <3>2
    <3>4. PICK l \in Offsets : y = f[d[b] * s + l]
      BY <2>2, <3>3
    <3>5. d[b] * s + l \in Nodes
      BY <2>1, <2>5
    <3> QED
      BY <3>4, <3>5
  <2> QED
    BY <2>6, <2>7 DEF f
<1> QED
  BY <1>1, ChaseInvariant, PTL

\* The order is one that README.md allows in its sort mode.
THEOREM ChaseSortModeRespected == Spec => []SortModeRespected
<1>1. ChaseInv => SortModeRespected
  <2> SUFFICES ASSUME ChaseInv, Linking, NEW b \in BlockIds
               PROVE  \E d \in BlockIds :
                         /\ Elements(indices[0], d) = Elements(StridedIndices, b)
                         /\ ShufflesBlocks \/ d = b
                         /\ ShufflesInBlocks
                               \/ Block(indices[0], d) = Block(StridedIndices, b)
    BY DEF SortModeRespected
  <2>1. block_indices[b] \in BlockIds /\ Arranges(indices[0], block_indices)
    BY DEF ChaseInv, Types, OrderMade, Arranging
  <2>2. Elements(indices[0], block_indices[b]) = Elements(StridedIndices, b)
    BY <2>1 DEF Arranges
  <2>3. ShufflesBlocks \/ block_indices[b] = b
    BY DEF ChaseInv, BlocksPermuted
  <2>4. ASSUME ~ShufflesInBlocks
        PROVE  Block(indices[0], block_indices[b]) = Block(StridedIndices, b)
    BY <2>1, <2>4 DEF Arranges, HasBlock, Block, Offsets
  <2> QED
    BY <2>1, <2>2, <2>3, <2>4
<1> QED
  BY <1>1, ChaseInvariant, PTL

\* The nodes that are reached from a head are those of the thread's chunk.
LEMMA HeadWalks ==
    ASSUME ChaseInv, Linked, NEW t \in Chasers
    PROVE  \A k \in 0..ChunkSize :
              Walk(heads[t])[k] = IF k = ChunkSize THEN Null ELSE indices[0][t * ChunkSize + k]
<1> DEFINE n == args.n
           c == ChunkSize
           At(k) == indices[0][t * c + k]
           Steps(w) == w = [k \in 0..n |->
                               IF k = 0 THEN heads[t]
                               ELSE IF w[k - 1] \in Nodes THEN next[w[k - 1]] ELSE Null]
           chunk == [k \in 0..n |-> IF k < c THEN At(k) ELSE Null]
<1>1. /\ args \in Arguments /\ c # 0 /\ heads[t] = indices[0][t * c]
      /\ \A i \in Nodes : /\ InPool(i)
                          /\ next[indices[0][i]] = IF IsTail(i) THEN Null
                                                   ELSE indices[0][Successor(i)]
  BY DEF ChaseInv, Types, ListsMade
<1>2. n \in Nat /\ c \in Nat \ {0} /\ c <= n /\ t \in Nat /\ Null \notin Nodes
  <2>1. n \in Nat /\ args.num_threads \in Nat \ {0} /\ Null \notin Nodes
    BY <1>1, ArgumentFacts DEF Nodes
  <2>2. c \in Nat \ {0} /\ t \in Nat
    BY <1>1, <2>1, ChunkFacts DEF Chasers
  <2>3. c = n \div args.num_threads
    BY DEF ChunkSize
  <2> HIDE DEF n, c
  <2>4. n = c * args.num_threads + (n % args.num_threads) /\ n % args.num_threads \in Nat
    <3>1. /\ n = (n \div args.num_threads) * args.num_threads + (n % args.num_threads)
          /\ n % args.num_threads \in 0..args.num_threads-1
      BY <2>1, Divides
    <3> QED
      BY <2>1, <2>3, <3>1
  <2>5. c * args.num_threads - c = c * (args.num_threads - 1)
        /\ c * (args.num_threads - 1) \in Nat /\ c * args.num_threads \in Nat
    BY <2>1, <2>2
  <2> QED
    BY <2>1, <2>2, <2>4, <2>5
<1>3. ASSUME NEW k \in 0..c-1
      PROVE  At(k) \in Nodes /\ next[At(k)] = IF k = c - 1 THEN Null ELSE At(k + 1)
  <2>1. /\ t * c + k \in Nodes
        /\ IsTail(t * c + k) <=> k = c - 1
        /\ k # c - 1 => Successor(t * c + k) = t * c + (k + 1)
    BY <1>1, ChunkFacts
  <2> QED
    BY <1>1, <2>1 DEF InPool
<1>4. heads[t] = At(0)
  <2>1. t * c + 0 = t * c
    BY <1>2
  <2> QED
    BY <1>1, <2>1
<1> HIDE DEF n, c, At
<1>5. Steps(chunk)
  <2>1. ASSUME NEW k \in 0..n
        PROVE  chunk[k] = IF k = 0 THEN heads[t]
                          ELSE IF chunk[k - 1] \in Nodes THEN next[chunk[k - 1]] ELSE Null
    <3>1. CASE k = 0
      BY <1>2, <1>4, <3>1
    <3>2. CASE k # 0 /\ k <= c
      <4>1. k - 1 \in 0..c-1 /\ k - 1 \in 0..n /\ (k - 1) + 1 = k /\ k - 1 < c
        BY <1>2, <3>2
      <4>2. chunk[k - 1] = At(k - 1)
        BY <4>1
      <4>3. /\ At(k - 1) \in Nodes
            /\ next[At(k - 1)] = IF k - 1 = c - 1 THEN Null ELSE At((k - 1) + 1)
        BY <1>3, <4>1
      <4>4. next[At(k - 1)] = chunk[k]
        BY <1>2, <3>2, <4>1, <4>3
      <4> QED
        BY <3>2, <4>2, <4>3, <4>4
    <3>3. CASE k > c
      <4>1. k - 1 \in 0..n /\ ~(k - 1 < c) /\ ~(k < c) /\ k # 0
        BY <1>2, <3>3
      <4>2. chunk[k - 1] = Null /\ chunk[k] = Null
        BY <4>1
      <4> QED
        BY <1>2, <4>1, <4>2
    <3> QED
      BY <1>2, <3>1, <3>2, <3>3
  <2> QED
    BY <2>1
<1> DEFINE walk == Walk(heads[t])
<1>6. Steps(walk)
  <2>1. walk = CHOOSE w : Steps(w)
    BY DEF Walk, n
  <2> HIDE DEF Steps, walk, chunk
  <2> QED
    BY <1>5, <2>1
<1> HIDE DEF walk, chunk
<1> DEFINE Good == {k \in Nat : k <= c => walk[k] = IF k = c THEN Null ELSE At(k)}
<1>7. 0 \in Good
  BY <1>2, <1>4, <1>6
<1>8. ASSUME NEW k \in Nat, k \in Good PROVE k + 1 \in Good
  <2> SUFFICES ASSUME k + 1 <= c PROVE walk[k + 1] = IF k + 1 = c THEN Null ELSE At(k + 1)
    BY <1>8
  <2>1. k \in 0..c-1 /\ k + 1 \in 0..n /\ (k + 1) - 1 = k /\ k + 1 # 0
    BY <1>2
  <2>2. walk[k] = At(k)
    BY <1>2, <1>8, <2>1
  <2>3. walk[k + 1] = IF walk[k] \in Nodes THEN next[walk[k]] ELSE Null
    BY <1>6, <2>1
  <2>4. At(k) \in Nodes /\ next[At(k)] = IF k = c - 1 THEN Null ELSE At(k + 1)
    BY <1>3, <2>1
  <2> QED
    BY <1>2, <2>1, <2>2, <2>3, <2>4
<1>9. Good = Nat
  <2>1. Good \in SUBSET Nat
    OBVIOUS
  <2> HIDE DEF Good
  <2> QED
    BY <1>7, <1>8, <2>1, Counting
<1> QED
  BY <1>2, <1>9 DEF c, At, walk

\* Each thread's list is its chunk of the order.
THEOREM ChaseListsAreChunks == Spec => []ListsAreChunks
<1>1. ChaseInv => ListsAreChunks
  BY HeadWalks DEF ListsAreChunks, ChunkSize
<1> QED
  BY <1>1, ChaseInvariant, PTL
=============================================================================
