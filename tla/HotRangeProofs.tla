--------------------------- MODULE HotRangeProofs ---------------------------
(***************************************************************************)
(* Proofs about hot_range.c and hot_range_chunked.c for all command lines  *)
(* and numbers of trials: no update of a hot word is lost, and the         *)
(* validation says what it should.                                         *)
(***************************************************************************)
EXTENDS HotRange, Integers, FiniteSetTheorems, FunctionTheorems, TLAPS

-----------------------------------------------------------------------------
(* Powers of two *)

\* The prover computes a power only when it sees the exponent.
Powers ==
    {1, 2, 4, 8, 16, 32, 64, 128, 256, 512, 1024, 2048, 4096, 8192, 16384, 32768,
     65536, 131072, 262144, 524288, 1048576, 2097152, 4194304, 8388608, 16777216,
     33554432, 67108864, 134217728, 268435456, 536870912, 1073741824}

\* They are all powers of two below 2^31.
LEMMA PowersAre == PowersOfTwo \subseteq Powers
<1>1. /\ 2^0 = 1 /\ 2^1 = 2 /\ 2^2 = 4 /\ 2^3 = 8 /\ 2^4 = 16
      /\ 2^5 = 32 /\ 2^6 = 64 /\ 2^7 = 128 /\ 2^8 = 256 /\ 2^9 = 512
      /\ 2^10 = 1024 /\ 2^11 = 2048 /\ 2^12 = 4096 /\ 2^13 = 8192 /\ 2^14 = 16384
      /\ 2^15 = 32768 /\ 2^16 = 65536 /\ 2^17 = 131072 /\ 2^18 = 262144 /\ 2^19 = 524288
      /\ 2^20 = 1048576 /\ 2^21 = 2097152 /\ 2^22 = 4194304 /\ 2^23 = 8388608 /\ 2^24 = 16777216
      /\ 2^25 = 33554432 /\ 2^26 = 67108864 /\ 2^27 = 134217728 /\ 2^28 = 268435456 /\ 2^29 = 536870912
      /\ 2^30 = 1073741824
  OBVIOUS
<1> QED
  BY <1>1 DEF PowersOfTwo, Powers

\* The smaller of two of them divides the larger one.
LEMMA PowersDivide ==
    ASSUME NEW p \in PowersOfTwo, NEW q \in PowersOfTwo
    PROVE  /\ p \in Nat \ {0} /\ q \in Nat \ {0}
           /\ p <= q => \E m \in Nat \ {0} : q = m * p
<1>1. \A x \in Powers : x \in Nat \ {0}
  BY DEF Powers
<1>2. \A x, y \in Powers : x <= y => \E m \in Powers : y = m * x
  BY SMTT(60) DEF Powers
<1> QED
  BY <1>1, <1>2, PowersAre

-----------------------------------------------------------------------------
(* Division *)

\* Quotient and remainder are unique.
LEMMA DivisionUnique ==
    ASSUME NEW n \in Nat \ {0}, NEW q \in Nat, NEW r \in 0..n-1
    PROVE  (q * n + r) \div n = q /\ (q * n + r) % n = r
<1> DEFINE a == q * n + r
<1>1. a \in Nat
  OBVIOUS
<1>2. a = n * (a \div n) + (a % n) /\ a % n \in 0..n-1 /\ a \div n \in Nat
  BY <1>1
<1>3. ASSUME NEW d \in Nat, NEW e \in Nat, d < e PROVE d * n + n <= e * n
  <2>1. e * n - d * n - n = (e - d - 1) * n /\ (e - d - 1) * n >= 0
    BY <1>3
  <2> QED
    BY <2>1
<1>4. a \div n = q
  <2>1. CASE a \div n < q
    BY <1>2, <1>3, <2>1
  <2>2. CASE q < a \div n
    BY <1>2, <1>3, <2>2
  <2> QED
    BY <1>2, <2>1, <2>2
<1> QED
  BY <1>2, <1>4

\* Every number has a quotient and a remainder; that of a number below m * n is
\* below m.
LEMMA Division ==
    ASSUME NEW n \in Nat \ {0}, NEW a \in Nat
    PROVE  /\ a = (a \div n) * n + (a % n) /\ a % n \in 0..n-1 /\ a \div n \in Nat
           /\ \A m \in Nat : a < m * n => a \div n < m
<1>1. a = (a \div n) * n + (a % n) /\ a % n \in 0..n-1 /\ a \div n \in Nat
  OBVIOUS
<1>2. ASSUME NEW m \in Nat, a < m * n, m <= a \div n PROVE FALSE
  <2>1. (a \div n) * n - m * n = ((a \div n) - m) * n /\ ((a \div n) - m) * n >= 0
    BY <1>1, <1>2
  <2> QED
    BY <1>1, <1>2, <2>1
<1> QED
  BY <1>1, <1>2

\* Positions of a striped array with an element on every nodelet: position and index
\* exchange quotient and remainder.
LEMMA StripedPosition ==
    ASSUME NEW k \in Nat \ {0}, NEW m \in Nat \ {0}, NEW i \in 0..m*k-1
    PROVE  /\ ((i * k) % (m * k)) + ((i * k) \div (m * k)) = (i % m) * k + (i \div m)
           /\ i \div m \in 0..k-1 /\ i % m \in 0..m-1
           /\ (i % m) * k + (i \div m) \in 0..m*k-1
<1> DEFINE q == i \div m
           r == i % m
<1>1. m * k \in Nat \ {0} /\ i \in Nat /\ i < k * m
  OBVIOUS
<1>2. i = q * m + r /\ r \in 0..m-1 /\ q \in Nat /\ q < k
  BY <1>1, Division
<1> HIDE DEF q, r
<1>3. i * k = q * (m * k) + r * k
  <2>1. (q * m + r) * k = q * (m * k) + r * k
    BY <1>2
  <2> QED
    BY <1>2, <2>1
<1>4. r * k \in Nat /\ r * k + k <= m * k
  <2>1. m * k - (r * k + k) = (m - 1 - r) * k /\ (m - 1 - r) * k \in Nat /\ r * k \in Nat
    BY <1>2
  <2> QED
    BY <1>2, <2>1
<1>5. (i * k) \div (m * k) = q /\ (i * k) % (m * k) = r * k
  <2> DEFINE n == m * k
             s == r * k
  <2>1. n \in Nat \ {0} /\ s \in 0..n-1 /\ i * k = q * n + s
    BY <1>1, <1>3, <1>4
  <2> HIDE DEF n, s
  <2>2. (q * n + s) \div n = q /\ (q * n + s) % n = s
    BY <1>2, <2>1, DivisionUnique
  <2>3. (i * k) \div n = q /\ (i * k) % n = s
    BY <2>1, <2>2
  <2> QED
    BY <2>3 DEF n, s
<1>6. r * k + q \in 0..m*k-1
  BY <1>1, <1>2, <1>4
<1> QED
  BY <1>2, <1>5, <1>6 DEF q, r

\* With fewer elements than nodelets the shift leaves a multiple of the index.
LEMMA SparsePosition ==
    ASSUME NEW n \in Nat \ {0}, NEW m \in Nat \ {0}, NEW i \in Nat
    PROVE  ((i * (m * n)) % n) + ((i * (m * n)) \div n) = i * m
<1>1. i * (m * n) = (i * m) * n + 0 /\ i * m \in Nat
  OBVIOUS
<1>2. ((i * m) * n + 0) \div n = i * m /\ ((i * m) * n + 0) % n = 0
  BY <1>1, DivisionUnique
<1> QED
  BY <1>1, <1>2

\* A multiple is divided without a remainder.
LEMMA DivideMultiple ==
    ASSUME NEW l \in Nat \ {0}, NEW m \in Nat
    PROVE  (m * l) \div l = m /\ (m * l) % l = 0
<1>1. m * l + 0 = m * l /\ 0 \in 0..l-1
  OBVIOUS
<1>2. (m * l + 0) \div l = m /\ (m * l + 0) % l = 0
  BY <1>1, DivisionUnique
<1> QED
  BY <1>1, <1>2

-----------------------------------------------------------------------------
(* The command line *)

\* What parse_args has checked, with what it means for powers of two.
LEMMA ArgumentFacts ==
    ASSUME args \in Arguments
    PROVE  /\ args.n \in Nat \ {0, 1} /\ args.offset \in Nat \ {0} /\ args.offset < args.n
           /\ args.length \in Nat \ {0} /\ args.length <= args.n
           /\ \E m \in Nat \ {0} : args.n = m * args.length
           /\ args.nodelets \in Nat \ {0}
           /\ args.nodelets <= args.n => \E m \in Nat \ {0} : args.n = m * args.nodelets
           /\ args.nodelets > args.n => \E m \in Nat \ {0, 1} : args.nodelets = m * args.n
           /\ args.layout = "chunked" => args.nodelets <= args.n
           /\ NumTrials \in Nat \ {0}
<1>1. /\ args.n \in PowersOfTwo /\ args.offset \in PowersOfTwo /\ args.length \in PowersOfTwo
      /\ args.nodelets \in PowersOfTwo
      /\ args.offset < args.n /\ args.length <= args.n
      /\ args.layout = "chunked" => args.nodelets <= args.n
      /\ NumTrials \in Nat \ {0}
  BY HotRangeAssumption
<1>2. /\ args.n \in Nat \ {0} /\ args.offset \in Nat \ {0} /\ args.length \in Nat \ {0}
      /\ args.nodelets \in Nat \ {0}
      /\ \E m \in Nat \ {0} : args.n = m * args.length
      /\ args.nodelets <= args.n => \E m \in Nat \ {0} : args.n = m * args.nodelets
      /\ args.n <= args.nodelets => \E m \in Nat \ {0} : args.nodelets = m * args.n
  BY <1>1, PowersDivide
<1>3. args.nodelets > args.n => \E m \in Nat \ {0, 1} : args.nodelets = m * args.n
  BY <1>2
<1> QED
  BY <1>1, <1>2, <1>3

\* A striped array with fewer elements than nodelets, on which the index relies.
TooSmall == args.layout = "striped" /\ args.nodelets > args.n

\* Different elements are at different positions, which are natural numbers.
LEMMA PositionInjective ==
    ASSUME args \in Arguments, NEW x \in Elements, NEW y \in Elements
    PROVE  Position(x) \in Nat /\ (Position(x) = Position(y) => x = y)
<1>1. CASE args.layout # "striped"
  BY <1>1, ArgumentFacts DEF Position, Elements
<1>2. CASE args.layout = "striped" /\ args.nodelets <= args.n
  <2>1. PICK m \in Nat \ {0} : args.n = m * args.nodelets
    BY <1>2, ArgumentFacts
  <2>2. \A i \in Elements : /\ Position(i) = (i % m) * args.nodelets + (i \div m)
                            /\ i \div m \in 0..args.nodelets-1 /\ i % m \in 0..m-1
    <3> SUFFICES ASSUME NEW i \in Elements
                 PROVE  /\ Position(i) = (i % m) * args.nodelets + (i \div m)
                        /\ i \div m \in 0..args.nodelets-1 /\ i % m \in 0..m-1
      OBVIOUS
    <3>1. i \in 0..m*args.nodelets-1 /\ args.nodelets \in Nat \ {0}
      BY <2>1, ArgumentFacts DEF Elements
    <3> QED
      BY <1>2, <2>1, <3>1, StripedPosition DEF Position
  <2>3. \A i \in Elements : /\ Position(i) \in Nat
                            /\ Position(i) \div args.nodelets = i % m
                            /\ Position(i) % args.nodelets = i \div m
    <3> SUFFICES ASSUME NEW i \in Elements
                 PROVE  /\ Position(i) \in Nat
                        /\ Position(i) \div args.nodelets = i % m
                        /\ Position(i) % args.nodelets = i \div m
      OBVIOUS
    <3>1. args.nodelets \in Nat \ {0} /\ i % m \in Nat /\ i \div m \in 0..args.nodelets-1
      BY <2>2, ArgumentFacts
    <3>2. /\ ((i % m) * args.nodelets + (i \div m)) \div args.nodelets = i % m
          /\ ((i % m) * args.nodelets + (i \div m)) % args.nodelets = i \div m
      BY <3>1, DivisionUnique
    <3>3. Position(i) = (i % m) * args.nodelets + (i \div m)
      BY <2>2
    <3> QED
      BY <3>1, <3>2, <3>3
  <2>4. \A i \in Elements : i = (i \div m) * m + (i % m)
    BY Division DEF Elements
  <2> QED
    BY <2>3, <2>4
<1>3. CASE args.layout = "striped" /\ args.nodelets > args.n
  <2>1. PICK m \in Nat \ {0, 1} : args.nodelets = m * args.n
    BY <1>3, ArgumentFacts
  <2>2. \A i \in Elements : Position(i) = i * m
    BY <1>3, <2>1, SparsePosition, ArgumentFacts DEF Position, Elements
  <2>3. \A i \in Elements : (i * m) \div m = i /\ i * m \in Nat
    <3> SUFFICES ASSUME NEW i \in Elements PROVE (i * m) \div m = i /\ i * m \in Nat
      OBVIOUS
    <3>1. i \in Nat /\ i * m \in Nat /\ i * m + 0 = i * m
      BY DEF Elements
    <3>2. (i * m + 0) \div m = i
      BY <3>1, DivisionUnique
    <3> QED
      BY <3>1, <3>2
  <2> QED
    BY <2>2, <2>3
<1> QED
  BY <1>1, <1>2, <1>3, ArgumentFacts

\* They are inside of the array unless it is too small, and some is not if it is.
LEMMA PositionsInside ==
    ASSUME args \in Arguments
    PROVE  TooSmall <=> \E i \in Elements : Position(i) \notin Elements
<1>1. CASE args.layout # "striped"
  BY <1>1 DEF Position, Elements, TooSmall
<1>2. CASE args.layout = "striped" /\ args.nodelets <= args.n
  <2>1. PICK m \in Nat \ {0} : args.n = m * args.nodelets
    BY <1>2, ArgumentFacts
  <2>2. \A i \in Elements : Position(i) \in Elements
    <3> SUFFICES ASSUME NEW i \in Elements PROVE Position(i) \in Elements
      OBVIOUS
    <3>1. i \in 0..m*args.nodelets-1 /\ args.nodelets \in Nat \ {0}
      BY <2>1, ArgumentFacts DEF Elements
    <3>2. ((i * args.nodelets) % (m * args.nodelets)) + ((i * args.nodelets) \div (m * args.nodelets))
            \in 0..m*args.nodelets-1
      BY <3>1, StripedPosition
    <3> QED
      BY <1>2, <2>1, <3>2 DEF Position, Elements
  <2> QED
    BY <1>2, <2>2, ArgumentFacts DEF TooSmall
<1>3. CASE args.layout = "striped" /\ args.nodelets > args.n
  <2>1. PICK m \in Nat \ {0, 1} : args.nodelets = m * args.n
    BY <1>3, ArgumentFacts
  <2> DEFINE last == args.n - 1
  <2>2. last \in Elements /\ last \in Nat /\ args.n = last + 1 /\ last >= 1
    BY ArgumentFacts DEF Elements
  <2>3. Position(last) = last * m
    <3>1. ((last * (m * args.n)) % args.n) + ((last * (m * args.n)) \div args.n) = last * m
      BY <2>2, SparsePosition, ArgumentFacts
    <3> QED
      BY <1>3, <2>1, <3>1 DEF Position
  <2> HIDE DEF last
  <2>4. last * m >= args.n
    <3>1. last * m = last * (m - 2) + (last + last) /\ last * (m - 2) \in Nat
      BY <2>1, <2>2
    <3> QED
      BY <2>2, <3>1
  <2>5. Position(last) \notin Elements
    BY <2>3, <2>4, ArgumentFacts DEF Elements
  <2> QED
    BY <1>3, <2>2, <2>5 DEF TooSmall
<1> QED
  BY <1>1, <1>2, <1>3, ArgumentFacts

\* An iteration's target is an element.
LEMMA TargetInside ==
    ASSUME args \in Arguments, NEW i \in Elements
    PROVE  Target(i) \in Elements
<1>1. /\ args.n \in Nat \ {0} /\ args.length \in Nat \ {0} /\ args.offset \in Nat
      /\ i \in Nat
  BY ArgumentFacts DEF Elements
<1>2. i % args.length \in Nat
  BY <1>1
<1>3. (args.offset + (i % args.length)) % args.n \in 0..args.n-1
  BY <1>1, <1>2
<1> QED
  BY <1>3 DEF Target, Elements

-----------------------------------------------------------------------------
(* The invariant *)

\* Types of the variables.
Types == /\ args \in Arguments
         /\ phase \in {"init", "launch", "update", "endless", "finished", "failed", "wild"}
         /\ trial \in 0..NumTrials
         /\ array \in [Elements -> Nat]
         /\ indices \in [Elements -> Nat]
         /\ pc \in [Elements -> {"todo", "cas", "done"}]
         /\ oldval \in [Elements -> Nat]

\* A trial that is under way is one of the NumTrials.
TrialBound == phase \in {"init", "launch", "update"} => trial < NumTrials

\* The indices are the positions of the targets, once they are set up, and the
\* kernel only runs with positions inside of the array.
IndicesReady == /\ phase # "init" => \A i \in Elements : indices[i] = Position(Target(i))
                /\ phase = "update" => \A i \in Elements : indices[i] \in Elements

\* The array is cleared when the kernel is launched.
ArrayCleared == phase = "launch" => \A x \in Elements : array[x] = 0

\* An iteration is under way in the kernel only, and in the CAS loop in its mode only.
IterationsInKernel == \A i \in Elements :
                         /\ pc[i] # "done" => phase = "update"
                         /\ pc[i] = "cas" => args.op_mode = "ATOMIC_CAS"

\* The inductive invariant.
HotInv == /\ Types /\ TrialBound /\ IndicesReady /\ ArrayCleared /\ IterationsInKernel
          /\ NoLostUpdate /\ ValidationExact

\* The iterations that have updated element x.
Hits(x) == {i \in Elements : pc[i] = "done" /\ Target(i) = x}

\* The value that so many updates leave in an element.
ValueAfter(hits) == IF args.op_mode = "REMOTE_WRITE" /\ hits > 0 THEN 1 ELSE hits

\* NoLostUpdate for an array whose positions are all in use.
EachCounted == phase = "update" =>
                  \A x \in Elements : Position(x) \in Elements =>
                     array[Position(x)] = ValueAfter(Cardinality(Hits(x)))

LEMMA NoLostUpdateIs == NoLostUpdate <=> EachCounted
BY DEF NoLostUpdate, EachCounted, ValueAfter, Hits

\* The same after a step.
LEMMA NoLostUpdateIsNext == NoLostUpdate' <=> EachCounted'
BY NoLostUpdateIs, PTL

\* Finitely many iterations have updated an element.
LEMMA HitsFinite ==
    ASSUME args \in Arguments, NEW x
    PROVE  IsFiniteSet(Hits(x)) /\ Cardinality(Hits(x)) \in Nat
<1>1. IsFiniteSet(Elements)
  <2>1. 0 \in Int /\ args.n - 1 \in Int
    BY ArgumentFacts
  <2> QED
    BY <2>1, FS_Interval DEF Elements
<1>2. Hits(x) \in SUBSET Elements
  BY DEF Hits
<1> QED
  BY <1>1, <1>2, FS_Subset, FS_CardinalityType

\* An iteration that ends with an update of the word at its target, and changes no
\* other word, is counted there and nowhere else: no two elements share a word.
LEMMA UpdateCounted ==
    ASSUME HotInv, Types', NEW i \in Elements, pc[i] # "done",
           UNCHANGED <<args, phase, indices>>,
           pc' = [pc EXCEPT ![i] = "done"],
           array' = [array EXCEPT ![indices[i]] =
                        IF args.op_mode = "REMOTE_WRITE" THEN 1 ELSE @ + 1]
    PROVE  NoLostUpdate'
<1> DEFINE x == Target(i)
<1>1. /\ args \in Arguments /\ phase = "update" /\ Elements' = Elements
      /\ array \in [Elements -> Nat]
      /\ indices[i] = Position(x) /\ Position(x) \in Elements /\ x \in Elements
  BY TargetInside DEF HotInv, Types, IterationsInKernel, IndicesReady, Elements
<1>2. \A y \in Elements : Position(y)' = Position(y)
  BY DEF Position
<1>3. \A y \in Elements : y # x => Hits(y)' = Hits(y)
  BY <1>1 DEF Hits, HotInv, Types, Target
<1>4. ASSUME NEW y \in Elements, y = x
      PROVE  /\ Cardinality(Hits(y)) \in Nat
             /\ Cardinality(Hits(y)') = Cardinality(Hits(y)) + 1
  <2>1. i \notin Hits(y) /\ Hits(y)' = Hits(y) \cup {i}
    BY <1>1, <1>4 DEF Hits, HotInv, Types, Target
  <2> QED
    BY <1>1, <2>1, HitsFinite, FS_AddElement
<1>5. \A y \in Elements : Position(y) \in Elements =>
         array[Position(y)] = ValueAfter(Cardinality(Hits(y)))
  BY <1>1, NoLostUpdateIs DEF HotInv, EachCounted
<1>6. ASSUME NEW y \in Elements, y = x
      PROVE  array'[Position(y)] = ValueAfter(Cardinality(Hits(y)'))
  <2>1. array'[Position(y)] = IF args.op_mode = "REMOTE_WRITE" THEN 1
                              ELSE array[Position(y)] + 1
    BY <1>1, <1>6
  <2> QED
    BY <1>1, <1>4, <1>5, <1>6, <2>1 DEF ValueAfter
<1>7. ASSUME NEW y \in Elements, y # x, Position(y) \in Elements
      PROVE  array'[Position(y)] = ValueAfter(Cardinality(Hits(y)'))
  <2>1. Position(y) # Position(x)
    BY <1>1, <1>7, PositionInjective
  <2> QED
    BY <1>1, <1>3, <1>5, <1>7, <2>1
<1>8. EachCounted'
  <2> SUFFICES ASSUME NEW y \in Elements, Position(y) \in Elements
               PROVE  array'[Position(y)] = ValueAfter(Cardinality(Hits(y)'))
    BY <1>1, <1>2 DEF EachCounted, ValueAfter
  <2> QED
    BY <1>6, <1>7
<1> QED
  BY <1>8, NoLostUpdateIsNext

-----------------------------------------------------------------------------
(* What the validation finds *)

\* Of the numbers below m * l, m leave the remainder r when divided by l.
LEMMA ResidueClass ==
    ASSUME NEW l \in Nat \ {0}, NEW m \in Nat \ {0}, NEW r \in 0..l-1
    PROVE  Cardinality({i \in 0..m*l-1 : i % l = r}) = m
<1> DEFINE Class == {i \in 0..m*l-1 : i % l = r}
           f == [q \in 0..m-1 |-> q * l + r]
<1>1. ASSUME NEW q \in 0..m-1
      PROVE  /\ q * l + r \in 0..m*l-1
             /\ (q * l + r) % l = r /\ (q * l + r) \div l = q
  <2>1. q * l \in Nat /\ m * l = q * l + (m - q) * l /\ (m - q) * l \in Nat
          /\ (m - q) * l = l + (m - q - 1) * l /\ (m - q - 1) * l \in Nat
    OBVIOUS
  <2>2. q * l + r \in 0..m*l-1
    BY <2>1
  <2> QED
    BY <2>2, DivisionUnique
<1>2. f \in [0..m-1 -> Class]
  BY <1>1
<1>3. \A p, q \in 0..m-1 : f[p] = f[q] => p = q
  BY <1>1
<1>4. \A i \in Class : \E q \in 0..m-1 : f[q] = i
  <2> SUFFICES ASSUME NEW i \in Class PROVE \E q \in 0..m-1 : f[q] = i
    OBVIOUS
  <2>1. i \in Nat /\ i < m * l /\ i % l = r
    OBVIOUS
  <2>2. i = (i \div l) * l + r /\ i \div l \in Nat /\ i \div l < m
    BY <2>1, Division
  <2>3. i \div l \in 0..m-1
    BY <2>2
  <2> QED
    BY <2>2, <2>3
<1> HIDE DEF f, Class
<1>5. f \in Bijection(0..m-1, Class)
  BY <1>2, <1>3, <1>4, Fun_IsBij
<1>6. IsFiniteSet(0..m-1) /\ Cardinality(0..m-1) = m
  BY FS_Interval
<1>7. ExistsBijection(0..m-1, Class)
  BY <1>5 DEF ExistsBijection
<1>8. Cardinality(Class) = m
  BY <1>6, <1>7, FS_Bijection
<1> QED
  BY <1>8 DEF Class

\* A range that goes past the end of the array.
Wraps == args.offset + args.length > args.n

\* When all iterations have run, an element in the range has been hit as often as
\* the others there, and the elements outside have not been hit, if the range does
\* not go past the end.
LEMMA FullHits ==
    ASSUME args \in Arguments, \A i \in Elements : pc[i] = "done", ~Wraps,
           NEW x \in Elements
    PROVE  Cardinality(Hits(x)) = IF x < args.offset \/ x >= args.offset + args.length
                                  THEN 0 ELSE args.n \div args.length
<1>1. /\ args.n \in Nat \ {0} /\ args.length \in Nat \ {0} /\ args.offset \in Nat
      /\ args.offset + args.length <= args.n /\ x \in Nat
  BY ArgumentFacts DEF Wraps, Elements
<1>2. ASSUME NEW i \in Elements
      PROVE  Target(i) = args.offset + (i % args.length) /\ i % args.length \in 0..args.length-1
  <2>1. i \in Nat /\ i % args.length \in 0..args.length-1
    BY <1>1 DEF Elements
  <2>2. args.offset + (i % args.length) \in 0..args.n-1
    BY <1>1, <2>1
  <2>3. (args.offset + (i % args.length)) % args.n = args.offset + (i % args.length)
    BY <1>1, <2>2
  <2> QED
    BY <2>1, <2>3 DEF Target
<1>3. CASE x < args.offset \/ x >= args.offset + args.length
  <2>1. \A i \in Elements : Target(i) # x
    <3> SUFFICES ASSUME NEW i \in Elements PROVE Target(i) # x
      OBVIOUS
    <3>1. Target(i) = args.offset + (i % args.length) /\ i % args.length \in 0..args.length-1
      BY <1>2
    <3> HIDE DEF Target
    <3> QED
      BY <1>1, <1>3, <3>1
  <2>2. Hits(x) = {}
    BY <2>1 DEF Hits
  <2> QED
    BY <1>3, <2>2, FS_EmptySet
<1>4. CASE ~(x < args.offset \/ x >= args.offset + args.length)
  <2>1. x - args.offset \in 0..args.length-1
    BY <1>1, <1>4
  <2>2. \A i \in Elements : Target(i) = x <=> i % args.length = x - args.offset
    <3> SUFFICES ASSUME NEW i \in Elements
                 PROVE  Target(i) = x <=> i % args.length = x - args.offset
      OBVIOUS
    <3>1. Target(i) = args.offset + (i % args.length) /\ i % args.length \in 0..args.length-1
      BY <1>2
    <3> QED
      BY <1>1, <3>1
  <2>3. PICK m \in Nat \ {0} : args.n = m * args.length
    BY ArgumentFacts
  <2>4. Hits(x) = {i \in 0..m*args.length-1 : i % args.length = x - args.offset}
    BY <1>1, <2>2, <2>3 DEF Hits, Elements
  <2>5. Cardinality(Hits(x)) = m
    BY <1>1, <2>1, <2>4, ResidueClass
  <2>6. args.n \div args.length = m
    BY <1>1, <2>3, DivideMultiple
  <2> QED
    BY <1>4, <2>5, <2>6
<1> QED
  BY <1>3, <1>4

\* The validation fails exactly if the range goes past the end.
LEMMA ValidationJudges ==
    ASSUME HotInv, phase = "update", Updated, ~TooSmall
    PROVE  AsExpected <=> ~Wraps
<1>1. args \in Arguments /\ \A i \in Elements : pc[i] = "done"
  BY DEF HotInv, Types, Updated
<1>2. \A x \in Elements : /\ Position(x) \in Elements
                          /\ array[Position(x)] = ValueAfter(Cardinality(Hits(x)))
  BY <1>1, PositionsInside, NoLostUpdateIs DEF HotInv, EachCounted
<1>3. /\ args.n \in Nat \ {0} /\ args.length \in Nat \ {0} /\ args.offset \in Nat \ {0}
      /\ args.length <= args.n /\ args.offset < args.n
  BY <1>1, ArgumentFacts
<1>4. ASSUME ~Wraps, NEW x \in Elements
      PROVE  array[Position(x)] = ExpectedValue(x)
  <2>1. PICK m \in Nat \ {0} : args.n = m * args.length
    BY <1>1, ArgumentFacts
  <2>2. args.n \div args.length = m /\ args.n % args.length = 0
    BY <1>3, <2>1, DivideMultiple
  <2>3. ~(x - args.offset < args.n % args.length) \/ x < args.offset
    BY <1>3, <2>2 DEF Elements
  <2>4. Cardinality(Hits(x)) = IF x < args.offset \/ x >= args.offset + args.length
                               THEN 0 ELSE m
    BY <1>1, <1>4, <2>2, FullHits
  <2> QED
    BY <1>2, <2>1, <2>2, <2>3, <2>4 DEF ValueAfter, ExpectedValue
<1>5. ASSUME Wraps PROVE ~AsExpected
  <2> DEFINE i == args.n - args.offset
  <2>1. i \in Elements /\ i \in 0..args.length-1 /\ 0 \in Elements
    BY <1>3, <1>5 DEF Wraps, Elements
  <2>2. Target(i) = 0
    <3>1. i % args.length = i
      BY <1>3, <2>1
    <3>2. args.offset + i = args.n /\ args.n % args.n = 0
      BY <1>3
    <3> QED
      BY <3>1, <3>2 DEF Target
  <2>3. Hits(0) # {}
    BY <1>1, <2>1, <2>2 DEF Hits
  <2>4. Cardinality(Hits(0)) \in Nat /\ Cardinality(Hits(0)) # 0
    BY <1>1, <2>3, HitsFinite, FS_EmptySet
  <2>5. array[Position(0)] # 0
    BY <1>2, <2>1, <2>4 DEF ValueAfter
  <2>6. ExpectedValue(0) = 0
    BY <1>3 DEF ExpectedValue
  <2> QED
    BY <2>1, <2>5, <2>6 DEF AsExpected
<1> QED
  BY <1>4, <1>5 DEF AsExpected

-----------------------------------------------------------------------------
(* The steps *)

\* The invariant holds when the program starts.
LEMMA HotInvInit == Init => HotInv
<1> SUFFICES ASSUME Init PROVE HotInv
  OBVIOUS
<1> USE ArgumentFacts DEF Init
<1>1. Types /\ TrialBound
  <2>1. pc \in [Elements -> {"todo", "cas", "done"}]
    OBVIOUS
  <2>2. /\ array \in [Elements -> Nat] /\ indices \in [Elements -> Nat]
        /\ oldval \in [Elements -> Nat]
    OBVIOUS
  <2> QED
    BY <2>1, <2>2 DEF Types, TrialBound
<1>2. IterationsInKernel
  BY DEF IterationsInKernel
<1> QED
  BY <1>1, <1>2 DEF HotInv, IndicesReady, ArrayCleared, NoLostUpdate, ValidationExact, Ended

\* The set-up keeps it: it stores the positions and clears the array.
LEMMA SetUpKeeps == ASSUME HotInv, SetUp PROVE HotInv'
<1> USE DEF HotInv, SetUp
<1>1. args \in Arguments /\ Elements' = Elements /\ \A x \in Elements : Position(x)' = Position(x)
  BY DEF Types, Elements, Position
<1>2. \A i \in Elements : Position(Target(i)) \in Nat
  BY <1>1, TargetInside, PositionInjective
<1>3. Types' /\ TrialBound'
  BY <1>1, <1>2 DEF Types, TrialBound
<1>4. IterationsInKernel'
  BY <1>1 DEF IterationsInKernel, Types
<1>5. IndicesReady'
  BY <1>1, TargetInside DEF IndicesReady, Target, Position
<1> QED
  BY <1>1, <1>3, <1>4, <1>5 DEF ArrayCleared, NoLostUpdate, ValidationExact, Ended

\* The launch keeps it, for the array is clear.
LEMMA LaunchKeeps == ASSUME HotInv, Launch PROVE HotInv'
<1> USE DEF HotInv, Launch
<1>1. args \in Arguments /\ Elements' = Elements /\ \A x \in Elements : Position(x)' = Position(x)
  BY DEF Types, Elements, Position
<1>2. Types' /\ TrialBound'
  BY <1>1 DEF Types, TrialBound
<1>3. \A i \in Elements : indices[i] = Position(Target(i)) /\ indices'[i] = Position(Target(i))'
  BY DEF IndicesReady, Target, Position
<1>4. CASE ~Hangs /\ \A i \in Elements : indices[i] \in Elements
  <2>1. phase' = "update" /\ pc' = [i \in Elements |-> "todo"]
    BY <1>4
  <2>2. IterationsInKernel' /\ IndicesReady' /\ ArrayCleared'
    BY <1>1, <1>3, <1>4, <2>1 DEF IterationsInKernel, IndicesReady, ArrayCleared
  <2>3. \A x \in Elements : Hits(x)' = {}
    BY <1>1, <2>1 DEF Hits
  <2>4. ASSUME NEW x \in Elements, Position(x) \in Elements
        PROVE  array'[Position(x)] = ValueAfter(Cardinality(Hits(x)'))
    <3>1. Cardinality(Hits(x)') = 0
      BY <2>3, FS_EmptySet
    <3>2. array'[Position(x)] = 0
      BY <2>4 DEF ArrayCleared
    <3> QED
      BY <3>1, <3>2 DEF ValueAfter
  <2>5. NoLostUpdate'
    BY <1>1, <2>4, NoLostUpdateIsNext DEF EachCounted, ValueAfter
  <2> QED
    BY <1>2, <2>1, <2>2, <2>5 DEF ValidationExact, Ended
<1>5. CASE ~Hangs /\ \E i \in Elements : indices[i] \notin Elements
  <2>1. phase' = "wild" /\ UNCHANGED pc
    BY <1>5
  <2>2. IterationsInKernel' /\ IndicesReady' /\ ArrayCleared' /\ NoLostUpdate'
    BY <1>1, <1>3, <2>1 DEF IterationsInKernel, IndicesReady, ArrayCleared, NoLostUpdate
  <2>3. TooSmall
    BY <1>1, <1>3, <1>5, TargetInside, PositionsInside
  <2>4. ValidationExact'
    BY <2>1, <2>3 DEF ValidationExact, TooSmall
  <2> QED
    BY <1>2, <2>2, <2>4
<1>6. CASE Hangs
  <2>1. phase' = "endless" /\ UNCHANGED pc
    BY <1>6
  <2>2. IterationsInKernel' /\ IndicesReady' /\ ArrayCleared' /\ NoLostUpdate'
    BY <1>1, <1>3, <2>1 DEF IterationsInKernel, IndicesReady, ArrayCleared, NoLostUpdate
  <2>3. ValidationExact'
    BY <2>1 DEF ValidationExact, Ended
  <2> QED
    BY <1>2, <2>2, <2>3
<1> QED
  BY <1>4, <1>5, <1>6

\* A step of an iteration that updates nothing keeps it.
LEMMA NoUpdateKeeps ==
    ASSUME HotInv, NEW i \in Elements, pc[i] # "done",
           NEW l \in {"todo", "cas"}, pc' = [pc EXCEPT ![i] = l],
           l = "cas" => args.op_mode = "ATOMIC_CAS",
           oldval' \in [Elements -> Nat],
           UNCHANGED <<args, phase, trial, array, indices>>
    PROVE  HotInv'
<1> USE DEF HotInv
<1>1. Elements' = Elements /\ \A x : Position(x)' = Position(x) /\ Target(x)' = Target(x)
  BY DEF Elements, Position, Target
<1>2. Types' /\ TrialBound'
  BY <1>1 DEF Types, TrialBound
<1>3. \A x \in Elements : Hits(x)' = Hits(x)
  BY <1>1 DEF Hits, Types
<1>4. NoLostUpdate'
  <2>1. EachCounted
    BY NoLostUpdateIs
  <2>2. EachCounted'
    BY <1>1, <1>3, <2>1 DEF EachCounted, ValueAfter
  <2> QED
    BY <2>2, NoLostUpdateIsNext
<1>5. IterationsInKernel'
  BY <1>1 DEF IterationsInKernel, Types
<1>6. IndicesReady'
  BY <1>1 DEF IndicesReady, Position, Target
<1> QED
  BY <1>1, <1>2, <1>4, <1>5, <1>6 DEF ArrayCleared, ValidationExact, Ended

\* So does one that updates the word at its target.
LEMMA UpdateKeeps ==
    ASSUME HotInv, NEW i \in Elements, pc[i] # "done",
           UNCHANGED <<args, phase, trial, indices>>,
           pc' = [pc EXCEPT ![i] = "done"],
           array' = [array EXCEPT ![indices[i]] =
                        IF args.op_mode = "REMOTE_WRITE" THEN 1 ELSE @ + 1],
           oldval' \in [Elements -> Nat]
    PROVE  HotInv'
<1> USE DEF HotInv
<1>1. Elements' = Elements /\ \A x : Position(x)' = Position(x) /\ Target(x)' = Target(x)
  BY DEF Elements, Position, Target
<1>2. phase = "update"
  BY DEF IterationsInKernel
<1>3. Types' /\ TrialBound'
  <2>1. \A x \in Elements : array[x] \in Nat
    BY DEF Types
  <2>2. array' \in [Elements -> Nat]
    <3> DEFINE new == IF args.op_mode = "REMOTE_WRITE" THEN 1 ELSE array[indices[i]] + 1
    <3>1. indices[i] \in Elements
      BY <1>2 DEF IndicesReady, IterationsInKernel
    <3>2. new \in Nat
      BY <2>1, <3>1
    <3>3. array \in [Elements -> Nat] /\ array' = [array EXCEPT ![indices[i]] = new]
      BY DEF Types
    <3> HIDE DEF new
    <3> QED
      BY <3>2, <3>3
  <2> QED
    BY <1>1, <2>2 DEF Types, TrialBound
<1>4. NoLostUpdate'
  BY <1>3, UpdateCounted
<1>5. IterationsInKernel'
  BY <1>1 DEF IterationsInKernel, Types
<1>6. IndicesReady'
  BY <1>1 DEF IndicesReady, Position, Target
<1> QED
  BY <1>2, <1>3, <1>4, <1>5, <1>6 DEF ArrayCleared, ValidationExact, Ended

\* Each step of an iteration is one or the other.
LEMMA IterateKeeps == ASSUME HotInv, NEW i \in Elements, Iterate(i) PROVE HotInv'
<1>1. CASE Update(i)
  BY <1>1, UpdateKeeps DEF Update, HotInv, Types
<1>2. CASE Load(i)
  <2>1. indices[i] \in Elements /\ array[indices[i]] \in Nat
    BY <1>2 DEF Load, HotInv, Types, IndicesReady, IterationsInKernel
  <2>2. oldval' \in [Elements -> Nat]
    BY <1>2, <2>1 DEF Load, HotInv, Types
  <2> QED
    BY <1>2, <2>2, NoUpdateKeeps DEF Load
<1>3. CASE CasSucceeds(i)
  <2>1. args.op_mode = "ATOMIC_CAS"
    BY <1>3 DEF CasSucceeds, HotInv, IterationsInKernel
  <2>2. array' = [array EXCEPT ![indices[i]] =
                     IF args.op_mode = "REMOTE_WRITE" THEN 1 ELSE @ + 1]
    BY <1>3, <2>1 DEF CasSucceeds
  <2>3. oldval' \in [Elements -> Nat]
    BY <1>3 DEF CasSucceeds, HotInv, Types
  <2> QED
    BY <1>3, <2>2, <2>3, UpdateKeeps DEF CasSucceeds
<1>4. CASE CasFails(i)
  <2>1. oldval' \in [Elements -> Nat]
    BY <1>4 DEF CasFails, HotInv, Types
  <2> QED
    BY <1>4, <2>1, NoUpdateKeeps DEF CasFails
<1> QED
  BY <1>1, <1>2, <1>3, <1>4 DEF Iterate

\* The validation keeps it, because what it finds is what it should find.
LEMMA ValidateKeeps == ASSUME HotInv, Validate PROVE HotInv'
<1> USE DEF HotInv, Validate
<1>1. /\ args \in Arguments /\ Elements' = Elements /\ phase = "update"
      /\ \A x : Position(x)' = Position(x) /\ Target(x)' = Target(x)
  BY DEF Types, Elements, Position, Target
<1>2. trial < NumTrials /\ trial \in Nat /\ NumTrials \in Nat
  BY <1>1, ArgumentFacts DEF TrialBound, Types
<1>3. Types' /\ TrialBound'
  BY <1>1, <1>2 DEF Types, TrialBound
<1>4. IterationsInKernel'
  BY <1>1 DEF IterationsInKernel, Updated
<1>5. IndicesReady'
  BY <1>1 DEF IndicesReady, Position, Target
<1>6. ArrayCleared'
  BY <1>1 DEF ArrayCleared
<1>7. NoLostUpdate'
  BY DEF NoLostUpdate
<1>8. ValidationExact'
  <2>1. CASE TooSmall
    <3>1. phase' = "wild"
      BY <1>1, <2>1, PositionsInside
    <3> QED
      BY <2>1, <3>1 DEF ValidationExact, TooSmall
  <2>2. CASE ~TooSmall
    <3>1. /\ AsExpected => phase' \in {"launch", "finished"}
          /\ ~AsExpected => phase' = "failed"
      BY <1>1, <2>2, PositionsInside
    <3>2. AsExpected <=> ~Wraps
      BY <1>1, <2>2, ValidationJudges
    <3>3. phase' \in {"launch", IF Wraps THEN "failed" ELSE "finished"}
      BY <3>1, <3>2
    <3> QED
      BY <2>2, <3>3 DEF ValidationExact, TooSmall, Wraps, Ended
  <2> QED
    BY <2>1, <2>2
<1> QED
  BY <1>3, <1>4, <1>5, <1>6, <1>7, <1>8

\* Every step keeps the invariant.
LEMMA HotInvStep == HotInv /\ [Next]_vars => HotInv'
<1> SUFFICES ASSUME HotInv, [Next]_vars PROVE HotInv'
  OBVIOUS
<1>1. CASE UNCHANGED vars
  <2>1. UNCHANGED <<args, phase, trial, array, indices, pc, oldval>>
    BY <1>1 DEF vars
  <2>2. Elements' = Elements /\ \A x : Position(x)' = Position(x) /\ Target(x)' = Target(x)
    BY <2>1 DEF Elements, Position, Target
  <2>3. NoLostUpdate'
    BY <2>1, <2>2 DEF HotInv, NoLostUpdate, Target, Position
  <2>4. Types' /\ TrialBound' /\ IterationsInKernel' /\ ArrayCleared' /\ ValidationExact'
    BY <2>1, <2>2 DEF HotInv, Types, TrialBound, IterationsInKernel, ArrayCleared,
       ValidationExact, Ended
  <2>5. IndicesReady'
    BY <2>1, <2>2 DEF HotInv, IndicesReady, Position, Target
  <2> QED
    BY <2>3, <2>4, <2>5 DEF HotInv
<1> QED
  BY <1>1, SetUpKeeps, LaunchKeeps, ValidateKeeps, IterateKeeps DEF Next, Main

\* The invariant holds in every state.
THEOREM HotRangeInvariant == Spec => []HotInv
BY HotInvInit, HotInvStep, PTL DEF Spec

\* With each of the four operations, and however the iterations interleave, a hot word
\* counts the iterations that have updated it.
THEOREM HotRangeNoLostUpdate == Spec => []NoLostUpdate
BY HotRangeInvariant, PTL DEF HotInv

\* For every command line the outcome is the one that ValidationExact predicts: right
\* for the ranges inside of the array, wrong for those that go past its end.
THEOREM HotRangeValidationExact == Spec => []ValidationExact
BY HotRangeInvariant, PTL DEF HotInv
=============================================================================
