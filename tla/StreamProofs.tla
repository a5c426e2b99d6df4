---------------------------- MODULE StreamProofs ----------------------------
(***************************************************************************)
(* The verdict of the stream programs, of global_reduce.c and of           *)
(* bulk_copy.c, where they reach one, is exact, for all command lines,     *)
(* sizes, machines and numbers of trials, in any order in which the        *)
(* threads run.  (That they reach it is not proved.)                       *)
(***************************************************************************)
EXTENDS Stream, FiniteSetTheorems, TLAPS

\* What an element of c holds before it is written for the first time, and after.
Untouched == IF args.program = "global_stream_1d_cxx" THEN -1
             ELSE IF IsCopy THEN 2 ELSE 0
Written == IF args.program = "local_stream_cxx" THEN 0 ELSE Expected

\* The serial loop that reads a bound of 0 on the second nodelet.
StopsEarly == /\ args.program = "global_stream_1d" /\ args.mode = "serial"
              /\ args.reload /\ args.nodelets > 1 /\ args.n > 2

Phases == {"start", "set up", "select", "kernel", "endless", "validate",
           "passed", "failed", "refused", "crashed"}

\* A command line with a positive logarithm.
GoodArgs == args \in Arguments /\ args.n # 1

TypeOK == /\ args \in Arguments
          /\ phase \in Phases
          /\ here \in Nodelets
          /\ sum \in Nat

\* A program goes on with good arguments alone, and leaves a kernel only if it ends.
Accepted ==
    /\ phase \notin {"start", "refused", "crashed"} =>
          GoodArgs /\ (args.program = "local_stream_cxx" \/ Valid)
    /\ phase \in {"kernel", "validate"} => ~Hangs

\* The main thread is on the nodelet of its stack outside the kernels.
AtHome == phase \in {"start", "set up", "select", "validate"} => here = 0

Unloaded == phase \in {"start", "set up"} => size = [m \in Nodelets |-> 0]

\* The arrays hold what the trials leave alone, and c nothing but what was there
\* at the start and the result.
Loaded ==
    phase \in {"select", "kernel", "validate"} =>
        /\ IF IsReduce THEN a = All(1)
                       ELSE /\ \A i \in Elements : Result(i) = Written
                            /\ c \in [Elements -> {Untouched, Written}]
        /\ size \in [Nodelets -> Nat]
        /\ size[0] = args.n
        /\ \A m \in Nodelets \ {0} :
              size[m] = IF args.program = "global_stream_1d" THEN 0 ELSE args.n

NothingWritten == phase = "select" /\ ~IsReduce => c = All(Untouched)

\* The pieces behind the first k elements.
Rest(k) == {{i} : i \in k..args.n-1}

\* A loop in order has written a prefix, and is where that took it.
Prefix ==
    \E k \in 0..args.n :
        /\ todo = Rest(k)
        /\ ~IsReduce => \A i \in 0..k-1 : c[i] = Written
        /\ here = IF k = 0 THEN 0 ELSE Home(k - 1)
        /\ StopsEarly => k <= 2

\* What is not to be done is written.
AllElse == \A i \in Elements : {i} \in todo \/ c[i] = Written

\* The pieces do not overlap, and those that are done have been added once each.
AddedOnce ==
    /\ \A p \in todo : p \subseteq Elements
    /\ \A p, q \in todo : p = q \/ p \cap q = {}
    /\ sum + Cardinality(UNION todo) = args.n

Running ==
    phase = "kernel" =>
        /\ IF Loops[args.mode] = "in order" THEN Prefix
                                            ELSE IsReduce \/ AllElse
        /\ IsReduce => AddedOnce
        /\ StopsEarly => \A i \in 2..args.n-1 : c[i] = 0
        /\ args.mode \in DOMAIN Loops

Validating ==
    phase = "validate" =>
        /\ ~IsReduce
        /\ IF Hopeless THEN \E i \in Elements : c[i] # Expected
                       ELSE c = All(Expected)

StreamInv == /\ TypeOK /\ Accepted /\ AtHome /\ Unloaded /\ Loaded /\ NothingWritten
             /\ Running /\ Validating /\ VerdictExact

-----------------------------------------------------------------------------
(* Facts about the command line *)

LEMMA ArgsAre ==
    ASSUME GoodArgs
    PROVE  /\ args.program \in Programs
           /\ args.n \in Nat \ {0, 1}
           /\ args.nodelets \in Nat \ {0}
           /\ args.n % args.nodelets = 0
           /\ args.reload \in BOOLEAN
BY StreamAssumption DEF GoodArgs

\* Some nodelet is there, whatever the arguments are.
LEMMA StartNodelet ==
    ASSUME args \in Arguments
    PROVE  0 \in Nodelets
<1>1. args.nodelets \in Nat \ {0}
  BY StreamAssumption
<1> QED
  BY <1>1 DEF Nodelets

\* What the invariant says of the command line.
LEMMA GoodIs ==
    ASSUME StreamInv, phase \notin {"start", "refused", "crashed"}
    PROVE  GoodArgs /\ 0 \in Nodelets
BY StartNodelet DEF StreamInv, Accepted, GoodArgs

\* Division with its remainder.
LEMMA Divides ==
    ASSUME NEW x \in Nat, NEW d \in Nat \ {0}
    PROVE  /\ x \div d \in Nat /\ x % d \in Nat
           /\ x % d < d
           /\ x = (d * (x \div d)) + (x % d)
OBVIOUS

\* The elements of a nodelet.
LEMMA LocalIs ==
    ASSUME GoodArgs
    PROVE  /\ args.n \div args.nodelets \in Nat \ {0}
           /\ args.n = args.nodelets * (args.n \div args.nodelets)
<1>1. PICK n \in Nat \ {0}, m \in Nat \ {0} : n = args.n /\ m = args.nodelets /\ n % m = 0
  BY ArgsAre
<1>2. n \div m \in Nat /\ n = (m * (n \div m)) + 0
  BY <1>1, Divides
<1>3. n \div m # 0
  BY <1>1, <1>2
<1> QED
  BY <1>1, <1>2, <1>3

\* Element i is the i % d-th of part i \div d, of which there are m.
LEMMA PartOf ==
    ASSUME NEW d \in Nat \ {0}, NEW m \in Nat \ {0}, NEW i \in Nat, i < m * d
    PROVE  i \div d \in 0..m-1
<1>1. /\ i \div d \in Nat /\ i % d \in Nat
      /\ i = (d * (i \div d)) + (i % d)
  BY Divides
<1>2. PICK q \in Nat : q = i \div d
  BY <1>1
<1>3. q >= m => d * q >= d * m
  BY <1>2
<1>4. d * q <= i /\ d * m = m * d
  BY <1>1, <1>2
<1>5. d * q \in Nat /\ d * m \in Nat
  BY <1>2
<1>6. q < m
  BY <1>2, <1>3, <1>4, <1>5
<1> QED
  BY <1>2, <1>6

\* Every element is on some nodelet.
LEMMA HomeIs ==
    ASSUME GoodArgs, NEW i \in Elements
    PROVE  Home(i) \in Nodelets
<1>1. PICK n \in Nat \ {0, 1}, m \in Nat \ {0} : n = args.n /\ m = args.nodelets
  BY ArgsAre
<1>2. i \in Nat /\ i < n
  BY <1>1 DEF Elements
<1>3. i \div (n \div m) \in Nodelets
  <2>1. PICK d \in Nat \ {0} : d = n \div m /\ n = m * d
    BY <1>1, LocalIs
  <2>2. i \div d \in 0..m-1
    BY <1>2, <2>1, PartOf
  <2> QED
    BY <1>1, <2>1, <2>2 DEF Nodelets
<1>4. i % m \in Nodelets
  <2>1. i % m \in Nat /\ i % m < m
    BY <1>1, <1>2, Divides
  <2> QED
    BY <1>1, <2>1 DEF Nodelets
<1>5. 0 \in Nodelets
  BY <1>1 DEF Nodelets
<1> QED
  BY <1>1, <1>3, <1>4, <1>5 DEF Home

\* The second element of a striped array is on the second nodelet.
LEMMA SecondHome ==
    ASSUME GoodArgs, args.program = "global_stream_1d"
    PROVE  /\ Home(0) = 0
           /\ args.nodelets > 1 => Home(1) = 1
<1>1. PICK m \in Nat \ {0} : m = args.nodelets
  BY ArgsAre
<1>2. 0 % m = 0 /\ (m > 1 => 1 % m = 1)
  <2>1. /\ 0 % m \in Nat /\ 0 = (m * (0 \div m)) + (0 % m) /\ 0 \div m \in Nat
        /\ 1 % m \in Nat /\ 1 = (m * (1 \div m)) + (1 % m) /\ 1 \div m \in Nat
    BY Divides
  <2>2. m > 1 => 1 \div m = 0
    <3>1. PICK q \in Nat : q = 1 \div m
      BY <2>1
    <3>2. q >= 1 => m * q >= m
      BY <3>1
    <3> QED
      BY <2>1, <3>1, <3>2
  <2>3. m * (0 \div m) >= 0
    BY <2>1
  <2> QED
    BY <2>1, <2>2, <2>3
<1> QED
  BY <1>1, <1>2 DEF Home, IsCopy

\* In global_stream_1d.c only "serial" is a serial loop.
LEMMA SerialOf1d ==
    ASSUME args.program = "global_stream_1d", args.mode \in DOMAIN Loops
    PROVE  Loops[args.mode] = "in order" <=> args.mode = "serial"
<1>1. Loops = GlobalStream1dLoops
  BY DEF Loops, LoopsOf
<1>2. args.mode \in {"serial", "cilk_for", "serial_spawn", "library"}
  BY <1>1 DEF GlobalStream1dLoops
<1>3. /\ GlobalStream1dLoops.serial = "in order"
      /\ GlobalStream1dLoops.cilk_for = "any order"
      /\ GlobalStream1dLoops.serial_spawn = "any order"
      /\ GlobalStream1dLoops.library = "any order"
  BY DEF GlobalStream1dLoops
<1>4. "in order" # "any order"
  OBVIOUS
<1> HIDE DEF GlobalStream1dLoops
<1> QED
  BY <1>1, <1>2, <1>3, <1>4

-----------------------------------------------------------------------------
(* Pieces *)

\* The pieces of a serial loop, in order.
LEMMA RestIs ==
    ASSUME GoodArgs, NEW k \in 0..args.n
    PROVE  /\ k < args.n => {k} \in Rest(k) /\ Rest(k) \ {{k}} = Rest(k + 1)
           /\ IsFiniteSet(Rest(k)) /\ Cardinality(Rest(k)) = args.n - k
<1>1. PICK n \in Nat : n = args.n /\ k \in Nat /\ k <= n
  BY ArgsAre
<1>2. ASSUME k < n PROVE {k} \in Rest(k) /\ Rest(k) \ {{k}} = Rest(k + 1)
  <2>1. k \in k..n-1 /\ \A i : i \in k+1..n-1 <=> i \in k..n-1 /\ i # k
    BY <1>1, <1>2
  <2> QED
    BY <1>1, <2>1 DEF Rest
<1>3. IsFiniteSet(Rest(k)) /\ Cardinality(Rest(k)) = n - k
  <2>1. PICK top \in Int : top = n - 1 /\ top - k + 1 = n - k /\ (k > top => n - k = 0)
    BY <1>1
  <2>2. k \in Int
    BY <1>1
  <2>3. IsFiniteSet(k..top) /\ Cardinality(k..top) = n - k
    BY <2>1, <2>2, FS_Interval
  <2>4. ExistsBijection(k..top, Rest(k))
    <3> DEFINE f == [i \in k..top |-> {i}]
    <3>1. Rest(k) = {{i} : i \in k..top}
      BY <1>1, <2>1 DEF Rest
    <3>2. f \in [k..top -> Rest(k)] /\ \A y \in Rest(k) : \E i \in k..top : f[i] = y
      BY <3>1
    <3>3. \A i, j \in k..top : f[i] = f[j] => i = j
      OBVIOUS
    <3>4. f \in Bijection(k..top, Rest(k))
      BY <3>2, <3>3 DEF Bijection, Injection, Surjection, IsInjective
    <3> QED
      BY <3>4 DEF ExistsBijection
  <2> QED
    BY <2>3, <2>4, FS_Bijection
<1> QED
  BY <1>1, <1>2, <1>3

LEMMA PiecesAre ==
    ASSUME GoodArgs
    PROVE  Pieces = Rest(0) /\ Rest(args.n) = {}
<1>1. PICK n \in Nat : n = args.n
  BY ArgsAre
<1>2. n..n-1 = {}
  BY <1>1
<1> QED
  BY <1>1, <1>2 DEF Pieces, Rest, Elements

LEMMA ElementsFinite ==
    ASSUME GoodArgs
    PROVE  IsFiniteSet(Elements) /\ Cardinality(Elements) = args.n
<1>1. PICK n \in Nat \ {0, 1} : n = args.n
  BY ArgsAre
<1>2. 0 \in Int /\ n - 1 \in Int /\ ~(0 > n - 1) /\ (n - 1) - 0 + 1 = n
  OBVIOUS
<1>3. /\ IsFiniteSet(0..n-1)
      /\ Cardinality(0..n-1) = IF 0 > n - 1 THEN 0 ELSE (n - 1) - 0 + 1
  BY <1>2, FS_Interval, Zenon
<1>4. Cardinality(0..n-1) = n
  BY <1>2, <1>3
<1> QED
  BY <1>1, <1>3, <1>4 DEF Elements

\* The pieces of a trial: no two overlap, and none is missing.
Partition(pieces) == /\ UNION pieces = Elements
                     /\ \A p, q \in pieces : p = q \/ p \cap q = {}

LEMMA PiecesPartition == Partition(Pieces)
BY DEF Partition, Pieces

LEMMA ChunksPartition ==
    ASSUME GoodArgs
    PROVE  Partition(Chunks)
<1>1. PICK n \in Nat \ {0, 1}, m \in Nat \ {0} : n = args.n /\ m = args.nodelets
  BY ArgsAre
<1>2. PICK d \in Nat \ {0} : d = n \div m /\ n = m * d
  BY <1>1, LocalIs
<1>3. Chunks = {j * d .. (j + 1) * d - 1 : j \in 0..m-1}
  BY <1>1, <1>2 DEF Chunks, Nodelets
<1>4. ASSUME NEW j \in Nat, NEW k \in Nat, j < k PROVE (j + 1) * d <= k * d
  BY <1>4
<1>5. ASSUME NEW j \in 0..m-1
      PROVE  j * d .. (j + 1) * d - 1 \subseteq Elements
  <2>1. j \in Nat /\ j * d \in Nat /\ (j + 1) * d \in Nat
    OBVIOUS
  <2>2. (j + 1) * d <= n
    BY <1>2, <1>4
  <2> QED
    BY <1>1, <2>1, <2>2 DEF Elements
<1>6. ASSUME NEW i \in Elements
      PROVE  \E j \in 0..m-1 : i \in j * d .. (j + 1) * d - 1
  <2>1. i \in Nat /\ i < m * d
    BY <1>1, <1>2 DEF Elements
  <2>2. PICK j \in 0..m-1 : j = i \div d
    BY <2>1, PartOf
  <2>3. i = (d * j) + (i % d) /\ i % d \in Nat /\ i % d < d
    BY <2>1, <2>2, Divides
  <2>4. j * d = d * j /\ (j + 1) * d = (d * j) + d /\ d * j \in Nat
    BY <2>2
  <2>5. i \in j * d .. (j + 1) * d - 1
    BY <2>1, <2>3, <2>4
  <2> QED
    BY <2>5
<1>7. ASSUME NEW j \in 0..m-1, NEW k \in 0..m-1, j # k
      PROVE  (j * d .. (j + 1) * d - 1) \cap (k * d .. (k + 1) * d - 1) = {}
  <2>1. j \in Nat /\ k \in Nat /\ j * d \in Nat /\ k * d \in Nat
        /\ (j + 1) * d \in Nat /\ (k + 1) * d \in Nat
    OBVIOUS
  <2>2. (j + 1) * d <= k * d \/ (k + 1) * d <= j * d
    BY <1>4, <1>7, <2>1
  <2> QED
    BY <2>1, <2>2
<1>8. UNION Chunks = Elements
  BY <1>3, <1>5, <1>6
<1>9. \A p, q \in Chunks : p = q \/ p \cap q = {}
  BY <1>3, <1>7
<1> QED
  BY <1>8, <1>9 DEF Partition

\* A sum that is started has everything before it.
LEMMA PartitionAdds ==
    ASSUME GoodArgs, Partition(todo), sum = 0
    PROVE  AddedOnce
<1>1. Cardinality(UNION todo) = args.n /\ args.n \in Nat
  BY ElementsFinite, ArgsAre DEF Partition
<1> QED
  BY <1>1 DEF AddedOnce, Partition

\* A piece is added to the sum when it is taken from what there is to do.
LEMMA BodyAdds ==
    ASSUME GoodArgs, TypeOK, IsReduce, a = All(1), AddedOnce, NEW piece \in todo, Body(piece)
    PROVE  AddedOnce' /\ sum' \in Nat
<1>1. /\ todo' = todo \ {piece} /\ sum' = sum + Total(piece) /\ args' = args
      /\ Elements' = Elements
  BY DEF Body, Elements
<1>2. IsFiniteSet(Elements) /\ piece \subseteq Elements /\ UNION todo \subseteq Elements
  BY ElementsFinite DEF TypeOK, AddedOnce
<1>3. Total(piece) = Cardinality(piece)
  <2>1. {i \in piece : a[i] = 1} = piece
    BY <1>2 DEF All
  <2> QED
    BY <2>1 DEF Total
<1>4. /\ IsFiniteSet(piece) /\ Cardinality(piece) \in Nat
      /\ IsFiniteSet(UNION todo) /\ Cardinality(UNION todo) \in Nat
  BY <1>2, FS_Subset, FS_CardinalityType
<1>5. UNION todo' = (UNION todo) \ piece
  BY <1>1 DEF AddedOnce
<1>6. (UNION todo) \cap piece = piece
  OBVIOUS
<1>7. Cardinality((UNION todo) \ piece) = Cardinality(UNION todo) - Cardinality(piece)
  BY <1>4, <1>6, FS_Difference
<1>8. sum' + Cardinality(UNION todo') = args.n
  <2>1. PICK s \in Nat, u \in Nat, k \in Nat :
            s = sum /\ u = Cardinality(UNION todo) /\ k = Cardinality(piece)
    BY <1>4 DEF TypeOK
  <2>2. s + u = args.n
    BY <2>1 DEF AddedOnce
  <2>3. sum' = s + k /\ Cardinality(UNION todo') = u - k
    BY <1>1, <1>3, <1>5, <1>7, <2>1
  <2>4. (s + k) + (u - k) = s + u
    BY <2>1
  <2> QED
    BY <2>2, <2>3, <2>4
<1>9. sum' \in Nat
  BY <1>1, <1>3, <1>4 DEF TypeOK
<1> QED
  BY <1>1, <1>8, <1>9 DEF AddedOnce

\* When nothing is left to do the sum is complete.
LEMMA AllAdded ==
    ASSUME TypeOK, AddedOnce, todo = {}
    PROVE  sum = args.n
<1>1. UNION todo = {} /\ Cardinality({}) = 0
  BY FS_EmptySet
<1> QED
  BY <1>1 DEF AddedOnce, TypeOK

-----------------------------------------------------------------------------
(* The steps to the first kernel *)

\* What depends on the command line alone.
LEMMA SameArgs ==
    ASSUME args' = args
    PROVE  /\ Elements' = Elements /\ Nodelets' = Nodelets
           /\ (IsReduce' <=> IsReduce) /\ (IsCopy' <=> IsCopy)
           /\ Expected' = Expected /\ Untouched' = Untouched /\ Written' = Written
           /\ (StopsEarly' <=> StopsEarly) /\ Loops' = Loops
           /\ (Hopeless' <=> Hopeless)
           /\ (GoodArgs' <=> GoodArgs) /\ (Valid' <=> Valid) /\ (Hangs' <=> Hangs)
BY DEF GoodArgs, Valid, Hangs, Endless, Grain, IsCxx, Elements, Nodelets, IsReduce, IsCopy, Expected, Untouched, Written, StopsEarly,
       Loops, Hopeless

\* The command line stays good, and the kernel one that ends.
LEMMA StillAccepted ==
    ASSUME StreamInv, args' = args, phase \notin {"start", "refused", "crashed"},
           phase' \in {"kernel", "validate"} => phase \in {"kernel", "validate"} \/ ~Hangs
    PROVE  Accepted'
BY SameArgs DEF StreamInv, Accepted

\* A program that ends before it has a result, or comes to a kernel that never ends.
LEMMA GivesUp ==
    ASSUME StreamInv, phase' \in {"refused", "crashed", "endless"}, args' = args,
           here' \in Nodelets, sum' \in Nat,
           phase' = "endless" => phase = "select"
    PROVE  StreamInv'
<1>1. TypeOK'
  BY SameArgs DEF StreamInv, TypeOK, Phases
<1>2. Accepted'
  <2>1. CASE phase' = "endless"
    BY <2>1, StillAccepted
  <2>2. CASE phase' # "endless"
    BY <2>2 DEF Accepted
  <2> QED
    BY <2>1, <2>2
<1> QED
  BY <1>1, <1>2 DEF StreamInv, AtHome, Unloaded, Loaded, NothingWritten, Running,
                    Validating, VerdictExact

LEMMA ReadKeeps ==
    ASSUME StreamInv, ReadArguments \/ ReadArgumentsBeyond
    PROVE  StreamInv'
<1>1. /\ phase = "start" /\ phase' \in {"set up", "refused", "crashed"}
      /\ UNCHANGED <<args, a, b, c, size, here, sum>>
  BY DEF ReadArguments, ReadArgumentsBeyond, arrays
<1>2. CASE phase' = "set up"
  <2>1. TypeOK'
    BY <1>1, <1>2, SameArgs DEF StreamInv, TypeOK, Phases
  <2>2. AtHome' /\ Unloaded'
    BY <1>1, <1>2, SameArgs DEF StreamInv, AtHome, Unloaded
  <2>3. Accepted'
    <3>1. args \in Arguments /\ args.n # 1
      <4>1. PICK n \in Nat : n = args.n
        BY StreamAssumption DEF StreamInv, TypeOK
      <4>2. args.n > 1
        BY <1>2 DEF ReadArguments, ReadArgumentsBeyond, Valid
      <4>3. n > 1 => n # 1
        OBVIOUS
      <4> QED
        BY <4>1, <4>2, <4>3 DEF StreamInv, TypeOK
    <3>2. args.program = "local_stream_cxx" \/ Valid
      BY <1>2 DEF ReadArguments, ReadArgumentsBeyond
    <3> QED
      BY <1>1, <1>2, <3>1, <3>2, SameArgs DEF Accepted, GoodArgs
  <2> QED
    BY <1>2, <2>1, <2>2, <2>3 DEF StreamInv, Loaded, NothingWritten, Running, Validating,
                            VerdictExact
<1>3. CASE phase' \in {"refused", "crashed"}
  BY <1>1, <1>3, SameArgs, GivesUp DEF StreamInv, TypeOK
<1> QED
  BY <1>1, <1>2, <1>3

\* Sizes that are as they should be on the nodelet of the main thread, and on the
\* others unless the program is global_stream_1d.
SizesAre(program, sizes) ==
    /\ sizes \in [Nodelets -> Nat]
    /\ sizes[0] = args.n
    /\ \A m \in Nodelets \ {0} :
          sizes[m] = IF program = "global_stream_1d" THEN 0 ELSE args.n

LEMMA FilledKeeps ==
    ASSUME StreamInv, NEW program, NEW x \in Int, NEW y \in Int, NEW z \in Int, NEW sizes,
           Filled(program, x, y, z, sizes),
           SizesAre(program, sizes),
           program = "global_reduce" => x = 1,
           program = "bulk_copy" => x = 1 /\ z = 2,
           program = "local_stream_cxx" => x + y = 0 /\ z = 0,
           program = "global_stream_1d_cxx" => x + y = 3 /\ z = -1,
           program \in {"local_stream", "global_stream", "global_stream_1d"}
               => x + y = 3 /\ z = 0
    PROVE  StreamInv'
<1>1. /\ phase = "set up" /\ phase' = "select" /\ args.program = program
      /\ a' = All(x) /\ b' = All(y) /\ c' = All(z) /\ size' = sizes
      /\ UNCHANGED <<args, here, sum>>
  BY DEF Filled
<1>2. GoodArgs /\ args.program \in Programs
  <2>1. GoodArgs
    BY <1>1, GoodIs
  <2> QED
    BY <2>1, ArgsAre
<1>3. TypeOK' /\ AtHome'
  BY <1>1, SameArgs DEF StreamInv, TypeOK, AtHome, Phases
<1>4. IF IsReduce THEN x = 1
                  ELSE (IF IsCopy THEN x ELSE x + y) = Written /\ z = Untouched
  BY <1>1, <1>2 DEF Programs, IsReduce, IsCopy, Written, Untouched, Expected
<1>5. /\ IF IsReduce THEN a' = All(1)
                     ELSE /\ \A i \in Elements : Result(i)' = Written
                          /\ c' \in [Elements -> {Untouched, Written}]
      /\ ~IsReduce => c' = All(Untouched)
  BY <1>1, <1>4, SameArgs DEF All, Result
<1>6. All(1)' = All(1) /\ All(Untouched)' = All(Untouched)
  BY <1>1, SameArgs DEF All
<1>7. NothingWritten'
  BY <1>1, <1>5, <1>6, SameArgs DEF NothingWritten
<1>8. Loaded'
  BY <1>1, <1>5, <1>6, SameArgs DEF Loaded, SizesAre
<1>9. Accepted'
  BY <1>1, StillAccepted
<1> QED
  BY <1>1, <1>3, <1>7, <1>8, <1>9 DEF StreamInv, Unloaded, Running, Validating, VerdictExact

LEMMA SetUpKeeps == StreamInv /\ SetUp => StreamInv'
<1> SUFFICES ASSUME StreamInv, SetUp PROVE StreamInv'
  OBVIOUS
<1>1. args.n \in Nat /\ args.nodelets \in Nat \ {0} /\ 0 \in Nodelets
  <2>1. phase = "set up"
    BY DEF SetUp, SetUpLocal, SetUpGlobal, SetUpGlobal1d, SetUpLocalCxx,
           SetUpGlobal1dCxx, SetUpReduce, SetUpCopy, Filled
  <2>2. GoodArgs /\ 0 \in Nodelets
    BY <2>1, GoodIs
  <2> QED
    BY <2>2, ArgsAre
<1>2. SizesAre("global_stream_1d", OnlyHere) /\ here = 0
  <2>1. here = 0 /\ size = [m \in Nodelets |-> 0]
    BY DEF StreamInv, AtHome, Unloaded, SetUp, SetUpLocal, SetUpGlobal, SetUpGlobal1d,
           SetUpLocalCxx, SetUpGlobal1dCxx, SetUpReduce, SetUpCopy, Filled
  <2> QED
    BY <1>1, <2>1 DEF SizesAre, OnlyHere
<1>3. \A program : program # "global_stream_1d" => SizesAre(program, Everywhere)
  BY <1>1 DEF SizesAre, Everywhere
<1>4. -1 \in Int /\ 0 \in Int /\ 1 \in Int /\ 2 \in Int
  OBVIOUS
<1>5. CASE SetUpLocal
  BY <1>3, <1>4, <1>5, FilledKeeps DEF SetUpLocal
<1>6. CASE SetUpGlobal
  BY <1>3, <1>4, <1>6, FilledKeeps DEF SetUpGlobal
<1>7. CASE SetUpGlobal1d
  BY <1>2, <1>4, <1>7, FilledKeeps DEF SetUpGlobal1d
<1>8. CASE SetUpLocalCxx
  BY <1>3, <1>4, <1>8, FilledKeeps DEF SetUpLocalCxx
<1>9. CASE SetUpGlobal1dCxx
  BY <1>3, <1>4, <1>9, FilledKeeps DEF SetUpGlobal1dCxx
<1>10. CASE SetUpReduce
  BY <1>3, <1>4, <1>10, FilledKeeps DEF SetUpReduce
<1>11. CASE SetUpCopy
  BY <1>3, <1>4, <1>11, FilledKeeps DEF SetUpCopy
<1> QED
  BY <1>5, <1>6, <1>7, <1>8, <1>9, <1>10, <1>11 DEF SetUp

-----------------------------------------------------------------------------
(* The kernels *)

\* The first kernel or the next one starts.
LEMMA StartTrialKeeps ==
    ASSUME StreamInv, args.mode \in DOMAIN Loops, phase \in {"select", "kernel"},
           phase' = "kernel", ~Hangs, StartTrial, UNCHANGED <<args, a, b, c, size>>,
           StopsEarly => \A i \in 2..args.n-1 : c[i] = 0
    PROVE  StreamInv'
<1>1. GoodArgs /\ args.n \in Nat /\ 0 \in Nodelets /\ args' = args
  <2>1. GoodArgs /\ 0 \in Nodelets
    BY GoodIs
  <2> QED
    BY <2>1, ArgsAre
<1>2. here' = 0 /\ sum' = 0
  BY DEF StartTrial
<1>3. TypeOK'
  BY <1>1, <1>2, SameArgs DEF StreamInv, TypeOK, Phases
<1>4. Loaded'
  <2>1. \A i : Result(i)' = Result(i)
    BY <1>1, SameArgs DEF Result
  <2>2. All(1)' = All(1)
    BY <1>1, SameArgs DEF All
  <2> QED
    BY <1>1, <2>1, <2>2, SameArgs DEF StreamInv, Loaded
<1>5. ASSUME Loops[args.mode] = "in order" PROVE Prefix'
  <2>1. todo' = Rest(0)
    BY <1>1, <1>5, PiecesAre DEF StartTrial
  <2>2. Rest(0)' = Rest(0) /\ 0 \in 0..args.n /\ \A i : i \notin 0..0-1
    BY <1>1 DEF Rest
  <2> QED
    BY <1>1, <1>2, <2>1, <2>2 DEF Prefix
<1>6. ASSUME ~IsReduce PROVE AllElse'
  <2>1. todo' = Pieces
    BY <1>6 DEF StartTrial
  <2> QED
    BY <1>1, <2>1, SameArgs DEF AllElse, Pieces
<1>7. AddedOnce'
  <2>1. Partition(todo')
    BY <1>1, PiecesPartition, ChunksPartition DEF StartTrial
  <2>2. Partition(todo)'
    BY <1>1, <2>1, SameArgs DEF Partition
  <2>3. (GoodArgs /\ Partition(todo) /\ sum = 0 => AddedOnce)'
    BY PartitionAdds, PTL
  <2> QED
    BY <1>1, <1>2, <2>2, <2>3, SameArgs
<1>8. Running'
  BY <1>1, <1>5, <1>6, <1>7, SameArgs DEF Running
<1>9. Accepted'
  BY <1>1, StillAccepted
<1> QED
  BY <1>3, <1>4, <1>8, <1>9 DEF StreamInv, AtHome, Unloaded, NothingWritten, Validating,
                                VerdictExact

\* The end of a program with its verdict.
LEMMA VerdictKeeps ==
    ASSUME StreamInv, UNCHANGED <<args, here, sum>>, phase' \in {"passed", "failed"},
           phase \in {"select", "kernel", "validate"}, VerdictExact'
    PROVE  StreamInv'
<1>1. TypeOK'
  BY SameArgs DEF StreamInv, TypeOK, Phases
<1>2. Accepted'
  BY StillAccepted
<1> QED
  BY <1>1, <1>2 DEF StreamInv, AtHome, Unloaded, Loaded, NothingWritten, Running, Validating

\* The validation is reached.
LEMMA ToValidation ==
    ASSUME StreamInv, phase \in {"select", "kernel"}, phase' = "validate", here' = 0,
           UNCHANGED <<args, a, b, c, size, sum>>, ~IsReduce, ~Hangs,
           IF Hopeless THEN \E i \in Elements : c[i] # Expected ELSE c = All(Expected)
    PROVE  StreamInv'
<1>1. 0 \in Nodelets /\ args' = args
  BY GoodIs
<1>2. TypeOK' /\ AtHome'
  BY <1>1, SameArgs DEF StreamInv, TypeOK, AtHome, Phases
<1>3. /\ \A i : Result(i)' = Result(i)
      /\ All(Expected)' = All(Expected)
  BY <1>1, SameArgs DEF Result, All
<1>4. Loaded'
  BY <1>1, <1>3, SameArgs DEF StreamInv, Loaded
<1>5. Validating'
  BY <1>1, <1>3, SameArgs DEF Validating
<1>6. Accepted'
  BY <1>1, StillAccepted
<1> QED
  BY <1>2, <1>4, <1>5, <1>6 DEF StreamInv, Unloaded, NothingWritten, Running,
                                VerdictExact

\* No array holds the expected value before it is written.
LEMMA UntouchedIs ==
    /\ Untouched # Expected
    /\ StopsEarly \/ args.program = "local_stream_cxx" => Untouched = 0
BY DEF Untouched, Expected, IsCopy, StopsEarly

LEMMA SelectKeeps == StreamInv /\ Select => StreamInv'
<1> SUFFICES ASSUME StreamInv, Select PROVE StreamInv'
  OBVIOUS
<1>1. /\ phase = "select" /\ args.mode \in DOMAIN Loops
      /\ UNCHANGED <<args, a, b, c, size>>
  BY DEF Select, arrays
<1>2. CASE ThreadsFit /\ ~Endless
  <2>1. ASSUME StopsEarly, NEW i \in 2..args.n-1 PROVE c[i] = 0
    <3>1. ~IsReduce /\ Untouched = 0
      BY <2>1, UntouchedIs DEF StopsEarly, IsReduce
    <3>2. i \in Elements
      <4>1. GoodArgs
        BY <1>1, GoodIs
      <4>2. PICK n \in Nat : n = args.n
        BY <4>1, ArgsAre
      <4> QED
        BY <4>2 DEF Elements
    <3> QED
      BY <1>1, <3>1, <3>2 DEF StreamInv, NothingWritten, All
  <2>2. phase' = "kernel" /\ StartTrial /\ ~Hangs
    BY <1>2 DEF Select, Hangs
  <2> QED
    BY <1>1, <2>1, <2>2, StartTrialKeeps
<1>3. CASE ThreadsFit /\ Endless
  <2>1. phase' = "endless" /\ here' = 0 /\ sum' = 0 /\ 0 \in Nodelets
    BY <1>1, <1>3, GoodIs DEF Select, StartTrial
  <2> QED
    BY <1>1, <2>1, GivesUp
<1>4. CASE ~ThreadsFit
  BY <1>1, <1>4, SameArgs, GivesUp DEF Select, StreamInv, TypeOK
<1> QED
  BY <1>2, <1>3, <1>4

LEMMA SelectUnknownKeeps == StreamInv /\ SelectUnknown => StreamInv'
<1> SUFFICES ASSUME StreamInv, SelectUnknown PROVE StreamInv'
  OBVIOUS
<1>1. /\ phase = "select" /\ args.mode \notin DOMAIN Loops /\ here = 0
      /\ UNCHANGED <<args, a, b, c, size, here, sum>>
      /\ phase' = IF IsCxx THEN "refused" ELSE IF IsReduce THEN "passed" ELSE "validate"
  BY DEF StreamInv, AtHome, SelectUnknown, arrays
<1>2. CASE IsCxx
  BY <1>1, <1>2, GivesUp DEF StreamInv, TypeOK
<1>3. CASE ~IsCxx /\ IsReduce
  <2>1. ~Hopeless
    BY <1>3 DEF Hopeless, IsReduce
  <2>2. Valid /\ ~Hangs
    BY <1>1, <1>3 DEF StreamInv, Accepted, Hangs, IsReduce
  <2>3. VerdictExact'
    BY <1>1, <1>3, <2>1, <2>2, SameArgs DEF VerdictExact
  <2> QED
    BY <1>1, <1>3, <2>3, VerdictKeeps
<1>4. CASE ~IsCxx /\ ~IsReduce
  <2>1. Hopeless
    BY <1>1, <1>4 DEF Hopeless
  <2>2. 0 \in Elements /\ ~Hangs
    <3>1. GoodArgs /\ ~Hangs
      BY <1>1, GoodIs DEF Hangs
    <3>2. PICK n \in Nat \ {0} : n = args.n
      BY <3>1, ArgsAre
    <3> QED
      BY <3>1, <3>2 DEF Elements
  <2>3. c[0] # Expected
    BY <1>1, <1>4, <2>2, UntouchedIs DEF StreamInv, NothingWritten, All
  <2> QED
    BY <1>1, <1>4, <2>1, <2>2, <2>3, ToValidation
<1> QED
  BY <1>2, <1>3, <1>4

\* What a piece does to the arrays.
LEMMA BodyIs ==
    ASSUME StreamInv, phase = "kernel", NEW piece, Body(piece)
    PROVE  /\ Loaded'
           /\ ~IsReduce => /\ \A i \in Elements :
                                 c'[i] = IF i \in piece THEN Written ELSE c[i]
                           /\ UNCHANGED sum
<1>1. /\ todo' = todo \ {piece} /\ UNCHANGED <<args, phase, a, b, size>>
      /\ IF IsReduce THEN UNCHANGED c
         ELSE /\ c' = [i \in Elements |-> IF i \in piece THEN Result(i) ELSE c[i]]
              /\ UNCHANGED sum
  BY DEF Body
<1>2. /\ IF IsReduce THEN a = All(1)
                     ELSE /\ \A i \in Elements : Result(i) = Written
                          /\ c \in [Elements -> {Untouched, Written}]
      /\ size \in [Nodelets -> Nat]
      /\ size[0] = args.n
      /\ \A m \in Nodelets \ {0} :
            size[m] = IF args.program = "global_stream_1d" THEN 0 ELSE args.n
  BY DEF StreamInv, Loaded
<1>3. /\ \A i : Result(i)' = Result(i)
      /\ All(1)' = All(1)
  BY <1>1, SameArgs DEF Result, All
<1>4. ~IsReduce => /\ c' \in [Elements -> {Untouched, Written}]
                   /\ \A i \in Elements : c'[i] = IF i \in piece THEN Written ELSE c[i]
  BY <1>1, <1>2
<1>5. Loaded'
  BY <1>1, <1>2, <1>3, <1>4, SameArgs DEF Loaded
<1> QED
  BY <1>1, <1>4, <1>5

\* What is left to show of a step of a kernel.
LEMMA StillRunning ==
    ASSUME StreamInv, phase = "kernel", phase' = "kernel", args' = args,
           Loaded', Running', here' \in Nodelets, sum' \in Nat
    PROVE  StreamInv'
<1>1. TypeOK'
  BY SameArgs DEF StreamInv, TypeOK
<1>2. Accepted'
  BY StillAccepted
<1> QED
  BY <1>1, <1>2 DEF StreamInv, AtHome, Unloaded, NothingWritten, Validating,
                    VerdictExact

LEMMA RunPieceKeeps == StreamInv /\ RunPiece => StreamInv'
<1> SUFFICES ASSUME StreamInv, RunPiece PROVE StreamInv'
  OBVIOUS
<1>1. /\ phase = "kernel" /\ Loops[args.mode] = "any order" /\ UNCHANGED here
  BY DEF RunPiece
<1>2. PICK piece \in todo : Body(piece)
  BY DEF RunPiece
<1>3. UNCHANGED <<args, phase>> /\ todo' = todo \ {piece}
  BY <1>2 DEF Body
<1>4. Loaded' /\ (~IsReduce => /\ \A i \in Elements :
                                      c'[i] = IF i \in piece THEN Written ELSE c[i]
                               /\ UNCHANGED sum)
  BY <1>1, <1>2, BodyIs
<1>5. TypeOK /\ Loops[args.mode] # "in order"
      /\ (IsReduce => a = All(1) /\ AddedOnce) /\ (~IsReduce => AllElse)
      /\ args.mode \in DOMAIN Loops
  BY <1>1 DEF StreamInv, Running, Loaded
<1>6. IsReduce => AddedOnce' /\ sum' \in Nat
  <2>1. GoodArgs
    BY <1>1, GoodIs
  <2> QED
    BY <1>2, <1>5, <2>1, BodyAdds
<1>7. ~IsReduce => AllElse'
  BY <1>3, <1>4, <1>5, SameArgs DEF AllElse
<1>8. ~StopsEarly
  BY <1>5, SerialOf1d DEF StopsEarly
<1>9. Running'
  BY <1>3, <1>5, <1>6, <1>7, <1>8, SameArgs DEF Running
<1>10. sum' \in Nat /\ here' \in Nodelets
  BY <1>1, <1>4, <1>5, <1>6 DEF TypeOK
<1> QED
  BY <1>1, <1>3, <1>4, <1>9, <1>10, StillRunning

\* The bound of the serial loop is n or 0.
LEMMA BoundIs ==
    ASSUME GoodArgs, TypeOK, Loaded, phase = "kernel"
    PROVE  Bound \in 0..args.n
<1>1. PICK n \in Nat \ {0, 1} : n = args.n
  BY ArgsAre
<1>2. /\ size[0] = n
      /\ \A m \in Nodelets \ {0} : size[m] = IF args.program = "global_stream_1d" THEN 0
                                                                                ELSE n
  BY <1>1 DEF Loaded
<1>3. here \in Nodelets
  BY DEF TypeOK
<1>4. size[here] \in {0, n}
  BY <1>2, <1>3
<1>5. Bound \in {0, n}
  BY <1>1, <1>4 DEF Bound
<1> QED
  BY <1>1, <1>5

\* Where the serial loop is.
LEMMA IndexIs ==
    ASSUME StreamInv, InOrder
    PROVE  \E k \in 0..args.n :
               /\ todo = Rest(k) /\ Index = k
               /\ ~IsReduce => \A i \in 0..k-1 : c[i] = Written
               /\ here = IF k = 0 THEN 0 ELSE Home(k - 1)
               /\ StopsEarly => k <= 2
               /\ Bound \in 0..args.n
<1>1. Prefix /\ GoodArgs /\ args.n \in Nat
  <2>1. phase = "kernel" /\ Prefix
    BY DEF StreamInv, Running, InOrder
  <2>2. GoodArgs
    BY <2>1, GoodIs
  <2> QED
    BY <2>1, <2>2, ArgsAre
<1>2. PICK k \in 0..args.n :
               /\ todo = Rest(k)
               /\ ~IsReduce => \A i \in 0..k-1 : c[i] = Written
               /\ here = IF k = 0 THEN 0 ELSE Home(k - 1)
               /\ StopsEarly => k <= 2
  BY <1>1 DEF Prefix
<1>3. Cardinality(todo) = args.n - k
  BY <1>1, <1>2, RestIs
<1>4. Index = k
  BY <1>1, <1>3 DEF Index
<1>5. Bound \in 0..args.n
  BY <1>1, BoundIs DEF StreamInv, InOrder
<1> QED
  BY <1>2, <1>4, <1>5

LEMMA RunNextKeeps == StreamInv /\ RunNext => StreamInv'
<1> SUFFICES ASSUME StreamInv, RunNext PROVE StreamInv'
  OBVIOUS
<1>1. /\ phase = "kernel" /\ Loops[args.mode] = "in order" /\ InOrder
      /\ GoodArgs /\ TypeOK
  <2>1. phase = "kernel" /\ InOrder
    BY DEF RunNext, InOrder
  <2> QED
    BY <2>1, GoodIs DEF InOrder, StreamInv
<1>2. PICK k \in 0..args.n :
               /\ todo = Rest(k) /\ Index = k
               /\ ~IsReduce => \A i \in 0..k-1 : c[i] = Written
               /\ here = IF k = 0 THEN 0 ELSE Home(k - 1)
               /\ StopsEarly => k <= 2
               /\ Bound \in 0..args.n
  BY <1>1, IndexIs
<1>3. PICK n \in Nat \ {0, 1} : n = args.n
  BY <1>1, ArgsAre
<1>4. k \in Nat /\ k < n /\ k < Bound /\ Body({k}) /\ here' = Home(k)
  BY <1>2, <1>3 DEF RunNext
<1>5. UNCHANGED <<args, phase>> /\ todo' = todo \ {{k}}
  BY <1>4 DEF Body
<1>6. {k} \in todo /\ todo' = Rest(k + 1) /\ k \in Elements
  <2>1. k < args.n
    BY <1>3, <1>4
  <2>2. {k} \in Rest(k) /\ Rest(k) \ {{k}} = Rest(k + 1)
    BY <1>1, <2>1, RestIs
  <2>3. k \in Elements
    BY <1>3, <1>4 DEF Elements
  <2> QED
    BY <1>2, <1>5, <2>2, <2>3
<1>7. Loaded' /\ (~IsReduce => /\ \A i \in Elements :
                                      c'[i] = IF i \in {k} THEN Written ELSE c[i]
                               /\ UNCHANGED sum)
  BY <1>1, <1>4, BodyIs
<1>8. /\ IsReduce => a = All(1) /\ AddedOnce
      /\ StopsEarly => \A i \in 2..args.n-1 : c[i] = 0
      /\ args.mode \in DOMAIN Loops
  BY <1>1 DEF StreamInv, Running, Loaded
<1>9. IsReduce => AddedOnce' /\ sum' \in Nat
  BY <1>1, <1>4, <1>6, <1>8, BodyAdds
<1>10. StopsEarly => k < 2
  <2>1. SUFFICES ASSUME StopsEarly, k = 2 PROVE FALSE
    BY <1>2, <1>4
  <2>2. args.program = "global_stream_1d" /\ args.reload /\ args.nodelets > 1
    BY <2>1 DEF StopsEarly
  <2>3. here = 1 /\ Bound = size[1]
    <3>1. here = Home(1)
      BY <1>2, <2>1
    <3>2. Home(1) = 1
      BY <1>1, <2>2, SecondHome
    <3> QED
      BY <2>2, <3>1, <3>2 DEF Bound
  <2>4. 1 \in Nodelets \ {0}
    <3>1. PICK m \in Nat \ {0} : m = args.nodelets
      BY <1>1, ArgsAre
    <3> QED
      BY <2>2, <3>1 DEF Nodelets
  <2>5. size[1] = 0
    BY <1>1, <2>2, <2>4 DEF StreamInv, Loaded
  <2> QED
    BY <1>4, <2>3, <2>5
<1>11. Prefix'
  <2>1. PICK j \in 0..args.n : j = k + 1
    BY <1>3, <1>4
  <2>2. todo' = Rest(j) /\ Rest(j)' = Rest(j)
    BY <1>5, <1>6, <2>1 DEF Rest
  <2>3. ASSUME ~IsReduce, NEW i \in 0..j-1 PROVE c'[i] = Written
    <3>1. i \in Elements /\ (i = k \/ i \in 0..k-1)
      BY <1>3, <1>4, <2>1, <2>3 DEF Elements
    <3> QED
      BY <1>2, <1>7, <2>3, <3>1
  <2>4. j # 0 /\ j - 1 = k /\ Home(j - 1)' = Home(k)
    BY <1>4, <1>5, <2>1, SameArgs DEF Home
  <2>5. StopsEarly => j <= 2
    BY <1>4, <1>10, <2>1
  <2> QED
    BY <1>4, <1>5, <2>2, <2>3, <2>4, <2>5, SameArgs DEF Prefix
<1>12. ASSUME StopsEarly, NEW i \in 2..args.n-1 PROVE c'[i] = 0
  <2>1. ~IsReduce
    BY <1>12 DEF StopsEarly, IsReduce
  <2>2. i \in Elements /\ i # k
    BY <1>3, <1>4, <1>10, <1>12 DEF Elements
  <2> QED
    BY <1>7, <1>8, <1>12, <2>1, <2>2
<1>13. Running'
  BY <1>1, <1>5, <1>8, <1>9, <1>11, <1>12, SameArgs DEF Running
<1>14. sum' \in Nat /\ here' \in Nodelets
  BY <1>1, <1>4, <1>6, <1>7, <1>9, HomeIs DEF TypeOK
<1> QED
  BY <1>1, <1>5, <1>7, <1>13, <1>14, StillRunning

\* The kernel has done all there is to do, unless it stops early.
LEMMA KernelDoneIs ==
    ASSUME StreamInv, KernelDone
    PROVE  /\ IsReduce => sum = args.n
           /\ ~IsReduce /\ ~StopsEarly => \A i \in Elements : c[i] = Written
<1>1. phase = "kernel" /\ TypeOK /\ Running /\ GoodArgs
  <2>1. phase = "kernel"
    BY DEF KernelDone
  <2> QED
    BY <2>1, GoodIs DEF StreamInv
<1>2. CASE ~InOrder
  <2>1. todo = {} /\ Loops[args.mode] # "in order"
    BY <1>1, <1>2 DEF KernelDone, InOrder
  <2> QED
    BY <1>1, <2>1, AllAdded DEF Running, AllElse
<1>3. CASE InOrder /\ ~StopsEarly
  <2>1. PICK n \in Nat \ {0, 1} : n = args.n
    BY <1>1, ArgsAre
  <2>2. PICK k \in 0..n :
               /\ todo = Rest(k) /\ Index = k
               /\ ~IsReduce => \A i \in 0..k-1 : c[i] = Written
               /\ here = IF k = 0 THEN 0 ELSE Home(k - 1)
    BY <1>3, <2>1, IndexIs
  <2>3. k >= Bound /\ args.mode \in DOMAIN Loops /\ Loops[args.mode] = "in order"
    BY <1>1, <1>3, <2>2 DEF KernelDone, InOrder, Running
  <2>4. /\ size[0] = n
        /\ args.program # "global_stream_1d" => \A m \in Nodelets : size[m] = n
    BY <1>1, <2>1 DEF StreamInv, Loaded
  <2>5. k = n
    <3> SUFFICES ASSUME k # n PROVE Bound = n
      <4>1. ASSUME Bound = n PROVE k >= n
        BY <2>3, <4>1, Zenon
      <4> QED
        BY <4>1
    <3>1. k < n
      OBVIOUS
    <3>2. here \in Nodelets /\ args.reload \in BOOLEAN
      BY <1>1, ArgsAre DEF TypeOK
    <3>3. CASE ~args.reload
      BY <2>1, <3>3 DEF Bound
    <3>4. CASE args.reload /\ args.program # "global_stream_1d"
      BY <2>4, <3>2, <3>4 DEF Bound
    <3>5. CASE args.reload /\ args.program = "global_stream_1d"
      <4>1. args.mode = "serial"
        BY <2>3, <3>5, SerialOf1d
      <4>2. PICK m \in Nat \ {0} : m = args.nodelets
        BY <1>1, ArgsAre
      <4>3. m = 1 \/ n = 2
        BY <1>3, <2>1, <3>5, <4>1, <4>2 DEF StopsEarly
      <4>4. SUFFICES here = 0
        BY <2>4, <3>5 DEF Bound
      <4>5. CASE m = 1
        BY <3>2, <4>2, <4>5 DEF Nodelets
      <4>6. CASE n = 2
        <5>1. k = 0 \/ k = 1
          BY <3>1, <4>6
        <5>2. k # 0 => here = Home(0)
          BY <2>2, <5>1
        <5> QED
          BY <1>1, <2>2, <3>5, <5>1, <5>2, SecondHome DEF TypeOK
      <4> QED
        BY <4>3, <4>5, <4>6
    <3> QED
      BY <3>2, <3>3, <3>4, <3>5
  <2>6. todo = {} /\ (~IsReduce => \A i \in Elements : c[i] = Written)
    BY <1>1, <2>1, <2>2, <2>5, PiecesAre DEF Elements, TypeOK
  <2> QED
    BY <1>1, <2>6, AllAdded DEF Running
<1>4. CASE StopsEarly
  BY <1>4 DEF StopsEarly, IsReduce
<1> QED
  BY <1>2, <1>3, <1>4

LEMMA EndTrialKeeps == StreamInv /\ EndTrial => StreamInv'
<1> SUFFICES ASSUME StreamInv, EndTrial PROVE StreamInv'
  OBVIOUS
<1>1. /\ phase = "kernel" /\ KernelDone /\ UNCHANGED <<args, a, b, c, size>>
      /\ args.mode \in DOMAIN Loops
      /\ StopsEarly => \A i \in 2..args.n-1 : c[i] = 0
      /\ ~Hangs /\ (args.program = "local_stream_cxx" \/ Valid)
      /\ GoodArgs /\ 0 \in Nodelets
  <2>1. phase = "kernel" /\ KernelDone /\ UNCHANGED <<args, a, b, c, size>>
    BY DEF EndTrial, KernelDone, arrays
  <2>2. GoodArgs /\ 0 \in Nodelets
    BY <2>1, GoodIs
  <2> QED
    BY <2>1, <2>2 DEF StreamInv, Running, Accepted
<1>2. /\ IsReduce => sum = args.n
      /\ ~IsReduce /\ ~StopsEarly => \A i \in Elements : c[i] = Written
  BY <1>1, KernelDoneIs
<1>3. CASE NextTrial < trials
  BY <1>1, <1>2, <1>3, StartTrialKeeps DEF EndTrial
<1>4. CASE ~(NextTrial < trials) /\ IsReduce
  <2>1. ~Hopeless
    BY <1>1, <1>4 DEF Hopeless, IsReduce
  <2>2. phase' = "passed" /\ here' = 0 /\ UNCHANGED <<args, sum>>
    BY <1>1, <1>2, <1>4 DEF EndTrial
  <2>3. VerdictExact'
    BY <1>1, <1>4, <2>1, <2>2, SameArgs DEF VerdictExact, IsReduce
  <2>4. TypeOK'
    BY <1>1, <2>2, SameArgs DEF StreamInv, TypeOK, Phases
  <2>5. Accepted'
    BY <1>1, <2>2, StillAccepted
  <2> QED
    BY <2>2, <2>3, <2>4, <2>5 DEF StreamInv, AtHome, Unloaded, Loaded, NothingWritten, Running,
                            Validating
<1>5. CASE ~(NextTrial < trials) /\ ~IsReduce
  <2>1. phase' = "validate" /\ here' = 0 /\ UNCHANGED sum
    BY <1>5 DEF EndTrial
  <2>2. PICK n \in Nat \ {0, 1} : n = args.n
    BY <1>1, ArgsAre
  <2>3. c \in [Elements -> {Untouched, Written}]
    BY <1>1, <1>5 DEF StreamInv, Loaded
  <2>4. ASSUME Hopeless PROVE \E i \in Elements : c[i] # Expected
    <3>1. CASE args.program = "local_stream_cxx"
      <4>1. Untouched = 0 /\ Written = 0 /\ Expected = 3
        BY <3>1, UntouchedIs DEF Written, Expected, IsCopy
      <4>2. 0 \in Elements
        BY <2>2 DEF Elements
      <4> QED
        BY <2>3, <4>1, <4>2
    <3>2. CASE StopsEarly
      <4>1. Expected = 3 /\ 2 \in 2..n-1 /\ 2 \in Elements
        BY <2>2, <3>2 DEF StopsEarly, Expected, IsCopy, Elements
      <4> QED
        BY <1>1, <2>2, <3>2, <4>1
    <3> QED
      BY <1>1, <1>5, <2>4, <3>1, <3>2 DEF Hopeless, StopsEarly
  <2>5. ASSUME ~Hopeless PROVE c = All(Expected)
    <3>1. ~StopsEarly /\ Written = Expected
      BY <2>5 DEF Hopeless, StopsEarly, Written
    <3> QED
      BY <1>2, <1>5, <2>3, <3>1 DEF All
  <2> QED
    BY <1>1, <1>5, <2>1, <2>4, <2>5, ToValidation
<1> QED
  BY <1>3, <1>4, <1>5

LEMMA ValidateKeeps == StreamInv /\ Validate => StreamInv'
<1> SUFFICES ASSUME StreamInv, Validate PROVE StreamInv'
  OBVIOUS
<1>1. /\ phase = "validate" /\ UNCHANGED <<args, a, b, c, size, here, sum>>
      /\ here = 0 /\ size[0] = args.n /\ ~IsReduce
      /\ IF Hopeless THEN \E i \in Elements : c[i] # Expected ELSE c = All(Expected)
  BY DEF StreamInv, Validate, AtHome, Loaded, Validating, arrays
<1>2. phase' = IF \A i \in Elements : c[i] = Expected THEN "passed" ELSE "failed"
  BY <1>1 DEF Validate, Elements
<1>3. All(Expected)' = All(Expected)
  BY <1>1, SameArgs DEF All
<1>4. VerdictExact'
  <2>1. ~Hangs /\ (args.program = "local_stream_cxx" \/ Valid)
    BY <1>1 DEF StreamInv, Accepted
  <2>2. args.program = "local_stream_cxx" => Hopeless
    BY DEF Hopeless
  <2>3. \/ phase' = "passed" /\ ~Hopeless /\ c = All(Expected)
        \/ phase' = "failed" /\ Hopeless
    BY <1>1, <1>2 DEF All
  <2> QED
    BY <1>1, <1>3, <2>1, <2>2, <2>3, SameArgs DEF VerdictExact
<1> QED
  BY <1>1, <1>2, <1>4, VerdictKeeps

LEMMA StreamInvInit == Init => StreamInv
<1> SUFFICES ASSUME Init PROVE StreamInv
  OBVIOUS
<1>1. TypeOK
  BY StartNodelet DEF Init, TypeOK, Phases
<1> QED
  BY <1>1 DEF Init, StreamInv, Accepted, AtHome, Unloaded, Loaded, NothingWritten, Running,
              Validating, VerdictExact

LEMMA StreamInvStep == StreamInv /\ [Next]_vars => StreamInv'
<1> SUFFICES ASSUME StreamInv, [Next]_vars PROVE StreamInv'
  OBVIOUS
<1>1. CASE Step
  BY <1>1, ReadKeeps, SetUpKeeps, SelectKeeps, SelectUnknownKeeps, RunPieceKeeps,
     RunNextKeeps, EndTrialKeeps, ValidateKeeps DEF Step
<1>2. CASE UNCHANGED vars
  <2>1. UNCHANGED <<args, phase, a, b, c, size, todo, here, sum>>
    BY <1>2 DEF vars, arrays
  <2>2. /\ \A x : All(x)' = All(x)
        /\ \A i : Result(i)' = Result(i) /\ Home(i)' = Home(i)
        /\ \A k : Rest(k)' = Rest(k)
    BY <2>1, SameArgs DEF All, Result, Home, Rest
  <2>3. TypeOK' /\ Accepted' /\ AtHome' /\ Unloaded' /\ Loaded' /\ NothingWritten'
    BY <2>1, <2>2, SameArgs
       DEF StreamInv, TypeOK, Accepted, AtHome, Unloaded, Loaded, NothingWritten
  <2>4. Running' /\ Validating' /\ VerdictExact'
    BY <2>1, <2>2, SameArgs
       DEF StreamInv, Running, Prefix, AllElse, AddedOnce, Validating, VerdictExact
  <2> QED
    BY <2>3, <2>4 DEF StreamInv
<1> QED
  BY <1>1, <1>2 DEF Next

\* A program that comes to a verdict says that its result is right if, and only if, it
\* is, for all sizes, numbers of threads, nodelets and trials, and in every order in
\* which the threads run; with a grain of 0 it comes to none.
THEOREM StreamVerdictExact == Spec => []VerdictExact
<1>1. StreamInv => VerdictExact
  BY DEF StreamInv
<1> QED
  BY <1>1, StreamInvInit, StreamInvStep, PTL DEF Spec
=============================================================================
