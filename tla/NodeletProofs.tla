--------------------------- MODULE NodeletProofs ---------------------------
(***************************************************************************)
(* Proofs about scatter.c for all command lines and numbers of trials:     *)
(* every copy that is made is one of the buffer of nodelet 0, when a trial *)
(* ends every nodelet has been given it, and how many threads that takes.  *)
(* At the end, about vector.cc: the vectors on a nodelet are private as    *)
(* long as the calls of allocate() there do not overlap.                   *)
(***************************************************************************)
EXTENDS Scatter, Arena, FiniteSetTheorems, TLAPS

\* The command line is one that main lets through.
LEMMA ArgsAre ==
    ASSUME args \in Arguments
    PROVE  /\ args.mode \in ScatterModes
           /\ args.n \in Nat \ {0, 1}
           /\ args.num_threads \in Nat \ {0}
           /\ args.nodelets \in Nat \ {0}
BY ScatterAssumption

\* The counter of spawns goes up by at most one.
LEMMA CountSpawnIs ==
    ASSUME spawned \in Nat, CountSpawn
    PROVE  spawned' \in Nat /\ spawned' <= spawned + 1
BY DEF CountSpawn

-----------------------------------------------------------------------------
(* Types *)

\* A copier reads from nodelet 0, and writes to another one.
CopierOK(t) == /\ t = Copier(0, t.dst, t.low, t.high)
               /\ t.dst \in 1..args.nodelets-1
               /\ t.low \in Nat
               /\ t.high \in 0..args.n

SplitterOK(t) == /\ t = Splitter(t.dst, t.low)
                 /\ t.dst \in 1..args.nodelets-1
                 /\ t.low \in Nat

\* A tree thread serves at least one nodelet.
TreeOK(t) == /\ t = [Tree(t.at, t.begin, t.end) EXCEPT !.todo = t.todo]
             /\ t.at \in Nodelets
             /\ t.begin \in Nodelets
             /\ t.end \in 1..args.nodelets
             /\ t.begin < t.end
             /\ t.todo \subseteq Elements

ThreadOK(t) == \/ t.role = "copy" /\ CopierOK(t)
               \/ t.role = "split" /\ SplitterOK(t)
               \/ t.role = "tree" /\ TreeOK(t)

TypeOK == /\ args \in Arguments
          /\ trial \in Nat
          /\ next \in Nat \ {0}
          /\ fresh \in [Nodelets -> SUBSET Elements]
          /\ spawned \in Nat
          /\ \A t \in threads : ThreadOK(t)

\* A tree thread is at a nodelet that has the whole buffer, and what it has done of
\* its copy is at its middle.
CompleteAt(t) ==
    t.role = "tree" => /\ fresh[t.at] = Elements
                       /\ ~IsLeaf(t) => Elements \ t.todo \subseteq fresh[Middle(t)]

\* All threads read from buffers that are complete.
CompleteSources == fresh[0] = Elements /\ \A t \in threads : CompleteAt(t)

\* What t has still to copy, or to have copied by threads it will spawn.
Owes(t, m, i) ==
    \/ t.role = "copy" /\ m = t.dst /\ t.low <= i /\ i < t.high
    \/ t.role = "split" /\ m = t.dst /\ t.low <= i
    \/ /\ t.role = "tree"
       /\ t.begin < m /\ m < t.end
       /\ m = Middle(t) => i \in t.todo

\* Each element of each nodelet is there, or it is some thread's business, or the
\* main thread has still to see to this nodelet.
Covered == \A m \in Nodelets, i \in Elements :
               \/ i \in fresh[m]
               \/ next <= m
               \/ \E t \in threads : Owes(t, m, i)

CopyInv == TypeOK /\ CompleteSources /\ Covered

-----------------------------------------------------------------------------
(* What the steps of threads have in common *)

\* A copy from a complete buffer only adds to what is fresh.
LEMMA CopyAdds ==
    ASSUME TypeOK, NEW src \in Nodelets, NEW dst \in Nodelets, NEW i \in Elements,
           fresh[src] = Elements, Copy(src, dst, i), args' = args
    PROVE  /\ fresh' \in [Nodelets -> SUBSET Elements]'
           /\ \A m \in Nodelets : fresh[m] \subseteq fresh'[m]
           /\ \A m \in Nodelets : fresh[m] = Elements => fresh'[m] = Elements
           /\ i \in fresh'[dst]
<1>1. fresh \in [Nodelets -> SUBSET Elements]
  BY DEF TypeOK
<1>2. fresh' = [fresh EXCEPT ![dst] = @ \union {i}]
  BY DEF Copy
<1>3. Nodelets' = Nodelets /\ Elements' = Elements
  BY DEF Nodelets, Elements
<1> HIDE DEF Nodelets, Elements
<1> QED
  BY <1>1, <1>2, <1>3

\* A thread that ends, goes on or spawns others hands on what it owes.
LEMMA Handover ==
    ASSUME Covered, UNCHANGED <<args, next>>, NEW t \in threads,
           threads \ {t} \subseteq threads',
           \A m \in Nodelets : fresh[m] \subseteq fresh'[m],
           \A m \in Nodelets, i \in Elements :
               Owes(t, m, i) => i \in fresh'[m] \/ \E u \in threads' : Owes(u, m, i)
    PROVE  Covered'
<1>1. Nodelets' = Nodelets /\ Elements' = Elements
  BY DEF Nodelets, Elements
<1>2. SUFFICES ASSUME NEW m \in Nodelets, NEW i \in Elements
               PROVE  i \in fresh'[m] \/ next' <= m \/ \E u \in threads' : Owes(u, m, i)
  BY <1>1 DEF Covered
<1>3. CASE i \in fresh[m] \/ next <= m
  BY <1>3
<1>4. ASSUME NEW u \in threads, Owes(u, m, i)
      PROVE  i \in fresh'[m] \/ \E v \in threads' : Owes(v, m, i)
  BY <1>4
<1> QED
  BY <1>3, <1>4 DEF Covered

\* The middle of a range of two or more is inside.
LEMMA Halves ==
    ASSUME NEW b \in Nat, NEW e \in Nat, b < e, e - b # 1
    PROVE  LET m == b + ((e - b) \div 2) IN b < m /\ m < e
OBVIOUS

\* The range of a tree thread and its middle.
LEMMA TreeIs ==
    ASSUME TypeOK, NEW t \in threads, t.role = "tree"
    PROVE  /\ TreeOK(t)
           /\ t.begin \in Nat /\ t.end \in Nat /\ t.begin < t.end /\ t.end <= args.nodelets
           /\ t.at \in Nodelets /\ t.begin \in Nodelets
           /\ t.todo \subseteq Elements
           /\ Middle(t) \in Nat
           /\ ~IsLeaf(t) => /\ t.begin < Middle(t) /\ Middle(t) < t.end
                            /\ Middle(t) \in Nodelets
<1>1. TreeOK(t)
  BY DEF TypeOK, ThreadOK
<1>2. args.nodelets \in Nat
  BY ArgsAre DEF TypeOK
<1>3. /\ t.begin \in Nat /\ t.end \in Nat /\ t.begin < t.end /\ t.end <= args.nodelets
      /\ t.at \in Nodelets /\ t.begin \in Nodelets /\ t.todo \subseteq Elements
  BY <1>1, <1>2 DEF TreeOK, Nodelets
<1>4. /\ Middle(t) \in Nat
      /\ ~IsLeaf(t) => /\ t.begin < Middle(t) /\ Middle(t) < t.end
                       /\ Middle(t) \in Nodelets
  <2>1. t.begin + ((t.end - t.begin) \div 2) \in Nat
    BY <1>3
  <2>2. CASE IsLeaf(t)
    BY <2>1, <2>2 DEF Middle
  <2>3. CASE t.end - t.begin # 1
    BY <1>2, <1>3, <2>1, <2>3, Halves DEF Middle, IsLeaf, Nodelets
  <2> QED
    BY <2>2, <2>3 DEF IsLeaf
<1> QED
  BY <1>1, <1>3, <1>4

\* A step in the middle of a trial, which takes nothing away from a buffer.
Proceeds == /\ UNCHANGED <<args, trial>>
            /\ next' \in Nat \ {0}
            /\ spawned' \in Nat
            /\ fresh' \in [Nodelets -> SUBSET Elements]'
            /\ \A m \in Nodelets : fresh[m] \subseteq fresh'[m]

\* The threads that are new are as they should be.
GoodAre(new) == /\ threads' \subseteq threads \union new
                /\ \A t \in new : ThreadOK(t) /\ CompleteAt(t)'

\* The rest of CopyInv: old threads are as good as they were.
LEMMA Replaced ==
    ASSUME TypeOK, CompleteSources, Proceeds, NEW new, GoodAre(new)
    PROVE  TypeOK' /\ CompleteSources'
<1> USE DEF Proceeds, GoodAre
<1>1. Nodelets' = Nodelets /\ Elements' = Elements /\ 0 \in Nodelets
  BY ArgsAre DEF Nodelets, Elements, TypeOK
<1>2. \A t \in threads : ThreadOK(t)
  BY DEF TypeOK
<1>3. \A t : ThreadOK(t)' <=> ThreadOK(t)
  BY <1>1 DEF ThreadOK, CopierOK, SplitterOK, TreeOK, Tree
<1>4. \A t \in threads' : ThreadOK(t)'
  BY <1>2, <1>3
<1>5. TypeOK'
  BY <1>4 DEF TypeOK
<1>6. \A m \in Nodelets : fresh[m] = Elements => fresh'[m] = Elements
  BY <1>1
<1>7. ASSUME NEW t \in threads, t.role = "tree" PROVE CompleteAt(t)'
  <2>1. t.at \in Nodelets /\ (~IsLeaf(t) => Middle(t) \in Nodelets)
    BY <1>7, TreeIs
  <2> QED
    BY <1>1, <1>6, <2>1, <1>7 DEF CompleteSources, CompleteAt
<1>8. CompleteSources'
  <2>1. \A t \in threads' : CompleteAt(t)'
    BY <1>7 DEF CompleteAt
  <2> QED
    BY <1>1, <1>6, <2>1 DEF CompleteSources
<1> QED
  BY <1>5, <1>8

-----------------------------------------------------------------------------
(* The steps of the threads *)

LEMMA CopyElementKeeps ==
    ASSUME CopyInv, NEW t \in threads, CopyElement(t) PROVE CopyInv'
<1>1. t = Copier(0, t.dst, t.low, t.high) /\ CopierOK(t)
  BY DEF CopyInv, TypeOK, ThreadOK, SplitterOK, TreeOK, Splitter, Tree, CopyElement, CopierOK
<1>2. /\ 0 \in Nodelets /\ t.dst \in Nodelets /\ t.low \in Elements
      /\ t.src = 0 /\ t.role = "copy" /\ t.low < t.high /\ t.low \in Nat /\ t.high \in Nat
  BY <1>1, ArgsAre
     DEF CopyInv, TypeOK, CopierOK, Copier, CopyElement, Nodelets, Elements
<1>3. /\ fresh' \in [Nodelets -> SUBSET Elements]'
      /\ \A m \in Nodelets : fresh[m] \subseteq fresh'[m]
      /\ \A m \in Nodelets : fresh[m] = Elements => fresh'[m] = Elements
      /\ t.low \in fresh'[t.dst]
  BY <1>2, CopyAdds DEF CopyInv, CompleteSources, CopyElement
<1> DEFINE more == Copier(0, t.dst, t.low + 1, t.high)
<1>4. [t EXCEPT !.low = @ + 1] = more
  BY <1>1 DEF Copier
<1>5. CopierOK(more) /\ more.role = "copy" /\ more.dst = t.dst /\ more.low = t.low + 1
      /\ more.high = t.high
  BY <1>1, <1>2 DEF CopierOK, Copier
<1>6. threads' = (threads \ {t}) \union (IF t.low + 1 < t.high THEN {more} ELSE {})
  BY <1>4 DEF CopyElement
<1> HIDE DEF more
<1>7. TypeOK' /\ CompleteSources'
  <2>1. Proceeds
    BY <1>3 DEF CopyElement, CopyInv, TypeOK, Proceeds
  <2>2. GoodAre({more})
    BY <1>5, <1>6 DEF ThreadOK, CompleteAt, GoodAre
  <2> QED
    BY <2>1, <2>2, Replaced DEF CopyInv
<1>8. ASSUME NEW m \in Nodelets, NEW i \in Elements, Owes(t, m, i)
      PROVE  i \in fresh'[m] \/ \E u \in threads' : Owes(u, m, i)
  <2>1. m = t.dst /\ t.low <= i /\ i < t.high /\ i \in Nat
    BY <1>8, <1>2, ArgsAre DEF Owes, Elements
  <2>2. CASE i = t.low
    BY <1>3, <2>1, <2>2
  <2>3. CASE i # t.low
    <3>1. t.low + 1 <= i /\ t.low + 1 < t.high
      BY <1>2, <2>1, <2>3
    <3>2. more \in threads' /\ Owes(more, m, i)
      BY <1>5, <1>6, <2>1, <3>1 DEF Owes
    <3> QED
      BY <3>2
  <2> QED
    BY <2>2, <2>3
<1>9. Covered'
  <2>1. threads \ {t} \subseteq threads' /\ UNCHANGED <<args, next>>
    BY <1>6 DEF CopyElement
  <2> QED
    BY <1>3, <1>8, <2>1, Handover DEF CopyInv
<1> QED
  BY <1>7, <1>9 DEF CopyInv

\* A grain of 0 is a natural number, too.
LEMMA GrainIs == ASSUME TypeOK PROVE PerNodeletGrain \in Nat
<1>1. args.n \div args.num_threads \in Nat
  BY ArgsAre DEF TypeOK
<1> QED
  BY <1>1, ArgsAre DEF TypeOK, PerNodeletGrain

\* The parts of a turn of level 1.
Bound(t) == t.low + PerNodeletGrain
Last(t) == IF Bound(t) <= args.n THEN Bound(t) ELSE args.n

LEMMA SpawnChunkIs ==
    ASSUME TypeOK, NEW t \in threads, SpawnChunk(t)
    PROVE  /\ t.role = "split" /\ SplitterOK(t)
           /\ t.low \in Nat /\ t.low < args.n
           /\ Bound(t) \in Nat /\ Last(t) \in 0..args.n
           /\ threads' = (threads \ {t}) \union {Splitter(t.dst, Bound(t))}
                 \union (IF t.low < Last(t) THEN {Copier(0, t.dst, t.low, Last(t))} ELSE {})
           /\ spawned' \in Nat /\ spawned' <= spawned + 1
           /\ UNCHANGED <<args, trial, next, fresh>>
<1>1. t.role = "split" /\ SplitterOK(t)
  BY DEF TypeOK, ThreadOK, SpawnChunk
<1>2. t.low \in Nat /\ t.low < args.n /\ args.n \in Nat
  BY <1>1, ArgsAre DEF SplitterOK, SpawnChunk, TypeOK
<1>3. Bound(t) \in Nat /\ Last(t) \in 0..args.n
  BY <1>2, GrainIs DEF Bound, Last
<1>4. [t EXCEPT !.low = Bound(t)] = Splitter(t.dst, Bound(t))
  BY <1>1 DEF SplitterOK, Splitter
<1>5. spawned' \in Nat /\ spawned' <= spawned + 1
  BY CountSpawnIs DEF SpawnChunk, TypeOK
<1> QED
  BY <1>1, <1>2, <1>3, <1>4, <1>5 DEF SpawnChunk, Bound, Last

LEMMA SpawnChunkKeeps ==
    ASSUME CopyInv, NEW t \in threads, SpawnChunk(t) PROVE CopyInv'
<1>0. PICK rest, chunk : /\ rest = Splitter(t.dst, Bound(t))
                         /\ chunk = Copier(0, t.dst, t.low, Last(t))
  OBVIOUS
<1>a. TypeOK
  BY DEF CopyInv
<1>1. /\ t.role = "split" /\ t.low \in Nat /\ t.low < args.n /\ SplitterOK(t)
      /\ Bound(t) \in Nat /\ Last(t) \in 0..args.n
      /\ threads' = (threads \ {t}) \union {rest}
                        \union (IF t.low < Last(t) THEN {chunk} ELSE {})
      /\ spawned' \in Nat
      /\ UNCHANGED <<args, trial, next, fresh>>
  BY <1>0, <1>a, SpawnChunkIs DEF TypeOK
<1>2. /\ rest.role = "split" /\ rest.dst = t.dst /\ rest.low = Bound(t)
      /\ chunk.role = "copy" /\ chunk.dst = t.dst /\ chunk.low = t.low
      /\ chunk.high = Last(t)
  BY <1>0 DEF Splitter, Copier
<1>3. SplitterOK(rest) /\ CopierOK(chunk)
  BY <1>0, <1>1, <1>2 DEF SplitterOK, CopierOK
<1>4. fresh' \in [Nodelets -> SUBSET Elements]'
  BY <1>1, <1>a DEF TypeOK, Nodelets, Elements
<1>5. TypeOK' /\ CompleteSources'
  <2>1. GoodAre({rest, chunk})
    BY <1>1, <1>2, <1>3 DEF ThreadOK, CompleteAt, GoodAre
  <2>2. Proceeds
    BY <1>1, <1>4, <1>a DEF Proceeds, TypeOK
  <2> QED
    BY <2>1, <2>2, Replaced DEF CopyInv
<1>6. ASSUME NEW m \in Nodelets, NEW i \in Elements, Owes(t, m, i)
      PROVE  i \in fresh'[m] \/ \E u \in threads' : Owes(u, m, i)
  <2>1. m = t.dst /\ t.low <= i /\ i \in Nat /\ i < args.n /\ args.n \in Nat
    BY <1>6, <1>1, <1>a, ArgsAre DEF Owes, Elements, TypeOK
  <2>2. CASE Bound(t) <= i
    <3>1. rest \in threads' /\ Owes(rest, m, i)
      BY <1>1, <1>2, <2>1, <2>2 DEF Owes
    <3> QED
      BY <3>1
  <2>3. CASE i < Bound(t)
    <3>1. i < Last(t) /\ t.low < Last(t)
      BY <1>1, <2>1, <2>3 DEF Last
    <3>2. chunk \in threads' /\ Owes(chunk, m, i)
      BY <1>1, <1>2, <2>1, <3>1 DEF Owes
    <3> QED
      BY <3>2
  <2> QED
    BY <1>1, <2>1, <2>2, <2>3
<1>7. Covered'
  <2>1. threads \ {t} \subseteq threads' /\ \A m \in Nodelets : fresh[m] \subseteq fresh'[m]
    BY <1>1
  <2> QED
    BY <1>1, <1>6, <2>1, Handover DEF CopyInv
<1> QED
  BY <1>5, <1>7 DEF CopyInv

\* A thread that owes nothing may end.
LEMMA EndingKeeps ==
    ASSUME CopyInv, NEW t \in threads, threads' = threads \ {t},
           UNCHANGED <<args, trial, next, fresh, spawned>>,
           \A m \in Nodelets, i \in Elements : ~Owes(t, m, i)
    PROVE  CopyInv'
<1>1. Proceeds
  BY DEF CopyInv, TypeOK, Nodelets, Elements, Proceeds
<1>2. TypeOK' /\ CompleteSources'
  <2>1. GoodAre({})
    BY DEF GoodAre
  <2> QED
    BY <1>1, <2>1, Replaced DEF CopyInv
<1>3. Covered'
  BY <1>1, Handover DEF CopyInv, Proceeds
<1> QED
  BY <1>2, <1>3 DEF CopyInv

LEMMA EndSplitKeeps ==
    ASSUME CopyInv, NEW t \in threads, EndSplit(t) PROVE CopyInv'
<1>1. t.role = "split" /\ SplitterOK(t)
  BY DEF CopyInv, TypeOK, ThreadOK, EndSplit
<1>2. ASSUME NEW m \in Nodelets, NEW i \in Elements, Owes(t, m, i) PROVE FALSE
  BY <1>1, <1>2, ArgsAre DEF Owes, EndSplit, Elements, SplitterOK, CopyInv, TypeOK
<1> QED
  BY <1>2, EndingKeeps DEF EndSplit

LEMMA TreeLeafKeeps ==
    ASSUME CopyInv, NEW t \in threads, TreeLeaf(t) PROVE CopyInv'
<1>1. t.role = "tree" /\ t.begin \in Nat /\ t.end \in Nat /\ t.end - t.begin = 1
  BY TreeIs DEF CopyInv, TreeLeaf, IsLeaf
<1>2. ASSUME NEW m \in Nodelets, NEW i \in Elements, Owes(t, m, i) PROVE FALSE
  <2>1. args.nodelets \in Nat
    BY ArgsAre DEF CopyInv, TypeOK
  <2>2. m \in Nat /\ t.begin < m /\ m < t.end
    BY <1>1, <1>2, <2>1 DEF Owes, Nodelets
  <2> QED
    BY <1>1, <2>2
<1> QED
  BY <1>2, EndingKeeps DEF TreeLeaf

LEMMA TreeCopyKeeps ==
    ASSUME CopyInv, NEW t \in threads, TreeCopy(t) PROVE CopyInv'
<1>1. PICK i \in t.todo : /\ Copy(t.at, Middle(t), i)
                          /\ threads' = (threads \ {t}) \union {[t EXCEPT !.todo = @ \ {i}]}
  BY DEF TreeCopy
<1> DEFINE more == [t EXCEPT !.todo = @ \ {i}]
<1>2. t.role = "tree" /\ ~IsLeaf(t) /\ UNCHANGED <<args, trial, next, spawned>>
  BY DEF TreeCopy
<1>3. /\ TreeOK(t) /\ t.at \in Nodelets /\ Middle(t) \in Nodelets /\ i \in Elements
      /\ fresh[t.at] = Elements
  BY <1>2, TreeIs DEF CopyInv, CompleteSources, CompleteAt
<1>4. /\ fresh' \in [Nodelets -> SUBSET Elements]'
      /\ \A m \in Nodelets : fresh[m] \subseteq fresh'[m]
      /\ \A m \in Nodelets : fresh[m] = Elements => fresh'[m] = Elements
      /\ i \in fresh'[Middle(t)]
  BY <1>1, <1>2, <1>3, CopyAdds DEF CopyInv
<1>5. /\ more.role = "tree" /\ more.at = t.at /\ more.begin = t.begin /\ more.end = t.end
      /\ more.todo = t.todo \ {i}
  BY <1>2, <1>3 DEF TreeOK, Tree
<1>6. TreeOK(more)
  <2>1. more = [Tree(more.at, more.begin, more.end) EXCEPT !.todo = more.todo]
    BY <1>3, <1>5 DEF TreeOK, Tree
  <2> QED
    BY <1>3, <1>5, <2>1 DEF TreeOK
<1>7. threads' = (threads \ {t}) \union {more}
  BY <1>1
<1> HIDE DEF more
<1>8. TypeOK' /\ CompleteSources'
  <2>1. Elements' = Elements /\ Middle(more) = Middle(t)
    BY <1>2, <1>5 DEF Elements, Middle
  <2>2. Elements \ t.todo \subseteq fresh[Middle(t)]
    BY <1>2 DEF CopyInv, CompleteSources, CompleteAt
  <2>3. CompleteAt(more)'
    BY <1>3, <1>4, <1>5, <2>1, <2>2 DEF CompleteAt
  <2>4. GoodAre({more})
    BY <1>5, <1>6, <1>7, <2>3 DEF ThreadOK, GoodAre
  <2>5. Proceeds
    BY <1>2, <1>4 DEF CopyInv, TypeOK, Proceeds
  <2> QED
    BY <2>4, <2>5, Replaced DEF CopyInv
<1>9. ASSUME NEW m \in Nodelets, NEW j \in Elements, Owes(t, m, j)
      PROVE  j \in fresh'[m] \/ \E u \in threads' : Owes(u, m, j)
  <2>1. CASE m = Middle(t) /\ j = i
    BY <1>4, <2>1
  <2>2. CASE ~(m = Middle(t) /\ j = i)
    <3>1. Middle(more) = Middle(t)
      BY <1>5 DEF Middle
    <3>2. t.begin < m /\ m < t.end /\ (m = Middle(t) => j \in t.todo)
      BY <1>2, <1>9 DEF Owes
    <3>3. Owes(more, m, j)
      BY <1>5, <2>2, <3>1, <3>2 DEF Owes
    <3> QED
      BY <1>7, <3>3
  <2> QED
    BY <2>1, <2>2
<1>10. Covered'
  <2>1. threads \ {t} \subseteq threads'
    BY <1>7
  <2> QED
    BY <1>2, <1>4, <1>9, <2>1, Handover DEF CopyInv
<1> QED
  BY <1>8, <1>10 DEF CopyInv

LEMMA TreeSpawnKeeps ==
    ASSUME CopyInv, NEW t \in threads, TreeSpawn(t) PROVE CopyInv'
<1>1. PICK at \in {t.at, Middle(t)} :
          threads' = (threads \ {t}) \union
             {Tree(at, Middle(t), t.end), Tree(t.at, t.begin, Middle(t))}
  BY DEF TreeSpawn
<1> DEFINE upper == Tree(at, Middle(t), t.end)
           lower == Tree(t.at, t.begin, Middle(t))
<1>2. /\ t.role = "tree" /\ ~IsLeaf(t) /\ t.todo = {} /\ spawned' \in Nat
      /\ UNCHANGED <<args, trial, next, fresh>>
  BY CountSpawnIs DEF TreeSpawn, CopyInv, TypeOK
<1>3. /\ t.at \in Nodelets /\ t.begin \in Nodelets /\ Middle(t) \in Nodelets
      /\ t.begin \in Nat /\ t.end \in Nat /\ Middle(t) \in Nat
      /\ t.begin < Middle(t) /\ Middle(t) < t.end /\ t.end <= args.nodelets
      /\ fresh[t.at] = Elements /\ fresh[Middle(t)] \subseteq Elements
  BY <1>2, TreeIs DEF CopyInv, CompleteSources, CompleteAt, TypeOK
<1>4. fresh[at] = Elements /\ at \in Nodelets
  BY <1>2, <1>3 DEF CopyInv, CompleteSources, CompleteAt
<1>5. /\ upper.role = "tree" /\ upper.at = at /\ upper.begin = Middle(t)
      /\ upper.end = t.end /\ upper.todo = Elements
      /\ lower.role = "tree" /\ lower.at = t.at /\ lower.begin = t.begin
      /\ lower.end = Middle(t) /\ lower.todo = Elements
  BY DEF Tree
<1>6. TreeOK(upper) /\ TreeOK(lower)
  <2>1. \A u \in {upper, lower} : u = [Tree(u.at, u.begin, u.end) EXCEPT !.todo = u.todo]
    BY DEF Tree
  <2> HIDE DEF upper, lower
  <2>2. args.nodelets \in Nat
    BY ArgsAre DEF CopyInv, TypeOK
  <2>3. t.end \in 1..args.nodelets /\ Middle(t) \in 1..args.nodelets
    BY <1>3, <2>2
  <2> QED
    BY <1>3, <1>4, <1>5, <2>1, <2>3 DEF TreeOK
<1>7. threads' = (threads \ {t}) \union {upper, lower}
  BY <1>1
<1> HIDE DEF upper, lower
<1>8. Proceeds
  BY <1>2 DEF CopyInv, TypeOK, Nodelets, Elements, Proceeds
<1>9. TypeOK' /\ CompleteSources'
  <2>1. Elements' = Elements
    BY <1>2 DEF Elements
  <2>2. \A u \in {upper, lower} : ThreadOK(u) /\ CompleteAt(u)'
    BY <1>2, <1>3, <1>4, <1>5, <1>6, <2>1 DEF ThreadOK, CompleteAt
  <2>3. GoodAre({upper, lower})
    BY <1>7, <2>2 DEF GoodAre
  <2> QED
    BY <1>8, <2>3, Replaced DEF CopyInv
<1>10. ASSUME NEW m \in Nodelets, NEW i \in Elements, Owes(t, m, i)
      PROVE  i \in fresh'[m] \/ \E u \in threads' : Owes(u, m, i)
  <2>1. t.begin < m /\ m < t.end /\ m # Middle(t) /\ m \in Nat
    BY <1>2, <1>10, ArgsAre DEF Owes, Nodelets, CopyInv, TypeOK
  <2>2. CASE m < Middle(t)
    <3>1. Owes(lower, m, i)
      BY <1>5, <2>1, <2>2 DEF Owes
    <3> QED
      BY <1>7, <3>1
  <2>3. CASE Middle(t) < m
    <3>1. Owes(upper, m, i)
      BY <1>5, <2>1, <2>3 DEF Owes
    <3> QED
      BY <1>7, <3>1
  <2> QED
    BY <1>3, <2>1, <2>2, <2>3
<1>11. Covered'
  <2>1. threads \ {t} \subseteq threads'
    BY <1>7
  <2> QED
    BY <1>2, <1>8, <1>10, <2>1, Handover DEF CopyInv, Proceeds
<1> QED
  BY <1>9, <1>11 DEF CopyInv

-----------------------------------------------------------------------------
(* The steps of the main thread *)

LEMMA StartNodeletKeeps == CopyInv /\ StartNodelet => CopyInv'
<1> SUFFICES ASSUME CopyInv, StartNodelet PROVE CopyInv'
  OBVIOUS
<1>0. PICK child : child = IF args.mode = "emu_for" THEN Splitter(next, 0)
                                                    ELSE Copier(0, next, 0, args.n)
  OBVIOUS
<1>1. /\ threads' = threads \union {child} /\ next' = next + 1
      /\ UNCHANGED <<args, trial, fresh>> /\ next < args.nodelets
  BY <1>0 DEF StartNodelet
<1>2. /\ args.n \in Nat /\ args.nodelets \in Nat /\ next \in Nat /\ next \in 1..args.nodelets-1
      /\ spawned' \in Nat /\ next' \in Nat \ {0}
  BY <1>1, ArgsAre, CountSpawnIs DEF CopyInv, TypeOK, StartNodelet
<1>3. child.role \in {"split", "copy"} /\ ThreadOK(child)
  BY <1>0, <1>2 DEF ThreadOK, CopierOK, SplitterOK, Copier, Splitter
<1>4. \A i \in Elements : Owes(child, next, i)
  BY <1>0, <1>2 DEF Owes, Copier, Splitter, Elements
<1>5. Proceeds
  BY <1>1, <1>2 DEF CopyInv, TypeOK, Nodelets, Elements, Proceeds
<1>6. TypeOK' /\ CompleteSources'
  <2>1. GoodAre({child})
    BY <1>1, <1>3 DEF GoodAre, CompleteAt
  <2> QED
    BY <1>5, <2>1, Replaced DEF CopyInv
<1>7. Covered'
  <2>1. SUFFICES ASSUME NEW m \in Nodelets, NEW i \in Elements
                 PROVE  i \in fresh[m] \/ next + 1 <= m \/ \E t \in threads' : Owes(t, m, i)
    BY <1>1 DEF Covered, Nodelets, Elements
  <2>2. m \in Nat
    BY <1>2 DEF Nodelets
  <2>3. CASE m = next
    BY <1>1, <1>4, <2>3
  <2>4. CASE m # next
    <3>1. i \in fresh[m] \/ next <= m \/ \E t \in threads : Owes(t, m, i)
      BY DEF CopyInv, Covered
    <3> QED
      BY <1>1, <1>2, <2>2, <2>4, <3>1
  <2> QED
    BY <2>3, <2>4
<1> QED
  BY <1>6, <1>7 DEF CopyInv

LEMMA StartTreeKeeps == CopyInv /\ StartTree => CopyInv'
<1> SUFFICES ASSUME CopyInv, StartTree PROVE CopyInv'
  OBVIOUS
<1>0. PICK root : root = Tree(0, 0, args.nodelets)
  OBVIOUS
<1>1. /\ threads' = {root} /\ next' = args.nodelets /\ next < args.nodelets
      /\ UNCHANGED <<args, trial, fresh, spawned>>
  BY <1>0 DEF StartTree
<1>2. /\ args.nodelets \in Nat /\ next \in Nat /\ next # 0 /\ args.nodelets > 1
      /\ 0 \in Nodelets /\ spawned \in Nat
  BY <1>1, ArgsAre DEF CopyInv, TypeOK, Nodelets
<1>3. /\ root.role = "tree" /\ root.at = 0 /\ root.begin = 0 /\ root.end = args.nodelets
      /\ root.todo = Elements
  BY <1>0 DEF Tree
<1>4. TreeOK(root)
  <2>1. root = [Tree(root.at, root.begin, root.end) EXCEPT !.todo = root.todo]
    BY <1>0 DEF Tree
  <2> QED
    BY <1>2, <1>3, <2>1 DEF TreeOK
<1>5. Proceeds
  BY <1>1, <1>2 DEF CopyInv, TypeOK, Nodelets, Elements, Proceeds
<1>6. TypeOK' /\ CompleteSources'
  <2>1. Elements' = Elements
    BY <1>1 DEF Elements
  <2>2. CompleteAt(root)'
    BY <1>1, <1>3, <2>1 DEF CompleteAt, CopyInv, CompleteSources
  <2>3. GoodAre({root})
    BY <1>1, <1>3, <1>4, <2>2 DEF GoodAre, ThreadOK
  <2> QED
    BY <1>5, <2>3, Replaced DEF CopyInv
<1>7. Covered'
  <2>1. SUFFICES ASSUME NEW m \in Nodelets, NEW i \in Elements
                 PROVE  i \in fresh[m] \/ Owes(root, m, i)
    BY <1>1 DEF Covered, Nodelets, Elements
  <2>2. m \in Nat /\ m < args.nodelets
    BY <1>2 DEF Nodelets
  <2>3. CASE m = 0
    BY <2>3 DEF CopyInv, CompleteSources
  <2>4. CASE m # 0
    BY <1>2, <1>3, <2>2, <2>4 DEF Owes
  <2> QED
    BY <2>3, <2>4
<1> QED
  BY <1>6, <1>7 DEF CopyInv

\* What a trial starts with.
LEMMA StartIsGood ==
    ASSUME args \in Arguments
    PROVE  /\ FreshAtStart \in [Nodelets -> SUBSET Elements]
           /\ FreshAtStart[0] = Elements
           /\ \A m \in Nodelets : m = 0 \/ 1 <= m
<1>1. args.nodelets \in Nat \ {0}
  BY ArgsAre
<1> QED
  BY <1>1 DEF FreshAtStart, Nodelets

LEMMA CopyInvInit == Init => CopyInv
<1> SUFFICES ASSUME Init PROVE CopyInv
  OBVIOUS
<1>1. TypeOK /\ CompleteSources
  BY StartIsGood DEF Init, TypeOK, CompleteSources
<1>2. Covered
  <2>1. /\ FreshAtStart[0] = Elements /\ \A m \in Nodelets : m = 0 \/ 1 <= m
        /\ fresh = FreshAtStart /\ next = 1
    BY StartIsGood DEF Init
  <2> HIDE DEF Init
  <2> QED
    BY <2>1 DEF Covered
<1> QED
  BY <1>1, <1>2 DEF CopyInv

LEMMA EndTrialKeeps == CopyInv /\ EndTrial => CopyInv'
<1> SUFFICES ASSUME CopyInv, EndTrial PROVE CopyInv'
  OBVIOUS
<1>1. /\ threads' = {} /\ next' = 1 /\ fresh' = FreshAtStart /\ spawned' = 0
      /\ trial' \in Nat /\ args' = args /\ args' \in Arguments
  BY DEF CopyInv, TypeOK, EndTrial
<1>2. Nodelets' = Nodelets /\ Elements' = Elements
  BY <1>1 DEF Nodelets, Elements
<1>3. /\ FreshAtStart \in [Nodelets -> SUBSET Elements]
      /\ FreshAtStart[0] = Elements
      /\ \A m \in Nodelets : m = 0 \/ 1 <= m
  BY StartIsGood DEF CopyInv, TypeOK
<1>4. TypeOK'
  BY <1>1, <1>2, <1>3 DEF TypeOK
<1>5. CompleteSources'
  BY <1>1, <1>2, <1>3 DEF CompleteSources
<1>6. Covered'
  BY <1>1, <1>2, <1>3 DEF Covered
<1> QED
  BY <1>4, <1>5, <1>6 DEF CopyInv

LEMMA CopyInvStep == CopyInv /\ [Next]_vars => CopyInv'
<1> SUFFICES ASSUME CopyInv, [Next]_vars PROVE CopyInv'
  OBVIOUS
<1>1. CASE MainStep
  BY <1>1, StartNodeletKeeps, StartTreeKeeps, EndTrialKeeps DEF MainStep
<1>2. ASSUME NEW t \in threads, ThreadStep(t) PROVE CopyInv'
  BY <1>2, CopyElementKeeps, SpawnChunkKeeps, EndSplitKeeps, TreeLeafKeeps, TreeCopyKeeps,
     TreeSpawnKeeps DEF ThreadStep
<1>3. CASE UNCHANGED vars
  BY <1>3 DEF vars, CopyInv, TypeOK, CompleteSources, Covered, ThreadOK, CopierOK, SplitterOK,
     TreeOK, CompleteAt, Nodelets, Elements, Tree
<1> QED
  BY <1>1, <1>2, <1>3 DEF Next

\* The inductive invariant of scatter.c's copies.
THEOREM ScatterCopies == Spec => []CopyInv
BY CopyInvInit, CopyInvStep, PTL DEF Spec

\* No thread reads an element that its nodelet has not been given in this trial: in
\* the tree a nodelet passes on only what it has received completely, wherever the
\* children run.
THEOREM ScatterSourceComplete == Spec => []SourceComplete
<1>1. CopyInv => SourceComplete
  <2> SUFFICES ASSUME CopyInv, NEW t \in threads
               PROVE  /\ t.role = "copy" => t.low..t.high-1 \subseteq fresh[t.src]
                      /\ t.role = "tree" /\ ~IsLeaf(t) => fresh[t.at] = Elements
    BY DEF SourceComplete
  <2>1. CASE t.role = "copy"
    <3>1. t.src = 0 /\ t.low \in Nat /\ t.high \in 0..args.n /\ args.n \in Nat
      <4>1. CopierOK(t) /\ args \in Arguments
        BY <2>1 DEF CopyInv, TypeOK, ThreadOK
      <4>2. Copier(0, t.dst, t.low, t.high).src = 0
        BY DEF Copier
      <4> QED
        BY <4>1, <4>2, ArgsAre DEF CopierOK
    <3>2. t.low..t.high-1 \subseteq Elements
      BY <3>1 DEF Elements
    <3> QED
      BY <2>1, <3>1, <3>2 DEF CopyInv, CompleteSources
  <2>2. CASE t.role # "copy"
    BY <2>2 DEF CopyInv, CompleteSources, CompleteAt
  <2> QED
    BY <2>1, <2>2
<1> QED
  BY <1>1, ScatterCopies, PTL

\* A trial with any mode, any number of nodelets and any number of threads ends only
\* when every nodelet holds the whole buffer of nodelet 0.
THEOREM ScatterTrialComplete == Spec => TrialComplete
<1>1. ASSUME CopyInv, [Next]_vars, trial' # trial, NEW m \in Nodelets
      PROVE  fresh[m] = Elements
  <2>1. EndTrial
    BY <1>1 DEF Next, MainStep, StartNodelet, StartTree, ThreadStep, CopyElement, SpawnChunk,
       EndSplit, TreeLeaf, TreeCopy, TreeSpawn, vars
  <2>2. next >= args.nodelets /\ threads = {}
    BY <2>1 DEF EndTrial
  <2>3. ~(next <= m)
    BY <1>1, <2>2, ArgsAre DEF Nodelets, CopyInv, TypeOK
  <2>4. \A i \in Elements : i \in fresh[m]
    BY <1>1, <2>2, <2>3 DEF CopyInv, Covered
  <2>5. fresh[m] \subseteq Elements
    BY <1>1 DEF CopyInv, TypeOK
  <2> QED
    BY <2>4, <2>5
<1>2. CopyInv /\ [Next]_vars
         => [trial' # trial => \A m \in Nodelets : fresh[m] = Elements]_vars
  BY <1>1
<1> QED
  BY <1>2, ScatterCopies, PTL DEF Spec, TrialComplete

-----------------------------------------------------------------------------
(* How many threads a trial spawns *)

\* The threads that may be spawned for each nodelet but the first.
ShareOf(mode) ==
    IF mode # "emu_for" THEN 1
    ELSE LET share == IF args.n % args.num_threads = 0 THEN 1 ELSE 2
         IN  Ceiling(share * args.num_threads, args.nodelets)

Share == ShareOf(args.mode)

\* A place for each of them.
Places == (1..args.nodelets-1) \X (0..Share-1)

\* Thread t, or one that it spawns, may still use place k of nodelet m.
Claims(t, m, k) ==
    \/ t.role = "split" /\ t.dst = m /\ t.low <= k * PerNodeletGrain
    \/ t.role = "tree" /\ t.begin < m /\ m < t.end

Unused == {s \in Places : next <= s[1] \/ \E t \in threads : Claims(t, s[1], s[2])}

\* Each thread that has been spawned has used up a place, unless they are spawned
\* for ever.
Budgeted == Hangs \/ spawned + Cardinality(Unused) <= Cardinality(Places)

\* Two threads never claim the same place.
Apart ==
    /\ \A t \in threads :
          /\ t.role = "split" => /\ args.mode = "emu_for"
                                 /\ t.dst < next
                                 /\ \E k \in 0..t.low : t.low = k * PerNodeletGrain
          /\ t.role = "tree" => args.mode = "tree" /\ next >= args.nodelets
    /\ \A t, u \in threads :
          /\ t.role = "split" /\ u.role = "split" /\ t.dst = u.dst => t = u
          /\ t.role = "tree" /\ u.role = "tree"
                => t = u \/ t.end <= u.begin \/ u.end <= t.begin
    /\ args.mode = "tree" => next = 1 \/ next >= args.nodelets

SpawnInv == Apart /\ Budgeted

\* Division with its remainder.
LEMMA Divides ==
    ASSUME NEW x \in Nat, NEW b \in Nat \ {0}
    PROVE  /\ x \div b \in Nat /\ x % b \in Nat
           /\ x % b < b
           /\ x = (b * (x \div b)) + (x % b)
OBVIOUS

LEMMA ShareIs == ASSUME TypeOK PROVE Share \in Nat \ {0}
<1>1. args.num_threads \in Nat \ {0} /\ args.nodelets \in Nat \ {0} /\ args.n \in Nat
  BY ArgsAre DEF TypeOK
<1>2. \A a, b \in Nat \ {0} : Ceiling(a, b) \in Nat \ {0}
  <2> SUFFICES ASSUME NEW a \in Nat \ {0}, NEW b \in Nat \ {0}
               PROVE  Ceiling(a, b) \in Nat \ {0}
    OBVIOUS
  <2>1. PICK x \in Nat : x = a + b - 1
    OBVIOUS
  <2>2. x >= b
    BY <2>1
  <2>3. /\ x \div b \in Nat /\ x % b \in Nat /\ x % b < b
        /\ x = (b * (x \div b)) + (x % b)
    BY Divides
  <2>4. x \div b # 0
    BY <2>2, <2>3
  <2> QED
    BY <2>1, <2>3, <2>4 DEF Ceiling
<1>3. PICK share \in {1, 2} : share = IF args.n % args.num_threads = 0 THEN 1 ELSE 2
  OBVIOUS
<1>4. share * args.num_threads \in Nat \ {0}
  BY <1>1
<1>5. Ceiling(share * args.num_threads, args.nodelets) \in Nat \ {0}
  BY <1>1, <1>2, <1>4
<1> QED
  BY <1>3, <1>5 DEF Share, ShareOf

\* There is a finite number of places, which is the bound of ThreadBudget.
LEMMA PlacesAre ==
    ASSUME TypeOK
    PROVE  /\ IsFiniteSet(Places)
           /\ Cardinality(Places) = (args.nodelets - 1) * Share
<1>1. args.nodelets - 1 \in Nat /\ Share \in Nat
  BY ArgsAre, ShareIs DEF TypeOK
<1>2. /\ IsFiniteSet(1..args.nodelets-1)
      /\ Cardinality(1..args.nodelets-1) = args.nodelets - 1
  BY <1>1, FS_Interval
<1>3. IsFiniteSet(0..Share-1) /\ Cardinality(0..Share-1) = Share
  <2>1. PICK top \in Int : top = Share - 1 /\ ~(0 > top) /\ top - 0 + 1 = Share
    BY ShareIs
  <2>2. IsFiniteSet(0..top) /\ Cardinality(0..top) = Share
    BY <2>1, FS_Interval
  <2> QED
    BY <2>1, <2>2
<1> QED
  BY <1>2, <1>3, FS_Product DEF Places

\* A step that spawns nothing.
LEMMA NoneSpawned ==
    ASSUME TypeOK, Budgeted, args' = args, spawned' = spawned, Unused' \subseteq Unused
    PROVE  Budgeted'
<1>1. Places' = Places
  BY DEF Places, Share, ShareOf
<1>2. IsFiniteSet(Places) /\ Unused \subseteq Places
  BY PlacesAre DEF Unused
<1>3. /\ Cardinality(Unused') <= Cardinality(Unused)
      /\ Cardinality(Unused) \in Nat /\ Cardinality(Unused') \in Nat
      /\ Cardinality(Places) \in Nat
  BY <1>2, FS_Subset, FS_CardinalityType
<1> QED
  BY <1>1, <1>3 DEF Budgeted, TypeOK, Hangs

\* A step that spawns one thread, for a place that was unused and is used from now on.
LEMMA OneSpawned ==
    ASSUME TypeOK, Budgeted, args' = args, spawned' \in Nat, spawned' <= spawned + 1,
           NEW s \in Unused, Unused' \subseteq Unused \ {s}
    PROVE  Budgeted'
<1>1. Places' = Places
  BY DEF Places, Share, ShareOf
<1>2. IsFiniteSet(Places) /\ Unused \subseteq Places
  BY PlacesAre DEF Unused
<1>3. IsFiniteSet(Unused)
  BY <1>2, FS_Subset
<1>4. /\ IsFiniteSet(Unused \ {s})
      /\ Cardinality(Unused \ {s}) = Cardinality(Unused) - 1
  BY <1>3, FS_RemoveElement
<1>5. Cardinality(Unused') <= Cardinality(Unused \ {s}) /\ IsFiniteSet(Unused')
  BY <1>4, FS_Subset
<1>6. /\ Cardinality(Unused) \in Nat /\ Cardinality(Unused') \in Nat
      /\ Cardinality(Places) \in Nat
  BY <1>2, <1>3, <1>5, FS_CardinalityType
<1> QED
  BY <1>1, <1>4, <1>5, <1>6 DEF Budgeted, TypeOK, Hangs

\* A chunk that is not empty has a place.
LEMMA ChunkHasPlace ==
    ASSUME TypeOK, args.mode = "emu_for", PerNodeletGrain # 0,
           NEW k \in Nat, k * PerNodeletGrain < args.n
    PROVE  k < Share
<1>1. PICK n \in Nat \ {0}, p \in Nat \ {0}, N \in Nat \ {0} :
          n = args.n /\ p = args.num_threads /\ N = args.nodelets
  BY ArgsAre DEF TypeOK
<1>2. PICK q \in Nat, r \in Nat : /\ q = n \div p /\ r = n % p
                                 /\ n = (p * q) + r /\ r < p
  BY Divides
<1>3. PerNodeletGrain = q * N /\ q # 0 /\ q >= 1
  <2>1. PerNodeletGrain = q * N
    BY <1>1, <1>2 DEF PerNodeletGrain
  <2>2. 0 * N = 0
    OBVIOUS
  <2> QED
    BY <2>1, <2>2
<1>4. PICK share \in {1, 2} : /\ share = IF n % p = 0 THEN 1 ELSE 2
                             /\ Share = Ceiling(share * p, N)
  BY <1>1 DEF Share, ShareOf
<1>5. PICK x \in Nat : x = share * p
  BY <1>4
<1>6. Share \in Nat /\ Share * N >= x
  <2>1. PICK y \in Nat : y = x + N - 1
    BY <1>5
  <2>2. /\ y \div N \in Nat /\ y % N \in Nat /\ y % N < N
        /\ y = (N * (y \div N)) + (y % N)
    BY Divides
  <2>3. N * (y \div N) >= x
    BY <2>1, <2>2
  <2> QED
    BY <1>4, <1>5, <2>1, <2>2, <2>3 DEF Ceiling
<1>7. x * q >= n
  <2>1. p * q \in Nat /\ p * q >= p
    BY <1>3
  <2>2. CASE share = 1
    BY <1>2, <1>4, <1>5, <2>2
  <2>3. CASE share = 2
    BY <1>2, <1>5, <2>1, <2>3
  <2> QED
    BY <2>2, <2>3
<1>8. (Share * N) * q >= x * q
  BY <1>3, <1>6
<1>9. PICK g \in Nat : g = q * N
  BY <1>3
<1>10. (Share * N) * q = Share * g
  BY <1>6, <1>9
<1>11. k * g < Share * g
  <2>1. k * g < n
    BY <1>1, <1>3, <1>9
  <2>2. x * q \in Nat /\ k * g \in Nat /\ Share * g \in Nat
    BY <1>5, <1>6, <1>9
  <2> QED
    BY <1>7, <1>8, <1>10, <2>1, <2>2
<1> QED
  <2>1. k >= Share => k * g >= Share * g
    BY <1>6, <1>9
  <2> QED
    BY <1>6, <1>11, <2>1

\* A splitter has a nodelet and a position.
LEMMA SplitIs ==
    ASSUME TypeOK, NEW t \in threads, t.role = "split"
    PROVE  SplitterOK(t) /\ t.dst \in Nat /\ t.low \in Nat /\ 1 <= t.dst /\ t.dst < args.nodelets
BY ArgsAre DEF TypeOK, ThreadOK, SplitterOK

\* No place is claimed anew.
LEMMA UnusedShrinks ==
    ASSUME TypeOK, args' = args, next' \in Nat, next <= next',
           \A u \in threads', m \in 1..args.nodelets-1, k \in 0..Share-1 :
               Claims(u, m, k) => next <= m \/ \E t \in threads : Claims(t, m, k)
    PROVE  Unused' \subseteq Unused
<1>1. PerNodeletGrain' = PerNodeletGrain /\ Share' = Share
  BY DEF PerNodeletGrain, Share, ShareOf
<1>2. SUFFICES ASSUME NEW m \in 1..args.nodelets-1, NEW k \in 0..Share-1,
                      next' <= m \/ \E u \in threads' : Claims(u, m, k)'
               PROVE  next <= m \/ \E t \in threads : Claims(t, m, k)
  BY <1>1 DEF Unused, Places
<1>3. \A u : Claims(u, m, k)' <=> Claims(u, m, k)
  BY <1>1 DEF Claims
<1>4. m \in Nat /\ next \in Nat
  BY ArgsAre DEF TypeOK
<1> QED
  BY <1>2, <1>3, <1>4

\* u takes over something of t.
Succeeds(u, t) ==
    \/ u.role = "copy"
    \/ /\ u.role = "split" /\ t.role = "split"
       /\ u.dst = t.dst /\ t.low <= u.low
       /\ \E k \in 0..u.low : u.low = k * PerNodeletGrain
    \/ /\ u.role = "tree" /\ t.role = "tree"
       /\ t.begin <= u.begin /\ u.end <= t.end

SeparateFrom(u, v) ==
    /\ u.role = "split" /\ v.role = "split" => u = v
    /\ u.role = "tree" /\ v.role = "tree" => u = v \/ u.end <= v.begin \/ v.end <= u.begin

Succession(t, new) ==
    /\ threads' = (threads \ {t}) \union new
    /\ \A u \in new : Succeeds(u, t)
    /\ \A u, v \in new : SeparateFrom(u, v)

LEMMA SuccessorsClaimNothingNew ==
    ASSUME CopyInv, CopyInv', UNCHANGED <<args, next>>,
           NEW t \in threads, NEW new, Succession(t, new)
    PROVE  Unused' \subseteq Unused
<1>1. SUFFICES ASSUME NEW u \in new, NEW m \in 1..args.nodelets-1, NEW k \in 0..Share-1,
                      Claims(u, m, k)
               PROVE  Claims(t, m, k)
  BY UnusedShrinks DEF Succession, CopyInv, TypeOK
<1>2. u \in threads' /\ Succeeds(u, t) /\ TypeOK /\ TypeOK'
  BY DEF Succession, CopyInv
<1>3. PerNodeletGrain \in Nat /\ m \in Nat /\ k \in Nat
  BY <1>2, GrainIs, ShareIs, ArgsAre DEF TypeOK
<1>4. CASE u.role = "split"
  <2>1. u.low \in Nat
    BY <1>2, <1>4 DEF TypeOK, ThreadOK, SplitterOK
  <2>2. t.role = "split" /\ u.dst = t.dst /\ t.low <= u.low
    BY <1>2, <1>4 DEF Succeeds
  <2>3. t.low \in Nat
    BY <1>2, <2>2, SplitIs
  <2>4. k * PerNodeletGrain \in Nat
    BY <1>3
  <2> QED
    BY <1>1, <1>4, <2>1, <2>2, <2>3, <2>4 DEF Claims
<1>5. CASE u.role = "tree"
  <2>1. u.begin \in Nat /\ u.end \in Nat
    BY <1>2, <1>5, ArgsAre DEF TypeOK, ThreadOK, TreeOK, Nodelets
  <2>2. t.role = "tree" /\ t.begin <= u.begin /\ u.end <= t.end
    BY <1>2, <1>5 DEF Succeeds
  <2>3. t.begin \in Nat /\ t.end \in Nat
    BY <1>2, <2>2, TreeIs
  <2> QED
    BY <1>1, <1>3, <1>5, <2>1, <2>2, <2>3 DEF Claims
<1> QED
  BY <1>1, <1>4, <1>5 DEF Claims

LEMMA SuccessorsApart ==
    ASSUME CopyInv, CopyInv', Apart, UNCHANGED <<args, next>>,
           NEW t \in threads, NEW new, Succession(t, new)
    PROVE  Apart'
<1>1. PerNodeletGrain' = PerNodeletGrain
  BY DEF PerNodeletGrain
<1>2. ASSUME NEW u \in threads'
      PROVE  /\ u.role = "split" => /\ args'.mode = "emu_for"
                                    /\ u.dst < next'
                                    /\ \E k \in 0..u.low : u.low = k * PerNodeletGrain'
             /\ u.role = "tree" => args'.mode = "tree" /\ next' >= args'.nodelets
  BY <1>1 DEF Apart, Succession, Succeeds
<1>3. ASSUME NEW u \in threads \ {t}, NEW v \in new
      PROVE  /\ u.role = "split" /\ v.role = "split" => u.dst # v.dst
             /\ u.role = "tree" /\ v.role = "tree" => u.end <= v.begin \/ v.end <= u.begin
  <2>1. TypeOK /\ TypeOK' /\ Succeeds(v, t) /\ v \in threads'
    BY DEF Succession, CopyInv
  <2>2. ASSUME u.role = "split", v.role = "split" PROVE u.dst # v.dst
    BY <2>1, <2>2 DEF Apart, Succeeds
  <2>3. ASSUME u.role = "tree", v.role = "tree"
        PROVE  u.end <= v.begin \/ v.end <= u.begin
    <3>1. v.begin \in Nat /\ v.end \in Nat
      BY <2>1, <2>3, ArgsAre DEF TypeOK, ThreadOK, TreeOK, Nodelets
    <3>2. t.role = "tree" /\ t.begin <= v.begin /\ v.end <= t.end
      BY <2>1, <2>3 DEF Succeeds
    <3>3. t.begin \in Nat /\ t.end \in Nat /\ u.begin \in Nat /\ u.end \in Nat
      BY <2>1, <2>3, <3>2, TreeIs
    <3>4. u.end <= t.begin \/ t.end <= u.begin
      BY <2>3, <3>2 DEF Apart
    <3> QED
      BY <3>1, <3>2, <3>3, <3>4
  <2> QED
    BY <2>2, <2>3
<1>4. ASSUME NEW u \in threads', NEW v \in threads'
      PROVE  /\ u.role = "split" /\ v.role = "split" /\ u.dst = v.dst => u = v
             /\ u.role = "tree" /\ v.role = "tree"
                   => u = v \/ u.end <= v.begin \/ v.end <= u.begin
  <2>1. CASE u \in threads \ {t} /\ v \in threads \ {t}
    BY <2>1 DEF Apart
  <2>2. CASE u \in new /\ v \in new
    BY <2>2 DEF Succession, SeparateFrom
  <2>3. CASE u \in threads \ {t} /\ v \in new
    BY <1>3, <2>3
  <2>4. CASE u \in new /\ v \in threads \ {t}
    BY <1>3, <2>4
  <2> QED
    BY <2>1, <2>2, <2>3, <2>4 DEF Succession
<1>5. (args.mode = "tree" => next = 1 \/ next >= args.nodelets)'
  BY DEF Apart
<1> QED
  BY <1>2, <1>4, <1>5 DEF Apart

\* The steps of threads that spawn nothing.
LEMMA QuietKeeps ==
    ASSUME CopyInv, CopyInv', SpawnInv, UNCHANGED <<args, next, spawned>>,
           NEW t \in threads, NEW new, Succession(t, new)
    PROVE  SpawnInv'
<1>1. Apart' /\ Unused' \subseteq Unused
  BY SuccessorsApart, SuccessorsClaimNothingNew DEF SpawnInv
<1>2. TypeOK /\ Budgeted
  BY DEF CopyInv, SpawnInv
<1> QED
  BY <1>1, <1>2, NoneSpawned DEF SpawnInv

LEMMA CopyingSpawnsNone ==
    ASSUME CopyInv, CopyInv', SpawnInv, NEW t \in threads,
           CopyElement(t) \/ EndSplit(t) \/ TreeLeaf(t) \/ TreeCopy(t)
    PROVE  SpawnInv'
<1>1. CASE CopyElement(t)
  <2>1. t = Copier(0, t.dst, t.low, t.high)
    BY <1>1 DEF CopyInv, TypeOK, ThreadOK, CopierOK, CopyElement
  <2>2. PICK new : new = IF t.low + 1 < t.high THEN {[t EXCEPT !.low = @ + 1]} ELSE {}
    OBVIOUS
  <2>3. \A u \in new : u.role = "copy"
    BY <2>1, <2>2 DEF Copier
  <2>4. Succession(t, new)
    BY <1>1, <2>2, <2>3 DEF CopyElement, Succession, Succeeds, SeparateFrom
  <2> QED
    BY <1>1, <2>4, QuietKeeps DEF CopyElement
<1>2. CASE EndSplit(t) \/ TreeLeaf(t)
  <2>1. Succession(t, {})
    BY <1>2 DEF EndSplit, TreeLeaf, Succession
  <2> QED
    BY <1>2, <2>1, QuietKeeps DEF EndSplit, TreeLeaf
<1>3. CASE TreeCopy(t)
  <2>1. PICK i \in t.todo : threads' = (threads \ {t}) \union {[t EXCEPT !.todo = @ \ {i}]}
    BY <1>3 DEF TreeCopy
  <2>2. PICK more : more = [t EXCEPT !.todo = @ \ {i}]
    OBVIOUS
  <2>3. t.role = "tree" /\ TreeOK(t) /\ t.begin \in Nat /\ t.end \in Nat
    BY <1>3, TreeIs DEF TreeCopy, CopyInv
  <2>4. more.role = "tree" /\ more.begin = t.begin /\ more.end = t.end
    BY <2>2, <2>3 DEF TreeOK, Tree
  <2>5. Succession(t, {more})
    BY <2>1, <2>2, <2>3, <2>4 DEF Succession, Succeeds, SeparateFrom
  <2> QED
    BY <1>3, <2>5, QuietKeeps DEF TreeCopy
<1> QED
  BY <1>1, <1>2, <1>3

LEMMA SpawnChunkSpawns ==
    ASSUME CopyInv, CopyInv', SpawnInv, NEW t \in threads, SpawnChunk(t)
    PROVE  SpawnInv'
<1>0. PICK rest, chunk : /\ rest = Splitter(t.dst, Bound(t))
                         /\ chunk = Copier(0, t.dst, t.low, Last(t))
  OBVIOUS
<1>1. TypeOK /\ TypeOK' /\ Apart /\ Budgeted
  BY DEF CopyInv, SpawnInv
<1>2. /\ t.role = "split" /\ t.low \in Nat /\ t.low < args.n /\ SplitterOK(t)
      /\ Bound(t) \in Nat
      /\ threads' = (threads \ {t}) \union {rest}
                        \union (IF t.low < Last(t) THEN {chunk} ELSE {})
      /\ spawned' \in Nat /\ spawned' <= spawned + 1
      /\ UNCHANGED <<args, trial, next, fresh>>
  BY <1>0, <1>1, SpawnChunkIs
<1>3. PICK new : new = {rest} \union (IF t.low < Last(t) THEN {chunk} ELSE {})
  OBVIOUS
<1>4. /\ rest.role = "split" /\ rest.dst = t.dst /\ rest.low = Bound(t)
      /\ chunk.role = "copy"
  BY <1>0 DEF Splitter, Copier
<1>5. PICK g \in Nat : g = PerNodeletGrain
  BY <1>1, GrainIs
<1>6. PICK k \in Nat : t.low = k * g
  BY <1>1, <1>2, <1>5 DEF Apart
<1>7. Bound(t) = (k + 1) * g /\ t.low <= Bound(t)
  BY <1>2, <1>5, <1>6 DEF Bound
<1>8. \E j \in 0..rest.low : rest.low = j * PerNodeletGrain
  <2>1. CASE g = 0
    BY <1>4, <1>5, <1>7, <2>1
  <2>2. CASE g # 0
    <3>1. (k + 1) * g >= k + 1
      BY <1>5, <1>6, <2>2
    <3>2. PICK j \in Nat : j = k + 1
      BY <1>6
    <3>3. rest.low = j * PerNodeletGrain /\ j \in 0..rest.low
      BY <1>2, <1>4, <1>5, <1>7, <3>1, <3>2
    <3> QED
      BY <3>3
  <2> QED
    BY <2>1, <2>2
<1>9. Succession(t, new)
  <2>1. Succeeds(rest, t)
    BY <1>2, <1>4, <1>7, <1>8 DEF Succeeds
  <2>2. \A u \in new : Succeeds(u, t)
    BY <1>3, <1>4, <2>1 DEF Succeeds
  <2>3. \A u, v \in new : SeparateFrom(u, v)
    BY <1>3, <1>4 DEF SeparateFrom
  <2>4. threads' = (threads \ {t}) \union new
    BY <1>2, <1>3
  <2> QED
    BY <2>2, <2>3, <2>4 DEF Succession
<1>10. CASE PerNodeletGrain = 0
  <2>1. args.mode = "emu_for" /\ args.nodelets > 1
    BY <1>1, <1>2, SplitIs, ArgsAre DEF Apart, TypeOK
  <2>2. args.num_threads > args.n
    <3>1. PICK n \in Nat \ {0}, p \in Nat \ {0}, N \in Nat \ {0} :
              n = args.n /\ p = args.num_threads /\ N = args.nodelets
      BY <1>1, ArgsAre DEF TypeOK
    <3>2. PICK q \in Nat, r \in Nat : q = n \div p /\ n = (p * q) + r /\ r < p
      BY Divides
    <3>3. q * N = 0
      BY <1>10, <3>1, <3>2 DEF PerNodeletGrain
    <3>4. q = 0
      BY <3>1, <3>3
    <3>5. p * q = 0
      BY <3>4
    <3> QED
      BY <3>1, <3>2, <3>5
  <2>3. Budgeted'
    BY <1>2, <2>1, <2>2 DEF Budgeted, Hangs
  <2>4. Apart'
    BY <1>1, <1>2, <1>9, SuccessorsApart
  <2> QED
    BY <2>3, <2>4 DEF SpawnInv
<1>11. CASE PerNodeletGrain # 0
  <2>1. Apart' /\ Unused' \subseteq Unused
    BY <1>1, <1>2, <1>9, SuccessorsApart, SuccessorsClaimNothingNew
  <2>2. args.mode = "emu_for" /\ t.dst < next
    BY <1>1, <1>2 DEF Apart
  <2>3. k < Share /\ Share \in Nat
    BY <1>1, <1>2, <1>5, <1>6, <1>11, <2>2, ChunkHasPlace, ShareIs
  <2>4. t.dst \in 1..args.nodelets-1 /\ k \in 0..Share-1
    BY <1>2, <1>6, <2>3 DEF SplitterOK
  <2>5. PICK s : s = <<t.dst, k>>
    OBVIOUS
  <2>6. s \in Places /\ s[1] = t.dst /\ s[2] = k
    BY <2>4, <2>5 DEF Places
  <2>7. s \in Unused
    <3>1. Claims(t, s[1], s[2])
      BY <1>2, <1>5, <1>6, <2>6 DEF Claims
    <3> QED
      BY <2>6, <3>1 DEF Unused
  <2>8. s \notin Unused'
    <3>1. PerNodeletGrain' = PerNodeletGrain /\ rest \in threads'
      BY <1>2 DEF PerNodeletGrain
    <3>2. ASSUME NEW u \in threads', Claims(u, s[1], s[2])' PROVE FALSE
      <4>1. u.role = "split" /\ u.dst = t.dst /\ u.low <= k * g
        BY <1>2, <1>5, <2>1, <2>2, <2>6, <3>1, <3>2 DEF Claims, Apart
      <4>2. u = rest
        BY <1>4, <2>1, <3>1, <4>1 DEF Apart
      <4>3. (k + 1) * g = k * g + g
        BY <1>5, <1>6
      <4> QED
        BY <1>4, <1>5, <1>6, <1>7, <1>11, <4>1, <4>2, <4>3
    <3>3. ~(next' <= s[1])
      BY <1>1, <1>2, <2>2, <2>4, <2>6, ArgsAre DEF TypeOK
    <3> QED
      BY <3>2, <3>3 DEF Unused
  <2>9. Budgeted'
    BY <1>1, <1>2, <1>11, <2>1, <2>7, <2>8, OneSpawned
  <2> QED
    BY <2>1, <2>9 DEF SpawnInv
<1> QED
  BY <1>10, <1>11

LEMMA TreeSpawnSpawns ==
    ASSUME CopyInv, CopyInv', SpawnInv, NEW t \in threads, TreeSpawn(t)
    PROVE  SpawnInv'
<1>1. PICK at \in {t.at, Middle(t)} :
          threads' = (threads \ {t}) \union
             {Tree(at, Middle(t), t.end), Tree(t.at, t.begin, Middle(t))}
  BY DEF TreeSpawn
<1>2. PICK upper, lower : /\ upper = Tree(at, Middle(t), t.end)
                          /\ lower = Tree(t.at, t.begin, Middle(t))
  OBVIOUS
<1>3. TypeOK /\ TypeOK' /\ Apart /\ Budgeted
  BY DEF CopyInv, SpawnInv
<1>4. /\ t.role = "tree" /\ ~IsLeaf(t)
      /\ spawned' \in Nat /\ spawned' <= spawned + 1
      /\ UNCHANGED <<args, trial, next, fresh>>
  BY <1>3, CountSpawnIs DEF TreeSpawn, TypeOK
<1>5. PICK m \in Nat : m = Middle(t)
  BY <1>3, <1>4, TreeIs
<1>6. /\ t.begin \in Nat /\ t.end \in Nat /\ t.begin < m /\ m < t.end
      /\ m \in 1..args.nodelets-1
  <2>1. args.nodelets \in Nat
    BY <1>3, ArgsAre DEF TypeOK
  <2> QED
    BY <1>3, <1>4, <1>5, <2>1, TreeIs DEF Nodelets
<1>7. /\ upper.role = "tree" /\ upper.begin = m /\ upper.end = t.end
      /\ lower.role = "tree" /\ lower.begin = t.begin /\ lower.end = m
  BY <1>2, <1>5 DEF Tree
<1>8. Succession(t, {upper, lower})
  <2>1. Succeeds(upper, t) /\ Succeeds(lower, t)
    BY <1>4, <1>5, <1>6, <1>7 DEF Succeeds
  <2>2. \A u, v \in {upper, lower} : SeparateFrom(u, v)
    BY <1>5, <1>6, <1>7 DEF SeparateFrom
  <2> QED
    BY <1>1, <1>2, <2>1, <2>2 DEF Succession
<1>9. Apart' /\ Unused' \subseteq Unused
  BY <1>3, <1>4, <1>8, SuccessorsApart, SuccessorsClaimNothingNew
<1>10. args.mode = "tree" /\ next >= args.nodelets
  BY <1>3, <1>4 DEF Apart
<1>11. PICK s : s = <<m, 0>>
  OBVIOUS
<1>12. s \in Places /\ s[1] = m /\ s[2] = 0
  <2>1. 0 \in 0..Share-1
    BY <1>3, ShareIs
  <2> QED
    BY <1>6, <1>11, <2>1 DEF Places
<1>13. s \in Unused
  BY <1>4, <1>6, <1>12 DEF Unused, Claims
<1>14. s \notin Unused'
  <2>1. upper \in threads'
    BY <1>1, <1>2
  <2>2. ASSUME NEW u \in threads', Claims(u, s[1], s[2])' PROVE FALSE
    <3>1. u.role = "tree" /\ u.begin < m /\ m < u.end
      BY <1>4, <1>9, <1>10, <1>12, <2>2 DEF Claims, Apart
    <3>2. u.begin \in Nat /\ u.end \in Nat
      BY <1>3, <3>1, ArgsAre DEF TypeOK, ThreadOK, TreeOK, Nodelets
    <3>3. u = upper \/ u.end <= m \/ t.end <= u.begin
      BY <1>7, <1>9, <2>1, <3>1 DEF Apart
    <3> QED
      BY <1>5, <1>6, <1>7, <3>1, <3>2, <3>3
  <2>3. ~(next' <= s[1])
    BY <1>3, <1>4, <1>6, <1>10, <1>12, ArgsAre DEF TypeOK
  <2> QED
    BY <2>2, <2>3 DEF Unused
<1>15. Budgeted'
  BY <1>3, <1>4, <1>9, <1>13, <1>14, OneSpawned
<1> QED
  BY <1>9, <1>15 DEF SpawnInv

LEMMA StartNodeletSpawns ==
    CopyInv /\ CopyInv' /\ SpawnInv /\ StartNodelet => SpawnInv'
<1> SUFFICES ASSUME CopyInv, CopyInv', SpawnInv, StartNodelet PROVE SpawnInv'
  OBVIOUS
<1>0. PICK child : child = IF args.mode = "emu_for" THEN Splitter(next, 0)
                                                    ELSE Copier(0, next, 0, args.n)
  OBVIOUS
<1>1. TypeOK /\ TypeOK' /\ Apart /\ Budgeted
  BY DEF CopyInv, SpawnInv
<1>2. /\ threads' = threads \union {child} /\ next' = next + 1
      /\ UNCHANGED <<args, trial, fresh>> /\ next < args.nodelets
      /\ args.mode # "tree"
      /\ IF args.mode = "parallel_simple" THEN CountSpawn ELSE UNCHANGED spawned
  BY <1>0 DEF StartNodelet
<1>3. next \in Nat /\ next \in 1..args.nodelets-1 /\ PerNodeletGrain' = PerNodeletGrain
  BY <1>1, <1>2, ArgsAre DEF TypeOK, PerNodeletGrain
<1>4. /\ child.dst = next
      /\ IF args.mode = "emu_for" THEN child.role = "split" /\ child.low = 0
                                  ELSE child.role = "copy"
  BY <1>0 DEF Splitter, Copier
<1>5. Apart'
  <2>1. ASSUME NEW u \in threads'
        PROVE  /\ u.role = "split" => /\ args'.mode = "emu_for"
                                      /\ u.dst < next'
                                      /\ \E k \in 0..u.low : u.low = k * PerNodeletGrain'
               /\ u.role # "tree"
    <3>1. CASE u \in threads
      BY <1>1, <1>2, <1>3, <3>1, SplitIs DEF Apart
    <3>2. CASE u = child
      <4>1. 0 = 0 * PerNodeletGrain
        BY <1>1, GrainIs
      <4> QED
        BY <1>2, <1>3, <1>4, <3>2, <4>1
    <3> QED
      BY <1>2, <3>1, <3>2
  <2>2. ASSUME NEW u \in threads, u.role = "split" PROVE u.dst # next
    BY <1>1, <1>3, <2>2, SplitIs DEF Apart
  <2>3. ASSUME NEW u \in threads', NEW v \in threads', u.role = "split", v.role = "split",
               u.dst = v.dst
        PROVE  u = v
    BY <1>1, <1>2, <1>4, <2>2, <2>3 DEF Apart
  <2> QED
    BY <1>2, <2>1, <2>3 DEF Apart
<1>6. Unused' \subseteq Unused
  <2>1. SUFFICES ASSUME NEW m \in 1..args.nodelets-1, NEW k \in 0..Share-1,
                        Claims(child, m, k)
                 PROVE  next <= m
    BY <1>1, <1>2, <1>3, UnusedShrinks
  <2> QED
    BY <1>3, <1>4, <2>1 DEF Claims
<1>7. Budgeted'
  <2>1. CASE args.mode # "parallel_simple"
    BY <1>1, <1>2, <1>6, <2>1, NoneSpawned
  <2>2. CASE args.mode = "parallel_simple"
    <3>1. PICK s : s = <<next, 0>>
      OBVIOUS
    <3>2. s \in Places /\ s[1] = next /\ s[2] = 0
      <4>1. 0 \in 0..Share-1
        BY <1>1, ShareIs
      <4> QED
        BY <1>3, <3>1, <4>1 DEF Places
    <3>3. s \in Unused
      BY <1>3, <3>2 DEF Unused
    <3>4. s \notin Unused'
      <4>1. \A u \in threads' : u.role # "split" /\ u.role # "tree"
        BY <1>2, <1>5, <2>2 DEF Apart
      <4>2. ~(next' <= s[1])
        BY <1>2, <1>3, <3>2
      <4> QED
        BY <4>1, <4>2 DEF Unused, Claims
    <3>5. spawned' \in Nat /\ spawned' <= spawned + 1
      BY <1>1, <1>2, <2>2, CountSpawnIs DEF TypeOK
    <3> QED
      BY <1>1, <1>2, <1>6, <3>3, <3>4, <3>5, OneSpawned
  <2> QED
    BY <2>1, <2>2
<1> QED
  BY <1>5, <1>7 DEF SpawnInv

LEMMA StartTreeSpawns ==
    CopyInv /\ CopyInv' /\ SpawnInv /\ StartTree => SpawnInv'
<1> SUFFICES ASSUME CopyInv, CopyInv', SpawnInv, StartTree PROVE SpawnInv'
  OBVIOUS
<1>0. PICK root : root = Tree(0, 0, args.nodelets)
  OBVIOUS
<1>1. TypeOK /\ TypeOK' /\ Apart /\ Budgeted
  BY DEF CopyInv, SpawnInv
<1>2. /\ threads' = {root} /\ next' = args.nodelets /\ next < args.nodelets
      /\ UNCHANGED <<args, trial, fresh, spawned>> /\ args.mode = "tree"
  BY <1>0 DEF StartTree
<1>3. root.role = "tree"
  BY <1>0 DEF Tree
<1>4. /\ args.nodelets \in Nat /\ next \in Nat /\ next = 1
  BY <1>1, <1>2, ArgsAre DEF TypeOK, Apart
<1>5. Apart'
  <2>1. next' >= args'.nodelets
    BY <1>2, <1>4
  <2> QED
    BY <1>2, <1>3, <2>1 DEF Apart
<1>6. Unused' \subseteq Unused
  <2>1. \A m \in 1..args.nodelets-1 : next <= m
    BY <1>4
  <2>2. next' \in Nat /\ next <= next'
    BY <1>2, <1>4
  <2> QED
    BY <1>1, <1>2, <2>1, <2>2, UnusedShrinks
<1> QED
  BY <1>1, <1>2, <1>5, <1>6, NoneSpawned DEF SpawnInv

\* Nothing is spawned and everything is unused.
LEMMA NoneYet ==
    ASSUME TypeOK, spawned = 0 PROVE Budgeted
<1>1. Unused \subseteq Places /\ IsFiniteSet(Places)
  BY PlacesAre DEF Unused
<1>2. /\ Cardinality(Unused) \in Nat
      /\ Cardinality(Unused) <= Cardinality(Places)
  BY <1>1, FS_Subset, FS_CardinalityType
<1> QED
  BY <1>2 DEF Budgeted

LEMMA SpawnInvInit == Init => SpawnInv
<1> SUFFICES ASSUME Init PROVE SpawnInv
  OBVIOUS
<1>1. TypeOK /\ spawned = 0
  BY CopyInvInit DEF CopyInv, Init
<1>2. Apart
  BY DEF Init, Apart
<1> QED
  BY <1>1, <1>2, NoneYet DEF SpawnInv

LEMMA EndTrialSpawns ==
    CopyInv /\ CopyInv' /\ SpawnInv /\ EndTrial => SpawnInv'
<1> SUFFICES ASSUME CopyInv, CopyInv', SpawnInv, EndTrial PROVE SpawnInv'
  OBVIOUS
<1>1. TypeOK' /\ spawned' = 0
  BY DEF CopyInv, EndTrial
<1>2. Budgeted'
  <2>1. (TypeOK /\ spawned = 0 => Budgeted)'
    BY NoneYet, PTL
  <2> QED
    BY <1>1, <2>1
<1>3. Apart'
  BY DEF EndTrial, Apart
<1> QED
  BY <1>2, <1>3 DEF SpawnInv

LEMMA SpawnInvStep == CopyInv /\ CopyInv' /\ SpawnInv /\ [Next]_vars => SpawnInv'
<1> SUFFICES ASSUME CopyInv, CopyInv', SpawnInv, [Next]_vars PROVE SpawnInv'
  OBVIOUS
<1>1. CASE MainStep
  BY <1>1, StartNodeletSpawns, StartTreeSpawns, EndTrialSpawns DEF MainStep
<1>2. ASSUME NEW t \in threads, ThreadStep(t) PROVE SpawnInv'
  BY <1>2, CopyingSpawnsNone, SpawnChunkSpawns, TreeSpawnSpawns DEF ThreadStep
<1>3. CASE UNCHANGED vars
  BY <1>3 DEF vars, SpawnInv, Apart, Budgeted, Hangs, Unused, Places, Share, ShareOf, Claims,
     PerNodeletGrain
<1> QED
  BY <1>1, <1>2, <1>3 DEF Next

\* As long as its grain is not 0, no mode spawns more threads in a trial than it has
\* been given: emu_for stays below num_threads rounded up to the nodelets, or twice
\* that if num_threads does not divide n, for all numbers of elements, threads and
\* nodelets; the tree and parallel_simple spawn one thread for each nodelet but the
\* first.
THEOREM ScatterThreadBudget == Spec => []ThreadBudget
<1>1. CopyInv /\ SpawnInv => ThreadBudget
  <2> SUFFICES ASSUME CopyInv, SpawnInv, ~Hangs PROVE spawned <= Budget(args)
    BY DEF ThreadBudget, NotExhausted
  <2>1. TypeOK /\ Budgeted
    BY DEF CopyInv, SpawnInv
  <2>2. /\ IsFiniteSet(Places) /\ Unused \subseteq Places
        /\ Cardinality(Places) = (args.nodelets - 1) * Share
    BY <2>1, PlacesAre DEF Unused
  <2>3. Cardinality(Unused) \in Nat /\ Cardinality(Places) \in Nat
    BY <2>2, FS_Subset, FS_CardinalityType
  <2>4. spawned <= Cardinality(Places)
    BY <2>1, <2>3 DEF Budgeted, TypeOK
  <2>5. args.nodelets - 1 \in Int
    BY <2>1, ArgsAre DEF TypeOK
  <2>6. spawned <= (args.nodelets - 1) * Share
    BY <2>2, <2>4
  <2>7. CASE args.mode # "emu_for"
    <3>1. Share = 1
      BY <2>7 DEF Share, ShareOf
    <3> QED
      BY <2>5, <2>6, <2>7, <3>1 DEF Budget
  <2>8. CASE args.mode = "emu_for"
    BY <2>6, <2>8 DEF Budget, Share, ShareOf
  <2> QED
    BY <2>7, <2>8
<1>2. CopyInv /\ SpawnInv /\ CopyInv' /\ [Next]_vars => SpawnInv'
  BY SpawnInvStep
<1> QED
  BY <1>1, <1>2, SpawnInvInit, ScatterCopies, PTL DEF Spec

-----------------------------------------------------------------------------
(* The arena of vector.cc *)

VecType == [addr : Nat, size : Nat, cap : Nat]

ArenaTypes == /\ next_chunk \in [Nlets -> Nat]
              /\ vec \in [Threads -> [Nlets -> VecType]]
              /\ nlet \in [Threads -> Nlets]
              /\ pc \in [Threads -> {"push", "bump", "grow", "done"}]
              /\ ptr \in [Threads -> Nat]
              /\ raced \in [Nlets -> BOOLEAN]

\* t is at label l of allocate() or of the growth behind it, on nodelet k.
IsAt(t, l, k) == pc[t] = l /\ nlet[t] = k

\* The end of a vector's chunk, and of the chunk it is about to move to.
EndOf(v) == v.addr + v.cap
NewEnd(t, k) == ptr[t] + Doubled(vec[t][k])

\* Who is in allocate() is alone there and has read what next_chunk still is.
OneAllocates(k) ==
    /\ \A t \in Threads : IsAt(t, "bump", k) => ptr[t] = next_chunk[k]
    /\ \A t, u \in Threads : IsAt(t, "bump", k) /\ IsAt(u, "bump", k) => t = u

\* next_chunk is behind all that was given away.
GivenAway(k) ==
    \A t \in Threads : /\ EndOf(vec[t][k]) <= next_chunk[k]
                       /\ IsAt(t, "grow", k) => NewEnd(t, k) <= next_chunk[k]

\* Nothing was given away twice.
GivenOnce(k) ==
    \A t, u \in Threads : t # u =>
       /\ EndOf(vec[t][k]) <= vec[u][k].addr \/ EndOf(vec[u][k]) <= vec[t][k].addr
       /\ IsAt(t, "grow", k) =>
             \/ NewEnd(t, k) <= vec[u][k].addr
             \/ EndOf(vec[u][k]) <= ptr[t]
       /\ IsAt(t, "grow", k) /\ IsAt(u, "grow", k) =>
             NewEnd(t, k) <= ptr[u] \/ NewEnd(u, k) <= ptr[t]

\* The inductive invariant.
ArenaInv == /\ ArenaTypes
            /\ \A k \in Nlets : ~raced[k] =>
                  OneAllocates(k) /\ GivenAway(k) /\ GivenOnce(k)


\* What t has on the nodelet it is at.
LEMMA MyVecIs ==
    ASSUME ArenaAssumption, ArenaTypes, NEW t \in Threads
    PROVE  /\ nlet[t] \in Nlets /\ ptr[t] \in Nat
           /\ next_chunk[nlet[t]] \in Nat
           /\ MyVec(t) = vec[t][nlet[t]]
           /\ vec[t][nlet[t]] \in VecType
           /\ Doubled(vec[t][nlet[t]]) \in Nat
BY DEF ArenaTypes, VecType, MyVec, Doubled

\* Where a worker goes after a push_back.
LEMMA AdvanceIs ==
    ASSUME ArenaAssumption, ArenaTypes, NEW t \in Threads, Advance(t)
    PROVE  /\ nlet' \in [Threads -> Nlets]
           /\ pc' \in [Threads -> {"push", "bump", "grow", "done"}]
           /\ pc'[t] \notin {"bump", "grow"}
           /\ \A u \in Threads \ {t} : pc'[u] = pc[u] /\ nlet'[u] = nlet[u]
<1>1. PICK m \in Nlets : m = nlet[t]
  BY MyVecIs
<1>2. NumNodelets \in Nat \ {0} /\ m \in 0..NumNodelets-1
  BY <1>1 DEF ArenaAssumption, Nlets
<1>3. (IF m = NumNodelets - 1 THEN 0 ELSE m + 1) \in Nlets
  BY <1>2 DEF Nlets
<1>4. nlet' = [nlet EXCEPT ![t] = IF m = NumNodelets - 1 THEN 0 ELSE m + 1]
  BY <1>1 DEF Advance, ArenaTypes
<1> QED
  BY <1>3, <1>4 DEF Advance, ArenaTypes

\* Appending to a vector v that is where it was, or where it was about to move,
\* keeps it apart from the others.
LEMMA AppendKeeps ==
    ASSUME ArenaAssumption, ArenaInv, NEW t \in Threads, pc[t] \in {"push", "grow"},
           NEW v \in VecType, Append(t, v), UNCHANGED <<next_chunk, ptr, raced>>,
           \/ v.addr = vec[t][nlet[t]].addr /\ v.cap = vec[t][nlet[t]].cap
           \/ pc[t] = "grow" /\ v.addr = ptr[t] /\ v.cap = Doubled(vec[t][nlet[t]])
    PROVE  ArenaInv'
<1>1. PICK m \in Nlets : m = nlet[t]
  BY MyVecIs DEF ArenaInv
<1>2. PICK w \in VecType : w = [v EXCEPT !.size = @ + 1]
  <2>1. v.size + 1 \in Nat
    BY DEF VecType
  <2>2. [v EXCEPT !.size = v.size + 1] \in VecType
    BY <2>1 DEF VecType
  <2> QED
    BY <2>2
<1>3. w.addr = v.addr /\ w.cap = v.cap
  BY <1>2 DEF VecType
<1>4. vec \in [Threads -> [Nlets -> VecType]] /\ vec' = [vec EXCEPT ![t][m] = w]
  BY <1>1, <1>2 DEF ArenaInv, ArenaTypes, Append
<1>5. /\ vec' \in [Threads -> [Nlets -> VecType]]
      /\ vec'[t][m] = w
      /\ \A u \in Threads, k \in Nlets : (u = t /\ k = m) \/ vec'[u][k] = vec[u][k]
  BY <1>4
<1>6. /\ nlet' \in [Threads -> Nlets]
      /\ pc' \in [Threads -> {"push", "bump", "grow", "done"}]
      /\ pc'[t] \notin {"bump", "grow"}
      /\ \A u \in Threads \ {t} : pc'[u] = pc[u] /\ nlet'[u] = nlet[u]
  BY AdvanceIs DEF ArenaInv, Append
<1>7. ArenaTypes'
  BY <1>5, <1>6 DEF ArenaInv, ArenaTypes
<1>8. ASSUME NEW k \in Nlets, ~raced'[k]
      PROVE  (OneAllocates(k) /\ GivenAway(k) /\ GivenOnce(k))'
  <2>1. OneAllocates(k) /\ GivenAway(k) /\ GivenOnce(k)
    BY <1>8 DEF ArenaInv
  <2>2. \A u \in Threads, l \in {"bump", "grow"} : IsAt(u, l, k)' => u # t /\ IsAt(u, l, k)
    BY <1>6 DEF IsAt
  <2>3. OneAllocates(k)'
    BY <2>1, <2>2 DEF OneAllocates
  <2>4. \A u \in Threads : u # t => vec'[u][k] = vec[u][k] /\ NewEnd(u, k)' = NewEnd(u, k)
    BY <1>5 DEF NewEnd
  <2>5. /\ vec'[t][k].addr = vec[t][k].addr /\ EndOf(vec'[t][k]) = EndOf(vec[t][k])
        \/ /\ IsAt(t, "grow", k) /\ vec'[t][k].addr = ptr[t]
           /\ EndOf(vec'[t][k]) = NewEnd(t, k)
    BY <1>1, <1>3, <1>5 DEF EndOf, NewEnd, IsAt
  <2>6. GivenAway(k)'
    BY <2>1, <2>2, <2>4, <2>5 DEF GivenAway
  <2>7. ASSUME NEW u \in Threads \ {t}
        PROVE  /\ \/ EndOf(vec'[t][k]) <= vec'[u][k].addr
                  \/ EndOf(vec'[u][k]) <= vec'[t][k].addr
               /\ IsAt(u, "grow", k) => \/ NewEnd(u, k) <= vec'[t][k].addr
                                        \/ EndOf(vec'[t][k]) <= ptr[u]
    BY <2>1, <2>4, <2>5 DEF GivenOnce
  <2>8. GivenOnce(k)'
    BY <2>1, <2>2, <2>4, <2>7 DEF GivenOnce
  <2> QED
    BY <2>3, <2>6, <2>8
<1> QED
  BY <1>7, <1>8 DEF ArenaInv

LEMMA PushBackKeeps ==
    ASSUME ArenaAssumption, ArenaInv, NEW t \in Threads, PushBack(t) PROVE ArenaInv'
<1>1. vec[t][nlet[t]] \in VecType /\ MyVec(t) = vec[t][nlet[t]]
  BY MyVecIs DEF ArenaInv
<1> QED
  BY <1>1, AppendKeeps DEF PushBack

LEMMA GrowKeeps ==
    ASSUME ArenaAssumption, ArenaInv, NEW t \in Threads, Grow(t) PROVE ArenaInv'
<1>1. /\ vec[t][nlet[t]] \in VecType /\ MyVec(t) = vec[t][nlet[t]]
      /\ ptr[t] \in Nat /\ Doubled(vec[t][nlet[t]]) \in Nat
  BY MyVecIs DEF ArenaInv
<1>2. PICK v : v = [addr |-> ptr[t], size |-> MyVec(t).size, cap |-> Doubled(MyVec(t))]
  OBVIOUS
<1>3. v \in VecType /\ v.addr = ptr[t] /\ v.cap = Doubled(vec[t][nlet[t]])
  BY <1>1, <1>2 DEF VecType
<1> QED
  BY <1>2, <1>3, AppendKeeps DEF Grow

\* Reading next_chunk: a second worker that does so at the same time is noticed.
LEMMA ReadChunkKeeps ==
    ASSUME ArenaAssumption, ArenaInv, NEW t \in Threads, ReadChunk(t) PROVE ArenaInv'
<1>1. PICK m \in Nlets : m = nlet[t]
  BY MyVecIs DEF ArenaInv
<1>2. /\ pc[t] = "push" /\ UNCHANGED <<next_chunk, vec, iter, nlet>>
      /\ ptr' = [ptr EXCEPT ![t] = next_chunk[m]]
      /\ pc' = [pc EXCEPT ![t] = "bump"]
      /\ raced' = [raced EXCEPT ![m] = @ \/ InAllocate(t, m)]
  BY <1>1 DEF ReadChunk
<1>3. /\ ptr \in [Threads -> Nat] /\ pc \in [Threads -> {"push", "bump", "grow", "done"}]
      /\ raced \in [Nlets -> BOOLEAN] /\ next_chunk[m] \in Nat
  BY DEF ArenaInv, ArenaTypes
<1>4. raced' \in [Nlets -> BOOLEAN] /\ \A k \in Nlets : raced[k] => raced'[k]
  <2>1. (raced[m] \/ InAllocate(t, m)) \in BOOLEAN
    OBVIOUS
  <2>2. \A k \in Nlets : raced'[k] = IF k = m THEN raced[m] \/ InAllocate(t, m) ELSE raced[k]
    BY <1>2, <1>3
  <2>3. raced' \in [Nlets -> BOOLEAN]
    BY <1>2, <1>3, <2>1
  <2> QED
    BY <2>2, <2>3
<1>5. ArenaTypes'
  BY <1>2, <1>3, <1>4 DEF ArenaInv, ArenaTypes
<1>6. ASSUME NEW k \in Nlets, ~raced'[k]
      PROVE  (OneAllocates(k) /\ GivenAway(k) /\ GivenOnce(k))'
  <2>1. OneAllocates(k) /\ GivenAway(k) /\ GivenOnce(k)
    BY <1>4, <1>6 DEF ArenaInv
  <2>2. \A u \in Threads : /\ IsAt(u, "grow", k)' <=> IsAt(u, "grow", k)
                           /\ u # t => IsAt(u, "bump", k)' = IsAt(u, "bump", k)
                           /\ u # t => ptr'[u] = ptr[u]
    BY <1>2, <1>3 DEF IsAt
  <2>3. IsAt(t, "bump", k)' => k = m /\ ptr'[t] = next_chunk[k]
    BY <1>1, <1>2, <1>3 DEF IsAt
  <2>4. IsAt(t, "bump", k)' => \A u \in Threads \ {t} : ~IsAt(u, "bump", k)
    <3>1. CASE k = m
      <4>1. ~InAllocate(t, m)
        BY <1>2, <1>3, <1>6, <3>1
      <4> QED
        BY <3>1, <4>1 DEF InAllocate, IsAt
    <3>2. CASE k # m
      BY <2>3, <3>2
    <3> QED
      BY <3>1, <3>2
  <2>5. OneAllocates(k)'
    BY <1>2, <2>1, <2>2, <2>3, <2>4 DEF OneAllocates
  <2>6. \A u \in Threads : IsAt(u, "grow", k) => u # t /\ NewEnd(u, k)' = NewEnd(u, k)
    BY <1>2, <2>2 DEF IsAt, NewEnd
  <2>7. GivenAway(k)'
    BY <1>2, <2>1, <2>2, <2>6 DEF GivenAway
  <2>8. GivenOnce(k)'
    BY <1>2, <2>1, <2>2, <2>6 DEF GivenOnce
  <2> QED
    BY <2>5, <2>7, <2>8
<1> QED
  BY <1>5, <1>6 DEF ArenaInv

\* Advancing next_chunk gives away what lies behind all that was given away, unless
\* another worker has moved it in the meantime.
LEMMA BumpChunkKeeps ==
    ASSUME ArenaAssumption, ArenaInv, NEW t \in Threads, BumpChunk(t) PROVE ArenaInv'
<1>1. PICK m \in Nlets : m = nlet[t]
  BY MyVecIs DEF ArenaInv
<1>2. /\ ptr[t] \in Nat /\ next_chunk[m] \in Nat /\ Doubled(vec[t][m]) \in Nat
      /\ next_chunk \in [Nlets -> Nat]
      /\ pc \in [Threads -> {"push", "bump", "grow", "done"}]
  BY <1>1, MyVecIs DEF ArenaInv, ArenaTypes
<1>3. PICK base \in {ptr[t], next_chunk[m]} :
         next_chunk' = [next_chunk EXCEPT ![m] = base + Doubled(vec[t][m])]
  BY <1>1 DEF BumpChunk, MyVec
<1>4. /\ pc[t] = "bump" /\ UNCHANGED <<vec, iter, nlet, ptr, raced>>
      /\ pc' = [pc EXCEPT ![t] = "grow"]
  BY DEF BumpChunk
<1>5. /\ next_chunk' \in [Nlets -> Nat]
      /\ next_chunk'[m] = base + Doubled(vec[t][m])
      /\ \A k \in Nlets \ {m} : next_chunk'[k] = next_chunk[k]
  BY <1>2, <1>3
<1>6. ArenaTypes'
  BY <1>2, <1>4, <1>5 DEF ArenaInv, ArenaTypes
<1>7. ASSUME NEW k \in Nlets, ~raced'[k]
      PROVE  (OneAllocates(k) /\ GivenAway(k) /\ GivenOnce(k))'
  <2>1. OneAllocates(k) /\ GivenAway(k) /\ GivenOnce(k)
    BY <1>4, <1>7 DEF ArenaInv
  <2>2. \A u \in Threads \ {t}, l \in {"bump", "grow"} : IsAt(u, l, k)' = IsAt(u, l, k)
    BY <1>2, <1>4 DEF IsAt
  <2>3. ~IsAt(t, "bump", k)' /\ (IsAt(t, "grow", k)' <=> k = m) /\ IsAt(t, "bump", m)
    BY <1>1, <1>2, <1>4 DEF IsAt
  <2>4. \A u \in Threads : /\ NewEnd(u, k)' = NewEnd(u, k) /\ NewEnd(u, k) \in Nat
                           /\ vec[u][k].addr \in Nat /\ EndOf(vec[u][k]) \in Nat
                           /\ ptr[u] \in Nat
    BY <1>4 DEF NewEnd, EndOf, Doubled, ArenaInv, ArenaTypes, VecType
  <2>5. CASE k # m
    <3>1. next_chunk'[k] = next_chunk[k] /\ ~IsAt(t, "grow", k)'
      BY <1>5, <2>3, <2>5
    <3> QED
      BY <1>4, <2>1, <2>2, <2>3, <2>4, <3>1 DEF OneAllocates, GivenAway, GivenOnce
  <2>6. CASE k = m
    <3>1. ptr[t] = next_chunk[k] /\ \A u \in Threads \ {t} : ~IsAt(u, "bump", k)
      BY <2>1, <2>3, <2>6 DEF OneAllocates
    <3>2. next_chunk'[k] = NewEnd(t, k) /\ next_chunk[k] <= next_chunk'[k]
          /\ next_chunk[k] \in Nat /\ next_chunk'[k] \in Nat
      BY <1>2, <1>3, <1>5, <2>6, <3>1 DEF NewEnd
    <3>3. OneAllocates(k)'
      BY <2>2, <2>3, <3>1 DEF OneAllocates
    <3>4. GivenAway(k)'
      BY <1>4, <2>1, <2>2, <2>4, <3>2 DEF GivenAway
    <3>5. \A u \in Threads \ {t} :
             /\ EndOf(vec[u][k]) <= ptr[t]
             /\ IsAt(u, "grow", k) => NewEnd(u, k) <= ptr[t]
      BY <2>1, <3>1 DEF GivenAway
    <3>6. GivenOnce(k)'
      BY <1>4, <2>1, <2>2, <2>4, <3>5 DEF GivenOnce
    <3> QED
      BY <3>3, <3>4, <3>6
  <2> QED
    BY <2>5, <2>6
<1> QED
  BY <1>6, <1>7 DEF ArenaInv

LEMMA ArenaInvInit == ArenaAssumption /\ ArenaInit => ArenaInv
<1> SUFFICES ASSUME ArenaAssumption, ArenaInit PROVE ArenaInv
  OBVIOUS
<1>1. 0 \in Nlets
  BY DEF ArenaAssumption, Nlets
<1>2. ArenaTypes
  BY <1>1 DEF ArenaInit, ArenaTypes, VecType
<1> QED
  BY <1>2 DEF ArenaInit, ArenaInv, OneAllocates, GivenAway, GivenOnce, IsAt, EndOf

LEMMA ArenaInvStep ==
    ArenaAssumption /\ ArenaInv /\ [ArenaNext]_arenaVars => ArenaInv'
<1> SUFFICES ASSUME ArenaAssumption, ArenaInv, [ArenaNext]_arenaVars
             PROVE  ArenaInv'
  OBVIOUS
<1>1. ASSUME NEW t \in Threads, Step(t) PROVE ArenaInv'
  BY <1>1, PushBackKeeps, ReadChunkKeeps, BumpChunkKeeps, GrowKeeps DEF Step
<1>2. CASE UNCHANGED arenaVars
  BY <1>2 DEF arenaVars, ArenaInv, ArenaTypes, OneAllocates, GivenAway, GivenOnce,
     IsAt, EndOf, NewEnd
<1> QED
  BY <1>1, <1>2 DEF ArenaNext

\* The "serial version" of allocate() gives each vector a chunk of its own for any
\* number of workers, nodelets and elements, as long as no two calls of it overlap
\* on a nodelet: next_chunk is then behind all that was given away there.
THEOREM ArenaSerialAllocations ==
    ASSUME ArenaAssumption
    PROVE  ArenaSpec => []SerialAllocations
<1>1. ArenaInv => SerialAllocations
  <2> SUFFICES ASSUME ArenaInv, NEW k \in Nlets, ~raced[k],
                      NEW t \in Threads, NEW u \in Threads, t # u
               PROVE  Chunk(vec[t][k]) \cap Chunk(vec[u][k]) = {}
    BY DEF SerialAllocations, PrivateOn
  <2>1. EndOf(vec[t][k]) <= vec[u][k].addr \/ EndOf(vec[u][k]) <= vec[t][k].addr
    BY DEF ArenaInv, GivenOnce
  <2>2. vec[t][k] \in VecType /\ vec[u][k] \in VecType
    BY DEF ArenaInv, ArenaTypes
  <2> QED
    BY <2>1, <2>2 DEF Chunk, EndOf, VecType
<1>2. ArenaInit => ArenaInv
  BY ArenaInvInit
<1>3. ArenaInv /\ [ArenaNext]_arenaVars => ArenaInv'
  BY ArenaInvStep
<1> QED
  BY <1>1, <1>2, <1>3, PTL DEF ArenaSpec
=============================================================================
