-------------------------- MODULE AllocationProofs --------------------------
(***************************************************************************)
(* Proofs about the allocators of allocation.cc for any number of threads, *)
(* blocks and trials: nobody is given a block twice, the buffer's boundary *)
(* and the free list are exact, no alloc() is aborted, and each allocator  *)
(* is a pool of blocks.                                                    *)
(***************************************************************************)
EXTENDS Allocation, FiniteSetTheorems, TLAPS

Labels == {"unborn", "head", "alloc", "check", "next", "cas", "done"}

\* Types of all variables, those of the allocators that do not run included.
Types == /\ allocator \in {"mallocator", "monotonic_buffer", "free_list"}
         /\ BenchTypeOK
         /\ pc \in [Threads -> Labels]
         /\ pool_begin \in Nat
         /\ ptr \in [Threads -> Nat]
         /\ head \in Blocks \cup {Null}
         /\ my_block \in [Threads -> Blocks \cup {Null}]
         /\ next_block \in [Threads -> Blocks \cup {Null}]

\* Where a worker may be depends on the allocator, and a worker that is in alloc()
\* has iterations left.
Places == \A t \in Threads :
             /\ pc[t] = "check" => allocator = "monotonic_buffer"
             /\ pc[t] \in {"next", "cas"} => allocator = "free_list"
             /\ pc[t] \in {"alloc", "check", "next", "cas"} => iter[t] < NPerThread

\* A trial that is under way is one of the NumTrials.
TrialBound == phase \in {"spawn", "sync"} => trial < NumTrials

\* What each worker has is finite, which is what makes its cardinality mean something.
OneEach == DistinctBlocks /\ \A t \in Threads : IsFiniteSet(owned[t])

\* A reserved block is nobody else's.
ReservedOnce == \A t \in Threads : pc[t] = "check" =>
                   \A u \in Threads : /\ ptr[t] \notin owned[u]
                                      /\ u # t /\ pc[u] = "check" => ptr[u] # ptr[t]

\* The local variables of alloc() name a block and, once it is read, its link, which
\* never changes: this is why a compare-and-swap that finds the same head may rely on
\* what was read before.
LinksRead == \A t \in Threads :
                /\ pc[t] \in {"next", "cas"} => my_block[t] # Null
                /\ pc[t] = "cas" => next_block[t] = List!NextLink(my_block[t])

\* Until the free list runs its variables are as Init leaves them.
ListUntouched == allocator # "free_list" => head = 0

\* The calls of alloc() that have taken a block from the pool in this trial.
Issued == {p \in Threads \X (0..NPerThread-1) :
              p[2] < iter[p[1]] \/ (p[2] = iter[p[1]] /\ pc[p[1]] = "check")}

\* The number of blocks that are gone from the pool.
Taken == IF allocator = "monotonic_buffer" THEN pool_begin
         ELSE IF head = Null THEN NumBlocks ELSE head

\* Each call takes one block.
OnePerCall == allocator # "mallocator" =>
                 IsFiniteSet(Issued) /\ Cardinality(Issued) = Taken

\* pool_begin is the boundary between the blocks somebody has and the others.
BoundaryMet == allocator = "monotonic_buffer" =>
    0..pool_begin-1 = Buffer!Reserved \cup UNION {owned[t] : t \in Threads}

\* The inductive invariant.
AllocInv == /\ Types /\ Places /\ TrialBound /\ NoMallocError
            /\ OneEach
            /\ ReservedOnce /\ BoundaryMet
            /\ LinksRead /\ ListUntouched /\ ListExact
            /\ OnePerCall

-----------------------------------------------------------------------------
(* Arithmetic of the pool *)

\* There is at least one worker, and n_per_thread is a natural number.
LEMMA NPerThreadNat == NPerThread \in Nat /\ Cardinality(Threads) \in Nat \ {0}
<1>1. Cardinality(Threads) \in Nat \ {0}
  BY AllocBenchAssumption, FS_CardinalityType, FS_EmptySet
<1> QED
  BY <1>1, AllocBenchAssumption DEF NPerThread

\* The quotient is rounded down.
LEMMA RoundedDown ==
    ASSUME NEW n \in Nat, NEW d \in Nat \ {0}
    PROVE  d * (n \div d) <= n
<1>1. n = d * (n \div d) + (n % d)
  OBVIOUS
<1>2. d * (n \div d) \in Nat /\ n % d \in Nat
  OBVIOUS
<1> QED
  BY <1>1, <1>2

\* All calls of alloc() in a trial.
Calls == Threads \X (0..NPerThread-1)

\* There are no more of them than blocks in the pool.
LEMMA CallsBounded == IsFiniteSet(Calls) /\ Cardinality(Calls) \in Nat /\ Cardinality(Calls) <= NumBlocks
<1>1. IsFiniteSet(0..NPerThread-1) /\ Cardinality(0..NPerThread-1) = NPerThread
  BY NPerThreadNat, FS_Interval, SMTT(60)
<1>2. IsFiniteSet(Calls) /\ Cardinality(Calls) = Cardinality(Threads) * NPerThread
  BY <1>1, FS_Product, AllocBenchAssumption DEF Calls
<1>3. Cardinality(Threads) * NPerThread <= NumBlocks
  BY RoundedDown, NPerThreadNat, AllocBenchAssumption DEF NPerThread
<1> QED
  BY <1>2, <1>3, FS_CardinalityType

\* The calls that have taken a block are at most as many as there are blocks, and
\* fewer if a worker is in alloc() that has not taken its block yet.
LEMMA IssuedBounded ==
    ASSUME IsFiniteSet(Issued)
    PROVE  /\ Cardinality(Issued) <= NumBlocks
           /\ \A t \in Threads, i \in 0..NPerThread-1 :
                 <<t, i>> \notin Issued => Cardinality(Issued) < NumBlocks
<1>1. Issued \in SUBSET Calls
  BY DEF Issued, Calls
<1>2. /\ Cardinality(Issued) <= Cardinality(Calls)
      /\ Cardinality(Issued) = Cardinality(Calls) => Issued = Calls
  BY <1>1, CallsBounded, FS_Subset
<1>3. Cardinality(Issued) \in Nat /\ NumBlocks \in Nat
  BY FS_CardinalityType, AllocBenchAssumption
<1>4. Cardinality(Issued) <= NumBlocks
  BY <1>2, <1>3, CallsBounded
<1>5. ASSUME NEW t \in Threads, NEW i \in 0..NPerThread-1, <<t, i>> \notin Issued
      PROVE  Cardinality(Issued) < NumBlocks
  <2>1. Issued # Calls
    BY <1>5 DEF Calls
  <2> QED
    BY <1>2, <1>3, <2>1, CallsBounded
<1> QED
  BY <1>4, <1>5

\* The same after a step.
LEMMA IssuedBoundedNext ==
    IsFiniteSet(Issued)' => (Cardinality(Issued) <= NumBlocks)'
<1>1. IsFiniteSet(Issued) => Cardinality(Issued) <= NumBlocks
  BY IssuedBounded
<1> QED
  BY <1>1, PTL

-----------------------------------------------------------------------------
(* The state that all allocators share *)

\* The blocks that somebody has been given.
AllOwned == UNION {owned[t] : t \in Threads}

\* A block is in it if some worker has it.
LEMMA AllOwnedIs == \A b : b \in AllOwned <=> \E t \in Threads : b \in owned[t]
BY DEF AllOwned

LEMMA AllOwnedIsNext == \A b : b \in AllOwned' <=> \E t \in Threads : b \in owned'[t]
BY DEF AllOwned

\* alloc() returns a block of the pool that nobody has: it is added to what its
\* caller has, and everybody's blocks stay different.
LEMMA ReturnsOne ==
    ASSUME Types, OneEach, NEW t \in Threads, NEW b \in Blocks, b \notin AllOwned, Return(t, b)
    PROVE  OneEach' /\ AllOwned' = AllOwned \cup {b}
<1> USE DEF Types, BenchTypeOK
<1>1. /\ owned'[t] = owned[t] \cup {b} /\ iter'[t] = iter[t] + 1
      /\ \A u \in Threads \ {t} : owned'[u] = owned[u] /\ iter'[u] = iter[u]
  BY DEF Return
<1>2. IsFiniteSet(owned'[t]) /\ Cardinality(owned'[t]) = iter'[t]
  <2>1. IsFiniteSet(owned[t]) /\ b \notin owned[t] /\ Cardinality(owned[t]) = iter[t]
    BY AllOwnedIs DEF OneEach, DistinctBlocks
  <2>2. IsFiniteSet(owned[t] \cup {b}) /\ Cardinality(owned[t] \cup {b}) = iter[t] + 1
    BY <2>1, FS_AddElement
  <2> QED
    BY <1>1, <2>2
<1>3. OneEach'
  <2>1. \A u \in Threads : /\ IsFiniteSet(owned'[u]) /\ Cardinality(owned'[u]) = iter'[u]
                           /\ owned'[u] \subseteq Blocks
    BY <1>1, <1>2 DEF OneEach, DistinctBlocks
  <2>2. \A u, v \in Threads : u # v => owned'[u] \cap owned'[v] = {}
    BY <1>1, AllOwnedIs DEF OneEach, DistinctBlocks
  <2> QED
    BY <2>1, <2>2 DEF OneEach, DistinctBlocks
<1>4. AllOwned' = AllOwned \cup {b}
  BY <1>1, AllOwnedIs, AllOwnedIsNext
<1> QED
  BY <1>3, <1>4

\* A new trial, or the next run_test: nobody has anything.
LEMMA NobodyOwns ==
    ASSUME iter' = [t \in Threads |-> 0], owned' = [t \in Threads |-> {}]
    PROVE  OneEach' /\ AllOwned' = {}
<1>1. \A t \in Threads : owned'[t] = {} /\ iter'[t] = 0
  OBVIOUS
<1>2. OneEach'
  BY <1>1, FS_EmptySet DEF OneEach, DistinctBlocks
<1>3. AllOwned' = {}
  BY <1>1, AllOwnedIsNext
<1> QED
  BY <1>2, <1>3

\* A step that returns nothing keeps the blocks of all workers.
LEMMA KeepsBlocks ==
    ASSUME OneEach, UNCHANGED <<iter, owned>>
    PROVE  OneEach' /\ AllOwned' = AllOwned
BY DEF OneEach, DistinctBlocks, AllOwned

-----------------------------------------------------------------------------
(* The steps of the modules that Allocation instantiates *)

\* The buffer's benchmark is the one that Allocation extends.
LEMMA BufferBench ==
    /\ Buffer!Sync <=> Sync
    /\ Buffer!Abort <=> Abort
    /\ \A t \in Threads : /\ Buffer!Spawn(t) <=> Spawn(t)
                          /\ Buffer!Head(t) <=> Head(t)
                          /\ \A b : Buffer!Return(t, b) <=> Return(t, b)
                          /\ \A l : Buffer!Goto(t, l) <=> Goto(t, l)
BY Zenon DEF Buffer!Sync, Sync, Buffer!Abort, Abort, Buffer!Spawn, Spawn, Buffer!Head, Head,
     Buffer!Return, Return, Buffer!Goto, Goto, Buffer!NPerThread, NPerThread,
     Buffer!Cardinality, Cardinality

\* So is the free list's.
LEMMA ListBench ==
    /\ List!Sync <=> Sync
    /\ List!Abort <=> Abort
    /\ \A t \in Threads : /\ List!Spawn(t) <=> Spawn(t)
                          /\ List!Head(t) <=> Head(t)
                          /\ \A b : List!Return(t, b) <=> Return(t, b)
                          /\ \A l : List!Goto(t, l) <=> Goto(t, l)
BY Zenon DEF List!Sync, Sync, List!Abort, Abort, List!Spawn, Spawn, List!Head, Head,
     List!Return, Return, List!Goto, Goto, List!NPerThread, NPerThread,
     List!Cardinality, Cardinality

\* The boundary of the buffer, block by block.
BoundaryHolds == allocator = "monotonic_buffer" =>
                    \A n \in Nat : n < pool_begin <=>
                       \/ n \in AllOwned
                       \/ \E t \in Threads : pc[t] = "check" /\ ptr[t] = n

LEMMA BoundaryIs == Types => (BoundaryMet <=> BoundaryHolds)
<1> SUFFICES ASSUME Types PROVE BoundaryMet <=> BoundaryHolds
  OBVIOUS
<1>1. AllOwned \subseteq Nat /\ Buffer!Reserved \subseteq Nat
  BY DEF Types, BenchTypeOK, AllOwned, Buffer!Reserved
<1>2. \A n : n \in Buffer!Reserved <=> \E t \in Threads : pc[t] = "check" /\ ptr[t] = n
  BY DEF Buffer!Reserved
<1>3. pool_begin \in Nat
  BY DEF Types
<1>4. BoundaryMet <=> (allocator = "monotonic_buffer" =>
                           0..pool_begin-1 = Buffer!Reserved \cup AllOwned)
  BY DEF BoundaryMet, AllOwned
<1>5. 0..pool_begin-1 = {n \in Nat : n < pool_begin}
  BY <1>3
<1>6. 0..pool_begin-1 = Buffer!Reserved \cup AllOwned <=>
         \A n \in Nat : n < pool_begin <=> n \in Buffer!Reserved \cup AllOwned
  BY <1>1, <1>5, Zenon
<1> QED
  BY <1>2, <1>4, <1>6 DEF BoundaryHolds

LEMMA BoundaryIsNext == Types' => (BoundaryMet' <=> BoundaryHolds')
BY BoundaryIs, PTL

\* The blocks on the list, block by block.
ListHolds == allocator = "free_list" =>
                \A n \in Blocks : n \notin AllOwned <=> head # Null /\ head <= n

LEMMA ListIs == Types /\ OneEach => (ListExact <=> ListHolds)
<1> SUFFICES ASSUME Types, OneEach PROVE ListExact <=> ListHolds
  OBVIOUS
<1>1. AllOwned \subseteq Blocks
  BY DEF OneEach, DistinctBlocks, AllOwned
<1>2. Blocks \subseteq Nat /\ NumBlocks \in Nat /\ Null \notin Blocks
  BY AllocBenchAssumption DEF Blocks
<1>3. List!Listed \subseteq Blocks
        /\ \A n \in Blocks : n \in List!Listed <=> head # Null /\ head <= n
  <2>1. CASE head = Null
    BY <2>1 DEF List!Listed
  <2>2. CASE head # Null
    BY <2>2, <1>2 DEF List!Listed, Blocks, Types
  <2> QED
    BY <2>1, <2>2
<1>4. List!ListExact <=> List!Listed = Blocks \ AllOwned
  BY DEF List!ListExact, AllOwned, List!Blocks, Blocks
<1> QED
  BY <1>3, <1>4 DEF ListExact, ListHolds

LEMMA ListIsNext == Types' /\ OneEach' => (ListExact' <=> ListHolds')
BY ListIs, PTL

-----------------------------------------------------------------------------
(* The invariant *)

\* A trial starts: no worker has run and the pool is full.
FreshTrial == /\ Types
              /\ phase = "spawn" /\ trial < NumTrials
              /\ pc = [t \in Threads |-> "unborn"]
              /\ iter = [t \in Threads |-> 0]
              /\ owned = [t \in Threads |-> {}]
              /\ allocator = "monotonic_buffer" => pool_begin = 0
              /\ head = 0

LEMMA FreshTrialInv == FreshTrial => AllocInv
<1> SUFFICES ASSUME FreshTrial PROVE AllocInv
  OBVIOUS
<1> USE DEF FreshTrial
<1>1. \A t \in Threads : pc[t] = "unborn" /\ iter[t] = 0 /\ owned[t] = {}
  OBVIOUS
<1>2. OneEach
  BY <1>1, FS_EmptySet DEF OneEach, DistinctBlocks
<1>3. AllOwned = {}
  BY <1>1, AllOwnedIs
<1>4. BoundaryMet
  BY <1>1, <1>3, BoundaryIs DEF BoundaryHolds
<1>5. ListExact
  BY <1>2, <1>3, ListIs, AllocBenchAssumption DEF ListHolds, Blocks
<1>6. Issued = {}
  BY <1>1, NPerThreadNat DEF Issued
<1>7. OnePerCall
  BY <1>6, FS_EmptySet, AllocBenchAssumption DEF OnePerCall, Taken
<1>8. Places /\ TrialBound /\ NoMallocError /\ ReservedOnce /\ LinksRead /\ ListUntouched
  BY <1>1 DEF Places, TrialBound, NoMallocError, ReservedOnce, LinksRead, ListUntouched
<1> QED
  BY <1>2, <1>4, <1>5, <1>7, <1>8 DEF AllocInv

\* The invariant holds when main calls run_test for the first time.
LEMMA AllocInvInit == Init => AllocInv
<1> SUFFICES ASSUME Init PROVE AllocInv
  OBVIOUS
<1>1. /\ allocator = "mallocator" /\ phase = "spawn" /\ trial = 0
      /\ pc = [t \in Threads |-> "unborn"]
      /\ iter = [t \in Threads |-> 0] /\ owned = [t \in Threads |-> {}]
      /\ pool_begin = 0 /\ ptr = [t \in Threads |-> 0]
      /\ head = 0
      /\ my_block = [t \in Threads |-> Null] /\ next_block = [t \in Threads |-> Null]
  BY DEF Init, Buffer!Init, Buffer!BenchInit, List!Init
<1>2. Types
  <2>1. BenchTypeOK
    <3>1. iter \in [Threads -> 0..NPerThread] /\ owned \in [Threads -> SUBSET Nat]
      BY <1>1, NPerThreadNat
    <3> QED
      BY <1>1, <3>1, AllocBenchAssumption DEF BenchTypeOK
  <2>2. pc \in [Threads -> Labels]
    BY <1>1 DEF Labels
  <2>3. head \in Blocks
    BY <1>1, AllocBenchAssumption DEF Blocks
  <2> QED
    BY <1>1, <2>1, <2>2, <2>3 DEF Types
<1> QED
  BY <1>1, <1>2, FreshTrialInv, AllocBenchAssumption DEF FreshTrial

\* A step after which a trial starts.
LEMMA FreshTrialNext == FreshTrial' => AllocInv'
BY FreshTrialInv, PTL

\* The parts of the invariant that speak of blocks survive a step that moves workers
\* without touching blocks, iterations or the pool, and lets nobody into or out of
\* "check".
LEMMA MovesOnly ==
    ASSUME AllocInv, Types', UNCHANGED <<allocator, iter, owned, pool_begin, head>>,
           \A t \in Threads : /\ pc'[t] = "check" <=> pc[t] = "check"
                              /\ pc[t] = "check" => ptr'[t] = ptr[t]
    PROVE  /\ OneEach' /\ ReservedOnce' /\ BoundaryMet'
           /\ ListUntouched' /\ ListExact' /\ OnePerCall'
<1> USE DEF AllocInv
<1>1. OneEach' /\ AllOwned' = AllOwned
  BY KeepsBlocks
<1>2. ReservedOnce'
  BY DEF ReservedOnce
<1>3. BoundaryMet'
  BY <1>1, BoundaryIs, BoundaryIsNext DEF BoundaryHolds
<1>4. ListExact'
  BY <1>1, ListIs, ListIsNext DEF ListHolds
<1>5. Issued' = Issued
  BY DEF Issued
<1>6. OnePerCall'
  BY <1>5 DEF OnePerCall, Taken
<1> QED
  BY <1>1, <1>2, <1>3, <1>4, <1>6 DEF ListUntouched

\* Spawning a worker keeps the invariant.
LEMMA SpawnKeeps ==
    ASSUME AllocInv, NEW t \in Threads, Spawn(t), UNCHANGED <<allocator, bufferVars, listVars>>
    PROVE  AllocInv'
<1> USE DEF AllocInv, Spawn, Goto, bufferVars, listVars
<1>1. Types'
  BY DEF Types, BenchTypeOK, Labels
<1>2. \A u \in Threads : pc'[u] = "check" <=> pc[u] = "check"
  BY DEF Types
<1>3. Places' /\ LinksRead' /\ TrialBound' /\ NoMallocError'
  BY DEF Types, Labels, Places, LinksRead, TrialBound, NoMallocError
<1> QED
  BY <1>1, <1>2, <1>3, MovesOnly

\* So does the test of a worker's loop.
LEMMA HeadKeeps ==
    ASSUME AllocInv, NEW t \in Threads, Head(t), UNCHANGED <<allocator, bufferVars, listVars>>
    PROVE  AllocInv'
<1> USE DEF AllocInv, Head, Goto, bufferVars, listVars
<1>1. Types'
  BY DEF Types, BenchTypeOK, Labels
<1>2. \A u \in Threads : pc'[u] = "check" <=> pc[u] = "check"
  BY DEF Types
<1>3. Places' /\ LinksRead' /\ TrialBound' /\ NoMallocError'
  BY DEF Types, Labels, Places, LinksRead, TrialBound, NoMallocError
<1> QED
  BY <1>1, <1>2, <1>3, MovesOnly

\* The end of a trial keeps it, if the next one gets a new pool.
LEMMA SyncKeeps ==
    ASSUME AllocInv, Sync, UNCHANGED <<allocator, ptr, my_block, next_block>>,
           pool_begin' = IF allocator = "monotonic_buffer" /\ trial' < NumTrials
                         THEN 0 ELSE pool_begin,
           head' = IF allocator = "free_list" /\ trial' < NumTrials THEN 0 ELSE head
    PROVE  AllocInv'
<1> USE DEF AllocInv, Sync
<1>1. trial \in Nat /\ trial < NumTrials /\ trial' = trial + 1 /\ NumTrials \in Nat
  BY AllocBenchAssumption DEF Types, BenchTypeOK, TrialBound
<1>2. 0 \in Blocks
  BY AllocBenchAssumption DEF Blocks
<1>3. CASE trial' < NumTrials
  <2>1. /\ phase' = "spawn" /\ pc' = [t \in Threads |-> "unborn"]
        /\ iter' = [t \in Threads |-> 0] /\ owned' = [t \in Threads |-> {}]
    BY <1>1, <1>3
  <2>2. head' = 0
    BY <1>3 DEF ListUntouched
  <2>3. iter' \in [Threads -> 0..NPerThread] /\ owned' \in [Threads -> SUBSET Nat]
    BY <2>1, NPerThreadNat
  <2>4. pc' \in [Threads -> Labels]
    BY <2>1 DEF Labels
  <2>5. Types'
    BY <1>1, <1>2, <1>3, <2>1, <2>2, <2>3, <2>4 DEF Types, BenchTypeOK
  <2> QED
    BY <1>3, <2>1, <2>2, <2>5, FreshTrialNext DEF FreshTrial
<1>4. CASE ~(trial' < NumTrials)
  <2>1. phase' = "finished" /\ UNCHANGED <<pc, iter, owned, pool_begin, head>>
    BY <1>1, <1>4
  <2>2. Types'
    BY <1>1, <2>1 DEF Types, BenchTypeOK
  <2>3. Places' /\ LinksRead' /\ TrialBound' /\ NoMallocError'
    BY <2>1 DEF Places, LinksRead, TrialBound, NoMallocError
  <2> QED
    BY <2>1, <2>2, <2>3, MovesOnly
<1> QED
  BY <1>3, <1>4

\* The call of run_test with the next allocator keeps it.
LEMMA NextAllocatorKeeps == ASSUME AllocInv, NextAllocator PROVE AllocInv'
<1> USE DEF AllocInv, NextAllocator, BenchRestart, listVars
<1>1. iter' \in [Threads -> 0..NPerThread] /\ owned' \in [Threads -> SUBSET Nat]
  BY NPerThreadNat
<1>2. pc' \in [Threads -> Labels]
  BY DEF Labels
<1>3. Types'
  BY <1>1, <1>2, AllocBenchAssumption DEF Types, BenchTypeOK
<1>4. head' = 0
  BY DEF ListUntouched
<1> QED
  BY <1>3, <1>4, FreshTrialNext, AllocBenchAssumption DEF FreshTrial

\* alloc() returns a block: the types and the labels of the workers.
LEMMA ReturnTypes ==
    ASSUME AllocInv, NEW t \in Threads, NEW b \in Blocks, Return(t, b),
           pc[t] \in {"alloc", "check", "next", "cas"},
           UNCHANGED <<allocator, ptr, my_block, next_block>>,
           pool_begin' \in Nat, head' \in Blocks \cup {Null},
           allocator # "free_list" => head' = head
    PROVE  /\ Types' /\ Places' /\ TrialBound' /\ NoMallocError'
           /\ LinksRead' /\ ListUntouched'
<1> USE DEF AllocInv, Return, Goto
<1>1. iter[t] \in Nat /\ NPerThread \in Nat /\ iter[t] < NPerThread /\ b \in Nat
  BY NPerThreadNat DEF Types, BenchTypeOK, Places, Blocks
<1>2. Types'
  <2>1. iter' \in [Threads -> 0..NPerThread]
    BY <1>1 DEF Types, BenchTypeOK
  <2>2. owned' \in [Threads -> SUBSET Nat]
    BY <1>1 DEF Types, BenchTypeOK
  <2>3. pc' \in [Threads -> Labels]
    BY DEF Types, Labels
  <2> QED
    BY <2>1, <2>2, <2>3 DEF Types, BenchTypeOK
<1>3. pc'[t] = "head" /\ \A u \in Threads \ {t} : pc'[u] = pc[u] /\ iter'[u] = iter[u]
  BY DEF Types, BenchTypeOK
<1> QED
  BY <1>2, <1>3 DEF Places, TrialBound, NoMallocError, LinksRead, ListUntouched

\* malloc returns a block that nobody has.
LEMMA MallocKeeps ==
    ASSUME AllocInv, NEW t \in Threads, MallocStep, Malloc(t)
    PROVE  AllocInv'
<1> USE DEF MallocStep, bufferVars, listVars
<1>1. PICK b \in Blocks : 0..b-1 = AllOwned /\ Return(t, b)
  BY DEF Malloc, AllOwned
<1>2. b \notin AllOwned
  BY <1>1 DEF Blocks
<1>3. OneEach'
  BY <1>1, <1>2, ReturnsOne DEF AllocInv
<1>4. Types' /\ Places' /\ TrialBound' /\ NoMallocError' /\ LinksRead' /\ ListUntouched'
  BY <1>1, ReturnTypes DEF AllocInv, Malloc, Types
<1>5. BoundaryMet' /\ ListExact' /\ OnePerCall'
  BY DEF BoundaryMet, ListExact, OnePerCall
<1>6. ReservedOnce'
  BY <1>4 DEF ReservedOnce, Places
<1> QED
  BY <1>3, <1>4, <1>5, <1>6 DEF AllocInv

\* A worker of the buffer reserves the block at the boundary.
LEMMA ReserveKeeps ==
    ASSUME AllocInv, NEW t \in Threads, BufferStep, Buffer!Reserve(t)
    PROVE  AllocInv'
<1> USE DEF AllocInv, BufferStep, Buffer!Reserve, Buffer!Goto, listVars
<1>1. /\ pool_begin \in Nat /\ pool_begin' = pool_begin + 1
      /\ pc'[t] = "check" /\ ptr'[t] = pool_begin
      /\ \A u \in Threads \ {t} : pc'[u] = pc[u] /\ ptr'[u] = ptr[u]
  BY DEF Types
<1>2. Types'
  BY <1>1 DEF Types, Labels, BenchTypeOK
<1>3. OneEach' /\ AllOwned' = AllOwned
  BY KeepsBlocks
<1>4. BoundaryHolds
  BY BoundaryIs
<1>5. BoundaryMet'
  <2>1. BoundaryHolds'
    <3>1. \A n \in Nat : n < pool_begin + 1 <=> n < pool_begin \/ n = pool_begin
      BY <1>1
    <3> QED
      BY <1>1, <1>3, <1>4, <3>1 DEF BoundaryHolds
  <2> QED
    BY <1>2, <2>1, BoundaryIsNext
<1>6. ReservedOnce'
  <2>1. \A u \in Threads : pool_begin \notin owned[u] /\ (pc[u] = "check" => ptr[u] # pool_begin)
    BY <1>1, <1>4, AllOwnedIs DEF BoundaryHolds
  <2> QED
    BY <1>1, <2>1 DEF ReservedOnce
<1>7. OnePerCall'
  <2>1. iter[t] \in 0..NPerThread-1
    BY NPerThreadNat DEF Places, Types, BenchTypeOK
  <2>2. <<t, iter[t]>> \notin Issued /\ Issued' = Issued \cup {<<t, iter[t]>>}
    BY <1>1, <2>1 DEF Issued
  <2>3. IsFiniteSet(Issued) /\ Cardinality(Issued) = pool_begin
    BY DEF OnePerCall, Taken
  <2>4. IsFiniteSet(Issued') /\ Cardinality(Issued') = pool_begin + 1
    BY <2>2, <2>3, FS_AddElement
  <2> QED
    BY <1>1, <2>4 DEF OnePerCall, Taken
<1>8. Places'
  BY <1>1 DEF Places
<1> QED
  BY <1>1, <1>2, <1>3, <1>5, <1>6, <1>7, <1>8
     DEF TrialBound, NoMallocError, LinksRead, ListUntouched, ListExact

\* The block that a worker of the buffer has reserved is in the pool: the check never
\* fails, and the block becomes the worker's.
LEMMA CheckKeeps ==
    ASSUME AllocInv, NEW t \in Threads, BufferStep, Buffer!Check(t)
    PROVE  AllocInv'
<1> USE DEF BufferStep, listVars
<1>1. pc[t] = "check" /\ allocator = "monotonic_buffer"
  BY DEF Buffer!Check
<1>2. IsFiniteSet(Issued) /\ Cardinality(Issued) = pool_begin
  BY <1>1 DEF AllocInv, OnePerCall, Taken
<1>3. pool_begin <= NumBlocks
  BY <1>2, IssuedBounded
<1>4. BoundaryHolds
  BY BoundaryIs DEF AllocInv
<1>5. ptr[t] \in Blocks
  <2>1. ptr[t] \in Nat /\ pool_begin \in Nat /\ NumBlocks \in Nat
    BY AllocBenchAssumption DEF AllocInv, Types
  <2>2. ptr[t] < pool_begin
    BY <1>1, <1>4, <2>1 DEF BoundaryHolds
  <2> QED
    BY <1>3, <2>1, <2>2 DEF Blocks
<1>6. Return(t, ptr[t]) /\ UNCHANGED <<pool_begin, ptr>>
  <2>1. ~(ptr[t] + 1 > Buffer!PoolEnd)
    BY <1>5, AllocBenchAssumption DEF Blocks, Buffer!PoolEnd
  <2> QED
    BY <2>1, BufferBench DEF Buffer!Check
<1>7. ptr[t] \notin AllOwned
  BY <1>1, AllOwnedIs DEF AllocInv, ReservedOnce
<1>8. OneEach' /\ AllOwned' = AllOwned \cup {ptr[t]}
  BY <1>5, <1>6, <1>7, ReturnsOne DEF AllocInv
<1>9. Types' /\ Places' /\ TrialBound' /\ NoMallocError' /\ LinksRead' /\ ListUntouched'
  BY <1>1, <1>5, <1>6, ReturnTypes DEF AllocInv, Types
<1>10. /\ pc'[t] = "head" /\ owned'[t] = owned[t] \cup {ptr[t]} /\ iter'[t] = iter[t] + 1
       /\ \A u \in Threads \ {t} : pc'[u] = pc[u] /\ owned'[u] = owned[u] /\ iter'[u] = iter[u]
  BY <1>6 DEF Return, Goto, AllocInv, Types, BenchTypeOK
<1>11. BoundaryMet'
  <2>1. BoundaryHolds'
    BY <1>1, <1>4, <1>6, <1>8, <1>10 DEF BoundaryHolds
  <2> QED
    BY <1>9, <2>1, BoundaryIsNext
<1>12. ReservedOnce'
  BY <1>1, <1>6, <1>10 DEF ReservedOnce, AllocInv
<1>13. OnePerCall'
  <2>1. iter[t] \in Nat /\ NPerThread \in Nat /\ iter[t] < NPerThread
          /\ \A u \in Threads : iter[u] \in Nat
    BY <1>1, NPerThreadNat DEF AllocInv, Types, BenchTypeOK, Places
  <2>2. Issued' = Issued
    BY <1>1, <1>10, <2>1 DEF Issued
  <2> QED
    BY <1>2, <1>6, <2>2, <1>1 DEF OnePerCall, Taken
<1>14. ListExact'
  BY <1>1 DEF ListExact
<1> QED
  BY <1>8, <1>9, <1>11, <1>12, <1>13, <1>14 DEF AllocInv

\* What a worker of the free list reads is a free block, for the list is not empty
\* while a call is missing.
LEMMA LoadHeadKeeps ==
    ASSUME AllocInv, NEW t \in Threads, ListStep, List!LoadHead(t)
    PROVE  AllocInv'
<1> USE DEF AllocInv, ListStep, bufferVars
<1>1. pc[t] = "alloc" /\ allocator = "free_list"
  BY DEF List!LoadHead
<1>2. head # Null
  <2>1. iter[t] \in 0..NPerThread-1 /\ <<t, iter[t]>> \notin Issued
    BY <1>1, NPerThreadNat DEF Places, Types, BenchTypeOK, Issued
  <2>2. Cardinality(Issued) < NumBlocks
    BY <1>1, <2>1, IssuedBounded DEF OnePerCall
  <2>3. Cardinality(Issued) = Taken
    BY <1>1 DEF OnePerCall
  <2> QED
    BY <1>1, <2>2, <2>3, AllocBenchAssumption DEF Taken
<1>3. /\ pc' = [pc EXCEPT ![t] = "next"] /\ my_block' = [my_block EXCEPT ![t] = head]
      /\ UNCHANGED <<phase, trial, iter, owned, head, next_block>>
  BY <1>2, ListBench DEF List!LoadHead, Goto
<1>4. Types'
  BY <1>3 DEF Types, Labels, BenchTypeOK
<1>5. \A u \in Threads : pc'[u] = "check" <=> pc[u] = "check"
  BY <1>1, <1>3 DEF Types
<1>6. Places' /\ LinksRead' /\ TrialBound' /\ NoMallocError'
  BY <1>1, <1>2, <1>3 DEF Types, Places, LinksRead, TrialBound, NoMallocError
<1> QED
  BY <1>3, <1>4, <1>5, <1>6, MovesOnly

\* Then it reads the link of that block ...
LEMMA LoadNextKeeps ==
    ASSUME AllocInv, NEW t \in Threads, ListStep, List!LoadNext(t)
    PROVE  AllocInv'
<1> USE DEF AllocInv, ListStep, bufferVars
<1>1. /\ pc[t] = "next" /\ pc' = [pc EXCEPT ![t] = "cas"]
      /\ next_block' = [next_block EXCEPT ![t] = List!NextLink(my_block[t])]
      /\ UNCHANGED <<phase, trial, iter, owned, head, my_block>>
  BY DEF List!LoadNext, List!Goto
<1>2. List!NextLink(my_block[t]) \in Blocks \cup {Null}
  BY <1>1, AllocBenchAssumption DEF LinksRead, Types, List!NextLink, Blocks
<1>3. Types'
  BY <1>1, <1>2 DEF Types, Labels, BenchTypeOK
<1>4. \A u \in Threads : pc'[u] = "check" <=> pc[u] = "check"
  BY <1>1 DEF Types
<1>5. Places' /\ LinksRead' /\ TrialBound' /\ NoMallocError'
  BY <1>1 DEF Types, Places, LinksRead, TrialBound, NoMallocError
<1> QED
  BY <1>1, <1>3, <1>4, <1>5, MovesOnly

\* ... or starts again.
LEMMA CasFailsKeeps ==
    ASSUME AllocInv, NEW t \in Threads, ListStep, List!CasFails(t)
    PROVE  AllocInv'
<1> USE DEF AllocInv, ListStep, bufferVars
<1>1. /\ pc[t] = "cas" /\ pc' = [pc EXCEPT ![t] = "alloc"]
      /\ UNCHANGED <<phase, trial, iter, owned, head, my_block, next_block>>
  BY DEF List!CasFails, List!Goto
<1>2. Types'
  BY <1>1 DEF Types, Labels, BenchTypeOK
<1>3. \A u \in Threads : pc'[u] = "check" <=> pc[u] = "check"
  BY <1>1 DEF Types
<1>4. Places' /\ LinksRead' /\ TrialBound' /\ NoMallocError'
  BY <1>1 DEF Types, Places, LinksRead, TrialBound, NoMallocError
<1> QED
  BY <1>1, <1>2, <1>3, <1>4, MovesOnly

\* The compare-and-swap takes the first block of the list, and only that: since no
\* link changes, the new head is the block behind it however long ago it was read.
LEMMA CasSucceedsKeeps ==
    ASSUME AllocInv, NEW t \in Threads, ListStep, List!CasSucceeds(t)
    PROVE  AllocInv'
<1> USE DEF ListStep, bufferVars
<1> DEFINE b == my_block[t]
<1>1. /\ pc[t] = "cas" /\ allocator = "free_list" /\ head = b
      /\ head' = next_block[t] /\ Return(t, b)
      /\ UNCHANGED <<my_block, next_block>>
  BY ListBench DEF List!CasSucceeds
<1>2. b \in Blocks /\ next_block[t] = List!NextLink(b)
  BY <1>1 DEF AllocInv, Types, LinksRead
<1>3. /\ b \in Nat /\ b < NumBlocks /\ NumBlocks \in Nat
      /\ head' = IF b + 1 < NumBlocks THEN b + 1 ELSE Null
      /\ Null \notin Nat
  BY <1>1, <1>2, AllocBenchAssumption DEF Blocks, List!NextLink
<1>4. ListHolds
  BY ListIs DEF AllocInv
<1>5. b \notin AllOwned
  BY <1>1, <1>2, <1>3, <1>4 DEF ListHolds
<1>6. OneEach' /\ AllOwned' = AllOwned \cup {b}
  BY <1>1, <1>2, <1>5, ReturnsOne DEF AllocInv
<1>7. Types' /\ Places' /\ TrialBound' /\ NoMallocError' /\ LinksRead' /\ ListUntouched'
  <2>1. head' \in Blocks \cup {Null}
    BY <1>3 DEF Blocks
  <2> QED
    BY <1>1, <1>2, <2>1, ReturnTypes DEF AllocInv, Types
<1>8. ListExact'
  <2>1. ListHolds'
    <3>1. \A n \in Blocks : (head' # Null /\ head' <= n) <=> (b <= n /\ n # b)
      BY <1>3 DEF Blocks
    <3> QED
      BY <1>1, <1>3, <1>4, <1>6, <3>1 DEF ListHolds
  <2> QED
    BY <1>6, <1>7, <2>1, ListIsNext
<1>9. OnePerCall'
  <2>1. iter[t] \in 0..NPerThread-1
    BY <1>1, NPerThreadNat DEF AllocInv, Places, Types, BenchTypeOK
  <2>2. \A u \in Threads : pc[u] # "check" /\ iter[u] \in Nat
    BY <1>1 DEF AllocInv, Places, Types, BenchTypeOK
  <2>3. /\ pc'[t] = "head" /\ iter'[t] = iter[t] + 1
        /\ \A u \in Threads \ {t} : pc'[u] = pc[u] /\ iter'[u] = iter[u]
    BY <1>1 DEF Return, Goto, AllocInv, Types, BenchTypeOK
  <2>4. <<t, iter[t]>> \notin Issued /\ Issued' = Issued \cup {<<t, iter[t]>>}
    BY <2>1, <2>2, <2>3 DEF Issued
  <2>5. IsFiniteSet(Issued) /\ Cardinality(Issued) = b
    BY <1>1, <1>2, <1>3 DEF AllocInv, OnePerCall, Taken
  <2>6. IsFiniteSet(Issued') /\ Cardinality(Issued') = b + 1
    BY <2>4, <2>5, FS_AddElement
  <2>7. Taken' = b + 1
    BY <1>1, <1>3 DEF Taken
  <2> QED
    BY <2>6, <2>7 DEF OnePerCall
<1>10. ReservedOnce' /\ BoundaryMet'
  BY <1>1, <1>7 DEF ReservedOnce, BoundaryMet, Places
<1> QED
  BY <1>6, <1>7, <1>8, <1>9, <1>10 DEF AllocInv

\* Every step keeps the invariant.
LEMMA AllocInvStep == AllocInv /\ [Next]_vars => AllocInv'
<1> SUFFICES ASSUME AllocInv, [Next]_vars PROVE AllocInv'
  OBVIOUS
<1>1. CASE MallocStep /\ Sync
  BY <1>1, SyncKeeps DEF MallocStep, bufferVars, listVars
<1>2. ASSUME NEW t \in Threads, MallocStep, Spawn(t) PROVE AllocInv'
  BY <1>2, SpawnKeeps DEF MallocStep
<1>3. ASSUME NEW t \in Threads, MallocStep, Head(t) PROVE AllocInv'
  BY <1>3, HeadKeeps DEF MallocStep
<1>4. CASE BufferStep /\ Buffer!Main
  <2>1. CASE Buffer!SyncTrial
    BY <1>4, <2>1, BufferBench, SyncKeeps DEF BufferStep, Buffer!SyncTrial, listVars
  <2>2. ASSUME NEW t \in Threads, Buffer!Spawn(t), UNCHANGED bufferVars PROVE AllocInv'
    BY <1>4, <2>2, BufferBench, SpawnKeeps DEF BufferStep
  <2> QED
    BY <1>4, <2>1, <2>2 DEF Buffer!Main, bufferVars
<1>5. ASSUME NEW t \in Threads, BufferStep, Buffer!Worker(t) PROVE AllocInv'
  <2>1. CASE Buffer!Head(t) /\ UNCHANGED bufferVars
    BY <1>5, <2>1, BufferBench, HeadKeeps DEF BufferStep
  <2> QED
    BY <1>5, <2>1, ReserveKeeps, CheckKeeps DEF Buffer!Worker, bufferVars
<1>6. CASE ListStep /\ List!Main
  <2>1. CASE List!SyncTrial
    BY <1>6, <2>1, ListBench, SyncKeeps DEF ListStep, List!SyncTrial, bufferVars
  <2>2. ASSUME NEW t \in Threads, List!Spawn(t), UNCHANGED listVars PROVE AllocInv'
    BY <1>6, <2>2, ListBench, SpawnKeeps DEF ListStep
  <2> QED
    BY <1>6, <2>1, <2>2 DEF List!Main, listVars
<1>7. ASSUME NEW t \in Threads, ListStep, List!Worker(t) PROVE AllocInv'
  <2>1. CASE List!Head(t) /\ UNCHANGED listVars
    BY <1>7, <2>1, ListBench, HeadKeeps DEF ListStep
  <2> QED
    BY <1>7, <2>1, LoadHeadKeeps, LoadNextKeeps, CasSucceedsKeeps, CasFailsKeeps
       DEF List!Worker, listVars
<1>8. CASE UNCHANGED vars
  <2>1. UNCHANGED <<allocator, phase, trial, pc, iter, owned, pool_begin, ptr, head,
                    my_block, next_block>>
    BY <1>8 DEF vars, benchVars, bufferVars, listVars
  <2>2. Types' /\ Places' /\ LinksRead' /\ TrialBound' /\ NoMallocError'
    BY <2>1 DEF AllocInv, Types, BenchTypeOK, Places, LinksRead, TrialBound, NoMallocError
  <2> QED
    BY <2>1, <2>2, MovesOnly DEF AllocInv
<1> QED
  BY <1>1, <1>2, <1>3, <1>4, <1>5, <1>6, <1>7, <1>8, MallocKeeps, NextAllocatorKeeps
     DEF Next, Main, Worker, Stopped

\* The types, the blocks and the pools are as described in every state.
THEOREM AllocInvariant == Spec => []AllocInv
BY AllocInvInit, AllocInvStep, PTL DEF Spec

\* Every alloc() of every allocator returned a block of the pool that no other alloc()
\* of the trial returned: neither the atomic add nor the compare-and-swap loop gives a
\* block to two workers, or to one of them twice.
THEOREM AllocDistinctBlocks == Spec => []DistinctBlocks
BY AllocInvariant, PTL DEF AllocInv, OneEach

\* pool_begin separates the blocks that a worker has or has reserved from the others,
\* never passes pool_end, because the calls of a trial together take no more than
\* num_blocks, and the check against pool_end refuses no block.
THEOREM AllocBoundaryExact == Spec => []BoundaryExact
<1>1. AllocInv => BoundaryExact
  <2> SUFFICES ASSUME AllocInv, allocator = "monotonic_buffer"
               PROVE  Buffer!BoundaryExact
    BY DEF BoundaryExact
  <2>1. 0..pool_begin-1 = Buffer!Reserved \cup UNION {owned[t] : t \in Threads}
    BY DEF AllocInv, BoundaryMet
  <2>2. IsFiniteSet(Issued) /\ Cardinality(Issued) = pool_begin
    BY DEF AllocInv, OnePerCall, Taken
  <2>3. pool_begin <= NumBlocks /\ phase # "error"
    BY <2>2, IssuedBounded DEF AllocInv, NoMallocError
  <2> QED
    BY <2>1, <2>3 DEF Buffer!BoundaryExact, Buffer!PoolEnd
<1> QED
  BY <1>1, AllocInvariant, PTL

\* No block is lost from the free list and none is on it that a worker has.
THEOREM AllocListExact == Spec => []ListExact
BY AllocInvariant, PTL DEF AllocInv

\* RELEASE(1, 3) is never reached: with n_per_thread rounded down, and each call taking
\* one block, a pool of num_blocks is enough for every trial.
THEOREM AllocNoMallocError == Spec => []NoMallocError
BY AllocInvariant, PTL DEF AllocInv

-----------------------------------------------------------------------------
(* The refinement of BlockPool *)

\* No block is reserved without being returned.
NoneReserved == \A t \in Threads : pc[t] # "check"

\* Then what was returned is what was handed out.
LEMMA NothingReserved == NoneReserved /\ Types => PoolOwned = owned
<1> SUFFICES ASSUME NoneReserved, Types PROVE PoolOwned = owned
  OBVIOUS
<1>1. Buffer!HandedOut = [t \in Threads |-> owned[t]]
  BY DEF Buffer!HandedOut, NoneReserved
<1>2. owned = [t \in Threads |-> owned[t]]
  BY DEF Types, BenchTypeOK
<1> QED
  BY <1>1, <1>2 DEF PoolOwned

\* The same after a step.
LEMMA NothingReservedNext == NoneReserved' /\ Types' => (PoolOwned = owned)'
BY NothingReserved, PTL

\* A step that hands out nothing is a stuttering step of BlockPool ...
LEMMA PoolStutters ==
    ASSUME AllocInv, AllocInv', PoolOwned' = PoolOwned
    PROVE  UNCHANGED Pool!vars
BY DEF Pool!vars, AllocInv, NoMallocError

\* ... a new allocator is a new pool ...
LEMMA PoolRecreated ==
    ASSUME AllocInv, AllocInv', owned' = [t \in Threads |-> {}], NoneReserved'
    PROVE  Pool!Recreate
<1>1. PoolOwned' = [t \in Threads |-> {}]
  BY NothingReservedNext DEF AllocInv
<1> QED
  BY <1>1 DEF Pool!Recreate, AllocInv, NoMallocError

\* ... and one that hands out a block of the pool that nobody has is Alloc.
LEMMA PoolAllocates ==
    ASSUME AllocInv, AllocInv', NEW t \in Threads, NEW b \in Blocks,
           \A u \in Threads : b \notin PoolOwned[u],
           PoolOwned' = [PoolOwned EXCEPT ![t] = @ \cup {b}]
    PROVE  Pool!Alloc(t, b)
<1>1. b \in Pool!Free
  BY DEF Pool!Free
<1> QED
  BY <1>1 DEF Pool!Alloc, AllocInv, NoMallocError

\* Spawning and the loop test hand out nothing.
LEMMA PoolIdle ==
    ASSUME AllocInv, AllocInv', UNCHANGED <<allocator, owned, ptr>>,
           \A t \in Threads : pc'[t] = "check" <=> pc[t] = "check"
    PROVE  UNCHANGED Pool!vars
<1>1. PoolOwned' = PoolOwned
  BY DEF PoolOwned, Buffer!HandedOut, Buffer!PoolEnd
<1> QED
  BY <1>1, PoolStutters

\* The end of a trial hands out nothing either, or is the start of the next trial.
LEMMA PoolSyncs ==
    ASSUME AllocInv, AllocInv', Sync, UNCHANGED <<allocator, ptr>>
    PROVE  [Pool!Next]_(Pool!vars)
<1>1. NoneReserved
  BY DEF Sync, NoneReserved
<1>2. CASE trial + 1 < NumTrials
  <2>1. owned' = [t \in Threads |-> {}] /\ NoneReserved'
    BY <1>2 DEF Sync, NoneReserved
  <2> QED
    BY <2>1, PoolRecreated DEF Pool!Next
<1>3. CASE ~(trial + 1 < NumTrials)
  BY <1>3, PoolIdle DEF Sync
<1> QED
  BY <1>2, <1>3

\* malloc and the free list hand a block out when they return it.
LEMMA PoolReturns ==
    ASSUME AllocInv, AllocInv', allocator # "monotonic_buffer", UNCHANGED allocator,
           NEW t \in Threads, NEW b \in Blocks, b \notin AllOwned, Return(t, b)
    PROVE  Pool!Alloc(t, b)
<1>1. PoolOwned = owned /\ PoolOwned' = owned'
  BY DEF PoolOwned
<1>2. owned' = [owned EXCEPT ![t] = @ \cup {b}]
  BY DEF Return
<1> QED
  BY <1>1, <1>2, AllOwnedIs, PoolAllocates

\* The buffer hands it out with the atomic add.
LEMMA PoolReserves ==
    ASSUME AllocInv, AllocInv', NEW t \in Threads, BufferStep, Buffer!Reserve(t)
    PROVE  Pool!Alloc(t, pool_begin)
<1> USE DEF BufferStep, Buffer!Reserve, Buffer!Goto
<1>1. /\ pool_begin' = pool_begin + 1
      /\ pc[t] = "alloc" /\ pc'[t] = "check" /\ ptr'[t] = pool_begin
      /\ \A u \in Threads \ {t} : pc'[u] = pc[u] /\ ptr'[u] = ptr[u]
  BY DEF AllocInv, Types
<1>2. pool_begin \in Blocks
  <2>1. pool_begin \in Nat /\ NumBlocks \in Nat
    BY AllocBenchAssumption DEF AllocInv, Types
  <2>2. IsFiniteSet(Issued') /\ Cardinality(Issued') = pool_begin'
    BY DEF AllocInv, OnePerCall, Taken
  <2>3. pool_begin' <= NumBlocks
    BY <2>2, IssuedBoundedNext
  <2> QED
    BY <1>1, <2>1, <2>3 DEF Blocks
<1>3. PoolOwned = [u \in Threads |-> owned[u] \cup
                     (IF pc[u] = "check" /\ ptr[u] < NumBlocks THEN {ptr[u]} ELSE {})]
  BY DEF PoolOwned, Buffer!HandedOut, Buffer!PoolEnd
<1>4. PoolOwned' = [u \in Threads |-> owned[u] \cup
                      (IF pc'[u] = "check" /\ ptr'[u] < NumBlocks THEN {ptr'[u]} ELSE {})]
  BY DEF PoolOwned, Buffer!HandedOut, Buffer!PoolEnd
<1>5. \A u \in Threads : pool_begin \notin PoolOwned[u]
  <2>1. pool_begin \in Nat /\ BoundaryHolds
    BY BoundaryIs DEF AllocInv, Types
  <2>2. \A u \in Threads : pool_begin \notin owned[u] /\ (pc[u] = "check" => ptr[u] # pool_begin)
    BY <2>1, AllOwnedIs DEF BoundaryHolds
  <2> QED
    BY <1>3, <2>2
<1>6. PoolOwned' = [PoolOwned EXCEPT ![t] = @ \cup {pool_begin}]
  <2>1. pool_begin < NumBlocks
    BY <1>2, AllocBenchAssumption DEF Blocks
  <2>2. PoolOwned'[t] = PoolOwned[t] \cup {pool_begin}
    BY <1>1, <1>3, <1>4, <2>1
  <2>3. \A u \in Threads \ {t} : PoolOwned'[u] = PoolOwned[u]
    BY <1>1, <1>3, <1>4
  <2>4. PoolOwned = [u \in Threads |-> PoolOwned[u]] /\ PoolOwned' = [u \in Threads |-> PoolOwned'[u]]
    BY <1>3, <1>4
  <2> HIDE DEF BufferStep, Buffer!Reserve, Buffer!Goto
  <2> QED
    BY <2>2, <2>3, <2>4
<1> QED
  BY <1>2, <1>5, <1>6, PoolAllocates

\* Returning a reserved block hands out nothing.
LEMMA PoolChecks ==
    ASSUME AllocInv, AllocInv', NEW t \in Threads, BufferStep, Buffer!Check(t)
    PROVE  UNCHANGED Pool!vars
<1> USE DEF BufferStep
<1>1. Return(t, ptr[t]) /\ UNCHANGED ptr /\ pc[t] = "check"
  BY BufferBench DEF Buffer!Check, AllocInv, NoMallocError, Buffer!Abort
<1>2. /\ pc'[t] = "head" /\ owned'[t] = owned[t] \cup {ptr[t]} /\ ptr[t] < NumBlocks
      /\ \A u \in Threads \ {t} : pc'[u] = pc[u] /\ owned'[u] = owned[u]
  <2>1. ~(ptr[t] + 1 > NumBlocks)
    BY DEF Buffer!Check, Buffer!PoolEnd, AllocInv, NoMallocError, Buffer!Abort
  <2> QED
    BY <1>1, <2>1, AllocBenchAssumption DEF Return, Goto, AllocInv, Types, BenchTypeOK
<1>3. \A u \in Threads :
         owned'[u] \cup (IF pc'[u] = "check" /\ ptr'[u] < NumBlocks THEN {ptr'[u]} ELSE {})
       = owned[u] \cup (IF pc[u] = "check" /\ ptr[u] < NumBlocks THEN {ptr[u]} ELSE {})
  BY <1>1, <1>2
<1>4. PoolOwned' = PoolOwned
  BY <1>3 DEF PoolOwned, Buffer!HandedOut, Buffer!PoolEnd
<1> QED
  BY <1>4, PoolStutters

\* The initial states are initial states of the pool.
LEMMA PoolInitMapped == Init => Pool!Init
<1> SUFFICES ASSUME Init PROVE Pool!Init
  OBVIOUS
<1>1. /\ allocator = "mallocator" /\ phase = "spawn"
      /\ owned = [t \in Threads |-> {}]
  BY DEF Init, Buffer!Init, Buffer!BenchInit
<1> QED
  BY <1>1 DEF Pool!Init, PoolOwned

\* Every step of the benchmark is a step of the pool or a stuttering step.
LEMMA PoolStepMapped == AllocInv /\ AllocInv' /\ [Next]_vars => [Pool!Next]_(Pool!vars)
<1> SUFFICES ASSUME AllocInv, AllocInv', [Next]_vars PROVE [Pool!Next]_(Pool!vars)
  OBVIOUS
<1>1. ASSUME NEW t \in Threads, Spawn(t) \/ Head(t), UNCHANGED <<allocator, ptr>>
      PROVE  UNCHANGED Pool!vars
  <2>1. UNCHANGED owned /\ \A u \in Threads : pc'[u] = "check" <=> pc[u] = "check"
    BY <1>1 DEF Spawn, Head, Goto, AllocInv, Types
  <2> QED
    BY <1>1, <2>1, PoolIdle
<1>2. ASSUME NEW t \in Threads, MallocStep, Malloc(t) PROVE Pool!Next
  <2>1. PICK b \in Blocks : 0..b-1 = AllOwned /\ Return(t, b)
    BY <1>2 DEF Malloc, AllOwned
  <2>2. b \notin AllOwned
    BY <2>1 DEF Blocks
  <2> QED
    BY <1>2, <2>1, <2>2, PoolReturns DEF MallocStep, Pool!Next
<1>3. ASSUME NEW t \in Threads, ListStep, List!CasSucceeds(t) PROVE Pool!Next
  <2>1. /\ pc[t] = "cas" /\ allocator = "free_list" /\ head = my_block[t]
        /\ Return(t, my_block[t])
    BY <1>3, ListBench DEF List!CasSucceeds, ListStep
  <2>2. my_block[t] \in Blocks
    BY <2>1 DEF AllocInv, Types, LinksRead
  <2>3. my_block[t] \notin AllOwned
    BY <2>1, <2>2, ListIs, AllocBenchAssumption DEF AllocInv, ListHolds, Blocks
  <2> QED
    BY <1>3, <2>1, <2>2, <2>3, PoolReturns DEF ListStep, Pool!Next
<1>4. ASSUME NEW t \in Threads, BufferStep, Buffer!Reserve(t) PROVE Pool!Next
  <2>1. pool_begin \in Blocks
    <3>1. Pool!Alloc(t, pool_begin)
      BY <1>4, PoolReserves
    <3> QED
      BY <3>1 DEF Pool!Alloc, Pool!Free
  <2> QED
    BY <1>4, <2>1, PoolReserves DEF Pool!Next
<1>5. ASSUME NEW t \in Threads, ListStep,
             List!LoadHead(t) \/ List!LoadNext(t) \/ List!CasFails(t)
      PROVE  UNCHANGED Pool!vars
  <2>1. PoolOwned' = PoolOwned
    BY <1>5 DEF ListStep, PoolOwned, AllocInv, NoMallocError,
       List!LoadHead, List!LoadNext, List!CasFails, List!Abort
  <2> QED
    BY <2>1, PoolStutters
<1>6. ASSUME NextAllocator PROVE Pool!Next
  <2>1. owned' = [t \in Threads |-> {}] /\ NoneReserved'
    BY <1>6 DEF NextAllocator, BenchRestart, NoneReserved
  <2> QED
    BY <2>1, PoolRecreated DEF Pool!Next
<1>7. ASSUME UNCHANGED vars PROVE UNCHANGED Pool!vars
  BY <1>7, PoolIdle DEF vars, benchVars, bufferVars
<1>8. ASSUME MallocStep \/ BufferStep \/ ListStep, Main PROVE [Pool!Next]_(Pool!vars)
  <2>1. UNCHANGED <<allocator, ptr>>
          /\ (Sync \/ \E t \in Threads : Spawn(t))
    BY <1>8, BufferBench, ListBench
       DEF MallocStep, BufferStep, ListStep, Main, Buffer!Main, List!Main,
           Buffer!SyncTrial, List!SyncTrial, bufferVars, listVars
  <2> QED
    BY <1>1, <2>1, PoolSyncs
<1>9. ASSUME NEW t \in Threads, Worker(t) PROVE [Pool!Next]_(Pool!vars)
  <2>1. CASE MallocStep
    BY <1>1, <1>2, <1>9, <2>1 DEF Worker, MallocStep, BufferStep, ListStep, bufferVars
  <2>2. CASE BufferStep
    BY <1>1, <1>4, <1>9, <2>2, PoolChecks, BufferBench
       DEF Worker, MallocStep, BufferStep, ListStep, Buffer!Worker
  <2>3. CASE ListStep
    BY <1>1, <1>3, <1>5, <1>9, <2>3, ListBench
       DEF Worker, MallocStep, BufferStep, ListStep, List!Worker, bufferVars
  <2> QED
    BY <1>9, <2>1, <2>2, <2>3 DEF Worker
<1> QED
  BY <1>6, <1>7, <1>8, <1>9 DEF Next, Main, Stopped

\* Each allocator, and the change from one trial or allocator to the next, implements
\* a pool of blocks: a block goes to one caller only, and no call fails early.
THEOREM AllocImplementsBlockPool == Spec => ImplementsBlockPool
<1>1. AllocInv /\ [Next]_vars => AllocInv'
  BY AllocInvStep
<1> QED
  BY AllocInvInit, <1>1, PoolInitMapped, PoolStepMapped, PTL
     DEF Spec, ImplementsBlockPool, Pool!Spec
=============================================================================
