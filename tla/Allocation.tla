----------------------------- MODULE Allocation -----------------------------
(***************************************************************************)
(* The benchmark of allocation.cc: run_test with malloc, with the          *)
(* monotonic buffer and with the free list, one after the other.           *)
(***************************************************************************)
EXTENDS AllocBench

VARIABLES allocator,                     \* the template argument of run_test
          pool_begin, ptr,               \* of the monotonic buffer
          head, my_block, next_block     \* of the free list

bufferVars == <<pool_begin, ptr>>
listVars   == <<head, my_block, next_block>>
vars == <<benchVars, allocator, bufferVars, listVars>>

Buffer == INSTANCE MonotonicBuffer
List   == INSTANCE FreeList

Init == /\ allocator = "mallocator"
        /\ Buffer!Init
        /\ List!Init

\* A step of run_test with one allocator leaves the others' state alone.
MallocStep == /\ allocator = "mallocator"
              /\ UNCHANGED <<allocator, bufferVars, listVars>>

BufferStep == /\ allocator = "monotonic_buffer"
              /\ UNCHANGED <<allocator, listVars>>

ListStep == /\ allocator = "free_list"
            /\ UNCHANGED <<allocator, bufferVars>>

\* mallocator: malloc returns a block that nobody has.  Its blocks are numbered in
\* the order in which it returns them.
Malloc(t) ==
    /\ pc[t] = "alloc"
    /\ \E b \in Blocks : /\ 0..b-1 = UNION {owned[u] : u \in Threads}
                         /\ Return(t, b)

\* run_test has returned: main calls it with the next allocator.
NextAllocator ==
    /\ phase = "finished"
    /\ \/ allocator = "mallocator" /\ allocator' = "monotonic_buffer"
       \/ allocator = "monotonic_buffer" /\ allocator' = "free_list"
    /\ BenchRestart
    /\ pool_begin' = 0
    /\ ptr' = [t \in Threads |-> 0]
    /\ UNCHANGED listVars

Worker(t) == \/ MallocStep /\ (Head(t) \/ Malloc(t))
             \/ BufferStep /\ Buffer!Worker(t)
             \/ ListStep /\ List!Worker(t)

Main == \/ MallocStep /\ (Sync \/ \E t \in Threads : Spawn(t))
        \/ BufferStep /\ Buffer!Main
        \/ ListStep /\ List!Main

Stopped == /\ Ended
           /\ phase = "error" \/ allocator = "free_list"
           /\ UNCHANGED vars

Next == \/ ~Ended /\ Main
        \/ ~Ended /\ \E t \in Threads : Worker(t)
        \/ NextAllocator
        \/ Stopped

Spec == Init /\ [][Next]_vars

\* Fairness: every worker, and the thread that runs main, keeps executing.
FairSpec == /\ Spec
            /\ WF_vars((~Ended /\ Main) \/ NextAllocator)
            /\ \A t \in Threads : WF_vars(~Ended /\ Worker(t))

-----------------------------------------------------------------------------
(* Properties *)

\* Types of the state of the benchmark and of the allocators.
TypeOK == /\ allocator \in {"mallocator", "monotonic_buffer", "free_list"}
          /\ allocator = "monotonic_buffer" => Buffer!TypeOK
          /\ allocator = "free_list" => List!TypeOK

\* The start of a monotonic buffer's pool is the boundary between the blocks
\* somebody has, returned or only reserved, and those nobody has, it does not pass
\* pool_end, and the block that ends exactly there is not refused.
BoundaryExact == allocator = "monotonic_buffer" => Buffer!BoundaryExact

\* A free list holds exactly the blocks that nobody has: although alloc() reads
\* head and the link in two steps and swaps in a third, no block is dropped from
\* the list and none stays on it after it was handed out.
ListExact == allocator = "free_list" => List!ListExact

\* No alloc() is aborted: the workers together ask for no more blocks than a trial's
\* pool has, none of them takes two for one call, and no trial leaves its successor
\* a pool that is already in use.
NoMallocError == phase # "error"

\* What the allocator that runs has handed out.
PoolOwned == IF allocator = "monotonic_buffer" THEN Buffer!HandedOut ELSE owned

Pool == INSTANCE BlockPool WITH owned <- PoolOwned, failed <- phase = "error"

\* All allocators are pools of blocks from which nobody gets a block that was
\* handed out before, and which fail only when they are exhausted.
ImplementsBlockPool == Pool!Spec

\* Every trial with every allocator ends and none is aborted: no worker retries for
\* ever, and no block of a pool is missing.
Termination == <>(phase = "finished" /\ allocator = "free_list")
=============================================================================
