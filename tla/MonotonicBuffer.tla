-------------------------- MODULE MonotonicBuffer --------------------------
(***************************************************************************)
(* monotonic_buffer_allocator of allocation.cc: an atomic add on the start *)
(* of the pool reserves a block, and is checked against the end of the     *)
(* pool afterwards.                                                        *)
(***************************************************************************)
EXTENDS AllocBench

VARIABLES pool_begin,  \* the next free address, relative to buffer
          ptr          \* local variable of alloc()

vars == <<benchVars, pool_begin, ptr>>

PoolEnd == NumBlocks

Init == /\ BenchInit
        /\ pool_begin = 0
        /\ ptr = [t \in Threads |-> 0]

\* Mutant: the new start of the pool is computed from a stale local value.
ReserveStale(t) == /\ pc[t] = "alloc"
                   /\ ptr' = [ptr EXCEPT ![t] = pool_begin]
                   /\ pool_begin' = ptr[t] + 1
                   /\ Goto(t, "check")
                   /\ UNCHANGED <<phase, trial, iter, owned>>

\* ptr = atomic_addms(&pool_begin, sz)
Reserve(t) == /\ pc[t] = "alloc"
              /\ ptr' = [ptr EXCEPT ![t] = pool_begin]
              /\ pool_begin' = pool_begin + 1
              /\ Goto(t, "check")
              /\ UNCHANGED <<phase, trial, iter, owned>>

\* Mutant: if (ptr + sz >= pool_end).
CheckAtEnd(t) == /\ pc[t] = "check"
                 /\ IF ptr[t] + 1 >= PoolEnd THEN Abort ELSE Return(t, ptr[t])
                 /\ UNCHANGED <<pool_begin, ptr>>

\* if (ptr + sz > pool_end) RELEASE(1, 3); return ptr;
Check(t) == /\ pc[t] = "check"
            /\ IF ptr[t] + 1 > PoolEnd THEN Abort ELSE Return(t, ptr[t])
            /\ UNCHANGED <<pool_begin, ptr>>

\* The next trial creates its own buffer.
SyncTrial == /\ Sync
             /\ IF trial' < NumTrials THEN pool_begin' = 0 ELSE UNCHANGED pool_begin
             /\ UNCHANGED ptr

Worker(t) == \/ Head(t) /\ UNCHANGED <<pool_begin, ptr>>
             \/ Reserve(t)
             \/ Check(t)

Main == \/ SyncTrial
        \/ \E t \in Threads : Spawn(t) /\ UNCHANGED <<pool_begin, ptr>>

Stopped == Ended /\ UNCHANGED vars

Next == \/ ~Ended /\ Main
        \/ ~Ended /\ \E t \in Threads : Worker(t)
        \/ Stopped

Spec == Init /\ [][Next]_vars

-----------------------------------------------------------------------------
(* Properties *)

\* Types of the state of the allocator and of the benchmark.
TypeOK == /\ BenchTypeOK
          /\ pc \in [Threads -> {"unborn", "head", "alloc", "check", "done"}]
          /\ pool_begin \in Nat
          /\ ptr \in [Threads -> Nat]

\* Blocks reserved by a worker that has not checked them yet.
Reserved == {ptr[t] : t \in {u \in Threads : pc[u] = "check"}}

\* pool_begin is the boundary between the blocks that somebody has, returned or
\* only reserved, and those nobody has; it never passes pool_end, and the check
\* against pool_end refuses none of these blocks, the last one of the pool included.
BoundaryExact == /\ 0..pool_begin-1 = Reserved \cup UNION {owned[t] : t \in Threads}
                 /\ pool_begin <= PoolEnd
                 /\ phase # "error"

\* A block belongs to its thread from the atomic add on.
HandedOut == [t \in Threads |->
                 owned[t] \cup (IF pc[t] = "check" /\ ptr[t] < PoolEnd
                                THEN {ptr[t]} ELSE {})]
=============================================================================
