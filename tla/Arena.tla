------------------------------- MODULE Arena -------------------------------
(***************************************************************************)
(* vector.cc: every worker appends num_iters values to a vector of its own *)
(* on each nodelet; the vectors get their storage from an arena with one   *)
(* pool per nodelet, whose allocate() is the "serial version": it reads    *)
(* next_chunk and writes it back in two steps.                             *)
(*                                                                         *)
(* The vectors are std::vector, which is not in this repository: when it   *)
(* is full it allocates a chunk twice as large (1 at first) and copies its *)
(* elements there; deallocate() of the arena does nothing.  Addresses      *)
(* count longs from the start of a nodelet's pool.  The arena's 2 GB are   *)
(* not modelled as a bound: allocate() checks none.  The elements are left *)
(* out: every element on a nodelet is the nodelet's number, so that chunks *)
(* that overlap hold the right values all the same.  A worker that has not *)
(* been spawned yet is one that has not moved yet.                         *)
(***************************************************************************)
EXTENDS Naturals

CONSTANTS Threads,      \* the workers
          NumNodelets,  \* NODELETS()
          NumIters      \* num_iters

ASSUME ArenaAssumption == /\ NumNodelets \in Nat \ {0}
                          /\ NumIters \in Nat \ {0}

VARIABLES next_chunk,  \* next free address of each nodelet's pool
          vec,         \* the vector of each worker on each nodelet
          iter, nlet,  \* loop variables of each worker
          pc,          \* program counter of each worker
          ptr,         \* local variable of allocate()
          raced        \* history: have two calls of allocate() on this nodelet overlapped?

arenaVars == <<next_chunk, vec, iter, nlet, pc, ptr, raced>>

Nlets == 0..NumNodelets-1

\* The addresses of a vector's chunk.
Chunk(v) == v.addr .. v.addr + v.cap - 1

ArenaInit == /\ next_chunk = [k \in Nlets |-> 0]
             /\ vec = [t \in Threads |-> [k \in Nlets |->
                          [addr |-> 0, size |-> 0, cap |-> 0]]]
             /\ iter = [t \in Threads |-> 0]
             /\ nlet = [t \in Threads |-> 0]
             /\ pc = [t \in Threads |-> "push"]
             /\ ptr = [t \in Threads |-> 0]
             /\ raced = [k \in Nlets |-> FALSE]

MyVec(t) == vec[t][nlet[t]]

\* The vector's capacity after its next growth.
Doubled(v) == IF v.cap = 0 THEN 1 ELSE 2 * v.cap

\* The two loops of worker: the next nodelet, then the next iteration.
Advance(t) ==
    LET last == nlet[t] = NumNodelets - 1
    IN  /\ nlet' = [nlet EXCEPT ![t] = IF last THEN 0 ELSE @ + 1]
        /\ iter' = [iter EXCEPT ![t] = IF last THEN @ + 1 ELSE @]
        /\ pc' = [pc EXCEPT ![t] = IF last /\ iter[t] + 1 = NumIters
                                   THEN "done" ELSE "push"]

\* The value becomes the last element of v, which replaces the worker's vector.
Append(t, v) ==
    /\ vec' = [vec EXCEPT ![t][nlet[t]] = [v EXCEPT !.size = @ + 1]]
    /\ Advance(t)

\* push_back(nlet) on a vector that has room.
PushBack(t) ==
    /\ pc[t] = "push"
    /\ MyVec(t).size < MyVec(t).cap
    /\ Append(t, MyVec(t))
    /\ UNCHANGED <<next_chunk, ptr, raced>>

\* Is another worker between reading and advancing next_chunk of nodelet k?
InAllocate(t, k) == \E u \in Threads \ {t} : pc[u] = "bump" /\ nlet[u] = k

\* push_back on a full vector calls allocate(n, nullptr): ptr = next_chunk ...
ReadChunk(t) ==
    /\ pc[t] = "push"
    /\ MyVec(t).size = MyVec(t).cap
    /\ ptr' = [ptr EXCEPT ![t] = next_chunk[nlet[t]]]
    /\ pc' = [pc EXCEPT ![t] = "bump"]
    /\ raced' = [raced EXCEPT ![nlet[t]] = @ \/ InAllocate(t, nlet[t])]
    /\ UNCHANGED <<next_chunk, vec, iter, nlet>>

\* Mutant: next_chunk is advanced by the elements the vector has, not by n.
BumpByOld(t) ==
    /\ pc[t] = "bump"
    /\ \E base \in {ptr[t], next_chunk[nlet[t]]} :
          next_chunk' = [next_chunk EXCEPT ![nlet[t]] = base + MyVec(t).size]
    /\ pc' = [pc EXCEPT ![t] = "grow"]
    /\ UNCHANGED <<vec, iter, nlet, ptr, raced>>

\* ... next_chunk += n.  The compiler may reuse the value it has loaded for ptr
\* or add to what is in memory by then.
BumpChunk(t) ==
    /\ pc[t] = "bump"
    /\ \E base \in {ptr[t], next_chunk[nlet[t]]} :
          next_chunk' = [next_chunk EXCEPT ![nlet[t]] = base + Doubled(MyVec(t))]
    /\ pc' = [pc EXCEPT ![t] = "grow"]
    /\ UNCHANGED <<vec, iter, nlet, ptr, raced>>

\* The vector moves to the chunk that allocate() returned and appends the value.
Grow(t) ==
    /\ pc[t] = "grow"
    /\ Append(t, [addr |-> ptr[t], size |-> MyVec(t).size, cap |-> Doubled(MyVec(t))])
    /\ UNCHANGED <<next_chunk, ptr, raced>>

Step(t) == PushBack(t) \/ ReadChunk(t) \/ BumpChunk(t) \/ Grow(t)

\* cilk_sync
Synced == \A t \in Threads : pc[t] = "done"

ArenaNext == \/ \E t \in Threads : Step(t)
             \/ Synced /\ UNCHANGED arenaVars

ArenaSpec == ArenaInit /\ [][ArenaNext]_arenaVars

-----------------------------------------------------------------------------
(* Properties *)

\* Types of the state.
ArenaTypeOK == /\ next_chunk \in [Nlets -> Nat]
               /\ vec \in [Threads -> [Nlets -> [addr : Nat, size : 0..NumIters, cap : Nat]]]
               /\ iter \in [Threads -> 0..NumIters]
               /\ nlet \in [Threads -> Nlets]
               /\ pc \in [Threads -> {"push", "bump", "grow", "done"}]
               /\ ptr \in [Threads -> Nat]
               /\ raced \in [Nlets -> BOOLEAN]

\* "Each thread gets a private vector on this nodelet": the chunks of two
\* vectors on one nodelet do not overlap.
PrivateOn(k) == \A t, u \in Threads :
                   t # u => Chunk(vec[t][k]) \cap Chunk(vec[u][k]) = {}

PrivateVectors == \A k \in Nlets : PrivateOn(k)

\* allocate() is the "serial version": as long as its calls on a nodelet do not
\* overlap in time, the vectors there are private, whatever the workers and the
\* calls on other nodelets do in the meantime.
SerialAllocations == \A k \in Nlets : ~raced[k] => PrivateOn(k)
=============================================================================
