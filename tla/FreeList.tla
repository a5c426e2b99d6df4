------------------------------ MODULE FreeList ------------------------------
(***************************************************************************)
(* free_list_allocator of allocation.cc: the blocks are chained in a list  *)
(* and alloc() takes the first one with a compare-and-swap on head, after  *)
(* it has read head and the first block's next link in two earlier steps.  *)
(* dealloc() does nothing, so that no block ever comes back.               *)
(***************************************************************************)
EXTENDS AllocBench

VARIABLES head,       \* the first free block, or Null
          my_block,   \* local variables of alloc()
          next_block

vars == <<benchVars, head, my_block, next_block>>

\* The constructor chains the blocks in the order of their addresses; nobody
\* writes to a block afterwards.
NextLink(b) == IF b + 1 < NumBlocks THEN b + 1 ELSE Null

Init == /\ BenchInit
        /\ head = 0
        /\ my_block = [t \in Threads |-> Null]
        /\ next_block = [t \in Threads |-> Null]

\* my_block = head; if (my_block == nullptr) RELEASE(1, 3);
LoadHead(t) == /\ pc[t] = "alloc"
               /\ my_block' = [my_block EXCEPT ![t] = head]
               /\ IF head = Null
                  THEN Abort
                  ELSE Goto(t, "next") /\ UNCHANGED <<phase, trial, iter, owned>>
               /\ UNCHANGED <<head, next_block>>

\* next_block = my_block->next
LoadNext(t) == /\ pc[t] = "next"
               /\ next_block' = [next_block EXCEPT ![t] = NextLink(my_block[t])]
               /\ Goto(t, "cas")
               /\ UNCHANGED <<phase, trial, iter, owned, head, my_block>>

\* Mutant: head is stored without the comparison.
CasAlways(t) == /\ pc[t] = "cas"
                /\ head' = next_block[t]
                /\ Return(t, my_block[t])
                /\ UNCHANGED <<my_block, next_block>>

\* atomic_cas(&head, my_block, next_block) returns my_block: the block is taken.
CasSucceeds(t) == /\ pc[t] = "cas"
                  /\ head = my_block[t]
                  /\ head' = next_block[t]
                  /\ Return(t, my_block[t])
                  /\ UNCHANGED <<my_block, next_block>>

\* Mutant: the CAS is retried with the old values.
CasFailsNoReload(t) == /\ pc[t] = "cas"
                       /\ head # my_block[t]
                       /\ UNCHANGED vars

\* It returns something else: try again.
CasFails(t) == /\ pc[t] = "cas"
               /\ head # my_block[t]
               /\ Goto(t, "alloc")
               /\ UNCHANGED <<phase, trial, iter, owned, head, my_block, next_block>>

\* The next trial creates its own list.
SyncTrial == /\ Sync
             /\ IF trial' < NumTrials THEN head' = 0 ELSE UNCHANGED head
             /\ UNCHANGED <<my_block, next_block>>

Worker(t) == \/ Head(t) /\ UNCHANGED <<head, my_block, next_block>>
             \/ LoadHead(t) \/ LoadNext(t) \/ CasSucceeds(t) \/ CasFails(t)

Main == \/ SyncTrial
        \/ \E t \in Threads : Spawn(t) /\ UNCHANGED <<head, my_block, next_block>>

Stopped == Ended /\ UNCHANGED vars

Next == \/ ~Ended /\ Main
        \/ ~Ended /\ \E t \in Threads : Worker(t)
        \/ Stopped

Spec == Init /\ [][Next]_vars

-----------------------------------------------------------------------------
(* Properties *)

\* Types of the state of the allocator and of the benchmark.
TypeOK == /\ BenchTypeOK
          /\ pc \in [Threads -> {"unborn", "head", "alloc", "next", "cas", "done"}]
          /\ head \in Blocks \cup {Null}
          /\ my_block \in [Threads -> Blocks \cup {Null}]
          /\ next_block \in [Threads -> Blocks \cup {Null}]

\* The blocks on the list: those from head on.
Listed == IF head = Null THEN {} ELSE head..NumBlocks-1

\* The list holds exactly the blocks that nobody has: although alloc() reads
\* head and the link in two steps and swaps in a third, no block is dropped from
\* the list and none stays on it after it was handed out.
ListExact == Listed = Blocks \ UNION {owned[t] : t \in Threads}
=============================================================================
