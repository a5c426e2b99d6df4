------------------------------ MODULE ForEach ------------------------------
(***************************************************************************)
(* What every parallel loop of the benchmarks promises: the loop body runs *)
(* once for each index 0..n-1, in any order, and the loop ends after the   *)
(* last one.                                                               *)
(***************************************************************************)
EXTENDS Naturals

VARIABLES n,      \* number of iterations
          todo,   \* the indices whose body has not run yet
          ended   \* has the loop returned?

vars == <<n, todo, ended>>

Init == /\ n \in Nat
        /\ todo = 0..n-1
        /\ ended = FALSE

(* The body runs for index i. *)
Body(i) == /\ i \in todo
           /\ todo' = todo \ {i}
           /\ UNCHANGED <<n, ended>>

(* The loop returns. *)
Return == /\ ~ended
          /\ todo = {}
          /\ ended' = TRUE
          /\ UNCHANGED <<n, todo>>

Next == Return \/ \E i \in todo : Body(i)

Spec == Init /\ [][Next]_vars
=============================================================================
