------------------------------- MODULE Mutex -------------------------------
(***************************************************************************)
(* What the benchmark of locks.cc expects from a mutex class, whichever it *)
(* is: one thread at a time holds it, and between lock() and unlock() the  *)
(* holder adds one to the shared counter, once, without losing anybody     *)
(* else's addition.                                                        *)
(***************************************************************************)
EXTENDS Naturals

CONSTANTS Threads,  \* the worker threads
          None      \* "nobody holds the mutex"; not a thread

VARIABLES holder,   \* the thread between lock() and unlock(), or None
          updated,  \* has the holder added to the counter yet?
          counter   \* the shared counter of run_test

vars == <<holder, updated, counter>>

Init == /\ holder = None
        /\ updated = FALSE
        /\ counter = 0

(* mutex.lock() returns to t. *)
Acquire(t) == /\ holder = None
              /\ holder' = t
              /\ UNCHANGED <<updated, counter>>

(* The holder's increment takes effect. *)
Update(t) == /\ holder = t
             /\ ~updated
             /\ updated' = TRUE
             /\ counter' = counter + 1
             /\ UNCHANGED holder

(* The holder gives the mutex up; whoever is next still has to acquire it. *)
Release(t) == /\ holder = t
              /\ updated
              /\ holder' = None
              /\ updated' = FALSE
              /\ UNCHANGED counter

(* The next trial resets the counter, and finds the mutex free. *)
Restart == /\ holder = None
           /\ counter' = 0
           /\ UNCHANGED <<holder, updated>>

Next == \/ \E t \in Threads : Acquire(t) \/ Update(t) \/ Release(t)
        \/ Restart

Spec == Init /\ [][Next]_vars
=============================================================================
