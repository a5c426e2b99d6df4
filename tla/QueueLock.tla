----------------------------- MODULE QueueLock -----------------------------
(***************************************************************************)
(* The queue lock of queue_lock.h under the benchmark of LockBench.  A     *)
(* thread that finds the lock taken saves its state in a slot of the queue *)
(* (STS), gives up the inner mutex queue_lock_ and dies (RELEASE).  An     *)
(* unlocker that finds a saved state wakes it (WAKEUP) and keeps the inner *)
(* mutex locked: the thread it woke unlocks it.                            *)
(*                                                                         *)
(* After STS a thread exists twice until its first context is dead: the    *)
(* context that executed STS, which has still to unlock queue_lock_        *)
(* (remnant), and the saved state, which a WAKEUP turns into a running     *)
(* thread.  The first context still has to die after it has unlocked the   *)
(* inner mutex (dying): it may do so when the thread already runs again.   *)
(* The inner mutex is a spin mutex of the family of SpinLock (load,        *)
(* RESCHEDULE, CAS): taking it is one step here.                           *)
(***************************************************************************)
EXTENDS LockBench

CONSTANT MaxThreads      \* max_threads, the size of the queue

ASSUME MaxThreadsAssumption == MaxThreads \in Nat \ {0}

VARIABLES qlock,         \* queue_lock_.lock_
          is_locked,     \* is_locked_
          queue_pos,     \* queue_pos_, the next free slot
          queue,         \* the saved state in each slot of queue_, a thread
          slot,          \* local variable slot of lock() and of unlock()
          remnant,       \* is a context of the thread between STS and the unlock?
          dying          \* the threads with a context between it and RELEASE

lockVars == <<qlock, is_locked, queue_pos, queue, slot, remnant, dying>>
queueVars == <<benchVars, lockVars>>

Slots == 0..MaxThreads-1

QueueInit == /\ BenchInit
             /\ qlock = 0
             /\ is_locked = 0
             /\ queue_pos = 0
             /\ queue = [s \in Slots |-> None]
             /\ slot = [t \in Threads |-> 0]
             /\ remnant = [t \in Threads |-> FALSE]
             /\ dying = {}

KeepBench == UNCHANGED <<phase, trial, counter, mismatch, iter, reg>>

\* The spin loop of queue_lock_.lock().
QueueSpins(t) == /\ pc[t] \in {"lock", "unlock"}
                 /\ qlock # 0
                 /\ UNCHANGED queueVars

\* queue_lock_.lock(), at the start of lock() and of unlock().
TakeQueueLock(t) == /\ pc[t] \in {"lock", "unlock"}
                    /\ qlock = 0
                    /\ qlock' = 1
                    /\ Goto(t, IF pc[t] = "lock" THEN "enter" ELSE "leave")
                    /\ KeepBench
                    /\ UNCHANGED <<is_locked, queue_pos, queue, slot, remnant, dying>>

\* Mutant: lock() returns without giving up queue_lock_.
GrantLockKeeps(t) == /\ pc[t] \in {"granted", "woken"}
                     /\ Goto(t, "load")
                     /\ KeepBench
                     /\ UNCHANGED <<qlock, is_locked, queue_pos, queue, slot, remnant, dying>>

\* queue_lock_.unlock() as the last step of lock(), by the thread that found
\* the lock free or by a thread that has been woken up.
GrantLock(t) == /\ pc[t] \in {"granted", "woken"}
                /\ qlock' = 0
                /\ Goto(t, "load")
                /\ KeepBench
                /\ UNCHANGED <<is_locked, queue_pos, queue, slot, remnant, dying>>

\* Mutant: is_locked_ is tested but not set.
EnterFreeForgets(t) == /\ pc[t] = "enter"
                       /\ is_locked = 0
                       /\ Goto(t, "granted")
                       /\ KeepBench
                       /\ UNCHANGED <<qlock, is_locked, queue_pos, queue, slot, remnant, dying>>

\* if (!is_locked_) is_locked_ = 1;
EnterFree(t) == /\ pc[t] = "enter"
                /\ is_locked = 0
                /\ is_locked' = 1
                /\ Goto(t, "granted")
                /\ KeepBench
                /\ UNCHANGED <<qlock, queue_pos, queue, slot, remnant, dying>>

\* else slot = queue_pos_++; assert(slot < max_threads), which aborts a program
\* built without NDEBUG (a Debug build) and does nothing in any other.
EnterBusy(t) == /\ pc[t] = "enter"
                /\ is_locked # 0
                /\ slot' = [slot EXCEPT ![t] = queue_pos]
                /\ queue_pos' = queue_pos + 1
                /\ Goto(t, "reserved")
                /\ phase' \in IF queue_pos < MaxThreads THEN {phase} ELSE {phase, "error"}
                /\ UNCHANGED <<trial, counter, mismatch, iter, reg>>
                /\ UNCHANGED <<qlock, is_locked, queue, remnant, dying>>

\* STS(queue_[slot].storage): the state of t is in the queue; the context that
\* executed it goes on, as a remnant.  Past the end of queue_ it overwrites what
\* is there, and nothing can be said of the program from then on.
SaveState(t) == /\ pc[t] = "reserved"
                /\ IF slot[t] \in Slots
                   THEN /\ queue' = [queue EXCEPT ![slot[t]] = t]
                        /\ remnant' = [remnant EXCEPT ![t] = TRUE]
                        /\ Goto(t, "saved")
                        /\ UNCHANGED phase
                   ELSE /\ phase' = "wild"
                        /\ UNCHANGED <<pc, queue, remnant>>
                /\ UNCHANGED <<trial, counter, mismatch, iter, reg>>
                /\ UNCHANGED <<qlock, is_locked, queue_pos, slot, dying>>

\* queue_lock_.unlock() by the remnant, which is left with nothing but to die.
RemnantUnlocks(t) == /\ remnant[t]
                     /\ qlock' = 0
                     /\ remnant' = [remnant EXCEPT ![t] = FALSE]
                     /\ dying' = dying \cup {t}
                     /\ KeepBench
                     /\ UNCHANGED <<pc, is_locked, queue_pos, queue, slot>>

\* RELEASE(0, 0): the context ends, and the thread lives on as its saved state
\* or, once that has been woken up, as a running thread.
RemnantDies(t) == /\ t \in dying
                  /\ dying' = dying \ {t}
                  /\ UNCHANGED benchVars
                  /\ UNCHANGED <<qlock, is_locked, queue_pos, queue, slot, remnant>>

\* Mutant: slot = queue_pos_ - 1, and the slot is not given back.
LeaveToSleeperKeeps(t) == /\ pc[t] = "leave"
                          /\ queue_pos > 0
                          /\ slot' = [slot EXCEPT ![t] = queue_pos - 1]
                          /\ Goto(t, "waking")
                          /\ KeepBench
                          /\ UNCHANGED <<qlock, is_locked, queue_pos, queue, remnant, dying>>

\* if (queue_pos_ > 0) slot = --queue_pos_;
LeaveToSleeper(t) == /\ pc[t] = "leave"
                     /\ queue_pos > 0
                     /\ slot' = [slot EXCEPT ![t] = queue_pos - 1]
                     /\ queue_pos' = queue_pos - 1
                     /\ Goto(t, "waking")
                     /\ KeepBench
                     /\ UNCHANGED <<qlock, is_locked, queue, remnant, dying>>

\* Mutant: the waker unlocks queue_lock_ as every other path does.
WakeUpUnlocks(t) == /\ pc[t] = "waking"
                    /\ \E u \in Threads :
                          /\ u = queue[slot[t]]
                          /\ pc[u] = "saved"
                          /\ pc' = [pc EXCEPT ![u] = "woken", ![t] = "head"]
                    /\ qlock' = 0
                    /\ Returned(t)
                    /\ UNCHANGED <<is_locked, queue_pos, queue, slot, remnant, dying>>

\* while (!WAKEUP(queue_[slot].storage)): repeated until the state in the slot
\* is one that can be woken.  unlock() returns without unlocking queue_lock_.
WakeUp(t) == /\ pc[t] = "waking"
             /\ \E u \in Threads :
                   /\ u = queue[slot[t]]
                   /\ pc[u] = "saved"
                   /\ pc' = [pc EXCEPT ![u] = "woken", ![t] = "head"]
             /\ Returned(t)
             /\ UNCHANGED lockVars

\* Mutant: the lock is freed without looking at the queue.
LeaveFreeAnyway(t) == /\ pc[t] = "leave"
                      /\ is_locked' = 0
                      /\ Goto(t, "freed")
                      /\ KeepBench
                      /\ UNCHANGED <<qlock, queue_pos, queue, slot, remnant, dying>>

\* else is_locked_ = 0 ...
LeaveFree(t) == /\ pc[t] = "leave"
                /\ queue_pos = 0
                /\ is_locked' = 0
                /\ Goto(t, "freed")
                /\ KeepBench
                /\ UNCHANGED <<qlock, queue_pos, queue, slot, remnant, dying>>

\* ... and queue_lock_.unlock().
FreeQueueLock(t) == /\ pc[t] = "freed"
                    /\ qlock' = 0
                    /\ Goto(t, "head")
                    /\ Returned(t)
                    /\ UNCHANGED <<is_locked, queue_pos, queue, slot, remnant, dying>>

QueueStep(t) == \/ QueueSpins(t) \/ TakeQueueLock(t) \/ GrantLock(t)
                \/ EnterFree(t) \/ EnterBusy(t) \/ SaveState(t)
                \/ RemnantUnlocks(t) \/ RemnantDies(t)
                \/ LeaveToSleeper(t) \/ WakeUp(t) \/ LeaveFree(t) \/ FreeQueueLock(t)

QueueStopped == Ended /\ UNCHANGED queueVars

\* After the assertion has aborted the program no thread moves any more; what
\* happens after a state was saved past the end of the queue is left open.
QueueNext == \/ /\ ~Ended
                /\ \/ BenchStep /\ UNCHANGED lockVars
                   \/ \E t \in Threads : QueueStep(t)
             \/ QueueStopped

QueueSpec == QueueInit /\ [][QueueNext]_queueVars

-----------------------------------------------------------------------------
(* Fairness: the contexts of a thread, and the thread that runs run_test,
   keep executing.  Weak fairness is enough to take the inner mutex, which is
   free again and again but perhaps never when a given thread looks: the
   others run out of iterations or fall asleep, and then it stays free.    *)

QueueWorkerStep(t) == /\ ~Ended
                      /\ \/ QueueStep(t)
                         \/ (Head(t) \/ Load(t) \/ Store(t)) /\ UNCHANGED lockVars

QueueMainStep == /\ ~Ended
                 /\ Sync \/ \E t \in Threads : Spawn(t)
                 /\ UNCHANGED lockVars

QueueFairSpec == /\ QueueSpec
                 /\ \A t \in Threads : WF_queueVars(QueueWorkerStep(t))
                 /\ WF_queueVars(QueueMainStep)

-----------------------------------------------------------------------------
(* Properties *)

QueueLabels == {"unborn", "head", "lock", "enter", "granted", "reserved", "saved",
                "woken", "load", "store", "unlock", "leave", "waking", "freed", "done"}

\* Types of the state of queue_lock.h and of run_test.
QueueTypeOK == /\ phase \in {"spawn", "sync", "finished", "error", "wild"}
               /\ trial \in 0..NumTrials
               /\ counter \in Nat
               /\ mismatch \in BOOLEAN
               /\ pc \in [Threads -> QueueLabels]
               /\ iter \in [Threads -> 0..NPerThread]
               /\ reg \in [Threads -> Nat]
               /\ qlock \in {0, 1}
               /\ is_locked \in {0, 1}
               /\ queue_pos \in Nat
               /\ queue \in [Slots -> Threads \cup {None}]
               /\ slot \in [Threads -> Nat]
               /\ remnant \in [Threads -> BOOLEAN]
               /\ dying \subseteq Threads

\* Who may touch the queue: the thread between taking and giving up
\* queue_lock_, a thread that has been woken up, or the context that saved one.
InnerOwner(t) == \/ pc[t] \in {"enter", "granted", "reserved",
                               "leave", "waking", "freed", "woken"}
                 \/ remnant[t]

\* "Ownership of the _queue_lock was transferred to me": although it is locked
\* by one thread and unlocked by another, queue_lock_ has one owner exactly
\* while it is locked, and its owner is the only context of that thread.
InnerLockHasOneOwner ==
    /\ qlock = 1 <=> \E t \in Threads : InnerOwner(t)
    /\ \A t, u \in Threads : InnerOwner(t) /\ InnerOwner(u) => t = u
    /\ \A t \in Threads : remnant[t] => pc[t] = "saved"

\* Who has been promised the lock: from is_locked_ = 1 or from being woken up
\* to is_locked_ = 0 or to waking up the next one.
LockOwner(t) == pc[t] \in {"granted", "woken", "load", "store", "unlock",
                           "leave", "waking"}

\* is_locked_, which a hand-over leaves alone, is 1 exactly while the lock has
\* an owner, and it never has two.
LockHasOneOwner ==
    /\ is_locked = 1 <=> \E t \in Threads : LockOwner(t)
    /\ \A t, u \in Threads : LockOwner(t) /\ LockOwner(u) => t = u

\* Slots that hold a thread nobody has woken up yet: those below queue_pos_,
\* but for the one being filled, and the one being emptied.
SlotsInUse == {s \in 0..queue_pos-1 :
                  \A t \in Threads : pc[t] = "reserved" => slot[t] # s}
              \cup {slot[t] : t \in {u \in Threads : pc[u] = "waking"}}

\* A sleeping thread exists only as the state saved in the queue: each one is
\* in exactly one slot in use, and each slot in use holds a sleeping thread, so
\* that nobody is overwritten, forgotten or woken up twice.  A queue of one slot
\* less than there are threads is never too small: assert(slot < max_threads).
SleepersAreQueued ==
    /\ Cardinality(Threads) <= MaxThreads + 1 => queue_pos <= MaxThreads
    /\ \A s \in SlotsInUse : queue[s] \in Threads /\ pc[queue[s]] = "saved"
    /\ \A r, s \in SlotsInUse : queue[r] = queue[s] => r = s
    /\ \A t \in Threads : pc[t] = "saved" => \E s \in SlotsInUse : queue[s] = t

\* Nobody sleeps while the lock is free: there would be no unlock() to come
\* that wakes it up.
NoSleeperWhenFree ==
    is_locked = 0 => queue_pos = 0 /\ \A t \in Threads : pc[t] # "saved"

\* No newcomer gets the lock past the queue: while threads are queued, a lock()
\* returns only to a thread that was woken up, never to one that has come along
\* and found the lock free.  It says nothing of the order among the sleepers:
\* the queue is a stack, and who fell asleep last is woken up first.
NoBarging == [][\A t \in Threads : ~InCS(t) /\ InCS(t)' /\ queue_pos > 0
                                      => pc[t] = "woken"]_queueVars
=============================================================================
