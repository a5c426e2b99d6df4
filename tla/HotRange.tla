------------------------------ MODULE HotRange ------------------------------
(***************************************************************************)
(* hot_range.c and hot_range_chunked.c: n updates of an array of n         *)
(* elements all hit the length elements that start at offset, so that many *)
(* threads update one word at once.  The programs differ in the layout of  *)
(* the arrays; only the first one has the mode ATOMIC_CAS.                 *)
(*                                                                         *)
(* The parallel loops are those of emu_c_utils.  They give each index to   *)
(* one thread and return after the last one; here any two iterations may   *)
(* run at the same time.  Loops whose iterations touch a word of their own *)
(* (set-up, validation, clearing) are single actions.                      *)
(***************************************************************************)
EXTENDS Naturals, FiniteSets

CONSTANTS Arguments,    \* the command lines: records of n, offset, length, ...
          NumTrials     \* num_trials

PowersOfTwo == {2^k : k \in 0..30}

\* What parse_args lets through, and two facts of the machine: NODELETS(), and whether
\* the loops of emu_c_utils, which are external, take a grain of 0 for a grain of
\* their own (default_grain) or never advance with it.  parse_args does not ask for an
\* element per nodelet, on which the striped index relies, nor for one per thread; the
\* chunked arrays, which are external too, are only used with one per nodelet.
ASSUME HotRangeAssumption ==
    /\ \A a \in Arguments : /\ {a.n, a.offset, a.length} \subseteq PowersOfTwo
                            /\ a.offset < a.n /\ a.length <= a.n
                            /\ a.layout \in {"striped", "chunked"}
                            /\ a.op_mode \in {"REMOTE_WRITE", "REMOTE_ADD",
                                              "ATOMIC_ADD", "ATOMIC_CAS"}
                            /\ a.num_threads \in Nat \ {0}
                            /\ a.nodelets \in PowersOfTwo /\ a.default_grain \in BOOLEAN
                            /\ a.layout = "chunked" => a.nodelets <= a.n
    /\ NumTrials \in Nat \ {0}

VARIABLES args,      \* the command line
          phase,     \* where the main thread is
          trial,     \* loop variable of hot_range_run
          array,     \* the array, by the position of the element
          indices,   \* the position that iteration i updates
          pc,        \* program counter of each iteration
          oldval     \* its local variable, in mode ATOMIC_CAS; 0 while it is not in use

vars == <<args, phase, trial, array, indices, pc, oldval>>

Elements == 0..args.n-1

\* transform_1d_index, with & and >> by powers of two; the chunked array is
\* addressed by the index itself.
Position(i) == IF args.layout = "striped"
               THEN ((i * args.nodelets) % args.n) + ((i * args.nodelets) \div args.n)
               ELSE i

\* The element that iteration i updates.
Target(i) == (args.offset + (i % args.length)) % args.n

\* The iterations that a thread takes at a time: 0 with more threads than elements.
Grain == args.n \div args.num_threads

\* The parallel loop of the kernel never advances.
Hangs == Grain = 0 /\ ~args.default_grain

Init == /\ args \in Arguments
        /\ phase = "init"
        /\ trial = 0
        /\ array = [x \in Elements |-> 0]
        /\ indices = [i \in Elements |-> 0]
        /\ pc = [i \in Elements |-> "done"]
        /\ oldval = [i \in Elements |-> 0]

\* Mutant: the target is not transformed to its position.
SetUpUntransformed ==
    /\ phase = "init"
    /\ indices' = [i \in Elements |-> Target(i)]
    /\ array' = [x \in Elements |-> 0]
    /\ phase' = "launch"
    /\ UNCHANGED <<args, trial, pc, oldval>>

\* index_init_worker and clear_array_worker.
SetUp ==
    /\ phase = "init"
    /\ indices' = [i \in Elements |-> Position(Target(i))]
    /\ array' = [x \in Elements |-> 0]
    /\ phase' = "launch"
    /\ UNCHANGED <<args, trial, pc, oldval>>

\* hot_range_launch.  With an index behind the array it writes somewhere else.
Launch ==
    /\ phase = "launch"
    /\ IF Hangs THEN phase' = "endless" /\ UNCHANGED pc
       ELSE IF \A i \in Elements : indices[i] \in Elements
       THEN phase' = "update" /\ pc' = [i \in Elements |-> "todo"]
       ELSE phase' = "wild" /\ UNCHANGED pc
    /\ UNCHANGED <<args, trial, array, indices, oldval>>

\* array[indices[i]] = 1, REMOTE_ADD(&array[indices[i]], 1), or ATOMIC_ADDMS.
Update(i) ==
    /\ pc[i] = "todo"
    /\ args.op_mode # "ATOMIC_CAS"
    /\ array' = [array EXCEPT ![indices[i]] =
                    IF args.op_mode = "REMOTE_WRITE" THEN 1 ELSE @ + 1]
    /\ pc' = [pc EXCEPT ![i] = "done"]
    /\ UNCHANGED <<args, phase, trial, indices, oldval>>

\* oldval = *target
Load(i) ==
    /\ pc[i] = "todo"
    /\ args.op_mode = "ATOMIC_CAS"
    /\ oldval' = [oldval EXCEPT ![i] = array[indices[i]]]
    /\ pc' = [pc EXCEPT ![i] = "cas"]
    /\ UNCHANGED <<args, phase, trial, array, indices>>

\* Mutant: newval is stored without the comparison.
CasAlways(i) ==
    /\ pc[i] = "cas"
    /\ array' = [array EXCEPT ![indices[i]] = oldval[i] + 1]
    /\ pc' = [pc EXCEPT ![i] = "done"]
    /\ oldval' = [oldval EXCEPT ![i] = 0]
    /\ UNCHANGED <<args, phase, trial, indices>>

\* ATOMIC_CAS(target, newval, oldval) returns oldval.
CasSucceeds(i) ==
    /\ pc[i] = "cas"
    /\ array[indices[i]] = oldval[i]
    /\ array' = [array EXCEPT ![indices[i]] = oldval[i] + 1]
    /\ pc' = [pc EXCEPT ![i] = "done"]
    /\ oldval' = [oldval EXCEPT ![i] = 0]
    /\ UNCHANGED <<args, phase, trial, indices>>

\* Mutant: the CAS is retried with the old value.
CasFailsNoReload(i) ==
    /\ pc[i] = "cas"
    /\ array[indices[i]] # oldval[i]
    /\ UNCHANGED vars

\* It returns something else: load again.
CasFails(i) ==
    /\ pc[i] = "cas"
    /\ array[indices[i]] # oldval[i]
    /\ pc' = [pc EXCEPT ![i] = "todo"]
    /\ oldval' = [oldval EXCEPT ![i] = 0]
    /\ UNCHANGED <<args, phase, trial, array, indices>>

Updated == \A i \in Elements : pc[i] = "done"

\* The value validate_worker expects of element i.  (The length divides n, so
\* that no element is updated more often than another.)
ExpectedValue(i) ==
    IF i < args.offset \/ i >= args.offset + args.length THEN 0
    ELSE IF args.op_mode = "REMOTE_WRITE" THEN 1
    ELSE args.n \div args.length
            + (IF i - args.offset < args.n % args.length THEN 1 ELSE 0)

AsExpected == \A i \in Elements : array[Position(i)] = ExpectedValue(i)

\* The end of a trial: hot_range_validate, which exits if a value is wrong, and
\* hot_range_clear_array.  It may be the validation that leaves the array.
Validate ==
    /\ phase = "update"
    /\ Updated
    /\ trial' = trial + 1
    /\ IF \E i \in Elements : Position(i) \notin Elements
       THEN phase' = "wild" /\ UNCHANGED array
       ELSE IF AsExpected
       THEN /\ array' = [x \in Elements |-> 0]
            /\ phase' = IF trial + 1 < NumTrials THEN "launch" ELSE "finished"
       ELSE phase' = "failed" /\ UNCHANGED array
    /\ UNCHANGED <<args, indices, pc, oldval>>

Main == SetUp \/ Launch \/ Validate

Iterate(i) == Update(i) \/ Load(i) \/ CasSucceeds(i) \/ CasFails(i)

Ended == phase \in {"finished", "failed", "wild"}

Next == \/ Main
        \/ \E i \in Elements : Iterate(i)
        \/ (Ended \/ phase = "endless") /\ UNCHANGED vars

Spec == Init /\ [][Next]_vars

LongestArray == CHOOSE n \in {a.n : a \in Arguments} : \A a \in Arguments : a.n <= n

\* Fairness: the main thread and the one that runs an iteration keep executing.
FairSpec == /\ Spec
            /\ WF_vars(Main)
            /\ \A i \in 0..LongestArray-1 : WF_vars(i \in Elements /\ Iterate(i))

-----------------------------------------------------------------------------
(* Properties *)

\* Types of the state: no element is ever updated more often than n times.
TypeOK ==
    /\ phase \in {"init", "launch", "update", "endless", "finished", "failed", "wild"}
    /\ trial \in 0..NumTrials
    /\ array \in [Elements -> 0..args.n]
    /\ indices \in [Elements -> Nat]
    /\ pc \in [Elements -> {"todo", "cas", "done"}]
    /\ oldval \in [Elements -> 0..args.n]

\* At every moment of a trial an element counts exactly the iterations that have
\* updated it: no update of a hot word is lost or done twice, whichever operation
\* is used, and no word outside of the range is touched.
NoLostUpdate ==
    phase = "update" =>
        \A x \in {y \in Elements : Position(y) \in Elements} :
            LET hits == Cardinality({i \in Elements : pc[i] = "done" /\ Target(i) = x})
            IN  array[Position(x)] = IF args.op_mode = "REMOTE_WRITE" /\ hits > 0
                                     THEN 1 ELSE hits

\* The validation never misses and never raises a false alarm, except that it
\* rejects every run in which the range goes past the end of the array, although
\* index_init_worker says that "the hot range will be split" in this case; and with
\* fewer elements than nodelets, every run accesses what is not the array.
ValidationExact ==
    LET tooSmall == args.layout = "striped" /\ args.nodelets > args.n
        wraps    == args.offset + args.length > args.n
    IN  Ended => phase = IF tooSmall THEN "wild" ELSE IF wraps THEN "failed"
                         ELSE "finished"

\* A run ends, for the CAS loops do not keep each other from succeeding; except with
\* more threads than elements, if the library has no default for the grain of 0.
Termination == IF Hangs THEN []~Ended ELSE <>Ended
=============================================================================
