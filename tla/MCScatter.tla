----------------------------- MODULE MCScatter -----------------------------
EXTENDS Scatter

Command(mode, n, num_threads, nodelets) ==
    [mode |-> mode, n |-> n, num_threads |-> num_threads, nodelets |-> nodelets]

\* All modes; a tree of three levels and one of an odd number of nodelets; chunks
\* that are cut off, and more threads than elements.
ScatterArguments ==
    {Command(mode, 4, 4, 4) : mode \in ScatterModes}
        \union {Command("tree", 2, 1, 8), Command("tree", 4, 1, 3),
                Command("tree", 2, 1, 1)}
        \union {Command("emu_for", 8, p, 2) : p \in {1, 3, 8, 16}}
        \union {Command("emu_for", 4, p, 3) : p \in {3, 4}}
=============================================================================
