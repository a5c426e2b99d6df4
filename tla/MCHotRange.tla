----------------------------- MODULE MCHotRange -----------------------------
(* Command lines for HotRange. *)
EXTENDS HotRange

CommandLines(ns, offsets, lengths, op_modes, layouts, nodelet_counts, threads) ==
    [n : ns, offset : offsets, length : lengths, op_mode : op_modes,
     layout : layouts, nodelets : nodelet_counts, num_threads : threads,
     default_grain : BOOLEAN]

AddModes == {"REMOTE_WRITE", "REMOTE_ADD", "ATOMIC_ADD"}

\* Hot words, short ranges, with length = n ranges that go past the end, arrays that
\* are too small, and more threads than elements.
HotArguments ==
    CommandLines({4}, {1, 2}, {1, 2, 4}, {"ATOMIC_CAS"}, {"striped"}, {2}, {4}) \cup
    CommandLines({8}, {2}, {2, 4}, {"ATOMIC_CAS"}, {"striped"}, {2}, {3}) \cup
    CommandLines({4}, {1, 2}, {2, 4}, AddModes, {"striped", "chunked"}, {1, 2, 4}, {2, 5}) \cup
    CommandLines({4}, {1, 2}, {1, 2}, {"REMOTE_ADD", "ATOMIC_CAS"}, {"striped"}, {8}, {4, 8})
=============================================================================
