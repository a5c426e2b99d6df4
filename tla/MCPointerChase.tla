--------------------------- MODULE MCPointerChase ---------------------------
(* Command lines for PointerChase. *)
EXTENDS PointerChase

CommandLines(ns, block_sizes, thread_counts, nodelet_counts) ==
    [n : ns, block_size : block_sizes, num_threads : thread_counts,
     nodelets : nodelet_counts, sort_mode : SortModes,
     spawn_mode : {"serial_spawn", "serial_remote_spawn"}]

\* Numbers of threads that divide n, and one that does not; 3 is no block size for
\* any n.  More threads, and more nodelets, than nodes.  Blocks of 4 nodes.
ChaseArguments ==
    CommandLines({4}, {1, 2, 3}, {1, 2, 3, 4}, {2})
        \cup CommandLines({2}, {1}, {1, 3}, {2, 4})
        \cup [n : {8}, block_size : {4}, num_threads : {2}, nodelets : {2},
              sort_mode : {"block_shuffle"}, spawn_mode : {"serial_remote_spawn"}]
=============================================================================
