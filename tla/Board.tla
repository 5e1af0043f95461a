-------------------------------- MODULE Board -------------------------------
(***************************************************************************)
(* The page exchange (MmuSwap) and, beside it, the job queue and the       *)
(* services of experiments/mmu-poc (JobQueue, MmuServices).  They share no *)
(* state.                                                                  *)
(***************************************************************************)
EXTENDS MmuSwap, FiniteSets

CONSTANTS
    HANDLES, ALLOCATIONS, HEAP_LIMIT, Fds, Pointers, Sizes, \* MmuServices
    JobCount, Parallel                                      \* JobQueue

\* What jobq checks of its arguments, and that None is no descriptor and no
\* pointer.
ASSUME BoardAssumption ==
    /\ JobCount \in Nat \ {0} /\ Parallel \in Nat \ {0}
    /\ HANDLES \in Nat /\ ALLOCATIONS \in Nat /\ HEAP_LIMIT \in Nat
    /\ Sizes \subseteq Nat /\ None \notin Fds \cup Pointers

VARIABLES
    s_pc, s_blocked, s_pending, s_in_payload, s_mapped, s_files, s_open, s_blocks, s_size,
    s_allocated, s_heap_used, s_arg, s_slot,
    j_pc, j_i, j_next, j_finished, j_active, j_failed, j_cancelled, j_pid, j_proc, j_late, j_starved

S == INSTANCE MmuServices WITH
       pc <- s_pc, blocked <- s_blocked, pending <- s_pending, in_payload <- s_in_payload,
       mapped <- s_mapped, files <- s_files, open <- s_open, blocks <- s_blocks, size <- s_size,
       allocated <- s_allocated, heap_used <- s_heap_used, arg <- s_arg, slot <- s_slot
J == INSTANCE JobQueue WITH
       count <- JobCount, parallel <- Parallel,
       pc <- j_pc, i <- j_i, next <- j_next, finished <- j_finished, active <- j_active,
       failed <- j_failed, cancelled <- j_cancelled, pid <- j_pid, proc <- j_proc, late <- j_late,
       starved <- j_starved

----------------------------------------------------------------------------
\* The properties, stated in the modules of the components.

\* Nothing a program opened or allocated is left, table, counter and malloc
\* agree on the heap, and no signal ends the launcher with the window mapped
\* (MmuServices).
NothingLeaks == S!NothingLeaks /\ S!HeapAccounted /\ S!NeverDiesMapped

\* Each job is waiting, running or finished, once; no job is left when jobq
\* returns, and status 0 means that every job succeeded (JobQueue).
JobsAccounted == J!JobsAccounted /\ J!NoJobLeft /\ J!ZeroMeansAllRan
=============================================================================
