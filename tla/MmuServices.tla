----------------------------- MODULE MmuServices ----------------------------
(***************************************************************************)
(* What a program in the window asks of its launcher (mmu-services.c) and  *)
(* how signals end it (invoke in mmu-run.c).  A handler leaves the program *)
(* by siglongjmp wherever it happens to be, so the tables of open files    *)
(* and allocations are only changed while all signals are blocked.  Each   *)
(* service is split at its calls into the C library.                       *)
(***************************************************************************)
EXTENDS Naturals, FiniteSets

CONSTANTS
    HANDLES, ALLOCATIONS, HEAP_LIMIT,
    Fds,      \* descriptors the kernel may hand out
    Pointers, \* addresses malloc may return
    Sizes,
    None

VARIABLES
    pc,         \* where main, invoke or a service is
    blocked,    \* signals are blocked
    pending,    \* a signal has been sent
    in_payload,
    mapped,     \* the window is mapped
    files,      \* files[]: a descriptor, or None for -1
    open,       \* descriptors the process has open
    blocks,     \* blocks[].pointer, or None
    size,       \* blocks[].size
    allocated,  \* what malloc has given out
    heap_used,
    arg, slot   \* locals of the service: descriptor, pointer or size; table index

sigVars == <<blocked, pending, in_payload, mapped>>
fileVars == <<files, open>>
heapVars == <<blocks, size, allocated, heap_used>>
vars == <<pc, sigVars, fileVars, heapVars, arg, slot>>

Handles == 0 .. HANDLES - 1
Blocks == 0 .. ALLOCATIONS - 1

Init ==
    /\ pc = "armed"
    /\ blocked = TRUE /\ pending = FALSE /\ in_payload = FALSE /\ mapped = TRUE
    /\ files = [h \in Handles |-> None]
    /\ open = {}
    /\ blocks = [b \in Blocks |-> None]
    /\ size = [b \in Blocks |-> 0]
    /\ allocated = {}
    /\ heap_used = 0
    /\ arg = None /\ slot = 0

----------------------------------------------------------------------------
\* Signals, and invoke.

Signal ==
    /\ pc \notin {"done", "dead"}
    /\ pending' = TRUE
    /\ UNCHANGED <<pc, blocked, in_payload, mapped, fileVars, heapVars, arg, slot>>

\* signal_handler.  siglongjmp restores the mask sigsetjmp saved: blocked.
Deliver ==
    /\ pending /\ ~blocked
    /\ pc \notin {"done", "dead"}
    /\ pending' = FALSE
    /\ IF in_payload THEN pc' = "caught" /\ blocked' = TRUE ELSE pc' = "dead" /\ UNCHANGED blocked
    /\ arg' = None /\ slot' = 0
    /\ UNCHANGED <<in_payload, mapped, fileVars, heapVars>>

\* The alarm is set and the signals are let in.
invoke ==
    /\ pc = "armed"
    /\ pc' = "payload"
    /\ in_payload' = TRUE /\ blocked' = FALSE
    /\ UNCHANGED <<pending, mapped, fileVars, heapVars, arg, slot>>

\* Fault: the flag is cleared before the signals are blocked.
invoke_Return_FlagFirst ==
    /\ pc = "payload"
    /\ pc' = "returned"
    /\ in_payload' = FALSE
    /\ UNCHANGED <<blocked, pending, mapped, fileVars, heapVars, arg, slot>>

\* The program returns; the signals are blocked.
invoke_Return ==
    /\ pc = "payload"
    /\ pc' = "returned"
    /\ blocked' = TRUE
    /\ UNCHANGED <<pending, in_payload, mapped, fileVars, heapVars, arg, slot>>

\* self-test calls again; a program that was stopped is not called again.
invoke_End ==
    /\ \/ pc = "returned" /\ pc' \in {"armed", "cleanup"}
       \/ pc = "caught" /\ pc' = "cleanup"
    /\ blocked' = TRUE /\ in_payload' = FALSE
    /\ UNCHANGED <<pending, mapped, fileVars, heapVars, arg, slot>>

----------------------------------------------------------------------------
\* host_call.

\* Fault: signals stay deliverable during a service.
host_call_Open(at, a, s) == pc' = at /\ arg' = a /\ slot' = s /\ UNCHANGED blocked

\* A service starts with the signals blocked.
host_call(at, a, s) == pc' = at /\ arg' = a /\ slot' = s /\ blocked' = TRUE

host_return == pc' = "payload" /\ arg' = None /\ slot' = 0 /\ blocked' = FALSE

\* MMU_OPEN looks for a free handle and opens the file.
OpenStart ==
    /\ pc = "payload"
    /\ \E h \in Handles, fd \in Fds \ open :
         /\ files[h] = None /\ \A g \in 0 .. h - 1 : files[g] # None
         /\ open' = open \cup {fd}
         /\ host_call("open", fd, h)
    /\ UNCHANGED <<pending, in_payload, mapped, files, heapVars>>

\* Fault: what is not a regular file stays open.
OpenEnd_Leak ==
    /\ pc = "open"
    /\ \/ files' = [files EXCEPT ![slot] = arg] /\ UNCHANGED open
       \/ UNCHANGED fileVars
    /\ host_return
    /\ UNCHANGED <<pending, in_payload, mapped, heapVars>>

\* What is not a regular file is closed again.
OpenEnd ==
    /\ pc = "open"
    /\ \/ files' = [files EXCEPT ![slot] = arg] /\ UNCHANGED open
       \/ open' = open \ {arg} /\ UNCHANGED files
    /\ host_return
    /\ UNCHANGED <<pending, in_payload, mapped, heapVars>>

\* MMU_CLOSE: the handle is free whether or not close() reports an error.
CloseStart ==
    /\ pc = "payload"
    /\ \E h \in Handles :
         /\ files[h] # None
         /\ open' = open \ {files[h]}
         /\ host_call("close", None, h)
    /\ UNCHANGED <<pending, in_payload, mapped, files, heapVars>>

CloseEnd ==
    /\ pc = "close"
    /\ files' = [files EXCEPT ![slot] = None]
    /\ host_return
    /\ UNCHANGED <<pending, in_payload, mapped, open, heapVars>>

HeapRoom(n) == n > 0 /\ n <= HEAP_LIMIT - heap_used

\* MMU_ALLOC: malloc's result goes straight into the table.
AllocStart ==
    /\ pc = "payload"
    /\ \E n \in Sizes, b \in Blocks, x \in Pointers \ allocated :
         /\ HeapRoom(n)
         /\ blocks[b] = None /\ \A c \in 0 .. b - 1 : blocks[c] # None
         /\ allocated' = allocated \cup {x}
         /\ blocks' = [blocks EXCEPT ![b] = x]
         /\ host_call("alloc", n, b)
    /\ UNCHANGED <<pending, in_payload, mapped, fileVars, size, heap_used>>

AllocEnd ==
    /\ pc = "alloc"
    /\ size' = [size EXCEPT ![slot] = arg]
    /\ heap_used' = heap_used + arg
    /\ host_return
    /\ UNCHANGED <<pending, in_payload, mapped, fileVars, blocks, allocated>>

\* MMU_FREE of a pointer the table holds; any other is refused.
FreeStart ==
    /\ pc = "payload"
    /\ \E b \in Blocks :
         /\ blocks[b] # None
         /\ allocated' = allocated \ {blocks[b]}
         /\ host_call("free", None, b)
    /\ UNCHANGED <<pending, in_payload, mapped, fileVars, blocks, size, heap_used>>

FreeEnd ==
    /\ pc = "free"
    /\ blocks' = [blocks EXCEPT ![slot] = None]
    /\ heap_used' = heap_used - size[slot]
    /\ size' = [size EXCEPT ![slot] = 0]
    /\ host_return
    /\ UNCHANGED <<pending, in_payload, mapped, fileVars, allocated>>

----------------------------------------------------------------------------
\* The window is taken down first.
Unmap ==
    /\ pc = "cleanup" /\ mapped
    /\ mapped' = FALSE
    /\ UNCHANGED <<pc, blocked, pending, in_payload, fileVars, heapVars, arg, slot>>

services_cleanup ==
    /\ pc = "cleanup" /\ ~mapped
    /\ pc' = "done"
    /\ open' = open \ {files[h] : h \in Handles}
    /\ files' = [h \in Handles |-> None]
    /\ allocated' = allocated \ {blocks[b] : b \in Blocks}
    /\ blocks' = [b \in Blocks |-> None]
    /\ size' = [b \in Blocks |-> 0]
    /\ heap_used' = 0
    /\ UNCHANGED <<sigVars, arg, slot>>

Next ==
    \/ Signal \/ Deliver \/ invoke \/ invoke_Return \/ invoke_End
    \/ OpenStart \/ OpenEnd \/ CloseStart \/ CloseEnd
    \/ AllocStart \/ AllocEnd \/ FreeStart \/ FreeEnd
    \/ Unmap \/ services_cleanup

Spec == Init /\ [][Next]_vars

----------------------------------------------------------------------------
\* The bytes of the blocks in the table.
Held == {w \in Blocks \X (1 .. HEAP_LIMIT) : w[2] <= size[w[1]]}

\* Whenever the program runs, and however often it was interrupted, the
\* accounting of the heap agrees with the table and with malloc, and stays
\* within the limit.
HeapAccounted ==
    pc \in {"payload", "caught", "cleanup"} =>
      /\ heap_used = Cardinality(Held)
      /\ heap_used <= HEAP_LIMIT
      /\ allocated = {blocks[b] : b \in Blocks} \ {None}
      /\ \A b \in Blocks : (size[b] = 0) <=> (blocks[b] = None)

\* A signal that ends the program loses no file: services_cleanup finds every
\* descriptor the process holds.
NothingLeaks == pc = "done" => open = {} /\ allocated = {}

\* A signal never ends the launcher itself while the window is mapped: it is
\* either blocked or leaves the program through siglongjmp.
NeverDiesMapped == pc = "dead" => ~mapped
=============================================================================
