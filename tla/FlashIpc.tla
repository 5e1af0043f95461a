------------------------------ MODULE FlashIpc ------------------------------
(***************************************************************************)
(* Flash access by way of core 0 (map_esp32.c and linux_flash.c).  Linux   *)
(* executes in place from the flash and reads it through the cache; only   *)
(* core 0 can erase and program it, with the cache off.  A writer fills    *)
(* the one command object shared with core 0, posts it, and once core 0 is *)
(* ready spins in internal RAM with interrupts off until it is done.       *)
(* Tasks may interleave between any two accesses to shared state.          *)
(***************************************************************************)
EXTENDS Naturals

CONSTANTS
    Task,    \* Linux tasks using the MTD device (two jffs2 file systems)
    Block,   \* erase blocks
    Value,   \* block contents
    Erased,  \* contents of an erased block
    None

VARIABLES
    flash,         \* block -> contents
    cache,         \* block -> cached contents, or None
    cache_on,      \* core 0 has the flash cache enabled
    lock,          \* the mutex of 0053
    pc,            \* task -> where it is
    want,          \* task -> the block and contents it asked for
    cmd,           \* fields of the shared command object
    local_state,   \* written by Linux
    remote_state,  \* written by core 0
    result,        \* written by core 0: the operation failed
    posted,        \* the command is in the ring to core 0
    fw             \* where core 0 is

vars == <<flash, cache, cache_on, lock, pc, want, cmd, local_state,
          remote_state, result, posted, fw>>

Op == [block : Block, value : Value]   \* an erase asks for Erased

\* Everything but the spin loop in internal RAM needs the flash and interrupts.
LinuxRuns == \A t \in Task : pc[t] # "iram"

Init ==
    /\ flash = [b \in Block |-> Erased]
    /\ cache = [b \in Block |-> None]
    /\ cache_on = TRUE
    /\ lock = None
    /\ pc = [t \in Task |-> "idle"]
    /\ want \in [Task -> {[block |-> b, value |-> Erased] : b \in Block}]
    /\ cmd \in {[block |-> b, value |-> Erased] : b \in Block}
    /\ local_state = "IDLE"
    /\ remote_state = "IDLE"
    /\ result = FALSE
    /\ posted = FALSE
    /\ fw = "idle"

Goto(t, l) == pc' = [pc EXCEPT ![t] = l]

\* map_esp32_write, map_esp32_erase: an operation on one block is called.
map_esp32_write(t) ==
    /\ LinuxRuns
    /\ pc[t] = "idle"
    /\ \E op \in Op : want' = [want EXCEPT ![t] = op]
    /\ Goto(t, "lock")
    /\ UNCHANGED <<flash, cache, cache_on, lock, cmd, local_state, remote_state, result,
                   posted, fw>>

\* esp32_ipc_flash_write, esp32_ipc_flash_erase: take the mutex.
mutex_lock(t) ==
    /\ LinuxRuns
    /\ pc[t] = "lock"
    /\ lock = None
    /\ lock' = t
    /\ Goto(t, "fill")
    /\ UNCHANGED <<flash, cache, cache_on, want, cmd, local_state, remote_state, result,
                   posted, fw>>

\* Fault: the state Linux left from the previous command is not reset.
fill_cmd_StaleReady(t) ==
    /\ LinuxRuns
    /\ pc[t] = "fill"
    /\ cmd' = want[t]
    /\ remote_state' = "IDLE"
    /\ Goto(t, "post")
    /\ UNCHANGED <<flash, cache, cache_on, lock, want, local_state, result, posted, fw>>

\* Fault: the contents of the previous command are kept.
fill_cmd_StaleData(t) ==
    /\ LinuxRuns
    /\ pc[t] = "fill"
    /\ cmd' = [cmd EXCEPT !.block = want[t].block]
    /\ remote_state' = "IDLE"
    /\ local_state' = "IDLE"
    /\ Goto(t, "post")
    /\ UNCHANGED <<flash, cache, cache_on, lock, want, result, posted, fw>>

\* The fields of the command, and both states back to IDLE.
fill_cmd(t) ==
    /\ LinuxRuns
    /\ pc[t] = "fill"
    /\ cmd' = want[t]
    /\ remote_state' = "IDLE"
    /\ local_state' = "IDLE"
    /\ Goto(t, "post")
    /\ UNCHANGED <<flash, cache, cache_on, lock, want, result, posted, fw>>

\* Fault: the early return keeps the mutex.
esp32_ipc_tx_KeepLock(t) ==
    /\ LinuxRuns
    /\ pc[t] = "post"
    /\ \/ posted' = TRUE /\ Goto(t, "spin") /\ UNCHANGED lock
       \/ posted' = FALSE /\ Goto(t, "idle") /\ UNCHANGED lock
    /\ UNCHANGED <<flash, cache, cache_on, want, cmd, local_state, remote_state, result, fw>>

\* esp32_ipc_tx; with the ring full the operation fails with -EBUSY.
esp32_ipc_tx(t) ==
    /\ LinuxRuns
    /\ pc[t] = "post"
    /\ \/ posted' = TRUE /\ Goto(t, "spin") /\ UNCHANGED lock
       \/ posted' = FALSE /\ Goto(t, "idle") /\ lock' = None
    /\ UNCHANGED <<flash, cache, cache_on, want, cmd, local_state, remote_state, result, fw>>

\* esp32_ipc_flash_io sees that core 0 has the command and enters the loop in
\* internal RAM, interrupts off; anything but READY is an error.
esp32_ipc_flash_io(t) ==
    /\ LinuxRuns
    /\ pc[t] = "spin"
    /\ remote_state # "IDLE"
    /\ IF remote_state = "READY"
       THEN local_state' = "READY" /\ Goto(t, "iram") /\ UNCHANGED lock
       ELSE lock' = None /\ Goto(t, "idle") /\ UNCHANGED local_state
    /\ UNCHANGED <<flash, cache, cache_on, want, cmd, remote_state, result, posted, fw>>

\* esp32_ipc_flash_io_iram sees DONE; the result is consumed, the mutex released.
esp32_ipc_flash_io_iram(t) ==
    /\ pc[t] = "iram"
    /\ remote_state = "DONE"
    /\ lock' = None
    /\ Goto(t, "idle")
    /\ UNCHANGED <<flash, cache, cache_on, want, cmd, local_state, remote_state, result, posted, fw>>

\* Any access to mapped flash: map_esp32_read, which takes the mutex for the
\* copy, code and files executed in place, which take nothing.
Fetch(b) ==
    /\ LinuxRuns
    /\ cache[b] = None
    /\ cache' = [cache EXCEPT ![b] = flash[b]]
    /\ UNCHANGED <<flash, cache_on, lock, pc, want, cmd, local_state, remote_state,
                   result, posted, fw>>

\* A cache line is replaced.
Evict(b) ==
    /\ cache[b] # None
    /\ cache' = [cache EXCEPT ![b] = None]
    /\ UNCHANGED <<flash, cache_on, lock, pc, want, cmd, local_state, remote_state,
                   result, posted, fw>>

\* Core 0 takes the command out of the ring.
esp_flash_rx ==
    /\ fw = "idle"
    /\ posted
    /\ posted' = FALSE
    /\ remote_state' = "READY"
    /\ fw' = "taken"
    /\ UNCHANGED <<flash, cache, cache_on, lock, pc, want, cmd, local_state, result>>

\* Core 0 waits for Linux to be in its loop, then turns the cache off.
FirmwareStarts ==
    /\ fw = "taken"
    /\ local_state = "READY"
    /\ cache_on' = FALSE
    /\ fw' = "busy"
    /\ UNCHANGED <<flash, cache, lock, pc, want, cmd, local_state, remote_state, result, posted>>

\* The erase or program, which may fail; the cache comes back on.
FirmwarePrograms ==
    /\ fw = "busy"
    /\ \E failed \in BOOLEAN :
         /\ result' = failed
         /\ flash' = IF failed THEN flash ELSE [flash EXCEPT ![cmd.block] = cmd.value]
    /\ cache_on' = TRUE
    /\ fw' = "programmed"
    /\ UNCHANGED <<cache, lock, pc, want, cmd, local_state, remote_state, posted>>

\* Fault: the invalidation is left to ESP-IDF, which skips pages Linux mapped.
linux_flash_invalidate_Skipped ==
    /\ fw = "programmed"
    /\ remote_state' = "DONE"
    /\ fw' = "idle"
    /\ UNCHANGED <<flash, cache, cache_on, lock, pc, want, cmd, local_state, result, posted>>

\* The written range is invalidated, then the command reported done.
linux_flash_invalidate ==
    /\ fw = "programmed"
    /\ cache' = [cache EXCEPT ![cmd.block] = None]
    /\ remote_state' = "DONE"
    /\ fw' = "idle"
    /\ UNCHANGED <<flash, cache_on, lock, pc, want, cmd, local_state, result, posted>>

Next ==
    \/ \E t \in Task : map_esp32_write(t)
    \/ \E t \in Task : mutex_lock(t)
    \/ \E t \in Task : fill_cmd(t)
    \/ \E t \in Task : esp32_ipc_tx(t)
    \/ \E t \in Task : esp32_ipc_flash_io(t)
    \/ \E t \in Task : esp32_ipc_flash_io_iram(t)
    \/ \E b \in Block : Fetch(b)
    \/ \E b \in Block : Evict(b)
    \/ esp_flash_rx
    \/ FirmwareStarts
    \/ FirmwarePrograms
    \/ linux_flash_invalidate

\* The mutex is handed to its waiters in turn, a task holding it is scheduled,
\* core 0 serves its queue.
Fairness ==
    /\ \A t \in Task : SF_vars(mutex_lock(t))
    /\ \A t \in Task : WF_vars(fill_cmd(t)) /\ WF_vars(esp32_ipc_tx(t))
    /\ \A t \in Task : WF_vars(esp32_ipc_flash_io(t)) /\ WF_vars(esp32_ipc_flash_io_iram(t))
    /\ WF_vars(esp_flash_rx) /\ WF_vars(FirmwareStarts)
    /\ WF_vars(FirmwarePrograms) /\ WF_vars(linux_flash_invalidate)

Spec == Init /\ [][Next]_vars /\ Fairness
-----------------------------------------------------------------------------
\* While core 0 has the cache off, Linux is in the loop in internal RAM with
\* interrupts off: no instruction is fetched and nothing is read from flash.
NoFetchWithoutCache == ~cache_on => ~LinuxRuns

\* Whenever Linux runs, what the cache holds is what the flash holds: a write
\* is never followed by a stale read, of data or of code, through either path.
CacheCoherent == LinuxRuns => \A b \in Block : cache[b] \in {None, flash[b]}

\* A task that is told of success finds its block as it asked: the command
\* core 0 executed was the task's own, although the two share one object.
SuccessMeansWritten ==
    \A t \in Task :
      pc[t] = "iram" /\ remote_state = "DONE" /\ ~result
        => flash[want[t].block] = want[t].value

\* Every operation returns, on the error paths too: the handshake of the two
\* states has no step at which each core waits for the other, no state left
\* over from the previous command is mistaken for an answer, and the mutex is
\* released.
OperationsReturn == \A t \in Task : pc[t] # "idle" ~> pc[t] = "idle"
=============================================================================
