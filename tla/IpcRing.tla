------------------------------ MODULE IpcRing -------------------------------
(***************************************************************************)
(* One direction of the shared-memory IPC of esp32-ipc.c: a ring of mask+1 *)
(* entries with free-running unsigned counters, written by one core        *)
(* (esp32_ipc_tx, under its spinlock) and read by the other (the loop of   *)
(* esp32_ipc_thread_handler).  The cores run concurrently, so each side is *)
(* split at its accesses to shared memory.  Core 0 runs the same protocol  *)
(* on the queue Linux writes.                                              *)
(***************************************************************************)
EXTENDS Integers, Sequences

CONSTANTS
    Msg,      \* entries (addr, info)
    Mask,     \* q->mask: one less than the number of slots
    Modulus   \* 2^w for counters of w bits (2^32 in the code)

VARIABLES
    write, read,   \* q->write, q->read
    data,          \* the slots
    tx,            \* << >> or <<w>>: the writer has filled slot w & mask
    rx             \* << >> or <<m>>: the reader has fetched entry m

vars == <<write, read, data, tx, rx>>

Slot(i) == i % (Mask + 1)
Used(w, r) == (w - r) % Modulus

Succ(i) == (i + 1) % Modulus

\* Fault: the full test compares the counters without their wraparound.
Full_NoWrap(w, r) == w - r = Mask

\* The full test of esp32_ipc_tx: w - r == q->mask in u32 arithmetic.
Full(w, r) == Used(w, r) = Mask

\* esp32_ipc_probe resets both counters before telling core 0.
Init ==
    /\ write = 0
    /\ read = 0
    /\ data \in [0 .. Mask -> Msg]
    /\ tx = << >>
    /\ rx = << >>

\* esp32_ipc_tx up to the write barrier.  A full ring returns -EBUSY.
FillSlot ==
    /\ tx = << >>
    /\ ~Full(write, read)
    /\ \E m \in Msg : data' = [data EXCEPT ![Slot(write)] = m]
    /\ tx' = <<write>>
    /\ UNCHANGED <<write, read, rx>>

\* esp32_ipc_tx from the barrier on: the new counter becomes visible.
Publish ==
    /\ tx # << >>
    /\ write' = Succ(tx[1])
    /\ tx' = << >>
    /\ UNCHANGED <<read, data, rx>>

\* Fault: the reader gives the slot back before it has read it.
Fetch_EarlyRelease ==
    /\ rx = << >>
    /\ read # write
    /\ rx' = <<data[Slot(read)]>>
    /\ read' = Succ(read)
    /\ UNCHANGED <<write, data, tx>>

\* The reader finds an entry and hands it to the client's callback.
Fetch ==
    /\ rx = << >>
    /\ read # write
    /\ rx' = <<data[Slot(read)]>>
    /\ UNCHANGED <<write, read, data, tx>>

\* Fault: the reader gives back everything published, not what it has read.
Advance_All ==
    /\ rx # << >>
    /\ read' = write
    /\ rx' = << >>
    /\ UNCHANGED <<write, data, tx>>

\* The reader gives the slot back.
Advance ==
    /\ rx # << >>
    /\ read' = Succ(read)
    /\ rx' = << >>
    /\ UNCHANGED <<write, data, tx>>

Next == FillSlot \/ Publish \/ Fetch \/ Advance

Spec == Init /\ [][Next]_vars
-----------------------------------------------------------------------------
\* The entries published and not given back, oldest first.
Entries == [i \in 1 .. Used(write, read) |-> data[Slot(read + i - 1)]]

\* The counters never drift apart by more than the ring holds, so the
\* equality in the full test is enough, across the wraparound of both.
NeverOverfull == Used(write, read) <= Mask

\* The entry a client's callback works on is still the one in the slot, and
\* the oldest one: the writer on the other core never reuses the slot while
\* the callback runs.
CallbackOwnsEntry == rx # << >> => Entries # << >> /\ rx[1] = Entries[1]

\* The ring is a first-in first-out channel of capacity mask: whatever the
\* interleaving of the two cores, entries are neither lost, duplicated,
\* reordered nor torn.
Channel == INSTANCE Fifo WITH queue <- Entries, Capacity <- Mask
RingIsFifo == Channel!Spec
=============================================================================
