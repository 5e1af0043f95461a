------------------------------ MODULE ShmemTx -------------------------------
(***************************************************************************)
(* Transmission over the shared-memory transport: process_tx_packet and    *)
(* the queue stop/wake of main.c, write_packet and handle_tx of            *)
(* esp_shmem.c, and the completion pass of esp32-ipc.c.  A packet's buffer *)
(* is read by core 0 in place, so the driver keeps it in tx_q, stamped     *)
(* with the write counter (its tag), until a completion pass sees that     *)
(* core 0's read counter has gone past the tag.  The ring itself is the    *)
(* FIFO that IpcRing shows it to be.                                       *)
(***************************************************************************)
EXTENDS Integers, Sequences, FiniteSetsExt, Functions

CONSTANTS
    Mask,        \* capacity of the ring
    Modulus,     \* 2^w for counters of w bits
    MayLosePriv  \* buffers without a device: reallocated frames, commands, BLE

VARIABLES
    write, read,    \* counters of the queue to core 0
    ring,           \* its unread entries: a tag, or -1 for a flash request
    tx_q,           \* buffers handed over: [tag, priv]
    stopped,        \* netif_queue_stopped()
    tx_read_seen,   \* read counter as of the last completion pass
    irq,            \* interrupt register set by core 0
    owes_irq,       \* core 0 has consumed entries since it last set it
    woken,          \* the interrupt thread is to run
    pass            \* << >> or <<r>>: a pass with the read counter it sampled

vars == <<write, read, ring, tx_q, stopped, tx_read_seen, irq, owes_irq, woken, pass>>

Flash == -1
Full == Len(ring) = Mask

\* Fault: a tag equal to the counter counts as read.
NotYetRead_OffByOne(tag, r) == (tag - r) % Modulus \in 1 .. Modulus \div 2 - 1

\* (s32)(tag - r) >= 0
NotYetRead(tag, r) == (tag - r) % Modulus < Modulus \div 2

\* Bound: the counters a pass may compare span less than half their range.
\* With 32 bit counters that is 2^31 packets between two completion passes.
InWindow ==
    \A t \in {tx_q[i].tag : i \in DOMAIN tx_q} \cup Range(pass) \cup {tx_read_seen} :
      (write - t) % Modulus < Modulus \div 2

Init ==
    /\ write = 0
    /\ read = 0
    /\ ring = << >>
    /\ tx_q = << >>
    /\ stopped = FALSE
    /\ tx_read_seen = 0
    /\ irq = FALSE
    /\ owes_irq = FALSE
    /\ woken = FALSE
    /\ pass = << >>

\* esp32_ipc_tx for the WiFi client, and write_packet behind it.
write_packet(priv) ==
    IF Full
    THEN /\ stopped' = (stopped \/ priv)
         /\ UNCHANGED <<write, ring, tx_q>>
    ELSE /\ InWindow
         /\ ring' = Append(ring, write)
         /\ tx_q' = Append(tx_q, [tag |-> write, priv |-> priv])
         /\ write' = (write + 1) % Modulus
         /\ UNCHANGED stopped

\* The stack hands over a frame, from a task or a softirq, which it does not
\* do while the queue is stopped.  process_tx_packet copies a frame that is unaligned or short of
\* headroom into a new buffer, whose control block names no device.
esp_hard_start_xmit ==
    /\ ~stopped
    /\ \E realloc \in {FALSE, MayLosePriv} : write_packet(~realloc)
    /\ UNCHANGED <<read, tx_read_seen, irq, owes_irq, woken, pass>>

\* A command or a packet of the BLE pipe: no device either.  Sent by a task,
\* which does not run in the middle of the interrupt thread.
esp_send_packet ==
    /\ MayLosePriv
    /\ pass = << >>
    /\ write_packet(FALSE)
    /\ UNCHANGED <<read, tx_read_seen, irq, owes_irq, woken, pass>>

\* The flash client shares the ring; it waits for one request at a time.
flash_tx ==
    /\ pass = << >>
    /\ Flash \notin Range(ring)
    /\ ~Full
    /\ InWindow
    /\ ring' = Append(ring, Flash)
    /\ write' = (write + 1) % Modulus
    /\ UNCHANGED <<read, tx_q, stopped, tx_read_seen, irq, owes_irq, woken, pass>>

\* Core 0 consumes an entry; from then on it does not touch the buffer.
FirmwareReads ==
    /\ ring # << >>
    /\ ring' = Tail(ring)
    /\ read' = (read + 1) % Modulus
    /\ owes_irq' = TRUE
    /\ UNCHANGED <<write, tx_q, stopped, tx_read_seen, irq, woken, pass>>

\* Core 0 interrupts Linux, for what it consumed or for a packet of its own.
FirmwareInterrupts ==
    /\ irq' = TRUE
    /\ owes_irq' = FALSE
    /\ UNCHANGED <<write, read, ring, tx_q, stopped, tx_read_seen, woken, pass>>

\* The interrupt is acknowledged before the thread is woken.
esp32_ipc_irq_handler ==
    /\ irq
    /\ irq' = FALSE
    /\ woken' = TRUE
    /\ UNCHANGED <<write, read, ring, tx_q, stopped, tx_read_seen, owes_irq, pass>>

\* The thread, after draining the other queue, samples core 0's counter.
thread_sample ==
    /\ woken
    /\ pass = << >>
    /\ woken' = FALSE
    /\ pass' = <<read>>
    /\ UNCHANGED <<write, read, ring, tx_q, stopped, tx_read_seen, irq, owes_irq>>

\* esp_wifi_shmem_handle_tx(): buffers leave from the front while core 0 is
\* past their tag, and the first one that names a device wakes its queue.
handle_tx(r) ==
    LET unread == {i \in DOMAIN tx_q : NotYetRead(tx_q[i].tag, r)}
        kept == IF unread = {} THEN Len(tx_q) + 1 ELSE Min(unread)
    IN  /\ tx_q' = SubSeq(tx_q, kept, Len(tx_q))
        /\ stopped' = (stopped /\ \A i \in 1 .. kept - 1 : ~tx_q[i].priv)

\* Fault: the pass depends on a successful receive in the same batch.
thread_complete_AfterRx ==
    /\ pass # << >>
    /\ \E rx_done \in BOOLEAN :
         IF rx_done
         THEN handle_tx(pass[1])
         ELSE UNCHANGED <<tx_q, stopped>>
    /\ tx_read_seen' = pass[1]
    /\ pass' = << >>
    /\ UNCHANGED <<write, read, ring, irq, owes_irq, woken>>

\* The completion pass runs when the counter moved, or after a receive.
thread_complete ==
    /\ pass # << >>
    /\ \E rx_done \in BOOLEAN :
         IF rx_done \/ pass[1] # tx_read_seen
         THEN handle_tx(pass[1])
         ELSE UNCHANGED <<tx_q, stopped>>
    /\ tx_read_seen' = pass[1]
    /\ pass' = << >>
    /\ UNCHANGED <<write, read, ring, irq, owes_irq, woken>>

Next ==
    \/ esp_hard_start_xmit
    \/ esp_send_packet
    \/ flash_tx
    \/ FirmwareReads
    \/ FirmwareInterrupts
    \/ esp32_ipc_irq_handler
    \/ thread_sample
    \/ thread_complete

\* Core 0 drains its queue and interrupts for it; Linux takes interrupts and
\* runs the interrupt thread.
Fairness ==
    /\ WF_vars(FirmwareReads)
    /\ WF_vars(owes_irq /\ FirmwareInterrupts)
    /\ WF_vars(esp32_ipc_irq_handler)
    /\ WF_vars(thread_sample)
    /\ WF_vars(thread_complete)

Spec == Init /\ [][Next]_vars /\ Fairness
-----------------------------------------------------------------------------
\* Core 0 never reads a freed buffer: the buffer of every unread entry is
\* still in tx_q, although completion passes run with a counter sampled
\* earlier, alongside core 0, and counters and tags wrap.
BuffersOutliveReads ==
    \A t \in Range(ring) \ {Flash} : \E i \in DOMAIN tx_q : tx_q[i].tag = t

\* Every buffer handed over is freed in the end, whether or not a packet was
\* received in the batch that reported it consumed.
BuffersComeBack ==
    \A t \in 0 .. Modulus - 1 :
      (\E i \in DOMAIN tx_q : tx_q[i].tag = t) ~> (\A i \in DOMAIN tx_q : tx_q[i].tag # t)

\* A stopped queue has a wakeup to come: as long as it is stopped, some buffer
\* on its way back names the device, so that its completion wakes the queue.
\* This is what "frees the buffers core 0 has finished with and wakes its
\* transmit queue" needs.
StoppedWillWake == stopped => \E i \in DOMAIN tx_q : tx_q[i].priv
=============================================================================
