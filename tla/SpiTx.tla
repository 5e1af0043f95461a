------------------------------- MODULE SpiTx --------------------------------
(***************************************************************************)
(* esp_spi.c: what bring-up acquires and what its error paths and the exit *)
(* release; the transmit queues, of which one packet leaves per run of the *)
(* SPI work; the counter that pauses and resumes the network queue; and    *)
(* the clean-up after the chip started again.                              *)
(***************************************************************************)
EXTENDS Naturals, Sequences

CONSTANTS
    MaxPending,      \* TX_MAX_PENDING_COUNT
    ResumeThreshold, \* TX_RESUME_THRESHOLD
    MaxQueued        \* bound: packets in the transmit queues

VARIABLES
    state,      \* "down", a step of Bringup, "closed", "up", "purged", "exit"
    held,       \* resources acquired and not released
    misreleased,\* history: something was released that was not held
    data_path,
    tx_q,       \* tx_q[prio]: for each packet, whether its cb names the interface
    tx_pending,
    stopped,    \* the network queue is stopped
    handshake,  \* the chip is ready for a transaction
    spi_work,   \* the work is queued
    uncounted   \* history: tx_pending counts packets that are not there, or
                \* packets do not name their interface

vars == <<state, held, misreleased, data_path, tx_q, tx_pending, stopped,
          handshake, spi_work, uncounted>>

\* spi_init and spi_dev_init, in order.
Bringup == <<"workqueue", "device", "setup", "handshake_pin", "handshake_input",
             "handshake_irq", "ready_pin", "ready_input", "ready_irq">>

\* Steps that acquire nothing.
Checks == {"setup", "handshake_input", "ready_input"}

\* What spi_dev_init itself gives back when a step fails.
Undone(step) ==
    CASE step \in {"handshake_input", "handshake_irq"} -> {"handshake_pin"}
      [] step = "ready_pin" -> {"handshake_pin", "handshake_irq"}
      [] step \in {"ready_input", "ready_irq"} -> {"handshake_pin", "handshake_irq", "ready_pin"}
      [] OTHER -> {}

Empty == [prio \in 1 .. 3 |-> << >>]

Queued == Len(tx_q[1]) + Len(tx_q[2]) + Len(tx_q[3])

Init ==
    /\ state = "down"
    /\ held = {} /\ misreleased = FALSE
    /\ data_path = FALSE
    /\ tx_q = Empty /\ tx_pending = 0
    /\ stopped = FALSE
    /\ handshake \in BOOLEAN
    /\ spi_work = FALSE
    /\ uncounted = FALSE

Release(resources) ==
    /\ held' = held \ resources
    /\ misreleased' = (misreleased \/ ~(resources \subseteq held))

queueVars == <<data_path, tx_q, tx_pending, stopped, handshake, spi_work, uncounted>>

----------------------------------------------------------------------------
\* Fault: a failure after the first interrupt leaves it requested.
spi_dev_init_KeepsIrq(i) ==
    LET step == Bringup[i] IN
    /\ state = IF i = 1 THEN "down" ELSE step
    /\ \/ /\ state' = IF i = Len(Bringup) THEN "closed" ELSE Bringup[i + 1]
          /\ held' = held \cup ({step} \ Checks)
          /\ UNCHANGED misreleased
       \/ /\ state' = "exit"
          /\ Release(Undone(step) \ {"handshake_irq"})
    /\ UNCHANGED queueVars

\* One step of bring-up.  Any of them may fail: spi_dev_init gives back the
\* pins and the interrupts, spi_init calls spi_exit.
spi_dev_init(i) ==
    LET step == Bringup[i] IN
    /\ state = IF i = 1 THEN "down" ELSE step
    /\ \/ /\ state' = IF i = Len(Bringup) THEN "closed" ELSE Bringup[i + 1]
          /\ held' = held \cup ({step} \ Checks)
          /\ UNCHANGED misreleased
       \/ /\ state' = "exit"
          /\ Release(Undone(step))
    /\ UNCHANGED queueVars

\* After 200 ms; the interrupts are on already.
open_data_path ==
    /\ state = "closed" /\ ~data_path
    /\ state' = "up"
    /\ data_path' = TRUE
    /\ tx_pending' = 0
    /\ UNCHANGED <<held, misreleased, tx_q, stopped, handshake, spi_work, uncounted>>

close_data_path ==
    /\ state = "up"
    /\ state' = "exit"
    /\ data_path' = FALSE
    /\ UNCHANGED <<held, misreleased, tx_q, tx_pending, stopped, handshake, spi_work, uncounted>>

\* Purges the queues and drains the work.  Pins and interrupts are released
\* only when bring-up got as far as spi_gpio_enabled.
spi_exit ==
    /\ state = "exit"
    /\ state' = "down"
    /\ tx_q' = Empty
    /\ spi_work' = FALSE
    /\ stopped' = FALSE
    /\ LET pins == {"handshake_irq", "ready_irq", "handshake_pin", "ready_pin"}
           enabled == "ready_irq" \in held
       IN Release((held \cap {"workqueue", "device"}) \cup (IF enabled THEN pins ELSE {}))
    /\ uncounted' = FALSE
    /\ UNCHANGED <<data_path, tx_pending, handshake>>

----------------------------------------------------------------------------
\* Fault: only the packets of the network queue the work.
write_packet_NetworkOnly(prio, marked) ==
    /\ state \in {"up", "purged"} /\ data_path /\ Queued < MaxQueued
    /\ tx_pending <= MaxPending + 1 /\ (IF prio = 3 THEN ~stopped ELSE ~marked)
    /\ IF marked /\ tx_pending >= MaxPending
       THEN stopped' = TRUE /\ UNCHANGED <<tx_q, tx_pending, uncounted>>
       ELSE /\ tx_q' = [tx_q EXCEPT ![prio] = Append(@, marked)]
            /\ tx_pending' = tx_pending + (IF prio = 3 THEN 1 ELSE 0)
            /\ uncounted' = (uncounted \/ (prio = 3 /\ ~marked))
            /\ UNCHANGED stopped
    /\ spi_work' = (spi_work \/ prio = 3)
    /\ UNCHANGED <<state, held, misreleased, data_path, handshake>>

\* Only packets of the network are counted.  The network stack sends nothing
\* while its queue is stopped; a packet that had to be reallocated no longer
\* names its interface (bound: tx_pending, which only those can push on).
write_packet(prio, marked) ==
    /\ state \in {"up", "purged"} /\ data_path /\ Queued < MaxQueued
    /\ tx_pending <= MaxPending + 1 /\ (IF prio = 3 THEN ~stopped ELSE ~marked)
    /\ IF marked /\ tx_pending >= MaxPending
       THEN stopped' = TRUE /\ UNCHANGED <<tx_q, tx_pending, uncounted>>
       ELSE /\ tx_q' = [tx_q EXCEPT ![prio] = Append(@, marked)]
            /\ tx_pending' = tx_pending + (IF prio = 3 THEN 1 ELSE 0)
            /\ uncounted' = (uncounted \/ (prio = 3 /\ ~marked))
            /\ UNCHANGED stopped
    /\ spi_work' = TRUE
    /\ UNCHANGED <<state, held, misreleased, data_path, handshake>>

\* The edge of the handshake line queues the work.
spi_interrupt_handler ==
    /\ ~handshake
    /\ handshake' = TRUE
    /\ spi_work' = (spi_work \/ (state # "exit" /\ {"workqueue", "handshake_irq"} \subseteq held))
    /\ UNCHANGED <<state, held, misreleased, data_path, tx_q, tx_pending, stopped, uncounted>>

\* The chip has something to send.
spi_data_ready_interrupt_handler ==
    /\ state # "exit" /\ {"workqueue", "ready_irq"} \subseteq held
    /\ spi_work' = TRUE
    /\ UNCHANGED <<state, held, misreleased, data_path, tx_q, tx_pending, stopped, handshake, uncounted>>

\* The queue a transaction takes its packet from: the highest that has one.
Served(prio) == data_path /\ tx_q[prio] # << >> /\ \A p \in 1 .. prio - 1 : tx_q[p] = << >>

\* Fault: the load is looked at before the packet is taken off it.
Resume_Before(prio) ==
    stopped' = (stopped /\ ~(Head(tx_q[prio]) /\ tx_pending < ResumeThreshold))

\* The network queue goes on when the packet names its interface and few
\* packets are left.
Resume(prio) ==
    stopped' = (stopped /\ ~(Head(tx_q[prio]) /\ tx_pending' < ResumeThreshold))

\* At most one transaction per run; it takes the chip's readiness away.  A
\* transaction that fails loses its packet.
esp_spi_work ==
    /\ spi_work
    /\ spi_work' = FALSE
    /\ IF handshake /\ \E prio \in 1 .. 3 : Served(prio)
       THEN /\ \E prio \in 1 .. 3 :
                 /\ Served(prio)
                 /\ tx_q' = [tx_q EXCEPT ![prio] = Tail(@)]
                 /\ tx_pending' = IF tx_pending > 0 THEN tx_pending - 1 ELSE 0
                 /\ Resume(prio)
            /\ handshake' = FALSE
       ELSE /\ \/ handshake' = FALSE   \* a transaction for what the chip sends
               \/ UNCHANGED handshake  \* nothing to send either way
            /\ UNCHANGED <<tx_q, tx_pending, stopped>>
    /\ UNCHANGED <<state, held, misreleased, data_path, uncounted>>

\* The chip has started again: its queues are purged; tx_pending stays.
esp_deinit_module ==
    /\ state = "up"
    /\ state' = "purged"
    /\ tx_q' = Empty
    /\ uncounted' = (uncounted \/ tx_pending > 0)
    /\ UNCHANGED <<held, misreleased, data_path, tx_pending, stopped, handshake, spi_work>>

\* Once the card is removed, and the interface with it, the queues start anew.
ReinitQueues ==
    /\ state = "purged"
    /\ state' = "up"
    /\ tx_q' = Empty
    /\ uncounted' = (uncounted \/ tx_pending > 0)
    /\ stopped' = FALSE
    /\ UNCHANGED <<held, misreleased, data_path, tx_pending, handshake, spi_work>>

Next ==
    \/ \E i \in DOMAIN Bringup : spi_dev_init(i)
    \/ open_data_path
    \/ close_data_path
    \/ spi_exit
    \/ \E prio \in 1 .. 3, marked \in BOOLEAN : write_packet(prio, marked)
    \/ spi_interrupt_handler
    \/ spi_data_ready_interrupt_handler
    \/ esp_spi_work
    \/ esp_deinit_module
    \/ ReinitQueues

Spec == Init /\ [][Next]_vars

----------------------------------------------------------------------------
\* Wherever bring-up fails, and after every exit, all that was acquired is
\* released, and nothing is released that was not held (the error paths of
\* spi_dev_init against spi_exit).
AllGivenBack == ~misreleased /\ (state = "down" => held = {})

\* A packet is not forgotten although the work handles one packet per run and
\* queueing it twice runs it once: either the work is queued or the chip has
\* yet to raise the handshake line.
PacketHasRun == Queued > 0 /\ data_path => spi_work \/ ~handshake

\* While the network queue is stopped a packet waits whose transmission will
\* start it again; unless a clean-up purged counted packets without resetting
\* tx_pending, or packets had lost their interface (uncounted).
StoppedHasWaker ==
    stopped /\ state = "up" /\ ~uncounted => \E i \in DOMAIN tx_q[3] : tx_q[3][i]
=============================================================================
