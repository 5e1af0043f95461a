------------------------------ MODULE MCBuses -------------------------------
(***************************************************************************)
(* The transports' queues on small instances: IpcRing, Receive, SpiTx and  *)
(* SdioTx side by side.  They share no state, so a behaviour is one of     *)
(* exactly one of them (part); the others stay in their initial states.    *)
(***************************************************************************)
EXTENDS Naturals

CONSTANTS
    Msg, Mask, Modulus, \* IpcRing
    Header, BufSize, Width, Lengths, Offsets, ByteMax, Block, MaxUnread, \* Receive
    MaxQueued, MaxPending, ResumeThreshold, TokenMax, BufCount

ASSUME BusesAssumption ==
    /\ {Header, BufSize, Width, ByteMax, Block, MaxUnread} \subseteq Nat
    /\ {MaxPending, ResumeThreshold, TokenMax, BufCount} \subseteq Nat
    /\ Header <= BufSize /\ 2 * BufSize <= Width
    /\ Lengths \cup Offsets \subseteq 0 .. Width - 1
    /\ MaxUnread < ByteMax /\ Block > 0
    /\ 0 < ResumeThreshold /\ ResumeThreshold <= MaxPending
    /\ 0 < BufCount /\ 2 * BufCount <= TokenMax

\* A ring of at least two entries, whose size divides the counters' range.
ASSUME RingAssumption ==
    /\ Mask \in Nat \ {0}
    /\ Modulus \in Nat \ {0}
    /\ Modulus % (Mask + 1) = 0

VARIABLES
    part,
    write, read, data, tx, rx,
    bus, rx_q, data_path, slave_len, unread, rx_byte_count, int_st, isr, rx_work,
    host_sleep, unnoticed,
    state, held, misreleased, spi_data_path, tx_q, tx_pending, stopped, handshake,
    spi_work, uncounted,
    sdio_state, sdio_host_sleep, sdio_tx_q, queue_items, sdio_tx_pending, sdio_stopped,
    thread, tx_buffer_count, buf_available, token, free, resynced, unmarked, overrun

Q == INSTANCE IpcRing
R == INSTANCE Receive
P == INSTANCE SpiTx WITH data_path <- spi_data_path
D == INSTANCE SdioTx WITH state <- sdio_state, host_sleep <- sdio_host_sleep,
       tx_q <- sdio_tx_q, tx_pending <- sdio_tx_pending, stopped <- sdio_stopped

ringVars == <<write, read, data, tx, rx>>
rxVars == <<bus, rx_q, data_path, slave_len, unread, rx_byte_count, int_st, isr, rx_work,
            host_sleep, unnoticed>>
spiVars == <<state, held, misreleased, spi_data_path, tx_q, tx_pending, stopped, handshake,
             spi_work, uncounted>>
sdioVars == <<sdio_state, sdio_host_sleep, sdio_tx_q, queue_items, sdio_tx_pending,
              sdio_stopped, thread, tx_buffer_count, buf_available, token, free, resynced,
              unmarked, overrun>>
vars == <<part, ringVars, rxVars, spiVars, sdioVars>>

Init ==
    /\ part \in {"ring", "receive", "spi", "sdio"}
    /\ Q!Init /\ R!Init /\ P!Init /\ D!Init
    /\ part # "ring" => data = [s \in 0 .. Mask |-> CHOOSE m \in Msg : TRUE]
    /\ part # "receive" => bus = "shmem"
    /\ part # "spi" => handshake
    /\ part # "sdio" => token = 0

Next ==
    \/ part = "ring" /\ Q!Next /\ UNCHANGED <<part, rxVars, spiVars, sdioVars>>
    \/ part = "receive" /\ R!Next /\ UNCHANGED <<part, ringVars, spiVars, sdioVars>>
    \/ part = "spi" /\ P!Next /\ UNCHANGED <<part, ringVars, rxVars, sdioVars>>
    \/ part = "sdio" /\ D!Next /\ UNCHANGED <<part, ringVars, rxVars, spiVars>>

Spec == Init /\ [][Next]_vars

-----------------------------------------------------------------------------
\* The properties, stated in the modules of the components.

\* The ring is a first-in first-out channel (IpcRing).
RingIsFifo == Q!RingIsFifo

\* What arrives is whole: a ring never holds more than its slots and a callback
\* works on the oldest entry, still in its slot (IpcRing); the header checks
\* let no cut packet pass, and SDIO's ready bytes are counted right and
\* announced or being read (Receive).
ReceivedWhole ==
    /\ Q!NeverOverfull /\ Q!CallbackOwnsEntry
    /\ R!KeptWhole /\ R!CountersAgree /\ R!ReadyIsNoticed

\* Bring-up, its error paths and spi_exit balance (SpiTx).
AllGivenBack == P!AllGivenBack

\* What waits is not forgotten: a queued packet has a run of the SPI work to
\* come, and a stopped network queue a packet whose transmission starts it
\* again (SpiTx, SdioTx).
NothingStalls == P!PacketHasRun /\ P!StoppedHasWaker /\ D!SdioStoppedHasWaker

\* The SDIO thread never writes without a free buffer, sees all that are free,
\* and its counters tell the queues' contents (SdioTx).
NeverOverrun == D!NeverOverrun /\ D!CreditIsSeen /\ D!CountersTell
=============================================================================
