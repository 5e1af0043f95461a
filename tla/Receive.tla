------------------------------ MODULE Receive -------------------------------
(***************************************************************************)
(* Packets from core 0, or from the chip behind a bus, up to the receive   *)
(* work: the header checks of esp_shmem.c and esp_spi.c, the three receive *)
(* queues, and for SDIO (esp_sdio.c) the byte counter of which the driver  *)
(* keeps its own copy, and the interrupt that announces packets.           *)
(***************************************************************************)
EXTENDS Naturals, Sequences

CONSTANTS
    Header,    \* sizeof(struct esp_payload_header)
    BufSize,   \* SHMEM_BUF_SIZE, SPI_BUF_SIZE
    Width,     \* 2^16, the range of len and offset
    Lengths, Offsets, \* values sent in headers
    MaxQueued, \* bound: packets in the receive queues
    ByteMax,   \* ESP_RX_BYTE_MAX
    Block,     \* ESP_BLOCK_SIZE
    MaxUnread  \* bound: bytes the SDIO chip has ready

VARIABLES
    bus,           \* "shmem", "spi" or "sdio"
    rx_q,          \* rx_q[prio]: packets [len, kept]
    data_path,     \* esp_spi.c
    slave_len,     \* ESP_SLAVE_PACKET_LEN_REG: bytes made ready so far
    unread,        \* of these, the ones not transferred yet
    rx_byte_count, \* context->rx_byte_count
    int_st,        \* ESP_SLAVE_RX_NEW_PACKET_INT
    isr,           \* "idle", or "seen": between status read and clear
    rx_work,       \* the receive work is queued or running
    host_sleep,
    unnoticed      \* history: a way the driver stops short of what is ready

queueVars == <<rx_q, data_path>>
sdioVars == <<slave_len, unread, rx_byte_count, int_st, isr, host_sleep, unnoticed>>
vars == <<bus, queueVars, sdioVars, rx_work>>

Init ==
    /\ bus \in {"shmem", "spi", "sdio"}
    /\ rx_q = [prio \in 1 .. 3 |-> << >>]
    /\ data_path = TRUE
    /\ slave_len \in 0 .. ByteMax - 1 /\ unread = 0 /\ rx_byte_count = slave_len
    /\ bus # "sdio" => slave_len = 0
    /\ int_st = FALSE /\ isr = "idle" /\ rx_work = FALSE /\ host_sleep = FALSE
    /\ unnoticed = FALSE

----------------------------------------------------------------------------
\* Shared memory and SPI: a packet with its header.

Prio(if_type) == CASE if_type = "internal" -> 1 [] if_type = "hci" -> 2 [] OTHER -> 3

Enqueue(if_type, p) == rx_q' = [rx_q EXCEPT ![Prio(if_type)] = Append(@, p)]

\* Fault: the sum is kept in 16 bits.
shmem_process_rx_buf_u16(if_type, len, offset) ==
    LET total == (len + Header) % Width IN
    IF if_type = "bad" \/ offset # Header \/ len = 0 \/ total > BufSize
    THEN UNCHANGED rx_q
    ELSE Enqueue(if_type, [len |-> len, kept |-> total])

\* The rest of the buffer is cut off.
shmem_process_rx_buf(if_type, len, offset) ==
    LET total == len + Header IN
    IF if_type = "bad" \/ offset # Header \/ len = 0 \/ total > BufSize
    THEN UNCHANGED rx_q
    ELSE Enqueue(if_type, [len |-> len, kept |-> total])

\* Fault: only the shortest packet is refused.
esp_wifi_shmem_handle_rx_Unbounded(if_type, len, offset) ==
    IF len + offset < Header THEN UNCHANGED rx_q
    ELSE shmem_process_rx_buf_u16(if_type, len, offset)

\* Only as much is copied as the header says.
esp_wifi_shmem_handle_rx(if_type, len, offset) ==
    IF len + offset < Header \/ len + offset > BufSize THEN UNCHANGED rx_q
    ELSE shmem_process_rx_buf(if_type, len, offset)

\* Here the sum is kept in 16 bits.
spi_process_rx_buf(if_type, len, offset) ==
    LET total == (len + Header) % Width IN
    IF if_type = "bad" \/ offset # Header \/ len = 0 \/ total > BufSize \/ ~data_path
    THEN UNCHANGED rx_q
    ELSE Enqueue(if_type, [len |-> len, kept |-> total])

Packet(if_type, len, offset) ==
    /\ Len(rx_q[1]) + Len(rx_q[2]) + Len(rx_q[3]) < MaxQueued
    /\ \/ bus = "shmem" /\ esp_wifi_shmem_handle_rx(if_type, len, offset)
       \/ bus = "spi" /\ spi_process_rx_buf(if_type, len, offset)
    /\ rx_work' = (rx_work \/ bus = "shmem" \/ rx_q' # rx_q)
    /\ UNCHANGED <<bus, data_path, sdioVars>>

\* The work reads until nothing is left; SPI reads nothing while the data
\* path is closed.
read_packet ==
    /\ bus # "sdio" /\ rx_work
    /\ IF data_path /\ \E prio \in 1 .. 3 : rx_q[prio] # << >>
       THEN /\ \E prio \in 1 .. 3 :
                 /\ rx_q[prio] # << >>
                 /\ \A p \in 1 .. prio - 1 : rx_q[p] = << >>
                 /\ rx_q' = [rx_q EXCEPT ![prio] = Tail(@)]
            /\ UNCHANGED rx_work
       ELSE rx_work' = FALSE /\ UNCHANGED rx_q
    /\ UNCHANGED <<bus, data_path, sdioVars>>

close_data_path ==
    /\ bus = "spi" /\ data_path
    /\ data_path' = FALSE
    /\ UNCHANGED <<bus, rx_q, sdioVars, rx_work>>

----------------------------------------------------------------------------
\* SDIO: a stream of bytes and two counters.

SlaveSends(n) ==
    /\ bus = "sdio" /\ unread + n <= MaxUnread /\ ~host_sleep
    /\ slave_len' = (slave_len + n) % ByteMax
    /\ unread' = unread + n
    /\ int_st' = TRUE
    /\ unnoticed' = (unnoticed \/ isr = "seen")
    /\ UNCHANGED <<bus, queueVars, rx_byte_count, isr, rx_work, host_sleep>>

\* esp_process_interrupt queues the work before the status is cleared.
esp_handle_isr ==
    /\ bus = "sdio" /\ int_st /\ isr = "idle" /\ ~host_sleep
    /\ isr' = "seen"
    /\ rx_work' = TRUE
    /\ UNCHANGED <<bus, queueVars, slave_len, unread, rx_byte_count, int_st, host_sleep, unnoticed>>

ClearStatus ==
    /\ isr = "seen"
    /\ isr' = "idle"
    /\ int_st' = FALSE
    /\ UNCHANGED <<bus, queueVars, slave_len, unread, rx_byte_count, rx_work, host_sleep, unnoticed>>

esp_get_len_from_slave ==
    IF slave_len >= rx_byte_count THEN (slave_len + ByteMax - rx_byte_count) % ByteMax
    ELSE (ByteMax - rx_byte_count) + slave_len

\* Bytes leave the chip; the counter follows.
esp_read_block(n) ==
    /\ unread' = unread - n
    /\ rx_byte_count' = (rx_byte_count + n) % ByteMax

\* Fault: the counter follows only when all of it was read.
sdio_read_packet_AtEnd ==
    /\ bus = "sdio" /\ rx_work
    /\ LET len == esp_get_len_from_slave IN
       \/ len = 0 /\ rx_work' = FALSE /\ UNCHANGED <<unread, rx_byte_count, unnoticed>>
       \/ len > 0 /\ esp_read_block(len) /\ UNCHANGED <<rx_work, unnoticed>>
       \/ \E blocks \in 0 .. len \div Block :
            /\ len > 0
            /\ unread' = unread - blocks * Block
            /\ UNCHANGED rx_byte_count
            /\ rx_work' = FALSE /\ unnoticed' = TRUE
    /\ UNCHANGED <<bus, queueVars, slave_len, int_st, isr, host_sleep>>

\* Fault: one block for each interrupt.
sdio_read_packet_OneBlock ==
    /\ bus = "sdio" /\ rx_work
    /\ LET len == esp_get_len_from_slave IN
       esp_read_block(IF len > Block THEN Block ELSE len)
    /\ rx_work' = FALSE
    /\ UNCHANGED <<bus, queueVars, slave_len, int_st, isr, host_sleep, unnoticed>>

\* First the whole blocks, then the rest.  The loop of the work ends when
\* nothing is left, and also when there is no memory or a transfer fails.
sdio_read_packet ==
    /\ bus = "sdio" /\ rx_work
    /\ LET len == esp_get_len_from_slave IN
       \/ len = 0 /\ rx_work' = FALSE /\ UNCHANGED <<unread, rx_byte_count, unnoticed>>
       \/ len > 0 /\ esp_read_block(len) /\ UNCHANGED <<rx_work, unnoticed>>
       \/ \E done \in {0, (len \div Block) * Block} :
            /\ len > done
            /\ esp_read_block(done)
            /\ rx_work' = FALSE /\ unnoticed' = TRUE
    /\ UNCHANGED <<bus, queueVars, slave_len, int_st, isr, host_sleep>>

esp_suspend ==
    /\ bus = "sdio" /\ ~host_sleep
    /\ host_sleep' = TRUE
    /\ UNCHANGED <<bus, queueVars, slave_len, unread, rx_byte_count, int_st, isr, rx_work, unnoticed>>

\* The counter is taken over from the chip, as at probe; what was ready and
\* not read until then is passed over.
get_firmware_data ==
    /\ host_sleep
    /\ host_sleep' = FALSE
    /\ rx_byte_count' = slave_len
    /\ unnoticed' = (unnoticed \/ unread > 0)
    /\ unread' = 0
    /\ UNCHANGED <<bus, queueVars, slave_len, int_st, isr, rx_work>>

Next ==
    \/ \E if_type \in {"internal", "hci", "sta", "bad"}, len \in Lengths, offset \in Offsets :
         Packet(if_type, len, offset)
    \/ read_packet
    \/ close_data_path
    \/ \E n \in 1 .. MaxUnread : SlaveSends(n)
    \/ esp_handle_isr
    \/ ClearStatus
    \/ sdio_read_packet
    \/ esp_suspend
    \/ get_firmware_data

Spec == Init /\ [][Next]_vars

----------------------------------------------------------------------------
\* A packet that passes the checks is as long as its header says and fits the
\* buffer it was copied into: over shared memory for every 16 bit length and
\* offset, over SPI as long as the length and the header do not wrap.
KeptWhole ==
    \A prio \in 1 .. 3 : \A i \in DOMAIN rx_q[prio] :
      LET p == rx_q[prio][i] IN
      bus = "shmem" \/ p.len + Header < Width
        => p.kept = p.len + Header /\ p.kept <= BufSize

\* The driver's copy of the byte counter and the chip's own tell how much is
\* ready, across the roll-over, failed transfers and a resume.
CountersAgree == esp_get_len_from_slave = unread

\* Bytes that are ready are announced, or the receive work is about; except
\* after a packet came between the handler's look at the status and its
\* clearing it, or after a read was broken off (unnoticed).
ReadyIsNoticed == unread > 0 => int_st \/ rx_work \/ unnoticed
=============================================================================
