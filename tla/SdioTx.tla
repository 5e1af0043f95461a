------------------------------- MODULE SdioTx -------------------------------
(***************************************************************************)
(* esp_sdio.c, transmission: three queues emptied by one thread, the       *)
(* credit scheme that keeps the thread from writing without a buffer in    *)
(* the chip, the counter that pauses and resumes the network queue, and    *)
(* probe, removal, suspend and resume.  Every packet fits one buffer of    *)
(* the chip: write_packet refuses longer ones.                             *)
(***************************************************************************)
EXTENDS Naturals, Sequences

CONSTANTS
    TokenMax,        \* ESP_TX_BUFFER_MAX: the chip's token counter wraps here
    BufCount,        \* ESP_MAX_BUF_CNT: buffers of the chip
    MaxPending,      \* TX_MAX_PENDING_COUNT
    ResumeThreshold, \* TX_RESUME_THRESHOLD
    MaxQueued        \* bound: packets in the transmit queues

VARIABLES
    state,           \* "none", "ready", "init" (being removed), "disabled"
    host_sleep,
    tx_q,            \* tx_q[prio]: for each packet, whether its cb names the interface
    queue_items,
    tx_pending,
    stopped,         \* the network queue is stopped
    thread,          \* tx_process: "none", "top", or with a packet: "look"
                     \* for a buffer, "again", or "write"
    tx_buffer_count, \* buffers used, as the driver counts them
    buf_available,   \* static in is_sdio_write_buffer_available
    token,           \* ESP_SLAVE_TOKEN_RDATA: buffers offered so far
    free,            \* buffers of the chip ready for the host
    resynced,        \* history: counted anew while buffers were in use, or
                     \* with the token just past its wrap
    unmarked,        \* history: packets do not name their interface
    overrun          \* history: written without a free buffer

drvVars == <<state, host_sleep>>
qVars == <<tx_q, queue_items, tx_pending, stopped>>
chipVars == <<token, free>>
vars == <<drvVars, qVars, thread, tx_buffer_count, buf_available, chipVars,
          resynced, unmarked, overrun>>

Prios == 1 .. 3
Empty == [prio \in Prios |-> << >>]
Queued == Len(tx_q[1]) + Len(tx_q[2]) + Len(tx_q[3])

Init ==
    /\ state = "none" /\ host_sleep = FALSE
    /\ tx_q = Empty /\ queue_items = [prio \in Prios |-> 0]
    /\ tx_pending = 0 /\ stopped = FALSE
    /\ thread = "none"
    /\ tx_buffer_count = 0 /\ buf_available = 0
    /\ token \in 0 .. TokenMax - 1 /\ free = BufCount
    /\ resynced = FALSE /\ unmarked = FALSE /\ overrun = FALSE

\* The chip is done with a buffer and offers it again.
ChipFrees ==
    /\ free < BufCount
    /\ free' = free + 1
    /\ token' = (token + 1) % TokenMax
    /\ UNCHANGED <<drvVars, qVars, thread, tx_buffer_count, buf_available,
                   resynced, unmarked, overrun>>

----------------------------------------------------------------------------
\* Fault: the buffers the chip offers are taken for used ones.
get_firmware_data_Token ==
    /\ tx_buffer_count' = token
    /\ resynced' = (resynced \/ free < BufCount \/ token < BufCount)

\* Assumes that all of the chip's buffers are free, and does not wrap.
get_firmware_data ==
    /\ tx_buffer_count' = IF token >= BufCount THEN token - BufCount ELSE 0
    /\ resynced' = (resynced \/ free < BufCount \/ token < BufCount)

\* Probe finds a chip that has just started; reading its registers may fail.
esp_probe ==
    /\ state = "none"
    /\ free = BufCount
    /\ \/ /\ state' = "ready"
          /\ get_firmware_data
          /\ tx_q' = Empty /\ queue_items' = [prio \in Prios |-> 0]
          /\ thread' = "top"
       \/ UNCHANGED <<state, tx_buffer_count, resynced, tx_q, queue_items, thread>>
    /\ tx_pending' = 0
    /\ UNCHANGED <<host_sleep, stopped, buf_available, chipVars, unmarked, overrun>>

esp_suspend ==
    /\ state = "ready" /\ ~host_sleep
    /\ host_sleep' = TRUE
    /\ UNCHANGED <<state, qVars, thread, tx_buffer_count, buf_available, chipVars,
                   resynced, unmarked, overrun>>

\* The thread may still be busy with a packet when the host goes to sleep.
esp_resume ==
    /\ state = "ready" /\ host_sleep
    /\ host_sleep' = FALSE
    /\ get_firmware_data
    /\ UNCHANGED <<state, qVars, thread, buf_available, chipVars, unmarked, overrun>>

\* Removal, first half: the queues are purged, their counters stay.
esp_remove ==
    /\ state = "ready" /\ ~host_sleep
    /\ state' = "init"
    /\ tx_q' = Empty
    /\ UNCHANGED <<host_sleep, queue_items, tx_pending, stopped, thread, tx_buffer_count,
                   buf_available, chipVars, resynced, unmarked, overrun>>

\* kthread_stop: the thread ends at the top of its loop.
StopThread ==
    /\ state = "init" /\ thread = "top"
    /\ thread' = "none"
    /\ state' = "disabled"
    /\ UNCHANGED <<host_sleep, qVars, tx_buffer_count, buf_available, chipVars,
                   resynced, unmarked, overrun>>

\* The card is removed and the context wiped: what was queued meanwhile is
\* in no queue any more.  Credit lives on in buf_available.
WipeContext ==
    /\ state = "disabled"
    /\ state' = "none"
    /\ tx_q' = Empty
    /\ stopped' = FALSE
    /\ tx_buffer_count' = 0
    /\ free' = BufCount               \* the chip starts again
    /\ token' \in 0 .. TokenMax - 1
    /\ unmarked' = FALSE
    /\ UNCHANGED <<host_sleep, queue_items, tx_pending, thread, buf_available, resynced, overrun>>

----------------------------------------------------------------------------
\* Any caller, also while the card is being removed: only the length and the
\* load are looked at.  The network sends nothing while its queue is stopped
\* or the host sleeps; a packet that was reallocated does not name its
\* interface (bound: tx_pending, which only unnamed packets can push on).
write_packet(prio, marked) ==
    /\ state # "none" /\ Queued < MaxQueued /\ tx_pending <= MaxPending + 1
    /\ IF prio = 3 THEN ~stopped /\ ~host_sleep ELSE ~marked
    /\ IF marked /\ tx_pending >= MaxPending
       THEN /\ stopped' = TRUE
            /\ unmarked' = (unmarked \/ tx_q[3] = << >>)
            /\ UNCHANGED <<tx_q, queue_items, tx_pending>>
       ELSE /\ tx_q' = [tx_q EXCEPT ![prio] = Append(@, marked)]
            /\ queue_items' = [queue_items EXCEPT ![prio] = @ + 1]
            /\ tx_pending' = tx_pending + 1
            /\ unmarked' = (unmarked \/ (prio = 3 /\ ~marked))
            /\ UNCHANGED stopped
    /\ UNCHANGED <<drvVars, thread, tx_buffer_count, buf_available, chipVars,
                   resynced, overrun>>

\* Fault: the thread counts a packet off its own queue only.
Dequeue_Lazy(prio) ==
    /\ tx_q' = [tx_q EXCEPT ![prio] = Tail(@)]
    /\ queue_items' = [queue_items EXCEPT ![prio] = @ - 1]
    /\ tx_pending' = IF prio = 3 THEN tx_pending - 1 ELSE tx_pending
    /\ stopped' = (stopped /\ ~(Head(tx_q[prio]) /\ tx_pending' < ResumeThreshold))

\* Fault: the load is looked at before the packet is taken off it.
Dequeue_Before(prio) ==
    /\ tx_q' = [tx_q EXCEPT ![prio] = Tail(@)]
    /\ queue_items' = [queue_items EXCEPT ![prio] = @ - 1]
    /\ tx_pending' = IF tx_pending > 0 THEN tx_pending - 1 ELSE 0
    /\ stopped' = (stopped /\ ~(Head(tx_q[prio]) /\ tx_pending < ResumeThreshold))

\* Takes a packet, and resumes the network queue at a bearable load.
Dequeue(prio) ==
    /\ tx_q' = [tx_q EXCEPT ![prio] = Tail(@)]
    /\ queue_items' = [queue_items EXCEPT ![prio] = @ - 1]
    /\ tx_pending' = IF tx_pending > 0 THEN tx_pending - 1 ELSE 0
    /\ stopped' = (stopped /\ ~(Head(tx_q[prio]) /\ tx_pending' < ResumeThreshold))

\* The loop of the thread up to the packet; an empty queue sends it back.
tx_process ==
    /\ thread = "top" /\ state = "ready" /\ ~host_sleep
    /\ \E prio \in Prios :
         /\ queue_items[prio] > 0 /\ \A p \in 1 .. prio - 1 : queue_items[p] = 0
         /\ tx_q[prio] # << >>
         /\ Dequeue(prio)
    /\ thread' = "look"
    /\ UNCHANGED <<drvVars, tx_buffer_count, buf_available, chipVars,
                   resynced, unmarked, overrun>>

esp_slave_get_tx_buffer_num == (token + TokenMax - tx_buffer_count) % TokenMax

\* Fault: what the chip offers is added to what was left.
Credit_Added(available) == IF available < 1 THEN available + esp_slave_get_tx_buffer_num + 1 ELSE available

\* Credit left over is used up before the chip is asked again.
Credit(available) == IF available < 1 THEN esp_slave_get_tx_buffer_num ELSE available

\* One turn of the loop; reading the register may fail.  When no buffer is
\* free after the second turn the packet is dropped.
is_sdio_write_buffer_available ==
    /\ thread \in {"look", "again"}
    /\ \E available \in {Credit(buf_available), buf_available} :
         IF available >= 1
         THEN buf_available' = available - 1 /\ thread' = "write"
         ELSE buf_available' = available /\ thread' = IF thread = "look" THEN "again" ELSE "top"
    /\ UNCHANGED <<drvVars, qVars, tx_buffer_count, chipVars, resynced, unmarked, overrun>>

\* The transfer into a buffer of the chip, which may fail.
esp_write_block ==
    /\ thread = "write"
    /\ thread' = "top"
    /\ \/ /\ overrun' = (overrun \/ free = 0)
          /\ free' = IF free = 0 THEN 0 ELSE free - 1
          /\ tx_buffer_count' = (tx_buffer_count + 1) % TokenMax
       \/ UNCHANGED <<overrun, free, tx_buffer_count>>
    /\ UNCHANGED <<drvVars, qVars, buf_available, token, resynced, unmarked>>

Next ==
    \/ ChipFrees
    \/ esp_probe
    \/ esp_suspend
    \/ esp_resume
    \/ esp_remove
    \/ StopThread
    \/ WipeContext
    \/ \E prio \in Prios, marked \in BOOLEAN : write_packet(prio, marked)
    \/ tx_process
    \/ is_sdio_write_buffer_available
    \/ esp_write_block

Spec == Init /\ [][Next]_vars

----------------------------------------------------------------------------
\* The thread never writes without a free buffer in the chip, and the credit
\* it keeps never exceeds the free buffers, across the wrap of the token,
\* failed transfers and a new probe with the old credit; unless the count was
\* once taken anew while buffers were in use (resynced).
NeverOverrun ==
    ~resynced => ~overrun /\ buf_available + (IF thread = "write" THEN 1 ELSE 0) <= free

\* As long as the card is there the counters tell the queues' contents, which
\* is what the thread and the pause decide by.
CountersTell ==
    state = "ready" =>
      /\ \A prio \in Prios : queue_items[prio] = Len(tx_q[prio])
      /\ tx_pending = Queued

\* Buffers that are free can be used: the chip's token and the driver's count
\* differ by exactly the free buffers, unless counted anew too early.
CreditIsSeen == state = "ready" /\ ~resynced => esp_slave_get_tx_buffer_num = free

\* While the network queue is stopped a packet waits whose transmission will
\* start it again, unless packets have lost their interface (unmarked).
SdioStoppedHasWaker ==
    stopped /\ state = "ready" /\ ~unmarked => \E i \in DOMAIN tx_q[3] : tx_q[3][i]
=============================================================================
