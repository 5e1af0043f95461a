------------------------------ MODULE BlePipe ------------------------------
(***************************************************************************)
(* WiFi setup over BLE: the GATT server of core 0 (ble_prov.c), the task   *)
(* that moves its packets to Linux (send_task), and the character device   *)
(* /dev/esp-ble that a setup program reads (esp_ble_prov.c).  A phone      *)
(* connects, writes packets of bytes, and goes away at any moment.         *)
(***************************************************************************)
EXTENDS Naturals, Sequences

CONSTANTS
    MaxBytes,      \* bound: bytes the phone writes
    MaxPacket,     \* longest packet written
    HostQueue,     \* TO_HOST_QUEUE_SIZE
    MaxQueue       \* ESP_BLE_PROV_MAX_QUEUE

VARIABLES
    synced,        \* the BLE stack is in step with the controller
    connected,     \* conn_handle is valid
    advertising,   \* ble_gap_adv_active()
    watchdog,      \* the advertising callout is armed
    written,       \* bytes the phone wrote so far; a byte is its number
    to_host_queue, \* packets for Linux by priority; the pipe's are "mid", WiFi's empty
    wakeup,        \* the binary semaphore is given
    send_task,     \* "look", "take", "blocked"
    is_open,       \* the device is open
    rx_q,          \* packets the device holds
    reader,        \* a read() sleeps
    woken,         \* the sleeping read() was woken
    accepted,      \* history: bytes accepted since the device was opened
    got            \* history: bytes read since it was opened

vars == <<synced, connected, advertising, watchdog, written, to_host_queue, wakeup, send_task,
          is_open, rx_q, reader, woken, accepted, got>>
gapVars == <<synced, connected, advertising, watchdog>>
fwVars == <<written, to_host_queue, wakeup, send_task>>
devVars == <<is_open, rx_q, reader, woken, accepted, got>>

Priorities == {"high", "mid", "low"}

Empty == \A q \in Priorities : to_host_queue[q] = << >>

Init ==
    /\ synced = FALSE
    /\ connected = FALSE
    /\ advertising = FALSE
    /\ watchdog = FALSE
    /\ written = 0
    /\ to_host_queue = [q \in Priorities |-> << >>]
    /\ wakeup = FALSE
    /\ send_task = "look"
    /\ is_open = FALSE
    /\ rx_q = << >>
    /\ reader = FALSE
    /\ woken = FALSE
    /\ accepted = << >>
    /\ got = << >>

-----------------------------------------------------------------------------
(* Advertising *)

\* The stack may refuse, and does while it is not in step; start_advertising()
\* ignores that.  active: whether it advertises already.
start_advertising(active) ==
    advertising' \in {active} \cup {a \in {TRUE} : synced'}

ensure_advertising(active) ==
    IF ~connected' /\ ~active THEN start_advertising(active) ELSE advertising' = active

\* The stack is in step: advertise, and arm the callout, unless no address can
\* be had.
on_sync ==
    /\ ~synced
    /\ synced' = TRUE
    /\ \/ UNCHANGED <<advertising, watchdog>>
       \/ start_advertising(advertising) /\ watchdog' = TRUE
    /\ UNCHANGED <<connected, fwVars, devVars>>

\* The controller was reset: the stack reports the end of the connection and of
\* the advertising, and on_reset() does nothing.
on_reset ==
    /\ synced
    /\ synced' = FALSE
    /\ connected' = FALSE
    /\ advertising' = FALSE
    /\ UNCHANGED <<watchdog, fwVars, devVars>>

\* Fault: the callout is armed again only while nobody is connected.
adv_watchdog_cb_Once ==
    /\ watchdog
    /\ UNCHANGED <<synced, connected>>
    /\ ensure_advertising(advertising)
    /\ watchdog' = ~connected
    /\ UNCHANGED <<fwVars, devVars>>

\* The five second callout.
adv_watchdog_cb ==
    /\ watchdog
    /\ UNCHANGED <<synced, connected>>
    /\ ensure_advertising(advertising)
    /\ watchdog' = TRUE
    /\ UNCHANGED <<fwVars, devVars>>

\* BLE_GAP_EVENT_CONNECT with a connection: the controller stops advertising.
gap_event_connect ==
    /\ advertising
    /\ connected' = TRUE
    /\ advertising' = FALSE
    /\ UNCHANGED <<synced, watchdog, fwVars, devVars>>

\* BLE_GAP_EVENT_CONNECT without one, or BLE_GAP_EVENT_ADV_COMPLETE.
gap_event_adv_end ==
    /\ advertising
    /\ UNCHANGED <<synced, connected, watchdog, fwVars, devVars>>
    /\ ensure_advertising(FALSE)

\* BLE_GAP_EVENT_DISCONNECT.
gap_event_disconnect ==
    /\ connected
    /\ connected' = FALSE
    /\ UNCHANGED <<synced, watchdog, fwVars, devVars>>
    /\ ensure_advertising(advertising)

-----------------------------------------------------------------------------
(* From the phone to Linux, on core 0 *)

\* nus_access_cb() and ble_prov_to_linux(): a packet is queued, or dropped if
\* the queue stays full for 50 ms or memory is short.
ble_prov_to_linux ==
    /\ connected
    /\ \E n \in 1 .. MaxPacket :
         /\ written + n <= MaxBytes
         /\ written' = written + n
         /\ \/ UNCHANGED to_host_queue
            \/ /\ Len(to_host_queue["mid"]) < HostQueue
               /\ to_host_queue' = [to_host_queue EXCEPT !["mid"] =
                                      Append(@, [i \in 1 .. n |-> written + i])]
    /\ UNCHANGED <<gapVars, wakeup, send_task, devVars>>

\* send_to_host(), wlan_sta_rx_callback(): the other packets.
send_to_host ==
    /\ \E q \in {"high", "low"} :
         /\ Len(to_host_queue[q]) < HostQueue
         /\ to_host_queue' = [to_host_queue EXCEPT ![q] = Append(@, << >>)]
    /\ wakeup' = TRUE
    /\ UNCHANGED <<gapVars, written, send_task, devVars>>

\* send_task() finds nothing queued and goes to take the semaphore.
send_task_Empty ==
    /\ send_task = "look"
    /\ Empty
    /\ send_task' = "take"
    /\ UNCHANGED <<gapVars, written, to_host_queue, wakeup, devVars>>

\* xSemaphoreTake(): at once, or after blocking.
send_task_Take ==
    /\ \/ wakeup /\ send_task # "look" /\ send_task' = "look"
       \/ ~wakeup /\ send_task = "take" /\ send_task' = "blocked"
    /\ wakeup' = FALSE
    /\ UNCHANGED <<gapVars, written, to_host_queue, devVars>>

\* Its 50 ms pass.
send_task_Timeout ==
    /\ send_task = "blocked"
    /\ send_task' = "look"
    /\ UNCHANGED <<gapVars, written, to_host_queue, wakeup, devVars>>

-----------------------------------------------------------------------------
(* The device *)

\* Fault: sleeping readers are not woken.
esp_ble_prov_rx_NoWake(p) ==
    IF p = << >> \/ ~is_open \/ Len(rx_q) >= MaxQueue
    THEN UNCHANGED <<rx_q, accepted, woken>>
    ELSE /\ rx_q' = Append(rx_q, p)
         /\ accepted' = accepted \o p
         /\ UNCHANGED woken

\* A packet of the pipe is queued if somebody has the device open and there is
\* room, and wakes a sleeping read().
esp_ble_prov_rx(p) ==
    IF p = << >> \/ ~is_open \/ Len(rx_q) >= MaxQueue
    THEN UNCHANGED <<rx_q, accepted, woken>>
    ELSE /\ rx_q' = Append(rx_q, p)
         /\ accepted' = accepted \o p
         /\ woken' = reader

\* The queue send_task() serves next.
NextQueue ==
    IF to_host_queue["high"] # << >> THEN "high"
    ELSE IF to_host_queue["mid"] # << >> THEN "mid" ELSE "low"

\* send_task() moves a packet to Linux, which hands it to its interface; on the
\* way it may be lost for want of memory.
send_task_Send ==
    /\ send_task = "look"
    /\ ~Empty
    /\ to_host_queue' = [to_host_queue EXCEPT ![NextQueue] = Tail(@)]
    /\ \/ UNCHANGED <<rx_q, accepted, woken>>
       \/ esp_ble_prov_rx(Head(to_host_queue[NextQueue]))
    /\ UNCHANGED <<gapVars, written, wakeup, send_task, is_open, reader, got>>

\* Only one open at a time; it starts with nothing queued.
esp_ble_prov_open ==
    /\ ~is_open
    /\ is_open' = TRUE
    /\ rx_q' = << >>
    /\ accepted' = << >>
    /\ got' = << >>
    /\ UNCHANGED <<gapVars, fwVars, reader, woken>>

\* Fault: what is left of a packet goes to the end of the queue.
esp_ble_prov_take_Tail(count) ==
    LET p == Head(rx_q)
        rest == SubSeq(p, count + 1, Len(p))
    IN  /\ rx_q' = IF rest = << >> THEN Tail(rx_q) ELSE Append(Tail(rx_q), rest)
        /\ got' = got \o SubSeq(p, 1, IF count < Len(p) THEN count ELSE Len(p))

\* read() of at most count bytes: what is left of the packet goes back.
esp_ble_prov_take(count) ==
    LET p == Head(rx_q)
        rest == SubSeq(p, count + 1, Len(p))
    IN  /\ rx_q' = IF rest = << >> THEN Tail(rx_q) ELSE <<rest>> \o Tail(rx_q)
        /\ got' = got \o SubSeq(p, 1, IF count < Len(p) THEN count ELSE Len(p))

\* read() returns at once, or sleeps.
esp_ble_prov_read ==
    /\ is_open /\ ~reader
    /\ IF rx_q = << >>
       THEN reader' = TRUE /\ UNCHANGED <<rx_q, got>>
       ELSE /\ \E count \in 1 .. MaxPacket : esp_ble_prov_take(count)
            /\ UNCHANGED reader
    /\ UNCHANGED <<gapVars, fwVars, is_open, woken, accepted>>

\* A woken read() looks again; a signal makes it return.
esp_ble_prov_read_Woken ==
    /\ reader /\ woken /\ rx_q # << >>
    /\ \E count \in 1 .. MaxPacket : esp_ble_prov_take(count)
    /\ reader' = FALSE
    /\ woken' = FALSE
    /\ UNCHANGED <<gapVars, fwVars, is_open, accepted>>

esp_ble_prov_read_Signal ==
    /\ reader
    /\ reader' = FALSE
    /\ woken' = FALSE
    /\ UNCHANGED <<gapVars, fwVars, is_open, rx_q, accepted, got>>

\* The last close; no read() is in progress.
esp_ble_prov_release ==
    /\ is_open /\ ~reader
    /\ is_open' = FALSE
    /\ rx_q' = << >>
    /\ accepted' = << >>
    /\ got' = << >>
    /\ UNCHANGED <<gapVars, fwVars, reader, woken>>

Next ==
    \/ on_sync
    \/ on_reset
    \/ adv_watchdog_cb
    \/ gap_event_connect
    \/ gap_event_adv_end
    \/ gap_event_disconnect
    \/ ble_prov_to_linux
    \/ send_to_host
    \/ send_task_Empty
    \/ send_task_Take
    \/ send_task_Timeout
    \/ send_task_Send
    \/ esp_ble_prov_open
    \/ esp_ble_prov_read
    \/ esp_ble_prov_read_Woken
    \/ esp_ble_prov_read_Signal
    \/ esp_ble_prov_release

\* The callout fires for ever and the stack does not refuse to advertise for
\* ever; send_task runs; a woken read() is scheduled.
Fairness ==
    /\ WF_vars(on_sync)
    /\ SF_vars(adv_watchdog_cb /\ advertising')
    /\ WF_vars(send_task_Empty) /\ WF_vars(send_task_Take)
    /\ WF_vars(send_task_Timeout) /\ WF_vars(send_task_Send)
    /\ WF_vars(esp_ble_prov_read_Woken)

Spec == Init /\ [][Next]_vars /\ Fairness
-----------------------------------------------------------------------------
\* The bytes of a queue of packets, in order.
Bytes(q) ==
    LET upto[i \in 0 .. Len(q)] == IF i = 0 THEN << >> ELSE upto[i - 1] \o q[i]
    IN  upto[Len(q)]

\* The device is a stream: what was read since it was opened, followed by what
\* is queued, is what was accepted since then; a short read loses, repeats and
\* reorders nothing, and nothing of an earlier session is seen.
PipeIsStream == accepted = got \o Bytes(rx_q)

\* A read() never sleeps on a device that has data: it has been woken.
ReaderIsWoken == reader /\ rx_q # << >> => woken

\* Once the callout was armed, a board that is not connected advertises again:
\* whatever ended the last connection, a start that was refused, a stack reset.
Discoverable == [](watchdog => [](~connected => <>(advertising \/ connected)))
=============================================================================
