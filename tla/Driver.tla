------------------------------- MODULE Driver -------------------------------
(***************************************************************************)
(* The life of the WiFi driver (main.c, esp_cfg80211.c, esp_cmd.c,         *)
(* esp_bt.c): core 0's boot event brings the card up in the events work,   *)
(* received packets are dispatched to what exists by then, and removal,    *)
(* or on SPI the next boot event, takes it all down again.  Every process  *)
(* runs from one sleep to the next in one step.  A step that uses an       *)
(* object already freed adds it to misused, and nothing is claimed of what *)
(* happens afterwards.                                                     *)
(***************************************************************************)
EXTENDS Naturals, Sequences

CONSTANTS
    None,
    Buses,     \* transports: a subset of {"shmem", "spi"}
    MaxPackets \* bound: packets core 0 sends

ASSUME DriverAssumption ==
    /\ Buses \subseteq {"shmem", "spi"} /\ MaxPackets \in Nat
    /\ None \notin {"unregistered", "registered", "made", "up", "live", "stale"}

VARIABLES
    bus, bt,     \* the build: transport, CONFIG_ESP32_BT
    pc,          \* where each process is
    rtnl,        \* the process that sleeps with the RTNL held, or None
    sent,        \* packets core 0 sent so far
    rx_on,       \* core 0's packets reach the driver
    rx_q,        \* received, not dispatched
    events_q,    \* adapter->events_skb_q
    events_work, \* the events work is queued
    flags,       \* adapter->state_flags
    cmd_pool, wiphy, priv, hcidev, \* pointers of the adapter
    running,     \* the interface is up
    port_open,   \* priv->port_open
    notifier,    \* priv->nb is on the inetaddr chain
    misc,        \* /dev/esp-ble is registered
    mcast_priv,  \* mcast_list.priv
    orphaned,    \* processes asleep on a command node that was freed
    leaked, misused,
    overtaken, late, refused \* history, see the properties

adapterVars == <<flags, cmd_pool, wiphy, priv, hcidev>>
devVars == <<running, port_open, notifier, misc, mcast_priv>>
rxVars == <<sent, rx_on, rx_q, events_q, events_work>>
histVars == <<overtaken, late, refused>>
vars == <<bus, bt, pc, rtnl, adapterVars, devVars, rxVars, orphaned, leaked, misused, histVars>>

Procs == {"up", "down", "user", "filter"}
Asleep(p) == pc[p] \in {"init", "mac", "deinit", "asleep"}
Go(p, l) == pc' = [pc EXCEPT ![p] = l]

\* The object behind a pointer is used: it had better be there.
Use(obj, bad) == misused' = IF bad THEN misused \cup {obj} ELSE misused
\* A pointer to something that exists is overwritten.
Lose(obj, there) == leaked' = IF there THEN leaked \cup {obj} ELSE leaked

Init ==
    /\ bus \in Buses /\ bt \in BOOLEAN
    /\ pc = [p \in Procs |-> "idle"]
    /\ rtnl = None
    /\ sent = 0 /\ rx_on = TRUE /\ rx_q = << >>
    /\ events_q = << >> /\ events_work = FALSE
    /\ flags = {}
    /\ cmd_pool = FALSE /\ wiphy = None /\ priv = None /\ hcidev = None
    /\ running = FALSE /\ port_open = FALSE /\ notifier = FALSE /\ misc = FALSE
    /\ mcast_priv = None
    /\ orphaned = {} /\ leaked = {} /\ misused = {}
    /\ overtaken = FALSE /\ late = FALSE /\ refused = FALSE

----------------------------------------------------------------------------
\* Receiving.

\* One boot event per start of the driver, or of the chip behind SPI.
CoreZeroSends(k) ==
    /\ rx_on /\ sent < MaxPackets
    /\ k = "bootup" /\ bus = "shmem" => sent = 0
    /\ sent' = sent + 1
    /\ rx_q' = Append(rx_q, k)
    /\ UNCHANGED <<bus, bt, pc, rtnl, adapterVars, devVars, rx_on, events_q, events_work,
                   orphaned, leaked, misused, histVars>>

\* For the interface, the HCI device or the events work.
process_rx_packet ==
    /\ rx_q # << >>
    /\ rx_q' = Tail(rx_q)
    /\ LET k == Head(rx_q) IN
       CASE k = "eapol" ->
              /\ port_open' = (port_open \/ priv # None)
              /\ Use("netdev", priv = "stale")
              /\ UNCHANGED <<events_q, events_work>>
         [] k = "hci" ->
              /\ Use("hcidev", bt /\ hcidev = "stale")
              /\ UNCHANGED <<port_open, events_q, events_work>>
         [] OTHER ->
              /\ events_q' = Append(events_q, k)
              /\ events_work' = TRUE
              /\ Use("events_wq", pc["down"] \in {"drain", "removed"} /\ bus = "shmem")
              /\ UNCHANGED port_open
    /\ UNCHANGED <<bus, bt, pc, rtnl, adapterVars, running, notifier, misc, mcast_priv, sent,
                   rx_on, orphaned, leaked, histVars>>

----------------------------------------------------------------------------
\* esp_remove_card, by the removal or, on SPI, by the next boot event.

\* Fault: the address notifier stays registered.
stop_network_iface_Notified(p) ==
    /\ pc[p] = "stop"
    /\ Use("netdev", priv = "stale")
    /\ port_open' = IF priv = "up" THEN FALSE ELSE port_open
    /\ Go(p, "shutdown")
    /\ UNCHANGED <<bus, bt, rtnl, adapterVars, running, notifier, misc, mcast_priv, rxVars,
                   orphaned, leaked, histVars>>

stop_network_iface(p) ==
    /\ pc[p] = "stop"
    /\ Use("netdev", priv = "stale")
    /\ port_open' = IF priv = "up" THEN FALSE ELSE port_open
    /\ notifier' = IF priv = "up" THEN FALSE ELSE notifier
    /\ Go(p, "shutdown")
    /\ UNCHANGED <<bus, bt, rtnl, adapterVars, running, misc, mcast_priv, rxVars, orphaned,
                   leaked, histVars>>

\* esp_commands_teardown up to the wait for the command work.
RefuseCommands(p) ==
    /\ flags' = (flags \ {"CMD_INIT_DONE"}) \cup {"CLEANUP_IN_PROGRESS"}
    /\ late' = (late \/ pc["user"] # "idle" \/ pc["filter"] # "idle")
    /\ Go(p, "free")

\* Closes the interface; without Bluetooth, on to esp_commands_teardown
\* without a sleep.
esp_stop_network_ifaces(p) ==
    /\ pc[p] = "shutdown" /\ rtnl = None
    /\ running' = FALSE
    /\ IF bt THEN Go(p, "bt") /\ UNCHANGED <<flags, late>> ELSE RefuseCommands(p)
    /\ UNCHANGED <<bus, bt, rtnl, cmd_pool, wiphy, priv, hcidev, port_open, notifier, misc,
                   mcast_priv, rxVars, orphaned, leaked, misused, overtaken, refused>>

\* esp_ble_prov_deinit, too: both only in a build with Bluetooth.
esp_deinit_bt(p) ==
    /\ pc[p] = "bt"
    /\ misc' = FALSE
    /\ hcidev' = None
    /\ Use("hcidev", hcidev = "stale")
    /\ Go(p, "teardown")
    /\ UNCHANGED <<bus, bt, rtnl, flags, cmd_pool, wiphy, priv, running, port_open, notifier,
                   mcast_priv, rxVars, orphaned, leaked, histVars>>

esp_commands_teardown(p) ==
    /\ pc[p] = "teardown"
    /\ RefuseCommands(p)
    /\ UNCHANGED <<bus, bt, rtnl, cmd_pool, wiphy, priv, hcidev, devVars, rxVars, orphaned,
                   leaked, misused, overtaken, refused>>

free_esp_cmd_pool(p) ==
    /\ pc[p] = "free"
    /\ cmd_pool' = FALSE
    /\ orphaned' = IF cmd_pool THEN orphaned \cup {q \in Procs : Asleep(q)} ELSE orphaned
    /\ Go(p, "ifaces")
    /\ UNCHANGED <<bus, bt, rtnl, flags, wiphy, priv, hcidev, devVars, rxVars, leaked, misused,
                   histVars>>

\* An interface that did not come up is left to whoever is bringing it up.
esp_remove_network_ifaces(p) ==
    /\ pc[p] = "ifaces"
    /\ priv = "up" => rtnl = None
    /\ Use("netdev", priv = "stale")
    /\ priv' = IF priv = "up" THEN None ELSE priv
    /\ mcast_priv' = IF priv = "up" /\ mcast_priv = "live" THEN "stale" ELSE mcast_priv
    /\ Go(p, "wiphy")
    /\ UNCHANGED <<bus, bt, rtnl, flags, cmd_pool, wiphy, hcidev, running, port_open, notifier,
                   misc, rxVars, orphaned, leaked, histVars>>

\* Fault: only an interface that came up has its wiphy removed.
esp_remove_wiphy_WithIface(p) ==
    /\ pc[p] = "wiphy" /\ rtnl = None
    /\ wiphy' = IF "DRIVER_ACTIVE" \in flags THEN None ELSE wiphy
    /\ Go(p, IF p = "up" THEN "tags" ELSE IF bus = "spi" THEN "removed" ELSE "purge")
    /\ UNCHANGED <<bus, bt, rtnl, flags, cmd_pool, priv, hcidev, devVars, rxVars, orphaned,
                   leaked, misused, histVars>>

esp_remove_wiphy(p) ==
    /\ pc[p] = "wiphy" /\ rtnl = None
    /\ wiphy' = None
    /\ Use("wiphy", wiphy = "unregistered")
    /\ Go(p, IF p = "up" THEN "tags" ELSE IF bus = "spi" THEN "removed" ELSE "purge")
    /\ UNCHANGED <<bus, bt, rtnl, flags, cmd_pool, priv, hcidev, devVars, rxVars, orphaned,
                   leaked, histVars>>

esp_remove_card(p) ==
    \/ stop_network_iface(p) \/ esp_stop_network_ifaces(p) \/ esp_deinit_bt(p)
    \/ esp_commands_teardown(p) \/ free_esp_cmd_pool(p)
    \/ esp_remove_network_ifaces(p) \/ esp_remove_wiphy(p)

----------------------------------------------------------------------------
\* Bringing the card up, in the events work.

\* One event per run of the work; a boot event first undoes the last one.
esp_events_work ==
    /\ pc["up"] = "idle" /\ events_work
    /\ events_work' = FALSE
    /\ events_q' = IF events_q = << >> THEN events_q ELSE Tail(events_q)
    /\ IF events_q # << >> /\ Head(events_q) = "bootup"
       THEN /\ flags' = flags \ {"INIT_DONE"}
            /\ Go("up", IF bus = "spi" THEN "stop" ELSE "tags")
            /\ overtaken' = (overtaken \/ pc["down"] # "idle")
       ELSE UNCHANGED <<flags, pc, overtaken>>
    /\ UNCHANGED <<bus, bt, rtnl, cmd_pool, wiphy, priv, hcidev, devVars, sent, rx_on, rx_q,
                   orphaned, leaked, misused, late, refused>>

\* The tags of the event, then the command queue; either may fail.
esp_commands_setup ==
    /\ pc["up"] = "tags"
    /\ \/ Go("up", "idle") /\ UNCHANGED <<flags, cmd_pool, leaked>>
       \/ /\ cmd_pool' = TRUE
          /\ Lose("cmd_pool", cmd_pool)
          /\ flags' = flags \cup {"CMD_INIT_DONE"}
          /\ Go("up", "add_wiphy")
    /\ UNCHANGED <<bus, bt, rtnl, wiphy, priv, hcidev, devVars, rxVars, orphaned, misused,
                   histVars>>

\* A wiphy that cannot be registered stays in the adapter.
esp_add_wiphy ==
    /\ pc["up"] = "add_wiphy" /\ rtnl = None
    /\ \/ Go("up", "idle") /\ UNCHANGED <<wiphy, leaked, refused>>
       \/ /\ wiphy' \in {"unregistered", "registered"}
          /\ Lose("wiphy", wiphy # None)
          /\ refused' = (refused \/ wiphy' = "unregistered")
          /\ Go("up", IF wiphy' = "registered" THEN "add_iface" ELSE "idle")
    /\ UNCHANGED <<bus, bt, rtnl, flags, cmd_pool, priv, hcidev, devVars, rxVars, orphaned,
                   misused, overtaken, late>>

\* Fault: as before the fix the comment describes, priv[] is left pointing at
\* the interface that is freed.
AbandonIface_Pointing ==
    /\ flags' = flags \ {"DRIVER_ACTIVE"}
    /\ priv' = "stale"
    /\ rtnl' = None
    /\ Go("up", "idle")

\* Fault: the failed bring-up leaves with the RTNL held.
AbandonIface_Locked ==
    /\ flags' = flags \ {"DRIVER_ACTIVE"}
    /\ priv' = None
    /\ rtnl' = "up"
    /\ Go("up", "idle")

\* The label free_and_return.
AbandonIface ==
    /\ flags' = flags \ {"DRIVER_ACTIVE"}
    /\ priv' = None
    /\ rtnl' = None
    /\ Go("up", "idle")

\* The interface is published, then core 0 is asked to start it.  Without
\* memory for it the error pointer passes for a success.
esp_cfg80211_add_iface ==
    /\ pc["up"] = "add_iface" /\ rtnl = None
    /\ \/ Go("up", "ble") /\ UNCHANGED <<flags, priv, rtnl, port_open, leaked>>
       \/ /\ port_open' = FALSE
          /\ Lose("netdev", priv # None)
          /\ IF "CMD_INIT_DONE" \in flags
             THEN /\ flags' = flags \cup {"DRIVER_ACTIVE"}
                  /\ priv' = "made"
                  /\ rtnl' = "up"
                  /\ Go("up", "init")
             ELSE AbandonIface
    /\ UNCHANGED <<bus, bt, cmd_pool, wiphy, hcidev, running, notifier, misc, mcast_priv, rxVars,
                   orphaned, misused, histVars>>

\* Awake after a command: whether it counts as a success.  Without
\* ESP_DRIVER_ACTIVE it always does.
Answered(ok) == IF "DRIVER_ACTIVE" \in flags THEN ok => rx_on ELSE ok

cmd_init_interface(ok) ==
    /\ pc["up"] = "init" /\ Answered(ok)
    /\ Use("node", "up" \in orphaned)
    /\ IF ok /\ "CMD_INIT_DONE" \in flags
       THEN Go("up", "mac") /\ UNCHANGED <<flags, priv, rtnl>>
       ELSE AbandonIface
    /\ UNCHANGED <<bus, bt, cmd_pool, wiphy, hcidev, devVars, rxVars, orphaned, leaked, histVars>>

\* register_netdevice may still fail.
cmd_get_mac(ok) ==
    /\ pc["up"] = "mac" /\ Answered(ok)
    /\ Use("node", "up" \in orphaned)
    /\ \/ AbandonIface /\ UNCHANGED <<running, notifier>>
       \/ /\ ok
          /\ priv' = "up"
          /\ flags' = flags \ {"CLEANUP_IN_PROGRESS"}
          /\ notifier' = TRUE
          /\ running' = TRUE
          /\ rtnl' = None
          /\ Go("up", "ble")
    /\ UNCHANGED <<bus, bt, cmd_pool, wiphy, hcidev, port_open, misc, mcast_priv, rxVars,
                   orphaned, leaked, histVars>>

\* Registering the device a second time fails, too.
esp_ble_prov_init ==
    /\ pc["up"] = "ble"
    /\ misc' \in {misc, TRUE}
    /\ IF bt THEN Go("up", "hci") /\ UNCHANGED flags
       ELSE Go("up", "idle") /\ flags' = flags \cup {"INIT_DONE"}
    /\ UNCHANGED <<bus, bt, rtnl, cmd_pool, wiphy, priv, hcidev, running, port_open, notifier,
                   mcast_priv, rxVars, orphaned, leaked, misused, histVars>>

\* There is no HCI over shared memory; a device that cannot be registered is
\* freed and stays in the adapter.
esp_init_bt ==
    /\ pc["up"] = "hci"
    /\ hcidev' \in IF hcidev # None THEN {hcidev}
                   ELSE IF bus = "shmem" THEN {None} ELSE {None, "live", "stale"}
    /\ refused' = (refused \/ hcidev' = "stale")
    /\ flags' = flags \cup {"INIT_DONE"}
    /\ Go("up", "idle")
    /\ UNCHANGED <<bus, bt, rtnl, cmd_pool, wiphy, priv, devVars, rxVars, orphaned, leaked,
                   misused, overtaken, late>>

process_event_esp_bootup ==
    \/ esp_commands_setup \/ esp_add_wiphy \/ esp_cfg80211_add_iface
    \/ \E ok \in BOOLEAN : cmd_init_interface(ok) \/ cmd_get_mac(ok)
    \/ esp_ble_prov_init \/ esp_init_bt

----------------------------------------------------------------------------
\* Users of the interface.

\* A command of cfg80211, sent and awaited with the RTNL held.
UserCommand ==
    /\ pc["user"] = "idle" /\ rtnl = None
    /\ priv = "up" /\ "CLEANUP_IN_PROGRESS" \notin flags /\ "CMD_INIT_DONE" \in flags
    /\ rtnl' = "user"
    /\ Go("user", "asleep")
    /\ UNCHANGED <<bus, bt, adapterVars, devVars, rxVars, orphaned, leaked, misused, histVars>>

esp_set_rx_mode ==
    /\ running /\ priv = "up" /\ port_open
    /\ pc["filter"] = "idle"
    /\ mcast_priv' = "live"
    /\ Go("filter", "queued")
    /\ UNCHANGED <<bus, bt, rtnl, adapterVars, running, port_open, notifier, misc, rxVars,
                   orphaned, leaked, misused, histVars>>

update_mac_filter ==
    /\ pc["filter"] = "queued"
    /\ Use("netdev", mcast_priv = "stale")
    /\ Go("filter", IF "CLEANUP_IN_PROGRESS" \notin flags /\ "CMD_INIT_DONE" \in flags
                    THEN "asleep" ELSE "idle")
    /\ UNCHANGED <<bus, bt, rtnl, adapterVars, devVars, rxVars, orphaned, leaked, histVars>>

\* Either of them wakes.
wait_and_decode_cmd_resp(p) ==
    /\ p \in {"user", "filter"} /\ pc[p] = "asleep"
    /\ Use("node", p \in orphaned)
    /\ rtnl' = IF p = "user" THEN None ELSE rtnl
    /\ Go(p, "idle")
    /\ UNCHANGED <<bus, bt, adapterVars, devVars, rxVars, orphaned, leaked, histVars>>

----------------------------------------------------------------------------
\* Removal.

\* A boot event is on its way to the card or at work on it.
BootupUnderWay ==
    pc["up"] # "idle" \/ \E i \in DOMAIN (rx_q \o events_q) : (rx_q \o events_q)[i] # "eapol"

\* esp_wifi_deinit, once core 0 has been told.
Deactivate ==
    /\ flags' = flags \ {"DRIVER_ACTIVE"}
    /\ Go("down", "stop")

\* Nothing is received any more; then core 0 is told, if there is an
\* interface to tell it of.
esp_wifi_shmem_remove ==
    /\ bus = "shmem" /\ pc["down"] = "idle"
    /\ rx_on' = FALSE
    /\ overtaken' = BootupUnderWay
    /\ IF priv # None /\ "CMD_INIT_DONE" \in flags /\ "CLEANUP_IN_PROGRESS" \notin flags
       THEN Go("down", "deinit") /\ UNCHANGED flags
       ELSE Deactivate
    /\ UNCHANGED <<bus, bt, rtnl, cmd_pool, wiphy, priv, hcidev, devVars, sent, rx_q, events_q,
                   events_work, orphaned, leaked, misused, late, refused>>

cmd_deinit_interface ==
    /\ pc["down"] = "deinit"
    /\ Use("node", "down" \in orphaned)
    /\ Deactivate
    /\ UNCHANGED <<bus, bt, rtnl, cmd_pool, wiphy, priv, hcidev, devVars, rxVars, orphaned,
                   leaked, histVars>>

\* The events work queue goes first, once its work is done.
PurgeEvents ==
    /\ pc["down"] = "purge"
    /\ pc["up"] = "idle" /\ ~events_work
    /\ events_q' = << >>
    /\ Go("down", "drain")
    /\ UNCHANGED <<bus, bt, rtnl, adapterVars, devVars, sent, rx_on, rx_q, events_work, orphaned,
                   leaked, misused, histVars>>

\* Then the receive work and the multicast work.
deinit_adapter ==
    /\ pc["down"] = "drain"
    /\ rx_q = << >> /\ pc["filter"] = "idle"
    /\ Go("down", "removed")
    /\ UNCHANGED <<bus, bt, rtnl, adapterVars, devVars, rxVars, orphaned, leaked, misused,
                   histVars>>

\* Interrupts off, the data path closed, the queues purged.
spi_exit ==
    /\ bus = "spi" /\ pc["down"] = "idle"
    /\ rx_on' = FALSE /\ rx_q' = << >>
    /\ overtaken' = BootupUnderWay
    /\ Go("down", "stop")
    /\ UNCHANGED <<bus, bt, rtnl, adapterVars, devVars, sent, events_q, events_work, orphaned,
                   leaked, misused, late, refused>>

Step(p) ==
    CASE p = "up" -> esp_events_work \/ process_event_esp_bootup \/ esp_remove_card("up")
      [] p = "down" -> cmd_deinit_interface \/ esp_remove_card("down")
                         \/ PurgeEvents \/ deinit_adapter
      [] p = "filter" -> update_mac_filter \/ wait_and_decode_cmd_resp("filter")
      [] p = "user" -> wait_and_decode_cmd_resp("user")

Next ==
    \/ \E k \in {"bootup", "other", "eapol", "hci"} : CoreZeroSends(k)
    \/ process_rx_packet
    \/ esp_events_work
    \/ process_event_esp_bootup
    \/ \E p \in {"up", "down"} : esp_remove_card(p)
    \/ UserCommand
    \/ esp_set_rx_mode
    \/ update_mac_filter
    \/ \E p \in {"user", "filter"} : wait_and_decode_cmd_resp(p)
    \/ esp_wifi_shmem_remove
    \/ cmd_deinit_interface
    \/ PurgeEvents
    \/ deinit_adapter
    \/ spi_exit

\* Works run, commands answer or time out; the mutex behind the RTNL is
\* handed to its oldest waiter, so others taking it cannot starve one.
Spec ==
    /\ Init /\ [][Next]_vars
    /\ SF_vars(Step("up")) /\ SF_vars(Step("down"))
    /\ WF_vars(Step("user")) /\ WF_vars(Step("filter"))
    /\ WF_vars(process_rx_packet)

----------------------------------------------------------------------------
\* The receive work, the bring-up, the removal, a user's command and the
\* multicast work never touch an interface, wiphy, HCI device, work queue or
\* command node that was freed, in whatever order they come; except if the
\* removal starts while a boot event is still on its way (overtaken), if a
\* command is queued or asleep when the command queue is shut (late), or if
\* registering a wiphy or an HCI device failed earlier (refused).
UsedWhileAlive == misused = {} \/ overtaken \/ late \/ refused

\* After removal nothing of any bring-up is left, the failed ones included,
\* and none was lost on the way.  /dev/esp-ble is only taken back in a build
\* with Bluetooth.  The notifier block lives in the interface: it is on the
\* chain only while the interface is there.
NothingLeftBehind ==
    /\ notifier /\ ~overtaken => priv = "up"
    /\ pc["down"] = "removed" /\ misused = {} /\ ~overtaken /\ ~refused
         => /\ ~cmd_pool /\ wiphy = None /\ priv = None /\ hcidev = None
            /\ ~notifier /\ (bt => ~misc)
            /\ leaked = {}

\* A removal that begins ends: no two of the waits for the RTNL, for command
\* answers and for the work queues wait for each other.
RemovalEnds == pc["down"] # "idle" ~> pc["down"] = "removed"

\* main.c: "Return success if network added successfully".  A driver that is
\* ready has its interface.
ReadyHasInterface == "INIT_DONE" \in flags /\ pc["down"] = "idle" => priv = "up"
=============================================================================
