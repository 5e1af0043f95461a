---------------------------- MODULE DriverProofs ----------------------------
(***************************************************************************)
(* The driver through its life, for any number of packets: it uses nothing *)
(* it has freed (DriverUsesAlive) and leaves nothing behind                *)
(* (DriverLeavesNothing). The invariant says where each process can be     *)
(* and, until a removal overtakes a bring-up, what exists at each place:   *)
(* the interface, its notifier, the pool of commands, the HCI device and   *)
(* the queues. Orderly is the conjunction of these, each a reading of one  *)
(* stretch of esp_remove_card or process_event_esp_bootup.                 *)
(***************************************************************************)
EXTENDS Driver, TLAPS

\* esp_remove_card.
Taking == {"stop", "shutdown", "bt", "teardown", "free", "ifaces", "wiphy"}
\* process_event_esp_bootup, after it.
Raising == {"tags", "add_wiphy", "add_iface", "init", "mac", "ble", "hci"}

\* The types, with the places each process can be at; the removal is what can
\* be overtaken.
Shape ==
    /\ bus \in {"shmem", "spi"} /\ bt \in BOOLEAN
    /\ pc \in [Procs -> {"idle", "deinit", "purge", "drain", "removed", "queued", "asleep"}
                          \cup Taking \cup Raising]
    /\ pc["up"] \in {"idle"} \cup Taking \cup Raising
    /\ pc["down"] \in {"idle", "deinit", "purge", "drain", "removed"} \cup Taking
    /\ pc["user"] \in {"idle", "asleep"}
    /\ pc["filter"] \in {"idle", "queued", "asleep"}
    /\ sent \in Nat
    /\ rx_q \in Seq({"bootup", "other", "eapol", "hci"})
    /\ events_q \in Seq({"bootup", "other"})
    /\ wiphy \in {None, "unregistered", "registered"}
    /\ priv \in {None, "made", "up"}
    /\ hcidev \in {None, "live", "stale"}
    /\ pc["down"] = "idle" => ~overtaken

\* Nothing of the card is there.
Pristine == ~cmd_pool /\ wiphy = None /\ priv = None /\ hcidev = None /\ ~notifier

\* The boot event is in a queue.
Announced == \/ \E k \in DOMAIN rx_q : rx_q[k] = "bootup"
             \/ \E k \in DOMAIN events_q : events_q[k] = "bootup"

\* Over shared memory there is one boot event, the first packet.
OneBoot ==
    bus = "shmem" =>
      /\ pc["up"] \notin Taking
      /\ sent = 0 => rx_q = << >> /\ events_q = << >>
      /\ sent = 0 \/ Announced => pc["up"] = "idle" /\ Pristine
      /\ \A k \in DOMAIN rx_q : rx_q[k] = "bootup" => k = 1 /\ events_q = << >>
      /\ \A k \in DOMAIN events_q : events_q[k] = "bootup" =>
           k = 1 /\ \A l \in DOMAIN rx_q : rx_q[l] # "bootup"

\* A removal works alone.
Alone ==
    /\ bus = "spi" => pc["down"] \notin {"deinit", "purge", "drain"}
    /\ pc["down"] # "idle" =>
         /\ pc["up"] = "idle" /\ ~rx_on
         /\ events_q = << >>
         /\ \A k \in DOMAIN rx_q : rx_q[k] = "eapol"

\* What p has taken down so far.
Taken(p) ==
    /\ pc[p] \in Taking \ {"stop"} => ~notifier
    /\ pc[p] \in {"bt", "teardown"} => bt
    /\ pc[p] \in Taking \ {"stop", "shutdown"} => ~running
    /\ pc[p] \in {"teardown", "free", "ifaces", "wiphy"} => hcidev = None /\ (bt => ~misc)
    /\ pc[p] \in {"free", "ifaces", "wiphy"} =>
         /\ "CMD_INIT_DONE" \notin flags
         /\ late \/ (pc["user"] = "idle" /\ pc["filter"] = "idle")
    /\ pc[p] \in {"ifaces", "wiphy"} => ~cmd_pool
    /\ pc[p] = "wiphy" => priv = None

\* What the bring-up has made so far, and the removal has left.
Raised ==
    /\ pc["up"] = "tags" => Pristine
    /\ pc["up"] = "hci" => bt
    /\ pc["up"] = "add_wiphy" => wiphy = None
    /\ pc["up"] \in {"add_wiphy", "add_iface"} => priv = None /\ ~notifier
    /\ priv = "made" <=> pc["up"] \in {"init", "mac"}
    /\ pc["down"] \in {"purge", "drain", "removed"} => Pristine /\ (bt => ~misc)

\* What the two theorems need: nothing lost, nothing used after it was freed,
\* and every pointer that is left to something freed has its cause in the
\* history.
Clean ==
    /\ notifier => priv = "up"
    /\ wiphy = "unregistered" \/ hcidev = "stale" => refused
    /\ ~bt => hcidev = None
    /\ ~late => orphaned = {} /\ (pc["filter"] = "queued" => mcast_priv = "live")
    /\ leaked = {}
    /\ misused = {} \/ late \/ refused

\* What holds unless the removal overtook a bring-up.
Orderly == OneBoot /\ Alone /\ Taken("up") /\ Taken("down") /\ Raised /\ Clean

\* The inductive invariant of the driver's life. Once the removal has overtaken
\* a boot event nothing is claimed: both properties except that case.
DriverInv == Shape /\ (overtaken \/ Orderly)

\* When no bring-up is under way, the events work is idle and only EAPOL frames
\* wait to be dispatched.
LEMMA NothingOnItsWay ==
    ASSUME Shape, ~BootupUnderWay
    PROVE  /\ pc["up"] = "idle" /\ events_q = << >>
           /\ \A k \in DOMAIN rx_q : rx_q[k] = "eapol"
<1> DEFINE q == rx_q \o events_q
<1>1. \A k \in DOMAIN q : q[k] = "eapol"
  BY Zenon DEF BootupUnderWay
<1>2. /\ DOMAIN rx_q = 1 .. Len(rx_q) /\ DOMAIN events_q = 1 .. Len(events_q)
      /\ DOMAIN q = 1 .. Len(rx_q) + Len(events_q)
      /\ Len(rx_q) \in Nat /\ Len(events_q) \in Nat
      /\ \A k \in 1 .. Len(rx_q) : q[k] = rx_q[k]
      /\ \A k \in 1 .. Len(events_q) : q[Len(rx_q) + k] = events_q[k] /\ events_q[k] # "eapol"
  BY DEF Shape
<1> HIDE DEF q
<1>3. \A k \in DOMAIN rx_q : rx_q[k] = "eapol"
  BY <1>1, <1>2
<1>4. events_q = << >>
  <2>1. SUFFICES ASSUME Len(events_q) # 0 PROVE FALSE
    BY <1>2 DEF Shape
  <2>2. 1 \in 1 .. Len(events_q) /\ Len(rx_q) + 1 \in DOMAIN q
    BY <2>1, <1>2
  <2> QED BY <2>2, <1>1, <1>2, Zenon
<1> QED BY <1>3, <1>4, Zenon DEF BootupUnderWay

\* A packet from core 0 keeps the invariant: over shared memory the boot event
\* is the first packet.
LEMMA CoreZeroSendsInv ==
    ASSUME DriverInv, NEW k \in {"bootup", "other", "eapol", "hci"}, CoreZeroSends(k)
    PROVE  DriverInv'
<1> USE DriverAssumption DEF CoreZeroSends, vars, adapterVars, devVars, rxVars, histVars
<1>1. Shape'
  BY DEF DriverInv, Shape, Procs, Taking, Raising
<1>2. ASSUME ~overtaken' PROVE Orderly'
  <2>0. ~overtaken /\ Shape /\ Orderly
    BY <1>2, Zenon DEF DriverInv, Shape
  <2>1. OneBoot'
    BY <2>0 DEF Shape, Procs, Taking, Raising, Pristine, Orderly,
       OneBoot, Announced, Alone, Taken, Raised
  <2>2. Alone'
    BY <2>0, <1>2 DEF Shape, Procs, Taking, Raising, Orderly, Alone, OneBoot
  <2>3. Taken("up")' /\ Taken("down")'
    BY <2>0 DEF Shape, Procs, Taking, Raising, Pristine, Orderly, Alone, Taken
  <2>4. Raised'
    BY <2>0 DEF Shape, Procs, Taking, Raising, Pristine, Orderly,
       OneBoot, Announced, Alone, Taken, Raised
  <2>5. Clean'
    BY <2>0 DEF Shape, Procs, Taking, Raising, Pristine, Orderly,
       Alone, Taken, Raised, Clean
  <2> QED BY <2>1, <2>2, <2>3, <2>4, <2>5, Zenon DEF Orderly
<1> QED BY <1>1, <1>2, Zenon DEF DriverInv

\* process_rx_packet keeps the invariant: an event moves from the receive queue
\* to the events queue, a frame goes to the interface or the HCI device.
LEMMA ProcessRxPacketInv == ASSUME DriverInv, process_rx_packet PROVE DriverInv'
<1> USE DriverAssumption DEF process_rx_packet, Use, vars, adapterVars, devVars, rxVars, histVars
<1>1. Shape'
  BY SMTT(20) DEF DriverInv, Shape, Procs, Taking, Raising
<1>2. ASSUME ~overtaken' PROVE Orderly'
  <2>0. ~overtaken /\ Shape /\ Orderly
    BY <1>2, Zenon DEF DriverInv, Shape
  <2>1. OneBoot'
    <3>1. /\ rx_q \in Seq({"bootup", "other", "eapol", "hci"}) /\ events_q \in Seq({"bootup", "other"})
          /\ rx_q # << >> /\ OneBoot
      BY <2>0, Zenon DEF Shape, Orderly
    <3>2. UNCHANGED <<bus, pc, sent>> /\ (Pristine' <=> Pristine) /\ rx_q' = Tail(rx_q)
      BY Zenon DEF Pristine
    <3>3. /\ Len(rx_q) \in Nat \ {0} /\ DOMAIN rx_q = 1 .. Len(rx_q)
          /\ DOMAIN rx_q' = 1 .. Len(rx_q) - 1
          /\ \A k \in 1 .. Len(rx_q) - 1 : rx_q'[k] = rx_q[k + 1] /\ k + 1 \in 1 .. Len(rx_q) /\ k + 1 # 1
          /\ Head(rx_q) = rx_q[1]
      BY <3>1, <3>2
    <3>4. \/ events_q' = events_q
          \/ events_q' = Append(events_q, Head(rx_q))
      BY Zenon
    <3>5. /\ Len(events_q) \in Nat /\ DOMAIN events_q = 1 .. Len(events_q)
          /\ events_q = << >> => Len(events_q) = 0
      BY <3>1
    <3> SUFFICES ASSUME bus = "shmem" PROVE OneBoot'
      BY <3>2, Zenon DEF OneBoot
    <3>6. sent' # 0 /\ pc'["up"] \notin Taking
      BY <3>1, <3>2, Zenon DEF OneBoot
    <3>7. \A k \in DOMAIN rx_q' : rx_q'[k] # "bootup"
      BY <3>1, <3>3 DEF OneBoot
    <3>8. CASE events_q' = events_q
      BY <3>1, <3>2, <3>6, <3>7, <3>8, Zenon DEF OneBoot, Announced
    <3>9. CASE events_q' = Append(events_q, Head(rx_q))
      <4>1. /\ DOMAIN events_q' = 1 .. Len(events_q) + 1
            /\ events_q'[Len(events_q) + 1] = rx_q[1]
            /\ \A k \in 1 .. Len(events_q) : events_q'[k] = events_q[k]
        BY <3>1, <3>3, <3>9
      <4>2. \A k \in DOMAIN events_q' : events_q'[k] = "bootup" => k = 1 /\ Announced
        <5>1. \A k \in 1 .. Len(events_q) : events_q[k] = "bootup" => k = 1 /\ Announced
          BY <3>1, <3>5, Zenon DEF OneBoot, Announced
        <5>2. 1 \in DOMAIN rx_q
          BY <3>3
        <5>3. rx_q[1] = "bootup" => Len(events_q) = 0 /\ Announced
          BY <3>1, <3>5, <5>2, Zenon DEF OneBoot, Announced
        <5> QED BY <3>5, <4>1, <5>1, <5>3
      <4> QED BY <3>1, <3>2, <3>6, <3>7, <4>2, Zenon DEF OneBoot, Announced
    <3> QED BY <3>4, <3>8, <3>9, Zenon
  <2>2. Alone'
    BY <2>0, <1>2 DEF Shape, Procs, Taking, Raising, Orderly, Alone, OneBoot
  <2>3. Taken("up")' /\ Taken("down")'
    BY <2>0 DEF Shape, Procs, Taking, Raising, Pristine, Orderly, Alone, Taken
  <2>4. Raised'
    BY <2>0 DEF Shape, Procs, Taking, Raising, Pristine, Orderly,
       OneBoot, Announced, Alone, Taken, Raised
  <2>5. Clean'
    BY <2>0 DEF Shape, Procs, Taking, Raising, Pristine, Orderly,
       Alone, Taken, Raised, Clean
  <2> QED BY <2>1, <2>2, <2>3, <2>4, <2>5, Zenon DEF Orderly
<1> QED BY <1>1, <1>2, Zenon DEF DriverInv

\* stop_network_iface keeps the invariant: the notifier is off the chain before
\* the interface goes.
LEMMA StopNetworkIfaceInv ==
    ASSUME DriverInv, NEW p \in {"up", "down"}, stop_network_iface(p)
    PROVE  DriverInv'
<1> USE DriverAssumption DEF stop_network_iface, Go, Use, vars, adapterVars, devVars, rxVars, histVars
<1>1. Shape'
  BY DEF DriverInv, Shape, Procs, Taking, Raising
<1>2. ASSUME ~overtaken' PROVE Orderly'
  <2>0. ~overtaken /\ Shape /\ Orderly
    BY <1>2, Zenon DEF DriverInv, Shape
  <2>1. OneBoot'
    BY <2>0 DEF Shape, Procs, Taking, Raising, Pristine, Orderly,
       OneBoot, Announced, Alone, Taken, Raised
  <2>2. Alone'
    BY <2>0, <1>2 DEF Shape, Procs, Taking, Raising, Orderly, Alone, OneBoot
  <2>3. Taken("up")' /\ Taken("down")'
    BY <2>0 DEF Shape, Procs, Taking, Raising, Orderly, Alone, Taken, Clean
  <2>4. Raised'
    BY <2>0 DEF Shape, Procs, Taking, Raising, Pristine, Orderly,
       OneBoot, Announced, Alone, Taken, Raised
  <2>5. Clean'
    BY <2>0 DEF Shape, Procs, Taking, Raising, Pristine, Orderly,
       Alone, Taken, Raised, Clean
  <2> QED BY <2>1, <2>2, <2>3, <2>4, <2>5, Zenon DEF Orderly
<1> QED BY <1>1, <1>2, Zenon DEF DriverInv

\* esp_stop_network_ifaces keeps the invariant, with or without Bluetooth after
\* it.
LEMMA EspStopNetworkIfacesInv ==
    ASSUME DriverInv, NEW p \in {"up", "down"}, esp_stop_network_ifaces(p)
    PROVE  DriverInv'
<1> USE DriverAssumption DEF esp_stop_network_ifaces, Go, RefuseCommands, vars, adapterVars, devVars, rxVars, histVars
<1>1. Shape'
  BY DEF DriverInv, Shape, Procs, Taking, Raising
<1>2. ASSUME ~overtaken' PROVE Orderly'
  <2>0. ~overtaken /\ Shape /\ Orderly
    BY <1>2, Zenon DEF DriverInv, Shape
  <2>1. OneBoot'
    BY <2>0 DEF Shape, Procs, Taking, Raising, Pristine, Orderly,
       OneBoot, Announced, Alone, Taken, Raised
  <2>2. Alone'
    BY <2>0, <1>2 DEF Shape, Procs, Taking, Raising, Orderly, Alone, OneBoot
  <2>3. Taken("up")' /\ Taken("down")'
    <3>1. late' <=> late \/ (~bt /\ (pc["user"] # "idle" \/ pc["filter"] # "idle"))
      BY Zenon
    <3>2. ~notifier' /\ ~running' /\ pc[p] = "shutdown"
      BY <2>0, Zenon DEF Orderly, Taken, Taking
    <3>3. CASE bt
      BY <2>0, <3>2, <3>3 DEF Shape, Procs, Taking, Raising, Orderly, Alone, Taken
    <3>4. CASE ~bt
      BY <2>0, <3>1, <3>2, <3>4 DEF Shape, Procs, Taking, Raising, Orderly, Alone, Taken, Clean
    <3> QED BY <3>3, <3>4, Zenon
  <2>4. Raised'
    BY <2>0 DEF Shape, Procs, Taking, Raising, Pristine, Orderly,
       OneBoot, Announced, Alone, Taken, Raised
  <2>5. Clean'
    BY <2>0, ZenonT(30) DEF Shape, Procs, Taking, Raising, Pristine, Orderly,
       Alone, Taken, Raised, Clean
  <2> QED BY <2>1, <2>2, <2>3, <2>4, <2>5, Zenon DEF Orderly
<1> QED BY <1>1, <1>2, Zenon DEF DriverInv

\* esp_deinit_bt keeps the invariant: no HCI device and no misc device are
\* left.
LEMMA EspDeinitBtInv ==
    ASSUME DriverInv, NEW p \in {"up", "down"}, esp_deinit_bt(p)
    PROVE  DriverInv'
<1> USE DriverAssumption DEF esp_deinit_bt, Go, Use, vars, adapterVars, devVars, rxVars, histVars
<1>1. Shape'
  BY DEF DriverInv, Shape, Procs, Taking, Raising
<1>2. ASSUME ~overtaken' PROVE Orderly'
  <2>0. ~overtaken /\ Shape /\ Orderly
    BY <1>2, Zenon DEF DriverInv, Shape
  <2>1. OneBoot'
    BY <2>0 DEF Shape, Procs, Taking, Raising, Pristine, Orderly,
       OneBoot, Announced, Alone, Taken, Raised
  <2>2. Alone'
    BY <2>0, <1>2 DEF Shape, Procs, Taking, Raising, Orderly, Alone, OneBoot
  <2>3. Taken("up")' /\ Taken("down")'
    BY <2>0 DEF Shape, Procs, Taking, Raising, Pristine, Orderly, Alone, Taken
  <2>4. Raised'
    BY <2>0 DEF Shape, Procs, Taking, Raising, Pristine, Orderly,
       OneBoot, Announced, Alone, Taken, Raised
  <2>5. Clean'
    BY <2>0 DEF Shape, Procs, Taking, Raising, Pristine, Orderly,
       Alone, Taken, Raised, Clean
  <2> QED BY <2>1, <2>2, <2>3, <2>4, <2>5, Zenon DEF Orderly
<1> QED BY <1>1, <1>2, Zenon DEF DriverInv

\* esp_commands_teardown, up to the wait, keeps the invariant: a process that
\* still sleeps on a command is recorded as late.
LEMMA EspCommandsTeardownInv ==
    ASSUME DriverInv, NEW p \in {"up", "down"}, esp_commands_teardown(p)
    PROVE  DriverInv'
<1> USE DriverAssumption DEF esp_commands_teardown, Go, RefuseCommands, vars, adapterVars, devVars, rxVars, histVars
<1>1. Shape'
  BY DEF DriverInv, Shape, Procs, Taking, Raising
<1>2. ASSUME ~overtaken' PROVE Orderly'
  <2>0. ~overtaken /\ Shape /\ Orderly
    BY <1>2, Zenon DEF DriverInv, Shape
  <2>1. OneBoot'
    BY <2>0 DEF Shape, Procs, Taking, Raising, Pristine, Orderly,
       OneBoot, Announced, Alone, Taken, Raised
  <2>2. Alone'
    BY <2>0, <1>2 DEF Shape, Procs, Taking, Raising, Orderly, Alone, OneBoot
  <2>3. Taken("up")' /\ Taken("down")'
    BY <2>0 DEF Shape, Procs, Taking, Raising, Pristine, Orderly, Alone, Taken
  <2>4. Raised'
    BY <2>0 DEF Shape, Procs, Taking, Raising, Pristine, Orderly,
       OneBoot, Announced, Alone, Taken, Raised
  <2>5. Clean'
    BY <2>0 DEF Shape, Procs, Taking, Raising, Pristine, Orderly,
       Alone, Taken, Raised, Clean
  <2> QED BY <2>1, <2>2, <2>3, <2>4, <2>5, Zenon DEF Orderly
<1> QED BY <1>1, <1>2, Zenon DEF DriverInv

\* free_esp_cmd_pool keeps the invariant: only a late process can be left on a
\* freed node.
LEMMA FreeEspCmdPoolInv ==
    ASSUME DriverInv, NEW p \in {"up", "down"}, free_esp_cmd_pool(p)
    PROVE  DriverInv'
<1> USE DriverAssumption DEF free_esp_cmd_pool, Go, Asleep, vars, adapterVars, devVars, rxVars, histVars
<1>1. Shape'
  BY DEF DriverInv, Shape, Procs, Taking, Raising
<1>2. ASSUME ~overtaken' PROVE Orderly'
  <2>0. ~overtaken /\ Shape /\ Orderly
    BY <1>2, Zenon DEF DriverInv, Shape
  <2>1. OneBoot'
    BY <2>0 DEF Shape, Procs, Taking, Raising, Pristine, Orderly,
       OneBoot, Announced, Alone, Taken, Raised
  <2>2. Alone'
    BY <2>0, <1>2 DEF Shape, Procs, Taking, Raising, Orderly, Alone, OneBoot
  <2>3. Taken("up")' /\ Taken("down")'
    BY <2>0 DEF Shape, Procs, Taking, Raising, Pristine, Orderly, Alone, Taken
  <2>4. Raised'
    BY <2>0 DEF Shape, Procs, Taking, Raising, Pristine, Orderly,
       OneBoot, Announced, Alone, Taken, Raised
  <2>5. Clean'
    BY <2>0 DEF Shape, Procs, Taking, Raising, Pristine, Orderly,
       Alone, Taken, Raised, Clean
  <2> QED BY <2>1, <2>2, <2>3, <2>4, <2>5, Zenon DEF Orderly
<1> QED BY <1>1, <1>2, Zenon DEF DriverInv

\* esp_remove_network_ifaces keeps the invariant: with the interface goes what
\* the multicast work would use, unless it was late.
LEMMA EspRemoveNetworkIfacesInv ==
    ASSUME DriverInv, NEW p \in {"up", "down"}, esp_remove_network_ifaces(p)
    PROVE  DriverInv'
<1> USE DriverAssumption DEF esp_remove_network_ifaces, Go, Use, vars, adapterVars, devVars, rxVars, histVars
<1>1. Shape'
  BY DEF DriverInv, Shape, Procs, Taking, Raising
<1>2. ASSUME ~overtaken' PROVE Orderly'
  <2>0. ~overtaken /\ Shape /\ Orderly
    BY <1>2, Zenon DEF DriverInv, Shape
  <2>1. OneBoot'
    BY <2>0 DEF Shape, Procs, Taking, Raising, Pristine, Orderly,
       OneBoot, Announced, Alone, Taken, Raised
  <2>2. Alone'
    BY <2>0, <1>2 DEF Shape, Procs, Taking, Raising, Orderly, Alone, OneBoot
  <2>3. Taken("up")' /\ Taken("down")'
    <3>1. priv' = None
      BY <2>0, Zenon DEF Shape, Orderly, Alone, Raised
    <3> QED BY <2>0, <3>1 DEF Shape, Procs, Taking, Raising, Orderly, Alone, Taken
  <2>4. Raised'
    BY <2>0 DEF Shape, Procs, Taking, Raising, Pristine, Orderly,
       OneBoot, Announced, Alone, Taken, Raised
  <2>5. Clean'
    BY <2>0 DEF Shape, Procs, Taking, Raising, Pristine, Orderly,
       Alone, Taken, Raised, Clean
  <2> QED BY <2>1, <2>2, <2>3, <2>4, <2>5, Zenon DEF Orderly
<1> QED BY <1>1, <1>2, Zenon DEF DriverInv

\* esp_remove_wiphy keeps the invariant: afterwards nothing of the card is
\* there.
LEMMA EspRemoveWiphyInv ==
    ASSUME DriverInv, NEW p \in {"up", "down"}, esp_remove_wiphy(p)
    PROVE  DriverInv'
<1> USE DriverAssumption DEF esp_remove_wiphy, Go, Use, vars, adapterVars, devVars, rxVars, histVars
<1> DEFINE l == IF p = "up" THEN "tags" ELSE IF bus = "spi" THEN "removed" ELSE "purge"
<1>l. pc' = [pc EXCEPT ![p] = l]
  BY Zenon
<1>m. /\ p = "up" => l = "tags"
      /\ p = "down" => l = IF bus = "spi" THEN "removed" ELSE "purge"
  BY Zenon
<1> HIDE DEF l
<1>1. Shape'
  BY <1>l, <1>m DEF DriverInv, Shape, Procs, Taking, Raising
<1>2. ASSUME ~overtaken' PROVE Orderly'
  <2>0. ~overtaken /\ Shape /\ Orderly
    BY <1>2, Zenon DEF DriverInv, Shape
  <2>1. OneBoot'
    BY <2>0 DEF Shape, Procs, Taking, Raising, Pristine, Orderly,
       OneBoot, Announced, Alone, Taken, Raised
  <2>2. Alone'
    BY <2>0, <1>2 DEF Shape, Procs, Taking, Raising, Orderly, Alone, OneBoot
  <2>3. Taken("up")' /\ Taken("down")'
    BY <2>0 DEF Shape, Procs, Taking, Raising, Pristine, Orderly, Alone, Taken
  <2>4. Raised'
    BY <2>0 DEF Shape, Procs, Taking, Raising, Pristine, Orderly,
       OneBoot, Announced, Alone, Taken, Raised
  <2>5. Clean'
    BY <2>0 DEF Shape, Procs, Taking, Raising, Pristine, Orderly,
       Alone, Taken, Raised, Clean
  <2> QED BY <2>1, <2>2, <2>3, <2>4, <2>5, Zenon DEF Orderly
<1> QED BY <1>1, <1>2, Zenon DEF DriverInv

\* The events work keeps the invariant: a boot event starts the removal of the
\* old card on SPI, the bring-up over shared memory.
LEMMA EspEventsWorkInv == ASSUME DriverInv, esp_events_work PROVE DriverInv'
<1> USE DriverAssumption DEF esp_events_work, Go, vars, adapterVars, devVars, rxVars, histVars
<1>1. Shape'
  <2>1. events_q' \in Seq({"bootup", "other"})
    BY DEF DriverInv, Shape
  <2>2. CASE events_q # << >> /\ Head(events_q) = "bootup"
    <3>1. overtaken' <=> overtaken \/ pc["down"] # "idle"
      BY <2>2, Zenon
    <3> QED BY <2>1, <2>2, <3>1 DEF DriverInv, Shape, Procs, Taking, Raising
  <2>3. CASE ~(events_q # << >> /\ Head(events_q) = "bootup")
    BY <2>1, <2>3 DEF DriverInv, Shape
  <2> QED BY <2>2, <2>3, Zenon
<1>2. ASSUME ~overtaken' PROVE Orderly'
  <2>0. ~overtaken /\ Shape /\ Orderly
    BY <1>2, Zenon DEF DriverInv, Shape
  <2>1. OneBoot'
    BY <2>0 DEF Shape, Procs, Taking, Raising, Pristine, Orderly,
       OneBoot, Announced, Alone, Taken, Raised
  <2>2. Alone'
    BY <2>0, <1>2 DEF Shape, Procs, Taking, Raising, Orderly, Alone, OneBoot
  <2>3. Taken("up")' /\ Taken("down")'
    BY <2>0 DEF Shape, Procs, Taking, Raising, Pristine, Orderly, Alone, Taken
  <2>4. Raised'
    BY <2>0 DEF Shape, Procs, Taking, Raising, Pristine, Orderly,
       OneBoot, Announced, Alone, Taken, Raised
  <2>5. Clean'
    BY <2>0 DEF Shape, Procs, Taking, Raising, Pristine, Orderly,
       Alone, Taken, Raised, Clean
  <2> QED BY <2>1, <2>2, <2>3, <2>4, <2>5, Zenon DEF Orderly
<1> QED BY <1>1, <1>2, Zenon DEF DriverInv

\* esp_commands_setup keeps the invariant: no pool is there to lose.
LEMMA EspCommandsSetupInv ==
    ASSUME DriverInv, esp_commands_setup
    PROVE  DriverInv'
<1> USE DriverAssumption DEF esp_commands_setup, Go, Lose, vars, adapterVars, devVars, rxVars, histVars
<1>1. Shape'
  BY DEF DriverInv, Shape, Procs, Taking, Raising
<1>2. ASSUME ~overtaken' PROVE Orderly'
  <2>0. ~overtaken /\ Shape /\ Orderly
    BY <1>2, Zenon DEF DriverInv, Shape
  <2>1. OneBoot'
    BY <2>0 DEF Shape, Procs, Taking, Raising, Pristine, Orderly,
       OneBoot, Announced, Alone, Taken, Raised
  <2>2. Alone'
    BY <2>0, <1>2, Zenon DEF Shape, Procs, Taking, Raising, Orderly, Alone, OneBoot
  <2>3. Taken("up")' /\ Taken("down")'
    BY <2>0 DEF Shape, Procs, Taking, Raising, Pristine, Orderly, Alone, Taken
  <2>4. Raised'
    BY <2>0 DEF Shape, Procs, Taking, Raising, Pristine, Orderly,
       OneBoot, Announced, Alone, Taken, Raised
  <2>5. Clean'
    BY <2>0 DEF Shape, Procs, Taking, Raising, Pristine, Orderly,
       Alone, Taken, Raised, Clean
  <2> QED BY <2>1, <2>2, <2>3, <2>4, <2>5, Zenon DEF Orderly
<1> QED BY <1>1, <1>2, Zenon DEF DriverInv

\* esp_add_wiphy keeps the invariant: a refused registration is recorded.
LEMMA EspAddWiphyInv == ASSUME DriverInv, esp_add_wiphy PROVE DriverInv'
<1> USE DriverAssumption DEF esp_add_wiphy, Go, Lose, vars, adapterVars, devVars, rxVars, histVars
<1>1. Shape'
  BY DEF DriverInv, Shape, Procs, Taking, Raising
<1>2. ASSUME ~overtaken' PROVE Orderly'
  <2>0. ~overtaken /\ Shape /\ Orderly
    BY <1>2, Zenon DEF DriverInv, Shape
  <2>1. OneBoot'
    BY <2>0 DEF Shape, Procs, Taking, Raising, Pristine, Orderly,
       OneBoot, Announced, Alone, Taken, Raised
  <2>2. Alone'
    BY <2>0, <1>2 DEF Shape, Procs, Taking, Raising, Orderly, Alone, OneBoot
  <2>3. Taken("up")' /\ Taken("down")'
    BY <2>0 DEF Shape, Procs, Taking, Raising, Pristine, Orderly, Alone, Taken
  <2>4. Raised'
    BY <2>0 DEF Shape, Procs, Taking, Raising, Pristine, Orderly,
       OneBoot, Announced, Alone, Taken, Raised
  <2>5. Clean'
    BY <2>0, Zenon DEF Shape, Procs, Taking, Raising, Pristine, Orderly,
       Alone, Taken, Raised, Clean
  <2> QED BY <2>1, <2>2, <2>3, <2>4, <2>5, Zenon DEF Orderly
<1> QED BY <1>1, <1>2, Zenon DEF DriverInv

\* esp_cfg80211_add_iface keeps the invariant: no interface is there to lose.
LEMMA EspCfg80211AddIfaceInv ==
    ASSUME DriverInv, esp_cfg80211_add_iface
    PROVE  DriverInv'
<1> USE DriverAssumption DEF esp_cfg80211_add_iface, Go, Lose, AbandonIface, vars, adapterVars, devVars, rxVars, histVars
<1>1. Shape'
  BY DEF DriverInv, Shape, Procs, Taking, Raising
<1>2. ASSUME ~overtaken' PROVE Orderly'
  <2>0. ~overtaken /\ Shape /\ Orderly
    BY <1>2, Zenon DEF DriverInv, Shape
  <2>1. OneBoot'
    BY <2>0 DEF Shape, Procs, Taking, Raising, Pristine, Orderly,
       OneBoot, Announced, Alone, Taken, Raised
  <2>2. Alone'
    BY <2>0, <1>2 DEF Shape, Procs, Taking, Raising, Orderly, Alone, OneBoot
  <2>3. Taken("up")' /\ Taken("down")'
    BY <2>0 DEF Shape, Procs, Taking, Raising, Pristine, Orderly, Alone, Taken
  <2>4. Raised'
    BY <2>0 DEF Shape, Procs, Taking, Raising, Pristine, Orderly,
       OneBoot, Announced, Alone, Taken, Raised
  <2>5. Clean'
    BY <2>0 DEF Shape, Procs, Taking, Raising, Pristine, Orderly,
       Alone, Taken, Raised, Clean
  <2> QED BY <2>1, <2>2, <2>3, <2>4, <2>5, Zenon DEF Orderly
<1> QED BY <1>1, <1>2, Zenon DEF DriverInv

\* cmd_init_interface's answer keeps the invariant.
LEMMA CmdInitInterfaceInv ==
    ASSUME DriverInv, NEW ok \in BOOLEAN, cmd_init_interface(ok)
    PROVE  DriverInv'
<1> USE DriverAssumption DEF cmd_init_interface, Go, Use, AbandonIface, vars, adapterVars, devVars, rxVars, histVars
<1>1. Shape'
  BY DEF DriverInv, Shape, Procs, Taking, Raising
<1>2. ASSUME ~overtaken' PROVE Orderly'
  <2>0. ~overtaken /\ Shape /\ Orderly
    BY <1>2, Zenon DEF DriverInv, Shape
  <2>1. OneBoot'
    BY <2>0 DEF Shape, Procs, Taking, Raising, Pristine, Orderly,
       OneBoot, Announced, Alone, Taken, Raised
  <2>2. Alone'
    BY <2>0, <1>2 DEF Shape, Procs, Taking, Raising, Orderly, Alone, OneBoot
  <2>3. Taken("up")' /\ Taken("down")'
    BY <2>0 DEF Shape, Procs, Taking, Raising, Pristine, Orderly, Alone, Taken
  <2>4. Raised'
    BY <2>0 DEF Shape, Procs, Taking, Raising, Pristine, Orderly,
       OneBoot, Announced, Alone, Taken, Raised
  <2>5. Clean'
    BY <2>0 DEF Shape, Procs, Taking, Raising, Pristine, Orderly,
       Alone, Taken, Raised, Clean
  <2> QED BY <2>1, <2>2, <2>3, <2>4, <2>5, Zenon DEF Orderly
<1> QED BY <1>1, <1>2, Zenon DEF DriverInv

\* cmd_get_mac's answer keeps the invariant: the interface comes up with its
\* notifier.
LEMMA CmdGetMacInv ==
    ASSUME DriverInv, NEW ok \in BOOLEAN, cmd_get_mac(ok)
    PROVE  DriverInv'
<1> USE DriverAssumption DEF cmd_get_mac, Go, Use, AbandonIface, vars, adapterVars, devVars, rxVars, histVars
<1>1. Shape'
  BY DEF DriverInv, Shape, Procs, Taking, Raising
<1>2. ASSUME ~overtaken' PROVE Orderly'
  <2>0. ~overtaken /\ Shape /\ Orderly
    BY <1>2, Zenon DEF DriverInv, Shape
  <2>1. OneBoot'
    BY <2>0 DEF Shape, Procs, Taking, Raising, Pristine, Orderly,
       OneBoot, Announced, Alone, Taken, Raised
  <2>2. Alone'
    BY <2>0, <1>2, Zenon DEF Shape, Procs, Taking, Raising, Orderly, Alone, OneBoot
  <2>3. Taken("up")' /\ Taken("down")'
    BY <2>0 DEF Shape, Procs, Taking, Raising, Pristine, Orderly, Alone, Taken
  <2>4. Raised'
    BY <2>0 DEF Shape, Procs, Taking, Raising, Pristine, Orderly,
       OneBoot, Announced, Alone, Taken, Raised
  <2>5. Clean'
    BY <2>0 DEF Shape, Procs, Taking, Raising, Pristine, Orderly,
       Alone, Taken, Raised, Clean
  <2> QED BY <2>1, <2>2, <2>3, <2>4, <2>5, Zenon DEF Orderly
<1> QED BY <1>1, <1>2, Zenon DEF DriverInv

\* esp_ble_prov_init keeps the invariant.
LEMMA EspBleProvInitInv == ASSUME DriverInv, esp_ble_prov_init PROVE DriverInv'
<1> USE DriverAssumption DEF esp_ble_prov_init, Go, vars, adapterVars, devVars, rxVars, histVars
<1>1. Shape'
  BY DEF DriverInv, Shape, Procs, Taking, Raising
<1>2. ASSUME ~overtaken' PROVE Orderly'
  <2>0. ~overtaken /\ Shape /\ Orderly
    BY <1>2, Zenon DEF DriverInv, Shape
  <2>1. OneBoot'
    BY <2>0 DEF Shape, Procs, Taking, Raising, Pristine, Orderly,
       OneBoot, Announced, Alone, Taken, Raised
  <2>2. Alone'
    BY <2>0, <1>2 DEF Shape, Procs, Taking, Raising, Orderly, Alone, OneBoot
  <2>3. Taken("up")' /\ Taken("down")'
    BY <2>0 DEF Shape, Procs, Taking, Raising, Pristine, Orderly, Alone, Taken
  <2>4. Raised'
    BY <2>0 DEF Shape, Procs, Taking, Raising, Pristine, Orderly,
       OneBoot, Announced, Alone, Taken, Raised
  <2>5. Clean'
    BY <2>0 DEF Shape, Procs, Taking, Raising, Pristine, Orderly,
       Alone, Taken, Raised, Clean
  <2> QED BY <2>1, <2>2, <2>3, <2>4, <2>5, Zenon DEF Orderly
<1> QED BY <1>1, <1>2, Zenon DEF DriverInv

\* esp_init_bt keeps the invariant: a refused registration leaves a stale
\* pointer and is recorded.
LEMMA EspInitBtInv == ASSUME DriverInv, esp_init_bt PROVE DriverInv'
<1> USE DriverAssumption DEF esp_init_bt, Go, vars, adapterVars, devVars, rxVars, histVars
<1>1. Shape'
  BY DEF DriverInv, Shape, Procs, Taking, Raising
<1>2. ASSUME ~overtaken' PROVE Orderly'
  <2>0. ~overtaken /\ Shape /\ Orderly
    BY <1>2, Zenon DEF DriverInv, Shape
  <2>1. OneBoot'
    BY <2>0 DEF Shape, Procs, Taking, Raising, Pristine, Orderly,
       OneBoot, Announced, Alone, Taken, Raised
  <2>2. Alone'
    BY <2>0, <1>2, Zenon DEF Shape, Procs, Taking, Raising, Orderly, Alone, OneBoot
  <2>3. Taken("up")' /\ Taken("down")'
    BY <2>0 DEF Shape, Procs, Taking, Raising, Pristine, Orderly, Alone, Taken
  <2>4. Raised'
    BY <2>0 DEF Shape, Procs, Taking, Raising, Pristine, Orderly,
       OneBoot, Announced, Alone, Taken, Raised
  <2>5. Clean'
    <3>1. refused' <=> refused \/ hcidev' = "stale"
      BY Zenon
    <3>2. UNCHANGED <<wiphy, notifier, priv, bt, late, orphaned, mcast_priv, leaked, misused>>
      BY Zenon
    <3>3. bt
      BY <2>0, Zenon DEF Orderly, Raised
    <3>4. pc'["filter"] = pc["filter"]
      BY <2>0, Zenon DEF Shape, Procs
    <3> QED BY <2>0, <3>1, <3>2, <3>3, <3>4 DEF Orderly, Clean
  <2> QED BY <2>1, <2>2, <2>3, <2>4, <2>5, Zenon DEF Orderly
<1> QED BY <1>1, <1>2, Zenon DEF DriverInv

\* A user's command keeps the invariant.
LEMMA UserCommandInv == ASSUME DriverInv, UserCommand PROVE DriverInv'
<1> USE DriverAssumption DEF UserCommand, Go, vars, adapterVars, devVars, rxVars, histVars
<1>1. Shape'
  BY DEF DriverInv, Shape, Procs, Taking, Raising
<1>2. ASSUME ~overtaken' PROVE Orderly'
  <2>0. ~overtaken /\ Shape /\ Orderly
    BY <1>2, Zenon DEF DriverInv, Shape
  <2>1. OneBoot'
    BY <2>0 DEF Shape, Procs, Taking, Raising, Pristine, Orderly,
       OneBoot, Announced, Alone, Taken, Raised
  <2>2. Alone'
    BY <2>0, <1>2 DEF Shape, Procs, Taking, Raising, Orderly, Alone, OneBoot
  <2>3. Taken("up")' /\ Taken("down")'
    BY <2>0 DEF Shape, Procs, Taking, Raising, Pristine, Orderly, Alone, Taken
  <2>4. Raised'
    BY <2>0 DEF Shape, Procs, Taking, Raising, Pristine, Orderly,
       OneBoot, Announced, Alone, Taken, Raised
  <2>5. Clean'
    BY <2>0 DEF Shape, Procs, Taking, Raising, Pristine, Orderly,
       Alone, Taken, Raised, Clean
  <2> QED BY <2>1, <2>2, <2>3, <2>4, <2>5, Zenon DEF Orderly
<1> QED BY <1>1, <1>2, Zenon DEF DriverInv

\* esp_set_rx_mode keeps the invariant: the work it queues names a live
\* interface.
LEMMA EspSetRxModeInv == ASSUME DriverInv, esp_set_rx_mode PROVE DriverInv'
<1> USE DriverAssumption DEF esp_set_rx_mode, Go, vars, adapterVars, devVars, rxVars, histVars
<1>1. Shape'
  BY DEF DriverInv, Shape, Procs, Taking, Raising
<1>2. ASSUME ~overtaken' PROVE Orderly'
  <2>0. ~overtaken /\ Shape /\ Orderly
    BY <1>2, Zenon DEF DriverInv, Shape
  <2>1. OneBoot'
    BY <2>0 DEF Shape, Procs, Taking, Raising, Pristine, Orderly,
       OneBoot, Announced, Alone, Taken, Raised
  <2>2. Alone'
    BY <2>0, <1>2 DEF Shape, Procs, Taking, Raising, Orderly, Alone, OneBoot
  <2>3. Taken("up")' /\ Taken("down")'
    BY <2>0 DEF Shape, Procs, Taking, Raising, Pristine, Orderly, Alone, Taken
  <2>4. Raised'
    BY <2>0 DEF Shape, Procs, Taking, Raising, Pristine, Orderly,
       OneBoot, Announced, Alone, Taken, Raised
  <2>5. Clean'
    BY <2>0 DEF Shape, Procs, Taking, Raising, Pristine, Orderly,
       Alone, Taken, Raised, Clean
  <2> QED BY <2>1, <2>2, <2>3, <2>4, <2>5, Zenon DEF Orderly
<1> QED BY <1>1, <1>2, Zenon DEF DriverInv

\* update_mac_filter keeps the invariant.
LEMMA UpdateMacFilterInv == ASSUME DriverInv, update_mac_filter PROVE DriverInv'
<1> USE DriverAssumption DEF update_mac_filter, Go, Use, vars, adapterVars, devVars, rxVars, histVars
<1>1. Shape'
  BY DEF DriverInv, Shape, Procs, Taking, Raising
<1>2. ASSUME ~overtaken' PROVE Orderly'
  <2>0. ~overtaken /\ Shape /\ Orderly
    BY <1>2, Zenon DEF DriverInv, Shape
  <2>1. OneBoot'
    BY <2>0 DEF Shape, Procs, Taking, Raising, Pristine, Orderly,
       OneBoot, Announced, Alone, Taken, Raised
  <2>2. Alone'
    BY <2>0, <1>2 DEF Shape, Procs, Taking, Raising, Orderly, Alone, OneBoot
  <2>3. Taken("up")' /\ Taken("down")'
    BY <2>0 DEF Shape, Procs, Taking, Raising, Pristine, Orderly, Alone, Taken
  <2>4. Raised'
    BY <2>0 DEF Shape, Procs, Taking, Raising, Pristine, Orderly,
       OneBoot, Announced, Alone, Taken, Raised
  <2>5. Clean'
    BY <2>0 DEF Shape, Procs, Taking, Raising, Pristine, Orderly,
       Alone, Taken, Raised, Clean
  <2> QED BY <2>1, <2>2, <2>3, <2>4, <2>5, Zenon DEF Orderly
<1> QED BY <1>1, <1>2, Zenon DEF DriverInv

\* A process that wakes from its command keeps the invariant.
LEMMA WaitAndDecodeCmdRespInv ==
    ASSUME DriverInv, NEW p \in {"user", "filter"}, wait_and_decode_cmd_resp(p)
    PROVE  DriverInv'
<1> USE DriverAssumption DEF wait_and_decode_cmd_resp, Go, Use, vars, adapterVars, devVars, rxVars, histVars
<1>1. Shape'
  BY DEF DriverInv, Shape, Procs, Taking, Raising
<1>2. ASSUME ~overtaken' PROVE Orderly'
  <2>0. ~overtaken /\ Shape /\ Orderly
    BY <1>2, Zenon DEF DriverInv, Shape
  <2>1. OneBoot'
    BY <2>0 DEF Shape, Procs, Taking, Raising, Pristine, Orderly,
       OneBoot, Announced, Alone, Taken, Raised
  <2>2. Alone'
    BY <2>0, <1>2 DEF Shape, Procs, Taking, Raising, Orderly, Alone, OneBoot
  <2>3. Taken("up")' /\ Taken("down")'
    BY <2>0 DEF Shape, Procs, Taking, Raising, Pristine, Orderly, Alone, Taken
  <2>4. Raised'
    BY <2>0 DEF Shape, Procs, Taking, Raising, Pristine, Orderly,
       OneBoot, Announced, Alone, Taken, Raised
  <2>5. Clean'
    BY <2>0 DEF Shape, Procs, Taking, Raising, Pristine, Orderly,
       Alone, Taken, Raised, Clean
  <2> QED BY <2>1, <2>2, <2>3, <2>4, <2>5, Zenon DEF Orderly
<1> QED BY <1>1, <1>2, Zenon DEF DriverInv

\* The removal's first step keeps the invariant: it works alone or is recorded
\* to have overtaken a bring-up.
LEMMA EspWifiShmemRemoveInv ==
    ASSUME DriverInv, esp_wifi_shmem_remove
    PROVE  DriverInv'
<1> USE DriverAssumption DEF esp_wifi_shmem_remove, Go, Deactivate, vars, adapterVars, devVars, rxVars, histVars
<1>1. Shape'
  BY DEF DriverInv, Shape, Procs, Taking, Raising
<1>2. ASSUME ~overtaken' PROVE Orderly'
  <2>0. ~overtaken /\ Shape /\ Orderly
    BY <1>2, Zenon DEF DriverInv, Shape
  <2>n. pc["up"] = "idle" /\ events_q = << >> /\ \A k \in DOMAIN rx_q : rx_q[k] = "eapol"
    BY <1>2, <2>0, NothingOnItsWay, Zenon
  <2>1. OneBoot'
    BY <2>0, <2>n DEF Shape, Procs, Taking, Raising, Pristine, Orderly,
       OneBoot, Announced, Alone, Taken, Raised
  <2>2. Alone'
    BY <2>0, <1>2, <2>n DEF Shape, Procs, Taking, Raising, Orderly, Alone, OneBoot
  <2>3. Taken("up")' /\ Taken("down")'
    BY <2>0, <2>n DEF Shape, Procs, Taking, Raising, Pristine, Orderly, Alone, Taken
  <2>4. Raised'
    BY <2>0, <2>n DEF Shape, Procs, Taking, Raising, Pristine, Orderly,
       OneBoot, Announced, Alone, Taken, Raised
  <2>5. Clean'
    BY <2>0, <2>n DEF Shape, Procs, Taking, Raising, Pristine, Orderly,
       Alone, Taken, Raised, Clean
  <2> QED BY <2>1, <2>2, <2>3, <2>4, <2>5, Zenon DEF Orderly
<1> QED BY <1>1, <1>2, Zenon DEF DriverInv

\* cmd_deinit_interface's answer keeps the invariant.
LEMMA CmdDeinitInterfaceInv ==
    ASSUME DriverInv, cmd_deinit_interface
    PROVE  DriverInv'
<1> USE DriverAssumption DEF cmd_deinit_interface, Go, Use, Deactivate, vars, adapterVars, devVars, rxVars, histVars
<1>1. Shape'
  BY DEF DriverInv, Shape, Procs, Taking, Raising
<1>2. ASSUME ~overtaken' PROVE Orderly'
  <2>0. ~overtaken /\ Shape /\ Orderly
    BY <1>2, Zenon DEF DriverInv, Shape
  <2>1. OneBoot'
    BY <2>0 DEF Shape, Procs, Taking, Raising, Pristine, Orderly,
       OneBoot, Announced, Alone, Taken, Raised
  <2>2. Alone'
    BY <2>0, <1>2, Zenon DEF Shape, Procs, Taking, Raising, Orderly, Alone, OneBoot
  <2>3. Taken("up")' /\ Taken("down")'
    BY <2>0 DEF Shape, Procs, Taking, Raising, Pristine, Orderly, Alone, Taken
  <2>4. Raised'
    BY <2>0 DEF Shape, Procs, Taking, Raising, Pristine, Orderly,
       OneBoot, Announced, Alone, Taken, Raised
  <2>5. Clean'
    BY <2>0 DEF Shape, Procs, Taking, Raising, Pristine, Orderly,
       Alone, Taken, Raised, Clean
  <2> QED BY <2>1, <2>2, <2>3, <2>4, <2>5, Zenon DEF Orderly
<1> QED BY <1>1, <1>2, Zenon DEF DriverInv

\* Purging the events queue keeps the invariant.
LEMMA PurgeEventsInv == ASSUME DriverInv, PurgeEvents PROVE DriverInv'
<1> USE DriverAssumption DEF PurgeEvents, Go, vars, adapterVars, devVars, rxVars, histVars
<1>1. Shape'
  BY DEF DriverInv, Shape, Procs, Taking, Raising
<1>2. ASSUME ~overtaken' PROVE Orderly'
  <2>0. ~overtaken /\ Shape /\ Orderly
    BY <1>2, Zenon DEF DriverInv, Shape
  <2>1. OneBoot'
    BY <2>0 DEF Shape, Procs, Taking, Raising, Pristine, Orderly,
       OneBoot, Announced, Alone, Taken, Raised
  <2>2. Alone'
    BY <2>0, <1>2, Zenon DEF Shape, Procs, Taking, Raising, Orderly, Alone, OneBoot
  <2>3. Taken("up")' /\ Taken("down")'
    BY <2>0 DEF Shape, Procs, Taking, Raising, Pristine, Orderly, Alone, Taken
  <2>4. Raised'
    BY <2>0, Zenon DEF Shape, Procs, Taking, Raising, Pristine, Orderly,
       OneBoot, Announced, Alone, Taken, Raised
  <2>5. Clean'
    BY <2>0, Zenon DEF Shape, Procs, Taking, Raising, Pristine, Orderly,
       Alone, Taken, Raised, Clean
  <2> QED BY <2>1, <2>2, <2>3, <2>4, <2>5, Zenon DEF Orderly
<1> QED BY <1>1, <1>2, Zenon DEF DriverInv

\* deinit_adapter keeps the invariant.
LEMMA DeinitAdapterInv == ASSUME DriverInv, deinit_adapter PROVE DriverInv'
<1> USE DriverAssumption DEF deinit_adapter, Go, vars, adapterVars, devVars, rxVars, histVars
<1>1. Shape'
  BY DEF DriverInv, Shape, Procs, Taking, Raising
<1>2. ASSUME ~overtaken' PROVE Orderly'
  <2>0. ~overtaken /\ Shape /\ Orderly
    BY <1>2, Zenon DEF DriverInv, Shape
  <2>1. OneBoot'
    BY <2>0 DEF Shape, Procs, Taking, Raising, Pristine, Orderly,
       OneBoot, Announced, Alone, Taken, Raised
  <2>2. Alone'
    BY <2>0, <1>2 DEF Shape, Procs, Taking, Raising, Orderly, Alone, OneBoot
  <2>3. Taken("up")' /\ Taken("down")'
    BY <2>0 DEF Shape, Procs, Taking, Raising, Pristine, Orderly, Alone, Taken
  <2>4. Raised'
    BY <2>0, Zenon DEF Shape, Procs, Taking, Raising, Pristine, Orderly,
       OneBoot, Announced, Alone, Taken, Raised
  <2>5. Clean'
    BY <2>0, Zenon DEF Shape, Procs, Taking, Raising, Pristine, Orderly,
       Alone, Taken, Raised, Clean
  <2> QED BY <2>1, <2>2, <2>3, <2>4, <2>5, Zenon DEF Orderly
<1> QED BY <1>1, <1>2, Zenon DEF DriverInv

\* The removal on SPI keeps the invariant.
LEMMA SpiExitInv == ASSUME DriverInv, spi_exit PROVE DriverInv'
<1> USE DriverAssumption DEF spi_exit, Go, vars, adapterVars, devVars, rxVars, histVars
<1>1. Shape'
  BY DEF DriverInv, Shape, Procs, Taking, Raising
<1>2. ASSUME ~overtaken' PROVE Orderly'
  <2>0. ~overtaken /\ Shape /\ Orderly
    BY <1>2, Zenon DEF DriverInv, Shape
  <2>n. pc["up"] = "idle" /\ events_q = << >> /\ \A k \in DOMAIN rx_q : rx_q[k] = "eapol"
    BY <1>2, <2>0, NothingOnItsWay, Zenon
  <2>1. OneBoot'
    BY <2>0, <2>n, Zenon DEF Shape, Procs, Taking, Raising, Pristine, Orderly,
       OneBoot, Announced, Alone, Taken, Raised
  <2>2. Alone'
    BY <2>0, <1>2, <2>n DEF Shape, Procs, Taking, Raising, Orderly, Alone, OneBoot
  <2>3. Taken("up")' /\ Taken("down")'
    BY <2>0, <2>n DEF Shape, Procs, Taking, Raising, Pristine, Orderly, Alone, Taken
  <2>4. Raised'
    BY <2>0, <2>n, Zenon DEF Shape, Procs, Taking, Raising, Pristine, Orderly,
       OneBoot, Announced, Alone, Taken, Raised
  <2>5. Clean'
    BY <2>0, <2>n DEF Shape, Procs, Taking, Raising, Pristine, Orderly,
       Alone, Taken, Raised, Clean
  <2> QED BY <2>1, <2>2, <2>3, <2>4, <2>5, Zenon DEF Orderly
<1> QED BY <1>1, <1>2, Zenon DEF DriverInv

-----------------------------------------------------------------------------
\* The module starts with nothing of a card.
LEMMA DriverInit == Init => DriverInv
<1> SUFFICES ASSUME Init PROVE DriverInv
  BY Zenon
<1> USE DriverAssumption DEF Init
<1>1. Shape
  BY DEF Shape, Procs, Taking, Raising
<1>2. OneBoot /\ Alone
  BY DEF OneBoot, Announced, Pristine, Alone, Procs, Taking
<1>3. Taken("up") /\ Taken("down")
  BY Zenon DEF Taken, Procs, Taking
<1>4. Raised /\ Clean
  BY Zenon DEF Raised, Pristine, Clean, Procs
<1> QED BY <1>1, <1>2, <1>3, <1>4, Zenon DEF DriverInv, Orderly

\* A step that changes nothing keeps the invariant.
LEMMA DriverStutter == DriverInv /\ UNCHANGED vars => DriverInv'
<1> SUFFICES ASSUME DriverInv, UNCHANGED vars PROVE DriverInv'
  BY Zenon
<1> USE DEF vars, adapterVars, devVars, rxVars, histVars
<1>1. Shape' /\ (overtaken' <=> overtaken)
  BY DEF DriverInv, Shape
<1>2. Orderly => OneBoot' /\ Alone'
  BY Zenon DEF Orderly, OneBoot, Announced, Pristine, Alone
<1>3. Orderly => Taken("up")' /\ Taken("down")'
  BY DEF Orderly, Taken
<1>4. Orderly => Raised' /\ Clean'
  BY DEF Orderly, Raised, Pristine, Clean
<1> QED BY <1>1, <1>2, <1>3, <1>4, Zenon DEF DriverInv, Orderly

\* Every step of the driver's life keeps the invariant.
LEMMA DriverStep == DriverInv /\ [Next]_vars => DriverInv'
<1> SUFFICES ASSUME DriverInv, [Next]_vars PROVE DriverInv'
  BY Zenon
<1>1. CASE \E k \in {"bootup", "other", "eapol", "hci"} : CoreZeroSends(k)
  BY <1>1, CoreZeroSendsInv, Zenon
<1>2. CASE process_rx_packet
  BY <1>2, ProcessRxPacketInv, Zenon
<1>3. CASE \E p \in {"up", "down"} : esp_remove_card(p)
  BY <1>3, StopNetworkIfaceInv, EspStopNetworkIfacesInv, EspDeinitBtInv, EspCommandsTeardownInv,
     FreeEspCmdPoolInv, EspRemoveNetworkIfacesInv, EspRemoveWiphyInv,
     Zenon DEF esp_remove_card
<1>4. CASE esp_events_work
  BY <1>4, EspEventsWorkInv, Zenon
<1>5. CASE process_event_esp_bootup
  BY <1>5, EspCommandsSetupInv, EspAddWiphyInv, EspCfg80211AddIfaceInv, CmdInitInterfaceInv,
     CmdGetMacInv, EspBleProvInitInv, EspInitBtInv,
     Zenon DEF process_event_esp_bootup
<1>6. CASE UserCommand
  BY <1>6, UserCommandInv, Zenon
<1>7. CASE esp_set_rx_mode
  BY <1>7, EspSetRxModeInv, Zenon
<1>8. CASE update_mac_filter
  BY <1>8, UpdateMacFilterInv, Zenon
<1>9. CASE \E p \in {"user", "filter"} : wait_and_decode_cmd_resp(p)
  BY <1>9, WaitAndDecodeCmdRespInv, Zenon
<1>10. CASE esp_wifi_shmem_remove
  BY <1>10, EspWifiShmemRemoveInv, Zenon
<1>11. CASE cmd_deinit_interface
  BY <1>11, CmdDeinitInterfaceInv, Zenon
<1>12. CASE PurgeEvents
  BY <1>12, PurgeEventsInv, Zenon
<1>13. CASE deinit_adapter
  BY <1>13, DeinitAdapterInv, Zenon
<1>14. CASE spi_exit
  BY <1>14, SpiExitInv, Zenon
<1>15. CASE UNCHANGED vars
  BY <1>15, DriverStutter, Zenon
<1> QED BY <1>1, <1>2, <1>3, <1>4, <1>5, <1>6, <1>7, <1>8, <1>9, <1>10, <1>11, <1>12, <1>13, <1>14, <1>15, Zenon DEF Next

\* The invariant always holds.
LEMMA DriverAlways == Spec => []DriverInv
BY DriverInit, DriverStep, PTL DEF Spec

\* The driver uses nothing it has freed (main.c, esp_cfg80211.c, esp_cmd.c,
\* esp_bt.c), for every number of packets: unless a removal overtook a bring-
\* up, a process was still asleep on a command when the pool was freed, or a
\* registration was refused.
THEOREM DriverUsesAlive == Spec => []UsedWhileAlive
<1>1. DriverInv => UsedWhileAlive
  BY Zenon DEF DriverInv, Orderly, Clean, UsedWhileAlive
<1> QED BY <1>1, DriverAlways, PTL

\* What is taken down is taken down whole (esp_remove_card, esp_deinit_bt): no
\* pointer is overwritten while something is behind it, and after the removal
\* no notifier, device, pool or work of the card is left, with the same
\* exceptions.
THEOREM DriverLeavesNothing == Spec => []NothingLeftBehind
<1>1. DriverInv => NothingLeftBehind
  BY Zenon DEF DriverInv, Orderly, Clean, Raised, Pristine, NothingLeftBehind
<1> QED BY <1>1, DriverAlways, PTL
=============================================================================
