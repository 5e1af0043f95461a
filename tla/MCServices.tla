----------------------------- MODULE MCServices -----------------------------
(***************************************************************************)
(* What Linux asks of core 0 over the shared memory, on small instances:   *)
(* FlashIpc, Scan and BlePipe side by side.  They share no state,          *)
(* so a behaviour is one of exactly one of them (part); the others stay in *)
(* their initial states.                                                   *)
(***************************************************************************)
EXTENDS Integers

CONSTANTS
    None,
    Task, Block, Value, Erased,              \* FlashIpc
    MaxScans,                                \* Scan
    MaxBytes, MaxPacket, HostQueue, MaxQueue \* BlePipe

ASSUME FlashAssumption == Erased \in Value /\ None \notin Task \cup Value
ASSUME ScanAssumption == MaxScans \in Nat /\ None \notin 1 .. MaxScans /\ None \notin {"ok", "fail"}

VARIABLES
    part,
    flash, cache, cache_on, lock, pc, want, cmd, local_state, remote_state,
    result, posted, fw,
    iface, scan_req, notified, request, scan_in_progress, caller, answer,
    started, commands, scanning, to_host, abandoned,
    synced, connected, advertising, watchdog, written, to_host_queue, wakeup,
    send_task, is_open, rx_q, reader, woken, accepted, got

F == INSTANCE FlashIpc
S == INSTANCE Scan
B == INSTANCE BlePipe

flashVars == <<flash, cache, cache_on, lock, pc, want, cmd, local_state, remote_state,
               result, posted, fw>>
scanVars == <<iface, scan_req, notified, request, scan_in_progress, caller, answer,
              started, commands, scanning, to_host, abandoned>>
bleVars == <<synced, connected, advertising, watchdog, written, to_host_queue, wakeup,
             send_task, is_open, rx_q, reader, woken, accepted, got>>
vars == <<part, flashVars, scanVars, bleVars>>

Init ==
    /\ part \in {"flash", "scan", "ble"}
    /\ F!Init /\ S!Init /\ B!Init
    /\ part # "flash" => \A t \in Task : want[t] = cmd /\ cmd.block = CHOOSE b \in Block : TRUE

Next ==
    \/ part = "flash" /\ F!Next /\ UNCHANGED <<part, scanVars, bleVars>>
    \/ part = "scan" /\ S!Next /\ UNCHANGED <<part, flashVars, bleVars>>
    \/ part = "ble" /\ B!Next /\ UNCHANGED <<part, flashVars, scanVars>>

\* As in the three modules, for the one that runs.
Fairness ==
    /\ \A t \in Task :
         /\ SF_flashVars(part = "flash" /\ F!mutex_lock(t))
         /\ WF_flashVars(part = "flash" /\ F!fill_cmd(t))
         /\ WF_flashVars(part = "flash" /\ F!esp32_ipc_tx(t))
         /\ WF_flashVars(part = "flash" /\ F!esp32_ipc_flash_io(t))
         /\ WF_flashVars(part = "flash" /\ F!esp32_ipc_flash_io_iram(t))
    /\ WF_flashVars(part = "flash" /\ (F!esp_flash_rx \/ F!FirmwareStarts))
    /\ WF_flashVars(part = "flash" /\ (F!FirmwarePrograms \/ F!linux_flash_invalidate))
    /\ WF_scanVars(part = "scan" /\ S!FirmwareAnswers)
    /\ WF_scanVars(part = "scan" /\ S!FirmwareFinishes)
    /\ WF_scanVars(part = "scan" /\ (S!process_cmd_resp \/ S!process_scan_result_event))
    /\ WF_scanVars(part = "scan" /\ S!wait_and_decode_cmd_resp)
    /\ WF_scanVars(part = "scan" /\ S!scan_done_work)
    /\ WF_scanVars(part = "scan" /\ S!netdev_down)
    /\ WF_bleVars(part = "ble" /\ B!on_sync)
    /\ SF_bleVars(part = "ble" /\ B!adv_watchdog_cb /\ advertising')

Spec == Init /\ [][Next]_vars /\ Fairness

-----------------------------------------------------------------------------
\* The properties, stated in the modules of the components.

\* Whenever Linux runs, the flash cache is on and holds what the flash holds
\* (FlashIpc).
FlashReadable == F!NoFetchWithoutCache /\ F!CacheCoherent

\* Success is reported for the task's own operation (FlashIpc).
SuccessMeansWritten == F!SuccessMeansWritten

\* Every flash operation returns (FlashIpc).
OperationsReturn == F!OperationsReturn

\* The scan request the driver holds is alive and not completed, and whoever is
\* busy with a scan has one that will be completed (Scan).
RequestIsLive == S!RequestIsLive /\ S!BusyMeansScanning

\* A scan is completed by its own event until one is given up (Scan).
DoneIsOwn == S!DoneIsOwn

\* Every scan is reported and freed (Scan).
ScanEnds == S!ScanEnds

\* /dev/esp-ble is a stream, and no read() sleeps while it has data (BlePipe).
PipeIsStream == B!PipeIsStream /\ B!ReaderIsWoken

\* A board that is not connected advertises again (BlePipe).
Discoverable == B!Discoverable
=============================================================================
