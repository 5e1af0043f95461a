-------------------------------- MODULE Scan --------------------------------
(***************************************************************************)
(* The life of a scan request (esp_cmd.c, main.c, esp_kernel_port.h).      *)
(* cfg80211 owns the request and lends it to the driver, which must        *)
(* complete it exactly once and forget it: when the firmware reports the   *)
(* end of the scan, when the command fails or times out, or when the       *)
(* interface goes down.  The caller sleeps in the command with the wiphy   *)
(* lock held; the receive path does not take that lock, and runs between   *)
(* any two steps.                                                          *)
(***************************************************************************)
EXTENDS Naturals, Sequences

CONSTANTS
    None,
    MaxScans   \* bound: scans started; a request is named by its number

VARIABLES
    iface,             \* "up", "stopped" (ndo_stop ran), "down"
    scan_req,          \* cfg80211: the live request, or None
    notified,          \* cfg80211: the live request was completed
    request,           \* priv->request
    scan_in_progress,  \* priv->scan_in_progress
    caller,            \* the request whose caller sleeps, wiphy lock held
    answer,            \* what woke the caller: "ok" or "fail", or None
    started,           \* number of scans started
    commands,          \* scan commands core 0 has not looked at
    scanning,          \* the scans core 0 is at
    to_host,           \* responses and events on their way to Linux
    abandoned          \* history: some scan was given up before core 0 ended it

vars == <<iface, scan_req, notified, request, scan_in_progress, caller, answer,
          started, commands, scanning, to_host, abandoned>>
fwVars == <<commands, scanning, to_host>>

Requests == 1 .. MaxScans
Messages == [type : {"ok", "fail", "done"}, scan : Requests]

Init ==
    /\ iface = "down"
    /\ scan_req = None
    /\ notified = FALSE
    /\ request = None
    /\ scan_in_progress = FALSE
    /\ caller = None
    /\ answer = None
    /\ started = 0
    /\ commands = << >>
    /\ scanning = {}
    /\ to_host = << >>
    /\ abandoned = FALSE

\* Fault: the request is forgotten without being completed.
ESP_MARK_SCAN_DONE_NoNotify ==
    /\ request' = None
    /\ scan_in_progress' = FALSE
    /\ UNCHANGED notified

\* Completes the request the driver holds, if any, and forgets it.
ESP_MARK_SCAN_DONE ==
    /\ notified' = (notified \/ request # None)
    /\ request' = None
    /\ scan_in_progress' = FALSE

esp_open ==
    /\ iface = "down"
    /\ iface' = "up"
    /\ UNCHANGED <<scan_req, notified, request, scan_in_progress, caller, answer,
                   started, fwVars, abandoned>>

\* cfg80211 allows one request at a time; the driver refuses with -EBUSY while
\* it believes a scan is on.  The command is queued and the caller sleeps.
cmd_scan_request ==
    /\ iface = "up"
    /\ caller = None
    /\ scan_req = None
    /\ ~scan_in_progress /\ request = None
    /\ started < MaxScans
    /\ started' = started + 1
    /\ scan_req' = started'
    /\ notified' = FALSE
    /\ request' = started'
    /\ scan_in_progress' = TRUE
    /\ caller' = started'
    /\ answer' = None
    /\ commands' = Append(commands, started')
    /\ UNCHANGED <<iface, scanning, to_host, abandoned>>

\* Core 0 takes up a command and answers; it may refuse.
FirmwareAnswers ==
    /\ commands # << >>
    /\ commands' = Tail(commands)
    /\ \E ok \in BOOLEAN :
         /\ to_host' = Append(to_host, [type |-> IF ok THEN "ok" ELSE "fail",
                                        scan |-> Head(commands)])
         /\ scanning' = IF ok THEN scanning \cup {Head(commands)} ELSE scanning
    /\ UNCHANGED <<iface, scan_req, notified, request, scan_in_progress, caller,
                   answer, started, abandoned>>

\* Core 0 ends a scan and says so.
FirmwareFinishes ==
    /\ \E s \in scanning :
         /\ scanning' = scanning \ {s}
         /\ to_host' = Append(to_host, [type |-> "done", scan |-> s])
    /\ UNCHANGED <<iface, scan_req, notified, request, scan_in_progress, caller,
                   answer, started, commands, abandoned>>

\* A response wakes whoever waits for the scan command.
process_cmd_resp ==
    /\ to_host # << >> /\ Head(to_host).type # "done"
    /\ to_host' = Tail(to_host)
    /\ answer' = IF caller = None THEN None ELSE Head(to_host).type
    /\ UNCHANGED <<iface, scan_req, notified, request, scan_in_progress, caller,
                   started, commands, scanning, abandoned>>

\* Fault: an event that overtakes the caller's return is dropped.
process_scan_result_event_Early ==
    /\ to_host # << >> /\ Head(to_host).type = "done"
    /\ to_host' = Tail(to_host)
    /\ IF caller = None THEN ESP_MARK_SCAN_DONE
       ELSE UNCHANGED <<notified, request, scan_in_progress>>
    /\ UNCHANGED <<iface, scan_req, caller, answer, started, commands, scanning,
                   abandoned>>

\* The event with status 0 ends whatever scan the driver has.
process_scan_result_event ==
    /\ to_host # << >> /\ Head(to_host).type = "done"
    /\ to_host' = Tail(to_host)
    /\ ESP_MARK_SCAN_DONE
    /\ UNCHANGED <<iface, scan_req, caller, answer, started, commands, scanning,
                   abandoned>>

\* Fault: the caller completes the scan whatever the answer.
wait_and_decode_cmd_resp_Always ==
    /\ caller # None
    /\ ESP_MARK_SCAN_DONE
    /\ scan_req' = IF answer = "ok" THEN scan_req ELSE None
    /\ abandoned' = (abandoned \/ answer # "ok")
    /\ caller' = None
    /\ answer' = None
    /\ UNCHANGED <<iface, started, fwVars>>

\* The wait ends: on a refusal or a timeout the driver completes the scan and
\* returns an error, upon which cfg80211 frees the request.
wait_and_decode_cmd_resp ==
    /\ caller # None
    /\ IF answer = "ok"
       THEN UNCHANGED <<scan_req, notified, request, scan_in_progress, abandoned>>
       ELSE /\ ESP_MARK_SCAN_DONE
            /\ scan_req' = None
            /\ abandoned' = TRUE
    /\ caller' = None
    /\ answer' = None
    /\ UNCHANGED <<iface, started, fwVars>>

\* cfg80211 reports a completed request and frees it, under the wiphy lock.
scan_done_work ==
    /\ caller = None
    /\ scan_req # None /\ notified
    /\ scan_req' = None
    /\ UNCHANGED <<iface, notified, request, scan_in_progress, caller, answer,
                   started, fwVars, abandoned>>

\* Fault: as it was before the fix, the scan goes on.
esp_stop_Nothing ==
    /\ iface = "up"
    /\ caller = None
    /\ iface' = "stopped"
    /\ UNCHANGED <<scan_req, notified, request, scan_in_progress, caller, answer,
                   started, fwVars, abandoned>>

\* ndo_stop, once cfg80211 has had the wiphy lock to leave the network: the
\* scan is ended by the driver.
esp_stop ==
    /\ iface = "up"
    /\ caller = None
    /\ iface' = "stopped"
    /\ IF request # None
       THEN ESP_MARK_SCAN_DONE /\ abandoned' = TRUE
       ELSE UNCHANGED <<notified, request, scan_in_progress, abandoned>>
    /\ UNCHANGED <<scan_req, caller, answer, started, fwVars>>

\* cfg80211, told that the interface is down, frees the request it still has.
netdev_down ==
    /\ iface = "stopped"
    /\ iface' = "down"
    /\ scan_req' = None
    /\ UNCHANGED <<notified, request, scan_in_progress, caller, answer, started,
                   fwVars, abandoned>>

Next ==
    \/ esp_open
    \/ cmd_scan_request
    \/ FirmwareAnswers
    \/ FirmwareFinishes
    \/ process_cmd_resp
    \/ process_scan_result_event
    \/ wait_and_decode_cmd_resp
    \/ scan_done_work
    \/ esp_stop
    \/ netdev_down

\* Core 0 serves its queue and its scans end; Linux receives, runs the queued
\* work, and a wait ends by its timeout at the latest.
Fairness ==
    /\ WF_vars(FirmwareAnswers) /\ WF_vars(FirmwareFinishes)
    /\ WF_vars(process_cmd_resp) /\ WF_vars(process_scan_result_event)
    /\ WF_vars(wait_and_decode_cmd_resp) /\ WF_vars(scan_done_work)
    /\ WF_vars(netdev_down)

Spec == Init /\ [][Next]_vars /\ Fairness
-----------------------------------------------------------------------------
\* The request the driver holds is one cfg80211 still has and that nobody has
\* completed: whichever of the event, the timeout, the refusal, ndo_stop and
\* cfg80211's own cleanup come first, ESP_MARK_SCAN_DONE never touches a freed
\* request and never completes one twice.
RequestIsLive ==
    request # None => request = scan_req /\ ~notified

\* The driver says busy only while it holds a request, and cfg80211 only while
\* somebody will still complete its own: a scan that ended in any way leaves
\* the board able to scan again.
BusyMeansScanning ==
    /\ scan_in_progress <=> request # None
    /\ scan_req # None => request # None \/ notified

\* As long as no scan was given up, the event that completes a scan is the one
\* core 0 sent for it.  After that it need not be: a scan of before a timeout
\* or a down/up cycle completes the next one early.
DoneIsOwn ==
    [][request # None /\ request' = None /\ caller' = caller /\ ~abandoned'
         => Head(to_host).scan = request]_vars

\* Every scan cfg80211 started is reported and freed.
ScanEnds == \A s \in Requests : scan_req = s ~> scan_req # s
=============================================================================
