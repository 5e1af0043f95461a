--------------------------- MODULE ServicesProofs ---------------------------
(***************************************************************************)
(* What Linux asks of core 0 over the shared memory is answered rightly,   *)
(* for any number of tasks, blocks, scans, packets and bytes: each of      *)
(* FlashIpc, Scan and BlePipe has an inductive invariant of its own, kept  *)
(* by its own actions and untouched by the others', and the properties of  *)
(* the runs follow from it.                                                *)
(***************************************************************************)
EXTENDS MCServices, SequenceTheorems, WellFoundedInduction, TLAPS

-----------------------------------------------------------------------------
(* Flash over IPC. *)

\* The states of a task that holds the mutex.
Held == {"fill", "post", "spin", "iram"}

\* The types of FlashIpc's variables.
FlashTypeOK ==
    /\ flash \in [Block -> Value]
    /\ cache \in [Block -> Value \cup {None}]
    /\ cache_on \in BOOLEAN
    /\ lock \in Task \cup {None}
    /\ pc \in [Task -> {"idle", "lock"} \cup Held]
    /\ want \in [Task -> F!Op]
    /\ cmd \in F!Op
    /\ posted \in BOOLEAN

\* Where core 0 is, for each place of the task that holds the mutex.
Handshake ==
    /\ \A t \in Task : lock = t <=> pc[t] \in Held
    /\ lock = None => fw = "idle" /\ ~posted /\ cache_on
    /\ \A t \in Task :
         /\ pc[t] = "fill" => fw = "idle" /\ ~posted /\ cache_on
         /\ pc[t] = "post" => /\ fw = "idle" /\ ~posted /\ cache_on
                              /\ remote_state = "IDLE" /\ local_state = "IDLE"
         /\ pc[t] = "spin" =>
              /\ local_state = "IDLE" /\ cache_on
              /\ \/ posted /\ fw = "idle" /\ remote_state = "IDLE"
                 \/ ~posted /\ fw = "taken" /\ remote_state = "READY"
         /\ pc[t] = "iram" =>
              /\ local_state = "READY" /\ ~posted
              /\ \/ fw = "taken" /\ remote_state = "READY" /\ cache_on
                 \/ fw = "busy" /\ remote_state = "READY" /\ ~cache_on
                 \/ fw = "programmed" /\ remote_state = "READY" /\ cache_on
                 \/ fw = "idle" /\ remote_state = "DONE" /\ cache_on

\* The command in the shared object is the holder's, and a block differs from
\* its cached copy only until it is invalidated.
CommandInv ==
    /\ \A t \in Task : pc[t] \in {"post", "spin", "iram"} => cmd = want[t]
    /\ \A b \in Block : cache[b] \in {None, flash[b]} \/ (fw = "programmed" /\ b = cmd.block)
    /\ fw = "programmed" /\ ~result => flash[cmd.block] = cmd.value
    /\ \A t \in Task :
         pc[t] = "iram" /\ remote_state = "DONE" /\ ~result => flash[cmd.block] = cmd.value

\* The inductive invariant of FlashIpc: the types, where each side of the
\* handshake is, and what the command and the cache hold meanwhile.
FlashInv == FlashTypeOK /\ Handshake /\ CommandInv

\* Nothing is posted and the cache is empty when the board starts.
LEMMA FlashInit == F!Init => FlashInv
<1> SUFFICES ASSUME F!Init PROVE FlashInv
  BY Zenon
<1>1. FlashTypeOK
  <2>1. \A b \in Block : [block |-> b, value |-> Erased] \in F!Op
    BY FlashAssumption, Zenon DEF F!Op
  <2>2. want \in [Task -> F!Op] /\ cmd \in F!Op
    BY <2>1 DEF F!Init
  <2> QED BY <2>2, FlashAssumption, Zenon DEF F!Init, FlashTypeOK
<1>2. Handshake /\ CommandInv
  BY FlashAssumption, Zenon DEF F!Init, Handshake, CommandInv, Held
<1> QED BY <1>1, <1>2, Zenon DEF FlashInv

\* Every step of map_esp32_write(), esp32_ipc_flash_io() and its IRAM half, and
\* of the firmware that answers them, keeps the invariant.
LEMMA FlashStep == FlashInv /\ F!Next => FlashInv'
<1> SUFFICES ASSUME FlashInv, F!Next PROVE FlashInv'
  BY Zenon
<1> USE FlashAssumption DEF FlashInv, FlashTypeOK, Handshake, CommandInv, Held, F!LinuxRuns, F!Goto
<1>1. ASSUME NEW t \in Task, F!map_esp32_write(t) PROVE FlashInv'
  BY <1>1 DEF F!map_esp32_write
<1>2. ASSUME NEW t \in Task, F!mutex_lock(t) PROVE FlashInv'
  BY <1>2 DEF F!mutex_lock
<1>3. ASSUME NEW t \in Task, F!fill_cmd(t) PROVE FlashInv'
  BY <1>3 DEF F!fill_cmd
<1>4. ASSUME NEW t \in Task, F!esp32_ipc_tx(t) PROVE FlashInv'
  <2>1. CASE posted' = TRUE
    <3>1. /\ pc[t] = "post" /\ pc' = [pc EXCEPT ![t] = "spin"] /\ lock' = lock
          /\ UNCHANGED <<flash, cache, cache_on, want, cmd, local_state, remote_state, result, fw>>
      BY <1>4, <2>1, Zenon DEF F!esp32_ipc_tx
    <3>2. FlashTypeOK' /\ CommandInv'
      BY <2>1, <3>1, Zenon
    <3>3. Handshake'
      BY <2>1, <3>1
    <3> QED BY <3>2, <3>3, Zenon
  <2>2. CASE posted' = FALSE
    <3>1. /\ pc[t] = "post" /\ pc' = [pc EXCEPT ![t] = "idle"] /\ lock' = None
          /\ UNCHANGED <<flash, cache, cache_on, want, cmd, local_state, remote_state, result, fw>>
      BY <1>4, <2>2, Zenon DEF F!esp32_ipc_tx
    <3>2. FlashTypeOK' /\ CommandInv'
      BY <2>2, <3>1, Zenon
    <3>3. Handshake'
      BY <2>2, <3>1
    <3> QED BY <3>2, <3>3, Zenon
  <2> QED BY <1>4, <2>1, <2>2, Zenon DEF F!esp32_ipc_tx
<1>5. ASSUME NEW t \in Task, F!esp32_ipc_flash_io(t) PROVE FlashInv'
  BY <1>5 DEF F!esp32_ipc_flash_io
<1>6. ASSUME NEW t \in Task, F!esp32_ipc_flash_io_iram(t) PROVE FlashInv'
  BY <1>6 DEF F!esp32_ipc_flash_io_iram
<1>7. ASSUME NEW b \in Block, F!Fetch(b) \/ F!Evict(b) PROVE FlashInv'
  BY <1>7 DEF F!Fetch, F!Evict
<1>8. CASE F!esp_flash_rx
  BY <1>8, Zenon DEF F!esp_flash_rx
<1>9. CASE F!FirmwareStarts
  BY <1>9, Zenon DEF F!FirmwareStarts
<1>10. CASE F!FirmwarePrograms
  <2>1. cmd.block \in Block /\ cmd.value \in Value
    BY Zenon DEF F!Op
  <2> QED BY <1>10, <2>1 DEF F!FirmwarePrograms
<1>11. CASE F!linux_flash_invalidate
  BY <1>11, Zenon DEF F!linux_flash_invalidate
<1> QED BY <1>1, <1>2, <1>3, <1>4, <1>5, <1>6, <1>7, <1>8, <1>9, <1>10, <1>11, Zenon DEF F!Next

\* The other components leave the flash alone.
LEMMA FlashNext == FlashInv /\ [Next]_vars => FlashInv'
<1>1. CASE F!Next
  BY <1>1, FlashStep, Zenon
<1>2. CASE UNCHANGED flashVars
  BY <1>2, Zenon DEF flashVars, FlashInv, FlashTypeOK, Handshake, CommandInv
<1> QED BY <1>1, <1>2, Zenon DEF Next, vars

\* The invariant of FlashIpc holds in every behaviour.
LEMMA FlashAlways == Spec => []FlashInv
<1>1. Init => FlashInv
  BY FlashInit, Zenon DEF Init
<1> QED BY <1>1, FlashNext, PTL DEF Spec

\* Whenever Linux runs, the flash cache is on, and no line of it holds what
\* esp_flash_write() has replaced: linux_flash_invalidate() comes before the
\* answer that lets the task out of IRAM.
THEOREM FlashStaysReadable == Spec => []FlashReadable
<1>1. FlashInv => FlashReadable
  BY DEF FlashInv, FlashTypeOK, Handshake, CommandInv, FlashReadable, F!NoFetchWithoutCache, F!CacheCoherent,
     F!LinuxRuns, Held
<1> QED BY <1>1, FlashAlways, PTL

\* esp32_ipc_flash_io() reports success only for what the flash holds: the
\* command in the shared object is the one of the task that holds the mutex,
\* from fill_cmd() to the answer.
THEOREM FlashSuccessIsReal == Spec => []SuccessMeansWritten
<1>1. FlashInv => SuccessMeansWritten
  BY Zenon DEF FlashInv, CommandInv, SuccessMeansWritten, F!SuccessMeansWritten
<1> QED BY <1>1, FlashAlways, PTL

-----------------------------------------------------------------------------
(* Scan. *)

\* The answer of the firmware to scan s: it starts.
Ok(s) == [type |-> "ok", scan |-> s]
\* The answer of the firmware to scan s: it does not.
Fail(s) == [type |-> "fail", scan |-> s]
\* The event that scan s is over.
Done(s) == [type |-> "done", scan |-> s]

\* What RequestIsLive needs of the interface and the caller.
ScanTypeOK ==
    /\ iface \in {"up", "stopped", "down"}
    /\ started \in Nat
    /\ notified \in BOOLEAN /\ scan_in_progress \in BOOLEAN
    /\ iface = "stopped" => request = None /\ caller = None
    /\ S!RequestIsLive /\ S!BusyMeansScanning

\* Until a scan is given up, core 0 has nothing to do with any but the one the
\* driver holds, and its messages come in order.
OneScan ==
    IF request = None
    THEN commands = << >> /\ scanning = {} /\ to_host = << >> /\ (caller = None \/ answer = "ok")
    ELSE \/ /\ caller = request /\ answer = None
            /\ \/ commands = <<request>> /\ scanning = {} /\ to_host = << >>
               \/ commands = << >> /\ scanning = {request} /\ to_host = <<Ok(request)>>
               \/ commands = << >> /\ scanning = {} /\ to_host = <<Ok(request), Done(request)>>
               \/ commands = << >> /\ scanning = {} /\ to_host = <<Fail(request)>>
         \/ /\ caller = request /\ answer = "fail"
            /\ commands = << >> /\ scanning = {} /\ to_host = << >>
         \/ /\ caller = None \/ (caller = request /\ answer = "ok")
            /\ commands = << >>
            /\ \/ scanning = {request} /\ to_host = << >>
               \/ scanning = {} /\ to_host = <<Done(request)>>

\* The inductive invariant of Scan.
ScanInv == ScanTypeOK /\ (~abandoned => OneScan)

\* No scan is under way when the driver is loaded.
LEMMA ScanInit == S!Init => ScanInv
<1> SUFFICES ASSUME S!Init PROVE ScanInv
  BY Zenon
<1>1. S!RequestIsLive /\ S!BusyMeansScanning
  BY Zenon DEF S!Init, S!RequestIsLive, S!BusyMeansScanning
<1>2. OneScan
  BY Zenon DEF S!Init, OneScan
<1>3. ScanTypeOK
  BY <1>1, Zenon DEF S!Init, ScanTypeOK
<1> QED BY <1>2, <1>3, Zenon DEF ScanInv

\* Messages come one or two at a time.
LEMMA ShortSeqs ==
    ASSUME NEW a, NEW b
    PROVE  /\ Append(<< >>, a) = <<a>> /\ Append(<<a>>, b) = <<a, b>>
           /\ Head(<<a>>) = a /\ Head(<<a, b>>) = a
           /\ Tail(<<a>>) = << >> /\ Tail(<<a, b>>) = <<b>>
           /\ <<a>> # << >> /\ <<a, b>> # << >>
<1>1. Append(<< >>, a) = <<a>>
  OBVIOUS
<1>2. Append(<<a>>, b) = <<a, b>>
  <2>1. /\ <<a>> \in Seq({a, b}) /\ Len(<<a>>) = 1 /\ <<a>>[1] = a
        /\ <<a, b>> \in Seq({a, b}) /\ Len(<<a, b>>) = 2 /\ <<a, b>>[1] = a /\ <<a, b>>[2] = b
    OBVIOUS
  <2>2. /\ Append(<<a>>, b) \in Seq({a, b}) /\ Len(Append(<<a>>, b)) = 2
        /\ Append(<<a>>, b)[1] = a /\ Append(<<a>>, b)[2] = b
    BY <2>1, AppendProperties
  <2>3. \A i \in 1 .. Len(<<a, b>>) : <<a, b>>[i] = Append(<<a>>, b)[i]
    BY <2>1, <2>2, SMT
  <2> QED BY <2>1, <2>2, <2>3, SeqEqual, Zenon
<1>3. Head(<<a>>) = a /\ Head(<<a, b>>) = a
  OBVIOUS
<1>4. Tail(<<a>>) = << >> /\ Tail(<<a, b>>) = <<b>>
  OBVIOUS
<1>5. <<a>> # << >> /\ <<a, b>> # << >>
  BY Zenon
<1> QED BY <1>1, <1>2, <1>3, <1>4, <1>5, Zenon

\* Every step of the driver, of its workqueue and of the firmware keeps the
\* invariant of Scan.
LEMMA ScanStep == ScanInv /\ S!Next => ScanInv'
<1> SUFFICES ASSUME ScanInv, S!Next PROVE ScanInv'
  BY Zenon
<1> USE DEF ScanInv, S!fwVars, S!ESP_MARK_SCAN_DONE
<1>1. CASE S!esp_open
  BY <1>1, Zenon DEF S!esp_open, OneScan, ScanTypeOK, S!RequestIsLive, S!BusyMeansScanning
<1>2. CASE S!cmd_scan_request
  <2>1. started' \in Nat /\ started' # None
    BY <1>2, ScanAssumption DEF S!cmd_scan_request, ScanTypeOK
  <2>2. ScanTypeOK'
    BY <1>2, <2>1, Zenon DEF S!cmd_scan_request, ScanTypeOK, S!RequestIsLive, S!BusyMeansScanning
  <2>3. ~abandoned' => OneScan'
    BY <1>2, <2>1, ShortSeqs DEF S!cmd_scan_request, OneScan
  <2> QED BY <2>2, <2>3, Zenon
<1>3. CASE S!FirmwareAnswers
  <2>1. ScanTypeOK'
    BY <1>3, Zenon DEF S!FirmwareAnswers, ScanTypeOK, S!RequestIsLive, S!BusyMeansScanning
  <2>2. ASSUME ~abandoned' PROVE OneScan'
    <3>1. /\ request # None /\ commands = <<request>> /\ scanning = {} /\ to_host = << >>
          /\ caller = request /\ answer = None
      BY <1>3, <2>2, Zenon DEF S!FirmwareAnswers, OneScan
    <3>2. /\ commands' = << >>
          /\ \/ to_host' = <<Ok(request)>> /\ scanning' = {request}
             \/ to_host' = <<Fail(request)>> /\ scanning' = {}
      BY <1>3, <3>1, ShortSeqs DEF S!FirmwareAnswers, Ok, Fail
    <3> QED BY <1>3, <3>1, <3>2, Zenon DEF S!FirmwareAnswers, OneScan
  <2> QED BY <2>1, <2>2, Zenon
<1>4. CASE S!FirmwareFinishes
  <2>1. ScanTypeOK'
    BY <1>4, Zenon DEF S!FirmwareFinishes, ScanTypeOK, S!RequestIsLive, S!BusyMeansScanning
  <2>2. ASSUME ~abandoned' PROVE OneScan'
    <3>1. request # None /\ scanning = {request} /\ commands = << >>
      BY <1>4, <2>2, Zenon DEF S!FirmwareFinishes, OneScan
    <3>2. scanning' = {} /\ to_host' = Append(to_host, Done(request))
      BY <1>4, <3>1, Zenon DEF S!FirmwareFinishes, Done
    <3>3. \/ caller = request /\ answer = None /\ to_host = <<Ok(request)>>
          \/ (caller = None \/ (caller = request /\ answer = "ok")) /\ to_host = << >>
      BY <1>4, <2>2, <3>1, Zenon DEF S!FirmwareFinishes, OneScan
    <3>4. to_host = << >> => to_host' = <<Done(request)>>
      BY <3>2, ShortSeqs, Zenon
    <3>5. to_host = <<Ok(request)>> => to_host' = <<Ok(request), Done(request)>>
      BY <3>2, ShortSeqs, Zenon
    <3> QED BY <1>4, <3>1, <3>2, <3>3, <3>4, <3>5, Zenon DEF S!FirmwareFinishes, OneScan
  <2> QED BY <2>1, <2>2, Zenon
<1>5. CASE S!process_cmd_resp
  <2>1. ScanTypeOK'
    BY <1>5, Zenon DEF S!process_cmd_resp, ScanTypeOK, S!RequestIsLive, S!BusyMeansScanning
  <2>2. ASSUME ~abandoned' PROVE OneScan'
    <3>1. /\ request # None /\ caller = request /\ commands = << >>
          /\ \/ scanning = {request} /\ to_host = <<Ok(request)>>
             \/ scanning = {} /\ to_host = <<Ok(request), Done(request)>>
             \/ scanning = {} /\ to_host = <<Fail(request)>>
      BY <1>5, <2>2, ShortSeqs DEF S!process_cmd_resp, OneScan, Done
    <3>2. \/ scanning = {request} /\ to_host' = << >> /\ answer' = "ok"
          \/ scanning = {} /\ to_host' = <<Done(request)>> /\ answer' = "ok"
          \/ scanning = {} /\ to_host' = << >> /\ answer' = "fail"
      <4>2. CASE scanning = {request} /\ to_host = <<Ok(request)>>
        BY <1>5, <3>1, <4>2, ShortSeqs DEF S!process_cmd_resp, Ok
      <4>3. CASE scanning = {} /\ to_host = <<Ok(request), Done(request)>>
        BY <1>5, <3>1, <4>3, ShortSeqs DEF S!process_cmd_resp, Ok
      <4>4. CASE scanning = {} /\ to_host = <<Fail(request)>>
        BY <1>5, <3>1, <4>4, ShortSeqs DEF S!process_cmd_resp, Fail
      <4> QED BY <3>1, <4>2, <4>3, <4>4, Zenon
    <3> QED BY <1>5, <3>1, <3>2, Zenon DEF S!process_cmd_resp, OneScan
  <2> QED BY <2>1, <2>2, Zenon
<1>6. CASE S!process_scan_result_event
  <2>1. ScanTypeOK'
    BY <1>6, Zenon DEF S!process_scan_result_event, ScanTypeOK, S!RequestIsLive, S!BusyMeansScanning
  <2>2. ASSUME ~abandoned' PROVE OneScan'
    <3>1. /\ request # None /\ commands = << >> /\ scanning = {} /\ to_host = <<Done(request)>>
          /\ caller = None \/ answer = "ok"
      BY <1>6, <2>2, ShortSeqs DEF S!process_scan_result_event, OneScan, Ok, Fail
    <3> QED BY <1>6, <3>1, ShortSeqs, Zenon DEF S!process_scan_result_event, OneScan
  <2> QED BY <2>1, <2>2, Zenon
<1>7. CASE S!wait_and_decode_cmd_resp
  <2>1. ScanTypeOK'
    BY <1>7, Zenon DEF S!wait_and_decode_cmd_resp, ScanTypeOK, S!RequestIsLive, S!BusyMeansScanning
  <2>2. ~abandoned' => OneScan'
    BY <1>7, ScanAssumption, Zenon DEF S!wait_and_decode_cmd_resp, OneScan
  <2> QED BY <2>1, <2>2, Zenon
<1>8. CASE S!scan_done_work
  BY <1>8, Zenon DEF S!scan_done_work, OneScan, ScanTypeOK, S!RequestIsLive, S!BusyMeansScanning
<1>9. CASE S!esp_stop
  BY <1>9, Zenon DEF S!esp_stop, OneScan, ScanTypeOK, S!RequestIsLive, S!BusyMeansScanning
<1>10. CASE S!netdev_down
  BY <1>10, Zenon DEF S!netdev_down, OneScan, ScanTypeOK, S!RequestIsLive, S!BusyMeansScanning
<1> QED BY <1>1, <1>2, <1>3, <1>4, <1>5, <1>6, <1>7, <1>8, <1>9, <1>10, Zenon DEF S!Next

\* The other components leave the scan alone.
LEMMA ScanNext == ScanInv /\ [Next]_vars => ScanInv'
<1>1. CASE S!Next
  BY <1>1, ScanStep, Zenon
<1>2. CASE UNCHANGED scanVars
  BY <1>2, Zenon DEF scanVars, ScanInv, ScanTypeOK, OneScan, S!RequestIsLive, S!BusyMeansScanning
<1> QED BY <1>1, <1>2, Zenon DEF Next, vars

\* The invariant of Scan holds in every behaviour.
LEMMA ScanAlways == Spec => []ScanInv
<1>1. Init => ScanInv
  BY ScanInit, Zenon DEF Init
<1> QED BY <1>1, ScanNext, PTL DEF Spec

\* The scan request the driver holds is never one that cfg80211 has freed, and
\* whoever is busy with a scan has one that can still be completed, through any
\* interleaving of the answer, the event, the timeout and ndo_stop().
THEOREM ScanRequestLives == Spec => []RequestIsLive
<1>1. ScanInv => RequestIsLive
  BY Zenon DEF ScanInv, ScanTypeOK, RequestIsLive
<1> QED BY <1>1, ScanAlways, PTL

\* Until a scan is given up, process_scan_result_event() completes a request
\* with that request's own event, never with the late event of an earlier one.
THEOREM ScanDoneByItsOwn == Spec => DoneIsOwn
<1> DEFINE Own == request # None /\ request' = None /\ caller' = caller /\ ~abandoned'
                    => Head(to_host).scan = request
<1>1. ASSUME ScanInv, S!Next PROVE Own
  <2> SUFFICES ASSUME request # None, request' = None, caller' = caller, ~abandoned'
               PROVE  Head(to_host).scan = request
    BY Zenon
  <2>1. S!process_scan_result_event
    BY <1>1, Zenon DEF S!Next, S!esp_open, S!cmd_scan_request, S!FirmwareAnswers, S!FirmwareFinishes,
       S!process_cmd_resp, S!wait_and_decode_cmd_resp, S!scan_done_work, S!esp_stop, S!netdev_down
  <2>2. to_host = <<Done(request)>>
    BY <1>1, <2>1, ShortSeqs DEF ScanInv, OneScan, S!process_scan_result_event, Ok, Fail
  <2> QED BY <2>2, ShortSeqs DEF Done
<1>2. ScanInv /\ [Next]_vars => [Own]_(S!vars)
  BY <1>1, Zenon DEF Next, vars, scanVars, S!vars
<1> QED BY <1>2, ScanAlways, PTL DEF Spec, DoneIsOwn, S!DoneIsOwn

-----------------------------------------------------------------------------
(* The bytes of a queue of packets. *)

\* Induction over the naturals, in the form the provers can use: a set of
\* naturals that has 0 and the successor of each of its members has them all.
LEMMA SetInduction ==
    ASSUME NEW T \in SUBSET Nat, 0 \in T, \A n \in T : n + 1 \in T
    PROVE  T = Nat
<1> DEFINE R == OpToRel(<, Nat)
           U == Nat \ T
<1> SUFFICES ASSUME U # {} PROVE FALSE
  BY Zenon
<1>1. \E x \in U : \A y \in U : ~(<<y, x>> \in R)
  <2> HIDE DEF U
  <2>1. U \subseteq Nat
    BY Zenon DEF U
  <2> QED BY <2>1, NatLessThanWellFounded, WFMin, Zenon
<1>2. PICK x \in U : \A y \in U : ~(<<y, x>> \in R)
  BY <1>1, Zenon
<1>3. \A y \in U : ~(y < x)
  BY <1>2, Zenon DEF OpToRel
<1>4. x # 0 /\ x - 1 \in Nat /\ x - 1 < x
  OBVIOUS
<1>5. x - 1 \in T
  BY <1>3, <1>4, Zenon
<1> QED BY <1>4, <1>5

\* The bytes of the first i packets of s, as Bytes computes them.
Upto(s) == CHOOSE f : f = [i \in 0 .. Len(s) |-> IF i = 0 THEN << >> ELSE f[i - 1] \o s[i]]

\* Bytes(s) is the last of these.
LEMMA BytesDef == ASSUME NEW s PROVE B!Bytes(s) = Upto(s)[Len(s)]
BY Zenon DEF B!Bytes, Upto

\* The recursive function that Bytes chooses exists: the bytes of i packets are
\* those of i - 1 and those of the i-th.
LEMMA UptoIs ==
    ASSUME NEW Byte, NEW s \in Seq(Seq(Byte))
    PROVE  /\ \A i \in 0 .. Len(s) : Upto(s)[i] \in Seq(Byte)
           /\ Upto(s)[0] = << >>
           /\ \A i \in 1 .. Len(s) : Upto(s)[i] = Upto(s)[i - 1] \o s[i]
<1> DEFINE G(f, n) == \A i \in 0 .. n : f[i] = IF i = 0 THEN << >> ELSE f[i - 1] \o s[i]
           T == {n \in Nat : n <= Len(s) => \E f \in [0 .. n -> Seq(Byte)] : G(f, n)}
<1>0. Len(s) \in Nat /\ \A i \in 1 .. Len(s) : s[i] \in Seq(Byte)
  OBVIOUS
<1>1. 0 \in T
  <2>1. [i \in 0 .. 0 |-> << >>] \in [0 .. 0 -> Seq(Byte)] /\ G([i \in 0 .. 0 |-> << >>], 0)
    OBVIOUS
  <2> QED BY <2>1, Zenon
<1>2. ASSUME NEW n \in T PROVE n + 1 \in T
  <2>0. n \in Nat /\ n + 1 \in Nat
    BY <1>2
  <2> SUFFICES ASSUME n + 1 <= Len(s) PROVE \E f \in [0 .. n + 1 -> Seq(Byte)] : G(f, n + 1)
    BY <2>0, Zenon
  <2>1. n <= Len(s) /\ n + 1 \in 1 .. Len(s)
    BY <1>0, <2>0
  <2>2. PICK f \in [0 .. n -> Seq(Byte)] : G(f, n)
    BY <1>2, <2>1, Zenon
  <2> DEFINE last == f[n] \o s[n + 1]
             g == [i \in 0 .. n + 1 |-> IF i = n + 1 THEN last ELSE f[i]]
  <2>3. last \in Seq(Byte)
    <3>1. f[n] \in Seq(Byte) /\ s[n + 1] \in Seq(Byte)
      BY <1>0, <2>0, <2>1
    <3> QED BY <3>1, ConcatProperties, Zenon
  <2>4. g \in [0 .. n + 1 -> Seq(Byte)]
    BY <2>0, <2>3
  <2>5. G(g, n + 1)
    <3> SUFFICES ASSUME NEW i \in 0 .. n + 1
                 PROVE  g[i] = IF i = 0 THEN << >> ELSE g[i - 1] \o s[i]
      BY Zenon
    <3>1. CASE i = n + 1
      <4>1. n \in 0 .. n + 1 /\ n # n + 1 /\ n + 1 # 0 /\ (n + 1) - 1 = n
        BY <2>0
      <4>2. g[n] = f[n] /\ g[n + 1] = last
        <5> HIDE DEF last
        <5> QED BY <2>0, <4>1
      <4> QED BY <3>1, <4>1, <4>2, Zenon
    <3>2. CASE i # n + 1
      <4>1. i \in 0 .. n /\ g[i] = f[i] /\ (i # 0 => i - 1 \in 0 .. n /\ g[i - 1] = f[i - 1])
        BY <2>0, <3>2
      <4> QED BY <2>2, <4>1, Zenon
    <3> QED BY <3>1, <3>2, Zenon
  <2> HIDE DEF g
  <2> QED BY <2>4, <2>5, Zenon
<1>3. Len(s) \in T
  <2> HIDE DEF T
  <2>1. T \in SUBSET Nat
    BY Zenon DEF T
  <2> QED BY <1>0, <1>1, <1>2, <2>1, SetInduction, Zenon
<1>4. PICK f \in [0 .. Len(s) -> Seq(Byte)] : G(f, Len(s))
  BY <1>0, <1>3
<1>5. f = [i \in 0 .. Len(s) |-> IF i = 0 THEN << >> ELSE f[i - 1] \o s[i]]
  BY <1>4
<1>6. Upto(s) = [i \in 0 .. Len(s) |-> IF i = 0 THEN << >> ELSE Upto(s)[i - 1] \o s[i]]
  BY <1>5, Zenon DEF Upto
<1> HIDE DEF T, G
<1> DEFINE V == {n \in Nat : n <= Len(s) => Upto(s)[n] \in Seq(Byte)}
<1>7. Upto(s)[0] = << >>
  BY <1>0, <1>6
<1>8. ASSUME NEW i \in 1 .. Len(s) PROVE Upto(s)[i] = Upto(s)[i - 1] \o s[i]
  <2>1. i \in 0 .. Len(s) /\ i # 0
    OBVIOUS
  <2> QED BY <1>6, <2>1, Zenon
<1>9. 0 \in V
  <2>1. << >> \in Seq(Byte)
    OBVIOUS
  <2> QED BY <1>7, <2>1, Zenon
<1>10. ASSUME NEW n \in V PROVE n + 1 \in V
  <2>0. n \in Nat /\ n + 1 \in Nat
    BY <1>10
  <2> SUFFICES ASSUME n + 1 <= Len(s) PROVE Upto(s)[n + 1] \in Seq(Byte)
    BY <2>0, Zenon
  <2>1. n <= Len(s) /\ n + 1 \in 1 .. Len(s) /\ (n + 1) - 1 = n
    BY <1>0, <2>0
  <2>2. Upto(s)[n] \in Seq(Byte) /\ s[n + 1] \in Seq(Byte)
    BY <1>0, <1>10, <2>1, Zenon
  <2>3. Upto(s)[n + 1] = Upto(s)[n] \o s[n + 1]
    BY <1>8, <2>1, Zenon
  <2>4. Upto(s)[n] \o s[n + 1] \in Seq(Byte)
    BY <2>2, ConcatProperties, Zenon
  <2> QED BY <2>3, <2>4, Zenon
<1>11. V = Nat
  <2> HIDE DEF V
  <2>1. V \in SUBSET Nat
    BY Zenon DEF V
  <2> QED BY <1>9, <1>10, <2>1, SetInduction, Zenon
<1>12. \A i \in 0 .. Len(s) : Upto(s)[i] \in Seq(Byte)
  BY <1>0, <1>11
<1> QED BY <1>7, <1>8, <1>12, Zenon

\* An empty queue has no bytes.
LEMMA BytesEmpty == B!Bytes(<< >>) = << >>
<1>1. << >> \in Seq(Seq({})) /\ Len(<< >>) = 0
  OBVIOUS
<1> QED BY <1>1, BytesDef, UptoIs, Zenon

\* The bytes of a queue of packets are a sequence of bytes.
LEMMA BytesType == ASSUME NEW Byte, NEW s \in Seq(Seq(Byte)) PROVE B!Bytes(s) \in Seq(Byte)
<1>1. Len(s) \in 0 .. Len(s)
  OBVIOUS
<1> QED BY <1>1, BytesDef, UptoIs, Zenon

\* Queueing a packet appends its bytes.
LEMMA BytesAppend ==
    ASSUME NEW Byte, NEW s \in Seq(Seq(Byte)), NEW p \in Seq(Byte)
    PROVE  B!Bytes(Append(s, p)) = B!Bytes(s) \o p
<1> DEFINE t == Append(s, p)
           n == Len(s)
           T == {i \in Nat : i <= n => Upto(t)[i] = Upto(s)[i]}
<1>1. /\ t \in Seq(Seq(Byte)) /\ n \in Nat /\ Len(t) = n + 1
      /\ \A i \in 1 .. n : t[i] = s[i]
      /\ t[n + 1] = p
  BY AppendProperties
<1> HIDE DEF t, n
<1>2. Upto(s)[0] = << >> /\ \A i \in 1 .. n : Upto(s)[i] = Upto(s)[i - 1] \o s[i]
  BY UptoIs, Zenon DEF n
<1>3. Upto(t)[0] = << >> /\ \A i \in 1 .. n + 1 : Upto(t)[i] = Upto(t)[i - 1] \o t[i]
  BY <1>1, UptoIs, Zenon
<1>4. 0 \in T
  BY <1>2, <1>3, Zenon
<1>5. ASSUME NEW i \in T PROVE i + 1 \in T
  <2>0. i \in Nat /\ i + 1 \in Nat
    BY <1>5
  <2> SUFFICES ASSUME i + 1 <= n PROVE Upto(t)[i + 1] = Upto(s)[i + 1]
    BY <2>0, Zenon
  <2>1. i <= n /\ i + 1 \in 1 .. n /\ i + 1 \in 1 .. n + 1 /\ (i + 1) - 1 = i
    BY <1>1, <2>0
  <2>2. Upto(t)[i] = Upto(s)[i]
    BY <1>5, <2>1, Zenon
  <2>3. Upto(t)[i + 1] = Upto(t)[i] \o s[i + 1]
    BY <1>1, <1>3, <2>1, Zenon
  <2>4. Upto(s)[i + 1] = Upto(s)[i] \o s[i + 1]
    BY <1>2, <2>1, Zenon
  <2> QED BY <2>2, <2>3, <2>4, Zenon
<1>6. T = Nat
  <2> HIDE DEF T
  <2>1. T \in SUBSET Nat
    BY Zenon DEF T
  <2> QED BY <1>4, <1>5, <2>1, SetInduction, Zenon
<1>7. Upto(t)[n] = Upto(s)[n]
  BY <1>1, <1>6, SMTT(20)
<1>8. Upto(t)[n + 1] = Upto(t)[n] \o p
  <2>1. n + 1 \in 1 .. n + 1 /\ (n + 1) - 1 = n
    BY <1>1
  <2> QED BY <1>1, <1>3, <2>1, Zenon
<1> QED BY <1>1, <1>7, <1>8, BytesDef, Zenon DEF t, n

\* The bytes of the first packet come first.
LEMMA BytesHead ==
    ASSUME NEW Byte, NEW s
    PROVE  s \in Seq(Seq(Byte)) /\ s # << >> => B!Bytes(s) = Head(s) \o B!Bytes(Tail(s))
<1>a. SUFFICES ASSUME s \in Seq(Seq(Byte)), s # << >>
               PROVE  B!Bytes(s) = Head(s) \o B!Bytes(Tail(s))
  BY Zenon
<1> DEFINE t == Tail(s)
           h == Head(s)
           n == Len(t)
           T == {i \in Nat : i <= n => Upto(s)[i + 1] = h \o Upto(t)[i]}
<1>1. /\ t \in Seq(Seq(Byte)) /\ h \in Seq(Byte) /\ n \in Nat /\ Len(s) = n + 1
      /\ \A i \in 1 .. n : t[i] = s[i + 1] /\ t[i] \in Seq(Byte)
      /\ s[1] = h
  BY <1>a
<1> HIDE DEF t, h, n
<1>2. /\ \A i \in 0 .. n : Upto(t)[i] \in Seq(Byte)
      /\ Upto(t)[0] = << >>
      /\ \A i \in 1 .. n : Upto(t)[i] = Upto(t)[i - 1] \o t[i]
  BY <1>1, UptoIs, Zenon DEF n
<1>3. Upto(s)[0] = << >> /\ \A i \in 1 .. n + 1 : Upto(s)[i] = Upto(s)[i - 1] \o s[i]
  BY <1>1, <1>a, UptoIs, Zenon
<1>4. 0 \in T
  <2>1. Upto(s)[1] = << >> \o h
    <3>1. 1 \in 1 .. n + 1 /\ 1 - 1 = 0
      BY <1>1
    <3> QED BY <1>1, <1>3, <3>1, Zenon
  <2>2. << >> \o h = h /\ h \o << >> = h
    BY <1>1, ConcatEmptySeq, Zenon
  <2>3. Upto(s)[0 + 1] = h \o Upto(t)[0]
    BY <1>2, <2>1, <2>2
  <2> QED BY <2>3
<1>5. ASSUME NEW i \in T PROVE i + 1 \in T
  <2>0. i \in Nat /\ i + 1 \in Nat
    BY <1>5
  <2>a. SUFFICES ASSUME i + 1 <= n PROVE Upto(s)[(i + 1) + 1] = h \o Upto(t)[i + 1]
    BY <2>0, Zenon
  <2>1. /\ i <= n /\ i \in 0 .. n /\ i + 1 \in 1 .. n /\ (i + 1) + 1 \in 1 .. n + 1
        /\ ((i + 1) + 1) - 1 = i + 1 /\ (i + 1) - 1 = i
    BY <1>1, <2>0, <2>a
  <2>2. Upto(s)[(i + 1) + 1] = Upto(s)[i + 1] \o t[i + 1]
    BY <1>1, <1>3, <2>1, Zenon
  <2>3. Upto(s)[i + 1] = h \o Upto(t)[i]
    BY <1>5, <2>1, Zenon
  <2>4. Upto(t)[i + 1] = Upto(t)[i] \o t[i + 1]
    BY <1>2, <2>1, Zenon
  <2> DEFINE u == Upto(t)[i]
             v == t[i + 1]
  <2>5. h \in Seq(Byte) /\ u \in Seq(Byte) /\ v \in Seq(Byte)
    BY <1>1, <1>2, <2>1
  <2> HIDE DEF u, v, T
  <2>6. (h \o u) \o v = h \o (u \o v)
    BY <2>5, ConcatAssociative, SMT
  <2> QED BY <2>2, <2>3, <2>4, <2>6, Zenon DEF u, v
<1>6. T = Nat
  <2> HIDE DEF T
  <2>1. T \in SUBSET Nat
    BY Zenon DEF T
  <2> QED BY <1>4, <1>5, <2>1, SetInduction, Zenon
<1>7. Upto(s)[n + 1] = h \o Upto(t)[n]
  <2>1. n \in T
    BY <1>1, <1>6, Zenon
  <2>2. n <= n
    BY <1>1
  <2> QED BY <2>1, <2>2, Zenon
<1> QED BY <1>1, <1>7, BytesDef, Zenon DEF t, h, n

-----------------------------------------------------------------------------
(* The BLE pipe. *)

\* Packets are sequences of bytes, wherever they are queued.
Packets == Seq(Nat)

\* Concatenation of a, b and c may be read either way, hidden from the provers,
\* which would rewrite with it.
Assoc(a, b, c) == (a \o b) \o c = a \o (b \o c)

\* Packets may be concatenated, in either order of the brackets.
LEMMA PacketsConcat ==
    ASSUME NEW a \in Packets, NEW b \in Packets, NEW c \in Packets
    PROVE  a \o b \in Packets /\ Assoc(a, b, c)
<1>1. a \o b \in Packets
  BY ConcatProperties, Zenon DEF Packets
<1>2. Assoc(a, b, c)
  BY ConcatAssociative, SMT DEF Packets, Assoc
<1> QED BY <1>1, <1>2, Zenon

\* The inductive invariant of BlePipe: the types, the stream and the reader's
\* wakeup.
BleInv ==
    /\ written \in Nat
    /\ to_host_queue \in [B!Priorities -> Seq(Packets)]
    /\ rx_q \in Seq(Packets)
    /\ accepted \in Packets
    /\ got \in Packets
    /\ B!PipeIsStream
    /\ B!ReaderIsWoken

\* The pipe is empty when the board starts.
LEMMA BleInit == B!Init => BleInv
<1> SUFFICES ASSUME B!Init PROVE BleInv
  BY Zenon
<1>1. B!Bytes(<< >>) = << >>
  BY BytesEmpty, Zenon
<1>2. B!PipeIsStream
  BY <1>1, ConcatEmptySeq DEF B!Init, B!PipeIsStream
<1> QED BY <1>2 DEF B!Init, BleInv, B!ReaderIsWoken, Packets

\* A packet of the pipe arrives at the device.
LEMMA BleRx ==
    ASSUME BleInv, NEW p \in Packets, B!esp_ble_prov_rx(p), UNCHANGED <<reader, got>>
    PROVE  /\ rx_q' \in Seq(Packets) /\ accepted' \in Packets
           /\ B!PipeIsStream' /\ B!ReaderIsWoken'
<1>1. CASE UNCHANGED <<rx_q, accepted, woken>>
  BY <1>1, Zenon DEF BleInv, B!PipeIsStream, B!ReaderIsWoken
<1>2. CASE rx_q' = Append(rx_q, p) /\ accepted' = accepted \o p /\ woken' = reader
  <2>1. rx_q' \in Seq(Packets)
    BY <1>2 DEF BleInv
  <2>2. accepted' \in Packets
    BY <1>2, ConcatProperties DEF BleInv, Packets
  <2>3. B!Bytes(rx_q) \in Packets
    BY BytesType DEF BleInv, Packets
  <2>4. B!Bytes(rx_q') = B!Bytes(rx_q) \o p
    BY <1>2, BytesAppend DEF BleInv, Packets
  <2>5. (got \o B!Bytes(rx_q)) \o p = got \o (B!Bytes(rx_q) \o p)
    <3>1. got \in Packets
      BY DEF BleInv
    <3>2. Assoc(got, B!Bytes(rx_q), p)
      BY <2>3, <3>1, PacketsConcat, Zenon
    <3> QED BY <3>2, Zenon DEF Assoc
  <2>6. B!PipeIsStream'
    BY <1>2, <2>4, <2>5 DEF BleInv, B!PipeIsStream
  <2> QED BY <1>2, <2>1, <2>2, <2>6, Zenon DEF B!ReaderIsWoken
<1> QED BY <1>1, <1>2, Zenon DEF B!esp_ble_prov_rx

\* A read() of count bytes.
LEMMA BleTake ==
    ASSUME BleInv, rx_q # << >>, NEW count \in Nat, B!esp_ble_prov_take(count),
           UNCHANGED accepted
    PROVE  rx_q' \in Seq(Packets) /\ got' \in Packets /\ B!PipeIsStream'
<1> DEFINE p == Head(rx_q)
           k == IF count < Len(p) THEN count ELSE Len(p)
           first == SubSeq(p, 1, k)
           rest == SubSeq(p, count + 1, Len(p))
           tail == Tail(rx_q)
<1>1. p \in Packets /\ tail \in Seq(Packets) /\ rx_q \in Seq(Packets) /\ got \in Packets
  BY DEF BleInv
<1>2. Len(p) \in Nat /\ k \in 0 .. Len(p)
  BY <1>1 DEF Packets
<1>3. first \in Packets /\ rest \in Packets /\ p = first \o rest
  <2>1. rest = SubSeq(p, k + 1, Len(p))
    <3>1. CASE count < Len(p)
      BY <3>1
    <3>2. CASE ~(count < Len(p))
      BY <1>2, <3>2, SubSeqEmpty
    <3> QED BY <3>1, <3>2, Zenon
  <2>2. first \o SubSeq(p, k + 1, Len(p)) = SubSeq(p, 1, Len(p))
    <3>1. 1 \in 1 .. Len(p) + 1 /\ k \in 1 - 1 .. Len(p) /\ Len(p) \in k .. Len(p)
      BY <1>2
    <3> QED BY <1>1, <3>1, ConcatAdjacentSubSeq, Zenon DEF Packets
  <2>3. SubSeq(p, 1, Len(p)) = p
    BY <1>1, SubSeqFull DEF Packets
  <2>4. first \in Packets
    BY <1>1, <1>2, SubSeqProperties DEF Packets
  <2>5. rest \in Packets
    BY <1>1, <1>2, SubSeqProperties DEF Packets
  <2> QED BY <2>1, <2>2, <2>3, <2>4, <2>5, Zenon
<1>4. /\ rx_q' = IF rest = << >> THEN tail ELSE <<rest>> \o tail
      /\ got' = got \o first
  BY Zenon DEF B!esp_ble_prov_take
<1> HIDE DEF p, k, first, rest, tail
<1>5. B!Bytes(rx_q) = p \o B!Bytes(tail)
  BY <1>1, BytesHead, Zenon DEF p, tail, Packets
<1>6. rx_q' \in Seq(Packets) /\ B!Bytes(rx_q') = rest \o B!Bytes(tail)
  <2>1. B!Bytes(tail) \in Packets
    BY <1>1, BytesType, Zenon DEF Packets
  <2>2. CASE rest = << >>
    BY <1>1, <1>4, <2>1, <2>2, ConcatEmptySeq DEF Packets
  <2>3. CASE rest # << >>
    <3> DEFINE u == <<rest>> \o tail
    <3>1. u \in Seq(Packets) /\ u # << >> /\ Head(u) = rest /\ Tail(u) = tail
      BY <1>1, <1>3
    <3>2. rx_q' = u
      BY <1>4, <2>3
    <3> HIDE DEF u
    <3> QED BY <3>1, <3>2, BytesHead, Zenon DEF Packets
  <2> QED BY <2>2, <2>3, Zenon
<1>7. got \o (p \o B!Bytes(tail)) = (got \o first) \o (rest \o B!Bytes(tail))
  <2>1. B!Bytes(tail) \in Packets
    BY <1>1, BytesType, Zenon DEF Packets
  <2>2. first \in Packets /\ rest \in Packets /\ got \in Packets
    BY <1>1, <1>3
  <2>3. got \o ((first \o rest) \o B!Bytes(tail)) = (got \o first) \o (rest \o B!Bytes(tail))
    <3>1. rest \o B!Bytes(tail) \in Packets
      BY <2>1, <2>2, PacketsConcat, Zenon
    <3>2. Assoc(first, rest, B!Bytes(tail)) /\ Assoc(got, first, rest \o B!Bytes(tail))
      BY <2>1, <2>2, <3>1, PacketsConcat, Zenon
    <3> QED BY <3>2, Zenon DEF Assoc
  <2> QED BY <1>3, <2>3
<1>8. got' \in Packets
  BY <1>1, <1>3, <1>4, ConcatProperties DEF Packets
<1>9. B!PipeIsStream'
  BY <1>4, <1>5, <1>6, <1>7, Zenon DEF BleInv, B!PipeIsStream
<1> QED BY <1>6, <1>8, <1>9

\* What the actions of the GAP and of send_task() leave alone.
BleRest == rx_q' = rx_q /\ accepted' = accepted /\ got' = got /\ reader' = reader /\ woken' = woken

\* What leaves the device alone keeps the invariant.
LEMMA BleFrame ==
    ASSUME BleInv, BleRest, written' \in Nat, to_host_queue' \in [B!Priorities -> Seq(Packets)]
    PROVE  BleInv'
BY Zenon DEF BleInv, BleRest, B!PipeIsStream, B!ReaderIsWoken

\* Updating a function at a point of its domain keeps its type.
LEMMA ExceptType ==
    ASSUME NEW A, NEW Q, NEW f \in [A -> Q], NEW a \in A, NEW u \in Q
    PROVE  [f EXCEPT ![a] = u] \in [A -> Q]
BY Zenon

\* Every step of the GAP callbacks, of send_task() and of /dev/esp-ble keeps
\* the invariant of BlePipe.
LEMMA BleStep == BleInv /\ B!Next => BleInv'
<1> SUFFICES ASSUME BleInv, B!Next PROVE BleInv'
  BY Zenon
<1> USE DEF B!gapVars, B!fwVars, B!devVars
<1>0. /\ written \in Nat /\ to_host_queue \in [B!Priorities -> Seq(Packets)]
      /\ rx_q \in Seq(Packets) /\ accepted \in Packets /\ got \in Packets
  BY Zenon DEF BleInv
<1>1. CASE \/ B!on_sync \/ B!on_reset \/ B!adv_watchdog_cb \/ B!gap_event_connect
           \/ B!gap_event_adv_end \/ B!gap_event_disconnect
           \/ B!send_task_Empty \/ B!send_task_Take \/ B!send_task_Timeout
  <2>1. BleRest /\ written' = written /\ to_host_queue' = to_host_queue
    BY <1>1, Zenon DEF BleRest, B!on_sync, B!on_reset, B!adv_watchdog_cb, B!gap_event_connect,
       B!gap_event_adv_end, B!gap_event_disconnect, B!send_task_Empty, B!send_task_Take,
       B!send_task_Timeout
  <2> QED BY <1>0, <2>1, BleFrame
<1>2. CASE B!ble_prov_to_linux
  <2>1. BleRest
    BY <1>2 DEF BleRest, B!ble_prov_to_linux
  <2>2. PICK n \in 1 .. MaxPacket :
          /\ written' = written + n
          /\ \/ to_host_queue' = to_host_queue
             \/ to_host_queue' = [to_host_queue EXCEPT !["mid"] =
                                      Append(@, [i \in 1 .. n |-> written + i])]
    BY <1>2, Zenon DEF B!ble_prov_to_linux
  <2>3. n \in Nat /\ written' \in Nat /\ [i \in 1 .. n |-> written + i] \in Packets
    BY <1>0, <2>2 DEF Packets
  <2>4. to_host_queue' \in [B!Priorities -> Seq(Packets)]
    <3> DEFINE p == [i \in 1 .. n |-> written + i]
               u == Append(to_host_queue["mid"], p)
    <3>1. to_host_queue' \in {to_host_queue, [to_host_queue EXCEPT !["mid"] = u]}
      BY <2>2, Zenon
    <3>2. p \in Packets /\ "mid" \in B!Priorities
      BY <2>3, Zenon DEF B!Priorities
    <3> HIDE DEF p
    <3>3. u \in Seq(Packets)
      BY <1>0, <3>2
    <3> HIDE DEF u
    <3> QED BY <1>0, <3>1, <3>2, <3>3, ExceptType, Zenon
  <2> QED BY <2>1, <2>3, <2>4, BleFrame
<1>3. CASE B!send_to_host
  <2>1. BleRest /\ written' = written
    BY <1>3, Zenon DEF BleRest, B!send_to_host
  <2>2. << >> \in Packets
    BY DEF Packets
  <2>3. to_host_queue' \in [B!Priorities -> Seq(Packets)]
    BY <1>0, <1>3, <2>2 DEF B!Priorities, B!send_to_host
  <2> QED BY <1>0, <2>1, <2>3, BleFrame, Zenon
<1>4. CASE B!send_task_Send
  <2> DEFINE q == B!NextQueue
  <2>1. q \in B!Priorities /\ to_host_queue[q] # << >>
    BY <1>4 DEF B!send_task_Send, B!NextQueue, B!Priorities, B!Empty
  <2>2. written' = written /\ UNCHANGED <<reader, got>>
        /\ to_host_queue' = [to_host_queue EXCEPT ![q] = Tail(@)]
    BY <1>4, Zenon DEF B!send_task_Send
  <2>3. UNCHANGED <<rx_q, accepted, woken>> \/ B!esp_ble_prov_rx(Head(to_host_queue[q]))
    BY <1>4, Zenon DEF B!send_task_Send
  <2> HIDE DEF q
  <2>4. Head(to_host_queue[q]) \in Packets /\ Tail(to_host_queue[q]) \in Seq(Packets)
    BY <1>0, <2>1
  <2>5. to_host_queue' \in [B!Priorities -> Seq(Packets)]
    BY <1>0, <2>1, <2>2, <2>4, ExceptType, Zenon
  <2>6. CASE UNCHANGED <<rx_q, accepted, woken>>
    BY <1>0, <2>2, <2>5, <2>6, BleFrame DEF BleRest
  <2>7. CASE B!esp_ble_prov_rx(Head(to_host_queue[q]))
    <3>1. /\ rx_q' \in Seq(Packets) /\ accepted' \in Packets
          /\ B!PipeIsStream' /\ B!ReaderIsWoken'
      BY <2>2, <2>4, <2>7, BleRx
    <3> QED BY <1>0, <2>2, <2>5, <3>1 DEF BleInv
  <2> QED BY <2>3, <2>6, <2>7, Zenon
<1>5. CASE B!esp_ble_prov_open \/ B!esp_ble_prov_release
  <2>1. /\ rx_q' = << >> /\ accepted' = << >> /\ got' = << >>
        /\ written' = written /\ to_host_queue' = to_host_queue
    BY <1>5, Zenon DEF B!esp_ble_prov_open, B!esp_ble_prov_release
  <2>2. << >> \in Packets /\ << >> \in Seq(Packets) /\ << >> \o << >> = << >>
    BY ConcatEmptySeq DEF Packets
  <2>3. B!PipeIsStream'
    BY <2>1, <2>2, BytesEmpty DEF B!PipeIsStream
  <2> QED BY <1>0, <2>1, <2>2, <2>3 DEF BleInv, B!ReaderIsWoken
<1>6. CASE B!esp_ble_prov_read
  <2>1. /\ ~reader /\ written' = written /\ to_host_queue' = to_host_queue
        /\ woken' = woken /\ accepted' = accepted
    BY <1>6 DEF B!esp_ble_prov_read
  <2>2. CASE rx_q = << >>
    <3>1. rx_q' = rx_q /\ got' = got
      BY <1>6, <2>2 DEF B!esp_ble_prov_read
    <3> QED BY <1>0, <2>1, <2>2, <3>1 DEF BleInv, B!PipeIsStream, B!ReaderIsWoken
  <2>3. CASE rx_q # << >>
    <3>1. PICK count \in 1 .. MaxPacket : B!esp_ble_prov_take(count)
      BY <1>6, <2>3 DEF B!esp_ble_prov_read
    <3>2. count \in Nat
      OBVIOUS
    <3>3. rx_q' \in Seq(Packets) /\ got' \in Packets /\ B!PipeIsStream'
      BY <2>1, <2>3, <3>1, <3>2, BleTake
    <3>4. reader' = reader
      BY <1>6, <2>3 DEF B!esp_ble_prov_read
    <3> QED BY <1>0, <2>1, <3>3, <3>4 DEF BleInv, B!ReaderIsWoken
  <2> QED BY <2>2, <2>3
<1>7. CASE B!esp_ble_prov_read_Woken
  <2>1. /\ ~reader' /\ rx_q # << >> /\ accepted' = accepted
        /\ written' = written /\ to_host_queue' = to_host_queue
    BY <1>7 DEF B!esp_ble_prov_read_Woken
  <2>2. PICK count \in 1 .. MaxPacket : B!esp_ble_prov_take(count)
    BY <1>7 DEF B!esp_ble_prov_read_Woken
  <2>3. count \in Nat
    OBVIOUS
  <2>4. rx_q' \in Seq(Packets) /\ got' \in Packets /\ B!PipeIsStream'
    BY <2>1, <2>2, <2>3, BleTake
  <2> QED BY <1>0, <2>1, <2>4 DEF BleInv, B!ReaderIsWoken
<1>8. CASE B!esp_ble_prov_read_Signal
  <2>1. /\ ~reader' /\ rx_q' = rx_q /\ accepted' = accepted /\ got' = got
        /\ written' = written /\ to_host_queue' = to_host_queue
    BY <1>8, Zenon DEF B!esp_ble_prov_read_Signal
  <2> QED BY <2>1, Zenon DEF BleInv, B!PipeIsStream, B!ReaderIsWoken
<1> QED BY <1>1, <1>2, <1>3, <1>4, <1>5, <1>6, <1>7, <1>8 DEF B!Next

\* The other components leave the pipe alone.
LEMMA BleNext == BleInv /\ [Next]_vars => BleInv'
<1>1. CASE B!Next
  BY <1>1, BleStep, Zenon
<1>2. CASE UNCHANGED bleVars
  BY <1>2 DEF bleVars, BleInv, B!PipeIsStream, B!ReaderIsWoken
<1> QED BY <1>1, <1>2 DEF Next, vars

\* The invariant of BlePipe holds in every behaviour.
LEMMA BleAlways == Spec => []BleInv
<1>1. Init => BleInv
  BY BleInit DEF Init
<1> QED BY <1>1, BleNext, PTL DEF Spec

\* What read() of /dev/esp-ble returns is a prefix of what esp_ble_prov_rx()
\* accepted since open(), nothing lost, repeated or out of order whatever the
\* sizes of packets and reads, and no reader sleeps unwoken while the queue has
\* data.
THEOREM BlePipeIsStream == Spec => []PipeIsStream
<1>1. BleInv => PipeIsStream
  BY Zenon DEF BleInv, PipeIsStream
<1> QED BY <1>1, BleAlways, PTL
=============================================================================
