------------------------------ MODULE CmdQueue ------------------------------
(***************************************************************************)
(* The command queue of the esp32-ng WiFi driver (esp_cmd.c).              *)
(*                                                                         *)
(* A caller takes a node from a fixed pool, links it into the pending      *)
(* list, queues the work item and sleeps.  The work item sends one command *)
(* at a time to the firmware on the other core; the answer comes back on   *)
(* the receive path, which wakes every sleeper.  Linux is uniprocessor and *)
(* not preemptible, so a handler runs from one sleep to the next in one    *)
(* step; what interleaves are callers, the work item, the receive path,    *)
(* the firmware, timeouts and signals.                                     *)
(*                                                                         *)
(* A caller is named by the command code it issues: the commands of one    *)
(* code are serialised by the lock or the work item they are issued under. *)
(***************************************************************************)
EXTENDS Integers, Sequences, FiniteSets, Functions

CONSTANTS
    Codes,        \* command codes that may be outstanding together
    Nodes,        \* the pool (ESP_NUM_OF_CMD_NODES)
    None,         \* a null pointer; also the cmd_code of a recycled node (0)
    MaxInflight   \* bound: requests the firmware holds

ASSUME CmdAssumption ==
    /\ None \notin Codes \cup Nodes
    /\ IsFiniteSet(Nodes)
    /\ MaxInflight \in Nat

VARIABLES
    cmd_free_queue,     \* list of recycled nodes
    cmd_pending_queue,  \* list of nodes waiting to be sent
    cmd_code,           \* node -> the code it carries
    resp_skb,           \* node -> the code of the request its answer is for
    cur_cmd,            \* the node on the wire
    cmd_resp,           \* the code of the answered command
    cmd_work,           \* the work item is queued
    waiting,            \* code -> the node its caller sleeps on
    woken,              \* callers woken and not yet run
    inflight,           \* codes sent and not yet answered, oldest first
    abandoned,          \* history: a wait ended, or is bound to end, without an answer
    unsent              \* history: a command could not be sent

vars == <<cmd_free_queue, cmd_pending_queue, cmd_code, resp_skb, cur_cmd,
          cmd_resp, cmd_work, waiting, woken, inflight, abandoned, unsent>>

Waiters == {c \in Codes : waiting[c] # None}

\* Fault: the node stays linked.
list_del_init_Skipped(list, n) == list

\* list_del_init(): off the list, if that is the one the node is on.
list_del_init(list, n) ==
    IF n \in Range(list)
    THEN LET at == CHOOSE i \in DOMAIN list : list[i] = n
         IN  [k \in 1 .. Len(list) - 1 |-> IF k < at THEN list[k] ELSE list[k + 1]]
    ELSE list

\* alloc_esp_cmd_pool(): every node is recycled onto the free list.
Init ==
    /\ cmd_free_queue = CHOOSE s \in [1 .. Cardinality(Nodes) -> Nodes] : IsInjective(s)
    /\ cmd_pending_queue = << >>
    /\ cmd_code = [n \in Nodes |-> None]
    /\ resp_skb = [n \in Nodes |-> None]
    /\ cur_cmd = None
    /\ cmd_resp = None
    /\ cmd_work = FALSE
    /\ waiting = [c \in Codes |-> None]
    /\ woken = {}
    /\ inflight = << >>
    /\ abandoned = FALSE
    /\ unsent = FALSE

\* A command wrapper: prepare_command_request(), queue_cmd_node(), queue_work()
\* and the first test of the wait.  With no free node the wrapper returns
\* -ENOMEM and nothing changes.
cmd_request(c) ==
    /\ waiting[c] = None
    /\ cmd_free_queue # << >>
    /\ LET n == Head(cmd_free_queue) IN
         /\ cmd_free_queue' = Tail(cmd_free_queue)
         /\ cmd_pending_queue' = Append(cmd_pending_queue, n)
         /\ cmd_code' = [cmd_code EXCEPT ![n] = c]
         /\ waiting' = [waiting EXCEPT ![c] = n]
    /\ cmd_work' = TRUE
    /\ woken' = woken \cup {c}
    /\ UNCHANGED <<resp_skb, cur_cmd, cmd_resp, inflight, abandoned, unsent>>

\* Fault: the node of a failed allocation is not put back.
get_free_cmd_node_NoSkb_Leak ==
    /\ cmd_free_queue # << >>
    /\ cmd_free_queue' = Tail(cmd_free_queue)
    /\ UNCHANGED <<cmd_pending_queue, cmd_code, resp_skb, cur_cmd, cmd_resp,
                   cmd_work, waiting, woken, inflight, abandoned, unsent>>

\* get_free_cmd_node() when the skb allocation fails: the node goes back.
get_free_cmd_node_NoSkb ==
    /\ Len(cmd_free_queue) > 1
    /\ cmd_free_queue' = Append(Tail(cmd_free_queue), Head(cmd_free_queue))
    /\ UNCHANGED <<cmd_pending_queue, cmd_code, resp_skb, cur_cmd, cmd_resp,
                   cmd_work, waiting, woken, inflight, abandoned, unsent>>

\* esp_cmd_work() finding a command on the wire, or nothing to send.
esp_cmd_work_Idle ==
    /\ cmd_work
    /\ cur_cmd # None \/ cmd_pending_queue = << >>
    /\ cmd_work' = FALSE
    /\ UNCHANGED <<cmd_free_queue, cmd_pending_queue, cmd_code, resp_skb,
                   cur_cmd, cmd_resp, waiting, woken, inflight, abandoned, unsent>>

\* Fault: the work item does not look whether a command is on the wire.
esp_cmd_work_Send_NotBusy ==
    /\ cmd_work
    /\ cmd_pending_queue # << >>
    /\ Len(inflight) < MaxInflight
    /\ cur_cmd' = Head(cmd_pending_queue)
    /\ cmd_pending_queue' = Tail(cmd_pending_queue)
    /\ cmd_resp' = None
    /\ inflight' = Append(inflight, cmd_code[Head(cmd_pending_queue)])
    /\ cmd_work' = (cmd_pending_queue' # << >>)
    /\ UNCHANGED <<cmd_free_queue, cmd_code, resp_skb, waiting, woken, abandoned, unsent>>

\* esp_cmd_work() sending the first pending command.
esp_cmd_work_Send ==
    /\ cmd_work
    /\ cur_cmd = None
    /\ cmd_pending_queue # << >>
    /\ Len(inflight) < MaxInflight
    /\ cur_cmd' = Head(cmd_pending_queue)
    /\ cmd_pending_queue' = Tail(cmd_pending_queue)
    /\ cmd_resp' = None
    /\ inflight' = Append(inflight, cmd_code[Head(cmd_pending_queue)])
    /\ cmd_work' = (cmd_pending_queue' # << >>)
    /\ UNCHANGED <<cmd_free_queue, cmd_code, resp_skb, waiting, woken, abandoned, unsent>>

\* esp_cmd_work() with the transport full: the node is recycled under its
\* caller, which is not woken, and the work item is not queued again.
esp_cmd_work_SendFailed ==
    /\ cmd_work
    /\ cur_cmd = None
    /\ cmd_pending_queue # << >>
    /\ LET n == Head(cmd_pending_queue) IN
         /\ cmd_code' = [cmd_code EXCEPT ![n] = None]
         /\ resp_skb' = [resp_skb EXCEPT ![n] = None]
         /\ cmd_free_queue' = Append(cmd_free_queue, n)
    /\ cmd_pending_queue' = Tail(cmd_pending_queue)
    /\ cmd_resp' = None
    /\ cmd_work' = FALSE
    /\ unsent' = TRUE /\ abandoned' = TRUE
    /\ UNCHANGED <<cur_cmd, waiting, woken, inflight>>

\* Fault: the sleepers are not woken.
process_cmd_resp_NoWake ==
    /\ inflight # << >>
    /\ inflight' = Tail(inflight)
    /\ IF cur_cmd = None
       THEN UNCHANGED <<resp_skb, cmd_resp, cmd_work>>
       ELSE /\ resp_skb' = [resp_skb EXCEPT ![cur_cmd] = Head(inflight)]
            /\ cmd_resp' = cmd_code[cur_cmd]
            /\ cmd_work' = TRUE
    /\ UNCHANGED <<cmd_free_queue, cmd_pending_queue, cmd_code, cur_cmd,
                   waiting, woken, abandoned, unsent>>

\* process_cmd_resp(): the answer is credited to the command on the wire,
\* whichever request it answers; with none on the wire it is dropped.
process_cmd_resp ==
    /\ inflight # << >>
    /\ inflight' = Tail(inflight)
    /\ IF cur_cmd = None
       THEN UNCHANGED <<resp_skb, cmd_resp, woken, cmd_work>>
       ELSE /\ resp_skb' = [resp_skb EXCEPT ![cur_cmd] = Head(inflight)]
            /\ cmd_resp' = cmd_code[cur_cmd]
            /\ woken' = Waiters
            /\ cmd_work' = TRUE
    /\ UNCHANGED <<cmd_free_queue, cmd_pending_queue, cmd_code, cur_cmd,
                   waiting, abandoned, unsent>>

\* The firmware never answers its oldest request.
FirmwareIgnores ==
    /\ inflight # << >>
    /\ inflight' = Tail(inflight)
    /\ abandoned' = TRUE
    /\ UNCHANGED <<cmd_free_queue, cmd_pending_queue, cmd_code, resp_skb,
                   cur_cmd, cmd_resp, cmd_work, waiting, woken, unsent>>

\* Fault: the work item is not re-armed when the wire becomes free.
wait_and_decode_cmd_resp_NoRearm(c) ==
    LET n == waiting[c] IN
    /\ cur_cmd' = None
    /\ cmd_resp' = None
    /\ cmd_pending_queue' = list_del_init(cmd_pending_queue, n)
    /\ cmd_free_queue' = Append(list_del_init(cmd_free_queue, n), n)
    /\ cmd_code' = [cmd_code EXCEPT ![n] = None]
    /\ resp_skb' = [resp_skb EXCEPT ![n] = None]
    /\ waiting' = [waiting EXCEPT ![c] = None]
    /\ woken' = woken \ {c}
    /\ UNCHANGED <<cmd_work, inflight, unsent>>

\* wait_and_decode_cmd_resp() after the wait.  Whatever ended it, the wire is
\* declared free, the work item re-armed if anything is pending (the caller's
\* own node included), the node unlinked and recycled.
wait_and_decode_cmd_resp(c) ==
    LET n == waiting[c] IN
    /\ cur_cmd' = None
    /\ cmd_resp' = None
    /\ cmd_work' = (cmd_work \/ cmd_pending_queue # << >>)
    /\ cmd_pending_queue' = list_del_init(cmd_pending_queue, n)
    /\ cmd_free_queue' = Append(list_del_init(cmd_free_queue, n), n)
    /\ cmd_code' = [cmd_code EXCEPT ![n] = None]
    /\ resp_skb' = [resp_skb EXCEPT ![n] = None]
    /\ waiting' = [waiting EXCEPT ![c] = None]
    /\ woken' = woken \ {c}
    /\ UNCHANGED <<inflight, unsent>>

\* A woken caller finds its own code answered.
Answered(c) ==
    /\ c \in woken
    /\ cmd_resp = cmd_code[waiting[c]]
    /\ wait_and_decode_cmd_resp(c)
    /\ UNCHANGED abandoned

\* A woken caller finds another command answered, and sleeps again.
SleepAgain(c) ==
    /\ c \in woken
    /\ cmd_resp # cmd_code[waiting[c]]
    /\ woken' = woken \ {c}
    /\ UNCHANGED <<cmd_free_queue, cmd_pending_queue, cmd_code, resp_skb,
                   cur_cmd, cmd_resp, cmd_work, waiting, inflight, abandoned, unsent>>

\* COMMAND_RESPONSE_TIMEOUT passes, or a signal arrives.
GiveUp(c) ==
    /\ waiting[c] # None
    /\ wait_and_decode_cmd_resp(c)
    /\ abandoned' = TRUE

Next ==
    \/ \E c \in Codes : cmd_request(c)
    \/ get_free_cmd_node_NoSkb
    \/ esp_cmd_work_Idle
    \/ esp_cmd_work_Send
    \/ esp_cmd_work_SendFailed
    \/ process_cmd_resp
    \/ FirmwareIgnores
    \/ \E c \in Codes : Answered(c)
    \/ \E c \in Codes : SleepAgain(c)
    \/ \E c \in Codes : GiveUp(c)

\* The kernel runs a queued work item and a woken task; the firmware answers
\* what it does not ignore.  No wait is required to time out.
Fairness ==
    /\ WF_vars(esp_cmd_work_Idle)
    /\ WF_vars(esp_cmd_work_Send)
    /\ WF_vars(process_cmd_resp)
    /\ \A c \in Codes : WF_vars(Answered(c)) /\ WF_vars(SleepAgain(c))

Spec == Init /\ [][Next]_vars /\ Fairness
-----------------------------------------------------------------------------
\* "No bigamy" (the comment in wait_and_decode_cmd_resp): a node is never
\* linked into the free and the pending list at once, nor twice into one,
\* even when a failed send recycles it while its caller still sleeps on it.
NoBigamy ==
    /\ IsInjective(cmd_free_queue)
    /\ IsInjective(cmd_pending_queue)
    /\ Range(cmd_free_queue) \cap Range(cmd_pending_queue) = {}

\* Pending commands are never left with nothing to run them: whenever the
\* wire is free and a command is pending, the work item is queued.  This is
\* what the re-arming in wait_and_decode_cmd_resp is for.
WorkerRearmed ==
    cmd_pending_queue # << >> /\ cur_cmd = None => cmd_work

\* There is no bigamy; and until a send fails, every node is free or held by
\* exactly one sleeping caller, the pending nodes and the one on the wire are
\* held, and pending commands have a worker: however waits end, the pool neither
\* leaks a node nor hands one out twice, and a late answer is never written to a
\* recycled node.
PoolAccounted ==
    /\ NoBigamy
    /\ ~unsent =>
         /\ \A n \in Nodes : n \in Range(cmd_free_queue) <=> \A c \in Codes : waiting[c] # n
         /\ \A c, d \in Waiters : waiting[c] = waiting[d] => c = d
         /\ \A c \in Waiters : cmd_code[waiting[c]] = c
         /\ cur_cmd # None => cur_cmd \notin Range(cmd_free_queue)
         /\ WorkerRearmed

\* Until some wait ends without an answer, the answer a command holds is the
\* firmware's answer to that command: process_cmd_resp, which does not look at
\* the code, relies on at most one request being on the wire.
OwnAnswer ==
    \A n \in Nodes : ~abandoned /\ resp_skb[n] # None => resp_skb[n] = cmd_code[n]

\* As long as the firmware answers and nobody gives up, every command is sent
\* and its caller returns without running into its timeout, however many
\* callers queue at once: the timeout is not what keeps the queue moving.
EveryCommandAnswered ==
    \A c \in Codes : waiting[c] # None ~> (waiting[c] = None \/ abandoned)
=============================================================================
