------------------------------ MODULE Station -------------------------------
(***************************************************************************)
(* Joining and leaving a network (esp_cfg80211.c, esp_cmd.c).  The         *)
(* supplicant authenticates with an entry of cfg80211's scan list, then    *)
(* associates with it; the driver sends each as a command and keeps a bare *)
(* pointer to the entry and a copy of the request's elements, which it     *)
(* hands back to cfg80211 when core 0's answer arrives.  The caller sleeps *)
(* in its command with the wiphy lock held; events are handled by the      *)
(* receive work, which takes no lock, between any two steps.               *)
(***************************************************************************)
EXTENDS Naturals, Sequences

CONSTANTS
    None,
    MaxEntries,   \* bound: scan entries ever made; an entry is its number
    MaxInflight,  \* bound: messages on their way in one direction
    ElementSizes  \* lengths of the elements of association requests

VARIABLES
    made, listed,     \* cfg80211: entries made so far, entries in the list
    held,             \* cfg80211: entries held for an association under way
    current_bss,      \* cfg80211: the entry of the connection, or None
    sme,              \* the supplicant: [state, bss]
    bss,              \* priv->bss
    assoc_req_ie,     \* priv->assoc_req_ie: the length of the copy, or None
    assoc_req_ie_len, \* priv->assoc_req_ie_len
    port_open,        \* priv->port_open
    caller,           \* the command whose caller sleeps, or None
    answer,           \* what woke it: "ok", "fail" or None
    to_fw, to_host,   \* commands, responses and events on their way
    fw,               \* core 0: "idle", "auth", "assoc" or "up"
    cleanup,          \* ESP_CLEANUP_IN_PROGRESS
    attempt,          \* history: length of the elements of the last request
    given_up          \* history: some command was given up unanswered

cfgVars == <<made, listed, held, current_bss>>
privVars == <<bss, assoc_req_ie, assoc_req_ie_len, port_open>>
wireVars == <<caller, answer, to_fw, to_host, fw>>
vars == <<cfgVars, sme, privVars, wireVars, cleanup, attempt, given_up>>

Entries == 1 .. MaxEntries

\* Entries whose memory cfg80211 still keeps; nl80211 holds the one it was
\* called with until the caller returns.
Alive ==
    listed \cup held \cup ({current_bss} \cap Entries)
           \cup {e \in Entries : caller # None /\ caller.bss = e}

Init ==
    /\ made = 0 /\ listed = {} /\ held = {}
    /\ current_bss = None
    /\ sme = [state |-> "idle", bss |-> None]
    /\ bss = None
    /\ assoc_req_ie = None /\ assoc_req_ie_len = 0
    /\ port_open = FALSE
    /\ caller = None /\ answer = None
    /\ to_fw = << >> /\ to_host = << >>
    /\ fw = "idle"
    /\ cleanup = FALSE
    /\ attempt = None
    /\ given_up = FALSE

----------------------------------------------------------------------------
\* cfg80211's scan list.  An entry goes away 30 seconds after it was last
\* seen, unless a connection holds it; an authentication is younger.

cfg80211_inform_bss ==
    /\ made < MaxEntries
    /\ made' = made + 1
    /\ listed' = listed \cup {made'}
    /\ UNCHANGED <<held, current_bss, sme, privVars, wireVars, cleanup, attempt, given_up>>

cfg80211_bss_expire(e) ==
    /\ e \in listed \ (held \cup {current_bss})
    /\ ~(sme.state \in {"auth", "authed"} /\ sme.bss = e)
    /\ listed' = listed \ {e}
    /\ UNCHANGED <<made, held, current_bss, sme, privVars, wireVars, cleanup, attempt,
                   given_up>>

----------------------------------------------------------------------------
\* Commands of nl80211, under the wiphy lock.

\* The command is queued and its caller sleeps.
prepare_command_request(code, e) ==
    /\ Len(to_fw) < MaxInflight
    /\ caller' = [code |-> code, bss |-> e]
    /\ to_fw' = Append(to_fw, code)
    /\ UNCHANGED <<answer, to_host, fw>>

\* Fault: the entry is noted by the first authentication only.
cmd_auth_request_First(e) ==
    /\ bss' = IF bss = None THEN e ELSE bss
    /\ prepare_command_request("auth", e)

cmd_auth_request(e) ==
    /\ bss' = e
    /\ prepare_command_request("auth", e)

esp_cfg80211_authenticate(e) ==
    /\ caller = None /\ ~cleanup
    /\ current_bss = None /\ sme.state = "idle"
    /\ e \in listed
    /\ sme' = [state |-> "auth", bss |-> e]
    /\ cmd_auth_request(e)
    /\ UNCHANGED <<cfgVars, assoc_req_ie, assoc_req_ie_len, port_open, cleanup, attempt,
                   given_up>>

\* Fault: the length is noted only for a first copy.
cmd_assoc_request_OldLength(e, len) ==
    /\ attempt' = len
    /\ assoc_req_ie' = len
    /\ assoc_req_ie_len' = IF assoc_req_ie = None THEN len ELSE assoc_req_ie_len
    /\ prepare_command_request("assoc", e)

\* The old copy is freed, then the new one made; without memory for it the
\* length of the old one stays, the node is recycled and nothing is sent.
cmd_assoc_request(e, len) ==
    \/ /\ attempt' = len
       /\ assoc_req_ie' = len
       /\ assoc_req_ie_len' = len
       /\ prepare_command_request("assoc", e)
    \/ /\ assoc_req_ie' = None
       /\ UNCHANGED <<assoc_req_ie_len, attempt, wireVars>>

esp_cfg80211_associate(e, len) ==
    /\ caller = None /\ ~cleanup
    /\ sme = [state |-> "authed", bss |-> e]
    /\ e \in listed
    /\ cmd_assoc_request(e, len)
    /\ sme' = IF caller' = None THEN [state |-> "idle", bss |-> None]
              ELSE [state |-> "assoc", bss |-> e]
    /\ UNCHANGED <<cfgVars, bss, port_open, cleanup, given_up>>

cmd_disconnect_request == prepare_command_request("disconnect", None)

\* The supplicant gives the attempt or the connection up.
Leave ==
    /\ caller = None /\ ~cleanup
    /\ sme.state # "idle"
    /\ sme' = [state |-> "idle", bss |-> None]
    /\ cmd_disconnect_request
    /\ UNCHANGED <<cfgVars, privVars, cleanup, attempt, given_up>>

esp_cfg80211_deauth == sme.state \in {"auth", "authed", "assoc"} /\ Leave

esp_cfg80211_disassoc == sme.state = "up" /\ Leave

esp_cfg80211_disconnect == current_bss # None /\ Leave

\* The caller wakes, on its response or after the timeout.  Only an accepted
\* association makes cfg80211 hold its entry until the answer.
wait_and_decode_cmd_resp ==
    /\ caller # None
    /\ held' = IF caller.code = "assoc" /\ answer = "ok"
               THEN held \cup {caller.bss} ELSE held
    /\ sme' = IF answer # "ok" /\ caller.code # "disconnect"
              THEN [state |-> "idle", bss |-> None] ELSE sme
    /\ given_up' = (given_up \/ answer = None)
    /\ caller' = None
    /\ answer' = None
    /\ UNCHANGED <<made, listed, current_bss, privVars, to_fw, to_host, fw, cleanup, attempt>>

----------------------------------------------------------------------------
\* Core 0.

\* It takes up a command, and answers; leaving a network is also an event.
FirmwareAnswers ==
    /\ to_fw # << >> /\ Len(to_host) < MaxInflight
    /\ to_fw' = Tail(to_fw)
    /\ LET code == Head(to_fw) IN
       IF code = "disconnect"
       THEN /\ fw' = "idle"
            /\ to_host' = to_host \o
                 (IF fw \in {"assoc", "up"} THEN <<"disconnected", "ok">> ELSE <<"ok">>)
       ELSE \/ /\ fw' = code
               /\ to_host' = Append(to_host, "ok")
            \/ /\ to_host' = Append(to_host, "fail")
               /\ UNCHANGED fw
    /\ UNCHANGED <<cfgVars, sme, privVars, caller, answer, cleanup, attempt, given_up>>

\* A frame of the access point arrives, or the link is lost.
FirmwareEvent ==
    /\ \/ fw = "auth" /\ fw' = "idle" /\ to_host' = Append(to_host, "authenticated")
       \/ fw = "assoc" /\ fw' = "up" /\ to_host' = Append(to_host, "associated")
       \/ fw = "assoc" /\ fw' = "idle" /\ to_host' = Append(to_host, "refused")
       \/ fw = "up" /\ fw' = "idle" /\ to_host' = Append(to_host, "disconnected")
    /\ Len(to_host) < MaxInflight
    /\ UNCHANGED <<cfgVars, sme, privVars, caller, answer, to_fw, cleanup, attempt, given_up>>

----------------------------------------------------------------------------
\* The receive work.

Received(m) == to_host # << >> /\ Head(to_host) = m /\ to_host' = Tail(to_host)

process_cmd_resp ==
    /\ Received("ok") \/ Received("fail")
    /\ answer' = IF caller = None THEN None ELSE Head(to_host)
    /\ UNCHANGED <<cfgVars, sme, privVars, caller, to_fw, fw, cleanup, attempt, given_up>>

\* cfg80211 passes the frame to the supplicant.
process_auth_event ==
    /\ Received("authenticated")
    /\ sme' = IF sme.state = "auth" THEN [sme EXCEPT !.state = "authed"] ELSE sme
    /\ UNCHANGED <<cfgVars, privVars, caller, answer, to_fw, fw, cleanup, attempt, given_up>>

\* cfg80211 takes over the hold on the entry it is given, connects on a
\* success and drops the entry otherwise.  The port opens either way.
process_assoc_event ==
    /\ \/ /\ Received("associated")
          /\ current_bss' = bss
          /\ sme' = [state |-> "up", bss |-> bss]
       \/ /\ Received("refused")
          /\ sme' = [state |-> "idle", bss |-> None]
          /\ UNCHANGED current_bss
    /\ held' = held \ {bss}
    /\ port_open' = TRUE
    /\ UNCHANGED <<made, listed, bss, assoc_req_ie, assoc_req_ie_len, caller, answer, to_fw,
                   fw, cleanup, attempt, given_up>>

\* Fault: the connection is ended only once the supplicant asks.
esp_mark_disconnect_Skipped == UNCHANGED current_bss

esp_mark_disconnect == current_bss' = None

\* The supplicant learns of it by a frame of the driver's making.
process_deauth_event == sme' = [state |-> "idle", bss |-> None]

\* Ends the connection and flushes every entry that is not held.
process_disconnect_event ==
    /\ Received("disconnected")
    /\ esp_mark_disconnect
    /\ listed' = listed \cap held
    /\ process_deauth_event
    /\ UNCHANGED <<made, held, privVars, caller, answer, to_fw, fw, cleanup, attempt, given_up>>

process_cmd_event == process_auth_event \/ process_assoc_event \/ process_disconnect_event

esp_commands_teardown ==
    /\ ~cleanup /\ caller = None
    /\ cleanup' = TRUE
    /\ UNCHANGED <<cfgVars, sme, privVars, wireVars, attempt, given_up>>

Next ==
    \/ cfg80211_inform_bss
    \/ \E e \in Entries : cfg80211_bss_expire(e)
    \/ \E e \in Entries : esp_cfg80211_authenticate(e)
    \/ \E e \in Entries, len \in ElementSizes : esp_cfg80211_associate(e, len)
    \/ esp_cfg80211_deauth
    \/ esp_cfg80211_disassoc
    \/ esp_cfg80211_disconnect
    \/ wait_and_decode_cmd_resp
    \/ FirmwareAnswers
    \/ FirmwareEvent
    \/ process_cmd_resp
    \/ process_cmd_event
    \/ esp_commands_teardown

Spec == Init /\ [][Next]_vars

----------------------------------------------------------------------------
\* As long as no command was given up, the pointer the driver kept since the
\* authentication names an entry cfg80211 still has when the answer to the
\* association arrives: flushes, expiry and the two callers' returns
\* notwithstanding.  The driver takes no reference of its own.
AnswerNamesLiveEntry ==
    [][process_assoc_event /\ ~given_up => bss \in Alive]_vars

\* The elements handed to cfg80211 with the answer are those of the request
\* that is answered, with their length: an earlier request whose copy could
\* not be made leaves a length without elements, but no answer to come.
AnswerCarriesItsElements ==
    [][process_assoc_event /\ ~given_up
         => assoc_req_ie = attempt /\ assoc_req_ie_len = attempt]_vars

\* With nothing on its way and no command given up, cfg80211 and core 0 agree
\* on whether the station is connected.
ConnectionAgrees ==
    to_fw = << >> /\ to_host = << >> /\ caller = None /\ ~given_up
      => (current_bss # None <=> fw = "up")
=============================================================================
