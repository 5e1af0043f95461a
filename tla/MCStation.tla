----------------------------- MODULE MCStation ------------------------------
(***************************************************************************)
(* The station on small instances: Station, joining and leaving a network, *)
(* and Settings, what the stack sets through the driver, side by side.     *)
(* They share no state, so a behaviour is one of exactly one of them       *)
(* (part); the other stays in its initial state.                           *)
(***************************************************************************)
EXTENDS Integers, TLC

CONSTANTS
    None,
    MaxEntries, MaxInflight, ElementSizes, \* Station
    Values, Limits, MaxAsks                \* Settings

ASSUME StationAssumption ==
    /\ MaxEntries \in Nat /\ None \notin 0 .. MaxEntries
    /\ None \notin {"ok", "fail"}
    /\ None \notin [code : {"auth", "assoc", "disconnect"}, bss : (1 .. MaxEntries) \cup {None}]
    /\ MaxInflight \in Nat \ {0}
    /\ ElementSizes \subseteq Nat \ {0}

ASSUME SettingsAssumption ==
    /\ Limits \subseteq Int /\ MaxAsks \in Nat
    /\ None \notin Values \cup Limits /\ None \notin {"wiphy", "rtnl", "filter"}
    /\ None \notin {"country", "power", "ip", "mac", "mcast", "key", "default_key"}
    /\ None \notin [ok : BOOLEAN, value : Values \cup {None} \cup 0 .. 255]

VARIABLES
    part,
    made, listed, held, current_bss, sme, bss, assoc_req_ie, assoc_req_ie_len, port_open,
    caller, answer, to_fw, to_host, fw, cleanup, attempt, given_up,
    asked, country_code, tx_pwr, mac_address, mcast_list, set_port_open, mac_flter_work,
    sleeping, set_answer, pending, cur_cmd, set_to_fw, set_to_host, set_fw, set_cleanup,
    unsent, set_given_up, asks

stationVars == <<made, listed, held, current_bss, sme, bss, assoc_req_ie, assoc_req_ie_len,
                 port_open, caller, answer, to_fw, to_host, fw, cleanup, attempt, given_up>>
settingsVars == <<asked, country_code, tx_pwr, mac_address, mcast_list, set_port_open,
                  mac_flter_work, sleeping, set_answer, pending, cur_cmd, set_to_fw,
                  set_to_host, set_fw, set_cleanup, unsent, set_given_up, asks>>
vars == <<part, stationVars, settingsVars>>

St == INSTANCE Station
Se == INSTANCE Settings WITH port_open <- set_port_open, answer <- set_answer,
        to_fw <- set_to_fw, to_host <- set_to_host, fw <- set_fw,
        cleanup <- set_cleanup, given_up <- set_given_up

Init == part \in {"station", "settings"} /\ St!Init /\ Se!Init

Next ==
    \/ part = "station" /\ St!Next /\ UNCHANGED <<part, settingsVars>>
    \/ part = "settings" /\ Se!Next /\ UNCHANGED <<part, stationVars>>

Spec == Init /\ [][Next]_vars

\* Values are only told apart.
Symmetry == Permutations(Values)

-----------------------------------------------------------------------------
\* The properties, stated in the modules of the components.

\* cfg80211, the driver and core 0 agree on the connection (Station).
ConnectionAgrees == St!ConnectionAgrees

\* The answer handed to cfg80211 names an entry it still has, and carries the
\* elements of the request that is answered (Station).
AnswerIsOwn == St!AnswerNamesLiveEntry /\ St!AnswerCarriesItsElements

\* Core 0 runs with what the stack asked for last, and the driver reports just
\* that, power rounded down to whole dBm (Settings).
CoreZeroFollows == Se!CoreZeroFollows /\ Se!ReportsTheTruth /\ Se!PowerAsAsked
=============================================================================
