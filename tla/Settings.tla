------------------------------ MODULE Settings ------------------------------
(***************************************************************************)
(* What the network stack sets through the driver and core 0 has to follow *)
(* (esp_cfg80211.c, main.c, esp_cmd.c): the regulatory domain, the power   *)
(* limit, the IP address, the station's MAC, the multicast filter and the  *)
(* keys.  Each is one command.  Three callers issue them, each asleep      *)
(* until its command returns: nl80211 with the wiphy lock held, the        *)
(* notifiers and ndo operations with the RTNL held, and the worker of the  *)
(* multicast filter.  CmdQueue has the command queue itself; here it is a  *)
(* queue that sends one command at a time.                                 *)
(***************************************************************************)
EXTENDS Integers, Sequences

CONSTANTS
    None,
    Values,     \* domains, addresses, lists, keys: only told apart
    Limits,     \* power limits the stack may ask for, in mBm
    MaxAsks     \* bound: requests of the stack

VARIABLES
    asked,          \* history: what the stack last asked for
    country_code,   \* priv->country_code
    tx_pwr,         \* priv->tx_pwr, a byte
    mac_address,    \* priv->mac_address
    mcast_list,     \* the global list esp_set_rx_mode fills
    port_open,      \* priv->port_open
    mac_flter_work, \* the filter's work item is queued
    sleeping,       \* the kind of command each caller sleeps on, or None
    answer,         \* the response that woke it, or None
    pending,        \* commands queued, not sent
    cur_cmd,        \* the caller whose command core 0 has, or None
    to_fw, to_host, \* commands and responses on their way
    fw,             \* the settings core 0 runs with
    cleanup,        \* ESP_CLEANUP_IN_PROGRESS set, ESP_CMD_INIT_DONE clear
    unsent,         \* history: kinds whose last command did not succeed
    given_up,       \* history: some command was given up unanswered
    asks            \* requests so far

privVars == <<country_code, tx_pwr, mac_address>>
filterVars == <<mcast_list, port_open, mac_flter_work>>
queueVars == <<sleeping, pending, unsent>>
wireVars == <<answer, cur_cmd, to_fw, to_host, fw>>
vars == <<asked, privVars, filterVars, queueVars, wireVars, cleanup, given_up, asks>>

Callers == {"wiphy", "rtnl", "filter"}
Kinds == {"country", "power", "ip", "mac", "mcast", "key", "default_key"}

Init ==
    /\ asked = [k \in Kinds |-> None]
    /\ country_code = None
    /\ tx_pwr = 0
    /\ mac_address = None
    /\ mcast_list = None
    /\ port_open = FALSE
    /\ mac_flter_work = FALSE
    /\ sleeping = [c \in Callers |-> None]
    /\ answer = [c \in Callers |-> None]
    /\ pending = << >>
    /\ cur_cmd = None
    /\ to_fw = << >>
    /\ to_host = << >>
    /\ fw = [k \in Kinds |-> None]
    /\ cleanup = FALSE
    /\ unsent = {}
    /\ given_up = FALSE
    /\ asks = 0

\* The stack asks for v; what it asked for is what core 0 should end up with.
Ask(k, v) ==
    /\ asks < MaxAsks
    /\ asks' = asks + 1
    /\ asked' = [asked EXCEPT ![k] = v]

\* The caller c takes a node, queues its command and sleeps; without the
\* command component there is no node and nothing is sent.
prepare_command_request(c, k, v) ==
    /\ sleeping[c] = None
    /\ IF cleanup
       THEN /\ unsent' = unsent \cup {k}
            /\ UNCHANGED <<sleeping, pending>>
       ELSE /\ sleeping' = [sleeping EXCEPT ![c] = k]
            /\ pending' = Append(pending, [caller |-> c, kind |-> k, value |-> v])
            /\ UNCHANGED unsent

----------------------------------------------------------------------------
\* The regulatory domain.

cmd_set_reg_domain(code) == prepare_command_request("rtnl", "country", code)

\* A domain equal to the last one is not sent again.
esp_reg_notifier(v) ==
    /\ ~cleanup
    /\ sleeping["rtnl"] = None
    /\ Ask("country", v)
    /\ country_code' = v
    /\ IF v = country_code THEN UNCHANGED queueVars ELSE cmd_set_reg_domain(v)
    /\ UNCHANGED <<tx_pwr, mac_address, filterVars, wireVars, cleanup, given_up>>

----------------------------------------------------------------------------
\* Transmit power: mBm outside, quarters of a dBm in a byte inside.

MAX_TX_POWER_MBM == 2000

is_txpwr_valid(mbm) == mbm <= MAX_TX_POWER_MBM

\* C division rounds towards zero.
Quotient(a, b) == IF a >= 0 THEN a \div b ELSE -((-a) \div b)

\* Fault: not scaled to quarters.
mbm_to_esp_pwr_Unscaled(mbm) == Quotient(mbm, 100)

mbm_to_esp_pwr(mbm) == Quotient(mbm * 4, 100)

esp_pwr_to_dbm(power) == power \div 4

cmd_set_tx_power(power) == prepare_command_request("wiphy", "power", power)

\* priv->tx_pwr is a uint8_t.  A limit above the largest one is refused.
esp_cfg80211_set_tx_power(mbm) ==
    /\ is_txpwr_valid(mbm)
    /\ Ask("power", mbm)
    /\ tx_pwr' = mbm_to_esp_pwr(mbm) % 256
    /\ cmd_set_tx_power(tx_pwr')
    /\ UNCHANGED <<country_code, mac_address, filterVars, wireVars, cleanup, given_up>>

esp_cfg80211_get_tx_power == esp_pwr_to_dbm(tx_pwr)

----------------------------------------------------------------------------
\* Addresses and keys.

\* One command, with nothing of it kept in the driver.
Forward(c, k, v) ==
    /\ Ask(k, v)
    /\ prepare_command_request(c, k, v)
    /\ UNCHANGED <<privVars, filterVars, wireVars, cleanup, given_up>>

cmd_set_ip_address(ip) == Forward("rtnl", "ip", ip)

\* An address that goes away is sent as zero.
esp_inetaddr_event == \E ip \in Values \cup {None} : cmd_set_ip_address(ip)

cmd_set_mac(addr) == Forward("rtnl", "mac", addr)

esp_set_mac_address == \E addr \in Values : cmd_set_mac(addr)

cmd_add_key(key) == Forward("wiphy", "key", key)

\* A key of length 0 is a deletion, which does nothing.
esp_cfg80211_add_key == \E key \in Values : cmd_add_key(key)

cmd_set_default_key(index) == Forward("wiphy", "default_key", index)

esp_cfg80211_set_default_key == \E index \in Values : cmd_set_default_key(index)

----------------------------------------------------------------------------
\* The multicast filter: the list is global, and its worker sends what the
\* list holds when it runs.

esp_port_open ==
    /\ ~port_open
    /\ port_open' = TRUE
    /\ UNCHANGED <<asked, privVars, mcast_list, mac_flter_work, queueVars, wireVars,
                   cleanup, given_up, asks>>

\* Fault: the work item is not queued again while its worker sleeps.
esp_set_rx_mode_Once(list) ==
    /\ Ask("mcast", list)
    /\ mcast_list' = list
    /\ mac_flter_work' = (mac_flter_work \/ (port_open /\ sleeping["filter"] = None))
    /\ unsent' = IF port_open THEN unsent ELSE unsent \cup {"mcast"}
    /\ UNCHANGED <<privVars, port_open, sleeping, pending, wireVars, cleanup, given_up>>

esp_set_rx_mode(list) ==
    /\ Ask("mcast", list)
    /\ mcast_list' = list
    /\ mac_flter_work' = (mac_flter_work \/ port_open)
    /\ unsent' = IF port_open THEN unsent ELSE unsent \cup {"mcast"}
    /\ UNCHANGED <<privVars, port_open, sleeping, pending, wireVars, cleanup, given_up>>

cmd_set_mcast_mac_list(list) == prepare_command_request("filter", "mcast", list)

update_mac_filter ==
    /\ mac_flter_work
    /\ mac_flter_work' = FALSE
    /\ cmd_set_mcast_mac_list(mcast_list)
    /\ UNCHANGED <<asked, privVars, mcast_list, port_open, wireVars, cleanup, given_up,
                   asks>>

----------------------------------------------------------------------------
\* The command queue, and core 0.

esp_cmd_work ==
    /\ cur_cmd = None
    /\ pending # << >>
    /\ cur_cmd' = Head(pending).caller
    /\ to_fw' = Append(to_fw, Head(pending))
    /\ pending' = Tail(pending)
    /\ UNCHANGED <<asked, privVars, filterVars, sleeping, unsent, answer, to_host, fw,
                   cleanup, given_up, asks>>

\* Core 0 applies the setting, or refuses; its response names a value.
FirmwareAnswers ==
    /\ to_fw # << >>
    /\ to_fw' = Tail(to_fw)
    /\ LET cmd == Head(to_fw) IN
       \E ok \in BOOLEAN :
         /\ fw' = IF ok THEN [fw EXCEPT ![cmd.kind] = cmd.value] ELSE fw
         /\ \E v \in {cmd.value, fw'[cmd.kind]} :
              to_host' = Append(to_host, [ok |-> ok, value |-> v])
    /\ UNCHANGED <<asked, privVars, filterVars, queueVars, answer, cur_cmd, cleanup,
                   given_up, asks>>

\* A response is the current command's, whatever command it answers.
process_cmd_resp ==
    /\ to_host # << >>
    /\ to_host' = Tail(to_host)
    /\ answer' = IF cur_cmd = None THEN answer
                 ELSE [answer EXCEPT ![cur_cmd] = Head(to_host)]
    /\ UNCHANGED <<asked, privVars, filterVars, queueVars, cur_cmd, to_fw, fw, cleanup,
                   given_up, asks>>

\* The value of the response is kept even if it says the command failed.
decode_tx_power(c) ==
    tx_pwr' = IF sleeping[c] = "power" /\ answer[c] # None
              THEN answer[c].value ELSE tx_pwr

\* Fault: the address of the response is not kept.
decode_mac_addr_Dropped(c) == sleeping[c] # None /\ UNCHANGED mac_address

decode_mac_addr(c) ==
    mac_address' = IF sleeping[c] = "mac" /\ answer[c] # None
                   THEN answer[c].value ELSE mac_address

decode_common_resp(c) == answer[c] # None /\ answer[c].ok

\* The list without the command of c, which has at most one.
Withdraw(list, c) ==
    IF \E i \in DOMAIN list : list[i].caller = c
    THEN LET at == CHOOSE i \in DOMAIN list : list[i].caller = c
         IN  [i \in 1 .. Len(list) - 1 |-> IF i < at THEN list[i] ELSE list[i + 1]]
    ELSE list

\* The caller wakes: on its response, or after the timeout.  The queue is
\* given free, and a command never sent is withdrawn.
wait_and_decode_cmd_resp(c) ==
    /\ sleeping[c] # None
    /\ decode_tx_power(c)
    /\ decode_mac_addr(c)
    /\ unsent' = IF decode_common_resp(c) THEN unsent \ {sleeping[c]}
                 ELSE unsent \cup {sleeping[c]}
    /\ given_up' = (given_up \/ answer[c] = None)
    /\ cur_cmd' = None
    /\ pending' = Withdraw(pending, c)
    /\ sleeping' = [sleeping EXCEPT ![c] = None]
    /\ answer' = [answer EXCEPT ![c] = None]
    /\ UNCHANGED <<asked, country_code, filterVars, to_fw, to_host, fw, cleanup, asks>>

\* The command component goes away; Driver has the callers still asleep.
esp_commands_teardown ==
    /\ ~cleanup
    /\ \A c \in Callers : sleeping[c] = None
    /\ cleanup' = TRUE
    /\ UNCHANGED <<asked, privVars, filterVars, queueVars, wireVars, given_up, asks>>

Next ==
    \/ \E v \in Values : esp_reg_notifier(v)
    \/ \E mbm \in Limits : esp_cfg80211_set_tx_power(mbm)
    \/ esp_inetaddr_event
    \/ esp_set_mac_address
    \/ esp_cfg80211_add_key
    \/ esp_cfg80211_set_default_key
    \/ esp_port_open
    \/ \E v \in Values : esp_set_rx_mode(v)
    \/ update_mac_filter
    \/ esp_cmd_work
    \/ FirmwareAnswers
    \/ process_cmd_resp
    \/ \E c \in Callers : wait_and_decode_cmd_resp(c)
    \/ esp_commands_teardown

Spec == Init /\ [][Next]_vars

----------------------------------------------------------------------------
\* No command about kind k is queued, sent or being answered.
Settled(k) ==
    /\ \A c \in Callers : sleeping[c] # k
    /\ k = "mcast" => ~mac_flter_work

\* What core 0 is to hold when the stack asked for v.
Wire(k, v) == IF k = "power" /\ v # None THEN mbm_to_esp_pwr(v) % 256 ELSE v

\* Core 0 runs with what the stack last asked for, as soon as no command
\* about it is on its way and the last one succeeded: an interface's notifier,
\* the nl80211 caller and the filter's worker may overlap in any order, and a
\* multicast list replaced while its worker sleeps is sent by a second run.
\* Only before a first timeout, after which a response may be taken for
\* another command's.
CoreZeroFollows ==
    ~given_up => \A k \in Kinds : Settled(k) /\ k \notin unsent => fw[k] = Wire(k, asked[k])

\* The power and the address the driver reports are the ones core 0 has.
ReportsTheTruth ==
    ~given_up =>
      /\ Settled("power") /\ "power" \notin unsent /\ asked["power"] # None
           => tx_pwr = fw["power"]
      /\ Settled("mac") /\ "mac" \notin unsent => mac_address = fw["mac"]

\* A limit of at least 0 dBm is reported in whole dBm, never above what was
\* asked (esp_cfg80211_get_tx_power): the quarters of a dBm fit their byte.
PowerAsAsked ==
    ~given_up /\ Settled("power") /\ "power" \notin unsent /\ asked["power"] # None
      => (asked["power"] >= 0 => esp_cfg80211_get_tx_power = asked["power"] \div 100)
=============================================================================
