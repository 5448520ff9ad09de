---------------------------- MODULE OHDInterface ----------------------------
(***************************************************************************)
(* OHDInterface: what the WiFi cards are used for, the hotspot and the     *)
(* client on the card that is left, and the listeners for other devices.   *)
(* The module composes ExternalDevices with the life of the interface      *)
(* between telemetry and video, in the order main() creates and destroys   *)
(* them.                                                                   *)
(*                                                                         *)
(* Parameters arrive on a thread of telemetry, a change of the arming      *)
(* state on another one, and nmcli is run on a thread per command.         *)
(***************************************************************************)
EXTENDS ExternalDevices, SequencesExt

CONSTANTS
    Units,          \* units and configurations to look at
    CardOrder,      \* all WiFi cards, in the order sysutils lists them
    CardType,       \* [cards -> CardTypes]
    MaxPolls        \* 10 s of looking for cards, in polls

Cards == ToSet(CardOrder)
CardTypes == {"88x2bu", "88xxau", "qualcomm", "broadcom"}
Emulated == "emulated"

\* NetworkingSettings; a name without a card is one whose card is never there.
NetworkingSettings ==
    [mode : {"hotspot", "client", "off"}, hs : {"auto", "on", "off"}, hsif : Cards \cup {None},
     clif : Cards \cup {None}, ssid : {"a", "b"}, cred : BOOLEAN]

ASSUME InterfaceAssumption ==
    /\ CardOrder \in Seq(Cards) /\ CardType \in [Cards -> CardTypes]
    /\ Emulated \notin Cards /\ None \notin Cards
    /\ MaxPolls \in Nat
    /\ \A u \in Units :
         /\ {u.air, u.localnet, u.noHotspot} \subseteq BOOLEAN
         /\ u.cards \subseteq Cards /\ u.names \subseteq Cards /\ u.set \in NetworkingSettings
         /\ u.manual \in Seq(Cards) /\ u.manualSpare \in Cards \cup {None}

VARIABLES
    wifi,     \* cards that are there; named ones to wait for; those for monitor mode; the
              \* one left; cards that NetworkManager leaves alone; cards in monitor mode
    set,      \* NetworkingSettings
    net,      \* found cards, m_wifi_hotspot, NetworkManager's connections, client
    jobs,     \* nmcli commands on threads of their own
    arm,      \* the arming state and its listener
    par,      \* the parameter that is being set
    calm,     \* no two of these have overlapped so far (not in the code)
    ctl       \* apply_link_control and the work queue of the link

interfaceVars == << unit, main, deviceVars, events, wifi, set, net, jobs, arm, par, calm, ctl >>
wifiVars == << wifi, set, net, jobs, arm, par, calm, ctl >>

NoHotspot == [id |-> 0, card |-> None, ssid |-> None, enabled |-> FALSE, started |-> FALSE]
NoProfile == [card |-> None, up |-> FALSE]

InterfaceInit ==
    /\ unit \in Units
    /\ main = "boot" /\ events = 0
    /\ InitDevices
    /\ wifi = [there |-> unit.cards, polls |-> 0, mon |-> {}, spare |-> None, own |-> {}, mode |-> {},
               wait |-> IF unit.manualSpare = None THEN unit.manual
                        ELSE Append(unit.manual, unit.manualSpare)]
    /\ set = unit.set
    /\ net = [found |-> {}, hot |-> NoHotspot, last |-> 0, hs |-> NoProfile,
              cl |-> None, client |-> None]
    /\ jobs = << >> /\ arm = [armed |-> FALSE, cb |-> None, on |-> FALSE, id |-> 0]
    /\ par = None /\ calm = TRUE
    /\ ctl = [todo |-> {}, asked |-> {}, took |-> {}, ok |-> TRUE, queue |-> FALSE]

---------------------------------------------------------------------------
(* DWifiCards.                                                             *)

\* Nothing, if sysutils does not answer.
discover_connected_wifi_cards(answered) == IF answered THEN wifi.there ELSE {}

supports_wifibroadcast(c) == CardType[c] # "broadcom"

\* As sysutils lists them.
Listed(c, d) == \E i, j \in 1 .. Len(CardOrder) : i < j /\ CardOrder[i] = c /\ CardOrder[j] = d
First(cards) ==
    IF cards = {} THEN None ELSE CHOOSE c \in cards : \A d \in cards \ {c} : Listed(c, d)

\* The order of the cards for monitor mode: as named in the configuration, or (the
\* comment promises RTL8812AU cards first) every other one first.
reorder_monitor_mode_cards(c, d) ==
    LET rear(x) == CardType[x] # "88x2bu" IN
    IF unit.find = "manual"
    THEN \E i, j \in 1 .. Len(unit.manual) : i < j /\ unit.manual[i] = c /\ unit.manual[j] = d
    ELSE (~rear(c) /\ rear(d)) \/ ((rear(c) <=> rear(d)) /\ Listed(c, d))

process_and_evaluate_cards(cards) ==
    LET wb == {c \in cards : supports_wifibroadcast(c)}
    IN  IF wb = {} THEN [mon |-> {Emulated}, spare |-> First(cards)]
        ELSE [mon |-> IF unit.air THEN {First(wb)} ELSE wb, spare |-> First(cards \ wb)]

\* An air unit takes one card only.
find_cards_from_manual_file ==
    [mon |-> IF unit.air /\ Len(unit.manual) > 1 THEN {unit.manual[1]} ELSE ToSet(unit.manual),
     spare |-> unit.manualSpare]

Discovered(r) == wifi' = [wifi EXCEPT !.mon = r.mon, !.spare = r.spare]

\* An emulated card instead of a real one, for tests.
discover_emulated ==
    /\ unit.find = "emulate"
    /\ \E f \in {discover_connected_wifi_cards(a) : a \in BOOLEAN} :
         Discovered([mon |-> {Emulated}, spare |-> IF unit.hotspotOnly THEN First(f) ELSE None])
    /\ main' = "monitor"

\* For each named card, for ever.
wait_for_card ==
    /\ unit.find = "manual"
    /\ IF wifi.wait = << >>
       THEN Discovered(find_cards_from_manual_file) /\ main' = "monitor"
       ELSE /\ Head(wifi.wait) \in wifi.there
            /\ wifi' = [wifi EXCEPT !.wait = Tail(@)] /\ UNCHANGED main

\* Enough cards, or the time is over.
autodetect ==
    /\ unit.find = "auto"
    /\ \E f \in {discover_connected_wifi_cards(a) : a \in BOOLEAN} :
         LET n == Cardinality({c \in f : supports_wifibroadcast(c)}) IN
         IF n >= (IF unit.air THEN 1 ELSE 2) \/ wifi.polls = MaxPolls
         THEN Discovered(process_and_evaluate_cards(f)) /\ main' = "monitor"
         ELSE wifi' = [wifi EXCEPT !.polls = @ + 1] /\ UNCHANGED main

main_discover_an_process_wifi_cards ==
    /\ main = "cards" /\ unit.link = "wifi"
    /\ discover_emulated \/ wait_for_card \/ autodetect
    /\ UNCHANGED << unit, deviceVars, events, set, net, jobs, arm, par, calm, ctl >>

\* A card is plugged in or out. One that comes back is NetworkManager's, like any other.
card_event ==
    /\ Event("cards") /\ main \notin {"boot", "off", "dead"}
    /\ \E c \in unit.cards \cup unit.names :
         wifi' = [wifi EXCEPT !.there = IF c \in @ THEN @ \ {c} ELSE @ \cup {c},
                              !.own = @ \ {c}, !.mode = @ \ {c}]
    /\ calm' = (calm /\ main # "taken")
    /\ UNCHANGED << unit, main, deviceVars, set, net, jobs, arm, par, ctl >>

---------------------------------------------------------------------------
(* The hotspot and the client. NetworkManager has one connection of each    *)
(* kind, known by a fixed name; the operators take and return "net".        *)

is_monitor_mode_card(c) == c \in wifi.mon

Usable(n, c) ==
    IF c # None /\ (c \in n.found \/ c = wifi.spare) /\ ~is_monitor_mode_card(c) THEN c ELSE None

get_configured_hotspot_card(n) ==
    Usable(n, IF set.hsif # None THEN set.hsif ELSE wifi.spare)

get_configured_client_card(n) ==
    Usable(n, IF set.clif # None THEN set.clif
              ELSE IF set.hsif # None THEN set.hsif ELSE wifi.spare)

\* The destructor deletes the connection with the name, whoever has made it.
destroy_hotspot(n) ==
    IF n.hot = NoHotspot THEN n ELSE [n EXCEPT !.hot = NoHotspot, !.hs = NoProfile]

\* A new hotspot is constructed before the one it replaces is destroyed, unless
\* the name or the password has changed.
recreate_wifi_hotspot_if_needed(n) ==
    LET c   == get_configured_hotspot_card(n)
        new == [id |-> n.last + 1, card |-> c, ssid |-> set.ssid,
                enabled |-> FALSE, started |-> FALSE]
    IN  IF unit.noHotspot \/ c = None THEN destroy_hotspot(n)
        ELSE IF n.hot.ssid = set.ssid /\ n.hot.card = c THEN n
        ELSE [n EXCEPT !.hot = new, !.last = @ + 1,
                       !.hs = IF n.hot # NoHotspot /\ n.hot.ssid = set.ssid THEN NoProfile
                              ELSE [card |-> c, up |-> FALSE]]

stop_wifi_client(n) ==
    IF n.client = None THEN n ELSE [n EXCEPT !.client = None, !.cl = None]

\* nmcli connects, or does not; a card has one active connection.
start_wifi_client(n, connects) ==
    LET c == get_configured_client_card(n) IN
    IF c # None /\ set.cred /\ connects
    THEN [n EXCEPT !.client = c, !.cl = c, !.hs.up = @ /\ n.hs.card # c]
    ELSE [n EXCEPT !.client = None]

\* What update_wifi_hotspot_enable wants the hotspot to be: None leaves it alone.
update_wifi_hotspot_enable(n) ==
    IF n.hot = NoHotspot \/ set.mode = "client" \/ (unit.noHotspot /\ set.mode = "hotspot") THEN None
    ELSE IF set.mode = "hotspot" /\ (set.hs = "on" \/ (set.hs = "auto" /\ ~arm.armed)) THEN "enable"
    ELSE "disable"

\* At most one command is started; the flag changes at once.
set_enabled_async(n, want) ==
    IF want = None \/ n.hot.enabled = (want = "enable")
    THEN net' = n /\ UNCHANGED << jobs, calm >>
    ELSE /\ net' = [n EXCEPT !.hot.enabled = (want = "enable")]
         /\ jobs' = Append(jobs, [id |-> n.hot.id, up |-> want = "enable"])
         /\ calm' = (calm /\ jobs = << >>)

\* Mutant: the hotspot is kept when the unit becomes a client.
MutApplyWifiOperatingMode(answered, connects) ==
    LET n == [net EXCEPT !.found = discover_connected_wifi_cards(answered)]
        m == CASE set.mode = "client" -> start_wifi_client(stop_wifi_client(n), connects)
               [] set.mode = "hotspot" -> recreate_wifi_hotspot_if_needed(stop_wifi_client(n))
               [] set.mode = "off" -> destroy_hotspot(stop_wifi_client(n))
    IN  set_enabled_async(m, update_wifi_hotspot_enable(m))

apply_wifi_operating_mode(answered, connects) ==
    LET n == [net EXCEPT !.found = discover_connected_wifi_cards(answered)]
        m == CASE set.mode = "client" -> start_wifi_client(stop_wifi_client(destroy_hotspot(n)), connects)
               [] set.mode = "hotspot" -> recreate_wifi_hotspot_if_needed(stop_wifi_client(n))
               [] set.mode = "off" -> destroy_hotspot(stop_wifi_client(n))
    IN  set_enabled_async(m, update_wifi_hotspot_enable(m))

---------------------------------------------------------------------------
(* Threads that change them.                                               *)

\* A parameter is stored, then applied. WIFI_HS_IFACE on a unit that has a
\* hotspot is not calm: see recreate_wifi_hotspot_if_needed.
set_parameter ==
    /\ Event("user") /\ main = "run" /\ par = None
    /\ \/ \E m \in {"off", "hotspot", "client"} : set' = [set EXCEPT !.mode = m] /\ par' = "WIFI_MODE"
       \/ \E h \in {"auto", "off", "on"} : set' = [set EXCEPT !.hs = h] /\ par' = "WIFI_HOTSPOT_E"
       \/ \E c \in unit.names \cup {None} : set' = [set EXCEPT !.hsif = c] /\ par' = "WIFI_HS_IFACE"
       \/ \E c \in unit.names \cup {None} : set' = [set EXCEPT !.clif = c] /\ par' = "WIFI_CL_IFACE"
       \/ set' = [set EXCEPT !.ssid = IF @ = "a" THEN "b" ELSE "a"] /\ par' = "WIFI_HS_SSID"
       \/ set' = [set EXCEPT !.cred = ~@] /\ par' = "WIFI_CL_SSID"
    /\ calm' = (calm /\ arm.cb = None /\ (par' = "WIFI_HS_IFACE" => net.hot = NoHotspot))
    /\ UNCHANGED << unit, main, deviceVars, wifi, net, jobs, arm, ctl >>

apply_parameter ==
    /\ par # None /\ par' = None
    /\ \/ /\ par \notin {"WIFI_HOTSPOT_E", "WIFI_HS_SSID"}
          /\ \E answered, connects \in BOOLEAN : apply_wifi_operating_mode(answered, connects)
       \/ /\ par = "WIFI_HOTSPOT_E" \/ (par = "WIFI_HS_SSID" /\ set.mode = "hotspot")
          /\ LET n == IF par = "WIFI_HS_SSID" THEN recreate_wifi_hotspot_if_needed(net) ELSE net
             IN  set_enabled_async(n, update_wifi_hotspot_enable(n))
       \/ /\ par = "WIFI_HS_SSID" /\ set.mode # "hotspot"
          /\ UNCHANGED << net, jobs, calm >>
    /\ UNCHANGED << unit, main, deviceVars, events, wifi, set, arm, ctl >>

\* The flight controller is armed or disarmed. A unit that uses another link than
\* WiFi has no listener.
update_arming_state ==
    /\ Event("fc") /\ main = "run" /\ arm.cb = None
    /\ arm' = [arm EXCEPT !.armed = ~@, !.cb = IF unit.link = "wifi" THEN "update" ELSE None]
    /\ calm' = (calm /\ par = None)
    /\ UNCHANGED << unit, main, deviceVars, wifi, set, net, jobs, par, ctl >>

\* The listener decides, and then acts on the hotspot it has looked at.
arming_decides ==
    /\ arm.cb = "update"
    /\ LET want == update_wifi_hotspot_enable(net) IN
       arm' = IF want = None THEN [arm EXCEPT !.cb = None]
              ELSE [arm EXCEPT !.cb = "act", !.on = (want = "enable"), !.id = net.hot.id]
    /\ UNCHANGED << unit, main, deviceVars, events, wifi, set, net, jobs, par, calm, ctl >>
arming_acts ==
    /\ arm.cb = "act" /\ arm' = [arm EXCEPT !.cb = None]
    /\ \/ /\ arm.id = net.hot.id /\ UNCHANGED main
          /\ set_enabled_async(net, IF arm.on THEN "enable" ELSE "disable")
       \* the hotspot is destroyed meanwhile
       \/ /\ arm.id # net.hot.id /\ main' \in {main, "dead"}
          /\ jobs' \in {jobs, Append(jobs, [id |-> arm.id, up |-> arm.on])}
          /\ calm' = FALSE /\ UNCHANGED net
    /\ UNCHANGED << unit, deviceVars, events, wifi, set, par, ctl >>

\* start and stop, in any order; a hotspot that was never started is not stopped.
nmcli(i) ==
    LET j == jobs[i]
        mine == j.id = net.hot.id
    IN  /\ jobs' = RemoveAt(jobs, i)
        /\ \/ /\ mine /\ UNCHANGED << main, calm >>
              /\ net' = IF j.up THEN [net EXCEPT !.hs.up = net.hs # NoProfile, !.hot.started = TRUE]
                        ELSE [net EXCEPT !.hs.up = @ /\ ~net.hot.started]
           \* the hotspot is destroyed meanwhile
           \/ /\ ~mine /\ main' \in {main, "dead"} /\ calm' = FALSE
              /\ net' \in {net, [net EXCEPT !.hs.up = j.up /\ net.hs # NoProfile]}
        /\ UNCHANGED << unit, deviceVars, events, wifi, set, arm, par, ctl >>

---------------------------------------------------------------------------
(* apply_link_control: the control server hands on up to five values, one   *)
(* after the other. Frequency, width, MCS and power of a card wait for the  *)
(* worker of the link, which takes one at a time; the power level does not. *)

Requests == << "frequency", "width", "mcs", "level", "power" >>
Scheduled == {"frequency", "width", "mcs", "power"}

control_request ==
    /\ Event("control") /\ main = "run" /\ wifi.mon # {} /\ ctl.todo = {}
    /\ \E a \in SUBSET ToSet(Requests) :
         a # {} /\ ctl' = [ctl EXCEPT !.todo = a, !.asked = a, !.took = {}, !.ok = TRUE]
    /\ UNCHANGED << unit, main, deviceVars, wifi, set, net, jobs, arm, par, calm >>

NextRequest(r) ==
    \E i \in 1 .. Len(Requests) :
        /\ Requests[i] = r /\ r \in ctl.todo
        /\ \A j \in 1 .. (i - 1) : Requests[j] \notin ctl.todo

\* A value is invalid or is taken, unless the queue is full.
MutApplyLinkControl ==
    /\ \E r \in ctl.todo : NextRequest(r) /\
       \E takes \in {r \notin Scheduled \/ ~ctl.queue, FALSE} :
         ctl' = [ctl EXCEPT !.todo = @ \ {r}, !.ok = takes,
                            !.took = IF takes THEN @ \cup {r} ELSE @,
                            !.queue = @ \/ (takes /\ r \in Scheduled)]
    /\ UNCHANGED << unit, main, deviceVars, events, wifi, set, net, jobs, arm, par, calm >>
apply_link_control ==
    /\ \E r \in ctl.todo : NextRequest(r) /\
       \E takes \in {r \notin Scheduled \/ ~ctl.queue, FALSE} :
         ctl' = [ctl EXCEPT !.todo = @ \ {r}, !.ok = @ /\ takes,
                            !.took = IF takes THEN @ \cup {r} ELSE @,
                            !.queue = @ \/ (takes /\ r \in Scheduled)]
    /\ UNCHANGED << unit, main, deviceVars, events, wifi, set, net, jobs, arm, par, calm >>

link_worker ==
    /\ ctl.queue /\ ctl' = [ctl EXCEPT !.queue = FALSE]
    /\ UNCHANGED << unit, main, deviceVars, events, wifi, set, net, jobs, arm, par, calm >>

---------------------------------------------------------------------------
(* The life of the modules.                                                 *)

MainStep(from, to) == main = from /\ main' = to /\ UNCHANGED << unit, events >>

create_telemetry ==
    /\ MainStep("boot", IF unit.link = "wifi" THEN "cards" ELSE "video")
    /\ IF unit.air THEN UNCHANGED << listeners, dest >> ELSE register_listener("telemetry")
    /\ UNCHANGED << dev, removed, owners, usb, eth, tcp, wifiVars >>

\* Commands for a card that has gone fail, which nobody notices.
nmcli_set_device_managed_status(w, cards, managed) ==
    [w EXCEPT !.own = IF managed THEN @ \ cards ELSE @ \cup (cards \cap w.there)]
iw_enable_monitor_mode(w, cards) == [w EXCEPT !.mode = @ \cup (cards \cap w.there)]

\* A Qualcomm card ends the takeover: the cards before it are taken from
\* NetworkManager, but none is put into monitor mode.
Qualcomm == {c \in wifi.mon \ {Emulated} : CardType[c] = "qualcomm"}
UpToQualcomm ==
    {c \in wifi.mon \ ({Emulated} \cup Qualcomm) : \A q \in Qualcomm : ~reorder_monitor_mode_cards(q, c)}
takeover_cards_monitor_mode ==
    /\ MainStep("monitor", IF Qualcomm = {} /\ Emulated \notin wifi.mon THEN "taken" ELSE "link")
    /\ wifi' = nmcli_set_device_managed_status(wifi, UpToQualcomm, FALSE)
    /\ UNCHANGED << deviceVars, set, net, jobs, arm, par, calm, ctl >>

\* A second later.
monitor_mode ==
    /\ MainStep("taken", "link")
    /\ wifi' = iw_enable_monitor_mode(wifi, wifi.mon)
    /\ UNCHANGED << deviceVars, set, net, jobs, arm, par, calm, ctl >>

giveback_cards_monitor_mode ==
    wifi' = IF Emulated \in wifi.mon THEN wifi
            ELSE nmcli_set_device_managed_status(wifi, wifi.mon, TRUE)

\* The link, and on the ground the threads that look for devices.
create_link ==
    /\ MainStep("link", "mode")
    /\ IF unit.air THEN UNCHANGED << usb, eth >>
       ELSE usb' = [usb EXCEPT !.pc = "find"] /\ eth' = [eth EXCEPT !.pc = "loop"]
    /\ UNCHANGED << dev, removed, listeners, dest, owners, tcp, wifiVars >>

\* The legacy setting of a local network makes the unit a client of it.
use_local_network ==
    IF ~unit.localnet THEN set
    ELSE [set EXCEPT !.cred = TRUE, !.mode = IF @ = "hotspot" THEN "client" ELSE @,
                     !.clif = IF @ = None THEN wifi.spare ELSE @]

first_operating_mode ==
    /\ MainStep("mode", "apply")
    /\ set' = use_local_network
    /\ UNCHANGED << deviceVars, wifi, net, jobs, arm, par, calm, ctl >>
created ==
    /\ MainStep("apply", "video")
    /\ \E answered, connects \in BOOLEAN : apply_wifi_operating_mode(answered, connects)
    /\ UNCHANGED << deviceVars, wifi, set, arm, par, ctl >>

create_video ==
    /\ MainStep("video", "run")
    /\ register_listener("video")
    /\ UNCHANGED << dev, removed, owners, usb, eth, tcp, wifiVars >>

\* A control request in progress does not keep main() from ending; the control
\* server joins its thread before it lets go of the interface.
stop_communication ==
    /\ MainStep("run", "removed")
    /\ remove_all
    /\ UNCHANGED << listeners, owners, usb, eth, tcp, wifiVars >>

destroy_video ==
    /\ MainStep("removed", "stopping")
    /\ UNCHANGED << deviceVars, wifiVars >>

destroy_telemetry ==
    /\ MainStep("stopping", "leave")
    /\ ServerJoined /\ par = None /\ arm.cb = None
    /\ UNCHANGED << deviceVars, wifiVars >>

\* ~OHDInterface joins the threads of ethernet and USB.
destroy_interface ==
    /\ MainStep("leave", "off")
    /\ eth.pc \in {None, "end"} /\ usb.pc \in {None, "end"} /\ ctl.todo = {}
    /\ net' = destroy_hotspot(stop_wifi_client(net))
    /\ giveback_cards_monitor_mode
    /\ UNCHANGED << deviceVars, set, jobs, arm, par, calm, ctl >>

Main ==
    \/ create_telemetry \/ main_discover_an_process_wifi_cards
    \/ takeover_cards_monitor_mode \/ monitor_mode \/ create_link \/ first_operating_mode \/ created \/ create_video
    \/ destroy_video \/ destroy_telemetry \/ destroy_interface

Alive == main \notin {"off", "dead"}
Parameter == Alive /\ apply_parameter
Arming == Alive /\ (arming_decides \/ arming_acts)
Control == Alive /\ apply_link_control
Commands == Alive /\ \E i \in 1 .. Len(jobs) : nmcli(i)
Usb == Alive /\ (usb_find \/ usb_connect \/ usb_watch) /\ UNCHANGED wifiVars
Ethernet == Alive /\ (eth_loop \/ eth_wait \/ eth_connect \/ eth_watch) /\ UNCHANGED wifiVars
Client(c) == Alive /\ (loop_accept(c) \/ loop_rx(c)) /\ UNCHANGED wifiVars

InterfaceNext ==
    \/ Main \/ stop_communication
    \/ Parameter \/ Arming \/ Control \/ Commands \/ Usb \/ Ethernet
    \/ \E c \in Clients : Client(c)
    \/ link_worker \/ set_parameter \/ update_arming_state \/ control_request \/ card_event
    \/ DeviceEvents /\ UNCHANGED wifiVars

\* Every thread of the program runs.
Fairness ==
    /\ WF_interfaceVars(Main) /\ WF_interfaceVars(Parameter) /\ WF_interfaceVars(Arming) /\ WF_interfaceVars(Control)
    /\ WF_interfaceVars(Usb) /\ WF_interfaceVars(Ethernet) /\ \A c \in Clients : WF_interfaceVars(Client(c))

InterfaceSpec == InterfaceInit /\ [][InterfaceNext]_interfaceVars /\ Fairness

---------------------------------------------------------------------------
HotspotWanted ==
    /\ set.mode = "hotspot" /\ ~unit.noHotspot
    /\ get_configured_hotspot_card(net) # None
    /\ set.hs = "on" \/ (set.hs = "auto" /\ ~arm.armed)

(* When nothing is under way, the hotspot is up exactly if the settings, the *)
(* cards and the arming state ask for it -- provided that no two changes, or *)
(* commands to NetworkManager, have overlapped, and that the hotspot was not *)
(* moved to another card.                                                    *)
HotspotSettles ==
    main \in {"video", "run"} /\ unit.link = "wifi" /\ calm /\ jobs = << >> /\ par = None /\ arm.cb = None =>
        (net.hs.up <=> HotspotWanted)

(* A card for monitor mode is never given to NetworkManager, whatever the    *)
(* configuration and the settings name; the hotspot and the client are never *)
(* both there, however late a command runs.                                  *)
RolesApart ==
    /\ {net.hs.card, net.cl} \cap wifi.mon = {}
    /\ net.cl # None => ~net.hs.up
    /\ par = None /\ main = "run" =>
         /\ set.mode = "client" => net.hs = NoProfile
         /\ set.mode = "hotspot" => net.cl = None

(* No card is in monitor mode under NetworkManager's hands, unless it was    *)
(* replugged in the second in which it is taken over, and in the end every   *)
(* card is NetworkManager's again.                                           *)
CardsGivenBack ==
    /\ calm /\ main # "off" => wifi.mode \subseteq wifi.own
    /\ main = "off" => wifi.own = {}

(* What the WiFi cards are used for agrees, once nothing is under way, with  *)
(* the settings (apply_wifi_operating_mode, takeover_cards_monitor_mode).    *)
RolesSettle == HotspotSettles /\ RolesApart /\ CardsGivenBack

(* A control request that is answered with ok has had every value taken,     *)
(* although the link may be busy with the one before.                        *)
AnsweredAsTaken == ctl.todo = {} /\ ctl.ok => ctl.took = ctl.asked

(* Every attached device is served, and nothing but video goes to none       *)
(* (start_stop_forwarding_external_device, register_listener, remove_all).   *)
DevicesServed == VideoGoesToDevices /\ AttachedDevicesServed

(* Once told to end, the program ends: no thread that looks for devices      *)
(* keeps a destructor waiting.                                               *)
StopCompletes == main = "removed" ~> main \in {"off", "dead"}
=============================================================================
