-------------------------- MODULE ExternalDevices --------------------------
(***************************************************************************)
(* ExternalDeviceManager: devices that want a copy of video and telemetry. *)
(* They are found by the USB tethering listener, by the ethernet manager   *)
(* and by the TCP server of telemetry, each on threads of its own, and     *)
(* given to the listeners that keep the destinations.                      *)
(*                                                                         *)
(* A device is known by its address only. "tcp" marks one that was found   *)
(* because it connected to the TCP server.                                 *)
(***************************************************************************)
EXTENDS Integers, FiniteSets, Sequences

CONSTANTS
    Ips,            \* addresses of devices
    Manual,         \* NW_MANUAL_FORWARDING_IPS
    HostIps,        \* what "hostname -I" prints
    Clients,        \* clients of the TCP server
    ClientIp,       \* [Clients -> Ips]
    MaxEvents       \* events from outside: plugs, links, clients, settings

None == "none"

ASSUME DevicesAssumption ==
    /\ Manual \subseteq Ips /\ HostIps \subseteq Ips
    /\ ClientIp \in [Clients -> Ips]
    /\ None \notin Ips /\ Clients \cap {"usb", "eth", "manual"} = {}
    /\ MaxEvents \in Nat

VARIABLES
    unit,       \* the unit and its configuration, as OHDInterface reads them
    main,       \* how far main() has come
    dev,        \* m_curr_ext_devices: by address "local", "tcp" or none
    removed,    \* m_remove_all_called
    listeners,  \* m_callbacks: "telemetry", "video"
    dest,       \* where video, audio and telemetry (udp) go; fwd: the air unit's flag
    owners,     \* by address: who has reported it so far (not in the code)
    usb,        \* USBTetherListener, and the address of what is plugged in
    eth,        \* EthernetManager, and the state of the ethernet port
    tcp,        \* TCPServer: its clients
    events      \* bound: events from outside so far

deviceVars == << dev, removed, listeners, dest, owners, usb, eth, tcp >>

NoDest == [video |-> {}, audio |-> {}, udp |-> {}, fwd |-> FALSE]

InitDevices ==
    /\ dev = [ip \in Ips |-> IF ip \in Manual THEN "local" ELSE None]
    /\ removed = FALSE /\ listeners = {} /\ dest = NoDest
    /\ owners = [ip \in Ips |-> IF ip \in Manual THEN {"manual"} ELSE {}]
    /\ usb = [pc |-> None, ip |-> None, plugged |-> None]
    /\ eth = [pc |-> None, ip |-> None, up |-> FALSE]
    /\ tcp = [c \in Clients |-> [accept |-> None, rx |-> None, open |-> FALSE]]

\* unit.outside: who acts on this unit from outside.
Event(who) == who \in unit.outside /\ events < MaxEvents /\ events' = events + 1

---------------------------------------------------------------------------
(* The listeners.                                                          *)

\* OHDVideoGround and OHDVideoAir. The ground unit never forwards to itself,
\* and keeps the audio forwarder of a device that leaves.
start_stop_forwarding_external_device(d, ip, isTcp, connected) ==
    IF ~unit.air /\ isTcp /\ ip \in HostIps THEN d
    ELSE IF connected
    THEN [d EXCEPT !.video = @ \cup {ip}, !.audio = @ \cup {ip}, !.fwd = unit.air]
    ELSE [d EXCEPT !.video = @ \ {ip}, !.fwd = FALSE,
                   !.audio = IF unit.air THEN @ \ {ip} ELSE @]

\* GroundTelemetry: whoever uses TCP has telemetry already.
external_ground_station_ip(d, ip, isTcp, connected) ==
    IF isTcp THEN d
    ELSE [d EXCEPT !.udp = IF connected THEN @ \cup {ip} ELSE @ \ {ip}]

Notify(l, d, ip, isTcp, connected) ==
    IF l = "video" THEN start_stop_forwarding_external_device(d, ip, isTcp, connected)
    ELSE external_ground_station_ip(d, ip, isTcp, connected)

NotifyAll(d, ip, isTcp, connected) ==
    LET v == IF "video" \in listeners THEN Notify("video", d, ip, isTcp, connected) ELSE d
    IN  IF "telemetry" \in listeners THEN Notify("telemetry", v, ip, isTcp, connected) ELSE v

---------------------------------------------------------------------------
(* The manager; each operation holds its lock.                             *)

on_new_external_device(who, ip, isTcp, connected) ==
    IF removed \/ (connected <=> dev[ip] # None)
    THEN UNCHANGED << dev, dest >> /\ owners' = [owners EXCEPT ![ip] = @ \cup {who}]
    ELSE /\ dev' = [dev EXCEPT ![ip] = IF ~connected THEN None ELSE IF isTcp THEN "tcp" ELSE "local"]
         /\ dest' = NotifyAll(dest, ip, isTcp, connected)
         /\ owners' = [owners EXCEPT ![ip] = @ \cup {who}]

Replay(l, d) ==
    LET told == {ip \in Ips : dev[ip] # None}
        each == [ip \in told |-> Notify(l, d, ip, dev[ip] = "tcp", TRUE)]
    IN  [video |-> d.video \cup UNION {each[ip].video : ip \in told},
         audio |-> d.audio \cup UNION {each[ip].audio : ip \in told},
         udp   |-> d.udp \cup UNION {each[ip].udp : ip \in told},
         fwd   |-> d.fwd \/ \E ip \in told : each[ip].fwd]

register_listener(l) ==
    /\ listeners' = listeners \cup {l} /\ dest' = Replay(l, dest)

\* Mutant: only video is told, and a device may be added again.
MutRemoveAll ==
    /\ removed' = FALSE /\ dev' = [ip \in Ips |-> None]
    /\ dest' = [dest EXCEPT !.video = {}, !.udp = {}, !.fwd = FALSE]

\* Every listener is told that every device is gone.
remove_all ==
    LET there == {ip \in Ips : dev[ip] # None}
        video == {ip \in there : ~unit.air => ~(dev[ip] = "tcp" /\ ip \in HostIps)}
    IN  /\ removed' = TRUE /\ dev' = [ip \in Ips |-> None]
        /\ dest' = [video |-> IF "video" \in listeners THEN dest.video \ video ELSE dest.video,
                    audio |-> IF unit.air THEN dest.audio \ video ELSE dest.audio,
                    udp   |-> dest.udp \ {ip \in there : dev[ip] = "local"},
                    fwd   |-> dest.fwd /\ video = {}]

---------------------------------------------------------------------------
(* USBTetherListener. An interface is watched by its name, so a device that *)
(* is exchanged within a second is not noticed.                             *)

usb_event ==
    /\ Event("usb")
    /\ \E ip \in ((Ips \ HostIps) \cup {None}) \ {usb.plugged} : usb' = [usb EXCEPT !.plugged = ip]
    /\ UNCHANGED << unit, main, dev, removed, listeners, dest, owners, eth, tcp >>

usb_find ==
    /\ usb.pc = "find"
    /\ \/ main = "leave" /\ usb' = [usb EXCEPT !.pc = "end"]
       \/ main # "leave" /\ usb.plugged # None /\ usb' = [usb EXCEPT !.pc = "route"]
    /\ UNCHANGED << unit, main, dev, removed, listeners, dest, owners, eth, tcp, events >>

\* The default route of the interface, if it has one already.
usb_connect ==
    /\ usb.pc = "route"
    /\ \/ /\ usb.plugged # None
          /\ usb' = [usb EXCEPT !.pc = "watch", !.ip = usb.plugged]
          /\ on_new_external_device("usb", usb.plugged, FALSE, TRUE)
       \/ usb' = [usb EXCEPT !.pc = "find"] /\ UNCHANGED << dev, dest, owners >>
    /\ UNCHANGED << unit, main, removed, listeners, eth, tcp, events >>

usb_watch ==
    /\ usb.pc = "watch" /\ (usb.plugged = None \/ main = "leave")
    /\ usb' = [usb EXCEPT !.pc = "find", !.ip = None]
    /\ on_new_external_device("usb", usb.ip, FALSE, FALSE)
    /\ UNCHANGED << unit, main, removed, listeners, eth, tcp, events >>

---------------------------------------------------------------------------
(* EthernetManager, with ethernet_operating_mode as it was at the start:    *)
(* only in mode "external" the thread stays.                                *)

eth_event ==
    /\ Event("eth") /\ eth' = [eth EXCEPT !.up = ~@]
    /\ UNCHANGED << unit, main, dev, removed, listeners, dest, owners, usb, tcp >>

\* loop and configure: the card's name is known, or looked for once a second.
eth_loop ==
    /\ eth.pc = "loop"
    /\ \/ unit.eth # "external" /\ eth' = [eth EXCEPT !.pc = "end"]
       \/ unit.eth = "external" /\ eth' = [eth EXCEPT !.pc = "wait"]
       \/ main = "leave" /\ eth' = [eth EXCEPT !.pc = "end"]
    /\ UNCHANGED << unit, main, dev, removed, listeners, dest, owners, usb, tcp, events >>

\* loop_ethernet_external_device_listener; told to end, it still asks for the route.
eth_wait ==
    /\ eth.pc = "wait" /\ (eth.up \/ main = "leave")
    /\ eth' = [eth EXCEPT !.pc = "route"]
    /\ UNCHANGED << unit, main, dev, removed, listeners, dest, owners, usb, tcp, events >>

eth_connect ==
    /\ eth.pc = "route"
    /\ \/ \E ip \in Ips \ HostIps :
            /\ eth.up
            /\ eth' = [eth EXCEPT !.pc = "watch", !.ip = ip]
            /\ on_new_external_device("eth", ip, FALSE, TRUE)
       \/ /\ eth' = [eth EXCEPT !.pc = IF main = "leave" THEN "end" ELSE "wait"]
          /\ UNCHANGED << dev, dest, owners >>
    /\ UNCHANGED << unit, main, removed, listeners, usb, tcp, events >>

\* Mutant: a listener that is to end waits for the cable to be pulled.
MutEthWatch ==
    /\ eth.pc = "watch" /\ ~eth.up
    /\ eth' = [eth EXCEPT !.pc = IF main = "leave" THEN "end" ELSE "wait", !.ip = None]
    /\ on_new_external_device("eth", eth.ip, FALSE, FALSE)
    /\ UNCHANGED << unit, main, removed, listeners, usb, tcp, events >>

eth_watch ==
    /\ eth.pc = "watch" /\ (~eth.up \/ main = "leave")
    /\ eth' = [eth EXCEPT !.pc = IF main = "leave" THEN "end" ELSE "wait", !.ip = None]
    /\ on_new_external_device("eth", eth.ip, FALSE, FALSE)
    /\ UNCHANGED << unit, main, removed, listeners, usb, tcp, events >>

---------------------------------------------------------------------------
(* The TCP server. The thread that reads from a client is started before    *)
(* the client is reported, so that a client that leaves at once may be      *)
(* reported as gone first.                                                  *)

ServerUp == main \notin {"boot", "stopping", "leave", "off", "dead"}

accept(c) ==
    /\ Event("tcp") /\ ServerUp /\ tcp[c].accept = None
    /\ \A o \in Clients : tcp[o].accept # "accepted"
    /\ tcp' = [tcp EXCEPT ![c] = [accept |-> "accepted", rx |-> "reading", open |-> TRUE]]
    /\ UNCHANGED << unit, main, dev, removed, listeners, dest, owners, usb, eth >>

loop_accept(c) ==
    /\ tcp[c].accept = "accepted"
    /\ tcp' = [tcp EXCEPT ![c].accept = "reported"]
    /\ on_new_external_device(c, ClientIp[c], TRUE, TRUE)
    /\ UNCHANGED << unit, main, removed, listeners, usb, eth, events >>

client_leaves(c) ==
    /\ Event("tcp") /\ tcp[c].open /\ tcp' = [tcp EXCEPT ![c].open = FALSE]
    /\ UNCHANGED << unit, main, dev, removed, listeners, dest, owners, usb, eth >>

\* Once the server is being destroyed on_external_device is pure virtual: the
\* call ends the program.
loop_rx(c) ==
    /\ tcp[c].rx = "reading"
    /\ \/ /\ main # "stopping" /\ ~tcp[c].open
          /\ on_new_external_device(c, ClientIp[c], TRUE, FALSE) /\ UNCHANGED main
       \/ /\ main = "stopping" /\ main' = "dead" /\ UNCHANGED << dev, dest, owners >>
    /\ tcp' = [tcp EXCEPT ![c].rx = "done"]
    /\ UNCHANGED << unit, removed, listeners, usb, eth, events >>

\* ~TCPServer joins the thread that accepts, then those that read.
ServerJoined == \A c \in Clients : tcp[c].accept # "accepted" /\ tcp[c].rx # "reading"

DeviceEvents ==
    \/ usb.pc # None /\ main # "leave" /\ (usb_event \/ eth_event)
    \/ \E c \in Clients : accept(c) \/ client_leaves(c)

---------------------------------------------------------------------------
(* Video goes to the devices the manager knows, whenever the listeners were *)
(* registered, and to nobody once the program is ending, although threads   *)
(* go on reporting devices to listeners that are being destroyed. Forwarding *)
(* to an own address that was entered by hand is never stopped on ground     *)
(* once a client with that address has left.                                 *)
OwnByHand == Manual \cap HostIps
VideoGoesToDevices ==
    /\ "video" \in listeners =>
         \A ip \in Ips \ OwnByHand :
            ip \in dest.video <=> dev[ip] # None /\ (~unit.air => ~(dev[ip] = "tcp" /\ ip \in HostIps))
    /\ main \in {"removed", "stopping", "leave", "off"} => dest.video \subseteq OwnByHand

\* The address a thread has reported and not taken back.
Attached(who) ==
    CASE who = "usb" -> IF usb.pc = "watch" THEN {usb.ip} ELSE {}
      [] who = "eth" -> IF eth.pc = "watch" THEN {eth.ip} ELSE {}
      [] who = "manual" -> Manual
      [] OTHER -> IF tcp[who].accept = "reported" /\ tcp[who].rx = "reading"
                  THEN {ClientIp[who]} \ HostIps ELSE {}

(* A device that only one thread has ever reported is served exactly while   *)
(* that thread sees it (a client of the TCP server: at least while).         *)
AttachedDevicesServed ==
    "video" \in listeners /\ ~removed =>
        \A who \in {"usb", "eth", "manual"} \cup Clients : \A ip \in Ips :
            owners[ip] = {who} =>
                /\ ip \in Attached(who) => ip \in dest.video
                /\ who \notin Clients =>
                     /\ ip \in dest.video => ip \in Attached(who)
                     /\ ~unit.air => (ip \in dest.udp <=> ip \in Attached(who))

(* The same for telemetry, whoever reported the device.                      *)
TelemetryGoesToDevices ==
    "telemetry" \in listeners => dest.udp = {ip \in Ips : dev[ip] = "local"}
=============================================================================
